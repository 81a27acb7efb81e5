---------------------------- MODULE OneShotApproval ----------------------------
(***************************************************************************)
(* What authenticated approvals promise, with no files, clock or policy:   *)
(* a request is taken by one approver that has authenticated for it, and   *)
(* only that approver may run it, once.  A request that is not run ends    *)
(* void, whatever the reason.                                              *)
(***************************************************************************)
CONSTANTS Requests, Approvers

VARIABLES
  status,  \* of each request
  holders, \* holders[r]: the approvers that took r and have not given up
  grants    \* pairs <<a, r>>: a authenticated for r

oneShotVars == <<status, holders, grants>>

Init ==
  /\ status = [r \in Requests |-> "none"]
  /\ holders = [r \in Requests |-> {}]
  /\ grants = {}

Move(r, from, to) == status[r] = from /\ status' = [status EXCEPT ![r] = to]

Post(r) == Move(r, "none", "open") /\ UNCHANGED <<holders, grants>>

\* An approver authenticates for one request, once.
Grant(a, r) ==
  /\ \A q \in Requests : <<a, q>> \notin grants
  /\ grants' = grants \cup {<<a, r>>}
  /\ UNCHANGED <<status, holders>>

Take(a, r) ==
  /\ <<a, r>> \in grants
  /\ Move(r, "open", "held")
  /\ holders' = [holders EXCEPT ![r] = {a}]
  /\ UNCHANGED grants

\* Nobody joins the holder, before it runs the request or after.
Run(r) == Move(r, "held", "ran") /\ UNCHANGED <<holders, grants>>

\* A holder that gives up lets go; the request stays void.
Void(r) ==
  /\ \/ Move(r, "open", "void") /\ UNCHANGED holders
     \/ Move(r, "held", "void") /\ holders' = [holders EXCEPT ![r] = {}]
  /\ UNCHANGED grants

\* PruneExpired voids several requests in one step.
VoidMany(S) ==
  /\ S # {} /\ \A r \in S : status[r] = "open"
  /\ status' = [r \in Requests |-> IF r \in S THEN "void" ELSE status[r]]
  /\ UNCHANGED <<holders, grants>>

Next ==
  \/ \E r \in Requests : Post(r) \/ Run(r) \/ Void(r)
  \/ \E a \in Approvers, r \in Requests : Grant(a, r) \/ Take(a, r)
  \/ \E S \in SUBSET Requests : VoidMany(S)

Spec == Init /\ [][Next]_oneShotVars

================================================================================
