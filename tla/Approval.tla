-------------------------------- MODULE Approval --------------------------------
(***************************************************************************)
(* Authenticated one-shot approvals: the processes that share the request  *)
(* directory of ApprovalStore, step by step, and what changes around them. *)
(*                                                                         *)
(*   - one `guard' process per request, in agent-relay mode: it finds its  *)
(*     command gated and files a request for it (main.go, runGuard);       *)
(*   - any number of `kubectl-guard approve <id>' processes (runApprove);  *)
(*   - one `kubectl-guard approval setup' process (runApprovalCommand);    *)
(*   - the world: clock, policy, kubeconfig, sudoers, disk, an editor.     *)
(*                                                                         *)
(* Any process may crash between two steps.                                *)
(***************************************************************************)
EXTENDS ApprovalStore, FiniteSets

CONSTANTS
  Approvers,  \* the `approve' processes
  Enrollers,  \* the `approval setup' processes
  Policies,   \* the readable policies of a run, a subset of Policy
  Unreadable, \* the policy when LoadEffective fails
  ContextOf,  \* the context the command means under the kubeconfig of a site
  MaxUpsets   \* bound: how often the world changes or a process is killed

(***************************************************************************)
(* What approvals see of a policy: whether Check answers                   *)
(* RequireConfirmation for the command, require_justification, and whether *)
(* ShouldAudit admits the outcomes written here (audit_mode is not off).   *)
(***************************************************************************)
Policy == [gates : BOOLEAN, justify : BOOLEAN, audits : BOOLEAN]

Procs == Requests \cup Approvers \cup Enrollers

ASSUME ApprovalAssumption ==
  /\ Policies \subseteq Policy
  /\ Unreadable \notin Policy
  /\ ContextOf \in [Sites -> Contexts]
  /\ MaxUpsets \in Nat
  /\ Approvers \cap Requests = {}
  /\ Enrollers \cap (Approvers \cup Requests) = {}
  /\ Absent \notin Requests \cup Sites

VARIABLES
  policy,    \* the effective config on disk
  target,    \* the site captureApprovalTarget would find
  nopasswd,  \* sudo validates without a human
  enrolled,  \* ~/.kubectl-guard/approval.json: "no", "yes" or "invalid"
  writable,  \* the audit log can be appended to
  upsets,    \* changes of the world and kills that are left
  pc,        \* the next step of each process
  id,        \* approver: the request ID it is given
  reason,    \* approver: whether --reason is given
  seen,      \* approver: the request Load returned, which the human reads
  ctx,       \* the context Check returned last
  snap,      \* guard: the snapshot the request will carry
  base,      \* the config Check (LoadEffective) returned last: baseCfg
  log,       \* history: appends to the audit log
  auth,      \* history: approver, set-up: who satisfied PAM
  authAt,    \* history: approver: when
  ran,       \* history: approver: the site kubectl was started against
  window,    \* history: what changed under a process after it last looked
  posted,    \* history: the file each request was published with
  damaged    \* history: requests whose file was made malformed

worldVars == <<policy, target, nopasswd, enrolled, writable, upsets>>
procVars == <<pc, id, reason, seen, ctx, snap, base>>
historyVars == <<log, auth, authAt, ran, window, posted, damaged>>
vars == <<storeVars, worldVars, procVars, historyVars>>

Outcomes == {"denied", "relayed", "approval-rejected", "authentication-failed",
             "approval-consumed", "approval-exec-failed"}

RelayPCs == {"idle", "probe", "enrolled", "capture", "prune", "write", "publish",
             "report"}
ApproverPCs == {"idle", "load", "check", "capture", "probe", "pam", "claim", "read",
                "recheck", "recapture", "record", "exec", "executed"}
SetupPCs == {"idle", "probe", "reprobe", "pam", "enable"}
Stopped == {"done", "executed", "enabled", "crashed"}

\* After the claim and before kubectl starts, or the claim is given up.
Holding == {"read", "recheck", "recapture", "record", "exec"}

\* Type invariant.
TypeOK ==
  /\ StoreTypeOK
  /\ policy \in Policies \cup {Unreadable}
  /\ target \in Sites
  /\ nopasswd \in BOOLEAN
  /\ enrolled \in {"no", "yes", "invalid"}
  /\ writable \in BOOLEAN
  /\ upsets \in 0 .. MaxUpsets
  /\ pc \in [Procs -> RelayPCs \cup ApproverPCs \cup SetupPCs \cup Stopped]
  /\ id \in [Approvers -> Requests]
  /\ reason \in [Approvers -> BOOLEAN]
  /\ seen \in [Approvers -> File \cup {Absent}]
  /\ ctx \in [Procs -> Contexts]
  /\ snap \in [Requests -> Snapshots]
  /\ base \in [Procs -> Policies \cup {Unreadable}]
  /\ log \in SUBSET [by : Procs, outcome : Outcomes \cup {"unwritten"}]
  /\ auth \in [Approvers \cup Enrollers -> {"none", "human", "machine"}]
  /\ authAt \in [Approvers -> 0 .. MaxTime]
  /\ ran \in [Approvers -> Sites \cup {Absent}]
  /\ window \in [Procs -> SUBSET {"target", "sudo", "request"}]
  /\ posted \in [Requests -> File \cup {Absent}]
  /\ damaged \in SUBSET Requests

Init ==
  /\ StoreInit
  /\ policy \in {p \in Policies : p.gates}
  /\ target \in Sites
  /\ nopasswd = FALSE
  /\ enrolled \in {"no", "yes"}
  /\ writable = TRUE
  /\ upsets = MaxUpsets
  /\ pc = [p \in Procs |-> "idle"]
  /\ id \in [Approvers -> Requests]
  /\ reason \in [Approvers -> BOOLEAN]
  /\ seen = [a \in Approvers |-> Absent]
  /\ ctx = [p \in Procs |-> ContextOf[target]]
  /\ snap = [r \in Requests |-> [ctx |-> ContextOf[target], site |-> target]]
  /\ base = [p \in Procs |-> Unreadable]
  /\ log = {}
  /\ auth = [a \in Approvers \cup Enrollers |-> "none"]
  /\ authAt = [a \in Approvers |-> 0]
  /\ ran = [a \in Approvers |-> Absent]
  /\ window = [p \in Procs |-> {}]
  /\ posted = [r \in Requests |-> Absent]
  /\ damaged = {}

-----------------------------------------------------------------------------
(***************************************************************************)
(* Shared steps.                                                           *)
(***************************************************************************)
At(p, step) == pc[p] = step
Goto(p, step) == pc' = [pc EXCEPT ![p] = step]

\* Under cfg AppendAudit writes nothing, and that is no error.
Silent(cfg) == IF cfg = Unreadable THEN TRUE ELSE ~cfg.audits

\* AppendAudit(cfg, outcome) on behalf of p.
Append(p, cfg, outcome) ==
  log' = IF Silent(cfg) THEN log
         ELSE log \cup {[by |-> p,
                         outcome |-> IF writable THEN outcome ELSE "unwritten"]}

\* Faulty variant of Fresh: the capture fails and its error is dropped.
FreshUnlessFailed(p) == [ctx |-> ctx[p], site |-> Absent]

\* captureApprovalTarget for the context Check returned.
Fresh(p) == [ctx |-> ctx[p], site |-> target]

-----------------------------------------------------------------------------
(***************************************************************************)
(* `guard' in agent-relay mode, one process per request.  It is the        *)
(* RequireConfirmation branch of runGuard, entered when Check gates the    *)
(* command, so a relay starts only then.                                   *)
(***************************************************************************)
relaySame == UNCHANGED <<worldVars, id, reason, seen, auth, authAt, ran, window, damaged>>

RelayCheck(r) ==
  /\ At(r, "idle")
  /\ IF policy = Unreadable THEN FALSE ELSE policy.gates
  /\ base' = [base EXCEPT ![r] = policy]
  /\ ctx' = [ctx EXCEPT ![r] = ContextOf[target]]
  /\ Goto(r, "probe")
  /\ UNCHANGED <<storeVars, snap, log, posted>> /\ relaySame

\* HumanPresenceRequired: sudo that validates without a human refuses the relay.
RelayProbe(r) ==
  /\ At(r, "probe")
  /\ \/ nopasswd /\ Append(r, base[r], "denied") /\ Goto(r, "done")
     \/ ~nopasswd /\ Goto(r, "enrolled") /\ UNCHANGED log
  /\ UNCHANGED <<storeVars, ctx, snap, base, posted>> /\ relaySame

\* Approvals not set up are reported; an unreadable set-up file is an error.
RelayEnrolled(r) ==
  /\ At(r, "enrolled")
  /\ \/ enrolled = "yes" /\ Goto(r, "capture") /\ UNCHANGED log
     \/ enrolled = "no" /\ Append(r, base[r], "relayed") /\ Goto(r, "done")
     \/ enrolled = "invalid" /\ Goto(r, "done") /\ UNCHANGED log
  /\ UNCHANGED <<storeVars, ctx, snap, base, posted>> /\ relaySame

RelayCapture(r) ==
  /\ At(r, "capture")
  /\ snap' = [snap EXCEPT ![r] = Fresh(r)]
  /\ Goto(r, "prune")
  /\ UNCHANGED <<storeVars, ctx, base, log, posted>> /\ relaySame

\* Create: PruneExpired ...
RelayPrune(r) ==
  /\ At(r, "prune")
  /\ Prune(Requests)
  /\ Goto(r, "write")
  /\ UNCHANGED <<now, taken, temp, ctx, snap, base, log, posted>> /\ relaySame

\* ... the temporary file ...
RelayWrite(r) ==
  /\ At(r, "write")
  /\ WriteTemp(r, snap[r])
  /\ Goto(r, "publish")
  /\ UNCHANGED <<now, pending, taken, ctx, snap, base, log, posted>> /\ relaySame

\* ... and the rename.
RelayPublish(r) ==
  /\ At(r, "publish")
  /\ Publish(r)
  /\ posted' = [posted EXCEPT ![r] = temp[r]]
  /\ Goto(r, "report")
  /\ UNCHANGED <<now, taken, ctx, snap, base, log>> /\ relaySame

RelayReport(r) ==
  /\ At(r, "report")
  /\ Append(r, base[r], "relayed")
  /\ Goto(r, "done")
  /\ UNCHANGED <<storeVars, ctx, snap, base, posted>> /\ relaySame

\* An I/O error on the way to the rename: no request, and no audit entry.
RelayFails(r) ==
  /\ pc[r] \in {"capture", "prune", "write", "publish"}
  /\ IF At(r, "prune") THEN \E S \in SUBSET Requests : Prune(S)
                       ELSE UNCHANGED pending
  /\ RemoveTemp(r)
  /\ Goto(r, "done")
  /\ UNCHANGED <<now, taken, ctx, snap, base, log, posted>> /\ relaySame

Relay(r) ==
  \/ RelayCheck(r) \/ RelayProbe(r) \/ RelayEnrolled(r) \/ RelayCapture(r)
  \/ RelayPrune(r) \/ RelayWrite(r) \/ RelayPublish(r) \/ RelayReport(r)
  \/ RelayFails(r)

-----------------------------------------------------------------------------
(***************************************************************************)
(* `kubectl-guard approve <id>'.                                           *)
(***************************************************************************)
approveSame == UNCHANGED <<worldVars, temp, snap, now, window, posted, damaged>>
localSame == UNCHANGED <<id, reason, seen, ctx, base>>
passed == UNCHANGED <<auth, authAt, ran>>

\* Faulty variant of Reject: nothing is audited.
RejectUnaudited(a, cfg) == UNCHANGED log /\ Goto(a, "done")

\* auditFailure under cfg, and the process exits.
Reject(a, cfg) == Append(a, cfg, "approval-rejected") /\ Goto(a, "done")

\* LoadEffective, Enabled and the options.
Begin(a) ==
  /\ At(a, "idle")
  /\ base' = [base EXCEPT ![a] = policy]
  /\ IF enrolled = "yes" THEN Goto(a, "load") /\ UNCHANGED log
                         ELSE Reject(a, policy)
  /\ UNCHANGED <<pending, taken, id, reason, seen, ctx>> /\ approveSame /\ passed

LoadRequest(a) ==
  /\ At(a, "load")
  /\ DropIfExpired(id[a])
  /\ IF Accepts(pending[id[a]])
       THEN /\ seen' = [seen EXCEPT ![a] = pending[id[a]]]
            /\ Goto(a, "check")
            /\ UNCHANGED log
       ELSE Reject(a, base[a]) /\ UNCHANGED seen
  /\ UNCHANGED <<taken, id, reason, ctx, base>> /\ approveSame /\ passed

\* Check returns RequireConfirmation.
Gated(cfg) == IF cfg = Unreadable THEN FALSE ELSE cfg.gates
NeedsReason(cfg) == IF cfg = Unreadable THEN FALSE ELSE cfg.justify

\* A config Check cannot load leaves baseCfg as it was: the rejection is
\* audited under the earlier one.
FirstCheck(a) ==
  /\ At(a, "check")
  /\ base' = [base EXCEPT ![a] = IF policy = Unreadable THEN @ ELSE policy]
  /\ ctx' = [ctx EXCEPT ![a] = ContextOf[target]]
  /\ IF Gated(policy) /\ (NeedsReason(policy) => reason[a])
       THEN Goto(a, "capture") /\ UNCHANGED log
       ELSE Reject(a, base'[a])
  /\ UNCHANGED <<pending, taken, id, reason, seen>> /\ approveSame /\ passed

\* TargetSnapshot.Equal, then the request is shown to the human.
FirstCapture(a) ==
  /\ At(a, "capture")
  /\ IF seen[a].bound = Fresh(a) THEN Goto(a, "probe") /\ UNCHANGED log
                                 ELSE Reject(a, base[a])
  /\ UNCHANGED <<pending, taken>> /\ localSame /\ approveSame /\ passed

AuthFails(a) == Append(a, base[a], "authentication-failed") /\ Goto(a, "done")

\* Faulty variant of Probe: sudo is not asked whether it needs a human.
ProbeSkipped(a) ==
  /\ At(a, "probe")
  /\ Goto(a, "pam")
  /\ UNCHANGED <<log, pending, taken>> /\ localSame /\ approveSame /\ passed

\* Authenticate: the probe for sudo that needs no human ...
Probe(a) ==
  /\ At(a, "probe")
  /\ IF nopasswd THEN AuthFails(a) ELSE Goto(a, "pam") /\ UNCHANGED log
  /\ UNCHANGED <<pending, taken>> /\ localSame /\ approveSame /\ passed

\* ... then `sudo -k -v', answered by a human, or by no one when sudoers
\* changed since the probe.  A wrong answer, and a timestamp that cannot be
\* invalidated afterwards, refuse.
Pam(a) ==
  /\ At(a, "pam")
  /\ \/ /\ auth' = [auth EXCEPT ![a] = IF nopasswd THEN "machine" ELSE "human"]
        /\ authAt' = [authAt EXCEPT ![a] = now]
        /\ Goto(a, "claim")
        /\ UNCHANGED log
     \/ AuthFails(a) /\ UNCHANGED <<auth, authAt>>
  /\ UNCHANGED <<pending, taken, ran>> /\ localSame /\ approveSame

\* Faulty variant of ClaimRename: it waits for the file.
ClaimWaits(a) ==
  /\ At(a, "claim")
  /\ TakeAway(id[a]) /\ Goto(a, "read") /\ UNCHANGED log
  /\ localSame /\ approveSame /\ passed

\* Claim: the rename.  It fails when another process took the request, and
\* may fail for another reason.
ClaimRename(a) ==
  /\ At(a, "claim")
  /\ \/ TakeAway(id[a]) /\ Goto(a, "read") /\ UNCHANGED log
     \/ Reject(a, base[a]) /\ UNCHANGED <<pending, taken>>
  /\ localSame /\ approveSame /\ passed

\* Faulty variant of SameRequest: the claimed request is not compared.
AnyRequest(a) == TRUE

\* reflect.DeepEqual(claimedReq, req).
SameRequest(a) == taken[id[a]] = seen[a]

\* Claim: the file is read and validated again and removed, and runApprove
\* compares it with what the human saw.  A file that cannot be removed is an
\* error too; the deferred second Remove ignores its own.
ClaimRead(a) ==
  /\ At(a, "read")
  /\ \/ /\ Accepts(taken[id[a]]) /\ SameRequest(a)
        /\ RemoveTaken(id[a])
        /\ Goto(a, "recheck")
        /\ UNCHANGED log
     \/ /\ ~(Accepts(taken[id[a]]) /\ SameRequest(a))
        /\ RemoveTaken(id[a])
        /\ Reject(a, base[a])
     \/ UNCHANGED taken /\ Reject(a, base[a])
  /\ UNCHANGED pending /\ localSame /\ approveSame /\ passed

\* Check again.  baseCfg is replaced even when there is no new config.
Recheck(a) ==
  /\ At(a, "recheck")
  /\ base' = [base EXCEPT ![a] = policy]
  /\ IF Gated(policy) /\ ContextOf[target] = ctx[a]
       THEN Goto(a, "recapture") /\ UNCHANGED log
       ELSE Reject(a, policy)
  /\ ctx' = [ctx EXCEPT ![a] = ContextOf[target]]
  /\ UNCHANGED <<pending, taken, id, reason, seen>> /\ approveSame /\ passed

\* Faulty variant of Recapture: the target is not looked at again.
RecaptureSkipped(a) ==
  /\ At(a, "recapture")
  /\ Goto(a, "record")
  /\ UNCHANGED <<log, pending, taken>> /\ localSame /\ approveSame /\ passed

\* The target, and the kubectl that will be started, once more.
Recapture(a) ==
  /\ At(a, "recapture")
  /\ IF seen[a].bound = Fresh(a) THEN Goto(a, "record") /\ UNCHANGED log
                                 ELSE Reject(a, base[a])
  /\ UNCHANGED <<pending, taken>> /\ localSame /\ approveSame /\ passed

\* Faulty variant of Record: an audit log that cannot be written is ignored.
RecordBestEffort(a) ==
  /\ At(a, "record")
  /\ Append(a, base[a], "approval-consumed")
  /\ Goto(a, "exec")
  /\ UNCHANGED <<pending, taken>> /\ localSame /\ approveSame /\ passed

\* approval-consumed must be on record before kubectl starts.
Record(a) ==
  /\ At(a, "record")
  /\ Append(a, base[a], "approval-consumed")
  /\ Goto(a, IF writable \/ Silent(base[a]) THEN "exec" ELSE "done")
  /\ UNCHANGED <<pending, taken>> /\ localSame /\ approveSame /\ passed

\* ExecKubectlPath replaces the process, or fails.
Exec(a) ==
  /\ At(a, "exec")
  /\ \/ /\ ran' = [ran EXCEPT ![a] = target]
        /\ Goto(a, "executed")
        /\ UNCHANGED log
     \/ /\ Append(a, base[a], "approval-exec-failed")
        /\ Goto(a, "done")
        /\ UNCHANGED ran
  /\ UNCHANGED <<pending, taken, auth, authAt>> /\ localSame /\ approveSame

Approve(a) ==
  \/ Begin(a) \/ LoadRequest(a) \/ FirstCheck(a) \/ FirstCapture(a) \/ Probe(a) \/ Pam(a)
  \/ ClaimRename(a) \/ ClaimRead(a) \/ Recheck(a) \/ Recapture(a)
  \/ Record(a) \/ Exec(a)

-----------------------------------------------------------------------------
(***************************************************************************)
(* `kubectl-guard approval setup': HumanPresenceRequired, Authenticate     *)
(* (which asks the same again), Enable.  Nothing undoes Enable.            *)
(***************************************************************************)
setupSame ==
  /\ UNCHANGED <<storeVars, policy, target, nopasswd, writable, upsets>>
  /\ UNCHANGED <<id, reason, seen, ctx, snap, base>>
  /\ UNCHANGED <<log, authAt, ran, window, posted, damaged>>

SetupBegin(e) ==
  /\ At(e, "idle") /\ Goto(e, "probe")
  /\ UNCHANGED <<auth, enrolled>> /\ setupSame

SetupProbe(e) ==
  /\ \/ At(e, "probe") /\ Goto(e, IF nopasswd THEN "done" ELSE "reprobe")
     \/ At(e, "reprobe") /\ Goto(e, IF nopasswd THEN "done" ELSE "pam")
  /\ UNCHANGED <<auth, enrolled>> /\ setupSame

SetupPam(e) ==
  /\ At(e, "pam")
  /\ \/ /\ auth' = [auth EXCEPT ![e] = IF nopasswd THEN "machine" ELSE "human"]
        /\ Goto(e, "enable")
     \/ Goto(e, "done") /\ UNCHANGED auth
  /\ UNCHANGED enrolled /\ setupSame

\* Enable writes a temporary file and renames it over the old state, or fails.
SetupEnable(e) ==
  /\ At(e, "enable")
  /\ \/ enrolled' = "yes" /\ Goto(e, "enabled")
     \/ UNCHANGED enrolled /\ Goto(e, "done")
  /\ UNCHANGED auth /\ setupSame

Setup(e) == SetupBegin(e) \/ SetupProbe(e) \/ SetupPam(e) \/ SetupEnable(e)

-----------------------------------------------------------------------------
(***************************************************************************)
(* The world.  `window' notes, for a process past its last look at         *)
(* something, that this something has changed since.                       *)
(***************************************************************************)
Noting(what, who) ==
  window' = [p \in Procs |-> IF p \in who THEN window[p] \cup {what} ELSE window[p]]

worldStep ==
  /\ upsets > 0 /\ upsets' = upsets - 1
  /\ UNCHANGED <<now, taken, temp, procVars, log, auth, authAt, ran, posted>>

ChangePolicy ==
  /\ \E q \in (Policies \cup {Unreadable}) \ {policy} : policy' = q
  /\ worldStep
  /\ UNCHANGED <<pending, target, nopasswd, enrolled, writable, window, damaged>>

Retarget ==
  /\ \E s \in Sites \ {target} : target' = s
  /\ Noting("target", {p \in Procs : pc[p] \in {"record", "exec"}})
  /\ worldStep
  /\ UNCHANGED <<pending, policy, nopasswd, enrolled, writable, damaged>>

ChangeSudoers ==
  /\ nopasswd' = ~nopasswd
  /\ Noting("sudo", {p \in Procs : pc[p] = "pam"})
  /\ worldStep
  /\ UNCHANGED <<pending, policy, target, enrolled, writable, damaged>>

ChangeDisk ==
  /\ writable' = ~writable
  /\ worldStep
  /\ UNCHANGED <<pending, policy, target, nopasswd, enrolled, window, damaged>>

SpoilEnrolment ==
  /\ enrolled # "invalid" /\ enrolled' = "invalid"
  /\ worldStep
  /\ UNCHANGED <<pending, policy, target, nopasswd, writable, window, damaged>>

\* An approver is past its last look at <ID>.json from Load to the claim.
EditRequest ==
  /\ \E r \in Requests, b \in Bodies \ {"original"} :
       /\ pending[r] # Absent /\ pending[r].body # b
       /\ pending' = [pending EXCEPT ![r].body = b]
       /\ damaged' = IF b = "malformed" THEN damaged \cup {r} ELSE damaged
       /\ window' = [p \in Procs |->
            IF p \in Approvers
              THEN IF id[p] = r /\ pc[p] \in {"check", "capture", "probe", "pam", "claim"}
                     THEN IF pending'[r] = seen[p] THEN window[p] \ {"request"}
                                                   ELSE window[p] \cup {"request"}
                     ELSE window[p]
              ELSE window[p]]
  /\ worldStep
  /\ UNCHANGED <<policy, target, nopasswd, enrolled, writable>>

ClockTick == Tick /\ UNCHANGED <<worldVars, procVars, historyVars>>

World ==
  \/ ChangePolicy \/ Retarget \/ ChangeSudoers \/ ChangeDisk \/ SpoilEnrolment
  \/ EditRequest \/ ClockTick

\* A process is killed between two of its steps.
Crash(p) ==
  /\ pc[p] \notin Stopped \cup {"idle"}
  /\ upsets > 0 /\ upsets' = upsets - 1
  /\ Goto(p, "crashed")
  /\ UNCHANGED <<policy, target, nopasswd, enrolled, writable>>
  /\ UNCHANGED <<storeVars, historyVars, id, reason, seen, ctx, snap, base>>

Next ==
  \/ \E r \in Requests : Relay(r)
  \/ \E a \in Approvers : Approve(a)
  \/ \E e \in Enrollers : Setup(e)
  \/ World
  \/ \E p \in Procs : Crash(p)

Spec == Init /\ [][Next]_vars

-----------------------------------------------------------------------------
(***************************************************************************)
(* Properties.                                                             *)
(***************************************************************************)
Recorded(p, outcome) == [by |-> p, outcome |-> outcome] \in log

\* The approver went through with its request: on record, or kubectl started.
Committed(a) == Recorded(a, "approval-consumed") \/ ran[a] # Absent

\* It took the request, and has not given up.
Winner(a) == pc[a] \in Holding \/ Committed(a)

(***************************************************************************)
(* However many humans approve the same request at once, and whatever      *)
(* crashes, one approval of it goes through (store.go, Claim; README,      *)
(* "cannot be used twice").                                                *)
(***************************************************************************)
AtMostOnce ==
  \A a, b \in Approvers : a # b /\ id[a] = id[b] => ~(Committed(a) /\ Committed(b))

(***************************************************************************)
(* Nothing runs, and approvals are not set up, unless a human authenticated*)
(* for it; the one gap is a sudoers file that stops asking for a password  *)
(* between HumanPresenceRequired and `sudo -v' (auth.go).                  *)
(***************************************************************************)
HumanApproved ==
  \A p \in Approvers \cup Enrollers :
    (IF p \in Enrollers THEN pc[p] = "enabled" ELSE Committed(p))
      => auth[p] = "human" \/ "sudo" \in window[p]

(***************************************************************************)
(* kubectl starts against the target the request was bound to when it was  *)
(* filed, even if the target moved while the human was deciding.  The gap  *)
(* is a move after the second captureApprovalTarget (main.go).             *)
(***************************************************************************)
ExecutedAsReviewed ==
  \A a \in Approvers :
    ran[a] # Absent => ran[a] = seen[a].bound.site \/ "target" \in window[a]

(***************************************************************************)
(* A request file rewritten between Load, when it is shown, and Claim is   *)
(* not acted upon (main.go, "approval request changed during               *)
(* authentication").                                                       *)
(***************************************************************************)
UneditedRequest == \A a \in Approvers : Committed(a) => "request" \notin window[a]

(***************************************************************************)
(* An approval that goes through was given before the deadline, however    *)
(* long the human took: "Authentication can block for minutes" (main.go).  *)
(***************************************************************************)
InTime == \A a \in Approvers : Committed(a) => authAt[a] < seen[a].expires

(***************************************************************************)
(* A command is on record as approved before it starts, or the policy read *)
(* after authentication records nothing (main.go, "approval consumed but   *)
(* audit failed; command was not executed").                               *)
(***************************************************************************)
RecordedFirst ==
  \A a \in Approvers :
    ran[a] # Absent => Recorded(a, "approval-consumed") \/ Silent(base[a])

(***************************************************************************)
(* Every `approve' that ends without starting kubectl leaves an entry that *)
(* says so, unless its config is unreadable or records nothing.            *)
(***************************************************************************)
Accounted(a) == (\E e \in log : e.by = a) \/ Silent(base[a])
EveryApprovalAccounted == \A a \in Approvers : pc[a] = "done" => Accounted(a)

(***************************************************************************)
(* A request that has been filed, is well-formed and is not yet due is     *)
(* there to be approved until someone has authenticated for it: no prune,  *)
(* failed approval or crash loses it.                                      *)
(***************************************************************************)
OnlyHumansConsume ==
  \A r \in Requests :
    \/ posted[r] = Absent
    \/ now >= posted[r].expires
    \/ r \in damaged
    \/ pending[r] # Absent
    \/ \E a \in Approvers : id[a] = r /\ auth[a] # "none"

(***************************************************************************)
(* Refinement: the processes and files implement OneShotApproval.          *)
(***************************************************************************)
HeldBy(a, r) == id[a] = r /\ (pc[a] \in Holding \/ ran[a] # Absent)

StatusOf(r) ==
  IF posted[r] = Absent THEN "none"
  ELSE IF \E a \in Approvers : id[a] = r /\ ran[a] # Absent THEN "ran"
  ELSE IF \E a \in Approvers : id[a] = r /\ pc[a] \in Holding THEN "held"
  ELSE IF pending[r] # Absent THEN "open"
  ELSE "void"

OneShot == INSTANCE OneShotApproval WITH
  status <- [r \in Requests |-> StatusOf(r)],
  holders <- [r \in Requests |-> {a \in Approvers : HeldBy(a, r)}],
  grants <- {g \in Approvers \X Requests : id[g[1]] = g[2] /\ auth[g[1]] # "none"}

\* The processes implement the promise of OneShotApproval.
ImplementsOneShot == OneShot!Spec

(***************************************************************************)
(* Liveness.  An `approve' process that is past the human is scheduled by  *)
(* the operating system and waits for nothing: its steps are weakly fair.  *)
(* A human need not answer, and nobody need start a process.               *)
(***************************************************************************)
AfterHuman(a) ==
  ClaimRename(a) \/ ClaimRead(a) \/ Recheck(a) \/ Recapture(a) \/ Record(a) \/ Exec(a)

FairSpec == Spec /\ \A a \in Approvers : WF_vars(AfterHuman(a))

(***************************************************************************)
(* Whoever authenticates gets an end to it: kubectl starts, or the refusal *)
(* is accounted for, or the process was killed.  The loser of a race for   *)
(* the same request does not wait for the winner.                          *)
(***************************************************************************)
AuthenticatedRunEnds ==
  \A a \in Approvers :
    auth[a] # "none" ~> \/ pc[a] \in {"executed", "crashed"}
                        \/ pc[a] = "done" /\ Accounted(a)

(***************************************************************************)
(* What the comment before the second Check in runApprove says: "policy    *)
(* ... changes during the prompt fail closed", of require_justification.   *)
(***************************************************************************)
JustifiedByPolicy ==
  \A a \in Approvers : pc[a] = "executed" /\ NeedsReason(base[a]) => reason[a]

=================================================================================
