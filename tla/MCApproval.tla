------------------------------- MODULE MCApproval -------------------------------
(***************************************************************************)
(* Small instances of Approval for TLC.                                    *)
(***************************************************************************)
EXTENDS Approval, TLC

Lenient == [gates |-> TRUE, justify |-> FALSE, audits |-> TRUE]
Strict == [gates |-> TRUE, justify |-> TRUE, audits |-> TRUE]
Quiet == [gates |-> TRUE, justify |-> FALSE, audits |-> FALSE]
Blocking == [gates |-> FALSE, justify |-> FALSE, audits |-> TRUE]

MCPolicies == {Lenient, Strict, Quiet, Blocking}
MCFewPolicies == {Lenient, Strict}

\* Every site has a context of its own, and goes by its name; or they share one.
MCOwnContext == [s \in Sites |-> s]
MCOneContext == [s \in Sites |-> CHOOSE c \in Contexts : TRUE]

\* Sound for invariants: no definition tells requests, approvers or sites apart.
MCSymmetry ==
  Permutations(Requests) \cup Permutations(Approvers) \cup Permutations(Sites)

=================================================================================
