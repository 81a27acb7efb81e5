------------------------------ MODULE ApprovalStore ------------------------------
(***************************************************************************)
(* The directory of approval requests, ~/.kubectl-guard/approvals          *)
(* (approval/store.go), as the processes that share it see it.             *)
(*                                                                         *)
(* A request is one file.  `guard' creates it under a temporary name and   *)
(* renames it to <ID>.json; `approve' renames <ID>.json to                 *)
(* <ID>.json.consumed, reads it there and removes it.  Every operation     *)
(* below is one system call on that directory, or several that no other    *)
(* process can tell apart.  The processes are in module Approval.          *)
(***************************************************************************)
EXTENDS Naturals

CONSTANTS
  Requests,   \* request IDs: 128 random bits, so no ID is ever used twice
  Contexts,   \* kubectl contexts
  Sites,      \* the kubeconfig files and the kubectl executable as captured in
              \* the rest of a TargetSnapshot: fingerprint, server, namespace,
              \* path and hash
  Absent,     \* "no such file"
  TTL,        \* DefaultTTL, in clock ticks
  MaxTime     \* bound: the clock stops here

Snapshots == [ctx : Contexts, site : Sites]

(***************************************************************************)
(* What a request file can hold.  "original" is what Create wrote;         *)
(* "edited" parses, carries a digest that fits its argv, but differs from  *)
(* the original; "mismatched" has an argv its digest does not fit;         *)
(* "malformed" is not JSON.  Only an editor outside the guard makes the    *)
(* last three (store.go checks for each of them).                          *)
(***************************************************************************)
Bodies == {"original", "edited", "mismatched", "malformed"}

File == [body : Bodies, bound : Snapshots, expires : Nat]

ASSUME StoreAssumption ==
  /\ TTL \in Nat \ {0}
  /\ MaxTime \in Nat
  /\ Absent \notin File
  /\ Absent \notin Snapshots

VARIABLES
  now,      \* wall clock
  pending,  \* pending[r]: the file <r>.json, or Absent
  taken,    \* taken[r]: the file <r>.json.consumed, or Absent
  temp      \* temp[r]: the temporary file .request-* r is written to, or Absent

storeVars == <<now, pending, taken, temp>>

StoreTypeOK ==
  /\ now \in 0 .. MaxTime
  /\ pending \in [Requests -> File \cup {Absent}]
  /\ taken \in [Requests -> File \cup {Absent}]
  /\ temp \in [Requests -> File \cup {Absent}]

StoreInit ==
  /\ now = 0
  /\ pending = [r \in Requests |-> Absent]
  /\ taken = [r \in Requests |-> Absent]
  /\ temp = [r \in Requests |-> Absent]

-----------------------------------------------------------------------------

Parsed(f) == f # Absent /\ f.body # "malformed"

\* The deadline itself is already too late: `!now().Before(expires)'.
Expired(f) == Parsed(f) /\ now >= f.expires

\* Faulty variant of Accepts: the expiry is not looked at.
AcceptsAnyAge(f) == Parsed(f) /\ f.body # "mismatched"

\* loadRequestFile returns the request, not an error.
Accepts(f) == Parsed(f) /\ ~Expired(f) /\ f.body # "mismatched"

\* loadRequestFile(path, id, true) also removes the file when it has expired.
DropIfExpired(r) ==
  pending' = [pending EXCEPT ![r] = IF Expired(@) THEN Absent ELSE @]

\* Faulty variant of Prune: every request file goes.
PruneAll(S) == pending' = [r \in Requests |-> IF r \in S THEN Absent ELSE pending[r]]

\* PruneExpired, as far as the requests in S (all of them, unless it fails on
\* the way): what has expired or does not parse goes.  A .consumed or
\* temporary file does not end in .json and is passed over.
Prune(S) ==
  pending' = [r \in Requests |->
                IF r \in S /\ (Expired(pending[r]) \/ ~Parsed(pending[r]))
                  THEN Absent ELSE pending[r]]

\* Create stamps the deadline, then writes, syncs and closes a temporary file ...
WriteTemp(r, snapshot) ==
  temp' = [temp EXCEPT ![r] =
             [body |-> "original", bound |-> snapshot, expires |-> now + TTL]]

\* ... which its deferred Remove deletes on every error path ...
RemoveTemp(r) == temp' = [temp EXCEPT ![r] = Absent]

\* ... and whose rename makes the whole request appear at once.
Publish(r) ==
  /\ pending' = [pending EXCEPT ![r] = temp[r]]
  /\ RemoveTemp(r)

\* Faulty variant of TakeAway: the request is copied, not renamed.
CopyAway(r) ==
  /\ pending[r] # Absent
  /\ taken' = [taken EXCEPT ![r] = pending[r]]
  /\ UNCHANGED pending

\* The rename in Claim: of several callers, one finds the file.
TakeAway(r) ==
  /\ pending[r] # Absent
  /\ taken' = [taken EXCEPT ![r] = pending[r]]
  /\ pending' = [pending EXCEPT ![r] = Absent]

\* The removal of the .consumed file in Claim.
RemoveTaken(r) == taken' = [taken EXCEPT ![r] = Absent]

\* Time passes.
Tick ==
  /\ now < MaxTime
  /\ now' = now + 1
  /\ UNCHANGED <<pending, taken, temp>>

==================================================================================
