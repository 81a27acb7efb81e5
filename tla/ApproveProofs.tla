------------------------------ MODULE ApproveProofs ------------------------------
(***************************************************************************)
(* Theorems about what one `approve' may do, whatever the other processes  *)
(* and the world do meanwhile: for any number of processes, contexts, sites*)
(* and policies, and for any TTL and bounds.                               *)
(***************************************************************************)
EXTENDS ApprovalProofs

(***************************************************************************)
(* What holds of one approver at each of its steps.  Its properties are    *)
(* said of an approver that is through; the invariant says them from the   *)
(* step that establishes them on, together with what the world may have    *)
(* changed since.                                                          *)
(***************************************************************************)
Past == {"recheck", "recapture", "record", "exec"}
Vouched(p) == auth[p] = "human" \/ "sudo" \in window[p]
OnTarget(a, site) == site = seen[a].bound.site \/ "target" \in window[a]

SoundSteps(a) ==
  /\ ran[a] # Absent => pc[a] = "executed"
  /\ Committed(a) => pc[a] \in {"exec", "executed", "done", "crashed"}
SoundTime(a) ==
  /\ authAt[a] <= now
  /\ pc[a] \in Past \/ Committed(a) => authAt[a] < seen[a].expires
SoundRecord(a) ==
  /\ pc[a] = "exec" \/ ran[a] # Absent
       => Recorded(a, "approval-consumed") \/ Silent(base[a])
  /\ pc[a] = "done" => Accounted(a)
SoundHuman(a) ==
  /\ pc[a] = "pam" /\ nopasswd => "sudo" \in window[a]
  /\ pc[a] \in {"claim"} \cup Holding \/ Committed(a) => Vouched(a)
SoundTarget(a) ==
  /\ pc[a] \in {"record", "exec"} => OnTarget(a, target)
  /\ ran[a] # Absent => OnTarget(a, ran[a])

Sound(a) ==
  SoundSteps(a) /\ SoundTime(a) /\ SoundRecord(a) /\ SoundHuman(a) /\ SoundTarget(a)

(***************************************************************************)
(* A step of another process.                                              *)
(***************************************************************************)
EntriesOf(a) == {e \in log : e.by = a}

Untouched(a) ==
  /\ pc'[a] = pc[a] /\ seen'[a] = seen[a] /\ base'[a] = base[a]
  /\ auth'[a] = auth[a] /\ authAt'[a] = authAt[a] /\ ran'[a] = ran[a]
  /\ EntriesOf(a)' = EntriesOf(a)

LEMMA SameEntries ==
  ASSUME NEW a, EntriesOf(a)' = EntriesOf(a)
  PROVE  /\ \A o : Recorded(a, o)' <=> Recorded(a, o)
         /\ (\E e \in log : e.by = a) <=> (\E e \in log' : e.by = a)
PROOF
<1>1. \A o : Recorded(a, o) <=> [by |-> a, outcome |-> o] \in EntriesOf(a)
  BY DEF Recorded, EntriesOf
<1>2. \A o : Recorded(a, o)' <=> [by |-> a, outcome |-> o] \in EntriesOf(a)'
  BY DEF Recorded, EntriesOf
<1>3. (\E e \in log : e.by = a) <=> EntriesOf(a) # {}
  BY DEF EntriesOf
<1>4. (\E e \in log' : e.by = a) <=> EntriesOf(a)' # {}
  BY DEF EntriesOf
<1> QED
  BY <1>1, <1>2, <1>3, <1>4

LEMMA OthersAppend ==
  ASSUME NEW p \in Procs, NEW cfg, NEW outcome, Append(p, cfg, outcome), NEW a, a # p
  PROVE  EntriesOf(a)' = EntriesOf(a)
BY DEF Append, EntriesOf

LEMMA UntouchedSound ==
  ASSUME NEW a \in Approvers, Sound(a), Untouched(a),
         UNCHANGED <<now, target, nopasswd, window>>
  PROVE  Sound(a)'
PROOF
<1>1. /\ Recorded(a, "approval-consumed")' <=> Recorded(a, "approval-consumed")
      /\ Committed(a)' <=> Committed(a)
      /\ Accounted(a)' <=> Accounted(a)
  BY SameEntries DEF Untouched, Committed, Accounted, Silent
<1> QED
  BY <1>1 DEF Sound, SoundSteps, SoundTime, SoundRecord, SoundHuman, SoundTarget, Untouched,
              Vouched, OnTarget, Silent

(***************************************************************************)
(* The world, and a crash.                                                 *)
(***************************************************************************)
LEMMA WorldSound ==
  ASSUME TypeOK, NEW a \in Approvers, Sound(a), World
  PROVE  Sound(a)'
PROOF
<1>0. a \in Procs
  BY DEF Procs
<1>1. /\ UNCHANGED <<pc, seen, base, auth, authAt, ran, log, id>>
      /\ now' \in Nat /\ now' >= now
  BY DEF World, ChangePolicy, Retarget, ChangeSudoers, ChangeDisk, SpoilEnrolment,
         EditRequest, ClockTick, Tick, worldStep, procVars, historyVars, TypeOK, StoreTypeOK
<1>2. \A what \in {"sudo", "target"} : what \in window[a] => what \in window'[a]
  BY <1>0
     DEF World, ChangePolicy, Retarget, ChangeSudoers, ChangeDisk, SpoilEnrolment,
         EditRequest, ClockTick, historyVars, Noting, TypeOK
<1>3. nopasswd' # nopasswd /\ pc[a] = "pam" => "sudo" \in window'[a]
  BY <1>0
     DEF World, ChangePolicy, Retarget, ChangeSudoers, ChangeDisk, SpoilEnrolment,
         EditRequest, ClockTick, worldVars, Noting, TypeOK
<1>4. target' # target /\ pc[a] \in {"record", "exec"} => "target" \in window'[a]
  BY <1>0
     DEF World, ChangePolicy, Retarget, ChangeSudoers, ChangeDisk, SpoilEnrolment,
         EditRequest, ClockTick, worldVars, Noting, TypeOK
<1>5. Committed(a)' <=> Committed(a)
  BY <1>1 DEF Committed, Recorded
<1>6. SoundSteps(a)'
  BY <1>1, <1>5 DEF Sound, SoundSteps
<1>7. SoundTime(a)'
  BY <1>1, <1>5 DEF Sound, SoundTime, TypeOK, StoreTypeOK
<1>8. SoundRecord(a)'
  BY <1>1 DEF Sound, SoundRecord, Recorded, Accounted, Silent
<1>9. SoundHuman(a)'
  BY <1>1, <1>2, <1>3, <1>5 DEF Sound, SoundHuman, Vouched
<1>10. SoundTarget(a)'
  BY <1>1, <1>2, <1>4 DEF Sound, SoundTarget, OnTarget
<1> QED
  BY <1>6, <1>7, <1>8, <1>9, <1>10 DEF Sound

LEMMA CrashSound ==
  ASSUME TypeOK, NEW a \in Approvers, Sound(a), NEW p \in Procs, Crash(p)
  PROVE  Sound(a)'
PROOF
<1>0. a \in Procs
  BY DEF Procs
<1>1. /\ UNCHANGED <<seen, base, auth, authAt, ran, log, now, target, nopasswd, window>>
      /\ pc' = [pc EXCEPT ![p] = "crashed"] /\ pc[p] \notin Stopped
  BY DEF Crash, Goto, storeVars, historyVars
<1>2. CASE p = a
  <2>1. pc'[a] = "crashed" /\ ran[a] = Absent
    BY <1>0, <1>1, <1>2 DEF TypeOK, Sound, SoundSteps, Stopped
  <2>2. Committed(a)' <=> Committed(a)
    BY <1>1 DEF Committed, Recorded
  <2> QED
    BY <1>1, <2>1, <2>2
       DEF Sound, SoundSteps, SoundTime, SoundRecord, SoundHuman, SoundTarget, Vouched,
           OnTarget, Past, Holding
<1>3. CASE p # a
  BY <1>0, <1>1, <1>3, UntouchedSound DEF Untouched, EntriesOf, TypeOK
<1> QED
  BY <1>2, <1>3

(***************************************************************************)
(* The steps of `guard', of `approval setup' and of the other approvers.   *)
(***************************************************************************)
LEMMA OthersSound ==
  ASSUME TypeOK, NEW a \in Approvers, Sound(a),
         \/ \E r \in Requests : Relay(r)
         \/ \E e \in Enrollers : Setup(e)
         \/ \E b \in Approvers \ {a} : Approve(b)
  PROVE  Sound(a)'
PROOF
<1> USE ApprovalAssumption
<1>0. a \in Procs /\ Approvers \subseteq Procs /\ Requests \subseteq Procs /\ Enrollers \subseteq Procs
  BY DEF Procs
<1>1. CASE \E r \in Requests : Relay(r)
  <2> PICK r \in Requests : Relay(r)
    BY <1>1
  <2>1. a # r /\ r \in Procs
    BY <1>0
  <2>2. /\ UNCHANGED <<now, target, nopasswd, window, seen, auth, authAt, ran>>
        /\ pc'[a] = pc[a] /\ base'[a] = base[a]
    BY <1>0, <2>1
       DEF TypeOK, Relay, RelayCheck, RelayProbe, RelayEnrolled, RelayCapture, RelayPrune,
           RelayWrite, RelayPublish, RelayReport, RelayFails, Goto, relaySame, worldVars,
           storeVars
  <2>3. EntriesOf(a)' = EntriesOf(a)
    BY <2>1, OthersAppend
       DEF Relay, RelayCheck, RelayProbe, RelayEnrolled, RelayCapture, RelayPrune,
           RelayWrite, RelayPublish, RelayReport, RelayFails, EntriesOf
  <2> QED
    BY <2>2, <2>3, UntouchedSound DEF Untouched
<1>2. CASE \E e \in Enrollers : Setup(e)
  <2> PICK e \in Enrollers : Setup(e)
    BY <1>2
  <2>1. a # e /\ e \in Procs
    BY <1>0
  <2>2. /\ UNCHANGED <<now, target, nopasswd, window, seen, base, authAt, ran, log>>
        /\ pc'[a] = pc[a] /\ auth'[a] = auth[a]
    BY <1>0, <2>1
       DEF TypeOK, Setup, SetupBegin, SetupProbe, SetupPam, SetupEnable, Goto, setupSame,
           storeVars
  <2> QED
    BY <2>2, UntouchedSound DEF Untouched, EntriesOf
<1>3. CASE \E b \in Approvers \ {a} : Approve(b)
  <2> PICK b \in Approvers \ {a} : Approve(b)
    BY <1>3
  <2>1. a # b /\ b \in Procs
    BY <1>0
  <2>2. /\ UNCHANGED <<now, target, nopasswd, window>>
        /\ pc'[a] = pc[a] /\ seen'[a] = seen[a] /\ base'[a] = base[a]
    BY <1>0, <2>1
       DEF TypeOK, Approve, Begin, LoadRequest, FirstCheck, FirstCapture, Probe, Pam,
           ClaimRename, ClaimRead, Recheck, Recapture, Record, Exec, Reject, AuthFails, Goto,
           approveSame, localSame, worldVars
  <2>3. auth'[a] = auth[a] /\ authAt'[a] = authAt[a] /\ ran'[a] = ran[a]
    BY <1>0, <2>1
       DEF TypeOK, Approve, Begin, LoadRequest, FirstCheck, FirstCapture, Probe, Pam,
           ClaimRename, ClaimRead, Recheck, Recapture, Record, Exec, passed
  <2>4. EntriesOf(a)' = EntriesOf(a)
    BY <2>1, OthersAppend
       DEF Approve, Begin, LoadRequest, FirstCheck, FirstCapture, Probe, Pam,
           ClaimRename, ClaimRead, Recheck, Recapture, Record, Exec, Reject, AuthFails,
           EntriesOf
  <2> QED
    BY <2>2, <2>3, <2>4, UntouchedSound DEF Untouched
<1> QED
  BY <1>1, <1>2, <1>3

(***************************************************************************)
(* The approver's own steps, part by part of the invariant.                *)
(***************************************************************************)
\* What an append leaves in the log.
LEMMA OwnAppend ==
  ASSUME NEW a, NEW cfg, NEW outcome, Append(a, cfg, outcome)
  PROVE  /\ (\E e \in log' : e.by = a) \/ Silent(cfg)
         /\ outcome # "approval-consumed" =>
              (Recorded(a, "approval-consumed")' <=> Recorded(a, "approval-consumed"))
         /\ Recorded(a, "approval-consumed") => Recorded(a, "approval-consumed")'
         /\ writable => Recorded(a, outcome)' \/ Silent(cfg)
PROOF
<1> DEFINE e == [by |-> a, outcome |-> IF writable THEN outcome ELSE "unwritten"]
<1>1. log' = IF Silent(cfg) THEN log ELSE log \cup {e}
  BY DEF Append
<1>2. e.by = a /\ (writable => e = [by |-> a, outcome |-> outcome])
  OBVIOUS
<1>3. outcome # "approval-consumed" => e # [by |-> a, outcome |-> "approval-consumed"]
  <2>1. e.outcome = (IF writable THEN outcome ELSE "unwritten")
    OBVIOUS
  <2> QED
    BY <2>1
<1> HIDE DEF e
<1> QED
  BY <1>1, <1>2, <1>3 DEF Recorded

LEMMA ApproveMoves ==
  ASSUME TypeOK, NEW a \in Approvers, Approve(a)
  PROVE  /\ UNCHANGED <<now, target, nopasswd, window, writable, id>>
         /\ pc'[a] \in ApproverPCs \cup {"done"}
         /\ ~Record(a) => (Recorded(a, "approval-consumed")' <=> Recorded(a, "approval-consumed"))
         /\ ~Exec(a) => UNCHANGED ran
         /\ ~Pam(a) => UNCHANGED <<auth, authAt>>
         /\ ~LoadRequest(a) => UNCHANGED seen
PROOF
<1>0. a \in Procs
  BY DEF Procs
<1> USE DEF Approve, Begin, LoadRequest, FirstCheck, FirstCapture, Probe, Pam, ClaimRename,
            ClaimRead, Recheck, Recapture, Record, Exec
<1>1. UNCHANGED <<now, target, nopasswd, window, writable, id>>
  BY DEF approveSame, localSame, worldVars
<1>2. pc'[a] \in ApproverPCs \cup {"done"}
  BY <1>0 DEF TypeOK, Goto, Reject, AuthFails, ApproverPCs
<1>3. ~Record(a) => (Recorded(a, "approval-consumed")' <=> Recorded(a, "approval-consumed"))
  <2>1. ~Record(a) => \/ UNCHANGED log
                      \/ \E cfg, o : o # "approval-consumed" /\ Append(a, cfg, o)
    BY DEF Reject, AuthFails
  <2>2. CASE UNCHANGED log
    BY <2>2 DEF Recorded
  <2>3. ASSUME NEW cfg, NEW o, o # "approval-consumed", Append(a, cfg, o)
        PROVE  Recorded(a, "approval-consumed")' <=> Recorded(a, "approval-consumed")
    BY <2>3, OwnAppend
  <2> QED
    BY <2>1, <2>2, <2>3
<1>4. ~Exec(a) => UNCHANGED ran
  BY DEF passed
<1>5. ~Pam(a) => UNCHANGED <<auth, authAt>>
  BY DEF passed
<1>6. ~LoadRequest(a) => UNCHANGED seen
  BY DEF localSame
<1> QED
  BY <1>1, <1>2, <1>3, <1>4, <1>5, <1>6

LEMMA OwnSteps ==
  ASSUME TypeOK, NEW a \in Approvers, Sound(a), Approve(a)
  PROVE  SoundSteps(a)'
PROOF
<1>0. a \in Procs
  BY DEF Procs
<1>1. CASE Record(a)
  BY <1>0, <1>1, ApproveMoves
     DEF Record, Exec, At, Goto, TypeOK, Sound, SoundSteps, Committed
<1>2. CASE Exec(a)
  BY <1>0, <1>2, ApproveMoves
     DEF Record, Exec, At, Goto, TypeOK, Sound, SoundSteps, Committed
<1>3. CASE ~Record(a) /\ ~Exec(a)
  <2>1. pc[a] \notin {"exec", "executed", "done", "crashed"}
    BY <1>3
       DEF Approve, Begin, LoadRequest, FirstCheck, FirstCapture, Probe, Pam, ClaimRename,
           ClaimRead, Recheck, Recapture, At
  <2> QED
    BY <1>3, <2>1, ApproveMoves DEF Sound, SoundSteps, Committed
<1> QED
  BY <1>1, <1>2, <1>3

LEMMA OwnTime ==
  ASSUME TypeOK, NEW a \in Approvers, Sound(a), Approve(a)
  PROVE  SoundTime(a)'
PROOF
<1>0. a \in Procs
  BY DEF Procs
<1> USE DEF At, Goto
<1>1. CASE LoadRequest(a) \/ Pam(a)
  <2>1. ~Committed(a)' /\ pc'[a] \notin Past /\ ~Exec(a) /\ ~Record(a)
    BY <1>0, <1>1, ApproveMoves
       DEF LoadRequest, Pam, Reject, AuthFails, TypeOK, Sound, SoundSteps, Committed, Past,
           Exec, Record
  <2>2. authAt'[a] <= now'
    BY <1>1, ApproveMoves DEF LoadRequest, Pam, passed, Sound, SoundTime, TypeOK, StoreTypeOK
  <2> QED
    BY <2>1, <2>2 DEF SoundTime
<1>2. CASE ClaimRead(a)
  <2>1. pc'[a] = "recheck" => now < seen[a].expires
    BY <1>0, <1>2, StoreAssumption
       DEF ClaimRead, Reject, SameRequest, Accepts, Parsed, Expired, TypeOK, StoreTypeOK, File
  <2>2. pc'[a] = "recheck" => authAt[a] < seen[a].expires
    <3>1. CASE pc'[a] = "recheck"
      <4>1. seen[a] \in File /\ authAt[a] \in Nat /\ now \in Nat
        BY <1>0, <1>2, <3>1, StoreAssumption
           DEF ClaimRead, Reject, SameRequest, Accepts, Parsed, TypeOK, StoreTypeOK
      <4> QED
        BY <2>1, <3>1, <4>1 DEF Sound, SoundTime, File
    <3> QED
      BY <3>1
  <2>3. pc'[a] \in {"recheck", "done"}
    BY <1>0, <1>2 DEF ClaimRead, Reject, TypeOK
  <2>4. ~Committed(a)' /\ ~LoadRequest(a) /\ ~Pam(a)
    BY <1>2, ApproveMoves
       DEF ClaimRead, Sound, SoundSteps, Committed, LoadRequest, Pam, Record, Exec
  <2> QED
    BY <2>2, <2>3, <2>4, ApproveMoves DEF Sound, SoundTime, Past
<1>3. CASE ~(LoadRequest(a) \/ Pam(a) \/ ClaimRead(a))
  <2>1. pc'[a] \in Past \/ Committed(a)' => pc[a] \in Past \/ Committed(a)
    BY <1>0, <1>3, ApproveMoves
       DEF Approve, Begin, FirstCheck, FirstCapture, Probe, ClaimRename, Recheck, Recapture,
           Record, Exec, Reject, AuthFails, TypeOK, Committed, Past
  <2> QED
    BY <1>3, <2>1, ApproveMoves DEF Sound, SoundTime
<1> QED
  BY <1>1, <1>2, <1>3

LEMMA OwnRecord ==
  ASSUME TypeOK, NEW a \in Approvers, Sound(a), Approve(a)
  PROVE  SoundRecord(a)'
PROOF
<1>0. a \in Procs
  BY DEF Procs
<1> USE DEF At, Goto
<1>1. CASE Record(a)
  <2>1. UNCHANGED base /\ Append(a, base[a], "approval-consumed")
    BY <1>1 DEF Record, localSame
  <2>2. pc'[a] = (IF writable \/ Silent(base[a]) THEN "exec" ELSE "done")
    BY <1>0, <1>1 DEF Record, TypeOK
  <2>3. ran'[a] = Absent
    BY <1>1 DEF Record, passed, Sound, SoundSteps
  <2> QED
    BY <2>1, <2>2, <2>3, OwnAppend DEF SoundRecord, Accounted, Silent
<1>2. CASE Exec(a)
  BY <1>0, <1>2, ApproveMoves, OwnAppend
     DEF Exec, Record, localSame, Sound, SoundRecord, Accounted, Silent, TypeOK
<1>3. CASE ~Record(a) /\ ~Exec(a)
  <2>1. pc'[a] # "exec" /\ ran'[a] = Absent
    BY <1>0, <1>3, ApproveMoves
       DEF Approve, Begin, LoadRequest, FirstCheck, FirstCapture, Probe, Pam, ClaimRename,
           ClaimRead, Recheck, Recapture, Reject, AuthFails, TypeOK, Sound, SoundSteps
  <2>2. pc'[a] = "done" => Accounted(a)'
    <3>1. CASE Begin(a) \/ FirstCheck(a) \/ Recheck(a)
      BY <1>0, <3>1, OwnAppend
         DEF Begin, FirstCheck, Recheck, Reject, TypeOK, Accounted, Silent
    <3>2. CASE ~(Begin(a) \/ FirstCheck(a) \/ Recheck(a))
      BY <1>0, <1>3, <3>2, OwnAppend
         DEF Approve, LoadRequest, FirstCapture, Probe, Pam, ClaimRename, ClaimRead,
             Recapture, Reject, AuthFails, localSame, TypeOK, Accounted, Silent
    <3> QED
      BY <3>1, <3>2
  <2> QED
    BY <2>1, <2>2 DEF SoundRecord
<1> QED
  BY <1>1, <1>2, <1>3

LEMMA OwnHuman ==
  ASSUME TypeOK, NEW a \in Approvers, Sound(a), Approve(a)
  PROVE  SoundHuman(a)'
PROOF
<1>0. a \in Procs
  BY DEF Procs
<1> USE DEF At, Goto
<1>1. CASE Pam(a)
  <2>1. pc'[a] = "claim" => Vouched(a)'
    BY <1>0, <1>1, ApproveMoves
       DEF Pam, AuthFails, TypeOK, Vouched, Sound, SoundHuman
  <2>2. pc'[a] \in {"claim", "done"} /\ ~Committed(a)'
    BY <1>0, <1>1, ApproveMoves
       DEF Pam, AuthFails, TypeOK, Sound, SoundSteps, Committed, Record, Exec
  <2> QED
    BY <2>1, <2>2 DEF SoundHuman, Holding
<1>2. CASE ~Pam(a)
  <2>1. pc'[a] \in {"claim"} \cup Holding \/ Committed(a)'
          => pc[a] \in {"claim"} \cup Holding \/ Committed(a)
    BY <1>0, <1>2, ApproveMoves
       DEF Approve, Begin, LoadRequest, FirstCheck, FirstCapture, Probe, ClaimRename,
           ClaimRead, Recheck, Recapture, Record, Exec, Reject, AuthFails, TypeOK, Committed,
           Holding
  <2>2. pc'[a] = "pam" => ~nopasswd
    BY <1>0, <1>2
       DEF Approve, Begin, LoadRequest, FirstCheck, FirstCapture, Probe, ClaimRename,
           ClaimRead, Recheck, Recapture, Record, Exec, Reject, AuthFails, TypeOK
  <2> QED
    BY <1>2, <2>1, <2>2, ApproveMoves DEF Sound, SoundHuman, Vouched
<1> QED
  BY <1>1, <1>2

LEMMA OwnTarget ==
  ASSUME TypeOK, NEW a \in Approvers, Sound(a), Approve(a)
  PROVE  SoundTarget(a)'
PROOF
<1>0. a \in Procs
  BY DEF Procs
<1> USE DEF At, Goto
<1>1. CASE Recapture(a)
  BY <1>0, <1>1, ApproveMoves
     DEF Recapture, Exec, LoadRequest, Fresh, Reject, TypeOK, Sound, SoundSteps, SoundTarget,
         OnTarget
<1>2. CASE Record(a) \/ Exec(a)
  BY <1>0, <1>2, ApproveMoves
     DEF Record, Exec, LoadRequest, TypeOK, Sound, SoundSteps, SoundTarget, OnTarget
<1>3. CASE ~(Recapture(a) \/ Record(a) \/ Exec(a))
  BY <1>0, <1>3, ApproveMoves
     DEF Approve, Begin, LoadRequest, FirstCheck, FirstCapture, Probe, Pam, ClaimRename,
         ClaimRead, Recheck, Reject, AuthFails, TypeOK, Sound, SoundSteps, SoundTarget
<1> QED
  BY <1>1, <1>2, <1>3

LEMMA NextSound ==
  ASSUME TypeOK, NEW a \in Approvers, Sound(a), [Next]_vars
  PROVE  Sound(a)'
PROOF
<1>1. CASE Approve(a)
  BY <1>1, OwnSteps, OwnTime, OwnRecord, OwnHuman, OwnTarget DEF Sound
<1>2. CASE UNCHANGED vars
  BY <1>2, UntouchedSound
     DEF vars, storeVars, worldVars, procVars, historyVars, Untouched, EntriesOf
<1> QED
  BY <1>1, <1>2, OthersSound, WorldSound, CrashSound DEF Next

AllSound == \A a \in Approvers : Sound(a)

LEMMA SoundInvariant == Spec => []AllSound
PROOF
<1>1. Init => AllSound
  <2> SUFFICES ASSUME Init, NEW a \in Approvers PROVE Sound(a)
    BY DEF AllSound
  <2>1. a \in Procs /\ pc[a] = "idle" /\ ~Committed(a) /\ ran[a] = Absent /\ authAt[a] = 0
        /\ now = 0
    BY DEF Init, StoreInit, Procs, Committed, Recorded
  <2> QED
    BY <2>1 DEF Sound, SoundSteps, SoundTime, SoundRecord, SoundHuman, SoundTarget, Past, Holding
<1>2. TypeOK /\ AllSound /\ [Next]_vars => AllSound'
  BY NextSound DEF AllSound
<1> QED
  BY <1>1, <1>2, TypeCorrect, PTL DEF Spec

(***************************************************************************)
(* kubectl starts against the target that was reviewed, or the target moved*)
(* after the last look at it.                                              *)
(***************************************************************************)
THEOREM RunsOnReviewedTarget == Spec => []ExecutedAsReviewed
PROOF
<1>1. AllSound => ExecutedAsReviewed
  BY DEF AllSound, Sound, SoundTarget, OnTarget, ExecutedAsReviewed
<1> QED
  BY <1>1, SoundInvariant, PTL

(***************************************************************************)
(* An approval that goes through was given before the deadline.            *)
(***************************************************************************)
THEOREM ApprovedInTime == Spec => []InTime
PROOF
<1>1. AllSound => InTime
  BY DEF AllSound, Sound, SoundTime, InTime
<1> QED
  BY <1>1, SoundInvariant, PTL

(***************************************************************************)
(* kubectl starts after the entry that says so, or the policy wants none.  *)
(***************************************************************************)
THEOREM RecordComesFirst == Spec => []RecordedFirst
PROOF
<1>1. AllSound => RecordedFirst
  BY DEF AllSound, Sound, SoundRecord, RecordedFirst
<1> QED
  BY <1>1, SoundInvariant, PTL

(***************************************************************************)
(* An `approve' that ends without kubectl is accounted for.                *)
(***************************************************************************)
THEOREM RefusalsAccounted == Spec => []EveryApprovalAccounted
PROOF
<1>1. AllSound => EveryApprovalAccounted
  BY DEF AllSound, Sound, SoundRecord, EveryApprovalAccounted
<1> QED
  BY <1>1, SoundInvariant, PTL

-----------------------------------------------------------------------------
(***************************************************************************)
(* The same of a human for `approval setup'.                               *)
(***************************************************************************)
Enrolling(e) ==
  /\ pc[e] = "pam" /\ nopasswd => "sudo" \in window[e]
  /\ pc[e] \in {"enable", "enabled"} => Vouched(e)
AllEnrolling == \A e \in Enrollers : Enrolling(e)

LEMMA NextEnrolling ==
  ASSUME TypeOK, NEW e \in Enrollers, Enrolling(e), [Next]_vars
  PROVE  Enrolling(e)'
PROOF
<1> USE ApprovalAssumption
<1>0. /\ e \in Procs /\ e \notin Requests /\ e \notin Approvers
      /\ Approvers \subseteq Procs /\ Requests \subseteq Procs /\ Enrollers \subseteq Procs
  BY DEF Procs
<1>1. ASSUME NEW r \in Requests, Relay(r)
      PROVE  Enrolling(e)'
  <2>1. pc'[e] = pc[e] /\ UNCHANGED <<nopasswd, auth, window>>
    BY <1>0, <1>1
       DEF TypeOK, Relay, RelayCheck, RelayProbe, RelayEnrolled, RelayCapture, RelayPrune,
           RelayWrite, RelayPublish, RelayReport, RelayFails, Goto, relaySame, worldVars
  <2> QED
    BY <2>1 DEF Enrolling, Vouched
<1>2. ASSUME NEW a \in Approvers, Approve(a)
      PROVE  Enrolling(e)'
  <2>1. UNCHANGED <<nopasswd, window>>
    BY <1>2, ApproveMoves
  <2>2. pc'[e] = pc[e] /\ auth'[e] = auth[e]
    BY <1>0, <1>2
       DEF TypeOK, Approve, Begin, LoadRequest, FirstCheck, FirstCapture, Probe, Pam,
           ClaimRename, ClaimRead, Recheck, Recapture, Record, Exec, Reject, AuthFails, Goto,
           passed
  <2> QED
    BY <2>1, <2>2 DEF Enrolling, Vouched
<1>3. ASSUME NEW f \in Enrollers, Setup(f)
      PROVE  Enrolling(e)'
  <2>1. UNCHANGED <<nopasswd, window>>
    BY <1>3 DEF Setup, SetupBegin, SetupProbe, SetupPam, SetupEnable, setupSame
  <2>2. CASE e # f
    BY <1>0, <1>3, <2>1, <2>2
       DEF TypeOK, Setup, SetupBegin, SetupProbe, SetupPam, SetupEnable, Goto, Enrolling,
           Vouched
  <2>3. CASE e = f
    BY <1>0, <1>3, <2>1, <2>3
       DEF TypeOK, Setup, SetupBegin, SetupProbe, SetupPam, SetupEnable, Goto, At, Enrolling,
           Vouched
  <2> QED
    BY <2>2, <2>3
<1>4. CASE World
  <2>1. UNCHANGED <<pc, auth>>
    BY <1>4 DEF World, ChangePolicy, Retarget, ChangeSudoers, ChangeDisk, SpoilEnrolment,
                EditRequest, ClockTick, worldStep, procVars, historyVars
  <2>2. "sudo" \in window[e] => "sudo" \in window'[e]
    BY <1>0, <1>4
       DEF World, ChangePolicy, Retarget, ChangeSudoers, ChangeDisk, SpoilEnrolment,
           EditRequest, ClockTick, historyVars, Noting, TypeOK
  <2>3. nopasswd' # nopasswd /\ pc[e] = "pam" => "sudo" \in window'[e]
    BY <1>0, <1>4
       DEF World, ChangePolicy, Retarget, ChangeSudoers, ChangeDisk, SpoilEnrolment,
           EditRequest, ClockTick, worldVars, Noting, TypeOK
  <2> QED
    BY <2>1, <2>2, <2>3 DEF Enrolling, Vouched
<1>5. ASSUME NEW p \in Procs, Crash(p)
      PROVE  Enrolling(e)'
  BY <1>0, <1>5 DEF Crash, Goto, historyVars, TypeOK, Enrolling, Vouched
<1>6. CASE UNCHANGED vars
  BY <1>6 DEF vars, worldVars, procVars, historyVars, Enrolling, Vouched
<1> QED
  BY <1>1, <1>2, <1>3, <1>4, <1>5, <1>6 DEF Next

(***************************************************************************)
(* Nothing is run or set up that no human authenticated for, unless sudoers*)
(* changed after it was asked about.                                       *)
(***************************************************************************)
THEOREM HumansApprove == Spec => []HumanApproved
PROOF
<1>1. Init => AllEnrolling
  BY DEF Init, AllEnrolling, Enrolling, Procs
<1>2. TypeOK /\ AllEnrolling /\ [Next]_vars => AllEnrolling'
  BY NextEnrolling DEF AllEnrolling
<1>3. AllSound /\ AllEnrolling => HumanApproved
  BY ApprovalAssumption
     DEF AllSound, Sound, SoundHuman, AllEnrolling, Enrolling, Vouched, HumanApproved
<1> QED
  BY <1>1, <1>2, <1>3, TypeCorrect, SoundInvariant, PTL DEF Spec

-----------------------------------------------------------------------------
(***************************************************************************)
(* The file the human saw.  From Load to the claim an edit shows in the    *)
(* file, from the claim on it shows in the file the winner took away, which*)
(* nobody else touches (OneTaker); past the comparison there is none.      *)
(***************************************************************************)
View == {"check", "capture", "probe", "pam", "claim"}

Viewed(a) ==
  /\ pc[a] \in View => posted[id[a]] # Absent
  /\ pc[a] \in View /\ "request" \in window[a] /\ pending[id[a]] # Absent
       => pending[id[a]] # seen[a]
  /\ pc[a] = "read" /\ "request" \in window[a] => taken[id[a]] # seen[a]
  /\ pc[a] \in {"idle", "load"} \cup Past \/ Committed(a) => "request" \notin window[a]
AllViewed == \A a \in Approvers : Viewed(a)

\* What another process may do to the files: nothing new appears, and what the
\* winner took stays as it is.
LEMMA OthersViewed ==
  ASSUME TypeOK, NEW a \in Approvers, Viewed(a), UNCHANGED <<id, window>>,
         pc'[a] = pc[a], seen'[a] = seen[a], ran'[a] = ran[a],
         EntriesOf(a)' = EntriesOf(a),
         posted[id[a]] # Absent => posted'[id[a]] # Absent,
         posted[id[a]] # Absent => pending'[id[a]] \in {pending[id[a]], Absent},
         pc[a] = "read" => taken'[id[a]] = taken[id[a]]
  PROVE  Viewed(a)'
PROOF
<1>1. Committed(a)' <=> Committed(a)
  BY SameEntries DEF Committed
<1> QED
  BY <1>1 DEF Viewed

LEMMA RelayViewed ==
  ASSUME TypeOK, OneTaker, NEW a \in Approvers, Viewed(a), NEW r \in Requests, Relay(r)
  PROVE  Viewed(a)'
PROOF
<1> USE ApprovalAssumption
<1>0. a \in Procs /\ r \in Procs /\ a # r /\ id[a] \in Requests
  BY DEF Procs, TypeOK
<1>1. UNCHANGED <<id, window, seen, ran, taken>> /\ pc'[a] = pc[a]
  BY <1>0
     DEF TypeOK, Relay, RelayCheck, RelayProbe, RelayEnrolled, RelayCapture, RelayPrune,
         RelayWrite, RelayPublish, RelayReport, RelayFails, Goto, relaySame, storeVars
<1>2. EntriesOf(a)' = EntriesOf(a)
  BY <1>0, OthersAppend
     DEF Relay, RelayCheck, RelayProbe, RelayEnrolled, RelayCapture, RelayPrune, RelayWrite,
         RelayPublish, RelayReport, RelayFails, EntriesOf
<1>3. CASE RelayPublish(r)
  <2>1. posted[r] = Absent
    BY <1>3 DEF RelayPublish, OneTaker, At, Filing
  <2> QED
    BY <1>0, <1>1, <1>2, <1>3, <2>1, OthersViewed
       DEF RelayPublish, Publish, TypeOK, StoreTypeOK
<1>4. CASE ~RelayPublish(r)
  <2>1. UNCHANGED posted
    BY <1>4
       DEF Relay, RelayCheck, RelayProbe, RelayEnrolled, RelayCapture, RelayPrune, RelayWrite,
           RelayReport, RelayFails
  <2>2. pending'[id[a]] \in {pending[id[a]], Absent}
    BY <1>0, <1>4
       DEF Relay, RelayCheck, RelayProbe, RelayEnrolled, RelayCapture, RelayPrune, RelayWrite,
           RelayReport, RelayFails, storeVars, Prune
  <2> QED
    BY <1>1, <1>2, <2>1, <2>2, OthersViewed
<1> QED
  BY <1>3, <1>4

LEMMA RivalViewed ==
  ASSUME TypeOK, OneTaker, NEW a \in Approvers, Viewed(a),
         NEW b \in Approvers, a # b, Approve(b)
  PROVE  Viewed(a)'
PROOF
<1>0. a \in Procs /\ b \in Procs /\ id[a] \in Requests /\ id[b] \in Requests
  BY DEF Procs, TypeOK
<1>1. UNCHANGED <<id, window, posted>> /\ pc'[a] = pc[a]
  BY <1>0
     DEF TypeOK, Approve, Begin, LoadRequest, FirstCheck, FirstCapture, Probe, Pam,
         ClaimRename, ClaimRead, Recheck, Recapture, Record, Exec, Reject, AuthFails, Goto,
         approveSame, localSame
<1>2. seen'[a] = seen[a] /\ ran'[a] = ran[a]
  BY <1>0
     DEF TypeOK, Approve, Begin, LoadRequest, FirstCheck, FirstCapture, Probe, Pam,
         ClaimRename, ClaimRead, Recheck, Recapture, Record, Exec, passed, localSame
<1>3. EntriesOf(a)' = EntriesOf(a)
  BY <1>0, OthersAppend
     DEF Approve, Begin, LoadRequest, FirstCheck, FirstCapture, Probe, Pam, ClaimRename,
         ClaimRead, Recheck, Recapture, Record, Exec, Reject, AuthFails, EntriesOf
<1>4. pending'[id[a]] \in {pending[id[a]], Absent}
  BY <1>0
     DEF TypeOK, StoreTypeOK, Approve, Begin, LoadRequest, FirstCheck, FirstCapture, Probe,
         Pam, ClaimRename, ClaimRead, Recheck, Recapture, Record, Exec, DropIfExpired,
         TakeAway
<1>5. pc[a] = "read" => taken'[id[a]] = taken[id[a]]
  <2>1. SUFFICES ASSUME pc[a] = "read" PROVE taken'[id[a]] = taken[id[a]]
    OBVIOUS
  <2>2. Winner(a) /\ pending[id[a]] = Absent
    BY <2>1 DEF Winner, Holding, OneTaker
  <2>3. CASE ClaimRename(b)
    BY <1>0, <2>2, <2>3 DEF ClaimRename, TakeAway, TypeOK, StoreTypeOK
  <2>4. CASE ClaimRead(b)
    <3>1. id[a] # id[b]
      BY <2>2, <2>4 DEF ClaimRead, At, Winner, Holding, OneTaker
    <3> QED
      BY <1>0, <2>4, <3>1 DEF ClaimRead, RemoveTaken, TypeOK, StoreTypeOK
  <2> QED
    BY <2>3, <2>4
       DEF Approve, Begin, LoadRequest, FirstCheck, FirstCapture, Probe, Pam, Recheck,
           Recapture, Record, Exec
<1> QED
  BY <1>1, <1>2, <1>3, <1>4, <1>5, OthersViewed

LEMMA OwnViewed ==
  ASSUME TypeOK, OneTaker, NEW a \in Approvers, Viewed(a), Sound(a), Approve(a)
  PROVE  Viewed(a)'
PROOF
<1>0. a \in Procs /\ id[a] \in Requests
  BY DEF Procs, TypeOK
<1> USE DEF At, Goto
<1>1. UNCHANGED <<id, window, posted>>
  BY DEF Approve, Begin, LoadRequest, FirstCheck, FirstCapture, Probe, Pam, ClaimRename,
         ClaimRead, Recheck, Recapture, Record, Exec, approveSame, localSame
<1>2. pc[a] \notin {"record", "exec"} => (Committed(a)' <=> Committed(a))
  BY ApproveMoves DEF Committed, Record, Exec
<1>3. CASE LoadRequest(a)
  <2>1. "request" \notin window'[a] /\ pc'[a] \notin {"read"}
    BY <1>0, <1>1, <1>3 DEF LoadRequest, Reject, Viewed, TypeOK
  <2>2. pc'[a] \in View => posted'[id[a]] # Absent
    BY <1>0, <1>1, <1>3 DEF LoadRequest, Reject, Accepts, Parsed, View, OneTaker, TypeOK
  <2> QED
    BY <1>1, <2>1, <2>2 DEF Viewed
<1>4. CASE ClaimRename(a)
  <2>1. pc'[a] \in {"read", "done"} /\ seen' = seen
    BY <1>0, <1>4 DEF ClaimRename, Reject, TypeOK, localSame
  <2>2. pc'[a] = "read" => pending[id[a]] # Absent /\ taken'[id[a]] = pending[id[a]]
    BY <1>0, <1>4 DEF ClaimRename, Reject, TypeOK, StoreTypeOK, TakeAway
  <2>3. ~Committed(a)'
    BY <1>2, <1>4 DEF ClaimRename, Sound, SoundSteps
  <2> QED
    BY <1>1, <1>4, <2>1, <2>2, <2>3 DEF ClaimRename, Viewed, View, Past
<1>5. CASE ClaimRead(a)
  <2>1. pc'[a] \in {"recheck", "done"} /\ (pc'[a] = "recheck" => taken[id[a]] = seen[a])
    BY <1>0, <1>5 DEF ClaimRead, SameRequest, Reject, TypeOK
  <2>2. ~Committed(a)'
    BY <1>2, <1>5 DEF ClaimRead, Sound, SoundSteps
  <2> QED
    BY <1>1, <1>5, <2>1, <2>2 DEF ClaimRead, Viewed, View, Past
<1>6. CASE Begin(a) \/ FirstCheck(a) \/ FirstCapture(a) \/ Probe(a) \/ Pam(a)
  <2>1. pc'[a] \in View \cup {"load", "done"} /\ (pc'[a] = "load" => pc[a] = "idle")
        /\ (pc'[a] \in View => pc[a] \in View)
    BY <1>0, <1>6
       DEF Begin, FirstCheck, FirstCapture, Probe, Pam, Reject, AuthFails, TypeOK, View
  <2>2. UNCHANGED <<pending, seen>> /\ ~Committed(a)'
    BY <1>2, <1>6
       DEF Begin, FirstCheck, FirstCapture, Probe, Pam, localSame, Sound, SoundSteps
  <2> QED
    BY <1>1, <2>1, <2>2 DEF Viewed, View, Past
<1>7. CASE Recheck(a) \/ Recapture(a) \/ Record(a) \/ Exec(a)
  <2>1. pc[a] \in Past /\ pc'[a] \in Past \cup {"executed", "done"}
    BY <1>0, <1>7 DEF Recheck, Recapture, Record, Exec, Reject, TypeOK, Past
  <2> QED
    BY <1>1, <2>1 DEF Viewed, View, Past
<1> QED
  BY <1>3, <1>4, <1>5, <1>6, <1>7 DEF Approve

LEMMA WorldViewed ==
  ASSUME TypeOK, NEW a \in Approvers, Viewed(a), Sound(a), World
  PROVE  Viewed(a)'
PROOF
<1>0. a \in Procs /\ id[a] \in Requests
  BY DEF Procs, TypeOK
<1>1. UNCHANGED <<pc, id, seen, posted, taken>> /\ (Committed(a)' <=> Committed(a))
  BY DEF World, ChangePolicy, Retarget, ChangeSudoers, ChangeDisk, SpoilEnrolment,
         EditRequest, ClockTick, Tick, worldStep, procVars, historyVars, Committed, Recorded
<1>2. CASE EditRequest
  <2> PICK r \in Requests, b \in Bodies \ {"original"} :
        /\ pending[r] # Absent
        /\ pending' = [pending EXCEPT ![r].body = b]
        /\ window' = [p \in Procs |->
             IF p \in Approvers
               THEN IF id[p] = r /\ pc[p] \in {"check", "capture", "probe", "pam", "claim"}
                      THEN IF pending'[r] = seen[p] THEN window[p] \ {"request"}
                                                    ELSE window[p] \cup {"request"}
                      ELSE window[p]
               ELSE window[p]]
    BY <1>2 DEF EditRequest
  <2>1. CASE id[a] = r /\ pc[a] \in View
    <3>1. "request" \in window'[a] => pending'[id[a]] # seen[a]
      BY <1>0, <2>1 DEF View
    <3>2. ~Committed(a)
      BY <2>1 DEF Sound, SoundSteps, View
    <3> QED
      BY <1>1, <2>1, <3>1, <3>2 DEF Viewed, View, Past
  <2>2. CASE ~(id[a] = r /\ pc[a] \in View)
    <3>1. window'[a] = window[a]
      BY <1>0, <2>2 DEF View
    <3>2. pc[a] \in View => pending'[id[a]] = pending[id[a]]
      BY <1>0, <2>2 DEF TypeOK, StoreTypeOK
    <3> QED
      BY <1>1, <3>1, <3>2 DEF Viewed
  <2> QED
    BY <2>1, <2>2
<1>3. CASE ~EditRequest
  <2>1. UNCHANGED pending
    BY <1>3
       DEF World, ChangePolicy, Retarget, ChangeSudoers, ChangeDisk, SpoilEnrolment,
           ClockTick, Tick
  <2>2. "request" \in window'[a] <=> "request" \in window[a]
    BY <1>0, <1>3
       DEF World, ChangePolicy, Retarget, ChangeSudoers, ChangeDisk, SpoilEnrolment,
           ClockTick, historyVars, Noting, TypeOK
  <2> QED
    BY <1>1, <2>1, <2>2 DEF Viewed
<1> QED
  BY <1>2, <1>3

LEMMA NextViewed ==
  ASSUME TypeOK, OneTaker, NEW a \in Approvers, Viewed(a), Sound(a), [Next]_vars
  PROVE  Viewed(a)'
PROOF
<1> USE ApprovalAssumption
<1>0. /\ a \in Procs /\ Enrollers \subseteq Procs /\ a \notin Enrollers
  BY DEF Procs
<1>1. ASSUME NEW e \in Enrollers, Setup(e)
      PROVE  Viewed(a)'
  BY <1>0, <1>1, OthersViewed
     DEF Setup, SetupBegin, SetupProbe, SetupPam, SetupEnable, setupSame, Goto, storeVars,
         TypeOK, EntriesOf
<1>2. ASSUME NEW p \in Procs, Crash(p)
      PROVE  Viewed(a)'
  <2>1. pc'[a] = pc[a] \/ pc'[a] = "crashed"
    BY <1>0, <1>2 DEF Crash, Goto, TypeOK
  <2> QED
    BY <1>2, <2>1
       DEF Crash, storeVars, historyVars, Viewed, View, Past, Committed, Recorded
<1>3. CASE UNCHANGED vars
  BY <1>3
     DEF vars, storeVars, procVars, historyVars, Viewed, Committed, Recorded
<1> QED
  BY <1>1, <1>2, <1>3, RelayViewed, RivalViewed, OwnViewed, WorldViewed DEF Next

(***************************************************************************)
(* A request that was edited after it was shown is not acted upon.         *)
(***************************************************************************)
THEOREM EditsRejected == Spec => []UneditedRequest
PROOF
<1>1. Init => AllViewed
  BY DEF Init, StoreInit, AllViewed, Viewed, View, Past, Committed, Recorded, Procs
<1>2. TypeOK /\ OneTaker /\ AllSound /\ AllViewed /\ [Next]_vars => AllViewed'
  BY NextViewed DEF AllViewed, AllSound
<1>3. AllViewed => UneditedRequest
  BY DEF AllViewed, Viewed, UneditedRequest
<1> QED
  BY <1>1, <1>2, <1>3, TypeCorrect, OneTakerInvariant, SoundInvariant, PTL DEF Spec

-----------------------------------------------------------------------------
(***************************************************************************)
(* Requests that are lost.  A file is its request's, as it was published   *)
(* but for an editor's doing; and who takes one away has authenticated.    *)
(***************************************************************************)
Kept(r) ==
  \/ posted[r] = Absent
  \/ now >= posted[r].expires
  \/ r \in damaged
  \/ pending[r] # Absent
  \/ \E a \in Approvers : id[a] = r /\ auth[a] # "none"

KeptFile(r) ==
  /\ temp[r] # Absent => temp[r].body = "original"
  /\ pending[r] # Absent =>
       /\ posted[r] # Absent /\ pending[r].expires = posted[r].expires
       /\ pending[r].body = "malformed" => r \in damaged

KeptInv ==
  /\ \A r \in Requests : Kept(r) /\ KeptFile(r)
  /\ \A a \in Approvers : pc[a] = "claim" => auth[a] # "none"

\* A step that drops what has expired or does not parse, and publishes nothing.
LEMMA DroppingKept ==
  ASSUME TypeOK, NEW r \in Requests, Kept(r), KeptFile(r),
         UNCHANGED <<posted, now, damaged, id>>,
         \A a \in Approvers : auth[a] # "none" => auth'[a] # "none",
         temp'[r] \in {temp[r], Absent},
         \/ pending'[r] = pending[r]
         \/ pending'[r] = Absent /\ (~Parsed(pending[r]) \/ Expired(pending[r]))
         \/ pending'[r] = Absent /\ \E a \in Approvers : id[a] = r /\ auth[a] # "none"
  PROVE  Kept(r)' /\ KeptFile(r)'
BY DEF Kept, KeptFile, Parsed, Expired

LEMMA RelayKept ==
  ASSUME TypeOK, KeptInv, NEW q \in Requests, Relay(q), NEW r \in Requests
  PROVE  Kept(r)' /\ KeptFile(r)'
PROOF
<1> USE DEF KeptInv
<1>1. UNCHANGED <<now, damaged, id, auth>>
  BY DEF Relay, RelayCheck, RelayProbe, RelayEnrolled, RelayCapture, RelayPrune, RelayWrite,
         RelayPublish, RelayReport, RelayFails, relaySame, storeVars
<1>2. CASE RelayPublish(q)
  <2>1. q # r => temp'[r] = temp[r] /\ pending'[r] = pending[r] /\ posted'[r] = posted[r]
    BY <1>2 DEF RelayPublish, Publish, RemoveTemp, TypeOK, StoreTypeOK
  <2>2. q = r => temp'[r] = Absent /\ pending'[r] = temp[r] /\ posted'[r] = temp[r]
    BY <1>2 DEF RelayPublish, Publish, RemoveTemp, TypeOK, StoreTypeOK
  <2> QED
    BY <1>1, <2>1, <2>2 DEF Kept, KeptFile
<1>3. CASE RelayWrite(q)
  <2>1. UNCHANGED <<pending, posted>> /\ (temp'[r] = temp[r] \/ temp'[r].body = "original")
    BY <1>3 DEF RelayWrite, WriteTemp, TypeOK, StoreTypeOK
  <2> QED
    BY <1>1, <2>1 DEF Kept, KeptFile
<1>4. CASE ~RelayPublish(q) /\ ~RelayWrite(q)
  <2>1. UNCHANGED posted /\ temp'[r] \in {temp[r], Absent}
    BY <1>4
       DEF Relay, RelayCheck, RelayProbe, RelayEnrolled, RelayCapture, RelayPrune,
           RelayReport, RelayFails, RemoveTemp, storeVars, TypeOK, StoreTypeOK
  <2>2. \/ pending'[r] = pending[r]
        \/ pending'[r] = Absent /\ (~Parsed(pending[r]) \/ Expired(pending[r]))
    BY <1>4
       DEF Relay, RelayCheck, RelayProbe, RelayEnrolled, RelayCapture, RelayPrune,
           RelayReport, RelayFails, Prune, storeVars
  <2> QED
    BY <1>1, <2>1, <2>2, DroppingKept
<1> QED
  BY <1>2, <1>3, <1>4

LEMMA ApproveKept ==
  ASSUME TypeOK, KeptInv, NEW b \in Approvers, Approve(b), NEW r \in Requests
  PROVE  Kept(r)' /\ KeptFile(r)'
PROOF
<1> USE DEF KeptInv
<1>0. id[b] \in Requests
  BY DEF TypeOK
<1>1. UNCHANGED <<now, damaged, id, posted, temp>>
  BY DEF Approve, Begin, LoadRequest, FirstCheck, FirstCapture, Probe, Pam, ClaimRename,
         ClaimRead, Recheck, Recapture, Record, Exec, approveSame, localSame
<1>2. \A a \in Approvers : auth[a] # "none" => auth'[a] # "none"
  BY DEF Approve, Begin, LoadRequest, FirstCheck, FirstCapture, Probe, Pam, ClaimRename,
         ClaimRead, Recheck, Recapture, Record, Exec, passed, TypeOK
<1>3. CASE ClaimRename(b)
  BY <1>0, <1>1, <1>2, <1>3, DroppingKept
     DEF ClaimRename, At, TakeAway, TypeOK, StoreTypeOK
<1>4. CASE LoadRequest(b)
  BY <1>0, <1>1, <1>2, <1>4, DroppingKept DEF LoadRequest, DropIfExpired, TypeOK, StoreTypeOK
<1>5. CASE ~ClaimRename(b) /\ ~LoadRequest(b)
  <2>1. UNCHANGED pending
    BY <1>5
       DEF Approve, Begin, FirstCheck, FirstCapture, Probe, Pam, ClaimRead, Recheck,
           Recapture, Record, Exec
  <2> QED
    BY <1>1, <1>2, <2>1, DroppingKept
<1> QED
  BY <1>3, <1>4, <1>5

LEMMA OtherKept ==
  ASSUME TypeOK, KeptInv, NEW r \in Requests,
         \/ \E e \in Enrollers : Setup(e)
         \/ World
         \/ \E p \in Procs : Crash(p)
         \/ UNCHANGED vars
  PROVE  Kept(r)' /\ KeptFile(r)'
PROOF
<1> USE DEF KeptInv
<1>1. CASE EditRequest
  <2>1. UNCHANGED <<now, id, auth, posted, temp>>
    BY <1>1 DEF EditRequest, worldStep, procVars
  <2>2. PICK q \in Requests, b \in Bodies :
          /\ pending' = [pending EXCEPT ![q].body = b] /\ pending[q] # Absent
          /\ damaged' = IF b = "malformed" THEN damaged \cup {q} ELSE damaged
    BY <1>1 DEF EditRequest
  <2>3. CASE q = r
    <3>1. pending[r] \in File /\ pending'[r] = [pending[r] EXCEPT !.body = b]
      BY <2>2, <2>3 DEF TypeOK, StoreTypeOK
    <3>2. pending'[r].body = b /\ pending'[r].expires = pending[r].expires
          /\ pending'[r] \in File
      BY <3>1 DEF File, Bodies
    <3>3. pending'[r] # Absent
      BY <3>2, StoreAssumption
    <3> QED
      BY <2>1, <2>2, <2>3, <3>2, <3>3 DEF Kept, KeptFile
  <2>4. CASE q # r
    BY <2>1, <2>2, <2>4 DEF Kept, KeptFile, TypeOK, StoreTypeOK
  <2> QED
    BY <2>3, <2>4
<1>2. CASE ClockTick
  BY <1>2
     DEF ClockTick, Tick, procVars, historyVars, Kept, KeptFile, TypeOK, StoreTypeOK, File
<1>3. CASE \E e \in Enrollers : Setup(e)
  <2> PICK e \in Enrollers : Setup(e)
    BY <1>3
  <2>1. \A a \in Approvers : auth'[a] = auth[a]
    BY ApprovalAssumption
       DEF Setup, SetupBegin, SetupProbe, SetupPam, SetupEnable, TypeOK
  <2> QED
    BY <2>1
       DEF Setup, SetupBegin, SetupProbe, SetupPam, SetupEnable, setupSame, storeVars, Kept,
           KeptFile
<1>4. CASE (World /\ ~EditRequest /\ ~ClockTick) \/ (\E p \in Procs : Crash(p)) \/ UNCHANGED vars
  <2>1. UNCHANGED <<now, id, auth, posted, temp, pending, damaged>>
    BY <1>4
       DEF World, ChangePolicy, Retarget, ChangeSudoers, ChangeDisk, SpoilEnrolment,
           worldStep, procVars, historyVars, Crash, storeVars, vars
  <2> QED
    BY <2>1 DEF Kept, KeptFile
<1> QED
  BY <1>1, <1>2, <1>3, <1>4

LEMMA ClaimsAuthenticated ==
  ASSUME TypeOK, NEW a \in Approvers, pc[a] = "claim" => auth[a] # "none", [Next]_vars
  PROVE  pc'[a] = "claim" => auth'[a] # "none"
PROOF
<1> USE ApprovalAssumption
<1>0. /\ a \in Procs /\ a \notin Requests /\ a \notin Enrollers
      /\ Approvers \subseteq Procs /\ Requests \subseteq Procs /\ Enrollers \subseteq Procs
  BY DEF Procs
<1>1. ASSUME NEW r \in Requests, Relay(r)
      PROVE  pc'[a] = pc[a] /\ auth' = auth
  BY <1>0, <1>1
     DEF TypeOK, Relay, RelayCheck, RelayProbe, RelayEnrolled, RelayCapture, RelayPrune,
         RelayWrite, RelayPublish, RelayReport, RelayFails, Goto, relaySame
<1>2. ASSUME NEW b \in Approvers, b # a, Approve(b)
      PROVE  pc'[a] = pc[a] /\ auth'[a] = auth[a]
  BY <1>0, <1>2
     DEF TypeOK, Approve, Begin, LoadRequest, FirstCheck, FirstCapture, Probe, Pam,
         ClaimRename, ClaimRead, Recheck, Recapture, Record, Exec, Reject, AuthFails, Goto,
         passed
<1>3. CASE Approve(a)
  <2>1. CASE Pam(a)
    BY <1>0, <2>1 DEF Pam, AuthFails, Goto, TypeOK
  <2>2. CASE ~Pam(a)
    BY <1>0, <1>3, <2>2
       DEF TypeOK, Approve, Begin, LoadRequest, FirstCheck, FirstCapture, Probe, ClaimRename,
           ClaimRead, Recheck, Recapture, Record, Exec, Reject, AuthFails, Goto
  <2> QED
    BY <2>1, <2>2
<1>4. ASSUME NEW e \in Enrollers, Setup(e)
      PROVE  pc'[a] = pc[a] /\ auth'[a] = auth[a]
  BY <1>0, <1>4
     DEF TypeOK, Setup, SetupBegin, SetupProbe, SetupPam, SetupEnable, Goto
<1>5. CASE World \/ UNCHANGED vars
  BY <1>5
     DEF World, ChangePolicy, Retarget, ChangeSudoers, ChangeDisk, SpoilEnrolment,
         EditRequest, ClockTick, worldStep, procVars, historyVars, vars
<1>6. ASSUME NEW p \in Procs, Crash(p)
      PROVE  auth' = auth /\ (pc'[a] = pc[a] \/ pc'[a] = "crashed")
  BY <1>0, <1>6 DEF Crash, Goto, historyVars, TypeOK
<1> QED
  BY <1>1, <1>2, <1>3, <1>4, <1>5, <1>6 DEF Next

(***************************************************************************)
(* A request is not lost before it is due and before a human has answered  *)
(* for it.                                                                 *)
(***************************************************************************)
THEOREM RequestsKept == Spec => []OnlyHumansConsume
PROOF
<1>1. Init => KeptInv
  BY DEF Init, StoreInit, KeptInv, Kept, KeptFile, Procs
<1>2. TypeOK /\ KeptInv /\ [Next]_vars => KeptInv'
  <2> SUFFICES ASSUME TypeOK, KeptInv, [Next]_vars PROVE KeptInv'
    OBVIOUS
  <2>1. \A r \in Requests : Kept(r)' /\ KeptFile(r)'
    BY RelayKept, ApproveKept, OtherKept DEF Next
  <2>2. \A a \in Approvers : pc'[a] = "claim" => auth'[a] # "none"
    BY ClaimsAuthenticated DEF KeptInv
  <2> QED
    BY <2>1, <2>2 DEF KeptInv
<1>3. KeptInv => OnlyHumansConsume
  BY DEF KeptInv, Kept, OnlyHumansConsume
<1> QED
  BY <1>1, <1>2, <1>3, TypeCorrect, PTL DEF Spec
-----------------------------------------------------------------------------
(***************************************************************************)
(* The refinement.  Every step of the processes is a step of               *)
(* OneShotApproval or changes nothing that it speaks of.  What it takes    *)
(* beyond OneTaker and Sound is that an approver has not authenticated     *)
(* before it is asked to, and has when it claims.                          *)
(***************************************************************************)
Asking == {"idle", "load", "check", "capture", "probe", "pam"}
Asked(a) == pc[a] \in Asking => auth[a] = "none"
Once(a) == Asked(a) /\ (pc[a] = "claim" => auth[a] # "none")

LEMMA AskedStep ==
  ASSUME TypeOK, NEW a \in Approvers, Asked(a), [Next]_vars
  PROVE  Asked(a)'
PROOF
<1> USE ApprovalAssumption DEF Asked
<1>0. /\ a \in Procs /\ a \notin Requests /\ a \notin Enrollers
      /\ Approvers \subseteq Procs /\ Requests \subseteq Procs /\ Enrollers \subseteq Procs
  BY DEF Procs
<1>1. ASSUME NEW r \in Requests, Relay(r)
      PROVE  pc'[a] = pc[a] /\ auth' = auth
  BY <1>0, <1>1
     DEF TypeOK, Relay, RelayCheck, RelayProbe, RelayEnrolled, RelayCapture, RelayPrune,
         RelayWrite, RelayPublish, RelayReport, RelayFails, Goto, relaySame
<1>2. ASSUME NEW b \in Approvers, b # a, Approve(b)
      PROVE  pc'[a] = pc[a] /\ auth'[a] = auth[a]
  BY <1>0, <1>2
     DEF TypeOK, Approve, Begin, LoadRequest, FirstCheck, FirstCapture, Probe, Pam,
         ClaimRename, ClaimRead, Recheck, Recapture, Record, Exec, Reject, AuthFails, Goto,
         passed
<1>3. ASSUME Approve(a)
      PROVE  (pc'[a] \in Asking => pc[a] \in Asking) /\ (Pam(a) => pc'[a] \notin Asking)
  BY <1>0, <1>3
     DEF TypeOK, Approve, Begin, LoadRequest, FirstCheck, FirstCapture, Probe, Pam,
         ClaimRename, ClaimRead, Recheck, Recapture, Record, Exec, Reject, AuthFails, Goto,
         At, Asking
<1>4. ASSUME Approve(a), ~Pam(a)
      PROVE  auth' = auth
  BY <1>4, ApproveMoves
<1>5. ASSUME NEW e \in Enrollers, Setup(e)
      PROVE  pc'[a] = pc[a] /\ auth'[a] = auth[a]
  BY <1>0, <1>5
     DEF TypeOK, Setup, SetupBegin, SetupProbe, SetupPam, SetupEnable, Goto
<1>6. CASE World \/ UNCHANGED vars
  BY <1>6
     DEF World, ChangePolicy, Retarget, ChangeSudoers, ChangeDisk, SpoilEnrolment,
         EditRequest, ClockTick, worldStep, procVars, historyVars, vars
<1>7. ASSUME NEW p \in Procs, Crash(p)
      PROVE  auth' = auth /\ (pc'[a] = pc[a] \/ pc'[a] = "crashed")
  BY <1>0, <1>7 DEF Crash, Goto, historyVars, TypeOK
<1> QED
  BY <1>1, <1>2, <1>3, <1>4, <1>5, <1>6, <1>7 DEF Next, Asking

(***************************************************************************)
(* What OneShotApproval sees of a request and of an approver.              *)
(***************************************************************************)
AllOnce == \A a \in Approvers : Once(a)
Sane == TypeOK /\ OneTaker /\ AllSound /\ AllOnce

LEMMA StatusIs ==
  ASSUME Sane, NEW r \in Requests
  PROVE  /\ posted[r] = Absent => StatusOf(r) = "none" /\ \A b \in Approvers : ~HeldBy(b, r)
         /\ pending[r] # Absent => StatusOf(r) = "open" /\ \A b \in Approvers : ~HeldBy(b, r)
         /\ \A a \in Approvers : id[a] = r /\ pc[a] \in Holding =>
              /\ StatusOf(r) = "held" /\ posted[r] # Absent /\ pending[r] = Absent
              /\ ran[a] = Absent /\ \A b \in Approvers : HeldBy(b, r) <=> b = a
PROOF
<1>1. \A a \in Approvers : HeldBy(a, r) => id[a] = r /\ Winner(a)
  BY DEF HeldBy, Winner, Committed
<1>2. /\ posted[r] = Absent => pending[r] = Absent
      /\ posted[r] = Absent \/ pending[r] # Absent => \A a \in Approvers : ~HeldBy(a, r)
  BY <1>1 DEF Sane, OneTaker
<1>3. \A a \in Approvers : id[a] = r /\ (ran[a] # Absent \/ pc[a] \in Holding) => HeldBy(a, r)
  BY DEF HeldBy
<1>4. ASSUME NEW a \in Approvers, id[a] = r, pc[a] \in Holding
      PROVE  /\ StatusOf(r) = "held" /\ posted[r] # Absent /\ pending[r] = Absent
             /\ ran[a] = Absent /\ \A b \in Approvers : HeldBy(b, r) <=> b = a
  <2>1. HeldBy(a, r) /\ \A b \in Approvers : HeldBy(b, r) => b = a
    BY <1>1, <1>3, <1>4 DEF Sane, OneTaker
  <2>2. ran[a] = Absent
    BY <1>4 DEF Sane, AllSound, Sound, SoundSteps, Holding
  <2>3. \A b \in Approvers : id[b] = r => ran[b] = Absent
    BY <1>3, <2>1, <2>2
  <2>4. posted[r] # Absent /\ pending[r] = Absent
    BY <1>2, <2>1
  <2> QED
    BY <1>4, <2>1, <2>2, <2>3, <2>4 DEF StatusOf
<1>5. pending[r] # Absent => StatusOf(r) = "open"
  BY <1>2, <1>3 DEF StatusOf
<1>6. posted[r] = Absent => StatusOf(r) = "none"
  BY DEF StatusOf
<1> QED
  BY <1>2, <1>4, <1>5, <1>6

\* A request that nothing happens to.
LEMMA SameView ==
  ASSUME NEW r \in Requests, UNCHANGED id,
         (posted'[r] = Absent) <=> (posted[r] = Absent),
         (pending'[r] = Absent) <=> (pending[r] = Absent),
         \A a \in Approvers : id[a] = r =>
           /\ (ran'[a] = Absent) <=> (ran[a] = Absent)
           /\ (pc'[a] \in Holding) <=> (pc[a] \in Holding)
  PROVE  StatusOf(r)' = StatusOf(r) /\ \A a \in Approvers : HeldBy(a, r)' <=> HeldBy(a, r)
BY DEF StatusOf, HeldBy

\* A step that changes the status of one request, or of none.
Others(r) ==
  \A q \in Requests \ {r} :
    StatusOf(q)' = StatusOf(q) /\ \A a \in Approvers : HeldBy(a, q)' <=> HeldBy(a, q)
NoGrant == UNCHANGED id /\ \A a \in Approvers : (auth'[a] = "none") <=> (auth[a] = "none")

LEMMA Steps ==
  ASSUME NEW r \in Requests, Others(r)
  PROVE  /\ NoGrant => UNCHANGED {g \in Approvers \X Requests : id[g[1]] = g[2] /\ auth[g[1]] # "none"}
         /\ (\A a \in Approvers : HeldBy(a, r)' <=> HeldBy(a, r)) =>
              UNCHANGED [q \in Requests |-> {a \in Approvers : HeldBy(a, q)}]
         /\ StatusOf(r)' = StatusOf(r) => UNCHANGED [q \in Requests |-> StatusOf(q)]
         /\ \A from, to : StatusOf(r) = from /\ StatusOf(r)' = to => OneShot!Move(r, from, to)
PROOF
<1>1. NoGrant => UNCHANGED {g \in Approvers \X Requests : id[g[1]] = g[2] /\ auth[g[1]] # "none"}
  BY DEF NoGrant
<1>2. ASSUME \A a \in Approvers : HeldBy(a, r)' <=> HeldBy(a, r)
      PROVE  UNCHANGED [q \in Requests |-> {a \in Approvers : HeldBy(a, q)}]
  BY <1>2 DEF Others
<1>3. StatusOf(r)' = StatusOf(r) => UNCHANGED [q \in Requests |-> StatusOf(q)]
  BY DEF Others
<1>4. ASSUME NEW from, NEW to, StatusOf(r) = from, StatusOf(r)' = to
      PROVE  OneShot!Move(r, from, to)
  BY <1>4 DEF Others, OneShot!Move
<1> QED
  BY <1>1, <1>2, <1>3, <1>4
\* A step of one approver, on its own request.
Alone(a) ==
  /\ UNCHANGED <<id, posted>>
  /\ \A b \in Approvers \ {a} : pc'[b] = pc[b] /\ ran'[b] = ran[b] /\ auth'[b] = auth[b]
  /\ \A q \in Requests \ {id[a]} : pending'[q] = pending[q]

LEMMA AloneOthers ==
  ASSUME NEW a \in Approvers, NEW r \in Requests, id[a] = r, Alone(a)
  PROVE  Others(r)
BY SameView DEF Alone, Others

\* It gives its request up, or is killed while it holds it.
LEMMA LetsGo ==
  ASSUME Sane, NEW a \in Approvers, NEW r \in Requests, id[a] = r, Alone(a),
         pc[a] \in Holding, pc'[a] \notin Holding,
         ran'[a] = ran[a], auth'[a] = auth[a], pending' = pending
  PROVE  OneShot!Void(r)
PROOF
<1>2. Others(r)
  BY AloneOthers
<1>3. /\ StatusOf(r) = "held" /\ posted[r] # Absent /\ pending[r] = Absent
      /\ ran[a] = Absent /\ \A b \in Approvers : HeldBy(b, r) <=> b = a
  BY StatusIs
<1>4. \A b \in Approvers : ~HeldBy(b, r)'
  BY <1>3 DEF Alone, HeldBy
<1>5. StatusOf(r)' = "void"
  BY <1>3, <1>4 DEF Alone, StatusOf, HeldBy
<1>6. NoGrant
  BY DEF Alone, NoGrant
<1>7. [q \in Requests |-> {b \in Approvers : HeldBy(b, q)}]'
        = [[q \in Requests |-> {b \in Approvers : HeldBy(b, q)}] EXCEPT ![r] = {}]
  BY <1>2, <1>4 DEF Others
<1>8. OneShot!Move(r, "held", "void")
  BY <1>2, <1>3, <1>5, Steps
<1> QED
  BY <1>2, <1>6, <1>7, <1>8, Steps DEF OneShot!Void

\* What has expired is dropped when it is looked at.
LEMMA Drops ==
  ASSUME Sane, NEW a \in Approvers, NEW r \in Requests, id[a] = r, Alone(a),
         pc[a] \notin Holding, pc'[a] \notin Holding,
         ran'[a] = ran[a], auth'[a] = auth[a], pending'[r] = Absent
  PROVE  OneShot!Void(r) \/ UNCHANGED OneShot!oneShotVars
PROOF
<1>2. Others(r) /\ NoGrant
  BY AloneOthers DEF Alone, NoGrant
<1>3. \A b \in Approvers : HeldBy(b, r)' <=> HeldBy(b, r)
  BY DEF Alone, HeldBy
<1>4. CASE pending[r] # Absent
  <2>1. StatusOf(r) = "open" /\ (\A b \in Approvers : ~HeldBy(b, r)) /\ posted[r] # Absent
    BY <1>4, StatusIs DEF Sane, OneTaker
  <2>2. StatusOf(r)' = "void"
    BY <1>3, <2>1 DEF Alone, StatusOf, HeldBy
  <2> QED
    BY <1>2, <1>3, <2>1, <2>2, Steps DEF OneShot!Void
<1>5. CASE pending[r] = Absent
  <2>1. StatusOf(r)' = StatusOf(r)
    BY <1>5, SameView DEF Alone
  <2> QED
    BY <1>2, <1>3, <2>1, Steps DEF OneShot!oneShotVars
<1> QED
  BY <1>4, <1>5

\* A step that shows in none of it.
LEMMA Idles ==
  ASSUME Sane, NEW a \in Approvers, NEW r \in Requests, id[a] = r, Alone(a),
         (pc'[a] \in Holding) <=> (pc[a] \in Holding),
         ran'[a] = ran[a], auth'[a] = auth[a], pending'[r] = pending[r]
  PROVE  UNCHANGED OneShot!oneShotVars
PROOF
<1>2. Others(r) /\ NoGrant
  BY AloneOthers DEF Alone, NoGrant
<1>3. StatusOf(r)' = StatusOf(r) /\ \A b \in Approvers : HeldBy(b, r)' <=> HeldBy(b, r)
  BY SameView DEF Alone
<1> QED
  BY <1>2, <1>3, Steps DEF OneShot!oneShotVars

\* The rename in Claim.
LEMMA Takes ==
  ASSUME Sane, NEW a \in Approvers, NEW r \in Requests, id[a] = r, Alone(a),
         pc[a] = "claim", pc'[a] \in Holding,
         ran'[a] = ran[a], auth'[a] = auth[a],
         pending[r] # Absent, pending'[r] = Absent
  PROVE  OneShot!Take(a, r)
PROOF
<1>2. Others(r) /\ NoGrant
  BY AloneOthers DEF Alone, NoGrant
<1>3. StatusOf(r) = "open" /\ (\A b \in Approvers : ~HeldBy(b, r)) /\ posted[r] # Absent
  BY StatusIs DEF Sane, OneTaker
<1>4. \A b \in Approvers : HeldBy(b, r)' <=> b = a
  BY <1>3 DEF Alone, HeldBy
<1>5. StatusOf(r)' = "held"
  <2>1. \A b \in Approvers : id[b] = r => ran'[b] = Absent
    BY <1>3 DEF Alone, HeldBy
  <2> QED
    BY <1>3, <2>1 DEF Alone, StatusOf
<1>6. <<a, r>> \in {g \in Approvers \X Requests : id[g[1]] = g[2] /\ auth[g[1]] # "none"}
  BY DEF Sane, AllOnce, Once
<1>7. [q \in Requests |-> {b \in Approvers : HeldBy(b, q)}]'
        = [[q \in Requests |-> {b \in Approvers : HeldBy(b, q)}] EXCEPT ![r] = {a}]
  BY <1>2, <1>4 DEF Others
<1>8. OneShot!Move(r, "open", "held")
  BY <1>2, <1>3, <1>5, Steps
<1> QED
  BY <1>2, <1>6, <1>7, <1>8, Steps DEF OneShot!Take

\* kubectl starts.
LEMMA Runs ==
  ASSUME Sane, NEW a \in Approvers, NEW r \in Requests, id[a] = r, Alone(a),
         pc[a] \in Holding, pc'[a] \notin Holding,
         ran'[a] # Absent, auth'[a] = auth[a], pending' = pending
  PROVE  OneShot!Run(r)
PROOF
<1>2. Others(r) /\ NoGrant
  BY AloneOthers DEF Alone, NoGrant
<1>3. /\ StatusOf(r) = "held" /\ posted[r] # Absent
      /\ \A b \in Approvers : HeldBy(b, r) <=> b = a
  BY StatusIs
<1>4. \A b \in Approvers : HeldBy(b, r)' <=> HeldBy(b, r)
  BY <1>3 DEF Alone, HeldBy
<1>5. StatusOf(r)' = "ran"
  BY <1>3 DEF Alone, StatusOf
<1>6. OneShot!Move(r, "held", "ran")
  BY <1>2, <1>3, <1>5, Steps
<1> QED
  BY <1>2, <1>4, <1>6, Steps DEF OneShot!Run

\* PAM answers.
LEMMA Grants ==
  ASSUME Sane, NEW a \in Approvers, NEW r \in Requests, id[a] = r, Alone(a),
         pc[a] = "pam", pc'[a] \notin Holding,
         ran'[a] = ran[a], auth'[a] # "none", pending' = pending
  PROVE  OneShot!Grant(a, r)
PROOF
<1> DEFINE grants == {g \in Approvers \X Requests : id[g[1]] = g[2] /\ auth[g[1]] # "none"}
<1>2. Others(r)
  BY AloneOthers
<1>3. StatusOf(r)' = StatusOf(r) /\ \A b \in Approvers : HeldBy(b, r)' <=> HeldBy(b, r)
  BY SameView DEF Alone, Holding
<1>4. auth[a] = "none"
  BY DEF Sane, AllOnce, Once, Asked, Asking
<1>5. \A q \in Requests : <<a, q>> \notin grants
  BY <1>4
<1>6. grants' = grants \cup {<<a, r>>}
  <2>1. ASSUME NEW b \in Approvers, NEW q \in Requests
        PROVE  <<b, q>> \in grants' <=> <<b, q>> \in grants \/ (b = a /\ q = r)
    BY <1>4 DEF Alone
  <2>2. \A g \in grants' \cup grants \cup {<<a, r>>} :
          \E b \in Approvers, q \in Requests : g = <<b, q>>
    OBVIOUS
  <2>3. \A b, q : <<b, q>> = <<a, r>> <=> b = a /\ q = r
    OBVIOUS
  <2> HIDE DEF grants
  <2> QED
    BY <2>1, <2>2, <2>3
<1> QED
  BY <1>2, <1>3, <1>5, <1>6, Steps DEF OneShot!Grant
LEMMA ApproveAlone ==
  ASSUME TypeOK, NEW a \in Approvers, Approve(a)
  PROVE  Alone(a)
PROOF
<1> USE ApprovalAssumption
<1>0. a \in Procs /\ Approvers \subseteq Procs
  BY DEF Procs
<1>1. UNCHANGED <<id, posted>>
  BY DEF Approve, Begin, LoadRequest, FirstCheck, FirstCapture, Probe, Pam,
         ClaimRename, ClaimRead, Recheck, Recapture, Record, Exec, approveSame, localSame
<1>2. \A b \in Approvers \ {a} : pc'[b] = pc[b]
  BY <1>0
     DEF TypeOK, Approve, Begin, LoadRequest, FirstCheck, FirstCapture, Probe, Pam,
         ClaimRename, ClaimRead, Recheck, Recapture, Record, Exec, Reject, AuthFails, Goto
<1>3. \A b \in Approvers \ {a} : ran'[b] = ran[b] /\ auth'[b] = auth[b]
  BY DEF TypeOK, Approve, Begin, LoadRequest, FirstCheck, FirstCapture, Probe, Pam,
         ClaimRename, ClaimRead, Recheck, Recapture, Record, Exec, passed
<1>4. \A q \in Requests \ {id[a]} : pending'[q] = pending[q]
  BY DEF TypeOK, StoreTypeOK, Approve, Begin, LoadRequest, FirstCheck, FirstCapture, Probe, Pam,
         ClaimRename, ClaimRead, Recheck, Recapture, Record, Exec, DropIfExpired, TakeAway
<1> QED
  BY <1>1, <1>2, <1>3, <1>4 DEF Alone

\* What a step of an approver does to its own request.
LEMMA ApproveShows ==
  ASSUME TypeOK, NEW a \in Approvers, NEW r \in Requests, id[a] = r, Approve(a)
  PROVE  \/ /\ pc[a] \notin Holding /\ pc'[a] \notin Holding /\ ran'[a] = ran[a] /\ auth'[a] = auth[a]
            /\ pending'[r] \in {pending[r], Absent}
         \/ /\ pc[a] = "pam" /\ pc'[a] \notin Holding /\ ran'[a] = ran[a] /\ pending' = pending
            /\ auth'[a] # "none"
         \/ /\ pc[a] = "claim" /\ pc'[a] \in Holding /\ ran'[a] = ran[a] /\ auth'[a] = auth[a]
            /\ pending[r] # Absent /\ pending'[r] = Absent
         \/ /\ pc[a] \in Holding /\ ran'[a] = ran[a] /\ auth'[a] = auth[a] /\ pending' = pending
         \/ /\ pc[a] \in Holding /\ pc'[a] \notin Holding /\ ran'[a] # Absent /\ auth'[a] = auth[a]
            /\ pending' = pending
PROOF
<1> USE ApprovalAssumption
<1>0. a \in Procs
  BY DEF Procs
<1>1. CASE Begin(a) \/ FirstCheck(a) \/ FirstCapture(a) \/ Probe(a)
  BY <1>0, <1>1
     DEF TypeOK, Begin, FirstCheck, FirstCapture, Probe, Reject, AuthFails, At, Goto, passed, Holding
<1>2. CASE LoadRequest(a)
  <2>1. pc[a] = "load" /\ pc'[a] \in {"check", "done"} /\ UNCHANGED <<ran, auth>>
    BY <1>0, <1>2 DEF TypeOK, LoadRequest, Reject, At, Goto, passed
  <2>2. pending'[r] \in {pending[r], Absent}
    BY <1>2 DEF TypeOK, StoreTypeOK, LoadRequest, DropIfExpired
  <2> QED
    BY <2>1, <2>2 DEF Holding
<1>3. CASE Pam(a)
  <2>1. pc[a] = "pam" /\ pc'[a] \in {"claim", "done"} /\ ran' = ran /\ pending' = pending
    BY <1>0, <1>3 DEF TypeOK, Pam, AuthFails, At, Goto
  <2>2. auth'[a] # "none" \/ auth' = auth
    BY <1>3 DEF TypeOK, Pam
  <2> QED
    BY <2>1, <2>2 DEF Holding
<1>4. CASE ClaimRename(a)
  <2>1. pc[a] = "claim" /\ UNCHANGED <<ran, auth>>
    BY <1>4 DEF ClaimRename, At, passed
  <2>2. \/ pc'[a] = "read" /\ pending[r] # Absent /\ pending'[r] = Absent
        \/ pc'[a] = "done" /\ pending' = pending
    BY <1>0, <1>4 DEF TypeOK, StoreTypeOK, ClaimRename, TakeAway, Reject, Goto
  <2> QED
    BY <2>1, <2>2 DEF Holding
<1>5. CASE ClaimRead(a) \/ Recheck(a) \/ Recapture(a) \/ Record(a)
  BY <1>5 DEF ClaimRead, Recheck, Recapture, Record, At, passed, Holding
<1>6. CASE Exec(a)
  <2>1. pc[a] = "exec" /\ UNCHANGED <<pending, auth>>
    BY <1>6 DEF Exec, At
  <2>2. ran' = ran \/ (ran'[a] # Absent /\ pc'[a] = "executed")
    BY <1>0, <1>6 DEF TypeOK, Exec, Goto
  <2> QED
    BY <2>1, <2>2 DEF Holding
<1> QED
  BY <1>1, <1>2, <1>3, <1>4, <1>5, <1>6 DEF Approve

LEMMA ApproveImplements ==
  ASSUME Sane, NEW a \in Approvers, Approve(a)
  PROVE  OneShot!Next \/ UNCHANGED OneShot!oneShotVars
PROOF
<1> PICK r \in Requests : id[a] = r
  BY DEF Sane, TypeOK
<1>1. Alone(a)
  BY ApproveAlone DEF Sane
<1>2. \/ OneShot!Void(r) \/ OneShot!Grant(a, r) \/ OneShot!Take(a, r) \/ OneShot!Run(r)
      \/ UNCHANGED OneShot!oneShotVars
  BY <1>1, ApproveShows, LetsGo, Drops, Idles, Takes, Runs, Grants DEF Sane
<1> QED
  BY <1>2 DEF OneShot!Next

\* What is pruned was open.
LEMMA Prunes ==
  ASSUME Sane, UNCHANGED <<id, posted, ran>>,
         \A a \in Approvers : pc'[a] = pc[a] /\ auth'[a] = auth[a],
         \A r \in Requests : pending'[r] \in {pending[r], Absent}
  PROVE  OneShot!Next \/ UNCHANGED OneShot!oneShotVars
PROOF
<1> DEFINE S == {r \in Requests : pending[r] # Absent /\ pending'[r] = Absent}
           holders == [q \in Requests |-> {b \in Approvers : HeldBy(b, q)}]
           grants == {g \in Approvers \X Requests : id[g[1]] = g[2] /\ auth[g[1]] # "none"}
           status == [q \in Requests |-> StatusOf(q)]
<1>1. \A r \in Requests, a \in Approvers : HeldBy(a, r)' <=> HeldBy(a, r)
  BY DEF HeldBy
<1>2. ASSUME NEW r \in Requests
      PROVE  StatusOf(r)' = IF r \in S THEN "void" ELSE StatusOf(r)
  <2>1. CASE r \in S
    <3>1. posted[r] # Absent /\ \A b \in Approvers : ~HeldBy(b, r)
      BY <2>1, StatusIs DEF Sane, OneTaker
    <3> QED
      BY <1>1, <2>1, <3>1 DEF StatusOf, HeldBy
  <2>2. CASE r \notin S
    BY <2>2 DEF StatusOf
  <2> QED
    BY <2>1, <2>2
<1>3. \A r \in S : StatusOf(r) = "open"
  BY StatusIs
<1>4. UNCHANGED <<holders, grants>>
  BY <1>1
<1>5. CASE S # {}
  <2>1. status' = [r \in Requests |-> IF r \in S THEN "void" ELSE status[r]]
    BY <1>2
  <2>2. \A r \in S : status[r] = "open"
    BY <1>3
  <2>3. PICK T \in SUBSET Requests : T = S
    OBVIOUS
  <2>4. OneShot!VoidMany(T)
    BY <1>4, <1>5, <2>1, <2>2, <2>3 DEF OneShot!VoidMany
  <2> QED
    BY <2>4 DEF OneShot!Next
<1>6. CASE S = {}
  <2>1. status' = status
    BY <1>2, <1>6
  <2> QED
    BY <1>4, <2>1 DEF OneShot!oneShotVars
<1> QED
  BY <1>5, <1>6

LEMMA RelayImplements ==
  ASSUME Sane, NEW r \in Requests, Relay(r)
  PROVE  OneShot!Next \/ UNCHANGED OneShot!oneShotVars
PROOF
<1> USE ApprovalAssumption
<1>0. r \in Procs /\ r \notin Approvers /\ Approvers \subseteq Procs /\ TypeOK
  BY DEF Procs, Sane
<1>1. /\ UNCHANGED <<id, ran, auth>>
      /\ \A a \in Approvers : pc'[a] = pc[a]
  BY <1>0
     DEF TypeOK, Relay, RelayCheck, RelayProbe, RelayEnrolled, RelayCapture, RelayPrune,
         RelayWrite, RelayPublish, RelayReport, RelayFails, Goto, relaySame
<1>2. CASE ~RelayPublish(r)
  <2>1. UNCHANGED posted
    BY <1>2
       DEF Relay, RelayCheck, RelayProbe, RelayEnrolled, RelayCapture, RelayPrune,
           RelayWrite, RelayReport, RelayFails
  <2>2. \A q \in Requests : pending'[q] \in {pending[q], Absent}
    <3>1. UNCHANGED pending \/ \E S : Prune(S)
      BY <1>2
         DEF Relay, RelayCheck, RelayProbe, RelayEnrolled, RelayCapture, RelayPrune,
             RelayWrite, RelayReport, RelayFails, storeVars
    <3> QED
      BY <3>1 DEF Prune
  <2> QED
    BY <1>1, <2>1, <2>2, Prunes
<1>3. CASE RelayPublish(r)
  <2>1. /\ pc[r] = "publish"
        /\ posted' = [posted EXCEPT ![r] = temp[r]] /\ pending' = [pending EXCEPT ![r] = temp[r]]
    BY <1>3 DEF RelayPublish, Publish, At
  <2>2. posted[r] = Absent /\ pending[r] = Absent
    BY <2>1 DEF Sane, OneTaker, Filing
  <2>3. /\ posted'[r] = temp[r] /\ pending'[r] = temp[r]
        /\ \A q \in Requests \ {r} : posted'[q] = posted[q] /\ pending'[q] = pending[q]
    BY <1>0, <2>1 DEF TypeOK, StoreTypeOK
  <2>4. Others(r) /\ NoGrant
    BY <1>1, <2>3, SameView DEF Others, NoGrant
  <2>5. \A a \in Approvers : HeldBy(a, r)' <=> HeldBy(a, r)
    BY <1>1 DEF HeldBy
  <2>6. CASE temp[r] = Absent
    <3>1. StatusOf(r)' = StatusOf(r)
      BY <1>1, <2>2, <2>3, <2>6, SameView
    <3> QED
      BY <2>4, <2>5, <3>1, Steps DEF OneShot!oneShotVars
  <2>7. CASE temp[r] # Absent
    <3>1. StatusOf(r) = "none" /\ \A a \in Approvers : ~HeldBy(a, r)
      BY <2>2, StatusIs
    <3>2. StatusOf(r)' = "open"
      BY <2>3, <2>5, <2>7, <3>1 DEF StatusOf, HeldBy
    <3>3. OneShot!Post(r)
      BY <2>4, <2>5, <3>1, <3>2, Steps DEF OneShot!Post
    <3> QED
      BY <3>3 DEF OneShot!Next
  <2> QED
    BY <2>6, <2>7
<1> QED
  BY <1>2, <1>3

LEMMA CrashImplements ==
  ASSUME Sane, NEW p \in Procs, Crash(p)
  PROVE  OneShot!Next \/ UNCHANGED OneShot!oneShotVars
PROOF
<1>0. TypeOK /\ Approvers \subseteq Procs
  BY DEF Sane, Procs
<1>1. /\ UNCHANGED <<id, posted, ran, auth, pending>>
      /\ pc' = [pc EXCEPT ![p] = "crashed"]
  BY DEF Crash, storeVars, historyVars, Goto
<1>2. \A q \in Procs : pc'[q] = IF q = p THEN "crashed" ELSE pc[q]
  BY <1>0, <1>1 DEF TypeOK
<1>3. CASE p \in Approvers /\ pc[p] \in Holding
  <2> PICK r \in Requests : id[p] = r
    BY <1>0, <1>3 DEF TypeOK
  <2>1. Alone(p)
    BY <1>0, <1>1, <1>2 DEF Alone
  <2>2. OneShot!Void(r)
    BY <1>1, <1>2, <1>3, <2>1, LetsGo DEF Holding
  <2> QED
    BY <2>2 DEF OneShot!Next
<1>4. CASE ~(p \in Approvers /\ pc[p] \in Holding)
  <2>1. \A a \in Approvers : (pc'[a] \in Holding) <=> (pc[a] \in Holding)
    BY <1>0, <1>2, <1>4 DEF Holding
  <2>2. \A r \in Requests : StatusOf(r)' = StatusOf(r) /\ \A a \in Approvers : HeldBy(a, r)' <=> HeldBy(a, r)
    BY <1>1, <2>1, SameView
  <2> QED
    BY <1>1, <2>2 DEF OneShot!oneShotVars
<1> QED
  BY <1>3, <1>4

\* `approval setup', the world and a stutter show in none of it.
LEMMA OtherImplements ==
  ASSUME Sane, (\E e \in Enrollers : Setup(e)) \/ World \/ UNCHANGED vars
  PROVE  UNCHANGED OneShot!oneShotVars
PROOF
<1> USE ApprovalAssumption
<1>0. /\ TypeOK /\ Approvers \subseteq Procs /\ Enrollers \subseteq Procs
      /\ Enrollers \cap Approvers = {} /\ Absent \notin File
  BY StoreAssumption DEF Sane, Procs
<1>1. ASSUME NEW e \in Enrollers, Setup(e)
      PROVE  /\ UNCHANGED <<id, posted, ran, pending>>
             /\ \A a \in Approvers : pc'[a] = pc[a] /\ auth'[a] = auth[a]
  BY <1>0, <1>1
     DEF TypeOK, Setup, SetupBegin, SetupProbe, SetupPam, SetupEnable, setupSame, storeVars, Goto
<1>2. ASSUME World
      PROVE  /\ UNCHANGED <<id, posted, ran>>
             /\ \A r \in Requests : (pending'[r] = Absent) <=> (pending[r] = Absent)
             /\ \A a \in Approvers : pc'[a] = pc[a] /\ auth'[a] = auth[a]
  <2>1. UNCHANGED <<id, posted, ran, pc, auth>>
    BY <1>2
       DEF World, ChangePolicy, Retarget, ChangeSudoers, ChangeDisk, SpoilEnrolment,
           EditRequest, ClockTick, worldStep, procVars, historyVars
  <2>2. \A r \in Requests : (pending'[r] = Absent) <=> (pending[r] = Absent)
    <3>1. CASE EditRequest
      <4>1. PICK q \in Requests, b \in Bodies :
               /\ pending[q] # Absent
               /\ pending' = [pending EXCEPT ![q].body = b]
        BY <3>1 DEF EditRequest
      <4>2. pending \in [Requests -> File \cup {Absent}]
        BY <1>0 DEF TypeOK, StoreTypeOK
      <4>3. pending[q] \in File /\ [pending[q] EXCEPT !.body = b] \in File
        BY <4>1, <4>2 DEF File
      <4>4. pending'[q] # Absent
        BY <1>0, <4>1, <4>2, <4>3
      <4> QED
        BY <4>1, <4>2, <4>4
    <3>2. CASE ~EditRequest
      BY <1>2, <3>2
         DEF World, ChangePolicy, Retarget, ChangeSudoers, ChangeDisk, SpoilEnrolment,
             ClockTick, Tick
    <3> QED
      BY <3>1, <3>2
  <2> QED
    BY <2>1, <2>2
<1>3. ASSUME UNCHANGED vars
      PROVE  /\ UNCHANGED <<id, posted, ran, pending>>
             /\ \A a \in Approvers : pc'[a] = pc[a] /\ auth'[a] = auth[a]
  BY <1>3 DEF vars, storeVars, procVars, historyVars
<1>4. /\ UNCHANGED <<id, posted, ran>>
      /\ \A r \in Requests : (pending'[r] = Absent) <=> (pending[r] = Absent)
      /\ \A a \in Approvers : pc'[a] = pc[a] /\ auth'[a] = auth[a]
  BY <1>1, <1>2, <1>3
<1>5. \A r \in Requests : StatusOf(r)' = StatusOf(r) /\ \A a \in Approvers : HeldBy(a, r)' <=> HeldBy(a, r)
  BY <1>4, SameView
<1> QED
  BY <1>4, <1>5 DEF OneShot!oneShotVars

(***************************************************************************)
(* However many processes approve, crash or find the world changed, what   *)
(* they do to a request is what OneShotApproval allows: it is taken by one *)
(* approver that has authenticated for it, which alone runs it, once; and  *)
(* otherwise it ends void (store.go, Claim; main.go, runApprove).          *)
(***************************************************************************)
THEOREM ImplementationHolds == Spec => ImplementsOneShot
PROOF
<1>1. Init => OneShot!Init
  <2> SUFFICES ASSUME Init PROVE OneShot!Init
    OBVIOUS
  <2>1. \A r \in Requests : StatusOf(r) = "none"
    BY DEF Init, StatusOf
  <2>2. \A r \in Requests, a \in Approvers : ~HeldBy(a, r)
    BY DEF Init, HeldBy, Holding, Procs
  <2>3. \A a \in Approvers : auth[a] = "none"
    BY DEF Init
  <2> QED
    BY <2>1, <2>2, <2>3 DEF OneShot!Init
<1>2. Init => AllOnce
  BY DEF Init, AllOnce, Once, Asked, Asking, Procs
<1>3. TypeOK /\ AllOnce /\ [Next]_vars => AllOnce'
  BY AskedStep, ClaimsAuthenticated DEF AllOnce, Once
<1>4. TypeOK /\ OneTaker /\ AllSound /\ AllOnce /\ [Next]_vars => [OneShot!Next]_(OneShot!oneShotVars)
  BY RelayImplements, ApproveImplements, CrashImplements, OtherImplements DEF Next, Sane
<1> QED
  BY <1>1, <1>2, <1>3, <1>4, TypeCorrect, OneTakerInvariant, SoundInvariant, PTL
     DEF Spec, ImplementsOneShot, OneShot!Spec
==================================================================================
