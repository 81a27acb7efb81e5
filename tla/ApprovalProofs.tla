----------------------------- MODULE ApprovalProofs -----------------------------
(***************************************************************************)
(* Theorems about Approval, for any number of requests, approvers, set-ups,*)
(* contexts, sites and policies, and for any TTL and bounds.               *)
(***************************************************************************)
EXTENDS Approval, TLAPS

(***************************************************************************)
(* What the steps of a process put into the variables has the right type.  *)
(***************************************************************************)
LEMMA GotoType ==
  ASSUME TypeOK, NEW p \in Procs,
         NEW s \in RelayPCs \cup ApproverPCs \cup SetupPCs \cup Stopped, Goto(p, s)
  PROVE  pc' \in [Procs -> RelayPCs \cup ApproverPCs \cup SetupPCs \cup Stopped]
BY DEF TypeOK, Goto

LEMMA AppendType ==
  ASSUME TypeOK, NEW p \in Procs, NEW cfg, NEW outcome \in Outcomes,
         Append(p, cfg, outcome)
  PROVE  log' \in SUBSET [by : Procs, outcome : Outcomes \cup {"unwritten"}]
BY DEF TypeOK, Append

LEMMA FreshType ==
  ASSUME TypeOK, NEW p \in Procs
  PROVE  Fresh(p) \in Snapshots
BY DEF TypeOK, Fresh, Snapshots

LEMMA WriteTempType ==
  ASSUME TypeOK, NEW r \in Requests, NEW snapshot \in Snapshots,
         WriteTemp(r, snapshot)
  PROVE  temp' \in [Requests -> File \cup {Absent}]
BY StoreAssumption DEF TypeOK, StoreTypeOK, WriteTemp, File, Bodies

LEMMA StoreTypes ==
  ASSUME TypeOK, NEW r \in Requests
  PROVE  /\ RemoveTemp(r) => temp' \in [Requests -> File \cup {Absent}]
         /\ DropIfExpired(r) => pending' \in [Requests -> File \cup {Absent}]
         /\ TakeAway(r) => /\ pending' \in [Requests -> File \cup {Absent}]
                           /\ taken' \in [Requests -> File \cup {Absent}]
         /\ RemoveTaken(r) => taken' \in [Requests -> File \cup {Absent}]
         /\ \A S : Prune(S) => pending' \in [Requests -> File \cup {Absent}]
PROOF
<1> USE StoreAssumption DEF TypeOK, StoreTypeOK
<1>1. RemoveTemp(r) => temp' \in [Requests -> File \cup {Absent}]
  BY DEF RemoveTemp
<1>2. DropIfExpired(r) => pending' \in [Requests -> File \cup {Absent}]
  BY DEF DropIfExpired
<1>3. TakeAway(r) => /\ pending' \in [Requests -> File \cup {Absent}]
                     /\ taken' \in [Requests -> File \cup {Absent}]
  BY DEF TakeAway
<1>4. RemoveTaken(r) => taken' \in [Requests -> File \cup {Absent}]
  BY DEF RemoveTaken
<1>5. \A S : Prune(S) => pending' \in [Requests -> File \cup {Absent}]
  BY DEF Prune
<1> QED
  BY <1>1, <1>2, <1>3, <1>4, <1>5

(***************************************************************************)
(* The steps of `guard'.                                                   *)
(***************************************************************************)
LEMMA RelayTypes ==
  ASSUME TypeOK, NEW r \in Requests, Relay(r)
  PROVE  TypeOK'
PROOF
<1> USE StoreAssumption, ApprovalAssumption
<1>0. r \in Procs
  BY DEF Procs
<1>1. CASE RelayCheck(r)
  BY <1>0, <1>1
  DEF TypeOK, RelayCheck, relaySame, worldVars, storeVars, StoreTypeOK, RelayPCs,
      Stopped, Goto, At
<1>2. CASE RelayProbe(r)
  BY <1>0, <1>2, AppendType
  DEF TypeOK, RelayProbe, relaySame, worldVars, storeVars, StoreTypeOK, RelayPCs,
      Stopped, Goto, At, Outcomes
<1>3. CASE RelayEnrolled(r)
  BY <1>0, <1>3, AppendType
  DEF TypeOK, RelayEnrolled, relaySame, worldVars, storeVars, StoreTypeOK, RelayPCs,
      Stopped, Goto, At, Outcomes
<1>4. CASE RelayCapture(r)
  BY <1>0, <1>4, FreshType
  DEF TypeOK, RelayCapture, relaySame, worldVars, storeVars, StoreTypeOK, RelayPCs,
      Stopped, Goto, At
<1>5. CASE RelayPrune(r)
  BY <1>0, <1>5, StoreTypes
  DEF TypeOK, RelayPrune, relaySame, worldVars, storeVars, StoreTypeOK, RelayPCs,
      Stopped, Goto, At
<1>6. CASE RelayWrite(r)
  BY <1>0, <1>6, WriteTempType
  DEF TypeOK, RelayWrite, relaySame, worldVars, storeVars, StoreTypeOK, RelayPCs,
      Stopped, Goto, At
<1>7. CASE RelayPublish(r)
  BY <1>0, <1>7
  DEF TypeOK, RelayPublish, relaySame, worldVars, storeVars, StoreTypeOK, RelayPCs,
      Stopped, Goto, At, Publish, RemoveTemp
<1>8. CASE RelayReport(r)
  BY <1>0, <1>8, AppendType
  DEF TypeOK, RelayReport, relaySame, worldVars, storeVars, StoreTypeOK, RelayPCs,
      Stopped, Goto, At, Outcomes
<1>9. CASE RelayFails(r)
  BY <1>0, <1>9, StoreTypes
  DEF TypeOK, RelayFails, relaySame, worldVars, storeVars, StoreTypeOK, RelayPCs,
      Stopped, Goto, At
<1> QED
  BY <1>1, <1>2, <1>3, <1>4, <1>5, <1>6, <1>7, <1>8, <1>9 DEF Relay

(***************************************************************************)
(* The steps of `approve'.                                                 *)
(***************************************************************************)
LEMMA ApproveTypes ==
  ASSUME TypeOK, NEW a \in Approvers, Approve(a)
  PROVE  TypeOK'
PROOF
<1> USE StoreAssumption, ApprovalAssumption
<1>0. a \in Procs
  BY DEF Procs
<1>1. CASE Begin(a)
  BY <1>0, <1>1, AppendType
  DEF TypeOK, Begin, approveSame, passed, localSame, worldVars, storeVars,
      StoreTypeOK, ApproverPCs, Stopped, Goto, Outcomes, Reject
<1>2. CASE LoadRequest(a)
  BY <1>0, <1>2, AppendType, StoreTypes
  DEF TypeOK, LoadRequest, approveSame, passed, localSame, worldVars, storeVars,
      StoreTypeOK, ApproverPCs, Stopped, Goto, Outcomes, Reject, Accepts, Parsed
<1>3. CASE FirstCheck(a)
  BY <1>0, <1>3, AppendType
  DEF TypeOK, FirstCheck, approveSame, passed, localSame, worldVars, storeVars,
      StoreTypeOK, ApproverPCs, Stopped, Goto, Outcomes, Reject
<1>4. CASE FirstCapture(a)
  BY <1>0, <1>4, AppendType
  DEF TypeOK, FirstCapture, approveSame, passed, localSame, worldVars, storeVars,
      StoreTypeOK, ApproverPCs, Stopped, Goto, Outcomes, Reject
<1>5. CASE Probe(a)
  BY <1>0, <1>5, AppendType
  DEF TypeOK, Probe, approveSame, passed, localSame, worldVars, storeVars,
      StoreTypeOK, ApproverPCs, Stopped, Goto, Outcomes, AuthFails
<1>6. CASE Pam(a)
  <2>1. pc' \in [Procs -> RelayPCs \cup ApproverPCs \cup SetupPCs \cup Stopped]
    BY <1>0, <1>6 DEF TypeOK, Pam, AuthFails, Goto, ApproverPCs, Stopped
  <2>2. log' \in SUBSET [by : Procs, outcome : Outcomes \cup {"unwritten"}]
    BY <1>0, <1>6, AppendType DEF TypeOK, Pam, AuthFails, Outcomes
  <2>3. /\ auth' \in [Approvers \cup Enrollers -> {"none", "human", "machine"}]
        /\ authAt' \in [Approvers -> 0 .. MaxTime]
    BY <1>6 DEF TypeOK, StoreTypeOK, Pam
  <2> QED
    BY <1>6, <2>1, <2>2, <2>3
    DEF TypeOK, StoreTypeOK, Pam, localSame, approveSame, worldVars
<1>7. CASE ClaimRename(a)
  BY <1>0, <1>7, AppendType, StoreTypes
  DEF TypeOK, ClaimRename, approveSame, passed, localSame, worldVars, storeVars,
      StoreTypeOK, ApproverPCs, Stopped, Goto, Outcomes, Reject
<1>8. CASE ClaimRead(a)
  BY <1>0, <1>8, AppendType, StoreTypes
  DEF TypeOK, ClaimRead, approveSame, passed, localSame, worldVars, storeVars,
      StoreTypeOK, ApproverPCs, Stopped, Goto, Outcomes, Reject
<1>9. CASE Recheck(a)
  BY <1>0, <1>9, AppendType
  DEF TypeOK, Recheck, approveSame, passed, localSame, worldVars, storeVars,
      StoreTypeOK, ApproverPCs, Stopped, Goto, Outcomes, Reject
<1>10. CASE Recapture(a)
  BY <1>0, <1>10, AppendType
  DEF TypeOK, Recapture, approveSame, passed, localSame, worldVars, storeVars,
      StoreTypeOK, ApproverPCs, Stopped, Goto, Outcomes, Reject
<1>11. CASE Record(a)
  BY <1>0, <1>11, AppendType
  DEF TypeOK, Record, approveSame, passed, localSame, worldVars, storeVars,
      StoreTypeOK, ApproverPCs, Stopped, Goto, Outcomes
<1>12. CASE Exec(a)
  BY <1>0, <1>12, AppendType
  DEF TypeOK, Exec, approveSame, passed, localSame, worldVars, storeVars,
      StoreTypeOK, ApproverPCs, Stopped, Goto, Outcomes
<1> QED
  BY <1>1, <1>2, <1>3, <1>4, <1>5, <1>6, <1>7, <1>8, <1>9, <1>10, <1>11, <1>12
  DEF Approve

(***************************************************************************)
(* The steps of `approval setup'.                                          *)
(***************************************************************************)
LEMMA SetupTypes ==
  ASSUME TypeOK, NEW e \in Enrollers, Setup(e)
  PROVE  TypeOK'
PROOF
<1> USE StoreAssumption, ApprovalAssumption
<1>0. e \in Procs
  BY DEF Procs
<1>1. CASE SetupBegin(e)
  BY <1>0, <1>1
  DEF TypeOK, SetupBegin, setupSame, storeVars, StoreTypeOK, SetupPCs, Stopped, Goto, At
<1>2. CASE SetupProbe(e)
  BY <1>0, <1>2
  DEF TypeOK, SetupProbe, setupSame, storeVars, StoreTypeOK, SetupPCs, Stopped, Goto, At
<1>3. CASE SetupPam(e)
  BY <1>0, <1>3
  DEF TypeOK, SetupPam, setupSame, storeVars, StoreTypeOK, SetupPCs, Stopped, Goto, At
<1>4. CASE SetupEnable(e)
  BY <1>0, <1>4
  DEF TypeOK, SetupEnable, setupSame, storeVars, StoreTypeOK, SetupPCs, Stopped,
      Goto, At
<1> QED
  BY <1>1, <1>2, <1>3, <1>4 DEF Setup

(***************************************************************************)
(* What changes around the processes.                                      *)
(***************************************************************************)
LEMMA WorldTypes ==
  ASSUME TypeOK, World
  PROVE  TypeOK'
PROOF
<1> USE StoreAssumption, ApprovalAssumption
<1>1. CASE ChangePolicy
  BY <1>1
  DEF TypeOK, ChangePolicy, worldStep, procVars, StoreTypeOK
<1>2. CASE Retarget
  BY <1>2
  DEF TypeOK, Retarget, worldStep, procVars, StoreTypeOK, Noting
<1>3. CASE ChangeSudoers
  BY <1>3
  DEF TypeOK, ChangeSudoers, worldStep, procVars, StoreTypeOK, Noting
<1>4. CASE ChangeDisk
  BY <1>4
  DEF TypeOK, ChangeDisk, worldStep, procVars, StoreTypeOK
<1>5. CASE SpoilEnrolment
  BY <1>5
  DEF TypeOK, SpoilEnrolment, worldStep, procVars, StoreTypeOK
<1>6. CASE EditRequest
  BY <1>6
  DEF TypeOK, EditRequest, worldStep, procVars, StoreTypeOK, File, Bodies
<1>7. CASE ClockTick
  BY <1>7
  DEF TypeOK, ClockTick, worldStep, procVars, StoreTypeOK, Tick, worldVars, historyVars
<1> QED
  BY <1>1, <1>2, <1>3, <1>4, <1>5, <1>6, <1>7 DEF World

(***************************************************************************)
(* Every step.                                                             *)
(***************************************************************************)
LEMMA CrashTypes ==
  ASSUME TypeOK, NEW p \in Procs, Crash(p)
  PROVE  TypeOK'
BY ApprovalAssumption
DEF TypeOK, Crash, Goto, storeVars, historyVars, StoreTypeOK, Stopped

LEMMA NextTypes ==
  ASSUME TypeOK, [Next]_vars
  PROVE  TypeOK'
PROOF
<1>1. CASE Next
  BY <1>1, RelayTypes, ApproveTypes, SetupTypes, WorldTypes, CrashTypes DEF Next
<1>2. CASE UNCHANGED vars
  BY <1>2 DEF TypeOK, StoreTypeOK, vars, storeVars, worldVars, procVars, historyVars
<1> QED
  BY <1>1, <1>2

LEMMA InitTypes == Init => TypeOK
PROOF
<1> SUFFICES ASSUME Init PROVE TypeOK
  OBVIOUS
<1> USE StoreAssumption, ApprovalAssumption DEF Init
<1>1. StoreTypeOK
  BY DEF StoreInit, StoreTypeOK
<1>2. /\ policy \in Policies \cup {Unreadable} /\ target \in Sites
      /\ nopasswd \in BOOLEAN /\ writable \in BOOLEAN
  BY Zenon
<1>6. enrolled \in {"no", "yes", "invalid"} /\ upsets \in 0 .. MaxUpsets
  OBVIOUS
<1>3. /\ pc \in [Procs -> RelayPCs \cup ApproverPCs \cup SetupPCs \cup Stopped]
      /\ ctx \in [Procs -> Contexts]
      /\ base \in [Procs -> Policies \cup {Unreadable}]
      /\ window \in [Procs -> SUBSET {"target", "sudo", "request"}]
  BY DEF RelayPCs
<1>4. snap \in [Requests -> Snapshots]
  BY DEF Snapshots
<1>5. /\ authAt \in [Approvers -> 0 .. MaxTime]
      /\ auth \in [Approvers \cup Enrollers -> {"none", "human", "machine"}]
  OBVIOUS
<1> QED
  BY <1>1, <1>2, <1>3, <1>4, <1>5, <1>6 DEF TypeOK

(***************************************************************************)
(* Type correctness: every variable of every reachable state holds what    *)
(* the code can put there.                                                 *)
(***************************************************************************)
THEOREM TypeCorrect == Spec => []TypeOK
PROOF
<1>1. Init => TypeOK
  BY InitTypes
<1>2. TypeOK /\ [Next]_vars => TypeOK'
  BY NextTypes
<1> QED
  BY <1>1, <1>2, PTL DEF Spec

-----------------------------------------------------------------------------
(***************************************************************************)
(* One approval per request.  AtMostOnce is not inductive: it says nothing *)
(* of an approver that has renamed the file and not yet gone through.      *)
(* OneTaker counts those as well, and ties them to the file: a request has *)
(* no winner before it is published or while its file is there, and never  *)
(* two.                                                                    *)
(***************************************************************************)
Filing == {"idle", "probe", "enrolled", "capture", "prune", "write", "publish"}

OneTaker ==
  /\ \A r \in Requests : pc[r] \in Filing => posted[r] = Absent
  /\ \A r \in Requests : posted[r] = Absent => pending[r] = Absent
  /\ \A a \in Approvers : posted[id[a]] = Absent => ~Winner(a)
  /\ \A a \in Approvers : pending[id[a]] # Absent => ~Winner(a)
  /\ \A a, b \in Approvers : a # b /\ id[a] = id[b] => ~(Winner(a) /\ Winner(b))

\* A step that publishes nothing and makes nobody a winner.
Harmless ==
  /\ UNCHANGED <<posted, id>>
  /\ \A r \in Requests : pc'[r] \in Filing => pc[r] \in Filing
  /\ \A r \in Requests : pending'[r] # Absent => pending[r] # Absent
  /\ \A a \in Approvers : Winner(a)' => Winner(a)

LEMMA HarmlessStep ==
  ASSUME TypeOK, OneTaker, Harmless
  PROVE  OneTaker'
BY DEF TypeOK, OneTaker, Harmless

\* Who appends what leaves the other processes' entries alone.
LEMMA OthersEntries ==
  ASSUME NEW p \in Procs, NEW cfg, NEW outcome, Append(p, cfg, outcome),
         NEW a \in Procs, a # p \/ outcome # "approval-consumed"
  PROVE  Recorded(a, "approval-consumed")' => Recorded(a, "approval-consumed")
BY DEF Append, Recorded

LEMMA SameWinner ==
  ASSUME NEW a \in Approvers, pc'[a] = pc[a], ran'[a] = ran[a],
         Recorded(a, "approval-consumed")' => Recorded(a, "approval-consumed")
  PROVE  Winner(a)' => Winner(a)
BY DEF Winner, Committed

LEMMA PruneShrinks ==
  ASSUME NEW S, Prune(S), NEW r \in Requests, pending'[r] # Absent
  PROVE  pending[r] # Absent
BY DEF Prune, Parsed

(***************************************************************************)
(* `guard': of its steps only the rename publishes.                        *)
(***************************************************************************)
LEMMA RelayOneTaker ==
  ASSUME TypeOK, OneTaker, NEW r \in Requests, Relay(r)
  PROVE  OneTaker'
PROOF
<1> USE ApprovalAssumption
<1>0. r \in Procs /\ r \notin Approvers /\ Approvers \subseteq Procs /\ Requests \subseteq Procs
  BY DEF Procs
<1>1. \A a \in Approvers : pc'[a] = pc[a]
  BY <1>0
  DEF TypeOK, Relay, RelayCheck, RelayProbe, RelayEnrolled, RelayCapture, RelayPrune,
      RelayWrite, RelayPublish, RelayReport, RelayFails, Goto
<1>2. \A a \in Approvers :
        Recorded(a, "approval-consumed")' => Recorded(a, "approval-consumed")
  BY <1>0, OthersEntries
  DEF Relay, RelayCheck, RelayProbe, RelayEnrolled, RelayCapture, RelayPrune,
      RelayWrite, RelayPublish, RelayReport, RelayFails, Recorded
<1>3. UNCHANGED <<id, ran>>
  BY DEF Relay, RelayCheck, RelayProbe, RelayEnrolled, RelayCapture, RelayPrune,
      RelayWrite, RelayPublish, RelayReport, RelayFails, relaySame
<1>4. \A a \in Approvers : Winner(a)' => Winner(a)
  BY <1>1, <1>2, <1>3, SameWinner
<1>5. CASE RelayPublish(r)
  <2>1. /\ At(r, "publish")
        /\ posted' = [posted EXCEPT ![r] = temp[r]]
        /\ pending' = [pending EXCEPT ![r] = temp[r]]
        /\ pc' = [pc EXCEPT ![r] = "report"]
    BY <1>5 DEF RelayPublish, Publish, Goto
  <2>2. posted[r] = Absent
    BY <2>1 DEF OneTaker, At, Filing
  <2>3. \A q \in Requests : pc'[q] \in Filing => posted'[q] = Absent
    BY <1>0, <2>1 DEF TypeOK, OneTaker, Filing
  <2>4. \A q \in Requests : posted'[q] = Absent => pending'[q] = Absent
    BY <2>1 DEF TypeOK, StoreTypeOK, OneTaker
  <2>5. \A a \in Approvers : posted'[id'[a]] = Absent => ~Winner(a)'
    BY <1>3, <1>4, <2>1, <2>2 DEF TypeOK, OneTaker
  <2>6. \A a \in Approvers : pending'[id'[a]] # Absent => ~Winner(a)'
    BY <1>3, <1>4, <2>1, <2>2 DEF TypeOK, StoreTypeOK, OneTaker
  <2>7. \A a, b \in Approvers : a # b /\ id'[a] = id'[b] => ~(Winner(a)' /\ Winner(b)')
    BY <1>3, <1>4 DEF OneTaker
  <2> QED
    BY <2>3, <2>4, <2>5, <2>6, <2>7 DEF OneTaker
<1>6. CASE ~RelayPublish(r)
  <2>1. UNCHANGED posted
    BY <1>6
    DEF Relay, RelayCheck, RelayProbe, RelayEnrolled, RelayCapture, RelayPrune,
        RelayWrite, RelayReport, RelayFails
  <2>2. \A q \in Requests : pc'[q] \in Filing => pc[q] \in Filing
    BY <1>0, <1>6
    DEF TypeOK, Relay, RelayCheck, RelayProbe, RelayEnrolled, RelayCapture, RelayPrune,
        RelayWrite, RelayReport, RelayFails, Goto, At, Filing
  <2>3. \A q \in Requests : pending'[q] # Absent => pending[q] # Absent
    BY <1>6, PruneShrinks
    DEF Relay, RelayCheck, RelayProbe, RelayEnrolled, RelayCapture, RelayPrune,
        RelayWrite, RelayReport, RelayFails, storeVars
  <2> QED
    BY <1>3, <1>4, <2>1, <2>2, <2>3, HarmlessStep DEF Harmless
<1> QED
  BY <1>5, <1>6

(***************************************************************************)
(* `approve': of its steps only the rename in Claim makes a winner, and    *)
(* only when the file is there.                                            *)
(***************************************************************************)
LEMMA ApproveOneTaker ==
  ASSUME TypeOK, OneTaker, NEW a \in Approvers, Approve(a)
  PROVE  OneTaker'
PROOF
<1> USE ApprovalAssumption
<1>0. /\ a \in Procs /\ a \notin Requests
      /\ Approvers \subseteq Procs /\ Requests \subseteq Procs
  BY DEF Procs
<1>1. \A p \in Procs \ {a} : pc'[p] = pc[p]
  BY <1>0
  DEF TypeOK, Approve, Begin, LoadRequest, FirstCheck, FirstCapture, Probe, Pam,
      ClaimRename, ClaimRead, Recheck, Recapture, Record, Exec, Reject, AuthFails, Goto
<1>2. \A b \in Approvers \ {a} :
        Recorded(b, "approval-consumed")' => Recorded(b, "approval-consumed")
  BY <1>0, OthersEntries
  DEF Approve, Begin, LoadRequest, FirstCheck, FirstCapture, Probe, Pam,
      ClaimRename, ClaimRead, Recheck, Recapture, Record, Exec, Reject, AuthFails, Recorded
<1>3. UNCHANGED <<id, posted>>
  BY DEF Approve, Begin, LoadRequest, FirstCheck, FirstCapture, Probe, Pam,
         ClaimRename, ClaimRead, Recheck, Recapture, Record, Exec, approveSame, localSame
<1>4. \A b \in Approvers \ {a} : ran'[b] = ran[b]
  BY DEF TypeOK, Approve, Begin, LoadRequest, FirstCheck, FirstCapture, Probe, Pam,
         ClaimRename, ClaimRead, Recheck, Recapture, Record, Exec, passed
<1>5. \A b \in Approvers \ {a} : Winner(b)' => Winner(b)
  BY <1>0, <1>1, <1>2, <1>4, SameWinner
<1>6. \A r \in Requests : pc'[r] \in Filing => pc[r] \in Filing
  BY <1>0, <1>1
<1>7. \A r \in Requests : pending'[r] # Absent => pending[r] # Absent
  BY DEF TypeOK, StoreTypeOK, Approve, Begin, LoadRequest, FirstCheck, FirstCapture, Probe, Pam,
         ClaimRename, ClaimRead, Recheck, Recapture, Record, Exec, DropIfExpired, TakeAway
<1>8. CASE At(a, "claim") /\ TakeAway(id[a])
  <2>1. /\ pending[id[a]] # Absent
        /\ pending' = [pending EXCEPT ![id[a]] = Absent]
    BY <1>8 DEF TakeAway
  <2>2. \A b \in Approvers : id[b] = id[a] => ~Winner(b)
    BY <2>1 DEF OneTaker
  <2>3. posted[id[a]] # Absent
    BY <2>1 DEF OneTaker, TypeOK
  <2>4. \A r \in Requests : pc'[r] \in Filing => posted'[r] = Absent
    BY <1>3, <1>6 DEF OneTaker
  <2>5. \A r \in Requests : posted'[r] = Absent => pending'[r] = Absent
    BY <1>3, <1>7 DEF OneTaker
  <2>6. \A b \in Approvers : posted'[id'[b]] = Absent => ~Winner(b)'
    BY <1>3, <1>5, <2>3 DEF OneTaker
  <2>7. \A b \in Approvers : pending'[id'[b]] # Absent => ~Winner(b)'
    BY <1>3, <1>5, <1>7, <2>1 DEF OneTaker, TypeOK, StoreTypeOK
  <2>8. \A b, c \in Approvers : b # c /\ id'[b] = id'[c] => ~(Winner(b)' /\ Winner(c)')
    BY <1>3, <1>5, <2>2 DEF OneTaker
  <2> QED
    BY <2>4, <2>5, <2>6, <2>7, <2>8 DEF OneTaker
<1>9. CASE ~(At(a, "claim") /\ TakeAway(id[a]))
  <2>1. pc'[a] \in Holding => pc[a] \in Holding
    BY <1>0, <1>9
    DEF TypeOK, Approve, Begin, LoadRequest, FirstCheck, FirstCapture, Probe, Pam,
        ClaimRename, ClaimRead, Recheck, Recapture, Record, Exec, Reject, AuthFails,
        Goto, At, Holding
  <2>2. Recorded(a, "approval-consumed")' =>
          Recorded(a, "approval-consumed") \/ pc[a] \in Holding
    BY <1>0, OthersEntries
    DEF Approve, Begin, LoadRequest, FirstCheck, FirstCapture, Probe, Pam,
        ClaimRename, ClaimRead, Recheck, Recapture, Record, Exec, Reject, AuthFails,
        Recorded, At, Holding
  <2>3. ran'[a] # Absent => ran[a] # Absent \/ pc[a] \in Holding
    BY DEF TypeOK, Approve, Begin, LoadRequest, FirstCheck, FirstCapture, Probe, Pam,
           ClaimRename, ClaimRead, Recheck, Recapture, Record, Exec, passed, At, Holding
  <2>4. Winner(a)' => Winner(a)
    BY <2>1, <2>2, <2>3 DEF Winner, Committed
  <2> QED
    BY <1>3, <1>5, <1>6, <1>7, <2>4, HarmlessStep DEF Harmless
<1> QED
  BY <1>8, <1>9

(***************************************************************************)
(* No other step publishes, takes or commits.                              *)
(***************************************************************************)
LEMMA OtherOneTaker ==
  ASSUME TypeOK, OneTaker,
         \/ \E e \in Enrollers : Setup(e)
         \/ World
         \/ \E p \in Procs : Crash(p)
  PROVE  OneTaker'
PROOF
<1> USE ApprovalAssumption
<1>0. /\ Approvers \subseteq Procs /\ Requests \subseteq Procs /\ Enrollers \subseteq Procs
      /\ Enrollers \cap Approvers = {} /\ Enrollers \cap Requests = {}
  BY DEF Procs
<1>1. CASE \E e \in Enrollers : Setup(e)
  <2> PICK e \in Enrollers : Setup(e)
    BY <1>1
  <2>1. UNCHANGED <<posted, id, pending, log, ran>>
    BY DEF Setup, SetupBegin, SetupProbe, SetupPam, SetupEnable, setupSame, storeVars
  <2>2. \A p \in Procs \ {e} : pc'[p] = pc[p]
    BY DEF TypeOK, Setup, SetupBegin, SetupProbe, SetupPam, SetupEnable, Goto
  <2>3. \A a \in Approvers : Winner(a)' => Winner(a)
    BY <1>0, <2>1, <2>2 DEF Winner, Committed, Recorded
  <2> QED
    BY <1>0, <2>1, <2>2, <2>3, HarmlessStep DEF Harmless
<1>2. CASE World
  <2>1. UNCHANGED <<posted, id, pc, log, ran>>
    BY <1>2
    DEF World, ChangePolicy, Retarget, ChangeSudoers, ChangeDisk, SpoilEnrolment,
        EditRequest, ClockTick, worldStep, procVars, historyVars
  <2>2. \A r \in Requests : pending'[r] # Absent => pending[r] # Absent
    BY <1>2
    DEF World, ChangePolicy, Retarget, ChangeSudoers, ChangeDisk, SpoilEnrolment,
        EditRequest, ClockTick, Tick, TypeOK, StoreTypeOK
  <2>3. \A a \in Approvers : Winner(a)' => Winner(a)
    BY <2>1 DEF Winner, Committed, Recorded
  <2> QED
    BY <2>1, <2>2, <2>3, HarmlessStep DEF Harmless
<1>3. CASE \E p \in Procs : Crash(p)
  <2> PICK p \in Procs : Crash(p)
    BY <1>3
  <2>1. UNCHANGED <<posted, id, pending, log, ran>>
    BY DEF Crash, storeVars, historyVars
  <2>2. \A q \in Procs : pc'[q] = pc[q] \/ pc'[q] = "crashed"
    BY DEF TypeOK, Crash, Goto
  <2>3. \A a \in Approvers : Winner(a)' => Winner(a)
    BY <1>0, <2>1, <2>2 DEF Winner, Committed, Recorded, Holding
  <2> QED
    BY <1>0, <2>1, <2>2, <2>3, HarmlessStep DEF Harmless, Filing
<1> QED
  BY <1>1, <1>2, <1>3

LEMMA NextOneTaker ==
  ASSUME TypeOK, OneTaker, [Next]_vars
  PROVE  OneTaker'
PROOF
<1>1. CASE Next
  BY <1>1, RelayOneTaker, ApproveOneTaker, OtherOneTaker DEF Next
<1>2. CASE UNCHANGED vars
  BY <1>2
  DEF OneTaker, Winner, Committed, Recorded, vars, storeVars, procVars, historyVars
<1> QED
  BY <1>1, <1>2

LEMMA InitOneTaker == Init => OneTaker
BY ApprovalAssumption
DEF Init, StoreInit, OneTaker, Winner, Committed, Recorded, Holding, Procs

LEMMA OneTakerInvariant == Spec => []OneTaker
PROOF
<1>1. TypeOK /\ OneTaker /\ [Next]_vars => OneTaker'
  BY NextOneTaker
<1> QED
  BY <1>1, InitOneTaker, TypeCorrect, PTL DEF Spec

(***************************************************************************)
(* At most one approval of a request goes through, however many processes  *)
(* approve it at once and whichever of them crash (store.go, Claim).       *)
(***************************************************************************)
THEOREM ApprovedAtMostOnce == Spec => []AtMostOnce
PROOF
<1>1. OneTaker => AtMostOnce
  BY DEF OneTaker, AtMostOnce, Winner
<1> QED
  BY <1>1, OneTakerInvariant, PTL

=================================================================================
