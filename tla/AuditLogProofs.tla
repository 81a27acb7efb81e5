----------------------------- MODULE AuditLogProofs -----------------------------
(***************************************************************************)
(* Theorems about AuditLog, for any number of writers, any size and number *)
(* of files, and any number of kills, short writes, failed calls and       *)
(* changes.                                                                *)
(***************************************************************************)
EXTENDS AuditLog, SequenceTheorems, FiniteSetTheorems, TLAPS

(***************************************************************************)
(* Where the lock is held.  Everything else rests on this: between two     *)
(* steps of the holder nobody else touches a file.                         *)
(***************************************************************************)
Critical == {"size", "evict", "shift", "move", "tip", "write"}

LockInv == \A w \in Writers : lock = w <=> pc[w] \in Critical

\* A short write is one of the upsets.
BudgetInv == torn + upsets <= MaxUpsets

\* A rotation loaded a number of archives, and shifts the ones below it.
PlanInv ==
  \A w \in Writers :
    /\ pc[w] \in {"evict", "shift", "move"} => plan[w] > 0
    /\ pc[w] = "shift" => shift[w] < plan[w]

TypeInv == TypeOK /\ LockInv /\ BudgetInv /\ PlanInv

LEMMA InitTyping == Init => TypeInv
PROOF
<1> SUFFICES ASSUME Init PROVE TypeInv
  OBVIOUS
<1> USE AuditAssumption DEF Init
<1>1. TypeOK
  <2>1. Unchained("legacy") \in Line
    BY DEF Unchained, Line
  <2>2. <<>> \in Seq(Line) /\ <<Unchained("legacy")>> \in Seq(Line)
    BY <2>1
  <2>3. log \in Seq(Line)
    BY <2>2
  <2>4. archive \in [Archives -> Seq(Line)]
    BY <2>2
  <2> QED
    BY <2>3, <2>4 DEF TypeOK
<1>2. LockInv /\ BudgetInv /\ PlanInv
  BY DEF LockInv, BudgetInv, PlanInv, Critical
<1> QED
  BY <1>1, <1>2 DEF TypeInv

-----------------------------------------------------------------------------
(***************************************************************************)
(* What Joined makes of a file: one line more, or the last line replaced.  *)
(***************************************************************************)
LEMMA JoinedClosed ==
  ASSUME NEW lines \in Seq(Line), NEW line \in Line,
         lines = <<>> \/ ~Open(Last(lines))
  PROVE  /\ Joined(lines, line) = Append(lines, line)
         /\ Joined(lines, line) \in Seq(Line)
         /\ Len(Joined(lines, line)) = Len(lines) + 1
         /\ Joined(lines, line)[Len(lines) + 1] = line
         /\ \A i \in 1 .. Len(lines) : Joined(lines, line)[i] = lines[i]
BY AppendProperties DEF Joined

LEMMA JoinedOpen ==
  ASSUME NEW lines \in Seq(Line), NEW line \in Line,
         lines # <<>>, Open(Last(lines))
  PROVE  /\ Joined(lines, line) \in Seq(Line)
         /\ Len(Joined(lines, line)) = Len(lines)
         /\ Joined(lines, line)[Len(lines)]
              = Unchained(IF Open(line) THEN "torn" ELSE "garbage")
         /\ \A i \in 1 .. Len(lines) - 1 : Joined(lines, line)[i] = lines[i]
PROOF
<1> DEFINE left == Unchained(IF Open(line) THEN "torn" ELSE "garbage")
<1>1. left \in Line
  BY DEF Unchained, Line
<1>2. Len(lines) \in Nat \ {0}
  BY EmptySeq
<1>3. /\ Front(lines) \in Seq(Line)
      /\ Len(Front(lines)) = Len(lines) - 1
      /\ \A i \in 1 .. Len(lines) - 1 : Front(lines)[i] = lines[i]
  <2> DEFINE n == Len(lines) - 1
             front == SubSeq(lines, 1, n)
  <2>1. n \in Nat /\ n \in Int /\ 1 \in Int /\ n - 1 + 1 = n
    BY <1>2
  <2>2. \A i \in 1 .. n : lines[i] \in Line
    BY <1>2, ElementOfSeq
  <2> HIDE DEF n
  <2>3. /\ front \in Seq(Line)
        /\ Len(front) = IF 1 <= n THEN n - 1 + 1 ELSE 0
        /\ \A i \in 1 .. n - 1 + 1 : front[i] = lines[1 + i - 1]
    BY <2>1, <2>2, SubSeqProperties
  <2> HIDE DEF front
  <2>4. Len(front) = n
    BY <2>1, <2>3
  <2>5. ASSUME NEW i \in 1 .. n PROVE front[i] = lines[i]
    <3>1. i \in 1 .. n - 1 + 1 /\ 1 + i - 1 = i
      BY <2>1
    <3> QED
      BY <2>3, <3>1
  <2>6. Front(lines) = front
    BY DEF Front, front, n
  <2> QED
    BY <2>3, <2>4, <2>5, <2>6 DEF n
<1>4. Joined(lines, line) = Append(Front(lines), left)
  BY DEF Joined
<1> HIDE DEF left
<1>5. /\ Append(Front(lines), left) \in Seq(Line)
      /\ Len(Append(Front(lines), left)) = Len(lines)
      /\ Append(Front(lines), left)[Len(lines)] = left
      /\ \A i \in 1 .. Len(lines) - 1 : Append(Front(lines), left)[i] = Front(lines)[i]
  BY <1>1, <1>2, <1>3, AppendProperties
<1> QED
  BY <1>3, <1>4, <1>5 DEF left

\* What a write leaves at the end of the file.
LEMMA LastJoined ==
  ASSUME NEW lines \in Seq(Line), NEW line \in Line
  PROVE  /\ Joined(lines, line) # <<>>
         /\ IF lines # <<>> /\ Open(Last(lines))
              THEN Last(Joined(lines, line)) = Unchained(IF Open(line) THEN "torn" ELSE "garbage")
              ELSE Last(Joined(lines, line)) = line
PROOF
<1>1. Len(lines) \in Nat /\ (lines # <<>> => Len(lines) # 0)
  BY EmptySeq
<1>2. CASE lines = <<>> \/ ~Open(Last(lines))
  BY <1>1, <1>2, JoinedClosed, EmptySeq DEF Last
<1>3. CASE lines # <<>> /\ Open(Last(lines))
  BY <1>1, <1>3, JoinedOpen, EmptySeq DEF Last
<1> QED
  BY <1>2, <1>3

LEMMA JoinedType ==
  ASSUME NEW lines \in Seq(Line), NEW line \in Line
  PROVE  Joined(lines, line) \in Seq(Line)
BY JoinedClosed, JoinedOpen

LEMMA TipType ==
  ASSUME NEW lines \in Seq(Line)
  PROVE  LastLineHash(lines) \in Writers \cup {None}
PROOF
<1>1. CASE lines = <<>>
  BY <1>1 DEF LastLineHash
<1>2. CASE lines # <<>>
  <2>1. Len(lines) \in 1 .. Len(lines)
    BY <1>2, EmptySeq
  <2>2. lines[Len(lines)] \in Line
    BY <2>1, ElementOfSeq
  <2> QED
    BY <1>2, <2>2 DEF LastLineHash, Last, Line
<1> QED
  BY <1>1, <1>2

LEMMA HashesType ==
  ASSUME NEW lines \in Seq(Line)
  PROVE  HashesOf(lines) \subseteq Writers
PROOF
<1> SUFFICES ASSUME NEW i \in DOMAIN lines PROVE lines[i].hash \in Writers \cup {None}
  BY DEF HashesOf
<1>1. lines[i] \in Line
  BY LenProperties
<1> QED
  BY <1>1 DEF Line

\* What a writer may have put on disk.
Written(w) == {[kind |-> k, hash |-> w, prev |-> tip[w]] : k \in {"entry", "cut"}}
                \cup {Unchained("torn")}

LEMMA WrittenType ==
  ASSUME TypeInv, NEW w \in Writers
  PROVE  Written(w) \subseteq Line
BY DEF TypeInv, TypeOK, Written, Unchained, Line

LEMMA WriteEffect ==
  ASSUME TypeInv, NEW w \in Writers, Write(w)
  PROVE  \E line \in Written(w) :
           /\ log' = Joined(log, line)
           /\ \/ /\ line.kind = "entry" /\ line.hash = w /\ line.prev = tip[w]
                 /\ Return(w, "ok") /\ UNCHANGED <<upsets, torn>>
              \/ /\ Open(line) /\ line.hash \in {w, None}
                 /\ (line.hash = w => line.kind = "cut")
                 /\ Return(w, "error") /\ Upset /\ torn' = torn + 1
PROOF
<1> DEFINE Bytes(kind) == [kind |-> kind, hash |-> w, prev |-> tip[w]]
<1>1. CASE log' = Joined(log, Bytes("entry")) /\ Return(w, "ok") /\ UNCHANGED <<upsets, torn>>
  <2>1. Bytes("entry") \in Written(w)
    BY DEF Written
  <2> QED
    BY <1>1, <2>1
<1>2. CASE /\ Upset /\ torn' = torn + 1 /\ Return(w, "error")
           /\ log' \in {Joined(log, Bytes("cut")), Joined(log, Unchained("torn"))}
  <2>1. Bytes("cut") \in Written(w) /\ Unchained("torn") \in Written(w)
    BY DEF Written
  <2>2. Open(Bytes("cut")) /\ Open(Unchained("torn"))
    BY DEF Open, Unchained
  <2>3. Bytes("cut").hash = w /\ Bytes("cut").kind = "cut" /\ Unchained("torn").hash = None
    BY DEF Unchained
  <2>4. None # w
    BY AuditAssumption
  <2> HIDE DEF Bytes
  <2>5. CASE log' = Joined(log, Bytes("cut"))
    BY <1>2, <2>1, <2>2, <2>3, <2>5
  <2>6. CASE log' = Joined(log, Unchained("torn"))
    BY <1>2, <2>1, <2>2, <2>3, <2>4, <2>6
  <2> QED
    BY <1>2, <2>5, <2>6
<1> QED
  BY <1>1, <1>2 DEF Write

\* A shift moves an archive up by one, or leaves it, or is done.
LEMMA ShiftEffect ==
  ASSUME TypeInv, NEW w \in Writers, Shift(w)
  PROVE  \/ /\ shift[w] \in Archives /\ shift[w] + 1 \in Archives
            /\ archive[shift[w]] \in Seq(Line)
            /\ archive' = [archive EXCEPT ![shift[w] + 1] = archive[shift[w]],
                                         ![shift[w]] = <<>>]
            /\ Replaces(w, shift[w] + 1) /\ NoSlip
            /\ shift' = [shift EXCEPT ![w] = shift[w] - 1] /\ UNCHANGED pc
         \/ /\ shift[w] \in Archives /\ shift[w] + 1 \in Archives
            /\ (archive[shift[w]] = <<>> /\ NoSlip) \/ Slip(w, "rename")
            /\ UNCHANGED <<archive, clobbered>>
            /\ shift' = [shift EXCEPT ![w] = shift[w] - 1] /\ UNCHANGED pc
         \/ /\ shift[w] = 0 /\ pc' = [pc EXCEPT ![w] = "move"] /\ NoSlip
            /\ UNCHANGED <<archive, clobbered, shift>>
PROOF
<1>1. /\ shift[w] \in 0 .. MaxKeep /\ plan[w] \in 0 .. MaxKeep /\ shift[w] < plan[w]
      /\ archive \in [Archives -> Seq(Line)]
  BY DEF Shift, At, TypeInv, TypeOK, PlanInv
<1>2. CASE shift[w] >= 1
  <2>1. shift[w] \in Archives /\ shift[w] + 1 \in Archives
    BY <1>1, <1>2, AuditAssumption DEF Archives
  <2>2. archive[shift[w]] \in Seq(Line)
    BY <1>1, <2>1
  <2> QED
    BY <1>2, <2>1, <2>2 DEF Shift
<1>3. CASE shift[w] = 0
  BY <1>3 DEF Shift, Goto
<1> QED
  BY <1>1, <1>2, <1>3

LEMMA ShiftType ==
  ASSUME TypeInv, NEW w \in Writers, Shift(w)
  PROVE  archive' \in [Archives -> Seq(Line)]
PROOF
<1>1. archive \in [Archives -> Seq(Line)]
  BY DEF TypeInv, TypeOK
<1>2. <<>> \in Seq(Line)
  BY EmptySeq
<1> QED
  BY <1>1, <1>2, ShiftEffect

\* What the calls leave behind whose errors are dropped.
LEMMA SlipType ==
  ASSUME TypeInv, NEW w \in Writers, NEW call \in {"tip", "remove", "rename"},
         NoSlip \/ Slip(w, call)
  PROVE  /\ slips' \in [Writers -> SUBSET {"tip", "remove", "rename"}]
         /\ upsets' \in 0 .. MaxUpsets /\ torn + upsets' <= MaxUpsets
PROOF
<1>1. /\ slips \in [Writers -> SUBSET {"tip", "remove", "rename"}]
      /\ upsets \in 0 .. MaxUpsets /\ torn \in 0 .. MaxUpsets /\ torn + upsets <= MaxUpsets
      /\ MaxUpsets \in Nat
  BY AuditAssumption DEF TypeInv, TypeOK, BudgetInv
<1>2. CASE NoSlip
  BY <1>1, <1>2 DEF NoSlip
<1>3. CASE Slip(w, call)
  <2>1. slips[w] \cup {call} \in SUBSET {"tip", "remove", "rename"}
    BY <1>1
  <2>2. slips' \in [Writers -> SUBSET {"tip", "remove", "rename"}]
    BY <1>1, <1>3, <2>1 DEF Slip
  <2>3. upsets' \in 0 .. MaxUpsets /\ torn + upsets' <= MaxUpsets
    BY <1>1, <1>3 DEF Slip, Upset
  <2> QED
    BY <2>2, <2>3
<1> QED
  BY <1>2, <1>3

LEMMA ReplacesType ==
  ASSUME TypeInv, NEW w, NEW i \in Archives, Replaces(w, i)
  PROVE  clobbered' \in SUBSET Writers /\ clobbered \subseteq clobbered'
PROOF
<1>1. HashesOf(archive[i]) \subseteq Writers /\ clobbered \in SUBSET Writers
  BY HashesType DEF TypeInv, TypeOK
<1> QED
  BY <1>1 DEF Replaces

-----------------------------------------------------------------------------
(***************************************************************************)
(* The steps of a writer keep the types.                                   *)
(***************************************************************************)
LEMMA WorkTyping ==
  ASSUME TypeInv, NEW w \in Writers, Work(w) \/ Begin(w) \/ OpenFails(w) \/ Kill(w)
  PROVE  TypeInv'
PROOF
<1> USE AuditAssumption DEF TypeInv, TypeOK, LockInv, BudgetInv, PlanInv, Critical, At,
                            Goto, Archives, files, gone, Upset
<1>1. CASE Begin(w)
  BY <1>1 DEF Begin
<1>2. CASE Acquire(w)
  BY <1>2 DEF Acquire
<1>3. CASE Size(w)
  <2>1. upsets' \in 0 .. MaxUpsets /\ torn + upsets' <= MaxUpsets
    BY <1>3 DEF Size
  <2>2. /\ pc[w] = "size"
        /\ \/ pc' = [pc EXCEPT ![w] = "evict"] /\ plan[w] > 0
           \/ pc' = [pc EXCEPT ![w] = "tip"]
    BY <1>3 DEF Size
  <2>3. UNCHANGED <<log, archive, keep, lock, plan, shift, tip, result, torn, slips, evicted,
                    clobbered>>
    BY <1>3 DEF Size
  <2>4. TypeOK'
    BY <2>1, <2>2, <2>3
  <2>5. LockInv' /\ PlanInv'
    BY <2>2, <2>3
  <2> QED
    BY <2>1, <2>3, <2>4, <2>5
<1>4. CASE Evict(w)
  <2>1. /\ slips' \in [Writers -> SUBSET {"tip", "remove", "rename"}]
        /\ upsets' \in 0 .. MaxUpsets /\ torn + upsets' <= MaxUpsets
    BY <1>4, SlipType DEF Evict
  <2>2. CASE \E i \in Stale(w) :
               /\ archive' = [archive EXCEPT ![i] = <<>>]
               /\ evicted' = evicted \cup HashesOf(archive[i])
               /\ UNCHANGED <<pc, shift>>
    <3>1. PICK i \in Stale(w) :
               /\ archive' = [archive EXCEPT ![i] = <<>>]
               /\ evicted' = evicted \cup HashesOf(archive[i])
               /\ UNCHANGED <<pc, shift>>
      BY <2>2
    <3>2. HashesOf(archive[i]) \subseteq Writers
      BY HashesType DEF Stale
    <3> QED
      BY <1>4, <2>1, <3>1, <3>2, EmptySeq DEF Evict
  <2>3. CASE Goto(w, "shift") /\ shift' = [shift EXCEPT ![w] = plan[w] - 1]
               /\ UNCHANGED <<archive, evicted>>
    <3>1. plan[w] - 1 \in 0 .. MaxKeep /\ plan[w] - 1 < plan[w] /\ pc[w] = "evict"
      BY <1>4 DEF Evict
    <3>2. UNCHANGED <<log, archive, keep, lock, plan, tip, result, torn, evicted, clobbered>>
      BY <1>4, <2>3 DEF Evict
    <3>3. TypeOK'
      BY <2>1, <2>3, <3>1, <3>2
    <3>4. LockInv' /\ PlanInv'
      BY <2>3, <3>1, <3>2
    <3> QED
      BY <2>1, <3>2, <3>3, <3>4
  <2> QED
    BY <1>4, <2>2, <2>3 DEF Evict
<1>5. CASE Shift(w)
  <2>1. archive' \in [Archives -> Seq(Line)]
    BY <1>5, ShiftType
  <2>2. /\ UNCHANGED <<log, keep, lock, plan, tip, result, torn, evicted>>
        /\ pc[w] = "shift" /\ pc' \in {pc, [pc EXCEPT ![w] = "move"]}
        /\ \/ shift' = shift
           \/ shift[w] >= 1 /\ shift' = [shift EXCEPT ![w] = shift[w] - 1]
    BY <1>5 DEF Shift
  <2>3. shift' \in [Writers -> 0 .. MaxKeep]
    <3>1. shift \in [Writers -> 0 .. MaxKeep]
      OBVIOUS
    <3>2. shift[w] >= 1 => shift[w] - 1 \in 0 .. MaxKeep
      BY ONLY <3>1, MaxKeep \in Nat, w \in Writers
    <3> QED
      BY ONLY <2>2, <3>1, <3>2, w \in Writers
  <2>4. /\ slips' \in [Writers -> SUBSET {"tip", "remove", "rename"}]
        /\ upsets' \in 0 .. MaxUpsets /\ torn + upsets' <= MaxUpsets
        /\ clobbered' \in SUBSET Writers
    BY <1>5, ShiftEffect, SlipType, ReplacesType
  <2>5. UNCHANGED <<log, keep, lock, plan, tip, result, torn, evicted>>
        /\ pc' \in [Writers -> {"idle", "lock", "size", "evict", "shift", "move", "tip", "write",
                               "done", "killed"}]
    BY <2>2
  <2>6. TypeOK'
    BY <2>1, <2>3, <2>4, <2>5
  <2>7. LockInv' /\ PlanInv'
    BY <2>2
  <2> QED
    BY <2>2, <2>4, <2>6, <2>7
<1>6. CASE Move(w)
  <2>1. /\ UNCHANGED <<keep, lock, plan, shift, tip, result, torn, evicted>>
        /\ pc[w] = "move" /\ pc' = [pc EXCEPT ![w] = "tip"]
        /\ \/ log' = <<>> /\ archive' = [archive EXCEPT ![1] = log] /\ Replaces(w, 1)
           \/ UNCHANGED <<log, archive, clobbered>>
    BY <1>6 DEF Move
  <2>2. log' \in Seq(Line) /\ archive' \in [Archives -> Seq(Line)]
    <3>1. <<>> \in Seq(Line) /\ 1 \in Archives /\ log \in Seq(Line)
      BY EmptySeq
    <3>2. CASE log' = <<>> /\ archive' = [archive EXCEPT ![1] = log]
      BY <3>1, <3>2
    <3>3. CASE UNCHANGED <<log, archive>>
      BY <3>3
    <3> QED
      BY <2>1, <3>2, <3>3
  <2>3. /\ slips' \in [Writers -> SUBSET {"tip", "remove", "rename"}]
        /\ upsets' \in 0 .. MaxUpsets /\ torn + upsets' <= MaxUpsets
        /\ clobbered' \in SUBSET Writers
    <3>1. NoSlip \/ Slip(w, "rename")
      BY <1>6 DEF Move
    <3>2. clobbered' \in SUBSET Writers
      BY <2>1, ReplacesType
    <3> QED
      BY <3>1, <3>2, SlipType
  <2>4. TypeOK'
    BY <2>1, <2>2, <2>3
  <2>5. LockInv' /\ PlanInv'
    BY <2>1
  <2> QED
    BY <2>1, <2>3, <2>4, <2>5
<1>7. CASE ReadTip(w)
  <2>1. /\ slips' \in [Writers -> SUBSET {"tip", "remove", "rename"}]
        /\ upsets' \in 0 .. MaxUpsets /\ torn + upsets' <= MaxUpsets
    BY <1>7, SlipType DEF ReadTip
  <2>2. /\ UNCHANGED <<log, archive, keep, lock, plan, shift, result, torn, evicted, clobbered>>
        /\ pc[w] = "tip" /\ pc' = [pc EXCEPT ![w] = "write"]
    BY <1>7 DEF ReadTip
  <2>3. tip' \in [Writers -> Writers \cup {None}]
    <3>1. LastLineHash(log) \in Writers \cup {None}
      BY TipType
    <3> QED
      BY <1>7, <3>1 DEF ReadTip
  <2>4. TypeOK'
    BY <2>1, <2>2, <2>3
  <2>5. LockInv' /\ PlanInv'
    BY <2>2
  <2> QED
    BY <2>1, <2>2, <2>4, <2>5
<1>8. CASE Write(w)
  <2>1. PICK line \in Written(w) :
           /\ log' = Joined(log, line)
           /\ \/ Return(w, "ok") /\ UNCHANGED <<upsets, torn>>
              \/ Return(w, "error") /\ Upset /\ torn' = torn + 1
    BY <1>8, WriteEffect
  <2>2. log' \in Seq(Line)
    BY <2>1, WrittenType, JoinedType
  <2>3. /\ UNCHANGED <<archive, keep, plan, shift, tip, slips, gone>> /\ pc[w] = "write"
        /\ pc' = [pc EXCEPT ![w] = "done"] /\ lock' = None
        /\ \E value \in {"ok", "error"} : result' = [result EXCEPT ![w] = value]
    BY <1>8, <2>1 DEF Write, Return
  <2>4. upsets' \in 0 .. MaxUpsets /\ torn' \in 0 .. MaxUpsets /\ torn' + upsets' <= MaxUpsets
    BY <2>1
  <2>5. TypeOK'
    BY <2>2, <2>3, <2>4
  <2>6. LockInv' /\ PlanInv'
    BY <2>3
  <2> QED
    BY <2>4, <2>5, <2>6
<1>9. CASE OpenFails(w)
  BY <1>9 DEF OpenFails
<1>10. CASE Kill(w)
  BY <1>10 DEF Kill
<1> QED
  BY <1>1, <1>2, <1>3, <1>4, <1>5, <1>6, <1>7, <1>8, <1>9, <1>10 DEF Work

LEMMA TypingStep == TypeInv /\ [Next]_vars => TypeInv'
PROOF
<1> SUFFICES ASSUME TypeInv, [Next]_vars PROVE TypeInv'
  OBVIOUS
<1>1. CASE ChangeKeep
  BY <1>1, AuditAssumption 
     DEF ChangeKeep, Upset, TypeInv, TypeOK, LockInv, BudgetInv, PlanInv, files, gone
<1>2. CASE UNCHANGED vars
  BY <1>2 DEF vars, files, gone, TypeInv, TypeOK, LockInv, BudgetInv, PlanInv
<1> QED
  BY <1>1, <1>2, WorkTyping DEF Next

\* The state has the types that it is declared with, whoever is killed in the middle of
\* a rotation: no shift leaves the archives there are.
THEOREM TypeCorrect == Spec => []TypeOK
PROOF
<1>1. TypeInv => TypeOK
  BY DEF TypeInv
<1> QED
  BY <1>1, InitTyping, TypingStep, PTL DEF Spec

-----------------------------------------------------------------------------
(***************************************************************************)
(* Retention.  While a rotation shifts of which no call has failed, the    *)
(* place it shifts to is free; and every place beyond the number of        *)
(* archives it loaded is free if it could remove what was there.           *)
(***************************************************************************)
RoomInv ==
  \A w \in Writers :
    /\ pc[w] = "shift" /\ slips[w] = {} => archive[shift[w] + 1] = <<>>
    /\ pc[w] = "move" /\ slips[w] = {} => archive[1] = <<>>
    /\ pc[w] \in {"shift", "move"} /\ "remove" \notin slips[w]
         => \A i \in Archives : i > plan[w] => archive[i] = <<>>

LEMMA RoomStep == TypeInv /\ RoomInv /\ [Next]_vars => RoomInv'
PROOF
<1> SUFFICES ASSUME TypeInv, RoomInv, [Next]_vars PROVE RoomInv'
  OBVIOUS
<1>0. /\ pc \in [Writers -> {"idle", "lock", "size", "evict", "shift", "move", "tip", "write",
                             "done", "killed"}]
      /\ archive \in [Archives -> Seq(Line)]
      /\ plan \in [Writers -> 0 .. MaxKeep] /\ shift \in [Writers -> 0 .. MaxKeep]
      /\ slips \in [Writers -> SUBSET {"tip", "remove", "rename"}]
      /\ \A v \in Writers : pc[v] \in {"evict", "shift", "move"} => lock = v
  BY DEF TypeInv, TypeOK, LockInv, Critical
<1>1. ASSUME NEW w \in Writers, Evict(w) PROVE RoomInv'
  <2>1. \A v \in Writers \ {w} : pc'[v] = pc[v] /\ pc[v] \notin {"shift", "move"}
    BY <1>0, <1>1 DEF Evict, At, Goto
  <2>2. CASE UNCHANGED pc
    BY <1>1, <2>1, <2>2 DEF Evict, At, RoomInv
  <2>3. CASE /\ Stale(w) = {} \/ Slip(w, "remove")
             /\ pc' = [pc EXCEPT ![w] = "shift"]
             /\ shift' = [shift EXCEPT ![w] = plan[w] - 1] /\ UNCHANGED <<archive, plan>>
    <3>1. plan[w] \in Archives
      BY <1>0, <1>1 DEF Evict, At, TypeInv, PlanInv, Archives
    <3>2. ASSUME "remove" \notin slips'[w]
          PROVE  \A i \in Archives : i >= plan[w] => archive[i] = <<>>
      <4>1. ~Slip(w, "remove")
        BY <1>0, <3>2 DEF Slip
      <4> QED
        BY <2>3, <4>1 DEF Stale
    <3>3. pc'[w] = "shift" /\ shift'[w] + 1 = plan[w] /\ plan[w] >= plan[w]
      BY <1>0, <2>3, <3>1 DEF Archives
    <3>4. slips'[w] = {} => archive'[shift'[w] + 1] = <<>>
      BY <2>3, <3>1, <3>2, <3>3
    <3>5. "remove" \notin slips'[w] => \A i \in Archives : i > plan'[w] => archive'[i] = <<>>
      BY <1>0, <2>3, <3>2 DEF Archives
    <3> QED
      BY <2>1, <3>3, <3>4, <3>5 DEF RoomInv
  <2> QED
    BY <1>1, <2>2, <2>3 DEF Evict, Goto
<1>2. ASSUME NEW w \in Writers, Shift(w) PROVE RoomInv'
  <2>1. \A v \in Writers \ {w} : pc'[v] = pc[v] /\ pc[v] \notin {"shift", "move"}
    BY <1>0, <1>2 DEF Shift, At, Goto
  <2>2. /\ pc[w] = "shift" /\ plan' = plan /\ shift[w] < plan[w]
        /\ slips[w] = {} => archive[shift[w] + 1] = <<>>
        /\ "remove" \notin slips[w] => \A i \in Archives : i > plan[w] => archive[i] = <<>>
    BY <1>2 DEF Shift, At, RoomInv, TypeInv, PlanInv
  <2>3. CASE /\ shift[w] = 0 /\ pc' = [pc EXCEPT ![w] = "move"] /\ NoSlip
             /\ UNCHANGED <<archive, shift>>
    BY <1>0, <2>1, <2>2, <2>3 DEF RoomInv, NoSlip
  <2>4. CASE /\ shift[w] \in Archives /\ shift[w] + 1 \in Archives
             /\ archive' = [archive EXCEPT ![shift[w] + 1] = archive[shift[w]],
                                          ![shift[w]] = <<>>]
             /\ NoSlip
             /\ shift' = [shift EXCEPT ![w] = shift[w] - 1] /\ UNCHANGED pc
    <3>1. shift'[w] + 1 = shift[w] /\ archive'[shift[w]] = <<>>
      BY <1>0, <2>4 DEF Archives
    <3>2. "remove" \notin slips'[w] => \A i \in Archives : i > plan[w] => archive'[i] = <<>>
      BY <1>0, <2>2, <2>4 DEF Archives, NoSlip
    <3> QED
      BY <2>1, <2>2, <2>4, <3>1, <3>2 DEF RoomInv
  <2>5. CASE /\ shift[w] \in Archives /\ UNCHANGED archive
             /\ (archive[shift[w]] = <<>> /\ NoSlip) \/ Slip(w, "rename")
             /\ shift' = [shift EXCEPT ![w] = shift[w] - 1] /\ UNCHANGED pc
    <3>1. shift'[w] + 1 = shift[w]
      BY <1>0, <2>5 DEF Archives
    <3>2. slips'[w] = {} => archive[shift[w]] = <<>>
      BY <1>0, <2>5 DEF NoSlip, Slip
    <3>3. "remove" \notin slips'[w] => "remove" \notin slips[w]
      BY <1>0, <2>5 DEF NoSlip, Slip
    <3> QED
      BY <2>1, <2>2, <2>5, <3>1, <3>2, <3>3 DEF RoomInv
  <2> QED
    BY <1>2, <2>3, <2>4, <2>5, ShiftEffect
<1>3. ASSUME NEW w \in Writers, Move(w) PROVE RoomInv'
  <2>1. \A v \in Writers : pc'[v] \notin {"shift", "move"}
    BY <1>0, <1>3 DEF Move, At, Goto
  <2> QED
    BY <2>1 DEF RoomInv
<1>4. ASSUME NEW w \in Writers, ReadTip(w) PROVE RoomInv'
  <2>1. \A v \in Writers : pc'[v] \notin {"shift", "move"}
    BY <1>0, <1>4 DEF ReadTip, At, Goto, TypeInv, LockInv, Critical
  <2> QED
    BY <2>1 DEF RoomInv
<1>5. ASSUME NEW w \in Writers,
             Begin(w) \/ Acquire(w) \/ Size(w) \/ Write(w) \/ OpenFails(w) \/ Kill(w)
      PROVE  RoomInv'
  <2>1. /\ UNCHANGED <<archive, shift, slips>>
        /\ \A v \in Writers : pc'[v] \in {"shift", "move"} => pc[v] = pc'[v] /\ plan'[v] = plan[v]
    BY <1>0, <1>5 DEF Begin, Acquire, Size, Write, Return, OpenFails, Kill, At, Goto, files
  <2> QED
    BY <2>1 DEF RoomInv
<1>6. CASE ChangeKeep \/ UNCHANGED vars
  BY <1>6 DEF ChangeKeep, vars, files, RoomInv
<1> QED
  BY <1>1, <1>2, <1>3, <1>4, <1>5, <1>6 DEF Next, Work

(***************************************************************************)
(* audit_max_files holds for whoever finishes a rotation in which no       *)
(* removal failed, whatever number it was before, and wherever earlier     *)
(* rotations were killed or could not remove or rename an archive.         *)
(***************************************************************************)
THEOREM RetentionKept == Spec => []RetentionHolds
PROOF
<1>1. Init => RoomInv
  BY DEF Init, RoomInv
<1>2. RoomInv => RetentionHolds
  BY DEF RoomInv, RetentionHolds
<1> QED
  BY <1>1, <1>2, InitTyping, TypingStep, RoomStep, PTL DEF Spec

-----------------------------------------------------------------------------
(***************************************************************************)
(* The chain.  Who is about to write holds the hash of the line that is    *)
(* last, or could not read it; and only a short write leaves a line that   *)
(* the next one joins.                                                     *)
(***************************************************************************)
Broken == log # <<>> /\ Open(Last(log))

TipInv ==
  \A w \in Writers : pc[w] = "write" => tip[w] = LastLineHash(log) \/ w \in Misread

\* OnlyExcused, given who could not read the tip and how many writes were cut short.
Explained(lines, misread, cuts) ==
  \A i \in Breaks(lines) :
    lines[i].hash \in misread \/ (cuts > 0 /\ ~Readable(lines[i]))

ChainInv ==
  /\ TipInv
  /\ Broken => torn > 0
  /\ Explained(log, Misread, torn)
  /\ \A i \in Archives : Explained(archive[i], Misread, torn)

LEMMA ExplainedEmpty ==
  ASSUME NEW misread, NEW cuts
  PROVE  Explained(<<>>, misread, cuts)
BY DEF Explained, Breaks

LEMMA ExplainedMore ==
  ASSUME NEW lines, NEW misread, NEW more, misread \subseteq more,
         NEW cuts \in Nat, NEW cutsNow \in Nat, cuts <= cutsNow,
         Explained(lines, misread, cuts)
  PROVE  Explained(lines, more, cutsNow)
BY DEF Explained

\* Whether there is a break depends on the lines up to it.
LEMMA BreakBefore ==
  ASSUME NEW lines \in Seq(Line), NEW longer \in Seq(Line), NEW n \in Nat,
         n <= Len(lines), n <= Len(longer),
         \A j \in 1 .. n : longer[j] = lines[j],
         NEW i \in 1 .. n, i \in Breaks(longer)
  PROVE  i \in Breaks(lines)
PROOF
<1>1. DOMAIN lines = 1 .. Len(lines) /\ Len(lines) \in Nat /\ i \in DOMAIN lines
  BY LenProperties
<1>2. longer[i] = lines[i] /\ \A j \in 1 .. i - 1 : longer[j] = lines[j]
  OBVIOUS
<1>3. Before(longer, i) = Before(lines, i)
  <2>1. i > 1 => i - 1 \in 1 .. n
    OBVIOUS
  <2> QED
    BY <2>1 DEF Before
<1> QED
  BY <1>1, <1>2, <1>3 DEF Breaks

\* A line that holds the last hash, or has an excuse, adds no break without one; one
\* that joins another spoils it, as somebody's short write explains.
LEMMA ExplainedJoined ==
  ASSUME NEW lines \in Seq(Line), NEW line \in Line, NEW misread, NEW cuts \in Nat,
         Explained(lines, misread, cuts),
         line.kind # "legacy",
         Readable(line) => line.prev = LastLineHash(lines) \/ line.hash \in misread,
         ~Readable(line) \/ (lines # <<>> /\ Open(Last(lines))) => cuts > 0
  PROVE  Explained(Joined(lines, line), misread, cuts)
PROOF
<1> DEFINE longer == Joined(lines, line)
           n == Len(lines)
<1>1. n \in Nat /\ longer \in Seq(Line)
  BY LenProperties, JoinedType
<1> SUFFICES ASSUME NEW i \in Breaks(longer)
             PROVE  longer[i].hash \in misread \/ (cuts > 0 /\ ~Readable(longer[i]))
  BY DEF Explained
<1>2. i \in 1 .. Len(longer)
  BY <1>1, LenProperties DEF Breaks
<1>3. CASE lines = <<>> \/ ~Open(Last(lines))
  <2>1. Len(longer) = n + 1 /\ longer[n + 1] = line /\ \A j \in 1 .. n : longer[j] = lines[j]
    BY <1>3, JoinedClosed
  <2> HIDE DEF longer, n
  <2>2. CASE i \in 1 .. n
    <3>1. i \in Breaks(lines)
      BY <1>1, <2>1, <2>2, BreakBefore DEF n
    <3> QED
      BY <2>1, <2>2, <3>1 DEF Explained
  <2>3. CASE i = n + 1
    <3>1. CASE ~Readable(line)
      BY <2>1, <2>3, <3>1
    <3>2. CASE Readable(line)
      <4>1. line.prev # Before(longer, n + 1)
        <5>1. n + 1 \in Breaks(longer)
          BY <2>3
        <5> QED
          BY <2>1, <3>2, <5>1 DEF Breaks
      <4>2. Before(longer, n + 1) = LastLineHash(lines)
        <5>1. CASE lines = <<>>
          <6>1. n = 0
            BY <5>1, EmptySeq DEF n
          <6> QED
            BY <5>1, <6>1 DEF Before, LastLineHash
        <5>2. CASE lines # <<>>
          <6>1. n \in 1 .. n /\ n + 1 > 1 /\ n + 1 - 1 = n
            BY <1>1, <5>2, EmptySeq DEF n
          <6> QED
            BY <2>1, <5>2, <6>1 DEF Before, LastLineHash, Last, n
        <5> QED
          BY <5>1, <5>2
      <4>3. line.hash \in misread
        BY <3>2, <4>1, <4>2
      <4> QED
        BY <2>1, <2>3, <4>3
    <3> QED
      BY <3>1, <3>2
  <2> QED
    BY <1>1, <1>2, <2>1, <2>2, <2>3
<1>4. CASE lines # <<>> /\ Open(Last(lines))
  <2>1. /\ Len(longer) = n
        /\ longer[n] = Unchained(IF Open(line) THEN "torn" ELSE "garbage")
        /\ \A j \in 1 .. n - 1 : longer[j] = lines[j]
    BY <1>4, JoinedOpen
  <2> HIDE DEF longer, n
  <2>2. CASE i = n
    <3>1. ~Readable(longer[n])
      BY <2>1 DEF Unchained, Readable
    <3> QED
      BY <1>4, <2>2, <3>1
  <2>3. CASE i \in 1 .. n - 1
    <3>1. n - 1 \in Nat /\ n - 1 <= n
      BY <1>1, <2>3
    <3>2. i \in Breaks(lines)
      BY <1>1, <2>1, <2>3, <3>1, BreakBefore DEF n
    <3> QED
      BY <2>1, <2>3, <3>2 DEF Explained
  <2> QED
    BY <1>1, <1>2, <2>1, <2>2, <2>3
<1> QED
  BY <1>3, <1>4

\* The excuses stay.
LEMMA MisreadGrows ==
  ASSUME TypeInv, [Next]_vars
  PROVE  Misread \subseteq Misread' /\ torn \in Nat /\ torn' \in Nat /\ torn <= torn'
PROOF
<1>1. /\ slips \in [Writers -> SUBSET {"tip", "remove", "rename"}]
      /\ torn \in Nat
  BY DEF TypeInv, TypeOK
<1>2. ASSUME NEW w \in Writers, NEW call, NoSlip \/ Slip(w, call) PROVE Misread \subseteq Misread'
  BY <1>1, <1>2 DEF NoSlip, Slip, Misread
<1>3. ASSUME NEW w \in Writers, Work(w) PROVE Misread \subseteq Misread'
  <2>1. CASE Acquire(w) \/ Size(w) \/ Write(w)
    BY <2>1 DEF Acquire, Size, Write, Misread
  <2>2. CASE Evict(w) \/ Shift(w) \/ Move(w) \/ ReadTip(w)
    <3>1. NoSlip \/ Slip(w, "remove") \/ Slip(w, "rename") \/ Slip(w, "tip")
      BY <2>2 DEF Evict, Shift, Move, ReadTip
    <3> QED
      BY <1>2, <3>1
  <2> QED
    BY <1>3, <2>1, <2>2 DEF Work
<1>4. ASSUME NEW w \in Writers, Begin(w) \/ OpenFails(w) \/ Kill(w)
      PROVE  Misread \subseteq Misread'
  BY <1>4 DEF Begin, OpenFails, Kill, Misread
<1>5. ASSUME ChangeKeep \/ UNCHANGED vars
      PROVE  Misread \subseteq Misread'
  BY <1>5 DEF ChangeKeep, vars, Misread
<1>6. torn' \in {torn, torn + 1}
  BY DEF Next, Work, Begin, Acquire, Size, Evict, Shift, Move, ReadTip, Write, OpenFails, Kill,
         ChangeKeep, vars
<1> QED
  BY <1>1, <1>3, <1>4, <1>5, <1>6 DEF Next

LEMMA TipStep == TypeInv /\ TipInv /\ [Next]_vars => TipInv'
PROOF
<1> SUFFICES ASSUME TypeInv, TipInv, [Next]_vars PROVE TipInv'
  OBVIOUS
<1>0. /\ pc \in [Writers -> {"idle", "lock", "size", "evict", "shift", "move", "tip", "write",
                             "done", "killed"}]
      /\ tip \in [Writers -> Writers \cup {None}]
      /\ slips \in [Writers -> SUBSET {"tip", "remove", "rename"}]
      /\ \A v \in Writers : pc[v] \in {"move", "tip", "write"} => lock = v
      /\ Misread \subseteq Misread'
  BY MisreadGrows DEF TypeInv, TypeOK, LockInv, Critical
<1>1. ASSUME NEW w \in Writers, ReadTip(w) PROVE TipInv'
  <2>1. \A v \in Writers : pc'[v] = "write" => v = w
    BY <1>0, <1>1 DEF ReadTip, At, Goto
  <2>2. tip'[w] = LastLineHash(log) \/ w \in Misread'
    BY <1>0, <1>1 DEF ReadTip, Slip, Misread
  <2> QED
    BY <1>1, <2>1, <2>2 DEF ReadTip, files, TipInv
<1>2. ASSUME NEW w \in Writers, Move(w) \/ Write(w) PROVE TipInv'
  <2>1. \A v \in Writers : pc'[v] # "write"
    BY <1>0, <1>2 DEF Move, Write, Return, At, Goto
  <2> QED
    BY <2>1 DEF TipInv
<1>3. ASSUME NEW w \in Writers,
             \/ Begin(w) \/ Acquire(w) \/ Size(w) \/ Evict(w) \/ Shift(w)
             \/ OpenFails(w) \/ Kill(w)
      PROVE  TipInv'
  <2>1. UNCHANGED <<log, tip>> /\ \A v \in Writers : pc'[v] = "write" => pc[v] = "write"
    BY <1>0, <1>3 DEF Begin, Acquire, Size, Evict, Shift, OpenFails, Kill, At, Goto, files
  <2> QED
    BY <1>0, <2>1 DEF TipInv
<1>4. CASE ChangeKeep \/ UNCHANGED vars
  BY <1>0, <1>4 DEF ChangeKeep, vars, files, TipInv
<1> QED
  BY <1>1, <1>2, <1>3, <1>4 DEF Next, Work

LEMMA ChainStep == TypeInv /\ ChainInv /\ [Next]_vars => ChainInv'
PROOF
<1> SUFFICES ASSUME TypeInv, ChainInv, [Next]_vars
             PROVE  /\ Broken' => torn' > 0
                    /\ Explained(log', Misread', torn')
                    /\ \A i \in Archives : Explained(archive'[i], Misread', torn')
  BY TipStep DEF ChainInv
<1>0. /\ archive \in [Archives -> Seq(Line)] /\ log \in Seq(Line) /\ 1 \in Archives
      /\ torn \in Nat /\ torn' \in Nat /\ torn <= torn'
  BY AuditAssumption, MisreadGrows DEF TypeInv, TypeOK, Archives
<1>1. /\ Explained(log, Misread', torn') /\ Explained(<<>>, Misread', torn')
      /\ \A i \in Archives : Explained(archive[i], Misread', torn')
  BY <1>0, MisreadGrows, ExplainedEmpty, ExplainedMore DEF ChainInv
<1>2. ASSUME log' \in {log, <<>>},
             \A i \in Archives : archive'[i] \in {<<>>, log} \cup {archive[j] : j \in Archives}
      PROVE  /\ Broken' => torn' > 0
             /\ Explained(log', Misread', torn')
             /\ \A i \in Archives : Explained(archive'[i], Misread', torn')
  <2>1. Broken' => torn' > 0
    BY <1>0, <1>2 DEF Broken, ChainInv
  <2>2. Explained(log', Misread', torn')
    BY <1>1, <1>2
  <2>3. \A i \in Archives : Explained(archive'[i], Misread', torn')
    BY <1>1, <1>2
  <2> QED
    BY <2>1, <2>2, <2>3
<1>3. ASSUME NEW w \in Writers, Evict(w)
      PROVE  log' = log /\ \A i \in Archives : archive'[i] \in {<<>>, archive[i]}
  BY <1>0, <1>3 DEF Evict, Stale
<1>4. ASSUME NEW w \in Writers, Shift(w)
      PROVE  /\ log' = log
             /\ \A i \in Archives : archive'[i] \in {<<>>} \cup {archive[j] : j \in Archives}
  <2>1. log' = log
    BY <1>4 DEF Shift
  <2>2. CASE UNCHANGED archive
    BY <2>1, <2>2
  <2>3. CASE /\ shift[w] \in Archives /\ shift[w] + 1 \in Archives
             /\ archive' = [archive EXCEPT ![shift[w] + 1] = archive[shift[w]],
                                          ![shift[w]] = <<>>]
    <3>1. ASSUME NEW i \in Archives PROVE archive'[i] \in {<<>>, archive[i], archive[shift[w]]}
      BY <1>0, <2>3
    <3> QED
      BY <2>1, <2>3, <3>1
  <2> QED
    BY <1>4, <2>2, <2>3, ShiftEffect
<1>5. ASSUME NEW w \in Writers, Move(w)
      PROVE  /\ log' \in {log, <<>>}
             /\ \A i \in Archives : archive'[i] \in {log, archive[i]}
  BY <1>0, <1>5 DEF Move, files
<1>6. ASSUME NEW w \in Writers, Write(w)
      PROVE  /\ Broken' => torn' > 0
             /\ Explained(log', Misread', torn')
             /\ \A i \in Archives : Explained(archive'[i], Misread', torn')
  <2>1. PICK line \in Written(w) :
           /\ log' = Joined(log, line)
           /\ \/ line.kind = "entry" /\ UNCHANGED torn
              \/ torn' = torn + 1
    BY <1>6, WriteEffect
  <2>2. line \in Line /\ archive' = archive
    BY <1>6, <2>1, WrittenType DEF Write
  <2>3. line.kind # "legacy" /\ (Readable(line) => line.prev = tip[w] /\ line.hash = w)
    BY <2>1 DEF Written, Unchained, Readable
  <2>4. tip[w] = LastLineHash(log) \/ w \in Misread'
    BY <1>6, MisreadGrows DEF ChainInv, TipInv, Write, At
  <2>5. ~Readable(line) \/ (log # <<>> /\ Open(Last(log))) => torn' > 0
    <3>1. ~Readable(line) => torn' = torn + 1
      BY <2>1 DEF Readable
    <3> QED
      BY <1>0, <3>1 DEF ChainInv, Broken
  <2>6. Explained(log', Misread', torn')
    BY <1>0, <1>1, <2>1, <2>2, <2>3, <2>4, <2>5, ExplainedJoined
  <2>7. Broken' => torn' > 0
    <3>1. CASE torn' = torn + 1
      BY <1>0, <3>1
    <3>2. CASE line.kind = "entry"
      <4>1. ~Open(line) /\ ~Open(Unchained("garbage"))
        BY <3>2 DEF Open, Unchained
      <4>2. ~Broken'
        BY <1>0, <2>1, <2>2, <4>1, LastJoined DEF Broken
      <4> QED
        BY <4>2
    <3> QED
      BY <2>1, <3>1, <3>2
  <2> QED
    BY <1>1, <2>2, <2>6, <2>7
<1>7. ASSUME NEW w \in Writers,
             Begin(w) \/ Acquire(w) \/ Size(w) \/ ReadTip(w) \/ OpenFails(w) \/ Kill(w)
      PROVE  UNCHANGED files
  BY <1>7 DEF Begin, Acquire, Size, ReadTip, OpenFails, Kill
<1>8. ChangeKeep \/ UNCHANGED vars => UNCHANGED files
  BY DEF ChangeKeep, vars
<1>9. UNCHANGED files =>
        log' = log /\ \A i \in Archives : archive'[i] = archive[i]
  BY DEF files
<1>10. ASSUME NEW w \in Writers,
              \/ Evict(w) \/ Shift(w) \/ Move(w)
              \/ Begin(w) \/ Acquire(w) \/ Size(w) \/ ReadTip(w) \/ OpenFails(w) \/ Kill(w)
       PROVE  /\ log' \in {log, <<>>}
              /\ \A i \in Archives :
                   archive'[i] \in {<<>>, log} \cup {archive[j] : j \in Archives}
  BY <1>3, <1>4, <1>5, <1>7, <1>9, <1>10
<1> QED
  BY <1>2, <1>6, <1>8, <1>9, <1>10 DEF Next, Work

(***************************************************************************)
(* A file that does not verify has its break where a short write spoiled a *)
(* line, or where a writer could not read the last one, whoever appends,   *)
(* rotates and is killed.                                                  *)
(***************************************************************************)
THEOREM ChainsVerify == Spec => []ChainsIntact
PROOF
<1>1. Init => ChainInv
  <2> SUFFICES ASSUME Init PROVE ChainInv
    OBVIOUS
  <2>1. TipInv /\ ~Broken
    BY DEF Init, TipInv, Broken, Open, Unchained, Last
  <2>2. Breaks(<<Unchained("legacy")>>) = {}
    BY DEF Breaks, Before, Unchained, Readable
  <2>3. Explained(log, Misread, torn)
    BY <2>2, ExplainedEmpty DEF Init, Explained
  <2>4. \A i \in Archives : Explained(archive[i], Misread, torn)
    BY ExplainedEmpty DEF Init
  <2> QED
    BY <2>1, <2>3, <2>4 DEF ChainInv
<1>2. ChainInv => ChainsIntact
  BY DEF ChainInv, Explained, ChainsIntact, OnlyExcused, Excused
<1> QED
  BY <1>1, <1>2, InitTyping, TypingStep, ChainStep, PTL DEF Spec

-----------------------------------------------------------------------------
(***************************************************************************)
(* What is stored.  A line without its newline is of a failed append, and  *)
(* as long as it is last it has not yet cost the entry that its write may  *)
(* cost.                                                                   *)
(***************************************************************************)
CutInv ==
  \A i \in DOMAIN log :
    Open(log[i]) /\ log[i].hash # None
      => pc[log[i].hash] = "done" /\ result[log[i].hash] = "error"

LossInv ==
  /\ IsFiniteSet(Lost)
  /\ Cardinality(Lost) + (IF Broken THEN 1 ELSE 0) <= torn

LEMMA HashesIn ==
  ASSUME NEW lines \in Seq(Line), NEW h
  PROVE  h \in HashesOf(lines) <=> h # None /\ \E i \in 1 .. Len(lines) : lines[i].hash = h
BY LenProperties DEF HashesOf

LEMMA HashesEmpty == HashesOf(<<>>) = {}
BY DEF HashesOf

\* A write adds a line, or costs one that has no newline.
LEMMA HashesJoined ==
  ASSUME NEW lines \in Seq(Line), NEW line \in Line, NEW h \in HashesOf(lines)
  PROVE  \/ h \in HashesOf(Joined(lines, line))
         \/ lines # <<>> /\ Open(Last(lines)) /\ Last(lines).hash = h
PROOF
<1> DEFINE longer == Joined(lines, line)
           n == Len(lines)
<1>1. n \in Nat
  BY LenProperties
<1>2. h # None /\ \E i \in 1 .. n : lines[i].hash = h
  BY HashesIn
<1>3. PICK i \in 1 .. n : lines[i].hash = h
  BY <1>2
<1>4. longer \in Seq(Line)
  BY JoinedType
<1>5. CASE lines = <<>> \/ ~Open(Last(lines))
  <2>1. Len(longer) = n + 1 /\ longer[i] = lines[i]
    BY <1>5, JoinedClosed
  <2>2. i \in 1 .. Len(longer)
    BY <1>1, <2>1
  <2> HIDE DEF longer
  <2> QED
    BY <1>2, <1>3, <1>4, <2>1, <2>2, HashesIn DEF longer
<1>6. CASE lines # <<>> /\ Open(Last(lines))
  <2>1. Len(longer) = n /\ (i \in 1 .. n - 1 => longer[i] = lines[i])
    BY <1>6, JoinedOpen
  <2>2. i = n \/ i \in 1 .. n - 1
    BY <1>1
  <2>3. CASE i = n
    BY <1>3, <1>6, <2>3 DEF Last
  <2>4. CASE i \in 1 .. n - 1
    <3>1. longer[i].hash = h /\ i \in 1 .. Len(longer)
      BY <1>3, <2>1, <2>4
    <3> HIDE DEF longer
    <3> QED
      BY <1>2, <1>4, <3>1, HashesIn DEF longer
  <2> QED
    BY <2>2, <2>3, <2>4
<1> QED
  BY <1>5, <1>6

LEMMA CutStep == TypeInv /\ CutInv /\ [Next]_vars => CutInv'
PROOF
<1> SUFFICES ASSUME TypeInv, CutInv, [Next]_vars PROVE CutInv'
  OBVIOUS
<1>0. /\ pc \in [Writers -> {"idle", "lock", "size", "evict", "shift", "move", "tip", "write",
                             "done", "killed"}]
      /\ result \in [Writers -> {"none", "ok", "error"}]
      /\ log \in Seq(Line)
      /\ \A i \in DOMAIN log : log[i].hash \in Writers \cup {None}
  <2>1. log \in Seq(Line)
    BY DEF TypeInv, TypeOK
  <2> QED
    BY <2>1, HashesType, LenProperties DEF TypeInv, TypeOK, HashesOf
<1>1. ASSUME NEW w \in Writers, Write(w) PROVE CutInv'
  <2>1. PICK line \in Written(w) :
           /\ log' = Joined(log, line)
           /\ \/ line.kind = "entry" /\ Return(w, "ok")
              \/ /\ line.hash \in {w, None} /\ Return(w, "error")
    BY <1>1, WriteEffect
  <2>2. line \in Line
    BY <2>1, WrittenType
  <2>3. /\ pc'[w] = "done" /\ (line.kind # "entry" => result'[w] = "error")
        /\ \A v \in Writers : pc[v] = "done" => pc'[v] = "done" /\ result'[v] = result[v]
    BY <1>0, <1>1, <2>1 DEF Write, Return, At, Goto
  <2>4. ASSUME NEW i \in 1 .. Len(log), log'[i] = log[i], Open(log'[i]), log'[i].hash # None
        PROVE  pc'[log'[i].hash] = "done" /\ result'[log'[i].hash] = "error"
    <3>1. i \in DOMAIN log
      BY <1>0, LenProperties
    <3> QED
      BY <1>0, <2>3, <2>4, <3>1 DEF CutInv
  <2>5. log' \in Seq(Line) /\ DOMAIN log' = 1 .. Len(log') /\ Len(log) \in Nat
    BY <1>0, <2>1, <2>2, JoinedType, LenProperties
  <2>6. CASE log = <<>> \/ ~Open(Last(log))
    <3>1. /\ Len(log') = Len(log) + 1 /\ log'[Len(log) + 1] = line
          /\ \A i \in 1 .. Len(log) : log'[i] = log[i]
      BY <1>0, <2>1, <2>2, <2>6, JoinedClosed
    <3>2. \A i \in DOMAIN log' : i \in 1 .. Len(log) \/ i = Len(log) + 1
      BY <2>5, <3>1
    <3>3. Open(line) /\ line.hash # None => line.hash = w /\ result'[w] = "error"
      BY <2>1, <2>3 DEF Open
    <3> QED
      BY <2>3, <2>4, <3>1, <3>2, <3>3 DEF CutInv
  <2>7. CASE log # <<>> /\ Open(Last(log))
    <3>1. /\ Len(log') = Len(log)
          /\ log'[Len(log)] = Unchained(IF Open(line) THEN "torn" ELSE "garbage")
          /\ \A i \in 1 .. Len(log) - 1 : log'[i] = log[i]
      BY <1>0, <2>1, <2>2, <2>7, JoinedOpen
    <3>2. \A i \in DOMAIN log' : i \in 1 .. Len(log) /\ (i \in 1 .. Len(log) - 1 \/ i = Len(log))
      BY <2>5, <3>1
    <3>3. log'[Len(log)].hash = None
      BY <3>1 DEF Unchained
    <3> QED
      BY <2>4, <3>1, <3>2, <3>3 DEF CutInv
  <2> QED
    BY <2>6, <2>7
<1>2. ASSUME NEW w \in Writers, Move(w) PROVE CutInv'
  <2>1. /\ log' \in {log, <<>>}
        /\ \A v \in Writers : pc[v] = "done" => pc'[v] = "done" /\ result'[v] = result[v]
    BY <1>0, <1>2 DEF Move, At, Goto, files
  <2> QED
    BY <1>0, <2>1 DEF CutInv
<1>3. ASSUME NEW w \in Writers,
             \/ Begin(w) \/ Acquire(w) \/ Size(w) \/ Evict(w) \/ Shift(w) \/ ReadTip(w)
             \/ OpenFails(w) \/ Kill(w)
      PROVE  CutInv'
  <2>1. /\ log' = log
        /\ \A v \in Writers : pc[v] = "done" => pc'[v] = "done" /\ result'[v] = result[v]
    BY <1>0, <1>3
       DEF Begin, Acquire, Size, Evict, Shift, ReadTip, OpenFails, Kill, At, Goto, files
  <2> QED
    BY <1>0, <2>1 DEF CutInv
<1>4. CASE ChangeKeep \/ UNCHANGED vars
  BY <1>4 DEF ChangeKeep, vars, files, CutInv
<1> QED
  BY <1>1, <1>2, <1>3, <1>4 DEF Next, Work

\* A rotation moves what is stored, or counts it among what retention removed or, after
\* a failed call, a rename replaced.
LEMMA RotationKeeps ==
  ASSUME TypeInv, RoomInv, NEW w \in Writers, Evict(w) \/ Shift(w) \/ Move(w),
         NEW v \in Writers, Stored(v)
  PROVE  Stored(v)' \/ v \in evicted' \cup clobbered'
PROOF
<1>0. /\ archive \in [Archives -> Seq(Line)] /\ log \in Seq(Line) /\ 1 \in Archives
      /\ HashesOf(<<>>) = {}
  BY AuditAssumption, HashesEmpty DEF TypeInv, TypeOK, Archives
<1>1. CASE Evict(w)
  BY <1>0, <1>1 DEF Evict, Stale, Stored
<1>2. CASE Shift(w)
  <2>1. log' = log /\ (slips[w] = {} => archive[shift[w] + 1] = <<>>)
    BY <1>2 DEF Shift, At, RoomInv
  <2>2. CASE UNCHANGED archive
    BY <2>1, <2>2 DEF Stored
  <2>3. CASE /\ shift[w] \in Archives /\ shift[w] + 1 \in Archives
             /\ archive' = [archive EXCEPT ![shift[w] + 1] = archive[shift[w]],
                                          ![shift[w]] = <<>>]
             /\ Replaces(w, shift[w] + 1)
    <3>1. shift[w] # shift[w] + 1
      BY <2>3 DEF Archives
    <3>2. archive'[shift[w] + 1] = archive[shift[w]]
      BY <1>0, <2>3, <3>1
    <3>3. \A i \in Archives \ {shift[w], shift[w] + 1} : archive'[i] = archive[i]
      BY <1>0, <2>3
    <3>4. CASE v \in HashesOf(log)
      BY <2>1, <3>4 DEF Stored
    <3>5. ASSUME NEW i \in Archives, v \in HashesOf(archive[i])
          PROVE  Stored(v)' \/ v \in clobbered'
      <4>1. CASE i = shift[w] + 1
        BY <1>0, <2>1, <2>3, <3>5, <4>1 DEF Replaces
      <4>2. CASE i # shift[w] + 1
        BY <2>3, <3>2, <3>3, <3>5, <4>2 DEF Stored
      <4> QED
        BY <4>1, <4>2
    <3> QED
      BY <3>4, <3>5 DEF Stored
  <2> QED
    BY <1>2, <2>2, <2>3, ShiftEffect
<1>3. CASE Move(w)
  <2>1. slips[w] = {} => archive[1] = <<>>
    BY <1>3 DEF Move, At, RoomInv
  <2>2. CASE UNCHANGED files
    BY <2>2 DEF files, Stored
  <2>3. CASE /\ log' = <<>> /\ archive' = [archive EXCEPT ![1] = log] /\ Replaces(w, 1)
    <3>1. archive'[1] = log /\ \A i \in Archives \ {1} : archive'[i] = archive[i]
      BY <1>0, <2>3
    <3>2. CASE v \in HashesOf(archive[1])
      BY <1>0, <2>1, <2>3, <3>2 DEF Replaces
    <3>3. CASE v \notin HashesOf(archive[1])
      BY <1>0, <3>1, <3>3 DEF Stored
    <3> QED
      BY <3>2, <3>3
  <2> QED
    BY <1>3, <2>2, <2>3 DEF Move
<1> QED
  BY <1>1, <1>2, <1>3

\* A write keeps what is stored, but for a line that has no newline, which is not
\* that of a successful append.
LEMMA WriteKeeps ==
  ASSUME TypeInv, CutInv, NEW w \in Writers, Write(w),
         NEW v \in Writers, v # w, result[v] = "ok", Stored(v)
  PROVE  Stored(v)'
PROOF
<1>1. PICK line \in Written(w) : log' = Joined(log, line)
  BY WriteEffect
<1>2. line \in Line /\ log \in Seq(Line) /\ archive' = archive
  BY WrittenType DEF TypeInv, TypeOK, Write
<1>3. CASE v \in HashesOf(log)
  <2>1. CASE v \in HashesOf(log')
    BY <2>1 DEF Stored
  <2>2. CASE log # <<>> /\ Open(Last(log)) /\ Last(log).hash = v
    <3>1. Len(log) \in DOMAIN log
      BY <1>2, <2>2, EmptySeq, LenProperties
    <3>2. v # None
      BY AuditAssumption
    <3> QED
      BY <2>2, <3>1, <3>2 DEF CutInv, Last
  <2> QED
    BY <1>1, <1>2, <1>3, <2>1, <2>2, HashesJoined
<1>4. CASE \E i \in Archives : v \in HashesOf(archive[i])
  BY <1>2, <1>4 DEF Stored
<1> QED
  BY <1>3, <1>4 DEF Stored

\* Without a line to spoil it, what a successful append writes is stored.
LEMMA WriteStores ==
  ASSUME TypeInv, NEW w \in Writers, NEW line \in Line, line.hash = w, ~Broken,
         log' = Joined(log, line)
  PROVE  Stored(w)'
PROOF
<1>1. log \in Seq(Line) /\ Len(log) \in Nat /\ w # None
  BY AuditAssumption, LenProperties DEF TypeInv, TypeOK
<1>2. /\ log' \in Seq(Line) /\ Len(log') = Len(log) + 1 /\ log'[Len(log) + 1] = line
  BY <1>1, JoinedClosed DEF Broken
<1>3. Len(log) + 1 \in 1 .. Len(log')
  BY <1>1, <1>2
<1>4. w \in HashesOf(log')
  BY <1>1, <1>2, <1>3, HashesIn
<1> QED
  BY <1>4 DEF Stored

LEMMA LossStep == TypeInv /\ RoomInv /\ CutInv /\ LossInv /\ [Next]_vars => LossInv'
PROOF
<1> SUFFICES ASSUME TypeInv, RoomInv, CutInv, LossInv, [Next]_vars PROVE LossInv'
  OBVIOUS
<1>0. /\ torn \in Nat /\ log \in Seq(Line) /\ result \in [Writers -> {"none", "ok", "error"}]
      /\ IsFiniteSet(Lost) /\ Cardinality(Lost) \in Nat
      /\ Cardinality(Lost) + (IF Broken THEN 1 ELSE 0) <= torn
  BY AuditAssumption, FS_CardinalityType DEF TypeInv, TypeOK, LossInv
<1>1. ASSUME Lost' \subseteq Lost,
             \/ torn' = torn /\ (Broken' => Broken)
             \/ torn' = torn + 1
      PROVE  LossInv'
  <2>1. IsFiniteSet(Lost') /\ Cardinality(Lost') <= Cardinality(Lost)
    BY <1>0, <1>1, FS_Subset
  <2>2. Cardinality(Lost') \in Nat
    BY <2>1, FS_CardinalityType
  <2> QED
    BY <1>0, <1>1, <2>1, <2>2 DEF LossInv
<1>2. ASSUME NEW w \in Writers, Write(w) PROVE LossInv'
  <2>1. PICK line \in Written(w) :
           /\ log' = Joined(log, line)
           /\ \/ line.kind = "entry" /\ line.hash = w /\ Return(w, "ok") /\ UNCHANGED torn
              \/ Open(line) /\ Return(w, "error") /\ torn' = torn + 1
    BY <1>2, WriteEffect
  <2>2. line \in Line
    BY <2>1, WrittenType
  <2>3. /\ evicted' = evicted /\ clobbered' = clobbered
        /\ \A v \in Writers \ {w} : result'[v] = result[v]
    BY <1>0, <1>2, <2>1 DEF Write, Return, gone
  <2>4. Lost' \subseteq Lost \cup {w}
    BY <1>2, <2>3, WriteKeeps DEF Lost
  <2>5. CASE line.kind = "entry" /\ line.hash = w /\ Return(w, "ok") /\ UNCHANGED torn
    <3>1. ~Broken'
      <4>1. ~Open(line) /\ ~Open(Unchained("garbage"))
        BY <2>5 DEF Open, Unchained
      <4> QED
        BY <1>0, <2>1, <2>2, <4>1, LastJoined DEF Broken
    <3>2. CASE Broken
      <4>1. /\ IsFiniteSet(Lost \cup {w})
            /\ Cardinality(Lost \cup {w}) <= Cardinality(Lost) + 1
            /\ Cardinality(Lost \cup {w}) \in Nat
        <5>1. /\ IsFiniteSet(Lost \cup {w})
              /\ Cardinality(Lost \cup {w})
                   = IF w \in Lost THEN Cardinality(Lost) ELSE Cardinality(Lost) + 1
          BY <1>0, FS_AddElement
        <5>2. Cardinality(Lost \cup {w}) \in Nat
          BY <5>1, FS_CardinalityType
        <5> QED
          BY <1>0, <5>1, <5>2
      <4>2. IsFiniteSet(Lost') /\ Cardinality(Lost') <= Cardinality(Lost \cup {w})
        BY <2>4, <4>1, FS_Subset
      <4>3. Cardinality(Lost') \in Nat
        BY <4>2, FS_CardinalityType
      <4> QED
        BY <1>0, <2>5, <3>1, <3>2, <4>1, <4>2, <4>3 DEF LossInv
    <3>3. CASE ~Broken
      <4>1. Lost' \subseteq Lost
        BY <2>1, <2>2, <2>4, <2>5, <3>3, WriteStores DEF Lost
      <4> QED
        BY <1>1, <2>5, <3>1, <4>1
    <3> QED
      BY <3>2, <3>3
  <2>6. CASE Return(w, "error") /\ torn' = torn + 1
    <3>1. result'[w] = "error"
      BY <1>0, <2>6 DEF Return
    <3>2. Lost' \subseteq Lost
      BY <2>4, <3>1 DEF Lost
    <3> QED
      BY <1>1, <2>6, <3>2
  <2> QED
    BY <2>1, <2>5, <2>6
<1>3. ASSUME NEW w \in Writers, Evict(w) \/ Shift(w) \/ Move(w) PROVE LossInv'
  <2>1. /\ result' = result /\ torn' = torn /\ log' \in {log, <<>>}
        /\ evicted \subseteq evicted' /\ clobbered \subseteq clobbered'
    BY <1>3 DEF Evict, Shift, Move, Replaces, files
  <2>2. Lost' \subseteq Lost
    BY <1>3, <2>1, RotationKeeps DEF Lost
  <2> QED
    BY <1>1, <2>1, <2>2 DEF Broken
<1>4. ASSUME UNCHANGED <<files, gone, torn>>,
             \A v \in Writers : result'[v] = "ok" => result[v] = "ok"
      PROVE  LossInv'
  <2>1. Lost' \subseteq Lost /\ (Broken' => Broken)
    BY <1>4 DEF Lost, Stored, Broken, files, gone
  <2> QED
    BY <1>1, <1>4, <2>1
<1>5. ASSUME NEW w \in Writers,
             Begin(w) \/ Acquire(w) \/ Size(w) \/ ReadTip(w) \/ OpenFails(w) \/ Kill(w)
      PROVE  LossInv'
  BY <1>0, <1>4, <1>5 DEF Begin, Acquire, Size, ReadTip, OpenFails, Kill, files
<1>6. CASE ChangeKeep \/ UNCHANGED vars
  BY <1>4, <1>6 DEF ChangeKeep, vars, files
<1> QED
  BY <1>2, <1>3, <1>5, <1>6 DEF Next, Work

(***************************************************************************)
(* An append that returned nil is on file, was evicted, or was replaced by *)
(* a rotation that went on after a failed call, but for one at most for    *)
(* every write that was cut short.                                         *)
(***************************************************************************)
THEOREM SuccessKept == Spec => []SuccessIsStored
PROOF
<1>1. Init => RoomInv
  BY DEF Init, RoomInv
<1>2. Init => CutInv /\ LossInv
  <2> SUFFICES ASSUME Init PROVE CutInv /\ LossInv
    OBVIOUS
  <2>1. CutInv
    BY DEF Init, CutInv, Open, Unchained
  <2>2. Lost = {}
    BY DEF Init, Lost
  <2>3. ~Broken
    BY DEF Init, Broken, Open, Unchained, Last
  <2> QED
    BY <2>1, <2>2, <2>3, FS_EmptySet DEF Init, LossInv
<1>3. TypeInv /\ LossInv => SuccessIsStored
  BY FS_CardinalityType DEF TypeInv, TypeOK, LossInv, SuccessIsStored
<1> QED
  BY <1>1, <1>2, <1>3, InitTyping, TypingStep, RoomStep, CutStep, LossStep, PTL DEF Spec

=================================================================================
