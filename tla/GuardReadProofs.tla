------------------------------- MODULE GuardReadProofs -------------------------------
(***************************************************************************)
(* Theorems about the redacted read of GuardRun, and the types of all its  *)
(* variables, for any pipe and any outputs.                                *)
(***************************************************************************)
EXTENDS GuardRunProofs, SequenceTheorems

(***************************************************************************)
(* What has become of the output at each step of the guard.  Up to the     *)
(* first complaint of the parser, what is settled is delivered in order;   *)
(* what is pending in the decoder belongs to one document, and begins      *)
(* behind the last one that was delivered.  After a complaint, something   *)
(* may be missing only if a document was out, and nothing is raw before.   *)
(***************************************************************************)
Emitted == [chunk : Nat, as : {"blanked", "raw"}]
Doc(i) == R!Chunk(i).doc
InOrder == Len(emitted) = settled /\ \A i \in 1 .. settled : emitted[i].chunk = i
Raw == \E i \in DOMAIN emitted : emitted[i].as = "raw"
OneDoc(from, to) == \A i \in from .. to : Doc(i) = Doc(from)

CutShort == R!AtEOF /\ sent > 0 /\ ~R!Chunk(sent).last
Spoiled == (\E j \in 1 .. taken : ~R!Chunk(j).sound) \/ CutShort
SpoiledLater ==
  /\ output.format = "yaml"
  /\ \E i, j \in 1 .. taken : i < j /\ Doc(i) # Doc(j) /\ (~R!Chunk(j).sound \/ CutShort)

ChildInv ==
  /\ step \in {"idle", "start"} => child = "none" /\ sent = 0
  /\ step = "notify" => child # "none"
  /\ step \in {"decode", "emit", "flush", "copy", "wait"} => child # "none"
  /\ step = "exit" => child \in R!Ends
  /\ process = "exited" /\ child # "none" => step = "exit" /\ status = R!StatusOf(child)

AtStart ==
  step \in {"idle", "start", "notify"} =>
    taken = 0 /\ settled = 0 /\ emitted = <<>> /\ ~failed

AtDecode ==
  step = "decode" =>
    /\ InOrder /\ OneDoc(settled + 1, taken) /\ ~failed
    /\ output.format = "json" => emitted = <<>> /\ (taken > 0 => ~R!Chunk(taken).last)
    /\ emitted # <<>> =>
         \/ R!AtEOF /\ settled = taken
         \/ 0 < settled /\ settled < taken /\ Doc(settled) # Doc(settled + 1)
    /\ ~Raw

AtEmit ==
  step = "emit" =>
    /\ InOrder /\ settled < taken /\ OneDoc(settled + 1, taken - 1) /\ ~failed
    /\ \/ Doc(taken) # Doc(settled + 1)
       \/ output.format = "yaml" /\ R!AtEOF
       \/ output.format = "json" /\ R!Chunk(taken).last
    /\ ~Raw

AtFlush ==
  step = "flush" =>
    /\ InOrder /\ ~failed
    /\ emitted # <<>> => SpoiledLater
    /\ Spoiled \/ (R!AtEOF /\ sent = 0)

AtCopy ==
  step = "copy" =>
    /\ settled = taken /\ ~failed
    /\ InOrder \/ SpoiledLater
    /\ Spoiled \/ (R!AtEOF /\ sent = 0)

AtEnd ==
  step \in {"wait", "exit"} /\ ~failed =>
    /\ InOrder \/ SpoiledLater
    /\ settled = taken
    /\ R!AtEOF \/ taken = Len(output.chunks)

RawInv == Raw => Spoiled

StepInv == AtStart /\ AtDecode /\ AtEmit /\ AtFlush /\ AtCopy /\ AtEnd /\ RawInv
ReadInv == ChildInv /\ StepInv /\ R!GetTypeOK

LEMMA OutputsAre ==
  ASSUME output \in Outputs
  PROVE  /\ Len(output.chunks) \in Nat
         /\ \A i \in 1 .. Len(output.chunks) : R!Chunk(i) \in R!Chunks
         /\ output.format \in {"json", "yaml"}
         /\ output.format = "json" =>
              \A i \in 1 .. Len(output.chunks) :
                Doc(i) = Doc(1) /\ (R!Chunk(i).last => i = Len(output.chunks))
PROOF
<1>1. output.chunks \in Seq(R!Chunks)
  BY GuardRunAssumption
<1>2. DOMAIN output.chunks = 1 .. Len(output.chunks)
  BY <1>1
<1> QED
  BY <1>1, <1>2, GuardRunAssumption DEF R!Qualifies, R!SingleValue, R!Chunk, Doc

\* More of the output on stdout.
LEMMA EmittedMore ==
  ASSUME emitted \in Seq(Emitted), NEW from \in Nat, NEW to \in Nat, from <= to,
         NEW form \in {"blanked", "raw"}, emitted' = emitted \o R!Emission(from, to, form)
  PROVE  /\ emitted' \in Seq(Emitted)
         /\ InOrder /\ settled = from /\ settled' = to => InOrder'
         /\ form = "blanked" /\ ~Raw => ~Raw'
         /\ from = to => emitted' = emitted
         /\ from < to => emitted' # <<>>
PROOF
<1> DEFINE e == R!Emission(from, to, form)
<1>1. e \in Seq(Emitted) /\ Len(e) = to - from
  BY DEF R!Emission, Emitted
<1>2. \A i \in 1 .. (to - from) : e[i].chunk = from + i /\ e[i].as = form
  BY DEF R!Emission
<1> HIDE DEF e
<1>3. emitted' \in Seq(Emitted) /\ Len(emitted') = Len(emitted) + (to - from)
  BY <1>1, ConcatProperties DEF e
<1>4. ASSUME NEW i \in 1 .. Len(emitted')
      PROVE  \/ i \in 1 .. Len(emitted) /\ emitted'[i] = emitted[i]
             \/ /\ i > Len(emitted)
                /\ emitted'[i].chunk = from + (i - Len(emitted)) /\ emitted'[i].as = form
  <2>1. i \in Nat /\ Len(emitted) \in Nat /\ i \in 1 .. Len(emitted) + Len(e)
    BY <1>1, <1>3, <1>4
  <2>2. emitted'[i] = IF i <= Len(emitted) THEN emitted[i] ELSE e[i - Len(emitted)]
    BY <1>1, <2>1, ConcatProperties DEF e
  <2>3. CASE i <= Len(emitted)
    BY <2>1, <2>2, <2>3
  <2>4. CASE i > Len(emitted)
    <3>1. i - Len(emitted) \in 1 .. (to - from)
      BY <1>1, <2>1, <2>4
    <3>2. emitted'[i] = e[i - Len(emitted)]
      BY <2>1, <2>2, <2>4
    <3> QED
      BY <1>2, <2>4, <3>1, <3>2
  <2> QED
    BY <2>1, <2>3, <2>4
<1>5. InOrder /\ settled = from /\ settled' = to => InOrder'
  <2> SUFFICES ASSUME InOrder, settled = from, settled' = to PROVE InOrder'
    OBVIOUS
  <2>1. Len(emitted') = to /\ Len(emitted) = from
    BY <1>3 DEF InOrder
  <2>2. ASSUME NEW i \in 1 .. to PROVE emitted'[i].chunk = i
    <3>1. CASE i \in 1 .. Len(emitted) /\ emitted'[i] = emitted[i]
      BY <3>1 DEF InOrder
    <3>2. CASE emitted'[i].chunk = from + (i - Len(emitted))
      BY <2>1, <3>2
    <3> QED
      BY <1>4, <2>1, <3>1, <3>2
  <2> QED
    BY <2>1, <2>2 DEF InOrder
<1>6. form = "blanked" /\ ~Raw => ~Raw'
  <2>1. DOMAIN emitted' = 1 .. Len(emitted') /\ DOMAIN emitted = 1 .. Len(emitted)
    BY <1>3
  <2>2. \A i \in DOMAIN emitted' :
          \/ i \in DOMAIN emitted /\ emitted'[i] = emitted[i]
          \/ emitted'[i].as = form
    BY <1>4, <2>1
  <2> QED
    BY <2>2 DEF Raw
<1>7. from = to => emitted' = emitted
  BY <1>1, ConcatEqualIffEmpty, EmptySeq DEF e
<1>8. from < to => emitted' # <<>>
  BY <1>3, EmptySeq
<1> QED
  BY <1>3, <1>5, <1>6, <1>7, <1>8

NotReading ==
  /\ R!Idle /\ output \in Outputs
  /\ notified \in BOOLEAN /\ buffered \in BOOLEAN
  /\ process \in {"running", "exited", "killed", "kubectl"} /\ signals \in Nat

LEMMA IdleRead == NotReading => ReadInv
PROOF
<1> SUFFICES ASSUME NotReading PROVE ReadInv
  OBVIOUS
<1> USE DEF NotReading
<1>1. emitted = <<>> /\ ~Raw
  BY DEF R!Idle, Raw
<1>2. StepInv
  BY <1>1 DEF R!Idle, StepInv, AtStart, AtDecode, AtEmit, AtFlush, AtCopy, AtEnd, RawInv
<1>3. ChildInv
  BY DEF R!Idle, ChildInv
<1>4. R!GetTypeOK
  <2>1. accepts \in BOOLEAN /\ failed \in BOOLEAN
    BY Zenon DEF R!Idle
  <2>2. emitted \in Seq([chunk : Nat, as : {"blanked", "raw"}])
    BY <1>1, EmptySeq
  <2> QED
    BY <2>1, <2>2, OutputsAre DEF R!Idle, R!GetTypeOK
<1> QED
  BY <1>2, <1>3, <1>4 DEF ReadInv
\* What kubectl and the world do to the stream: at its end it stays there.
LEMMA StreamKept ==
  ASSUME StepInv, UNCHANGED <<output, step, taken, settled, emitted, failed>>,
         R!AtEOF => R!AtEOF' /\ sent' = sent
  PROVE  StepInv'
PROOF
<1>1. CutShort => CutShort'
  BY DEF CutShort, R!Chunk
<1>2. (Spoiled => Spoiled') /\ (SpoiledLater => SpoiledLater')
  BY <1>1 DEF Spoiled, SpoiledLater, R!Chunk, Doc
<1>3. (InOrder <=> InOrder') /\ (Raw <=> Raw')
  BY DEF InOrder, Raw
<1>4. \A i, j : OneDoc(i, j) => OneDoc(i, j)'
  BY DEF OneDoc, Doc, R!Chunk
<1> QED
  BY <1>2, <1>3, <1>4
     DEF StepInv, AtStart, AtDecode, AtEmit, AtFlush, AtCopy, AtEnd, RawInv, Doc, R!Chunk

LEMMA WorldReads ==
  ASSUME ReadInv, R!Kubectl \/ R!ChildFail \/ R!Forward \/ R!Signal \/ R!FillDisk
  PROVE  ReadInv'
PROOF
<1> USE DEF ReadInv, R!stream, R!handler, R!GuardRuns
<1>1. /\ UNCHANGED <<output, step, taken, settled, emitted, failed, status>>
      /\ sent' \in Nat /\ sent <= sent' /\ sent' <= Len(output.chunks)
      /\ child \in R!Ends => child' = child /\ sent' = sent
      /\ child = "none" => child' = child /\ sent' = sent
      /\ child' \in {"none", "running"} \cup R!Ends
      /\ process' = "exited" => process = "exited"
  PROOF
  <2>1. sent \in Nat /\ Len(output.chunks) \in Nat
    BY OutputsAre DEF R!GetTypeOK
  <2>2. CASE R!Kubectl \/ R!ChildFail
    BY <2>1, <2>2 DEF R!Kubectl, R!ChildWrite, R!ChildEnd, R!ChildFail, R!GetTypeOK, R!Ends
  <2>3. CASE R!Forward \/ R!Signal \/ R!FillDisk
    BY <2>1, <2>3 DEF R!Forward, R!Signal, R!FillDisk, R!GetTypeOK, R!Ends
  <2> QED
    BY <2>2, <2>3
<1>2. StepInv'
  BY <1>1, StreamKept DEF R!AtEOF
<1>3. ChildInv'
  <2>1. child' = "none" => child = "none"
    BY DEF R!Kubectl, R!ChildWrite, R!ChildEnd, R!ChildFail, R!Forward, R!Signal, R!FillDisk
  <2> QED
    BY <1>1, <2>1 DEF ChildInv, R!StatusOf, R!Ends
<1>4. R!GetTypeOK'
  <2>1. signals' \in Nat /\ process' \in {"running", "exited", "killed", "kubectl"}
    BY DEF R!GetTypeOK, R!Kubectl, R!ChildWrite, R!ChildEnd, R!ChildFail, R!Forward, R!Signal,
           R!FillDisk
  <2>2. notified' \in BOOLEAN /\ buffered' \in BOOLEAN /\ accepts' \in BOOLEAN
    BY DEF R!GetTypeOK, R!Kubectl, R!ChildWrite, R!ChildEnd, R!ChildFail, R!Forward, R!Signal,
           R!FillDisk
  <2>3. taken' \in 0 .. sent'
    BY <1>1 DEF R!GetTypeOK
  <2> QED
    BY <1>1, <2>1, <2>2, <2>3, OutputsAre DEF R!GetTypeOK
<1> QED
  BY <1>2, <1>3, <1>4
\* A complaint is not taken back when the guard reads on.
LEMMA SpoiledStays ==
  ASSUME R!GetTypeOK, UNCHANGED <<output, sent, child>>, taken' \in Nat, taken <= taken',
         R!AtEOF => taken' = taken
  PROVE  (Spoiled => Spoiled') /\ (SpoiledLater => SpoiledLater')
PROOF
<1>1. taken \in Nat
  BY OutputsAre DEF R!GetTypeOK
<1>2. CutShort => CutShort'
  BY DEF CutShort, R!AtEOF, R!Chunk
<1>3. \A i \in 1 .. taken : i \in 1 .. taken'
  BY <1>1
<1> QED
  BY <1>2, <1>3 DEF Spoiled, SpoiledLater, R!Chunk, Doc

LEMMA DecodeReads ==
  ASSUME ReadInv, R!Decode
  PROVE  StepInv' /\ R!GetTypeOK'
PROOF
<1> USE DEF ReadInv, R!Decode, R!At, R!Goto, R!handler, R!GuardRuns
<1>1. /\ sent \in Nat /\ taken \in Nat /\ settled \in Nat /\ settled <= taken /\ taken <= sent
      /\ output.format \in {"json", "yaml"} /\ Len(output.chunks) \in Nat
  BY OutputsAre DEF R!GetTypeOK
<1>2. /\ InOrder /\ OneDoc(settled + 1, taken) /\ ~failed /\ ~Raw
      /\ output.format = "json" => emitted = <<>> /\ (taken > 0 => ~R!Chunk(taken).last)
      /\ emitted # <<>> =>
           \/ R!AtEOF /\ settled = taken
           \/ 0 < settled /\ settled < taken /\ Doc(settled) # Doc(settled + 1)
  BY DEF StepInv, AtDecode
<1>3. InOrder' /\ ~Raw' /\ ~failed' /\ UNCHANGED <<output, sent, settled, emitted, child>>
  BY <1>2 DEF InOrder, Raw
<1>4. \A i : R!Chunk(i)' = R!Chunk(i)
  BY <1>3 DEF R!Chunk
<1>5. R!GetTypeOK'
  BY <1>1 DEF R!GetTypeOK, R!Readable
<1>6. CASE R!Readable /\ taken' = taken + 1
  <2> DEFINE n == taken + 1
  <2>1. ~R!AtEOF /\ n \in Nat /\ n <= sent
    BY <1>1, <1>6 DEF R!Readable, R!AtEOF
  <2>2. CASE R!NextDocument /\ step' = "emit"
    <3>1. settled < n /\ Doc(n) # Doc(settled + 1)
      BY <1>1, <2>2 DEF R!NextDocument, R!Pending, Doc
    <3>2. AtEmit'
      BY <1>1, <1>2, <1>3, <1>4, <1>6, <3>1 DEF AtEmit, OneDoc, Doc
    <3> QED
      BY <1>3, <1>5, <2>2, <3>2
         DEF StepInv, AtStart, AtDecode, AtFlush, AtCopy, AtEnd, RawInv
  <2>3. CASE ~R!NextDocument /\ ~R!Chunk(n).sound /\ step' = "flush"
    <3>1. Spoiled'
      BY <1>1, <1>4, <1>6, <2>1, <2>3 DEF Spoiled
    <3>2. emitted # <<>> => SpoiledLater'
      <4> SUFFICES ASSUME emitted # <<>> PROVE SpoiledLater'
        OBVIOUS
      <4>1. 0 < settled /\ settled < taken /\ Doc(settled) # Doc(settled + 1)
        BY <1>2, <2>1
      <4>2. Doc(n) = Doc(settled + 1)
        BY <2>3, <4>1 DEF R!NextDocument, R!Pending, Doc
      <4>3. output.format = "yaml"
        BY <1>1, <1>2
      <4>4. settled \in 1 .. taken' /\ n \in 1 .. taken' /\ settled < n
        BY <1>1, <1>6, <4>1
      <4> QED
        BY <1>3, <1>4, <2>3, <4>1, <4>2, <4>3, <4>4 DEF SpoiledLater, Doc
    <3> QED
      BY <1>3, <1>5, <2>3, <3>1, <3>2
         DEF StepInv, AtStart, AtDecode, AtEmit, AtFlush, AtCopy, AtEnd, RawInv
  <2>4. CASE /\ ~R!NextDocument /\ R!Chunk(n).sound
             /\ output.format = "json" /\ R!Chunk(n).last /\ step' = "emit"
    <3>1. AtEmit'
      BY <1>1, <1>2, <1>3, <1>4, <1>6, <2>4 DEF AtEmit, OneDoc, Doc
    <3> QED
      BY <1>3, <1>5, <2>4, <3>1
         DEF StepInv, AtStart, AtDecode, AtFlush, AtCopy, AtEnd, RawInv
  <2>5. CASE /\ ~R!NextDocument /\ R!Chunk(n).sound /\ step' = "decode"
             /\ ~(output.format = "json" /\ R!Chunk(n).last)
    <3>1. OneDoc(settled + 1, n)
      <4>1. settled < taken => Doc(n) = Doc(settled + 1)
        BY <2>5 DEF R!NextDocument, R!Pending, Doc
      <4>2. \A i \in settled + 1 .. n : i \in settled + 1 .. taken \/ i = n
        BY <1>1
      <4> QED
        BY <1>1, <1>2, <4>1, <4>2 DEF OneDoc
    <3>2. OneDoc(settled + 1, taken)'
      BY <1>3, <1>4, <1>6, <3>1 DEF OneDoc, Doc
    <3>3. emitted # <<>> =>
            0 < settled /\ settled < n /\ Doc(settled) # Doc(settled + 1)
      BY <1>1, <1>2, <2>1
    <3>4. AtDecode'
      BY <1>2, <1>3, <1>4, <1>6, <2>5, <3>2, <3>3 DEF AtDecode, Doc
    <3> QED
      BY <1>3, <1>5, <2>5, <3>4
         DEF StepInv, AtStart, AtEmit, AtFlush, AtCopy, AtEnd, RawInv
  <2> QED
    BY <1>6, <2>1, <2>2, <2>3, <2>4, <2>5 DEF R!AtEOF, R!Readable
<1>7. CASE R!AtEOF /\ UNCHANGED taken
  <2>1. R!AtEOF' /\ taken' = sent' /\ taken = sent
    BY <1>3, <1>7 DEF R!AtEOF
  <2>2. CASE output.format = "json" /\ step' = "flush"
    <3>1. taken > 0 => CutShort'
      BY <1>2, <1>3, <1>4, <2>1, <2>2 DEF CutShort
    <3>2. Spoiled' \/ sent' = 0
      BY <1>1, <1>3, <2>1, <3>1 DEF Spoiled
    <3> QED
      BY <1>2, <1>3, <1>5, <2>1, <2>2, <3>2
         DEF StepInv, AtStart, AtDecode, AtEmit, AtFlush, AtCopy, AtEnd, RawInv
  <2>3. CASE output.format = "yaml" /\ ~R!Pending /\ step' = "wait"
    BY <1>1, <1>3, <1>5, <1>7, <2>1, <2>3
       DEF StepInv, AtStart, AtDecode, AtEmit, AtFlush, AtCopy, AtEnd, RawInv, R!Pending
  <2>4. CASE output.format = "yaml" /\ R!Pending /\ step' = "emit"
    <3>1. AtEmit'
      BY <1>1, <1>2, <1>3, <1>4, <1>7, <2>1, <2>4 DEF AtEmit, OneDoc, Doc, R!Pending
    <3> QED
      BY <1>3, <1>5, <2>4, <3>1
         DEF StepInv, AtStart, AtDecode, AtFlush, AtCopy, AtEnd, RawInv
  <2>5. CASE output.format = "yaml" /\ R!Pending /\ ~R!Chunk(taken).last /\ step' = "flush"
    <3>1. CutShort'
      BY <1>1, <1>3, <1>4, <2>1, <2>5 DEF CutShort, R!Pending
    <3>2. emitted # <<>> => SpoiledLater'
      <4> SUFFICES ASSUME emitted # <<>> PROVE SpoiledLater'
        OBVIOUS
      <4>1. 0 < settled /\ settled < taken /\ Doc(settled) # Doc(settled + 1)
        BY <1>1, <1>2, <2>5 DEF R!Pending
      <4>2. Doc(taken) = Doc(settled + 1)
        BY <1>1, <1>2, <4>1 DEF OneDoc
      <4>3. settled \in 1 .. taken' /\ taken \in 1 .. taken'
        BY <1>1, <1>7, <4>1
      <4> QED
        BY <1>3, <1>4, <2>5, <3>1, <4>1, <4>2, <4>3 DEF SpoiledLater, Doc
    <3> QED
      BY <1>3, <1>5, <2>5, <3>1, <3>2
         DEF StepInv, AtStart, AtDecode, AtEmit, AtFlush, AtCopy, AtEnd, RawInv, Spoiled
  <2> QED
    BY <1>1, <1>7, <2>2, <2>3, <2>4, <2>5 DEF R!AtEOF, R!Readable
<1> QED
  BY <1>6, <1>7
LEMMA EmitReads ==
  ASSUME ReadInv, R!Emit
  PROVE  StepInv' /\ R!GetTypeOK'
PROOF
<1> USE DEF ReadInv, R!At, R!Goto, R!handler, R!GuardRuns
<1>1. /\ sent \in Nat /\ taken \in Nat /\ settled \in Nat /\ settled < taken /\ taken <= sent
      /\ output.format \in {"json", "yaml"} /\ sent <= Len(output.chunks)
      /\ Len(output.chunks) \in Nat /\ emitted \in Seq(Emitted)
  BY OutputsAre DEF R!GetTypeOK, StepInv, AtEmit, R!Emit, Emitted
<1>2. /\ InOrder /\ OneDoc(settled + 1, taken - 1) /\ ~failed /\ ~Raw
      /\ \/ Doc(taken) # Doc(settled + 1)
         \/ output.format = "yaml" /\ R!AtEOF
         \/ output.format = "json" /\ R!Chunk(taken).last
  BY DEF StepInv, AtEmit, R!Emit
<1>3. UNCHANGED <<output, sent, child, taken>> /\ \A i : R!Chunk(i)' = R!Chunk(i)
  BY DEF R!Emit, R!Chunk
<1>4. CASE ~accepts
  <2>1. step' = "wait" /\ failed' /\ UNCHANGED <<settled, emitted>>
    BY <1>4 DEF R!Emit
  <2>2. ~Raw'
    BY <1>2, <2>1 DEF Raw
  <2>3. StepInv'
    BY <2>1, <2>2 DEF StepInv, AtStart, AtDecode, AtEmit, AtFlush, AtCopy, AtEnd, RawInv
  <2> QED
    BY <1>3, <2>1, <2>3 DEF R!GetTypeOK, R!Emit
<1>5. CASE accepts
  <2> DEFINE to == R!Decoded
  <2>1. /\ to \in Nat /\ settled < to /\ to <= taken
        /\ IF Doc(taken) # Doc(settled + 1) THEN to = taken - 1 ELSE to = taken
    BY <1>1 DEF R!Decoded, Doc
  <2>2. emitted' = emitted \o R!Emission(settled, to, "blanked") /\ settled' = to
    BY <1>5 DEF R!Emit
  <2> HIDE DEF to
  <2>3. emitted' \in Seq(Emitted) /\ InOrder' /\ ~Raw' /\ emitted' # <<>>
    <3>1. settled <= to /\ "blanked" \in {"blanked", "raw"}
      BY <1>1, <2>1
    <3>2. /\ emitted' \in Seq(Emitted)
          /\ InOrder /\ settled = settled /\ settled' = to => InOrder'
          /\ "blanked" = "blanked" /\ ~Raw => ~Raw'
          /\ settled < to => emitted' # <<>>
      BY <1>1, <2>1, <2>2, <3>1, EmittedMore
    <3> QED
      BY <1>2, <2>1, <2>2, <3>2
  <2>4. ~failed'
    BY <1>2, <1>5 DEF R!Emit
  <2>5. R!GetTypeOK'
    <3>1. step' \in {"wait", "flush", "decode"}
      BY <1>1, <1>5 DEF R!Emit
    <3>2. settled' \in 0 .. taken' /\ taken' \in 0 .. sent' /\ sent' \in 0 .. Len(output'.chunks)
      BY <1>1, <1>3, <2>1, <2>2
    <3> QED
      BY <1>3, <2>3, <2>4, <3>1, <3>2 DEF R!GetTypeOK, R!Emit, Emitted
  <2>6. CASE output.format = "json" /\ step' = "wait"
    <3>1. Doc(taken) = Doc(settled + 1)
      <4>1. taken \in 1 .. Len(output.chunks) /\ settled + 1 \in 1 .. Len(output.chunks)
        BY <1>1
      <4> QED
        BY <2>6, <4>1, OutputsAre DEF R!GetTypeOK
    <3>2. settled' = taken /\ R!Chunk(taken).last
      BY <1>2, <2>1, <2>2, <2>6, <3>1
    <3>3. taken = Len(output.chunks)
      <4>1. taken \in 1 .. Len(output.chunks)
        BY <1>1
      <4> QED
        BY <2>6, <3>2, <4>1, OutputsAre DEF R!GetTypeOK
    <3> QED
      BY <1>3, <2>3, <2>5, <2>6, <3>2, <3>3
         DEF StepInv, AtStart, AtDecode, AtEmit, AtFlush, AtCopy, AtEnd, RawInv
  <2>7. CASE output.format = "yaml" /\ to < taken /\ ~R!Chunk(taken).sound /\ step' = "flush"
    <3>1. to = taken - 1 /\ Doc(taken) # Doc(settled + 1)
      BY <1>1, <2>1, <2>7
    <3>2. Doc(taken - 1) = Doc(settled + 1)
      BY <1>1, <1>2, <2>1, <3>1 DEF OneDoc
    <3>3. taken - 1 \in 1 .. taken' /\ taken \in 1 .. taken' /\ taken - 1 < taken
      BY <1>1, <1>3, <2>1, <3>1
    <3>4. SpoiledLater'
      BY <1>3, <2>7, <3>1, <3>2, <3>3 DEF SpoiledLater, Doc
    <3>5. Spoiled'
      BY <1>3, <2>7, <3>3 DEF Spoiled
    <3> QED
      BY <2>3, <2>4, <2>5, <2>7, <3>4, <3>5
         DEF StepInv, AtStart, AtDecode, AtEmit, AtFlush, AtCopy, AtEnd, RawInv
  <2>8. CASE output.format = "yaml" /\ step' = "decode"
    <3>1. OneDoc(settled + 1, taken)'
      <4>1. \A i \in settled' + 1 .. taken' : i = settled' + 1
        BY <1>1, <1>3, <2>1, <2>2
      <4> QED
        BY <4>1 DEF OneDoc
    <3>2. CASE to = taken
      <4>1. R!AtEOF' /\ settled' = taken'
        BY <1>1, <1>2, <1>3, <2>1, <2>2, <2>8, <3>2 DEF R!AtEOF
      <4> QED
        BY <1>3, <2>3, <2>4, <2>5, <2>8, <3>1, <4>1
           DEF StepInv, AtStart, AtDecode, AtEmit, AtFlush, AtCopy, AtEnd, RawInv
    <3>3. CASE to = taken - 1
      <4>1. Doc(taken - 1) = Doc(settled + 1) /\ Doc(taken) # Doc(settled + 1)
        BY <1>1, <1>2, <2>1, <3>3 DEF OneDoc
      <4>2. settled' + 1 = taken /\ settled' = taken - 1 /\ 0 < settled' /\ settled' < taken'
        BY <1>1, <1>3, <2>1, <2>2, <3>3
      <4>3. Doc(settled)' # Doc(settled + 1)'
        BY <1>3, <4>1, <4>2 DEF Doc
      <4> QED
        BY <1>3, <2>3, <2>4, <2>5, <2>8, <3>1, <4>2, <4>3
           DEF StepInv, AtStart, AtDecode, AtEmit, AtFlush, AtCopy, AtEnd, RawInv
    <3> QED
      BY <2>1, <3>2, <3>3
  <2> QED
    BY <1>1, <1>5, <2>5, <2>6, <2>7, <2>8 DEF R!Emit, to
<1> QED
  BY <1>4, <1>5 DEF R!Emit
LEMMA FlushReads ==
  ASSUME ReadInv, R!Flush
  PROVE  StepInv' /\ R!GetTypeOK'
PROOF
<1> USE DEF ReadInv, R!At, R!Goto, R!handler, R!GuardRuns
<1>1. /\ sent \in Nat /\ taken \in Nat /\ settled \in Nat /\ settled <= taken /\ taken <= sent
      /\ sent <= Len(output.chunks) /\ Len(output.chunks) \in Nat /\ emitted \in Seq(Emitted)
  BY OutputsAre DEF R!GetTypeOK, Emitted
<1>2. /\ InOrder /\ ~failed /\ (Raw => Spoiled)
      /\ emitted # <<>> => SpoiledLater
      /\ Spoiled \/ (R!AtEOF /\ sent = 0)
  BY DEF StepInv, AtFlush, RawInv, R!Flush
<1>3. UNCHANGED <<output, sent, child, taken>>
  BY DEF R!Flush
<1>4. (Spoiled => Spoiled') /\ (SpoiledLater => SpoiledLater')
      /\ (R!AtEOF /\ sent = 0 => R!AtEOF' /\ sent' = 0)
  BY <1>1, <1>3, SpoiledStays DEF R!AtEOF
<1>5. CASE step' = "wait"
  <2>1. failed' /\ UNCHANGED <<settled, emitted>>
    BY <1>5 DEF R!Flush
  <2>2. Raw' => Spoiled'
    BY <1>2, <1>4, <2>1 DEF Raw
  <2>3. StepInv'
    BY <1>5, <2>1, <2>2 DEF StepInv, AtStart, AtDecode, AtEmit, AtFlush, AtCopy, AtEnd, RawInv
  <2> QED
    BY <1>3, <1>5, <2>1, <2>3 DEF R!GetTypeOK, R!Flush
<1>6. CASE step' = "copy"
  <2>1. emitted' = emitted \o R!Captured /\ settled' = taken /\ ~failed'
    BY <1>2, <1>6 DEF R!Flush
  <2>2. CASE emitted = <<>>
    <3>1. settled = 0 /\ ~Raw
      BY <2>2 DEF StepInv, AtFlush, R!Flush, InOrder, Raw
    <3>2. emitted' = emitted \o R!Emission(settled, taken, "raw")
      BY <2>1, <2>2 DEF R!Captured
    <3>3. "raw" \in {"blanked", "raw"}
      OBVIOUS
    <3>4. /\ emitted' \in Seq(Emitted)
          /\ InOrder /\ settled = settled /\ settled' = taken => InOrder'
          /\ settled = taken => emitted' = emitted
      BY <1>1, <3>2, <3>3, EmittedMore
    <3>5. InOrder'
      BY <1>2, <2>1, <3>4
    <3>6. Raw' => Spoiled'
      <4>1. CASE Spoiled
        BY <1>4, <4>1
      <4>2. CASE sent = 0
        BY <1>1, <2>2, <3>1, <3>4, <4>2 DEF Raw
      <4> QED
        BY <1>2, <4>1, <4>2
    <3> QED
      BY <1>1, <1>2, <1>3, <1>4, <1>6, <2>1, <3>4, <3>5, <3>6
         DEF StepInv, AtStart, AtDecode, AtEmit, AtFlush, AtCopy, AtEnd, RawInv,
             R!GetTypeOK, R!Flush, Emitted
  <2>3. CASE emitted # <<>>
    <3>1. emitted' = emitted
      BY <1>1, <2>1, <2>3, ConcatEmptySeq DEF R!Captured
    <3>2. (Raw' => Spoiled') /\ SpoiledLater'
      BY <1>2, <1>4, <2>3, <3>1 DEF Raw
    <3> QED
      BY <1>1, <1>2, <1>3, <1>4, <1>6, <2>1, <3>1, <3>2
         DEF StepInv, AtStart, AtDecode, AtEmit, AtFlush, AtCopy, AtEnd, RawInv,
             R!GetTypeOK, R!Flush, Emitted
  <2> QED
    BY <2>2, <2>3
<1> QED
  BY <1>5, <1>6 DEF R!Flush

LEMMA CopyReads ==
  ASSUME ReadInv, R!Copy
  PROVE  StepInv' /\ R!GetTypeOK'
PROOF
<1> USE DEF ReadInv, R!At, R!Goto, R!handler, R!GuardRuns
<1>1. /\ sent \in Nat /\ taken \in Nat /\ settled = taken /\ taken <= sent
      /\ sent <= Len(output.chunks) /\ Len(output.chunks) \in Nat /\ emitted \in Seq(Emitted)
  BY OutputsAre DEF R!GetTypeOK, Emitted, StepInv, AtCopy, R!Copy
<1>2. /\ InOrder \/ SpoiledLater
      /\ ~failed /\ (Raw => Spoiled)
      /\ Spoiled \/ (R!AtEOF /\ sent = 0)
  BY DEF StepInv, AtCopy, RawInv, R!Copy
<1>3. UNCHANGED <<output, sent, child, accepts>>
  BY DEF R!Copy
<1>4. CASE R!Readable
  <2>1. ~R!AtEOF /\ taken' = taken + 1 /\ taken' \in Nat /\ taken' <= sent
    BY <1>1, <1>4 DEF R!Copy, R!AtEOF, R!Readable
  <2>2. Spoiled' /\ (SpoiledLater => SpoiledLater')
    BY <1>1, <1>2, <1>3, <2>1, SpoiledStays
  <2>3. CASE accepts
    <3>1. step' = "copy" /\ failed' = failed /\ settled' = taken'
          /\ emitted' = emitted \o R!Emission(taken, taken', "raw")
      BY <1>4, <2>1, <2>3 DEF R!Copy, R!AtEOF
    <3>2. "raw" \in {"blanked", "raw"} /\ taken <= taken + 1 /\ taken + 1 \in Nat
      BY <1>1
    <3>3. emitted' = emitted \o R!Emission(taken, taken + 1, "raw")
      BY <2>1, <3>1
    <3>4. /\ emitted' \in Seq(Emitted)
          /\ InOrder /\ settled = taken /\ settled' = taken + 1 => InOrder'
      BY <1>1, <3>2, <3>3, EmittedMore
    <3>5. InOrder \/ SpoiledLater => InOrder' \/ SpoiledLater'
      BY <1>1, <2>1, <2>2, <3>1, <3>4
    <3>6. StepInv'
      BY <1>2, <2>2, <3>1, <3>5
         DEF StepInv, AtStart, AtDecode, AtEmit, AtFlush, AtCopy, AtEnd, RawInv
    <3> QED
      BY <1>1, <1>3, <2>1, <3>1, <3>4, <3>6 DEF R!GetTypeOK, R!Copy, Emitted
  <2>4. CASE ~accepts
    <3>1. step' = "wait" /\ failed' /\ UNCHANGED <<settled, emitted>>
      BY <1>4, <2>1, <2>4 DEF R!Copy, R!AtEOF
    <3>2. settled' \in 0 .. taken' /\ taken' \in 0 .. sent'
      BY <1>1, <1>3, <2>1, <3>1
    <3>3. StepInv'
      BY <2>2, <3>1
         DEF StepInv, AtStart, AtDecode, AtEmit, AtFlush, AtCopy, AtEnd, RawInv
    <3> QED
      BY <1>3, <3>1, <3>2, <3>3 DEF R!GetTypeOK, R!Copy
  <2> QED
    BY <2>3, <2>4
<1>5. CASE ~R!Readable
  <2>1. R!AtEOF /\ step' = "wait" /\ UNCHANGED <<taken, settled, emitted, failed>>
    BY <1>5 DEF R!Copy
  <2>2. R!AtEOF' /\ (Spoiled => Spoiled') /\ (SpoiledLater => SpoiledLater')
    BY <1>1, <1>3, <2>1, SpoiledStays DEF R!AtEOF
  <2>3. (InOrder => InOrder') /\ (Raw' => Raw)
    BY <2>1 DEF InOrder, Raw
  <2>4. StepInv'
    BY <1>1, <1>2, <2>1, <2>2, <2>3
       DEF StepInv, AtStart, AtDecode, AtEmit, AtFlush, AtCopy, AtEnd, RawInv
  <2> QED
    BY <1>3, <2>1, <2>4 DEF R!GetTypeOK, R!Copy
<1> QED
  BY <1>4, <1>5

\* The steps that do not touch the stream.
LEMMA StillReads ==
  ASSUME ReadInv, R!Begin \/ R!Start \/ R!Notify \/ R!Wait \/ R!Exit
  PROVE  StepInv' /\ R!GetTypeOK'
PROOF
<1> USE DEF ReadInv, R!At, R!Goto, R!handler, R!GuardRuns, R!stream
<1>1. UNCHANGED <<output, sent, taken, settled, emitted, failed, accepts>>
  BY DEF R!Begin, R!Start, R!Notify, R!Wait, R!Exit
<1>2. R!GetTypeOK'
  <2>1. child' \in {"none", "running"} \cup R!Ends /\ notified' \in BOOLEAN
    BY DEF R!GetTypeOK, R!Begin, R!Start, R!Notify, R!Wait, R!Exit
  <2>2. /\ step' \in {"start", "notify", "decode", "exit"}
        /\ status' \in {"none", "0", "n", "128+N", "255"}
        /\ process' \in {"running", "exited", "killed", "kubectl"}
        /\ UNCHANGED <<buffered, signals>>
    BY DEF R!GetTypeOK, R!Begin, R!Start, R!Notify, R!Wait, R!Exit, R!StatusOf
  <2> QED
    BY <1>1, <2>1, <2>2 DEF R!GetTypeOK
<1>3. CASE R!Begin \/ R!Start
  <2>1. /\ taken = 0 /\ settled = 0 /\ emitted = <<>> /\ ~failed
        /\ step' \in {"start", "notify"}
    BY <1>3 DEF R!Begin, R!Start, StepInv, AtStart
  <2>2. ~Raw'
    BY <1>1, <2>1 DEF Raw
  <2> QED
    BY <1>1, <1>2, <2>1, <2>2
       DEF StepInv, AtStart, AtDecode, AtEmit, AtFlush, AtCopy, AtEnd, RawInv
<1>4. CASE R!Notify
  <2>1. /\ taken = 0 /\ settled = 0 /\ emitted = <<>> /\ ~failed
    BY <1>4 DEF R!Notify, StepInv, AtStart
  <2>2. InOrder' /\ ~Raw' /\ OneDoc(settled + 1, taken)'
    BY <1>1, <2>1 DEF InOrder, Raw, OneDoc
  <2> QED
    BY <1>1, <1>2, <1>4, <2>1, <2>2
       DEF R!Notify, StepInv, AtStart, AtDecode, AtEmit, AtFlush, AtCopy, AtEnd, RawInv
<1>5. CASE R!Wait \/ R!Exit
  <2>1. child' = child /\ step \in {"wait", "exit"} /\ step' = "exit"
    BY <1>5 DEF R!Wait, R!Exit
  <2>2. (R!AtEOF => R!AtEOF') /\ (InOrder => InOrder') /\ (Raw' => Raw)
    BY <1>1, <2>1 DEF R!AtEOF, InOrder, Raw
  <2>3. (Spoiled => Spoiled') /\ (SpoiledLater => SpoiledLater')
    BY <1>1, <2>1, SpoiledStays DEF R!GetTypeOK
  <2>4. ~failed => /\ InOrder' \/ SpoiledLater'
                   /\ settled = taken
                   /\ R!AtEOF' \/ taken = Len(output.chunks)
    BY <2>1, <2>2, <2>3 DEF StepInv, AtEnd
  <2>5. Raw' => Spoiled'
    BY <2>2, <2>3 DEF StepInv, RawInv
  <2> QED
    BY <1>1, <1>2, <2>1, <2>4, <2>5
       DEF StepInv, AtStart, AtDecode, AtEmit, AtFlush, AtCopy, AtEnd, RawInv
<1> QED
  BY <1>2, <1>3, <1>4, <1>5
LEMMA ChildReads ==
  ASSUME ReadInv, R!Begin \/ R!Streaming
  PROVE  ChildInv'
BY DEF ReadInv, ChildInv, R!Begin, R!Streaming, R!Start, R!Notify, R!Decode, R!Emit, R!Flush,
       R!Copy, R!Wait, R!Exit, R!At, R!Goto, R!GuardRuns, R!handler, R!stream, R!Ends

LEMMA NextReads ==
  ASSUME ReadInv, R!Next
  PROVE  ReadInv'
PROOF
<1>1. CASE R!Begin \/ R!Streaming
  <2>1. StepInv' /\ R!GetTypeOK'
    BY <1>1, DecodeReads, EmitReads, FlushReads, CopyReads, StillReads DEF R!Streaming
  <2> QED
    BY <1>1, <2>1, ChildReads DEF ReadInv
<1> QED
  BY <1>1, WorldReads DEF R!Next

-----------------------------------------------------------------------------
(***************************************************************************)
(* The read within the invocation: before and outside of its stage there   *)
(* is none.  With it, and with RunInv for the rest, go all variables'      *)
(* types.                                                                  *)
(***************************************************************************)
WorldTypes ==
  /\ stage \in {"enter", "refused", "bypass", "check", "stop", "setup", "wizard",
                "gated", "prompt", "allowed", "redact", "exec", "failed", "end"}
  /\ system \in {"absent", "plain", "enforced", "broken"}
  /\ user \in {"absent", "good", "broken"}
  /\ verdict \in Verdicts /\ policy \in Policies
  /\ upsets \in 0 .. MaxUpsets

PromptTypes ==
  /\ main \in {"notify", "preview", "prompt", "claim", "stop", "close", "answered",
               "reason", "unjustified", "confirmed", "exec", "exit", "blocked"}
  /\ watcher \in {"unborn", "select", "claim", "interrupted", "exit", "gone"}
  /\ notified \in BOOLEAN /\ buffered \in BOOLEAN /\ closed \in BOOLEAN
  /\ decided \in {"nobody", "main", "watcher"}
  /\ outcome \in {"none", "approved", "declined", "timed out"}
  /\ process \in {"running", "exited", "killed", "kubectl"}
  /\ signals \in 0 .. MaxSignals

NoRead == stage # "redact" => R!Idle

TypeInv == WorldTypes /\ PromptTypes /\ NoRead /\ ReadInv

LEMMA SignalsLeft ==
  ASSUME PromptTypes, signals' = signals \/ (signals > 0 /\ signals' = signals - 1)
  PROVE  signals' \in 0 .. MaxSignals /\ signals' \in Nat
PROOF
<1>1. MaxSignals \in Nat
  BY GuardRunAssumption
<1>2. signals \in 0 .. MaxSignals
  BY Zenon DEF PromptTypes
<1> QED
  BY <1>1, <1>2

LEMMA InitTypes == Init => TypeInv
PROOF
<1> SUFFICES ASSUME Init PROVE TypeInv
  OBVIOUS
<1>1. output \in Outputs /\ MaxSignals \in Nat
  BY GuardRunAssumption DEF Init
<1>2. Lenient \in Policies
  BY DEF Lenient, Policies
<1>3. notified \in BOOLEAN /\ buffered \in BOOLEAN /\ closed \in BOOLEAN
  BY Zenon DEF Init
<1>4. WorldTypes /\ PromptTypes
  BY <1>2, <1>3, GuardRunAssumption DEF Init, WorldTypes, PromptTypes, Verdicts
<1>5. ReadInv
  BY <1>1, <1>3, IdleRead DEF Init, NotReading
<1> QED
  BY <1>4, <1>5 DEF Init, TypeInv, NoRead

LEMMA DecidingTypes ==
  ASSUME TypeInv, Deciding \/ CloseWizard \/ ChangeFiles \/ Killed
  PROVE  TypeInv'
PROOF
<1> USE DEF TypeInv
<1>1. R!Idle /\ R!Idle'
  BY DEF NoRead, Deciding, Enter, Refused, Bypass, Check, Stop, Save, HeadlessDeny,
         OpenWizard, CloseWizard, RefuseYes, YesUnjustified, AutoConfirm, Relay, AbortJSON,
         OpenPrompt, Allowed, Permit, Exec, ChangeFiles, Killed, Step, Reading, readOnly,
         R!Idle
<1>2. /\ UNCHANGED <<main, watcher, closed, decided, outcome, notified, buffered>>
      /\ signals' \in 0 .. MaxSignals
  <2>1. CASE ChangeFiles \/ Killed \/ Save
    <3>1. /\ UNCHANGED <<main, watcher, closed, decided, outcome, notified, buffered>>
          /\ signals' = signals \/ (signals > 0 /\ signals' = signals - 1)
      BY <2>1 DEF ChangeFiles, Killed, Save, promptOnly, handler
    <3> QED
      BY <3>1, SignalsLeft
  <2>2. CASE (Deciding \/ CloseWizard) /\ ~Save
    BY <2>2
       DEF PromptTypes, Deciding, Enter, Refused, Bypass, Check, Stop, HeadlessDeny,
           OpenWizard, CloseWizard, RefuseYes, YesUnjustified, AutoConfirm, Relay,
           AbortJSON, OpenPrompt, Allowed, Permit, Exec, Step
  <2> QED
    BY <2>1, <2>2
<1>3. process' \in {"running", "exited", "killed", "kubectl"}
  BY DEF PromptTypes, Deciding, Enter, Refused, Bypass, Check, Stop, Save, HeadlessDeny,
         OpenWizard, CloseWizard, RefuseYes, YesUnjustified, AutoConfirm, Relay, AbortJSON,
         OpenPrompt, Allowed, Permit, Exec, ChangeFiles, Killed, Exit, Running, handler
<1>4. output' \in Outputs
  BY DEF ReadInv, R!GetTypeOK, Deciding, Enter, Refused, Bypass, Check, Stop, Save,
         HeadlessDeny, OpenWizard, CloseWizard, RefuseYes, YesUnjustified, AutoConfirm,
         Relay, AbortJSON, OpenPrompt, Allowed, Permit, Exec, ChangeFiles, Killed, choices
<1>5. PromptTypes'
  <2>1. /\ main' = main /\ watcher' = watcher /\ closed' = closed /\ decided' = decided
        /\ outcome' = outcome /\ notified' = notified /\ buffered' = buffered
    BY <1>2
  <2> QED
    BY <1>2, <1>3, <2>1, Zenon DEF PromptTypes
<1>6. ReadInv'
  <2>1. signals' \in Nat
    BY <1>2, GuardRunAssumption
  <2>2. NotReading'
    BY <1>1, <1>4, <1>5, <2>1, Zenon DEF PromptTypes, NotReading
  <2> QED
    BY <2>2, IdleRead, PTL
<1>7. /\ stage' \in {"enter", "refused", "bypass", "check", "stop", "setup", "wizard",
                     "gated", "prompt", "allowed", "redact", "exec", "failed", "end"}
      /\ verdict' \in Verdicts
  BY DEF WorldTypes, Verdicts, Branch, Deciding, Enter, Refused, Bypass, Check, Stop, Save,
         HeadlessDeny, OpenWizard, CloseWizard, RefuseYes, YesUnjustified, AutoConfirm,
         Relay, AbortJSON, OpenPrompt, Allowed, Permit, Exec, ChangeFiles, Killed, choices,
         Step
<1>8. policy' \in Policies
  <2>1. Lenient \in Policies
    BY DEF Lenient, Policies
  <2>2. \A mode \in {"all", "gated", "none"} : [Lenient EXCEPT !.audit = mode] \in Policies
    BY DEF Lenient, Policies
  <2>3. \A result : PoliciesFor(result) \subseteq Policies
    BY <2>2 DEF PoliciesFor
  <2> QED
    BY <2>1, <2>2, <2>3
       DEF WorldTypes, Deciding, Enter, Refused, Bypass, Check, Stop, Save, HeadlessDeny,
           OpenWizard, CloseWizard, RefuseYes, YesUnjustified, AutoConfirm, Relay,
           AbortJSON, OpenPrompt, Allowed, Permit, Exec, ChangeFiles, Killed, choices
<1>9. /\ system' \in {"absent", "plain", "enforced", "broken"}
      /\ user' \in {"absent", "good", "broken"}
      /\ upsets' \in 0 .. MaxUpsets
  <2>1. CASE ChangeFiles \/ Killed \/ Save
    BY <2>1, GuardRunAssumption DEF WorldTypes, ChangeFiles, Killed, Save, files
  <2>2. CASE (Deciding \/ CloseWizard) /\ ~Save
    <3>1. \/ UNCHANGED <<system, user, upsets>>
          \/ system' = "absent" /\ user' = "absent" /\ upsets' = 0
      BY <2>2
         DEF Deciding, Enter, Refused, Bypass, Check, Stop, HeadlessDeny, OpenWizard,
             CloseWizard, RefuseYes, YesUnjustified, AutoConfirm, Relay, AbortJSON,
             OpenPrompt, Allowed, Permit, Exec, Step
    <3> QED
      BY <3>1, GuardRunAssumption DEF WorldTypes
  <2> QED
    BY <2>1, <2>2
<1> QED
  BY <1>1, <1>5, <1>6, <1>7, <1>8, <1>9 DEF WorldTypes, NoRead
LEMMA PromptingTypes ==
  ASSUME TypeInv, Prompting
  PROVE  TypeInv'
PROOF
<1> USE DEF TypeInv, Prompting
<1>1. NoRead' /\ WorldTypes'
  BY DEF NoRead, WorldTypes, files, choices, readOnly, R!Idle
<1>2. PromptTypes'
  <2>1. /\ main' \in {"notify", "preview", "prompt", "claim", "stop", "close", "answered",
                      "reason", "unjustified", "confirmed", "exec", "exit", "blocked"}
        /\ watcher' \in {"unborn", "select", "claim", "interrupted", "exit", "gone"}
        /\ decided' \in {"nobody", "main", "watcher"}
        /\ outcome' \in {"none", "approved", "declined", "timed out"}
        /\ process' \in {"running", "exited", "killed", "kubectl"}
    BY DEF PromptTypes, C!Next, C!Asking, C!Watching, C!Signal, C!Notify, C!Preview,
           C!Answer, C!ClaimAnswer, C!StopSignals, C!CloseDone, C!Decide, C!Reason,
           C!Unjustified, C!Confirmed, C!ExecOrExit, C!Select, C!ClaimInterrupt,
           C!Interrupted, C!ExitInterrupted, C!Main, C!Watcher, C!verdict, C!Exit, C!Running
  <2>2. notified' \in BOOLEAN /\ buffered' \in BOOLEAN /\ closed' \in BOOLEAN
    BY DEF PromptTypes, C!Next, C!Asking, C!Watching, C!Signal, C!Notify, C!Preview,
           C!Answer, C!ClaimAnswer, C!StopSignals, C!CloseDone, C!Decide, C!Reason,
           C!Unjustified, C!Confirmed, C!ExecOrExit, C!Select, C!ClaimInterrupt,
           C!Interrupted, C!ExitInterrupted, C!channels
  <2>3. signals' = signals \/ (signals > 0 /\ signals' = signals - 1)
    BY DEF C!Next, C!Asking, C!Watching, C!Signal, C!Notify, C!Preview,
           C!Answer, C!ClaimAnswer, C!StopSignals, C!CloseDone, C!Decide, C!Reason,
           C!Unjustified, C!Confirmed, C!ExecOrExit, C!Select, C!ClaimInterrupt,
           C!Interrupted, C!ExitInterrupted, C!Main, C!Watcher
  <2>4. signals' \in 0 .. MaxSignals
    BY <2>3, SignalsLeft
  <2> QED
    BY <2>1, <2>2, <2>4 DEF PromptTypes
<1>3. ReadInv'
  <2>1. output' \in Outputs /\ R!Idle'
    BY DEF NoRead, readOnly, choices, R!Idle, ReadInv, R!GetTypeOK
  <2>2. signals' \in Nat
    <3>1. signals' \in 0 .. MaxSignals
      BY <1>2, Zenon DEF PromptTypes
    <3> QED
      BY <3>1
  <2>3. NotReading'
    BY <1>2, <2>1, <2>2, Zenon DEF PromptTypes, NotReading
  <2> QED
    BY <2>3, IdleRead, PTL
<1> QED
  BY <1>1, <1>2, <1>3

LEMMA RedactingTypes ==
  ASSUME TypeInv, Redacting
  PROVE  TypeInv'
PROOF
<1> USE DEF TypeInv
<1>1. WorldTypes' /\ NoRead'
  BY DEF Redacting, WorldTypes, NoRead, files, choices
<1>2. ReadInv'
  BY NextReads DEF Redacting
<1>3. signals' = signals \/ (signals > 0 /\ signals' = signals - 1)
  BY DEF Redacting, R!Next, R!Begin, R!Streaming, R!Start, R!Notify, R!Decode, R!Emit,
         R!Flush, R!Copy, R!Wait, R!Exit, R!Forward, R!Kubectl, R!ChildWrite, R!ChildEnd,
         R!ChildFail, R!Signal, R!FillDisk, R!handler
<1>4. signals' \in 0 .. MaxSignals
  BY <1>3, SignalsLeft
<1>5. /\ notified' \in BOOLEAN /\ buffered' \in BOOLEAN
      /\ process' \in {"running", "exited", "killed", "kubectl"}
  BY <1>2, Zenon DEF ReadInv, R!GetTypeOK
<1>6. main' = main /\ watcher' = watcher /\ closed' = closed /\ decided' = decided
      /\ outcome' = outcome
  BY DEF Redacting, promptOnly
<1>7. /\ main' \in {"notify", "preview", "prompt", "claim", "stop", "close", "answered",
                    "reason", "unjustified", "confirmed", "exec", "exit", "blocked"}
      /\ watcher' \in {"unborn", "select", "claim", "interrupted", "exit", "gone"}
      /\ closed' \in BOOLEAN /\ decided' \in {"nobody", "main", "watcher"}
      /\ outcome' \in {"none", "approved", "declined", "timed out"}
  BY <1>6, Zenon DEF PromptTypes
<1>8. PromptTypes'
  BY <1>4, <1>5, <1>7, Zenon DEF PromptTypes
<1> QED
  BY <1>1, <1>2, <1>8

LEMMA NextTypes == TypeInv /\ [Next]_vars => TypeInv'
PROOF
<1> SUFFICES ASSUME TypeInv, [Next]_vars PROVE TypeInv'
  OBVIOUS
<1>1. CASE UNCHANGED vars
  <2>1. /\ UNCHANGED <<stage, system, user, verdict, policy, upsets, output>>
        /\ UNCHANGED <<main, watcher, closed, decided, outcome>>
        /\ UNCHANGED <<step, child, sent, taken, settled, emitted, accepts, failed, status>>
        /\ UNCHANGED <<notified, buffered, process, signals>>
    BY <1>1 DEF vars, files, choices, promptOnly, readOnly, handler
  <2>2. WorldTypes' /\ NoRead'
    BY <2>1 DEF TypeInv, WorldTypes, NoRead, R!Idle
  <2>3. PromptTypes'
    <3>1. /\ main' = main /\ watcher' = watcher /\ closed' = closed /\ decided' = decided
          /\ outcome' = outcome /\ notified' = notified /\ buffered' = buffered
          /\ process' = process /\ signals' = signals
      BY <2>1
    <3>2. PromptTypes
      BY DEF TypeInv
    <3>3. /\ notified' \in BOOLEAN /\ buffered' \in BOOLEAN /\ closed' \in BOOLEAN
          /\ signals' \in 0 .. MaxSignals
      BY <3>1, <3>2, Zenon DEF PromptTypes
    <3>4. /\ main' \in {"notify", "preview", "prompt", "claim", "stop", "close", "answered",
                        "reason", "unjustified", "confirmed", "exec", "exit", "blocked"}
          /\ watcher' \in {"unborn", "select", "claim", "interrupted", "exit", "gone"}
      BY <3>1, <3>2, Zenon DEF PromptTypes
    <3>5. /\ decided' \in {"nobody", "main", "watcher"}
          /\ outcome' \in {"none", "approved", "declined", "timed out"}
          /\ process' \in {"running", "exited", "killed", "kubectl"}
      BY <3>1, <3>2, Zenon DEF PromptTypes
    <3> QED
      BY <3>3, <3>4, <3>5, Zenon DEF PromptTypes
  <2>4. StepInv'
    BY <2>1, StreamKept DEF TypeInv, ReadInv, R!AtEOF
  <2>5. ChildInv' /\ R!GetTypeOK'
    BY <2>1 DEF TypeInv, ReadInv, ChildInv, R!GetTypeOK
  <2> QED
    BY <2>2, <2>3, <2>4, <2>5 DEF TypeInv, ReadInv
<1> QED
  BY <1>1, DecidingTypes, PromptingTypes, RedactingTypes DEF Next

\* Every variable of an invocation keeps to its values, the read's counts to each
\* other, and the log to the entries that the guard writes.
THEOREM TypeCorrect == Spec => []TypeOK
PROOF
<1>1. TypeInv /\ RunInv => TypeOK
  <2> SUFFICES ASSUME TypeInv, RunInv PROVE TypeOK
    OBVIOUS
  <2>1. floor \in {"free", "enforced", "broken"}
    BY DEF RunInv, FloorInv, FloorStages
  <2>2. args \in Args /\ log \in Seq(Entry) /\ justification \in C!Justifications
    BY DEF RunInv, RunTypes
  <2>3. [timed |-> policy.timed, justify |-> policy.justify, flag |-> args.reason,
         audits |-> policy.audit # "none"] \in C!Modes
    BY <2>2 DEF TypeInv, WorldTypes, Policies, Args, C!Modes
  <2>4. C!PromptTypeOK
    BY <2>2, <2>3 DEF TypeInv, PromptTypes, C!PromptTypeOK
  <2> QED
    BY <2>1, <2>2, <2>4 DEF TypeInv, WorldTypes, ReadInv, TypeOK
<1> QED
  BY InitTypes, NextTypes, InitRuns, NextRuns, <1>1, PTL DEF Spec

(***************************************************************************)
(* A redacted read ends with kubectl's status and not before kubectl, and  *)
(* delivers what kubectl wrote, in order and once, unless a YAML document  *)
(* after a good one is malformed; what is passed on as it came follows a   *)
(* complaint of the parser.  The outputs are any, but for JSON of several  *)
(* documents.                                                              *)
(***************************************************************************)
THEOREM ReadHolds == Spec => []ReadIsFaithful
PROOF
<1>1. ReadInv => R!StatusIsKubectls
  BY DEF ReadInv, ChildInv, R!StatusIsKubectls, R!StatusOf, R!Ends
<1>2. ASSUME ReadInv
      PROVE  sent \in Nat /\ taken \in Nat /\ taken <= sent /\ sent <= Len(output.chunks)
  BY <1>2, OutputsAre DEF ReadInv, R!GetTypeOK
<1>3. ASSUME ReadInv, SpoiledLater PROVE R!MalformedLater
  <2>1. \A i \in 1 .. taken : i \in 1 .. sent
    BY <1>2, <1>3
  <2> QED
    BY <1>3, <2>1 DEF SpoiledLater, CutShort, R!MalformedLater, Doc
<1>4. ASSUME ReadInv, ~R!MalformedLater PROVE R!NothingDropped
  <2> SUFFICES ASSUME R!Over
               PROVE  [i \in DOMAIN emitted |-> emitted[i].chunk] = [i \in 1 .. sent |-> i]
    BY DEF R!NothingDropped
  <2>1. InOrder /\ settled = taken /\ (R!AtEOF \/ taken = Len(output.chunks))
    BY <1>3, <1>4 DEF ReadInv, StepInv, AtEnd, R!Over
  <2>2. settled = sent
    BY <1>2, <1>4, <2>1, OutputsAre DEF R!AtEOF, ReadInv, R!GetTypeOK
  <2>3. DOMAIN emitted = 1 .. sent
    BY <1>4, <2>1, <2>2 DEF InOrder, ReadInv, R!GetTypeOK
  <2> QED
    BY <2>1, <2>2, <2>3 DEF InOrder
<1>5. ASSUME ReadInv, Spoiled
      PROVE  \E j \in 1 .. sent : ~R!Chunk(j).sound \/ ~R!Whole(j)
  <2>1. CASE \E j \in 1 .. taken : ~R!Chunk(j).sound
    BY <1>2, <1>5, <2>1
  <2>2. CASE CutShort
    <3>1. sent \in 1 .. sent /\ \A j \in sent .. sent : j = sent
      BY <1>2, <1>5, <2>2 DEF CutShort
    <3>2. ~R!Whole(sent)
      BY <2>2, <3>1 DEF CutShort, R!Whole
    <3> QED
      BY <3>1, <3>2
  <2> QED
    BY <1>5, <2>1, <2>2 DEF Spoiled
<1>6. ReadInv => ReadIsFaithful
  BY <1>1, <1>4, <1>5 DEF ReadInv, StepInv, RawInv, Raw, R!ReadDelivered, ReadIsFaithful
<1>7. TypeInv => ReadIsFaithful
  BY <1>6 DEF TypeInv
<1> QED
  BY InitTypes, NextTypes, <1>7, PTL DEF Spec
======================================================================================
