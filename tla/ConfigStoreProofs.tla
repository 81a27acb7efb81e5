---------------------------- MODULE ConfigStoreProofs ----------------------------
(***************************************************************************)
(* Theorems about ConfigStore, for any number of editors and any number of *)
(* kills, failing writes and spoilt files.                                 *)
(***************************************************************************)
EXTENDS ConfigStore, SequenceTheorems, TLAPS

LEMMA InitTyping == Init => TypeOK
BY ConfigAssumption DEF Init, TypeOK, Files, Holding, Configs

LEMMA OnDiskType ==
  ASSUME TypeOK
  PROVE  OnDisk(file) \in Configs
BY DEF TypeOK, Files, OnDisk, Configs, Defaults, Protections

LEMMA AuditType ==
  ASSUME TypeOK, NEW e \in Editors, NEW policy, NEW declined \in BOOLEAN,
         Audit(e, policy, declined)
  PROVE  /\ log' \in Seq(Entry) /\ dropped' \in SUBSET Editors
         /\ upsets' \in 0 .. MaxUpsets
PROOF
<1> DEFINE entry == [editor |-> e, losses |-> Losses(old[e], wanted[e]), declined |-> declined]
<1>1. entry \in Entry
  BY DEF TypeOK, Entry, Losses, Configs
<1> HIDE DEF entry
<1>2. Append(log, entry) \in Seq(Entry)
  BY <1>1, AppendProperties DEF TypeOK
<1>3. /\ log' = log \/ log' = Append(log, entry)
      /\ dropped' = dropped \/ dropped' = dropped \cup {e}
      /\ upsets' = upsets \/ Upset
  BY DEF Audit, entry
<1>4. log' \in Seq(Entry)
  BY <1>2, <1>3 DEF TypeOK
<1>5. dropped' \in SUBSET Editors
  BY <1>3 DEF TypeOK
<1>6. upsets' \in 0 .. MaxUpsets
  BY <1>3, ConfigAssumption DEF TypeOK, Upset
<1> QED
  BY <1>4, <1>5, <1>6

LEMMA EditTyping ==
  ASSUME TypeOK, NEW e \in Editors, Edit(e) \/ Kill(e)
  PROVE  TypeOK'
PROOF
<1>0. OnDisk(file) \in Configs /\ command[e] \in Commands
  BY OnDiskType DEF TypeOK
<1>a. UNCHANGED <<log, history, upsets>> =>
        /\ log' \in Seq(Entry) /\ dropped' \in SUBSET Editors /\ stale' \in SUBSET Editors
        /\ overtaken' \in SUBSET Editors /\ upsets' \in 0 .. MaxUpsets
  BY DEF TypeOK, history
<1> USE DEF At, Goto
<1>1. CASE LoadAndEdit(e)
  <2>1. Edited(command[e], OnDisk(file)) \in Configs \/ command[e].verb \notin {"add", "remove"}
    BY <1>0 DEF Commands, Edited, Configs
  <2> QED
    BY <1>1, <1>a, <2>1 DEF LoadAndEdit, TypeOK, history
<1>2. CASE BuildFresh(e) \/ Bootstrap(e)
  <2>1. Fresh \subseteq Configs
    BY DEF Fresh, Defaults, Configs, Protections
  <2> QED
    BY <1>2, <1>a, <2>1 DEF BuildFresh, Bootstrap, TypeOK, history
<1>3. CASE Compare(e)
  BY <1>0, <1>3, <1>a DEF Compare, TypeOK, history
<1>4. CASE Approve(e)
  <2>1. Losses(old[e], wanted[e]) \in Configs
    BY DEF TypeOK, Losses, Configs
  <2> QED
    BY <1>4, <1>a, <2>1 DEF Approve, TypeOK, history
<1>5. CASE Decline(e)
  BY <1>5, AuditType DEF Decline, TypeOK
<1>6. CASE Record(e)
  BY <1>6, AuditType DEF Record, TypeOK
<1>7. CASE WriteTemp(e) \/ Kill(e)
  <2>1. upsets' \in 0 .. MaxUpsets
    BY <1>7, ConfigAssumption DEF WriteTemp, Kill, Upset, TypeOK
  <2> QED
    BY <1>7, <2>1 DEF WriteTemp, Kill, Upset, TypeOK, history
<1>8. CASE Rename(e)
  <2>1. file' \in Files
    BY <1>8 DEF Rename, Holding, Files, TypeOK
  <2> QED
    BY <1>8, <2>1 DEF Rename, Overtake, TypeOK
<1> QED
  BY <1>1, <1>2, <1>3, <1>4, <1>5, <1>6, <1>7, <1>8 DEF Edit

LEMMA TypingStep == TypeOK /\ [Next]_vars => TypeOK'
PROOF
<1> SUFFICES ASSUME TypeOK, [Next]_vars PROVE TypeOK'
  OBVIOUS
<1>1. CASE Spoil
  BY <1>1, ConfigAssumption DEF Spoil, Upset, Overtake, TypeOK, Files
<1>2. CASE UNCHANGED vars
  BY <1>2 DEF vars, history, TypeOK
<1> QED
  BY <1>1, <1>2, EditTyping DEF Next

\* The state has the types that it is declared with.
THEOREM TypeCorrect == Spec => []TypeOK
BY InitTyping, TypingStep, PTL DEF Spec

-----------------------------------------------------------------------------
(***************************************************************************)
(* What an editor knows, as long as nobody saved since it last looked: the *)
(* config on disk is the one that it compared its own with, and the one it *)
(* made its own from.                                                      *)
(***************************************************************************)
Compared == {"confirm", "record", "write", "rename"}

Knows(e) ==
  /\ command[e].verb = "bootstrap" => pc[e] \notin {"compare", "confirm", "record"}
  /\ pc[e] \in Compared /\ e \notin overtaken =>
       IF command[e].verb = "bootstrap" THEN file.state = "missing" ELSE old[e] = OnDisk(file)
  /\ pc[e] \in Compared \cup {"compare"} /\ e \notin stale =>
       CASE command[e].verb = "bootstrap" -> file.state = "missing"
         [] command[e].verb = "init" -> TRUE
         [] OTHER -> /\ file.state # "invalid"
                     /\ wanted[e] = Edited(command[e], OnDisk(file))

\* What it has asked for, and put on record.
Asked(e) ==
  pc[e] \in {"record", "write", "rename"} /\ command[e].verb # "bootstrap" /\ "gate" \in old[e]
    => Losses(old[e], wanted[e]) \subseteq approved[e]

Recorded(e) ==
  pc[e] \in {"write", "rename"} /\ command[e].verb # "bootstrap" /\ "audit" \in old[e]
    => \/ e \in dropped
       \/ \E i \in DOMAIN log :
            log[i].editor = e /\ ~log[i].declined /\ log[i].losses = Losses(old[e], wanted[e])

EditInv == \A e \in Editors : Knows(e) /\ Asked(e) /\ Recorded(e)

\* An entry that was written is not lost.
LEMMA LogGrows ==
  ASSUME TypeOK, NEW entry, log' = Append(log, entry) \/ log' = log, NEW i \in DOMAIN log
  PROVE  i \in DOMAIN log' /\ log'[i] = log[i]
PROOF
<1>1. Len(log) \in Nat /\ i \in 1 .. Len(log)
  BY LenProperties DEF TypeOK
<1>2. CASE log' = Append(log, entry)
  BY <1>1, <1>2 DEF TypeOK
<1> QED
  BY <1>2

\* A step of somebody else that leaves the file alone changes nothing here.
LEMMA OthersKeep ==
  ASSUME TypeOK, NEW o \in Editors, Knows(o) /\ Asked(o) /\ Recorded(o),
         UNCHANGED <<command, file>>,
         pc'[o] = pc[o], wanted'[o] = wanted[o], old'[o] = old[o], approved'[o] = approved[o],
         \E entry : log' = log \/ log' = Append(log, entry),
         dropped \subseteq dropped', stale \subseteq stale', overtaken \subseteq overtaken'
  PROVE  (Knows(o) /\ Asked(o) /\ Recorded(o))'
PROOF
<1>1. Knows(o)' /\ Asked(o)'
  BY DEF Knows, Asked
<1>2. \A i \in DOMAIN log : i \in DOMAIN log' /\ log'[i] = log[i]
  BY LogGrows
<1>3. Recorded(o)'
  BY <1>2 DEF Recorded
<1> QED
  BY <1>1, <1>3

\* Whoever is under way when the file changes is overtaken.
LEMMA OvertakenKeep ==
  ASSUME TypeOK, NEW o \in Editors, Knows(o) /\ Asked(o) /\ Recorded(o),
         NEW S, o \in S, Overtake(S), pc'[o] = pc[o],
         UNCHANGED <<command, wanted, old, approved, log, dropped>>
  PROVE  (Knows(o) /\ Asked(o) /\ Recorded(o))'
PROOF
<1>1. /\ pc[o] \in Compared => o \in overtaken' /\ o \in stale'
      /\ pc[o] = "compare" => o \in stale'
  BY DEF Overtake, At, Compared
<1>2. Knows(o)'
  BY <1>1 DEF Knows
<1> QED
  BY <1>2 DEF Asked, Recorded

LEMMA EditStep ==
  ASSUME TypeOK, EditInv, NEW e \in Editors, Edit(e) \/ Kill(e)
  PROVE  EditInv'
PROOF
<1> USE DEF At, Goto, Compared
<1>0. /\ pc \in [Editors -> {"load", "compare", "confirm", "record", "write", "rename",
                             "done", "killed"}]
      /\ wanted \in [Editors -> Configs] /\ old \in [Editors -> Configs]
      /\ approved \in [Editors -> Configs]
      /\ command[e] \in Commands
      /\ Knows(e) /\ Asked(e) /\ Recorded(e)
  BY DEF TypeOK, EditInv
<1>1. CASE ~Rename(e)
  <2>1. /\ UNCHANGED <<command, file, stale, overtaken>> /\ dropped \subseteq dropped'
        /\ \E entry : log' = log \/ log' = Append(log, entry)
    BY <1>1 DEF Edit, Kill, LoadAndEdit, BuildFresh, Bootstrap, Compare, Approve, Decline,
                Record, WriteTemp, Audit, history
  <2>2. \A o \in Editors \ {e} : /\ pc'[o] = pc[o] /\ wanted'[o] = wanted[o] /\ old'[o] = old[o]
                                 /\ approved'[o] = approved[o]
    BY <1>0, <1>1 DEF Edit, Kill, LoadAndEdit, BuildFresh, Bootstrap, Compare, Approve, Decline,
                      Record, WriteTemp
  <2>3. \A o \in Editors \ {e} : (Knows(o) /\ Asked(o) /\ Recorded(o))'
    BY <2>1, <2>2, OthersKeep DEF EditInv
  <2>4. (Knows(e) /\ Asked(e) /\ Recorded(e))'
    <3>1. CASE LoadAndEdit(e)
      BY <1>0, <3>1 DEF LoadAndEdit, history, Knows, Asked, Recorded
    <3>2. CASE BuildFresh(e)
      BY <1>0, <3>2 DEF BuildFresh, history, Knows, Asked, Recorded
    <3>3. CASE Bootstrap(e)
      BY <1>0, <3>3 DEF Bootstrap, history, Knows, Asked, Recorded
    <3>4. CASE Compare(e)
      <4>1. /\ old'[e] = OnDisk(file) /\ wanted' = wanted /\ pc'[e] \in {"confirm", "record"}
            /\ pc[e] = "compare" /\ UNCHANGED <<command, file, stale, overtaken>>
            /\ pc'[e] = "record" /\ "gate" \in OnDisk(file) => Losses(OnDisk(file), wanted[e]) = {}
        BY <1>0, <3>4 DEF Compare, history
      <4>2. OnDisk(file)' = OnDisk(file)
        BY <4>1 DEF OnDisk
      <4> QED
        BY <1>0, <4>1, <4>2 DEF Knows, Asked, Recorded
    <3>5. CASE Approve(e)
      BY <1>0, <3>5 DEF Approve, history, Knows, Asked, Recorded
    <3>6. CASE Decline(e) \/ Kill(e)
      <4>1. pc'[e] \in {"done", "killed"}
        BY <1>0, <3>6 DEF Decline, Kill
      <4> QED
        BY <4>1 DEF Knows, Asked, Recorded
    <3>7. CASE Record(e)
      <4>1. /\ pc[e] = "record" /\ pc'[e] = "write"
            /\ UNCHANGED <<command, file, wanted, old, approved, stale, overtaken>>
        BY <1>0, <3>7 DEF Record
      <4>2. Knows(e)' /\ Asked(e)'
        BY <1>0, <4>1 DEF Knows, Asked
      <4>3. "audit" \in old[e] =>
               \/ e \in dropped'
               \/ \E i \in DOMAIN log' :
                    log'[i].editor = e /\ ~log'[i].declined
                      /\ log'[i].losses = Losses(old[e], wanted[e])
        <5> DEFINE entry == [editor |-> e, losses |-> Losses(old[e], wanted[e]),
                             declined |-> FALSE]
        <5>1. "audit" \in old[e] => log' = Append(log, entry) \/ e \in dropped'
          BY <3>7 DEF Record, Audit
        <5>2. entry.editor = e /\ ~entry.declined /\ entry.losses = Losses(old[e], wanted[e])
          OBVIOUS
        <5>3. entry \in Entry
          BY DEF TypeOK, Entry, Losses, Configs
        <5> HIDE DEF entry
        <5>4. log' = Append(log, entry)
                => /\ Len(log) + 1 \in DOMAIN log' /\ log'[Len(log) + 1] = entry
          BY <5>3, AppendProperties, LenProperties DEF TypeOK
        <5> QED
          BY <5>1, <5>2, <5>4
      <4> QED
        BY <4>1, <4>2, <4>3 DEF Recorded
    <3>8. CASE WriteTemp(e)
      BY <1>0, <3>8 DEF WriteTemp, history, Knows, Asked, Recorded
    <3> QED
      BY <1>1, <3>1, <3>2, <3>3, <3>4, <3>5, <3>6, <3>7, <3>8 DEF Edit
  <2> QED
    BY <2>3, <2>4 DEF EditInv
<1>2. CASE Rename(e)
  <2>1. \A o \in Editors \ {e} : (Knows(o) /\ Asked(o) /\ Recorded(o))'
    BY <1>0, <1>2, OvertakenKeep DEF Rename, EditInv
  <2>2. pc'[e] = "done"
    BY <1>0, <1>2 DEF Rename
  <2>3. (Knows(e) /\ Asked(e) /\ Recorded(e))'
    BY <2>2 DEF Knows, Asked, Recorded
  <2> QED
    BY <2>1, <2>3 DEF EditInv
<1> QED
  BY <1>1, <1>2

LEMMA EditInvStep == TypeOK /\ EditInv /\ [Next]_vars => EditInv'
PROOF
<1> SUFFICES ASSUME TypeOK, EditInv, [Next]_vars PROVE EditInv'
  OBVIOUS
<1>1. CASE Spoil
  BY <1>1, OvertakenKeep DEF Spoil, EditInv
<1>2. CASE UNCHANGED vars
  BY <1>2 DEF vars, history, EditInv, Knows, Asked, Recorded
<1> QED
  BY <1>1, <1>2, EditStep DEF Next

\* The file changes by a rename, and by nothing else that leaves a config.
LEMMA FileSteps ==
  ASSUME TypeOK, EditInv, [Next]_vars, file'.state = "config", file' # file
  PROVE  \E e \in Editors :
           /\ Rename(e) /\ Saves(e) /\ Knows(e) /\ Asked(e) /\ Recorded(e)
           /\ file' = Holding(wanted[e]) /\ file'.has = wanted[e]
           /\ \A o \in Editors : Saves(o) => o = e
PROOF
<1>1. ~Spoil /\ ~UNCHANGED vars
  BY DEF Spoil, vars
<1>2. PICK e \in Editors : Edit(e) \/ Kill(e)
  BY <1>1 DEF Next
<1>3. Rename(e)
  BY <1>2 DEF Edit, Kill, LoadAndEdit, BuildFresh, Bootstrap, Compare, Approve, Decline, Record,
              WriteTemp
<1>4. Saves(e) /\ \A o \in Editors : Saves(o) => o = e
  BY <1>3 DEF Rename, Saves, At, Goto, TypeOK
<1> QED
  BY <1>3, <1>4 DEF Rename, Holding, EditInv

\* Whoever saves, changes nothing but the file.
LEMMA SavesAlone ==
  ASSUME TypeOK, EditInv, [Next]_vars, NEW e \in Editors, Saves(e)
  PROVE  /\ Rename(e) /\ Knows(e) /\ Asked(e) /\ Recorded(e)
         /\ file'.state = "config" /\ file'.has = wanted[e]
PROOF
<1>1. pc[e] = "rename" /\ pc'[e] = "done"
  BY DEF Saves, At
<1>2. ~Spoil /\ ~UNCHANGED vars
  BY <1>1 DEF Spoil, vars
<1>3. PICK o \in Editors : Edit(o) \/ Kill(o)
  BY <1>2 DEF Next
<1>4. o = e
  BY <1>1, <1>3 DEF Edit, Kill, LoadAndEdit, BuildFresh, Bootstrap, Compare, Approve, Decline,
                    Record, WriteTemp, Rename, At, Goto, TypeOK
<1>5. Rename(e)
  BY <1>1, <1>3, <1>4 DEF Edit, Kill, LoadAndEdit, BuildFresh, Bootstrap, Compare, Approve,
                          Decline, Record, WriteTemp, At, Goto, TypeOK
<1> QED
  BY <1>5 DEF Rename, Holding, EditInv

LEMMA InitEdits == Init => EditInv
BY DEF Init, EditInv, Knows, Asked, Recorded, Compared

(***************************************************************************)
(* What the gate protects goes only by a confirmed loss, or by an editor   *)
(* that was overtaken after it had compared.                               *)
(***************************************************************************)
THEOREM GateGuards == Spec => GateHolds
PROOF
<1>1. TypeOK /\ EditInv /\ [Next]_vars
        => (Lost # {} /\ "gate" \in file.has
              => \E e \in Editors : Saves(e) /\ (Lost \subseteq approved[e] \/ e \in overtaken))
  <2> SUFFICES ASSUME TypeOK, EditInv, [Next]_vars, Lost # {}, "gate" \in file.has
               PROVE  \E e \in Editors :
                        Saves(e) /\ (Lost \subseteq approved[e] \/ e \in overtaken)
    OBVIOUS
  <2>1. file.state = "config" /\ file'.state = "config" /\ file' # file
        /\ Lost = file.has \ file'.has
    BY DEF Lost
  <2>2. PICK e \in Editors : /\ Rename(e) /\ Saves(e) /\ Knows(e) /\ Asked(e)
                             /\ file'.has = wanted[e]
    BY <2>1, FileSteps
  <2>3. CASE e \notin overtaken
    <3>1. old[e] = file.has /\ command[e].verb # "bootstrap"
      BY <2>1, <2>2, <2>3 DEF Rename, At, Knows, Compared, OnDisk
    <3>2. Losses(old[e], wanted[e]) \subseteq approved[e]
      BY <2>2, <3>1 DEF Rename, At, Asked
    <3> QED
      BY <2>1, <2>2, <3>1, <3>2 DEF Losses
  <2> QED
    BY <2>2, <2>3
<1> QED
  BY <1>1, InitTyping, TypingStep, InitEdits, EditInvStep, PTL DEF Spec, GateHolds

(***************************************************************************)
(* A change is on record, loss by loss, before it takes effect.            *)
(***************************************************************************)
THEOREM RecordFirst == Spec => RecordedBefore
PROOF
<1>1. TypeOK /\ EditInv /\ [Next]_vars
        => (file' # file /\ "audit" \in file.has
              => \A e \in Editors :
                   Saves(e) => \/ e \in dropped \cup overtaken
                               \/ \E i \in DOMAIN log :
                                    log[i].editor = e /\ ~log[i].declined /\ log[i].losses = Lost)
  <2> SUFFICES ASSUME TypeOK, EditInv, [Next]_vars, "audit" \in file.has,
                      NEW e \in Editors, Saves(e), e \notin dropped, e \notin overtaken
               PROVE  \E i \in DOMAIN log :
                        log[i].editor = e /\ ~log[i].declined /\ log[i].losses = Lost
    OBVIOUS
  <2>1. /\ pc[e] = "rename" /\ Knows(e) /\ Recorded(e)
        /\ file'.state = "config" /\ file'.has = wanted[e]
    BY SavesAlone DEF Saves, At
  <2>2. file.state = "config"
    BY DEF TypeOK, Files
  <2>3. old[e] = file.has /\ command[e].verb # "bootstrap"
    BY <2>1, <2>2 DEF Knows, Compared, OnDisk
  <2>4. Lost = Losses(old[e], wanted[e])
    BY <2>1, <2>2, <2>3 DEF Lost, Losses
  <2> QED
    BY <2>1, <2>3, <2>4 DEF Recorded
<1> QED
  BY <1>1, InitTyping, TypingStep, InitEdits, EditInvStep, PTL DEF Spec, RecordedBefore

(***************************************************************************)
(* A subcommand that nobody overtook takes nothing but its own setting off *)
(* the disk.                                                               *)
(***************************************************************************)
THEOREM OwnSettingOnly == Spec => OnlyItsOwn
PROOF
<1>1. TypeOK /\ EditInv /\ [Next]_vars
        => \A e \in Editors :
             Saves(e) /\ e \notin stale /\ command[e].verb \in {"add", "remove"}
               => Lost \subseteq (IF command[e].verb = "remove" THEN {command[e].axis} ELSE {})
  <2> SUFFICES ASSUME TypeOK, EditInv, [Next]_vars, NEW e \in Editors,
                      Saves(e), e \notin stale, command[e].verb \in {"add", "remove"}
               PROVE  Lost \subseteq (IF command[e].verb = "remove" THEN {command[e].axis} ELSE {})
    OBVIOUS
  <2>1. pc[e] = "rename" /\ Knows(e) /\ file'.has = wanted[e]
    BY SavesAlone DEF Saves, At
  <2>2. wanted[e] = Edited(command[e], OnDisk(file))
    BY <2>1 DEF Knows, Compared
  <2> QED
    BY <2>1, <2>2 DEF Lost, OnDisk, Edited
<1> QED
  BY <1>1, InitTyping, TypingStep, InitEdits, EditInvStep, PTL DEF Spec, OnlyItsOwn

(***************************************************************************)
(* A config that does not load is replaced only on request, or by whoever  *)
(* had loaded it before.                                                   *)
(***************************************************************************)
THEOREM InvalidStays == Spec => InvalidIsKept
PROOF
<1>1. TypeOK /\ EditInv /\ [Next]_vars
        => (file.state = "invalid" /\ file'.state = "config"
              => \E e \in Editors : Saves(e) /\ (command[e].verb = "init" \/ e \in stale))
  <2> SUFFICES ASSUME TypeOK, EditInv, [Next]_vars,
                      file.state = "invalid", file'.state = "config"
               PROVE  \E e \in Editors : Saves(e) /\ (command[e].verb = "init" \/ e \in stale)
    OBVIOUS
  <2>1. PICK e \in Editors : Rename(e) /\ Saves(e) /\ Knows(e)
    BY FileSteps
  <2>2. command[e].verb = "init" \/ e \in stale
    BY <2>1 DEF Rename, At, Knows, Compared
  <2> QED
    BY <2>1, <2>2
<1> QED
  BY <1>1, InitTyping, TypingStep, InitEdits, EditInvStep, PTL DEF Spec, InvalidIsKept
==================================================================================
