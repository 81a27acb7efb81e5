-------------------------------- MODULE AuditLog --------------------------------
(***************************************************************************)
(* The local audit log (guard/audit.go, appendAuditFile): processes that   *)
(* append one entry each, under the flock on <log>.lock, with size-based   *)
(* rotation into <log>.1, <log>.2, ... and a hash chain through the        *)
(* entries of a file.  A process may be killed between two system calls,   *)
(* a write may be cut short, and the calls whose errors the code drops     *)
(* (Stat, Glob, Remove, Rename, and what reads the last line) may fail.    *)
(***************************************************************************)
EXTENDS Naturals, FiniteSets, SequencesExt

CONSTANTS
  Writers,   \* the appending processes; an entry and its hash go by the writer
  None,      \* "" where a hash is expected; no writer
  Capacity,  \* audit_max_size_mb, in lines
  MaxKeep,   \* bound: the largest audit_max_files
  MaxUpsets  \* bound: kills, short writes, failed calls and changes of audit_max_files

ASSUME AuditAssumption ==
  /\ None \notin Writers
  /\ Capacity \in Nat \ {0}
  /\ MaxKeep \in Nat \ {0}
  /\ MaxUpsets \in Nat

VARIABLES
  log,      \* the lines of <log>; <<>> when there is no such file
  archive,  \* archive[i]: the lines of <log>.i; <<>> when there is no such file
  keep,     \* audit_max_files in the config; 0 when rotation is off
  lock,     \* who holds the flock, or None
  pc,       \* the next step of each writer
  plan,     \* audit_max_files as the writer loaded it
  shift,    \* the archive the writer renames next
  tip,      \* what lastLineHash returned
  result,   \* what AppendAudit returned: "none", "ok" or "error"
  upsets,
  torn,     \* history: how many writes were cut short
  slips,    \* history: what failed under each writer without its noticing
  evicted,  \* history: entries of the archives that retention removed
  clobbered \* history: entries of the archives that a rename replaced, in a
            \* rotation of which an earlier call had failed

files == <<log, archive>>
gone == <<evicted, clobbered>>
vars == <<files, keep, lock, pc, plan, shift, tip, result, upsets, torn, slips, gone>>

(***************************************************************************)
(* A line is a chained entry; a legacy one, from before the chain; one     *)
(* whose newline is missing, readable ("cut") or not ("torn"); or what is  *)
(* left when somebody appended to such a line ("garbage").                 *)
(***************************************************************************)
Line == [kind : {"entry", "legacy", "cut", "torn", "garbage"},
         hash : Writers \cup {None}, prev : Writers \cup {None}]

Unchained(kind) == [kind |-> kind, hash |-> None, prev |-> None]

Archives == 1 .. MaxKeep

\* Type invariant.
TypeOK ==
  /\ log \in Seq(Line)
  /\ archive \in [Archives -> Seq(Line)]
  /\ keep \in 0 .. MaxKeep
  /\ lock \in Writers \cup {None}
  /\ pc \in [Writers -> {"idle", "lock", "size", "evict", "shift", "move", "tip", "write",
                         "done", "killed"}]
  /\ plan \in [Writers -> 0 .. MaxKeep]
  /\ shift \in [Writers -> 0 .. MaxKeep]
  /\ tip \in [Writers -> Writers \cup {None}]
  /\ result \in [Writers -> {"none", "ok", "error"}]
  /\ upsets \in 0 .. MaxUpsets
  /\ torn \in 0 .. MaxUpsets
  /\ slips \in [Writers -> SUBSET {"tip", "remove", "rename"}]
  /\ evicted \in SUBSET Writers /\ clobbered \in SUBSET Writers

Init ==
  /\ log \in {<<>>, <<Unchained("legacy")>>}
  /\ archive = [i \in Archives |-> <<>>]
  /\ keep \in 0 .. MaxKeep
  /\ lock = None
  /\ pc = [w \in Writers |-> "idle"]
  /\ plan = [w \in Writers |-> 0]
  /\ shift = [w \in Writers |-> 0]
  /\ tip = [w \in Writers |-> None]
  /\ result = [w \in Writers |-> "none"]
  /\ upsets = MaxUpsets
  /\ torn = 0
  /\ slips = [w \in Writers |-> {}]
  /\ evicted = {} /\ clobbered = {}

At(w, step) == pc[w] = step
Goto(w, step) == pc' = [pc EXCEPT ![w] = step]
Upset == upsets > 0 /\ upsets' = upsets - 1

\* A call fails, its error is dropped, and the writer goes on; or none does.
Slip(w, call) == Upset /\ slips' = [slips EXCEPT ![w] = @ \cup {call}]
NoSlip == UNCHANGED <<upsets, slips>>

-----------------------------------------------------------------------------
(***************************************************************************)
(* Pure parts.                                                             *)
(***************************************************************************)
Readable(line) == line.kind \in {"entry", "cut", "legacy"}
Open(line) == line.kind \in {"cut", "torn"}

\* lastLineHash: "" for no file, a last line that does not parse, a legacy one; and for
\* one that cannot be read (ReadTip).
LastLineHash(lines) == IF lines = <<>> THEN None ELSE Last(lines).hash

\* f.Write at the end of the file: after a line without a newline the bytes join it.
Joined(lines, line) ==
  IF lines # <<>> /\ Open(Last(lines))
    THEN Append(Front(lines), Unchained(IF Open(line) THEN "torn" ELSE "garbage"))
    ELSE Append(lines, line)

\* VerifyAuditLog on one file, the first and any later break: a line that does not
\* parse, an unchained one after the chain began, or one that does not link to the line
\* before.  That hashes fit contents is not in question here.
Before(lines, i) == IF i > 1 THEN lines[i - 1].hash ELSE None
Breaks(lines) ==
  {i \in DOMAIN lines :
     \/ ~Readable(lines[i])
     \/ lines[i].kind = "legacy" /\ \E j \in 1 .. i - 1 : lines[j].kind # "legacy"
     \/ lines[i].kind # "legacy" /\ lines[i].prev # Before(lines, i)}

HashesOf(lines) == {lines[i].hash : i \in DOMAIN lines} \ {None}

-----------------------------------------------------------------------------
\* AppendAudit, up to the lock.
Begin(w) ==
  /\ At(w, "idle")
  /\ plan' = [plan EXCEPT ![w] = keep]
  /\ Goto(w, "lock")
  /\ UNCHANGED <<files, keep, lock, shift, tip, result, upsets, torn, slips, gone>>

\* Faulty variant of Acquire: no lock, as on Windows.
AcquireShared(w) ==
  /\ At(w, "lock")
  /\ Goto(w, "size")
  /\ UNCHANGED <<files, keep, lock, plan, shift, tip, result, upsets, torn, slips, gone>>

\* flock(LOCK_EX), which blocks.
Acquire(w) ==
  /\ At(w, "lock") /\ lock = None
  /\ lock' = w
  /\ Goto(w, "size")
  /\ UNCHANGED <<files, keep, plan, shift, tip, result, upsets, torn, slips, gone>>

\* Faulty variant of Size: rotation is not off when audit_max_files is 0.
SizeWhenOff(w) ==
  /\ At(w, "size")
  /\ Goto(w, IF log # <<>> /\ Len(log) + 1 > Capacity THEN "evict" ELSE "tip")
  /\ UNCHANGED <<files, keep, lock, plan, shift, tip, result, upsets, torn, slips, gone>>

\* maybeRotateAudit; a Stat that fails is taken for a log that is not there.
Size(w) ==
  /\ At(w, "size")
  /\ \/ /\ Goto(w, IF plan[w] > 0 /\ log # <<>> /\ Len(log) + 1 > Capacity
                    THEN "evict" ELSE "tip")
        /\ UNCHANGED upsets
     \/ Upset /\ Goto(w, "tip")
  /\ UNCHANGED <<files, keep, lock, plan, shift, tip, result, torn, slips, gone>>

\* Faulty variant of Evict: only the archive that the shift would overwrite goes.
EvictLast(w) ==
  /\ At(w, "evict")
  /\ archive' = [archive EXCEPT ![plan[w]] = <<>>]
  /\ evicted' = evicted \cup HashesOf(archive[plan[w]])
  /\ Goto(w, "shift")
  /\ shift' = [shift EXCEPT ![w] = plan[w] - 1]
  /\ NoSlip
  /\ UNCHANGED <<log, keep, lock, plan, tip, result, torn, clobbered>>

\* removeArchivesFrom: the archives from plan[w] on, in the order of their names, which
\* is not that of their numbers.  Glob may list none, and any Remove may fail: whichever
\* archives are then left, the shift follows.
Stale(w) == {i \in Archives : i >= plan[w] /\ archive[i] # <<>>}

Evict(w) ==
  /\ At(w, "evict")
  /\ \/ \E i \in Stale(w) :
          /\ archive' = [archive EXCEPT ![i] = <<>>]
          /\ evicted' = evicted \cup HashesOf(archive[i])
          /\ NoSlip /\ UNCHANGED <<pc, shift>>
     \/ /\ \/ Stale(w) = {} /\ NoSlip
           \/ Stale(w) # {} /\ Slip(w, "remove")
        /\ Goto(w, "shift")
        /\ shift' = [shift EXCEPT ![w] = plan[w] - 1]
        /\ UNCHANGED <<archive, evicted>>
  /\ UNCHANGED <<log, keep, lock, plan, tip, result, torn, clobbered>>

\* rename(2) replaces <log>.i, which only a call that failed has left there.
Replaces(w, i) ==
  clobbered' = IF slips[w] = {} THEN clobbered ELSE clobbered \cup HashesOf(archive[i])

\* Faulty variant of Shift: archives are copied, not renamed.
ShiftCopies(w) ==
  LET i == shift[w] IN
  /\ At(w, "shift") /\ NoSlip
  /\ \/ /\ i >= 1
        /\ archive' = IF archive[i] = <<>> THEN archive ELSE [archive EXCEPT ![i + 1] = archive[i]]
        /\ shift' = [shift EXCEPT ![w] = i - 1]
        /\ UNCHANGED pc
     \/ i = 0 /\ Goto(w, "move") /\ UNCHANGED <<archive, shift>>
  /\ UNCHANGED <<log, keep, lock, plan, tip, result, torn, gone>>

\* rotateAudit: <log>.i becomes <log>.(i + 1), the oldest first; an absent archive, and
\* one that Rename fails on, stays as it is, and the next one follows ...
Shift(w) ==
  LET i == shift[w] IN
  /\ At(w, "shift")
  /\ \/ /\ i >= 1
        /\ \/ /\ archive[i] # <<>> /\ NoSlip
              /\ archive' = [archive EXCEPT ![i + 1] = archive[i], ![i] = <<>>]
              /\ Replaces(w, i + 1)
           \/ /\ \/ archive[i] = <<>> /\ NoSlip
                 \/ archive[i] # <<>> /\ Slip(w, "rename")
              /\ UNCHANGED <<archive, clobbered>>
        /\ shift' = [shift EXCEPT ![w] = i - 1]
        /\ UNCHANGED pc
     \/ i = 0 /\ Goto(w, "move") /\ NoSlip /\ UNCHANGED <<archive, shift, clobbered>>
  /\ UNCHANGED <<log, keep, lock, plan, tip, result, torn, evicted>>

\* ... and <log> becomes <log>.1, or stays, and the entry goes there.
Move(w) ==
  /\ At(w, "move")
  /\ \/ /\ archive' = [archive EXCEPT ![1] = log] /\ log' = <<>>
        /\ Replaces(w, 1) /\ NoSlip
     \/ Slip(w, "rename") /\ UNCHANGED <<files, clobbered>>
  /\ Goto(w, "tip")
  /\ UNCHANGED <<keep, lock, plan, shift, tip, result, torn, evicted>>

\* readLastLine returns nil on any error, and the chain starts over.
ReadTip(w) ==
  /\ At(w, "tip")
  /\ \/ tip' = [tip EXCEPT ![w] = LastLineHash(log)] /\ NoSlip
     \/ tip' = [tip EXCEPT ![w] = None] /\ Slip(w, "tip")
  /\ Goto(w, "write")
  /\ UNCHANGED <<files, keep, lock, plan, shift, result, torn, gone>>

\* The deferred unlock, and the return.
Return(w, value) ==
  /\ result' = [result EXCEPT ![w] = value]
  /\ lock' = None
  /\ Goto(w, "done")

\* Faulty variant of Write: a short write is reported as success.
WriteUnchecked(w) ==
  LET Bytes(kind) == [kind |-> kind, hash |-> w, prev |-> tip[w]] IN
  /\ At(w, "write") /\ Return(w, "ok")
  /\ \/ log' = Joined(log, Bytes("entry")) /\ UNCHANGED <<upsets, torn>>
     \/ /\ Upset /\ torn' = torn + 1
        /\ log' = Joined(log, Unchained("torn"))
  /\ UNCHANGED <<archive, keep, plan, shift, tip, slips, gone>>

\* One write system call: the whole line, or part of it and an error.
Write(w) ==
  LET Bytes(kind) == [kind |-> kind, hash |-> w, prev |-> tip[w]] IN
  /\ At(w, "write")
  /\ \/ /\ log' = Joined(log, Bytes("entry"))
        /\ Return(w, "ok")
        /\ UNCHANGED <<upsets, torn>>
     \/ /\ Upset /\ torn' = torn + 1
        /\ log' \in {Joined(log, Bytes("cut")), Joined(log, Unchained("torn"))}
        /\ Return(w, "error")
  /\ UNCHANGED <<archive, keep, plan, shift, tip, slips, gone>>

\* The lock file or the log cannot be opened.
OpenFails(w) ==
  /\ pc[w] \in {"lock", "write"} /\ Upset
  /\ result' = [result EXCEPT ![w] = "error"]
  /\ lock' = IF lock = w THEN None ELSE lock
  /\ Goto(w, "done")
  /\ UNCHANGED <<files, keep, plan, shift, tip, torn, slips, gone>>

\* Faulty variant of Kill: the lock outlives its holder, as a lock file would.
KillLocked(w) ==
  /\ pc[w] \notin {"idle", "done", "killed"} /\ Upset
  /\ Goto(w, "killed")
  /\ UNCHANGED <<files, keep, lock, plan, shift, tip, result, torn, slips, gone>>

\* A writer is killed; the system releases its flock.
Kill(w) ==
  /\ pc[w] \notin {"idle", "done", "killed"} /\ Upset
  /\ lock' = IF lock = w THEN None ELSE lock
  /\ Goto(w, "killed")
  /\ UNCHANGED <<files, keep, plan, shift, tip, result, torn, slips, gone>>

\* `config audit-rotate': it concerns the writers that load the config later.
ChangeKeep ==
  /\ Upset
  /\ \E k \in 0 .. MaxKeep : k # keep /\ keep' = k
  /\ UNCHANGED <<files, lock, pc, plan, shift, tip, result, torn, slips, gone>>

Work(w) ==
  \/ Acquire(w) \/ Size(w) \/ Evict(w) \/ Shift(w) \/ Move(w) \/ ReadTip(w) \/ Write(w)

Next ==
  \/ \E w \in Writers : Begin(w) \/ Work(w) \/ OpenFails(w) \/ Kill(w)
  \/ ChangeKeep

Spec == Init /\ [][Next]_vars

\* A process that runs is scheduled, and flock is granted when it is free.
FairSpec == Spec /\ \A w \in Writers : WF_vars(Work(w))

-----------------------------------------------------------------------------
Misread == {w \in Writers : "tip" \in slips[w]}

(***************************************************************************)
(* A file verifies, but for what a failed call explains: the line that a   *)
(* short write spoiled, and the line of a writer that could not read the   *)
(* last one.  However many processes append, rotate and are killed on the  *)
(* way, nothing else breaks a chain, and behind a spoiled line it starts   *)
(* over cleanly (audit.go, lastLineHash: otherwise "the chain would        *)
(* silently restart, and verify would falsely report a break on an         *)
(* untouched log").                                                        *)
(***************************************************************************)
Excused(line) == line.hash \in Misread \/ (torn > 0 /\ ~Readable(line))
OnlyExcused(lines) == \A i \in Breaks(lines) : Excused(lines[i])
ChainsIntact == OnlyExcused(log) /\ \A i \in Archives : OnlyExcused(archive[i])

Stored(w) ==
  \/ w \in HashesOf(log)
  \/ \E i \in Archives : w \in HashesOf(archive[i])

(***************************************************************************)
(* An append that returned nil is on file, unless retention removed it, or *)
(* a rotation that went on after a failed call replaced the archive it was *)
(* in; a write cut short costs at most one such entry, the one that joins  *)
(* its line.  So a rotation of which no call fails replaces nothing.       *)
(***************************************************************************)
Lost == {w \in Writers : result[w] = "ok" /\ ~Stored(w) /\ w \notin evicted \cup clobbered}
SuccessIsStored == Cardinality(Lost) <= torn

(***************************************************************************)
(* Whoever finished a rotation and could remove what it had to, left no    *)
(* more archives than audit_max_files, also after that number was lowered  *)
(* (rotateAudit: "the latter left behind when a larger max_files was       *)
(* previously in effect"), after rotations that were killed, and after     *)
(* ones that could not remove or rename an archive.                        *)
(***************************************************************************)
RetentionHolds ==
  \A w \in Writers :
    lock = w /\ pc[w] = "move" /\ "remove" \notin slips[w]
      => \A i \in Archives : i > plan[w] => archive[i] = <<>>

(***************************************************************************)
(* Refinement: the archives, oldest first, and the log are a trail.        *)
(***************************************************************************)
Lines == FlattenSeq([i \in Archives |-> archive[MaxKeep + 1 - i]]) \o log
EntryHashes ==
  LET entries == SelectSeq(Lines, LAMBDA line : line.hash # None)
  IN [i \in DOMAIN entries |-> entries[i].hash]

Trail == INSTANCE AuditTrail WITH trail <- EntryHashes

\* Rotation reorders, duplicates and alters nothing.
ImplementsTrail == Trail!Spec

(***************************************************************************)
(* Nobody waits for ever: whoever asks for the lock ends, even if a holder *)
(* was killed.                                                             *)
(***************************************************************************)
AppendEnds == \A w \in Writers : pc[w] = "lock" ~> pc[w] \in {"done", "killed"}

=================================================================================
