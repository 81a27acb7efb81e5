------------------------------- MODULE ConfigStore -------------------------------
(***************************************************************************)
(* The user's config file under concurrent edits (main.go, mutateConfig,   *)
(* saveConfig and the `config' subcommands, runFreeze, the bootstrap in    *)
(* runGuard; config.go, Load and Save).  Every editor is a process that    *)
(* loads the file, works out the new config, compares it with what is then *)
(* on disk, asks if that weakens a gated config, records the change and    *)
(* replaces the file.  Nothing locks the file on the way.                  *)
(*                                                                         *)
(* A config is the set of the protections it has switched on; weakening it *)
(* is losing a member.                                                     *)
(***************************************************************************)
EXTENDS Naturals, Sequences

CONSTANTS
  Editors,   \* processes that run one command each
  MaxUpsets  \* bound: kills, failing writes and spoilt files

ASSUME ConfigAssumption == MaxUpsets \in Nat

\* read_only, require_confirm_weakening, audit_mode above off, a protected context.
Protections == {"read_only", "gate", "audit", "context"}
Configs == SUBSET Protections

\* freeze, unfreeze, add-context, audit-mode ...; init and setup; a guarded
\* kubectl that finds no config.
Commands ==
  [verb : {"add", "remove"}, axis : Protections]
    \cup [verb : {"init", "bootstrap"}, axis : {"context"}]

\* What the path holds: nothing, something that is not YAML, or a config.
Files == [state : {"missing", "invalid"}, has : {{}}] \cup [state : {"config"}, has : Configs]
Holding(config) == [state |-> "config", has |-> config]

VARIABLES
  file,      \* the config file
  command,   \* what each editor was called to do
  pc,        \* its next step
  wanted,    \* the config it is going to save
  old,       \* the config it compared that with
  approved,  \* the losses that its operator confirmed
  log,       \* audit entries: who, which losses, and whether declined
  dropped,   \* history: editors whose entry the audit log did not take
  stale,     \* history: editors that somebody overtook after they loaded
  overtaken, \* history: editors that somebody overtook after they compared
  upsets

history == <<dropped, stale, overtaken>>
vars == <<file, command, pc, wanted, old, approved, log, history, upsets>>

Entry == [editor : Editors, losses : Configs, declined : BOOLEAN]

\* Type invariant.
TypeOK ==
  /\ file \in Files
  /\ command \in [Editors -> Commands]
  /\ pc \in [Editors -> {"load", "compare", "confirm", "record", "write", "rename",
                         "done", "killed"}]
  /\ wanted \in [Editors -> Configs]
  /\ old \in [Editors -> Configs]
  /\ approved \in [Editors -> Configs]
  /\ log \in Seq(Entry)
  /\ dropped \in SUBSET Editors
  /\ stale \in SUBSET Editors
  /\ overtaken \in SUBSET Editors
  /\ upsets \in 0 .. MaxUpsets

Init ==
  /\ file \in {[state |-> "missing", has |-> {}]} \cup {Holding(c) : c \in Configs}
  /\ command \in [Editors -> Commands]
  /\ pc = [e \in Editors |-> "load"]
  /\ wanted = [e \in Editors |-> {}]
  /\ old = [e \in Editors |-> {}]
  /\ approved = [e \in Editors |-> {}]
  /\ log = <<>>
  /\ dropped = {} /\ stale = {} /\ overtaken = {}
  /\ upsets = MaxUpsets

At(e, step) == pc[e] = step
Goto(e, step) == pc' = [pc EXCEPT ![e] = step]
Upset == upsets > 0 /\ upsets' = upsets - 1

-----------------------------------------------------------------------------
\* ApplyDefaults on an empty config: everything is audited, nothing protected.
Defaults == {"audit"}

\* currentOnDiskConfig: the defaults stand in for a file that is not there or
\* does not load.
OnDisk(f) == IF f.state = "config" THEN f.has ELSE Defaults

\* WeakensProtection.
Losses(from, to) == from \ to

\* Faulty variant of Edited: the edit starts from an empty config.
EditedAfresh(c, base) ==
  IF c.verb = "add" THEN Defaults \cup {c.axis} ELSE Defaults \ {c.axis}

\* Faulty variant of Edited: the verb is stored instead of the setting.
EditedVerb(c, base) == IF c.verb = "add" THEN base \cup {c.verb} ELSE base \ {c.verb}

\* The change that a subcommand makes to the config it loaded.
Edited(c, base) == IF c.verb = "add" THEN base \cup {c.axis} ELSE base \ {c.axis}

\* InitFromFlags, InitFromEnv, RunSetup: a config made from nothing.
Fresh == {Defaults, Defaults \cup {"context"}}

-----------------------------------------------------------------------------
\* Faulty variant of LoadAndEdit: a file that does not load counts as absent.
LoadLeniently(e) ==
  /\ At(e, "load") /\ command[e].verb \in {"add", "remove"}
  /\ wanted' = [wanted EXCEPT ![e] = Edited(command[e], OnDisk(file))]
  /\ Goto(e, "compare")
  /\ UNCHANGED <<file, command, old, approved, log, history, upsets>>

(***************************************************************************)
(* loadOrCreateConfig and the change.  Adding a pattern that is there, or  *)
(* removing one that is not, ends the command; the other subcommands save  *)
(* whether or not the value is new.                                        *)
(***************************************************************************)
LoadAndEdit(e) ==
  LET new == Edited(command[e], OnDisk(file)) IN
  /\ At(e, "load") /\ command[e].verb \in {"add", "remove"}
  /\ \/ /\ file.state = "invalid"
        /\ Goto(e, "done") /\ UNCHANGED wanted
     \/ /\ file.state # "invalid" /\ command[e].axis = "context" /\ new = OnDisk(file)
        /\ Goto(e, "done") /\ UNCHANGED wanted
     \/ /\ file.state # "invalid" /\ (command[e].axis = "context" => new # OnDisk(file))
        /\ wanted' = [wanted EXCEPT ![e] = new]
        /\ Goto(e, "compare")
  /\ UNCHANGED <<file, command, old, approved, log, history, upsets>>

\* init and setup do not look at the file before saveConfig does.
BuildFresh(e) ==
  /\ At(e, "load") /\ command[e].verb = "init"
  /\ \E c \in Fresh : wanted' = [wanted EXCEPT ![e] = c]
  /\ Goto(e, "compare")
  /\ UNCHANGED <<file, command, old, approved, log, history, upsets>>

\* SetupRequired: the environment, the empty bootstrap or the wizard provide a
\* config, which is saved as it is.  With a config the guard goes on without.
Bootstrap(e) ==
  /\ At(e, "load") /\ command[e].verb = "bootstrap"
  /\ \/ /\ file.state = "missing"
        /\ \E c \in Fresh : wanted' = [wanted EXCEPT ![e] = c]
        /\ Goto(e, "write")
     \/ file.state # "missing" /\ Goto(e, "done") /\ UNCHANGED wanted
  /\ UNCHANGED <<file, command, old, approved, log, history, upsets>>

\* Faulty variant of Compare: the new config decides whether the gate is on.
CompareByNewGate(e) ==
  LET losses == Losses(OnDisk(file), wanted[e]) IN
  /\ At(e, "compare")
  /\ old' = [old EXCEPT ![e] = OnDisk(file)]
  /\ Goto(e, IF losses # {} /\ "gate" \in wanted[e] THEN "confirm" ELSE "record")
  /\ UNCHANGED <<file, command, wanted, approved, log, history, upsets>>

\* saveConfig, up to the prompt.
Compare(e) ==
  LET losses == Losses(OnDisk(file), wanted[e]) IN
  /\ At(e, "compare")
  /\ old' = [old EXCEPT ![e] = OnDisk(file)]
  /\ Goto(e, IF losses # {} /\ "gate" \in OnDisk(file) THEN "confirm" ELSE "record")
  /\ UNCHANGED <<file, command, wanted, approved, log, history, upsets>>

(***************************************************************************)
(* AppendAudit under a policy.  A log that does not take the entry is not  *)
(* noticed.                                                                *)
(***************************************************************************)
Audit(e, policy, declined) ==
  LET entry == [editor |-> e, losses |-> Losses(old[e], wanted[e]), declined |-> declined]
  IN \/ /\ "audit" \in policy
        /\ log' = Append(log, entry)
        /\ UNCHANGED <<dropped, upsets>>
     \/ /\ "audit" \in policy /\ Upset
        /\ dropped' = dropped \cup {e}
        /\ UNCHANGED log
     \/ "audit" \notin policy /\ UNCHANGED <<log, dropped, upsets>>

\* The operator, who may take any time, is shown the losses.
Approve(e) ==
  /\ At(e, "confirm")
  /\ approved' = [approved EXCEPT ![e] = Losses(old[e], wanted[e])]
  /\ Goto(e, "record")
  /\ UNCHANGED <<file, command, wanted, old, log, history, upsets>>

Decline(e) ==
  /\ At(e, "confirm") /\ Audit(e, old[e], TRUE) /\ Goto(e, "done")
  /\ UNCHANGED <<file, command, wanted, old, approved, stale, overtaken>>

\* Faulty variant of Record: the new audit policy decides.
RecordByNewPolicy(e) ==
  /\ At(e, "record") /\ Audit(e, wanted[e], FALSE) /\ Goto(e, "write")
  /\ UNCHANGED <<file, command, wanted, old, approved, stale, overtaken>>

Record(e) ==
  /\ At(e, "record") /\ Audit(e, old[e], FALSE) /\ Goto(e, "write")
  /\ UNCHANGED <<file, command, wanted, old, approved, stale, overtaken>>

\* Save: a temporary file beside the config, and its errors ...
WriteTemp(e) ==
  /\ At(e, "write")
  /\ \/ Goto(e, "rename") /\ UNCHANGED upsets
     \/ Upset /\ Goto(e, "done")
  /\ UNCHANGED <<file, command, wanted, old, approved, log, history>>

\* History: who, of those under way, loaded, and who compared, before the
\* file changes now.
Overtake(others) ==
  LET compared == {o \in others : pc[o] \in {"confirm", "record", "write", "rename"}} IN
  /\ overtaken' = overtaken \cup compared
  /\ stale' = stale \cup compared \cup {o \in others : At(o, "compare")}

\* ... and the rename.
Rename(e) ==
  /\ At(e, "rename") /\ Goto(e, "done")
  /\ file' = Holding(wanted[e])
  /\ Overtake(Editors \ {e})
  /\ UNCHANGED <<command, wanted, old, approved, log, dropped, upsets>>

\* Ctrl-C at the prompt included.
Kill(e) ==
  /\ pc[e] \notin {"done", "killed"} /\ Upset /\ Goto(e, "killed")
  /\ UNCHANGED <<file, command, wanted, old, approved, log, history>>

\* A text editor leaves something that is not YAML.
Spoil ==
  /\ Upset /\ file.state = "config"
  /\ file' = [state |-> "invalid", has |-> {}]
  /\ Overtake(Editors)
  /\ UNCHANGED <<command, pc, wanted, old, approved, log, dropped>>

Edit(e) ==
  \/ LoadAndEdit(e) \/ BuildFresh(e) \/ Bootstrap(e)
  \/ Compare(e) \/ Approve(e) \/ Decline(e) \/ Record(e) \/ WriteTemp(e) \/ Rename(e)

Next == (\E e \in Editors : Edit(e) \/ Kill(e)) \/ Spoil

Spec == Init /\ [][Next]_vars

-----------------------------------------------------------------------------
\* The protections that a step takes off the disk.
Lost == IF file.state = "config" /\ file'.state = "config" THEN file.has \ file'.has ELSE {}
Saves(e) == At(e, "rename") /\ pc'[e] = "done"

(***************************************************************************)
(* require_confirm_weakening: what the gate of the config on disk protects *)
(* goes only after an operator saw that very loss and confirmed it; or by  *)
(* a process that somebody overtook after it had compared.                 *)
(***************************************************************************)
GateHolds ==
  [][Lost # {} /\ "gate" \in file.has
       => \E e \in Editors : Saves(e) /\ (Lost \subseteq approved[e] \/ e \in overtaken)]_vars

(***************************************************************************)
(* A change is on record before it takes effect, under the audit policy it *)
(* replaces, and the entry names exactly what is lost; a log that failed,  *)
(* and an overtaken process, excepted.                                     *)
(***************************************************************************)
RecordedBefore ==
  [][file' # file /\ "audit" \in file.has
       => \A e \in Editors :
            Saves(e) => \/ e \in dropped \cup overtaken
                        \/ \E i \in DOMAIN log :
                             log[i].editor = e /\ ~log[i].declined /\ log[i].losses = Lost]_vars

(***************************************************************************)
(* A subcommand changes its own setting and nothing else: what anybody     *)
(* else had switched on stays, unless somebody saved while it was under    *)
(* way, or it makes a config from nothing.                                 *)
(***************************************************************************)
OnlyItsOwn ==
  [][\A e \in Editors :
       Saves(e) /\ e \notin stale /\ command[e].verb \in {"add", "remove"}
         => Lost \subseteq (IF command[e].verb = "remove" THEN {command[e].axis} ELSE {})]_vars

(***************************************************************************)
(* A config that does not load is not replaced by one made from defaults:  *)
(* only init and setup, which were asked for a new one, write over it, or  *)
(* a process that had loaded before it was spoilt.                         *)
(***************************************************************************)
InvalidIsKept ==
  [][file.state = "invalid" /\ file'.state = "config"
       => \E e \in Editors : Saves(e) /\ (command[e].verb = "init" \/ e \in stale)]_vars

(***************************************************************************)
(* What the comment at saveConfig says without exception: "a change that   *)
(* WEAKENS protection is gated behind an interactive confirmation when     *)
(* require_confirm_weakening is set".  Only a bootstrap saves elsewhere.   *)
(***************************************************************************)
GateIsAbsolute ==
  [][\A e \in Editors :
       Saves(e) /\ command[e].verb # "bootstrap" /\ "gate" \in file.has
         => Lost \subseteq approved[e]]_vars

==================================================================================
