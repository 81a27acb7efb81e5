--------------------------------- MODULE GuardRun ---------------------------------
(***************************************************************************)
(* One invocation of the guard, from main() to the end of the process      *)
(* (main.go, run and runGuard): the bypass and its refusal, the decision,  *)
(* first-run setup, and what each verdict leads to.  The interactive       *)
(* confirmation (Confirm) and the redacted read (RedactedGet) are stages   *)
(* of it, in the same process.  Meanwhile the config files change, and     *)
(* signals come.                                                           *)
(*                                                                         *)
(* Why a verdict is what it is, is the matter of Decision and Layers.      *)
(***************************************************************************)
EXTENDS Naturals, Sequences

CONSTANTS
  MaxSignals,  \* bound: how many signals are sent
  MaxUpsets,   \* bound: how often a config file changes
  Capacity,    \* of the pipe from kubectl (RedactedGet)
  Outputs      \* of a redacted read (RedactedGet)

Verdicts == {"none", "bypass", "setup", "deny", "blocked", "confirm", "allow"}

\* What runGuard asks of the effective config; `audit' is "none" too when the log
\* takes no entry, since its error is dropped.
Policies == [audit : {"all", "gated", "none"}, relay : BOOLEAN, justify : BOOLEAN,
             timed : BOOLEAN, redacts : BOOLEAN]
Lenient == [audit |-> "none", relay |-> FALSE, justify |-> FALSE, timed |-> FALSE,
            redacts |-> FALSE]

\* ... and of the command line and the environment.
Args == [yes : BOOLEAN, reason : {"absent", "blank", "given"}, json : BOOLEAN, safe : BOOLEAN]
Plain == [yes |-> FALSE, reason |-> "absent", json |-> FALSE, safe |-> FALSE]

VARIABLES
  stage,    \* of the invocation
  system,   \* the system config file: "absent", "plain", "enforced" or "broken"
  user,     \* the user's: "absent", "good" or "broken"
  verdict,  \* Check's, or "bypass"
  policy,   \* the config Check returned
  args,     \* what is asked of the command line
  output,   \* what kubectl writes when its output is redacted
  upsets,   \* config changes still to come
  floor     \* the system file, if it was enforced or unreadable all the time, or "free"

\* Of the prompt and the read; notified, buffered, process and signals are theirs
\* together.
VARIABLES main, watcher, closed, decided, outcome, justification, log,
          step, child, sent, taken, settled, emitted, accepts, failed, status,
          notified, buffered, process, signals

C == INSTANCE Confirm WITH
       mode <- [timed |-> policy.timed, justify |-> policy.justify,
                flag |-> args.reason, audits |-> policy.audit # "none"]
R == INSTANCE RedactedGet

ASSUME GuardRunAssumption ==
  /\ MaxSignals \in Nat /\ MaxUpsets \in Nat /\ Capacity \in Nat \ {0}
  /\ Outputs # {}
  /\ \A o \in Outputs :
       /\ R!Qualifies({}, o.format) /\ o.chunks \in Seq(R!Chunks) /\ o.hangs \in BOOLEAN
       /\ o.format = "json" => R!SingleValue(o.chunks)

files == <<system, user, upsets, floor>>
choices == <<verdict, policy, args, output>>
handler == <<notified, buffered, process, signals>>
promptOnly == <<main, watcher, closed, decided, outcome, justification>>
readOnly == <<step, child, sent, taken, settled, emitted, accepts, failed, status>>
vars == <<stage, files, choices, promptOnly, log, readOnly, handler>>

Running == process = "running"

Entry == [outcome : {"bypassed", "denied", "blocked", "aborted", "confirmed",
                     "auto-confirmed", "relayed", "allowed"},
          reason : {"", "bypass-refused", "interrupted", "timeout",
                    "justification-required", "auto-confirm-refused"},
          justification : C!Justifications]

\* Type invariant.
TypeOK ==
  /\ stage \in {"enter", "refused", "bypass", "check", "stop", "setup", "wizard",
                "gated", "prompt", "allowed", "redact", "exec", "failed", "end"}
  /\ system \in {"absent", "plain", "enforced", "broken"}
  /\ user \in {"absent", "good", "broken"}
  /\ verdict \in Verdicts /\ policy \in Policies /\ args \in Args
  /\ upsets \in 0 .. MaxUpsets /\ floor \in {"free", "enforced", "broken"}
  /\ C!PromptTypeOK /\ R!GetTypeOK
  /\ log \in Seq(Entry)

\* Faulty variant of Enforced: only a file that loads can be enforced.
EnforcedIfLoaded(sys) == sys = "enforced"

\* EnforcedSystemConfig fails safe: a file that cannot be read counts as enforced.
Enforced(sys) == sys \in {"enforced", "broken"}

FloorOf(sys) == IF sys \in {"enforced", "broken"} THEN sys ELSE "free"

Init ==
  /\ stage = "enter"
  /\ system \in {"absent", "plain", "enforced", "broken"}
  /\ user \in {"absent", "good", "broken"}
  /\ verdict = "none" /\ policy = Lenient /\ args = Plain
  /\ upsets = MaxUpsets /\ floor = FloorOf(system)
  /\ log = <<>>
  /\ main = "notify" /\ watcher = "unborn" /\ closed = FALSE /\ decided = "nobody"
  /\ outcome = "none" /\ justification = "none"
  /\ R!Idle /\ output = CHOOSE o \in Outputs : TRUE
  /\ notified = FALSE /\ buffered = FALSE /\ process = "running" /\ signals = MaxSignals

-----------------------------------------------------------------------------
\* The stages from which a config file is still read.
Reading == {"enter", "refused", "bypass", "check", "setup"}

\* A step of the one goroutine there is, outside of the prompt and the read.  What
\* is not read any more is forgotten.
Step(from, to) ==
  /\ Running /\ stage = from /\ stage' = to
  /\ IF to \in Reading
       THEN UNCHANGED <<system, user, upsets>>
       ELSE system' = "absent" /\ user' = "absent" /\ upsets' = 0
  /\ UNCHANGED <<main, watcher, closed, decided, outcome, readOnly, floor,
                 notified, buffered, signals>>

\* AppendAudit under the config's audit mode; its error is dropped.
Kept(mode, result) == mode = "all" \/ (mode = "gated" /\ result # "allowed")
Recorded(mode, result, why, reason) ==
  log' = IF Kept(mode, result)
           THEN Append(log, [outcome |-> result, reason |-> why, justification |-> reason])
           ELSE log
Audit(result, why) == Recorded(policy.audit, result, why, justification)

Exit == process' = "exited"

\* KUBECTL_GUARD_BYPASS is looked at first, and refused under an enforced system.
Enter ==
  /\ \/ Step("enter", "check")
     \/ Enforced(system) /\ Step("enter", "refused")
     \/ ~Enforced(system) /\ Step("enter", "bypass")
  /\ UNCHANGED <<choices, justification, log, process>>

\* auditRefusedBypass: an entry, if the effective config loads; then the normal path.
Refused ==
  /\ Step("refused", "check")
  /\ \/ /\ system # "broken" /\ user # "broken" /\ {system, user} # {"absent"}
        /\ \E mode \in {"all", "none"} :
             Recorded(mode, "denied", "bypass-refused", "none")
     \/ /\ system = "broken" \/ user = "broken" \/ {system, user} = {"absent"}
        /\ UNCHANGED log
  /\ UNCHANGED <<choices, justification, process>>

\* runBypass: an entry, if the user's config is there and loads; then kubectl.
Bypass ==
  /\ Step("bypass", "exec") /\ verdict' = "bypass"
  /\ \/ /\ user = "good"
        /\ \E mode \in {"all", "gated", "none"} :
             policy' = [Lenient EXCEPT !.audit = mode]
        /\ Recorded(policy'.audit, "bypassed", "", "none")
     \/ user # "good" /\ UNCHANGED <<policy, log>>
  /\ UNCHANGED <<args, output, justification, process>>

\* The fields of the config that this verdict's branch looks at; "gated" differs from
\* "all" for an allowed command only.
PoliciesFor(result) ==
  CASE result = "confirm" -> {p \in Policies : ~p.redacts /\ p.audit # "gated"}
    [] result = "allow"   -> {p \in Policies : ~p.relay /\ ~p.justify /\ ~p.timed}
    [] OTHER              -> {[Lenient EXCEPT !.audit = mode] : mode \in {"all", "gated", "none"}}

ArgsFor(result) ==
  IF result = "confirm" THEN {a \in Args : ~a.safe /\ ~(a.yes /\ a.json)} ELSE {Plain}

Branch(result) ==
  CASE result = "confirm" -> "gated"
    [] result = "allow" -> "allowed"
    [] OTHER -> "stop"

\* guard.Check: one LoadEffective.  A layer that does not load is a Deny without a
\* config, so without an entry; no layer at all is SetupRequired.
Check ==
  /\ \/ /\ system = "broken" \/ user = "broken"
        /\ Step("check", "stop") /\ verdict' = "deny" /\ policy' = Lenient
        /\ UNCHANGED args
     \/ /\ system = "absent" /\ user = "absent"
        /\ Step("check", "setup") /\ verdict' = "setup"
        /\ UNCHANGED <<policy, args>>
     \/ /\ {system, user} \cap {"broken"} = {} /\ {system, user} # {"absent"}
        /\ verdict' \in {"deny", "blocked", "confirm", "allow"}
        /\ policy' \in PoliciesFor(verdict') /\ args' \in ArgsFor(verdict')
        /\ Step("check", Branch(verdict'))
  /\ UNCHANGED <<output, justification, log, process>>

\* Deny and Blocked.
Stop ==
  /\ Step("stop", "end") /\ Exit
  /\ Audit(IF verdict = "deny" THEN "denied" ELSE "blocked", "")
  /\ UNCHANGED <<choices, justification>>

-----------------------------------------------------------------------------
(***************************************************************************)
(* No configuration.  A config from the environment, or an empty one, is   *)
(* saved, and runGuard starts over; or a safe read runs; or the wizard.    *)
(***************************************************************************)
Save ==
  /\ Running /\ stage = "setup"
  /\ \/ stage' = "check" /\ user' = "good" /\ UNCHANGED process
     \/ stage' = "end" /\ UNCHANGED user /\ Exit
  /\ UNCHANGED <<system, upsets, floor, choices, promptOnly, log, readOnly,
                 notified, buffered, signals>>

\* KUBECTL_GUARD_BOOTSTRAP is deny, or not recognised: IsSafeCommand decides.
HeadlessDeny ==
  /\ \/ Step("setup", "exec") /\ args' = [args EXCEPT !.safe = TRUE] /\ UNCHANGED process
     \/ Step("setup", "end") /\ Exit /\ UNCHANGED args
  /\ UNCHANGED <<verdict, policy, output, justification, log>>

\* GetAllContexts fails, or the wizard starts.
OpenWizard ==
  /\ \/ Step("setup", "wizard") /\ UNCHANGED process
     \/ Step("setup", "end") /\ Exit
  /\ UNCHANGED <<choices, justification, log>>

\* The operator takes their time; the config they make is for the next command.
CloseWizard ==
  /\ Step("wizard", "end") /\ Exit
  /\ UNCHANGED <<choices, justification, log>>

-----------------------------------------------------------------------------
(***************************************************************************)
(* RequireConfirmation.                                                    *)
(***************************************************************************)
Given == CASE args.reason = "given" -> "flag"
           [] args.reason = "blank" -> "blank"
           [] args.reason = "absent" -> "none"

\* --yes under agent-relay is refused.
RefuseYes ==
  /\ args.yes /\ policy.relay
  /\ Step("gated", "end") /\ Exit /\ Audit("aborted", "auto-confirm-refused")
  /\ UNCHANGED <<choices, justification>>

\* --yes without the --reason that require_justification asks for.
YesUnjustified ==
  /\ args.yes /\ ~policy.relay /\ policy.justify /\ args.reason # "given"
  /\ Step("gated", "end") /\ Exit /\ Audit("aborted", "justification-required")
  /\ UNCHANGED <<choices, justification>>

\* Faulty variant of AutoConfirm: relay mode and justification are not looked at.
AutoConfirmAny ==
  /\ args.yes
  /\ Step("gated", "exec") /\ justification' = Given
  /\ Recorded(policy.audit, "auto-confirmed", "", justification')
  /\ UNCHANGED <<choices, process>>

AutoConfirm ==
  /\ args.yes /\ ~policy.relay /\ (policy.justify => args.reason = "given")
  /\ Step("gated", "exec") /\ justification' = Given
  /\ Recorded(policy.audit, "auto-confirmed", "", justification')
  /\ UNCHANGED <<choices, process>>

\* agent-relay never runs the command here (Approval has its steps): it is denied
\* or relayed, or an error, of which only the first kind is recorded.
Relay ==
  /\ ~args.yes /\ policy.relay
  /\ \/ Step("gated", "end") /\ \E result \in {"denied", "relayed"} : Audit(result, "")
     \/ Step("gated", "failed") /\ UNCHANGED log
  /\ Exit
  /\ UNCHANGED <<choices, justification>>

\* --json cannot be prompted.
AbortJSON ==
  /\ ~args.yes /\ ~policy.relay /\ args.json
  /\ Step("gated", "end") /\ Exit /\ Audit("aborted", "")
  /\ UNCHANGED <<choices, justification>>

OpenPrompt ==
  /\ ~args.yes /\ ~policy.relay /\ ~args.json
  /\ Step("gated", "prompt")
  /\ UNCHANGED <<choices, justification, log, process>>

Prompting ==
  /\ stage = "prompt" /\ UNCHANGED <<stage, files, choices, readOnly>>
  /\ C!Next

-----------------------------------------------------------------------------
(***************************************************************************)
(* Allow.                                                                  *)
(***************************************************************************)
\* kubectl runs as a child if its output qualifies for redaction, else by execve.
Permit ==
  /\ \/ ~policy.redacts /\ Step("allowed", "exec") /\ UNCHANGED output
     \/ policy.redacts /\ Step("allowed", "redact") /\ output' \in Outputs
  /\ UNCHANGED <<verdict, policy, args, justification, process>>

\* Faulty variant of Allowed: the entry is written after kubectl, that is, never.
AllowedAfterExec == Permit /\ UNCHANGED log

\* Recorded first.
Allowed == Permit /\ Audit("allowed", "")

Redacting ==
  /\ stage = "redact" /\ R!Next
  /\ UNCHANGED <<stage, files, choices, promptOnly, log>>

\* execKubectl: it replaces the process, or the guard exits with an error.
Exec ==
  /\ Step("exec", "end") /\ process' \in {"kubectl", "exited"}
  /\ UNCHANGED <<choices, justification, log>>

-----------------------------------------------------------------------------
(***************************************************************************)
(* The world.                                                              *)
(***************************************************************************)
\* An administrator or a user installs, removes, breaks or mends a config file.
ChangeFiles ==
  /\ Running /\ upsets > 0 /\ upsets' = upsets - 1
  /\ stage \in Reading
  /\ \/ system' \in {"absent", "plain", "enforced", "broken"} /\ UNCHANGED user
     \/ user' \in {"absent", "good", "broken"} /\ UNCHANGED system
  /\ floor' = IF floor = "free" THEN "free" ELSE FloorOf(system')
  /\ UNCHANGED <<stage, choices, promptOnly, log, readOnly, handler>>

\* Outside of the prompt and the read no handler is installed.
Killed ==
  /\ Running /\ stage \notin {"prompt", "redact"}
  /\ signals > 0 /\ signals' = signals - 1 /\ process' = "killed"
  /\ UNCHANGED <<stage, files, choices, promptOnly, log, readOnly, notified, buffered>>

Deciding ==
  \/ Enter \/ Refused \/ Bypass \/ Check \/ Stop
  \/ Save \/ HeadlessDeny \/ OpenWizard
  \/ RefuseYes \/ YesUnjustified \/ AutoConfirm \/ Relay \/ AbortJSON \/ OpenPrompt
  \/ Allowed \/ Exec

Next == Deciding \/ CloseWizard \/ Prompting \/ Redacting \/ ChangeFiles \/ Killed

Spec == Init /\ [][Next]_vars

(***************************************************************************)
(* Goroutines are scheduled.  An operator need not answer, at the prompt   *)
(* or in the wizard, unless a timer bounds the answer.  kubectl writes when*)
(* the pipe has room, and ends when it has written everything and does not *)
(* hang; it need not fail (R!ChildFail), and the preview need not return   *)
(* (C!Preview): no timer bounds either.                                    *)
(***************************************************************************)
PromptStep(A) == stage = "prompt" /\ UNCHANGED <<stage, files, choices, readOnly>> /\ A
ReadStep(A) == stage = "redact" /\ UNCHANGED <<stage, files, choices, promptOnly, log>> /\ A

FairSpec ==
  /\ Spec
  /\ WF_vars(Deciding)
  /\ WF_vars(PromptStep(C!AskingAlone))
  /\ WF_vars(PromptStep(C!Watching))
  /\ WF_vars(PromptStep(policy.timed /\ (C!Answer \/ C!Reason)))
  /\ WF_vars(ReadStep(R!Begin \/ R!Streaming))
  /\ WF_vars(ReadStep(R!Forward))
  /\ WF_vars(ReadStep(R!Kubectl))

-----------------------------------------------------------------------------
Started == process = "kubectl" \/ child # "none"
Ended == process \in {"exited", "kubectl"}
Results == {i \in DOMAIN log : log[i].reason # "bypass-refused"}

\* What a verdict's entry may say.
Outcomes ==
  [none |-> {}, setup |-> {}, bypass |-> {"bypassed"}, deny |-> {"denied"},
   blocked |-> {"blocked"}, allow |-> {"allowed"},
   confirm |-> {"confirmed", "auto-confirmed", "aborted", "relayed", "denied"}]

\* A config with auditing on was found for this verdict, and no error cut it short.
MustRecord ==
  /\ verdict \notin {"none", "setup"} /\ stage # "failed"
  /\ policy.audit = "all" \/ (policy.audit = "gated" /\ verdict # "allow")

(***************************************************************************)
(* One invocation, one verdict on record: whichever way it ends, an        *)
(* invocation that a config with auditing decided leaves exactly one entry,*)
(* and that one says what was decided; a signal that races the answer does *)
(* not add a second, contradictory one ("decided makes the abort-vs-answer *)
(* outcome mutually exclusive", main.go).                                  *)
(* It agrees with what happened at the prompt, too: "confirmed" names the  *)
(* justification in force, "interrupted" is said of the watcher's decision.*)
(***************************************************************************)
OneVerdict ==
  /\ \A i, j \in Results : i = j
  /\ \A i \in Results : log[i].outcome \in Outcomes[verdict]
  /\ Ended /\ MustRecord => Results # {}
  /\ C!RecordAgrees

(***************************************************************************)
(* kubectl is started, by execve or as a child, only by a way through the  *)
(* dispatch that says so, and the log does not say otherwise: an allowed   *)
(* command; a gated one with --yes outside of relay mode, or after an      *)
(* approval in time, and under require_justification with a reason; without*)
(* any config a safe read; or the bypass.                                  *)
(***************************************************************************)
RunsAsDecided ==
  Started =>
    /\ verdict \in {"allow", "confirm", "bypass", "setup"}
    /\ verdict = "setup" => args.safe
    /\ verdict = "confirm" =>
         /\ (args.yes /\ ~policy.relay) \/ (~args.yes /\ outcome = "approved")
         /\ policy.justify => justification \in {"flag", "typed"}
    /\ \A i \in Results : log[i].outcome \in {"allowed", "confirmed", "auto-confirmed", "bypassed"}

(***************************************************************************)
(* Under an enforced system config, or one that cannot be read, nothing    *)
(* but its own decision starts kubectl: the bypass, a broken or missing    *)
(* user config and first-run setup do not ("an enforced system baseline    *)
(* forbids the bypass escape hatch", main.go), whatever else changes.      *)
(***************************************************************************)
FloorDecides ==
  floor # "free" /\ Started => verdict \in {"allow", "confirm"} /\ floor = "enforced"

(***************************************************************************)
(* A command the operator interrupted is not run.                          *)
(***************************************************************************)
InterruptedNeverRuns == C!InterruptedNeverRuns

(***************************************************************************)
(* A redacted read looks like kubectl's own: what kubectl wrote is         *)
(* delivered, blanked where it parses, and the guard ends with kubectl's   *)
(* status and not before it ("kubectl's exit code is authoritative",       *)
(* main.go).                                                               *)
(***************************************************************************)
ReadIsFaithful == R!ReadDelivered /\ R!StatusIsKubectls

\* An operator is asked, and neither a timer nor a signal cuts that short.
OperatorsTurn ==
  \/ stage = "wizard"
  \/ /\ stage = "prompt" /\ main \in {"prompt", "reason"} /\ ~policy.timed
     /\ decided # "watcher"

\* kubectl runs, for a preview or a read, and nothing but kubectl keeps it from ending.
KubectlsTurn ==
  \/ stage = "prompt" /\ main = "preview" /\ decided # "watcher"
  \/ child = "running" /\ output.hangs /\ sent = Len(output.chunks)

\* The guard could not write and waits, without reading, for a kubectl that waits for
\* room in the pipe.
PipeFull ==
  failed /\ child = "running" /\ sent < Len(output.chunks) /\ sent - taken = Capacity

(***************************************************************************)
(* The invocation ends: setup does not start over for ever, the goroutine  *)
(* that lost the decision does not keep the process (it blocks on a channel*)
(* nobody sends on), an interrupted preview does not either, and a child is*)
(* read from until it ends and waited for no longer than it runs.          *)
(* Excepted: an untimed question, a kubectl that hangs by itself, and the  *)
(* deadlock of the two processes over a full pipe, which runRedactedGet    *)
(* gets into if its stdout fails before kubectl has written everything.    *)
(***************************************************************************)
Ends == Running ~> (~Running \/ OperatorsTurn \/ KubectlsTurn \/ PipeFull)

(***************************************************************************)
(* A signal that was caught is acted on: the process ends, unless an answer*)
(* came first; or kubectl, to which it is forwarded, does.  Neither a      *)
(* preview that does not return, nor a kubectl that hangs or waits for room*)
(* in the pipe is in the way of it.                                        *)
(***************************************************************************)
CaughtSignalActs ==
  buffered ~> (~Running \/ decided = "main" \/ child \in R!Ends)

==================================================================================
