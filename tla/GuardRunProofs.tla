------------------------------- MODULE GuardRunProofs -------------------------------
(***************************************************************************)
(* Theorems about GuardRun, for any number of signals and config changes,  *)
(* any pipe and any outputs.                                               *)
(***************************************************************************)
EXTENDS GuardRun, TLAPS

(***************************************************************************)
(* Where the floor is looked at.  The invariant follows the system file    *)
(* from the start to the verdict: while a file can still change, a floor   *)
(* that holds is the system file itself; the bypass and setup are entered  *)
(* without one; and nothing is started before there is a verdict for it.   *)
(***************************************************************************)
FloorStages ==
  /\ floor \in {"free", "enforced", "broken"}
  /\ stage \in Reading /\ floor # "free" => system = floor
  /\ stage \in {"bypass", "setup"} => floor = "free"

FloorVerdicts ==
  /\ verdict \in {"bypass", "setup"} => floor = "free"
  /\ verdict \in {"allow", "confirm"} => floor # "broken"
  /\ stage \in Reading => verdict \in {"none", "setup"}
  /\ stage = "setup" => verdict = "setup"
  /\ stage \in {"gated", "prompt"} => verdict = "confirm"
  /\ stage \in {"allowed", "redact"} => verdict = "allow"
  /\ stage = "exec" => verdict \in {"allow", "confirm", "bypass", "setup"}

FloorStarted ==
  /\ child # "none" => stage = "redact"
  /\ process = "kubectl" => verdict \in {"allow", "confirm", "bypass", "setup"}

FloorInv == FloorStages /\ FloorVerdicts /\ FloorStarted

LEMMA InitFloor == Init => FloorInv
BY DEF Init, FloorInv, FloorStages, FloorVerdicts, FloorStarted, FloorOf, Reading, R!Idle

\* A step that has no verdict to give.
LEMMA PassingFloor ==
  ASSUME FloorInv, UNCHANGED <<verdict, child>>, NEW from, NEW to, Step(from, to),
         to \in {"bypass", "setup"} => floor = "free",
         to = "setup" => verdict = "setup",
         to \in {"gated", "prompt"} => verdict = "confirm",
         to \in {"allowed", "redact"} => verdict = "allow",
         to = "exec" => verdict \in {"allow", "confirm", "bypass", "setup"},
         from # "redact", to \in Reading => from \in Reading,
         process' = "kubectl" => from = "exec"
  PROVE  FloorInv'
BY DEF FloorInv, FloorStages, FloorVerdicts, FloorStarted, Step, Running, Reading

LEMMA DecidingFloor ==
  ASSUME FloorInv, Deciding \/ CloseWizard
  PROVE  FloorInv'
PROOF
<1>1. CASE Enter
  BY <1>1, PassingFloor
     DEF Enter, Enforced, FloorInv, FloorStages, Reading, choices, Step, readOnly, Running
<1>2. CASE Refused
  BY <1>2, PassingFloor DEF Refused, Reading, choices, Step, readOnly, Running
<1>3. CASE Bypass
  BY <1>3 DEF Bypass, FloorInv, FloorStages, FloorVerdicts, FloorStarted, Step, Reading,
              readOnly, Running
<1>4. CASE Check
  BY <1>4 DEF Check, Branch, FloorInv, FloorStages, FloorVerdicts, FloorStarted, Step,
              Reading, readOnly, Running
<1>5. CASE Stop
  BY <1>5 DEF Stop, Exit, FloorInv, FloorStages, FloorVerdicts, FloorStarted, Step,
              Reading, choices, readOnly, Running
<1>6. CASE Save
  BY <1>6 DEF Save, Exit, Reading, choices, readOnly, FloorInv, FloorStages,
              FloorVerdicts, FloorStarted, Running
<1>7. CASE HeadlessDeny
  BY <1>7, PassingFloor
     DEF HeadlessDeny, Exit, Reading, Step, readOnly, FloorInv, FloorVerdicts, Running
<1>8. CASE OpenWizard \/ CloseWizard
  BY <1>8, PassingFloor
     DEF OpenWizard, CloseWizard, Exit, Reading, choices, Step, readOnly, Running
<1>9. CASE RefuseYes \/ YesUnjustified \/ Relay \/ AbortJSON
  BY <1>9, PassingFloor
     DEF RefuseYes, YesUnjustified, Relay, AbortJSON, Exit, Reading, choices, Step, readOnly
<1>10. CASE AutoConfirm \/ OpenPrompt
  BY <1>10, PassingFloor
     DEF AutoConfirm, OpenPrompt, Reading, choices, Step, readOnly, Running, FloorInv,
         FloorVerdicts
<1>11. CASE Allowed
  BY <1>11, PassingFloor
     DEF Allowed, Permit, Reading, Step, readOnly, Running, FloorInv, FloorVerdicts
<1>12. CASE Exec
  BY <1>12, PassingFloor DEF Exec, Reading, choices, Step, readOnly
<1> QED
  BY <1>1, <1>2, <1>3, <1>4, <1>5, <1>6, <1>7, <1>8, <1>9, <1>10, <1>11, <1>12
     DEF Deciding

\* A redacted read does not become kubectl.
LEMMA RedactingStarts ==
  ASSUME Redacting, process' = "kubectl"
  PROVE  process = "kubectl"
BY DEF Redacting, R!Next, R!Begin, R!Streaming, R!Start, R!Notify, R!Decode, R!Emit, R!Flush,
       R!Copy, R!Wait, R!Exit, R!Forward, R!Kubectl, R!ChildWrite, R!ChildEnd, R!ChildFail,
       R!Signal, R!FillDisk, R!handler

LEMMA OtherFloor ==
  ASSUME FloorInv, Prompting \/ Redacting \/ ChangeFiles \/ Killed \/ UNCHANGED vars
  PROVE  FloorInv'
PROOF
<1> USE DEF FloorInv, FloorStages, FloorVerdicts, FloorStarted
<1>1. CASE Prompting
  BY <1>1 DEF Prompting, files, choices, readOnly
<1>2. CASE Redacting
  BY <1>2, RedactingStarts DEF Redacting, files, choices, Reading
<1>3. CASE ChangeFiles
  BY <1>3 DEF ChangeFiles, FloorOf, choices, readOnly, handler, Reading, Running
<1>4. CASE Killed
  BY <1>4 DEF Killed, files, choices, readOnly, Running
<1>5. CASE UNCHANGED vars
  BY <1>5 DEF vars, files, choices, readOnly, handler
<1> QED
  BY <1>1, <1>2, <1>3, <1>4, <1>5

(***************************************************************************)
(* Whatever becomes of the config files, under an enforced or unreadable   *)
(* system config the bypass, setup and broken user configs start nothing.  *)
(***************************************************************************)
THEOREM FloorHolds == Spec => []FloorDecides
PROOF
<1>1. FloorInv /\ [Next]_vars => FloorInv'
  BY DecidingFloor, OtherFloor DEF Next
<1>2. FloorInv => FloorDecides
  BY DEF FloorInv, FloorStages, FloorVerdicts, FloorStarted, FloorDecides, Started
<1> QED
  BY InitFloor, <1>1, <1>2, PTL DEF Spec

-----------------------------------------------------------------------------
(***************************************************************************)
(* The decision between answer and signal.  It is made at the prompt only, *)
(* the asking goroutine is past its claim only if it won, and the process  *)
(* is not replaced when it lost.                                           *)
(***************************************************************************)
PastClaim == {"stop", "close", "answered", "reason", "unjustified", "confirmed", "exec", "exit"}

DecisionInv ==
  /\ decided # "nobody" => stage = "prompt"
  /\ main \in PastClaim => decided = "main"
  /\ decided = "watcher" => process # "kubectl"

LEMMA PromptDecision ==
  ASSUME DecisionInv, Prompting
  PROVE  DecisionInv' /\ (decided = "watcher" => decided' = "watcher")
PROOF
<1> USE DEF DecisionInv, PastClaim, Prompting
<1>1. CASE C!Asking
  BY <1>1 DEF C!Asking, C!Notify, C!Preview, C!Answer, C!ClaimAnswer, C!StopSignals,
              C!CloseDone, C!Decide, C!Reason, C!Unjustified, C!Confirmed, C!ExecOrExit,
              C!Main, C!verdict, C!Exit, C!Running
<1>2. CASE C!Watching
  BY <1>2 DEF C!Watching, C!Select, C!ClaimInterrupt, C!Interrupted, C!ExitInterrupted,
              C!Watcher, C!verdict, C!Exit, C!Running
<1>3. CASE C!Signal
  BY <1>3 DEF C!Signal, C!verdict
<1> QED
  BY <1>1, <1>2, <1>3 DEF C!Next

LEMMA OtherDecision ==
  ASSUME DecisionInv,
         Deciding \/ CloseWizard \/ Redacting \/ ChangeFiles \/ Killed \/ UNCHANGED vars
  PROVE  DecisionInv' /\ (decided = "watcher" => decided' = "watcher")
PROOF
<1> USE DEF DecisionInv, PastClaim, promptOnly
<1>1. CASE Deciding \/ CloseWizard
  BY <1>1
     DEF Deciding, Enter, Refused, Bypass, Check, Stop, Save, HeadlessDeny, OpenWizard,
         CloseWizard, RefuseYes, YesUnjustified, AutoConfirm, Relay, AbortJSON, OpenPrompt,
         Allowed, Permit, Exec, Step
<1>2. CASE Redacting
  BY <1>2 DEF Redacting
<1>3. CASE ChangeFiles \/ Killed
  BY <1>3 DEF ChangeFiles, Killed, handler
<1>4. CASE UNCHANGED vars
  BY <1>4 DEF vars, handler
<1> QED
  BY <1>1, <1>2, <1>3, <1>4

(***************************************************************************)
(* A command whose confirmation a signal decided is never run.             *)
(***************************************************************************)
THEOREM InterruptHolds == Spec => InterruptedNeverRuns
PROOF
<1>1. Init => DecisionInv
  BY DEF Init, DecisionInv, PastClaim
<1>2. DecisionInv /\ [Next]_vars => DecisionInv'
  BY PromptDecision, OtherDecision DEF Next
<1>3. DecisionInv /\ DecisionInv' /\ [Next]_vars
        => [decided = "watcher" => process' # "kubectl"]_C!vars
  BY PromptDecision, OtherDecision DEF Next, DecisionInv
<1> QED
  BY <1>1, <1>2, <1>3, PTL DEF Spec, InterruptedNeverRuns, C!InterruptedNeverRuns

-----------------------------------------------------------------------------
(***************************************************************************)
(* What runs, and what the log says of it.  Besides the floor's and the    *)
(* decision's invariants: the log holds no result before the place that    *)
(* writes one; a result that stands when kubectl is about to start is one  *)
(* that lets it; and what the prompt asked for was got before it claims.   *)
(***************************************************************************)
Letting == {"allowed", "confirmed", "auto-confirmed", "bypassed"}
NoResults == \A i \in DOMAIN log : log[i].reason = "bypass-refused"
LetResults ==
  \A i \in DOMAIN log : log[i].reason # "bypass-refused" => log[i].outcome \in Letting

Ready == stage = "exec" \/ process = "kubectl"
Justified == policy.justify => justification \in {"flag", "typed"}

RunTypes == args \in Args /\ log \in Seq(Entry) /\ justification \in C!Justifications

RunPrompt ==
  /\ main # "notify" => stage = "prompt"
  /\ stage = "prompt" => ~args.yes
  /\ main \in {"reason", "confirmed", "exec"} => outcome = "approved"
  /\ main \in {"confirmed", "exec"} => Justified
  /\ watcher \in {"interrupted", "exit"} => decided = "watcher"

RunChoices ==
  /\ Ready /\ verdict = "setup" => args.safe
  /\ Ready /\ verdict = "confirm" =>
       /\ (args.yes /\ ~policy.relay) \/ (~args.yes /\ outcome = "approved")
       /\ Justified

RunRecords ==
  /\ stage \in Reading \cup {"stop", "gated", "allowed"} => NoResults
  /\ stage = "prompt" /\ main \notin {"exec", "exit"} /\ decided # "watcher" => NoResults
  /\ Ready \/ main = "exec" \/ stage = "redact" => LetResults

RunInv == FloorInv /\ DecisionInv /\ RunTypes /\ RunPrompt /\ RunChoices /\ RunRecords

LEMMA Appended ==
  ASSUME log \in Seq(Entry), NEW e \in Entry, log' = log \/ log' = Append(log, e)
  PROVE  /\ log' \in Seq(Entry)
         /\ NoResults => /\ e.reason = "bypass-refused" => NoResults'
                         /\ e.outcome \in Letting => LetResults'
PROOF
<1>1. CASE log' = log
  BY <1>1 DEF NoResults, LetResults
<1>2. CASE log' = Append(log, e)
  <2>1. log' \in Seq(Entry) /\ Len(log') = Len(log) + 1
    BY <1>2
  <2>2. \A i \in DOMAIN log' : log'[i] = (IF i = Len(log) + 1 THEN e ELSE log[i])
    BY <1>2
  <2>3. \A i \in DOMAIN log' : i # Len(log) + 1 => i \in DOMAIN log
    BY <2>1
  <2> QED
    BY <2>1, <2>2, <2>3 DEF NoResults, LetResults
<1> QED
  BY <1>1, <1>2

\* An entry of the dispatch.
LEMMA RecordedEntry ==
  ASSUME log \in Seq(Entry), NEW mode, NEW result, NEW why, NEW reason,
         [outcome |-> result, reason |-> why, justification |-> reason] \in Entry,
         Recorded(mode, result, why, reason)
  PROVE  /\ log' \in Seq(Entry)
         /\ NoResults => /\ why = "bypass-refused" => NoResults'
                         /\ result \in Letting => LetResults'
PROOF
<1> DEFINE e == [outcome |-> result, reason |-> why, justification |-> reason]
<1>1. e \in Entry /\ e.reason = why /\ e.outcome = result
  OBVIOUS
<1>2. log' = log \/ log' = Append(log, e)
  BY DEF Recorded
<1> QED
  BY <1>1, <1>2, Appended

\* An entry of the prompt.
LEMMA PromptedEntry ==
  ASSUME RunTypes, NEW result \in {"confirmed", "aborted"},
         NEW why \in {"", "interrupted", "timeout", "justification-required"}
  PROVE  [outcome |-> result, reason |-> why, justification |-> justification] \in Entry
BY DEF RunTypes, Entry

\* The operator's answer, up to the switch on it.
LEMMA AnsweringRuns ==
  ASSUME RunInv, Prompting, DecisionInv',
         C!Notify \/ C!Preview \/ C!Answer \/ C!ClaimAnswer \/ C!StopSignals \/ C!CloseDone
  PROVE  RunTypes' /\ RunPrompt' /\ RunChoices' /\ RunRecords'
PROOF
<1> USE DEF RunInv, Prompting, choices, C!Main, C!channels, C!verdict, C!Running, C!Notify,
            C!Preview, C!Answer, C!ClaimAnswer, C!StopSignals, C!CloseDone
<1>1. RunTypes'
  BY DEF RunTypes
<1>2. RunPrompt'
  BY DEF RunPrompt, Justified
<1>3. RunChoices'
  BY DEF RunChoices, RunPrompt, Ready, Justified, DecisionInv
<1>4. RunRecords'
  BY DEF RunRecords, RunPrompt, Ready, NoResults, LetResults, Reading, DecisionInv
<1> QED
  BY <1>1, <1>2, <1>3, <1>4

LEMMA DecideRuns ==
  ASSUME RunInv, Prompting, DecisionInv', C!Decide
  PROVE  RunTypes' /\ RunPrompt' /\ RunChoices' /\ RunRecords'
PROOF
<1> USE DEF RunInv, Prompting, choices, C!Main, C!channels, C!Running, C!Decide
<1>1. log' \in Seq(Entry)
  <2>1. PICK why \in {"", "timeout"} :
          log' = log \/ log' = Append(log, [outcome |-> "aborted", reason |-> why,
                                            justification |-> justification])
    BY DEF C!Audit
  <2> DEFINE e == [outcome |-> "aborted", reason |-> why, justification |-> justification]
  <2>2. e \in Entry
    BY PromptedEntry
  <2> QED
    BY <2>1, <2>2, Appended DEF RunTypes
<1>2. justification' \in C!Justifications
  BY DEF RunTypes, C!Justifications, Args
<1>3. RunTypes'
  BY <1>1, <1>2 DEF RunTypes
<1>4. RunPrompt'
  BY DEF RunPrompt, Justified
<1>5. RunChoices'
  BY DEF RunChoices, Ready
<1>6. RunRecords'
  BY DEF RunRecords, Ready, NoResults, Reading
<1> QED
  BY <1>3, <1>4, <1>5, <1>6

LEMMA AnsweredRuns ==
  ASSUME RunInv, Prompting, DecisionInv',
         C!Reason \/ C!Unjustified \/ C!Confirmed \/ C!ExecOrExit
  PROVE  RunTypes' /\ RunPrompt' /\ RunChoices' /\ RunRecords'
PROOF
<1> USE DEF RunInv, Prompting, choices, C!Main, C!channels, C!verdict, C!Running
<1>1. CASE C!Reason
  BY <1>1 DEF C!Reason, RunTypes, C!Justifications, RunPrompt, Justified, RunChoices, Ready,
              RunRecords, NoResults, Reading
<1>2. CASE C!Unjustified
  <2>1. log' \in Seq(Entry)
    <3> DEFINE e == [outcome |-> "aborted", reason |-> "justification-required",
                     justification |-> justification]
    <3>1. log' = log \/ log' = Append(log, e)
      BY <1>2 DEF C!Unjustified, C!Audit
    <3>2. e \in Entry
      BY PromptedEntry
    <3> QED
      BY <3>1, <3>2, Appended DEF RunTypes
  <2> QED
    BY <1>2, <2>1 DEF C!Unjustified, RunTypes, RunPrompt, Justified, RunChoices, Ready,
                      RunRecords, Reading
<1>3. CASE C!Confirmed
  <2>1. decided = "main" /\ NoResults
    BY <1>3 DEF C!Confirmed, DecisionInv, PastClaim, RunRecords
  <2>2. log' \in Seq(Entry) /\ LetResults'
    <3> DEFINE e == [outcome |-> "confirmed", reason |-> "", justification |-> justification]
    <3>1. log' = log \/ log' = Append(log, e)
      BY <1>3 DEF C!Confirmed, C!Audit
    <3>2. e \in Entry
      BY PromptedEntry
    <3> QED
      BY <2>1, <3>1, <3>2, Appended DEF RunTypes, Letting
  <2> QED
    BY <1>3, <2>1, <2>2 DEF C!Confirmed, RunTypes, RunPrompt, Justified, RunChoices, Ready,
                      RunRecords, Reading
<1>4. CASE C!ExecOrExit
  <2>1. RunTypes' /\ RunPrompt'
    BY <1>4 DEF C!ExecOrExit, RunTypes, RunPrompt, Justified
  <2>2. process' = "kubectl" => main = "exec"
    BY <1>4 DEF C!ExecOrExit, C!Exit
  <2>3. RunChoices'
    <3>1. process' = "kubectl" => ~args'.yes /\ outcome' = "approved" /\ Justified'
      BY <1>4, <2>2 DEF C!ExecOrExit, RunPrompt, Justified
    <3>2. Ready' => process' = "kubectl" /\ verdict' = "confirm"
      BY DEF Ready, FloorInv, FloorVerdicts
    <3> QED
      BY <3>1, <3>2 DEF RunChoices
  <2>4. RunRecords'
    BY <1>4, <2>2 DEF C!ExecOrExit, RunRecords, Ready, LetResults, Reading
  <2> QED
    BY <2>1, <2>3, <2>4
<1> QED
  BY <1>1, <1>2, <1>3, <1>4

LEMMA WatchingRuns ==
  ASSUME RunInv, Prompting, DecisionInv', C!Watching \/ C!Signal
  PROVE  RunTypes' /\ RunPrompt' /\ RunChoices' /\ RunRecords'
PROOF
<1> USE DEF RunInv, Prompting, choices, C!Watcher, C!channels, C!verdict, C!Running
<1>1. CASE C!Select \/ C!ClaimInterrupt \/ C!ExitInterrupted
  BY <1>1 DEF C!Select, C!ClaimInterrupt, C!ExitInterrupted, C!Exit, RunTypes, RunPrompt,
              Justified, RunChoices, Ready, RunRecords, NoResults, LetResults, Reading
<1>2. CASE C!Interrupted
  <2>1. log' \in Seq(Entry)
    <3> DEFINE e == [outcome |-> "aborted", reason |-> "interrupted",
                     justification |-> justification]
    <3>1. log' = log \/ log' = Append(log, e)
      BY <1>2 DEF C!Interrupted, C!Audit
    <3>2. e \in Entry
      BY PromptedEntry
    <3> QED
      BY <3>1, <3>2, Appended DEF RunTypes
  <2>2. decided = "watcher" /\ main # "exec"
    BY <1>2 DEF C!Interrupted, RunPrompt, DecisionInv, PastClaim
  <2> QED
    BY <1>2, <2>1, <2>2 DEF C!Interrupted, RunTypes, RunPrompt, Justified, RunChoices, Ready,
                            RunRecords, Reading
<1>3. CASE C!Signal
  BY <1>3 DEF C!Signal, RunTypes, RunPrompt, Justified, RunChoices, Ready, RunRecords,
              NoResults, LetResults, Reading
<1> QED
  BY <1>1, <1>2, <1>3 DEF C!Watching

\* Steps of the dispatch that record nothing.
LEMMA SilentRuns ==
  ASSUME RunInv, Enter \/ Check \/ Save \/ HeadlessDeny \/ OpenWizard \/ CloseWizard
                 \/ OpenPrompt \/ Exec
  PROVE  RunTypes' /\ RunPrompt' /\ RunChoices' /\ RunRecords'
PROOF
<1> USE DEF RunInv, Step, choices, promptOnly, Running, Exit, RunTypes, RunPrompt, Ready,
            RunChoices, Justified, RunRecords, NoResults, LetResults, Reading
<1>1. CASE Enter \/ OpenWizard \/ CloseWizard
  BY <1>1 DEF Enter, OpenWizard, CloseWizard
<1>2. CASE Check
  <2>1. \A result : ArgsFor(result) \subseteq Args
    <3>1. Plain \in Args
      BY DEF Plain, Args
    <3> QED
      BY <3>1, Zenon DEF ArgsFor
  <2>2. args' \in Args
    BY <1>2, <2>1 DEF Check
  <2> QED
    BY <1>2, <2>2 DEF Check, Branch
<1>3. CASE Save
  BY <1>3 DEF Save
<1>4. CASE HeadlessDeny
  <2>1. args' \in Args /\ (stage' = "exec" => args'.safe)
    BY <1>4 DEF HeadlessDeny, Args
  <2> QED
    BY <1>4, <2>1 DEF HeadlessDeny, FloorInv, FloorVerdicts
<1>5. CASE OpenPrompt
  BY <1>5 DEF OpenPrompt
<1>6. CASE Exec
  BY <1>6 DEF Exec
<1> QED
  BY <1>1, <1>2, <1>3, <1>4, <1>5, <1>6

\* ... and those that may.
LEMMA EndingRuns ==
  ASSUME RunInv, Refused \/ Stop \/ RefuseYes \/ YesUnjustified \/ Relay \/ AbortJSON
  PROVE  RunTypes' /\ RunPrompt' /\ RunChoices' /\ RunRecords'
PROOF
<1> USE DEF RunInv, Step, choices, promptOnly, Running, Exit, RunTypes
<1>1. log' \in Seq(Entry)
  BY RecordedEntry
     DEF Refused, Stop, RefuseYes, YesUnjustified, Relay, AbortJSON, Audit, Entry,
         C!Justifications
<1>2. CASE Refused
  <2>1. NoResults'
    <3>1. CASE UNCHANGED log
      BY <1>2, <3>1 DEF Refused, RunRecords, NoResults, Reading
    <3>2. ASSUME NEW mode, Recorded(mode, "denied", "bypass-refused", "none")
          PROVE  NoResults'
      BY <1>2, <3>2, RecordedEntry DEF Refused, RunRecords, Reading, Entry, C!Justifications
    <3> QED
      BY <1>2, <3>1, <3>2 DEF Refused
  <2> QED
    BY <1>1, <1>2, <2>1
       DEF Refused, RunPrompt, Ready, RunChoices, Justified, RunRecords, Reading
<1>3. CASE Stop \/ RefuseYes \/ YesUnjustified \/ Relay \/ AbortJSON
  BY <1>1, <1>3
     DEF Stop, RefuseYes, YesUnjustified, Relay, AbortJSON, RunPrompt, Ready, RunChoices,
         Justified, RunRecords, Reading
<1> QED
  BY <1>2, <1>3

LEMMA LettingRuns ==
  ASSUME RunInv, Bypass \/ AutoConfirm \/ Allowed
  PROVE  RunTypes' /\ RunPrompt' /\ RunChoices' /\ RunRecords'
PROOF
<1> USE DEF RunInv, Step, choices, Running, RunTypes, RunPrompt, Ready, RunChoices,
            Justified, RunRecords, Reading
<1>1. CASE Bypass
  <2>1. log' \in Seq(Entry) /\ LetResults'
    <3>1. CASE UNCHANGED log
      BY <1>1, <3>1 DEF Bypass, NoResults, LetResults
    <3>2. CASE Recorded(policy'.audit, "bypassed", "", "none")
      BY <1>1, <3>2, RecordedEntry DEF Bypass, Entry, C!Justifications, Letting
    <3> QED
      BY <1>1, <3>1, <3>2 DEF Bypass
  <2> QED
    BY <1>1, <2>1 DEF Bypass
<1>2. CASE AutoConfirm
  <2>1. justification' \in C!Justifications /\ Justified'
    BY <1>2 DEF AutoConfirm, Given, C!Justifications, Args
  <2>2. log' \in Seq(Entry) /\ LetResults'
    BY <1>2, <2>1, RecordedEntry DEF AutoConfirm, Entry, Letting
  <2>3. args'.yes /\ ~policy'.relay /\ stage' = "exec" /\ main' = "notify"
    BY <1>2 DEF AutoConfirm
  <2>4. RunPrompt'
    BY <1>2, <2>3 DEF AutoConfirm
  <2>5. RunChoices' /\ RunRecords'
    BY <1>2, <2>1, <2>2, <2>3 DEF AutoConfirm, FloorInv, FloorVerdicts
  <2> QED
    BY <1>2, <2>2, <2>1, <2>4, <2>5 DEF AutoConfirm
<1>3. CASE Allowed
  <2>1. log' \in Seq(Entry) /\ LetResults'
    BY <1>3, RecordedEntry DEF Allowed, Permit, Audit, Entry, Letting
  <2> QED
    BY <1>3, <2>1 DEF Allowed, Permit, FloorInv, FloorVerdicts
<1> QED
  BY <1>1, <1>2, <1>3

LEMMA WorldRuns ==
  ASSUME RunInv, Redacting \/ ChangeFiles \/ Killed \/ UNCHANGED vars
  PROVE  RunTypes' /\ RunPrompt' /\ RunChoices' /\ RunRecords'
PROOF
<1> USE DEF RunInv, choices, promptOnly, RunTypes, RunPrompt, Ready, RunChoices, Justified,
            RunRecords, NoResults, LetResults, Reading
<1>1. CASE Redacting
  <2>1. process' = "kubectl" => process = "kubectl"
    BY <1>1, RedactingStarts
  <2> QED
    BY <1>1, <2>1 DEF Redacting
<1>2. CASE ChangeFiles
  BY <1>2 DEF ChangeFiles, handler
<1>3. CASE Killed
  BY <1>3 DEF Killed
<1>4. CASE UNCHANGED vars
  BY <1>4 DEF vars, handler
<1> QED
  BY <1>1, <1>2, <1>3, <1>4

LEMMA NextRuns == RunInv /\ [Next]_vars => RunInv'
PROOF
<1> SUFFICES ASSUME RunInv, [Next]_vars PROVE RunInv'
  OBVIOUS
<1>1. FloorInv'
  BY DecidingFloor, OtherFloor DEF Next, RunInv
<1>2. DecisionInv'
  BY PromptDecision, OtherDecision DEF Next, RunInv
<1>3. RunTypes' /\ RunPrompt' /\ RunChoices' /\ RunRecords'
  <2>1. CASE Prompting
    BY <1>2, <2>1, AnsweringRuns, DecideRuns, AnsweredRuns, WatchingRuns
       DEF Prompting, C!Next, C!Asking
  <2>2. CASE Deciding \/ CloseWizard
    BY <2>2, SilentRuns, EndingRuns, LettingRuns DEF Deciding
  <2> QED
    BY <2>1, <2>2, WorldRuns DEF Next
<1> QED
  BY <1>1, <1>2, <1>3 DEF RunInv

LEMMA InitRuns == Init => RunInv
BY InitFloor
   DEF Init, RunInv, DecisionInv, PastClaim, RunTypes, RunPrompt, RunChoices, RunRecords,
       Ready, NoResults, LetResults, Args, Plain, C!Justifications

(***************************************************************************)
(* kubectl is started only by a way through the dispatch that says so, and *)
(* no entry of the log says otherwise.                                     *)
(***************************************************************************)
THEOREM RunsHold == Spec => []RunsAsDecided
PROOF
<1>1. RunInv => RunsAsDecided
  BY DEF RunInv, FloorInv, FloorVerdicts, FloorStarted, RunChoices, RunRecords, Ready,
         Justified, LetResults, Letting, RunsAsDecided, Started, Results
<1> QED
  BY InitRuns, NextRuns, <1>1, PTL DEF Spec
-----------------------------------------------------------------------------
(***************************************************************************)
(* One verdict on record.  The invariant adds to RunInv that the first     *)
(* result is the last, that where the process may end with a verdict that  *)
(* must be recorded there is one, and that nothing is on record yet when   *)
(* the watcher has won.                                                    *)
(***************************************************************************)
Said ==
  /\ \A i, j \in Results : i = j
  /\ \A i \in Results : log[i].outcome \in Outcomes[verdict]
  /\ \A i \in DOMAIN log : log[i].reason = "bypass-refused" => log[i].outcome = "denied"
  /\ C!RecordAgrees

Awaited ==
  /\ watcher = "interrupted" => NoResults
  /\ stage \in Reading => policy = Lenient
  /\ stage = "wizard" => verdict = "setup"
  /\ stage = "stop" => verdict \in {"deny", "blocked"}

Spoken ==
  \/ stage \in {"exec", "redact", "end"}
  \/ stage = "prompt" /\ (main \in {"exec", "exit"} \/ watcher = "exit")

Written ==
  /\ Spoken /\ MustRecord => ~NoResults
  /\ Ended => Spoken \/ stage = "failed"

VerdictInv == Said /\ Awaited /\ Written

\* A log with refused bypasses only contradicts nothing.
LEMMA RefusalsSay ==
  ASSUME NoResults,
         \A i \in DOMAIN log : log[i].reason = "bypass-refused" => log[i].outcome = "denied"
  PROVE  Said
BY DEF NoResults, Said, Results, C!RecordAgrees, C!Entries, C!Interruptions

LEMMA SameSaid ==
  ASSUME Said, log' = log, UNCHANGED <<verdict, policy, decided, outcome>> \/ NoResults
  PROVE  Said'
BY DEF NoResults, Said, Results, C!RecordAgrees, C!Entries, C!Interruptions

LEMMA FirstResult ==
  ASSUME log \in Seq(Entry), Said, NoResults, NEW e \in Entry, log' = Append(log, e),
         e.reason # "bypass-refused", e.outcome \in Outcomes[verdict'],
         e.outcome = "confirmed" =>
           /\ decided' = "main" /\ outcome' = "approved"
           /\ policy'.justify => e.justification \in {"flag", "typed"},
         e.reason = "interrupted" => decided' = "watcher"
  PROVE  Said' /\ ~NoResults'
PROOF
<1> DEFINE n == Len(log) + 1
<1>1. DOMAIN log' = 1 .. n /\ DOMAIN log = 1 .. (n - 1) /\ n \in DOMAIN log'
  OBVIOUS
<1>2. log'[n] = e /\ \A i \in DOMAIN log : log'[i] = log[i]
  OBVIOUS
<1>3. \A i \in DOMAIN log' : i = n \/ i \in DOMAIN log
  BY <1>1
<1> HIDE DEF n
<1>4. \A i \in DOMAIN log' :
        i # n => log'[i].reason = "bypass-refused" /\ log'[i].outcome = "denied"
  BY <1>2, <1>3 DEF NoResults, Said
<1> QED
  BY <1>1, <1>2, <1>4
     DEF NoResults, Said, Results, C!RecordAgrees, C!Entries, C!Interruptions

\* An entry of the dispatch.
LEMMA FirstRecorded ==
  ASSUME log \in Seq(Entry), Said, NoResults, NEW mode, NEW result, NEW why, NEW reason,
         [outcome |-> result, reason |-> why, justification |-> reason] \in Entry,
         Recorded(mode, result, why, reason),
         why \notin {"bypass-refused", "interrupted"},
         result \in Outcomes[verdict'], result # "confirmed"
  PROVE  Said' /\ (Kept(mode, result) => ~NoResults')
PROOF
<1> DEFINE e == [outcome |-> result, reason |-> why, justification |-> reason]
<1>1. e \in Entry /\ e.reason = why /\ e.outcome = result
  OBVIOUS
<1>2. CASE Kept(mode, result)
  <2>1. log' = Append(log, e)
    BY <1>2 DEF Recorded
  <2> QED
    BY <1>1, <2>1, FirstResult
<1>3. CASE ~Kept(mode, result)
  BY <1>3, SameSaid DEF Recorded
<1> QED
  BY <1>2, <1>3

\* An entry of the prompt.
LEMMA FirstPrompted ==
  ASSUME RunTypes, Said, NoResults, verdict' = "confirm", policy' = policy,
         NEW result \in {"confirmed", "aborted"},
         NEW why \in {"", "interrupted", "timeout", "justification-required"},
         C!Audit(result, why),
         result = "confirmed" => decided' = "main" /\ outcome' = "approved" /\ Justified,
         why = "interrupted" => decided' = "watcher"
  PROVE  Said' /\ (policy.audit # "none" => ~NoResults')
PROOF
<1> DEFINE e == [outcome |-> result, reason |-> why, justification |-> justification]
<1>1. e \in Entry /\ e.reason = why /\ e.outcome = result /\ e.justification = justification
  BY PromptedEntry
<1>2. e.outcome \in Outcomes[verdict']
  BY DEF Outcomes
<1>3. CASE policy.audit # "none"
  <2>1. log' = Append(log, e)
    BY <1>3 DEF C!Audit
  <2> HIDE DEF e
  <2> QED
    BY <1>1, <1>2, <2>1, FirstResult DEF RunTypes, Justified
<1>4. CASE policy.audit = "none"
  BY <1>4, SameSaid DEF C!Audit
<1> QED
  BY <1>3, <1>4

\* Steps of the dispatch that record nothing.
LEMMA SilentVerdicts ==
  ASSUME RunInv, VerdictInv,
         Enter \/ Check \/ Save \/ HeadlessDeny \/ OpenWizard \/ CloseWizard \/ OpenPrompt \/ Exec
  PROVE  VerdictInv'
PROOF
<1> USE DEF RunInv, VerdictInv, Step, choices, promptOnly, Running, Exit, RunRecords,
            Awaited, Written, Spoken, Ended, Reading
<1>1. CASE Enter \/ OpenPrompt
  <2>1. Said'
    BY <1>1, SameSaid DEF Enter, OpenPrompt
  <2>2. ~Spoken'
    BY <1>1 DEF Enter, OpenPrompt, RunPrompt, DecisionInv
  <2> QED
    BY <1>1, <2>1, <2>2 DEF Enter, OpenPrompt, NoResults
<1>2. CASE Check
  <2>1. Said'
    BY <1>2, SameSaid DEF Check
  <2> QED
    BY <1>2, <2>1 DEF Check, Branch, RunPrompt, NoResults
<1>3. CASE Save \/ HeadlessDeny \/ OpenWizard \/ CloseWizard
  <2>1. verdict = "setup" /\ verdict' = "setup"
    BY <1>3 DEF Save, HeadlessDeny, OpenWizard, CloseWizard, FloorInv, FloorVerdicts
  <2>2. Said'
    BY <1>3, SameSaid DEF Save, HeadlessDeny, OpenWizard, CloseWizard
  <2> QED
    BY <1>3, <2>1, <2>2
       DEF Save, HeadlessDeny, OpenWizard, CloseWizard, MustRecord, NoResults
<1>4. CASE Exec
  <2>1. Said'
    BY <1>4, SameSaid DEF Exec
  <2> QED
    BY <1>4, <2>1 DEF Exec, MustRecord, NoResults
<1> QED
  BY <1>1, <1>2, <1>3, <1>4

\* A refused bypass.
LEMMA RefusedVerdicts ==
  ASSUME RunInv, VerdictInv, Refused
  PROVE  VerdictInv'
PROOF
<1> USE DEF RunInv, VerdictInv, Refused
<1>1. NoResults
  BY DEF Step, RunRecords, Reading
<1>2. Said' /\ NoResults'
  <2>1. CASE UNCHANGED log
    BY <1>1, <2>1, SameSaid DEF NoResults
  <2>2. ASSUME NEW mode, Recorded(mode, "denied", "bypass-refused", "none")
        PROVE  Said' /\ NoResults'
    <3> DEFINE e == [outcome |-> "denied", reason |-> "bypass-refused", justification |-> "none"]
    <3>1. CASE Kept(mode, "denied")
      <4>1. log' = Append(log, e)
        BY <2>2, <3>1 DEF Recorded
      <4>2. log \in Seq(Entry) /\ e \in Entry
        BY DEF RunTypes, Entry, C!Justifications
      <4>3. \A i \in DOMAIN log' : (i \in DOMAIN log /\ log'[i] = log[i]) \/ log'[i] = e
        BY <4>1, <4>2
      <4>4. \A i \in DOMAIN log' :
              log'[i].reason = "bypass-refused" /\ log'[i].outcome = "denied"
        BY <1>1, <4>3 DEF NoResults, Said
      <4> QED
        BY <4>4 DEF NoResults, Said, Results, C!RecordAgrees, C!Entries, C!Interruptions
    <3>2. CASE ~Kept(mode, "denied")
      BY <1>1, <2>2, <3>2, SameSaid DEF Recorded, NoResults
    <3> QED
      BY <3>1, <3>2
  <2> QED
    BY <2>1, <2>2
<1> QED
  BY <1>2
     DEF Step, choices, Running, Awaited, Written, Spoken, Ended, Reading, RunPrompt

\* The ends of the dispatch, and what is on record of them.
LEMMA EndingVerdicts ==
  ASSUME RunInv, VerdictInv, Stop \/ RefuseYes \/ YesUnjustified \/ Relay \/ AbortJSON
  PROVE  VerdictInv'
PROOF
<1> USE DEF RunInv, VerdictInv, Step, choices, Running
<1>1. NoResults /\ log \in Seq(Entry) /\ justification \in C!Justifications
  BY DEF Stop, RefuseYes, YesUnjustified, Relay, AbortJSON, RunRecords, RunTypes
<1>2. ASSUME NEW result \in {"aborted", "denied", "relayed", "blocked"},
             NEW why \in {"", "auto-confirm-refused", "justification-required"},
             Audit(result, why), result \in Outcomes[verdict']
      PROVE  Said' /\ (Kept(policy.audit, result) => ~NoResults')
  <2>1. [outcome |-> result, reason |-> why, justification |-> justification] \in Entry
    BY <1>1 DEF Entry
  <2> QED
    BY <1>1, <1>2, <2>1, FirstRecorded DEF Audit
<1>3. CASE Stop
  <2>1. Said' /\ (MustRecord' => ~NoResults')
    <3>1. CASE verdict = "deny"
      <4>1. "denied" \in Outcomes[verdict'] /\ Audit("denied", "")
        BY <1>3, <3>1 DEF Stop, Outcomes
      <4> QED
        BY <1>2, <1>3, <3>1, <4>1 DEF Stop, MustRecord, Kept
    <3>2. CASE verdict = "blocked"
      <4>1. "blocked" \in Outcomes[verdict'] /\ Audit("blocked", "")
        BY <1>3, <3>2 DEF Stop, Outcomes
      <4> QED
        BY <1>2, <1>3, <3>2, <4>1 DEF Stop, MustRecord, Kept
    <3> QED
      BY <1>3, <3>1, <3>2 DEF Stop, Awaited
  <2> QED
    BY <1>3, <2>1 DEF Stop, Awaited, Written, Spoken, Reading, RunPrompt, DecisionInv
<1>4. CASE RefuseYes \/ YesUnjustified \/ Relay \/ AbortJSON
  <2>1. verdict = "confirm" /\ verdict' = "confirm" /\ policy' = policy
    BY <1>4 DEF RefuseYes, YesUnjustified, Relay, AbortJSON, FloorInv, FloorVerdicts
  <2>2. ASSUME NEW result \in {"aborted", "denied", "relayed"},
               NEW why \in {"", "auto-confirm-refused", "justification-required"},
               Audit(result, why)
        PROVE  Said' /\ (MustRecord' => ~NoResults')
    <3>1. result \in Outcomes[verdict']
      BY <2>1 DEF Outcomes
    <3>2. Said' /\ (Kept(policy.audit, result) => ~NoResults')
      BY <1>2, <2>2, <3>1
    <3> QED
      BY <2>1, <3>2 DEF MustRecord, Kept
  <2>3. CASE stage' = "failed"
    <3>1. Said'
      BY <1>1, <1>4, <2>3, SameSaid DEF RefuseYes, YesUnjustified, Relay, AbortJSON
    <3> QED
      BY <1>4, <2>1, <2>3, <3>1
         DEF RefuseYes, YesUnjustified, Relay, AbortJSON, Awaited, Written, Spoken,
             Reading, RunPrompt, DecisionInv
  <2>4. CASE stage' = "end"
    <3>1. Said' /\ (MustRecord' => ~NoResults')
      BY <1>4, <2>2, <2>4 DEF RefuseYes, YesUnjustified, Relay, AbortJSON
    <3> QED
      BY <1>4, <2>1, <2>4, <3>1
         DEF RefuseYes, YesUnjustified, Relay, AbortJSON, Awaited, Written, Spoken,
             Reading, RunPrompt, DecisionInv
  <2> QED
    BY <1>4, <2>3, <2>4 DEF RefuseYes, YesUnjustified, Relay, AbortJSON
<1> QED
  BY <1>3, <1>4

\* The ways to kubectl, and what is on record before it starts.
LEMMA LettingVerdicts ==
  ASSUME RunInv, VerdictInv, Bypass \/ AutoConfirm \/ Allowed
  PROVE  VerdictInv'
PROOF
<1> USE DEF RunInv, VerdictInv, Step, choices, Running
<1>1. NoResults /\ log \in Seq(Entry) /\ justification \in C!Justifications
  BY DEF Bypass, AutoConfirm, Allowed, Permit, RunRecords, RunTypes, Reading
<1>2. ASSUME NEW mode, NEW result \in {"bypassed", "auto-confirmed", "allowed"},
             NEW reason \in C!Justifications,
             Recorded(mode, result, "", reason), result \in Outcomes[verdict']
      PROVE  Said' /\ (Kept(mode, result) => ~NoResults')
  <2>1. [outcome |-> result, reason |-> "", justification |-> reason] \in Entry
    BY DEF Entry
  <2> QED
    BY <1>1, <1>2, <2>1, FirstRecorded
<1>3. CASE Bypass
  <2>1. "bypassed" \in Outcomes[verdict'] /\ "none" \in C!Justifications
    BY <1>3 DEF Bypass, Outcomes, C!Justifications
  <2>2. Said' /\ (MustRecord' => ~NoResults')
    <3>1. CASE Recorded(policy'.audit, "bypassed", "", "none")
      BY <1>2, <1>3, <2>1, <3>1 DEF Bypass, MustRecord, Kept
    <3>2. CASE UNCHANGED <<policy, log>>
      <4>1. policy' = Lenient
        <5>1. stage = "bypass"
          BY <1>3 DEF Bypass
        <5> QED
          BY <3>2, <5>1 DEF Awaited, Reading
      <4>2. Said'
        BY <1>1, <3>2, SameSaid
      <4>3. ~MustRecord'
        BY <4>1 DEF MustRecord, Lenient
      <4> QED
        BY <4>2, <4>3
    <3> QED
      BY <1>3, <3>1, <3>2 DEF Bypass
  <2> QED
    BY <1>3, <2>2 DEF Bypass, Awaited, Written, Spoken, Reading, RunPrompt, DecisionInv
<1>4. CASE AutoConfirm
  <2>1. justification' \in C!Justifications
    BY <1>4 DEF AutoConfirm, Given, C!Justifications, RunTypes, Args
  <2>2. verdict' = "confirm" /\ "auto-confirmed" \in Outcomes["confirm"]
    BY <1>4 DEF AutoConfirm, Outcomes, FloorInv, FloorVerdicts
  <2>3. Said' /\ (MustRecord' => ~NoResults')
    BY <1>2, <1>4, <2>1, <2>2 DEF AutoConfirm, MustRecord, Kept
  <2> QED
    BY <1>4, <2>2, <2>3
       DEF AutoConfirm, Awaited, Written, Spoken, Reading, RunPrompt, DecisionInv
<1>5. CASE Allowed
  <2>1. verdict' = "allow" /\ "allowed" \in Outcomes["allow"]
    BY <1>5 DEF Allowed, Permit, Outcomes, FloorInv, FloorVerdicts
  <2>2. Said' /\ (Kept(policy.audit, "allowed") => ~NoResults')
    BY <1>1, <1>2, <1>5, <2>1 DEF Allowed, Audit
  <2>3. MustRecord' => Kept(policy.audit, "allowed")
    BY <1>5, <2>1 DEF Allowed, Permit, MustRecord, Kept
  <2> QED
    BY <1>5, <2>1, <2>2, <2>3
       DEF Allowed, Permit, Awaited, Written, Spoken, Reading, RunPrompt, DecisionInv
<1> QED
  BY <1>3, <1>4, <1>5

\* The prompt: whichever goroutine records, it is the first to.
LEMMA AnsweringVerdicts ==
  ASSUME RunInv, VerdictInv, Prompting,
         \/ C!Notify \/ C!Preview \/ C!Answer \/ C!ClaimAnswer \/ C!StopSignals
         \/ C!CloseDone \/ C!Reason \/ C!Select \/ C!ClaimInterrupt
  PROVE  VerdictInv'
PROOF
<1> USE DEF RunInv, VerdictInv, Prompting, choices, C!Main, C!Watcher, C!channels, C!verdict,
            C!Running, C!Notify, C!Preview, C!Answer, C!ClaimAnswer, C!StopSignals,
            C!CloseDone, C!Reason, C!Select, C!ClaimInterrupt
<1>1. Said'
  <2>1. CASE UNCHANGED <<decided, outcome>>
    BY <2>1, SameSaid
  <2>2. CASE ~UNCHANGED <<decided, outcome>>
    <3>1. NoResults \/ decided = "watcher"
      BY <2>2 DEF RunRecords, DecisionInv, PastClaim
    <3>2. CASE decided = "watcher"
      <4>1. decided' = "watcher" /\ UNCHANGED <<log, verdict, policy>>
        BY <3>2, PromptDecision
      <4> QED
        BY <3>2, <4>1 DEF Said, Results, C!RecordAgrees, C!Entries, C!Interruptions
    <3> QED
      BY <3>1, <3>2, SameSaid
  <2> QED
    BY <2>1, <2>2
<1>2. Awaited'
  BY DEF Awaited, NoResults, RunRecords, Reading, DecisionInv, PastClaim
<1>3. Written'
  BY DEF Written, Spoken, Ended, MustRecord, NoResults, FloorInv, FloorVerdicts
<1> QED
  BY <1>1, <1>2, <1>3

LEMMA RecordingVerdicts ==
  ASSUME RunInv, VerdictInv, Prompting,
         C!Decide \/ C!Unjustified \/ C!Confirmed \/ C!Interrupted
  PROVE  VerdictInv'
PROOF
<1> USE DEF RunInv, VerdictInv, Prompting, choices, C!Main, C!Watcher, C!channels, C!verdict,
            C!Running
<1>1. NoResults /\ ~Spoken /\ process' = "running"
  <2>1. CASE C!Decide \/ C!Unjustified \/ C!Confirmed
    BY <2>1 DEF C!Decide, C!Unjustified, C!Confirmed, RunRecords, RunPrompt, DecisionInv,
                PastClaim, Spoken
  <2>2. CASE C!Interrupted
    BY <2>2 DEF C!Interrupted, Awaited, RunPrompt, DecisionInv, PastClaim, Spoken
  <2> QED
    BY <2>1, <2>2
<1>2. verdict' = "confirm" /\ policy' = policy
  BY DEF FloorInv, FloorVerdicts
<1>3. ASSUME NEW result \in {"confirmed", "aborted"},
             NEW why \in {"", "interrupted", "timeout", "justification-required"},
             C!Audit(result, why),
             result = "confirmed" => decided' = "main" /\ outcome' = "approved" /\ Justified,
             why = "interrupted" => decided' = "watcher"
      PROVE  Said' /\ (MustRecord' => ~NoResults')
  BY <1>1, <1>2, <1>3, FirstPrompted DEF MustRecord
<1>4. CASE C!Decide /\ main' # "exit"
  <2>1. Said' /\ ~Spoken'
    BY <1>1, <1>4, SameSaid DEF C!Decide, Spoken
  <2> QED
    BY <1>1, <1>4, <2>1 DEF C!Decide, Awaited, Written, Ended, NoResults
<1>5. CASE C!Decide /\ main' = "exit"
  <2>1. Said' /\ (MustRecord' => ~NoResults')
    BY <1>3, <1>5 DEF C!Decide
  <2> QED
    BY <1>1, <1>5, <2>1 DEF C!Decide, Awaited, Written, Ended, RunPrompt, DecisionInv, PastClaim
<1>6. CASE C!Unjustified \/ C!Confirmed
  <2>1. Said' /\ (MustRecord' => ~NoResults')
    BY <1>3, <1>6 DEF C!Unjustified, C!Confirmed, RunPrompt, DecisionInv, PastClaim
  <2> QED
    BY <1>1, <1>6, <2>1
       DEF C!Unjustified, C!Confirmed, Awaited, Written, Ended, RunPrompt, DecisionInv,
           PastClaim
<1>7. CASE C!Interrupted
  <2>1. Said' /\ (MustRecord' => ~NoResults')
    BY <1>3, <1>7 DEF C!Interrupted, RunPrompt
  <2> QED
    BY <1>1, <1>7, <2>1 DEF C!Interrupted, Awaited, Written, Ended
<1> QED
  BY <1>4, <1>5, <1>6, <1>7

\* Steps after the record is written, and those that are not the dispatch's.
LEMMA OtherVerdicts ==
  ASSUME RunInv, VerdictInv,
         \/ Prompting /\ (C!ExecOrExit \/ C!ExitInterrupted \/ C!Signal)
         \/ Redacting \/ ChangeFiles \/ Killed \/ UNCHANGED vars
  PROVE  VerdictInv'
PROOF
<1> USE DEF RunInv, VerdictInv, Awaited, Written, Ended, MustRecord, NoResults
<1>1. CASE Prompting /\ (C!ExecOrExit \/ C!ExitInterrupted \/ C!Signal)
  <2>1. UNCHANGED <<stage, verdict, policy, decided, outcome, log>>
    BY <1>1 DEF Prompting, choices, C!ExecOrExit, C!ExitInterrupted, C!Signal, C!verdict
  <2>2. Said'
    BY <2>1, SameSaid
  <2>3. watcher' = watcher
    BY <1>1 DEF C!ExecOrExit, C!ExitInterrupted, C!Signal, C!Main, C!Watcher
  <2>4. (Spoken' => Spoken) /\ (Ended' => Spoken')
    BY <1>1, <2>1, <2>3
       DEF Prompting, Spoken, C!ExecOrExit, C!ExitInterrupted, C!Signal, C!Main, C!Watcher,
           C!Exit, C!Running
  <2> QED
    BY <2>1, <2>2, <2>3, <2>4
<1>2. CASE Redacting
  <2>1. Said'
    BY <1>2, SameSaid DEF Redacting, choices, promptOnly
  <2> QED
    BY <1>2, <2>1 DEF Redacting, choices, promptOnly, Spoken
<1>3. CASE ChangeFiles \/ Killed
  <2>1. Said'
    BY <1>3, SameSaid DEF ChangeFiles, Killed, choices, promptOnly
  <2> QED
    BY <1>3, <2>1 DEF ChangeFiles, Killed, choices, promptOnly, handler, Spoken
<1>4. CASE UNCHANGED vars
  <2>1. Said'
    BY <1>4, SameSaid DEF vars, choices, promptOnly
  <2> QED
    BY <1>4, <2>1 DEF vars, choices, promptOnly, handler, Spoken
<1> QED
  BY <1>1, <1>2, <1>3, <1>4

LEMMA NextVerdicts == RunInv /\ VerdictInv /\ [Next]_vars => VerdictInv'
PROOF
<1> SUFFICES ASSUME RunInv, VerdictInv, [Next]_vars PROVE VerdictInv'
  OBVIOUS
<1>1. CASE Prompting
  BY <1>1, AnsweringVerdicts, RecordingVerdicts, OtherVerdicts
     DEF Prompting, C!Next, C!Asking, C!Watching
<1>2. CASE Deciding \/ CloseWizard
  BY <1>2, SilentVerdicts, RefusedVerdicts, EndingVerdicts, LettingVerdicts DEF Deciding
<1> QED
  BY <1>1, <1>2, OtherVerdicts DEF Next

LEMMA InitVerdicts == Init => VerdictInv
PROOF
<1> SUFFICES ASSUME Init PROVE VerdictInv
  OBVIOUS
<1>1. Said
  BY RefusalsSay DEF Init, NoResults
<1> QED
  BY <1>1 DEF Init, VerdictInv, Awaited, Written, Spoken, Ended, NoResults

(***************************************************************************)
(* Whichever way an invocation ends, and whoever wins at the prompt, the   *)
(* log has at most one result of it, one if a config with auditing decided,*)
(* and it says what was decided.                                           *)
(***************************************************************************)
THEOREM OneVerdictHolds == Spec => []OneVerdict
PROOF
<1>1. RunInv /\ VerdictInv => OneVerdict
  BY DEF VerdictInv, Said, Written, NoResults, OneVerdict, Results, MustRecord
<1> QED
  BY InitRuns, InitVerdicts, NextRuns, NextVerdicts, <1>1, PTL DEF Spec
=====================================================================================
