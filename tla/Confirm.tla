--------------------------------- MODULE Confirm ---------------------------------
(***************************************************************************)
(* The interactive confirmation of a gated command (main.go, runGuard,     *)
(* case RequireConfirmation; ui/prompt.go): one process with two           *)
(* goroutines, the one that asks and the one that watches for SIGINT and   *)
(* SIGTERM, and around them an operator, a timer and the sender of         *)
(* signals.                                                                *)
(***************************************************************************)
EXTENDS Naturals, Sequences

CONSTANT MaxSignals  \* bound: how many signals are sent, a natural number

\* What the confirmation depends on: confirm_timeout_seconds is positive,
\* require_justification, --reason, and whether the audit log takes entries.
Modes == [timed : BOOLEAN, justify : BOOLEAN, flag : {"absent", "blank", "given"},
          audits : BOOLEAN]

VARIABLES
  mode,      \* of this invocation
  main,      \* the asking goroutine: its next step
  watcher,   \* the watching goroutine: its next step
  notified,  \* signal.Notify is in force: signals go to sigCh
  buffered,  \* sigCh, of capacity one, holds a signal
  closed,    \* sigDone is closed
  decided,   \* who won the compare-and-swap, or "nobody"
  outcome,   \* what ui.Confirm returned
  justification,  \* the recorded reason: "none", "blank", "flag" or "typed"
  log,       \* entries appended to the audit log
  process,   \* "running", "exited", "killed" or "kubectl", after execve
  signals    \* signals still to come

vars == <<mode, main, watcher, notified, buffered, closed, decided, outcome,
          justification, log, process, signals>>

Justifications == {"none", "blank", "flag", "typed"}
Entry == [outcome : {"confirmed", "aborted"},
          reason : {"", "interrupted", "timeout", "justification-required"},
          justification : Justifications]

\* What the states of the prompt are; the log may hold entries from outside.
PromptTypeOK ==
  /\ mode \in Modes
  /\ main \in {"notify", "preview", "prompt", "claim", "stop", "close", "answered",
               "reason", "unjustified", "confirmed", "exec", "exit", "blocked"}
  /\ watcher \in {"unborn", "select", "claim", "interrupted", "exit", "gone"}
  /\ notified \in BOOLEAN /\ buffered \in BOOLEAN /\ closed \in BOOLEAN
  /\ decided \in {"nobody", "main", "watcher"}
  /\ outcome \in {"none", "approved", "declined", "timed out"}
  /\ justification \in Justifications
  /\ process \in {"running", "exited", "killed", "kubectl"}
  /\ signals \in 0 .. MaxSignals

Init ==
  /\ mode \in Modes
  /\ main = "notify" /\ watcher = "unborn"
  /\ notified = FALSE /\ buffered = FALSE /\ closed = FALSE
  /\ decided = "nobody"
  /\ outcome = "none"
  /\ justification = "none"
  /\ log = <<>>
  /\ process = "running"
  /\ signals = MaxSignals

Running == process = "running"

\* One goroutine moves from step to step; nothing moves in a process that ended.
Main(from, to) == Running /\ main = from /\ main' = to /\ UNCHANGED <<watcher, mode, signals>>
Watcher(from, to) == Running /\ watcher = from /\ watcher' = to /\ UNCHANGED <<main, mode, signals>>

channels == <<notified, buffered, closed>>
verdict == <<decided, outcome, justification>>

\* audit(outcome, reason): best effort, so a failing append is not noticed.
Audit(result, why) ==
  log' = IF mode.audits
           THEN Append(log, [outcome |-> result, reason |-> why,
                             justification |-> justification])
           ELSE log

\* os.Exit ends both goroutines.
Exit == process' = "exited"

-----------------------------------------------------------------------------
(***************************************************************************)
(* The asking goroutine.                                                   *)
(***************************************************************************)
Notify ==
  /\ Running /\ main = "notify" /\ main' = "preview"
  /\ watcher' = "select"
  /\ notified' = TRUE
  /\ UNCHANGED <<mode, signals, buffered, closed, verdict, log, process>>

\* kubectl diff or get may take long, and may fail; the prompt follows anyway.
Preview == Main("preview", "prompt") /\ UNCHANGED <<channels, verdict, log, process>>

\* The operator's line, end of file, or the timer: ui.Confirm returns.
Answer ==
  /\ Main("prompt", "claim")
  /\ outcome' \in {"approved", "declined"} \cup (IF mode.timed THEN {"timed out"} ELSE {})
  /\ UNCHANGED <<channels, decided, justification, log, process>>

\* Faulty variant of ClaimAnswer: it does not look at the decision.
ClaimNothing ==
  /\ Main("claim", "stop")
  /\ UNCHANGED <<channels, verdict, log, process>>

\* CompareAndSwap; the loser waits for the watcher's os.Exit.
ClaimAnswer ==
  /\ \/ decided = "nobody" /\ Main("claim", "stop") /\ decided' = "main"
     \/ decided # "nobody" /\ Main("claim", "blocked") /\ UNCHANGED decided
  /\ UNCHANGED <<channels, outcome, justification, log, process>>

\* signal.Stop: the default disposition is back.  The buffer is not drained.
StopSignals ==
  /\ Main("stop", "close") /\ notified' = FALSE
  /\ UNCHANGED <<buffered, closed, verdict, log, process>>

CloseDone ==
  /\ Main("close", "answered") /\ closed' = TRUE
  /\ UNCHANGED <<notified, buffered, verdict, log, process>>

\* The switch on the outcome.
Decide ==
  /\ \/ /\ outcome = "approved" /\ mode.justify /\ mode.flag # "given"
        /\ Main("answered", "reason") /\ UNCHANGED <<justification, log>>
     \/ /\ outcome = "approved" /\ (mode.justify => mode.flag = "given")
        /\ Main("answered", "confirmed")
        /\ justification' = CASE mode.flag = "given" -> "flag"
                              [] mode.flag = "blank" -> "blank"
                              [] mode.flag = "absent" -> "none"
        /\ UNCHANGED log
     \/ /\ outcome # "approved" /\ Main("answered", "exit")
        /\ Audit("aborted", IF outcome = "timed out" THEN "timeout" ELSE "")
        /\ UNCHANGED justification
  /\ UNCHANGED <<channels, decided, outcome, process>>

\* Faulty variant of Reason: an empty reason is recorded like any other.
ReasonUnchecked ==
  /\ Main("reason", "confirmed") /\ justification' \in {"typed", ""}
  /\ UNCHANGED <<channels, decided, outcome, log, process>>

\* PromptReason: a line with text, or a blank line, end of file or the timer.
Reason ==
  /\ \/ Main("reason", "confirmed") /\ justification' = "typed"
     \/ Main("reason", "unjustified") /\ UNCHANGED justification
  /\ UNCHANGED <<channels, decided, outcome, log, process>>

Unjustified ==
  /\ Main("unjustified", "exit") /\ Audit("aborted", "justification-required")
  /\ UNCHANGED <<channels, verdict, process>>

Confirmed ==
  /\ Main("confirmed", "exec") /\ Audit("confirmed", "")
  /\ UNCHANGED <<channels, verdict, process>>

\* execKubectl replaces the process, or returns an error and main() exits.
ExecOrExit ==
  /\ \/ Main("exec", "exit") /\ process' \in {"kubectl", "exited"}
     \/ Main("exit", "exit") /\ Exit
  /\ UNCHANGED <<channels, verdict, log>>

Asking ==
  \/ Notify \/ Preview \/ Answer \/ ClaimAnswer \/ StopSignals \/ CloseDone \/ Decide
  \/ Reason \/ Unjustified \/ Confirmed \/ ExecOrExit

-----------------------------------------------------------------------------
(***************************************************************************)
(* The watching goroutine.  Its select may take either ready case.         *)
(***************************************************************************)
\* Faulty variant of Select: only the end of the prompt is waited for.
SelectDone ==
  /\ closed /\ Watcher("select", "gone")
  /\ UNCHANGED <<channels, verdict, log, process>>

Select ==
  /\ \/ buffered /\ buffered' = FALSE /\ Watcher("select", "claim")
     \/ closed /\ Watcher("select", "gone") /\ UNCHANGED buffered
  /\ UNCHANGED <<notified, closed, verdict, log, process>>

ClaimInterrupt ==
  /\ \/ decided = "nobody" /\ Watcher("claim", "interrupted") /\ decided' = "watcher"
     \/ decided # "nobody" /\ Watcher("claim", "gone") /\ UNCHANGED decided
  /\ UNCHANGED <<channels, outcome, justification, log, process>>

Interrupted ==
  /\ Watcher("interrupted", "exit") /\ Audit("aborted", "interrupted")
  /\ UNCHANGED <<channels, verdict, process>>

\* Faulty variant of ExitInterrupted: the goroutine returns, the process goes on.
ReturnInterrupted ==
  /\ Watcher("exit", "gone")
  /\ UNCHANGED <<channels, verdict, log, process>>

ExitInterrupted ==
  /\ Watcher("exit", "exit") /\ Exit
  /\ UNCHANGED <<channels, verdict, log>>

Watching == Select \/ ClaimInterrupt \/ Interrupted \/ ExitInterrupted

-----------------------------------------------------------------------------
(***************************************************************************)
(* SIGINT or SIGTERM: into the channel unless it is full, or, with no      *)
(* handler, the end of the process.                                        *)
(***************************************************************************)
Signal ==
  /\ Running /\ signals > 0 /\ signals' = signals - 1
  /\ \/ notified /\ buffered' = TRUE /\ UNCHANGED process
     \/ ~notified /\ process' = "killed" /\ UNCHANGED buffered
  /\ UNCHANGED <<mode, main, watcher, notified, closed, verdict, log>>

Next == Asking \/ Watching \/ Signal

Spec == Init /\ [][Next]_vars

(***************************************************************************)
(* What the asking goroutine does with nobody else's help.  The operator   *)
(* need not answer: Answer and Reason are fair only when a timer bounds    *)
(* them.  The preview's kubectl need not return: no timer bounds it.       *)
(***************************************************************************)
AskingAlone ==
  \/ Notify \/ ClaimAnswer \/ StopSignals \/ CloseDone \/ Decide
  \/ Unjustified \/ Confirmed \/ ExecOrExit

-----------------------------------------------------------------------------
Entries(result) == {i \in DOMAIN log : log[i].outcome = result}
Interruptions == {i \in DOMAIN log : log[i].reason = "interrupted"}

(***************************************************************************)
(* A command the operator interrupted is not run: once the watcher has won,*)
(* kubectl is not started ("so we never run a command the operator         *)
(* interrupted", main.go).                                                 *)
(***************************************************************************)
InterruptedNeverRuns ==
  [][decided = "watcher" => process' # "kubectl"]_vars

(***************************************************************************)
(* What is on record agrees with what happened: an entry "confirmed" names *)
(* the justification in force, and an interrupted process is not one whose *)
(* answer won.                                                             *)
(***************************************************************************)
RecordAgrees ==
  /\ \A i \in Entries("confirmed") :
       /\ decided = "main" /\ outcome = "approved"
       /\ mode.justify => log[i].justification \in {"flag", "typed"}
  /\ Interruptions # {} => decided = "watcher"

==================================================================================
