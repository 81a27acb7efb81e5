------------------------------- MODULE RedactedGet -------------------------------
(***************************************************************************)
(* A `get -o json|yaml' under redact_output: structured (main.go,          *)
(* runRedactedGet; guard/redact_output.go): the only command that kubectl  *)
(* runs as a child, with a pipe between them.  The guard blanks documents  *)
(* as they come, passes on what it cannot parse, forwards signals, and     *)
(* ends with kubectl's status.                                             *)
(*                                                                         *)
(* Output is a sequence of chunks; the decoder works on chunks, and which  *)
(* fields of a document are blanked is not looked at.                      *)
(***************************************************************************)
EXTENDS Naturals, Sequences

CONSTANTS
  Capacity,   \* how many chunks the pipe holds, at least one
  Outputs     \* what kubectl may write: a format, and a sequence of Chunks; and whether
              \* it then hangs, as when its cluster does not answer

\* A chunk of the document `doc'; `sound' if the parser has no complaint by then.
Chunks == [doc : Nat, last : BOOLEAN, sound : BOOLEAN]

\* What kubectl writes under -o json when it does not watch (redactJSONStream: "a single
\* top-level JSON value").
SingleValue(chunks) ==
  \A i \in DOMAIN chunks :
    chunks[i].doc = chunks[1].doc /\ (chunks[i].last => i = Len(chunks))

\* qualifiesForOutputRedaction, of a `get' with these flags and this -o: a watch is
\* told by -w or --watch.
Qualifies(flags, format) == "--watch" \notin flags /\ format \in {"json", "yaml"}

VARIABLES
  output,    \* of this command
  step,      \* the guard's next step
  child,     \* kubectl: "none", "running", or its wait status
  sent,      \* how many chunks kubectl wrote,
  taken,     \* how many of them the guard read from the pipe,
  settled,   \* and how many of those it emitted or gave up
  emitted,   \* what is on the guard's stdout
  accepts,   \* the guard's stdout takes data (its disk is not full)
  failed,    \* the stream ended with an error
  status,    \* the guard's exit status
  notified,  \* signal.Notify is in force
  buffered,  \* sigCh, of capacity one, holds a signal
  process,   \* the guard: "running", "exited" or "killed"
  signals    \* signals still to come

stream == <<sent, taken, settled, emitted, failed>>
handler == <<notified, buffered, process, signals>>
getVars == <<output, step, child, stream, accepts, status, handler>>

Ends == {"ok", "error", "signal"}   \* wait statuses
GetTypeOK ==
  /\ output \in Outputs
  /\ step \in {"idle", "start", "notify", "decode", "emit", "flush", "copy", "wait", "exit"}
  /\ child \in {"none", "running"} \cup Ends
  /\ sent \in 0 .. Len(output.chunks) /\ taken \in 0 .. sent /\ settled \in 0 .. taken
  /\ emitted \in Seq([chunk : Nat, as : {"blanked", "raw"}])
  /\ accepts \in BOOLEAN /\ failed \in BOOLEAN
  /\ status \in {"none", "0", "n", "128+N", "255"}
  /\ notified \in BOOLEAN /\ buffered \in BOOLEAN
  /\ process \in {"running", "exited", "killed", "kubectl"} /\ signals \in Nat

Idle ==
  /\ step = "idle" /\ child = "none"
  /\ sent = 0 /\ taken = 0 /\ settled = 0 /\ emitted = <<>>
  /\ accepts = TRUE /\ failed = FALSE /\ status = "none"

GuardRuns == process = "running"
At(s) == GuardRuns /\ step = s
Goto(s) == step' = s

Chunk(i) == output.chunks[i]
\* The pipe: data to read, or the end of it.
Readable == taken < sent
AtEOF == child \in Ends /\ taken = sent

Emission(from, to, form) == [i \in 1 .. (to - from) |-> [chunk |-> from + i, as |-> form]]

-----------------------------------------------------------------------------
(***************************************************************************)
(* kubectl.                                                                *)
(***************************************************************************)
\* Nobody reads the pipe of a killed guard: SIGPIPE.
ChildWrite ==
  /\ child = "running" /\ sent < Len(output.chunks) /\ sent - taken < Capacity
  /\ IF process = "killed" THEN child' = "signal" /\ UNCHANGED sent
                           ELSE sent' = sent + 1 /\ UNCHANGED child
  /\ UNCHANGED <<output, step, taken, settled, emitted, failed, accepts, status, handler>>

\* It finishes when it has written everything, unless it hangs.
ChildEnd ==
  /\ child = "running" /\ sent = Len(output.chunks) /\ ~output.hangs /\ child' = "ok"
  /\ UNCHANGED <<output, step, stream, accepts, status, handler>>

\* It may fail at any time, but need not: nothing makes it fail that waits in write(2).
ChildFail ==
  /\ child = "running" /\ child' = "error"
  /\ UNCHANGED <<output, step, stream, accepts, status, handler>>

Kubectl == ChildWrite \/ ChildEnd

-----------------------------------------------------------------------------
(***************************************************************************)
(* The guard's main goroutine.                                             *)
(***************************************************************************)
\* exec.Cmd.Start: kubectl runs, or the guard exits without it.
Start ==
  /\ At("start")
  /\ \/ child' = "running" /\ Goto("notify") /\ UNCHANGED <<process, status>>
     \/ UNCHANGED <<child, step>> /\ process' = "exited" /\ status' = "n"
  /\ UNCHANGED <<output, stream, accepts, notified, buffered, signals>>

Notify ==
  /\ At("notify") /\ Goto("decode") /\ notified' = TRUE
  /\ UNCHANGED <<output, child, stream, accepts, status, buffered, process, signals>>

Pending == settled < taken
NextDocument == Pending /\ Chunk(taken + 1).doc # Chunk(settled + 1).doc

\* The JSON decoder returns with the first value's end, the YAML decoder when it
\* sees the next document or the end of the stream; either returns with an error
\* when a chunk is unsound, or a document is cut short.
Decode ==
  /\ At("decode")
  /\ \/ /\ Readable /\ taken' = taken + 1
        /\ \/ NextDocument /\ Goto("emit")
           \/ ~NextDocument /\ ~Chunk(taken + 1).sound /\ Goto("flush")
           \/ /\ ~NextDocument /\ Chunk(taken + 1).sound
              /\ IF output.format = "json" /\ Chunk(taken + 1).last
                   THEN Goto("emit") ELSE UNCHANGED step
     \/ /\ AtEOF /\ UNCHANGED taken
        /\ \/ output.format = "json" /\ Goto("flush")
           \/ output.format = "yaml" /\ ~Pending /\ Goto("wait")
           \/ /\ output.format = "yaml" /\ Pending
              /\ step' \in {"emit"} \cup (IF Chunk(taken).last THEN {} ELSE {"flush"})
  /\ UNCHANGED <<output, child, sent, settled, emitted, failed, accepts, status, handler>>

\* How far the decoded document reaches: not into the next one.
Decoded == IF Chunk(taken).doc # Chunk(settled + 1).doc THEN taken - 1 ELSE taken

\* redactValue, and the document is written; JSON has one document only.
Emit ==
  /\ At("emit")
  /\ \/ /\ accepts
        /\ emitted' = emitted \o Emission(settled, Decoded, "blanked") /\ settled' = Decoded
        /\ CASE output.format = "json" -> Goto("wait")
             [] output.format = "yaml" /\ Decoded < taken /\ ~Chunk(taken).sound -> Goto("flush")
             [] OTHER -> Goto("decode")
        /\ UNCHANGED failed
     \/ ~accepts /\ Goto("wait") /\ failed' = TRUE /\ UNCHANGED <<settled, emitted>>
  /\ UNCHANGED <<output, child, sent, taken, accepts, status, handler>>

\* captureUntilStop: what the decoder has read is kept only until a document is out.
Captured == IF emitted = <<>> THEN Emission(settled, taken, "raw") ELSE <<>>

\* Faulty variant of Flush: the bytes that the decoder had read are not put back.
FlushNothing ==
  /\ At("flush") /\ settled' = taken /\ Goto("copy")
  /\ UNCHANGED <<output, child, sent, taken, emitted, failed, accepts, status, handler>>

\* Fail open: first what the decoder has read.
Flush ==
  /\ At("flush")
  /\ \/ /\ accepts \/ Captured = <<>>
        /\ emitted' = emitted \o Captured /\ settled' = taken
        /\ Goto("copy") /\ UNCHANGED failed
     \/ /\ ~accepts /\ Captured # <<>>
        /\ Goto("wait") /\ failed' = TRUE /\ UNCHANGED <<settled, emitted>>
  /\ UNCHANGED <<output, child, sent, taken, accepts, status, handler>>

\* io.Copy: then the rest.
Copy ==
  /\ At("copy")
  /\ \/ /\ Readable /\ accepts
        /\ taken' = taken + 1 /\ settled' = taken'
        /\ emitted' = emitted \o Emission(taken, taken', "raw")
        /\ UNCHANGED <<step, failed>>
     \/ /\ Readable /\ ~accepts
        /\ taken' = taken + 1 /\ Goto("wait") /\ failed' = TRUE
        /\ UNCHANGED <<settled, emitted>>
     \/ AtEOF /\ Goto("wait") /\ UNCHANGED <<taken, settled, emitted, failed>>
  /\ UNCHANGED <<output, child, sent, accepts, status, handler>>

\* cmd.Wait: the pipe is not read any more, and not closed before kubectl ends.
Wait ==
  /\ At("wait") /\ child \in Ends /\ Goto("exit")
  /\ UNCHANGED <<output, child, stream, accepts, status, handler>>

StatusOf(end) ==
  CASE end = "ok" -> "0" [] end = "signal" -> "128+N" [] OTHER -> "n"

\* kubectl's status is the guard's, whether or not the stream failed.
Exit ==
  /\ At("exit") /\ status' = StatusOf(child) /\ process' = "exited"
  /\ UNCHANGED <<output, step, child, stream, accepts, notified, buffered, signals>>

Streaming ==
  Start \/ Notify \/ Decode \/ Emit \/ Flush \/ Copy \/ Wait \/ Exit

-----------------------------------------------------------------------------
(***************************************************************************)
(* The forwarding goroutine, from signal.Notify until Wait returns.        *)
(***************************************************************************)
\* Faulty variant of Forward: the signal is received and goes no further.
ForwardNothing ==
  /\ GuardRuns /\ buffered /\ step \in {"decode", "emit", "flush", "copy", "wait"}
  /\ buffered' = FALSE
  /\ UNCHANGED <<output, step, child, stream, accepts, status, notified, process, signals>>

Forward ==
  /\ GuardRuns /\ buffered /\ step \in {"decode", "emit", "flush", "copy", "wait"}
  /\ buffered' = FALSE
  /\ child' = IF child = "running" THEN "signal" ELSE child
  /\ UNCHANGED <<output, step, stream, accepts, status, notified, process, signals>>

-----------------------------------------------------------------------------
(***************************************************************************)
(* The world: a signal reaches the guard, or with the terminal's           *)
(* foreground group kubectl as well; the disk under stdout fills.          *)
(***************************************************************************)
Signal ==
  /\ GuardRuns /\ signals > 0 /\ signals' = signals - 1
  /\ \/ notified /\ buffered' = TRUE /\ UNCHANGED process
     \/ ~notified /\ process' = "killed" /\ UNCHANGED buffered
  /\ child' \in {child} \cup (IF child = "running" THEN {"signal"} ELSE {})
  /\ UNCHANGED <<output, step, stream, accepts, status, notified>>

FillDisk ==
  /\ accepts /\ step \in {"decode", "emit", "flush", "copy"} /\ accepts' = FALSE
  /\ UNCHANGED <<output, step, child, stream, status, handler>>

Init ==
  /\ output \in Outputs
  /\ Idle /\ notified = FALSE /\ buffered = FALSE /\ process = "running"
  /\ signals = 0

\* By itself: one such command, from the start.
Begin ==
  /\ At("idle") /\ Goto("start")
  /\ UNCHANGED <<output, child, stream, accepts, status, handler>>

Next == Begin \/ Streaming \/ Forward \/ Kubectl \/ ChildFail \/ Signal \/ FillDisk

Spec == Init /\ [][Next]_getVars

-----------------------------------------------------------------------------
Over == step = "exit" /\ ~failed

\* The comment at redactYAMLStream excepts a malformed document after a good one.
MalformedLater ==
  /\ output.format = "yaml"
  /\ \E i, j \in 1 .. sent : i < j /\ Chunk(i).doc # Chunk(j).doc
                             /\ (~Chunk(j).sound \/ ~Chunk(sent).last)

Whole(i) == \E j \in i .. sent : Chunk(j).doc = Chunk(i).doc /\ Chunk(j).last

(***************************************************************************)
(* "Never dropping the user's read is more important than guaranteeing a   *)
(* blank" (redact_output.go): when the guard is done, what kubectl wrote   *)
(* is on its stdout, in order and once.                                    *)
(***************************************************************************)
NothingDropped ==
  Over => [i \in DOMAIN emitted |-> emitted[i].chunk] = [i \in 1 .. sent |-> i]

(***************************************************************************)
(* The same, with the exception that the code names; and no document that  *)
(* parses, and that none follows which does not, is passed on unblanked.   *)
(***************************************************************************)
ReadDelivered ==
  /\ ~MalformedLater => NothingDropped
  /\ \A i \in DOMAIN emitted :
       emitted[i].as = "raw" =>
         \E j \in 1 .. sent : ~Chunk(j).sound \/ ~Whole(j)

(***************************************************************************)
(* The guard outlives kubectl and ends with its status; 128+N if a signal  *)
(* ended it ("kubectl's exit code is authoritative", main.go).             *)
(***************************************************************************)
StatusIsKubectls ==
  process = "exited" /\ child # "none"
    => child \in Ends /\ status = (CASE child = "ok" -> "0"
                                     [] child = "error" -> "n"
                                     [] child = "signal" -> "128+N")

==================================================================================
