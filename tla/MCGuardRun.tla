-------------------------------- MODULE MCGuardRun --------------------------------
(***************************************************************************)
(* GuardRun with the outputs a redacted read is tried on.                  *)
(***************************************************************************)
EXTENDS GuardRun

Part(d) == [doc |-> d, last |-> FALSE, sound |-> TRUE]
End(d) == [doc |-> d, last |-> TRUE, sound |-> TRUE]
Bad(d) == [doc |-> d, last |-> TRUE, sound |-> FALSE]
Junk(d) == [doc |-> d, last |-> FALSE, sound |-> FALSE]

\* One document in JSON, in YAML up to three; any may be malformed, or cut short when
\* kubectl fails or hangs.  Some are long enough to fill the pipe behind a guard that
\* does not read any more.
MCOutputs ==
  {[format |-> "json", chunks |-> c, hangs |-> FALSE] :
     c \in {<<Part(1), End(1)>>, <<Part(1), Junk(1), Part(1), End(1)>>}}
  \cup
  {[format |-> "yaml", chunks |-> c, hangs |-> FALSE] :
     c \in {<<Part(1), End(1), End(2)>>, <<Bad(1), End(2), End(3)>>, <<End(1), Bad(2)>>}}
  \cup
  {[format |-> "json", chunks |-> <<Part(1)>>, hangs |-> TRUE],
   [format |-> "yaml", chunks |-> <<End(1)>>, hangs |-> TRUE]}
==================================================================================
