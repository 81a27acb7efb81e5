------------------------------- MODULE MCRedactedGet -------------------------------
(***************************************************************************)
(* RedactedGet for a `get --watch-only': kubectl prints a document for     *)
(* every event and does not stop by itself; here, after two.               *)
(***************************************************************************)
EXTENDS RedactedGet

Event(d) == [doc |-> d, last |-> TRUE, sound |-> TRUE]

MCOutputs ==
  {[format |-> f, chunks |-> <<Event(1), Event(2)>>, hangs |-> FALSE] :
     f \in {g \in {"json", "yaml", "wide"} : Qualifies({"--watch-only"}, g)}}
==================================================================================
