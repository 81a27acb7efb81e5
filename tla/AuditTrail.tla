------------------------------- MODULE AuditTrail -------------------------------
(***************************************************************************)
(* What the audit log promises to somebody who reads its archives, oldest  *)
(* first, and then the log: entries in the order they were written, each   *)
(* once, and none altered.  Entries can go missing, a block at a time:     *)
(* retention removes an archive, and a write cut short spoils the next.    *)
(***************************************************************************)
EXTENDS Naturals, Sequences

CONSTANT Writers  \* each writes one entry, and the entry goes by its name

VARIABLE trail

Init == trail = <<>>

Append1(w) ==
  /\ \A i \in DOMAIN trail : trail[i] # w
  /\ trail' = Append(trail, w)

\* The entries from i to j go.
Discard(i, j) ==
  trail' = SubSeq(trail, 1, i - 1) \o SubSeq(trail, j + 1, Len(trail))

Next ==
  \/ \E w \in Writers : Append1(w)
  \/ \E i, j \in DOMAIN trail : i <= j /\ Discard(i, j)

Spec == Init /\ [][Next]_trail

=================================================================================
