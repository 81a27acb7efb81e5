----------------------------- MODULE ShortNamesProofs -----------------------------
(***************************************************************************)
(* Theorems about ShortNames, for any number of guards and keys, and any   *)
(* lifetime, timeout and bounds.                                           *)
(***************************************************************************)
EXTENDS ShortNames, TLAPS

\* The map that a guard carries from kubectl's answer to the file.
Carrying == {"told", "lingering", "got", "publish"}

CarryInv ==
  \A g \in Guards :
    /\ pc[g] \notin Carrying => names[g] = None
    /\ pc[g] \in {"told", "got", "publish"} => names[g] # None

TypeInv == TypeOK /\ CarryInv

(***************************************************************************)
(* How old the map is, at each place on its way.  Every timer bounds one   *)
(* stretch of the way: while kubectl runs, while its pipe is held, and,    *)
(* since the stamp is read at once, up to the stamp.                       *)
(***************************************************************************)
Aging(g) ==
  /\ pc[g] \in {"asked", "told", "lingering"} => since[g] <= now /\ now <= since[g] + Timeout
  /\ names[g] # None =>
       /\ names[g].key = target[g] /\ names[g].at <= now
       /\ pc[g] = "told" => since[g] <= names[g].at
       /\ pc[g] = "lingering" =>
            names[g].at <= since[g] /\ since[g] <= names[g].at + Timeout
       /\ pc[g] = "got" => now <= names[g].at + 2 * Timeout
       /\ pc[g] = "publish" => since[g] <= now /\ since[g] <= names[g].at + 2 * Timeout

CacheInv ==
  cache # None =>
    /\ cache.names.key = cache.key
    /\ cache.time <= now /\ cache.time <= cache.names.at + 2 * Timeout

FreshInv == (\A g \in Guards : Aging(g)) /\ CacheInv

-----------------------------------------------------------------------------
LEMMA AnyKeyType == AnyKey \in Keys
BY ShortNamesAssumption DEF AnyKey

LEMMA InitTyping == Init => TypeInv
BY AnyKeyType, ShortNamesAssumption DEF Init, TypeInv, TypeOK, CarryInv, Carrying, Times

\* What was left is forgotten.
LEMMA LeaveTyping ==
  ASSUME TypeInv, NEW g \in Guards, NEW to \in {"idle", "hit"}, Leave(g, to),
         now' \in Times, upsets' \in 0 .. MaxUpsets,
         cache' \in [key : Keys, names : Maps, time : Times] \cup {None}
  PROVE  TypeInv'
PROOF
<1>1. TypeOK'
  BY AnyKeyType, ShortNamesAssumption DEF TypeInv, TypeOK, Leave, Times
<1>2. CarryInv'
  BY DEF TypeInv, TypeOK, CarryInv, Carrying, Leave
<1> QED
  BY <1>1, <1>2 DEF TypeInv

LEMMA GuardTyping ==
  ASSUME TypeInv, NEW g \in Guards,
         \/ Own(g) \/ Answer(g) \/ Finish(g) \/ Linger(g) \/ LetGo(g) \/ Kill(g)
         \/ \E k \in Keys : Begin(g, k)
  PROVE  TypeInv'
PROOF
<1> USE DEF TypeInv, TypeOK, CarryInv, Carrying, Go, world, gathering
<1>0. /\ now \in Times /\ upsets \in 0 .. MaxUpsets
      /\ cache \in [key : Keys, names : Maps, time : Times] \cup {None}
  OBVIOUS
<1>1. ASSUME NEW k \in Keys, Begin(g, k) PROVE TypeInv'
  BY <1>1 DEF Begin
<1>2. CASE Read(g)
  BY <1>0, <1>2, LeaveTyping DEF Read
<1>3. CASE Answer(g)
  <2>1. [key |-> target[g], at |-> now] \in Maps /\ [key |-> target[g], at |-> now] # None
    BY ShortNamesAssumption DEF Maps, Times
  <2> DEFINE map == [key |-> target[g], at |-> now]
  <2>2. names' = [names EXCEPT ![g] = map] /\ pc[g] = "asked" /\ pc' = [pc EXCEPT ![g] = "told"]
        /\ UNCHANGED <<now, upsets, cache, target, since>>
    BY <1>3 DEF Answer
  <2> HIDE DEF map
  <2>3. map \in Maps /\ map # None
    BY <2>1 DEF map
  <2> QED
    BY <2>2, <2>3
<1>4. CASE Finish(g)
  BY <1>0, <1>4, LeaveTyping DEF Finish
<1>5. CASE Linger(g)
  BY <1>5 DEF Linger
<1>6. CASE Expire(g)
  BY <1>0, <1>6, LeaveTyping DEF Expire
<1>7. CASE LetGo(g)
  BY <1>0, <1>7, LeaveTyping DEF LetGo
<1>8. CASE GiveUp(g)
  BY <1>0, <1>8, LeaveTyping DEF GiveUp
<1>9. CASE Stamp(g)
  BY <1>9 DEF Stamp
<1>10. CASE Publish(g)
  <2>1. target[g] \in Keys /\ names[g] \in Maps /\ since[g] \in Times
    BY <1>10 DEF Publish
  <2>2. cache' \in [key : Keys, names : Maps, time : Times] \cup {None}
    BY <1>10, <2>1 DEF Publish
  <2>3. Leave(g, "idle") /\ now' = now /\ upsets' = upsets
    BY <1>10 DEF Publish
  <2> QED
    BY <1>0, <2>2, <2>3, LeaveTyping
<1>11. CASE Kill(g)
  <2>1. upsets' \in 0 .. MaxUpsets
    BY <1>0, <1>11, ShortNamesAssumption DEF Kill
  <2> QED
    BY <1>0, <1>11, <2>1, LeaveTyping DEF Kill
<1> QED
  BY <1>1, <1>2, <1>3, <1>4, <1>5, <1>6, <1>7, <1>8, <1>9, <1>10, <1>11 DEF Own

LEMMA TypingStep == TypeInv /\ [Next]_vars => TypeInv'
PROOF
<1> SUFFICES ASSUME TypeInv, [Next]_vars PROVE TypeInv'
  OBVIOUS
<1> USE ShortNamesAssumption DEF TypeInv, TypeOK, CarryInv, gathering
<1>1. CASE Spoil
  BY <1>1 DEF Spoil
<1>2. CASE Tick
  BY <1>2 DEF Tick, Times
<1>3. CASE UNCHANGED vars
  BY <1>3 DEF vars
<1> QED
  BY <1>1, <1>2, <1>3, GuardTyping DEF Next

\* The state has the types that it is declared with: nothing but a map of names gets
\* into the cache.
THEOREM TypeCorrect == Spec => []TypeOK
PROOF
<1>1. TypeInv => TypeOK
  BY DEF TypeInv
<1> QED
  BY <1>1, InitTyping, TypingStep, PTL DEF Spec

-----------------------------------------------------------------------------
LEMMA GuardAge ==
  ASSUME TypeInv, FreshInv, NEW g \in Guards,
         \/ Own(g) \/ Answer(g) \/ Finish(g) \/ Linger(g) \/ LetGo(g) \/ Kill(g)
         \/ \E k \in Keys : Begin(g, k)
  PROVE  FreshInv'
PROOF
<1> USE ShortNamesAssumption DEF Go, world, gathering
<1>0. /\ now \in Nat /\ since[g] \in Nat /\ Aging(g)
      /\ pc \in [Guards -> {"idle", "read", "asked", "told", "lingering", "got", "publish", "hit"}]
      /\ target \in [Guards -> Keys] /\ since \in [Guards -> Times]
      /\ names \in [Guards -> Maps \cup {None}]
      /\ names[g] # None => names[g].at \in Nat
      /\ pc[g] \notin Carrying => names[g] = None
      /\ pc[g] \in {"told", "got", "publish"} => names[g] # None
  BY DEF TypeInv, TypeOK, CarryInv, Times, Maps, FreshInv
<1>1. now' = now
  BY DEF Own, Begin, Read, Answer, Finish, Linger, Expire, LetGo, GiveUp, Stamp, Publish, Kill
<1>2. ASSUME NEW o \in Guards \ {g} PROVE Aging(o)'
  <2>1. /\ pc'[o] = pc[o] /\ since'[o] = since[o] /\ names'[o] = names[o] /\ target'[o] = target[o]
    BY <1>0, <1>2
       DEF Own, Begin, Read, Answer, Finish, Linger, Expire, LetGo, GiveUp, Stamp, Publish, Kill,
           Leave
  <2> QED
    BY <1>1, <2>1 DEF FreshInv, Aging
<1>3. Aging(g)'
  <2>1. CASE \E to \in {"idle", "hit"} : Leave(g, to)
    BY <1>0, <2>1 DEF Leave, Aging
  <2>2. ASSUME NEW k \in Keys, Begin(g, k) PROVE Aging(g)'
    BY <1>0, <2>2 DEF Begin, Aging, Carrying
  <2>3. CASE Read(g) /\ pc' = [pc EXCEPT ![g] = "asked"]
    BY <1>0, <2>1, <2>3 DEF Read, Aging, Carrying
  <2>4. CASE Answer(g)
    <3>1. /\ pc[g] = "asked" /\ pc'[g] = "told" /\ since'[g] = since[g] /\ target'[g] = target[g]
          /\ names'[g].key = target[g] /\ names'[g].at = now
      BY <1>0, <2>4 DEF Answer
    <3> QED
      BY <1>0, <1>1, <3>1 DEF Aging
  <2>5. CASE Go(g, "told", "got") /\ UNCHANGED gathering
    BY <1>0, <1>1, <2>5 DEF Aging
  <2>6. CASE Linger(g)
    BY <1>0, <1>1, <2>6 DEF Linger, Aging, Carrying
  <2>7. CASE Expire(g) /\ pc' = [pc EXCEPT ![g] = "lingering"]
    BY <1>0, <1>1, <2>1, <2>7 DEF Expire, Aging
  <2>8. CASE Go(g, "lingering", "got") /\ names[g] # None /\ UNCHANGED gathering
    BY <1>0, <1>1, <2>8 DEF Aging
  <2>9. CASE Stamp(g)
    BY <1>0, <1>1, <2>9 DEF Stamp, Aging
  <2> QED
    BY <2>1, <2>2, <2>3, <2>4, <2>5, <2>6, <2>7, <2>8, <2>9
       DEF Own, Read, Finish, Expire, LetGo, GiveUp, Publish, Kill
<1>4. CacheInv'
  <2>1. CASE cache' = cache
    BY <1>1, <2>1 DEF FreshInv, CacheInv
  <2>2. CASE Publish(g) /\ cache' = [key |-> target[g], names |-> names[g], time |-> since[g]]
    <3>1. /\ pc[g] = "publish"
          /\ cache'.key = target[g] /\ cache'.names = names[g] /\ cache'.time = since[g]
      BY <2>2 DEF Publish
    <3> QED
      BY <1>0, <1>1, <3>1 DEF CacheInv, Aging
  <2> QED
    BY <2>1, <2>2
       DEF Own, Begin, Read, Answer, Finish, Linger, Expire, LetGo, GiveUp, Stamp, Publish, Kill
<1> QED
  BY <1>2, <1>3, <1>4 DEF FreshInv

LEMMA FreshStep == TypeInv /\ FreshInv /\ [Next]_vars => FreshInv'
PROOF
<1> SUFFICES ASSUME TypeInv, FreshInv, [Next]_vars PROVE FreshInv'
  OBVIOUS
<1>1. CASE Spoil
  BY <1>1 DEF Spoil, gathering, FreshInv, Aging, CacheInv
<1>2. CASE Tick
  <2>1. /\ now \in Nat /\ now' = now + 1 /\ UNCHANGED <<cache, pc, target, since, names>>
        /\ \A g \in Guards : pc[g] \in {"asked", "told", "lingering"} => now < since[g] + Timeout
        /\ \A g \in Guards : pc[g] # "got"
    BY <1>2 DEF Tick, gathering, TypeInv, TypeOK, Times
  <2>2. ASSUME NEW g \in Guards PROVE Aging(g)'
    <3>1. Aging(g) /\ since[g] \in Nat /\ (names[g] # None => names[g].at \in Nat)
      BY DEF FreshInv, TypeInv, TypeOK, Times, Maps
    <3> QED
      BY <2>1, <3>1, ShortNamesAssumption DEF Aging
  <2>3. CacheInv'
    <3>1. cache # None => cache.time \in Nat
      BY DEF TypeInv, TypeOK, Times
    <3> QED
      BY <2>1, <3>1 DEF FreshInv, CacheInv
  <2> QED
    BY <2>2, <2>3 DEF FreshInv
<1>3. CASE UNCHANGED vars
  BY <1>3 DEF vars, FreshInv, Aging, CacheInv
<1> QED
  BY <1>1, <1>2, <1>3, GuardAge DEF Next

(***************************************************************************)
(* A guard takes from the file the names of its own key, and none older    *)
(* than the lifetime and one discovery.                                    *)
(***************************************************************************)
THEOREM NamesFresh == Spec => FreshEnough
PROOF
<1>1. Init => FreshInv
  BY DEF Init, FreshInv, Aging, CacheInv
<1>2. TypeInv /\ FreshInv /\ [Next]_vars
        => \A g \in Guards :
             pc[g] = "read" /\ pc'[g] = "hit"
               => /\ cache.names.key = target[g]
                  /\ now - cache.names.at <= TTL + 2 * Timeout
  <2> SUFFICES ASSUME TypeInv, FreshInv, [Next]_vars, NEW g \in Guards,
                      pc[g] = "read", pc'[g] = "hit"
               PROVE  /\ cache.names.key = target[g]
                      /\ now - cache.names.at <= TTL + 2 * Timeout
    OBVIOUS
  <2>1. ~Spoil /\ ~Tick /\ ~UNCHANGED vars
    BY DEF Spoil, Tick, vars
  <2>2. Read(g)
    BY <2>1 DEF Next, Own, Begin, Read, Answer, Finish, Linger, Expire, LetGo, GiveUp, Stamp,
                Publish, Kill, Leave, Go, TypeInv, TypeOK
  <2>3. cache # None /\ cache.key = target[g] /\ now - cache.time <= TTL
    BY <2>2 DEF Read, Usable, TypeInv, TypeOK
  <2>4. now \in Nat /\ cache.time \in Nat /\ cache.names.at \in Nat
    BY <2>3 DEF TypeInv, TypeOK, Maps, Times
  <2> QED
    BY <2>3, <2>4, ShortNamesAssumption DEF FreshInv, CacheInv
<1> QED
  BY <1>1, <1>2, InitTyping, TypingStep, FreshStep, PTL DEF Spec, FreshEnough
==================================================================================
