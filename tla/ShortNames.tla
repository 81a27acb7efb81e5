-------------------------------- MODULE ShortNames --------------------------------
(***************************************************************************)
(* Discovery of CRD short names (guard/apiresources.go): every guard asks  *)
(* `kubectl api-resources' for the names of the cluster its command goes   *)
(* to, bounded by a timeout, and keeps the answer in one cache file that   *)
(* the guards share without a lock.                                        *)
(*                                                                         *)
(* A key stands for --kubeconfig and --context; a map of names is known by *)
(* the key it was gathered for, and when.                                  *)
(***************************************************************************)
EXTENDS Naturals

CONSTANTS
  Guards, Keys,
  TTL,        \* shortNameCacheTTL
  Timeout,    \* apiResourcesTimeout, of kubectl and then, as WaitDelay, of its pipe
  MaxTime,    \* bound: the last moment
  MaxUpsets,  \* bound: how often the file is spoilt or a guard is killed
  None

ASSUME ShortNamesAssumption ==
  /\ Keys # {}
  /\ TTL \in Nat /\ Timeout \in Nat \ {0} /\ MaxTime \in Nat /\ MaxUpsets \in Nat
  /\ None \notin [key : Keys, names : [key : Keys, at : 0 .. MaxTime], time : 0 .. MaxTime]
  /\ None \notin [key : Keys, at : 0 .. MaxTime]

Times == 0 .. MaxTime
Maps == [key : Keys, at : Times]

VARIABLES
  now,      \* in units of some seconds
  cache,    \* the file: its key, its map and when it was stamped; or None
  pc,       \* each guard's next step
  target,   \* the key of its command
  since,    \* when its kubectl was started, or was seen to end; then the stamp
  names,    \* the map it got, or None
  upsets    \* still to come

vars == <<now, cache, pc, target, since, names, upsets>>

\* Type invariant.
TypeOK ==
  /\ now \in Times
  /\ cache \in [key : Keys, names : Maps, time : Times] \cup {None}
  /\ pc \in [Guards -> {"idle", "read", "asked", "told", "lingering", "got", "publish", "hit"}]
  /\ target \in [Guards -> Keys]
  /\ since \in [Guards -> Times]
  /\ names \in [Guards -> Maps \cup {None}]
  /\ upsets \in 0 .. MaxUpsets

AnyKey == CHOOSE k \in Keys : TRUE

Init ==
  /\ now = 0
  /\ cache = None
  /\ pc = [g \in Guards |-> "idle"]
  /\ target = [g \in Guards |-> AnyKey]
  /\ since = [g \in Guards |-> 0]
  /\ names = [g \in Guards |-> None]
  /\ upsets = MaxUpsets

Go(g, from, to) == pc[g] = from /\ pc' = [pc EXCEPT ![g] = to]
world == <<now, upsets>>
gathering == <<target, since, names>>

\* Back to the decision, with a map or without; what is left over is forgotten.
Leave(g, to) ==
  /\ pc' = [pc EXCEPT ![g] = to]
  /\ names' = [names EXCEPT ![g] = None] /\ since' = [since EXCEPT ![g] = 0]
  /\ target' = [target EXCEPT ![g] = AnyKey]

-----------------------------------------------------------------------------
\* Early enough for its timers to run out before the last moment.
Begin(g, k) ==
  /\ pc[g] \in {"idle", "hit"} /\ pc' = [pc EXCEPT ![g] = "read"]
  /\ now + 2 * Timeout <= MaxTime
  /\ target' = [target EXCEPT ![g] = k]
  /\ UNCHANGED <<world, cache, names, since>>

\* Faulty variant of Usable: the map of another key will do.
UsableForAll(c, key, time) == c # None /\ time - c.time <= TTL

Usable(c, key, time) == c # None /\ c.key = key /\ time - c.time <= TTL

\* readShortNameCache, or else kubectl is started.
Read(g) ==
  /\ pc[g] = "read"
  /\ \/ Usable(cache, target[g], now) /\ Leave(g, "hit")
     \/ /\ ~Usable(cache, target[g], now) /\ pc' = [pc EXCEPT ![g] = "asked"]
        /\ since' = [since EXCEPT ![g] = now]
        /\ UNCHANGED <<target, names>>
  /\ UNCHANGED <<world, cache>>

\* kubectl learns the names, in its own time.
Answer(g) ==
  /\ Go(g, "asked", "told")
  /\ names' = [names EXCEPT ![g] = [key |-> target[g], at |-> now]]
  /\ UNCHANGED <<world, cache, target, since>>

\* It ends and its output is complete; or it fails.
Finish(g) ==
  /\ \/ Go(g, "told", "got") /\ UNCHANGED gathering
     \/ pc[g] \in {"asked", "told"} /\ Leave(g, "idle")
  /\ UNCHANGED <<world, cache>>

\* It ends, and a descendant of it holds the pipe.
Linger(g) ==
  /\ pc[g] \in {"asked", "told"} /\ pc' = [pc EXCEPT ![g] = "lingering"]
  /\ since' = [since EXCEPT ![g] = now]
  /\ UNCHANGED <<world, cache, target, names>>

\* The deadline of the context: kubectl is killed, which is an error; its descendants
\* are not killed.
Expire(g) ==
  /\ pc[g] \in {"asked", "told"} /\ now >= since[g] + Timeout
  /\ \/ Leave(g, "idle")
     \/ /\ pc' = [pc EXCEPT ![g] = "lingering"] /\ since' = [since EXCEPT ![g] = now]
        /\ names' = [names EXCEPT ![g] = None] /\ UNCHANGED target
  /\ UNCHANGED <<world, cache>>

\* Faulty variant of LetGo: what was written counts although kubectl failed.
LetGoRegardless(g) ==
  /\ Go(g, "lingering", "got") /\ UNCHANGED gathering
  /\ UNCHANGED <<world, cache>>

\* The descendant lets go, and what was written counts if kubectl had succeeded.
LetGo(g) ==
  /\ \/ Go(g, "lingering", "got") /\ names[g] # None /\ UNCHANGED gathering
     \/ pc[g] = "lingering" /\ names[g] = None /\ Leave(g, "idle")
  /\ UNCHANGED <<world, cache>>

\* Faulty variant of GiveUp: WaitDelay is not set.
GiveUpNever(g) == pc[g] = "lingering" /\ now > MaxTime /\ UNCHANGED vars

\* WaitDelay is over: the pipe is closed, which is an error.
GiveUp(g) ==
  /\ pc[g] = "lingering" /\ now >= since[g] + Timeout /\ Leave(g, "idle")
  /\ UNCHANGED <<world, cache>>

\* The clock is read a second time.
Stamp(g) ==
  /\ Go(g, "got", "publish") /\ since' = [since EXCEPT ![g] = now]
  /\ UNCHANGED <<world, cache, target, names>>

\* writeShortNameCache: a rename, or an error that is ignored.
Publish(g) ==
  /\ pc[g] = "publish" /\ Leave(g, "idle")
  /\ cache' \in {cache, [key |-> target[g], names |-> names[g], time |-> since[g]]}
  /\ UNCHANGED world

-----------------------------------------------------------------------------
\* The file is removed, malformed, or writable by others: it is not used.
Spoil ==
  /\ upsets > 0 /\ upsets' = upsets - 1 /\ cache' = None
  /\ UNCHANGED <<now, pc, gathering>>

\* A guard is killed; the file it was writing is not the cache yet.
Kill(g) ==
  /\ upsets > 0 /\ upsets' = upsets - 1
  /\ pc[g] \notin {"idle", "hit"} /\ Leave(g, "idle")
  /\ UNCHANGED <<now, cache>>

\* Timers are on time, and the clock is read for the stamp as soon as kubectl is done
\* with; a guard may be slow everywhere else.  The bound: whoever reads the cache has
\* the time left that its timers need.
Tick ==
  /\ now < MaxTime /\ now' = now + 1
  /\ \A g \in Guards :
       /\ pc[g] \in {"asked", "told", "lingering"} => now < since[g] + Timeout
       /\ pc[g] # "got"
       /\ pc[g] = "read" => now' + 2 * Timeout <= MaxTime
  /\ UNCHANGED <<upsets, cache, pc, gathering>>

Own(g) == Read(g) \/ Expire(g) \/ GiveUp(g) \/ Stamp(g) \/ Publish(g)

Next ==
  \/ \E g \in Guards :
       Own(g) \/ Answer(g) \/ Finish(g) \/ Linger(g) \/ LetGo(g) \/ Kill(g) \/ \E k \in Keys : Begin(g, k)
  \/ Spoil \/ Tick

Spec == Init /\ [][Next]_vars

\* Guards are scheduled, and time passes, however often a guard is about to read it;
\* kubectl need not answer, nor end.
FairSpec == Spec /\ SF_vars(Tick) /\ \A g \in Guards : WF_vars(Own(g))

-----------------------------------------------------------------------------
(***************************************************************************)
(* The names that a guard takes from the file are of its own key, and no   *)
(* older than the cache's lifetime and the time a discovery may take ("how *)
(* long a discovered api-resources short-name map is trusted before it is  *)
(* refreshed", apiresources.go), however guards overwrite each other's     *)
(* file, and although the age is counted from a later reading of the clock.*)
(***************************************************************************)
FreshEnough ==
  [][\A g \in Guards :
       pc[g] = "read" /\ pc'[g] = "hit"
         => /\ cache.names.key = target[g]
            /\ now - cache.names.at <= TTL + 2 * Timeout]_vars

(***************************************************************************)
(* Discovery "NEVER blocks the guard": whatever kubectl and the processes  *)
(* it leaves behind do, it comes to an end.                                *)
(***************************************************************************)
DiscoveryEnds == \A g \in Guards : pc[g] = "read" ~> pc[g] \in {"hit", "idle"}

==================================================================================
