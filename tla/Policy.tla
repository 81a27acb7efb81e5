-------------------------------- MODULE Policy --------------------------------
(***************************************************************************)
(* What a config says, how the system's and the user's become one, and     *)
(* when a change to one weakens it (config.go, layered.go, weakening.go).  *)
(*                                                                         *)
(* A config is a record.  Its lists of patterns are functions from the     *)
(* pattern to the mode it carries, "none" for a pattern that is not on the *)
(* list; its ten graded settings are one function from the axis to the    *)
(* value, "unset" where the file is silent; its switches are the set of    *)
(* those that are on.  Redaction of output, timeouts and the preview       *)
(* switches decide nothing here and are left out.                          *)
(***************************************************************************)
EXTENDS Naturals, FiniteSets

CONSTANTS
  ContextPatterns, NamespacePatterns, ServerPatterns, ActorPatterns

ASSUME PatternAssumption ==
  \A S \in {ContextPatterns, NamespacePatterns, ServerPatterns, ActorPatterns} :
    IsFiniteSet(S) /\ S \subseteq STRING

\* One verb of each class that the guard tells apart.
SafeVerbs == {"get"}
AlteringVerbs == {"delete", "drain", "exec"}
Verbs == SafeVerbs \cup AlteringVerbs \cup {"plugin"}
DefaultSensitiveVerbs == {"exec"}
Kinds == {"secret", "node"}

\* matchGlob, of patterns that are a name or match everything.
Matches(pattern, name) == pattern \in {name, "*"}

-----------------------------------------------------------------------------
\* The graded settings, weakest value first, and what silence means.
Order == [
  context_mode |-> <<"confirm", "block">>,
  namespace_mode |-> <<"confirm", "block">>,
  confirm_mode |-> <<"simple", "agent-relay", "type-name">>,
  audit_mode |-> <<"off", "gated", "all">>,
  sensitive_access |-> <<"off", "gate", "block">>,
  sensitive_kind_mode |-> <<"off", "confirm", "block">>,
  blast_radius |-> <<"off", "gate", "block">>,
  unknown_verb |-> <<"allow", "gate", "deny">>,
  in_cluster |-> <<"allow", "namespace", "deny">>,
  discover_short_names |-> <<"off", "on">>]
Axes == DOMAIN Order
Default == [axis \in Axes |->
  CASE axis = "audit_mode" -> "all"
    [] axis = "in_cluster" -> "namespace"
    [] axis = "discover_short_names" -> "on"
    [] OTHER -> Order[axis][1]]

Legal == [axis \in Axes |-> {Order[axis][i] : i \in DOMAIN Order[axis]}]
Levels == (UNION {Legal[axis] : axis \in Axes}) \cup {"unset", "invalid"}

\* indexOfStr, from 1; 0 is a value that Validate rejects.
Rank(axis, value) ==
  IF value \in Legal[axis] THEN CHOOSE i \in DOMAIN Order[axis] : Order[axis][i] = value ELSE 0

Switches == {"block_impersonation", "require_confirm_weakening", "require_justification",
             "read_only", "audit_syslog", "strict_config_perms"}
EntryModes == {"none", "inherit", "confirm", "block"}
Policies == [context : EntryModes, namespace : EntryModes]
NoPolicy == [context |-> "none", namespace |-> "none"]

Config == [
  contexts : [ContextPatterns -> EntryModes],
  namespaces : [NamespacePatterns -> EntryModes],
  clusters : [ServerPatterns -> EntryModes],
  actors : [ActorPatterns -> Policies],
  resources : SUBSET Kinds, kinds : SUBSET Kinds,
  mode : [Axes -> Levels], on : SUBSET Switches,
  sensitive : SUBSET Verbs,
  safe : SUBSET Verbs, altering : SUBSET Verbs, promoted : SUBSET Verbs,
  log : STRING, webhook : STRING, key : STRING, megabytes : Nat, files : Nat,
  actor : STRING]

\* A file that is there and says nothing.
Silent == [
  contexts |-> [p \in ContextPatterns |-> "none"],
  namespaces |-> [p \in NamespacePatterns |-> "none"],
  clusters |-> [p \in ServerPatterns |-> "none"],
  actors |-> [p \in ActorPatterns |-> NoPolicy],
  resources |-> {}, kinds |-> {},
  mode |-> [axis \in Axes |-> "unset"], on |-> {},
  sensitive |-> {}, safe |-> {}, altering |-> {}, promoted |-> {},
  log |-> "", webhook |-> "", key |-> "", megabytes |-> 0, files |-> 0, actor |-> ""]

-----------------------------------------------------------------------------
\* ContextModeOrDefault and its like: the default where the file is silent.
Mode(c, axis) == IF c.mode[axis] = "unset" THEN Default[axis] ELSE c.mode[axis]

\* ApplyDefaults, of a file that is loaded to be changed.
Filled(c) == [c EXCEPT !.mode = [axis \in Axes |->
  IF axis \in {"confirm_mode", "audit_mode", "context_mode", "namespace_mode"} THEN Mode(c, axis) ELSE @[axis]]]

\* Validate, of the values that a typo can spoil.
Valid(c) == \A axis \in Axes : Mode(c, axis) \in Legal[axis]

On(c, switch) == switch \in c.on

\* ClassifyOverride: what the config itself says of a verb.
Classified(c, verb) ==
  CASE verb \in c.altering \cup c.promoted -> "altering"
    [] verb \in c.safe \ (c.altering \cup c.promoted) -> "safe"
    [] OTHER -> "none"

IsSensitiveVerb(c, verb) ==
  verb \in (IF c.sensitive = {} THEN DefaultSensitiveVerbs ELSE c.sensitive)

Listed(list) == {p \in DOMAIN list : list[p] # "none"}
Matching(list, name) == {p \in Listed(list) : Matches(p, name)}
IsProtected(list, name) == Matching(list, name) # {}
Resolved(mode, global) == IF mode = "inherit" THEN global ELSE mode

\* MostRestrictiveNamespaceMode and the loop of mostRestrictiveMode.
Strictest(list, patterns, global) ==
  IF \E p \in patterns : Resolved(list[p], global) = "block" THEN "block" ELSE "confirm"

\* mostRestrictiveMode, EffectiveClusterMode.
EffectiveMode(list, name, global) ==
  IF IsProtected(list, name) THEN Strictest(list, Matching(list, name), global) ELSE global

\* EffectiveModesForActor, for one of its two results.
ActorBlocks(c, actor, field) ==
  \E p \in ActorPatterns : Matches(p, actor) /\ c.actors[p][field] = "block"

-----------------------------------------------------------------------------
\* Faulty variant of MergedMode: an explicit user value wins.
MergedModeUserWins(axis, sys, usr) ==
  IF usr # "unset" THEN usr ELSE IF sys = "unset" THEN Default[axis] ELSE sys

\* mergeMode, mergeDiscover: the system's value, or the default where it is
\* silent, is a floor that the user's may only raise.
MergedMode(axis, sys, usr) ==
  LET floor == IF sys = "unset" THEN Default[axis] ELSE sys IN
  IF usr # "unset" /\ Rank(axis, usr) > Rank(axis, floor) THEN usr ELSE floor

\* Faulty variant of StrictestEntry: an explicit confirm beats inherit.
StrictestEntryExplicit(a, b) ==
  IF "block" \in {a, b} THEN "block"
  ELSE IF "confirm" \in {a, b} THEN "confirm"
  ELSE IF "inherit" \in {a, b} THEN "inherit" ELSE "none"

\* strictestPatternMode, of entries that either list may lack.
StrictestEntry(a, b) ==
  IF "block" \in {a, b} THEN "block"
  ELSE IF "inherit" \in {a, b} THEN "inherit"
  ELSE IF "confirm" \in {a, b} THEN "confirm" ELSE "none"

\* mergeProtectedPatterns, mergeProtectedClusters.
MergedList(sys, usr) == [p \in DOMAIN sys |-> StrictestEntry(sys[p], usr[p])]

\* mergeActorPolicies.
MergedActors(sys, usr) == [p \in DOMAIN sys |->
  [context |-> StrictestEntry(sys[p].context, usr[p].context),
   namespace |-> StrictestEntry(sys[p].namespace, usr[p].namespace)]]

\* Faulty variant of MergedSensitive: the lists are united as they stand.
MergedSensitiveUnion(sys, usr) == sys \cup usr

\* mergeSensitiveVerbs: an empty list stands for the defaults.
MergedSensitive(sys, usr) ==
  IF usr = {} THEN sys ELSE usr \cup (IF sys = {} THEN DefaultSensitiveVerbs ELSE sys)

\* firstNonEmpty, firstNonZero.
FirstText(a, b) == IF a = "" THEN b ELSE a
FirstNumber(a, b) == IF a = 0 THEN b ELSE a

\* mergeCommandOverrides: only the system may call a verb safe.
Dangerous(sys, usr) == sys.altering \cup sys.promoted \cup usr.altering \cup usr.promoted

Merge(sys, usr) == [
  contexts |-> MergedList(sys.contexts, usr.contexts),
  namespaces |-> MergedList(sys.namespaces, usr.namespaces),
  clusters |-> MergedList(sys.clusters, usr.clusters),
  actors |-> MergedActors(sys.actors, usr.actors),
  resources |-> sys.resources \cup usr.resources,
  kinds |-> sys.kinds \cup usr.kinds,
  mode |-> [axis \in Axes |-> MergedMode(axis, sys.mode[axis], usr.mode[axis])],
  on |-> sys.on \cup usr.on,
  sensitive |-> MergedSensitive(sys.sensitive, usr.sensitive),
  safe |-> sys.safe \ Dangerous(sys, usr),
  altering |-> Dangerous(sys, usr),
  promoted |-> {},
  log |-> FirstText(sys.log, usr.log),
  webhook |-> FirstText(sys.webhook, usr.webhook),
  key |-> FirstText(sys.key, usr.key),
  megabytes |-> FirstNumber(sys.megabytes, usr.megabytes),
  files |-> FirstNumber(sys.files, usr.files),
  actor |-> FirstText(usr.actor, sys.actor)]

\* Faulty variant of Effective: an enforced trail is merged like the rest.
EffectiveUnpinned(baseline, sys, usr) == IF baseline = "absent" THEN usr ELSE Merge(sys, usr)

\* LoadEffective: an enforced system alone says where the audit trail goes
\* and how long it is kept.
Effective(baseline, sys, usr) ==
  CASE baseline = "absent" -> usr
    [] baseline = "advisory" -> Merge(sys, usr)
    [] baseline = "enforced" -> [Merge(sys, usr) EXCEPT
         !.log = sys.log, !.megabytes = sys.megabytes, !.files = sys.files]

-----------------------------------------------------------------------------
\* Faulty variant of WeakerList: only the entry's own mode is compared.
WeakerListOwn(old, new, oldGlobal, newGlobal) ==
  \E p \in Listed(old) : new[p] = "none" \/ (old[p] = "block" /\ new[p] = "confirm")

\* contextModeRank, which serves all three lists.
Grade(mode) == Rank("context_mode", mode)

\* weakenedPatterns, weakenedClusters.
WeakerList(old, new, oldGlobal, newGlobal) ==
  \E p \in Listed(old) :
    \/ new[p] = "none"
    \/ /\ ~(old[p] = "inherit" /\ new[p] = "inherit")
       /\ Grade(Resolved(new[p], newGlobal)) < Grade(Resolved(old[p], oldGlobal))

\* Faulty variant of WeakerActors: a mode that gives way to silence is missed.
WeakerActorsExplicit(old, new) ==
  \E p \in ActorPatterns :
    /\ old[p] # NoPolicy
    /\ \/ new[p] = NoPolicy
       \/ \E field \in {"context", "namespace"} : old[p][field] = "block" /\ new[p][field] = "confirm"

\* weakenedActorPolicies.
WeakerActors(old, new) ==
  \E p \in ActorPatterns :
    /\ old[p] # NoPolicy
    /\ \/ new[p] = NoPolicy
       \/ \E field \in {"context", "namespace"} : old[p][field] = "block" /\ new[p][field] # "block"

\* auditRetention: no cap keeps everything; five archives unless said otherwise.
FilesOrDefault(c) == IF c.files > 0 THEN c.files ELSE 5
KeepsLess(old, new) ==
  /\ new.megabytes > 0
  /\ \/ old.megabytes = 0
     \/ new.megabytes * FilesOrDefault(new) < old.megabytes * FilesOrDefault(old)

\* The axes that WeakensProtection ranks; the others it looks at by themselves.
RankedAxes == Axes \ {"confirm_mode"}
WeakerModes(old, new) ==
  {axis \in RankedAxes : Rank(axis, Mode(new, axis)) < Rank(axis, Mode(old, axis))}
    \cup {axis \in {"confirm_mode"} : Mode(old, axis) = "type-name" /\ Mode(new, axis) = "simple"}

\* WeakensProtection: what of old is weaker in new.
Weakens(old, new) ==
  LET LostPattern(list, axis) ==
        WeakerList(old[list], new[list], Mode(old, axis), Mode(new, axis)) IN
  WeakerModes(old, new)
    \cup {axis \in {"contexts", "clusters"} : LostPattern(axis, "context_mode")}
    \cup {axis \in {"namespaces"} : LostPattern(axis, "namespace_mode")}
    \cup {axis \in {"actors"} : WeakerActors(old.actors, new.actors)}
    \cup {axis \in {"resources", "kinds", "altering", "promoted"} : ~(old[axis] \subseteq new[axis])}
    \cup {axis \in {"safe"} : ~(new.safe \subseteq old.safe)}
    \cup ((old.on \ new.on) \ {"strict_config_perms"})
    \cup {axis \in {"key"} : old.key # "" /\ new.key = ""}
    \cup {axis \in {"webhook"} : old.webhook # "" /\ new.webhook # old.webhook}
    \cup {axis \in {"retention"} : KeepsLess(old, new)}
===============================================================================
