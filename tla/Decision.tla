------------------------------- MODULE Decision -------------------------------
(***************************************************************************)
(* The verdict on one command line under one config (guard.go,             *)
(* checkWithResolvers, with commands.go, blastradius.go and                *)
(* sensitivekind.go).  A command is what the parser and the resolvers find *)
(* out about it: its verb, its flags and targets, the context it addresses *)
(* and the surroundings it runs in.                                        *)
(***************************************************************************)
EXTENDS Policy

Command == [
  lead : Verbs,            \* the first positional
  verb : Verbs,            \* the first recognised verb from there on
  dryRun : BOOLEAN,
  wide : BOOLEAN,          \* --all, a selector, --force
  kinds : SUBSET Kinds,    \* the kinds it names
  short : BOOLEAN,         \* it names them by a discovered short name only
  opaque : BOOLEAN,        \* --raw, `all', a source that cannot be read
  retarget : BOOLEAN,      \* --server or --cluster
  as : BOOLEAN,            \* impersonation
  context : STRING,        \* "" if it does not resolve
  server : STRING,         \* of that context, "" if not known
  everywhere : BOOLEAN,    \* --all-namespaces
  named : SUBSET STRING,   \* namespaces that are its objects
  unnamed : BOOLEAN,       \* its objects are namespaces picked by --all or a selector
  namespace : STRING,      \* -n, or ""
  own : STRING,            \* the namespace that the context carries, or ""
  pod : STRING,            \* the service account's namespace, "" outside a pod
  user : STRING,           \* who runs it
  label : STRING,          \* KUBECTL_GUARD_ACTOR
  exposed : BOOLEAN,       \* others may write the config file
  frozen : BOOLEAN]        \* KUBECTL_GUARD_READONLY

Verdicts == {"allow", "confirm", "blocked", "deny"}

\* Refusing is refusing, with or without an explanation.
Strength(verdict) ==
  CASE verdict = "allow" -> 0 [] verdict = "confirm" -> 1 [] OTHER -> 2

-----------------------------------------------------------------------------
\* IsStateAlteringWith, IsSafeCommandWith, IsUnknownCommand: the config's word
\* on a verb goes before the built-in lists.
Altering(c, m) ==
  \/ Classified(c, m.verb) = "altering"
  \/ Classified(c, m.verb) = "none" /\ m.verb \in AlteringVerbs
Safe(c, m) ==
  \/ Classified(c, m.verb) = "safe"
  \/ Classified(c, m.verb) = "none" /\ m.verb \in SafeVerbs
Unknown(c, m) == m.lead \notin SafeVerbs \cup AlteringVerbs /\ Classified(c, m.lead) = "none"

\* SupportsDryRun: exec and its like have no dry run.
GenuineDryRun(c, m) == Altering(c, m) /\ m.dryRun /\ m.verb # "exec"

\* MatchesProtectedResource.
HitsResource(c, m) ==
  /\ c.resources # {}
  /\ \/ m.opaque
     \/ m.kinds \cap c.resources # {} /\ (m.short => Mode(c, "discover_short_names") = "on")

\* IsSensitiveAccess.
Sensitive(c, m) == Mode(c, "sensitive_access") # "off" /\ IsSensitiveVerb(c, m.verb)

\* IsBlastRadiusActive: whatever the config says of the verb.
BlastRadius(c, m) ==
  /\ Mode(c, "blast_radius") # "off"
  /\ m.verb \in {"delete", "drain"}
  /\ (m.wide \/ m.everywhere \/ m.unnamed)

\* IsSensitiveKindActive: drain acts on a node without naming the kind.
SensitiveKind(c, m) ==
  /\ Mode(c, "sensitive_kind_mode") # "off"
  /\ m.verb \in AlteringVerbs
  /\ \/ m.verb = "drain" /\ "node" \in c.kinds
     \/ m.kinds \cap c.kinds # {} /\ ~m.short

Orthogonal(c, m) == Sensitive(c, m) \/ BlastRadius(c, m) \/ SensitiveKind(c, m)

\* ReadOnlyActive, and the freeze that it puts on all but reads.
Frozen(c, m) ==
  (On(c, "read_only") \/ m.frozen) /\ ~Safe(c, m) /\ ~GenuineDryRun(c, m)

-----------------------------------------------------------------------------
HasContexts(c) == Listed(c.contexts) # {}
HasNamespaces(c) == Listed(c.namespaces) # {}

\* The context cannot be told though some are protected.
Lost(c, m) == m.context = "" /\ HasContexts(c)

\* The namespace to fall back on: in a pod, with nothing else to go by, its own.
Fallback(c, m) ==
  IF Lost(c, m) /\ m.pod # "" /\ Mode(c, "in_cluster") = "namespace" THEN m.pod ELSE "default"

\* resolveTargetNamespace.
RunNamespace(c, m) ==
  CASE m.namespace # "" -> m.namespace
    [] m.namespace = "" /\ m.own # "" /\ HasNamespaces(c) -> m.own
    [] OTHER -> Fallback(c, m)

\* namespaceTargetProtected and protectedNamespaceNameTarget.
HitsNamespace(c, m) ==
  \/ (m.everywhere \/ m.unnamed) /\ HasNamespaces(c)
  \/ \E n \in m.named \cup {RunNamespace(c, m)} : IsProtected(c.namespaces, n)

\* effectiveNamespaceModeForTarget.
NamespaceBlocks(c, m) ==
  LET global == Mode(c, "namespace_mode") IN
  \/ /\ (m.everywhere \/ m.unnamed) /\ HasNamespaces(c)
     /\ Strictest(c.namespaces, Listed(c.namespaces), global) = "block"
  \/ \E n \in m.named \cup {RunNamespace(c, m)} :
       IsProtected(c.namespaces, n) /\ EffectiveMode(c.namespaces, n, global) = "block"

\* resolveActor.
Actor(c, m) == CASE m.label # "" -> m.label [] m.label = "" /\ c.actor # "" -> c.actor [] OTHER -> m.user

NameProtected(c, m) == m.context # "" /\ IsProtected(c.contexts, m.context)
ClusterProtected(c, m) == m.server # "" /\ IsProtected(c.clusters, m.server)

\* unknownStrict.
Strict(c, m) == Mode(c, "unknown_verb") # "allow" /\ Unknown(c, m)

-----------------------------------------------------------------------------
\* The refusals that come before the dry run is considered.
Retargeted(c, m) == m.retarget /\ (HasContexts(c) \/ Listed(c.clusters) # {})

\* in_cluster: what a context that cannot be told comes to; "go" goes on.
Astray(c, m) ==
  CASE ~Lost(c, m) -> "go"
    [] Lost(c, m) /\ (m.pod = "" \/ Mode(c, "in_cluster") = "deny") -> "deny"
    [] OTHER -> IF Mode(c, "in_cluster") = "allow" /\ ~Orthogonal(c, m) /\ ~HitsNamespace(c, m)
                THEN "allow" ELSE "go"

ContextBlocks(c, m) ==
  LET global == Mode(c, "context_mode") IN
  \/ /\ NameProtected(c, m)
     /\ \/ EffectiveMode(c.contexts, m.context, global) = "block"
        \/ ActorBlocks(c, Actor(c, m), "context")
  \/ ClusterProtected(c, m) /\ EffectiveMode(c.clusters, m.server, global) = "block"

\* The mode of the namespace that the command runs in counts even if that
\* namespace is not a protected one.
NamespaceRefuses(c, m) ==
  \/ EffectiveMode(c.namespaces, RunNamespace(c, m), Mode(c, "namespace_mode")) = "block"
  \/ ActorBlocks(c, Actor(c, m), "namespace")
  \/ NamespaceBlocks(c, m)

\* The unified gate: block if one of the protections it meets blocks.
Gate(c, m) ==
  LET context == NameProtected(c, m) \/ ClusterProtected(c, m)
      namespace == (Altering(c, m) \/ Strict(c, m)) /\ HitsNamespace(c, m)
  IN CASE Strict(c, m) /\ (context \/ namespace) /\ Mode(c, "unknown_verb") = "deny" -> "deny"
       [] ~context /\ ~namespace /\ ~Orthogonal(c, m) -> "allow"
       [] OTHER ->
            IF \/ ContextBlocks(c, m)
               \/ namespace /\ NamespaceRefuses(c, m)
               \/ Sensitive(c, m) /\ Mode(c, "sensitive_access") = "block"
               \/ BlastRadius(c, m) /\ Mode(c, "blast_radius") = "block"
               \/ SensitiveKind(c, m) /\ Mode(c, "sensitive_kind_mode") = "block"
            THEN "blocked" ELSE "confirm"

\* Faulty variant of Rehearsal: a dry run passes whatever the verb.
RehearsalOfAny(c, m) == GenuineDryRun(c, m)

\* A dry run changes nothing, but one of a sensitive verb is still an access.
Rehearsal(c, m) == GenuineDryRun(c, m) /\ ~Sensitive(c, m)

\* checkWithResolvers, in the order of its early returns.
Check(c, m) ==
  IF (m.exposed /\ On(c, "strict_config_perms")) \/ ~Valid(c) THEN "deny"
  ELSE IF HitsResource(c, m) \/ Frozen(c, m) THEN "blocked"
  ELSE IF Retargeted(c, m) THEN "deny"
  ELSE IF Rehearsal(c, m) THEN "allow"
  ELSE IF Astray(c, m) # "go" THEN Astray(c, m)
  ELSE IF (NameProtected(c, m) \/ ClusterProtected(c, m)) /\ m.as /\ On(c, "block_impersonation")
    THEN "deny"
  ELSE IF ~(Altering(c, m) \/ Orthogonal(c, m) \/ Strict(c, m)) THEN "allow"
  ELSE Gate(c, m)
===============================================================================
