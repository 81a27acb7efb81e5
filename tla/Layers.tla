--------------------------------- MODULE Layers ---------------------------------
(***************************************************************************)
(* Two layers of config under edits: the system's, which an administrator  *)
(* writes, and the user's, which the `config' subcommands (main.go) and an *)
(* editor change.  A subcommand that weakens the user's config is          *)
(* announced, and if the config says so an operator has to agree.          *)
(*                                                                         *)
(* How subcommands overtake one another is ConfigStore's subject; here     *)
(* each takes one step.                                                    *)
(***************************************************************************)
EXTENDS Decision

CONSTANTS
  Commands,   \* the command lines that the layers are tried on
  Baselines,  \* what the two files may hold to begin with
  Sinks,      \* audit files, webhooks and keys
  MaxEdits    \* bound: edits of either file

ASSUME LayersAssumption ==
  /\ Commands \subseteq Command
  /\ \A m \in Commands :
       /\ m.lead # "plugin" => m.verb = m.lead
       /\ m.context = "" => m.server = "" /\ m.own = ""
  /\ Baselines \subseteq Config
  /\ "" \in Sinks /\ Sinks \subseteq STRING
  /\ MaxEdits \in Nat

VARIABLES
  baseline,  \* whether there is a system file, and whether it is enforced
  system,    \* what it says
  user,      \* what the user's file says
  agreed,    \* history: the last user config whose weakening was announced
  ruling,    \* history: the verdict on each command line
  edits

vars == <<baseline, system, user, agreed, ruling, edits>>

\* Type invariant.
TypeOK ==
  /\ baseline \in {"absent", "advisory", "enforced"}
  /\ system \in Config
  /\ user \in Config
  /\ agreed \in Config
  /\ ruling \in [Commands -> Verdicts]
  /\ edits \in 0 .. MaxEdits

\* The config that decides, and what the system's would do alone.
Now == Effective(baseline, system, user)
SystemAlone == Effective(baseline, system, Silent)
Judged(c) == [m \in Commands |-> Check(c, m)]

Init ==
  /\ user \in Baselines
  /\ \/ baseline = "absent" /\ system = Silent
     \/ baseline = "advisory" /\ system \in Baselines
  /\ agreed = user
  /\ ruling = Judged(Now)
  /\ edits = 0

-----------------------------------------------------------------------------
Edit == edits < MaxEdits /\ edits' = edits + 1

\* saveConfig: what weakens the config on disk is announced, and declined or not.
\* Values that the file left out and a subcommand filled in are written with it.
Save(new) ==
  /\ Edit
  /\ user' = Filled(new)
  /\ agreed' = IF Weakens(user, new) = {} THEN agreed ELSE Filled(new)
  /\ UNCHANGED <<baseline, system>>

\* add-context, add-namespace, add-cluster, with or without a mode: without
\* one, an entry that is there stays as it is.
AddEntry ==
  \E list \in {"contexts", "namespaces", "clusters"} :
    \E p \in DOMAIN user[list], mode \in EntryModes \ {"none"} :
      /\ user[list][p] # mode
      /\ Save([user EXCEPT ![list][p] = mode])

\* Faulty variant of RemoveEntry: the entry stays, with a mode nobody knows.
RemoveEntryMode ==
  \E list \in {"contexts", "namespaces", "clusters"} : \E p \in Listed(user[list]) :
    Save([user EXCEPT ![list][p] = "unset"])

\* remove-context, remove-namespace, remove-cluster.
RemoveEntry ==
  \E list \in {"contexts", "namespaces", "clusters"} : \E p \in Listed(user[list]) :
    Save([user EXCEPT ![list][p] = "none"])

\* add-resource, remove-resource, remove-sensitive-kind.
SetResources ==
  \E kind \in Kinds :
    \/ kind \notin user.resources /\ Save([user EXCEPT !.resources = @ \cup {kind}])
    \/ kind \in user.resources /\ Save([user EXCEPT !.resources = @ \ {kind}])
    \/ kind \in user.kinds /\ Save([user EXCEPT !.kinds = @ \ {kind}])

\* add-sensitive-kind, which switches the policy on if it is off.
AddSensitiveKind ==
  \E kind \in Kinds \ user.kinds :
    Save([user EXCEPT !.kinds = @ \cup {kind},
      !.mode["sensitive_kind_mode"] = IF Mode(user, "sensitive_kind_mode") = "off" THEN "confirm" ELSE @])

\* confirm-mode, audit-mode, context-mode ...: every axis but the two that
\* have no subcommand.
SetMode ==
  \E axis \in Axes \ {"in_cluster", "discover_short_names"} : \E value \in Legal[axis] :
    Save([user EXCEPT !.mode[axis] = value])

\* freeze, unfreeze, confirm-weakening, require-justification, audit-syslog.
Switch ==
  \E switch \in Switches \ {"block_impersonation", "strict_config_perms"} :
    \/ Save([user EXCEPT !.on = @ \cup {switch}])
    \/ Save([user EXCEPT !.on = @ \ {switch}])

\* actor-policy.
SetActorPolicy ==
  \E p \in ActorPatterns, policy \in Policies :
    /\ policy = NoPolicy => user.actors[p] # NoPolicy
    /\ policy # NoPolicy => "none" \notin {policy.context, policy.namespace}
    /\ Save([user EXCEPT !.actors[p] = policy])

\* command-override: the verb leaves the lists it is on first.
Override ==
  \E verb \in Verbs :
    LET cleared == [user EXCEPT !.safe = @ \ {verb}, !.altering = @ \ {verb}, !.promoted = @ \ {verb}]
    IN \/ Save([cleared EXCEPT !.safe = @ \cup {verb}])
       \/ Save([cleared EXCEPT !.altering = @ \cup {verb}])
       \/ verb \in user.safe \cup user.altering \cup user.promoted /\ Save(cleared)

\* audit-rotation, audit-webhook.
SetAudit ==
  \/ \E size \in 0 .. 2 : Save([user EXCEPT !.megabytes = size])
  \/ \E size \in 0 .. 2, count \in 0 .. 1 : Save([user EXCEPT !.megabytes = size, !.files = count])
  \/ \E url \in Sinks : Save([user EXCEPT !.webhook = url])

\* What only an editor changes: of either file, and seen by no check.
Unchecked(c) ==
  {[c EXCEPT !.sensitive = verbs] : verbs \in {{}, {"get"}, {"delete"}}}
    \cup {[c EXCEPT !.promoted = @ \cup {verb}] : verb \in Verbs}
    \cup {[c EXCEPT !.mode["in_cluster"] = value] : value \in Legal["in_cluster"]}
    \cup {[c EXCEPT !.mode["discover_short_names"] = value] : value \in Legal["discover_short_names"]}
    \cup {[c EXCEPT !.on = @ \cup {switch}] : switch \in Switches}
    \cup {[c EXCEPT !.on = @ \ {switch}] : switch \in Switches}
    \cup {[c EXCEPT !.log = path] : path \in Sinks}
    \cup {[c EXCEPT !.key = path] : path \in Sinks}
    \cup {[c EXCEPT !.actor = name] : name \in ActorPatterns \cup {""}}

\* The user opens an editor.
UserEdit ==
  /\ Edit
  /\ user' \in Unchecked(user)
  /\ agreed' = user'
  /\ UNCHANGED <<baseline, system>>

\* The administrator does, installs a file, enforces it, or mistypes a mode.
SystemEdit ==
  /\ Edit
  /\ \/ UNCHANGED baseline /\ baseline # "absent" /\ system' \in Unchecked(system)
     \/ /\ UNCHANGED baseline /\ baseline # "absent"
        /\ \E axis \in Axes : \E value \in Legal[axis] \cup {"unset", "invalid"} :
             /\ axis = "discover_short_names" => value # "invalid"
             /\ system' = [system EXCEPT !.mode[axis] = value]
     \/ baseline' \in {"advisory", "enforced"} /\ baseline # "absent" /\ UNCHANGED system
     \/ baseline' \in {"advisory", "enforced"} /\ baseline = "absent" /\ system' \in Baselines
     \/ baseline' = "absent" /\ system' = Silent
  /\ UNCHANGED <<user, agreed>>

UserCommand ==
  \/ AddEntry \/ RemoveEntry \/ SetResources \/ AddSensitiveKind \/ SetMode
  \/ Switch \/ SetActorPolicy \/ Override \/ SetAudit

Next ==
  /\ UserCommand \/ UserEdit \/ SystemEdit
  /\ \E c \in {Now'} : ruling' = Judged(c)

Spec == Init /\ [][Next]_vars

-----------------------------------------------------------------------------
(***************************************************************************)
(* A second config can be stricter than a first, setting by setting, and   *)
(* still be more lenient with a command, in the ways that follow, or if    *)
(* the first is one that Validate rejects.                                 *)
(***************************************************************************)

\* unknown_verb is about verbs that nobody classified: an override that calls
\* the verb dangerous takes it out of that policy.
Reclassified(c, d, m) == Unknown(c, m) /\ ~Unknown(d, m)

\* Only of an altering verb is a dry run harmless: calling the verb dangerous
\* lets a dry run pass that a policy for every context held back.
Rehearsed(c, d, m) == ~GenuineDryRun(c, m) /\ GenuineDryRun(d, m)

\* actor_policies go by a name that the second config may set.
Renamed(c, d, m) == Actor(c, m) # Actor(d, m)

\* A list of contexts, or in_cluster, decides if the pod's namespace or
\* `default' stands for one that is not given.
Rerouted(c, d, m) == HasNamespaces(c) /\ RunNamespace(c, m) # RunNamespace(d, m)

\* The global mode of an unprotected namespace blocks a command that runs there
\* and names another; an entry for the first one replaces that mode.
Shadowed(c, d, m) ==
  ~IsProtected(c.namespaces, RunNamespace(c, m)) /\ IsProtected(d.namespaces, RunNamespace(d, m))

Excused(c, d, m) ==
  \/ Reclassified(c, d, m) \/ Rehearsed(c, d, m) \/ Renamed(c, d, m)
  \/ Rerouted(c, d, m) \/ Shadowed(c, d, m) \/ ~Valid(c)

\* The verdict on m under d is no milder than the one under c.
Kept(before, after, c, d, m) == Strength(after) >= Strength(before) \/ Excused(c, d, m)

\* The floor: whatever the user's file says, no command gets a milder verdict
\* than under the system's alone (Merge).
Floor ==
  LET alone == SystemAlone  now == Now IN
  baseline # "absent" =>
    \A m \in Commands : Kept(Check(alone, m), ruling[m], alone, now, m)

\* What the user's file says outright: where it is silent, the administrator is
\* free to relax a default.
Outright ==
  [user EXCEPT !.mode = [axis \in Axes |-> IF @[axis] = "unset" THEN Order[axis][1] ELSE @[axis]],
               !.sensitive = IF @ = {} THEN system.sensitive ELSE @]

\* And no command gets a milder verdict than the user's file alone asks for, but
\* for the verbs that the administrator calls safe.
UserKept ==
  LET own == Outright  now == Now IN
  baseline # "absent" =>
    \A m \in Commands : m.verb \in system.safe \/ Kept(Check(own, m), ruling[m], own, now, m)

\* A change of the user's file of which WeakensProtection reports nothing.  It
\* does not look at sensitive_verbs and strict_config_perms, which no
\* subcommand changes.
Unreported ==
  /\ UNCHANGED <<baseline, system>>
  /\ Weakens(user, user') = {}
  /\ user'.sensitive = user.sensitive
  /\ On(user, "strict_config_perms") = On(user', "strict_config_perms")

\* An entry of the user's that blocked by the mode which the system's file
\* gives, and now asks.  WeakensProtection resolves it by the user's file alone
\* (saveConfig compares no other), in which it never blocked.
Detached(list, axis) ==
  /\ Mode(Now, axis) = "block"
  /\ \E p \in DOMAIN user[list] : user[list][p] = "inherit" /\ user'[list][p] = "confirm"
SomeDetached ==
  Detached("contexts", "context_mode") \/ Detached("clusters", "context_mode")
    \/ Detached("namespaces", "namespace_mode")

\* It makes no verdict milder, unless it detaches an entry from the system's mode.
SilentEditsKeep ==
  [][LET old == Now  new == Now' IN
     Unreported /\ ~SomeDetached => \A m \in Commands : Kept(ruling[m], ruling'[m], old, new, m)]_vars

\* Small steps do not add up: what no announcement spoke of is still as it was
\* at the last one, however many edits ago.  confirm_mode is the exception,
\* which goes from type-name to simple by way of agent-relay unannounced.
NoCreep == Weakens(agreed, user) \subseteq {"confirm_mode"}

\* The user's file takes nothing from the system's audit trail: its sinks, what
\* is recorded and, if it is enforced, how much is kept.
TrailKept ==
  /\ baseline # "absent" =>
       /\ \A sink \in {"log", "webhook", "key"} : system[sink] \in {"", Now[sink]}
       /\ Rank("audit_mode", Mode(Now, "audit_mode")) >= Rank("audit_mode", Mode(system, "audit_mode"))
       /\ On(system, "audit_syslog") => On(Now, "audit_syslog")
  /\ baseline = "enforced" => Now.log = system.log /\ ~KeepsLess(system, Now)

\* sensitive_access, blast_radius and sensitive_kind_mode in block mode refuse
\* on every context, in a pod or out, and whatever the verb was reclassified as.
BlockIsFinal ==
  LET c == Now IN
  \A m \in Commands :
    (\/ Sensitive(c, m) /\ Mode(c, "sensitive_access") = "block"
     \/ /\ ~GenuineDryRun(c, m)
        /\ \/ BlastRadius(c, m) /\ Mode(c, "blast_radius") = "block"
           \/ SensitiveKind(c, m) /\ Mode(c, "sensitive_kind_mode") = "block")
    => Strength(ruling[m]) = 2

\* "a dangerous override only ever tightens" (layered.go): an override of the
\* user's that calls a verb dangerous makes no verdict milder than the system's.
DangerousOnlyTightens ==
  LET alone == SystemAlone IN
  (baseline # "absent" /\ Valid(alone) /\ user = Filled([Silent EXCEPT !.altering = user.altering]))
    => \A m \in Commands : Strength(ruling[m]) >= Strength(Check(alone, m))
=================================================================================
