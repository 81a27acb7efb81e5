-------------------------------- MODULE MCLayers --------------------------------
(***************************************************************************)
(* Layers with a few patterns, command lines and files to begin with.      *)
(***************************************************************************)
EXTENDS Layers

\* delete pod x, on a context that resolves.
Plain == [
  lead |-> "delete", verb |-> "delete", dryRun |-> FALSE, wide |-> FALSE,
  kinds |-> {}, short |-> FALSE, opaque |-> FALSE, retarget |-> FALSE, as |-> FALSE,
  context |-> "prod", server |-> "", everywhere |-> FALSE, named |-> {}, unnamed |-> FALSE,
  namespace |-> "", own |-> "", pod |-> "", user |-> "ann", label |-> "",
  exposed |-> FALSE, frozen |-> FALSE]

InPod(m) == [m EXCEPT !.context = "", !.pod = "apps"]

MCCommands ==
  {[Plain EXCEPT !.lead = v, !.verb = v] : v \in Verbs}
    \cup {[Plain EXCEPT !.lead = v, !.verb = v, !.dryRun = TRUE] : v \in {"delete", "exec"}}
    \cup {InPod([Plain EXCEPT !.lead = v, !.verb = v]) : v \in {"delete", "exec"}}
    \cup {[Plain EXCEPT !.lead = "plugin"],
          [Plain EXCEPT !.wide = TRUE, !.context = "dev"],
          InPod([Plain EXCEPT !.wide = TRUE]),
          [Plain EXCEPT !.kinds = {"secret"}, !.context = "dev"],
          [Plain EXCEPT !.lead = "get", !.verb = "get", !.kinds = {"secret"}, !.short = TRUE],
          [Plain EXCEPT !.lead = "get", !.verb = "get", !.opaque = TRUE],
          [Plain EXCEPT !.retarget = TRUE],
          [Plain EXCEPT !.as = TRUE],
          [Plain EXCEPT !.context = "dev", !.server = "east"],
          [Plain EXCEPT !.context = ""],
          [Plain EXCEPT !.context = "dev", !.named = {"apps"}],
          [Plain EXCEPT !.context = "dev", !.everywhere = TRUE],
          [Plain EXCEPT !.context = "dev", !.unnamed = TRUE],
          [Plain EXCEPT !.context = "dev", !.namespace = "apps"],
          [Plain EXCEPT !.context = "dev", !.own = "apps"],
          [Plain EXCEPT !.label = "bot"],
          [Plain EXCEPT !.exposed = TRUE, !.context = "dev"],
          [Plain EXCEPT !.frozen = TRUE, !.context = "dev"]}

\* Protection that asks, and protection that refuses.
Asking == [Silent EXCEPT
  !.contexts["*"] = "inherit", !.namespaces["apps"] = "inherit", !.clusters["east"] = "confirm",
  !.actors["bot"] = [context |-> "block", namespace |-> "inherit"], !.kinds = {"node"},
  !.mode["sensitive_access"] = "gate", !.mode["sensitive_kind_mode"] = "confirm",
  !.mode["blast_radius"] = "gate", !.mode["unknown_verb"] = "gate",
  !.altering = {"plugin"}, !.megabytes = 2, !.webhook = "sink"]
Refusing == [Silent EXCEPT
  !.contexts["prod"] = "inherit", !.namespaces["apps"] = "confirm", !.clusters["east"] = "inherit",
  !.resources = {"secret"}, !.safe = {"delete"},
  !.mode = [axis \in Axes |-> Order[axis][Cardinality(DOMAIN Order[axis])]],
  !.on = Switches \ {"read_only"}, !.log = "sink", !.key = "sink", !.megabytes = 1, !.files = 2]

MCBaselines == {Asking, Refusing}

\* An administrator who refuses the verbs that nobody knows.
Denying == [Silent EXCEPT !.contexts["prod"] = "inherit", !.mode["unknown_verb"] = "deny"]
MCDenyingBaselines == {Silent, Denying}
=================================================================================
