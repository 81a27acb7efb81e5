------------------------------ MODULE LayersProofs ------------------------------
(***************************************************************************)
(* What the theorems about the two layers of config rest on.               *)
(***************************************************************************)
EXTENDS Layers, TLAPS

(***************************************************************************)
(* Grades.                                                                 *)
(***************************************************************************)
LEMMA AxisNames ==
  Axes = {"context_mode", "namespace_mode", "confirm_mode", "audit_mode", "sensitive_access",
          "sensitive_kind_mode", "blast_radius", "unknown_verb", "in_cluster", "discover_short_names"}
BY DEF Axes, Order

\* What each setting may say, weakest first.
LEMMA Scales ==
  /\ Order["context_mode"] = <<"confirm", "block">>
  /\ Order["namespace_mode"] = <<"confirm", "block">>
  /\ Order["confirm_mode"] = <<"simple", "agent-relay", "type-name">>
  /\ Order["audit_mode"] = <<"off", "gated", "all">>
  /\ Order["sensitive_access"] = <<"off", "gate", "block">>
  /\ Order["sensitive_kind_mode"] = <<"off", "confirm", "block">>
  /\ Order["blast_radius"] = <<"off", "gate", "block">>
  /\ Order["unknown_verb"] = <<"allow", "gate", "deny">>
  /\ Order["in_cluster"] = <<"allow", "namespace", "deny">>
  /\ Order["discover_short_names"] = <<"off", "on">>
BY DEF Order

LEMMA Lengths ==
  ASSUME NEW axis \in Axes
  PROVE  /\ DOMAIN Order[axis] = IF axis \in {"context_mode", "namespace_mode", "discover_short_names"}
                                 THEN 1 .. 2 ELSE 1 .. 3
         /\ \A i, j \in DOMAIN Order[axis] : Order[axis][i] = Order[axis][j] => i = j
         /\ \A i \in DOMAIN Order[axis] : Order[axis][i] # "unset" /\ Order[axis][i] # "invalid"
<1>1. CASE axis = "context_mode"
  BY <1>1, Scales
<1>2. CASE axis = "namespace_mode"
  BY <1>2, Scales
<1>3. CASE axis = "confirm_mode"
  BY <1>3, Scales
<1>4. CASE axis = "audit_mode"
  BY <1>4, Scales
<1>5. CASE axis = "sensitive_access"
  BY <1>5, Scales
<1>6. CASE axis = "sensitive_kind_mode"
  BY <1>6, Scales
<1>7. CASE axis = "blast_radius"
  BY <1>7, Scales
<1>8. CASE axis = "unknown_verb"
  BY <1>8, Scales
<1>9. CASE axis = "in_cluster"
  BY <1>9, Scales
<1>10. CASE axis = "discover_short_names"
  BY <1>10, Scales
<1> QED  BY <1>1, <1>2, <1>3, <1>4, <1>5, <1>6, <1>7, <1>8, <1>9, <1>10, AxisNames

\* A value's rank is its place on the scale.
LEMMA RankIsPlace ==
  ASSUME NEW axis \in Axes, NEW i \in DOMAIN Order[axis]
  PROVE  Order[axis][i] \in Legal[axis] /\ Rank(axis, Order[axis][i]) = i
<1>1. Legal[axis] = {Order[axis][j] : j \in DOMAIN Order[axis]}
  BY DEF Legal
<1>2. Order[axis][i] \in Legal[axis]
  BY <1>1
<1> DEFINE j == CHOOSE k \in DOMAIN Order[axis] : Order[axis][k] = Order[axis][i]
<1>3. j \in DOMAIN Order[axis] /\ Order[axis][j] = Order[axis][i]
  OBVIOUS
<1>4. j = i
  BY <1>3, Lengths
<1>5. Rank(axis, Order[axis][i]) = j
  BY <1>2 DEF Rank
<1> QED  BY <1>2, <1>4, <1>5

LEMMA LegalRank ==
  ASSUME NEW axis \in Axes, NEW value
  PROVE  /\ value \in Legal[axis] =>
              /\ Rank(axis, value) \in DOMAIN Order[axis]
              /\ Order[axis][Rank(axis, value)] = value
              /\ value \in Levels /\ value # "unset" /\ value # "invalid"
         /\ value \notin Legal[axis] => Rank(axis, value) = 0
         /\ Rank(axis, value) \in 0 .. 3
         /\ value \in Legal[axis] <=> Rank(axis, value) > 0
<1>1. Legal[axis] = {Order[axis][j] : j \in DOMAIN Order[axis]}
  BY DEF Legal
<1>2. CASE value \in Legal[axis]
  <2>1. PICK i \in DOMAIN Order[axis] : value = Order[axis][i]
    BY <1>1, <1>2
  <2>2. Rank(axis, value) = i
    BY <2>1, RankIsPlace
  <2>3. i \in 1 .. 3
    BY <2>1, Lengths
  <2>4. value \in Levels
    BY <1>2 DEF Levels
  <2> QED  BY <1>2, <2>1, <2>2, <2>3, <2>4, Lengths
<1>3. CASE value \notin Legal[axis]
  BY <1>3 DEF Rank
<1> QED  BY <1>2, <1>3

\* Silence means a legal value.
LEMMA DefaultLegal ==
  ASSUME NEW axis \in Axes
  PROVE  Default[axis] \in Legal[axis] /\ Default[axis] \in Levels /\ Default[axis] # "unset"
<1>1. CASE axis = "audit_mode"
  <2>1. Default[axis] = Order[axis][3]
    BY <1>1, Scales DEF Default
  <2> QED  BY <1>1, <2>1, Lengths, RankIsPlace, LegalRank
<1>2. CASE axis = "in_cluster"
  <2>1. Default[axis] = Order[axis][2]
    BY <1>2, Scales DEF Default
  <2> QED  BY <1>2, <2>1, Lengths, RankIsPlace, LegalRank
<1>3. CASE axis = "discover_short_names"
  <2>1. Default[axis] = Order[axis][2]
    BY <1>3, Scales DEF Default
  <2> QED  BY <1>3, <2>1, Lengths, RankIsPlace, LegalRank
<1>4. CASE axis \notin {"audit_mode", "in_cluster", "discover_short_names"}
  <2>1. Default[axis] = Order[axis][1]
    BY <1>4, Zenon DEF Default
  <2>2. 1 \in DOMAIN Order[axis]
    BY Lengths
  <2> QED  BY <2>1, <2>2, RankIsPlace, LegalRank
<1> QED  BY <1>1, <1>2, <1>3, <1>4

\* The weakest value of a scale, and the strictest.
LEMMA Ends ==
  ASSUME NEW axis \in Axes, NEW v \in Legal[axis], NEW w \in Legal[axis],
         Rank(axis, v) <= Rank(axis, w)
  PROVE  /\ v # Order[axis][1] => w # Order[axis][1]
         /\ \A top \in DOMAIN Order[axis] :
              (\A i \in DOMAIN Order[axis] : i <= top) /\ v = Order[axis][top] => w = Order[axis][top]
<1>1. /\ Rank(axis, v) \in DOMAIN Order[axis] /\ Order[axis][Rank(axis, v)] = v
      /\ Rank(axis, w) \in DOMAIN Order[axis] /\ Order[axis][Rank(axis, w)] = w
  BY LegalRank
<1>2. DOMAIN Order[axis] \in {1 .. 2, 1 .. 3}
  BY Lengths
<1>3. v # Order[axis][1] => w # Order[axis][1]
  <2>1. SUFFICES ASSUME w = Order[axis][1]  PROVE v = Order[axis][1]
    OBVIOUS
  <2>2. Rank(axis, w) = 1
    BY <1>1, <1>2, <2>1, Lengths
  <2> QED  BY <1>1, <1>2, <2>2
<1>4. ASSUME NEW top \in DOMAIN Order[axis], \A i \in DOMAIN Order[axis] : i <= top, v = Order[axis][top]
      PROVE  w = Order[axis][top]
  <2>1. Rank(axis, v) = top
    BY <1>1, <1>4, Lengths
  <2>2. Rank(axis, w) = top
    BY <1>1, <1>2, <1>4, <2>1
  <2> QED  BY <1>1, <2>2
<1> QED  BY <1>3, <1>4

\* What is at least as strict as a value keeps its meaning.
LEMMA Stricter ==
  ASSUME NEW v, NEW w
  PROVE  /\ \A axis \in {"context_mode", "namespace_mode"} :
              v \in Legal[axis] /\ w \in Legal[axis] /\ Rank(axis, v) <= Rank(axis, w) =>
                (v = "block" => w = "block")
         /\ \A axis \in {"sensitive_access", "sensitive_kind_mode", "blast_radius"} :
              v \in Legal[axis] /\ w \in Legal[axis] /\ Rank(axis, v) <= Rank(axis, w) =>
                (v # "off" => w # "off") /\ (v = "block" => w = "block")
         /\ \A axis \in {"unknown_verb", "in_cluster"} :
              v \in Legal[axis] /\ w \in Legal[axis] /\ Rank(axis, v) <= Rank(axis, w) =>
                (v # "allow" => w # "allow") /\ (v = "deny" => w = "deny")
         /\ \A axis \in {"discover_short_names"} :
              v \in Legal[axis] /\ w \in Legal[axis] /\ Rank(axis, v) <= Rank(axis, w) =>
                (v = "on" => w = "on")
<1>1. ASSUME NEW axis \in Axes, v \in Legal[axis], w \in Legal[axis], Rank(axis, v) <= Rank(axis, w)
      PROVE  /\ v # Order[axis][1] => w # Order[axis][1]
             /\ axis \in {"context_mode", "namespace_mode", "discover_short_names"} =>
                  (v = Order[axis][2] => w = Order[axis][2])
             /\ axis \notin {"context_mode", "namespace_mode", "discover_short_names"} =>
                  (v = Order[axis][3] => w = Order[axis][3])
  <2>1. v # Order[axis][1] => w # Order[axis][1]
    BY <1>1, Ends
  <2>2. \A top \in DOMAIN Order[axis] :
          (\A i \in DOMAIN Order[axis] : i <= top) /\ v = Order[axis][top] => w = Order[axis][top]
    BY <1>1, Ends
  <2> QED  BY <2>1, <2>2, Lengths
<1>2. ASSUME NEW axis \in {"context_mode", "namespace_mode"},
             v \in Legal[axis], w \in Legal[axis], Rank(axis, v) <= Rank(axis, w), v = "block"
      PROVE  w = "block"
  BY <1>1, <1>2, AxisNames, Scales
<1>3. ASSUME NEW axis \in {"sensitive_access", "sensitive_kind_mode", "blast_radius"},
             v \in Legal[axis], w \in Legal[axis], Rank(axis, v) <= Rank(axis, w)
      PROVE  (v # "off" => w # "off") /\ (v = "block" => w = "block")
  BY <1>1, <1>3, AxisNames, Scales
<1>4. ASSUME NEW axis \in {"unknown_verb", "in_cluster"},
             v \in Legal[axis], w \in Legal[axis], Rank(axis, v) <= Rank(axis, w)
      PROVE  (v # "allow" => w # "allow") /\ (v = "deny" => w = "deny")
  BY <1>1, <1>4, AxisNames, Scales
<1>5. ASSUME NEW axis \in {"discover_short_names"},
             v \in Legal[axis], w \in Legal[axis], Rank(axis, v) <= Rank(axis, w), v = "on"
      PROVE  w = "on"
  BY <1>1, <1>5, AxisNames, Scales
<1> QED  BY <1>2, <1>3, <1>4, <1>5
-----------------------------------------------------------------------------
(***************************************************************************)
(* Types.                                                                  *)
(***************************************************************************)
LEMMA SilentIsConfig == Silent \in Config
<1>1. "unset" \in Levels
  BY Zenon DEF Levels
<1>2. "none" \in EntryModes /\ NoPolicy \in Policies
  BY DEF EntryModes, NoPolicy, Policies
<1> DEFINE contexts == [p \in ContextPatterns |-> "none"]
           namespaces == [p \in NamespacePatterns |-> "none"]
           clusters == [p \in ServerPatterns |-> "none"]
           actors == [p \in ActorPatterns |-> NoPolicy]
           mode == [axis \in Axes |-> "unset"]
<1>3. /\ contexts \in [ContextPatterns -> EntryModes]
      /\ namespaces \in [NamespacePatterns -> EntryModes]
      /\ clusters \in [ServerPatterns -> EntryModes]
      /\ actors \in [ActorPatterns -> Policies]
      /\ mode \in [Axes -> Levels]
  BY <1>1, <1>2
<1>4. Silent = [
        contexts |-> contexts, namespaces |-> namespaces, clusters |-> clusters,
        actors |-> actors, resources |-> {}, kinds |-> {}, mode |-> mode, on |-> {},
        sensitive |-> {}, safe |-> {}, altering |-> {}, promoted |-> {},
        log |-> "", webhook |-> "", key |-> "", megabytes |-> 0, files |-> 0, actor |-> ""]
  BY Zenon DEF Silent
<1> HIDE DEF contexts, namespaces, clusters, actors, mode
<1>5. {} \in SUBSET Kinds /\ {} \in SUBSET Switches /\ {} \in SUBSET Verbs
  OBVIOUS
<1>6. "" \in STRING /\ 0 \in Nat
  BY LayersAssumption
<1> QED  BY <1>3, <1>4, <1>5, <1>6, ZenonT(30) DEF Config

LEMMA ListUpdate ==
  ASSUME NEW c \in Config, NEW list \in {"contexts", "namespaces", "clusters"},
         NEW p \in DOMAIN c[list], NEW mode \in EntryModes
  PROVE  [c EXCEPT ![list][p] = mode] \in Config
<1>1. CASE list = "contexts"
  BY <1>1 DEF Config
<1>2. CASE list = "namespaces"
  BY <1>2 DEF Config
<1>3. CASE list = "clusters"
  BY <1>3 DEF Config
<1> QED  BY <1>1, <1>2, <1>3

\* A config with the modes and sensitive verbs of another.
Like(c, d) == d \in Config /\ d.mode = c.mode /\ d.sensitive = c.sensitive

LEMMA Updates ==
  ASSUME NEW c \in Config
  PROVE  /\ \A set \in SUBSET Kinds : Like(c, [c EXCEPT !.resources = set])
         /\ \A set \in SUBSET Kinds : Like(c, [c EXCEPT !.kinds = set])
         /\ \A set \in SUBSET Switches : Like(c, [c EXCEPT !.on = set])
         /\ \A set \in SUBSET Verbs : [c EXCEPT !.sensitive = set] \in Config
         /\ \A set \in SUBSET Verbs : Like(c, [c EXCEPT !.safe = set])
         /\ \A set \in SUBSET Verbs : Like(c, [c EXCEPT !.altering = set])
         /\ \A set \in SUBSET Verbs : Like(c, [c EXCEPT !.promoted = set])
         /\ \A axis \in Axes, value \in Levels : [c EXCEPT !.mode[axis] = value] \in Config
         /\ \A p \in ActorPatterns, policy \in Policies : Like(c, [c EXCEPT !.actors[p] = policy])
         /\ \A text \in STRING : Like(c, [c EXCEPT !.log = text])
         /\ \A text \in STRING : Like(c, [c EXCEPT !.webhook = text])
         /\ \A text \in STRING : Like(c, [c EXCEPT !.key = text])
         /\ \A text \in STRING : Like(c, [c EXCEPT !.actor = text])
         /\ \A n \in Nat : Like(c, [c EXCEPT !.megabytes = n])
         /\ \A n, k \in Nat : Like(c, [c EXCEPT !.megabytes = n, !.files = k])
<1>1. /\ \A set \in SUBSET Kinds : Like(c, [c EXCEPT !.resources = set])
      /\ \A set \in SUBSET Kinds : Like(c, [c EXCEPT !.kinds = set])
      /\ \A set \in SUBSET Switches : Like(c, [c EXCEPT !.on = set])
  BY DEF Config, Like
<1>2. /\ \A set \in SUBSET Verbs : [c EXCEPT !.sensitive = set] \in Config
      /\ \A set \in SUBSET Verbs : Like(c, [c EXCEPT !.safe = set])
      /\ \A set \in SUBSET Verbs : Like(c, [c EXCEPT !.altering = set])
      /\ \A set \in SUBSET Verbs : Like(c, [c EXCEPT !.promoted = set])
  BY DEF Config, Like
<1>3. /\ \A axis \in Axes, value \in Levels : [c EXCEPT !.mode[axis] = value] \in Config
      /\ \A p \in ActorPatterns, policy \in Policies : Like(c, [c EXCEPT !.actors[p] = policy])
  BY DEF Config, Like
<1>4. /\ \A text \in STRING : Like(c, [c EXCEPT !.log = text])
      /\ \A text \in STRING : Like(c, [c EXCEPT !.webhook = text])
      /\ \A text \in STRING : Like(c, [c EXCEPT !.key = text])
      /\ \A text \in STRING : Like(c, [c EXCEPT !.actor = text])
  BY DEF Config, Like
<1>5. /\ \A n \in Nat : Like(c, [c EXCEPT !.megabytes = n])
      /\ \A n, k \in Nat : Like(c, [c EXCEPT !.megabytes = n, !.files = k])
  BY DEF Config, Like
<1> QED  BY <1>1, <1>2, <1>3, <1>4, <1>5

\* Silence is filled in with a value; nothing else changes.
LEMMA FilledModes ==
  ASSUME NEW c \in Config
  PROVE  /\ Filled(c) \in Config
         /\ \A axis \in Axes : Mode(c, axis) \in Levels /\ Mode(c, axis) # "unset"
         /\ \A axis \in Axes : Mode(Filled(c), axis) = Mode(c, axis)
         /\ \A axis \in Axes : c.mode[axis] # "unset" => Filled(c).mode[axis] # "unset"
         /\ Filled(c) = [c EXCEPT !.mode = Filled(c).mode]
<1> DEFINE filled == [axis \in Axes |->
      IF axis \in {"confirm_mode", "audit_mode", "context_mode", "namespace_mode"}
      THEN Mode(c, axis) ELSE c.mode[axis]]
<1>1. c.mode \in [Axes -> Levels]
  BY DEF Config
<1>2. \A axis \in Axes : Mode(c, axis) \in Levels /\ Mode(c, axis) # "unset"
  BY <1>1, DefaultLegal DEF Mode
<1>3. filled \in [Axes -> Levels]
  BY <1>1, <1>2
<1>4. Filled(c) = [c EXCEPT !.mode = filled]
  BY DEF Filled
<1> HIDE DEF filled
<1>5. Filled(c) \in Config /\ Filled(c).mode = filled
  BY <1>3, <1>4 DEF Config
<1>6. ASSUME NEW axis \in Axes
      PROVE  /\ Mode(Filled(c), axis) = Mode(c, axis)
             /\ c.mode[axis] # "unset" => Filled(c).mode[axis] # "unset"
  <2>1. filled[axis] \in {Mode(c, axis), c.mode[axis]}
    BY DEF filled
  <2>2. Mode(c, axis) = IF c.mode[axis] = "unset" THEN Default[axis] ELSE c.mode[axis]
    BY DEF Mode
  <2>3. Mode(Filled(c), axis) = IF filled[axis] = "unset" THEN Default[axis] ELSE filled[axis]
    BY <1>5 DEF Mode
  <2>4. Mode(c, axis) # "unset"
    BY <1>2
  <2> QED  BY <1>5, <2>1, <2>2, <2>3, <2>4
<1> QED  BY <1>2, <1>4, <1>5, <1>6

\* A verdict is a verdict.
LEMMA CheckType ==
  ASSUME NEW c, NEW m
  PROVE  Check(c, m) \in Verdicts
<1>1. Astray(c, m) \in {"go", "deny", "allow"}
  BY Zenon DEF Astray
<1>2. Gate(c, m) \in Verdicts
  BY Zenon DEF Gate, Verdicts
<1> QED  BY <1>1, <1>2 DEF Check, Verdicts
-----------------------------------------------------------------------------
(***************************************************************************)
(* The type invariant, with what the history of verdicts says.             *)
(***************************************************************************)
TypeInv == TypeOK /\ ruling = Judged(Now)

\* An editor and a subcommand write a config.
LEMMA UncheckedType ==
  ASSUME NEW c \in Config, NEW d \in Unchecked(c)
  PROVE  d \in Config
<1>1. /\ c.on \in SUBSET Switches /\ c.promoted \in SUBSET Verbs
      /\ \A verb \in Verbs : c.promoted \cup {verb} \in SUBSET Verbs
      /\ \A switch \in Switches : c.on \cup {switch} \in SUBSET Switches /\ c.on \ {switch} \in SUBSET Switches
  BY DEF Config
<1>2. CASE d \in {[c EXCEPT !.sensitive = verbs] : verbs \in {{}, {"get"}, {"delete"}}}
  <2>1. \A verbs \in {{}, {"get"}, {"delete"}} : verbs \in SUBSET Verbs
    BY DEF Verbs, SafeVerbs, AlteringVerbs
  <2> QED  BY <1>2, <2>1, Updates
<1>3. CASE d \in {[c EXCEPT !.promoted = @ \cup {verb}] : verb \in Verbs}
  <2>1. PICK verb \in Verbs : d = [c EXCEPT !.promoted = c.promoted \cup {verb}]
    BY <1>3, Zenon
  <2>2. Like(c, [c EXCEPT !.promoted = c.promoted \cup {verb}])
    BY <1>1, Updates, Zenon
  <2> QED  BY <2>1, <2>2, Zenon DEF Like
<1>4. CASE \/ d \in {[c EXCEPT !.mode["in_cluster"] = value] : value \in Legal["in_cluster"]}
           \/ d \in {[c EXCEPT !.mode["discover_short_names"] = value] : value \in Legal["discover_short_names"]}
  <2>1. \A axis \in Axes : \A value \in Legal[axis] : value \in Levels
    BY LegalRank
  <2>2. "in_cluster" \in Axes /\ "discover_short_names" \in Axes
    BY AxisNames
  <2>3. CASE d \in {[c EXCEPT !.mode["in_cluster"] = value] : value \in Legal["in_cluster"]}
    <3>1. PICK value \in Levels : d = [c EXCEPT !.mode["in_cluster"] = value]
      BY <2>1, <2>2, <2>3, Zenon
    <3> QED  BY <2>2, <3>1, Updates, Zenon
  <2>4. CASE d \in {[c EXCEPT !.mode["discover_short_names"] = value] : value \in Legal["discover_short_names"]}
    <3>1. PICK value \in Levels : d = [c EXCEPT !.mode["discover_short_names"] = value]
      BY <2>1, <2>2, <2>4, Zenon
    <3> QED  BY <2>2, <3>1, Updates, Zenon
  <2> QED  BY <1>4, <2>3, <2>4
<1>5. CASE \/ d \in {[c EXCEPT !.on = @ \cup {switch}] : switch \in Switches}
           \/ d \in {[c EXCEPT !.on = @ \ {switch}] : switch \in Switches}
  <2>1. PICK set \in SUBSET Switches : d = [c EXCEPT !.on = set]
    BY <1>1, <1>5, Zenon
  <2>2. Like(c, [c EXCEPT !.on = set])
    BY Updates, Zenon
  <2> QED  BY <2>1, <2>2, Zenon DEF Like
<1>6. CASE \/ d \in {[c EXCEPT !.log = path] : path \in Sinks}
           \/ d \in {[c EXCEPT !.key = path] : path \in Sinks}
  <2>1. PICK path \in Sinks : d = [c EXCEPT !.log = path] \/ d = [c EXCEPT !.key = path]
    BY <1>6, Zenon
  <2>2. path \in STRING
    BY LayersAssumption
  <2>3. Like(c, [c EXCEPT !.log = path]) /\ Like(c, [c EXCEPT !.key = path])
    BY <2>2, Updates, Zenon
  <2> QED  BY <2>1, <2>3, Zenon DEF Like
<1>7. CASE d \in {[c EXCEPT !.actor = name] : name \in ActorPatterns \cup {""}}
  <2>1. PICK name \in ActorPatterns \cup {""} : d = [c EXCEPT !.actor = name]
    BY <1>7, Zenon
  <2>2. name \in STRING
    BY LayersAssumption, PatternAssumption
  <2>3. Like(c, [c EXCEPT !.actor = name])
    BY <2>2, Updates, Zenon
  <2> QED  BY <2>1, <2>3, Zenon DEF Like
<1> QED  BY <1>2, <1>3, <1>4, <1>5, <1>6, <1>7 DEF Unchecked

LEMMA SaveType ==
  ASSUME TypeOK, NEW new \in Config, Save(new)
  PROVE  /\ user' = Filled(new) /\ user' \in Config /\ agreed' \in Config
         /\ UNCHANGED <<baseline, system>> /\ edits < MaxEdits /\ edits' = edits + 1
BY FilledModes DEF Save, Edit, TypeOK

\* What a subcommand saves is a config that sets what the old one set.
Saves(new) ==
  /\ new \in Config /\ Save(new)
  /\ \A axis \in Axes : user.mode[axis] # "unset" => new.mode[axis] # "unset"
  /\ new.sensitive = user.sensitive

LEMMA CommandSaves ==
  ASSUME TypeOK, UserCommand
  PROVE  \E new : Saves(new)
<1>1. user \in Config
  BY DEF TypeOK
<1>2. /\ \A axis \in Axes : \A value \in Legal[axis] : value \in Levels /\ value # "unset"
      /\ \A c \in Config : c.mode \in [Axes -> Levels]
  BY LegalRank DEF Config
<1>3. CASE AddEntry
  <2>1. PICK list \in {"contexts", "namespaces", "clusters"} :
          \E p \in DOMAIN user[list], mode \in EntryModes \ {"none"} :
            Save([user EXCEPT ![list][p] = mode])
    BY <1>3, Zenon DEF AddEntry
  <2>2. PICK p \in DOMAIN user[list], mode \in EntryModes \ {"none"} :
          Save([user EXCEPT ![list][p] = mode])
    BY <2>1, Zenon
  <2>3. [user EXCEPT ![list][p] = mode] \in Config
    BY <1>1, ListUpdate
  <2>4. [user EXCEPT ![list][p] = mode].mode = user.mode
        /\ [user EXCEPT ![list][p] = mode].sensitive = user.sensitive
    BY <1>1 DEF Config
  <2> QED  BY <2>2, <2>3, <2>4 DEF Saves
<1>4. CASE RemoveEntry
  <2>1. PICK list \in {"contexts", "namespaces", "clusters"} :
          \E p \in Listed(user[list]) : Save([user EXCEPT ![list][p] = "none"])
    BY <1>4, Zenon DEF RemoveEntry
  <2>2. PICK p \in Listed(user[list]) : Save([user EXCEPT ![list][p] = "none"])
    BY <2>1, Zenon
  <2>3. [user EXCEPT ![list][p] = "none"] \in Config
    BY <1>1, ListUpdate DEF Listed, EntryModes
  <2>4. [user EXCEPT ![list][p] = "none"].mode = user.mode
        /\ [user EXCEPT ![list][p] = "none"].sensitive = user.sensitive
    BY <1>1 DEF Config
  <2> QED  BY <2>2, <2>3, <2>4 DEF Saves
<1>5. CASE SetResources
  <2> DEFINE saved == {[user EXCEPT !.resources = set] : set \in SUBSET Kinds}
                        \cup {[user EXCEPT !.kinds = set] : set \in SUBSET Kinds}
  <2>1. PICK new \in saved : Save(new)
    <3>1. \A kind \in Kinds :
            /\ user.resources \cup {kind} \in SUBSET Kinds /\ user.resources \ {kind} \in SUBSET Kinds
            /\ user.kinds \ {kind} \in SUBSET Kinds
      BY <1>1 DEF Config
    <3> QED  BY <1>5, <3>1, Zenon DEF SetResources
  <2>2. Like(user, new)
    <3>1. PICK set \in SUBSET Kinds :
               new = [user EXCEPT !.resources = set] \/ new = [user EXCEPT !.kinds = set]
      BY <2>1, Zenon
    <3>2. Like(user, [user EXCEPT !.resources = set]) /\ Like(user, [user EXCEPT !.kinds = set])
      BY <1>1, Updates, Zenon
    <3> QED  BY <3>1, <3>2, Zenon
  <2> QED  BY <2>1, <2>2 DEF Saves, Like
<1>6. CASE AddSensitiveKind
  <2> DEFINE value == IF Mode(user, "sensitive_kind_mode") = "off" THEN "confirm"
                      ELSE user.mode["sensitive_kind_mode"]
  <2>1. PICK kind \in Kinds \ user.kinds :
              Save([user EXCEPT !.kinds = @ \cup {kind}, !.mode["sensitive_kind_mode"] = value])
    BY <1>6 DEF AddSensitiveKind
  <2>2. value \in Levels /\ (user.mode["sensitive_kind_mode"] # "unset" => value # "unset")
    <3>1. "confirm" \in Legal["sensitive_kind_mode"]
      BY AxisNames, RankIsPlace, Scales, Lengths
    <3> QED  BY <1>1, <1>2, <3>1, AxisNames
  <2> DEFINE first == [user EXCEPT !.kinds = @ \cup {kind}]
             new == [first EXCEPT !.mode["sensitive_kind_mode"] = value]
  <2>3. first \in Config /\ first.mode = user.mode /\ first.sensitive = user.sensitive
    <3>1. user.kinds \cup {kind} \in SUBSET Kinds
      BY <1>1, <2>1 DEF Config
    <3> QED  BY <1>1, <3>1, Updates, Zenon DEF Like
  <2>4. new \in Config
    BY <2>2, <2>3, AxisNames, Updates
  <2>5. new = [user EXCEPT !.kinds = @ \cup {kind}, !.mode["sensitive_kind_mode"] = value]
    OBVIOUS
  <2>6. new.sensitive = user.sensitive
        /\ \A axis \in Axes : new.mode[axis] = IF axis = "sensitive_kind_mode" THEN value ELSE user.mode[axis]
    BY <1>1, <2>3, AxisNames DEF Config
  <2>7. Save(new)
    BY <2>1, <2>5, Zenon
  <2> HIDE DEF new, value
  <2> QED  BY <2>2, <2>4, <2>6, <2>7 DEF Saves
<1>7. CASE SetMode
  <2>1. PICK axis, value :
          axis \in Axes /\ value \in Legal[axis] /\ Save([user EXCEPT !.mode[axis] = value])
    BY <1>7 DEF SetMode
  <2>2. [user EXCEPT !.mode[axis] = value] \in Config
    BY <1>1, <1>2, <2>1, Updates
  <2>3. /\ [user EXCEPT !.mode[axis] = value].sensitive = user.sensitive
        /\ \A a \in Axes : [user EXCEPT !.mode[axis] = value].mode[a] = IF a = axis THEN value ELSE user.mode[a]
    BY <1>1 DEF Config
  <2> QED  BY <1>2, <2>1, <2>2, <2>3 DEF Saves
<1>8. CASE Switch
  <2>1. PICK set \in SUBSET Switches : Save([user EXCEPT !.on = set])
    <3>1. \A switch \in Switches : user.on \cup {switch} \in SUBSET Switches /\ user.on \ {switch} \in SUBSET Switches
      BY <1>1 DEF Config
    <3> QED  BY <1>8, <3>1, Zenon DEF Switch
  <2>2. Like(user, [user EXCEPT !.on = set])
    BY <1>1, <2>1, Updates, Zenon
  <2> QED  BY <2>1, <2>2 DEF Saves, Like
<1>9. CASE SetActorPolicy
  <2>1. PICK p \in ActorPatterns, policy \in Policies : Save([user EXCEPT !.actors[p] = policy])
    BY <1>9 DEF SetActorPolicy
  <2>2. Like(user, [user EXCEPT !.actors[p] = policy])
    BY <1>1, <2>1, Updates, Zenon
  <2> QED  BY <2>1, <2>2 DEF Saves, Like
<1>10. CASE Override
  <2>1. PICK verb \in Verbs :
          LET cleared == [user EXCEPT !.safe = @ \ {verb}, !.altering = @ \ {verb}, !.promoted = @ \ {verb}]
          IN \/ Save([cleared EXCEPT !.safe = @ \cup {verb}])
             \/ Save([cleared EXCEPT !.altering = @ \cup {verb}])
             \/ Save(cleared)
    BY <1>10 DEF Override
  <2> DEFINE cleared == [user EXCEPT !.safe = @ \ {verb}, !.altering = @ \ {verb}, !.promoted = @ \ {verb}]
  <2>2. cleared \in Config /\ cleared.mode = user.mode /\ cleared.sensitive = user.sensitive
    BY <1>1 DEF Config
  <2>3. PICK new \in {[cleared EXCEPT !.safe = @ \cup {verb}], [cleared EXCEPT !.altering = @ \cup {verb}], cleared} :
          Save(new)
    BY <2>1
  <2> HIDE DEF cleared
  <2>4. Like(cleared, new)
    <3>1. cleared.safe \cup {verb} \in SUBSET Verbs /\ cleared.altering \cup {verb} \in SUBSET Verbs
      BY <2>1, <2>2 DEF Config
    <3>2. Like(cleared, cleared)
      BY <2>2 DEF Like
    <3>3. Like(cleared, [cleared EXCEPT !.safe = cleared.safe \cup {verb}])
      BY <2>2, <3>1, Updates, Zenon
    <3>4. Like(cleared, [cleared EXCEPT !.altering = cleared.altering \cup {verb}])
      BY <2>2, <3>1, Updates, Zenon
    <3> QED  BY <2>3, <3>2, <3>3, <3>4, Zenon
  <2> QED  BY <2>2, <2>3, <2>4 DEF Saves, Like
<1>11. CASE SetAudit
  <2>1. PICK new : Save(new) /\ \/ \E size \in Nat : new = [user EXCEPT !.megabytes = size]
                                \/ \E size, count \in Nat : new = [user EXCEPT !.megabytes = size, !.files = count]
                                \/ \E url \in STRING : new = [user EXCEPT !.webhook = url]
    <3>1. \A size \in 0 .. 2 : size \in Nat
      OBVIOUS
    <3>2. \A count \in 0 .. 1 : count \in Nat
      OBVIOUS
    <3>3. \A url \in Sinks : url \in STRING
      BY LayersAssumption
    <3> QED  BY <1>11, <3>1, <3>2, <3>3, Zenon DEF SetAudit
  <2>2. CASE \E size \in Nat : new = [user EXCEPT !.megabytes = size]
    <3>1. PICK size \in Nat : new = [user EXCEPT !.megabytes = size]
      BY <2>2
    <3>2. Like(user, [user EXCEPT !.megabytes = size])
      BY <1>1, Updates, Zenon
    <3> QED  BY <2>1, <3>1, <3>2, Zenon DEF Saves, Like
  <2>3. CASE \E size, count \in Nat : new = [user EXCEPT !.megabytes = size, !.files = count]
    <3>1. PICK size, count \in Nat : new = [user EXCEPT !.megabytes = size, !.files = count]
      BY <2>3
    <3>2. Like(user, [user EXCEPT !.megabytes = size, !.files = count])
      BY <1>1, Updates, Zenon
    <3> QED  BY <2>1, <3>1, <3>2, Zenon DEF Saves, Like
  <2>4. CASE \E url \in STRING : new = [user EXCEPT !.webhook = url]
    <3>1. PICK url \in STRING : new = [user EXCEPT !.webhook = url]
      BY <2>4
    <3>2. Like(user, [user EXCEPT !.webhook = url])
      BY <1>1, Updates, Zenon
    <3> QED  BY <2>1, <3>1, <3>2, Zenon DEF Saves, Like
  <2> QED  BY <2>1, <2>2, <2>3, <2>4
<1> QED  BY <1>3, <1>4, <1>5, <1>6, <1>7, <1>8, <1>9, <1>10, <1>11 DEF UserCommand
\* Of a user's step, only the user's file and what was agreed on can change.
LEMMA UserSteps ==
  ASSUME TypeOK, UserCommand \/ UserEdit
  PROVE  /\ user' \in Config /\ agreed' \in Config /\ UNCHANGED <<baseline, system>>
         /\ edits < MaxEdits /\ edits' = edits + 1
<1>1. CASE UserCommand
  BY <1>1, CommandSaves, SaveType DEF Saves
<1>2. CASE UserEdit
  <2>1. user' \in Config
    BY <1>2, UncheckedType DEF UserEdit, TypeOK
  <2> QED  BY <1>2, <2>1 DEF UserEdit, Edit
<1> QED  BY <1>1, <1>2

LEMMA SystemSteps ==
  ASSUME TypeOK, SystemEdit
  PROVE  /\ baseline' \in {"absent", "advisory", "enforced"} /\ system' \in Config
         /\ UNCHANGED <<user, agreed>> /\ edits < MaxEdits /\ edits' = edits + 1
<1>1. system \in Config /\ baseline \in {"absent", "advisory", "enforced"}
  BY DEF TypeOK
<1>2. UNCHANGED <<user, agreed>> /\ edits < MaxEdits /\ edits' = edits + 1
  BY DEF SystemEdit, Edit
<1>3. CASE UNCHANGED baseline /\ system' \in Unchecked(system)
  BY <1>1, <1>2, <1>3, UncheckedType
<1>4. CASE /\ UNCHANGED baseline
           /\ \E axis \in Axes : \E value \in Legal[axis] \cup {"unset", "invalid"} :
                system' = [system EXCEPT !.mode[axis] = value]
  <2>1. PICK axis, value : /\ axis \in Axes /\ value \in Legal[axis] \cup {"unset", "invalid"}
                           /\ system' = [system EXCEPT !.mode[axis] = value]
    BY <1>4, Zenon
  <2>2. "unset" \in Levels /\ "invalid" \in Levels
    BY Zenon DEF Levels
  <2>3. value \in Levels
    BY <2>1, <2>2, LegalRank
  <2>4. system' \in Config
    BY <1>1, <2>1, <2>3, Updates, Zenon
  <2> QED  BY <1>1, <1>2, <1>4, <2>4
<1>5. CASE baseline' \in {"advisory", "enforced"} /\ UNCHANGED system
  BY <1>1, <1>2, <1>5
<1>6. CASE baseline' \in {"advisory", "enforced"} /\ system' \in Baselines
  BY <1>2, <1>6, LayersAssumption
<1>7. CASE baseline' = "absent" /\ system' = Silent
  BY <1>2, <1>7, SilentIsConfig
<1>8. \/ UNCHANGED baseline /\ system' \in Unchecked(system)
      \/ /\ UNCHANGED baseline
         /\ \E axis \in Axes : \E value \in Legal[axis] \cup {"unset", "invalid"} :
              system' = [system EXCEPT !.mode[axis] = value]
      \/ baseline' \in {"advisory", "enforced"} /\ UNCHANGED system
      \/ baseline' \in {"advisory", "enforced"} /\ system' \in Baselines
      \/ baseline' = "absent" /\ system' = Silent
  BY Zenon DEF SystemEdit
<1> QED  BY <1>3, <1>4, <1>5, <1>6, <1>7, <1>8

LEMMA JudgedType ==
  ASSUME NEW c
  PROVE  Judged(c) \in [Commands -> Verdicts]
BY CheckType DEF Judged

LEMMA InitTypes ==
  ASSUME Init
  PROVE  TypeInv
<1>1. user \in Config /\ agreed \in Config /\ system \in Config
  BY LayersAssumption, SilentIsConfig DEF Init
<1>2. baseline \in {"absent", "advisory", "enforced"} /\ ruling = Judged(Now)
  BY DEF Init
<1>3. edits \in 0 .. MaxEdits
  <2>1. MaxEdits \in Nat /\ edits = 0
    BY LayersAssumption DEF Init
  <2> QED  BY <2>1
<1> QED  BY <1>1, <1>2, <1>3, JudgedType DEF TypeInv, TypeOK

LEMMA StepTypes == TypeInv /\ [Next]_vars => TypeInv'
<1>1. SUFFICES ASSUME TypeInv, [Next]_vars  PROVE TypeInv'
  OBVIOUS
<1>2. CASE Next
  <2>1. ruling' = Judged(Now)'
    BY <1>2 DEF Next, Judged
  <2>2. ruling' \in [Commands -> Verdicts]
    BY <2>1, CheckType DEF Judged
  <2>3. /\ baseline' \in {"absent", "advisory", "enforced"} /\ system' \in Config
        /\ user' \in Config /\ agreed' \in Config /\ edits < MaxEdits /\ edits' = edits + 1
    BY <1>1, <1>2, UserSteps, SystemSteps DEF Next, TypeInv, TypeOK
  <2>4. edits' \in 0 .. MaxEdits
    <3>1. MaxEdits \in Nat /\ edits \in 0 .. MaxEdits
      BY <1>1, LayersAssumption DEF TypeInv, TypeOK
    <3> QED  BY <2>3, <3>1
  <2> QED  BY <2>1, <2>2, <2>3, <2>4 DEF TypeInv, TypeOK
<1>3. CASE UNCHANGED vars
  BY <1>1, <1>3 DEF vars, TypeInv, TypeOK, Judged, Now
<1> QED  BY <1>1, <1>2, <1>3

LEMMA TypesHold == Spec => []TypeInv
<1>1. Init => TypeInv
  BY InitTypes
<1> QED  BY <1>1, StepTypes, PTL DEF Spec

\* Whatever the patterns, the files and the edits, both files stay configs that
\* the code can hold, and each command line gets a verdict: no pair of settings
\* leaves checkWithResolvers (guard.go) without one.
THEOREM TypeCorrect == Spec => []TypeOK
<1>1. TypeInv => TypeOK
  BY DEF TypeInv
<1> QED  BY <1>1, TypesHold, PTL
-----------------------------------------------------------------------------
(***************************************************************************)
(* Policies for every context in block mode.                               *)
(***************************************************************************)
LEMMA Strengths ==
  /\ Strength("allow") = 0 /\ Strength("confirm") = 1
  /\ Strength("blocked") = 2 /\ Strength("deny") = 2
  /\ \A verdict : Strength(verdict) \in 0 .. 2
BY DEF Strength

LEMMA NoMilder ==
  ASSUME NEW v \in Verdicts, NEW w \in Verdicts,
         v = "allow" \/ (v = "confirm" /\ w # "allow") \/ w \in {"blocked", "deny"}
  PROVE  Strength(w) >= Strength(v)
<1>1. /\ v \in {"allow", "confirm", "blocked", "deny"}
      /\ w \in {"allow", "confirm", "blocked", "deny"}
  BY DEF Verdicts
<1>2. CASE v = "allow"
  BY <1>1, <1>2 DEF Strength
<1>3. CASE v = "confirm"
  BY <1>1, <1>3 DEF Strength
<1>4. CASE v \in {"blocked", "deny"}
  BY <1>1, <1>4 DEF Strength
<1> QED  BY <1>1, <1>2, <1>3, <1>4

\* A command that such a policy applies to is not let through as a rehearsal,
\* nor as one that in_cluster waves on, nor as one that nothing protects.
LEMMA BlockRefuses ==
  ASSUME NEW c, NEW m,
         \/ Sensitive(c, m) /\ Mode(c, "sensitive_access") = "block"
         \/ /\ ~GenuineDryRun(c, m)
            /\ \/ BlastRadius(c, m) /\ Mode(c, "blast_radius") = "block"
               \/ SensitiveKind(c, m) /\ Mode(c, "sensitive_kind_mode") = "block"
  PROVE  Check(c, m) \in {"blocked", "deny"}
<1>1. Orthogonal(c, m)
  BY Zenon DEF Orthogonal
<1>2. ~Rehearsal(c, m)
  BY Zenon DEF Rehearsal
<1>3. Astray(c, m) \in {"go", "deny"}
  BY <1>1, Zenon DEF Astray
<1>4. Gate(c, m) \in {"blocked", "deny"}
  <2>1. \/ Sensitive(c, m) /\ Mode(c, "sensitive_access") = "block"
        \/ BlastRadius(c, m) /\ Mode(c, "blast_radius") = "block"
        \/ SensitiveKind(c, m) /\ Mode(c, "sensitive_kind_mode") = "block"
    OBVIOUS
  <2> QED  BY <1>1, <2>1, Zenon DEF Gate
<1> DEFINE shut == (m.exposed /\ On(c, "strict_config_perms")) \/ ~Valid(c)
           hit == HitsResource(c, m) \/ Frozen(c, m)
           posing == (NameProtected(c, m) \/ ClusterProtected(c, m)) /\ m.as /\ On(c, "block_impersonation")
<1>5. Check(c, m) =
        IF shut THEN "deny" ELSE IF hit THEN "blocked" ELSE IF Retargeted(c, m) THEN "deny"
        ELSE IF Rehearsal(c, m) THEN "allow" ELSE IF Astray(c, m) # "go" THEN Astray(c, m)
        ELSE IF posing THEN "deny"
        ELSE IF ~(Altering(c, m) \/ Orthogonal(c, m) \/ Strict(c, m)) THEN "allow" ELSE Gate(c, m)
  BY Zenon DEF Check
<1> HIDE DEF shut, hit, posing
<1> QED  BY <1>1, <1>2, <1>3, <1>4, <1>5

\* On every context, in a pod or out of one, and however a verb was reclassified,
\* sensitive_access, blast_radius and sensitive_kind_mode in block mode refuse
\* what they are about (guard.go): no early return comes between.
THEOREM BlocksHold == Spec => []BlockIsFinal
<1>1. TypeInv => BlockIsFinal
  <2> SUFFICES ASSUME TypeInv, NEW m \in Commands,
                      \/ Sensitive(Now, m) /\ Mode(Now, "sensitive_access") = "block"
                      \/ /\ ~GenuineDryRun(Now, m)
                         /\ \/ BlastRadius(Now, m) /\ Mode(Now, "blast_radius") = "block"
                            \/ SensitiveKind(Now, m) /\ Mode(Now, "sensitive_kind_mode") = "block"
               PROVE  Strength(ruling[m]) = 2
    BY Zenon DEF BlockIsFinal
  <2>1. ruling[m] = Check(Now, m)
    BY DEF TypeInv, Judged
  <2>2. Check(Now, m) \in {"blocked", "deny"}
    BY BlockRefuses, Zenon
  <2> QED  BY <2>1, <2>2, Strengths
<1> QED  BY <1>1, TypesHold, PTL

-----------------------------------------------------------------------------
(***************************************************************************)
(* The merge of two configs.                                               *)
(***************************************************************************)

\* The system's value, or the default, is what the user's can only raise.
LEMMA MergeRaises ==
  ASSUME NEW axis \in Axes, NEW sys \in Levels, NEW usr \in Levels
  PROVE  LET floor == IF sys = "unset" THEN Default[axis] ELSE sys
             merged == MergedMode(axis, sys, usr) IN
         /\ merged # "unset" /\ merged \in Levels
         /\ Rank(axis, floor) <= Rank(axis, merged)
         /\ usr # "unset" => Rank(axis, usr) <= Rank(axis, merged)
         /\ merged \in {floor, usr}
         /\ usr = "unset" => merged = floor
<1> DEFINE floor == IF sys = "unset" THEN Default[axis] ELSE sys
<1>1. floor \in Levels /\ floor # "unset"
  BY DefaultLegal
<1>2. MergedMode(axis, sys, usr) = IF usr # "unset" /\ Rank(axis, usr) > Rank(axis, floor) THEN usr ELSE floor
  BY DEF MergedMode
<1>3. Rank(axis, usr) \in 0 .. 3 /\ Rank(axis, floor) \in 0 .. 3
  BY LegalRank
<1> HIDE DEF floor
<1> QED  BY <1>1, <1>2, <1>3 DEF floor

\* What the merge says, field by field.
LEMMA MergeFields ==
  ASSUME NEW sys \in Config, NEW usr \in Config
  PROVE  LET both == Merge(sys, usr) IN
         /\ both.contexts = MergedList(sys.contexts, usr.contexts)
         /\ both.namespaces = MergedList(sys.namespaces, usr.namespaces)
         /\ both.clusters = MergedList(sys.clusters, usr.clusters)
         /\ both.actors = MergedActors(sys.actors, usr.actors)
         /\ both.resources = sys.resources \cup usr.resources
         /\ both.kinds = sys.kinds \cup usr.kinds
         /\ both.mode = [axis \in Axes |-> MergedMode(axis, sys.mode[axis], usr.mode[axis])]
         /\ both.on = sys.on \cup usr.on
         /\ both.sensitive = MergedSensitive(sys.sensitive, usr.sensitive)
         /\ both.safe = sys.safe \ Dangerous(sys, usr)
         /\ both.altering = Dangerous(sys, usr) /\ both.promoted = {}
         /\ both.actor = FirstText(usr.actor, sys.actor)
         /\ both.log = FirstText(sys.log, usr.log) /\ both.key = FirstText(sys.key, usr.key)
         /\ both.webhook = FirstText(sys.webhook, usr.webhook)
BY DEF Merge

LEMMA MergeType ==
  ASSUME NEW sys \in Config, NEW usr \in Config
  PROVE  Merge(sys, usr) \in Config
<1>1. /\ sys.contexts \in [ContextPatterns -> EntryModes] /\ usr.contexts \in [ContextPatterns -> EntryModes]
      /\ sys.namespaces \in [NamespacePatterns -> EntryModes]
      /\ usr.namespaces \in [NamespacePatterns -> EntryModes]
      /\ sys.clusters \in [ServerPatterns -> EntryModes] /\ usr.clusters \in [ServerPatterns -> EntryModes]
      /\ sys.actors \in [ActorPatterns -> Policies] /\ usr.actors \in [ActorPatterns -> Policies]
      /\ sys.mode \in [Axes -> Levels] /\ usr.mode \in [Axes -> Levels]
  BY DEF Config
<1>2. \A a, b : StrictestEntry(a, b) \in EntryModes
  BY Zenon DEF StrictestEntry, EntryModes
<1>3. /\ MergedList(sys.contexts, usr.contexts) \in [ContextPatterns -> EntryModes]
      /\ MergedList(sys.namespaces, usr.namespaces) \in [NamespacePatterns -> EntryModes]
      /\ MergedList(sys.clusters, usr.clusters) \in [ServerPatterns -> EntryModes]
  BY <1>1, <1>2 DEF MergedList
<1>4. MergedActors(sys.actors, usr.actors) \in [ActorPatterns -> Policies]
  <2>1. \A a, b, d, e : [context |-> StrictestEntry(a, b), namespace |-> StrictestEntry(d, e)] \in Policies
    BY <1>2 DEF Policies
  <2>2. DOMAIN sys.actors = ActorPatterns
    BY <1>1
  <2> QED  BY <2>1, <2>2 DEF MergedActors
<1>5. [axis \in Axes |-> MergedMode(axis, sys.mode[axis], usr.mode[axis])] \in [Axes -> Levels]
  BY <1>1, MergeRaises
<1>6. /\ MergedSensitive(sys.sensitive, usr.sensitive) \in SUBSET Verbs
      /\ Dangerous(sys, usr) \in SUBSET Verbs
  BY DEF Config, MergedSensitive, Dangerous, DefaultSensitiveVerbs, Verbs, AlteringVerbs
<1>7. /\ sys.resources \cup usr.resources \in SUBSET Kinds /\ sys.kinds \cup usr.kinds \in SUBSET Kinds
      /\ sys.on \cup usr.on \in SUBSET Switches /\ sys.safe \ Dangerous(sys, usr) \in SUBSET Verbs
      /\ {} \in SUBSET Verbs
  BY DEF Config
<1>8. /\ FirstText(sys.log, usr.log) \in STRING /\ FirstText(sys.webhook, usr.webhook) \in STRING
      /\ FirstText(sys.key, usr.key) \in STRING /\ FirstText(usr.actor, sys.actor) \in STRING
      /\ FirstNumber(sys.megabytes, usr.megabytes) \in Nat /\ FirstNumber(sys.files, usr.files) \in Nat
  BY DEF Config, FirstText, FirstNumber
<1> QED  BY <1>3, <1>4, <1>5, <1>6, <1>7, <1>8, Zenon DEF Merge, Config

\* And what an enforced system changes in it: where the trail goes, and how
\* much of it is kept.
LEMMA EffectiveIsMerge ==
  ASSUME NEW sys \in Config, NEW usr \in Config, NEW kind \in {"advisory", "enforced"}
  PROVE  LET both == Effective(kind, sys, usr)  merged == Merge(sys, usr) IN
         /\ both.contexts = merged.contexts /\ both.namespaces = merged.namespaces
         /\ both.clusters = merged.clusters /\ both.actors = merged.actors
         /\ both.resources = merged.resources /\ both.kinds = merged.kinds
         /\ both.mode = merged.mode /\ both.on = merged.on /\ both.sensitive = merged.sensitive
         /\ both.safe = merged.safe /\ both.altering = merged.altering
         /\ both.promoted = merged.promoted /\ both.actor = merged.actor
         /\ both.key = merged.key /\ both.webhook = merged.webhook
         /\ both.log = IF kind = "enforced" THEN sys.log ELSE merged.log
         /\ kind = "enforced" => both.megabytes = sys.megabytes /\ both.files = sys.files
<1>1. CASE kind = "advisory"
  BY <1>1 DEF Effective
<1>2. CASE kind = "enforced"
  <2>1. Effective(kind, sys, usr) = [Merge(sys, usr) EXCEPT
          !.log = sys.log, !.megabytes = sys.megabytes, !.files = sys.files]
    BY <1>2 DEF Effective
  <2>2. Merge(sys, usr) \in Config
    BY MergeType
  <2> QED  BY <1>2, <2>1, <2>2 DEF Config
<1> QED  BY <1>1, <1>2
\* A merged config says something on every axis.
LEMMA MergedModes ==
  ASSUME NEW sys \in Config, NEW usr \in Config, NEW kind \in {"advisory", "enforced"}, NEW axis \in Axes
  PROVE  /\ Mode(Effective(kind, sys, usr), axis) = MergedMode(axis, sys.mode[axis], usr.mode[axis])
         /\ sys.mode[axis] \in Levels /\ usr.mode[axis] \in Levels
         /\ Rank(axis, Mode(sys, axis)) <= Rank(axis, Mode(Effective(kind, sys, usr), axis))
         /\ usr.mode[axis] # "unset" =>
              Rank(axis, usr.mode[axis]) <= Rank(axis, Mode(Effective(kind, sys, usr), axis))
<1> DEFINE both == Effective(kind, sys, usr)
<1>1. sys.mode[axis] \in Levels /\ usr.mode[axis] \in Levels
  BY DEF Config
<1>2. both.mode[axis] = MergedMode(axis, sys.mode[axis], usr.mode[axis])
  <2>1. both.mode = Merge(sys, usr).mode
    BY EffectiveIsMerge
  <2>2. Merge(sys, usr).mode = [a \in Axes |-> MergedMode(a, sys.mode[a], usr.mode[a])]
    BY MergeFields
  <2> QED  BY <2>1, <2>2
<1>3. both.mode[axis] # "unset"
  BY <1>1, <1>2, MergeRaises
<1>4. Mode(both, axis) = both.mode[axis]
  BY <1>3 DEF Mode
<1>5. Mode(sys, axis) = IF sys.mode[axis] = "unset" THEN Default[axis] ELSE sys.mode[axis]
  BY DEF Mode
<1> HIDE DEF both
<1> QED  BY <1>1, <1>2, <1>4, <1>5, MergeRaises DEF both

\* However both files are edited, the user's adds to the audit trail that the
\* administrator asks for (LoadEffective, layered.go): each sink that the
\* system's file names is the one in use, as much is recorded, and under an
\* enforced one the file and its retention are the system's own.
THEOREM TrailHolds == Spec => []TrailKept
<1>1. TypeInv => TrailKept
  <2> SUFFICES ASSUME TypeInv  PROVE TrailKept
    OBVIOUS
  <2>1. system \in Config /\ user \in Config /\ baseline \in {"absent", "advisory", "enforced"}
    BY DEF TypeInv, TypeOK
  <2>2. ASSUME baseline # "absent"
        PROVE  /\ \A sink \in {"log", "webhook", "key"} : system[sink] \in {"", Now[sink]}
               /\ Rank("audit_mode", Mode(Now, "audit_mode")) >= Rank("audit_mode", Mode(system, "audit_mode"))
               /\ On(system, "audit_syslog") => On(Now, "audit_syslog")
    <3>1. baseline \in {"advisory", "enforced"}
      BY <2>1, <2>2
    <3>2. /\ Now.key = FirstText(system.key, user.key) /\ Now.webhook = FirstText(system.webhook, user.webhook)
          /\ Now.log \in {system.log, FirstText(system.log, user.log)}
      <4>1. /\ Now.key = Merge(system, user).key /\ Now.webhook = Merge(system, user).webhook
            /\ Now.log \in {system.log, Merge(system, user).log}
        BY <2>1, <3>1, EffectiveIsMerge DEF Now
      <4> QED  BY <2>1, <4>1, MergeFields
    <3>3. \A a, b : a \in {"", FirstText(a, b)}
      BY DEF FirstText
    <3>4. \A sink \in {"log", "webhook", "key"} : system[sink] \in {"", Now[sink]}
      BY <3>2, <3>3
    <3>5. Rank("audit_mode", Mode(system, "audit_mode")) <= Rank("audit_mode", Mode(Now, "audit_mode"))
      BY <2>1, <3>1, MergedModes, AxisNames DEF Now
    <3>6. Now.on = system.on \cup user.on
      <4>1. Now.on = Merge(system, user).on
        BY <2>1, <3>1, EffectiveIsMerge DEF Now
      <4> QED  BY <2>1, <4>1, MergeFields
    <3>7. /\ Rank("audit_mode", Mode(system, "audit_mode")) \in 0 .. 3
          /\ Rank("audit_mode", Mode(Now, "audit_mode")) \in 0 .. 3
      BY AxisNames, LegalRank
    <3> QED  BY <3>4, <3>5, <3>6, <3>7 DEF On
  <2>3. ASSUME baseline = "enforced"
        PROVE  Now.log = system.log /\ ~KeepsLess(system, Now)
    <3>1. Now.log = system.log /\ Now.megabytes = system.megabytes /\ Now.files = system.files
      BY <2>1, <2>3, EffectiveIsMerge DEF Now
    <3>2. FilesOrDefault(Now) = FilesOrDefault(system) /\ FilesOrDefault(system) \in Nat
      BY <2>1, <3>1 DEF FilesOrDefault, Config
    <3>3. system.megabytes \in Nat
      BY <2>1 DEF Config
    <3> DEFINE kept == system.megabytes * FilesOrDefault(system)
    <3>4. kept \in Nat /\ Now.megabytes * FilesOrDefault(Now) = kept
      BY <3>1, <3>2, <3>3
    <3> HIDE DEF kept
    <3>5. ~(kept < kept)
      BY <3>4
    <3> QED  BY <3>1, <3>3, <3>4, <3>5 DEF KeepsLess, kept
  <2> QED  BY <2>2, <2>3 DEF TrailKept
<1> QED  BY <1>1, TypesHold, PTL
-----------------------------------------------------------------------------
(***************************************************************************)
(* What it means that WeakensProtection reports nothing, or nothing but    *)
(* confirm_mode.                                                           *)
(***************************************************************************)
NoWeaker(old, new) ==
  /\ \A axis \in RankedAxes : Rank(axis, Mode(old, axis)) <= Rank(axis, Mode(new, axis))
  /\ ~WeakerList(old.contexts, new.contexts, Mode(old, "context_mode"), Mode(new, "context_mode"))
  /\ ~WeakerList(old.clusters, new.clusters, Mode(old, "context_mode"), Mode(new, "context_mode"))
  /\ ~WeakerList(old.namespaces, new.namespaces, Mode(old, "namespace_mode"), Mode(new, "namespace_mode"))
  /\ ~WeakerActors(old.actors, new.actors)
  /\ old.resources \subseteq new.resources /\ old.kinds \subseteq new.kinds
  /\ old.altering \subseteq new.altering /\ old.promoted \subseteq new.promoted
  /\ new.safe \subseteq old.safe
  /\ old.on \ {"strict_config_perms"} \subseteq new.on
  /\ old.key # "" => new.key # ""
  /\ old.webhook # "" => new.webhook = old.webhook
  /\ ~KeepsLess(old, new)

LEMMA NothingReported ==
  ASSUME NEW old \in Config, NEW new \in Config
  PROVE  Weakens(old, new) \subseteq {"confirm_mode"} <=> NoWeaker(old, new)
<1> DEFINE lost(list, axis) == WeakerList(old[list], new[list], Mode(old, axis), Mode(new, axis))
           modes == WeakerModes(old, new)
           pair == {axis \in {"contexts", "clusters"} : lost(axis, "context_mode")}
           spaces == {axis \in {"namespaces"} : lost(axis, "namespace_mode")}
           actors == {axis \in {"actors"} : WeakerActors(old.actors, new.actors)}
           sets == {axis \in {"resources", "kinds", "altering", "promoted"} : ~(old[axis] \subseteq new[axis])}
           safe == {axis \in {"safe"} : ~(new.safe \subseteq old.safe)}
           on == (old.on \ new.on) \ {"strict_config_perms"}
           key == {axis \in {"key"} : old.key # "" /\ new.key = ""}
           hook == {axis \in {"webhook"} : old.webhook # "" /\ new.webhook # old.webhook}
           kept == {axis \in {"retention"} : KeepsLess(old, new)}
<1>1. Weakens(old, new) = modes \cup pair \cup spaces \cup actors \cup sets \cup safe \cup on
                            \cup key \cup hook \cup kept
  BY Zenon DEF Weakens
<1>2. modes \subseteq {"confirm_mode"}
        <=> \A axis \in RankedAxes : Rank(axis, Mode(old, axis)) <= Rank(axis, Mode(new, axis))
  <2>1. \A axis \in RankedAxes : /\ axis \in Axes /\ axis # "confirm_mode"
                                 /\ Rank(axis, Mode(old, axis)) \in 0 .. 3
                                 /\ Rank(axis, Mode(new, axis)) \in 0 .. 3
    BY LegalRank DEF RankedAxes
  <2> DEFINE weaker == {axis \in RankedAxes : Rank(axis, Mode(new, axis)) < Rank(axis, Mode(old, axis))}
  <2>2. modes \subseteq {"confirm_mode"} <=> weaker \subseteq {"confirm_mode"}
    BY Zenon DEF WeakerModes
  <2>3. weaker \subseteq {"confirm_mode"} <=> weaker = {}
    BY <2>1
  <2>4. weaker = {} <=> \A axis \in RankedAxes : Rank(axis, Mode(old, axis)) <= Rank(axis, Mode(new, axis))
    BY <2>1
  <2> QED  BY <2>2, <2>3, <2>4
<1>3. pair \subseteq {"confirm_mode"} <=> ~lost("contexts", "context_mode") /\ ~lost("clusters", "context_mode")
  <2> HIDE DEF lost
  <2> QED  OBVIOUS
<1>4. spaces \subseteq {"confirm_mode"} <=> ~lost("namespaces", "namespace_mode")
  <2> HIDE DEF lost
  <2> QED  OBVIOUS
<1>5. actors \subseteq {"confirm_mode"} <=> ~WeakerActors(old.actors, new.actors)
  OBVIOUS
<1>6. sets \subseteq {"confirm_mode"}
        <=> /\ old.resources \subseteq new.resources /\ old.kinds \subseteq new.kinds
            /\ old.altering \subseteq new.altering /\ old.promoted \subseteq new.promoted
  <2>1. /\ old["resources"] = old.resources /\ old["kinds"] = old.kinds
        /\ new["resources"] = new.resources /\ new["kinds"] = new.kinds
        /\ old["altering"] = old.altering /\ old["promoted"] = old.promoted
        /\ new["altering"] = new.altering /\ new["promoted"] = new.promoted
    OBVIOUS
  <2> QED  BY <2>1
<1>7. safe \subseteq {"confirm_mode"} <=> new.safe \subseteq old.safe
  OBVIOUS
<1>8. on \subseteq {"confirm_mode"} <=> old.on \ {"strict_config_perms"} \subseteq new.on
  BY DEF Config, Switches
<1>9. key \subseteq {"confirm_mode"} <=> (old.key # "" => new.key # "")
  <2> DEFINE dropped == old.key # "" /\ new.key = ""
  <2>1. key = {axis \in {"key"} : dropped}
    BY Zenon
  <2> HIDE DEF key, dropped
  <2>2. key \subseteq {"confirm_mode"} <=> ~dropped
    BY <2>1
  <2> QED  BY <2>2, Zenon DEF dropped
<1>10. hook \subseteq {"confirm_mode"} <=> (old.webhook # "" => new.webhook = old.webhook)
  <2> DEFINE moved == old.webhook # "" /\ new.webhook # old.webhook
  <2>1. hook = {axis \in {"webhook"} : moved}
    BY Zenon
  <2> HIDE DEF hook, moved
  <2>2. hook \subseteq {"confirm_mode"} <=> ~moved
    BY <2>1
  <2> QED  BY <2>2, Zenon DEF moved
<1>11. kept \subseteq {"confirm_mode"} <=> ~KeepsLess(old, new)
  OBVIOUS
<1>12. /\ lost("contexts", "context_mode")
            = WeakerList(old.contexts, new.contexts, Mode(old, "context_mode"), Mode(new, "context_mode"))
       /\ lost("clusters", "context_mode")
            = WeakerList(old.clusters, new.clusters, Mode(old, "context_mode"), Mode(new, "context_mode"))
       /\ lost("namespaces", "namespace_mode")
            = WeakerList(old.namespaces, new.namespaces, Mode(old, "namespace_mode"), Mode(new, "namespace_mode"))
  BY Zenon
<1> HIDE DEF lost, modes, pair, spaces, actors, sets, safe, on, key, hook, kept
<1>13. Weakens(old, new) \subseteq {"confirm_mode"}
         <=> /\ modes \subseteq {"confirm_mode"} /\ pair \subseteq {"confirm_mode"}
             /\ spaces \subseteq {"confirm_mode"} /\ actors \subseteq {"confirm_mode"}
             /\ sets \subseteq {"confirm_mode"} /\ safe \subseteq {"confirm_mode"}
             /\ on \subseteq {"confirm_mode"} /\ key \subseteq {"confirm_mode"}
             /\ hook \subseteq {"confirm_mode"} /\ kept \subseteq {"confirm_mode"}
  BY <1>1
<1> QED  BY <1>2, <1>3, <1>4, <1>5, <1>6, <1>7, <1>8, <1>9, <1>10, <1>11, <1>12, <1>13, Zenon DEF NoWeaker
\* The two axes that entries inherit from share a scale.
LEMMA SharedScale ==
  ASSUME NEW mode
  PROVE  Rank("namespace_mode", mode) = Grade(mode) /\ Grade(mode) \in 0 .. 3
<1>1. Legal["namespace_mode"] = Legal["context_mode"]
  BY AxisNames, Scales DEF Legal
<1>2. "context_mode" \in Axes /\ "namespace_mode" \in Axes
  BY AxisNames
<1>3. Order["namespace_mode"] = Order["context_mode"]
  BY Scales
<1>4. Rank("namespace_mode", mode) = Rank("context_mode", mode)
  BY <1>1, <1>3 DEF Rank
<1>5. Rank("context_mode", mode) \in 0 .. 3
  BY <1>2, Scales, LegalRank DEF Rank
<1> QED  BY <1>4, <1>5 DEF Grade

\* With a global mode that did not drop, a list is not weaker if no entry went
\* and none resolves to a lower grade: an entry that inherits follows the mode.
LEMMA ListsKept ==
  ASSUME NEW Patterns, NEW old \in [Patterns -> EntryModes], NEW new \in [Patterns -> EntryModes],
         NEW before, NEW after, Grade(before) <= Grade(after)
  PROVE  ~WeakerList(old, new, before, after)
           <=> \A p \in Patterns : old[p] # "none" =>
                 /\ new[p] # "none"
                 /\ Grade(Resolved(old[p], before)) <= Grade(Resolved(new[p], after))
<1>1. \A mode : Grade(mode) \in 0 .. 3
  BY SharedScale
<1>2. Listed(old) = {p \in Patterns : old[p] # "none"}
  BY DEF Listed
<1>3. \A p \in Patterns : old[p] = "inherit" /\ new[p] = "inherit" =>
        Grade(Resolved(old[p], before)) <= Grade(Resolved(new[p], after))
  BY DEF Resolved
<1> QED  BY <1>1, <1>2, <1>3 DEF WeakerList

\* Retention, whatever was kept in between.
LEMMA RetentionCarries ==
  ASSUME NEW a \in Config, NEW b \in Config, NEW c \in Config, ~KeepsLess(a, b), ~KeepsLess(b, c)
  PROVE  ~KeepsLess(a, c)
<1> DEFINE kept(x) == x.megabytes * FilesOrDefault(x)
<1>1. \A x \in Config : x.megabytes \in Nat /\ FilesOrDefault(x) \in Nat
  BY DEF Config, FilesOrDefault
<1>2. \A x \in Config : kept(x) \in Nat
  BY <1>1
<1>3. \A x, y : KeepsLess(x, y) <=> y.megabytes > 0 /\ (x.megabytes = 0 \/ kept(y) < kept(x))
  BY DEF KeepsLess
<1> HIDE DEF kept
<1> QED  BY <1>1, <1>2, <1>3

\* A config is not weaker than itself.
LEMMA NoWeakerItself ==
  ASSUME NEW c \in Config
  PROVE  NoWeaker(c, c)
<1>1. \A axis \in RankedAxes : Rank(axis, Mode(c, axis)) <= Rank(axis, Mode(c, axis))
  <2>1. \A axis \in RankedAxes : Rank(axis, Mode(c, axis)) \in 0 .. 3
    BY LegalRank DEF RankedAxes
  <2> QED  BY <2>1
<1>2. \A list, mode : ~WeakerList(list, list, mode, mode)
  <2>1. \A mode : Grade(mode) \in 0 .. 3
    BY SharedScale
  <2> QED  BY <2>1 DEF WeakerList, Listed
<1>3. ~WeakerActors(c.actors, c.actors)
  BY DEF WeakerActors
<1>4. ~KeepsLess(c, c)
  <2> DEFINE kept == c.megabytes * FilesOrDefault(c)
  <2>1. c.megabytes \in Nat /\ FilesOrDefault(c) \in Nat
    BY DEF Config, FilesOrDefault
  <2>2. kept \in Nat
    BY <2>1
  <2>3. KeepsLess(c, c) <=> c.megabytes > 0 /\ (c.megabytes = 0 \/ kept < kept)
    BY DEF KeepsLess
  <2> HIDE DEF kept
  <2> QED  BY <2>1, <2>2, <2>3
<1> QED  BY <1>1, <1>2, <1>3, <1>4 DEF NoWeaker

\* Not being weaker carries over from edit to edit.
LEMMA NoWeakerCarries ==
  ASSUME NEW a \in Config, NEW b \in Config, NEW c \in Config, NoWeaker(a, b), NoWeaker(b, c)
  PROVE  NoWeaker(a, c)
<1>1. /\ \A axis \in RankedAxes : Rank(axis, Mode(a, axis)) <= Rank(axis, Mode(b, axis))
      /\ \A axis \in RankedAxes : Rank(axis, Mode(b, axis)) <= Rank(axis, Mode(c, axis))
  BY DEF NoWeaker
<1>2. \A axis \in RankedAxes : Rank(axis, Mode(a, axis)) <= Rank(axis, Mode(c, axis))
  <2>1. \A axis \in RankedAxes : \A x : Rank(axis, x) \in 0 .. 3
    BY LegalRank DEF RankedAxes
  <2> QED  BY <1>1, <2>1
<1>3. ASSUME NEW Patterns, NEW x \in [Patterns -> EntryModes], NEW y \in [Patterns -> EntryModes],
             NEW z \in [Patterns -> EntryModes], NEW axis \in {"context_mode", "namespace_mode"},
             ~WeakerList(x, y, Mode(a, axis), Mode(b, axis)), ~WeakerList(y, z, Mode(b, axis), Mode(c, axis))
      PROVE  ~WeakerList(x, z, Mode(a, axis), Mode(c, axis))
  <2>1. axis \in RankedAxes
    BY AxisNames DEF RankedAxes
  <2>2. \A mode : Grade(mode) = Rank(axis, mode) /\ Grade(mode) \in 0 .. 3
    BY SharedScale DEF Grade
  <2>3. /\ Grade(Mode(a, axis)) <= Grade(Mode(b, axis)) /\ Grade(Mode(b, axis)) <= Grade(Mode(c, axis))
        /\ Grade(Mode(a, axis)) <= Grade(Mode(c, axis))
    BY <1>1, <1>2, <2>1, <2>2
  <2>4. \A p \in Patterns : x[p] # "none" =>
          y[p] # "none" /\ Grade(Resolved(x[p], Mode(a, axis))) <= Grade(Resolved(y[p], Mode(b, axis)))
    BY <1>3, <2>3, ListsKept
  <2>5. \A p \in Patterns : y[p] # "none" =>
          z[p] # "none" /\ Grade(Resolved(y[p], Mode(b, axis))) <= Grade(Resolved(z[p], Mode(c, axis)))
    BY <1>3, <2>3, ListsKept
  <2>6. \A p \in Patterns : x[p] # "none" =>
          z[p] # "none" /\ Grade(Resolved(x[p], Mode(a, axis))) <= Grade(Resolved(z[p], Mode(c, axis)))
    BY <2>2, <2>4, <2>5
  <2> QED  BY <2>3, <2>6, ListsKept
<1>4. /\ a.contexts \in [ContextPatterns -> EntryModes] /\ b.contexts \in [ContextPatterns -> EntryModes]
      /\ c.contexts \in [ContextPatterns -> EntryModes]
      /\ a.namespaces \in [NamespacePatterns -> EntryModes] /\ b.namespaces \in [NamespacePatterns -> EntryModes]
      /\ c.namespaces \in [NamespacePatterns -> EntryModes]
      /\ a.clusters \in [ServerPatterns -> EntryModes] /\ b.clusters \in [ServerPatterns -> EntryModes]
      /\ c.clusters \in [ServerPatterns -> EntryModes]
  BY DEF Config
<1>5. ~WeakerList(a.contexts, c.contexts, Mode(a, "context_mode"), Mode(c, "context_mode"))
  BY <1>3, <1>4 DEF NoWeaker
<1>6. ~WeakerList(a.clusters, c.clusters, Mode(a, "context_mode"), Mode(c, "context_mode"))
  BY <1>3, <1>4 DEF NoWeaker
<1>7. ~WeakerList(a.namespaces, c.namespaces, Mode(a, "namespace_mode"), Mode(c, "namespace_mode"))
  BY <1>3, <1>4 DEF NoWeaker
<1>8. ~WeakerActors(a.actors, c.actors)
  BY DEF NoWeaker, WeakerActors, NoPolicy
<1>9. /\ a.resources \subseteq c.resources /\ a.kinds \subseteq c.kinds
      /\ a.altering \subseteq c.altering /\ a.promoted \subseteq c.promoted
      /\ c.safe \subseteq a.safe
      /\ a.on \ {"strict_config_perms"} \subseteq c.on
  BY DEF NoWeaker
<1>10. (a.key # "" => c.key # "") /\ (a.webhook # "" => c.webhook = a.webhook)
  BY Zenon DEF NoWeaker
<1>11. ~KeepsLess(a, c)
  BY RetentionCarries DEF NoWeaker
<1> QED  BY <1>2, <1>5, <1>6, <1>7, <1>8, <1>9, <1>10, <1>11, Zenon DEF NoWeaker

\* Filling in what a file leaves out strengthens and weakens nothing.
LEMMA NoWeakerFilled ==
  ASSUME NEW old \in Config, NEW new \in Config
  PROVE  NoWeaker(old, new) => NoWeaker(old, Filled(new))
<1> DEFINE full == Filled(new)
<1>1. \A axis \in Axes : Mode(full, axis) = Mode(new, axis)
  BY FilledModes
<1>2. full = [new EXCEPT !.mode = full.mode]
  BY FilledModes
<1> HIDE DEF full
<1>3. /\ full.contexts = new.contexts /\ full.clusters = new.clusters /\ full.namespaces = new.namespaces
      /\ full.actors = new.actors /\ full.resources = new.resources /\ full.kinds = new.kinds
      /\ full.altering = new.altering /\ full.promoted = new.promoted /\ full.safe = new.safe
      /\ full.on = new.on /\ full.key = new.key /\ full.webhook = new.webhook
      /\ full.megabytes = new.megabytes /\ full.files = new.files
  BY <1>2 DEF Config
<1>4. KeepsLess(old, full) = KeepsLess(old, new)
  BY <1>3, Zenon DEF KeepsLess, FilesOrDefault
<1>5. /\ Mode(full, "context_mode") = Mode(new, "context_mode")
      /\ Mode(full, "namespace_mode") = Mode(new, "namespace_mode")
      /\ \A axis \in RankedAxes : Mode(full, axis) = Mode(new, axis)
  BY <1>1, AxisNames DEF RankedAxes
<1> QED  BY <1>3, <1>4, <1>5 DEF NoWeaker, full
\* What was last announced is not stronger than what is there: small steps that
\* WeakensProtection (weakening.go) lets by do not add up to one that it would
\* report, whatever the patterns and however many edits, on any axis but
\* confirm_mode.
THEOREM NothingCreeps == Spec => []NoCreep
<1> DEFINE Inv == NoWeaker(agreed, user)
<1>1. TypeInv => (NoCreep <=> Inv)
  BY NothingReported DEF NoCreep, TypeInv, TypeOK
<1>2. Init => Inv
  <2> SUFFICES ASSUME Init  PROVE NoWeaker(agreed, user)
    OBVIOUS
  <2>1. agreed = user /\ user \in Config
    BY InitTypes DEF Init, TypeInv, TypeOK
  <2> QED  BY <2>1, NoWeakerItself
<1>3. TypeInv /\ TypeInv' /\ Inv /\ [Next]_vars => Inv'
  <2> SUFFICES ASSUME TypeInv, TypeInv', Inv, [Next]_vars  PROVE NoWeaker(agreed', user')
    OBVIOUS
  <2>1. user \in Config /\ agreed \in Config /\ user' \in Config /\ TypeOK
    BY DEF TypeInv, TypeOK
  <2>2. CASE UserCommand
    <3>1. PICK new : Saves(new)
      BY <2>1, <2>2, CommandSaves
    <3>2. /\ new \in Config /\ user' = Filled(new)
          /\ agreed' = IF Weakens(user, new) = {} THEN agreed ELSE Filled(new)
      BY <3>1 DEF Saves, Save
    <3>3. CASE Weakens(user, new) = {}
      <4>1. NoWeaker(user, new)
        BY <2>1, <3>2, <3>3, NothingReported
      <4>2. NoWeaker(agreed, new)
        BY <2>1, <3>2, <4>1, NoWeakerCarries
      <4> QED  BY <2>1, <3>2, <3>3, <4>2, NoWeakerFilled
    <3>4. CASE Weakens(user, new) # {}
      BY <2>1, <3>2, <3>4, NoWeakerItself
    <3> QED  BY <3>3, <3>4
  <2>3. CASE UserEdit
    BY <2>1, <2>3, NoWeakerItself DEF UserEdit
  <2>4. CASE SystemEdit
    BY <2>4 DEF SystemEdit
  <2>5. CASE UNCHANGED vars
    BY <2>5 DEF vars
  <2> QED  BY <2>2, <2>3, <2>4, <2>5 DEF Next
<1> HIDE DEF Inv
<1> QED  BY <1>1, <1>2, <1>3, TypesHold, PTL DEF Spec
-----------------------------------------------------------------------------
(***************************************************************************)
(* A config that is at least as strict as another, setting by setting, on  *)
(* a command line.                                                         *)
(***************************************************************************)
ListAtLeast(x, y, before, after) ==
  /\ DOMAIN x = DOMAIN y
  /\ \A p \in Listed(x) :
       /\ y[p] # "none"
       /\ Resolved(x[p], before) = "block" => Resolved(y[p], after) = "block"

AtLeast(c, d, m) ==
  /\ \A axis \in RankedAxes : Rank(axis, Mode(c, axis)) <= Rank(axis, Mode(d, axis))
  /\ ListAtLeast(c.contexts, d.contexts, Mode(c, "context_mode"), Mode(d, "context_mode"))
  /\ ListAtLeast(c.clusters, d.clusters, Mode(c, "context_mode"), Mode(d, "context_mode"))
  /\ ListAtLeast(c.namespaces, d.namespaces, Mode(c, "namespace_mode"), Mode(d, "namespace_mode"))
  /\ \A p \in ActorPatterns, field \in {"context", "namespace"} :
       c.actors[p][field] = "block" => d.actors[p][field] = "block"
  /\ c.resources \subseteq d.resources /\ c.kinds \subseteq d.kinds
  /\ \A switch \in {"read_only", "block_impersonation", "strict_config_perms"} : On(c, switch) => On(d, switch)
  /\ IsSensitiveVerb(c, m.verb) => IsSensitiveVerb(d, m.verb)
  /\ Classified(c, m.verb) = "altering" => Classified(d, m.verb) = "altering"
  /\ Classified(d, m.verb) = "safe" => Classified(c, m.verb) = "safe"

\* Two configs that decide, the second at least as strict, and none of the
\* excuses for its being more lenient all the same.
Sterner(c, d, m) == Valid(c) /\ Valid(d) /\ AtLeast(c, d, m) /\ ~Excused(c, d, m)

\* What a stricter config says on each axis.
LEMMA ModesKept ==
  ASSUME NEW c, NEW d, NEW m, Sterner(c, d, m)
  PROVE  /\ \A axis \in {"context_mode", "namespace_mode"} :
              Mode(c, axis) = "block" => Mode(d, axis) = "block"
         /\ \A axis \in {"sensitive_access", "sensitive_kind_mode", "blast_radius"} :
              /\ Mode(c, axis) # "off" => Mode(d, axis) # "off"
              /\ Mode(c, axis) = "block" => Mode(d, axis) = "block"
         /\ \A axis \in {"unknown_verb", "in_cluster"} :
              /\ Mode(c, axis) # "allow" => Mode(d, axis) # "allow"
              /\ Mode(c, axis) = "deny" => Mode(d, axis) = "deny"
         /\ Mode(c, "discover_short_names") = "on" => Mode(d, "discover_short_names") = "on"
<1>1. \A axis \in RankedAxes : /\ Mode(c, axis) \in Legal[axis] /\ Mode(d, axis) \in Legal[axis]
                               /\ Rank(axis, Mode(c, axis)) <= Rank(axis, Mode(d, axis))
  BY DEF Sterner, Valid, AtLeast, RankedAxes
<1>2. RankedAxes = {"context_mode", "namespace_mode", "audit_mode", "sensitive_access",
          "sensitive_kind_mode", "blast_radius", "unknown_verb", "in_cluster", "discover_short_names"}
  BY AxisNames DEF RankedAxes
<1>3. ASSUME NEW axis \in {"context_mode", "namespace_mode"}
      PROVE  Mode(c, axis) = "block" => Mode(d, axis) = "block"
  BY <1>1, <1>2, Stricter
<1>4. ASSUME NEW axis \in {"sensitive_access", "sensitive_kind_mode", "blast_radius"}
      PROVE  /\ Mode(c, axis) # "off" => Mode(d, axis) # "off"
             /\ Mode(c, axis) = "block" => Mode(d, axis) = "block"
  BY <1>1, <1>2, Stricter
<1>5. ASSUME NEW axis \in {"unknown_verb", "in_cluster"}
      PROVE  /\ Mode(c, axis) # "allow" => Mode(d, axis) # "allow"
             /\ Mode(c, axis) = "deny" => Mode(d, axis) = "deny"
  BY <1>1, <1>2, Stricter
<1>6. Mode(c, "discover_short_names") = "on" => Mode(d, "discover_short_names") = "on"
  BY <1>1, <1>2, Stricter
<1> QED  BY <1>3, <1>4, <1>5, <1>6

\* And what its lists protect, and how.
LEMMA ListKept ==
  ASSUME NEW x, NEW y, NEW before, NEW after, ListAtLeast(x, y, before, after)
  PROVE  /\ Listed(x) # {} => Listed(y) # {}
         /\ \A name : IsProtected(x, name) => IsProtected(y, name)
         /\ Strictest(x, Listed(x), before) = "block" => Strictest(y, Listed(y), after) = "block"
         /\ \A name : IsProtected(x, name) /\ EffectiveMode(x, name, before) = "block" =>
              EffectiveMode(y, name, after) = "block"
<1>1. \A p \in Listed(x) : /\ p \in Listed(y)
                           /\ Resolved(x[p], before) = "block" => Resolved(y[p], after) = "block"
  BY DEF ListAtLeast, Listed
<1>2. \A name : Matching(x, name) \subseteq Matching(y, name) /\ Matching(x, name) \subseteq Listed(x)
  BY <1>1 DEF Matching
<1>3. \A name : IsProtected(x, name) => IsProtected(y, name)
  BY <1>2 DEF IsProtected
<1>4. Strictest(x, Listed(x), before) = "block" => Strictest(y, Listed(y), after) = "block"
  BY <1>1 DEF Strictest
<1>5. ASSUME NEW name, IsProtected(x, name), EffectiveMode(x, name, before) = "block"
      PROVE  EffectiveMode(y, name, after) = "block"
  <2>1. Strictest(x, Matching(x, name), before) = "block"
    BY <1>5 DEF EffectiveMode
  <2>2. PICK p \in Matching(x, name) : Resolved(x[p], before) = "block"
    BY <2>1 DEF Strictest
  <2>3. p \in Matching(y, name) /\ Resolved(y[p], after) = "block"
    BY <1>1, <1>2, <2>2
  <2>4. Strictest(y, Matching(y, name), after) = "block"
    BY <2>3 DEF Strictest
  <2> QED  BY <1>3, <1>5, <2>4 DEF EffectiveMode
<1> QED  BY <1>1, <1>3, <1>4, <1>5
\* What a command is under the stricter config, and which policies apply to it.
LEMMA KindsKept ==
  ASSUME NEW c, NEW d, NEW m, Sterner(c, d, m)
  PROVE  /\ Altering(c, m) => Altering(d, m)
         /\ Safe(d, m) => Safe(c, m)
         /\ GenuineDryRun(d, m) => GenuineDryRun(c, m)
         /\ Strict(c, m) => Strict(d, m)
         /\ Sensitive(c, m) => Sensitive(d, m)
         /\ BlastRadius(c, m) => BlastRadius(d, m)
         /\ SensitiveKind(c, m) => SensitiveKind(d, m)
         /\ Orthogonal(c, m) => Orthogonal(d, m)
         /\ HitsResource(c, m) => HitsResource(d, m)
         /\ Frozen(c, m) => Frozen(d, m)
         /\ ~Rehearsal(c, m) => ~Rehearsal(d, m)
<1>1. /\ IsSensitiveVerb(c, m.verb) => IsSensitiveVerb(d, m.verb)
      /\ Classified(c, m.verb) = "altering" => Classified(d, m.verb) = "altering"
      /\ Classified(d, m.verb) = "safe" => Classified(c, m.verb) = "safe"
      /\ c.resources \subseteq d.resources /\ c.kinds \subseteq d.kinds
      /\ On(c, "read_only") => On(d, "read_only")
  BY DEF Sterner, AtLeast
<1>2. /\ Unknown(c, m) => Unknown(d, m)
      /\ GenuineDryRun(d, m) => GenuineDryRun(c, m)
  BY Zenon DEF Sterner, Excused, Reclassified, Rehearsed
<1>3. \A x : Classified(x, m.verb) \in {"altering", "safe", "none"}
  BY Zenon DEF Classified
<1>4. /\ Altering(c, m) => Altering(d, m)
      /\ Safe(d, m) => Safe(c, m)
  BY <1>1, <1>3 DEF Altering, Safe
<1>5. Strict(c, m) => Strict(d, m)
  BY <1>2, ModesKept DEF Strict
<1>6. Sensitive(c, m) => Sensitive(d, m)
  BY <1>1, ModesKept DEF Sensitive
<1>7. BlastRadius(c, m) => BlastRadius(d, m)
  BY ModesKept DEF BlastRadius
<1>8. SensitiveKind(c, m) => SensitiveKind(d, m)
  BY <1>1, ModesKept DEF SensitiveKind
<1>9. HitsResource(c, m) => HitsResource(d, m)
  BY <1>1, ModesKept DEF HitsResource
<1>10. Orthogonal(c, m) => Orthogonal(d, m)
  BY <1>6, <1>7, <1>8, Zenon DEF Orthogonal
<1>11. Frozen(c, m) => Frozen(d, m)
  BY <1>1, <1>2, <1>4, Zenon DEF Frozen
<1>12. ~Rehearsal(c, m) => ~Rehearsal(d, m)
  BY <1>2, <1>6, Zenon DEF Rehearsal
<1> QED  BY <1>2, <1>4, <1>5, <1>6, <1>7, <1>8, <1>9, <1>10, <1>11, <1>12

\* Where it is aimed at.
LEMMA TargetsKept ==
  ASSUME NEW c, NEW d, NEW m, Sterner(c, d, m)
  PROVE  /\ HasContexts(c) => HasContexts(d)
         /\ Retargeted(c, m) => Retargeted(d, m)
         /\ Lost(c, m) => Lost(d, m)
         /\ NameProtected(c, m) => NameProtected(d, m)
         /\ ClusterProtected(c, m) => ClusterProtected(d, m)
         /\ ContextBlocks(c, m) => ContextBlocks(d, m)
         /\ HitsNamespace(c, m) => HasNamespaces(c) /\ RunNamespace(c, m) = RunNamespace(d, m)
         /\ HitsNamespace(c, m) => HitsNamespace(d, m)
         /\ HitsNamespace(c, m) /\ NamespaceRefuses(c, m) => NamespaceRefuses(d, m)
<1>1. /\ ListAtLeast(c.contexts, d.contexts, Mode(c, "context_mode"), Mode(d, "context_mode"))
      /\ ListAtLeast(c.clusters, d.clusters, Mode(c, "context_mode"), Mode(d, "context_mode"))
      /\ ListAtLeast(c.namespaces, d.namespaces, Mode(c, "namespace_mode"), Mode(d, "namespace_mode"))
  BY DEF Sterner, AtLeast
<1>2. /\ HasContexts(c) => HasContexts(d)
      /\ Listed(c.clusters) # {} => Listed(d.clusters) # {}
      /\ HasNamespaces(c) => HasNamespaces(d)
      /\ \A name : IsProtected(c.contexts, name) => IsProtected(d.contexts, name)
      /\ \A name : IsProtected(c.clusters, name) => IsProtected(d.clusters, name)
      /\ \A name : IsProtected(c.namespaces, name) => IsProtected(d.namespaces, name)
  BY <1>1, ListKept DEF HasContexts, HasNamespaces
<1>3. /\ Retargeted(c, m) => Retargeted(d, m)
      /\ Lost(c, m) => Lost(d, m)
      /\ NameProtected(c, m) => NameProtected(d, m)
      /\ ClusterProtected(c, m) => ClusterProtected(d, m)
  BY <1>2, Zenon DEF Retargeted, Lost, NameProtected, ClusterProtected
<1>4. /\ Actor(c, m) = Actor(d, m)
      /\ HasNamespaces(c) => RunNamespace(c, m) = RunNamespace(d, m)
      /\ IsProtected(c.namespaces, RunNamespace(c, m)) \/ ~IsProtected(d.namespaces, RunNamespace(d, m))
  BY Zenon DEF Sterner, Excused, Renamed, Rerouted, Shadowed
<1>5. \A name, field : field \in {"context", "namespace"} =>
        (ActorBlocks(c, name, field) => ActorBlocks(d, name, field))
  BY Zenon DEF ActorBlocks, Sterner, AtLeast
<1>6. ContextBlocks(c, m) => ContextBlocks(d, m)
  <2>1. \A name : IsProtected(c.contexts, name)
                  /\ EffectiveMode(c.contexts, name, Mode(c, "context_mode")) = "block" =>
          EffectiveMode(d.contexts, name, Mode(d, "context_mode")) = "block"
    BY <1>1, ListKept
  <2>2. \A name : IsProtected(c.clusters, name)
                  /\ EffectiveMode(c.clusters, name, Mode(c, "context_mode")) = "block" =>
          EffectiveMode(d.clusters, name, Mode(d, "context_mode")) = "block"
    BY <1>1, ListKept
  <2>3. ActorBlocks(c, Actor(c, m), "context") => ActorBlocks(d, Actor(d, m), "context")
    BY <1>4, <1>5
  <2> QED  BY <1>3, <2>1, <2>2, <2>3, Zenon DEF ContextBlocks, NameProtected, ClusterProtected
<1>7. HitsNamespace(c, m) => HasNamespaces(c)
  <2>1. \A name : IsProtected(c.namespaces, name) => HasNamespaces(c)
    BY DEF IsProtected, Matching, HasNamespaces
  <2> QED  BY <2>1, Zenon DEF HitsNamespace
<1>8. HitsNamespace(c, m) => HitsNamespace(d, m)
  BY <1>2, <1>4, <1>7 DEF HitsNamespace
<1>9. ASSUME HitsNamespace(c, m), NamespaceRefuses(c, m)
      PROVE  NamespaceRefuses(d, m)
  <2> DEFINE before == Mode(c, "namespace_mode")
             after == Mode(d, "namespace_mode")
  <2>1. RunNamespace(c, m) = RunNamespace(d, m)
    BY <1>4, <1>7, <1>9
  <2>2. /\ Strictest(c.namespaces, Listed(c.namespaces), before) = "block" =>
             Strictest(d.namespaces, Listed(d.namespaces), after) = "block"
        /\ \A name : IsProtected(c.namespaces, name)
                     /\ EffectiveMode(c.namespaces, name, before) = "block" =>
             EffectiveMode(d.namespaces, name, after) = "block"
    BY <1>1, ListKept
  <2>3. before = "block" => after = "block"
    BY ModesKept
  <2>4. ASSUME EffectiveMode(c.namespaces, RunNamespace(c, m), before) = "block"
        PROVE  EffectiveMode(d.namespaces, RunNamespace(d, m), after) = "block"
    <3>1. CASE IsProtected(c.namespaces, RunNamespace(c, m))
      BY <2>1, <2>2, <2>4, <3>1
    <3>2. CASE ~IsProtected(c.namespaces, RunNamespace(c, m))
      <4>1. before = "block"
        BY <2>4, <3>2 DEF EffectiveMode
      <4>2. ~IsProtected(d.namespaces, RunNamespace(d, m))
        BY <1>4, <3>2
      <4> QED  BY <2>3, <4>1, <4>2 DEF EffectiveMode
    <3> QED  BY <3>1, <3>2
  <2>5. ActorBlocks(c, Actor(c, m), "namespace") => ActorBlocks(d, Actor(d, m), "namespace")
    BY <1>4, <1>5
  <2>6. NamespaceBlocks(c, m) => NamespaceBlocks(d, m)
    <3> HIDE DEF before, after
    <3>1. \A name : IsProtected(c.namespaces, name)
                    /\ EffectiveMode(c.namespaces, name, before) = "block" =>
            /\ IsProtected(d.namespaces, name)
            /\ EffectiveMode(d.namespaces, name, after) = "block"
      BY <1>2, <2>2
    <3> QED  BY <1>2, <2>1, <2>2, <3>1, Zenon DEF NamespaceBlocks, before, after
  <2> QED  BY <1>9, <2>4, <2>5, <2>6, Zenon DEF NamespaceRefuses
<1> QED  BY <1>2, <1>3, <1>4, <1>6, <1>7, <1>8, <1>9
\* The unified gate is no milder.
LEMMA GateKept ==
  ASSUME NEW c, NEW d, NEW m, Sterner(c, d, m)
  PROVE  /\ Gate(c, m) = "deny" => Gate(d, m) = "deny"
         /\ Gate(c, m) = "blocked" => Gate(d, m) \in {"deny", "blocked"}
         /\ Gate(c, m) # "allow" => Gate(d, m) # "allow"
         /\ Gate(d, m) \in Verdicts
<1> DEFINE context(x) == NameProtected(x, m) \/ ClusterProtected(x, m)
           namespace(x) == (Altering(x, m) \/ Strict(x, m)) /\ HitsNamespace(x, m)
           refused(x) == Strict(x, m) /\ (context(x) \/ namespace(x)) /\ Mode(x, "unknown_verb") = "deny"
           met(x) == context(x) \/ namespace(x) \/ Orthogonal(x, m)
           blocks(x) == \/ ContextBlocks(x, m)
                        \/ namespace(x) /\ NamespaceRefuses(x, m)
                        \/ Sensitive(x, m) /\ Mode(x, "sensitive_access") = "block"
                        \/ BlastRadius(x, m) /\ Mode(x, "blast_radius") = "block"
                        \/ SensitiveKind(x, m) /\ Mode(x, "sensitive_kind_mode") = "block"
<1>1. \A x : Gate(x, m) = IF refused(x) THEN "deny" ELSE IF ~met(x) THEN "allow"
                          ELSE IF blocks(x) THEN "blocked" ELSE "confirm"
  BY Zenon DEF Gate
<1>2. context(c) => context(d)
  BY TargetsKept, Zenon
<1>3. namespace(c) => namespace(d)
  BY TargetsKept, KindsKept, Zenon
<1>4. refused(c) => refused(d)
  <2>1. Strict(c, m) => Strict(d, m)
    BY KindsKept, Zenon
  <2>2. Mode(c, "unknown_verb") = "deny" => Mode(d, "unknown_verb") = "deny"
    BY ModesKept
  <2> HIDE DEF context, namespace
  <2> QED  BY <1>2, <1>3, <2>1, <2>2, Zenon
<1>5. met(c) => met(d)
  <2>1. Orthogonal(c, m) => Orthogonal(d, m)
    BY KindsKept, Zenon
  <2> HIDE DEF context, namespace
  <2> QED  BY <1>2, <1>3, <2>1, Zenon
<1>6. blocks(c) => blocks(d)
  <2>1. /\ Sensitive(c, m) => Sensitive(d, m)
        /\ BlastRadius(c, m) => BlastRadius(d, m)
        /\ SensitiveKind(c, m) => SensitiveKind(d, m)
    BY KindsKept, Zenon
  <2>2. /\ Mode(c, "sensitive_access") = "block" => Mode(d, "sensitive_access") = "block"
        /\ Mode(c, "blast_radius") = "block" => Mode(d, "blast_radius") = "block"
        /\ Mode(c, "sensitive_kind_mode") = "block" => Mode(d, "sensitive_kind_mode") = "block"
    BY ModesKept
  <2>3. ContextBlocks(c, m) => ContextBlocks(d, m)
    BY TargetsKept, Zenon
  <2>4. namespace(c) /\ NamespaceRefuses(c, m) => NamespaceRefuses(d, m)
    BY TargetsKept, Zenon
  <2> HIDE DEF namespace
  <2> QED  BY <1>3, <2>1, <2>2, <2>3, <2>4, Zenon
<1> HIDE DEF context, namespace, refused, met, blocks
<1> QED  BY <1>1, <1>4, <1>5, <1>6 DEF Verdicts

\* So is what in_cluster comes to when the context cannot be told: a command
\* that it waves on meets no namespace and no policy for every context.
LEMMA AstrayKept ==
  ASSUME NEW c, NEW d, NEW m, Sterner(c, d, m), m.context = "" => m.server = ""
  PROVE  /\ Astray(c, m) = "deny" => Astray(d, m) = "deny"
         /\ Astray(d, m) = "allow" /\ Astray(c, m) = "go" => Gate(c, m) = "allow"
<1>1. /\ Lost(c, m) => Lost(d, m)
      /\ HitsNamespace(c, m) => HitsNamespace(d, m)
  BY TargetsKept, Zenon
<1>2. /\ Orthogonal(c, m) => Orthogonal(d, m)
      /\ Mode(c, "in_cluster") = "deny" => Mode(d, "in_cluster") = "deny"
      /\ Mode(c, "in_cluster") # "allow" => Mode(d, "in_cluster") # "allow"
  BY KindsKept, ModesKept
<1>3. Astray(c, m) = "deny" => Astray(d, m) = "deny"
  <2>1. Astray(c, m) = "deny" <=> Lost(c, m) /\ (m.pod = "" \/ Mode(c, "in_cluster") = "deny")
    BY DEF Astray
  <2>2. Lost(d, m) /\ (m.pod = "" \/ Mode(d, "in_cluster") = "deny") => Astray(d, m) = "deny"
    BY Zenon DEF Astray
  <2> QED  BY <1>1, <1>2, <2>1, <2>2, Zenon
<1>4. ASSUME Astray(d, m) = "allow", Astray(c, m) = "go"
      PROVE  Gate(c, m) = "allow"
  <2>1. Lost(d, m) /\ Mode(d, "in_cluster") = "allow" /\ ~Orthogonal(d, m) /\ ~HitsNamespace(d, m)
    BY <1>4 DEF Astray
  <2>2. ~Orthogonal(c, m) /\ ~HitsNamespace(c, m)
    BY <1>1, <1>2, <2>1, Zenon
  <2>3. m.context = "" /\ m.server = ""
    BY <2>1 DEF Lost
  <2>4. ~NameProtected(c, m) /\ ~ClusterProtected(c, m)
    BY <2>3 DEF NameProtected, ClusterProtected
  <2> QED  BY <2>2, <2>4, Zenon DEF Gate
<1> QED  BY <1>3, <1>4

\* The verdict: setting by setting at least as strict, but for the excuses, is
\* at least as strict on the command.
LEMMA VerdictKept ==
  ASSUME NEW c, NEW d, NEW m, Valid(d) => AtLeast(c, d, m), m.context = "" => m.server = ""
  PROVE  Kept(Check(c, m), Check(d, m), c, d, m)
<1>1. CASE Excused(c, d, m)
  BY <1>1 DEF Kept
<1>2. CASE ~Valid(d)
  <2>1. Check(d, m) = "deny"
    BY <1>2 DEF Check
  <2> QED  BY <2>1, CheckType, NoMilder, Zenon DEF Kept
<1>3. CASE Valid(d) /\ ~Excused(c, d, m)
  <2>1. Sterner(c, d, m)
    BY <1>3, Zenon DEF Sterner, Excused
  <2> DEFINE shut(x) == (m.exposed /\ On(x, "strict_config_perms")) \/ ~Valid(x)
             hit(x) == HitsResource(x, m) \/ Frozen(x, m)
             posing(x) == (NameProtected(x, m) \/ ClusterProtected(x, m)) /\ m.as /\ On(x, "block_impersonation")
             looked(x) == Altering(x, m) \/ Orthogonal(x, m) \/ Strict(x, m)
  <2>2. \A x : Check(x, m) =
          IF shut(x) THEN "deny" ELSE IF hit(x) THEN "blocked" ELSE IF Retargeted(x, m) THEN "deny"
          ELSE IF Rehearsal(x, m) THEN "allow" ELSE IF Astray(x, m) # "go" THEN Astray(x, m)
          ELSE IF posing(x) THEN "deny" ELSE IF ~looked(x) THEN "allow" ELSE Gate(x, m)
    BY Zenon DEF Check
  <2>3. shut(c) => shut(d)
    BY <1>3, <2>1 DEF Sterner, AtLeast
  <2>4. /\ hit(c) => hit(d)
        /\ Retargeted(c, m) => Retargeted(d, m)
        /\ ~Rehearsal(c, m) => ~Rehearsal(d, m)
        /\ looked(c) => looked(d)
    BY <2>1, KindsKept, TargetsKept, Zenon
  <2>5. posing(c) => posing(d)
    <3>1. On(c, "block_impersonation") => On(d, "block_impersonation")
      BY <2>1 DEF Sterner, AtLeast
    <3> QED  BY <2>1, <3>1, TargetsKept, Zenon
  <2>6. /\ Astray(c, m) = "deny" => Astray(d, m) = "deny"
        /\ Astray(d, m) = "allow" /\ Astray(c, m) = "go" => Gate(c, m) = "allow"
        /\ Astray(c, m) \in {"go", "deny", "allow"} /\ Astray(d, m) \in {"go", "deny", "allow"}
    <3>1. \A x : Astray(x, m) \in {"go", "deny", "allow"}
      BY Zenon DEF Astray
    <3> QED  BY <2>1, <3>1, AstrayKept
  <2>7. /\ Gate(c, m) = "deny" => Gate(d, m) = "deny"
        /\ Gate(c, m) = "blocked" => Gate(d, m) \in {"deny", "blocked"}
        /\ Gate(c, m) # "allow" => Gate(d, m) # "allow"
        /\ Gate(c, m) \in Verdicts /\ Gate(d, m) \in Verdicts
    <3>1. \A x : Gate(x, m) \in Verdicts
      BY DEF Gate, Verdicts
    <3> QED  BY <2>1, <3>1, GateKept
  <2>8. posing(c) => Astray(d, m) # "allow"
    <3>1. posing(c) => m.context # ""
      BY DEF NameProtected, ClusterProtected
    <3>2. Astray(d, m) = "allow" => m.context = ""
      BY DEF Astray, Lost
    <3> QED  BY <3>1, <3>2
  <2> HIDE DEF shut, hit, posing, looked
  <2>9. \/ Check(c, m) = "allow"
        \/ Check(c, m) = "confirm" /\ Check(d, m) # "allow"
        \/ Check(d, m) \in {"blocked", "deny"}
    BY <2>2, <2>3, <2>4, <2>5, <2>6, <2>7, <2>8 DEF Verdicts
  <2>10. Strength(Check(d, m)) >= Strength(Check(c, m))
    BY <2>9, CheckType, NoMilder, Zenon
  <2> QED  BY <2>10, Zenon DEF Kept
<1> QED  BY <1>1, <1>2, <1>3
-----------------------------------------------------------------------------
(***************************************************************************)
(* The merge is at least as strict as either of the files that go into it. *)
(***************************************************************************)
LEMMA BlockIsTop ==
  ASSUME NEW axis \in {"context_mode", "namespace_mode"}, NEW mode
  PROVE  /\ Rank(axis, "block") <= Rank(axis, mode) => mode = "block"
         /\ Grade("block") <= Grade(mode) => mode = "block"
         /\ Default[axis] # "block"
<1>1. axis \in Axes /\ "context_mode" \in Axes
  BY AxisNames
<1>2. \A a \in {"context_mode", "namespace_mode"} : Order[a] = <<"confirm", "block">> /\ a \in Axes
  BY Scales, AxisNames
<1>3. ASSUME NEW a \in {"context_mode", "namespace_mode"}, Rank(a, "block") <= Rank(a, mode)
      PROVE  mode = "block"
  <2>1. "block" \in Legal[a] /\ Rank(a, "block") = 2
    <3>1. 2 \in DOMAIN Order[a] /\ Order[a][2] = "block"
      BY <1>2
    <3> QED  BY <1>2, <3>1, RankIsPlace
  <2>2. mode \in Legal[a]
    BY <1>2, <1>3, <2>1, LegalRank
  <2> QED  BY <1>2, <1>3, <2>1, <2>2, Stricter
<1>4. Default[axis] # "block"
  <2>1. Default[axis] = Order[axis][1]
    BY <1>1, Zenon DEF Default
  <2> QED  BY <1>2, <2>1
<1> QED  BY <1>3, <1>4 DEF Grade

\* Of an entry in either list, the merged one is at least as strict.
LEMMA EntryRaises ==
  ASSUME NEW a \in EntryModes, NEW b \in EntryModes
  PROVE  /\ a # "none" \/ b # "none" => StrictestEntry(a, b) # "none"
         /\ a = "block" \/ b = "block" => StrictestEntry(a, b) = "block"
         /\ a = "inherit" \/ b = "inherit" => StrictestEntry(a, b) \in {"inherit", "block"}
         /\ StrictestEntry(a, b) = "block" => a = "block" \/ b = "block"
         /\ StrictestEntry(a, b) = "inherit" => a = "inherit" \/ b = "inherit"
         /\ StrictestEntry(a, b) # "none" => a # "none" \/ b # "none"
         /\ StrictestEntry(a, "none") = a
<1>1. StrictestEntry(a, b) =
        IF a = "block" \/ b = "block" THEN "block"
        ELSE IF a = "inherit" \/ b = "inherit" THEN "inherit"
        ELSE IF a = "confirm" \/ b = "confirm" THEN "confirm" ELSE "none"
  BY DEF StrictestEntry
<1>2. StrictestEntry(a, "none") =
        IF a = "block" THEN "block" ELSE IF a = "inherit" THEN "inherit"
        ELSE IF a = "confirm" THEN "confirm" ELSE "none"
  BY DEF StrictestEntry
<1>3. /\ a \in {"none", "inherit", "confirm", "block"}
      /\ b \in {"none", "inherit", "confirm", "block"}
  BY DEF EntryModes
<1> QED  BY <1>1, <1>2, <1>3

LEMMA MergedListRaises ==
  ASSUME NEW Patterns, NEW x \in [Patterns -> EntryModes], NEW y \in [Patterns -> EntryModes],
         NEW before, NEW after, before = "block" => after = "block"
  PROVE  /\ ListAtLeast(MergedList(x, [p \in Patterns |-> "none"]), MergedList(x, y), before, after)
         /\ ListAtLeast(y, MergedList(x, y), before, after)
<1> DEFINE both == MergedList(x, y)
           alone == MergedList(x, [p \in Patterns |-> "none"])
<1>1. /\ DOMAIN both = Patterns /\ DOMAIN alone = Patterns
      /\ \A p \in Patterns : both[p] = StrictestEntry(x[p], y[p]) /\ alone[p] = StrictestEntry(x[p], "none")
  BY DEF MergedList
<1>2. \A p \in Patterns : alone[p] = x[p]
  BY <1>1, EntryRaises
<1> HIDE DEF both, alone
<1>3. \A p \in Patterns :
        /\ x[p] # "none" \/ y[p] # "none" => both[p] # "none"
        /\ x[p] = "block" \/ y[p] = "block" => both[p] = "block"
        /\ x[p] = "inherit" \/ y[p] = "inherit" => both[p] \in {"inherit", "block"}
        /\ x[p] \in EntryModes /\ y[p] \in EntryModes
  BY <1>1, EntryRaises
<1>4. ASSUME NEW z \in {x, y}, NEW p \in Patterns, z[p] # "none"
      PROVE  both[p] # "none" /\ (Resolved(z[p], before) = "block" => Resolved(both[p], after) = "block")
  BY <1>3, <1>4 DEF Resolved, EntryModes
<1>5. ListAtLeast(alone, both, before, after)
  BY <1>1, <1>2, <1>4 DEF ListAtLeast, Listed
<1>6. ListAtLeast(y, both, before, after)
  BY <1>1, <1>4 DEF ListAtLeast, Listed
<1> QED  BY <1>5, <1>6 DEF both, alone

LEMMA OwnListRaises ==
  ASSUME NEW Patterns, NEW x \in [Patterns -> EntryModes], NEW y \in [Patterns -> EntryModes],
         NEW before, NEW after, before = "block" => after = "block"
  PROVE  ListAtLeast(y, MergedList(x, y), before, after)
BY MergedListRaises

\* What a config says of a verb, and which verbs the merge calls dangerous.
LEMMA ClassifiedIs ==
  ASSUME NEW c, NEW verb
  PROVE  /\ Classified(c, verb) = "altering" <=> verb \in c.altering \cup c.promoted
         /\ Classified(c, verb) = "safe" <=> verb \in c.safe /\ verb \notin c.altering \cup c.promoted
BY DEF Classified

\* The merge, field by field, as it stands in the config that decides.
LEMMA Deciding ==
  ASSUME NEW sys \in Config, NEW usr \in Config, NEW kind \in {"advisory", "enforced"}
  PROVE  LET both == Effective(kind, sys, usr) IN
         /\ both.contexts = MergedList(sys.contexts, usr.contexts)
         /\ both.namespaces = MergedList(sys.namespaces, usr.namespaces)
         /\ both.clusters = MergedList(sys.clusters, usr.clusters)
         /\ both.resources = sys.resources \cup usr.resources
         /\ both.kinds = sys.kinds \cup usr.kinds
         /\ both.on = sys.on \cup usr.on
         /\ both.sensitive = MergedSensitive(sys.sensitive, usr.sensitive)
         /\ both.safe = sys.safe \ Dangerous(sys, usr)
         /\ both.altering = Dangerous(sys, usr) /\ both.promoted = {}
         /\ \A p \in ActorPatterns :
              /\ both.actors[p].context = StrictestEntry(sys.actors[p].context, usr.actors[p].context)
              /\ both.actors[p].namespace = StrictestEntry(sys.actors[p].namespace, usr.actors[p].namespace)
<1> DEFINE both == Effective(kind, sys, usr)
           merged == Merge(sys, usr)
<1>1. /\ both.contexts = merged.contexts /\ both.namespaces = merged.namespaces
      /\ both.clusters = merged.clusters /\ both.actors = merged.actors
      /\ both.resources = merged.resources /\ both.kinds = merged.kinds
      /\ both.on = merged.on /\ both.sensitive = merged.sensitive
      /\ both.safe = merged.safe /\ both.altering = merged.altering /\ both.promoted = merged.promoted
  BY EffectiveIsMerge
<1>2. /\ merged.contexts = MergedList(sys.contexts, usr.contexts)
      /\ merged.namespaces = MergedList(sys.namespaces, usr.namespaces)
      /\ merged.clusters = MergedList(sys.clusters, usr.clusters)
      /\ merged.actors = MergedActors(sys.actors, usr.actors)
      /\ merged.resources = sys.resources \cup usr.resources
      /\ merged.kinds = sys.kinds \cup usr.kinds
      /\ merged.on = sys.on \cup usr.on
      /\ merged.sensitive = MergedSensitive(sys.sensitive, usr.sensitive)
      /\ merged.safe = sys.safe \ Dangerous(sys, usr)
      /\ merged.altering = Dangerous(sys, usr) /\ merged.promoted = {}
  BY DEF Merge
<1>3. DOMAIN sys.actors = ActorPatterns
  BY DEF Config
<1>4. \A p \in ActorPatterns :
        /\ MergedActors(sys.actors, usr.actors)[p].context
             = StrictestEntry(sys.actors[p].context, usr.actors[p].context)
        /\ MergedActors(sys.actors, usr.actors)[p].namespace
             = StrictestEntry(sys.actors[p].namespace, usr.actors[p].namespace)
  BY <1>3 DEF MergedActors
<1> HIDE DEF both, merged
<1> QED  BY <1>1, <1>2, <1>4 DEF both
\* Whatever the user's file says, the merge is as strict as the system's file is alone.
LEMMA SystemAtLeast ==
  ASSUME NEW sys \in Config, NEW usr \in Config, NEW kind \in {"advisory", "enforced"}, NEW m
  PROVE  AtLeast(Effective(kind, sys, Silent), Effective(kind, sys, usr), m)
<1> DEFINE c == Effective(kind, sys, Silent)
           d == Effective(kind, sys, usr)
<1>1. Silent \in Config
  BY SilentIsConfig
<1>2. \A axis \in Axes : Rank(axis, Mode(c, axis)) <= Rank(axis, Mode(d, axis))
  <2> SUFFICES ASSUME NEW axis \in Axes  PROVE Rank(axis, Mode(c, axis)) <= Rank(axis, Mode(d, axis))
    OBVIOUS
  <2>1. Silent.mode[axis] = "unset"
    BY DEF Silent
  <2>2. /\ Mode(c, axis) = MergedMode(axis, sys.mode[axis], "unset")
        /\ Mode(d, axis) = MergedMode(axis, sys.mode[axis], usr.mode[axis])
        /\ sys.mode[axis] \in Levels /\ usr.mode[axis] \in Levels /\ "unset" \in Levels
    BY <1>1, <2>1, MergedModes
  <2> QED  BY <2>2, MergeRaises
<1>3. \A axis \in {"context_mode", "namespace_mode"} : Mode(c, axis) = "block" => Mode(d, axis) = "block"
  <2>1. \A axis \in {"context_mode", "namespace_mode"} : axis \in Axes
    BY AxisNames
  <2> QED  BY <1>2, <2>1, BlockIsTop
<1>4. /\ c.contexts = MergedList(sys.contexts, [p \in ContextPatterns |-> "none"])
      /\ c.namespaces = MergedList(sys.namespaces, [p \in NamespacePatterns |-> "none"])
      /\ c.clusters = MergedList(sys.clusters, [p \in ServerPatterns |-> "none"])
      /\ c.resources = sys.resources \cup {} /\ c.kinds = sys.kinds \cup {} /\ c.on = sys.on \cup {}
      /\ c.sensitive = MergedSensitive(sys.sensitive, {})
      /\ c.safe = sys.safe \ Dangerous(sys, Silent)
      /\ c.altering = Dangerous(sys, Silent) /\ c.promoted = {}
      /\ \A p \in ActorPatterns : /\ c.actors[p].context = StrictestEntry(sys.actors[p].context, "none")
                                  /\ c.actors[p].namespace = StrictestEntry(sys.actors[p].namespace, "none")
  <2>1. /\ Silent.contexts = [p \in ContextPatterns |-> "none"]
        /\ Silent.namespaces = [p \in NamespacePatterns |-> "none"]
        /\ Silent.clusters = [p \in ServerPatterns |-> "none"]
        /\ Silent.resources = {} /\ Silent.kinds = {} /\ Silent.on = {} /\ Silent.sensitive = {}
        /\ \A p \in ActorPatterns : Silent.actors[p].context = "none" /\ Silent.actors[p].namespace = "none"
    BY DEF Silent, NoPolicy
  <2>2. /\ c.contexts = MergedList(sys.contexts, Silent.contexts)
        /\ c.namespaces = MergedList(sys.namespaces, Silent.namespaces)
        /\ c.clusters = MergedList(sys.clusters, Silent.clusters)
        /\ c.resources = sys.resources \cup Silent.resources /\ c.kinds = sys.kinds \cup Silent.kinds
        /\ c.on = sys.on \cup Silent.on
        /\ c.sensitive = MergedSensitive(sys.sensitive, Silent.sensitive)
        /\ c.safe = sys.safe \ Dangerous(sys, Silent)
        /\ c.altering = Dangerous(sys, Silent) /\ c.promoted = {}
        /\ \A p \in ActorPatterns :
             /\ c.actors[p].context = StrictestEntry(sys.actors[p].context, Silent.actors[p].context)
             /\ c.actors[p].namespace = StrictestEntry(sys.actors[p].namespace, Silent.actors[p].namespace)
    BY <1>1, Deciding
  <2> HIDE DEF c, d
  <2>3. \A p \in ActorPatterns : /\ c.actors[p].context = StrictestEntry(sys.actors[p].context, "none")
                                 /\ c.actors[p].namespace = StrictestEntry(sys.actors[p].namespace, "none")
    <3> TAKE p \in ActorPatterns
    <3>1. Silent.actors[p].context = "none" /\ Silent.actors[p].namespace = "none"
      BY <2>1
    <3>2. /\ c.actors[p].context = StrictestEntry(sys.actors[p].context, Silent.actors[p].context)
          /\ c.actors[p].namespace = StrictestEntry(sys.actors[p].namespace, Silent.actors[p].namespace)
      BY <2>2
    <3> QED  BY <3>1, <3>2
  <2> QED  BY <2>1, <2>2, <2>3, Zenon
<1>5. /\ d.contexts = MergedList(sys.contexts, usr.contexts)
      /\ d.namespaces = MergedList(sys.namespaces, usr.namespaces)
      /\ d.clusters = MergedList(sys.clusters, usr.clusters)
      /\ d.resources = sys.resources \cup usr.resources /\ d.kinds = sys.kinds \cup usr.kinds
      /\ d.on = sys.on \cup usr.on
      /\ d.sensitive = MergedSensitive(sys.sensitive, usr.sensitive)
      /\ d.safe = sys.safe \ Dangerous(sys, usr)
      /\ d.altering = Dangerous(sys, usr) /\ d.promoted = {}
      /\ \A p \in ActorPatterns :
           /\ d.actors[p].context = StrictestEntry(sys.actors[p].context, usr.actors[p].context)
           /\ d.actors[p].namespace = StrictestEntry(sys.actors[p].namespace, usr.actors[p].namespace)
  BY Deciding
<1>6. Dangerous(sys, Silent) \subseteq Dangerous(sys, usr)
  BY DEF Dangerous, Silent
<1> HIDE DEF c, d
<1>7. /\ ListAtLeast(c.contexts, d.contexts, Mode(c, "context_mode"), Mode(d, "context_mode"))
      /\ ListAtLeast(c.clusters, d.clusters, Mode(c, "context_mode"), Mode(d, "context_mode"))
      /\ ListAtLeast(c.namespaces, d.namespaces, Mode(c, "namespace_mode"), Mode(d, "namespace_mode"))
  <2>1. /\ sys.contexts \in [ContextPatterns -> EntryModes] /\ usr.contexts \in [ContextPatterns -> EntryModes]
        /\ sys.clusters \in [ServerPatterns -> EntryModes] /\ usr.clusters \in [ServerPatterns -> EntryModes]
        /\ sys.namespaces \in [NamespacePatterns -> EntryModes]
        /\ usr.namespaces \in [NamespacePatterns -> EntryModes]
    BY DEF Config
  <2> QED  BY <1>3, <1>4, <1>5, <2>1, MergedListRaises
<1>8. \A p \in ActorPatterns, field \in {"context", "namespace"} :
        c.actors[p][field] = "block" => d.actors[p][field] = "block"
  <2>1. \A p \in ActorPatterns : /\ sys.actors[p].context \in EntryModes /\ usr.actors[p].context \in EntryModes
                                 /\ sys.actors[p].namespace \in EntryModes /\ usr.actors[p].namespace \in EntryModes
    BY DEF Config, Policies
  <2>2. \A a, b \in EntryModes : /\ StrictestEntry(a, "none") = a
                                 /\ a = "block" => StrictestEntry(a, b) = "block"
    BY EntryRaises
  <2> QED  BY <1>4, <1>5, <2>1, <2>2
<1>9. \A verb : IsSensitiveVerb(c, verb) => IsSensitiveVerb(d, verb)
  BY <1>4, <1>5 DEF IsSensitiveVerb, MergedSensitive, DefaultSensitiveVerbs
<1>10. \A verb : /\ Classified(c, verb) = "altering" => Classified(d, verb) = "altering"
                 /\ Classified(d, verb) = "safe" => Classified(c, verb) = "safe"
  BY <1>4, <1>5, <1>6, ClassifiedIs
<1>11. \A switch : On(c, switch) => On(d, switch)
  BY <1>4, <1>5 DEF On
<1>12. c.resources \subseteq d.resources /\ c.kinds \subseteq d.kinds
  BY <1>4, <1>5
<1>13. \A axis \in RankedAxes : Rank(axis, Mode(c, axis)) <= Rank(axis, Mode(d, axis))
  BY <1>2 DEF RankedAxes
<1> QED  BY <1>7, <1>8, <1>9, <1>10, <1>11, <1>12, <1>13, Zenon DEF AtLeast, c, d

\* Whatever the user's file says and however it is edited, no command line gets a
\* milder verdict than under the system's file alone, but for the ways in which
\* a stricter setting excuses one (Merge, layered.go).
THEOREM FloorHolds == Spec => []Floor
<1>1. TypeInv => Floor
  <2> SUFFICES ASSUME TypeInv, baseline # "absent", NEW m \in Commands
               PROVE  Kept(Check(SystemAlone, m), ruling[m], SystemAlone, Now, m)
    BY DEF Floor
  <2>1. system \in Config /\ user \in Config /\ baseline \in {"advisory", "enforced"}
    BY DEF TypeInv, TypeOK
  <2>2. AtLeast(SystemAlone, Now, m)
    BY <2>1, SystemAtLeast DEF SystemAlone, Now
  <2>3. m.context = "" => m.server = ""
    BY LayersAssumption
  <2>4. ruling[m] = Check(Now, m)
    BY DEF TypeInv, Judged
  <2>5. Kept(Check(SystemAlone, m), Check(Now, m), SystemAlone, Now, m)
    BY <2>2, <2>3, VerdictKept, Zenon
  <2> QED  BY <2>4, <2>5
<1> QED  BY <1>1, TypesHold, PTL
\* The merge is as strict as what the user's file says outright, on all but the
\* verbs that the system calls safe.
LEMMA UserAtLeast ==
  ASSUME TypeOK, baseline # "absent", Valid(Now), NEW m, m.verb \notin system.safe
  PROVE  AtLeast(Outright, Now, m)
<1> DEFINE d == Effective(baseline, system, user)
           own == [axis \in Axes |-> IF user.mode[axis] = "unset" THEN Order[axis][1] ELSE user.mode[axis]]
           verbs == IF user.sensitive = {} THEN system.sensitive ELSE user.sensitive
           c == [user EXCEPT !.mode = own, !.sensitive = verbs]
<1>1. user \in Config /\ system \in Config /\ baseline \in {"advisory", "enforced"}
  BY DEF TypeOK
<1>2. c = Outright /\ d = Now
  BY Zenon DEF Outright, Now
<1>3. /\ c.mode = own /\ c.sensitive = verbs
      /\ c.contexts = user.contexts /\ c.namespaces = user.namespaces /\ c.clusters = user.clusters
      /\ c.actors = user.actors /\ c.resources = user.resources /\ c.kinds = user.kinds
      /\ c.on = user.on /\ c.safe = user.safe /\ c.altering = user.altering /\ c.promoted = user.promoted
  BY <1>1 DEF Config
<1>4. /\ d.contexts = MergedList(system.contexts, user.contexts)
      /\ d.namespaces = MergedList(system.namespaces, user.namespaces)
      /\ d.clusters = MergedList(system.clusters, user.clusters)
      /\ d.resources = system.resources \cup user.resources /\ d.kinds = system.kinds \cup user.kinds
      /\ d.on = system.on \cup user.on
      /\ d.sensitive = MergedSensitive(system.sensitive, user.sensitive)
      /\ d.safe = system.safe \ Dangerous(system, user)
      /\ d.altering = Dangerous(system, user) /\ d.promoted = {}
      /\ \A p \in ActorPatterns :
           /\ d.actors[p].context = StrictestEntry(system.actors[p].context, user.actors[p].context)
           /\ d.actors[p].namespace = StrictestEntry(system.actors[p].namespace, user.actors[p].namespace)
  BY <1>1, Deciding
<1> HIDE DEF c, d
<1>5. \A axis \in Axes : Rank(axis, Mode(c, axis)) <= Rank(axis, Mode(d, axis))
  <2> SUFFICES ASSUME NEW axis \in Axes  PROVE Rank(axis, Mode(c, axis)) <= Rank(axis, Mode(d, axis))
    OBVIOUS
  <2>1. Order[axis][1] \in Legal[axis] /\ Rank(axis, Order[axis][1]) = 1 /\ Order[axis][1] # "unset"
    <3>1. 1 \in DOMAIN Order[axis]
      BY Lengths
    <3> QED  BY <3>1, Lengths, RankIsPlace
  <2>2. Mode(c, axis) = IF user.mode[axis] = "unset" THEN Order[axis][1] ELSE user.mode[axis]
    BY <1>3, <2>1 DEF Mode
  <2>3. CASE user.mode[axis] = "unset"
    <3>1. Rank(axis, Mode(d, axis)) > 0
      BY <1>2, LegalRank DEF Valid
    <3>2. Rank(axis, Mode(d, axis)) \in 0 .. 3
      BY LegalRank
    <3> QED  BY <2>1, <2>2, <2>3, <3>1, <3>2
  <2>4. CASE user.mode[axis] # "unset"
    <3>1. Rank(axis, user.mode[axis]) <= Rank(axis, Mode(d, axis))
      BY <1>1, <2>4, MergedModes DEF d
    <3> QED  BY <2>2, <2>4, <3>1
  <2> QED  BY <2>3, <2>4
<1>6. \A axis \in {"context_mode", "namespace_mode"} : Mode(c, axis) = "block" => Mode(d, axis) = "block"
  <2>1. \A axis \in {"context_mode", "namespace_mode"} : axis \in Axes
    BY AxisNames
  <2> QED  BY <1>5, <2>1, BlockIsTop
<1>7. /\ ListAtLeast(c.contexts, d.contexts, Mode(c, "context_mode"), Mode(d, "context_mode"))
      /\ ListAtLeast(c.clusters, d.clusters, Mode(c, "context_mode"), Mode(d, "context_mode"))
      /\ ListAtLeast(c.namespaces, d.namespaces, Mode(c, "namespace_mode"), Mode(d, "namespace_mode"))
  <2>1. /\ system.contexts \in [ContextPatterns -> EntryModes] /\ user.contexts \in [ContextPatterns -> EntryModes]
        /\ system.clusters \in [ServerPatterns -> EntryModes] /\ user.clusters \in [ServerPatterns -> EntryModes]
        /\ system.namespaces \in [NamespacePatterns -> EntryModes]
        /\ user.namespaces \in [NamespacePatterns -> EntryModes]
    BY <1>1 DEF Config
  <2>2. /\ ListAtLeast(user.contexts, d.contexts, Mode(c, "context_mode"), Mode(d, "context_mode"))
        /\ ListAtLeast(user.clusters, d.clusters, Mode(c, "context_mode"), Mode(d, "context_mode"))
        /\ ListAtLeast(user.namespaces, d.namespaces, Mode(c, "namespace_mode"), Mode(d, "namespace_mode"))
    <3>1. /\ Mode(c, "context_mode") = "block" => Mode(d, "context_mode") = "block"
          /\ Mode(c, "namespace_mode") = "block" => Mode(d, "namespace_mode") = "block"
      BY <1>6
    <3>2. /\ d.contexts = MergedList(system.contexts, user.contexts)
          /\ d.namespaces = MergedList(system.namespaces, user.namespaces)
          /\ d.clusters = MergedList(system.clusters, user.clusters)
      BY <1>4
    <3>3. ListAtLeast(user.contexts, d.contexts, Mode(c, "context_mode"), Mode(d, "context_mode"))
      BY <2>1, <3>1, <3>2, OwnListRaises
    <3>4. ListAtLeast(user.clusters, d.clusters, Mode(c, "context_mode"), Mode(d, "context_mode"))
      BY <2>1, <3>1, <3>2, OwnListRaises
    <3>5. ListAtLeast(user.namespaces, d.namespaces, Mode(c, "namespace_mode"), Mode(d, "namespace_mode"))
      BY <2>1, <3>1, <3>2, OwnListRaises
    <3> QED  BY <3>3, <3>4, <3>5
  <2> QED  BY <1>3, <2>2
<1>8. \A p \in ActorPatterns, field \in {"context", "namespace"} :
        c.actors[p][field] = "block" => d.actors[p][field] = "block"
  <2>1. \A p \in ActorPatterns :
          /\ system.actors[p].context \in EntryModes /\ user.actors[p].context \in EntryModes
          /\ system.actors[p].namespace \in EntryModes /\ user.actors[p].namespace \in EntryModes
    BY <1>1 DEF Config, Policies
  <2>2. \A a, b \in EntryModes : b = "block" => StrictestEntry(a, b) = "block"
    BY EntryRaises
  <2> QED  BY <1>3, <1>4, <2>1, <2>2
<1>9. \A verb : IsSensitiveVerb(c, verb) => IsSensitiveVerb(d, verb)
  BY <1>3, <1>4 DEF IsSensitiveVerb, MergedSensitive, DefaultSensitiveVerbs
<1>10. /\ Classified(c, m.verb) = "altering" => Classified(d, m.verb) = "altering"
       /\ Classified(d, m.verb) # "safe"
  BY <1>3, <1>4, ClassifiedIs DEF Dangerous
<1>11. \A switch : On(c, switch) => On(d, switch)
  BY <1>3, <1>4 DEF On
<1>12. c.resources \subseteq d.resources /\ c.kinds \subseteq d.kinds
  BY <1>3, <1>4
<1>13. \A axis \in RankedAxes : Rank(axis, Mode(c, axis)) <= Rank(axis, Mode(d, axis))
  BY <1>5 DEF RankedAxes
<1>14. AtLeast(c, d, m)
  BY <1>7, <1>8, <1>9, <1>10, <1>11, <1>12, <1>13, Zenon DEF AtLeast
<1> QED  BY <1>2, <1>14

\* However the administrator edits the system's file, no command line gets a
\* milder verdict than the user's file asks for, but for the verbs that the
\* administrator calls safe and the same excuses (Merge, layered.go).
THEOREM UserHolds == Spec => []UserKept
<1>1. TypeInv => UserKept
  <2> SUFFICES ASSUME TypeInv, baseline # "absent", NEW m \in Commands, m.verb \notin system.safe
               PROVE  Kept(Check(Outright, m), ruling[m], Outright, Now, m)
    BY DEF UserKept
  <2>1. Valid(Now) => AtLeast(Outright, Now, m)
    BY UserAtLeast DEF TypeInv
  <2>2. m.context = "" => m.server = ""
    BY LayersAssumption
  <2>3. ruling[m] = Check(Now, m)
    BY DEF TypeInv, Judged
  <2>4. Kept(Check(Outright, m), Check(Now, m), Outright, Now, m)
    BY <2>1, <2>2, VerdictKept, Zenon
  <2> QED  BY <2>3, <2>4
<1> QED  BY <1>1, TypesHold, PTL
-----------------------------------------------------------------------------
(***************************************************************************)
(* Edits of which WeakensProtection reports nothing.                       *)
(***************************************************************************)

\* No edit of the user's file makes it silent on an axis.
LEMMA UncheckedSets ==
  ASSUME NEW c \in Config, NEW d \in Unchecked(c), NEW axis \in Axes, c.mode[axis] # "unset"
  PROVE  d.mode[axis] # "unset"
<1>1. c.mode \in [Axes -> Levels]
  BY DEF Config
<1>2. ASSUME NEW changed \in Axes, NEW value \in Legal[changed], d = [c EXCEPT !.mode[changed] = value]
      PROVE  d.mode[axis] # "unset"
  <2>1. value # "unset"
    BY <1>2, LegalRank
  <2>2. d.mode = [c.mode EXCEPT ![changed] = value]
    BY <1>2 DEF Config
  <2> QED  BY <1>1, <2>1, <2>2
<1>3. CASE \/ d \in {[c EXCEPT !.mode["in_cluster"] = value] : value \in Legal["in_cluster"]}
           \/ d \in {[c EXCEPT !.mode["discover_short_names"] = value] : value \in Legal["discover_short_names"]}
  <2>1. "in_cluster" \in Axes /\ "discover_short_names" \in Axes
    BY AxisNames
  <2> QED  BY <1>2, <1>3, <2>1, Zenon
<1>4. CASE \/ d \in {[c EXCEPT !.sensitive = verbs] : verbs \in {{}, {"get"}, {"delete"}}}
           \/ d \in {[c EXCEPT !.promoted = @ \cup {verb}] : verb \in Verbs}
           \/ d \in {[c EXCEPT !.on = @ \cup {switch}] : switch \in Switches}
           \/ d \in {[c EXCEPT !.on = @ \ {switch}] : switch \in Switches}
           \/ d \in {[c EXCEPT !.log = path] : path \in Sinks}
           \/ d \in {[c EXCEPT !.key = path] : path \in Sinks}
           \/ d \in {[c EXCEPT !.actor = name] : name \in ActorPatterns \cup {""}}
  <2>2. PICK x : \/ d = [c EXCEPT !.sensitive = x] \/ d = [c EXCEPT !.promoted = x]
                \/ d = [c EXCEPT !.on = x] \/ d = [c EXCEPT !.log = x]
                \/ d = [c EXCEPT !.key = x] \/ d = [c EXCEPT !.actor = x]
    BY <1>4, Zenon
  <2>3. d.mode = c.mode
    BY <2>2 DEF Config
  <2> QED  BY <2>3
<1> QED  BY <1>3, <1>4, Zenon DEF Unchecked

LEMMA NothingUnset ==
  ASSUME TypeOK, UserCommand \/ UserEdit \/ SystemEdit, NEW axis \in Axes, user.mode[axis] # "unset"
  PROVE  user'.mode[axis] # "unset"
<1>1. CASE UserCommand
  <2>1. PICK new : Saves(new)
    BY <1>1, CommandSaves
  <2>2. new \in Config /\ user' = Filled(new) /\ new.mode[axis] # "unset"
    BY <2>1 DEF Saves, Save
  <2> QED  BY <2>2, FilledModes
<1>2. CASE UserEdit
  BY <1>2, UncheckedSets DEF UserEdit, TypeOK
<1>3. CASE SystemEdit
  BY <1>3 DEF SystemEdit
<1> QED  BY <1>1, <1>2, <1>3

\* A list of the user's that keeps its entries keeps them in the merge, unless
\* one is detached from the mode that the merge gives.
LEMMA MergedListKept ==
  ASSUME NEW Patterns, NEW s \in [Patterns -> EntryModes], NEW u \in [Patterns -> EntryModes],
         NEW v \in [Patterns -> EntryModes], NEW mine, NEW yours, NEW before, NEW after,
         ListAtLeast(u, v, mine, yours),
         before = "block" => after = "block", yours = "block" => after = "block",
         before = "block" => \A p \in Patterns : ~(u[p] = "inherit" /\ v[p] = "confirm")
  PROVE  ListAtLeast(MergedList(s, u), MergedList(s, v), before, after)
<1> DEFINE old == MergedList(s, u)
           new == MergedList(s, v)
<1>1. /\ DOMAIN old = Patterns /\ DOMAIN new = Patterns
      /\ \A p \in Patterns : old[p] = StrictestEntry(s[p], u[p]) /\ new[p] = StrictestEntry(s[p], v[p])
  BY DEF MergedList
<1> HIDE DEF old, new
<1>2. \A p \in Patterns : s[p] \in EntryModes /\ u[p] \in EntryModes /\ v[p] \in EntryModes
  OBVIOUS
<1>3. \A p \in Patterns :
        /\ s[p] # "none" \/ v[p] # "none" => new[p] # "none"
        /\ s[p] = "block" \/ v[p] = "block" => new[p] = "block"
        /\ s[p] = "inherit" \/ v[p] = "inherit" => new[p] \in {"inherit", "block"}
        /\ old[p] = "block" => s[p] = "block" \/ u[p] = "block"
        /\ old[p] = "inherit" => s[p] = "inherit" \/ u[p] = "inherit"
        /\ old[p] # "none" => s[p] # "none" \/ u[p] # "none"
  BY <1>1, <1>2, EntryRaises
<1>4. \A p \in Patterns : u[p] # "none" =>
        v[p] # "none" /\ (Resolved(u[p], mine) = "block" => Resolved(v[p], yours) = "block")
  BY DEF ListAtLeast, Listed
<1>5. ASSUME NEW p \in Patterns, old[p] # "none"
      PROVE  new[p] # "none" /\ (Resolved(old[p], before) = "block" => Resolved(new[p], after) = "block")
  <2>1. new[p] # "none"
    BY <1>3, <1>4, <1>5
  <2>2. CASE old[p] = "block"
    BY <1>3, <1>4, <2>1, <2>2 DEF Resolved
  <2>3. CASE old[p] = "inherit" /\ before = "block"
    BY <1>2, <1>3, <1>4, <2>1, <2>3 DEF Resolved, EntryModes
  <2> QED  BY <2>1, <2>2, <2>3 DEF Resolved
<1>6. ListAtLeast(old, new, before, after)
  BY <1>1, <1>5 DEF ListAtLeast, Listed
<1> QED  BY <1>6 DEF old, new
\* What WeakensProtection does not report leaves the file itself as strict.
LEMMA UnreportedStays ==
  ASSUME NEW old \in Config, NEW new \in Config, NoWeaker(old, new), new.sensitive = old.sensitive,
         On(old, "strict_config_perms") = On(new, "strict_config_perms"), NEW m
  PROVE  AtLeast(old, new, m)
<1>1. \A axis \in RankedAxes : Rank(axis, Mode(old, axis)) <= Rank(axis, Mode(new, axis))
  BY DEF NoWeaker
<1>2. ASSUME NEW Patterns, NEW x \in [Patterns -> EntryModes], NEW y \in [Patterns -> EntryModes],
             NEW axis \in {"context_mode", "namespace_mode"},
             ~WeakerList(x, y, Mode(old, axis), Mode(new, axis))
      PROVE  ListAtLeast(x, y, Mode(old, axis), Mode(new, axis))
  <2>1. axis \in RankedAxes
    BY AxisNames DEF RankedAxes
  <2>2. \A mode : Rank(axis, mode) = Grade(mode)
    BY SharedScale DEF Grade
  <2>3. Grade(Mode(old, axis)) <= Grade(Mode(new, axis))
    BY <1>1, <2>1, <2>2
  <2>4. \A p \in Patterns : x[p] # "none" =>
          y[p] # "none" /\ Grade(Resolved(x[p], Mode(old, axis))) <= Grade(Resolved(y[p], Mode(new, axis)))
    BY <1>2, <2>3, ListsKept
  <2>5. \A mode : Grade("block") <= Grade(mode) => mode = "block"
    BY BlockIsTop
  <2> QED  BY <2>4, <2>5 DEF ListAtLeast, Listed
<1>3. /\ old.contexts \in [ContextPatterns -> EntryModes] /\ new.contexts \in [ContextPatterns -> EntryModes]
      /\ old.clusters \in [ServerPatterns -> EntryModes] /\ new.clusters \in [ServerPatterns -> EntryModes]
      /\ old.namespaces \in [NamespacePatterns -> EntryModes]
      /\ new.namespaces \in [NamespacePatterns -> EntryModes]
  BY DEF Config
<1>4. ListAtLeast(old.contexts, new.contexts, Mode(old, "context_mode"), Mode(new, "context_mode"))
  BY <1>2, <1>3 DEF NoWeaker
<1>5. ListAtLeast(old.clusters, new.clusters, Mode(old, "context_mode"), Mode(new, "context_mode"))
  BY <1>2, <1>3 DEF NoWeaker
<1>6. ListAtLeast(old.namespaces, new.namespaces, Mode(old, "namespace_mode"), Mode(new, "namespace_mode"))
  BY <1>2, <1>3 DEF NoWeaker
<1>7. \A p \in ActorPatterns, field \in {"context", "namespace"} :
        old.actors[p][field] = "block" => new.actors[p][field] = "block"
  <2>1. NoPolicy.context # "block" /\ NoPolicy.namespace # "block"
    BY DEF NoPolicy
  <2>2. ~WeakerActors(old.actors, new.actors)
    BY DEF NoWeaker
  <2> SUFFICES ASSUME NEW p \in ActorPatterns, NEW field \in {"context", "namespace"},
                      old.actors[p][field] = "block"
               PROVE  new.actors[p][field] = "block"
    OBVIOUS
  <2>3. old.actors[p] # NoPolicy
    BY <2>1
  <2> QED  BY <2>2, <2>3, Zenon DEF WeakerActors
<1>8. \A switch \in {"read_only", "block_impersonation", "strict_config_perms"} :
        On(old, switch) => On(new, switch)
  BY DEF NoWeaker, On
<1>9. IsSensitiveVerb(old, m.verb) => IsSensitiveVerb(new, m.verb)
  BY DEF IsSensitiveVerb
<1>10. /\ Classified(old, m.verb) = "altering" => Classified(new, m.verb) = "altering"
       /\ Classified(new, m.verb) = "safe" => Classified(old, m.verb) = "safe"
  BY ClassifiedIs DEF NoWeaker
<1>11. old.resources \subseteq new.resources /\ old.kinds \subseteq new.kinds
  BY DEF NoWeaker
<1> QED  BY <1>1, <1>4, <1>5, <1>6, <1>7, <1>8, <1>9, <1>10, <1>11, Zenon DEF AtLeast

\* And the merge with the system's, if no entry was detached.
LEMMA MergeStays ==
  ASSUME NEW sys \in Config, NEW old \in Config, NEW new \in Config, NEW kind \in {"advisory", "enforced"},
         NoWeaker(old, new), new.sensitive = old.sensitive,
         On(old, "strict_config_perms") = On(new, "strict_config_perms"),
         \A axis \in Axes : old.mode[axis] # "unset" => new.mode[axis] # "unset",
         Mode(Effective(kind, sys, old), "context_mode") = "block" =>
           /\ \A p \in ContextPatterns : ~(old.contexts[p] = "inherit" /\ new.contexts[p] = "confirm")
           /\ \A p \in ServerPatterns : ~(old.clusters[p] = "inherit" /\ new.clusters[p] = "confirm"),
         Mode(Effective(kind, sys, old), "namespace_mode") = "block" =>
           \A p \in NamespacePatterns : ~(old.namespaces[p] = "inherit" /\ new.namespaces[p] = "confirm"),
         NEW m
  PROVE  AtLeast(Effective(kind, sys, old), Effective(kind, sys, new), m)
<1> DEFINE c == Effective(kind, sys, old)
           d == Effective(kind, sys, new)
<1>1. /\ c.contexts = MergedList(sys.contexts, old.contexts)
      /\ c.namespaces = MergedList(sys.namespaces, old.namespaces)
      /\ c.clusters = MergedList(sys.clusters, old.clusters)
      /\ c.resources = sys.resources \cup old.resources /\ c.kinds = sys.kinds \cup old.kinds
      /\ c.on = sys.on \cup old.on
      /\ c.sensitive = MergedSensitive(sys.sensitive, old.sensitive)
      /\ c.safe = sys.safe \ Dangerous(sys, old)
      /\ c.altering = Dangerous(sys, old) /\ c.promoted = {}
      /\ \A p \in ActorPatterns :
           /\ c.actors[p].context = StrictestEntry(sys.actors[p].context, old.actors[p].context)
           /\ c.actors[p].namespace = StrictestEntry(sys.actors[p].namespace, old.actors[p].namespace)
  BY Deciding
<1>2. /\ d.contexts = MergedList(sys.contexts, new.contexts)
      /\ d.namespaces = MergedList(sys.namespaces, new.namespaces)
      /\ d.clusters = MergedList(sys.clusters, new.clusters)
      /\ d.resources = sys.resources \cup new.resources /\ d.kinds = sys.kinds \cup new.kinds
      /\ d.on = sys.on \cup new.on
      /\ d.sensitive = MergedSensitive(sys.sensitive, new.sensitive)
      /\ d.safe = sys.safe \ Dangerous(sys, new)
      /\ d.altering = Dangerous(sys, new) /\ d.promoted = {}
      /\ \A p \in ActorPatterns :
           /\ d.actors[p].context = StrictestEntry(sys.actors[p].context, new.actors[p].context)
           /\ d.actors[p].namespace = StrictestEntry(sys.actors[p].namespace, new.actors[p].namespace)
  BY Deciding
<1>3. AtLeast(old, new, m)
  BY UnreportedStays
<1>4. ASSUME NEW axis \in Axes, axis \in RankedAxes
      PROVE  /\ Rank(axis, Mode(c, axis)) <= Rank(axis, Mode(d, axis))
             /\ new.mode[axis] # "unset" => Rank(axis, Mode(new, axis)) <= Rank(axis, Mode(d, axis))
  <2> DEFINE floor == IF sys.mode[axis] = "unset" THEN Default[axis] ELSE sys.mode[axis]
  <2>1. /\ Mode(c, axis) = MergedMode(axis, sys.mode[axis], old.mode[axis])
        /\ Mode(d, axis) = MergedMode(axis, sys.mode[axis], new.mode[axis])
        /\ sys.mode[axis] \in Levels /\ old.mode[axis] \in Levels /\ new.mode[axis] \in Levels
    BY MergedModes
  <2>2. /\ Rank(axis, floor) <= Rank(axis, Mode(d, axis))
        /\ new.mode[axis] # "unset" => Rank(axis, new.mode[axis]) <= Rank(axis, Mode(d, axis))
        /\ Mode(c, axis) \in {floor, old.mode[axis]}
        /\ old.mode[axis] = "unset" => Mode(c, axis) = floor
    BY <2>1, MergeRaises
  <2>3. /\ old.mode[axis] # "unset" => Mode(old, axis) = old.mode[axis]
        /\ new.mode[axis] # "unset" => Mode(new, axis) = new.mode[axis]
    BY DEF Mode
  <2>4. Rank(axis, Mode(old, axis)) <= Rank(axis, Mode(new, axis))
    BY <1>4 DEF NoWeaker
  <2>5. \A x : Rank(axis, x) \in 0 .. 3
    BY LegalRank
  <2> HIDE DEF floor, c, d
  <2> QED  BY <2>2, <2>3, <2>4, <2>5
<1> HIDE DEF c, d
<1>5. /\ "context_mode" \in Axes /\ "context_mode" \in RankedAxes
      /\ "namespace_mode" \in Axes /\ "namespace_mode" \in RankedAxes
  BY AxisNames DEF RankedAxes
<1>6. ASSUME NEW axis \in {"context_mode", "namespace_mode"}
      PROVE  /\ Mode(c, axis) = "block" => Mode(d, axis) = "block"
             /\ Mode(new, axis) = "block" => Mode(d, axis) = "block"
  <2>1. Mode(new, axis) = "block" => new.mode[axis] # "unset"
    BY BlockIsTop DEF Mode
  <2> QED  BY <1>4, <1>5, <2>1, BlockIsTop
<1>7. ListAtLeast(c.contexts, d.contexts, Mode(c, "context_mode"), Mode(d, "context_mode"))
  <2>1. /\ sys.contexts \in [ContextPatterns -> EntryModes] /\ old.contexts \in [ContextPatterns -> EntryModes]
        /\ new.contexts \in [ContextPatterns -> EntryModes]
    BY DEF Config
  <2>2. ListAtLeast(old.contexts, new.contexts, Mode(old, "context_mode"), Mode(new, "context_mode"))
    BY <1>3 DEF AtLeast
  <2>3. Mode(c, "context_mode") = "block" =>
          \A p \in ContextPatterns : ~(old.contexts[p] = "inherit" /\ new.contexts[p] = "confirm")
    BY DEF c
  <2> QED  BY <1>1, <1>2, <1>6, <2>1, <2>2, <2>3, MergedListKept
<1>8. ListAtLeast(c.clusters, d.clusters, Mode(c, "context_mode"), Mode(d, "context_mode"))
  <2>1. /\ sys.clusters \in [ServerPatterns -> EntryModes] /\ old.clusters \in [ServerPatterns -> EntryModes]
        /\ new.clusters \in [ServerPatterns -> EntryModes]
    BY DEF Config
  <2>2. ListAtLeast(old.clusters, new.clusters, Mode(old, "context_mode"), Mode(new, "context_mode"))
    BY <1>3 DEF AtLeast
  <2>3. Mode(c, "context_mode") = "block" =>
          \A p \in ServerPatterns : ~(old.clusters[p] = "inherit" /\ new.clusters[p] = "confirm")
    BY DEF c
  <2> QED  BY <1>1, <1>2, <1>6, <2>1, <2>2, <2>3, MergedListKept
<1>9. ListAtLeast(c.namespaces, d.namespaces, Mode(c, "namespace_mode"), Mode(d, "namespace_mode"))
  <2>1. /\ sys.namespaces \in [NamespacePatterns -> EntryModes]
        /\ old.namespaces \in [NamespacePatterns -> EntryModes]
        /\ new.namespaces \in [NamespacePatterns -> EntryModes]
    BY DEF Config
  <2>2. ListAtLeast(old.namespaces, new.namespaces, Mode(old, "namespace_mode"), Mode(new, "namespace_mode"))
    BY <1>3 DEF AtLeast
  <2>3. Mode(c, "namespace_mode") = "block" =>
          \A p \in NamespacePatterns : ~(old.namespaces[p] = "inherit" /\ new.namespaces[p] = "confirm")
    BY DEF c
  <2> QED  BY <1>1, <1>2, <1>6, <2>1, <2>2, <2>3, MergedListKept
<1>10. \A p \in ActorPatterns, field \in {"context", "namespace"} :
         c.actors[p][field] = "block" => d.actors[p][field] = "block"
  <2>1. \A p \in ActorPatterns :
          /\ sys.actors[p].context \in EntryModes /\ sys.actors[p].namespace \in EntryModes
          /\ old.actors[p].context \in EntryModes /\ old.actors[p].namespace \in EntryModes
          /\ new.actors[p].context \in EntryModes /\ new.actors[p].namespace \in EntryModes
    BY DEF Config, Policies
  <2>2. \A p \in ActorPatterns :
          /\ old.actors[p].context = "block" => new.actors[p].context = "block"
          /\ old.actors[p].namespace = "block" => new.actors[p].namespace = "block"
    BY <1>3 DEF AtLeast
  <2>3. \A x, y, z \in EntryModes : (y = "block" => z = "block") =>
          (StrictestEntry(x, y) = "block" => StrictestEntry(x, z) = "block")
    BY EntryRaises
  <2> QED  BY <1>1, <1>2, <2>1, <2>2, <2>3
<1>11. \A switch \in {"read_only", "block_impersonation", "strict_config_perms"} : On(c, switch) => On(d, switch)
  BY <1>1, <1>2, <1>3 DEF On, AtLeast
<1>12. IsSensitiveVerb(c, m.verb) => IsSensitiveVerb(d, m.verb)
  BY <1>1, <1>2 DEF IsSensitiveVerb
<1>13. /\ Classified(c, m.verb) = "altering" => Classified(d, m.verb) = "altering"
       /\ Classified(d, m.verb) = "safe" => Classified(c, m.verb) = "safe"
  <2>1. Dangerous(sys, old) \subseteq Dangerous(sys, new)
    BY DEF Dangerous, NoWeaker
  <2> QED  BY <1>1, <1>2, <2>1, ClassifiedIs
<1>14. c.resources \subseteq d.resources /\ c.kinds \subseteq d.kinds
  BY <1>1, <1>2 DEF NoWeaker
<1>15. \A axis \in RankedAxes : Rank(axis, Mode(c, axis)) <= Rank(axis, Mode(d, axis))
  BY <1>4 DEF RankedAxes
<1>16. AtLeast(c, d, m)
  BY <1>7, <1>8, <1>9, <1>10, <1>11, <1>12, <1>13, <1>14, <1>15, Zenon DEF AtLeast
<1> QED  BY <1>16 DEF c, d

\* A change of the user's file that WeakensProtection (weakening.go) does not
\* report makes no command line's verdict milder, whatever the system's file
\* says, but for the excuses and for an entry detached from the system's mode.
THEOREM SilentEditsHold == Spec => SilentEditsKeep
<1>1. TypeInv /\ TypeInv' /\ [Next]_vars =>
        [LET old == Now  new == Now' IN
         Unreported /\ ~SomeDetached => \A m \in Commands : Kept(ruling[m], ruling'[m], old, new, m)]_vars
  <2> SUFFICES ASSUME TypeInv, TypeInv', Next, Unreported, ~SomeDetached, NEW m \in Commands
               PROVE  Kept(ruling[m], ruling'[m], Now, Now', m)
    BY Zenon
  <2>1. /\ user \in Config /\ user' \in Config /\ system \in Config /\ TypeOK
        /\ baseline \in {"absent", "advisory", "enforced"}
    BY DEF TypeInv, TypeOK
  <2>2. UserCommand \/ UserEdit \/ SystemEdit
    BY DEF Next
  <2>3. /\ baseline' = baseline /\ system' = system
        /\ NoWeaker(user, user') /\ user'.sensitive = user.sensitive
        /\ On(user, "strict_config_perms") = On(user', "strict_config_perms")
    BY <2>1, NothingReported DEF Unreported
  <2>4. AtLeast(Now, Now', m)
    <3>1. Now = Effective(baseline, system, user) /\ Now' = Effective(baseline, system, user')
      BY <2>3 DEF Now
    <3>2. CASE baseline = "absent"
      <4>1. Now = user /\ Now' = user'
        BY <3>1, <3>2 DEF Effective
      <4>2. AtLeast(user, user', m)
        BY <2>1, <2>3, UnreportedStays
      <4> QED  BY <4>1, <4>2
    <3>3. CASE baseline # "absent"
      <4>1. \A axis \in Axes : user.mode[axis] # "unset" => user'.mode[axis] # "unset"
        BY <2>1, <2>2, NothingUnset
      <4>2. /\ DOMAIN user.contexts = ContextPatterns /\ DOMAIN user.clusters = ServerPatterns
            /\ DOMAIN user.namespaces = NamespacePatterns
        BY <2>1 DEF Config
      <4>3. Mode(Now, "context_mode") = "block" =>
              /\ \A p \in ContextPatterns : ~(user.contexts[p] = "inherit" /\ user'.contexts[p] = "confirm")
              /\ \A p \in ServerPatterns : ~(user.clusters[p] = "inherit" /\ user'.clusters[p] = "confirm")
        BY <4>2 DEF SomeDetached, Detached
      <4>4. Mode(Now, "namespace_mode") = "block" =>
              \A p \in NamespacePatterns : ~(user.namespaces[p] = "inherit" /\ user'.namespaces[p] = "confirm")
        BY <4>2 DEF SomeDetached, Detached
      <4>5. baseline \in {"advisory", "enforced"}
        BY <2>1, <3>3
      <4>6. AtLeast(Effective(baseline, system, user), Effective(baseline, system, user'), m)
        BY <2>1, <2>3, <3>1, <4>1, <4>3, <4>4, <4>5, MergeStays
      <4> QED  BY <3>1, <4>6
    <3> QED  BY <3>2, <3>3
  <2>5. m.context = "" => m.server = ""
    BY LayersAssumption
  <2>6. ruling[m] = Check(Now, m) /\ ruling'[m] = Check(Now', m)
    BY DEF TypeInv, Judged
  <2>7. Kept(Check(Now, m), Check(Now', m), Now, Now', m)
    BY <2>4, <2>5, VerdictKept, Zenon
  <2> QED  BY <2>6, <2>7
<1> QED  BY <1>1, TypesHold, PTL DEF Spec, SilentEditsKeep
=================================================================================
