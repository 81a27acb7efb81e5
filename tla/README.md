# A TLA+ verification of kubectl-guard

kubectl-guard is a command-line program that stands in front of `kubectl`. It decides for every
invocation whether the command runs, is refused, or needs a human, and keeps a tamper-evident log
of what it decided. Each invocation is a process of its own; what processes share are files: the
config, the approval requests, the enrolment for approvals, the audit log and its archives. There
is no daemon and, apart from the audit log's, no lock. Its hard behaviour is therefore what
happens when processes meet at files, are killed between two system calls, or wait for a human
while the world changes.

## 1. Inventory

| Component | State | Operations | Interacts with |
|---|---|---|---|
| Request store (`approval/store.go`) | `~/.kubectl-guard/approvals/<id>.json`, `<id>.json.consumed` | Create (prune, temp file, rename), Load, PruneExpired, Claim (rename, read, remove) | other processes, editors, clock |
| One-shot approval (`main.go` runApprove, relay branch of runGuard; `approval/auth.go`, `state.go`, `target.go`) | `approval.json` (enrolment) | relay, `approve <id>`, `approval setup` | request store, decision engine, sudo/PAM, kubeconfig, audit log |
| Interactive confirmation (`main.go` runGuard, `ui/prompt.go`) | one process, two goroutines, a signal channel, a CAS word | ask, time out, interrupt, justify, run | operator, signals, audit log |
| Audit log (`guard/audit.go`, `lock_unix.go`) | `<log>`, `<log>.1..n`, `<log>.lock` | append, rotate, verify | every process |
| Config file (`config/config.go`, `main.go` saveConfig, runFreeze) | `config.yaml` | load, edit, compare, confirm, record, replace; bootstrap | operators, guards, audit log |
| Weakening classifier (`config/weakening.go`) | none | WeakensProtection(old, new) | config file |
| Layered config (`config/layered.go`) | system and user layer | LoadEffective, Merge | decision engine |
| Decision engine (`guard/guard.go`, `blastradius.go`, `sensitivekind.go`, `context.go`) | none | checkWithResolvers | layered config, kubeconfig |
| Guard invocation (`main.go` run, runGuard, runBypass, auditRefusedBypass, execKubectl; `config/layered.go` EnforcedSystemConfig) | one process | refuse or take the bypass, decide, set up, dispatch on the verdict, start kubectl | everything above, signals, both config files |
| Output redaction (`main.go` runRedactedGet, `guard/redact_output.go`) | a child, a pipe, two goroutines, a decoder | start, decode, blank, fail open, forward signals, end with the child's status | invocation, kubectl, terminal |
| Short-name discovery (`guard/apiresources.go`) | `.kubectl-guard-api-resources.cache`, one cache file for all guards | read, ask kubectl under a deadline, stamp, replace | decision engine, other guards, kubectl and what it leaves behind |
| Command classification (`guard/commands.go`), validation, globs | tables | pure | decision engine, config |
| Audit sinks, explain, doctor, completion, shim, wizard | none to speak of | best effort, read-only, or one-off | – |

**What is hard.** (a) *Interleavings on files*: two approvals of one request, a prune against a
claim, two appends across a rotation, two config edits. (b) *Checks that go stale during a
prompt*: sudo, target, policy, request and clock may change while PAM or an operator waits, and so
may the config file that saveConfig has compared. (c) *Kills* between a rename and a removal,
between a claim and an exec, or in a rotation. (d) *Two goroutines*: a signal that races the
answer. (e) *Partial failures*: a log that takes no entry, a write cut short. (f) *Ends*: nobody
may wait for ever on a lock, a channel, a pipe, a descendant of kubectl that holds one, or a signal
that nobody looks at. (g) *Streams*: what the decoder has read ahead when a document turns out not
to parse.

**What makes each component correct.** Store: a request is taken by one process at most, in time,
and nobody touches another request. Approval: what runs was reviewed, unedited, approved by a
human, against the same target, and recorded first. Confirmation: one verdict, and the log, the
verdict and the fate of kubectl agree. Audit log: archives and log are one sequence of intact
chains; success means stored; and where a failed call breaks that, nothing else is hurt. Config: weakening a gated config is confirmed and recorded.
Layers: merging only adds protection. Decision: a fixed order of checks in which stricter layers
or modes do not make a command run that was stopped. Invocation: every way to kubectl is a decision
that was logged as what it was; no way leads around an enforced system config. Redaction: the read
is complete, blanked where it parses, and ends as kubectl does. Discovery: the map is of the right
cluster and fresh enough, and nobody waits for it for ever.

## 2. Modules

| Module | Models | State and actions against the code |
|---|---|---|
| `ApprovalStore` | the request directory | `pending[r]`, `temp[r]`, `taken[r]` are the three names a request can have on disk; `WriteTemp`, `Publish`, `TakeAway`, `RemoveTaken`, `Prune`, `DropIfExpired` are Create, Claim, PruneExpired and the removal in loadRequestFile, one system call each. `Accepts` is loadRequestFile's verdict. |
| `Approval` | the processes on it | One action per call of runGuard's relay branch (`Relay...`), runApprove (`Begin` ... `Exec`) and runApprovalCommand (`Setup...`); `World` is kubeconfig, policy, sudoers, disk, enrolment, an editor, the clock; `Crash` kills. A site is what captureApprovalTarget hashes (server, kubeconfig, kubectl, config). |
| `OneShotApproval` | the promise | Per request: none, open, held or spent; holders; at most one grant. `Approval!ImplementsOneShot` maps files and processes to it. |
| `ApprovalProofs`, `ApproveProofs` | – | Theorems about `Approval` (section 5). |
| `GuardRun` | one invocation | `stage` is where runGuard is, one action per branch of run and runGuard: `Enter`, `Refused` and `Bypass` are the escape hatch and its refusal, `Check` the one call of guard.Check with its verdict chosen by what the two files allow (why it is that one is `Decision`'s matter), `Save`, `HeadlessDeny`, `OpenWizard` the SetupRequired branch, `RefuseYes` ... `OpenPrompt` the RequireConfirmation branch up to the prompt, `Allowed` and `Exec` the rest. `Confirm` and `RedactedGet` are stages of it, by INSTANCE: they share the process, the signal handler and the log, and `Confirm`'s `mode` is an expression of the config and the arguments. `ChangeFiles` is the world, `Killed` a signal while no handler is installed. |
| `GuardRunProofs`, `GuardReadProofs` | – | Theorems about `GuardRun` (section 5); the second about its redacted read and its types. |
| `RedactedGet` | a get or list whose output is blanked | `sent`, `taken` and `settled` count the chunks that kubectl wrote, the guard read and the guard is done with; `Decode`, `Emit`, `Flush`, `Copy` are the JSON and YAML streams with the decoder's read-ahead, `Forward` the goroutine that passes signals on, `Start`, `Wait`, `Exit` the child. |
| `ShortNames` | the discovery cache | `pc[g]` is where a guard is in DiscoverShortNames, `since[g]` the start of the timer that runs: the context's deadline, then WaitDelay. `Linger` is a descendant that keeps the pipe. `Publish` renames over the shared file. |
| `Confirm` | the RequireConfirmation prompt | `main` and `watcher` are the program counters of the two goroutines of runGuard, `decided` the CAS word, `buffered`/`closed`/`notified` the channels and signal.Notify; one action per statement that another goroutine or a signal can come between. Checked as a stage of `GuardRun`. |
| `AuditTrail`, `AuditLog` | the log | `AuditTrail` is the promise: entries in order, each once, removed in blocks only. `AuditLog` has one action per system call of appendAuditFile and rotateAudit under the flock, and each call whose error the code drops (Stat, Glob, Remove, Rename, the read of the last line) may fail: the writer goes on (`Slip`), and `slips[w]` and `clobbered` keep what failed and what a rename then replaced. Hashes are ideal: an entry's hash is its writer's name. Lines count for bytes. |
| `ConfigStore` | edits of the config file | A config is the set of protections it switches on, and `Losses` (WeakensProtection) the difference. `Compare`, `Approve`, `Decline`, `Record` are saveConfig; `LoadAndEdit` is mutateConfig and the subcommands of its shape; `BuildFresh` init and setup; `Bootstrap` the SetupRequired branch; `WriteTemp`, `Rename` are Save. |
| `Policy` | what a config says | A config is a record: lists of patterns as functions to modes ("none" if not listed), ten graded settings as one function (`mode`, weakest value first in `Order`), switches as a set. `Effective`, `Merge` and the `Merged...` operators are layered.go; `Weakens` is WeakensProtection, `Strictest`, `EffectiveMode`, `ActorBlocks` the mode resolution of config.go. |
| `Decision` | the verdict on a command | A command is the record of what ParseArgs and the resolvers find out. `Check` is checkWithResolvers, early return by early return; `Astray` the context that cannot be told, `Gate` the unified gate at its end. Resolvers are answered by the record: a server or namespace that cannot be looked up is `""`; a pod whose service account cannot be read counts as no pod. One verb stands for each class that the code tells apart, and `plugin` for an unknown one. |
| `Layers` | two layers under edits | `system`, `user`, and one action per kind of `config` subcommand, whose `Save` is saveConfig's comparison and the write; editors change either file. `ruling` keeps the verdicts, `agreed` the last user config whose weakening was announced. A subcommand writes the defaults that loading filled in (`Filled`). |
| `AuditLogProofs`, `ConfigStoreProofs`, `LayersProofs`, `ShortNamesProofs` | – | Theorems about `AuditLog`, `ConfigStore`, `Layers` with `Policy` and `Decision`, and `ShortNames` (section 5). |
| `MCApproval`, `MCGuardRun`, `MCRedactedGet`, `MCShortNames`, `MCAuditLog`, `MCConfigStore`, `MCLayers` | – | constants and symmetry for TLC. |

Definitions whose comment begins with "Faulty variant of" are not part of a specification; each is
a plausible bug, and the property it is paired with in `PROJECT.json` detects it.

## 3. Runs, bounds and what they show

* `approval_race` (`MCApproval.cfg`): one request, two approvers, two sites which are two
  contexts, lifetime 1 tick, two *upsets* (each a change of the world or a kill). Two approvers are
  enough for a race, since a third meets the same absent file; an upset before and one after PAM
  cover a change and its reversal, or a change and a kill. `AtMostOnce`, `ExecutedAsReviewed`,
  `UneditedRequest`, `InTime`, `RecordedFirst` and `EveryApprovalAccounted` hold.
* `approval_files`: two requests, an approver and an enroller, one upset. `HumanApproved`: a
  command runs only for an approver whom PAM asked, although sudoers may change; an approver
  whose window between probe and sudo was hit is excepted, as the code cannot see it.
  `OnlyHumansConsume`: no request disappears but by expiry or an authenticated approver.
* `approval_live`: under fairness the system implements `OneShotApproval`, and an approver who
  authenticated reaches an end that is executed or accounted for.
* `guard_run`: one invocation from `main()` to its end, from any pair of config files, with two
  changes of them, every verdict, all combinations of the config and argument fields that the
  verdict's branch looks at, three signals (the buffer holds one, so three fill it, overflow it and
  come after `signal.Stop`), a pipe that holds one chunk, JSON of one document and YAML of up to
  three, sound, malformed or cut short, and a kubectl that may fail at any time and may hang when it
  has written everything. Outputs of three and four chunks let kubectl wait for room in a pipe that
  nobody reads. Two changes let a file come and go between two looks at it.
  `OneVerdict`: however it ends, one entry, which says what happened. `RunsAsDecided`: every way to
  kubectl is one the dispatch has, with what it asks for. `FloorDecides`: under an enforced or
  unreadable system file neither bypass nor setup nor a broken user file starts anything.
  `InterruptedNeverRuns`, `ReadIsFaithful`, `Ends` and `CaughtSignalActs` are about the two stages
  that have goroutines of their own.
* `short_names`: two guards, two clusters, a cache that lives one tick, a deadline and a WaitDelay
  of one tick, six moments, one upset. Two guards overwrite each other's map; six moments let a
  map be gathered as slowly as the timers allow, published late, and read at the end of its life.
  `FreshEnough` is what the comment on the lifetime promises, with what the timers add, and
  `DiscoveryEnds` that a hanging kubectl or descendant never keeps a guard.
* `audit_log`: three writers, files of one line, at most two archives, two upsets. Three writers
  are what it takes to fill both archives and evict; files grow to several lines while rotation is
  off (`audit_max_files` starts at 0, 1 or 2 and can change), and one initial state has a line
  from before the chain. An upset is a kill, a short write, an error, a change of
  `audit_max_files`, or a failed call that the code does not notice; two of them are a failed
  removal or rename and the kill, or the second failure, that meets what it left behind.
  `ChainsIntact`: every line that VerifyAuditLog objects to is one that a short write spoiled, or
  one of a writer that could not read the last line. `SuccessIsStored`: an entry whose append
  returned nil is gone only with an archive that retention removed or that a rename replaced after an
  earlier call of the same rotation had failed, but for one entry per short write.
  `RetentionHolds`: a rotation that could remove what it had to leaves no more than
  `audit_max_files`, whatever the rotations before it left. Without any one of these exceptions TLC
  finds a violation: they are what dropping the errors costs.
* `config_store`: two editors with any two commands from any config, two upsets. Overtaking needs
  two editors; a third repeats what the second does.

* `layers`: thirty command lines, chosen so that each guard of `Check` decides one of them; two
  files to begin with, one that asks and one that refuses, in every combination and without a
  system; two edits, so that each setting is changed against each other one and an announcement
  can be evaded in two steps. Each verdict and its predecessor are compared.
  `Floor`: under a system, no verdict is milder than under the system alone; `UserKept`: nor
  milder than what the user's file asks for outright. `SilentEditsKeep`: an edit that
  WeakensProtection does not report makes no verdict milder, unless it detaches an entry from a
  mode that the system's file gives (`Detached`, below). `NoCreep`: nor do two such edits lose
  what one would have reported. `TrailKept`: the user takes nothing from the system's audit
  trail. `BlockIsFinal`: the policies that block everywhere do, before or after reclassification,
  in a pod or out.

The floor and the silent edits have exceptions, which the model names and the properties excuse
(`Excused`); each is a way for a config that is stricter in every setting to be milder on a
command:

* `Reclassified`: a dangerous override takes an unknown verb out of `unknown_verb`, which turns deny
  into confirm (see `layers_dangerous`).
* `Rehearsed`: and, since only altering verbs have dry runs, lets a `--dry-run` of it pass.
* `Renamed`: actor_policies go by a name that the user's layer may set (the config field is
  documented as an identity, not a protection).
* `Rerouted`: protected contexts, or in_cluster, decide whether the pod's own namespace or `default`
  stands for one that is not given; one of them may be protected and the other not.
* `Shadowed`: an unprotected namespace that a command runs in contributes the global
  `namespace_mode` when the command also names a protected one; an entry `confirm` for it replaces
  that mode. (guard.go's comment on effectiveNamespaceModeForTarget describes the opposite.)
* A config that Validate rejects denies everything; a user's valid value can mask a system's typo.

And three of the classifier: `confirm_mode` goes from type-name to simple by way of agent-relay without
a report, and `sensitive_verbs` and `strict_config_perms` are not compared at all, which only an
editor can change. `Detached`: saveConfig compares the user's file before and after, and resolves an
entry without a mode by that file's own mode; where the system's `context_mode: block` made the entry
block, `config add-context prod --mode confirm` turns it into a question unreported and ungated.
A user's retention can undercut that of a system that is not enforced.

Four runs find a disagreement between the code and what its text says:

* `approval_justify`: of a policy that changes during the PAM prompt, require_justification is not
  looked at again, though the comment says that policy changes during the prompt fail closed.
* `config_lost_update`: saveConfig compares before the prompt and replaces after it, so what
  another command switched on in between (a freeze, or the gate itself) is lost unasked and
  unrecorded. `GateHolds`, `RecordedBefore` and `OnlyItsOwn` show that this overlap is the only way.

* `layers_dangerous`: a user who calls an unknown verb dangerous is asked where the system alone
  refuses, though layered.go says that "a dangerous override only ever tightens".
* `redact_watch`: qualifiesForOutputRedaction takes `-w` and `--watch` for a watch, but not
  `--watch-only`; the JSON decoder then stops after the first event, the rest is not delivered and
  kubectl blocks, though redact_output.go says "never dropping the user's read is more important
  than guaranteeing a blank". `ReadIsFaithful` holds for a get that ends, but for the exception
  that redactYAMLStream names (a malformed document after a good one).

Three more deviations are plain in the code and have no run: a kill in Claim leaves
`<id>.json.consumed` behind although README says that a request "is removed on expiry or
consumption" (it cannot be replayed; `approval_race` covers it); a signal after `signal.Stop` kills
the process of a command that was just approved, before kubectl; and the key of an ambient command in
the short-name cache does not change with `kubectl config use-context`.

All passing runs say `CHECK_DEADLOCK FALSE`: every process ends and the system then rightly stops.
Temporal runs use no symmetry; `approval_race`, `approval_files` and `config_store` permute
interchangeable processes (and requests), which no property or constant tells apart.

## 4. Fairness

* `Approval`: a process that started takes its next step (the code has no wait other than PAM, which
  ends with success or failure); nothing is assumed of the world.
* `GuardRun`: the one goroutine outside of the prompt and the read (`Deciding`), the asking and the
  watching goroutine, the streaming and the forwarding one are each weakly fair, since the Go
  scheduler runs what can run. kubectl writes while there is room in the pipe and ends when it has
  written everything, unless it is one that hangs (`hangs`, a choice of each output); that it fails
  (`ChildFail`) is possible and never forced, so that nothing frees a kubectl which waits in
  write(2) on a full pipe. The preview at the prompt is a kubectl without a deadline, and its end is
  not fair either. The operator need not answer: an answer is fair only when
  `confirm_timeout_seconds` bounds it, and the wizard is not. `Ends` therefore excepts an operator's
  turn (`OperatorsTurn`), a kubectl that takes its time for a preview or hangs (`KubectlsTurn`), and
  the deadlock over a full pipe when the guard's own stdout has failed and it waits for the child
  without reading (`PipeFull`). Each exception is needed: without it TLC finds the behaviour. A
  pipe that fills for any other reason is a violation. `CaughtSignalActs` has none of these: a
  signal gets an invocation out of all of them but the wizard, where none is caught.
  Before the verdict the code reads the kubeconfig itself; the kubectl calls under
  KUBECTL_GUARD_LEGACY_CONTEXT, local lookups without a deadline, are part of `Check` or of the wizard
  and taken to end, and so is discovery, of which `DiscoveryEnds` shows it.
* `ShortNames`: a guard's own steps are weakly fair. kubectl and its descendants need not answer or
  end. Time is strongly fair: the guards' readings of the clock disable it again and again, and it
  passes regardless.
* `AuditLog`: writers are scheduled and a kill releases the flock; weak fairness suffices for
  `Acquire` because a finite number of writers take the lock once each.
* `ConfigStore`, `Layers`: none; no property of theirs is about progress.

## 5. Proofs

All theorems hold for any sets and bounds that the named assumptions admit, and every leaf is
checked by TLAPS. The assumptions say little:

* `StoreAssumption`, `ApprovalAssumption`: process names are disjoint, "no file" is not a file, and
  what the constants are.
* `AuditAssumption`, `ConfigAssumption`, `ShortNamesAssumption`: bounds are numbers, `None` is none of
  the values it stands beside, and there is a cluster to ask (`Keys`).
* `GuardRunAssumption`: bounds are numbers, the pipe holds something, and there is an output;
  under `-o json` kubectl writes a single value when it does not watch (`SingleValue`, the comment at
  redactJSONStream). Without that `ReadIsFaithful` is false, and a watch is where it fails
  (`redact_watch`).
* `PatternAssumption`, `LayersAssumption`: patterns and sinks are strings, and a command line is one
  that the parser can return (a verb other than its lead only behind a plugin's name, no server and
  no namespace of a context that does not resolve).

`ApprovalProofs`:

* `TypeCorrect`: `Spec => []TypeOK`. One lemma per group of actions (store, relay, approve, set-up,
  world, crash), on lemmas about the shared operators.
* `ApprovedAtMostOnce`: `Spec => []AtMostOnce`. AtMostOnce is not inductive: that two approvers do
  not both reach `exec` depends on where the file is. The invariant `OneTaker` says that the claim
  is exclusive: for each request at most one approver is past its rename, and while one is,
  the file is not pending and cannot be published again, because the guard process that files it
  has passed that step. `Filing` says which steps of that process mean it may still publish. Each
  action either leaves these alone (`Harmless`) or is the rename or the publication.

`ApproveProofs` proves the other safety properties of `Approval`, and the refinement:

* `RunsOnReviewedTarget`, `ApprovedInTime`, `RecordComesFirst`, `RefusalsAccounted` from one
  invariant of one approver, `Sound(a)`. The properties speak of an approver that is through;
  `Sound` says the same from the step on that establishes it: the deadline from the comparison in
  Claim, the human from PAM, the target from the second capture, with what `window` notes of the
  world since. Steps of others leave the approver's state and entries alone (`Untouched`); its own
  are gone through part by part (`OwnTime`, `OwnHuman`, ...).
* `HumansApprove`: the same and `Enrolling(e)` for `approval setup`.
* `EditsRejected`: needs to know where an edit shows. `Viewed(a)`: up to the claim in the pending
  file, after the rename in the file that was taken away. That nobody else overwrites or removes
  that one follows from `OneTaker`.
* `RequestsKept`: `KeptInv` ties every request file to what was published (`KeptFile`), so that what
  a prune or a load drops is expired or damaged, and what a claim takes has been authenticated for.
* `ImplementationHolds`: `Spec => ImplementsOneShot`, the refinement of `OneShotApproval`. What a
  request is to it (`StatusOf`) is read off three files and the place of an approver, so one lemma
  says which of them decide (`SameView`, `StatusIs`). The invariant is `OneTaker`, `Sound` and `Once`:
  an approver has not authenticated before it is asked and has when it claims, which is what makes
  every grant a new one. Then each step of the code is a step of the promise or shows in none of
  it: publication opens, PAM grants, the rename takes, exec runs, a prune, a failure or a crash
  voids (`RelayImplements`, `ApproveImplements`, `CrashImplements`, `OtherImplements`).

`GuardRunProofs`:

* `FloorHolds`: `Spec => []FloorDecides`. `FloorInv` follows the system file through the stages: while
  a file is still to be read, a floor that holds is the file itself; the bypass and setup are
  entered only without one; every stage before kubectl has the verdict that leads to it.
* `InterruptHolds`: `Spec => InterruptedNeverRuns`, an action property. `DecisionInv`: the asking
  goroutine is past its claim only if it won the compare-and-swap, and the winner never changes.
* `RunsHold`: `Spec => []RunsAsDecided`. `RunInv` adds to both what the log holds at each stage (no
  result before the place that writes one, and a letting one when kubectl is next), and that an
  approval and its justification were got before the asking goroutine goes on.
* `OneVerdictHolds`: `Spec => []OneVerdict`. `VerdictInv`: no second result contradicts the first
  (`Said`), an interrupted watcher that has yet to write finds nothing on record (`Awaited`), and
  wherever the process may end with a verdict that must be on record there is one (`Written`).

`GuardReadProofs`:

* `TypeCorrect`, and `ReadHolds`: `Spec => []ReadIsFaithful`, which speaks of the end of a read.
  `StepInv` says for each step what has become of the output so far: what is settled has been
  delivered in order, what the decoder has read ahead belongs to one document and begins where
  delivery stopped (`AtDecode`, `AtEmit`), what is put back after a complaint is that and no more
  (`AtFlush`, `AtCopy`), and nothing raw is out before something was spoiled (`RawInv`).

`AuditLogProofs`:

* `TypeCorrect`, with `LockInv`: exactly the writer that holds the flock is between its acquisition
  and its return. The other proofs rest on it, since nobody else touches a file in between.
* `RetentionKept`: `RoomInv`. While a rotation shifts, the place it shifts to is free and so is every
  place beyond the number of archives that it loaded: the first as long as no call of that rotation
  has failed, the second if no removal has. The property is its last stage.
* `ChainsVerify`: `ChainInv`. The tip that a writer read is still the last hash when it writes, or the
  writer is a misreader (`TipInv`); an unfinished last line means a short write; and every break of every
  file has one of the two excuses (`Explained`), which no step takes back (`MisreadGrows`). What
  appending does to the breaks of a file is said by positions and not by induction
  (`BreakBefore`, `ExplainedJoined`).
* `SuccessKept`: counts. A rename replaces an archive only where `RoomInv` says nothing, after a failed
  call, and what it replaces is then among the clobbered. `LossInv` sets the lost entries, and the one that an unfinished last line may
  still cost, against the writes cut short; `CutInv` says that such a line is of a failed append.

`ConfigStoreProofs`:

* `GateGuards`, `RecordFirst`, `OwnSettingOnly`, `InvalidStays`: action properties of a save, from one
  invariant `EditInv`: as long as nobody saved since an editor looked, the file is the one that it
  compared with and made its own from (`Knows`); what it has asked for and put on record is exactly
  what it is about to lose (`Asked`, `Recorded`). Somebody else's save ends the first (`overtaken`,
  `stale`), and that is the way of `config_lost_update`.

`ShortNamesProofs`:

* `NamesFresh`: `Spec => FreshEnough`. `Aging(g)` bounds the age of a map at each place on its way:
  each timer bounds one stretch, and the stamp is read at once; `CacheInv` is what the file then
  says. Twice the timeout is what they add up to.

`LayersProofs`:

* `TypeCorrect`, with `TypeInv`: the verdicts kept in `ruling` are those of the effective config, so
  that the properties can be proved of operators.
* `BlocksHold`, `TrailHolds`: case by case over the early returns of `Check`, and field by field over
  `Effective` (`MergedModes`).
* `NothingCreeps`: an edit that is announced starts over, one that is not keeps `NoWeaker` with the last
  one that was. `NoWeaker` is transitive (`NoWeakerCarries`), as grades are numbers and
  no pattern leaves a list, and it survives the defaults that loading fills in (`NoWeakerFilled`).
* `FloorHolds`, `UserHolds`, `SilentEditsHold`: one argument, used three times. `AtLeast(c, d, m)`
  compares two configs setting by setting. `VerdictKept`: if it holds and none of the named
  exceptions applies, the verdict on `m` under `d` is at least as strong as under `c`; it is proved
  along the early returns (`TargetsKept`, `AstrayKept`, `GateKept`). The rest is that the merge is at
  least the system's (`SystemAtLeast`), at least what the user's file says outright (`UserAtLeast`), and
  that an unreported edit of one layer carries over to the merge (`UnreportedStays`, `MergeStays`).
  For all pairs of configs, then, the exceptions that the properties name are all there are.

The proofs changed the models and found what the bounded runs had not:

* `SilentEditsKeep` was false as it stood. TLC had not met the case, for want of a system whose mode
  alone decides an entry of the user's; `MCLayers` now has one, and the property names the exception
  (`Detached`).
* `WeakerList` now compares ranks in the scale that weakening.go uses for all lists (`Grade`).
* Two CASEs of `Policy` and one of `Approval` overlapped, and TLC's order had picked the branch.
* `ReadIsFaithful`, and `TypeOK` of `ShortNames`, need the assumptions `SingleValue` and `Keys # {}`,
  which the small instances met without saying so.

Model-checked only, and why:

* `ImplementsTrail` of `AuditLog`: what its mapping computes from the archives is a fold over a
  sequence, and takes induction over data.
* Liveness under fairness: `AuthenticatedRunEnds`, `AppendEnds`, `Ends`, `CaughtSignalActs`,
  `DiscoveryEnds`.
* The properties of the violation runs, which are false.

## 6. What is not in the models

* Time of check to time of use beyond the second capture: kubectl reads its own kubeconfig after
  exec. Contexts are compared by name; if the kubeconfig switches back and forth five times, a
  request can be bound to the site of one context and the name of another. `ExecutedAsReviewed`
  is about sites.
* Commands with local input (`-f`, stdin) never become requests (unsupportedApprovalInput), so
  their contents are not part of a request.
* Secure ownership and modes of directories (`secure.go`), the formats of files, hashing.
* An audit append inside `Approval`, `GuardRun` and `ConfigStore` is one step that succeeds or not;
  `AuditLog` has its insides. In `GuardRun` audit mode `none` stands for a failing append too.
* In `GuardRun`: LoadEffective reads both files in one step; files that are not read again are
  forgotten; agent-relay is one step (`Approval` has its steps); a bypass leaves an entry under the
  user's config only, as in the code; "gated" auditing is told apart from "all" for allowed commands
  only. KUBECTL_GUARD_CONFIG and the other variables that pick files are not modelled.
* In `Policy`: `Valid` looks at the ten graded settings only; the rest of what Validate rejects (a
  malformed URL, an empty name, an unknown override) has no counterpart in the records. `AddEntry` is
  the add- commands with and without `--mode`; an explicit `-` makes an entry inherit again.
* In `RedactedGet`: which fields of a document are blanked, and the bytes inside a chunk. In
  `ShortNames`: what a map says, kubectl's own `--cached` discovery, and a clock that is set back.
* The components with status `not_modelled` in `PROJECT.json`, with reasons: best-effort sinks,
  read-only reports, one-off file operations, a terminal user interface, and stubs.

## 7. Plan

1. `ApprovalStore`, `Approval`, `OneShotApproval`, `ApprovalProofs`, `ApproveProofs` – done.
2. `Confirm`, `AuditLog`/`AuditTrail`, `ConfigStore` – done.
3. `Policy`, `Decision`, `Layers` – done.
4. `GuardRun`, `RedactedGet`, `ShortNames`, `GuardRunProofs` – done.
5. `AuditLogProofs`, `ConfigStoreProofs`, `ShortNamesProofs`, `GuardReadProofs`, `LayersProofs`, and the
   refinement of `OneShotApproval` in `ApproveProofs` – done.
6. Still worth proving: `Spec => ImplementsTrail` of `AuditLog` one file at a time, without the fold,
   which needs `EntryHashes` to be stated without a recursive definition; that `Merge` and
   `Effective` are idempotent and never loosen a third config; and that `DangerousOnlyTightens` holds
   when no verb is unknown, so that the counterexample of `layers_dangerous` is the only one.
