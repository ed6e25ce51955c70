# Verification of proxyscene

TLA+ models of the manager in `src/`, checked with TLC, with proofs checked by TLAPS.
proxyscene runs an Xray core on a Linux host and attaches "scenes" to it: the global scene
(proxy variables in `/etc`), the development scene (git and npm of a user) and the Telegram
scene (gateway services of Hermes and OpenClaw). The manager is a command, not a daemon: a
command takes three file locks, changes files and systemd units, and exits. Everything hard
about it comes from that: it may be killed between any two system calls, an administrator
and systemd go on meanwhile, and the next command has only what is on disk.

## The system

| Component | State it keeps | Operations | Interacts with |
|---|---|---|---|
| Runtime transaction coordinator (`runtime_transition*.go`) | `runtime-transition.json`, `state.json` and its backup, their claims | plan, record, execute step by step, commit, compensate in reverse, recover | every scene and the core, as steps; `proxyscene recover` and `boot-restore` call it |
| File compare-and-swap (`global_journal.go`) | a file and its quarantine name | write, remove | store files, global files, core files |
| Global scene | two files in `/etc`, a journal with a backup | apply, release, compensate | coordinator (receipt), compare-and-swap |
| Core runtime (`runtime_core*.go`, `systemd.go`) | configuration, unit, access of the service account, `core-loaded.json` | plan, apply, compensate | systemd, coordinator, compare-and-swap |
| Store (`store.go`) | `state.json`, generation | load with fallback, save | everything |
| Development scene (`dev*.go`) | a backup per user, git and npm settings | apply, restore, resumable rollback | user-file compare-and-swap, coordinator |
| Telegram scene (`telegram_*.go`, `openclaw*.go`) | a journal per target, drop-ins, an OpenClaw JSON | prepare, reload, restart, commit, release | systemd (system and user), coordinator |
| systemd restart supervision (`systemd_restart.go`) | none | bounded wait, unsettled outcome | Telegram scene, coordinator |
| User-file compare-and-swap (`util.go`) | a file in a home directory and its quarantine | write, remove | development scene, OpenClaw |
| Locks and ownership (`ownership.go`, `store.go`) | three locks, two ownership records | acquire in order, inherit from the installer | everything |
| Installer (`install.sh`), self-update (`update*.go`) | replaced binaries and their backups | transactional replacement, hand-over | locks, coordinator |
| Mirror receiver (`scripts/mirror-receiver.py`) | published releases, metadata, `latest.json`, stages | sync, promote | GitHub releases |
| Nodes and subscriptions (`node.go`, `subscription*.go`) | nodes, their sources, the selections | import, update, adopt, delete, probe | store, coordinator |
| Rendering, menus, discovery, bundle scripts | none | translation, input and output | |

What is hard, and what would be correct:

* **Coordinator.** One state change touches several systems and two store files. A change is
  all or nothing under failures, kills and kills of the recovery; a route is attached only
  while the core serves it; a commit is never undone; a restart job nobody waits for is not
  disturbed; a store an administrator puts in place is not lost.
* **Compare-and-swap.** There is no atomic "replace if unchanged" for files. A foreign content
  is never lost, a success is real, nothing stays aside.
* **Global scene.** What the administrator had is given back, from whatever combination of
  journal copies, claims and receipt a kill has left.
* **Core.** The process that runs is the one that was planned, though systemd restarts it on
  its own; compensation knows whether it still owes a restart.
* **Hermes.** Several services, each with a drop-in, a journal entry, a loaded unit and a process:
  a change is all or nothing over all of them, an entry that says "active" is true, and nothing
  moves under a restart nobody waits for.
* **OpenClaw.** One value in a file the user and the gateways use too: a commit needs evidence that
  the gateway runs with the new file, or a restart, and what the user saves is never lost.
* **Development scene.** Lists of values of several users: a value a user has chosen is never lost,
  a failed change leaves them, as git and npm find them, as they were, and a resumed rollback recognises its own
  half done work.
* **User files.** As for system files, in a directory somebody else owns.
* **Locks, installer, self-update.** Nobody works on the host beside somebody else although the
  work changes hands from installer to manager; the binaries are all old or all new; no update
  goes back; nothing is on a host that is not recorded.
* **Mirror.** A published release is served, complete and durable; Latest never goes back.
* **Nodes and subscriptions.** Downloads and probes run without the lock: what is committed is a
  store the program accepts, results and selections stay with their connections, an update is
  exactly what was downloaded.
* **Restart supervision.** The wait is as long as systemd grants the restart, never overflowed.

## The models

### `RuntimeTransition` (`runtime_transition.go`, `runtime_transition_store.go`)

`pc`, `mem`, `seen` and `cas` are the process that holds the store lock; `file`, `quar` and `rec`
are durable. A part (a scene or the core) is external state. A scene's side (`route`) is off, half
done (`mixed`) or at a setup: its ports, its user, its targets. The core serves a configuration, with the
inbounds of every scene, or is `Broken` while its step is half done. A store image has the enabled scenes, the
settings and the `RuntimeConfig` (`conf`, a setup per scene); every command but a metadata edit can change
the last two, since `loadStore` merges the overrides of its environment. So a scene that stays enabled can be
part of a plan (`configChanged`), and is then attached again after the core. One action per durable step:
`Begin`, `Plan`, `Record`, `StepStart`/`StepRun`/`StepDone`/`StepFail`, `WriteCommitting`,
`Precommit`, `Save`, `CommitBackup`, `CommitCheck`, `CommitMain`, `Verify`, `Finalize`,
`Remove`; backwards `SettleMain`/`SettleBackup`, `Admit`, `RevertStart`/`RevertDone`/`RevertFail`,
`MarkRestored`, `FinishStore`, `UndoBackup`/`UndoAdmit`/`UndoMain`/`UndoVerify`; and
`Recover`/`Decide`. The record is written before the step it announces; a write fails before or
after its rename. The swap of a store file is opened into claim, take, publish and retire
(`Swap`), because an administrator may edit between them. `StepUnsettled` leaves a restart job
behind. A part that is killed or fails in the middle of its work may be left in a state that its own
restoration refuses for good (`stuck`): what these states are is the subject of the scenes' own modules.
The interrupted save among the initial states differs from main in its settings only, as a node selection
does; one that switches or moves a scene is pending, and has a record. `AtomicChange` is the abstract promise: an open change, one commit, and a close only when
exactly the saved value is served; the refinement mapping (`Saved`, `Serving`, `OpenChange`) is at
the end of the module, and the run checks `AbstractSpec` as a property.

### `CASOutcome`, `ArtifactCAS` (`global_journal.go:207-592`)

`ArtifactCAS` is one system call per action: read the claim, read the file, create, claim,
publish, restore, retire, for up to `MaxAttempts` attempts, with edits of others, failures
before and after the effect of a call, and kills anywhere. `CASOutcome` says in two functions
what a call comes to (`Final`) and what it may leave behind (`Passing`); `AsSpecified` checks
`ArtifactCAS` against them, and the two modules below use them for a whole call in a step.
In-place writes to a claimed inode are outside the model: others replace or delete names.

### `GlobalJournal` (`global_journal.go:594-1140`, `runtime_transition_resources.go:135-319`)

Two paths, the journal's two copies with generations, and the receipt of the transaction.
Apply: `Begin`, `Prepare`, `Save`/`SaveMain`, `Check`, `Write`, `Written`, save again. Release:
`Restore`, save, `Undo`, `Drop`. Compensation: `Compensate`, `CompWrite`, then `Drop` or a save
of the before-image. A swap is one step with CASOutcome's outcomes plus an administrator who
recreates a claimed file (`Contested`) and a kill in the middle. The outer commit is one step.
`user` and `past` are history variables: what the administrator last wrote, and what he had written
before. A deletion made while a claim
is in place may be undone, since the claim stands for the missing file; the property says so.
A journal left without a receipt is refused by `captureRuntimeGlobal`, so the continuation paths
of `prepareGlobalProxyJournal` are not reachable through the coordinator and are not modelled.

### `CoreRuntime` (`runtime_core*.go`, `systemd.go`)

`svc` is systemd's view: active, enabled, the loaded unit, a pending job, and the process with
the unit and configuration it was started from and its invocation. `applyCorePlan` and
`compensateCorePlan` are followed call by call; the plan with `pending`
(`RestoreServicePending`) is durable. The environment finishes jobs, restarts a process that
died, loses power, and edits. `NeedReload` is "the loaded unit is not the file" (the code asks
systemd, which compares modification times); a service in transition makes
`readCoreServiceState` fail; commands that time out leave a job; process proofs from `/proc` are
the condition that the process is the one seen. The administrator does not put an old content
back (no ABA).

### `HermesScene` (`telegram_journal.go`, `telegram_apply.go`, `runtime_transition_telegram.go`)

A target is a drop-in (`drop`), its claimed name (`quar`), what systemd has loaded, a process with
the environment it was started with, a possible job, and the unit. The plan prepares every
selected target in the journal, writes the drop-ins, reloads, restarts and commits; targets no
longer selected are released; a failure rolls back in the command and the coordinator compensates
afterwards. `Save` may fail before or after it took effect; the swap of a drop-in is one step with
CASOutcome's outcomes. Left out: targets protected from changes, the identity checks of user
services, drop-ins from before the journal.

### `OpenClaw` (`openclaw.go`, `telegram_openclaw_*.go`, `util.go`)

Here the file is exchanged call by call (`claim`, `file`), with the user and the gateways replacing
it at any moment; `Observable` gateways prove over RPC that they have applied the file and started
their channel with it, the others are restarted. The RPC is external and taken to tell the truth.
The replay, restoration and retirement of a claim are those of `util.go`.

### `DevScene` (`dev.go`, `scenes.go`, `runtime_transition_resources.go`)

Two users with a git key and an npm key. The backup holds originals, the managed addresses and per
key a plan that says how far a restoration has got; it is what takeover, apply, rollback, release,
handover and compensation work from. `mine`, `hand` and `race` are history variables for what the
users have chosen and when. One call of git or npm is a step that may fail before or after its
effect. A kill inside the exchange of a file leaves it `parked` under the user's one reserved name: npm keys
hidden so cannot be read, git keys read as empty (`Hidden`, `Readable`), and `file` is what the tools find. A kill
later in the exchange leaves only what was replaced (`Leftover`), and every later exchange of that user fails.
Both tools are installed; the lock
of other git processes and the metadata of files are left out; the outer commit is one step.

### `Releases`, `Mirror`, `Installer`, `Delivery`

`Releases` is GitHub: tags, Latest, notes. `Mirror` follows `sync` and `promote` rename by rename and
fsync by fsync; `durable` is the part of the tree that survives a loss of power. `Installer` has the
three locks, the transaction over three files in the order of `--offline`, its exit handler, the
initialization that inherits the locks, and the manager's commands that take the same locks.
`Delivery` composes them with the updater, which chooses and downloads without a lock. The online
installation runs the same transaction over another list of files. Two programs of one version
are one file. A manager that survives its killed installer goes on; the model ends the two together,
which differs only in when the locks are freed.

### `Nodes` (`node.go`, `subscription*.go`)

A link is a connection and a spelling. Commands: add, remove, use, import of a list, refresh of one
or all subscriptions from a snapshot, adoption by a subscription, probes and the choice of the
fastest. A command with a download or a probe has two critical sections; the other process runs
between them. An update is committed only to the generation and subscriptions it was made for
(`reconcileSubscriptions`, `Reconcile`). A list is the valid part of what a source delivers, which a first import
commits; a refresh with anything invalid or incomplete is refused (`validateSubscriptionRefresh`) and left out.
Identifiers are the least unused ones, which makes their reuse as likely as it can be. Names, parsing and the worker pool are left out. What goes over a
list in a loop is a recursive function here (`Only`, the nodes at some places; `Added`, the new nodes one
link after the other, by `WithLink`), so that it can be proved about.

### `RestartBudget` (`systemd_restart.go`)

The two sums of the wait budget in signed integers of any width. It has no run: it has no behaviour,
and the width of the code is beyond enumeration; it is proved instead.

## The runs

| Run | Instance | Question |
|---|---|---|
| `transition` | 2 scenes (one restarting), 2 settings, 2 configurations (one scene moves to another port, the other to other targets behind the same port), 2 commands, 2 kills, 1 failure, generations up to 4; about 2.80 million states | Is a change all or nothing, served, final, and never stuck for want of a generation? |
| `transition_edits` | 1 scene, 1 configuration, 1 command, 2 kills, 1 failure, 1 edit with four contents, under fairness; about 1.23 million states | Does a store put in place by an administrator survive, and is a record always resolved once failures stop? |
| `artifact_cas` | 3 contents, 3 calls of 5 kinds, 3 attempts, 2 kills, 1 failure, 3 edits | Is the swap safe, and is CASOutcome what it does? |
| `global_journal` | 2 administrator contents, 2 endpoints, 2 transactions, 1 kill, 1 failure, 2 edits, generations up to 9; about 3.76 million states | Do the originals and the journal survive? |
| `core_runtime` | 2 configurations, 2 units, 2 plans, one kill or power loss, one failure, one death of the process, one edit, at most three of them in a behaviour; about 2.81 million states | Is what runs what was planned, or what was there? |
| `core_recovery` | as above without failures and deaths; expected to be violated | Does recovery refuse only files somebody has edited? |
| `hermes` | 2 targets, 2 drop-in contents, 2 commands, 2 kills, 1 failure, 1 edit | Are journal, files, systemd and processes all or nothing together? |
| `openclaw` | 2 gateways, one observable, 2 proxies, 2 commands, 1 kill, 1 failure, 1 edit | Is a commit true, and is what the user saves kept? |
| `dev` | 2 users, 1 git and 1 npm key, 2 addresses, 2 commands, at most two of a kill, a failure and an edit; about 1.83 million states | Do the users' values survive, and does compensation recognise what was left? |
| `dev_handover` | as above; expected to be violated | Does an added value survive a failing handover? |
| `delivery` | 2 tags, 2 receivers, 2 processes, 3 commands, one change upstream, one failure, one kill or loss of power, at most four of them all in a behaviour; about 502 thousand states | Is what is published served, and is a host whole, owned, exclusive, and never set back? |
| `nodes` | 2 connections, one in two spellings, 2 subscriptions with lists up to 2, 2 processes, at most 3 nodes, 3 commands, 1 new edition; about 1.14 million states | Is every committed store valid, and about the connections it says? |

Why the bounds are enough. Two commands give every relation between a command and the leftovers
of another (stale claims, journals, receipts, generations); two kills give a kill of the recovery;
a kill and a failure give a failed compensation of an interrupted step. Two scenes, one of them restarting,
give every order of disabled, core, moved and enabled parts. The store starts in every shape an earlier
command leaves (equal copies, lost or damaged main, backup ahead, none). `MaxGen` is a bound of
the code's type, and is reached: the guard of `GenerationReserved` is exercised at it. Three
attempts stand for eight: an attempt depends only on whether it is the last. `CHECK_DEADLOCK
FALSE` is in the configurations whose behaviours end when the bounds on commands are used up
(the swap, the global scene, the core): a command-line tool may have nothing left to do.
`RuntimeTransition` has the explicit action `Rest` for this, so its deadlock check is on: a
process never gets stuck in the middle. `FewMishaps` and the symmetry of the two configurations
keep the core run small; both only leave out behaviours with four mishaps, or renamings. `FewEvents`
does the same for `dev` (two of kill, failure and edit in a behaviour; without it the instance has
5.4 million states and passes too) and for `delivery`. The larger instances of `nodes` that were run
besides (4 links and 2 commands; 4 commands on fewer initial stores and without new editions) pass
as well, and so do the instances of `openclaw` with three gateways or two edits on which its inductive invariant was
checked. Symmetric are only sets whose members the definitions treat alike: receivers, processes.

The state variables' types are theorems for the coordinator, the compare-and-swap, the global scene,
the core, the Hermes and OpenClaw scenes and the nodes; for the others the operator `TypeOK` of the module
(`MirrorTypeOK` and `HostTypeOK` for `Delivery`) was checked over the same instances and is kept out of the runs, whose properties are the ones that can be wrong.

Fairness (`transition_edits`, for `RecordIsResolved`). A command that was started runs on (`WF(Process)`: its steps
are a program's, and every wait in it has a timeout); a record is recovered
(`WF(Recover)`: `boot-restore` does it at every boot, and every changing command refuses and asks
for `proxyscene recover`); systemd finishes its jobs (its timeouts are finite, else
`systemdRestartBudget` refuses). Kills and failures are bounded, as any liveness needs. Two
things may keep a record for good, and the property names both: an edit, by design, and a part that its own
restoration refuses (`stuck`), which a kill or failure in the middle of the part's work can leave behind; what
follows says where that is so for the core, the development scene and the gateways. What is left to
the coordinator, its store files, claims, generations and restarts, never blocks a recovery.

## What the core recovery run shows

A core file is replaced by the same compare-and-swap as everything else, so a kill between the
claim and the publication leaves the name empty and the content in the quarantine. The other users
of the swap settle such claims before they compare. `compensateCorePlan` reads only the name, finds
neither the old nor the new content and refuses with "external modification detected"
(`runtime_core.go:580`), on this recovery and every later one, until somebody renames the
file back by hand, although nobody has edited anything. `README.md:446` describes `recover` as
restoring started steps in reverse unless there is a conflict. The same happens after a failed
directory sync in the gap. This is one of the ways in which a part is `stuck`
in `RuntimeTransition`, and the exception `RecordIsResolved` makes for it.

## What the other models show

* **A scene that moves.** When a port of an enabled scene is changed by the environment, the core is changed
  first and the scene's addresses afterwards (`runtime_transition.go:356-370`): in between they point at inbounds
  that are no longer there, and a command that is killed or fails in between leaves it so until recovery. No order of the two
  steps could avoid it. `AttachedIsServed` says of such a scene only that its plan is pending (`Moves`); an
  enabled scene that does not move, or moves its targets only, points at its inbounds throughout.
* **The global scene's release.** `restoreGlobalProxyJournal` computes the contents in which a file may
  be replaced (`global_journal.go:1086`) before it adopts the administrator's edit as the new original
  (lines 1098-1112), and uses the old set afterwards (line 1124). The original of before is still in
  it, so an administrator who edits a managed file and, while the scene is switched off, goes back to
  what he had before the scene loses that last write to the edit he has taken back. TLC finds this in
  one transaction with two edits when `OriginalsSurvive` is asked of every content. The property
  therefore speaks of a content the administrator has never had before: for those nothing is
  lost, and that is proved.
* **A handover that fails (`dev_handover`).** When the scene passes from one user to another and a
  call fails after the first mutation, `rejectNewOwnership` (`scenes.go:143-151`) writes the ownership
  loaded at the start back over the restoration plans on disk: a value the first user had added is
  lost, against `README.md:630`. Without an edit the same path leaves a key half restored, which
  compensation refuses for good. `RefusalHasACause` excepts it (`PassesOn`).
* **Finished plans that stay.** `compensateRuntimeDev` first completes a release that was
  cut short and then forgets its plans, in memory (`runtime_transition_resources.go:687-692`). If the user had
  edited every managed key before `dev off`, there was nothing to take away: the values are those of the
  before-image, the ownership in memory too (745), and nothing is written. The done plans stay on disk, the
  record goes, and `captureRuntimeDev` (440) refuses every later change of the scene. `RestIsClean` and
  `FailureIsUndone` except this case and no other: every key of that user was edited, else something is
  put back and the plans are overwritten on the way.
* **Back to the original in the middle of a command.** `runtimeDevGitAllowed` takes a key that has its
  original value for the release's doing. A user who had given the original up before (`Edited`) and
  returns to it during a failing command has it replaced by what he had in between. `OwnValuesKept`
  excepts it (`Mistaken`).
* **Refused though nobody edits (`EditedBefore`).** Compensation also refuses after a kill when a
  user's value stood next to the managed one before `dev off` (`runtime_transition_resources.go:702`),
  or when the user had put a key back by hand before it: the plan that is done then desires one
  value where the before-image has two (`runtime_transition_resources.go:659-662`).
* **Killed inside an exchange.** Hermes: a kill between the publication of a changed drop-in and the
  removal of its claim (`writeTelegramSystemArtifactCAS`) makes every recovery refuse
  (`telegram_journal.go:650-684`). OpenClaw: a kill between the claim and the publication of
  `openclaw.json` (`util.go:583`, `628`) leaves the file missing and its content under
  `.proxyscene-quarantine`; `compensateRuntimeOpenClaw` (`runtime_transition_telegram.go:501`) reads the
  file first and stops, so the replay in `util.go:649` is never reached; the same holds for a kill
  between the entries of two targets (`scenes.go:413`). A kill or failure while compensation retires
  the claim of its own exchange leaves that claim, and later changes are refused. npm: the
  file stays under its reserved name and every read in its place is refused (`readDevConfigAt`). git: nothing
  reads or replays the reserved name. A missing `~/.gitconfig` reads as no values (`dev.go:130-152`), so a
  recovery that wants none, as after `dev on` over keys that had none, closes the record as if all were done,
  while the user's whole file, perhaps with the manager's address in it, stays in `.proxyscene-quarantine`; over keys
  that had values it refuses for good as if somebody had edited them (`runtime_transition_resources.go:702-704`).
  `README.md:446` promises that
  `recover` restores started steps unless there is a conflict. The models of these scenes contain
  these outcomes: the properties are about states without a pending record, and are not weakened by
  a recovery that refuses.
* **Progress of a candidate taken for a compensation's (`Recovery`).** A compensation of the OpenClaw scene that finds
  an entry with the proxy it restores keeps the targets that are not pending: "Preserve progress from this exact
  compensation, not from a candidate apply" (`runtime_transition_telegram.go:545`). It tells the two apart by the
  values alone. With three gateways, the scene on for one, and the same proxy chosen for the two others as well, a
  kill after the first of them is entered leaves an entry that looks like the compensation's, in which the second
  is not pending although it was never prepared: it is not restarted. The file's value has not changed then,
  and the entry goes back to what it was, so nothing is wrong at rest; but on the way the entry says more than is true.
  `CommittedIsServed` therefore leaves out the gateways a compensation takes out of the group again (`Leaving`).
* **A mismatch at the exchange of a user's file** leaves the file of the user under the reserved name
  with the final name missing: the comment at `util.go:553-556` and the tests
  (`util_changed_test.go:131-155`) differ in what they say of it.
* **The installer's commit.** While `commit_transaction` deletes the backups (`install.sh:840-846`) its
  exit handler is still set: a signal there rolls back only the files whose backups are left. `rollback_transaction` also goes
  on to the next file when `mktemp`, `cp` or `mv` of a restore fails (`install.sh:784-788`), as the full disk
  that fails a replacement well may, and warns in the end that a file could not be rolled back
  (`install.sh:798-799`). So `Rollback` leaves any of the registered files as they are, those without a backup
  always. A rollback that left one (`torn`, as the warning says) and SIGKILL inside the
  transaction are the exceptions of `InstalledIsWhole`, until the next installation is complete. Registration
  of a file in the three arrays is taken to be atomic.
* **The mirror.** Notes edited on GitHub after a sidecar is published make every later sync and
  promotion of that tag refuse, and the stages of killed receivers count for ever. Both are what the
  code says; nothing in it promises more.

## What is proved

`RuntimeTransitionProofs`, `GlobalJournalProofs` (with the swap), `CoreRuntimeProofs`, `HermesSceneProofs` (with
the budget), `OpenClawProofs`, `DevSceneProofs`, `DeliveryProofs` (host and mirror) and `NodesProofs` prove, for
all values of the constants (any contents, calls, scenes, settings, gateways, processes, versions, links, and any number
of commands, kills, failures and edits), from the named assumptions next to the constants only (sentinels differ from data,
bounds are naturals, scenes are the three known ones, and a set of settings is closed under what
the commands do to one; for the budget the assumptions are those of the theorems).

* The swap: `CASTypes`, `SuccessesAreReal`, `ForeignIsKept`, `NothingIsStranded`. The inductive
  invariant `CASInv` adds to the types what a call's position says: it is within its attempts, no
  claim is there when it goes on without one (`FreeInv`), the claim it is about to publish over or
  retire holds something expected (`ClaimInv`), and a success it is about to report has been seen
  (`HeldInv`). Without `ClaimInv`, retiring a claim could lose a foreign content: the check of the
  claim and its removal are different steps. That is sound only since nobody touches a claim.
  `CallsAreAsSpecified`: with three attempts or more, `CASOutcome` is what a call comes to. Three are
  needed: one for a stale claim, one that an edit spoils, one to see it; the code has eight
  (`global_journal.go:30`). This is what lets the scenes' modules take a whole call as a step.
* The transaction: `TypeCorrect`; `ForeignStoresSurvive`; `CommitsAreFinal`; `JobsAreLeftAlone`.
  `TypeInv` adds which memory and record exist at which position. `StoreInv` adds that the claim
  of a swap in progress holds what the swap wanted (`CasInv`), that the evidence read by a
  compensation is named by its record (`SeenInv`), and that a record's candidate differs from
  everything its compensation starts from or writes (`RecordInv`): this is what keeps a
  compensation from matching, and replacing, a committed main. `JobInv` says that nothing that is
  about to be touched has an outstanding restart.
* The transaction is whole: `RoutesLeadToInbounds`, `NoRecordMeansConsistent`, `GenerationsNameOneStore`,
  `CompensationIsAlwaysPossible`, all from `WholeInvariant`. It has four parts, each preserved on its own
  from the others: `PlanInv`, the record's steps are those that lead from the previous image to the
  candidate, in the order detach, core, attach, and those started are a prefix (`Planned`); `RunInv`,
  every part is as the record says of it, and the one part a step is under way at may be anything
  (`Reached`); `ShapeInv`, which of previous, candidate and undo image each copy of the store and its
  claim hold at each place of a swap; `IssueInv`, the generations that were given out. That an attached
  scene has its inbound then is arithmetic over the order of the steps: without the prefix, a route could
  be up while the core's step is not done. These are about states nobody has edited the store in: an edit
  may end in a conflict that is kept for a human. What a route points at is part of it: `Reached` says that a
  side is off, half done, or as one of the two images asks. `ChangesAreAtomic`: without edits every behaviour is one
  of `AtomicChange` (of the core and all scenes' sides together; `StepIsAbstract`: each action is the abstract step or a stutter); with edits, a store
  an administrator puts in place is a change of the saved value that no commit has made.
* The global scene: `ReadsTheLastSave`, `NothingWrittenIsLost`, `RestIsWhole`, `CompensationIsExact`.
  `SwapStep` says once what a swap may do to a file and its claim, from `FinalIsLegal` and
  `PassingIsLegal`, which are about `CASOutcome`. `JournalInv` orders the generations of the two copies
  around the write between them: the newer is always the last one saved. `OriginInv` says where the
  administrator's last write is: in the file or its claim, or in the journal's originals, or in the
  receipt; it needs `KnownInv`, that a content he has never had before cannot be known to
  anything yet, since a stale journal or claim that happened to hold it would be taken for
  what was released. `QuietInv` says, while nobody edits, which contents each place of an apply, release
  or compensation can find, per path.
* The core: `ReceiptsAreTrue`, `CommitsAreServed`, `CompensationsAreReal`. A process has the number of its
  invocation, and its receipt is written after it was looked at. `InvocationInv` says that no later process
  can have the number; `LoadedInv`, that what was read of it is what it was started with, because only an
  administrator writes contents that are not the plan's or the before-image's, so a file that holds the
  planned configuration at the end has held it since the restart. `QuietInv` follows both directions:
  what each step of the apply has put in place (`ApplyInv`); that as long as a plan owes no restart
  (`pending`) a service whose files are the before-image's runs them (`OldInv`): `pending` is
  durable before the first file is put back; and what each step of the compensation has brought back
  (`UndoInv`).
* The Hermes scene: `EntriesAreTrue`, `RestIsAsStored`, `ForeignFilesAreKept`,
  `OutstandingJobsAreLeftAlone`, for any number of targets. Neither of the first two is inductive: that an
  active entry is true needs to be known before it is written, several steps earlier and per target.
  `JournalInv` says at each place of a loop which entries are as the record found them, which are announced
  and which are done, so that a commit (`Applied`) and the end of a compensation (`Undone`) find all of them
  done, and a process killed anywhere finds every entry outside the record untouched. `JobInv`: an
  outstanding restart is the one that is waited for, or was left behind with the error that keeps the
  record; so nothing else may be under a job when a loop comes to a target (`CurHasNoJob`). `Base`: an entry
  that says nothing is under way is true; it is kept because a file moves only under an entry that says
  otherwise (`MovedFilesServed`). `Ahead`: from the reload to the commit, what will be written is brought
  about in order: loaded, restarted, only then entered. The calls on files are summed up once
  (`FilesMove`); that they lose no foreign file needs that the journal names contents of the manager only.
* The OpenClaw scene: `TypeCorrect`, `UserEditsStay`, `CommittedStaysServed`, `RestStaysClean`, for any number of
  gateways, observable or not. `TypeInv`: which memory there is at which place. `JournalInv`: how far the entry has
  come at each place, whatever the user does to the file: who has been prepared (`Ready`), which gateways of a
  loop are still pending, what a compensation has announced (`Announced`), and at rest what the settings say
  (`Clean`). It is needed first, because what a gateway serves is compared with an entry that changes in the same
  loop. `EditInv`: the user's latest version is in the file or under the claimed name, what an exchange has read is
  its latest version until the exchange finds out, and what it is about to publish keeps what the user has chosen.
  `QuietInv`, as long as the user leaves the proxy alone: the file's value at each place (`QuietPlace`), and that a
  gateway that is not pending serves the entry's value now and whenever it applies the file (`QuietState`). It is
  there that evidence counts: a channel started since the baseline with the file seen (`Observe`, `Confirm`), or a
  process started since the file was written.
* The development scene: `TypeCorrect`, `RestStaysClean`, `FailuresAreUndone`, for any number of users and of git and
  npm keys. `OwnInv` says of the ownership what it says of the settings at rest, and with a record whose it can be and
  in what it can differ from the record's (`Fit`), place by place; in a loop, that the copy the process holds and the
  one on disk agree in the plans of the keys to come, and in all of them as long as no call has failed (`LoopOwn`). At
  the end of a compensation only plans that are done can be left. `ProxyInv` says where addresses of the manager can
  be: in the keys of the ownership's user and named by it (`Within`), never among originals or in what a release
  makes of a key (`Clean`). So a value without an address is the user's own, and what a release makes of a value with
  one is what he has chosen (`Given`): his originals and what he has added since, which is about a fold over
  sequences and proved by induction on their length (`UnmanagedAppend`, `GivenAppend`). `QuietInv` then follows every
  key nobody edits during the command: what was recorded (`AtPlan`), what each place of the command makes of it
  (`Forward`), and what each place of the compensation has put back (`BackValues`, `BackPlans`). `FailuresAreUndone`
  needs that the plans `BackOwner` allows to stay are of a user who had edited every one of his keys before, and
  that compensation closes nothing while an npm file is hidden (`ReadInv`). Both theorems are about what git and npm
  find: a git file hidden by a kill is named in `FailureIsUndone` as what can stay.
* The host: `WorkIsGuarded`, `HostStaysOwned`, `InstalledStaysWhole`, `UpdatesGoForward`. `HostInv` says
  which locks a process holds at which place; that nobody else is past the installation lock then
  follows (`OneAtATime`), and with it that the record of the host cannot change under one who
  relies on it. `TransactionInv` adds, per process, what its record says of the files: those with a
  backup are of the new version, the backups and the rest of one old version (`Mixed`), and an
  update's expected program is the one it puts aside. It is stated as a predicate of one record and
  the files, so that a step needs a proof for its own process only (`LockedKeeps`, `AwayKeeps`).
  Without `Mixed`, that a rollback which puts back every file restores a whole version cannot be seen from
  the files alone.
* The mirror: `PublishedStaysServed`. `PublishedIsServed` is not inductive: that a tag is durable when a
  sync reports it follows only from what the call has made durable before. `MirrorInv` says that per
  place of a call (`KnownOf`: renamed, then durable, then the sidecar, then synced), that what is
  durable is visible and the directory is durable before anything is in it (`DurableInv`: else a
  sidecar made durable could still go with its directory), and that what counts is durable
  (`KeptInv`). Hence a loss of power needs no case about calls.
* Nodes and subscriptions: `StoresAreValid`, `ResultsStayTheirs`, `SelectionStaysStable`,
  `UpdatesStayExact`, for any links, lists, subscriptions, scenes and commands at work. `IInv` says three
  things. The store is good (`Good`: valid, no subscription twice, results about their nodes' connections);
  validity alone is not inductive, since a result under an identifier that is reused would break
  it. What a command has in hand fits it (`Working`): no subscription is downloaded twice, an update that ends
  has downloaded one at least, since its first link is the last resort for a selection. And what was
  downloaded is no older than what was committed as long as the store is the one the update began with.
  The commands under the lock keep a store good one by one (`UseNodeGood` to `MergeResultsGood`). An update
  goes over lists in loops; what the loops return is proved by induction (`LeastExists`, `Induction`,
  `Recursion`, from the well-foundedness of the naturals): the kept nodes are those at their places, in their
  order (`OnlyFacts`), the links are those of all sources (`FlattenFacts`), and the whole list has the
  stored nodes and one new node for each connection that is not there (`Full`, `AddedFacts`). That no two
  nodes get one link is the choice of the copy that stands for a connection (`KeeperIs`, `RenewedApart`,
  `StayingApart`): a copy that has the incoming link and has to stay must be the one. `Outcome` then says all
  that is needed of `reconcileSubscriptions`: it is proved once (`ReconcileIs`), and the store's validity,
  the selections (`Heir`: the same connection if any node has it) and the memberships (`ListedIs`, with a
  bijection between nodes and connections) follow from it.
* The budget: `TermsAreExact` and `BudgetIsExact`: comparing before adding is right for every width.

Only model-checked: `OwnValuesKept` and `RefusalHasACause` of `DevScene`. Liveness (`RecordIsResolved`) is out of the prover's reach and stays with TLC.

## What is not modelled

* Contents are opaque: formats, parsing, rendering, wording. So are the checks that look at text only:
  discovery and policy of Telegram targets (`telegram_discovery.go`, `telegram_runtime.go` and the
  files beside them), validation of units, share links, archive checks. They keep no state; their
  outcome is a condition of the models.
* Menus and the command line: input and output. Every change they make goes through the coordinator.
* Bundle and release scripts: sequential.
* The online installation, the first creation of unit and service account, the migrations of
  journals and drop-ins from earlier versions.
* The worker pool of the probes and its child processes: results reach the store only as a batch,
  which is what `Nodes` models.
* Scenes and core are opaque parts of `RuntimeTransition`, and the coordinator is one step on either
  side in the scenes' modules: a full composition is beyond TLC. The interface is the same on both
  sides: a step that was started is compensated unless the commit is there. The one process at a
  time of those models is `LocksGuardWork`.
* During a claim of `state.json` a lock-free reader falls back to the backup and may show an
  uncommitted candidate; readers that act on such a snapshot compare its generation under the lock,
  which is in `Nodes`.

## Plan

Done: every module above, with the proofs of the coordinator and its refinement, the compare-and-swap, the
global scene, the core, the Hermes scene, the OpenClaw scene, the development scene, the host, the mirror, the nodes and the
budget. What is left, in this order:

1. Proofs of `OwnValuesKept` and `RefusalHasACause` of `DevScene`.
2. User services and protected targets in `HermesScene`, several users in `OpenClaw`.
3. The migrations from earlier versions.
