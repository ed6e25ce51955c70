------------------------------ MODULE HermesScene ------------------------------
(***************************************************************************)
(* The Hermes half of the Telegram scene: gateway services that get their  *)
(* proxy from a systemd drop-in of the manager (telegram_apply.go,         *)
(* telegram_journal.go, scenes.go, systemd_restart.go), and their          *)
(* compensation by the transaction coordinator                             *)
(* (runtime_transition_telegram.go).                                       *)
(*                                                                         *)
(* A target is a system service: its drop-in file, the name the file is    *)
(* claimed under, what systemd has loaded, the process with the            *)
(* environment it was started with, and a restart job that may outlive the *)
(* command that asked for it.  All targets belong to one service manager,  *)
(* so a daemon-reload loads every drop-in.                                 *)
(*                                                                         *)
(* Abstractions.  The journal has two copies; saving it writes the backup, *)
(* which is already the newer generation, and then the main copy, and      *)
(* loading takes the newer: a save takes effect with its first write.  So  *)
(* it is one value here, and a save may fail before or after it took       *)
(* effect (the copies themselves are in GlobalJournal).  A call of the     *)
(* drop-in's compare-and-swap is one step whose outcomes include a kill    *)
(* between its system calls.  The coordinator's record is written and      *)
(* removed in a step (its own steps are in RuntimeTransition).             *)
(***************************************************************************)
EXTENDS Naturals, FiniteSets, FiniteSetsExt

CONSTANTS
  NT,       \* number of targets
  Contents, \* drop-ins the manager renders, one for each proxy address
  None,     \* no file, no entry, no record, no environment
  Foreign,  \* a file an administrator has written
  MaxCommands, MaxKills, MaxFaults, MaxEdits \* bounds on what happens

ASSUME HermesAssumption ==
  /\ {NT, MaxCommands, MaxKills, MaxFaults, MaxEdits} \subseteq Nat
  /\ None \notin Contents /\ Foreign \notin Contents /\ None # Foreign

VARIABLES
  store,   \* the committed selection: is the scene on, for whom, with which proxy
  rec,     \* the coordinator's record: candidate and before-images, or None
  jr,      \* the ownership journal: an entry per target, or None
  drop,    \* the drop-in file of each target
  quar,    \* the file claimed out of its way by a swap
  loaded,  \* the drop-in the service manager has loaded
  svc,     \* process of each target: running, its environment, a pending job
  unit,    \* the unit of the target: installed and valid, replaced, or gone
  pc, mem, \* the process that holds the locks
  touched, \* history: targets whose files an administrator has changed
  left     \* how many commands, kills, faults and edits are left

durable == <<store, rec, jr, drop, quar>>
system  == <<loaded, svc, unit>>
vars    == <<durable, system, pc, mem, touched, left>>

Targets == 1..NT
Files   == Contents \cup {None, Foreign}

Entry(p, m, n) == [phase |-> p, managed |-> m, pending |-> n]
Active(c)      == Entry("active", c, None)
Entries == [phase : {"prepared", "active", "restoring"}, managed : Contents,
            pending : Contents \cup {None}]

\* What a record says of a target: its entry before, the contents its file may have
\* meanwhile, and whether its unit was gone.
Images == [before : Entries \cup {None}, allowed : Contents \cup {None},
           absent : BOOLEAN, skip : BOOLEAN]

\* Settings a command may ask for: off, or on for a selection with a proxy.
Settings == [on : {TRUE}, proxy : Contents, sel : (SUBSET Targets) \ {{}}]
              \cup [on : {FALSE}, proxy : {None}, sel : {{}}]
Off == [on |-> FALSE, proxy |-> None, sel |-> {}]

ASSUME SentinelAssumption ==
  /\ None \notin Entries \cup {"apply", "release", "undo"}
  /\ None \notin [cand : Settings, image : UNION {[S -> Images] : S \in SUBSET Targets}]

Fresh == [mode |-> None, todo |-> {}, act |-> {}, seen |-> None,
          removed |-> None, err |-> "none"]

----------------------------------------------------------------------------
(* Reading and changing files                                              *)

\* Outcomes <<file, claimed, result>> of writeTelegramSystemArtifactCreate.
Create(d, q, data) ==
  IF d # None THEN {<<d, q, "changed">>}
  ELSE {<<data, q, "ok">>, <<d, q, "fault">>, <<data, q, "fault">>}

\* Mutant: the claim is not compared with what was expected.
ReplaceUnchecked(d, q, old, data) == {<<data, None, "ok">>}

\* A file that was claimed and is not the expected one is put back.
GiveBack(d) == {<<d, None, "changed">>, <<None, d, "fault">>, <<None, d, "killed">>}

\* Outcomes of writeTelegramSystemArtifactCAS: claim the file, compare the
\* claim, publish without replacing, drop the claim.  "killed" is a kill
\* between two of these; a failed fsync is an error after the effect.  A claim
\* that is already there is replayed first.
Replace(d, q, old, data) ==
  LET publish == {<<data, None, "ok">>, <<data, None, "fault">>, <<old, None, "fault">>,
                  <<data, old, "fault">>, <<None, old, "killed">>, <<data, old, "killed">>}
  IN CASE q = None /\ d = None -> {<<d, q, "changed">>}
       [] q = None /\ d # None -> IF d = old THEN publish ELSE GiveBack(d)
       [] q # None /\ d = None -> IF q = old THEN publish
                                  ELSE {<<q, None, "changed">>, <<None, q, "fault">>}
       [] OTHER -> IF q # old THEN {<<d, q, "changed">>}
                   ELSE {<<d, None, IF d = data THEN "ok" ELSE "changed">>,
                         <<d, None, "fault">>, <<d, q, "fault">>}

\* Outcomes of removeSystemFileAndEmptyParentCAS, which removes the file when
\* it holds one of the expected contents and replays an old claim.
RemoveFile(d, q, olds) ==
  LET removed == {<<None, None, "ok">>, <<None, None, "fault">>}
  IN CASE q = None /\ d = None -> removed
       [] q = None /\ d # None ->
            IF d \in olds THEN removed \cup {<<d, q, "fault">>, <<None, d, "fault">>, <<None, d, "killed">>}
            ELSE GiveBack(d)
       [] q # None /\ d = None ->
            IF q \in olds THEN removed \cup {<<None, q, "fault">>}
            ELSE {<<q, None, "changed">>, <<None, q, "fault">>}
       [] OTHER ->
            IF {q, d} \subseteq olds
            THEN removed \cup {<<d, q, "fault">>, <<d, None, "killed">>, <<d, None, "fault">>,
                               <<None, d, "killed">>, <<None, d, "fault">>}
            ELSE {<<d, q, "changed">>}

Owned(e) == {e.managed, e.pending} \ {None}

Spend(what) == left[what] > 0 /\ left' = [left EXCEPT ![what] = @ - 1]
Free == UNCHANGED left

\* A durable effect of one step of the process: it is written and the step
\* goes on, or it fails before or after it is written.
SaveEntry(t, e, good, bad) ==
  \/ jr' = [jr EXCEPT ![t] = e] /\ good /\ Free
  \/ jr' \in {jr, [jr EXCEPT ![t] = e]} /\ bad /\ Spend("faults")

\* The process is gone; what it had in memory with it.
Exit == pc' = "idle" /\ mem' = Fresh

Touch(t, outcomes, good, bad) ==
  \E o \in outcomes :
    /\ drop' = [drop EXCEPT ![t] = o[1]]
    /\ quar' = [quar EXCEPT ![t] = o[2]]
    /\ CASE o[3] = "ok"      -> good /\ Free
         [] o[3] = "changed" -> bad /\ Free
         [] o[3] = "fault"   -> bad /\ Spend("faults")
         [] o[3] = "killed"  -> Exit /\ Spend("kills")

----------------------------------------------------------------------------
(* The plan                                                                *)

Settled(t) == ~svc[t].job

\* The unit still is the gateway that may be managed: its command, environment
\* and configuration files leave the proxy to the drop-in.
Valid(t)  == unit[t] = "valid"
Absent(t) == unit[t] = "absent"

\* What validateTelegramAbsentRelease asks of a target without a unit.
Releasable(t) ==
  Settled(t) /\ (Valid(t) \/ (Absent(t) /\ ~svc[t].running))

Image(t, cand) ==
  [before  |-> jr[t],
   allowed |-> IF t \in cand.sel THEN cand.proxy ELSE None,
   absent  |-> t \notin cand.sel \/ jr[t] = None,
   skip    |-> Absent(t)]

\* A selected target that already runs what is asked is not restarted.
Unchanged(t, cand) == jr[t] = Active(cand.proxy)

\* planTelegramSelection and captureRuntimeTelegram: every selected target is
\* installed and can be restarted, every released one can be let go, and each
\* is either not owned and has no file or active with its own file.
Plannable(cand, rel) ==
  /\ \A t \in cand.sel \cup rel : drop[t] = IF jr[t] = None THEN None ELSE jr[t].managed
  /\ \A t \in cand.sel \cup rel : jr[t] # None => jr[t].phase = "active"
  /\ \A t \in cand.sel : Valid(t) /\ (Unchanged(t, cand) \/ Settled(t))
  /\ \A t \in rel : Releasable(t)

Released(cand) == {t \in Targets \ cand.sel : jr[t] # None}

Plan(cand) ==
  /\ pc = "idle" /\ rec = None /\ cand # store
  /\ Plannable(cand, Released(cand))
  /\ Spend("commands")
  /\ rec' = [cand |-> cand,
             image |-> [t \in cand.sel \cup Released(cand) |-> Image(t, cand)]]
  /\ pc' = "validate" /\ mem' = [Fresh EXCEPT !.mode = "apply"]
  /\ UNCHANGED <<store, jr, drop, quar, system, touched>>

Scope == DOMAIN rec.image
Selected == rec.cand.sel
Dropped  == Scope \ Selected

\* The target the loops have come to; compensation walks backwards.
Cur == IF mem.mode = "undo" THEN Max(mem.todo) ELSE Min(mem.todo)

\* The error of a command is unsettled as soon as one of its errors is.
Worse(e) == IF "unsettled" \in {mem.err, e} THEN "unsettled" ELSE e

\* The plan is compared with the system again before it is carried out.
Validate ==
  /\ pc = "validate"
  /\ IF /\ \A t \in Scope : jr[t] = rec.image[t].before
        /\ \A t \in Scope : rec.image[t].skip = Absent(t)
        /\ Plannable(rec.cand, Dropped)
     THEN IF Selected # {}
          THEN pc' = "prepare" /\ mem' = [mem EXCEPT !.todo = Selected]
          ELSE pc' = "release" /\ mem' = [mem EXCEPT !.mode = "release", !.todo = Dropped]
     ELSE pc' = "failed" /\ mem' = [mem EXCEPT !.err = "failed"]
  /\ UNCHANGED <<durable, system, touched, left>>

----------------------------------------------------------------------------
(* Applying: prepare every target, reload once, restart and commit each    *)

\* Where the loop over the targets goes from here.
Step(p, after, upd) ==
  LET rest == mem.todo \ {Cur} IN
    /\ pc' = IF rest = {} THEN after ELSE p
    /\ mem' = [upd EXCEPT !.todo = rest, !.seen = None, !.removed = None]

PrepareNext(upd) ==
  LET m == [upd EXCEPT !.todo = mem.todo \ {Cur}, !.seen = None] IN
    IF m.todo # {} THEN pc' = "prepare" /\ mem' = m
    ELSE /\ pc' = IF m.act = {} THEN "applied" ELSE "reload"
         /\ mem' = [m EXCEPT !.todo = m.act]
PrepareFailed == PrepareNext([mem EXCEPT !.err = Worse("failed")])

\* prepareHermesTelegramApply up to the save of the prepared entry.
Prepare ==
  LET t == Cur  c == rec.cand.proxy  e == jr[t] IN
  /\ pc = "prepare"
  /\ \/ /\ ~Valid(t) \/ (e = None /\ drop[t] # None)
           \/ (e # None /\ (e.phase = "restoring" \/ drop[t] \notin Owned(e) \cup {None}))
        /\ PrepareFailed /\ Free /\ UNCHANGED jr
     \/ /\ Valid(t) /\ e = Active(c) /\ drop[t] = c
        /\ PrepareNext(mem) /\ Free /\ UNCHANGED jr
     \/ /\ Valid(t) /\ ~(e = Active(c) /\ drop[t] = c)
        /\ IF e = None THEN drop[t] = None
           ELSE e.phase # "restoring" /\ drop[t] \in Owned(e) \cup {None}
        /\ IF Settled(t)
           THEN SaveEntry(t, Entry("prepared", IF e = None THEN c ELSE e.managed, c),
                          pc' = "write" /\ mem' = [mem EXCEPT !.seen = drop[t]],
                          PrepareFailed)
           ELSE PrepareFailed /\ Free /\ UNCHANGED jr
  /\ UNCHANGED <<store, rec, drop, quar, system, touched>>

\* The rest of it: the drop-in, against the content read before the save.
Write ==
  LET t == Cur  c == rec.cand.proxy IN
  /\ pc = "write"
  /\ IF mem.seen = c
     THEN PrepareNext([mem EXCEPT !.act = @ \cup {t}]) /\ Free /\ UNCHANGED <<drop, quar>>
     ELSE Touch(t, IF mem.seen = None THEN Create(drop[t], quar[t], c)
                   ELSE Replace(drop[t], quar[t], mem.seen, c),
                PrepareNext([mem EXCEPT !.act = @ \cup {t}]), PrepareFailed)
  /\ UNCHANGED <<store, rec, jr, system, touched>>

\* A failure of one target: remember it and go on with the next one.
Fail(e) ==
  CASE mem.mode = "apply"   -> Step("check", "applied", [mem EXCEPT !.err = Worse(e)])
    [] mem.mode = "release" -> Step("release", "applied", [mem EXCEPT !.err = Worse(e)])
    [] mem.mode = "undo" /\ e = "unsettled" -> Exit
    [] OTHER                -> Step("undo", "undone", [mem EXCEPT !.err = Worse(e)])

\* A restart or reload failed.  A release puts the drop-in back, unless a job
\* may still be running.
Refused(e) ==
  IF mem.mode = "release" /\ e # "unsettled"
  THEN pc' = "putback" /\ UNCHANGED mem ELSE Fail(e)

\* The journal entry that a target gets once its service is reconciled.
Commit ==
  CASE mem.mode = "apply"   -> "commit"
    [] mem.mode = "release" -> "forget"
    [] OTHER -> IF rec.image[Cur].before = None THEN "forget"
                ELSE IF rec.image[Cur].skip \/ Absent(Cur) THEN "settle" ELSE "commit"

Goto(p) == pc' = p /\ UNCHANGED mem

\* reloadTelegramApplyManagers, reloadHermesTelegramTargetManager: disk files
\* reach systemd.  Without the reload no target of the manager is restarted.
Reload ==
  /\ pc = "reload"
  /\ \/ /\ loaded' = drop /\ Free
        /\ IF mem.mode = "apply" THEN Goto("check")
           ELSE IF Absent(Cur) \/ (mem.mode = "undo" /\ rec.image[Cur].skip) THEN Goto(Commit)
           ELSE IF Valid(Cur) THEN Goto("check") ELSE Refused("failed")
     \/ /\ UNCHANGED loaded /\ Spend("faults")
        /\ IF mem.mode = "apply"
           THEN pc' = "applied" /\ mem' = [mem EXCEPT !.todo = {}, !.err = Worse("failed")]
           ELSE Refused("failed")
  /\ UNCHANGED <<durable, svc, unit, touched>>

\* Mutant: a service that is up already is not restarted.
CheckStarted == pc = "check" /\ Goto(Commit) /\ UNCHANGED <<durable, system, touched, left>>

\* restartTelegramTargetForOperation: what is on disk is still what was
\* prepared, and the service is not in transition.  Nothing is started.
Check ==
  LET t == Cur IN
  /\ pc = "check"
  /\ IF /\ jr[t] # None /\ jr[t].phase = "prepared"
        /\ ~Valid(t) \/ drop[t] # jr[t].pending
     THEN Refused("failed") /\ UNCHANGED svc
     ELSE IF ~Settled(t) THEN Refused("unsettled") /\ UNCHANGED svc
     ELSE IF ~svc[t].running THEN Goto(Commit) /\ UNCHANGED svc
     ELSE svc' = [svc EXCEPT ![t].job = TRUE] /\ Goto("wait")
  /\ UNCHANGED <<durable, loaded, unit, touched, left>>

\* waitSystemdRestart and confirmTelegramTargetRunning.  The wait is bounded;
\* when it ends first, the job is still systemd's.
Wait ==
  LET t == Cur IN
  /\ pc = "wait"
  /\ \/ /\ Settled(t) /\ Free
        /\ IF svc[t].running THEN Goto(Commit) ELSE Refused("failed")
     \/ ~Settled(t) /\ Refused("unsettled") /\ Spend("faults")
  /\ UNCHANGED <<durable, system, touched>>

\* The next target once one is committed.
Succeed ==
  CASE mem.mode = "apply"   -> Step("check", "applied", mem)
    [] mem.mode = "release" -> Step("release", "applied", mem)
    [] OTHER                -> Step("undo", "undone", mem)

\* commitHermesTelegramApply: the file is still the pending one.
CommitApply ==
  LET t == Cur  e == jr[t] IN
  /\ pc = "commit"
  /\ IF e # None /\ e.phase = "prepared" /\ Valid(t) /\ drop[t] = e.pending
     THEN SaveEntry(t, Active(e.pending), Succeed, Fail("failed"))
     ELSE Fail("failed") /\ Free /\ UNCHANGED jr
  /\ UNCHANGED <<store, rec, drop, quar, system, touched>>

\* commitHermesTelegramRestore: the entry is let go.
Forget ==
  LET t == Cur IN
  /\ pc = "forget"
  /\ IF jr[t] = None THEN Succeed /\ Free /\ UNCHANGED jr
     ELSE IF jr[t].phase = "restoring" THEN SaveEntry(t, None, Succeed, Fail("failed"))
     ELSE Fail("failed") /\ Free /\ UNCHANGED jr
  /\ UNCHANGED <<store, rec, drop, quar, system, touched>>

----------------------------------------------------------------------------
(* Releasing: cleanupHermesTelegramTarget                                  *)

\* Validate before anything is removed, announce the removal, and remember
\* nothing yet.
Release ==
  LET t == Cur IN
  /\ pc = "release"
  /\ IF jr[t] = None THEN Succeed /\ Free /\ UNCHANGED jr
     ELSE IF ~Absent(t) /\ ~(Valid(t) /\ Settled(t))
     THEN Fail(IF Settled(t) THEN "failed" ELSE "unsettled") /\ Free /\ UNCHANGED jr
     ELSE IF jr[t].phase = "restoring" THEN Goto("remove") /\ Free /\ UNCHANGED jr
     ELSE SaveEntry(t, [jr[t] EXCEPT !.phase = "restoring"], Goto("remove"), Fail("failed"))
  /\ UNCHANGED <<store, rec, drop, quar, system, touched>>

\* An operator's file is kept; a missing one is still made durably missing.
RemoveDropIn ==
  LET t == Cur  d == drop[t] IN
  /\ pc = "remove"
  /\ IF d \notin Owned(jr[t]) \cup {None}
     THEN Goto("reload") /\ Free /\ UNCHANGED <<drop, quar>>
     ELSE Touch(t, RemoveFile(d, quar[t], IF d = None THEN Owned(jr[t]) ELSE {d}),
                pc' = "reload" /\ mem' = [mem EXCEPT !.removed = d], Fail("failed"))
  /\ UNCHANGED <<store, rec, jr, system, touched>>

\* restoreHermesTelegramArtifactForRetry and the reload that follows it.
PutBack ==
  LET t == Cur IN
  /\ pc = "putback"
  /\ IF mem.removed = None \/ jr[t] = None
     THEN Fail("failed") /\ Free /\ UNCHANGED <<drop, quar>>
     ELSE IF drop[t] # None
     THEN /\ IF drop[t] = mem.removed THEN Goto("reloadback") ELSE Fail("failed")
          /\ Free /\ UNCHANGED <<drop, quar>>
     ELSE Touch(t, Create(drop[t], quar[t], mem.removed), Goto("reloadback"), Fail("failed"))
  /\ UNCHANGED <<store, rec, jr, system, touched>>

ReloadBack ==
  /\ pc = "reloadback" /\ Fail("failed")
  /\ \/ loaded' = drop /\ Free
     \/ UNCHANGED loaded /\ Spend("faults")
  /\ UNCHANGED <<durable, svc, unit, touched>>

\* All targets are done: release what the plan drops, or finish.
Applied ==
  /\ pc = "applied"
  /\ \/ /\ mem.err = "none" /\ mem.mode = "apply" /\ Dropped # {}
        /\ pc' = "release"
        /\ mem' = [mem EXCEPT !.mode = "release", !.todo = Dropped]
        /\ UNCHANGED <<store, rec>>
     \/ /\ mem.err = "none" /\ (mem.mode = "release" \/ Dropped = {})
        /\ store' = rec.cand /\ rec' = None /\ Exit
     \/ mem.err # "none" /\ pc' = "failed" /\ UNCHANGED <<mem, store, rec>>
  /\ UNCHANGED <<jr, drop, quar, system, touched, left>>

----------------------------------------------------------------------------
(* Compensation: compensateRuntimeTelegram                                 *)

\* Mutant: compensation starts under a queued restart.
CompensateAtOnce == pc' = "undo" /\ mem' = [Fresh EXCEPT !.mode = "undo", !.todo = Scope]

\* An unsettled restart keeps the record and everything else; any other
\* failure is compensated at once, if no target has a job.
Compensate ==
  IF \A t \in Scope : Settled(t)
  THEN pc' = "undo" /\ mem' = [Fresh EXCEPT !.mode = "undo", !.todo = Scope]
  ELSE Exit

Failed ==
  /\ pc = "failed"
  /\ IF mem.err = "unsettled" THEN Exit ELSE Compensate
  /\ UNCHANGED <<durable, system, touched, left>>

Recover ==
  /\ pc = "idle" /\ rec # None /\ Compensate
  /\ UNCHANGED <<durable, system, touched, left>>

\* runtimeHermesContentAllowed and runtimeHermesEntryAllowed.
Content(i) == IF i.before = None THEN None ELSE i.before.managed
ContentAllowed(i, d) ==
  IF d = None THEN i.before = None \/ i.absent
  ELSE d \in {Content(i), i.allowed}
EntryAllowed(i, e) ==
  e = None \/ \A c \in Owned(e) : ContentAllowed(i, c)

\* A file a swap has claimed and not published yet is taken from the claim.
FromClaim(t) ==
  LET i == rec.image[t] IN
  /\ drop[t] = None /\ ~i.absent /\ i.before # None /\ jr[t] # None
  /\ quar[t] # None /\ ContentAllowed(i, quar[t])
Raw(t) == IF FromClaim(t) THEN quar[t] ELSE drop[t]

\* Mutant: only the file is looked at.
BackByFile(t, i) == drop[t] = Content(i)

\* The target is as it was before the transaction, file and entry.
Back(t, i) == drop[t] = Content(i) /\ jr[t] = i.before

\* compensateRuntimeHermes up to its first save: the announcement of what the
\* restored target will be, or of its removal.
Undo ==
  LET t == Cur  i == rec.image[t]  e == jr[t]  raw == Raw(t)
      goal == IF i.before # None THEN Entry("prepared", i.before.managed, i.before.managed)
              ELSE IF e = None THEN None ELSE [e EXCEPT !.phase = "restoring"]
      onwards == pc' = "rewrite" /\ mem' = [mem EXCEPT !.seen = raw]
  IN
  /\ pc = "undo"
  /\ IF ~EntryAllowed(i, e) \/ ~ContentAllowed(i, raw)
     THEN Fail("failed") /\ Free /\ UNCHANGED jr
     ELSE IF Back(t, i)
     THEN Succeed /\ Free /\ UNCHANGED jr
     ELSE IF i.before = None /\ e = None
     THEN (IF raw = None THEN Succeed ELSE Fail("failed")) /\ Free /\ UNCHANGED jr
     ELSE IF e = goal THEN onwards /\ Free /\ UNCHANGED jr
     ELSE SaveEntry(t, goal, onwards, Fail("failed"))
  /\ UNCHANGED <<store, rec, drop, quar, system, touched>>

\* Then the file, as it was before the transaction.
Rewrite ==
  LET t == Cur  i == rec.image[t]  raw == mem.seen IN
  /\ pc = "rewrite"
  /\ IF i.before = None
     THEN Touch(t, RemoveFile(drop[t], quar[t], ({raw} \ {None}) \cup Owned(jr[t])),
                Goto("reload"), Fail("failed"))
     ELSE IF raw = Content(i) /\ drop[t] = raw
     THEN Goto("reload") /\ Free /\ UNCHANGED <<drop, quar>>
     ELSE Touch(t, IF raw = None THEN Create(drop[t], quar[t], Content(i))
                   ELSE Replace(drop[t], quar[t], raw, Content(i)),
                Goto("reload"), Fail("failed"))
  /\ UNCHANGED <<store, rec, jr, system, touched>>

\* A target that may not be restarted gets its entry back directly.
Settle ==
  LET t == Cur  i == rec.image[t] IN
  /\ pc = "settle"
  /\ IF EntryAllowed(i, jr[t]) /\ drop[t] = Content(i)
     THEN SaveEntry(t, i.before, Succeed, Fail("failed"))
     ELSE Fail("failed") /\ Free /\ UNCHANGED jr
  /\ UNCHANGED <<store, rec, drop, quar, system, touched>>

\* The record goes only when every target is back.
Undone ==
  /\ pc = "undone" /\ Exit
  /\ rec' = IF mem.err = "none" THEN None ELSE rec
  /\ UNCHANGED <<store, jr, drop, quar, system, touched, left>>

----------------------------------------------------------------------------
(* What goes on around the process                                         *)

\* systemd carries out a queued restart, with what it has loaded; the service
\* may fail to come up.
JobDone(t) ==
  /\ svc[t].job
  /\ \/ svc' = [svc EXCEPT ![t] = [running |-> TRUE, env |-> loaded[t], job |-> FALSE]] /\ Free
     \/ svc' = [svc EXCEPT ![t] = [running |-> FALSE, env |-> None, job |-> FALSE]]
        /\ Spend("faults")
  /\ UNCHANGED <<durable, loaded, unit, pc, mem, touched>>

\* An administrator starts or stops a service.
StartStop(t) ==
  /\ ~svc[t].job /\ Spend("edits")
  /\ svc' = [svc EXCEPT ![t] =
       IF @.running THEN [running |-> FALSE, env |-> None, job |-> FALSE]
       ELSE [running |-> TRUE, env |-> loaded[t], job |-> FALSE]]
  /\ UNCHANGED <<durable, loaded, unit, pc, mem, touched>>

\* Somebody else has systemd load what is on disk.
ReloadByOthers ==
  /\ loaded # drop /\ Spend("edits") /\ loaded' = drop
  /\ UNCHANGED <<durable, svc, unit, pc, mem, touched>>

\* An administrator writes or deletes a drop-in, or replaces or removes a unit.
Edit(t) ==
  /\ Spend("edits") /\ touched' = touched \cup {t}
  /\ \/ /\ drop' = [drop EXCEPT ![t] = Foreign] /\ UNCHANGED unit
     \/ /\ drop[t] # None /\ drop' = [drop EXCEPT ![t] = None] /\ UNCHANGED unit
     \/ /\ Valid(t) /\ \E u \in {"replaced", "absent"} : unit' = [unit EXCEPT ![t] = u]
        /\ UNCHANGED drop
  /\ UNCHANGED <<store, rec, jr, quar, loaded, svc, pc, mem>>

Kill ==
  /\ pc # "idle" /\ Exit /\ Spend("kills")
  /\ UNCHANGED <<durable, system, touched>>

----------------------------------------------------------------------------

Init ==
  /\ store = Off /\ rec = None
  /\ jr = [t \in Targets |-> None]
  /\ drop = [t \in Targets |-> None] /\ quar = drop /\ loaded = drop
  /\ svc \in [Targets -> {[running |-> r, env |-> None, job |-> FALSE] : r \in BOOLEAN}]
  /\ unit = [t \in Targets |-> "valid"]
  /\ pc = "idle" /\ mem = Fresh /\ touched = {}
  /\ left = [commands |-> MaxCommands, kills |-> MaxKills, faults |-> MaxFaults,
             edits |-> MaxEdits]

Process ==
  \/ Validate \/ Prepare \/ Write \/ Reload \/ Check \/ Wait
  \/ CommitApply \/ Forget \/ Release \/ RemoveDropIn \/ PutBack \/ ReloadBack \/ Applied
  \/ Failed \/ Undo \/ Rewrite \/ Settle \/ Undone

Next ==
  \/ \E cand \in Settings : Plan(cand)
  \/ Process \/ Recover \/ Kill \/ ReloadByOthers
  \/ \E t \in Targets : JobDone(t) \/ StartStop(t) \/ Edit(t)

Spec == Init /\ [][Next]_vars

----------------------------------------------------------------------------
(* Properties                                                              *)

\* Every variable has its type.
TypeOK ==
  /\ store \in Settings
  /\ jr \in [Targets -> Entries \cup {None}]
  /\ {drop, quar, loaded} \subseteq [Targets -> Files]
  /\ svc \in [Targets -> [running : BOOLEAN, env : Files, job : BOOLEAN]]
  /\ unit \in [Targets -> {"valid", "replaced", "absent"}]
  /\ touched \subseteq Targets

\* An active entry is true: unless somebody has changed the target's files, the
\* drop-in is there, systemd has loaded it, and the process, if it runs, was
\* started with it (the commit comes after the reload and the restart).
ActiveIsServed ==
  \A t \in Targets \ touched :
    jr[t] # None /\ jr[t].phase = "active" =>
      /\ drop[t] = jr[t].managed /\ loaded[t] = drop[t]
      /\ svc[t].running /\ ~svc[t].job => svc[t].env = drop[t]

\* Between commands, when no recovery is owed, the journal, the drop-ins, what
\* systemd has loaded and the running processes all say what the store says:
\* a change of several targets is all or nothing, however it ended.
RestIsClean ==
  pc = "idle" /\ rec = None =>
    \A t \in Targets \ touched :
      LET c == IF t \in store.sel THEN store.proxy ELSE None IN
        /\ jr[t] = IF c = None THEN None ELSE Active(c)
        /\ drop[t] = c /\ loaded[t] = c
        /\ svc[t].running => svc[t].env = c

\* A file of an administrator is never removed or overwritten: a step of the
\* manager leaves it in place or under the claimed name.
ForeignKept ==
  [][\A t \in Targets :
       Foreign \in {drop[t], quar[t]} /\ left'.edits = left.edits
         => Foreign \in {drop'[t], quar'[t]}]_vars

\* Nothing of a target moves while a restart of it is outstanding: neither
\* the compensation nor another command changes files under a queued job.
JobsAreLeftAlone ==
  [][\A t \in Targets :
       svc[t].job /\ svc'[t].job /\ left'.edits = left.edits
         => drop'[t] = drop[t] /\ quar'[t] = quar[t] /\ jr'[t] = jr[t]]_vars

============================================================================
