------------------------------- MODULE OpenClaw -------------------------------
(***************************************************************************)
(* The OpenClaw half of the Telegram scene: the gateways of one user share *)
(* a configuration file of that user, and the manager sets one value in    *)
(* it (openclaw.go).  A gateway either proves over RPC that it runs its    *)
(* Telegram channel with the new file (telegram_openclaw_reload.go) or is  *)
(* restarted.  The user and the gateways write and read the same file at   *)
(* the same time, so it is exchanged through a claimed name (util.go).     *)
(*                                                                         *)
(* Abstractions.  The file is the proxy value and the version of           *)
(* everything else the user keeps in it; the user and the editors replace  *)
(* it by rename, they do not write into an open file.  Edits of a JSON5    *)
(* text keep everything else.  The journal is one value, as in             *)
(* HermesScene.  The gateway is external: what its RPC reports of the      *)
(* applied file, of a channel waiting for its restart and of the time the  *)
(* channel was started is taken to be true.                                *)
(***************************************************************************)
EXTENDS Naturals, FiniteSetsExt

CONSTANTS
  NT,         \* number of gateways of the user
  Observable, \* those with the RPC that shows a reload
  Proxies,    \* proxy addresses of the manager
  Unset, Own, \* no proxy in the file, a proxy the user has chosen
  None,
  MaxCommands, MaxKills, MaxFaults, MaxEdits \* bounds on what happens

Targets == 1..NT

ASSUME OpenClawAssumption ==
  /\ {NT, MaxCommands, MaxKills, MaxFaults, MaxEdits} \subseteq Nat
  /\ Observable \subseteq Targets
  /\ {Unset, Own, None} \cap Proxies = {} /\ Unset # Own /\ None \notin {Unset, Own}

VARIABLES
  store,   \* the committed selection
  rec,     \* the coordinator's record: candidate and before-image, or None
  entry,   \* the user's entry of the ownership journal, or None
  file,    \* openclaw.json, or None
  claim,   \* the file under the reserved name, or None
  gw,      \* each gateway: unit, process, job, applied file, channel
  pc, mem, \* the process that holds the locks
  user,    \* history: the user's latest version, original proxy, interference
  left     \* how many commands, kills, faults and edits are left

durable == <<store, rec, entry>>
files   == <<file, claim>>
vars    == <<durable, files, gw, pc, mem, user, left>>

Values == Proxies \cup {Unset, Own}

Entry(o, m, p, ts, ps, ph) ==
  [orig |-> o, managed |-> m, pending |-> p, targets |-> ts, ptargets |-> ps, phase |-> ph]

\* The file: the proxy, and the version of the rest.
Files == [proxy : Values, edit : 0..MaxEdits]

Entries == [orig : Values, managed : Proxies, pending : Proxies \cup {None},
            targets : SUBSET Targets, ptargets : SUBSET Targets,
            phase : {"prepared", "active", "restoring"}]

Settings == [on : {TRUE}, proxy : Proxies, sel : (SUBSET Targets) \ {{}}]
              \cup [on : {FALSE}, proxy : {None}, sel : {{}}]
Off == [on |-> FALSE, proxy |-> None, sel |-> {}]

Records == [cand : Settings, seen : Files, before : Entries \cup {None}, targets : SUBSET Targets,
            value : Values, allowed : Proxies \cup {None}, skip : SUBSET Targets]

ASSUME SentinelAssumption ==
  None \notin Files \cup Entries \cup Records \cup {"apply", "release", "undo"}

\* chan and proc are the channels and processes started since the baseline.
Fresh == [mode |-> None, todo |-> {}, failed |-> {}, plan |-> [t \in Targets |-> None],
          chan |-> {}, proc |-> {}, raw |-> None, goal |-> None, then |-> None, err |-> "none"]

Spend(what) == left[what] > 0 /\ left' = [left EXCEPT ![what] = @ - 1]
Free == UNCHANGED left
Exit == pc' = "idle" /\ mem' = Fresh
Goto(p) == pc' = p /\ UNCHANGED mem

Valid(t)   == gw[t].unit
Settled(t) == ~gw[t].job

\* The error of a command is unsettled as soon as one of its errors is.
Worse(e) == IF "unsettled" \in {mem.err, e} THEN "unsettled" ELSE e

Cur == Min(mem.todo)

\* saveOpenClawProxyJournal: backup first, so it takes effect with its first
\* write and may still report an error.
SaveEntry(e, good, bad) ==
  \/ entry' = e /\ good /\ Free
  \/ entry' \in {entry, e} /\ bad /\ Spend("faults")

----------------------------------------------------------------------------
(* The plan                                                                *)

\* The configuration is shared: a new value, a new gateway or a release needs
\* all of the gateways that are recorded.
WholeGroup(cand) ==
  entry # None =>
    \/ cand.sel = {}
    \/ entry.targets \subseteq cand.sel

Involved(cand) == cand.sel \cup IF entry = None THEN {} ELSE entry.targets

Plannable(cand) ==
  /\ WholeGroup(cand)
  /\ Involved(cand) # {} => file # None
  /\ entry # None => entry.phase = "active" /\ file.proxy = entry.managed
  /\ \A t \in cand.sel : Valid(t)
  /\ \A t \in Involved(cand) \ cand.sel : Valid(t) \/ (Settled(t) /\ ~gw[t].up)

\* planTelegramSelection, and the before-image of captureRuntimeTelegram.
Plan(cand) ==
  /\ pc = "idle" /\ rec = None /\ cand # store
  /\ Plannable(cand) /\ Spend("commands")
  /\ rec' = [cand |-> cand, seen |-> file, before |-> entry, targets |-> Involved(cand),
             value |-> file.proxy, allowed |-> cand.proxy,
             skip |-> {t \in Involved(cand) : ~Valid(t)}]
  /\ pc' = "validate" /\ mem' = [Fresh EXCEPT !.mode = "apply"]
  /\ UNCHANGED <<store, entry, files, gw, user>>

\* The plan is compared with the system again before it is carried out.
Validate ==
  /\ pc = "validate"
  /\ IF /\ entry = rec.before /\ file = rec.seen /\ Plannable(rec.cand)
        /\ rec.skip = {t \in rec.targets : ~Valid(t)}
     THEN pc' = "baseline" /\ mem' = [mem EXCEPT !.mode = IF rec.cand.on THEN "apply" ELSE "release"]
     ELSE pc' = "failed" /\ mem' = [mem EXCEPT !.err = "failed"]
  /\ UNCHANGED <<durable, files, gw, user, left>>

\* prepareOpenClawTelegramReload for every gateway whose group is about to
\* change: what it runs with before the file is touched.
Look(t) ==
  IF ~Valid(t) THEN {None}
  ELSE IF ~gw[t].up THEN {[kind |-> "inactive"]}
  ELSE IF t \in Observable /\ gw[t].applied = file /\ ~gw[t].pend
  THEN {None, [kind |-> "seen", applied |-> gw[t].applied]}
  ELSE {None}

Baseline ==
  /\ pc = "baseline"
  /\ LET changing == mem.mode = "release" \/ entry = None
                       \/ entry.managed # rec.cand.proxy \/ entry.targets # rec.cand.sel
     IN \E p \in [Targets -> (UNION {Look(t) : t \in Targets}) \cup {None}] :
          /\ \A t \in Targets : p[t] \in IF changing /\ t \in rec.targets THEN Look(t) ELSE {None}
          /\ mem' = [mem EXCEPT !.plan = p, !.todo = rec.targets]
  /\ pc' = IF mem.mode = "release" THEN "release" ELSE "entry"
  /\ UNCHANGED <<durable, files, gw, user, left>>

----------------------------------------------------------------------------
(* The exchange of the file: writeUserFileAtomicCASWithMetadata            *)

\* Where the process goes when the exchange fails.
SwapFailed ==
  CASE mem.mode = "apply" ->
         LET rest == mem.todo \ {Cur} IN
           /\ pc' = IF rest = {} THEN "pending" ELSE "entry"
           /\ mem' = [mem EXCEPT !.todo = rest, !.failed = @ \cup {Cur}, !.err = Worse("failed"),
                                 !.raw = None, !.goal = None]
    [] mem.mode = "release" -> pc' = "applied" /\ mem' = [mem EXCEPT !.err = Worse("failed")]
    [] OTHER                -> pc' = "undone" /\ mem' = [mem EXCEPT !.err = "failed"]

Swapped == pc' = mem.then /\ mem' = [mem EXCEPT !.raw = None, !.goal = None]

\* Claim the file; a claim that is already there is replayed.
Take ==
  /\ pc = "take" /\ UNCHANGED <<durable, gw, user>>
  /\ \/ /\ claim = None /\ file # None
        /\ claim' = file /\ file' = None /\ Goto("publish") /\ Free
     \/ /\ claim = None /\ file = None
        /\ SwapFailed /\ Free /\ UNCHANGED files
     \/ /\ claim # None /\ claim # mem.raw
        /\ SwapFailed /\ Free /\ UNCHANGED files
     \/ /\ claim # None /\ claim = mem.raw /\ file = None
        /\ Goto("publish") /\ Free /\ UNCHANGED files
     \/ /\ claim # None /\ claim = mem.raw /\ file # None /\ UNCHANGED file
        /\ \/ claim' = None /\ (IF file = mem.goal THEN Swapped ELSE SwapFailed) /\ Free
           \/ UNCHANGED claim /\ SwapFailed /\ Spend("faults")
     \/ /\ claim = None /\ file # None
        /\ SwapFailed /\ Spend("faults") /\ UNCHANGED files

\* Mutant: the claim is taken for what was read.
PublishUnchecked ==
  /\ pc = "publish" /\ UNCHANGED <<durable, claim, gw, user>>
  /\ file' = mem.goal /\ Goto("retire") /\ Free

\* Compare the claim and publish under the free name, without replacing.
Publish ==
  /\ pc = "publish" /\ UNCHANGED <<durable, gw, user>>
  /\ \/ /\ claim # mem.raw
        /\ SwapFailed /\ Free /\ UNCHANGED files
     \/ /\ claim = mem.raw /\ file # None
        /\ claim' = None /\ SwapFailed /\ Free /\ UNCHANGED file
     \/ /\ claim = mem.raw /\ file = None
        /\ \/ file' = mem.goal /\ Goto("retire") /\ Free /\ UNCHANGED claim
           \/ /\ Spend("faults") /\ SwapFailed
              /\ \/ file' = claim /\ claim' = None
                 \/ file' = mem.goal /\ UNCHANGED claim

\* Drop the claim, which is the file that was read.
Retire ==
  /\ pc = "retire" /\ UNCHANGED <<durable, file, gw, user>>
  /\ \/ claim' = None /\ Swapped /\ Free
     \/ UNCHANGED claim /\ SwapFailed /\ Spend("faults")

\* Read the file, and exchange it for one with this value when it differs.
SetProxy(v, p) ==
  IF file.proxy = v THEN pc' = p /\ UNCHANGED mem
  ELSE /\ pc' = "take"
       /\ mem' = [mem EXCEPT !.raw = file, !.goal = [file EXCEPT !.proxy = v], !.then = p]

----------------------------------------------------------------------------
(* Applying                                                                *)

\* One target of the preparing loop is done, or has failed.
NextTarget == pc' = (IF mem.todo = {Cur} THEN "pending" ELSE "entry")
              /\ mem' = [mem EXCEPT !.todo = @ \ {Cur}]

Prepared ==
  /\ pc = "prepared" /\ NextTarget
  /\ UNCHANGED <<durable, files, gw, user, left>>

\* The value in the file may be replaced.
Acceptable ==
  CASE entry.phase = "active"   -> file.proxy = entry.managed
    [] entry.phase = "prepared" ->
         \/ file.proxy \in {entry.pending, entry.managed}
         \/ entry.pending = entry.managed /\ file.proxy = entry.orig
    [] OTHER -> FALSE

\* applyOpenClawTelegramProxy: record the ownership, then write the file.
ApplyEntry ==
  LET t == Cur  c == rec.cand.proxy IN
  /\ pc = "entry" /\ UNCHANGED <<store, rec, files, gw, user>>
  /\ IF ~Valid(t) \/ file = None
     THEN SwapFailed /\ Free /\ UNCHANGED entry
     ELSE IF entry = None
     THEN SaveEntry(Entry(file.proxy, c, c, {t}, {t}, "prepared"), SetProxy(c, "prepared"), SwapFailed)
     ELSE IF ~Acceptable
     THEN SwapFailed /\ Free /\ UNCHANGED entry
     ELSE IF entry.phase = "active" /\ entry.managed = c
     THEN IF t \in entry.targets
          THEN NextTarget /\ Free /\ UNCHANGED entry
          ELSE SaveEntry([entry EXCEPT !.targets = @ \cup {t}, !.ptargets = {t}, !.pending = c,
                                       !.phase = "prepared"],
                         NextTarget, SwapFailed)
     ELSE LET ts == entry.targets \cup {t} IN
          SaveEntry([entry EXCEPT !.targets = ts, !.ptargets = ts, !.pending = c,
                                  !.phase = "prepared"],
                    SetProxy(c, "prepared"), SwapFailed)

\* reconcileTelegramPreparedOpenClaw and the daemon-reload: every pending
\* gateway that could be prepared is reconciled, and none without the reload.
Pending ==
  /\ pc = "pending" /\ UNCHANGED <<durable, files, gw, user>>
  /\ LET act == (IF entry = None THEN {} ELSE entry.ptargets) \ mem.failed IN
       \/ /\ pc' = IF act = {} THEN "applied" ELSE "expect"
          /\ mem' = [mem EXCEPT !.todo = act] /\ Free
       \/ /\ act # {} /\ Spend("faults")
          /\ pc' = "applied" /\ mem' = [mem EXCEPT !.err = Worse("failed")]

----------------------------------------------------------------------------
(* Reconciling one gateway: reconcileOpenClawTelegramTarget                *)

\* The value a prepared or restoring entry is about to reach.
Expected == IF entry.phase = "prepared" THEN entry.pending ELSE entry.orig

InTransaction(t) ==
  /\ Valid(t) /\ file # None /\ entry # None
  /\ t \in entry.targets /\ entry.phase # "active" /\ file.proxy = Expected

\* A failure of one target; the others go on, except in compensation.
Fail(e) ==
  CASE mem.mode = "undo" ->
         IF e = "unsettled" THEN Exit ELSE pc' = "undone" /\ mem' = [mem EXCEPT !.err = e]
    [] OTHER ->
         LET rest == mem.todo \ {Cur} IN
           /\ pc' = IF rest # {} THEN "expect" ELSE "applied"
           /\ mem' = [mem EXCEPT !.todo = rest, !.err = Worse(e), !.raw = None]

\* The target is reconciled: commit it, or go on with the next one.
Reconciled ==
  CASE mem.mode = "apply" \/ (mem.mode = "undo" /\ rec.before # None) ->
         pc' = "commit" /\ mem' = [mem EXCEPT !.raw = None]
    [] OTHER ->
         LET rest == mem.todo \ {Cur} IN
           /\ mem' = [mem EXCEPT !.todo = rest, !.raw = None]
           /\ pc' = IF rest # {} THEN (IF mem.mode = "undo" THEN "restart" ELSE "expect")
                    ELSE IF mem.mode = "undo" THEN "final"
                    ELSE IF mem.err = "none" THEN "forget" ELSE "applied"

\* Release skips a gateway that is gone; without a baseline nothing is
\* observed.  The journal and the file have to agree before and after.
Expect ==
  LET t == Cur IN
  /\ pc = "expect" /\ UNCHANGED <<durable, files, gw, user, left>>
  /\ IF mem.mode = "release" /\ ~Valid(t) THEN Reconciled
     ELSE IF mem.plan[t] = None THEN Goto("restart")
     ELSE IF ~InTransaction(t) THEN Fail("failed")
     ELSE pc' = "observe" /\ mem' = [mem EXCEPT !.raw = file]

\* Mutant: the new file is enough, whatever the channel runs with.
HashOnly(t) ==
  IF mem.plan[t].kind = "inactive" THEN ~gw[t].up
  ELSE /\ gw[t].up /\ t \notin mem.proc
       /\ gw[t].applied # mem.plan[t].applied
       /\ gw[t].applied = file /\ gw[t].applied.proxy = mem.raw.proxy

\* What observeOpenClawTelegramReload accepts.
Evidence(t) ==
  IF mem.plan[t].kind = "inactive" THEN ~gw[t].up
  ELSE /\ gw[t].up /\ t \notin mem.proc
       /\ gw[t].applied # mem.plan[t].applied
       /\ gw[t].applied = file /\ gw[t].applied.proxy = mem.raw.proxy
       /\ ~gw[t].pend /\ t \in mem.chan

\* It polls until the evidence is there or the time is up.
Observe ==
  LET t == Cur IN
  /\ pc = "observe" /\ UNCHANGED <<durable, files, gw, user, left, mem>>
  /\ \/ Evidence(t) /\ pc' = "confirm"
     \/ pc' = "fallback"

\* finishOpenClawTelegramReload after the observation: disk and journal are
\* still what was observed.
Confirm ==
  LET t == Cur IN
  /\ pc \in {"confirm", "fallback"} /\ UNCHANGED <<durable, files, gw, user, left>>
  /\ IF ~InTransaction(t) \/ file # mem.raw THEN Fail("failed")
     ELSE IF pc = "confirm" THEN Reconciled
     ELSE pc' = "restart" /\ UNCHANGED mem

\* restartTelegramTargetForOperation, after the check of a recovered target's
\* unit; a gateway that does not run is not started.
Restart ==
  LET t == Cur IN
  /\ pc = "restart" /\ UNCHANGED <<durable, files, user, left>>
  /\ IF mem.mode = "undo" /\ (t \in rec.skip \/ ~Valid(t))
     THEN (IF rec.before = None THEN Reconciled ELSE Goto("absent")) /\ UNCHANGED gw
     ELSE IF (mem.mode # "apply" /\ ~Valid(t)) \/ entry = None \/ t \notin entry.targets
     THEN Fail("failed") /\ UNCHANGED gw
     ELSE IF ~Settled(t) THEN Fail("unsettled") /\ UNCHANGED gw
     ELSE IF ~gw[t].up THEN Reconciled /\ UNCHANGED gw
     ELSE gw' = [gw EXCEPT ![t].job = TRUE] /\ Goto("wait")

\* The wait is bounded; when it ends first, the job is still systemd's.
Wait ==
  LET t == Cur IN
  /\ pc = "wait" /\ UNCHANGED <<durable, files, gw, user>>
  /\ \/ Settled(t) /\ (IF gw[t].up THEN Reconciled ELSE Fail("failed")) /\ Free
     \/ ~Settled(t) /\ Fail("unsettled") /\ Spend("faults")

\* Where a committed target leads.
Advance ==
  LET rest == mem.todo \ {Cur} IN
    /\ mem' = [mem EXCEPT !.todo = rest]
    /\ pc' = IF mem.mode = "undo" THEN (IF rest = {} THEN "final" ELSE "restart")
             ELSE IF rest = {} THEN "applied" ELSE "expect"

Committed(t) ==
  LET ps == entry.ptargets \ {t} IN
    IF ps # {} THEN [entry EXCEPT !.ptargets = ps]
    ELSE [entry EXCEPT !.ptargets = {}, !.managed = entry.pending, !.pending = None,
                       !.phase = "active"]

\* commitOpenClawTelegramProxyApply.
Commit ==
  LET t == Cur IN
  /\ pc = "commit" /\ UNCHANGED <<store, rec, files, gw, user>>
  /\ IF entry = None \/ t \notin entry.ptargets
     THEN Advance /\ Free /\ UNCHANGED entry
     ELSE IF entry.phase = "prepared" /\ Valid(t) /\ file # None /\ file.proxy = entry.pending
     THEN SaveEntry(Committed(t), Advance, Fail("failed"))
     ELSE Fail("failed") /\ Free /\ UNCHANGED entry

----------------------------------------------------------------------------
(* Releasing: cleanupManagedOpenClawTargets                                *)

\* prepareRestoreOpenClawTelegramProxy from an active entry, which is the only
\* one a plan lets through: a value of the user's becomes the one to restore.
Release ==
  /\ pc = "release" /\ UNCHANGED <<store, rec, files, gw, user>>
  /\ IF entry = None
     THEN pc' = "applied" /\ UNCHANGED <<mem, entry>> /\ Free
     ELSE IF file = None
     THEN SwapFailed /\ Free /\ UNCHANGED entry
     ELSE LET e == [entry EXCEPT !.phase = "restoring", !.pending = None, !.ptargets = {},
                                 !.orig = IF file.proxy = entry.managed THEN @ ELSE file.proxy]
          IN SaveEntry(e, IF file.proxy = entry.managed /\ file.proxy = entry.orig THEN Goto("drop")
                          ELSE SetProxy(e.orig, "restore"),
                       SwapFailed)

\* Nothing to restore: the entry goes without a restart.
Drop ==
  /\ pc = "drop" /\ UNCHANGED <<store, rec, files, gw, user>>
  /\ SaveEntry(None, Goto("applied"), SwapFailed)

\* The daemon-reload of a release; without it the entry keeps restoring.
Restore ==
  /\ pc = "restore" /\ UNCHANGED <<durable, files, gw, user>>
  /\ \/ pc' = "expect" /\ mem' = [mem EXCEPT !.todo = entry.targets] /\ Free
     \/ SwapFailed /\ Spend("faults")

\* commitOpenClawTelegramProxyRestore.
Forget ==
  /\ pc = "forget" /\ UNCHANGED <<store, rec, files, gw, user>>
  /\ IF entry = None THEN Goto("applied") /\ Free /\ UNCHANGED entry
     ELSE IF entry.phase = "restoring" /\ file # None /\ file.proxy = entry.orig
     THEN SaveEntry(None, Goto("applied"), SwapFailed)
     ELSE SwapFailed /\ Free /\ UNCHANGED entry

\* The end of the forward steps.
Applied ==
  /\ pc = "applied" /\ UNCHANGED <<entry, files, gw, user, left>>
  /\ IF mem.err = "none" THEN store' = rec.cand /\ rec' = None /\ Exit
     ELSE pc' = "failed" /\ UNCHANGED <<mem, store, rec>>

----------------------------------------------------------------------------
(* Compensation: compensateRuntimeTelegram, compensateRuntimeOpenClaw      *)

Compensate ==
  IF \A t \in rec.targets : Settled(t)
  THEN pc' = "undo" /\ mem' = [Fresh EXCEPT !.mode = "undo"]
  ELSE Exit

Failed ==
  /\ pc = "failed"
  /\ IF mem.err = "unsettled" THEN Exit ELSE Compensate
  /\ UNCHANGED <<durable, files, gw, user, left>>

Recover ==
  /\ pc = "idle" /\ rec # None /\ Compensate
  /\ UNCHANGED <<durable, files, gw, user, left>>

\* runtimeOpenClawValueAllowed, runtimeOpenClawEntryAllowed.
ValueAllowed(v) ==
  \/ v \in {rec.value, rec.allowed}
  \/ rec.before # None /\ v = rec.before.orig
EntryAllowed(e) ==
  e # None =>
    /\ e.orig = IF rec.before = None THEN rec.value ELSE rec.before.orig
    /\ e.targets \subseteq rec.targets
    /\ \A v \in {e.managed, e.pending} \ {None} : ValueAllowed(v)

\* Mutant: only the value is looked at.
BackByValue == file.proxy = rec.value

\* The file and the entry are as they were before the transaction.
Back == file.proxy = rec.value /\ entry = rec.before

\* What the entry announces while the gateways are taken back; the progress of
\* an earlier compensation is kept.
Recovery ==
  IF rec.before = None
  THEN [entry EXCEPT !.phase = "restoring", !.pending = None, !.ptargets = {}]
  ELSE LET m == rec.before.managed
           kept == /\ entry # None /\ entry.phase = "prepared" /\ entry.pending = m
                   /\ file.proxy = rec.value
       IN [rec.before EXCEPT !.targets = @ \cup rec.targets, !.phase = "prepared", !.pending = m,
                             !.ptargets = IF kept THEN entry.ptargets ELSE rec.targets]

Undo ==
  /\ pc = "undo" /\ UNCHANGED <<store, rec, files, gw, user>>
  /\ IF ~EntryAllowed(entry) \/ file = None
     THEN Fail("failed") /\ Free /\ UNCHANGED entry
     ELSE IF ~ValueAllowed(file.proxy)
     THEN Fail("failed") /\ Free /\ UNCHANGED entry
     ELSE IF Back
     THEN Goto("undone") /\ Free /\ UNCHANGED entry
     ELSE IF rec.before = None /\ entry = None
     THEN Fail("failed") /\ Free /\ UNCHANGED entry
     ELSE IF entry = Recovery
     THEN SetProxy(rec.value, "undoing") /\ Free /\ UNCHANGED entry
     ELSE SaveEntry(Recovery, SetProxy(rec.value, "undoing"), Fail("failed"))

\* The gateways that have to follow.
Undoing ==
  /\ pc = "undoing" /\ UNCHANGED <<durable, files, gw, user, left>>
  /\ mem' = [mem EXCEPT !.todo = IF rec.before = None THEN rec.targets ELSE entry.ptargets]
  /\ pc' = "restart"

\* runtimeCommitAbsentOpenClawTarget.
Absent ==
  LET t == Cur IN
  /\ pc = "absent" /\ UNCHANGED <<store, rec, files, gw, user>>
  /\ IF /\ entry # None /\ entry.phase = "prepared" /\ entry.pending = rec.before.managed
        /\ t \in entry.ptargets /\ EntryAllowed(entry)
        /\ file # None /\ file.proxy = rec.value
     THEN SaveEntry(Committed(t), Advance, Fail("failed"))
     ELSE Fail("failed") /\ Free /\ UNCHANGED entry

\* Check once more, and put the entry back as it was.
Final ==
  /\ pc = "final" /\ UNCHANGED <<store, rec, files, gw, user>>
  /\ IF file # None /\ file.proxy = rec.value /\ EntryAllowed(entry)
     THEN SaveEntry(rec.before, Goto("undone"), Fail("failed"))
     ELSE Fail("failed") /\ Free /\ UNCHANGED entry

\* The record goes only when everything is back.
Undone ==
  /\ pc = "undone" /\ Exit
  /\ rec' = IF mem.err = "none" THEN None ELSE rec
  /\ UNCHANGED <<store, entry, files, gw, user, left>>

----------------------------------------------------------------------------
(* The gateways and the user                                               *)

Started(g) == [g EXCEPT !.up = TRUE, !.job = FALSE, !.applied = file, !.chan = file.proxy,
                        !.pend = FALSE]
Stopped(g) == [g EXCEPT !.up = FALSE, !.job = FALSE, !.applied = None, !.chan = None,
                        !.pend = FALSE]
Renewed(t) == mem' = IF mem.plan[t] = None THEN mem
                     ELSE [mem EXCEPT !.chan = @ \cup {t}, !.proc = @ \cup {t}]

\* systemd carries out a queued restart; a gateway needs its file to come up.
JobDone(t) ==
  /\ gw[t].job /\ UNCHANGED <<durable, files, pc, user>> /\ Renewed(t)
  /\ \/ file # None /\ gw' = [gw EXCEPT ![t] = Started(@)] /\ Free
     \/ file = None /\ gw' = [gw EXCEPT ![t] = Stopped(@)] /\ Free
     \/ gw' = [gw EXCEPT ![t] = Stopped(@)] /\ Spend("faults")

\* The user starts or stops a gateway.
StartStop(t) ==
  /\ ~gw[t].job /\ gw[t].unit /\ (gw[t].up \/ file # None) /\ Spend("edits")
  /\ gw' = [gw EXCEPT ![t] = IF @.up THEN Stopped(@) ELSE Started(@)]
  /\ Renewed(t) /\ UNCHANGED <<durable, files, pc, user>>

\* A gateway that watches its file applies it; a new proxy makes it restart
\* the channel, which takes its time.
Apply(t) ==
  /\ t \in Observable /\ gw[t].up /\ file # None /\ gw[t].applied # file
  /\ gw' = [gw EXCEPT ![t].applied = file, ![t].pend = @ \/ gw[t].chan # file.proxy]
  /\ UNCHANGED <<durable, files, pc, mem, user, left>>

\* The channel restarts, because it has to or after an error of its own.
ChannelRestart(t) ==
  /\ t \in Observable /\ gw[t].up /\ (gw[t].pend \/ mem.plan[t] # None)
  /\ gw' = [gw EXCEPT ![t].chan = gw[t].applied.proxy, ![t].pend = FALSE]
  /\ mem' = IF mem.plan[t] = None THEN mem ELSE [mem EXCEPT !.chan = @ \cup {t}]
  /\ UNCHANGED <<durable, files, pc, user, left>>

\* The user saves other settings, or chooses a proxy.  An editor that has the
\* document open saves it also while the file is claimed.
Save ==
  /\ Spend("edits")
  /\ \E f \in ({file, claim} \ {None}), own \in BOOLEAN :
       /\ f = IF file # None THEN file ELSE claim
       /\ file' = [f EXCEPT !.edit = user.edit + 1, !.proxy = IF own THEN Own ELSE @]
       /\ user' = [user EXCEPT !.edit = @ + 1, !.touched = IF own THEN "own" ELSE @]
  /\ UNCHANGED <<durable, claim, gw, pc, mem>>

Remove ==
  /\ file # None /\ Spend("edits")
  /\ file' = None /\ user' = [user EXCEPT !.touched = "gone"]
  /\ UNCHANGED <<durable, claim, gw, pc, mem>>

Uninstall(t) ==
  /\ gw[t].unit /\ Spend("edits")
  /\ gw' = [gw EXCEPT ![t].unit = FALSE]
  /\ UNCHANGED <<durable, files, pc, mem, user>>

Kill ==
  /\ pc # "idle" /\ Exit /\ Spend("kills")
  /\ UNCHANGED <<durable, files, gw, user>>

----------------------------------------------------------------------------

Init ==
  /\ store = Off /\ rec = None /\ entry = None /\ claim = None
  /\ file \in [proxy : {Unset} \cup Proxies, edit : {0}]
  /\ gw \in [Targets -> {[unit |-> TRUE, up |-> TRUE, job |-> FALSE, applied |-> file,
                          chan |-> file.proxy, pend |-> FALSE],
                         [unit |-> TRUE, up |-> FALSE, job |-> FALSE, applied |-> None,
                          chan |-> None, pend |-> FALSE]}]
  /\ pc = "idle" /\ mem = Fresh
  /\ user = [edit |-> 0, orig |-> file.proxy, touched |-> "no"]
  /\ left = [commands |-> MaxCommands, kills |-> MaxKills, faults |-> MaxFaults,
             edits |-> MaxEdits]

Process ==
  \/ Validate \/ Baseline \/ Take \/ Publish \/ Retire
  \/ ApplyEntry \/ Prepared \/ Pending \/ Expect \/ Observe \/ Confirm \/ Restart \/ Wait
  \/ Commit \/ Release \/ Drop \/ Restore \/ Forget \/ Applied
  \/ Failed \/ Undo \/ Undoing \/ Absent \/ Final \/ Undone

Next ==
  \/ \E cand \in Settings : Plan(cand)
  \/ Process \/ Recover \/ Kill \/ Save \/ Remove
  \/ \E t \in Targets :
       JobDone(t) \/ StartStop(t) \/ Apply(t) \/ ChannelRestart(t) \/ Uninstall(t)

Spec == Init /\ [][Next]_vars

----------------------------------------------------------------------------
(* Properties                                                              *)

\* Every variable has its type.
TypeOK ==
  /\ store \in Settings
  /\ rec \in Records \cup {None}
  /\ {file, claim} \subseteq Files \cup {None}
  /\ entry \in Entries \cup {None}
  /\ entry # None =>
       /\ entry.targets # {} /\ entry.ptargets \subseteq entry.targets
       /\ entry.phase = "prepared" <=> entry.pending # None
       /\ entry.phase = "prepared" <=> entry.ptargets # {}
  /\ gw \in [Targets -> [unit : BOOLEAN, up : BOOLEAN, job : BOOLEAN, pend : BOOLEAN,
                         applied : Files \cup {None}, chan : Values \cup {None}]]

\* A gateway that a compensation takes out of the group again.
Leaving(t) == mem.mode # "apply" /\ rec # None /\ rec.before # None /\ t \notin rec.before.targets

\* A gateway the journal no longer lists as pending runs its channel with the
\* recorded proxy, whether it was observed or restarted: unless the user has
\* chosen a proxy meanwhile, the file's and the channel's value are the entry's.
CommittedIsServed ==
  entry # None /\ entry.phase # "restoring" /\ user.touched = "no" =>
    \A t \in entry.targets \ entry.ptargets :
      ~Leaving(t) /\ gw[t].unit /\ gw[t].up /\ ~gw[t].job =>
        gw[t].chan = IF entry.phase = "active" THEN entry.managed ELSE entry.pending

\* Between commands, when no recovery is owed, the journal, the file and the
\* channels all say what the store says, and the user's own value is back when
\* the scene is off: a change of the shared file and of several gateways is
\* all or nothing.
RestIsClean ==
  pc = "idle" /\ rec = None /\ user.touched = "no" =>
    /\ entry = IF store.on THEN Entry(user.orig, store.proxy, None, store.sel, {}, "active")
               ELSE None
    /\ file # None
    /\ file.proxy = IF store.on THEN store.proxy ELSE user.orig
    /\ \A t \in Targets : store.on /\ t \in store.sel /\ gw[t].unit /\ gw[t].up /\ ~gw[t].job
                             => gw[t].chan = file.proxy

\* What the user has saved last is never overwritten or removed: it is in the
\* file or under the claimed name, and a proxy the user has chosen is there
\* too or recorded as the original that a release puts back.
UserEditsKept ==
  user.touched # "gone" => \E f \in {file, claim} \ {None} :
    /\ f.edit = user.edit
    /\ user.touched = "own" => f.proxy = Own \/ (entry # None /\ entry.orig = Own)

===============================================================================
