------------------------- MODULE RuntimeTransition -------------------------
(***************************************************************************)
(* The outer runtime transaction of the manager: one state change (a scene *)
(* switched, a node selected, a boot-time reconciliation, a metadata edit) *)
(* is planned, recorded in runtime-transition.json, executed part by part  *)
(* and committed by replacing state.json.bak and then state.json.  A       *)
(* failure compensates the started parts in reverse; a crash leaves the    *)
(* record for "proxyscene recover" (or boot-restore), which finishes or    *)
(* compensates from the record alone.                                      *)
(*                                                                         *)
(* One process at a time holds the store lock (withStoreLock), so pc, mem, *)
(* seen and cas are the volatile state of that process; an administrator,  *)
(* systemd and crashes interleave with it between any two durable steps.   *)
(***************************************************************************)
EXTENDS Naturals, FiniteSets

CONSTANTS
  Scenes,      \* the scenes of the installation, a subset of SceneNames
  Setups,      \* what a scene can be configured to: its ports, its user, its targets
  Port,        \* the inbounds the core opens for a setup; some share theirs
  Configs,     \* the RuntimeConfigs, a setup for every scene
  Home,        \* the RuntimeConfig of an empty store
  Settings,    \* everything else of a store the core configuration depends on
  Fresh,       \* the settings of an empty store: no node to route through
  Restarting,  \* the scenes whose step waits for a systemd restart job
  Absent,      \* no file
  Corrupt,     \* a file that is present and does not decode
  None,        \* no transaction record
  Broken,      \* the core while its step is half done, what is served in between
  EditContents,\* what an administrator may put in place of a store file
  MaxGen,      \* the largest generation, ^uint64(0) in the code
  MaxTx,       \* bound: commands started
  MaxCrashes,  \* bound: processes killed
  MaxFaults,   \* bound: system calls and steps that fail
  MaxEdits     \* bound: external edits of the store files

SceneNames == {"global", "dev", "telegram"}
Core  == "core"
Parts == Scenes \cup {Core}
Files == {"main", "bak"}
Image == [gen : 0..MaxGen, on : SUBSET Scenes, cfg : Settings, conf : Configs]
Content == Image \cup {Absent, Corrupt}
Routes  == Setups \cup {"off", "mixed"}
Inbounds == {Port[c] : c \in Setups} \cup {"off"}
Served  == [cfg : Settings, at : [Scenes -> Inbounds]]
World   == [core : Served, side : [Scenes -> Routes]]
Phases  == {"applying", "committing", "compensating", "committed"}
Modes   == Scenes \cup {"none", "xray", "all"}
Receipt == [phase : Phases, mode : Modes, before : Image, cand : Image,
            comp : Image \cup {Absent}, ev : [Files -> Content],
            todo : SUBSET Parts, started : SUBSET Parts, restored : SUBSET Parts,
            route0 : [Scenes -> Routes], core0 : Served \cup {Broken}]
PCs == {"idle", "plan", "record", "step", "exec", "running", "precommit", "save",
        "commit_bak", "commit_check", "commit_main", "persist_failed", "verify",
        "committed", "remove", "recover_main", "recover_bak", "decide",
        "settle_main", "settle_bak", "admit", "revert", "reverting", "restored",
        "undo_bak", "undo_admit", "undo_main", "undo_verify"}

ASSUME SceneAssumption == Scenes \subseteq SceneNames /\ Restarting \subseteq Scenes
ASSUME SettingsAssumption == Fresh \in Settings
ASSUME ConfigAssumption ==
  /\ "off" \notin Setups /\ "mixed" \notin Setups /\ \A c \in Setups : Port[c] # "off"
  /\ Configs \subseteq [Scenes -> Setups] /\ Home \in Configs
ASSUME SentinelAssumption ==
  /\ Absent \notin Image /\ Corrupt \notin Image /\ Absent # Corrupt
  /\ None \notin Receipt /\ Broken \notin Served
ASSUME ClosedAssumption == None \notin [new : World, done : BOOLEAN] /\ Broken \notin World
ASSUME BoundAssumption ==
  /\ MaxGen \in Nat /\ MaxTx \in Nat /\ MaxCrashes \in Nat
  /\ MaxFaults \in Nat /\ MaxEdits \in Nat
ASSUME EditAssumption == EditContents \subseteq Content

VARIABLES
  file,   \* state.json ("main") and state.json.bak ("bak")
  quar,   \* the inode a compare-and-swap of a store file has claimed
  rec,    \* runtime-transition.json
  route,  \* per scene: the setup its external side (/etc files, git/npm, units) is at
  core,   \* the configuration Xray serves, Broken while a core step is half done
  jobs,   \* scenes with a systemd restart job nobody waits for any more
  stuck,  \* parts stopped in a state that their own restoration refuses
  pc,     \* where the process holding the store lock is
  mem,    \* its in-memory record
  seen,   \* the store evidence read by finishRuntimeCompensationStore
  cas,    \* progress of the compare-and-swap the process is in
  issued, \* history: every image the manager has published in a store file
  txs, crashes, faults, edits

durable  == <<file, quar, issued>>
runtime  == <<route, core, jobs, stuck>>
budget   == <<txs, crashes, faults, edits>>
vars     == <<durable, rec, runtime, pc, mem, seen, cas, budget>>

-----------------------------------------------------------------------------
(* What the store files mean, and what a plan computes from them.          *)

NewStore == [gen |-> 0, on |-> {}, cfg |-> Fresh, conf |-> Home]
Stopped  == [cfg |-> Fresh, at |-> [s \in Scenes |-> "off"]]

\* loadStoreRaw: main, or the backup when main is missing or does not decode;
\* a store with neither file is new, anything else is an error.
Loadable(f) == \/ f["main"] \in Image \/ f["bak"] \in Image
               \/ f["main"] = Absent /\ f["bak"] = Absent
Load(f) == IF f["main"] \in Image THEN f["main"]
           ELSE IF f["bak"] \in Image THEN f["bak"] ELSE NewStore

\* Mutant of Gens: only main is looked at, like a plain load.
MainGens(f) == {0} \cup {f[x].gen : x \in {y \in {"main"} : f[y] \in Image}}

\* highestStoreGeneration: files that do not decode are skipped.
Gens(f) == {0} \cup {f[x].gen : x \in {y \in Files : f[y] \in Image}}
Highest(f) == CHOOSE g \in Gens(f) : \A h \in Gens(f) : h <= g
Larger(a, b) == IF a >= b THEN a ELSE b

\* renderXrayConfig: one set of inbounds per enabled scene, no process without one.
Inbound(img, s) == IF s \in img.on THEN Port[img.conf[s]] ELSE "off"
Serve(img) == IF img.on = {} THEN Stopped
              ELSE [cfg |-> img.cfg, at |-> [s \in Scenes |-> Inbound(img, s)]]

\* The external side of a scene an image asks for.
Side(img, s) == IF s \in img.on THEN img.conf[s] ELSE "off"

\* validateStoreSemantics: without a node no scene stays enabled.
Valid(on, cfg) == on # {} => cfg # Fresh

\* The order of a plan: scenes the candidate disables, the core, scenes it enables,
\* each group in the fixed order global, dev, telegram.
SceneRank(s) == IF s = "global" THEN 1 ELSE IF s = "dev" THEN 2 ELSE 3
\* Mutant of Rank: one fixed order, without moving what a candidate disables first.
RankUngrouped(r, p) == IF p = Core THEN 4 ELSE SceneRank(p)
Rank(r, p) == IF p = Core THEN 4 ELSE SceneRank(p) + (IF p \in r.cand.on THEN 4 ELSE 0)
First(r, S) == CHOOSE p \in S : \A q \in S : Rank(r, p) <= Rank(r, q)
Last(r, S)  == CHOOSE p \in S : \A q \in S : Rank(r, q) <= Rank(r, p)
Current == Last(mem, mem.started)

\* Mutant of PlannedScenes: an enabled scene stays as it is when its setup changes.
PlannedUnmoved(r) ==
  {s \in Scenes : \/ (s \in r.before.on) # (s \in r.cand.on)
                  \/ r.mode = s
                  \/ r.mode = "all" /\ (s \in r.cand.on \/ route[s] # "off")}

\* planRuntimeMutation: scenes switched, asked for or set up differently; boot-restore
\* also takes every enabled or still owned scene; the core unless it already serves
\* the candidate.
PlannedScenes(r) ==
  {s \in Scenes :
     \/ (s \in r.before.on) # (s \in r.cand.on)
     \/ r.mode = s
     \/ /\ r.mode = "all" \/ r.before.conf[s] # r.cand.conf[s]
        /\ s \in r.cand.on \/ route[s] # "off"}
PlannedParts(r) ==
  IF r.mode = "none" THEN {}
  ELSE PlannedScenes(r) \cup (IF core = Serve(r.cand) THEN {} ELSE {Core})

\* Mutant of Allowed: the compensated store of an earlier attempt is unknown.
AllowedWithoutUndo(r, f) == {r.ev[f], r.cand}

\* The store contents a record accepts in a file, or in its quarantine.
Allowed(r, f) == {r.ev[f], r.cand} \cup (IF r.comp = Absent THEN {} ELSE {r.comp})

\* validateTransitionStoreBeforeCompensation: a committed main is never undone.
Undoable(r) ==
  /\ file["main"] = r.ev["main"] \/ (r.comp # Absent /\ file["main"] = r.comp)
  /\ file["bak"] \in Allowed(r, "bak")

Committed(r) == file["main"] = r.cand /\ file["bak"] = r.cand

\* validateRuntimeTransition: what writeRuntimeTransition refuses to write.
WellFormed(r) ==
  /\ r.cand.gen > r.before.gen
  /\ r.restored \subseteq r.started
  /\ r.comp # Absent => /\ r.phase = "compensating" /\ r.comp.gen > r.cand.gen
                        /\ r.comp = [r.before EXCEPT !.gen = r.comp.gen]

-----------------------------------------------------------------------------
(* Building blocks of the actions.                                         *)

Goto(l) == pc' = l

\* The command returns: the process and its memory are gone.
Exit == /\ pc' = "idle" /\ mem' = None
        /\ seen' = [f \in Files |-> Absent] /\ cas' = "claim"

Fault == faults < MaxFaults /\ faults' = faults + 1

\* writeRuntimeTransition: the record in memory has changed already; writing it
\* succeeds, or fails before the rename or after it (the directory sync).
WriteRec(r, next, Failed) ==
  \/ /\ WellFormed(r) /\ rec' = r /\ mem' = r /\ Goto(next)
     /\ UNCHANGED <<seen, cas, faults>>
  \/ /\ ~WellFormed(r) /\ Failed /\ UNCHANGED <<rec, faults>>
  \/ /\ WellFormed(r) /\ Fault /\ rec' \in {rec, r} /\ Failed

\* After a failed write the forward path compensates from its memory ...
Compensate(r) == mem' = r /\ Goto("settle_main") /\ UNCHANGED <<seen, cas>>

\* ... with the record it could not write.
RemoveRec ==
  \/ rec' = None /\ UNCHANGED faults
  \/ Fault /\ rec' \in {rec, None}

Publish(f, c) == file' = [file EXCEPT ![f] = c] /\ issued' = issued \cup {c}

\* writeRuntimeStoreCAS and writeBoundedArtifactCAS: claim the inode into the
\* quarantine, publish the new file only where there is none, retire the claim.
\* Reading the file and claiming it are two steps: a claim that turns out to hold
\* something else is put back, or left aside when the name is taken again.
Claim(f, want, err) ==
  \/ /\ cas = "claim" /\ file[f] # want
     /\ Goto(err) /\ UNCHANGED <<durable, cas, faults>>
  \/ /\ cas = "claim" /\ file[f] = want /\ want # Absent /\ quar[f] = Absent
     /\ cas' = "take" /\ UNCHANGED <<durable, pc, faults>>
  \/ /\ cas = "take" /\ file[f] = Absent
     /\ cas' = "claim" /\ UNCHANGED <<durable, pc, faults>>
  \/ /\ cas = "take" /\ file[f] # Absent
     /\ quar' = [quar EXCEPT ![f] = file[f]] /\ file' = [file EXCEPT ![f] = Absent]
     /\ \/ cas' = "publish" /\ UNCHANGED <<pc, issued, faults>>
        \/ cas' = "claim" /\ Goto(err) /\ Fault /\ UNCHANGED issued

\* Mutant of PutBack: a claim of something else is deleted instead of put back.
DropClaim(f) == quar' = [quar EXCEPT ![f] = Absent] /\ UNCHANGED file
PutBack(f) == file' = [file EXCEPT ![f] = quar[f]] /\ quar' = [quar EXCEPT ![f] = Absent]
Retire(f)  == quar' = [quar EXCEPT ![f] = Absent]

PublishClaimed(f, want, new, err) ==
  /\ cas = "publish"
  /\ \/ /\ quar[f] # want
        /\ IF file[f] = Absent THEN PutBack(f) ELSE UNCHANGED <<file, quar>>
        /\ cas' = "claim" /\ Goto(err) /\ UNCHANGED <<issued, faults>>
     \/ /\ quar[f] = want /\ file[f] # Absent /\ Retire(f)
        /\ cas' = "claim" /\ Goto(err) /\ UNCHANGED <<file, issued, faults>>
     \/ /\ quar[f] = want /\ file[f] = Absent
        /\ Publish(f, new) /\ cas' = "retire" /\ UNCHANGED <<pc, quar, faults>>
     \/ /\ quar[f] = want /\ file[f] = Absent /\ Fault
        /\ \/ PutBack(f) /\ UNCHANGED issued
           \/ Publish(f, new) /\ UNCHANGED quar
           \/ UNCHANGED durable
        /\ cas' = "claim" /\ Goto(err)

Swap(f, want, new, ok, err) ==
  \/ Claim(f, want, err)
  \/ /\ cas = "claim" /\ file[f] = want /\ want = Absent /\ quar[f] = Absent
     /\ Publish(f, new) /\ UNCHANGED <<quar, cas>>
     /\ \/ Goto(ok) /\ UNCHANGED faults
        \/ Goto(err) /\ Fault
  \/ PublishClaimed(f, want, new, err)
  \/ /\ cas = "retire" /\ cas' = "claim"
     /\ \/ Retire(f) /\ Goto(ok) /\ UNCHANGED <<file, issued, faults>>
        \/ UNCHANGED durable /\ Goto(err) /\ Fault

\* Mutant of Settle: every claim is put back, over whatever is in place.
SettleOver(f, next) ==
  /\ IF quar[f] = Absent THEN UNCHANGED <<file, quar>> ELSE PutBack(f)
  /\ Goto(next) /\ UNCHANGED <<mem, seen, cas, faults>>

\* settleRuntimeStoreQuarantine: put a claim back where the file is missing, retire
\* it where an allowed file is in place, and stop at anything else.
Settle(f, next) ==
  \/ /\ quar[f] = Absent /\ Goto(next)
     /\ UNCHANGED <<file, quar, mem, seen, cas, faults>>
  \/ /\ quar[f] # Absent /\ quar[f] \in Allowed(mem, f) /\ file[f] = Absent
     /\ file' = [file EXCEPT ![f] = quar[f]] /\ quar' = [quar EXCEPT ![f] = Absent]
     /\ Goto(next) /\ UNCHANGED <<mem, seen, cas, faults>>
  \/ /\ quar[f] # Absent /\ quar[f] \in Allowed(mem, f)
     /\ file[f] # Absent /\ file[f] \in Allowed(mem, f)
     /\ quar' = [quar EXCEPT ![f] = Absent]
     /\ Goto(next) /\ UNCHANGED <<file, mem, seen, cas, faults>>
  \/ /\ quar[f] # Absent
     /\ \/ quar[f] \notin Allowed(mem, f)
        \/ file[f] # Absent /\ file[f] \notin Allowed(mem, f)
     /\ Exit /\ UNCHANGED <<file, quar, faults>>
  \/ quar[f] # Absent /\ Fault /\ Exit /\ UNCHANGED <<file, quar>>

\* The external side of part p: a scene's route, or the core.
SetPart(p, r, c) ==
  IF p = Core THEN core' = c /\ UNCHANGED route
  ELSE route' = [route EXCEPT ![p] = r] /\ UNCHANGED core

Target(p) == Side(mem.cand, p)

-----------------------------------------------------------------------------
(* commitPlannedStoreMutation: plan, record, execute, commit.              *)

\* What a command asks of the store it loaded: one scene switched, other nodes behind
\* the same scenes, no node at all, or nothing new (boot-restore and metadata edits).
\* Every command but a metadata edit also brings the settings and the setups its
\* environment overrides (loadStore).
Asked(mode, st, on, cfg, conf) ==
  /\ mode \in Scenes => /\ on \in {st.on \cup {mode}, st.on \ {mode}}
                        /\ (cfg = Fresh) = (st.cfg = Fresh)
  /\ mode = "xray" => on = st.on
  /\ mode = "all"  => \/ on = st.on
                      \/ on = {} /\ cfg = Fresh
  /\ mode = "none" => on = st.on /\ cfg = st.cfg /\ conf = st.conf

\* The record such a command starts from; its plan fixes the rest.
Draft(mode, on, cfg, conf) ==
  [phase |-> "applying", mode |-> mode, before |-> Load(file),
   cand |-> [gen |-> 0, on |-> on, cfg |-> cfg, conf |-> conf], comp |-> Absent,
   ev |-> [f \in Files |-> Absent], todo |-> {}, started |-> {}, restored |-> {},
   route0 |-> route, core0 |-> core]

\* A command loads the store and applies its mutation to a copy; with a pending
\* record it is refused.
Begin ==
  /\ pc = "idle" /\ rec = None /\ Loadable(file) /\ txs < MaxTx
  /\ \E mode \in Modes, on \in SUBSET Scenes, cfg \in Settings, conf \in Configs :
       /\ Asked(mode, Load(file), on, cfg, conf)
       /\ mem' = Draft(mode, on, cfg, conf)
  /\ Goto("plan") /\ txs' = txs + 1
  /\ UNCHANGED <<durable, rec, runtime, seen, cas, crashes, faults, edits>>

\* validateRuntimeStoreBefore: the files still hold the store this command loaded.
BeforeHolds == Loadable(file) /\ Load(file) = mem.before

\* Mutant of GenerationReserved: no room for a compensation.
CandidateReserved == Larger(Highest(file), mem.before.gen) < MaxGen

\* A candidate takes the next generation and leaves one more for a compensation.
GenerationReserved == Larger(Highest(file), mem.before.gen) + 1 < MaxGen

\* validateRuntimeTelegramSettled: no restart of the part is outstanding.
\* Mutant: nobody asks.
SettledUnasked(p) == TRUE
Settled(p) == p \notin jobs

\* No half-done route or core is planned over (pending journals, unconfirmed core).
RuntimeSettled ==
  mem.mode # "none" =>
    /\ core # Broken
    /\ \A s \in PlannedScenes(mem) : route[s] # "mixed" /\ Settled(s)

\* planRuntimeMutation or planMetadataMutation, and validateRuntimeMutation.  The record
\* does not name the command it was planned for.
Plan ==
  /\ pc = "plan"
  /\ IF BeforeHolds /\ GenerationReserved /\ RuntimeSettled /\ Valid(mem.cand.on, mem.cand.cfg)
     THEN /\ mem' = [mem EXCEPT !.cand.gen = Larger(Highest(file), mem.before.gen) + 1,
                                !.ev = file, !.todo = PlannedParts(mem), !.mode = "none",
                                !.route0 = route, !.core0 = core]
          /\ Goto("record") /\ UNCHANGED <<seen, cas>>
     ELSE Exit
  /\ UNCHANGED <<durable, rec, runtime, budget>>

Record ==
  /\ pc = "record"
  /\ WriteRec(mem, "step", Exit)
  /\ UNCHANGED <<durable, runtime, txs, crashes, edits>>

\* The next part is marked started, durably, before it is touched; the store is
\* checked first.
StepStart ==
  /\ pc = "step" /\ mem.started # mem.todo
  /\ LET r == [mem EXCEPT !.started = @ \cup {First(mem, mem.todo \ mem.started)}] IN
     IF file = mem.ev
     THEN WriteRec(r, "exec", Compensate(r))
     ELSE Compensate(mem) /\ UNCHANGED <<rec, faults>>
  /\ UNCHANGED <<durable, runtime, txs, crashes, edits>>

\* Releasing a route that was never attached touches nothing.
StepRun ==
  /\ pc = "exec"
  /\ SetPart(Current, IF route[Current] = "off" /\ Target(Current) = "off" THEN "off" ELSE "mixed",
             Broken)
  /\ Goto("running")
  /\ UNCHANGED <<durable, rec, jobs, stuck, mem, seen, cas, budget>>

StepDone ==
  /\ pc = "running"
  /\ SetPart(Current, Target(Current), Serve(mem.cand))
  /\ Goto("step")
  /\ UNCHANGED <<durable, rec, jobs, stuck, mem, seen, cas, budget>>

\* Work on part p that ends in the middle may leave what the part's own restoration
\* refuses for good: a core file that is only in the quarantine of its swap, say
\* (compensateCorePlan), or a value that is neither the old nor the new one.
MayStick(p) == stuck' \in {stuck, stuck \cup {p}}

\* The part fails with nothing, some or all of its work done, or rolled back.
StepFail ==
  /\ pc \in {"exec", "running"} /\ Fault
  /\ \/ pc = "exec" /\ UNCHANGED <<route, core, stuck>>
     \/ pc = "running" /\ UNCHANGED <<route, core>> /\ MayStick(Current)
     \/ /\ pc = "running" /\ SetPart(Current, Target(Current), Serve(mem.cand))
        /\ UNCHANGED stuck
     \/ /\ pc = "running" /\ SetPart(Current, mem.route0[Current], mem.core0)
        /\ UNCHANGED stuck
  /\ Compensate(mem)
  /\ UNCHANGED <<durable, rec, jobs, txs, crashes, edits>>

\* errSystemdRestartUnsettled: the client gave up, the job did not.  The record is
\* kept and nothing is compensated.
StepUnsettled ==
  /\ pc = "running" /\ Current \in Restarting /\ route[Current] = "mixed" /\ Fault
  /\ jobs' = jobs \cup {Current}
  /\ Exit
  /\ UNCHANGED <<durable, rec, route, core, stuck, txs, crashes, edits>>

\* The candidate is replaced here by what the execution made of it: Telegram targets
\* whose claims it has retired are gone from it.  An Image has no targets, and no store
\* file can hold the planned candidate yet.
WriteCommitting ==
  /\ pc = "step" /\ mem.started = mem.todo
  /\ LET r == [mem EXCEPT !.phase = "committing"] IN WriteRec(r, "precommit", Compensate(r))
  /\ UNCHANGED <<durable, runtime, txs, crashes, edits>>

\* A store changed during execution keeps the record, without compensation.
Precommit ==
  /\ pc = "precommit"
  /\ IF file = mem.ev THEN Goto("save") /\ UNCHANGED <<mem, seen, cas>> ELSE Exit
  /\ UNCHANGED <<durable, rec, runtime, budget>>

\* savePlannedRuntimeStore: the backup first, main as the commit point.
Save ==
  /\ pc = "save"
  /\ Goto(IF file = mem.ev THEN "commit_bak" ELSE "persist_failed")
  /\ UNCHANGED <<durable, rec, runtime, mem, seen, cas, budget>>

CommitBackup ==
  /\ pc = "commit_bak"
  /\ Swap("bak", mem.ev["bak"], mem.cand, "commit_check", "persist_failed")
  /\ UNCHANGED <<rec, runtime, mem, seen, txs, crashes, edits>>

CommitCheck ==
  /\ pc = "commit_check"
  /\ Goto(IF file["bak"] = mem.cand THEN "commit_main" ELSE "persist_failed")
  /\ UNCHANGED <<durable, rec, runtime, mem, seen, cas, budget>>

CommitMain ==
  /\ pc = "commit_main"
  /\ Swap("main", mem.ev["main"], mem.cand, "verify", "persist_failed")
  /\ UNCHANGED <<rec, runtime, mem, seen, txs, crashes, edits>>

\* A failed save is compensated unless main already holds the candidate.
PersistFailed ==
  /\ pc = "persist_failed"
  /\ IF file["main"] = mem.cand THEN Exit ELSE Compensate(mem)
  /\ UNCHANGED <<durable, rec, runtime, budget>>

Verify ==
  /\ pc = "verify"
  /\ IF Committed(mem)
     THEN WriteRec([mem EXCEPT !.phase = "committed"], "committed", Exit)
     ELSE Exit /\ UNCHANGED <<rec, faults>>
  /\ UNCHANGED <<durable, runtime, txs, crashes, edits>>

\* validateRuntimeStoreCommitted once more, finalize, then drop the record.
Finalize ==
  /\ pc = "committed"
  /\ IF Committed(mem) THEN Goto("remove") /\ UNCHANGED <<mem, seen, cas>> ELSE Exit
  /\ UNCHANGED <<durable, rec, runtime, budget>>

Remove ==
  /\ pc = "remove"
  /\ RemoveRec /\ Exit
  /\ UNCHANGED <<durable, runtime, txs, crashes, edits>>

-----------------------------------------------------------------------------
(* compensateRuntimeTransition and finishRuntimeCompensationStore.         *)

SettleMain ==
  /\ pc = "settle_main" /\ Settle("main", "settle_bak")
  /\ UNCHANGED <<rec, issued, runtime, txs, crashes, edits>>

SettleBackup ==
  /\ pc = "settle_bak" /\ Settle("bak", "admit")
  /\ UNCHANGED <<rec, issued, runtime, txs, crashes, edits>>

Admit ==
  /\ pc = "admit"
  /\ IF Undoable(mem)
     THEN WriteRec([mem EXCEPT !.phase = "compensating"], "revert", Exit)
     ELSE Exit /\ UNCHANGED <<rec, faults>>
  /\ UNCHANGED <<durable, runtime, txs, crashes, edits>>

\* Mutant of Unrestored: a part that failed is taken to have cleaned up after itself.
UnrestoredButLast == mem.started \ (mem.restored \cup {p \in mem.started : p = Current})

\* Started parts that are not restored yet, the last one first.
Unrestored == mem.started \ mem.restored
Reverting  == Last(mem, Unrestored)

\* Nothing is restored under a restart job, nor where the part's own checks refuse.
RevertStart ==
  /\ pc = "revert" /\ Unrestored # {}
  /\ IF ~Settled(Reverting) \/ Reverting \in stuck
     THEN Exit /\ UNCHANGED <<route, core>>
     ELSE /\ SetPart(Reverting, IF route[Reverting] = mem.route0[Reverting]
                                THEN route[Reverting] ELSE "mixed",
                     IF core = mem.core0 THEN core ELSE Broken)
          /\ Goto("reverting") /\ UNCHANGED <<mem, seen, cas>>
  /\ UNCHANGED <<durable, rec, jobs, stuck, budget>>

RevertDone ==
  /\ pc = "reverting"
  /\ SetPart(Reverting, mem.route0[Reverting], mem.core0)
  /\ Goto("restored")
  /\ UNCHANGED <<durable, rec, jobs, stuck, mem, seen, cas, budget>>

\* A part that cannot be restored, before or after it was touched, stops the
\* compensation and keeps the record.  A restart it issued may go unsettled too.
RevertFail ==
  /\ pc \in {"revert", "reverting"} /\ Unrestored # {} /\ Fault
  /\ \/ pc = "revert" /\ UNCHANGED <<jobs, stuck>>
     \/ pc = "reverting" /\ MayStick(Reverting) /\ UNCHANGED jobs
     \/ /\ pc = "reverting" /\ Reverting \in Restarting /\ route[Reverting] = "mixed"
        /\ jobs' = jobs \cup {Reverting} /\ UNCHANGED stuck
  /\ Exit
  /\ UNCHANGED <<durable, rec, route, core, txs, crashes, edits>>

MarkRestored ==
  /\ pc = "restored"
  /\ WriteRec([mem EXCEPT !.restored = @ \cup {Reverting}], "revert", Exit)
  /\ UNCHANGED <<durable, runtime, txs, crashes, edits>>

\* Nothing left to restore: an untouched store drops the record, any other gets the
\* before-image under a generation no store file has carried.
FinishStore ==
  /\ pc = "revert" /\ Unrestored = {}
  /\ IF ~Undoable(mem) THEN Exit /\ UNCHANGED <<rec, faults>>
     ELSE IF file = mem.ev THEN Goto("remove") /\ UNCHANGED <<rec, mem, seen, cas, faults>>
     ELSE IF mem.comp # Absent
          THEN Goto("undo_bak") /\ seen' = file /\ UNCHANGED <<rec, mem, cas, faults>>
     ELSE IF Highest(file) >= MaxGen THEN Exit /\ UNCHANGED <<rec, faults>>
     ELSE LET r == [mem EXCEPT !.comp = [mem.before EXCEPT !.gen = Highest(file) + 1]] IN
          \/ /\ WellFormed(r) /\ rec' = r /\ mem' = r
             /\ Goto("undo_bak") /\ seen' = file /\ UNCHANGED <<cas, faults>>
          \/ ~WellFormed(r) /\ Exit /\ UNCHANGED <<rec, faults>>
          \/ WellFormed(r) /\ Fault /\ rec' \in {rec, r} /\ Exit
  /\ UNCHANGED <<durable, runtime, txs, crashes, edits>>

UndoBackup ==
  /\ pc = "undo_bak"
  /\ \/ /\ seen["bak"] = mem.comp /\ Goto("undo_admit")
        /\ UNCHANGED <<durable, mem, seen, cas, faults>>
     \/ /\ seen["bak"] # mem.comp
        /\ Swap("bak", seen["bak"], mem.comp, "undo_admit", "idle")
        /\ IF pc' = "idle" THEN mem' = None /\ seen' = [f \in Files |-> Absent]
           ELSE UNCHANGED <<mem, seen>>
  /\ UNCHANGED <<rec, runtime, txs, crashes, edits>>

UndoAdmit ==
  /\ pc = "undo_admit"
  /\ IF Undoable(mem) THEN Goto("undo_main") /\ UNCHANGED <<mem, seen, cas>> ELSE Exit
  /\ UNCHANGED <<durable, rec, runtime, budget>>

UndoMain ==
  /\ pc = "undo_main"
  /\ \/ /\ seen["main"] = mem.comp /\ Goto("undo_verify")
        /\ UNCHANGED <<durable, mem, seen, cas, faults>>
     \/ /\ seen["main"] # mem.comp
        /\ Swap("main", seen["main"], mem.comp, "undo_verify", "idle")
        /\ IF pc' = "idle" THEN mem' = None /\ seen' = [f \in Files |-> Absent]
           ELSE UNCHANGED <<mem, seen>>
  /\ UNCHANGED <<rec, runtime, txs, crashes, edits>>

UndoVerify ==
  /\ pc = "undo_verify"
  /\ IF \A f \in Files : file[f] = mem.comp
     THEN Goto("remove") /\ UNCHANGED <<mem, seen, cas>> ELSE Exit
  /\ UNCHANGED <<durable, rec, runtime, budget>>

-----------------------------------------------------------------------------
(* recoverRuntimeTransition: by "proxyscene recover" or at boot.           *)

Recover ==
  /\ pc = "idle" /\ rec # None
  /\ mem' = rec /\ Goto("recover_main")
  /\ UNCHANGED <<durable, rec, runtime, seen, cas, budget>>

RecoverMain ==
  /\ pc = "recover_main" /\ Settle("main", "recover_bak")
  /\ UNCHANGED <<rec, issued, runtime, txs, crashes, edits>>

RecoverBackup ==
  /\ pc = "recover_bak" /\ Settle("bak", "decide")
  /\ UNCHANGED <<rec, issued, runtime, txs, crashes, edits>>

\* Mutant of Decide: the phase in the record decides, not main.
DecideByPhase ==
  /\ pc = "decide"
  /\ IF mem.phase \in {"committing", "committed"}
     THEN Goto("remove") /\ UNCHANGED <<mem, seen, cas>> ELSE Compensate(mem)
  /\ UNCHANGED <<durable, rec, runtime, budget>>

\* main decides: the candidate there is finished, anything else is compensated.
Decide ==
  /\ pc = "decide"
  /\ IF file["main"] = mem.cand
     THEN IF mem.phase \in {"committing", "committed"} /\ Committed(mem)
          THEN Goto("remove") /\ UNCHANGED <<mem, seen, cas>> ELSE Exit
     ELSE IF mem.phase = "committed" THEN Exit ELSE Compensate(mem)
  /\ UNCHANGED <<durable, rec, runtime, budget>>

-----------------------------------------------------------------------------
(* The world around the process.                                           *)

\* The process is killed, or the host loses power.
Crash ==
  /\ pc # "idle" /\ crashes < MaxCrashes /\ crashes' = crashes + 1
  /\ \/ pc = "running" /\ MayStick(Current)
     \/ pc = "reverting" /\ MayStick(Reverting)
     \/ pc \notin {"running", "reverting"} /\ UNCHANGED stuck
  /\ Exit
  /\ UNCHANGED <<durable, rec, route, core, jobs, txs, faults, edits>>

\* A restart job finishes: the service has loaded whatever was on disk.
JobDone(s) ==
  /\ s \in jobs /\ jobs' = jobs \ {s}
  /\ route' = [route EXCEPT ![s] = "mixed"]
  /\ UNCHANGED <<durable, rec, core, stuck, pc, mem, seen, cas, budget>>

\* An administrator replaces, damages, restores or deletes a store file.
Edit(f, c) ==
  /\ edits < MaxEdits /\ edits' = edits + 1
  /\ file[f] # c /\ file' = [file EXCEPT ![f] = c]
  /\ UNCHANGED <<quar, issued, rec, runtime, pc, mem, seen, cas, txs, crashes, faults>>

Forward == \/ Plan \/ Record \/ StepStart \/ StepRun \/ StepDone \/ StepFail
           \/ StepUnsettled \/ WriteCommitting \/ Precommit \/ Save \/ CommitBackup
           \/ CommitCheck \/ CommitMain \/ PersistFailed \/ Verify \/ Finalize \/ Remove
Backward == \/ SettleMain \/ SettleBackup \/ Admit \/ RevertStart \/ RevertDone
            \/ RevertFail \/ MarkRestored \/ FinishStore \/ UndoBackup \/ UndoAdmit
            \/ UndoMain \/ UndoVerify \/ RecoverMain \/ RecoverBackup \/ Decide
Process == Forward \/ Backward

\* A store an earlier command saved (the two files agree), whose main was lost or
\* damaged, or whose next save was interrupted between backup and main; or no store at
\* all.  The runtime is what that store asks for.
Resting(st) ==
  /\ \/ file = [f \in Files |-> st]
     \/ file = [f \in Files |-> IF f = "main" THEN Corrupt ELSE st]
     \/ file = [f \in Files |-> IF f = "main" THEN Absent ELSE st]
     \/ \E other \in Settings :
          /\ st.gen < MaxGen /\ Valid(st.on, other)
          /\ file = [f \in Files |-> IF f = "main" THEN st
                        ELSE [st EXCEPT !.gen = @ + 1, !.cfg = other]]
     \/ st.on = {} /\ st.cfg = Fresh /\ file = [f \in Files |-> Absent]
  /\ core = Serve(st)
  /\ route = [s \in Scenes |-> Side(st, s)]

Init ==
  /\ \E gen \in 1..MaxGen, on \in SUBSET Scenes, cfg \in Settings, conf \in Configs :
       Valid(on, cfg) /\ Resting([gen |-> gen, on |-> on, cfg |-> cfg, conf |-> conf])
  /\ issued = {file[f] : f \in Files} \ {Absent, Corrupt}
  /\ quar = [f \in Files |-> Absent] /\ rec = None /\ jobs = {} /\ stuck = {}
  /\ pc = "idle" /\ mem = None /\ seen = [f \in Files |-> Absent] /\ cas = "claim"
  /\ txs = 0 /\ crashes = 0 /\ faults = 0 /\ edits = 0

\* The manager is no daemon: between commands nothing has to happen.
Rest == pc = "idle" /\ rec = None /\ UNCHANGED vars

Next == \/ Begin \/ Recover \/ Process \/ Crash \/ Rest
        \/ \E s \in Scenes : JobDone(s)
        \/ \E f \in Files, c \in EditContents : Edit(f, c)

Spec == Init /\ [][Next]_vars

\* A command runs to its end, "proxyscene recover" is run (and at every boot) while
\* a record is pending, and systemd finishes its jobs.
Fairness == /\ WF_vars(Process) /\ WF_vars(Recover)
            /\ \A s \in Scenes : WF_vars(JobDone(s))
FairSpec == Spec /\ Fairness

-----------------------------------------------------------------------------
(* Properties.                                                             *)

\* The types of the state.
TypeOK ==
  /\ file \in [Files -> Content] /\ quar \in [Files -> Content]
  /\ issued \subseteq Image
  /\ rec \in Receipt \cup {None} /\ mem \in Receipt \cup {None}
  /\ route \in [Scenes -> Routes] /\ core \in Served \cup {Broken}
  /\ jobs \subseteq Scenes /\ stuck \subseteq Parts
  /\ pc \in PCs /\ (pc = "idle") = (mem = None)
  /\ seen \in [Files -> Content] /\ cas \in {"claim", "take", "publish", "retire"}
  /\ txs \in 0..MaxTx /\ crashes \in 0..MaxCrashes
  /\ faults \in 0..MaxFaults /\ edits \in 0..MaxEdits

\* No external route points at a core that does not serve it: while a core step is
\* half done only scenes on both sides of the change stay attached, and otherwise a
\* route is attached only if the loaded configuration has the scene's inbounds, and
\* leads to these, unless the pending record is about to move them: a scene that stays
\* enabled is attached again after the core has changed, and points at its old inbounds
\* until then.  (The order of runtimeMutationPlan steps and of their compensation.)
Moves(r, s) ==
  s \in r.before.on \cap r.cand.on \cap r.todo /\ r.before.conf[s] # r.cand.conf[s]
AttachedIsServed ==
  edits = 0 => \A s \in Scenes : route[s] # "off" =>
    IF core = Broken THEN rec # None /\ s \in rec.before.on \cap rec.cand.on
    ELSE /\ core.at[s] # "off"
         /\ \/ route[s] = "mixed"
            \/ Port[route[s]] = core.at[s]
            \/ rec # None /\ Moves(rec, s)

\* Without a pending record the system is whole, whatever was interrupted before:
\* the store loads, core and routes are what it asks for, no claimed store file is
\* left aside and no restart is outstanding.  (removeRuntimeTransition comes last.)
NoRecordIsConsistent ==
  rec = None /\ edits = 0 =>
    /\ Loadable(file) /\ quar = [f \in Files |-> Absent] /\ jobs = {}
    /\ core = Serve(Load(file))
    /\ route = [s \in Scenes |-> Side(Load(file), s)]

\* A generation names one store: no two images the manager has put in a store file,
\* commits and compensations alike, share a generation.  (store.go saveStore: "Never
\* reuse that generation for a different value.")
GenerationsAreUnique ==
  edits = 0 => \A a, b \in issued : a.gen = b.gen => a = b

\* When a compensation has to rewrite the store there is a generation left for it
\* and the record that fixes it is one writeRuntimeTransition accepts.
CompensationIsPossible ==
  edits = 0 /\ pc = "revert" /\ Unrestored = {} /\ file # mem.ev /\ mem.comp = Absent =>
    /\ Highest(file) < MaxGen
    /\ WellFormed([mem EXCEPT !.comp = [mem.before EXCEPT !.gen = Highest(file) + 1]])

\* The commit point is final: once main holds the candidate of a pending record, no
\* step replaces it, no failed check or recovery included.  (PersistFailed, Decide,
\* validateTransitionStoreBeforeCompensation; an external edit may still replace it.)
CommitIsFinal ==
  [][rec # None /\ file["main"] = rec.cand /\ edits' = 0
       => file'["main"] = rec.cand]_vars

\* No step of the manager loses a store it did not write or plan from: what it finds
\* in a store file or in its quarantine and its record does not name is still in one of
\* the two afterwards.  (writeBoundedArtifactCAS never replaces a file created or
\* changed by someone else, not even between its two looks at it.)
Foreign(f) == {file[f], quar[f]} \ (Allowed(mem, f) \cup {Absent})
ForeignStoreKept ==
  [][mem # None /\ edits' = edits =>
       \A f \in Files : Foreign(f) \subseteq {file'[f], quar'[f]}]_vars

\* While a restart job of a scene is outstanding only the job itself changes the
\* scene's side of the world.
NothingMovesUnderAJob ==
  [][\A s \in jobs : route'[s] # route[s] => s \notin jobs']_vars

\* Without external edits nothing but a part whose own restoration refuses keeps a
\* record pending: once failures stop, recovery finishes or undoes every other
\* transaction, whatever state kills and failures have left its store files in.
RecordIsResolved == rec # None ~> rec = None \/ stuck # {} \/ edits > 0

\* The transaction implements the all-or-nothing change of AtomicChange, of the core
\* and of every scene's side together.
Asks(img) == [core |-> Serve(img), side |-> [s \in Scenes |-> Side(img, s)]]
Saved == IF rec = None THEN Asks(Load(file))
         ELSE IF file["main"] = rec.cand THEN Asks(rec.cand) ELSE Asks(rec.before)
Serving == IF core # Broken /\ jobs = {} THEN [core |-> core, side |-> route] ELSE Broken
OpenChange == IF rec = None THEN None
              ELSE [new |-> Asks(rec.cand), done |-> file["main"] = rec.cand]
Abstract == INSTANCE AtomicChange WITH Values <- World, Closed <- None,
  Between <- Broken, value <- Saved, serving <- Serving, change <- OpenChange
AbstractSpec == Abstract!Spec
=============================================================================
