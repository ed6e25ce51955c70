----------------------------- MODULE CoreRuntime -----------------------------
(***************************************************************************)
(* The core step of a runtime transaction: the Xray configuration and its  *)
(* unit, the access of the service account, the systemd service that runs  *)
(* them, and the receipt of what the running process has loaded            *)
(* (core-loaded.json).  applyCorePlan brings them to a plan fixed before    *)
(* the transaction, compensateCorePlan brings them back, in the process or  *)
(* after a kill or a power loss.  Meanwhile systemd finishes jobs, restarts *)
(* a process that died, and an administrator edits the files.               *)
(*                                                                         *)
(* RuntimeTransition sees all of this as one part; here its steps are       *)
(* opened.  A file is set by one compare-and-swap (CASOutcome).             *)
(***************************************************************************)
EXTENDS Naturals, CASOutcome

CONSTANTS
  Configs,     \* configurations rendered from a store
  Units,       \* units written by this manager and by earlier ones
  Manager,     \* the unit this manager writes
  Foreign,     \* what an administrator writes
  None,        \* no plan, no process, no receipt
  MaxTx,       \* bound: plans
  MaxCrashes,  \* bound: kills and power losses
  MaxFaults,   \* bound: calls and commands that fail
  MaxBounces,  \* bound: deaths of the service process
  MaxEdits     \* bound: edits by an administrator

Files    == {"config", "unit"}
Places   == {"dir", "bin"}
Contents == Configs \cup Units \cup Foreign \cup {Absent}
Jobs     == {"none", "start", "stop"}
Process  == [unit : Contents, config : Contents, inv : Nat]
Service  == [active : {"active", "inactive", "failed"}, enabled : BOOLEAN,
             loaded : Contents, job : Jobs, run : Process \cup {None}]
Plan     == [before : [Files -> Contents], after : [Files -> Contents], svc : Service,
             access : [Places -> BOOLEAN], enabled : BOOLEAN, noop : BOOLEAN,
             pending : BOOLEAN]
Resting  == {"idle", "refused"}
PCs == Resting \cup
  {"validate", "dir", "bin", "unit", "config", "reload", "verify", "stop", "enable",
   "restart", "wait", "ready", "loaded", "stamp", "done", "failed",
   "comp", "c_config", "c_unit", "c_bin", "c_dir", "c_reload", "c_service", "c_restart",
   "c_wait", "c_ready", "c_enable", "c_verify", "c_finish"}

ASSUME ContentAssumption ==
  /\ Manager \in Units /\ Absent \notin Configs \cup Units \cup Foreign
  /\ Configs \cap Units = {} /\ Foreign \cap (Configs \cup Units) = {}
ASSUME SentinelAssumption == None \notin Plan /\ None \notin Process
ASSUME BoundAssumption ==
  /\ MaxTx \in Nat /\ MaxCrashes \in Nat /\ MaxFaults \in Nat
  /\ MaxBounces \in Nat /\ MaxEdits \in Nat

VARIABLES
  file, quar,     \* per file: its content and its quarantine name
  access,         \* per place: the service account may use it
  svc, inv,       \* the service, and the invocations there have been
  receipt,        \* core-loaded.json
  rec,            \* the durable plan of a pending transaction
  pc,
  changed,        \* the compensation has replaced a file
  seen,           \* the service state read before the step
  txs, crashes, faults, bounces, edits

files  == <<file, quar>>
system == <<svc, inv>>
local  == <<changed, seen>>
bounds == <<txs, crashes, bounces, edits>>
vars   == <<files, access, system, receipt, rec, pc, local, faults, bounds>>

-----------------------------------------------------------------------------
(* systemd.                                                                *)

NeedReload(s) == s.loaded # file["unit"]
Running(s)    == s.job = "none" /\ s.active = "active"
\* readCoreServiceState refuses a service in transition.
Settled       == svc.job = "none"

Down(s, how) == [s EXCEPT !.active = how, !.job = "none", !.run = None]
Up(s) == [s EXCEPT !.active = "active", !.job = "none",
            !.run = [unit |-> s.loaded, config |-> file["config"], inv |-> inv + 1]]
Startable(s) == s.loaded # Absent /\ file["config"] # Absent

-----------------------------------------------------------------------------
Goto(l) == pc' = l
Fault   == faults < MaxFaults /\ faults' = faults + 1
\* The process leaves: the plan stays for a recovery.
Leave(l) == Goto(l) /\ changed' = FALSE /\ seen' = None

\* A call or a command fails: an apply goes on to compensate, a compensation leaves.
Applying == pc \in {"validate", "dir", "bin", "unit", "config", "reload", "verify", "stop",
                    "enable", "restart", "wait", "ready", "loaded", "stamp"}
Failed == IF Applying THEN Goto("failed") /\ UNCHANGED local ELSE Leave("idle")
FaultHere == Fault /\ Failed
Step(l)   == Goto(l) /\ UNCHANGED <<local, faults>>
\* The next step if the condition it checks holds.
Checked(ok, l) == IF ok THEN Step(l) ELSE Failed /\ UNCHANGED faults

-----------------------------------------------------------------------------
(* planCoreRuntime.                                                        *)

\* coreLoadedMatches: the receipt is of this invocation and of these files.
LoadedMatches(after) ==
  /\ receipt # None /\ Running(svc) /\ svc.enabled /\ ~NeedReload(svc)
  /\ receipt = [unit |-> after["unit"], config |-> after["config"], inv |-> svc.run.inv]

Noop(after) ==
  /\ file = after /\ \A x \in Places : access[x]
  /\ IF after["config"] # Absent THEN LoadedMatches(after)
     ELSE svc.active # "active" /\ ~svc.enabled /\ ~NeedReload(svc)

\* A unit that is not the manager's and an active service without its files are refused.
Begin(want) ==
  /\ pc \in Resting /\ rec = None /\ txs < MaxTx /\ txs' = txs + 1
  /\ Settled /\ file["unit"] \in Units \cup {Absent}
  /\ svc.active = "active" => \A f \in Files : file[f] # Absent
  /\ LET after == [f \in Files |-> IF f = "unit" THEN Manager ELSE want] IN
       /\ rec' = [before |-> file, after |-> after, svc |-> svc, access |-> access,
                  enabled |-> want # Absent, noop |-> Noop(after), pending |-> FALSE]
       /\ Goto(IF Noop(after) THEN "done" ELSE "validate")
  /\ UNCHANGED <<files, access, system, receipt, local, crashes, faults, bounces, edits>>

-----------------------------------------------------------------------------
(* applyCorePlan.                                                          *)

Validate ==
  /\ pc = "validate"
  /\ \/ Checked(file = rec.before /\ access = rec.access /\ svc = rec.svc, "dir")
     \/ FaultHere
  /\ UNCHANGED <<files, access, system, receipt, rec, bounds>>

\* setCoreMetadata.
Grant(at, x, to, next) ==
  /\ pc = at
  /\ \/ access' = [access EXCEPT ![x] = to] /\ Step(next)
     \/ FaultHere /\ access' \in {access, [access EXCEPT ![x] = to]}
  /\ UNCHANGED <<files, system, receipt, rec, bounds>>

\* setCoreFile with one expected state; the process may be killed in it.
Set(at, f, expected, want, next) ==
  LET r == Final(file[f], quar[f], {expected}, want)
      Names(s) == /\ file' = [file EXCEPT ![f] = s[1]]
                  /\ quar' = [quar EXCEPT ![f] = s[2]]
      on_the_way == Passing(file[f], quar[f], {expected}, want)
  IN
  /\ pc = at
  /\ \/ /\ Names(r) /\ UNCHANGED <<faults, crashes>>
        /\ IF r[3] = "ok" THEN next /\ UNCHANGED seen ELSE Failed
     \/ /\ \E s \in on_the_way : Names(s)
        /\ FaultHere /\ UNCHANGED crashes
     \/ /\ \E s \in on_the_way : Names(s)
        /\ crashes < MaxCrashes /\ crashes' = crashes + 1
        /\ Leave("idle") /\ UNCHANGED faults
  /\ UNCHANGED <<access, system, receipt, rec, txs, bounces, edits>>

\* A file that stays as it is is not looked at.
Write(f, next) ==
  \/ /\ pc = f /\ rec.before[f] = rec.after[f] /\ Step(next)
     /\ UNCHANGED <<files, access, system, receipt, rec, bounds>>
  \/ /\ rec # None /\ rec.before[f] # rec.after[f]
     /\ Set(f, f, rec.before[f], rec.after[f], Goto(next) /\ UNCHANGED changed)

\* systemctl daemon-reload when it is called for.
ReloadIf(cond, next) ==
  \/ svc' = (IF cond THEN [svc EXCEPT !.loaded = file["unit"]] ELSE svc) /\ next
  \/ cond /\ FaultHere /\ UNCHANGED svc

Reload ==
  /\ pc = "reload"
  /\ ReloadIf(rec.before["unit"] # rec.after["unit"] \/ rec.svc.loaded # rec.before["unit"],
              Step("verify"))
  /\ UNCHANGED <<files, access, inv, receipt, rec, bounds>>

\* coreVerifyExecution: the unit on disk is the planned one, the service is at rest.
Verify ==
  /\ pc = "verify"
  /\ \/ Checked(Settled /\ file["unit"] = rec.after["unit"],
                IF rec.enabled THEN "enable" ELSE "stop")
     \/ FaultHere
  /\ UNCHANGED <<files, access, system, receipt, rec, bounds>>

\* stopXrayService: every command is tried, whatever the ones before it did.
Stop ==
  /\ pc = "stop"
  /\ \/ svc' = [Down(svc, "inactive") EXCEPT !.enabled = FALSE] /\ Step("done")
     \/ /\ svc' \in {[s EXCEPT !.enabled = e] :
                       s \in {svc, Down(svc, "inactive"), [svc EXCEPT !.job = "stop"]},
                       e \in {svc.enabled, FALSE}}
        /\ FaultHere
  /\ UNCHANGED <<files, access, inv, receipt, rec, bounds>>

Enable ==
  /\ pc = "enable"
  /\ \/ svc' = [svc EXCEPT !.enabled = @ \/ ~rec.svc.enabled] /\ Step("restart")
     \/ ~rec.svc.enabled /\ FaultHere /\ UNCHANGED svc
  /\ UNCHANGED <<files, access, inv, receipt, rec, bounds>>

\* Mutant of RestartAt: a service that is active is not restarted.
StartAt(at, next) ==
  /\ pc = at
  /\ IF Running(svc) THEN Step(next) /\ UNCHANGED system
     ELSE Startable(svc) /\ svc' = Up(svc) /\ inv' = inv + 1 /\ Step(next)
  /\ UNCHANGED <<files, access, receipt, rec, bounds>>

\* restartXrayService: it starts, it cannot, or a command fails with the job undone, queued
\* or done.
RestartAt(at, next) ==
  /\ pc = at
  /\ \/ Startable(svc) /\ svc' = Up(svc) /\ inv' = inv + 1 /\ Step(next)
     \/ ~Startable(svc) /\ svc' = Down(svc, "failed") /\ Failed /\ UNCHANGED <<inv, faults>>
     \/ FaultHere /\ svc' \in {svc, Down(svc, "failed"), [svc EXCEPT !.job = "start"]}
        /\ UNCHANGED inv
  /\ UNCHANGED <<files, access, receipt, rec, bounds>>

\* waitCoreRestartExecution: bind to the process that runs now ...
WaitAt(at, next) ==
  /\ pc = at
  /\ \/ IF Running(svc) /\ ~NeedReload(svc)
        THEN Goto(next) /\ seen' = svc /\ UNCHANGED <<changed, faults>>
        ELSE Failed /\ UNCHANGED faults
     \/ FaultHere
  /\ UNCHANGED <<files, access, system, receipt, rec, bounds>>
\* ... and accept no other.
ReadyAt(at, wanted, next) ==
  /\ pc = at
  /\ \/ Checked(svc = seen /\ file = wanted, next)
     \/ FaultHere
  /\ UNCHANGED <<files, access, system, receipt, rec, bounds>>

\* saveCoreLoaded reads the service ...
Loaded ==
  /\ pc = "loaded"
  /\ \/ IF Running(svc) /\ ~NeedReload(svc) /\ svc.enabled
        THEN Goto("stamp") /\ seen' = svc /\ UNCHANGED <<changed, faults>>
        ELSE Failed /\ UNCHANGED faults
     \/ FaultHere
  /\ UNCHANGED <<files, access, system, receipt, rec, bounds>>

\* Mutant of Stamped: the files are not read again before the receipt is written.
StampedUnread == svc = seen
\* ... then the files, and the service once more, before it writes the receipt.
Stamped == svc = seen /\ file = rec.after
Stamp ==
  LET r == [unit |-> rec.after["unit"], config |-> rec.after["config"], inv |-> seen.run.inv]
  IN
  /\ pc = "stamp"
  /\ \/ Checked(Stamped, "done") /\ receipt' = IF Stamped THEN r ELSE receipt
     \/ FaultHere /\ receipt' \in {receipt} \cup (IF Stamped THEN {r} ELSE {})
  /\ UNCHANGED <<files, access, system, rec, bounds>>

-----------------------------------------------------------------------------
(* The transaction around the step, and compensateCorePlan.                *)

End == rec' = None /\ Leave("idle")

\* The rest of the transaction succeeds.
Commit ==
  /\ pc = "done" /\ End
  /\ UNCHANGED <<files, access, system, receipt, faults, bounds>>

\* The step or a later one fails, or the record is found by recover or boot-restore.  A
\* plan without work has nothing to undo.
Undo ==
  /\ \/ pc \in {"done", "failed"}
     \/ pc \in Resting /\ rec # None
  /\ IF rec.noop THEN End ELSE Goto("comp") /\ UNCHANGED <<rec, local>>
  /\ UNCHANGED <<files, access, system, receipt, faults, bounds>>

\* The service has to be brought back too.
Needs(p) ==
  \/ NeedReload(svc) \/ svc.active # p.svc.active \/ svc.enabled # p.svc.enabled
  \/ file # p.before

\* Mutant of Checkpoint: the service work is remembered in memory only, as `changed` is.
CheckpointLost == rec
\* The need is in the record before the first file is put back.
Checkpoint == [rec EXCEPT !.pending = @ \/ Needs(rec)]

Comp ==
  /\ pc = "comp"
  /\ \/ /\ ~Settled /\ Leave("idle") /\ UNCHANGED <<rec, faults>>
     \/ /\ Settled /\ rec' = Checkpoint /\ changed' = FALSE
        /\ Goto("c_config") /\ UNCHANGED <<seen, faults>>
     \/ Fault /\ Leave("idle") /\ rec' \in {rec} \cup (IF Settled THEN {Checkpoint} ELSE {})
  /\ UNCHANGED <<files, access, system, receipt, bounds>>

\* A file is put back only if it is still the one the plan put there.
PutBack(at, f, next) ==
  \/ /\ pc = at /\ file[f] = rec.before[f] /\ Step(next)
     /\ UNCHANGED <<files, access, system, receipt, rec, bounds>>
  \/ /\ pc = at /\ file[f] \notin {rec.before[f], rec.after[f]}
     /\ Leave("refused")
     /\ UNCHANGED <<files, access, system, receipt, rec, faults, bounds>>
  \/ /\ pc = at /\ file[f] = rec.after[f] /\ file[f] # rec.before[f]
     /\ Set(at, f, file[f], rec.before[f], Goto(next) /\ changed' = TRUE)
  \/ /\ pc = at /\ FaultHere
     /\ UNCHANGED <<files, access, system, receipt, rec, bounds>>

Work == changed \/ rec.pending

CompReload ==
  /\ pc = "c_reload"
  /\ \/ ~Settled /\ Leave("idle") /\ UNCHANGED <<svc, faults>>
     \/ /\ Settled
        /\ ReloadIf(Work \/ NeedReload(svc),
                    Goto("c_service") /\ seen' = svc /\ UNCHANGED <<changed, faults>>)
  /\ UNCHANGED <<files, access, inv, receipt, rec, bounds>>

\* Restart what ran, stop what did not; `seen` is the state read before the reload.
CompService ==
  /\ pc = "c_service"
  /\ \/ /\ rec.svc.active = "active"
        /\ Checked(Settled /\ file["unit"] = rec.before["unit"],
                   IF Work \/ seen.active # "active" THEN "c_restart" ELSE "c_enable")
        /\ UNCHANGED svc
     \/ /\ rec.svc.active # "active" /\ seen.active = "active"
        /\ svc' = Down(svc, "inactive") /\ Step("c_enable")
     \/ /\ rec.svc.active # "active" /\ seen.active # "active"
        /\ Step("c_enable") /\ UNCHANGED svc
     \/ FaultHere /\ svc' \in {svc} \cup
          (IF rec.svc.active # "active" /\ seen.active = "active"
           THEN {Down(svc, "inactive"), [svc EXCEPT !.job = "stop"]} ELSE {})
  /\ UNCHANGED <<files, access, inv, receipt, rec, bounds>>

\* After a wait, `seen` is of the service restarted; its enablement is still the old one.
CompEnable ==
  /\ pc = "c_enable"
  /\ \/ svc' = [svc EXCEPT !.enabled = IF seen.enabled # rec.svc.enabled THEN rec.svc.enabled
                                       ELSE @]
        /\ Step("c_verify")
     \/ seen.enabled # rec.svc.enabled /\ FaultHere /\ UNCHANGED svc
  /\ UNCHANGED <<files, access, inv, receipt, rec, bounds>>

CompVerify ==
  /\ pc = "c_verify"
  /\ \/ Checked(rec.svc.active = "active" => Settled /\ file["unit"] = rec.before["unit"],
                "c_finish")
     \/ FaultHere
  /\ UNCHANGED <<files, access, system, receipt, rec, bounds>>

\* The service is what it was, also to systemd.
Restored ==
  /\ Settled /\ (svc.active = "active" <=> rec.svc.active = "active")
  /\ svc.enabled = rec.svc.enabled /\ ~NeedReload(svc)

\* The pending mark is cleared in the record, then the step is marked restored.
CompFinish ==
  /\ pc = "c_finish"
  /\ \/ (rec.pending => Restored) /\ End /\ UNCHANGED faults
     \/ rec.pending /\ ~Restored /\ Leave("idle") /\ UNCHANGED <<rec, faults>>
     \/ /\ Fault /\ Leave("idle")
        /\ rec' \in {rec} \cup (IF rec.pending /\ Restored THEN {[rec EXCEPT !.pending = FALSE]}
                                ELSE {})
  /\ UNCHANGED <<files, access, system, receipt, bounds>>

-----------------------------------------------------------------------------
(* Everybody else.                                                         *)

\* systemd ends a job.
JobDone ==
  /\ svc.job # "none"
  /\ \/ svc.job = "start" /\ Startable(svc) /\ svc' = Up(svc) /\ inv' = inv + 1
     \/ svc' = Down(svc, IF svc.job = "start" THEN "failed" ELSE "inactive") /\ UNCHANGED inv
  /\ UNCHANGED <<files, access, receipt, rec, pc, local, faults, bounds>>

\* The process dies: systemd starts it again after a while, or gives up.
Die ==
  /\ Running(svc) /\ bounces < MaxBounces /\ bounces' = bounces + 1
  /\ svc' \in {[svc EXCEPT !.job = "start", !.run = None], Down(svc, "failed")}
  /\ UNCHANGED <<files, access, inv, receipt, rec, pc, local, faults, txs, crashes, edits>>

\* An administrator writes or deletes a file.
Edit(f, c) ==
  /\ edits < MaxEdits /\ edits' = edits + 1 /\ file[f] # c
  /\ file' = [file EXCEPT ![f] = c]
  /\ UNCHANGED <<quar, access, system, receipt, rec, pc, local, faults, txs, crashes, bounces>>

Kill ==
  /\ pc \notin Resting /\ crashes < MaxCrashes /\ crashes' = crashes + 1 /\ Leave("idle")
  /\ UNCHANGED <<files, access, system, receipt, rec, faults, txs, bounces, edits>>

\* A power loss: systemd comes back with the files on disk and starts an enabled service.
PowerLoss ==
  /\ crashes < MaxCrashes /\ crashes' = crashes + 1 /\ Leave("idle")
  /\ LET s == [svc EXCEPT !.loaded = file["unit"], !.enabled = @ /\ file["unit"] # Absent] IN
     IF s.enabled /\ Startable(s) THEN svc' = Up(s) /\ inv' = inv + 1
     ELSE svc' = Down(s, IF s.enabled THEN "failed" ELSE "inactive") /\ UNCHANGED inv
  /\ UNCHANGED <<files, access, receipt, rec, faults, txs, bounces, edits>>

-----------------------------------------------------------------------------
\* Before the first plan of this manager: nothing installed but the unit, or a service
\* that an earlier manager runs.
Init ==
  /\ quar = [f \in Files |-> Absent] /\ receipt = None /\ rec = None /\ pc = "idle"
  /\ changed = FALSE /\ seen = None
  /\ \E u \in Units, c \in Configs \cup {Absent} :
       /\ file = [f \in Files |-> IF f = "unit" THEN u ELSE c]
       /\ \E a \in {u = Manager, FALSE} : access = [x \in Places |-> a]
       /\ svc = [active |-> IF c = Absent THEN "inactive" ELSE "active",
                 enabled |-> c # Absent, loaded |-> u, job |-> "none",
                 run |-> IF c = Absent THEN None ELSE [unit |-> u, config |-> c, inv |-> 0]]
  /\ inv = 0 /\ txs = 0 /\ crashes = 0 /\ faults = 0 /\ bounces = 0 /\ edits = 0

Apply ==
  \/ Validate \/ Grant("dir", "dir", TRUE, "bin") \/ Grant("bin", "bin", TRUE, "unit")
  \/ Write("unit", "config") \/ Write("config", "reload") \/ Reload \/ Verify
  \/ Stop \/ Enable \/ RestartAt("restart", "wait") \/ WaitAt("wait", "ready")
  \/ ReadyAt("ready", rec.after, "loaded") \/ Loaded \/ Stamp
Compensate ==
  \/ Comp \/ PutBack("c_config", "config", "c_unit") \/ PutBack("c_unit", "unit", "c_bin")
  \/ Grant("c_bin", "bin", rec.access["bin"], "c_dir")
  \/ Grant("c_dir", "dir", rec.access["dir"], "c_reload")
  \/ CompReload \/ CompService \/ RestartAt("c_restart", "c_wait")
  \/ WaitAt("c_wait", "c_ready") \/ ReadyAt("c_ready", rec.before, "c_enable")
  \/ CompEnable \/ CompVerify \/ CompFinish
Next ==
  \/ \E want \in Configs \cup {Absent} : Begin(want)
  \/ Apply \/ Commit \/ Undo \/ Compensate
  \/ JobDone \/ Die \/ Kill \/ PowerLoss
  \/ \E f \in Files, c \in Foreign \cup {Absent} : Edit(f, c)
Spec == Init /\ [][Next]_vars

-----------------------------------------------------------------------------
(* Properties.                                                             *)

\* The types of the state, and what validateCorePlanRecord wants of a plan: one without
\* work never has service work pending, one of a running service has its files.
TypeOK ==
  /\ file \in [Files -> Contents] /\ quar \in [Files -> Contents]
  /\ access \in [Places -> BOOLEAN] /\ svc \in Service /\ inv \in Nat
  /\ receipt \in Process \cup {None} /\ rec \in Plan \cup {None} /\ pc \in PCs
  /\ changed \in BOOLEAN /\ seen \in Service \cup {None}
  /\ rec # None =>
       /\ rec.noop => ~rec.pending
       /\ rec.svc.active = "active" => Absent \notin {rec.before[f] : f \in Files}

\* A receipt that names the running process says what that process has loaded, whoever
\* restarted it and whatever was edited meanwhile: a later plan relies on it to leave the
\* process alone (coreLoadedMatches).
ReceiptIsTrue ==
  receipt # None /\ svc.run # None /\ receipt.inv = svc.run.inv => receipt = svc.run

\* A transaction is committed with the planned files and enablement, and the process it leaves
\* behind runs them; with every scene off there is none.
DoneIsServed ==
  pc = "done" /\ edits = 0 =>
    /\ file = rec.after /\ svc.enabled = rec.enabled
    /\ rec.enabled /\ svc.run # None =>
         svc.run.config = rec.after["config"] /\ svc.run.unit = rec.after["unit"]
    /\ ~rec.enabled => svc.run = None

\* A compensation that ends has brought back the files, the access and the enablement;
\* what runs, runs the old files, and it runs exactly if it did before.
UndoIsReal ==
  [][rec # None /\ rec' = None /\ pc # "done" /\ edits = 0 =>
       /\ file = rec.before /\ access = rec.access /\ svc.enabled = rec.svc.enabled
       /\ svc.run # None => /\ svc.run.config = rec.before["config"]
                            /\ svc.run.unit = rec.before["unit"]
       /\ bounces = 0 => (svc.run # None <=> rec.svc.run # None)]_vars

\* A recovery refuses to put a file back only if an administrator has changed it.
OnlyEditsAreRefused == pc = "refused" => edits > 0
=============================================================================
