-------------------------- MODULE CoreRuntimeProofs --------------------------
(***************************************************************************)
(* The core step, for every set of configurations and units and any number *)
(* of plans, kills, power losses, failures, deaths of the process and      *)
(* edits: the receipt of what the process has loaded is true; and, while   *)
(* nobody edits the files, what is committed is what runs, and a           *)
(* compensation that ends has brought back what was there.                 *)
(***************************************************************************)
EXTENDS CoreRuntime, TLAPS

(***************************************************************************)
(* Types, with what the place of the process says of the plan.             *)
(***************************************************************************)

\* A compensation past its checkpoint.
Undoing  == {"c_config", "c_unit", "c_bin", "c_dir", "c_reload", "c_service", "c_restart",
             "c_wait", "c_ready", "c_enable", "c_verify", "c_finish"}
\* A plan that is about to have a process running.
Enabling == {"enable", "restart", "wait", "ready", "loaded", "stamp"}

\* What Begin puts into a plan.
WellPlanned(p) ==
  /\ p.after["unit"] = Manager /\ p.after["config"] \in Configs \cup {Absent}
  /\ p.enabled <=> p.after["config"] # Absent
  /\ p.noop => p.before = p.after
  /\ p.svc.job = "none" /\ (p.svc.run # None <=> p.svc.active = "active")

PlanInv ==
  /\ rec # None => WellPlanned(rec) /\ (rec.noop => pc \in Resting \cup {"done"})
  /\ pc \notin Resting => rec # None
  /\ pc \in {"ready", "stamp", "c_service", "c_ready", "c_enable"} => seen \in Service
  /\ pc = "stamp" => Running(seen) /\ seen.enabled
  /\ pc \in Enabling => rec.enabled
  /\ pc = "stop" => ~rec.enabled
  /\ pc = "c_restart" => rec.svc.active = "active"

\* A service that is up has a process, and no other has one.
Sane(s) == /\ s.run # None => s.active = "active"
           /\ s.active = "active" /\ s.job = "none" => s.run # None

TypeInv == TypeOK /\ edits \in Nat /\ bounces \in Nat /\ Sane(svc) /\ PlanInv

(***************************************************************************)
(* Invocations, and what the process has loaded that is about to be        *)
(* written down.                                                           *)
(***************************************************************************)

\* The administrator does not write configurations: a file that holds the planned one has
\* held it since the step that restarted the process.
LoadedInv ==
  /\ pc \in {"wait", "ready", "loaded", "stamp"} /\ svc.run # None =>
       /\ svc.run.unit = svc.loaded
       /\ file["config"] = rec.after["config"] => svc.run.config = file["config"]
  /\ pc = "stamp" /\ file["unit"] = rec.after["unit"] => seen.loaded = file["unit"]

InvocationInv ==
  /\ svc.run # None => svc.run.inv <= inv
  /\ receipt # None => receipt.inv <= inv
  /\ ReceiptIsTrue

ProcessInv == LoadedInv /\ InvocationInv

(***************************************************************************)
(* While nobody edits the files.                                           *)
(***************************************************************************)

\* systemd would start what files f say, and what runs was started from them.
Runs(f) == /\ svc.loaded = f["unit"]
           /\ svc.run # None => svc.run.unit = f["unit"] /\ svc.run.config = f["config"]

\* How far the plan has got.
ApplyInv ==
  /\ pc \in {"validate", "dir", "bin", "unit", "config", "reload"} => ~rec.pending
  /\ pc \in {"dir", "bin", "unit"} => file["unit"] = rec.before["unit"]
  /\ pc \in {"dir", "bin", "unit", "config"} => file["config"] = rec.before["config"]
  /\ pc \in {"config", "reload", "verify", "stop", "done"} \cup Enabling =>
       file["unit"] = rec.after["unit"]
  /\ pc \in {"reload", "verify", "stop", "done"} \cup Enabling =>
       file["config"] = rec.after["config"]
  /\ pc \in {"verify", "stop", "done"} \cup Enabling => svc.loaded = file["unit"]
  /\ pc = "done" =>
       /\ svc.enabled = rec.enabled
       /\ rec.enabled => Runs(file)
       /\ ~rec.enabled => svc.job = "none" /\ svc.active # "active"

\* A plan that owes the service nothing: as long as a file is the one of before, so is what
\* has been made of it.
OldInv ==
  /\ rec = None => Runs(file)
  /\ rec # None /\ rec.noop =>
       /\ file = rec.before /\ access = rec.access /\ svc.enabled = rec.svc.enabled
       /\ Runs(file) /\ (rec.svc.run # None <=> rec.enabled) /\ svc.enabled = rec.enabled
       /\ bounces = 0 => svc.job = "none" /\ (svc.active = "active" <=> rec.enabled)
  /\ rec # None /\ ~rec.pending =>
       /\ file["unit"] = rec.before["unit"] =>
            svc.loaded = rec.before["unit"] /\ (svc.run # None => svc.run.unit = rec.before["unit"])
       /\ file["config"] = rec.before["config"] /\ svc.run # None =>
            svc.run.config = rec.before["config"]
  /\ pc \in Undoing /\ ~rec.pending =>
       /\ file = rec.before /\ svc.enabled = rec.svc.enabled
       /\ bounces = 0 =>
            svc.job = "none" /\ (svc.active = "active" <=> rec.svc.active = "active")

\* How far the compensation has got.
UndoInv ==
  /\ pc \in Undoing \ {"c_config"} => file["config"] = rec.before["config"]
  /\ pc \in Undoing \ {"c_config", "c_unit"} => file["unit"] = rec.before["unit"]
  /\ pc \in Undoing \ {"c_config", "c_unit", "c_bin", "c_dir", "c_reload"} =>
       svc.loaded = file["unit"]
  /\ pc \in {"c_wait", "c_ready", "c_enable", "c_verify", "c_finish"} => Runs(rec.before)
  /\ pc = "c_service" /\ seen.active # "active" => svc.active # "active" /\ svc.job = "none"
  /\ pc \in Undoing \ {"c_config", "c_unit", "c_bin"} => access["bin"] = rec.access["bin"]
  /\ pc \in Undoing \ {"c_config", "c_unit", "c_bin", "c_dir"} =>
       access["dir"] = rec.access["dir"]

Quiet    == ApplyInv /\ OldInv /\ UndoInv
QuietInv == edits = 0 => Quiet

-----------------------------------------------------------------------------
(* The operators.                                                          *)

\* What a swap leaves when it is interrupted.
LEMMA PassingIsLegal ==
  ASSUME NEW S, Absent \in S, NEW f \in S, NEW q \in S, NEW e \in SUBSET S, NEW w \in S,
         NEW s \in Passing(f, q, e, w)
  PROVE  s[1] \in S /\ s[2] \in S
  BY DEF Passing, Replacing

\* A service that goes down.
LEMMA DownIsService ==
  ASSUME NEW s \in Service, NEW how \in {"inactive", "failed"}
  PROVE  LET d == Down(s, how) IN
         /\ d \in Service /\ Sane(d)
         /\ d.active = how /\ d.job = "none" /\ d.run = None
         /\ d.enabled = s.enabled /\ d.loaded = s.loaded
  BY DEF Down, Service, Sane, Jobs

\* A service that comes up has a new process, started from the loaded unit and the
\* configuration there is.
LEMMA UpIsService ==
  ASSUME NEW s \in Service, file \in [Files -> Contents], inv \in Nat
  PROVE  LET u == Up(s) IN
         /\ u \in Service /\ Sane(u)
         /\ u.active = "active" /\ u.job = "none" /\ u.enabled = s.enabled
         /\ u.loaded = s.loaded /\ u.run \in Process /\ u.run # None
         /\ u.run.unit = s.loaded /\ u.run.config = file["config"] /\ u.run.inv = inv + 1
  <1> DEFINE r == [unit |-> s.loaded, config |-> file["config"], inv |-> inv + 1]
  <1>1. r \in Process BY DEF Process, Service, Files
  <1>2. r # None BY <1>1, SentinelAssumption
  <1>3. Up(s) = [s EXCEPT !.active = "active", !.job = "none", !.run = r] BY DEF Up
  <1>4. r.unit = s.loaded /\ r.config = file["config"] /\ r.inv = inv + 1 OBVIOUS
  <1> HIDE DEF r
  <1>5. QED BY <1>1, <1>2, <1>3, <1>4 DEF Service, Sane, Jobs

\* What the names of a file come to in a swap, however it ends.
LEMMA SetIsLegal ==
  ASSUME TypeInv, NEW f \in Files, NEW e \in SUBSET Contents, NEW w \in Contents,
         NEW s, s = Final(file[f], quar[f], e, w) \/ s \in Passing(file[f], quar[f], e, w)
  PROVE  /\ s[1] \in Contents /\ s[2] \in Contents
         /\ s = Final(file[f], quar[f], e, w) /\ s[3] = "ok" => s[1] = w
  <1>1. file[f] \in Contents /\ quar[f] \in Contents /\ Absent \in Contents
    BY DEF TypeInv, TypeOK, Contents
  <1>2. CASE s = Final(file[f], quar[f], e, w)
    <2> DEFINE r == Final(file[f], quar[f], e, w)
    <2>1. r[1] \in Contents /\ r[2] \in Contents /\ (r[3] = "ok" => r[1] = w)
      BY <1>1 DEF Final
    <2> HIDE DEF r
    <2>2. s = r
      BY <1>2 DEF r
    <2>3. QED BY <2>1, <2>2
  <1>3. CASE s \in Passing(file[f], quar[f], e, w) /\ s # Final(file[f], quar[f], e, w)
    BY <1>1, <1>3, PassingIsLegal
  <1>4. QED BY <1>2, <1>3

\* A step that writes a file of the plan: it goes on with the planned content, or the plan
\* has failed, or the process is gone.
LEMMA WriteOutcome ==
  ASSUME TypeInv, NEW f \in Files, NEW next, Write(f, next)
  PROVE  /\ pc = f /\ UNCHANGED <<access, svc, inv, receipt, rec, txs, bounces, edits>>
         /\ file' \in [Files -> Contents] /\ quar' \in [Files -> Contents]
         /\ \A g \in Files \ {f} : file'[g] = file[g]
         /\ \/ /\ pc' = next /\ UNCHANGED <<changed, seen>>
               /\ \/ file'[f] = rec.after[f]
                  \/ rec.before[f] = rec.after[f] /\ file' = file
            \/ pc' = "failed" /\ UNCHANGED <<changed, seen>>
            \/ pc' = "idle" /\ changed' = FALSE /\ seen' = None
  <1>1. CASE rec.before[f] = rec.after[f] /\ pc = f /\ Step(next)
             /\ UNCHANGED <<files, access, system, receipt, rec, bounds>>
    BY <1>1 DEF Step, Goto, files, system, bounds, local, TypeInv, TypeOK
  <1>2. CASE rec # None /\ rec.before[f] # rec.after[f]
             /\ Set(f, f, rec.before[f], rec.after[f], Goto(next) /\ UNCHANGED changed)
    <2>1. rec.before[f] \in Contents /\ rec.after[f] \in Contents
      BY <1>2 DEF TypeInv, TypeOK, Plan
    <2>2. pc = f /\ UNCHANGED <<access, svc, inv, receipt, rec, txs, bounces, edits>>
      BY <1>2 DEF Set, system
    <2>3. PICK s : /\ file' = [file EXCEPT ![f] = s[1]] /\ quar' = [quar EXCEPT ![f] = s[2]]
                   /\ \/ /\ s = Final(file[f], quar[f], {rec.before[f]}, rec.after[f])
                         /\ IF s[3] = "ok" THEN Goto(next) /\ UNCHANGED <<changed, seen>>
                            ELSE Failed
                      \/ /\ s \in Passing(file[f], quar[f], {rec.before[f]}, rec.after[f])
                         /\ Failed \/ Leave("idle")
      BY <1>2 DEF Set, FaultHere
    <2>4. Failed => pc' = "failed" /\ UNCHANGED <<changed, seen>>
      BY <2>2 DEF Failed, Applying, Goto, local, Files
    <2>5. /\ file' \in [Files -> Contents] /\ quar' \in [Files -> Contents]
          /\ \A g \in Files \ {f} : file'[g] = file[g]
          /\ s = Final(file[f], quar[f], {rec.before[f]}, rec.after[f]) /\ s[3] = "ok" =>
               file'[f] = rec.after[f]
      <3> DEFINE e == {rec.before[f]}
      <3>1. e \in SUBSET Contents
        BY <2>1
      <3>2. s = Final(file[f], quar[f], e, rec.after[f]) \/ s \in Passing(file[f], quar[f], e, rec.after[f])
        BY <2>3
      <3> HIDE DEF e
      <3>3. /\ s[1] \in Contents /\ s[2] \in Contents
            /\ s = Final(file[f], quar[f], e, rec.after[f]) /\ s[3] = "ok" => s[1] = rec.after[f]
        <4> DEFINE w == rec.after[f]
        <4>1. w \in Contents
          BY <2>1
        <4> HIDE DEF w
        <4>2. /\ s[1] \in Contents /\ s[2] \in Contents
              /\ s = Final(file[f], quar[f], e, w) /\ s[3] = "ok" => s[1] = w
          BY <3>1, <3>2, <4>1, SetIsLegal DEF w
        <4>3. QED BY <4>2 DEF w
      <3> USE DEF e
      <3>4. QED BY <2>3, <3>3 DEF TypeInv, TypeOK
    <2>6. QED BY <2>2, <2>3, <2>4, <2>5 DEF Goto, Leave
  <1>3. QED BY <1>1, <1>2 DEF Write

\* A step that puts a file back: it goes on with the old content, or the process leaves.  Only
\* what the plan put there is touched.
LEMMA PutBackOutcome ==
  ASSUME TypeInv, NEW at \in {"c_config", "c_unit"}, NEW f \in Files, NEW next,
         PutBack(at, f, next)
  PROVE  /\ pc = at /\ UNCHANGED <<access, svc, inv, receipt, rec, txs, bounces, edits>>
         /\ file' \in [Files -> Contents] /\ quar' \in [Files -> Contents]
         /\ \A g \in Files \ {f} : file'[g] = file[g]
         /\ file' # file => file[f] = rec.after[f] /\ file[f] # rec.before[f]
         /\ \/ pc' = next /\ seen' = seen /\ changed' \in BOOLEAN /\ file'[f] = rec.before[f]
            \/ pc' \in Resting /\ changed' = FALSE /\ seen' = None
  <1>1. pc = at => ~Applying
    BY DEF Applying
  <1>2. CASE pc = at /\ file[f] = rec.before[f] /\ Step(next)
             /\ UNCHANGED <<files, access, system, receipt, rec, bounds>>
    BY <1>2 DEF Step, Goto, files, system, bounds, local, TypeInv, TypeOK
  <1>3. CASE pc = at /\ Leave("refused")
             /\ UNCHANGED <<files, access, system, receipt, rec, faults, bounds>>
    BY <1>3 DEF Leave, Goto, files, system, bounds, TypeInv, TypeOK, Resting
  <1>4. CASE pc = at /\ FaultHere /\ UNCHANGED <<files, access, system, receipt, rec, bounds>>
    BY <1>1, <1>4 DEF FaultHere, Failed, Leave, Goto, files, system, bounds, TypeInv, TypeOK, Resting
  <1>5. CASE pc = at /\ file[f] = rec.after[f] /\ file[f] # rec.before[f]
             /\ Set(at, f, file[f], rec.before[f], Goto(next) /\ changed' = TRUE)
    <2>1. rec # None
      BY <1>5 DEF TypeInv, PlanInv, Resting
    <2>2. rec.before[f] \in Contents /\ file[f] \in Contents
      BY <2>1 DEF TypeInv, TypeOK, Plan
    <2>3. pc = at /\ UNCHANGED <<access, svc, inv, receipt, rec, txs, bounces, edits>>
      BY <1>5 DEF Set, system
    <2>4. PICK s : /\ file' = [file EXCEPT ![f] = s[1]] /\ quar' = [quar EXCEPT ![f] = s[2]]
                   /\ \/ /\ s = Final(file[f], quar[f], {file[f]}, rec.before[f])
                         /\ IF s[3] = "ok" THEN Goto(next) /\ changed' = TRUE /\ seen' = seen
                            ELSE Failed
                      \/ /\ s \in Passing(file[f], quar[f], {file[f]}, rec.before[f])
                         /\ Failed \/ Leave("idle")
      BY <1>5 DEF Set, FaultHere
    <2>5. Failed => Leave("idle")
      BY <1>1, <2>3 DEF Failed
    <2>6. /\ file' \in [Files -> Contents] /\ quar' \in [Files -> Contents]
          /\ \A g \in Files \ {f} : file'[g] = file[g]
          /\ s = Final(file[f], quar[f], {file[f]}, rec.before[f]) /\ s[3] = "ok" =>
               file'[f] = rec.before[f]
      <3> DEFINE e == {file[f]}
      <3>1. e \in SUBSET Contents
        BY <2>2
      <3>2. s = Final(file[f], quar[f], e, rec.before[f]) \/ s \in Passing(file[f], quar[f], e, rec.before[f])
        BY <2>4
      <3> HIDE DEF e
      <3>3. /\ s[1] \in Contents /\ s[2] \in Contents
            /\ s = Final(file[f], quar[f], e, rec.before[f]) /\ s[3] = "ok" => s[1] = rec.before[f]
        BY <2>2, <3>1, <3>2, SetIsLegal
      <3> USE DEF e
      <3>4. QED BY <2>4, <3>3 DEF TypeInv, TypeOK
    <2>7. QED BY <1>5, <2>3, <2>4, <2>5, <2>6 DEF Goto, Leave, Resting
  <1>6. QED BY <1>2, <1>3, <1>4, <1>5 DEF PutBack

-----------------------------------------------------------------------------
(* Types.                                                                  *)

\* The initial states have the types.
LEMMA InitTypes == Init => TypeInv
  <1> SUFFICES ASSUME Init PROVE TypeInv
    OBVIOUS
  <1>1. PICK u \in Units, c \in Configs \cup {Absent} :
          /\ file = [f \in Files |-> IF f = "unit" THEN u ELSE c]
          /\ \E a \in {u = Manager, FALSE} : access = [y \in Places |-> a]
          /\ svc = [active |-> IF c = Absent THEN "inactive" ELSE "active",
                    enabled |-> c # Absent, loaded |-> u, job |-> "none",
                    run |-> IF c = Absent THEN None
                            ELSE [unit |-> u, config |-> c, inv |-> 0]]
    BY DEF Init
  <1>2. /\ [unit |-> u, config |-> c, inv |-> 0] \in Process
        /\ [unit |-> u, config |-> c, inv |-> 0] # None
    BY SentinelAssumption DEF Process, Contents
  <1>3. svc \in Service /\ Sane(svc)
    BY <1>1, <1>2 DEF Service, Sane, Contents, Jobs
  <1>4. file \in [Files -> Contents] /\ access \in [Places -> BOOLEAN]
    BY <1>1 DEF Contents
  <1>5. /\ quar \in [Files -> Contents] /\ receipt = None /\ rec = None /\ pc = "idle"
        /\ changed = FALSE /\ seen = None /\ inv = 0 /\ edits = 0 /\ bounces = 0
    BY DEF Init, Contents
  <1>6. QED BY <1>3, <1>4, <1>5 DEF TypeInv, TypeOK, PlanInv, PCs, Resting, Enabling

\* A plan has the types, and is well planned.
LEMMA BeginTypes ==
  ASSUME TypeInv, NEW want \in Configs \cup {Absent}, Begin(want)
  PROVE  TypeInv'
  <1> DEFINE after == [f \in Files |-> IF f = "unit" THEN Manager ELSE want]
             plan  == [before |-> file, after |-> after, svc |-> svc, access |-> access,
                       enabled |-> want # Absent, noop |-> Noop(after), pending |-> FALSE]
  <1>1. after \in [Files -> Contents] /\ after["unit"] = Manager /\ after["config"] = want
    BY ContentAssumption DEF Files, Contents
  <1>2. Noop(after) \in BOOLEAN
    BY DEF Noop, LoadedMatches, Running, NeedReload
  <1>3. rec' = plan /\ pc' = (IF Noop(after) THEN "done" ELSE "validate")
        /\ UNCHANGED <<files, access, system, receipt, local, crashes, faults, bounces, edits>>
        /\ svc.job = "none" /\ (svc.active = "active" => \A f \in Files : file[f] # Absent)
    BY DEF Begin, Goto, Settled
  <1>4. Noop(after) => file = after
    BY DEF Noop
  <1> HIDE DEF after
  <1>5. plan \in Plan
    BY <1>1, <1>2 DEF Plan, TypeInv, TypeOK
  <1>6. plan # None
    BY <1>5, SentinelAssumption
  <1>7. WellPlanned(plan)
    BY <1>1, <1>3, <1>4 DEF WellPlanned, TypeInv, Sane
  <1>8. plan.noop = Noop(after) /\ plan.pending = FALSE /\ plan.svc = svc /\ plan.before = file
    OBVIOUS
  <1> HIDE DEF plan
  <1>9. QED
    BY <1>3, <1>5, <1>6, <1>7, <1>8
       DEF TypeInv, TypeOK, PlanInv, PCs, Resting, Enabling, files, system, local, Sane

\* The steps of an apply keep the types.
LEMMA ApplyTypes == TypeInv /\ Apply => TypeInv'
  <1> SUFFICES ASSUME TypeInv, Apply PROVE TypeInv'
    OBVIOUS
  <1> USE DEF Goto, Step, Checked, Failed, FaultHere, Fault, Leave, Applying, files, system, local, bounds, TypeInv, TypeOK, PlanInv, Resting, PCs, Enabling
  <1>1. CASE Validate
    BY <1>1 DEF Validate
  <1>2. CASE Grant("dir", "dir", TRUE, "bin")
    BY <1>2 DEF Grant, Places
  <1>3. CASE Grant("bin", "bin", TRUE, "unit")
    BY <1>3 DEF Grant, Places
  <1>4. CASE Write("unit", "config")
    <2>1. "unit" \in Files /\ Write("unit", "config")
      BY <1>4 DEF Files
    <2> HIDE DEF Goto, Step, Checked, Failed, FaultHere, Fault, Leave, Applying
    <2>2. /\ pc = "unit" /\ UNCHANGED <<access, svc, inv, receipt, rec, txs, bounces, edits>>
          /\ file' \in [Files -> Contents] /\ quar' \in [Files -> Contents]
          /\ \/ pc' \in {"config", "failed"} /\ UNCHANGED <<changed, seen>>
             \/ pc' = "idle" /\ changed' = FALSE /\ seen' = None
      BY <2>1, WriteOutcome
    <2>3. QED BY <2>2
  <1>5. CASE Write("config", "reload")
    <2>1. "config" \in Files /\ Write("config", "reload")
      BY <1>5 DEF Files
    <2> HIDE DEF Goto, Step, Checked, Failed, FaultHere, Fault, Leave, Applying
    <2>2. /\ pc = "config" /\ UNCHANGED <<access, svc, inv, receipt, rec, txs, bounces, edits>>
          /\ file' \in [Files -> Contents] /\ quar' \in [Files -> Contents]
          /\ \/ pc' \in {"reload", "failed"} /\ UNCHANGED <<changed, seen>>
             \/ pc' = "idle" /\ changed' = FALSE /\ seen' = None
      BY <2>1, WriteOutcome
    <2>3. QED BY <2>2
  <1>6. CASE Reload
    BY <1>6 DEF Reload, ReloadIf, Service, Sane, Files
  <1>7. CASE Verify
    BY <1>7 DEF Verify
  <1>8. CASE Stop
    <2>1. Down(svc, "inactive") \in Service /\ Sane(Down(svc, "inactive"))
      BY DownIsService
    <2>2. svc' \in Service /\ Sane(svc')
      <3>1. \A s \in Service, e \in BOOLEAN :
              /\ [s EXCEPT !.enabled = e] \in Service
              /\ Sane(s) => Sane([s EXCEPT !.enabled = e])
        BY DEF Service, Sane
      <3>2. [svc EXCEPT !.job = "stop"] \in Service /\ Sane([svc EXCEPT !.job = "stop"])
        BY DEF Service, Sane, Jobs
      <3>3. svc.enabled \in BOOLEAN
        BY DEF Service
      <3>4. CASE svc' = [Down(svc, "inactive") EXCEPT !.enabled = FALSE]
        BY <2>1, <3>1, <3>4
      <3> DEFINE down == {svc, Down(svc, "inactive"), [svc EXCEPT !.job = "stop"]}
      <3>5. CASE svc' \in {[s EXCEPT !.enabled = e] : s \in down, e \in {svc.enabled, FALSE}}
        <4>1. \A s \in down : s \in Service /\ Sane(s)
          BY <2>1, <3>2
        <4> HIDE DEF down
        <4>2. PICK s \in down, e \in {svc.enabled, FALSE} : svc' = [s EXCEPT !.enabled = e]
          BY <3>5
        <4>3. QED BY <3>1, <3>3, <4>1, <4>2
      <3>6. QED BY <1>8, <3>4, <3>5 DEF Stop
    <2>3. QED BY <1>8, <2>2 DEF Stop, Sane
  <1>9. CASE Enable
    BY <1>9 DEF Enable, Service, Sane
  <1>10. CASE RestartAt("restart", "wait")
    <2>1. svc' \in Service /\ Sane(svc') /\ inv' \in Nat
      BY <1>10, UpIsService, DownIsService DEF RestartAt, Service, Sane, Jobs
    <2>2. QED BY <1>10, <2>1 DEF RestartAt, Sane
  <1>11. CASE WaitAt("wait", "ready")
    BY <1>11 DEF WaitAt, Running
  <1>12. CASE ReadyAt("ready", rec.after, "loaded")
    BY <1>12 DEF ReadyAt
  <1>13. CASE Loaded
    BY <1>13 DEF Loaded
  <1>14. CASE Stamp
    <2>1. CASE Stamped
      <3>1. seen = svc /\ rec # None /\ rec.after \in [Files -> Contents]
        BY <1>14, <2>1 DEF Stamp, Stamped, Plan
      <3>2. svc.run \in Process
        BY <1>14, <3>1 DEF Stamp, Running, Sane, Service
      <3> DEFINE r == [unit |-> rec.after["unit"], config |-> rec.after["config"],
                       inv |-> seen.run.inv]
      <3>3. r \in Process
        BY <3>1, <3>2 DEF Process, Files
      <3> HIDE DEF r
      <3>4. receipt' \in {receipt, r} /\ pc' \in {"done", "failed"}
            /\ UNCHANGED <<files, access, system, rec, local, bounds>>
        BY <1>14, <2>1 DEF Stamp, r
      <3>5. QED BY <1>14, <3>1, <3>3, <3>4 DEF Stamp
    <2>2. CASE ~Stamped
      BY <1>14, <2>2 DEF Stamp
    <2>3. QED BY <2>1, <2>2
  <1>15. QED BY <1>1, <1>2, <1>3, <1>4, <1>5, <1>6, <1>7, <1>8, <1>9, <1>10, <1>11, <1>12, <1>13, <1>14 DEF Apply

\* The steps of a compensation keep the types.
LEMMA CompensateTypes == TypeInv /\ Compensate => TypeInv'
  <1> SUFFICES ASSUME TypeInv, Compensate PROVE TypeInv'
    OBVIOUS
  <1> USE DEF Goto, Step, Checked, Failed, FaultHere, Fault, Leave, Applying, files, system, local, bounds, TypeInv, TypeOK, PlanInv, Resting, PCs, Enabling
  <1>1. CASE Comp
    <2>1. Checkpoint \in Plan /\ Checkpoint # None /\ WellPlanned(Checkpoint)
          /\ Checkpoint.noop = rec.noop /\ Checkpoint.svc = rec.svc /\ Checkpoint.before = rec.before
      BY <1>1, SentinelAssumption DEF Comp, Checkpoint, Needs, NeedReload, Plan, WellPlanned
    <2>2. rec # None /\ ~rec.noop /\ pc' \in {"idle", "c_config"} /\ rec' \in {rec, Checkpoint}
          /\ changed' = FALSE /\ seen' \in {None, seen}
          /\ UNCHANGED <<files, access, system, receipt, bounds>>
      BY <1>1 DEF Comp
    <2> HIDE DEF Goto, Step, Checked, Failed, FaultHere, Fault, Leave, Applying
    <2>3. QED BY <2>1, <2>2
  <1>2. CASE PutBack("c_config", "config", "c_unit")
    <2>1. "config" \in Files /\ "c_config" \in {"c_config", "c_unit"} /\ PutBack("c_config", "config", "c_unit")
      BY <1>2 DEF Files
    <2> HIDE DEF Goto, Step, Checked, Failed, FaultHere, Fault, Leave, Applying
    <2>2. /\ pc = "c_config" /\ UNCHANGED <<access, svc, inv, receipt, rec, txs, bounces, edits>>
          /\ file' \in [Files -> Contents] /\ quar' \in [Files -> Contents]
          /\ \/ pc' = "c_unit" /\ seen' = seen /\ changed' \in BOOLEAN
             \/ pc' \in Resting /\ changed' = FALSE /\ seen' = None
      BY <2>1, PutBackOutcome
    <2>3. QED BY <2>2
  <1>3. CASE PutBack("c_unit", "unit", "c_bin")
    <2>1. "unit" \in Files /\ "c_unit" \in {"c_config", "c_unit"} /\ PutBack("c_unit", "unit", "c_bin")
      BY <1>3 DEF Files
    <2> HIDE DEF Goto, Step, Checked, Failed, FaultHere, Fault, Leave, Applying
    <2>2. /\ pc = "c_unit" /\ UNCHANGED <<access, svc, inv, receipt, rec, txs, bounces, edits>>
          /\ file' \in [Files -> Contents] /\ quar' \in [Files -> Contents]
          /\ \/ pc' = "c_bin" /\ seen' = seen /\ changed' \in BOOLEAN
             \/ pc' \in Resting /\ changed' = FALSE /\ seen' = None
      BY <2>1, PutBackOutcome
    <2>3. QED BY <2>2
  <1>4. CASE Grant("c_bin", "bin", rec.access["bin"], "c_dir")
    BY <1>4 DEF Grant, Places, Plan
  <1>5. CASE Grant("c_dir", "dir", rec.access["dir"], "c_reload")
    BY <1>5 DEF Grant, Places, Plan
  <1>6. CASE CompReload
    <2> DEFINE s == [svc EXCEPT !.loaded = file["unit"]]
    <2>1. s \in Service /\ Sane(s)
      BY DEF Service, Sane, Files
    <2> HIDE DEF s
    <2>2. svc' \in {svc, s}
      BY <1>6 DEF CompReload, ReloadIf, s
    <2>3. svc' \in Service /\ Sane(svc')
      BY <2>1, <2>2
    <2>4. QED BY <1>6, <2>3 DEF CompReload, ReloadIf, Sane
  <1>7. CASE CompService
    <2>1. Down(svc, "inactive") \in Service /\ Sane(Down(svc, "inactive"))
      BY DownIsService
    <2>2. [svc EXCEPT !.job = "stop"] \in Service /\ Sane([svc EXCEPT !.job = "stop"])
      BY DEF Service, Sane, Jobs
    <2>3. svc' \in {svc, Down(svc, "inactive"), [svc EXCEPT !.job = "stop"]}
      BY <1>7 DEF CompService
    <2>4. svc' \in Service /\ Sane(svc')
      BY <2>1, <2>2, <2>3
    <2>5. QED BY <1>7, <2>4 DEF CompService, Sane
  <1>8. CASE RestartAt("c_restart", "c_wait")
    <2>1. svc' \in Service /\ Sane(svc') /\ inv' \in Nat
      BY <1>8, UpIsService, DownIsService DEF RestartAt, Service, Sane, Jobs
    <2>2. QED BY <1>8, <2>1 DEF RestartAt, Sane
  <1>9. CASE WaitAt("c_wait", "c_ready")
    BY <1>9 DEF WaitAt, Running
  <1>10. CASE ReadyAt("c_ready", rec.before, "c_enable")
    BY <1>10 DEF ReadyAt
  <1>11. CASE CompEnable
    <2>1. rec.svc.enabled \in BOOLEAN /\ svc.enabled \in BOOLEAN
      BY <1>11 DEF CompEnable, Plan, Service
    <2>2. \A e \in BOOLEAN : /\ [svc EXCEPT !.enabled = e] \in Service
                            /\ Sane([svc EXCEPT !.enabled = e])
      BY DEF Service, Sane
    <2>3. \E e \in BOOLEAN : svc' = [svc EXCEPT !.enabled = e] \/ svc' = svc
      BY <1>11, <2>1 DEF CompEnable
    <2>4. svc' \in Service /\ Sane(svc')
      BY <2>2, <2>3
    <2>5. QED BY <1>11, <2>4 DEF CompEnable, Sane
  <1>12. CASE CompVerify
    BY <1>12 DEF CompVerify
  <1>13. CASE CompFinish
    <2> DEFINE p == [rec EXCEPT !.pending = FALSE]
    <2>1. p \in Plan /\ p # None /\ WellPlanned(p)
          /\ p.noop = rec.noop /\ p.svc = rec.svc /\ p.before = rec.before
      BY <1>13, SentinelAssumption DEF CompFinish, Plan, WellPlanned
    <2>2. rec # None /\ ~rec.noop /\ pc' = "idle" /\ rec' \in {rec, p, None}
          /\ changed' = FALSE /\ seen' = None
          /\ UNCHANGED <<files, access, system, receipt, bounds>>
      BY <1>13 DEF CompFinish, End
    <2> HIDE DEF Goto, Step, Checked, Failed, FaultHere, Fault, Leave, Applying, p
    <2>3. QED BY <2>1, <2>2
  <1>14. QED BY <1>1, <1>2, <1>3, <1>4, <1>5, <1>6, <1>7, <1>8, <1>9, <1>10, <1>11, <1>12, <1>13 DEF Compensate

\* systemd, administrators, kills and losses of power keep the types.
LEMMA OthersTypes ==
  ASSUME TypeInv, \/ JobDone \/ Die \/ Kill \/ PowerLoss
                  \/ \E f \in Files, c \in Foreign \cup {Absent} : Edit(f, c)
  PROVE  TypeInv'
  <1> USE DEF Goto, Step, Checked, Failed, FaultHere, Fault, Leave, Applying, files, system, local, bounds, TypeInv, TypeOK, PlanInv, Resting, PCs, Enabling
  <1>1. CASE JobDone
    <2>1. svc' \in Service /\ Sane(svc') /\ inv' \in Nat
      BY <1>1, UpIsService, DownIsService DEF JobDone
    <2>2. QED BY <1>1, <2>1 DEF JobDone, Sane
  <1>2. CASE Die
    <2>1. svc' \in Service /\ Sane(svc')
      <3> DEFINE s == [svc EXCEPT !.job = "start", !.run = None]
      <3>1. s \in Service /\ Sane(s)
        BY DEF Service, Sane, Jobs
      <3> HIDE DEF s
      <3>2. svc' \in {s, Down(svc, "failed")}
        BY <1>2 DEF Die, s
      <3>3. QED BY <3>1, <3>2, DownIsService
    <2>2. QED BY <1>2, <2>1 DEF Die, Sane
  <1>3. CASE Kill
    BY <1>3 DEF Kill
  <1>4. CASE PowerLoss
    <2> DEFINE s == [svc EXCEPT !.loaded = file["unit"], !.enabled = @ /\ file["unit"] # Absent]
    <2>1. s \in Service
      BY DEF Service, Files
    <2>2. \/ svc' = Up(s) /\ inv' = inv + 1
          \/ svc' \in {Down(s, "failed"), Down(s, "inactive")} /\ inv' = inv
      BY <1>4 DEF PowerLoss
    <2> HIDE DEF s
    <2>3. svc' \in Service /\ Sane(svc') /\ inv' \in Nat
      BY <2>1, <2>2, UpIsService, DownIsService
    <2>4. QED BY <1>4, <2>3 DEF PowerLoss, Sane
  <1>5. CASE \E f \in Files, c \in Foreign \cup {Absent} : Edit(f, c)
    <2>1. PICK f \in Files, c \in Foreign \cup {Absent} : Edit(f, c)
      BY <1>5
    <2>2. file' \in [Files -> Contents]
      BY <2>1 DEF Edit, Contents
    <2>3. QED BY <2>1, <2>2 DEF Edit
  <1>6. QED BY <1>1, <1>2, <1>3, <1>4, <1>5

\* Every step keeps the types.
LEMMA StepTypes == TypeInv /\ [Next]_vars => TypeInv'
  <1> SUFFICES ASSUME TypeInv, [Next]_vars PROVE TypeInv'
    OBVIOUS
  <1>1. CASE \E want \in Configs \cup {Absent} : Begin(want)
    BY <1>1, BeginTypes
  <1>2. CASE Apply
    BY <1>2, ApplyTypes
  <1>3. CASE Commit
    BY <1>3 DEF Commit, End, Leave, Goto, files, system, bounds, TypeInv, TypeOK, PlanInv, Resting,
                PCs, Enabling
  <1>4. CASE Undo
    BY <1>4 DEF Undo, End, Leave, Goto, files, system, bounds, local, TypeInv, TypeOK, PlanInv,
                Resting, PCs, Enabling
  <1>5. CASE Compensate
    BY <1>5, CompensateTypes
  <1>6. CASE \/ JobDone \/ Die \/ Kill \/ PowerLoss
             \/ \E f \in Files, c \in Foreign \cup {Absent} : Edit(f, c)
    BY <1>6, OthersTypes
  <1>7. CASE UNCHANGED vars
    BY <1>7 DEF vars, files, system, bounds, local, TypeInv, TypeOK, PlanInv, Sane, WellPlanned, Running
  <1>8. QED BY <1>1, <1>2, <1>3, <1>4, <1>5, <1>6, <1>7 DEF Next

\* The variables have their types, and a plan that is found is one the program wrote.
THEOREM TypeCorrect == Spec => []TypeOK
  <1>1. Spec => []TypeInv
    BY InitTypes, StepTypes, PTL DEF Spec
  <1>2. TypeInv => TypeOK
    BY DEF TypeInv
  <1>3. QED BY <1>1, <1>2, PTL

-----------------------------------------------------------------------------
(* Invocations.                                                            *)

\* What a step may do to the process.
Bounced == \/ svc'.run \in {svc.run, None} /\ inv' = inv
           \/ svc'.run # None /\ svc'.run.inv = inv + 1 /\ inv' = inv + 1

\* The process that runs is the one of before, or none, or a new invocation.
LEMMA StepBounces == TypeInv /\ [Next]_vars => Bounced
  <1> SUFFICES ASSUME TypeInv, [Next]_vars PROVE Bounced
    OBVIOUS
  <1> USE DEF Bounced, files, system, TypeInv, TypeOK
  <1>1. svc' = svc /\ inv' = inv => Bounced
    OBVIOUS
  <1>2. ASSUME NEW at, NEW next, RestartAt(at, next)
        PROVE  Bounced
    BY <1>2, UpIsService, DownIsService DEF RestartAt, Service
  <1>3. CASE Apply
    <2>1. CASE Reload
      BY <2>1 DEF Reload, ReloadIf, Service
    <2>2. CASE Stop
      <3> DEFINE down == {svc, Down(svc, "inactive"), [svc EXCEPT !.job = "stop"]}
      <3>1. \A s \in down : s \in Service /\ s.run \in {svc.run, None}
        BY DownIsService DEF Service, Jobs
      <3> HIDE DEF down
      <3>2. PICK s \in down, e \in {svc.enabled, FALSE} : svc' = [s EXCEPT !.enabled = e]
        <4>1. CASE svc' \in {[s EXCEPT !.enabled = e] : s \in down, e \in {svc.enabled, FALSE}}
          BY <4>1
        <4>2. CASE svc' = [Down(svc, "inactive") EXCEPT !.enabled = FALSE]
          BY <4>2 DEF down
        <4>3. QED BY <2>2, <4>1, <4>2 DEF Stop, down
      <3>3. svc'.run = s.run
        BY <3>1, <3>2 DEF Service
      <3>4. QED BY <2>2, <3>1, <3>3 DEF Stop
    <2>3. CASE Enable
      BY <2>3 DEF Enable, Service
    <2>4. CASE RestartAt("restart", "wait")
      BY <1>2, <2>4
    <2>5. CASE ~Reload /\ ~Stop /\ ~Enable /\ ~RestartAt("restart", "wait")
      <3>1. svc' = svc /\ inv' = inv
        BY <1>3, <2>5 DEF Apply, Validate, Grant, Write, Set, Verify, WaitAt, ReadyAt, Loaded, Stamp
      <3>2. QED BY <1>1, <3>1
    <2>6. QED BY <2>1, <2>2, <2>3, <2>4, <2>5
  <1>4. CASE Compensate
    <2>1. CASE CompReload
      BY <2>1 DEF CompReload, ReloadIf, Service
    <2>2. CASE CompService
      <3>1. Down(svc, "inactive").run = None /\ [svc EXCEPT !.job = "stop"].run = svc.run
        BY DownIsService DEF Service
      <3>2. svc' \in {svc, Down(svc, "inactive"), [svc EXCEPT !.job = "stop"]} /\ inv' = inv
        BY <2>2 DEF CompService
      <3>3. QED BY <3>1, <3>2
    <2>3. CASE CompEnable
      BY <2>3 DEF CompEnable, Service
    <2>4. CASE RestartAt("c_restart", "c_wait")
      BY <1>2, <2>4
    <2>5. CASE ~CompReload /\ ~CompService /\ ~CompEnable /\ ~RestartAt("c_restart", "c_wait")
      <3>1. svc' = svc /\ inv' = inv
        BY <1>4, <2>5 DEF Compensate, Comp, Grant, PutBack, Set, WaitAt, ReadyAt, CompVerify, CompFinish
      <3>2. QED BY <1>1, <3>1
    <2>6. QED BY <2>1, <2>2, <2>3, <2>4, <2>5
  <1>5. CASE JobDone
    BY <1>5, UpIsService, DownIsService DEF JobDone
  <1>6. CASE Die
    <2>1. [svc EXCEPT !.job = "start", !.run = None].run = None /\ Down(svc, "failed").run = None
      BY DownIsService DEF Service
    <2>2. QED BY <1>6, <2>1 DEF Die
  <1>7. CASE PowerLoss
    <2> DEFINE s == [svc EXCEPT !.loaded = file["unit"], !.enabled = @ /\ file["unit"] # Absent]
    <2>1. s \in Service
      BY DEF Service, Files
    <2>2. \/ svc' = Up(s) /\ inv' = inv + 1
          \/ svc' \in {Down(s, "failed"), Down(s, "inactive")} /\ inv' = inv
      BY <1>7 DEF PowerLoss
    <2> HIDE DEF s
    <2>3. QED BY <2>1, <2>2, UpIsService, DownIsService
  <1>8. CASE \/ \E want \in Configs \cup {Absent} : Begin(want)
             \/ Commit \/ Undo \/ Kill
             \/ \E f \in Files, c \in Foreign \cup {Absent} : Edit(f, c)
             \/ UNCHANGED vars
    BY <1>1, <1>8 DEF Begin, Commit, Undo, Kill, Edit, vars
  <1>9. QED BY <1>3, <1>4, <1>5, <1>6, <1>7, <1>8 DEF Next

\* Only the last step of an apply writes the receipt.
LEMMA StepReceipts ==
  ASSUME [Next]_vars
  PROVE  \/ receipt' = receipt
         \/ /\ pc = "stamp" /\ Stamped /\ svc' = svc /\ inv' = inv
            /\ receipt' = [unit |-> rec.after["unit"], config |-> rec.after["config"],
                           inv |-> seen.run.inv]
  <1>1. CASE Apply /\ ~Stamp
    BY <1>1 DEF Apply, Validate, Grant, Write, Set, Reload, Verify, Stop, Enable, RestartAt, WaitAt,
                ReadyAt, Loaded
  <1>2. CASE Stamp
    BY <1>2 DEF Stamp, system
  <1>3. CASE Compensate
    BY <1>3 DEF Compensate, Comp, Grant, PutBack, Set, CompReload, CompService, RestartAt, WaitAt,
                ReadyAt, CompEnable, CompVerify, CompFinish
  <1>4. CASE \/ \E want \in Configs \cup {Absent} : Begin(want)
             \/ Commit \/ Undo \/ JobDone \/ Die \/ Kill \/ PowerLoss
             \/ \E f \in Files, c \in Foreign \cup {Absent} : Edit(f, c)
             \/ UNCHANGED vars
    BY <1>4 DEF Begin, Commit, Undo, JobDone, Die, Kill, PowerLoss, Edit, vars
  <1>5. QED BY <1>1, <1>2, <1>3, <1>4 DEF Next

\* The receipt of an invocation is of this process, and no later one is numbered like it.
LEMMA StepInvocations == TypeInv /\ ProcessInv /\ [Next]_vars => InvocationInv'
  <1> SUFFICES ASSUME TypeInv, ProcessInv, [Next]_vars PROVE InvocationInv'
    OBVIOUS
  <1>1. /\ svc.run # None => svc.run \in Process
        /\ receipt # None => receipt \in Process
        /\ inv \in Nat
    BY DEF TypeInv, TypeOK, Service
  <1>2. /\ svc.run # None => svc.run.inv \in Nat /\ svc.run.inv <= inv
        /\ receipt # None => receipt.inv \in Nat /\ receipt.inv <= inv
        /\ receipt # None /\ svc.run # None /\ receipt.inv = svc.run.inv => receipt = svc.run
    BY <1>1 DEF ProcessInv, InvocationInv, ReceiptIsTrue, Process
  <1>3. Bounced
    BY StepBounces
  <1>4. CASE receipt' = receipt
    BY <1>1, <1>2, <1>3, <1>4 DEF Bounced, InvocationInv, ReceiptIsTrue
  <1>5. CASE /\ pc = "stamp" /\ Stamped /\ svc' = svc /\ inv' = inv
             /\ receipt' = [unit |-> rec.after["unit"], config |-> rec.after["config"],
                            inv |-> seen.run.inv]
    <2>1. svc = seen /\ file = rec.after /\ Running(svc)
      BY <1>5 DEF Stamped, TypeInv, PlanInv
    <2>2. svc.run # None
      BY <2>1 DEF Running, TypeInv, Sane
    <2>3. /\ svc.run.unit = rec.after["unit"] /\ svc.run.config = rec.after["config"]
      BY <1>5, <2>1, <2>2 DEF ProcessInv, LoadedInv
    <2>4. receipt' = svc.run
      BY <1>1, <1>5, <2>1, <2>2, <2>3 DEF Process
    <2>5. QED BY <1>2, <1>5, <2>2, <2>4 DEF InvocationInv, ReceiptIsTrue
  <1>6. QED BY <1>4, <1>5, StepReceipts

\* From its restart to the receipt the process is one started from the loaded unit and, as
\* long as that is planned, from the configuration there is.
LEMMA StepLoaded == TypeInv /\ ProcessInv /\ [Next]_vars => LoadedInv'
  <1> SUFFICES ASSUME TypeInv, ProcessInv, [Next]_vars,
                      pc' \in {"wait", "ready", "loaded", "stamp"}
               PROVE  LoadedInv'
    BY DEF LoadedInv
  <1> USE DEF Goto, Step, Checked, Failed, FaultHere, Fault, Leave, Applying, files, system, local,
              bounds, Resting, ProcessInv
  <1>1. CASE RestartAt("restart", "wait")
    <2>1. pc' = "wait" /\ svc' = Up(svc) /\ file' = file /\ rec' = rec
      BY <1>1 DEF RestartAt
    <2>2. /\ svc'.run.unit = svc'.loaded /\ svc'.run.config = file["config"]
      BY <2>1, UpIsService DEF TypeInv, TypeOK
    <2>3. QED BY <2>1, <2>2 DEF LoadedInv
  <1>2. CASE WaitAt("wait", "ready") \/ ReadyAt("ready", rec.after, "loaded")
    BY <1>2 DEF WaitAt, ReadyAt, LoadedInv
  <1>3. CASE Loaded
    BY <1>3 DEF Loaded, LoadedInv, NeedReload
  <1>4. CASE Apply /\ ~RestartAt("restart", "wait") /\ ~WaitAt("wait", "ready")
             /\ ~ReadyAt("ready", rec.after, "loaded") /\ ~Loaded
    <2>1. CASE Write("unit", "config") \/ Write("config", "reload")
      <3>1. "unit" \in Files /\ "config" \in Files
        BY DEF Files
      <3>2. pc' \in {"config", "reload", "failed", "idle"}
        BY <2>1, <3>1, WriteOutcome
      <3>3. QED BY <3>2
    <2>2. CASE ~Write("unit", "config") /\ ~Write("config", "reload")
      BY <1>4, <2>2 DEF Apply, Validate, Grant, Reload, ReloadIf, Verify, Stop, Enable, Stamp
    <2>3. QED BY <2>1, <2>2
  <1>5. CASE Compensate
    <2>1. CASE PutBack("c_config", "config", "c_unit") \/ PutBack("c_unit", "unit", "c_bin")
      <3>1. /\ "unit" \in Files /\ "config" \in Files
            /\ "c_config" \in {"c_config", "c_unit"} /\ "c_unit" \in {"c_config", "c_unit"}
        BY DEF Files
      <3>2. pc' \in {"c_unit", "c_bin"} \cup Resting
        BY <2>1, <3>1, PutBackOutcome
      <3>3. QED BY <3>2
    <2>2. CASE ~PutBack("c_config", "config", "c_unit") /\ ~PutBack("c_unit", "unit", "c_bin")
      BY <1>5, <2>2 DEF Compensate, Comp, Grant, CompReload, ReloadIf, CompService, RestartAt, WaitAt,
                        ReadyAt, CompEnable, CompVerify, CompFinish, End
    <2>3. QED BY <2>1, <2>2
  <1>6. CASE JobDone
    <2>1. \/ svc' = Up(svc)
          \/ svc' \in {Down(svc, "failed"), Down(svc, "inactive")}
      BY <1>6 DEF JobDone
    <2>2. /\ svc'.run # None => svc'.run.unit = svc'.loaded /\ svc'.run.config = file["config"]
          /\ UNCHANGED <<pc, rec, file, seen>>
      BY <1>6, <2>1, UpIsService, DownIsService DEF JobDone, TypeInv, TypeOK
    <2>3. QED BY <2>2 DEF LoadedInv
  <1>7. CASE Die
    <2>1. [svc EXCEPT !.job = "start", !.run = None].run = None /\ Down(svc, "failed").run = None
      BY DownIsService DEF Service, TypeInv, TypeOK
    <2>2. svc'.run = None /\ UNCHANGED <<pc, rec, file, seen>>
      BY <1>7, <2>1 DEF Die
    <2>3. QED BY <2>2 DEF LoadedInv
  <1>8. CASE \E f \in Files, c \in Foreign \cup {Absent} : Edit(f, c)
    <2>1. PICK f \in Files, c \in Foreign \cup {Absent} : Edit(f, c)
      BY <1>8
    <2>2. /\ file' = [file EXCEPT ![f] = c] /\ UNCHANGED <<svc, pc, rec, seen>>
      BY <2>1 DEF Edit
    <2>3. /\ rec.after["unit"] = Manager
          /\ rec.after["config"] \in Configs
      BY <2>2 DEF TypeInv, PlanInv, WellPlanned, Enabling
    <2>4. \A g \in Files : file'[g] = rec.after[g] => file'[g] = file[g]
      BY <2>2, <2>3, ContentAssumption DEF TypeInv, TypeOK, Files
    <2>5. QED BY <2>2, <2>4 DEF LoadedInv, Files
  <1>9. CASE \/ \E want \in Configs \cup {Absent} : Begin(want)
             \/ Commit \/ Undo \/ Kill \/ PowerLoss
    BY <1>9 DEF Begin, Commit, Undo, Kill, PowerLoss, End
  <1>10. CASE UNCHANGED vars
    BY <1>10 DEF vars, LoadedInv
  <1>11. QED BY <1>1, <1>2, <1>3, <1>4, <1>5, <1>6, <1>7, <1>8, <1>9, <1>10 DEF Next, Apply

\* The invariant of the process, in every state.
LEMMA ProcessInvariant == Spec => [](TypeInv /\ ProcessInv)
  <1>1. Init => ProcessInv
    BY DEF Init, ProcessInv, LoadedInv, InvocationInv, ReceiptIsTrue
  <1>2. TypeInv /\ ProcessInv /\ [Next]_vars => ProcessInv'
    BY StepLoaded, StepInvocations DEF ProcessInv
  <1>3. QED BY InitTypes, StepTypes, <1>1, <1>2, PTL DEF Spec

\* A receipt that names the running process says what that process has loaded
\* (saveCoreLoaded, coreLoadedMatches), whoever restarted it and whatever was edited.
THEOREM ReceiptsAreTrue == Spec => []ReceiptIsTrue
  <1>1. ProcessInv => ReceiptIsTrue
    BY DEF ProcessInv, InvocationInv
  <1>2. QED BY <1>1, ProcessInvariant, PTL

-----------------------------------------------------------------------------
(* While nobody edits the files.                                           *)

\* What runs from the files there are is what the plan finds.
LEMMA BeginQuiet ==
  ASSUME TypeInv, ProcessInv, Quiet, NEW want \in Configs \cup {Absent}, Begin(want)
  PROVE  Quiet'
  <1> DEFINE after == [f \in Files |-> IF f = "unit" THEN Manager ELSE want]
             plan  == [before |-> file, after |-> after, svc |-> svc, access |-> access,
                       enabled |-> want # Absent, noop |-> Noop(after), pending |-> FALSE]
  <1>1. /\ rec = None /\ svc.job = "none"
        /\ rec' = plan /\ pc' = (IF Noop(after) THEN "done" ELSE "validate")
        /\ UNCHANGED <<file, access, svc, bounces>>
    BY DEF Begin, Goto, Settled, files, system
  <1>2. after["unit"] = Manager /\ after["config"] = want
    BY DEF Files
  <1>3. Runs(file)
    BY <1>1 DEF Quiet, OldInv
  <1>4. Noop(after) => /\ file = after
                       /\ svc.active = "active" <=> want # Absent
                       /\ svc.enabled = (want # Absent)
    BY <1>2 DEF Noop, LoadedMatches, Running, TypeInv, TypeOK, Service
  <1>5. svc.run # None <=> svc.active = "active"
    BY <1>1 DEF TypeInv, Sane
  <1> HIDE DEF after
  <1>6. /\ plan.before = file /\ plan.after = after /\ plan.svc = svc /\ plan.access = access
        /\ plan.enabled = (want # Absent) /\ plan.noop = Noop(after) /\ plan.pending = FALSE
    OBVIOUS
  <1> HIDE DEF plan
  <1>7. Runs(file)'
    BY <1>1, <1>3 DEF Runs
  <1>8. ApplyInv'
    BY <1>1, <1>2, <1>3, <1>4, <1>6, <1>7 DEF ApplyInv, Runs, Enabling
  <1>9. OldInv'
    BY <1>1, <1>3, <1>4, <1>5, <1>6, <1>7 DEF OldInv, Runs, Undoing
  <1>10. UndoInv'
    BY <1>1 DEF UndoInv, Undoing
  <1>11. QED BY <1>8, <1>9, <1>10 DEF Quiet

\* The steps of an apply that touch neither the files nor the service.
LEMMA ApplyPassesQuietly ==
  ASSUME TypeInv, ProcessInv, Quiet,
         \/ Validate \/ Grant("dir", "dir", TRUE, "bin") \/ Grant("bin", "bin", TRUE, "unit")
         \/ Verify \/ WaitAt("wait", "ready") \/ ReadyAt("ready", rec.after, "loaded")
         \/ Loaded \/ Stamp
  PROVE  Quiet'
  <1> USE DEF Goto, Step, Checked, Failed, FaultHere, Fault, Leave, Applying, files, system, local,
              bounds
  <1>1. UNCHANGED <<file, svc, rec, bounces>> /\ rec # None /\ ~rec.noop
    BY DEF Validate, Grant, Verify, WaitAt, ReadyAt, Loaded, Stamp, TypeInv, PlanInv, Resting
  <1>2. pc' \notin Undoing
    BY DEF Validate, Grant, Verify, WaitAt, ReadyAt, Loaded, Stamp, Undoing
  <1>3. OldInv'
    BY <1>1, <1>2 DEF Quiet, OldInv, Runs
  <1>4. UndoInv'
    BY <1>2 DEF UndoInv, Undoing
  <1>5. ApplyInv'
    <2>1. CASE Validate
      BY <2>1 DEF Validate, Quiet, ApplyInv, Enabling
    <2>2. CASE Grant("dir", "dir", TRUE, "bin") \/ Grant("bin", "bin", TRUE, "unit")
      BY <1>1, <2>2 DEF Grant, Quiet, ApplyInv, Enabling
    <2>3. CASE Verify
      BY <2>3 DEF Verify, Quiet, ApplyInv, Enabling
    <2>4. CASE WaitAt("wait", "ready") \/ ReadyAt("ready", rec.after, "loaded") \/ Loaded
      BY <1>1, <2>4 DEF WaitAt, ReadyAt, Loaded, Quiet, ApplyInv, Enabling
    <2>5. CASE Stamp
      <3>1. Stamped => svc.enabled = rec.enabled
        BY <2>5 DEF Stamp, Stamped, TypeInv, PlanInv, TypeOK, Service, Plan, Enabling, Resting
      <3>2. Runs(file)
        BY <2>5 DEF Stamp, Quiet, ApplyInv, Runs, ProcessInv, LoadedInv, Enabling
      <3>3. Runs(file)'
        BY <1>1, <3>2 DEF Runs
      <3>4. rec.enabled
        BY <2>5 DEF Stamp, TypeInv, PlanInv, Enabling
      <3>5. QED BY <1>1, <2>5, <3>1, <3>3, <3>4 DEF Stamp, Quiet, ApplyInv, Enabling
    <2>6. QED BY <2>1, <2>2, <2>3, <2>4, <2>5
  <1>6. QED BY <1>3, <1>4, <1>5 DEF Quiet

\* A step that writes a file: nothing has been made of the new content.
LEMMA WriteQuiet ==
  ASSUME TypeInv, Quiet, Write("unit", "config") \/ Write("config", "reload")
  PROVE  Quiet'
  <1>1. PICK f \in Files, next \in {"config", "reload"} :
          /\ Write(f, next)
          /\ f = "unit" => next = "config"
          /\ f = "config" => next = "reload"
    BY DEF Files
  <1>2. /\ pc = f /\ UNCHANGED <<access, svc, rec, bounces>>
        /\ \A g \in Files \ {f} : file'[g] = file[g]
        /\ \/ /\ pc' = next
              /\ \/ file'[f] = rec.after[f]
                 \/ rec.before[f] = rec.after[f] /\ file' = file
           \/ pc' \in {"failed", "idle"}
    BY <1>1, WriteOutcome
  <1>3. rec # None /\ ~rec.noop
    BY <1>1, <1>2 DEF TypeInv, PlanInv, Resting, Files
  <1>4. pc' \notin Undoing
    BY <1>2 DEF Undoing
  <1>5. OldInv'
    BY <1>1, <1>2, <1>3, <1>4 DEF Quiet, OldInv, ApplyInv, Files
  <1>6. UndoInv'
    BY <1>4 DEF UndoInv, Undoing
  <1>7. ApplyInv'
    BY <1>1, <1>2 DEF Quiet, ApplyInv, Enabling, Files
  <1>8. QED BY <1>5, <1>6, <1>7 DEF Quiet

\* The reload of an apply makes systemd read the planned unit.
LEMMA ReloadQuiet ==
  ASSUME TypeInv, Quiet, Reload
  PROVE  Quiet'
  <1> USE DEF Goto, Step, Failed, FaultHere, Fault, Leave, Applying, files, system, local, bounds
  <1> DEFINE s == [svc EXCEPT !.loaded = file["unit"]]
  <1>1. /\ s.run = svc.run /\ s.enabled = svc.enabled /\ s.active = svc.active /\ s.job = svc.job
        /\ s.loaded = file["unit"]
    BY DEF TypeInv, TypeOK, Service
  <1> HIDE DEF s
  <1>2. pc = "reload" /\ UNCHANGED <<file, access, rec, bounces>> /\ rec # None /\ ~rec.noop
    BY DEF Reload, TypeInv, PlanInv, Resting
  <1>3. \/ svc' = s /\ pc' = "verify"
        \/ svc' = svc /\ pc' = "verify" /\ rec.before["unit"] = rec.after["unit"]
        \/ svc' = svc /\ pc' = "failed"
    BY <1>2 DEF Reload, ReloadIf, s
  <1>4. file["unit"] = rec.after["unit"] /\ file["config"] = rec.after["config"]
    BY <1>2 DEF Quiet, ApplyInv
  <1>5. OldInv'
    BY <1>1, <1>2, <1>3 DEF Quiet, OldInv, Undoing
  <1>6. UndoInv'
    BY <1>3 DEF UndoInv, Undoing
  <1>7. pc' = "verify" => svc'.loaded = file["unit"]
    BY <1>1, <1>2, <1>3, <1>4 DEF Quiet, ApplyInv, OldInv
  <1>8. ApplyInv'
    BY <1>2, <1>3, <1>4, <1>7 DEF ApplyInv, Enabling
  <1>9. QED BY <1>5, <1>6, <1>8 DEF Quiet

\* Stopping and enabling the service bring it to what the plan says.
LEMMA SwitchQuiet ==
  ASSUME TypeInv, Quiet, Stop \/ Enable
  PROVE  Quiet'
  <1> USE DEF Goto, Step, Failed, FaultHere, Fault, Leave, Applying, files, system, local, bounds
  <1>1. /\ pc \in {"stop", "enable"} /\ UNCHANGED <<file, access, rec, bounces>>
        /\ rec # None /\ ~rec.noop
        /\ file["unit"] = rec.after["unit"] /\ file["config"] = rec.after["config"]
        /\ svc.loaded = file["unit"]
    BY DEF Stop, Enable, TypeInv, PlanInv, Resting, Quiet, ApplyInv, Enabling
  <1>2. \A s \in Service : \A e :
          /\ [s EXCEPT !.enabled = e].run = s.run
          /\ [s EXCEPT !.enabled = e].loaded = s.loaded
          /\ [s EXCEPT !.enabled = e].active = s.active
          /\ [s EXCEPT !.enabled = e].job = s.job
          /\ [s EXCEPT !.enabled = e].enabled = e
    BY DEF Service
  <1>3. /\ svc'.run \in {svc.run, None} /\ svc'.loaded = svc.loaded
        /\ pc' \in {"done", "failed", "restart"}
        /\ pc' = "done" => ~svc'.enabled /\ svc'.job = "none" /\ svc'.active # "active"
    <2>1. CASE Stop
      <3> DEFINE down == {svc, Down(svc, "inactive"), [svc EXCEPT !.job = "stop"]}
      <3>1. \A s \in down : s \in Service /\ s.run \in {svc.run, None} /\ s.loaded = svc.loaded
        BY DownIsService DEF Service, Jobs, TypeInv, TypeOK
      <3>2. CASE svc' = [Down(svc, "inactive") EXCEPT !.enabled = FALSE] /\ pc' = "done"
        BY <1>2, <3>2, DownIsService DEF TypeInv, TypeOK
      <3> HIDE DEF down
      <3>3. CASE svc' \in {[s EXCEPT !.enabled = e] : s \in down, e \in {svc.enabled, FALSE}}
                 /\ pc' = "failed"
        <4>1. PICK s \in down, e \in {svc.enabled, FALSE} : svc' = [s EXCEPT !.enabled = e]
          BY <3>3
        <4>2. QED BY <1>2, <3>1, <3>3, <4>1
      <3>4. QED BY <2>1, <3>2, <3>3 DEF Stop, down
    <2>2. CASE Enable
      <3> DEFINE e == svc.enabled \/ ~rec.svc.enabled
                 s == [svc EXCEPT !.enabled = e]
      <3>1. s.run = svc.run /\ s.loaded = svc.loaded
        BY DEF TypeInv, TypeOK, Service
      <3>2. svc' \in {svc, s}
        BY <2>2 DEF Enable
      <3> HIDE DEF s
      <3>3. QED BY <2>2, <3>1, <3>2 DEF Enable
    <2>3. QED BY <2>1, <2>2
  <1>4. pc' = "done" => svc'.enabled = rec.enabled
    <2>1. pc' = "done" => ~rec.enabled /\ svc'.enabled = FALSE
      BY <1>3 DEF Stop, Enable, TypeInv, PlanInv, TypeOK, Service
    <2>2. rec.enabled \in BOOLEAN
      BY <1>1 DEF TypeInv, TypeOK, Plan
    <2>3. QED BY <2>1, <2>2
  <1>5. ApplyInv'
    <2>1. pc' = "done" => ~rec.enabled
      BY <1>3 DEF Stop, Enable, TypeInv, PlanInv
    <2>2. QED BY <1>1, <1>3, <1>4, <2>1 DEF ApplyInv, Enabling
  <1>6. OldInv'
    BY <1>1, <1>3 DEF Quiet, OldInv, Undoing
  <1>7. UndoInv'
    BY <1>3 DEF UndoInv, Undoing
  <1>8. QED BY <1>5, <1>6, <1>7 DEF Quiet

\* A restart makes a process of the files there are, or the service goes down.
LEMMA RestartQuiet ==
  ASSUME TypeInv, Quiet, RestartAt("restart", "wait") \/ RestartAt("c_restart", "c_wait")
  PROVE  Quiet'
  <1> USE DEF Goto, Step, Failed, FaultHere, Fault, Leave, Applying, files, system, local, bounds
  <1>1. /\ pc \in {"restart", "c_restart"} /\ UNCHANGED <<file, access, rec, bounces>>
        /\ rec # None /\ ~rec.noop
    BY DEF RestartAt, TypeInv, PlanInv, Resting
  <1>2. \/ /\ pc' = (IF pc = "restart" THEN "wait" ELSE "c_wait")
           /\ svc' = Up(svc)
        \/ /\ pc' \in {"failed", "idle"}
           /\ svc' \in {svc, Down(svc, "failed"), [svc EXCEPT !.job = "start"]}
    BY <1>1 DEF RestartAt
  <1>3. /\ svc'.loaded = svc.loaded /\ svc'.enabled = svc.enabled
        /\ \/ svc'.run \in {svc.run, None}
           \/ svc'.run.unit = svc.loaded /\ svc'.run.config = file["config"]
        /\ pc' \in {"wait", "c_wait"} =>
             /\ svc'.run.unit = svc.loaded /\ svc'.run.config = file["config"]
             /\ svc'.active = "active" /\ svc'.job = "none"
    BY <1>2, UpIsService, DownIsService DEF TypeInv, TypeOK, Service
  <1>4. ApplyInv'
    BY <1>1, <1>2, <1>3 DEF Quiet, ApplyInv, Enabling
  <1>5. OldInv'
    BY <1>1, <1>2, <1>3 DEF Quiet, OldInv, UndoInv, Undoing, TypeInv, PlanInv
  <1>6. UndoInv'
    BY <1>1, <1>2, <1>3 DEF Quiet, UndoInv, Undoing, Runs
  <1>7. QED BY <1>4, <1>5, <1>6 DEF Quiet

\* The end of a transaction leaves a service that runs from the files there are.
LEMMA EndQuiet ==
  ASSUME TypeInv, Quiet, Commit \/ Undo
  PROVE  Quiet'
  <1> USE DEF End, Goto, Leave, files, system, local, bounds
  <1>1. UNCHANGED <<file, access, svc, bounces>>
    BY DEF Commit, Undo
  <1>2. CASE rec' = None /\ pc' = "idle"
    <2>1. Runs(file)
      <3>1. CASE pc = "done"
        BY <3>1 DEF Quiet, ApplyInv, Runs, TypeInv, Sane
      <3>2. CASE pc # "done"
        <4>1. rec # None /\ rec.noop
          BY <1>2, <3>2 DEF Commit, Undo, TypeInv, PlanInv, Resting
        <4>2. QED BY <4>1 DEF Quiet, OldInv
      <3>3. QED BY <3>1, <3>2
    <2>2. Runs(file)'
      BY <1>1, <2>1 DEF Runs
    <2>3. ApplyInv' /\ UndoInv'
      BY <1>2 DEF ApplyInv, UndoInv, Undoing, Enabling
    <2>4. OldInv'
      BY <1>2, <2>2 DEF OldInv, Undoing
    <2>5. QED BY <2>3, <2>4 DEF Quiet
  <1>3. CASE rec' = rec /\ pc' = "comp"
    <2>1. ApplyInv' /\ UndoInv'
      BY <1>3 DEF ApplyInv, UndoInv, Undoing, Enabling
    <2>2. OldInv'
      BY <1>1, <1>3 DEF Quiet, OldInv, Undoing, Runs
    <2>3. QED BY <2>1, <2>2 DEF Quiet
  <1>4. QED BY <1>2, <1>3 DEF Commit, Undo

\* A compensation owes the service nothing if it is what it was, and from then on it
\* stays what it was.
LEMMA CompQuiet ==
  ASSUME TypeInv, Quiet, Comp
  PROVE  Quiet'
  <1> USE DEF Goto, Leave, files, system, local, bounds
  <1>1. /\ pc = "comp" /\ UNCHANGED <<file, access, svc, bounces>>
        /\ rec # None /\ ~rec.noop /\ rec \in Plan
    BY DEF Comp, TypeInv, TypeOK, PlanInv, Resting
  <1> DEFINE p == [rec EXCEPT !.pending = @ \/ Needs(rec)]
  <1>2. /\ p.before = rec.before /\ p.after = rec.after /\ p.svc = rec.svc
        /\ p.access = rec.access /\ p.noop = rec.noop
        /\ ~p.pending <=> ~rec.pending /\ ~Needs(rec)
    BY <1>1 DEF Plan
  <1>3. \/ pc' = "c_config" /\ rec' = p /\ svc.job = "none"
        \/ pc' = "idle" /\ rec' \in {rec, p}
    BY DEF Comp, Checkpoint, Settled
  <1> HIDE DEF p
  <1>4. ApplyInv' /\ UndoInv'
    BY <1>3 DEF ApplyInv, UndoInv, Undoing, Enabling
  <1>5. OldInv'
    <2>1. ~rec.noop /\ rec # None /\ (rec' # None => ~rec'.noop)
      BY <1>1, <1>2, <1>3
    <2>2. rec' # None
      <3>1. p \in Plan
        BY <1>1 DEF Plan, Needs, NeedReload, p
      <3>2. QED BY <1>1, <1>3, <3>1, SentinelAssumption
    <2>3. QED BY <1>1, <1>2, <1>3, <2>1, <2>2 DEF Quiet, OldInv, Undoing, Needs, NeedReload
  <1>6. QED BY <1>4, <1>5 DEF Quiet

\* A step that puts a file back belongs to a plan that owes the service something.
LEMMA PutBackQuiet ==
  ASSUME TypeInv, Quiet,
         PutBack("c_config", "config", "c_unit") \/ PutBack("c_unit", "unit", "c_bin")
  PROVE  Quiet'
  <1>1. PICK at \in {"c_config", "c_unit"}, f \in Files, next \in {"c_unit", "c_bin"} :
          /\ PutBack(at, f, next)
          /\ at = "c_config" => f = "config" /\ next = "c_unit"
          /\ at = "c_unit" => f = "unit" /\ next = "c_bin"
    BY DEF Files
  <1>2. /\ pc = at /\ UNCHANGED <<access, svc, rec, bounces>>
        /\ \A g \in Files \ {f} : file'[g] = file[g]
        /\ file \in [Files -> Contents] /\ file' \in [Files -> Contents]
        /\ file' # file => file[f] # rec.before[f]
        /\ \/ pc' = next /\ file'[f] = rec.before[f]
           \/ pc' \in Resting
    BY <1>1, PutBackOutcome DEF TypeInv, TypeOK
  <1>3. rec # None /\ ~rec.noop /\ pc \in Undoing
    BY <1>1, <1>2 DEF TypeInv, PlanInv, Resting, Undoing
  <1>4. ~rec.pending => file' = file
    BY <1>2, <1>3 DEF Quiet, OldInv
  <1>5. OldInv'
    BY <1>1, <1>2, <1>3, <1>4 DEF Quiet, OldInv
  <1>6. UndoInv'
    BY <1>1, <1>2 DEF Quiet, UndoInv, Undoing, Files, Resting
  <1>7. ApplyInv'
    BY <1>1, <1>2 DEF ApplyInv, Enabling, Resting
  <1>8. QED BY <1>5, <1>6, <1>7 DEF Quiet

\* The steps of a compensation that touch neither the files nor the service.
LEMMA UndoPassesQuietly ==
  ASSUME TypeInv, Quiet,
         \/ Grant("c_bin", "bin", rec.access["bin"], "c_dir")
         \/ Grant("c_dir", "dir", rec.access["dir"], "c_reload")
         \/ WaitAt("c_wait", "c_ready") \/ ReadyAt("c_ready", rec.before, "c_enable")
         \/ CompVerify
  PROVE  Quiet'
  <1> USE DEF Goto, Step, Checked, Failed, FaultHere, Fault, Leave, Applying, files, system, local,
              bounds
  <1>1. /\ UNCHANGED <<file, svc, rec, bounces>> /\ rec # None /\ ~rec.noop /\ pc \in Undoing
    BY DEF Grant, WaitAt, ReadyAt, CompVerify, TypeInv, PlanInv, Resting, Undoing
  <1>2. pc' \in {"c_dir", "c_reload", "c_ready", "c_enable", "c_finish", "idle"}
    BY DEF Grant, WaitAt, ReadyAt, CompVerify
  <1>3. OldInv'
    BY <1>1, <1>2 DEF Quiet, OldInv
  <1>4. ApplyInv'
    BY <1>2 DEF ApplyInv, Enabling
  <1>5. UndoInv'
    <2>1. CASE \/ Grant("c_bin", "bin", rec.access["bin"], "c_dir")
               \/ Grant("c_dir", "dir", rec.access["dir"], "c_reload")
      BY <1>1, <2>1 DEF Grant, Quiet, UndoInv, Undoing, TypeInv, TypeOK, Places
    <2>2. CASE \/ WaitAt("c_wait", "c_ready") \/ ReadyAt("c_ready", rec.before, "c_enable")
               \/ CompVerify
      BY <1>1, <2>2 DEF WaitAt, ReadyAt, CompVerify, Quiet, UndoInv, Undoing, Runs
    <2>3. QED BY <2>1, <2>2
  <1>6. QED BY <1>3, <1>4, <1>5 DEF Quiet

\* After the reload of a compensation systemd would start the old unit.
LEMMA CompReloadQuiet ==
  ASSUME TypeInv, Quiet, CompReload
  PROVE  Quiet'
  <1> USE DEF Goto, Step, Failed, FaultHere, Fault, Leave, Applying, files, system, local, bounds
  <1> DEFINE s == [svc EXCEPT !.loaded = file["unit"]]
  <1>1. /\ s.run = svc.run /\ s.enabled = svc.enabled /\ s.active = svc.active /\ s.job = svc.job
        /\ s.loaded = file["unit"]
    BY DEF TypeInv, TypeOK, Service
  <1> HIDE DEF s
  <1>2. /\ pc = "c_reload" /\ UNCHANGED <<file, access, rec, bounces>>
        /\ rec # None /\ ~rec.noop
    BY DEF CompReload, TypeInv, PlanInv, Resting
  <1>3. /\ svc' = s \/ svc' = svc
        /\ \/ /\ pc' = "c_service" /\ seen' = svc /\ svc.job = "none"
              /\ svc'.loaded = file["unit"]
           \/ pc' = "idle"
    BY <1>1, <1>2 DEF CompReload, ReloadIf, Settled, NeedReload, s
  <1>4. ApplyInv'
    BY <1>3 DEF ApplyInv, Enabling
  <1>5. OldInv'
    BY <1>1, <1>2, <1>3 DEF Quiet, OldInv, Undoing
  <1>6. UndoInv'
    BY <1>1, <1>2, <1>3 DEF Quiet, UndoInv, Undoing
  <1>7. QED BY <1>4, <1>5, <1>6 DEF Quiet

\* What ran is restarted if something is owed to it; what did not run is stopped.
LEMMA CompServiceQuiet ==
  ASSUME TypeInv, Quiet, CompService
  PROVE  Quiet'
  <1> USE DEF Goto, Step, Checked, Failed, FaultHere, Fault, Leave, Applying, files, system, local,
              bounds
  <1>1. /\ pc = "c_service" /\ UNCHANGED <<file, access, rec, bounces>>
        /\ rec # None /\ ~rec.noop
    BY DEF CompService, TypeInv, PlanInv, Resting
  <1> DEFINE down == Down(svc, "inactive")
             stop == [svc EXCEPT !.job = "stop"]
  <1>2. /\ down.run = None /\ down.active = "inactive" /\ down.job = "none"
        /\ down.enabled = svc.enabled /\ down.loaded = svc.loaded
        /\ stop.run = svc.run /\ stop.loaded = svc.loaded /\ stop.enabled = svc.enabled
    BY DownIsService DEF TypeInv, TypeOK, Service
  <1> HIDE DEF down, stop
  <1>3. \/ pc' = "c_restart" /\ svc' = svc
        \/ /\ pc' = "c_enable" /\ svc' = svc /\ rec.svc.active = "active"
           /\ ~rec.pending
        \/ pc' = "c_enable" /\ svc' = down /\ rec.svc.active # "active"
        \/ pc' = "c_enable" /\ svc' = svc /\ rec.svc.active # "active" /\ seen.active # "active"
        \/ pc' = "idle" /\ svc' \in {svc, down, stop}
    BY <1>1 DEF CompService, Work, down, stop
  <1>4. file = rec.before
    <2>1. file["unit"] = rec.before["unit"] /\ file["config"] = rec.before["config"]
      BY <1>1 DEF Quiet, UndoInv, Undoing
    <2>2. file \in [Files -> Contents] /\ rec.before \in [Files -> Contents]
      BY <1>1 DEF TypeInv, TypeOK, Plan
    <2>3. QED BY <2>1, <2>2 DEF Files
  <1>5. pc' = "c_enable" => Runs(rec.before)'
    <2>1. svc.loaded = file["unit"]
      BY <1>1 DEF Quiet, UndoInv, Undoing
    <2>2. CASE ~rec.pending /\ svc' = svc
      BY <1>1, <1>4, <2>1, <2>2 DEF Quiet, OldInv, Runs
    <2>3. CASE svc' = down
      BY <1>1, <1>2, <1>4, <2>1, <2>3 DEF Runs
    <2>4. CASE svc' = svc /\ seen.active # "active"
      <3>1. svc.run = None
        BY <1>1, <2>4 DEF Quiet, UndoInv, TypeInv, Sane
      <3>2. QED BY <1>1, <1>4, <2>1, <2>4, <3>1 DEF Runs
    <2>5. QED BY <1>3, <2>2, <2>3, <2>4
  <1>6. ApplyInv'
    BY <1>3 DEF ApplyInv, Enabling
  <1>7. OldInv'
    BY <1>1, <1>2, <1>3 DEF Quiet, OldInv, Undoing
  <1>8. UndoInv'
    BY <1>1, <1>2, <1>3, <1>5 DEF Quiet, UndoInv, Undoing
  <1>9. QED BY <1>6, <1>7, <1>8 DEF Quiet

\* The enablement changes towards the old one only.
LEMMA CompEnableQuiet ==
  ASSUME TypeInv, Quiet, CompEnable
  PROVE  Quiet'
  <1> USE DEF Goto, Step, Failed, FaultHere, Fault, Leave, Applying, files, system, local, bounds
  <1>1. /\ pc = "c_enable" /\ UNCHANGED <<file, access, rec, bounces>>
        /\ rec # None /\ ~rec.noop
    BY DEF CompEnable, TypeInv, PlanInv, Resting
  <1> DEFINE s == [svc EXCEPT !.enabled = rec.svc.enabled]
             t == [svc EXCEPT !.enabled = @]
  <1>2. /\ s.run = svc.run /\ s.loaded = svc.loaded /\ s.active = svc.active /\ s.job = svc.job
        /\ s.enabled = rec.svc.enabled /\ t = svc
    BY DEF TypeInv, TypeOK, Service
  <1>3. svc' \in {svc, s} /\ pc' \in {"c_verify", "idle"}
    BY <1>1, <1>2 DEF CompEnable
  <1> HIDE DEF s, t
  <1>4. ApplyInv'
    BY <1>3 DEF ApplyInv, Enabling
  <1>5. OldInv'
    BY <1>1, <1>2, <1>3 DEF Quiet, OldInv, Undoing
  <1>6. UndoInv'
    BY <1>1, <1>2, <1>3 DEF Quiet, UndoInv, Undoing, Runs
  <1>7. QED BY <1>4, <1>5, <1>6 DEF Quiet

\* What holds when a compensation ends.
LEMMA FinishIsReal ==
  ASSUME TypeInv, Quiet, pc = "c_finish", rec.pending => Restored
  PROVE  /\ file = rec.before /\ access = rec.access /\ svc.enabled = rec.svc.enabled
         /\ Runs(file)
         /\ bounces = 0 => (svc.run # None <=> rec.svc.run # None)
  <1>1. rec # None /\ rec \in Plan /\ WellPlanned(rec)
    BY DEF TypeInv, TypeOK, PlanInv, Resting
  <1>2. file = rec.before
    <2>1. file["unit"] = rec.before["unit"] /\ file["config"] = rec.before["config"]
      BY DEF Quiet, UndoInv, Undoing
    <2>2. QED BY <1>1, <2>1 DEF TypeInv, TypeOK, Plan, Files
  <1>3. access = rec.access
    <2>1. access["bin"] = rec.access["bin"] /\ access["dir"] = rec.access["dir"]
      BY DEF Quiet, UndoInv, Undoing
    <2>2. access \in [Places -> BOOLEAN] /\ rec.access \in [Places -> BOOLEAN]
      BY <1>1 DEF TypeInv, TypeOK, Plan
    <2>3. \A y \in Places : access[y] = rec.access[y]
      BY <2>1 DEF Places
    <2>4. QED BY <2>2, <2>3
  <1>4. Runs(file)
    BY <1>2 DEF Quiet, UndoInv
  <1>5. CASE rec.pending
    BY <1>1, <1>2, <1>3, <1>4, <1>5 DEF Restored, Settled, WellPlanned, TypeInv, Sane
  <1>6. CASE ~rec.pending
    <2>1. svc.enabled = rec.svc.enabled
      BY <1>6 DEF Quiet, OldInv, Undoing
    <2>2. bounces = 0 => svc.job = "none" /\ (svc.active = "active" <=> rec.svc.active = "active")
      BY <1>6 DEF Quiet, OldInv, Undoing
    <2>3. QED BY <1>1, <1>2, <1>3, <1>4, <2>1, <2>2 DEF WellPlanned, TypeInv, Sane
  <1>7. QED BY <1>5, <1>6

\* A compensation ends, or forgets what it owed, when nothing is owed any more.
LEMMA CompFinishQuiet ==
  ASSUME TypeInv, Quiet, CompFinish
  PROVE  Quiet'
  <1> USE DEF End, Goto, Leave, files, system, local, bounds
  <1>1. /\ pc = "c_finish" /\ pc' = "idle" /\ UNCHANGED <<file, access, svc, bounces>>
        /\ rec # None /\ ~rec.noop /\ rec \in Plan
    BY DEF CompFinish, TypeInv, TypeOK, PlanInv, Resting
  <1> DEFINE p == [rec EXCEPT !.pending = FALSE]
  <1>2. /\ p.before = rec.before /\ p.noop = rec.noop
    BY <1>1 DEF Plan
  <1>3. \/ rec' = None /\ (rec.pending => Restored)
        \/ rec' = rec
        \/ rec' = p /\ rec' # None
    <2>1. p \in Plan
      BY <1>1 DEF Plan
    <2>2. QED BY <2>1, SentinelAssumption DEF CompFinish
  <1> HIDE DEF p
  <1>4. Runs(rec.before)
    BY <1>1 DEF Quiet, UndoInv
  <1>5. ApplyInv' /\ UndoInv'
    BY <1>1 DEF ApplyInv, UndoInv, Undoing, Enabling
  <1>6. OldInv'
    <2>1. CASE rec' = None
      <3>1. Runs(file)
        BY <1>1, <1>3, <2>1, FinishIsReal
      <3>2. QED BY <1>1, <2>1, <3>1 DEF OldInv, Runs, Undoing
    <2>2. CASE rec' # None
      BY <1>1, <1>2, <1>3, <1>4, <2>2 DEF Quiet, OldInv, Runs, Undoing
    <2>3. QED BY <2>1, <2>2
  <1>7. QED BY <1>5, <1>6 DEF Quiet

\* systemd starts what the files say, and a process that dies is none.
LEMMA SystemdQuiet ==
  ASSUME TypeInv, Quiet, JobDone \/ Die
  PROVE  Quiet'
  <1>1. /\ UNCHANGED <<file, access, rec, pc, seen>> /\ bounces' \in Nat
        /\ bounces' = 0 => bounces = 0 /\ svc.job # "none"
        /\ svc.job # "none" \/ svc.active = "active"
    BY DEF JobDone, Die, files, local, bounds, TypeInv, Running
  <1>2. /\ svc'.loaded = svc.loaded /\ svc'.enabled = svc.enabled
        /\ svc'.run # None => svc'.run.unit = svc.loaded /\ svc'.run.config = file["config"]
    <2>1. [svc EXCEPT !.job = "start", !.run = None].run = None
          /\ [svc EXCEPT !.job = "start", !.run = None].loaded = svc.loaded
          /\ [svc EXCEPT !.job = "start", !.run = None].enabled = svc.enabled
      BY DEF TypeInv, TypeOK, Service
    <2>2. \/ svc' = Up(svc)
          \/ svc' \in {Down(svc, "failed"), Down(svc, "inactive"),
                       [svc EXCEPT !.job = "start", !.run = None]}
      BY DEF JobDone, Die
    <2>3. CASE svc' = Up(svc)
      BY <2>3, UpIsService DEF TypeInv, TypeOK
    <2>4. /\ Down(svc, "failed").run = None /\ Down(svc, "failed").loaded = svc.loaded
          /\ Down(svc, "failed").enabled = svc.enabled
          /\ Down(svc, "inactive").run = None /\ Down(svc, "inactive").loaded = svc.loaded
          /\ Down(svc, "inactive").enabled = svc.enabled
      BY DownIsService DEF TypeInv, TypeOK
    <2>5. QED BY <2>1, <2>2, <2>3, <2>4
  <1>3. ApplyInv'
    BY <1>1, <1>2 DEF Quiet, ApplyInv, Runs
  <1>4. OldInv'
    BY <1>1, <1>2 DEF Quiet, OldInv, Runs, Undoing
  <1>5. UndoInv'
    BY <1>1, <1>2 DEF Quiet, UndoInv, Undoing, Runs
  <1>6. QED BY <1>3, <1>4, <1>5 DEF Quiet

\* A kill changes nothing; after a loss of power an enabled service starts from its files.
LEMMA CrashQuiet ==
  ASSUME TypeInv, Quiet, Kill \/ PowerLoss
  PROVE  Quiet'
  <1>1. /\ UNCHANGED <<file, access, rec, bounces>> /\ pc' = "idle"
    BY DEF Kill, PowerLoss, files, system, Leave, Goto
  <1>2. ApplyInv' /\ UndoInv'
    BY <1>1 DEF ApplyInv, UndoInv, Undoing, Enabling
  <1>3. CASE Kill
    <2>1. svc' = svc
      BY <1>3 DEF Kill, system
    <2>2. OldInv'
      BY <1>1, <2>1 DEF Quiet, OldInv, Runs, Undoing
    <2>3. QED BY <1>2, <2>2 DEF Quiet
  <1>4. CASE PowerLoss
    <2> DEFINE s == [svc EXCEPT !.loaded = file["unit"], !.enabled = @ /\ file["unit"] # Absent]
    <2>1. s \in Service /\ s.loaded = file["unit"]
          /\ s.enabled = (svc.enabled /\ file["unit"] # Absent)
      BY DEF Service, Files, TypeInv, TypeOK
    <2>2. IF s.enabled /\ Startable(s) THEN svc' = Up(s)
          ELSE svc' = Down(s, "failed") \/ svc' = Down(s, "inactive")
      BY <1>4 DEF PowerLoss
    <2> HIDE DEF s
    <2>3. /\ svc'.loaded = file["unit"] /\ svc'.enabled = s.enabled /\ svc'.job = "none"
          /\ svc'.run # None =>
               svc'.run.unit = file["unit"] /\ svc'.run.config = file["config"]
          /\ svc'.active = "active" <=> s.enabled /\ Startable(s)
      BY <2>1, <2>2, UpIsService, DownIsService DEF TypeInv, TypeOK
    <2>4. Runs(file)'
      BY <1>1, <2>3 DEF Runs
    <2>5. rec # None /\ rec.noop =>
            /\ svc'.enabled = svc.enabled
            /\ svc'.active = "active" <=> svc.enabled
      <3> SUFFICES ASSUME rec # None, rec.noop
                   PROVE  /\ svc'.enabled = svc.enabled
                          /\ svc'.active = "active" <=> svc.enabled
        OBVIOUS
      <3>1. file["unit"] # Absent /\ (svc.enabled => file["config"] # Absent)
        BY ContentAssumption DEF Quiet, OldInv, TypeInv, PlanInv, WellPlanned
      <3>2. s.enabled = svc.enabled
        BY <2>1, <3>1 DEF TypeInv, TypeOK, Service
      <3>3. QED BY <2>1, <2>3, <3>1, <3>2 DEF Startable
    <2>6. OldInv'
      BY <1>1, <2>3, <2>4, <2>5 DEF Quiet, OldInv, Undoing
    <2>7. QED BY <1>2, <2>6 DEF Quiet
  <1>5. QED BY <1>3, <1>4

\* Every step keeps the invariant while nobody edits.
LEMMA StepQuiet == TypeInv /\ ProcessInv /\ QuietInv /\ [Next]_vars => QuietInv'
  <1> SUFFICES ASSUME TypeInv, ProcessInv, QuietInv, [Next]_vars, edits' = 0
               PROVE  Quiet'
    BY DEF QuietInv
  <1>1. CASE \E f \in Files, c \in Foreign \cup {Absent} : Edit(f, c)
    BY <1>1 DEF Edit, TypeInv
  <1>2. CASE ~\E f \in Files, c \in Foreign \cup {Absent} : Edit(f, c)
    <2>1. edits = 0
      <3>1. CASE Apply
        BY <3>1 DEF Apply, Validate, Grant, Write, Set, Reload, Verify, Stop, Enable, RestartAt,
                    WaitAt, ReadyAt, Loaded, Stamp, bounds
      <3>2. CASE Compensate
        BY <3>2 DEF Compensate, Comp, Grant, PutBack, Set, CompReload, CompService, RestartAt,
                    WaitAt, ReadyAt, CompEnable, CompVerify, CompFinish, bounds
      <3>3. CASE ~Apply /\ ~Compensate
        BY <1>2, <3>3 DEF Next, Begin, Commit, Undo, JobDone, Die, Kill, PowerLoss, vars, bounds
      <3>4. QED BY <3>1, <3>2, <3>3
    <2>2. Quiet
      BY <2>1 DEF QuietInv
    <2>3. CASE \E want \in Configs \cup {Absent} : Begin(want)
      BY <2>2, <2>3, BeginQuiet
    <2>4. CASE Apply
      BY <2>2, <2>4, ApplyPassesQuietly, WriteQuiet, ReloadQuiet, SwitchQuiet, RestartQuiet DEF Apply
    <2>5. CASE Commit \/ Undo
      BY <2>2, <2>5, EndQuiet
    <2>6. CASE Compensate
      BY <2>2, <2>6, CompQuiet, PutBackQuiet, UndoPassesQuietly, CompReloadQuiet, CompServiceQuiet,
         RestartQuiet, CompEnableQuiet, CompFinishQuiet DEF Compensate
    <2>7. CASE JobDone \/ Die
      BY <2>2, <2>7, SystemdQuiet
    <2>8. CASE Kill \/ PowerLoss
      BY <2>2, <2>8, CrashQuiet
    <2>9. CASE UNCHANGED vars
      BY <2>2, <2>9 DEF vars, files, system, local, bounds, Quiet, ApplyInv, OldInv, UndoInv, Runs
    <2>10. QED BY <1>2, <2>3, <2>4, <2>5, <2>6, <2>7, <2>8, <2>9 DEF Next
  <1>3. QED BY <1>1, <1>2

\* The invariant of a core nobody edits, in every state.
LEMMA QuietInvariant == Spec => [](TypeInv /\ ProcessInv /\ QuietInv)
  <1>1. Init => QuietInv
    <2> SUFFICES ASSUME Init PROVE Quiet
      BY DEF QuietInv
    <2>1. rec = None /\ pc = "idle" /\ Runs(file)
      BY DEF Init, Runs, Files
    <2>2. QED BY <2>1 DEF Quiet, ApplyInv, OldInv, UndoInv, Undoing, Enabling
  <1>2. QED BY <1>1, InitTypes, StepTypes, ProcessInvariant, StepQuiet, PTL DEF Spec

\* A committed plan has its files and its enablement, and the process there is runs them
\* (applyCorePlan), while nobody edits the files.
THEOREM CommitsAreServed == Spec => []DoneIsServed
  <1>1. TypeInv /\ QuietInv => DoneIsServed
    <2> SUFFICES ASSUME TypeInv, QuietInv, pc = "done", edits = 0
                 PROVE  /\ file = rec.after /\ svc.enabled = rec.enabled
                        /\ rec.enabled /\ svc.run # None =>
                             /\ svc.run.config = rec.after["config"]
                             /\ svc.run.unit = rec.after["unit"]
                        /\ ~rec.enabled => svc.run = None
      BY DEF DoneIsServed
    <2>1. ApplyInv
      BY DEF QuietInv, Quiet
    <2>2. file["unit"] = rec.after["unit"] /\ file["config"] = rec.after["config"]
      BY <2>1 DEF ApplyInv
    <2>3. file = rec.after
      <3>1. rec \in Plan
        BY DEF TypeInv, TypeOK, PlanInv, Resting
      <3>2. QED BY <2>2, <3>1 DEF TypeInv, TypeOK, Plan, Files
    <2>4. QED BY <2>1, <2>3 DEF ApplyInv, Runs, TypeInv, Sane
  <1>2. QED BY <1>1, QuietInvariant, PTL

\* A compensation that ends has brought back the files, the access and the enablement, and
\* what runs is what ran (compensateCorePlan), while nobody edits the files.
THEOREM CompensationsAreReal == Spec => UndoIsReal
  <1> DEFINE Real == rec # None /\ rec' = None /\ pc # "done" /\ edits = 0 =>
       /\ file = rec.before /\ access = rec.access /\ svc.enabled = rec.svc.enabled
       /\ svc.run # None => /\ svc.run.config = rec.before["config"]
                            /\ svc.run.unit = rec.before["unit"]
       /\ bounces = 0 => (svc.run # None <=> rec.svc.run # None)
  <1>1. TypeInv /\ QuietInv /\ [Next]_vars => [Real]_vars
    <2> SUFFICES ASSUME TypeInv, QuietInv, [Next]_vars,
                        rec # None, rec' = None, pc # "done", edits = 0
                 PROVE  Real
      OBVIOUS
    <2>1. Quiet
      BY DEF QuietInv
    <2>2. CASE CompFinish
      <3>1. pc = "c_finish" /\ (rec.pending => Restored)
        <4>1. rec \in Plan
          BY DEF TypeInv, TypeOK
        <4>2. [rec EXCEPT !.pending = FALSE] \in Plan
          BY <4>1 DEF Plan
        <4>3. QED BY <2>2, <4>2, SentinelAssumption DEF CompFinish
      <3>2. QED BY <2>1, <3>1, FinishIsReal DEF Runs
    <2>3. CASE Undo
      <3>1. rec.noop
        BY <2>3 DEF Undo
      <3>2. /\ file = rec.before /\ access = rec.access /\ svc.enabled = rec.svc.enabled
            /\ Runs(file) /\ (rec.svc.run # None <=> rec.enabled)
            /\ bounces = 0 => svc.job = "none" /\ (svc.active = "active" <=> rec.enabled)
        BY <2>1, <3>1 DEF Quiet, OldInv
      <3>3. QED BY <3>2 DEF Runs, TypeInv, Sane
    <2>4. CASE ~CompFinish /\ ~Undo
      <3>1. Checkpoint # None
        <4>1. rec \in Plan
          BY DEF TypeInv, TypeOK
        <4>2. Checkpoint \in Plan
          BY <4>1 DEF Plan, Checkpoint, Needs, NeedReload
        <4>3. QED BY <4>2, SentinelAssumption
      <3>2. CASE Compensate
        BY <2>4, <3>1, <3>2 DEF Compensate, Comp, Grant, PutBack, Set, CompReload, CompService,
                                RestartAt, WaitAt, ReadyAt, CompEnable, CompVerify
      <3>3. CASE Apply
        BY <3>3 DEF Apply, Validate, Grant, Write, Set, Reload, Verify, Stop, Enable, RestartAt,
                    WaitAt, ReadyAt, Loaded, Stamp
      <3>4. CASE ~Compensate /\ ~Apply
        BY <2>4, <3>4 DEF Next, Begin, Commit, JobDone, Die, Kill, PowerLoss, Edit, vars
      <3>5. QED BY <3>2, <3>3, <3>4
    <2>5. QED BY <2>2, <2>3, <2>4
  <1>2. QED BY <1>1, QuietInvariant, PTL DEF Spec, UndoIsReal
=============================================================================
