--------------------------- MODULE OpenClawProofs ---------------------------
(***************************************************************************)
(* The OpenClaw scene, for any number of gateways, proxies, commands,      *)
(* kills, failures and edits (OpenClaw).                                   *)
(*                                                                         *)
(* The argument has four layers, each preserved by every step given the    *)
(* ones before it.  TypeInv: which memory and record there are at which    *)
(* place.  JournalInv: how far the entry has come at each place of a       *)
(* loop, whatever the user does to the file.  EditInv: the user's latest   *)
(* version is in the file or under the claimed name, also across an        *)
(* exchange.  QuietInv: as long as the user has left the proxy alone, the  *)
(* file says what the entry says, and every gateway that the entry lists   *)
(* as done runs with it.                                                   *)
(***************************************************************************)
EXTENDS OpenClaw, WellFoundedInduction, TLAPS

Swapping == {"take", "publish", "retire"}
Loop     == {"expect", "observe", "confirm", "fallback", "restart", "wait", "commit"}

\* Places at which a loop is at a target.
AtTarget == Loop \cup {"entry", "prepared", "absent"}

PCs == {"idle", "validate", "baseline", "pending", "applied", "failed", "release", "drop",
        "restore", "forget", "undo", "undoing", "final", "undone"} \cup Swapping \cup AtTarget

Errors == {"none", "failed", "unsettled"}
Plans  == {None} \cup [kind : {"inactive"}] \cup [kind : {"seen"}, applied : Files]
Memory == [mode : {None, "apply", "release", "undo"}, todo : SUBSET Targets,
           failed : SUBSET Targets, plan : [Targets -> Plans], chan : SUBSET Targets,
           proc : SUBSET Targets, raw : Files \cup {None}, goal : Files \cup {None},
           then : {None, "prepared", "restore", "undoing"}, err : Errors]
Users  == [edit : Nat, orig : Values, touched : {"no", "own", "gone"}]

DataInv ==
  /\ TypeOK
  /\ left \in [{"commands", "kills", "faults", "edits"} -> Nat]
  /\ user \in Users /\ user.edit + left["edits"] <= MaxEdits
  /\ \A t \in Targets : gw[t].up =>
       gw[t].applied \in Files /\ (gw[t].pend \/ gw[t].chan = gw[t].applied.proxy)

Exchange ==
  /\ mem.raw \in Files /\ mem.goal \in Files /\ entry # None
  /\ mem.mode = "apply" => mem.then = "prepared"
  /\ mem.mode = "release" => mem.then = "restore"
  /\ mem.mode = "undo" => mem.then = "undoing"

PlaceInv ==
  /\ pc \in PCs /\ mem \in Memory
  /\ pc = "idle" => mem = Fresh
  /\ pc # "idle" => rec # None /\ mem.mode # None
  /\ pc \in {"validate", "entry", "prepared", "pending"} => mem.mode = "apply"
  /\ pc \in {"release", "drop", "restore", "forget"} => mem.mode = "release"
  /\ pc \in {"undo", "undoing", "absent", "final", "undone"} => mem.mode = "undo"
  /\ pc \in {"baseline", "expect", "observe", "confirm", "fallback", "applied", "failed"} =>
       mem.mode \in {"apply", "release"}
  /\ pc = "commit" => mem.mode = "apply" \/ (mem.mode = "undo" /\ rec.before # None)
  /\ pc = "absent" => rec.before # None
  /\ pc \notin {"idle", "validate", "failed"} => /\ mem.mode = "apply" => rec.cand.on
                                                 /\ mem.mode = "release" => ~rec.cand.on
  /\ pc \in AtTarget \/ (pc \in Swapping /\ mem.mode = "apply") =>
       mem.todo # {} /\ mem.todo \subseteq rec.targets
  /\ pc \in Swapping => Exchange
  /\ pc \in {"drop", "restore"} => entry # None
  /\ pc = "absent" => ~gw[Cur].unit
  /\ pc \in {"validate", "baseline"} => mem.err = "none"

TypeInv == DataInv /\ PlaceInv

\* What the journal says in a setting.
Clean(e, s) ==
  IF s.on THEN /\ e # None /\ e.managed = s.proxy /\ e.pending = None
               /\ e.targets = s.sel /\ e.ptargets = {} /\ e.phase = "active"
  ELSE e = None

BeforeTargets == IF rec.before = None THEN {} ELSE rec.before.targets

RecordInv == rec # None =>
  /\ rec.targets = rec.cand.sel \cup BeforeTargets /\ rec.targets # {} /\ rec.cand # store
  /\ rec.cand.on => BeforeTargets \subseteq rec.cand.sel
  /\ Clean(rec.before, store)
  /\ rec.value = rec.seen.proxy /\ rec.allowed = rec.cand.proxy
  /\ rec.before # None => rec.value = rec.before.managed
  /\ \A t \in rec.skip : ~gw[t].unit

\* The entry when all of done has been prepared without an error.
Ready(e, done) ==
  IF done = {} \/ (rec.before # None /\ done \subseteq BeforeTargets
                   /\ rec.before.managed = rec.cand.proxy)
  THEN e = rec.before
  ELSE /\ e # None /\ e.phase = "prepared" /\ e.pending = rec.cand.proxy
       /\ e.targets = BeforeTargets \cup done

ApplyInv ==
  /\ rec.before # None => entry # None
  /\ mem.err = "none" =>
       /\ mem.failed = {}
       /\ pc = "entry" => Ready(entry, rec.targets \ mem.todo)
       /\ pc \in Swapping \cup {"prepared"} => Ready(entry, (rec.targets \ mem.todo) \cup {Cur})
       /\ pc = "pending" => Ready(entry, rec.targets)
       /\ pc \in Loop => /\ entry # None /\ entry.phase = "prepared"
                         /\ entry.pending = rec.cand.proxy /\ entry.targets = rec.targets
                         /\ entry.ptargets = mem.todo
       /\ pc = "applied" => Clean(entry, rec.cand)

ReleaseInv ==
  /\ pc = "release" => entry = rec.before
  /\ pc \in Swapping \cup {"restore"} => entry.phase = "restoring"
  /\ pc = "applied" /\ mem.err = "none" => entry = None

\* What a compensation has announced.
Announced ==
  IF rec.before = None THEN entry # None /\ entry.phase = "restoring"
  ELSE /\ entry # None /\ entry.phase = "prepared" /\ entry.managed = rec.before.managed
       /\ entry.pending = rec.before.managed /\ entry.targets = rec.targets

UndoInv ==
  /\ pc \in Swapping \cup {"undoing", "restart", "wait", "commit", "absent"} => Announced
  /\ pc \in {"restart", "wait", "commit", "absent"} /\ rec.before # None =>
       entry.ptargets = mem.todo
  /\ pc = "final" /\ rec.before # None =>
       /\ entry # None /\ entry.phase = "active" /\ entry.managed = rec.before.managed
       /\ entry.targets = rec.targets
  /\ pc = "undone" /\ mem.err = "none" => entry = rec.before

JournalInv ==
  /\ RecordInv
  /\ rec = None => Clean(entry, store)
  /\ rec # None /\ entry # None => /\ BeforeTargets \subseteq entry.targets
                                   /\ entry.targets \subseteq rec.targets
  /\ pc \in {"validate", "baseline"} => entry = rec.before
  /\ mem.mode = "apply" => ApplyInv
  /\ mem.mode = "release" => ReleaseInv
  /\ mem.mode = "undo" => UndoInv

\* The user's latest version, and what the user has chosen.
Latest(f) == /\ f # None /\ f.edit = user.edit
             /\ user.touched = "own" => f.proxy = Own \/ (entry # None /\ entry.orig = Own)

There == IF file # None THEN file ELSE claim

EditInv ==
  /\ user.touched # "gone" => Latest(There)
  /\ pc \in Swapping => /\ mem.goal.edit = mem.raw.edit
                        /\ mem.raw.proxy = Own => mem.goal.proxy = Own \/ entry.orig = Own
  /\ pc = "retire" /\ user.touched # "gone" => file # None
  /\ pc = "drop" => entry.orig # Own
  /\ pc \in {"baseline", "release"} /\ mem.mode = "release" =>
       (entry # None /\ user.touched # "gone" =>
          file # None /\ file.proxy \in {entry.managed, Own})

\* The value a setting has in the file, and the one an entry says is there.
Value(s) == IF s.on THEN s.proxy ELSE user.orig
Says == IF entry.phase = "active" THEN entry.managed ELSE entry.pending

\* A gateway that runs, has no restart before it, runs its channel with the
\* value, and will do so when it restarts it.
Serves(t, v) == gw[t].unit /\ gw[t].up /\ ~gw[t].job =>
                  gw[t].chan = v /\ gw[t].applied.proxy = v

ServedInv ==
  entry # None /\ entry.phase # "restoring" => \A t \in entry.targets \ entry.ptargets :
    ~Leaving(t) => There.proxy = Says /\ Serves(t, Says)

\* The file, the entry and the gateways.
QuietState ==
  /\ There # None
  /\ rec = None => There.proxy = Value(store)
  /\ rec # None => /\ rec.value = Value(store)
                   /\ rec.before # None => rec.before.orig = user.orig
  /\ entry # None => entry.orig = user.orig
  /\ mem.mode = "apply" /\ entry = None => There.proxy = user.orig
  /\ ServedInv

\* What the process has seen to, at its place.
QuietPlace ==
  /\ rec = None \/ (mem.mode # None /\ mem.err = "none" /\ pc \notin {"publish", "undo"}) =>
       file # None
  /\ pc \in Swapping => /\ entry.phase = "restoring" \/ entry.ptargets = entry.targets
                        /\ mem.goal.proxy = IF mem.mode = "apply" THEN rec.cand.proxy
                                            ELSE IF mem.mode = "release" THEN user.orig
                                            ELSE rec.value
  /\ pc \in {"confirm", "wait", "commit"} => Serves(Cur, There.proxy)
  /\ pc = "drop" => There.proxy = entry.orig
  /\ mem.mode = "release" /\ pc \in Loop \cup {"forget"} => entry # None
  /\ pc = "applied" /\ mem.mode = "release" /\ mem.err = "none" => There.proxy = user.orig
  /\ pc = "undone" /\ mem.err = "none" => There.proxy = rec.value

QuietInv == user.touched = "no" => QuietState /\ QuietPlace

IInv == TypeInv /\ JournalInv /\ EditInv /\ QuietInv

-----------------------------------------------------------------------------
(* The loops over gateways.                                                *)

Below == {ss \in Nat \X Nat : ss[1] < ss[2]}

\* The order of the naturals as the library's theorem wants it.
LEMMA BelowIsWellFounded == IsWellFoundedOn(Below, Nat)
<1>1. Below = OpToRel(<, Nat)
  BY DEF Below, OpToRel
<1> QED BY <1>1, NatLessThanWellFounded, Zenon

\* A loop that has not ended has a next gateway.
LEMMA NextGatewayExists ==
  ASSUME NEW S \in SUBSET Targets, S # {}
  PROVE  Min(S) \in S
<1>1. S \in SUBSET Nat
  BY OpenClawAssumption DEF Targets
<1>2. PICK x \in S : \A y \in S : ~(<<y, x>> \in Below)
  BY <1>1, BelowIsWellFounded, WFMin, Zenon
<1>3. \A a, b \in Nat : a < b => <<a, b>> \in Below
  BY DEF Below
<1>4. \A y \in S : y \in Nat /\ x \in Nat /\ ~(y < x)
  BY <1>1, <1>2, <1>3
<1> QED BY <1>4 DEF Min

\* At a place of a loop the current gateway is one that is still to do.
Looping == pc \in AtTarget \/ (pc \in Swapping /\ mem.mode = "apply")

\* It is a target of the record.
LEMMA CurIsTarget ==
  ASSUME TypeInv, Looping
  PROVE  Cur \in mem.todo /\ Cur \in Targets /\ mem.todo \in SUBSET Targets /\ Cur \in rec.targets
<1>1. mem.todo \in SUBSET Targets /\ mem.todo # {} /\ mem.todo \subseteq rec.targets
  BY DEF TypeInv, PlaceInv, Memory, Looping
<1>2. Min(mem.todo) \in mem.todo
  BY <1>1, NextGatewayExists
<1> QED BY <1>1, <1>2 DEF Cur

-----------------------------------------------------------------------------
(* Types                                                                   *)

\* An entry that is active or restoring has nothing pending, a prepared one has.
Sound(e) ==
  /\ e \in Entries \cup {None}
  /\ e # None => /\ e.targets # {} /\ e.ptargets \subseteq e.targets
                 /\ e.phase = "prepared" <=> e.pending # None
                 /\ e.phase = "prepared" <=> e.ptargets # {}

\* The types of the single variables.
LEMMA TypesOfState ==
  ASSUME DataInv
  PROVE  /\ Sound(entry) /\ store \in Settings /\ rec \in Records \cup {None}
         /\ file \in Files \cup {None} /\ claim \in Files \cup {None}
BY DEF DataInv, TypeOK, Sound

\* A step of the process leaves user and gateways alone, except for a restart.
Spends == Free \/ \E what \in {"commands", "kills", "faults"} : Spend(what)

\* The bounds stay natural numbers.
LEMMA SpendsTypes ==
  ASSUME DataInv, Spends
  PROVE  left' \in [{"commands", "kills", "faults", "edits"} -> Nat] /\ left'["edits"] = left["edits"]
BY DEF DataInv, Spends, Spend, Free

\* A step of the process keeps the types of what it leaves alone.
LEMMA ProcessData ==
  ASSUME DataInv, Spends, UNCHANGED <<gw, user>>, Sound(entry'), store' \in Settings,
         rec' \in Records \cup {None}, file' \in Files \cup {None}, claim' \in Files \cup {None}
  PROVE  DataInv'
<1>1. TypeOK'
  BY DEF DataInv, TypeOK, Sound
<1>2. /\ left' \in [{"commands", "kills", "faults", "edits"} -> Nat]
      /\ user' \in Users /\ user'.edit + left'["edits"] <= MaxEdits
  BY SpendsTypes DEF DataInv
<1> QED BY <1>1, <1>2 DEF DataInv

\* Most steps change the entry at most.
LEMMA EntryData ==
  ASSUME DataInv, Spends, UNCHANGED <<store, rec, files, gw, user>>, Sound(entry')
  PROVE  DataInv'
BY ProcessData, TypesOfState DEF files

\* Some change nothing but the place.
LEMMA SameData ==
  ASSUME DataInv, Spends, UNCHANGED <<durable, files, gw, user>>
  PROVE  DataInv'
BY EntryData, TypesOfState DEF durable

\* Some change the file and the claim.
LEMMA FilesData ==
  ASSUME DataInv, Spends, UNCHANGED <<durable, gw, user>>,
         file' \in Files \cup {None}, claim' \in Files \cup {None}
  PROVE  DataInv'
BY ProcessData, TypesOfState DEF durable

-----------------------------------------------------------------------------
(* Where a step leads.                                                     *)

Working == pc \notin {"idle", "validate", "failed"}

\* A process that works has a record and a mode.
LEMMA WorkingFacts ==
  ASSUME TypeInv, Working
  PROVE  /\ mem \in Memory /\ rec # None /\ rec \in Records
         /\ mem.mode \in {"apply", "release", "undo"} /\ mem.mode # None
         /\ mem.mode = "apply" => rec.cand.on /\ rec.cand.proxy \in Proxies
         /\ mem.mode = "release" => ~rec.cand.on
BY SentinelAssumption DEF Working, TypeInv, PlaceInv, DataInv, TypeOK, Memory, Settings, Records

\* A joined error is an error.
LEMMA WorseType ==
  ASSUME NEW e \in {"failed", "unsettled"}
  PROVE  Worse(e) \in {"failed", "unsettled"} /\ Worse(e) # "none" /\ Worse(e) \in Errors
BY DEF Worse, Errors

\* The place after an exchange that failed.
LEMMA SwapFailedPlace ==
  ASSUME TypeInv, Working, mem.mode = "apply" => Looping, SwapFailed, rec' = rec
  PROVE  PlaceInv'
<1>1. CASE mem.mode = "apply"
  <2>1. Cur \in mem.todo /\ Cur \in Targets /\ mem.todo \in SUBSET Targets /\ mem.todo \subseteq rec.targets
    BY <1>1, CurIsTarget DEF TypeInv, PlaceInv, Looping
  <2>2. /\ mem' \in Memory /\ mem'.mode = mem.mode /\ mem'.todo = mem.todo \ {Cur}
        /\ pc' = IF mem.todo \ {Cur} = {} THEN "pending" ELSE "entry"
    <3> DEFINE rest == mem.todo \ {Cur}
               fs   == mem.failed \cup {Cur}
               w    == Worse("failed")
    <3>1. /\ pc' = IF rest = {} THEN "pending" ELSE "entry"
          /\ mem' = [mem EXCEPT !.todo = rest, !.failed = fs, !.err = w, !.raw = None, !.goal = None]
      BY <1>1 DEF SwapFailed
    <3>2. rest \in SUBSET Targets /\ fs \in SUBSET Targets /\ w \in Errors
      BY <2>1, WorkingFacts, WorseType DEF Memory
    <3> HIDE DEF rest, fs, w
    <3>3. mem' \in Memory /\ mem'.mode = mem.mode /\ mem'.todo = rest
      BY <3>1, <3>2, WorkingFacts DEF Memory
    <3> QED BY <3>1, <3>3 DEF rest
  <2> QED BY <1>1, <2>1, <2>2, WorkingFacts DEF PlaceInv, PCs, AtTarget, Loop, Swapping
<1>2. CASE mem.mode = "release"
  <2>1. mem' \in Memory /\ mem'.mode = mem.mode /\ pc' = "applied"
    BY <1>2, WorkingFacts, WorseType DEF SwapFailed, Memory, Errors
  <2> QED BY <1>2, <2>1, WorkingFacts DEF PlaceInv, PCs, AtTarget, Loop, Swapping
<1>3. CASE mem.mode = "undo"
  <2>1. mem' \in Memory /\ mem'.mode = mem.mode /\ pc' = "undone"
    BY <1>3, WorkingFacts, WorseType DEF SwapFailed, Memory, Errors
  <2> QED BY <1>3, <2>1, WorkingFacts DEF PlaceInv, PCs, AtTarget, Loop, Swapping
<1> QED BY <1>1, <1>2, <1>3, WorkingFacts

\* The place after a target that failed.
LEMMA FailPlace ==
  ASSUME TypeInv, Working, mem.mode # "undo" => pc \in Loop, NEW e \in {"failed", "unsettled"},
         Fail(e), rec' = rec
  PROVE  PlaceInv'
<1>1. CASE mem.mode = "undo"
  BY <1>1, WorkingFacts, SentinelAssumption
  DEF Fail, Exit, Fresh, PlaceInv, PCs, Memory, AtTarget, Loop, Swapping, Errors, Plans
<1>2. CASE mem.mode # "undo"
  <2>1. Cur \in mem.todo /\ Cur \in Targets /\ mem.todo \in SUBSET Targets /\ mem.todo \subseteq rec.targets
    BY <1>2, CurIsTarget DEF TypeInv, PlaceInv, Looping, AtTarget
  <2>2. /\ mem' \in Memory /\ mem'.mode = mem.mode /\ mem'.todo = mem.todo \ {Cur}
        /\ pc' = IF mem.todo \ {Cur} # {} THEN "expect" ELSE "applied"
    <3> DEFINE rest == mem.todo \ {Cur}
               w    == Worse(e)
    <3>1. /\ pc' = IF rest # {} THEN "expect" ELSE "applied"
          /\ mem' = [mem EXCEPT !.todo = rest, !.err = w, !.raw = None]
      BY <1>2 DEF Fail
    <3>2. rest \in SUBSET Targets /\ w \in Errors
      BY <2>1, WorseType
    <3> HIDE DEF rest, w
    <3>3. mem' \in Memory /\ mem'.mode = mem.mode /\ mem'.todo = rest
      BY <3>1, <3>2, WorkingFacts DEF Memory
    <3> QED BY <3>1, <3>3 DEF rest
  <2> QED BY <1>2, <2>1, <2>2, WorkingFacts DEF PlaceInv, PCs, AtTarget, Loop, Swapping
<1> QED BY <1>1, <1>2

\* The place after a target that is reconciled.
LEMMA ReconciledPlace ==
  ASSUME TypeInv, pc \in Loop, Reconciled, rec' = rec
  PROVE  PlaceInv'
<1>1. /\ Cur \in mem.todo /\ Cur \in Targets /\ mem.todo \in SUBSET Targets
      /\ mem.todo \subseteq rec.targets /\ mem.todo # {}
  BY CurIsTarget DEF TypeInv, PlaceInv, Looping, AtTarget
<1>2. Working
  BY DEF Working, Loop
<1>3. CASE mem.mode = "apply" \/ (mem.mode = "undo" /\ rec.before # None)
  <2>1. mem' \in Memory /\ mem'.mode = mem.mode /\ mem'.todo = mem.todo /\ pc' = "commit"
    BY <1>1, <1>2, <1>3, WorkingFacts DEF Reconciled, Memory
  <2> QED BY <1>1, <1>2, <1>3, <2>1, WorkingFacts DEF PlaceInv, PCs, AtTarget, Loop, Swapping
<1>4. CASE ~(mem.mode = "apply" \/ (mem.mode = "undo" /\ rec.before # None))
  <2>1. /\ mem' \in Memory /\ mem'.mode = mem.mode /\ mem'.todo = mem.todo \ {Cur}
        /\ pc' = IF mem.todo \ {Cur} # {} THEN (IF mem.mode = "undo" THEN "restart" ELSE "expect")
                 ELSE IF mem.mode = "undo" THEN "final"
                 ELSE IF mem.err = "none" THEN "forget" ELSE "applied"
    <3> DEFINE rest == mem.todo \ {Cur}
    <3>1. /\ mem' = [mem EXCEPT !.todo = rest, !.raw = None]
          /\ pc' = IF rest # {} THEN (IF mem.mode = "undo" THEN "restart" ELSE "expect")
                   ELSE IF mem.mode = "undo" THEN "final"
                   ELSE IF mem.err = "none" THEN "forget" ELSE "applied"
      BY <1>4 DEF Reconciled
    <3>2. rest \in SUBSET Targets
      BY <1>1
    <3> HIDE DEF rest
    <3>3. mem' \in Memory /\ mem'.mode = mem.mode /\ mem'.todo = rest
      BY <1>2, <3>1, <3>2, WorkingFacts DEF Memory
    <3> QED BY <3>1, <3>3 DEF rest
  <2>2. mem.mode = "undo" \/ mem.mode = "release"
    BY <1>2, <1>4, WorkingFacts
  <2> QED BY <1>1, <1>2, <2>1, <2>2, WorkingFacts DEF PlaceInv, PCs, AtTarget, Loop, Swapping
<1> QED BY <1>3, <1>4

\* The place after a target that is committed.
LEMMA AdvancePlace ==
  ASSUME TypeInv, pc \in {"commit", "absent"}, Advance, rec' = rec
  PROVE  PlaceInv'
<1>1. /\ Cur \in mem.todo /\ Cur \in Targets /\ mem.todo \in SUBSET Targets
      /\ mem.todo \subseteq rec.targets
  BY CurIsTarget DEF TypeInv, PlaceInv, Looping, AtTarget, Loop
<1>2. Working /\ mem.mode \in {"apply", "undo"}
  BY DEF Working, TypeInv, PlaceInv
<1>3. /\ mem' \in Memory /\ mem'.mode = mem.mode /\ mem'.todo = mem.todo \ {Cur}
      /\ pc' = IF mem.mode = "undo" THEN (IF mem.todo \ {Cur} = {} THEN "final" ELSE "restart")
               ELSE IF mem.todo \ {Cur} = {} THEN "applied" ELSE "expect"
  BY <1>1, <1>2, WorkingFacts DEF Advance, Memory
<1> QED BY <1>1, <1>2, <1>3, WorkingFacts DEF PlaceInv, PCs, AtTarget, Loop, Swapping

\* The place after a target that is prepared.
LEMMA NextTargetPlace ==
  ASSUME TypeInv, pc \in {"entry", "prepared"}, NextTarget, rec' = rec
  PROVE  PlaceInv'
<1>1. /\ Cur \in mem.todo /\ Cur \in Targets /\ mem.todo \in SUBSET Targets
      /\ mem.todo \subseteq rec.targets
  BY CurIsTarget DEF TypeInv, PlaceInv, Looping, AtTarget, Loop
<1>2. Working /\ mem.mode = "apply"
  BY DEF Working, TypeInv, PlaceInv
<1>3. /\ mem' \in Memory /\ mem'.mode = mem.mode /\ mem'.todo = mem.todo \ {Cur}
      /\ pc' = IF mem.todo = {Cur} THEN "pending" ELSE "entry"
  BY <1>1, <1>2, WorkingFacts DEF NextTarget, Memory
<1> QED BY <1>1, <1>2, <1>3, WorkingFacts DEF PlaceInv, PCs, AtTarget, Loop, Swapping

\* The place after the file is read.
LEMMA SetProxyPlace ==
  ASSUME TypeInv, Working, NEW v \in Values, NEW p \in {"prepared", "restore", "undoing"},
         SetProxy(v, p), rec' = rec, file \in Files, entry' # None,
         \/ p = "prepared" /\ mem.mode = "apply" /\ pc = "entry"
         \/ p = "restore" /\ mem.mode = "release"
         \/ p = "undoing" /\ mem.mode = "undo"
  PROVE  PlaceInv'
<1>1. mem.mode = "apply" => mem.todo # {} /\ mem.todo \subseteq rec.targets
  BY DEF TypeInv, PlaceInv, AtTarget
<1>2. [file EXCEPT !.proxy = v] \in Files
  BY DEF Files
<1>3. CASE file.proxy = v
  <2>1. pc' = p /\ mem' = mem
    BY <1>3 DEF SetProxy
  <2> QED BY <1>1, <2>1, WorkingFacts, SentinelAssumption DEF PlaceInv, PCs, AtTarget, Loop, Swapping
<1>4. CASE file.proxy # v
  <2> DEFINE g == [file EXCEPT !.proxy = v]
  <2>1. pc' = "take" /\ mem' = [mem EXCEPT !.raw = file, !.goal = g, !.then = p]
    BY <1>4 DEF SetProxy
  <2>2. g \in Files
    BY <1>2
  <2> HIDE DEF g
  <2>3. mem' \in Memory /\ mem'.raw = file /\ mem'.goal = g /\ mem'.then = p /\ mem'.mode = mem.mode
        /\ mem'.todo = mem.todo
    BY <2>1, <2>2, WorkingFacts DEF Memory
  <2>4. Exchange'
    BY <2>1, <2>2, <2>3, SentinelAssumption DEF Exchange
  <2> QED BY <1>1, <2>1, <2>3, <2>4, WorkingFacts, SentinelAssumption
          DEF PlaceInv, PCs, AtTarget, Loop, Swapping
<1> QED BY <1>3, <1>4

\* The place after a step that leaves the memory alone.
LEMMA GotoPlace ==
  ASSUME TypeInv, Working, mem' = mem, rec' = rec, pc' \in PCs \ AtTarget,
         \/ pc' = "pending" /\ mem.mode = "apply"
         \/ pc' \in {"release", "forget"} /\ mem.mode = "release"
         \/ pc' \in {"drop", "restore"} /\ mem.mode = "release" /\ entry' # None
         \/ pc' \in {"undo", "undoing", "final", "undone"} /\ mem.mode = "undo"
         \/ pc' = "applied" /\ mem.mode \in {"apply", "release"}
         \/ pc \in Swapping /\ pc' \in Swapping /\ entry' = entry
  PROVE  PlaceInv'
BY WorkingFacts, SentinelAssumption DEF TypeInv, PlaceInv, PCs, AtTarget, Loop, Swapping, Exchange, Working

\* A process that ends holds nothing.
LEMMA ExitPlace == ASSUME Exit PROVE PlaceInv'
BY SentinelAssumption DEF Exit, Fresh, PlaceInv, PCs, Memory, AtTarget, Loop, Swapping, Errors, Plans

\* A compensation starts afresh, or does not.
LEMMA CompensatePlace ==
  ASSUME rec # None, rec' = rec, Compensate
  PROVE  PlaceInv'
<1>1. CASE Exit
  BY <1>1, ExitPlace
<1>2. CASE pc' = "undo" /\ mem' = [Fresh EXCEPT !.mode = "undo"]
  <2>1. /\ mem' \in Memory /\ mem'.mode = "undo"
    BY <1>2 DEF Fresh, Memory, Plans, Errors
  <2> QED BY <1>2, <2>1, SentinelAssumption DEF PlaceInv, PCs, AtTarget, Loop, Swapping
<1> QED BY <1>1, <1>2 DEF Compensate

-----------------------------------------------------------------------------
(* Each step keeps the types.                                              *)

Outside == /\ left \in [{"commands", "kills", "faults", "edits"} -> Nat]
           /\ user \in Users /\ user.edit + left["edits"] <= MaxEdits
           /\ \A t \in Targets : gw[t].up =>
                gw[t].applied \in Files /\ (gw[t].pend \/ gw[t].chan = gw[t].applied.proxy)

\* Types over the initial states.
LEMMA InitTypes == Init => TypeInv
<1> SUFFICES ASSUME Init PROVE TypeInv
  OBVIOUS
<1>1. file \in Files /\ file.proxy \in Values
  BY OpenClawAssumption DEF Init, Files, Values
<1>2. Off \in Settings
  BY DEF Off, Settings
<1>3. mem \in Memory
  BY DEF Init, Fresh, Memory, Plans, Errors
<1>4. PlaceInv
  BY <1>3 DEF Init, PlaceInv, PCs, AtTarget, Loop, Swapping
<1>5. TypeOK
  <2>1. gw \in [Targets -> [unit : BOOLEAN, up : BOOLEAN, job : BOOLEAN, pend : BOOLEAN,
                            applied : Files \cup {None}, chan : Values \cup {None}]]
    <3> DEFINE R == [unit : BOOLEAN, up : BOOLEAN, job : BOOLEAN, pend : BOOLEAN,
                     applied : Files \cup {None}, chan : Values \cup {None}]
               a == [unit |-> TRUE, up |-> TRUE, job |-> FALSE, applied |-> file,
                     chan |-> file.proxy, pend |-> FALSE]
               b == [unit |-> TRUE, up |-> FALSE, job |-> FALSE, applied |-> None,
                     chan |-> None, pend |-> FALSE]
    <3>1. a \in R /\ b \in R
      BY <1>1
    <3>2. gw \in [Targets -> {a, b}]
      BY DEF Init
    <3> HIDE DEF a, b, R
    <3>3. gw \in [Targets -> R]
      BY <3>1, <3>2
    <3> QED BY <3>3 DEF R
  <2> QED BY <1>1, <1>2, <2>1 DEF Init, TypeOK
<1>6. Outside
  <2>1. /\ left \in [{"commands", "kills", "faults", "edits"} -> Nat]
        /\ user \in Users /\ user.edit + left["edits"] <= MaxEdits
    BY <1>1, OpenClawAssumption DEF Init, Users
  <2>2. \A t \in Targets : gw[t].up =>
          gw[t].applied \in Files /\ (gw[t].pend \/ gw[t].chan = gw[t].applied.proxy)
    BY <1>1 DEF Init
  <2> QED BY <2>1, <2>2 DEF Outside
<1> QED BY <1>4, <1>5, <1>6 DEF TypeInv, DataInv, Outside

\* Types over the plan.
LEMMA PlanTypes ==
  ASSUME TypeInv, JournalInv, NEW cand \in Settings, Plan(cand)
  PROVE  TypeInv'
<1>1. /\ pc = "idle" /\ rec = None /\ cand # store /\ Plannable(cand) /\ Spend("commands")
      /\ rec' = [cand |-> cand, seen |-> file, before |-> entry, targets |-> Involved(cand),
                 value |-> file.proxy, allowed |-> cand.proxy,
                 skip |-> {t \in Involved(cand) : ~Valid(t)}]
      /\ pc' = "validate" /\ mem' = [Fresh EXCEPT !.mode = "apply"]
      /\ UNCHANGED <<store, entry, files, gw, user>>
  BY DEF Plan
<1>2. DataInv
  BY DEF TypeInv
<1>3. Sound(entry) /\ store \in Settings /\ file \in Files \cup {None} /\ claim \in Files \cup {None}
  BY <1>2, TypesOfState
<1>4. Involved(cand) # {} /\ Involved(cand) \in SUBSET Targets
  <2>1. Clean(entry, store)
    BY <1>1 DEF JournalInv
  <2>2. cand.sel = {} => cand = Off
    BY DEF Settings, Off
  <2>3. entry = None => store = Off
    BY <1>3, <2>1 DEF Clean, Settings, Off
  <2>4. entry # None => entry.targets # {} /\ entry.targets \in SUBSET Targets
    BY <1>3 DEF Sound, Entries
  <2>5. cand.sel \in SUBSET Targets
    BY DEF Settings
  <2> QED BY <1>1, <2>2, <2>3, <2>4, <2>5 DEF Involved
<1>5. file \in Files /\ file.proxy \in Values
  BY <1>1, <1>3, <1>4 DEF Plannable, Files
<1>6. cand.proxy \in Proxies \cup {None}
  BY DEF Settings
<1>7. {t \in Involved(cand) : ~Valid(t)} \in SUBSET Targets
  BY <1>4
<1>8. rec' \in Records
  <2> DEFINE s == {t \in Involved(cand) : ~Valid(t)}
             ts == Involved(cand)
  <2>1. rec' = [cand |-> cand, seen |-> file, before |-> entry, targets |-> ts,
                value |-> file.proxy, allowed |-> cand.proxy, skip |-> s]
    BY <1>1
  <2>2. s \in SUBSET Targets /\ ts \in SUBSET Targets
    BY <1>4, <1>7
  <2> HIDE DEF s, ts
  <2>3. entry \in Entries \cup {None}
    BY <1>3 DEF Sound
  <2> QED BY <2>1, <2>2, <2>3, <1>5, <1>6 DEF Records
<1>9. DataInv'
  <2>1. Spends
    BY <1>1 DEF Spends
  <2> QED BY <1>1, <1>2, <1>3, <1>8, <2>1, ProcessData DEF files
<1>10. rec' # None
  BY <1>8, SentinelAssumption
<1>11. PlaceInv'
  <2>1. mem' \in Memory /\ mem'.mode = "apply" /\ mem'.err = "none"
    BY <1>1 DEF Fresh, Memory, Plans, Errors
  <2> QED BY <1>1, <1>10, <2>1, SentinelAssumption DEF PlaceInv, PCs, AtTarget, Loop, Swapping
<1> QED BY <1>9, <1>11 DEF TypeInv

\* Types over the second validation.
LEMMA ValidateTypes == ASSUME TypeInv, JournalInv, Validate PROVE TypeInv'
<1>1. DataInv'
  BY SameData DEF Validate, TypeInv, Spends, Free
<1>2. rec # None /\ rec' = rec /\ mem \in Memory /\ mem.mode = "apply" /\ mem.err = "none"
      /\ rec.cand \in Settings
  BY SentinelAssumption DEF Validate, TypeInv, PlaceInv, DataInv, TypeOK, Records, durable
<1>3. CASE pc' = "baseline" /\ mem' = [mem EXCEPT !.mode = IF rec.cand.on THEN "apply" ELSE "release"]
  <2>1. mem' \in Memory /\ mem'.mode = (IF rec.cand.on THEN "apply" ELSE "release") /\ mem'.err = "none"
    BY <1>2, <1>3 DEF Memory
  <2> QED BY <1>1, <1>2, <1>3, <2>1, SentinelAssumption
          DEF TypeInv, PlaceInv, PCs, AtTarget, Loop, Swapping
<1>4. CASE pc' = "failed" /\ mem' = [mem EXCEPT !.err = "failed"]
  <2>1. mem' \in Memory /\ mem'.mode = "apply"
    BY <1>2, <1>4 DEF Memory, Errors
  <2> QED BY <1>1, <1>2, <1>4, <2>1, SentinelAssumption
          DEF TypeInv, PlaceInv, PCs, AtTarget, Loop, Swapping
<1> QED BY <1>3, <1>4 DEF Validate

\* Types over the look at the gateways.
LEMMA BaselineTypes == ASSUME TypeInv, JournalInv, Baseline PROVE TypeInv'
<1>1. DataInv'
  BY SameData DEF Baseline, TypeInv, Spends, Free
<1>2. pc = "baseline" /\ Working /\ rec' = rec
  BY DEF Baseline, Working, durable
<1>3. rec.targets # {} /\ rec.targets \in SUBSET Targets /\ mem.mode \in {"apply", "release"}
  BY <1>2, WorkingFacts DEF JournalInv, RecordInv, Records, TypeInv, PlaceInv
<1>4. PICK p \in [Targets -> (UNION {Look(t) : t \in Targets}) \cup {None}] :
        mem' = [mem EXCEPT !.plan = p, !.todo = rec.targets]
  BY DEF Baseline
<1>5. p \in [Targets -> Plans]
  <2>1. \A t \in Targets : Look(t) \subseteq Plans
    BY DEF Look, Plans, TypeInv, DataInv
  <2> DEFINE U == UNION {Look(t) : t \in Targets}
  <2>2. \A x \in U : x \in Plans
    <3> SUFFICES ASSUME NEW x \in U PROVE x \in Plans
      OBVIOUS
    <3>1. PICK t \in Targets : x \in Look(t)
      OBVIOUS
    <3> QED BY <2>1, <3>1
  <2>3. None \in Plans
    BY DEF Plans
  <2>4. p \in [Targets -> U \cup {None}]
    BY <1>4
  <2> HIDE DEF U
  <2> QED BY <2>2, <2>3, <2>4
<1>6. mem' \in Memory /\ mem'.mode = mem.mode /\ mem'.todo = rec.targets
  BY <1>2, <1>3, <1>4, <1>5, WorkingFacts DEF Memory
<1>7. pc' = IF mem.mode = "release" THEN "release" ELSE "entry"
  BY DEF Baseline
<1> QED BY <1>1, <1>2, <1>3, <1>6, <1>7, WorkingFacts
        DEF TypeInv, PlaceInv, PCs, AtTarget, Loop, Swapping

\* The memory of an exchange.
LEMMA SwapFacts ==
  ASSUME TypeInv, pc \in Swapping
  PROVE  /\ Working /\ (mem.mode = "apply" => Looping) /\ DataInv /\ Exchange
         /\ mem.raw \in Files /\ mem.goal \in Files /\ entry # None
BY DEF TypeInv, PlaceInv, Working, Looping, Swapping, Exchange

\* The place after an exchange.
LEMMA SwappedPlace ==
  ASSUME TypeInv, pc \in Swapping, Swapped, UNCHANGED durable
  PROVE  PlaceInv'
<1>1. mem \in Memory /\ Working /\ Exchange /\ rec' = rec /\ entry' = entry
  BY SwapFacts, WorkingFacts DEF durable
<1>2. mem' \in Memory /\ mem'.mode = mem.mode /\ mem'.todo = mem.todo /\ pc' = mem.then
  BY <1>1 DEF Swapped, Memory
<1>3. mem.mode = "apply" => mem.todo # {} /\ mem.todo \subseteq rec.targets
  BY DEF TypeInv, PlaceInv
<1> QED BY <1>1, <1>2, <1>3, WorkingFacts
        DEF PlaceInv, PCs, AtTarget, Loop, Swapping, Exchange

\* The bounds that a process spends.
LEMMA FreeSpends == /\ Free => Spends
                    /\ Spend("faults") => Spends
BY DEF Spends

\* Types over the claim of the file.
LEMMA TakeTypes == ASSUME TypeInv, Take PROVE TypeInv'
<1>1. pc \in Swapping /\ pc = "take" /\ rec' = rec /\ entry' = entry /\ UNCHANGED durable
      /\ UNCHANGED gw /\ UNCHANGED user
  BY DEF Take, Swapping, durable
<1>2. DataInv /\ file \in Files \cup {None} /\ claim \in Files \cup {None}
  BY <1>1, SwapFacts, TypesOfState
<1>3. DataInv'
  <2>1. /\ Spends /\ file' \in Files \cup {None} /\ claim' \in Files \cup {None}
    BY <1>2, FreeSpends DEF Take, files
  <2> QED BY <1>1, <1>2, <2>1, FilesData
<1>4. PlaceInv'
  <2>1. SwapFailed \/ Swapped \/ Goto("publish")
    BY DEF Take
  <2>2. Goto("publish") => PlaceInv'
    BY <1>1, SwapFacts, GotoPlace DEF Goto, Swapping, PCs, AtTarget, Loop
  <2> QED BY <1>1, <2>1, <2>2, SwapFacts, SwapFailedPlace, SwappedPlace
<1> QED BY <1>3, <1>4 DEF TypeInv

\* Types over the publication.
LEMMA PublishTypes == ASSUME TypeInv, Publish PROVE TypeInv'
<1>1. pc \in Swapping /\ pc = "publish" /\ rec' = rec /\ entry' = entry /\ UNCHANGED durable
      /\ UNCHANGED gw /\ UNCHANGED user
  BY DEF Publish, Swapping, durable
<1>2. DataInv /\ file \in Files \cup {None} /\ claim \in Files \cup {None} /\ mem.goal \in Files
  BY <1>1, SwapFacts, TypesOfState
<1>3. DataInv'
  <2>1. /\ Spends /\ file' \in Files \cup {None} /\ claim' \in Files \cup {None}
    BY <1>2, FreeSpends DEF Publish, files
  <2> QED BY <1>1, <1>2, <2>1, FilesData
<1>4. PlaceInv'
  <2>1. SwapFailed \/ Goto("retire")
    BY DEF Publish
  <2>2. Goto("retire") => PlaceInv'
    BY <1>1, SwapFacts, GotoPlace DEF Goto, Swapping, PCs, AtTarget, Loop
  <2> QED BY <1>1, <2>1, <2>2, SwapFacts, SwapFailedPlace
<1> QED BY <1>3, <1>4 DEF TypeInv

\* Types over the end of the claim.
LEMMA RetireTypes == ASSUME TypeInv, Retire PROVE TypeInv'
<1>1. pc \in Swapping /\ pc = "retire" /\ rec' = rec /\ entry' = entry /\ UNCHANGED durable
      /\ UNCHANGED gw /\ UNCHANGED user
  BY DEF Retire, Swapping, durable
<1>2. DataInv /\ file \in Files \cup {None} /\ claim \in Files \cup {None}
  BY <1>1, SwapFacts, TypesOfState
<1>3. DataInv'
  <2>1. /\ Spends /\ file' \in Files \cup {None} /\ claim' \in Files \cup {None}
    BY <1>2, FreeSpends DEF Retire, files
  <2> QED BY <1>1, <1>2, <2>1, FilesData
<1>4. PlaceInv'
  <2>1. SwapFailed \/ Swapped
    BY DEF Retire
  <2> QED BY <1>1, <2>1, SwapFacts, SwapFailedPlace, SwappedPlace
<1> QED BY <1>3, <1>4 DEF TypeInv

\* The place within the loop.
LEMMA StaysPlace ==
  ASSUME TypeInv, Working, mem' = mem, rec' = rec, pc' \in PCs \ {"idle"},
         pc \in Loop, mem.mode \in {"apply", "release"},
         pc' \in {"observe", "confirm", "fallback", "restart"}
  PROVE  PlaceInv'
<1>1. mem.todo # {} /\ mem.todo \subseteq rec.targets
  BY DEF TypeInv, PlaceInv, AtTarget
<1> QED BY <1>1, WorkingFacts DEF PlaceInv, PCs, AtTarget, Loop, Swapping

\* Types over a gateway that is prepared.
LEMMA PreparedTypes == ASSUME TypeInv, Prepared PROVE TypeInv'
<1>1. DataInv'
  BY SameData, FreeSpends DEF Prepared, TypeInv, Free
<1>2. PlaceInv'
  BY NextTargetPlace DEF Prepared, durable
<1> QED BY <1>1, <1>2 DEF TypeInv

\* The entries the process writes are sound.
LEMMA NewEntry ==
  ASSUME NEW o \in Values, NEW c \in Proxies, NEW t \in Targets
  PROVE  Sound(Entry(o, c, c, {t}, {t}, "prepared"))
BY OpenClawAssumption DEF Sound, Entry, Entries

\* So is one with more targets.
LEMMA MoreEntry ==
  ASSUME Sound(entry), entry # None, NEW c \in Proxies, NEW ts \in SUBSET Targets, NEW ps \in SUBSET ts,
         ps # {}
  PROVE  LET e == [entry EXCEPT !.targets = ts, !.ptargets = ps, !.pending = c, !.phase = "prepared"]
         IN  Sound(e) /\ e # None /\ e \in Entries
<1> DEFINE e == [entry EXCEPT !.targets = ts, !.ptargets = ps, !.pending = c, !.phase = "prepared"]
<1>1. entry \in Entries
  BY DEF Sound
<1>2. e \in Entries /\ e.targets = ts /\ e.ptargets = ps /\ e.pending = c /\ e.phase = "prepared"
  BY <1>1 DEF Entries
<1>3. c # None
  BY OpenClawAssumption
<1> HIDE DEF e
<1>4. Sound(e) /\ e # None /\ e \in Entries
  BY <1>2, <1>3, SentinelAssumption DEF Sound
<1> QED BY <1>4 DEF e

\* Types over the announcement of an apply.
LEMMA ApplyEntryTypes == ASSUME TypeInv, ApplyEntry PROVE TypeInv'
<1>1. /\ pc = "entry" /\ rec' = rec /\ UNCHANGED <<store, rec, files, gw, user>>
      /\ Working /\ Looping /\ mem.mode = "apply" /\ DataInv
  BY DEF ApplyEntry, Working, Looping, AtTarget, TypeInv, PlaceInv
<1> DEFINE t == Cur
           c == rec.cand.proxy
<1>2. c \in Proxies /\ Cur \in Targets
  BY <1>1, WorkingFacts, CurIsTarget
<1>3. Sound(entry) /\ file \in Files \cup {None}
  BY <1>1, TypesOfState
<1>4. ASSUME SwapFailed, Free, UNCHANGED entry PROVE TypeInv'
  BY <1>1, <1>3, <1>4, FreeSpends, EntryData, SwapFailedPlace DEF TypeInv
<1>5. ASSUME NextTarget, Spends, Sound(entry') PROVE TypeInv'
  BY <1>1, <1>5, EntryData, NextTargetPlace DEF TypeInv
<1>6. ASSUME NEW e, Sound(e), e # None, file \in Files, SaveEntry(e, SetProxy(c, "prepared"), SwapFailed)
      PROVE  TypeInv'
  <2>1. CASE entry' = e /\ SetProxy(c, "prepared") /\ Free
    <3>1. PlaceInv'
      BY <1>1, <1>2, <1>6, <2>1, SetProxyPlace DEF Values
    <3> QED BY <1>1, <1>6, <2>1, <3>1, FreeSpends, EntryData DEF TypeInv
  <2>2. CASE entry' \in {entry, e} /\ SwapFailed /\ Spend("faults")
    BY <1>1, <1>3, <1>6, <2>2, FreeSpends, EntryData, SwapFailedPlace DEF TypeInv
  <2> QED BY <1>6, <2>1, <2>2 DEF SaveEntry
<1>7. CASE ~Valid(t) \/ file = None
  BY <1>4, <1>7 DEF ApplyEntry
<1>8. CASE ~(~Valid(t) \/ file = None) /\ entry = None
  <2>1. SaveEntry(Entry(file.proxy, c, c, {t}, {t}, "prepared"), SetProxy(c, "prepared"), SwapFailed)
    BY <1>8 DEF ApplyEntry
  <2>2. file \in Files /\ file.proxy \in Values
    BY <1>3, <1>8 DEF Files
  <2>3. Sound(Entry(file.proxy, c, c, {t}, {t}, "prepared"))
    BY <1>2, <2>2, NewEntry
  <2>4. Entry(file.proxy, c, c, {t}, {t}, "prepared") # None
    BY <1>2, <2>2, SentinelAssumption DEF Entry, Entries
  <2> QED BY <1>6, <2>1, <2>2, <2>3, <2>4
<1>9. CASE ~(~Valid(t) \/ file = None) /\ entry # None
  <2>1. CASE ~Acceptable
    BY <1>4, <1>9, <2>1 DEF ApplyEntry
  <2>2. CASE Acceptable /\ entry.phase = "active" /\ entry.managed = c /\ t \in entry.targets
    BY <1>3, <1>5, <1>9, <2>2, FreeSpends DEF ApplyEntry
  <2>3. CASE Acceptable /\ entry.phase = "active" /\ entry.managed = c /\ t \notin entry.targets
    <3> DEFINE e == [entry EXCEPT !.targets = @ \cup {t}, !.ptargets = {t}, !.pending = c,
                                  !.phase = "prepared"]
    <3>1. SaveEntry(e, NextTarget, SwapFailed)
      BY <1>9, <2>3 DEF ApplyEntry
    <3>2. Sound(e)
      <4> DEFINE ts == entry.targets \cup {t}
                 ps == {t}
      <4>1. ts \in SUBSET Targets /\ ps \in SUBSET ts /\ ps # {}
        BY <1>2, <1>3, <1>9 DEF Sound, Entries
      <4>2. e = [entry EXCEPT !.targets = ts, !.ptargets = ps, !.pending = c, !.phase = "prepared"]
        OBVIOUS
      <4> HIDE DEF e, ts, ps
      <4> QED BY <1>2, <1>3, <1>9, <4>1, <4>2, MoreEntry
    <3> HIDE DEF e
    <3>3. CASE entry' = e /\ NextTarget /\ Free
      BY <1>5, <3>2, <3>3, FreeSpends
    <3>4. CASE entry' \in {entry, e} /\ SwapFailed /\ Spend("faults")
      BY <1>1, <1>3, <3>2, <3>4, FreeSpends, EntryData, SwapFailedPlace DEF TypeInv
    <3> QED BY <3>1, <3>3, <3>4 DEF SaveEntry
  <2>4. CASE Acceptable /\ ~(entry.phase = "active" /\ entry.managed = c)
    <3> DEFINE ts == entry.targets \cup {t}
               e  == [entry EXCEPT !.targets = ts, !.ptargets = ts, !.pending = c,
                                   !.phase = "prepared"]
    <3>1. SaveEntry(e, SetProxy(c, "prepared"), SwapFailed)
      BY <1>9, <2>4 DEF ApplyEntry
    <3>2. Sound(e) /\ e # None
      <4>1. ts \in SUBSET Targets /\ ts \in SUBSET ts /\ ts # {}
        BY <1>2, <1>3, <1>9 DEF Sound, Entries
      <4> HIDE DEF ts
      <4> QED BY <1>2, <1>3, <1>9, <4>1, MoreEntry
    <3> HIDE DEF e
    <3> QED BY <1>3, <1>6, <1>9, <3>1, <3>2
  <2> QED BY <2>1, <2>2, <2>3, <2>4
<1> QED BY <1>7, <1>8, <1>9

\* Types over the choice of what is reconciled.
LEMMA PendingTypes == ASSUME TypeInv, JournalInv, Pending PROVE TypeInv'
<1>1. /\ pc = "pending" /\ rec' = rec /\ Working /\ mem.mode = "apply" /\ DataInv
      /\ mem \in Memory
  BY WorkingFacts DEF Pending, Working, TypeInv, PlaceInv, durable
<1>2. DataInv'
  BY <1>1, SameData, FreeSpends DEF Pending
<1> DEFINE act == (IF entry = None THEN {} ELSE entry.ptargets) \ mem.failed
<1>3. act \in SUBSET Targets /\ act \subseteq rec.targets
  BY <1>1, TypesOfState, WorkingFacts DEF Sound, Entries, JournalInv
<1>4. \/ pc' = (IF act = {} THEN "applied" ELSE "expect") /\ mem' = [mem EXCEPT !.todo = act]
      \/ pc' = "applied" /\ mem' = [mem EXCEPT !.err = Worse("failed")]
  BY DEF Pending
<1> HIDE DEF act
<1>5. CASE pc' = (IF act = {} THEN "applied" ELSE "expect") /\ mem' = [mem EXCEPT !.todo = act]
  <2>1. mem' \in Memory /\ mem'.mode = mem.mode /\ mem'.todo = act
    BY <1>1, <1>3, <1>5 DEF Memory
  <2> QED BY <1>1, <1>2, <1>3, <1>5, <2>1, WorkingFacts DEF TypeInv, PlaceInv, PCs, AtTarget, Loop, Swapping
<1>6. CASE pc' = "applied" /\ mem' = [mem EXCEPT !.err = Worse("failed")]
  <2>1. mem' \in Memory /\ mem'.mode = mem.mode
    BY <1>1, <1>6, WorseType DEF Memory
  <2> QED BY <1>1, <1>2, <1>6, <2>1, WorkingFacts DEF TypeInv, PlaceInv, PCs, AtTarget, Loop, Swapping
<1> QED BY <1>4, <1>5, <1>6

\* Types over the check before an observation.
LEMMA ExpectTypes == ASSUME TypeInv, Expect PROVE TypeInv'
<1>1. /\ pc = "expect" /\ rec' = rec /\ Working /\ pc \in Loop /\ mem.mode \in {"apply", "release"}
      /\ DataInv /\ file \in Files \cup {None}
  BY TypesOfState DEF Expect, Working, TypeInv, PlaceInv, durable, Loop
<1>2. DataInv'
  BY <1>1, SameData, FreeSpends DEF Expect, Free
<1>3. CASE Reconciled
  BY <1>1, <1>2, <1>3, ReconciledPlace DEF TypeInv
<1>4. CASE Goto("restart")
  BY <1>1, <1>2, <1>4, StaysPlace DEF TypeInv, Goto, PCs, AtTarget, Loop
<1>5. CASE Fail("failed")
  BY <1>1, <1>2, <1>5, FailPlace DEF TypeInv
<1>6. CASE pc' = "observe" /\ mem' = [mem EXCEPT !.raw = file]
  <2>1. mem' \in Memory /\ mem'.mode = mem.mode /\ mem'.todo = mem.todo
    BY <1>1, <1>6, WorkingFacts DEF Memory
  <2>2. mem.todo # {} /\ mem.todo \subseteq rec.targets
    BY <1>1 DEF TypeInv, PlaceInv, AtTarget
  <2> QED BY <1>1, <1>2, <1>6, <2>1, <2>2, WorkingFacts
          DEF TypeInv, PlaceInv, PCs, AtTarget, Loop, Swapping
<1> QED BY <1>3, <1>4, <1>5, <1>6 DEF Expect

\* Types over the observation.
LEMMA ObserveTypes == ASSUME TypeInv, Observe PROVE TypeInv'
<1>1. /\ pc = "observe" /\ rec' = rec /\ Working /\ pc \in Loop /\ mem.mode \in {"apply", "release"}
      /\ DataInv /\ mem' = mem /\ pc' \in {"confirm", "fallback"}
  BY DEF Observe, Working, TypeInv, PlaceInv, durable, Loop
<1>2. DataInv'
  BY <1>1, SameData, FreeSpends DEF Observe, Free
<1> QED BY <1>1, <1>2, StaysPlace DEF TypeInv, PCs, AtTarget, Loop

\* Types over the check after it.
LEMMA ConfirmTypes == ASSUME TypeInv, Confirm PROVE TypeInv'
<1>1. /\ rec' = rec /\ Working /\ pc \in Loop /\ mem.mode \in {"apply", "release"} /\ DataInv
  BY DEF Confirm, Working, TypeInv, PlaceInv, durable, Loop
<1>2. DataInv'
  BY <1>1, SameData, FreeSpends DEF Confirm, Free
<1>3. CASE Reconciled
  BY <1>1, <1>2, <1>3, ReconciledPlace DEF TypeInv
<1>4. CASE pc' = "restart" /\ mem' = mem
  BY <1>1, <1>2, <1>4, StaysPlace DEF TypeInv, PCs, AtTarget, Loop
<1>5. CASE Fail("failed")
  BY <1>1, <1>2, <1>5, FailPlace DEF TypeInv
<1> QED BY <1>3, <1>4, <1>5 DEF Confirm

\* A restart is queued at one gateway.
LEMMA JobData ==
  ASSUME DataInv, NEW t \in Targets, gw' = [gw EXCEPT ![t].job = TRUE],
         UNCHANGED <<durable, files, user, left>>
  PROVE  DataInv'
<1>1. gw' \in [Targets -> [unit : BOOLEAN, up : BOOLEAN, job : BOOLEAN, pend : BOOLEAN,
                           applied : Files \cup {None}, chan : Values \cup {None}]]
  <2> DEFINE A == Files \cup {None}
             C == Values \cup {None}
  <2>1. gw \in [Targets -> [unit : BOOLEAN, up : BOOLEAN, job : BOOLEAN, pend : BOOLEAN,
                            applied : A, chan : C]]
    BY DEF DataInv, TypeOK
  <2> HIDE DEF A, C
  <2>2. gw' \in [Targets -> [unit : BOOLEAN, up : BOOLEAN, job : BOOLEAN, pend : BOOLEAN,
                             applied : A, chan : C]]
    BY <2>1
  <2> QED BY <2>2 DEF A, C
<1>2. \A s \in Targets : /\ gw'[s].up = gw[s].up /\ gw'[s].applied = gw[s].applied
                         /\ gw'[s].pend = gw[s].pend /\ gw'[s].chan = gw[s].chan
  BY DEF DataInv, TypeOK
<1> QED BY <1>1, <1>2 DEF DataInv, TypeOK, durable, files

\* Types over the restart.
LEMMA RestartTypes == ASSUME TypeInv, JournalInv, Restart PROVE TypeInv'
<1>1. /\ pc = "restart" /\ rec' = rec /\ Working /\ pc \in Loop /\ DataInv /\ entry' = entry
      /\ UNCHANGED <<durable, files, user, left>>
  BY DEF Restart, Working, TypeInv, durable, Loop
<1>2. gw' = gw => DataInv'
  BY <1>1, SameData, FreeSpends DEF Free
<1>3. Cur \in Targets /\ mem.todo # {} /\ mem.todo \subseteq rec.targets
  BY <1>1, CurIsTarget DEF Looping, AtTarget, TypeInv, PlaceInv
<1>4. CASE Reconciled /\ gw' = gw
  BY <1>1, <1>2, <1>4, ReconciledPlace DEF TypeInv
<1>5. CASE /\ Goto("absent") /\ gw' = gw /\ mem.mode = "undo" /\ rec.before # None
           /\ (Cur \in rec.skip \/ ~Valid(Cur))
  <2>1. ~gw[Cur].unit
    BY <1>1, <1>5 DEF JournalInv, RecordInv, Valid, TypeInv, PlaceInv
  <2>2. mem' = mem /\ pc' = "absent" /\ Cur' = Cur
    BY <1>5 DEF Goto, Cur
  <2> QED BY <1>1, <1>2, <1>3, <1>5, <2>1, <2>2, WorkingFacts
          DEF TypeInv, PlaceInv, PCs, AtTarget, Loop, Swapping
<1>6. CASE Fail("failed") /\ gw' = gw
  BY <1>1, <1>2, <1>6, FailPlace DEF TypeInv
<1>7. CASE Fail("unsettled") /\ gw' = gw
  BY <1>1, <1>2, <1>7, FailPlace DEF TypeInv
<1>8. CASE gw' = [gw EXCEPT ![Cur].job = TRUE] /\ Goto("wait")
  <2>1. DataInv'
    BY <1>1, <1>3, <1>8, JobData
  <2>2. mem' = mem /\ pc' = "wait"
    BY <1>8 DEF Goto
  <2> QED BY <1>1, <1>3, <2>1, <2>2, WorkingFacts DEF TypeInv, PlaceInv, PCs, AtTarget, Loop, Swapping
<1> QED BY <1>4, <1>5, <1>6, <1>7, <1>8 DEF Restart

\* Types over the wait for a restart.
LEMMA WaitTypes == ASSUME TypeInv, Wait PROVE TypeInv'
<1>1. /\ pc = "wait" /\ rec' = rec /\ Working /\ pc \in Loop /\ DataInv /\ Spends
      /\ UNCHANGED <<durable, files, gw, user>>
  BY FreeSpends DEF Wait, Working, TypeInv, durable, Loop
<1>2. DataInv'
  BY <1>1, SameData
<1>3. CASE Reconciled
  BY <1>1, <1>2, <1>3, ReconciledPlace DEF TypeInv
<1>4. CASE \E e \in {"failed", "unsettled"} : Fail(e)
  BY <1>1, <1>2, <1>4, FailPlace DEF TypeInv
<1> QED BY <1>3, <1>4 DEF Wait

\* What a committed gateway leaves.
LEMMA CommittedEntry ==
  ASSUME Sound(entry), entry # None, entry.phase = "prepared", NEW t \in Targets
  PROVE  LET ps == entry.ptargets \ {t}
             e  == Committed(t)
         IN  /\ Sound(e) /\ e # None /\ e.orig = entry.orig /\ e.targets = entry.targets
             /\ e.ptargets = ps
             /\ ps # {} => /\ e.phase = "prepared" /\ e.pending = entry.pending
                           /\ e.managed = entry.managed
             /\ ps = {} => /\ e.phase = "active" /\ e.pending = None /\ e.managed = entry.pending
<1> DEFINE ps == entry.ptargets \ {t}
           e  == Committed(t)
<1>1. /\ entry \in Entries /\ entry.pending \in Proxies /\ entry.targets # {}
      /\ entry.ptargets \subseteq entry.targets
  BY DEF Sound, Entries
<1>2. ps \in SUBSET Targets /\ ps \subseteq entry.targets
  BY <1>1 DEF Entries
<1>3. e = IF ps # {} THEN [entry EXCEPT !.ptargets = ps]
          ELSE [entry EXCEPT !.ptargets = {}, !.managed = entry.pending, !.pending = None,
                             !.phase = "active"]
  BY DEF Committed
<1> HIDE DEF e, ps
<1>4. CASE ps # {}
  <2>1. /\ e \in Entries /\ e.orig = entry.orig /\ e.targets = entry.targets /\ e.ptargets = ps
        /\ e.phase = "prepared" /\ e.pending = entry.pending /\ e.managed = entry.managed
    BY <1>1, <1>2, <1>3, <1>4 DEF Entries
  <2> QED BY <1>1, <1>2, <1>4, <2>1, SentinelAssumption, OpenClawAssumption DEF Sound, e, ps
<1>5. CASE ps = {}
  <2>1. /\ e \in Entries /\ e.orig = entry.orig /\ e.targets = entry.targets /\ e.ptargets = {}
        /\ e.phase = "active" /\ e.pending = None /\ e.managed = entry.pending
    BY <1>1, <1>2, <1>3, <1>5 DEF Entries
  <2> QED BY <1>1, <1>2, <1>5, <2>1, SentinelAssumption DEF Sound, e, ps
<1> QED BY <1>4, <1>5

\* Types over the commit of a gateway.
LEMMA CommitTypes == ASSUME TypeInv, Commit PROVE TypeInv'
<1>1. /\ pc = "commit" /\ rec' = rec /\ Working /\ pc \in Loop /\ DataInv /\ Spends
      /\ UNCHANGED <<store, rec, files, gw, user>> /\ Sound(entry)
  BY FreeSpends, TypesOfState DEF Commit, SaveEntry, Working, TypeInv, durable, Loop
<1>2. Cur \in Targets
  BY <1>1, CurIsTarget DEF Looping, AtTarget
<1>3. Sound(entry') => DataInv'
  BY <1>1, EntryData
<1>4. Advance => PlaceInv'
  BY <1>1, AdvancePlace
<1>5. Fail("failed") => PlaceInv'
  BY <1>1, FailPlace
<1>6. CASE (Advance \/ Fail("failed")) /\ UNCHANGED entry
  BY <1>1, <1>3, <1>4, <1>5, <1>6 DEF TypeInv
<1>7. CASE /\ entry # None /\ entry.phase = "prepared"
           /\ SaveEntry(Committed(Cur), Advance, Fail("failed"))
  <2>1. Sound(Committed(Cur))
    BY <1>1, <1>2, <1>7, CommittedEntry
  <2> QED BY <1>1, <1>3, <1>4, <1>5, <1>7, <2>1 DEF TypeInv, SaveEntry
<1> QED BY <1>6, <1>7 DEF Commit

\* So is one that restores.
LEMMA RestoringEntry ==
  ASSUME Sound(entry), entry # None, NEW o \in Values
  PROVE  LET e == [entry EXCEPT !.phase = "restoring", !.pending = None, !.ptargets = {}, !.orig = o]
         IN  /\ Sound(e) /\ e # None /\ e.phase = "restoring" /\ e.orig = o
             /\ e.targets = entry.targets
<1> DEFINE e == [entry EXCEPT !.phase = "restoring", !.pending = None, !.ptargets = {}, !.orig = o]
<1>1. entry \in Entries /\ entry.targets # {}
  BY DEF Sound
<1>2. /\ e \in Entries /\ e.targets = entry.targets /\ e.ptargets = {} /\ e.pending = None
      /\ e.phase = "restoring" /\ e.orig = o
  BY <1>1 DEF Entries
<1> HIDE DEF e
<1>3. Sound(e) /\ e # None /\ e.phase = "restoring" /\ e.orig = o /\ e.targets = entry.targets
  BY <1>1, <1>2, SentinelAssumption DEF Sound
<1> QED BY <1>3 DEF e

\* Types over the announcement of a release.
LEMMA ReleaseTypes == ASSUME TypeInv, Release PROVE TypeInv'
<1>1. /\ pc = "release" /\ rec' = rec /\ Working /\ mem.mode = "release" /\ DataInv
      /\ UNCHANGED <<store, rec, files, gw, user>> /\ Sound(entry) /\ file \in Files \cup {None}
  BY TypesOfState DEF Release, Working, TypeInv, PlaceInv, durable
<1>2. Sound(entry') /\ Spends => DataInv'
  BY <1>1, EntryData
<1>3. SwapFailed => PlaceInv'
  BY <1>1, SwapFailedPlace
<1>4. CASE entry = None
  <2>1. pc' = "applied" /\ mem' = mem /\ entry' = entry /\ Spends
    BY <1>4, FreeSpends DEF Release
  <2> QED BY <1>1, <1>2, <2>1, GotoPlace DEF TypeInv, PCs, AtTarget, Loop
<1>5. CASE entry # None /\ file = None
  BY <1>1, <1>2, <1>3, <1>5, FreeSpends DEF Release, TypeInv
<1>6. CASE entry # None /\ file # None
  <2> DEFINE o == IF file.proxy = entry.managed THEN entry.orig ELSE file.proxy
             e == [entry EXCEPT !.phase = "restoring", !.pending = None, !.ptargets = {}, !.orig = o]
             G == IF file.proxy = entry.managed /\ file.proxy = entry.orig THEN Goto("drop")
                  ELSE SetProxy(e.orig, "restore")
  <2>1. SaveEntry(e, G, SwapFailed)
    BY <1>6 DEF Release
  <2>2. file \in Files /\ o \in Values
    BY <1>1, <1>6 DEF Files, Sound, Entries
  <2>3. Sound(e) /\ e # None /\ e.orig = o
    <3> HIDE DEF o
    <3> QED BY <1>1, <1>6, <2>2, RestoringEntry
  <2>4. CASE entry' = e /\ G /\ Free
    <3>1. CASE Goto("drop")
      BY <1>1, <1>2, <2>3, <2>4, <3>1, FreeSpends, GotoPlace DEF TypeInv, PCs, AtTarget, Loop, Goto
    <3>2. CASE SetProxy(e.orig, "restore")
      <4> HIDE DEF o, e
      <4>1. PlaceInv'
        BY <1>1, <2>2, <2>3, <2>4, <3>2, SetProxyPlace
      <4> QED BY <1>2, <2>3, <2>4, <4>1, FreeSpends DEF TypeInv
    <3> QED BY <2>4, <3>1, <3>2
  <2>5. CASE entry' \in {entry, e} /\ SwapFailed /\ Spend("faults")
    BY <1>1, <1>2, <1>3, <2>3, <2>5, FreeSpends DEF TypeInv
  <2> QED BY <2>1, <2>4, <2>5 DEF SaveEntry
<1> QED BY <1>4, <1>5, <1>6

\* The entry goes, or it stays and the command has failed.
LEMMA DropsTypes ==
  ASSUME TypeInv, pc \in {"drop", "forget"}, UNCHANGED <<store, rec, files, gw, user>>,
         \/ SaveEntry(None, Goto("applied"), SwapFailed)
         \/ SwapFailed /\ Free /\ UNCHANGED entry
         \/ Goto("applied") /\ Free /\ UNCHANGED entry
  PROVE  TypeInv'
<1>1. /\ rec' = rec /\ Working /\ mem.mode = "release" /\ DataInv /\ Sound(entry)
      /\ Sound(entry') /\ Spends
  BY TypesOfState, FreeSpends DEF Working, TypeInv, PlaceInv, SaveEntry, Sound
<1>2. DataInv'
  BY <1>1, EntryData
<1>3. SwapFailed => PlaceInv'
  BY <1>1, SwapFailedPlace
<1>4. Goto("applied") => PlaceInv'
  BY <1>1, GotoPlace DEF PCs, AtTarget, Loop, Goto
<1> QED BY <1>2, <1>3, <1>4 DEF SaveEntry, TypeInv

\* Types over an entry that has nothing to restore.
LEMMA DropTypes == ASSUME TypeInv, Drop PROVE TypeInv'
BY DropsTypes DEF Drop

\* Types over the end of an entry.
LEMMA ForgetTypes == ASSUME TypeInv, Forget PROVE TypeInv'
BY DropsTypes DEF Forget

\* Types over the reload of a release.
LEMMA RestoreTypes == ASSUME TypeInv, JournalInv, Restore PROVE TypeInv'
<1>1. /\ pc = "restore" /\ rec' = rec /\ Working /\ mem.mode = "release" /\ DataInv
      /\ Sound(entry) /\ entry # None /\ Spends /\ UNCHANGED <<durable, files, gw, user>>
      /\ rec # None
  BY TypesOfState, FreeSpends DEF Restore, Working, TypeInv, PlaceInv, durable
<1>2. DataInv'
  BY <1>1, SameData
<1>3. CASE pc' = "expect" /\ mem' = [mem EXCEPT !.todo = entry.targets]
  <2>1. entry.targets \in SUBSET Targets /\ entry.targets # {} /\ entry.targets \subseteq rec.targets
    BY <1>1 DEF Sound, Entries, JournalInv
  <2>2. mem' \in Memory /\ mem'.mode = mem.mode /\ mem'.todo = entry.targets
    BY <1>1, <1>3, <2>1, WorkingFacts DEF Memory
  <2> QED BY <1>1, <1>2, <1>3, <2>1, <2>2, WorkingFacts
          DEF TypeInv, PlaceInv, PCs, AtTarget, Loop, Swapping
<1>4. CASE SwapFailed
  BY <1>1, <1>2, <1>4, SwapFailedPlace DEF TypeInv
<1> QED BY <1>3, <1>4 DEF Restore

\* Types over the end of the forward steps.
LEMMA AppliedTypes == ASSUME TypeInv, Applied PROVE TypeInv'
<1>1. /\ pc = "applied" /\ Working /\ mem.mode \in {"apply", "release"} /\ DataInv
      /\ Sound(entry) /\ UNCHANGED <<entry, files, gw, user, left>>
      /\ rec \in Records /\ rec # None /\ store \in Settings
      /\ file \in Files \cup {None} /\ claim \in Files \cup {None}
  BY TypesOfState, WorkingFacts DEF Applied, Working, TypeInv, PlaceInv
<1>2. CASE store' = rec.cand /\ rec' = None /\ Exit
  <2>1. DataInv'
    BY <1>1, <1>2, ProcessData, FreeSpends DEF Free, files, Records, Sound
  <2> QED BY <1>2, <2>1, ExitPlace DEF TypeInv
<1>3. CASE pc' = "failed" /\ UNCHANGED <<mem, store, rec>>
  <2>1. DataInv'
    BY <1>1, <1>3, ProcessData, FreeSpends DEF Free, files, Sound
  <2> QED BY <1>1, <1>3, <2>1, WorkingFacts DEF TypeInv, PlaceInv, PCs, AtTarget, Loop, Swapping
<1> QED BY <1>2, <1>3 DEF Applied

\* Types over a failure.
LEMMA FailedTypes == ASSUME TypeInv, Failed PROVE TypeInv'
<1>1. DataInv' /\ rec # None /\ rec' = rec
  BY SameData, FreeSpends DEF Failed, TypeInv, PlaceInv, Free, durable
<1> QED BY <1>1, ExitPlace, CompensatePlace DEF Failed, TypeInv

\* Types over a recovery.
LEMMA RecoverTypes == ASSUME TypeInv, Recover PROVE TypeInv'
<1>1. DataInv' /\ rec # None /\ rec' = rec
  BY SameData, FreeSpends DEF Recover, TypeInv, Free, durable
<1> QED BY <1>1, CompensatePlace DEF Recover, TypeInv

\* Types over a kill.
LEMMA KillTypes == ASSUME TypeInv, Kill PROVE TypeInv'
<1>1. DataInv'
  BY SameData DEF Kill, TypeInv, Spends
<1> QED BY <1>1, ExitPlace DEF Kill, TypeInv

\* Types over the end of a compensation.
LEMMA UndoneTypes == ASSUME TypeInv, Undone PROVE TypeInv'
<1>1. DataInv /\ UNCHANGED <<store, entry, file, claim, gw, user, left>> /\ rec' \in {None, rec}
  BY DEF Undone, TypeInv, files
<1>2. /\ Sound(entry) /\ store \in Settings /\ rec \in Records \cup {None}
      /\ file \in Files \cup {None} /\ claim \in Files \cup {None}
  BY <1>1, TypesOfState
<1>3. Sound(entry') /\ Spends
  BY <1>1, <1>2, FreeSpends DEF Free
<1>4. DataInv'
  BY <1>1, <1>2, <1>3, ProcessData
<1> QED BY <1>4, ExitPlace DEF Undone, TypeInv

\* The progress of the entry is that of a compensation.
Progress == /\ entry # None /\ entry.phase = "prepared" /\ entry.pending = rec.before.managed
            /\ file.proxy = rec.value

\* So is the one that a compensation announces.
LEMMA RecoveryEntry ==
  ASSUME TypeInv, JournalInv, rec # None, rec.before # None \/ entry # None
  PROVE  /\ Sound(Recovery) /\ Recovery # None
         /\ rec.before = None => /\ Recovery.phase = "restoring" /\ Recovery.targets = entry.targets
                                 /\ Recovery.orig = entry.orig
         /\ rec.before # None =>
              /\ Recovery.orig = rec.before.orig /\ Recovery.managed = rec.before.managed
              /\ Recovery.pending = rec.before.managed /\ Recovery.phase = "prepared"
              /\ Recovery.targets = rec.targets
              /\ Recovery.ptargets = IF Progress THEN entry.ptargets ELSE rec.targets
<1>1. /\ Sound(entry) /\ rec \in Records /\ RecordInv
      /\ entry # None => entry.targets \subseteq rec.targets
  BY TypesOfState DEF TypeInv, JournalInv
<1>2. CASE rec.before = None
  <2>1. entry # None /\ entry \in Entries /\ entry.targets # {}
    BY <1>1, <1>2 DEF Sound
  <2> DEFINE e == [entry EXCEPT !.phase = "restoring", !.pending = None, !.ptargets = {}]
  <2>2. /\ e \in Entries /\ e.targets = entry.targets /\ e.ptargets = {} /\ e.pending = None
        /\ e.phase = "restoring" /\ e.orig = entry.orig
    BY <2>1 DEF Entries
  <2>3. Recovery = e
    BY <1>2 DEF Recovery
  <2> HIDE DEF e
  <2> QED BY <1>2, <2>1, <2>2, <2>3, SentinelAssumption DEF Sound
<1>3. CASE rec.before # None
  <2> DEFINE b  == rec.before
             m  == rec.before.managed
             ts == rec.before.targets \cup rec.targets
             ps == IF Progress THEN entry.ptargets ELSE rec.targets
             e  == [b EXCEPT !.targets = ts, !.phase = "prepared", !.pending = m, !.ptargets = ps]
  <2>1. b \in Entries /\ m \in Proxies /\ rec.targets \in SUBSET Targets /\ rec.targets # {}
    BY <1>1, <1>3 DEF Records, Entries, RecordInv
  <2>2. ts = rec.targets
    BY <1>1, <1>3 DEF RecordInv, BeforeTargets
  <2>3. ps \in SUBSET rec.targets /\ ps # {}
    BY <1>1, <2>1 DEF Sound, Entries, Progress
  <2>4. Recovery = e
    BY <1>3 DEF Recovery, Progress
  <2> HIDE DEF b, m, ts, ps
  <2>5. /\ e \in Entries /\ e.targets = ts /\ e.ptargets = ps /\ e.pending = m
        /\ e.phase = "prepared" /\ e.orig = b.orig /\ e.managed = b.managed
    BY <2>1, <2>2, <2>3 DEF Entries
  <2>6. m # None
    BY <2>1, OpenClawAssumption
  <2> HIDE DEF e
  <2>7. Sound(Recovery) /\ Recovery # None
    BY <2>1, <2>2, <2>3, <2>4, <2>5, <2>6, SentinelAssumption DEF Sound
  <2> QED BY <1>3, <2>2, <2>4, <2>5, <2>7 DEF b, m, ps
<1> QED BY <1>2, <1>3

\* Types over the announcement of a compensation.
LEMMA UndoTypes == ASSUME TypeInv, JournalInv, Undo PROVE TypeInv'
<1>1. /\ pc = "undo" /\ rec' = rec /\ Working /\ mem.mode = "undo" /\ DataInv /\ rec # None
      /\ UNCHANGED <<store, rec, files, gw, user>> /\ Sound(entry) /\ file \in Files \cup {None}
      /\ rec \in Records /\ rec.value \in Values
  BY TypesOfState, WorkingFacts DEF Undo, Working, TypeInv, PlaceInv, durable, Records
<1>2. Sound(entry') /\ Spends => DataInv'
  BY <1>1, EntryData
<1>3. Fail("failed") => PlaceInv'
  BY <1>1, FailPlace
<1>4. CASE Fail("failed") /\ Free /\ UNCHANGED entry
  BY <1>1, <1>2, <1>3, <1>4, FreeSpends DEF TypeInv
<1>5. CASE Goto("undone") /\ Free /\ UNCHANGED entry
  BY <1>1, <1>2, <1>5, FreeSpends, GotoPlace DEF TypeInv, PCs, AtTarget, Loop, Goto
<1>6. ASSUME file # None, entry' = Recovery, Sound(Recovery), Recovery # None,
             SetProxy(rec.value, "undoing"), Free
      PROVE  TypeInv'
  <2>1. PlaceInv'
    BY <1>1, <1>6, SetProxyPlace
  <2> QED BY <1>2, <1>6, <2>1, FreeSpends DEF TypeInv
<1>7. CASE /\ file # None /\ (rec.before # None \/ entry # None)
           /\ \/ entry = Recovery /\ SetProxy(rec.value, "undoing") /\ Free /\ UNCHANGED entry
              \/ SaveEntry(Recovery, SetProxy(rec.value, "undoing"), Fail("failed"))
  <2>1. Sound(Recovery) /\ Recovery # None
    BY <1>1, <1>7, RecoveryEntry
  <2>2. CASE entry' = Recovery /\ SetProxy(rec.value, "undoing") /\ Free
    BY <1>6, <1>7, <2>1, <2>2
  <2>3. CASE entry' \in {entry, Recovery} /\ Fail("failed") /\ Spend("faults")
    BY <1>1, <1>2, <1>3, <2>1, <2>3, FreeSpends DEF TypeInv
  <2> QED BY <1>7, <2>2, <2>3 DEF SaveEntry
<1> QED BY <1>4, <1>5, <1>7 DEF Undo

\* Types over its choice of gateways.
LEMMA UndoingTypes == ASSUME TypeInv, JournalInv, Undoing PROVE TypeInv'
<1>1. /\ pc = "undoing" /\ rec' = rec /\ Working /\ mem.mode = "undo" /\ DataInv /\ rec # None
      /\ Sound(entry) /\ rec \in Records /\ UNCHANGED <<durable, files, gw, user, left>>
  BY TypesOfState, WorkingFacts DEF Undoing, Working, TypeInv, PlaceInv, durable
<1>2. DataInv'
  BY <1>1, SameData, FreeSpends DEF Free
<1> DEFINE ts == IF rec.before = None THEN rec.targets ELSE entry.ptargets
<1>3. pc' = "restart" /\ mem' = [mem EXCEPT !.todo = ts]
  BY DEF Undoing
<1>4. ts \in SUBSET Targets /\ ts # {} /\ ts \subseteq rec.targets
  BY <1>1 DEF JournalInv, UndoInv, Announced, RecordInv, Records, Sound, Entries
<1> HIDE DEF ts
<1>5. mem' \in Memory /\ mem'.mode = mem.mode /\ mem'.todo = ts
  BY <1>1, <1>3, <1>4, WorkingFacts DEF Memory
<1> QED BY <1>1, <1>2, <1>3, <1>4, <1>5, WorkingFacts
        DEF TypeInv, PlaceInv, PCs, AtTarget, Loop, Swapping

\* Types over the commit of a gateway that is gone.
LEMMA AbsentTypes == ASSUME TypeInv, JournalInv, Absent PROVE TypeInv'
<1>1. /\ pc = "absent" /\ rec' = rec /\ Working /\ mem.mode = "undo" /\ DataInv
      /\ Sound(entry) /\ UNCHANGED <<store, rec, files, gw, user>>
  BY TypesOfState DEF Absent, Working, TypeInv, PlaceInv
<1>2. Cur \in Targets
  BY <1>1, CurIsTarget DEF Looping, AtTarget
<1>3. Sound(entry') /\ Spends => DataInv'
  BY <1>1, EntryData
<1>4. (Advance => PlaceInv') /\ (Fail("failed") => PlaceInv')
  BY <1>1, AdvancePlace, FailPlace
<1>5. CASE Fail("failed") /\ Free /\ UNCHANGED entry
  BY <1>1, <1>3, <1>4, <1>5, FreeSpends DEF TypeInv
<1>6. CASE /\ entry # None /\ entry.phase = "prepared"
           /\ SaveEntry(Committed(Cur), Advance, Fail("failed"))
  <2>1. Sound(Committed(Cur))
    BY <1>1, <1>2, <1>6, CommittedEntry
  <2> QED BY <1>1, <1>3, <1>4, <1>6, <2>1, FreeSpends DEF TypeInv, SaveEntry
<1> QED BY <1>5, <1>6 DEF Absent

\* Types over the last check of a compensation.
LEMMA FinalTypes == ASSUME TypeInv, JournalInv, Final PROVE TypeInv'
<1>1. /\ pc = "final" /\ rec' = rec /\ Working /\ mem.mode = "undo" /\ DataInv
      /\ Sound(entry) /\ UNCHANGED <<store, rec, files, gw, user>> /\ rec # None /\ rec \in Records
  BY TypesOfState, WorkingFacts DEF Final, Working, TypeInv, PlaceInv
<1>2. Sound(rec.before)
  BY <1>1 DEF JournalInv, RecordInv, Clean, Sound, Settings, TypeInv, DataInv, TypeOK, Records
<1>3. Sound(entry') /\ Spends => DataInv'
  BY <1>1, EntryData
<1>4. Fail("failed") => PlaceInv'
  BY <1>1, FailPlace
<1>5. Goto("undone") => PlaceInv'
  BY <1>1, GotoPlace DEF PCs, AtTarget, Loop, Goto
<1> QED BY <1>1, <1>2, <1>3, <1>4, <1>5, FreeSpends DEF Final, TypeInv, SaveEntry

-----------------------------------------------------------------------------
(* The gateways and the user.                                              *)

Gateway == [unit : BOOLEAN, up : BOOLEAN, job : BOOLEAN, pend : BOOLEAN,
            applied : Files \cup {None}, chan : Values \cup {None}]

\* What a gateway runs with is sound.
Running(g) == g.up => g.applied \in Files /\ (g.pend \/ g.chan = g.applied.proxy)

\* The types of one gateway.
LEMMA GatewayTypes ==
  ASSUME DataInv, NEW t \in Targets
  PROVE  gw \in [Targets -> Gateway] /\ gw[t] \in Gateway /\ Running(gw[t])
BY DEF DataInv, TypeOK, Gateway, Running

\* A change of one gateway keeps the types.
LEMMA GatewayData ==
  ASSUME DataInv, NEW t \in Targets, NEW g \in Gateway, Running(g), gw' = [gw EXCEPT ![t] = g],
         UNCHANGED <<durable, files, user>>,
         left' \in [{"commands", "kills", "faults", "edits"} -> Nat], left'["edits"] <= left["edits"]
  PROVE  DataInv'
<1>1. gw' \in [Targets -> Gateway] /\ (\A s \in Targets : Running(gw'[s]))
  BY GatewayTypes
<1>2. TypeOK'
  BY <1>1 DEF DataInv, TypeOK, durable, files, Gateway
<1>3. user' \in Users /\ user'.edit + left'["edits"] <= MaxEdits
  BY OpenClawAssumption DEF DataInv, Users
<1> QED BY <1>1, <1>2, <1>3 DEF DataInv, Running

\* The bounds that the world spends.
LEMMA SpendOutside ==
  ASSUME DataInv, Free \/ Spend("faults") \/ Spend("edits")
  PROVE  left' \in [{"commands", "kills", "faults", "edits"} -> Nat] /\ left'["edits"] <= left["edits"]
BY DEF DataInv, Spend, Free

\* A gateway that starts runs with the file.
LEMMA StartedIsRunning ==
  ASSUME DataInv, file # None, NEW t \in Targets
  PROVE  Started(gw[t]) \in Gateway /\ Running(Started(gw[t]))
BY TypesOfState, GatewayTypes DEF Started, Gateway, Running, Files

\* A gateway that stops runs with nothing.
LEMMA StoppedIsRunning ==
  ASSUME DataInv, NEW t \in Targets
  PROVE  Stopped(gw[t]) \in Gateway /\ Running(Stopped(gw[t]))
BY GatewayTypes DEF Stopped, Gateway, Running

\* The gateways only write down in the memory of the process what they have done.
Noted == /\ mem' \in Memory /\ mem'.mode = mem.mode /\ mem'.todo = mem.todo
         /\ mem'.failed = mem.failed /\ mem'.raw = mem.raw /\ mem'.goal = mem.goal
         /\ mem'.then = mem.then /\ mem'.err = mem.err /\ (mem = Fresh => mem' = mem)

\* What is noted of a gateway that was started.
LEMMA RenewedNotes ==
  ASSUME TypeInv, NEW t \in Targets,
         \/ Renewed(t)
         \/ mem' = IF mem.plan[t] = None THEN mem ELSE [mem EXCEPT !.chan = @ \cup {t}]
         \/ mem' = mem
  PROVE  Noted
<1>1. mem \in Memory /\ (mem = Fresh => mem.plan[t] = None)
  BY DEF TypeInv, PlaceInv, Fresh
<1>2. CASE mem' = mem
  BY <1>1, <1>2 DEF Noted
<1>3. CASE mem.plan[t] # None /\ mem' = [mem EXCEPT !.chan = @ \cup {t}, !.proc = @ \cup {t}]
  BY <1>1, <1>3 DEF Noted, Memory
<1>4. CASE mem.plan[t] # None /\ mem' = [mem EXCEPT !.chan = @ \cup {t}]
  BY <1>1, <1>4 DEF Noted, Memory
<1> QED BY <1>2, <1>3, <1>4 DEF Renewed

\* A place stays what it is while the world moves; units never come back.
LEMMA WorldPlace ==
  ASSUME TypeInv, Noted, UNCHANGED <<durable, pc>>,
         \A t \in Targets : ~gw[t].unit => ~gw'[t].unit
  PROVE  PlaceInv'
<1>1. rec' = rec /\ entry' = entry /\ pc' = pc /\ Cur' = Cur
  BY DEF durable, Noted, Cur
<1>2. pc = "absent" => Cur \in Targets
  BY CurIsTarget DEF Looping, AtTarget
<1>3. pc \in Swapping => Exchange'
  BY <1>1 DEF Noted, Exchange, TypeInv, PlaceInv
<1> QED BY <1>1, <1>2, <1>3 DEF Noted, TypeInv, PlaceInv

\* A step of one gateway keeps the types.
LEMMA GatewayStep ==
  ASSUME TypeInv, NEW t \in Targets, NEW g \in Gateway, Running(g), ~gw[t].unit => ~g.unit,
         gw' = [gw EXCEPT ![t] = g], UNCHANGED <<durable, files, user, pc>>, Noted,
         Free \/ Spend("faults") \/ Spend("edits")
  PROVE  TypeInv'
<1>1. DataInv'
  BY GatewayData, SpendOutside DEF TypeInv
<1>2. \A s \in Targets : ~gw[s].unit => ~gw'[s].unit
  BY GatewayTypes DEF TypeInv
<1> QED BY <1>1, <1>2, WorldPlace DEF TypeInv

\* Types over a restart that systemd carries out.
LEMMA JobDoneTypes == ASSUME TypeInv, NEW t \in Targets, JobDone(t) PROVE TypeInv'
<1>1. /\ DataInv /\ gw[t] \in Gateway /\ Noted /\ UNCHANGED <<durable, files, user, pc>>
      /\ Free \/ Spend("faults")
  BY GatewayTypes, RenewedNotes DEF JobDone, TypeInv
<1>2. (Started(gw[t]).unit = gw[t].unit) /\ (Stopped(gw[t]).unit = gw[t].unit)
  BY <1>1 DEF Started, Stopped, Gateway
<1>3. CASE file # None /\ gw' = [gw EXCEPT ![t] = Started(gw[t])]
  <2>1. Started(gw[t]) \in Gateway /\ Running(Started(gw[t]))
    BY <1>1, <1>3, StartedIsRunning
  <2> QED BY <1>1, <1>2, <1>3, <2>1, GatewayStep
<1>4. CASE gw' = [gw EXCEPT ![t] = Stopped(gw[t])]
  <2>1. Stopped(gw[t]) \in Gateway /\ Running(Stopped(gw[t]))
    BY <1>1, StoppedIsRunning
  <2> QED BY <1>1, <1>2, <1>4, <2>1, GatewayStep
<1> QED BY <1>3, <1>4 DEF JobDone

\* Types over the user starting or stopping a gateway.
LEMMA StartStopTypes == ASSUME TypeInv, NEW t \in Targets, StartStop(t) PROVE TypeInv'
<1>1. /\ DataInv /\ gw[t] \in Gateway /\ Noted /\ UNCHANGED <<durable, files, user, pc>>
      /\ Spend("edits")
  BY GatewayTypes, RenewedNotes DEF StartStop, TypeInv
<1>2. (Started(gw[t]).unit = gw[t].unit) /\ (Stopped(gw[t]).unit = gw[t].unit)
  BY <1>1 DEF Started, Stopped, Gateway
<1>3. CASE ~gw[t].up /\ file # None /\ gw' = [gw EXCEPT ![t] = Started(gw[t])]
  <2>1. Started(gw[t]) \in Gateway /\ Running(Started(gw[t]))
    BY <1>1, <1>3, StartedIsRunning
  <2> QED BY <1>1, <1>2, <1>3, <2>1, GatewayStep
<1>4. CASE gw' = [gw EXCEPT ![t] = Stopped(gw[t])]
  <2>1. Stopped(gw[t]) \in Gateway /\ Running(Stopped(gw[t]))
    BY <1>1, StoppedIsRunning
  <2> QED BY <1>1, <1>2, <1>4, <2>1, GatewayStep
<1> QED BY <1>3, <1>4 DEF StartStop

\* Types over a gateway that takes the file.
LEMMA ApplyTypes == ASSUME TypeInv, NEW t \in Targets, Apply(t) PROVE TypeInv'
<1>1. /\ DataInv /\ gw[t] \in Gateway /\ Noted /\ UNCHANGED <<durable, files, user, pc>> /\ Free
      /\ file \in Files /\ Running(gw[t])
  BY GatewayTypes, RenewedNotes, TypesOfState DEF Apply, TypeInv, Free
<1> DEFINE p == gw[t].pend \/ gw[t].chan # file.proxy
           g == [gw[t] EXCEPT !.applied = file, !.pend = p]
<1>2. gw' = [gw EXCEPT ![t] = g]
  BY <1>1, GatewayTypes DEF Apply
<1>3. p \in BOOLEAN
  BY <1>1 DEF Gateway
<1>4. g \in Gateway /\ Running(g) /\ g.unit = gw[t].unit
  <2>1. p \/ gw[t].chan = file.proxy
    OBVIOUS
  <2> HIDE DEF p
  <2> QED BY <1>1, <1>3, <2>1 DEF Gateway, Running
<1> HIDE DEF g
<1> QED BY <1>1, <1>2, <1>4, GatewayStep

\* Types over a channel that restarts.
LEMMA ChannelRestartTypes == ASSUME TypeInv, NEW t \in Targets, ChannelRestart(t) PROVE TypeInv'
<1>1. /\ DataInv /\ gw[t] \in Gateway /\ Noted /\ UNCHANGED <<durable, files, user, pc>> /\ Free
      /\ gw[t].applied \in Files
  BY GatewayTypes, RenewedNotes DEF ChannelRestart, TypeInv, Free, Running
<1> DEFINE g == [gw[t] EXCEPT !.chan = gw[t].applied.proxy, !.pend = FALSE]
<1>2. gw' = [gw EXCEPT ![t] = g]
  BY <1>1, GatewayTypes DEF ChannelRestart
<1>3. g \in Gateway /\ Running(g) /\ g.unit = gw[t].unit
  BY <1>1 DEF Gateway, Running, Files
<1> HIDE DEF g
<1> QED BY <1>1, <1>2, <1>3, GatewayStep

\* Types over a unit that goes.
LEMMA UninstallTypes == ASSUME TypeInv, NEW t \in Targets, Uninstall(t) PROVE TypeInv'
<1>1. /\ DataInv /\ gw[t] \in Gateway /\ Noted /\ UNCHANGED <<durable, files, user, pc>>
      /\ Spend("edits") /\ Running(gw[t])
  BY GatewayTypes, RenewedNotes DEF Uninstall, TypeInv
<1> DEFINE g == [gw[t] EXCEPT !.unit = FALSE]
<1>2. gw' = [gw EXCEPT ![t] = g]
  BY <1>1, GatewayTypes DEF Uninstall
<1>3. g \in Gateway /\ Running(g) /\ ~g.unit
  BY <1>1 DEF Gateway, Running
<1> HIDE DEF g
<1> QED BY <1>1, <1>2, <1>3, GatewayStep

\* What a save leaves.
LEMMA SaveFacts ==
  ASSUME TypeInv, Save
  PROVE  \E f \in Files, own \in BOOLEAN :
           /\ f = There /\ file' \in Files /\ file'.edit = user.edit + 1 /\ user'.edit = user.edit + 1
           /\ file'.proxy = (IF own THEN Own ELSE f.proxy) /\ user'.orig = user.orig
           /\ user'.touched = IF own THEN "own" ELSE user.touched
           /\ user' \in Users /\ user'.edit + left'["edits"] <= MaxEdits
           /\ left' \in [{"commands", "kills", "faults", "edits"} -> Nat]
<1>1. /\ file \in Files \cup {None} /\ claim \in Files \cup {None} /\ user \in Users
      /\ left \in [{"commands", "kills", "faults", "edits"} -> Nat]
      /\ user.edit + left["edits"] <= MaxEdits
  BY TypesOfState DEF TypeInv, DataInv
<1>2. left["edits"] > 0 /\ left' = [left EXCEPT !["edits"] = @ - 1]
  BY DEF Save, Spend
<1>3. PICK f \in {file, claim} \ {None}, own \in BOOLEAN :
        /\ f = IF file # None THEN file ELSE claim
        /\ file' = [f EXCEPT !.edit = user.edit + 1, !.proxy = IF own THEN Own ELSE @]
        /\ user' = [user EXCEPT !.edit = @ + 1, !.touched = IF own THEN "own" ELSE @]
  BY DEF Save
<1>4. f \in Files /\ f = There
  BY <1>1, <1>3 DEF There
<1>5. /\ left' \in [{"commands", "kills", "faults", "edits"} -> Nat]
      /\ left'["edits"] = left["edits"] - 1
  BY <1>1, <1>2
<1>6. user.edit + 1 \in 0 .. MaxEdits
  BY <1>1, <1>2, OpenClawAssumption DEF Users
<1>7. /\ file' \in Files /\ file'.edit = user.edit + 1
      /\ file'.proxy = IF own THEN Own ELSE f.proxy
  <2> DEFINE n == user.edit + 1
             v == IF own THEN Own ELSE f.proxy
  <2>1. file' = [f EXCEPT !.edit = n, !.proxy = v]
    BY <1>3
  <2>2. n \in 0 .. MaxEdits /\ v \in Values
    BY <1>4, <1>6 DEF Files, Values
  <2> HIDE DEF n, v
  <2>3. file' \in Files /\ file'.edit = n /\ file'.proxy = v
    BY <1>4, <2>1, <2>2 DEF Files
  <2> QED BY <2>3 DEF n, v
<1>8. /\ user' \in Users /\ user'.edit = user.edit + 1 /\ user'.orig = user.orig
      /\ user'.touched = IF own THEN "own" ELSE user.touched
  <2> DEFINE n == user.edit + 1
             v == IF own THEN "own" ELSE user.touched
  <2>1. user' = [user EXCEPT !.edit = n, !.touched = v]
    BY <1>3
  <2>2. n \in Nat /\ v \in {"no", "own", "gone"}
    BY <1>1 DEF Users
  <2> HIDE DEF n, v
  <2>3. user' \in Users /\ user'.edit = n /\ user'.orig = user.orig /\ user'.touched = v
    BY <1>1, <2>1, <2>2 DEF Users
  <2> QED BY <2>3 DEF n, v
<1>9. user'.edit + left'["edits"] <= MaxEdits
  BY <1>1, <1>5, <1>8, OpenClawAssumption DEF Users
<1> QED BY <1>4, <1>5, <1>7, <1>8, <1>9

\* A step of the user keeps the types.
LEMMA OwnerTypes ==
  ASSUME TypeInv, UNCHANGED <<durable, gw, pc, mem>>, claim' \in Files \cup {None}, file' \in Files \cup {None},
         user' \in Users, user'.edit + left'["edits"] <= MaxEdits,
         left' \in [{"commands", "kills", "faults", "edits"} -> Nat]
  PROVE  TypeInv'
<1>1. DataInv'
  BY DEF TypeInv, DataInv, TypeOK, durable
<1>2. Noted
  BY DEF Noted, TypeInv, PlaceInv
<1> QED BY <1>1, <1>2, WorldPlace DEF TypeInv

\* Types over a save of the user's.
LEMMA SaveTypes == ASSUME TypeInv, Save PROVE TypeInv'
<1>1. UNCHANGED <<durable, gw, pc, mem>> /\ claim' = claim /\ claim \in Files \cup {None}
  BY TypesOfState DEF Save, TypeInv
<1> QED BY <1>1, SaveFacts, OwnerTypes

\* Types over the user removing the file.
LEMMA RemoveTypes == ASSUME TypeInv, Remove PROVE TypeInv'
<1>1. UNCHANGED <<durable, gw, pc, mem>> /\ claim' = claim /\ claim \in Files \cup {None}
      /\ file' = None /\ Spend("edits") /\ user' = [user EXCEPT !.touched = "gone"]
      /\ user \in Users /\ user.edit + left["edits"] <= MaxEdits /\ DataInv
  BY TypesOfState DEF Remove, TypeInv, DataInv
<1>2. user' \in Users /\ user'.edit = user.edit
  BY <1>1 DEF Users
<1>3. left' \in [{"commands", "kills", "faults", "edits"} -> Nat] /\ left'["edits"] <= left["edits"]
  BY <1>1, SpendOutside
<1>4. user'.edit + left'["edits"] <= MaxEdits
  BY <1>1, <1>2, <1>3, OpenClawAssumption DEF Users, DataInv
<1> QED BY <1>1, <1>2, <1>3, <1>4, OwnerTypes

\* Every step keeps the types.
LEMMA StepTypes == TypeInv /\ JournalInv /\ [Next]_vars => TypeInv'
<1> SUFFICES ASSUME TypeInv, JournalInv, [Next]_vars PROVE TypeInv'
  OBVIOUS
<1>1. CASE UNCHANGED vars
  <2>1. UNCHANGED <<store, rec, entry, file, claim, gw, pc, mem, user, left>>
    BY <1>1 DEF vars, durable, files
  <2>2. Cur' = Cur /\ Exchange' = Exchange
    BY <2>1 DEF Cur, Exchange
  <2> QED BY <2>1, <2>2 DEF TypeInv, DataInv, PlaceInv, TypeOK
<1>2. ASSUME NEW cand \in Settings, Plan(cand) PROVE TypeInv'
  BY <1>2, PlanTypes
<1>3. CASE Process
  BY <1>3, ValidateTypes, BaselineTypes, TakeTypes, PublishTypes, RetireTypes, ApplyEntryTypes,
     PreparedTypes, PendingTypes, ExpectTypes, ObserveTypes, ConfirmTypes, RestartTypes, WaitTypes,
     CommitTypes, ReleaseTypes, DropTypes, RestoreTypes, ForgetTypes, AppliedTypes, FailedTypes,
     UndoTypes, UndoingTypes, AbsentTypes, FinalTypes, UndoneTypes, Zenon DEF Process
<1>4. CASE Recover \/ Kill \/ Save \/ Remove
  BY <1>4, RecoverTypes, KillTypes, SaveTypes, RemoveTypes
<1>5. ASSUME NEW t \in Targets,
             JobDone(t) \/ StartStop(t) \/ Apply(t) \/ ChannelRestart(t) \/ Uninstall(t)
      PROVE  TypeInv'
  BY <1>5, JobDoneTypes, StartStopTypes, ApplyTypes, ChannelRestartTypes, UninstallTypes
<1> QED BY <1>1, <1>2, <1>3, <1>4, <1>5 DEF Next

-----------------------------------------------------------------------------
(* The journal: what a step of the process leaves.                         *)

\* An entry belongs to the gateways of the command.
Within(e) == e # None => BeforeTargets \subseteq e.targets /\ e.targets \subseteq rec.targets

UnitsStay == \A t \in Targets : ~gw[t].unit => ~gw'[t].unit

\* The record stays what it is as long as it is not written.
LEMMA RecordStays ==
  ASSUME TypeInv, JournalInv, store' = store, rec' = rec, UnitsStay
  PROVE  RecordInv' /\ BeforeTargets' = BeforeTargets
<1>1. RecordInv
  BY DEF JournalInv
<1>2. BeforeTargets' = BeforeTargets
  BY DEF BeforeTargets
<1>3. rec # None => rec.skip \in SUBSET Targets
  BY DEF TypeInv, DataInv, TypeOK, Records
<1> QED BY <1>1, <1>2, <1>3 DEF RecordInv, UnitsStay, Clean

\* The journal, from its part for the mode.
LEMMA JournalFrom ==
  ASSUME TypeInv, JournalInv, rec # None, store' = store, rec' = rec, UnitsStay,
         pc' \notin {"validate", "baseline"}, Within(entry'),
         mem'.mode = "apply" => ApplyInv', mem'.mode = "release" => ReleaseInv',
         mem'.mode = "undo" => UndoInv'
  PROVE  JournalInv'
BY RecordStays DEF JournalInv, Within

\* A process that ends promises nothing.
LEMMA ExitJournal ==
  ASSUME TypeInv, JournalInv, rec # None, store' = store, rec' = rec, UnitsStay, Within(entry'), Exit
  PROVE  JournalInv'
<1>1. mem'.mode = None /\ pc' = "idle"
  BY DEF Exit, Fresh
<1> QED BY <1>1, JournalFrom, SentinelAssumption

\* A command that has failed promises nothing of the entry, but that it is there.
LEMMA BrokenJournal ==
  ASSUME TypeInv, JournalInv, rec # None, store' = store, rec' = rec, UnitsStay, Within(entry'),
         mem'.mode = mem.mode, mem'.err # "none",
         mem.mode = "apply" => /\ pc' \in {"pending", "entry", "expect", "applied", "failed"}
                               /\ (rec.before # None => entry' # None),
         mem.mode = "release" => pc' \in {"expect", "applied", "failed"},
         mem.mode = "undo" => pc' = "undone",
         pc' \notin {"validate", "baseline"}
  PROVE  JournalInv'
<1>1. mem'.mode = "apply" => ApplyInv'
  BY DEF ApplyInv
<1>2. mem'.mode = "release" => ReleaseInv'
  BY DEF ReleaseInv, Swapping
<1>3. mem'.mode = "undo" => UndoInv'
  BY DEF UndoInv, Swapping
<1> QED BY <1>1, <1>2, <1>3, JournalFrom

\* Where a failed exchange leads.
LEMMA SwapFailedMoves ==
  ASSUME TypeInv, Working, SwapFailed
  PROVE  /\ mem'.mode = mem.mode /\ mem'.err # "none"
         /\ mem.mode = "apply" => pc' \in {"pending", "entry"}
         /\ mem.mode = "release" => pc' = "applied"
         /\ mem.mode = "undo" => pc' = "undone"
         /\ pc' \in {"pending", "entry", "applied", "undone"}
<1>1. mem \in Memory /\ mem.mode \in {"apply", "release", "undo"}
  BY WorkingFacts
<1>2. CASE mem.mode = "apply"
  BY <1>1, <1>2, WorseType DEF SwapFailed, Memory
<1>3. CASE mem.mode = "release"
  BY <1>1, <1>3, WorseType DEF SwapFailed, Memory
<1>4. CASE mem.mode = "undo"
  BY <1>1, <1>4 DEF SwapFailed, Memory
<1> QED BY <1>1, <1>2, <1>3, <1>4

\* The journal over a failed exchange.
LEMMA SwapFailedJournal ==
  ASSUME TypeInv, JournalInv, Working, SwapFailed, store' = store, rec' = rec, UnitsStay,
         Within(entry'), mem.mode = "apply" /\ rec.before # None => entry' # None
  PROVE  JournalInv'
<1>1. rec # None
  BY WorkingFacts
<1> QED BY <1>1, SwapFailedMoves, BrokenJournal

\* Where a failed target leads.
LEMMA FailMoves ==
  ASSUME TypeInv, Working, NEW e \in {"failed", "unsettled"}, Fail(e)
  PROVE  \/ Exit /\ mem.mode = "undo"
         \/ /\ mem'.mode = mem.mode /\ mem'.err # "none"
            /\ mem.mode \in {"apply", "release"} => pc' \in {"expect", "applied"}
            /\ mem.mode = "undo" => pc' = "undone"
            /\ pc' \in {"expect", "applied", "undone"}
<1>1. mem \in Memory /\ mem.mode \in {"apply", "release", "undo"}
  BY WorkingFacts
<1>2. CASE mem.mode = "undo"
  BY <1>1, <1>2 DEF Fail, Memory
<1>3. CASE mem.mode # "undo"
  BY <1>1, <1>3, WorseType DEF Fail, Memory
<1> QED BY <1>2, <1>3

\* The journal over a failed target.
LEMMA FailJournal ==
  ASSUME TypeInv, JournalInv, Working, NEW e \in {"failed", "unsettled"}, Fail(e),
         store' = store, rec' = rec, UnitsStay,
         Within(entry'), mem.mode = "apply" /\ rec.before # None => entry' # None
  PROVE  JournalInv'
<1>1. rec # None
  BY WorkingFacts
<1> QED BY <1>1, FailMoves, BrokenJournal, ExitJournal

\* The entry is within the record.
LEMMA SameEntryWithin ==
  ASSUME JournalInv, rec # None
  PROVE  /\ Within(entry) /\ (mem.mode = "apply" /\ rec.before # None => entry # None)
         /\ Within(None)
BY DEF JournalInv, Within, ApplyInv

\* Processes leave the units alone.
LEMMA SameUnits == gw' = gw => UnitsStay
BY DEF UnitsStay

\* While the world moves, the journal stays what it is.
LEMMA WorldJournal ==
  ASSUME TypeInv, JournalInv, Noted, UNCHANGED <<durable, pc>>, UnitsStay
  PROVE  JournalInv'
<1>1. /\ store' = store /\ rec' = rec /\ entry' = entry /\ pc' = pc /\ Cur' = Cur
      /\ mem'.mode = mem.mode /\ mem'.todo = mem.todo /\ mem'.failed = mem.failed
      /\ mem'.err = mem.err
  BY DEF durable, Noted, Cur
<1>2. RecordInv' /\ BeforeTargets' = BeforeTargets
  BY <1>1, RecordStays
<1>3. (ApplyInv => ApplyInv') /\ (ReleaseInv => ReleaseInv') /\ (UndoInv => UndoInv')
  <2>2. ApplyInv => ApplyInv'
    BY <1>1, <1>2 DEF ApplyInv, Ready, Clean
  <2>3. ReleaseInv => ReleaseInv'
    BY <1>1 DEF ReleaseInv
  <2>4. UndoInv => UndoInv'
    BY <1>1 DEF UndoInv, Announced
  <2> QED BY <2>2, <2>3, <2>4
<1> QED BY <1>1, <1>2, <1>3 DEF JournalInv, Clean

\* The journal over the initial states.
LEMMA InitJournal == Init => JournalInv
<1> SUFFICES ASSUME Init PROVE JournalInv
  OBVIOUS
<1>1. rec = None /\ entry = None /\ ~store.on /\ mem.mode = None /\ pc = "idle"
  BY DEF Init, Off, Fresh
<1> QED BY <1>1, SentinelAssumption DEF JournalInv, RecordInv, Clean

\* The journal over the plan.
LEMMA PlanJournal ==
  ASSUME TypeInv, JournalInv, NEW cand \in Settings, Plan(cand)
  PROVE  JournalInv'
<1>1. /\ pc = "idle" /\ rec = None /\ cand # store /\ Plannable(cand)
      /\ rec' = [cand |-> cand, seen |-> file, before |-> entry, targets |-> Involved(cand),
                 value |-> file.proxy, allowed |-> cand.proxy,
                 skip |-> {t \in Involved(cand) : ~Valid(t)}]
      /\ pc' = "validate" /\ mem' = [Fresh EXCEPT !.mode = "apply"]
      /\ store' = store /\ entry' = entry /\ gw' = gw /\ file' = file
  BY DEF Plan, files
<1>2. rec' # None /\ Clean(entry, store)
  <2>1. TypeInv'
    BY PlanTypes
  <2> QED BY <1>1, <2>1 DEF TypeInv, PlaceInv, JournalInv
<1>3. /\ rec'.cand = cand /\ rec'.seen = file /\ rec'.before = entry /\ rec'.targets = Involved(cand)
      /\ rec'.value = file.proxy /\ rec'.allowed = cand.proxy
      /\ \A t \in rec'.skip : ~Valid(t)
  BY <1>1
<1>4. BeforeTargets' = IF entry = None THEN {} ELSE entry.targets
  BY <1>3 DEF BeforeTargets
<1>5. rec'.targets = cand.sel \cup BeforeTargets' /\ rec'.targets # {}
  <2>1. cand.sel = {} => cand = Off
    BY DEF Settings, Off
  <2>2. entry = None => store = Off
    BY <1>2 DEF Clean, Settings, Off, TypeInv, DataInv, TypeOK
  <2>3. entry # None => entry.targets # {}
    BY TypesOfState DEF Sound, TypeInv
  <2> QED BY <1>1, <1>3, <1>4, <2>1, <2>2, <2>3 DEF Involved
<1>6. cand.on => BeforeTargets' \subseteq cand.sel
  BY <1>1, <1>4 DEF Plannable, WholeGroup, Settings
<1>7. entry # None => file.proxy = entry.managed
  BY <1>1 DEF Plannable
<1>8. RecordInv'
  BY <1>1, <1>2, <1>3, <1>4, <1>5, <1>6, <1>7 DEF RecordInv, Valid, Clean
<1>9. mem'.mode = "apply" /\ mem'.err = "none" /\ mem'.failed = {}
  BY <1>1 DEF Fresh
<1>10. ApplyInv'
  BY <1>1, <1>3, <1>9 DEF ApplyInv, Swapping, Loop
<1> QED BY <1>1, <1>2, <1>3, <1>4, <1>5, <1>8, <1>9, <1>10, SentinelAssumption DEF JournalInv

\* The journal over the second validation.
LEMMA ValidateJournal == ASSUME TypeInv, JournalInv, Validate PROVE JournalInv'
<1>1. /\ pc = "validate" /\ rec # None /\ rec' = rec /\ store' = store /\ entry' = entry /\ gw' = gw
      /\ mem.mode = "apply" /\ mem \in Memory /\ mem.err = "none"
  BY DEF Validate, durable, TypeInv, PlaceInv
<1>2. UnitsStay /\ RecordInv' /\ BeforeTargets' = BeforeTargets /\ Within(entry)
      /\ (rec.before # None => entry # None)
  BY <1>1, SameUnits, RecordStays, SameEntryWithin
<1>3. CASE /\ entry = rec.before
           /\ pc' = "baseline" /\ mem' = [mem EXCEPT !.mode = IF rec.cand.on THEN "apply" ELSE "release"]
  <2>1. /\ mem'.mode = (IF rec.cand.on THEN "apply" ELSE "release") /\ mem'.err = "none"
        /\ mem'.failed = mem.failed
    BY <1>1, <1>3 DEF Memory
  <2>2. mem.failed = {}
    BY <1>1 DEF JournalInv, ApplyInv
  <2>3. ApplyInv'
    BY <1>1, <1>2, <1>3, <2>1, <2>2 DEF ApplyInv, Swapping, Loop
  <2>4. ReleaseInv'
    BY <1>3 DEF ReleaseInv, Swapping
  <2> QED BY <1>1, <1>2, <1>3, <2>1, <2>3, <2>4 DEF JournalInv, Within
<1>4. CASE pc' = "failed" /\ mem' = [mem EXCEPT !.err = "failed"]
  <2>1. mem'.mode = mem.mode /\ mem'.err # "none"
    BY <1>1, <1>4 DEF Memory
  <2> QED BY <1>1, <1>2, <1>4, <2>1, BrokenJournal
<1> QED BY <1>3, <1>4 DEF Validate

\* The journal over the look at the gateways.
LEMMA BaselineJournal == ASSUME TypeInv, JournalInv, Baseline PROVE JournalInv'
<1>1. /\ pc = "baseline" /\ rec # None /\ rec' = rec /\ store' = store /\ entry' = entry /\ gw' = gw
      /\ mem.mode \in {"apply", "release"} /\ mem \in Memory /\ mem.err = "none"
      /\ entry = rec.before
  BY DEF Baseline, durable, TypeInv, PlaceInv, JournalInv
<1>2. UnitsStay /\ BeforeTargets' = BeforeTargets /\ Within(entry)
      /\ (mem.mode = "apply" /\ rec.before # None => entry # None)
  BY <1>1, SameUnits, RecordStays, SameEntryWithin
<1>3. /\ mem'.mode = mem.mode /\ mem'.err = "none" /\ mem'.todo = rec.targets
      /\ mem'.failed = mem.failed
  BY <1>1 DEF Baseline, Memory
<1>4. pc' = IF mem.mode = "release" THEN "release" ELSE "entry"
  BY DEF Baseline
<1>5. mem.mode = "apply" => ApplyInv'
  <2>1. mem.mode = "apply" => mem.failed = {}
    BY <1>1 DEF JournalInv, ApplyInv
  <2>2. rec'.targets \ mem'.todo = {}
    BY <1>1, <1>3
  <2>3. Ready(entry, rec.targets \ mem.todo)'
    BY <1>1, <2>2 DEF Ready
  <2> QED BY <1>1, <1>2, <1>3, <1>4, <2>1, <2>3 DEF ApplyInv, Swapping, Loop
<1>6. mem.mode = "release" => ReleaseInv'
  BY <1>1, <1>4 DEF ReleaseInv, Swapping
<1> QED BY <1>1, <1>2, <1>3, <1>4, <1>5, <1>6, JournalFrom

\* The next gateway of the first loop.
LEMMA NextTargetJournal ==
  ASSUME TypeInv, JournalInv, pc \in {"entry", "prepared"}, NextTarget,
         store' = store, rec' = rec, UnitsStay, Within(entry'),
         rec.before # None => entry' # None,
         mem.err = "none" => Ready(entry', (rec.targets \ mem.todo) \cup {Cur})
  PROVE  JournalInv'
<1>1. /\ rec # None /\ mem.mode = "apply" /\ mem \in Memory /\ Working
      /\ BeforeTargets' = BeforeTargets
  BY RecordStays, WorkingFacts DEF TypeInv, PlaceInv, Working
<1>2. Cur \in mem.todo /\ mem.todo \subseteq rec.targets
  BY CurIsTarget DEF Looping, AtTarget, TypeInv, PlaceInv
<1>3. /\ mem'.mode = mem.mode /\ mem'.err = mem.err /\ mem'.failed = mem.failed
      /\ mem'.todo = mem.todo \ {Cur}
      /\ pc' = IF mem.todo = {Cur} THEN "pending" ELSE "entry"
  BY <1>1 DEF NextTarget, Memory
<1>4. rec.targets \ mem'.todo = (rec.targets \ mem.todo) \cup {Cur}
  BY <1>2, <1>3
<1>5. mem.todo = {Cur} => (rec.targets \ mem.todo) \cup {Cur} = rec.targets
  BY <1>2
<1>6. mem.err = "none" => mem.failed = {}
  BY <1>1 DEF JournalInv, ApplyInv
<1>8. ApplyInv'
  <2>1. mem.err = "none" => (pc' = "entry" => Ready(entry, rec.targets \ mem.todo)')
    BY <1>1, <1>3, <1>4 DEF Ready
  <2>2. mem.err = "none" => (pc' = "pending" => Ready(entry, rec.targets)')
    BY <1>1, <1>3, <1>5 DEF Ready
  <2> QED BY <1>1, <1>3, <1>6, <2>1, <2>2 DEF ApplyInv, Swapping, Loop
<1> QED BY <1>1, <1>3, <1>8, JournalFrom

\* The journal over a gateway that is prepared.
LEMMA PreparedJournal == ASSUME TypeInv, JournalInv, Prepared PROVE JournalInv'
<1>1. /\ pc = "prepared" /\ NextTarget /\ rec # None /\ mem.mode = "apply"
      /\ store' = store /\ rec' = rec /\ entry' = entry /\ gw' = gw
  BY DEF Prepared, durable, TypeInv, PlaceInv
<1>2. mem.err = "none" => Ready(entry, (rec.targets \ mem.todo) \cup {Cur})
  BY <1>1 DEF JournalInv, ApplyInv
<1>3. Within(entry') /\ (rec.before # None => entry' # None) /\ UnitsStay
  BY <1>1, SameEntryWithin, SameUnits
<1> QED BY <1>1, <1>2, <1>3, NextTargetJournal

\* The exchange begins, or the value is there already.
LEMMA SetProxyMoves ==
  ASSUME mem \in Memory, NEW v, NEW p, SetProxy(v, p)
  PROVE  /\ mem'.mode = mem.mode /\ mem'.err = mem.err /\ mem'.todo = mem.todo
         /\ mem'.failed = mem.failed /\ pc' \in {p, "take"}
         /\ pc' = p /\ p # "take" => mem' = mem /\ file.proxy = v
BY DEF SetProxy, Memory

\* The journal over the start of the exchange.
LEMMA SetProxyPrepared ==
  ASSUME TypeInv, JournalInv, pc = "entry", SetProxy(rec.cand.proxy, "prepared"),
         store' = store, rec' = rec, UnitsStay, Within(entry'), entry' # None,
         mem.err = "none" => Ready(entry', (rec.targets \ mem.todo) \cup {Cur})
  PROVE  JournalInv'
<1>1. /\ rec # None /\ mem.mode = "apply" /\ mem \in Memory /\ BeforeTargets' = BeforeTargets
  BY RecordStays DEF TypeInv, PlaceInv
<1>2. /\ mem'.mode = mem.mode /\ mem'.err = mem.err /\ mem'.todo = mem.todo
      /\ mem'.failed = mem.failed /\ pc' \in {"prepared", "take"}
  BY <1>1, SetProxyMoves
<1>3. mem.err = "none" => mem.failed = {}
  BY <1>1 DEF JournalInv, ApplyInv
<1>4. Cur' = Cur
  BY <1>2 DEF Cur
<1>5. mem.err = "none" => Ready(entry, (rec.targets \ mem.todo) \cup {Cur})'
  BY <1>1, <1>2, <1>4 DEF Ready
<1>6. ApplyInv'
  BY <1>1, <1>2, <1>3, <1>5 DEF ApplyInv, Swapping, Loop
<1> QED BY <1>1, <1>2, <1>6, JournalFrom

\* The before-image is one at rest.
LEMMA BeforeIsClean ==
  ASSUME JournalInv, rec # None, rec.before # None
  PROVE  rec.before.phase = "active" /\ rec.before.ptargets = {} /\ rec.before.pending = None
BY DEF JournalInv, RecordInv, Clean

\* The journal over the announcement of an apply.
LEMMA ApplyEntryJournal == ASSUME TypeInv, JournalInv, ApplyEntry PROVE JournalInv'
<1> DEFINE t == Cur
           c == rec.cand.proxy
           P == rec.targets \ mem.todo
           Q == P \cup {t}
<1>1. /\ pc = "entry" /\ rec # None /\ mem.mode = "apply" /\ Working /\ mem \in Memory
      /\ store' = store /\ rec' = rec /\ gw' = gw /\ UnitsStay
  BY SameUnits, WorkingFacts DEF ApplyEntry, Working, TypeInv, PlaceInv
<1>2. t \in mem.todo /\ t \in rec.targets /\ t \notin P /\ c \in Proxies /\ c # None
  BY <1>1, CurIsTarget, WorkingFacts, OpenClawAssumption DEF Looping, AtTarget
<1>3. /\ Within(entry) /\ (rec.before # None => entry # None) /\ Sound(entry)
      /\ (mem.err = "none" => Ready(entry, P))
  BY <1>1, SameEntryWithin, TypesOfState DEF JournalInv, ApplyInv, TypeInv
<1>4. CASE SwapFailed /\ UNCHANGED entry
  BY <1>1, <1>3, <1>4, SwapFailedJournal
<1>5. ASSUME NEW e, e # None, Within(e), SaveEntry(e, SetProxy(c, "prepared"), SwapFailed),
             mem.err = "none" => Ready(e, Q)
      PROVE  JournalInv'
  <2>1. CASE entry' = e /\ SetProxy(c, "prepared")
    BY <1>1, <1>3, <1>5, <2>1, SetProxyPrepared
  <2>2. CASE entry' \in {entry, e} /\ SwapFailed
    BY <1>1, <1>3, <1>5, <2>2, SwapFailedJournal
  <2> QED BY <1>5, <2>1, <2>2 DEF SaveEntry
<1>6. CASE ~Valid(t) \/ file = None
  BY <1>4, <1>6 DEF ApplyEntry
<1>7. CASE ~(~Valid(t) \/ file = None) /\ entry = None
  <2> DEFINE e == Entry(file.proxy, c, c, {t}, {t}, "prepared")
  <2>1. SaveEntry(e, SetProxy(c, "prepared"), SwapFailed)
    BY <1>7 DEF ApplyEntry
  <2>2. e.targets = {t} /\ e.pending = c /\ e.phase = "prepared"
    BY DEF Entry
  <2>3. e # None
    <3>1. file \in Files
      BY <1>7, TypesOfState DEF TypeInv
    <3>2. file.proxy \in Values /\ t \in Targets
      BY <1>1, <3>1, CurIsTarget DEF Files, Looping, AtTarget
    <3> QED BY <1>2, <3>2, SentinelAssumption DEF Entry, Entries
  <2> HIDE DEF e
  <2>4. rec.before = None /\ BeforeTargets = {}
    BY <1>3, <1>7 DEF BeforeTargets
  <2>5. mem.err = "none" => P = {}
    BY <1>3, <1>7, <2>4 DEF Ready
  <2>6. Within(e)
    BY <1>2, <2>2, <2>4 DEF Within
  <2>7. mem.err = "none" => Ready(e, Q)
    BY <2>2, <2>3, <2>4, <2>5 DEF Ready
  <2> QED BY <1>5, <2>1, <2>3, <2>6, <2>7
<1>8. CASE ~(~Valid(t) \/ file = None) /\ entry # None
  <2>1. entry \in Entries /\ BeforeTargets \subseteq entry.targets /\ entry.targets \subseteq rec.targets
    BY <1>3, <1>8 DEF Sound, Within
  <2>2. /\ rec.before # None => rec.before.phase = "active"
        /\ rec.before # None => BeforeTargets = rec.before.targets
    BY <1>1, BeforeIsClean DEF BeforeTargets
  <2>3. CASE ~Acceptable
    BY <1>4, <1>8, <2>3 DEF ApplyEntry
  <2>4. CASE Acceptable /\ entry.phase = "active" /\ entry.managed = c /\ t \in entry.targets
    <3>1. NextTarget /\ entry' = entry
      BY <1>8, <2>4 DEF ApplyEntry
    <3>2. mem.err = "none" => Ready(entry, Q)
      BY <1>3, <1>8, <2>2, <2>4 DEF Ready
    <3> QED BY <1>1, <1>3, <3>1, <3>2, NextTargetJournal
  <2>5. CASE Acceptable /\ entry.phase = "active" /\ entry.managed = c /\ t \notin entry.targets
    <3> DEFINE e == [entry EXCEPT !.targets = @ \cup {t}, !.ptargets = {t}, !.pending = c,
                                  !.phase = "prepared"]
    <3>1. SaveEntry(e, NextTarget, SwapFailed)
      BY <1>8, <2>5 DEF ApplyEntry
    <3>2. /\ e.targets = entry.targets \cup {t} /\ e.pending = c /\ e.phase = "prepared"
      BY <2>1 DEF Entries
    <3>3. e # None
      <4>1. entry.targets \cup {t} \in SUBSET Targets /\ {t} \in SUBSET Targets
        BY <1>1, <2>1, CurIsTarget DEF Entries, Looping, AtTarget
      <4>2. e \in Entries
        BY <1>2, <2>1, <4>1 DEF Entries
      <4> QED BY <4>2, SentinelAssumption
    <3> HIDE DEF e
    <3>4. Within(e)
      BY <1>2, <2>1, <3>2 DEF Within
    <3>5. mem.err = "none" => Ready(e, Q)
      <4> SUFFICES ASSUME mem.err = "none" PROVE Ready(e, Q)
        OBVIOUS
      <4>1. entry = rec.before /\ P \subseteq BeforeTargets
        BY <1>3, <2>5 DEF Ready
      <4>2. BeforeTargets = entry.targets
        BY <1>8, <2>2, <4>1
      <4>3. t \in Q /\ t \notin BeforeTargets /\ BeforeTargets \cup Q = entry.targets \cup {t}
        BY <2>5, <4>1, <4>2
      <4> HIDE DEF Q
      <4> QED BY <3>2, <3>3, <4>3 DEF Ready
    <3>6. CASE entry' = e /\ NextTarget
      BY <1>1, <3>3, <3>4, <3>5, <3>6, NextTargetJournal
    <3>7. CASE entry' \in {entry, e} /\ SwapFailed
      BY <1>1, <1>3, <3>3, <3>4, <3>7, SwapFailedJournal
    <3> QED BY <3>1, <3>6, <3>7 DEF SaveEntry
  <2>6. CASE Acceptable /\ ~(entry.phase = "active" /\ entry.managed = c)
    <3> DEFINE ts == entry.targets \cup {t}
               e  == [entry EXCEPT !.targets = ts, !.ptargets = ts, !.pending = c,
                                   !.phase = "prepared"]
    <3>1. SaveEntry(e, SetProxy(c, "prepared"), SwapFailed)
      BY <1>8, <2>6 DEF ApplyEntry
    <3>2. ts \in SUBSET Targets
      BY <1>1, <2>1, CurIsTarget DEF Entries, Looping, AtTarget
    <3> HIDE DEF ts
    <3>3. e \in Entries /\ e.targets = ts /\ e.pending = c /\ e.phase = "prepared"
      BY <1>2, <2>1, <3>2 DEF Entries
    <3>4. e # None
      BY <3>3, SentinelAssumption
    <3> HIDE DEF e
    <3>5. Within(e)
      BY <1>2, <2>1, <3>3 DEF Within, ts
    <3>6. mem.err = "none" => Ready(e, Q)
      <4> SUFFICES ASSUME mem.err = "none" PROVE Ready(e, Q)
        OBVIOUS
      <4>1. CASE P = {} \/ (rec.before # None /\ P \subseteq BeforeTargets /\ rec.before.managed = c)
        <5>1. entry = rec.before /\ P = {} /\ rec.before.managed # c
          BY <1>3, <1>8, <2>2, <2>6, <4>1 DEF Ready
        <5> QED BY <2>2, <3>3, <3>4, <5>1, <1>8 DEF Ready, ts
      <4>2. CASE ~(P = {} \/ (rec.before # None /\ P \subseteq BeforeTargets /\ rec.before.managed = c))
        <5>1. entry.targets = BeforeTargets \cup P
          BY <1>3, <4>2 DEF Ready
        <5> QED BY <3>3, <3>4, <4>2, <5>1 DEF Ready, ts
      <4> QED BY <4>1, <4>2
    <3> QED BY <1>5, <3>1, <3>4, <3>5, <3>6
  <2> QED BY <2>3, <2>4, <2>5, <2>6
<1> QED BY <1>6, <1>7, <1>8

\* The journal over the choice of what is reconciled.
LEMMA PendingJournal == ASSUME TypeInv, JournalInv, Pending PROVE JournalInv'
<1>1. /\ pc = "pending" /\ rec # None /\ mem.mode = "apply" /\ mem \in Memory
      /\ store' = store /\ rec' = rec /\ entry' = entry /\ gw' = gw /\ Working
      /\ rec.targets # {} /\ Sound(entry) /\ rec.cand.on /\ rec.cand.proxy # None
      /\ rec.cand \in Settings
  BY WorkingFacts, TypesOfState, OpenClawAssumption
  DEF Pending, durable, TypeInv, PlaceInv, Working, JournalInv, RecordInv, Records
<1>2. /\ UnitsStay /\ Within(entry) /\ BeforeTargets' = BeforeTargets
      /\ (rec.before # None => entry # None)
  BY <1>1, SameUnits, SameEntryWithin, RecordStays
<1> DEFINE act == (IF entry = None THEN {} ELSE entry.ptargets) \ mem.failed
<1>3. \/ pc' = (IF act = {} THEN "applied" ELSE "expect") /\ mem' = [mem EXCEPT !.todo = act]
      \/ pc' = "applied" /\ mem' = [mem EXCEPT !.err = Worse("failed")]
  BY DEF Pending
<1>4. CASE pc' = (IF act = {} THEN "applied" ELSE "expect") /\ mem' = [mem EXCEPT !.todo = act]
  <2>1. mem'.mode = mem.mode /\ mem'.todo = act /\ mem'.err = mem.err /\ mem'.failed = mem.failed
    <3> HIDE DEF act
    <3> QED BY <1>1, <1>4 DEF Memory
  <2>2. mem.err = "none" => /\ entry # None /\ act = entry.ptargets /\ act # {}
                            /\ entry.phase = "prepared" /\ entry.pending = rec.cand.proxy
                            /\ entry.targets = rec.targets /\ mem.failed = {}
    <3> SUFFICES ASSUME mem.err = "none"
                 PROVE  /\ entry # None /\ act = entry.ptargets /\ act # {}
                        /\ entry.phase = "prepared" /\ entry.pending = rec.cand.proxy
                        /\ entry.targets = rec.targets /\ mem.failed = {}
      OBVIOUS
    <3>1. Ready(entry, rec.targets) /\ mem.failed = {}
      BY <1>1 DEF JournalInv, ApplyInv
    <3>2. ~(rec.before # None /\ rec.targets \subseteq BeforeTargets /\ rec.before.managed = rec.cand.proxy)
      <4> SUFFICES ASSUME rec.before # None, rec.targets \subseteq BeforeTargets,
                          rec.before.managed = rec.cand.proxy
                   PROVE  FALSE
        OBVIOUS
      <4>1. /\ rec.targets = rec.cand.sel \cup BeforeTargets /\ BeforeTargets \subseteq rec.cand.sel
            /\ Clean(rec.before, store) /\ rec.cand # store
        BY <1>1 DEF JournalInv, RecordInv
      <4>2. rec.cand.sel = rec.before.targets
        BY <4>1 DEF BeforeTargets
      <4>3. store.on /\ store.proxy = rec.cand.proxy /\ store.sel = rec.cand.sel
        BY <4>1, <4>2 DEF Clean
      <4>4. store \in Settings
        BY DEF TypeInv, DataInv, TypeOK
      <4>5. \A s \in Settings : s.on => s = [on |-> TRUE, proxy |-> s.proxy, sel |-> s.sel]
        <5> SUFFICES ASSUME NEW s \in Settings, s.on
                     PROVE  s = [on |-> TRUE, proxy |-> s.proxy, sel |-> s.sel]
          OBVIOUS
        <5> DEFINE X == (SUBSET Targets) \ {{}}
        <5>1. s \in [on : {TRUE}, proxy : Proxies, sel : X]
          BY DEF Settings
        <5> HIDE DEF X
        <5> QED BY <5>1
      <4> QED BY <1>1, <4>1, <4>3, <4>4, <4>5
    <3>3. /\ entry # None /\ entry.phase = "prepared" /\ entry.pending = rec.cand.proxy
          /\ entry.targets = BeforeTargets \cup rec.targets
      BY <1>1, <3>1, <3>2 DEF Ready
    <3>4. entry.targets = rec.targets
      BY <1>2, <3>3 DEF Within
    <3> QED BY <1>1, <3>1, <3>3, <3>4 DEF Sound
  <2>3. ApplyInv'
    <3> HIDE DEF act
    <3> QED BY <1>1, <1>2, <1>4, <2>1, <2>2 DEF ApplyInv, Swapping, Loop
  <2> QED BY <1>1, <1>2, <1>4, <2>1, <2>3, JournalFrom
<1>5. CASE pc' = "applied" /\ mem' = [mem EXCEPT !.err = Worse("failed")]
  <2>1. mem'.mode = mem.mode /\ mem'.err # "none"
    BY <1>1, <1>5, WorseType DEF Memory
  <2> QED BY <1>1, <1>2, <1>5, <2>1, BrokenJournal
<1> QED BY <1>3, <1>4, <1>5

\* A step of a loop that moves neither the entry nor what is left to do.
LEMMA LoopJournal ==
  ASSUME TypeInv, JournalInv, Working, pc \in Loop, pc' \in Loop \cup {"absent"},
         store' = store, rec' = rec, entry' = entry, UnitsStay,
         mem'.mode = mem.mode, mem'.todo = mem.todo, mem'.err = mem.err, mem'.failed = mem.failed,
         mem.mode = "undo" => pc \in {"restart", "wait"},
         mem.mode = "undo" \/ pc' # "absent"
  PROVE  JournalInv'
<1>1. rec # None /\ BeforeTargets' = BeforeTargets
  BY RecordStays, WorkingFacts
<1>2. Within(entry) /\ (mem.mode = "apply" /\ rec.before # None => entry # None)
  BY <1>1, SameEntryWithin
<1>3. mem.mode = "apply" => ApplyInv'
  BY <1>1, <1>2 DEF ApplyInv, JournalInv, Swapping, Loop
<1>4. mem.mode = "release" => ReleaseInv'
  BY DEF ReleaseInv, Swapping, Loop
<1>5. mem.mode = "undo" => UndoInv'
  BY <1>1 DEF UndoInv, JournalInv, Swapping, Loop, Announced
<1> QED BY <1>1, <1>2, <1>3, <1>4, <1>5, JournalFrom DEF Loop

\* The journal over a reconciled target.
LEMMA ReconciledJournal ==
  ASSUME TypeInv, JournalInv, pc \in Loop, Reconciled, store' = store, rec' = rec, entry' = entry,
         UnitsStay, mem.mode = "undo" => pc \in {"restart", "wait"}
  PROVE  JournalInv'
<1>1. Working /\ rec # None /\ mem \in Memory /\ mem.mode \in {"apply", "release", "undo"}
      /\ BeforeTargets' = BeforeTargets
  BY WorkingFacts, RecordStays DEF Working, Loop
<1>2. Within(entry) /\ (mem.mode = "apply" /\ rec.before # None => entry # None)
  BY <1>1, SameEntryWithin
<1>3. CASE mem.mode = "apply" \/ (mem.mode = "undo" /\ rec.before # None)
  <2>1. /\ mem'.mode = mem.mode /\ mem'.todo = mem.todo /\ mem'.err = mem.err
        /\ mem'.failed = mem.failed /\ pc' = "commit"
    BY <1>1, <1>3 DEF Reconciled, Memory
  <2> QED BY <1>1, <2>1, LoopJournal DEF Loop
<1>4. CASE ~(mem.mode = "apply" \/ (mem.mode = "undo" /\ rec.before # None))
  <2>1. /\ mem'.mode = mem.mode /\ mem'.err = mem.err
        /\ pc' = IF mem.todo \ {Cur} # {} THEN (IF mem.mode = "undo" THEN "restart" ELSE "expect")
                 ELSE IF mem.mode = "undo" THEN "final"
                 ELSE IF mem.err = "none" THEN "forget" ELSE "applied"
    BY <1>1, <1>4 DEF Reconciled, Memory
  <2>2. mem.mode = "release" => ReleaseInv'
    BY <2>1 DEF ReleaseInv, Swapping
  <2>3. mem.mode = "undo" => UndoInv'
    BY <1>1, <1>4, <2>1 DEF UndoInv, JournalInv, Swapping, Announced
  <2> QED BY <1>1, <1>2, <1>4, <2>1, <2>2, <2>3, JournalFrom
<1> QED BY <1>3, <1>4

\* The journal over the check before an observation.
LEMMA ExpectJournal == ASSUME TypeInv, JournalInv, Expect PROVE JournalInv'
<1>1. /\ pc = "expect" /\ pc \in Loop /\ Working /\ mem.mode \in {"apply", "release"} /\ rec # None
      /\ store' = store /\ rec' = rec /\ entry' = entry /\ gw' = gw /\ mem \in Memory
  BY WorkingFacts DEF Expect, durable, TypeInv, PlaceInv, Working, Loop
<1>2. UnitsStay /\ Within(entry) /\ (mem.mode = "apply" /\ rec.before # None => entry # None)
  BY <1>1, SameUnits, SameEntryWithin
<1>3. CASE Reconciled
  BY <1>1, <1>2, <1>3, ReconciledJournal
<1>4. CASE Goto("restart")
  BY <1>1, <1>2, <1>4, LoopJournal DEF Goto, Loop
<1>5. CASE Fail("failed")
  BY <1>1, <1>2, <1>5, FailJournal
<1>6. CASE pc' = "observe" /\ mem' = [mem EXCEPT !.raw = file]
  <2>1. /\ mem'.mode = mem.mode /\ mem'.todo = mem.todo /\ mem'.err = mem.err
        /\ mem'.failed = mem.failed
    BY <1>1, <1>6 DEF Memory
  <2> QED BY <1>1, <1>2, <1>6, <2>1, LoopJournal DEF Loop
<1> QED BY <1>3, <1>4, <1>5, <1>6 DEF Expect

\* The journal over the observation.
LEMMA ObserveJournal == ASSUME TypeInv, JournalInv, Observe PROVE JournalInv'
<1>1. /\ pc = "observe" /\ pc \in Loop /\ Working /\ mem.mode \in {"apply", "release"} /\ rec # None
      /\ store' = store /\ rec' = rec /\ entry' = entry /\ gw' = gw /\ mem' = mem
      /\ pc' \in {"confirm", "fallback"}
  BY WorkingFacts DEF Observe, durable, TypeInv, PlaceInv, Working, Loop
<1>2. UnitsStay
  BY <1>1, SameUnits
<1> QED BY <1>1, <1>2, LoopJournal DEF Loop

\* The journal over the check after it.
LEMMA ConfirmJournal == ASSUME TypeInv, JournalInv, Confirm PROVE JournalInv'
<1>1. /\ pc \in Loop /\ Working /\ mem.mode \in {"apply", "release"} /\ rec # None
      /\ store' = store /\ rec' = rec /\ entry' = entry /\ gw' = gw
  BY WorkingFacts DEF Confirm, durable, TypeInv, PlaceInv, Working, Loop
<1>2. UnitsStay /\ Within(entry) /\ (mem.mode = "apply" /\ rec.before # None => entry # None)
  BY <1>1, SameUnits, SameEntryWithin
<1>3. CASE Reconciled
  BY <1>1, <1>2, <1>3, ReconciledJournal
<1>4. CASE pc' = "restart" /\ mem' = mem
  BY <1>1, <1>2, <1>4, LoopJournal DEF Loop
<1>5. CASE Fail("failed")
  BY <1>1, <1>2, <1>5, FailJournal
<1> QED BY <1>3, <1>4, <1>5 DEF Confirm

\* The journal over the restart.
LEMMA RestartJournal == ASSUME TypeInv, JournalInv, Restart PROVE JournalInv'
<1>1. /\ pc = "restart" /\ pc \in Loop /\ Working /\ rec # None /\ Cur \in Targets
      /\ store' = store /\ rec' = rec /\ entry' = entry
  BY WorkingFacts, CurIsTarget DEF Restart, durable, Working, Loop, Looping, AtTarget
<1>2. /\ Within(entry) /\ (mem.mode = "apply" /\ rec.before # None => entry # None)
  BY <1>1, SameEntryWithin
<1>3. UnitsStay
  <2>1. gw' = gw \/ gw' = [gw EXCEPT ![Cur].job = TRUE]
    BY DEF Restart
  <2> QED BY <1>1, <2>1, GatewayTypes DEF UnitsStay, TypeInv, DataInv, TypeOK
<1>4. CASE Reconciled
  BY <1>1, <1>3, <1>4, ReconciledJournal
<1>5. CASE Goto("absent") /\ mem.mode = "undo"
  BY <1>1, <1>3, <1>5, LoopJournal DEF Goto
<1>6. CASE \E e \in {"failed", "unsettled"} : Fail(e)
  BY <1>1, <1>2, <1>3, <1>6, FailJournal
<1>7. CASE Goto("wait")
  BY <1>1, <1>3, <1>7, LoopJournal DEF Goto, Loop
<1> QED BY <1>4, <1>5, <1>6, <1>7 DEF Restart

\* The journal over the wait for a restart.
LEMMA WaitJournal == ASSUME TypeInv, JournalInv, Wait PROVE JournalInv'
<1>1. /\ pc = "wait" /\ pc \in Loop /\ Working /\ rec # None
      /\ store' = store /\ rec' = rec /\ entry' = entry /\ gw' = gw
  BY WorkingFacts DEF Wait, durable, Working, Loop
<1>2. UnitsStay /\ Within(entry) /\ (mem.mode = "apply" /\ rec.before # None => entry # None)
  BY <1>1, SameUnits, SameEntryWithin
<1>3. CASE Reconciled
  BY <1>1, <1>2, <1>3, ReconciledJournal
<1>4. CASE \E e \in {"failed", "unsettled"} : Fail(e)
  BY <1>1, <1>2, <1>4, FailJournal
<1> QED BY <1>3, <1>4 DEF Wait

\* One gateway is done: commitOpenClawTelegramProxyApply, and the same for an absent one.
LEMMA CommittedJournal ==
  ASSUME TypeInv, JournalInv, pc \in {"commit", "absent"}, store' = store, rec' = rec, UnitsStay,
         entry # None, entry.phase = "prepared", entry' = Committed(Cur), Advance
  PROVE  JournalInv'
<1>1. /\ rec # None /\ Working /\ mem \in Memory /\ mem.mode \in {"apply", "undo"} /\ Sound(entry)
      /\ (mem.mode = "undo" => rec.before # None) /\ (pc = "absent" => mem.mode = "undo")
      /\ BeforeTargets' = BeforeTargets
  BY WorkingFacts, TypesOfState, RecordStays DEF Working, TypeInv, PlaceInv
<1>2. Cur \in mem.todo /\ Cur \in Targets
  BY CurIsTarget DEF Looping, AtTarget, Loop
<1> DEFINE ps == entry.ptargets \ {Cur}
<1>3. /\ entry' # None /\ entry'.targets = entry.targets /\ entry'.ptargets = ps
      /\ ps # {} => /\ entry'.phase = "prepared" /\ entry'.pending = entry.pending
                    /\ entry'.managed = entry.managed
      /\ ps = {} => /\ entry'.phase = "active" /\ entry'.pending = None
                    /\ entry'.managed = entry.pending
  BY <1>1, <1>2, CommittedEntry
<1>4. /\ mem'.mode = mem.mode /\ mem'.err = mem.err /\ mem'.failed = mem.failed
      /\ mem'.todo = mem.todo \ {Cur}
      /\ pc' = IF mem.mode = "undo" THEN (IF mem.todo \ {Cur} = {} THEN "final" ELSE "restart")
               ELSE IF mem.todo \ {Cur} = {} THEN "applied" ELSE "expect"
  BY <1>1 DEF Advance, Memory
<1>5. Within(entry')
  BY <1>1, <1>3, SameEntryWithin DEF Within
<1>6. CASE mem.mode = "apply"
  <2>1. ApplyInv /\ pc \in Loop /\ rec.cand.on
    BY <1>1, <1>6, WorkingFacts DEF JournalInv, Loop
  <2>2. mem.err = "none" => /\ mem.failed = {} /\ entry.pending = rec.cand.proxy
                            /\ entry.targets = rec.targets /\ ps = mem'.todo
    BY <1>4, <2>1 DEF ApplyInv
  <2>3. rec.targets = rec.cand.sel
    BY <1>1, <2>1 DEF JournalInv, RecordInv
  <2>4. ApplyInv'
    <3> HIDE DEF ps
    <3> QED BY <1>1, <1>3, <1>4, <1>6, <2>1, <2>2, <2>3 DEF ApplyInv, Swapping, Loop, Clean
  <2> QED BY <1>1, <1>4, <1>5, <1>6, <2>4, JournalFrom
<1>7. CASE mem.mode = "undo"
  <2>1. /\ entry.managed = rec.before.managed /\ entry.pending = rec.before.managed
        /\ entry.targets = rec.targets /\ entry.ptargets = mem.todo
    BY <1>1, <1>7 DEF JournalInv, UndoInv, Announced
  <2>2. UndoInv'
    <3>1. ps = mem'.todo
      BY <1>4, <2>1
    <3> HIDE DEF ps
    <3> QED BY <1>1, <1>3, <1>4, <1>7, <2>1, <3>1 DEF UndoInv, Announced, Swapping
  <2> QED BY <1>1, <1>4, <1>5, <1>7, <2>2, JournalFrom
<1> QED BY <1>1, <1>6, <1>7

\* The journal over the commit of a gateway.
LEMMA CommitJournal == ASSUME TypeInv, JournalInv, Commit PROVE JournalInv'
<1>1. /\ pc = "commit" /\ pc \in Loop /\ Working /\ rec # None /\ mem \in Memory
      /\ store' = store /\ rec' = rec /\ gw' = gw
      /\ (mem.mode = "apply" \/ (mem.mode = "undo" /\ rec.before # None))
      /\ Sound(entry)
  BY WorkingFacts, TypesOfState DEF Commit, Working, Loop, TypeInv, PlaceInv
<1>2. UnitsStay /\ Within(entry) /\ (mem.mode = "apply" /\ rec.before # None => entry # None)
  BY <1>1, SameUnits, SameEntryWithin
<1>3. Cur \in mem.todo /\ Cur \in Targets
  BY <1>1, CurIsTarget DEF Looping, AtTarget
<1>4. CASE (entry = None \/ Cur \notin entry.ptargets) /\ Advance /\ entry' = entry
  <2>1. mem.mode = "apply" /\ mem.err # "none"
    BY <1>1, <1>3, <1>4 DEF JournalInv, ApplyInv, UndoInv, Announced
  <2>2. mem'.mode = mem.mode /\ mem'.err = mem.err /\ pc' \in {"applied", "expect"}
    BY <1>1, <1>4, <2>1 DEF Advance, Memory
  <2> QED BY <1>1, <1>2, <1>4, <2>1, <2>2, BrokenJournal
<1>5. CASE Fail("failed") /\ entry' = entry
  BY <1>1, <1>2, <1>5, FailJournal
<1>6. CASE /\ entry # None /\ entry.phase = "prepared"
           /\ SaveEntry(Committed(Cur), Advance, Fail("failed"))
  <2>1. CASE entry' = Committed(Cur) /\ Advance
    BY <1>1, <1>2, <1>6, <2>1, CommittedJournal
  <2>2. CASE entry' \in {entry, Committed(Cur)} /\ Fail("failed")
    <3>1. Committed(Cur) # None /\ Within(Committed(Cur))
      BY <1>1, <1>2, <1>3, <1>6, CommittedEntry DEF Within
    <3> QED BY <1>1, <1>2, <1>6, <2>2, <3>1, FailJournal
  <2> QED BY <1>6, <2>1, <2>2 DEF SaveEntry
<1> QED BY <1>4, <1>5, <1>6 DEF Commit

\* The journal over the commit of a gateway that is gone.
LEMMA AbsentJournal == ASSUME TypeInv, JournalInv, Absent PROVE JournalInv'
<1>1. /\ pc = "absent" /\ Working /\ rec # None /\ mem.mode = "undo"
      /\ store' = store /\ rec' = rec /\ gw' = gw /\ Sound(entry)
  BY WorkingFacts, TypesOfState DEF Absent, Working, Loop, TypeInv, PlaceInv
<1>2. UnitsStay /\ Within(entry)
  BY <1>1, SameUnits, SameEntryWithin
<1>3. Cur \in mem.todo /\ Cur \in Targets
  BY <1>1, CurIsTarget DEF Looping, AtTarget
<1>4. CASE Fail("failed") /\ entry' = entry
  BY <1>1, <1>2, <1>4, FailJournal
<1>5. CASE /\ entry # None /\ entry.phase = "prepared"
           /\ SaveEntry(Committed(Cur), Advance, Fail("failed"))
  <2>1. CASE entry' = Committed(Cur) /\ Advance
    BY <1>1, <1>2, <1>5, <2>1, CommittedJournal
  <2>2. CASE entry' \in {entry, Committed(Cur)} /\ Fail("failed")
    <3>1. Committed(Cur) # None /\ Within(Committed(Cur))
      BY <1>1, <1>2, <1>3, <1>5, CommittedEntry DEF Within
    <3> QED BY <1>1, <1>2, <1>5, <2>2, <3>1, FailJournal
  <2> QED BY <1>5, <2>1, <2>2 DEF SaveEntry
<1> QED BY <1>4, <1>5 DEF Absent

\* A release leaves the entry restoring, or it has failed, or the entry is gone.
LEMMA ReleasingJournal ==
  ASSUME TypeInv, JournalInv, Working, mem.mode = "release", store' = store, rec' = rec, gw' = gw,
         Within(entry'), mem'.mode = "release", mem'.err = mem.err,
         pc' \notin {"validate", "baseline", "release"},
         pc' \in Swapping \cup {"restore"} => entry'.phase = "restoring",
         pc' = "applied" => entry' = None
  PROVE  JournalInv'
<1>1. rec # None /\ UnitsStay
  BY WorkingFacts, SameUnits
<1>2. ReleaseInv'
  BY DEF ReleaseInv
<1> QED BY <1>1, <1>2, JournalFrom

\* The journal over the announcement of a release.
LEMMA ReleaseJournal == ASSUME TypeInv, JournalInv, Release PROVE JournalInv'
<1>1. /\ pc = "release" /\ Working /\ mem.mode = "release" /\ mem \in Memory /\ rec # None
      /\ store' = store /\ rec' = rec /\ gw' = gw /\ Sound(entry) /\ file \in Files \cup {None}
  BY TypesOfState, WorkingFacts DEF Release, Working, TypeInv, PlaceInv
<1>2. UnitsStay /\ Within(entry)
  BY <1>1, SameUnits, SameEntryWithin
<1>3. CASE entry = None
  <2>1. pc' = "applied" /\ mem' = mem /\ entry' = None
    BY <1>3 DEF Release
  <2> QED BY <1>1, <1>2, <1>3, <2>1, ReleasingJournal DEF Swapping
<1>4. CASE SwapFailed /\ entry' = entry
  BY <1>1, <1>2, <1>4, SwapFailedJournal
<1>5. CASE entry # None /\ file # None
  <2> DEFINE o == IF file.proxy = entry.managed THEN entry.orig ELSE file.proxy
             e == [entry EXCEPT !.phase = "restoring", !.pending = None, !.ptargets = {}, !.orig = o]
             G == IF file.proxy = entry.managed /\ file.proxy = entry.orig THEN Goto("drop")
                  ELSE SetProxy(e.orig, "restore")
  <2>1. SaveEntry(e, G, SwapFailed)
    BY <1>5 DEF Release
  <2>2. file \in Files /\ o \in Values
    BY <1>1, <1>5 DEF Files, Sound, Entries
  <2>3. /\ Sound(e) /\ e # None /\ e.orig = o /\ e.phase = "restoring" /\ e.targets = entry.targets
    <3> HIDE DEF o
    <3> QED BY <1>1, <1>5, <2>2, RestoringEntry
  <2>4. Within(e)
    BY <1>2, <1>5, <2>3 DEF Within
  <2>5. CASE entry' = e /\ G
    <3>1. /\ mem'.mode = "release" /\ mem'.err = mem.err /\ pc' \in {"drop", "restore", "take"}
      <4> HIDE DEF e
      <4> QED BY <1>1, <2>5, SetProxyMoves DEF Goto
    <3> HIDE DEF e
    <3> QED BY <1>1, <2>3, <2>4, <2>5, <3>1, ReleasingJournal DEF Swapping
  <2>6. CASE entry' \in {entry, e} /\ SwapFailed
    <3> HIDE DEF e
    <3> QED BY <1>1, <1>2, <2>4, <2>6, SwapFailedJournal
  <2> QED BY <2>1, <2>5, <2>6 DEF SaveEntry
<1> QED BY <1>3, <1>4, <1>5 DEF Release

\* The journal over the end of an entry.
LEMMA DropsJournal ==
  ASSUME TypeInv, JournalInv, pc \in {"drop", "forget"}, UNCHANGED <<store, rec, files, gw, user>>,
         \/ SaveEntry(None, Goto("applied"), SwapFailed)
         \/ SwapFailed /\ Free /\ UNCHANGED entry
         \/ entry = None /\ Goto("applied") /\ Free /\ UNCHANGED entry
  PROVE  JournalInv'
<1>1. /\ Working /\ mem.mode = "release" /\ rec # None /\ mem \in Memory
      /\ store' = store /\ rec' = rec /\ gw' = gw
  BY WorkingFacts DEF Working, TypeInv, PlaceInv
<1>2. UnitsStay /\ Within(entry) /\ Within(None)
  BY <1>1, SameUnits, SameEntryWithin
<1>3. CASE entry' = None /\ Goto("applied")
  BY <1>1, <1>2, <1>3, ReleasingJournal DEF Goto, Swapping
<1>4. CASE entry' \in {entry, None} /\ SwapFailed
  BY <1>1, <1>2, <1>4, SwapFailedJournal
<1> QED BY <1>3, <1>4 DEF SaveEntry

\* The journal over an entry that has nothing to restore.
LEMMA DropJournal == ASSUME TypeInv, JournalInv, Drop PROVE JournalInv'
BY DropsJournal DEF Drop

\* The journal over the end of an entry.
LEMMA ForgetJournal == ASSUME TypeInv, JournalInv, Forget PROVE JournalInv'
BY DropsJournal DEF Forget

\* The journal over the reload of a release.
LEMMA RestoreJournal == ASSUME TypeInv, JournalInv, Restore PROVE JournalInv'
<1>1. /\ pc = "restore" /\ Working /\ mem.mode = "release" /\ rec # None /\ mem \in Memory
      /\ store' = store /\ rec' = rec /\ gw' = gw /\ entry' = entry
  BY WorkingFacts DEF Restore, durable, Working, TypeInv, PlaceInv
<1>2. UnitsStay /\ Within(entry)
  BY <1>1, SameUnits, SameEntryWithin
<1>3. CASE pc' = "expect" /\ mem' = [mem EXCEPT !.todo = entry.targets]
  <2>1. mem'.mode = mem.mode /\ mem'.err = mem.err
    BY <1>1, <1>3 DEF Memory
  <2> QED BY <1>1, <1>2, <1>3, <2>1, ReleasingJournal DEF Swapping
<1>4. CASE SwapFailed
  BY <1>1, <1>2, <1>4, SwapFailedJournal
<1> QED BY <1>3, <1>4 DEF Restore

\* The journal over the end of the forward steps.
LEMMA AppliedJournal == ASSUME TypeInv, JournalInv, Applied PROVE JournalInv'
<1>1. /\ pc = "applied" /\ Working /\ mem.mode \in {"apply", "release"} /\ rec # None
      /\ entry' = entry /\ gw' = gw
      /\ (mem.mode = "apply" => rec.cand.on) /\ (mem.mode = "release" => ~rec.cand.on)
  BY WorkingFacts DEF Applied, Working, TypeInv, PlaceInv
<1>2. UnitsStay /\ Within(entry) /\ (mem.mode = "apply" /\ rec.before # None => entry # None)
  BY <1>1, SameUnits, SameEntryWithin
<1>3. CASE mem.err = "none" /\ store' = rec.cand /\ rec' = None /\ Exit
  <2>1. Clean(entry, rec.cand)
    BY <1>1, <1>3 DEF JournalInv, ApplyInv, ReleaseInv, Clean
  <2>2. mem'.mode = None /\ pc' = "idle"
    BY <1>3 DEF Exit, Fresh
  <2>3. Clean(entry, store)'
    BY <1>1, <1>3, <2>1 DEF Clean
  <2> QED BY <1>3, <2>2, <2>3, SentinelAssumption DEF JournalInv, RecordInv
<1>4. CASE mem.err # "none" /\ pc' = "failed" /\ UNCHANGED <<mem, store, rec>>
  BY <1>1, <1>2, <1>4, BrokenJournal
<1> QED BY <1>3, <1>4 DEF Applied

\* The journal over the start of a compensation.
LEMMA CompensateJournal ==
  ASSUME TypeInv, JournalInv, rec # None, Compensate \/ Exit, UNCHANGED <<durable, gw>>
  PROVE  JournalInv'
<1>1. store' = store /\ rec' = rec /\ entry' = entry /\ UnitsStay
  BY SameUnits DEF durable
<1>2. Within(entry')
  BY <1>1, SameEntryWithin
<1>3. CASE Exit
  BY <1>1, <1>2, <1>3, ExitJournal
<1>4. CASE pc' = "undo" /\ mem' = [Fresh EXCEPT !.mode = "undo"]
  <2>1. mem'.mode = "undo"
    BY <1>4 DEF Fresh
  <2>2. UndoInv'
    BY <1>4 DEF UndoInv, Swapping
  <2> QED BY <1>1, <1>2, <1>4, <2>1, <2>2, JournalFrom
<1> QED BY <1>3, <1>4 DEF Compensate

\* The journal over a failure.
LEMMA FailedJournal == ASSUME TypeInv, JournalInv, Failed PROVE JournalInv'
<1>1. rec # None /\ UNCHANGED <<durable, gw>>
  BY DEF Failed, TypeInv, PlaceInv
<1> QED BY <1>1, CompensateJournal DEF Failed

\* The journal over a recovery.
LEMMA RecoverJournal == ASSUME TypeInv, JournalInv, Recover PROVE JournalInv'
BY CompensateJournal DEF Recover

\* The journal over a kill.
LEMMA KillJournal == ASSUME TypeInv, JournalInv, Kill PROVE JournalInv'
<1>1. rec # None /\ UNCHANGED <<durable, gw>>
  BY DEF Kill, TypeInv, PlaceInv
<1> QED BY <1>1, CompensateJournal DEF Kill

\* The journal over the end of a compensation.
LEMMA UndoneJournal == ASSUME TypeInv, JournalInv, Undone PROVE JournalInv'
<1>1. /\ pc = "undone" /\ mem.mode = "undo" /\ rec # None /\ Exit /\ store' = store
      /\ entry' = entry /\ gw' = gw
  BY DEF Undone, TypeInv, PlaceInv
<1>2. UnitsStay /\ Within(entry)
  BY <1>1, SameUnits, SameEntryWithin
<1>3. CASE mem.err = "none" /\ rec' = None
  <2>1. entry = rec.before /\ Clean(rec.before, store)
    BY <1>1, <1>3 DEF JournalInv, UndoInv, RecordInv
  <2>2. Clean(entry, store)'
    BY <1>1, <2>1 DEF Clean
  <2>3. mem'.mode = None /\ pc' = "idle"
    BY <1>1 DEF Exit, Fresh
  <2> QED BY <1>3, <2>2, <2>3, SentinelAssumption DEF JournalInv, RecordInv
<1>4. CASE rec' = rec
  BY <1>1, <1>2, <1>4, ExitJournal
<1> QED BY <1>3, <1>4 DEF Undone

\* A compensation has gone a step further without an error.
LEMMA UndoesJournal ==
  ASSUME TypeInv, JournalInv, mem.mode = "undo", rec # None, store' = store, rec' = rec, gw' = gw,
         Within(entry'), mem'.mode = "undo", UndoInv', pc' \notin {"validate", "baseline"}
  PROVE  JournalInv'
<1>1. UnitsStay
  BY SameUnits
<1> QED BY <1>1, JournalFrom

\* The journal over the announcement of a compensation.
LEMMA UndoJournal == ASSUME TypeInv, JournalInv, Undo PROVE JournalInv'
<1>1. /\ pc = "undo" /\ Working /\ mem.mode = "undo" /\ mem \in Memory /\ rec # None
      /\ store' = store /\ rec' = rec /\ gw' = gw
  BY WorkingFacts DEF Undo, Working, TypeInv, PlaceInv
<1>2. UnitsStay /\ Within(entry)
  BY <1>1, SameUnits, SameEntryWithin
<1>3. CASE Fail("failed") /\ entry' = entry
  BY <1>1, <1>2, <1>3, FailJournal
<1>4. CASE Back /\ Goto("undone") /\ entry' = entry
  <2>1. UndoInv'
    BY <1>1, <1>4 DEF UndoInv, Goto, Back, Swapping
  <2> QED BY <1>1, <1>2, <1>4, <2>1, UndoesJournal DEF Goto
<1>5. CASE /\ rec.before # None \/ entry # None
           /\ \/ entry = Recovery /\ SetProxy(rec.value, "undoing") /\ entry' = entry
              \/ SaveEntry(Recovery, SetProxy(rec.value, "undoing"), Fail("failed"))
  <2>1. /\ Sound(Recovery) /\ Recovery # None
        /\ rec.before = None => Recovery.phase = "restoring" /\ Recovery.targets = entry.targets
        /\ rec.before # None =>
             /\ Recovery.managed = rec.before.managed
             /\ Recovery.pending = rec.before.managed /\ Recovery.phase = "prepared"
             /\ Recovery.targets = rec.targets
    BY <1>1, <1>5, RecoveryEntry
  <2>2. Within(Recovery)
    <3>1. BeforeTargets \subseteq rec.targets
      BY <1>1 DEF JournalInv, RecordInv
    <3> QED BY <1>2, <1>5, <2>1, <3>1 DEF Within
  <2>3. CASE entry' = Recovery /\ SetProxy(rec.value, "undoing")
    <3>1. mem'.mode = "undo" /\ pc' \in {"undoing", "take"}
      BY <1>1, <2>3, SetProxyMoves
    <3>2. Announced'
      BY <1>1, <2>1, <2>3 DEF Announced
    <3>3. UndoInv'
      BY <3>1, <3>2 DEF UndoInv
    <3> QED BY <1>1, <2>2, <2>3, <3>1, <3>3, UndoesJournal
  <2>4. CASE entry' \in {entry, Recovery} /\ Fail("failed")
    BY <1>1, <1>2, <2>2, <2>4, FailJournal
  <2> QED BY <1>5, <2>3, <2>4 DEF SaveEntry
<1> QED BY <1>3, <1>4, <1>5 DEF Undo

\* The journal over its choice of gateways.
LEMMA UndoingJournal == ASSUME TypeInv, JournalInv, Undoing PROVE JournalInv'
<1>1. /\ pc = "undoing" /\ mem.mode = "undo" /\ mem \in Memory /\ rec # None
      /\ store' = store /\ rec' = rec /\ gw' = gw /\ entry' = entry
  BY DEF Undoing, durable, TypeInv, PlaceInv
<1>2. Within(entry) /\ Announced
  BY <1>1, SameEntryWithin DEF JournalInv, UndoInv
<1> DEFINE ts == IF rec.before = None THEN rec.targets ELSE entry.ptargets
<1>3. pc' = "restart" /\ mem' = [mem EXCEPT !.todo = ts]
  BY DEF Undoing
<1>4. mem'.mode = "undo" /\ mem'.todo = ts
  <2> HIDE DEF ts
  <2> QED BY <1>1, <1>3 DEF Memory
<1>5. UndoInv'
  BY <1>1, <1>2, <1>3, <1>4 DEF UndoInv, Announced, Swapping
<1> QED BY <1>1, <1>2, <1>3, <1>4, <1>5, UndoesJournal

\* The journal over the last check of a compensation.
LEMMA FinalJournal == ASSUME TypeInv, JournalInv, Final PROVE JournalInv'
<1>1. /\ pc = "final" /\ Working /\ mem.mode = "undo" /\ mem \in Memory /\ rec # None
      /\ store' = store /\ rec' = rec /\ gw' = gw
  BY DEF Final, Working, TypeInv, PlaceInv
<1>2. UnitsStay /\ Within(entry)
  BY <1>1, SameUnits, SameEntryWithin
<1>3. Within(rec.before)
  BY <1>1 DEF Within, JournalInv, RecordInv, BeforeTargets
<1>4. CASE entry' \in {entry, rec.before} /\ Fail("failed")
  BY <1>1, <1>2, <1>3, <1>4, FailJournal
<1>5. CASE entry' = rec.before /\ Goto("undone")
  <2>1. UndoInv'
    BY <1>1, <1>5 DEF UndoInv, Goto, Swapping
  <2> QED BY <1>1, <1>3, <1>5, <2>1, UndoesJournal DEF Goto
<1> QED BY <1>4, <1>5 DEF Final, SaveEntry

\* The journal over the exchange.
LEMMA SwapJournal ==
  ASSUME TypeInv, JournalInv, pc \in Swapping, UNCHANGED <<durable, gw>>,
         SwapFailed \/ Swapped \/ (mem' = mem /\ pc' \in Swapping)
  PROVE  JournalInv'
<1>1. /\ Working /\ rec # None /\ mem \in Memory /\ mem.mode \in {"apply", "release", "undo"}
      /\ store' = store /\ rec' = rec /\ entry' = entry /\ UnitsStay /\ Exchange
      /\ BeforeTargets' = BeforeTargets
  BY SwapFacts, WorkingFacts, SameUnits, RecordStays DEF durable
<1>2. Within(entry) /\ (mem.mode = "apply" /\ rec.before # None => entry # None)
  BY <1>1, SameEntryWithin
<1>3. CASE SwapFailed
  BY <1>1, <1>2, <1>3, SwapFailedJournal
<1>4. CASE Swapped \/ (mem' = mem /\ pc' \in Swapping)
  <2>1. /\ mem'.mode = mem.mode /\ mem'.todo = mem.todo /\ mem'.err = mem.err
        /\ mem'.failed = mem.failed /\ pc' \in Swapping \cup {mem.then}
    BY <1>1, <1>4 DEF Swapped, Memory
  <2>2. Cur' = Cur
    BY <2>1 DEF Cur
  <2>3. mem.mode = "apply" => ApplyInv'
    BY <1>1, <1>2, <2>1, <2>2 DEF ApplyInv, JournalInv, Swapping, Loop, Ready, Exchange
  <2>4. mem.mode = "release" => ReleaseInv'
    BY <1>1, <2>1 DEF ReleaseInv, JournalInv, Swapping, Exchange
  <2>5. mem.mode = "undo" => UndoInv'
    BY <1>1, <2>1 DEF UndoInv, JournalInv, Swapping, Exchange, Announced
  <2>6. pc' \notin {"validate", "baseline"}
    BY <1>1, <2>1 DEF Exchange, Swapping
  <2> QED BY <1>1, <1>2, <2>1, <2>3, <2>4, <2>5, <2>6, JournalFrom
<1> QED BY <1>3, <1>4

\* The journal over the claim of the file.
LEMMA TakeJournal == ASSUME TypeInv, JournalInv, Take PROVE JournalInv'
<1>1. pc \in Swapping /\ UNCHANGED <<durable, gw>>
  BY DEF Take, Swapping
<1>2. SwapFailed \/ Swapped \/ Goto("publish")
  BY DEF Take
<1> QED BY <1>1, <1>2, SwapJournal DEF Goto, Swapping

\* The journal over the publication.
LEMMA PublishJournal == ASSUME TypeInv, JournalInv, Publish PROVE JournalInv'
<1>1. pc \in Swapping /\ UNCHANGED <<durable, gw>>
  BY DEF Publish, Swapping
<1>2. SwapFailed \/ Goto("retire")
  BY DEF Publish
<1> QED BY <1>1, <1>2, SwapJournal DEF Goto, Swapping

\* The journal over the end of the claim.
LEMMA RetireJournal == ASSUME TypeInv, JournalInv, Retire PROVE JournalInv'
<1>1. pc \in Swapping /\ UNCHANGED <<durable, gw>>
  BY DEF Retire, Swapping
<1>2. SwapFailed \/ Swapped
  BY DEF Retire
<1> QED BY <1>1, <1>2, SwapJournal

\* What the gateways and the user do, as far as the process is concerned.
World == \/ Save \/ Remove
         \/ \E t \in Targets :
              JobDone(t) \/ StartStop(t) \/ Apply(t) \/ ChannelRestart(t) \/ Uninstall(t)

\* The world writes neither the journal nor the place.
LEMMA WorldMoves ==
  ASSUME TypeInv, World
  PROVE  Noted /\ UNCHANGED <<durable, pc>> /\ UnitsStay
<1>1. CASE Save \/ Remove
  <2>1. mem' = mem /\ gw' = gw /\ UNCHANGED <<durable, pc>>
    BY <1>1 DEF Save, Remove
  <2>2. Noted
    BY <2>1 DEF Noted, TypeInv, PlaceInv
  <2> QED BY <2>1, <2>2, SameUnits
<1>2. ASSUME NEW t \in Targets,
             JobDone(t) \/ StartStop(t) \/ Apply(t) \/ ChannelRestart(t) \/ Uninstall(t)
      PROVE  Noted /\ UNCHANGED <<durable, pc>> /\ UnitsStay
  <2>1. UNCHANGED <<durable, pc>>
    BY <1>2 DEF JobDone, StartStop, Apply, ChannelRestart, Uninstall
  <2>2. Noted
    BY <1>2, RenewedNotes DEF JobDone, StartStop, Apply, ChannelRestart, Uninstall
  <2>3. gw \in [Targets -> Gateway] /\ gw[t] \in Gateway
    BY GatewayTypes DEF TypeInv
  <2>4. \E g : gw' = [gw EXCEPT ![t] = g] /\ (g.unit => gw[t].unit)
    <3>1. CASE JobDone(t) \/ StartStop(t)
      <4>1. gw' = [gw EXCEPT ![t] = Started(gw[t])] \/ gw' = [gw EXCEPT ![t] = Stopped(gw[t])]
        BY <2>3, <3>1 DEF JobDone, StartStop
      <4>2. Started(gw[t]).unit = gw[t].unit /\ Stopped(gw[t]).unit = gw[t].unit
        BY <2>3 DEF Started, Stopped, Gateway
      <4> QED BY <4>1, <4>2
    <3>2. CASE Apply(t)
      <4>1. gw' = [gw EXCEPT ![t] = [gw[t] EXCEPT !.applied = file, !.pend = gw'[t].pend]]
        BY <2>3, <3>2 DEF Apply, Gateway
      <4> QED BY <2>3, <4>1 DEF Gateway
    <3>3. CASE ChannelRestart(t)
      <4> DEFINE g == [gw[t] EXCEPT !.chan = gw[t].applied.proxy, !.pend = FALSE]
      <4>1. gw' = [gw EXCEPT ![t] = g]
        BY <2>3, <3>3 DEF ChannelRestart
      <4>2. g.unit = gw[t].unit
        BY <2>3 DEF Gateway
      <4> HIDE DEF g
      <4> QED BY <4>1, <4>2
    <3>4. CASE Uninstall(t)
      BY <2>3, <3>4 DEF Uninstall, Gateway
    <3> QED BY <1>2, <3>1, <3>2, <3>3, <3>4
  <2>5. UnitsStay
    BY <2>3, <2>4 DEF UnitsStay
  <2> QED BY <2>1, <2>2, <2>5
<1> QED BY <1>1, <1>2 DEF World

\* Every step keeps the journal.
LEMMA StepJournal == TypeInv /\ JournalInv /\ [Next]_vars => JournalInv'
<1> SUFFICES ASSUME TypeInv, JournalInv, [Next]_vars PROVE JournalInv'
  OBVIOUS
<1>1. CASE UNCHANGED vars
  <2>1. UNCHANGED <<durable, pc>> /\ mem' = mem /\ gw' = gw
    BY <1>1 DEF vars
  <2>2. Noted
    BY <2>1 DEF Noted, TypeInv, PlaceInv
  <2> QED BY <2>1, <2>2, SameUnits, WorldJournal
<1>2. ASSUME NEW cand \in Settings, Plan(cand) PROVE JournalInv'
  BY <1>2, PlanJournal
<1>3. CASE Process
  BY <1>3, ValidateJournal, BaselineJournal, TakeJournal, PublishJournal, RetireJournal,
     ApplyEntryJournal, PreparedJournal, PendingJournal, ExpectJournal, ObserveJournal,
     ConfirmJournal, RestartJournal, WaitJournal, CommitJournal, ReleaseJournal, DropJournal,
     RestoreJournal, ForgetJournal, AppliedJournal, FailedJournal, UndoJournal, UndoingJournal,
     AbsentJournal, FinalJournal, UndoneJournal, Zenon DEF Process
<1>4. CASE Recover \/ Kill
  BY <1>4, RecoverJournal, KillJournal
<1>5. CASE World
  BY <1>5, WorldMoves, WorldJournal
<1> QED BY <1>1, <1>2, <1>3, <1>4, <1>5 DEF Next, World

\* The types and the journal are an invariant.
LEMMA JournalInvariant == Spec => [](TypeInv /\ JournalInv)
<1>1. Init => TypeInv /\ JournalInv
  BY InitTypes, InitJournal
<1>2. TypeInv /\ JournalInv /\ [Next]_vars => (TypeInv /\ JournalInv)'
  BY StepTypes, StepJournal
<1> QED BY <1>1, <1>2, PTL DEF Spec

\* Every variable has its type in every state, with the relations between the fields of an
\* entry that saveOpenClawProxyJournal validates.
THEOREM TypeCorrect == Spec => []TypeOK
<1>1. TypeInv => TypeOK
  BY DEF TypeInv, DataInv
<1> QED BY <1>1, JournalInvariant, PTL

-----------------------------------------------------------------------------
(* What the user has saved.                                                *)

\* The entry still records a proxy of the user's that is not in the file.
Keeps(e) == user.touched = "own" /\ There.proxy # Own /\ entry # None /\ entry.orig = Own =>
              e # None /\ e.orig = Own

\* Places that EditInv says more about.
Marked == Swapping \cup {"drop", "baseline", "release"}

\* A step that begins nothing and leaves the files alone keeps the latest version.
LEMMA EditFrom ==
  ASSUME EditInv, UNCHANGED <<files, user>>, Keeps(entry'), pc' \notin Marked
  PROVE  EditInv'
<1>1. There' = There /\ user' = user
  BY DEF There, files
<1>2. user.touched # "gone" => Latest(There)'
  BY <1>1 DEF EditInv, Latest, Keeps
<1> QED BY <1>1, <1>2 DEF EditInv, Swapping, Marked

\* Where the loops, the failures and the end of a command lead.
LEMMA Unmarked ==
  ASSUME TypeInv, Working,
         \/ SwapFailed \/ Fail("failed") \/ Fail("unsettled") \/ NextTarget
         \/ Reconciled \/ Advance \/ Exit
  PROVE  pc' \notin Marked
<1>1. CASE SwapFailed
  BY <1>1, SwapFailedMoves DEF Marked, Swapping
<1>2. CASE Fail("failed") \/ Fail("unsettled")
  BY <1>2, FailMoves DEF Marked, Swapping, Exit
<1>3. CASE NextTarget \/ Reconciled \/ Advance \/ Exit
  BY <1>3 DEF NextTarget, Reconciled, Advance, Exit, Marked, Swapping
<1> QED BY <1>1, <1>2, <1>3

\* An exchange begins with a value that the entry allows for.
LEMMA SetProxyEdit ==
  ASSUME EditInv, mem \in Memory, file \in Files, NEW v \in Values,
         NEW p \in {"prepared", "restore", "undoing"}, SetProxy(v, p),
         UNCHANGED <<files, user>>, Keeps(entry'),
         file.proxy = Own => v = Own \/ entry'.orig = Own
  PROVE  EditInv'
<1>1. CASE file.proxy = v
  BY <1>1, EditFrom DEF SetProxy, Marked, Swapping
<1>2. CASE file.proxy # v
  <2> DEFINE g == [file EXCEPT !.proxy = v]
  <2>1. pc' = "take" /\ mem' = [mem EXCEPT !.raw = file, !.goal = g, !.then = p]
    BY <1>2 DEF SetProxy
  <2>2. g.edit = file.edit /\ g.proxy = v
    BY DEF Files
  <2> HIDE DEF g
  <2>3. mem'.raw = file /\ mem'.goal = g
    BY <2>1 DEF Memory
  <2>4. There' = There /\ user' = user
    BY DEF There, files
  <2>5. user.touched # "gone" => Latest(There)'
    BY <2>4 DEF EditInv, Latest, Keeps
  <2> QED BY <2>1, <2>2, <2>3, <2>4, <2>5 DEF EditInv, Swapping
<1> QED BY <1>1, <1>2

\* The entry itself keeps what it records.
LEMMA SameKeeps == Keeps(entry)
BY DEF Keeps

\* Steps that write neither the files nor the entry, and begin nothing.
LEMMA IdleEdit ==
  ASSUME EditInv, UNCHANGED <<durable, files, user>>, pc' \notin Marked
  PROVE  EditInv'
BY SameKeeps, EditFrom DEF durable

\* The user's latest version over the loop over the gateways.
LEMMA LoopEdit ==
  ASSUME TypeInv, EditInv, Prepared \/ Pending \/ Expect \/ Observe \/ Confirm \/ Restart \/ Wait
  PROVE  EditInv'
<1>1. Working /\ UNCHANGED <<durable, files, user>>
  BY DEF Prepared, Pending, Expect, Observe, Confirm, Restart, Wait, Working
<1>2. pc' \notin Marked
  <2>1. \/ Fail("failed") \/ Fail("unsettled") \/ NextTarget \/ Reconciled
        \/ pc' \in {"applied", "expect", "restart", "observe", "confirm", "fallback", "wait", "absent"}
    BY DEF Prepared, Pending, Expect, Observe, Confirm, Restart, Wait, Goto
  <2> QED BY <1>1, <2>1, Unmarked DEF Marked, Swapping
<1> QED BY <1>1, <1>2, IdleEdit

\* The user's latest version over the plan.
LEMMA PlanEdit == ASSUME EditInv, NEW cand, Plan(cand) PROVE EditInv'
<1>1. UNCHANGED <<entry, files, user>> /\ pc' \notin Marked
  BY DEF Plan, Marked, Swapping
<1> QED BY <1>1, SameKeeps, EditFrom

\* The user's latest version over the steps that write no more than the record.
LEMMA RestEdit ==
  ASSUME EditInv, Applied \/ Failed \/ Recover \/ Kill \/ Undone \/ Undoing
  PROVE  EditInv'
<1>1. UNCHANGED <<entry, files, user>>
  BY DEF Applied, Failed, Recover, Kill, Undone, Undoing, durable
<1>2. pc' \notin Marked
  BY DEF Applied, Failed, Recover, Kill, Undone, Undoing, Compensate, Exit, Marked, Swapping
<1> QED BY <1>1, <1>2, SameKeeps, EditFrom

\* A release starts from the managed value.
LEMMA ValidateEdit == ASSUME TypeInv, JournalInv, EditInv, Validate PROVE EditInv'
<1>1. UNCHANGED <<durable, files, user>> /\ pc' \in {"baseline", "failed"}
  BY DEF Validate
<1>2. There' = There /\ user' = user /\ entry' = entry
  BY <1>1 DEF There, files, durable
<1>3. user.touched # "gone" => Latest(There)'
  BY <1>2 DEF EditInv, Latest
<1>4. ASSUME pc' = "baseline", entry # None
      PROVE  file # None /\ file.proxy = entry.managed
  <2>1. Plannable(rec.cand)
    BY <1>4 DEF Validate
  <2>2. Involved(rec.cand) # {}
    BY <1>4 DEF Involved, TypeInv, DataInv, TypeOK
  <2> QED BY <1>4, <2>1, <2>2 DEF Plannable
<1> QED BY <1>1, <1>2, <1>3, <1>4 DEF EditInv, Swapping, files

\* The user's latest version over the look at the gateways.
LEMMA BaselineEdit == ASSUME TypeInv, EditInv, Baseline PROVE EditInv'
<1>1. /\ UNCHANGED <<durable, files, user>> /\ pc = "baseline" /\ mem \in Memory
      /\ pc' = (IF mem.mode = "release" THEN "release" ELSE "entry")
  BY DEF Baseline, TypeInv, PlaceInv
<1>2. There' = There /\ user' = user /\ entry' = entry /\ file' = file
  BY <1>1 DEF There, files, durable
<1>3. user.touched # "gone" => Latest(There)'
  BY <1>2 DEF EditInv, Latest
<1> QED BY <1>1, <1>2, <1>3 DEF EditInv, Swapping

\* The user's latest version over the commit of a gateway.
LEMMA CommitEdit ==
  ASSUME TypeInv, EditInv, Commit \/ Absent
  PROVE  EditInv'
<1>1. /\ UNCHANGED <<files, user>> /\ Working /\ (Fail("failed") \/ Advance)
      /\ \/ entry' = entry
         \/ entry # None /\ entry.phase = "prepared" /\ entry' \in {entry, Committed(Cur)}
  BY DEF Commit, Absent, SaveEntry, Working
<1>2. Sound(entry) /\ Cur \in Targets
  BY TypesOfState, CurIsTarget DEF Commit, Absent, TypeInv, Looping, AtTarget, Loop
<1>3. entry # None /\ entry.phase = "prepared" =>
        Committed(Cur) # None /\ Committed(Cur).orig = entry.orig
  BY <1>2, CommittedEntry
<1>4. Keeps(entry')
  BY <1>1, <1>3 DEF Keeps
<1> QED BY <1>1, <1>4, Unmarked, EditFrom

\* The entry with one more gateway, to be brought to the candidate's proxy.
Joined(ts, ps) == [entry EXCEPT !.targets = ts, !.ptargets = ps, !.pending = rec.cand.proxy,
                                !.phase = "prepared"]

\* It is sound.
LEMMA JoinedEntry ==
  ASSUME Sound(entry), entry # None, rec.cand.proxy \in Proxies, NEW ts \in SUBSET Targets,
         NEW ps \in SUBSET ts, ps # {}
  PROVE  LET e == Joined(ts, ps)
         IN  /\ Sound(e) /\ e # None /\ e.orig = entry.orig /\ e.managed = entry.managed
             /\ e.targets = ts /\ e.ptargets = ps /\ e.pending = rec.cand.proxy
             /\ e.phase = "prepared"
<1> DEFINE c == rec.cand.proxy
           e == [entry EXCEPT !.targets = ts, !.ptargets = ps, !.pending = c, !.phase = "prepared"]
<1>1. Joined(ts, ps) = e
  BY DEF Joined
<1>2. Sound(e) /\ e # None
  <2> HIDE DEF c
  <2>1. c \in Proxies
    BY DEF c
  <2> QED BY <2>1, MoreEntry
<1>3. entry \in Entries /\ c \in Proxies
  BY DEF Sound
<1> HIDE DEF c
<1>4. /\ e.orig = entry.orig /\ e.managed = entry.managed /\ e.targets = ts /\ e.ptargets = ps
      /\ e.pending = c /\ e.phase = "prepared"
  BY <1>3 DEF Entries
<1> HIDE DEF e
<1> QED BY <1>1, <1>2, <1>4 DEF c

\* The cases of applying, with the entry each of them saves.
Announces(e) == SaveEntry(e, SetProxy(rec.cand.proxy, "prepared"), SwapFailed)

\* Nothing else happens.
LEMMA ApplyEntryForms ==
  ASSUME TypeInv, ApplyEntry
  PROVE  LET c == rec.cand.proxy IN
         \/ SwapFailed /\ Free /\ entry' = entry
         \/ /\ file # None /\ entry = None
            /\ Announces(Entry(file.proxy, c, c, {Cur}, {Cur}, "prepared"))
         \/ /\ file # None /\ entry # None /\ Acceptable
            /\ \/ /\ entry.phase = "active" /\ entry.managed = c /\ Cur \in entry.targets
                  /\ NextTarget /\ Free /\ entry' = entry
               \/ /\ entry.phase = "active" /\ entry.managed = c /\ Cur \notin entry.targets
                  /\ SaveEntry(Joined(entry.targets \cup {Cur}, {Cur}), NextTarget, SwapFailed)
               \/ /\ ~(entry.phase = "active" /\ entry.managed = c)
                  /\ Announces(Joined(entry.targets \cup {Cur}, entry.targets \cup {Cur}))
<1> DEFINE t == Cur
           c == rec.cand.proxy
<1>1. CASE ~Valid(t) \/ file = None
  BY <1>1 DEF ApplyEntry
<1>2. CASE ~(~Valid(t) \/ file = None) /\ entry = None
  BY <1>2 DEF ApplyEntry, Announces
<1>3. CASE ~(~Valid(t) \/ file = None) /\ entry # None
  <2>1. CASE ~Acceptable
    BY <1>3, <2>1 DEF ApplyEntry
  <2>2. CASE Acceptable /\ entry.phase = "active" /\ entry.managed = c /\ t \in entry.targets
    BY <1>3, <2>2 DEF ApplyEntry
  <2>3. CASE Acceptable /\ entry.phase = "active" /\ entry.managed = c /\ t \notin entry.targets
    BY <1>3, <2>3 DEF ApplyEntry, Joined
  <2>4. CASE Acceptable /\ ~(entry.phase = "active" /\ entry.managed = c)
    BY <1>3, <2>4 DEF ApplyEntry, Joined, Announces
  <2> QED BY <1>3, <2>1, <2>2, <2>3, <2>4
<1> QED BY <1>1, <1>2, <1>3

\* The user's latest version over the announcement of an apply.
LEMMA ApplyEntryEdit == ASSUME TypeInv, JournalInv, EditInv, ApplyEntry PROVE EditInv'
<1>1. /\ UNCHANGED <<files, user>> /\ Working /\ mem \in Memory /\ file \in Files \cup {None}
      /\ Sound(entry) /\ rec.cand.proxy \in Proxies /\ rec.cand.proxy \in Values
      /\ Cur \in Targets
  BY TypesOfState, WorkingFacts, CurIsTarget
  DEF ApplyEntry, Working, TypeInv, PlaceInv, Values, Looping, AtTarget
<1> DEFINE c == rec.cand.proxy
<1>2. CASE (SwapFailed \/ NextTarget) /\ entry' = entry
  BY <1>1, <1>2, Unmarked, SameKeeps, EditFrom
<1>3. CASE /\ file # None /\ entry = None
           /\ Announces(Entry(file.proxy, c, c, {Cur}, {Cur}, "prepared"))
  <2>1. Keeps(entry')
    BY <1>3 DEF Keeps
  <2>2. CASE SwapFailed
    BY <1>1, <2>1, <2>2, Unmarked, EditFrom
  <2>3. CASE entry' = Entry(file.proxy, c, c, {Cur}, {Cur}, "prepared") /\ SetProxy(c, "prepared")
    <3>1. entry'.orig = file.proxy
      BY <2>3 DEF Entry
    <3> QED BY <1>1, <1>3, <2>1, <2>3, <3>1, SetProxyEdit
  <2> QED BY <1>3, <2>2, <2>3 DEF SaveEntry, Announces
<1>4. ASSUME NEW ts \in SUBSET Targets, NEW ps \in SUBSET ts, ps # {}, file # None, entry # None, Acceptable,
             \/ SaveEntry(Joined(ts, ps), NextTarget, SwapFailed)
             \/ Announces(Joined(ts, ps))
      PROVE  EditInv'
  <2>1. entry \in Entries /\ entry.managed \in Proxies
    BY <1>1, <1>4 DEF Sound, Entries
  <2>2. Joined(ts, ps) # None /\ Joined(ts, ps).orig = entry.orig
    BY <1>1, <1>4, JoinedEntry
  <2>3. Keeps(entry')
    BY <1>4, <2>2 DEF Keeps, SaveEntry, Announces
  <2>4. file.proxy = Own => entry.orig = Own
    <3>1. entry.phase = "prepared" => entry.pending \in Proxies
      BY <1>1, <1>4 DEF Sound, Entries
    <3> QED BY <1>4, <2>1, <3>1, OpenClawAssumption DEF Acceptable
  <2>5. CASE NextTarget \/ SwapFailed
    BY <1>1, <2>3, <2>5, Unmarked, EditFrom
  <2>6. CASE entry' = Joined(ts, ps) /\ SetProxy(c, "prepared")
    BY <1>1, <1>4, <2>2, <2>3, <2>4, <2>6, SetProxyEdit
  <2> QED BY <1>4, <2>5, <2>6 DEF SaveEntry, Announces
<1>5. entry # None => entry.targets \cup {Cur} \in SUBSET Targets /\ {Cur} \subseteq entry.targets \cup {Cur}
  BY <1>1 DEF Sound, Entries
<1> QED BY <1>2, <1>3, <1>4, <1>5, ApplyEntryForms

\* The user's latest version over the announcement of a release.
LEMMA ReleaseEdit == ASSUME TypeInv, JournalInv, EditInv, Release PROVE EditInv'
<1>1. /\ UNCHANGED <<files, user>> /\ Working /\ mem \in Memory /\ file \in Files \cup {None}
      /\ Sound(entry) /\ pc = "release" /\ mem.mode = "release" /\ file' = file
  BY TypesOfState DEF Release, Working, TypeInv, PlaceInv, files
<1>2. CASE SwapFailed /\ entry' = entry
  BY <1>1, <1>2, Unmarked, SameKeeps, EditFrom
<1>3. CASE entry = None /\ entry' = entry
  <2>1. pc' = "applied"
    BY <1>3 DEF Release
  <2> QED BY <1>1, <1>3, <2>1, SameKeeps, EditFrom DEF Marked, Swapping
<1>4. CASE entry # None /\ file # None
  <2> DEFINE o == IF file.proxy = entry.managed THEN entry.orig ELSE file.proxy
             e == [entry EXCEPT !.phase = "restoring", !.pending = None, !.ptargets = {}, !.orig = o]
             G == IF file.proxy = entry.managed /\ file.proxy = entry.orig THEN Goto("drop")
                  ELSE SetProxy(e.orig, "restore")
  <2>1. SaveEntry(e, G, SwapFailed)
    BY <1>4 DEF Release
  <2>2. file \in Files /\ o \in Values /\ entry.managed \in Proxies
    BY <1>1, <1>4 DEF Files, Sound, Entries
  <2>3. e # None /\ e.orig = o
    <3> HIDE DEF o
    <3> QED BY <1>1, <1>4, <2>2, RestoringEntry
  <2>4. user.touched = "own" /\ There.proxy # Own /\ entry.orig = Own => o = Own
    BY <1>1, <1>4 DEF EditInv, There
  <2>5. file.proxy = Own => o = Own
    BY <2>2, OpenClawAssumption
  <2>6. Keeps(entry')
    <3>1. Keeps(e) /\ Keeps(entry)
      <4> HIDE DEF e, o
      <4> QED BY <2>3, <2>4 DEF Keeps
    <3> QED BY <2>1, <3>1 DEF SaveEntry
  <2>7. CASE SwapFailed
    BY <1>1, <2>6, <2>7, Unmarked, EditFrom
  <2>8. CASE entry' = e /\ SetProxy(e.orig, "restore")
    <3> HIDE DEF e, o
    <3> QED BY <1>1, <2>2, <2>3, <2>5, <2>6, <2>8, SetProxyEdit
  <2>9. CASE entry' = e /\ file.proxy = entry.managed /\ file.proxy = entry.orig /\ Goto("drop")
    <3>1. e.orig # Own
      <4>1. o = entry.managed
        BY <2>9
      <4> HIDE DEF e, o
      <4> QED BY <2>2, <2>3, <4>1, OpenClawAssumption
    <3>2. There' = There /\ user' = user
      BY <1>1 DEF There, files
    <3>3. user.touched # "gone" => Latest(There)'
      BY <2>6, <3>2 DEF EditInv, Latest, Keeps
    <3> HIDE DEF e, o
    <3> QED BY <2>9, <3>1, <3>2, <3>3 DEF EditInv, Goto, Swapping
  <2> QED BY <2>1, <2>7, <2>8, <2>9 DEF SaveEntry
<1> QED BY <1>2, <1>3, <1>4 DEF Release

\* The entry goes when the file has what it would restore, or nothing is left
\* to restore.
LEMMA DropsEdit ==
  ASSUME TypeInv, EditInv, Drop \/ Forget
  PROVE  EditInv'
<1>1. UNCHANGED <<files, user>> /\ Working
  BY DEF Drop, Forget, Working
<1>2. pc' \notin Marked
  <2>1. SwapFailed \/ pc' = "applied"
    BY DEF Drop, Forget, SaveEntry, Goto
  <2> QED BY <1>1, <2>1, Unmarked DEF Marked, Swapping
<1>3. Keeps(entry')
  <2>1. CASE Drop
    BY <2>1 DEF Drop, EditInv, Keeps, SaveEntry
  <2>2. CASE Forget
    BY <2>2 DEF Forget, Keeps, SaveEntry, There
  <2> QED BY <2>1, <2>2
<1> QED BY <1>1, <1>2, <1>3, EditFrom

\* The user's latest version over the reload of a release.
LEMMA RestoreEdit == ASSUME TypeInv, EditInv, Restore PROVE EditInv'
<1>1. UNCHANGED <<durable, files, user>> /\ Working /\ (SwapFailed \/ pc' = "expect")
  BY DEF Restore, Working
<1> QED BY <1>1, Unmarked, IdleEdit DEF Marked, Swapping

\* The user's latest version over the announcement of a compensation.
LEMMA UndoEdit == ASSUME TypeInv, JournalInv, EditInv, Undo PROVE EditInv'
<1>1. /\ UNCHANGED <<files, user>> /\ Working /\ mem \in Memory /\ file \in Files \cup {None}
      /\ Sound(entry) /\ rec # None /\ rec \in Records /\ rec.value \in Values
      /\ rec.allowed \in Proxies \cup {None}
  BY TypesOfState, WorkingFacts DEF Undo, Working, TypeInv, PlaceInv, Records
<1>2. CASE Fail("failed") /\ entry' = entry
  BY <1>1, <1>2, Unmarked, SameKeeps, EditFrom
<1>3. CASE Goto("undone") /\ entry' = entry
  BY <1>1, <1>3, SameKeeps, EditFrom DEF Goto, Marked, Swapping
<1>4. CASE /\ file # None /\ EntryAllowed(entry) /\ ValueAllowed(file.proxy)
           /\ (rec.before # None \/ entry # None)
           /\ entry' \in {entry, Recovery}
           /\ Fail("failed") \/ (entry' = Recovery /\ SetProxy(rec.value, "undoing"))
  <2>1. /\ Recovery # None
        /\ rec.before = None => Recovery.orig = entry.orig /\ entry # None
        /\ rec.before # None => Recovery.orig = rec.before.orig
    BY <1>1, <1>4, RecoveryEntry
  <2>2. Keeps(entry')
    BY <1>4, <2>1 DEF Keeps, EntryAllowed
  <2>3. file.proxy = Own => rec.value = Own \/ Recovery.orig = Own
    BY <1>1, <1>4, <2>1, OpenClawAssumption DEF ValueAllowed
  <2>4. CASE Fail("failed")
    BY <1>1, <2>2, <2>4, Unmarked, EditFrom
  <2>5. CASE entry' = Recovery /\ SetProxy(rec.value, "undoing")
    BY <1>1, <1>4, <2>2, <2>3, <2>5, SetProxyEdit
  <2> QED BY <1>4, <2>4, <2>5
<1> QED BY <1>2, <1>3, <1>4 DEF Undo, SaveEntry

\* The user's latest version over the last check of a compensation.
LEMMA FinalEdit == ASSUME TypeInv, JournalInv, EditInv, Final PROVE EditInv'
<1>1. UNCHANGED <<files, user>> /\ Working /\ (Fail("failed") \/ pc' = "undone")
  BY DEF Final, Working, SaveEntry, Goto
<1>2. Keeps(entry')
  <2>1. \/ entry' = entry
        \/ file # None /\ file.proxy = rec.value /\ EntryAllowed(entry) /\ entry' = rec.before
    BY DEF Final, SaveEntry
  <2> QED BY <2>1 DEF Keeps, EntryAllowed, There
<1> QED BY <1>1, <1>2, Unmarked, EditFrom DEF Marked, Swapping

-----------------------------------------------------------------------------
(* The exchange, and the user.                                             *)

\* The latest version is at the same place, or has moved with its proxy.
LEMMA MovedEdit ==
  ASSUME TypeInv, EditInv, pc \in Swapping, UNCHANGED <<durable, user>>,
         user.touched # "gone" =>
           /\ There' # None /\ There'.edit = There.edit
           /\ There.proxy = Own => There'.proxy = Own \/ entry.orig = Own,
         \/ SwapFailed \/ Swapped
         \/ mem' = mem /\ pc' \in {"publish", "retire"} /\ (pc' = "retire" => file' # None)
  PROVE  EditInv'
<1>1. /\ entry' = entry /\ user' = user /\ Working /\ mem \in Memory /\ entry # None
      /\ mem.then \in {"prepared", "restore", "undoing"}
  BY SwapFacts DEF Working, Swapping, TypeInv, PlaceInv, Exchange, durable, Memory
<1>2. user.touched # "gone" => Latest(There)'
  BY <1>1 DEF EditInv, Latest
<1>3. CASE SwapFailed \/ Swapped
  <2>1. pc' \notin Marked
    BY <1>1, <1>3, Unmarked DEF Swapped, Marked, Swapping
  <2> QED BY <1>2, <2>1 DEF EditInv, Swapping, Marked
<1>4. CASE mem' = mem /\ pc' \in {"publish", "retire"} /\ (pc' = "retire" => file' # None)
  BY <1>1, <1>2, <1>4 DEF EditInv, Swapping
<1> QED BY <1>3, <1>4

\* The user's latest version over the claim of the file.
LEMMA TakeEdit == ASSUME TypeInv, EditInv, Take PROVE EditInv'
<1>1. /\ UNCHANGED <<durable, user>> /\ pc \in Swapping
      /\ SwapFailed \/ Swapped \/ Goto("publish")
  BY DEF Take, Swapping
<1>2. There' = There
  BY DEF Take, There, files
<1>3. user.touched # "gone" => There # None
  BY DEF EditInv, Latest
<1> QED BY <1>1, <1>2, <1>3, MovedEdit DEF Goto

\* The user's latest version over the publication.
LEMMA PublishEdit == ASSUME TypeInv, EditInv, Publish PROVE EditInv'
<1>1. /\ UNCHANGED <<durable, user>> /\ pc \in Swapping /\ Exchange
      /\ SwapFailed \/ (Goto("retire") /\ file' = mem.goal)
  BY DEF Publish, Swapping, TypeInv, PlaceInv
<1>2. mem.goal # None /\ mem.raw # None
  BY <1>1, SentinelAssumption DEF Exchange
<1>3. \/ There' = There
      \/ There = mem.raw /\ There' = mem.goal
  BY <1>2 DEF Publish, There, files
<1>4. /\ mem.goal.edit = mem.raw.edit
      /\ mem.raw.proxy = Own => mem.goal.proxy = Own \/ entry.orig = Own
      /\ user.touched # "gone" => There # None
  BY <1>1 DEF EditInv, Latest
<1> QED BY <1>1, <1>2, <1>3, <1>4, MovedEdit DEF Goto

\* The user's latest version over the end of the claim.
LEMMA RetireEdit == ASSUME TypeInv, EditInv, Retire PROVE EditInv'
<1>1. UNCHANGED <<durable, user>> /\ pc \in Swapping /\ (SwapFailed \/ Swapped)
  BY DEF Retire, Swapping
<1>2. user.touched # "gone" => There # None /\ There' = There
  BY DEF Retire, There, EditInv, Latest
<1> QED BY <1>1, <1>2, MovedEdit

\* The user's latest version over the gateways.
LEMMA GatewayEdit ==
  ASSUME TypeInv, EditInv, NEW t \in Targets,
         JobDone(t) \/ StartStop(t) \/ Apply(t) \/ ChannelRestart(t) \/ Uninstall(t)
  PROVE  EditInv'
<1>1. UNCHANGED <<durable, files, user, pc>>
  BY DEF JobDone, StartStop, Apply, ChannelRestart, Uninstall
<1>2. Noted
  BY WorldMoves DEF World
<1>3. There' = There /\ user' = user /\ entry' = entry /\ pc' = pc /\ file' = file
  BY <1>1 DEF There, files, durable
<1> QED BY <1>2, <1>3 DEF EditInv, Latest, Noted

\* The user's latest version over a save of the user's.
LEMMA SaveEdit == ASSUME TypeInv, EditInv, Save PROVE EditInv'
<1>1. UNCHANGED <<durable, claim, pc, mem>> /\ entry' = entry
  BY DEF Save, durable
<1>2. PICK f \in Files, own \in BOOLEAN :
        /\ f = There /\ file' \in Files /\ file'.edit = user.edit + 1 /\ user'.edit = user.edit + 1
        /\ file'.proxy = (IF own THEN Own ELSE f.proxy)
        /\ user'.touched = IF own THEN "own" ELSE user.touched
  BY SaveFacts
<1>3. file' # None /\ There' = file'
  BY <1>2, SentinelAssumption DEF There
<1>4. user'.touched # "gone" => Latest(There)'
  BY <1>1, <1>2, <1>3 DEF EditInv, Latest
<1>5. /\ pc \in {"baseline", "release"} /\ mem.mode = "release" /\ entry # None /\ user'.touched # "gone"
           => file'.proxy \in {entry.managed, Own}
  BY <1>2 DEF EditInv, There
<1> QED BY <1>1, <1>3, <1>4, <1>5 DEF EditInv

\* The user's latest version over the user removing the file.
LEMMA RemoveEdit == ASSUME TypeInv, EditInv, Remove PROVE EditInv'
<1>1. UNCHANGED <<durable, claim, pc, mem>> /\ entry' = entry /\ user' = [user EXCEPT !.touched = "gone"]
  BY DEF Remove, durable
<1>2. user'.touched = "gone"
  BY <1>1 DEF TypeInv, DataInv, Users
<1> QED BY <1>1, <1>2 DEF EditInv

\* The user's latest version over the initial states.
LEMMA InitEdit == Init => EditInv
<1> SUFFICES ASSUME Init PROVE EditInv
  OBVIOUS
<1>1. file \in [proxy : {Unset} \cup Proxies, edit : {0}] /\ user.edit = 0 /\ user.touched = "no" /\ pc = "idle"
  BY DEF Init
<1>2. file \in Files
  BY <1>1, OpenClawAssumption DEF Files, Values
<1>3. There = file /\ file # None
  BY <1>2, SentinelAssumption DEF There
<1> QED BY <1>1, <1>3 DEF EditInv, Latest, Swapping

\* Every step keeps the latest version.
LEMMA StepEdit == TypeInv /\ JournalInv /\ EditInv /\ [Next]_vars => EditInv'
<1> SUFFICES ASSUME TypeInv, JournalInv, EditInv, [Next]_vars PROVE EditInv'
  OBVIOUS
<1>1. CASE UNCHANGED vars
  BY <1>1 DEF vars, durable, files, EditInv, Latest, There
<1>2. ASSUME NEW cand \in Settings, Plan(cand) PROVE EditInv'
  BY <1>2, PlanEdit
<1>3. CASE Process
  BY <1>3, ValidateEdit, BaselineEdit, TakeEdit, PublishEdit, RetireEdit, ApplyEntryEdit, LoopEdit,
     CommitEdit, ReleaseEdit, DropsEdit, RestoreEdit, RestEdit, UndoEdit, FinalEdit, Zenon DEF Process
<1>4. CASE Recover \/ Kill
  BY <1>4, RestEdit
<1>5. CASE World
  BY <1>5, GatewayEdit, SaveEdit, RemoveEdit DEF World
<1> QED BY <1>1, <1>2, <1>3, <1>4, <1>5 DEF Next, World

\* What the user has saved last is in the file or under the claimed name, and a
\* proxy the user has chosen is there or recorded as the original: through every
\* exchange, failed save, kill and compensation.
THEOREM UserEditsStay == Spec => []UserEditsKept
<1>1. Init => TypeInv /\ JournalInv /\ EditInv
  BY InitTypes, InitJournal, InitEdit
<1>2. TypeInv /\ JournalInv /\ EditInv /\ [Next]_vars => (TypeInv /\ JournalInv /\ EditInv)'
  BY StepTypes, StepJournal, StepEdit
<1>3. EditInv => UserEditsKept
  BY DEF EditInv, Latest, There, UserEditsKept
<1> QED BY <1>1, <1>2, <1>3, PTL DEF Spec

-----------------------------------------------------------------------------
(* While the user leaves the proxy alone.                                  *)

Quiet == user.touched = "no"

\* The value of a gateway that is done is a proxy of the manager.
LEMMA SaysType ==
  ASSUME TypeInv, entry # None, entry.phase # "restoring"
  PROVE  Says \in Proxies /\ entry.targets \in SUBSET Targets
BY TypesOfState DEF TypeInv, Sound, Entries, Says

\* The gateways that are done still are, while no one leaves or joins the group.
LEMMA ServedStays ==
  ASSUME TypeInv, QuietInv, Quiet, entry' = entry, There'.proxy = There.proxy,
         rec' = rec, mem'.mode = mem.mode \/ mem'.mode # "apply",
         \A t \in Targets : Serves(t, There.proxy) => Serves(t, There.proxy)'
  PROVE  ServedInv'
<1> SUFFICES ASSUME entry # None, entry.phase # "restoring",
                    NEW t \in entry.targets \ entry.ptargets, ~Leaving(t)'
             PROVE  There'.proxy = Says' /\ Serves(t, Says)'
  BY DEF ServedInv
<1>1. Says' = Says /\ t \in Targets
  BY SaysType DEF Says
<1>2. ~Leaving(t)
  BY DEF Leaving
<1>3. There.proxy = Says /\ Serves(t, Says)
  BY <1>2 DEF QuietInv, Quiet, QuietState, ServedInv
<1>4. Serves(t, There.proxy)'
  BY <1>1, <1>3
<1> QED BY <1>1, <1>3, <1>4 DEF Serves

\* A step of the process alone.
LEMMA SameServes ==
  ASSUME UNCHANGED <<gw, files>>
  PROVE  /\ There' = There
         /\ \A t \in Targets : Serves(t, There.proxy) => Serves(t, There.proxy)'
BY DEF There, files, Serves

\* Nor does a step of the process alone change it.
LEMMA ProcessServed ==
  ASSUME TypeInv, QuietInv, Quiet, entry' = entry, UNCHANGED <<files, gw>>,
         rec' = rec, mem'.mode = mem.mode \/ mem'.mode # "apply"
  PROVE  ServedInv'
BY SameServes, ServedStays

\* The state, when the process writes no more than the entry.
LEMMA StateFrom ==
  ASSUME QuietInv, Quiet, UNCHANGED <<store, rec, files, user>>,
         entry' # None => entry'.orig = user.orig,
         mem'.mode = "apply" => mem.mode = "apply" /\ (entry' = None => entry = None),
         ServedInv'
  PROVE  QuietState'
BY DEF QuietInv, Quiet, QuietState, There, files, Value

\* The state, when the process writes nothing.
LEMMA SameState ==
  ASSUME TypeInv, QuietInv, Quiet, UNCHANGED <<durable, files, gw, user>>,
         mem'.mode = mem.mode \/ mem'.mode # "apply"
  PROVE  QuietState'
<1>1. entry' = entry /\ rec' = rec
  BY DEF durable
<1>2. ServedInv'
  BY <1>1, ProcessServed
<1> QED BY <1>1, <1>2, StateFrom DEF durable, QuietInv, Quiet, QuietState

\* A place of a command that has failed or ended promises little.
LEMMA BrokenPlace ==
  ASSUME rec' # None, mem'.err # "none" \/ mem'.mode = None,
         pc' \notin Swapping \cup {"confirm", "wait", "commit", "drop"},
         mem'.mode = "release" /\ pc' \in Loop \cup {"forget"} => entry' # None,
         mem'.mode = None => pc' # "applied" /\ pc' # "undone"
  PROVE  QuietPlace'
BY DEF QuietPlace

\* Nor does a place at which the file is seen to be there.
LEMMA PlainPlace ==
  ASSUME rec' # None, mem'.err = "none" => file' # None,
         pc' \notin Swapping \cup {"confirm", "wait", "commit", "drop", "undone"},
         pc' = "applied" => mem'.mode # "release",
         mem'.mode = "release" /\ pc' \in Loop \cup {"forget"} => entry' # None
  PROVE  QuietPlace'
BY DEF QuietPlace

\* The place after a failed exchange.
LEMMA SwapFailedQuiet ==
  ASSUME TypeInv, Working, SwapFailed, rec' = rec
  PROVE  QuietPlace' /\ mem'.mode = mem.mode
<1>1. rec # None /\ mem.mode # None
  BY WorkingFacts
<1>2. mem'.err # "none" /\ mem'.mode = mem.mode /\ pc' \in {"pending", "entry", "applied", "undone"}
  BY SwapFailedMoves
<1> QED BY <1>1, <1>2, BrokenPlace DEF Swapping, Loop

\* The place after a failed target.
LEMMA FailQuiet ==
  ASSUME TypeInv, QuietInv, Quiet, Working, NEW e \in {"failed", "unsettled"}, Fail(e), rec' = rec,
         mem.mode = "release" => pc \in Loop /\ entry' = entry
  PROVE  QuietPlace' /\ (mem'.mode = mem.mode \/ mem'.mode # "apply")
<1>1. rec # None /\ mem.mode # None
  BY WorkingFacts
<1>2. CASE Exit
  <2>1. mem'.mode = None /\ pc' = "idle" /\ mem'.mode # "apply" /\ mem'.mode # "release"
    BY <1>2, SentinelAssumption DEF Exit, Fresh
  <2> QED BY <1>1, <2>1, BrokenPlace DEF Swapping, Loop
<1>3. CASE mem'.mode = mem.mode /\ mem'.err # "none" /\ pc' \in {"expect", "applied", "undone"}
  <2>1. mem.mode = "release" => entry # None
    BY DEF QuietInv, Quiet, QuietPlace
  <2> QED BY <1>1, <1>3, <2>1, BrokenPlace DEF Swapping, Loop
<1> QED BY <1>2, <1>3, FailMoves

\* The quiet user's file and gateways over the plan.
LEMMA PlanQuiet ==
  ASSUME TypeInv, JournalInv, QuietInv, NEW cand \in Settings, Plan(cand)
  PROVE  QuietInv'
<1> SUFFICES ASSUME Quiet PROVE QuietState' /\ QuietPlace'
  BY DEF QuietInv, Quiet, Plan
<1>1. /\ UNCHANGED <<store, entry, files, gw, user>> /\ rec = None /\ pc' = "validate"
      /\ mem' = [Fresh EXCEPT !.mode = "apply"]
  BY DEF Plan
<1>2. file # None /\ There = file /\ There' = file /\ file' = file /\ file.proxy = Value(store)
  BY <1>1 DEF QuietInv, Quiet, QuietState, QuietPlace, There, files
<1>3. rec' # None /\ rec'.value = file.proxy /\ rec'.before = entry
  <2>1. rec' # None
    BY <1>1, PlanTypes DEF TypeInv, PlaceInv
  <2> QED BY <2>1 DEF Plan
<1>4. mem'.mode = "apply" /\ mem'.err = "none"
  BY <1>1 DEF Fresh
<1>5. ServedInv'
  <2>1. ServedInv /\ \A t : ~Leaving(t)
    BY <1>1 DEF QuietInv, Quiet, QuietState, Leaving
  <2>2. There' = There /\ entry' = entry /\ gw' = gw
    BY <1>1, <1>2
  <2> QED BY <2>1, <2>2 DEF ServedInv, Says, Serves
<1>6. entry = None => Value(store) = user.orig
  BY <1>1 DEF JournalInv, Clean, Value
<1>7. QuietState'
  BY <1>1, <1>2, <1>3, <1>5, <1>6 DEF QuietState, QuietInv, Quiet, Value
<1>8. QuietPlace'
  BY <1>1, <1>2, <1>3, <1>4, PlainPlace DEF Swapping
<1> QED BY <1>7, <1>8

\* The file is there as long as a command has not failed.
LEMMA FileThere ==
  ASSUME TypeInv, QuietInv, Quiet, Working, mem.err = "none", pc \notin {"publish", "undo"}
  PROVE  file # None /\ There = file
<1>1. mem.mode # None
  BY WorkingFacts
<1> QED BY <1>1 DEF QuietInv, Quiet, QuietPlace, There

\* The quiet user's file and gateways over the second validation.
LEMMA ValidateQuiet == ASSUME TypeInv, JournalInv, QuietInv, Validate PROVE QuietInv'
<1> SUFFICES ASSUME Quiet PROVE QuietState' /\ QuietPlace'
  BY DEF QuietInv, Quiet, Validate
<1>1. /\ UNCHANGED <<durable, files, gw, user>> /\ rec # None /\ rec' = rec /\ mem \in Memory
      /\ pc = "validate" /\ mem.mode = "apply" /\ mem.mode # None /\ mem.err = "none" /\ file' = file
  BY DEF Validate, TypeInv, PlaceInv, durable, files
<1>2. file # None
  BY <1>1 DEF QuietInv, Quiet, QuietPlace
<1>3. CASE pc' = "baseline" /\ mem' = [mem EXCEPT !.mode = IF rec.cand.on THEN "apply" ELSE "release"]
  <2>1. mem'.mode \in {"apply", "release"}
    BY <1>1, <1>3 DEF Memory
  <2> QED BY <1>1, <1>2, <1>3, <2>1, PlainPlace, SameState DEF Swapping, Loop
<1>4. CASE pc' = "failed" /\ mem' = [mem EXCEPT !.err = "failed"]
  <2>1. mem'.mode = "apply"
    BY <1>1, <1>4 DEF Memory
  <2> QED BY <1>1, <1>2, <1>4, <2>1, PlainPlace, SameState DEF Swapping, Loop
<1> QED BY <1>3, <1>4 DEF Validate

\* The quiet user's file and gateways over the look at the gateways.
LEMMA BaselineQuiet == ASSUME TypeInv, JournalInv, QuietInv, Baseline PROVE QuietInv'
<1> SUFFICES ASSUME Quiet PROVE QuietState' /\ QuietPlace'
  BY DEF QuietInv, Quiet, Baseline
<1>1. /\ UNCHANGED <<durable, files, gw, user>> /\ rec # None /\ rec' = rec /\ mem \in Memory
      /\ pc = "baseline" /\ mem.mode # None /\ mem.err = "none" /\ file' = file
      /\ pc' \in {"release", "entry"}
  BY DEF Baseline, TypeInv, PlaceInv, durable, files
<1>2. file # None
  BY <1>1 DEF QuietInv, Quiet, QuietPlace
<1>3. mem'.mode = mem.mode
  <2>1. PICK p, ts : mem' = [mem EXCEPT !.plan = p, !.todo = ts]
    BY DEF Baseline
  <2> QED BY <1>1, <2>1 DEF Memory
<1> QED BY <1>1, <1>2, <1>3, PlainPlace, SameState DEF Swapping, Loop

\* The place after a prepared target.
LEMMA NextTargetQuiet ==
  ASSUME TypeInv, QuietInv, Quiet, Working, pc \notin {"publish", "undo"}, mem.mode = "apply",
         NextTarget, rec' = rec, file' = file
  PROVE  QuietPlace' /\ mem'.mode = mem.mode
<1>1. rec # None /\ mem \in Memory
  BY WorkingFacts
<1>2. mem'.mode = mem.mode /\ mem'.err = mem.err /\ pc' \in {"pending", "entry"}
  BY <1>1 DEF NextTarget, Memory
<1> QED BY <1>1, <1>2, FileThere, PlainPlace DEF Swapping, Loop

\* The quiet user's file and gateways over a gateway that is prepared.
LEMMA PreparedQuiet == ASSUME TypeInv, QuietInv, Prepared PROVE QuietInv'
<1> SUFFICES ASSUME Quiet PROVE QuietState' /\ QuietPlace'
  BY DEF QuietInv, Quiet, Prepared
<1>1. /\ UNCHANGED <<durable, files, gw, user>> /\ rec' = rec /\ file' = file /\ NextTarget
      /\ mem.mode = "apply" /\ pc = "prepared" /\ Working
  BY DEF Prepared, durable, files, Working, TypeInv, PlaceInv
<1> QED BY <1>1, NextTargetQuiet, SameState

\* The quiet user's file and gateways over the choice of what is reconciled.
LEMMA PendingQuiet == ASSUME TypeInv, QuietInv, Pending PROVE QuietInv'
<1> SUFFICES ASSUME Quiet PROVE QuietState' /\ QuietPlace'
  BY DEF QuietInv, Quiet, Pending
<1>1. /\ UNCHANGED <<durable, files, gw, user>> /\ rec' = rec /\ file' = file
      /\ mem.mode = "apply" /\ pc = "pending" /\ Working /\ mem \in Memory /\ rec # None
  BY DEF Pending, durable, files, Working, TypeInv, PlaceInv
<1>2. /\ pc' \in {"applied", "expect"} /\ mem'.mode = mem.mode
      /\ mem'.err = mem.err \/ mem'.err # "none"
  <2>1. PICK act : \/ pc' \in {"applied", "expect"} /\ mem' = [mem EXCEPT !.todo = act]
                   \/ pc' = "applied" /\ mem' = [mem EXCEPT !.err = Worse("failed")]
    BY DEF Pending
  <2> QED BY <1>1, <2>1, WorseType DEF Memory
<1> QED BY <1>1, <1>2, FileThere, PlainPlace, SameState DEF Swapping, Loop

\* An exchange is about the value the process is after, and its gateways wait.
LEMMA MovedQuiet ==
  ASSUME TypeInv, EditInv, QuietInv, Quiet, pc \in Swapping, UNCHANGED <<durable, gw, user>>, There' # None,
         \/ SwapFailed
         \/ Swapped /\ file' # None
         \/ mem' = mem /\ pc' = "publish"
         \/ mem' = mem /\ pc' = "retire" /\ file' # None
  PROVE  QuietState' /\ QuietPlace'
<1>1. /\ entry' = entry /\ rec' = rec /\ store' = store /\ Working /\ mem \in Memory /\ entry # None /\ rec # None
      /\ mem.then \in {"prepared", "restore", "undoing"} /\ mem.mode \in {"apply", "release", "undo"}
  BY SwapFacts, WorkingFacts DEF Working, Swapping, TypeInv, PlaceInv, Exchange, durable, Memory
<1>2. entry.phase = "restoring" \/ entry.ptargets = entry.targets
  BY DEF QuietInv, Quiet, QuietPlace
<1>3. ServedInv'
  BY <1>1, <1>2 DEF ServedInv
<1>4. mem'.mode = mem.mode
  BY <1>1, SwapFailedMoves DEF Swapped, Memory
<1>5. QuietState'
  BY <1>1, <1>3, <1>4 DEF QuietState, QuietInv, Quiet, Value
<1>6. CASE SwapFailed
  BY <1>1, <1>5, <1>6, SwapFailedQuiet
<1>7. CASE Swapped /\ file' # None
  BY <1>1, <1>5, <1>7, PlainPlace DEF Swapped, Swapping, Loop
<1>8. CASE mem' = mem /\ (pc' = "publish" \/ (pc' = "retire" /\ file' # None))
  BY <1>1, <1>5, <1>8 DEF QuietInv, Quiet, QuietPlace, Swapping, Loop
<1> QED BY <1>6, <1>7, <1>8

\* The quiet user's file and gateways over the claim of the file.
LEMMA TakeQuiet == ASSUME TypeInv, EditInv, QuietInv, Take PROVE QuietInv'
<1> SUFFICES ASSUME Quiet PROVE QuietState' /\ QuietPlace'
  BY DEF QuietInv, Quiet, Take
<1>1. UNCHANGED <<durable, gw, user>> /\ pc \in Swapping
  BY DEF Take, Swapping
<1>2. There' = There /\ There # None
  BY DEF Take, There, files, QuietInv, Quiet, QuietState
<1>3. \/ SwapFailed
      \/ Swapped /\ file' # None
      \/ mem' = mem /\ pc' = "publish"
  BY DEF Take, Goto
<1> QED BY <1>1, <1>2, <1>3, MovedQuiet

\* The quiet user's file and gateways over the publication.
LEMMA PublishQuiet == ASSUME TypeInv, EditInv, QuietInv, Publish PROVE QuietInv'
<1> SUFFICES ASSUME Quiet PROVE QuietState' /\ QuietPlace'
  BY DEF QuietInv, Quiet, Publish
<1>1. UNCHANGED <<durable, gw, user>> /\ pc \in Swapping /\ mem.goal # None /\ mem.raw # None
  BY SentinelAssumption DEF Publish, Swapping, TypeInv, PlaceInv, Exchange
<1>2. There' # None
  BY <1>1 DEF Publish, There, files, QuietInv, Quiet, QuietState
<1>3. \/ SwapFailed
      \/ mem' = mem /\ pc' = "retire" /\ file' # None
  BY <1>1 DEF Publish, Goto
<1> QED BY <1>1, <1>2, <1>3, MovedQuiet

\* The quiet user's file and gateways over the end of the claim.
LEMMA RetireQuiet == ASSUME TypeInv, EditInv, QuietInv, Retire PROVE QuietInv'
<1> SUFFICES ASSUME Quiet PROVE QuietState' /\ QuietPlace'
  BY DEF QuietInv, Quiet, Retire
<1>1. UNCHANGED <<durable, gw, user>> /\ pc \in Swapping /\ file # None /\ file' = file
  BY DEF Retire, Swapping, EditInv, Quiet
<1>2. There' # None
  BY <1>1 DEF There
<1>3. \/ SwapFailed
      \/ Swapped /\ file' # None
  BY <1>1 DEF Retire
<1> QED BY <1>1, <1>2, <1>3, MovedQuiet

\* An exchange begins, with every gateway still to follow.
LEMMA SetProxyQuiet ==
  ASSUME TypeInv, QuietInv, Quiet, Working, file \in Files, file' = file, NEW v \in Values,
         NEW p \in {"prepared", "restore", "undoing"},
         SetProxy(v, p), rec' = rec, user' = user, entry' # None,
         file.proxy # v => entry'.phase = "restoring" \/ entry'.ptargets = entry'.targets,
         v = IF mem.mode = "apply" THEN rec.cand.proxy
             ELSE IF mem.mode = "release" THEN user.orig ELSE rec.value
  PROVE  QuietPlace' /\ mem'.mode = mem.mode
<1>1. rec # None /\ mem \in Memory /\ mem.mode # None /\ file # None
  BY WorkingFacts, SentinelAssumption
<1>2. CASE file.proxy = v
  <2>1. pc' = p /\ mem' = mem
    BY <1>2 DEF SetProxy
  <2> QED BY <1>1, <2>1, PlainPlace DEF Swapping, Loop
<1>3. CASE file.proxy # v
  <2> DEFINE g == [file EXCEPT !.proxy = v]
  <2>1. pc' = "take" /\ mem' = [mem EXCEPT !.raw = file, !.goal = g, !.then = p]
    BY <1>3 DEF SetProxy
  <2>2. g.proxy = v
    BY DEF Files
  <2> HIDE DEF g
  <2>3. mem'.mode = mem.mode /\ mem'.goal = g
    BY <1>1, <2>1 DEF Memory
  <2> QED BY <1>1, <1>3, <2>1, <2>2, <2>3 DEF QuietPlace, Swapping, Loop
<1> QED BY <1>2, <1>3

\* The quiet user's file and gateways over the announcement of an apply.
LEMMA ApplyEntryQuiet == ASSUME TypeInv, JournalInv, QuietInv, ApplyEntry PROVE QuietInv'
<1> SUFFICES ASSUME Quiet PROVE QuietState' /\ QuietPlace'
  BY DEF QuietInv, Quiet, ApplyEntry
<1>1. /\ UNCHANGED <<store, rec, files, gw, user>> /\ rec' = rec /\ file' = file /\ Working
      /\ mem \in Memory /\ file \in Files \cup {None} /\ pc = "entry" /\ mem.mode = "apply"
      /\ Sound(entry) /\ rec.cand.proxy \in Proxies /\ rec.cand.proxy \in Values
      /\ Cur \in Targets
  BY TypesOfState, WorkingFacts, CurIsTarget
  DEF ApplyEntry, Working, TypeInv, PlaceInv, Values, Looping, AtTarget, files
<1>2. SwapFailed => QuietPlace' /\ mem'.mode = mem.mode
  BY <1>1, SwapFailedQuiet
<1>3. NextTarget => QuietPlace' /\ mem'.mode = mem.mode
  BY <1>1, NextTargetQuiet
<1>4. There' = There /\ \A t, v : Serves(t, v)' <=> Serves(t, v)
  BY <1>1 DEF There, files, Serves
<1> DEFINE c == rec.cand.proxy
<1>5. mem'.mode = mem.mode /\ entry' = entry => QuietState'
  <2>1. mem'.mode = mem.mode /\ entry' = entry => ServedInv'
    BY <1>1, ProcessServed
  <2> QED BY <1>1, <2>1, StateFrom DEF QuietInv, Quiet, QuietState
<1>6. CASE (SwapFailed \/ NextTarget) /\ entry' = entry
  BY <1>2, <1>3, <1>5, <1>6
<1>7. CASE /\ file # None /\ entry = None
           /\ Announces(Entry(file.proxy, c, c, {Cur}, {Cur}, "prepared"))
  <2> DEFINE e == Entry(file.proxy, c, c, {Cur}, {Cur}, "prepared")
  <2>1. /\ e.orig = user.orig /\ e.targets = e.ptargets
    BY <1>1, <1>7 DEF Entry, QuietInv, Quiet, QuietState, There
  <2>2. e # None
    <3>1. file \in Files /\ file.proxy \in Values
      BY <1>1, <1>7 DEF Files
    <3> QED BY <1>1, <3>1, SentinelAssumption DEF Entry, Entries
  <2> HIDE DEF e
  <2>3. entry' = e => ServedInv'
    BY <2>1 DEF ServedInv
  <2>4. entry' = e /\ mem'.mode = mem.mode => QuietState'
    BY <1>1, <2>1, <2>2, <2>3, StateFrom
  <2>5. CASE SwapFailed /\ entry' \in {entry, e}
    BY <1>2, <1>5, <2>4, <2>5
  <2>6. CASE entry' = e /\ SetProxy(c, "prepared")
    <3>1. QuietPlace' /\ mem'.mode = mem.mode
      BY <1>1, <1>7, <2>1, <2>2, <2>6, SetProxyQuiet
    <3> QED BY <2>4, <2>6, <3>1
  <2> QED BY <1>7, <2>5, <2>6 DEF SaveEntry, Announces, e
<1>8. ASSUME entry # None, file # None,
             \/ /\ entry.phase = "active" /\ entry.managed = c /\ Cur \notin entry.targets
                /\ SaveEntry(Joined(entry.targets \cup {Cur}, {Cur}), NextTarget, SwapFailed)
             \/ Announces(Joined(entry.targets \cup {Cur}, entry.targets \cup {Cur}))
      PROVE  QuietState' /\ QuietPlace'
  <2> DEFINE ts == entry.targets \cup {Cur}
  <2>1. PICK ps \in {{Cur}, ts} :
          \/ /\ entry.phase = "active" /\ entry.managed = c /\ ps = {Cur}
             /\ SaveEntry(Joined(ts, ps), NextTarget, SwapFailed)
          \/ ps = ts /\ Announces(Joined(ts, ps))
    BY <1>8
  <2>2. ts \in SUBSET Targets /\ ps \in SUBSET ts /\ ps # {}
    BY <1>1, <1>8 DEF Sound, Entries
  <2> DEFINE e == Joined(ts, ps)
  <2> HIDE DEF ts
  <2>3. /\ e # None /\ e.orig = user.orig /\ e.targets = ts /\ e.ptargets = ps
        /\ e.pending = c /\ e.phase = "prepared"
    BY <1>1, <1>8, <2>2, JoinedEntry DEF QuietInv, Quiet, QuietState
  <2> HIDE DEF e
  <2>4. entry' = e /\ mem'.mode = mem.mode => ServedInv'
    <3> SUFFICES ASSUME entry' = e, mem'.mode = mem.mode, NEW t \in ts \ ps
                 PROVE  There'.proxy = Says' /\ Serves(t, Says)'
      BY <2>3 DEF ServedInv
    <3>1. entry.phase = "active" /\ entry.managed = c /\ ps = {Cur}
      BY <2>1
    <3>2. t \in entry.targets \ entry.ptargets /\ ~Leaving(t)
      BY <1>1, <1>8, <3>1 DEF ts, Sound, Leaving
    <3>3. There.proxy = c /\ Serves(t, c)
      BY <1>8, <3>1, <3>2 DEF QuietInv, Quiet, QuietState, ServedInv, Says
    <3>4. Says' = c
      BY <2>3 DEF Says
    <3>5. Serves(t, c)'
      BY <1>1, <3>3 DEF Serves
    <3> QED BY <1>4, <3>3, <3>4, <3>5 DEF Serves
  <2>5. entry' = e /\ mem'.mode = mem.mode => QuietState'
    BY <1>1, <2>3, <2>4, StateFrom
  <2>6. CASE SwapFailed /\ entry' \in {entry, e}
    BY <1>2, <1>5, <2>5, <2>6
  <2>7. CASE NextTarget /\ entry' = e
    BY <1>3, <2>5, <2>7
  <2>8. CASE entry' = e /\ ps = ts /\ SetProxy(c, "prepared")
    <3>1. QuietPlace' /\ mem'.mode = mem.mode
      BY <1>1, <1>8, <2>3, <2>8, SetProxyQuiet
    <3> QED BY <2>5, <2>8, <3>1
  <2> QED BY <2>1, <2>6, <2>7, <2>8 DEF SaveEntry, Announces, e
<1> QED BY <1>6, <1>7, <1>8, ApplyEntryForms

\* A reconciled gateway is committed only when it serves the file's value.
LEMMA ReconciledQuiet ==
  ASSUME TypeInv, QuietInv, Quiet, pc \in Loop, Reconciled, rec' = rec, file' = file, entry' = entry,
         There' = There,
         mem.mode = "apply" \/ (mem.mode = "undo" /\ rec.before # None) => Serves(Cur, There.proxy)'
  PROVE  QuietPlace' /\ mem'.mode = mem.mode
<1>1. Working /\ rec # None /\ mem \in Memory /\ mem.mode \in {"apply", "release", "undo"}
  BY WorkingFacts DEF Working, Loop
<1>2. mem.err = "none" => file # None
  BY <1>1, FileThere DEF Loop
<1>3. mem.mode = "release" => entry # None
  BY DEF QuietInv, Quiet, QuietPlace
<1>4. CASE mem.mode = "apply" \/ (mem.mode = "undo" /\ rec.before # None)
  <2>1. /\ pc' = "commit" /\ mem'.mode = mem.mode /\ mem'.todo = mem.todo /\ mem'.err = mem.err
    BY <1>1, <1>4 DEF Reconciled, Memory
  <2>2. Cur' = Cur
    BY <2>1 DEF Cur
  <2>3. Serves(Cur, There.proxy)'
    BY <1>4
  <2> QED BY <1>1, <1>2, <1>3, <1>4, <2>1, <2>2, <2>3 DEF QuietPlace, Swapping, Loop
<1>5. CASE ~(mem.mode = "apply" \/ (mem.mode = "undo" /\ rec.before # None))
  <2>1. /\ mem'.mode = mem.mode /\ mem'.err = mem.err
        /\ pc' \in {"restart", "expect", "final", "forget", "applied"}
        /\ pc' = "applied" => mem.err # "none"
    <3> DEFINE rest == mem.todo \ {Cur}
    <3>1. /\ mem' = [mem EXCEPT !.todo = rest, !.raw = None]
          /\ pc' = IF rest # {} THEN (IF mem.mode = "undo" THEN "restart" ELSE "expect")
                   ELSE IF mem.mode = "undo" THEN "final"
                   ELSE IF mem.err = "none" THEN "forget" ELSE "applied"
      BY <1>5 DEF Reconciled
    <3> HIDE DEF rest
    <3> QED BY <1>1, <3>1 DEF Memory
  <2> QED BY <1>1, <1>2, <1>3, <1>5, <2>1 DEF QuietPlace, Swapping, Loop
<1> QED BY <1>4, <1>5

\* Within the loop, where the process goes on with the same gateway.
LEMMA OnwardQuiet ==
  ASSUME TypeInv, QuietInv, Quiet, pc \in Loop, rec' = rec, file' = file, entry' = entry, There' = There,
         mem'.mode = mem.mode, mem'.todo = mem.todo, mem'.err = mem.err,
         pc' \in (Loop \ {"commit"}) \cup {"absent"},
         pc' \in {"confirm", "wait"} => Serves(Cur, There.proxy)'
  PROVE  QuietPlace'
<1>1. Working /\ rec # None
  BY WorkingFacts DEF Working, Loop
<1>2. mem.err = "none" => file # None
  BY <1>1, FileThere DEF Loop
<1>3. mem.mode = "release" => entry # None
  BY DEF QuietInv, Quiet, QuietPlace
<1> QED BY <1>1, <1>2, <1>3 DEF QuietPlace, Swapping, Loop

\* The quiet user's file and gateways over the check before an observation.
LEMMA ExpectQuiet == ASSUME TypeInv, QuietInv, Expect PROVE QuietInv'
<1> SUFFICES ASSUME Quiet PROVE QuietState' /\ QuietPlace'
  BY DEF QuietInv, Quiet, Expect
<1>1. /\ UNCHANGED <<durable, files, gw, user>> /\ rec' = rec /\ file' = file /\ entry' = entry
      /\ pc = "expect" /\ pc \in Loop /\ Working /\ mem \in Memory /\ mem.mode \in {"apply", "release"}
      /\ There' = There
  BY DEF Expect, durable, files, Working, Loop, TypeInv, PlaceInv, There
<1>2. CASE mem.mode = "release" /\ Reconciled
  BY <1>1, <1>2, ReconciledQuiet, SameState
<1>3. CASE Goto("restart") \/ (pc' = "observe" /\ mem' = [mem EXCEPT !.raw = file])
  <2>1. mem'.mode = mem.mode /\ mem'.todo = mem.todo /\ mem'.err = mem.err
        /\ pc' \in {"restart", "observe"}
    BY <1>1, <1>3 DEF Goto, Memory
  <2> QED BY <1>1, <2>1, OnwardQuiet, SameState DEF Loop
<1>4. CASE Fail("failed")
  BY <1>1, <1>4, FailQuiet, SameState
<1> QED BY <1>2, <1>3, <1>4 DEF Expect

\* What a gateway shows that has taken the new file is that it serves it.
LEMMA ObserveQuiet == ASSUME TypeInv, QuietInv, Observe PROVE QuietInv'
<1> SUFFICES ASSUME Quiet PROVE QuietState' /\ QuietPlace'
  BY DEF QuietInv, Quiet, Observe
<1>1. /\ UNCHANGED <<durable, files, gw, user>> /\ rec' = rec /\ file' = file /\ entry' = entry
      /\ mem' = mem /\ pc \in Loop /\ There' = There /\ gw' = gw
      /\ pc' \in {"confirm", "fallback"} /\ pc = "observe"
  BY DEF Observe, durable, files, Loop, TypeInv, PlaceInv, There
<1>2. ASSUME pc' = "confirm" PROVE Serves(Cur, There.proxy)'
  <2>1. Evidence(Cur)
    BY <1>2 DEF Observe
  <2>2. Cur \in Targets
    BY <1>1, CurIsTarget DEF Looping, AtTarget
  <2>3. Running(gw[Cur])
    BY <2>2, GatewayTypes DEF TypeInv
  <2>4. CASE ~gw[Cur].up
    BY <1>1, <2>4 DEF Serves, Cur
  <2>5. CASE gw[Cur].up /\ gw[Cur].applied = file /\ ~gw[Cur].pend
    <3>1. There = file /\ gw[Cur].chan = file.proxy
      BY <2>3, <2>5, SentinelAssumption DEF Running, There
    <3> QED BY <1>1, <2>5, <3>1 DEF Serves, Cur
  <2> QED BY <2>1, <2>4, <2>5 DEF Evidence
<1> QED BY <1>1, <1>2, OnwardQuiet, SameState DEF Loop

\* The quiet user's file and gateways over the check after it.
LEMMA ConfirmQuiet == ASSUME TypeInv, QuietInv, Confirm PROVE QuietInv'
<1> SUFFICES ASSUME Quiet PROVE QuietState' /\ QuietPlace'
  BY DEF QuietInv, Quiet, Confirm
<1>1. /\ UNCHANGED <<durable, files, gw, user>> /\ rec' = rec /\ file' = file /\ entry' = entry
      /\ pc \in {"confirm", "fallback"} /\ pc \in Loop /\ Working /\ mem \in Memory
      /\ mem.mode \in {"apply", "release"} /\ There' = There /\ gw' = gw
  BY DEF Confirm, durable, files, Working, Loop, TypeInv, PlaceInv, There
<1>2. CASE pc = "confirm" /\ Reconciled
  <2>1. mem.mode = "apply" => Cur' = Cur
    BY <1>1, <1>2 DEF Reconciled, Memory, Cur
  <2>2. Serves(Cur, There.proxy)
    BY <1>2 DEF QuietInv, Quiet, QuietPlace
  <2>3. mem.mode = "apply" => Serves(Cur, There.proxy)'
    BY <1>1, <2>1, <2>2 DEF Serves
  <2> QED BY <1>1, <1>2, <2>3, ReconciledQuiet, SameState
<1>3. CASE pc' = "restart" /\ mem' = mem
  BY <1>1, <1>3, OnwardQuiet, SameState DEF Loop
<1>4. CASE Fail("failed")
  BY <1>1, <1>4, FailQuiet, SameState
<1> QED BY <1>2, <1>3, <1>4 DEF Confirm

\* The value a gateway reaches when its queued restart is carried out is not
\* known yet; what the others serve stays.
LEMMA RestartQuiet == ASSUME TypeInv, JournalInv, QuietInv, Restart PROVE QuietInv'
<1> SUFFICES ASSUME Quiet PROVE QuietState' /\ QuietPlace'
  BY DEF QuietInv, Quiet, Restart
<1>1. /\ UNCHANGED <<durable, files, user>> /\ rec' = rec /\ file' = file /\ entry' = entry /\ store' = store
      /\ pc = "restart" /\ pc \in Loop /\ Working /\ mem \in Memory
      /\ mem.mode \in {"apply", "release", "undo"} /\ There' = There /\ Cur \in Targets
      /\ gw \in [Targets -> Gateway]
  BY WorkingFacts, CurIsTarget, GatewayTypes DEF Restart, durable, files, Working, Loop, TypeInv, There, Looping, AtTarget
<1>2. CASE Fail("failed") /\ UNCHANGED gw
  BY <1>1, <1>2, FailQuiet, SameState
<1>3. CASE Fail("unsettled") /\ UNCHANGED gw
  BY <1>1, <1>3, FailQuiet, SameState
<1>4. CASE Reconciled /\ UNCHANGED gw /\ (~gw[Cur].up \/ (mem.mode = "undo" /\ rec.before = None))
  <2>1. mem.mode = "apply" \/ (mem.mode = "undo" /\ rec.before # None) => Cur' = Cur /\ ~gw[Cur].up
    BY <1>1, <1>4 DEF Reconciled, Memory, Cur
  <2>2. mem.mode = "apply" \/ (mem.mode = "undo" /\ rec.before # None) => Serves(Cur, There.proxy)'
    BY <1>4, <2>1 DEF Serves
  <2> QED BY <1>1, <1>4, <2>2, ReconciledQuiet, SameState
<1>5. CASE Goto("absent") /\ UNCHANGED gw
  BY <1>1, <1>5, OnwardQuiet, SameState DEF Goto
<1>6. CASE gw' = [gw EXCEPT ![Cur].job = TRUE] /\ Goto("wait")
  <2>1. gw'[Cur].job /\ \A t \in Targets \ {Cur} : gw'[t] = gw[t]
    BY <1>1, <1>6 DEF Gateway
  <2>2. \A t \in Targets : Serves(t, There.proxy) => Serves(t, There.proxy)'
    BY <1>1, <2>1 DEF Serves
  <2>3. mem' = mem /\ Cur' = Cur /\ pc' = "wait"
    BY <1>6 DEF Goto, Cur
  <2>4. Serves(Cur, There.proxy)'
    BY <2>1, <2>3 DEF Serves
  <2>5. ServedInv'
    BY <1>1, <2>2, <2>3, ServedStays
  <2>6. QuietState'
    BY <1>1, <2>3, <2>5, StateFrom DEF QuietInv, Quiet, QuietState
  <2> QED BY <1>1, <2>3, <2>4, <2>6, OnwardQuiet DEF Loop
<1> QED BY <1>2, <1>3, <1>4, <1>5, <1>6 DEF Restart, Valid

\* The quiet user's file and gateways over the wait for a restart.
LEMMA WaitQuiet == ASSUME TypeInv, QuietInv, Wait PROVE QuietInv'
<1> SUFFICES ASSUME Quiet PROVE QuietState' /\ QuietPlace'
  BY DEF QuietInv, Quiet, Wait
<1>1. /\ UNCHANGED <<durable, files, gw, user>> /\ rec' = rec /\ file' = file /\ entry' = entry
      /\ pc = "wait" /\ pc \in Loop /\ Working /\ mem \in Memory
      /\ There' = There /\ gw' = gw
  BY DEF Wait, durable, files, Working, Loop, TypeInv, PlaceInv, There
<1>2. CASE Reconciled
  <2>1. mem.mode = "apply" \/ (mem.mode = "undo" /\ rec.before # None) => Cur' = Cur
    BY <1>1, <1>2 DEF Reconciled, Memory, Cur
  <2>2. Serves(Cur, There.proxy)
    BY <1>1 DEF QuietInv, Quiet, QuietPlace
  <2>3. mem.mode = "apply" \/ (mem.mode = "undo" /\ rec.before # None) => Serves(Cur, There.proxy)'
    BY <1>1, <2>1, <2>2 DEF Serves
  <2> QED BY <1>1, <1>2, <2>3, ReconciledQuiet, SameState
<1>3. CASE Fail("failed")
  BY <1>1, <1>3, FailQuiet, SameState
<1>4. CASE Fail("unsettled")
  BY <1>1, <1>4, FailQuiet, SameState
<1> QED BY <1>2, <1>3, <1>4 DEF Wait

\* The place after a committed target.
LEMMA AdvanceQuiet ==
  ASSUME TypeInv, QuietInv, Quiet, pc \in {"commit", "absent"}, Advance, rec' = rec, file' = file
  PROVE  QuietPlace' /\ mem'.mode = mem.mode
<1>1. Working /\ rec # None /\ mem \in Memory /\ mem.mode \in {"apply", "undo"}
  BY WorkingFacts DEF Working, TypeInv, PlaceInv
<1>2. mem.err = "none" => file # None
  BY <1>1, FileThere
<1>3. /\ mem'.mode = mem.mode /\ mem'.err = mem.err
      /\ pc' \in {"final", "restart", "applied", "expect"}
  BY <1>1 DEF Advance, Memory
<1> QED BY <1>1, <1>2, <1>3, PlainPlace DEF Swapping, Loop

\* A committed gateway is one that serves the pending value.
LEMMA CommittedServed ==
  ASSUME TypeInv, QuietInv, Quiet, UNCHANGED <<files, gw, rec>>, entry # None, entry.phase = "prepared",
         Cur \in Targets, file # None, file.proxy = entry.pending,
         mem'.mode = mem.mode \/ mem'.mode # "apply",
         Serves(Cur, entry.pending), entry' \in {entry, Committed(Cur)}
  PROVE  ServedInv' /\ entry' # None /\ entry'.orig = entry.orig
<1>1. Sound(entry) /\ There' = There /\ There = file /\ rec' = rec
  BY TypesOfState DEF TypeInv, There, files
<1>2. CASE entry' = entry
  BY <1>1, <1>2, ProcessServed
<1>3. CASE entry' = Committed(Cur)
  <2> DEFINE e == Committed(Cur)
             ps == entry.ptargets \ {Cur}
  <2>1. /\ e # None /\ e.orig = entry.orig /\ e.targets = entry.targets /\ e.ptargets = ps
        /\ e.phase \in {"prepared", "active"}
        /\ (IF e.phase = "active" THEN e.managed ELSE e.pending) = entry.pending
    BY <1>1, CommittedEntry
  <2> HIDE DEF e
  <2>2. ServedInv'
    <3> SUFFICES ASSUME NEW t \in entry.targets \ ps, ~Leaving(t)'
                 PROVE  There'.proxy = entry.pending /\ Serves(t, entry.pending)
      BY <1>1, <1>3, <2>1 DEF ServedInv, Says, Serves, e
    <3>1. CASE t = Cur
      BY <1>1, <3>1
    <3>2. CASE t # Cur
      <4>1. t \in entry.targets \ entry.ptargets /\ ~Leaving(t)
        BY <1>1, <3>2 DEF Leaving
      <4> QED BY <1>1, <4>1 DEF QuietInv, Quiet, QuietState, ServedInv, Says
    <3> QED BY <3>1, <3>2
  <2> QED BY <1>3, <2>1, <2>2 DEF e
<1> QED BY <1>2, <1>3

\* The quiet user's file and gateways over the commit of a gateway.
LEMMA CommitQuiet ==
  ASSUME TypeInv, JournalInv, QuietInv, Commit \/ Absent
  PROVE  QuietInv'
<1> SUFFICES ASSUME Quiet PROVE QuietState' /\ QuietPlace'
  BY DEF QuietInv, Quiet, Commit, Absent
<1>1. /\ UNCHANGED <<store, rec, files, gw, user>> /\ rec' = rec /\ file' = file /\ Working
      /\ pc \in {"commit", "absent"} /\ Cur \in Targets /\ mem.mode \in {"apply", "undo"} /\ mem.mode # "release"
      /\ rec # None /\ Sound(entry)
  BY CurIsTarget, TypesOfState DEF Commit, Absent, files, Working, TypeInv, PlaceInv, Looping, AtTarget, Loop
<1>2. Advance \/ Fail("failed")
  BY DEF Commit, Absent, SaveEntry
<1>3. QuietPlace' /\ (mem'.mode = mem.mode \/ mem'.mode # "apply")
  BY <1>1, <1>2, AdvanceQuiet, FailQuiet
<1>4. ServedInv' /\ (entry' # None => entry # None /\ entry'.orig = entry.orig)
                 /\ (entry' = None => entry = None)
  <2>1. CASE entry' = entry
    BY <1>1, <1>3, <2>1, ProcessServed
  <2>2. CASE /\ Commit /\ entry # None /\ entry.phase = "prepared" /\ file # None
             /\ file.proxy = entry.pending /\ entry' \in {entry, Committed(Cur)}
    <3>1. There = file /\ Serves(Cur, There.proxy)
      BY <2>2 DEF Commit, QuietInv, Quiet, QuietPlace, There
    <3> QED BY <1>1, <1>3, <2>2, <3>1, CommittedServed
  <2>3. CASE /\ Absent /\ entry # None /\ entry.phase = "prepared" /\ file # None
             /\ entry.pending = rec.before.managed
             /\ file.proxy = rec.value /\ entry' \in {entry, Committed(Cur)}
    <3>1. rec.before # None /\ ~gw[Cur].unit
      BY <2>3 DEF Absent, TypeInv, PlaceInv
    <3>2. file.proxy = entry.pending
      BY <1>1, <2>3, <3>1 DEF JournalInv, RecordInv
    <3>3. Serves(Cur, entry.pending)
      BY <3>1 DEF Serves
    <3> QED BY <1>1, <1>3, <2>3, <3>2, <3>3, CommittedServed
  <2> QED BY <2>1, <2>2, <2>3 DEF Commit, Absent, SaveEntry
<1>5. QuietState'
  <2>1. mem'.mode = "apply" => mem.mode = "apply"
    BY <1>3
  <2> QED BY <1>1, <1>4, <2>1, StateFrom DEF QuietInv, Quiet, QuietState
<1> QED BY <1>3, <1>5

\* The quiet user's file and gateways over the announcement of a release.
LEMMA ReleaseQuiet == ASSUME TypeInv, JournalInv, QuietInv, Release PROVE QuietInv'
<1> SUFFICES ASSUME Quiet PROVE QuietState' /\ QuietPlace'
  BY DEF QuietInv, Quiet, Release
<1>1. /\ UNCHANGED <<store, rec, files, gw, user>> /\ rec' = rec /\ file' = file /\ Working
      /\ mem \in Memory /\ file \in Files \cup {None} /\ Sound(entry) /\ pc = "release"
      /\ mem.mode = "release" /\ mem.mode # "apply" /\ rec # None /\ user.orig \in Values
      /\ ~rec.cand.on /\ entry = rec.before /\ rec.cand \in Settings
  BY TypesOfState, WorkingFacts
  DEF Release, Working, TypeInv, DataInv, Users, PlaceInv, files, JournalInv, ReleaseInv, Records
<1>2. entry # None
  <2>1. rec.cand.sel = {}
    BY <1>1 DEF Settings
  <2> QED BY <1>1, <2>1 DEF JournalInv, RecordInv, BeforeTargets
<1>3. /\ entry.phase = "active" /\ entry.ptargets = {} /\ entry.targets # {} /\ entry.managed \in Proxies
  BY <1>1, <1>2, BeforeIsClean DEF Sound, Entries
<1>4. There.proxy = entry.managed
  <2>1. PICK t : t \in entry.targets \ entry.ptargets
    BY <1>3
  <2>2. ~Leaving(t)
    BY <1>1, <2>1 DEF Leaving
  <2> QED BY <1>2, <1>3, <2>1, <2>2 DEF QuietInv, Quiet, QuietState, ServedInv, Says
<1>5. SwapFailed => QuietPlace' /\ mem'.mode = mem.mode
  BY <1>1, SwapFailedQuiet
<1>6. entry' = entry /\ mem'.mode = mem.mode => QuietState'
  <2>1. mem'.mode = mem.mode /\ entry' = entry => ServedInv'
    BY <1>1, ProcessServed
  <2> QED BY <1>1, <2>1, StateFrom DEF QuietInv, Quiet, QuietState
<1>7. CASE SwapFailed /\ entry' = entry
  BY <1>5, <1>6, <1>7
<1>8. CASE file # None
  <2> DEFINE o == IF file.proxy = entry.managed THEN entry.orig ELSE file.proxy
             e == [entry EXCEPT !.phase = "restoring", !.pending = None, !.ptargets = {}, !.orig = o]
             G == IF file.proxy = entry.managed /\ file.proxy = entry.orig THEN Goto("drop")
                  ELSE SetProxy(e.orig, "restore")
  <2>1. SaveEntry(e, G, SwapFailed)
    BY <1>2, <1>8 DEF Release
  <2>2. file \in Files /\ There = file /\ There' = file
    BY <1>1, <1>8 DEF There
  <2>3. file.proxy = entry.managed /\ o = user.orig /\ o = entry.orig
    BY <1>2, <1>4, <2>2 DEF QuietInv, Quiet, QuietState
  <2>4. e # None /\ e.orig = user.orig /\ e.phase = "restoring"
    <3>1. o \in Values
      BY <1>1, <2>3
    <3>2. e # None /\ e.orig = o /\ e.phase = "restoring"
      <4> HIDE DEF o
      <4> QED BY <1>1, <1>2, <3>1, RestoringEntry
    <3> QED BY <2>3, <3>2
  <2>6. G => \/ Goto("drop") /\ file.proxy = user.orig
             \/ SetProxy(user.orig, "restore")
    <3> HIDE DEF o
    <3>1. e.orig = user.orig
      BY <2>4
    <3> HIDE DEF e
    <3> QED BY <2>3, <3>1
  <2> HIDE DEF o, e, G
  <2>7. entry' = e /\ mem'.mode = mem.mode => QuietState'
    <3>1. entry' = e => ServedInv'
      BY <2>4 DEF ServedInv
    <3> QED BY <1>1, <2>4, <3>1, StateFrom
  <2>8. CASE SwapFailed /\ entry' \in {entry, e}
    BY <1>5, <1>6, <2>7, <2>8
  <2>9. CASE entry' = e /\ SetProxy(user.orig, "restore")
    <3>1. QuietPlace' /\ mem'.mode = mem.mode
      BY <1>1, <2>2, <2>4, <2>9, SetProxyQuiet
    <3> QED BY <2>7, <2>9, <3>1
  <2>10. CASE entry' = e /\ Goto("drop") /\ file.proxy = user.orig
    BY <1>1, <1>8, <2>2, <2>4, <2>7, <2>10 DEF Goto, QuietPlace, Swapping, Loop
  <2> QED BY <2>1, <2>6, <2>8, <2>9, <2>10 DEF SaveEntry
<1> QED BY <1>2, <1>7, <1>8 DEF Release

\* An entry goes only when the original value is in the file.
LEMMA DropsQuiet == ASSUME TypeInv, QuietInv, Drop \/ Forget PROVE QuietInv'
<1> SUFFICES ASSUME Quiet PROVE QuietState' /\ QuietPlace'
  BY DEF QuietInv, Quiet, Drop, Forget
<1>1. /\ UNCHANGED <<store, rec, files, gw, user>> /\ rec' = rec /\ file' = file /\ Working /\ There' = There
      /\ pc \in {"drop", "forget"} /\ mem.mode = "release" /\ mem.mode # "apply" /\ rec # None /\ entry # None
  BY DEF Drop, Forget, files, Working, TypeInv, PlaceInv, QuietInv, Quiet, QuietPlace, There
<1>2. SwapFailed => QuietPlace' /\ mem'.mode = mem.mode
  BY <1>1, SwapFailedQuiet
<1>3. mem'.mode = mem.mode /\ entry' \in {entry, None} => QuietState'
  <2>1. mem'.mode = mem.mode /\ entry' \in {entry, None} => ServedInv'
    BY <1>1, ProcessServed DEF ServedInv
  <2> QED BY <1>1, <2>1, StateFrom DEF QuietInv, Quiet, QuietState
<1>4. CASE SwapFailed /\ entry' \in {entry, None}
  BY <1>2, <1>3, <1>4
<1>5. CASE Goto("applied") /\ entry' = None /\ There.proxy = entry.orig
  <2>1. mem' = mem /\ pc' = "applied" /\ entry.orig = user.orig /\ user' = user
    BY <1>1, <1>5 DEF Goto, QuietInv, Quiet, QuietState
  <2>2. mem.err = "none" => file' # None
    BY <1>1, FileThere
  <2>3. QuietPlace'
    BY <1>1, <1>5, <2>1, <2>2 DEF QuietPlace, Swapping, Loop
  <2> QED BY <1>3, <1>5, <2>1, <2>3
<1>6. Drop => There.proxy = entry.orig
  BY DEF Drop, QuietInv, Quiet, QuietPlace
<1>7. file # None => There = file
  BY DEF There
<1> QED BY <1>1, <1>4, <1>5, <1>6, <1>7 DEF Drop, Forget, SaveEntry

\* The quiet user's file and gateways over the reload of a release.
LEMMA RestoreQuiet == ASSUME TypeInv, QuietInv, Restore PROVE QuietInv'
<1> SUFFICES ASSUME Quiet PROVE QuietState' /\ QuietPlace'
  BY DEF QuietInv, Quiet, Restore
<1>1. /\ UNCHANGED <<durable, files, gw, user>> /\ rec' = rec /\ file' = file /\ entry' = entry
      /\ pc = "restore" /\ mem.mode = "release" /\ Working /\ mem \in Memory /\ rec # None /\ entry # None
  BY DEF Restore, durable, files, Working, TypeInv, PlaceInv
<1>2. CASE SwapFailed
  BY <1>1, <1>2, SwapFailedQuiet, SameState
<1>3. CASE pc' = "expect" /\ mem' = [mem EXCEPT !.todo = entry.targets]
  <2>1. mem'.mode = mem.mode /\ mem'.err = mem.err
    BY <1>1, <1>3 DEF Memory
  <2> QED BY <1>1, <1>3, <2>1, FileThere, PlainPlace, SameState DEF Swapping, Loop
<1> QED BY <1>2, <1>3 DEF Restore

\* A command ends with the file and the gateways as the candidate wants them.
LEMMA AppliedQuiet == ASSUME TypeInv, JournalInv, QuietInv, Applied PROVE QuietInv'
<1> SUFFICES ASSUME Quiet PROVE QuietState' /\ QuietPlace'
  BY DEF QuietInv, Quiet, Applied
<1>1. /\ UNCHANGED <<entry, files, gw, user>> /\ file' = file /\ entry' = entry /\ Working
      /\ pc = "applied" /\ mem.mode \in {"apply", "release"} /\ rec # None /\ mem \in Memory
      /\ There' = There /\ Sound(entry) /\ user' = user
  BY TypesOfState DEF Applied, files, Working, TypeInv, PlaceInv, There
<1>2. CASE mem.err # "none"
  <2>1. pc' = "failed" /\ mem' = mem /\ UNCHANGED durable /\ rec' = rec
    BY <1>1, <1>2 DEF Applied, durable
  <2> QED BY <1>1, <1>2, <2>1, BrokenPlace, SameState DEF Swapping, Loop
<1>3. CASE mem.err = "none"
  <2>1. store' = rec.cand /\ rec' = None /\ pc' = "idle" /\ mem'.mode = None
    BY <1>3 DEF Applied, Exit, Fresh
  <2>2. file # None
    BY <1>1, <1>3, FileThere
  <2>3. There.proxy = Value(rec.cand) /\ ServedInv'
    <3>1. CASE mem.mode = "apply"
      <4>1. Clean(entry, rec.cand) /\ rec.cand.on
        BY <1>1, <1>3, <3>1 DEF JournalInv, ApplyInv, TypeInv, PlaceInv
      <4>2. /\ entry # None /\ entry.phase = "active" /\ entry.managed = rec.cand.proxy
            /\ entry.ptargets = {} /\ entry.targets # {}
        BY <1>1, <4>1 DEF Clean, Sound
      <4>3. \A t : ~Leaving(t)
        BY <3>1 DEF Leaving
      <4>4. ServedInv
        BY DEF QuietInv, Quiet, QuietState
      <4>5. There.proxy = rec.cand.proxy
        BY <4>2, <4>3, <4>4 DEF ServedInv, Says
      <4>6. ServedInv'
        BY <1>1, <4>3, <4>4 DEF ServedInv, Says, Serves
      <4> QED BY <4>1, <4>5, <4>6 DEF Value
    <3>2. CASE mem.mode = "release"
      <4>1. entry = None /\ ~rec.cand.on /\ There.proxy = user.orig
        BY <1>1, <1>3, <3>2 DEF JournalInv, ReleaseInv, TypeInv, PlaceInv, QuietInv, Quiet, QuietPlace
      <4> QED BY <1>1, <4>1 DEF ServedInv, Value
    <3> QED BY <1>1, <3>1, <3>2
  <2>4. QuietState'
    BY <1>1, <2>1, <2>3, SentinelAssumption DEF QuietState, QuietInv, Quiet, Value
  <2>5. QuietPlace'
    BY <1>1, <2>1, <2>2, SentinelAssumption DEF QuietPlace, Swapping, Loop
  <2> QED BY <2>4, <2>5
<1> QED BY <1>2, <1>3

\* The place after the end of the process.
LEMMA ExitPlaceQuiet ==
  ASSUME rec' # None, Exit
  PROVE  QuietPlace' /\ mem'.mode # "apply"
<1>1. mem'.mode = None /\ pc' = "idle" /\ mem'.mode # "apply" /\ mem'.mode # "release"
  BY SentinelAssumption DEF Exit, Fresh
<1> QED BY <1>1, BrokenPlace DEF Swapping, Loop

\* A command that has failed is compensated, now or by a later recovery.
LEMMA FailedQuiet == ASSUME TypeInv, QuietInv, Failed \/ Recover \/ Kill PROVE QuietInv'
<1> SUFFICES ASSUME Quiet PROVE QuietState' /\ QuietPlace'
  BY DEF QuietInv, Quiet, Failed, Recover, Kill
<1>1. /\ UNCHANGED <<durable, files, gw, user>> /\ rec' = rec /\ rec # None
  BY DEF Failed, Recover, Kill, durable, TypeInv, PlaceInv
<1>2. CASE Exit
  BY <1>1, <1>2, ExitPlaceQuiet, SameState
<1>3. CASE pc' = "undo" /\ mem' = [Fresh EXCEPT !.mode = "undo"]
  <2>1. mem'.mode = "undo"
    BY <1>3 DEF Fresh
  <2> QED BY <1>1, <1>3, <2>1, SameState DEF QuietPlace, Swapping, Loop
<1> QED BY <1>2, <1>3 DEF Failed, Recover, Kill, Compensate

\* The record goes when the file and the entry are as they were.
LEMMA UndoneQuiet == ASSUME TypeInv, JournalInv, QuietInv, Undone PROVE QuietInv'
<1> SUFFICES ASSUME Quiet PROVE QuietState' /\ QuietPlace'
  BY DEF QuietInv, Quiet, Undone
<1>1. /\ UNCHANGED <<store, entry, files, gw, user>> /\ file' = file /\ entry' = entry /\ Working
      /\ pc = "undone" /\ mem.mode = "undo" /\ rec # None /\ There' = There /\ Exit
      /\ mem'.mode = None /\ pc' = "idle" /\ user' = user /\ store' = store
  BY DEF Undone, Exit, Fresh, files, Working, TypeInv, PlaceInv, There
<1>2. CASE mem.err # "none"
  <2>1. UNCHANGED durable /\ rec' = rec
    BY <1>1, <1>2 DEF Undone, durable
  <2> QED BY <1>1, <2>1, ExitPlaceQuiet, SameState
<1>3. CASE mem.err = "none"
  <2>1. rec' = None /\ file # None
    BY <1>1, <1>3, FileThere DEF Undone
  <2>2. entry = rec.before /\ There.proxy = Value(store)
    BY <1>1, <1>3 DEF JournalInv, UndoInv, QuietInv, Quiet, QuietState, QuietPlace
  <2>3. ServedInv'
    <3>1. entry # None => \A t \in entry.targets : ~Leaving(t)
      BY <2>2 DEF Leaving
    <3>2. ServedInv
      BY DEF QuietInv, Quiet, QuietState
    <3> QED BY <1>1, <3>1, <3>2 DEF ServedInv, Says, Serves
  <2>4. QuietState'
    BY <1>1, <2>1, <2>2, <2>3, SentinelAssumption DEF QuietState, QuietInv, Quiet, Value
  <2>5. QuietPlace'
    BY <1>1, <2>1, SentinelAssumption DEF QuietPlace, Swapping, Loop
  <2> QED BY <2>4, <2>5
<1> QED BY <1>2, <1>3

\* The quiet user's file and gateways over its choice of gateways.
LEMMA UndoingQuiet == ASSUME TypeInv, QuietInv, Undoing PROVE QuietInv'
<1> SUFFICES ASSUME Quiet PROVE QuietState' /\ QuietPlace'
  BY DEF QuietInv, Quiet, Undoing
<1>1. /\ UNCHANGED <<durable, files, gw, user>> /\ rec' = rec /\ file' = file
      /\ pc = "undoing" /\ mem.mode = "undo" /\ Working /\ mem \in Memory /\ rec # None /\ pc' = "restart"
  BY DEF Undoing, durable, files, Working, TypeInv, PlaceInv
<1>2. mem'.mode = mem.mode /\ mem'.err = mem.err
  <2>1. PICK ts : mem' = [mem EXCEPT !.todo = ts]
    BY DEF Undoing
  <2> QED BY <1>1, <2>1 DEF Memory
<1> QED BY <1>1, <1>2, FileThere, PlainPlace, SameState DEF Swapping, Loop

\* What a compensation announces: the gateways it lists as done are those that
\* an entry with the same value has listed.
LEMMA RecoveryServed ==
  ASSUME TypeInv, JournalInv, QuietInv, Quiet, mem.mode = "undo", rec # None,
         rec.before # None \/ entry # None,
         UNCHANGED <<files, gw, rec>>, entry' = Recovery, file # None, mem'.mode # "apply"
  PROVE  ServedInv'
<1>1. /\ Recovery # None
      /\ rec.before = None => Recovery.phase = "restoring"
      /\ rec.before # None =>
           /\ Recovery.pending = rec.before.managed /\ Recovery.phase = "prepared"
           /\ Recovery.targets = rec.targets
           /\ Recovery.ptargets = IF Progress THEN entry.ptargets ELSE rec.targets
  BY RecoveryEntry
<1> SUFFICES ASSUME rec.before # None, NEW t \in rec.targets \ Recovery.ptargets, ~Leaving(t)'
             PROVE  There'.proxy = rec.before.managed /\ Serves(t, rec.before.managed)
  BY <1>1 DEF ServedInv, Says, Serves
<1>2. Progress /\ t \notin entry.ptargets
  BY <1>1
<1>3. t \in entry.targets /\ ~Leaving(t)
  <2>1. t \in rec.before.targets
    BY DEF Leaving
  <2>2. rec.before.targets \subseteq entry.targets
    BY <1>2 DEF Progress, JournalInv, BeforeTargets
  <2> QED BY <2>1, <2>2 DEF Leaving
<1> QED BY <1>2, <1>3 DEF Progress, QuietInv, Quiet, QuietState, ServedInv, Says, There, files

\* The quiet user's file and gateways over the announcement of a compensation.
LEMMA UndoQuiet == ASSUME TypeInv, JournalInv, QuietInv, Undo PROVE QuietInv'
<1> SUFFICES ASSUME Quiet PROVE QuietState' /\ QuietPlace'
  BY DEF QuietInv, Quiet, Undo
<1>1. /\ UNCHANGED <<store, rec, files, gw, user>> /\ rec' = rec /\ file' = file /\ Working
      /\ mem \in Memory /\ file \in Files \cup {None} /\ rec # None /\ rec.value \in Values
      /\ pc = "undo" /\ mem.mode = "undo" /\ mem.mode # "apply" /\ mem.mode # "release" /\ user' = user
  BY TypesOfState, WorkingFacts DEF Undo, Working, TypeInv, PlaceInv, Records, files
<1>2. Fail("failed") => QuietPlace' /\ mem'.mode # "apply"
  BY <1>1, FailQuiet
<1>3. mem'.mode # "apply" /\ entry' = entry => QuietState'
  <2>1. mem'.mode # "apply" /\ entry' = entry => ServedInv'
    BY <1>1, ProcessServed
  <2> QED BY <1>1, <2>1, StateFrom DEF QuietInv, Quiet, QuietState
<1>4. CASE Fail("failed") /\ entry' = entry
  BY <1>2, <1>3, <1>4
<1>5. CASE Goto("undone") /\ entry' = entry /\ file # None /\ file.proxy = rec.value
  <2>1. mem' = mem /\ pc' = "undone" /\ There' = file
    BY <1>1, <1>5 DEF Goto, There
  <2> QED BY <1>1, <1>3, <1>5, <2>1 DEF QuietPlace, Swapping, Loop
<1>6. CASE /\ file # None /\ EntryAllowed(entry) /\ (rec.before # None \/ entry # None)
           /\ entry' \in {entry, Recovery}
           /\ Fail("failed") \/ (entry' = Recovery /\ SetProxy(rec.value, "undoing"))
  <2>1. /\ Recovery # None
        /\ rec.before = None => Recovery.phase = "restoring" /\ Recovery.orig = entry.orig
        /\ rec.before # None =>
             /\ Recovery.orig = rec.before.orig /\ Recovery.targets = rec.targets
             /\ Recovery.ptargets = IF Progress THEN entry.ptargets ELSE rec.targets
    BY <1>1, <1>6, RecoveryEntry
  <2>2. Recovery.orig = user.orig
    BY <1>1, <1>6, <2>1 DEF QuietInv, Quiet, QuietState
  <2>3. entry' = Recovery /\ mem'.mode # "apply" => QuietState'
    <3>1. entry' = Recovery /\ mem'.mode # "apply" => ServedInv'
      BY <1>1, <1>6, RecoveryServed
    <3> QED BY <1>1, <2>1, <2>2, <3>1, StateFrom
  <2>4. CASE Fail("failed")
    BY <1>2, <1>3, <1>6, <2>3, <2>4
  <2>5. CASE entry' = Recovery /\ SetProxy(rec.value, "undoing")
    <3>1. file.proxy # rec.value => entry'.phase = "restoring" \/ entry'.ptargets = entry'.targets
      BY <2>1, <2>5 DEF Progress
    <3>2. file \in Files
      BY <1>1, <1>6
    <3>3. QuietPlace' /\ mem'.mode = mem.mode
      BY <1>1, <2>1, <2>5, <3>1, <3>2, SetProxyQuiet
    <3> QED BY <1>1, <2>3, <2>5, <3>3
  <2> QED BY <1>6, <2>4, <2>5
<1> QED BY <1>4, <1>5, <1>6 DEF Undo, SaveEntry, Back

\* The quiet user's file and gateways over the last check of a compensation.
LEMMA FinalQuiet == ASSUME TypeInv, JournalInv, QuietInv, Final PROVE QuietInv'
<1> SUFFICES ASSUME Quiet PROVE QuietState' /\ QuietPlace'
  BY DEF QuietInv, Quiet, Final
<1>1. /\ UNCHANGED <<store, rec, files, gw, user>> /\ rec' = rec /\ file' = file /\ Working
      /\ rec # None /\ pc = "final" /\ mem.mode = "undo" /\ mem.mode # "apply" /\ mem.mode # "release"
      /\ user' = user /\ gw' = gw /\ There' = There
  BY DEF Final, Working, TypeInv, PlaceInv, files, There
<1>2. Fail("failed") => QuietPlace' /\ mem'.mode # "apply"
  BY <1>1, FailQuiet
<1>3. mem'.mode # "apply" /\ entry' = entry => QuietState'
  <2>1. mem'.mode # "apply" /\ entry' = entry => ServedInv'
    BY <1>1, ProcessServed
  <2> QED BY <1>1, <2>1, StateFrom DEF QuietInv, Quiet, QuietState
<1>4. CASE Fail("failed") /\ entry' = entry
  BY <1>2, <1>3, <1>4
<1>5. CASE /\ file # None /\ file.proxy = rec.value /\ entry' \in {entry, rec.before}
           /\ Fail("failed") \/ (entry' = rec.before /\ Goto("undone"))
  <2>1. entry' = rec.before => ServedInv'
    <3> SUFFICES ASSUME entry' = rec.before, rec.before # None, NEW t \in rec.before.targets, ~Leaving(t)'
                 PROVE  There.proxy = rec.before.managed /\ Serves(t, rec.before.managed)
      BY <1>1, BeforeIsClean DEF ServedInv, Says, Serves
    <3>1. /\ entry # None /\ entry.phase = "active" /\ entry.managed = rec.before.managed
          /\ entry.targets = rec.targets /\ rec.before.targets \subseteq entry.targets
      BY <1>1 DEF JournalInv, UndoInv, BeforeTargets
    <3>2. entry.ptargets = {}
      BY <3>1, TypesOfState DEF TypeInv, Sound
    <3>3. ~Leaving(t)
      BY DEF Leaving
    <3> QED BY <3>1, <3>2, <3>3 DEF QuietInv, Quiet, QuietState, ServedInv, Says
  <2>2. entry' = rec.before /\ mem'.mode # "apply" => QuietState'
    BY <1>1, <2>1, StateFrom DEF QuietInv, Quiet, QuietState
  <2>3. CASE Fail("failed")
    BY <1>2, <1>3, <1>5, <2>2, <2>3
  <2>4. CASE entry' = rec.before /\ Goto("undone")
    <3>1. mem' = mem /\ pc' = "undone" /\ There' = file
      BY <1>1, <1>5, <2>4 DEF Goto, There
    <3> QED BY <1>1, <1>5, <2>2, <2>4, <3>1 DEF QuietPlace, Swapping, Loop
  <2> QED BY <1>5, <2>3, <2>4
<1> QED BY <1>4, <1>5 DEF Final, SaveEntry

-----------------------------------------------------------------------------
(* The gateways and the user, with the file's value unchanged.             *)

\* The world, when it keeps the value and what is served.
LEMMA WorldQuiet ==
  ASSUME TypeInv, QuietInv, Quiet, Noted, UNCHANGED <<durable, pc>>, user'.orig = user.orig,
         There' # None, There'.proxy = There.proxy, file # None => file' # None,
         \A t \in Targets : Serves(t, There.proxy) => Serves(t, There.proxy)'
  PROVE  QuietState' /\ QuietPlace'
<1>1. /\ store' = store /\ rec' = rec /\ entry' = entry /\ pc' = pc /\ mem'.mode = mem.mode
      /\ mem'.err = mem.err /\ mem'.goal = mem.goal /\ Cur' = Cur
  BY DEF durable, Noted, Cur
<1>2. ServedInv'
  BY <1>1, ServedStays
<1>3. QuietState'
  BY <1>1, <1>2 DEF QuietInv, Quiet, QuietState, Value
<1>4. pc \in {"confirm", "wait", "commit"} => Serves(Cur, There.proxy)'
  <2>1. pc \in {"confirm", "wait", "commit"} => Cur \in Targets /\ Serves(Cur, There.proxy)
    BY CurIsTarget DEF Looping, AtTarget, Loop, QuietInv, Quiet, QuietPlace
  <2> QED BY <1>1, <2>1 DEF Serves
<1>5. QuietPlace'
  BY <1>1, <1>4 DEF QuietInv, Quiet, QuietPlace
<1> QED BY <1>3, <1>5

\* A gateway that starts or applies takes the value in the file.
LEMMA GatewayServes ==
  ASSUME TypeInv, NEW t \in Targets,
         JobDone(t) \/ StartStop(t) \/ Apply(t) \/ ChannelRestart(t) \/ Uninstall(t)
  PROVE  \A s \in Targets : Serves(s, There.proxy) => Serves(s, There.proxy)'
<1>1. There' = There /\ gw \in [Targets -> Gateway] /\ gw[t] \in Gateway /\ (file # None => There = file)
      /\ file' = file
  BY GatewayTypes DEF TypeInv, JobDone, StartStop, Apply, ChannelRestart, Uninstall, There, files
<1>2. \A s \in Targets : gw'[s] = gw[s] \/ s = t
  BY <1>1 DEF JobDone, StartStop, Apply, ChannelRestart, Uninstall
<1>3. Serves(t, There.proxy) => Serves(t, There.proxy)'
  <2>1. CASE JobDone(t) \/ StartStop(t)
    <3>1. \/ file # None /\ gw'[t] = Started(gw[t])
          \/ gw'[t] = Stopped(gw[t])
      BY <1>1, <2>1 DEF JobDone, StartStop
    <3>2. /\ Started(gw[t]).applied = file /\ Started(gw[t]).chan = file.proxy
          /\ ~Stopped(gw[t]).up
      BY <1>1 DEF Started, Stopped, Gateway
    <3> QED BY <1>1, <3>1, <3>2 DEF Serves
  <2>2. CASE Apply(t)
    <3>1. file # None /\ gw'[t] = [gw[t] EXCEPT !.applied = file, !.pend = gw'[t].pend]
      BY <1>1, <2>2 DEF Apply, Gateway
    <3>2. /\ gw'[t].applied = file /\ gw'[t].chan = gw[t].chan /\ gw'[t].unit = gw[t].unit
          /\ gw'[t].up = gw[t].up /\ gw'[t].job = gw[t].job
      BY <1>1, <3>1 DEF Gateway
    <3> QED BY <1>1, <3>1, <3>2 DEF Serves
  <2>3. CASE ChannelRestart(t)
    <3> DEFINE v == gw[t].applied.proxy
               g == [gw[t] EXCEPT !.chan = v, !.pend = FALSE]
    <3>1. gw'[t] = g
      BY <1>1, <2>3 DEF ChannelRestart
    <3> HIDE DEF v
    <3>2. /\ g.applied = gw[t].applied /\ g.chan = v /\ g.unit = gw[t].unit
          /\ g.up = gw[t].up /\ g.job = gw[t].job
      BY <1>1 DEF Gateway
    <3> HIDE DEF g
    <3> QED BY <1>1, <3>1, <3>2 DEF Serves, v
  <2>4. CASE Uninstall(t)
    <3>1. ~gw'[t].unit
      BY <1>1, <2>4 DEF Uninstall, Gateway
    <3> QED BY <3>1 DEF Serves
  <2> QED BY <2>1, <2>2, <2>3, <2>4
<1> QED BY <1>1, <1>2, <1>3 DEF Serves

\* The quiet user's file and gateways over the gateways.
LEMMA GatewayQuiet ==
  ASSUME TypeInv, QuietInv, NEW t \in Targets,
         JobDone(t) \/ StartStop(t) \/ Apply(t) \/ ChannelRestart(t) \/ Uninstall(t)
  PROVE  QuietInv'
<1>1. /\ UNCHANGED <<durable, pc>> /\ user' = user /\ There' = There /\ file' = file
  BY DEF JobDone, StartStop, Apply, ChannelRestart, Uninstall, There, files
<1> SUFFICES ASSUME Quiet PROVE QuietState' /\ QuietPlace'
  BY <1>1 DEF QuietInv, Quiet
<1>2. Noted /\ There # None
  BY WorldMoves DEF World, QuietInv, Quiet, QuietState
<1> QED BY <1>1, <1>2, GatewayServes, WorldQuiet

\* The quiet user's file and gateways over a save of the user's.
LEMMA SaveQuiet == ASSUME TypeInv, QuietInv, Save PROVE QuietInv'
<1>1. UNCHANGED <<durable, pc>> /\ gw' = gw
  BY DEF Save, durable
<1>2. PICK f \in Files, own \in BOOLEAN :
        /\ f = There /\ file' \in Files /\ file'.proxy = (IF own THEN Own ELSE f.proxy)
        /\ user'.orig = user.orig /\ user'.touched = IF own THEN "own" ELSE user.touched
  BY SaveFacts
<1> SUFFICES ASSUME Quiet, ~own PROVE QuietState' /\ QuietPlace'
  BY <1>2 DEF QuietInv, Quiet
<1>3. There' = file' /\ file' # None /\ There'.proxy = There.proxy
  BY <1>2, SentinelAssumption DEF There
<1>4. Noted
  BY WorldMoves DEF World
<1>5. \A t \in Targets : Serves(t, There.proxy) => Serves(t, There.proxy)'
  BY <1>1, <1>3 DEF Serves
<1> QED BY <1>1, <1>2, <1>3, <1>4, <1>5, WorldQuiet

\* The quiet user's file and gateways over the user removing the file.
LEMMA RemoveQuiet == ASSUME TypeInv, Remove PROVE QuietInv'
<1>1. user'.touched = "gone"
  BY DEF Remove, TypeInv, DataInv, Users
<1> QED BY <1>1 DEF QuietInv

\* The quiet user's file and gateways over the initial states.
LEMMA InitQuiet == Init => QuietInv
<1> SUFFICES ASSUME Init PROVE QuietState /\ QuietPlace
  BY DEF QuietInv
<1>1. /\ file \in [proxy : {Unset} \cup Proxies, edit : {0}] /\ user.orig = file.proxy /\ pc = "idle"
      /\ store = Off /\ rec = None /\ entry = None /\ mem = Fresh
  BY DEF Init
<1>2. file \in Files
  BY <1>1, OpenClawAssumption DEF Files, Values
<1>3. There = file /\ file # None
  BY <1>2, SentinelAssumption DEF There
<1>4. mem.mode = None /\ ~store.on
  BY <1>1 DEF Fresh, Off
<1>5. QuietState
  BY <1>1, <1>3, <1>4 DEF QuietState, ServedInv, Value
<1>6. QuietPlace
  BY <1>1, <1>3, <1>4, SentinelAssumption DEF QuietPlace, Swapping, Loop
<1> QED BY <1>5, <1>6

\* Every step keeps the file and the gateways of a quiet user.
LEMMA StepQuiet == TypeInv /\ JournalInv /\ EditInv /\ QuietInv /\ [Next]_vars => QuietInv'
<1> SUFFICES ASSUME TypeInv, JournalInv, EditInv, QuietInv, [Next]_vars PROVE QuietInv'
  OBVIOUS
<1>1. CASE UNCHANGED vars
  <2>1. UNCHANGED <<store, rec, entry, file, claim, gw, pc, mem, user>>
    BY <1>1 DEF vars, durable, files
  <2>2. There' = There /\ Cur' = Cur /\ Says' = Says
    BY <2>1 DEF There, Cur, Says
  <2> QED BY <2>1, <2>2 DEF QuietInv, QuietState, QuietPlace, ServedInv, Serves, Value, Leaving
<1>2. ASSUME NEW cand \in Settings, Plan(cand) PROVE QuietInv'
  BY <1>2, PlanQuiet
<1>3. CASE Process
  BY <1>3, ValidateQuiet, BaselineQuiet, TakeQuiet, PublishQuiet, RetireQuiet, ApplyEntryQuiet,
     PreparedQuiet, PendingQuiet, ExpectQuiet, ObserveQuiet, ConfirmQuiet, RestartQuiet, WaitQuiet,
     CommitQuiet, ReleaseQuiet, DropsQuiet, RestoreQuiet, AppliedQuiet, FailedQuiet, UndoQuiet,
     UndoingQuiet, FinalQuiet, UndoneQuiet, Zenon DEF Process
<1>4. CASE Recover \/ Kill
  BY <1>4, FailedQuiet
<1>5. CASE World
  BY <1>5, GatewayQuiet, SaveQuiet, RemoveQuiet DEF World
<1> QED BY <1>1, <1>2, <1>3, <1>4, <1>5 DEF Next, World

\* The invariant that all properties follow from holds of every behaviour.
THEOREM InvariantHolds == Spec => []IInv
<1>1. Init => IInv
  BY InitTypes, InitJournal, InitEdit, InitQuiet DEF IInv
<1>2. IInv /\ [Next]_vars => IInv'
  BY StepTypes, StepJournal, StepEdit, StepQuiet DEF IInv
<1> QED BY <1>1, <1>2, PTL DEF Spec

\* A gateway the journal no longer lists as pending runs its channel with the
\* recorded proxy, for any number of gateways and whatever was observed,
\* restarted, killed and taken up again in between.
THEOREM CommittedStaysServed == Spec => []CommittedIsServed
<1>1. IInv => CommittedIsServed
  <2> SUFFICES ASSUME IInv, entry # None, entry.phase # "restoring", user.touched = "no",
                      NEW t \in entry.targets \ entry.ptargets, ~Leaving(t),
                      gw[t].unit, gw[t].up, ~gw[t].job
               PROVE  gw[t].chan = IF entry.phase = "active" THEN entry.managed ELSE entry.pending
    BY DEF CommittedIsServed
  <2> QED BY DEF IInv, QuietInv, QuietState, ServedInv, Serves, Says
<1> QED BY <1>1, InvariantHolds, PTL

\* A change of the shared file and of several gateways is all or nothing: with
\* no recovery owed, the journal, the file and the channels say what the store says.
THEOREM RestStaysClean == Spec => []RestIsClean
<1>1. IInv => RestIsClean
  <2> SUFFICES ASSUME IInv, pc = "idle", rec = None, user.touched = "no"
               PROVE  RestIsClean
    BY DEF RestIsClean
  <2>1. QuietState /\ QuietPlace /\ Clean(entry, store) /\ Sound(entry) /\ store \in Settings
    BY TypesOfState DEF IInv, TypeInv, QuietInv, JournalInv
  <2>2. file # None /\ There = file /\ file.proxy = Value(store)
    BY <2>1 DEF QuietState, QuietPlace, There
  <2>3. \A t : ~Leaving(t)
    BY DEF Leaving
  <2>4. ASSUME store.on PROVE /\ entry = Entry(user.orig, store.proxy, None, store.sel, {}, "active")
                              /\ \A t \in store.sel : Serves(t, store.proxy)
    <3>1. /\ entry \in Entries /\ entry # None /\ entry.managed = store.proxy /\ entry.pending = None
          /\ entry.targets = store.sel /\ entry.ptargets = {} /\ entry.phase = "active"
          /\ entry.orig = user.orig
      BY <2>1, <2>4 DEF Clean, Sound, QuietState
    <3>2. entry = Entry(entry.orig, entry.managed, entry.pending, entry.targets, entry.ptargets, entry.phase)
      BY <3>1 DEF Entries, Entry
    <3>3. \A t \in store.sel : Serves(t, store.proxy)
      BY <2>1, <2>3, <3>1 DEF QuietState, ServedInv, Says
    <3> QED BY <3>1, <3>2, <3>3
  <2>5. ~store.on => entry = None
    BY <2>1 DEF Clean
  <2> QED BY <2>2, <2>4, <2>5 DEF RestIsClean, Value, Serves
<1> QED BY <1>1, InvariantHolds, PTL

=============================================================================
