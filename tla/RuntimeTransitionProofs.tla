---------------------- MODULE RuntimeTransitionProofs ----------------------
(***************************************************************************)
(* Proofs about RuntimeTransition, for every set of scenes and settings,   *)
(* any bound on commands, crashes, faults and external edits.              *)
(***************************************************************************)
EXTENDS RuntimeTransition, TLAPS

(* Where the order of a plan and the generations are well defined.          *)

\* The parts of a plan are the core and scenes the code knows.
LEMMA PartsType == Parts \subseteq {"global", "dev", "telegram", "core"}
  BY SceneAssumption DEF Parts, SceneNames, Core

\* Every part has a rank: three places for disabled scenes, the core, three for enabled
\* ones.
LEMMA RankType ==
  ASSUME NEW r, NEW p \in Parts
  PROVE  Rank(r, p) \in 1..7
  BY PartsType DEF Rank, SceneRank, Core

\* Every nonempty set of ranks has a least and a greatest element.
LEMMA RankBounds ==
  ASSUME NEW R, R \subseteq 1..7, R # {}
  PROVE  /\ \E m \in R : \A k \in R : m <= k
         /\ \E m \in R : \A k \in R : k <= m
<1>1. \A k \in R : k \in Nat /\ (k = 1 \/ k = 2 \/ k = 3 \/ k = 4 \/ k = 5 \/ k = 6 \/ k = 7)
  BY SMT
<1>2. \E m \in R : \A k \in R : m <= k
  <2>1. CASE 1 \in R BY <1>1, <2>1
  <2>2. CASE 1 \notin R /\ 2 \in R BY <1>1, <2>2
  <2>3. CASE 1 \notin R /\ 2 \notin R /\ 3 \in R BY <1>1, <2>3
  <2>4. CASE 1 \notin R /\ 2 \notin R /\ 3 \notin R /\ 4 \in R BY <1>1, <2>4
  <2>5. CASE 1 \notin R /\ 2 \notin R /\ 3 \notin R /\ 4 \notin R /\ 5 \in R BY <1>1, <2>5
  <2>6. CASE 1 \notin R /\ 2 \notin R /\ 3 \notin R /\ 4 \notin R /\ 5 \notin R /\ 6 \in R BY <1>1, <2>6
  <2>7. CASE 1 \notin R /\ 2 \notin R /\ 3 \notin R /\ 4 \notin R /\ 5 \notin R /\ 6 \notin R /\ 7 \in R BY <1>1, <2>7
  <2> QED BY <1>1, <2>1, <2>2, <2>3, <2>4, <2>5, <2>6, <2>7
<1>3. \E m \in R : \A k \in R : k <= m
  <2>1. CASE 7 \in R BY <1>1, <2>1
  <2>2. CASE 7 \notin R /\ 6 \in R BY <1>1, <2>2
  <2>3. CASE 7 \notin R /\ 6 \notin R /\ 5 \in R BY <1>1, <2>3
  <2>4. CASE 7 \notin R /\ 6 \notin R /\ 5 \notin R /\ 4 \in R BY <1>1, <2>4
  <2>5. CASE 7 \notin R /\ 6 \notin R /\ 5 \notin R /\ 4 \notin R /\ 3 \in R BY <1>1, <2>5
  <2>6. CASE 7 \notin R /\ 6 \notin R /\ 5 \notin R /\ 4 \notin R /\ 3 \notin R /\ 2 \in R BY <1>1, <2>6
  <2>7. CASE 7 \notin R /\ 6 \notin R /\ 5 \notin R /\ 4 \notin R /\ 3 \notin R /\ 2 \notin R /\ 1 \in R BY <1>1, <2>7
  <2> QED BY <1>1, <2>1, <2>2, <2>3, <2>4, <2>5, <2>6, <2>7
<1> QED BY <1>2, <1>3

\* Every nonempty set of parts has a first part, in it and before all others.
LEMMA FirstType ==
  ASSUME NEW r, NEW S, S \subseteq Parts, S # {}
  PROVE  First(r, S) \in S /\ \A q \in S : Rank(r, First(r, S)) <= Rank(r, q)
<1> DEFINE R == {Rank(r, p) : p \in S}
<1>1. R \subseteq 1..7 /\ R # {}
  BY RankType
<1>2. PICK m \in R : \A k \in R : m <= k
  <2> HIDE DEF R
  <2> QED BY <1>1, RankBounds
<1>3. \E p \in S : \A q \in S : Rank(r, p) <= Rank(r, q)
  BY <1>2
<1> QED BY <1>3 DEF First

\* The same for the last part, which a compensation takes first.
LEMMA LastType ==
  ASSUME NEW r, NEW S, S \subseteq Parts, S # {}
  PROVE  Last(r, S) \in S /\ \A q \in S : Rank(r, q) <= Rank(r, Last(r, S))
<1> DEFINE R == {Rank(r, p) : p \in S}
<1>1. R \subseteq 1..7 /\ R # {}
  BY RankType
<1>2. PICK m \in R : \A k \in R : k <= m
  <2> HIDE DEF R
  <2> QED BY <1>1, RankBounds
<1>3. \E p \in S : \A q \in S : Rank(r, q) <= Rank(r, p)
  BY <1>2
<1> QED BY <1>3 DEF Last

\* highestStoreGeneration returns the generation of one of the two files, or zero, and
\* none of them has a higher one.
LEMMA HighestType ==
  ASSUME NEW f \in [Files -> Content]
  PROVE  /\ Highest(f) \in 0..MaxGen
         /\ \A x \in Files : f[x] \in Image => f[x].gen <= Highest(f)
         /\ Highest(f) = 0 \/ \E x \in Files : f[x] \in Image /\ f[x].gen = Highest(f)
<1>1. \A g \in Gens(f) : g \in 0..MaxGen
  BY BoundAssumption DEF Gens, Image, Files
<1>2. \A x \in Files : f[x] \in Image => f[x].gen \in Gens(f)
  BY DEF Gens, Files
<1>3. \E g \in Gens(f) : \A h \in Gens(f) : h <= g
  <2> DEFINE a == IF f["main"] \in Image THEN f["main"].gen ELSE 0
             b == IF f["bak"] \in Image THEN f["bak"].gen ELSE 0
  <2>1. Gens(f) = {0, a, b}
    BY DEF Gens, Files
  <2>2. a \in Nat /\ b \in Nat
    BY <1>1, <2>1, BoundAssumption
  <2> HIDE DEF a, b
  <2> QED BY <2>1, <2>2
<1>4. Highest(f) \in Gens(f) /\ \A h \in Gens(f) : h <= Highest(f)
  BY <1>3 DEF Highest
<1>5. \A g \in Gens(f) : g = 0 \/ \E x \in Files : f[x] \in Image /\ f[x].gen = g
  BY DEF Gens
<1> QED BY <1>1, <1>2, <1>4, <1>5

(***************************************************************************)
(* The types of the state.  The inductive form adds that a part is current *)
(* or being restored whenever the process works on one, and that a         *)
(* compensation image exists before it is published.                       *)
(***************************************************************************)
UndoPCs == {"undo_bak", "undo_admit", "undo_main", "undo_verify"}
TypeInv ==
  /\ TypeOK
  /\ pc \in {"exec", "running"} => mem.started # {}
  /\ pc \in {"reverting", "restored"} => Unrestored # {}
  /\ pc \in UndoPCs => mem.comp # Absent
  /\ pc = "plan" => mem.started = {}
  /\ mem # None => mem.started \subseteq mem.todo
  /\ rec # None => rec.started \subseteq rec.todo

\* A load returns a store image, whatever the two files hold.
LEMMA LoadType ==
  ASSUME NEW f \in [Files -> Content]
  PROVE  Load(f) \in Image
  BY SettingsAssumption, ConfigAssumption, BoundAssumption DEF Load, NewStore, Image

\* What a store image asks the core to serve is a served configuration.
LEMMA ServeType ==
  ASSUME NEW img \in Image
  PROVE  Serve(img) \in Served
<1>1. \A s \in Scenes : Inbound(img, s) \in Inbounds
  BY ConfigAssumption DEF Inbound, Inbounds, Image
<1> QED BY <1>1, SettingsAssumption DEF Serve, Stopped, Served, Image, Inbounds

\* What it asks of a scene's side is a route.
LEMMA SideType ==
  ASSUME NEW img \in Image, NEW s \in Scenes
  PROVE  Side(img, s) \in Routes
  BY ConfigAssumption DEF Side, Routes, Image

\* The store of an interrupted save takes the next generation and other settings.
LEMMA NextImage ==
  ASSUME NEW img \in Image, NEW other \in Settings, img.gen < MaxGen
  PROVE  /\ [img EXCEPT !.gen = @ + 1, !.cfg = other] \in Image
         /\ [img EXCEPT !.gen = @ + 1, !.cfg = other].gen # img.gen
<1>1. img.gen + 1 \in 0..MaxGen /\ img.gen + 1 # img.gen
  BY BoundAssumption DEF Image
<1>2. \A g \in 0..MaxGen : /\ [img EXCEPT !.gen = g, !.cfg = other] \in Image
                           /\ [img EXCEPT !.gen = g, !.cfg = other].gen = g
  BY DEF Image
<1> QED BY <1>1, <1>2

\* The initial states are well typed.
LEMMA InitType == Init => TypeInv
<1> SUFFICES ASSUME Init PROVE TypeInv
  OBVIOUS
<1>1. PICK gen \in 1..MaxGen, on \in SUBSET Scenes, cfg \in Settings, conf \in Configs :
        Resting([gen |-> gen, on |-> on, cfg |-> cfg, conf |-> conf])
  BY DEF Init
<1> DEFINE st == [gen |-> gen, on |-> on, cfg |-> cfg, conf |-> conf]
<1>2. st \in Image /\ Resting(st)
  BY <1>1, BoundAssumption DEF Image
<1> HIDE DEF st
<1>3. file \in [Files -> Content]
  <2>1. \A v, w \in Content : [f \in Files |-> IF f = "main" THEN v ELSE w] \in [Files -> Content]
    OBVIOUS
  <2>2. {st, Absent, Corrupt} \subseteq Content
    BY <1>2 DEF Content
  <2>3. \A other \in Settings : st.gen < MaxGen => [st EXCEPT !.gen = @ + 1, !.cfg = other] \in Content
    BY <1>2, NextImage DEF Content
  <2> QED BY <1>2, <2>1, <2>2, <2>3 DEF Resting
<1>4. issued \subseteq Image
  BY <1>3 DEF Init, Content
<1>5. core \in Served
  BY <1>2, ServeType DEF Resting
<1>6. route \in [Scenes -> Routes]
  BY <1>2, SideType DEF Resting
<1>7. /\ quar \in [Files -> Content] /\ seen \in [Files -> Content]
      /\ jobs \subseteq Scenes /\ stuck \subseteq Parts /\ rec = None /\ mem = None
      /\ pc = "idle" /\ cas = "claim" /\ txs = 0 /\ crashes = 0 /\ faults = 0 /\ edits = 0
  BY DEF Init, Content
<1> QED
  BY <1>3, <1>4, <1>5, <1>6, <1>7, BoundAssumption DEF TypeInv, TypeOK, PCs, UndoPCs

\* A compare-and-swap keeps the types and ends at ok or at err.
LEMMA SwapType ==
  ASSUME TypeOK, NEW f \in Files, NEW want, NEW new \in Image, NEW ok \in PCs,
         NEW err \in PCs, Swap(f, want, new, ok, err)
  PROVE  /\ file' \in [Files -> Content] /\ quar' \in [Files -> Content]
         /\ issued' \subseteq Image /\ cas' \in {"claim", "take", "publish", "retire"}
         /\ faults' \in 0..MaxFaults /\ pc' \in {pc, ok, err}
  BY BoundAssumption DEF TypeOK, Swap, Claim, PublishClaimed, PutBack, Retire, Publish, Fault,
     Goto, durable, Content

\* Settling a quarantine keeps the types, and goes on or ends the command.
LEMMA SettleType ==
  ASSUME TypeOK, NEW f \in Files, NEW next \in PCs, Settle(f, next)
  PROVE  /\ file' \in [Files -> Content] /\ quar' \in [Files -> Content]
         /\ faults' \in 0..MaxFaults
         /\ \/ pc' = next /\ UNCHANGED <<mem, seen, cas>>
            \/ Exit
  BY BoundAssumption DEF TypeOK, Settle, Fault, Goto, Content

\* A command that exits leaves no memory behind, and is in no step that needs one.
LEMMA ExitType ==
  ASSUME Exit
  PROVE  /\ pc' \in PCs /\ pc' = "idle" /\ mem' = None
         /\ seen' \in [Files -> Content] /\ cas' \in {"claim", "take", "publish", "retire"}
         /\ pc' \notin {"exec", "running", "reverting", "restored"} \cup UndoPCs
  BY DEF Exit, PCs, Content, UndoPCs

\* Every step of the manager, of systemd, of an administrator and of a crash preserves
\* the type invariant.
LEMMA NextType == TypeInv /\ [Next]_vars => TypeInv'
<1> SUFFICES ASSUME TypeInv, [Next]_vars PROVE TypeInv'
  OBVIOUS
<1> USE BoundAssumption, SentinelAssumption DEF TypeInv, TypeOK, Unrestored
<1>1. CASE Begin
  <2>1. Load(file) \in Image /\ 0 \in 0..MaxGen
    BY LoadType
  <2>2. PICK mode \in Modes, on \in SUBSET Scenes, cfg \in Settings, conf \in Configs : mem' = Draft(mode, on, cfg, conf)
    BY <1>1 DEF Begin
  <2>3. mem' \in Receipt /\ mem'.started = {}
    BY <2>1, <2>2 DEF Draft, Receipt, Image, Phases, Content
  <2>4. /\ pc' = "plan" /\ rec = None /\ txs' \in 0..MaxTx
        /\ UNCHANGED <<durable, rec, runtime, seen, cas, crashes, faults, edits>>
    BY <1>1 DEF Begin, Goto
  <2> QED BY <2>3, <2>4 DEF PCs, UndoPCs, durable, runtime
<1>2. CASE Recover
  BY <1>2 DEF Recover, Goto, PCs, UndoPCs, durable, runtime, budget
<1>3. CASE Plan
  <2>1. Highest(file) \in 0..MaxGen
    BY HighestType
  <2>2. CASE pc' = "record"
    <3> DEFINE g == Larger(Highest(file), mem.before.gen) + 1
               r == [mem EXCEPT !.cand.gen = g, !.ev = file, !.todo = PlannedParts(mem), !.mode = "none",
                                !.route0 = route, !.core0 = core]
    <3>1. mem \in Receipt /\ mem' = r
      BY <1>3, <2>2 DEF Plan, Exit, PCs
    <3>2. g \in 0..MaxGen
      BY <1>3, <2>1, <2>2, <3>1 DEF Plan, Exit, GenerationReserved, Larger, Receipt, Image
    <3>3. [mem.cand EXCEPT !.gen = g] \in Image
      BY <3>1, <3>2 DEF Receipt, Image
    <3>4. PlannedParts(mem) \subseteq Parts
      BY DEF PlannedParts, PlannedScenes, Parts
    <3>5. r \in Receipt /\ r.started = {}
      BY <1>3, <3>1, <3>3, <3>4 DEF Plan, Receipt, Modes
    <3>6. UNCHANGED <<durable, rec, runtime, seen, cas, budget>>
      BY <1>3, <2>2 DEF Plan, Exit
    <3> HIDE DEF r
    <3> QED BY <1>3, <2>2, <3>1, <3>5, <3>6 DEF PCs, UndoPCs, durable, runtime, budget
  <2>3. CASE pc' # "record"
    BY <1>3, <2>3, ExitType DEF Plan, Goto, durable, runtime, budget
  <2> QED BY <2>2, <2>3
<1>4. CASE Record
  BY <1>4, ExitType DEF Record, Goto, PCs, UndoPCs, durable, runtime, budget, Fault, Compensate, WriteRec
<1>5. CASE StepStart
  <2> DEFINE r == [mem EXCEPT !.started = @ \cup {First(mem, mem.todo \ mem.started)}]
  <2>1. mem \in Receipt
    BY <1>5 DEF StepStart, PCs
  <2>2. mem.todo \ mem.started # {} => First(mem, mem.todo \ mem.started) \in mem.todo \cap Parts
    <3> DEFINE S == mem.todo \ mem.started
    <3>1. S \subseteq Parts /\ S \subseteq mem.todo
      BY <2>1 DEF Receipt
    <3> HIDE DEF S
    <3>2. S # {} => First(mem, S) \in S
      BY <3>1, FirstType
    <3> QED BY <3>1, <3>2 DEF S
  <2>3. CASE file = mem.ev /\ mem.todo \ mem.started # {}
    <3>1. r \in Receipt /\ r.started # {} /\ r.started \subseteq r.todo
      BY <1>5, <2>1, <2>2, <2>3, FirstType DEF StepStart, PCs, Receipt
    <3> HIDE DEF r
    <3>2. WriteRec(r, "exec", Compensate(r)) /\ UNCHANGED <<durable, runtime, txs, crashes, edits>>
      BY <1>5, <2>3 DEF StepStart, r
    <3> QED BY <2>1, <3>1, <3>2 DEF WriteRec, Goto, PCs, UndoPCs, Compensate, Fault, durable, runtime
  <2>4. CASE file # mem.ev
    BY <1>5, <2>4 DEF StepStart, Goto, PCs, UndoPCs, Compensate, durable, runtime
  <2> QED BY <1>5, <2>1, <2>3, <2>4 DEF StepStart, PCs
<1>6. CASE StepRun
  <2>1. mem \in Receipt /\ Current \in Parts
    BY <1>6, LastType DEF StepRun, Current, Receipt, PCs
  <2>2. route' \in [Scenes -> Routes] /\ core' \in Served \cup {Broken}
    BY <1>6, <2>1, ServeType DEF StepRun, SetPart, Target, Routes, Receipt, Parts
  <2> QED BY <1>6, <2>1, <2>2 DEF StepRun, Goto, Compensate, Fault, PCs, UndoPCs, durable, budget
<1>7. CASE StepDone
  <2>1. mem \in Receipt /\ Current \in Parts
    BY <1>7, LastType DEF StepDone, Current, Receipt, PCs
  <2>2. route' \in [Scenes -> Routes] /\ core' \in Served \cup {Broken}
    BY <1>7, <2>1, ServeType, SideType DEF StepDone, SetPart, Target, Receipt, Parts
  <2> QED BY <1>7, <2>1, <2>2 DEF StepDone, Goto, Compensate, Fault, PCs, UndoPCs, durable, budget
<1>8. CASE StepFail
  <2>1. mem \in Receipt /\ Current \in Parts
    BY <1>8, LastType DEF StepFail, Current, Receipt, PCs
  <2>2. route' \in [Scenes -> Routes] /\ core' \in Served \cup {Broken}
    BY <1>8, <2>1, ServeType, SideType DEF StepFail, SetPart, Target, Receipt, Parts
  <2>3. stuck' \subseteq Parts
    BY <1>8, <2>1 DEF StepFail, MayStick
  <2> QED BY <1>8, <2>1, <2>2, <2>3 DEF StepFail, Goto, Compensate, Fault, PCs, UndoPCs, durable, budget
<1>9. CASE StepUnsettled
  <2>1. jobs' \subseteq Scenes
    BY <1>9, SceneAssumption DEF StepUnsettled
  <2> QED BY <1>9, <2>1, ExitType DEF StepUnsettled, Fault, durable
<1>10. CASE WriteCommitting
  <2> DEFINE r == [mem EXCEPT !.phase = "committing"]
  <2>1. mem \in Receipt /\ r \in Receipt
    BY <1>10 DEF WriteCommitting, PCs, Receipt, Phases
  <2>2. r # None /\ mem.started \subseteq mem.todo
        /\ r.started = mem.started /\ r.restored = mem.restored /\ r.todo = mem.todo
    BY <2>1 DEF Receipt
  <2>3. /\ WriteRec(r, "precommit", Compensate(r))
        /\ UNCHANGED <<durable, runtime, txs, crashes, edits>>
    BY <1>10 DEF WriteCommitting, r
  <2> HIDE DEF r
  <2> QED BY <2>1, <2>2, <2>3, ExitType DEF WriteRec, Goto, PCs, UndoPCs, Compensate, Fault, durable, runtime
<1>11. CASE Precommit
  BY <1>11, ExitType DEF Precommit, Goto, PCs, UndoPCs, durable, runtime, budget, Fault, Compensate, WriteRec
<1>12. CASE Save
  BY <1>12, ExitType DEF Save, Goto, PCs, UndoPCs, durable, runtime, budget, Fault, Compensate, WriteRec
<1>13. CASE CommitBackup
  <2>1. mem \in Receipt /\ mem.cand \in Image /\ mem' = mem
    BY <1>13 DEF CommitBackup, PCs, Receipt
  <2>2. Swap("bak", mem.ev["bak"], mem.cand, "commit_check", "persist_failed")
    BY <1>13 DEF CommitBackup
  <2>3. /\ file' \in [Files -> Content] /\ quar' \in [Files -> Content]
        /\ issued' \subseteq Image /\ cas' \in {"claim", "take", "publish", "retire"}
        /\ faults' \in 0..MaxFaults /\ pc' \in {pc, "commit_check", "persist_failed"}
    BY <2>1, <2>2, SwapType DEF Files, PCs
  <2> QED BY <1>13, <2>1, <2>3 DEF CommitBackup, PCs, UndoPCs, runtime
<1>14. CASE CommitCheck
  BY <1>14, ExitType DEF CommitCheck, Goto, PCs, UndoPCs, durable, runtime, budget, Fault, Compensate, WriteRec
<1>15. CASE CommitMain
  <2>1. mem \in Receipt /\ mem.cand \in Image /\ mem' = mem
    BY <1>15 DEF CommitMain, PCs, Receipt
  <2>2. Swap("main", mem.ev["main"], mem.cand, "verify", "persist_failed")
    BY <1>15 DEF CommitMain
  <2>3. /\ file' \in [Files -> Content] /\ quar' \in [Files -> Content]
        /\ issued' \subseteq Image /\ cas' \in {"claim", "take", "publish", "retire"}
        /\ faults' \in 0..MaxFaults /\ pc' \in {pc, "verify", "persist_failed"}
    BY <2>1, <2>2, SwapType DEF Files, PCs
  <2> QED BY <1>15, <2>1, <2>3 DEF CommitMain, PCs, UndoPCs, runtime
<1>16. CASE PersistFailed
  BY <1>16, ExitType DEF PersistFailed, Goto, PCs, UndoPCs, durable, runtime, budget, Fault, Compensate, WriteRec
<1>17. CASE Verify
  <2> DEFINE r == [mem EXCEPT !.phase = "committed"]
  <2>1. mem \in Receipt /\ r \in Receipt
    BY <1>17 DEF Verify, PCs, Receipt, Phases
  <2>2. r # None /\ mem.started \subseteq mem.todo
        /\ r.started = mem.started /\ r.restored = mem.restored /\ r.todo = mem.todo
    BY <2>1 DEF Receipt
  <2>3. /\ WriteRec(r, "committed", Exit) \/ (Exit /\ UNCHANGED <<rec, faults>>)
        /\ UNCHANGED <<durable, runtime, txs, crashes, edits>>
    BY <1>17 DEF Verify, r
  <2> HIDE DEF r
  <2> QED BY <2>1, <2>2, <2>3, ExitType DEF WriteRec, Goto, PCs, UndoPCs, Compensate, Fault, durable, runtime
<1>18. CASE Finalize
  BY <1>18, ExitType DEF Finalize, Goto, PCs, UndoPCs, durable, runtime, budget, Fault, Compensate, WriteRec
<1>19. CASE Remove
  BY <1>19, ExitType DEF Remove, RemoveRec, Fault, durable, runtime
<1>20. CASE SettleMain
  <2>1. Settle("main", "settle_bak")
    BY <1>20 DEF SettleMain
  <2>2. /\ file' \in [Files -> Content] /\ quar' \in [Files -> Content]
        /\ faults' \in 0..MaxFaults
        /\ \/ pc' = "settle_bak" /\ UNCHANGED <<mem, seen, cas>>
           \/ Exit
    BY <2>1, SettleType DEF Files, PCs
  <2> QED BY <1>20, <2>2, ExitType DEF SettleMain, PCs, UndoPCs, runtime
<1>21. CASE SettleBackup
  <2>1. Settle("bak", "admit")
    BY <1>21 DEF SettleBackup
  <2>2. /\ file' \in [Files -> Content] /\ quar' \in [Files -> Content]
        /\ faults' \in 0..MaxFaults
        /\ \/ pc' = "admit" /\ UNCHANGED <<mem, seen, cas>>
           \/ Exit
    BY <2>1, SettleType DEF Files, PCs
  <2> QED BY <1>21, <2>2, ExitType DEF SettleBackup, PCs, UndoPCs, runtime
<1>22. CASE Admit
  <2> DEFINE r == [mem EXCEPT !.phase = "compensating"]
  <2>1. mem \in Receipt /\ r \in Receipt
    BY <1>22 DEF Admit, PCs, Receipt, Phases
  <2>2. r # None /\ mem.started \subseteq mem.todo
        /\ r.started = mem.started /\ r.restored = mem.restored /\ r.todo = mem.todo
    BY <2>1 DEF Receipt
  <2>3. /\ WriteRec(r, "revert", Exit) \/ (Exit /\ UNCHANGED <<rec, faults>>)
        /\ UNCHANGED <<durable, runtime, txs, crashes, edits>>
    BY <1>22 DEF Admit, r
  <2> HIDE DEF r
  <2> QED BY <2>1, <2>2, <2>3, ExitType DEF WriteRec, Goto, PCs, UndoPCs, Compensate, Fault, durable, runtime
<1>23. CASE RevertStart
  <2>1. mem \in Receipt /\ Unrestored # {} /\ Unrestored \subseteq Parts
    BY <1>23 DEF RevertStart, Receipt, PCs
  <2>2. Reverting \in Parts
    <3> HIDE DEF Unrestored
    <3> QED BY <2>1, LastType DEF Reverting
  <2>3. route' \in [Scenes -> Routes] /\ core' \in Served \cup {Broken}
    BY <1>23, <2>1, <2>2 DEF RevertStart, SetPart, Routes, Receipt, Parts
  <2> QED BY <1>23, <2>1, <2>3, ExitType DEF RevertStart, Goto, PCs, UndoPCs, durable, budget
<1>24. CASE RevertDone
  <2>1. mem \in Receipt /\ Unrestored # {} /\ Unrestored \subseteq Parts
    BY <1>24 DEF RevertDone, Receipt, PCs
  <2>2. Reverting \in Parts
    <3> HIDE DEF Unrestored
    <3> QED BY <2>1, LastType DEF Reverting
  <2>3. route' \in [Scenes -> Routes] /\ core' \in Served \cup {Broken}
    BY <1>24, <2>1, <2>2 DEF RevertDone, SetPart, Routes, Receipt, Parts
  <2> QED BY <1>24, <2>1, <2>3, ExitType DEF RevertDone, Goto, PCs, UndoPCs, durable, budget
<1>25. CASE RevertFail
  <2>1. jobs' \subseteq Scenes
    BY <1>25, SceneAssumption DEF RevertFail
  <2>2. Unrestored # {} /\ Unrestored \subseteq Parts
    BY <1>25 DEF RevertFail, Receipt, PCs
  <2>3. Reverting \in Parts
    <3> HIDE DEF Unrestored
    <3> QED BY <2>2, LastType DEF Reverting
  <2>4. stuck' \subseteq Parts
    BY <1>25, <2>3 DEF RevertFail, MayStick
  <2> QED BY <1>25, <2>1, <2>4, ExitType DEF RevertFail, Fault, durable
<1>26. CASE MarkRestored
  <2> DEFINE r == [mem EXCEPT !.restored = @ \cup {Reverting}]
  <2>1. mem \in Receipt /\ Unrestored # {} /\ Unrestored \subseteq Parts
    BY <1>26 DEF MarkRestored, Receipt, PCs
  <2>2. Reverting \in Parts
    <3> HIDE DEF Unrestored
    <3> QED BY <2>1, LastType DEF Reverting
  <2>3. r \in Receipt /\ r.started = mem.started /\ r.todo = mem.todo
    BY <2>1, <2>2 DEF Receipt
  <2>4. r # None /\ mem.started \subseteq mem.todo
    BY <2>1, <2>3
  <2>5. /\ WriteRec(r, "revert", Exit)
        /\ UNCHANGED <<durable, runtime, txs, crashes, edits>>
    BY <1>26 DEF MarkRestored, r
  <2> HIDE DEF r
  <2> QED BY <2>3, <2>4, <2>5, ExitType DEF WriteRec, Goto, PCs, UndoPCs, Fault, durable, runtime
<1>27. CASE FinishStore
  <2> DEFINE r == [mem EXCEPT !.comp = [mem.before EXCEPT !.gen = Highest(file) + 1]]
  <2>1. mem \in Receipt /\ Highest(file) \in Nat
    BY <1>27, HighestType DEF FinishStore, PCs
  <2>2. Highest(file) < MaxGen =>
          r \in Receipt /\ r.comp # Absent /\ r.started = mem.started /\ r.todo = mem.todo
    <3>1. Highest(file) < MaxGen => [mem.before EXCEPT !.gen = Highest(file) + 1] \in Image
      BY <2>1, HighestType DEF Receipt, Image
    <3> QED BY <2>1, <3>1 DEF Receipt
  <2>3. mem.started \subseteq mem.todo /\ (Highest(file) < MaxGen => r # None)
    BY <1>27, <2>1, <2>2 DEF FinishStore, PCs
  <2>4. /\ pc = "revert" /\ UNCHANGED <<durable, runtime, txs, crashes, edits>>
        /\ \/ Exit /\ UNCHANGED <<rec, faults>>
           \/ Goto("remove") /\ UNCHANGED <<rec, mem, seen, cas, faults>>
           \/ mem.comp # Absent /\ Goto("undo_bak") /\ seen' = file /\ UNCHANGED <<rec, mem, cas, faults>>
           \/ /\ Highest(file) < MaxGen
              /\ \/ rec' = r /\ mem' = r /\ Goto("undo_bak") /\ seen' = file /\ UNCHANGED <<cas, faults>>
                 \/ Exit /\ UNCHANGED <<rec, faults>>
                 \/ Fault /\ rec' \in {rec, r} /\ Exit
    BY <1>27, <2>1 DEF FinishStore, r
  <2> HIDE DEF r
  <2> QED BY <2>1, <2>2, <2>3, <2>4, ExitType DEF Goto, PCs, UndoPCs, Fault, durable, runtime
<1>28. CASE UndoBackup
  <2>1. mem \in Receipt /\ mem.comp \in Image
    BY <1>28 DEF UndoBackup, PCs, Receipt, UndoPCs
  <2>2. CASE seen["bak"] = mem.comp
    BY <1>28, <2>1, <2>2 DEF UndoBackup, Goto, PCs, UndoPCs, durable, runtime
  <2>3. CASE seen["bak"] # mem.comp
    <3>1. Swap("bak", seen["bak"], mem.comp, "undo_admit", "idle")
      BY <1>28, <2>3 DEF UndoBackup
    <3>2. /\ file' \in [Files -> Content] /\ quar' \in [Files -> Content]
          /\ issued' \subseteq Image /\ cas' \in {"claim", "take", "publish", "retire"}
          /\ faults' \in 0..MaxFaults /\ pc' \in {pc, "undo_admit", "idle"}
      BY <2>1, <3>1, SwapType DEF Files, PCs
    <3> QED BY <1>28, <2>1, <2>3, <3>2 DEF UndoBackup, PCs, UndoPCs, runtime, Content
  <2> QED BY <2>2, <2>3
<1>29. CASE UndoAdmit
  BY <1>29, ExitType DEF UndoAdmit, Goto, PCs, UndoPCs, durable, runtime, budget, Fault, Compensate, WriteRec
<1>30. CASE UndoMain
  <2>1. mem \in Receipt /\ mem.comp \in Image
    BY <1>30 DEF UndoMain, PCs, Receipt, UndoPCs
  <2>2. CASE seen["main"] = mem.comp
    BY <1>30, <2>1, <2>2 DEF UndoMain, Goto, PCs, UndoPCs, durable, runtime
  <2>3. CASE seen["main"] # mem.comp
    <3>1. Swap("main", seen["main"], mem.comp, "undo_verify", "idle")
      BY <1>30, <2>3 DEF UndoMain
    <3>2. /\ file' \in [Files -> Content] /\ quar' \in [Files -> Content]
          /\ issued' \subseteq Image /\ cas' \in {"claim", "take", "publish", "retire"}
          /\ faults' \in 0..MaxFaults /\ pc' \in {pc, "undo_verify", "idle"}
      BY <2>1, <3>1, SwapType DEF Files, PCs
    <3> QED BY <1>30, <2>1, <2>3, <3>2 DEF UndoMain, PCs, UndoPCs, runtime, Content
  <2> QED BY <2>2, <2>3
<1>31. CASE UndoVerify
  BY <1>31, ExitType DEF UndoVerify, Goto, PCs, UndoPCs, durable, runtime, budget, Fault, Compensate, WriteRec
<1>32. CASE RecoverMain
  <2>1. Settle("main", "recover_bak")
    BY <1>32 DEF RecoverMain
  <2>2. /\ file' \in [Files -> Content] /\ quar' \in [Files -> Content]
        /\ faults' \in 0..MaxFaults
        /\ \/ pc' = "recover_bak" /\ UNCHANGED <<mem, seen, cas>>
           \/ Exit
    BY <2>1, SettleType DEF Files, PCs
  <2> QED BY <1>32, <2>2, ExitType DEF RecoverMain, PCs, UndoPCs, runtime
<1>33. CASE RecoverBackup
  <2>1. Settle("bak", "decide")
    BY <1>33 DEF RecoverBackup
  <2>2. /\ file' \in [Files -> Content] /\ quar' \in [Files -> Content]
        /\ faults' \in 0..MaxFaults
        /\ \/ pc' = "decide" /\ UNCHANGED <<mem, seen, cas>>
           \/ Exit
    BY <2>1, SettleType DEF Files, PCs
  <2> QED BY <1>33, <2>2, ExitType DEF RecoverBackup, PCs, UndoPCs, runtime
<1>34. CASE Decide
  BY <1>34, ExitType DEF Decide, Goto, PCs, UndoPCs, durable, runtime, budget, Fault, Compensate, WriteRec
<1>35. CASE Crash
  <2>1. pc = "running" => Current \in Parts
    BY LastType DEF Current, Receipt, PCs
  <2>2. pc = "reverting" => Reverting \in Parts
    <3>1. pc = "reverting" => Unrestored # {} /\ Unrestored \subseteq Parts
      BY DEF Receipt, PCs
    <3> HIDE DEF Unrestored
    <3> QED BY <3>1, LastType DEF Reverting
  <2>3. stuck' \subseteq Parts
    BY <1>35, <2>1, <2>2 DEF Crash, MayStick
  <2> QED BY <1>35, <2>3, ExitType DEF Crash, durable
<1>36. CASE \E s \in Scenes : JobDone(s)
  BY <1>36 DEF JobDone, durable, budget, Routes
<1>37. CASE \E f \in Files, c \in EditContents : Edit(f, c)
  BY <1>37, EditAssumption DEF Edit, runtime
<1>38. CASE UNCHANGED vars
  BY <1>38 DEF vars, durable, runtime, budget
<1> QED
  BY <1>1, <1>2, <1>3, <1>4, <1>5, <1>6, <1>7, <1>8, <1>9, <1>10, <1>11, <1>12, <1>13, <1>14, <1>15, <1>16, <1>17, <1>18, <1>19, <1>20, <1>21, <1>22, <1>23, <1>24, <1>25, <1>26, <1>27, <1>28, <1>29, <1>30, <1>31, <1>32, <1>33, <1>34, <1>35, <1>36, <1>37, <1>38 DEF Next, Process, Forward, Backward, Rest

\* Every reachable state is well typed, whatever crashes, fails or is edited: a
\* generation never leaves its width, and a started part is a planned one.
THEOREM TypeCorrect == Spec => []TypeOK
<1>1. TypeInv => TypeOK
  BY DEF TypeInv
<1> QED BY <1>1, InitType, NextType, PTL DEF Spec

\* The strengthened type invariant holds in every reachable state: where the process is
\* says which memory and which record it has.
THEOREM TypeInvariant == Spec => []TypeInv
  BY InitType, NextType, PTL DEF Spec

(***************************************************************************)
(* The store files.  What a compare-and-swap wants is named by the record,  *)
(* and is never the candidate; the record on disk is about the candidate in *)
(* memory.                                                                 *)
(***************************************************************************)
SwapPCs  == {"commit_bak", "commit_main", "undo_bak", "undo_main"}
Swapping == IF pc \in {"commit_bak", "undo_bak"} THEN "bak" ELSE "main"
Wanted   == IF pc \in {"commit_bak", "commit_main"} THEN mem.ev[Swapping] ELSE seen[Swapping]

\* A record whose candidate is none of the stores it may be compensated from or to.
Distinct(r) == r.comp # r.cand /\ \A f \in Files : r.ev[f] # r.cand

CasInv ==
  cas # "claim" =>
    /\ pc \in SwapPCs
    /\ Wanted # Absent /\ (pc \in UndoPCs => Wanted # mem.comp)
    /\ cas = "take" => quar[Swapping] = Absent
    /\ cas = "take" /\ edits = 0 => file[Swapping] = Wanted
    /\ cas = "retire" => quar[Swapping] = Wanted

SeenInv ==
  pc \in UndoPCs => /\ seen["main"] \in {mem.ev["main"], mem.comp}
                    /\ seen["bak"] \in Allowed(mem, "bak")

RecordInv ==
  /\ pc = "plan" => mem.comp = Absent
  /\ pc \notin {"idle", "plan"} => Distinct(mem)
  /\ rec # None => Distinct(rec)
  /\ pc \notin {"idle", "plan", "record"} => rec # None /\ rec.cand = mem.cand

StoreInv == TypeInv /\ CasInv /\ SeenInv /\ RecordInv

\* The initial states satisfy the store invariant.
LEMMA InitStore == Init => StoreInv
  BY InitType DEF Init, StoreInv, CasInv, SeenInv, RecordInv, UndoPCs

\* Every step keeps what relates the record, the process's memory and the phase.
LEMMA NextRecord == StoreInv /\ TypeInv' /\ [Next]_vars => RecordInv'
<1> SUFFICES ASSUME StoreInv, TypeInv', [Next]_vars PROVE RecordInv'
  OBVIOUS
<1>0. pc' # "idle" => mem' # None
  BY DEF TypeInv, TypeOK
<1> USE SentinelAssumption DEF StoreInv, RecordInv
<1>1. CASE Begin
  <2>1. PICK mode \in Modes, on \in SUBSET Scenes, cfg \in Settings, conf \in Configs : mem' = Draft(mode, on, cfg, conf)
    BY <1>1 DEF Begin
  <2> QED BY <1>1, <2>1 DEF Begin, Draft, Goto
<1>2. CASE Recover
  BY <1>0, <1>2 DEF Recover, Goto, Exit, Compensate, WriteRec, RemoveRec, Swap, Claim, PublishClaimed, Settle, Distinct
<1>3. CASE Plan
  <2>1. CASE pc' = "record"
    <3>1. /\ mem \in Receipt /\ mem.comp = Absent /\ UNCHANGED rec /\ mem' \in Receipt
          /\ mem' = [mem EXCEPT !.cand.gen = Larger(Highest(file), mem.before.gen) + 1,
                                !.ev = file, !.todo = PlannedParts(mem), !.mode = "none",
                                !.route0 = route, !.core0 = core]
      BY <1>3, <2>1 DEF Plan, Exit, PCs, TypeInv, TypeOK
    <3>2. /\ mem'.comp = Absent /\ mem'.ev = file
          /\ mem'.cand = [mem.cand EXCEPT !.gen = Larger(Highest(file), mem.before.gen) + 1]
      BY <3>1 DEF Receipt
    <3>3. mem'.cand \in Image /\ mem'.cand.gen > Highest(file)
      <4>1. Highest(file) \in Nat /\ mem.before.gen \in Nat
        BY <3>1, HighestType, BoundAssumption DEF TypeInv, TypeOK, Receipt, Image
      <4>2. mem'.cand \in Image /\ mem.cand \in Image
        BY <3>1 DEF Receipt
      <4> QED BY <3>2, <4>1, <4>2 DEF Larger, Image
    <3>4. \A f \in Files : file[f] \in Image => file[f].gen <= Highest(file)
      BY HighestType DEF TypeInv, TypeOK
    <3>5. Highest(file) \in Nat
      BY HighestType, BoundAssumption DEF TypeInv, TypeOK
    <3>6. \A f \in Files : file[f] # mem'.cand
      BY <3>3, <3>4, <3>5 DEF Image
    <3> QED BY <2>1, <3>1, <3>2, <3>3, <3>6 DEF Distinct
  <2>2. CASE pc' # "record"
    BY <1>3, <2>2 DEF Plan, Exit, Goto
  <2> QED BY <2>1, <2>2
<1>4. CASE Record
  BY <1>0, <1>4 DEF Record, Goto, Exit, Compensate, WriteRec, RemoveRec, Swap, Claim, PublishClaimed, Settle, Distinct
<1>5. CASE StepStart
  <2> DEFINE r == [mem EXCEPT !.started = @ \cup {First(mem, mem.todo \ mem.started)}]
  <2>1. mem \in Receipt /\ rec \in Receipt /\ Distinct(mem) /\ rec.cand = mem.cand
    BY <1>5 DEF StepStart, TypeInv, TypeOK, PCs
  <2>2. r.cand = mem.cand /\ Distinct(r)
    BY <2>1 DEF Distinct, Receipt
  <2>3. WriteRec(r, "exec", Compensate(r)) \/ (Compensate(mem) /\ UNCHANGED <<rec, faults>>)
    BY <1>5 DEF StepStart, r
  <2> HIDE DEF r
  <2> QED BY <1>0, <2>1, <2>2, <2>3 DEF WriteRec, Goto, Compensate, Exit, Distinct
<1>6. CASE StepRun
  BY <1>0, <1>6 DEF StepRun, Goto, Exit, Compensate, WriteRec, RemoveRec, Swap, Claim, PublishClaimed, Settle, Distinct
<1>7. CASE StepDone
  BY <1>0, <1>7 DEF StepDone, Goto, Exit, Compensate, WriteRec, RemoveRec, Swap, Claim, PublishClaimed, Settle, Distinct
<1>8. CASE StepFail
  BY <1>0, <1>8 DEF StepFail, Goto, Exit, Compensate, WriteRec, RemoveRec, Swap, Claim, PublishClaimed, Settle, Distinct
<1>9. CASE StepUnsettled
  BY <1>0, <1>9 DEF StepUnsettled, Goto, Exit, Compensate, WriteRec, RemoveRec, Swap, Claim, PublishClaimed, Settle, Distinct
<1>10. CASE WriteCommitting
  <2> DEFINE r == [mem EXCEPT !.phase = "committing"]
  <2>1. mem \in Receipt /\ rec \in Receipt /\ Distinct(mem) /\ rec.cand = mem.cand
    BY <1>10 DEF WriteCommitting, TypeInv, TypeOK, PCs
  <2>2. r.cand = mem.cand /\ Distinct(r)
    BY <2>1 DEF Distinct, Receipt
  <2>3. WriteRec(r, "precommit", Compensate(r))
    BY <1>10 DEF WriteCommitting, r
  <2> HIDE DEF r
  <2> QED BY <1>0, <2>1, <2>2, <2>3 DEF WriteRec, Goto, Compensate, Exit, Distinct
<1>11. CASE Precommit
  BY <1>0, <1>11 DEF Precommit, Goto, Exit, Compensate, WriteRec, RemoveRec, Swap, Claim, PublishClaimed, Settle, Distinct
<1>12. CASE Save
  BY <1>0, <1>12 DEF Save, Goto, Exit, Compensate, WriteRec, RemoveRec, Swap, Claim, PublishClaimed, Settle, Distinct
<1>13. CASE CommitBackup
  BY <1>0, <1>13 DEF CommitBackup, Goto, Exit, Compensate, WriteRec, RemoveRec, Swap, Claim, PublishClaimed, Settle, Distinct
<1>14. CASE CommitCheck
  BY <1>0, <1>14 DEF CommitCheck, Goto, Exit, Compensate, WriteRec, RemoveRec, Swap, Claim, PublishClaimed, Settle, Distinct
<1>15. CASE CommitMain
  BY <1>0, <1>15 DEF CommitMain, Goto, Exit, Compensate, WriteRec, RemoveRec, Swap, Claim, PublishClaimed, Settle, Distinct
<1>16. CASE PersistFailed
  BY <1>0, <1>16 DEF PersistFailed, Goto, Exit, Compensate, WriteRec, RemoveRec, Swap, Claim, PublishClaimed, Settle, Distinct
<1>17. CASE Verify
  <2> DEFINE r == [mem EXCEPT !.phase = "committed"]
  <2>1. mem \in Receipt /\ rec \in Receipt /\ Distinct(mem) /\ rec.cand = mem.cand
    BY <1>17 DEF Verify, TypeInv, TypeOK, PCs
  <2>2. r.cand = mem.cand /\ Distinct(r)
    BY <2>1 DEF Distinct, Receipt
  <2>3. WriteRec(r, "committed", Exit) \/ (Exit /\ UNCHANGED <<rec, faults>>)
    BY <1>17 DEF Verify, r
  <2> HIDE DEF r
  <2> QED BY <1>0, <2>1, <2>2, <2>3 DEF WriteRec, Goto, Compensate, Exit, Distinct
<1>18. CASE Finalize
  BY <1>0, <1>18 DEF Finalize, Goto, Exit, Compensate, WriteRec, RemoveRec, Swap, Claim, PublishClaimed, Settle, Distinct
<1>19. CASE Remove
  BY <1>0, <1>19 DEF Remove, Goto, Exit, Compensate, WriteRec, RemoveRec, Swap, Claim, PublishClaimed, Settle, Distinct
<1>20. CASE SettleMain
  BY <1>0, <1>20 DEF SettleMain, Goto, Exit, Compensate, WriteRec, RemoveRec, Swap, Claim, PublishClaimed, Settle, Distinct
<1>21. CASE SettleBackup
  BY <1>0, <1>21 DEF SettleBackup, Goto, Exit, Compensate, WriteRec, RemoveRec, Swap, Claim, PublishClaimed, Settle, Distinct
<1>22. CASE Admit
  <2> DEFINE r == [mem EXCEPT !.phase = "compensating"]
  <2>1. mem \in Receipt /\ rec \in Receipt /\ Distinct(mem) /\ rec.cand = mem.cand
    BY <1>22 DEF Admit, TypeInv, TypeOK, PCs
  <2>2. r.cand = mem.cand /\ Distinct(r)
    BY <2>1 DEF Distinct, Receipt
  <2>3. WriteRec(r, "revert", Exit) \/ (Exit /\ UNCHANGED <<rec, faults>>)
    BY <1>22 DEF Admit, r
  <2> HIDE DEF r
  <2> QED BY <1>0, <2>1, <2>2, <2>3 DEF WriteRec, Goto, Compensate, Exit, Distinct
<1>23. CASE RevertStart
  BY <1>0, <1>23 DEF RevertStart, Goto, Exit, Compensate, WriteRec, RemoveRec, Swap, Claim, PublishClaimed, Settle, Distinct
<1>24. CASE RevertDone
  BY <1>0, <1>24 DEF RevertDone, Goto, Exit, Compensate, WriteRec, RemoveRec, Swap, Claim, PublishClaimed, Settle, Distinct
<1>25. CASE RevertFail
  BY <1>0, <1>25 DEF RevertFail, Goto, Exit, Compensate, WriteRec, RemoveRec, Swap, Claim, PublishClaimed, Settle, Distinct
<1>26. CASE MarkRestored
  <2> DEFINE r == [mem EXCEPT !.restored = @ \cup {Reverting}]
  <2>1. mem \in Receipt /\ rec \in Receipt /\ Distinct(mem) /\ rec.cand = mem.cand
    BY <1>26 DEF MarkRestored, TypeInv, TypeOK, PCs
  <2>2. r.cand = mem.cand /\ Distinct(r)
    BY <2>1 DEF Distinct, Receipt
  <2>3. WriteRec(r, "revert", Exit)
    BY <1>26 DEF MarkRestored, r
  <2> HIDE DEF r
  <2> QED BY <1>0, <2>1, <2>2, <2>3 DEF WriteRec, Goto, Compensate, Exit, Distinct
<1>27. CASE FinishStore
  <2> DEFINE r == [mem EXCEPT !.comp = [mem.before EXCEPT !.gen = Highest(file) + 1]]
  <2>1. mem \in Receipt /\ rec \in Receipt /\ Distinct(mem) /\ rec.cand = mem.cand
    BY <1>27 DEF FinishStore, TypeInv, TypeOK, PCs
  <2>2. r.cand = mem.cand /\ r.ev = mem.ev /\ r.comp = [mem.before EXCEPT !.gen = Highest(file) + 1]
    BY <2>1 DEF Receipt
  <2>3. WellFormed(r) => Distinct(r)
    <3>1. r.comp # Absent /\ r.comp.gen = Highest(file) + 1 => (WellFormed(r) => Highest(file) + 1 > r.cand.gen)
      BY DEF WellFormed
    <3>2. r.comp = r.cand => r.cand.gen = Highest(file) + 1
      BY <2>1, <2>2 DEF Receipt, Image
    <3>3. r.cand \in Image /\ Highest(file) \in Nat
      BY <2>1, <2>2, HighestType, BoundAssumption DEF Receipt, TypeInv, TypeOK
    <3>4. r.cand # Absent
      BY <3>3
    <3> HIDE DEF r
    <3>5. r.comp = r.cand => ~WellFormed(r)
      BY <3>1, <3>2, <3>3, <3>4 DEF Image
    <3> QED BY <2>1, <2>2, <3>5 DEF Distinct
  <2>4. /\ pc = "revert"
        /\ \/ Exit /\ UNCHANGED rec
           \/ pc' \in {"remove", "undo_bak"} /\ UNCHANGED <<rec, mem>>
           \/ WellFormed(r) /\ rec' = r /\ mem' = r /\ Goto("undo_bak")
           \/ WellFormed(r) /\ rec' \in {rec, r} /\ Exit
    BY <1>27 DEF FinishStore, Goto, r
  <2> HIDE DEF r
  <2> QED BY <1>0, <2>1, <2>2, <2>3, <2>4 DEF Goto, Exit, Distinct
<1>28. CASE UndoBackup
  BY <1>0, <1>28 DEF UndoBackup, Goto, Exit, Compensate, WriteRec, RemoveRec, Swap, Claim, PublishClaimed, Settle, Distinct
<1>29. CASE UndoAdmit
  BY <1>0, <1>29 DEF UndoAdmit, Goto, Exit, Compensate, WriteRec, RemoveRec, Swap, Claim, PublishClaimed, Settle, Distinct
<1>30. CASE UndoMain
  BY <1>0, <1>30 DEF UndoMain, Goto, Exit, Compensate, WriteRec, RemoveRec, Swap, Claim, PublishClaimed, Settle, Distinct
<1>31. CASE UndoVerify
  BY <1>0, <1>31 DEF UndoVerify, Goto, Exit, Compensate, WriteRec, RemoveRec, Swap, Claim, PublishClaimed, Settle, Distinct
<1>32. CASE RecoverMain
  BY <1>0, <1>32 DEF RecoverMain, Goto, Exit, Compensate, WriteRec, RemoveRec, Swap, Claim, PublishClaimed, Settle, Distinct
<1>33. CASE RecoverBackup
  BY <1>0, <1>33 DEF RecoverBackup, Goto, Exit, Compensate, WriteRec, RemoveRec, Swap, Claim, PublishClaimed, Settle, Distinct
<1>34. CASE Decide
  BY <1>0, <1>34 DEF Decide, Goto, Exit, Compensate, WriteRec, RemoveRec, Swap, Claim, PublishClaimed, Settle, Distinct
<1>35. CASE Crash
  BY <1>0, <1>35 DEF Crash, Goto, Exit, Compensate, WriteRec, RemoveRec, Swap, Claim, PublishClaimed, Settle, Distinct
<1>36. CASE \E q \in Scenes : JobDone(q)
  BY <1>36 DEF JobDone
<1>37. CASE \E f \in Files, c \in EditContents : Edit(f, c)
  BY <1>37 DEF Edit
<1>38. CASE UNCHANGED vars
  BY <1>38 DEF vars
<1> QED
  BY <1>1, <1>2, <1>3, <1>4, <1>5, <1>6, <1>7, <1>8, <1>9, <1>10, <1>11, <1>12, <1>13, <1>14, <1>15, <1>16, <1>17, <1>18, <1>19, <1>20, <1>21, <1>22, <1>23, <1>24, <1>25, <1>26, <1>27, <1>28, <1>29, <1>30, <1>31, <1>32, <1>33, <1>34, <1>35, <1>36, <1>37, <1>38 DEF Next, Process, Forward, Backward, Rest

\* Every step keeps what is known of the store evidence a compensation has read.
LEMMA NextSeen == StoreInv /\ TypeInv' /\ [Next]_vars => SeenInv'
<1> SUFFICES ASSUME StoreInv, TypeInv', [Next]_vars PROVE SeenInv'
  OBVIOUS
<1> USE DEF StoreInv, SeenInv, UndoPCs
<1>1. CASE Begin
  BY <1>1 DEF Begin, Goto, Exit, Compensate, WriteRec, Swap, Claim, PublishClaimed, Settle, Allowed
<1>2. CASE Recover
  BY <1>2 DEF Recover, Goto, Exit, Compensate, WriteRec, Swap, Claim, PublishClaimed, Settle, Allowed
<1>3. CASE Plan
  BY <1>3 DEF Plan, Goto, Exit, Compensate, WriteRec, Swap, Claim, PublishClaimed, Settle, Allowed
<1>4. CASE Record
  BY <1>4 DEF Record, Goto, Exit, Compensate, WriteRec, Swap, Claim, PublishClaimed, Settle, Allowed
<1>5. CASE StepStart
  BY <1>5 DEF StepStart, Goto, Exit, Compensate, WriteRec, Swap, Claim, PublishClaimed, Settle, Allowed
<1>6. CASE StepRun
  BY <1>6 DEF StepRun, Goto, Exit, Compensate, WriteRec, Swap, Claim, PublishClaimed, Settle, Allowed
<1>7. CASE StepDone
  BY <1>7 DEF StepDone, Goto, Exit, Compensate, WriteRec, Swap, Claim, PublishClaimed, Settle, Allowed
<1>8. CASE StepFail
  BY <1>8 DEF StepFail, Goto, Exit, Compensate, WriteRec, Swap, Claim, PublishClaimed, Settle, Allowed
<1>9. CASE StepUnsettled
  BY <1>9 DEF StepUnsettled, Goto, Exit, Compensate, WriteRec, Swap, Claim, PublishClaimed, Settle, Allowed
<1>10. CASE WriteCommitting
  BY <1>10 DEF WriteCommitting, Goto, Exit, Compensate, WriteRec, Swap, Claim, PublishClaimed, Settle, Allowed
<1>11. CASE Precommit
  BY <1>11 DEF Precommit, Goto, Exit, Compensate, WriteRec, Swap, Claim, PublishClaimed, Settle, Allowed
<1>12. CASE Save
  BY <1>12 DEF Save, Goto, Exit, Compensate, WriteRec, Swap, Claim, PublishClaimed, Settle, Allowed
<1>13. CASE CommitBackup
  BY <1>13 DEF CommitBackup, Goto, Exit, Compensate, WriteRec, Swap, Claim, PublishClaimed, Settle, Allowed
<1>14. CASE CommitCheck
  BY <1>14 DEF CommitCheck, Goto, Exit, Compensate, WriteRec, Swap, Claim, PublishClaimed, Settle, Allowed
<1>15. CASE CommitMain
  BY <1>15 DEF CommitMain, Goto, Exit, Compensate, WriteRec, Swap, Claim, PublishClaimed, Settle, Allowed
<1>16. CASE PersistFailed
  BY <1>16 DEF PersistFailed, Goto, Exit, Compensate, WriteRec, Swap, Claim, PublishClaimed, Settle, Allowed
<1>17. CASE Verify
  BY <1>17 DEF Verify, Goto, Exit, Compensate, WriteRec, Swap, Claim, PublishClaimed, Settle, Allowed
<1>18. CASE Finalize
  BY <1>18 DEF Finalize, Goto, Exit, Compensate, WriteRec, Swap, Claim, PublishClaimed, Settle, Allowed
<1>19. CASE Remove
  BY <1>19 DEF Remove, Goto, Exit, Compensate, WriteRec, Swap, Claim, PublishClaimed, Settle, Allowed
<1>20. CASE SettleMain
  BY <1>20 DEF SettleMain, Goto, Exit, Compensate, WriteRec, Swap, Claim, PublishClaimed, Settle, Allowed
<1>21. CASE SettleBackup
  BY <1>21 DEF SettleBackup, Goto, Exit, Compensate, WriteRec, Swap, Claim, PublishClaimed, Settle, Allowed
<1>22. CASE Admit
  BY <1>22 DEF Admit, Goto, Exit, Compensate, WriteRec, Swap, Claim, PublishClaimed, Settle, Allowed
<1>23. CASE RevertStart
  BY <1>23 DEF RevertStart, Goto, Exit, Compensate, WriteRec, Swap, Claim, PublishClaimed, Settle, Allowed
<1>24. CASE RevertDone
  BY <1>24 DEF RevertDone, Goto, Exit, Compensate, WriteRec, Swap, Claim, PublishClaimed, Settle, Allowed
<1>25. CASE RevertFail
  BY <1>25 DEF RevertFail, Goto, Exit, Compensate, WriteRec, Swap, Claim, PublishClaimed, Settle, Allowed
<1>26. CASE MarkRestored
  BY <1>26 DEF MarkRestored, Goto, Exit, Compensate, WriteRec, Swap, Claim, PublishClaimed, Settle, Allowed
<1>27. CASE FinishStore
  <2> SUFFICES ASSUME pc' \in UndoPCs PROVE SeenInv'
    BY DEF SeenInv
  <2>1. mem \in Receipt /\ mem'.comp # Absent
    BY <1>27 DEF FinishStore, TypeInv, TypeOK, PCs
  <2>2. /\ seen' = file /\ Undoable(mem)
        /\ mem' = mem \/ mem.comp = Absent
        /\ mem' \in {mem, [mem EXCEPT !.comp = [mem.before EXCEPT !.gen = Highest(file) + 1]]}
    BY <1>27 DEF FinishStore, Goto, Exit
  <2>3. mem'.ev = mem.ev /\ mem'.cand = mem.cand /\ (mem'.comp = mem.comp \/ mem.comp = Absent)
    BY <2>1, <2>2 DEF Receipt
  <2> QED BY <2>1, <2>2, <2>3 DEF Undoable, Allowed
<1>28. CASE UndoBackup
  BY <1>28 DEF UndoBackup, Goto, Exit, Compensate, WriteRec, Swap, Claim, PublishClaimed, Settle, Allowed
<1>29. CASE UndoAdmit
  BY <1>29 DEF UndoAdmit, Goto, Exit, Compensate, WriteRec, Swap, Claim, PublishClaimed, Settle, Allowed
<1>30. CASE UndoMain
  BY <1>30 DEF UndoMain, Goto, Exit, Compensate, WriteRec, Swap, Claim, PublishClaimed, Settle, Allowed
<1>31. CASE UndoVerify
  BY <1>31 DEF UndoVerify, Goto, Exit, Compensate, WriteRec, Swap, Claim, PublishClaimed, Settle, Allowed
<1>32. CASE RecoverMain
  BY <1>32 DEF RecoverMain, Goto, Exit, Compensate, WriteRec, Swap, Claim, PublishClaimed, Settle, Allowed
<1>33. CASE RecoverBackup
  BY <1>33 DEF RecoverBackup, Goto, Exit, Compensate, WriteRec, Swap, Claim, PublishClaimed, Settle, Allowed
<1>34. CASE Decide
  BY <1>34 DEF Decide, Goto, Exit, Compensate, WriteRec, Swap, Claim, PublishClaimed, Settle, Allowed
<1>35. CASE Crash
  BY <1>35 DEF Crash, Goto, Exit, Compensate, WriteRec, Swap, Claim, PublishClaimed, Settle, Allowed
<1>36. CASE \E q \in Scenes : JobDone(q)
  BY <1>36 DEF JobDone, Allowed
<1>37. CASE \E f \in Files, c \in EditContents : Edit(f, c)
  BY <1>37 DEF Edit, Allowed
<1>38. CASE UNCHANGED vars
  BY <1>38 DEF vars, Allowed
<1> QED
  BY <1>1, <1>2, <1>3, <1>4, <1>5, <1>6, <1>7, <1>8, <1>9, <1>10, <1>11, <1>12, <1>13, <1>14, <1>15, <1>16, <1>17, <1>18, <1>19, <1>20, <1>21, <1>22, <1>23, <1>24, <1>25, <1>26, <1>27, <1>28, <1>29, <1>30, <1>31, <1>32, <1>33, <1>34, <1>35, <1>36, <1>37, <1>38 DEF Next, Process, Forward, Backward, Rest

\* What one step of a compare-and-swap keeps, whatever it wants.
LEMMA SwapKeeps ==
  ASSUME NEW f \in Files, NEW want, NEW new, NEW ok, NEW err, Swap(f, want, new, ok, err),
         file \in [Files -> Content], quar \in [Files -> Content], UNCHANGED edits,
         cas # "claim" => /\ want # Absent
                          /\ cas = "take" => quar[f] = Absent
                          /\ cas = "retire" => quar[f] = want
  PROVE  cas' # "claim" => /\ pc' = pc /\ want # Absent
                           /\ cas' = "take" => quar'[f] = Absent /\ file'[f] = want
                           /\ cas' = "retire" => quar'[f] = want
  BY DEF Swap, Claim, PublishClaimed, PutBack, Retire, Publish, durable, Goto

\* Every step keeps what is known of a compare-and-swap in progress: between the claim
\* and the retirement the claim holds what was expected.
LEMMA NextCas == StoreInv /\ TypeInv' /\ [Next]_vars => CasInv'
<1> SUFFICES ASSUME StoreInv, TypeInv', [Next]_vars PROVE CasInv'
  OBVIOUS
<1> USE DEF StoreInv, CasInv, SwapPCs
<1>0. file \in [Files -> Content] /\ quar \in [Files -> Content]
  BY DEF TypeInv, TypeOK
<1>1. CASE Begin
  BY <1>1 DEF Begin, Goto, Exit, Compensate, WriteRec, Settle
<1>2. CASE Recover
  BY <1>2 DEF Recover, Goto, Exit, Compensate, WriteRec, Settle
<1>3. CASE Plan
  BY <1>3 DEF Plan, Goto, Exit, Compensate, WriteRec, Settle
<1>4. CASE Record
  BY <1>4 DEF Record, Goto, Exit, Compensate, WriteRec, Settle
<1>5. CASE StepStart
  BY <1>5 DEF StepStart, Goto, Exit, Compensate, WriteRec, Settle
<1>6. CASE StepRun
  BY <1>6 DEF StepRun, Goto, Exit, Compensate, WriteRec, Settle
<1>7. CASE StepDone
  BY <1>7 DEF StepDone, Goto, Exit, Compensate, WriteRec, Settle
<1>8. CASE StepFail
  BY <1>8 DEF StepFail, Goto, Exit, Compensate, WriteRec, Settle
<1>9. CASE StepUnsettled
  BY <1>9 DEF StepUnsettled, Goto, Exit, Compensate, WriteRec, Settle
<1>10. CASE WriteCommitting
  BY <1>10 DEF WriteCommitting, Goto, Exit, Compensate, WriteRec, Settle
<1>11. CASE Precommit
  BY <1>11 DEF Precommit, Goto, Exit, Compensate, WriteRec, Settle
<1>12. CASE Save
  BY <1>12 DEF Save, Goto, Exit, Compensate, WriteRec, Settle
<1>13. CASE CommitBackup
  <2>1. Swap("bak", mem.ev["bak"], mem.cand, "commit_check", "persist_failed") /\ UNCHANGED <<mem, edits>>
    BY <1>13 DEF CommitBackup
  <2>2. Swapping = "bak" /\ Wanted = mem.ev["bak"] /\ (pc' = pc => Swapping' = Swapping /\ Wanted' = Wanted)
    BY <1>13, <2>1 DEF CommitBackup, Swapping, Wanted
  <2>3. cas' # "claim" => /\ pc' = pc /\ mem.ev["bak"] # Absent
                          /\ cas' = "take" => quar'["bak"] = Absent /\ file'["bak"] = mem.ev["bak"]
                          /\ cas' = "retire" => quar'["bak"] = mem.ev["bak"]
    BY <1>0, <2>1, <2>2, SwapKeeps DEF Files
  <2> QED BY <1>13, <2>2, <2>3 DEF CommitBackup, UndoPCs
<1>14. CASE CommitCheck
  BY <1>14 DEF CommitCheck, Goto, Exit, Compensate, WriteRec, Settle
<1>15. CASE CommitMain
  <2>1. Swap("main", mem.ev["main"], mem.cand, "verify", "persist_failed") /\ UNCHANGED <<mem, edits>>
    BY <1>15 DEF CommitMain
  <2>2. Swapping = "main" /\ Wanted = mem.ev["main"] /\ (pc' = pc => Swapping' = Swapping /\ Wanted' = Wanted)
    BY <1>15, <2>1 DEF CommitMain, Swapping, Wanted
  <2>3. cas' # "claim" => /\ pc' = pc /\ mem.ev["main"] # Absent
                          /\ cas' = "take" => quar'["main"] = Absent /\ file'["main"] = mem.ev["main"]
                          /\ cas' = "retire" => quar'["main"] = mem.ev["main"]
    BY <1>0, <2>1, <2>2, SwapKeeps DEF Files
  <2> QED BY <1>15, <2>2, <2>3 DEF CommitMain, UndoPCs
<1>16. CASE PersistFailed
  BY <1>16 DEF PersistFailed, Goto, Exit, Compensate, WriteRec, Settle
<1>17. CASE Verify
  BY <1>17 DEF Verify, Goto, Exit, Compensate, WriteRec, Settle
<1>18. CASE Finalize
  BY <1>18 DEF Finalize, Goto, Exit, Compensate, WriteRec, Settle
<1>19. CASE Remove
  BY <1>19 DEF Remove, Goto, Exit, Compensate, WriteRec, Settle
<1>20. CASE SettleMain
  BY <1>20 DEF SettleMain, Goto, Exit, Compensate, WriteRec, Settle
<1>21. CASE SettleBackup
  BY <1>21 DEF SettleBackup, Goto, Exit, Compensate, WriteRec, Settle
<1>22. CASE Admit
  BY <1>22 DEF Admit, Goto, Exit, Compensate, WriteRec, Settle
<1>23. CASE RevertStart
  BY <1>23 DEF RevertStart, Goto, Exit, Compensate, WriteRec, Settle
<1>24. CASE RevertDone
  BY <1>24 DEF RevertDone, Goto, Exit, Compensate, WriteRec, Settle
<1>25. CASE RevertFail
  BY <1>25 DEF RevertFail, Goto, Exit, Compensate, WriteRec, Settle
<1>26. CASE MarkRestored
  BY <1>26 DEF MarkRestored, Goto, Exit, Compensate, WriteRec, Settle
<1>27. CASE FinishStore
  BY <1>27 DEF FinishStore, Goto, Exit, Compensate, WriteRec, Settle
<1>28. CASE UndoBackup
  <2>1. CASE seen["bak"] = mem.comp
    <3>1. cas = "claim"
      BY <1>28, <2>1 DEF UndoBackup, Wanted, Swapping, UndoPCs
    <3> QED BY <1>28, <2>1, <3>1 DEF UndoBackup
  <2>2. CASE seen["bak"] # mem.comp
    <3>1. /\ Swap("bak", seen["bak"], mem.comp, "undo_admit", "idle") /\ UNCHANGED edits
          /\ pc' = "idle" \/ UNCHANGED <<mem, seen>>
      BY <1>28, <2>2 DEF UndoBackup
    <3>2. Swapping = "bak" /\ Wanted = seen["bak"] /\ (pc' = pc => Swapping' = Swapping /\ Wanted' = Wanted)
      BY <1>28, <3>1 DEF UndoBackup, Swapping, Wanted
    <3>3. cas' # "claim" => /\ pc' = pc /\ seen["bak"] # Absent
                            /\ cas' = "take" => quar'["bak"] = Absent /\ file'["bak"] = seen["bak"]
                            /\ cas' = "retire" => quar'["bak"] = seen["bak"]
      BY <1>0, <3>1, <3>2, SwapKeeps DEF Files
    <3> QED BY <1>28, <2>2, <3>1, <3>2, <3>3 DEF UndoBackup
  <2> QED BY <2>1, <2>2
<1>29. CASE UndoAdmit
  BY <1>29 DEF UndoAdmit, Goto, Exit, Compensate, WriteRec, Settle
<1>30. CASE UndoMain
  <2>1. CASE seen["main"] = mem.comp
    <3>1. cas = "claim"
      BY <1>30, <2>1 DEF UndoMain, Wanted, Swapping, UndoPCs
    <3> QED BY <1>30, <2>1, <3>1 DEF UndoMain
  <2>2. CASE seen["main"] # mem.comp
    <3>1. /\ Swap("main", seen["main"], mem.comp, "undo_verify", "idle") /\ UNCHANGED edits
          /\ pc' = "idle" \/ UNCHANGED <<mem, seen>>
      BY <1>30, <2>2 DEF UndoMain
    <3>2. Swapping = "main" /\ Wanted = seen["main"] /\ (pc' = pc => Swapping' = Swapping /\ Wanted' = Wanted)
      BY <1>30, <3>1 DEF UndoMain, Swapping, Wanted
    <3>3. cas' # "claim" => /\ pc' = pc /\ seen["main"] # Absent
                            /\ cas' = "take" => quar'["main"] = Absent /\ file'["main"] = seen["main"]
                            /\ cas' = "retire" => quar'["main"] = seen["main"]
      BY <1>0, <3>1, <3>2, SwapKeeps DEF Files
    <3> QED BY <1>30, <2>2, <3>1, <3>2, <3>3 DEF UndoMain
  <2> QED BY <2>1, <2>2
<1>31. CASE UndoVerify
  BY <1>31 DEF UndoVerify, Goto, Exit, Compensate, WriteRec, Settle
<1>32. CASE RecoverMain
  BY <1>32 DEF RecoverMain, Goto, Exit, Compensate, WriteRec, Settle
<1>33. CASE RecoverBackup
  BY <1>33 DEF RecoverBackup, Goto, Exit, Compensate, WriteRec, Settle
<1>34. CASE Decide
  BY <1>34 DEF Decide, Goto, Exit, Compensate, WriteRec, Settle
<1>35. CASE Crash
  BY <1>35 DEF Crash, Goto, Exit, Compensate, WriteRec, Settle
<1>36. CASE \E q \in Scenes : JobDone(q)
  BY <1>36 DEF JobDone, durable, budget, Swapping, Wanted
<1>37. CASE \E f \in Files, c \in EditContents : Edit(f, c)
  <2>1. edits' # 0 /\ UNCHANGED <<cas, pc, quar, mem, seen>>
    BY <1>37 DEF Edit, TypeInv, TypeOK
  <2> QED BY <2>1 DEF Swapping, Wanted
<1>38. CASE UNCHANGED vars
  BY <1>38 DEF vars, durable, budget, Swapping, Wanted
<1> QED
  BY <1>1, <1>2, <1>3, <1>4, <1>5, <1>6, <1>7, <1>8, <1>9, <1>10, <1>11, <1>12, <1>13, <1>14, <1>15, <1>16, <1>17, <1>18, <1>19, <1>20, <1>21, <1>22, <1>23, <1>24, <1>25, <1>26, <1>27, <1>28, <1>29, <1>30, <1>31, <1>32, <1>33, <1>34, <1>35, <1>36, <1>37, <1>38 DEF Next, Process, Forward, Backward, Rest

\* The store invariant holds in every reachable state.
THEOREM StoreInvariant == Spec => []StoreInv
<1>1. StoreInv /\ [Next]_vars => StoreInv'
  BY NextType, NextRecord, NextSeen, NextCas DEF StoreInv
<1> QED BY <1>1, InitStore, PTL DEF Spec

(***************************************************************************)
(* What no step of the manager does to a store file.                       *)
(***************************************************************************)

\* A compare-and-swap loses no store it does not want, and touches no other file.
LEMMA SwapLosesNothing ==
  ASSUME NEW f \in Files, NEW want, NEW new, NEW ok, NEW err, Swap(f, want, new, ok, err),
         file \in [Files -> Content], quar \in [Files -> Content],
         cas = "take" => quar[f] = Absent,
         cas = "retire" => quar[f] = want
  PROVE  \A x \in Files : {file[x], quar[x]} \ {Absent, want} \subseteq {file'[x], quar'[x]}
<1>1. ASSUME NEW x \in Files, x # f PROVE file'[x] = file[x] /\ quar'[x] = quar[x]
  BY <1>1 DEF Swap, Claim, PublishClaimed, PutBack, Retire, Publish, durable
<1>2. \/ UNCHANGED <<file, quar>>
      \/ file[f] = Absent /\ quar'[f] = quar[f]
      \/ quar[f] = Absent /\ quar'[f] = file[f]
      \/ file[f] = Absent /\ file'[f] = quar[f]
      \/ quar[f] = want /\ file'[f] = file[f]
  BY DEF Swap, Claim, PublishClaimed, PutBack, Retire, Publish, durable
<1> QED BY <1>1, <1>2

\* Settling a leftover claim loses no store the record does not name, and touches no other
\* file.
LEMMA SettleLosesNothing ==
  ASSUME NEW f \in Files, NEW next, Settle(f, next),
         file \in [Files -> Content], quar \in [Files -> Content]
  PROVE  \A x \in Files : {file[x], quar[x]} \ (Allowed(mem, x) \cup {Absent})
                             \subseteq {file'[x], quar'[x]}
<1>1. ASSUME NEW x \in Files, x # f PROVE file'[x] = file[x] /\ quar'[x] = quar[x]
  BY <1>1 DEF Settle
<1>2. \/ file'[f] = file[f] /\ quar'[f] = quar[f]
      \/ file[f] = Absent /\ file'[f] = quar[f]
      \/ quar[f] \in Allowed(mem, f) /\ file'[f] = file[f]
  BY DEF Settle
<1> QED BY <1>1, <1>2

\* No step of the manager loses a store its record does not name, not even one that
\* an administrator puts in place between two steps of a compare-and-swap.
THEOREM ForeignStoresSurvive == Spec => ForeignStoreKept
<1>1. ASSUME StoreInv, [Next]_vars
      PROVE  mem # None /\ edits' = edits =>
               \A f \in Files : Foreign(f) \subseteq {file'[f], quar'[f]}
  <2> SUFFICES ASSUME mem # None, edits' = edits
               PROVE  \A f \in Files : Foreign(f) \subseteq {file'[f], quar'[f]}
    OBVIOUS
  <2> USE <1>1
  <2>0. file \in [Files -> Content] /\ quar \in [Files -> Content] /\ edits \in Nat
    BY BoundAssumption DEF StoreInv, TypeInv, TypeOK
  <2>1. CASE CommitBackup
    <3>1. Swap("bak", mem.ev["bak"], mem.cand, "commit_check", "persist_failed") /\ pc = "commit_bak"
      BY <2>1 DEF CommitBackup
    <3>2. \A x \in Files : {file[x], quar[x]} \ {Absent, mem.ev["bak"]} \subseteq {file'[x], quar'[x]}
      BY <2>0, <3>1, SwapLosesNothing DEF StoreInv, CasInv, Swapping, Wanted, Files
    <3>3. file'["main"] = file["main"] /\ quar'["main"] = quar["main"]
      BY <2>0, <3>1 DEF Swap, Claim, PublishClaimed, PutBack, Retire, Publish, durable, Files
    <3> QED BY <3>2, <3>3 DEF Foreign, Allowed, Files
  <2>2. CASE CommitMain
    <3>1. Swap("main", mem.ev["main"], mem.cand, "verify", "persist_failed") /\ pc = "commit_main"
      BY <2>2 DEF CommitMain
    <3>2. \A x \in Files : {file[x], quar[x]} \ {Absent, mem.ev["main"]} \subseteq {file'[x], quar'[x]}
      BY <2>0, <3>1, SwapLosesNothing DEF StoreInv, CasInv, Swapping, Wanted, Files
    <3>3. file'["bak"] = file["bak"] /\ quar'["bak"] = quar["bak"]
      BY <2>0, <3>1 DEF Swap, Claim, PublishClaimed, PutBack, Retire, Publish, durable, Files
    <3> QED BY <3>2, <3>3 DEF Foreign, Allowed, Files
  <2>3. CASE UndoBackup /\ seen["bak"] # mem.comp
    <3>1. Swap("bak", seen["bak"], mem.comp, "undo_admit", "idle") /\ pc = "undo_bak"
      BY <2>3 DEF UndoBackup
    <3>2. \A x \in Files : {file[x], quar[x]} \ {Absent, seen["bak"]} \subseteq {file'[x], quar'[x]}
      BY <2>0, <3>1, SwapLosesNothing DEF StoreInv, CasInv, Swapping, Wanted, Files
    <3>3. file'["main"] = file["main"] /\ quar'["main"] = quar["main"]
      BY <2>0, <3>1 DEF Swap, Claim, PublishClaimed, PutBack, Retire, Publish, durable, Files
    <3>4. seen["bak"] \in Allowed(mem, "bak")
      BY <3>1 DEF StoreInv, SeenInv, UndoPCs
    <3> QED BY <3>2, <3>3, <3>4 DEF Foreign, Files
  <2>4. CASE UndoMain /\ seen["main"] # mem.comp
    <3>1. Swap("main", seen["main"], mem.comp, "undo_verify", "idle") /\ pc = "undo_main"
      BY <2>4 DEF UndoMain
    <3>2. \A x \in Files : {file[x], quar[x]} \ {Absent, seen["main"]} \subseteq {file'[x], quar'[x]}
      BY <2>0, <3>1, SwapLosesNothing DEF StoreInv, CasInv, Swapping, Wanted, Files
    <3>3. file'["bak"] = file["bak"] /\ quar'["bak"] = quar["bak"]
      BY <2>0, <3>1 DEF Swap, Claim, PublishClaimed, PutBack, Retire, Publish, durable, Files
    <3>4. seen["main"] \in Allowed(mem, "main")
      BY <2>4, <3>1 DEF StoreInv, SeenInv, UndoPCs, Allowed
    <3> QED BY <3>2, <3>3, <3>4 DEF Foreign, Files
  <2>5. CASE SettleMain \/ RecoverMain
    <3>1. \E next \in PCs : Settle("main", next)
      BY <2>5 DEF SettleMain, RecoverMain, PCs
    <3> QED BY <2>0, <3>1, SettleLosesNothing DEF Foreign, Files
  <2>6. CASE SettleBackup \/ RecoverBackup
    <3>1. \E next \in PCs : Settle("bak", next)
      BY <2>6 DEF SettleBackup, RecoverBackup, PCs
    <3> QED BY <2>0, <3>1, SettleLosesNothing DEF Foreign, Files
  <2>7. CASE UNCHANGED <<file, quar>>
    BY <2>7 DEF Foreign
  <2>8. \A f \in Files, c \in EditContents : ~Edit(f, c)
    BY <2>0 DEF Edit
  <2> QED
    BY <2>1, <2>2, <2>3, <2>4, <2>5, <2>6, <2>7, <2>8 DEF Next, Process, Forward, Backward, Rest, vars, durable, Begin, Recover,
       Plan, Record, StepStart, StepRun, StepDone, StepFail, StepUnsettled, WriteCommitting, Precommit, Save, CommitCheck,
       PersistFailed, Verify, Finalize, Remove, Admit, RevertStart, RevertDone, RevertFail, MarkRestored, FinishStore,
       UndoBackup, UndoAdmit, UndoMain, UndoVerify, Decide, Crash, JobDone
<1>2. StoreInv /\ [Next]_vars =>
        [mem # None /\ edits' = edits =>
           \A f \in Files : Foreign(f) \subseteq {file'[f], quar'[f]}]_vars
  BY <1>1
<1> QED BY <1>2, StoreInvariant, PTL DEF Spec, ForeignStoreKept

\* No step of the manager replaces the candidate of a pending record in main.
LEMMA CommitStays ==
  ASSUME StoreInv, [Next]_vars, rec # None, file["main"] = rec.cand, edits' = 0
  PROVE  file'["main"] = rec.cand
<1>0. /\ file \in [Files -> Content] /\ quar \in [Files -> Content] /\ edits \in Nat
      /\ file["main"] # Absent /\ Distinct(rec)
      /\ pc \notin {"idle", "plan", "record"} => rec.cand = mem.cand /\ Distinct(mem)
  BY BoundAssumption, SentinelAssumption DEF StoreInv, TypeInv, TypeOK, RecordInv, Receipt
<1>1. ASSUME NEW want, NEW new, NEW ok, NEW err, Swap("main", want, new, ok, err),
             cas = "take" => file["main"] = want, want # rec.cand
      PROVE  file'["main"] = rec.cand
  BY <1>0, <1>1 DEF Swap, Claim, PublishClaimed, PutBack, Retire, Publish, durable, Files
<1>2. CASE CommitMain
  <2>1. Swap("main", mem.ev["main"], mem.cand, "verify", "persist_failed")
        /\ pc = "commit_main" /\ edits = 0
    BY <1>2 DEF CommitMain
  <2>2. mem.ev["main"] # rec.cand /\ (cas = "take" => file["main"] = mem.ev["main"])
    BY <1>0, <2>1 DEF StoreInv, CasInv, Swapping, Wanted, Distinct, Files
  <2> QED BY <1>1, <2>1, <2>2
<1>3. CASE UndoMain /\ seen["main"] # mem.comp
  <2>1. Swap("main", seen["main"], mem.comp, "undo_verify", "idle") /\ pc = "undo_main" /\ edits = 0
    BY <1>3 DEF UndoMain
  <2>2. seen["main"] # rec.cand /\ (cas = "take" => file["main"] = seen["main"])
    BY <1>0, <2>1 DEF StoreInv, CasInv, SeenInv, Swapping, Wanted, Distinct, Files, UndoPCs
  <2> QED BY <1>1, <2>1, <2>2
<1>4. CASE CommitBackup \/ UndoBackup
  BY <1>0, <1>4 DEF CommitBackup, UndoBackup, Swap, Claim, PublishClaimed, PutBack, Retire, Publish, durable, Files
<1>5. CASE SettleMain \/ RecoverMain \/ SettleBackup \/ RecoverBackup
  BY <1>0, <1>5 DEF SettleMain, RecoverMain, SettleBackup, RecoverBackup, Settle, Files
<1>6. CASE UNCHANGED file
  BY <1>6
<1>7. \A f \in Files, c \in EditContents : ~Edit(f, c)
  BY <1>0 DEF Edit
<1> QED
  BY <1>2, <1>3, <1>4, <1>5, <1>6, <1>7 DEF Next, Process, Forward, Backward, Rest, vars, durable, Begin, Recover,
     Plan, Record, StepStart, StepRun, StepDone, StepFail, StepUnsettled, WriteCommitting, Precommit, Save, CommitCheck,
     PersistFailed, Verify, Finalize, Remove, Admit, RevertStart, RevertDone, RevertFail, MarkRestored, FinishStore,
     UndoAdmit, UndoMain, UndoVerify, Decide, Crash, JobDone

\* Once main holds the candidate of a pending record no step of the manager replaces
\* it, for any number of crashes and failed system calls.
THEOREM CommitsAreFinal == Spec => CommitIsFinal
<1>1. StoreInv /\ [Next]_vars =>
        [rec # None /\ file["main"] = rec.cand /\ edits' = 0 => file'["main"] = rec.cand]_vars
  BY CommitStays
<1> QED BY <1>1, StoreInvariant, PTL DEF Spec, CommitIsFinal

(***************************************************************************)
(* Restart jobs.  A plan starts no part with an outstanding restart, and a  *)
(* compensation restores none.                                             *)
(***************************************************************************)
JobInv ==
  /\ pc \in {"record", "step", "exec", "running"} => mem.todo \cap jobs = {}
  /\ pc = "reverting" => Reverting \notin jobs

\* Every step keeps scenes with an outstanding restart out of the work that is left.
LEMMA NextJob == TypeInv /\ TypeInv' /\ JobInv /\ [Next]_vars => JobInv'
<1> SUFFICES ASSUME TypeInv, TypeInv', JobInv, [Next]_vars PROVE JobInv'
  OBVIOUS
<1> USE DEF JobInv
<1>1. CASE Begin
  BY <1>1 DEF Begin, Goto, Exit, Compensate, WriteRec, RemoveRec, Swap, Claim, PublishClaimed, Settle, Settled, runtime, Reverting, Unrestored
<1>2. CASE Recover
  BY <1>2 DEF Recover, Goto, Exit, Compensate, WriteRec, RemoveRec, Swap, Claim, PublishClaimed, Settle, Settled, runtime, Reverting, Unrestored
<1>3. CASE Plan
  <2>1. CASE pc' = "record"
    <3>1. mem'.todo = PlannedParts(mem) /\ RuntimeSettled /\ UNCHANGED jobs
      BY <1>3, <2>1 DEF Plan, Exit, TypeInv, TypeOK, PCs, Receipt, runtime
    <3>2. Core \notin jobs
      BY SceneAssumption DEF TypeInv, TypeOK, SceneNames, Core
    <3>3. PlannedParts(mem) \cap jobs = {}
      BY <3>1, <3>2 DEF PlannedParts, RuntimeSettled, Settled
    <3> QED BY <2>1, <3>1, <3>3
  <2>2. CASE pc' # "record"
    BY <1>3, <2>2 DEF Plan, Exit, Goto
  <2> QED BY <2>1, <2>2
<1>4. CASE Record
  BY <1>4 DEF Record, Goto, Exit, Compensate, WriteRec, RemoveRec, Swap, Claim, PublishClaimed, Settle, Settled, runtime, Reverting, Unrestored
<1>5. CASE StepStart
  <2>1. mem \in Receipt /\ UNCHANGED jobs
    BY <1>5 DEF StepStart, TypeInv, TypeOK, PCs, runtime
  <2>2. pc' \in {"exec", "settle_main"} /\ (pc' = "exec" => mem'.todo = mem.todo)
    BY <1>5, <2>1 DEF StepStart, WriteRec, Compensate, Goto, Receipt
  <2> QED BY <1>5, <2>1, <2>2 DEF StepStart
<1>6. CASE StepRun
  BY <1>6 DEF StepRun, Goto, Exit, Compensate, WriteRec, RemoveRec, Swap, Claim, PublishClaimed, Settle, Settled, runtime, Reverting, Unrestored
<1>7. CASE StepDone
  BY <1>7 DEF StepDone, Goto, Exit, Compensate, WriteRec, RemoveRec, Swap, Claim, PublishClaimed, Settle, Settled, runtime, Reverting, Unrestored
<1>8. CASE StepFail
  BY <1>8 DEF StepFail, Goto, Exit, Compensate, WriteRec, RemoveRec, Swap, Claim, PublishClaimed, Settle, Settled, runtime, Reverting, Unrestored
<1>9. CASE StepUnsettled
  BY <1>9 DEF StepUnsettled, Goto, Exit, Compensate, WriteRec, RemoveRec, Swap, Claim, PublishClaimed, Settle, Settled, runtime, Reverting, Unrestored
<1>10. CASE WriteCommitting
  BY <1>10 DEF WriteCommitting, WriteRec, Compensate, Goto
<1>11. CASE Precommit
  BY <1>11 DEF Precommit, Goto, Exit, Compensate, WriteRec, RemoveRec, Swap, Claim, PublishClaimed, Settle, Settled, runtime, Reverting, Unrestored
<1>12. CASE Save
  BY <1>12 DEF Save, Goto, Exit, Compensate, WriteRec, RemoveRec, Swap, Claim, PublishClaimed, Settle, Settled, runtime, Reverting, Unrestored
<1>13. CASE CommitBackup
  BY <1>13 DEF CommitBackup, Goto, Exit, Compensate, WriteRec, RemoveRec, Swap, Claim, PublishClaimed, Settle, Settled, runtime, Reverting, Unrestored
<1>14. CASE CommitCheck
  BY <1>14 DEF CommitCheck, Goto, Exit, Compensate, WriteRec, RemoveRec, Swap, Claim, PublishClaimed, Settle, Settled, runtime, Reverting, Unrestored
<1>15. CASE CommitMain
  BY <1>15 DEF CommitMain, Goto, Exit, Compensate, WriteRec, RemoveRec, Swap, Claim, PublishClaimed, Settle, Settled, runtime, Reverting, Unrestored
<1>16. CASE PersistFailed
  BY <1>16 DEF PersistFailed, Goto, Exit, Compensate, WriteRec, RemoveRec, Swap, Claim, PublishClaimed, Settle, Settled, runtime, Reverting, Unrestored
<1>17. CASE Verify
  BY <1>17 DEF Verify, Goto, Exit, Compensate, WriteRec, RemoveRec, Swap, Claim, PublishClaimed, Settle, Settled, runtime, Reverting, Unrestored
<1>18. CASE Finalize
  BY <1>18 DEF Finalize, Goto, Exit, Compensate, WriteRec, RemoveRec, Swap, Claim, PublishClaimed, Settle, Settled, runtime, Reverting, Unrestored
<1>19. CASE Remove
  BY <1>19 DEF Remove, Goto, Exit, Compensate, WriteRec, RemoveRec, Swap, Claim, PublishClaimed, Settle, Settled, runtime, Reverting, Unrestored
<1>20. CASE SettleMain
  BY <1>20 DEF SettleMain, Goto, Exit, Compensate, WriteRec, RemoveRec, Swap, Claim, PublishClaimed, Settle, Settled, runtime, Reverting, Unrestored
<1>21. CASE SettleBackup
  BY <1>21 DEF SettleBackup, Goto, Exit, Compensate, WriteRec, RemoveRec, Swap, Claim, PublishClaimed, Settle, Settled, runtime, Reverting, Unrestored
<1>22. CASE Admit
  BY <1>22 DEF Admit, Goto, Exit, Compensate, WriteRec, RemoveRec, Swap, Claim, PublishClaimed, Settle, Settled, runtime, Reverting, Unrestored
<1>23. CASE RevertStart
  BY <1>23 DEF RevertStart, Goto, Exit, Compensate, WriteRec, RemoveRec, Swap, Claim, PublishClaimed, Settle, Settled, runtime, Reverting, Unrestored
<1>24. CASE RevertDone
  BY <1>24 DEF RevertDone, Goto, Exit, Compensate, WriteRec, RemoveRec, Swap, Claim, PublishClaimed, Settle, Settled, runtime, Reverting, Unrestored
<1>25. CASE RevertFail
  BY <1>25 DEF RevertFail, Goto, Exit, Compensate, WriteRec, RemoveRec, Swap, Claim, PublishClaimed, Settle, Settled, runtime, Reverting, Unrestored
<1>26. CASE MarkRestored
  BY <1>26 DEF MarkRestored, Goto, Exit, Compensate, WriteRec, RemoveRec, Swap, Claim, PublishClaimed, Settle, Settled, runtime, Reverting, Unrestored
<1>27. CASE FinishStore
  BY <1>27 DEF FinishStore, Goto, Exit, Compensate, WriteRec, RemoveRec, Swap, Claim, PublishClaimed, Settle, Settled, runtime, Reverting, Unrestored
<1>28. CASE UndoBackup
  BY <1>28 DEF UndoBackup, Goto, Exit, Compensate, WriteRec, RemoveRec, Swap, Claim, PublishClaimed, Settle, Settled, runtime, Reverting, Unrestored
<1>29. CASE UndoAdmit
  BY <1>29 DEF UndoAdmit, Goto, Exit, Compensate, WriteRec, RemoveRec, Swap, Claim, PublishClaimed, Settle, Settled, runtime, Reverting, Unrestored
<1>30. CASE UndoMain
  BY <1>30 DEF UndoMain, Goto, Exit, Compensate, WriteRec, RemoveRec, Swap, Claim, PublishClaimed, Settle, Settled, runtime, Reverting, Unrestored
<1>31. CASE UndoVerify
  BY <1>31 DEF UndoVerify, Goto, Exit, Compensate, WriteRec, RemoveRec, Swap, Claim, PublishClaimed, Settle, Settled, runtime, Reverting, Unrestored
<1>32. CASE RecoverMain
  BY <1>32 DEF RecoverMain, Goto, Exit, Compensate, WriteRec, RemoveRec, Swap, Claim, PublishClaimed, Settle, Settled, runtime, Reverting, Unrestored
<1>33. CASE RecoverBackup
  BY <1>33 DEF RecoverBackup, Goto, Exit, Compensate, WriteRec, RemoveRec, Swap, Claim, PublishClaimed, Settle, Settled, runtime, Reverting, Unrestored
<1>34. CASE Decide
  BY <1>34 DEF Decide, Goto, Exit, Compensate, WriteRec, RemoveRec, Swap, Claim, PublishClaimed, Settle, Settled, runtime, Reverting, Unrestored
<1>35. CASE Crash
  BY <1>35 DEF Crash, Goto, Exit, Compensate, WriteRec, RemoveRec, Swap, Claim, PublishClaimed, Settle, Settled, runtime, Reverting, Unrestored
<1>36. CASE \E q \in Scenes : JobDone(q)
  BY <1>36 DEF JobDone, Reverting, Unrestored
<1>37. CASE \E f \in Files, c \in EditContents : Edit(f, c)
  BY <1>37 DEF Edit, runtime, Reverting, Unrestored
<1>38. CASE UNCHANGED vars
  BY <1>38 DEF vars, runtime, Reverting, Unrestored
<1> QED
  BY <1>1, <1>2, <1>3, <1>4, <1>5, <1>6, <1>7, <1>8, <1>9, <1>10, <1>11, <1>12, <1>13, <1>14, <1>15, <1>16, <1>17, <1>18, <1>19, <1>20, <1>21, <1>22, <1>23, <1>24, <1>25, <1>26, <1>27, <1>28, <1>29, <1>30, <1>31, <1>32, <1>33, <1>34, <1>35, <1>36, <1>37, <1>38 DEF Next, Process, Forward, Backward, Rest

\* In every reachable state no plan, step or compensation is about to touch a scene whose
\* restart is outstanding.
THEOREM JobInvariant == Spec => []JobInv
<1>1. Init => JobInv
  BY DEF Init, JobInv
<1> QED BY <1>1, NextJob, TypeInvariant, PTL DEF Spec

\* While a restart of a scene's service is outstanding nothing but the restart itself
\* changes the scene's routes: no later transaction, no compensation, no recovery.
THEOREM JobsAreLeftAlone == Spec => NothingMovesUnderAJob
<1>1. ASSUME TypeInv, JobInv, [Next]_vars, NEW s \in jobs, route'[s] # route[s]
      PROVE  s \notin jobs'
  <2> USE <1>1
  <2>0. s \in Scenes /\ route \in [Scenes -> Routes] /\ jobs \subseteq Scenes
    BY DEF TypeInv, TypeOK
  <2>1. CASE StepRun \/ StepDone \/ StepFail
    <3>1. pc \in {"exec", "running"} /\ mem \in Receipt
      BY <2>1 DEF StepRun, StepDone, StepFail, TypeInv, TypeOK, PCs
    <3>2. Current \in mem.started /\ mem.started \subseteq mem.todo
      BY <3>1, LastType DEF Current, TypeInv, TypeOK, Receipt
    <3>3. Current # s
      BY <3>1, <3>2 DEF JobInv
    <3> QED BY <2>0, <2>1, <3>3 DEF StepRun, StepDone, StepFail, SetPart
  <2>2. CASE RevertStart \/ RevertDone
    <3>1. route' = route \/ Reverting # s
      BY <2>2 DEF RevertStart, RevertDone, Settled, JobInv
    <3> QED BY <2>0, <2>2, <3>1 DEF RevertStart, RevertDone, SetPart
  <2>3. CASE \E q \in Scenes : JobDone(q)
    BY <2>0, <2>3 DEF JobDone
  <2>4. CASE UNCHANGED route
    BY <2>4
  <2> QED
    BY <2>1, <2>2, <2>3, <2>4 DEF Next, Process, Forward, Backward, Rest, vars, runtime, Begin, Recover,
       Plan, Record, StepStart, StepUnsettled, WriteCommitting, Precommit, Save, CommitBackup, CommitCheck,
       CommitMain, PersistFailed, Verify, Finalize, Remove, SettleMain, SettleBackup, Admit, RevertFail,
       MarkRestored, FinishStore, UndoBackup, UndoAdmit, UndoMain, UndoVerify, RecoverMain, RecoverBackup,
       Decide, Crash, Edit
<1>2. TypeInv /\ JobInv /\ [Next]_vars =>
        [\A s \in jobs : route'[s] # route[s] => s \notin jobs']_vars
  BY <1>1
<1> QED BY <1>2, TypeInvariant, JobInvariant, PTL DEF Spec, NothingMovesUnderAJob

-------------------------------------------------------------------------------
(***************************************************************************)
(* The consistency of the runtime transaction: what is attached is served, *)
(* a system without a record is whole, generations name one store, a       *)
(* compensation is possible, and the transaction is an atomic change.  One *)
(* inductive invariant in four parts carries all of them; like the         *)
(* properties it speaks about runs nobody edits the store files in.        *)
(***************************************************************************)

(* The runtime and the record: c is what the core serves, rt the routes.   *)

\* Part p is as image img asks.
AsAsked(img, p, c, rt) == IF p = Core THEN c = Serve(img) ELSE rt[p] = Side(img, p)

\* The parts a compensation still has to restore.
Left(r) == r.started \ r.restored

\* What a record says of the plan it was made for, whoever wrote it last.  Parts are
\* started in the order of their ranks and restored against it.
Planned(r) ==
  /\ Loadable(r.ev) /\ r.before = Load(r.ev)
  /\ r.core0 = Serve(r.before)
  /\ r.route0 = [s \in Scenes |-> Side(r.before, s)]
  /\ Highest(r.ev) < r.cand.gen /\ r.cand.gen < MaxGen
  /\ \A s \in Scenes \ r.todo : Side(r.before, s) = Side(r.cand, s)
  /\ Core \notin r.todo => Serve(r.before) = Serve(r.cand)
  /\ r.comp # Absent => r.comp = [r.before EXCEPT !.gen = r.cand.gen + 1]
  /\ r.started \subseteq r.todo /\ r.restored \subseteq r.started
  /\ \A p \in r.started, q \in r.todo : Rank(r, q) < Rank(r, p) => q \in r.started
  /\ \A p \in r.restored, q \in r.started : Rank(r, p) < Rank(r, q) => q \in r.restored

\* Where the runtime is when r has been executed that far: only the last part that is
\* left may be half done.
Reached(r, c, rt) ==
  /\ c \in {Serve(r.before), Serve(r.cand), Broken}
  /\ \A s \in Scenes \ (r.before.on \cup r.cand.on) : rt[s] = "off"
  /\ \A s \in Scenes : rt[s] \in {"off", "mixed", Side(r.before, s), Side(r.cand, s)}
  /\ \A p \in Parts \ Left(r) : AsAsked(r.before, p, c, rt)
  /\ \A p \in Left(r) : p # Last(r, Left(r)) => AsAsked(r.cand, p, c, rt)

\* Two records of one plan, and two that also have come equally far.
SamePlan(q, r) ==
  /\ q.before = r.before /\ q.cand = r.cand /\ q.ev = r.ev /\ q.todo = r.todo
  /\ q.route0 = r.route0 /\ q.core0 = r.core0
SameSteps(q, r) == q.started = r.started /\ q.restored = r.restored

Early    == {"idle", "plan", "record"}
Settling == {"settle_main", "settle_bak", "admit"}
Going    == {"step", "precommit", "save", "commit_bak", "commit_check", "commit_main",
             "persist_failed", "verify", "committed"}
Reverts  == {"revert", "reverting", "restored"}

\* The record in memory is the one on disk, but for what could not be written.
PlanInv ==
  /\ rec # None => Planned(rec) /\ pc \notin {"plan", "record"}
  /\ pc \in {"plan", "record"} => mem.before = Load(file) /\ mem.started = {} /\ mem.restored = {}
  /\ pc = "plan" /\ mem.mode = "none" =>
       /\ mem.cand.on = mem.before.on /\ mem.cand.cfg = mem.before.cfg
       /\ mem.cand.conf = mem.before.conf
  /\ pc = "record" => Planned(mem) /\ mem.ev = file /\ mem.comp = Absent
  /\ pc \notin Early \cup Settling => mem = rec
  /\ pc \in Settling =>
       /\ Planned(mem) /\ SamePlan(mem, rec) /\ mem.comp = rec.comp
       /\ mem.restored = rec.restored /\ rec.started \subseteq mem.started
  /\ pc \in Reverts => mem.phase = "compensating"

RunInv ==
  /\ rec = None => /\ jobs = {} /\ core = Serve(Load(file))
                   /\ \A s \in Scenes : route[s] = Side(Load(file), s)
  /\ rec # None => Reached(rec, core, route) /\ jobs \subseteq Left(rec)
  /\ \A s \in jobs : route[s] = "mixed"
  /\ pc \in Settling => Reached(mem, core, route)
  /\ pc \in Going \cup {"exec", "running"} => mem.restored = {} /\ jobs = {}
  /\ pc \in Going => \A p \in mem.started : AsAsked(mem.cand, p, core, route)
  /\ pc \in Going \ {"step"} => mem.started = mem.todo
  /\ pc = "restored" => AsAsked(mem.before, Reverting, core, route) /\ Reverting \notin jobs
  /\ pc \in UndoPCs => Left(mem) = {}
  /\ pc = "remove" => Left(mem) = {} \/ file["main"] = mem.cand
  /\ rec # None /\ file["main"] = rec.cand =>
       jobs = {} /\ \A p \in Parts : AsAsked(rec.cand, p, core, route)

(* The store files: f is what they hold, q their quarantines.              *)

Holds(f, q, x, c) == f[x] = c /\ q[x] = Absent

\* A compare-and-swap of file x from old to new, interrupted anywhere ...
Between(f, q, x, old, new) ==
  \/ Holds(f, q, x, old) \/ Holds(f, q, x, new)
  \/ f[x] \in {Absent, new} /\ q[x] = old

\* ... or under way, k being how far it is.
Under(f, q, k, x, old, new) ==
  /\ k \in {"claim", "take"} => Holds(f, q, x, old)
  /\ k = "publish" => f[x] = Absent /\ q[x] = old
  /\ k = "retire" => f[x] = new /\ q[x] = old

\* The backup goes first, to the candidate and back.
Shape(r, f, q) ==
  \/ /\ r.comp = Absent
     /\ \/ Holds(f, q, "main", r.ev["main"]) /\ Between(f, q, "bak", r.ev["bak"], r.cand)
        \/ Holds(f, q, "bak", r.cand) /\ Between(f, q, "main", r.ev["main"], r.cand)
  \/ /\ r.comp # Absent
     /\ \/ Holds(f, q, "main", r.ev["main"]) /\ Between(f, q, "bak", r.cand, r.comp)
        \/ Holds(f, q, "bak", r.comp) /\ Between(f, q, "main", r.ev["main"], r.comp)

ShapeInv ==
  /\ rec = None => Loadable(file) /\ \A x \in Files : quar[x] = Absent
  /\ rec # None => Shape(rec, file, quar)
  /\ pc \in {"step", "exec", "running", "precommit", "save"} =>
       mem.comp = Absent /\ \A x \in Files : Holds(file, quar, x, mem.ev[x])
  /\ pc \in {"commit_bak", "commit_check", "commit_main"} => mem.comp = Absent
  /\ pc = "commit_bak" => /\ Holds(file, quar, "main", mem.ev["main"])
                          /\ Under(file, quar, cas, "bak", mem.ev["bak"], mem.cand)
  /\ pc = "commit_check" => /\ Holds(file, quar, "main", mem.ev["main"])
                            /\ Holds(file, quar, "bak", mem.cand)
  /\ pc = "commit_main" => /\ Holds(file, quar, "bak", mem.cand)
                           /\ Under(file, quar, cas, "main", mem.ev["main"], mem.cand)
  /\ pc \in {"verify", "committed"} => \A x \in Files : Holds(file, quar, x, mem.cand)
  /\ pc \in Settling \cup Reverts \cup UndoPCs => file["main"] # mem.cand
  /\ pc \in {"settle_bak", "recover_bak"} => quar["main"] = Absent
  /\ pc \in {"admit", "decide"} \cup Reverts => \A x \in Files : quar[x] = Absent
  /\ pc = "undo_bak" =>
       /\ Holds(file, quar, "main", seen["main"]) /\ seen["bak"] \in {mem.cand, mem.comp}
       /\ Under(file, quar, cas, "bak", seen["bak"], mem.comp)
  /\ pc = "undo_admit" => /\ Holds(file, quar, "main", seen["main"])
                          /\ Holds(file, quar, "bak", mem.comp)
  /\ pc = "undo_main" => /\ Under(file, quar, cas, "main", seen["main"], mem.comp)
                         /\ Holds(file, quar, "bak", mem.comp)
  /\ pc = "undo_verify" => \A x \in Files : Holds(file, quar, x, mem.comp)
  /\ pc = "remove" =>
       \/ \A x \in Files : Holds(file, quar, x, mem.cand)
       \/ \A x \in Files : Holds(file, quar, x, mem.ev[x])
       \/ \A x \in Files : Holds(file, quar, x, mem.comp)

\* The generations that were issued are those of the store before, and of the candidate
\* and the compensation of the pending record.
IssueInv ==
  /\ \A a, b \in issued : a.gen = b.gen => a = b
  /\ rec = None => \A i \in issued : i.gen <= Highest(file)
  /\ rec # None => \A i \in issued : i.gen <= Highest(rec.ev) \/ i \in {rec.cand, rec.comp}
  /\ rec # None /\ rec.comp = Absent /\ file["bak"] # rec.cand => rec.cand \notin issued

WholeInv == edits = 0 => PlanInv /\ RunInv /\ ShapeInv /\ IssueInv

-----------------------------------------------------------------------------
(* The order of a plan.                                                    *)

\* No two parts of a plan have the same rank.
LEMMA RankInjective ==
  ASSUME NEW r, NEW p \in Parts, NEW q \in Parts, Rank(r, p) = Rank(r, q)
  PROVE  p = q
  BY PartsType DEF Rank, SceneRank, Core

\* A part that no other part of a set comes after is the last one.
LEMMA LastIsUnique ==
  ASSUME NEW r, NEW S, S \subseteq Parts, NEW p \in S, \A q \in S : Rank(r, q) <= Rank(r, p)
  PROVE  Last(r, S) = p
<1>1. Last(r, S) \in S /\ Rank(r, p) <= Rank(r, Last(r, S)) /\ Rank(r, Last(r, S)) <= Rank(r, p)
  BY LastType
<1>2. Rank(r, p) \in 1..7 /\ Rank(r, Last(r, S)) \in 1..7
  BY <1>1, RankType
<1> QED BY <1>1, <1>2, RankInjective

\* Rank, Last and with them the plan depend on the plan's own fields only.
LEMMA SamePlanPlanned ==
  ASSUME NEW q, NEW r, SamePlan(q, r), SameSteps(q, r), q.comp = r.comp, Planned(r)
  PROVE  Planned(q)
  BY DEF SamePlan, SameSteps, Planned, Rank

\* So does how far it has been carried out.
LEMMA SamePlanReached ==
  ASSUME NEW q, NEW r, SamePlan(q, r), SameSteps(q, r), NEW c, NEW rt, Reached(r, c, rt)
  PROVE  Reached(q, c, rt)
  BY DEF SamePlan, SameSteps, Reached, Left, Last, Rank

-----------------------------------------------------------------------------
(* What the invariant says about the properties.                           *)

\* A configuration opens the inbounds its image's setups ask for, and no others.
LEMMA ServeOn ==
  ASSUME NEW img \in Image
  PROVE  /\ \A s \in Scenes : Serve(img).at[s] = Inbound(img, s)
         /\ \A s \in Scenes : Inbound(img, s) # "off" <=> s \in img.on
         /\ \A s \in img.on : /\ Side(img, s) = img.conf[s] /\ Inbound(img, s) = Port[img.conf[s]]
                              /\ img.conf[s] \in Setups
         /\ Serve(img) # Broken
<1>1. \A s \in Scenes : img.conf[s] \in Setups
  BY ConfigAssumption DEF Image
<1>2. \A s \in Scenes : Serve(img).at[s] = Inbound(img, s)
  BY DEF Serve, Stopped, Inbound, Image
<1>3. \A s \in Scenes : Inbound(img, s) # "off" <=> s \in img.on
  BY <1>1, ConfigAssumption DEF Inbound
<1>4. img.on \subseteq Scenes
  BY DEF Image
<1> QED BY <1>1, <1>2, <1>3, <1>4, ServeType, SentinelAssumption DEF Side, Inbound

\* An image's ports, sides and what it asks for, but not its generation, make its world.
LEMMA SameWorld ==
  ASSUME NEW a, NEW b, a.on = b.on, a.cfg = b.cfg, a.conf = b.conf
  PROVE  Serve(a) = Serve(b) /\ Asks(a) = Asks(b) /\ \A s \in Scenes : Side(a, s) = Side(b, s)
<1>1. \A s \in Scenes : Inbound(a, s) = Inbound(b, s) /\ Side(a, s) = Side(b, s)
  BY DEF Inbound, Side
<1>2. Serve(a) = Serve(b)
  BY <1>1 DEF Serve
<1> QED BY <1>1, <1>2 DEF Asks

\* However far a plan has come, a route that is attached leads to inbounds: scenes the
\* candidate drops are released before the core changes, scenes it adds are attached
\* after, and a compensation goes back the same way.
LEMMA ReachedIsServed ==
  ASSUME NEW r \in Receipt, Planned(r), NEW c, NEW rt, Reached(r, c, rt),
         NEW s \in Scenes, rt[s] # "off"
  PROVE  IF c = Broken THEN s \in r.before.on \cap r.cand.on
         ELSE c.at[s] # "off" /\ (rt[s] = "mixed" \/ Port[rt[s]] = c.at[s] \/ Moves(r, s))
<1>1. /\ r.before \in Image /\ r.cand \in Image /\ Left(r) \subseteq Parts
      /\ r.todo \subseteq Parts /\ r.started \subseteq r.todo /\ r.restored \subseteq r.started
      /\ s \in Parts /\ Core \in Parts /\ s # Core
  BY SceneAssumption DEF Receipt, Planned, Left, Parts, SceneNames, Core
<1>2. /\ Serve(r.before).at[s] = Inbound(r.before, s) /\ Serve(r.before) # Broken
      /\ Serve(r.cand).at[s] = Inbound(r.cand, s) /\ Serve(r.cand) # Broken
      /\ s \in r.before.on => /\ Inbound(r.before, s) # "off" /\ Side(r.before, s) = r.before.conf[s]
                              /\ Inbound(r.before, s) = Port[r.before.conf[s]]
      /\ s \in r.cand.on => /\ Inbound(r.cand, s) # "off" /\ Side(r.cand, s) = r.cand.conf[s]
                            /\ Inbound(r.cand, s) = Port[r.cand.conf[s]]
      /\ s \notin r.before.on => Side(r.before, s) = "off"
      /\ s \notin r.cand.on => Side(r.cand, s) = "off"
  BY <1>1, ServeOn DEF Side
<1>3. s \in r.before.on \cup r.cand.on
      /\ rt[s] \in {"mixed", Side(r.before, s), Side(r.cand, s)}
      /\ c \in {Serve(r.before), Serve(r.cand), Broken}
  BY DEF Reached
<1>4. /\ Rank(r, Core) = 4
      /\ s \in r.cand.on => Rank(r, s) > 4
      /\ s \notin r.cand.on => Rank(r, s) < 4
  BY <1>1 DEF Rank, SceneRank
<1>5. \A p \in Left(r) : Rank(r, p) <= Rank(r, Last(r, Left(r))) /\ Rank(r, p) \in 1..7
  BY <1>1, LastType, RankType
<1>6. /\ s \notin Left(r) => s \in r.before.on
      /\ s \in Left(r) /\ s # Last(r, Left(r)) => s \in r.cand.on
      /\ s \notin r.todo => Side(r.before, s) = Side(r.cand, s)
      /\ Core \notin Left(r) => c = Serve(r.before)
      /\ Core \in Left(r) /\ Core # Last(r, Left(r)) => c = Serve(r.cand)
  BY <1>1 DEF Reached, AsAsked, Side, Planned
\* A scene the change is about is left, and not the last part left, when the core is
\* left and comes after it; and the other way round.
<1>7. ASSUME NEW p \in Parts, NEW q \in Parts, p \in r.todo, q \in Left(r), Rank(r, p) < Rank(r, q)
      PROVE  p \in Left(r) /\ p # Last(r, Left(r))
  <2>1. p \in r.started
    BY <1>7 DEF Planned, Left
  <2>2. p \notin r.restored
    BY <1>7 DEF Planned, Left
  <2>3. p # Last(r, Left(r))
    BY <1>5, <1>7, RankType
  <2> QED BY <2>1, <2>2, <2>3 DEF Left
<1>8. (s \in r.before.on) # (s \in r.cand.on) => s \in r.todo
  <2>1. \A q \in {r.before, r.cand} : s \in q.on => Side(q, s) # "off"
    BY <1>1, ServeOn, ConfigAssumption
  <2> QED BY <1>2, <1>6, <2>1
<1>9. Core \notin r.todo => Serve(r.before) = Serve(r.cand)
  BY DEF Planned
<1>10. CASE s \in r.before.on /\ s \in r.cand.on
  <2>1. CASE Side(r.before, s) = Side(r.cand, s)
    BY <1>2, <1>3, <1>10, <2>1
  <2>2. CASE Side(r.before, s) # Side(r.cand, s)
    <3>1. Moves(r, s)
      BY <1>2, <1>6, <1>10, <2>2 DEF Moves
    <3> QED BY <1>2, <1>3, <1>10, <3>1
  <2> QED BY <2>1, <2>2
<1>11. CASE s \in r.before.on /\ s \notin r.cand.on
  <2>1. s \in Left(r) => s = Last(r, Left(r))
    BY <1>6, <1>11
  <2>2. Core \notin Left(r)
    BY <1>1, <1>4, <1>7, <1>8, <1>11, <2>1
  <2> QED BY <1>2, <1>3, <1>6, <1>11, <2>2
<1>12. CASE s \notin r.before.on /\ s \in r.cand.on
  <2>1. s \in Left(r) /\ s \in r.todo
    BY <1>6, <1>8, <1>12
  <2>2. Core \in r.todo => c = Serve(r.cand)
    BY <1>1, <1>4, <1>6, <1>7, <1>12, <2>1
  <2>3. Core \notin r.todo => c = Serve(r.cand)
    BY <1>1, <1>2, <1>6, <1>9 DEF Left
  <2> QED BY <1>2, <1>3, <1>12, <2>2, <2>3
<1> QED BY <1>3, <1>10, <1>11, <1>12

\* Routes lead to inbounds in every state the invariant describes.
LEMMA WholeIsServed == TypeInv /\ WholeInv => AttachedIsServed
<1> SUFFICES ASSUME TypeInv, WholeInv, edits = 0, NEW s \in Scenes, route[s] # "off"
             PROVE  IF core = Broken THEN rec # None /\ s \in rec.before.on \cap rec.cand.on
                    ELSE /\ core.at[s] # "off"
                         /\ \/ route[s] = "mixed"
                            \/ Port[route[s]] = core.at[s]
                            \/ rec # None /\ Moves(rec, s)
  BY DEF AttachedIsServed
<1>1. CASE rec = None
  <2>1. Load(file) \in Image
    BY LoadType DEF TypeInv, TypeOK
  <2>2. core = Serve(Load(file)) /\ route[s] = Side(Load(file), s)
    BY <1>1 DEF WholeInv, RunInv
  <2> QED BY <2>1, <2>2, ServeOn DEF Side
<1>2. CASE rec # None
  <2>1. rec \in Receipt /\ Planned(rec) /\ Reached(rec, core, route)
    BY <1>2 DEF TypeInv, TypeOK, WholeInv, PlanInv, RunInv
  <2> QED BY <1>2, <2>1, ReachedIsServed
<1> QED BY <1>1, <1>2

\* Without a record the system is whole in every state the invariant describes.
LEMMA WholeIsConsistent == TypeInv /\ WholeInv => NoRecordIsConsistent
<1> SUFFICES ASSUME TypeInv, WholeInv, rec = None, edits = 0
             PROVE  /\ Loadable(file) /\ quar = [f \in Files |-> Absent] /\ jobs = {}
                    /\ core = Serve(Load(file))
                    /\ route = [s \in Scenes |-> Side(Load(file), s)]
  BY DEF NoRecordIsConsistent
<1> QED BY DEF TypeInv, TypeOK, WholeInv, RunInv, ShapeInv, Side

\* Two images that were issued under one generation are one image.
LEMMA WholeIsUnique == WholeInv => GenerationsAreUnique
  BY DEF WholeInv, IssueInv, GenerationsAreUnique

\* A candidate is later than everything the store held when it was planned, and a
\* compensation is the store from before under the generation after the candidate's.
LEMMA PlannedImages ==
  ASSUME NEW r \in Receipt, Planned(r)
  PROVE  /\ r.ev \in [Files -> Content] /\ r.before \in Image /\ r.cand \in Image
         /\ Highest(r.ev) \in Nat /\ r.cand.gen \in Nat /\ r.before.gen \in Nat
         /\ Highest(r.ev) < r.cand.gen /\ r.cand.gen < MaxGen /\ r.before.gen < r.cand.gen
         /\ \A x \in Files : r.ev[x] # r.cand /\ (r.comp # Absent => r.ev[x] # r.comp)
         /\ r.comp # Absent => /\ r.comp \in Image /\ r.comp # r.cand
                               /\ r.comp.gen = r.cand.gen + 1
                               /\ Serve(r.comp) = Serve(r.before) /\ Asks(r.comp) = Asks(r.before)
<1>1. r.ev \in [Files -> Content] /\ r.before \in Image /\ r.cand \in Image
      /\ (r.comp # Absent => r.comp \in Image)
  BY DEF Receipt
<1>2. Highest(r.ev) \in Nat /\ r.cand.gen \in Nat /\ r.before.gen \in Nat
  BY <1>1, HighestType, BoundAssumption DEF Image
<1>3. Highest(r.ev) < r.cand.gen /\ r.cand.gen < MaxGen
  BY DEF Planned
<1>4. r.before.gen <= Highest(r.ev)
  <2>1. r.before = Load(r.ev) /\ (r.ev["main"] \in Image => r.ev["main"].gen <= Highest(r.ev))
        /\ (r.ev["bak"] \in Image => r.ev["bak"].gen <= Highest(r.ev))
    BY <1>1, HighestType DEF Planned, Files
  <2> QED BY <1>2, <2>1 DEF Load, NewStore
<1>5. \A x \in Files : r.ev[x] \in Image => r.ev[x].gen < r.cand.gen
  BY <1>1, <1>2, <1>3, HighestType, BoundAssumption DEF Image
<1>6. ASSUME r.comp # Absent
      PROVE  /\ r.comp.gen = r.cand.gen + 1 /\ Serve(r.comp) = Serve(r.before)
             /\ Asks(r.comp) = Asks(r.before)
  <2>1. r.comp = [r.before EXCEPT !.gen = r.cand.gen + 1]
    BY <1>6 DEF Planned
  <2>2. /\ r.comp.gen = r.cand.gen + 1 /\ r.comp.on = r.before.on /\ r.comp.cfg = r.before.cfg
        /\ r.comp.conf = r.before.conf
    BY <1>1, <2>1 DEF Image
  <2> QED BY <2>2, SameWorld
<1> QED BY <1>1, <1>2, <1>3, <1>4, <1>5, <1>6

\* With nothing in a quarantine and the candidate not in main, the store is where it was
\* planned from, or only its backup moved, or it is being compensated.
LEMMA QuietShape ==
  ASSUME NEW r \in Receipt, Planned(r), NEW f, NEW q, Shape(r, f, q),
         \A x \in Files : q[x] = Absent, f["main"] # r.cand
  PROVE  /\ f["main"] \in {r.ev["main"], r.comp}
         /\ r.comp = Absent => f["main"] = r.ev["main"] /\ f["bak"] \in {r.ev["bak"], r.cand}
         /\ r.comp # Absent => f["bak"] \in {r.cand, r.comp}
<1>1. r.cand # Absent
  BY PlannedImages, SentinelAssumption
<1> QED BY <1>1 DEF Shape, Holds, Between, Files

\* A store whose backup alone moved has the candidate's generation as its highest.
LEMMA QuietHighest ==
  ASSUME NEW r \in Receipt, Planned(r), NEW f \in [Files -> Content],
         f["main"] = r.ev["main"], f["bak"] = r.cand
  PROVE  Highest(f) = r.cand.gen
<1>1. f["main"] \in Image => f["main"].gen <= Highest(r.ev)
  BY PlannedImages, HighestType DEF Files
<1>2. r.cand \in Image /\ r.cand.gen \in Nat /\ Highest(r.ev) \in Nat /\ Highest(r.ev) < r.cand.gen
  BY PlannedImages
<1>3. r.cand.gen <= Highest(f) /\ Highest(f) \in Nat
  BY <1>2, HighestType, BoundAssumption DEF Files
<1>4. CASE \E x \in Files : f[x] \in Image /\ f[x].gen = Highest(f)
  BY <1>1, <1>2, <1>3, <1>4 DEF Files, Image
<1>5. CASE Highest(f) = 0
  BY <1>2, <1>3, <1>5
<1> QED BY <1>4, <1>5, HighestType

\* The compensation a record calls for is one writeRuntimeTransition accepts.
LEMMA UndoIsWellFormed ==
  ASSUME NEW r \in Receipt, Planned(r), r.phase = "compensating", NEW q,
         q = [r EXCEPT !.comp = [r.before EXCEPT !.gen = r.cand.gen + 1]]
  PROVE  /\ q \in Receipt /\ SamePlan(q, r) /\ SameSteps(q, r) /\ q.phase = r.phase /\ q.comp # Absent
         /\ WellFormed(q) /\ Planned(q)
<1>1. r.before \in Image /\ r.cand \in Image /\ r.cand.gen \in Nat /\ r.before.gen < r.cand.gen
      /\ r.cand.gen < MaxGen
  BY PlannedImages
<1> DEFINE c == [r.before EXCEPT !.gen = r.cand.gen + 1]
<1>2. c \in Image /\ c.gen = r.cand.gen + 1 /\ c # Absent
  BY <1>1, BoundAssumption, SentinelAssumption DEF Image
<1> HIDE DEF c
<1>3. q = [r EXCEPT !.comp = c]
  BY DEF c
<1>4. q \in Receipt /\ SamePlan(q, r) /\ SameSteps(q, r) /\ q.phase = r.phase /\ q.comp = c
  BY <1>2, <1>3 DEF Receipt, SamePlan, SameSteps
<1>5. Planned(q)
  BY <1>4 DEF Planned, SamePlan, SameSteps, Rank, c
<1>6. q.comp = [q.before EXCEPT !.gen = q.comp.gen]
  BY <1>2, <1>4 DEF SamePlan, c
<1>7. WellFormed(q)
  BY <1>1, <1>2, <1>4, <1>5, <1>6 DEF WellFormed, SamePlan, SameSteps, Planned, Image
<1> QED BY <1>2, <1>4, <1>5, <1>7

\* When a compensation has to rewrite the store, only the backup has moved.
LEMMA UndoGeneration ==
  ASSUME TypeInv, WholeInv, edits = 0, pc = "revert", file # mem.ev, mem.comp = Absent
  PROVE  mem \in Receipt /\ Planned(mem) /\ mem.phase = "compensating" /\ Highest(file) = mem.cand.gen
<1>1. mem \in Receipt /\ mem = rec /\ Planned(mem) /\ mem.phase = "compensating"
      /\ file \in [Files -> Content] /\ mem.ev \in [Files -> Content]
  BY DEF TypeInv, TypeOK, WholeInv, PlanInv, Early, Settling, Reverts, Receipt
<1>2. Shape(mem, file, quar) /\ file["main"] # mem.cand /\ \A x \in Files : quar[x] = Absent
  BY <1>1, SentinelAssumption DEF WholeInv, ShapeInv, Reverts
<1>3. file["main"] = mem.ev["main"] /\ file["bak"] \in {mem.ev["bak"], mem.cand}
  BY <1>1, <1>2, QuietShape
<1>4. file["bak"] = mem.cand
  BY <1>1, <1>3 DEF Files
<1> QED BY <1>1, <1>3, <1>4, QuietHighest

\* In every state the invariant describes a compensation that has to rewrite the store
\* finds the reserved generation.
LEMMA WholeIsPossible == TypeInv /\ WholeInv => CompensationIsPossible
<1> SUFFICES ASSUME TypeInv, WholeInv, edits = 0, pc = "revert", file # mem.ev, mem.comp = Absent
             PROVE  /\ Highest(file) < MaxGen
                    /\ WellFormed([mem EXCEPT !.comp = [mem.before EXCEPT !.gen = Highest(file) + 1]])
  BY DEF CompensationIsPossible
<1>1. mem \in Receipt /\ Planned(mem) /\ mem.phase = "compensating" /\ Highest(file) = mem.cand.gen
  BY UndoGeneration
<1>2. mem.cand.gen < MaxGen
  BY <1>1, PlannedImages
<1> QED BY <1>1, <1>2, UndoIsWellFormed

-----------------------------------------------------------------------------
(* The invariant is inductive: the initial states, then one part at a time. *)

\* A system at rest is whole.
LEMMA InitWhole == Init => WholeInv
<1> SUFFICES ASSUME Init PROVE WholeInv
  OBVIOUS
<1>1. PICK gen \in 1..MaxGen, on \in SUBSET Scenes, cfg \in Settings, conf \in Configs :
        Resting([gen |-> gen, on |-> on, cfg |-> cfg, conf |-> conf])
  BY DEF Init
<1> DEFINE st == [gen |-> gen, on |-> on, cfg |-> cfg, conf |-> conf]
<1>2. st \in Image /\ Resting(st)
  BY <1>1, BoundAssumption DEF Image
<1> HIDE DEF st
<1>3. file \in [Files -> Content]
  BY InitType DEF TypeInv, TypeOK
<1>4. Loadable(file) /\ core = Serve(Load(file)) /\ \A s \in Scenes : route[s] = Side(Load(file), s)
  <2>1. CASE file["main"] = st \/ (file["main"] \in {Absent, Corrupt} /\ file["bak"] = st)
    <3>1. Loadable(file) /\ Load(file) = st
      BY <1>2, <2>1, SentinelAssumption DEF Loadable, Load
    <3> QED BY <1>2, <3>1 DEF Resting
  <2>2. CASE st.on = {} /\ st.cfg = Fresh /\ file = [f \in Files |-> Absent]
    BY <1>2, <2>2, SentinelAssumption DEF Resting, Loadable, Load, NewStore, Serve, Side, Files
  <2> QED BY <1>2, <2>1, <2>2 DEF Resting, Files
<1>5. \A i \in issued : i.gen <= Highest(file)
  <2>1. issued = {file[f] : f \in Files} \ {Absent, Corrupt}
    BY DEF Init
  <2> QED BY <1>3, <2>1, HighestType DEF Content
<1>6. \A a, b \in issued : a.gen = b.gen => a = b
  <2>1. issued \subseteq {st} \/ \E next \in Image : next.gen # st.gen /\ issued \subseteq {st, next}
    <3>1. \A other \in Settings : st.gen < MaxGen =>
            /\ [st EXCEPT !.gen = @ + 1, !.cfg = other] \in Image
            /\ [st EXCEPT !.gen = @ + 1, !.cfg = other].gen # st.gen
      BY <1>2, NextImage
    <3>2. issued = {file["main"], file["bak"]} \ {Absent, Corrupt}
      BY <1>3 DEF Init, Files
    <3>3. CASE file["main"] \in {st, Absent, Corrupt} /\ file["bak"] \in {st, Absent, Corrupt}
      BY <3>2, <3>3
    <3>4. CASE file["main"] = st /\ \E other \in Settings :
                 st.gen < MaxGen /\ file["bak"] = [st EXCEPT !.gen = @ + 1, !.cfg = other]
      BY <3>1, <3>2, <3>4
    <3> QED BY <1>2, <3>3, <3>4 DEF Resting, Files
  <2> QED BY <2>1
<1>7. PlanInv
  BY DEF Init, PlanInv, Early, Settling, Reverts
<1>8. RunInv
  BY <1>4 DEF Init, RunInv, Settling, Going, UndoPCs
<1>9. ShapeInv
  BY <1>4 DEF Init, ShapeInv, Settling, Reverts, UndoPCs, Files
<1>10. IssueInv
  BY <1>5, <1>6 DEF Init, IssueInv
<1> QED BY <1>7, <1>8, <1>9, <1>10 DEF WholeInv

\* Marking the next part started keeps to the order of the plan, and makes it the last.
LEMMA PlannedStart ==
  ASSUME NEW r \in Receipt, Planned(r), r.started # r.todo, r.restored = {}, NEW q,
         q = [r EXCEPT !.started = @ \cup {First(r, r.todo \ r.started)}]
  PROVE  /\ q \in Receipt /\ SamePlan(q, r) /\ q.comp = r.comp /\ q.restored = r.restored
         /\ q.started = r.started \cup {First(r, r.todo \ r.started)}
         /\ First(r, r.todo \ r.started) \in r.todo \ r.started
         /\ Last(q, q.started) = First(r, r.todo \ r.started)
         /\ Planned(q)
<1> DEFINE n == First(r, r.todo \ r.started)
<1>1. r.started \subseteq r.todo /\ r.todo \subseteq Parts
  BY DEF Planned, Receipt
<1>2. n \in r.todo \ r.started /\ \A p \in r.todo \ r.started : Rank(r, n) <= Rank(r, p)
  BY <1>1, FirstType
<1> HIDE DEF n
<1>3. q \in Receipt /\ SamePlan(q, r) /\ q.comp = r.comp /\ q.restored = {}
      /\ q.started = r.started \cup {n}
  BY <1>1, <1>2 DEF n, SamePlan, Receipt
<1>4. \A p : Rank(q, p) = Rank(r, p)
  BY <1>3 DEF Rank, SamePlan
<1>5. \A p \in r.started, x \in r.todo : Rank(r, x) < Rank(r, p) => x \in r.started
  BY DEF Planned
<1>6. \A p \in Parts : Rank(r, p) \in 1..7
  BY RankType
<1>7. \A p \in q.started, x \in q.todo : Rank(q, x) < Rank(q, p) => x \in q.started
  BY <1>1, <1>2, <1>3, <1>4, <1>5, <1>6 DEF SamePlan
<1>8. Last(q, q.started) = n
  <2>1. q.started \subseteq Parts /\ n \in q.started
    BY <1>1, <1>2, <1>3
  <2>2. \A p \in r.started : Rank(r, p) <= Rank(r, n)
    BY <1>1, <1>2, <1>5, <1>6
  <2>3. \A p \in q.started : Rank(q, p) <= Rank(q, n)
    BY <1>1, <1>2, <1>3, <1>4, <1>6, <2>2
  <2> QED BY <2>1, <2>3, LastIsUnique
<1>9. Planned(q)
  BY <1>1, <1>2, <1>3, <1>7 DEF Planned, SamePlan
<1> QED BY <1>2, <1>3, <1>8, <1>9 DEF n

\* Marking the last part that is left restored keeps to the reverse order.
LEMMA PlannedRestored ==
  ASSUME NEW r \in Receipt, Planned(r), Left(r) # {}, NEW q,
         q = [r EXCEPT !.restored = @ \cup {Last(r, Left(r))}]
  PROVE  /\ q \in Receipt /\ SamePlan(q, r) /\ q.comp = r.comp /\ q.started = r.started
         /\ q.phase = r.phase /\ Left(q) = Left(r) \ {Last(r, Left(r))}
         /\ Last(r, Left(r)) \in Left(r)
         /\ Planned(q)
<1> DEFINE n == Last(r, Left(r))
<1>1. r.started \subseteq Parts /\ r.restored \subseteq r.started
  BY DEF Planned, Receipt
<1>2. n \in Left(r) /\ \A p \in Left(r) : Rank(r, p) <= Rank(r, n)
  BY <1>1, LastType DEF Left
<1> HIDE DEF n
<1>3. q \in Receipt /\ SamePlan(q, r) /\ q.comp = r.comp /\ q.started = r.started
      /\ q.phase = r.phase /\ q.restored = r.restored \cup {n}
  BY <1>1, <1>2 DEF n, SamePlan, Receipt, Left
<1>4. \A p : Rank(q, p) = Rank(r, p)
  BY <1>3 DEF Rank, SamePlan
<1>5. \A p \in r.restored, x \in r.started : Rank(r, p) < Rank(r, x) => x \in r.restored
  BY DEF Planned
<1>6. \A p \in Parts : Rank(r, p) \in 1..7
  BY RankType
<1>7. \A p \in q.restored, x \in q.started : Rank(q, p) < Rank(q, x) => x \in q.restored
  <2>1. \A x \in r.started : Rank(r, n) < Rank(r, x) => x \in r.restored
    BY <1>1, <1>2, <1>6 DEF Left
  <2> QED BY <1>3, <1>4, <1>5, <2>1
<1>8. Planned(q)
  <2>1. q.restored \subseteq q.started
    BY <1>1, <1>2, <1>3 DEF Left
  <2> QED BY <1>3, <1>7, <2>1, <1>4 DEF Planned, SamePlan
<1> QED BY <1>2, <1>3, <1>8 DEF n, Left

\* How PlanInv survives a step, by what the step does to the record and the memory:
\* the record is written and kept in memory, ...
LEMMA PlanWritten ==
  ASSUME NEW r, r # None, Planned(r), rec' = r, mem' = r, pc' \notin Early \cup Settling,
         pc' \in Reverts => r.phase = "compensating"
  PROVE  PlanInv'
  BY DEF PlanInv, Early, Settling

\* ... or the command ends with the old record or a new one of the plan, ...
LEMMA PlanExited ==
  ASSUME PlanInv, Exit, NEW r, Planned(r) \/ r = None, rec' \in {rec, r}
  PROVE  PlanInv'
  BY DEF PlanInv, Exit, Early, Settling, Reverts

\* ... or it goes on to compensate, perhaps with a start it could not write, ...
LEMMA PlanFailed ==
  ASSUME PlanInv, rec # None, NEW r, r # None, Planned(r), rec' \in {rec, r}, Compensate(r),
         SamePlan(r, rec), r.comp = rec.comp, r.restored = rec.restored,
         rec.started \subseteq r.started
  PROVE  PlanInv'
<1>1. /\ Planned(rec') /\ mem' = r /\ pc' = "settle_main" /\ rec' # None
      /\ SamePlan(mem', rec') /\ mem'.comp = rec'.comp /\ mem'.restored = rec'.restored
      /\ rec'.started \subseteq mem'.started
  BY DEF PlanInv, Compensate, Goto, SamePlan
<1> QED BY <1>1 DEF PlanInv, Early, Settling, Reverts

\* ... or neither record nor memory changes.
LEMMA PlanKept ==
  ASSUME PlanInv, UNCHANGED <<rec, mem>>, pc' \notin Early, pc \notin Early,
         pc' \in Settling <=> pc \in Settling, pc' \in Reverts => mem.phase = "compensating"
  PROVE  PlanInv'
  BY DEF PlanInv, Early, Settling

\* Writing another phase changes nothing of the plan.
LEMMA PlannedPhase ==
  ASSUME NEW r \in Receipt, Planned(r), NEW ph \in Phases, NEW q, q = [r EXCEPT !.phase = ph]
  PROVE  /\ q \in Receipt /\ q # None /\ SamePlan(q, r) /\ SameSteps(q, r) /\ q.comp = r.comp
         /\ q.phase = ph /\ Planned(q)
<1>1. q \in Receipt /\ SamePlan(q, r) /\ SameSteps(q, r) /\ q.comp = r.comp /\ q.phase = ph
  BY DEF Receipt, SamePlan, SameSteps
<1> QED BY <1>1, SamePlanPlanned, SentinelAssumption

\* What plans and memory say survives every step.
LEMMA NextPlan ==
  StoreInv /\ TypeInv' /\ WholeInv /\ edits = 0 /\ [Next]_vars /\ edits' = 0 => PlanInv'
<1> SUFFICES ASSUME StoreInv, TypeInv', WholeInv, edits = 0, edits' = 0, [Next]_vars PROVE PlanInv'
  OBVIOUS
<1>1. PlanInv /\ RunInv
  BY DEF WholeInv
<1>2. /\ file \in [Files -> Content] /\ (pc # "idle" => mem \in Receipt) /\ (rec # None => rec \in Receipt)
      /\ (pc \notin Early => rec # None)
  BY DEF StoreInv, TypeInv, TypeOK, RecordInv, Early
<1>3. pc \notin Early \cup Settling => mem = rec /\ mem # None /\ rec # None /\ rec \in Receipt /\ Planned(rec)
  BY <1>1, <1>2 DEF PlanInv
<1>4. CASE Begin
  <2>1. PICK mode \in Modes, on \in SUBSET Scenes, cfg \in Settings, conf \in Configs :
          Asked(mode, Load(file), on, cfg, conf) /\ mem' = Draft(mode, on, cfg, conf)
    BY <1>4 DEF Begin
  <2>2. /\ mem'.before = Load(file) /\ mem'.started = {} /\ mem'.restored = {} /\ mem'.mode = mode
        /\ mem'.cand.on = on /\ mem'.cand.cfg = cfg /\ mem'.cand.conf = conf
    BY <2>1 DEF Draft
  <2>3. mode = "none" => on = Load(file).on /\ cfg = Load(file).cfg /\ conf = Load(file).conf
    BY <2>1 DEF Asked
  <2>4. pc' = "plan" /\ rec' = None /\ file' = file
    BY <1>4 DEF Begin, Goto, durable
  <2> QED BY <2>2, <2>3, <2>4 DEF PlanInv, Early, Settling, Reverts
<1>5. CASE Plan
  <2>0. rec = None /\ rec' = rec /\ file' = file
    BY <1>1, <1>5 DEF Plan, PlanInv, durable
  <2>1. CASE pc' = "record"
    <3> DEFINE g == Larger(Highest(file), mem.before.gen) + 1
    <3>1. /\ mem' = [mem EXCEPT !.cand.gen = g, !.ev = file, !.todo = PlannedParts(mem), !.mode = "none",
                                !.route0 = route, !.core0 = core]
          /\ BeforeHolds /\ GenerationReserved /\ RuntimeSettled /\ mem \in Receipt
      BY <1>2, <1>5, <2>1 DEF Plan, Exit
    <3>2. /\ mem'.before = mem.before /\ mem'.started = mem.started /\ mem'.restored = mem.restored
          /\ mem'.ev = file /\ mem'.todo = PlannedParts(mem) /\ mem'.route0 = route /\ mem'.core0 = core
          /\ mem'.comp = mem.comp /\ mem'.cand.gen = g /\ mem'.cand.on = mem.cand.on
          /\ mem'.cand.cfg = mem.cand.cfg /\ mem'.cand.conf = mem.cand.conf
      BY <3>1 DEF Receipt, Image
    <3>3. Highest(file) < g /\ g < MaxGen
      <4>1. Highest(file) \in Nat /\ mem.before.gen \in Nat
        BY <1>2, <3>1, HighestType, BoundAssumption DEF Receipt, Image
      <4> QED BY <3>1, <4>1, BoundAssumption DEF GenerationReserved, Larger
    <3>4. /\ mem.started = {} /\ mem.restored = {} /\ mem.comp = Absent /\ mem.before = Load(file)
          /\ (mem.mode = "none" => /\ mem.cand.on = mem.before.on /\ mem.cand.cfg = mem.before.cfg
                                   /\ mem.cand.conf = mem.before.conf)
      BY <1>1, <1>5 DEF Plan, PlanInv, StoreInv, RecordInv
    <3>5. /\ core = Serve(mem.before)
          /\ route = [s \in Scenes |-> Side(mem.before, s)]
      BY <1>1, <2>0, <3>4 DEF RunInv, StoreInv, TypeInv, TypeOK
    <3>6. Serve(mem'.cand) = Serve(mem.cand) /\ \A s \in Scenes : Side(mem'.cand, s) = Side(mem.cand, s)
      BY <3>2, SameWorld
    <3>7. \A s \in Scenes \ PlannedParts(mem) : Side(mem.before, s) = Side(mem.cand, s)
      BY <3>4 DEF PlannedParts, PlannedScenes, Side
    <3>8. Core \notin PlannedParts(mem) => Serve(mem.before) = Serve(mem.cand)
      BY <3>4, <3>5, SameWorld DEF PlannedParts
    <3>9. Loadable(file)
      BY <3>1 DEF BeforeHolds
    <3> HIDE DEF g
    <3>10. /\ Loadable(mem'.ev) /\ mem'.before = Load(mem'.ev)
           /\ mem'.core0 = Serve(mem'.before)
           /\ mem'.route0 = [s \in Scenes |-> Side(mem'.before, s)]
           /\ Highest(mem'.ev) < mem'.cand.gen /\ mem'.cand.gen < MaxGen
      BY <3>2, <3>3, <3>4, <3>5, <3>9
    <3>11. /\ \A s \in Scenes \ mem'.todo : Side(mem'.before, s) = Side(mem'.cand, s)
           /\ Core \notin mem'.todo => Serve(mem'.before) = Serve(mem'.cand)
           /\ mem'.comp = Absent /\ mem'.started = {} /\ mem'.restored = {}
      BY <3>2, <3>4, <3>6, <3>7, <3>8
    <3>12. Planned(mem')
      BY <3>10, <3>11 DEF Planned
    <3> QED BY <2>0, <2>1, <3>2, <3>4, <3>12 DEF PlanInv, Early, Settling, Reverts
  <2>2. CASE pc' # "record"
    BY <1>5, <2>0, <2>2, <1>1, PlanExited DEF Plan, Goto
  <2> QED BY <2>1, <2>2
<1>6. CASE Record
  <2>1. mem \in Receipt /\ mem # None /\ Planned(mem)
    BY <1>1, <1>2, <1>6, SentinelAssumption DEF Record, PlanInv
  <2>2. WriteRec(mem, "step", Exit)
    BY <1>6 DEF Record
  <2>3. CASE rec' = mem /\ mem' = mem /\ pc' = "step"
    BY <2>1, <2>3, PlanWritten DEF Early, Settling, Reverts
  <2>4. CASE Exit /\ rec' \in {rec, mem}
    BY <1>1, <2>1, <2>4, PlanExited
  <2> QED BY <2>2, <2>3, <2>4 DEF WriteRec, Goto
<1>7. CASE StepStart
  <2>1. pc = "step" /\ mem = rec /\ mem.restored = {} /\ mem \in Receipt /\ Planned(mem) /\ mem.started # mem.todo
    BY <1>1, <1>3, <1>7 DEF StepStart, RunInv, Early, Settling, Going
  <2>2. CASE file = mem.ev
    <3> DEFINE r == [mem EXCEPT !.started = @ \cup {First(mem, mem.todo \ mem.started)}]
    <3>1. /\ r \in Receipt /\ SamePlan(r, mem) /\ r.comp = mem.comp /\ r.restored = mem.restored
          /\ mem.started \subseteq r.started /\ Planned(r)
      <4>1. r = [mem EXCEPT !.started = @ \cup {First(mem, mem.todo \ mem.started)}]
        OBVIOUS
      <4> HIDE DEF r
      <4>2. r.started = mem.started \cup {First(mem, mem.todo \ mem.started)}
        BY <2>1, <4>1, PlannedStart
      <4> QED BY <2>1, <4>1, <4>2, PlannedStart
    <3>2. WriteRec(r, "exec", Compensate(r))
      BY <1>7, <2>2 DEF StepStart
    <3> HIDE DEF r
    <3>3. r # None
      BY <3>1, SentinelAssumption
    <3>4. CASE rec' = r /\ mem' = r /\ pc' = "exec"
      BY <3>1, <3>3, <3>4, PlanWritten DEF Early, Settling, Reverts
    <3>5. CASE Compensate(r) /\ rec' \in {rec, r}
      BY <1>1, <1>2, <2>1, <3>1, <3>3, <3>5, PlanFailed DEF Early
    <3> QED BY <3>2, <3>4, <3>5 DEF WriteRec, Goto
  <2>3. CASE file # mem.ev
    <3>1. Compensate(mem) /\ rec' = rec
      BY <1>7, <2>3 DEF StepStart
    <3> QED BY <1>1, <1>3, <2>1, <3>1, PlanFailed DEF SamePlan, Early, Settling
  <2> QED BY <2>2, <2>3
<1>8. CASE WriteCommitting
  <2>1. pc = "step" /\ mem = rec /\ mem \in Receipt /\ Planned(mem) /\ rec # None
    BY <1>3, <1>8 DEF WriteCommitting, Early, Settling
  <2> DEFINE r == [mem EXCEPT !.phase = "committing"]
  <2>2. /\ r \in Receipt /\ r # None /\ SamePlan(r, mem) /\ SameSteps(r, mem) /\ r.comp = mem.comp /\ Planned(r)
    BY <2>1, PlannedPhase DEF Phases
  <2>3. WriteRec(r, "precommit", Compensate(r))
    BY <1>8 DEF WriteCommitting
  <2> HIDE DEF r
  <2>4. CASE rec' = r /\ mem' = r /\ pc' = "precommit"
    BY <2>2, <2>4, PlanWritten DEF Early, Settling, Reverts
  <2>5. CASE Compensate(r) /\ rec' \in {rec, r}
    BY <1>1, <2>1, <2>2, <2>5, PlanFailed DEF SameSteps
  <2> QED BY <2>3, <2>4, <2>5 DEF WriteRec, Goto
<1>9. CASE Verify
  <2>1. pc = "verify" /\ mem = rec /\ mem \in Receipt /\ Planned(mem) /\ rec # None
    BY <1>3, <1>9 DEF Verify, Early, Settling
  <2> DEFINE r == [mem EXCEPT !.phase = "committed"]
  <2>2. r # None /\ Planned(r)
    BY <2>1, PlannedPhase DEF Phases
  <2>3. WriteRec(r, "committed", Exit) \/ (Exit /\ rec' = rec)
    BY <1>9 DEF Verify
  <2> HIDE DEF r
  <2>4. CASE rec' = r /\ mem' = r /\ pc' = "committed"
    BY <2>2, <2>4, PlanWritten DEF Early, Settling, Reverts
  <2>5. CASE Exit /\ rec' \in {rec, r}
    BY <1>1, <2>2, <2>5, PlanExited
  <2> QED BY <2>3, <2>4, <2>5 DEF WriteRec, Goto
<1>10. CASE Admit
  <2>1. pc = "admit" /\ mem \in Receipt /\ Planned(mem)
    BY <1>1, <1>2, <1>10 DEF Admit, PlanInv, Settling
  <2> DEFINE r == [mem EXCEPT !.phase = "compensating"]
  <2>2. r # None /\ Planned(r) /\ r.phase = "compensating"
    BY <2>1, PlannedPhase DEF Phases
  <2>3. WriteRec(r, "revert", Exit) \/ (Exit /\ rec' = rec)
    BY <1>10 DEF Admit
  <2> HIDE DEF r
  <2>4. CASE rec' = r /\ mem' = r /\ pc' = "revert"
    BY <2>2, <2>4, PlanWritten DEF Early, Settling
  <2>5. CASE Exit /\ rec' \in {rec, r}
    BY <1>1, <2>2, <2>5, PlanExited
  <2> QED BY <2>3, <2>4, <2>5 DEF WriteRec, Goto
<1>11. CASE MarkRestored
  <2>1. pc = "restored" /\ mem \in Receipt /\ Planned(mem) /\ Left(mem) # {} /\ mem.phase = "compensating"
    BY <1>1, <1>3, <1>11 DEF MarkRestored, PlanInv, Early, Settling, Reverts, StoreInv, TypeInv, Left, Unrestored
  <2> DEFINE r == [mem EXCEPT !.restored = @ \cup {Reverting}]
  <2>2. r \in Receipt /\ r # None /\ Planned(r) /\ r.phase = "compensating"
    BY <2>1, PlannedRestored, SentinelAssumption DEF Left, Reverting, Unrestored
  <2>3. WriteRec(r, "revert", Exit)
    BY <1>11 DEF MarkRestored
  <2> HIDE DEF r
  <2>4. CASE rec' = r /\ mem' = r /\ pc' = "revert"
    BY <2>2, <2>4, PlanWritten DEF Early, Settling
  <2>5. CASE Exit /\ rec' \in {rec, r}
    BY <1>1, <2>2, <2>5, PlanExited
  <2> QED BY <2>3, <2>4, <2>5 DEF WriteRec, Goto
<1>12. CASE FinishStore
  <2>1. /\ pc = "revert" /\ mem = rec /\ mem \in Receipt /\ Planned(mem) /\ rec # None
        /\ mem.phase = "compensating"
    BY <1>1, <1>3, <1>12 DEF FinishStore, PlanInv, Early, Settling, Reverts
  <2>2. CASE Exit /\ rec' = rec
    BY <1>1, <2>1, <2>2, PlanExited
  <2>3. CASE pc' \in {"remove", "undo_bak"} /\ UNCHANGED <<rec, mem>>
    BY <1>1, <2>1, <2>3, PlanKept DEF Early, Settling, Reverts
  <2> DEFINE r == [mem EXCEPT !.comp = [mem.before EXCEPT !.gen = Highest(file) + 1]]
  <2>4. CASE ~(Exit /\ rec' = rec) /\ ~(pc' \in {"remove", "undo_bak"} /\ UNCHANGED <<rec, mem>>)
    <3>1. /\ file # mem.ev /\ mem.comp = Absent
          /\ \/ rec' = r /\ mem' = r /\ pc' = "undo_bak"
             \/ rec' \in {rec, r} /\ Exit
      BY <1>12, <2>4 DEF FinishStore, Goto
    <3>2. Shape(mem, file, quar) /\ file["main"] # mem.cand /\ \A x \in Files : quar[x] = Absent
      BY <2>1 DEF WholeInv, ShapeInv, Reverts
    <3>3. mem.ev \in [Files -> Content]
      BY <2>1, PlannedImages
    <3>4. file["main"] = mem.ev["main"] /\ file["bak"] = mem.cand
      BY <1>2, <2>1, <3>1, <3>2, <3>3, QuietShape DEF Files
    <3>5. Highest(file) = mem.cand.gen
      BY <1>2, <2>1, <3>4, QuietHighest
    <3>6. r \in Receipt /\ r # None /\ Planned(r) /\ r.phase = "compensating"
      BY <2>1, <3>5, UndoIsWellFormed, SentinelAssumption
    <3> HIDE DEF r
    <3>7. CASE rec' = r /\ mem' = r /\ pc' = "undo_bak"
      BY <3>6, <3>7, PlanWritten DEF Early, Settling
    <3>8. CASE rec' \in {rec, r} /\ Exit
      BY <1>1, <3>6, <3>8, PlanExited
    <3> QED BY <3>1, <3>7, <3>8
  <2> QED BY <2>2, <2>3, <2>4
<1>13. CASE Remove
  BY <1>1, <1>13, PlanExited DEF Remove, RemoveRec
<1>14. CASE Recover
  BY <1>1, <1>14 DEF Recover, Goto, PlanInv, Early, Settling, Reverts
\* The steps that end the command, go on to compensate, or only go on.
<1>15. CASE Exit /\ rec' = rec
  BY <1>1, <1>15, PlanExited
<1>16. CASE Compensate(mem) /\ rec' = rec /\ pc \notin Early \cup Settling
  BY <1>1, <1>3, <1>16, PlanFailed DEF SamePlan
<1>17. CASE /\ UNCHANGED <<rec, mem>> /\ pc' \notin Early /\ pc \notin Early
            /\ (pc' \in Settling <=> pc \in Settling) /\ (pc' \in Reverts => pc \in Reverts)
  BY <1>1, <1>17, PlanKept DEF PlanInv
<1>18. CASE UNCHANGED <<file, rec, mem, pc>>
  BY <1>1, <1>18 DEF PlanInv
<1>19. \A f \in Files, c \in EditContents : ~Edit(f, c)
  BY DEF Edit
<1>20. CASE StepRun \/ StepDone \/ Save \/ CommitCheck \/ Precommit \/ Finalize
  BY <1>15, <1>17, <1>20 DEF StepRun, StepDone, Save, CommitCheck, Precommit, Finalize, Goto,
     Early, Settling, Reverts
<1>21. CASE CommitBackup \/ CommitMain
  BY <1>17, <1>21 DEF CommitBackup, CommitMain, Swap, Claim, PublishClaimed, Goto, Early, Settling, Reverts
<1>22. CASE StepFail \/ PersistFailed \/ Decide
  BY <1>15, <1>16, <1>17, <1>22 DEF StepFail, PersistFailed, Decide, Goto, Early, Settling, Reverts
<1>23. CASE StepUnsettled \/ RevertFail \/ Crash
  BY <1>15, <1>23 DEF StepUnsettled, RevertFail, Crash
<1>24. CASE SettleMain \/ SettleBackup \/ RecoverMain \/ RecoverBackup
  BY <1>15, <1>17, <1>24 DEF SettleMain, SettleBackup, RecoverMain, RecoverBackup, Settle, Goto,
     Early, Settling, Reverts
<1>25. CASE RevertStart \/ RevertDone
  BY <1>15, <1>17, <1>25 DEF RevertStart, RevertDone, Goto, Early, Settling, Reverts
<1>26. CASE UndoAdmit \/ UndoVerify
  BY <1>15, <1>17, <1>26 DEF UndoAdmit, UndoVerify, Goto, Early, Settling, Reverts
<1>27. CASE UndoBackup \/ UndoMain
  <2>1. pc' = "idle" => Exit
    BY <1>27 DEF UndoBackup, UndoMain, Swap, Claim, PublishClaimed, Goto, Exit
  <2> QED BY <1>15, <1>17, <1>27, <2>1 DEF UndoBackup, UndoMain, Swap, Claim, PublishClaimed, Goto,
       Early, Settling, Reverts
<1>28. CASE (\E s \in Scenes : JobDone(s)) \/ Rest \/ UNCHANGED vars
  BY <1>18, <1>28 DEF JobDone, Rest, vars, durable
<1> QED
  BY <1>4, <1>5, <1>6, <1>7, <1>8, <1>9, <1>10, <1>11, <1>12, <1>13, <1>14, <1>19, <1>20, <1>21, <1>22,
     <1>23, <1>24, <1>25, <1>26, <1>27, <1>28 DEF Next, Process, Forward, Backward

\* How far the runtime is, when the next part is marked started, ...
LEMMA ReachedStart ==
  ASSUME NEW r \in Receipt, Planned(r), r.started # r.todo, r.restored = {}, NEW c, NEW rt,
         Reached(r, c, rt), \A p \in r.started : AsAsked(r.cand, p, c, rt), NEW q,
         q = [r EXCEPT !.started = @ \cup {First(r, r.todo \ r.started)}]
  PROVE  Reached(q, c, rt) /\ Left(r) \subseteq Left(q)
<1>1. /\ SamePlan(q, r) /\ q.restored = {}
      /\ q.started = r.started \cup {First(r, r.todo \ r.started)}
      /\ Last(q, q.started) = First(r, r.todo \ r.started)
  BY PlannedStart
<1>2. Left(q) = q.started /\ Left(r) = r.started
  BY <1>1 DEF Left
<1> QED BY <1>1, <1>2 DEF Reached, SamePlan

\* ... when the last part that is left has been put back and is marked restored, ...
LEMMA ReachedRestored ==
  ASSUME NEW r \in Receipt, Planned(r), Left(r) # {}, NEW c, NEW rt, Reached(r, c, rt),
         AsAsked(r.before, Last(r, Left(r)), c, rt), NEW q,
         q = [r EXCEPT !.restored = @ \cup {Last(r, Left(r))}]
  PROVE  Reached(q, c, rt)
<1>1. SamePlan(q, r) /\ Left(q) = Left(r) \ {Last(r, Left(r))}
  BY PlannedRestored
<1> QED BY <1>1 DEF Reached, SamePlan

\* ... when every part is done, ...
LEMMA ReachedEnd ==
  ASSUME NEW r \in Receipt, Planned(r), r.started = r.todo, r.restored = {}, NEW c, NEW rt,
         Reached(r, c, rt), \A p \in r.started : AsAsked(r.cand, p, c, rt)
  PROVE  \A p \in Parts : AsAsked(r.cand, p, c, rt)
<1>1. SUFFICES ASSUME NEW p \in Parts, p \notin r.todo PROVE AsAsked(r.cand, p, c, rt)
  OBVIOUS
<1>2. AsAsked(r.before, p, c, rt)
  BY <1>1 DEF Reached, Left
<1>3. CASE p = Core
  BY <1>1, <1>2, <1>3 DEF AsAsked, Planned
<1>4. CASE p # Core
  BY <1>1, <1>2, <1>4 DEF AsAsked, Planned, Parts, Side
<1> QED BY <1>3, <1>4

\* ... and while the last part that is left is worked on.
LEMMA ReachedMove ==
  ASSUME TypeOK, NEW r \in Receipt, Planned(r), Left(r) # {}, Reached(r, core, route),
         NEW v, NEW d, SetPart(Last(r, Left(r)), v, d), d \in {Serve(r.before), Serve(r.cand), Broken},
         Last(r, Left(r)) \notin r.before.on \cup r.cand.on => v = "off",
         \A s \in Scenes : s = Last(r, Left(r)) =>
           v \in {"off", "mixed", Side(r.before, s), Side(r.cand, s)}
  PROVE  /\ Reached(r, core', route')
         /\ \A s \in Scenes : s # Last(r, Left(r)) => route'[s] = route[s]
         /\ Last(r, Left(r)) \in Left(r)
         /\ Last(r, Left(r)) = Core => core' = d
         /\ Last(r, Left(r)) # Core => route'[Last(r, Left(r))] = v
<1>1. Left(r) \subseteq Parts
  BY DEF Receipt, Left
<1>2. Last(r, Left(r)) \in Left(r) /\ route \in [Scenes -> Routes]
  BY <1>1, LastType DEF TypeOK
<1>3. \A s \in Scenes : s # Last(r, Left(r)) => route'[s] = route[s]
  BY <1>2 DEF SetPart
<1>4. \A s \in Scenes : s # Core
  BY SceneAssumption DEF SceneNames, Core
<1>5. Last(r, Left(r)) # Core => route'[Last(r, Left(r))] = v /\ core' = core
  BY <1>1, <1>2 DEF SetPart, Parts
<1>6. Last(r, Left(r)) = Core => core' = d /\ route' = route
  BY DEF SetPart
<1>7. \A img, p : p \in Parts /\ p # Last(r, Left(r)) /\ AsAsked(img, p, core, route)
        => AsAsked(img, p, core', route')
  BY <1>3, <1>5, <1>6 DEF AsAsked, Parts
<1>8. core' \in {Serve(r.before), Serve(r.cand), Broken}
  BY <1>5, <1>6 DEF Reached
<1>9. \A s \in Scenes \ (r.before.on \cup r.cand.on) : route'[s] = "off"
  BY <1>3, <1>4, <1>5 DEF Reached
<1>10. \A s \in Scenes : route'[s] \in {"off", "mixed", Side(r.before, s), Side(r.cand, s)}
  BY <1>3, <1>4, <1>5 DEF Reached
<1>11. Reached(r, core', route')
  BY <1>1, <1>2, <1>7, <1>8, <1>9, <1>10 DEF Reached
<1> QED BY <1>2, <1>3, <1>5, <1>6, <1>11

\* What a step can move beside the record and the store files.
world == <<route, core, jobs>>

\* Where a record says the runtime is, with no more restarts than it accounts for.
Placed(r) ==
  /\ r # None /\ Reached(r, core, route) /\ jobs \subseteq Left(r)
  /\ file["main"] = r.cand => jobs = {} /\ \A p \in Parts : AsAsked(r.cand, p, core, route)

\* How RunInv survives a step that leaves the runtime alone: the command ends, perhaps
\* with a new record of the plan, ...
LEMMA RunEnded ==
  ASSUME RunInv, Exit, UNCHANGED world, NEW r, rec' = rec \/ (rec' = r /\ Placed(r)),
         file' = file \/ (rec # None /\ rec' = rec /\ file'["main"] # rec.cand)
  PROVE  RunInv'
  BY DEF RunInv, Exit, world, Placed, Settling, Going, UndoPCs, AsAsked, Reached

\* ... or goes on to compensate, ...
LEMMA RunFailed ==
  ASSUME RunInv, UNCHANGED <<file, world>>, NEW r, Compensate(r), Reached(r, core, route),
         rec' = rec \/ (rec' = r /\ Placed(r))
  PROVE  RunInv'
  BY DEF RunInv, Compensate, Goto, world, Placed, Settling, Going, UndoPCs, AsAsked, Reached

\* ... or neither record nor memory changes and the command goes on in the same way.
LEMMA RunKept ==
  ASSUME RunInv, UNCHANGED <<rec, mem, world>>, rec # None,
         file'["main"] = rec.cand => file["main"] = rec.cand,
         /\ pc' \in Settling => pc \in Settling
         /\ pc' \in Going => pc \in Going /\ (pc' # "step" => pc # "step")
         /\ pc' \in {"exec", "running"} => pc \in {"exec", "running"}
         /\ pc' # "restored"
         /\ pc' \in UndoPCs => Left(mem) = {}
         /\ pc' = "remove" => Left(mem) = {} \/ file'["main"] = mem.cand
  PROVE  RunInv'
  BY DEF RunInv, world, AsAsked, Reached

\* Where the runtime is survives every step.
LEMMA NextRun ==
  StoreInv /\ TypeInv' /\ JobInv /\ WholeInv /\ edits = 0 /\ [Next]_vars /\ edits' = 0 => RunInv'
<1> SUFFICES ASSUME StoreInv, TypeInv', JobInv, WholeInv, edits = 0, edits' = 0, [Next]_vars PROVE RunInv'
  OBVIOUS
<1>1. PlanInv /\ RunInv /\ ShapeInv
  BY DEF WholeInv
<1>2. /\ TypeOK /\ file \in [Files -> Content] /\ (pc # "idle" => mem \in Receipt) /\ (rec # None => rec \in Receipt)
      /\ (pc \notin Early => rec # None) /\ jobs \subseteq Scenes /\ route \in [Scenes -> Routes]
  BY DEF StoreInv, TypeInv, TypeOK, RecordInv, Early
<1>3. pc \notin Early \cup Settling =>
        /\ mem = rec /\ mem # None /\ rec # None /\ mem \in Receipt /\ Planned(mem) /\ Placed(mem)
  BY <1>1, <1>2 DEF PlanInv, RunInv, Placed
<1>4. pc \in {"step", "exec", "running", "precommit", "save", "commit_bak", "commit_check"}
        => file["main"] # mem.cand
  <2>1. SUFFICES ASSUME pc \in {"step", "exec", "running", "precommit", "save", "commit_bak", "commit_check"}
                 PROVE  file["main"] # mem.cand
    OBVIOUS
  <2>2. file["main"] = mem.ev["main"]
    BY <1>1, <2>1 DEF ShapeInv, Holds, Files
  <2> QED BY <1>3, <2>1, <2>2, PlannedImages DEF Early, Settling, Files
<1>5. pc \in Reverts \cup Settling \cup UndoPCs => file["main"] # mem.cand
  BY <1>1 DEF ShapeInv
<1>6. CASE Begin \/ Recover
  BY <1>1, <1>6 DEF RunInv, Begin, Recover, Goto, durable, runtime, world, AsAsked, Reached, Settling, Going, UndoPCs
<1>7. CASE Plan
  <2>1. CASE Exit
    BY <1>1, <1>7, <2>1, RunEnded DEF Plan, durable, runtime, world
  <2>2. CASE pc' = "record"
    BY <1>1, <1>7, <2>2 DEF RunInv, Plan, durable, runtime, world, AsAsked, Reached, Settling, Going, UndoPCs, PlanInv
  <2> QED BY <1>7, <2>1, <2>2 DEF Plan, Goto
<1>8. CASE Record
  <2>1. /\ rec = None /\ mem \in Receipt /\ mem # None /\ Planned(mem) /\ mem.started = {}
        /\ mem.restored = {} /\ mem.ev = file /\ UNCHANGED <<file, world>> /\ WriteRec(mem, "step", Exit)
    BY <1>1, <1>2, <1>8, SentinelAssumption DEF PlanInv, Record, durable, runtime, world
  <2>2. core = Serve(mem.before) /\ (\A s \in Scenes : route[s] = Side(mem.before, s)) /\ jobs = {}
    BY <1>1, <2>1 DEF RunInv, Planned
  <2>3. file["main"] # mem.cand
    BY <2>1, PlannedImages DEF Files
  <2>4. Placed(mem)
    BY <2>1, <2>2, <2>3 DEF Placed, Reached, Left, AsAsked, Side, Parts
  <2>5. CASE Exit /\ rec' \in {rec, mem}
    BY <1>1, <2>1, <2>4, <2>5, RunEnded
  <2>6. CASE rec' = mem /\ mem' = mem /\ pc' = "step"
    <3>1. \A p \in mem'.started : AsAsked(mem'.cand, p, core', route')
      BY <2>1, <2>6
    <3>2. Reached(rec', core', route') /\ jobs' = {} /\ rec' # None /\ file'["main"] # rec'.cand
      BY <2>1, <2>2, <2>3, <2>4, <2>6 DEF Placed, runtime, world, Reached, AsAsked
    <3> QED BY <2>1, <2>6, <3>1, <3>2 DEF RunInv, Settling, Going, UndoPCs
  <2> QED BY <2>1, <2>5, <2>6 DEF WriteRec, Goto
<1>9. CASE StepStart
  <2>1. /\ pc = "step" /\ mem = rec /\ mem.restored = {} /\ mem \in Receipt /\ Planned(mem) /\ jobs = {}
        /\ mem.started # mem.todo /\ Reached(mem, core, route) /\ Placed(mem)
        /\ \A p \in mem.started : AsAsked(mem.cand, p, core, route)
    BY <1>1, <1>3, <1>9 DEF StepStart, RunInv, Early, Settling, Going, Placed
  <2>2. UNCHANGED <<file, world>>
    BY <1>9 DEF StepStart, durable, runtime, world
  <2>3. CASE file = mem.ev
    <3> DEFINE r == [mem EXCEPT !.started = @ \cup {First(mem, mem.todo \ mem.started)}]
    <3>1. WriteRec(r, "exec", Compensate(r))
      BY <1>9, <2>3 DEF StepStart
    <3>2. r = [mem EXCEPT !.started = @ \cup {First(mem, mem.todo \ mem.started)}]
      OBVIOUS
    <3> HIDE DEF r
    <3>3. r \in Receipt /\ r.cand = mem.cand /\ r.restored = mem.restored
      BY <2>1, <3>2, PlannedStart DEF SamePlan
    <3>4. Reached(r, core, route)
      BY <2>1, <3>2, ReachedStart
    <3>5. Placed(r)
      BY <1>4, <2>1, <3>3, <3>4, SentinelAssumption DEF Placed
    <3>6. CASE Compensate(r) /\ rec' \in {rec, r}
      BY <1>1, <2>2, <3>4, <3>5, <3>6, RunFailed
    <3>7. CASE rec' = r /\ mem' = r /\ pc' = "exec"
      <4>1. Reached(rec', core', route') /\ jobs' = {} /\ rec' # None /\ file'["main"] # rec'.cand
        BY <1>4, <2>1, <2>2, <3>3, <3>5, <3>7 DEF Placed, runtime, world, Reached, AsAsked
      <4> QED BY <2>1, <3>3, <3>7, <4>1 DEF RunInv, Settling, Going, UndoPCs
    <3> QED BY <3>1, <3>6, <3>7 DEF WriteRec, Goto
  <2>4. CASE file # mem.ev
    BY <1>1, <1>9, <2>1, <2>2, <2>4, RunFailed DEF StepStart
  <2> QED BY <2>3, <2>4
<1>10. CASE StepRun \/ StepDone \/ StepFail
  <2>1. /\ pc \in {"exec", "running"} /\ mem = rec /\ mem \in Receipt /\ Planned(mem) /\ Placed(mem)
        /\ mem.restored = {} /\ jobs = {} /\ mem.started # {} /\ rec # None
    BY <1>1, <1>3, <1>10 DEF StepRun, StepDone, StepFail, RunInv, Early, Settling, StoreInv, TypeInv
  <2>2. UNCHANGED <<file, rec, mem, jobs>>
    BY <1>10 DEF StepRun, StepDone, StepFail, durable, runtime, world, Compensate
  <2>3. Left(mem) = mem.started /\ Current = Last(mem, Left(mem))
    BY <2>1 DEF Left, Current
  <2>4. Reached(mem, core, route)
    BY <2>1 DEF Placed
  <2>5. Current \in mem.started /\ mem.started \subseteq Parts
    BY <2>1, LastType DEF Current, Receipt
  <2>6. Current \notin mem.before.on \cup mem.cand.on /\ Current # Core => route[Current] = "off" /\ Target(Current) = "off"
    BY <2>4, <2>5 DEF Reached, Target, Side, Parts
  <2>7. mem.core0 = Serve(mem.before) /\ \A s \in Scenes : mem.route0[s] = Side(mem.before, s)
    BY <2>1 DEF Planned
  <2>8. ASSUME NEW v, NEW d, SetPart(Current, v, d), d \in {Serve(mem.before), Serve(mem.cand), Broken},
               Current # Core /\ Current \notin mem.before.on \cup mem.cand.on => v = "off",
               Current # Core =>
                 v \in {"off", "mixed", Side(mem.before, Current), Side(mem.cand, Current)}
        PROVE  /\ Reached(mem, core', route')
               /\ \A s \in Scenes : s # Current => route'[s] = route[s]
               /\ Current = Core => core' = d
               /\ Current # Core => route'[Current] = v
               /\ Current # Core => core' = core
    <3>1. CASE Current # Core
      BY <1>2, <2>1, <2>3, <2>4, <2>8, <3>1, ReachedMove DEF SetPart
    <3>2. CASE Current = Core
      <4>1. SetPart(Last(mem, Left(mem)), "off", d)
        BY <2>3, <2>8, <3>2 DEF SetPart
      <4> QED BY <1>2, <2>1, <2>3, <2>4, <2>8, <3>2, <4>1, ReachedMove
    <3> QED BY <3>1, <3>2
  <2>9. file["main"] # rec.cand
    BY <1>4, <2>1
  <2>10. CASE StepRun
    <3>1. Reached(mem, core', route') /\ pc' = "running"
      BY <2>6, <2>8, <2>10 DEF StepRun, Goto
    <3> QED BY <1>1, <2>1, <2>2, <2>9, <3>1 DEF RunInv, Settling, Going, UndoPCs
  <2>11. CASE StepDone
    <3>1. /\ Reached(mem, core', route') /\ pc' = "step"
          /\ \A s \in Scenes : s # Current => route'[s] = route[s]
          /\ Current = Core => core' = Serve(mem.cand)
          /\ Current # Core => route'[Current] = Target(Current) /\ core' = core
      BY <2>6, <2>8, <2>11 DEF StepDone, Target, Goto
    <3>2. \A p \in mem.started : AsAsked(mem.cand, p, core', route')
      BY <2>3, <2>4, <2>5, <3>1 DEF Reached, AsAsked, Target, Side, Parts
    <3> QED BY <1>1, <2>1, <2>2, <2>9, <3>1, <3>2 DEF RunInv, Settling, Going, UndoPCs
  <2>12. CASE StepFail
    <3>1. pc' = "settle_main" /\ mem' = mem
      BY <2>12 DEF StepFail, Compensate, Goto
    <3>2. Reached(mem, core', route')
      <4>1. CASE UNCHANGED <<route, core>>
        BY <2>4, <4>1 DEF Reached, AsAsked
      <4>2. CASE SetPart(Current, Target(Current), Serve(mem.cand))
        BY <2>6, <2>8, <4>2 DEF Target
      <4>3. CASE SetPart(Current, mem.route0[Current], mem.core0)
        BY <2>5, <2>7, <2>8, <4>3 DEF Side, Parts
      <4> QED BY <2>12, <4>1, <4>2, <4>3 DEF StepFail
    <3> QED BY <1>1, <2>1, <2>2, <2>9, <3>1, <3>2 DEF RunInv, Settling, Going, UndoPCs
  <2> QED BY <1>10, <2>10, <2>11, <2>12
<1>11. CASE StepUnsettled
  <2>1. /\ pc = "running" /\ mem = rec /\ mem \in Receipt /\ Planned(mem) /\ Placed(mem)
        /\ mem.restored = {} /\ jobs = {} /\ mem.started # {} /\ rec # None
    BY <1>1, <1>3, <1>11 DEF StepUnsettled, RunInv, Early, Settling, StoreInv, TypeInv
  <2>2. Current \in Left(rec)
    BY <2>1, LastType DEF Current, Receipt, Left
  <2>3. UNCHANGED <<file, rec, core, route>> /\ Exit /\ jobs' = {Current} /\ route[Current] = "mixed"
    BY <1>11, <2>1 DEF StepUnsettled, durable, runtime, world
  <2>4. file["main"] # rec.cand
    BY <1>4, <2>1
  <2> QED BY <1>1, <2>1, <2>2, <2>3, <2>4 DEF RunInv, Exit, AsAsked, Reached, Settling, Going, UndoPCs
<1>12. CASE WriteCommitting
  <2>1. /\ pc = "step" /\ mem = rec /\ mem \in Receipt /\ Planned(mem) /\ Placed(mem) /\ rec # None
        /\ mem.restored = {} /\ jobs = {} /\ mem.started = mem.todo
        /\ \A p \in mem.started : AsAsked(mem.cand, p, core, route)
    BY <1>1, <1>3, <1>12 DEF WriteCommitting, RunInv, Early, Settling, Going
  <2> DEFINE r == [mem EXCEPT !.phase = "committing"]
  <2>2. r # None /\ SamePlan(r, mem) /\ SameSteps(r, mem)
    BY <2>1, PlannedPhase DEF Phases
  <2>3. WriteRec(r, "precommit", Compensate(r)) /\ UNCHANGED <<file, world>>
    BY <1>12 DEF WriteCommitting, durable, runtime, world
  <2> HIDE DEF r
  <2>4. Placed(r) /\ Reached(r, core, route)
    BY <2>1, <2>2, SamePlanReached DEF Placed, SamePlan, SameSteps, Left
  <2>5. CASE rec' = r /\ mem' = r /\ pc' = "precommit"
    <3>1. Reached(rec', core', route') /\ jobs' = {} /\ \A p \in mem'.started : AsAsked(mem'.cand, p, core', route')
      BY <2>1, <2>2, <2>3, <2>4, <2>5 DEF runtime, world, SamePlan, SameSteps
    <3>2. rec' # None /\ file'["main"] # rec'.cand
      BY <1>4, <2>1, <2>2, <2>3, <2>5 DEF SamePlan
    <3> QED BY <2>1, <2>2, <2>5, <3>1, <3>2 DEF RunInv, Settling, Going, UndoPCs, SamePlan, SameSteps
  <2>6. CASE Compensate(r) /\ rec' \in {rec, r}
    BY <1>1, <2>3, <2>4, <2>6, RunFailed
  <2> QED BY <2>3, <2>5, <2>6 DEF WriteRec, Goto
<1>13. CASE Verify
  <2>1. /\ pc = "verify" /\ mem = rec /\ mem \in Receipt /\ Planned(mem) /\ Placed(mem) /\ rec # None
        /\ mem.restored = {} /\ jobs = {} /\ mem.started = mem.todo
        /\ \A p \in mem.started : AsAsked(mem.cand, p, core, route)
    BY <1>1, <1>3, <1>13 DEF Verify, RunInv, Early, Settling, Going
  <2> DEFINE r == [mem EXCEPT !.phase = "committed"]
  <2>2. r # None /\ SamePlan(r, mem) /\ SameSteps(r, mem)
    BY <2>1, PlannedPhase DEF Phases
  <2>3. (WriteRec(r, "committed", Exit) \/ (Exit /\ rec' = rec)) /\ UNCHANGED <<file, world>>
    BY <1>13 DEF Verify, durable, runtime, world
  <2> HIDE DEF r
  <2>4. Placed(r)
    BY <2>1, <2>2, SamePlanReached DEF Placed, SamePlan, SameSteps, Left
  <2>5. CASE rec' = r /\ mem' = r /\ pc' = "committed"
    <3>1. /\ Reached(rec', core', route') /\ jobs' = {} /\ rec' # None
          /\ \A p \in mem'.started : AsAsked(mem'.cand, p, core', route')
      BY <2>1, <2>2, <2>3, <2>4, <2>5 DEF runtime, world, SamePlan, SameSteps, Placed
    <3>2. file'["main"] = rec'.cand => \A p \in Parts : AsAsked(rec'.cand, p, core', route')
      BY <2>3, <2>4, <2>5 DEF Placed, runtime, world
    <3> QED BY <2>1, <2>2, <2>5, <3>1, <3>2 DEF RunInv, Settling, Going, UndoPCs, SamePlan, SameSteps
  <2>6. CASE Exit /\ rec' \in {rec, r}
    BY <1>1, <2>3, <2>4, <2>6, RunEnded
  <2> QED BY <2>3, <2>5, <2>6 DEF WriteRec, Goto
<1>14. CASE Admit
  <2>1. /\ pc = "admit" /\ mem \in Receipt /\ Planned(mem) /\ Reached(mem, core, route) /\ rec # None
        /\ jobs \subseteq Left(rec) /\ rec.started \subseteq mem.started /\ mem.restored = rec.restored
        /\ file["main"] # mem.cand
    BY <1>1, <1>2, <1>5, <1>14 DEF Admit, PlanInv, RunInv, Settling, Early
  <2> DEFINE r == [mem EXCEPT !.phase = "compensating"]
  <2>2. r # None /\ SamePlan(r, mem) /\ SameSteps(r, mem)
    BY <2>1, PlannedPhase DEF Phases
  <2>3. (WriteRec(r, "revert", Exit) \/ (Exit /\ rec' = rec)) /\ UNCHANGED <<file, world>>
    BY <1>14 DEF Admit, durable, runtime, world
  <2> HIDE DEF r
  <2>4. Placed(r)
    BY <2>1, <2>2, SamePlanReached DEF Placed, SamePlan, SameSteps, Left
  <2>5. CASE rec' = r /\ mem' = r /\ pc' = "revert"
    <3>1. Reached(rec', core', route') /\ jobs' \subseteq Left(rec') /\ rec' # None /\ file'["main"] # rec'.cand
      BY <2>1, <2>2, <2>3, <2>4, <2>5 DEF runtime, world, SamePlan, Placed
    <3> QED BY <1>1, <2>3, <2>5, <3>1 DEF RunInv, Settling, Going, UndoPCs, runtime, world
  <2>6. CASE Exit /\ rec' \in {rec, r}
    BY <1>1, <2>3, <2>4, <2>6, RunEnded
  <2> QED BY <2>3, <2>5, <2>6 DEF WriteRec, Goto
<1>15. CASE RevertStart \/ RevertDone
  <2>1. /\ pc \in {"revert", "reverting"} /\ mem = rec /\ mem \in Receipt /\ Planned(mem) /\ Placed(mem)
        /\ rec # None /\ Left(mem) # {} /\ Reverting = Last(mem, Left(mem)) /\ file["main"] # rec.cand
    BY <1>1, <1>3, <1>5, <1>15 DEF RevertStart, RevertDone, Early, Settling, Reverts, Reverting, Unrestored, Left,
       StoreInv, TypeInv
  <2>2. UNCHANGED <<file, rec, jobs>>
    BY <1>15 DEF RevertStart, RevertDone, durable, runtime, world
  <2>3. Reached(mem, core, route) /\ Reverting \in Left(mem) /\ Left(mem) \subseteq Parts
    BY <2>1, LastType DEF Placed, Left, Receipt
  <2>4. mem.core0 = Serve(mem.before) /\ \A s \in Scenes : mem.route0[s] = Side(mem.before, s)
    BY <2>1 DEF Planned
  <2>5. ASSUME Exit, UNCHANGED world
        PROVE  RunInv'
    BY <1>1, <2>2, <2>5, RunEnded
  <2>6. Reverting \in Scenes /\ Reverting \notin mem.before.on \cup mem.cand.on
          => route[Reverting] = mem.route0[Reverting] /\ mem.route0[Reverting] = "off"
    BY <2>3, <2>4 DEF Reached, Side
  <2>7. CASE RevertStart /\ ~Exit
    <3> DEFINE v == IF Reverting \in Scenes /\ route[Reverting] = mem.route0[Reverting]
                    THEN route[Reverting] ELSE "mixed"
               d == IF core = mem.core0 THEN core ELSE Broken
    <3>1. Reverting \notin jobs /\ mem' = mem /\ pc' = "reverting"
      BY <2>7 DEF RevertStart, Settled, Goto
    <3>2. SetPart(Reverting, v, d) /\ d \in {Serve(mem.before), Broken}
      BY <2>3, <2>4, <2>7 DEF RevertStart, SetPart, Parts
    <3>3. Reverting \notin mem.before.on \cup mem.cand.on => v = "off" \/ Reverting = Core
      BY <2>3, <2>6 DEF Parts
    <3>5. Reverting # Core => v \in {"off", "mixed", Side(mem.before, Reverting), Side(mem.cand, Reverting)}
      BY <2>3 DEF Reached, Parts
    <3> HIDE DEF v, d
    <3>4. /\ Reached(mem, core', route') /\ \A s \in Scenes : s # Reverting => route'[s] = route[s]
      <4>1. CASE Reverting # Core
        BY <1>2, <2>1, <2>3, <3>2, <3>3, <3>5, <4>1, ReachedMove
      <4>2. CASE Reverting = Core
        <5>1. SetPart(Last(mem, Left(mem)), "off", d)
          BY <2>1, <3>2, <4>2 DEF SetPart
        <5> QED BY <1>2, <2>1, <2>3, <3>2, <4>2, <5>1, ReachedMove
      <4> QED BY <4>1, <4>2
    <3> QED BY <1>1, <1>2, <2>1, <2>2, <3>1, <3>4 DEF RunInv, Settling, Going, UndoPCs, Placed
  <2>8. CASE RevertDone
    <3>1. Reverting \notin jobs /\ mem' = mem /\ pc' = "restored" /\ SetPart(Reverting, mem.route0[Reverting], mem.core0)
      BY <2>8 DEF RevertDone, JobInv, Goto
    <3>2. Reverting' = Reverting
      BY <3>1 DEF Reverting, Unrestored
    <3>3. /\ Reached(mem, core', route') /\ \A s \in Scenes : s # Reverting => route'[s] = route[s]
          /\ AsAsked(mem.before, Reverting, core', route')
      <4>1. CASE Reverting # Core
        BY <1>2, <2>1, <2>3, <2>4, <2>6, <3>1, <4>1, ReachedMove DEF AsAsked, Parts
      <4>2. CASE Reverting = Core
        <5>1. SetPart(Last(mem, Left(mem)), "off", mem.core0)
          BY <2>1, <3>1, <4>2 DEF SetPart
        <5>2. mem.core0 \in {Serve(mem.before), Broken}
          BY <2>4
        <5>3. Reached(mem, core', route') /\ \A s \in Scenes : s # Reverting => route'[s] = route[s]
          BY <1>2, <2>1, <2>3, <4>2, <5>1, <5>2, ReachedMove
        <5>4. core' = mem.core0
          BY <3>1, <4>2 DEF SetPart
        <5> QED BY <2>4, <4>2, <5>3, <5>4 DEF AsAsked
      <4> QED BY <4>1, <4>2
    <3> QED BY <1>1, <1>2, <2>1, <2>2, <3>1, <3>2, <3>3 DEF RunInv, Settling, Going, UndoPCs, Placed
  <2>9. RevertStart /\ Exit => UNCHANGED world
    BY <2>2 DEF RevertStart, Exit, Goto, runtime, world
  <2> QED BY <1>15, <2>5, <2>7, <2>8, <2>9
<1>16. CASE RevertFail
  <2>1. /\ pc \in {"revert", "reverting"} /\ mem = rec /\ mem \in Receipt /\ rec # None /\ Left(mem) # {}
        /\ Reverting = Last(mem, Left(mem)) /\ file["main"] # rec.cand
    BY <1>1, <1>3, <1>5, <1>16 DEF RevertFail, Early, Settling, Reverts, Reverting, Unrestored, Left
  <2>2. Reverting \in Left(rec)
    BY <2>1, LastType DEF Receipt, Left
  <2>3. UNCHANGED <<file, rec, core, route>> /\ Exit
        /\ (jobs' = jobs \/ (jobs' = jobs \cup {Reverting} /\ route[Reverting] = "mixed"))
    BY <1>16 DEF RevertFail, durable, runtime, world
  <2> QED BY <1>1, <2>1, <2>2, <2>3 DEF RunInv, Exit, AsAsked, Reached, Settling, Going, UndoPCs
<1>17. CASE MarkRestored
  <2>1. /\ pc = "restored" /\ mem = rec /\ mem \in Receipt /\ Planned(mem) /\ Placed(mem) /\ rec # None
        /\ Left(mem) # {} /\ Reverting = Last(mem, Left(mem)) /\ file["main"] # mem.cand
        /\ AsAsked(mem.before, Reverting, core, route) /\ Reverting \notin jobs
    BY <1>1, <1>3, <1>5, <1>17 DEF MarkRestored, RunInv, Early, Settling, Reverts, StoreInv, TypeInv, Left,
       Unrestored, Reverting
  <2> DEFINE r == [mem EXCEPT !.restored = @ \cup {Reverting}]
  <2>2. r \in Receipt /\ SamePlan(r, mem) /\ Left(r) = Left(mem) \ {Reverting}
    BY <2>1, PlannedRestored
  <2>3. Reached(r, core, route)
    BY <2>1, ReachedRestored DEF Placed
  <2>4. WriteRec(r, "revert", Exit) /\ UNCHANGED <<file, world>>
    BY <1>17 DEF MarkRestored, durable, runtime, world
  <2> HIDE DEF r
  <2>5. Placed(r)
    BY <2>1, <2>2, <2>3, SentinelAssumption DEF Placed, SamePlan
  <2>6. CASE rec' = r /\ mem' = r /\ pc' = "revert"
    <3>1. Reached(rec', core', route') /\ jobs' \subseteq Left(rec') /\ rec' # None /\ file'["main"] # rec'.cand
      BY <2>1, <2>2, <2>4, <2>5, <2>6 DEF runtime, world, SamePlan, Placed
    <3> QED BY <1>1, <2>4, <2>6, <3>1 DEF RunInv, Settling, Going, UndoPCs, runtime, world
  <2>7. CASE Exit /\ rec' \in {rec, r}
    BY <1>1, <2>4, <2>5, <2>7, RunEnded
  <2> QED BY <2>4, <2>6, <2>7 DEF WriteRec, Goto
<1>18. CASE FinishStore
  <2>1. /\ pc = "revert" /\ mem = rec /\ mem \in Receipt /\ Planned(mem) /\ Placed(mem) /\ rec # None
        /\ Left(mem) = {} /\ file["main"] # mem.cand /\ mem # None
    BY <1>1, <1>3, <1>5, <1>18 DEF FinishStore, Early, Settling, Reverts, Left, Unrestored
  <2> DEFINE r == [mem EXCEPT !.comp = [mem.before EXCEPT !.gen = Highest(file) + 1]]
  <2>2. UNCHANGED <<file, world>>
    BY <1>18 DEF FinishStore, durable, runtime, world
  <2>3. \/ Exit /\ rec' = rec
        \/ Exit /\ rec' = r
        \/ pc' \in {"remove", "undo_bak"} /\ UNCHANGED <<rec, mem>>
        \/ pc' = "undo_bak" /\ rec' = r /\ mem' = r
    BY <1>18 DEF FinishStore, Goto
  <2>4. SamePlan(r, mem) /\ SameSteps(r, mem)
    BY <2>1 DEF Receipt, SamePlan, SameSteps
  <2>5. rec' = r => r # None
    <3>1. CASE file = mem.ev \/ mem.comp # Absent
      BY <1>18, <2>1, <3>1 DEF FinishStore, Goto, Exit
    <3>2. CASE file # mem.ev /\ mem.comp = Absent
      <4>1. r \in Receipt
        BY <2>1, <3>2, UndoGeneration, UndoIsWellFormed DEF StoreInv
      <4> QED BY <4>1, SentinelAssumption
    <3> QED BY <3>1, <3>2
  <2> HIDE DEF r
  <2>6. rec' = r => Placed(r)
    BY <2>1, <2>4, <2>5, SamePlanReached DEF Placed, SamePlan, SameSteps, Left
  <2>7. CASE Exit
    BY <1>1, <2>2, <2>3, <2>6, <2>7, RunEnded
  <2>8. CASE pc' \in {"remove", "undo_bak"} /\ UNCHANGED <<rec, mem>>
    BY <1>1, <2>1, <2>2, <2>8, RunKept DEF Settling, Going, UndoPCs
  <2>9. CASE pc' = "undo_bak" /\ rec' = r /\ mem' = r
    <3>1. /\ Reached(rec', core', route') /\ jobs' \subseteq Left(rec') /\ rec' # None
          /\ file'["main"] # rec'.cand /\ Left(mem') = {}
      BY <2>1, <2>2, <2>4, <2>6, <2>9 DEF runtime, world, SamePlan, SameSteps, Placed, Left
    <3> QED BY <1>1, <2>2, <2>9, <3>1 DEF RunInv, Settling, Going, UndoPCs, runtime, world
  <2> QED BY <2>3, <2>7, <2>8, <2>9
<1>19. CASE Remove
  <2>1. /\ pc = "remove" /\ mem = rec /\ mem \in Receipt /\ Planned(mem) /\ Placed(mem) /\ rec # None
        /\ (Left(mem) = {} \/ file["main"] = mem.cand)
    BY <1>1, <1>3, <1>19 DEF Remove, RunInv, Early, Settling
  <2>2. UNCHANGED <<file, world>> /\ Exit /\ rec' \in {rec, None}
    BY <1>19 DEF Remove, RemoveRec, durable, runtime, world
  <2>3. CASE rec' = rec
    BY <1>1, <2>2, <2>3, RunEnded
  <2>4. CASE rec' = None
    <3>0. /\ mem.before \in Image /\ mem.cand \in Image /\ (mem.comp # Absent => mem.comp \in Image)
          /\ mem.comp # mem.cand /\ mem.ev["main"] # mem.cand /\ "main" \in Files
      BY <2>1, PlannedImages, SentinelAssumption DEF Files
    <3>1. \E img \in Image :
             /\ Serve(Load(file)) = Serve(img)
             /\ \A s \in Scenes : Side(Load(file), s) = Side(img, s)
             /\ \A p \in Parts : AsAsked(img, p, core, route)
      <4>1. CASE \A x \in Files : Holds(file, quar, x, mem.cand)
        BY <2>1, <3>0, <4>1 DEF Load, Holds, Placed
      <4>2. CASE \A x \in Files : Holds(file, quar, x, mem.ev[x])
        <5>1. file["main"] = mem.ev["main"] /\ file["bak"] = mem.ev["bak"]
          BY <4>2 DEF Holds, Files
        <5>2. Load(file) = mem.before
          BY <2>1, <5>1 DEF Load, Planned
        <5> QED BY <2>1, <3>0, <5>1, <5>2 DEF Placed, Reached
      <4>3. CASE (\A x \in Files : Holds(file, quar, x, mem.comp)) /\ ~(\A x \in Files : Holds(file, quar, x, mem.ev[x]))
        <5>1. file["main"] = mem.comp /\ file["bak"] = mem.comp
          BY <4>3 DEF Holds, Files
        <5>2. mem.comp # Absent
          <6>1. SUFFICES ASSUME mem.comp = Absent PROVE FALSE
            OBVIOUS
          <6>2. Shape(mem, file, quar) /\ mem.cand # Absent
            BY <1>1, <2>1, <3>0, SentinelAssumption DEF ShapeInv
          <6> QED BY <4>3, <5>1, <6>1, <6>2 DEF Shape, Holds, Between, Files
        <5>3. Load(file) = mem.comp /\ Serve(mem.comp) = Serve(mem.before)
          BY <2>1, <3>0, <5>1, <5>2, PlannedImages DEF Load
        <5>4. \A s \in Scenes : Side(mem.comp, s) = Side(mem.before, s)
          BY <2>1, <5>2, PlannedImages DEF Asks
        <5> QED BY <2>1, <3>0, <5>1, <5>3, <5>4 DEF Placed, Reached
      <4> QED BY <1>1, <2>1, <4>1, <4>2, <4>3 DEF ShapeInv
    <3>2. jobs = {}
      BY <2>1 DEF Placed
    <3>3. core = Serve(Load(file)) /\ \A s \in Scenes : route[s] = Side(Load(file), s)
      <4>1. \A s \in Scenes : s # Core
        BY SceneAssumption DEF SceneNames, Core
      <4> QED BY <3>1, <4>1 DEF AsAsked, Parts
    <3> QED BY <1>1, <2>2, <2>4, <3>2, <3>3 DEF RunInv, Exit, runtime, world, Settling, Going, UndoPCs
  <2> QED BY <2>2, <2>3, <2>4
<1>20. CASE CommitMain
  <2>1. /\ pc = "commit_main" /\ mem = rec /\ mem \in Receipt /\ Planned(mem) /\ Placed(mem) /\ rec # None
        /\ mem.restored = {} /\ jobs = {} /\ mem.started = mem.todo
        /\ \A p \in mem.started : AsAsked(mem.cand, p, core, route)
    BY <1>1, <1>3, <1>20 DEF CommitMain, RunInv, Early, Settling, Going
  <2>2. \A p \in Parts : AsAsked(mem.cand, p, core, route)
    BY <2>1, ReachedEnd DEF Placed
  <2>3. UNCHANGED <<rec, mem, world>> /\ pc' \in {"commit_main", "verify", "persist_failed"}
    BY <1>20 DEF CommitMain, Swap, Claim, PublishClaimed, Goto, runtime, world
  <2> QED BY <1>1, <2>1, <2>2, <2>3 DEF RunInv, runtime, world, Reached, AsAsked, Settling, Going, UndoPCs
<1>21. rec # None => quar["main"] \in {Absent, rec.ev["main"]} /\ rec.ev["main"] # rec.cand /\ rec.cand # Absent
  <2>1. SUFFICES ASSUME rec # None
                 PROVE  quar["main"] \in {Absent, rec.ev["main"]} /\ rec.ev["main"] # rec.cand /\ rec.cand # Absent
    OBVIOUS
  <2>2. rec \in Receipt /\ Planned(rec) /\ Shape(rec, file, quar)
    BY <1>1, <1>2, <2>1 DEF PlanInv, ShapeInv
  <2> QED BY <2>2, PlannedImages, SentinelAssumption DEF Shape, Holds, Between, Files
<1>22. CASE Exit /\ UNCHANGED <<file, rec, world>>
  BY <1>1, <1>22, RunEnded
<1>23. CASE Compensate(mem) /\ UNCHANGED <<file, rec, world>> /\ pc \notin Early \cup Settling
  BY <1>1, <1>3, <1>23, RunFailed DEF Placed
<1>24. CASE Precommit \/ Save \/ CommitCheck \/ Finalize \/ PersistFailed \/ Decide \/ UndoAdmit \/ UndoVerify
  <2>1. UNCHANGED <<file, rec, world>> /\ pc \notin Early \cup Settling
    BY <1>24 DEF Precommit, Save, CommitCheck, Finalize, PersistFailed, Decide, UndoAdmit, UndoVerify, durable, runtime, world,
       Early, Settling
  <2>2. pc \in UndoPCs => Left(mem) = {}
    BY <1>1 DEF RunInv
  <2>3. \/ Exit \/ Compensate(mem)
        \/ /\ UNCHANGED mem
           /\ pc' \in Going => pc \in Going /\ (pc' # "step" => pc # "step")
           /\ pc' \in Going \cup {"undo_main", "remove"}
           /\ pc' = "undo_main" => Left(mem) = {}
           /\ pc' = "remove" => Left(mem) = {} \/ file'["main"] = mem.cand
    BY <1>24, <2>1, <2>2 DEF Precommit, Save, CommitCheck, Finalize, PersistFailed, Decide, UndoAdmit, UndoVerify,
       Goto, Going, UndoPCs, Committed
  <2>4. CASE UNCHANGED mem /\ ~Exit /\ ~Compensate(mem)
    BY <1>1, <1>3, <2>1, <2>3, <2>4, RunKept DEF Settling, Going, UndoPCs
  <2> QED BY <1>22, <1>23, <2>1, <2>3, <2>4
<1>25. CASE CommitBackup
  <2>1. /\ UNCHANGED <<rec, mem, world>> /\ pc = "commit_bak" /\ file'["main"] = file["main"]
        /\ pc' \in {"commit_bak", "commit_check", "persist_failed"}
    BY <1>2, <1>25 DEF CommitBackup, Swap, Claim, PublishClaimed, PutBack, Publish, Retire, durable, runtime, world, Goto, Files
  <2> QED BY <1>1, <1>3, <2>1, RunKept DEF Early, Settling, Going, UndoPCs
<1>26. CASE SettleMain \/ SettleBackup \/ RecoverMain \/ RecoverBackup
  <2>1. UNCHANGED <<rec, world>> /\ pc \notin Early /\ rec # None
    BY <1>2, <1>26 DEF SettleMain, SettleBackup, RecoverMain, RecoverBackup, Early, runtime, world
  <2>2. \/ Exit /\ UNCHANGED file
        \/ /\ UNCHANGED mem /\ file'["main"] \in {file["main"], quar["main"]}
           /\ file'["main"] # file["main"] => quar["main"] # Absent
           /\ pc' \in {"settle_bak", "admit", "recover_bak", "decide"}
           /\ pc' \in Settling => pc \in Settling
    BY <1>2, <1>26 DEF SettleMain, SettleBackup, RecoverMain, RecoverBackup, Settle, Goto, Files, Settling
  <2>3. CASE UNCHANGED mem /\ ~Exit
    <3>1. file'["main"] = rec.cand => file["main"] = rec.cand
      BY <1>21, <2>1, <2>2, <2>3
    <3> QED BY <1>1, <2>1, <2>2, <2>3, <3>1, RunKept DEF Settling, Going, UndoPCs
  <2> QED BY <1>22, <2>1, <2>2, <2>3 DEF Exit
<1>27. CASE UndoBackup \/ UndoMain
  <2>1. /\ pc \in UndoPCs /\ mem = rec /\ rec # None /\ Left(mem) = {} /\ mem.comp # Absent
        /\ mem.comp # mem.cand /\ file["main"] # mem.cand /\ rec.cand # Absent
    <3>1. pc \in UndoPCs
      BY <1>27 DEF UndoBackup, UndoMain, UndoPCs
    <3> QED BY <1>1, <1>3, <1>5, <1>21, <3>1, PlannedImages DEF UndoPCs, Early, Settling, RunInv, StoreInv, TypeInv
  <2>2. UNCHANGED <<rec, world>> /\ file'["main"] \in {file["main"], quar["main"], mem.comp, Absent}
    BY <1>2, <1>27 DEF UndoBackup, UndoMain, Swap, Claim, PublishClaimed, PutBack, Publish, Retire, durable, runtime, world, Files
  <2>3. file'["main"] # rec.cand
    BY <1>21, <2>1, <2>2
  <2>4. pc' = "idle" => Exit
    BY <1>27 DEF UndoBackup, UndoMain, Swap, Claim, PublishClaimed, Goto, Exit
  <2>5. pc' # "idle" => UNCHANGED mem /\ pc' \in UndoPCs
    BY <1>27 DEF UndoBackup, UndoMain, Swap, Claim, PublishClaimed, Goto, UndoPCs
  <2> QED BY <1>1, <2>1, <2>2, <2>3, <2>4, <2>5, RunEnded, RunKept DEF Settling, Going, UndoPCs
<1>28. CASE Crash
  BY <1>22, <1>28 DEF Crash, durable, runtime, world
<1>29. CASE \E s \in Scenes : JobDone(s)
  <2>1. PICK s \in jobs : JobDone(s)
    BY <1>29 DEF JobDone
  <2>2. route' = route /\ jobs' \subseteq jobs /\ UNCHANGED <<file, rec, core, pc, mem>>
    BY <1>1, <1>2, <2>1 DEF JobDone, RunInv, durable, runtime, world
  <2>3. Reverting' = Reverting
    BY <2>2 DEF Reverting, Unrestored
  <2> QED BY <1>1, <2>2, <2>3 DEF RunInv, AsAsked, Reached
<1>30. CASE Rest \/ UNCHANGED vars
  <2>1. UNCHANGED <<file, rec, core, route, jobs, pc, mem>>
    BY <1>30 DEF Rest, vars, durable, runtime
  <2>2. Reverting' = Reverting
    BY <2>1 DEF Reverting, Unrestored
  <2> QED BY <1>1, <2>1, <2>2 DEF RunInv, AsAsked, Reached
<1>31. \A f \in Files, c \in EditContents : ~Edit(f, c)
  BY DEF Edit
<1> QED
  BY <1>6, <1>7, <1>8, <1>9, <1>10, <1>11, <1>12, <1>13, <1>14, <1>15, <1>16, <1>17, <1>18, <1>19, <1>20,
     <1>24, <1>25, <1>26, <1>27, <1>28, <1>29, <1>30, <1>31 DEF Next, Process, Forward, Backward

\* One step of a compare-and-swap that finds what it expects, whatever fails in it.
LEMMA SwapUnder ==
  ASSUME TypeOK, NEW f \in Files, NEW old, NEW new, NEW ok, NEW err, Swap(f, old, new, ok, err),
         Under(file, quar, cas, f, old, new), old # new, new # Absent, pc # ok, pc # err, ok # err
  PROVE  /\ \A x \in Files : x # f => file'[x] = file[x] /\ quar'[x] = quar[x]
         /\ Between(file', quar', f, old, new)
         /\ pc' = pc => Under(file', quar', cas', f, old, new)
         /\ pc' = ok => Holds(file', quar', f, new)
         /\ pc' \in {pc, ok, err}
<1>1. file \in [Files -> Content] /\ quar \in [Files -> Content] /\ cas \in {"claim", "take", "publish", "retire"}
  BY DEF TypeOK
<1>2. CASE Claim(f, old, err)
  BY <1>1, <1>2 DEF Claim, Under, Holds, Between, durable, Goto
<1>3. CASE PublishClaimed(f, old, new, err)
  BY <1>1, <1>3 DEF PublishClaimed, PutBack, Publish, Retire, Under, Holds, Between, durable, Goto
<1>4. CASE /\ cas = "claim" /\ file[f] = old /\ old = Absent /\ quar[f] = Absent
           /\ Publish(f, new) /\ UNCHANGED <<quar, cas>>
           /\ \/ Goto(ok) /\ UNCHANGED faults
              \/ Goto(err) /\ Fault
  BY <1>1, <1>4 DEF Publish, Under, Holds, Between, Goto
<1>5. CASE /\ cas = "retire" /\ cas' = "claim"
           /\ \/ Retire(f) /\ Goto(ok) /\ UNCHANGED <<file, issued, faults>>
              \/ UNCHANGED durable /\ Goto(err) /\ Fault
  BY <1>1, <1>5 DEF Retire, Under, Holds, Between, durable, Goto
<1> QED BY <1>2, <1>3, <1>4, <1>5 DEF Swap

\* The shape of the store files is about the plan's images only.
LEMMA SamePlanShape ==
  ASSUME NEW q, NEW r, SamePlan(q, r), q.comp = r.comp, NEW f, NEW u, Shape(r, f, u)
  PROVE  Shape(q, f, u)
  BY DEF SamePlan, Shape

\* Settling a claim moves a file between the shapes an interrupted swap may have, and
\* leaves no claim when the command goes on.
LEMMA SettleShape ==
  ASSUME TypeOK, NEW f \in Files, NEW next, Settle(f, next), next # "idle",
         NEW r \in Receipt, Planned(r), Shape(r, file, quar)
  PROVE  /\ Shape(r, file', quar')
         /\ file["main"] # r.cand => file'["main"] # r.cand
         /\ \A x \in Files : quar[x] = Absent => quar'[x] = Absent
         /\ (Exit \/ (pc' = next /\ UNCHANGED <<mem, seen, cas>> /\ quar'[f] = Absent))
<1>1. file \in [Files -> Content] /\ quar \in [Files -> Content]
  BY DEF TypeOK
<1>2. r.cand # Absent /\ r.ev["main"] # r.cand
  BY PlannedImages, SentinelAssumption DEF Files
<1>3. Exit \/ (pc' = next /\ UNCHANGED <<mem, seen, cas>> /\ quar'[f] = Absent)
  BY <1>1 DEF Settle, Goto
<1>4. \/ UNCHANGED <<file, quar>>
      \/ quar[f] # Absent /\ file[f] = Absent
         /\ file' = [file EXCEPT ![f] = quar[f]] /\ quar' = [quar EXCEPT ![f] = Absent]
      \/ quar[f] # Absent /\ file[f] # Absent /\ file' = file /\ quar' = [quar EXCEPT ![f] = Absent]
  BY DEF Settle
<1>5. CASE UNCHANGED <<file, quar>>
  BY <1>3, <1>5
<1>6. CASE quar[f] # Absent /\ file[f] = Absent
           /\ file' = [file EXCEPT ![f] = quar[f]] /\ quar' = [quar EXCEPT ![f] = Absent]
  BY <1>1, <1>2, <1>3, <1>6 DEF Shape, Holds, Between, Files
<1>7. CASE quar[f] # Absent /\ file[f] # Absent /\ file' = file /\ quar' = [quar EXCEPT ![f] = Absent]
  BY <1>1, <1>2, <1>3, <1>7 DEF Shape, Holds, Between, Files
<1> QED BY <1>4, <1>5, <1>6, <1>7

\* How ShapeInv survives a step that ends the command: the record stays, or another of
\* the same plan is there, ...
LEMMA ShapeEnded ==
  ASSUME ShapeInv, Exit, \/ rec' = None /\ rec = None /\ UNCHANGED <<file, quar>>
                         \/ rec' # None /\ Shape(rec', file', quar')
  PROVE  ShapeInv'
  BY DEF ShapeInv, Exit, Settling, Reverts, UndoPCs

\* ... or goes on to compensate, with the candidate not in main.
LEMMA ShapeFailed ==
  ASSUME ShapeInv, rec' # None, Shape(rec', file', quar'), NEW r, Compensate(r), file'["main"] # r.cand
  PROVE  ShapeInv'
  BY DEF ShapeInv, Compensate, Goto, Settling, Reverts, UndoPCs

\* Where the store files are survives every step.
LEMMA NextShape ==
  StoreInv /\ TypeInv' /\ WholeInv /\ edits = 0 /\ [Next]_vars /\ edits' = 0 => ShapeInv'
<1> SUFFICES ASSUME StoreInv, TypeInv', WholeInv, edits = 0, edits' = 0, [Next]_vars PROVE ShapeInv'
  OBVIOUS
<1>1. PlanInv /\ ShapeInv
  BY DEF WholeInv
<1>2. /\ TypeOK /\ file \in [Files -> Content] /\ quar \in [Files -> Content]
      /\ (pc # "idle" => mem \in Receipt) /\ (rec # None => rec \in Receipt)
      /\ (pc \notin Early => rec # None)
  BY DEF StoreInv, TypeInv, TypeOK, RecordInv, Early
<1>3. pc \notin Early \cup Settling =>
        mem = rec /\ rec # None /\ mem \in Receipt /\ Planned(mem) /\ Shape(mem, file, quar)
  BY <1>1, <1>2 DEF PlanInv, ShapeInv
<1>4. cas # "claim" => pc \in SwapPCs
  BY DEF StoreInv, CasInv
<1>5. CASE Begin \/ Plan
  BY <1>1, <1>5 DEF Begin, Plan, Goto, Exit, durable, ShapeInv, Settling, Reverts, UndoPCs
<1>6. CASE Record
  <2>1. /\ rec = None /\ mem \in Receipt /\ mem # None /\ mem.ev = file /\ mem.comp = Absent
        /\ (\A x \in Files : quar[x] = Absent) /\ UNCHANGED <<file, quar>> /\ WriteRec(mem, "step", Exit)
    BY <1>1, <1>2, <1>6, SentinelAssumption DEF PlanInv, Record, ShapeInv, durable
  <2>2. Shape(mem, file, quar) /\ \A x \in Files : Holds(file, quar, x, mem.ev[x])
    BY <2>1 DEF Shape, Holds, Between, Files
  <2>3. CASE Exit /\ rec' \in {rec, mem}
    BY <1>1, <2>1, <2>2, <2>3, ShapeEnded
  <2>4. CASE rec' = mem /\ mem' = mem /\ pc' = "step"
    BY <2>1, <2>2, <2>4 DEF ShapeInv, Settling, Reverts, UndoPCs
  <2> QED BY <2>1, <2>3, <2>4 DEF WriteRec, Goto
<1>7. CASE StepStart \/ WriteCommitting
  <2>1. /\ pc = "step" /\ mem = rec /\ rec # None /\ mem \in Receipt /\ Planned(mem) /\ Shape(mem, file, quar)
        /\ mem.comp = Absent /\ (\A x \in Files : Holds(file, quar, x, mem.ev[x]))
        /\ UNCHANGED <<file, quar>>
    BY <1>1, <1>3, <1>7 DEF StepStart, WriteCommitting, Early, Settling, ShapeInv, durable
  <2>2. file["main"] # mem.cand
    BY <2>1, PlannedImages DEF Holds, Files
  <2>3. \E r \in Receipt :
           /\ SamePlan(r, mem) /\ r.comp = mem.comp
           /\ \/ rec' = r /\ mem' = r /\ pc' \in {"exec", "precommit"}
              \/ rec' \in {rec, r} /\ Compensate(r)
    <3>1. CASE StepStart
      <4> DEFINE r == [mem EXCEPT !.started = @ \cup {First(mem, mem.todo \ mem.started)}]
      <4>1. r = [mem EXCEPT !.started = @ \cup {First(mem, mem.todo \ mem.started)}]
        OBVIOUS
      <4>2. CASE file = mem.ev
        <5>1. WriteRec(r, "exec", Compensate(r)) /\ mem.started # mem.todo
          BY <3>1, <4>2 DEF StepStart
        <5> HIDE DEF r
        <5>2. mem.restored = {}
          BY <2>1 DEF WholeInv, RunInv, Going
        <5>3. r \in Receipt /\ SamePlan(r, mem) /\ r.comp = mem.comp
          BY <2>1, <4>1, <5>1, <5>2, PlannedStart
        <5> QED BY <5>1, <5>3 DEF WriteRec, Goto
      <4>3. CASE file # mem.ev
        BY <2>1, <3>1, <4>3 DEF StepStart, SamePlan
      <4> QED BY <4>2, <4>3
    <3>2. CASE WriteCommitting
      <4> DEFINE r == [mem EXCEPT !.phase = "committing"]
      <4>1. r \in Receipt /\ SamePlan(r, mem) /\ r.comp = mem.comp
        BY <2>1, PlannedPhase DEF Phases
      <4>2. WriteRec(r, "precommit", Compensate(r))
        BY <3>2 DEF WriteCommitting
      <4> HIDE DEF r
      <4> QED BY <4>1, <4>2 DEF WriteRec, Goto
    <3> QED BY <1>7, <3>1, <3>2
  <2>4. PICK r \in Receipt :
           /\ SamePlan(r, mem) /\ r.comp = mem.comp
           /\ \/ rec' = r /\ mem' = r /\ pc' \in {"exec", "precommit"}
              \/ rec' \in {rec, r} /\ Compensate(r)
    BY <2>3
  <2>5. r # None /\ Shape(r, file', quar') /\ r.cand = mem.cand /\ r.ev = mem.ev
    BY <2>1, <2>4, SamePlanShape, SentinelAssumption DEF SamePlan
  <2>6. CASE rec' \in {rec, r} /\ Compensate(r)
    BY <1>1, <2>1, <2>2, <2>5, <2>6, ShapeFailed
  <2>7. CASE rec' = r /\ mem' = r /\ pc' \in {"exec", "precommit"}
    BY <2>1, <2>4, <2>5, <2>7 DEF ShapeInv, Settling, Reverts, UndoPCs
  <2> QED BY <2>4, <2>6, <2>7
<1>8. CASE StepRun \/ StepDone \/ StepFail \/ StepUnsettled
  <2>1. /\ pc \in {"exec", "running"} /\ mem = rec /\ rec # None /\ mem \in Receipt /\ Planned(mem) /\ Shape(mem, file, quar)
        /\ mem.comp = Absent /\ (\A x \in Files : Holds(file, quar, x, mem.ev[x]))
        /\ UNCHANGED <<file, quar, rec>>
    BY <1>1, <1>3, <1>8 DEF StepRun, StepDone, StepFail, StepUnsettled, Early, Settling, ShapeInv, durable
  <2>2. file["main"] # mem.cand
    BY <2>1, PlannedImages DEF Holds, Files
  <2>3. CASE StepRun \/ StepDone
    BY <2>1, <2>3 DEF StepRun, StepDone, Goto, ShapeInv, Settling, Reverts, UndoPCs
  <2> QED BY <1>1, <1>8, <2>1, <2>2, <2>3, ShapeEnded, ShapeFailed DEF StepFail, StepUnsettled
<1>9. CASE Precommit \/ Save \/ CommitCheck \/ Finalize
  <2>1. /\ mem = rec /\ rec # None /\ mem \in Receipt /\ Planned(mem) /\ Shape(mem, file, quar)
        /\ cas = "claim" /\ UNCHANGED <<file, quar, rec>>
    BY <1>3, <1>4, <1>9 DEF Precommit, Save, CommitCheck, Finalize, Early, Settling, durable, SwapPCs
  <2>2. CASE Exit
    BY <1>1, <2>1, <2>2, ShapeEnded
  <2>3. CASE ~Exit
    BY <1>1, <1>9, <2>1, <2>3 DEF Precommit, Save, CommitCheck, Finalize, Goto, ShapeInv, Under, Files,
       Settling, Reverts, UndoPCs
  <2> QED BY <2>2, <2>3
<1>10. CASE CommitBackup
  <2>1. /\ pc = "commit_bak" /\ mem = rec /\ rec # None /\ mem \in Receipt /\ Planned(mem) /\ mem.comp = Absent
        /\ Holds(file, quar, "main", mem.ev["main"])
        /\ Under(file, quar, cas, "bak", mem.ev["bak"], mem.cand)
    BY <1>1, <1>3, <1>10 DEF CommitBackup, Early, Settling, ShapeInv
  <2>2. mem.ev["bak"] # mem.cand /\ mem.cand # Absent /\ UNCHANGED <<rec, mem>>
        /\ Swap("bak", mem.ev["bak"], mem.cand, "commit_check", "persist_failed")
    BY <1>10, <2>1, PlannedImages, SentinelAssumption DEF CommitBackup, Files
  <2>3. /\ file'["main"] = file["main"] /\ quar'["main"] = quar["main"]
        /\ Between(file', quar', "bak", mem.ev["bak"], mem.cand)
        /\ pc' = pc => Under(file', quar', cas', "bak", mem.ev["bak"], mem.cand)
        /\ pc' = "commit_check" => Holds(file', quar', "bak", mem.cand)
        /\ pc' \in {pc, "commit_check", "persist_failed"}
    BY <1>2, <2>1, <2>2, SwapUnder DEF Files
  <2>4. Shape(rec', file', quar') /\ Holds(file', quar', "main", mem.ev["main"])
    BY <2>1, <2>2, <2>3 DEF Shape, Holds
  <2> QED BY <2>1, <2>2, <2>3, <2>4 DEF ShapeInv, Settling, Reverts, UndoPCs
<1>11. CASE CommitMain
  <2>1. /\ pc = "commit_main" /\ mem = rec /\ rec # None /\ mem \in Receipt /\ Planned(mem) /\ mem.comp = Absent
        /\ Holds(file, quar, "bak", mem.cand)
        /\ Under(file, quar, cas, "main", mem.ev["main"], mem.cand)
    BY <1>1, <1>3, <1>11 DEF CommitMain, Early, Settling, ShapeInv
  <2>2. mem.ev["main"] # mem.cand /\ mem.cand # Absent /\ UNCHANGED <<rec, mem>>
        /\ Swap("main", mem.ev["main"], mem.cand, "verify", "persist_failed")
    BY <1>11, <2>1, PlannedImages, SentinelAssumption DEF CommitMain, Files
  <2>3. /\ file'["bak"] = file["bak"] /\ quar'["bak"] = quar["bak"]
        /\ Between(file', quar', "main", mem.ev["main"], mem.cand)
        /\ pc' = pc => Under(file', quar', cas', "main", mem.ev["main"], mem.cand)
        /\ pc' = "verify" => Holds(file', quar', "main", mem.cand)
        /\ pc' \in {pc, "verify", "persist_failed"}
    BY <1>2, <2>1, <2>2, SwapUnder DEF Files
  <2>4. Shape(rec', file', quar') /\ Holds(file', quar', "bak", mem.cand)
    BY <2>1, <2>2, <2>3 DEF Shape, Holds
  <2>5. pc' = "verify" => \A x \in Files : Holds(file', quar', x, mem.cand)
    BY <2>3, <2>4 DEF Files
  <2> QED BY <2>1, <2>2, <2>3, <2>4, <2>5 DEF ShapeInv, Settling, Reverts, UndoPCs
<1>12. CASE PersistFailed \/ Decide \/ Crash
  <2>1. UNCHANGED <<file, quar, rec>>
    BY <1>12 DEF PersistFailed, Decide, Crash, durable
  <2>2. CASE Exit
    BY <1>1, <2>1, <2>2, ShapeEnded DEF ShapeInv
  <2>3. CASE Compensate(mem) /\ file["main"] # mem.cand /\ pc \in {"persist_failed", "decide"}
    BY <1>1, <1>3, <2>1, <2>3, ShapeFailed DEF Early, Settling
  <2>4. CASE Decide /\ pc' = "remove" /\ UNCHANGED mem
    <3>1. Committed(mem) /\ pc = "decide"
      BY <2>4 DEF Decide, Compensate, Exit, Goto
    <3>2. \A x \in Files : Holds(file, quar, x, mem.cand)
      BY <1>1, <3>1 DEF Committed, ShapeInv, Holds, Files
    <3> QED BY <1>1, <1>3, <2>1, <2>4, <3>1, <3>2 DEF ShapeInv, Early, Settling, Reverts, UndoPCs
  <2> QED BY <1>12, <2>2, <2>3, <2>4 DEF PersistFailed, Decide, Crash, Goto
<1>13. CASE Verify
  <2>1. /\ pc = "verify" /\ mem = rec /\ rec # None /\ mem \in Receipt /\ Planned(mem) /\ Shape(mem, file, quar)
        /\ (\A x \in Files : Holds(file, quar, x, mem.cand)) /\ UNCHANGED <<file, quar>>
    BY <1>1, <1>3, <1>13 DEF Verify, Early, Settling, ShapeInv, durable
  <2> DEFINE r == [mem EXCEPT !.phase = "committed"]
  <2>2. r # None /\ SamePlan(r, mem) /\ r.comp = mem.comp
    BY <2>1, PlannedPhase DEF Phases
  <2>3. WriteRec(r, "committed", Exit) \/ (Exit /\ rec' = rec)
    BY <1>13 DEF Verify
  <2> HIDE DEF r
  <2>4. Shape(r, file', quar') /\ r.cand = mem.cand
    BY <2>1, <2>2, SamePlanShape DEF SamePlan
  <2>5. CASE rec' = r /\ mem' = r /\ pc' = "committed"
    BY <2>1, <2>2, <2>4, <2>5 DEF ShapeInv, Settling, Reverts, UndoPCs
  <2>6. CASE Exit /\ rec' \in {rec, r}
    BY <1>1, <2>1, <2>2, <2>4, <2>6, ShapeEnded
  <2> QED BY <2>3, <2>5, <2>6 DEF WriteRec, Goto
<1>14. CASE Remove
  <2>1. /\ pc = "remove" /\ mem = rec /\ rec # None /\ mem \in Receipt /\ Planned(mem) /\ Shape(mem, file, quar)
        /\ UNCHANGED <<file, quar>> /\ Exit /\ rec' \in {rec, None}
    BY <1>3, <1>14 DEF Remove, RemoveRec, Early, Settling, durable
  <2>2. CASE rec' = rec
    BY <1>1, <2>1, <2>2, ShapeEnded
  <2>3. CASE rec' = None
    <3>1. \A x \in Files : quar[x] = Absent
      BY <1>1, <2>1 DEF ShapeInv, Holds
    <3>2. Loadable(file)
      <4>0. mem.cand \in Image /\ (mem.comp # Absent => mem.comp \in Image) /\ Loadable(mem.ev)
        BY <2>1, PlannedImages DEF Planned
      <4>1. CASE \A x \in Files : Holds(file, quar, x, mem.ev[x])
        BY <4>0, <4>1 DEF Loadable, Holds, Files
      <4>2. CASE \A x \in Files : Holds(file, quar, x, mem.cand)
        BY <4>0, <4>2 DEF Loadable, Holds, Files
      <4>3. CASE \A x \in Files : Holds(file, quar, x, mem.comp)
        BY <4>0, <4>3 DEF Loadable, Holds, Files
      <4> QED BY <1>1, <2>1, <4>1, <4>2, <4>3 DEF ShapeInv
    <3> QED BY <2>1, <2>3, <3>1, <3>2 DEF ShapeInv, Exit, Settling, Reverts, UndoPCs
  <2> QED BY <2>1, <2>2, <2>3
<1>15. CASE SettleMain \/ SettleBackup \/ RecoverMain \/ RecoverBackup
  <2>1. /\ pc \in {"settle_main", "settle_bak", "recover_main", "recover_bak"} /\ rec # None /\ rec \in Receipt
        /\ Planned(rec) /\ Shape(rec, file, quar) /\ mem.cand = rec.cand /\ rec' = rec
    <3>1. pc \in {"settle_main", "settle_bak", "recover_main", "recover_bak"} /\ rec' = rec
      BY <1>15 DEF SettleMain, SettleBackup, RecoverMain, RecoverBackup
    <3> QED BY <1>1, <1>2, <3>1 DEF Early, PlanInv, ShapeInv, StoreInv, RecordInv
  <2>2. /\ Shape(rec, file', quar')
        /\ file["main"] # rec.cand => file'["main"] # rec.cand
        /\ \A x \in Files : quar[x] = Absent => quar'[x] = Absent
        /\ \/ Exit
           \/ /\ UNCHANGED <<mem, seen, cas>>
              /\ \/ pc = "settle_main" /\ pc' = "settle_bak" /\ quar'["main"] = Absent
                 \/ pc = "recover_main" /\ pc' = "recover_bak" /\ quar'["main"] = Absent
                 \/ pc = "settle_bak" /\ pc' = "admit" /\ quar'["bak"] = Absent
                 \/ pc = "recover_bak" /\ pc' = "decide" /\ quar'["bak"] = Absent
    <3>1. "main" \in Files /\ "bak" \in Files
      BY DEF Files
    <3>2. CASE SettleMain
      BY <1>2, <2>1, <3>1, <3>2, SettleShape DEF SettleMain
    <3>3. CASE SettleBackup
      BY <1>2, <2>1, <3>1, <3>3, SettleShape DEF SettleBackup
    <3>4. CASE RecoverMain
      BY <1>2, <2>1, <3>1, <3>4, SettleShape DEF RecoverMain
    <3>5. CASE RecoverBackup
      BY <1>2, <2>1, <3>1, <3>5, SettleShape DEF RecoverBackup
    <3> QED BY <1>15, <3>2, <3>3, <3>4, <3>5
  <2>3. CASE Exit
    BY <1>1, <2>1, <2>2, <2>3, ShapeEnded
  <2>4. pc \in {"settle_bak", "recover_bak"} => quar["main"] = Absent
    BY <1>1 DEF ShapeInv
  <2>5. pc \in {"settle_main", "settle_bak"} => file["main"] # rec.cand
    BY <1>1, <2>1 DEF ShapeInv, Settling
  <2>6. CASE ~Exit
    <3>1. pc' \in {"admit", "decide"} => \A x \in Files : quar'[x] = Absent
      BY <2>1, <2>2, <2>4, <2>6 DEF Files
    <3>2. pc' \in {"settle_bak", "admit"} => file'["main"] # mem'.cand
      BY <2>1, <2>2, <2>5, <2>6
    <3>3. pc' \in {"settle_bak", "recover_bak"} => quar'["main"] = Absent
      BY <2>2, <2>6
    <3>4. pc' \in {"settle_bak", "recover_bak", "admit", "decide"} /\ rec' # None /\ Shape(rec', file', quar')
      BY <2>1, <2>2, <2>6
    <3> QED BY <3>1, <3>2, <3>3, <3>4 DEF ShapeInv, Settling, Reverts, UndoPCs
  <2> QED BY <2>3, <2>6
<1>16. CASE Admit
  <2>1. /\ pc = "admit" /\ rec # None /\ mem \in Receipt /\ Planned(mem) /\ SamePlan(mem, rec) /\ mem.comp = rec.comp
        /\ Shape(rec, file, quar) /\ file["main"] # mem.cand /\ (\A x \in Files : quar[x] = Absent)
        /\ UNCHANGED <<file, quar>>
    BY <1>1, <1>2, <1>16 DEF Admit, Early, Settling, PlanInv, ShapeInv, durable
  <2> DEFINE r == [mem EXCEPT !.phase = "compensating"]
  <2>2. r # None /\ SamePlan(r, mem) /\ r.comp = mem.comp
    BY <2>1, PlannedPhase DEF Phases
  <2>3. WriteRec(r, "revert", Exit) \/ (Exit /\ rec' = rec)
    BY <1>16 DEF Admit
  <2> HIDE DEF r
  <2>4. Shape(r, file', quar') /\ r.cand = mem.cand
    BY <2>1, <2>2, SamePlanShape DEF SamePlan
  <2>5. CASE rec' = r /\ mem' = r /\ pc' = "revert"
    BY <2>1, <2>2, <2>4, <2>5 DEF ShapeInv, Settling, Reverts, UndoPCs
  <2>6. CASE Exit /\ rec' \in {rec, r}
    BY <1>1, <2>1, <2>2, <2>4, <2>6, ShapeEnded
  <2> QED BY <2>3, <2>5, <2>6 DEF WriteRec, Goto
<1>17. CASE RevertStart \/ RevertDone \/ RevertFail
  <2>1. /\ pc \in {"revert", "reverting"} /\ rec # None /\ Shape(rec, file, quar)
        /\ file["main"] # mem.cand /\ (\A x \in Files : quar[x] = Absent) /\ UNCHANGED <<file, quar, rec>>
    BY <1>1, <1>2, <1>17 DEF RevertStart, RevertDone, RevertFail, Early, ShapeInv, Reverts, durable
  <2>2. CASE Exit
    BY <1>1, <2>1, <2>2, ShapeEnded
  <2>3. CASE UNCHANGED mem /\ pc' \in {"reverting", "restored"}
    BY <2>1, <2>3 DEF ShapeInv, Settling, Reverts, UndoPCs
  <2> QED BY <1>17, <2>2, <2>3 DEF RevertStart, RevertDone, RevertFail, Goto
<1>18. CASE MarkRestored
  <2>1. /\ pc = "restored" /\ mem = rec /\ rec # None /\ mem \in Receipt /\ Planned(mem) /\ Shape(mem, file, quar)
        /\ Left(mem) # {} /\ Reverting = Last(mem, Left(mem)) /\ file["main"] # mem.cand
        /\ (\A x \in Files : quar[x] = Absent) /\ UNCHANGED <<file, quar>>
    BY <1>1, <1>3, <1>18 DEF MarkRestored, Early, Settling, Reverts, ShapeInv, StoreInv, TypeInv, Left,
       Unrestored, Reverting, durable
  <2> DEFINE r == [mem EXCEPT !.restored = @ \cup {Reverting}]
  <2>2. r \in Receipt /\ SamePlan(r, mem) /\ r.comp = mem.comp
    BY <2>1, PlannedRestored
  <2>3. WriteRec(r, "revert", Exit)
    BY <1>18 DEF MarkRestored
  <2> HIDE DEF r
  <2>4. Shape(r, file', quar') /\ r.cand = mem.cand /\ r # None
    BY <2>1, <2>2, SamePlanShape, SentinelAssumption DEF SamePlan
  <2>5. CASE rec' = r /\ mem' = r /\ pc' = "revert"
    BY <2>1, <2>4, <2>5 DEF ShapeInv, Settling, Reverts, UndoPCs
  <2>6. CASE Exit /\ rec' \in {rec, r}
    BY <1>1, <2>1, <2>4, <2>6, ShapeEnded
  <2> QED BY <2>3, <2>5, <2>6 DEF WriteRec, Goto
<1>19. CASE FinishStore
  <2>1. /\ pc = "revert" /\ mem = rec /\ rec # None /\ mem \in Receipt /\ Planned(mem) /\ Shape(mem, file, quar)
        /\ mem.phase = "compensating" /\ file["main"] # mem.cand /\ (\A x \in Files : quar[x] = Absent)
        /\ cas = "claim" /\ UNCHANGED <<file, quar>>
    BY <1>1, <1>3, <1>4, <1>19 DEF FinishStore, Early, Settling, Reverts, ShapeInv, PlanInv, SwapPCs, durable
  <2>2. /\ mem.ev \in [Files -> Content] /\ mem.cand # Absent /\ mem.ev["main"] # mem.cand
    BY <2>1, PlannedImages, SentinelAssumption DEF Files
  <2>3. /\ file["main"] \in {mem.ev["main"], mem.comp}
        /\ mem.comp = Absent => file["main"] = mem.ev["main"] /\ file["bak"] \in {mem.ev["bak"], mem.cand}
        /\ mem.comp # Absent => file["bak"] \in {mem.cand, mem.comp}
    BY <2>1, QuietShape
  <2>4. CASE Exit /\ rec' = rec
    BY <1>1, <2>1, <2>4, ShapeEnded
  <2>5. CASE pc' = "remove" /\ UNCHANGED <<rec, mem>> /\ file = mem.ev
    BY <2>1, <2>5 DEF ShapeInv, Holds, Settling, Reverts, UndoPCs
  <2>6. CASE pc' = "undo_bak" /\ seen' = file /\ UNCHANGED <<rec, mem, cas>> /\ mem.comp # Absent
    <3>1. Holds(file, quar, "main", file["main"]) /\ Under(file, quar, cas, "bak", file["bak"], mem.comp)
      BY <2>1 DEF Holds, Under, Files
    <3> QED BY <2>1, <2>3, <2>6, <3>1 DEF ShapeInv, Settling, Reverts, UndoPCs
  <2> DEFINE r == [mem EXCEPT !.comp = [mem.before EXCEPT !.gen = Highest(file) + 1]]
  <2>7. CASE /\ file # mem.ev /\ mem.comp = Absent
             /\ \/ rec' = r /\ mem' = r /\ pc' = "undo_bak" /\ seen' = file /\ UNCHANGED cas
                \/ rec' \in {rec, r} /\ Exit
    <3>1. file["main"] = mem.ev["main"] /\ file["bak"] = mem.cand
      BY <1>2, <2>2, <2>3, <2>7 DEF Files
    <3>2. Highest(file) = mem.cand.gen
      BY <1>2, <2>1, <3>1, QuietHighest
    <3>3. r \in Receipt /\ SamePlan(r, mem) /\ r.comp # Absent /\ r # None
      BY <2>1, <3>2, UndoIsWellFormed, SentinelAssumption
    <3> HIDE DEF r
    <3>4. r.cand = mem.cand /\ r.ev = mem.ev
      BY <3>3 DEF SamePlan
    <3>5. Shape(r, file', quar')
      BY <2>1, <3>1, <3>3, <3>4 DEF Shape, Between, Holds, Files
    <3>6. Holds(file, quar, "main", file["main"]) /\ Under(file, quar, cas, "bak", file["bak"], r.comp)
      BY <2>1 DEF Holds, Under, Files
    <3>7. CASE rec' = r /\ mem' = r /\ pc' = "undo_bak" /\ seen' = file /\ UNCHANGED cas
      BY <2>1, <3>1, <3>3, <3>4, <3>5, <3>6, <3>7 DEF ShapeInv, Settling, Reverts, UndoPCs
    <3>8. CASE rec' \in {rec, r} /\ Exit
      BY <1>1, <2>1, <3>3, <3>5, <3>8, ShapeEnded
    <3> QED BY <2>7, <3>7, <3>8
  <2> QED BY <1>19, <2>4, <2>5, <2>6, <2>7 DEF FinishStore, Goto
<1>20. CASE UndoBackup
  <2>1. /\ pc = "undo_bak" /\ mem = rec /\ rec # None /\ mem \in Receipt /\ Planned(mem) /\ Shape(mem, file, quar)
        /\ mem.comp # Absent /\ mem.comp # mem.cand /\ file["main"] # mem.cand
        /\ Holds(file, quar, "main", seen["main"]) /\ seen["bak"] \in {mem.cand, mem.comp}
        /\ Under(file, quar, cas, "bak", seen["bak"], mem.comp)
    BY <1>1, <1>3, <1>20, PlannedImages DEF UndoBackup, Early, Settling, ShapeInv, UndoPCs, StoreInv, TypeInv
  <2>2. CASE seen["bak"] = mem.comp
    <3>1. cas = "claim"
      BY <2>1, <2>2 DEF StoreInv, CasInv, Wanted, Swapping, UndoPCs
    <3>2. Holds(file, quar, "bak", mem.comp)
      BY <2>1, <2>2, <3>1 DEF Under
    <3>3. pc' = "undo_admit" /\ UNCHANGED <<file, quar, mem, seen, cas, rec>>
      BY <1>20, <2>2 DEF UndoBackup, Goto, durable
    <3> QED BY <2>1, <3>2, <3>3 DEF ShapeInv, Settling, Reverts, UndoPCs
  <2>3. CASE seen["bak"] # mem.comp
    <3>1. /\ Swap("bak", seen["bak"], mem.comp, "undo_admit", "idle") /\ seen["bak"] = mem.cand /\ rec' = rec
          /\ (pc' # "idle" => UNCHANGED <<mem, seen>>)
      BY <1>20, <2>1, <2>3 DEF UndoBackup
    <3>2. /\ file'["main"] = file["main"] /\ quar'["main"] = quar["main"]
          /\ Between(file', quar', "bak", seen["bak"], mem.comp)
          /\ pc' = pc => Under(file', quar', cas', "bak", seen["bak"], mem.comp)
          /\ pc' = "undo_admit" => Holds(file', quar', "bak", mem.comp)
          /\ pc' \in {pc, "undo_admit", "idle"}
      BY <1>2, <2>1, <2>3, <3>1, SwapUnder DEF Files
    <3>3. Holds(file', quar', "main", seen["main"])
      BY <2>1, <3>2 DEF Holds
    <3>4. Shape(rec', file', quar')
      <4>1. seen["main"] = mem.ev["main"]
        <5>1. seen["main"] \in {mem.ev["main"], mem.comp}
          BY <2>1 DEF StoreInv, SeenInv, UndoPCs
        <5>2. file["bak"] # mem.comp \/ quar["bak"] # Absent
          BY <1>2, <2>1, <3>1, PlannedImages, SentinelAssumption DEF Under, Holds, TypeOK
        <5>3. Holds(file, quar, "main", mem.ev["main"])
          BY <2>1, <5>2 DEF Shape, Holds
        <5> QED BY <2>1, <5>3 DEF Holds
      <4> QED BY <2>1, <3>1, <3>2, <3>3, <4>1 DEF Shape
    <3>5. CASE pc' = "idle"
      <4>1. Exit
        BY <1>20, <2>3, <3>1, <3>5, <2>1 DEF UndoBackup, Swap, Claim, PublishClaimed, Goto, Exit
      <4> QED BY <1>1, <2>1, <3>1, <3>4, <4>1, ShapeEnded
    <3>6. CASE pc' # "idle"
      BY <2>1, <3>1, <3>2, <3>3, <3>4, <3>6 DEF ShapeInv, Settling, Reverts, UndoPCs, Holds
    <3> QED BY <3>5, <3>6
  <2> QED BY <2>2, <2>3
<1>21. CASE UndoAdmit \/ UndoVerify
  <2>1. /\ pc \in {"undo_admit", "undo_verify"} /\ mem = rec /\ rec # None /\ Shape(mem, file, quar)
        /\ cas = "claim" /\ UNCHANGED <<file, quar, rec>>
    BY <1>3, <1>4, <1>21 DEF UndoAdmit, UndoVerify, Early, Settling, SwapPCs, durable
  <2>2. CASE Exit
    BY <1>1, <2>1, <2>2, ShapeEnded
  <2>3. CASE pc = "undo_admit" /\ pc' = "undo_main" /\ UNCHANGED <<mem, seen, cas>>
    <3>1. Holds(file, quar, "main", seen["main"]) /\ Holds(file, quar, "bak", mem.comp) /\ file["main"] # mem.cand
      BY <1>1, <2>3 DEF ShapeInv, UndoPCs
    <3> QED BY <2>1, <2>3, <3>1 DEF ShapeInv, Under, Settling, Reverts, UndoPCs
  <2>4. CASE pc = "undo_verify" /\ pc' = "remove" /\ UNCHANGED mem
    <3>1. \A x \in Files : Holds(file, quar, x, mem.comp)
      BY <1>1, <2>4 DEF ShapeInv
    <3> QED BY <2>1, <2>4, <3>1 DEF ShapeInv, Settling, Reverts, UndoPCs
  <2> QED BY <1>21, <2>2, <2>3, <2>4 DEF UndoAdmit, UndoVerify, Goto
<1>22. CASE UndoMain
  <2>1. /\ pc = "undo_main" /\ mem = rec /\ rec # None /\ mem \in Receipt /\ Planned(mem) /\ Shape(mem, file, quar)
        /\ mem.comp # Absent /\ mem.comp # mem.cand /\ mem.ev["main"] # mem.comp /\ mem.ev["main"] # mem.cand
        /\ file["main"] # mem.cand /\ mem.cand # Absent
        /\ Holds(file, quar, "bak", mem.comp) /\ seen["main"] \in {mem.ev["main"], mem.comp}
        /\ Under(file, quar, cas, "main", seen["main"], mem.comp)
    <3>1. pc = "undo_main"
      BY <1>22 DEF UndoMain
    <3> QED BY <1>1, <1>3, <3>1, PlannedImages, SentinelAssumption DEF Early, Settling, ShapeInv, UndoPCs, StoreInv,
         TypeInv, SeenInv, Files
  <2>2. CASE seen["main"] = mem.comp
    <3>1. cas = "claim"
      BY <2>1, <2>2 DEF StoreInv, CasInv, Wanted, Swapping, UndoPCs
    <3>2. \A x \in Files : Holds(file, quar, x, mem.comp)
      BY <2>1, <2>2, <3>1 DEF Under, Files
    <3>3. pc' = "undo_verify" /\ UNCHANGED <<file, quar, mem, seen, cas, rec>>
      BY <1>22, <2>2 DEF UndoMain, Goto, durable
    <3> QED BY <2>1, <3>2, <3>3 DEF ShapeInv, Settling, Reverts, UndoPCs
  <2>3. CASE seen["main"] # mem.comp
    <3>1. /\ Swap("main", seen["main"], mem.comp, "undo_verify", "idle") /\ seen["main"] = mem.ev["main"]
          /\ rec' = rec /\ (pc' # "idle" => UNCHANGED <<mem, seen>>)
      BY <1>22, <2>1, <2>3 DEF UndoMain
    <3>2. /\ file'["bak"] = file["bak"] /\ quar'["bak"] = quar["bak"]
          /\ Between(file', quar', "main", mem.ev["main"], mem.comp)
          /\ pc' = pc => Under(file', quar', cas', "main", seen["main"], mem.comp)
          /\ pc' = "undo_verify" => Holds(file', quar', "main", mem.comp)
          /\ pc' \in {pc, "undo_verify", "idle"}
      BY <1>2, <2>1, <2>3, <3>1, SwapUnder DEF Files
    <3>3. Holds(file', quar', "bak", mem.comp)
      BY <2>1, <3>2 DEF Holds
    <3>4. Shape(rec', file', quar') /\ file'["main"] # mem.cand
      BY <2>1, <3>1, <3>2, <3>3 DEF Shape, Between, Holds
    <3>5. CASE pc' = "idle"
      <4>1. Exit
        BY <1>22, <2>3, <3>1, <3>5, <2>1 DEF UndoMain, Swap, Claim, PublishClaimed, Goto, Exit
      <4> QED BY <1>1, <2>1, <3>1, <3>4, <4>1, ShapeEnded
    <3>6. CASE pc' # "idle"
      <4>1. pc' = "undo_verify" => \A x \in Files : Holds(file', quar', x, mem.comp)
        BY <3>2, <3>3 DEF Files
      <4> QED BY <2>1, <3>1, <3>2, <3>3, <3>4, <3>6, <4>1 DEF ShapeInv, Settling, Reverts, UndoPCs
    <3> QED BY <3>5, <3>6
  <2> QED BY <2>2, <2>3
<1>23. CASE Recover
  BY <1>1, <1>23 DEF Recover, Goto, durable, ShapeInv, Settling, Reverts, UndoPCs
<1>24. CASE (\E s \in Scenes : JobDone(s)) \/ Rest \/ UNCHANGED vars
  <2>1. UNCHANGED <<file, quar, rec, pc, mem, seen, cas>>
    BY <1>24 DEF JobDone, Rest, vars, durable
  <2> QED BY <1>1, <2>1 DEF ShapeInv
<1>25. \A f \in Files, c \in EditContents : ~Edit(f, c)
  BY DEF Edit
<1> QED
  BY <1>5, <1>6, <1>7, <1>8, <1>9, <1>10, <1>11, <1>12, <1>13, <1>14, <1>15, <1>16, <1>17, <1>18, <1>19,
     <1>20, <1>21, <1>22, <1>23, <1>24, <1>25 DEF Next, Process, Forward, Backward

\* How IssueInv survives a step of a pending plan: what is issued is its candidate or
\* its compensation, and the candidate reaches the backup first.
LEMMA IssueKept ==
  ASSUME IssueInv, rec # None, rec' # None, rec' \in Receipt, Planned(rec'), issued \subseteq Image,
         rec'.cand = rec.cand, rec'.ev = rec.ev, rec.comp = rec'.comp \/ rec.comp = Absent,
         issued' \subseteq issued \cup ({rec'.cand, rec'.comp} \ {Absent}),
         rec'.comp = Absent /\ file'["bak"] # rec'.cand =>
           rec.comp = Absent /\ file["bak"] # rec.cand /\ issued' = issued
  PROVE  IssueInv'
<1>1. /\ rec'.cand \in Image /\ Highest(rec'.ev) \in Nat /\ rec'.cand.gen \in Nat /\ Highest(rec'.ev) < rec'.cand.gen
      /\ rec'.comp # Absent => rec'.comp \in Image /\ rec'.comp.gen = rec'.cand.gen + 1
  BY PlannedImages
<1>2. \A i \in issued : i.gen \in Nat
  BY BoundAssumption DEF Image
<1>3. \A i \in issued' : i.gen <= Highest(rec'.ev) \/ i \in {rec'.cand, rec'.comp} \ {Absent}
  <2>1. \A i \in issued : i # Absent
    BY SentinelAssumption
  <2> QED BY <2>1 DEF IssueInv
<1>4. \A a \in issued', b \in issued' : a.gen = b.gen => a = b
  <2>1. SUFFICES ASSUME NEW a \in issued', NEW b \in issued', a.gen = b.gen PROVE a = b
    OBVIOUS
  <2>2. CASE a \in {rec'.cand, rec'.comp} \ {Absent}
    BY <1>1, <1>3, <2>1, <2>2
  <2>3. CASE b \in {rec'.cand, rec'.comp} \ {Absent}
    BY <1>1, <1>3, <2>1, <2>3
  <2>4. CASE a \in issued /\ b \in issued
    BY <2>1, <2>4 DEF IssueInv
  <2> QED BY <2>1, <2>2, <2>3, <2>4
<1>5. rec'.comp = Absent /\ file'["bak"] # rec'.cand => rec'.cand \notin issued'
  BY DEF IssueInv
<1> QED BY <1>3, <1>4, <1>5 DEF IssueInv

\* What a compare-and-swap publishes, it publishes in its file; and a file that does
\* not hold what it expects it leaves alone.
LEMMA SwapIssues ==
  ASSUME TypeOK, NEW f \in Files, NEW old, NEW new, NEW ok, NEW err, Swap(f, old, new, ok, err),
         Under(file, quar, cas, f, old, new), old # new
  PROVE  /\ issued' = issued \/ (issued' = issued \cup {new} /\ file'[f] = new)
         /\ file[f] = new => file'[f] = new \/ new = Absent
         /\ \A x \in Files : x # f => file'[x] = file[x]
  BY DEF TypeOK, Swap, Claim, PublishClaimed, PutBack, Publish, Retire, Under, Holds, durable

\* What was issued survives every step.
LEMMA NextIssue ==
  StoreInv /\ TypeInv' /\ WholeInv /\ PlanInv' /\ edits = 0 /\ [Next]_vars /\ edits' = 0 => IssueInv'
<1> SUFFICES ASSUME StoreInv, TypeInv', WholeInv, PlanInv', edits = 0, edits' = 0, [Next]_vars PROVE IssueInv'
  OBVIOUS
<1>1. PlanInv /\ ShapeInv /\ IssueInv
  BY DEF WholeInv
<1>2. /\ TypeOK /\ file \in [Files -> Content] /\ quar \in [Files -> Content] /\ issued \subseteq Image
      /\ (pc # "idle" => mem \in Receipt) /\ (rec # None => rec \in Receipt)
      /\ (pc \notin Early => rec # None)
  BY DEF StoreInv, TypeInv, TypeOK, RecordInv, Early
<1>3. pc \notin Early \cup Settling => mem = rec /\ rec # None /\ mem \in Receipt /\ Planned(mem)
  BY <1>1, <1>2 DEF PlanInv
<1>4. rec' # None => rec' \in Receipt /\ Planned(rec')
  BY DEF TypeInv, TypeOK, PlanInv
\* The steps that leave the store and the images of the record alone.
<1>5. ASSUME UNCHANGED <<file, issued>>, rec # None, rec' # None, rec'.cand = rec.cand, rec'.ev = rec.ev,
             rec.comp = rec'.comp \/ rec.comp = Absent
      PROVE  IssueInv'
  <2>1. rec'.comp = Absent => rec.comp = Absent
    BY <1>5
  <2> QED BY <1>1, <1>2, <1>4, <1>5, <2>1, IssueKept
<1>6. CASE UNCHANGED <<file, issued, rec>>
  BY <1>1, <1>6 DEF IssueInv
<1>7. CASE Record
  <2>1. /\ rec = None /\ mem \in Receipt /\ mem # None /\ mem.ev = file /\ Planned(mem)
        /\ UNCHANGED <<file, issued>> /\ rec' \in {rec, mem}
    BY <1>1, <1>2, <1>7, SentinelAssumption DEF PlanInv, Record, WriteRec, durable
  <2>2. CASE rec' = mem
    <3>1. Highest(mem.ev) < mem.cand.gen /\ Highest(mem.ev) \in Nat /\ mem.cand.gen \in Nat
      BY <2>1, PlannedImages
    <3>2. mem.cand \notin issued
      BY <1>1, <2>1, <3>1 DEF IssueInv
    <3> QED BY <1>1, <2>1, <2>2, <3>2 DEF IssueInv
  <2> QED BY <1>6, <2>1, <2>2
<1>8. CASE StepStart \/ WriteCommitting \/ Verify \/ MarkRestored \/ FinishStore
  <2>1. pc \notin Early \cup Settling /\ UNCHANGED <<file, issued>>
    BY <1>8 DEF StepStart, WriteCommitting, Verify, MarkRestored, FinishStore, durable, Early, Settling
  <2>2. mem = rec /\ mem \in Receipt /\ rec # None /\ Planned(mem)
    BY <1>3, <2>1
  <2>3. ASSUME NEW r, r.cand = mem.cand, r.ev = mem.ev, mem.comp = r.comp \/ mem.comp = Absent,
               rec' \in {rec, r}, r # None
        PROVE  IssueInv'
    BY <1>5, <2>1, <2>2, <2>3
  <2>4. CASE rec' = rec
    BY <2>2, <2>3, <2>4
  <2>5. CASE StepStart
    <3> DEFINE r == [mem EXCEPT !.started = @ \cup {First(mem, mem.todo \ mem.started)}]
    <3>1. rec' \in {rec, r}
      BY <2>5 DEF StepStart, WriteRec
    <3>2. r \in Receipt /\ SamePlan(r, mem) /\ r.comp = mem.comp
      <4>1. mem.todo \ mem.started # {} /\ mem.restored = {}
        BY <2>2, <2>5 DEF StepStart, WholeInv, RunInv, Going, Planned
      <4> QED BY <2>2, <4>1, PlannedStart
    <3> HIDE DEF r
    <3> QED BY <2>3, <3>1, <3>2, SentinelAssumption DEF SamePlan
  <2>6. CASE WriteCommitting
    <3> DEFINE r == [mem EXCEPT !.phase = "committing"]
    <3>1. rec' \in {rec, r}
      BY <2>6 DEF WriteCommitting, WriteRec
    <3>2. r # None /\ SamePlan(r, mem) /\ r.comp = mem.comp
      BY <2>2, PlannedPhase DEF Phases
    <3> HIDE DEF r
    <3> QED BY <2>3, <3>1, <3>2 DEF SamePlan
  <2>7. CASE Verify
    <3> DEFINE r == [mem EXCEPT !.phase = "committed"]
    <3>1. rec' \in {rec, r}
      BY <2>7 DEF Verify, WriteRec
    <3>2. r # None /\ SamePlan(r, mem) /\ r.comp = mem.comp
      BY <2>2, PlannedPhase DEF Phases
    <3> HIDE DEF r
    <3> QED BY <2>3, <3>1, <3>2 DEF SamePlan
  <2>8. CASE MarkRestored
    <3> DEFINE r == [mem EXCEPT !.restored = @ \cup {Reverting}]
    <3>1. rec' \in {rec, r}
      BY <2>8 DEF MarkRestored, WriteRec
    <3>2. Left(mem) # {} /\ Reverting = Last(mem, Left(mem))
      BY <2>8 DEF MarkRestored, StoreInv, TypeInv, Left, Unrestored, Reverting
    <3>3. r \in Receipt /\ SamePlan(r, mem) /\ r.comp = mem.comp
      BY <2>2, <3>2, PlannedRestored
    <3> HIDE DEF r
    <3> QED BY <2>3, <3>1, <3>3, SentinelAssumption DEF SamePlan
  <2>9. CASE FinishStore /\ rec' # rec
    <3> DEFINE r == [mem EXCEPT !.comp = [mem.before EXCEPT !.gen = Highest(file) + 1]]
    <3>1. rec' = r /\ file # mem.ev /\ mem.comp = Absent /\ pc = "revert"
      BY <2>9 DEF FinishStore
    <3>2. r \in Receipt /\ SamePlan(r, mem)
      BY <3>1, UndoGeneration, UndoIsWellFormed DEF StoreInv
    <3> HIDE DEF r
    <3> QED BY <2>3, <3>1, <3>2, SentinelAssumption DEF SamePlan
  <2> QED BY <1>8, <2>4, <2>5, <2>6, <2>7, <2>8, <2>9
<1>9. CASE Admit
  <2>1. /\ mem \in Receipt /\ Planned(mem) /\ SamePlan(mem, rec) /\ mem.comp = rec.comp /\ rec # None
        /\ UNCHANGED <<file, issued>>
    BY <1>1, <1>2, <1>9 DEF Admit, Early, Settling, PlanInv, durable
  <2> DEFINE r == [mem EXCEPT !.phase = "compensating"]
  <2>2. r # None /\ SamePlan(r, mem) /\ r.comp = mem.comp
    BY <2>1, PlannedPhase DEF Phases
  <2>3. rec' \in {rec, r}
    BY <1>9 DEF Admit, WriteRec
  <2> HIDE DEF r
  <2> QED BY <1>5, <2>1, <2>2, <2>3 DEF SamePlan
\* The record goes only when the files hold the latest of what was issued.
<1>10. CASE Remove
  <2>1. /\ pc = "remove" /\ mem = rec /\ rec # None /\ mem \in Receipt /\ Planned(mem) /\ Shape(mem, file, quar)
        /\ UNCHANGED <<file, issued>> /\ rec' \in {rec, None}
    BY <1>1, <1>3, <1>10 DEF Remove, RemoveRec, Early, Settling, ShapeInv, durable
  <2>2. /\ mem.cand \in Image /\ mem.cand.gen \in Nat /\ Highest(mem.ev) \in Nat /\ Highest(mem.ev) < mem.cand.gen
        /\ mem.comp # Absent => mem.comp \in Image /\ mem.comp.gen = mem.cand.gen + 1 /\ mem.comp # mem.cand
        /\ \A x \in Files : mem.ev[x] # mem.cand /\ (mem.comp # Absent => mem.ev[x] # mem.comp)
        /\ mem.ev \in [Files -> Content] /\ mem.cand # Absent /\ "bak" \in Files /\ "main" \in Files
    BY <2>1, PlannedImages, SentinelAssumption DEF Files
  <2>3. /\ \A i \in issued : i # Absent /\ i.gen \in Nat
        /\ Highest(file) \in Nat /\ \A x \in Files : file[x] \in Image => file[x].gen <= Highest(file)
    BY <1>2, HighestType, SentinelAssumption, BoundAssumption DEF Image
  <2>4. \A i \in issued : i.gen <= Highest(mem.ev) \/ i \in {mem.cand, mem.comp}
    BY <1>1, <2>1 DEF IssueInv
  <2>5. \A i \in issued : i.gen <= Highest(file)
    <3>1. CASE \A x \in Files : Holds(file, quar, x, mem.cand)
      <4>1. mem.comp = Absent
        BY <2>1, <2>2, <3>1 DEF Shape, Holds, Between
      <4>2. mem.cand.gen <= Highest(file)
        BY <2>2, <2>3, <3>1 DEF Holds
      <4> QED BY <2>2, <2>3, <2>4, <4>1, <4>2
    <3>2. CASE \A x \in Files : Holds(file, quar, x, mem.ev[x])
      <4>1. mem.comp = Absent /\ file["bak"] # mem.cand
        BY <2>1, <2>2, <3>2 DEF Shape, Holds, Between
      <4>2. mem.cand \notin issued
        BY <1>1, <2>1, <4>1 DEF IssueInv
      <4>3. file = mem.ev
        BY <1>2, <2>2, <3>2 DEF Holds
      <4> QED BY <2>3, <2>4, <4>1, <4>2, <4>3
    <3>3. CASE (\A x \in Files : Holds(file, quar, x, mem.comp)) /\ ~(\A x \in Files : Holds(file, quar, x, mem.ev[x]))
      <4>1. mem.comp # Absent
        BY <2>1, <2>2, <3>3 DEF Shape, Holds, Between, Files
      <4>2. mem.comp.gen <= Highest(file) /\ mem.comp.gen \in Nat
        BY <2>2, <2>3, <3>3, <4>1 DEF Holds
      <4> QED BY <2>2, <2>3, <2>4, <4>1, <4>2
    <3> QED BY <1>1, <2>1, <3>1, <3>2, <3>3 DEF ShapeInv
  <2>6. CASE rec' = rec
    BY <1>6, <2>1, <2>6
  <2>7. CASE rec' = None
    BY <1>1, <2>1, <2>5, <2>7 DEF IssueInv
  <2> QED BY <2>1, <2>6, <2>7
<1>11. CASE CommitBackup \/ CommitMain
  <2>1. /\ pc \in {"commit_bak", "commit_main"} /\ mem = rec /\ rec # None /\ mem \in Receipt /\ Planned(mem)
        /\ mem.comp = Absent /\ rec' = rec
    <3>1. pc \in {"commit_bak", "commit_main"} /\ rec' = rec
      BY <1>11 DEF CommitBackup, CommitMain
    <3> QED BY <1>1, <1>3, <3>1 DEF Early, Settling, ShapeInv
  <2>2. \A x \in Files : mem.ev[x] # mem.cand
    BY <2>1, PlannedImages
  <2>3. mem.cand # Absent
    BY <2>1, PlannedImages, SentinelAssumption
  <2>4. CASE CommitBackup
    <3>1. Swap("bak", mem.ev["bak"], mem.cand, "commit_check", "persist_failed")
          /\ Under(file, quar, cas, "bak", mem.ev["bak"], mem.cand)
      BY <1>1, <2>4 DEF CommitBackup, ShapeInv
    <3>2. /\ issued' = issued \/ (issued' = issued \cup {mem.cand} /\ file'["bak"] = mem.cand)
          /\ file["bak"] = mem.cand => file'["bak"] = mem.cand \/ mem.cand = Absent
      BY <1>2, <2>2, <3>1, SwapIssues DEF Files
    <3> QED BY <1>1, <1>2, <1>4, <2>1, <2>3, <3>2, IssueKept
  <2>5. CASE CommitMain
    <3>1. Swap("main", mem.ev["main"], mem.cand, "verify", "persist_failed")
          /\ Under(file, quar, cas, "main", mem.ev["main"], mem.cand) /\ file["bak"] = mem.cand
      BY <1>1, <2>5 DEF CommitMain, ShapeInv, Holds
    <3>2. /\ issued' = issued \/ issued' = issued \cup {mem.cand}
          /\ file'["bak"] = mem.cand
      BY <1>2, <2>2, <3>1, SwapIssues DEF Files
    <3> QED BY <1>1, <1>2, <1>4, <2>1, <2>3, <3>2, IssueKept
  <2> QED BY <1>11, <2>4, <2>5
<1>12. CASE UndoBackup \/ UndoMain
  <2>1. /\ pc \in UndoPCs /\ mem = rec /\ rec # None /\ mem \in Receipt /\ Planned(mem)
        /\ mem.comp # Absent /\ rec' = rec
    <3>1. pc \in {"undo_bak", "undo_main"} /\ rec' = rec
      BY <1>12 DEF UndoBackup, UndoMain
    <3> QED BY <1>1, <1>3, <3>1 DEF Early, Settling, UndoPCs, StoreInv, TypeInv
  <2>2. issued' = issued \/ issued' = issued \cup {mem.comp}
    BY <1>12 DEF UndoBackup, UndoMain, Swap, Claim, PublishClaimed, Publish, durable
  <2> QED BY <1>1, <1>2, <1>4, <2>1, <2>2, IssueKept
<1>13. CASE SettleMain \/ SettleBackup \/ RecoverMain \/ RecoverBackup
  <2>1. /\ pc \notin {"idle", "plan", "record"} /\ rec' = rec /\ issued' = issued
    BY <1>13 DEF SettleMain, SettleBackup, RecoverMain, RecoverBackup
  <2>2. rec # None /\ rec \in Receipt /\ Planned(rec)
    BY <1>1, <1>2, <2>1 DEF Early, PlanInv
  <2>3. file["bak"] = rec.cand => file'["bak"] = rec.cand
    <3>1. rec.cand # Absent
      BY <2>2, PlannedImages, SentinelAssumption
    <3>2. ASSUME NEW f \in Files, NEW l, Settle(f, l)
          PROVE  file["bak"] = rec.cand => file'["bak"] = rec.cand
      BY <1>2, <3>1, <3>2 DEF Settle, Files
    <3> QED BY <1>13, <3>2 DEF SettleMain, SettleBackup, RecoverMain, RecoverBackup, Files
  <2> QED BY <1>1, <1>2, <1>4, <2>1, <2>2, <2>3, IssueKept
<1>14. CASE UNCHANGED <<durable, rec>>
  BY <1>6, <1>14 DEF durable
<1>15. CASE Begin \/ Recover \/ Plan \/ StepRun \/ StepDone \/ StepFail \/ StepUnsettled \/ Precommit \/ Save
            \/ CommitCheck \/ PersistFailed \/ Finalize \/ RevertStart \/ RevertDone \/ RevertFail
            \/ UndoAdmit \/ UndoVerify \/ Decide \/ Crash
  BY <1>14, <1>15 DEF Begin, Recover, Plan, StepRun, StepDone, StepFail, StepUnsettled, Precommit, Save,
     CommitCheck, PersistFailed, Finalize, RevertStart, RevertDone, RevertFail, UndoAdmit, UndoVerify, Decide, Crash
<1>16. CASE (\E s \in Scenes : JobDone(s)) \/ Rest \/ UNCHANGED vars
  BY <1>14, <1>16 DEF JobDone, Rest, vars
<1>17. \A f \in Files, c \in EditContents : ~Edit(f, c)
  BY DEF Edit
<1> QED
  BY <1>7, <1>8, <1>9, <1>10, <1>11, <1>12, <1>13, <1>15, <1>16, <1>17 DEF Next, Process, Forward, Backward

-----------------------------------------------------------------------------
(* The theorems about single states.                                       *)

\* Edits are only ever counted up.
LEMMA EditsGrow ==
  ASSUME TypeInv, [Next]_vars, edits' = 0
  PROVE  edits = 0
<1>1. edits \in Nat
  BY BoundAssumption DEF TypeInv, TypeOK
<1>2. CASE \E f \in Files, c \in EditContents : Edit(f, c)
  BY <1>1, <1>2 DEF Edit
<1>3. CASE Forward
  BY <1>3 DEF Forward, Plan, Record, StepStart, StepRun, StepDone, StepFail, StepUnsettled, WriteCommitting, Precommit,
     Save, CommitBackup, CommitCheck, CommitMain, PersistFailed, Verify, Finalize, Remove, budget
<1>4. CASE Backward
  BY <1>4 DEF Backward, SettleMain, SettleBackup, Admit, RevertStart, RevertDone, RevertFail, MarkRestored, FinishStore,
     UndoBackup, UndoAdmit, UndoMain, UndoVerify, RecoverMain, RecoverBackup, Decide, budget
<1>5. CASE Begin \/ Recover \/ Crash \/ Rest \/ (\E s \in Scenes : JobDone(s)) \/ UNCHANGED vars
  BY <1>5 DEF Begin, Recover, Crash, Rest, JobDone, vars, budget
<1> QED BY <1>2, <1>3, <1>4, <1>5 DEF Next, Process

\* Every step keeps the four parts of the invariant.
LEMMA NextWhole ==
  StoreInv /\ StoreInv' /\ JobInv /\ WholeInv /\ [Next]_vars => WholeInv'
<1> SUFFICES ASSUME StoreInv, StoreInv', JobInv, WholeInv, [Next]_vars, edits' = 0
             PROVE  PlanInv' /\ RunInv' /\ ShapeInv' /\ IssueInv'
  BY DEF WholeInv
<1>1. TypeInv /\ TypeInv' /\ edits = 0
  BY EditsGrow DEF StoreInv
<1>2. PlanInv'
  BY <1>1, NextPlan
<1> QED BY <1>1, <1>2, NextRun, NextShape, NextIssue

\* The four parts of the invariant hold in every state reached without edits of the store
\* files, whatever crashes and fails: the record says where the runtime and the store
\* files are, and where the process is says which record it has.
THEOREM WholeInvariant == Spec => []WholeInv
  BY InitWhole, NextWhole, StoreInvariant, JobInvariant, PTL DEF Spec

\* In every reachable state a scene that is attached has its inbounds in the core that
\* runs, and while the core is half changed only scenes on both sides of the change are
\* attached.  (The order of runtimeMutationPlan and of its compensation.)
THEOREM RoutesLeadToInbounds == Spec => []AttachedIsServed
  BY WholeIsServed, TypeInvariant, WholeInvariant, PTL

\* A record is removed only when everything it was about is whole again: the store loads,
\* the core and the routes are what it asks for, no claim and no restart is left.
THEOREM NoRecordMeansConsistent == Spec => []NoRecordIsConsistent
  BY WholeIsConsistent, TypeInvariant, WholeInvariant, PTL

\* No generation is given to two images: a compensation never reuses the generation of
\* the candidate it undoes, nor a later command that of an interrupted one.
THEOREM GenerationsNameOneStore == Spec => []GenerationsAreUnique
  BY WholeIsUnique, WholeInvariant, PTL

\* A compensation that has to rewrite the store has a generation left for it and a record
\* that writeRuntimeTransition accepts.  (The generations planRuntimeMutation reserves.)
THEOREM CompensationIsAlwaysPossible == Spec => []CompensationIsPossible
  BY WholeIsPossible, TypeInvariant, WholeInvariant, PTL

-----------------------------------------------------------------------------
(* The transaction is an atomic change.                                    *)

\* What a step does to the record, the runtime and the store files: it opens or closes a
\* plan, or moves the runtime, the files or the record of the pending plan, one of the
\* three at a time.
LEMMA StepEffect ==
  ASSUME StoreInv, TypeInv', WholeInv, edits = 0, edits' = 0, [Next]_vars
  PROVE  \/ UNCHANGED <<rec, file>> /\ (rec = None => UNCHANGED world)
         \/ UNCHANGED <<rec, world>> /\ rec # None
         \/ /\ UNCHANGED <<file, world>> /\ rec # None /\ rec' # None
            /\ rec'.before = rec.before /\ rec'.cand = rec.cand
         \/ pc = "record" /\ rec = None /\ rec' = mem /\ UNCHANGED <<file, world>>
         \/ pc = "remove" /\ rec # None /\ rec' = None /\ UNCHANGED <<file, world>>
<1> DEFINE Effect == \/ UNCHANGED <<rec, file>> /\ (rec = None => UNCHANGED world)
                     \/ UNCHANGED <<rec, world>> /\ rec # None
                     \/ /\ UNCHANGED <<file, world>> /\ rec # None /\ rec' # None
                        /\ rec'.before = rec.before /\ rec'.cand = rec.cand
                     \/ pc = "record" /\ rec = None /\ rec' = mem /\ UNCHANGED <<file, world>>
                     \/ pc = "remove" /\ rec # None /\ rec' = None /\ UNCHANGED <<file, world>>
<1>1. /\ (pc # "idle" => mem \in Receipt) /\ (rec # None => rec \in Receipt) /\ (pc \notin Early => rec # None)
      /\ (pc \notin Early => mem.before = rec.before /\ mem.cand = rec.cand)
      /\ (rec = None => jobs = {}) /\ None \notin Receipt /\ TypeInv
  BY SentinelAssumption DEF StoreInv, TypeInv, TypeOK, RecordInv, Early, WholeInv, PlanInv, RunInv, SamePlan, Settling
<1>2. CASE Begin \/ Plan \/ Recover \/ Crash \/ Rest \/ UNCHANGED vars
  BY <1>2 DEF Begin, Plan, Recover, Crash, Rest, vars, durable, runtime, world
<1>3. CASE Precommit \/ Save \/ CommitCheck \/ PersistFailed \/ Finalize \/ UndoAdmit \/ UndoVerify \/ Decide
  BY <1>3 DEF Precommit, Save, CommitCheck, PersistFailed, Finalize, UndoAdmit, UndoVerify, Decide, durable, runtime, world
<1>4. CASE StepRun \/ StepDone \/ StepFail \/ StepUnsettled
  BY <1>1, <1>4 DEF StepRun, StepDone, StepFail, StepUnsettled, durable, runtime, world, Early
<1>5. CASE RevertStart \/ RevertDone \/ RevertFail
  BY <1>1, <1>5 DEF RevertStart, RevertDone, RevertFail, durable, runtime, world, Early
<1>6. CASE CommitBackup \/ CommitMain \/ UndoBackup \/ UndoMain
  BY <1>1, <1>6 DEF CommitBackup, CommitMain, UndoBackup, UndoMain, Early, runtime, world
<1>7. CASE SettleMain \/ SettleBackup \/ RecoverMain \/ RecoverBackup
  BY <1>1, <1>7 DEF SettleMain, SettleBackup, RecoverMain, RecoverBackup, Early, runtime, world
<1>8. CASE \E s \in Scenes : JobDone(s)
  BY <1>1, <1>8 DEF JobDone, durable, runtime, world
<1>9. CASE Record
  <2>1. pc = "record" /\ rec = None /\ UNCHANGED <<file, world>> /\ rec' \in {rec, mem}
    BY <1>9 DEF Record, WriteRec, durable, runtime, world, WholeInv, PlanInv
  <2>2. CASE rec' = rec
    BY <2>1, <2>2 DEF world
  <2>3. CASE rec' = mem
    BY <2>1, <2>3
  <2> QED BY <2>1, <2>2, <2>3
<1>10. CASE Remove
  BY <1>1, <1>10 DEF Remove, RemoveRec, durable, runtime, world, Early
\* The steps that rewrite the record keep its images.
<1>11. ASSUME NEW r \in Receipt, pc \notin Early, UNCHANGED <<file, world>>, rec' \in {rec, r},
              r.before = mem.before, r.cand = mem.cand
       PROVE  Effect
  BY <1>1, <1>11
<1>12. CASE StepStart
  <2> DEFINE r == [mem EXCEPT !.started = @ \cup {First(mem, mem.todo \ mem.started)}]
  <2>1. rec' \in {rec, r} /\ pc \notin Early /\ UNCHANGED <<file, world>>
    BY <1>12 DEF StepStart, WriteRec, durable, runtime, world, Early
  <2>2. r.before = mem.before /\ r.cand = mem.cand /\ mem = rec /\ Planned(mem)
    BY <1>1, <2>1, <1>12 DEF StepStart, Receipt, WholeInv, PlanInv, Early, Settling
  <2>3. r \in Receipt
    <3>1. mem.todo \ mem.started # {} /\ mem.restored = {}
      BY <1>12, <2>2 DEF StepStart, WholeInv, RunInv, Going, Planned
    <3> QED BY <1>1, <2>1, <2>2, <3>1, PlannedStart DEF Early
  <2> HIDE DEF r
  <2> QED BY <1>11, <2>1, <2>2, <2>3
<1>13. CASE WriteCommitting \/ Verify \/ Admit
  <2>1. PICK p \in Phases : rec' \in {rec, [mem EXCEPT !.phase = p]}
    BY <1>13 DEF WriteCommitting, Verify, Admit, WriteRec, Phases
  <2> DEFINE r == [mem EXCEPT !.phase = p]
  <2>2. pc \notin Early /\ UNCHANGED <<file, world>>
    BY <1>13 DEF WriteCommitting, Verify, Admit, durable, runtime, world, Early
  <2>3. r \in Receipt /\ r.before = mem.before /\ r.cand = mem.cand
    BY <1>1, <2>2 DEF Receipt, Early
  <2> HIDE DEF r
  <2> QED BY <1>11, <2>1, <2>2, <2>3 DEF r
<1>14. CASE MarkRestored
  <2> DEFINE r == [mem EXCEPT !.restored = @ \cup {Reverting}]
  <2>1. rec' \in {rec, r} /\ pc \notin Early /\ UNCHANGED <<file, world>> /\ pc = "restored"
    BY <1>14 DEF MarkRestored, WriteRec, durable, runtime, world, Early
  <2>2. Reverting \in Parts /\ mem \in Receipt
    <3>1. mem \in Receipt /\ Unrestored # {}
      BY <1>1, <2>1 DEF TypeInv, Early
    <3>2. Unrestored \subseteq Parts
      BY <3>1 DEF Receipt, Unrestored
    <3> QED BY <3>1, <3>2, LastType DEF Reverting
  <2>3. r \in Receipt /\ r.before = mem.before /\ r.cand = mem.cand
    BY <2>2 DEF Receipt
  <2> HIDE DEF r
  <2> QED BY <1>11, <2>1, <2>3
<1>15. CASE FinishStore
  <2> DEFINE r == [mem EXCEPT !.comp = [mem.before EXCEPT !.gen = Highest(file) + 1]]
  <2>1. pc = "revert" /\ pc \notin Early /\ UNCHANGED <<file, world>>
        /\ (rec' # rec => rec' = r /\ file # mem.ev /\ mem.comp = Absent)
    BY <1>15 DEF FinishStore, durable, runtime, world, Early
  <2>2. CASE rec' = rec
    BY <2>1, <2>2, <1>1
  <2>3. CASE rec' # rec
    <3>1. r \in Receipt /\ SamePlan(r, mem)
      BY <1>1, <2>1, <2>3, UndoGeneration, UndoIsWellFormed
    <3> HIDE DEF r
    <3> QED BY <1>11, <2>1, <2>3, <3>1 DEF SamePlan
  <2> QED BY <2>2, <2>3
<1>16. \A f \in Files, c \in EditContents : ~Edit(f, c)
  BY DEF Edit
<1> QED
  BY <1>2, <1>3, <1>4, <1>5, <1>6, <1>7, <1>8, <1>9, <1>10, <1>12, <1>13, <1>14, <1>15, <1>16
  DEF Next, Process, Forward, Backward

\* Where a record is removed the store files hold what the system serves.
LEMMA RemovedIsSaved ==
  ASSUME TypeInv, WholeInv, edits = 0, pc = "remove", rec # None
  PROVE  Asks(Load(file)) = Saved
<1>1. mem = rec /\ rec \in Receipt /\ Planned(rec) /\ Shape(rec, file, quar)
  BY DEF TypeInv, TypeOK, WholeInv, PlanInv, ShapeInv, Early, Settling
<1>2. /\ rec.before \in Image /\ rec.cand \in Image /\ "main" \in Files /\ rec.cand # Absent
      /\ rec.comp # Absent => /\ rec.comp \in Image /\ rec.comp # rec.cand
                              /\ Asks(rec.comp) = Asks(rec.before)
      /\ rec.ev["main"] # rec.cand
  BY <1>1, PlannedImages, SentinelAssumption DEF Files
<1>3. CASE \A x \in Files : Holds(file, quar, x, rec.cand)
  BY <1>2, <1>3 DEF Holds, Load, Saved
<1>4. CASE \A x \in Files : Holds(file, quar, x, rec.ev[x])
  <2>1. file["main"] = rec.ev["main"] /\ file["bak"] = rec.ev["bak"]
    BY <1>4 DEF Holds, Files
  <2>2. Load(file) = rec.before
    BY <1>1, <2>1 DEF Load, Planned
  <2> QED BY <1>2, <2>1, <2>2 DEF Saved
<1>5. CASE (\A x \in Files : Holds(file, quar, x, rec.comp)) /\ ~(\A x \in Files : Holds(file, quar, x, rec.ev[x]))
  <2>1. file["main"] = rec.comp /\ file["bak"] = rec.comp
    BY <1>5 DEF Holds, Files
  <2>2. rec.comp # Absent
    BY <1>1, <1>2, <1>5, <2>1 DEF Shape, Holds, Between, Files
  <2>3. Load(file) = rec.comp
    BY <1>2, <2>1, <2>2 DEF Load
  <2> QED BY <1>2, <2>1, <2>2, <2>3 DEF Saved
<1> QED BY <1>1, <1>3, <1>4, <1>5 DEF WholeInv, ShapeInv

\* What an image asks for is a world.
LEMMA AsksType ==
  ASSUME NEW img \in Image
  PROVE  Asks(img) \in World
  BY ServeType, SideType DEF Asks, World

\* Without a record the system serves what is saved.
LEMMA RestIsServing ==
  TypeInv /\ WholeInv /\ edits = 0 /\ rec = None => Serving = Asks(Load(file)) /\ Serving \in World
<1> SUFFICES ASSUME TypeInv, WholeInv, edits = 0, rec = None
             PROVE  Serving = Asks(Load(file)) /\ Serving \in World
  OBVIOUS
<1>1. Load(file) \in Image
  BY LoadType DEF TypeInv, TypeOK
<1>2. jobs = {} /\ core = Serve(Load(file)) /\ \A s \in Scenes : route[s] = Side(Load(file), s)
  BY DEF WholeInv, RunInv
<1>3. core # Broken /\ Asks(Load(file)) \in World
  BY <1>1, <1>2, ServeOn, AsksType
<1>4. route = [s \in Scenes |-> Side(Load(file), s)]
  BY <1>2 DEF TypeInv, TypeOK
<1> QED BY <1>2, <1>3, <1>4 DEF Serving, Asks

\* The initial states are initial states of the abstract change.
LEMMA InitAbstract == Init => Abstract!Init
<1> SUFFICES ASSUME Init PROVE Abstract!Init
  OBVIOUS
<1>1. TypeInv /\ WholeInv /\ edits = 0 /\ rec = None
  BY InitType, InitWhole DEF Init
<1>2. Serving = Asks(Load(file)) /\ Serving \in World
  BY <1>1, RestIsServing
<1> QED BY <1>1, <1>2 DEF Abstract!Init, Saved, OpenChange

\* Every step is a step of the abstract change, or none: writing the record opens it,
\* publishing the candidate in main commits it, removing the record closes it, and
\* everything else rearranges what is served or nothing at all.
LEMMA StepIsAbstract ==
  ASSUME StoreInv, StoreInv', WholeInv, WholeInv', edits = 0, edits' = 0, [Next]_vars
  PROVE  [Abstract!Next]_(Abstract!vars)
<1>1. /\ TypeInv /\ TypeInv' /\ (rec # None => rec \in Receipt) /\ (rec' # None => rec' \in Receipt)
      /\ None \notin Receipt /\ (pc # "idle" => mem \in Receipt)
  BY SentinelAssumption DEF StoreInv, TypeInv, TypeOK
<1>2. Serving' \in World \cup {Broken}
  BY <1>1 DEF Serving, World, TypeInv, TypeOK
<1>3. UNCHANGED world => Serving' = Serving
  BY DEF world, Serving
<1>4. /\ rec # None => OpenChange # None /\ OpenChange.done = (file["main"] = rec.cand)
                       /\ OpenChange.new = Asks(rec.cand)
      /\ rec = None => OpenChange = None
  <2>1. rec # None => Asks(rec.cand) \in World
    BY <1>1, AsksType DEF Receipt
  <2>2. CASE rec = None
    BY <2>2 DEF OpenChange
  <2>3. CASE rec # None
    <3> DEFINE v == Asks(rec.cand)
               d == file["main"] = rec.cand
    <3>1. OpenChange = [new |-> v, done |-> d]
      BY <2>3 DEF OpenChange
    <3>2. v \in World /\ d \in BOOLEAN
      BY <2>1, <2>3
    <3> HIDE DEF v, d
    <3>3. OpenChange # None /\ OpenChange.done = d /\ OpenChange.new = v
      BY <3>1, <3>2, ClosedAssumption
    <3> QED BY <2>3, <3>3 DEF v, d
  <2> QED BY <2>2, <2>3
\* The record and the store file that decides are what they were.
<1>5. CASE /\ rec # None => /\ rec' # None /\ rec'.before = rec.before /\ rec'.cand = rec.cand
                            /\ (file'["main"] = rec.cand <=> file["main"] = rec.cand)
           /\ rec = None => rec' = None /\ UNCHANGED <<file, world>>
  <2>1. Saved' = Saved /\ OpenChange' = OpenChange
    <3>1. CASE rec = None
      BY <1>5, <3>1 DEF Saved, OpenChange
    <3>2. CASE rec # None
      BY <1>5, <3>2 DEF Saved, OpenChange
    <3> QED BY <3>1, <3>2
  <2>2. rec = None => UNCHANGED (Abstract!vars)
    BY <1>3, <1>5, <2>1 DEF Abstract!vars
  <2>3. rec # None => Abstract!Rearrange
    BY <1>2, <1>4, <2>1 DEF Abstract!Rearrange
  <2> QED BY <2>2, <2>3 DEF Abstract!Next
\* The store files move: the candidate reaches main, or nothing that is saved changes.
<1>6. CASE UNCHANGED <<rec, world>> /\ rec # None
  <2>1. file["main"] = rec.cand => file'["main"] = rec.cand
    BY <1>6, CommitStays
  <2>2. CASE file["main"] = rec.cand \/ file'["main"] # rec.cand
    BY <1>5, <1>6, <2>1, <2>2
  <2>3. CASE file["main"] # rec.cand /\ file'["main"] = rec.cand
    <3>1. Serving' = Serving /\ Saved' = Asks(rec.cand)
      BY <1>3, <1>6, <2>3 DEF Saved
    <3>2. OpenChange = [new |-> Asks(rec.cand), done |-> FALSE]
          /\ OpenChange' = [new |-> Asks(rec.cand), done |-> TRUE]
      BY <1>6, <2>3 DEF OpenChange
    <3>3. OpenChange # None /\ ~OpenChange.done /\ OpenChange.new = Asks(rec.cand)
      BY <1>4, <1>6, <2>3
    <3>4. OpenChange' = [OpenChange EXCEPT !.done = TRUE]
      <4>1. ASSUME NEW v, NEW c, c = [new |-> v, done |-> FALSE]
            PROVE  [c EXCEPT !.done = TRUE] = [new |-> v, done |-> TRUE]
        <5> DEFINE x == [c EXCEPT !.done = TRUE]
        <5>1. x \in [new : {v}, done : BOOLEAN] /\ x.new = v /\ x.done = TRUE
          BY ONLY <4>1
        <5> HIDE DEF x
        <5>2. x = [new |-> v, done |-> TRUE]
          BY ONLY <5>1
        <5> QED BY <5>2 DEF x
      <4> QED BY ONLY <3>2, <4>1
    <3>5. Abstract!Commit
      BY <3>1, <3>3, <3>4 DEF Abstract!Commit
    <3> QED BY <3>5 DEF Abstract!Next
  <2> QED BY <2>2, <2>3
\* The record is written: what is saved and served is what it starts from.
<1>7. CASE pc = "record" /\ rec = None /\ rec' = mem /\ UNCHANGED <<file, world>>
  <2>1. mem \in Receipt /\ Planned(mem) /\ mem.ev = file /\ mem.before = Load(file)
    BY <1>1, <1>7 DEF WholeInv, PlanInv
  <2>2. file["main"] # mem.cand
    BY <2>1, PlannedImages DEF Files
  <2>3. Saved' = Saved /\ Serving' = Serving /\ rec' # None
    BY <1>1, <1>3, <1>7, <2>1, <2>2 DEF Saved
  <2>4. OpenChange' = [new |-> Asks(mem.cand), done |-> FALSE] /\ OpenChange = None
    BY <1>7, <2>2, <2>3 DEF OpenChange
  <2>5. Asks(mem.cand) \in World
    BY <2>1, AsksType DEF Receipt
  <2>6. Abstract!Open
    BY <2>3, <2>4, <2>5 DEF Abstract!Open
  <2> QED BY <2>6 DEF Abstract!Next
\* The record is removed: what is saved is served.
<1>8. CASE pc = "remove" /\ rec # None /\ rec' = None /\ UNCHANGED <<file, world>>
  <2>1. Serving' = Serving /\ Serving' = Asks(Load(file'))
    <3>1. (TypeInv /\ WholeInv /\ edits = 0 /\ rec = None => Serving = Asks(Load(file)))'
      BY RestIsServing, PTL
    <3> QED BY <1>1, <1>3, <1>8, <3>1
  <2>2. Saved = Asks(Load(file)) /\ Saved' = Asks(Load(file'))
    BY <1>1, <1>8, RemovedIsSaved DEF Saved
  <2>3. Abstract!Close
    BY <1>4, <1>8, <2>1, <2>2 DEF Abstract!Close, OpenChange
  <2> QED BY <2>3 DEF Abstract!Next
<1>9. CASE UNCHANGED <<rec, file>> /\ (rec = None => UNCHANGED world)
  BY <1>5, <1>9
<1>10. CASE /\ UNCHANGED <<file, world>> /\ rec # None /\ rec' # None
            /\ rec'.before = rec.before /\ rec'.cand = rec.cand
  BY <1>5, <1>10
<1> QED BY <1>1, <1>6, <1>7, <1>8, <1>9, <1>10, StepEffect

\* Without edits of the store files the transaction implements the all-or-nothing change
\* of AtomicChange, whatever crashes and fails: the saved value takes one step from the
\* old store to the candidate or none, and the change closes only when the system serves
\* exactly what is saved.
THEOREM ChangesAreAtomic == MaxEdits = 0 => (Spec => AbstractSpec)
<1> SUFFICES ASSUME MaxEdits = 0 PROVE Spec => AbstractSpec
  OBVIOUS
<1>1. TypeInv => edits = 0
  BY DEF TypeInv, TypeOK
<1>2. StoreInv /\ StoreInv' /\ WholeInv /\ WholeInv' /\ [Next]_vars => [Abstract!Next]_(Abstract!vars)
  <2>1. ASSUME StoreInv, StoreInv', WholeInv, WholeInv', [Next]_vars
        PROVE  [Abstract!Next]_(Abstract!vars)
    <3>1. edits = 0 /\ edits' = 0
      BY <1>1, <2>1 DEF StoreInv, TypeInv, TypeOK
    <3> QED BY <2>1, <3>1, StepIsAbstract
  <2> QED BY <2>1
<1> QED BY <1>2, InitAbstract, StoreInvariant, WholeInvariant, PTL DEF Spec, AbstractSpec, Abstract!Spec
=============================================================================
