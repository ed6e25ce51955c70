-------------------------- MODULE HermesSceneProofs --------------------------
(***************************************************************************)
(* The Hermes scene, for any number of targets, drop-ins, commands, kills, *)
(* failures and edits (HermesScene).                                       *)
(*                                                                         *)
(* The argument has four layers, each preserved by every step given the    *)
(* ones before it.  TypeInv: which memory and record there are at which    *)
(* place.  JournalInv: at each place of a loop, which entries are as they  *)
(* were, which have been announced and which are done.  JobInv: a restart  *)
(* that is outstanding is the one the process waits for, or it was left    *)
(* behind under an error that keeps the record.  Base and Ahead: an entry  *)
(* that says nothing is under way is true of the file, of what is loaded   *)
(* and of the process; and before an entry becomes active or goes, what it *)
(* will say has been brought about.                                        *)
(***************************************************************************)
EXTENDS HermesScene, RestartBudget, WellFoundedInduction, TLAPS

PCs == {"idle", "validate", "prepare", "write", "reload", "check", "wait", "commit", "forget",
        "release", "remove", "putback", "reloadback", "applied", "failed", "undo", "rewrite",
        "settle", "undone"}

\* Places at which a loop is at a target.
AtTarget == PCs \ {"idle", "validate", "applied", "failed", "undone"}

Errors == {"none", "failed", "unsettled"}
Memory == [mode : {None, "apply", "release", "undo"}, todo : SUBSET Targets, act : SUBSET Targets,
           seen : Files, removed : Files, err : Errors]

\* An entry that is active has nothing under way, one that is prepared has.
Sound(e) == e # None => /\ e.phase = "active" => e.pending = None
                        /\ e.phase = "prepared" => e.pending \in Contents

ModeOf ==
  /\ pc = "idle" => mem = Fresh
  /\ pc = "validate" => mem = [Fresh EXCEPT !.mode = "apply"]
  /\ pc \in {"prepare", "write"} => mem.mode = "apply"
  /\ pc \in {"release", "remove", "putback", "reloadback"} => mem.mode = "release"
  /\ pc \in {"undo", "rewrite", "settle", "undone"} => mem.mode = "undo"
  /\ pc \in {"applied", "failed"} => mem.mode \in {"apply", "release"}
  /\ pc = "commit" => mem.mode \in {"apply", "undo"}
  /\ pc = "forget" => mem.mode \in {"release", "undo"}
  /\ pc \in {"reload", "check", "wait"} => mem.mode \in {"apply", "release", "undo"}

\* The record of a command: what it is about, and how it was.
RecordInv == rec # None =>
  /\ rec.cand \in Settings /\ Scope \subseteq Targets /\ Scope # {} /\ Selected \subseteq Scope
  /\ rec.image \in [Scope -> Images]
  /\ \A t \in Scope : LET b == rec.image[t].before IN b # None => Sound(b) /\ b.phase = "active"

DataInv ==
  /\ TypeOK
  /\ left \in [{"commands", "kills", "faults", "edits"} -> Nat]
  /\ \A t \in Targets : Sound(jr[t])
  /\ RecordInv

PlaceInv ==
  /\ pc \in PCs /\ mem \in Memory /\ ModeOf
  /\ pc # "idle" => rec # None
  /\ pc \in AtTarget => mem.todo # {} /\ mem.todo \subseteq Scope
  /\ pc \in AtTarget /\ mem.mode = "apply" => mem.todo \subseteq Selected
  /\ pc \in {"prepare", "write"} => mem.act \subseteq Selected
  /\ pc \in AtTarget /\ mem.mode = "release" => mem.todo \subseteq Dropped
  /\ pc \in {"write", "rewrite"} => mem.seen \in Contents \cup {None}

TypeInv == DataInv /\ PlaceInv

\* What the journal says in a setting.
Clean(s, t) == IF t \in s.sel THEN Active(s.proxy) ELSE None

\* The targets that are still to be prepared, or prepared and not committed.
Open == IF pc \in {"prepare", "write"} THEN mem.todo \cup mem.act ELSE mem.todo

Announced(t) ==
  LET b == rec.image[t].before IN
    IF b # None THEN jr[t] = Entry("prepared", b.managed, b.managed)
    ELSE jr[t] # None /\ jr[t].phase = "restoring"

Reconciling == {"reload", "check", "wait", "commit", "forget"}

JournalInv ==
  /\ rec = None => \A t \in Targets : jr[t] = Clean(store, t)
  /\ rec # None => /\ \A t \in Scope : rec.image[t].before = Clean(store, t)
                   /\ \A t \in Targets \ Scope : jr[t] = None /\ Clean(store, t) = None
  /\ pc = "prepare" => \A t \in mem.todo : jr[t] = rec.image[t].before
  /\ pc = "write" => \A t \in mem.todo \ {Cur} : jr[t] = rec.image[t].before
  /\ mem.mode = "apply" /\ pc \in {"prepare", "write"} \cup Reconciling =>
       \A t \in IF pc \in {"prepare", "write"} THEN mem.act ELSE mem.todo :
         jr[t] # None /\ jr[t].phase = "prepared" /\ jr[t].pending = rec.cand.proxy
  /\ pc = "write" => /\ jr[Cur] # None /\ jr[Cur].phase = "prepared"
                     /\ jr[Cur].pending = rec.cand.proxy
  /\ mem.mode = "apply" /\ mem.err = "none" /\ pc # "validate" =>
       \A t \in Selected \ Open : jr[t] = Active(rec.cand.proxy)
  /\ mem.mode = "apply" => \A t \in Dropped : jr[t] = rec.image[t].before
  /\ mem.mode = "release" =>
       /\ mem.err = "none" => /\ \A t \in Selected : jr[t] = Active(rec.cand.proxy)
                              /\ \A t \in Dropped \ mem.todo : jr[t] = None
       /\ pc \in AtTarget => \A t \in mem.todo \ {Cur} : jr[t] = rec.image[t].before
       /\ pc = "release" => jr[Cur] = rec.image[Cur].before
       /\ pc \in {"remove", "putback", "reloadback"} \cup Reconciling =>
            jr[Cur] # None /\ jr[Cur].phase = "restoring"
  /\ mem.mode = "undo" =>
       /\ mem.err = "none" => \A t \in Scope \ mem.todo : jr[t] = rec.image[t].before
       /\ pc \in {"rewrite", "settle"} \cup Reconciling => Announced(Cur)
       /\ pc \in {"commit", "settle"} => rec.image[Cur].before # None
       /\ pc = "forget" => rec.image[Cur].before = None
  /\ pc = "applied" => mem.todo = {}
  /\ mem.mode = "undo" /\ pc = "undone" => mem.todo = {}

JobInv ==
  /\ rec = None => \A t \in Targets : ~svc[t].job
  /\ rec # None => \A t \in Targets \ Scope : ~svc[t].job
  /\ pc \in {"validate", "prepare", "write"} => \A t \in Targets : ~svc[t].job
  /\ mem.mode = "undo" => \A t \in Targets : svc[t].job => pc = "wait" /\ t = Cur
  /\ mem.mode \in {"apply", "release"} =>
       \A t \in Targets : svc[t].job => \/ pc = "wait" /\ t = Cur
                                        \/ mem.err = "unsettled" /\ t \notin mem.todo

Own(t) == IF jr[t] = None THEN None ELSE jr[t].managed

\* The file is what the journal says, and what runs has been started with it.
Served(t) == /\ drop[t] = Own(t) /\ loaded[t] = Own(t)
             /\ svc[t].running /\ ~svc[t].job => svc[t].env = Own(t)

\* Of a target whose files nobody has changed: its entry is true.
Base ==
  \A t \in Targets \ touched :
    /\ Valid(t)
    /\ rec # None /\ t \in Scope => ~rec.image[t].skip
    /\ jr[t] = None \/ jr[t].phase = "active" => Served(t)

\* And what will make the entry true that the process is about to write.
Ahead ==
  \A t \in Targets \ touched :
    /\ pc \in {"check", "wait", "commit", "forget"} => loaded[t] = drop[t]
    /\ pc \in {"wait", "commit", "forget"} /\ t = Cur =>
         (svc[t].running /\ ~svc[t].job => svc[t].env = loaded[t])
    /\ pc = "remove" /\ t = Cur => drop[t] = jr[t].managed
    /\ pc \in Reconciling /\ t = Cur =>
         (mem.mode = "release" \/ (mem.mode = "undo" /\ rec.image[t].before = None)
            => drop[t] = None)
    /\ pc # "settle" \/ t # Cur

-----------------------------------------------------------------------------
(* The loops over targets.                                                 *)

Below == {ss \in Nat \X Nat : ss[1] < ss[2]}

\* The order of the naturals as the library's theorem wants it.
LEMMA BelowIsWellFounded == IsWellFoundedOn(Below, Nat)
<1>1. Below = OpToRel(<, Nat)
  BY DEF Below, OpToRel
<1> QED BY <1>1, NatLessThanWellFounded, Zenon

\* A set of naturals that is not empty has a least element.
LEMMA LeastExists ==
  ASSUME NEW S \in SUBSET Nat, S # {}
  PROVE  \E x \in S : \A y \in S : x <= y
<1>1. PICK x \in S : \A y \in S : ~(<<y, x>> \in Below)
  BY BelowIsWellFounded, WFMin, Zenon
<1>2. \A a, b \in Nat : a < b => <<a, b>> \in Below
  BY DEF Below
<1>3. \A y \in S : y \in Nat /\ x \in Nat /\ ~(y < x)
  BY <1>1, <1>2
<1> QED BY <1>3

\* A loop that has not ended has a next target.
LEMMA NextTargetExists ==
  ASSUME NEW S \in SUBSET Targets, S # {}
  PROVE  Min(S) \in S /\ Max(S) \in S
<1> USE HermesAssumption DEF Targets
<1>1. \E x \in S : \A y \in S : x <= y
  BY LeastExists
<1>2. Min(S) \in S
  BY <1>1 DEF Min
<1> DEFINE U == {NT - x : x \in S}
<1>3. PICK u \in U : \A v \in U : u <= v
  <2>1. U \in SUBSET Nat
    OBVIOUS
  <2>2. PICK s : s \in S
    OBVIOUS
  <2>3. NT - s \in U
    BY <2>2
  <2> QED BY <2>1, <2>3, LeastExists
<1>4. PICK x \in S : u = NT - x
  OBVIOUS
<1>5. \A y \in S : x >= y
  <2> SUFFICES ASSUME NEW y \in S PROVE x >= y
    OBVIOUS
  <2>1. NT - y \in U
    OBVIOUS
  <2>2. u <= NT - y
    BY <1>3, <2>1
  <2>3. x \in 1..NT /\ y \in 1..NT
    OBVIOUS
  <2> QED BY <1>4, <2>2, <2>3
<1>6. Max(S) \in S
  BY <1>5 DEF Max
<1> QED BY <1>2, <1>6

\* A loop that is at a target is at one it still has to do, in the scope of its record.
LEMMA CurIsTarget == TypeInv /\ pc \in AtTarget => Cur \in mem.todo /\ Cur \in Targets /\ Cur \in Scope
<1> SUFFICES ASSUME TypeInv, pc \in AtTarget PROVE Cur \in mem.todo /\ Cur \in Targets /\ Cur \in Scope
  OBVIOUS
<1>1. mem.todo \in SUBSET Targets /\ mem.todo # {} /\ mem.todo \subseteq Scope
  BY DEF TypeInv, PlaceInv, Memory
<1>2. Min(mem.todo) \in mem.todo /\ Max(mem.todo) \in mem.todo
  BY <1>1, NextTargetExists
<1> QED BY <1>1, <1>2 DEF Cur

(***************************************************************************)
(* The outcomes of a call on a file: what a success has done, and that a   *)
(* foreign file is never gone.                                             *)
(***************************************************************************)
Kept(o, d, q) == Foreign \in {d, q} => Foreign \in {o[1], o[2]}
Outcome(o, d, q) == /\ o[1] \in Files /\ o[2] \in Files
                    /\ o[3] \in {"ok", "changed", "fault", "killed"}
                    /\ Kept(o, d, q)

\* writeTelegramSystemArtifactCreate loses no foreign file, and a success has written the data.
LEMMA CreateOutcomes ==
  ASSUME NEW d \in Files, NEW q \in Files, NEW data \in Files, NEW o \in Create(d, q, data)
  PROVE  Outcome(o, d, q) /\ (o[3] = "ok" => o[1] = data)
BY HermesAssumption DEF Create, Outcome, Kept, Files

\* writeTelegramSystemArtifactCAS, likewise, when it expects a content of the manager.
LEMMA ReplaceOutcomes ==
  ASSUME NEW d \in Files, NEW q \in Files, NEW old \in Contents, NEW data \in Files,
         NEW o \in Replace(d, q, old, data)
  PROVE  Outcome(o, d, q) /\ (o[3] = "ok" => o[1] = data)
BY HermesAssumption DEF Replace, GiveBack, Outcome, Kept, Files

\* removeSystemFileAndEmptyParentCAS, likewise, when it expects contents of the manager only.
LEMMA RemoveFileOutcomes ==
  ASSUME NEW d \in Files, NEW q \in Files, NEW olds \in SUBSET Contents, NEW o \in RemoveFile(d, q, olds)
  PROVE  Outcome(o, d, q) /\ (o[3] = "ok" => o[1] = None)
BY HermesAssumption DEF RemoveFile, GiveBack, Outcome, Kept, Files

-----------------------------------------------------------------------------
(* Types.                                                                  *)

\* Where the loops over the targets go from a target, with the error err.
LoopStart == CASE mem.mode = "apply" -> "check" [] mem.mode = "release" -> "release"
               [] OTHER -> "undo"
LoopEnd   == IF mem.mode = "undo" THEN "undone" ELSE "applied"
After(err) ==
  /\ mem' \in Memory /\ mem'.mode = mem.mode /\ mem'.err = err
  /\ mem'.todo = mem.todo \ {Cur}
  /\ pc' = IF mem'.todo = {} THEN LoopEnd ELSE LoopStart

\* The same for the loop that prepares the files, a being the prepared ones.
Prepared(err, a) ==
  /\ mem' \in Memory /\ mem'.mode = mem.mode /\ mem'.err = err /\ mem'.act = a
  /\ IF mem.todo \ {Cur} # {} THEN pc' = "prepare" /\ mem'.todo = mem.todo \ {Cur}
     ELSE mem'.todo = a /\ pc' = IF a = {} THEN "applied" ELSE "reload"

Places == AtTarget \ {"prepare", "write"}

\* A target that is done passes the turn on, with the error as it was.
LEMMA SucceedPasses ==
  ASSUME TypeInv, pc \in Places, Succeed
  PROVE  After(mem.err)
<1>1. mem \in Memory /\ mem.mode \in {"apply", "release", "undo"}
  BY DEF TypeInv, PlaceInv, ModeOf, Places, AtTarget, PCs, Memory
<1>2. None \in Files
  BY DEF Files
<1> QED BY <1>1, <1>2 DEF Succeed, Step, After, LoopStart, LoopEnd, Memory

\* A failure passes the turn on with an error, or leaves a compensation under a restart.
LEMMA FailPasses ==
  ASSUME TypeInv, pc \in Places, NEW e \in {"failed", "unsettled"}, Fail(e)
  PROVE  \/ Exit /\ mem.mode = "undo" /\ e = "unsettled"
         \/ /\ After(Worse(e)) /\ Worse(e) \in {"failed", "unsettled"}
            /\ mem.mode = "undo" => e = "failed"
<1>1. mem \in Memory /\ mem.mode \in {"apply", "release", "undo"}
  BY DEF TypeInv, PlaceInv, ModeOf, Places, AtTarget, PCs, Memory
<1>2. None \in Files
  BY DEF Files
<1>3. Worse(e) \in {"failed", "unsettled"} /\ Worse(e) \in Errors
  BY DEF Worse, Errors
<1> QED BY <1>1, <1>2, <1>3 DEF Fail, Step, After, LoopStart, LoopEnd, Memory

\* A restart that is refused, likewise; a release then puts the drop-in back.
LEMMA RefusedPasses ==
  ASSUME TypeInv, pc \in {"reload", "check", "wait"}, NEW e \in {"failed", "unsettled"}, Refused(e)
  PROVE  \/ mem.mode = "release" /\ e = "failed" /\ pc' = "putback" /\ UNCHANGED mem
         \/ Exit /\ mem.mode = "undo" /\ e = "unsettled"
         \/ /\ After(Worse(e)) /\ Worse(e) \in {"failed", "unsettled"}
            /\ mem.mode = "release" => e = "unsettled"
            /\ mem.mode = "undo" => e = "failed"
<1>1. CASE mem.mode = "release" /\ e # "unsettled"
  BY <1>1 DEF Refused
<1>2. CASE ~(mem.mode = "release" /\ e # "unsettled")
  <2>1. Fail(e)
    BY <1>2 DEF Refused
  <2> QED BY <1>2, <2>1, FailPasses DEF Places, AtTarget, PCs
<1> QED BY <1>1, <1>2

\* The loop that prepares the files goes to the next one, or to the reload.
LEMMA PreparePasses ==
  ASSUME TypeInv, pc \in {"prepare", "write"}, NEW m \in Memory, m.mode = mem.mode,
         PrepareNext(m)
  PROVE  Prepared(m.err, m.act)
<1>1. mem \in Memory
  BY DEF TypeInv, PlaceInv
<1>2. None \in Files
  BY DEF Files
<1> QED BY <1>1, <1>2 DEF PrepareNext, Prepared, Memory

\* Where a passed turn leads is a place of the process.
LEMMA AfterPlace ==
  ASSUME TypeInv, pc \in Places, NEW err \in Errors, After(err), UNCHANGED rec
  PROVE  PlaceInv'
<1>1. mem.mode \in {"apply", "release", "undo"}
  BY DEF TypeInv, PlaceInv, ModeOf, Places, AtTarget, PCs, Memory
<1>2. /\ rec # None /\ mem.todo \subseteq Scope
      /\ mem.mode = "apply" => mem.todo \subseteq Selected
      /\ mem.mode = "release" => mem.todo \subseteq Dropped
  BY DEF TypeInv, PlaceInv, Places, AtTarget, PCs
<1>3. UNCHANGED <<Scope, Selected, Dropped>>
  BY DEF Scope, Selected, Dropped
<1>4. CASE mem.mode = "apply"
  BY <1>2, <1>3, <1>4 DEF PlaceInv, ModeOf, After, LoopStart, LoopEnd, AtTarget, PCs
<1>5. CASE mem.mode = "release"
  BY <1>2, <1>3, <1>5 DEF PlaceInv, ModeOf, After, LoopStart, LoopEnd, AtTarget, PCs
<1>6. CASE mem.mode = "undo"
  BY <1>2, <1>3, <1>6 DEF PlaceInv, ModeOf, After, LoopStart, LoopEnd, AtTarget, PCs
<1> QED BY <1>1, <1>4, <1>5, <1>6

\* So is where the loop that prepares the files leads.
LEMMA PreparedPlace ==
  ASSUME TypeInv, pc \in {"prepare", "write"}, NEW err \in Errors, NEW a \in SUBSET Selected,
         Prepared(err, a), UNCHANGED rec
  PROVE  PlaceInv'
<1>1. /\ rec # None /\ mem.mode = "apply" /\ mem.todo \subseteq Scope /\ mem.todo \subseteq Selected
      /\ Selected \subseteq Scope
  BY DEF TypeInv, DataInv, RecordInv, PlaceInv, ModeOf, AtTarget, PCs
<1>2. UNCHANGED <<Scope, Selected, Dropped>>
  BY DEF Scope, Selected, Dropped
<1> QED BY <1>1, <1>2 DEF PlaceInv, ModeOf, Prepared, AtTarget, PCs

\* A process that is gone is nowhere.
LEMMA ExitPlace ==
  ASSUME Exit
  PROVE  PlaceInv'
<1>1. Fresh \in Memory
  BY DEF Fresh, Memory, Files, Errors
<1> QED BY <1>1 DEF Exit, PlaceInv, ModeOf, AtTarget, PCs

\* A step to another place at the same target.
LEMMA GotoPlace ==
  ASSUME TypeInv, pc \in Places, UNCHANGED <<mem, rec>>,
         pc' \in Places \ {"rewrite"}, ModeOf'
  PROVE  PlaceInv'
<1>1. UNCHANGED <<Scope, Selected, Dropped>>
  BY DEF Scope, Selected, Dropped
<1> QED BY <1>1 DEF TypeInv, PlaceInv, Places, AtTarget, PCs

\* What the parts of the steps do to their data.
LEMMA SpendTypes ==
  ASSUME DataInv, NEW w \in {"commands", "kills", "faults", "edits"}, Spend(w)
  PROVE  /\ left' \in [{"commands", "kills", "faults", "edits"} -> Nat]
         /\ (left'["edits"] = left["edits"]) <=> w # "edits"
BY DEF DataInv, Spend

\* A sound entry keeps the journal sound.
LEMMA EntryTypes ==
  ASSUME DataInv, NEW t \in Targets, NEW e \in Entries \cup {None}, Sound(e),
         jr' = jr \/ jr' = [jr EXCEPT ![t] = e]
  PROVE  jr' \in [Targets -> Entries \cup {None}] /\ \A u \in Targets : Sound(jr'[u])
BY DEF DataInv, TypeOK, Sound

\* What is known of a record holds while the record stays.
LEMMA RecordKept ==
  ASSUME RecordInv, UNCHANGED rec
  PROVE  RecordInv'
BY DEF RecordInv, Scope, Selected

\* Settings and contents of the command at hand.
LEMMA CandTypes ==
  ASSUME TypeInv, rec # None, Selected # {}
  PROVE  rec.cand.proxy \in Contents
BY DEF TypeInv, DataInv, RecordInv, Selected, Settings

\* What the place of a compensation needs of the image of its target.
LEMMA ImageTypes ==
  ASSUME TypeInv, rec # None, NEW t \in Scope
  PROVE  LET i == rec.image[t] IN
           /\ i.before \in Entries \cup {None} /\ i.allowed \in Contents \cup {None}
           /\ i.absent \in BOOLEAN /\ Content(i) \in Contents \cup {None}
           /\ i.before # None => /\ i.before.phase = "active" /\ i.before.pending = None
                                 /\ Content(i) = i.before.managed /\ Content(i) \in Contents
BY DEF TypeInv, DataInv, RecordInv, Images, Entries, Content, Sound

\* A content that a compensation allows is the manager's own, or no file.
LEMMA ContentAllowedType ==
  ASSUME TypeInv, rec # None, NEW t \in Scope, NEW d, ContentAllowed(rec.image[t], d)
  PROVE  d \in Contents \cup {None}
BY ImageTypes DEF ContentAllowed

\* An entry whose target is to be restored.
LEMMA RestoringType ==
  ASSUME NEW e \in Entries
  PROVE  LET r == [e EXCEPT !.phase = "restoring"] IN
           /\ r \in Entries /\ Sound(r) /\ r.phase = "restoring" /\ r # None
           /\ r.managed = e.managed /\ r.pending = e.pending
BY SentinelAssumption DEF Entries, Sound

(***************************************************************************)
(* The calls on the current target's file: what they do to the files, and  *)
(* where the process goes from there.                                      *)
(***************************************************************************)
FilesMove ==
  \E d, q \in Files :
    /\ drop' = [drop EXCEPT ![Cur] = d] /\ quar' = [quar EXCEPT ![Cur] = q]
    /\ Foreign \in {drop[Cur], quar[Cur]} => Foreign \in {d, q}
Spends == UNCHANGED left \/ Spend("faults") \/ Spend("kills")

\* A call that does nothing is one that may have done something.
LEMMA FilesStay ==
  ASSUME TypeInv, Cur \in Targets, UNCHANGED <<drop, quar>>
  PROVE  FilesMove
BY DEF FilesMove, TypeInv, DataInv, TypeOK

\* What a call on the files leaves alone, and that no foreign file is lost.
LEMMA FilesMoveTypes ==
  ASSUME TypeInv, Cur \in Targets, FilesMove
  PROVE  /\ {drop', quar'} \subseteq [Targets -> Files]
         /\ \A t \in Targets : t # Cur => drop'[t] = drop[t] /\ quar'[t] = quar[t]
         /\ Foreign \in {drop[Cur], quar[Cur]} => Foreign \in {drop'[Cur], quar'[Cur]}
BY DEF FilesMove, TypeInv, DataInv, TypeOK

\* The bounds stay natural numbers.
LEMMA SpendsTypes ==
  ASSUME TypeInv, Spends
  PROVE  left' \in [{"commands", "kills", "faults", "edits"} -> Nat]
BY DEF Spends, Spend, TypeInv, DataInv

Written == [mem EXCEPT !.act = @ \cup {Cur}]

\* The drop-in is written, or not, and the loop goes on.
LEMMA WriteCalls ==
  ASSUME TypeInv, Write
  PROVE  FilesMove /\ Spends /\ (PrepareNext(Written) \/ PrepareFailed \/ Exit)
<1> DEFINE c == rec.cand.proxy
           outcomes == IF mem.seen = None THEN Create(drop[Cur], quar[Cur], c)
                       ELSE Replace(drop[Cur], quar[Cur], mem.seen, c)
<1>1. /\ Cur \in Targets /\ mem.seen \in Contents \cup {None} /\ rec # None /\ Selected # {}
      /\ drop[Cur] \in Files /\ quar[Cur] \in Files
  BY CurIsTarget DEF Write, TypeInv, DataInv, TypeOK, PlaceInv, ModeOf, AtTarget, PCs
<1>2. c \in Files
  BY <1>1, CandTypes DEF Files
<1>3. CASE mem.seen = c
  BY <1>1, <1>3, FilesStay DEF Write, Written, Spends, Free
<1>4. CASE mem.seen # c
  <2>1. PICK o \in outcomes :
          /\ drop' = [drop EXCEPT ![Cur] = o[1]]
          /\ quar' = [quar EXCEPT ![Cur] = o[2]]
          /\ CASE o[3] = "ok"      -> PrepareNext(Written) /\ Free
               [] o[3] = "changed" -> PrepareFailed /\ Free
               [] o[3] = "fault"   -> PrepareFailed /\ Spend("faults")
               [] o[3] = "killed"  -> Exit /\ Spend("kills")
    BY <1>4 DEF Write, Touch, Written
  <2>2. Outcome(o, drop[Cur], quar[Cur])
    BY <1>1, <1>2, CreateOutcomes, ReplaceOutcomes
  <2> QED BY <2>1, <2>2 DEF Outcome, Kept, FilesMove, Spends, Free
<1> QED BY <1>3, <1>4

\* A drop-in that is the journal's is gone when the release goes on, any other is kept.
LEMMA RemoveDropInCalls ==
  ASSUME TypeInv, JournalInv, RemoveDropIn
  PROVE  /\ FilesMove /\ Spends
         /\ \/ pc' = "reload" /\ mem' = [mem EXCEPT !.removed = drop[Cur]] /\ drop'[Cur] = None
            \/ Goto("reload") /\ drop[Cur] \notin Owned(jr[Cur]) \cup {None}
            \/ Fail("failed") \/ Exit
<1> DEFINE d == drop[Cur]
           onwards == pc' = "reload" /\ mem' = [mem EXCEPT !.removed = d]
           olds == IF d = None THEN Owned(jr[Cur]) ELSE {d}
<1>1. /\ Cur \in Targets /\ d \in Files /\ quar[Cur] \in Files /\ drop \in [Targets -> Files]
      /\ jr[Cur] \in Entries \cup {None} /\ jr[Cur] # None
  BY CurIsTarget DEF RemoveDropIn, TypeInv, DataInv, TypeOK, PlaceInv, ModeOf, AtTarget, PCs, JournalInv
<1>2. CASE d \notin Owned(jr[Cur]) \cup {None}
  BY <1>1, <1>2, FilesStay DEF RemoveDropIn, Spends, Free
<1>3. CASE d \in Owned(jr[Cur]) \cup {None}
  <2>1. PICK o \in RemoveFile(d, quar[Cur], olds) :
          /\ drop' = [drop EXCEPT ![Cur] = o[1]]
          /\ quar' = [quar EXCEPT ![Cur] = o[2]]
          /\ CASE o[3] = "ok"      -> onwards /\ Free
               [] o[3] = "changed" -> Fail("failed") /\ Free
               [] o[3] = "fault"   -> Fail("failed") /\ Spend("faults")
               [] o[3] = "killed"  -> Exit /\ Spend("kills")
    BY <1>3 DEF RemoveDropIn, Touch
  <2>2. olds \in SUBSET Contents
    BY <1>1, <1>3 DEF Owned, Entries
  <2>3. Outcome(o, drop[Cur], quar[Cur]) /\ (o[3] = "ok" => o[1] = None)
    BY <1>1, <2>2, RemoveFileOutcomes
  <2>4. drop'[Cur] = o[1]
    BY <1>1, <2>1
  <2> QED BY <2>1, <2>3, <2>4 DEF Outcome, Kept, FilesMove, Spends, Free
<1> QED BY <1>2, <1>3

\* The drop-in is put back, or not.
LEMMA PutBackCalls ==
  ASSUME TypeInv, PutBack
  PROVE  FilesMove /\ Spends /\ (Goto("reloadback") \/ Fail("failed") \/ Exit)
<1> DEFINE outcomes == Create(drop[Cur], quar[Cur], mem.removed)
<1>1. Cur \in Targets /\ drop[Cur] \in Files /\ quar[Cur] \in Files /\ mem.removed \in Files
  BY CurIsTarget DEF PutBack, TypeInv, DataInv, TypeOK, PlaceInv, Memory, AtTarget, PCs
<1>2. CASE UNCHANGED <<drop, quar>> /\ Free /\ (Goto("reloadback") \/ Fail("failed"))
  BY <1>1, <1>2, FilesStay DEF Spends, Free
<1>3. CASE Touch(Cur, outcomes, Goto("reloadback"), Fail("failed"))
  <2>1. PICK o \in outcomes :
          /\ drop' = [drop EXCEPT ![Cur] = o[1]]
          /\ quar' = [quar EXCEPT ![Cur] = o[2]]
          /\ CASE o[3] = "ok"      -> Goto("reloadback") /\ Free
               [] o[3] = "changed" -> Fail("failed") /\ Free
               [] o[3] = "fault"   -> Fail("failed") /\ Spend("faults")
               [] o[3] = "killed"  -> Exit /\ Spend("kills")
    BY <1>3 DEF Touch
  <2>2. Outcome(o, drop[Cur], quar[Cur])
    BY <1>1, CreateOutcomes
  <2> QED BY <2>1, <2>2 DEF Outcome, Kept, FilesMove, Spends, Free
<1> QED BY <1>2, <1>3 DEF PutBack

\* A compensation goes on when the file is what it was.
LEMMA RewriteCalls ==
  ASSUME TypeInv, JournalInv, Rewrite
  PROVE  /\ FilesMove /\ Spends
         /\ \/ Goto("reload") /\ drop'[Cur] = Content(rec.image[Cur])
            \/ Fail("failed") \/ Exit
<1> DEFINE i == rec.image[Cur]
           raw == mem.seen
           olds == ({raw} \ {None}) \cup Owned(jr[Cur])
           outcomes == IF i.before = None THEN RemoveFile(drop[Cur], quar[Cur], olds)
                       ELSE IF raw = None THEN Create(drop[Cur], quar[Cur], Content(i))
                       ELSE Replace(drop[Cur], quar[Cur], raw, Content(i))
<1>1. /\ Cur \in Targets /\ Cur \in Scope /\ rec # None /\ raw \in Contents \cup {None}
      /\ drop[Cur] \in Files /\ quar[Cur] \in Files /\ drop \in [Targets -> Files]
      /\ jr[Cur] \in Entries \cup {None} /\ Announced(Cur)
  BY CurIsTarget DEF Rewrite, TypeInv, DataInv, TypeOK, PlaceInv, ModeOf, AtTarget, PCs, JournalInv
<1>2. Content(i) \in Files
  BY <1>1, ImageTypes DEF Files
<1>3. CASE UNCHANGED <<drop, quar>> /\ Free /\ Goto("reload") /\ drop[Cur] = Content(i)
  BY <1>1, <1>3, FilesStay DEF Spends, Free
<1>4. CASE Touch(Cur, outcomes, Goto("reload"), Fail("failed"))
  <2>1. PICK o \in outcomes :
          /\ drop' = [drop EXCEPT ![Cur] = o[1]]
          /\ quar' = [quar EXCEPT ![Cur] = o[2]]
          /\ CASE o[3] = "ok"      -> Goto("reload") /\ Free
               [] o[3] = "changed" -> Fail("failed") /\ Free
               [] o[3] = "fault"   -> Fail("failed") /\ Spend("faults")
               [] o[3] = "killed"  -> Exit /\ Spend("kills")
    BY <1>4 DEF Touch
  <2>2. Outcome(o, drop[Cur], quar[Cur]) /\ (o[3] = "ok" => o[1] = Content(i))
    <3>1. CASE i.before = None
      <4>1. olds \in SUBSET Contents
        BY <1>1, <3>1 DEF Owned, Entries, Announced
      <4>2. Content(i) = None
        BY <3>1 DEF Content
      <4> HIDE DEF olds
      <4> QED BY <1>1, <3>1, <4>1, <4>2, RemoveFileOutcomes
    <3>2. CASE i.before # None
      BY <1>1, <1>2, <3>2, CreateOutcomes, ReplaceOutcomes
    <3> QED BY <3>1, <3>2
  <2>3. drop'[Cur] = o[1]
    BY <1>1, <2>1
  <2> QED BY <2>1, <2>2, <2>3 DEF Outcome, Kept, FilesMove, Spends, Free
<1> QED BY <1>3, <1>4 DEF Rewrite

\* Types over the initial states.
LEMMA InitTypes == Init => TypeInv
<1> SUFFICES ASSUME Init PROVE TypeInv
  OBVIOUS
<1> USE DEF Init
<1>1. Fresh \in Memory
  BY DEF Fresh, Memory, Files, Errors
<1>2. PlaceInv
  BY <1>1 DEF PlaceInv, ModeOf, AtTarget, PCs
<1>3. TypeOK
  <2>1. store \in Settings
    BY DEF Off, Settings
  <2>2. {[running |-> r, env |-> None, job |-> FALSE] : r \in BOOLEAN}
          \subseteq [running : BOOLEAN, env : Files, job : BOOLEAN]
    <3> SUFFICES ASSUME NEW r \in BOOLEAN
                 PROVE  [running |-> r, env |-> None, job |-> FALSE]
                          \in [running : BOOLEAN, env : Files, job : BOOLEAN]
      OBVIOUS
    <3>1. None \in Files
      BY DEF Files
    <3> QED BY <3>1
  <2>3. svc \in [Targets -> [running : BOOLEAN, env : Files, job : BOOLEAN]]
    BY <2>2
  <2> QED BY <2>1, <2>3 DEF TypeOK, Files
<1>4. left \in [{"commands", "kills", "faults", "edits"} -> Nat]
  BY HermesAssumption
<1>5. RecordInv /\ \A t \in Targets : Sound(jr[t])
  BY DEF RecordInv, Sound
<1> QED BY <1>2, <1>3, <1>4, <1>5 DEF TypeInv, DataInv

\* Types over the plan.
LEMMA PlanTypes ==
  ASSUME TypeInv, JournalInv, NEW cand \in Settings, Plan(cand)
  PROVE  TypeInv'
<1> DEFINE scope == cand.sel \cup Released(cand)
           image == [t \in scope |-> Image(t, cand)]
<1>1. rec' = [cand |-> cand, image |-> image] /\ rec = None /\ pc = "idle"
      /\ pc' = "validate" /\ mem' = [Fresh EXCEPT !.mode = "apply"]
  BY DEF Plan
<1>2. scope \subseteq Targets /\ cand.sel \subseteq Targets /\ cand.proxy \in Contents \cup {None}
  BY DEF Settings, Released
<1>3. scope # {}
  <2>1. CASE cand.sel # {}
    BY <2>1
  <2>2. CASE cand.sel = {}
    <3>1. cand.on = FALSE /\ cand.proxy = None /\ store # cand /\ store \in Settings
      BY <2>2 DEF Plan, Settings, TypeInv, DataInv, TypeOK
    <3>2. cand = [on |-> FALSE, proxy |-> None, sel |-> {}]
      BY <3>1 DEF Settings
    <3>3. store.sel # {} /\ store.sel \subseteq Targets /\ store.proxy \in Contents
      BY <3>1, <3>2 DEF Settings
    <3>4. PICK t \in Targets : t \in store.sel
      BY <3>3
    <3>5. jr[t] = Active(store.proxy)
      BY <1>1, <3>4 DEF JournalInv, Clean
    <3>6. Active(store.proxy) \in Entries
      BY <3>3 DEF Active, Entry, Entries
    <3>7. t \in Released(cand)
      BY <2>2, <3>5, <3>6, SentinelAssumption DEF Released
    <3> QED BY <3>7
  <2> QED BY <2>1, <2>2
<1>4. image \in [scope -> Images]
  <2>1. \A t \in scope : Image(t, cand) \in Images
    <3> SUFFICES ASSUME NEW t \in scope PROVE Image(t, cand) \in Images
      OBVIOUS
    <3>1. jr[t] \in Entries \cup {None}
      BY <1>2 DEF TypeInv, DataInv, TypeOK
    <3>2. (IF t \in cand.sel THEN cand.proxy ELSE None) \in Contents \cup {None}
      BY <1>2
    <3> QED BY <3>1, <3>2 DEF Image, Images, Absent
  <2> QED BY <2>1
<1>5. \A t \in scope : image[t].before = jr[t] /\ Sound(jr[t])
                       /\ (jr[t] # None => jr[t].phase = "active")
  BY <1>2 DEF Image, Plan, Plannable, TypeInv, DataInv
<1> HIDE DEF image, scope
<1>6. rec'.cand = cand /\ rec'.image = image /\ DOMAIN rec'.image = scope
  BY <1>1, <1>4
<1>7. rec' # None
  <2>1. image \in UNION {[S -> Images] : S \in SUBSET Targets}
    BY <1>2, <1>4
  <2>2. rec' \in [cand : Settings, image : UNION {[S -> Images] : S \in SUBSET Targets}]
    BY <1>1, <2>1
  <2> QED BY <2>2, SentinelAssumption
<1>8. RecordInv'
  BY <1>2, <1>3, <1>4, <1>5, <1>6 DEF RecordInv, Scope, Selected, scope
<1>9. left' \in [{"commands", "kills", "faults", "edits"} -> Nat]
  BY SpendTypes DEF Plan, TypeInv
<1>10. DataInv'
  BY <1>8, <1>9 DEF DataInv, TypeInv, TypeOK, Plan, system
<1>11. mem' \in Memory /\ mem'.mode = "apply"
  BY <1>1 DEF Fresh, Memory, Files, Errors
<1>12. PlaceInv'
  BY <1>1, <1>7, <1>11 DEF PlaceInv, ModeOf, AtTarget, PCs
<1> QED BY <1>10, <1>12 DEF TypeInv

\* Types over the second validation.
LEMMA ValidateTypes == ASSUME TypeInv, Validate PROVE TypeInv'
<1>1. DataInv'
  BY RecordKept DEF Validate, durable, system, TypeInv, DataInv, TypeOK
<1>2. /\ pc = "validate" /\ mem \in Memory /\ rec # None /\ UNCHANGED rec
      /\ Scope # {} /\ Scope \subseteq Targets /\ Selected \subseteq Scope
  BY DEF Validate, durable, TypeInv, DataInv, RecordInv, PlaceInv
<1>3. UNCHANGED <<Scope, Selected, Dropped>>
  BY <1>2 DEF Scope, Selected, Dropped
<1>4. mem.act = {} /\ mem.mode = "apply"
  BY <1>2 DEF TypeInv, PlaceInv, ModeOf, Fresh
<1>5. CASE pc' = "prepare" /\ Selected # {} /\ mem' = [mem EXCEPT !.todo = Selected]
  <2>1. mem' \in Memory /\ mem'.mode = "apply" /\ mem'.todo = Selected /\ mem'.act = {}
    BY <1>2, <1>4, <1>5 DEF Memory
  <2> QED BY <1>1, <1>2, <1>3, <1>5, <2>1 DEF TypeInv, PlaceInv, ModeOf, AtTarget, PCs
<1>6. CASE pc' = "release" /\ Selected = {}
           /\ mem' = [mem EXCEPT !.mode = "release", !.todo = Dropped]
  <2>1. Dropped = Scope \ Selected
    BY DEF Dropped
  <2>2. mem' \in Memory /\ mem'.mode = "release" /\ mem'.todo = Dropped
    BY <1>2, <1>6, <2>1 DEF Memory
  <2> QED BY <1>1, <1>2, <1>3, <1>6, <2>1, <2>2 DEF TypeInv, PlaceInv, ModeOf, AtTarget, PCs
<1>7. CASE pc' = "failed" /\ mem' = [mem EXCEPT !.err = "failed"]
  <2>1. mem' \in Memory /\ mem'.mode = "apply"
    BY <1>2, <1>4, <1>7 DEF Memory, Errors
  <2> QED BY <1>1, <1>2, <1>7, <2>1 DEF TypeInv, PlaceInv, ModeOf, AtTarget, PCs
<1>8. \/ pc' = "prepare" /\ Selected # {} /\ mem' = [mem EXCEPT !.todo = Selected]
      \/ /\ pc' = "release" /\ Selected = {}
         /\ mem' = [mem EXCEPT !.mode = "release", !.todo = Dropped]
      \/ pc' = "failed" /\ mem' = [mem EXCEPT !.err = "failed"]
  BY DEF Validate
<1> QED BY <1>5, <1>6, <1>7, <1>8

\* Types over the announcement of an apply.
LEMMA PrepareTypes == ASSUME TypeInv, Prepare PROVE TypeInv'
<1> DEFINE t == Cur
           c == rec.cand.proxy
           e == Entry("prepared", IF jr[t] = None THEN c ELSE jr[t].managed, c)
<1>1. /\ pc = "prepare" /\ mem \in Memory /\ mem.mode = "apply" /\ rec # None /\ UNCHANGED rec
      /\ mem.todo # {} /\ mem.todo \subseteq Selected /\ mem.act \subseteq Selected
      /\ mem.todo \subseteq Scope /\ t \in Targets /\ Selected \subseteq Targets /\ t \in mem.todo
  BY CurIsTarget DEF Prepare, TypeInv, DataInv, RecordInv, PlaceInv, ModeOf, AtTarget, PCs
<1>2. c \in Contents
  BY <1>1, CandTypes
<1>3. jr[t] \in Entries \cup {None} /\ drop[t] \in Files
  BY <1>1 DEF TypeInv, DataInv, TypeOK
<1>4. e \in Entries /\ e \in Entries \cup {None} /\ Sound(e)
  BY <1>2, <1>3 DEF Entry, Entries, Sound
<1>5. /\ jr' = jr \/ jr' = [jr EXCEPT ![t] = e]
      /\ UNCHANGED left \/ Spend("faults")
  BY DEF Prepare, SaveEntry, Free
<1> HIDE DEF e
<1>6. DataInv'
  BY <1>1, <1>4, <1>5, EntryTypes, SpendTypes, RecordKept
     DEF TypeInv, DataInv, TypeOK, Prepare, system
<1>7. \/ PrepareFailed \/ PrepareNext(mem)
      \/ pc' = "write" /\ mem' = [mem EXCEPT !.seen = drop[t]] /\ drop[t] \in Contents \cup {None}
  <2>1. jr[t] # None => Owned(jr[t]) \subseteq Contents
    BY <1>3, SentinelAssumption DEF Owned, Entries
  <2> QED BY <2>1 DEF Prepare, SaveEntry
<1>8. CASE PrepareFailed
  <2> DEFINE m == [mem EXCEPT !.err = Worse("failed")]
  <2>1. m \in Memory /\ m.mode = mem.mode /\ m.err \in Errors /\ m.act = mem.act
    BY <1>1 DEF Memory, Worse, Errors
  <2>2. PrepareNext(m)
    BY <1>8 DEF PrepareFailed
  <2> HIDE DEF m
  <2>3. Prepared(m.err, m.act)
    BY <1>1, <2>1, <2>2, PreparePasses
  <2>4. PlaceInv'
    BY <1>1, <2>1, <2>3, PreparedPlace
  <2> QED BY <1>6, <2>4 DEF TypeInv
<1>9. CASE PrepareNext(mem)
  <2>1. Prepared(mem.err, mem.act) /\ mem.err \in Errors
    BY <1>1, <1>9, PreparePasses DEF Memory
  <2>2. PlaceInv'
    BY <1>1, <2>1, PreparedPlace
  <2> QED BY <1>6, <2>2 DEF TypeInv
<1>10. CASE pc' = "write" /\ mem' = [mem EXCEPT !.seen = drop[t]] /\ drop[t] \in Contents \cup {None}
  <2>1. UNCHANGED <<Scope, Selected, Dropped>>
    BY <1>1 DEF Scope, Selected, Dropped
  <2>2. PlaceInv'
    BY <1>1, <1>3, <1>10, <2>1 DEF PlaceInv, ModeOf, AtTarget, PCs, Memory
  <2> QED BY <1>6, <2>2 DEF TypeInv
<1> QED BY <1>7, <1>8, <1>9, <1>10

\* Types over the write of a drop-in.
LEMMA WriteTypes == ASSUME TypeInv, Write PROVE TypeInv'
<1> DEFINE f == [mem EXCEPT !.err = Worse("failed")]
<1>1. /\ pc = "write" /\ mem \in Memory /\ mem.mode = "apply" /\ rec # None /\ UNCHANGED <<store, rec, jr>>
      /\ mem.todo \subseteq Selected /\ mem.act \subseteq Selected
      /\ Cur \in Targets /\ Cur \in mem.todo /\ Selected \subseteq Targets
  BY CurIsTarget DEF Write, TypeInv, DataInv, RecordInv, PlaceInv, ModeOf, AtTarget, PCs
<1>2. /\ {drop', quar'} \subseteq [Targets -> Files]
      /\ left' \in [{"commands", "kills", "faults", "edits"} -> Nat]
      /\ PrepareNext(Written) \/ PrepareFailed \/ Exit
  BY <1>1, WriteCalls, FilesMoveTypes, SpendsTypes
<1>3. DataInv'
  BY <1>1, <1>2, RecordKept DEF TypeInv, DataInv, TypeOK, Write, system
<1>4. CASE PrepareNext(Written)
  <2>1. Written \in Memory /\ Written.mode = mem.mode /\ Written.err \in Errors
        /\ Written.act \in SUBSET Selected
    BY <1>1 DEF Memory, Written
  <2>2. PlaceInv'
    BY <1>1, <1>4, <2>1, PreparePasses, PreparedPlace
  <2> QED BY <1>3, <2>2 DEF TypeInv
<1>5. CASE PrepareFailed
  <2>1. f \in Memory /\ f.mode = mem.mode /\ f.err \in Errors /\ f.act = mem.act
    BY <1>1 DEF Memory, Worse, Errors
  <2>2. PrepareNext(f)
    BY <1>5 DEF PrepareFailed
  <2> HIDE DEF f
  <2>3. PlaceInv'
    BY <1>1, <2>1, <2>2, PreparePasses, PreparedPlace
  <2> QED BY <1>3, <2>3 DEF TypeInv
<1> QED BY <1>2, <1>3, <1>4, <1>5, ExitPlace DEF TypeInv

\* A step at a target, other than of the loop that prepares the files.
Moves == \/ \E err \in Errors : After(err)
         \/ Exit
         \/ UNCHANGED mem /\ pc' \in Places \ {"rewrite"} /\ ModeOf'

\* Such a step leads to a place of the process.
LEMMA MovesPlace ==
  ASSUME TypeInv, pc \in Places, UNCHANGED rec, Moves
  PROVE  PlaceInv'
BY AfterPlace, ExitPlace, GotoPlace DEF Moves

\* A process at a target has a mode and a record.
LEMMA ModeAtPlace ==
  ASSUME TypeInv, pc \in Places
  PROVE  mem \in Memory /\ mem.mode \in {"apply", "release", "undo"} /\ mem.err \in Errors /\ rec # None
BY DEF TypeInv, PlaceInv, ModeOf, Places, AtTarget, PCs, Memory

\* Moves: a target that is done.
LEMMA SucceedMoves ==
  ASSUME TypeInv, pc \in Places, Succeed
  PROVE  Moves
BY SucceedPasses, ModeAtPlace DEF Moves

\* Moves: a failure.
LEMMA FailMoves ==
  ASSUME TypeInv, pc \in Places, NEW e \in {"failed", "unsettled"}, Fail(e)
  PROVE  Moves
<1>1. {"failed", "unsettled"} \subseteq Errors
  BY DEF Errors
<1> QED BY <1>1, FailPasses DEF Moves

\* Moves: a refused restart.
LEMMA RefusedMoves ==
  ASSUME TypeInv, pc \in {"reload", "check", "wait"}, NEW e \in {"failed", "unsettled"}, Refused(e)
  PROVE  Moves
<1>1. {"failed", "unsettled"} \subseteq Errors
  BY DEF Errors
<1>2. mem.mode = "release" /\ pc' = "putback" /\ UNCHANGED mem => Moves
  BY DEF Moves, ModeOf, Places, AtTarget, PCs
<1> QED BY <1>1, <1>2, RefusedPasses DEF Moves

\* Moves: the way to a commit.
LEMMA CommitMoves ==
  ASSUME TypeInv, pc \in {"reload", "check", "wait"}, Goto(Commit)
  PROVE  Moves
<1>1. mem.mode \in {"apply", "release", "undo"}
  BY DEF TypeInv, PlaceInv, ModeOf
<1>2. /\ pc' \in {"commit", "forget", "settle"} /\ UNCHANGED mem
      /\ pc' = "commit" => mem.mode \in {"apply", "undo"}
      /\ pc' = "forget" => mem.mode \in {"release", "undo"}
      /\ pc' = "settle" => mem.mode = "undo"
  BY <1>1 DEF Goto, Commit
<1> QED BY <1>1, <1>2 DEF Moves, ModeOf, Places, AtTarget, PCs

\* Types over the reload.
LEMMA ReloadTypes == ASSUME TypeInv, Reload PROVE TypeInv'
<1>1. /\ pc = "reload" /\ UNCHANGED rec /\ rec # None /\ pc \in Places
      /\ mem \in Memory /\ mem.mode \in {"apply", "release", "undo"}
  BY DEF Reload, durable, TypeInv, PlaceInv, ModeOf, Places, AtTarget, PCs
<1>2. DataInv'
  BY SpendTypes, RecordKept DEF Reload, durable, Free, TypeInv, DataInv, TypeOK
<1>3. CASE pc' = "applied" /\ mem' = [mem EXCEPT !.todo = {}, !.err = Worse("failed")] /\ mem.mode = "apply"
  <2>1. mem' \in Memory /\ mem'.mode = "apply"
    BY <1>1, <1>3 DEF Memory, Worse, Errors
  <2> QED BY <1>1, <1>2, <1>3, <2>1 DEF TypeInv, PlaceInv, ModeOf, AtTarget, PCs
<1>4. CASE Goto("check")
  <2>1. Moves
    BY <1>1, <1>4 DEF Goto, Moves, ModeOf, Places, AtTarget, PCs
  <2> QED BY <1>1, <1>2, <2>1, MovesPlace DEF TypeInv
<1>5. CASE Goto(Commit)
  BY <1>1, <1>2, <1>5, CommitMoves, MovesPlace DEF TypeInv
<1>6. CASE Refused("failed")
  BY <1>1, <1>2, <1>6, RefusedMoves, MovesPlace DEF TypeInv
<1> QED BY <1>3, <1>4, <1>5, <1>6 DEF Reload

\* Types over the check before a restart.
LEMMA CheckTypes == ASSUME TypeInv, Check PROVE TypeInv'
<1>1. /\ pc = "check" /\ UNCHANGED rec /\ rec # None /\ pc \in Places /\ Cur \in Targets
      /\ mem \in Memory /\ mem.mode \in {"apply", "release", "undo"}
  BY CurIsTarget DEF Check, durable, TypeInv, PlaceInv, ModeOf, Places, AtTarget, PCs
<1>2. DataInv'
  <2>1. svc' = svc \/ svc' = [svc EXCEPT ![Cur].job = TRUE]
    BY DEF Check
  <2>2. svc' \in [Targets -> [running : BOOLEAN, env : Files, job : BOOLEAN]]
    <3> DEFINE R == [running : BOOLEAN, env : Files, job : BOOLEAN]
    <3>1. svc \in [Targets -> R] /\ svc[Cur] \in R
      BY <1>1 DEF TypeInv, DataInv, TypeOK
    <3>2. [svc[Cur] EXCEPT !.job = TRUE] \in R
      BY <3>1
    <3> HIDE DEF R
    <3>3. svc' \in [Targets -> R]
      BY <1>1, <2>1, <3>1, <3>2
    <3> QED BY <3>3 DEF R
  <2> QED BY <2>2, RecordKept DEF Check, durable, TypeInv, DataInv, TypeOK
<1>3. CASE Refused("failed") \/ Refused("unsettled")
  BY <1>1, <1>2, <1>3, RefusedMoves, MovesPlace DEF TypeInv
<1>4. CASE Goto(Commit)
  BY <1>1, <1>2, <1>4, CommitMoves, MovesPlace DEF TypeInv
<1>5. CASE Goto("wait")
  <2>1. Moves
    BY <1>1, <1>5 DEF Goto, Moves, ModeOf, Places, AtTarget, PCs
  <2> QED BY <1>1, <1>2, <2>1, MovesPlace DEF TypeInv
<1> QED BY <1>3, <1>4, <1>5 DEF Check

\* Types over the wait for a restart.
LEMMA WaitTypes == ASSUME TypeInv, Wait PROVE TypeInv'
<1>1. pc = "wait" /\ UNCHANGED rec /\ pc \in Places
  BY DEF Wait, durable, Places, AtTarget, PCs
<1>2. DataInv'
  BY SpendTypes, RecordKept DEF Wait, durable, system, Free, TypeInv, DataInv, TypeOK
<1>3. CASE Refused("failed") \/ Refused("unsettled")
  BY <1>1, <1>2, <1>3, RefusedMoves, MovesPlace DEF TypeInv
<1>4. CASE Goto(Commit)
  BY <1>1, <1>2, <1>4, CommitMoves, MovesPlace DEF TypeInv
<1> QED BY <1>3, <1>4 DEF Wait

\* Types over the commit of an entry.
LEMMA CommitApplyTypes == ASSUME TypeInv, CommitApply PROVE TypeInv'
<1>1. /\ pc = "commit" /\ UNCHANGED rec /\ pc \in Places /\ Cur \in Targets
      /\ jr[Cur] \in Entries \cup {None} /\ Sound(jr[Cur])
  BY CurIsTarget DEF CommitApply, TypeInv, DataInv, TypeOK, Places, AtTarget, PCs
<1>2. Succeed \/ Fail("failed")
  BY DEF CommitApply, SaveEntry
<1>3. PlaceInv'
  BY <1>1, <1>2, SucceedMoves, FailMoves, MovesPlace
<1>4. CASE jr[Cur] # None /\ jr[Cur].phase = "prepared" /\ Valid(Cur) /\ drop[Cur] = jr[Cur].pending
  <2>1. Active(jr[Cur].pending) \in Entries /\ Sound(Active(jr[Cur].pending))
    BY <1>1, <1>4 DEF Sound, Active, Entry, Entries
  <2>2. SaveEntry(Cur, Active(jr[Cur].pending), Succeed, Fail("failed"))
    BY <1>4 DEF CommitApply
  <2>3. \/ jr' = jr
        \/ jr' = [jr EXCEPT ![Cur] = Active(jr[Cur].pending)]
    BY <2>2 DEF SaveEntry
  <2>4. left' = left \/ Spend("faults")
    BY <2>2 DEF SaveEntry, Free
  <2>5. DataInv'
    BY <1>1, <2>1, <2>3, <2>4, EntryTypes, SpendTypes, RecordKept
       DEF CommitApply, system, TypeInv, DataInv, TypeOK
  <2> QED BY <1>3, <2>5 DEF TypeInv
<1>5. CASE ~(jr[Cur] # None /\ jr[Cur].phase = "prepared" /\ Valid(Cur) /\ drop[Cur] = jr[Cur].pending)
  <2>1. DataInv'
    BY <1>5, RecordKept DEF CommitApply, Free, system, TypeInv, DataInv, TypeOK
  <2> QED BY <1>3, <2>1 DEF TypeInv
<1> QED BY <1>4, <1>5

\* Types over the end of an entry.
LEMMA ForgetTypes == ASSUME TypeInv, Forget PROVE TypeInv'
<1>1. pc = "forget" /\ UNCHANGED rec /\ pc \in Places /\ Cur \in Targets
  BY CurIsTarget DEF Forget, TypeInv, Places, AtTarget, PCs
<1>2. Succeed \/ Fail("failed")
  BY DEF Forget, SaveEntry
<1>3. PlaceInv'
  BY <1>1, <1>2, SucceedMoves, FailMoves, MovesPlace
<1>4. /\ jr' = jr \/ jr' = [jr EXCEPT ![Cur] = None]
      /\ left' = left \/ Spend("faults")
  BY DEF Forget, SaveEntry, Free
<1>5. Sound(None)
  BY DEF Sound
<1>6. DataInv'
  BY <1>1, <1>4, <1>5, EntryTypes, SpendTypes, RecordKept
     DEF Forget, system, TypeInv, DataInv, TypeOK
<1> QED BY <1>3, <1>6 DEF TypeInv

\* Types over an entry put back without a restart.
LEMMA SettleTypes == ASSUME TypeInv, Settle PROVE TypeInv'
<1> DEFINE b == rec.image[Cur].before
<1>1. pc = "settle" /\ UNCHANGED rec /\ pc \in Places /\ Cur \in Targets /\ Cur \in Scope /\ rec # None
  BY CurIsTarget DEF Settle, TypeInv, PlaceInv, Places, AtTarget, PCs
<1>2. Succeed \/ Fail("failed")
  BY DEF Settle, SaveEntry
<1>3. PlaceInv'
  BY <1>1, <1>2, SucceedMoves, FailMoves, MovesPlace
<1>4. /\ jr' = jr \/ jr' = [jr EXCEPT ![Cur] = b]
      /\ left' = left \/ Spend("faults")
  BY DEF Settle, SaveEntry, Free
<1>5. Sound(b) /\ b \in Entries \cup {None}
  BY <1>1 DEF Sound, TypeInv, DataInv, RecordInv, Images
<1> HIDE DEF b
<1>6. DataInv'
  BY <1>1, <1>4, <1>5, EntryTypes, SpendTypes, RecordKept
     DEF Settle, system, TypeInv, DataInv, TypeOK
<1> QED BY <1>3, <1>6 DEF TypeInv

\* Types over the announcement of a release.
LEMMA ReleaseTypes == ASSUME TypeInv, Release PROVE TypeInv'
<1> DEFINE e == [jr[Cur] EXCEPT !.phase = "restoring"]
<1>1. /\ pc = "release" /\ UNCHANGED rec /\ pc \in Places /\ Cur \in Targets
      /\ jr[Cur] \in Entries \cup {None} /\ mem.mode = "release"
  BY CurIsTarget DEF Release, TypeInv, DataInv, TypeOK, PlaceInv, ModeOf, Places, AtTarget, PCs
<1>2. Succeed \/ Fail("failed") \/ Fail("unsettled") \/ Goto("remove")
  BY DEF Release, SaveEntry
<1>3. Goto("remove") => Moves
  BY <1>1 DEF Goto, Moves, ModeOf, Places, AtTarget, PCs
<1>4. PlaceInv'
  BY <1>1, <1>2, <1>3, SucceedMoves, FailMoves, MovesPlace
<1>5. /\ jr' = jr \/ (jr' = [jr EXCEPT ![Cur] = e] /\ jr[Cur] # None)
      /\ left' = left \/ Spend("faults")
  BY DEF Release, SaveEntry, Free
<1>6. jr[Cur] # None => Sound(e) /\ e \in Entries \cup {None}
  BY <1>1, RestoringType
<1> HIDE DEF e
<1>7. DataInv'
  BY <1>1, <1>5, <1>6, EntryTypes, SpendTypes, RecordKept
     DEF Release, system, TypeInv, DataInv, TypeOK
<1> QED BY <1>4, <1>7 DEF TypeInv

\* Types over the removal of a drop-in.
LEMMA RemoveDropInTypes == ASSUME TypeInv, JournalInv, RemoveDropIn PROVE TypeInv'
<1>1. /\ pc = "remove" /\ UNCHANGED rec /\ pc \in Places /\ Cur \in Targets /\ rec # None
      /\ mem.mode = "release" /\ mem \in Memory /\ drop[Cur] \in Files
      /\ mem.todo # {} /\ mem.todo \subseteq Scope /\ mem.todo \subseteq Dropped
  BY CurIsTarget DEF RemoveDropIn, TypeInv, DataInv, TypeOK, PlaceInv, ModeOf, Places, AtTarget, PCs
<1>2. /\ {drop', quar'} \subseteq [Targets -> Files]
      /\ left' \in [{"commands", "kills", "faults", "edits"} -> Nat]
      /\ \/ pc' = "reload" /\ mem' = [mem EXCEPT !.removed = drop[Cur]]
         \/ Goto("reload") \/ Fail("failed") \/ Exit
  BY <1>1, RemoveDropInCalls, FilesMoveTypes, SpendsTypes
<1>3. DataInv'
  BY <1>1, <1>2, RecordKept DEF TypeInv, DataInv, TypeOK, RemoveDropIn, system
<1>4. CASE Goto("reload")
  <2>1. Moves
    BY <1>1, <1>4 DEF Goto, Moves, ModeOf, Places, AtTarget, PCs
  <2> QED BY <1>1, <1>3, <2>1, MovesPlace DEF TypeInv
<1>5. CASE pc' = "reload" /\ mem' = [mem EXCEPT !.removed = drop[Cur]]
  <2>1. mem' \in Memory /\ mem'.mode = "release" /\ mem'.todo = mem.todo /\ pc' = "reload"
    BY <1>1, <1>5 DEF Memory
  <2>2. UNCHANGED <<Scope, Selected, Dropped>>
    BY <1>1 DEF Scope, Selected, Dropped
  <2>3. PlaceInv'
    BY <1>1, <2>1, <2>2 DEF PlaceInv, ModeOf, AtTarget, PCs
  <2> QED BY <1>3, <2>3 DEF TypeInv
<1>6. CASE Fail("failed")
  BY <1>1, <1>3, <1>6, FailMoves, MovesPlace DEF TypeInv
<1>7. CASE Exit
  BY <1>3, <1>7, ExitPlace DEF TypeInv
<1> QED BY <1>2, <1>4, <1>5, <1>6, <1>7

\* Types over a drop-in put back.
LEMMA PutBackTypes == ASSUME TypeInv, PutBack PROVE TypeInv'
<1>1. pc = "putback" /\ UNCHANGED rec /\ pc \in Places /\ Cur \in Targets /\ mem.mode = "release"
  BY CurIsTarget DEF PutBack, TypeInv, PlaceInv, ModeOf, Places, AtTarget, PCs
<1>2. /\ {drop', quar'} \subseteq [Targets -> Files]
      /\ left' \in [{"commands", "kills", "faults", "edits"} -> Nat]
      /\ Goto("reloadback") \/ Fail("failed") \/ Exit
  BY <1>1, PutBackCalls, FilesMoveTypes, SpendsTypes
<1>3. DataInv'
  BY <1>1, <1>2, RecordKept DEF TypeInv, DataInv, TypeOK, PutBack, system
<1>4. Goto("reloadback") => Moves
  BY <1>1 DEF Goto, Moves, ModeOf, Places, AtTarget, PCs
<1>5. PlaceInv'
  BY <1>1, <1>2, <1>4, FailMoves, MovesPlace, ExitPlace
<1> QED BY <1>3, <1>5 DEF TypeInv

\* Types over the reload after it.
LEMMA ReloadBackTypes == ASSUME TypeInv, ReloadBack PROVE TypeInv'
<1>1. pc = "reloadback" /\ UNCHANGED rec /\ pc \in Places /\ Fail("failed")
  BY DEF ReloadBack, durable, Places, AtTarget, PCs
<1>2. DataInv'
  BY SpendTypes, RecordKept DEF ReloadBack, durable, Free, TypeInv, DataInv, TypeOK
<1> QED BY <1>1, <1>2, FailMoves, MovesPlace DEF TypeInv

\* Types over the end of a selection.
LEMMA AppliedTypes == ASSUME TypeInv, Applied PROVE TypeInv'
<1>1. /\ pc = "applied" /\ rec # None /\ mem \in Memory /\ mem.mode \in {"apply", "release"}
      /\ Scope \subseteq Targets /\ rec.cand \in Settings
  BY DEF Applied, TypeInv, DataInv, RecordInv, PlaceInv, ModeOf
<1>2. CASE /\ pc' = "release" /\ mem' = [mem EXCEPT !.mode = "release", !.todo = Dropped]
           /\ Dropped # {} /\ UNCHANGED <<store, rec>>
  <2>1. DataInv'
    BY <1>2, RecordKept DEF Applied, system, TypeInv, DataInv, TypeOK
  <2>2. Dropped \subseteq Scope /\ UNCHANGED <<Scope, Selected, Dropped>>
    BY <1>2 DEF Scope, Selected, Dropped
  <2>3. mem' \in Memory /\ mem'.mode = "release" /\ mem'.todo = Dropped
    BY <1>1, <1>2, <2>2 DEF Memory
  <2>4. PlaceInv'
    BY <1>1, <1>2, <2>2, <2>3 DEF PlaceInv, ModeOf, AtTarget, PCs
  <2> QED BY <2>1, <2>4 DEF TypeInv
<1>3. CASE store' = rec.cand /\ rec' = None /\ Exit
  <2>1. DataInv'
    BY <1>1, <1>3 DEF Applied, system, TypeInv, DataInv, TypeOK, RecordInv
  <2> QED BY <1>3, <2>1, ExitPlace DEF TypeInv
<1>4. CASE pc' = "failed" /\ UNCHANGED <<mem, store, rec>>
  <2>1. DataInv'
    BY <1>4, RecordKept DEF Applied, system, TypeInv, DataInv, TypeOK
  <2>2. PlaceInv'
    BY <1>1, <1>4 DEF PlaceInv, ModeOf, AtTarget, PCs
  <2> QED BY <2>1, <2>2 DEF TypeInv
<1> QED BY <1>2, <1>3, <1>4 DEF Applied

\* The start of a compensation, and of a recovery.
LEMMA CompensateTypes ==
  ASSUME TypeInv, Compensate \/ Exit, rec # None, UNCHANGED <<durable, system, touched, left>>
  PROVE  TypeInv'
<1>1. DataInv' /\ UNCHANGED rec
  BY RecordKept DEF durable, system, TypeInv, DataInv, TypeOK
<1>2. CASE pc' = "undo" /\ mem' = [Fresh EXCEPT !.mode = "undo", !.todo = Scope]
  <2>1. Scope \subseteq Targets /\ Scope # {}
    BY DEF TypeInv, DataInv, RecordInv
  <2>2. mem' \in Memory /\ mem'.mode = "undo" /\ mem'.todo = Scope
    BY <1>2, <2>1 DEF Memory, Fresh, Files, Errors
  <2>3. UNCHANGED Scope
    BY <1>1 DEF Scope
  <2>4. PlaceInv'
    BY <1>1, <1>2, <2>1, <2>2, <2>3 DEF PlaceInv, ModeOf, AtTarget, PCs
  <2> QED BY <1>1, <2>4 DEF TypeInv
<1>3. CASE Exit
  BY <1>1, <1>3, ExitPlace DEF TypeInv
<1> QED BY <1>2, <1>3 DEF Compensate

\* Types over the announcement of a compensation.
LEMMA UndoTypes == ASSUME TypeInv, Undo PROVE TypeInv'
<1> DEFINE i == rec.image[Cur]
           goal == IF i.before # None THEN Entry("prepared", i.before.managed, i.before.managed)
                   ELSE IF jr[Cur] = None THEN None ELSE [jr[Cur] EXCEPT !.phase = "restoring"]
           onwards == pc' = "rewrite" /\ mem' = [mem EXCEPT !.seen = Raw(Cur)]
<1>1. /\ pc = "undo" /\ UNCHANGED rec /\ pc \in Places /\ Cur \in Targets /\ Cur \in Scope /\ rec # None
      /\ jr[Cur] \in Entries \cup {None} /\ mem \in Memory /\ mem.mode = "undo"
      /\ mem.todo # {} /\ mem.todo \subseteq Scope
  BY CurIsTarget DEF Undo, TypeInv, DataInv, TypeOK, PlaceInv, ModeOf, Places, AtTarget, PCs
<1>2. goal \in Entries \cup {None} /\ Sound(goal)
  <2>1. CASE i.before # None
    <3>1. i.before.managed \in Contents
      BY <1>1, <2>1, ImageTypes
    <3> QED BY <2>1, <3>1 DEF Sound, Entry, Entries
  <2>2. CASE i.before = None /\ jr[Cur] # None
    BY <1>1, <2>2, RestoringType
  <2>3. CASE i.before = None /\ jr[Cur] = None
    BY <2>3 DEF Sound
  <2> QED BY <2>1, <2>2, <2>3
<1>3. /\ jr' = jr \/ jr' = [jr EXCEPT ![Cur] = goal]
      /\ left' = left \/ Spend("faults")
      /\ Succeed \/ Fail("failed") \/ (onwards /\ ContentAllowed(i, Raw(Cur)))
  BY DEF Undo, SaveEntry, Free
<1> HIDE DEF goal
<1>4. DataInv'
  BY <1>1, <1>2, <1>3, EntryTypes, SpendTypes, RecordKept
     DEF Undo, system, TypeInv, DataInv, TypeOK
<1>5. CASE onwards /\ ContentAllowed(i, Raw(Cur))
  <2>1. Raw(Cur) \in Contents \cup {None}
    BY <1>1, <1>5, ContentAllowedType
  <2>2. mem' \in Memory /\ mem'.mode = "undo" /\ mem'.todo = mem.todo /\ mem'.seen \in Contents \cup {None}
    BY <1>1, <1>5, <2>1 DEF Memory, Files
  <2>3. UNCHANGED Scope
    BY <1>1 DEF Scope
  <2>4. PlaceInv'
    BY <1>1, <1>5, <2>2, <2>3 DEF PlaceInv, ModeOf, AtTarget, PCs
  <2> QED BY <1>4, <2>4 DEF TypeInv
<1>6. CASE Succeed \/ Fail("failed")
  BY <1>1, <1>4, <1>6, SucceedMoves, FailMoves, MovesPlace DEF TypeInv
<1> QED BY <1>3, <1>5, <1>6

\* Types over the file of a compensation.
LEMMA RewriteTypes == ASSUME TypeInv, JournalInv, Rewrite PROVE TypeInv'
<1>1. pc = "rewrite" /\ UNCHANGED rec /\ pc \in Places /\ Cur \in Targets /\ mem.mode = "undo"
  BY CurIsTarget DEF Rewrite, TypeInv, PlaceInv, ModeOf, Places, AtTarget, PCs
<1>2. /\ {drop', quar'} \subseteq [Targets -> Files]
      /\ left' \in [{"commands", "kills", "faults", "edits"} -> Nat]
      /\ Goto("reload") \/ Fail("failed") \/ Exit
  BY <1>1, RewriteCalls, FilesMoveTypes, SpendsTypes
<1>3. DataInv'
  BY <1>1, <1>2, RecordKept DEF TypeInv, DataInv, TypeOK, Rewrite, system
<1>4. Goto("reload") => Moves
  BY <1>1 DEF Goto, Moves, ModeOf, Places, AtTarget, PCs
<1>5. PlaceInv'
  BY <1>1, <1>2, <1>4, FailMoves, MovesPlace, ExitPlace
<1> QED BY <1>3, <1>5 DEF TypeInv

\* Types over the end of a compensation.
LEMMA UndoneTypes == ASSUME TypeInv, Undone PROVE TypeInv'
<1>1. RecordInv'
  BY DEF Undone, TypeInv, DataInv, RecordInv, Scope, Selected
<1>2. DataInv'
  BY <1>1 DEF Undone, system, TypeInv, DataInv, TypeOK
<1> QED BY <1>2, ExitPlace DEF Undone, TypeInv

\* The rest of the world.
LEMMA WorldTypes ==
  ASSUME TypeInv,
         Kill \/ ReloadByOthers \/ (\E t \in Targets : JobDone(t) \/ StartStop(t) \/ Edit(t))
  PROVE  TypeInv'
<1> DEFINE R == [running : BOOLEAN, env : Files, job : BOOLEAN]
<1>1. svc \in [Targets -> R] /\ loaded \in [Targets -> Files] /\ drop \in [Targets -> Files]
  BY DEF TypeInv, DataInv, TypeOK
<1>2. /\ \A x \in Files : [running |-> TRUE, env |-> x, job |-> FALSE] \in R
      /\ [running |-> FALSE, env |-> None, job |-> FALSE] \in R
  BY DEF Files
<1>3. CASE Kill
  <2>1. DataInv'
    BY <1>3, SpendTypes, RecordKept DEF Kill, durable, system, TypeInv, DataInv, TypeOK
  <2> QED BY <1>3, <2>1, ExitPlace DEF Kill, TypeInv
<1>4. ASSUME ~Kill, ReloadByOthers \/ (\E t \in Targets : JobDone(t) \/ StartStop(t) \/ Edit(t))
      PROVE  TypeInv'
  <2>1. UNCHANGED <<store, rec, jr, pc, mem>>
    BY <1>4 DEF ReloadByOthers, JobDone, StartStop, Edit, durable
  <2>2. PlaceInv'
    <3>1. UNCHANGED <<Scope, Selected, Dropped>>
      BY <2>1 DEF Scope, Selected, Dropped
    <3> QED BY <2>1, <3>1 DEF TypeInv, PlaceInv, ModeOf
  <2>3. left' \in [{"commands", "kills", "faults", "edits"} -> Nat]
    BY <1>4, SpendTypes DEF ReloadByOthers, JobDone, StartStop, Edit, TypeInv, DataInv, Free
  <2>4. svc' \in [Targets -> R]
    <3>1. CASE ReloadByOthers \/ \E t \in Targets : Edit(t)
      BY <1>1, <3>1 DEF ReloadByOthers, Edit
    <3>2. ASSUME NEW t \in Targets, JobDone(t) PROVE svc' \in [Targets -> R]
      <4> HIDE DEF R
      <4> QED BY <1>1, <1>2, <3>2 DEF JobDone
    <3>3. ASSUME NEW t \in Targets, StartStop(t) PROVE svc' \in [Targets -> R]
      <4> HIDE DEF R
      <4> QED BY <1>1, <1>2, <3>3 DEF StartStop
    <3> QED BY <1>4, <3>1, <3>2, <3>3
  <2>5. {drop', quar', loaded'} \subseteq [Targets -> Files]
    <3>1. {Foreign, None} \subseteq Files
      BY DEF Files
    <3> QED BY <1>1, <1>4, <3>1
            DEF ReloadByOthers, JobDone, StartStop, Edit, durable, TypeInv, DataInv, TypeOK
  <2>6. unit' \in [Targets -> {"valid", "replaced", "absent"}] /\ touched' \subseteq Targets
    BY <1>4 DEF ReloadByOthers, JobDone, StartStop, Edit, TypeInv, DataInv, TypeOK
  <2>7. DataInv'
    BY <2>1, <2>3, <2>4, <2>5, <2>6, RecordKept DEF TypeInv, DataInv, TypeOK
  <2> QED BY <2>2, <2>7 DEF TypeInv
<1> QED BY <1>3, <1>4

\* Every step keeps the types.
LEMMA StepTypes == TypeInv /\ JournalInv /\ [Next]_vars => TypeInv'
<1> SUFFICES ASSUME TypeInv, JournalInv, [Next]_vars PROVE TypeInv'
  OBVIOUS
<1>1. CASE \E cand \in Settings : Plan(cand)
  BY <1>1, PlanTypes
<1>2. CASE Process
  <2>1. CASE Validate \/ Prepare \/ Write \/ Reload \/ Check \/ Wait
    BY <2>1, ValidateTypes, PrepareTypes, WriteTypes, ReloadTypes, CheckTypes, WaitTypes
  <2>2. CASE CommitApply \/ Forget \/ Release \/ RemoveDropIn \/ PutBack \/ ReloadBack \/ Applied
    BY <2>2, CommitApplyTypes, ForgetTypes, ReleaseTypes, RemoveDropInTypes, PutBackTypes,
       ReloadBackTypes, AppliedTypes
  <2>3. CASE Failed
    <3>1. rec # None
      BY <2>3 DEF Failed, TypeInv, PlaceInv
    <3> QED BY <2>3, <3>1, CompensateTypes DEF Failed
  <2>4. CASE Undo \/ Rewrite \/ Settle \/ Undone
    BY <2>4, UndoTypes, RewriteTypes, SettleTypes, UndoneTypes
  <2> QED BY <1>2, <2>1, <2>2, <2>3, <2>4 DEF Process
<1>3. CASE Recover
  BY <1>3, CompensateTypes DEF Recover
<1>4. CASE Kill \/ ReloadByOthers \/ (\E t \in Targets : JobDone(t) \/ StartStop(t) \/ Edit(t))
  BY <1>4, WorldTypes
<1>5. CASE UNCHANGED vars
  <2>1. UNCHANGED <<Scope, Selected, Dropped>>
    BY <1>5 DEF vars, durable, Scope, Selected, Dropped
  <2>2. PlaceInv'
    BY <1>5, <2>1 DEF vars, durable, TypeInv, PlaceInv, ModeOf
  <2>3. DataInv'
    BY <1>5, RecordKept DEF vars, durable, system, TypeInv, DataInv, TypeOK
  <2> QED BY <2>2, <2>3 DEF TypeInv
<1> QED BY <1>1, <1>2, <1>3, <1>4, <1>5 DEF Next

-----------------------------------------------------------------------------
(* What the journal says.                                                  *)

\* A step changes no entry but the current target's.
OnlyCur == \A t \in Targets : t # Cur => jr'[t] = jr[t]

CurInv == pc \in AtTarget => Cur \in mem.todo /\ Cur \in Targets

\* The target whose turn it is, as a state predicate.
LEMMA CurIsTargetInv == TypeInv => CurInv
BY CurIsTarget DEF CurInv

\* The same of the next state.
LEMMA CurIsTargetLater == TypeInv' => CurInv'
BY CurIsTargetInv, PTL

\* The same, where it is needed.
LEMMA CurIsTargetNext ==
  ASSUME TypeInv', pc' \in AtTarget
  PROVE  Cur' \in mem'.todo /\ Cur' \in Targets
BY CurIsTargetLater DEF CurInv

\* Without a commit or a record written, the scope is the same.
LEMMA SameRecord ==
  ASSUME UNCHANGED <<store, rec>>
  PROVE  /\ UNCHANGED <<Scope, Selected, Dropped>>
         /\ \A t \in Targets : Clean(store, t)' = Clean(store, t)
BY DEF Scope, Selected, Dropped, Clean

\* The parts of a scope.
LEMMA RecordFacts ==
  ASSUME TypeInv, rec # None
  PROVE  /\ Scope \subseteq Targets /\ Selected \subseteq Scope /\ Dropped = Scope \ Selected
BY DEF TypeInv, DataInv, RecordInv, Dropped

\* A turn that is passed without an error leaves the entry that was asked for.
LEMMA AfterJournal ==
  ASSUME TypeInv, TypeInv', JournalInv, pc \in Places, NEW err \in Errors, After(err),
         UNCHANGED <<store, rec>>, OnlyCur,
         err = "none" => /\ mem.err = "none"
                         /\ mem.mode = "apply" => jr'[Cur] = Active(rec.cand.proxy)
                         /\ mem.mode = "release" => jr'[Cur] = None
                         /\ mem.mode = "undo" => jr'[Cur] = rec.image[Cur].before
  PROVE  JournalInv'
<1>1. /\ rec # None /\ mem.mode \in {"apply", "release", "undo"}
      /\ Cur \in mem.todo /\ Cur \in Targets /\ Cur \in Scope
  BY CurIsTarget, ModeAtPlace DEF Places
<1>2. /\ Scope \subseteq Targets /\ Selected \subseteq Scope /\ Dropped = Scope \ Selected
      /\ UNCHANGED <<Scope, Selected, Dropped>>
      /\ \A t \in Targets : Clean(store, t)' = Clean(store, t)
  BY <1>1, RecordFacts, SameRecord
<1>3. /\ mem'.mode = mem.mode /\ mem'.err = err /\ mem'.todo = mem.todo \ {Cur}
      /\ pc' = IF mem'.todo = {} THEN LoopEnd ELSE LoopStart
      /\ pc' \in AtTarget => Cur' \in mem'.todo
  BY CurIsTargetNext DEF After
<1>4. /\ rec' # None
      /\ \A t \in Scope : rec.image[t].before = Clean(store, t)
      /\ \A t \in Targets \ Scope : jr'[t] = None /\ Clean(store, t) = None
  BY <1>1 DEF JournalInv, OnlyCur
<1>5. CASE mem.mode = "apply"
  <2>1. pc' = IF mem'.todo = {} THEN "applied" ELSE "check"
    BY <1>3, <1>5 DEF LoopStart, LoopEnd
  <2>2. mem.todo \subseteq Selected /\ pc \in Reconciling
    BY <1>5 DEF TypeInv, PlaceInv, ModeOf, Places, AtTarget, PCs, Reconciling
  <2>3. \A t \in mem'.todo : jr'[t] # None /\ jr'[t].phase = "prepared" /\ jr'[t].pending = rec.cand.proxy
    BY <1>1, <1>2, <1>3, <1>5, <2>2 DEF JournalInv, OnlyCur, Reconciling
  <2>4. err = "none" => \A t \in Selected \ mem'.todo : jr'[t] = Active(rec.cand.proxy)
    BY <1>1, <1>2, <1>3, <1>5, <2>2 DEF JournalInv, OnlyCur, Reconciling, Open
  <2>5. \A t \in Dropped : jr'[t] = rec.image[t].before
    BY <1>1, <1>2, <1>5, <2>2 DEF JournalInv, OnlyCur
  <2> QED BY <1>2, <1>3, <1>4, <1>5, <2>1, <2>3, <2>4, <2>5 DEF JournalInv, Open, Reconciling
<1>6. CASE mem.mode = "release"
  <2>1. pc' = IF mem'.todo = {} THEN "applied" ELSE "release"
    BY <1>3, <1>6 DEF LoopStart, LoopEnd
  <2>2. mem.todo \subseteq Dropped /\ pc \in AtTarget
    BY <1>6 DEF TypeInv, PlaceInv, Places
  <2>3. \A t \in mem'.todo : jr'[t] = rec.image[t].before
    BY <1>1, <1>2, <1>3, <1>6, <2>2 DEF JournalInv, OnlyCur
  <2>4. err = "none" => /\ \A t \in Selected : jr'[t] = Active(rec.cand.proxy)
                        /\ \A t \in Dropped \ mem'.todo : jr'[t] = None
    BY <1>1, <1>2, <1>3, <1>6, <2>2 DEF JournalInv, OnlyCur
  <2> QED BY <1>2, <1>3, <1>4, <1>6, <2>1, <2>3, <2>4 DEF JournalInv, Reconciling, AtTarget, PCs
<1>7. CASE mem.mode = "undo"
  <2>1. pc' = IF mem'.todo = {} THEN "undone" ELSE "undo"
    BY <1>3, <1>7 DEF LoopStart, LoopEnd
  <2>2. err = "none" => \A t \in Scope \ mem'.todo : jr'[t] = rec.image[t].before
    BY <1>1, <1>2, <1>3, <1>7 DEF JournalInv, OnlyCur
  <2> QED BY <1>2, <1>3, <1>4, <1>7, <2>1, <2>2 DEF JournalInv, Reconciling
<1> QED BY <1>1, <1>5, <1>6, <1>7

\* The loop that prepares leaves prepared entries for what it will restart.
LEMMA PreparedJournal ==
  ASSUME TypeInv, TypeInv', JournalInv, pc \in {"prepare", "write"}, NEW err \in Errors,
         NEW a \in SUBSET Selected, Prepared(err, a), UNCHANGED <<store, rec>>, OnlyCur,
         \A t \in a : jr'[t] # None /\ jr'[t].phase = "prepared" /\ jr'[t].pending = rec.cand.proxy,
         err = "none" => /\ mem.err = "none" /\ mem.act \subseteq a
                         /\ Cur \in a \/ jr'[Cur] = Active(rec.cand.proxy)
  PROVE  JournalInv'
<1>1. /\ rec # None /\ mem.mode = "apply"
      /\ Cur \in mem.todo /\ Cur \in Targets /\ Cur \in Scope /\ mem.todo \subseteq Scope
  BY CurIsTarget DEF TypeInv, PlaceInv, ModeOf, AtTarget, PCs
<1>2. /\ Scope \subseteq Targets /\ Selected \subseteq Scope
      /\ UNCHANGED <<Scope, Selected, Dropped>>
      /\ \A t \in Targets : Clean(store, t)' = Clean(store, t)
  BY <1>1, RecordFacts, SameRecord
<1>3. /\ rec' # None
      /\ \A t \in Scope : rec.image[t].before = Clean(store, t)
      /\ \A t \in Targets \ Scope : jr'[t] = None /\ Clean(store, t) = None
  BY <1>1 DEF JournalInv, OnlyCur
<1>4. /\ mem'.mode = "apply" /\ mem'.err = err /\ mem'.act = a
      /\ \/ pc' = "prepare" /\ mem'.todo = mem.todo \ {Cur}
         \/ /\ mem.todo \ {Cur} = {} /\ mem'.todo = a
            /\ pc' = IF a = {} THEN "applied" ELSE "reload"
  BY <1>1 DEF Prepared
<1>5. \A t \in mem.todo \ {Cur} : jr'[t] = rec.image[t].before
  BY <1>1, <1>2 DEF JournalInv, OnlyCur
<1>6. err = "none" => \A t \in Selected \ ((mem.todo \ {Cur}) \cup a) : jr'[t] = Active(rec.cand.proxy)
  BY <1>1, <1>2 DEF JournalInv, OnlyCur, Open
<1>7. \A t \in Dropped : jr'[t] = rec.image[t].before
  <2>1. mem.todo \subseteq Selected /\ Dropped = Scope \ Selected
    BY <1>1, RecordFacts DEF TypeInv, PlaceInv, AtTarget, PCs
  <2> QED BY <1>1, <1>2, <2>1 DEF JournalInv, OnlyCur
<1> QED BY <1>2, <1>3, <1>4, <1>5, <1>6, <1>7 DEF JournalInv, Open, Reconciling

\* A process that goes leaves the entries outside the scope of its record alone.
LEMMA ExitJournal ==
  ASSUME TypeInv, JournalInv, Exit, UNCHANGED <<store, rec>>,
         UNCHANGED jr \/ (pc \in AtTarget /\ OnlyCur)
  PROVE  JournalInv'
<1>1. UNCHANGED <<Scope, Selected, Dropped>> /\ \A t \in Targets : Clean(store, t)' = Clean(store, t)
  BY SameRecord
<1>2. pc \in AtTarget => rec # None /\ Cur \in Scope
  BY CurIsTarget DEF TypeInv, PlaceInv, AtTarget
<1>3. /\ rec = None => \A t \in Targets : jr'[t] = Clean(store, t)
      /\ rec # None => \A t \in Targets \ Scope : jr'[t] = None
  BY <1>2 DEF JournalInv, OnlyCur
<1>4. pc' = "idle" /\ mem'.mode = None
  BY DEF Exit, Fresh
<1> QED BY <1>1, <1>3, <1>4, SentinelAssumption DEF JournalInv, Reconciling

\* A step that leaves the journal alone, and fails or leaves a compensation.
LEMMA FailJournal ==
  ASSUME TypeInv, TypeInv', JournalInv, pc \in Places, NEW e \in {"failed", "unsettled"}, Fail(e),
         UNCHANGED <<store, rec>>, OnlyCur
  PROVE  JournalInv'
<1>1. CASE Exit
  BY <1>1, ExitJournal DEF Places
<1>2. CASE After(Worse(e)) /\ Worse(e) \in {"failed", "unsettled"}
  BY <1>2, AfterJournal DEF Errors
<1> QED BY <1>1, <1>2, FailPasses

\* A restart that is refused leaves the entry as announced.
LEMMA RefusedJournal ==
  ASSUME TypeInv, TypeInv', JournalInv, pc \in {"reload", "check", "wait"},
         NEW e \in {"failed", "unsettled"}, Refused(e), UNCHANGED <<store, rec, jr>>
  PROVE  JournalInv'
<1>1. pc \in Places /\ OnlyCur
  BY DEF Places, AtTarget, PCs, OnlyCur
<1>2. CASE Fail(e)
  BY <1>1, <1>2, FailJournal
<1>3. CASE mem.mode = "release" /\ pc' = "putback" /\ UNCHANGED mem
  <2>1. UNCHANGED <<Scope, Selected, Dropped, Cur>> /\ \A t \in Targets : Clean(store, t)' = Clean(store, t)
    BY <1>3, SameRecord DEF Cur
  <2> QED BY <1>3, <2>1, ModeAtPlace DEF JournalInv, Reconciling, Places, AtTarget, PCs
<1> QED BY <1>2, <1>3 DEF Refused

\* The journal over the initial states.
LEMMA InitJournal == Init => JournalInv
<1> SUFFICES ASSUME Init PROVE JournalInv
  OBVIOUS
<1>1. \A t \in Targets : Clean(store, t) = None
  BY DEF Init, Off, Clean
<1> QED BY <1>1, SentinelAssumption DEF Init, JournalInv, Fresh, Reconciling

\* The journal over the plan.
LEMMA PlanJournal ==
  ASSUME TypeInv, JournalInv, NEW cand \in Settings, Plan(cand), TypeInv'
  PROVE  JournalInv'
<1>1. /\ rec = None /\ UNCHANGED <<store, jr>> /\ pc' = "validate"
      /\ mem' = [Fresh EXCEPT !.mode = "apply"]
      /\ rec' = [cand |-> cand, image |-> [t \in cand.sel \cup Released(cand) |-> Image(t, cand)]]
  BY DEF Plan
<1>2. mem'.mode = "apply"
  BY <1>1 DEF Fresh
<1>3. Scope' = cand.sel \cup Released(cand) /\ \A t \in Scope' : rec'.image[t].before = jr[t]
  BY <1>1 DEF Scope, Image
<1>4. \A t \in Targets : Clean(store, t)' = Clean(store, t) /\ jr[t] = Clean(store, t)
  BY <1>1 DEF Clean, JournalInv
<1>5. \A t \in Targets \ Scope' : jr[t] = None
  BY <1>3 DEF Released
<1>6. rec' # None /\ Scope' \subseteq Targets
  BY <1>1 DEF TypeInv, DataInv, RecordInv, PlaceInv
<1>7. \A t \in Dropped' : jr'[t] = rec'.image[t].before
  BY <1>1, <1>3 DEF Dropped
<1> QED BY <1>1, <1>2, <1>3, <1>4, <1>5, <1>6, <1>7 DEF JournalInv, Reconciling

\* The journal over the second validation.
LEMMA ValidateJournal ==
  ASSUME TypeInv, JournalInv, Validate, TypeInv'
  PROVE  JournalInv'
<1>1. /\ pc = "validate" /\ rec # None /\ UNCHANGED <<store, rec, jr>> /\ mem \in Memory
      /\ mem.mode = "apply" /\ mem.act = {} /\ mem.todo = {}
  BY DEF Validate, durable, TypeInv, PlaceInv, ModeOf, Fresh
<1>2. /\ Scope \subseteq Targets /\ Selected \subseteq Scope /\ Dropped = Scope \ Selected
      /\ UNCHANGED <<Scope, Selected, Dropped>>
      /\ \A t \in Targets : Clean(store, t)' = Clean(store, t)
  BY <1>1, RecordFacts, SameRecord
<1>3. CASE /\ pc' = "prepare" /\ mem' = [mem EXCEPT !.todo = Selected]
           /\ \A t \in Scope : jr[t] = rec.image[t].before
  <2>1. mem'.mode = "apply" /\ mem'.todo = Selected /\ mem'.act = {}
    BY <1>1, <1>3 DEF Memory
  <2> QED BY <1>1, <1>2, <1>3, <2>1 DEF JournalInv, Open, Reconciling
<1>4. CASE /\ pc' = "release" /\ mem' = [mem EXCEPT !.mode = "release", !.todo = Dropped]
           /\ Selected = {} /\ \A t \in Scope : jr[t] = rec.image[t].before
  <2>1. mem'.mode = "release" /\ mem'.todo = Dropped
    BY <1>1, <1>4 DEF Memory
  <2>2. Cur' \in mem'.todo
    BY <1>4, CurIsTargetNext DEF AtTarget, PCs
  <2> QED BY <1>1, <1>2, <1>4, <2>1, <2>2 DEF JournalInv, Reconciling, AtTarget, PCs
<1>5. CASE pc' = "failed" /\ mem' = [mem EXCEPT !.err = "failed"]
  <2>1. mem'.mode = "apply" /\ mem'.err = "failed"
    BY <1>1, <1>5 DEF Memory
  <2> QED BY <1>1, <1>2, <1>5, <2>1 DEF JournalInv, Reconciling
<1>6. \/ /\ pc' = "prepare" /\ mem' = [mem EXCEPT !.todo = Selected]
         /\ \A t \in Scope : jr[t] = rec.image[t].before
      \/ /\ pc' = "release" /\ mem' = [mem EXCEPT !.mode = "release", !.todo = Dropped]
         /\ Selected = {} /\ \A t \in Scope : jr[t] = rec.image[t].before
      \/ pc' = "failed" /\ mem' = [mem EXCEPT !.err = "failed"]
  BY DEF Validate
<1> QED BY <1>3, <1>4, <1>5, <1>6

\* A failure in the loop that prepares leaves what is prepared.
LEMMA PrepareFailedJournal ==
  ASSUME TypeInv, TypeInv', JournalInv, pc \in {"prepare", "write"}, PrepareFailed,
         UNCHANGED <<store, rec>>, OnlyCur, UNCHANGED jr \/ Cur \notin mem.act
  PROVE  JournalInv'
<1> DEFINE m == [mem EXCEPT !.err = Worse("failed")]
<1>1. /\ mem \in Memory /\ mem.mode = "apply" /\ mem.act \subseteq Selected
      /\ rec # None /\ Selected \subseteq Targets
  BY RecordFacts DEF TypeInv, PlaceInv, ModeOf
<1>2. m \in Memory /\ m.mode = mem.mode /\ m.err \in {"failed", "unsettled"} /\ m.act = mem.act
  BY <1>1 DEF Memory, Worse, Errors
<1>3. PrepareNext(m)
  BY DEF PrepareFailed
<1> HIDE DEF m
<1>4. Prepared(m.err, m.act)
  BY <1>2, <1>3, PreparePasses
<1>5. \A t \in m.act : jr'[t] # None /\ jr'[t].phase = "prepared" /\ jr'[t].pending = rec.cand.proxy
  BY <1>1, <1>2 DEF JournalInv, OnlyCur
<1>6. m.err \in Errors /\ m.err # "none" /\ m.act \in SUBSET Selected
  BY <1>1, <1>2 DEF Errors
<1> QED BY <1>4, <1>5, <1>6, PreparedJournal

\* The journal over the announcement of an apply.
LEMMA PrepareJournal ==
  ASSUME TypeInv, TypeInv', JournalInv, Prepare
  PROVE  JournalInv'
<1> DEFINE t == Cur
           c == rec.cand.proxy
           e == Entry("prepared", IF jr[t] = None THEN c ELSE jr[t].managed, c)
<1>1. /\ pc = "prepare" /\ mem \in Memory /\ mem.mode = "apply" /\ rec # None /\ UNCHANGED <<store, rec>>
      /\ mem.todo # {} /\ mem.todo \subseteq Selected /\ mem.act \subseteq Selected
      /\ t \in Targets /\ Selected \subseteq Targets /\ t \in mem.todo /\ t \in Scope
  BY CurIsTarget, RecordFacts DEF Prepare, TypeInv, PlaceInv, ModeOf, AtTarget, PCs
<1>2. Selected # {} /\ c \in Contents
  BY <1>1, CandTypes
<1>3. jr[t] \in Entries \cup {None} /\ jr[t] = rec.image[t].before
  BY <1>1 DEF TypeInv, DataInv, TypeOK, JournalInv
<1>4. e \in Entries /\ e # None /\ e.phase = "prepared" /\ e.pending = c
  BY <1>2, <1>3, SentinelAssumption DEF Entry, Entries
<1>5. jr' = jr \/ jr' = [jr EXCEPT ![t] = e]
  BY DEF Prepare, SaveEntry
<1> HIDE DEF e
<1>6. OnlyCur /\ jr' \in [Targets -> Entries \cup {None}]
  BY <1>1, <1>4, <1>5 DEF OnlyCur, TypeInv, DataInv, TypeOK
<1>7. t \notin mem.act
  BY <1>1, <1>3, ImageTypes DEF JournalInv
<1>8. CASE PrepareFailed
  BY <1>1, <1>6, <1>7, <1>8, PrepareFailedJournal
<1>9. CASE PrepareNext(mem) /\ UNCHANGED jr /\ jr[t] = Active(c)
  <2>1. Prepared(mem.err, mem.act)
    BY <1>1, <1>9, PreparePasses
  <2>2. mem.err \in Errors
    BY <1>1 DEF Memory
  <2>3. \A u \in mem.act : jr'[u] # None /\ jr'[u].phase = "prepared" /\ jr'[u].pending = rec.cand.proxy
    BY <1>1, <1>9 DEF JournalInv
  <2> QED BY <1>1, <1>6, <1>9, <2>1, <2>2, <2>3, PreparedJournal
<1>10. CASE pc' = "write" /\ mem' = [mem EXCEPT !.seen = drop[t]] /\ jr' = [jr EXCEPT ![t] = e]
  <2>1. /\ mem'.mode = "apply" /\ mem'.todo = mem.todo /\ mem'.act = mem.act /\ mem'.err = mem.err
    BY <1>1, <1>10 DEF Memory
  <2>2. UNCHANGED <<Scope, Selected, Dropped, Cur>> /\ \A u \in Targets : Clean(store, u)' = Clean(store, u)
    BY <1>1, <2>1, SameRecord DEF Cur
  <2>3. jr'[t] = e
    BY <1>1, <1>10 DEF TypeInv, DataInv, TypeOK
  <2>4. /\ \A u \in mem.act : jr'[u] # None /\ jr'[u].phase = "prepared" /\ jr'[u].pending = rec.cand.proxy
        /\ \A u \in mem.todo \ {t} : jr'[u] = rec.image[u].before
    BY <1>1, <1>6, <1>7 DEF JournalInv, OnlyCur
  <2>5. mem.err = "none" => \A u \in Selected \ (mem.todo \cup mem.act) : jr'[u] = Active(c)
    BY <1>1, <1>6 DEF JournalInv, OnlyCur, Open
  <2>6. \A u \in Scope : rec.image[u].before = Clean(store, u)
    BY <1>1 DEF JournalInv
  <2>7. \A u \in Targets \ Scope : jr'[u] = None /\ Clean(store, u) = None
    BY <1>1, <1>6 DEF JournalInv, OnlyCur
  <2>8. \A u \in Dropped : jr'[u] = rec.image[u].before
    BY <1>1, <1>6, RecordFacts DEF JournalInv, OnlyCur
  <2> QED BY <1>1, <1>4, <1>10, <2>1, <2>2, <2>3, <2>4, <2>5, <2>6, <2>7, <2>8 DEF JournalInv, Open, Reconciling
<1>11. \/ PrepareFailed
       \/ PrepareNext(mem) /\ UNCHANGED jr /\ jr[t] = Active(c)
       \/ pc' = "write" /\ mem' = [mem EXCEPT !.seen = drop[t]] /\ jr' = [jr EXCEPT ![t] = e]
  BY DEF Prepare, SaveEntry, e
<1> QED BY <1>8, <1>9, <1>10, <1>11

\* The journal over the write of a drop-in.
LEMMA WriteJournal ==
  ASSUME TypeInv, TypeInv', JournalInv, Write
  PROVE  JournalInv'
<1>1. /\ pc = "write" /\ mem \in Memory /\ mem.mode = "apply" /\ rec # None /\ UNCHANGED <<store, rec, jr>>
      /\ mem.todo \subseteq Selected /\ mem.act \subseteq Selected /\ Cur \in mem.todo
      /\ OnlyCur /\ pc \in AtTarget
  BY CurIsTarget DEF Write, TypeInv, PlaceInv, ModeOf, AtTarget, PCs, OnlyCur
<1>2. CASE PrepareNext(Written)
  <2>1. Written \in Memory /\ Written.mode = mem.mode /\ Written.err = mem.err /\ Written.err \in Errors
        /\ Written.act = mem.act \cup {Cur} /\ Written.act \in SUBSET Selected
    BY <1>1, RecordFacts, CurIsTarget DEF Memory, Written, TypeInv, PlaceInv
  <2>2. Prepared(Written.err, Written.act)
    BY <1>1, <1>2, <2>1, PreparePasses
  <2>3. \A t \in Written.act : jr'[t] # None /\ jr'[t].phase = "prepared" /\ jr'[t].pending = rec.cand.proxy
    BY <1>1, <2>1 DEF JournalInv
  <2> QED BY <1>1, <2>1, <2>2, <2>3, PreparedJournal
<1>3. CASE PrepareFailed
  BY <1>1, <1>3, PrepareFailedJournal
<1>4. CASE Exit
  BY <1>1, <1>4, ExitJournal
<1> QED BY <1>2, <1>3, <1>4, WriteCalls

\* A step to another place at the same target.
LEMMA StayJournal ==
  ASSUME TypeInv, TypeInv', JournalInv, pc \in Places, pc' \in Places \ {"release", "undo"},
         mem'.mode = mem.mode, mem'.todo = mem.todo, mem'.err = mem.err,
         UNCHANGED <<store, rec>>, OnlyCur,
         mem.mode = "apply" => UNCHANGED jr,
         mem.mode = "release" => jr'[Cur] # None /\ jr'[Cur].phase = "restoring",
         mem.mode = "undo" => /\ Announced(Cur)'
                              /\ pc' \in {"commit", "settle"} => rec.image[Cur].before # None
                              /\ pc' = "forget" => rec.image[Cur].before = None
  PROVE  JournalInv'
<1>1. /\ rec # None /\ mem.mode \in {"apply", "release", "undo"}
      /\ Cur \in mem.todo /\ Cur \in Targets /\ Cur \in Scope /\ Cur' = Cur
      /\ pc \in AtTarget /\ pc' \in AtTarget
  BY CurIsTarget, ModeAtPlace DEF Places, Cur
<1>2. /\ Scope \subseteq Targets /\ Selected \subseteq Scope /\ Dropped = Scope \ Selected
      /\ UNCHANGED <<Scope, Selected, Dropped>>
      /\ \A t \in Targets : Clean(store, t)' = Clean(store, t)
  BY <1>1, RecordFacts, SameRecord
<1>3. /\ \A t \in Scope : rec.image[t].before = Clean(store, t)
      /\ \A t \in Targets \ Scope : jr'[t] = None /\ Clean(store, t) = None
  BY <1>1 DEF JournalInv, OnlyCur
<1>4. pc' \notin {"prepare", "write", "applied", "undone"} /\ pc \notin {"prepare", "write", "validate"}
  BY DEF Places, AtTarget, PCs
<1>5. CASE mem.mode = "apply"
  <2>1. pc \in Reconciling /\ pc' \in Reconciling
    BY <1>4, <1>5 DEF TypeInv, PlaceInv, ModeOf, Places, AtTarget, PCs, Reconciling
  <2> QED BY <1>1, <1>2, <1>3, <1>4, <1>5, <2>1 DEF JournalInv, Open, Reconciling
<1>6. CASE mem.mode = "release"
  <2>1. mem.todo \subseteq Dropped
    BY <1>1, <1>6 DEF TypeInv, PlaceInv
  <2>2. \A t \in mem.todo \ {Cur} : jr'[t] = rec.image[t].before
    BY <1>1, <1>2, <1>6, <2>1 DEF JournalInv, OnlyCur
  <2>3. mem.err = "none" => /\ \A t \in Selected : jr'[t] = Active(rec.cand.proxy)
                            /\ \A t \in Dropped \ mem.todo : jr'[t] = None
    BY <1>1, <1>2, <1>6, <2>1 DEF JournalInv, OnlyCur
  <2> QED BY <1>1, <1>2, <1>3, <1>4, <1>6, <2>2, <2>3 DEF JournalInv
<1>7. CASE mem.mode = "undo"
  <2>1. mem.err = "none" => \A t \in Scope \ mem.todo : jr'[t] = rec.image[t].before
    BY <1>1, <1>2, <1>7 DEF JournalInv, OnlyCur
  <2> QED BY <1>1, <1>2, <1>3, <1>4, <1>7, <2>1 DEF JournalInv
<1> QED BY <1>1, <1>5, <1>6, <1>7

\* Places at which the journal has been announced.
Told == Reconciling \cup {"remove", "putback", "reloadback", "rewrite", "settle"}

\* A step between places at which the entry has been announced.
LEMMA GotoJournal ==
  ASSUME TypeInv, TypeInv', JournalInv, pc \in Told, pc' \in Told,
         mem'.mode = mem.mode, mem'.todo = mem.todo, mem'.err = mem.err,
         UNCHANGED <<store, rec, jr>>,
         mem.mode = "undo" => /\ pc' \in {"commit", "settle"} => rec.image[Cur].before # None
                              /\ pc' = "forget" => rec.image[Cur].before = None
  PROVE  JournalInv'
<1>1. pc \in Places /\ pc' \in Places \ {"release", "undo"}
  BY DEF Told, Reconciling, Places, AtTarget, PCs
<1>2. OnlyCur /\ Cur' = Cur
  BY DEF OnlyCur, Cur
<1>3. mem.mode = "release" => jr'[Cur] # None /\ jr'[Cur].phase = "restoring"
  BY DEF JournalInv, Told, TypeInv, PlaceInv, ModeOf
<1>4. mem.mode = "undo" => Announced(Cur)
  BY DEF JournalInv, Told, TypeInv, PlaceInv, ModeOf
<1>5. mem.mode = "undo" => Announced(Cur)'
  BY <1>2, <1>4 DEF Announced
<1> QED BY <1>1, <1>2, <1>3, <1>5, StayJournal

\* The commit that follows a restart fits the before-image.
LEMMA CommitJournal ==
  ASSUME TypeInv, TypeInv', JournalInv, pc \in {"reload", "check", "wait"}, Goto(Commit),
         UNCHANGED <<store, rec, jr>>
  PROVE  JournalInv'
<1>1. mem.mode \in {"apply", "release", "undo"}
  BY DEF TypeInv, PlaceInv, ModeOf
<1>2. /\ pc' \in {"commit", "forget", "settle"} /\ UNCHANGED mem
      /\ mem.mode = "undo" => /\ pc' \in {"commit", "settle"} => rec.image[Cur].before # None
                              /\ pc' = "forget" => rec.image[Cur].before = None
  BY <1>1 DEF Goto, Commit
<1> QED BY <1>2, GotoJournal DEF Told, Reconciling

\* The journal over the reload.
LEMMA ReloadJournal ==
  ASSUME TypeInv, TypeInv', JournalInv, Reload
  PROVE  JournalInv'
<1>1. pc = "reload" /\ UNCHANGED <<store, rec, jr>>
  BY DEF Reload, durable
<1>2. CASE pc' = "applied" /\ mem' = [mem EXCEPT !.todo = {}, !.err = Worse("failed")] /\ mem.mode = "apply"
  <2>1. mem'.mode = "apply" /\ mem'.todo = {} /\ mem'.err # "none"
    BY <1>1, <1>2 DEF TypeInv, PlaceInv, Memory, Worse
  <2>2. UNCHANGED <<Scope, Selected, Dropped>> /\ \A t \in Targets : Clean(store, t)' = Clean(store, t)
    BY <1>1, SameRecord
  <2>3. rec # None /\ Scope \subseteq Targets
    BY <1>1, RecordFacts DEF TypeInv, PlaceInv
  <2> QED BY <1>1, <1>2, <2>1, <2>2, <2>3 DEF JournalInv, Reconciling
<1>3. CASE Goto("check")
  BY <1>1, <1>3, GotoJournal DEF Goto, Told, Reconciling
<1>4. CASE Goto(Commit)
  BY <1>1, <1>4, CommitJournal
<1>5. CASE Refused("failed")
  BY <1>1, <1>5, RefusedJournal
<1> QED BY <1>2, <1>3, <1>4, <1>5 DEF Reload

\* The journal over the check before a restart.
LEMMA CheckJournal ==
  ASSUME TypeInv, TypeInv', JournalInv, Check \/ Wait
  PROVE  JournalInv'
<1>1. pc \in {"check", "wait"} /\ UNCHANGED <<store, rec, jr>>
  BY DEF Check, Wait, durable
<1>2. CASE Goto("wait")
  BY <1>1, <1>2, GotoJournal DEF Goto, Told, Reconciling
<1>3. CASE Goto(Commit)
  BY <1>1, <1>3, CommitJournal
<1>4. CASE Refused("failed") \/ Refused("unsettled")
  BY <1>1, <1>4, RefusedJournal
<1> QED BY <1>2, <1>3, <1>4 DEF Check, Wait

\* A target that is done has the entry its loop is for.
LEMMA SucceedJournal ==
  ASSUME TypeInv, TypeInv', JournalInv, pc \in Places, Succeed, UNCHANGED <<store, rec>>, OnlyCur,
         mem.mode = "apply" => jr'[Cur] = Active(rec.cand.proxy),
         mem.mode = "release" => jr'[Cur] = None,
         mem.mode = "undo" => jr'[Cur] = rec.image[Cur].before
  PROVE  JournalInv'
BY SucceedPasses, ModeAtPlace, AfterJournal

\* An entry of a record is as active as it can be.
LEMMA BeforeIsActive ==
  ASSUME TypeInv, rec # None, NEW t \in Scope, rec.image[t].before # None
  PROVE  rec.image[t].before = Active(rec.image[t].before.managed)
<1>1. rec.image[t].before \in Entries /\ rec.image[t].before.phase = "active"
      /\ rec.image[t].before.pending = None
  BY ImageTypes
<1> QED BY <1>1 DEF Entries, Active, Entry

\* The journal over the commit of an entry.
LEMMA CommitApplyJournal ==
  ASSUME TypeInv, TypeInv', JournalInv, CommitApply
  PROVE  JournalInv'
<1> DEFINE e == Active(jr[Cur].pending)
<1>1. /\ pc = "commit" /\ UNCHANGED <<store, rec>> /\ pc \in Places /\ Cur \in Targets /\ Cur \in Scope
      /\ jr \in [Targets -> Entries \cup {None}] /\ rec # None /\ mem.mode \in {"apply", "undo"}
      /\ Cur \in mem.todo
  BY CurIsTarget DEF CommitApply, TypeInv, DataInv, TypeOK, PlaceInv, ModeOf, Places, AtTarget, PCs
<1>2. CASE Succeed /\ jr' = [jr EXCEPT ![Cur] = e]
  <2>1. OnlyCur /\ jr'[Cur] = e
    BY <1>1, <1>2 DEF OnlyCur
  <2>2. mem.mode = "apply" => jr[Cur].pending = rec.cand.proxy
    BY <1>1 DEF JournalInv, Reconciling
  <2>3. mem.mode = "undo" => jr'[Cur] = rec.image[Cur].before
    <3>1. SUFFICES ASSUME mem.mode = "undo" PROVE jr'[Cur] = rec.image[Cur].before
      OBVIOUS
    <3>2. rec.image[Cur].before # None /\ Announced(Cur)
      BY <1>1, <3>1 DEF JournalInv, Reconciling
    <3>3. jr[Cur].pending = rec.image[Cur].before.managed
      BY <3>2 DEF Announced, Entry
    <3> QED BY <1>1, <2>1, <3>2, <3>3, BeforeIsActive
  <2> QED BY <1>1, <1>2, <2>1, <2>2, <2>3, SucceedJournal
<1>3. CASE Fail("failed") /\ (jr' = jr \/ jr' = [jr EXCEPT ![Cur] = e])
  BY <1>1, <1>3, FailJournal DEF OnlyCur
<1> QED BY <1>2, <1>3 DEF CommitApply, SaveEntry

\* The journal over the end of an entry.
LEMMA ForgetJournal ==
  ASSUME TypeInv, TypeInv', JournalInv, Forget
  PROVE  JournalInv'
<1>1. /\ pc = "forget" /\ UNCHANGED <<store, rec>> /\ pc \in Places /\ Cur \in Targets
      /\ jr \in [Targets -> Entries \cup {None}] /\ mem.mode \in {"release", "undo"}
  BY CurIsTarget DEF Forget, TypeInv, DataInv, TypeOK, PlaceInv, ModeOf, Places, AtTarget, PCs
<1>2. /\ jr' = jr \/ jr' = [jr EXCEPT ![Cur] = None]
      /\ \/ Succeed /\ jr'[Cur] = None
         \/ Fail("failed")
  BY <1>1 DEF Forget, SaveEntry
<1>3. OnlyCur
  BY <1>1, <1>2 DEF OnlyCur
<1>4. mem.mode = "undo" => rec.image[Cur].before = None
  BY <1>1 DEF JournalInv
<1> QED BY <1>1, <1>2, <1>3, <1>4, SucceedJournal, FailJournal

\* The journal over an entry put back without a restart.
LEMMA SettleJournal ==
  ASSUME TypeInv, TypeInv', JournalInv, Settle
  PROVE  JournalInv'
<1> DEFINE b == rec.image[Cur].before
<1>1. /\ pc = "settle" /\ UNCHANGED <<store, rec>> /\ pc \in Places /\ Cur \in Targets
      /\ jr \in [Targets -> Entries \cup {None}] /\ mem.mode = "undo"
  BY CurIsTarget DEF Settle, TypeInv, DataInv, TypeOK, PlaceInv, ModeOf, Places, AtTarget, PCs
<1>2. /\ jr' = jr \/ jr' = [jr EXCEPT ![Cur] = b]
      /\ \/ Succeed /\ jr'[Cur] = b
         \/ Fail("failed")
  BY <1>1 DEF Settle, SaveEntry
<1>3. OnlyCur
  BY <1>1, <1>2 DEF OnlyCur
<1> QED BY <1>1, <1>2, <1>3, SucceedJournal, FailJournal

\* The journal over the announcement of a release.
LEMMA ReleaseJournal ==
  ASSUME TypeInv, TypeInv', JournalInv, Release
  PROVE  JournalInv'
<1> DEFINE e == [jr[Cur] EXCEPT !.phase = "restoring"]
<1>1. /\ pc = "release" /\ UNCHANGED <<store, rec>> /\ pc \in Places /\ Cur \in Targets
      /\ jr \in [Targets -> Entries \cup {None}] /\ mem.mode = "release"
  BY CurIsTarget DEF Release, TypeInv, DataInv, TypeOK, PlaceInv, ModeOf, Places, AtTarget, PCs
<1>2. jr[Cur] # None => e # None /\ e.phase = "restoring"
  BY <1>1, RestoringType
<1>3. /\ jr' = jr \/ jr' = [jr EXCEPT ![Cur] = e]
      /\ \/ Succeed /\ jr'[Cur] = None
         \/ Fail("failed") \/ Fail("unsettled")
         \/ Goto("remove") /\ jr'[Cur] = jr[Cur] /\ jr[Cur] # None /\ jr[Cur].phase = "restoring"
         \/ Goto("remove") /\ jr'[Cur] = e /\ jr[Cur] # None
  BY <1>1 DEF Release, SaveEntry
<1> HIDE DEF e
<1>4. OnlyCur
  BY <1>1, <1>3 DEF OnlyCur
<1>5. CASE Goto("remove") /\ jr'[Cur] # None /\ jr'[Cur].phase = "restoring"
  BY <1>1, <1>4, <1>5, StayJournal DEF Goto, Places, AtTarget, PCs
<1> QED BY <1>1, <1>2, <1>3, <1>4, <1>5, SucceedJournal, FailJournal

\* A step that changes files and not the journal.
LEMMA FileStepJournal ==
  ASSUME TypeInv, TypeInv', JournalInv, pc \in {"remove", "putback", "reloadback", "rewrite"},
         UNCHANGED <<store, rec, jr>>,
         \/ Goto("reload") \/ Goto("reloadback") \/ Fail("failed") \/ Exit
         \/ pc' = "reload" /\ mem' = [mem EXCEPT !.removed = drop[Cur]]
  PROVE  JournalInv'
<1>1. pc \in Places /\ pc \in AtTarget /\ pc \in Told /\ OnlyCur
  BY DEF Places, AtTarget, PCs, OnlyCur, Told
<1>2. CASE Goto("reload") \/ Goto("reloadback")
  BY <1>1, <1>2, GotoJournal DEF Goto, Told, Reconciling
<1>3. CASE Fail("failed")
  BY <1>1, <1>3, FailJournal
<1>4. CASE Exit
  BY <1>1, <1>4, ExitJournal
<1>5. CASE pc' = "reload" /\ mem' = [mem EXCEPT !.removed = drop[Cur]]
  <2>1. mem'.mode = mem.mode /\ mem'.todo = mem.todo /\ mem'.err = mem.err
    BY <1>5 DEF TypeInv, PlaceInv, Memory
  <2> QED BY <1>1, <1>5, <2>1, GotoJournal DEF Told, Reconciling
<1> QED BY <1>2, <1>3, <1>4, <1>5


\* The journal over the removal of a drop-in.
LEMMA RemoveDropInJournal == ASSUME TypeInv, TypeInv', JournalInv, RemoveDropIn PROVE JournalInv'
<1>1. pc = "remove" /\ UNCHANGED <<store, rec, jr>>
  BY DEF RemoveDropIn
<1> QED BY <1>1, RemoveDropInCalls, FileStepJournal

\* The journal over a drop-in put back.
LEMMA PutBackJournal == ASSUME TypeInv, TypeInv', JournalInv, PutBack PROVE JournalInv'
<1>1. pc = "putback" /\ UNCHANGED <<store, rec, jr>>
  BY DEF PutBack
<1> QED BY <1>1, PutBackCalls, FileStepJournal

\* The journal over the reload after it.
LEMMA ReloadBackJournal == ASSUME TypeInv, TypeInv', JournalInv, ReloadBack PROVE JournalInv'
BY FileStepJournal DEF ReloadBack, durable

\* The journal over the file of a compensation.
LEMMA RewriteJournal == ASSUME TypeInv, TypeInv', JournalInv, Rewrite PROVE JournalInv'
<1>1. pc = "rewrite" /\ UNCHANGED <<store, rec, jr>>
  BY DEF Rewrite
<1> QED BY <1>1, RewriteCalls, FileStepJournal

\* The journal over the end of a selection.
LEMMA AppliedJournal == ASSUME TypeInv, TypeInv', JournalInv, Applied PROVE JournalInv'
<1>1. /\ pc = "applied" /\ rec # None /\ mem \in Memory /\ mem.mode \in {"apply", "release"}
      /\ UNCHANGED jr /\ mem.todo = {}
  BY DEF Applied, TypeInv, PlaceInv, ModeOf, JournalInv
<1>2. /\ Scope \subseteq Targets /\ Selected \subseteq Scope /\ Dropped = Scope \ Selected
  BY <1>1, RecordFacts
<1>3. CASE /\ pc' = "release" /\ mem' = [mem EXCEPT !.mode = "release", !.todo = Dropped]
           /\ mem.err = "none" /\ mem.mode = "apply" /\ UNCHANGED <<store, rec>>
  <2>1. mem'.mode = "release" /\ mem'.todo = Dropped
    BY <1>1, <1>3 DEF Memory
  <2>2. Cur' \in mem'.todo
    BY <1>3, CurIsTargetNext DEF AtTarget, PCs
  <2>3. UNCHANGED <<Scope, Selected, Dropped>> /\ \A t \in Targets : Clean(store, t)' = Clean(store, t)
    BY <1>3, SameRecord
  <2>4. /\ \A t \in Selected : jr[t] = Active(rec.cand.proxy)
        /\ \A t \in Dropped : jr[t] = rec.image[t].before
    BY <1>1, <1>3 DEF JournalInv, Open
  <2> QED BY <1>1, <1>2, <1>3, <2>1, <2>2, <2>3, <2>4 DEF JournalInv, Reconciling, AtTarget, PCs
<1>4. CASE /\ mem.err = "none" /\ (mem.mode = "release" \/ Dropped = {})
           /\ store' = rec.cand /\ rec' = None /\ Exit
  <2>1. \A t \in Selected : jr[t] = Active(rec.cand.proxy)
    BY <1>1, <1>4 DEF JournalInv, Open
  <2>2. \A t \in Dropped : jr[t] = None
    BY <1>1, <1>4 DEF JournalInv
  <2>3. \A t \in Targets \ Scope : jr[t] = None
    BY <1>1 DEF JournalInv
  <2>4. \A t \in Targets : jr[t] = Clean(rec.cand, t)
    BY <1>2, <2>1, <2>2, <2>3 DEF Clean, Selected
  <2>5. \A t \in Targets : jr'[t] = Clean(store', t)
    BY <1>1, <1>4, <2>4
  <2>6. pc' = "idle" /\ mem'.mode = None
    BY <1>4 DEF Exit, Fresh
  <2> QED BY <1>4, <2>5, <2>6, SentinelAssumption DEF JournalInv, Clean, Reconciling
<1>5. CASE pc' = "failed" /\ UNCHANGED <<mem, store, rec>>
  <2>1. UNCHANGED <<Scope, Selected, Dropped>> /\ \A t \in Targets : Clean(store, t)' = Clean(store, t)
    BY <1>5, SameRecord
  <2> QED BY <1>1, <1>2, <1>5, <2>1 DEF JournalInv, Open, Reconciling, AtTarget, PCs
<1> QED BY <1>3, <1>4, <1>5 DEF Applied

\* A compensation starts from whatever the entries are.
LEMMA CompensateJournal ==
  ASSUME TypeInv, TypeInv', JournalInv, Failed \/ Recover
  PROVE  JournalInv'
<1>1. UNCHANGED <<store, rec, jr>> /\ rec # None
  BY DEF Failed, Recover, durable, TypeInv, PlaceInv
<1>2. CASE Exit
  BY <1>1, <1>2, ExitJournal
<1>3. CASE pc' = "undo" /\ mem' = [Fresh EXCEPT !.mode = "undo", !.todo = Scope]
  <2>1. UNCHANGED <<Scope, Selected, Dropped>> /\ \A t \in Targets : Clean(store, t)' = Clean(store, t)
    BY <1>1, SameRecord
  <2>2. mem'.mode = "undo" /\ mem'.todo = Scope
    BY <1>3 DEF Fresh
  <2> QED BY <1>1, <1>3, <2>1, <2>2, RecordFacts DEF JournalInv, Reconciling
<1> QED BY <1>2, <1>3 DEF Failed, Recover, Compensate

\* The journal over the announcement of a compensation.
LEMMA UndoJournal == ASSUME TypeInv, TypeInv', JournalInv, Undo PROVE JournalInv'
<1> DEFINE i == rec.image[Cur]
           e == jr[Cur]
           goal == IF i.before # None THEN Entry("prepared", i.before.managed, i.before.managed)
                   ELSE IF e = None THEN None ELSE [e EXCEPT !.phase = "restoring"]
           onwards == pc' = "rewrite" /\ mem' = [mem EXCEPT !.seen = Raw(Cur)]
<1>1. /\ pc = "undo" /\ UNCHANGED <<store, rec>> /\ pc \in Places /\ Cur \in Targets /\ Cur \in Scope
      /\ jr \in [Targets -> Entries \cup {None}] /\ mem.mode = "undo" /\ rec # None /\ mem \in Memory
  BY CurIsTarget DEF Undo, TypeInv, DataInv, TypeOK, PlaceInv, ModeOf, Places, AtTarget, PCs
<1>2. /\ jr' = jr \/ jr' = [jr EXCEPT ![Cur] = goal]
      /\ \/ Fail("failed")
         \/ Succeed /\ jr'[Cur] = i.before
         \/ onwards /\ jr'[Cur] = goal /\ (i.before # None \/ e # None)
  BY <1>1 DEF Undo, SaveEntry, Back
<1>3. i.before # None => /\ goal = Entry("prepared", i.before.managed, i.before.managed)
  OBVIOUS
<1>4. i.before = None /\ e # None => goal # None /\ goal.phase = "restoring"
  BY <1>1, RestoringType
<1>5. OnlyCur
  BY <1>1, <1>2 DEF OnlyCur
<1> HIDE DEF goal
<1>6. CASE Fail("failed")
  BY <1>1, <1>5, <1>6, FailJournal
<1>7. CASE Succeed /\ jr'[Cur] = i.before
  BY <1>1, <1>5, <1>7, SucceedJournal
<1>8. CASE onwards /\ jr'[Cur] = goal /\ (i.before # None \/ e # None)
  <2>1. mem'.mode = mem.mode /\ mem'.todo = mem.todo /\ mem'.err = mem.err /\ pc' = "rewrite"
    BY <1>1, <1>8 DEF Memory
  <2>2. Cur' = Cur
    BY <2>1 DEF Cur
  <2>3. Announced(Cur)'
    BY <1>1, <1>3, <1>4, <1>8, <2>2 DEF Announced
  <2> QED BY <1>1, <1>5, <2>1, <2>3, StayJournal DEF Places, AtTarget, PCs
<1> QED BY <1>2, <1>6, <1>7, <1>8

\* The journal over the end of a compensation.
LEMMA UndoneJournal == ASSUME TypeInv, TypeInv', JournalInv, Undone PROVE JournalInv'
<1>1. pc = "undone" /\ rec # None /\ UNCHANGED <<store, jr>> /\ mem.mode = "undo" /\ mem.todo = {} /\ Exit
  BY DEF Undone, TypeInv, PlaceInv, ModeOf, JournalInv
<1>2. CASE mem.err = "none" /\ rec' = None
  <2>1. \A t \in Targets : jr[t] = Clean(store, t)
    BY <1>1, <1>2, RecordFacts DEF JournalInv
  <2>2. pc' = "idle" /\ mem'.mode = None
    BY <1>1 DEF Exit, Fresh
  <2> QED BY <1>1, <1>2, <2>1, <2>2, SentinelAssumption DEF JournalInv, Clean, Reconciling
<1>3. CASE UNCHANGED rec
  BY <1>1, <1>3, ExitJournal
<1> QED BY <1>2, <1>3 DEF Undone

\* Nobody else touches the journal.
LEMMA WorldJournal ==
  ASSUME TypeInv, TypeInv', JournalInv,
         \/ Kill \/ ReloadByOthers \/ (\E t \in Targets : JobDone(t) \/ StartStop(t) \/ Edit(t))
         \/ UNCHANGED vars
  PROVE  JournalInv'
<1>1. UNCHANGED <<store, rec, jr>>
  BY DEF Kill, ReloadByOthers, JobDone, StartStop, Edit, durable, vars
<1>2. CASE Kill
  BY <1>1, <1>2, ExitJournal DEF Kill
<1>3. CASE UNCHANGED <<pc, mem>>
  <2>1. UNCHANGED <<Scope, Selected, Dropped, Cur>> /\ \A t \in Targets : Clean(store, t)' = Clean(store, t)
    BY <1>1, <1>3, SameRecord DEF Cur
  <2>2. Open' = Open /\ (rec # None => Scope \subseteq Targets)
    BY <1>3, RecordFacts DEF Open
  <2>3. \A t : Announced(t)' <=> Announced(t)
    BY <1>1 DEF Announced
  <2> QED BY <1>1, <1>3, <2>1, <2>2, <2>3 DEF JournalInv
<1> QED BY <1>2, <1>3 DEF ReloadByOthers, JobDone, StartStop, Edit, vars

\* Every step keeps the journal in step with the process.
LEMMA StepJournal == TypeInv /\ TypeInv' /\ JournalInv /\ [Next]_vars => JournalInv'
<1> SUFFICES ASSUME TypeInv, TypeInv', JournalInv, [Next]_vars PROVE JournalInv'
  OBVIOUS
<1>1. CASE \E cand \in Settings : Plan(cand)
  BY <1>1, PlanJournal
<1>2. CASE Process \/ Recover
  <2>1. CASE Validate \/ Prepare \/ Write \/ Reload \/ Check \/ Wait
    BY <2>1, ValidateJournal, PrepareJournal, WriteJournal, ReloadJournal, CheckJournal
  <2>2. CASE CommitApply \/ Forget \/ Release \/ RemoveDropIn \/ PutBack \/ ReloadBack \/ Applied
    BY <2>2, CommitApplyJournal, ForgetJournal, ReleaseJournal, RemoveDropInJournal, PutBackJournal,
       ReloadBackJournal, AppliedJournal
  <2>3. CASE Failed \/ Recover \/ Undo \/ Rewrite \/ Settle \/ Undone
    BY <2>3, CompensateJournal, UndoJournal, RewriteJournal, SettleJournal, UndoneJournal
  <2> QED BY <1>2, <2>1, <2>2, <2>3 DEF Process
<1> QED BY <1>1, <1>2, WorldJournal DEF Next

\* What the journal says at every place, in every reachable state.
LEMMA JournalInvariant == Spec => [](TypeInv /\ JournalInv)
<1>1. Init => TypeInv /\ JournalInv
  BY InitTypes, InitJournal
<1>2. TypeInv /\ JournalInv /\ [Next]_vars => TypeInv' /\ JournalInv'
  BY StepTypes, StepJournal
<1> QED BY <1>1, <1>2, PTL DEF Spec

\* Every variable keeps its type.
THEOREM TypeCorrect == Spec => []TypeOK
<1>1. TypeInv /\ JournalInv => TypeOK
  BY DEF TypeInv, DataInv
<1> QED BY <1>1, JournalInvariant, PTL

-----------------------------------------------------------------------------
(* The restarts that are outstanding.                                      *)

\* A step asks for no restart.
Calm == \A t \in Targets : svc'[t].job => svc[t].job

\* A process that goes leaves restarts inside the scope of its record only.
LEMMA ExitJobs ==
  ASSUME JobInv, Exit, Calm, UNCHANGED rec
  PROVE  JobInv'
<1>1. pc' = "idle" /\ mem'.mode = None
  BY DEF Exit, Fresh
<1>2. rec # None => UNCHANGED Scope
  BY DEF Scope
<1> QED BY <1>1, <1>2, SentinelAssumption DEF JobInv, Calm

\* A turn may be passed over a restart only with the error that says so.
LEMMA AfterJobs ==
  ASSUME TypeInv, JobInv, pc \in Places, NEW err \in Errors, After(err), Calm, UNCHANGED rec,
         mem.err = "unsettled" => err = "unsettled",
         svc'[Cur].job => err = "unsettled" /\ mem.mode # "undo"
  PROVE  JobInv'
<1>1. rec # None /\ UNCHANGED Scope /\ Cur \in Targets /\ mem.mode \in {"apply", "release", "undo"}
  BY CurIsTarget, ModeAtPlace DEF Scope, Places
<1>2. /\ mem'.mode = mem.mode /\ mem'.err = err /\ mem'.todo = mem.todo \ {Cur}
      /\ pc' \notin {"validate", "prepare", "write", "wait"}
  BY DEF After, LoopStart, LoopEnd
<1> QED BY <1>1, <1>2 DEF JobInv, Calm

\* A failure that is not unsettled has no restart outstanding.
LEMMA FailJobs ==
  ASSUME TypeInv, JobInv, pc \in Places, NEW e \in {"failed", "unsettled"}, Fail(e), Calm,
         UNCHANGED rec, svc'[Cur].job => e = "unsettled"
  PROVE  JobInv'
<1>1. CASE Exit
  BY <1>1, ExitJobs
<1>2. CASE After(Worse(e)) /\ Worse(e) \in {"failed", "unsettled"} /\ (mem.mode = "undo" => e = "failed")
  <2>1. Worse(e) \in Errors /\ (mem.err = "unsettled" \/ e = "unsettled" => Worse(e) = "unsettled")
    BY <1>2 DEF Worse, Errors
  <2> QED BY <1>2, <2>1, AfterJobs
<1> QED BY <1>1, <1>2, FailPasses

\* A target whose turn it is has no restart under way, but at "wait".
LEMMA CurHasNoJob ==
  ASSUME TypeInv, JobInv, pc \in AtTarget \ {"wait"}
  PROVE  ~svc[Cur].job
<1>1. Cur \in mem.todo /\ Cur \in Targets
  BY CurIsTarget
<1>2. mem.mode \in {"apply", "release", "undo"} \/ pc \in {"prepare", "write"}
  BY DEF TypeInv, PlaceInv, ModeOf, AtTarget, PCs
<1> QED BY <1>1, <1>2 DEF JobInv

\* A target that is done has none.
LEMMA SucceedJobs ==
  ASSUME TypeInv, JobInv, pc \in Places \ {"wait"}, Succeed, UNCHANGED <<rec, svc>>
  PROVE  JobInv'
BY SucceedPasses, ModeAtPlace, AfterJobs, CurHasNoJob DEF Calm, Places

\* A step at a target, to a wait if a restart is outstanding.
LEMMA GotoJobs ==
  ASSUME TypeInv, JobInv, pc \in Places, Calm, UNCHANGED rec,
         mem'.mode = mem.mode, mem'.todo = mem.todo, mem'.err = mem.err,
         pc' \notin {"validate", "prepare", "write"}, svc'[Cur].job => pc' = "wait"
  PROVE  JobInv'
<1>1. rec # None /\ UNCHANGED <<Scope, Cur>> /\ Cur \in Targets /\ Cur \in mem.todo
  BY CurIsTarget, ModeAtPlace DEF Scope, Places, Cur
<1> QED BY <1>1 DEF JobInv, Calm

\* A restart that is refused is outstanding only if that is the reason.
LEMMA RefusedJobs ==
  ASSUME TypeInv, JobInv, pc \in {"reload", "check", "wait"}, NEW e \in {"failed", "unsettled"},
         Refused(e), UNCHANGED <<svc, rec>>, svc[Cur].job => e = "unsettled"
  PROVE  JobInv'
<1>1. pc \in Places /\ Calm
  BY DEF Places, AtTarget, PCs, Calm
<1>2. CASE Fail(e)
  BY <1>1, <1>2, FailJobs
<1>3. CASE e # "unsettled" /\ pc' = "putback" /\ UNCHANGED mem
  BY <1>1, <1>3, GotoJobs
<1> QED BY <1>2, <1>3 DEF Refused

\* The loop that prepares the files runs without a restart.
LEMMA PrepareJobs ==
  ASSUME TypeInv, JobInv, pc \in {"validate", "prepare", "write"}, UNCHANGED <<rec, svc>>
  PROVE  JobInv'
<1>1. \A t \in Targets : ~svc'[t].job
  BY DEF JobInv
<1> QED BY <1>1 DEF JobInv

\* A step at a target that changes its files or its entry.
LEMMA WorkJobs ==
  ASSUME TypeInv, JobInv, pc \in Places \ {"wait"}, UNCHANGED <<rec, svc>>,
         \/ Succeed \/ Exit
         \/ \E e \in {"failed", "unsettled"} : Fail(e)
         \/ /\ mem'.mode = mem.mode /\ mem'.todo = mem.todo /\ mem'.err = mem.err
            /\ pc' \in Places
  PROVE  JobInv'
<1>1. Calm /\ pc \in Places /\ pc \in AtTarget \ {"wait"}
  BY DEF Calm, Places
<1>2. ~svc'[Cur].job
  BY <1>1, CurHasNoJob
<1>3. CASE Succeed
  BY <1>3, SucceedJobs
<1>4. CASE Exit
  BY <1>1, <1>4, ExitJobs
<1>5. CASE \E e \in {"failed", "unsettled"} : Fail(e)
  BY <1>1, <1>2, <1>5, FailJobs
<1>6. CASE /\ mem'.mode = mem.mode /\ mem'.todo = mem.todo /\ mem'.err = mem.err
           /\ pc' \in Places
  BY <1>1, <1>2, <1>6, GotoJobs DEF Places, AtTarget
<1> QED BY <1>3, <1>4, <1>5, <1>6

\* Every step keeps the outstanding restarts accounted for.
LEMMA StepJobs == TypeInv /\ JournalInv /\ JobInv /\ [Next]_vars => JobInv'
<1> SUFFICES ASSUME TypeInv, JournalInv, JobInv, [Next]_vars PROVE JobInv'
  OBVIOUS
<1> USE DEF durable, system
<1>1. ASSUME NEW cand \in Settings, Plan(cand) PROVE JobInv'
  <2>1. \A t \in Targets : ~svc'[t].job
    BY <1>1 DEF Plan, JobInv
  <2> QED BY <2>1 DEF JobInv
<1>2. CASE Validate \/ Prepare \/ Write
  BY <1>2, PrepareJobs DEF Validate, Prepare, Write
<1>3. CASE Reload
  <2>1. pc = "reload" /\ UNCHANGED <<rec, svc>> /\ pc \in Places \ {"wait"} /\ ~svc[Cur].job
    BY <1>3, CurHasNoJob DEF Reload, Places, AtTarget, PCs
  <2>2. CASE pc' = "applied" /\ mem' = [mem EXCEPT !.todo = {}, !.err = Worse("failed")] /\ mem.mode = "apply"
    <3>1. /\ mem'.mode = "apply" /\ mem'.todo = {} /\ rec # None /\ UNCHANGED Scope
          /\ mem.err = "unsettled" => mem'.err = "unsettled"
      BY <2>1, <2>2 DEF TypeInv, PlaceInv, Memory, Worse, Scope
    <3> QED BY <2>1, <2>2, <3>1 DEF JobInv
  <2>3. CASE Goto("check") \/ Goto(Commit)
    BY <2>1, <2>3, WorkJobs, CommitMoves, ModeAtPlace DEF Goto, Commit, Places, AtTarget, PCs
  <2>4. CASE Refused("failed")
    BY <2>1, <2>4, RefusedJobs
  <2> QED BY <1>3, <2>2, <2>3, <2>4 DEF Reload
<1>4. CASE Check
  <2>1. pc = "check" /\ UNCHANGED rec /\ pc \in Places \ {"wait"} /\ ~svc[Cur].job /\ Cur \in Targets
    BY <1>4, CurHasNoJob, CurIsTarget DEF Check, Places, AtTarget, PCs
  <2>2. CASE (Refused("failed") \/ Refused("unsettled")) /\ UNCHANGED svc
    BY <2>1, <2>2, RefusedJobs
  <2>3. CASE Goto(Commit) /\ UNCHANGED svc
    BY <2>1, <2>3, WorkJobs DEF Goto, Commit, Places, AtTarget, PCs
  <2>4. CASE svc' = [svc EXCEPT ![Cur].job = TRUE] /\ Goto("wait")
    <3>1. \A t \in Targets : t # Cur => svc'[t] = svc[t]
      BY <2>4 DEF TypeInv, DataInv, TypeOK
    <3>2. UNCHANGED <<mem, Scope, Cur>> /\ pc' = "wait" /\ Cur \in Scope /\ rec # None
      BY <2>1, <2>4, CurIsTarget, ModeAtPlace DEF Goto, Scope, Cur, Places
    <3> QED BY <2>1, <3>1, <3>2 DEF JobInv
  <2> QED BY <1>4, <2>2, <2>3, <2>4 DEF Check
<1>5. CASE Wait
  <2>1. pc = "wait" /\ UNCHANGED <<rec, svc>> /\ pc \in Places
    BY <1>5 DEF Wait, Places, AtTarget, PCs
  <2>2. CASE Settled(Cur) /\ Goto(Commit)
    BY <2>1, <2>2, GotoJobs DEF Settled, Goto, Commit, Calm
  <2>3. CASE Settled(Cur) /\ Refused("failed")
    BY <2>1, <2>3, RefusedJobs DEF Settled
  <2>4. CASE Refused("unsettled")
    BY <2>1, <2>4, RefusedJobs
  <2> QED BY <1>5, <2>2, <2>3, <2>4 DEF Wait
<1>6. CASE CommitApply \/ Forget \/ Settle
  <2>1. /\ pc \in Places \ {"wait"} /\ UNCHANGED <<rec, svc>>
        /\ Succeed \/ Fail("failed")
    BY <1>6 DEF CommitApply, Forget, Settle, SaveEntry, Places, AtTarget, PCs
  <2> QED BY <2>1, WorkJobs
<1>7. CASE Release
  <2>1. /\ pc \in Places \ {"wait"} /\ UNCHANGED <<rec, svc>>
        /\ Succeed \/ Fail("failed") \/ Fail("unsettled") \/ Goto("remove")
    BY <1>7 DEF Release, SaveEntry, Places, AtTarget, PCs
  <2> QED BY <2>1, WorkJobs DEF Goto, Places, AtTarget, PCs
<1>8. CASE RemoveDropIn \/ PutBack \/ Rewrite
  <2>1. pc \in Places \ {"wait"} /\ UNCHANGED <<rec, svc>> /\ mem \in Memory
    BY <1>8 DEF RemoveDropIn, PutBack, Rewrite, Places, AtTarget, PCs, TypeInv, PlaceInv
  <2>2. \/ Goto("reload") \/ Goto("reloadback") \/ Fail("failed") \/ Exit
        \/ pc' = "reload" /\ mem' = [mem EXCEPT !.removed = drop[Cur]]
    BY <1>8, RemoveDropInCalls, PutBackCalls, RewriteCalls
  <2>3. mem' = [mem EXCEPT !.removed = drop[Cur]] =>
          mem'.mode = mem.mode /\ mem'.todo = mem.todo /\ mem'.err = mem.err
    BY <2>1 DEF Memory
  <2> QED BY <2>1, <2>2, <2>3, WorkJobs DEF Goto, Places, AtTarget, PCs
<1>9. CASE ReloadBack
  BY <1>9, WorkJobs DEF ReloadBack, Places, AtTarget, PCs
<1>10. CASE Applied
  <2>1. /\ pc = "applied" /\ rec # None /\ mem \in Memory /\ mem.mode \in {"apply", "release"}
        /\ UNCHANGED svc
    BY <1>10 DEF Applied, TypeInv, PlaceInv, ModeOf
  <2>2. mem.err = "none" => \A t \in Targets : ~svc'[t].job
    BY <2>1 DEF JobInv
  <2>3. CASE pc' = "failed" /\ UNCHANGED <<mem, store, rec>>
    <3>1. UNCHANGED Scope
      BY <2>3 DEF Scope
    <3> QED BY <2>1, <2>3, <3>1 DEF JobInv
  <2> QED BY <1>10, <2>2, <2>3 DEF Applied, JobInv
<1>11. CASE Failed \/ Recover
  <2>1. UNCHANGED <<rec, svc>> /\ rec # None
    BY <1>11 DEF Failed, Recover, TypeInv, PlaceInv
  <2>2. CASE Exit
    BY <2>1, <2>2, ExitJobs DEF Calm
  <2>3. CASE Compensate /\ \A t \in Scope : Settled(t)
    <3>1. \A t \in Targets : ~svc'[t].job
      BY <2>1, <2>3 DEF JobInv, Settled
    <3> QED BY <3>1 DEF JobInv
  <2> QED BY <1>11, <2>2, <2>3 DEF Failed, Recover, Compensate
<1>12. CASE Undo
  <2>1. /\ pc \in Places \ {"wait"} /\ UNCHANGED <<rec, svc>> /\ mem \in Memory
        /\ \/ Succeed \/ Fail("failed")
           \/ pc' = "rewrite" /\ mem' = [mem EXCEPT !.seen = Raw(Cur)]
    BY <1>12 DEF Undo, SaveEntry, Places, AtTarget, PCs, TypeInv, PlaceInv
  <2>2. mem' = [mem EXCEPT !.seen = Raw(Cur)] =>
          mem'.mode = mem.mode /\ mem'.todo = mem.todo /\ mem'.err = mem.err
    BY <2>1 DEF Memory
  <2> QED BY <2>1, <2>2, WorkJobs DEF Places, AtTarget, PCs
<1>13. CASE Undone
  <2>1. \A t \in Targets : ~svc'[t].job
    BY <1>13 DEF Undone, JobInv, TypeInv, PlaceInv, ModeOf
  <2> QED BY <2>1 DEF JobInv
<1>14. CASE Kill
  BY <1>14, ExitJobs DEF Kill, Calm
<1>15. CASE \/ ReloadByOthers \/ UNCHANGED vars
            \/ \E t \in Targets : JobDone(t) \/ StartStop(t) \/ Edit(t)
  <2>1. UNCHANGED <<rec, pc, mem>>
    BY <1>15 DEF ReloadByOthers, JobDone, StartStop, Edit, vars
  <2>2. Calm
    BY <1>15 DEF ReloadByOthers, JobDone, StartStop, Edit, vars, Calm, TypeInv, DataInv, TypeOK
  <2>3. UNCHANGED <<Scope, Cur>>
    BY <2>1 DEF Scope, Cur
  <2> QED BY <2>1, <2>2, <2>3 DEF JobInv, Calm
<1> QED BY <1>1, <1>2, <1>3, <1>4, <1>5, <1>6, <1>7, <1>8, <1>9, <1>10, <1>11, <1>12, <1>13, <1>14, <1>15
        DEF Next, Process

\* A restart that is outstanding is the one the process waits for, or was left behind
\* by a command that said so.
LEMMA JobInvariant == Spec => [](TypeInv /\ JournalInv /\ JobInv)
<1>1. Init => JobInv
  <2> SUFFICES ASSUME Init PROVE JobInv
    OBVIOUS
  <2>1. \A t \in Targets : ~svc[t].job
    BY DEF Init
  <2> QED BY <2>1 DEF JobInv
<1> QED BY <1>1, StepJobs, JournalInvariant, PTL DEF Spec

-----------------------------------------------------------------------------
(* What is served.                                                         *)

\* An entry stays true when neither it nor its file changes, or it says that something is under way.
LEMMA BaseStays ==
  ASSUME TypeInv, Base, UNCHANGED <<unit, touched, rec, svc>>,
         loaded' = loaded \/ (loaded' = drop /\ UNCHANGED drop),
         \A t \in Targets \ touched : \/ jr'[t] = jr[t] /\ drop'[t] = drop[t]
                                      \/ jr'[t] # None /\ jr'[t].phase # "active"
                                      \/ Served(t)'
  PROVE  Base'
<1>1. rec # None => UNCHANGED Scope
  BY DEF Scope
<1>2. \A t \in Targets \ touched : jr'[t] = jr[t] /\ drop'[t] = drop[t] /\ Served(t) => Served(t)'
  BY DEF Served, Own
<1> QED BY <1>1, <1>2 DEF Base, Valid

\* A process that is gone is about to do nothing.
LEMMA ExitAhead ==
  ASSUME Exit
  PROVE  Ahead'
BY DEF Exit, Ahead, Reconciling

\* A turn that is passed in an apply finds the drop-ins loaded.
LEMMA AfterAhead ==
  ASSUME TypeInv, Ahead, pc \in Places, NEW err \in Errors, After(err), UNCHANGED touched,
         mem.mode = "apply" => pc \in {"check", "wait", "commit"} /\ UNCHANGED <<loaded, drop>>
  PROVE  Ahead'
<1>1. mem.mode \in {"apply", "release", "undo"}
  BY ModeAtPlace
<1>2. mem'.mode = mem.mode /\ pc' \in {LoopStart, LoopEnd}
  BY DEF After
<1> QED BY <1>1, <1>2 DEF Ahead, Reconciling, LoopStart, LoopEnd

\* So does one that is passed after a failure.
LEMMA FailAhead ==
  ASSUME TypeInv, Ahead, pc \in Places, NEW e \in {"failed", "unsettled"}, Fail(e), UNCHANGED touched,
         mem.mode = "apply" => pc \in {"check", "wait", "commit"} /\ UNCHANGED <<loaded, drop>>
  PROVE  Ahead'
<1>1. {"failed", "unsettled"} \subseteq Errors
  BY DEF Errors
<1> QED BY <1>1, FailPasses, ExitAhead, AfterAhead

\* And one that is passed after a commit.
LEMMA SucceedAhead ==
  ASSUME TypeInv, Ahead, pc \in Places, Succeed, UNCHANGED touched,
         mem.mode = "apply" => pc \in {"check", "wait", "commit"} /\ UNCHANGED <<loaded, drop>>
  PROVE  Ahead'
BY SucceedPasses, ModeAtPlace, AfterAhead

\* And one that is passed after a refused restart.
LEMMA RefusedAhead ==
  ASSUME TypeInv, Ahead, pc \in {"reload", "check", "wait"}, NEW e \in {"failed", "unsettled"}, Refused(e),
         UNCHANGED touched,
         mem.mode = "apply" => pc \in {"check", "wait"} /\ UNCHANGED <<loaded, drop>>
  PROVE  Ahead'
<1>1. pc \in Places
  BY DEF Places, AtTarget, PCs
<1>2. CASE Fail(e)
  BY <1>1, <1>2, FailAhead
<1>3. CASE pc' = "putback"
  BY <1>3 DEF Ahead, Reconciling
<1> QED BY <1>2, <1>3 DEF Refused

\* The loop that prepares the files is about to write no entry that is active.
LEMMA PreparedAhead ==
  ASSUME mem.mode = "apply", NEW err, NEW a, Prepared(err, a)
  PROVE  Ahead'
BY DEF Prepared, Ahead, Reconciling

\* Nor after a failure.
LEMMA PrepareFailedAhead ==
  ASSUME TypeInv, pc \in {"prepare", "write"}, PrepareFailed
  PROVE  Ahead'
<1> DEFINE m == [mem EXCEPT !.err = Worse("failed")]
<1>1. m \in Memory /\ m.mode = mem.mode /\ mem.mode = "apply"
  BY DEF TypeInv, PlaceInv, ModeOf, Memory, Worse, Errors
<1>2. PrepareNext(m)
  BY DEF PrepareFailed
<1> HIDE DEF m
<1> QED BY <1>1, <1>2, PreparePasses, PreparedAhead

\* The commit of a target whose files nobody has changed.
LEMMA CommitAhead ==
  ASSUME TypeInv, Base, Goto(Commit), pc \in {"reload", "check", "wait"}, UNCHANGED <<touched, drop, rec>>,
         \A t \in Targets \ touched :
           /\ loaded'[t] = drop[t]
           /\ t = Cur => (svc'[t].running /\ ~svc'[t].job => svc'[t].env = loaded'[t]),
         Ahead
  PROVE  Ahead'
<1>1. /\ Cur \in Targets /\ Cur \in Scope /\ rec # None /\ Cur' = Cur /\ UNCHANGED mem
      /\ mem.mode \in {"apply", "release", "undo"}
  BY CurIsTarget, ModeAtPlace DEF Goto, Cur, Places, AtTarget, PCs
<1>2. Cur \notin touched => pc' # "settle"
  BY <1>1 DEF Base, Goto, Commit, Valid, Absent
<1>3. pc' \in {"commit", "forget", "settle"}
  BY <1>1 DEF Goto, Commit
<1> QED BY <1>1, <1>2, <1>3 DEF Ahead, Reconciling

Serving == TypeInv /\ JournalInv /\ Base /\ Ahead

\* What is served over the plan.
LEMMA PlanServed == ASSUME Serving, NEW cand \in Settings, Plan(cand) PROVE Base' /\ Ahead'
<1> DEFINE scope == cand.sel \cup Released(cand)
           image == [t \in scope |-> Image(t, cand)]
<1>1. /\ UNCHANGED <<jr, drop, loaded, svc, unit, touched>> /\ pc' = "validate"
      /\ rec' = [cand |-> cand, image |-> image]
  BY DEF Plan, system
<1>2. \A t \in scope : image[t].skip = Absent(t)
  BY DEF Image
<1> HIDE DEF image, scope
<1>3. Scope' = DOMAIN image /\ rec'.image = image
  BY <1>1 DEF Scope
<1>4. DOMAIN image = scope
  BY DEF image
<1>5. Base'
  BY <1>1, <1>2, <1>3, <1>4 DEF Serving, Base, Valid, Absent, Served, Own
<1>6. Ahead'
  BY <1>1 DEF Ahead, Reconciling
<1> QED BY <1>5, <1>6

\* What is served over the second validation.
LEMMA ValidateServed == ASSUME Serving, Validate PROVE Base' /\ Ahead'
<1>1. UNCHANGED <<unit, touched, rec, svc, loaded, jr, drop>> /\ pc' \in {"prepare", "release", "failed"}
  BY DEF Validate, durable, system
<1> QED BY <1>1, BaseStays DEF Serving, Ahead, Reconciling

\* What is served over the announcement of an apply.
LEMMA PrepareServed == ASSUME Serving, Prepare PROVE Base' /\ Ahead'
<1> DEFINE c == rec.cand.proxy
           e == Entry("prepared", IF jr[Cur] = None THEN c ELSE jr[Cur].managed, c)
<1>1. /\ pc = "prepare" /\ mem \in Memory /\ mem.mode = "apply" /\ rec # None /\ Selected # {}
      /\ Cur \in Targets /\ jr \in [Targets -> Entries \cup {None}]
      /\ UNCHANGED <<unit, touched, rec, svc, loaded, drop>>
  BY CurIsTarget, RecordFacts
     DEF Prepare, system, Serving, TypeInv, DataInv, TypeOK, PlaceInv, ModeOf, AtTarget, PCs
<1>2. c \in Contents
  BY <1>1, CandTypes DEF Serving
<1>3. e \in Entries /\ e # None /\ e.phase = "prepared"
  BY <1>1, <1>2, SentinelAssumption DEF Entry, Entries
<1>4. /\ jr' = jr \/ jr' = [jr EXCEPT ![Cur] = e]
      /\ PrepareFailed \/ PrepareNext(mem) \/ pc' = "write"
  BY DEF Prepare, SaveEntry
<1> HIDE DEF e
<1>5. Base'
  BY <1>1, <1>3, <1>4, BaseStays DEF Serving
<1>6. Ahead'
  BY <1>1, <1>4, PrepareFailedAhead, PreparePasses, PreparedAhead DEF Serving, Ahead, Reconciling
<1> QED BY <1>5, <1>6

\* The file of a target moves while its entry says that something is under way.
LEMMA MovedFilesServed ==
  ASSUME Serving, pc \in AtTarget, FilesMove, jr[Cur] # None, jr[Cur].phase # "active",
         UNCHANGED <<unit, touched, rec, svc, loaded, jr>>
  PROVE  Base'
BY FilesMoveTypes, CurIsTarget, BaseStays DEF Serving

\* What is served over the write of a drop-in.
LEMMA WriteServed == ASSUME Serving, Write PROVE Base' /\ Ahead'
<1>1. /\ pc = "write" /\ mem \in Memory /\ mem.mode = "apply" /\ pc \in AtTarget /\ Cur \in Targets
      /\ jr[Cur] # None /\ jr[Cur].phase = "prepared"
      /\ UNCHANGED <<unit, touched, rec, svc, loaded, jr>>
  BY CurIsTarget
     DEF Write, system, Serving, TypeInv, PlaceInv, ModeOf, AtTarget, PCs, JournalInv
<1>2. Base'
  BY <1>1, WriteCalls, MovedFilesServed DEF Serving
<1>3. Written \in Memory /\ Written.mode = mem.mode
  BY <1>1 DEF Memory, Written
<1>4. Ahead'
  BY <1>1, <1>3, WriteCalls, PrepareFailedAhead, PreparePasses, PreparedAhead, ExitAhead DEF Serving
<1> QED BY <1>2, <1>4

\* What is served over the reload.
LEMMA ReloadServed == ASSUME Serving, Reload PROVE Base' /\ Ahead'
<1>1. /\ pc = "reload" /\ UNCHANGED <<unit, touched, rec, svc, jr, drop>> /\ mem \in Memory
      /\ loaded' \in {loaded, drop} /\ Cur \in Targets /\ Cur \in Scope /\ rec # None
      /\ mem.mode \in {"apply", "release", "undo"}
  BY CurIsTarget DEF Reload, durable, Serving, TypeInv, PlaceInv, ModeOf, AtTarget, PCs
<1>2. Base'
  BY <1>1, BaseStays DEF Serving
<1>3. CASE pc' = "applied"
  BY <1>2, <1>3 DEF Ahead, Reconciling
<1>4. CASE Goto("check") /\ loaded' = drop
  <2>1. UNCHANGED <<mem, Cur>> /\ pc' = "check"
    BY <1>4 DEF Goto, Cur
  <2>2. Ahead'
    BY <1>1, <1>4, <2>1 DEF Serving, Ahead, Reconciling
  <2> QED BY <1>2, <2>2
<1>5. CASE Goto(Commit) /\ loaded' = drop /\ (Absent(Cur) \/ (mem.mode = "undo" /\ rec.image[Cur].skip))
  <2>1. Cur \in touched
    BY <1>1, <1>5 DEF Serving, Base, Valid, Absent
  <2>2. Ahead'
    BY <1>1, <1>5, <2>1, CommitAhead DEF Serving
  <2> QED BY <1>2, <2>2
<1>6. CASE Refused("failed") /\ mem.mode # "apply"
  <2>1. Ahead'
    BY <1>1, <1>6, RefusedAhead DEF Serving
  <2> QED BY <1>2, <2>1
<1> QED BY <1>3, <1>4, <1>5, <1>6 DEF Reload

\* What is served over the check before a restart.
LEMMA CheckServed == ASSUME Serving, Check PROVE Base' /\ Ahead'
<1>1. /\ pc = "check" /\ UNCHANGED <<unit, touched, rec, jr, drop, loaded>> /\ pc \in {"reload", "check", "wait"}
      /\ Cur \in Targets
  BY CurIsTarget DEF Check, durable, Serving, AtTarget, PCs
<1>2. CASE (Refused("failed") \/ Refused("unsettled")) /\ UNCHANGED svc
  BY <1>1, <1>2, BaseStays, RefusedAhead DEF Serving
<1>3. CASE Goto(Commit) /\ UNCHANGED svc /\ ~svc[Cur].running
  <2>1. Ahead'
    BY <1>1, <1>3, CommitAhead DEF Serving, Ahead
  <2> QED BY <1>1, <1>3, <2>1, BaseStays DEF Serving
<1>4. CASE svc' = [svc EXCEPT ![Cur].job = TRUE] /\ Goto("wait")
  <2>1. svc'[Cur].job /\ \A t \in Targets : t # Cur => svc'[t] = svc[t]
    <3>1. svc \in [Targets -> [running : BOOLEAN, env : Files, job : BOOLEAN]]
      BY DEF Serving, TypeInv, DataInv, TypeOK
    <3> QED BY <1>1, <1>4, <3>1
  <2>2. UNCHANGED <<mem, Cur>> /\ pc' = "wait"
    BY <1>4 DEF Goto, Cur
  <2>3. rec # None => UNCHANGED Scope
    BY <1>1 DEF Scope
  <2>4. Base'
    BY <1>1, <2>1, <2>3 DEF Serving, Base, Valid, Served, Own
  <2>5. Ahead'
    BY <1>1, <2>1, <2>2 DEF Serving, Ahead, Reconciling
  <2> QED BY <2>4, <2>5
<1> QED BY <1>2, <1>3, <1>4 DEF Check

\* What is served over the wait for a restart.
LEMMA WaitServed == ASSUME Serving, Wait PROVE Base' /\ Ahead'
<1>1. /\ pc = "wait" /\ UNCHANGED <<unit, touched, rec, jr, drop, loaded, svc>>
      /\ pc \in {"reload", "check", "wait"} /\ Cur \in Targets
  BY CurIsTarget DEF Wait, durable, system, Serving, AtTarget, PCs
<1>2. Base'
  BY <1>1, BaseStays DEF Serving
<1>3. CASE Refused("failed") \/ Refused("unsettled")
  BY <1>1, <1>2, <1>3, RefusedAhead DEF Serving
<1>4. CASE Goto(Commit)
  BY <1>1, <1>2, <1>4, CommitAhead DEF Serving, Ahead
<1> QED BY <1>3, <1>4 DEF Wait

\* What is served over the commit of an entry.
LEMMA CommitApplyServed == ASSUME Serving, CommitApply PROVE Base' /\ Ahead'
<1> DEFINE e == Active(jr[Cur].pending)
<1>1. /\ pc = "commit" /\ UNCHANGED <<unit, touched, rec, drop, loaded, svc>> /\ pc \in Places
      /\ Cur \in Targets /\ jr \in [Targets -> Entries \cup {None}]
      /\ drop[Cur] \in Files
  BY CurIsTarget DEF CommitApply, system, Serving, TypeInv, DataInv, TypeOK, Places, AtTarget, PCs
<1>2. Ahead'
  <2>1. Succeed \/ Fail("failed")
    BY DEF CommitApply, SaveEntry
  <2> QED BY <1>1, <2>1, SucceedAhead, FailAhead DEF Serving
<1>3. CASE UNCHANGED jr
  BY <1>1, <1>2, <1>3, BaseStays DEF Serving
<1>4. CASE jr' = [jr EXCEPT ![Cur] = e] /\ jr[Cur].phase = "prepared" /\ jr[Cur] # None
           /\ drop[Cur] = jr[Cur].pending
  <2>1. jr[Cur].pending \in Contents /\ jr'[Cur] = e /\ \A t \in Targets : t # Cur => jr'[t] = jr[t]
    BY <1>1, <1>4 DEF Serving, TypeInv, DataInv, Sound
  <2>2. e # None /\ e.managed = jr[Cur].pending
    <3>1. e \in Entries /\ e.managed = jr[Cur].pending
      BY <2>1 DEF Active, Entry, Entries
    <3> QED BY <3>1, SentinelAssumption
  <2> HIDE DEF e
  <2>3. \A t \in Targets \ touched : t = Cur => Served(t)'
    BY <1>1, <1>4, <2>1, <2>2 DEF Serving, Ahead, Served, Own
  <2>4. Base'
    BY <1>1, <2>1, <2>3, BaseStays DEF Serving
  <2> QED BY <1>2, <2>4
<1> QED BY <1>3, <1>4 DEF CommitApply, SaveEntry, Free

\* What is served over the end of an entry.
LEMMA ForgetServed == ASSUME Serving, Forget PROVE Base' /\ Ahead'
<1>1. /\ pc = "forget" /\ UNCHANGED <<unit, touched, rec, drop, loaded, svc>> /\ pc \in Places
      /\ Cur \in Targets /\ jr \in [Targets -> Entries \cup {None}] /\ mem.mode \in {"release", "undo"}
  BY CurIsTarget
     DEF Forget, system, Serving, TypeInv, DataInv, TypeOK, PlaceInv, ModeOf, Places, AtTarget, PCs
<1>2. Ahead'
  <2>1. Succeed \/ Fail("failed")
    BY DEF Forget, SaveEntry
  <2> QED BY <1>1, <2>1, SucceedAhead, FailAhead DEF Serving
<1>3. jr' = jr \/ jr' = [jr EXCEPT ![Cur] = None]
  BY DEF Forget, SaveEntry
<1>4. mem.mode = "undo" => rec.image[Cur].before = None
  BY <1>1 DEF Serving, JournalInv
<1>5. \A t \in Targets \ touched : t = Cur /\ jr'[t] = None => Served(t)'
  BY <1>1, <1>4 DEF Serving, Ahead, Reconciling, Served, Own
<1>6. Base'
  BY <1>1, <1>3, <1>5, BaseStays DEF Serving
<1> QED BY <1>2, <1>6

\* What is served over an entry put back without a restart.
LEMMA SettleServed == ASSUME Serving, Settle PROVE Base' /\ Ahead'
<1> DEFINE b == rec.image[Cur].before
<1>1. /\ pc = "settle" /\ UNCHANGED <<unit, touched, rec, drop, loaded, svc>> /\ pc \in Places
      /\ jr \in [Targets -> Entries \cup {None}] /\ mem.mode = "undo"
  BY DEF Settle, system, Serving, TypeInv, DataInv, TypeOK, PlaceInv, ModeOf, Places, AtTarget, PCs
<1>2. /\ jr' = jr \/ jr' = [jr EXCEPT ![Cur] = b]
      /\ Succeed \/ Fail("failed")
  BY DEF Settle, SaveEntry
<1> HIDE DEF b
<1>3. Base'
  <2>1. \A t \in Targets \ touched : jr'[t] = jr[t]
    BY <1>1, <1>2 DEF Serving, Ahead
  <2> QED BY <1>1, <2>1, BaseStays DEF Serving
<1> QED BY <1>1, <1>2, <1>3, SucceedAhead, FailAhead DEF Serving

\* What is served over the announcement of a release.
LEMMA ReleaseServed == ASSUME Serving, Release PROVE Base' /\ Ahead'
<1> DEFINE e == [jr[Cur] EXCEPT !.phase = "restoring"]
<1>1. /\ pc = "release" /\ UNCHANGED <<unit, touched, rec, drop, loaded, svc>> /\ pc \in Places
      /\ Cur \in Targets /\ Cur \in Scope /\ rec # None /\ jr \in [Targets -> Entries \cup {None}]
      /\ mem.mode = "release" /\ jr[Cur] = rec.image[Cur].before
  BY CurIsTarget
     DEF Release, system, Serving, TypeInv, DataInv, TypeOK, PlaceInv, ModeOf, JournalInv, Places, AtTarget, PCs
<1>2. jr[Cur] # None => e # None /\ e.phase = "restoring" /\ e.managed = jr[Cur].managed
                        /\ jr[Cur].phase = "active"
  BY <1>1, RestoringType, ImageTypes DEF Serving
<1>3. \/ jr' = jr /\ (Succeed \/ Fail("failed") \/ Fail("unsettled"))
      \/ jr' = [jr EXCEPT ![Cur] = e] /\ jr[Cur] # None /\ (Goto("remove") \/ Fail("failed"))
  BY <1>1, <1>2 DEF Release, SaveEntry, Free
<1> HIDE DEF e
<1>4. Base'
  BY <1>1, <1>2, <1>3, BaseStays DEF Serving
<1>5. CASE Goto("remove") /\ jr' = [jr EXCEPT ![Cur] = e] /\ jr[Cur] # None
  <2>1. UNCHANGED Cur /\ pc' = "remove"
    BY <1>5 DEF Goto, Cur
  <2>2. Cur \notin touched => drop[Cur] = jr[Cur].managed
    BY <1>1, <1>2, <1>5 DEF Serving, Base, Served, Own
  <2>3. jr'[Cur] = e
    BY <1>1, <1>5
  <2>4. Ahead'
    BY <1>1, <1>2, <1>5, <2>1, <2>2, <2>3 DEF Ahead, Reconciling
  <2> QED BY <1>4, <2>4
<1>6. CASE Succeed \/ Fail("failed") \/ Fail("unsettled")
  BY <1>1, <1>4, <1>6, SucceedAhead, FailAhead DEF Serving
<1> QED BY <1>3, <1>5, <1>6

\* What is served over the removal of a drop-in.
LEMMA RemoveDropInServed == ASSUME Serving, RemoveDropIn PROVE Base' /\ Ahead'
<1>1. /\ pc = "remove" /\ pc \in Places /\ pc \in AtTarget /\ Cur \in Targets /\ mem \in Memory
      /\ mem.mode = "release" /\ jr[Cur] # None /\ jr[Cur].phase = "restoring" /\ jr[Cur] \in Entries \cup {None}
      /\ UNCHANGED <<unit, touched, rec, svc, loaded, jr>>
  BY CurIsTarget
     DEF RemoveDropIn, system, Serving, TypeInv, DataInv, TypeOK, PlaceInv, ModeOf, JournalInv, Places, AtTarget, PCs
<1>2. /\ FilesMove
      /\ \/ pc' = "reload" /\ mem' = [mem EXCEPT !.removed = drop[Cur]] /\ drop'[Cur] = None
         \/ Goto("reload") /\ drop[Cur] \notin Owned(jr[Cur]) \cup {None}
         \/ Fail("failed") \/ Exit
  BY RemoveDropInCalls DEF Serving
<1>3. Base'
  BY <1>1, <1>2, MovedFilesServed
<1>4. CASE pc' = "reload" /\ mem' = [mem EXCEPT !.removed = drop[Cur]] /\ drop'[Cur] = None
  <2>1. mem'.mode = mem.mode /\ mem'.todo = mem.todo
    BY <1>1, <1>4 DEF Memory
  <2>2. Cur' = Cur
    BY <2>1 DEF Cur
  <2>3. Ahead'
    BY <1>4, <2>2 DEF Ahead, Reconciling
  <2> QED BY <1>3, <2>3
<1>5. CASE Goto("reload") /\ drop[Cur] \notin Owned(jr[Cur]) \cup {None}
  <2>1. UNCHANGED Cur /\ pc' = "reload"
    BY <1>5 DEF Goto, Cur
  <2>2. jr[Cur].managed \in Owned(jr[Cur]) \cup {None}
    BY DEF Owned
  <2>3. Cur \in touched
    BY <1>1, <1>5, <2>2 DEF Serving, Ahead
  <2>4. Ahead'
    BY <1>1, <2>1, <2>3 DEF Ahead, Reconciling
  <2> QED BY <1>3, <2>4
<1>6. CASE Fail("failed") \/ Exit
  BY <1>1, <1>3, <1>6, FailAhead, ExitAhead DEF Serving
<1> QED BY <1>2, <1>4, <1>5, <1>6

\* What is served over a drop-in put back.
LEMMA PutBackServed == ASSUME Serving, PutBack PROVE Base' /\ Ahead'
<1>1. /\ pc = "putback" /\ pc \in Places /\ pc \in AtTarget
      /\ mem.mode = "release" /\ jr[Cur] # None /\ jr[Cur].phase = "restoring"
      /\ UNCHANGED <<unit, touched, rec, svc, loaded, jr>>
  BY DEF PutBack, system, Serving, TypeInv, PlaceInv, ModeOf, JournalInv, Places, AtTarget, PCs
<1>2. Base'
  BY <1>1, PutBackCalls, MovedFilesServed DEF Serving
<1>3. CASE Goto("reloadback")
  BY <1>2, <1>3 DEF Goto, Ahead, Reconciling
<1>4. CASE Fail("failed") \/ Exit
  BY <1>1, <1>2, <1>4, FailAhead, ExitAhead DEF Serving
<1> QED BY <1>3, <1>4, PutBackCalls DEF Serving

\* What is served over the reload after it.
LEMMA ReloadBackServed == ASSUME Serving, ReloadBack PROVE Base' /\ Ahead'
<1>1. /\ pc = "reloadback" /\ pc \in Places /\ Fail("failed") /\ mem.mode = "release"
      /\ UNCHANGED <<unit, touched, rec, svc, jr, drop>> /\ loaded' \in {loaded, drop}
  BY DEF ReloadBack, durable, Serving, TypeInv, PlaceInv, ModeOf, Places, AtTarget, PCs
<1> QED BY <1>1, BaseStays, FailAhead DEF Serving

\* What is served over the announcement of a compensation.
LEMMA UndoServed == ASSUME Serving, Undo PROVE Base' /\ Ahead'
<1> DEFINE i == rec.image[Cur]
           e == jr[Cur]
           goal == IF i.before # None THEN Entry("prepared", i.before.managed, i.before.managed)
                   ELSE IF e = None THEN None ELSE [e EXCEPT !.phase = "restoring"]
<1>1. /\ pc = "undo" /\ pc \in Places /\ Cur \in Targets /\ Cur \in Scope /\ rec # None
      /\ mem.mode = "undo" /\ jr \in [Targets -> Entries \cup {None}]
      /\ UNCHANGED <<unit, touched, rec, svc, loaded, drop>>
  BY CurIsTarget
     DEF Undo, system, Serving, TypeInv, DataInv, TypeOK, PlaceInv, ModeOf, Places, AtTarget, PCs
<1>2. /\ jr' = jr \/ (jr' = [jr EXCEPT ![Cur] = goal] /\ (i.before # None \/ e # None))
      /\ Fail("failed") \/ Succeed \/ pc' = "rewrite"
  BY DEF Undo, SaveEntry
<1>3. i.before # None \/ e # None => goal # None /\ goal.phase # "active"
  <2>1. CASE i.before # None
    <3>1. i.before.managed \in Contents /\ goal = Entry("prepared", i.before.managed, i.before.managed)
      BY <1>1, <2>1, ImageTypes DEF Serving
    <3> HIDE DEF goal
    <3>2. goal \in Entries /\ goal.phase = "prepared"
      BY <3>1 DEF Entry, Entries
    <3> QED BY <3>2, SentinelAssumption
  <2>2. CASE i.before = None /\ e # None
    BY <1>1, <2>2, RestoringType
  <2> QED BY <2>1, <2>2
<1> HIDE DEF goal
<1>4. Base'
  BY <1>1, <1>2, <1>3, BaseStays DEF Serving
<1>5. pc' = "rewrite" => Ahead'
  BY DEF Ahead, Reconciling
<1> QED BY <1>1, <1>2, <1>4, <1>5, FailAhead, SucceedAhead DEF Serving

\* What is served over the file of a compensation.
LEMMA RewriteServed == ASSUME Serving, Rewrite PROVE Base' /\ Ahead'
<1>1. /\ pc = "rewrite" /\ pc \in Places /\ pc \in AtTarget /\ Announced(Cur) /\ Cur \in Scope /\ rec # None
      /\ mem.mode = "undo" /\ jr[Cur] \in Entries \cup {None}
      /\ UNCHANGED <<unit, touched, rec, svc, loaded, jr>>
  BY CurIsTarget
     DEF Rewrite, system, Serving, TypeInv, DataInv, TypeOK, PlaceInv, ModeOf, JournalInv, Places, AtTarget, PCs
<1>2. jr[Cur] # None /\ jr[Cur].phase # "active"
  <2> DEFINE b == rec.image[Cur].before
  <2>1. CASE b = None
    BY <1>1, <2>1 DEF Announced
  <2>2. CASE b # None
    <3>1. b.managed \in Contents /\ jr[Cur] = Entry("prepared", b.managed, b.managed)
      BY <1>1, <2>2, ImageTypes DEF Serving, Announced
    <3>2. jr[Cur] \in Entries /\ jr[Cur].phase = "prepared"
      BY <3>1 DEF Entry, Entries
    <3> QED BY <3>2, SentinelAssumption
  <2> QED BY <2>1, <2>2
<1>3. Base'
  BY <1>1, <1>2, RewriteCalls, MovedFilesServed DEF Serving
<1>4. CASE Goto("reload") /\ drop'[Cur] = Content(rec.image[Cur])
  <2>1. UNCHANGED <<mem, Cur>> /\ pc' = "reload"
    BY <1>4 DEF Goto, Cur
  <2>2. rec.image[Cur].before = None => drop'[Cur] = None
    BY <1>4 DEF Content
  <2>3. Ahead'
    BY <1>1, <2>1, <2>2 DEF Ahead, Reconciling
  <2> QED BY <1>3, <2>3
<1>5. CASE Fail("failed") \/ Exit
  BY <1>1, <1>3, <1>5, FailAhead, ExitAhead DEF Serving
<1> QED BY <1>4, <1>5, RewriteCalls DEF Serving

\* Between the targets: the selection is through, or the compensation starts or ends.
LEMMA BetweenServed ==
  ASSUME Serving, Applied \/ Failed \/ Recover \/ Undone
  PROVE  Base' /\ Ahead'
<1>1. /\ UNCHANGED <<unit, touched, svc, jr, drop, loaded>> /\ rec' \in {rec, None}
      /\ pc' \in {"release", "idle", "failed", "undo"}
  BY DEF Applied, Failed, Recover, Undone, Compensate, Exit, durable, system
<1>2. Ahead'
  BY <1>1 DEF Ahead, Reconciling
<1>3. CASE UNCHANGED rec
  BY <1>1, <1>2, <1>3, BaseStays DEF Serving
<1>4. CASE rec' = None
  <2>1. Base'
    BY <1>1, <1>4 DEF Serving, Base, Valid, Served, Own
  <2> QED BY <1>2, <2>1
<1> QED BY <1>1, <1>3, <1>4

\* Restarts start what is loaded, and an edit takes its target out of the promise.
LEMMA WorldServed ==
  ASSUME Serving,
         \/ Kill \/ ReloadByOthers \/ (\E t \in Targets : JobDone(t) \/ StartStop(t) \/ Edit(t))
         \/ UNCHANGED vars
  PROVE  Base' /\ Ahead'
<1>1. UNCHANGED <<rec, jr>> /\ (rec # None => UNCHANGED Scope)
  BY DEF Kill, ReloadByOthers, JobDone, StartStop, Edit, durable, vars, Scope
<1>2. svc \in [Targets -> [running : BOOLEAN, env : Files, job : BOOLEAN]]
      /\ drop \in [Targets -> Files] /\ unit \in [Targets -> {"valid", "replaced", "absent"}]
  BY DEF Serving, TypeInv, DataInv, TypeOK
<1>3. CASE Kill \/ UNCHANGED vars
  <2>1. UNCHANGED <<unit, touched, svc, jr, drop, loaded, rec>>
    BY <1>3 DEF Kill, durable, system, vars
  <2>2. Base'
    BY <2>1, BaseStays DEF Serving
  <2>3. UNCHANGED vars => Ahead'
    <3>1. SUFFICES ASSUME UNCHANGED vars PROVE Ahead'
      OBVIOUS
    <3>2. UNCHANGED <<Cur, pc, mem, rec, jr, drop, loaded, svc, touched>>
      BY <3>1 DEF vars, durable, system, Cur
    <3> QED BY <3>2 DEF Serving, Ahead
  <2> QED BY <1>3, <2>2, <2>3, ExitAhead DEF Kill
<1>4. ASSUME NEW u \in Targets, JobDone(u) \/ StartStop(u) PROVE Base' /\ Ahead'
  <2>1. UNCHANGED <<unit, touched, drop, loaded, pc, mem>> /\ UNCHANGED Cur
    BY <1>4 DEF JobDone, StartStop, durable, Cur
  <2>2. /\ \A t \in Targets : t # u => svc'[t] = svc[t]
        /\ svc'[u].running => svc'[u].env = loaded[u]
    BY <1>2, <1>4 DEF JobDone, StartStop
  <2>3. Base'
    BY <1>1, <2>1, <2>2 DEF Serving, Base, Valid, Served, Own
  <2>4. Ahead'
    BY <1>1, <2>1, <2>2 DEF Serving, Ahead
  <2> QED BY <2>3, <2>4
<1>5. CASE ReloadByOthers
  <2>1. UNCHANGED <<unit, touched, drop, svc, pc, mem>> /\ loaded' = drop /\ UNCHANGED Cur
    BY <1>5 DEF ReloadByOthers, durable, Cur
  <2>2. Base'
    BY <1>1, <2>1, BaseStays DEF Serving
  <2>3. Ahead'
    BY <1>1, <2>1 DEF Serving, Ahead
  <2> QED BY <2>2, <2>3
<1>6. ASSUME NEW u \in Targets, Edit(u) PROVE Base' /\ Ahead'
  <2>1. UNCHANGED <<svc, loaded, pc, mem>> /\ touched' = touched \cup {u} /\ UNCHANGED Cur
    BY <1>6 DEF Edit, Cur
  <2>2. \A t \in Targets : t # u => drop'[t] = drop[t] /\ unit'[t] = unit[t]
    BY <1>2, <1>6 DEF Edit
  <2>3. Base'
    BY <1>1, <2>1, <2>2 DEF Serving, Base, Valid, Served, Own
  <2>4. Ahead'
    BY <1>1, <2>1, <2>2 DEF Serving, Ahead
  <2> QED BY <2>3, <2>4
<1> QED BY <1>3, <1>4, <1>5, <1>6

\* Every step keeps active entries true.
LEMMA StepServed == Serving /\ [Next]_vars => Base' /\ Ahead'
<1> SUFFICES ASSUME Serving, [Next]_vars PROVE Base' /\ Ahead'
  OBVIOUS
<1>1. CASE \E cand \in Settings : Plan(cand)
  BY <1>1, PlanServed
<1>2. CASE Process \/ Recover
  <2>1. CASE Validate \/ Prepare \/ Write \/ Reload \/ Check \/ Wait
    BY <2>1, ValidateServed, PrepareServed, WriteServed, ReloadServed, CheckServed, WaitServed
  <2>2. CASE CommitApply \/ Forget \/ Release \/ RemoveDropIn \/ PutBack \/ ReloadBack
    BY <2>2, CommitApplyServed, ForgetServed, ReleaseServed, RemoveDropInServed, PutBackServed,
       ReloadBackServed
  <2>3. CASE Applied \/ Failed \/ Recover \/ Undo \/ Rewrite \/ Settle \/ Undone
    BY <2>3, BetweenServed, UndoServed, RewriteServed, SettleServed
  <2> QED BY <1>2, <2>1, <2>2, <2>3 DEF Process
<1> QED BY <1>1, <1>2, WorldServed DEF Next

\* The whole inductive invariant, in every reachable state.
LEMMA ServedInvariant == Spec => [](Serving /\ JobInv)
<1>1. Init => Base /\ Ahead
  <2> SUFFICES ASSUME Init PROVE Base /\ Ahead
    OBVIOUS
  <2>1. \A t \in Targets : svc[t].running => svc[t].env = None
    BY DEF Init
  <2> QED BY <2>1 DEF Init, Base, Ahead, Valid, Served, Own, Reconciling
<1>2. Serving <=> TypeInv /\ JournalInv /\ Base /\ Ahead
  BY DEF Serving
<1> QED BY <1>1, <1>2, StepServed, JobInvariant, PTL DEF Spec

-----------------------------------------------------------------------------
(* The theorems.                                                           *)

\* An active entry is true: unless somebody has changed the target's files, the
\* drop-in is there, systemd has loaded it, and the process was started with it.
THEOREM EntriesAreTrue == Spec => []ActiveIsServed
<1>1. Serving /\ JobInv => ActiveIsServed
  BY DEF Serving, Base, Served, Own, ActiveIsServed
<1> QED BY <1>1, ServedInvariant, PTL

\* When no command runs and no recovery is owed, the journal, the drop-ins, what
\* systemd has loaded and the processes all say what the store says.
THEOREM RestIsAsStored == Spec => []RestIsClean
<1>1. Serving /\ JobInv => RestIsClean
  <2> SUFFICES ASSUME Serving, JobInv, rec = None, NEW t \in Targets \ touched
               PROVE  LET c == IF t \in store.sel THEN store.proxy ELSE None IN
                        /\ jr[t] = IF c = None THEN None ELSE Active(c)
                        /\ drop[t] = c /\ loaded[t] = c
                        /\ svc[t].running => svc[t].env = c
    BY DEF RestIsClean
  <2>1. jr[t] = Clean(store, t) /\ ~svc[t].job /\ store \in Settings
    BY DEF Serving, JournalInv, JobInv, TypeInv, DataInv, TypeOK
  <2>2. CASE t \in store.sel
    <3>1. store.proxy \in Contents
      BY <2>1, <2>2 DEF Settings
    <3>2. Active(store.proxy) \in Entries /\ Active(store.proxy).managed = store.proxy
          /\ Active(store.proxy).phase = "active"
      BY <3>1 DEF Active, Entry, Entries
    <3>3. jr[t] = Active(store.proxy) /\ jr[t] # None /\ store.proxy # None
      BY <2>1, <2>2, <3>1, <3>2, SentinelAssumption, HermesAssumption DEF Clean
    <3>4. Served(t) /\ Own(t) = store.proxy
      BY <3>2, <3>3 DEF Serving, Base, Own
    <3> QED BY <2>1, <2>2, <3>3, <3>4 DEF Served
  <2>3. CASE t \notin store.sel
    <3>1. jr[t] = None /\ Own(t) = None /\ Served(t)
      BY <2>1, <2>3 DEF Clean, Own, Serving, Base
    <3> QED BY <2>1, <2>3, <3>1 DEF Served
  <2> QED BY <2>2, <2>3
<1> QED BY <1>1, ServedInvariant, PTL

\* A step of the program changes files of one target, the one whose turn it is.
LEMMA FilesOfOne ==
  ASSUME TypeInv, JournalInv, [Next]_vars, left'.edits = left.edits
  PROVE  \/ UNCHANGED <<drop, quar>>
         \/ pc \in AtTarget \ {"wait"} /\ FilesMove
<1> USE DEF durable, system
<1>1. CASE Write \/ RemoveDropIn \/ PutBack \/ Rewrite
  <2>1. pc \in AtTarget \ {"wait"}
    BY <1>1 DEF Write, RemoveDropIn, PutBack, Rewrite, AtTarget, PCs
  <2> QED BY <1>1, <2>1, WriteCalls, RemoveDropInCalls, PutBackCalls, RewriteCalls
<1>2. ASSUME NEW t \in Targets, Edit(t) PROVE FALSE
  BY <1>2, SpendTypes DEF Edit, TypeInv
<1>3. CASE \/ \E cand \in Settings : Plan(cand)
           \/ Validate \/ Prepare \/ Reload \/ Check \/ Wait
  BY <1>3 DEF Plan, Validate, Prepare, Reload, Check, Wait
<1>4. CASE CommitApply \/ Forget \/ Release \/ ReloadBack \/ Applied \/ Failed \/ Undo \/ Settle \/ Undone
  BY <1>4 DEF CommitApply, Forget, Release, ReloadBack, Applied, Failed, Undo, Settle, Undone
<1>5. CASE \/ Recover \/ Kill \/ ReloadByOthers \/ UNCHANGED vars
           \/ \E t \in Targets : JobDone(t) \/ StartStop(t)
  BY <1>5 DEF Recover, Kill, ReloadByOthers, JobDone, StartStop, vars
<1> QED BY <1>1, <1>2, <1>3, <1>4, <1>5 DEF Next, Process

\* A step changes the entry of one target, the one whose turn it is.
LEMMA EntryOfOne ==
  ASSUME TypeInv, [Next]_vars
  PROVE  UNCHANGED jr \/ (pc \in AtTarget \ {"wait"} /\ OnlyCur)
<1> USE DEF durable, system
<1>1. CASE Prepare \/ CommitApply \/ Forget \/ Release \/ Undo \/ Settle
  <2>1. pc \in AtTarget \ {"wait"}
    BY <1>1 DEF Prepare, CommitApply, Forget, Release, Undo, Settle, AtTarget, PCs
  <2>2. jr' = jr \/ \E e : jr' = [jr EXCEPT ![Cur] = e]
    BY <1>1 DEF Prepare, CommitApply, Forget, Release, Undo, Settle, SaveEntry
  <2>3. jr \in [Targets -> Entries \cup {None}]
    BY DEF TypeInv, DataInv, TypeOK
  <2> QED BY <2>1, <2>2, <2>3 DEF OnlyCur
<1>2. CASE \/ \E cand \in Settings : Plan(cand)
           \/ Validate \/ Write \/ Reload \/ Check \/ Wait \/ RemoveDropIn \/ PutBack \/ ReloadBack
  BY <1>2 DEF Plan, Validate, Write, Reload, Check, Wait, RemoveDropIn, PutBack, ReloadBack
<1>3. CASE \/ Applied \/ Failed \/ Rewrite \/ Undone \/ Recover \/ Kill \/ ReloadByOthers \/ UNCHANGED vars
           \/ \E t \in Targets : JobDone(t) \/ StartStop(t) \/ Edit(t)
  BY <1>3 DEF Applied, Failed, Rewrite, Undone, Recover, Kill, ReloadByOthers, JobDone, StartStop, Edit, vars
<1> QED BY <1>1, <1>2, <1>3 DEF Next, Process

\* A file of an administrator is never removed or overwritten: a step of the manager
\* leaves it in place or under the claimed name.
THEOREM ForeignFilesAreKept == Spec => ForeignKept
<1>1. TypeInv /\ JournalInv /\ [Next]_vars =>
        [\A t \in Targets :
           Foreign \in {drop[t], quar[t]} /\ left'.edits = left.edits
             => Foreign \in {drop'[t], quar'[t]}]_vars
  <2> SUFFICES ASSUME TypeInv, JournalInv, [Next]_vars, left'.edits = left.edits, NEW t \in Targets,
                      Foreign \in {drop[t], quar[t]}
               PROVE  Foreign \in {drop'[t], quar'[t]}
    OBVIOUS
  <2>1. CASE UNCHANGED <<drop, quar>>
    BY <2>1
  <2>2. CASE pc \in AtTarget \ {"wait"} /\ FilesMove
    BY <2>2, CurIsTarget, FilesMoveTypes
  <2> QED BY <2>1, <2>2, FilesOfOne
<1> QED BY <1>1, JournalInvariant, PTL DEF Spec, ForeignKept

\* Nothing of a target moves while a restart of it is outstanding: no command and no
\* compensation changes its files or its entry under the job.
THEOREM OutstandingJobsAreLeftAlone == Spec => JobsAreLeftAlone
<1>1. TypeInv /\ JournalInv /\ JobInv /\ [Next]_vars =>
        [\A t \in Targets :
           svc[t].job /\ svc'[t].job /\ left'.edits = left.edits
             => drop'[t] = drop[t] /\ quar'[t] = quar[t] /\ jr'[t] = jr[t]]_vars
  <2> SUFFICES ASSUME TypeInv, JournalInv, JobInv, [Next]_vars, left'.edits = left.edits,
                      NEW t \in Targets, svc[t].job
               PROVE  drop'[t] = drop[t] /\ quar'[t] = quar[t] /\ jr'[t] = jr[t]
    OBVIOUS
  <2>1. pc \in AtTarget \ {"wait"} => t # Cur /\ Cur \in Targets
    BY CurHasNoJob, CurIsTarget
  <2>2. drop'[t] = drop[t] /\ quar'[t] = quar[t]
    BY <2>1, FilesOfOne, FilesMoveTypes
  <2>3. jr'[t] = jr[t]
    BY <2>1, EntryOfOne DEF OnlyCur
  <2> QED BY <2>2, <2>3
<1> QED BY <1>1, JobInvariant, PTL DEF Spec, JobsAreLeftAlone

----------------------------------------------------------------------------
(* How long to wait for a restart: RestartBudget                           *)

\* A timeout is the sum of its terms: a term that is allowed is added without
\* overflow, one that would overflow is refused, and no other.
THEOREM TermsAreExact ==
  ASSUME Limit \in Nat,
         NEW total \in 0 .. Limit, NEW term \in Duration
  PROVE  /\ TermAllowed(total, term) <=> term >= 0 /\ total + term <= Limit
         /\ TermAllowed(total, term) =>
              NextTotal(total, term) = total + term /\ NextTotal(total, term) \in 0 .. Limit
BY DEF TermAllowed, NextTotal, Add, Sub, Duration

\* The wait is never shorter than what systemd grants the restart, nor longer
\* than the maximum, and a restart is refused only if it could take longer than
\* that; whatever the width, no sum overflows.
THEOREM BudgetIsExact ==
  ASSUME Limit \in Nat, MaxWait \in 0 .. Limit, Grace \in 0 .. MaxWait, MinWait \in 0 .. MaxWait,
         NEW stop \in 1 .. Limit, NEW start \in 1 .. Limit
  PROVE  /\ BudgetAllowed(stop, start) <=> stop + start + Grace <= MaxWait
         /\ BudgetAllowed(stop, start) =>
              /\ Budget(stop, start) >= stop + start + Grace
              /\ Budget(stop, start) \in MinWait .. MaxWait
              /\ Budget(stop, start) \in {MinWait, stop + start + Grace}
<1>1. Available = MaxWait - Grace /\ Available \in 0 .. Limit
  BY DEF Available, Sub, Add
<1>2. stop <= Available => Sub(Available, stop) = MaxWait - Grace - stop
  BY <1>1 DEF Sub, Add
<1>3. BudgetAllowed(stop, start) <=> stop + start + Grace <= MaxWait
  BY <1>1, <1>2 DEF BudgetAllowed
<1>4. ASSUME BudgetAllowed(stop, start)  PROVE Sum(stop, start) = stop + start + Grace
  BY <1>3, <1>4 DEF Sum, Add
<1> QED BY <1>3, <1>4 DEF Budget
=============================================================================
