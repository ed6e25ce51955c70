------------------------- MODULE GlobalJournalProofs -------------------------
(***************************************************************************)
(* The global scene, for every set of contents and any number of           *)
(* transactions, kills, failures and edits: the journal that is read is    *)
(* the last one saved, and what an administrator has written is never      *)
(* lost; and, while nobody edits the files, a system without a transaction *)
(* is whole and a compensation changes nothing.  At the end, the           *)
(* compare-and-swap its steps rest on (ArtifactCAS), for every set of      *)
(* contents and calls: no foreign content is lost, success is real,        *)
(* nothing is left aside, and a call nobody disturbs is the one step that  *)
(* CASOutcome describes.                                                   *)
(***************************************************************************)
EXTENDS GlobalJournal, ArtifactCAS, TLAPS

Forward == {"apply", "restore"}

(***************************************************************************)
(* Types, with what the position of the process says of its memory.        *)
(***************************************************************************)

\* An active journal has something to own and nothing under way.
Sound(j) == j # Absent /\ j.phase = "active" => j.man \in Proxies /\ j.pend = Absent

TypeInv ==
  /\ TypeOK /\ edits \in Nat
  /\ \A x \in Copies : Sound(jrn[x])
  /\ Sound(mem)
  /\ receipt # None => /\ receipt.floor < MaxGen /\ Sound(receipt.before)
                       /\ receipt.before # Absent =>
                            /\ receipt.before.phase = "active"
                            /\ \A p \in Paths : receipt.files[p] = receipt.before.man
  /\ pc # "idle" => receipt # None
  /\ pc = "prepare" => receipt.want \in Proxies
  /\ pc \in {"prepare", "check", "write", "written"} => job = "apply"
  /\ pc \in {"restore", "undo", "done", "failed"} => job \in Forward
  /\ pc \in {"comp", "comp_write", "close"} => job = "compensate"
  /\ pc \in {"save", "save_main", "drop"} => job \in Forward \cup {"compensate"}
  /\ pc \in {"save", "save_main", "check", "write", "written", "undo"} => mem # Absent
  /\ pc \in {"check", "write", "written"} => mem.phase = "prepared"
  /\ pc = "undo" => mem.phase = "restoring"
  /\ pc \in {"save", "save_main", "check", "write", "written"} /\ mem.phase = "prepared" =>
       mem.pend \in Proxies
  /\ pc \in {"save", "save_main"} /\ mem.phase = "restoring" => todo = Paths
  /\ pc \in {"save", "save_main"} /\ job = "restore" => mem.phase = "restoring"
  /\ pc \in {"comp_write", "save", "save_main"} /\ job = "compensate" =>
       IF receipt.before = Absent THEN pc = "comp_write" /\ mem = Absent
       ELSE mem # Absent /\ mem = [receipt.before EXCEPT !.gen = mem.gen]
  /\ pc = "drop" /\ job = "compensate" => receipt.before = Absent
  /\ pc = "write" => expected = [p \in Paths |-> ApplyExpected(mem, p)]
  /\ pc = "comp_write" => expected = [p \in Paths |-> Allowed(receipt, p)]

(***************************************************************************)
(* The copies of the journal.                                              *)
(***************************************************************************)
JournalInv ==
  /\ ~Ambiguous /\ Loaded = latest
  /\ pc = "save" => mem.gen >= Gen(latest)
  /\ pc = "comp_write" /\ receipt.before # Absent => mem.gen >= Gen(latest)
  /\ pc = "save_main" => /\ jrn["bak"] = mem
                         /\ jrn["main"] # Absent => jrn["main"].gen < mem.gen
  /\ pc \in {"check", "write", "written", "undo"} => mem = latest
  /\ pc = "prepare" /\ latest # Absent => latest.phase = "active"

(***************************************************************************)
(* What the administrator has written.                                     *)
(***************************************************************************)

\* Everything the administrator ever had in a file, and whether what he has there now is
\* something he never had before.
Ever(p)  == past[p] \cup {user[p]}
Fresh(p) == user[p] \notin past[p] \cup {Absent}

\* Nothing of the administrator's comes from anywhere else.
Known(p, c) == c \in Admin => c \in Ever(p)
KnownAt(p) ==
  /\ Known(p, file[p]) /\ Known(p, quar[p])
  /\ \A c \in expected[p] : Known(p, c)
  /\ \A x \in Copies : jrn[x] # Absent => Known(p, jrn[x].orig[p])
  /\ mem # Absent => Known(p, mem.orig[p])
  /\ receipt # None => /\ Known(p, receipt.files[p])
                       /\ receipt.before # Absent => Known(p, receipt.before.orig[p])
KnownInv == \A p \in Paths : KnownAt(p)

\* Journal j keeps what the administrator has in p, and he never had it before.
Keeps(j, p) == Fresh(p) /\ j # Absent /\ j.orig[p] = user[p]

\* No transaction is being undone.
Calm == receipt = None \/ job \in Forward \/ pc = "close"

\* The compensation has decided, and has dealt with path p.
Undone(p) == /\ job = "compensate"
             /\ ((pc = "comp_write" /\ p \notin todo)
                 \/ pc \in {"save", "save_main", "drop", "close"})

OriginAt(p) ==
  /\ \A x \in Copies : Keeps(jrn[x], p) => Keeps(latest, p)
  /\ pc = "save" /\ Keeps(latest, p) => Keeps(mem, p)
  /\ pc \in {"save", "save_main"} /\ Keeps(mem, p) => Logical(p) \in RestoreExpected(mem, p)
  /\ Calm /\ Keeps(latest, p) => Logical(p) \in RestoreExpected(latest, p)
  /\ pc \in {"save", "save_main", "undo"} /\ mem.phase = "restoring" /\ Fresh(p)
       /\ user[p] \in expected[p] => Keeps(mem, p)
  /\ ((pc = "write" /\ p \notin todo) \/ pc = "written") /\ Keeps(mem, p) => Logical(p) = mem.pend
  /\ ((pc = "undo" /\ p \notin todo) \/ (pc = "drop" /\ job \in Forward)) /\ Keeps(latest, p) =>
       Logical(p) = user[p]
  /\ Undone(p) /\ Fresh(p) /\ Original(receipt, p) = user[p] => Logical(p) = receipt.files[p]
  /\ job = "compensate" /\ pc # "comp" /\ latest # Absent =>
       latest.orig[p] = Original(receipt, p)
  /\ pc = "close" => IF receipt.before = Absent THEN latest = Absent
                     ELSE latest # Absent /\ latest = [receipt.before EXCEPT !.gen = latest.gen]
  /\ Fresh(p) => \/ Logical(p) = user[p] \/ Keeps(latest, p)
                 \/ ~Calm /\ Keeps(receipt.before, p)
OriginInv == \A p \in Paths : OriginAt(p)

(***************************************************************************)
(* While nobody edits the files.                                           *)
(***************************************************************************)

\* Path p as a system without a transaction has it: the administrator's file and no
\* journal, or a managed file and the administrator's in an active journal.
Settled(p) ==
  /\ quar[p] = Absent
  /\ latest = Absent => file[p] = user[p]
  /\ latest # Absent => latest.phase = "active" /\ latest.orig[p] = user[p] /\ file[p] = latest.man

QuietAt(p) ==
  /\ \A x \in Copies : jrn[x] # Absent => jrn[x].orig[p] = user[p]
  /\ mem # Absent => mem.orig[p] = user[p]
  /\ receipt # None => Original(receipt, p) = user[p]
  /\ Calm /\ latest # Absent => Logical(p) \in RestoreExpected(latest, p)
  /\ pc \in {"save", "save_main"} => Logical(p) \in RestoreExpected(mem, p)
  /\ receipt = None \/ pc \in {"prepare", "done", "close"} \/ (pc = "restore" /\ job = "restore") =>
       Settled(p)
  /\ (pc = "write" /\ p \notin todo) \/ pc = "written" => file[p] = mem.pend /\ quar[p] = Absent
  /\ pc \in {"save", "save_main"} /\ job \in Forward /\ mem.phase = "active" =>
       file[p] = mem.man /\ quar[p] = Absent
  /\ (pc = "undo" /\ p \notin todo) \/ (pc = "drop" /\ job \in Forward) =>
       file[p] = user[p] /\ quar[p] = Absent
  /\ Undone(p) => file[p] = receipt.files[p] /\ quar[p] = Absent
QuietInv == edits = 0 => \A p \in Paths : QuietAt(p)

-----------------------------------------------------------------------------
(* A swap.                                                                 *)

\* What a file holds when its names hold f and q.
Held(f, q) == IF f = Absent THEN q ELSE f

\* A swap from f, q to s: what the file holds stays or, if it was expected, becomes
\* what is wanted, and the claim holds nothing new.
Legal(f, q, X, want, s) ==
  /\ s[1] \in {f, q, want, Absent} /\ s[2] \in {f, q, Absent}
  /\ \/ Held(s[1], s[2]) = Held(f, q)
     \/ Held(s[1], s[2]) = want /\ Held(f, q) \in X

\* A call that ends takes a legal step, and one that succeeds leaves what was wanted
\* under the file's own name (writeBoundedArtifactCAS, removeGlobalProxyArtifactCAS).
LEMMA FinalIsLegal ==
  ASSUME NEW f, NEW q, NEW X, NEW want
  PROVE  /\ Legal(f, q, X, want, Final(f, q, X, want))
         /\ Final(f, q, X, want)[3] = "ok" =>
              Final(f, q, X, want)[1] = want /\ Final(f, q, X, want)[2] = Absent
BY DEF Final, Legal, Held

\* So does a call that fails or is killed on the way.
LEMMA PassingIsLegal ==
  ASSUME NEW f, NEW q, NEW X, NEW want, NEW s \in Passing(f, q, X, want)
  PROVE  Legal(f, q, X, want, s)
BY DEF Passing, Replacing, Legal, Held

\* How a compare-and-swap of the next path may leave its file: as a legal step, or
\* replaced by an administrator whose content is kept.
Moved(want) ==
  /\ Legal(file[Turn], quar[Turn], expected[Turn], want, <<file'[Turn], quar'[Turn]>>)
  /\ UNCHANGED <<user, past, edits>>
TakenOver ==
  /\ \E c \in Admin : file'[Turn] = c /\ quar'[Turn] = Absent /\ Writes(Turn, c)
  /\ edits' = edits + 1
Halt(l) == IF l = "idle" THEN Exit ELSE FailTo(l)

SwapCases(want, ok, l) ==
  /\ file' \in [Paths -> States] /\ quar' \in [Paths -> States]
  /\ \A p \in Paths \ {Turn} : file'[p] = file[p] /\ quar'[p] = quar[p]
  /\ \/ /\ Moved(want) /\ file'[Turn] = want /\ quar'[Turn] = Absent
        /\ todo' = todo \ {Turn} /\ UNCHANGED <<job, expected, mem>>
        /\ pc' = IF todo = {Turn} THEN ok ELSE pc
     \/ (Moved(want) \/ TakenOver) /\ (Exit \/ Halt(l))

\* The next path is one of the two.
LEMMA TurnIsPath == Turn \in Paths
BY DEF Turn, Paths

\* A legal step leaves contents the state already knew.
LEMMA LegalType ==
  ASSUME NEW f \in States, NEW q \in States, NEW X, NEW want \in States, NEW s,
         Legal(f, q, X, want, s)
  PROVE  s[1] \in States /\ s[2] \in States
BY DEF Legal, States

\* Every swap of the next path is one of these cases.
LEMMA SwapStep ==
  ASSUME TypeOK, NEW want \in States, NEW ok, NEW l, SwapTurn(want, ok, Halt(l))
  PROVE  SwapCases(want, ok, l)
<1> DEFINE p == Turn
           r == Final(file[p], quar[p], expected[p], want)
           way == Passing(file[p], quar[p], expected[p], want)
<1>1. p \in Paths
  BY TurnIsPath
<1> HIDE DEF p
<1>2. file[p] \in States /\ quar[p] \in States /\ Absent \in States
      /\ file \in [Paths -> States] /\ quar \in [Paths -> States]
  BY <1>1 DEF TypeOK, States
<1>3. ASSUME NEW s, Names(p, s), s[1] \in States, s[2] \in States
      PROVE  /\ file' \in [Paths -> States] /\ quar' \in [Paths -> States]
             /\ \A x \in Paths \ {p} : file'[x] = file[x] /\ quar'[x] = quar[x]
             /\ file'[p] = s[1] /\ quar'[p] = s[2]
  BY <1>1, <1>2, <1>3 DEF Names
<1>4. ASSUME NEW s, Names(p, s), Legal(file[p], quar[p], expected[p], want, s)
      PROVE  /\ file' \in [Paths -> States] /\ quar' \in [Paths -> States]
             /\ \A x \in Paths \ {p} : file'[x] = file[x] /\ quar'[x] = quar[x]
             /\ file'[p] = s[1] /\ quar'[p] = s[2]
             /\ Legal(file[p], quar[p], expected[p], want, <<file'[p], quar'[p]>>)
  <2>1. s[1] \in States /\ s[2] \in States
    BY <1>2, <1>4, LegalType
  <2> QED BY <1>3, <1>4, <2>1 DEF Legal
<1>5. CASE Names(p, r) /\ UNCHANGED <<user, past, crashes, faults, edits>>
           /\ IF r[3] = "ok"
              THEN /\ todo' = todo \ {p} /\ UNCHANGED <<job, expected, mem>>
                   /\ Goto(IF todo = {p} THEN ok ELSE pc)
              ELSE Halt(l)
  <2>1. Legal(file[p], quar[p], expected[p], want, r)
        /\ (r[3] = "ok" => r[1] = want /\ r[2] = Absent)
    BY FinalIsLegal
  <2> HIDE DEF r
  <2> QED BY <1>4, <1>5, <2>1 DEF SwapCases, Moved, Goto, p
<1>6. CASE (\E s \in way : Names(p, s)) /\ UNCHANGED <<user, past, edits>> /\ (Exit \/ Halt(l))
  <2>1. PICK s \in way : Names(p, s)
    BY <1>6
  <2>2. Legal(file[p], quar[p], expected[p], want, s)
    BY PassingIsLegal
  <2> QED BY <1>4, <1>6, <2>1, <2>2 DEF SwapCases, Moved, p
<1>7. CASE (\E c \in Admin : Names(p, <<c, Absent>>) /\ Writes(p, c)) /\ edits' = edits + 1 /\ Halt(l)
  <2>1. PICK c \in Admin : Names(p, <<c, Absent>>) /\ Writes(p, c)
    BY <1>7
  <2>2. c \in States
    BY DEF States
  <2> QED BY <1>2, <1>3, <1>7, <2>1, <2>2 DEF SwapCases, TakenOver, p
<1> QED BY <1>5, <1>6, <1>7 DEF SwapTurn, p, Contested

-----------------------------------------------------------------------------
(* Types.                                                                  *)

\* The initial states have the invariant's types.
LEMMA InitType == Init => TypeInv
<1> SUFFICES ASSUME Init PROVE TypeInv
  OBVIOUS
<1>1. user \in [Paths -> States] /\ quar \in [Paths -> States]
  BY DEF Init, States
<1>2. file \in [Paths -> States] /\ jrn \in [Copies -> Journal \cup {Absent}]
      /\ latest \in Journal \cup {Absent} /\ \A x \in Copies : Sound(jrn[x])
  <2>1. CASE file = user /\ jrn = [x \in Copies |-> Absent] /\ latest = Absent
    BY <1>1, <2>1 DEF Sound
  <2>2. CASE \E v \in Proxies, g \in 1..MaxGen, lost \in {{}, {"main"}} :
               /\ file = [p \in Paths |-> v]
               /\ latest = [phase |-> "active", gen |-> g, orig |-> user, man |-> v, pend |-> Absent]
               /\ jrn = [x \in Copies |-> IF x \in lost THEN Absent ELSE latest]
    <3>1. PICK v \in Proxies, g \in 1..MaxGen, lost \in {{}, {"main"}} :
               /\ file = [p \in Paths |-> v]
               /\ latest = [phase |-> "active", gen |-> g, orig |-> user, man |-> v, pend |-> Absent]
               /\ jrn = [x \in Copies |-> IF x \in lost THEN Absent ELSE latest]
      BY <2>2
    <3>2. g \in 0..MaxGen /\ v \in Owned /\ Absent \in Owned /\ v \in States
      BY BoundAssumption DEF Owned, States
    <3>3. latest \in Journal /\ Sound(latest)
      BY <1>1, <3>1, <3>2 DEF Journal, Sound
    <3> QED BY <3>1, <3>2, <3>3 DEF Sound
  <2> QED BY <2>1, <2>2 DEF Init
<1> QED BY <1>1, <1>2, SentinelAssumption DEF Init, TypeInv, TypeOK, Sound, PCs, Forward

\* The journal that is read is one of the two copies, or there is none.
LEMMA LoadedType == TypeInv => Loaded \in Journal \cup {Absent} /\ Sound(Loaded)
BY DEF TypeInv, TypeOK, Loaded, Both, Copies, Sound

\* What the files hold is a content.
LEMMA LogicalType == TypeInv => \A p \in Paths : Logical(p) \in States
BY DEF TypeInv, TypeOK, Logical

\* The states a swap accepts are contents.
LEMMA ExpectedType ==
  /\ \A j \in Journal : \A p \in Paths :
       ApplyExpected(j, p) \subseteq States /\ RestoreExpected(j, p) \subseteq States
  /\ \A r \in Receipt : \A p \in Paths : Allowed(r, p) \subseteq States
<1>1. Owned \subseteq States
  BY DEF Owned, States
<1>2. ASSUME NEW j \in Journal, NEW p \in Paths
      PROVE  ApplyExpected(j, p) \subseteq States /\ RestoreExpected(j, p) \subseteq States
  BY <1>1 DEF Journal, ApplyExpected, RestoreExpected
<1>3. ASSUME NEW r \in Receipt, NEW p \in Paths
      PROVE  Allowed(r, p) \subseteq States
  BY <1>1 DEF Receipt, Journal, Allowed
<1> QED BY <1>2, <1>3

\* What the transitions write to a journal leaves it a journal.
LEMMA JournalUpdates ==
  ASSUME NEW j \in Journal
  PROVE  /\ \A w \in Owned : [j EXCEPT !.phase = "prepared", !.pend = w] \in Journal
         /\ \A g \in 0..MaxGen : [j EXCEPT !.gen = g] \in Journal
         /\ [j EXCEPT !.phase = "active", !.man = j.pend, !.pend = Absent] \in Journal
         /\ \A o \in [Paths -> States] : [j EXCEPT !.phase = "restoring", !.orig = o] \in Journal
<1>1. Absent \in Owned
  BY DEF Owned
<1> QED BY <1>1 DEF Journal

\* The part of the invariant about data, at whatever place the process is.
DataInv ==
  /\ TypeOK /\ edits \in Nat
  /\ (\A x \in Copies : Sound(jrn[x])) /\ Sound(mem)
  /\ receipt # None => /\ receipt.floor < MaxGen /\ Sound(receipt.before)
                       /\ receipt.before # Absent =>
                            /\ receipt.before.phase = "active"
                            /\ \A p \in Paths : receipt.files[p] = receipt.before.man

\* An exit of the process keeps the types, whatever it leaves on disk.
LEMMA ExitType ==
  TypeInv /\ Exit
    /\ file' \in [Paths -> States] /\ quar' \in [Paths -> States]
    /\ jrn' \in [Copies -> Journal \cup {Absent}] /\ (\A x \in Copies : Sound(jrn'[x]))
    /\ latest' \in Journal \cup {Absent} /\ receipt' \in {receipt, None}
    /\ edits' \in Nat /\ user' \in [Paths -> Admin \cup {Absent}]
    /\ past' \in [Paths -> SUBSET (Admin \cup {Absent})]
    => TypeInv'
<1> SUFFICES ASSUME TypeInv, Exit,
      file' \in [Paths -> States], quar' \in [Paths -> States],
      jrn' \in [Copies -> Journal \cup {Absent}], \A x \in Copies : Sound(jrn'[x]),
      latest' \in Journal \cup {Absent}, receipt' \in {receipt, None},
      edits' \in Nat, user' \in [Paths -> Admin \cup {Absent}],
      past' \in [Paths -> SUBSET (Admin \cup {Absent})]
    PROVE TypeInv'
  OBVIOUS
<1>1. pc' = "idle" /\ job' = "none" /\ mem' = Absent
      /\ expected' = [p \in Paths |-> {}] /\ todo' = {}
  BY DEF Exit, Goto
<1>2. DataInv'
  BY <1>1 DEF TypeInv, TypeOK, DataInv, Sound, PCs
<1> QED BY <1>1, <1>2 DEF TypeInv, DataInv

\* Begin.
LEMMA BeginType == ASSUME TypeInv, NEW want \in Owned, Begin(want) PROVE TypeInv'
<1>1. Loaded \in Journal \cup {Absent} /\ Sound(Loaded)
  BY LoadedType
<1> DEFINE r == [want |-> want, before |-> Loaded, files |-> file, floor |-> Gen(Loaded) + Reserved]
<1>2. /\ r \in Receipt /\ r.floor < MaxGen /\ r.before = Loaded /\ r.files = file /\ r.want = want
      /\ receipt' = r
  <2>1. Gen(Loaded) + Reserved \in Nat
    BY <1>1, BoundAssumption DEF Gen, Reserved, Journal
  <2> QED BY <1>1, <2>1 DEF Receipt, Begin, TypeInv, TypeOK
<1> HIDE DEF r
<1>3. r # None
  BY <1>2, SentinelAssumption
<1>4. DataInv'
  BY <1>1, <1>2, <1>3 DEF Begin, TypeInv, TypeOK, DataInv, disk, memory, Goto, PCs
<1>5. want # Absent => want \in Proxies
  BY DEF Owned
<1> QED BY <1>2, <1>3, <1>4, <1>5 DEF Begin, TypeInv, DataInv, Goto, memory, Forward, Sound

\* Prepare.
LEMMA PrepareType == ASSUME TypeInv, Prepare PROVE TypeInv'
<1>1. Loaded \in Journal \cup {Absent}
  BY LoadedType
<1>2. receipt \in Receipt /\ job \in Forward /\ receipt.want \in Proxies /\ receipt.want \in Owned
  BY DEF Prepare, TypeInv, TypeOK, Receipt, Forward
<1>3. /\ Taken(Loaded) \in Journal /\ Taken(Loaded).phase = "prepared"
      /\ Taken(Loaded).pend = receipt.want
  <2>1. CASE Loaded = Absent
    BY <1>2, <2>1, BoundAssumption DEF Taken, Journal, Owned, TypeInv, TypeOK
  <2>2. CASE Loaded # Absent
    BY <1>1, <1>2, <2>2, JournalUpdates DEF Taken, Journal
  <2> QED BY <2>1, <2>2
<1>4. Taken(Loaded) # Absent
  BY <1>3, SentinelAssumption
<1>5. DataInv'
  BY <1>3, <1>4 DEF Prepare, ReadFault, FailTo, memory, disk, TypeInv, TypeOK, DataInv, Goto, PCs, Sound
<1> QED BY <1>2, <1>3, <1>4, <1>5 DEF Prepare, ReadFault, memory, TypeInv, DataInv, Goto, Forward

\* A save of the journal in memory, to the backup.
LEMMA SaveType == ASSUME TypeInv, Save PROVE TypeInv'
<1>1. /\ mem \in Journal /\ mem # Absent /\ Sound(mem) /\ pc = "save" /\ TypeOK
      /\ job \in Forward \cup {"compensate"} /\ receipt # None
  BY DEF Save, TypeInv, TypeOK
<1> DEFINE j == [mem EXCEPT !.gen = @ + 1]
<1>2. ~Exhausted(mem) =>
        /\ j \in Journal /\ j.gen = mem.gen + 1 /\ j.orig = mem.orig /\ j.man = mem.man
        /\ j.pend = mem.pend /\ j.phase = mem.phase
        /\ j = [mem EXCEPT !.gen = j.gen]
  BY <1>1, BoundAssumption DEF Exhausted, Journal
<1>3. /\ ~Exhausted(mem) => j # Absent /\ Sound(j)
      /\ ~Exhausted(mem) /\ receipt.before # Absent /\ mem = [receipt.before EXCEPT !.gen = mem.gen]
           => j = [receipt.before EXCEPT !.gen = j.gen]
  BY <1>1, <1>2, SentinelAssumption DEF Sound, TypeInv, TypeOK, Receipt, Journal
<1>4. \/ UNCHANGED <<jrn, latest>> /\ SaveFailed
      \/ ~Exhausted(mem) /\ jrn' = [jrn EXCEPT !["bak"] = j] /\ latest' = j
           /\ \/ SaveFailed
              \/ mem' = j /\ pc' = "save_main" /\ UNCHANGED <<job, expected, todo>>
  BY DEF Save, Goto
<1> HIDE DEF j
<1>5. /\ jrn' \in [Copies -> Journal \cup {Absent}] /\ (\A x \in Copies : Sound(jrn'[x]))
      /\ latest' \in Journal \cup {Absent} /\ receipt' = receipt
      /\ UNCHANGED <<file, quar, user, past, edits>>
  BY <1>2, <1>3, <1>4 DEF TypeInv, TypeOK, Save, disk, Copies
<1>6. CASE SaveFailed
  <2>1. CASE Exit
    BY <1>5, <2>1, ExitType DEF TypeInv, TypeOK
  <2>2. CASE UNCHANGED memory /\ job # "compensate" /\ pc' \in {"restore", "failed"}
    BY <1>1, <1>5, <2>2 DEF TypeInv, TypeOK, memory, PCs, Forward
  <2> QED BY <1>6, <2>1, <2>2 DEF SaveFailed, FailTo, Goto
<1>7. CASE ~Exhausted(mem) /\ mem' = j /\ pc' = "save_main" /\ UNCHANGED <<job, expected, todo>>
  BY <1>1, <1>2, <1>3, <1>5, <1>7 DEF TypeInv, TypeOK, PCs, Save
<1> QED BY <1>4, <1>6, <1>7

\* ... and to the main copy.
LEMMA SaveMainType == ASSUME TypeInv, SaveMain PROVE TypeInv'
<1>1. /\ mem \in Journal /\ mem # Absent /\ Sound(mem) /\ pc = "save_main" /\ TypeOK
      /\ job \in Forward \cup {"compensate"} /\ receipt # None
  BY DEF SaveMain, TypeInv, TypeOK
<1>2. /\ jrn' \in [Copies -> Journal \cup {Absent}] /\ (\A x \in Copies : Sound(jrn'[x]))
      /\ receipt' = receipt /\ UNCHANGED <<file, quar, latest, user, past, edits>>
  BY <1>1 DEF TypeInv, TypeOK, SaveMain, disk, Copies
<1>3. CASE SaveFailed
  <2>1. CASE Exit
    BY <1>2, <2>1, ExitType DEF TypeInv, TypeOK
  <2>2. CASE UNCHANGED memory /\ job # "compensate" /\ pc' \in {"restore", "failed"}
    BY <1>1, <1>2, <2>2 DEF TypeInv, TypeOK, memory, PCs, Forward
  <2> QED BY <1>3, <2>1, <2>2 DEF SaveFailed, FailTo, Goto
<1>4. CASE pc' = AfterSave /\ UNCHANGED memory
  <2>1. mem.phase \in {"prepared", "active", "restoring"}
    BY <1>1 DEF Journal
  <2>2. job = "compensate" => pc' = "close"
    BY <1>4 DEF AfterSave
  <2>3. job # "compensate" => job \in Forward /\ pc' = IF mem.phase = "prepared" THEN "check"
                                     ELSE IF mem.phase = "active" THEN "done" ELSE "undo"
    BY <1>1, <1>4 DEF AfterSave
  <2> QED BY <1>1, <1>2, <1>4, <2>1, <2>2, <2>3 DEF TypeInv, TypeOK, memory, PCs, Forward
<1> QED BY <1>3, <1>4 DEF SaveMain, Goto

\* Check.
LEMMA CheckType == ASSUME TypeInv, Check PROVE TypeInv'
<1>1. \A p \in Paths : ApplyExpected(mem, p) \in SUBSET States
  BY ExpectedType DEF TypeInv, TypeOK, Check
<1>2. CASE ReadFault("failed")
  BY <1>2 DEF ReadFault, Goto, Check, TypeInv, TypeOK, memory, disk, PCs, Forward
<1>3. CASE /\ expected' = [p \in Paths |-> ApplyExpected(mem, p)] /\ todo' = Paths
           /\ pc' \in {"write", "failed"} /\ UNCHANGED <<job, mem>>
  <2>1. expected' \in [Paths -> SUBSET States]
    BY <1>1, <1>3
  <2>2. expected' = [p \in Paths |-> ApplyExpected(mem', p)]
    BY <1>3
  <2> QED BY <1>3, <2>1, <2>2 DEF Check, TypeInv, TypeOK, disk, PCs, Forward
<1> QED BY <1>2, <1>3 DEF Check, Goto

\* The outcome of a swap leaves the files and the history well typed, ...
LEMMA SwapFiles ==
  ASSUME TypeInv, NEW want, NEW ok, NEW l, SwapCases(want, ok, l)
  PROVE  /\ file' \in [Paths -> States] /\ quar' \in [Paths -> States] /\ edits' \in Nat
         /\ user' \in [Paths -> Admin \cup {Absent}]
         /\ past' \in [Paths -> SUBSET (Admin \cup {Absent})]
<1>1. CASE UNCHANGED <<user, past, edits>>
  BY <1>1 DEF SwapCases, TypeInv, TypeOK
<1>2. CASE TakenOver
  <2>1. PICK c \in Admin : Writes(Turn, c)
    BY <1>2 DEF TakenOver
  <2>2. Turn \in Paths
    BY TurnIsPath
  <2> HIDE DEF Turn
  <2> QED BY <1>2, <2>1, <2>2 DEF SwapCases, TypeInv, TypeOK, Writes, TakenOver
<1> QED BY <1>1, <1>2 DEF SwapCases, Moved

\* ... and the process at the same step, at the next one, or giving up.
LEMMA SwapType ==
  ASSUME TypeInv, NEW want, NEW ok, NEW l, SwapCases(want, ok, l),
         UNCHANGED <<jrn, latest, receipt>>,
         \/ pc = "write" /\ ok = "written" /\ l = "restore"
         \/ pc = "undo" /\ ok = "drop" /\ l = "failed"
  PROVE  TypeInv'
<1>1. /\ file' \in [Paths -> States] /\ quar' \in [Paths -> States] /\ edits' \in Nat
      /\ user' \in [Paths -> Admin \cup {Absent}]
      /\ past' \in [Paths -> SUBSET (Admin \cup {Absent})]
  BY SwapFiles
<1>2. CASE Exit
  BY <1>1, <1>2, ExitType DEF TypeInv, TypeOK
<1>3. CASE pc' = l /\ UNCHANGED memory
  BY <1>1, <1>3 DEF TypeInv, TypeOK, memory, PCs, Forward
<1>4. CASE /\ todo' \subseteq todo /\ UNCHANGED <<job, expected, mem>>
           /\ pc' \in {ok, pc}
  BY <1>1, <1>4 DEF TypeInv, TypeOK, PCs, Forward
<1> QED BY <1>2, <1>3, <1>4 DEF SwapCases, Halt, FailTo, Goto

\* The three actions that swap the next path.
LEMMA WriteSwaps == ASSUME TypeInv, Write PROVE SwapCases(mem.pend, "written", "restore")
<1>1. mem.pend \in States
  BY DEF Write, TypeInv, TypeOK, Journal, Owned, States
<1>2. SwapTurn(mem.pend, "written", Halt("restore"))
  BY DEF Write, Halt
<1> QED BY <1>1, <1>2, SwapStep DEF TypeInv

\* Undo.
LEMMA UndoSwaps == ASSUME TypeInv, Undo PROVE SwapCases(mem.orig[Turn], "drop", "failed")
<1>1. mem.orig[Turn] \in States
  BY TurnIsPath DEF Undo, TypeInv, TypeOK, Journal
<1>2. SwapTurn(mem.orig[Turn], "drop", Halt("failed"))
  BY DEF Undo, Halt
<1> QED BY <1>1, <1>2, SwapStep DEF TypeInv

\* CompWrite.
LEMMA CompWriteSwaps ==
  ASSUME TypeInv, CompWrite
  PROVE  SwapCases(receipt.files[Turn], JournalNext(receipt, TRUE), "idle")
<1>1. receipt.files[Turn] \in States
  BY TurnIsPath DEF CompWrite, TypeInv, TypeOK, Receipt
<1>2. SwapTurn(receipt.files[Turn], JournalNext(receipt, TRUE), Halt("idle"))
  BY DEF CompWrite, Halt
<1> QED BY <1>1, <1>2, SwapStep DEF TypeInv

\* Written.
LEMMA WrittenType == ASSUME TypeInv, Written PROVE TypeInv'
<1>1. mem \in Journal /\ mem.pend \in Proxies
  BY DEF Written, TypeInv, TypeOK
<1> DEFINE j == [mem EXCEPT !.phase = "active", !.man = mem.pend, !.pend = Absent]
<1>2. j \in Journal /\ j.phase = "active" /\ j.man = mem.pend /\ j.pend = Absent
  BY <1>1, JournalUpdates DEF Journal
<1>3. mem' = j
  BY DEF Written
<1> HIDE DEF j
<1> QED BY <1>1, <1>2, <1>3, SentinelAssumption
    DEF Written, TypeInv, TypeOK, Sound, disk, Goto, PCs, Forward

\* Restore.
LEMMA RestoreType == ASSUME TypeInv, Restore PROVE TypeInv'
<1>1. Loaded \in Journal \cup {Absent} /\ Sound(Loaded)
  BY LoadedType
<1>2. CASE UNCHANGED memory /\ pc' \in {"done", "failed"}
  BY <1>2 DEF Restore, TypeInv, TypeOK, memory, disk, PCs
<1>3. CASE /\ Loaded # Absent /\ mem' = Released(Loaded) /\ todo' = Paths
           /\ expected' = [p \in Paths |-> RestoreExpected(Loaded, p)]
           /\ pc' \in {"undo", "save"} /\ UNCHANGED job
  <2>1. [p \in Paths |-> IF Logical(p) \in RestoreExpected(Loaded, p) THEN Loaded.orig[p]
                         ELSE Logical(p)] \in [Paths -> States]
    BY <1>1, <1>3, LogicalType DEF Journal
  <2>2. Released(Loaded) \in Journal /\ Released(Loaded).phase = "restoring"
    BY <1>1, <1>3, <2>1, JournalUpdates DEF Released, Journal
  <2>3. expected' \in [Paths -> SUBSET States]
    BY <1>1, <1>3, ExpectedType
  <2> HIDE DEF Released
  <2> QED BY <1>3, <2>2, <2>3, SentinelAssumption
      DEF Restore, TypeInv, TypeOK, Sound, disk, PCs, Forward
<1> QED BY <1>2, <1>3 DEF Restore, ReadFault, Goto, Restored

\* Drop.
LEMMA DropType == ASSUME TypeInv, Drop PROVE TypeInv'
<1>1. /\ jrn' \in [Copies -> Journal \cup {Absent}] /\ (\A x \in Copies : Sound(jrn'[x]))
      /\ latest' \in Journal \cup {Absent}
  <2>1. CASE jrn' = [x \in Copies |-> Absent] /\ latest' = Absent
    BY <2>1 DEF Sound
  <2>2. CASE \E kept \in SUBSET Copies :
               /\ jrn' = [x \in Copies |-> IF x \in kept THEN jrn[x] ELSE Absent]
               /\ latest' = Loaded'
    <3>1. jrn' \in [Copies -> Journal \cup {Absent}] /\ (\A x \in Copies : Sound(jrn'[x]))
      BY <2>2 DEF TypeInv, TypeOK, Sound
    <3> QED BY <2>2, <3>1 DEF Loaded, Both, Copies
  <2> QED BY <2>1, <2>2 DEF Drop
<1>2. pc = "drop" /\ UNCHANGED <<file, quar, user, past, receipt, edits>>
  BY DEF Drop, disk
<1>3. CASE Exit
  BY <1>1, <1>2, <1>3, ExitType DEF TypeInv, TypeOK
<1>4. CASE /\ UNCHANGED memory
           /\ \/ job = "compensate" /\ pc' = "close"
              \/ job # "compensate" /\ pc' \in {"done", "failed"}
  BY <1>1, <1>2, <1>4 DEF TypeInv, TypeOK, memory, PCs, Forward
<1> QED BY <1>3, <1>4 DEF Drop, FailTo, Goto, Restored

\* Compensate.
LEMMA CompensateType == ASSUME TypeInv, Compensate PROVE TypeInv'
<1>1. /\ receipt \in Receipt /\ receipt # None /\ pc = "comp" /\ job = "compensate"
      /\ Loaded \in Journal \cup {Absent} /\ receipt.before \in Journal \cup {Absent}
  BY LoadedType DEF Compensate, TypeInv, TypeOK, Receipt
<1>2. Floor(receipt) \in 0..MaxGen
  <2>1. receipt.floor \in Nat /\ receipt.floor < MaxGen /\ Gen(Loaded) \in 0..MaxGen
    BY <1>1, BoundAssumption DEF Gen, Receipt, Journal, TypeInv
  <2> QED BY <2>1, BoundAssumption DEF Floor
<1>3. CASE Exit
  BY <1>3, ExitType DEF Compensate, disk, TypeInv, TypeOK
<1>4. CASE /\ expected' = [p \in Paths |-> Allowed(receipt, p)]
           /\ todo' = Pending(receipt)
           /\ mem' = (IF receipt.before = Absent THEN Absent
                      ELSE [receipt.before EXCEPT !.gen = Floor(receipt)])
           /\ pc' = (IF Pending(receipt) # {} THEN "comp_write" ELSE JournalNext(receipt, FALSE))
           /\ UNCHANGED <<job, disk, jrn, latest, receipt, edits>>
  <2>1. expected' \in [Paths -> SUBSET States] /\ todo' \subseteq Paths
    BY <1>1, <1>4, ExpectedType DEF Pending
  <2>2. CASE receipt.before = Absent
    <3>1. pc' \in {"comp_write", "close", "drop"} /\ mem' = Absent
      BY <1>4, <2>2 DEF JournalNext
    <3> QED BY <1>1, <1>4, <2>1, <2>2, <3>1 DEF TypeInv, TypeOK, disk, PCs, Sound, Forward
  <2>3. CASE receipt.before # Absent
    <3> DEFINE j == [receipt.before EXCEPT !.gen = Floor(receipt)]
    <3>1. /\ j \in Journal /\ j.phase = "active" /\ Sound(j)
          /\ j = [receipt.before EXCEPT !.gen = j.gen]
      BY <1>1, <1>2, <2>3, JournalUpdates DEF Journal, TypeInv, Sound
    <3>2. mem' = j /\ pc' \in {"comp_write", "close", "save"}
      BY <1>4, <2>3 DEF JournalNext
    <3> HIDE DEF j
    <3> QED BY <1>1, <1>4, <2>1, <2>3, <3>1, <3>2, SentinelAssumption
        DEF TypeInv, TypeOK, disk, PCs, Sound, Forward
  <2> QED BY <2>2, <2>3
<1> QED BY <1>3, <1>4 DEF Compensate, Goto

\* CompWrite.
LEMMA CompWriteType == ASSUME TypeInv, CompWrite PROVE TypeInv'
<1>1. receipt \in Receipt /\ receipt # None /\ pc = "comp_write" /\ job = "compensate"
  BY DEF CompWrite, TypeInv, TypeOK
<1>2. SwapCases(receipt.files[Turn], JournalNext(receipt, TRUE), "idle")
  BY CompWriteSwaps
<1>3. /\ file' \in [Paths -> States] /\ quar' \in [Paths -> States] /\ edits' \in Nat
      /\ user' \in [Paths -> Admin \cup {Absent}]
      /\ past' \in [Paths -> SUBSET (Admin \cup {Absent})]
  BY <1>2, SwapFiles
<1>4. CASE Exit
  BY <1>3, <1>4, ExitType DEF CompWrite, TypeInv, TypeOK
<1>5. CASE /\ todo' \subseteq todo /\ UNCHANGED <<job, expected, mem>>
           /\ pc' \in {JournalNext(receipt, TRUE), pc}
  <2>1. /\ receipt.before = Absent => JournalNext(receipt, TRUE) \in {"close", "drop"}
        /\ receipt.before # Absent => JournalNext(receipt, TRUE) = "save"
    BY DEF JournalNext
  <2>2. receipt.before # Absent => mem # Absent /\ mem = [receipt.before EXCEPT !.gen = mem.gen]
    BY <1>1 DEF TypeInv
  <2>3. receipt.before # Absent => mem.phase = "active"
    BY <1>1, <2>2 DEF TypeInv, Receipt, Journal
  <2> HIDE DEF JournalNext
  <2> QED BY <1>1, <1>3, <1>5, <2>1, <2>2, <2>3 DEF CompWrite, TypeInv, TypeOK, PCs, Forward
<1> QED BY <1>2, <1>4, <1>5 DEF SwapCases, Halt

\* The transaction around the step, a kill, and an administrator.
LEMMA OtherType ==
  ASSUME TypeInv,
         \/ Commit \/ Fail \/ Recover \/ Close \/ Crash
         \/ \E p \in Paths, c \in Admin \cup {Absent} : Edit(p, c)
  PROVE  TypeInv'
<1>1. CASE Commit \/ Close \/ Crash
  BY <1>1, ExitType DEF Commit, Close, Crash, TypeInv, TypeOK, disk
<1>2. CASE Fail \/ Recover
  BY <1>2 DEF Fail, Recover, TypeInv, TypeOK, disk, Goto, PCs, Forward
<1>3. CASE \E p \in Paths, c \in Admin \cup {Absent} : Edit(p, c)
  <2>1. PICK p \in Paths, c \in Admin \cup {Absent} : Edit(p, c)
    BY <1>3
  <2>2. c \in States
    BY DEF States
  <2>3. /\ file' \in [Paths -> States] /\ edits' \in Nat
        /\ user' \in [Paths -> Admin \cup {Absent}]
        /\ past' \in [Paths -> SUBSET (Admin \cup {Absent})]
    BY <2>1, <2>2 DEF Edit, Writes, TypeInv, TypeOK
  <2>4. UNCHANGED <<quar, jrn, latest, receipt, pc, job, mem, expected, todo>>
    BY <2>1 DEF Edit, memory
  <2> QED BY <2>3, <2>4 DEF TypeInv, TypeOK, ApplyExpected, Allowed
<1> QED BY <1>1, <1>2, <1>3

\* Every step keeps the types.
LEMMA NextType == TypeInv /\ [Next]_vars => TypeInv'
<1> SUFFICES ASSUME TypeInv, [Next]_vars PROVE TypeInv'
  OBVIOUS
<1>1. CASE UNCHANGED vars
  BY <1>1 DEF vars, disk, memory, TypeInv, TypeOK, ApplyExpected, Allowed
<1>2. CASE \E want \in Owned : Begin(want)
  BY <1>2, BeginType
<1>3. CASE Process
  BY <1>3, PrepareType, SaveType, SaveMainType, CheckType, WrittenType, RestoreType, WriteSwaps,
     UndoSwaps, SwapType, DropType, CompensateType, CompWriteType, OtherType DEF Process, Write, Undo
<1> QED BY <1>1, <1>2, <1>3, OtherType DEF Next

\* In every run of the global scene the state has its types: the step that is being made
\* determines what the process holds in memory, and a journal that is active owns
\* something and has nothing pending.
THEOREM TypeCorrect == Spec => []TypeOK
<1>1. TypeInv => TypeOK
  BY DEF TypeInv
<1> QED BY InitType, NextType, <1>1, PTL DEF Spec

-----------------------------------------------------------------------------
(* The copies of the journal.                                              *)

\* At the start there is no journal, or the one the last run left.
LEMMA InitJournal == Init => JournalInv
<1> SUFFICES ASSUME Init PROVE JournalInv
  OBVIOUS
<1>1. CASE jrn = [x \in Copies |-> Absent] /\ latest = Absent
  BY <1>1 DEF Init, JournalInv, Ambiguous, Both, Loaded, Copies
<1>2. CASE \E lost \in {{}, {"main"}} :
             jrn = [x \in Copies |-> IF x \in lost THEN Absent ELSE latest]
  <2>1. PICK lost \in {{}, {"main"}} :
             jrn = [x \in Copies |-> IF x \in lost THEN Absent ELSE latest]
    BY <1>2
  <2>2. jrn["bak"] = latest /\ jrn["main"] \in {Absent, latest}
    BY <2>1 DEF Copies
  <2>3. latest \in Journal \cup {Absent}
    BY InitType DEF TypeInv, TypeOK
  <2>4. ~Ambiguous /\ Loaded = latest
    BY <2>2, <2>3 DEF Ambiguous, Both, Loaded, Journal
  <2> QED BY <2>4 DEF Init, JournalInv
<1> QED BY <1>1, <1>2 DEF Init

\* Until a copy is written or removed, what is read stays what it is.
LEMMA ReadStays ==
  TypeInv /\ JournalInv /\ UNCHANGED <<jrn, latest>> => ~Ambiguous' /\ Loaded' = latest'
BY DEF JournalInv, Ambiguous, Both, Loaded

\* A step of a swap does not touch the journal.
LEMMA SwapJournal ==
  ASSUME TypeInv, JournalInv, NEW want, NEW ok, NEW l, SwapCases(want, ok, l),
         UNCHANGED <<jrn, latest, receipt>>,
         \/ pc = "write" /\ ok = "written" /\ l = "restore"
         \/ pc = "undo" /\ ok = "drop" /\ l = "failed"
         \/ pc = "comp_write" /\ ok = JournalNext(receipt, TRUE) /\ l = "idle"
  PROVE  JournalInv'
<1>1. ~Ambiguous' /\ Loaded' = latest'
  BY ReadStays
<1>2. /\ receipt.before = Absent => JournalNext(receipt, TRUE) \in {"close", "drop"}
      /\ receipt.before # Absent => JournalNext(receipt, TRUE) = "save"
  BY DEF JournalNext
<1>3. CASE pc' \in {"idle", "restore", "failed"}
  BY <1>1, <1>3 DEF JournalInv
<1>4. CASE UNCHANGED mem /\ pc' \in {ok, pc}
  <2> HIDE DEF JournalNext
  <2> QED BY <1>1, <1>2, <1>4 DEF JournalInv, Gen
<1> QED BY <1>3, <1>4 DEF SwapCases, Halt, FailTo, Goto, Exit

\* Save.
LEMMA SaveJournal == ASSUME TypeInv, JournalInv, Save PROVE JournalInv'
<1>1. /\ mem \in Journal /\ mem # Absent /\ pc = "save" /\ mem.gen >= Gen(latest)
      /\ jrn \in [Copies -> Journal \cup {Absent}] /\ latest \in Journal \cup {Absent}
  BY DEF Save, TypeInv, TypeOK, JournalInv
<1> DEFINE j == [mem EXCEPT !.gen = @ + 1]
<1>2. j \in [phase : {"prepared", "active", "restoring"}, gen : Nat, orig : [Paths -> States],
             man : Owned, pend : Owned] /\ j.gen = mem.gen + 1
  BY <1>1, BoundAssumption DEF Journal
<1>3. ~Exhausted(mem) => j \in Journal /\ j # Absent
  <2>1. ~Exhausted(mem) => mem.gen + 1 \in 0..MaxGen
    BY <1>1, BoundAssumption DEF Exhausted, Journal
  <2> QED BY <1>1, <2>1, SentinelAssumption DEF Journal
<1>4. \/ UNCHANGED <<jrn, latest>> /\ SaveFailed
      \/ ~Exhausted(mem) /\ jrn' = [jrn EXCEPT !["bak"] = j] /\ latest' = j
           /\ \/ SaveFailed
              \/ mem' = j /\ pc' = "save_main"
  BY DEF Save, Goto
<1> HIDE DEF j
<1>5. CASE UNCHANGED <<jrn, latest>> /\ SaveFailed
  <2>1. pc' \in {"idle", "restore", "failed"}
    BY <1>5 DEF SaveFailed, FailTo, Exit, Goto
  <2> QED BY <1>5, <2>1, ReadStays DEF JournalInv
<1>6. CASE ~Exhausted(mem) /\ jrn' = [jrn EXCEPT !["bak"] = j] /\ latest' = j
  <2>1. jrn'["bak"] = j /\ jrn'["main"] = jrn["main"]
    BY <1>1, <1>6 DEF Copies
  <2>2. jrn["main"] # Absent => jrn["main"].gen \in Nat /\ jrn["main"].gen <= Gen(latest)
    <3>1. jrn["main"] \in Journal \cup {Absent} /\ jrn["bak"] \in Journal \cup {Absent}
      BY <1>1 DEF Copies
    <3>2. \A c \in Journal : c.gen \in Nat /\ c # Absent
      BY BoundAssumption, SentinelAssumption DEF Journal
    <3> QED BY <3>1, <3>2 DEF JournalInv, Loaded, Both, Gen
  <2>3. jrn["main"] # Absent => jrn["main"].gen \in Nat /\ jrn["main"].gen < j.gen
    BY <1>1, <1>2, <2>2 DEF Gen, Journal
  <2>4. ~Ambiguous' /\ Loaded' = latest'
    BY <1>2, <1>3, <1>6, <2>1, <2>3 DEF Ambiguous, Both, Loaded
  <2>5. pc' \in {"idle", "restore", "failed"} \/ (mem' = j /\ pc' = "save_main")
    BY <1>4 DEF SaveFailed, FailTo, Exit, Goto
  <2> QED BY <1>3, <2>1, <2>3, <2>4, <2>5 DEF JournalInv
<1> QED BY <1>4, <1>5, <1>6

\* SaveMain.
LEMMA SaveMainJournal == ASSUME TypeInv, JournalInv, SaveMain PROVE JournalInv'
<1>1. /\ mem \in Journal /\ mem # Absent /\ pc = "save_main" /\ jrn["bak"] = mem
      /\ jrn["main"] # Absent => jrn["main"].gen < mem.gen
      /\ jrn \in [Copies -> Journal \cup {Absent}] /\ latest' = latest
  BY DEF SaveMain, TypeInv, TypeOK, JournalInv
<1>2. latest = mem
  <2>1. mem.gen \in Nat /\ (jrn["main"] # Absent => jrn["main"].gen \in Nat)
    BY <1>1, BoundAssumption DEF Journal, Copies
  <2> QED BY <1>1, <2>1 DEF JournalInv, Loaded, Both
<1>3. ~Ambiguous' /\ Loaded' = latest'
  <2>1. CASE UNCHANGED jrn
    BY <1>1, <2>1, ReadStays
  <2>2. CASE jrn' = [jrn EXCEPT !["main"] = mem]
    <3>1. jrn'["main"] = mem /\ jrn'["bak"] = mem
      BY <1>1, <2>2 DEF Copies
    <3> QED BY <1>1, <1>2, <3>1 DEF Ambiguous, Both, Loaded
  <2> QED BY <2>1, <2>2 DEF SaveMain
<1>4. \/ pc' \in {"idle", "restore", "failed", "close", "done"}
      \/ pc' \in {"check", "undo"} /\ mem' = mem
  BY DEF SaveMain, SaveFailed, AfterSave, FailTo, Exit, Goto, memory
<1> QED BY <1>1, <1>2, <1>3, <1>4 DEF JournalInv

\* The steps that read the journal, and those that do not use it.
LEMMA ReadJournal ==
  ASSUME TypeInv, JournalInv, UNCHANGED <<jrn, latest>>,
         \/ \E want \in Owned : Begin(want)
         \/ Prepare \/ Check \/ Written \/ Restore
         \/ Commit \/ Fail \/ Recover \/ Close \/ Crash
         \/ \E p \in Paths, c \in Admin \cup {Absent} : Edit(p, c)
  PROVE  JournalInv'
<1>1. ~Ambiguous' /\ Loaded' = latest' /\ Loaded = latest
  BY ReadStays DEF JournalInv
<1>2. latest \in Journal \cup {Absent} /\ Gen(latest) \in Nat
  BY BoundAssumption DEF TypeInv, TypeOK, Gen, Journal
<1>3. CASE \E want \in Owned : Begin(want)
  BY <1>1, <1>3 DEF Begin, Goto, JournalInv
<1>4. CASE Prepare
  <2>1. CASE pc' = "failed"
    BY <1>1, <2>1 DEF JournalInv
  <2>2. CASE pc' = "save" /\ mem' = Taken(Loaded)
    <3>1. Taken(Loaded).gen = Gen(latest)
      BY <1>1, <1>2 DEF Taken, Gen, Journal
    <3> HIDE DEF Taken
    <3> QED BY <1>1, <1>2, <2>2, <3>1 DEF JournalInv
  <2> QED BY <1>4, <2>1, <2>2 DEF Prepare, ReadFault, Goto
<1>5. CASE Check
  BY <1>1, <1>5 DEF Check, ReadFault, Goto, memory, JournalInv
<1>6. CASE Written
  <2>1. mem \in Journal /\ mem = latest /\ mem # Absent
    BY <1>6 DEF Written, TypeInv, TypeOK, JournalInv
  <2>2. mem'.gen = mem.gen /\ pc' = "save" /\ mem.gen >= mem.gen
    BY <1>6, <2>1, BoundAssumption DEF Written, Goto, Journal
  <2> QED BY <1>1, <2>1, <2>2 DEF JournalInv, Gen
<1>7. CASE Restore
  <2>1. CASE pc' \in {"done", "failed"}
    BY <1>1, <2>1 DEF JournalInv
  <2>2. CASE pc' = "undo" /\ mem' = Loaded
    BY <1>1, <2>2 DEF JournalInv
  <2>3. CASE pc' = "save" /\ mem' = Released(Loaded) /\ Loaded # Absent
    <3>1. Released(Loaded).gen = Gen(latest)
      BY <1>1, <1>2, <2>3 DEF Released, Gen, Journal
    <3> HIDE DEF Released
    <3> QED BY <1>1, <1>2, <2>3, <3>1 DEF JournalInv
  <2> QED BY <1>7, <2>1, <2>2, <2>3 DEF Restore, ReadFault, Restored, Goto
<1>8. CASE Commit \/ Fail \/ Recover \/ Close \/ Crash
  BY <1>1, <1>8 DEF Commit, Fail, Recover, Close, Crash, Exit, Goto, JournalInv
<1>9. CASE \E p \in Paths, c \in Admin \cup {Absent} : Edit(p, c)
  BY <1>1, <1>9 DEF Edit, memory, JournalInv, Gen
<1> QED BY <1>3, <1>4, <1>5, <1>6, <1>7, <1>8, <1>9

\* Compensate.
LEMMA CompensateJournal == ASSUME TypeInv, JournalInv, Compensate PROVE JournalInv'
<1>1. ~Ambiguous' /\ Loaded' = latest' /\ Loaded = latest
  BY ReadStays DEF Compensate, JournalInv
<1>2. /\ receipt.before # Absent => receipt.before \in Journal
      /\ Gen(latest) \in Nat /\ receipt.floor \in Nat
  BY BoundAssumption DEF Compensate, TypeInv, TypeOK, Gen, Journal, Receipt
<1>3. Floor(receipt) \in Nat /\ Floor(receipt) >= Gen(latest)
  BY <1>1, <1>2 DEF Floor
<1>4. CASE Exit
  BY <1>1, <1>4 DEF Exit, Goto, JournalInv
<1>5. CASE /\ mem' = (IF receipt.before = Absent THEN Absent
                      ELSE [receipt.before EXCEPT !.gen = Floor(receipt)])
           /\ pc' = (IF Pending(receipt) # {} THEN "comp_write" ELSE JournalNext(receipt, FALSE))
           /\ receipt' = receipt
  <2>1. receipt.before # Absent => mem'.gen = Floor(receipt)
    BY <1>2, <1>5 DEF Journal
  <2>2. /\ pc' \in {"comp_write", "close", "drop", "save"}
        /\ pc' = "save" => receipt.before # Absent
    BY <1>5 DEF JournalNext
  <2> QED BY <1>1, <1>3, <1>5, <2>1, <2>2 DEF JournalInv, Compensate, Gen
<1> QED BY <1>4, <1>5 DEF Compensate, Goto

\* Drop.
LEMMA DropJournal == ASSUME TypeInv, JournalInv, Drop PROVE JournalInv'
<1>1. ~Ambiguous' /\ Loaded' = latest'
  <2>1. CASE jrn' = [x \in Copies |-> Absent] /\ latest' = Absent
    BY <2>1 DEF Ambiguous, Both, Loaded, Copies
  <2>2. CASE \E kept \in SUBSET Copies :
               /\ jrn' = [x \in Copies |-> IF x \in kept THEN jrn[x] ELSE Absent]
               /\ latest' = Loaded'
    BY <2>2 DEF JournalInv, Ambiguous, Both, Copies
  <2> QED BY <2>1, <2>2 DEF Drop
<1>2. pc' \in {"idle", "close", "done", "failed"}
  BY DEF Drop, Restored, FailTo, Exit, Goto
<1> QED BY <1>1, <1>2 DEF JournalInv

\* Every step keeps the copies in order.
LEMMA NextJournal == TypeInv /\ JournalInv /\ [Next]_vars => JournalInv'
<1> SUFFICES ASSUME TypeInv, JournalInv, [Next]_vars PROVE JournalInv'
  OBVIOUS
<1>1. CASE UNCHANGED vars
  BY <1>1, ReadStays DEF vars, memory, JournalInv, Gen
<1>2. CASE Write \/ Undo \/ CompWrite
  BY <1>2, WriteSwaps, UndoSwaps, CompWriteSwaps, SwapJournal DEF Write, Undo, CompWrite
<1>3. CASE \/ \E want \in Owned : Begin(want)
           \/ Prepare \/ Check \/ Written \/ Restore
           \/ Commit \/ Fail \/ Recover \/ Close \/ Crash
           \/ \E p \in Paths, c \in Admin \cup {Absent} : Edit(p, c)
  <2>1. UNCHANGED <<jrn, latest>>
    BY <1>3 DEF Begin, Prepare, Check, Written, Restore, Commit, Fail, Recover, Close, Crash, Edit
  <2> QED BY <1>3, <2>1, ReadJournal
<1> QED BY <1>1, <1>2, <1>3, SaveJournal, SaveMainJournal, CompensateJournal, DropJournal
    DEF Next, Process

\* The types and the copies together, in every reachable state.
LEMMA JournalInvariant == Spec => [](TypeInv /\ JournalInv)
BY InitType, InitJournal, NextType, NextJournal, PTL DEF Spec

\* The journal that is read is the last one saved, or left by a removal: a save cut short
\* between the backup and the main copy, and a removal that took one of them, are read as
\* such, and the copies never contradict each other (saveGlobalProxyJournal,
\* loadGlobalProxyJournal, removeGlobalProxyJournal).
THEOREM ReadsTheLastSave == Spec => []LoadIsLatest
<1>1. JournalInv => LoadIsLatest
  BY DEF JournalInv, LoadIsLatest
<1> QED BY JournalInvariant, <1>1, PTL

-----------------------------------------------------------------------------
(* What the administrator has written, and where it is known from.         *)

\* The administrator writes or deletes the file of path p.
Wrote(p) ==
  \E c \in Admin \cup {Absent} : user'[p] = c /\ file'[p] = c /\ past'[p] = Ever(p)

\* A swap leaves a path as it is, moves it, or loses it to the administrator.
LEMMA SwapPath ==
  ASSUME TypeInv, NEW want, NEW ok, NEW l, SwapCases(want, ok, l), NEW p \in Paths
  PROVE  \/ /\ user'[p] = user[p] /\ past'[p] = past[p]
            /\ file'[p] \in {file[p], quar[p], want, Absent}
            /\ quar'[p] \in {file[p], quar[p], Absent}
            /\ p # Turn => file'[p] = file[p] /\ quar'[p] = quar[p]
            /\ \/ Logical(p)' = Logical(p)
               \/ p = Turn /\ Logical(p)' = want /\ Logical(p) \in expected[p]
            /\ \/ Exit \/ Halt(l)
               \/ /\ p = Turn => file'[p] = want /\ quar'[p] = Absent /\ Logical(p)' = want
                  /\ todo' = todo \ {Turn} /\ UNCHANGED <<job, expected, mem>>
                  /\ pc' = IF todo = {Turn} THEN ok ELSE pc
         \/ p = Turn /\ Wrote(p) /\ quar'[p] = Absent /\ (Exit \/ Halt(l))
<1>1. Turn \in Paths
  BY TurnIsPath
<1>2. CASE p # Turn
  <2>1. user'[p] = user[p] /\ past'[p] = past[p]
    <3>1. CASE TakenOver
      BY <1>1, <1>2, <3>1 DEF TakenOver, Writes, TypeInv, TypeOK
    <3> QED BY <3>1 DEF SwapCases, Moved
  <2>2. file'[p] = file[p] /\ quar'[p] = quar[p] /\ Logical(p)' = Logical(p)
    BY <1>2 DEF SwapCases, Logical
  <2> QED BY <1>2, <2>1, <2>2 DEF SwapCases
<1>3. CASE p = Turn /\ TakenOver /\ (Exit \/ Halt(l))
  <2>1. PICK c \in Admin : file'[p] = c /\ quar'[p] = Absent /\ Writes(p, c)
    BY <1>3 DEF TakenOver
  <2>2. Wrote(p)
    BY <2>1 DEF Wrote, Writes, Ever, TypeInv, TypeOK
  <2> QED BY <1>3, <2>1, <2>2
<1>4. CASE p = Turn /\ Moved(want)
  <2>1. Legal(file[p], quar[p], expected[p], want, <<file'[p], quar'[p]>>)
        /\ user' = user /\ past' = past
    BY <1>4 DEF Moved
  <2>2. /\ file'[p] \in {file[p], quar[p], want, Absent}
        /\ quar'[p] \in {file[p], quar[p], Absent}
        /\ Logical(p)' = Logical(p) \/ (Logical(p)' = want /\ Logical(p) \in expected[p])
    BY <2>1 DEF Legal, Held, Logical
  <2>3. file'[p] = want /\ quar'[p] = Absent => Logical(p)' = want
    BY DEF Logical
  <2> QED BY <1>4, <2>1, <2>2, <2>3 DEF SwapCases
<1> QED BY <1>2, <1>3, <1>4 DEF SwapCases

\* A swap whose want is known keeps all that is known.
LEMMA SwapKnown ==
  ASSUME TypeInv, NEW want, NEW ok, NEW l, SwapCases(want, ok, l), NEW p \in Paths, KnownAt(p),
         p = Turn => Known(p, want), UNCHANGED <<jrn, receipt>>
  PROVE  KnownAt(p)'
<1>1. CASE /\ user'[p] = user[p] /\ past'[p] = past[p]
           /\ file'[p] \in {file[p], quar[p], want, Absent}
           /\ quar'[p] \in {file[p], quar[p], Absent}
           /\ p # Turn => file'[p] = file[p] /\ quar'[p] = quar[p]
           /\ mem' \in {mem, Absent} /\ expected'[p] \in {expected[p], {}}
  BY <1>1, ContentAssumption DEF KnownAt, Known, Ever
<1>2. CASE /\ Wrote(p) /\ quar'[p] = Absent
           /\ mem' \in {mem, Absent} /\ expected'[p] \in {expected[p], {}}
  BY <1>2, ContentAssumption DEF KnownAt, Known, Ever, Wrote
<1>3. Exit \/ Halt(l) \/ UNCHANGED <<job, expected, mem>> =>
        mem' \in {mem, Absent} /\ expected'[p] \in {expected[p], {}}
  BY DEF Exit, Halt, FailTo, memory
<1> QED BY <1>1, <1>2, <1>3, SwapPath

\* The initial states know only what the administrator has.
LEMMA InitKnown == Init => KnownInv
<1> SUFFICES ASSUME Init, NEW p \in Paths PROVE KnownAt(p)
  BY DEF KnownInv
<1>1. quar[p] = Absent /\ expected[p] = {} /\ mem = Absent /\ receipt = None
  BY DEF Init
<1>2. /\ file[p] = user[p] \/ file[p] \in Proxies
      /\ \A x \in Copies : jrn[x] # Absent => jrn[x].orig[p] = user[p]
  <2>1. CASE file = user /\ jrn = [x \in Copies |-> Absent] /\ latest = Absent
    BY <2>1
  <2>2. CASE \E v \in Proxies, g \in 1..MaxGen, lost \in {{}, {"main"}} :
               /\ file = [q \in Paths |-> v]
               /\ latest = [phase |-> "active", gen |-> g, orig |-> user, man |-> v, pend |-> Absent]
               /\ jrn = [x \in Copies |-> IF x \in lost THEN Absent ELSE latest]
    BY <2>2
  <2> QED BY <2>1, <2>2 DEF Init
<1> QED BY <1>1, <1>2, ContentAssumption DEF KnownAt, Known, Ever

\* What is read, and what the files hold, is known, and so is all that is derived from it.
LEMMA LoadedKnown ==
  ASSUME TypeInv, NEW p \in Paths, KnownAt(p)
  PROVE  /\ Loaded # Absent => Known(p, Loaded.orig[p])
         /\ Known(p, Logical(p))
         /\ Loaded # Absent => \A c \in RestoreExpected(Loaded, p) : Known(p, c)
         /\ mem # Absent => \A c \in ApplyExpected(mem, p) : Known(p, c)
         /\ receipt # None => \A c \in Allowed(receipt, p) : Known(p, c)
<1>1. Loaded # Absent => Known(p, Loaded.orig[p])
  BY DEF KnownAt, Loaded, Both, Copies
<1>2. \A w \in Owned : Known(p, w)
  BY ContentAssumption DEF Owned, Known
<1>3. Loaded # Absent => Loaded.man \in Owned /\ Loaded.pend \in Owned
  BY LoadedType DEF Journal
<1>4. mem # Absent => mem.man \in Owned
  BY DEF TypeInv, TypeOK, Journal
<1>5. receipt # None => receipt.want \in Owned
  BY DEF TypeInv, TypeOK, Receipt
<1>6. Known(p, Logical(p))
  BY DEF KnownAt, Logical
<1>7. Loaded # Absent => \A c \in RestoreExpected(Loaded, p) : Known(p, c)
  BY <1>1, <1>2, <1>3 DEF RestoreExpected
<1>8. mem # Absent => \A c \in ApplyExpected(mem, p) : Known(p, c)
  BY <1>2, <1>4 DEF ApplyExpected, KnownAt
<1>9. receipt # None => \A c \in Allowed(receipt, p) : Known(p, c)
  BY <1>2, <1>5 DEF Allowed, KnownAt
<1> QED BY <1>1, <1>6, <1>7, <1>8, <1>9

\* Every step keeps all that is known.
LEMMA NextKnown == TypeInv /\ KnownInv /\ [Next]_vars => KnownInv'
<1> SUFFICES ASSUME TypeInv, KnownInv, [Next]_vars, NEW p \in Paths PROVE KnownAt(p)'
  BY DEF KnownInv
<1> USE DEF disk, memory
<1>1. KnownAt(p)
  BY DEF KnownInv
<1>2. /\ Loaded # Absent => Known(p, Loaded.orig[p])
      /\ Known(p, Logical(p))
      /\ Loaded # Absent => \A c \in RestoreExpected(Loaded, p) : Known(p, c)
      /\ mem # Absent => \A c \in ApplyExpected(mem, p) : Known(p, c)
      /\ receipt # None => \A c \in Allowed(receipt, p) : Known(p, c)
  BY <1>1, LoadedKnown
<1>3. CASE UNCHANGED vars
  BY <1>1, <1>3 DEF vars, KnownAt, Known, Ever
<1>4. CASE \E want \in Owned : Begin(want)
  <2>1. PICK want \in Owned : Begin(want)
    BY <1>4
  <2>2. receipt'.files = file /\ receipt'.before = Loaded
        /\ UNCHANGED <<disk, jrn, mem, expected>>
    BY <2>1 DEF Begin
  <2> QED BY <1>1, <1>2, <2>2 DEF KnownAt, Known, Ever
<1>5. CASE Prepare
  <2>1. UNCHANGED <<disk, jrn, receipt, expected>>
    BY <1>5 DEF Prepare, ReadFault
  <2>2. CASE mem' = mem
    BY <1>1, <2>1, <2>2 DEF KnownAt, Known, Ever
  <2>3. CASE mem' = Taken(Loaded)
    <3>1. Known(p, Taken(Loaded).orig[p])
      BY <1>1, <1>2, LoadedType DEF Taken, KnownAt, Journal
    <3> HIDE DEF Taken
    <3> QED BY <1>1, <2>1, <2>3, <3>1 DEF KnownAt, Known, Ever
  <2> QED BY <1>5, <2>2, <2>3 DEF Prepare, ReadFault
<1>6. CASE Save
  <2> DEFINE j == [mem EXCEPT !.gen = @ + 1]
  <2>1. mem \in Journal /\ mem # Absent /\ j.orig = mem.orig
    BY <1>6 DEF Save, TypeInv, TypeOK, Journal
  <2>2. /\ jrn' \in {jrn, [jrn EXCEPT !["bak"] = j]} /\ mem' \in {mem, j, Absent}
        /\ expected'[p] \in {expected[p], {}} /\ UNCHANGED <<disk, receipt>>
    BY <1>6 DEF Save, SaveFailed, FailTo, Exit
  <2> HIDE DEF j
  <2>3. \A x \in Copies : jrn'[x] \in {jrn[x], j}
    BY <2>2 DEF TypeInv, TypeOK
  <2> QED BY <1>1, <2>1, <2>2, <2>3 DEF KnownAt, Known, Ever
<1>7. CASE SaveMain
  <2>1. /\ jrn' \in {jrn, [jrn EXCEPT !["main"] = mem]} /\ mem' \in {mem, Absent}
        /\ expected'[p] \in {expected[p], {}} /\ UNCHANGED <<disk, receipt>> /\ mem # Absent
    BY <1>7 DEF SaveMain, SaveFailed, FailTo, Exit, TypeInv
  <2>2. \A x \in Copies : jrn'[x] \in {jrn[x], mem}
    BY <2>1 DEF TypeInv, TypeOK
  <2> QED BY <1>1, <2>1, <2>2 DEF KnownAt, Known, Ever
<1>8. CASE Check
  <2>1. expected'[p] \in {expected[p], ApplyExpected(mem, p)} /\ mem # Absent
        /\ UNCHANGED <<disk, jrn, receipt, mem>>
    BY <1>8 DEF Check, ReadFault, TypeInv
  <2> QED BY <1>1, <1>2, <2>1 DEF KnownAt, Known, Ever
<1>9. CASE Write \/ Undo \/ CompWrite
  <2>1. /\ Write => Known(p, mem.pend)
        /\ Undo /\ p = Turn => Known(p, mem.orig[Turn])
        /\ CompWrite /\ p = Turn => Known(p, receipt.files[Turn])
    BY <1>1, ContentAssumption
    DEF Write, Undo, CompWrite, KnownAt, Known, TypeInv, TypeOK, Journal, Owned
  <2> QED BY <1>1, <1>9, <2>1, WriteSwaps, UndoSwaps, CompWriteSwaps, SwapKnown
      DEF Write, Undo, CompWrite
<1>10. CASE Written
  <2>1. mem \in Journal /\ mem # Absent
    BY <1>10 DEF Written, TypeInv, TypeOK
  <2>2. mem'.orig = mem.orig /\ UNCHANGED <<disk, jrn, receipt, expected>>
    BY <1>10, <2>1 DEF Written, Journal
  <2> QED BY <1>1, <2>1, <2>2 DEF KnownAt, Known, Ever
<1>11. CASE Restore
  <2>1. UNCHANGED <<disk, jrn, receipt>>
    BY <1>11 DEF Restore
  <2>2. CASE UNCHANGED <<mem, expected>>
    BY <1>1, <2>1, <2>2 DEF KnownAt, Known, Ever
  <2>3. CASE Loaded # Absent /\ mem' = Released(Loaded) /\ expected'[p] = RestoreExpected(Loaded, p)
    <3>1. Known(p, Released(Loaded).orig[p])
      BY <1>2, <2>3, LoadedType DEF Released, Journal
    <3> HIDE DEF Released
    <3> QED BY <1>1, <1>2, <2>1, <2>3, <3>1 DEF KnownAt, Known, Ever
  <2> QED BY <1>11, <2>2, <2>3 DEF Restore, ReadFault
<1>12. CASE Drop
  <2>1. /\ \A x \in Copies : jrn'[x] \in {jrn[x], Absent}
        /\ mem' \in {mem, Absent} /\ expected'[p] \in {expected[p], {}}
        /\ UNCHANGED <<disk, receipt>>
    BY <1>12 DEF Drop, FailTo, Exit
  <2> QED BY <1>1, <2>1 DEF KnownAt, Known, Ever
<1>13. CASE Commit \/ Fail \/ Recover \/ Close \/ Crash
  <2>1. /\ mem' \in {mem, Absent} /\ expected'[p] \in {expected[p], {}}
        /\ receipt' \in {receipt, None} /\ UNCHANGED <<disk, jrn>>
    BY <1>13 DEF Commit, Fail, Recover, Close, Crash, Exit
  <2> QED BY <1>1, <2>1 DEF KnownAt, Known, Ever
<1>14. CASE Compensate
  <2>1. /\ mem' \in {mem, Absent} \/ (receipt.before # Absent
             /\ mem' = [receipt.before EXCEPT !.gen = Floor(receipt)])
        /\ expected'[p] \in {expected[p], {}, Allowed(receipt, p)}
        /\ UNCHANGED <<disk, jrn, receipt>> /\ receipt # None
    BY <1>14 DEF Compensate, Exit, TypeInv
  <2>2. receipt.before # Absent => receipt.before \in Journal
    BY <2>1 DEF TypeInv, TypeOK, Receipt
  <2>3. mem' # Absent => Known(p, mem'.orig[p])
    BY <1>1, <2>1, <2>2 DEF KnownAt, Journal
  <2> QED BY <1>1, <1>2, <2>1, <2>3 DEF KnownAt, Known, Ever
<1>15. CASE \E x \in Paths, c \in Admin \cup {Absent} : Edit(x, c)
  <2>1. PICK x \in Paths, c \in Admin \cup {Absent} : Edit(x, c)
    BY <1>15
  <2>2. /\ UNCHANGED <<quar, jrn, mem, expected, receipt>>
        /\ \/ file'[p] = file[p] /\ user'[p] = user[p] /\ past'[p] = past[p]
           \/ Wrote(p)
    BY <2>1 DEF Edit, Writes, Wrote, Ever, TypeInv, TypeOK
  <2> QED BY <1>1, <2>2 DEF KnownAt, Known, Ever, Wrote
<1> QED BY <1>3, <1>4, <1>5, <1>6, <1>7, <1>8, <1>9, <1>10, <1>11, <1>12, <1>13, <1>14, <1>15
    DEF Next, Process

-----------------------------------------------------------------------------
(* Where the administrator's content is.                                   *)

\* At the start every path is settled.
LEMMA InitSettled ==
  ASSUME Init, NEW p \in Paths
  PROVE  Settled(p) /\ \A x \in Copies : jrn[x] \in {latest, Absent}
<1>1. CASE file = user /\ jrn = [x \in Copies |-> Absent] /\ latest = Absent
  BY <1>1 DEF Init, Settled
<1>2. CASE \E v \in Proxies, g \in 1..MaxGen, lost \in {{}, {"main"}} :
             /\ file = [q \in Paths |-> v]
             /\ latest = [phase |-> "active", gen |-> g, orig |-> user, man |-> v, pend |-> Absent]
             /\ jrn = [x \in Copies |-> IF x \in lost THEN Absent ELSE latest]
  <2>1. PICK v \in Proxies, g \in 1..MaxGen, lost \in {{}, {"main"}} :
             /\ file = [q \in Paths |-> v]
             /\ latest = [phase |-> "active", gen |-> g, orig |-> user, man |-> v, pend |-> Absent]
             /\ jrn = [x \in Copies |-> IF x \in lost THEN Absent ELSE latest]
    BY <1>2
  <2>2. latest.phase = "active" /\ latest.orig = user /\ latest.man = v
    BY <2>1
  <2>3. /\ file[p] = v /\ quar[p] = Absent
        /\ \A x \in Copies : jrn[x] \in {latest, Absent}
    BY <2>1 DEF Init
  <2>4. latest # Absent
    <3>1. user \in [Paths -> States] /\ g \in 0..MaxGen /\ v \in Owned /\ Absent \in Owned
      BY BoundAssumption DEF Init, States, Owned
    <3>2. latest \in Journal
      BY <2>1, <3>1 DEF Journal
    <3> QED BY <3>2, SentinelAssumption
  <2> QED BY <2>2, <2>3, <2>4 DEF Settled
<1> QED BY <1>1, <1>2 DEF Init

\* In a settled system what a file holds is what a release may find.
LEMMA SettledHolds ==
  ASSUME TypeInv, JournalInv, NEW p \in Paths, Settled(p)
  PROVE  latest # Absent => Logical(p) \in RestoreExpected(latest, p)
<1>1. latest # Absent => latest.man \in Proxies
  BY DEF Settled, TypeInv, Sound, JournalInv, Loaded, Both, Copies
<1> QED BY <1>1, ContentAssumption DEF Settled, Logical, RestoreExpected

\* At the start the content is in the file, or the file is managed and the journal has it.
LEMMA InitOrigin == Init => OriginInv
<1> SUFFICES ASSUME Init, NEW p \in Paths PROVE OriginAt(p)
  BY DEF OriginInv
<1>1. pc = "idle" /\ job = "none" /\ receipt = None
  BY DEF Init
<1>2. Settled(p) /\ \A x \in Copies : jrn[x] \in {latest, Absent}
  BY InitSettled
<1>3. latest # Absent => Logical(p) \in RestoreExpected(latest, p)
  BY <1>2, InitType, InitJournal, SettledHolds
<1> QED BY <1>1, <1>2, <1>3 DEF OriginAt, Keeps, Fresh, Calm, Undone, Settled, Logical

\* A content an administrator has just written, and never had there before, is in the
\* file, and nothing else the state knows is equal to it.
LEMMA WroteIsNew ==
  ASSUME TypeInv, NEW p \in Paths, Wrote(p), Fresh(p)'
  PROVE  Logical(p)' = user'[p] /\ \A c : Known(p, c) => c # user'[p]
BY DEF Wrote, Fresh, Logical, Known, Ever

\* So an administrator's write leaves the path's part of the invariant true.
LEMMA WroteOrigin ==
  ASSUME TypeInv, JournalInv, NEW p \in Paths, KnownAt(p), OriginAt(p), Wrote(p),
         UNCHANGED <<jrn, latest, receipt>>, mem' \in {mem, Absent},
         expected'[p] \in {expected[p], {}},
         \/ UNCHANGED <<pc, job>>
         \/ pc' = "idle" /\ job' = "none"
         \/ pc' \in {"restore", "failed"} /\ job \in Forward /\ UNCHANGED job
  PROVE  OriginAt(p)'
<1>1. CASE ~Fresh(p)'
  BY <1>1 DEF OriginAt, Keeps, Undone, Original, Forward
<1>2. CASE Fresh(p)'
  <2>1. Logical(p)' = user'[p] /\ \A c : Known(p, c) => c # user'[p]
    BY <1>2, WroteIsNew
  <2>2. Loaded # Absent => Known(p, Loaded.orig[p])
    BY LoadedKnown
  <2>3. /\ \A x \in Copies : ~Keeps(jrn[x], p)'
        /\ ~Keeps(latest, p)' /\ ~Keeps(mem, p)'
        /\ receipt # None => ~Keeps(receipt.before, p)'
        /\ user'[p] \notin expected'[p]
    BY <2>1, <2>2 DEF KnownAt, Keeps, JournalInv
  <2>4. receipt # None => Original(receipt, p) # user'[p]
    BY <2>1 DEF KnownAt, Original
  <2>5. pc # "idle" => receipt # None
    BY DEF TypeInv
  <2>6. Undone(p)' => receipt # None
    BY <2>5 DEF Undone, Forward
  <2>7. Original(receipt, p)' = Original(receipt, p)
    BY DEF Original
  <2> HIDE DEF Original
  <2> QED BY <1>2, <2>1, <2>3, <2>4, <2>6, <2>7 DEF OriginAt, Forward
<1> QED BY <1>1, <1>2

\* An exit keeps what is in the file, the journal or the before-image.
LEMMA ExitOrigin ==
  ASSUME NEW p \in Paths, OriginAt(p), Exit, UNCHANGED <<jrn, latest, receipt>>,
         user'[p] = user[p], past'[p] = past[p], receipt # None,
         Fresh(p) => \/ Logical(p)' = user[p] \/ Keeps(latest, p)
                     \/ Keeps(receipt.before, p)
  PROVE  OriginAt(p)'
<1>1. pc' = "idle" /\ job' = "none" /\ ~Calm'
  BY DEF Exit, Goto, Calm, Forward
<1> QED BY <1>1 DEF OriginAt, Keeps, Fresh, Undone

\* Begin.
LEMMA BeginOrigin ==
  ASSUME NEW p \in Paths, OriginAt(p), NEW want \in Owned, Begin(want)
  PROVE  OriginAt(p)'
<1>1. /\ UNCHANGED <<file, quar, user, past, jrn, latest, mem>>
      /\ receipt = None /\ job' \in Forward /\ pc' \in {"restore", "prepare"}
  BY DEF Begin, disk, Goto, Forward
<1>2. Calm /\ Calm'
  BY <1>1 DEF Calm
<1> QED BY <1>1, <1>2 DEF OriginAt, Keeps, Fresh, Undone, Logical, RestoreExpected, Forward

\* Prepare.
LEMMA PrepareOrigin ==
  ASSUME TypeInv, JournalInv, NEW p \in Paths, OriginAt(p), Prepare
  PROVE  OriginAt(p)'
<1>1. /\ UNCHANGED <<file, quar, user, past, jrn, latest, receipt, job>>
      /\ job \in Forward /\ Calm /\ Calm' /\ Loaded = latest
  BY DEF Prepare, disk, memory, ReadFault, TypeInv, Calm, JournalInv, Forward
<1>2. CASE pc' = "failed"
  BY <1>1, <1>2 DEF OriginAt, Keeps, Fresh, Undone, Logical, RestoreExpected, Forward
<1>3. CASE /\ pc' = "save" /\ mem' = Taken(latest)
           /\ latest # Absent => \A x \in Paths : file[x] = latest.man
  <2>1. Taken(latest).phase = "prepared" /\ Taken(latest) # Absent
    <3>1. CASE latest = Absent
      <4>1. Taken(latest) \in Journal /\ Taken(latest).phase = "prepared"
        BY <3>1, BoundAssumption DEF Taken, Journal, Owned, Prepare, TypeInv, TypeOK
      <4> QED BY <4>1, SentinelAssumption
    <3>2. CASE latest # Absent
      <4>1. latest \in Journal /\ receipt.want \in Owned
        BY <3>2 DEF Prepare, TypeInv, TypeOK, Receipt
      <4>2. Taken(latest) \in Journal /\ Taken(latest).phase = "prepared"
        BY <3>2, <4>1, JournalUpdates DEF Taken, Journal
      <4> QED BY <4>2, SentinelAssumption
    <3> QED BY <3>1, <3>2
  <2>2. Keeps(latest, p) => Taken(latest).orig[p] = latest.orig[p]
    BY DEF Taken, Keeps, TypeInv, TypeOK, Journal
  <2>3. Fresh(p) /\ Taken(latest).orig[p] = user[p] => Logical(p) \in RestoreExpected(Taken(latest), p)
    <3>1. CASE latest = Absent
      BY <3>1 DEF Taken, Fresh, Logical, RestoreExpected
    <3>2. CASE latest # Absent
      <4>1. latest \in Journal /\ latest.man \in Proxies
        BY <3>2 DEF TypeInv, TypeOK, JournalInv, Prepare, Sound, Loaded, Both, Copies
      <4>2. Logical(p) = latest.man /\ latest.man # Absent
        BY <1>3, <3>2, <4>1, ContentAssumption DEF Logical
      <4>3. Taken(latest).man = latest.man
        BY <3>2, <4>1 DEF Taken, Journal
      <4> HIDE DEF Taken
      <4> QED BY <4>2, <4>3 DEF RestoreExpected
    <3> QED BY <3>1, <3>2
  <2> HIDE DEF Taken
  <2>4. RestoreExpected(mem', p) = RestoreExpected(mem, p)' /\ Logical(p)' = Logical(p)
    BY <1>1 DEF RestoreExpected, Logical
  <2> QED BY <1>1, <1>3, <2>1, <2>2, <2>3, <2>4
      DEF OriginAt, Keeps, Fresh, Undone, RestoreExpected, Forward
<1> QED BY <1>1, <1>2, <1>3 DEF Prepare, ReadFault, Goto

\* Journals of one origin and one content keep and expect the same.
LEMMA SameOrigin ==
  ASSUME NEW p, NEW j, NEW k, j # Absent, k # Absent,
         k.orig = j.orig, k.man = j.man, k.pend = j.pend
  PROVE  RestoreExpected(k, p) = RestoreExpected(j, p) /\ (Keeps(k, p) <=> Keeps(j, p))
BY DEF RestoreExpected, Keeps

\* The journal in memory while a compensation saves it has the before-image's originals.
LEMMA CompensatingMem ==
  ASSUME TypeInv, pc \in {"save", "save_main"}, job = "compensate", NEW p \in Paths
  PROVE  /\ receipt # None /\ receipt.before # Absent /\ mem # Absent
         /\ mem = [receipt.before EXCEPT !.gen = mem.gen]
         /\ mem.orig[p] = Original(receipt, p)
         /\ Keeps(receipt.before, p) => Keeps(mem, p)
<1>1. /\ receipt # None /\ receipt.before # Absent /\ mem # Absent
      /\ mem = [receipt.before EXCEPT !.gen = mem.gen]
  BY DEF TypeInv
<1>2. receipt.before \in Journal
  BY <1>1 DEF TypeInv, TypeOK, Receipt
<1>3. mem.orig = receipt.before.orig
  BY <1>1, <1>2 DEF Journal
<1> QED BY <1>1, <1>3 DEF Original, Keeps

\* Save.
LEMMA SaveOrigin ==
  ASSUME TypeInv, JournalInv, NEW p \in Paths, OriginAt(p), Save
  PROVE  OriginAt(p)'
<1>1. /\ mem \in Journal /\ mem # Absent /\ pc = "save" /\ receipt # None
      /\ job \in Forward \cup {"compensate"}
      /\ UNCHANGED <<file, quar, user, past, receipt>>
  BY DEF Save, TypeInv, TypeOK, disk
<1> DEFINE j == [mem EXCEPT !.gen = @ + 1]
<1>2. j.orig = mem.orig /\ j.man = mem.man /\ j.pend = mem.pend /\ j.phase = mem.phase
  BY <1>1 DEF Journal
<1>3. \/ UNCHANGED <<jrn, latest>> /\ SaveFailed
      \/ ~Exhausted(mem) /\ jrn' = [jrn EXCEPT !["bak"] = j] /\ latest' = j
           /\ \/ SaveFailed
              \/ mem' = j /\ pc' = "save_main" /\ UNCHANGED <<job, expected>>
  BY DEF Save, Goto
<1>4. ~Exhausted(mem) => j # Absent
  <2>1. ~Exhausted(mem) => mem.gen + 1 \in 0..MaxGen
    BY <1>1, BoundAssumption DEF Exhausted, Journal
  <2>2. ~Exhausted(mem) => j \in Journal
    BY <1>1, <2>1 DEF Journal
  <2> QED BY <2>2, SentinelAssumption
<1> HIDE DEF j
<1>5. /\ Keeps(latest, p) => Keeps(mem, p)
      /\ Keeps(mem, p) => Logical(p) \in RestoreExpected(mem, p)
      /\ Fresh(p) => \/ Logical(p) = user[p] \/ Keeps(mem, p)
                     \/ job = "compensate" /\ Keeps(receipt.before, p)
  BY <1>1 DEF OriginAt, Calm, Forward
<1>6. SaveFailed => \/ Exit /\ job = "compensate"
                    \/ pc' \in {"restore", "failed"} /\ job \in Forward /\ UNCHANGED job
  BY <1>1 DEF SaveFailed, FailTo, Goto, memory
<1>7. CASE UNCHANGED <<jrn, latest>> /\ SaveFailed
  <2>1. CASE Exit
    BY <1>1, <1>7, <2>1, ExitOrigin DEF OriginAt, Logical, Calm
  <2>2. CASE pc' \in {"restore", "failed"} /\ job \in Forward /\ UNCHANGED job
    BY <1>1, <1>7, <2>2 DEF OriginAt, Keeps, Fresh, Undone, Logical, Calm, RestoreExpected, Forward
  <2> QED BY <1>6, <1>7, <2>1, <2>2
<1>8. CASE ~Exhausted(mem) /\ jrn' = [jrn EXCEPT !["bak"] = j] /\ latest' = j
  <2>1. RestoreExpected(j, p) = RestoreExpected(mem, p) /\ (Keeps(j, p) <=> Keeps(mem, p))
    BY <1>1, <1>2, <1>4, <1>8, SameOrigin
  <2>2. \A x \in Copies : Keeps(jrn[x], p)' => Keeps(latest, p)'
    <3>1. \A x \in Copies : jrn'[x] \in {jrn[x], j}
      BY <1>8 DEF TypeInv, TypeOK
    <3>2. \A x \in Copies : Keeps(jrn[x], p) => Keeps(j, p)
      BY <1>5, <2>1 DEF OriginAt
    <3> QED BY <1>1, <1>8, <3>1, <3>2 DEF Keeps, Fresh
  <2>3. Logical(p)' = Logical(p) /\ (Fresh(p)' <=> Fresh(p))
    BY <1>1 DEF Logical, Fresh
  <2>4. Keeps(latest, p)' <=> Keeps(mem, p)
    BY <1>1, <1>8, <2>1 DEF Keeps, Fresh
  <2>5. RestoreExpected(latest, p)' = RestoreExpected(mem, p)
    BY <1>8, <2>1 DEF RestoreExpected
  <2>6. CASE Exit /\ job = "compensate"
    <3>1. ~Calm' /\ pc' = "idle" /\ job' = "none"
      BY <1>1, <2>6 DEF Exit, Goto, Calm, Forward
    <3>2. Keeps(receipt.before, p)' <=> Keeps(receipt.before, p)
      BY <1>1 DEF Keeps, Fresh
    <3> QED BY <1>1, <1>5, <2>2, <2>3, <2>4, <3>1, <3>2 DEF OriginAt, Undone
  <2>7. CASE pc' \in {"restore", "failed"} /\ job \in Forward /\ UNCHANGED job
    BY <1>1, <1>5, <2>2, <2>3, <2>4, <2>5, <2>7 DEF OriginAt, Undone, Forward
  <2>8. CASE mem' = j /\ pc' = "save_main" /\ UNCHANGED <<job, expected>>
    <3>1. Keeps(mem, p)' <=> Keeps(mem, p)
      BY <1>1, <2>1, <2>8 DEF Keeps, Fresh
    <3>2. RestoreExpected(mem, p)' = RestoreExpected(mem, p) /\ mem'.phase = mem.phase
      BY <1>2, <2>1, <2>8 DEF RestoreExpected
    <3>3. Calm' => Calm
      BY <1>1, <2>8 DEF Calm
    <3>4. Keeps(receipt.before, p)' <=> Keeps(receipt.before, p)
      BY <1>1 DEF Keeps, Fresh
    <3>5. Original(receipt, p)' = Original(receipt, p)
      BY <1>1 DEF Original
    <3>6. job = "compensate" => latest'.orig[p] = Original(receipt, p)
      BY <1>1, <1>2, <1>8, CompensatingMem
    <3> HIDE DEF Original
    <3>7. Undone(p)' => Undone(p)
      BY <1>1, <2>8 DEF Undone
    <3>8. Undone(p)' /\ Fresh(p)' /\ Original(receipt, p)' = user'[p] => Logical(p)' = receipt'.files[p]
      BY <1>1, <2>3, <3>5, <3>7 DEF OriginAt
    <3>9. pc' = "save_main" /\ mem'.phase = "restoring" /\ Fresh(p)' /\ user'[p] \in expected'[p]
            => Keeps(mem, p)'
      BY <1>1, <2>3, <2>8, <3>1, <3>2 DEF OriginAt
    <3>10. ~Calm' <=> job = "compensate"
      BY <1>1, <2>8 DEF Calm, Forward
    <3> QED BY <1>1, <1>5, <2>2, <2>3, <2>4, <2>5, <2>8, <3>1, <3>2, <3>4, <3>5, <3>6, <3>8, <3>9, <3>10 DEF OriginAt
  <2> QED BY <1>3, <1>6, <1>8, <2>6, <2>7, <2>8
<1> QED BY <1>3, <1>7, <1>8

\* SaveMain.
LEMMA SaveMainOrigin ==
  ASSUME TypeInv, JournalInv, NEW p \in Paths, OriginAt(p), SaveMain
  PROVE  OriginAt(p)'
<1>1. /\ mem \in Journal /\ mem # Absent /\ pc = "save_main" /\ receipt # None
      /\ job \in Forward \cup {"compensate"} /\ jrn["bak"] = mem
      /\ UNCHANGED <<file, quar, user, past, receipt, latest>>
  BY DEF SaveMain, TypeInv, TypeOK, disk, JournalInv
<1>2. latest = mem
  <2>1. mem.gen \in Nat /\ (jrn["main"] # Absent => jrn["main"].gen \in Nat)
    BY <1>1, BoundAssumption DEF Journal, Copies, TypeInv, TypeOK
  <2> QED BY <1>1, <2>1 DEF JournalInv, Loaded, Both
<1>3. \A x \in Copies : jrn'[x] \in {jrn[x], latest}
  BY <1>2 DEF SaveMain, TypeInv, TypeOK
<1>4. /\ Logical(p)' = Logical(p) /\ (Fresh(p)' <=> Fresh(p))
      /\ (Keeps(latest, p)' <=> Keeps(latest, p))
      /\ (Keeps(receipt.before, p)' <=> Keeps(receipt.before, p))
      /\ RestoreExpected(latest, p)' = RestoreExpected(latest, p)
      /\ Original(receipt, p)' = Original(receipt, p)
  BY <1>1 DEF Logical, Fresh, Keeps, RestoreExpected, Original
<1>5. \A x \in Copies : Keeps(jrn[x], p)' => Keeps(latest, p)'
  <2>1. \A x \in Copies : Keeps(jrn[x], p) => Keeps(latest, p)
    BY DEF OriginAt
  <2> QED BY <1>1, <1>3, <2>1 DEF Keeps, Fresh
<1>6. /\ Keeps(latest, p) => Logical(p) \in RestoreExpected(latest, p)
      /\ Fresh(p) => \/ Logical(p) = user[p] \/ Keeps(latest, p)
                     \/ job = "compensate" /\ Keeps(receipt.before, p)
  BY <1>1, <1>2 DEF OriginAt, Calm, Forward
<1>7. CASE SaveFailed
  <2>1. CASE Exit /\ job = "compensate"
    <3>1. ~Calm' /\ pc' = "idle" /\ job' = "none"
      BY <1>1, <2>1 DEF Exit, Goto, Calm, Forward
    <3> QED BY <1>1, <1>4, <1>5, <1>6, <3>1 DEF OriginAt, Undone
  <2>2. CASE pc' \in {"restore", "failed"} /\ job \in Forward /\ UNCHANGED job
    BY <1>1, <1>4, <1>5, <1>6, <2>2 DEF OriginAt, Undone, Forward
  <2> QED BY <1>1, <1>7, <2>1, <2>2 DEF SaveFailed, FailTo, Goto, memory
<1>8. CASE job = "compensate" /\ pc' = "close" /\ UNCHANGED memory
  <2>1. /\ receipt.before # Absent /\ latest # Absent
        /\ latest = [receipt.before EXCEPT !.gen = latest.gen]
        /\ latest.orig[p] = Original(receipt, p)
        /\ Keeps(receipt.before, p) => Keeps(latest, p)
    BY <1>1, <1>2, <1>8, CompensatingMem
  <2>2. Undone(p)
    BY <1>1, <1>8 DEF Undone
  <2>3. latest' = [receipt'.before EXCEPT !.gen = latest'.gen] /\ receipt'.before # Absent
    BY <1>1, <2>1
  <2>4. Fresh(p) /\ Original(receipt, p) = user[p] => Logical(p) = receipt.files[p]
    BY <2>2 DEF OriginAt
  <2> HIDE DEF Original
  <2> QED BY <1>1, <1>4, <1>5, <1>6, <1>8, <2>1, <2>3, <2>4 DEF OriginAt, memory
<1>9. CASE job \in Forward /\ pc' \in {"check", "done"} /\ UNCHANGED memory
  BY <1>1, <1>4, <1>5, <1>6, <1>9 DEF OriginAt, Undone, memory, Forward
<1>10. CASE job \in Forward /\ pc' = "undo" /\ UNCHANGED memory /\ mem.phase = "restoring"
  <2>1. todo' = Paths /\ mem' = mem /\ expected' = expected /\ job' = job
    BY <1>1, <1>10 DEF TypeInv, memory
  <2>2. Fresh(p) /\ user[p] \in expected[p] => Keeps(mem, p)
    BY <1>1, <1>10 DEF OriginAt
  <2>3. Keeps(mem, p)' <=> Keeps(mem, p)
    BY <1>1, <2>1 DEF Keeps, Fresh
  <2> QED BY <1>1, <1>4, <1>5, <1>6, <1>10, <2>1, <2>2, <2>3 DEF OriginAt, Undone, Forward
<1>11. mem.phase \in {"prepared", "active", "restoring"}
  BY <1>1 DEF Journal
<1> QED BY <1>1, <1>7, <1>8, <1>9, <1>10, <1>11 DEF SaveMain, AfterSave, Goto, Forward

\* Steps that only move the process, with the scene being applied or released.
LEMMA ForwardOrigin ==
  ASSUME TypeInv, NEW p \in Paths, OriginAt(p), job \in Forward,
         UNCHANGED <<file, quar, user, past, jrn, latest, receipt, job>>,
         \/ pc' \in {"restore", "failed", "done", "comp"}
         \/ pc' = "write" /\ todo' = Paths
  PROVE  OriginAt(p)'
<1>1. Calm
  BY DEF Calm
<1>2. /\ Logical(p)' = Logical(p) /\ (Fresh(p)' <=> Fresh(p))
      /\ (Keeps(latest, p)' <=> Keeps(latest, p))
      /\ RestoreExpected(latest, p)' = RestoreExpected(latest, p)
      /\ \A x \in Copies : Keeps(jrn[x], p)' <=> Keeps(jrn[x], p)
  BY DEF Logical, Fresh, Keeps, RestoreExpected
<1> QED BY <1>1, <1>2 DEF OriginAt, Undone, Forward

\* Check.
LEMMA CheckOrigin ==
  ASSUME TypeInv, NEW p \in Paths, OriginAt(p), Check PROVE OriginAt(p)'
<1>1. job \in Forward /\ UNCHANGED <<file, quar, user, past, jrn, latest, receipt, job>>
  BY DEF Check, ReadFault, disk, memory, TypeInv, Forward
<1>2. pc' = "failed" \/ (pc' = "write" /\ todo' = Paths)
  BY DEF Check, ReadFault, Goto
<1> QED BY <1>1, <1>2, ForwardOrigin

\* Written.
LEMMA WrittenOrigin ==
  ASSUME TypeInv, JournalInv, NEW p \in Paths, OriginAt(p), Written PROVE OriginAt(p)'
<1>1. /\ job \in Forward /\ UNCHANGED <<file, quar, user, past, jrn, latest, receipt, job>>
      /\ pc = "written" /\ pc' = "save" /\ mem \in Journal /\ mem = latest /\ mem # Absent
      /\ mem.pend \in Proxies
  BY DEF Written, disk, TypeInv, TypeOK, JournalInv, Goto, Forward
<1>2. mem'.orig = mem.orig /\ mem'.man = mem.pend /\ mem'.phase = "active" /\ mem' # Absent
  <2>1. mem' \in Journal
    BY <1>1, JournalUpdates DEF Written
  <2> QED BY <1>1, <2>1, SentinelAssumption DEF Written, Journal
<1>3. /\ Logical(p)' = Logical(p) /\ (Fresh(p)' <=> Fresh(p))
      /\ (Keeps(latest, p)' <=> Keeps(latest, p)) /\ (Keeps(mem, p)' <=> Keeps(latest, p))
      /\ RestoreExpected(latest, p)' = RestoreExpected(latest, p)
      /\ \A x \in Copies : Keeps(jrn[x], p)' <=> Keeps(jrn[x], p)
  BY <1>1, <1>2 DEF Logical, Fresh, Keeps, RestoreExpected
<1>4. Keeps(mem, p) => Logical(p) \in RestoreExpected(mem, p)'
  <2>1. Keeps(mem, p) => Logical(p) = mem'.man /\ mem'.man # Absent
    BY <1>1, <1>2, ContentAssumption DEF OriginAt
  <2> QED BY <2>1 DEF RestoreExpected
<1>5. Calm
  BY <1>1 DEF Calm
<1> QED BY <1>1, <1>2, <1>3, <1>4, <1>5 DEF OriginAt, Undone, Forward

\* Restore.
LEMMA RestoreOrigin ==
  ASSUME TypeInv, JournalInv, NEW p \in Paths, OriginAt(p), Restore PROVE OriginAt(p)'
<1>1. /\ job \in Forward /\ UNCHANGED <<file, quar, user, past, jrn, latest, receipt, job>>
      /\ Calm /\ Loaded = latest
  BY DEF Restore, ReadFault, disk, memory, TypeInv, JournalInv, Calm
<1>2. CASE pc' \in {"done", "failed"}
  BY <1>1, <1>2, ForwardOrigin
<1>3. CASE /\ latest # Absent /\ mem' = Released(latest) /\ todo' = Paths
           /\ expected'[p] = RestoreExpected(latest, p)
           /\ pc' = "save" \/ (pc' = "undo" /\ mem' = latest)
  <2>1. latest \in Journal
    BY <1>3 DEF TypeInv, TypeOK
  <2>2. /\ mem'.phase = "restoring" /\ mem'.man = latest.man /\ mem'.pend = latest.pend
        /\ mem'.orig[p] = IF Logical(p) \in RestoreExpected(latest, p) THEN latest.orig[p]
                          ELSE Logical(p)
    BY <1>3, <2>1 DEF Released, Journal
  <2>3. mem' # Absent
    <3>1. TypeInv'
      BY RestoreType
    <3> QED BY <1>3, <3>1 DEF TypeInv
  <2>4. /\ Logical(p)' = Logical(p) /\ (Fresh(p)' <=> Fresh(p))
        /\ (Keeps(latest, p)' <=> Keeps(latest, p))
        /\ RestoreExpected(latest, p)' = RestoreExpected(latest, p)
        /\ \A x \in Copies : Keeps(jrn[x], p)' <=> Keeps(jrn[x], p)
    BY <1>1 DEF Logical, Fresh, Keeps, RestoreExpected
  <2>5. Keeps(latest, p) => Logical(p) \in RestoreExpected(latest, p)
    BY <1>1 DEF OriginAt
  <2>6. Keeps(latest, p) => Keeps(mem, p)'
    BY <1>1, <2>2, <2>3, <2>5 DEF Keeps, Fresh
  <2>7. Logical(p) \in RestoreExpected(mem, p)'
    BY <2>2 DEF RestoreExpected
  <2>8. Fresh(p) /\ user[p] \in expected'[p] => Keeps(latest, p)
    <3>1. user[p] # Absent /\ user[p] \in Admin \cup {Absent} => user[p] \notin Owned
      BY ContentAssumption DEF Owned
    <3>2. latest.man \in Owned /\ latest.pend \in Owned
      BY <2>1 DEF Journal
    <3> QED BY <1>3, <3>1, <3>2 DEF Fresh, Keeps, RestoreExpected, TypeInv, TypeOK
  <2> HIDE DEF Released
  <2> QED BY <1>1, <1>3, <2>2, <2>4, <2>5, <2>6, <2>7, <2>8 DEF OriginAt, Undone, Forward
<1> QED BY <1>1, <1>2, <1>3 DEF Restore, ReadFault, Restored, Goto

\* Write.
LEMMA WriteOrigin ==
  ASSUME TypeInv, JournalInv, NEW p \in Paths, KnownAt(p), OriginAt(p), Write
  PROVE  OriginAt(p)'
<1>1. /\ pc = "write" /\ job \in Forward /\ receipt # None /\ mem = latest /\ mem # Absent
      /\ mem \in Journal /\ mem.pend \in Proxies /\ expected[p] = ApplyExpected(mem, p)
      /\ UNCHANGED <<jrn, latest, receipt>>
  BY DEF Write, TypeInv, TypeOK, JournalInv, Forward
<1>2. CASE p = Turn /\ Wrote(p) /\ (Exit \/ Halt("restore"))
  BY <1>1, <1>2, WroteOrigin DEF Exit, Halt, FailTo, Goto, memory
<1>3. CASE /\ user'[p] = user[p] /\ past'[p] = past[p]
           /\ \/ Logical(p)' = Logical(p)
              \/ p = Turn /\ Logical(p)' = mem.pend /\ Logical(p) \in expected[p]
           /\ \/ Exit \/ Halt("restore")
              \/ /\ p = Turn => Logical(p)' = mem.pend
                 /\ todo' = todo \ {Turn} /\ UNCHANGED <<job, mem>>
                 /\ pc' = IF todo = {Turn} THEN "written" ELSE pc
  <2>1. /\ (Fresh(p)' <=> Fresh(p)) /\ (Keeps(latest, p)' <=> Keeps(latest, p))
        /\ RestoreExpected(latest, p)' = RestoreExpected(latest, p)
        /\ \A x \in Copies : Keeps(jrn[x], p)' <=> Keeps(jrn[x], p)
    BY <1>1, <1>3 DEF Fresh, Keeps, RestoreExpected
  <2>2. Keeps(latest, p) => Logical(p)' \in RestoreExpected(latest, p)
    <3>1. mem.pend \in RestoreExpected(mem, p)
      BY <1>1, ContentAssumption DEF RestoreExpected
    <3>2. Keeps(latest, p) => Logical(p) \in RestoreExpected(latest, p)
      BY <1>1 DEF OriginAt, Calm
    <3> QED BY <1>1, <1>3, <3>1, <3>2
  <2>3. Fresh(p) => Logical(p)' = user[p] \/ Keeps(latest, p)
    <3>1. Fresh(p) => Logical(p) = user[p] \/ Keeps(latest, p)
      BY <1>1 DEF OriginAt, Calm
    <3>2. Fresh(p) => user[p] \notin Proxies
      BY ContentAssumption DEF Fresh, TypeInv, TypeOK
    <3>3. mem.man \in Proxies \cup {Absent}
      BY <1>1 DEF Journal, Owned
    <3>4. Fresh(p) /\ user[p] \in expected[p] => Keeps(latest, p)
      BY <1>1, <3>2, <3>3 DEF ApplyExpected, Keeps
    <3> QED BY <1>3, <3>1, <3>4
  <2>4. CASE Exit
    BY <1>1, <1>3, <2>3, <2>4, ExitOrigin
  <2>5. CASE Halt("restore")
    <3>1. pc' = "restore" /\ job' = job
      BY <2>5 DEF Halt, FailTo, Goto, memory
    <3> QED BY <1>1, <1>3, <2>1, <2>2, <2>3, <3>1 DEF OriginAt, Undone, Forward
  <2>6. CASE /\ p = Turn => Logical(p)' = mem.pend
             /\ todo' = todo \ {Turn} /\ UNCHANGED <<job, mem>>
             /\ pc' = IF todo = {Turn} THEN "written" ELSE pc
    <3>1. p \notin todo' /\ Keeps(mem, p) => Logical(p)' = mem.pend
      BY <1>1, <1>3, <2>6 DEF OriginAt
    <3>2. pc' \in {"write", "written"} /\ (pc' = "written" => p \notin todo')
      BY <1>1, <2>6
    <3> QED BY <1>1, <1>3, <2>1, <2>2, <2>3, <2>6, <3>1, <3>2 DEF OriginAt, Undone, Forward
  <2> QED BY <1>3, <2>4, <2>5, <2>6
<1>4. SwapCases(mem.pend, "written", "restore")
  BY WriteSwaps
<1> QED BY <1>2, <1>3, <1>4, SwapPath

\* Undo.
LEMMA UndoOrigin ==
  ASSUME TypeInv, JournalInv, NEW p \in Paths, KnownAt(p), OriginAt(p), Undo
  PROVE  OriginAt(p)'
<1>1. /\ pc = "undo" /\ job \in Forward /\ receipt # None /\ mem = latest /\ mem # Absent
      /\ mem \in Journal /\ mem.phase = "restoring"
      /\ UNCHANGED <<jrn, latest, receipt>>
  BY DEF Undo, TypeInv, TypeOK, JournalInv
<1>2. CASE p = Turn /\ Wrote(p) /\ (Exit \/ Halt("failed"))
  BY <1>1, <1>2, WroteOrigin DEF Exit, Halt, FailTo, Goto, memory
<1>3. CASE /\ user'[p] = user[p] /\ past'[p] = past[p]
           /\ \/ Logical(p)' = Logical(p)
              \/ p = Turn /\ Logical(p)' = mem.orig[p] /\ Logical(p) \in expected[p]
           /\ \/ Exit \/ Halt("failed")
              \/ /\ p = Turn => Logical(p)' = mem.orig[p]
                 /\ todo' = todo \ {Turn} /\ UNCHANGED <<job, expected, mem>>
                 /\ pc' = IF todo = {Turn} THEN "drop" ELSE pc
  <2>1. /\ (Fresh(p)' <=> Fresh(p)) /\ (Keeps(latest, p)' <=> Keeps(latest, p))
        /\ RestoreExpected(latest, p)' = RestoreExpected(latest, p)
        /\ \A x \in Copies : Keeps(jrn[x], p)' <=> Keeps(jrn[x], p)
    BY <1>1, <1>3 DEF Fresh, Keeps, RestoreExpected
  <2>2. Keeps(latest, p) => Logical(p)' \in RestoreExpected(latest, p)
    <3>1. mem.orig[p] \in RestoreExpected(mem, p)
      BY DEF RestoreExpected
    <3>2. Keeps(latest, p) => Logical(p) \in RestoreExpected(latest, p)
      BY <1>1 DEF OriginAt, Calm
    <3> QED BY <1>1, <1>3, <3>1, <3>2
  <2>3. Fresh(p) => Logical(p)' = user[p] \/ Keeps(latest, p)
    <3>1. Fresh(p) => Logical(p) = user[p] \/ Keeps(latest, p)
      BY <1>1 DEF OriginAt, Calm
    <3>2. Fresh(p) /\ user[p] \in expected[p] => Keeps(latest, p)
      BY <1>1 DEF OriginAt
    <3> QED BY <1>3, <3>1, <3>2
  <2>4. CASE Exit
    BY <1>1, <1>3, <2>3, <2>4, ExitOrigin
  <2>5. CASE Halt("failed")
    <3>1. pc' = "failed" /\ job' = job
      BY <2>5 DEF Halt, FailTo, Goto, memory
    <3> QED BY <1>1, <1>3, <2>1, <2>2, <2>3, <3>1 DEF OriginAt, Undone, Forward
  <2>6. CASE /\ p = Turn => Logical(p)' = mem.orig[p]
             /\ todo' = todo \ {Turn} /\ UNCHANGED <<job, expected, mem>>
             /\ pc' = IF todo = {Turn} THEN "drop" ELSE pc
    <3>1. p \notin todo' /\ Keeps(latest, p) => Logical(p)' = user[p]
      BY <1>1, <1>3, <2>6 DEF OriginAt, Keeps
    <3>2. pc' \in {"undo", "drop"} /\ (pc' = "drop" => p \notin todo')
      BY <1>1, <2>6
    <3>3. Fresh(p) /\ user[p] \in expected[p] => Keeps(mem, p)
      BY <1>1 DEF OriginAt
    <3>4. Keeps(mem, p)' <=> Keeps(mem, p)
      BY <1>1, <1>3, <2>6 DEF Keeps, Fresh
    <3> QED BY <1>1, <1>3, <2>1, <2>2, <2>3, <2>6, <3>1, <3>2, <3>3, <3>4
        DEF OriginAt, Undone, Forward
  <2> QED BY <1>3, <2>4, <2>5, <2>6
<1>4. SwapCases(mem.orig[Turn], "drop", "failed")
  BY UndoSwaps
<1> QED BY <1>2, <1>3, <1>4, SwapPath

\* A compensation that goes on, whatever it has moved: the journal it found belongs to
\* the transaction, and each path it has dealt with is as the receipt says.
LEMMA CompensatingOrigin ==
  ASSUME TypeInv, NEW p \in Paths, OriginAt(p), job = "compensate", receipt # None,
         UNCHANGED <<jrn, latest, receipt, job>>, user'[p] = user[p], past'[p] = past[p],
         latest # Absent => latest.orig[p] = Original(receipt, p),
         pc' \in {"comp_write", "save", "drop", "close"},
         Undone(p)' /\ Fresh(p) /\ Original(receipt, p) = user[p] => Logical(p)' = receipt.files[p],
         Fresh(p) => \/ Logical(p)' = user[p] \/ Keeps(latest, p) \/ Keeps(receipt.before, p),
         pc' = "close" =>
           IF receipt.before = Absent THEN latest = Absent
           ELSE latest # Absent /\ latest = [receipt.before EXCEPT !.gen = latest.gen],
         pc' = "save" =>
           /\ receipt.before # Absent /\ mem' # Absent
           /\ mem' = [receipt.before EXCEPT !.gen = mem'.gen]
  PROVE  OriginAt(p)'
<1>1. /\ (Fresh(p)' <=> Fresh(p)) /\ (Keeps(latest, p)' <=> Keeps(latest, p))
      /\ (Keeps(receipt.before, p)' <=> Keeps(receipt.before, p))
      /\ RestoreExpected(latest, p)' = RestoreExpected(latest, p)
      /\ Original(receipt, p)' = Original(receipt, p)
      /\ \A x \in Copies : Keeps(jrn[x], p)' <=> Keeps(jrn[x], p)
  BY DEF Fresh, Keeps, RestoreExpected, Original
<1>2. receipt.before # Absent =>
        /\ receipt.before \in Journal /\ Original(receipt, p) = receipt.before.orig[p]
        /\ receipt.files[p] = receipt.before.man /\ receipt.before.man \in Proxies
        /\ receipt.before.phase = "active"
  BY DEF TypeInv, TypeOK, Receipt, Sound, Original
<1>3. Calm' <=> pc' = "close"
  BY DEF Calm, Forward
<1>4. pc' = "close" /\ Keeps(latest, p) => Logical(p)' \in RestoreExpected(latest, p)
  <2> SUFFICES ASSUME pc' = "close", Keeps(latest, p)
               PROVE  Logical(p)' \in RestoreExpected(latest, p)
    OBVIOUS
  <2>1. receipt.before # Absent /\ latest.man = receipt.before.man
    BY <1>2 DEF Keeps, Journal
  <2>2. Undone(p)' /\ Fresh(p) /\ Original(receipt, p) = user[p]
    BY DEF Keeps, Undone
  <2>3. Logical(p)' = latest.man /\ latest.man # Absent
    BY <1>2, <2>1, <2>2, ContentAssumption
  <2> QED BY <2>3 DEF RestoreExpected
<1>5. pc' = "close" /\ Keeps(receipt.before, p) => Keeps(latest, p)
  BY <1>2 DEF Keeps, Journal
<1>6. CASE pc' = "save"
  <2>1. mem'.orig[p] = Original(receipt, p) /\ mem'.man = receipt.before.man /\ mem'.phase = "active"
    BY <1>2, <1>6 DEF Journal
  <2>2. Keeps(latest, p)' => Keeps(mem, p)'
    BY <1>6, <2>1 DEF Keeps
  <2>3. Keeps(mem, p)' => Logical(p)' \in RestoreExpected(mem, p)'
    <3>1. Keeps(mem, p)' => Logical(p)' = mem'.man /\ mem'.man # Absent
      BY <1>1, <1>2, <1>6, <2>1, ContentAssumption DEF Keeps, Undone
    <3> QED BY <3>1 DEF RestoreExpected
  <2> HIDE DEF Original
  <2> QED BY <1>1, <1>3, <1>6, <2>1, <2>2, <2>3 DEF OriginAt
<1>7. CASE pc' # "save"
  <2> HIDE DEF Original
  <2> QED BY <1>1, <1>3, <1>4, <1>5, <1>7 DEF OriginAt, Forward
<1> QED BY <1>6, <1>7

\* Compensate.
LEMMA CompensateOrigin ==
  ASSUME TypeInv, JournalInv, NEW p \in Paths, OriginAt(p), Compensate
  PROVE  OriginAt(p)'
<1>1. /\ receipt # None /\ receipt \in Receipt /\ pc = "comp" /\ job = "compensate"
      /\ Loaded = latest /\ latest \in Journal \cup {Absent}
      /\ UNCHANGED <<file, quar, user, past, jrn, latest, receipt>>
  BY DEF Compensate, TypeInv, TypeOK, JournalInv, disk
<1>2. ~Calm
  BY <1>1 DEF Calm, Forward
<1>3. Fresh(p) => Logical(p) = user[p] \/ Keeps(latest, p) \/ Keeps(receipt.before, p)
  BY <1>2 DEF OriginAt
<1>4. Logical(p)' = Logical(p)
  BY <1>1 DEF Logical
<1>5. CASE Exit
  BY <1>1, <1>3, <1>4, <1>5, ExitOrigin
<1>6. CASE /\ Compensable(receipt) /\ UNCHANGED job /\ todo' = Pending(receipt)
           /\ mem' = (IF receipt.before = Absent THEN Absent
                      ELSE [receipt.before EXCEPT !.gen = Floor(receipt)])
           /\ pc' = (IF Pending(receipt) # {} THEN "comp_write" ELSE JournalNext(receipt, FALSE))
  <2>1. latest # Absent => latest.orig[p] = Original(receipt, p)
    BY <1>1, <1>6 DEF Compensable
  <2>2. pc' \in {"comp_write", "save", "drop", "close"}
    BY <1>6 DEF JournalNext
  <2>3. Undone(p)' => Logical(p)' = receipt.files[p]
    BY <1>4, <1>6 DEF Undone, Pending
  <2>4. pc' = "close" =>
           IF receipt.before = Absent THEN latest = Absent
           ELSE latest # Absent /\ latest = [receipt.before EXCEPT !.gen = latest.gen]
    <3>1. CASE receipt.before = Absent
      BY <1>1, <1>6, <3>1 DEF JournalNext
    <3>2. CASE receipt.before # Absent /\ pc' = "close"
      <4>1. latest # Absent /\ [latest EXCEPT !.gen = receipt.before.gen] = receipt.before
        BY <1>1, <1>6, <3>2 DEF JournalNext
      <4>2. latest \in Journal /\ receipt.before \in Journal
        BY <1>1, <3>2, <4>1 DEF Receipt
      <4>3. latest = [receipt.before EXCEPT !.gen = latest.gen]
        BY <4>1, <4>2 DEF Journal
      <4> QED BY <3>2, <4>1, <4>3
    <3> QED BY <3>1, <3>2
  <2>5. TypeInv'
    BY CompensateType
  <2>6. pc' = "save" =>
           /\ receipt.before # Absent /\ mem' # Absent
           /\ mem' = [receipt.before EXCEPT !.gen = mem'.gen]
    BY <1>1, <1>6, <2>5 DEF TypeInv
  <2> HIDE DEF Original
  <2> QED BY <1>1, <1>3, <1>4, <1>6, <2>1, <2>2, <2>3, <2>4, <2>6, CompensatingOrigin
<1> QED BY <1>5, <1>6 DEF Compensate, Goto

\* CompWrite.
LEMMA CompWriteOrigin ==
  ASSUME TypeInv, JournalInv, NEW p \in Paths, KnownAt(p), OriginAt(p), CompWrite
  PROVE  OriginAt(p)'
<1>1. /\ pc = "comp_write" /\ job = "compensate" /\ receipt # None /\ receipt \in Receipt
      /\ expected[p] = Allowed(receipt, p) /\ Loaded = latest
      /\ UNCHANGED <<jrn, latest, receipt>>
  BY DEF CompWrite, TypeInv, TypeOK, JournalInv
<1>2. CASE p = Turn /\ Wrote(p) /\ Exit
  BY <1>1, <1>2, WroteOrigin DEF Exit, Goto
<1>3. CASE /\ user'[p] = user[p] /\ past'[p] = past[p]
           /\ \/ Logical(p)' = Logical(p)
              \/ p = Turn /\ Logical(p)' = receipt.files[p] /\ Logical(p) \in expected[p]
           /\ \/ Exit
              \/ /\ p = Turn => Logical(p)' = receipt.files[p]
                 /\ todo' = todo \ {Turn} /\ UNCHANGED <<job, mem>>
                 /\ pc' = IF todo = {Turn} THEN JournalNext(receipt, TRUE) ELSE pc
  <2>1. Fresh(p) => Logical(p)' = user[p] \/ Keeps(latest, p) \/ Keeps(receipt.before, p)
    <3>1. Fresh(p) => Logical(p) = user[p] \/ Keeps(latest, p) \/ Keeps(receipt.before, p)
      BY DEF OriginAt
    <3>2. Fresh(p) => user[p] \notin Proxies
      BY ContentAssumption DEF Fresh, TypeInv, TypeOK
    <3>3. receipt.want \in Proxies \cup {Absent}
      BY <1>1 DEF Receipt, Owned
    <3>4. Fresh(p) /\ user[p] \in expected[p] => user[p] = receipt.files[p] \/ Keeps(receipt.before, p)
      BY <1>1, <3>2, <3>3 DEF Allowed, Keeps
    <3> QED BY <1>3, <3>1, <3>4
  <2>2. CASE Exit
    BY <1>1, <1>3, <2>1, <2>2, ExitOrigin
  <2>3. CASE /\ p = Turn => Logical(p)' = receipt.files[p]
             /\ todo' = todo \ {Turn} /\ UNCHANGED <<job, mem>>
             /\ pc' = IF todo = {Turn} THEN JournalNext(receipt, TRUE) ELSE pc
    <3>1. latest # Absent => latest.orig[p] = Original(receipt, p)
      BY <1>1 DEF OriginAt
    <3>2. /\ pc' \in {"comp_write", "save", "drop", "close"}
          /\ pc' = "close" => receipt.before = Absent /\ latest = Absent
          /\ pc' = "save" => receipt.before # Absent
      BY <1>1, <2>3 DEF JournalNext
    <3>3. Undone(p)' => p = Turn \/ Undone(p)
      <4>1. Undone(p)' => p \notin todo'
        BY <1>1, <2>3 DEF Undone
      <4> QED BY <1>1, <2>3, <4>1 DEF Undone
    <3>4. Undone(p)' /\ Fresh(p) /\ Original(receipt, p) = user[p] => Logical(p)' = receipt.files[p]
      BY <1>3, <2>3, <3>3 DEF OriginAt
    <3>5. receipt.before # Absent => mem # Absent /\ mem = [receipt.before EXCEPT !.gen = mem.gen]
      BY <1>1 DEF TypeInv
    <3> HIDE DEF Original
    <3> QED BY <1>1, <1>3, <2>1, <2>3, <3>1, <3>2, <3>4, <3>5, CompensatingOrigin
  <2> QED BY <1>3, <2>2, <2>3
<1>4. SwapCases(receipt.files[Turn], JournalNext(receipt, TRUE), "idle")
  BY CompWriteSwaps
<1> HIDE DEF JournalNext
<1>5. Halt("idle") <=> Exit
  BY DEF Halt
<1> QED BY <1>2, <1>3, <1>4, <1>5, SwapPath

\* Drop.
LEMMA DropOrigin ==
  ASSUME TypeInv, JournalInv, NEW p \in Paths, OriginAt(p), Drop
  PROVE  OriginAt(p)'
<1>1. /\ pc = "drop" /\ receipt # None /\ job \in Forward \cup {"compensate"}
      /\ UNCHANGED <<file, quar, user, past, receipt>> /\ Loaded = latest
  BY DEF Drop, TypeInv, disk, JournalInv
<1>2. /\ Logical(p)' = Logical(p) /\ (Fresh(p)' <=> Fresh(p))
      /\ Original(receipt, p)' = Original(receipt, p)
      /\ (Keeps(receipt.before, p)' <=> Keeps(receipt.before, p))
  BY <1>1 DEF Logical, Fresh, Original, Keeps
<1>3. /\ latest' # Absent => \E x \in Copies : latest' = jrn[x]
      /\ \A x \in Copies : Keeps(jrn[x], p)' => Keeps(latest, p)'
  <2>1. CASE jrn' = [x \in Copies |-> Absent] /\ latest' = Absent
    BY <2>1 DEF Keeps
  <2>2. CASE \E kept \in SUBSET Copies :
               /\ jrn' = [x \in Copies |-> IF x \in kept THEN jrn[x] ELSE Absent]
               /\ latest' = Loaded'
    <3>1. PICK kept \in SUBSET Copies :
            jrn' = [x \in Copies |-> IF x \in kept THEN jrn[x] ELSE Absent] /\ latest' = Loaded'
      BY <2>2
    <3>2. latest' # Absent => \E x \in Copies : latest' = jrn[x]
      BY <3>1 DEF Loaded, Copies
    <3>3. \A x \in Copies : Keeps(jrn[x], p) => Keeps(latest, p)
      BY DEF OriginAt
    <3>4. CASE jrn' = jrn
      <4>1. latest' = latest
        BY <1>1, <3>1, <3>4 DEF Loaded, Both
      <4> QED BY <1>1, <3>2, <3>3, <3>4, <4>1 DEF Keeps, Fresh
    <3>5. CASE jrn'["main"] = Absent \/ jrn'["bak"] = Absent
      BY <3>1, <3>5 DEF Loaded, Both, Copies, Keeps
    <3>6. jrn' = jrn \/ jrn'["main"] = Absent \/ jrn'["bak"] = Absent
      <4>1. kept = Copies \/ "main" \notin kept \/ "bak" \notin kept
        BY <3>1 DEF Copies
      <4> QED BY <3>1, <4>1 DEF Copies, TypeInv, TypeOK
    <3> QED BY <3>2, <3>4, <3>5, <3>6
  <2> QED BY <2>1, <2>2 DEF Drop
<1>4. Keeps(latest, p)' => Keeps(latest, p)
  <2>1. \A x \in Copies : Keeps(jrn[x], p) => Keeps(latest, p)
    BY DEF OriginAt
  <2> QED BY <1>1, <1>3, <2>1 DEF Keeps, Fresh
<1>5. Keeps(latest, p) => Logical(p) = user[p]
  <2>1. CASE job \in Forward
    BY <1>1, <2>1 DEF OriginAt
  <2>2. CASE job = "compensate"
    <3>1. receipt.before = Absent /\ Undone(p)
      BY <1>1, <2>2 DEF TypeInv, Undone
    <3>2. Keeps(latest, p) => Original(receipt, p) = user[p] /\ Fresh(p)
      BY <1>1, <2>2 DEF OriginAt, Keeps
    <3>3. Original(receipt, p) = receipt.files[p]
      BY <3>1 DEF Original
    <3> HIDE DEF Original
    <3> QED BY <3>1, <3>2, <3>3 DEF OriginAt
  <2> QED BY <1>1, <2>1, <2>2
<1>6. Fresh(p) => Logical(p) = user[p]
  <2>1. ~Calm => receipt.before = Absent
    BY <1>1 DEF Calm, TypeInv
  <2> QED BY <1>5, <2>1 DEF OriginAt, Keeps
<1>7. Keeps(latest, p)' => Logical(p)' \in RestoreExpected(latest, p)'
  BY <1>1, <1>2, <1>4, <1>5 DEF Keeps, RestoreExpected
<1>8. CASE /\ pc' = "close" /\ job = "compensate" /\ latest' = Absent /\ UNCHANGED memory
  <2>1. receipt.before = Absent /\ Undone(p)
    BY <1>1, <1>8 DEF TypeInv, Undone
  <2> HIDE DEF Original
  <2> QED BY <1>1, <1>2, <1>3, <1>6, <1>7, <1>8, <2>1 DEF OriginAt
<1>9. CASE \/ pc' = "idle" /\ job' = "none"
           \/ pc' \in {"done", "failed"} /\ job \in Forward /\ job' = job
  BY <1>1, <1>2, <1>3, <1>6, <1>7, <1>9 DEF OriginAt, Undone, Forward
<1> QED BY <1>1, <1>8, <1>9 DEF Drop, Restored, FailTo, Exit, Goto, memory, Forward

\* The transaction around the step, and a kill.
LEMMA OtherOrigin ==
  ASSUME TypeInv, NEW p \in Paths, OriginAt(p), Commit \/ Fail \/ Recover \/ Close \/ Crash
  PROVE  OriginAt(p)'
<1>1. /\ UNCHANGED <<file, quar, user, past, jrn, latest>>
      /\ Logical(p)' = Logical(p) /\ (Fresh(p)' <=> Fresh(p))
      /\ (Keeps(latest, p)' <=> Keeps(latest, p))
      /\ RestoreExpected(latest, p)' = RestoreExpected(latest, p)
      /\ \A x \in Copies : Keeps(jrn[x], p)' <=> Keeps(jrn[x], p)
  BY DEF Commit, Fail, Recover, Close, Crash, disk, Logical, Fresh, Keeps, RestoreExpected
<1>2. CASE Commit \/ Close
  <2>1. Calm
    BY <1>2 DEF Commit, Close, Calm, TypeInv
  <2>2. pc' = "idle" /\ job' = "none"
    BY <1>2 DEF Commit, Close, Exit, Goto
  <2> QED BY <1>1, <2>1, <2>2 DEF OriginAt, Undone
<1>3. CASE Fail \/ Recover \/ Crash
  <2>1. receipt' = receipt /\ receipt # None
    BY <1>3 DEF Fail, Recover, Crash, TypeInv
  <2>2. \/ pc' = "idle" /\ job' = "none"
        \/ pc' = "comp" /\ job' = "compensate"
    BY <1>3 DEF Fail, Recover, Crash, Exit, Goto
  <2>3. ~Calm' /\ (Keeps(receipt.before, p)' <=> Keeps(receipt.before, p))
    BY <1>1, <2>1, <2>2 DEF Calm, Forward, Keeps, Fresh
  <2> QED BY <1>1, <2>1, <2>2, <2>3 DEF OriginAt, Undone
<1> QED BY <1>2, <1>3

\* An administrator.
LEMMA EditOrigin ==
  ASSUME TypeInv, JournalInv, NEW p \in Paths, KnownAt(p), OriginAt(p),
         NEW x \in Paths, NEW c \in Admin \cup {Absent}, Edit(x, c)
  PROVE  OriginAt(p)'
<1>1. UNCHANGED <<quar, jrn, latest, receipt, pc, job, mem, expected, todo>>
  BY DEF Edit, memory
<1>2. CASE p = x
  <2>1. Wrote(p)
    BY <1>2 DEF Edit, Writes, Wrote, Ever, TypeInv, TypeOK
  <2> QED BY <1>1, <2>1, WroteOrigin
<1>3. CASE p # x
  <2>1. file'[p] = file[p] /\ user'[p] = user[p] /\ past'[p] = past[p]
    BY <1>3 DEF Edit, Writes, TypeInv, TypeOK
  <2>2. Logical(p)' = Logical(p)
    BY <1>1, <2>1 DEF Logical
  <2> QED BY <1>1, <2>1, <2>2
      DEF OriginAt, Fresh, Keeps, Calm, Undone, RestoreExpected, Original
<1> QED BY <1>2, <1>3

\* Every step keeps the administrator's content findable.
LEMMA NextOrigin ==
  TypeInv /\ JournalInv /\ KnownInv /\ OriginInv /\ [Next]_vars => OriginInv'
<1> SUFFICES ASSUME TypeInv, JournalInv, KnownInv, OriginInv, [Next]_vars, NEW p \in Paths
             PROVE  OriginAt(p)'
  BY DEF OriginInv
<1>1. KnownAt(p) /\ OriginAt(p)
  BY DEF KnownInv, OriginInv
<1>2. CASE UNCHANGED vars
  BY <1>1, <1>2
  DEF vars, disk, memory, OriginAt, Fresh, Keeps, Calm, Undone, RestoreExpected, Original, Logical
<1>3. CASE Next
  BY <1>1, <1>3, BeginOrigin, PrepareOrigin, SaveOrigin, SaveMainOrigin, CheckOrigin, WriteOrigin,
     WrittenOrigin, RestoreOrigin, UndoOrigin, DropOrigin, CompensateOrigin, CompWriteOrigin,
     OtherOrigin, EditOrigin
  DEF Next, Process
<1> QED BY <1>2, <1>3

\* The invariant of the global scene, in every reachable state: the types, the copies of
\* the journal, what is known, and where the administrator's content is.
THEOREM OriginInvariant == Spec => [](TypeInv /\ JournalInv /\ KnownInv /\ OriginInv)
BY InitType, NextType, InitJournal, NextJournal, InitKnown, NextKnown, InitOrigin, NextOrigin, PTL
DEF Spec

\* What the administrator last wrote, and had not written before, is never lost: not by an
\* apply, a release or a compensation that fails or is killed anywhere, nor by an edit in
\* the middle of one (restoreGlobalWithJournal, compensateRuntimeGlobal).
THEOREM NothingWrittenIsLost == Spec => []OriginalsSurvive
<1>1. TypeInv /\ JournalInv /\ OriginInv => OriginalsSurvive
  <2> SUFFICES ASSUME TypeInv, JournalInv, OriginInv, NEW p \in Paths, user[p] \notin past[p] \cup {Absent}
               PROVE  \/ user[p] \in {file[p], quar[p]}
                      \/ Loaded # Absent /\ user[p] = Loaded.orig[p]
                      \/ receipt # None /\ receipt.before # Absent /\ user[p] = receipt.before.orig[p]
    BY DEF OriginalsSurvive
  <2>1. Logical(p) = user[p] \/ Keeps(latest, p) \/ (~Calm /\ Keeps(receipt.before, p))
    BY DEF OriginInv, OriginAt, Fresh
  <2> QED BY <2>1 DEF Logical, Keeps, Calm, JournalInv
<1> QED BY OriginInvariant, <1>1, PTL

-----------------------------------------------------------------------------
(* While nobody edits the files.                                           *)

\* The initial states are settled.
LEMMA InitQuiet == Init => QuietInv
<1> SUFFICES ASSUME Init, NEW p \in Paths PROVE QuietAt(p)
  BY DEF QuietInv
<1>1. pc = "idle" /\ job = "none" /\ receipt = None /\ mem = Absent
  BY DEF Init
<1>2. Settled(p) /\ \A x \in Copies : jrn[x] \in {latest, Absent}
  BY InitSettled
<1>3. latest # Absent => Logical(p) \in RestoreExpected(latest, p)
  BY <1>2, InitType, InitJournal, SettledHolds
<1> QED BY <1>1, <1>2, <1>3 DEF QuietAt, Undone, Settled

\* Outside the transaction's own writes nothing is asked but that the journals, and the
\* receipt, have the administrator's files.
LEMMA QuietLeaves ==
  ASSUME NEW p \in Paths, QuietAt(p), user'[p] = user[p], UNCHANGED <<jrn, latest>>,
         receipt' \in {receipt, None}, mem' \in {mem, Absent},
         pc' \notin {"save", "save_main", "write", "written", "undo", "drop"},
         job' = "compensate" => pc' = "comp",
         Calm' /\ latest # Absent => Logical(p)' \in RestoreExpected(latest, p),
         receipt' = None \/ pc' \in {"prepare", "done", "close"} \/ (pc' = "restore" /\ job' = "restore")
           => Settled(p)'
  PROVE  QuietAt(p)'
<1>1. receipt' # None => Original(receipt, p)' = Original(receipt, p)
  BY DEF Original
<1>2. RestoreExpected(latest, p)' = RestoreExpected(latest, p)
  BY DEF RestoreExpected
<1> HIDE DEF Original
<1> QED BY <1>1, <1>2 DEF QuietAt, Undone

\* The process exits with its receipt, leaving the journal as it is.
LEMMA ExitQuiet ==
  ASSUME TypeInv, NEW p \in Paths, QuietAt(p), Exit, UNCHANGED <<jrn, latest, receipt>>,
         user'[p] = user[p], receipt # None
  PROVE  QuietAt(p)'
<1>1. pc' = "idle" /\ job' = "none" /\ mem' = Absent /\ ~Calm'
  BY DEF Exit, Goto, Calm, Forward
<1> QED BY <1>1, QuietLeaves

\* Begin.
LEMMA BeginQuiet ==
  ASSUME TypeInv, JournalInv, NEW p \in Paths, QuietAt(p), NEW want \in Owned, Begin(want)
  PROVE  QuietAt(p)'
<1>1. /\ UNCHANGED <<file, quar, user, jrn, latest, mem>> /\ receipt = None
      /\ receipt'.before = latest /\ receipt'.files = file
      /\ job' \in Forward /\ pc' \in {"restore", "prepare"}
  BY DEF Begin, disk, Goto, Forward, JournalInv
<1>2. Settled(p)
  BY <1>1 DEF QuietAt
<1>3. Original(receipt, p)' = user[p]
  BY <1>1, <1>2 DEF Original, Settled
<1>4. Settled(p)' /\ Logical(p)' = Logical(p) /\ RestoreExpected(latest, p)' = RestoreExpected(latest, p)
  BY <1>1, <1>2 DEF Settled, Logical, RestoreExpected
<1>5. latest # Absent => Logical(p) \in RestoreExpected(latest, p)
  BY <1>2, SettledHolds
<1> HIDE DEF Original
<1> QED BY <1>1, <1>3, <1>4, <1>5 DEF QuietAt, Undone, Forward

\* Prepare.
LEMMA PrepareQuiet ==
  ASSUME TypeInv, JournalInv, NEW p \in Paths, QuietAt(p), Prepare
  PROVE  QuietAt(p)'
<1>1. /\ pc = "prepare" /\ job = "apply" /\ receipt # None /\ Loaded = latest
      /\ UNCHANGED <<file, quar, user, jrn, latest, receipt, job>>
  BY DEF Prepare, ReadFault, disk, memory, TypeInv, JournalInv
<1>2. Settled(p)
  BY <1>1 DEF QuietAt
<1>3. Logical(p)' = Logical(p) /\ (latest # Absent => Logical(p) \in RestoreExpected(latest, p))
  BY <1>1, <1>2, SettledHolds DEF Logical
<1>4. CASE pc' = "failed" /\ mem' = mem
  BY <1>1, <1>3, <1>4, QuietLeaves
<1>5. CASE pc' = "save" /\ mem' = Taken(latest)
  <2>1. TypeInv'
    BY PrepareType
  <2>2. mem' # Absent
    BY <1>5, <2>1 DEF TypeInv
  <2>3. /\ mem'.orig[p] = user[p] /\ mem'.phase = "prepared"
        /\ latest # Absent => mem'.man = latest.man
    <3>1. CASE latest = Absent
      BY <1>2, <1>5, <3>1 DEF Taken, Settled
    <3>2. CASE latest # Absent
      BY <1>2, <1>5, <3>2 DEF Taken, Settled, TypeInv, TypeOK, Journal
    <3> QED BY <3>1, <3>2
  <2>4. Logical(p)' \in RestoreExpected(mem, p)'
    <3>1. CASE latest = Absent
      BY <1>2, <1>3, <2>3, <3>1 DEF Settled, Logical, RestoreExpected
    <3>2. CASE latest # Absent
      <4>1. latest.man \in Proxies
        BY <1>2, <3>2 DEF Settled, TypeInv, Sound, JournalInv, Loaded, Both, Copies
      <4>2. Logical(p)' = mem'.man /\ mem'.man # Absent
        BY <1>2, <1>3, <2>3, <3>2, <4>1, ContentAssumption DEF Settled, Logical
      <4> QED BY <4>2 DEF RestoreExpected
    <3> QED BY <3>1, <3>2
  <2>5. Original(receipt, p)' = Original(receipt, p)
        /\ RestoreExpected(latest, p)' = RestoreExpected(latest, p)
    BY <1>1 DEF Original, RestoreExpected
  <2> HIDE DEF Original
  <2> QED BY <1>1, <1>3, <1>5, <2>2, <2>3, <2>4, <2>5 DEF QuietAt, Undone, Forward
<1> QED BY <1>1, <1>4, <1>5 DEF Prepare, ReadFault, Goto, memory

\* Check.
LEMMA CheckQuiet ==
  ASSUME TypeInv, NEW p \in Paths, QuietAt(p), Check PROVE QuietAt(p)'
<1>1. /\ job = "apply" /\ receipt # None
      /\ UNCHANGED <<file, quar, user, jrn, latest, receipt, job, mem>>
      /\ pc' = "failed" \/ (pc' = "write" /\ todo' = Paths)
  BY DEF Check, ReadFault, Goto, disk, memory, TypeInv
<1>2. /\ Logical(p)' = Logical(p) /\ RestoreExpected(latest, p)' = RestoreExpected(latest, p)
      /\ Original(receipt, p)' = Original(receipt, p)
      /\ (latest # Absent => Logical(p) \in RestoreExpected(latest, p))
  BY <1>1 DEF QuietAt, Calm, Forward, Logical, RestoreExpected, Original
<1> HIDE DEF Original
<1> QED BY <1>1, <1>2 DEF QuietAt, Undone, Forward

\* Written.
LEMMA WrittenQuiet ==
  ASSUME TypeInv, JournalInv, NEW p \in Paths, QuietAt(p), Written PROVE QuietAt(p)'
<1>1. /\ pc = "written" /\ pc' = "save" /\ job = "apply" /\ receipt # None
      /\ UNCHANGED <<file, quar, user, jrn, latest, receipt, job>>
      /\ mem \in Journal /\ mem # Absent /\ mem.pend \in Proxies
  BY DEF Written, Goto, disk, TypeInv, TypeOK
<1>2. mem'.orig = mem.orig /\ mem'.man = mem.pend /\ mem'.phase = "active"
  BY <1>1 DEF Written, Journal
<1>3. file[p] = mem.pend /\ quar[p] = Absent
  BY <1>1 DEF QuietAt
<1>4. Logical(p)' \in RestoreExpected(mem, p)'
  BY <1>1, <1>2, <1>3, ContentAssumption DEF Logical, RestoreExpected
<1>5. /\ Logical(p)' = Logical(p) /\ RestoreExpected(latest, p)' = RestoreExpected(latest, p)
      /\ Original(receipt, p)' = Original(receipt, p)
      /\ (latest # Absent => Logical(p) \in RestoreExpected(latest, p))
  BY <1>1 DEF QuietAt, Calm, Forward, Logical, RestoreExpected, Original
<1> HIDE DEF Original
<1> QED BY <1>1, <1>2, <1>3, <1>4, <1>5 DEF QuietAt, Undone, Forward

\* Save.
LEMMA SaveQuiet ==
  ASSUME TypeInv, JournalInv, NEW p \in Paths, QuietAt(p), Save PROVE QuietAt(p)'
<1>1. /\ mem \in Journal /\ mem # Absent /\ pc = "save" /\ receipt # None
      /\ job \in Forward \cup {"compensate"} /\ mem.orig[p] = user[p]
      /\ Logical(p) \in RestoreExpected(mem, p)
      /\ UNCHANGED <<file, quar, user, receipt>> /\ Logical(p)' = Logical(p)
  BY DEF Save, TypeInv, TypeOK, disk, QuietAt, Logical
<1> DEFINE j == [mem EXCEPT !.gen = @ + 1]
<1>2. j.orig = mem.orig /\ j.man = mem.man /\ j.pend = mem.pend /\ j.phase = mem.phase
  BY <1>1 DEF Journal
<1>3. \/ UNCHANGED <<jrn, latest>> /\ SaveFailed
      \/ jrn' = [jrn EXCEPT !["bak"] = j] /\ latest' = j
           /\ \/ SaveFailed
              \/ mem' = j /\ pc' = "save_main" /\ UNCHANGED job
  BY DEF Save, Goto
<1> HIDE DEF j
<1>4. RestoreExpected(j, p) = RestoreExpected(mem, p)
  BY <1>2 DEF RestoreExpected
<1>5. \/ UNCHANGED <<jrn, latest>>
      \/ latest' = j /\ \A x \in Copies : jrn'[x] \in {jrn[x], j}
  BY <1>3 DEF TypeInv, TypeOK
<1>6. /\ \A x \in Copies : jrn'[x] # Absent => jrn'[x].orig[p] = user[p]
      /\ Calm /\ latest' # Absent => Logical(p)' \in RestoreExpected(latest, p)'
  <2>1. CASE UNCHANGED <<jrn, latest>>
    BY <1>1, <2>1 DEF QuietAt, RestoreExpected
  <2>2. CASE latest' = j /\ \A x \in Copies : jrn'[x] \in {jrn[x], j}
    <3>1. RestoreExpected(latest, p)' = RestoreExpected(j, p)
      BY <2>2 DEF RestoreExpected
    <3> QED BY <1>1, <1>2, <1>4, <2>2, <3>1 DEF QuietAt
  <2> QED BY <1>5, <2>1, <2>2
<1>7. Original(receipt, p)' = Original(receipt, p)
  BY <1>1 DEF Original
<1>8. CASE SaveFailed
  <2>1. \/ pc' = "idle" /\ job' = "none" /\ mem' = Absent
        \/ pc' \in {"restore", "failed"} /\ job \in Forward /\ UNCHANGED <<job, mem>>
             /\ (pc' = "restore" => job # "restore")
    BY <1>1, <1>8 DEF SaveFailed, FailTo, Exit, Goto, memory, TypeInv
  <2>2. Calm' => Calm
    BY <1>1, <2>1 DEF Calm, Forward
  <2> HIDE DEF Original
  <2> QED BY <1>1, <1>6, <1>7, <2>1, <2>2 DEF QuietAt, Undone, Forward
<1>9. CASE mem' = j /\ pc' = "save_main" /\ UNCHANGED job
  <2>1. Calm' => Calm
    BY <1>1, <1>9 DEF Calm
  <2>2. RestoreExpected(mem, p)' = RestoreExpected(j, p)
    BY <1>9 DEF RestoreExpected
  <2>3. Undone(p)' => Undone(p)
    BY <1>1, <1>9 DEF Undone
  <2> HIDE DEF Original
  <2> QED BY <1>1, <1>2, <1>4, <1>6, <1>7, <1>9, <2>1, <2>2, <2>3 DEF QuietAt, Forward
<1> QED BY <1>3, <1>8, <1>9

\* SaveMain.
LEMMA SaveMainQuiet ==
  ASSUME TypeInv, JournalInv, NEW p \in Paths, QuietAt(p), SaveMain PROVE QuietAt(p)'
<1>1. /\ mem \in Journal /\ mem # Absent /\ pc = "save_main" /\ receipt # None
      /\ job \in Forward \cup {"compensate"} /\ mem.orig[p] = user[p] /\ jrn["bak"] = mem
      /\ Logical(p) \in RestoreExpected(mem, p)
      /\ UNCHANGED <<file, quar, user, receipt, latest>> /\ Logical(p)' = Logical(p)
  BY DEF SaveMain, TypeInv, TypeOK, disk, QuietAt, Logical, JournalInv
<1>2. latest = mem
  <2>1. mem.gen \in Nat /\ (jrn["main"] # Absent => jrn["main"].gen \in Nat)
    BY <1>1, BoundAssumption DEF Journal, Copies, TypeInv, TypeOK
  <2> QED BY <1>1, <2>1 DEF JournalInv, Loaded, Both
<1>3. \A x \in Copies : jrn'[x] # Absent => jrn'[x].orig[p] = user[p]
  <2>1. \A x \in Copies : jrn'[x] \in {jrn[x], mem}
    BY DEF SaveMain, TypeInv, TypeOK
  <2> QED BY <1>1, <2>1 DEF QuietAt
<1>4. Original(receipt, p)' = Original(receipt, p)
      /\ RestoreExpected(latest, p)' = RestoreExpected(mem, p)
  BY <1>1, <1>2 DEF Original, RestoreExpected
<1>5. CASE SaveFailed
  <2>1. \/ pc' = "idle" /\ job' = "none" /\ mem' = Absent
        \/ pc' \in {"restore", "failed"} /\ job \in Forward /\ UNCHANGED <<job, mem>>
             /\ (pc' = "restore" => job # "restore")
    BY <1>1, <1>5 DEF SaveFailed, FailTo, Exit, Goto, memory, TypeInv
  <2> HIDE DEF Original
  <2> QED BY <1>1, <1>3, <1>4, <2>1 DEF QuietAt, Undone, Forward
<1>6. CASE job = "compensate" /\ pc' = "close" /\ UNCHANGED memory
  <2>1. /\ receipt.before # Absent /\ mem = [receipt.before EXCEPT !.gen = mem.gen]
    BY <1>1, <1>6 DEF TypeInv
  <2>2. /\ receipt.before \in Journal /\ receipt.before.phase = "active"
        /\ receipt.files[p] = receipt.before.man
    BY <1>1, <2>1 DEF TypeInv, TypeOK, Receipt
  <2>3. mem.phase = "active" /\ mem.man = receipt.files[p]
    BY <1>1, <2>1, <2>2 DEF Journal
  <2>4. file[p] = receipt.files[p] /\ quar[p] = Absent
    BY <1>1, <1>6 DEF QuietAt, Undone
  <2>5. Settled(p)'
    BY <1>1, <1>2, <2>3, <2>4 DEF Settled
  <2> HIDE DEF Original
  <2> QED BY <1>1, <1>3, <1>4, <1>6, <2>4, <2>5 DEF QuietAt, memory, Forward
<1>7. CASE job \in Forward /\ pc' = "check" /\ UNCHANGED memory
  <2> HIDE DEF Original
  <2> QED BY <1>1, <1>3, <1>4, <1>7 DEF QuietAt, Undone, memory, Forward
<1>8. CASE job \in Forward /\ pc' = "done" /\ mem.phase = "active" /\ UNCHANGED memory
  <2>1. Settled(p)'
    BY <1>1, <1>2, <1>8 DEF QuietAt, Settled
  <2> HIDE DEF Original
  <2> QED BY <1>1, <1>3, <1>4, <1>8, <2>1 DEF QuietAt, Undone, memory, Forward
<1>9. CASE job \in Forward /\ pc' = "undo" /\ mem.phase = "restoring" /\ UNCHANGED memory
  <2>1. todo' = Paths
    BY <1>1, <1>9 DEF TypeInv, memory
  <2> HIDE DEF Original
  <2> QED BY <1>1, <1>3, <1>4, <1>9, <2>1 DEF QuietAt, Undone, memory, Forward
<1>10. mem.phase \in {"prepared", "active", "restoring"}
  BY <1>1 DEF Journal
<1> QED BY <1>1, <1>5, <1>6, <1>7, <1>8, <1>9, <1>10 DEF SaveMain, AfterSave, Goto, Forward

\* Restore.
LEMMA RestoreQuiet ==
  ASSUME TypeInv, JournalInv, NEW p \in Paths, QuietAt(p), Restore PROVE QuietAt(p)'
<1>1. /\ pc = "restore" /\ job \in Forward /\ receipt # None /\ Loaded = latest
      /\ UNCHANGED <<file, quar, user, jrn, latest, receipt, job>>
      /\ Logical(p)' = Logical(p)
      /\ latest # Absent => Logical(p) \in RestoreExpected(latest, p)
  BY DEF Restore, ReadFault, disk, memory, TypeInv, JournalInv, QuietAt, Calm, Logical
<1>2. CASE pc' \in {"done", "failed"} /\ mem' = mem /\ (pc' = "done" => job = "restore")
  <2>1. pc' = "done" => Settled(p)'
    BY <1>1, <1>2 DEF QuietAt, Settled
  <2> QED BY <1>1, <1>2, <2>1, QuietLeaves DEF Forward
<1>3. CASE /\ latest # Absent /\ mem' = Released(latest) /\ todo' = Paths
           /\ pc' \in {"save", "undo"}
  <2>1. latest \in Journal /\ \E x \in Copies : latest = jrn[x]
    BY <1>1, <1>3 DEF TypeInv, TypeOK, Loaded, Both, Copies
  <2>2. /\ mem'.phase = "restoring" /\ mem'.man = latest.man /\ mem'.pend = latest.pend
        /\ mem'.orig[p] = latest.orig[p] /\ latest.orig[p] = user[p]
    BY <1>1, <1>3, <2>1 DEF Released, Journal, QuietAt
  <2>3. RestoreExpected(mem, p)' = RestoreExpected(latest, p)
    BY <2>2 DEF RestoreExpected
  <2>4. Original(receipt, p)' = Original(receipt, p)
        /\ RestoreExpected(latest, p)' = RestoreExpected(latest, p)
    BY <1>1 DEF Original, RestoreExpected
  <2> HIDE DEF Original, Released
  <2> QED BY <1>1, <1>3, <2>2, <2>3, <2>4 DEF QuietAt, Undone, Forward
<1> QED BY <1>1, <1>2, <1>3 DEF Restore, ReadFault, Restored, Goto, memory

\* A swap nobody disturbs leaves the history alone.
LEMMA SwapUndisturbed ==
  ASSUME TypeInv, NEW want, NEW ok, NEW l, SwapCases(want, ok, l), edits' = 0, NEW p \in Paths
  PROVE  /\ user'[p] = user[p]
         /\ p # Turn => file'[p] = file[p] /\ quar'[p] = quar[p]
         /\ \/ Logical(p)' = Logical(p)
            \/ p = Turn /\ Logical(p)' = want
         /\ \/ Exit \/ Halt(l)
            \/ /\ p = Turn => file'[p] = want /\ quar'[p] = Absent /\ Logical(p)' = want
               /\ todo' = todo \ {Turn} /\ UNCHANGED <<job, expected, mem>>
               /\ pc' = IF todo = {Turn} THEN ok ELSE pc
<1>1. ~TakenOver
  BY DEF TakenOver, TypeInv
<1>2. user' = user
  BY <1>1 DEF SwapCases, Moved
<1>3. \/ Exit \/ Halt(l)
      \/ /\ file'[Turn] = want /\ quar'[Turn] = Absent
         /\ todo' = todo \ {Turn} /\ UNCHANGED <<job, expected, mem>>
         /\ pc' = IF todo = {Turn} THEN ok ELSE pc
  BY DEF SwapCases
<1>4. p # Turn => file'[p] = file[p] /\ quar'[p] = quar[p]
  BY DEF SwapCases
<1>5. p = Turn => Logical(p)' = Logical(p) \/ Logical(p)' = want
  BY <1>1 DEF SwapCases, Moved, Legal, Held, Logical
<1>6. p # Turn => Logical(p)' = Logical(p)
  BY <1>4 DEF Logical
<1>7. file'[p] = want /\ quar'[p] = Absent => Logical(p)' = want
  BY DEF Logical
<1> HIDE DEF Turn
<1> QED BY <1>2, <1>3, <1>4, <1>5, <1>6, <1>7

\* Write and Undo: the paths that are done hold what was wanted.
LEMMA ForwardSwapQuiet ==
  ASSUME TypeInv, JournalInv, NEW p \in Paths, QuietAt(p), edits' = 0,
         \/ Write \/ Undo
  PROVE  QuietAt(p)'
<1> DEFINE want == IF pc = "write" THEN mem.pend ELSE mem.orig[Turn]
           ok == IF pc = "write" THEN "written" ELSE "drop"
           l == IF pc = "write" THEN "restore" ELSE "failed"
<1>1. SwapCases(want, ok, l)
  <2>1. Write => pc = "write"
    BY DEF Write
  <2>2. Undo => pc = "undo"
    BY DEF Undo
  <2> QED BY <2>1, <2>2, WriteSwaps, UndoSwaps
<1>2. /\ pc \in {"write", "undo"} /\ job \in Forward /\ receipt # None
      /\ pc = "write" => job = "apply" /\ mem.phase = "prepared" /\ mem.pend \in Proxies
      /\ mem = latest /\ mem # Absent /\ mem \in Journal /\ mem.orig[p] = user[p]
      /\ UNCHANGED <<jrn, latest, receipt>>
  BY DEF Write, Undo, TypeInv, TypeOK, JournalInv, QuietAt, Forward
<1>3. p = Turn => want = (IF pc = "write" THEN mem.pend ELSE user[p]) /\ want \in RestoreExpected(mem, p)
  BY <1>2, ContentAssumption DEF RestoreExpected
<1> HIDE DEF want, ok, l
<1>4. /\ user'[p] = user[p]
      /\ p # Turn => file'[p] = file[p] /\ quar'[p] = quar[p]
      /\ \/ Logical(p)' = Logical(p)
         \/ p = Turn /\ Logical(p)' = want
      /\ \/ Exit \/ Halt(l)
         \/ /\ p = Turn => file'[p] = want /\ quar'[p] = Absent /\ Logical(p)' = want
            /\ todo' = todo \ {Turn} /\ UNCHANGED <<job, expected, mem>>
            /\ pc' = IF todo = {Turn} THEN ok ELSE pc
  BY <1>1, SwapUndisturbed
<1>5. Logical(p)' \in RestoreExpected(latest, p)
  BY <1>2, <1>3, <1>4 DEF QuietAt, Calm
<1>6. CASE Exit
  BY <1>2, <1>4, <1>6, ExitQuiet
<1>7. CASE Halt(l)
  <2>1. /\ pc' = l /\ UNCHANGED memory /\ l \in {"restore", "failed"}
        /\ l = "restore" => pc = "write"
    BY <1>7 DEF Halt, FailTo, Goto, l
  <2> QED BY <1>2, <1>4, <1>5, <2>1, QuietLeaves DEF memory, Forward
<1>8. CASE /\ p = Turn => file'[p] = want /\ quar'[p] = Absent /\ Logical(p)' = want
           /\ todo' = todo \ {Turn} /\ UNCHANGED <<job, expected, mem>>
           /\ pc' = IF todo = {Turn} THEN ok ELSE pc
  <2>1. /\ pc = "write" => pc' \in {"write", "written"}
        /\ pc = "undo" => pc' \in {"undo", "drop"}
        /\ pc' \in {"written", "drop"} => p \notin todo'
    BY <1>2, <1>8 DEF ok
  <2>2. /\ pc = "write" /\ p \notin todo' => file'[p] = mem'.pend /\ quar'[p] = Absent
        /\ pc = "undo" /\ p \notin todo' => file'[p] = user'[p] /\ quar'[p] = Absent
    BY <1>2, <1>3, <1>4, <1>8 DEF QuietAt
  <2>3. Original(receipt, p)' = Original(receipt, p)
        /\ RestoreExpected(latest, p)' = RestoreExpected(latest, p)
    BY <1>2 DEF Original, RestoreExpected
  <2> HIDE DEF Original
  <2> QED BY <1>2, <1>4, <1>5, <1>8, <2>1, <2>2, <2>3 DEF QuietAt, Undone, Forward
<1> QED BY <1>4, <1>6, <1>7, <1>8

\* A compensation that goes on: the paths it has dealt with are as the receipt says, and
\* when it is done the system is settled again.
LEMMA CompensatingQuiet ==
  ASSUME TypeInv, NEW p \in Paths, QuietAt(p), job = "compensate", receipt # None,
         UNCHANGED <<jrn, latest, receipt, job>>, user'[p] = user[p],
         pc' \in {"comp_write", "save", "drop", "close"},
         mem' # Absent => receipt.before # Absent /\ mem' = [receipt.before EXCEPT !.gen = mem'.gen],
         Undone(p)' => file'[p] = receipt.files[p] /\ quar'[p] = Absent,
         pc' = "close" =>
           IF receipt.before = Absent THEN latest = Absent
           ELSE latest # Absent /\ latest = [receipt.before EXCEPT !.gen = latest.gen],
         pc' = "save" => mem' # Absent
  PROVE  QuietAt(p)'
<1>1. Original(receipt, p)' = Original(receipt, p) /\ Original(receipt, p) = user[p]
  BY DEF Original, QuietAt
<1>2. receipt.before # Absent =>
        /\ receipt.before \in Journal /\ receipt.before.orig[p] = user[p]
        /\ receipt.files[p] = receipt.before.man /\ receipt.before.man \in Proxies
        /\ receipt.before.phase = "active"
  BY <1>1 DEF TypeInv, TypeOK, Receipt, Sound, Original
<1>3. mem' # Absent => mem'.orig[p] = user[p] /\ mem'.man = receipt.files[p] /\ mem'.man # Absent
  BY <1>2, ContentAssumption DEF Journal
<1>4. pc' = "save" => Logical(p)' \in RestoreExpected(mem, p)'
  <2>1. pc' = "save" => file'[p] = receipt.files[p]
    BY DEF Undone
  <2> QED BY <1>3, <2>1 DEF RestoreExpected, Logical
<1>5. pc' = "close" => Settled(p)' /\ (latest # Absent => Logical(p)' \in RestoreExpected(latest, p)')
  <2> SUFFICES ASSUME pc' = "close"
               PROVE  Settled(p)' /\ (latest # Absent => Logical(p)' \in RestoreExpected(latest, p)')
    OBVIOUS
  <2>1. file'[p] = receipt.files[p] /\ quar'[p] = Absent
    BY DEF Undone
  <2>2. CASE receipt.before = Absent
    BY <1>1, <2>1, <2>2 DEF Settled, Original
  <2>3. CASE receipt.before # Absent
    <3>1. /\ latest.phase = "active" /\ latest.orig[p] = user[p]
          /\ latest.man = receipt.files[p] /\ latest.man # Absent
      BY <1>2, <2>3, ContentAssumption DEF Journal
    <3>2. Settled(p)'
      BY <2>1, <2>3, <3>1 DEF Settled
    <3>3. Logical(p)' = latest'.man /\ latest'.man # Absent
      BY <2>1, <3>1 DEF Logical
    <3> QED BY <3>2, <3>3 DEF RestoreExpected
  <2> QED BY <2>2, <2>3
<1>6. Calm' <=> pc' = "close"
  BY DEF Calm, Forward
<1> HIDE DEF Original
<1> QED BY <1>1, <1>3, <1>4, <1>5, <1>6 DEF QuietAt, Forward

\* Compensate.
LEMMA CompensateQuiet ==
  ASSUME TypeInv, JournalInv, NEW p \in Paths, QuietAt(p), Compensate PROVE QuietAt(p)'
<1>1. /\ receipt # None /\ receipt \in Receipt /\ pc = "comp" /\ job = "compensate"
      /\ Loaded = latest /\ latest \in Journal \cup {Absent}
      /\ UNCHANGED <<file, quar, user, jrn, latest, receipt>>
  BY DEF Compensate, TypeInv, TypeOK, JournalInv, disk
<1>2. CASE Exit
  BY <1>1, <1>2, ExitQuiet
<1>3. CASE /\ UNCHANGED job /\ todo' = Pending(receipt)
           /\ mem' = (IF receipt.before = Absent THEN Absent
                      ELSE [receipt.before EXCEPT !.gen = Floor(receipt)])
           /\ pc' = (IF Pending(receipt) # {} THEN "comp_write" ELSE JournalNext(receipt, FALSE))
  <2>1. pc' \in {"comp_write", "save", "drop", "close"}
    BY <1>3 DEF JournalNext
  <2>2. Undone(p)' => file'[p] = receipt.files[p] /\ quar'[p] = Absent
    BY <1>1, <1>3 DEF Undone, Pending, Logical
  <2>3. pc' = "close" =>
           IF receipt.before = Absent THEN latest = Absent
           ELSE latest # Absent /\ latest = [receipt.before EXCEPT !.gen = latest.gen]
    <3>1. CASE receipt.before = Absent
      BY <1>1, <1>3, <3>1 DEF JournalNext
    <3>2. CASE receipt.before # Absent /\ pc' = "close"
      <4>1. latest # Absent /\ [latest EXCEPT !.gen = receipt.before.gen] = receipt.before
        BY <1>1, <1>3, <3>2 DEF JournalNext
      <4>2. latest \in Journal /\ receipt.before \in Journal
        BY <1>1, <3>2, <4>1 DEF Receipt
      <4>3. latest = [receipt.before EXCEPT !.gen = latest.gen]
        BY <4>1, <4>2 DEF Journal
      <4> QED BY <3>2, <4>1, <4>3
    <3> QED BY <3>1, <3>2
  <2>4. TypeInv'
    BY CompensateType
  <2>5. pc' = "save" => mem' # Absent
    BY <2>4 DEF TypeInv
  <2>6. mem' # Absent => receipt.before # Absent /\ mem' = [receipt.before EXCEPT !.gen = mem'.gen]
    BY <1>1, <1>3 DEF Receipt, Journal
  <2> QED BY <1>1, <1>3, <2>1, <2>2, <2>3, <2>5, <2>6, CompensatingQuiet
<1> QED BY <1>2, <1>3 DEF Compensate, Goto

\* CompWrite.
LEMMA CompWriteQuiet ==
  ASSUME TypeInv, JournalInv, NEW p \in Paths, QuietAt(p), edits' = 0, CompWrite
  PROVE  QuietAt(p)'
<1>1. /\ pc = "comp_write" /\ job = "compensate" /\ receipt # None /\ Loaded = latest
      /\ UNCHANGED <<jrn, latest, receipt>>
      /\ IF receipt.before = Absent THEN mem = Absent
         ELSE mem # Absent /\ mem = [receipt.before EXCEPT !.gen = mem.gen]
  BY DEF CompWrite, TypeInv, JournalInv
<1>2. /\ user'[p] = user[p]
      /\ p # Turn => file'[p] = file[p] /\ quar'[p] = quar[p]
      /\ \/ Exit \/ Halt("idle")
         \/ /\ p = Turn => file'[p] = receipt.files[p] /\ quar'[p] = Absent
            /\ todo' = todo \ {Turn} /\ UNCHANGED <<job, mem>>
            /\ pc' = IF todo = {Turn} THEN JournalNext(receipt, TRUE) ELSE pc
  <2> DEFINE want == receipt.files[Turn]
             next == JournalNext(receipt, TRUE)
  <2>1. SwapCases(want, next, "idle")
    BY CompWriteSwaps
  <2>2. p = Turn => want = receipt.files[p]
    OBVIOUS
  <2> HIDE DEF want
  <2>3. /\ user'[p] = user[p]
        /\ p # Turn => file'[p] = file[p] /\ quar'[p] = quar[p]
        /\ \/ Exit \/ Halt("idle")
           \/ /\ p = Turn => file'[p] = want /\ quar'[p] = Absent
              /\ todo' = todo \ {Turn} /\ UNCHANGED <<job, mem>>
              /\ pc' = IF todo = {Turn} THEN next ELSE pc
    BY <2>1, SwapUndisturbed
  <2> QED BY <2>2, <2>3
<1>3. CASE Exit \/ Halt("idle")
  BY <1>1, <1>2, <1>3, ExitQuiet DEF Halt
<1>4. CASE /\ p = Turn => file'[p] = receipt.files[p] /\ quar'[p] = Absent
           /\ todo' = todo \ {Turn} /\ UNCHANGED <<job, mem>>
           /\ pc' = IF todo = {Turn} THEN JournalNext(receipt, TRUE) ELSE pc
  <2>1. /\ pc' \in {"comp_write", "save", "drop", "close"}
        /\ pc' = "close" => receipt.before = Absent /\ latest = Absent
        /\ pc' = "save" => receipt.before # Absent
    BY <1>1, <1>4 DEF JournalNext
  <2>2. Undone(p)' => p = Turn \/ Undone(p)
    <3>1. Undone(p)' => p \notin todo'
      BY <1>1, <1>4 DEF Undone
    <3> QED BY <1>1, <1>4, <3>1 DEF Undone
  <2>3. Undone(p)' => file'[p] = receipt.files[p] /\ quar'[p] = Absent
    BY <1>2, <1>4, <2>2 DEF QuietAt
  <2> QED BY <1>1, <1>2, <1>4, <2>1, <2>3, CompensatingQuiet
<1> QED BY <1>2, <1>3, <1>4

\* Drop.
LEMMA DropQuiet ==
  ASSUME TypeInv, NEW p \in Paths, QuietAt(p), Drop PROVE QuietAt(p)'
<1>1. /\ pc = "drop" /\ receipt # None /\ job \in Forward \cup {"compensate"}
      /\ UNCHANGED <<file, quar, user, receipt>>
      /\ job = "compensate" => receipt.before = Absent
  BY DEF Drop, TypeInv, disk
<1>2. file[p] = user[p] /\ quar[p] = Absent
  <2>1. CASE job \in Forward
    BY <1>1, <2>1 DEF QuietAt
  <2>2. CASE job = "compensate"
    BY <1>1, <2>2 DEF QuietAt, Undone, Original
  <2> QED BY <1>1, <2>1, <2>2
<1>3. \A x \in Copies : jrn'[x] \in {jrn[x], Absent}
  BY DEF Drop
<1>4. /\ \A x \in Copies : jrn'[x] # Absent => jrn'[x].orig[p] = user[p]
      /\ latest' # Absent => latest'.orig[p] = user[p]
  <2>1. \A x \in Copies : jrn'[x] # Absent => jrn'[x].orig[p] = user[p]
    BY <1>3 DEF QuietAt
  <2>2. latest' = Absent \/ \E x \in Copies : latest' = jrn'[x]
    BY DEF Drop, Loaded, Copies
  <2> QED BY <2>1, <2>2
<1>5. latest' # Absent => Logical(p)' \in RestoreExpected(latest, p)'
  BY <1>1, <1>2, <1>4 DEF Logical, RestoreExpected
<1>6. Original(receipt, p)' = Original(receipt, p)
  BY <1>1 DEF Original
<1>7. CASE pc' = "close" /\ job = "compensate" /\ latest' = Absent /\ UNCHANGED memory
  <2>1. Settled(p)' /\ Undone(p)
    BY <1>1, <1>2, <1>7 DEF Settled, Undone
  <2> HIDE DEF Original
  <2> QED BY <1>1, <1>4, <1>5, <1>6, <1>7, <2>1 DEF QuietAt, memory, Forward
<1>8. CASE job \in Forward /\ pc' = "done" /\ latest' = Absent /\ UNCHANGED memory
  <2>1. Settled(p)'
    BY <1>1, <1>2, <1>8 DEF Settled
  <2> HIDE DEF Original
  <2> QED BY <1>1, <1>4, <1>5, <1>6, <1>8, <2>1 DEF QuietAt, Undone, memory, Forward
<1>9. CASE \/ pc' = "idle" /\ job' = "none" /\ mem' = Absent
           \/ pc' = "failed" /\ job \in Forward /\ UNCHANGED memory
  <2> HIDE DEF Original
  <2> QED BY <1>1, <1>4, <1>5, <1>6, <1>9 DEF QuietAt, Undone, memory, Forward
<1> QED BY <1>1, <1>7, <1>8, <1>9 DEF Drop, Restored, FailTo, Exit, Goto, Forward

\* The transaction around the step, and a kill.
LEMMA OtherQuiet ==
  ASSUME TypeInv, JournalInv, NEW p \in Paths, QuietAt(p),
         Commit \/ Fail \/ Recover \/ Close \/ Crash
  PROVE  QuietAt(p)'
<1>1. /\ UNCHANGED <<file, quar, user, jrn, latest>> /\ Logical(p)' = Logical(p)
      /\ receipt' \in {receipt, None} /\ mem' \in {mem, Absent}
  BY DEF Commit, Fail, Recover, Close, Crash, Exit, disk, Logical
<1>2. CASE Commit \/ Close
  <2>1. Settled(p)
    BY <1>2 DEF Commit, Close, QuietAt
  <2>2. Settled(p)' /\ (latest # Absent => Logical(p)' \in RestoreExpected(latest, p))
    BY <1>1, <2>1, SettledHolds DEF Settled
  <2>3. pc' = "idle" /\ job' = "none"
    BY <1>2 DEF Commit, Close, Exit, Goto
  <2> QED BY <1>1, <2>2, <2>3, QuietLeaves
<1>3. CASE Fail \/ Recover \/ Crash
  <2>1. receipt' # None
    BY <1>3 DEF Fail, Recover, Crash, TypeInv
  <2>2. \/ pc' = "idle" /\ job' = "none"
        \/ pc' = "comp" /\ job' = "compensate"
    BY <1>3 DEF Fail, Recover, Crash, Exit, Goto
  <2>3. ~Calm'
    BY <2>1, <2>2 DEF Calm, Forward
  <2> QED BY <1>1, <2>1, <2>2, <2>3, QuietLeaves
<1> QED BY <1>2, <1>3

\* Every step of a system nobody edits keeps the invariant.
LEMMA NextQuiet == TypeInv /\ JournalInv /\ QuietInv /\ [Next]_vars => QuietInv'
<1> SUFFICES ASSUME TypeInv, JournalInv, QuietInv, [Next]_vars, edits' = 0, NEW p \in Paths
             PROVE  QuietAt(p)'
  BY DEF QuietInv
<1>1. edits \in Nat
  BY DEF TypeInv
<1>2. \A x \in Paths, c \in Admin \cup {Absent} : ~Edit(x, c)
  BY <1>1 DEF Edit
<1>3. edits = 0
  <2>1. CASE UNCHANGED vars
    BY <2>1 DEF vars
  <2>2. CASE Write \/ Undo \/ CompWrite
    <3>1. \E want, ok, l : SwapCases(want, ok, l)
      BY <2>2, WriteSwaps, UndoSwaps, CompWriteSwaps
    <3>2. edits' \in {edits, edits + 1}
      BY <3>1 DEF SwapCases, Moved, TakenOver
    <3> QED BY <1>1, <3>2
  <2>3. CASE \/ \E want \in Owned : Begin(want)
             \/ Prepare \/ Save \/ SaveMain \/ Check \/ Written \/ Restore \/ Drop
             \/ Commit \/ Fail \/ Recover \/ Compensate \/ Close \/ Crash
    BY <2>3 DEF Begin, Prepare, Save, SaveMain, Check, Written, Restore, Drop, Commit, Fail,
       Recover, Compensate, Close, Crash
  <2> QED BY <1>2, <2>1, <2>2, <2>3 DEF Next, Process
<1>4. QuietAt(p)
  BY <1>3 DEF QuietInv
<1>5. CASE UNCHANGED vars
  BY <1>4, <1>5
  DEF vars, disk, memory, QuietAt, Calm, Undone, RestoreExpected, Original, Logical, Settled
<1>6. CASE Next
  BY <1>2, <1>4, <1>6, BeginQuiet, PrepareQuiet, SaveQuiet, SaveMainQuiet, CheckQuiet,
     ForwardSwapQuiet, WrittenQuiet, RestoreQuiet, DropQuiet, CompensateQuiet, CompWriteQuiet,
     OtherQuiet
  DEF Next, Process
<1> QED BY <1>5, <1>6

\* The invariant of a system nobody edits.
LEMMA QuietInvariant == Spec => [](TypeInv /\ JournalInv /\ OriginInv /\ QuietInv)
BY OriginInvariant, InitQuiet, NextQuiet, PTL DEF Spec

\* Between transactions the scene is off with the administrator's files, or on with both
\* files managed and their originals in an active journal: no failure and no kill leaves
\* it half applied (applyGlobalWithJournal, restoreGlobalWithJournal).
THEOREM RestIsWhole == Spec => []SettledIsWhole
<1>1. TypeInv /\ JournalInv /\ QuietInv => SettledIsWhole
  <2> SUFFICES ASSUME TypeInv, JournalInv, QuietInv, receipt = None, edits = 0
      PROVE /\ quar = [p \in Paths |-> Absent]
            /\ IF Loaded = Absent THEN file = user
               ELSE /\ Loaded.phase = "active" /\ Loaded.orig = user
                    /\ file = [p \in Paths |-> Loaded.man]
    BY DEF SettledIsWhole
  <2>1. \A p \in Paths : Settled(p)
    BY DEF QuietInv, QuietAt
  <2>2. /\ quar \in [Paths -> States] /\ file \in [Paths -> States]
        /\ user \in [Paths -> Admin \cup {Absent}] /\ Loaded = latest
    BY DEF TypeInv, TypeOK, JournalInv
  <2>3. CASE latest = Absent
    BY <2>1, <2>2, <2>3 DEF Settled
  <2>4. CASE latest # Absent
    <3>1. latest \in Journal
      BY <2>4 DEF TypeInv, TypeOK
    <3>2. latest.orig \in [Paths -> States] /\ "apt" \in Paths
      BY <3>1 DEF Journal, Paths
    <3>3. \A p \in Paths : /\ quar[p] = Absent /\ latest.phase = "active"
                           /\ latest.orig[p] = user[p] /\ file[p] = latest.man
      BY <2>1, <2>4 DEF Settled
    <3>4. latest.orig = user
      BY <2>2, <3>2, <3>3
    <3> QED BY <2>2, <2>4, <3>2, <3>3, <3>4
  <2> QED BY <2>3, <2>4
<1> QED BY QuietInvariant, <1>1, PTL

\* A compensation that is complete has changed nothing: both files, and the journal but
\* for its generation, are what they were when the transaction began
\* (compensateRuntimeGlobal).
THEOREM CompensationIsExact == Spec => UndoIsExact
<1>1. TypeInv /\ JournalInv /\ OriginInv /\ QuietInv /\ [Next]_vars =>
        (pc = "close" /\ edits' = 0 =>
           /\ file' = receipt.files
           /\ IF receipt.before = Absent THEN Loaded' = Absent
              ELSE Loaded' = [receipt.before EXCEPT !.gen = Loaded'.gen])
  <2> SUFFICES ASSUME TypeInv, JournalInv, OriginInv, QuietInv, [Next]_vars, pc = "close", edits' = 0
      PROVE /\ file' = receipt.files
            /\ IF receipt.before = Absent THEN Loaded' = Absent
               ELSE Loaded' = [receipt.before EXCEPT !.gen = Loaded'.gen]
    OBVIOUS
  <2>1. edits = 0 /\ UNCHANGED <<file, jrn>>
    <3>1. edits \in Nat
      BY DEF TypeInv
    <3>2. \A x \in Paths, c \in Admin \cup {Absent} : ~Edit(x, c)
      BY <3>1 DEF Edit
    <3>3. CASE UNCHANGED vars
      BY <3>3 DEF vars, disk
    <3>4. CASE Close \/ Crash
      BY <3>4 DEF Close, Crash, disk
    <3> QED BY <3>2, <3>3, <3>4 DEF Next, Process, Begin, Prepare, Save, SaveMain, Check, Write,
            Written, Restore, Undo, Drop, Commit, Fail, Recover, Compensate, CompWrite
  <2>2. Loaded' = latest /\ receipt # None /\ receipt \in Receipt
    BY <2>1 DEF JournalInv, Loaded, Both, TypeInv, TypeOK
  <2>3. IF receipt.before = Absent THEN latest = Absent
        ELSE latest # Absent /\ latest = [receipt.before EXCEPT !.gen = latest.gen]
    <3>1. "apt" \in Paths
      BY DEF Paths
    <3> QED BY <3>1 DEF OriginInv, OriginAt
  <2>4. \A p \in Paths : Settled(p) /\ Original(receipt, p) = user[p]
    BY <2>1, <2>2 DEF QuietInv, QuietAt
  <2>5. \A p \in Paths : file[p] = receipt.files[p]
    <3>1. CASE receipt.before = Absent
      BY <2>3, <2>4, <3>1 DEF Settled, Original
    <3>2. CASE receipt.before # Absent
      <4>1. receipt.before \in Journal /\ \A p \in Paths : receipt.files[p] = receipt.before.man
        BY <2>2, <3>2 DEF TypeInv, Receipt
      <4>2. latest # Absent /\ latest.man = receipt.before.man
        BY <2>3, <3>2, <4>1 DEF Journal
      <4> QED BY <2>4, <4>1, <4>2 DEF Settled
    <3> QED BY <3>1, <3>2
  <2>6. file = receipt.files
    BY <2>2, <2>5 DEF TypeInv, TypeOK, Receipt
  <2> QED BY <2>1, <2>2, <2>3, <2>6
<1> QED BY QuietInvariant, <1>1, PTL DEF Spec, UndoIsExact

-----------------------------------------------------------------------------
(***************************************************************************)
(* The compare-and-swap.  The argument is one inductive invariant: where a *)
(* call is tells what its claim holds, how many attempts it has used, and  *)
(* that the final state it is about to report has been seen.               *)
(***************************************************************************)

\* Between its first look and its last step a call is within its attempts.
Working == {"read_both", "read_final", "create", "claim", "publish", "restore",
            "retire_ok", "retire_again", "retire_changed"}
AttemptInv == at \in Working => attempt \in 0..MaxAttempts

\* No claim is there once the call has looked and gone on without one.
FreeInv == at \in {"read_final", "create", "claim", "ok"} => aside = Absent

\* What is about to be retired, or already replaced, is what the call expected.
ClaimInv == at \in {"publish", "retire_ok", "retire_again", "retire_changed"}
              => aside \in call.expected

\* The target's present state has been recorded, and success rests on the record.
HeldInv == /\ target \in held
           /\ at \in {"retire_ok", "ok"} => Wanted \in held

CASInv == CASTypeOK /\ AttemptInv /\ FreeInv /\ ClaimInv /\ HeldInv

USE DEF names, history, casVars

-----------------------------------------------------------------------------
\* The initial states satisfy the invariant.
LEMMA InitInv == CASInit => CASInv
<1> SUFFICES ASSUME CASInit PROVE CASInv  OBVIOUS
<1>1. CASTypeOK
  <2>1. target \in FileStates /\ aside \in FileStates /\ held \subseteq FileStates /\ left \in Found
    BY AttemptAssumption DEF CASInit, FileStates, Found
  <2>2. 0 \in 0..(MaxAttempts + 1) /\ 0 \in 0..MaxCalls /\ 0 \in 0..MaxKills
        /\ 0 \in 0..MaxFailures /\ 0 \in 0..MaxChanges
    BY AttemptAssumption
  <2> QED BY <2>1, <2>2 DEF CASInit, CASTypeOK, Places
<1>2. AttemptInv /\ FreeInv /\ ClaimInv /\ HeldInv
  BY DEF CASInit, AttemptInv, FreeInv, ClaimInv, HeldInv, Working
<1> QED BY <1>1, <1>2 DEF CASInv

\* The steps that only read the disk and choose where to go next preserve it.
LEMMA ReadInv ==
  ASSUME CASInv, ReadClaim \/ ReadBoth \/ ReadFinal \/ ReadFails
  PROVE  CASInv'
<1> USE AttemptAssumption
    DEF CASInv, CASTypeOK, AttemptInv, FreeInv, ClaimInv, HeldInv, Places, Working, Wanted, Proceed, FailCall
<1>1. CASE ReadClaim  BY <1>1 DEF ReadClaim
<1>2. CASE ReadBoth
  <2>1. /\ at' = AfterClaim
        /\ AfterClaim \in {"restore", "changed", "retire_ok", "retire_changed", "retire_again", "publish"}
        /\ AfterClaim \notin {"restore", "changed"} => aside \in call.expected
        /\ AfterClaim = "retire_ok" => target = Wanted
    BY <1>2, CallAssumption DEF ReadBoth, AfterClaim, CallType
  <2> QED BY <1>2, <2>1 DEF ReadBoth
<1>3. CASE ReadFinal  BY <1>3 DEF ReadFinal
<1>4. CASE ReadFails  BY <1>4 DEF ReadFails
<1> QED BY <1>1, <1>2, <1>3, <1>4

\* A claim fails once or not at all.
LEMMA ClaimFaults ==
  Claim => failures' = failures \/ (failures < MaxFailures /\ failures' = failures + 1)
  BY DEF Claim, Again, FailCall

\* The renames, the publication and the retirement preserve it.
LEMMA WriteInv ==
  ASSUME CASInv, Create \/ Claim \/ Publish \/ GiveBack \/ Retire
  PROVE  CASInv'
<1> USE AttemptAssumption, CallAssumption
    DEF CASInv, CASTypeOK, AttemptInv, FreeInv, ClaimInv, HeldInv, Places, Working, Wanted,
        Proceed, FailCall, Again, SetFile, FileStates
<1>0. call.desired \in Contents  BY DEF CallType
<1>1. CASE Create   BY <1>0, <1>1 DEF Create
<1>2. CASE Claim
  <2>1. /\ target' \in FileStates /\ aside' \in FileStates /\ held' \subseteq FileStates
        /\ target' \in held' /\ held \subseteq held'
    BY <1>2 DEF Claim
  <2>2. /\ mine' \in BOOLEAN
        /\ at' \in {"read_claim", "failed"}
    BY <1>2 DEF Claim
  <2>3. attempt \in 0..MaxAttempts /\ attempt' \in {attempt, attempt + 1}
    BY <1>2 DEF Claim
  <2>4. failures' \in 0..MaxFailures
    BY <1>2, ClaimFaults
  <2> QED BY <1>2, <2>1, <2>2, <2>3, <2>4 DEF Claim
<1>3. CASE Publish  BY <1>0, <1>3 DEF Publish
<1>4. CASE GiveBack  BY <1>0, <1>4 DEF GiveBack
<1>5. CASE Retire   BY <1>0, <1>5 DEF Retire
<1> QED BY <1>1, <1>2, <1>3, <1>4, <1>5

\* Every step preserves it.
LEMMA NextInv == CASInv /\ [CASNext]_casVars => CASInv'
<1> SUFFICES ASSUME CASInv, [CASNext]_casVars PROVE CASInv'  OBVIOUS
<1> USE AttemptAssumption
    DEF CASInv, CASTypeOK, AttemptInv, FreeInv, ClaimInv, HeldInv, Places, Working, Wanted, Returned
<1>1. CASE \E c \in Calls : BeginCall(c)
  <2>1. /\ at' = "read_claim" /\ call' \in Calls /\ mine' = FALSE /\ target' \in held'
        /\ held' \subseteq FileStates /\ left' \in Found
    BY <1>1 DEF BeginCall, Found
  <2>2. attempt' \in 0..(MaxAttempts + 1) /\ calls' \in 0..MaxCalls
    BY <1>1 DEF BeginCall
  <2> QED BY <1>1, <2>1, <2>2 DEF BeginCall
<1>2. CASE Step
  BY <1>2, ReadInv, WriteInv DEF Step
<1>3. CASE KillCall
  BY <1>3 DEF KillCall
<1>4. CASE \E c \in FileStates : Rewrite(c)
  BY <1>4 DEF Rewrite, SetFile
<1>5. CASE UNCHANGED casVars
  BY <1>5
<1> QED BY <1>1, <1>2, <1>3, <1>4, <1>5 DEF CASNext

\* The invariant holds in every reachable state.
THEOREM CASInvariant == CASSpec => []CASInv
<1>1. CASInit => CASInv                     BY InitInv
<1>2. CASInv /\ [CASNext]_casVars => CASInv'   BY NextInv
<1> QED BY <1>1, <1>2, PTL DEF CASSpec

\* The state keeps its types: in particular no call makes more than its attempts.
THEOREM CASTypes == CASSpec => []CASTypeOK
<1>1. CASInv => CASTypeOK  BY DEF CASInv
<1> QED BY <1>1, CASInvariant, PTL

\* A call that reports success has made its effect visible and left no claim.
THEOREM SuccessesAreReal == CASSpec => []SuccessIsReal
<1>1. CASInv => SuccessIsReal  BY DEF CASInv, FreeInv, HeldInv, SuccessIsReal
<1> QED BY <1>1, CASInvariant, PTL

-----------------------------------------------------------------------------
\* A step of a call keeps the target and the claim, but for expected contents.
LEMMA StepKeeps ==
  ASSUME CASInv, Step
  PROVE  {target, aside} \ (call.expected \cup {Absent}) \subseteq {target', aside'}
<1> USE DEF Proceed, FailCall, Again, SetFile
<1>1. CASE ReadClaim \/ ReadBoth \/ ReadFinal \/ ReadFails
  BY <1>1 DEF ReadClaim, ReadBoth, ReadFinal, ReadFails
<1>2. CASE Create   BY <1>2 DEF Create
<1>3. CASE Claim    BY <1>3 DEF Claim
<1>4. CASE Publish  BY <1>4 DEF Publish
<1>5. CASE GiveBack  BY <1>5 DEF GiveBack
<1>6. CASE Retire   BY <1>6 DEF Retire, CASInv, ClaimInv
<1> QED BY <1>1, <1>2, <1>3, <1>4, <1>5, <1>6 DEF Step

\* No call ever loses a content it was not told to expect.
THEOREM ForeignIsKept == CASSpec => ForeignKept
<1> DEFINE KeptAside == {target, aside} \ (call.expected \cup {Absent}) \subseteq {target', aside'}
<1>1. ASSUME CASInv, [CASNext]_casVars PROVE changes' = changes => KeptAside
  <2>1. CASE \E c \in Calls : BeginCall(c)   BY <2>1 DEF BeginCall
  <2>2. CASE Step                        BY <2>2, <1>1, StepKeeps
  <2>3. CASE KillCall                       BY <2>3 DEF KillCall
  <2>4. CASE \E c \in FileStates : Rewrite(c)   BY <2>4, <1>1 DEF Rewrite, CASInv, CASTypeOK
  <2>5. CASE UNCHANGED casVars              BY <2>5
  <2> QED BY <1>1, <2>1, <2>2, <2>3, <2>4, <2>5 DEF CASNext
<1>2. CASInv /\ [CASNext]_casVars => [changes' = changes => KeptAside]_casVars  BY <1>1
<1> QED BY <1>2, CASInvariant, PTL DEF CASSpec, ForeignKept

\* No call ends, short of a failed system call or its last attempt, over a missing
\* target whose content it has put, or found, aside.
THEOREM NothingIsStranded == CASSpec => NothingStranded
<1> DEFINE Safe == at \notin Returned /\ at' \in {"ok", "changed"} /\ failures' = 0
                     => target' # Absent \/ aside' = Absent
<1>1. ASSUME CASInv, [CASNext]_casVars PROVE Safe
  <2> USE <1>1, CallAssumption, AbsentAssumption
      DEF CASInv, CASTypeOK, FreeInv, Returned, Proceed, FailCall, Again, SetFile, CallType
  <2>1. CASE \E c \in Calls : BeginCall(c)   BY <2>1 DEF BeginCall
  <2>2. CASE Step
    <3>1. CASE ReadClaim \/ ReadFails    BY <3>1 DEF ReadClaim, ReadFails
    <3>2. CASE ReadBoth                  BY <3>2 DEF ReadBoth, AfterClaim
    <3>3. CASE ReadFinal                 BY <3>3 DEF ReadFinal
    <3>4. CASE Create                    BY <3>4 DEF Create
    <3>5. CASE Claim \/ Publish          BY <3>5 DEF Claim, Publish
    <3>6. CASE GiveBack                   BY <3>6 DEF GiveBack
    <3>7. CASE Retire                    BY <3>7 DEF Retire
    <3> QED BY <2>2, <3>1, <3>2, <3>3, <3>4, <3>5, <3>6, <3>7 DEF Step
  <2>3. CASE KillCall                       BY <2>3 DEF KillCall
  <2>4. CASE \E c \in FileStates : Rewrite(c)   BY <2>4 DEF Rewrite
  <2>5. CASE UNCHANGED casVars              BY <2>5
  <2> QED BY <1>1, <2>1, <2>2, <2>3, <2>4, <2>5 DEF CASNext
<1>2. CASInv /\ [CASNext]_casVars => [Safe]_casVars  BY <1>1
<1> QED BY <1>2, CASInvariant, PTL DEF CASSpec, NothingStranded
-----------------------------------------------------------------------------
(* Where a call nobody interferes with is, as a function of what it found.  *)

\* It has changed nothing yet; what it has seen so far has led it here.
Untouched ==
  /\ target = left.target /\ aside = left.aside /\ ~mine /\ attempt = 1
  /\ at \in Working \cup {"read_claim"}
  /\ IF at \in {"read_final", "create", "claim"} THEN aside = Absent
     ELSE at = "read_claim" \/ aside # Absent
  /\ at \in {"create", "claim"} => target \in call.expected /\ target # Wanted
  /\ at \in {"create", "publish", "restore"} => target = Absent
  /\ at \in {"create", "publish"} => Wanted # Absent
  /\ at = "claim" => target # Absent
  /\ at = "restore" => aside \notin call.expected
  /\ at = "retire_ok" => target = Wanted
  /\ at = "retire_again" => target \in call.expected \ {Wanted, Absent} /\ Wanted # Absent
  /\ at = "retire_changed" =>
       target # Absent /\ (Wanted = Absent \/ target \notin call.expected \cup {Wanted})

\* The target it found is to be replaced, a leftover claim retired before.
Replaced ==
  /\ left.target \in call.expected \ {Absent, Wanted}
  /\ left.aside = Absent \/ (left.aside \in call.expected /\ Wanted # Absent)

\* The leftover claim is retired, and the second attempt under way.
Cleared ==
  /\ Replaced /\ left.aside # Absent /\ ~mine /\ attempt = 2
  /\ target = left.target /\ aside = Absent
  /\ at \in {"read_claim", "read_final", "claim"}

\* The target is claimed.
Aside ==
  /\ Replaced /\ attempt \in {2, 3}
  /\ target = Absent /\ aside = left.target
  /\ at \in {"read_claim", "read_both", "publish", "retire_ok"}
  /\ at = "publish" => Wanted # Absent
  /\ at = "retire_ok" => Wanted = Absent

\* The desired content is there, and the claim it replaces.
Swapped ==
  /\ Wanted # Absent /\ target = Wanted /\ at = "retire_ok"
  /\ \/ Replaced /\ aside = left.target
     \/ left.target = Absent /\ left.aside \in call.expected \ {Absent} /\ aside = left.aside

\* It has returned what CASOutcome says.
Ended ==
  \/ at = "failed" /\ <<target, aside>> \in Passing(left.target, left.aside, call.expected, Wanted)
  \/ at \in Returned \ {"failed"}
       /\ <<target, aside, at>> = Final(left.target, left.aside, call.expected, Wanted)

WayInv == /\ left.changes <= changes
          /\ Alone => Untouched \/ Cleared \/ Aside \/ Swapped \/ Ended

\* A call that begins has changed nothing.
LEMMA BeginWay ==
  ASSUME CASInv, NEW c \in Calls, BeginCall(c)
  PROVE  WayInv'
BY DEF BeginCall, WayInv, Untouched, CASInv, CASTypeOK, Working

\* A step of a call that has changed nothing.
LEMMA UntouchedWay ==
  ASSUME MaxAttempts >= 3, CASInv, Step, Untouched
  PROVE  (Untouched \/ Cleared \/ Aside \/ Swapped \/ Ended)'
<1> USE AttemptAssumption, CallAssumption, AbsentAssumption
    DEF CASInv, CASTypeOK, FreeInv, ClaimInv, Proceed, FailCall, Again, SetFile, Working, Untouched
<1>0. call \in CallType /\ call.desired # Absent /\ UNCHANGED <<call, left>> /\ Wanted' = Wanted
  BY DEF CallType, Step, ReadClaim, ReadBoth, ReadFinal, Create, Claim, Publish, GiveBack, Retire,
    ReadFails, Wanted
<1>1. CASE ReadClaim  BY <1>0, <1>1 DEF ReadClaim
<1>2. CASE ReadBoth
  BY <1>0, <1>2 DEF ReadBoth, AfterClaim, CallType, Wanted, Ended, Final, Returned
<1>3. CASE ReadFinal
  BY <1>0, <1>3 DEF ReadFinal, CallType, Wanted, Ended, Final, Returned
<1>4. CASE Create
  BY <1>0, <1>4 DEF Create, CallType, Wanted, Ended, Final, Passing, Returned
<1>5. CASE Claim
  BY <1>0, <1>5 DEF Claim, Aside, Replaced, Ended, Passing, Replacing
<1>6. CASE Publish
  BY <1>0, <1>6 DEF Publish, CallType, Wanted, Swapped, Ended, Passing
<1>7. CASE GiveBack
  BY <1>0, <1>7 DEF GiveBack, Ended, Final, Passing, Returned
<1>8. CASE Retire
  <2>1. CASE at' = "failed"
    <3>1. /\ target' = target /\ aside' \in {aside, Absent} /\ aside \in call.expected \ {Absent}
          /\ at \in {"retire_ok", "retire_again", "retire_changed"}
      BY <1>8, <2>1 DEF Retire
    <3>2. <<target, Absent>> \in Passing(target, aside, call.expected, Wanted)
      BY <3>1 DEF Passing, Replacing
    <3>3. <<target', aside'>> \in Passing(target, aside, call.expected, Wanted)
      BY <3>1, <3>2 DEF Passing
    <3> QED BY <1>0, <2>1, <3>3 DEF Ended
  <2>2. CASE at' = "ok"
    BY <1>0, <1>8, <2>2 DEF Retire, Ended, Final, Returned
  <2>3. CASE at' = "changed"
    BY <1>0, <1>8, <2>3 DEF Retire, Ended, Final, Returned
  <2>4. CASE at' = "read_claim"
    BY <1>0, <1>8, <2>4 DEF Retire, Cleared, Replaced
  <2> QED BY <1>8, <2>1, <2>2, <2>3, <2>4 DEF Retire
<1>9. CASE ReadFails
  BY <1>0, <1>9 DEF ReadFails, Ended, Passing
<1> QED BY <1>1, <1>2, <1>3, <1>4, <1>5, <1>6, <1>7, <1>8, <1>9 DEF Step

\* A step of a call that has begun to replace the target.
LEMMA ReplacingWay ==
  ASSUME MaxAttempts >= 3, CASInv, Step, Cleared \/ Aside \/ Swapped
  PROVE  (Untouched \/ Cleared \/ Aside \/ Swapped \/ Ended)'
<1> USE AttemptAssumption, CallAssumption, AbsentAssumption
    DEF CASInv, CASTypeOK, FreeInv, ClaimInv, Proceed, FailCall, Again, SetFile
<1>0. call \in CallType /\ call.desired # Absent /\ UNCHANGED <<call, left>> /\ Wanted' = Wanted
  BY DEF CallType, Step, ReadClaim, ReadBoth, ReadFinal, Create, Claim, Publish, GiveBack, Retire,
    ReadFails, Wanted
<1>1. CASE Cleared
  <2> USE DEF Cleared, Replaced
  <2>1. CASE ReadClaim  BY <1>0, <1>1, <2>1 DEF ReadClaim
  <2>2. CASE ReadFinal  BY <1>0, <1>1, <2>2 DEF ReadFinal
  <2>3. CASE Claim      BY <1>0, <1>1, <2>3 DEF Claim, Aside, Ended, Passing, Replacing
  <2>4. CASE ReadFails  BY <1>0, <1>1, <2>4 DEF ReadFails, Ended, Passing, Replacing
  <2> QED BY <1>1, <2>1, <2>2, <2>3, <2>4
       DEF Step, ReadBoth, Create, Publish, GiveBack, Retire
<1>2. CASE Aside
  <2> USE DEF Aside, Replaced
  <2>1. CASE ReadClaim  BY <1>0, <1>2, <2>1 DEF ReadClaim
  <2>2. CASE ReadBoth   BY <1>0, <1>2, <2>2 DEF ReadBoth, AfterClaim, CallType, Wanted
  <2>3. CASE Publish
    BY <1>0, <1>2, <2>3 DEF Publish, CallType, Wanted, Swapped, Ended, Passing, Replacing
  <2>4. CASE Retire
    BY <1>0, <1>2, <2>4 DEF Retire, Ended, Final, Passing, Replacing, Returned
  <2>5. CASE ReadFails  BY <1>0, <1>2, <2>5 DEF ReadFails, Ended, Passing, Replacing
  <2> QED BY <1>2, <2>1, <2>2, <2>3, <2>4, <2>5
       DEF Step, ReadFinal, Create, Claim, GiveBack
<1>3. CASE Swapped
  <2>1. CASE Retire
    BY <1>0, <1>3, <2>1 DEF Retire, Swapped, Replaced, Ended, Final, Passing, Replacing, Returned
  <2> QED BY <1>3, <2>1 DEF Swapped, Step, ReadClaim, ReadBoth, ReadFinal, Create, Claim,
       Publish, GiveBack, ReadFails
<1> QED BY <1>1, <1>2, <1>3

\* Every step of anybody.
LEMMA NextWay ==
  ASSUME MaxAttempts >= 3, CASInv, WayInv, [CASNext]_casVars
  PROVE  WayInv'
<1>1. CASE \E c \in Calls : BeginCall(c)  BY <1>1, BeginWay
<1>2. CASE Step
  <2>1. UNCHANGED <<left, changes>> /\ at # "idle" /\ at \notin Returned
    BY <1>2 DEF Step, ReadClaim, ReadBoth, ReadFinal, Create, Claim, Publish, GiveBack, Retire,
      ReadFails, Returned
  <2>2. ~Ended  BY <2>1 DEF Ended, Returned
  <2> QED BY <1>2, <2>1, <2>2, UntouchedWay, ReplacingWay DEF WayInv, Alone
<1>3. CASE KillCall  BY <1>3 DEF KillCall, WayInv, Alone
<1>4. CASE \E c \in FileStates : Rewrite(c)
  <2>1. changes \in Nat /\ left.changes \in Nat
    BY AttemptAssumption DEF CASInv, CASTypeOK, Found
  <2> QED BY <1>4, <2>1 DEF Rewrite, WayInv, Alone
<1>5. CASE UNCHANGED casVars
  BY <1>5 DEF WayInv, Alone, Untouched, Cleared, Aside, Swapped, Ended, Replaced, Wanted
<1> QED BY <1>1, <1>2, <1>3, <1>4, <1>5 DEF CASNext

\* A call nobody interferes with does what CASOutcome says, whatever it finds in
\* its two names, for any contents and expectations: three attempts are enough, one
\* to retire a leftover claim, one to claim the target and one to replace it.
THEOREM CallsAreAsSpecified == MaxAttempts >= 3 => (CASSpec => []AsSpecified)
<1> SUFFICES ASSUME MaxAttempts >= 3  PROVE CASSpec => []AsSpecified
  OBVIOUS
<1>1. CASInit => WayInv  BY DEF CASInit, WayInv, Alone
<1>2. CASInv /\ WayInv /\ [CASNext]_casVars => WayInv'  BY NextWay
<1>3. CASInv /\ WayInv => AsSpecified
  <2> SUFFICES ASSUME CASInv, WayInv, Alone
               PROVE  /\ <<target, aside>> \in
                          Passing(left.target, left.aside, call.expected, Wanted)
                      /\ at \in Returned \ {"failed"} =>
                           <<target, aside, at>> =
                             Final(left.target, left.aside, call.expected, Wanted)
    BY DEF AsSpecified
  <2>1. CASE Untouched
    BY <2>1 DEF Untouched, Working, Returned, Passing
  <2>2. CASE Cleared
    BY <2>2 DEF Cleared, Replaced, Returned, Passing, Replacing
  <2>3. CASE Aside
    BY <2>3 DEF Aside, Replaced, Returned, Passing, Replacing
  <2>4. CASE Swapped
    BY <2>4 DEF Swapped, Replaced, Returned, Passing, Replacing
  <2>5. CASE Ended
    BY <2>5, AbsentAssumption, CallAssumption DEF Ended, Returned, Passing, Final, Replacing, CASInv, CASTypeOK
  <2> QED BY <2>1, <2>2, <2>3, <2>4, <2>5 DEF WayInv
<1> QED BY <1>1, <1>2, <1>3, CASInvariant, PTL DEF CASSpec
==============================================================================
