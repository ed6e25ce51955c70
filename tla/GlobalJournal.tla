---------------------------- MODULE GlobalJournal ----------------------------
(***************************************************************************)
(* The global scene: the two system files it replaces (/etc/profile.d and  *)
(* /etc/apt/apt.conf.d), its ownership journal with a backup, and the      *)
(* receipt of the runtime transaction around it.  Applying the scene takes *)
(* the files over from the administrator, releasing it gives them back,    *)
(* and a transaction that fails or is killed compensates from its receipt. *)
(*                                                                         *)
(* RuntimeTransition sees all of this as one route that is off, mixed or   *)
(* on; here its steps are opened.  A compare-and-swap is one step with the *)
(* outcomes of CASOutcome, which ArtifactCAS is checked against.           *)
(***************************************************************************)
EXTENDS Naturals, CASOutcome

CONSTANTS
  Admin,       \* contents an administrator writes
  Proxies,     \* managed contents, one per proxy endpoint
  None,        \* no transaction
  MaxGen,      \* the largest generation, ^uint64(0) in the code
  MaxTx,       \* bound: transactions with a global step
  MaxCrashes,  \* bound: processes killed
  MaxFaults,   \* bound: system calls that fail
  MaxEdits     \* bound: edits of the two files by an administrator

Paths  == {"profile", "apt"}
Copies == {"main", "bak"}
States == Admin \cup Proxies \cup {Absent}
Owned  == Proxies \cup {Absent}
Journal == [phase : {"prepared", "active", "restoring"}, gen : 0..MaxGen,
            orig : [Paths -> States], man : Owned, pend : Owned]
Receipt == [want : Owned, before : Journal \cup {Absent}, files : [Paths -> States],
            floor : Nat]
PCs == {"idle", "prepare", "save", "save_main", "check", "write", "written", "restore", "undo",
        "drop", "done", "failed", "comp", "comp_write", "close"}

ASSUME ContentAssumption == Admin \cap Proxies = {} /\ Absent \notin Admin \cup Proxies
ASSUME SentinelAssumption == Absent \notin Journal /\ None \notin Receipt
ASSUME BoundAssumption ==
  /\ MaxGen \in Nat /\ MaxTx \in Nat /\ MaxCrashes \in Nat
  /\ MaxFaults \in Nat /\ MaxEdits \in Nat

VARIABLES
  file, quar,  \* per path: the file and its quarantine name
  jrn,         \* the journal and its backup
  receipt,     \* the global resource of a pending transaction whose step has started
  pc, job,     \* where the process is, and whether it applies, restores or compensates
  mem,         \* the journal in its memory
  expected,    \* per path: the states its compare-and-swaps accept
  todo,        \* the paths it has not dealt with
  user,        \* history: what the administrator last had in each file, ...
  past,        \* ... and what he had there before
  latest,      \* history: the last journal saved, or left by a removal
  txs, crashes, faults, edits

disk   == <<file, quar, user, past>>
memory == <<job, mem, expected, todo>>
vars   == <<disk, jrn, latest, receipt, pc, memory, txs, crashes, faults, edits>>

-----------------------------------------------------------------------------
(* Reading the journal and the files.                                      *)

Gen(j) == IF j = Absent THEN 0 ELSE j.gen
Both   == jrn["main"] # Absent /\ jrn["bak"] # Absent

\* Mutant of Loaded: the backup is for a missing main only.
MainFirst == IF jrn["main"] # Absent THEN jrn["main"] ELSE jrn["bak"]

\* loadGlobalProxyJournal: the newer copy, or the one there is.
Loaded == IF Both THEN IF jrn["main"].gen >= jrn["bak"].gen THEN jrn["main"] ELSE jrn["bak"]
          ELSE IF jrn["main"] # Absent THEN jrn["main"] ELSE jrn["bak"]

\* Two copies of one generation that differ are refused.
Ambiguous == Both /\ jrn["main"].gen = jrn["bak"].gen /\ jrn["main"] # jrn["bak"]

ApplyExpected(j, p)   == IF j.man # Absent THEN {j.man} ELSE {j.orig[p]}
RestoreExpected(j, p) == {j.orig[p]} \cup ({j.man, j.pend} \ {Absent})

\* readGlobalProxyArtifactLogical: a claim stands for a missing file.
Readable(p, S) == quar[p] \in S \cup {Absent}
Logical(p)     == IF file[p] = Absent THEN quar[p] ELSE file[p]

\* captureRuntimeGlobal: the states compensation may find and replace.
Allowed(r, p) == {r.files[p]} \cup ({r.want} \ {Absent})
                 \cup (IF r.before = Absent THEN {} ELSE {r.before.orig[p]})

\* Prepare, commit and a local restore save the journal once each.
Reserved == 3

-----------------------------------------------------------------------------
(* Building blocks of the actions.                                         *)

Goto(l) == pc' = l
Exit == /\ pc' = "idle" /\ job' = "none" /\ mem' = Absent
        /\ expected' = [p \in Paths |-> {}] /\ todo' = {}
Fault  == faults < MaxFaults /\ faults' = faults + 1
Killed == crashes < MaxCrashes /\ crashes' = crashes + 1
ReadFault(l) == Fault /\ Goto(l) /\ UNCHANGED memory

\* The paths are dealt with in the order of globalProxyArtifactPaths.
Turn == IF "profile" \in todo THEN "profile" ELSE "apt"

Writes(p, c) == user' = [user EXCEPT ![p] = c] /\ past' = [past EXCEPT ![p] = @ \cup {user[p]}]

Names(p, s) == file' = [file EXCEPT ![p] = s[1]] /\ quar' = [quar EXCEPT ![p] = s[2]]

\* Somebody recreates the file while it is claimed: the call keeps it and fails.
Contested(f, q, want) ==
  f # want /\ q \in expected[Turn] \cup {Absent}
    /\ (IF f = Absent THEN q # Absent ELSE f \in expected[Turn])

\* One compare-and-swap to want for the next path: it succeeds or finds a state it does
\* not expect, a system call fails on the way, an administrator interferes, or the
\* process is killed in it.
SwapTurn(want, ok, Failed) ==
  LET p == Turn
      r == Final(file[p], quar[p], expected[p], want)
      on_the_way == Passing(file[p], quar[p], expected[p], want)
  IN
  \/ /\ Names(p, r) /\ UNCHANGED <<user, past, crashes, faults, edits>>
     /\ IF r[3] = "ok"
        THEN /\ todo' = todo \ {p} /\ UNCHANGED <<job, expected, mem>>
             /\ Goto(IF todo = {p} THEN ok ELSE pc)
        ELSE Failed
  \/ /\ \E s \in on_the_way : Names(p, s)
     /\ Fault /\ Failed /\ UNCHANGED <<user, past, crashes, edits>>
  \/ /\ Contested(file[p], quar[p], want) /\ edits < MaxEdits /\ edits' = edits + 1
     /\ \E c \in Admin : Names(p, <<c, Absent>>) /\ Writes(p, c)
     /\ Failed /\ UNCHANGED <<crashes, faults>>
  \/ /\ \E s \in on_the_way : Names(p, s)
     /\ Killed /\ Exit /\ UNCHANGED <<user, past, faults, edits>>

FailTo(l) == Goto(l) /\ UNCHANGED memory

\* Where saving the journal leads.
AfterSave  == IF job = "compensate" THEN "close"
              ELSE IF mem.phase = "prepared" THEN "check"
              ELSE IF mem.phase = "active" THEN "done" ELSE "undo"
SaveFailed == IF job = "compensate" THEN Exit
              ELSE FailTo(IF mem.phase = "active" THEN "restore" ELSE "failed")

-----------------------------------------------------------------------------
(* applyGlobalWithJournal.                                                 *)

\* captureRuntimeGlobal: only a settled journal over files it owns is planned on; the
\* receipt is durable before the step runs.
Begin(want) ==
  /\ pc = "idle" /\ receipt = None /\ txs < MaxTx /\ txs' = txs + 1
  /\ ~Ambiguous /\ Gen(Loaded) + Reserved < MaxGen
  /\ Loaded # Absent => /\ Loaded.phase = "active"
                        /\ \A p \in Paths : file[p] = Loaded.man
  /\ receipt' = [want |-> want, before |-> Loaded, files |-> file,
                 floor |-> Gen(Loaded) + Reserved]
  /\ IF want = Absent THEN Goto("restore") /\ job' = "restore"
     ELSE Goto("prepare") /\ job' = "apply"
  /\ UNCHANGED <<disk, jrn, latest, mem, expected, todo, crashes, faults, edits>>

\* Mutant of Taken: every apply records the files it finds as the originals.
Recaptured(j) == [phase |-> "prepared", gen |-> Gen(j), orig |-> file,
                  man |-> IF j = Absent THEN Absent ELSE j.man, pend |-> receipt.want]

\* prepareGlobalProxyJournal: a new journal takes the files it finds as the originals,
\* an active one keeps the originals it has.
Taken(j) == IF j = Absent
            THEN [phase |-> "prepared", gen |-> 0, orig |-> file,
                  man |-> Absent, pend |-> receipt.want]
            ELSE [j EXCEPT !.phase = "prepared", !.pend = receipt.want]

Prepare ==
  /\ pc = "prepare"
  /\ \/ /\ IF Ambiguous \/ (Loaded # Absent /\ \E p \in Paths : file[p] # Loaded.man)
           THEN Goto("failed") /\ UNCHANGED mem
           ELSE Goto("save") /\ mem' = Taken(Loaded)
        /\ UNCHANGED <<job, expected, todo, faults>>
     \/ ReadFault("failed")
  /\ UNCHANGED <<disk, jrn, latest, receipt, txs, crashes, edits>>

Exhausted(j) == j.gen = MaxGen

\* saveGlobalProxyJournal: the backup, then the main copy.
Save ==
  /\ pc = "save"
  /\ \/ Exhausted(mem) /\ SaveFailed /\ UNCHANGED <<jrn, latest, faults>>
     \/ /\ ~Exhausted(mem)
        /\ LET j == [mem EXCEPT !.gen = @ + 1] IN
           \/ /\ jrn' = [jrn EXCEPT !["bak"] = j] /\ latest' = j /\ mem' = j
              /\ Goto("save_main") /\ UNCHANGED <<job, expected, todo, faults>>
           \/ Fault /\ SaveFailed /\ UNCHANGED <<jrn, latest>>
           \/ /\ jrn' = [jrn EXCEPT !["bak"] = j] /\ latest' = j
              /\ Fault /\ SaveFailed
  /\ UNCHANGED <<disk, receipt, txs, crashes, edits>>

SaveMain ==
  /\ pc = "save_main"
  /\ \/ /\ jrn' = [jrn EXCEPT !["main"] = mem]
        /\ Goto(AfterSave) /\ UNCHANGED <<memory, faults>>
     \/ Fault /\ jrn' \in {jrn, [jrn EXCEPT !["main"] = mem]} /\ SaveFailed
  /\ UNCHANGED <<disk, latest, receipt, txs, crashes, edits>>

\* Both files are validated before either is replaced.
Acceptable(p) ==
  /\ Readable(p, ApplyExpected(mem, p))
  /\ \/ Logical(p) \in ApplyExpected(mem, p) \cup {mem.pend}
     \/ quar[p] # Absent

Check ==
  /\ pc = "check"
  /\ \/ /\ expected' = [p \in Paths |-> ApplyExpected(mem, p)] /\ todo' = Paths
        /\ Goto(IF \A p \in Paths : Acceptable(p) THEN "write" ELSE "failed")
        /\ UNCHANGED <<job, mem, faults>>
     \/ ReadFault("failed")
  /\ UNCHANGED <<disk, jrn, latest, receipt, txs, crashes, edits>>

\* A failed write releases the scene; the last one commits the journal.
Write ==
  /\ pc = "write"
  /\ SwapTurn(mem.pend, "written", FailTo("restore"))
  /\ UNCHANGED <<jrn, latest, receipt, txs>>

Written ==
  /\ pc = "written"
  /\ mem' = [mem EXCEPT !.phase = "active", !.man = mem.pend, !.pend = Absent]
  /\ Goto("save")
  /\ UNCHANGED <<disk, jrn, latest, receipt, job, expected, todo, txs, crashes, faults, edits>>

-----------------------------------------------------------------------------
(* restoreGlobalWithJournal.                                               *)

\* A file the administrator has changed becomes the original to keep.
Released(j) ==
  [j EXCEPT !.phase = "restoring",
            !.orig = [p \in Paths |-> IF Logical(p) \in RestoreExpected(j, p) THEN j.orig[p]
                                      ELSE Logical(p)]]

Restored == IF job = "restore" THEN "done" ELSE "failed"

Restore ==
  /\ pc = "restore"
  /\ \/ /\ Loaded = Absent /\ Goto(Restored) /\ UNCHANGED <<memory, faults>>
     \/ /\ Loaded # Absent
        /\ IF Ambiguous \/ \E p \in Paths : ~Readable(p, RestoreExpected(Loaded, p))
           THEN Goto("failed") /\ UNCHANGED memory
           ELSE /\ mem' = Released(Loaded) /\ todo' = Paths
                /\ expected' = [p \in Paths |-> RestoreExpected(Loaded, p)]
                /\ Goto(IF mem' = Loaded THEN "undo" ELSE "save") /\ UNCHANGED job
        /\ UNCHANGED faults
     \/ ReadFault("failed")
  /\ UNCHANGED <<disk, jrn, latest, receipt, txs, crashes, edits>>

Undo ==
  /\ pc = "undo"
  /\ SwapTurn(mem.orig[Turn], "drop", FailTo("failed"))
  /\ UNCHANGED <<jrn, latest, receipt, txs>>

\* removeGlobalProxyJournal, after the directories of both files are synced.  What an
\* unlink has removed stays removed, whatever its peer did; the files are back by then, so
\* whichever copy is left will do.
Drop ==
  /\ pc = "drop"
  /\ \/ /\ jrn' = [x \in Copies |-> Absent] /\ latest' = Absent
        /\ Goto(IF job = "compensate" THEN "close" ELSE Restored)
        /\ UNCHANGED <<memory, crashes, faults>>
     \/ /\ \E kept \in SUBSET Copies :
             /\ jrn' = [x \in Copies |-> IF x \in kept THEN jrn[x] ELSE Absent]
             /\ latest' = Loaded'
        /\ \/ Fault /\ (IF job = "compensate" THEN Exit ELSE FailTo("failed"))
              /\ UNCHANGED crashes
           \/ Killed /\ Exit /\ UNCHANGED faults
  /\ UNCHANGED <<disk, receipt, txs, edits>>

-----------------------------------------------------------------------------
(* The transaction around the step, and compensateRuntimeGlobal.           *)

\* Everything else succeeds too: the receipt is dropped.
Commit ==
  /\ pc = "done" /\ receipt' = None /\ Exit
  /\ UNCHANGED <<disk, jrn, latest, txs, crashes, faults, edits>>

\* The step, or another part of the transaction after it, fails.
Fail ==
  /\ pc \in {"done", "failed"} /\ Goto("comp") /\ job' = "compensate"
  /\ UNCHANGED <<disk, jrn, latest, receipt, mem, expected, todo, txs, crashes, faults, edits>>

Recover ==
  /\ pc = "idle" /\ receipt # None /\ Goto("comp") /\ job' = "compensate"
  /\ UNCHANGED <<disk, jrn, latest, receipt, mem, expected, todo, txs, crashes, faults, edits>>

\* The journal found belongs to this transaction, and so do both files.
Original(r, p) == IF r.before = Absent THEN r.files[p] ELSE r.before.orig[p]
Compensable(r) ==
  /\ ~Ambiguous
  /\ Loaded # Absent => \A p \in Paths :
       /\ Loaded.orig[p] = Original(r, p)
       /\ RestoreExpected(Loaded, p) \subseteq Allowed(r, p)
  /\ \A p \in Paths : Readable(p, Allowed(r, p)) /\ Logical(p) \in Allowed(r, p)

\* Mutant of Pending: a file that is back needs no work, claim or not.
PendingByContent(r) == {p \in Paths : file[p] # r.files[p]}
Pending(r) == {p \in Paths : Logical(p) # r.files[p] \/ quar[p] # Absent}

\* Mutant of Floor: the generation of the before-image is used again.
FloorOfBefore(r) == Gen(r.before)
Floor(r) == IF Gen(Loaded) > r.floor THEN Gen(Loaded) ELSE r.floor

\* Mutant of JournalNext: the journal is left alone when the files were.
JournalIfChanged(r, changed) ==
  IF ~changed THEN "close"
  ELSE IF r.before # Absent THEN "save" ELSE IF Loaded = Absent THEN "close" ELSE "drop"

\* Once the files are back: what is left to do about the journal.
JournalNext(r, changed) ==
  IF r.before = Absent THEN IF Loaded = Absent THEN "close" ELSE "drop"
  ELSE IF Loaded # Absent /\ ~changed /\ [Loaded EXCEPT !.gen = r.before.gen] = r.before
  THEN "close" ELSE "save"

Compensate ==
  /\ pc = "comp"
  /\ \/ /\ ~Compensable(receipt) /\ Exit /\ UNCHANGED faults
     \/ /\ Compensable(receipt)
        /\ expected' = [p \in Paths |-> Allowed(receipt, p)]
        /\ todo' = Pending(receipt)
        /\ mem' = IF receipt.before = Absent THEN Absent
                  ELSE [receipt.before EXCEPT !.gen = Floor(receipt)]
        /\ Goto(IF Pending(receipt) # {} THEN "comp_write" ELSE JournalNext(receipt, FALSE))
        /\ UNCHANGED <<job, faults>>
     \/ Fault /\ Exit
  /\ UNCHANGED <<disk, jrn, latest, receipt, txs, crashes, edits>>

CompWrite ==
  /\ pc = "comp_write"
  /\ SwapTurn(receipt.files[Turn], JournalNext(receipt, TRUE), Exit)
  /\ UNCHANGED <<jrn, latest, receipt, txs>>

\* The compensated part is marked restored and the transaction ends.
Close ==
  /\ pc = "close" /\ receipt' = None /\ Exit
  /\ UNCHANGED <<disk, jrn, latest, txs, crashes, faults, edits>>

-----------------------------------------------------------------------------
Crash ==
  /\ pc # "idle" /\ Killed /\ Exit
  /\ UNCHANGED <<disk, jrn, latest, receipt, txs, faults, edits>>

\* An administrator writes or deletes one of the files.
Edit(p, c) ==
  /\ edits < MaxEdits /\ edits' = edits + 1 /\ file[p] # c
  /\ file' = [file EXCEPT ![p] = c] /\ Writes(p, c)
  /\ UNCHANGED <<quar, jrn, latest, receipt, pc, memory, txs, crashes, faults>>

\* The scene is off, or on with a settled journal of which a copy may be missing.
Init ==
  /\ user \in [Paths -> Admin \cup {Absent}] /\ quar = [p \in Paths |-> Absent]
  /\ \/ /\ file = user /\ jrn = [x \in Copies |-> Absent] /\ latest = Absent
     \/ \E v \in Proxies, g \in 1..MaxGen, lost \in {{}, {"main"}} :
          /\ file = [p \in Paths |-> v]
          /\ latest = [phase |-> "active", gen |-> g, orig |-> user, man |-> v, pend |-> Absent]
          /\ jrn = [x \in Copies |-> IF x \in lost THEN Absent ELSE latest]
  /\ past = [p \in Paths |-> {}] /\ receipt = None /\ pc = "idle" /\ job = "none" /\ mem = Absent
  /\ expected = [p \in Paths |-> {}] /\ todo = {}
  /\ txs = 0 /\ crashes = 0 /\ faults = 0 /\ edits = 0

Process == \/ Prepare \/ Save \/ SaveMain \/ Check \/ Write \/ Written \/ Restore \/ Undo
           \/ Drop \/ Commit \/ Fail \/ Compensate \/ CompWrite \/ Close
Next == \/ \E want \in Owned : Begin(want)
        \/ Process \/ Recover \/ Crash
        \/ \E p \in Paths, c \in Admin \cup {Absent} : Edit(p, c)
Spec == Init /\ [][Next]_vars

-----------------------------------------------------------------------------
(* Properties.                                                             *)

\* The types of the state.
TypeOK ==
  /\ file \in [Paths -> States] /\ quar \in [Paths -> States]
  /\ jrn \in [Copies -> Journal \cup {Absent}] /\ latest \in Journal \cup {Absent}
  /\ receipt \in Receipt \cup {None} /\ mem \in Journal \cup {Absent}
  /\ pc \in PCs /\ job \in {"none", "apply", "restore", "compensate"}
  /\ expected \in [Paths -> SUBSET States] /\ todo \subseteq Paths
  /\ user \in [Paths -> Admin \cup {Absent}] /\ past \in [Paths -> SUBSET (Admin \cup {Absent})]

\* What the administrator last wrote to a file is never lost: it is in the file, in the
\* claim of a swap, in the journal, or in the before-image of the receipt, at every
\* moment of any apply, release, compensation, failure or kill.  (A deletion may be
\* undone: while a claim is there it stands for the missing file.  And a content the
\* administrator goes back to may be taken for the one the scene found: a release
\* computes what it may replace, global_journal.go:1086, before it adopts his edit.)
OriginalsSurvive ==
  \A p \in {x \in Paths : user[x] \notin past[x] \cup {Absent}} :
    \/ user[p] \in {file[p], quar[p]}
    \/ Loaded # Absent /\ user[p] = Loaded.orig[p]
    \/ receipt # None /\ receipt.before # Absent /\ user[p] = receipt.before.orig[p]

\* The journal that is read is the last one that was saved, also when a save or a
\* removal got only as far as one copy; the copies never contradict each other.
LoadIsLatest == ~Ambiguous /\ Loaded = latest

\* Between transactions the scene is off, with the administrator's files, or on, with
\* both files managed and their originals in an active journal; no claim is left.
SettledIsWhole ==
  receipt = None /\ edits = 0 =>
    /\ quar = [p \in Paths |-> Absent]
    /\ IF Loaded = Absent THEN file = user
       ELSE /\ Loaded.phase = "active" /\ Loaded.orig = user
            /\ file = [p \in Paths |-> Loaded.man]

\* A compensated transaction has changed nothing: the files and, but for its
\* generation, the journal are what they were when it began.
UndoIsExact ==
  [][pc = "close" /\ edits' = 0 =>
       /\ file' = receipt.files
       /\ IF receipt.before = Absent THEN Loaded' = Absent
          ELSE Loaded' = [receipt.before EXCEPT !.gen = Loaded'.gen]]_vars

=============================================================================
