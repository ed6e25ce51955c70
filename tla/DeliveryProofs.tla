---------------------------- MODULE DeliveryProofs ----------------------------
(***************************************************************************)
(* What the locks, the record of the host and the installer's transaction  *)
(* promise, for any number of processes, versions, failures and kills      *)
(* (Delivery).                                                             *)
(*                                                                         *)
(* The argument: from the first lock to its end a process holds the        *)
(* installation lock, so only one process is that far; the other locks are *)
(* held by that process only; and from the moment it has recorded the host *)
(* until it gives it back, nobody else can write the record.  So only one  *)
(* process is in the transaction: the files with a backup are of the new   *)
(* version, and the backups and the other files are of one old version,    *)
(* which an update has seen before it took the lock.                       *)
(***************************************************************************)
EXTENDS Delivery, SequenceTheorems, TLAPS

\* A process at one of these places has the installation lock, and the host lock.
InstallLocked == {"host", "store", "replace", "rollback", "init", "units",
                  "m-host", "m-store", "work", "scenes", "release"}
HostLocked == InstallLocked \ {"host", "m-host"}

\* proc is a record for each process.  Nothing more is said of their other
\* fields, on which the locks do not depend.
Shape ==
  /\ DOMAIN proc = Procs /\ DOMAIN locks = Locks
  /\ \A p \in Procs : "pc" \in DOMAIN proc[p]

LockInv ==
  /\ \A p \in Procs : proc[p].pc \in InstallLocked => locks["install"] = p
  /\ \A p \in Procs : proc[p].pc \in HostLocked => locks["host"] = p
  /\ locks["store"] \in Procs \cup {None}
  /\ \A p \in Procs : locks["store"] = p => locks["install"] = p

\* The record is there before anything is put on the host, and nothing is
\* left on it when the record goes.
RecordInv ==
  /\ HostIsOwned
  /\ \A p \in Procs : proc[p].pc \in {"units", "m-store", "work", "scenes"} => hostRecord = "own"
  /\ \A p \in Procs : proc[p].pc = "release" => ~shared

HostInv == Shape /\ LockInv /\ RecordInv

-------------------------------------------------------------------------------
\* How the places and the locks change.

Moves(p, to) ==
  /\ DOMAIN proc' = Procs
  /\ \A q \in Procs : "pc" \in DOMAIN proc'[q] /\ proc'[q].pc = IF q = p THEN to ELSE proc[q].pc

LEMMA StepMoves ==
  ASSUME Shape, NEW p \in Procs, NEW to, Step(p, to)
  PROVE  Moves(p, to)
BY DEF Shape, Step, Moves

LEMMA EndMoves ==
  ASSUME Shape, NEW p \in Procs, End(p)
  PROVE  Moves(p, "idle") /\ locks' = Freed(p)
BY DEF Shape, End, Moves, Rest

LEMMA TakeLocks ==
  ASSUME Shape, NEW p \in Procs, NEW l \in Locks, Take(p, l)
  PROVE  /\ DOMAIN locks' = Locks
         /\ \A k \in Locks : locks'[k] = IF k = l THEN p ELSE locks[k]
BY DEF Shape, Take

\* A process that ends is at no place any more, and its locks are free.
LEMMA EndKeepsLocks ==
  ASSUME Shape, LockInv, NEW p \in Procs, End(p)
  PROVE  Shape' /\ LockInv'
<1>1. Moves(p, "idle") /\ locks' = Freed(p)  BY EndMoves
<1>2. Shape'  BY <1>1 DEF Shape, Moves, Freed
<1>3. \A q \in Procs : proc'[q].pc \in InstallLocked => q # p /\ proc[q].pc \in InstallLocked
  BY <1>1 DEF Moves, InstallLocked
<1>4. \A q \in Procs : proc'[q].pc \in HostLocked => q # p /\ proc[q].pc \in HostLocked
  BY <1>1 DEF Moves, InstallLocked, HostLocked
<1>5. \A l \in Locks : locks'[l] = IF locks[l] = p THEN None ELSE locks[l]
  BY <1>1 DEF Freed
<1>6. LockInv'
  BY <1>3, <1>4, <1>5, InstallerAssumption DEF LockInv, Locks
<1> QED BY <1>2, <1>6

\* A process that moves without a lock needs the ones of its new place already.
LEMMA MoveKeepsLocks ==
  ASSUME Shape, LockInv, NEW p \in Procs, NEW to, Moves(p, to), locks' = locks,
         to \in InstallLocked => proc[p].pc \in InstallLocked,
         to \in HostLocked => proc[p].pc \in HostLocked
  PROVE  Shape' /\ LockInv'
<1>1. Shape'  BY DEF Shape, Moves
<1>2. LockInv'  BY DEF LockInv, Moves
<1> QED BY <1>1, <1>2

\* The processes with the installation lock are one.
LEMMA OneAtATime ==
  ASSUME LockInv, NEW p \in Procs, proc[p].pc \in InstallLocked,
         NEW q \in Procs, proc[q].pc \in InstallLocked
  PROVE  p = q
BY DEF LockInv
-------------------------------------------------------------------------------
\* The steps of a host preserve the invariant, one lemma per kind of command.

LEMMA InstallerKeepsInv ==
  ASSUME HostInv, NEW p \in Procs, InstallerNext(p)
  PROVE  HostInv'
<1> USE DEF HostInv
<1>1. ASSUME NEW t \in Tags, NEW expect \in {Whatever, None}, StartInstall(p, t, expect)
      PROVE  HostInv'
  <2>1. Moves(p, "install")  BY <1>1 DEF StartInstall, Shape, Moves, Rest
  <2>2. Shape' /\ LockInv'
    BY <1>1, <2>1, MoveKeepsLocks DEF StartInstall, InstallLocked, HostLocked
  <2>3. RecordInv'  BY <1>1, <2>1 DEF StartInstall, RecordInv, HostIsOwned, Moves
  <2> QED BY <2>2, <2>3
<1>2. CASE TakeInstallLock(p)
  <2>1. Moves(p, "host") /\ In(p, "install")  BY <1>2, StepMoves DEF TakeInstallLock
  <2>2. \A l \in Locks : locks'[l] = IF l = "install" THEN p ELSE locks[l]
    BY <1>2, TakeLocks DEF TakeInstallLock, Locks
  <2>3. Shape'  BY <1>2, <2>1, TakeLocks DEF TakeInstallLock, Shape, Moves, Locks
  <2>4. \A q \in Procs : proc[q].pc \notin InstallLocked /\ locks["store"] # q
    BY <1>2, InstallerAssumption DEF TakeInstallLock, LockInv
  <2>5. LockInv'  BY <2>1, <2>2, <2>4 DEF LockInv, Moves, Locks, InstallLocked, HostLocked
  <2>6. RecordInv'  BY <1>2, <2>1 DEF TakeInstallLock, RecordInv, HostIsOwned, Moves
  <2> QED BY <2>3, <2>5, <2>6
<1>3. CASE TakeHostLock(p)
  <2>1. Moves(p, "store") /\ In(p, "host")  BY <1>3, StepMoves DEF TakeHostLock
  <2>2. \A l \in Locks : locks'[l] = IF l = "host" THEN p ELSE locks[l]
    BY <1>3, TakeLocks DEF TakeHostLock, Locks
  <2>3. Shape'  BY <1>3, <2>1, TakeLocks DEF TakeHostLock, Shape, Moves, Locks
  <2>4. \A q \in Procs : q # p => proc[q].pc \notin InstallLocked
    BY <2>1, OneAtATime DEF In, InstallLocked
  <2>5. LockInv'
    BY <2>1, <2>2, <2>4 DEF LockInv, In, Moves, Locks, InstallLocked, HostLocked
  <2>6. RecordInv'  BY <1>3, <2>1 DEF TakeHostLock, RecordInv, HostIsOwned, Moves
  <2> QED BY <2>3, <2>5, <2>6
<1>4. CASE TakeStoreLock(p)
  <2>1. Moves(p, "replace") /\ In(p, "store")  BY <1>4, StepMoves DEF TakeStoreLock
  <2>2. \A l \in Locks : locks'[l] = locks[l] \/ (l = "store" /\ locks'[l] = p)
    <3>1. "store" \in Locks  BY DEF Locks
    <3>2. CASE Take(p, "store")  BY <3>1, <3>2, TakeLocks
    <3>3. CASE UNCHANGED locks  BY <3>3
    <3> QED BY <1>4, <3>2, <3>3 DEF TakeStoreLock
  <2>3. Shape'  BY <1>4, <2>1, TakeLocks DEF TakeStoreLock, Shape, Moves, Locks
  <2>4. LockInv'  BY <2>1, <2>2 DEF LockInv, In, Moves, Locks, InstallLocked, HostLocked
  <2>5. RecordInv'  BY <1>4, <2>1 DEF TakeStoreLock, RecordInv, HostIsOwned, Moves
  <2> QED BY <2>3, <2>4, <2>5
<1>5. CASE Decline(p)
  <2>1. Moves(p, "idle") /\ Shape' /\ LockInv'
    BY <1>5, EndMoves, EndKeepsLocks DEF Decline
  <2>2. RecordInv'  BY <1>5, <2>1 DEF Decline, RecordInv, HostIsOwned, Moves
  <2> QED BY <2>1, <2>2
<1>6. CASE Replace(p) \/ Fail(p) \/ Commit(p) \/ CommitFails(p)
  <2>1. \E to \in {"replace", "rollback", "init"} : Moves(p, to)
    <3>1. CASE Replace(p)
      <4>1. Moves(p, "replace")  BY <3>1 DEF Replace, Registered, In, Shape, Moves
      <4> QED BY <4>1
    <3>2. CASE Fail(p)
      <4>1. Moves(p, "rollback")  BY <3>2 DEF Fail, Registered, In, Shape, Moves
      <4> QED BY <4>1
    <3>3. CASE Commit(p)
      <4>1. Moves(p, "init")  BY <3>3 DEF Commit, In, Shape, Moves
      <4> QED BY <4>1
    <3>4. CASE CommitFails(p)
      <4>1. Moves(p, "rollback")  BY <3>4 DEF CommitFails, In, Shape, Moves
      <4> QED BY <4>1
    <3> QED BY <1>6, <3>1, <3>2, <3>3, <3>4
  <2>2. In(p, "replace") /\ UNCHANGED <<locks, hostRecord, shared>>
    BY <1>6 DEF Replace, Fail, Commit, CommitFails
  <2>3. PICK to \in {"replace", "rollback", "init"} : Moves(p, to)  BY <2>1
  <2>4. Shape' /\ LockInv'
    BY <2>2, <2>3, MoveKeepsLocks DEF In, InstallLocked, HostLocked
  <2>5. RecordInv'  BY <2>2, <2>3 DEF RecordInv, HostIsOwned, Moves
  <2> QED BY <2>4, <2>5
<1>7. CASE Rollback(p)
  <2>1. Moves(p, "idle") /\ Shape' /\ LockInv'
    BY <1>7, EndMoves, EndKeepsLocks DEF Rollback
  <2>2. RecordInv'  BY <1>7, <2>1 DEF Rollback, RecordInv, HostIsOwned, Moves
  <2> QED BY <2>1, <2>2
<1>8. CASE InitHost(p)
  <2>1. Moves(p, "units") /\ In(p, "init")  BY <1>8, StepMoves DEF InitHost
  <2>2. \A l \in Locks : locks'[l] = IF l = "store" THEN p ELSE locks[l]
    BY <1>8, TakeLocks DEF InitHost, Locks
  <2>3. Shape'  BY <1>8, <2>1, TakeLocks DEF InitHost, Shape, Moves, Locks
  <2>4. LockInv'  BY <2>1, <2>2 DEF LockInv, In, Moves, Locks, InstallLocked, HostLocked
  <2>5. RecordInv'  BY <1>8, <2>1 DEF InitHost, RecordInv, HostIsOwned, Moves
  <2> QED BY <2>3, <2>4, <2>5
<1>9. CASE InitUnits(p)
  <2>1. Moves(p, "idle") /\ Shape' /\ LockInv'
    BY <1>9, EndMoves, EndKeepsLocks DEF InitUnits
  <2>2. \A q \in Procs : q # p => proc[q].pc \notin InstallLocked
    BY <1>9, OneAtATime DEF InitUnits, In, InstallLocked
  <2>3. RecordInv'
    BY <1>9, <2>1, <2>2 DEF InitUnits, In, RecordInv, HostIsOwned, Moves, InstallLocked
  <2> QED BY <2>1, <2>3
<1>10. CASE InitFails(p)
  <2>1. Moves(p, "idle") /\ Shape' /\ LockInv'
    BY <1>10, EndMoves, EndKeepsLocks DEF InitFails
  <2>2. \A q \in Procs : q # p => proc[q].pc \notin InstallLocked
    BY <1>10, OneAtATime DEF InitFails, In, InstallLocked
  <2>3. RecordInv'
    BY <1>10, <2>1, <2>2 DEF InitFails, In, RecordInv, HostIsOwned, Moves, InstallLocked
  <2> QED BY <2>1, <2>3
<1> QED BY <1>1, <1>2, <1>3, <1>4, <1>5, <1>6, <1>7, <1>8, <1>9, <1>10 DEF InstallerNext

LEMMA ManagerKeepsInv ==
  ASSUME HostInv, NEW p \in Procs, ManagerNext(p)
  PROVE  HostInv'
<1> USE DEF HostInv
<1>1. ASSUME NEW cmd, StartManager(p, cmd)
      PROVE  HostInv'
  <2>1. Moves(p, "m-install")  BY <1>1 DEF StartManager, Shape, Moves, Rest
  <2>2. Shape' /\ LockInv'
    BY <1>1, <2>1, MoveKeepsLocks DEF StartManager, InstallLocked, HostLocked
  <2>3. RecordInv'  BY <1>1, <2>1 DEF StartManager, RecordInv, HostIsOwned, Moves
  <2> QED BY <2>2, <2>3
<1>2. CASE ManagerTakesInstall(p)
  <2>1. Moves(p, "m-host") /\ In(p, "m-install")  BY <1>2, StepMoves DEF ManagerTakesInstall
  <2>2. \A l \in Locks : locks'[l] = IF l = "install" THEN p ELSE locks[l]
    BY <1>2, TakeLocks DEF ManagerTakesInstall, Locks
  <2>3. Shape'  BY <1>2, <2>1, TakeLocks DEF ManagerTakesInstall, Shape, Moves, Locks
  <2>4. \A q \in Procs : proc[q].pc \notin InstallLocked /\ locks["store"] # q
    BY <1>2, InstallerAssumption DEF ManagerTakesInstall, LockInv
  <2>5. LockInv'  BY <2>1, <2>2, <2>4 DEF LockInv, Moves, Locks, InstallLocked, HostLocked
  <2>6. RecordInv'  BY <1>2, <2>1 DEF ManagerTakesInstall, RecordInv, HostIsOwned, Moves
  <2> QED BY <2>3, <2>5, <2>6
<1>3. CASE ManagerTakesHost(p)
  <2>1. Moves(p, "m-store") /\ In(p, "m-host")  BY <1>3, StepMoves DEF ManagerTakesHost
  <2>2. \A l \in Locks : locks'[l] = IF l = "host" THEN p ELSE locks[l]
    BY <1>3, TakeLocks DEF ManagerTakesHost, Locks
  <2>3. Shape'  BY <1>3, <2>1, TakeLocks DEF ManagerTakesHost, Shape, Moves, Locks
  <2>4. \A q \in Procs : q # p => proc[q].pc \notin InstallLocked
    BY <2>1, OneAtATime DEF In, InstallLocked
  <2>5. LockInv'
    BY <2>1, <2>2, <2>4 DEF LockInv, In, Moves, Locks, InstallLocked, HostLocked
  <2>6. RecordInv'  BY <1>3, <2>1 DEF ManagerTakesHost, RecordInv, HostIsOwned, Moves
  <2> QED BY <2>3, <2>5, <2>6
<1>4. CASE ManagerTakesStore(p)
  <2>1. PICK to \in {"scenes", "work"} : Moves(p, to)
    BY <1>4, StepMoves DEF ManagerTakesStore
  <2>2. \A l \in Locks : locks'[l] = IF l = "store" THEN p ELSE locks[l]
    BY <1>4, TakeLocks DEF ManagerTakesStore, Locks
  <2>3. Shape'  BY <1>4, <2>1, TakeLocks DEF ManagerTakesStore, Shape, Moves, Locks
  <2>4. In(p, "m-store") /\ UNCHANGED <<hostRecord, shared>>  BY <1>4 DEF ManagerTakesStore
  <2>5. LockInv'
    BY <2>1, <2>2, <2>4 DEF LockInv, In, Moves, Locks, InstallLocked, HostLocked
  <2>6. RecordInv'  BY <2>1, <2>4 DEF RecordInv, HostIsOwned, In, Moves
  <2> QED BY <2>3, <2>5, <2>6
<1>5. CASE ManagerDeclines(p)
  <2>1. Moves(p, "idle") /\ Shape' /\ LockInv'
    BY <1>5, EndMoves, EndKeepsLocks DEF ManagerDeclines
  <2>2. RecordInv'  BY <1>5, <2>1 DEF ManagerDeclines, RecordInv, HostIsOwned, Moves
  <2> QED BY <2>1, <2>2
<1>6. CASE Work(p)
  <2>1. Moves(p, "idle") /\ Shape' /\ LockInv'
    BY <1>6, EndMoves, EndKeepsLocks DEF Work
  <2>2. \A q \in Procs : q # p => proc[q].pc \notin InstallLocked
    BY <1>6, OneAtATime DEF Work, In, InstallLocked
  <2>3. RecordInv'
    BY <1>6, <2>1, <2>2 DEF Work, In, RecordInv, HostIsOwned, Moves, InstallLocked
  <2> QED BY <2>1, <2>3
<1>7. CASE RemoveUnits(p)
  <2>1. Moves(p, "release") /\ In(p, "scenes")  BY <1>7, StepMoves DEF RemoveUnits
  <2>2. Shape' /\ LockInv'
    BY <1>7, <2>1, MoveKeepsLocks DEF RemoveUnits, In, InstallLocked, HostLocked
  <2>3. RecordInv'  BY <1>7, <2>1 DEF RemoveUnits, RecordInv, HostIsOwned, Moves
  <2> QED BY <2>2, <2>3
<1>8. CASE ReleaseHost(p)
  <2>1. Moves(p, "idle") /\ Shape' /\ LockInv'
    BY <1>8, EndMoves, EndKeepsLocks DEF ReleaseHost
  <2>2. \A q \in Procs : q # p => proc[q].pc \notin InstallLocked
    BY <1>8, OneAtATime DEF ReleaseHost, In, InstallLocked
  <2>3. RecordInv'
    BY <1>8, <2>1, <2>2 DEF ReleaseHost, In, RecordInv, HostIsOwned, Moves, InstallLocked
  <2> QED BY <2>1, <2>3
<1>9. CASE UninstallFails(p)
  <2>1. Moves(p, "idle") /\ Shape' /\ LockInv'
    BY <1>9, EndMoves, EndKeepsLocks DEF UninstallFails
  <2>2. RecordInv'  BY <1>9, <2>1 DEF UninstallFails, RecordInv, HostIsOwned, Moves
  <2> QED BY <2>1, <2>2
<1> QED BY <1>1, <1>2, <1>3, <1>4, <1>5, <1>6, <1>7, <1>8, <1>9 DEF ManagerNext

LEMMA KillKeepsInv ==
  ASSUME HostInv, NEW p \in Procs, Kill(p)
  PROVE  HostInv'
<1> USE DEF HostInv
<1>1. Moves(p, "idle") /\ Shape' /\ LockInv'  BY EndMoves, EndKeepsLocks DEF Kill
<1>2. proc[p].pc \in {"units", "work"} =>
        /\ hostRecord = "own"
        /\ \A q \in Procs : q # p => proc[q].pc \notin InstallLocked
  BY OneAtATime DEF RecordInv, InstallLocked
<1>3. RecordInv'
  BY <1>1, <1>2 DEF Kill, RecordInv, HostIsOwned, Moves, InstallLocked
<1> QED BY <1>1, <1>3

LEMMA OthersKeepInv ==
  ASSUME HostInv, OtherInstallation
  PROVE  HostInv'
<1> USE DEF HostInv
<1>1. Shape' /\ LockInv'  BY DEF OtherInstallation, Shape, LockInv
<1>2. \A q \in Procs : proc[q].pc \notin InstallLocked
  BY InstallerAssumption DEF OtherInstallation, LockInv
<1>3. RecordInv'  BY <1>2 DEF OtherInstallation, RecordInv, HostIsOwned, InstallLocked
<1> QED BY <1>1, <1>3

LEMMA UpdaterKeepsInv ==
  ASSUME HostInv, NEW p \in Procs, UpdaterNext(p)
  PROVE  HostInv'
<1> USE DEF HostInv
<1>1. CASE Abandon(p)
  <2>1. Moves(p, "idle") /\ Shape' /\ LockInv'  BY <1>1, EndMoves, EndKeepsLocks DEF Abandon
  <2>2. RecordInv'  BY <1>1, <2>1 DEF Abandon, RecordInv, HostIsOwned, Moves
  <2> QED BY <2>1, <2>2
<1>2. CASE ~Abandon(p)
  <2>1. \E to \in UpdateSteps \cup {"install"} : Moves(p, to)
    <3>1. ASSUME NEW src, OpenUpdater(p, src)  PROVE Moves(p, "choose")
      BY <3>1 DEF OpenUpdater, Shape, Moves, Rest
    <3>2. CASE ChooseRelease(p)
      <4>1. Moves(p, "preflight")  BY <3>2 DEF ChooseRelease, Shape, Moves
      <4> QED BY <4>1 DEF UpdateSteps
    <3>3. CASE Preflight(p) \/ Download(p) \/ Unpack(p) \/ Revalidate(p)
      BY <3>3, StepMoves DEF Preflight, Download, Unpack, Revalidate, UpdateSteps
    <3> QED BY <1>2, <3>1, <3>2, <3>3 DEF UpdaterNext, UpdateSteps
  <2>2. PICK to \in UpdateSteps \cup {"install"} : Moves(p, to)  BY <2>1
  <2>3. UNCHANGED <<locks, hostRecord, shared>>
    BY <1>2 DEF UpdaterNext, OpenUpdater, ChooseRelease, Preflight, Download, Unpack, Revalidate
  <2>4. Shape' /\ LockInv'
    BY <2>2, <2>3, MoveKeepsLocks DEF UpdateSteps, InstallLocked, HostLocked
  <2>5. RecordInv'  BY <2>2, <2>3 DEF RecordInv, HostIsOwned, Moves, UpdateSteps
  <2> QED BY <2>4, <2>5
<1> QED BY <1>1, <1>2

LEMMA HostInvHolds ==
  ASSUME Init
  PROVE  HostInv
<1>1. Shape  BY DEF Init, HostInit, Shape, Rest
<1>2. LockInv
  BY InstallerAssumption DEF Init, HostInit, LockInv, Rest, Locks, InstallLocked, HostLocked
<1>3. RecordInv  BY DEF Init, HostInit, RecordInv, HostIsOwned, Rest
<1> QED BY <1>1, <1>2, <1>3 DEF HostInv

LEMMA HostInvKept ==
  ASSUME HostInv, [Next]_vars
  PROVE  HostInv'
<1>1. CASE UNCHANGED hostVars
  BY <1>1 DEF HostInv, Shape, LockInv, RecordInv, HostIsOwned, hostVars
<1>2. CASE HostNext
  BY <1>2, InstallerKeepsInv, ManagerKeepsInv, KillKeepsInv, OthersKeepInv DEF HostNext
<1>3. CASE \E p \in Procs : UpdaterNext(p)  BY <1>3, UpdaterKeepsInv
<1> QED BY <1>1, <1>2, <1>3 DEF Next, vars

\* The invariant of the host, in every reachable state: the argument at the
\* head of this module (withStoreLock, commit_files_then_init,
\* ensureHostOwnership).
THEOREM HostInvariant == Spec => []HostInv
<1>1. Init => HostInv  BY HostInvHolds
<1>2. HostInv /\ [Next]_vars => HostInv'  BY HostInvKept
<1> QED BY <1>1, <1>2, PTL DEF Spec

\* No two processes work on the host at the same time, for any number of them,
\* and the initialization that inherits the installer's locks never has to
\* wait for one (commit_files_then_init, withFileLockOrInherited).
THEOREM WorkIsGuarded == Spec => []LocksGuardWork
<1>1. HostInv => LocksGuardWork
  <2> SUFFICES ASSUME HostInv PROVE LocksGuardWork  OBVIOUS
  <2>1. \A p, q \in Procs : Working(p) /\ Working(q) => p = q
    BY OneAtATime DEF HostInv, Working, InstallLocked
  <2>2. ASSUME NEW p \in Procs, In(p, "init"), NEW l \in Locks  PROVE CanTake(p, l)
    BY <2>2 DEF HostInv, LockInv, In, CanTake, Locks, InstallLocked, HostLocked
  <2> QED BY <2>1, <2>2 DEF LocksGuardWork
<1> QED BY <1>1, HostInvariant, PTL

\* Units and scenes are on the host only while it is recorded as this
\* installation's own, for any number of processes, failures, kills and other
\* installations (ensureHostOwnership, releaseHostOwnership).
THEOREM HostStaysOwned == Spec => []HostIsOwned
<1>1. HostInv => HostIsOwned  BY DEF HostInv, RecordInv
<1> QED BY <1>1, HostInvariant, PTL

-------------------------------------------------------------------------------
\* The transaction of the files.  What is known of a process depends on its own
\* record and on the files; what the others do does not reach it, as only one
\* of those that hold the installation lock works on the files.

\* What the releases offer is a tag.
TagInv ==
  /\ published \subseteq Tags /\ ghLatest \in Tags
  /\ "latest" \in DOMAIN disk /\ disk.latest \in Versions
  /\ "latest" \in DOMAIN durable /\ durable.latest \in Versions

Transacting == {"replace", "rollback"}

\* The places before the transaction, where nothing has been replaced.
Before == UpdateSteps \cup {"install", "host", "store"}

RecordOK(r) ==
  /\ {"pc", "cmd", "tag", "expect", "saved"} \subseteq DOMAIN r
  /\ r.pc \in (Before \ {"choose"}) \cup Transacting => r.tag \in Tags
  /\ r.saved \in Seq(Versions \cup {Lost}) /\ Len(r.saved) <= 3
  /\ r.pc \notin Transacting => r.saved = <<>>
  /\ r.pc \in UpdateSteps => r.cmd = "update"

\* An update has chosen a newer tag than the program it runs, and that is the
\* program it replaces.
UpdateOK(r, fs) ==
  r.cmd = "update" =>
    /\ r.pc \in Before \cup {"replace"} => r.expect \in Tags
    /\ r.pc \in (Before \ {"choose"}) \cup {"replace"} => r.expect < r.tag
    /\ r.pc \in {"store", "replace"} /\ r.saved = <<>> => fs["manager"] = r.expect
    /\ r.pc = "replace" /\ r.saved # <<>> => r.saved[1] = r.expect

\* The files that have a backup are replaced, and it is one of the old version;
\* the others are of the old version.
Mixed(r, fs, old) ==
  \A i \in 1..3 :
    IF i <= Len(r.saved) THEN r.saved[i] \in {old, Lost} ELSE fs[FileOrder[i]] = old

ReplaceOK(r, fs, tn) ==
  /\ r.pc = "replace" => \A i \in 1..3 : i <= Len(r.saved) =>
       fs[FileOrder[i]] = r.tag /\ r.saved[i] # Lost
  /\ ~tn /\ r.pc \in Transacting => \E old \in Versions : Mixed(r, fs, old)

ProcOK(r, fs, tn) == RecordOK(r) /\ UpdateOK(r, fs) /\ ReplaceOK(r, fs, tn)

FilesInv == files \in [Files -> Versions] /\ torn \in BOOLEAN /\ InstalledIsWhole

TransactionInv ==
  /\ HostInv /\ TagInv /\ FilesInv
  /\ \A p \in Procs : ProcOK(proc[p], files, torn)

LEMMA FileFacts ==
  /\ Files = {"manager", "xray", "ownership"}
  /\ FileOrder[1] = "manager" /\ FileOrder[2] = "xray" /\ FileOrder[3] = "ownership"
  /\ Len(FileOrder) = 3
BY DEF Files, FileOrder

\* A process that is not in the transaction and does not enter it.
LEMMA AwayKeeps ==
  ASSUME TransactionInv, NEW p \in Procs, NEW r, proc' = [proc EXCEPT ![p] = r],
         UNCHANGED <<files, torn>>,
         proc[p].pc \notin Transacting, r.pc \notin Transacting, ProcOK(r, files, torn)
  PROVE  FilesInv' /\ \A q \in Procs : ProcOK(proc[q], files, torn)'
<1> USE DEF TransactionInv
<1>1. \A q \in Procs : proc'[q] = IF q = p THEN r ELSE proc[q]  BY DEF HostInv, Shape
<1>2. \A q \in Procs : ProcOK(proc'[q], files, torn)  BY <1>1
<1>3. \A q \in Procs : ProcOK(proc[q], files, torn)'
  BY <1>2 DEF ProcOK, RecordOK, UpdateOK, ReplaceOK, Mixed
<1>4. FilesInv'
  BY <1>1 DEF FilesInv, InstalledIsWhole, In, Transacting, Bundle
<1> QED BY <1>3, <1>4

LEMMA StepKeeps ==
  ASSUME TransactionInv, NEW p \in Procs, NEW to, Step(p, to), UNCHANGED <<files, torn>>,
         proc[p].pc \notin Transacting, to \notin Transacting \cup {"choose"},
         to \in Before => proc[p].pc \in Before \ {"choose"},
         to \in UpdateSteps => proc[p].pc \in UpdateSteps,
         to = "store" /\ proc[p].cmd = "update" => files["manager"] = proc[p].expect
  PROVE  FilesInv' /\ \A q \in Procs : ProcOK(proc[q], files, torn)'
<1> DEFINE r == [proc[p] EXCEPT !.pc = to]
<1>1. proc' = [proc EXCEPT ![p] = r]  BY DEF Step
<1>2. ProcOK(proc[p], files, torn)  BY DEF TransactionInv
<1>3. /\ DOMAIN r = DOMAIN proc[p] /\ r.pc = to /\ r.cmd = proc[p].cmd /\ r.tag = proc[p].tag
      /\ r.expect = proc[p].expect /\ r.saved = proc[p].saved
  BY <1>2 DEF ProcOK, RecordOK
<1>4. RecordOK(r)  BY <1>2, <1>3 DEF ProcOK, RecordOK, Transacting, Before, UpdateSteps
<1>5. UpdateOK(r, files)
  BY <1>2, <1>3 DEF ProcOK, RecordOK, UpdateOK, Transacting, Before
<1>6. ReplaceOK(r, files, torn)  BY <1>3 DEF ReplaceOK, Transacting
<1>7. r.pc \notin Transacting  BY <1>3
<1> QED BY <1>1, <1>4, <1>5, <1>6, <1>7, AwayKeeps DEF ProcOK

LEMMA RestIsOK ==
  ASSUME NEW fs, NEW tn
  PROVE  ProcOK(Rest, fs, tn)
<1>1. Rest.saved \in Seq(Versions \cup {Lost}) /\ Len(Rest.saved) <= 3  BY DEF Rest
<1> QED BY <1>1 DEF ProcOK, RecordOK, UpdateOK, ReplaceOK, Rest, Before, UpdateSteps, Transacting

\* A process ends outside the transaction, or leaves it torn.
LEMMA EndKeeps ==
  ASSUME TransactionInv, NEW p \in Procs, End(p), UNCHANGED files,
         torn' = (torn \/ proc[p].saved # <<>>)
  PROVE  FilesInv' /\ \A q \in Procs : ProcOK(proc[q], files, torn)'
<1> USE DEF TransactionInv
<1>1. \A q \in Procs : proc'[q] = IF q = p THEN Rest ELSE proc[q]
  BY DEF HostInv, Shape, End
<1>2. \A q \in Procs : ProcOK(proc'[q], files, torn')
  <2> SUFFICES ASSUME NEW q \in Procs PROVE ProcOK(proc'[q], files, torn')  OBVIOUS
  <2>1. CASE q = p  BY <1>1, <2>1, RestIsOK
  <2>2. CASE q # p
    <3>1. proc'[q] = proc[q] /\ ProcOK(proc[q], files, torn)  BY <1>1, <2>2
    <3>2. ~torn' => ~torn  OBVIOUS
    <3> QED BY <3>1, <3>2 DEF ProcOK, ReplaceOK
  <2> QED BY <2>1, <2>2
<1>3. \A q \in Procs : ProcOK(proc[q], files, torn)'
  BY <1>2 DEF ProcOK, RecordOK, UpdateOK, ReplaceOK, Mixed
<1>4. FilesInv'
  <2>1. CASE proc[p].saved # <<>>  BY <2>1 DEF FilesInv, InstalledIsWhole
  <2>2. CASE proc[p].saved = <<>> /\ proc[p].pc \notin Transacting
    BY <1>1, <2>2 DEF FilesInv, InstalledIsWhole, In, Transacting, Bundle
  <2>3. CASE proc[p].saved = <<>> /\ proc[p].pc \in Transacting
    <3>1. torn \/ \E old \in Versions : Mixed(proc[p], files, old)
      BY <2>3 DEF ProcOK, ReplaceOK, FilesInv
    <3>2. ASSUME NEW old \in Versions, Mixed(proc[p], files, old)
          PROVE  files = Bundle(old)
      <4>1. \A i \in 1..3 : files[FileOrder[i]] = old  BY <2>3, <3>2 DEF Mixed
      <4>2. \A f \in Files : files[f] = old  BY <4>1, FileFacts
      <4> QED BY <4>2 DEF FilesInv, Bundle
    <3>3. torn \/ \E old \in Versions : files = Bundle(old)  BY <3>1, <3>2
    <3> QED BY <3>3 DEF FilesInv, InstalledIsWhole, Bundle
  <2> QED BY <2>1, <2>2, <2>3
<1> QED BY <1>3, <1>4

\* While p is past the installation lock, what is known of the others says
\* nothing of the files.
LEMMA OthersOK ==
  ASSUME TransactionInv, NEW p \in Procs, proc[p].pc \in InstallLocked,
         NEW q \in Procs \ {p}, NEW fs, NEW tn
  PROVE  proc[q].pc \notin {"store"} \cup Transacting /\ ProcOK(proc[q], fs, tn)
<1>1. proc[q].pc \notin {"store"} \cup Transacting
  BY OneAtATime DEF TransactionInv, HostInv, InstallLocked, Transacting
<1>2. ProcOK(proc[q], files, torn)  BY DEF TransactionInv
<1>3. RecordOK(proc[q])  BY <1>2 DEF ProcOK
<1>4. UpdateOK(proc[q], fs)  BY <1>1, <1>2 DEF ProcOK, UpdateOK, Transacting
<1>5. ReplaceOK(proc[q], fs, tn)  BY <1>1 DEF ReplaceOK, Transacting
<1> QED BY <1>1, <1>3, <1>4, <1>5 DEF ProcOK

\* A process past the installation lock moves to r and may change the files:
\* it suffices to look at itself.
LEMMA LockedKeeps ==
  ASSUME TransactionInv, NEW p \in Procs, proc[p].pc \in InstallLocked,
         NEW r, proc' = [proc EXCEPT ![p] = r], ProcOK(r, files', torn'),
         files' \in [Files -> Versions], torn' \in BOOLEAN,
         torn' \/ r.pc \in Transacting \/ \E v \in Versions : files' = Bundle(v)
  PROVE  FilesInv' /\ \A q \in Procs : ProcOK(proc[q], files, torn)'
<1>1. \A q \in Procs : proc'[q] = IF q = p THEN r ELSE proc[q]
  BY DEF TransactionInv, HostInv, Shape
<1>2. \A q \in Procs : ProcOK(proc'[q], files', torn')  BY <1>1, OthersOK
<1>3. \A q \in Procs : ProcOK(proc[q], files, torn)'
  BY <1>2 DEF ProcOK, RecordOK, UpdateOK, ReplaceOK, Mixed
<1>4. InstalledIsWhole'
  BY <1>1 DEF InstalledIsWhole, In, Transacting, Bundle
<1> QED BY <1>3, <1>4 DEF FilesInv

\* The transaction begins with the files of one version.
LEMMA EnterKeeps ==
  ASSUME TransactionInv, NEW p \in Procs, TakeStoreLock(p)
  PROVE  FilesInv' /\ \A q \in Procs : ProcOK(proc[q], files, torn)'
<1> DEFINE r == [proc[p] EXCEPT !.pc = "replace"]
<1>1. /\ In(p, "store") /\ proc' = [proc EXCEPT ![p] = r] /\ UNCHANGED <<files, torn>>
      /\ proc[p].pc \in InstallLocked
  BY DEF TakeStoreLock, Step, In, InstallLocked
<1>2. ProcOK(proc[p], files, torn) /\ proc[p].saved = <<>>
  BY <1>1 DEF TransactionInv, ProcOK, RecordOK, In, Transacting
<1>3. /\ DOMAIN r = DOMAIN proc[p] /\ r.pc = "replace" /\ r.cmd = proc[p].cmd
      /\ r.tag = proc[p].tag /\ r.expect = proc[p].expect /\ r.saved = proc[p].saved
  BY <1>2 DEF ProcOK, RecordOK
<1>4. RecordOK(r)
  BY <1>1, <1>2, <1>3 DEF ProcOK, RecordOK, In, Transacting, Before, UpdateSteps
<1>5. UpdateOK(r, files)
  BY <1>1, <1>2, <1>3 DEF ProcOK, UpdateOK, In, Transacting, Before
<1>6. ReplaceOK(r, files, torn)
  <2>1. torn \/ \E v \in Versions : files = Bundle(v)
    <3>1. \A q \in Procs : proc[q].pc \notin Transacting
      BY <1>1, OthersOK DEF In, Transacting
    <3> QED BY <3>1 DEF TransactionInv, FilesInv, InstalledIsWhole, In, Transacting
  <2>2. ASSUME NEW v \in Versions, files = Bundle(v)  PROVE Mixed(r, files, v)
    BY <1>2, <1>3, <2>2, FileFacts DEF Mixed, Bundle
  <2> QED BY <1>2, <1>3, <2>1, <2>2 DEF ReplaceOK
<1>7. r.pc \in Transacting  BY <1>3 DEF Transacting
<1> QED BY <1>1, <1>4, <1>5, <1>6, <1>7, LockedKeeps DEF ProcOK, TransactionInv, FilesInv

LEMMA FileIndex ==
  /\ \A i \in 1..3 : FileOrder[i] \in Files
  /\ \A i, j \in 1..3 : FileOrder[i] = FileOrder[j] => i = j
  /\ \A f \in Files : \E i \in 1..3 : FileOrder[i] = f
<1>1. \A i \in 1..3 : i = 1 \/ i = 2 \/ i = 3  OBVIOUS
<1> QED BY <1>1, FileFacts

\* The next file gets its backup.
LEMMA Registering ==
  ASSUME TransactionInv, NEW p \in Procs, In(p, "replace"), ~AllReplaced(p),
         NEW s, s = Append(proc[p].saved, files[Turn(p)]),
         NEW n \in Nat, n = Len(proc[p].saved)
  PROVE  /\ n <= 2 /\ Turn(p) = FileOrder[n + 1] /\ files[Turn(p)] \in Versions
         /\ s \in Seq(Versions \cup {Lost}) /\ Len(s) = n + 1 /\ s[n + 1] = files[Turn(p)]
         /\ \A i \in 1..3 : i <= n => s[i] = proc[p].saved[i]
<1>1. proc[p].saved \in Seq(Versions \cup {Lost}) /\ Len(proc[p].saved) <= 3
  BY DEF TransactionInv, ProcOK, RecordOK
<1>2. n <= 2 /\ Turn(p) = FileOrder[n + 1]
  <2>1. n <= 3  BY <1>1
  <2>2. n # 3  BY FileFacts DEF AllReplaced
  <2>3. n <= 2  BY ONLY <2>1, <2>2, n \in Nat
  <2> QED BY <2>3 DEF Turn
<1>3. files[Turn(p)] \in Versions
  <2>1. n + 1 \in 1..3  BY <1>2
  <2>2. Turn(p) \in Files  BY <1>2, <2>1, FileIndex
  <2> QED BY <2>2 DEF TransactionInv, FilesInv
<1>4. /\ s \in Seq(Versions \cup {Lost}) /\ Len(s) = n + 1 /\ s[n + 1] = files[Turn(p)]
      /\ \A i \in 1..3 : i <= n => s[i] = proc[p].saved[i]
  <2>1. files[Turn(p)] \in Versions \cup {Lost}  BY <1>3
  <2> QED BY <1>1, <2>1, AppendProperties
<1> QED BY <1>2, <1>3, <1>4

LEMMA ReplaceKeeps ==
  ASSUME TransactionInv, NEW p \in Procs, Replace(p)
  PROVE  FilesInv' /\ \A q \in Procs : ProcOK(proc[q], files, torn)'
<1> DEFINE s == Append(proc[p].saved, files[Turn(p)])
           n == Len(proc[p].saved)
           r == [proc[p] EXCEPT !.saved = s]
<1>1. /\ In(p, "replace") /\ ~AllReplaced(p) /\ proc' = [proc EXCEPT ![p] = r] /\ torn' = torn
      /\ files' = [files EXCEPT ![Turn(p)] = Bundle(proc[p].tag)[Turn(p)]]
      /\ proc[p].pc \in InstallLocked
  BY DEF Replace, Registered, In, InstallLocked
<1>2. ProcOK(proc[p], files, torn) /\ files \in [Files -> Versions] /\ torn \in BOOLEAN
  BY DEF TransactionInv, FilesInv
<1>3. /\ n \in Nat /\ n <= 2 /\ Turn(p) = FileOrder[n + 1] /\ files[Turn(p)] \in Versions
      /\ s \in Seq(Versions \cup {Lost}) /\ Len(s) = n + 1 /\ s[n + 1] = files[Turn(p)]
      /\ \A i \in 1..3 : i <= n => s[i] = proc[p].saved[i]
  <2>1. n \in Nat  BY <1>2, LenProperties DEF ProcOK, RecordOK
  <2> QED BY <1>1, <2>1, Registering
<1>4. /\ DOMAIN r = DOMAIN proc[p] /\ r.pc = "replace" /\ r.cmd = proc[p].cmd
      /\ r.tag = proc[p].tag /\ r.expect = proc[p].expect /\ r.saved = s
  BY <1>1, <1>2 DEF ProcOK, RecordOK, In
<1>5. proc[p].tag \in Tags  BY <1>1, <1>2 DEF ProcOK, RecordOK, In, Transacting
<1>6. /\ files' \in [Files -> Versions]
      /\ \A i \in 1..3 : files'[FileOrder[i]] = IF i = n + 1 THEN proc[p].tag ELSE files[FileOrder[i]]
  <2>1. n + 1 \in 1..3 /\ Turn(p) \in Files  BY <1>3, FileIndex
  <2>2. files' = [files EXCEPT ![Turn(p)] = proc[p].tag]  BY <1>1, <2>1 DEF Bundle
  <2>3. proc[p].tag \in Versions  BY <1>5 DEF Versions
  <2> QED BY <1>2, <1>3, <2>1, <2>2, <2>3, FileIndex
<1> HIDE DEF s, n, r
<1>7. RecordOK(r)
  BY <1>2, <1>3, <1>4, <1>5 DEF ProcOK, RecordOK, Transacting, Before, UpdateSteps
<1>8. UpdateOK(r, files')
  <2>1. CASE n = 0
    <3>1. proc[p].saved = <<>>  BY <1>2, <2>1, EmptySeq DEF ProcOK, RecordOK, n
    <3>2. s # <<>> /\ s[1] = files["manager"]  BY <1>3, <2>1, FileFacts
    <3> QED BY <1>1, <1>2, <1>4, <3>1, <3>2 DEF ProcOK, UpdateOK, In
  <2>2. CASE n > 0
    <3>1. proc[p].saved # <<>>  BY <2>2 DEF n
    <3>2. s # <<>> /\ s[1] = proc[p].saved[1]  BY <1>3, <2>2
    <3> QED BY <1>1, <1>2, <1>4, <3>1, <3>2 DEF ProcOK, UpdateOK, In
  <2> QED BY <1>3, <2>1, <2>2
<1>9. ReplaceOK(r, files', torn')
  <2>1. ASSUME NEW i \in 1..3, i <= Len(s)
        PROVE  files'[FileOrder[i]] = proc[p].tag /\ s[i] # Lost
    <3>1. CASE i <= n
      BY <1>1, <1>2, <1>3, <1>6, <3>1 DEF ProcOK, ReplaceOK, In, n
    <3>2. CASE i = n + 1
      BY <1>3, <1>6, <3>2 DEF Versions, Tags, None, Lost
    <3> QED BY <1>3, <2>1, <3>1, <3>2
  <2>2. ASSUME NEW old \in Versions, Mixed(proc[p], files, old)
        PROVE  Mixed(r, files', old)
    BY <1>3, <1>4, <1>6, <2>2 DEF Mixed, n
  <2> QED BY <1>1, <1>2, <1>4, <2>1, <2>2 DEF ProcOK, ReplaceOK, In, Transacting
<1>10. r.pc \in Transacting  BY <1>4 DEF Transacting
<1> QED BY <1>1, <1>2, <1>6, <1>7, <1>8, <1>9, <1>10, LockedKeeps DEF ProcOK

\* A process turns back, with backups of the same old version.
LEMMA TurnBackKeeps ==
  ASSUME TransactionInv, NEW p \in Procs, In(p, "replace"), UNCHANGED <<files, torn>>,
         NEW r, proc' = [proc EXCEPT ![p] = r],
         DOMAIN r = DOMAIN proc[p], r.pc = "rollback", r.tag = proc[p].tag,
         r.saved \in Seq(Versions \cup {Lost}), Len(r.saved) <= 3,
         \A old \in Versions : Mixed(proc[p], files, old) => Mixed(r, files, old)
  PROVE  FilesInv' /\ \A q \in Procs : ProcOK(proc[q], files, torn)'
<1>1. ProcOK(proc[p], files, torn) /\ proc[p].pc \in InstallLocked
  BY DEF TransactionInv, In, InstallLocked
<1>2. RecordOK(r)
  BY <1>1 DEF ProcOK, RecordOK, In, Transacting, Before, UpdateSteps
<1>3. UpdateOK(r, files)  BY DEF UpdateOK, Before, UpdateSteps
<1>4. ReplaceOK(r, files, torn)  BY <1>1 DEF ProcOK, ReplaceOK, In, Transacting
<1>5. r.pc \in Transacting  BY DEF Transacting
<1> QED BY <1>1, <1>2, <1>3, <1>4, <1>5, LockedKeeps DEF ProcOK, TransactionInv, FilesInv

LEMMA FailKeeps ==
  ASSUME TransactionInv, NEW p \in Procs, Fail(p)
  PROVE  FilesInv' /\ \A q \in Procs : ProcOK(proc[q], files, torn)'
<1> DEFINE s == Append(proc[p].saved, files[Turn(p)])
           n == Len(proc[p].saved)
<1>1. In(p, "replace") /\ UNCHANGED <<files, torn>>  BY DEF Fail
<1>2. RecordOK(proc[p])  BY DEF TransactionInv, ProcOK
<1>3. CASE proc' = [proc EXCEPT ![p].pc = "rollback"]
  <2> DEFINE r == [proc[p] EXCEPT !.pc = "rollback"]
  <2>1. proc' = [proc EXCEPT ![p] = r]  BY <1>3
  <2>2. /\ DOMAIN r = DOMAIN proc[p] /\ r.pc = "rollback" /\ r.tag = proc[p].tag
        /\ r.saved = proc[p].saved
    BY <1>2 DEF RecordOK
  <2> HIDE DEF r
  <2>3. \A old \in Versions : Mixed(proc[p], files, old) => Mixed(r, files, old)
    BY <2>2 DEF Mixed
  <2> QED BY <1>1, <1>2, <2>1, <2>2, <2>3, TurnBackKeeps DEF RecordOK
<1>4. CASE ~AllReplaced(p) /\ proc' = [Registered(p) EXCEPT ![p].pc = "rollback"]
  <2> DEFINE r == [proc[p] EXCEPT !.saved = s, !.pc = "rollback"]
  <2>1. proc' = [proc EXCEPT ![p] = r]
    BY <1>4 DEF Registered, TransactionInv, HostInv, Shape
  <2>2. /\ DOMAIN r = DOMAIN proc[p] /\ r.pc = "rollback" /\ r.tag = proc[p].tag
        /\ r.saved = s
    BY <1>2 DEF RecordOK
  <2>3. /\ n \in Nat /\ n <= 2 /\ Turn(p) = FileOrder[n + 1]
        /\ s \in Seq(Versions \cup {Lost}) /\ Len(s) = n + 1 /\ s[n + 1] = files[Turn(p)]
        /\ \A i \in 1..3 : i <= n => s[i] = proc[p].saved[i]
    <3>1. n \in Nat  BY <1>2, LenProperties DEF RecordOK
    <3> QED BY <1>1, <1>4, <3>1, Registering
  <2> HIDE DEF r, s
  <2>4. \A old \in Versions : Mixed(proc[p], files, old) => Mixed(r, files, old)
    BY <2>2, <2>3 DEF Mixed, n
  <2>5. r.saved \in Seq(Versions \cup {Lost}) /\ Len(r.saved) <= 3
    BY <2>2, <2>3
  <2> QED BY <1>1, <2>1, <2>2, <2>4, <2>5, TurnBackKeeps
<1> QED BY <1>3, <1>4 DEF Fail

LEMMA CommitFailsKeeps ==
  ASSUME TransactionInv, NEW p \in Procs, CommitFails(p)
  PROVE  FilesInv' /\ \A q \in Procs : ProcOK(proc[q], files, torn)'
<1>1. In(p, "replace") /\ AllReplaced(p) /\ UNCHANGED <<files, torn>>  BY DEF CommitFails
<1>2. RecordOK(proc[p])  BY DEF TransactionInv, ProcOK
<1>3. PICK gone :
        LET saved == [i \in DOMAIN proc[p].saved |-> IF i \in gone THEN Lost ELSE proc[p].saved[i]]
        IN proc' = [proc EXCEPT ![p] = [@ EXCEPT !.pc = "rollback", !.saved = saved]]
  BY DEF CommitFails
<1> DEFINE s == [i \in DOMAIN proc[p].saved |-> IF i \in gone THEN Lost ELSE proc[p].saved[i]]
           r == [proc[p] EXCEPT !.pc = "rollback", !.saved = s]
<1>4. proc' = [proc EXCEPT ![p] = r]  BY <1>3
<1>5. DOMAIN r = DOMAIN proc[p] /\ r.pc = "rollback" /\ r.tag = proc[p].tag /\ r.saved = s
  BY <1>2 DEF RecordOK
<1>6. /\ s \in Seq(Versions \cup {Lost}) /\ Len(s) = 3
      /\ \A i \in 1..3 : s[i] \in {proc[p].saved[i], Lost}
  <2>1. /\ Len(proc[p].saved) = 3 /\ DOMAIN proc[p].saved = 1..3
        /\ proc[p].saved \in [1..3 -> Versions \cup {Lost}]
    BY <1>1, <1>2, FileFacts, LenProperties DEF AllReplaced, RecordOK
  <2>2. s \in [1..3 -> Versions \cup {Lost}]  BY <2>1
  <2>3. s \in Seq(Versions \cup {Lost}) /\ Len(s) = 3
    <3>1. s \in UNION {[1..n -> Versions \cup {Lost}] : n \in Nat}  BY <2>2
    <3> QED BY <2>2, <3>1, SeqDef, LenProperties
  <2> QED BY <2>1, <2>3
<1> HIDE DEF r, s
<1>7. \A old \in Versions : Mixed(proc[p], files, old) => Mixed(r, files, old)
  BY <1>1, <1>5, <1>6, FileFacts DEF Mixed, AllReplaced
<1>8. r.saved \in Seq(Versions \cup {Lost}) /\ Len(r.saved) <= 3  BY <1>5, <1>6
<1> QED BY <1>1, <1>4, <1>5, <1>7, <1>8, TurnBackKeeps

LEMMA CommitKeeps ==
  ASSUME TransactionInv, NEW p \in Procs, Commit(p)
  PROVE  FilesInv' /\ \A q \in Procs : ProcOK(proc[q], files, torn)'
<1> DEFINE r == [proc[p] EXCEPT !.pc = "init", !.saved = <<>>]
<1>1. /\ In(p, "replace") /\ AllReplaced(p) /\ proc' = [proc EXCEPT ![p] = r]
      /\ files' = files /\ torn' = FALSE
  BY DEF Commit
<1>2. ProcOK(proc[p], files, torn) /\ files \in [Files -> Versions]
  BY DEF TransactionInv, FilesInv
<1>3. DOMAIN r = DOMAIN proc[p] /\ r.pc = "init" /\ r.saved = <<>>
  BY <1>2 DEF ProcOK, RecordOK
<1> HIDE DEF r
<1>4. RecordOK(r)
  <2>1. r.saved \in Seq(Versions \cup {Lost}) /\ Len(r.saved) = 0  BY <1>3
  <2> QED BY <1>2, <1>3, <2>1 DEF ProcOK, RecordOK, Before, UpdateSteps, Transacting
<1>5. UpdateOK(r, files')  BY <1>3 DEF UpdateOK, Before, UpdateSteps
<1>6. ReplaceOK(r, files', torn')  BY <1>3 DEF ReplaceOK, Transacting
<1>7. proc[p].tag \in Versions /\ files' = Bundle(proc[p].tag)
  <2>1. \A i \in 1..3 : files[FileOrder[i]] = proc[p].tag
    BY <1>1, <1>2, FileFacts DEF ProcOK, ReplaceOK, In, AllReplaced
  <2>2. \A f \in Files : files[f] = proc[p].tag  BY <2>1, FileIndex
  <2>3. proc[p].tag \in Versions
    BY <1>1, <1>2 DEF ProcOK, RecordOK, In, Transacting, Versions
  <2> QED BY <1>1, <1>2, <2>2, <2>3 DEF Bundle
<1>8. proc[p].pc \in InstallLocked /\ torn' \in BOOLEAN /\ files' \in [Files -> Versions]
  BY <1>1, <1>2 DEF In, InstallLocked
<1> QED BY <1>1, <1>4, <1>5, <1>6, <1>7, <1>8, LockedKeeps DEF ProcOK

LEMMA RollbackKeeps ==
  ASSUME TransactionInv, NEW p \in Procs, Rollback(p)
  PROVE  FilesInv' /\ \A q \in Procs : ProcOK(proc[q], files, torn)'
<1> DEFINE s == proc[p].saved
<1>1. PICK kept \in SUBSET (DOMAIN s) :
        /\ In(p, "rollback") /\ proc' = [proc EXCEPT ![p] = Rest] /\ files' = Restored(p, kept)
        /\ \A i \in DOMAIN s : s[i] = Lost => i \in kept
        /\ torn' = (torn \/ kept # {})
  BY DEF Rollback, End
<1>2. /\ ProcOK(proc[p], files, torn) /\ files \in [Files -> Versions]
      /\ torn \in BOOLEAN /\ proc[p].pc \in InstallLocked
  BY <1>1 DEF TransactionInv, FilesInv, In, InstallLocked
<1>3. DOMAIN s \subseteq 1..3 /\ \A i \in DOMAIN s : s[i] \in Versions \cup {Lost} /\ i <= Len(s)
  BY <1>2, LenProperties DEF ProcOK, RecordOK
<1>4. ASSUME NEW i \in 1..3
      PROVE  files'[FileOrder[i]] =
               IF i \in DOMAIN s /\ i \notin kept THEN s[i] ELSE files[FileOrder[i]]
  <2>1. FileOrder[i] \in Files  BY FileIndex
  <2>2. \A j \in DOMAIN s : FileOrder[j] = FileOrder[i] => j = i  BY <1>3, FileIndex
  <2> HIDE DEF s
  <2>3. files'[FileOrder[i]] =
          IF \E j \in DOMAIN s \ kept : FileOrder[j] = FileOrder[i]
          THEN s[CHOOSE j \in DOMAIN s : FileOrder[j] = FileOrder[i]] ELSE files[FileOrder[i]]
    BY <1>1, <2>1 DEF Restored, s
  <2>4. i \in DOMAIN s => (CHOOSE j \in DOMAIN s : FileOrder[j] = FileOrder[i]) = i
    BY <2>2
  <2> QED BY <2>2, <2>3, <2>4
<1>5. files' \in [Files -> Versions]
  <2>1. \A i \in 1..3 : files'[FileOrder[i]] \in Versions  BY <1>1, <1>2, <1>3, <1>4, FileIndex
  <2>2. \A f \in Files : files'[f] \in Versions  BY <2>1, FileIndex
  <2> QED BY <1>1, <2>2 DEF Restored
<1>6. torn' \/ \E v \in Versions : files' = Bundle(v)
  <2> SUFFICES ASSUME ~torn' PROVE \E v \in Versions : files' = Bundle(v)  OBVIOUS
  <2>1. ~torn /\ kept = {} /\ \A i \in DOMAIN s : s[i] # Lost  BY <1>1
  <2>2. PICK old \in Versions : Mixed(proc[p], files, old)
    BY <1>1, <1>2, <2>1 DEF ProcOK, ReplaceOK, In, Transacting
  <2>3. DOMAIN s = 1..Len(s)  BY <1>2, LenProperties DEF ProcOK, RecordOK
  <2>4. ASSUME NEW i \in 1..3  PROVE files'[FileOrder[i]] = old
    <3>1. CASE i <= Len(s)
      <4>1. i \in DOMAIN s  BY <2>3, <3>1
      <4> QED BY <1>4, <2>1, <2>2, <3>1, <4>1 DEF Mixed
    <3>2. CASE ~(i <= Len(s))
      <4>1. i \notin DOMAIN s  BY <1>3, <3>2
      <4> QED BY <1>4, <2>2, <3>2, <4>1 DEF Mixed
    <3> QED BY <3>1, <3>2
  <2>5. \A f \in Files : files'[f] = old  BY <2>4, FileIndex
  <2>6. files' = Bundle(old)  BY <1>5, <2>5 DEF Bundle
  <2> QED BY <2>6
<1>7. torn' \in BOOLEAN  BY <1>1
<1> QED BY <1>1, <1>2, <1>5, <1>6, <1>7, RestIsOK, LockedKeeps

\* latest.json only ever names a tag that is a release.
LEMMA TagsKeep ==
  ASSUME TagInv, [Next]_vars
  PROVE  TagInv'
<1>1. CASE ReleasesNext /\ UNCHANGED mirrorVars
  BY <1>1 DEF ReleasesNext, Publish, Relabel, EditNotes, mirrorVars, TagInv
<1>2. CASE PowerLoss /\ UNCHANGED githubVars
  <2>1. "latest" \in DOMAIN disk' /\ disk'.latest \in {durable.latest, disk.latest}
    BY <1>2 DEF PowerLoss
  <2>2. durable' = disk'  BY <1>2 DEF PowerLoss
  <2> QED BY <1>2, <2>1, <2>2 DEF TagInv, githubVars
<1>3. ASSUME NEW r \in Receivers, ReceiverNext(r)  PROVE TagInv'
  <2> USE DEF TagInv, githubVars
  <2>1. UNCHANGED githubVars
    BY <1>3 DEF ReceiverNext, Begin, Existing, Stage, PublishAssets, AssetsDurable, SameSidecar,
      StageSidecar, MakeDirectory, PublishSidecar, SidecarDurable, AlreadyLatest, StageLatest,
      ReplaceLatest, LatestDurable, Refuse, Interrupt, KillReceiver
  <2>2. CASE \/ Existing(r) \/ AssetsDurable(r) \/ AlreadyLatest(r) \/ LatestDurable(r)
             \/ SameSidecar(r) \/ SidecarDurable(r)
    BY <2>1, <2>2 DEF Existing, AssetsDurable, AlreadyLatest, LatestDurable, SameSidecar,
      SidecarDurable, RootDurable, SidesDurable
  <2>3. CASE PublishAssets(r) \/ PublishSidecar(r)
    BY <2>1, <2>3 DEF PublishAssets, PublishSidecar
  <2>4. CASE MakeDirectory(r)  BY <2>1, <2>4 DEF MakeDirectory, RootDurable
  <2>5. CASE ReplaceLatest(r)
    BY <2>1, <2>5 DEF ReplaceLatest, Unmoved, IsLatest, Versions
  <2>6. CASE \/ \E t \in Tags, op \in {"sync", "promote"} : Begin(r, op, t)
             \/ Stage(r) \/ StageSidecar(r) \/ StageLatest(r) \/ Refuse(r) \/ Interrupt(r)
             \/ KillReceiver(r)
    BY <2>1, <2>6 DEF Begin, Stage, StageSidecar, StageLatest, Refuse, Interrupt, KillReceiver
  <2> QED BY <1>3, <2>2, <2>3, <2>4, <2>5, <2>6 DEF ReceiverNext
<1>4. CASE HostNext /\ UNCHANGED mirrorVars
  <2>1. UNCHANGED githubVars
    BY <1>4 DEF HostNext, OtherInstallation, InstallerNext, ManagerNext, Kill, StartInstall,
      TakeInstallLock, TakeHostLock, TakeStoreLock, Decline, Replace, Fail, Commit, CommitFails,
      Rollback, InitHost, InitUnits, InitFails, StartManager, ManagerTakesInstall,
      ManagerTakesHost, ManagerTakesStore, ManagerDeclines, Work, RemoveUnits, ReleaseHost,
      UninstallFails
  <2> QED BY <1>4, <2>1 DEF TagInv, githubVars, mirrorVars
<1>5. CASE \E p \in Procs : UpdaterNext(p)
  <2>1. UNCHANGED <<githubVars, mirrorVars>>
    BY <1>5 DEF UpdaterNext, OpenUpdater, ChooseRelease, Preflight, Download, Unpack, Revalidate,
      Abandon
  <2> QED BY <2>1 DEF TagInv, githubVars, mirrorVars
<1>6. CASE UNCHANGED vars  BY <1>6 DEF TagInv, vars, githubVars, mirrorVars
<1>7. PowerLoss => UNCHANGED githubVars  BY DEF PowerLoss
<1> QED BY <1>1, <1>2, <1>3, <1>4, <1>5, <1>6, <1>7 DEF Next, MirrorNext

\* The processes before and after the transaction.
LEMMA CommandsKeep ==
  ASSUME TransactionInv, NEW p \in Procs,
         InstallerNext(p) \/ ManagerNext(p) \/ Kill(p) \/ UpdaterNext(p)
  PROVE  FilesInv' /\ \A q \in Procs : ProcOK(proc[q], files, torn)'
<1>1. ProcOK(proc[p], files, torn) /\ files \in [Files -> Versions]
  BY DEF TransactionInv, FilesInv
<1>2. files["manager"] \in Versions /\ (files["manager"] # None => files["manager"] \in Tags)
  BY <1>1, FileFacts DEF Versions
<1>3. ASSUME NEW t \in Tags, NEW expect \in {Whatever, None}, StartInstall(p, t, expect)
      PROVE  FilesInv' /\ \A q \in Procs : ProcOK(proc[q], files, torn)'
  <2> DEFINE r == [Rest EXCEPT !.pc = "install", !.cmd = "install", !.tag = t, !.expect = expect]
  <2>1. /\ proc' = [proc EXCEPT ![p] = r] /\ UNCHANGED <<files, torn>>
        /\ proc[p].pc \notin Transacting /\ r.pc \notin Transacting
    BY <1>3 DEF StartInstall, Rest, In, Transacting
  <2>2. RecordOK(r) /\ UpdateOK(r, files) /\ ReplaceOK(r, files, torn)
    BY RestIsOK DEF ProcOK, RecordOK, UpdateOK, ReplaceOK, Rest, Before, UpdateSteps, Transacting
  <2> QED BY <2>1, <2>2, AwayKeeps DEF ProcOK
<1>4. ASSUME NEW cmd \in {"manage", "uninstall"}, StartManager(p, cmd)
      PROVE  FilesInv' /\ \A q \in Procs : ProcOK(proc[q], files, torn)'
  <2> DEFINE r == [Rest EXCEPT !.pc = "m-install", !.cmd = cmd]
  <2>1. /\ proc' = [proc EXCEPT ![p] = r] /\ UNCHANGED <<files, torn>>
        /\ proc[p].pc \notin Transacting /\ r.pc \notin Transacting
    BY <1>4 DEF StartManager, Rest, In, Transacting
  <2>2. RecordOK(r) /\ UpdateOK(r, files) /\ ReplaceOK(r, files, torn)
    BY RestIsOK DEF ProcOK, RecordOK, UpdateOK, ReplaceOK, Rest, Before, UpdateSteps, Transacting
  <2> QED BY <2>1, <2>2, AwayKeeps DEF ProcOK
<1>5. ASSUME NEW src, OpenUpdater(p, src)
      PROVE  FilesInv' /\ \A q \in Procs : ProcOK(proc[q], files, torn)'
  <2> DEFINE r == [Rest EXCEPT !.pc = "choose", !.cmd = "update", !.src = src,
                               !.expect = files["manager"]]
  <2>1. /\ proc' = [proc EXCEPT ![p] = r] /\ UNCHANGED <<files, torn>>
        /\ proc[p].pc \notin Transacting /\ r.pc \notin Transacting
        /\ files["manager"] \in Tags
    BY <1>2, <1>5 DEF OpenUpdater, Rest, In, Transacting
  <2>2. RecordOK(r) /\ UpdateOK(r, files) /\ ReplaceOK(r, files, torn)
    BY <2>1, RestIsOK DEF ProcOK, RecordOK, UpdateOK, ReplaceOK, Rest, Before, Transacting
  <2> QED BY <2>1, <2>2, AwayKeeps DEF ProcOK
<1>6. ASSUME ChooseRelease(p)
      PROVE  FilesInv' /\ \A q \in Procs : ProcOK(proc[q], files, torn)'
  <2>1. PICK i \in Offered(proc[p].src) :
          /\ Newer(i.tag, proc[p].expect)
          /\ proc' = [proc EXCEPT ![p] = [@ EXCEPT !.pc = "preflight", !.tag = i.tag, !.notes = i.notes]]
    BY <1>6 DEF ChooseRelease
  <2> DEFINE r == [proc[p] EXCEPT !.pc = "preflight", !.tag = i.tag, !.notes = i.notes]
  <2>2. i.tag \in Versions
    BY <2>1 DEF Offered, ReadGitHub, ReadMirror, Sidecar, Info, Versions, TransactionInv, TagInv
  <2>3. /\ proc' = [proc EXCEPT ![p] = r] /\ UNCHANGED <<files, torn>>
        /\ In(p, "choose")
    BY <1>6, <2>1 DEF ChooseRelease
  <2>4. /\ DOMAIN r = DOMAIN proc[p] /\ r.pc = "preflight" /\ r.tag = i.tag
        /\ r.cmd = proc[p].cmd /\ r.expect = proc[p].expect /\ r.saved = proc[p].saved
    BY <1>1 DEF ProcOK, RecordOK
  <2> HIDE DEF r
  <2>5. proc[p].cmd = "update" => i.tag \in Tags /\ proc[p].expect < i.tag
    BY <1>1, <2>1, <2>2, <2>3 DEF ProcOK, UpdateOK, Before, UpdateSteps, In, Versions, Tags, None, Newer
  <2>6. proc[p].cmd = "update"
    BY <1>1, <2>3 DEF ProcOK, RecordOK, In, UpdateSteps
  <2>7. RecordOK(r)
    BY <1>1, <2>3, <2>4, <2>5, <2>6 DEF ProcOK, RecordOK, In, Transacting
  <2>8. UpdateOK(r, files)
    BY <1>1, <2>3, <2>4, <2>5 DEF ProcOK, UpdateOK, In, Before, UpdateSteps
  <2>9. ReplaceOK(r, files, torn) /\ r.pc \notin Transacting /\ proc[p].pc \notin Transacting
    BY <2>3, <2>4 DEF ReplaceOK, In, Transacting
  <2> QED BY <2>3, <2>7, <2>8, <2>9, AwayKeeps DEF ProcOK
<1>7. CASE \/ TakeInstallLock(p) \/ TakeHostLock(p) \/ InitHost(p)
           \/ ManagerTakesInstall(p) \/ ManagerTakesHost(p) \/ ManagerTakesStore(p) \/ RemoveUnits(p)
           \/ Preflight(p) \/ Download(p) \/ Unpack(p) \/ Revalidate(p)
  <2> USE DEF In, Before, UpdateSteps, Transacting
  <2>1. UNCHANGED <<files, torn>>
    BY <1>7 DEF TakeInstallLock, TakeHostLock, InitHost, ManagerTakesInstall, ManagerTakesHost,
      ManagerTakesStore, RemoveUnits, Preflight, Download, Unpack, Revalidate
  <2>2. CASE TakeHostLock(p)
    <3>1. proc[p].cmd = "update" => files["manager"] = proc[p].expect
      BY <1>1, <2>2 DEF TakeHostLock, ExpectedManager, ProcOK, UpdateOK, Tags, Whatever
    <3> QED BY <2>1, <2>2, <3>1, StepKeeps DEF TakeHostLock
  <2>3. CASE TakeInstallLock(p) \/ InitHost(p) \/ RemoveUnits(p)
    BY <2>1, <2>3, StepKeeps DEF TakeInstallLock, InitHost, RemoveUnits
  <2>4. CASE ManagerTakesInstall(p) \/ ManagerTakesHost(p)
    BY <2>1, <2>4, StepKeeps DEF ManagerTakesInstall, ManagerTakesHost
  <2>5. CASE ManagerTakesStore(p)
    <3>1. In(p, "m-store") /\ \E to \in {"scenes", "work"} : Step(p, to)
      BY <2>5 DEF ManagerTakesStore
    <3> QED BY <2>1, <3>1, StepKeeps
  <2>6. CASE Preflight(p) \/ Download(p) \/ Unpack(p) \/ Revalidate(p)
    BY <2>1, <2>6, StepKeeps DEF Preflight, Download, Unpack, Revalidate
  <2> QED BY <1>7, <2>2, <2>3, <2>4, <2>5, <2>6
<1>8. CASE \/ Decline(p) \/ InitUnits(p) \/ InitFails(p) \/ ManagerDeclines(p) \/ Work(p)
           \/ ReleaseHost(p) \/ UninstallFails(p) \/ Abandon(p)
  <2>1. UNCHANGED <<files, torn>> /\ proc[p].pc \notin Transacting /\ End(p)
    BY <1>8 DEF Decline, InitUnits, InitFails, ManagerDeclines, Work, ReleaseHost, UninstallFails,
      Abandon, In, UpdateSteps, Transacting
  <2>2. proc[p].saved = <<>>  BY <1>1, <2>1 DEF ProcOK, RecordOK
  <2>3. torn' = (torn \/ proc[p].saved # <<>>)
    BY <2>1, <2>2 DEF TransactionInv, FilesInv
  <2> QED BY <2>1, <2>3, EndKeeps
<1>9. CASE Kill(p)  BY <1>9, EndKeeps DEF Kill
<1>10. CASE \/ TakeStoreLock(p) \/ Replace(p) \/ Fail(p) \/ Commit(p) \/ CommitFails(p) \/ Rollback(p)
  BY <1>10, EnterKeeps, ReplaceKeeps, FailKeeps, CommitKeeps, CommitFailsKeeps, RollbackKeeps
<1>11. CASE InstallerNext(p)  BY <1>3, <1>7, <1>8, <1>10, <1>11 DEF InstallerNext
<1>12. CASE ManagerNext(p)  BY <1>4, <1>7, <1>8, <1>12 DEF ManagerNext
<1>13. CASE UpdaterNext(p)  BY <1>5, <1>6, <1>7, <1>8, <1>13 DEF UpdaterNext
<1> QED BY <1>9, <1>11, <1>12, <1>13

\* The invariant of the transaction, in every reachable state: what each
\* process holds in its backups, and, until a kill or a rollback that warns,
\* which files are of the old version and which of the new one
\* (transactional_replace, commit_transaction, rollback_transaction,
\* verify_expected_manager).
THEOREM TransactionInvariant == Spec => []TransactionInv
<1>1. Init => TransactionInv
  <2> SUFFICES ASSUME Init PROVE TransactionInv  OBVIOUS
  <2>1. TagInv
    BY ReleasesAssumption DEF Init, ReleasesInit, MirrorInit, HostInit, TagInv, Tags, Versions
  <2>2. FilesInv
    BY <2>1 DEF Init, HostInit, FilesInv, InstalledIsWhole, Bundle, TagInv, Versions
  <2>3. \A p \in Procs : ProcOK(proc[p], files, torn)
    BY RestIsOK DEF Init, HostInit
  <2> QED BY <2>1, <2>2, <2>3, HostInvHolds DEF TransactionInv
<1>2. TransactionInv /\ [Next]_vars => TransactionInv'
  <2> SUFFICES ASSUME TransactionInv, [Next]_vars PROVE TransactionInv'  OBVIOUS
  <2>1. HostInv' /\ TagInv'
    BY TagsKeep, HostInvKept DEF TransactionInv
  <2>2. FilesInv' /\ \A q \in Procs : ProcOK(proc[q], files, torn)'
    <3>1. CASE UNCHANGED <<files, torn, proc>>
      BY <3>1 DEF TransactionInv, FilesInv, InstalledIsWhole, In, Bundle, ProcOK, RecordOK,
        UpdateOK, ReplaceOK, Mixed
    <3>2. ASSUME NEW p \in Procs,
                 InstallerNext(p) \/ ManagerNext(p) \/ Kill(p) \/ UpdaterNext(p)
          PROVE  FilesInv' /\ \A q \in Procs : ProcOK(proc[q], files, torn)'
      BY <3>2, CommandsKeep
    <3>3. UNCHANGED hostVars \/ OtherInstallation => UNCHANGED <<files, torn, proc>>
      BY DEF hostVars, OtherInstallation
    <3> QED BY <3>1, <3>2, <3>3 DEF Next, HostNext, vars
  <2> QED BY <2>1, <2>2 DEF TransactionInv
<1> QED BY <1>1, <1>2, PTL DEF Spec

\* An installer that fails leaves the version it found, however far it came
\* and whatever other processes do meanwhile, for any number of processes and
\* versions, unless it was killed in the transaction or its rollback has
\* warned of a file it could not put back (transactional_replace,
\* rollback_transaction).
THEOREM InstalledStaysWhole == Spec => []InstalledIsWhole
<1>1. TransactionInv => InstalledIsWhole  BY DEF TransactionInv, FilesInv
<1> QED BY <1>1, TransactionInvariant, PTL

\* An update never puts an older program in the place of a newer one, for any
\* number of updates and installations beside each other (checkAndUpdate,
\* preflightSelfUpdate, verify_expected_manager).
THEOREM UpdatesGoForward == Spec => []UpdateGoesForward
<1>1. TransactionInv => UpdateGoesForward
  <2> SUFFICES ASSUME TransactionInv, NEW p \in Procs, proc[p].cmd = "update",
                      In(p, "replace"), proc[p].saved # <<>>
               PROVE  proc[p].saved[1] \in 1..(proc[p].tag - 1)
    BY DEF UpdateGoesForward
  <2>1. ProcOK(proc[p], files, torn)  BY DEF TransactionInv
  <2>2. /\ proc[p].saved[1] = proc[p].expect /\ proc[p].expect \in Tags /\ proc[p].tag \in Tags
        /\ proc[p].expect < proc[p].tag
    BY <2>1 DEF ProcOK, RecordOK, UpdateOK, In, Before, Transacting
  <2> QED BY <2>2, ReleasesAssumption DEF Tags
<1> QED BY <1>1, TransactionInvariant, PTL

-----------------------------------------------------------------------------
(***************************************************************************)
(* What the mirror promises its clients, for any number of receivers,      *)
(* releases, kills, failures and losses of power (Mirror).                 *)
(*                                                                         *)
(* The argument: what is durable is visible, so what must be shown is that *)
(* a tag is durable before it counts.  A call knows, by how far it is,     *)
(* what it or an earlier one has made durable; a call of promotion that    *)
(* its tag has been synced; and none of that is ever taken back.           *)
(***************************************************************************)

Fields == {"rel", "dir", "side", "latest"}

ReleaseInv == published \subseteq Tags

TreeInv ==
  /\ DOMAIN disk = Fields /\ DOMAIN durable = Fields
  /\ disk.latest \in Versions /\ durable.latest \in Versions

\* What is durable is visible; the directory of the sidecars is made durable
\* before anything is put into it.
DurableInv ==
  /\ durable.rel \subseteq disk.rel /\ durable.side \subseteq disk.side
  /\ disk.dir <=> durable.dir
  /\ disk.side # {} => disk.dir
  /\ disk.latest >= durable.latest

\* What counts is durable.
KeptInv ==
  \A t \in (synced \cup {disk.latest, durable.latest}) \ {None} : Serves(durable, t)

\* What a call knows at its place.
KnownOf(c) ==
  /\ {"pc", "info", "seen", "staged"} \subseteq DOMAIN c
  /\ c.pc = "assets" => c.info.tag \in disk.rel
  /\ c.pc \in {"side", "sidecar", "sidesync"} => c.info.tag \in durable.rel
  /\ c.pc = "sidesync" => c.info \in disk.side /\ disk.dir
  /\ c.pc \in {"promote", "ready"} => c.info.tag \in synced
  /\ c.pc = "ready" => c.seen \in Versions /\ c.info.tag >= c.seen

CallInv == DOMAIN call = Receivers /\ \A r \in Receivers : KnownOf(call[r])

MirrorInv == ReleaseInv /\ TreeInv /\ DurableInv /\ KeptInv /\ CallInv

-------------------------------------------------------------------------------
\* The calls.

\* A call that moves to c, while what is known only grows.
LEMMA CallMoves ==
  ASSUME CallInv, NEW r \in Receivers, NEW c, call' = [call EXCEPT ![r] = c],
         KnownOf(call[r])',
         disk.rel \subseteq disk'.rel, durable.rel \subseteq durable'.rel,
         disk.side \subseteq disk'.side, disk.dir => disk'.dir, synced \subseteq synced'
  PROVE  CallInv'
<1>1. \A q \in Receivers : call'[q] = IF q = r THEN c ELSE call[q]  BY DEF CallInv
<1>2. ASSUME NEW q \in Receivers, q # r  PROVE KnownOf(call[q])'
  BY <1>1, <1>2 DEF CallInv, KnownOf
<1>3. DOMAIN call' = Receivers  BY DEF CallInv
<1> QED BY <1>2, <1>3 DEF CallInv

\* A call that ends.
LEMMA LeaveKeeps ==
  ASSUME CallInv, NEW r \in Receivers, Leave(r), UNCHANGED disk,
         durable.rel \subseteq durable'.rel, synced \subseteq synced'
  PROVE  CallInv'
<1>1. call' = [call EXCEPT ![r] = Idle]  BY DEF Leave
<1>2. call'[r] = Idle  BY <1>1 DEF CallInv
<1>3. KnownOf(call[r])'  BY <1>2 DEF KnownOf, Idle
<1> QED BY <1>1, <1>3, CallMoves

\* A step that changes nothing that is known.
LEMMA QuietKeeps ==
  ASSUME MirrorInv, UNCHANGED <<published, disk, durable, synced>>, CallInv'
  PROVE  MirrorInv'
BY DEF MirrorInv, ReleaseInv, TreeInv, DurableInv, KeptInv, Serves

\* Assets, directory and latest.json become durable.
LEMMA RootSynced ==
  ASSUME MirrorInv, durable' = RootDurable(disk), UNCHANGED <<published, disk>>,
         synced \subseteq synced', \A t \in synced' \ synced : Serves(durable', t)
  PROVE  /\ ReleaseInv' /\ TreeInv' /\ DurableInv' /\ KeptInv'
         /\ durable.rel \subseteq durable'.rel
<1>1. /\ DOMAIN durable' = Fields /\ durable'.rel = disk.rel /\ durable'.side = durable.side
      /\ durable'.latest = disk.latest
  BY DEF RootDurable, MirrorInv, TreeInv, Fields
<1>2. durable'.dir <=> disk.dir  BY DEF RootDurable, MirrorInv, TreeInv, Fields
<1>3. durable.rel \subseteq durable'.rel  BY <1>1 DEF MirrorInv, DurableInv
<1>4. ReleaseInv' /\ TreeInv'  BY <1>1 DEF MirrorInv, ReleaseInv, TreeInv
<1>5. DurableInv'  BY <1>1, <1>2 DEF MirrorInv, DurableInv, TreeInv, Versions, Tags, None
<1>6. \A t : Serves(durable, t) => Serves(durable', t)
  BY <1>1, <1>2, <1>3 DEF MirrorInv, DurableInv, Serves
<1>7. KeptInv'  BY <1>1, <1>6 DEF MirrorInv, KeptInv
<1> QED BY <1>3, <1>4, <1>5, <1>7

LEMMA ReceiverKeeps ==
  ASSUME MirrorInv, NEW r \in Receivers, ReceiverNext(r)
  PROVE  MirrorInv'
<1> USE DEF MirrorInv
<1>1. KnownOf(call[r]) /\ DOMAIN call = Receivers  BY DEF CallInv
<1>2. ASSUME NEW t \in Tags, NEW op \in {"sync", "promote"}, Begin(r, op, t)  PROVE MirrorInv'
  <2> DEFINE c == [Idle EXCEPT !.pc = op, !.info = Info(t)]
  <2>1. call' = [call EXCEPT ![r] = c] /\ UNCHANGED <<published, disk, durable, synced>>
    BY <1>2 DEF Begin, githubVars
  <2>2. call'[r] = [pc |-> op, info |-> Info(t), seen |-> None, staged |-> 0]
    BY <1>1, <2>1 DEF Idle
  <2>3. /\ call'[r].pc = op /\ call'[r].info = Info(t)
        /\ {"pc", "info", "seen", "staged"} \subseteq DOMAIN call'[r]
    BY ONLY <2>2
  <2>4. Info(t).tag = t  BY ONLY DEF Info
  <2>5. op = "promote" => t \in synced  BY <1>2 DEF Begin, Requested
  <2>6. KnownOf(call[r])'  BY <2>1, <2>3, <2>4, <2>5 DEF KnownOf
  <2> QED BY <2>1, <2>6, CallMoves, QuietKeeps
<1>3. CASE Existing(r)
  <2> DEFINE c == [call[r] EXCEPT !.pc = "side"]
  <2>1. call' = [call EXCEPT ![r] = c] /\ UNCHANGED <<published, disk, synced>>
        /\ durable' = RootDurable(disk) /\ call[r].info.tag \in disk.rel
    BY <1>3 DEF Existing, Goto, githubVars
  <2>2. durable'.rel = disk.rel  BY <2>1 DEF RootDurable, TreeInv, Fields
  <2>c. /\ call'[r].pc = "side" /\ call'[r].info = call[r].info /\ call'[r].seen = call[r].seen
        /\ {"pc", "info", "seen", "staged"} \subseteq DOMAIN call'[r]
    BY <1>1, <2>1 DEF KnownOf
  <2>3. KnownOf(call[r])'  BY <2>c, <1>1, <2>1, <2>2 DEF KnownOf
  <2> QED BY <2>1, <2>3, RootSynced, CallMoves
<1>4. CASE Stage(r)
  <2> DEFINE c == [call[r] EXCEPT !.pc = "download", !.staged = 1]
  <2>1. call' = [call EXCEPT ![r] = c] /\ UNCHANGED <<published, disk, durable, synced>>
    BY <1>4 DEF Stage, NewStage, githubVars
  <2>c. /\ call'[r].pc = "download" /\ call'[r].staged = 1 /\ call'[r].info = call[r].info /\ call'[r].seen = call[r].seen
        /\ {"pc", "info", "seen", "staged"} \subseteq DOMAIN call'[r]
    BY <1>1, <2>1 DEF KnownOf
  <2>2. KnownOf(call[r])'  BY <2>c, <1>1 DEF KnownOf
  <2> QED BY <2>1, <2>2, CallMoves, QuietKeeps
<1>5. CASE PublishAssets(r)
  <2> DEFINE c == [call[r] EXCEPT !.pc = "assets"]
  <2>1. call' = [call EXCEPT ![r] = c] /\ UNCHANGED <<published, durable, synced>>
        /\ disk' = [disk EXCEPT !.rel = disk.rel \cup {call[r].info.tag}]
    BY <1>5 DEF PublishAssets, Payload, Goto, githubVars
  <2>2. /\ DOMAIN disk' = Fields /\ disk'.rel = disk.rel \cup {call[r].info.tag}
        /\ disk'.side = disk.side /\ disk'.latest = disk.latest
    BY <2>1 DEF TreeInv, Fields
  <2>3. disk'.dir <=> disk.dir  BY <2>1 DEF TreeInv, Fields
  <2>c. /\ call'[r].pc = "assets" /\ call'[r].info = call[r].info /\ call'[r].seen = call[r].seen
        /\ {"pc", "info", "seen", "staged"} \subseteq DOMAIN call'[r]
    BY <1>1, <2>1 DEF KnownOf
  <2>4. KnownOf(call[r])'  BY <2>c, <1>1, <2>2 DEF KnownOf
  <2>5. CallInv'  BY <2>1, <2>2, <2>3, <2>4, CallMoves
  <2> QED BY <2>1, <2>2, <2>3, <2>5 DEF ReleaseInv, TreeInv, DurableInv, KeptInv, Serves
<1>6. CASE AssetsDurable(r)
  <2> DEFINE c == [call[r] EXCEPT !.pc = "side", !.staged = 0]
  <2>1. call' = [call EXCEPT ![r] = c] /\ UNCHANGED <<published, disk, synced>>
        /\ durable' = RootDurable(disk) /\ call[r].pc = "assets"
    BY <1>6 DEF AssetsDurable, At, DropStage, githubVars
  <2>2. durable'.rel = disk.rel  BY <2>1 DEF RootDurable, TreeInv, Fields
  <2>c. /\ call'[r].pc = "side" /\ call'[r].staged = 0 /\ call'[r].info = call[r].info /\ call'[r].seen = call[r].seen
        /\ {"pc", "info", "seen", "staged"} \subseteq DOMAIN call'[r]
    BY <1>1, <2>1 DEF KnownOf
  <2>3. KnownOf(call[r])'  BY <2>c, <1>1, <2>1, <2>2 DEF KnownOf
  <2> QED BY <2>1, <2>3, RootSynced, CallMoves
<1>7. CASE SameSidecar(r)
  <2>1. /\ Leave(r) /\ UNCHANGED <<published, disk>> /\ durable' = disk
        /\ synced' = synced \cup {call[r].info.tag} /\ call[r].pc = "side"
        /\ call[r].info \in disk.side
    BY <1>7 DEF SameSidecar, At, Succeed, Sidecar, githubVars
  <2>2. Serves(disk, call[r].info.tag)
    BY <1>1, <2>1 DEF KnownOf, DurableInv, Serves
  <2>3. \A t : Serves(durable, t) => Serves(disk, t)  BY DEF DurableInv, Serves
  <2>4. KeptInv'  BY <2>1, <2>2, <2>3 DEF KeptInv
  <2>5. CallInv'  BY <2>1, LeaveKeeps DEF DurableInv
  <2>6. DurableInv'  BY <2>1 DEF DurableInv, TreeInv, Versions, Tags, None
  <2> QED BY <2>1, <2>4, <2>5, <2>6 DEF ReleaseInv, TreeInv
<1>8. CASE StageSidecar(r)
  <2> DEFINE c == [call[r] EXCEPT !.pc = "sidecar", !.staged = 1]
  <2>1. call' = [call EXCEPT ![r] = c] /\ UNCHANGED <<published, disk, durable, synced>>
        /\ call[r].pc = "side"
    BY <1>8 DEF StageSidecar, At, NewStage, githubVars
  <2>c. /\ call'[r].pc = "sidecar" /\ call'[r].staged = 1 /\ call'[r].info = call[r].info /\ call'[r].seen = call[r].seen
        /\ {"pc", "info", "seen", "staged"} \subseteq DOMAIN call'[r]
    BY <1>1, <2>1 DEF KnownOf
  <2>2. KnownOf(call[r])'  BY <2>c, <1>1, <2>1 DEF KnownOf
  <2> QED BY <2>1, <2>2, CallMoves, QuietKeeps
<1>9. CASE MakeDirectory(r)
  <2>1. /\ UNCHANGED <<published, call, synced>> /\ disk' = [disk EXCEPT !.dir = TRUE]
        /\ durable' = [durable EXCEPT !.rel = disk'.rel, !.dir = disk'.dir, !.latest = disk'.latest]
    BY <1>9 DEF MakeDirectory, RootDurable, githubVars
  <2>2. /\ DOMAIN disk' = Fields /\ disk'.rel = disk.rel /\ disk'.side = disk.side
        /\ disk'.latest = disk.latest /\ disk'.dir
    BY <2>1 DEF TreeInv, Fields
  <2>3. /\ DOMAIN durable' = Fields /\ durable'.rel = disk.rel /\ durable'.side = durable.side
        /\ durable'.latest = disk.latest /\ durable'.dir
    BY <2>1, <2>2 DEF TreeInv, Fields
  <2>4. CallInv'  BY <2>1, <2>2, <2>3 DEF CallInv, KnownOf, DurableInv
  <2>5. DurableInv'  BY <2>2, <2>3 DEF DurableInv, TreeInv, Versions, Tags, None
  <2>6. KeptInv'  BY <2>1, <2>2, <2>3 DEF KeptInv, DurableInv, Serves
  <2> QED BY <2>1, <2>2, <2>3, <2>4, <2>5, <2>6 DEF ReleaseInv, TreeInv
<1>10. CASE PublishSidecar(r)
  <2> DEFINE c == [call[r] EXCEPT !.pc = "sidesync"]
  <2>1. call' = [call EXCEPT ![r] = c] /\ UNCHANGED <<published, durable, synced>>
        /\ disk' = [disk EXCEPT !.side = disk.side \cup {call[r].info}]
        /\ disk.dir /\ call[r].pc = "sidecar"
    BY <1>10 DEF PublishSidecar, At, Goto, githubVars
  <2>2. /\ DOMAIN disk' = Fields /\ disk'.side = disk.side \cup {call[r].info}
        /\ disk'.rel = disk.rel /\ disk'.latest = disk.latest /\ disk'.dir
    BY <2>1 DEF TreeInv, Fields
  <2>c. /\ call'[r].pc = "sidesync" /\ call'[r].info = call[r].info /\ call'[r].seen = call[r].seen
        /\ {"pc", "info", "seen", "staged"} \subseteq DOMAIN call'[r]
    BY <1>1, <2>1 DEF KnownOf
  <2>3. KnownOf(call[r])'  BY <2>c, <1>1, <2>1, <2>2 DEF KnownOf
  <2>4. CallInv'  BY <2>1, <2>2, <2>3, CallMoves
  <2> QED BY <2>1, <2>2, <2>4 DEF ReleaseInv, TreeInv, DurableInv, KeptInv, Serves
<1>11. CASE SidecarDurable(r)
  <2>1. /\ Leave(r) /\ UNCHANGED <<published, disk>>
        /\ durable' = [durable EXCEPT !.side = disk.side]
        /\ synced' = synced \cup {call[r].info.tag} /\ call[r].pc = "sidesync"
    BY <1>11 DEF SidecarDurable, SidesDurable, At, Succeed, githubVars
  <2>2. /\ DOMAIN durable' = Fields /\ durable'.side = disk.side
        /\ durable'.rel = durable.rel /\ durable'.latest = durable.latest
    BY <2>1 DEF TreeInv, Fields
  <2>3. durable'.dir <=> durable.dir  BY <2>1 DEF TreeInv, Fields
  <2>4. Serves(durable', call[r].info.tag)
    BY <1>1, <2>1, <2>2, <2>3 DEF KnownOf, DurableInv, Serves
  <2>5. \A t : Serves(durable, t) => Serves(durable', t)
    BY <2>2, <2>3 DEF DurableInv, Serves
  <2>6. KeptInv'  BY <2>1, <2>2, <2>4, <2>5 DEF KeptInv
  <2>7. CallInv'  BY <2>1, <2>2, LeaveKeeps
  <2>8. DurableInv'  BY <2>1, <2>2, <2>3 DEF DurableInv
  <2> QED BY <2>1, <2>2, <2>6, <2>7, <2>8 DEF ReleaseInv, TreeInv
<1>12. CASE AlreadyLatest(r) \/ LatestDurable(r)
  <2>1. Leave(r) /\ UNCHANGED <<published, disk, synced>> /\ durable' = RootDurable(disk)
    BY <1>12 DEF AlreadyLatest, LatestDurable, Succeed, githubVars
  <2> QED BY <2>1, RootSynced, LeaveKeeps
<1>13. CASE StageLatest(r)
  <2> DEFINE c == [call[r] EXCEPT !.pc = "ready", !.staged = 1, !.seen = Manifest]
  <2>1. call' = [call EXCEPT ![r] = c] /\ UNCHANGED <<published, disk, durable, synced>>
        /\ call[r].pc = "promote" /\ call[r].info.tag >= disk.latest
    BY <1>13 DEF StageLatest, Promotable, Manifest, At, githubVars
  <2>c. /\ call'[r].pc = "ready" /\ call'[r].staged = 1 /\ call'[r].seen = Manifest /\ call'[r].info = call[r].info
        /\ {"pc", "info", "seen", "staged"} \subseteq DOMAIN call'[r]
    BY <1>1, <2>1 DEF KnownOf
  <2>2. KnownOf(call[r])'  BY <2>c, <1>1, <2>1 DEF KnownOf, Manifest, TreeInv
  <2> QED BY <2>1, <2>2, CallMoves, QuietKeeps
<1>14. CASE ReplaceLatest(r)
  <2> DEFINE c == [call[r] EXCEPT !.pc = "latest"]
  <2>1. call' = [call EXCEPT ![r] = c] /\ UNCHANGED <<published, durable, synced>>
        /\ disk' = [disk EXCEPT !.latest = call[r].info.tag]
        /\ call[r].pc = "ready" /\ call[r].info.tag \in published /\ disk.latest = call[r].seen
    BY <1>14 DEF ReplaceLatest, Unmoved, IsLatest, Manifest, At, Goto, githubVars
  <2>2. /\ DOMAIN disk' = Fields /\ disk'.latest = call[r].info.tag
        /\ disk'.rel = disk.rel /\ disk'.side = disk.side
    BY <2>1 DEF TreeInv, Fields
  <2>3. disk'.dir <=> disk.dir  BY <2>1 DEF TreeInv, Fields
  <2>c. /\ call'[r].pc = "latest" /\ call'[r].info = call[r].info /\ call'[r].seen = call[r].seen
        /\ {"pc", "info", "seen", "staged"} \subseteq DOMAIN call'[r]
    BY <1>1, <2>1 DEF KnownOf
  <2>4. KnownOf(call[r])'  BY <2>c, <1>1 DEF KnownOf
  <2>5. CallInv'  BY <2>1, <2>2, <2>3, <2>4, CallMoves
  <2>6. call[r].info.tag \in Tags /\ call[r].info.tag \in synced /\ call[r].info.tag >= disk.latest
    BY <1>1, <2>1 DEF ReleaseInv, KnownOf
  <2>7. TreeInv'  BY <2>1, <2>2, <2>6 DEF TreeInv, Versions
  <2>8. DurableInv'
    BY <2>1, <2>2, <2>3, <2>6 DEF DurableInv, TreeInv, Versions, Tags, None
  <2>9. KeptInv'  BY <2>1, <2>2, <2>6 DEF KeptInv
  <2> QED BY <2>1, <2>5, <2>7, <2>8, <2>9 DEF ReleaseInv
<1>15. CASE Refuse(r) \/ Interrupt(r) \/ KillReceiver(r)
  <2>1. Leave(r) /\ UNCHANGED <<published, disk, durable, synced>>
    BY <1>15 DEF Refuse, Interrupt, KillReceiver, Succeed, githubVars
  <2> QED BY <2>1, LeaveKeeps, QuietKeeps
<1> QED BY <1>2, <1>3, <1>4, <1>5, <1>6, <1>7, <1>8, <1>9, <1>10, <1>11, <1>12, <1>13, <1>14,
           <1>15 DEF ReceiverNext

-------------------------------------------------------------------------------
\* The rest of the system.

\* What a loss of power may take had not been made durable.
LEMMA PowerLossKeeps ==
  ASSUME MirrorInv, PowerLoss  PROVE MirrorInv'
<1> USE DEF MirrorInv
<1>1. PICK rel \in SUBSET disk.rel, dir \in {durable.dir, disk.dir}, side \in SUBSET disk.side,
           latest \in {durable.latest, disk.latest} :
        /\ durable.rel \subseteq rel /\ durable.side \subseteq side
        /\ disk' = [rel |-> rel, dir |-> dir, side |-> IF dir THEN side ELSE {},
                    latest |-> latest]
  BY DEF PowerLoss
<1>2. /\ DOMAIN disk' = Fields /\ disk'.rel = rel /\ disk'.dir = dir /\ disk'.latest = latest
      /\ disk'.side = IF dir THEN side ELSE {}
  BY <1>1 DEF Fields
<1>3. /\ durable' = disk' /\ call' = [r \in Receivers |-> Idle]
      /\ UNCHANGED <<published, synced>>
  BY DEF PowerLoss, githubVars
<1>4. \A t : Serves(durable, t) => Serves(disk', t)
  BY <1>1, <1>2 DEF DurableInv, Serves
<1>5. KeptInv'  BY <1>1, <1>2, <1>3, <1>4 DEF KeptInv
<1>6. CallInv'  BY <1>3 DEF CallInv, KnownOf, Idle
<1>7. TreeInv'  BY <1>1, <1>2, <1>3 DEF TreeInv
<1>8. disk'.latest >= durable'.latest  BY <1>3, <1>7 DEF TreeInv, Versions, Tags, None
<1> QED BY <1>2, <1>3, <1>5, <1>6, <1>7, <1>8 DEF ReleaseInv, DurableInv

\* A release that appears is one of the tags; none goes away.
LEMMA ReleasesKeep ==
  ASSUME MirrorInv, ReleasesNext, UNCHANGED <<disk, durable, synced, call>>
  PROVE  MirrorInv'
<1> USE DEF MirrorInv
<1>1. ReleaseInv'  BY DEF ReleaseInv, ReleasesNext, Publish, Relabel, EditNotes
<1>2. CallInv'  BY DEF CallInv, KnownOf
<1> QED BY <1>1, <1>2 DEF TreeInv, DurableInv, KeptInv, Serves

LEMMA MirrorSteps ==
  ASSUME MirrorInv, [Next]_vars  PROVE MirrorInv'
<1>1. ASSUME UNCHANGED <<published, disk, durable, synced, call>>
      PROVE  MirrorInv'
  <2>1. CallInv'  BY <1>1 DEF MirrorInv, CallInv, KnownOf
  <2> QED BY <1>1, <2>1, QuietKeeps
<1>2. CASE ReleasesNext /\ UNCHANGED <<mirrorVars, hostVars>>
  BY <1>2, ReleasesKeep DEF mirrorVars
<1>3. CASE MirrorNext
  BY <1>3, ReceiverKeeps, PowerLossKeeps DEF MirrorNext
<1>4. CASE HostNext /\ UNCHANGED mirrorVars
  <2>1. UNCHANGED githubVars
    BY <1>4 DEF HostNext, OtherInstallation, InstallerNext, ManagerNext, Kill, StartInstall,
      TakeInstallLock, TakeHostLock, TakeStoreLock, Decline, Replace, Fail, Commit, CommitFails,
      Rollback, InitHost, InitUnits, InitFails, StartManager, ManagerTakesInstall,
      ManagerTakesHost, ManagerTakesStore, ManagerDeclines, Work, RemoveUnits, ReleaseHost,
      UninstallFails
  <2> QED BY <1>4, <2>1, <1>1 DEF githubVars, mirrorVars
<1>5. CASE \E p \in Procs : UpdaterNext(p)
  BY <1>5, <1>1 DEF UpdaterNext, OpenUpdater, ChooseRelease, Preflight, Download, Unpack,
     Revalidate, Abandon, githubVars, mirrorVars
<1>6. CASE UNCHANGED vars
  BY <1>6, <1>1 DEF vars, githubVars, mirrorVars
<1> QED BY <1>2, <1>3, <1>4, <1>5, <1>6 DEF Next

LEMMA MirrorStarts == Init => MirrorInv
<1> SUFFICES ASSUME Init  PROVE MirrorInv
  OBVIOUS
<1>1. published = {1} /\ 1 \in Tags  BY ReleasesAssumption DEF Init, ReleasesInit, Tags
<1>2. /\ durable = disk /\ synced = disk.rel /\ call = [r \in Receivers |-> Idle]
  BY DEF Init, MirrorInit
<1>3. \/ disk = [rel |-> {}, dir |-> FALSE, side |-> {}, latest |-> None]
      \/ disk = [rel |-> {1}, dir |-> TRUE, side |-> {[tag |-> 1, notes |-> 0]}, latest |-> 1]
  BY <1>1 DEF Init, MirrorInit
<1>4. TreeInv  BY <1>1, <1>2, <1>3 DEF TreeInv, Fields, Versions
<1>5. CallInv  BY <1>2 DEF CallInv, KnownOf, Idle
<1>6. KeptInv
  <2>1. CASE disk.rel = {} /\ disk.latest = None
    BY ONLY <1>2, <2>1 DEF KeptInv
  <2>2. CASE disk = [rel |-> {1}, dir |-> TRUE, side |-> {[tag |-> 1, notes |-> 0]}, latest |-> 1]
    <3> DEFINE s == [tag |-> 1, notes |-> 0]
    <3>1. disk.rel = {1} /\ disk.dir /\ s \in disk.side /\ disk.latest = 1
      BY ONLY <2>2
    <3>2. s.tag = 1  OBVIOUS
    <3>3. Serves(disk, 1)  BY ONLY <3>1, <3>2 DEF Serves
    <3> QED BY ONLY <1>2, <3>1, <3>3 DEF KeptInv
  <2> QED BY <1>3, <2>1, <2>2
<1>7. DurableInv  BY <1>2, <1>3 DEF DurableInv, None
<1> QED BY <1>1, <1>4, <1>5, <1>6, <1>7 DEF MirrorInv, ReleaseInv

-------------------------------------------------------------------------------

\* At every step of every call, what the receiver relies on is durable: the
\* directory before the sidecars in it, the assets before the sidecar, both
\* before a sync reports success, and a sync before its tag is promoted
\* (sync_release, publish_metadata, promote_release).
THEOREM MirrorInvariant == Spec => []MirrorInv
BY MirrorStarts, MirrorSteps, PTL DEF Spec

\* The tag latest.json names and every tag whose sync has reported success are
\* complete in the public tree and on the disk under it, and a loss of power
\* never uncovers a newer latest.json than the clients read.
THEOREM PublishedStaysServed == Spec => []PublishedIsServed
<1>1. ASSUME MirrorInv  PROVE PublishedIsServed
  <2>1. \A t : Serves(durable, t) => Serves(disk, t)
    BY <1>1 DEF MirrorInv, DurableInv, Serves
  <2> QED BY <1>1, <2>1 DEF MirrorInv, KeptInv, DurableInv, PublishedIsServed
<1> QED BY <1>1, MirrorInvariant, PTL

===============================================================================
