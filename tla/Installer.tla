------------------------------- MODULE Installer -------------------------------
(***************************************************************************)
(* One host: the files install.sh replaces in a transaction, the three     *)
(* locks that it and every changing command of the manager take, the       *)
(* record of the installation that owns the host, and the units and scenes *)
(* that ownership protects (install.sh, ownership.go, app.go).  The        *)
(* installer hands its locks to the manager it starts.                     *)
(*                                                                         *)
(* Abstractions.  The program, the pinned Xray and the ownership record of *)
(* the installation stand for the files of a bundle; each is the version   *)
(* it came with, or None.  The files are checked before they are used.     *)
(* The transaction of a bundle (--offline) is modelled; the online         *)
(* installation runs the same steps with another order of files.  What a   *)
(* command changes under the locks is whether this installation has units  *)
(* and scenes on the host; the runtime transaction itself is               *)
(* RuntimeTransition.                                                      *)
(***************************************************************************)
EXTENDS Releases

CONSTANTS Procs \* processes of the administrator

ASSUME InstallerAssumption == None \notin Procs

VARIABLES
  files,      \* what is installed
  locks,      \* who holds each lock
  hostRecord, \* /etc/proxyscene-host-ownership.json
  shared,     \* this installation has units or scenes on the host
  proc,       \* what each process is doing
  torn        \* history: a transaction was killed, or its rollback has left a file

hostVars == <<files, locks, hostRecord, shared, proc, torn>>

\* The order in which install_offline_local and its caller replace the files.
FileOrder == <<"manager", "xray", "ownership">>
Files == {FileOrder[i] : i \in 1..Len(FileOrder)}

\* The files of a verified bundle.
Bundle(t) == [f \in Files |-> t]

Locks == {"install", "host", "store"}

Versions == Tags \cup {None}

Lost == -1 \* a backup that is gone

\* cmd is the command; tag what it installs; expect the program it expects to
\* replace (Whatever: none); saved the backups, in the order of the files.
Whatever == -1
Rest == [pc |-> "idle", cmd |-> "none", tag |-> None, notes |-> 0, src |-> "none",
         expect |-> Whatever, saved |-> <<>>]

UpdateSteps == {"choose", "preflight", "download", "unpack", "revalidate"}
InstallSteps == {"install", "host", "store", "replace", "rollback", "init", "units"}
ManageSteps == {"m-install", "m-host", "m-store", "work", "scenes", "release"}

HostTypeOK ==
  /\ files \in [Files -> Versions]
  /\ locks \in [Locks -> Procs \cup {None}]
  /\ hostRecord \in {"none", "own", "other"}
  /\ shared \in BOOLEAN
  /\ torn \in BOOLEAN
  /\ \A p \in Procs :
       /\ proc[p].pc \in {"idle"} \cup UpdateSteps \cup InstallSteps \cup ManageSteps
       /\ proc[p].tag \in Versions /\ proc[p].expect \in Versions \cup {Whatever}
       /\ Len(proc[p].saved) \in 0..Len(FileOrder)

\* Nothing is installed, or the first release is and owns the host.
HostInit ==
  /\ \E v \in {None} \cup published :
       /\ files = Bundle(v)
       /\ hostRecord = IF v = None THEN "none" ELSE "own"
       /\ shared = (v # None)
  /\ locks = [l \in Locks |-> None]
  /\ proc = [p \in Procs |-> Rest]
  /\ torn = FALSE

-------------------------------------------------------------------------------
\* The locks

In(p, pc) == proc[p].pc = pc

Step(p, pc) == proc' = [proc EXCEPT ![p].pc = pc]

\* flock is taken with the file; closing the last descriptor releases it.
Take(p, l) == locks' = [locks EXCEPT ![l] = p]

Freed(p) == [l \in Locks |-> IF locks[l] = p THEN None ELSE locks[l]]

\* The process ends, and its locks with it.
End(p) ==
  /\ proc' = [proc EXCEPT ![p] = Rest]
  /\ locks' = Freed(p)

\* A lock is free, or inherited from the installer (withFileLockOrInherited).
CanTake(p, l) == locks[l] \in {None, p}

\* The ownership record of the installation is there and matches.
Owned == files["ownership"] # None

\* A directory without files has no state lock yet.
CoreExists == \E f \in Files : files[f] # None

-------------------------------------------------------------------------------
\* install.sh --offline

\* The administrator runs the installer of a bundle; the bootstrap expects
\* that nothing is installed (--expected-manager-absent).
StartInstall(p, t, expect) ==
  /\ In(p, "idle")
  /\ t \in published /\ expect \in {Whatever, None}
  /\ Spend("commands")
  /\ proc' = [proc EXCEPT ![p] = [Rest EXCEPT !.pc = "install", !.cmd = "install",
                                              !.tag = t, !.expect = expect]]
  /\ UNCHANGED <<githubVars, files, locks, hostRecord, shared, torn>>

\* acquire_install_lock: it does not wait.
TakeInstallLock(p) ==
  /\ In(p, "install") /\ locks["install"] = None
  /\ Take(p, "install")
  /\ Step(p, "host")
  /\ UNCHANGED <<githubVars, files, hostRecord, shared, torn, left>>

\* Mutant of ExpectedManager: what the updater has seen is not checked again.
AnyManager(p) == p \in Procs

\* verify_expected_manager, under the installation lock.
ExpectedManager(p) == proc[p].expect \in {Whatever, files["manager"]}

TakeHostLock(p) ==
  /\ In(p, "host") /\ ExpectedManager(p) /\ locks["host"] = None
  /\ Take(p, "host")
  /\ Step(p, "store")
  /\ UNCHANGED <<githubVars, files, hostRecord, shared, torn, left>>

\* validate_host_ownership_for_install
HostIsOurs == hostRecord \in {"none", "own"}

TakeStoreLock(p) ==
  /\ In(p, "store") /\ HostIsOurs
  /\ IF CoreExists THEN locks["store"] = None /\ Take(p, "store") ELSE UNCHANGED locks
  /\ Step(p, "replace")
  /\ UNCHANGED <<githubVars, files, hostRecord, shared, torn, left>>

\* A lock is held, or a check fails: nothing has been touched.
Decline(p) ==
  /\ \/ In(p, "install") /\ locks["install"] # None
     \/ In(p, "host") /\ (~ExpectedManager(p) \/ locks["host"] # None)
     \/ In(p, "store") /\ (HostIsOurs => CoreExists /\ locks["store"] # None)
  /\ End(p)
  /\ UNCHANGED <<githubVars, files, hostRecord, shared, torn, left>>

\* The file whose turn it is.
Turn(p) == FileOrder[Len(proc[p].saved) + 1]
AllReplaced(p) == Len(proc[p].saved) = Len(FileOrder)

\* The backup is registered before the rename.
Registered(p) == [proc EXCEPT ![p].saved = Append(@, files[Turn(p)])]

Replace(p) ==
  /\ In(p, "replace") /\ ~AllReplaced(p)
  /\ proc' = Registered(p)
  /\ files' = [files EXCEPT ![Turn(p)] = Bundle(proc[p].tag)[Turn(p)]]
  /\ UNCHANGED <<githubVars, locks, hostRecord, shared, torn, left>>

\* Mutant of Fail: a file is registered after its rename, which a failure prevents.
FailUnregistered(p) ==
  /\ In(p, "replace") /\ ~AllReplaced(p)
  /\ Spend("faults")
  /\ files' \in {files, [files EXCEPT ![Turn(p)] = proc[p].tag]}
  /\ Step(p, "rollback")
  /\ UNCHANGED <<githubVars, locks, hostRecord, shared, torn>>

\* An error or a signal between two commands of the transaction, also between
\* the registration of a file and its replacement.
Fail(p) ==
  /\ In(p, "replace")
  /\ Spend("faults")
  /\ proc' \in {[proc EXCEPT ![p].pc = "rollback"]}
       \cup (IF AllReplaced(p) THEN {} ELSE {[Registered(p) EXCEPT ![p].pc = "rollback"]})
  /\ UNCHANGED <<githubVars, files, locks, hostRecord, shared, torn>>

\* Mutant of Commit: the locks are released before the initialization.
CommitAndUnlock(p) ==
  /\ In(p, "replace") /\ AllReplaced(p)
  /\ proc' = [proc EXCEPT ![p] = [@ EXCEPT !.pc = "init", !.saved = <<>>]]
  /\ locks' = Freed(p)
  /\ torn' = FALSE
  /\ UNCHANGED <<githubVars, files, hostRecord, shared, left>>

\* commit_transaction deletes the backups and takes the exit handler away.
Commit(p) ==
  /\ In(p, "replace") /\ AllReplaced(p)
  /\ proc' = [proc EXCEPT ![p] = [@ EXCEPT !.pc = "init", !.saved = <<>>]]
  /\ torn' = FALSE
  /\ UNCHANGED <<githubVars, files, locks, hostRecord, shared, left>>

\* An error or a signal while it deletes them: the handler is still there.
CommitFails(p) ==
  /\ In(p, "replace") /\ AllReplaced(p)
  /\ Spend("faults")
  /\ \E gone \in SUBSET {i \in 1..Len(FileOrder) : proc[p].saved[i] # None} :
       LET saved == [i \in DOMAIN proc[p].saved |-> IF i \in gone THEN Lost ELSE proc[p].saved[i]]
       IN proc' = [proc EXCEPT ![p] = [@ EXCEPT !.pc = "rollback", !.saved = saved]]
  /\ UNCHANGED <<githubVars, files, locks, hostRecord, shared, torn>>

\* Every registered file gets its backup back or is removed if it was new, but
\* for those kept as they are.
Restored(p, kept) ==
  [f \in Files |->
    IF \E i \in DOMAIN proc[p].saved \ kept : FileOrder[i] = f
    THEN proc[p].saved[CHOOSE i \in DOMAIN proc[p].saved : FileOrder[i] = f] ELSE files[f]]

\* A file is kept when its backup is gone, or when the directory or the disk
\* that has failed its replacement fails the copy or the rename of its backup
\* too: the rollback goes on to the next file, and warns in the end.
Rollback(p) ==
  /\ In(p, "rollback")
  /\ \E kept \in SUBSET (DOMAIN proc[p].saved) :
       /\ {i \in DOMAIN proc[p].saved : proc[p].saved[i] = Lost} \subseteq kept
       /\ files' = Restored(p, kept)
       /\ torn' = (torn \/ kept # {})
  /\ End(p)
  /\ UNCHANGED <<githubVars, hostRecord, shared, left>>

-------------------------------------------------------------------------------
\* The manager started by the installer: install --skip-node with the
\* inherited locks.  It goes on, and keeps them, if the installer is killed.

\* installPrepared: the inherited locks are validated; a state lock that did
\* not exist yet is taken now.  The host is recorded before it is used.
InitHost(p) ==
  /\ In(p, "init") /\ HostIsOurs
  /\ \A l \in Locks : CanTake(p, l)
  /\ Take(p, "store")
  /\ hostRecord' = "own"
  /\ Step(p, "units")
  /\ UNCHANGED <<githubVars, files, shared, torn, left>>

\* installWithStore: units and scenes as the store says.
InitUnits(p) ==
  /\ In(p, "units")
  /\ Owned
  /\ shared' = TRUE
  /\ End(p)
  /\ UNCHANGED <<githubVars, files, hostRecord, torn, left>>

\* The files stay, whatever the initialization has done of its work.
InitFails(p) ==
  /\ In(p, "init") \/ In(p, "units")
  /\ Spend("faults")
  /\ shared' \in (IF In(p, "units") THEN {shared, TRUE} ELSE {shared})
  /\ End(p)
  /\ UNCHANGED <<githubVars, files, hostRecord, torn>>

-------------------------------------------------------------------------------
\* A changing command of the manager waits for the locks.

StartManager(p, cmd) ==
  /\ In(p, "idle") /\ files["manager"] # None
  /\ Spend("commands")
  /\ proc' = [proc EXCEPT ![p] = [Rest EXCEPT !.pc = "m-install", !.cmd = cmd]]
  /\ UNCHANGED <<githubVars, files, locks, hostRecord, shared, torn>>

\* withStoreLock, withInstallLock
ManagerTakesInstall(p) ==
  /\ In(p, "m-install") /\ locks["install"] = None
  /\ Take(p, "install")
  /\ Step(p, "m-host")
  /\ UNCHANGED <<githubVars, files, hostRecord, shared, torn, left>>

\* validateInstallationOwnership, then the host lock and the host record.
ManagerTakesHost(p) ==
  /\ In(p, "m-host") /\ locks["host"] = None
  /\ Owned /\ HostIsOurs
  /\ Take(p, "host")
  /\ hostRecord' = "own"
  /\ Step(p, "m-store")
  /\ UNCHANGED <<githubVars, files, shared, torn, left>>

ManagerTakesStore(p) ==
  /\ In(p, "m-store") /\ locks["store"] = None
  /\ Take(p, "store")
  /\ Step(p, IF proc[p].cmd = "uninstall" THEN "scenes" ELSE "work")
  /\ UNCHANGED <<githubVars, files, hostRecord, shared, torn, left>>

ManagerDeclines(p) ==
  /\ In(p, "m-host")
  /\ ~(Owned /\ HostIsOurs)
  /\ End(p)
  /\ UNCHANGED <<githubVars, files, hostRecord, shared, torn, left>>

\* A scene is switched, a node is added, ...
Work(p) ==
  /\ In(p, "work")
  /\ shared' \in {shared, TRUE}
  /\ End(p)
  /\ UNCHANGED <<githubVars, files, hostRecord, torn, left>>

\* Mutant of RemoveUnits: the host is given back first.
ReleaseHostFirst(p) ==
  /\ In(p, "scenes")
  /\ hostRecord' = "none"
  /\ Step(p, "release")
  /\ UNCHANGED <<githubVars, files, locks, shared, torn, left>>

\* uninstallWithStore: scenes and units first, the host last.
RemoveUnits(p) ==
  /\ In(p, "scenes")
  /\ shared' = FALSE
  /\ Step(p, "release")
  /\ UNCHANGED <<githubVars, files, locks, hostRecord, torn, left>>

ReleaseHost(p) ==
  /\ In(p, "release")
  /\ hostRecord' = "none"
  /\ End(p)
  /\ UNCHANGED <<githubVars, files, shared, torn, left>>

\* A scene or a unit cannot be removed, or the record cannot: what is left
\* can be retried.
UninstallFails(p) ==
  /\ In(p, "scenes") \/ In(p, "release")
  /\ Spend("faults")
  /\ End(p)
  /\ UNCHANGED <<githubVars, files, hostRecord, shared, torn>>

-------------------------------------------------------------------------------
\* Kills, and an installation of somebody else.

\* SIGKILL: no handler runs.  A killed installer leaves its transaction as it
\* is; a process that waits or only reads leaves nothing.  During "init" and
\* "units" it is the manager that is killed, and the installer that ends.
Kill(p) ==
  /\ proc[p].pc \in (InstallSteps \cup ManageSteps)
  /\ Spend("kills")
  /\ torn' = (torn \/ proc[p].saved # <<>>)
  /\ shared' \in (IF proc[p].pc \in {"units", "work"} THEN {shared, TRUE} ELSE {shared})
  /\ End(p)
  /\ UNCHANGED <<githubVars, files, hostRecord>>

\* Another installation, with its own directory and the same two host locks,
\* takes the host when nobody owns it, and gives it back.
OtherInstallation ==
  /\ locks["install"] = None /\ locks["host"] = None
  /\ Spend("upstream")
  /\ \/ hostRecord = "none" /\ hostRecord' = "other"
     \/ hostRecord = "other" /\ hostRecord' = "none"
  /\ UNCHANGED <<githubVars, files, locks, shared, proc, torn>>

InstallerNext(p) ==
  \/ \E t \in Tags, expect \in {Whatever, None} : StartInstall(p, t, expect)
  \/ TakeInstallLock(p) \/ TakeHostLock(p) \/ TakeStoreLock(p) \/ Decline(p)
  \/ Replace(p) \/ Fail(p) \/ Commit(p) \/ CommitFails(p) \/ Rollback(p)
  \/ InitHost(p) \/ InitUnits(p) \/ InitFails(p)

ManagerNext(p) ==
  \/ \E cmd \in {"manage", "uninstall"} : StartManager(p, cmd)
  \/ ManagerTakesInstall(p) \/ ManagerTakesHost(p) \/ ManagerTakesStore(p) \/ ManagerDeclines(p)
  \/ Work(p) \/ RemoveUnits(p) \/ ReleaseHost(p) \/ UninstallFails(p)

HostNext == OtherInstallation \/ \E p \in Procs : InstallerNext(p) \/ ManagerNext(p) \/ Kill(p)

-------------------------------------------------------------------------------
\* Properties

\* Those between the last lock and the end of what the locks protect.
Working(p) == proc[p].pc \in {"replace", "rollback", "init", "units", "work", "scenes", "release"}

\* The three locks do what they are for: nobody works on the host beside
\* somebody else, from the first file of an installation to the last step of
\* the initialization the installer has started, although the work changes
\* hands there; and that initialization finds no lock it would have to wait
\* for, which its own installer might hold (commit_files_then_init, "releasing
\* here would leave a file-commit/init race window";
\* installerLockHandoffRequested).
LocksGuardWork ==
  /\ \A p, q \in Procs : Working(p) /\ Working(q) => p = q
  /\ \A p \in Procs : In(p, "init") => \A l \in Locks : CanTake(p, l)

\* An installation is of one version whenever no installer is at work on it:
\* one that fails leaves what it found, however far it came, and a rollback
\* that could not put back every file says so.  Excepted, until the next
\* installation, are a kill in the transaction and that warning
\* (transactional_replace, rollback_transaction).
InstalledIsWhole ==
  torn \/ (\E p \in Procs : proc[p].pc \in {"replace", "rollback"})
       \/ \E v \in Versions : files = Bundle(v)

\* Units and scenes of this installation are on the host only while the host
\* is recorded as its own, so that another installation refuses the host
\* until the last of them is gone (ensureHostOwnership, releaseHostOwnership,
\* validate_host_ownership_for_install).
HostIsOwned == shared => hostRecord = "own"
===============================================================================
