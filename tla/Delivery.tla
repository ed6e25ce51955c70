------------------------------- MODULE Delivery -------------------------------
(***************************************************************************)
(* The way of a version from GitHub to a host: the mirror's receiver       *)
(* (Mirror), the updater of the manager (update.go, update_release.go,     *)
(* update_bundle.go), and the installer it starts (Installer).  The        *)
(* updater chooses and downloads without any lock, while the mirror and    *)
(* GitHub go on and other processes install.                               *)
(*                                                                         *)
(* Abstractions.  What comes over HTTPS is checked against the digests of  *)
(* the chosen release, so a download succeeds with the bytes of the tag or *)
(* fails.  Two programs of the same version are the same file.             *)
(***************************************************************************)
EXTENDS Mirror, Installer

vars == <<githubVars, left, mirrorVars, hostVars>>

\* What a source says of tag t, if it has it: the release on GitHub, the
\* sidecar on the mirror.
ReadGitHub(t) == IF t \in published THEN {Info(t)} ELSE {}
ReadMirror(t) == Sidecar(t)

\* The release a source offers: GitHub's Latest, or the one that the mirror's
\* latest.json names.
Offered(src) == IF src = "github" THEN ReadGitHub(ghLatest) ELSE ReadMirror(disk.latest)

\* Its bundle can be downloaded from there.
Available(src, t) == t \in IF src = "github" THEN published ELSE disk.rel

\* The source says the same of the release as before; on the mirror of the
\* fixed tag, on GitHub of Latest.
Confirmed(src, i) ==
  IF src = "github" THEN IsLatest(i.tag) /\ ReadGitHub(i.tag) = {i} ELSE ReadMirror(i.tag) = {i}

Newer(a, b) == a > b

\* The program runs from the installed file, for as long as its menu is open.
OpenUpdater(p, src) ==
  /\ In(p, "idle") /\ files["manager"] # None
  /\ Spend("commands")
  /\ proc' = [proc EXCEPT ![p] = [Rest EXCEPT !.pc = "choose", !.cmd = "update",
                                              !.src = src, !.expect = files["manager"]]]
  /\ UNCHANGED <<githubVars, mirrorVars, files, locks, hostRecord, shared, torn>>

\* latestForSource and checkAndUpdate: only a newer release is taken.
ChooseRelease(p) ==
  /\ In(p, "choose")
  /\ \E i \in Offered(proc[p].src) :
       /\ Newer(i.tag, proc[p].expect)
       /\ proc' = [proc EXCEPT ![p] = [@ EXCEPT !.pc = "preflight", !.tag = i.tag, !.notes = i.notes]]
  /\ UNCHANGED <<githubVars, mirrorVars, left, files, locks, hostRecord, shared, torn>>

\* preflightSelfUpdate: the running program is the installed one, and its
\* digest is what the installer will expect to find.
Preflight(p) ==
  /\ In(p, "preflight")
  /\ files["manager"] = proc[p].expect /\ Owned
  /\ Step(p, "download")
  /\ UNCHANGED <<githubVars, mirrorVars, left, files, locks, hostRecord, shared, torn>>

Download(p) ==
  /\ In(p, "download")
  /\ Available(proc[p].src, proc[p].tag)
  /\ Step(p, "unpack")
  /\ UNCHANGED <<githubVars, mirrorVars, left, files, locks, hostRecord, shared, torn>>

Unpack(p) ==
  /\ In(p, "unpack")
  /\ Step(p, "revalidate")
  /\ UNCHANGED <<githubVars, mirrorVars, left, files, locks, hostRecord, shared, torn>>

\* revalidate; then the user confirms and the bundle's installer is started.
Revalidate(p) ==
  /\ In(p, "revalidate")
  /\ Confirmed(proc[p].src, [tag |-> proc[p].tag, notes |-> proc[p].notes])
  /\ Step(p, "install")
  /\ UNCHANGED <<githubVars, mirrorVars, left, files, locks, hostRecord, shared, torn>>

\* A check fails, the network does, or the user does not confirm.
Abandon(p) ==
  /\ proc[p].pc \in UpdateSteps
  /\ End(p)
  /\ UNCHANGED <<githubVars, mirrorVars, left, files, hostRecord, shared, torn>>

UpdaterNext(p) ==
  \/ \E src \in {"github", "mirror"} : OpenUpdater(p, src)
  \/ ChooseRelease(p) \/ Preflight(p) \/ Download(p) \/ Unpack(p) \/ Revalidate(p) \/ Abandon(p)

\* The first release has been delivered, or it has not.
Init ==
  /\ ReleasesInit /\ MirrorInit /\ HostInit
  /\ disk.latest = files["manager"]

Next ==
  \/ ReleasesNext /\ UNCHANGED <<mirrorVars, hostVars>>
  \/ MirrorNext /\ UNCHANGED hostVars
  \/ HostNext /\ UNCHANGED mirrorVars
  \/ \E p \in Procs : UpdaterNext(p)

Spec == Init /\ [][Next]_vars

TypeOK == MirrorTypeOK /\ HostTypeOK

\* The program an update puts aside is older than the one it brings, whatever
\* has been installed between the choice of the release and the replacement:
\* by another update, by hand, from a bundle of the same or a later version
\* (checkAndUpdate, preflightSelfUpdate, verify_expected_manager, "the updater
\* has not held the lock while downloading").
UpdateGoesForward ==
  \A p \in Procs : proc[p].cmd = "update" /\ In(p, "replace") /\ proc[p].saved # <<>>
    => proc[p].saved[1] \in 1..(proc[p].tag - 1)
===============================================================================
