-------------------------------- MODULE DevScene --------------------------------
(***************************************************************************)
(* The development scene: the manager sets the proxy keys of a user's git  *)
(* and npm configuration and gives the user's own values back (dev.go and  *)
(* applyDev in scenes.go), under the coordinator's before-image and        *)
(* compensation (runtime_transition_resources.go).  The ownership backup   *)
(* is one file that is replaced as a whole; it holds the user's originals, *)
(* the addresses the manager has used and, key by key, a plan that says    *)
(* how far a restoration has got.                                          *)
(*                                                                         *)
(* Abstractions.  git and npm are installed.  A value is a sequence: git   *)
(* keeps several values of a key, npm at most one.  The keys are handled   *)
(* one after the other by the same code; the code has two of each tool.    *)
(* The exchange of one configuration file (OpenClaw.tla has its steps) is  *)
(* one comparison and replacement, except for what it leaves under the     *)
(* reserved name, of which a user has one, when it is killed or cannot     *)
(* remove it: the file itself, which its tool then finds empty, or only    *)
(* what has been replaced already.  Every later exchange of a file of that *)
(* user fails.  Two things do not fail at once in an exchange.  Nobody     *)
(* takes the file back from there or saves another in its place; both      *)
(* files exist before.                                                     *)
(***************************************************************************)
EXTENDS Naturals, Sequences, SequencesExt

CONSTANTS
  Users,      \* users the scene can be set for
  NG, NN,     \* numbers of git keys and of npm keys
  Proxies,    \* addresses of the manager's port
  user0, proxy0, \* the configured ones at first
  own, added, \* values of the user's own
  Starts,     \* what the keys of a user hold at first
  None,
  MaxCommands, MaxKills, MaxFaults, MaxEdits \* bounds on what happens

Keys  == 1..(NG + NN)
Git   == 1..NG
NK    == NG + NN

ASSUME DevAssumption ==
  /\ {NG, NN, MaxCommands, MaxKills, MaxFaults, MaxEdits} \subseteq Nat /\ NK > 0
  /\ {own, added, None} \cap Proxies = {} /\ own # added
  /\ user0 \in Users /\ proxy0 \in Proxies
  /\ Starts \subseteq [Keys -> {<<>>, <<own>>}]

VARIABLES
  store,   \* the committed settings
  rec,     \* the coordinator's record: candidate and before-image, or None
  backup,  \* the ownership backup, or None
  file,    \* the values of every key of every user, as the tools find them
  parked,  \* what a user's reserved name has of the keys that are hidden by
           \* it: those of one tool, or of none (Leftover); or None
  pc, mem, \* the process that holds the locks
  mine,    \* history: the values each user has chosen
  hand,    \* history: <<user, key>> edited at rest since the last success
  race,    \* history: <<user, key, mistaken>> edited while a record was there,
           \* perhaps in a way that the manager takes for its own doing
  left     \* how many commands, kills, faults and edits are left

durable == <<store, rec, backup>>
user    == <<mine, hand, race>>
vars    == <<durable, file, parked, pc, mem, user, left>>

Settings == [on : BOOLEAN, user : Users, proxy : Proxies]
Lists    == Seq(Proxies \cup {own, added})

\* A restoration plan of one key, and the backup of one user.
RestorePlan(b, d, n) == [before |-> b, desired |-> d, next |-> n]
NoPlans == [k \in Keys |-> None]
Backup(u, orig, managed) ==
  [user |-> u, orig |-> orig, managed |-> managed, plans |-> NoPlans, rb |-> None]

\* What brings an apply back that failed half way.
ApplyRollback(p, vals, plans) == [proxy |-> p, vals |-> vals, plans |-> plans]

RestoreStarted(b) == b.plans # NoPlans

RestorePlans == [before : Lists, desired : Lists, next : Nat]
Rollbacks == [proxy : Proxies, vals : [Keys -> Lists], plans : [Keys -> RestorePlans \cup {None}]]
Backups == [user : Users, orig : [Keys -> Lists], managed : SUBSET Proxies,
            plans : [Keys -> RestorePlans \cup {None}], rb : Rollbacks \cup {None}]
Records == [cand : Settings, before : Backups \cup {None}, users : Seq(Users),
            vals : [Users -> [Keys -> Lists]]]

\* The file of one tool, or nothing that anybody misses.
Leftover == <<>>
Hideouts == [Git -> Lists] \cup [Keys \ Git -> Lists] \cup {Leftover}

ASSUME SentinelAssumption ==
  None \notin RestorePlans \cup Rollbacks \cup Backups \cup Records \cup Hideouts
                \cup {"handover", "rollback", "release", "inverse", "restore", "finish"}

Fresh == [loop |-> None, b |-> None, k |-> 0, errs |-> "none", prior |-> None,
          snap |-> None, i |-> 0, other |-> FALSE]

Spend(what) == left[what] > 0 /\ left' = [left EXCEPT ![what] = @ - 1]
Free == UNCHANGED left
Goto(p) == pc' = p /\ UNCHANGED mem
Exit == pc' = "idle" /\ mem' = Fresh

\* The keys of one tool share a file.
SameFile(j, k) == j \in Git <=> k \in Git
Hidden(u, k) == parked[u] # None /\ k \in DOMAIN parked[u]

\* A missing npm file is refused while there is something under the reserved
\* name.  git is asked for its values, and a missing file has none.
Readable(u, k) == k \in Git \/ ~Hidden(u, k)
AllReadable(u) == \A k \in Keys : Readable(u, k)

\* writeDevBackup, devRemoveBackup: an error can also come after the change.
SaveBackup(b, good, bad) ==
  \/ backup' = b /\ good /\ Free
  \/ backup' \in {backup, b} /\ bad /\ Spend("faults")

----------------------------------------------------------------------------
(* Values                                                                  *)

\* npm has one string at most; everything else in its place is refused.
Expressible(k, v) == k \in Git \/ Len(v) <= 1

ContainsManaged(v, managed) == \E i \in DOMAIN v : v[i] \in managed
\* Mutant: a release puts the originals back over what the user has added.
OriginalsOnly(orig, v, managed) == orig

Unmanaged(v, managed) ==
  LET f[n \in 0..Len(v)] == IF n = 0 THEN <<>>
                            ELSE IF v[n] \in managed THEN f[n - 1] ELSE Append(f[n - 1], v[n])
  IN f[Len(v)]

DesiredGit(orig, v, managed) == orig \o Unmanaged(v, managed)
DesiredNPM(orig, v, managed) == IF ContainsManaged(v, managed) THEN orig ELSE v

\* What a release makes of a value that has a managed one among it.
Desired(k, orig, v, managed) ==
  IF k \in Git THEN DesiredGit(orig, v, managed) ELSE orig

\* A repeated apply replaces the original or a single managed value only.
ValueKnown(v, orig, managed) == v = orig \/ (Len(v) = 1 /\ v[1] \in managed)

\* Mutant: a step replaces whatever the key holds.
WhateverIsThere(k, p) == file[mem.b.user][k]

\* A git value is taken away and the desired ones are added one by one; an
\* npm value is replaced at once.
PlanBefore(k, p) == IF k \in Git /\ p.next > 0 THEN SubSeq(p.desired, 1, p.next - 1) ELSE p.before
PlanAfter(k, p)  == IF k \in Git THEN SubSeq(p.desired, 1, p.next) ELSE p.desired
Finished(k, p)   == p.next = 1 + IF k \in Git THEN Len(p.desired) ELSE 0
DonePlan(k, v)   == RestorePlan(v, v, 1 + IF k \in Git THEN Len(v) ELSE 0)

----------------------------------------------------------------------------
(* The plan and its before-image: captureRuntimeDev                        *)

CaptureUsers(cand) ==
  LET held == IF backup = None THEN <<>> ELSE <<backup.user>>
  IN IF cand.on /\ ~Contains(held, cand.user) THEN Append(held, cand.user) ELSE held

Plan(cand) ==
  /\ pc = "idle" /\ rec = None /\ cand # store /\ (cand.on \/ store.on)
  /\ backup # None => backup.rb = None /\ ~RestoreStarted(backup)
  /\ \A u \in Range(CaptureUsers(cand)) : AllReadable(u)
  /\ Spend("commands")
  /\ rec' = [cand |-> cand, before |-> backup, users |-> CaptureUsers(cand), vals |-> file]
  /\ IF cand.on THEN pc' = "take" /\ mem' = [Fresh EXCEPT !.prior = backup]
     ELSE pc' = "release" /\ mem' = Fresh
  /\ UNCHANGED <<store, backup, file, parked, user>>

----------------------------------------------------------------------------
(* applyDev                                                                *)

Proxy == rec.cand.proxy
Owner == rec.cand.user

\* backupDevConfig: take or keep the ownership.  Another user's is given back
\* first.
Take ==
  /\ pc = "take"
  /\ LET keep == [backup EXCEPT !.managed = @ \cup {Proxy}]
         new  == Backup(Owner, file[Owner], {Proxy})
     IN CASE backup = None ->
               IF AllReadable(Owner) THEN SaveBackup(new, Goto("check"), Goto("reject"))
               ELSE Goto("reject") /\ UNCHANGED backup /\ Free
          [] backup # None /\ backup.user # Owner ->
               pc' = "look" /\ mem' = [mem EXCEPT !.loop = "handover", !.b = backup, !.k = 1]
               /\ UNCHANGED backup /\ Free
          [] OTHER -> IF keep = backup THEN Goto("check") /\ UNCHANGED backup /\ Free
                      ELSE SaveBackup(keep, Goto("check"), Goto("reject"))
  /\ UNCHANGED <<store, rec, file, parked, user>>

\* rejectNewOwnership: nothing has been changed yet.
Reject ==
  /\ pc = "reject"
  /\ SaveBackup(mem.prior, Goto("failed"), Goto("failed"))
  /\ UNCHANGED <<store, rec, file, parked, user>>

\* The values the ownership was taken with are the values that are replaced.
Check ==
  /\ pc = "check"
  /\ LET now == file[Owner]
         ok  == /\ AllReadable(Owner)
                /\ mem.prior = None => now = backup.orig
                /\ mem.prior # None =>
                     \A k \in Keys : ValueKnown(now[k], backup.orig[k], backup.managed)
     IN \/ ok /\ pc' = "apply" /\ mem' = [mem EXCEPT !.k = 1, !.snap = now] /\ Free
        \/ ~ok /\ Goto("reject") /\ Free
        \/ Goto("reject") /\ Spend("faults")
  /\ UNCHANGED <<durable, file, parked, user>>

\* mutateDevNPMConfig, mutateDevGitConfig: one key, if its file is there and it
\* still has the expected value.  "uncertain" is an error after which the file
\* may have changed, and what it had before may be left under the reserved
\* name; it is also the answer when that name is taken.
Mutate(u, k, expected, desired, good, differs, uncertain) ==
  LET found == ~Hidden(u, k) /\ file[u][k] = expected
      taken == parked[u] # None /\ expected # desired
  IN \/ ~found /\ differs /\ Free /\ UNCHANGED <<file, parked>>
     \/ found /\ taken /\ uncertain /\ Free /\ UNCHANGED <<file, parked>>
     \/ /\ found /\ ~taken
        /\ \/ file' = [file EXCEPT ![u][k] = desired] /\ good /\ Free /\ UNCHANGED parked
           \/ differs /\ Spend("faults") /\ UNCHANGED <<file, parked>>
           \/ /\ uncertain /\ Spend("faults")
              /\ \/ file' \in {file, [file EXCEPT ![u][k] = desired]} /\ UNCHANGED parked
                 \/ /\ file' = [file EXCEPT ![u][k] = desired] /\ expected # desired
                    /\ parked' = [parked EXCEPT ![u] = Leftover]

\* An error before anything was changed gives the ownership back at once.
Failing == IF mem.k = 1 THEN Goto("reject") ELSE Goto("rollback")

NextKey == IF mem.k < NK THEN pc' = "apply" /\ mem' = [mem EXCEPT !.k = @ + 1]
           ELSE Goto("applied")

Apply ==
  /\ pc = "apply"
  /\ Mutate(Owner, mem.k, mem.snap[mem.k], <<Proxy>>,
            IF mem.k \in Git THEN Goto("verify") ELSE NextKey, Failing, Goto("rollback"))
  /\ UNCHANGED <<durable, user>>

\* verifyManagedGitProxy
Verify ==
  /\ pc = "verify"
  /\ \/ file[Owner][mem.k] = <<Proxy>> /\ NextKey /\ Free
     \/ file[Owner][mem.k] # <<Proxy>> /\ Goto("rollback") /\ Free
     \/ Goto("rollback") /\ Spend("faults")
  /\ UNCHANGED <<durable, file, parked, user>>

\* restoreDevProxySnapshotDurable: the rollback is recorded, then carried out.
Rollback ==
  /\ pc = "rollback"
  /\ LET b == [backup EXCEPT !.rb = ApplyRollback(Proxy, mem.snap, NoPlans)]
     IN SaveBackup(b, pc' = "look" /\ mem' = [mem EXCEPT !.loop = "rollback", !.b = b, !.k = 1],
                   Goto("failed"))
  /\ UNCHANGED <<store, rec, file, parked, user>>

\* restoreDev; without a backup nothing is known to be ours.
Release ==
  /\ pc = "release"
  /\ IF backup = None THEN Goto("applied")
     ELSE pc' = "look" /\ mem' = [mem EXCEPT !.loop = "release", !.b = backup, !.k = 1]
  /\ UNCHANGED <<durable, file, parked, user, left>>

Commit ==
  /\ pc = "applied"
  /\ store' = rec.cand /\ rec' = None /\ hand' = {} /\ Exit
  /\ UNCHANGED <<backup, file, parked, mine, race, left>>

----------------------------------------------------------------------------
(* Restoring the keys by their plans: restoreDevGitProxy and               *)
(* restoreDevNPMProxy, called by restoreDev, resumeDevApplyRollback and    *)
(* compensateRuntimeDev.  mem.b is the backup as the process holds it.     *)

B == mem.b
InRollback == B.rb # None

\* managedDevProxyValues, with the configured address; a rollback takes back
\* the address of its own apply only.
Managed == IF InRollback THEN {B.rb.proxy} ELSE B.managed \cup {Proxy}
Goal(k) == IF InRollback THEN B.rb.vals[k] ELSE B.orig[k]
PlanOf(k) == IF InRollback THEN B.rb.plans[k] ELSE B.plans[k]
WithPlan(k, p) == IF InRollback THEN [B EXCEPT !.rb.plans[k] = p] ELSE [B EXCEPT !.plans[k] = p]

\* An error of one key is reported after the others have been tried, except
\* while compensation completes a release.
ToKey(e, b) ==
  LET errs == IF "differs" \in {e, mem.errs} THEN "differs" ELSE IF e = "none" THEN mem.errs ELSE e
      last == mem.k = NK \/ (e # "none" /\ mem.loop = "finish")
  IN /\ pc' = IF last THEN "restored" ELSE "look"
     /\ mem' = [mem EXCEPT !.errs = errs, !.b = b, !.k = IF last THEN @ ELSE @ + 1]

\* The plan of a key is made from the value it has and recorded before the
\* value is touched.
Look ==
  /\ pc = "look"
  /\ LET k == mem.k
         now == file[B.user][k]
         plan == IF ContainsManaged(now, Managed)
                 THEN RestorePlan(now, Desired(k, Goal(k), now, Managed), 0)
                 ELSE DonePlan(k, now)
         b == WithPlan(k, plan)
     IN IF PlanOf(k) # None
        THEN /\ IF Finished(k, PlanOf(k)) THEN ToKey("none", B) ELSE Goto("step")
             /\ UNCHANGED backup /\ Free
        ELSE IF ~Readable(B.user, k)
        THEN ToKey("parked", B) /\ UNCHANGED backup /\ Free
        ELSE \/ SaveBackup(b, IF Finished(k, plan) THEN ToKey("none", b)
                              ELSE pc' = "step" /\ mem' = [mem EXCEPT !.b = b],
                           ToKey("fault", b))
             \/ ToKey("fault", B) /\ UNCHANGED backup /\ Spend("faults")
  /\ UNCHANGED <<store, rec, file, parked, user>>

\* One step of the plan.  Its effect may be there already; anything else is
\* somebody else's change.
Step ==
  /\ pc = "step"
  /\ LET k == mem.k
         p == PlanOf(k)
         now == file[B.user][k]
     IN IF Readable(B.user, k) /\ now = PlanAfter(k, p)
        THEN Goto("tick") /\ UNCHANGED <<file, parked>> /\ Free
        ELSE Mutate(B.user, k, PlanBefore(k, p), PlanAfter(k, p), Goto("tick"),
                    ToKey(IF Hidden(B.user, k) THEN "parked"
                          ELSE IF now # PlanBefore(k, p) THEN "differs" ELSE "fault", B),
                    ToKey("fault", B))
  /\ UNCHANGED <<durable, user>>

\* The step is verified and counted.
Tick ==
  /\ pc = "tick"
  /\ LET k == mem.k
         p == PlanOf(k)
         b == WithPlan(k, [p EXCEPT !.next = @ + 1])
     IN IF file[B.user][k] = PlanAfter(k, p)
        THEN SaveBackup(b, IF Finished(k, [p EXCEPT !.next = @ + 1]) THEN ToKey("none", b)
                           ELSE pc' = "step" /\ mem' = [mem EXCEPT !.b = b],
                        ToKey("fault", b))
        ELSE ToKey("differs", B) /\ UNCHANGED backup /\ Free
  /\ UNCHANGED <<store, rec, file, parked, user>>

\* The end of restoreDev and of resumeDevApplyRollback: the backup is removed,
\* or the rollback is taken out of it.
Restored ==
  /\ pc = "restored"
  /\ LET gone == [B EXCEPT !.rb = None]
         on(p, b) == pc' = p /\ mem' = [mem EXCEPT !.b = b, !.loop = None, !.errs = "none"]
         failure == CASE mem.loop \in {"release", "rollback"} -> "failed"
                      [] mem.loop = "handover"                -> "reject"
                      [] OTHER -> IF mem.errs = "differs" THEN "refused" ELSE "stopped"
     IN CASE mem.errs # "none" -> on(failure, B) /\ UNCHANGED backup /\ Free
          [] mem.errs = "none" /\ mem.loop \in {"release", "handover"} ->
               SaveBackup(None, on(IF mem.loop = "release" THEN "applied" ELSE "take", None),
                          on(failure, B))
          [] mem.errs = "none" /\ mem.loop = "rollback" ->
               SaveBackup(gone, on("failed", None), on("failed", None))
          [] mem.errs = "none" /\ mem.loop = "inverse" ->
               SaveBackup(gone, on("current", gone), on("stopped", gone))
          [] mem.errs = "none" /\ mem.loop = "restore" ->
               SaveBackup(gone, on("settle", gone), on("stopped", gone))
          [] OTHER -> \* "finish": the plans are done, only this process forgets them
               on("current", [B EXCEPT !.plans = NoPlans]) /\ UNCHANGED backup /\ Free
  /\ UNCHANGED <<store, rec, file, parked, user>>

----------------------------------------------------------------------------
(* Compensation: compensateRuntimeDev, user by user in reverse order       *)

Subject  == rec.users[mem.i]
Values   == rec.vals[Subject]
Original == IF rec.before # None /\ rec.before.user = Subject THEN rec.before
            ELSE Backup(Subject, Values, {})

\* Within the process that failed, or in the next one that recovers.
Compensate ==
  /\ pc = "failed" \/ (pc = "idle" /\ rec # None)
  /\ pc' = "undo" /\ mem' = [Fresh EXCEPT !.i = Len(rec.users)]
  /\ UNCHANGED <<durable, file, parked, user, left>>

OwnershipMatches(b) ==
  b.managed \subseteq Original.managed \cup {Proxy} /\ b.orig = Original.orig

\* Mutant: a value the release has put back is not recognised.
AppliedOnly(v, k) == v \in {Values[k], <<Proxy>>}

Allowed(v, k) == v \in {Values[k], Original.orig[k], <<Proxy>>}

\* runtimeDevRollbackMatches and runtimeValidateDevInverse
InverseAllowed(rb) ==
  /\ rb.vals = Values
  /\ \A k \in Keys : rb.plans[k] # None =>
       Allowed(rb.plans[k].before, k) /\ rb.plans[k].desired = Values[k]

\* A release that has begun is completed before it is undone, if its plans are
\* those this transaction can have made.
ReleaseAllowed(b) ==
  LET managed == b.managed \cup {Proxy}
      wanted(k, v) == IF k \in Git THEN DesiredGit(Original.orig[k], v, managed)
                      ELSE DesiredNPM(Original.orig[k], v, managed)
  IN \A k \in Keys : b.plans[k] # None =>
       /\ Allowed(b.plans[k].before, k)
       /\ b.plans[k].desired = wanted(k, b.plans[k].before)

Undo ==
  /\ pc = "undo" /\ mem.i > 0
  /\ LET live == backup
         position == {j \in DOMAIN rec.users : rec.users[j] = live.user}
         restore(loop) == pc' = "look" /\ mem' = [mem EXCEPT !.b = live, !.loop = loop, !.k = 1]
     IN CASE live = None -> pc' = "current" /\ mem' = [mem EXCEPT !.b = None, !.other = FALSE]
          [] live # None /\ live.user # Subject ->
               IF position # {} /\ \A j \in position : j < mem.i
               THEN pc' = "current" /\ mem' = [mem EXCEPT !.b = None, !.other = TRUE]
               ELSE Goto("refused")
          [] live # None /\ live.user = Subject ->
               CASE ~OwnershipMatches(live) -> Goto("refused")
                 [] OwnershipMatches(live) /\ live.rb # None ->
                      IF InverseAllowed(live.rb) THEN restore("inverse") ELSE Goto("refused")
                 [] OwnershipMatches(live) /\ live.rb = None /\ RestoreStarted(live) ->
                      IF ReleaseAllowed(live) THEN restore("finish") ELSE Goto("refused")
                 [] OTHER -> pc' = "current" /\ mem' = [mem EXCEPT !.b = live, !.other = FALSE]
  /\ UNCHANGED <<durable, file, parked, user, left>>

\* Mutant: compensation restores the originals, not the before-image.
ToOriginal(k, now) == RestorePlan(now, Original.orig[k], 0)

\* What is not as it was is put back by a rollback with a plan for every key.
InversePlan(k, now) ==
  IF now = Values[k] THEN DonePlan(k, now) ELSE RestorePlan(now, Values[k], 0)

Current ==
  /\ pc = "current"
  /\ LET now == file[Subject]
         base == IF mem.b = None THEN Original ELSE mem.b
         b == [base EXCEPT !.managed = @ \cup {Proxy},
                           !.rb = ApplyRollback(Proxy, Values,
                                                [k \in Keys |-> InversePlan(k, now[k])])]
     IN CASE ~AllReadable(Subject) -> Goto("stopped") /\ UNCHANGED backup /\ Free
          [] AllReadable(Subject) /\ \E k \in Keys : ~Allowed(now[k], k) ->
               Goto("refused") /\ UNCHANGED backup /\ Free
          [] AllReadable(Subject) /\ now = Values -> Goto("settle") /\ UNCHANGED backup /\ Free
          [] OTHER ->
               IF mem.other THEN Goto("refused") /\ UNCHANGED backup /\ Free
               ELSE SaveBackup(b, pc' = "look" /\ mem' = [mem EXCEPT !.b = b, !.loop = "restore", !.k = 1],
                               Goto("stopped"))
  /\ UNCHANGED <<store, rec, file, parked, user>>

\* The ownership is put back last.
Settle ==
  /\ pc = "settle"
  /\ LET next == pc' = "undo" /\ mem' = [Fresh EXCEPT !.i = mem.i - 1]
         before == rec.before # None /\ rec.before.user = Subject
     IN CASE before /\ mem.b # rec.before -> SaveBackup(rec.before, next, Goto("stopped"))
          [] ~before /\ mem.b # None      -> SaveBackup(None, next, Goto("stopped"))
          [] OTHER -> next /\ UNCHANGED backup /\ Free
  /\ UNCHANGED <<store, rec, file, parked, user>>

Undone ==
  /\ pc = "undo" /\ mem.i = 0
  /\ rec' = None /\ Exit
  /\ UNCHANGED <<store, backup, file, parked, user, left>>

\* The record is kept and the next process tries again.
GiveUp ==
  /\ pc \in {"refused", "stopped"}
  /\ Exit /\ UNCHANGED <<durable, file, parked, user, left>>

----------------------------------------------------------------------------
(* The user, and what can go wrong                                         *)

\* The user had put something else in the place of the managed value before
\* the before-image was captured.
Edited(u, k) == rec.before # None /\ rec.before.user = u /\
  ~(Len(rec.vals[u][k]) = 1 /\ rec.vals[u][k][1] \in rec.before.managed)

\* Edits a running command or its compensation can take for its own: while the
\* scene is taken from the user, or back to the original he had given up.
Mistaken(u, k, v) ==
  \/ rec.cand.on /\ rec.cand.user # u
  \/ Edited(u, k) /\ v = rec.before.orig[k]

\* A user replaces the values of a key, adds one or takes all away.
Edit(u, k, v) ==
  /\ ~Hidden(u, k) /\ v # file[u][k] /\ Spend("edits")
  /\ file' = [file EXCEPT ![u][k] = v]
  /\ mine' = [mine EXCEPT ![u][k] =
       IF \E i \in DOMAIN v : v[i] \in Proxies THEN Append(@, added)
       ELSE v]
  /\ IF rec = None THEN hand' = hand \cup {<<u, k>>} /\ UNCHANGED race
     ELSE /\ race' = race \cup {<<u, k, Mistaken(u, k, v)>>}
          /\ UNCHANGED hand
  /\ UNCHANGED <<durable, parked, pc, mem>>

Edits(u, k) ==
  {v \in {<<>>, <<own>>, <<added>>, Append(file[u][k], added)} : Expressible(k, v)}

Kill ==
  /\ pc # "idle" /\ Spend("kills") /\ Exit
  /\ UNCHANGED <<durable, file, parked, user>>

\* A kill inside the exchange of a configuration file: between the claim and
\* the publication, or before the claimed file is removed.
KillExchange(u, k, expected, desired) ==
  /\ parked[u] = None /\ file[u][k] = expected /\ expected # desired
  /\ \/ /\ parked' = [parked EXCEPT ![u] = [j \in {i \in Keys : SameFile(i, k)} |-> file[u][j]]]
        /\ file' = [file EXCEPT ![u] = [j \in Keys |-> IF SameFile(j, k) THEN <<>> ELSE @[j]]]
     \/ /\ parked' = [parked EXCEPT ![u] = Leftover]
        /\ file' = [file EXCEPT ![u][k] = desired]

KillInside ==
  /\ \/ pc = "apply" /\ KillExchange(Owner, mem.k, mem.snap[mem.k], <<Proxy>>)
     \/ pc = "step" /\ KillExchange(B.user, mem.k, PlanBefore(mem.k, PlanOf(mem.k)),
                                    PlanAfter(mem.k, PlanOf(mem.k)))
  /\ Spend("kills") /\ Exit
  /\ UNCHANGED <<durable, user>>

----------------------------------------------------------------------------
Init ==
  /\ store = [on |-> FALSE, user |-> user0, proxy |-> proxy0]
  /\ rec = None /\ backup = None /\ parked = [u \in Users |-> None] /\ hand = {} /\ race = {}
  /\ file \in [Users -> Starts]
  /\ mine = file
  /\ pc = "idle" /\ mem = Fresh
  /\ left = [commands |-> MaxCommands, kills |-> MaxKills,
             faults |-> MaxFaults, edits |-> MaxEdits]

Next ==
  \/ \E cand \in Settings : Plan(cand)
  \/ Take \/ Reject \/ Check \/ Apply \/ Verify \/ Rollback \/ Release \/ Commit
  \/ Look \/ Step \/ Tick \/ Restored
  \/ Compensate \/ Undo \/ Current \/ Settle \/ Undone \/ GiveUp
  \/ \E u \in Users, k \in Keys : \E v \in Edits(u, k) : Edit(u, k, v)
  \/ Kill \/ KillInside

Spec == Init /\ [][Next]_vars

----------------------------------------------------------------------------
(* Properties                                                              *)

Raced(u, k) == \E taken \in BOOLEAN : <<u, k, taken>> \in race

\* Every variable has its type.
TypeOK ==
  /\ store \in Settings /\ rec \in Records \cup {None}
  /\ file \in [Users -> [Keys -> Lists]] /\ mine \in [Users -> [Keys -> Lists]]
  /\ parked \in [Users -> Hideouts \cup {None}]
  /\ hand \subseteq Users \X Keys /\ race \subseteq Users \X Keys \X BOOLEAN
  /\ backup \in Backups \cup {None}
  /\ backup # None /\ backup.rb # None => ~RestoreStarted(backup) /\ backup.rb.proxy \in backup.managed

\* Between commands, when no recovery is owed, every key nobody has edited
\* during a command has, as git and npm find it, the value the settings ask for:
\* the manager's address for the owner (unless he has changed it since),
\* otherwise exactly what the user has chosen, the values recorded at the
\* takeover and those added since.  The ownership is held if and only if the
\* scene is on.  No plan is left in it as long as its user has left one of its
\* keys alone.
RestIsClean ==
  pc = "idle" /\ rec = None =>
    /\ IF store.on
       THEN /\ backup # None /\ backup.user = store.user /\ backup.rb = None
            /\ RestoreStarted(backup) =>
                 \A k \in Keys : <<store.user, k>> \in hand \/ Raced(store.user, k)
            /\ store.proxy \in backup.managed
       ELSE backup = None
    /\ \A u \in Users, k \in Keys : ~Raced(u, k) =>
         IF store.on /\ u = store.user
         THEN <<u, k>> \in hand \/ file[u][k] = <<store.proxy>>
         ELSE file[u][k] = mine[u][k]

\* What is left of the values of a key: in the user's configuration, in its
\* file under the reserved name or among the originals and the plans the backup
\* or the record will restore.
Kept(u, k) ==
  LET held  == IF backup # None /\ backup.user = u THEN {backup} ELSE {}
      plans == {b.plans[k] : b \in held}
                 \cup UNION {{b.rb.plans[k], [desired |-> b.rb.vals[k]]} : b \in {b \in held : b.rb # None}}
      lists == {file[u][k]} \cup {b.orig[k] : b \in held} \cup {p.desired : p \in plans \ {None}}
                 \cup (IF rec # None THEN {rec.vals[u][k]} ELSE {})
                 \cup (IF Hidden(u, k) THEN {parked[u][k]} ELSE {})
  IN UNION {Range(v) : v \in lists}

\* A value a user has chosen is never lost, even if he chooses it in the
\* middle of a change, a rollback or a recovery, except while the scene is
\* being taken from him, or when he goes back then to the original that he
\* had given up before.
OwnValuesKept ==
  \A u \in Users, k \in Keys : <<u, k, TRUE>> \notin race => Range(mine[u][k]) \subseteq Kept(u, k)

\* The same without the exceptions: README.md says that values added to a key
\* are kept.
AddedValuesKept == \A u \in Users, k \in Keys : Range(mine[u][k]) \subseteq Kept(u, k)

\* A change that failed is undone: when its record is given up, git and npm find
\* every key that nobody edited meanwhile as it was before, and the ownership is
\* as it was, through rollbacks, recoveries and users taken over.  Two traces can
\* stay: the plans of a release in the ownership, if no managed value had been
\* left, and a git file under the reserved name, where a kill left it and git
\* finds none.  Compensation takes its absence for empty keys, which they had
\* been before; in the file there may still be the manager's address.
FailureIsUndone ==
  [][rec # None /\ rec' = None /\ store' = store =>
       /\ backup' # rec.before =>
            /\ rec.before # None /\ backup' = [rec.before EXCEPT !.plans = backup'.plans]
            /\ \A k \in Keys : Edited(rec.before.user, k)
       /\ \A u \in Range(rec.users), k \in Keys :
            /\ ~Raced(u, k) => file'[u][k] = rec.vals[u][k]
            /\ Hidden(u, k) => k \in Git /\ file'[u][k] = <<>>]_vars

\* What compensation is known not to bring back: a managed key its user had
\* already edited when the before-image was captured, and what is left when a
\* call fails while the scene passes from one user to another, because the
\* plans of the first are then dropped with the ownership.
EditedBefore == \E u \in Users, k \in Keys : Edited(u, k)
PassesOn == rec.cand.on /\ rec.before # None /\ rec.before.user # rec.cand.user

\* Otherwise compensation refuses what it finds only if somebody has edited a
\* key during the command, or a kill has hidden a git file, whose keys then seem
\* to have been emptied: whatever else a kill or a failed call left half done,
\* in an apply, a rollback, a release or an earlier recovery, is recognised.
RefusalHasACause ==
  pc = "refused" =>
    \/ race # {} \/ EditedBefore \/ (PassesOn /\ left.faults < MaxFaults)
    \/ \E u \in Range(rec.users), k \in Git : Hidden(u, k)

===============================================================================
