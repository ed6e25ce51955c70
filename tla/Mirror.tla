-------------------------------- MODULE Mirror --------------------------------
(***************************************************************************)
(* The receiver of the release mirror (scripts/mirror-receiver.py): it     *)
(* downloads a release and publishes its assets, then its metadata         *)
(* sidecar (sync), and later points latest.json at it (promote).  Clients  *)
(* read the public tree at any time; a call can be interrupted or killed   *)
(* at any step, and the machine can lose its power.                        *)
(*                                                                         *)
(* Abstractions.  A published directory holds the eleven verified assets   *)
(* of its tag or is not there: it is renamed into place.  The sidecar of a *)
(* tag is what was known of the release.  A stage is a private directory,  *)
(* of which MaxStages fit into the budgets.  Requests are well formed and  *)
(* nobody else writes into the two trees.  A sync of a tag that has no     *)
(* release, and a request while the lock is held, change nothing and are   *)
(* left out.                                                               *)
(***************************************************************************)
EXTENDS Releases

CONSTANTS
  Receivers, \* processes the SSH key starts
  MaxStages, \* stages that fit into MAX_INCOMING_BYTES and MAX_INCOMING_ENTRIES
  MaxRel     \* MAX_PROJECT_VERSIONS

ASSUME MirrorAssumption == MaxStages \in Nat \ {0} /\ MaxRel \in Nat \ {0}

VARIABLES
  disk,    \* the public tree, as clients read it
  durable, \* the part of it that survives a loss of power
  stages,  \* the private stages that exist
  holder,  \* the process that holds .deploy.lock, or None
  call,    \* what each process is doing
  synced   \* tags for which a sync has reported success (kept by the workflow)

mirrorVars == <<disk, durable, stages, holder, call, synced>>

Trees == [rel : SUBSET Tags, dir : BOOLEAN, side : SUBSET Infos, latest : Tags \cup {None}]

Steps == {"sync", "download", "assets", "side", "sidecar", "sidesync",
          "promote", "ready", "latest"}

\* info is what was read of the release, seen the latest.json found, staged
\* whether the process has a stage.
Idle == [pc |-> "idle", info |-> None, seen |-> None, staged |-> 0]

Sidecar(t) == {s \in disk.side : s.tag = t}

\* current_manifest: the tag latest.json names.
Manifest == disk.latest

MirrorTypeOK ==
  /\ disk \in Trees /\ durable \in Trees
  /\ stages \in 0..(MaxStages + 1)
  /\ holder \in Receivers \cup {None}
  /\ \A r \in Receivers : call[r] = Idle
       \/ call[r] \in [pc : Steps, info : Infos, seen : Tags \cup {None}, staged : {0, 1}]
  /\ synced \subseteq Tags

\* The mirror is empty or serves the first release.
MirrorInit ==
  /\ disk \in {[rel |-> {}, dir |-> FALSE, side |-> {}, latest |-> None]}
       \cup {[rel |-> {t}, dir |-> TRUE, side |-> {[tag |-> t, notes |-> 0]}, latest |-> t]
              : t \in published}
  /\ durable = disk
  /\ stages = 0
  /\ holder = None
  /\ call = [r \in Receivers |-> Idle]
  /\ synced = disk.rel

-------------------------------------------------------------------------------
\* Durability, the lock and the stages.

\* fsync of the project root: the entries of releases, metadata and latest.json.
RootDurable(d) == [durable EXCEPT !.rel = d.rel, !.dir = d.dir, !.latest = d.latest]

SidesDurable == [durable EXCEPT !.side = disk.side]

At(r, pc) == holder = r /\ call[r].pc = pc

Goto(r, pc) == call' = [call EXCEPT ![r].pc = pc]

\* A new stage, and the step that follows.
NewStage(r, pc) ==
  /\ stages' = stages + 1
  /\ call' = [call EXCEPT ![r] = [@ EXCEPT !.pc = pc, !.staged = 1]]

\* The stage is removed and the process goes on.
DropStage(r, pc) ==
  /\ stages' = stages - call[r].staged
  /\ call' = [call EXCEPT ![r] = [@ EXCEPT !.pc = pc, !.staged = 0]]

\* The call ends; the lock is released with the process.
Leave(r) ==
  /\ call' = [call EXCEPT ![r] = Idle]
  /\ holder' = None

Succeed(r) == Leave(r) /\ stages' = stages - call[r].staged

\* The workflow asks for the promotion of a tag after its sync has succeeded.
Requested(op, t) == t \in published /\ (op = "promote" => t \in synced)

CanLock(r) == holder = None

\* A request takes the lock, finds the stages within their budgets and reads
\* what GitHub says of the release.
Begin(r, op, t) ==
  /\ call[r] = Idle
  /\ CanLock(r) /\ stages <= MaxStages
  /\ Requested(op, t)
  /\ Spend("commands")
  /\ holder' = r
  /\ call' = [call EXCEPT ![r] = [Idle EXCEPT !.pc = op, !.info = Info(t)]]
  /\ UNCHANGED <<githubVars, disk, durable, stages, synced>>

-------------------------------------------------------------------------------
\* sync_release and publish_metadata

\* Mutant of Existing: an entry that is there counts as durable.
ExistingUnsynced(r) ==
  /\ At(r, "sync")
  /\ call[r].info.tag \in disk.rel
  /\ Goto(r, "side")
  /\ UNCHANGED <<githubVars, disk, durable, stages, holder, synced, left>>

\* What download_release leaves in the stage: the verified assets of the tag.
Payload(r) == {call[r].info.tag}

\* GitHub still says the same of the release.
StillSame(r) == Info(call[r].info.tag) = call[r].info

\* One more version fits into the project, and its stage into the budgets.
Fits == Cardinality(disk.rel) < MaxRel /\ stages < MaxStages

\* The release is there already, from a call that may have failed after the
\* rename: its entry is made durable again.
Existing(r) ==
  /\ At(r, "sync")
  /\ call[r].info.tag \in disk.rel
  /\ durable' = RootDurable(disk)
  /\ Goto(r, "side")
  /\ UNCHANGED <<githubVars, disk, stages, holder, synced, left>>

Stage(r) ==
  /\ At(r, "sync")
  /\ call[r].info.tag \notin disk.rel
  /\ Fits
  /\ NewStage(r, "download")
  /\ UNCHANGED <<githubVars, disk, durable, holder, synced, left>>

\* Downloaded, verified and synced in the stage, the release is renamed into
\* place if GitHub still says the same of it.
PublishAssets(r) ==
  /\ At(r, "download")
  /\ StillSame(r)
  /\ disk' = [disk EXCEPT !.rel = @ \cup Payload(r)]
  /\ Goto(r, "assets")
  /\ UNCHANGED <<githubVars, durable, stages, holder, synced, left>>

AssetsDurable(r) ==
  /\ At(r, "assets")
  /\ durable' = RootDurable(disk)
  /\ DropStage(r, "side")
  /\ UNCHANGED <<githubVars, disk, holder, synced, left>>

\* A sidecar that is there must be the same; both directories are synced.
SameSidecar(r) ==
  /\ At(r, "side")
  /\ Sidecar(call[r].info.tag) = {call[r].info}
  /\ durable' = disk
  /\ synced' = synced \cup {call[r].info.tag}
  /\ Succeed(r)
  /\ UNCHANGED <<githubVars, disk, left>>

StageSidecar(r) ==
  /\ At(r, "side")
  /\ Sidecar(call[r].info.tag) = {}
  /\ stages < MaxStages
  /\ NewStage(r, "sidecar")
  /\ UNCHANGED <<githubVars, disk, durable, holder, synced, left>>

\* The metadata directory is made by the first call that needs it, and
\* synced before anything is put into it.
MakeDirectory(r) ==
  /\ At(r, "sidecar")
  /\ StillSame(r)
  /\ ~disk.dir
  /\ disk' = [disk EXCEPT !.dir = TRUE]
  /\ durable' = RootDurable(disk')
  /\ UNCHANGED <<githubVars, call, stages, holder, synced, left>>

PublishSidecar(r) ==
  /\ At(r, "sidecar")
  /\ StillSame(r)
  /\ disk.dir
  /\ disk' = [disk EXCEPT !.side = @ \cup {call[r].info}]
  /\ Goto(r, "sidesync")
  /\ UNCHANGED <<githubVars, durable, stages, holder, synced, left>>

SidecarDurable(r) ==
  /\ At(r, "sidesync")
  /\ durable' = SidesDurable
  /\ synced' = synced \cup {call[r].info.tag}
  /\ Succeed(r)
  /\ UNCHANGED <<githubVars, disk, left>>

-------------------------------------------------------------------------------
\* promote_release

\* The tag is GitHub's Latest, and what is published of it is what GitHub says.
Promotable(r) ==
  LET t == call[r].info.tag IN
  /\ IsLatest(t) /\ StillSame(r)
  /\ t \in disk.rel /\ Sidecar(t) = {call[r].info}
  /\ t >= Manifest

\* The tag is the current one: only the durability is repaired.
AlreadyLatest(r) ==
  /\ At(r, "promote")
  /\ Promotable(r)
  /\ call[r].info.tag = Manifest
  /\ durable' = RootDurable(disk)
  /\ Succeed(r)
  /\ UNCHANGED <<githubVars, disk, synced, left>>

\* Nothing is reserved for this small stage.
StageLatest(r) ==
  /\ At(r, "promote")
  /\ Promotable(r)
  /\ call[r].info.tag # Manifest
  /\ stages' = stages + 1
  /\ call' = [call EXCEPT ![r] = [@ EXCEPT !.pc = "ready", !.staged = 1, !.seen = Manifest]]
  /\ UNCHANGED <<githubVars, disk, durable, holder, synced, left>>

\* Neither GitHub's Latest nor the local one has moved since they were read.
Unmoved(r) ==
  /\ IsLatest(call[r].info.tag) /\ StillSame(r)
  /\ Manifest = call[r].seen

ReplaceLatest(r) ==
  /\ At(r, "ready")
  /\ Unmoved(r)
  /\ disk' = [disk EXCEPT !.latest = call[r].info.tag]
  /\ Goto(r, "latest")
  /\ UNCHANGED <<githubVars, durable, stages, holder, synced, left>>

LatestDurable(r) ==
  /\ At(r, "latest")
  /\ durable' = RootDurable(disk)
  /\ Succeed(r)
  /\ UNCHANGED <<githubVars, disk, synced, left>>

-------------------------------------------------------------------------------
\* Refusals, interruptions, kills and losses of power.

\* What a call has checked and found wanting.
Wanting(r) ==
  LET c == call[r]  t == c.info.tag IN
  \/ c.pc = "sync" /\ t \notin disk.rel /\ ~Fits
  \/ c.pc \in {"download", "sidecar"} /\ ~StillSame(r)
  \/ c.pc = "side" /\ (IF Sidecar(t) = {} THEN stages >= MaxStages ELSE Sidecar(t) # {c.info})
  \/ c.pc = "promote" /\ ~Promotable(r)
  \/ c.pc = "ready" /\ ~Unmoved(r)

Refuse(r) ==
  /\ holder = r /\ Wanting(r)
  /\ Succeed(r)
  /\ UNCHANGED <<githubVars, disk, durable, synced, left>>

\* A signal, the deadline, the network or a failing fsync: the call unwinds.
\* What made it fail may keep it from removing its stage.
Interrupt(r) ==
  /\ holder = r
  /\ Spend("faults")
  /\ stages' \in {stages, stages - call[r].staged}
  /\ Leave(r)
  /\ UNCHANGED <<githubVars, disk, durable, synced>>

KillReceiver(r) ==
  /\ holder = r
  /\ Spend("kills")
  /\ Leave(r)
  /\ UNCHANGED <<githubVars, disk, durable, stages, synced>>

\* Any part of what has not been synced is lost.
PowerLoss ==
  /\ Spend("kills")
  /\ \E rel \in SUBSET disk.rel, dir \in {durable.dir, disk.dir},
        side \in SUBSET disk.side, latest \in {durable.latest, disk.latest} :
       /\ durable.rel \subseteq rel
       /\ durable.side \subseteq side
       /\ disk' = [rel |-> rel, dir |-> dir, side |-> IF dir THEN side ELSE {}, latest |-> latest]
  /\ durable' = disk'
  /\ holder' = None
  /\ call' = [r \in Receivers |-> Idle]
  /\ UNCHANGED <<githubVars, stages, synced>>

ReceiverNext(r) ==
  \/ \E t \in Tags, op \in {"sync", "promote"} : Begin(r, op, t)
  \/ Existing(r) \/ Stage(r) \/ PublishAssets(r) \/ AssetsDurable(r)
  \/ SameSidecar(r) \/ StageSidecar(r) \/ MakeDirectory(r) \/ PublishSidecar(r) \/ SidecarDurable(r)
  \/ AlreadyLatest(r) \/ StageLatest(r) \/ ReplaceLatest(r) \/ LatestDurable(r)
  \/ Refuse(r) \/ Interrupt(r) \/ KillReceiver(r)

MirrorNext == PowerLoss \/ \E r \in Receivers : ReceiverNext(r)

-------------------------------------------------------------------------------
\* Properties

\* All a client needs of tag t is in tree d.
Serves(d, t) == t \in d.rel /\ d.dir /\ \E s \in d.side : s.tag = t

\* The tag latest.json names, and every tag whose sync has reported success,
\* has its assets and its sidecar in the public tree and on the disk under
\* it, so that a loss of power takes nothing of them away; and latest.json is
\* never replaced by one of an older version, whatever GitHub calls Latest
\* meanwhile: what clients read is not behind what the disk keeps
\* (sync_release, "also repair durability after a previous rename succeeded
\* but fsync failed"; promote_release, "refusing to roll back mirror Latest").
PublishedIsServed ==
  /\ \A t \in (synced \cup {disk.latest, durable.latest}) \ {None} :
       Serves(disk, t) /\ Serves(durable, t)
  /\ disk.latest >= durable.latest
===============================================================================
