--------------------------------- MODULE Nodes ---------------------------------
(***************************************************************************)
(* The nodes of the store, the subscriptions they come from, and what is   *)
(* chosen among them (node.go, subscription.go, subscription_adopt.go,     *)
(* subscription_identity.go).  A subscription is downloaded, and nodes are *)
(* probed, without the store lock; the result is committed later to a      *)
(* store that other commands have changed meanwhile.                       *)
(*                                                                         *)
(* Abstractions.  A link is its connection (subscriptionNodeIdentity) in   *)
(* one of several spellings.  Names, times and latencies are left out: any *)
(* node that passed its probe may be the fastest.  A new node takes the    *)
(* least identifier not in use, so identifiers are reused as soon as they  *)
(* can be.  Commits are atomic (RuntimeTransition).  The list of a source  *)
(* is the valid part of what it delivers.  The first import of a           *)
(* subscription commits that part; a refresh of one that is known is       *)
(* refused if anything else was delivered, or the download incomplete.     *)
(* Refusals, and downloads that fail, change nothing and are left out.     *)
(***************************************************************************)
EXTENDS Integers, FiniteSets, SequencesExt

CONSTANTS
  Urls,      \* links: a connection (config) and a way to write it (spelling)
  Subs,      \* subscriptions
  Scenes,
  Procs,     \* commands at work at the same time
  MaxNodes,  \* maxTotalNodes
  MaxList,   \* length of a subscription's list
  Commands, Editions, None \* bounds, and no node

ASSUME NodesAssumption ==
  /\ \A u \in Urls : DOMAIN u = {"config", "spelling"}
  /\ None \notin Nat
  /\ {MaxNodes, MaxList} \subseteq Nat /\ MaxNodes >= 2

\* What a provider may send: distinct links, at least one.
Lists == UNION {{l \in [1..n -> Urls] : \A i, j \in 1..n : l[i] = l[j] => i = j} : n \in 1..MaxList}

VARIABLES
  store, \* nodes, default, scenes, on, results, subs, gen
  feed,  \* what each provider sends: an edition of its list
  taken, \* the newest edition of each subscription that was committed
  proc,  \* what each command is doing
  left   \* what is left of the bounds

vars == <<store, feed, taken, proc, left>>

\* A node: its link, the subscriptions that list it, and whether it goes when
\* they no longer do.
Node(id, url, subs, managed) == [id |-> id, url |-> url, subs |-> subs, managed |-> managed]

-------------------------------------------------------------------------------
\* The store (store.go)

IdsOf(nodes) == {nodes[i].id : i \in DOMAIN nodes}

Find(nodes, id) == nodes[CHOOSE i \in DOMAIN nodes : nodes[i].id = id]

First(nodes) == IF nodes = <<>> THEN None ELSE nodes[1].id

Without(f, ids) == [x \in DOMAIN f \ ids |-> f[x]]

\* The nodes at these places, in their order.
Only(nodes, places) ==
  LET f[k \in 0..Len(nodes)] ==
        IF k = 0 THEN <<>>
        ELSE IF k \in places THEN Append(f[k - 1], nodes[k]) ELSE f[k - 1]
  IN f[Len(nodes)]

\* selectedNodeID: the node of the scene, else the default, else the first.
Selected(st, scene) ==
  IF scene \in DOMAIN st.scenes THEN st.scenes[scene]
  ELSE IF st.default # None THEN st.default ELSE First(st.nodes)

\* The least identifier that is not in use.
NewId(used) == CHOOSE n \in 1..(Cardinality(used) + 1) :
                 n \notin used /\ \A m \in 1..(n - 1) : m \in used

\* What validateStoreSemantics demands of nodes and references.
Valid(st) ==
  LET ids == IdsOf(st.nodes) IN
  /\ Len(st.nodes) <= MaxNodes
  /\ \A i, j \in DOMAIN st.nodes :
       st.nodes[i].id = st.nodes[j].id \/ st.nodes[i].url = st.nodes[j].url => i = j
  /\ \A i \in DOMAIN st.nodes : st.nodes[i].subs \subseteq Range(st.subs)
  /\ st.default \in ids \cup {None}
  /\ Range(st.scenes) \subseteq ids
  /\ DOMAIN st.results \subseteq ids
  /\ st.on # {} => st.nodes # <<>>

-------------------------------------------------------------------------------
\* Commands under the lock

UseNode(st, id, scope) ==
  [st EXCEPT !.default = IF scope \in {"default", "all"} THEN id ELSE @,
             !.scenes = [s \in DOMAIN @ \cup (IF scope = "all" THEN Scenes ELSE {scope} \cap Scenes)
                           |-> IF scope \in {s, "all"} THEN id ELSE @[s]]]

\* A link that is there already is the same node, from now on the user's own.
AddNode(st, url, scope) ==
  LET known == {i \in DOMAIN st.nodes : st.nodes[i].url = url}
      new == Node(NewId(IdsOf(st.nodes)), url, {}, FALSE)
  IN IF known # {}
     THEN LET i == CHOOSE i \in known : TRUE
          IN UseNode([st EXCEPT !.nodes[i].managed = FALSE], st.nodes[i].id, scope)
     ELSE UseNode([st EXCEPT !.nodes = Append(@, new)], new.id, scope)

RemoveNode(st, id) ==
  LET nodes == Only(st.nodes, {i \in DOMAIN st.nodes : st.nodes[i].id # id}) IN
  [st EXCEPT !.nodes = nodes,
             !.default = IF @ = id THEN First(nodes) ELSE @,
             !.scenes = Without(@, {s \in DOMAIN @ : @[s] = id}),
             !.results = Without(@, {id}),
             !.on = IF nodes = <<>> THEN {} ELSE @]

RemoveAllNodes(st) ==
  [st EXCEPT !.nodes = <<>>, !.default = None, !.scenes = <<>>, !.results = <<>>, !.on = {}]

\* Nodes the user names belong to the subscription from now on.
Adopted(n, sub) == [n EXCEPT !.subs = @ \cup {sub}, !.managed = TRUE]

Adopt(st, sub, ids) ==
  [st EXCEPT !.nodes = [i \in DOMAIN @ |-> IF @[i].id \in ids THEN Adopted(@[i], sub) ELSE @[i]]]

-------------------------------------------------------------------------------
\* reconcileSubscriptions: the nodes of all refreshed sources at once.
\* prepared is a sequence of downloads [sub, list, edition].

Refreshing(prepared) == {prepared[i].sub : i \in DOMAIN prepared}

\* All links, in the order of the sources.
Incoming(prepared) == FlattenSeq([i \in DOMAIN prepared |-> prepared[i].list])

ConfigsOf(links) == {links[i].config : i \in DOMAIN links}

\* The first link of a connection is the one that counts.
Desired(links, c) == links[CHOOSE i \in DOMAIN links :
                             links[i].config = c /\ \A j \in 1..(i - 1) : links[j].config # c]

\* The refreshed subscriptions that list a connection.
Sources(prepared, c) ==
  {prepared[i].sub : i \in {k \in DOMAIN prepared : c \in ConfigsOf(prepared[k].list)}}

\* subscriptionNodePriority
Priority(st, n) ==
  IF n.id \in {st.default} \cup Range(st.scenes) \cup {Selected(st, s) : s \in Scenes} THEN 2
  ELSE IF ~n.managed THEN 1 ELSE 0

\* A copy that carries the incoming link and has to stay whatever is refreshed.
MustKeep(n, refreshing) == ~n.managed \/ n.subs \ refreshing # {}

\* The stored copy of a connection that stands for it: the preferred one, or
\* the one that already has the incoming link and must stay.
Preferred(st, copies) ==
  CHOOSE i \in copies : \A j \in copies :
    LET a == Priority(st, st.nodes[i])  b == Priority(st, st.nodes[j])
    IN a > b \/ (a = b /\ i <= j)

\* Mutant of Keeper: the preferred copy takes the link another copy has.
PreferredOnly(st, prepared, c) == Preferred(st, {i \in DOMAIN st.nodes : st.nodes[i].url.config = c})

Keeper(st, prepared, c) ==
  LET links == Incoming(prepared)
      copies == {i \in DOMAIN st.nodes : st.nodes[i].url.config = c}
      same == {i \in copies : c \in ConfigsOf(links) /\ st.nodes[i].url = Desired(links, c)
                              /\ MustKeep(st.nodes[i], Refreshing(prepared))}
  IN IF same # {} THEN CHOOSE i \in same : TRUE ELSE Preferred(st, copies)

\* A stored node after the update: its memberships, and the spelling of the
\* new list if it belongs to a subscription.
Renewed(st, prepared, i) ==
  LET n == st.nodes[i]  c == n.url.config  links == Incoming(prepared)
      keeps == Keeper(st, prepared, c) = i
  IN [n EXCEPT !.subs = (@ \ Refreshing(prepared)) \cup (IF keeps THEN Sources(prepared, c) ELSE {}),
               !.url = IF keeps /\ n.managed /\ c \in ConfigsOf(links) THEN Desired(links, c) ELSE @]

\* A managed node no source lists any more goes.
Withdrawn(n) == n.managed /\ n.subs = {}

Stored(st, prepared) == [i \in DOMAIN st.nodes |-> Renewed(st, prepared, i)]

\* A link whose connection the store does not know yet becomes a node.
WithLink(nodes, prepared, url) ==
  IF url.config \in {nodes[i].url.config : i \in DOMAIN nodes} THEN nodes
  ELSE Append(nodes, Node(NewId(IdsOf(nodes)), url, Sources(prepared, url.config), TRUE))

\* The links are added in their order.
Added(st, prepared) ==
  LET links == Incoming(prepared)
      f[k \in 0..Len(links)] ==
        IF k = 0 THEN Stored(st, prepared) ELSE WithLink(f[k - 1], prepared, links[k])
  IN f[Len(links)]

\* Mutant of Replacement: the first node of the new list, always.
FirstIncoming(st, prepared, nodes, n) ==
  LET c == Incoming(prepared)[1].config
  IN nodes[CHOOSE i \in DOMAIN nodes : nodes[i].url.config = c].id

\* What takes the place of a withdrawn node: the node of the same connection,
\* else the first one its source lists now, else the first one of all.
Replacement(st, prepared, nodes, n) ==
  LET links == Incoming(prepared)
      Current(c) ==
        LET kept == {i \in DOMAIN nodes : nodes[i].url.config = c}
            k == IF \E i \in DOMAIN st.nodes : st.nodes[i].url.config = c
                 THEN st.nodes[Keeper(st, prepared, c)].id ELSE None
        IN IF kept = {} THEN None
           ELSE IF k \in {nodes[i].id : i \in kept} THEN k
           ELSE nodes[CHOOSE i \in kept : \A j \in kept : i <= j].id
      own == {i \in DOMAIN prepared : prepared[i].sub \in n.subs}
      subs == st.subs \o SetToSeq(Refreshing(prepared) \ Range(st.subs))
      Place(i) == CHOOSE k \in DOMAIN subs : subs[k] = prepared[i].sub
  IN IF Current(n.url.config) # None THEN Current(n.url.config)
     ELSE IF own # {}
          THEN LET i == CHOOSE i \in own : \A j \in own : Place(i) <= Place(j)
               IN Current(prepared[i].list[1].config)
          ELSE Current(links[1].config)

Reconcile(st, prepared) ==
  LET all == Added(st, prepared)
      nodes == Only(all, {i \in DOMAIN all : ~Withdrawn(all[i])})
      gone == IdsOf(all) \ IdsOf(nodes)
      Now(id) == IF id \in gone THEN Replacement(st, prepared, nodes, Find(st.nodes, id)) ELSE id
      default == IF st.default = None THEN First(st.nodes) ELSE st.default
  IN [st EXCEPT !.nodes = nodes,
                !.subs = @ \o SetToSeq(Refreshing(prepared) \ Range(@)),
                !.default = IF default \in gone THEN Now(default)
                            ELSE IF st.nodes = <<>> THEN First(nodes) ELSE @,
                !.scenes = [s \in DOMAIN @ |-> Now(@[s])],
                !.results = Without(@, gone)]

-------------------------------------------------------------------------------
\* mergeSpeedResults: snapshot maps the probed nodes to their links.

Same(st, snapshot) ==
  {n \in Range(st.nodes) : n.id \in DOMAIN snapshot /\ n.url = snapshot[n.id]}

\* Mutant of Fresh: an identifier is a node.
FreshById(st, snapshot) == IdsOf(st.nodes) \cap DOMAIN snapshot

Fresh(st, snapshot) == {n.id : n \in Same(st, snapshot)}

MergeResults(st, snapshot) ==
  LET old == {id \in DOMAIN st.results \cap IdsOf(st.nodes) :
                id \in DOMAIN snapshot => id \in Fresh(st, snapshot)}
  IN [st EXCEPT !.results = [id \in old \cup Fresh(st, snapshot) |->
                               IF id \in Fresh(st, snapshot) THEN snapshot[id] ELSE @[id]]]

-------------------------------------------------------------------------------
\* The state

Rest == [pc |-> "idle", gen |-> 0, todo |-> <<>>, prepared |-> <<>>, snapshot |-> <<>>, scope |-> "none"]

Unread == <<>> \* nobody has read this edition of a list yet

\* A new store, or one in which the user has added nodes.
Init ==
  /\ store \in
       {[nodes |-> nodes, default |-> First(nodes), scenes |-> <<>>, on |-> {},
         results |-> <<>>, subs |-> <<>>, gen |-> 0]
          : nodes \in {<<>>} \cup {<<Node(1, u, {}, FALSE)>> : u \in Urls}
                      \cup {<<Node(1, x[1], {}, FALSE), Node(2, x[2], {}, FALSE)>>
                             : x \in {y \in Urls \X Urls : y[1] # y[2]}}}
  /\ feed = [s \in Subs |-> [edition |-> 1, list |-> Unread]]
  /\ taken = [s \in Subs |-> 0]
  /\ proc = [p \in Procs |-> Rest]
  /\ left = [commands |-> Commands, editions |-> Editions]

Spend(what) == left[what] > 0 /\ left' = [left EXCEPT ![what] = @ - 1]

In(p, pc) == proc[p].pc = pc

Commit(st) == store' = [st EXCEPT !.gen = store.gen + 1]

\* A command that does everything under the lock.
AtOnce(st) ==
  /\ Spend("commands")
  /\ Commit(st)
  /\ UNCHANGED <<feed, taken, proc>>

AddByHand == \E url \in Urls :
  LET st == AddNode(store, url, "default") IN Len(st.nodes) <= MaxNodes /\ AtOnce(st)

RemoveOne == \E id \in IdsOf(store.nodes) : AtOnce(RemoveNode(store, id))

RemoveAll == store.nodes # <<>> /\ AtOnce(RemoveAllNodes(store))

Use == \E id \in IdsOf(store.nodes), scope \in {"default", "all"} \cup Scenes :
  AtOnce(UseNode(store, id, scope))

AdoptNodes == \E sub \in Range(store.subs), ids \in SUBSET IdsOf(store.nodes) :
  /\ ids # {} /\ \A id \in ids : ~Find(store.nodes, id).managed
  /\ AtOnce(Adopt(store, sub, ids))

\* A scene needs a node.
SetScene == \E scene \in Scenes :
  /\ scene \notin store.on => store.nodes # <<>>
  /\ AtOnce([store EXCEPT !.on = IF scene \in @ THEN @ \ {scene} ELSE @ \cup {scene}])

\* One saved subscription or all of them are updated, or any is imported.
StartUpdate(p) ==
  /\ In(p, "idle")
  /\ Spend("commands")
  /\ \E todo \in {<<s>> : s \in Subs} \cup ({store.subs} \ {<<>>}) :
       proc' = [proc EXCEPT ![p] = [Rest EXCEPT !.pc = "download", !.gen = store.gen, !.todo = todo]]
  /\ UNCHANGED <<store, feed, taken>>

\* The list of the next source, as far as it is valid, as the provider has it now.
Download(p) ==
  /\ In(p, "download") /\ proc[p].todo # <<>>
  /\ LET s == Head(proc[p].todo) IN
       \E list \in IF feed[s].list = Unread THEN Lists ELSE {feed[s].list} :
         /\ feed' = [feed EXCEPT ![s].list = list]
         /\ proc' = [proc EXCEPT
              ![p].todo = Tail(@),
              ![p].prepared = Append(@, [sub |-> s, list |-> list, edition |-> feed[s].edition])]
  /\ UNCHANGED <<store, taken, left>>

\* Mutant of Unchanged: the subscriptions are the same, so the store is.
SameSubscriptions(p) == p \in Procs

\* The store is the one the update began with: a generation names one store.
Unchanged(p) == store.gen = proc[p].gen

FinishUpdate(p) ==
  /\ In(p, "download") /\ proc[p].todo = <<>>
  /\ LET st == Reconcile(store, proc[p].prepared) IN
       IF Unchanged(p) /\ Len(st.nodes) <= MaxNodes
       THEN /\ Commit(st)
            /\ taken' = [s \in Subs |->
                 IF s \in Refreshing(proc[p].prepared)
                 THEN (CHOOSE d \in Range(proc[p].prepared) : d.sub = s).edition ELSE taken[s]]
       ELSE UNCHANGED <<store, taken>>
  /\ proc' = [proc EXCEPT ![p] = Rest]
  /\ UNCHANGED <<feed, left>>

\* `node test` and `node auto`: the nodes are copied, and probed without the lock.
StartProbes(p) ==
  /\ In(p, "idle") /\ store.nodes # <<>>
  /\ Spend("commands")
  /\ \E scope \in {"none", "default", "all"} \cup Scenes :
       proc' = [proc EXCEPT ![p] = [Rest EXCEPT !.pc = "probe", !.scope = scope,
                  !.snapshot = [id \in IdsOf(store.nodes) |-> Find(store.nodes, id).url]]]
  /\ UNCHANGED <<store, feed, taken>>

\* The results, and the fastest node for the scope; none if no node passed.
FinishProbes(p) ==
  /\ In(p, "probe")
  /\ LET st == MergeResults(store, proc[p].snapshot) IN
       \/ proc[p].scope = "none" /\ Commit(st)
       \/ proc[p].scope # "none" /\ \E id \in Fresh(store, proc[p].snapshot) :
            Commit(UseNode(st, id, proc[p].scope))
       \/ proc[p].scope # "none" /\ UNCHANGED store
  /\ proc' = [proc EXCEPT ![p] = Rest]
  /\ UNCHANGED <<feed, taken, left>>

\* A provider changes its list.
Republish(s) ==
  /\ Spend("editions")
  /\ feed' = [feed EXCEPT ![s] = [edition |-> @.edition + 1, list |-> Unread]]
  /\ UNCHANGED <<store, taken, proc>>

Next ==
  \/ AddByHand \/ RemoveOne \/ RemoveAll \/ Use \/ AdoptNodes \/ SetScene
  \/ \E p \in Procs : StartUpdate(p) \/ Download(p) \/ FinishUpdate(p)
                      \/ StartProbes(p) \/ FinishProbes(p)
  \/ \E s \in Subs : Republish(s)

Spec == Init /\ [][Next]_vars

-------------------------------------------------------------------------------
\* Properties

\* Every store a command commits is one the program accepts: identifiers and
\* links name one node, what is selected, probed or listed as a source exists,
\* and scenes are on only over a node.  A store that is not would be refused by
\* every later load, so no sequence of imports, refreshes, adoptions and
\* removals may lead to one (validateStoreSemantics; reconcileSubscriptions,
\* "cannot create two stored nodes with the exact same URL").
StoreIsValid == Valid(store)

\* A probe result is about the connection of the node it is filed under,
\* although nodes are removed, respelled and replaced, and identifiers reused,
\* while the probes run (mergeSpeedResults, "cannot inherit a stale result").
ResultsAreTheirs ==
  \A id \in DOMAIN store.results :
    store.results[id].config = Find(store.nodes, id).url.config

\* An update of subscriptions is committed by this step.
Updating(p) == In(p, "download") /\ In(p, "idle")' /\ store' # store

ConfigOf(st, id) == Find(st.nodes, id).url.config

\* An update changes the connection of a scene only if that connection has
\* been withdrawn: as long as any copy of it is left, in whatever spelling and
\* from whatever source, the scene uses it (subscriptionNodePriority, "keep
\* selections stable").
SelectionIsStable ==
  [][\A p \in Procs, s \in Scenes : Updating(p) /\ store.nodes # <<>> =>
       LET c == ConfigOf(store, Selected(store, s)) IN
         c \in {store'.nodes[i].url.config : i \in DOMAIN store'.nodes}
           => ConfigOf(store', Selected(store', s)) = c]_vars

\* An update makes exactly what was downloaded the subscription's nodes, and
\* takes away nothing else: each connection of the list has one node that
\* names the subscription and nothing else does, and a node that goes was
\* managed and has no source left; and no update puts an older list over a
\* newer one, whoever downloaded first (reconcileSubscriptions,
\* updateSubscriptionsFromSnapshot).
UpdatesAreExact ==
  [][/\ \A s \in Subs : taken'[s] >= taken[s]
     /\ \A p \in Procs : Updating(p) =>
          /\ \A d \in Range(proc[p].prepared) :
               LET listed == {n \in Range(store'.nodes) : d.sub \in n.subs} IN
               /\ {n.url.config : n \in listed} = ConfigsOf(d.list)
               /\ Cardinality(listed) = Cardinality(ConfigsOf(d.list))
          /\ \A n \in Range(store.nodes) :
               n.id \notin IdsOf(store'.nodes)
                 => n.managed /\ n.subs \subseteq Refreshing(proc[p].prepared)]_vars
===============================================================================
