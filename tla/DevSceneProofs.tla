---------------------------- MODULE DevSceneProofs ----------------------------
(***************************************************************************)
(* The development scene, for any number of users, of git and npm keys,    *)
(* addresses, commands, kills, failures and edits (DevScene).              *)
(*                                                                         *)
(* The argument has four layers, each preserved by every step given the    *)
(* ones before it.  TypeInv: which memory there is at which place, and     *)
(* that a plan is never counted beyond its end.  OwnInv: whose the         *)
(* ownership is at each place, how it differs from the record's and how    *)
(* far the loop over the keys is with its plans.  ProxyInv: where          *)
(* addresses of the manager can be, so that a value without one is the     *)
(* user's own.  QuietInv: what every key holds that nobody has edited      *)
(* during a command, forward (Forward) and on the way back (BackInv).      *)
(* ReadInv is apart from them: whose keys a compensation has found         *)
(* readable, which a kill alone could change.                              *)
(***************************************************************************)
EXTENDS DevScene, SequenceTheorems, WellFoundedInduction, TLAPS

-----------------------------------------------------------------------------
(* Induction over the naturals, and what is defined by it                  *)

\* A set of naturals that is not empty has a least element.
LEMMA LeastExists ==
  ASSUME NEW T, T \subseteq Nat, T # {}
  PROVE  \E x \in T : \A y \in T : x <= y
<1>1. PICK x \in T : \A y \in T : ~ (<<y, x>> \in OpToRel(<, Nat))
  BY NatLessThanWellFounded, WFMin
<1>2. \A y \in T : ~ (y < x)
  BY <1>1 DEF OpToRel
<1> QED BY <1>2

\* What holds at 0 and of the next place holds of every place.
LEMMA Induction ==
  ASSUME NEW n \in Nat, NEW T, 0 \in T, \A k \in 1..n : k - 1 \in T => k \in T
  PROVE  \A k \in 0..n : k \in T
<1> DEFINE Out == {k \in 0..n : k \notin T}
<1>1. SUFFICES ASSUME Out # {} PROVE FALSE
  OBVIOUS
<1>2. PICK x \in Out : \A y \in Out : x <= y
  <2>1. Out \subseteq Nat
    OBVIOUS
  <2> HIDE DEF Out
  <2> QED BY <1>1, <2>1, LeastExists
<1>3. x # 0 /\ x \in 1..n
  BY <1>2
<1>4. x - 1 \notin Out /\ x - 1 \in 0..n
  BY <1>2, <1>3
<1> QED BY <1>2, <1>3, <1>4

\* f is a at 0 and goes on by step.
Follows(f, n, a, step) == f[0] = a /\ \A k \in 1..n : f[k] = step[k][f[k - 1]]

\* A function can be defined by what it is at 0 and by one step.
LEMMA Recursion ==
  ASSUME NEW S, NEW n \in Nat, NEW a \in S, NEW step \in [1..n -> [S -> S]]
  PROVE  \E f \in [0..n -> S] : Follows(f, n, a, step)
<1> DEFINE T == {m \in 0..n : \E f \in [0..m -> S] : Follows(f, m, a, step)}
<1>1. 0 \in T
  <2> DEFINE f == [k \in 0..0 |-> a]
  <2>1. f \in [0..0 -> S] /\ f[0] = a
    OBVIOUS
  <2>2. Follows(f, 0, a, step)
    BY <2>1 DEF Follows
  <2> HIDE DEF f
  <2> QED BY <2>1, <2>2
<1>2. ASSUME NEW m \in 1..n, m - 1 \in T PROVE m \in T
  <2>1. PICK g \in [0..(m - 1) -> S] : Follows(g, m - 1, a, step)
    BY <1>2
  <2> DEFINE f == [k \in 0..m |-> IF k = m THEN step[m][g[m - 1]] ELSE g[k]]
  <2>2. g[m - 1] \in S /\ step[m][g[m - 1]] \in S
    BY <2>1
  <2>3. f \in [0..m -> S]
    BY <2>2
  <2>4. f[0] = a
    BY <2>1 DEF Follows
  <2>5. Follows(f, m, a, step)
    BY <2>1, <2>4 DEF Follows
  <2> HIDE DEF f
  <2> QED BY <2>3, <2>5
<1>3. n \in T
  <2>1. \A m \in 1..n : m - 1 \in T => m \in T
    BY <1>2
  <2> HIDE DEF T
  <2>2. \A k \in 0..n : k \in T
    BY <1>1, <2>1, Induction
  <2> QED BY <2>2
<1> QED BY <1>3

-----------------------------------------------------------------------------
(* The values that are not the manager's.                                  *)

\* One step of the recursion of Unmanaged.
UnmanagedStep(v, m, f, k) == f[k] = IF v[k] \in m THEN f[k - 1] ELSE Append(f[k - 1], v[k])

\* The recursion of Unmanaged.
LEMMA UnmanagedIs ==
  ASSUME NEW S, NEW v \in Seq(S), NEW m
  PROVE  \E f \in [0..Len(v) -> Seq(S)] :
           /\ f[0] = <<>>
           /\ \A k \in 1..Len(v) : UnmanagedStep(v, m, f, k)
           /\ Unmanaged(v, m) = f[Len(v)]
<1> DEFINE n == Len(v)
           G(f, k) == IF k = 0 THEN <<>>
                      ELSE IF v[k] \in m THEN f[k - 1] ELSE Append(f[k - 1], v[k])
           F == CHOOSE f : f = [k \in 0..n |-> G(f, k)]
           step == [k \in 1..n |-> [x \in Seq(S) |-> IF v[k] \in m THEN x ELSE Append(x, v[k])]]
<1>1. Unmanaged(v, m) = F[n]
  BY DEF Unmanaged
<1>2. n \in Nat /\ <<>> \in Seq(S) /\ v \in [1..n -> S]
  OBVIOUS
<1>3. step \in [1..n -> [Seq(S) -> Seq(S)]]
  OBVIOUS
<1>4. PICK g \in [0..n -> Seq(S)] : Follows(g, n, <<>>, step)
  <2> HIDE DEF step, n
  <2> QED BY <1>2, <1>3, Recursion
<1>5. ASSUME NEW k \in 1..n PROVE g[k] = G(g, k)
  <2> HIDE DEF n
  <2>1. k - 1 \in 0..n /\ g[k - 1] \in Seq(S)
    BY <1>2
  <2>2. step[k][g[k - 1]] = G(g, k)
    BY <2>1
  <2>3. g[k] = step[k][g[k - 1]]
    BY <1>4 DEF Follows
  <2> QED BY <2>2, <2>3
<1>6. g[0] = G(g, 0)
  BY <1>4 DEF Follows
<1> HIDE DEF G, n, step
<1>7. g = [k \in 0..n |-> G(g, k)]
  <2>1. \A k \in 0..n : g[k] = G(g, k)
    BY <1>5, <1>6, <1>2
  <2> QED BY <2>1
<1>8. F = [k \in 0..n |-> G(F, k)]
  BY <1>7
<1>9. DOMAIN F = 0..n /\ \A k \in 0..n : F[k] = G(F, k)
  <2> HIDE DEF F
  <2> QED BY <1>8
<1> HIDE DEF F
<1>10. F[0] = <<>> /\ \A k \in 1..n : UnmanagedStep(v, m, F, k)
  <2>1. F[0] = <<>>
    BY <1>2, <1>9 DEF G
  <2>2. ASSUME NEW k \in 1..n PROVE UnmanagedStep(v, m, F, k)
    <3>1. k \in 0..n /\ k # 0
      BY <1>2
    <3> QED BY <3>1, <1>9 DEF UnmanagedStep, G
  <2> QED BY <2>1, <2>2
<1> DEFINE T == {k \in 0..n : F[k] \in Seq(S)}
           nil == <<>>
<1>13. nil \in Seq(S) /\ F[0] = nil
  BY <1>2, <1>10
<1> HIDE DEF nil
<1>11. \A k \in 0..n : F[k] \in Seq(S)
  <2>1. 0 \in T
    BY <1>2, <1>13
  <2>2. ASSUME NEW k \in 1..n, k - 1 \in T PROVE k \in T
    <3>1. F[k - 1] \in Seq(S) /\ v[k] \in S /\ k \in 0..n
      BY <1>2, <2>2
    <3>2. Append(F[k - 1], v[k]) \in Seq(S)
      BY <3>1
    <3>3. UnmanagedStep(v, m, F, k)
      BY <1>10
    <3> QED BY <3>1, <3>2, <3>3 DEF UnmanagedStep
  <2>3. \A k \in 1..n : k - 1 \in T => k \in T
    BY <2>2
  <2> HIDE DEF T
  <2>4. \A k \in 0..n : k \in T
    BY <2>1, <2>3, <1>2, Induction
  <2> QED BY <2>4 DEF T
<1>12. F \in [0..n -> Seq(S)]
  BY <1>8, <1>9, <1>11
<1> QED BY <1>1, <1>10, <1>12 DEF n

\* It is a list of the same values.
LEMMA UnmanagedType ==
  ASSUME NEW S, NEW v \in Seq(S), NEW m
  PROVE  Unmanaged(v, m) \in Seq(S)
<1>1. PICK f \in [0..Len(v) -> Seq(S)] : Unmanaged(v, m) = f[Len(v)]
  BY UnmanagedIs
<1> QED BY <1>1

\* What counts is which of the values are managed.
LEMMA UnmanagedAgrees ==
  ASSUME NEW S, NEW v \in Seq(S), NEW m, NEW w, \A i \in 1..Len(v) : v[i] \in m <=> v[i] \in w
  PROVE  Unmanaged(v, m) = Unmanaged(v, w)
<1> DEFINE n == Len(v)
<1>1. PICK f \in [0..n -> Seq(S)] :
        f[0] = <<>> /\ (\A k \in 1..n : UnmanagedStep(v, m, f, k)) /\ Unmanaged(v, m) = f[n]
  BY UnmanagedIs
<1>2. PICK g \in [0..n -> Seq(S)] :
        g[0] = <<>> /\ (\A k \in 1..n : UnmanagedStep(v, w, g, k)) /\ Unmanaged(v, w) = g[n]
  BY UnmanagedIs
<1>3. n \in Nat
  OBVIOUS
<1>4. \A i \in 1..n : v[i] \in m <=> v[i] \in w
  OBVIOUS
<1> HIDE DEF n
<1> DEFINE T == {k \in 0..n : f[k] = g[k]}
<1>5. 0 \in T
  BY <1>1, <1>2, <1>3
<1>6. ASSUME NEW k \in 1..n, k - 1 \in T PROVE k \in T
  <2>1. UnmanagedStep(v, m, f, k) /\ UnmanagedStep(v, w, g, k) /\ (v[k] \in m <=> v[k] \in w)
    BY <1>1, <1>2, <1>4
  <2>2. f[k - 1] = g[k - 1] /\ k \in 0..n
    BY <1>3, <1>6
  <2>3. f[k] = g[k]
    BY <2>1, <2>2 DEF UnmanagedStep
  <2> QED BY <2>2, <2>3
<1>7. \A k \in 1..n : k - 1 \in T => k \in T
  BY <1>6
<1> HIDE DEF T
<1>8. \A k \in 0..n : k \in T
  BY <1>3, <1>5, <1>7, Induction
<1> QED BY <1>1, <1>2, <1>3, <1>8 DEF T

\* Where nothing is managed it is the list itself.
LEMMA UnmanagedAll ==
  ASSUME NEW S, NEW v \in Seq(S), NEW m, \A i \in 1..Len(v) : v[i] \notin m
  PROVE  Unmanaged(v, m) = v
<1> DEFINE n == Len(v)
<1>1. PICK f \in [0..n -> Seq(S)] :
        f[0] = <<>> /\ (\A k \in 1..n : UnmanagedStep(v, m, f, k)) /\ Unmanaged(v, m) = f[n]
  BY UnmanagedIs
<1>2. n \in Nat /\ v \in [1..n -> S] /\ \A i \in 1..n : v[i] \notin m
  OBVIOUS
<1>3. SubSeq(v, 1, n) = v /\ SubSeq(v, 1, 0) = <<>>
  OBVIOUS
<1>4. ASSUME NEW k \in 1..n PROVE SubSeq(v, 1, k) = Append(SubSeq(v, 1, k - 1), v[k])
  OBVIOUS
<1> HIDE DEF n
<1> DEFINE T == {k \in 0..n : f[k] = SubSeq(v, 1, k)}
<1>5. 0 \in T
  BY <1>1, <1>2, <1>3
<1>6. ASSUME NEW k \in 1..n, k - 1 \in T PROVE k \in T
  <2>1. UnmanagedStep(v, m, f, k) /\ v[k] \notin m
    BY <1>1, <1>2
  <2>2. f[k] = Append(f[k - 1], v[k])
    BY <2>1 DEF UnmanagedStep
  <2>3. f[k - 1] = SubSeq(v, 1, k - 1) /\ k \in 0..n
    BY <1>2, <1>6
  <2>4. f[k] = SubSeq(v, 1, k)
    BY <2>2, <2>3, <1>4
  <2> QED BY <2>3, <2>4
<1>7. \A k \in 1..n : k - 1 \in T => k \in T
  BY <1>6
<1> HIDE DEF T
<1>8. \A k \in 0..n : k \in T
  BY <1>2, <1>5, <1>7, Induction
<1> QED BY <1>1, <1>2, <1>3, <1>8 DEF T

\* One more value.
LEMMA UnmanagedAppend ==
  ASSUME NEW S, NEW v \in Seq(S), NEW x \in S, NEW m
  PROVE  Unmanaged(Append(v, x), m) =
           IF x \in m THEN Unmanaged(v, m) ELSE Append(Unmanaged(v, m), x)
<1> DEFINE n == Len(v)
           w == Append(v, x)
<1>1. PICK f \in [0..n -> Seq(S)] :
        f[0] = <<>> /\ (\A k \in 1..n : UnmanagedStep(v, m, f, k)) /\ Unmanaged(v, m) = f[n]
  BY UnmanagedIs
<1>2. w \in Seq(S) /\ Len(w) = n + 1 /\ n \in Nat /\ w[n + 1] = x /\ \A i \in 1..n : w[i] = v[i]
  OBVIOUS
<1>10. w \in Seq(S)
  OBVIOUS
<1>11. PICK g \in [0..Len(w) -> Seq(S)] :
        g[0] = <<>> /\ (\A k \in 1..Len(w) : UnmanagedStep(w, m, g, k)) /\ Unmanaged(w, m) = g[Len(w)]
  <2> HIDE DEF w
  <2> QED BY <1>10, UnmanagedIs
<1>3. /\ g[0] = <<>> /\ \A k \in 1..(n + 1) : UnmanagedStep(w, m, g, k)
      /\ Unmanaged(w, m) = g[n + 1]
  <2> HIDE DEF n, w
  <2> QED BY <1>2, <1>11
<1> HIDE DEF n, w
<1> DEFINE T == {k \in 0..n : f[k] = g[k]}
<1>4. 0 \in T
  BY <1>1, <1>2, <1>3
<1>5. ASSUME NEW k \in 1..n, k - 1 \in T PROVE k \in T
  <2>1. UnmanagedStep(v, m, f, k)
    BY <1>1
  <2>2. k \in 1..(n + 1) /\ w[k] = v[k]
    BY <1>2
  <2>3. UnmanagedStep(w, m, g, k)
    BY <1>3, <2>2
  <2>4. f[k - 1] = g[k - 1] /\ k \in 0..n
    BY <1>2, <1>5
  <2>5. f[k] = g[k]
    BY <2>1, <2>2, <2>3, <2>4 DEF UnmanagedStep
  <2> QED BY <2>4, <2>5
<1>6. \A k \in 1..n : k - 1 \in T => k \in T
  BY <1>5
<1> HIDE DEF T
<1>7. \A k \in 0..n : k \in T
  BY <1>2, <1>4, <1>6, Induction
<1>8. f[n] = g[n]
  BY <1>2, <1>7 DEF T
<1>9. UnmanagedStep(w, m, g, n + 1)
  BY <1>2, <1>3
<1> QED BY <1>1, <1>2, <1>3, <1>8, <1>9 DEF UnmanagedStep, w

\* The values of a list and one more.
LEMMA RangeOfAppend ==
  ASSUME NEW S, NEW v \in Seq(S), NEW x \in S
  PROVE  Range(Append(v, x)) = Range(v) \cup {x}
<1> DEFINE n == Len(v)
           w == Append(v, x)
<1>1. /\ n \in Nat /\ DOMAIN v = 1..n /\ DOMAIN w = 1..(n + 1)
      /\ w[n + 1] = x /\ \A i \in 1..n : w[i] = v[i]
  OBVIOUS
<1> HIDE DEF n, w
<1>2. \A i \in 1..(n + 1) : i \in 1..n \/ i = n + 1
  BY <1>1
<1>3. n + 1 \in 1..(n + 1) /\ 1..n \subseteq 1..(n + 1)
  BY <1>1
<1>4. Range(w) = {w[i] : i \in 1..(n + 1)} /\ Range(v) = {v[i] : i \in 1..n}
  BY <1>1 DEF Range
<1>5. Range(w) = Range(v) \cup {x}
  BY <1>1, <1>2, <1>3, <1>4
<1> QED BY <1>5 DEF w

\* Its values are those that are not managed.
LEMMA UnmanagedRange ==
  ASSUME NEW S, NEW v \in Seq(S), NEW m
  PROVE  Range(Unmanaged(v, m)) = Range(v) \ m
<1> DEFINE n == Len(v)
<1>1. PICK f \in [0..n -> Seq(S)] :
        f[0] = <<>> /\ (\A k \in 1..n : UnmanagedStep(v, m, f, k)) /\ Unmanaged(v, m) = f[n]
  BY UnmanagedIs
<1>2. n \in Nat /\ v \in [1..n -> S]
  OBVIOUS
<1> HIDE DEF n
<1> DEFINE T == {k \in 0..n : Range(f[k]) = {v[i] : i \in 1..k} \ m}
<1>3. 0 \in T
  BY <1>1, <1>2 DEF Range
<1>4. ASSUME NEW k \in 1..n, k - 1 \in T PROVE k \in T
  <2>1. f[k - 1] \in Seq(S) /\ v[k] \in S /\ UnmanagedStep(v, m, f, k)
    BY <1>1, <1>2
  <2>2. Range(Append(f[k - 1], v[k])) = Range(f[k - 1]) \cup {v[k]}
    BY <2>1, RangeOfAppend
  <2>3. {v[i] : i \in 1..k} = {v[i] : i \in 1..(k - 1)} \cup {v[k]}
    BY <1>2
  <2> QED BY <1>4, <2>1, <2>2, <2>3 DEF UnmanagedStep
<1>5. \A k \in 1..n : k - 1 \in T => k \in T
  BY <1>4
<1> HIDE DEF T
<1>6. \A k \in 0..n : k \in T
  BY <1>2, <1>3, <1>5, Induction
<1>7. Range(v) = {v[i] : i \in 1..n}
  BY <1>2 DEF Range
<1> QED BY <1>1, <1>2, <1>6, <1>7 DEF T

-----------------------------------------------------------------------------
(* The invariant                                                           *)

PCs == {"idle", "take", "reject", "check", "apply", "verify", "rollback", "release", "applied",
        "failed", "look", "step", "tick", "restored", "undo", "current", "settle", "refused",
        "stopped"}
Loops == {"handover", "rollback", "release", "inverse", "restore", "finish"}
Errors == {"none", "parked", "fault", "differs"}
Memory == [loop : Loops \cup {None}, b : Backups \cup {None}, k : Nat, errs : Errors,
           prior : Backups \cup {None}, snap : [Keys -> Lists] \cup {None}, i : Nat,
           other : BOOLEAN]

InLoop   == pc \in {"look", "step", "tick", "restored"}
Applying == {"take", "check", "apply", "verify", "rollback", "reject"}

\* A plan is counted up to its end.
Counted(k, p) == p # None => p.next <= 1 + IF k \in Git THEN Len(p.desired) ELSE 0

Sound(b) ==
  /\ b \in Backups \cup {None}
  /\ b # None => \A k \in Keys : /\ Counted(k, b.plans[k])
                                 /\ b.rb # None => Counted(k, b.rb.plans[k])

DataInv ==
  /\ store \in Settings /\ rec \in Records \cup {None}
  /\ file \in [Users -> [Keys -> Lists]] /\ mine \in [Users -> [Keys -> Lists]]
  /\ parked \in [Users -> Hideouts \cup {None}] /\ hand \subseteq Users \X Keys
  /\ \A u \in Users, k \in Keys : Hidden(u, k) => file[u][k] = <<>>
  /\ race \subseteq Users \X Keys \X BOOLEAN
  /\ Sound(backup) /\ (rec # None => Sound(rec.before))
  /\ left \in [{"commands", "kills", "faults", "edits"} -> Nat]

PlaceInv ==
  /\ pc \in PCs /\ mem \in Memory /\ Sound(mem.b)
  /\ pc = "idle" => mem = Fresh
  /\ pc # "idle" => rec # None
  /\ ~InLoop => mem.loop = None /\ mem.errs = "none"
  /\ pc \in Applying => rec.cand.on /\ mem.prior = rec.before
  /\ pc = "release" => ~rec.cand.on
  /\ pc \in {"check", "apply", "verify", "rollback"} => backup # None
  /\ pc \in {"apply", "verify", "rollback"} => mem.k \in Keys /\ mem.snap \in [Keys -> Lists]
  /\ pc \in {"undo", "current", "settle"} => mem.i <= Len(rec.users)
  /\ pc \in {"current", "settle"} => mem.i > 0
  /\ InLoop =>
       /\ mem.loop \in Loops /\ mem.b # None /\ mem.k \in Keys
       /\ mem.loop = "handover" => rec.cand.on /\ mem.prior = rec.before
       /\ mem.loop = "release" => ~rec.cand.on
       /\ mem.loop = "rollback" => rec.cand.on
       /\ mem.loop \in {"inverse", "restore", "finish"} => mem.i \in 1..Len(rec.users)
       /\ pc \in {"step", "tick"} => PlanOf(mem.k) # None /\ ~Finished(mem.k, PlanOf(mem.k))

TypeInv == DataInv /\ PlaceInv

-----------------------------------------------------------------------------
(* Types                                                                   *)

\* The constants.
LEMMA Constants ==
  /\ NG \in Nat /\ NN \in Nat /\ NK \in Nat /\ NK > 0 /\ Keys = 1..NK
  /\ user0 \in Users /\ proxy0 \in Proxies /\ own # added
  /\ own \notin Proxies /\ added \notin Proxies
  /\ None \notin RestorePlans /\ None \notin Rollbacks /\ None \notin Backups
  /\ None \notin Records /\ None \notin Loops /\ None \notin Hideouts
BY DevAssumption, SentinelAssumption DEF NK, Keys, Loops

\* Values of the plans.
LEMMA ListTypes ==
  /\ <<>> \in Lists /\ <<own>> \in Lists /\ <<added>> \in Lists
  /\ \A v \in Lists : Append(v, added) \in Lists /\ Len(v) \in Nat
  /\ \A p \in Proxies : <<p>> \in Lists
BY DEF Lists

LEMMA DesiredType ==
  ASSUME NEW k \in Keys, NEW o \in Lists, NEW v \in Lists, NEW m
  PROVE  Desired(k, o, v, m) \in Lists
<1>1. Unmanaged(v, m) \in Lists
  BY UnmanagedType DEF Lists
<1>2. o \o Unmanaged(v, m) \in Lists
  BY <1>1 DEF Lists
<1> QED BY <1>2 DEF Desired, DesiredGit

\* A step of a plan.
LEMMA PlanValues ==
  ASSUME NEW k \in Keys, NEW p \in RestorePlans
  PROVE  /\ Counted(k, p) => PlanBefore(k, p) \in Lists
         /\ Counted(k, p) /\ ~Finished(k, p) =>
              /\ PlanAfter(k, p) \in Lists
              /\ [p EXCEPT !.next = @ + 1] \in RestorePlans
              /\ Counted(k, [p EXCEPT !.next = @ + 1])
<1>1. p.before \in Seq(Proxies \cup {own, added}) /\ p.desired \in Seq(Proxies \cup {own, added}) /\ p.next \in Nat
  BY DEF RestorePlans, Lists
<1>2. p # None
  BY Constants
<1>3. Counted(k, p) => PlanBefore(k, p) \in Lists
  BY <1>1, <1>2 DEF PlanBefore, Counted, Lists
<1> QED BY <1>1, <1>2, <1>3 DEF PlanAfter, Counted, Finished, RestorePlans, Lists

\* A plan that is done keeps the value.
LEMMA DonePlanFacts ==
  ASSUME NEW k \in Keys, NEW v \in Lists
  PROVE  /\ DonePlan(k, v) \in RestorePlans /\ Counted(k, DonePlan(k, v))
         /\ Finished(k, DonePlan(k, v)) /\ DonePlan(k, v).desired = v /\ DonePlan(k, v).before = v
BY ListTypes DEF DonePlan, RestorePlan, RestorePlans, Counted, Finished

\* A plan that has not begun.
LEMMA RestorePlanFacts ==
  ASSUME NEW k \in Keys, NEW v \in Lists, NEW d \in Lists
  PROVE  /\ RestorePlan(v, d, 0) \in RestorePlans /\ Counted(k, RestorePlan(v, d, 0))
         /\ ~Finished(k, RestorePlan(v, d, 0))
         /\ RestorePlan(v, d, 0).desired = d /\ RestorePlan(v, d, 0).before = v
         /\ RestorePlan(v, d, 0).next = 0
BY ListTypes DEF RestorePlan, RestorePlans, Counted, Finished

\* What the record gives.
LEMMA RecordTypes ==
  ASSUME DataInv, rec # None
  PROVE  /\ rec \in Records /\ Owner \in Users /\ Proxy \in Proxies /\ rec.users \in Seq(Users)
         /\ rec.vals \in [Users -> [Keys -> Lists]] /\ rec.cand \in Settings
         /\ rec.before \in Backups \cup {None} /\ Sound(rec.before)
BY DEF DataInv, Records, Settings, Owner, Proxy

\* A backup with another plan of a key.
LEMMA WithPlanFacts ==
  ASSUME B \in Backups, NEW k \in Keys, NEW p \in RestorePlans
  PROVE  LET w == WithPlan(k, p)
         IN /\ w \in Backups /\ w # None
            /\ w.user = B.user /\ w.orig = B.orig /\ w.managed = B.managed
            /\ w.rb = None <=> B.rb = None
            /\ B.rb = None  => w.plans = [B.plans EXCEPT ![k] = p]
            /\ B.rb # None => /\ w.plans = B.plans /\ w.rb.proxy = B.rb.proxy
                              /\ w.rb.vals = B.rb.vals
                              /\ w.rb.plans = [B.rb.plans EXCEPT ![k] = p]
<1>1. CASE B.rb = None
  <2>1. WithPlan(k, p) = [B EXCEPT !.plans = [B.plans EXCEPT ![k] = p]]
    BY <1>1 DEF WithPlan, InRollback
  <2>2. [B.plans EXCEPT ![k] = p] \in [Keys -> RestorePlans \cup {None}]
    BY DEF Backups
  <2> DEFINE q == [B.plans EXCEPT ![k] = p]
  <2> HIDE DEF q
  <2>3. [B EXCEPT !.plans = q] \in Backups
    BY <2>2 DEF Backups, q
  <2> QED BY <1>1, <2>1, <2>3, Constants DEF Backups, q
<1>2. CASE B.rb # None
  <2> DEFINE q == [B.rb.plans EXCEPT ![k] = p]
             r == [B.rb EXCEPT !.plans = q]
  <2>1. WithPlan(k, p) = [B EXCEPT !.rb = r]
    BY <1>2 DEF WithPlan, InRollback
  <2>2. B.rb \in Rollbacks
    BY <1>2 DEF Backups
  <2>3. q \in [Keys -> RestorePlans \cup {None}]
    BY <2>2 DEF Rollbacks
  <2> HIDE DEF q
  <2>4. r \in Rollbacks /\ r.proxy = B.rb.proxy /\ r.vals = B.rb.vals /\ r.plans = q
    BY <2>2, <2>3 DEF Rollbacks
  <2> HIDE DEF r
  <2>5. [B EXCEPT !.rb = r] \in Backups /\ [B EXCEPT !.rb = r].rb = r
    BY <2>4 DEF Backups
  <2> QED BY <1>2, <2>1, <2>4, <2>5, Constants DEF Backups, q
<1> QED BY <1>1, <1>2

\* The plan of a key, then of the others.
LEMMA WithPlanSound ==
  ASSUME Sound(B), B # None, NEW k \in Keys, NEW p \in RestorePlans, Counted(k, p)
  PROVE  Sound(WithPlan(k, p)) /\ WithPlan(k, p) \in Backups /\ WithPlan(k, p) # None
<1>1. B \in Backups
  BY DEF Sound
<1> DEFINE w == WithPlan(k, p)
<1>2. /\ w \in Backups /\ w # None
      /\ w.rb = None <=> B.rb = None
      /\ B.rb = None  => w.plans = [B.plans EXCEPT ![k] = p]
      /\ B.rb # None => w.plans = B.plans /\ w.rb.plans = [B.rb.plans EXCEPT ![k] = p]
  BY <1>1, WithPlanFacts
<1>3. DOMAIN B.plans = Keys /\ (B.rb # None => DOMAIN B.rb.plans = Keys)
  BY <1>1 DEF Backups, Rollbacks
<1> HIDE DEF w
<1>4. Sound(w)
  BY <1>2, <1>3 DEF Sound
<1> QED BY <1>2, <1>4 DEF w

\* The plan that is looked at.
LEMMA PlanOfType ==
  ASSUME Sound(B), B # None, NEW k \in Keys
  PROVE  PlanOf(k) \in RestorePlans \cup {None} /\ Counted(k, PlanOf(k))
BY DEF Sound, PlanOf, InRollback, Backups, Rollbacks

\* What a process in a loop knows.
LEMMA LoopTypes ==
  ASSUME TypeInv, InLoop
  PROVE  /\ Sound(B) /\ B # None /\ B \in Backups /\ B.user \in Users /\ mem \in Memory
         /\ mem.k \in Keys /\ mem.k \in Nat /\ rec # None /\ mem.loop \in Loops /\ mem.errs \in Errors
         /\ PlanOf(mem.k) \in RestorePlans \cup {None} /\ Counted(mem.k, PlanOf(mem.k))
         /\ file[B.user] \in [Keys -> Lists]
         /\ B.orig \in [Keys -> Lists]
<1>1. Sound(B) /\ B # None /\ mem \in Memory /\ mem.k \in Keys /\ rec # None /\ mem.loop \in Loops
  BY DEF TypeInv, PlaceInv, InLoop, B
<1>2. B \in Backups
  BY <1>1 DEF Sound
<1>3. B.user \in Users /\ file[B.user] \in [Keys -> Lists] /\ B.orig \in [Keys -> Lists]
  BY <1>2 DEF Backups, TypeInv, DataInv
<1> QED BY <1>1, <1>2, <1>3, PlanOfType, Constants DEF Memory

\* A step uses up at most one of what the bounds allow.
Spends == Free \/ \E what \in {"commands", "kills", "faults", "edits"} : Spend(what)

LEMMA SpendsTypes ==
  ASSUME DataInv, Spends
  PROVE  left' \in [{"commands", "kills", "faults", "edits"} -> Nat]
BY DEF DataInv, Spends, Spend, Free

LEMMA FreeSpends == (Free => Spends) /\ \A what \in {"commands", "kills", "faults", "edits"} : Spend(what) => Spends
BY DEF Spends

\* Steps that change the ownership at most.
LEMMA BackupData ==
  ASSUME DataInv, Spends, UNCHANGED <<store, rec, file, parked, user>>, Sound(backup')
  PROVE  DataInv'
BY SpendsTypes DEF DataInv, user, Sound, Counted, Finished, Hidden

\* Steps that change nothing but the place.
LEMMA SameData ==
  ASSUME DataInv, Spends, UNCHANGED <<durable, file, parked, user>>
  PROVE  DataInv'
<1>1. Sound(backup)'
  BY DEF DataInv, durable, Sound, Counted
<1> QED BY <1>1, BackupData DEF durable, DataInv

\* What is hidden stays so, and nothing else is.
SameHidden == \A u \in Users, k \in Keys : Hidden(u, k)' <=> Hidden(u, k)

\* Steps that change a configuration at most, by one key that is not hidden.
LEMMA FileData ==
  ASSUME DataInv, Spends, UNCHANGED <<durable, user>>,
         file' \in [Users -> [Keys -> Lists]],
         parked' \in [Users -> Hideouts \cup {None}], SameHidden,
         \A u \in Users, k \in Keys : Hidden(u, k) => file'[u][k] = file[u][k]
  PROVE  DataInv'
<1>1. \A u \in Users, k \in Keys : Hidden(u, k)' => file'[u][k] = <<>>
  BY DEF DataInv, SameHidden
<1> QED BY <1>1, SpendsTypes DEF DataInv, user, durable, Sound, Counted, Finished

\* One key is exchanged.
Exchange(u, k, expected, desired) ==
  /\ ~Hidden(u, k) /\ file[u][k] = expected
  /\ file' = [file EXCEPT ![u][k] = desired]

LEMMA LeftoverFacts ==
  ASSUME DataInv, NEW u \in Users, parked[u] = None, parked' \in {parked, [parked EXCEPT ![u] = Leftover]}
  PROVE  parked' \in [Users -> Hideouts \cup {None}] /\ SameHidden
<1>1. DOMAIN Leftover = {} /\ Leftover \in Hideouts
  BY DEF Leftover, Hideouts
<1>2. parked \in [Users -> Hideouts \cup {None}]
  BY DEF DataInv
<1>3. parked' \in [Users -> Hideouts \cup {None}]
  BY <1>1, <1>2
<1>4. \A w \in Users : w # u => parked'[w] = parked[w]
  BY <1>2
<1>5. parked'[u] \in {None, Leftover}
  BY <1>2
<1> HIDE DEF Leftover
<1>6. ASSUME NEW w \in Users, NEW k \in Keys PROVE Hidden(w, k)' <=> Hidden(w, k)
  <2>1. CASE w # u
    BY <1>4, <2>1 DEF Hidden
  <2>2. CASE w = u
    BY <1>1, <1>5, <2>2 DEF Hidden
  <2> QED BY <2>1, <2>2
<1> QED BY <1>3, <1>6 DEF SameHidden

\* The reserved name is as it was, or taken by what nobody misses.
Litters(u) == parked' = parked \/ (parked[u] = None /\ parked' = [parked EXCEPT ![u] = Leftover])

\* What an attempt to exchange a key does to the configurations.
LEMMA ExchangeFacts ==
  ASSUME DataInv, NEW u \in Users, NEW k \in Keys, NEW expected, NEW desired \in Lists,
         Exchange(u, k, expected, desired) \/ file' = file, Litters(u),
         Spends, UNCHANGED <<durable, user>>
  PROVE  DataInv' /\ SameHidden
<1>2. file \in [Users -> [Keys -> Lists]] /\ parked \in [Users -> Hideouts \cup {None}]
  BY DEF DataInv
<1>3. parked' \in [Users -> Hideouts \cup {None}] /\ SameHidden
  <2>1. CASE parked' = parked
    BY <1>2, <2>1 DEF SameHidden, Hidden
  <2>2. CASE parked[u] = None /\ parked' = [parked EXCEPT ![u] = Leftover]
    BY <2>2, LeftoverFacts
  <2> QED BY <2>1, <2>2 DEF Litters
<1>4. /\ file' \in [Users -> [Keys -> Lists]]
      /\ \A w \in Users, j \in Keys : Hidden(w, j) => file'[w][j] = file[w][j]
  <2>1. CASE Exchange(u, k, expected, desired)
    <3>1. file' = [file EXCEPT ![u][k] = desired] /\ ~Hidden(u, k)
      BY <2>1 DEF Exchange
    <3>2. \A w \in Users, j \in Keys : w # u \/ j # k => file'[w][j] = file[w][j]
      BY <1>2, <3>1
    <3> QED BY <1>2, <3>1, <3>2
  <2>2. CASE file' = file
    BY <1>2, <2>2
  <2> QED BY <2>1, <2>2
<1> QED BY <1>3, <1>4, FileData

\* What an attempt to save the ownership comes to.
LEMMA Saved ==
  ASSUME NEW b, NEW good, NEW bad, SaveBackup(b, good, bad)
  PROVE  /\ Spends
         /\ \/ backup' = b /\ good
            \/ backup' \in {backup, b} /\ bad
BY FreeSpends DEF SaveBackup

\* A key has been handled.
LEMMA ToKeyFacts ==
  ASSUME TypeInv, InLoop, NEW e \in Errors, NEW b \in Backups, Sound(b), ToKey(e, b)
  PROVE  /\ mem' \in Memory /\ mem'.b = b /\ mem'.loop = mem.loop /\ mem'.prior = mem.prior
         /\ mem'.snap = mem.snap /\ mem'.i = mem.i /\ mem'.other = mem.other /\ mem'.k \in Keys
         /\ mem'.errs = "none" <=> e = "none" /\ mem.errs = "none"
         /\ \/ /\ pc' = "restored" /\ mem'.k = mem.k
               /\ mem.k = NK \/ (e # "none" /\ mem.loop = "finish")
            \/ pc' = "look" /\ mem'.k = mem.k + 1 /\ mem.k < NK
<1> DEFINE errs == IF "differs" \in {e, mem.errs} THEN "differs" ELSE IF e = "none" THEN mem.errs ELSE e
           last == mem.k = NK \/ (e # "none" /\ mem.loop = "finish")
           next == IF last THEN mem.k ELSE mem.k + 1
<1>1. /\ pc' = IF last THEN "restored" ELSE "look"
      /\ mem' = [mem EXCEPT !.errs = errs, !.b = b, !.k = next]
  BY DEF ToKey
<1>2. errs \in Errors /\ (errs = "none" <=> e = "none" /\ mem.errs = "none")
  BY LoopTypes DEF Errors
<1>3. next \in Nat /\ next \in Keys /\ (~last => mem.k < NK)
  BY LoopTypes, Constants
<1>4. mem \in Memory
  BY LoopTypes
<1>5. CASE last
  <2> HIDE DEF errs
  <2> QED BY <1>1, <1>2, <1>3, <1>4, <1>5 DEF Memory
<1>6. CASE ~last
  <2>1. next = mem.k + 1
    BY <1>6
  <2> HIDE DEF errs, last, next
  <2> QED BY <1>1, <1>2, <1>3, <1>4, <1>6, <2>1 DEF Memory
<1> QED BY <1>5, <1>6

\* A loop goes on.
LEMMA LoopPlace ==
  ASSUME TypeInv, InLoop, rec' = rec, mem' \in Memory, mem'.b # None, Sound(mem'.b),
         mem'.loop = mem.loop, mem'.i = mem.i, mem'.prior = mem.prior, mem'.k \in Keys,
         InLoop',
         pc' \in {"step", "tick"} => PlanOf(mem.k)' # None /\ ~Finished(mem.k, PlanOf(mem.k))'
  PROVE  PlaceInv'
<1>1. /\ rec # None /\ mem.loop \in Loops
      /\ mem.loop = "handover" => rec.cand.on /\ mem.prior = rec.before
      /\ mem.loop = "release" => ~rec.cand.on
      /\ mem.loop = "rollback" => rec.cand.on
      /\ mem.loop \in {"inverse", "restore", "finish"} => mem.i \in 1..Len(rec.users)
  BY DEF TypeInv, PlaceInv, InLoop
<1>2. pc' \in {"look", "step", "tick", "restored"}
  BY DEF InLoop
<1>3. pc' \in PCs /\ pc' \notin Applying
  BY <1>2 DEF PCs, Applying
<1>4. Sound(mem.b)'
  BY DEF Sound, Counted
<1> QED BY <1>1, <1>2, <1>3, <1>4 DEF PlaceInv, InLoop

\* The process stops.
LEMMA ExitPlace ==
  ASSUME Exit
  PROVE  PlaceInv'
<1>1. mem' = Fresh /\ pc' = "idle"
  BY DEF Exit
<1>2. Fresh \in Memory /\ Fresh.b = None /\ Fresh.loop = None /\ Fresh.errs = "none"
  BY DEF Fresh, Memory, Errors
<1>3. Sound(mem.b)'
  BY <1>1, <1>2 DEF Sound
<1> QED BY <1>1, <1>2, <1>3 DEF PlaceInv, PCs, InLoop, Applying

\* A process that is in no loop goes to a place that asks for nothing.
Plain == {"reject", "failed", "refused", "stopped", "applied", "check", "rollback"}

LEMMA PlainPlace ==
  ASSUME TypeInv, rec # None, rec' = rec, pc' \in Plain, mem' \in Memory, Sound(mem.b)',
         mem'.loop = None, mem'.errs = "none",
         pc' \in Applying => rec.cand.on /\ mem'.prior = rec.before,
         pc' \in {"check", "rollback"} => backup' # None,
         pc' = "rollback" => mem'.k \in Keys /\ mem'.snap \in [Keys -> Lists]
  PROVE  PlaceInv'
BY DEF PlaceInv, Plain, PCs, InLoop, Applying

-----------------------------------------------------------------------------
(* Types: the steps                                                        *)

\* Outside of a loop.
LEMMA OutsideFacts ==
  ASSUME TypeInv, ~InLoop
  PROVE  mem \in Memory /\ mem.loop = None /\ mem.errs = "none" /\ Sound(mem.b)
BY DEF TypeInv, PlaceInv

LEMMA InitTypes == Init => TypeInv
<1> SUFFICES ASSUME Init PROVE TypeInv
  OBVIOUS
<1>1. store \in Settings
  BY Constants DEF Init, Settings
<1>2. file \in [Users -> [Keys -> Lists]]
  <2>1. Starts \subseteq [Keys -> Lists]
    BY DevAssumption, ListTypes
  <2> QED BY <2>1 DEF Init
<1>3. left \in [{"commands", "kills", "faults", "edits"} -> Nat]
  BY DevAssumption DEF Init
<1>5. parked \in [Users -> Hideouts \cup {None}] /\ \A u \in Users, k \in Keys : ~Hidden(u, k)
  BY DEF Init, Hidden
<1>4. DataInv
  BY <1>1, <1>2, <1>3, <1>5 DEF Init, DataInv, Sound
<1>6. PlaceInv
  <2>1. Fresh \in Memory /\ Fresh.b = None /\ Fresh.loop = None /\ Fresh.errs = "none"
    BY DEF Fresh, Memory, Errors
  <2> QED BY <2>1 DEF Init, PlaceInv, PCs, InLoop, Applying, Sound
<1> QED BY <1>4, <1>6 DEF TypeInv

\* A list that has one value more.
LEMMA AppendSecond ==
  ASSUME NEW S, NEW s \in Seq(S), NEW y \in S, NEW t \in Seq(S), Len(t) = Len(s) + 1,
         \A i \in 1..Len(s) : t[i] = s[i], t[Len(s) + 1] = y
  PROVE  Append(s, y) = t
<1>1. /\ Append(s, y) \in Seq(S) /\ Len(Append(s, y)) = Len(s) + 1
      /\ \A i \in 1..Len(s) : Append(s, y)[i] = s[i]
      /\ Append(s, y)[Len(s) + 1] = y
  OBVIOUS
<1>2. \A i \in 1..(Len(s) + 1) : i \in 1..Len(s) \/ i = Len(s) + 1
  OBVIOUS
<1>3. \A i \in 1..(Len(s) + 1) : Append(s, y)[i] = t[i]
  BY <1>1, <1>2
<1> QED BY <1>1, <1>3, SeqEqual

\* Whose values are captured.
LEMMA CaptureFacts ==
  ASSUME NEW cand \in Settings, Sound(backup), cand.on \/ backup # None
  PROVE  /\ CaptureUsers(cand) \in Seq(Users)
         /\ CaptureUsers(cand) =
              IF backup = None THEN <<cand.user>>
              ELSE IF cand.on /\ cand.user # backup.user THEN <<backup.user, cand.user>>
              ELSE <<backup.user>>
<1>1. cand.user \in Users /\ (backup # None => backup.user \in Users)
  BY DEF Settings, Sound, Backups
<1>2. CASE backup = None
  <2>1. ~Contains(<<>>, cand.user)
    BY DEF Contains
  <2>2. Append(<<>>, cand.user) = <<cand.user>>
    OBVIOUS
  <2> QED BY <1>1, <1>2, <2>1, <2>2 DEF CaptureUsers
<1>3. CASE backup # None
  <2>1. Contains(<<backup.user>>, cand.user) <=> backup.user = cand.user
    BY DEF Contains
  <2>2. ASSUME NEW x \in Users, NEW y \in Users
        PROVE  Append(<<x>>, y) = <<x, y>> /\ <<x>> \in Seq(Users) /\ <<x, y>> \in Seq(Users)
    <3>1. /\ <<x>> \in Seq(Users) /\ <<x, y>> \in Seq(Users)
          /\ Len(<<x, y>>) = Len(<<x>>) + 1
          /\ \A i \in 1..Len(<<x>>) : <<x, y>>[i] = <<x>>[i]
          /\ <<x, y>>[Len(<<x>>) + 1] = y
      OBVIOUS
    <3> QED BY <3>1, AppendSecond
  <2>3. Append(<<backup.user>>, cand.user) = <<backup.user, cand.user>>
    BY <1>1, <1>3, <2>2
  <2>4. CaptureUsers(cand) = IF cand.on /\ cand.user # backup.user THEN <<backup.user, cand.user>>
                             ELSE <<backup.user>>
    BY <1>3, <2>1, <2>3 DEF CaptureUsers
  <2> QED BY <1>1, <1>3, <2>2, <2>4
<1> QED BY <1>2, <1>3

\* The record of a plan and where the process is then.
LEMMA PlanFacts ==
  ASSUME TypeInv, NEW cand \in Settings, Plan(cand), cand.on \/ backup # None
  PROVE  /\ rec' \in Records /\ rec' # None /\ rec'.cand = cand /\ rec'.before = backup
         /\ rec'.users = CaptureUsers(cand) /\ rec'.vals = file
         /\ mem' \in Memory /\ mem'.b = None /\ mem'.loop = None /\ mem'.errs = "none"
         /\ IF cand.on THEN pc' = "take" /\ mem'.prior = backup ELSE pc' = "release"
<1> DEFINE r == [cand |-> cand, before |-> backup, users |-> CaptureUsers(cand), vals |-> file]
<1>1. rec' = r
  BY DEF Plan
<1>2. Sound(backup) /\ file \in [Users -> [Keys -> Lists]]
  BY DEF TypeInv, DataInv
<1>3. CaptureUsers(cand) \in Seq(Users) /\ backup \in Backups \cup {None}
  BY <1>2, CaptureFacts DEF Sound
<1>4. r \in Records
  BY <1>2, <1>3 DEF Records
<1>5. r # None
  BY <1>4, Constants
<1>6. /\ mem' \in Memory /\ mem'.b = None /\ mem'.loop = None /\ mem'.errs = "none"
      /\ IF cand.on THEN pc' = "take" /\ mem'.prior = backup ELSE pc' = "release"
  <2>1. Fresh \in Memory /\ Fresh.b = None /\ Fresh.loop = None /\ Fresh.errs = "none"
    BY DEF Fresh, Memory, Errors
  <2>2. [Fresh EXCEPT !.prior = backup] \in Memory
    BY <1>3, <2>1 DEF Memory
  <2>3. /\ [Fresh EXCEPT !.prior = backup].b = None /\ [Fresh EXCEPT !.prior = backup].loop = None
        /\ [Fresh EXCEPT !.prior = backup].errs = "none" /\ [Fresh EXCEPT !.prior = backup].prior = backup
    BY <2>1 DEF Memory
  <2> QED BY <2>1, <2>2, <2>3 DEF Plan
<1> QED BY <1>1, <1>4, <1>5, <1>6

LEMMA PlanTypes ==
  ASSUME TypeInv, NEW cand \in Settings, Plan(cand), cand.on \/ backup # None
  PROVE  TypeInv'
<1>1. Spends /\ UNCHANGED <<store, backup, file, parked, user>>
  BY FreeSpends DEF Plan
<1>2. DataInv'
  <2>1. left' \in [{"commands", "kills", "faults", "edits"} -> Nat]
    BY <1>1, SpendsTypes DEF TypeInv
  <2>2. Sound(backup') /\ Sound(rec'.before)
    BY <1>1, PlanFacts DEF TypeInv, DataInv, Sound, Counted
  <2> QED BY <1>1, <2>1, <2>2, PlanFacts DEF TypeInv, DataInv, user, Hidden
<1>3. Sound(mem.b)'
  BY PlanFacts DEF Sound
<1>4. PlaceInv'
  BY <1>3, PlanFacts DEF PlaceInv, PCs, InLoop, Applying
<1> QED BY <1>2, <1>4 DEF TypeInv

\* The ownership a user's values are taken with.
LEMMA NewBackup ==
  ASSUME NEW u \in Users, NEW o \in [Keys -> Lists], NEW m \in SUBSET Proxies
  PROVE  /\ Backup(u, o, m) \in Backups /\ Sound(Backup(u, o, m)) /\ Backup(u, o, m) # None
         /\ Backup(u, o, m).user = u /\ Backup(u, o, m).orig = o /\ Backup(u, o, m).managed = m
         /\ Backup(u, o, m).rb = None /\ ~RestoreStarted(Backup(u, o, m))
         /\ \A k \in Keys : Backup(u, o, m).plans[k] = None
<1>1. Backup(u, o, m) \in Backups
  BY DEF Backup, Backups, NoPlans
<1>2. Backup(u, o, m) # None
  BY <1>1, Constants
<1>3. \A k \in Keys : Backup(u, o, m).plans[k] = None
  BY DEF Backup, NoPlans
<1> QED BY <1>1, <1>2, <1>3 DEF Backup, Sound, Counted, RestoreStarted

\* The ownership with one more address.
LEMMA MoreManaged ==
  ASSUME NEW b \in Backups, Sound(b), NEW p \in Proxies
  PROVE  LET c == [b EXCEPT !.managed = @ \cup {p}]
         IN /\ c \in Backups /\ Sound(c) /\ c # None /\ c.user = b.user /\ c.orig = b.orig
            /\ c.plans = b.plans /\ c.rb = b.rb /\ c.managed = b.managed \cup {p}
<1> DEFINE c == [b EXCEPT !.managed = @ \cup {p}]
<1>1. /\ c \in Backups /\ c.user = b.user /\ c.orig = b.orig
      /\ c.plans = b.plans /\ c.rb = b.rb /\ c.managed = b.managed \cup {p}
  BY DEF Backups
<1> HIDE DEF c
<1>2. Sound(c) /\ c # None
  BY <1>1, Constants DEF Sound
<1> QED BY <1>1, <1>2 DEF c

\* What Take does.
TakeNew  == Backup(Owner, file[Owner], {Proxy})
TakeKeep == [backup EXCEPT !.managed = @ \cup {Proxy}]

LEMMA TakeCases ==
  ASSUME Take
  PROVE  /\ pc = "take" /\ UNCHANGED <<store, rec, file, parked, user>> /\ Spends
         /\ \/ /\ backup = None /\ AllReadable(Owner)
               /\ \/ backup' = TakeNew /\ Goto("check")
                  \/ backup' \in {backup, TakeNew} /\ Goto("reject")
            \/ backup = None /\ Goto("reject") /\ UNCHANGED backup
            \/ /\ backup # None /\ backup.user # Owner /\ UNCHANGED backup
               /\ pc' = "look" /\ mem' = [mem EXCEPT !.loop = "handover", !.b = backup, !.k = 1]
            \/ /\ backup # None /\ backup.user = Owner
               /\ \/ backup' = TakeKeep /\ Goto("check")
                  \/ backup' \in {backup, TakeKeep} /\ Goto("reject")
BY FreeSpends DEF Take, SaveBackup, TakeNew, TakeKeep

LEMMA TakeTypes == ASSUME TypeInv, Take PROVE TypeInv'
<1>1. mem \in Memory /\ mem.loop = None /\ mem.errs = "none" /\ Sound(mem.b)
      /\ rec # None /\ rec.cand.on /\ mem.prior = rec.before
  BY TakeCases, OutsideFacts DEF TypeInv, PlaceInv, InLoop, Applying
<1>2. /\ Owner \in Users /\ Proxy \in Proxies /\ file[Owner] \in [Keys -> Lists]
      /\ backup \in Backups \cup {None} /\ Sound(backup)
  BY <1>1, RecordTypes DEF TypeInv, DataInv, Sound
<1>3. TakeNew \in Backups /\ Sound(TakeNew) /\ TakeNew # None
  BY <1>2, NewBackup DEF TakeNew
<1>4. backup # None => TakeKeep \in Backups /\ Sound(TakeKeep) /\ TakeKeep # None
  BY <1>2, MoreManaged DEF TakeKeep
<1>5. Sound(backup')
  BY <1>2, <1>3, <1>4, TakeCases
<1>6. DataInv'
  BY <1>5, TakeCases, BackupData DEF TypeInv
<1>7. CASE pc' \in {"check", "reject"} /\ mem' = mem
  <2>1. pc' = "check" => backup' # None
    BY <1>3, <1>4, <1>7, TakeCases DEF Goto
  <2>2. Sound(mem.b)'
    BY <1>1, <1>7 DEF Sound, Counted
  <2> QED BY <1>1, <1>6, <1>7, <2>1, <2>2, TakeCases, PlainPlace DEF Plain, Applying, TypeInv
<1>8. CASE backup # None /\ pc' = "look" /\ mem' = [mem EXCEPT !.loop = "handover", !.b = backup, !.k = 1]
  <2>1. /\ mem' \in Memory /\ mem'.loop = "handover" /\ mem'.b = backup /\ mem'.k = 1
        /\ mem'.prior = mem.prior /\ mem'.errs = "none"
    BY <1>1, <1>2, <1>8 DEF Memory, Loops
  <2>2. Sound(mem.b)'
    BY <1>2, <2>1 DEF Sound, Counted
  <2>3. 1 \in Keys
    BY Constants
  <2>4. rec' = rec
    BY TakeCases
  <2>5. PlaceInv'
    BY <1>1, <1>8, <2>1, <2>2, <2>3, <2>4 DEF PlaceInv, PCs, InLoop, Applying, Loops
  <2> QED BY <1>6, <2>5 DEF TypeInv
<1> QED BY <1>7, <1>8, TakeCases DEF Goto

\* A process that is in no loop keeps what it knows and goes to such a place.
LEMMA GotoPlain ==
  ASSUME TypeInv, ~InLoop, rec # None, rec' = rec, NEW p \in Plain, Goto(p),
         p \in Applying => pc \in Applying, p \in {"check", "rollback"} => backup' # None,
         p = "rollback" => pc \in {"apply", "verify"}
  PROVE  PlaceInv'
<1>1. mem' = mem /\ pc' = p
  BY DEF Goto
<1>2. Sound(mem.b)'
  BY <1>1, OutsideFacts DEF Sound, Counted
<1>3. /\ p \in Applying => rec.cand.on /\ mem.prior = rec.before
      /\ p = "rollback" => mem.k \in Keys /\ mem.snap \in [Keys -> Lists]
  BY DEF TypeInv, PlaceInv
<1> QED BY <1>1, <1>2, <1>3, OutsideFacts, PlainPlace

\* A process that applies has a record.
LEMMA ApplyingFacts ==
  ASSUME TypeInv, pc \in Applying
  PROVE  /\ ~InLoop /\ rec # None /\ rec.cand.on /\ mem.prior = rec.before /\ mem \in Memory
         /\ mem.loop = None /\ mem.errs = "none" /\ Sound(mem.b)
         /\ Owner \in Users /\ Proxy \in Proxies /\ file[Owner] \in [Keys -> Lists]
         /\ backup \in Backups \cup {None} /\ Sound(backup)
         /\ pc \in {"check", "apply", "verify", "rollback"} => backup # None
         /\ pc \in {"apply", "verify", "rollback"} => mem.k \in Keys /\ mem.snap \in [Keys -> Lists]
<1>1. ~InLoop /\ rec # None
  BY DEF TypeInv, PlaceInv, InLoop, Applying
<1> QED BY <1>1, RecordTypes, OutsideFacts DEF TypeInv, PlaceInv, DataInv, Sound

LEMMA RejectCases ==
  ASSUME Reject
  PROVE  /\ pc = "reject" /\ UNCHANGED <<store, rec, file, parked, user>> /\ Spends
         /\ backup' \in {backup, mem.prior} /\ Goto("failed")
BY FreeSpends DEF Reject, SaveBackup

LEMMA RejectTypes == ASSUME TypeInv, Reject PROVE TypeInv'
<1>1. ~InLoop /\ rec # None /\ mem.prior = rec.before
  BY RejectCases, ApplyingFacts DEF Applying
<1>2. Sound(backup')
  BY <1>1, RejectCases DEF TypeInv, DataInv
<1>3. DataInv'
  BY <1>2, RejectCases, BackupData DEF TypeInv
<1>4. PlaceInv'
  BY <1>1, RejectCases, GotoPlain DEF Plain, Applying
<1> QED BY <1>3, <1>4 DEF TypeInv

LEMMA CheckCases ==
  ASSUME Check
  PROVE  /\ pc = "check" /\ UNCHANGED <<durable, file, parked, user>> /\ Spends
         /\ \/ /\ pc' = "apply" /\ mem' = [mem EXCEPT !.k = 1, !.snap = file[Owner]]
               /\ mem.prior = None => file[Owner] = backup.orig
               /\ mem.prior # None =>
                    \A k \in Keys : ValueKnown(file[Owner][k], backup.orig[k], backup.managed)
            \/ Goto("reject")
BY FreeSpends DEF Check

LEMMA CheckTypes == ASSUME TypeInv, Check PROVE TypeInv'
<1>1. DataInv'
  BY CheckCases, SameData DEF TypeInv
<1>2. /\ ~InLoop /\ rec # None /\ backup # None /\ rec.cand.on /\ mem.prior = rec.before
      /\ mem \in Memory /\ mem.loop = None /\ mem.errs = "none" /\ file[Owner] \in [Keys -> Lists]
  BY CheckCases, ApplyingFacts DEF Applying
<1>3. CASE Goto("reject")
  BY <1>1, <1>2, <1>3, CheckCases, GotoPlain DEF Plain, Applying, TypeInv, durable
<1>4. CASE pc' = "apply" /\ mem' = [mem EXCEPT !.k = 1, !.snap = file[Owner]]
  <2>1. 1 \in Keys /\ 1 \in Nat
    BY Constants
  <2>2. /\ mem' \in Memory /\ mem'.k = 1 /\ mem'.snap = file[Owner] /\ mem'.b = mem.b
        /\ mem'.prior = mem.prior /\ mem'.loop = None /\ mem'.errs = "none"
    BY <1>2, <1>4, <2>1 DEF Memory
  <2>3. Sound(mem.b)'
    BY <1>2, <2>2, OutsideFacts DEF Sound, Counted
  <2>4. rec' = rec /\ backup' = backup
    BY CheckCases DEF durable
  <2>5. PlaceInv'
    BY <1>2, <1>4, <2>1, <2>2, <2>3, <2>4 DEF PlaceInv, PCs, InLoop, Applying
  <2> QED BY <1>1, <2>5 DEF TypeInv
<1> QED BY <1>3, <1>4, CheckCases

\* The next key, or the end.
LEMMA NextKeyPlace ==
  ASSUME TypeInv, pc \in {"apply", "verify"}, NextKey, UNCHANGED <<rec, backup>>
  PROVE  /\ PlaceInv' /\ mem'.snap = mem.snap /\ mem'.b = mem.b /\ mem'.prior = mem.prior
         /\ \/ pc' = "apply" /\ mem'.k = mem.k + 1 /\ mem'.k \in Keys
            \/ pc' = "applied" /\ mem' = mem /\ mem.k = NK
<1>1. /\ ~InLoop /\ rec # None /\ backup # None /\ rec.cand.on /\ mem.prior = rec.before
      /\ mem \in Memory /\ mem.loop = None /\ mem.errs = "none"
      /\ mem.k \in Keys /\ mem.snap \in [Keys -> Lists]
  BY ApplyingFacts DEF Applying
<1>2. CASE mem.k < NK
  <2>1. pc' = "apply" /\ mem' = [mem EXCEPT !.k = mem.k + 1]
    BY <1>2 DEF NextKey
  <2>2. mem.k + 1 \in Keys /\ mem.k + 1 \in Nat
    BY <1>1, <1>2, Constants
  <2>3. /\ mem' \in Memory /\ mem'.k = mem.k + 1 /\ mem'.snap = mem.snap /\ mem'.b = mem.b
        /\ mem'.prior = mem.prior /\ mem'.loop = None /\ mem'.errs = "none"
    BY <1>1, <2>1, <2>2 DEF Memory
  <2>4. Sound(mem.b)'
    BY <1>1, <2>3, OutsideFacts DEF Sound, Counted
  <2>5. PlaceInv'
    BY <1>1, <2>1, <2>2, <2>3, <2>4 DEF PlaceInv, PCs, InLoop, Applying
  <2> QED BY <2>1, <2>2, <2>3, <2>5
<1>3. CASE ~(mem.k < NK)
  <2>1. Goto("applied")
    BY <1>3 DEF NextKey
  <2>2. PlaceInv'
    BY <1>1, <2>1, GotoPlain DEF Plain, Applying
  <2> QED BY <1>1, <1>3, <2>1, <2>2, Constants DEF Goto
<1> QED BY <1>2, <1>3

LEMMA ApplyCases ==
  ASSUME TypeInv, Apply
  PROVE  /\ pc = "apply" /\ UNCHANGED <<durable, user>> /\ Spends /\ DataInv' /\ SameHidden
         /\ file' \in {file, [file EXCEPT ![Owner][mem.k] = <<Proxy>>]}
         /\ \/ /\ file[Owner][mem.k] = mem.snap[mem.k]
               /\ file' = [file EXCEPT ![Owner][mem.k] = <<Proxy>>]
               /\ IF mem.k \in Git THEN Goto("verify") ELSE NextKey
            \/ /\ file' = file
               /\ Failing
            \/ /\ file[Owner][mem.k] = mem.snap[mem.k]
               /\ Goto("rollback")
<1> DEFINE old == mem.snap[mem.k]
           new == <<Proxy>>
<1>1. /\ pc = "apply" /\ UNCHANGED <<durable, user>> /\ Spends /\ Litters(Owner)
      /\ \/ Exchange(Owner, mem.k, old, new) /\ IF mem.k \in Git THEN Goto("verify") ELSE NextKey
         \/ file' = file /\ Failing
         \/ Exchange(Owner, mem.k, old, new) /\ Goto("rollback")
         \/ file' = file /\ file[Owner][mem.k] = old /\ Goto("rollback")
  BY FreeSpends DEF Apply, Mutate, Exchange, Litters
<1>2. DataInv /\ Owner \in Users /\ mem.k \in Keys /\ new \in Lists
  BY <1>1, ApplyingFacts, ListTypes DEF Applying, TypeInv
<1>3. Exchange(Owner, mem.k, old, new) \/ file' = file
  BY <1>1
<1> HIDE DEF old, new
<1>4. DataInv' /\ SameHidden
  BY <1>1, <1>2, <1>3, ExchangeFacts
<1> QED BY <1>1, <1>4 DEF Exchange, old, new

\* The failure of a change.
LEMMA FailingPlace ==
  ASSUME TypeInv, pc = "apply", Failing, UNCHANGED <<rec, backup>>
  PROVE  PlaceInv'
BY ApplyingFacts, GotoPlain DEF Failing, Plain, Applying

\* One key of one user gets another value.
LEMMA FileType ==
  ASSUME DataInv, NEW u \in Users, NEW k \in Keys, NEW v \in Lists
  PROVE  [file EXCEPT ![u][k] = v] \in [Users -> [Keys -> Lists]]
BY DEF DataInv

LEMMA ApplyTypes == ASSUME TypeInv, Apply PROVE TypeInv'
<1>1. /\ ~InLoop /\ rec # None /\ backup # None /\ Owner \in Users /\ mem.k \in Keys
      /\ <<Proxy>> \in Lists /\ rec' = rec /\ backup' = backup
      /\ mem \in Memory /\ mem.loop = None /\ mem.errs = "none"
      /\ rec.cand.on /\ mem.prior = rec.before /\ mem.snap \in [Keys -> Lists] /\ Sound(mem.b)
  BY ApplyCases, ApplyingFacts, ListTypes DEF Applying, durable
<1>3. DataInv'
  BY ApplyCases
<1>4. CASE Goto("verify")
  <2>1. Sound(mem.b)' /\ mem' = mem /\ pc' = "verify"
    BY <1>1, <1>4 DEF Goto, Sound, Counted
  <2> QED BY <1>1, <1>3, <2>1 DEF TypeInv, PlaceInv, PCs, InLoop, Applying
<1>5. CASE NextKey \/ Failing
  BY <1>1, <1>3, <1>5, ApplyCases, NextKeyPlace, FailingPlace DEF TypeInv
<1>6. CASE Goto("rollback")
  BY <1>1, <1>3, <1>6, ApplyCases, GotoPlain DEF Plain, Applying, TypeInv
<1> QED BY <1>4, <1>5, <1>6, ApplyCases

LEMMA VerifyCases ==
  ASSUME Verify
  PROVE  /\ pc = "verify" /\ UNCHANGED <<durable, file, parked, user>> /\ Spends
         /\ \/ file[Owner][mem.k] = <<Proxy>> /\ NextKey
            \/ Goto("rollback")
BY FreeSpends DEF Verify

LEMMA VerifyTypes == ASSUME TypeInv, Verify PROVE TypeInv'
<1>1. ~InLoop /\ rec # None /\ backup # None /\ rec' = rec /\ backup' = backup
  BY VerifyCases, ApplyingFacts DEF Applying, durable
<1>2. DataInv'
  BY VerifyCases, SameData DEF TypeInv
<1>3. PlaceInv'
  BY <1>1, VerifyCases, NextKeyPlace, GotoPlain DEF Plain, Applying
<1> QED BY <1>2, <1>3 DEF TypeInv

\* A rollback that is owed.
LEMMA NewRollback ==
  ASSUME NEW b \in Backups, Sound(b), NEW p \in Proxies, NEW v \in [Keys -> Lists],
         NEW q \in [Keys -> RestorePlans \cup {None}], \A k \in Keys : Counted(k, q[k])
  PROVE  LET c == [b EXCEPT !.rb = ApplyRollback(p, v, q)]
         IN /\ c \in Backups /\ Sound(c) /\ c # None /\ c.user = b.user /\ c.orig = b.orig
            /\ c.plans = b.plans /\ c.managed = b.managed
            /\ c.rb # None /\ c.rb.proxy = p /\ c.rb.vals = v /\ c.rb.plans = q
<1> DEFINE r == ApplyRollback(p, v, q)
           c == [b EXCEPT !.rb = r]
<1>1. r \in Rollbacks /\ r.proxy = p /\ r.vals = v /\ r.plans = q
  BY DEF ApplyRollback, Rollbacks
<1> HIDE DEF r
<1>2. /\ c \in Backups /\ c.user = b.user /\ c.orig = b.orig
      /\ c.plans = b.plans /\ c.rb = r /\ c.managed = b.managed
  BY <1>1 DEF Backups
<1> HIDE DEF c
<1>3. Sound(c) /\ c # None /\ r # None
  BY <1>1, <1>2, Constants DEF Sound
<1> QED BY <1>1, <1>2, <1>3 DEF c, r

\* There is nothing to count in no plans.
LEMMA NoPlansFacts ==
  /\ NoPlans \in [Keys -> RestorePlans \cup {None}]
  /\ \A k \in Keys : NoPlans[k] = None /\ Counted(k, NoPlans[k])
BY DEF NoPlans, Counted

RollbackBackup == [backup EXCEPT !.rb = ApplyRollback(Proxy, mem.snap, NoPlans)]

LEMMA RollbackCases ==
  ASSUME Rollback
  PROVE  /\ pc = "rollback" /\ UNCHANGED <<store, rec, file, parked, user>> /\ Spends
         /\ \/ /\ backup' = RollbackBackup /\ pc' = "look"
               /\ mem' = [mem EXCEPT !.loop = "rollback", !.b = RollbackBackup, !.k = 1]
            \/ backup' \in {backup, RollbackBackup} /\ Goto("failed")
BY FreeSpends DEF Rollback, SaveBackup, RollbackBackup

\* A loop begins with a backup.
LEMMA LoopBegins ==
  ASSUME TypeInv, ~InLoop, rec # None, rec' = rec, NEW loop \in Loops, NEW b \in Backups, Sound(b),
         pc' = "look", mem' = [mem EXCEPT !.loop = loop, !.b = b, !.k = 1],
         loop = "handover" => rec.cand.on /\ mem.prior = rec.before,
         loop = "release" => ~rec.cand.on,
         loop = "rollback" => rec.cand.on,
         loop \in {"inverse", "restore", "finish"} => mem.i \in 1..Len(rec.users)
  PROVE  /\ PlaceInv' /\ mem'.loop = loop /\ mem'.b = b /\ mem'.k = 1 /\ mem'.errs = "none"
         /\ mem'.prior = mem.prior /\ mem'.i = mem.i
<1>1. mem \in Memory /\ mem.errs = "none"
  BY OutsideFacts
<1>2. 1 \in Keys /\ 1 \in Nat
  BY Constants
<1>3. /\ mem' \in Memory /\ mem'.loop = loop /\ mem'.b = b /\ mem'.k = 1
      /\ mem'.prior = mem.prior /\ mem'.errs = "none" /\ mem'.i = mem.i
  BY <1>1, <1>2 DEF Memory
<1>4. Sound(mem.b)' /\ mem'.b # None
  BY <1>3, Constants DEF Sound, Counted
<1>5. PlaceInv'
  BY <1>2, <1>3, <1>4 DEF PlaceInv, PCs, InLoop, Applying
<1> QED BY <1>3, <1>5

\* The rollback as it is recorded.
LEMMA RollbackFacts ==
  ASSUME TypeInv, pc = "rollback"
  PROVE  /\ RollbackBackup \in Backups /\ Sound(RollbackBackup) /\ RollbackBackup # None
         /\ RollbackBackup.user = backup.user /\ RollbackBackup.orig = backup.orig
         /\ RollbackBackup.plans = backup.plans /\ RollbackBackup.managed = backup.managed
         /\ RollbackBackup.rb # None /\ RollbackBackup.rb.proxy = Proxy
         /\ RollbackBackup.rb.vals = mem.snap /\ RollbackBackup.rb.plans = NoPlans
<1>1. /\ backup \in Backups /\ Sound(backup) /\ Proxy \in Proxies /\ mem.snap \in [Keys -> Lists]
  BY ApplyingFacts DEF Applying
<1> QED BY <1>1, NewRollback, NoPlansFacts DEF RollbackBackup

LEMMA RollbackTypes == ASSUME TypeInv, Rollback PROVE TypeInv'
<1>1. ~InLoop /\ rec # None /\ rec' = rec /\ rec.cand.on /\ Sound(backup) /\ "rollback" \in Loops
  BY RollbackCases, ApplyingFacts DEF Applying, Loops
<1>2. RollbackBackup \in Backups /\ Sound(RollbackBackup)
  BY RollbackCases, RollbackFacts
<1>3. DataInv'
  BY <1>1, <1>2, RollbackCases, BackupData DEF TypeInv
<1>4. CASE Goto("failed")
  BY <1>1, <1>3, <1>4, GotoPlain DEF Plain, Applying, TypeInv
<1>5. CASE /\ pc' = "look"
           /\ mem' = [mem EXCEPT !.loop = "rollback", !.b = RollbackBackup, !.k = 1]
  BY <1>1, <1>2, <1>3, <1>5, LoopBegins DEF TypeInv
<1> QED BY <1>4, <1>5, RollbackCases

LEMMA ReleaseCases ==
  ASSUME Release
  PROVE  /\ pc = "release" /\ UNCHANGED <<durable, file, parked, user>> /\ Spends
         /\ \/ backup = None /\ Goto("applied")
            \/ /\ backup # None /\ pc' = "look"
               /\ mem' = [mem EXCEPT !.loop = "release", !.b = backup, !.k = 1]
BY FreeSpends DEF Release, Free

LEMMA ReleaseTypes == ASSUME TypeInv, Release PROVE TypeInv'
<1>1. ~InLoop /\ rec # None /\ rec' = rec /\ ~rec.cand.on /\ "release" \in Loops
  BY ReleaseCases DEF TypeInv, PlaceInv, InLoop, durable, Loops
<1>2. Sound(backup) /\ (backup # None => backup \in Backups)
  BY DEF TypeInv, DataInv, Sound
<1>3. DataInv'
  BY ReleaseCases, SameData DEF TypeInv
<1>4. CASE Goto("applied")
  BY <1>1, <1>3, <1>4, GotoPlain DEF Plain, Applying, TypeInv
<1>5. CASE /\ backup # None /\ pc' = "look"
           /\ mem' = [mem EXCEPT !.loop = "release", !.b = backup, !.k = 1]
  BY <1>1, <1>2, <1>3, <1>5, LoopBegins DEF TypeInv
<1> QED BY <1>4, <1>5, ReleaseCases

LEMMA CommitTypes == ASSUME TypeInv, Commit PROVE TypeInv'
<1>1. rec # None
  BY DEF Commit, TypeInv, PlaceInv
<1>2. store' \in Settings /\ rec' = None /\ hand' = {}
  BY <1>1, RecordTypes DEF Commit, TypeInv
<1>3. UNCHANGED <<file, mine, parked, race, left, backup>>
  BY DEF Commit
<1>4. Sound(backup)'
  BY <1>3 DEF TypeInv, DataInv, Sound, Counted
<1>5. DataInv'
  BY <1>2, <1>3, <1>4 DEF TypeInv, DataInv, Hidden
<1> QED BY <1>5, ExitPlace DEF Commit, TypeInv

\* A plan is recorded: the loop goes on, or the call fails.
Recorded(p) ==
  \/ /\ backup' = WithPlan(mem.k, p)
     /\ IF Finished(mem.k, p) THEN ToKey("none", WithPlan(mem.k, p))
        ELSE pc' = "step" /\ mem' = [mem EXCEPT !.b = WithPlan(mem.k, p)]
  \/ backup' \in {backup, WithPlan(mem.k, p)} /\ ToKey("fault", WithPlan(mem.k, p))

LEMMA RecordedTypes ==
  ASSUME TypeInv, InLoop, NEW p \in RestorePlans, Counted(mem.k, p), Recorded(p),
         Spends, UNCHANGED <<store, rec, file, parked, user>>
  PROVE  TypeInv'
<1> DEFINE w == WithPlan(mem.k, p)
<1>1. Sound(w) /\ w \in Backups /\ w # None
  BY LoopTypes, WithPlanSound
<1>2. /\ mem \in Memory /\ mem.k \in Keys /\ rec # None /\ p # None
      /\ "none" \in Errors /\ "fault" \in Errors
  BY LoopTypes, Constants DEF Errors
<1>3. backup' \in {backup, w}
  BY DEF Recorded
<1>4. DataInv'
  BY <1>1, <1>3, BackupData DEF TypeInv, DataInv
<1>5. CASE ToKey("none", w) \/ ToKey("fault", w)
  <2>1. /\ mem' \in Memory /\ mem'.b = w /\ mem'.loop = mem.loop /\ mem'.prior = mem.prior
        /\ mem'.i = mem.i /\ mem'.k \in Keys /\ pc' \in {"look", "restored"}
    <3> HIDE DEF w
    <3> QED BY <1>1, <1>2, <1>5, ToKeyFacts
  <2> HIDE DEF w
  <2> QED BY <1>1, <1>2, <1>4, <2>1, LoopPlace DEF InLoop, TypeInv
<1>6. CASE /\ ~Finished(mem.k, p)
           /\ pc' = "step" /\ mem' = [mem EXCEPT !.b = w]
  <2>1. /\ mem' \in Memory /\ mem'.b = w /\ mem'.loop = mem.loop /\ mem'.prior = mem.prior
        /\ mem'.i = mem.i /\ mem'.k = mem.k
    <3> HIDE DEF w
    <3> QED BY <1>1, <1>2, <1>6 DEF Memory
  <2>2. PlanOf(mem.k)' = p
    <3>1. B \in Backups
      BY LoopTypes
    <3>2. /\ w.rb = None <=> B.rb = None
          /\ B.rb = None  => w.plans = [B.plans EXCEPT ![mem.k] = p]
          /\ B.rb # None => w.rb.plans = [B.rb.plans EXCEPT ![mem.k] = p]
      BY <1>2, <3>1, WithPlanFacts
    <3>3. DOMAIN B.plans = Keys /\ (B.rb # None => DOMAIN B.rb.plans = Keys)
      BY <3>1 DEF Backups, Rollbacks
    <3>4. B' = w /\ mem'.k = mem.k
      BY <2>1 DEF B
    <3> HIDE DEF w
    <3> QED BY <1>2, <3>2, <3>3, <3>4 DEF PlanOf, InRollback
  <2>3. ~Finished(mem.k, PlanOf(mem.k))'
    BY <1>6, <2>1, <2>2 DEF Finished
  <2>4. InLoop'
    BY <1>6 DEF InLoop
  <2> HIDE DEF w
  <2>5. PlaceInv'
    BY <1>1, <1>2, <2>1, <2>2, <2>3, <2>4, LoopPlace
  <2> QED BY <1>4, <2>5 DEF TypeInv
<1> QED BY <1>5, <1>6 DEF Recorded

\* A key is left for the next one.
LEMMA ToKeyTypes ==
  ASSUME TypeInv, InLoop, NEW e \in Errors, ToKey(e, B), DataInv', rec' = rec
  PROVE  TypeInv'
<1>1. Sound(B) /\ B \in Backups /\ B # None /\ mem.b = B
  BY LoopTypes DEF B
<1>2. /\ mem' \in Memory /\ mem'.b = B /\ mem'.loop = mem.loop /\ mem'.prior = mem.prior
      /\ mem'.i = mem.i /\ mem'.k \in Keys /\ pc' \in {"look", "restored"}
  BY <1>1, ToKeyFacts
<1>3. PlaceInv'
  BY <1>1, <1>2, LoopPlace DEF InLoop
<1> QED BY <1>3 DEF TypeInv

\* The plan that is made for the current key.
NewPlan ==
  LET now == file[B.user][mem.k]
  IN IF ContainsManaged(now, Managed)
     THEN RestorePlan(now, Desired(mem.k, Goal(mem.k), now, Managed), 0)
     ELSE DonePlan(mem.k, now)

LEMMA LookCases ==
  ASSUME Look
  PROVE  /\ pc = "look" /\ UNCHANGED <<store, rec, file, parked, user>> /\ Spends
         /\ \/ /\ PlanOf(mem.k) # None /\ Finished(mem.k, PlanOf(mem.k))
               /\ ToKey("none", B) /\ UNCHANGED backup
            \/ /\ PlanOf(mem.k) # None /\ ~Finished(mem.k, PlanOf(mem.k))
               /\ Goto("step") /\ UNCHANGED backup
            \/ PlanOf(mem.k) = None /\ Recorded(NewPlan)
            \/ /\ \E e \in {"parked", "fault"} : ToKey(e, B)
               /\ UNCHANGED backup
BY FreeSpends DEF Look, SaveBackup, Recorded, NewPlan

LEMMA GoalType ==
  ASSUME TypeInv, InLoop
  PROVE  Goal(mem.k) \in Lists
<1>1. B \in Backups /\ mem.k \in Keys
  BY LoopTypes
<1> QED BY <1>1 DEF Goal, InRollback, Backups, Rollbacks

LEMMA NewPlanFacts ==
  ASSUME TypeInv, InLoop
  PROVE  /\ NewPlan \in RestorePlans /\ Counted(mem.k, NewPlan)
         /\ NewPlan.before = file[B.user][mem.k]
         /\ IF ContainsManaged(file[B.user][mem.k], Managed)
            THEN /\ ~Finished(mem.k, NewPlan) /\ NewPlan.next = 0
                 /\ NewPlan.desired = Desired(mem.k, Goal(mem.k), file[B.user][mem.k], Managed)
            ELSE /\ Finished(mem.k, NewPlan) /\ NewPlan.desired = file[B.user][mem.k]
<1>1. file[B.user][mem.k] \in Lists /\ mem.k \in Keys
  BY LoopTypes
<1>2. Desired(mem.k, Goal(mem.k), file[B.user][mem.k], Managed) \in Lists
  BY <1>1, GoalType, DesiredType
<1> DEFINE d == Desired(mem.k, Goal(mem.k), file[B.user][mem.k], Managed)
           now == file[B.user][mem.k]
<1>3. NewPlan = IF ContainsManaged(now, Managed) THEN RestorePlan(now, d, 0) ELSE DonePlan(mem.k, now)
  BY DEF NewPlan
<1> HIDE DEF d, now
<1>4. now \in Lists /\ d \in Lists
  BY <1>1, <1>2 DEF d, now
<1>5. CASE ContainsManaged(now, Managed)
  BY <1>1, <1>3, <1>4, <1>5, RestorePlanFacts DEF d, now
<1>6. CASE ~ContainsManaged(now, Managed)
  BY <1>1, <1>3, <1>4, <1>6, DonePlanFacts DEF d, now
<1> QED BY <1>5, <1>6

LEMMA LookTypes == ASSUME TypeInv, Look PROVE TypeInv'
<1>1. InLoop /\ rec' = rec
  BY LookCases DEF InLoop
<1>2. CASE PlanOf(mem.k) = None /\ Recorded(NewPlan)
  BY <1>1, <1>2, LookCases, NewPlanFacts, RecordedTypes
<1>3. CASE UNCHANGED backup
  <2>1. DataInv'
    BY <1>3, LookCases, SameData DEF TypeInv, durable
  <2>2. CASE \E e \in {"none", "parked", "fault"} : ToKey(e, B)
    <3>1. PICK e \in {"none", "parked", "fault"} : ToKey(e, B)
      BY <2>2
    <3> QED BY <1>1, <2>1, <3>1, ToKeyTypes DEF Errors
  <2>3. CASE /\ PlanOf(mem.k) # None /\ ~Finished(mem.k, PlanOf(mem.k)) /\ Goto("step")
    <3>1. mem' = mem /\ pc' = "step"
      BY <2>3 DEF Goto
    <3>2. PlanOf(mem.k)' = PlanOf(mem.k) /\ Finished(mem.k, PlanOf(mem.k))' = Finished(mem.k, PlanOf(mem.k))
      BY <3>1 DEF PlanOf, Finished, InRollback, B
    <3>3. Sound(mem.b) /\ mem.b # None /\ mem \in Memory /\ mem.k \in Keys
      BY <1>1, LoopTypes DEF B
    <3>4. PlaceInv'
      BY <1>1, <2>3, <3>1, <3>2, <3>3, LoopPlace DEF InLoop
    <3> QED BY <2>1, <3>4 DEF TypeInv
  <2>4. CASE Recorded(NewPlan)
    BY <1>1, <2>4, LookCases, NewPlanFacts, RecordedTypes
  <2> QED BY <2>2, <2>3, <2>4, LookCases
<1> QED BY <1>2, <1>3, LookCases

\* The current key, its plan and what it holds.
Cur   == PlanOf(mem.k)
After == [file EXCEPT ![B.user][mem.k] = PlanAfter(mem.k, Cur)]

\* A place at which a step is under way.
LEMMA AtStep ==
  ASSUME TypeInv, pc \in {"step", "tick"}
  PROVE  /\ InLoop /\ Cur \in RestorePlans /\ Counted(mem.k, Cur) /\ ~Finished(mem.k, Cur)
         /\ PlanAfter(mem.k, Cur) \in Lists /\ mem.k \in Keys /\ B.user \in Users
         /\ [Cur EXCEPT !.next = @ + 1] \in RestorePlans
         /\ Counted(mem.k, [Cur EXCEPT !.next = @ + 1])
         /\ rec # None
<1>1. InLoop
  BY DEF InLoop
<1>2. Cur # None /\ ~Finished(mem.k, Cur)
  BY <1>1 DEF TypeInv, PlaceInv, Cur
<1>3. Cur \in RestorePlans /\ Counted(mem.k, Cur) /\ mem.k \in Keys /\ B.user \in Users /\ rec # None
  BY <1>1, <1>2, LoopTypes DEF Cur
<1> QED BY <1>1, <1>2, <1>3, PlanValues

LEMMA StepCases ==
  ASSUME TypeInv, Step
  PROVE  /\ pc = "step" /\ UNCHANGED <<durable, user>> /\ Spends /\ DataInv' /\ SameHidden
         /\ \/ /\ file' = file /\ Goto("tick")
            \/ /\ file[B.user][mem.k] = PlanBefore(mem.k, Cur) /\ file' = After /\ Goto("tick")
            \/ /\ file' = file
               /\ \E e \in {"parked", "differs", "fault"} : ToKey(e, B)
            \/ /\ file[B.user][mem.k] = PlanBefore(mem.k, Cur) /\ file' = After
               /\ ToKey("fault", B)
<1> DEFINE kind == IF Hidden(B.user, mem.k) THEN "parked"
                   ELSE IF file[B.user][mem.k] # PlanBefore(mem.k, Cur) THEN "differs" ELSE "fault"
           old == PlanBefore(mem.k, Cur)
           new == PlanAfter(mem.k, Cur)
<1>1. /\ pc = "step" /\ UNCHANGED <<durable, user>> /\ Spends /\ Litters(B.user)
      /\ \/ file' = file /\ Goto("tick")
         \/ Exchange(B.user, mem.k, old, new) /\ (Goto("tick") \/ ToKey("fault", B))
         \/ file' = file /\ (ToKey(kind, B) \/ ToKey("fault", B))
  BY FreeSpends DEF Step, Mutate, Cur, Exchange, Litters
<1>2. DataInv /\ B.user \in Users /\ mem.k \in Keys /\ PlanAfter(mem.k, Cur) \in Lists
  BY <1>1, AtStep DEF TypeInv
<1>3. kind \in {"parked", "differs", "fault"}
  OBVIOUS
<1>4. Exchange(B.user, mem.k, old, new) \/ file' = file
  BY <1>1
<1> HIDE DEF kind, old, new
<1>5. DataInv' /\ SameHidden
  BY <1>1, <1>2, <1>4, ExchangeFacts DEF new
<1>6. Exchange(B.user, mem.k, old, new) => file[B.user][mem.k] = old /\ file' = After
  BY DEF Exchange, After, new
<1> QED BY <1>1, <1>3, <1>5, <1>6 DEF old

LEMMA StepTypes == ASSUME TypeInv, Step PROVE TypeInv'
<1>1. InLoop /\ rec' = rec /\ backup' = backup
  BY StepCases DEF InLoop, durable
<1>4. DataInv'
  BY StepCases
<1>5. CASE \E e \in {"parked", "differs", "fault"} : ToKey(e, B)
  <2>1. PICK e \in {"parked", "differs", "fault"} : ToKey(e, B)
    BY <1>5
  <2> QED BY <1>1, <1>4, <2>1, ToKeyTypes DEF Errors
<1>6. CASE Goto("tick")
  <2>1. mem' = mem /\ pc' = "tick"
    BY <1>6 DEF Goto
  <2>2. PlanOf(mem.k)' = Cur /\ Finished(mem.k, PlanOf(mem.k))' = Finished(mem.k, Cur)
    BY <2>1 DEF PlanOf, Finished, InRollback, B, Cur
  <2>3. Sound(mem.b) /\ mem.b # None /\ mem \in Memory /\ mem.k \in Keys
    BY <1>1, LoopTypes DEF B
  <2>4. Cur # None /\ ~Finished(mem.k, Cur)
    BY StepCases, AtStep, Constants
  <2>5. PlaceInv'
    BY <1>1, <2>1, <2>2, <2>3, <2>4, LoopPlace DEF InLoop
  <2> QED BY <1>4, <2>5 DEF TypeInv
<1> QED BY <1>5, <1>6, StepCases

LEMMA TickCases ==
  ASSUME Tick
  PROVE  /\ pc = "tick" /\ UNCHANGED <<store, rec, file, parked, user>> /\ Spends
         /\ \/ /\ file[B.user][mem.k] = PlanAfter(mem.k, Cur)
               /\ Recorded([Cur EXCEPT !.next = @ + 1])
            \/ ToKey("differs", B) /\ UNCHANGED backup
BY FreeSpends DEF Tick, SaveBackup, Recorded, Cur

LEMMA TickTypes == ASSUME TypeInv, Tick PROVE TypeInv'
<1>1. InLoop /\ rec' = rec
  BY TickCases DEF InLoop
<1>2. CASE Recorded([Cur EXCEPT !.next = @ + 1])
  BY <1>1, <1>2, TickCases, AtStep, RecordedTypes
<1>3. CASE ToKey("differs", B) /\ UNCHANGED backup
  <2>1. DataInv'
    BY <1>3, TickCases, SameData DEF TypeInv, durable
  <2> QED BY <1>1, <1>3, <2>1, ToKeyTypes DEF Errors
<1> QED BY <1>2, <1>3, TickCases

\* The user the scene was on for, and the one it is to be on for.
Had(r, u)  == r.before # None /\ r.before.user = u
Gets(r, u) == r.cand.on /\ r.cand.user = u

\* The end of a loop.
Ended(p, b) == pc' = p /\ mem' = [mem EXCEPT !.b = b, !.loop = None, !.errs = "none"]

Gone   == [B EXCEPT !.rb = None]
Forgot == [B EXCEPT !.plans = NoPlans]

LEMMA RestoredCases ==
  ASSUME Restored, InLoop => mem.loop \in Loops
  PROVE  /\ pc = "restored" /\ UNCHANGED <<store, rec, file, parked, user>> /\ Spends
         /\ \/ /\ mem.errs # "none" /\ UNCHANGED backup
               /\ \/ mem.loop \in {"release", "rollback"} /\ Ended("failed", B)
                  \/ mem.loop = "handover" /\ Ended("reject", B)
                  \/ /\ mem.loop \in {"inverse", "restore", "finish"}
                     /\ \E p \in {"refused", "stopped"} : Ended(p, B)
            \/ /\ mem.errs = "none" /\ mem.loop = "release"
               /\ \/ backup' = None /\ Ended("applied", None)
                  \/ backup' \in {backup, None} /\ Ended("failed", B)
            \/ /\ mem.errs = "none" /\ mem.loop = "handover"
               /\ \/ backup' = None /\ Ended("take", None)
                  \/ backup' \in {backup, None} /\ Ended("reject", B)
            \/ /\ mem.errs = "none" /\ mem.loop = "rollback"
               /\ backup' \in {backup, Gone} /\ Ended("failed", None)
            \/ /\ mem.errs = "none" /\ mem.loop = "inverse"
               /\ \/ backup' = Gone /\ Ended("current", Gone)
                  \/ backup' \in {backup, Gone} /\ Ended("stopped", Gone)
            \/ /\ mem.errs = "none" /\ mem.loop = "restore"
               /\ \/ backup' = Gone /\ Ended("settle", Gone)
                  \/ backup' \in {backup, Gone} /\ Ended("stopped", Gone)
            \/ /\ mem.errs = "none" /\ mem.loop = "finish" /\ UNCHANGED backup
               /\ Ended("current", Forgot)
<1>1. mem.loop \in Loops /\ pc = "restored"
  BY DEF Restored, InLoop
<1>2. Spends /\ UNCHANGED <<store, rec, file, parked, user>>
  BY FreeSpends DEF Restored, SaveBackup
<1>3. CASE mem.errs # "none"
  BY <1>1, <1>2, <1>3 DEF Restored, Ended, Loops
<1>4. CASE mem.errs = "none" /\ mem.loop = "release"
  BY <1>1, <1>2, <1>4 DEF Restored, Ended, SaveBackup
<1>5. CASE mem.errs = "none" /\ mem.loop = "handover"
  BY <1>1, <1>2, <1>5 DEF Restored, Ended, SaveBackup
<1>6. CASE mem.errs = "none" /\ mem.loop = "rollback"
  BY <1>1, <1>2, <1>6 DEF Restored, Ended, SaveBackup, Gone
<1>7. CASE mem.errs = "none" /\ mem.loop = "inverse"
  BY <1>1, <1>2, <1>7 DEF Restored, Ended, SaveBackup, Gone
<1>8. CASE mem.errs = "none" /\ mem.loop = "restore"
  BY <1>1, <1>2, <1>8 DEF Restored, Ended, SaveBackup, Gone
<1>9. CASE mem.errs = "none" /\ mem.loop = "finish"
  BY <1>1, <1>2, <1>9 DEF Restored, Ended, Forgot
<1> QED BY <1>1, <1>3, <1>4, <1>5, <1>6, <1>7, <1>8, <1>9 DEF Loops

\* The ownership without its rollback, and without its plans.
LEMMA GoneFacts ==
  ASSUME B \in Backups, Sound(B)
  PROVE  /\ Gone \in Backups /\ Sound(Gone) /\ Gone # None /\ Gone.user = B.user
         /\ Gone.orig = B.orig /\ Gone.managed = B.managed /\ Gone.plans = B.plans /\ Gone.rb = None
         /\ Forgot \in Backups /\ Sound(Forgot) /\ Forgot # None /\ Forgot.user = B.user
         /\ Forgot.orig = B.orig /\ Forgot.managed = B.managed /\ Forgot.plans = NoPlans
         /\ Forgot.rb = B.rb
<1>1. /\ Gone \in Backups /\ Gone.user = B.user
      /\ Gone.orig = B.orig /\ Gone.managed = B.managed /\ Gone.plans = B.plans /\ Gone.rb = None
  BY DEF Backups, Gone
<1>2. /\ Forgot \in Backups /\ Forgot.user = B.user
      /\ Forgot.orig = B.orig /\ Forgot.managed = B.managed /\ Forgot.plans = NoPlans
      /\ Forgot.rb = B.rb
  BY NoPlansFacts DEF Backups, Forgot
<1>3. Sound(Gone) /\ Sound(Forgot) /\ Gone # None /\ Forgot # None
  BY <1>1, <1>2, NoPlansFacts, Constants DEF Sound
<1> QED BY <1>1, <1>2, <1>3

\* What a loop leaves behind.
LEMMA EndedFacts ==
  ASSUME TypeInv, InLoop, NEW p, NEW b \in Backups \cup {None}, Ended(p, b)
  PROVE  /\ pc' = p /\ mem' \in Memory /\ mem'.b = b /\ mem'.loop = None /\ mem'.errs = "none"
         /\ mem'.prior = mem.prior /\ mem'.i = mem.i /\ mem'.k = mem.k /\ mem'.other = mem.other
<1>1. mem \in Memory
  BY LoopTypes
<1> QED BY <1>1 DEF Ended, Memory, Errors

LEMMA RestoredTypes == ASSUME TypeInv, Restored PROVE TypeInv'
<1>1. pc = "restored" /\ InLoop /\ mem.loop \in Loops
  BY DEF Restored, InLoop, TypeInv, PlaceInv
<1>2. /\ UNCHANGED <<store, rec, file, parked, user>> /\ Spends
      /\ B \in Backups /\ Sound(B) /\ B # None /\ rec # None
      /\ Gone \in Backups /\ Sound(Gone) /\ Forgot \in Backups /\ Sound(Forgot) /\ Sound(None)
  BY <1>1, RestoredCases, LoopTypes, GoneFacts DEF Sound
<1>3. backup' \in {backup, None, Gone}
  BY <1>1, RestoredCases
<1>4. DataInv'
  BY <1>2, <1>3, BackupData DEF TypeInv, DataInv
<1>5. \E p \in PCs, b \in {B, None, Gone, Forgot} :
        /\ Ended(p, b)
        /\ \/ p \in {"failed", "refused", "stopped", "applied"}
           \/ p \in {"reject", "take"} /\ mem.loop = "handover"
           \/ p \in {"current", "settle"} /\ mem.loop \in {"inverse", "restore", "finish"}
  BY <1>1, RestoredCases DEF PCs
<1>6. PICK p \in PCs, b \in {B, None, Gone, Forgot} :
        /\ Ended(p, b)
        /\ \/ p \in {"failed", "refused", "stopped", "applied"}
           \/ p \in {"reject", "take"} /\ mem.loop = "handover"
           \/ p \in {"current", "settle"} /\ mem.loop \in {"inverse", "restore", "finish"}
  BY <1>5
<1>7. /\ pc' = p /\ mem' \in Memory /\ mem'.b = b /\ mem'.loop = None /\ mem'.errs = "none"
      /\ mem'.prior = mem.prior /\ mem'.i = mem.i /\ Sound(b)
  BY <1>1, <1>2, <1>6, EndedFacts
<1>8. Sound(mem.b)'
  BY <1>7 DEF Sound, Counted
<1>9. /\ mem.loop = "handover" => rec.cand.on /\ mem.prior = rec.before
      /\ mem.loop \in {"inverse", "restore", "finish"} => mem.i \in 1..Len(rec.users)
  BY <1>1 DEF TypeInv, PlaceInv
<1>10. PlaceInv'
  <2>1. rec.users \in Seq(Users) /\ mem.i \in Nat
    BY <1>1, <1>2, RecordTypes, LoopTypes DEF TypeInv, Memory
  <2> QED BY <1>2, <1>6, <1>7, <1>8, <1>9, <2>1 DEF PlaceInv, PCs, InLoop, Applying
<1> QED BY <1>4, <1>10 DEF TypeInv

LEMMA CompensateTypes == ASSUME TypeInv, Compensate PROVE TypeInv'
<1>1. rec # None /\ rec' = rec /\ pc' = "undo"
  BY DEF Compensate, TypeInv, PlaceInv, durable
<1>2. rec.users \in Seq(Users) /\ Len(rec.users) \in Nat
  BY <1>1, RecordTypes DEF TypeInv
<1>3. /\ mem' \in Memory /\ mem'.b = None /\ mem'.loop = None /\ mem'.errs = "none"
      /\ mem'.i = Len(rec.users)
  BY <1>2 DEF Compensate, Fresh, Memory, Errors
<1>4. Sound(mem.b)'
  BY <1>3 DEF Sound
<1>5. PlaceInv'
  BY <1>1, <1>2, <1>3, <1>4 DEF PlaceInv, PCs, InLoop, Applying
<1>6. DataInv'
  BY SameData, FreeSpends DEF Compensate, TypeInv, Free
<1> QED BY <1>5, <1>6 DEF TypeInv

\* What compensation does about the ownership of a user.
LEMMA UndoCases ==
  ASSUME Undo
  PROVE  /\ pc = "undo" /\ mem.i > 0 /\ UNCHANGED <<durable, file, parked, user, left>>
         /\ \/ /\ backup = None /\ pc' = "current"
               /\ mem' = [mem EXCEPT !.b = None, !.other = FALSE]
            \/ /\ backup # None /\ backup.user # Subject /\ pc' = "current"
               /\ mem' = [mem EXCEPT !.b = None, !.other = TRUE]
               /\ \E j \in DOMAIN rec.users : rec.users[j] = backup.user /\ j < mem.i
            \/ Goto("refused")
            \/ /\ backup # None /\ backup.user = Subject /\ OwnershipMatches(backup)
               /\ pc' = "look"
               /\ \/ /\ backup.rb # None /\ InverseAllowed(backup.rb)
                     /\ mem' = [mem EXCEPT !.b = backup, !.loop = "inverse", !.k = 1]
                  \/ /\ backup.rb = None /\ RestoreStarted(backup) /\ ReleaseAllowed(backup)
                     /\ mem' = [mem EXCEPT !.b = backup, !.loop = "finish", !.k = 1]
            \/ /\ backup # None /\ backup.user = Subject /\ OwnershipMatches(backup)
               /\ backup.rb = None /\ ~RestoreStarted(backup) /\ pc' = "current"
               /\ mem' = [mem EXCEPT !.b = backup, !.other = FALSE]
<1>1. CASE backup = None
  BY <1>1 DEF Undo
<1>2. CASE backup # None /\ backup.user # Subject
  BY <1>2 DEF Undo
<1>3. CASE backup # None /\ backup.user = Subject
  <2>1. CASE OwnershipMatches(backup) /\ backup.rb # None
    BY <1>3, <2>1 DEF Undo
  <2>2. CASE OwnershipMatches(backup) /\ backup.rb = None /\ RestoreStarted(backup)
    BY <1>3, <2>2 DEF Undo
  <2>3. CASE ~OwnershipMatches(backup)
    BY <1>3, <2>3 DEF Undo
  <2>4. CASE OwnershipMatches(backup) /\ backup.rb = None /\ ~RestoreStarted(backup)
    BY <1>3, <2>4 DEF Undo
  <2> QED BY <2>1, <2>2, <2>3, <2>4
<1> QED BY <1>1, <1>2, <1>3

\* The user whom a compensation is at.
LEMMA SubjectFacts ==
  ASSUME TypeInv, pc \in {"undo", "current", "settle"}, mem.i > 0
  PROVE  /\ ~InLoop /\ rec # None /\ rec \in Records /\ mem \in Memory /\ mem.i \in 1..Len(rec.users)
         /\ rec.users \in Seq(Users) /\ Subject \in Users /\ Values \in [Keys -> Lists]
         /\ Original \in Backups /\ Sound(Original) /\ Original # None /\ Original.user = Subject
         /\ Proxy \in Proxies /\ Sound(backup) /\ Sound(mem.b) /\ Sound(rec.before)
         /\ file[Subject] \in [Keys -> Lists] /\ mem.loop = None /\ mem.errs = "none"
<1>1. ~InLoop /\ rec # None /\ mem \in Memory /\ mem.i <= Len(rec.users)
  BY DEF TypeInv, PlaceInv, InLoop
<1>2. /\ rec \in Records /\ rec.users \in Seq(Users) /\ Sound(rec.before) /\ rec.before \in Backups \cup {None}
      /\ rec.vals \in [Users -> [Keys -> Lists]] /\ Proxy \in Proxies
  BY <1>1, RecordTypes DEF TypeInv
<1>3. mem.i \in 1..Len(rec.users)
  BY <1>1, <1>2 DEF Memory
<1>4. Subject \in Users
  BY <1>2, <1>3 DEF Subject
<1>5. Values \in [Keys -> Lists]
  BY <1>2, <1>4 DEF Values
<1>6. Backup(Subject, Values, {}) \in Backups /\ Sound(Backup(Subject, Values, {})) /\ Backup(Subject, Values, {}).user = Subject
  BY <1>4, <1>5, NewBackup
<1>7. Original \in Backups /\ Sound(Original) /\ Original # None /\ Original.user = Subject
  BY <1>2, <1>6, Constants DEF Original
<1>8. Sound(backup) /\ file[Subject] \in [Keys -> Lists]
  BY <1>4 DEF TypeInv, DataInv
<1> QED BY <1>1, <1>2, <1>3, <1>4, <1>5, <1>7, <1>8, OutsideFacts

\* A process at a user of a compensation.
LEMMA AtUserPlace ==
  ASSUME TypeInv, pc \in {"undo", "current", "settle"}, mem.i > 0, rec' = rec,
         pc' \in {"current", "settle", "undo"}, mem' \in Memory, Sound(mem'.b), mem'.loop = None,
         mem'.errs = "none", mem'.i = mem.i \/ (pc' = "undo" /\ mem'.i = mem.i - 1)
  PROVE  PlaceInv'
<1>1. rec # None /\ mem.i \in 1..Len(rec.users) /\ rec.users \in Seq(Users)
  BY SubjectFacts
<1>2. Sound(mem.b)'
  BY DEF Sound, Counted
<1>3. Len(rec.users) \in Nat
  BY <1>1
<1> QED BY <1>1, <1>2, <1>3 DEF PlaceInv, PCs, InLoop, Applying

LEMMA UndoTypes == ASSUME TypeInv, Undo PROVE TypeInv'
<1>1. pc = "undo" /\ mem.i > 0 /\ rec' = rec /\ backup' = backup
  BY UndoCases DEF durable
<1>2. /\ ~InLoop /\ rec # None /\ mem \in Memory /\ mem.i \in 1..Len(rec.users) /\ Sound(backup)
      /\ mem.loop = None /\ mem.errs = "none"
  BY <1>1, SubjectFacts
<1>3. DataInv'
  BY UndoCases, SameData, FreeSpends DEF TypeInv, Free
<1>4. CASE Goto("refused")
  BY <1>1, <1>2, <1>3, <1>4, GotoPlain DEF Plain, Applying, TypeInv
<1>5. CASE /\ backup # None /\ pc' = "look"
           /\ \E loop \in {"inverse", "finish"} : mem' = [mem EXCEPT !.b = backup, !.loop = loop, !.k = 1]
  <2>1. PICK loop \in {"inverse", "finish"} : mem' = [mem EXCEPT !.b = backup, !.loop = loop, !.k = 1]
    BY <1>5
  <2>2. mem' = [mem EXCEPT !.loop = loop, !.b = backup, !.k = 1]
    BY <2>1
  <2>3. backup \in Backups /\ loop \in Loops
    BY <1>2, <1>5 DEF Sound, Loops
  <2> QED BY <1>1, <1>2, <1>3, <1>5, <2>2, <2>3, LoopBegins DEF TypeInv
<1>6. CASE pc' = "current" /\ \E b \in {None, backup}, o \in BOOLEAN : mem' = [mem EXCEPT !.b = b, !.other = o]
  <2>1. PICK b \in {None, backup}, o \in BOOLEAN : mem' = [mem EXCEPT !.b = b, !.other = o]
    BY <1>6
  <2>2. b \in Backups \cup {None} /\ Sound(b)
    BY <1>2 DEF Sound
  <2>3. mem' \in Memory /\ mem'.b = b /\ mem'.loop = None /\ mem'.errs = "none" /\ mem'.i = mem.i
    BY <1>2, <2>1, <2>2 DEF Memory
  <2> QED BY <1>1, <1>3, <1>6, <2>2, <2>3, AtUserPlace DEF TypeInv
<1> QED BY <1>4, <1>5, <1>6, UndoCases

\* The ownership with the inverse that is owed.
Basis == IF mem.b = None THEN Original ELSE mem.b
Owed == ApplyRollback(Proxy, Values, [k \in Keys |-> InversePlan(k, file[Subject][k])])
UndoBackup == [Basis EXCEPT !.managed = @ \cup {Proxy}, !.rb = Owed]

LEMMA CurrentCases ==
  ASSUME Current
  PROVE  /\ pc = "current" /\ UNCHANGED <<store, rec, file, parked, user>> /\ Spends
         /\ \/ Goto("stopped") /\ UNCHANGED backup
            \/ /\ Goto("refused") /\ UNCHANGED backup
               /\ \/ \E k \in Keys : ~Allowed(file[Subject][k], k)
                  \/ mem.other /\ file[Subject] # Values
            \/ file[Subject] = Values /\ Goto("settle") /\ UNCHANGED backup
            \/ /\ file[Subject] # Values /\ ~mem.other
               /\ \A k \in Keys : Allowed(file[Subject][k], k)
               /\ \/ /\ backup' = UndoBackup /\ pc' = "look"
                     /\ mem' = [mem EXCEPT !.b = UndoBackup, !.loop = "restore", !.k = 1]
                  \/ backup' \in {backup, UndoBackup} /\ Goto("stopped")
<1>1. pc = "current" /\ UNCHANGED <<store, rec, file, parked, user>> /\ Spends
  BY FreeSpends DEF Current, SaveBackup
<1>2. CASE ~AllReadable(Subject)
  BY <1>1, <1>2 DEF Current
<1>3. CASE AllReadable(Subject) /\ \E k \in Keys : ~Allowed(file[Subject][k], k)
  BY <1>1, <1>3 DEF Current
<1>4. CASE AllReadable(Subject) /\ (\A k \in Keys : Allowed(file[Subject][k], k)) /\ file[Subject] = Values
  BY <1>1, <1>4 DEF Current
<1>5. CASE /\ AllReadable(Subject) /\ (\A k \in Keys : Allowed(file[Subject][k], k))
           /\ file[Subject] # Values
  BY <1>1, <1>5 DEF Current, SaveBackup, UndoBackup, Basis, Owed
<1> QED BY <1>2, <1>3, <1>4, <1>5

\* A plan of the inverse.
LEMMA InversePlanFacts ==
  ASSUME TypeInv, pc \in {"undo", "current", "settle"}, mem.i > 0, NEW k \in Keys
  PROVE  LET p == InversePlan(k, file[Subject][k])
         IN /\ p \in RestorePlans /\ Counted(k, p) /\ p.desired = Values[k]
            /\ p.before = file[Subject][k] /\ p.next >= 0
            /\ (Finished(k, p) => file[Subject][k] = Values[k])
            /\ (~Finished(k, p) => p.next = 0)
<1>1. file[Subject][k] \in Lists /\ Values[k] \in Lists
  BY SubjectFacts
<1> DEFINE now == file[Subject][k]
           v == Values[k]
<1>2. now \in Lists /\ v \in Lists
  BY <1>1
<1>3. InversePlan(k, now) = IF now = v THEN DonePlan(k, now) ELSE RestorePlan(now, v, 0)
  BY DEF InversePlan
<1> HIDE DEF now, v
<1>4. CASE now = v
  BY <1>2, <1>3, <1>4, DonePlanFacts DEF now, v, RestorePlans
<1>5. CASE now # v
  BY <1>2, <1>3, <1>5, RestorePlanFacts DEF now, v, RestorePlans
<1> QED BY <1>4, <1>5 DEF now, v

LEMMA UndoBackupFacts ==
  ASSUME TypeInv, pc = "current"
  PROVE  /\ UndoBackup \in Backups /\ Sound(UndoBackup) /\ UndoBackup # None
         /\ UndoBackup.user = Basis.user /\ UndoBackup.orig = Basis.orig
         /\ UndoBackup.plans = Basis.plans /\ UndoBackup.managed = Basis.managed \cup {Proxy}
         /\ UndoBackup.rb # None /\ UndoBackup.rb.proxy = Proxy /\ UndoBackup.rb.vals = Values
         /\ UndoBackup.rb.plans = [k \in Keys |-> InversePlan(k, file[Subject][k])]
         /\ Basis \in Backups
<1>1. mem.i > 0
  BY DEF TypeInv, PlaceInv
<1>2. Basis \in Backups /\ Sound(Basis) /\ Proxy \in Proxies /\ Values \in [Keys -> Lists]
  BY <1>1, SubjectFacts DEF Basis, Sound
<1> DEFINE q == [k \in Keys |-> InversePlan(k, file[Subject][k])]
           c == [Basis EXCEPT !.managed = @ \cup {Proxy}]
<1>3. q \in [Keys -> RestorePlans \cup {None}] /\ \A k \in Keys : Counted(k, q[k])
  BY <1>1, InversePlanFacts
<1>4. /\ c \in Backups /\ Sound(c) /\ c # None /\ c.user = Basis.user /\ c.orig = Basis.orig
      /\ c.plans = Basis.plans /\ c.rb = Basis.rb /\ c.managed = Basis.managed \cup {Proxy}
  BY <1>2, MoreManaged
<1>5. UndoBackup = [c EXCEPT !.rb = ApplyRollback(Proxy, Values, q)]
  BY <1>2 DEF UndoBackup, Owed, Backups
<1> HIDE DEF q, c
<1>6. /\ UndoBackup \in Backups /\ Sound(UndoBackup) /\ UndoBackup # None
      /\ UndoBackup.user = c.user /\ UndoBackup.orig = c.orig
      /\ UndoBackup.plans = c.plans /\ UndoBackup.managed = c.managed
      /\ UndoBackup.rb # None /\ UndoBackup.rb.proxy = Proxy /\ UndoBackup.rb.vals = Values
      /\ UndoBackup.rb.plans = q
  BY <1>2, <1>3, <1>4, <1>5, NewRollback
<1> QED BY <1>2, <1>4, <1>6 DEF q

LEMMA CurrentTypes == ASSUME TypeInv, Current PROVE TypeInv'
<1>1. pc = "current" /\ rec' = rec /\ mem.i > 0
  BY CurrentCases DEF TypeInv, PlaceInv
<1>2. /\ ~InLoop /\ rec # None /\ mem \in Memory /\ mem.i \in 1..Len(rec.users) /\ Sound(backup)
      /\ mem.loop = None /\ mem.errs = "none" /\ Sound(mem.b)
  BY <1>1, SubjectFacts
<1>3. UndoBackup \in Backups /\ Sound(UndoBackup)
  BY <1>1, UndoBackupFacts
<1>4. backup' \in {backup, UndoBackup}
  BY CurrentCases
<1>5. DataInv'
  BY <1>2, <1>3, <1>4, CurrentCases, BackupData DEF TypeInv
<1>6. CASE Goto("stopped") \/ Goto("refused")
  BY <1>1, <1>2, <1>5, <1>6, GotoPlain DEF Plain, Applying, TypeInv
<1>7. CASE Goto("settle")
  BY <1>1, <1>2, <1>5, <1>7, AtUserPlace DEF Goto, TypeInv
<1>8. CASE pc' = "look" /\ mem' = [mem EXCEPT !.b = UndoBackup, !.loop = "restore", !.k = 1]
  <2>1. mem' = [mem EXCEPT !.loop = "restore", !.b = UndoBackup, !.k = 1]
    BY <1>8
  <2>2. "restore" \in Loops
    BY DEF Loops
  <2> QED BY <1>1, <1>2, <1>3, <1>5, <1>8, <2>1, <2>2, LoopBegins DEF TypeInv
<1> QED BY <1>6, <1>7, <1>8, CurrentCases

\* On to the user before.
Down == pc' = "undo" /\ mem' = [Fresh EXCEPT !.i = mem.i - 1]

LEMMA SettleCases ==
  ASSUME Settle
  PROVE  /\ pc = "settle" /\ UNCHANGED <<store, rec, file, parked, user>> /\ Spends
         /\ \/ /\ Had(rec, Subject) /\ mem.b # rec.before
               /\ \/ backup' = rec.before /\ Down
                  \/ backup' \in {backup, rec.before} /\ Goto("stopped")
            \/ /\ ~Had(rec, Subject) /\ mem.b # None
               /\ \/ backup' = None /\ Down
                  \/ backup' \in {backup, None} /\ Goto("stopped")
            \/ /\ Had(rec, Subject) /\ mem.b = rec.before /\ Down /\ UNCHANGED backup
            \/ /\ ~Had(rec, Subject) /\ mem.b = None /\ Down /\ UNCHANGED backup
<1>1. CASE Had(rec, Subject) /\ mem.b # rec.before
  BY <1>1, FreeSpends DEF Settle, SaveBackup, Had, Down
<1>2. CASE ~Had(rec, Subject) /\ mem.b # None
  BY <1>2, FreeSpends DEF Settle, SaveBackup, Had, Down
<1>3. CASE (Had(rec, Subject) /\ mem.b = rec.before) \/ (~Had(rec, Subject) /\ mem.b = None)
  BY <1>3, FreeSpends DEF Settle, SaveBackup, Had, Down
<1> QED BY <1>1, <1>2, <1>3

LEMMA DownFacts ==
  ASSUME Down, mem \in Memory, mem.i > 0
  PROVE  mem' \in Memory /\ mem'.b = None /\ mem'.loop = None /\ mem'.errs = "none" /\ mem'.i = mem.i - 1
<1>1. mem.i - 1 \in Nat
  BY DEF Memory
<1> QED BY <1>1 DEF Down, Fresh, Memory, Errors

LEMMA SettleTypes == ASSUME TypeInv, Settle PROVE TypeInv'
<1>1. pc = "settle" /\ rec' = rec /\ mem.i > 0
  BY SettleCases DEF TypeInv, PlaceInv
<1>2. /\ ~InLoop /\ rec # None /\ mem \in Memory /\ Sound(backup)
      /\ mem.loop = None /\ mem.errs = "none" /\ Sound(mem.b) /\ Sound(rec.before) /\ Sound(None)
  BY <1>1, SubjectFacts DEF Sound
<1>3. backup' \in {backup, rec.before, None}
  BY SettleCases
<1>4. DataInv'
  BY <1>2, <1>3, SettleCases, BackupData DEF TypeInv
<1>5. CASE Goto("stopped")
  BY <1>1, <1>2, <1>4, <1>5, GotoPlain DEF Plain, Applying, TypeInv
<1>6. CASE Down
  <2>1. mem' \in Memory /\ mem'.b = None /\ mem'.loop = None /\ mem'.errs = "none" /\ mem'.i = mem.i - 1
    BY <1>1, <1>2, <1>6, DownFacts
  <2> QED BY <1>1, <1>2, <1>4, <1>6, <2>1, AtUserPlace DEF TypeInv, Down
<1> QED BY <1>5, <1>6, SettleCases

LEMMA UndoneTypes == ASSUME TypeInv, Undone PROVE TypeInv'
<1>1. rec' = None /\ UNCHANGED <<store, backup, file, parked, user, left>>
  BY DEF Undone
<1>2. Sound(backup)'
  BY <1>1 DEF TypeInv, DataInv, Sound, Counted
<1>3. DataInv'
  BY <1>1, <1>2 DEF TypeInv, DataInv, user, Hidden
<1> QED BY <1>3, ExitPlace DEF Undone, TypeInv

LEMMA GiveUpTypes == ASSUME TypeInv, GiveUp PROVE TypeInv'
BY SameData, FreeSpends, ExitPlace DEF GiveUp, TypeInv, Free

LEMMA KillTypes == ASSUME TypeInv, Kill PROVE TypeInv'
BY SameData, FreeSpends, ExitPlace DEF Kill, TypeInv

\* A kill inside the exchange of a key: the file is hidden, or the key is
\* written.
LEMMA ExchangeKilled ==
  ASSUME DataInv, NEW u \in Users, NEW k \in Keys, NEW expected, NEW desired \in Lists,
         KillExchange(u, k, expected, desired)
  PROVE  /\ file' \in [Users -> [Keys -> Lists]] /\ parked' \in [Users -> Hideouts \cup {None}]
         /\ \A w \in Users, j \in Keys : Hidden(w, j)' => file'[w][j] = <<>>
         /\ file[u][k] = expected
         /\ \A w \in Users, j \in Keys : w # u => file'[w][j] = file[w][j]
         /\ \/ \A j \in Keys : file'[u][j] \in {file[u][j], <<>>}
            \/ file' = [file EXCEPT ![u][k] = desired]
<1>1. /\ file \in [Users -> [Keys -> Lists]] /\ parked \in [Users -> Hideouts \cup {None}]
      /\ \A w \in Users, j \in Keys : Hidden(w, j) => file[w][j] = <<>>
      /\ parked[u] = None /\ file[u][k] = expected /\ <<>> \in Lists
  BY ListTypes DEF DataInv, KillExchange
<1> DEFINE some == {i \in Keys : SameFile(i, k)}
           gone == [j \in some |-> file[u][j]]
           rest == [j \in Keys |-> IF SameFile(j, k) THEN <<>> ELSE file[u][j]]
           new == [file EXCEPT ![u][k] = desired]
<1>2. CASE /\ parked' = [parked EXCEPT ![u] = gone]
           /\ file' = [file EXCEPT ![u] = rest]
  <2>1. some \in {Git, Keys \ Git}
    <3>1. Git \subseteq Keys
      BY Constants DEF Git, NK
    <3> QED BY <3>1 DEF SameFile
  <2>2. gone \in Hideouts /\ DOMAIN gone = some
    <3>1. gone \in [some -> Lists]
      BY <1>1
    <3> HIDE DEF gone, some
    <3> QED BY <2>1, <3>1 DEF Hideouts
  <2>3. rest \in [Keys -> Lists] /\ \A j \in Keys : rest[j] \in {file[u][j], <<>>}
    BY <1>1
  <2>4. \A j \in some : j \in Keys /\ rest[j] = <<>>
    OBVIOUS
  <2> HIDE DEF gone, some, rest
  <2>5. /\ file'[u] = rest /\ parked'[u] = gone
        /\ \A w \in Users : w # u => file'[w] = file[w] /\ parked'[w] = parked[w]
        /\ file' \in [Users -> [Keys -> Lists]] /\ parked' \in [Users -> Hideouts \cup {None}]
    BY <1>1, <1>2, <2>2, <2>3
  <2>6. ASSUME NEW w \in Users, NEW j \in Keys, Hidden(w, j)' PROVE file'[w][j] = <<>>
    <3>1. CASE w # u
      BY <1>1, <2>5, <2>6, <3>1 DEF Hidden
    <3>2. CASE w = u
      BY <2>2, <2>4, <2>5, <2>6, <3>2 DEF Hidden
    <3> QED BY <3>1, <3>2
  <2> QED BY <1>1, <2>3, <2>5, <2>6
<1>3. CASE parked' = [parked EXCEPT ![u] = Leftover] /\ file' = new
  <2>1. parked' \in [Users -> Hideouts \cup {None}] /\ SameHidden
    BY <1>1, <1>3, LeftoverFacts
  <2>2. /\ file' \in [Users -> [Keys -> Lists]]
        /\ \A w \in Users, j \in Keys : w # u => file'[w][j] = file[w][j]
    BY <1>1, <1>3
  <2>3. \A j \in Keys : ~Hidden(u, j)
    BY <1>1 DEF Hidden
  <2>4. \A w \in Users, j \in Keys : Hidden(w, j)' => file'[w][j] = <<>>
    BY <1>1, <2>1, <2>2, <2>3 DEF SameHidden
  <2> QED BY <1>1, <1>3, <2>1, <2>2, <2>4
<1> QED BY <1>2, <1>3 DEF KillExchange

\* Where a kill can hit an exchange.
LEMMA KillInsideFacts ==
  ASSUME TypeInv, KillInside
  PROVE  /\ UNCHANGED <<durable, user>> /\ Spends /\ Exit /\ DataInv' /\ rec # None
         /\ \E u \in Users :
              /\ \A w \in Users, j \in Keys : w # u => file'[w][j] = file[w][j]
              /\ \/ \A j \in Keys : file'[u][j] \in {file[u][j], <<>>}
                 \/ pc = "apply" /\ u = Owner /\ file' = [file EXCEPT ![Owner][mem.k] = <<Proxy>>]
                 \/ pc = "step" /\ u = B.user /\ file' = After
              /\ \/ pc = "apply" /\ u = Owner
                 \/ pc = "step" /\ u = B.user
<1>1. UNCHANGED <<durable, user>> /\ Spends /\ Exit /\ DataInv
  BY FreeSpends DEF KillInside, TypeInv
<1>2. ASSUME file' \in [Users -> [Keys -> Lists]], parked' \in [Users -> Hideouts \cup {None}],
             \A w \in Users, j \in Keys : Hidden(w, j)' => file'[w][j] = <<>>
      PROVE  DataInv'
  <2>1. Sound(backup)' /\ (rec' # None => Sound(rec.before)')
    BY <1>1 DEF TypeInv, DataInv, Sound, Counted, durable
  <2> QED BY <1>1, <1>2, <2>1, SpendsTypes DEF DataInv, durable, user
<1>3. CASE pc = "apply"
  <2> DEFINE new == <<Proxy>>
  <2>1. Owner \in Users /\ mem.k \in Keys /\ new \in Lists /\ rec # None
    BY <1>3, ApplyingFacts, ListTypes DEF Applying
  <2>2. KillExchange(Owner, mem.k, mem.snap[mem.k], new)
    BY <1>3 DEF KillInside
  <2> HIDE DEF new
  <2>3. /\ file' \in [Users -> [Keys -> Lists]] /\ parked' \in [Users -> Hideouts \cup {None}]
        /\ \A w \in Users, j \in Keys : Hidden(w, j)' => file'[w][j] = <<>>
        /\ \A w \in Users, j \in Keys : w # Owner => file'[w][j] = file[w][j]
        /\ \/ \A j \in Keys : file'[Owner][j] \in {file[Owner][j], <<>>}
           \/ file' = [file EXCEPT ![Owner][mem.k] = new]
    BY <1>1, <2>1, <2>2, ExchangeKilled
  <2> QED BY <1>1, <1>2, <1>3, <2>1, <2>3 DEF new
<1>4. CASE pc = "step"
  <2> DEFINE u == B.user
             old == PlanBefore(mem.k, Cur)
             new == PlanAfter(mem.k, Cur)
  <2>1. u \in Users /\ mem.k \in Keys /\ new \in Lists /\ rec # None
    BY <1>4, AtStep
  <2>2. KillExchange(u, mem.k, old, new)
    BY <1>4 DEF KillInside, Cur
  <2> HIDE DEF u, old, new
  <2>3. /\ file' \in [Users -> [Keys -> Lists]] /\ parked' \in [Users -> Hideouts \cup {None}]
        /\ \A w \in Users, j \in Keys : Hidden(w, j)' => file'[w][j] = <<>>
        /\ \A w \in Users, j \in Keys : w # u => file'[w][j] = file[w][j]
        /\ \/ \A j \in Keys : file'[u][j] \in {file[u][j], <<>>}
           \/ file' = [file EXCEPT ![u][mem.k] = new]
    BY <1>1, <2>1, <2>2, ExchangeKilled
  <2> QED BY <1>1, <1>2, <1>4, <2>1, <2>3 DEF After, u, new
<1> QED BY <1>3, <1>4 DEF KillInside

LEMMA KillInsideTypes == ASSUME TypeInv, KillInside PROVE TypeInv'
BY KillInsideFacts, ExitPlace DEF TypeInv

\* What an edit can write.
LEMMA EditsTypes ==
  ASSUME TypeInv, NEW u \in Users, NEW k \in Keys, NEW v \in Edits(u, k)
  PROVE  v \in Lists
<1>1. file[u][k] \in Lists
  BY DEF TypeInv, DataInv
<1> QED BY <1>1, ListTypes DEF Edits

LEMMA EditTypes ==
  ASSUME TypeInv, NEW u \in Users, NEW k \in Keys, NEW v \in Edits(u, k), Edit(u, k, v)
  PROVE  TypeInv'
<1>1. v \in Lists
  BY EditsTypes
<1>2. file' \in [Users -> [Keys -> Lists]]
  BY <1>1, FileType DEF Edit, TypeInv
<1>3. mine' \in [Users -> [Keys -> Lists]]
  <2>1. mine[u][k] \in Lists
    BY DEF TypeInv, DataInv
  <2>2. Append(mine[u][k], added) \in Lists
    BY <2>1, ListTypes
  <2> DEFINE w == IF \E i \in DOMAIN v : v[i] \in Proxies THEN Append(mine[u][k], added) ELSE v
  <2>3. w \in Lists
    BY <1>1, <2>2
  <2>4. mine' = [mine EXCEPT ![u][k] = w]
    BY DEF Edit
  <2> HIDE DEF w
  <2> QED BY <2>3, <2>4 DEF TypeInv, DataInv
<1>4. hand' \subseteq Users \X Keys /\ race' \subseteq Users \X Keys \X BOOLEAN
  <2>1. Mistaken(u, k, v) \in BOOLEAN
    BY DEF Mistaken, Edited
  <2> QED BY <2>1 DEF Edit, TypeInv, DataInv
<1>5. UNCHANGED <<store, rec, backup, parked, pc, mem>> /\ Spends
  BY FreeSpends DEF Edit, durable
<1>10. \A w \in Users, j \in Keys : Hidden(w, j)' => file'[w][j] = <<>>
  <2>1. file' = [file EXCEPT ![u][k] = v] /\ ~Hidden(u, k)
    BY DEF Edit
  <2>2. \A w \in Users, j \in Keys : w # u \/ j # k => file'[w][j] = file[w][j]
    BY <2>1 DEF TypeInv, DataInv
  <2> QED BY <1>5, <2>1, <2>2 DEF TypeInv, DataInv, Hidden
<1>6. Sound(backup)' /\ (rec' # None => Sound(rec.before)')
  BY <1>5 DEF TypeInv, DataInv, Sound, Counted
<1>7. DataInv'
  BY <1>2, <1>3, <1>4, <1>5, <1>6, <1>10, SpendsTypes DEF TypeInv, DataInv
<1>8. Sound(mem.b)'
  BY <1>5 DEF TypeInv, PlaceInv, Sound, Counted
<1>9. PlaceInv'
  BY <1>5, <1>8 DEF TypeInv, PlaceInv, InLoop, Applying, Counted, Finished, PlanOf, InRollback, B
<1> QED BY <1>7, <1>9 DEF TypeInv

-----------------------------------------------------------------------------
(* The ownership                                                           *)

\* What a record says of the ownership of before, and for whom.
Recording(s, r) ==
  /\ r.before = None <=> ~s.on
  /\ r.before = None => r.cand.on
  /\ r.before # None => /\ r.before.user = s.user /\ s.proxy \in r.before.managed
                        /\ r.before.rb = None /\ ~RestoreStarted(r.before)
  /\ r.users = IF r.before = None THEN <<r.cand.user>>
               ELSE IF r.cand.on /\ r.cand.user # r.before.user
                    THEN <<r.before.user, r.cand.user>>
                    ELSE <<r.before.user>>

\* What an ownership is while there is a record.
Fit(r, b) == b # None =>
  /\ Had(r, b.user) \/ Gets(r, b.user)
  /\ Had(r, b.user) => /\ b.orig = r.before.orig /\ r.before.managed \subseteq b.managed
                       /\ b.managed \subseteq r.before.managed \cup {r.cand.proxy}
  /\ ~Had(r, b.user) => b.managed = {r.cand.proxy}
  /\ b.rb # None => ~RestoreStarted(b) /\ b.rb.proxy = r.cand.proxy /\ r.cand.proxy \in b.managed
  /\ RestoreStarted(b) => Had(r, b.user) /\ ~Gets(r, b.user)

\* Without a record the settings say whose the ownership is.
RestInv == rec = None =>
  /\ backup = None <=> ~store.on
  /\ backup # None => backup.user = store.user /\ store.proxy \in backup.managed /\ backup.rb = None

\* The keys a loop is done with, and how their plans are.
Below   == IF pc = "restored" THEN Keys ELSE 1..(mem.k - 1)
Done(k, p) == p # None /\ Finished(k, p)
PlanIn(b, k) == IF b.rb # None THEN b.rb.plans[k] ELSE b.plans[k]

\* An ownership that another one differs from in its plans at most, all done.
Like(b, c) == b # None /\ b = [c EXCEPT !.plans = b.plans]
AllDone(b) == \A k \in Keys : Done(k, b.plans[k])

InUndo  == InLoop /\ mem.loop \in {"inverse", "restore", "finish"}
Undoing == pc \in {"undo", "current", "settle"} \/ InUndo

\* What a loop has in hand.
LoopOwn ==
  /\ mem.loop \in {"handover", "release", "finish"} <=> B.rb = None
  /\ B.rb = None => Had(rec, B.user) /\ ~Gets(rec, B.user)
  /\ mem.loop = "rollback" => Gets(rec, B.user)
  /\ InUndo => B.user = Subject
  /\ backup # None /\ backup.user = B.user /\ backup.managed = B.managed
  /\ backup.rb = None <=> B.rb = None
  /\ pc # "restored" => \A k \in mem.k..NK : PlanIn(backup, k) = PlanIn(B, k)
  /\ mem.errs = "none" => backup = B /\ \A k \in Below : Done(k, PlanIn(B, k))

\* What a compensation has in hand.
UndoOwn ==
  IF mem.b = None THEN backup = None \/ (backup.user # Subject /\ mem.other)
  ELSE /\ mem.b.user = Subject /\ mem.b.rb = None /\ ~RestoreStarted(mem.b)
       /\ Like(backup, mem.b) /\ (backup # mem.b => AllDone(backup))

\* Where the ownership is known.
PlaceOwn ==
  /\ pc = "take" => backup = rec.before \/ (backup = None /\ ~Had(rec, Owner))
  /\ pc \in {"check", "apply", "verify", "rollback"} \/ (pc = "applied" /\ rec.cand.on) =>
       backup # None /\ backup.user = Owner /\ backup.rb = None /\ Proxy \in backup.managed
  /\ pc = "release" => backup = rec.before
  /\ pc = "applied" /\ ~rec.cand.on => backup = None
  /\ InLoop => LoopOwn
  /\ pc \in {"current", "settle"} => UndoOwn
  /\ Undoing /\ mem.i < Len(rec.users) => backup = None \/ Had(rec, backup.user)
  /\ pc = "undo" /\ mem.i = 0 => backup = rec.before \/ (rec.before # None /\ Like(backup, rec.before))

OwnInv ==
  /\ RestInv
  /\ rec # None => Recording(store, rec) /\ Fit(rec, backup) /\ Fit(rec, mem.b) /\ PlaceOwn

\* A process that has no loop in hand and does not know the ownership.
LEMMA NowhereOwn ==
  ASSUME pc \in {"idle", "failed", "reject", "refused", "stopped"}
  PROVE  PlaceOwn
BY DEF PlaceOwn, InLoop, Undoing, InUndo

\* A step that keeps the record.
LEMMA OwnStep ==
  ASSUME OwnInv, rec # None, rec' = rec, store' = store, Fit(rec, backup'), Fit(rec, mem'.b), PlaceOwn'
  PROVE  OwnInv'
BY DEF OwnInv, RestInv

\* The ownership that was recorded, and none.
LEMMA FitBefore ==
  ASSUME OwnInv, rec # None
  PROVE  Fit(rec, rec.before) /\ Fit(rec, None)
BY DEF OwnInv, Recording, Fit, Had

\* Whom a record is about.
LEMMA UsersFacts ==
  ASSUME OwnInv, rec # None, NEW i \in 1..Len(rec.users)
  PROVE  /\ Had(rec, rec.users[i]) \/ Gets(rec, rec.users[i])
         /\ i < Len(rec.users) => Had(rec, rec.users[i]) /\ i = 1
         /\ rec.before # None => Had(rec, rec.users[1])
         /\ ~Had(rec, rec.users[i]) => i = Len(rec.users) /\ Gets(rec, rec.users[i])
         /\ i > 1 => ~Had(rec, rec.users[i])
<1> DEFINE b == rec.before
           u == rec.cand.user
<1>1. Recording(store, rec) /\ (b = None => rec.cand.on)
  BY DEF OwnInv, Recording
<1>2. CASE b = None
  <2>1. rec.users = <<u>>
    BY <1>1, <1>2 DEF Recording
  <2> QED BY <1>1, <1>2, <2>1 DEF Had, Gets
<1>3. CASE b # None /\ rec.cand.on /\ u # b.user
  <2>1. rec.users = <<b.user, u>>
    BY <1>1, <1>3 DEF Recording
  <2>2. i = 1 \/ i = 2
    BY <2>1
  <2> QED BY <1>3, <2>1, <2>2 DEF Had, Gets
<1>4. CASE b # None /\ ~(rec.cand.on /\ u # b.user)
  <2>1. rec.users = <<b.user>>
    BY <1>1, <1>4 DEF Recording
  <2> QED BY <1>4, <2>1 DEF Had, Gets
<1> QED BY <1>2, <1>3, <1>4
\* A plan needs an ownership, or is for one.
LEMMA PlanOn ==
  ASSUME OwnInv, NEW cand \in Settings, Plan(cand)
  PROVE  cand.on \/ backup # None
BY DEF OwnInv, RestInv, Plan

LEMMA InitOwn == ASSUME Init PROVE OwnInv
BY DEF Init, OwnInv, RestInv

LEMMA PlanOwn == ASSUME TypeInv, OwnInv, NEW cand \in Settings, Plan(cand) PROVE OwnInv'
<1>1. /\ rec = None /\ UNCHANGED <<store, backup>>
      /\ backup # None => backup.rb = None /\ ~RestoreStarted(backup)
  BY DEF Plan
<1>2. /\ cand.on \/ backup # None
      /\ backup = None <=> ~store.on
      /\ backup # None => backup.user = store.user /\ store.proxy \in backup.managed
  BY <1>1, PlanOn DEF OwnInv, RestInv
<1>3. /\ rec' # None /\ rec'.cand = cand /\ rec'.before = backup
      /\ rec'.users = CaptureUsers(cand)
      /\ mem'.b = None /\ mem'.loop = None
      /\ IF cand.on THEN pc' = "take" /\ mem'.prior = backup ELSE pc' = "release"
  BY <1>2, PlanFacts
<1>4. rec'.users = IF backup = None THEN <<cand.user>>
                   ELSE IF cand.on /\ cand.user # backup.user THEN <<backup.user, cand.user>>
                   ELSE <<backup.user>>
  BY <1>2, <1>3, CaptureFacts DEF TypeInv, DataInv
<1>5. Recording(store', rec')
  BY <1>1, <1>2, <1>3, <1>4 DEF Recording
<1>6. Fit(rec', backup') /\ Fit(rec', mem'.b)
  BY <1>1, <1>3 DEF Fit, Had
<1>7. PlaceOwn'
  BY <1>1, <1>3 DEF PlaceOwn, InLoop, Undoing, InUndo
<1> QED BY <1>3, <1>5, <1>6, <1>7 DEF OwnInv, RestInv

\* The ownership a take leaves.
LEMMA TakeFit ==
  ASSUME TypeInv, OwnInv, pc = "take"
  PROVE  /\ Fit(rec, backup) /\ Fit(rec, mem.b) /\ rec # None /\ rec.cand.on /\ Owner = rec.cand.user
         /\ backup = rec.before \/ (backup = None /\ ~Had(rec, Owner))
         /\ backup # None => backup.rb = None /\ ~RestoreStarted(backup) /\ Had(rec, backup.user)
         /\ backup = None => Fit(rec, TakeNew) /\ TakeNew # None /\ TakeNew.user = Owner
                             /\ TakeNew.rb = None /\ TakeNew.managed = {Proxy}
         /\ backup # None => Fit(rec, TakeKeep) /\ TakeKeep # None /\ TakeKeep.user = backup.user
                             /\ TakeKeep.rb = None /\ Proxy \in TakeKeep.managed
<1>1. /\ rec # None /\ rec.cand.on /\ Owner \in Users /\ Proxy \in Proxies
      /\ file[Owner] \in [Keys -> Lists] /\ backup \in Backups \cup {None} /\ Sound(backup)
  BY ApplyingFacts DEF Applying
<1>2. /\ Recording(store, rec) /\ Fit(rec, backup) /\ Fit(rec, mem.b)
      /\ backup = rec.before \/ (backup = None /\ ~Had(rec, Owner))
  BY <1>1 DEF OwnInv, PlaceOwn
<1>3. backup # None => /\ backup.rb = None /\ ~RestoreStarted(backup) /\ Had(rec, backup.user)
                       /\ backup = rec.before
  BY <1>2 DEF Recording, Had
<1>4. ASSUME backup = None
      PROVE  Fit(rec, TakeNew) /\ TakeNew # None /\ TakeNew.user = Owner
             /\ TakeNew.rb = None /\ TakeNew.managed = {Proxy}
  <2>1. ~Had(rec, Owner)
    BY <1>2, <1>4 DEF Had
  <2>2. /\ TakeNew # None /\ TakeNew.user = Owner /\ TakeNew.managed = {Proxy}
        /\ TakeNew.rb = None /\ ~RestoreStarted(TakeNew)
    BY <1>1, NewBackup DEF TakeNew
  <2> QED BY <1>1, <2>1, <2>2 DEF Fit, Gets, Owner, Proxy
<1>5. ASSUME backup # None
      PROVE  Fit(rec, TakeKeep) /\ TakeKeep # None /\ TakeKeep.user = backup.user
             /\ TakeKeep.rb = None /\ Proxy \in TakeKeep.managed
  <2>1. /\ TakeKeep # None /\ TakeKeep.user = backup.user /\ TakeKeep.orig = backup.orig
        /\ TakeKeep.plans = backup.plans /\ TakeKeep.rb = backup.rb
        /\ TakeKeep.managed = backup.managed \cup {Proxy}
    BY <1>1, <1>5, MoreManaged DEF TakeKeep
  <2>2. ~RestoreStarted(TakeKeep)
    BY <1>3, <1>5, <2>1 DEF RestoreStarted
  <2> QED BY <1>2, <1>3, <1>5, <2>1, <2>2 DEF Fit, Proxy
<1> QED BY <1>1, <1>2, <1>3, <1>4, <1>5 DEF Owner

LEMMA TakeOwn == ASSUME TypeInv, OwnInv, Take PROVE OwnInv'
<1>1. /\ pc = "take" /\ store' = store /\ rec' = rec
  BY TakeCases
<1>2. /\ Fit(rec, backup) /\ Fit(rec, mem.b) /\ rec # None /\ rec.cand.on /\ Owner = rec.cand.user
      /\ backup = rec.before \/ (backup = None /\ ~Had(rec, Owner))
      /\ backup # None => backup.rb = None /\ ~RestoreStarted(backup) /\ Had(rec, backup.user)
      /\ mem \in Memory /\ mem.errs = "none" /\ mem.loop = None
  BY <1>1, TakeFit, OutsideFacts DEF InLoop
<1>3. CASE Goto("check")
  <2>1. pc' = "check" /\ mem' = mem
    BY <1>3 DEF Goto
  <2>2. /\ backup' # None /\ backup'.user = Owner /\ backup'.rb = None /\ Proxy \in backup'.managed
        /\ Fit(rec, backup')
    BY <1>1, <1>2, <2>1, TakeCases, TakeFit DEF Goto
  <2>3. PlaceOwn'
    BY <1>1, <2>1, <2>2 DEF PlaceOwn, InLoop, Undoing, InUndo, Owner, Proxy
  <2> QED BY <1>1, <1>2, <2>1, <2>2, <2>3, OwnStep
<1>4. CASE Goto("reject")
  <2>1. pc' = "reject" /\ mem' = mem
    BY <1>4 DEF Goto
  <2>2. Fit(rec, backup')
    BY <1>1, <1>2, <2>1, TakeCases, TakeFit
  <2> QED BY <1>1, <1>2, <2>1, <2>2, NowhereOwn, OwnStep DEF PlaceOwn, InLoop, Undoing, InUndo
<1>5. CASE /\ backup # None /\ backup.user # Owner /\ UNCHANGED backup
           /\ pc' = "look" /\ mem' = [mem EXCEPT !.loop = "handover", !.b = backup, !.k = 1]
  <2>1. mem'.loop = "handover" /\ mem'.b = backup /\ mem'.k = 1
    BY <1>2, <1>5 DEF Memory
  <2>2. ~Gets(rec, backup.user)
    BY <1>2, <1>5 DEF Gets
  <2>3. LoopOwn'
    BY <1>1, <1>2, <1>5, <2>1, <2>2 DEF LoopOwn, InUndo, InLoop, Below, B
  <2>4. PlaceOwn'
    BY <1>1, <1>5, <2>1, <2>3 DEF PlaceOwn, InLoop, Undoing, InUndo
  <2> QED BY <1>1, <1>2, <1>5, <2>1, <2>4, OwnStep
<1> QED BY <1>2, <1>3, <1>4, <1>5, TakeCases

LEMMA RejectOwn == ASSUME TypeInv, OwnInv, Reject PROVE OwnInv'
<1>1. /\ pc = "reject" /\ store' = store /\ rec' = rec /\ backup' \in {backup, mem.prior}
      /\ pc' = "failed" /\ mem' = mem
  BY RejectCases DEF Goto
<1>2. rec # None /\ mem.prior = rec.before /\ Fit(rec, backup) /\ Fit(rec, mem.b)
  BY <1>1, ApplyingFacts DEF Applying, OwnInv
<1>3. PlaceOwn'
  BY <1>1 DEF PlaceOwn, InLoop, Undoing, InUndo
<1> QED BY <1>1, <1>2, <1>3, FitBefore, OwnStep

\* From here to the commit the ownership is the owner's.
LEMMA OwnerStep ==
  ASSUME TypeInv, OwnInv, pc \in {"check", "apply", "verify"}, rec' = rec, store' = store, backup' = backup,
         mem'.b = mem.b, pc' \in {"apply", "verify", "rollback", "applied", "reject"}
  PROVE  OwnInv'
<1>1. /\ rec # None /\ rec.cand.on /\ Fit(rec, backup) /\ Fit(rec, mem.b)
      /\ backup # None /\ backup.user = Owner /\ backup.rb = None /\ Proxy \in backup.managed
  BY ApplyingFacts DEF Applying, OwnInv, PlaceOwn
<1>2. PlaceOwn'
  BY <1>1 DEF PlaceOwn, InLoop, Undoing, InUndo, Owner, Proxy
<1> QED BY <1>1, <1>2, OwnStep

LEMMA CheckOwn == ASSUME TypeInv, OwnInv, Check PROVE OwnInv'
<1>1. pc = "check" /\ UNCHANGED <<store, rec, backup>>
  BY CheckCases DEF durable
<1>2. pc' \in {"apply", "reject"} /\ mem'.b = mem.b
  BY <1>1, CheckCases, ApplyingFacts DEF Goto, Applying, Memory
<1> QED BY <1>1, <1>2, OwnerStep

LEMMA ApplyOwn == ASSUME TypeInv, OwnInv, Apply PROVE OwnInv'
<1>1. pc = "apply" /\ UNCHANGED <<store, rec, backup>>
  BY ApplyCases DEF durable
<1>2. NextKey => pc' \in {"apply", "applied"} /\ mem'.b = mem.b
  BY <1>1, NextKeyPlace DEF TypeInv
<1>3. pc' \in {"apply", "verify", "rollback", "applied", "reject"} /\ mem'.b = mem.b
  BY <1>1, <1>2, ApplyCases DEF Goto, Failing
<1> QED BY <1>1, <1>3, OwnerStep

LEMMA VerifyOwn == ASSUME TypeInv, OwnInv, Verify PROVE OwnInv'
<1>1. pc = "verify" /\ UNCHANGED <<store, rec, backup>>
  BY VerifyCases DEF durable
<1>2. NextKey => pc' \in {"apply", "applied"} /\ mem'.b = mem.b
  BY <1>1, NextKeyPlace DEF TypeInv
<1>3. pc' \in {"apply", "verify", "rollback", "applied", "reject"} /\ mem'.b = mem.b
  BY <1>1, <1>2, VerifyCases DEF Goto
<1> QED BY <1>1, <1>3, OwnerStep

LEMMA RollbackOwn == ASSUME TypeInv, OwnInv, Rollback PROVE OwnInv'
<1>1. pc = "rollback" /\ store' = store /\ rec' = rec
  BY RollbackCases
<1>2. /\ rec # None /\ rec.cand.on /\ Fit(rec, backup) /\ Fit(rec, mem.b)
      /\ backup # None /\ backup.user = Owner /\ backup.rb = None /\ Proxy \in backup.managed
      /\ mem \in Memory /\ mem.errs = "none"
  BY <1>1, ApplyingFacts DEF Applying, OwnInv, PlaceOwn
<1>3. /\ RollbackBackup # None /\ RollbackBackup.user = Owner /\ RollbackBackup.orig = backup.orig
      /\ RollbackBackup.plans = backup.plans /\ RollbackBackup.managed = backup.managed
      /\ RollbackBackup.rb # None /\ RollbackBackup.rb.proxy = Proxy
  BY <1>1, <1>2, RollbackFacts
<1>4. ~RestoreStarted(RollbackBackup)
  BY <1>2, <1>3 DEF Fit, RestoreStarted, Gets, Owner
<1>5. Fit(rec, RollbackBackup)
  BY <1>2, <1>3, <1>4 DEF Fit, Proxy, Owner
<1>6. CASE backup' \in {backup, RollbackBackup} /\ Goto("failed")
  BY <1>1, <1>2, <1>5, <1>6, OwnStep DEF Goto, PlaceOwn, InLoop, Undoing, InUndo
<1>7. CASE /\ backup' = RollbackBackup /\ pc' = "look"
           /\ mem' = [mem EXCEPT !.loop = "rollback", !.b = RollbackBackup, !.k = 1]
  <2>1. mem'.loop = "rollback" /\ mem'.b = RollbackBackup /\ mem'.k = 1
    BY <1>2, <1>7 DEF Memory
  <2>2. LoopOwn'
    BY <1>1, <1>2, <1>3, <1>7, <2>1 DEF LoopOwn, InUndo, InLoop, Below, B, Gets, Owner
  <2>3. PlaceOwn'
    BY <1>1, <1>7, <2>1, <2>2 DEF PlaceOwn, InLoop, Undoing, InUndo
  <2> QED BY <1>1, <1>2, <1>5, <1>7, <2>1, <2>3, OwnStep
<1> QED BY <1>6, <1>7, RollbackCases

LEMMA ReleaseOwn == ASSUME TypeInv, OwnInv, Release PROVE OwnInv'
<1>1. pc = "release" /\ UNCHANGED <<store, rec, backup>>
  BY ReleaseCases DEF durable
<1>2. rec # None /\ ~rec.cand.on /\ mem \in Memory /\ mem.errs = "none"
  BY <1>1, OutsideFacts DEF TypeInv, PlaceInv, InLoop
<1>3. /\ Fit(rec, backup) /\ Fit(rec, mem.b) /\ backup = rec.before
      /\ backup # None => backup.rb = None /\ Had(rec, backup.user)
  BY <1>1, <1>2 DEF OwnInv, PlaceOwn, Recording, Had
<1>4. CASE backup = None /\ Goto("applied")
  BY <1>1, <1>2, <1>3, <1>4, OwnStep DEF Goto, PlaceOwn, InLoop, Undoing, InUndo
<1>5. CASE /\ backup # None /\ pc' = "look"
           /\ mem' = [mem EXCEPT !.loop = "release", !.b = backup, !.k = 1]
  <2>1. mem'.loop = "release" /\ mem'.b = backup /\ mem'.k = 1
    BY <1>2, <1>5 DEF Memory
  <2>2. LoopOwn'
    BY <1>1, <1>2, <1>3, <1>5, <2>1 DEF LoopOwn, InUndo, InLoop, Below, B, Gets
  <2>3. PlaceOwn'
    BY <1>1, <1>5, <2>1, <2>2 DEF PlaceOwn, InLoop, Undoing, InUndo
  <2> QED BY <1>1, <1>2, <1>3, <1>5, <2>1, <2>3, OwnStep
<1> QED BY <1>4, <1>5, ReleaseCases

LEMMA CommitOwn == ASSUME TypeInv, OwnInv, Commit PROVE OwnInv'
<1>1. /\ pc = "applied" /\ store' = rec.cand /\ rec' = None /\ backup' = backup
  BY DEF Commit
<1>2. rec # None /\ rec \in Records
  BY <1>1, RecordTypes DEF TypeInv, PlaceInv
<1>3. /\ rec.cand.on => backup # None /\ backup.user = Owner /\ backup.rb = None /\ Proxy \in backup.managed
      /\ ~rec.cand.on => backup = None
  BY <1>1, <1>2 DEF OwnInv, PlaceOwn
<1> QED BY <1>1, <1>2, <1>3 DEF OwnInv, RestInv, Owner, Proxy
\* An ownership with another plan of one key.
LEMMA WithPlanOwn ==
  ASSUME TypeInv, OwnInv, InLoop, NEW p \in RestorePlans
  PROVE  LET w == WithPlan(mem.k, p)
         IN /\ Fit(rec, w) /\ w # None /\ w.user = B.user /\ w.managed = B.managed
            /\ w.rb = None <=> B.rb = None
            /\ PlanIn(w, mem.k) = p
            /\ \A k \in Keys \ {mem.k} : PlanIn(w, k) = PlanIn(B, k)
<1> DEFINE w == WithPlan(mem.k, p)
<1>1. /\ B \in Backups /\ B # None /\ Fit(rec, B) /\ mem.k \in Keys
      /\ B.rb = None => Had(rec, B.user) /\ ~Gets(rec, B.user)
  BY LoopTypes DEF OwnInv, PlaceOwn, LoopOwn, B
<1>2. /\ w # None /\ w.user = B.user /\ w.orig = B.orig /\ w.managed = B.managed
      /\ w.rb = None <=> B.rb = None
      /\ B.rb = None  => w.plans = [B.plans EXCEPT ![mem.k] = p]
      /\ B.rb # None => /\ w.plans = B.plans /\ w.rb.proxy = B.rb.proxy
                        /\ w.rb.plans = [B.rb.plans EXCEPT ![mem.k] = p]
  BY <1>1, WithPlanFacts
<1>3. DOMAIN B.plans = Keys /\ (B.rb # None => DOMAIN B.rb.plans = Keys)
  BY <1>1 DEF Backups, Rollbacks
<1> HIDE DEF w
<1>4. Fit(rec, w)
  BY <1>1, <1>2 DEF Fit, RestoreStarted
<1>5. /\ PlanIn(w, mem.k) = p
      /\ \A k \in Keys \ {mem.k} : PlanIn(w, k) = PlanIn(B, k)
  BY <1>1, <1>2, <1>3 DEF PlanIn
<1> QED BY <1>2, <1>4, <1>5 DEF w

\* A loop goes on with the ownership it has, or one that has another plan.
LEMMA LoopOwnStep ==
  ASSUME TypeInv, OwnInv, InLoop, InLoop', rec' = rec, store' = store, mem'.loop = mem.loop,
         mem'.i = mem.i, mem'.b # None, Fit(rec, mem'.b), mem'.b.user = B.user, mem'.b.rb = None <=> B.rb = None,
         mem'.b.managed = B.managed, backup' \in {backup, mem'.b},
         pc' # "restored" => \A k \in mem'.k..NK : PlanIn(backup', k) = PlanIn(mem'.b, k),
         mem'.errs = "none" => backup' = mem'.b /\ \A k \in Below' : Done(k, PlanIn(mem'.b, k))
  PROVE  OwnInv'
<1>1. rec # None /\ B # None /\ LoopOwn /\ Fit(rec, backup)
  BY LoopTypes DEF OwnInv, PlaceOwn
<1>2. LoopOwn'
  <2>1. /\ B' = mem'.b /\ mem'.b # None /\ Subject' = Subject /\ (InUndo' => InUndo)
    BY <1>1 DEF B, LoopOwn, InUndo, Subject
  <2>2. /\ backup' # None /\ backup'.user = mem'.b.user /\ backup'.managed = mem'.b.managed
        /\ backup'.rb = None <=> mem'.b.rb = None
    BY <1>1 DEF LoopOwn
  <2> QED BY <1>1, <2>1, <2>2 DEF LoopOwn
<1>3. ASSUME Undoing', mem'.i < Len(rec'.users) PROVE backup' = None \/ Had(rec', backup'.user)
  <2>1. InUndo /\ Undoing
    BY <1>3 DEF Undoing, InUndo, InLoop
  <2>2. backup = None \/ Had(rec, backup.user)
    BY <1>1, <1>3, <2>1 DEF OwnInv, PlaceOwn
  <2>3. mem.i \in 1..Len(rec.users) /\ B.user = Subject
    BY <1>1, <2>1 DEF LoopOwn, TypeInv, PlaceInv, InUndo
  <2>4. Had(rec, B.user)
    BY <1>1, <1>3, <2>3, UsersFacts DEF Subject
  <2> QED BY <2>2, <2>4
<1>4. PlaceOwn'
  BY <1>2, <1>3 DEF PlaceOwn, InLoop
<1> QED BY <1>1, <1>4, OwnStep DEF Fit

\* The keys a loop is done with after another one.
LEMMA BelowNext ==
  ASSUME TypeInv, pc \in {"look", "step", "tick"}, NEW e \in Errors, NEW b \in Backups, Sound(b), ToKey(e, b),
         mem'.errs = "none"
  PROVE  Below' \subseteq Below \cup {mem.k}
<1>1. InLoop
  BY DEF InLoop
<1>2. \/ pc' = "restored" /\ mem'.k = mem.k /\ mem.k = NK
      \/ pc' = "look" /\ mem'.k = mem.k + 1 /\ mem.k < NK
  BY <1>1, ToKeyFacts
<1> QED BY <1>1, <1>2, LoopTypes, Constants DEF Below

LEMMA ToKeyOwn ==
  ASSUME TypeInv, OwnInv, pc \in {"look", "step", "tick"}, NEW e \in Errors, ToKey(e, B),
         UNCHANGED <<store, rec, backup>>, e = "none" => Done(mem.k, PlanOf(mem.k))
  PROVE  OwnInv'
<1>1. InLoop
  BY DEF InLoop
<1>2. /\ B \in Backups /\ Sound(B) /\ B # None /\ rec # None /\ Fit(rec, B) /\ LoopOwn
  BY <1>1, LoopTypes DEF OwnInv, PlaceOwn, B
<1>3. /\ mem'.b = B /\ mem'.loop = mem.loop /\ mem'.i = mem.i /\ pc' \in {"look", "restored"}
      /\ mem'.errs = "none" <=> e = "none" /\ mem.errs = "none"
  BY <1>1, <1>2, ToKeyFacts
<1>4. mem'.errs = "none" => Below' \subseteq Below \cup {mem.k}
  BY <1>2, BelowNext
<1>5. mem'.errs = "none" => backup' = mem'.b /\ \A k \in Below' : Done(k, PlanIn(mem'.b, k))
  BY <1>2, <1>3, <1>4 DEF LoopOwn, PlanOf, PlanIn, InRollback
<1>6. mem'.k >= mem.k /\ mem.k \in Nat /\ mem'.k \in Nat
  BY <1>1, <1>2, LoopTypes, ToKeyFacts, Constants
<1>7. \A k \in mem'.k..NK : PlanIn(backup', k) = PlanIn(mem'.b, k)
  BY <1>2, <1>3, <1>6, Constants DEF LoopOwn
<1> QED BY <1>1, <1>2, <1>3, <1>5, <1>7, LoopOwnStep DEF InLoop

LEMMA RecordedOwn ==
  ASSUME TypeInv, OwnInv, pc \in {"look", "step", "tick"}, NEW p \in RestorePlans, Counted(mem.k, p),
         Recorded(p), UNCHANGED <<store, rec>>
  PROVE  OwnInv'
<1> DEFINE w == WithPlan(mem.k, p)
<1>1. InLoop
  BY DEF InLoop
<1>2. /\ w \in Backups /\ Sound(w) /\ w # None /\ Fit(rec, w) /\ w.user = B.user
      /\ w.managed = B.managed
      /\ w.rb = None <=> B.rb = None
      /\ PlanIn(w, mem.k) = p /\ \A k \in Keys \ {mem.k} : PlanIn(w, k) = PlanIn(B, k)
  BY <1>1, LoopTypes, WithPlanSound, WithPlanOwn
<1>3. LoopOwn /\ mem \in Memory /\ mem.k \in Keys
  BY <1>1, LoopTypes DEF OwnInv, PlaceOwn
<1>4. p # None /\ "none" \in Errors /\ "fault" \in Errors
  BY Constants DEF Errors
<1> HIDE DEF w
<1>5. /\ backup' \in {backup, mem'.b} /\ mem'.b = w /\ mem'.loop = mem.loop /\ mem'.i = mem.i
      /\ pc' \in {"look", "restored", "step"}
      /\ mem'.errs = "none" => /\ backup' = w /\ mem.errs = "none"
                               /\ \/ Finished(mem.k, p) /\ ToKey("none", w)
                                  \/ pc' = "step" /\ mem'.k = mem.k
      /\ backup' = w \/ (mem'.k = mem.k + 1 \/ pc' = "restored")
  <2>1. CASE \/ backup' = w /\ Finished(mem.k, p) /\ ToKey("none", w)
             \/ backup' \in {backup, w} /\ ToKey("fault", w)
    BY <1>1, <1>2, <1>4, <2>1, ToKeyFacts
  <2>2. CASE backup' = w /\ pc' = "step" /\ mem' = [mem EXCEPT !.b = w]
    BY <1>3, <2>2 DEF Memory
  <2> QED BY <2>1, <2>2 DEF Recorded, w
<1>6. ASSUME mem'.errs = "none" PROVE \A k \in Below' : Done(k, PlanIn(w, k))
  <2>1. Below = 1..(mem.k - 1) /\ Below \subseteq Keys /\ mem.k \notin Below
    BY <1>3, Constants DEF Below
  <2>2. \A k \in Below : Done(k, PlanIn(w, k))
    BY <1>2, <1>3, <1>5, <1>6, <2>1 DEF LoopOwn
  <2>3. CASE Finished(mem.k, p) /\ ToKey("none", w)
    BY <1>2, <1>4, <1>6, <2>2, <2>3, BelowNext DEF Done
  <2>4. CASE pc' = "step" /\ mem'.k = mem.k
    BY <2>1, <2>2, <2>4 DEF Below
  <2> QED BY <1>5, <1>6, <2>3, <2>4
<1>7. pc' # "restored" => \A k \in mem'.k..NK : PlanIn(backup', k) = PlanIn(w, k)
  <2>1. mem.k \in Nat /\ \A k \in (mem.k + 1)..NK : k \in Keys /\ k # mem.k /\ k \in mem.k..NK
    BY <1>3, Constants
  <2> QED BY <1>2, <1>3, <1>5, <2>1 DEF LoopOwn
<1> QED BY <1>1, <1>2, <1>5, <1>6, <1>7, LoopOwnStep DEF InLoop

\* The next place in the loop, for the same key.
LEMMA SameLoopOwn ==
  ASSUME TypeInv, OwnInv, pc \in {"look", "step", "tick"}, pc' \in {"look", "step", "tick"}, mem' = mem,
         UNCHANGED <<store, rec, backup>>
  PROVE  OwnInv'
<1>1. InLoop
  BY DEF InLoop
<1>2. rec # None /\ LoopOwn /\ Fit(rec, mem.b)
  BY <1>1, LoopTypes DEF OwnInv, PlaceOwn
<1>3. /\ B # None /\ backup' = backup /\ mem'.b = B /\ Below' = Below
      /\ \A k \in mem'.k..NK : PlanIn(backup', k) = PlanIn(mem'.b, k)
      /\ mem'.errs = "none" => backup' = mem'.b /\ \A k \in Below' : Done(k, PlanIn(mem'.b, k))
  BY <1>1, <1>2, LoopTypes DEF LoopOwn, Below, B
<1> QED BY <1>1, <1>2, <1>3, LoopOwnStep DEF InLoop, B

LEMMA LookOwn == ASSUME TypeInv, OwnInv, Look PROVE OwnInv'
<1>1. pc = "look" /\ UNCHANGED <<store, rec>> /\ InLoop
  BY LookCases DEF InLoop
<1>2. CASE PlanOf(mem.k) = None /\ Recorded(NewPlan)
  BY <1>1, <1>2, NewPlanFacts, RecordedOwn
<1>3. CASE /\ PlanOf(mem.k) # None /\ Finished(mem.k, PlanOf(mem.k))
           /\ ToKey("none", B) /\ UNCHANGED backup
  BY <1>1, <1>3, ToKeyOwn DEF Errors, Done
<1>4. CASE Goto("step") /\ UNCHANGED backup
  BY <1>1, <1>4, SameLoopOwn DEF Goto
<1>5. CASE (\E e \in {"parked", "fault"} : ToKey(e, B)) /\ UNCHANGED backup
  BY <1>1, <1>5, ToKeyOwn DEF Errors
<1> QED BY <1>2, <1>3, <1>4, <1>5, LookCases

LEMMA StepOwn == ASSUME TypeInv, OwnInv, Step PROVE OwnInv'
<1>1. pc = "step" /\ UNCHANGED <<store, rec, backup>>
  BY StepCases DEF durable
<1> QED BY <1>1, StepCases, SameLoopOwn, ToKeyOwn DEF Goto, Errors

LEMMA TickOwn == ASSUME TypeInv, OwnInv, Tick PROVE OwnInv'
<1>1. pc = "tick" /\ UNCHANGED <<store, rec>>
  BY TickCases
<1> QED BY <1>1, TickCases, AtStep, RecordedOwn, ToKeyOwn DEF Errors
\* What a loop knows at its end.
LEMMA EndOwn ==
  ASSUME TypeInv, OwnInv, pc = "restored"
  PROVE  /\ InLoop /\ rec # None /\ B \in Backups /\ Sound(B) /\ B # None /\ LoopOwn
         /\ Fit(rec, backup) /\ Fit(rec, B) /\ Fit(rec, None)
         /\ (B.rb # None => Fit(rec, Gone) /\ ~RestoreStarted(Gone))
         /\ Gone # None /\ Gone.user = B.user /\ Gone.rb = None
         /\ (B.rb = None => Fit(rec, Forgot))
         /\ Forgot # None /\ Forgot.user = B.user /\ ~RestoreStarted(Forgot)
<1>1. InLoop
  BY DEF InLoop
<1>2. rec # None /\ B \in Backups /\ Sound(B) /\ B # None /\ LoopOwn /\ Fit(rec, backup) /\ Fit(rec, B)
  BY <1>1, LoopTypes DEF OwnInv, PlaceOwn, B
<1>3. /\ Gone # None /\ Gone.user = B.user
      /\ Gone.orig = B.orig /\ Gone.managed = B.managed /\ Gone.plans = B.plans /\ Gone.rb = None
      /\ Forgot # None /\ Forgot.user = B.user
      /\ Forgot.orig = B.orig /\ Forgot.managed = B.managed /\ Forgot.plans = NoPlans
      /\ Forgot.rb = B.rb
  BY <1>2, GoneFacts
<1>4. B.rb # None => Fit(rec, Gone) /\ ~RestoreStarted(Gone)
  BY <1>2, <1>3 DEF Fit, RestoreStarted
<1>5. (B.rb = None => Fit(rec, Forgot)) /\ ~RestoreStarted(Forgot)
  BY <1>2, <1>3 DEF Fit, RestoreStarted
<1> QED BY <1>1, <1>2, <1>3, <1>4, <1>5, FitBefore

LEMMA RestoredOwn == ASSUME TypeInv, OwnInv, Restored PROVE OwnInv'
<1>1. pc = "restored" /\ store' = store /\ rec' = rec
  BY DEF Restored
<1>2. /\ InLoop /\ rec # None /\ B \in Backups /\ LoopOwn
      /\ Fit(rec, backup) /\ Fit(rec, B) /\ Fit(rec, None)
      /\ mem.loop \in Loops
  BY <1>1, EndOwn, LoopTypes
<1>3. Gone \in Backups /\ Forgot \in Backups
  BY <1>1, EndOwn, GoneFacts
<1>4. ASSUME NEW p \in {"failed", "reject", "refused", "stopped"}, NEW b \in Backups \cup {None},
             Ended(p, b), Fit(rec, b), Fit(rec, backup')
      PROVE  OwnInv'
  BY <1>1, <1>2, <1>4, EndedFacts, OwnStep DEF PlaceOwn, InLoop, Undoing, InUndo
<1>5. CASE mem.errs # "none"
  BY <1>2, <1>4, <1>5, RestoredCases
<1>6. CASE mem.errs = "none" /\ mem.loop \in {"release", "handover"}
  <2>1. \/ /\ backup' = None
           /\ \/ mem.loop = "release" /\ Ended("applied", None)
              \/ mem.loop = "handover" /\ Ended("take", None)
        \/ backup' \in {backup, None} /\ (Ended("failed", B) \/ Ended("reject", B))
    BY <1>2, <1>6, RestoredCases
  <2>2. CASE backup' \in {backup, None} /\ (Ended("failed", B) \/ Ended("reject", B))
    BY <1>2, <1>4, <2>2
  <2>3. CASE backup' = None /\ mem.loop = "release" /\ Ended("applied", None)
    <3>1. ~rec.cand.on
      BY <1>2, <2>3 DEF TypeInv, PlaceInv
    <3> QED BY <1>1, <1>2, <2>3, <3>1, EndedFacts, OwnStep DEF PlaceOwn, InLoop, Undoing, InUndo
  <2>4. CASE backup' = None /\ mem.loop = "handover" /\ Ended("take", None)
    <3>1. rec.cand.on /\ Had(rec, B.user) /\ ~Gets(rec, B.user)
      BY <1>2, <2>4 DEF TypeInv, PlaceInv, LoopOwn
    <3>2. ~Had(rec, Owner)
      BY <3>1 DEF Had, Gets, Owner
    <3> QED BY <1>1, <1>2, <2>4, <3>2, EndedFacts, OwnStep DEF PlaceOwn, InLoop, Undoing, InUndo, Owner
  <2> QED BY <2>1, <2>2, <2>3, <2>4
<1>7. CASE mem.errs = "none" /\ mem.loop = "rollback"
  <2>1. B.rb # None
    BY <1>2, <1>7 DEF LoopOwn
  <2> QED BY <1>1, <1>2, <1>4, <1>7, <2>1, EndOwn, RestoredCases
<1>8. CASE mem.errs = "none" /\ mem.loop \in {"inverse", "restore"}
  <2>1. /\ B.rb # None /\ B.user = Subject /\ backup = B /\ InUndo
        /\ mem.i \in 1..Len(rec.users)
    BY <1>2, <1>8 DEF LoopOwn, InUndo, TypeInv, PlaceInv
  <2>2. Fit(rec, Gone) /\ ~RestoreStarted(Gone) /\ Gone # None /\ Gone.user = B.user /\ Gone.rb = None
    BY <1>1, <2>1, EndOwn
  <2>3. \/ backup' = Gone /\ (Ended("current", Gone) \/ Ended("settle", Gone))
        \/ backup' \in {backup, Gone} /\ Ended("stopped", Gone)
    BY <1>2, <1>8, RestoredCases
  <2>4. CASE backup' \in {backup, Gone} /\ Ended("stopped", Gone)
    BY <1>2, <1>3, <1>4, <2>2, <2>4
  <2>5. CASE backup' = Gone /\ (Ended("current", Gone) \/ Ended("settle", Gone))
    <3>1. pc' \in {"current", "settle"} /\ mem'.b = Gone /\ mem'.i = mem.i /\ mem'.loop = None
      BY <1>2, <1>3, <2>5, EndedFacts
    <3>2. Gone = [Gone EXCEPT !.plans = Gone.plans]
      BY <1>3 DEF Backups
    <3>3. UndoOwn'
      BY <1>1, <2>1, <2>2, <2>5, <3>1, <3>2 DEF UndoOwn, Like, Subject
    <3>4. mem.i < Len(rec.users) => Had(rec, Gone.user)
      BY <1>2, <2>1, <2>2, UsersFacts DEF Subject
    <3>5. PlaceOwn'
      BY <1>1, <2>5, <3>1, <3>3, <3>4 DEF PlaceOwn, InLoop
    <3> QED BY <1>1, <1>2, <2>2, <2>5, <3>1, <3>5, OwnStep
  <2> QED BY <2>3, <2>4, <2>5
<1>9. CASE mem.errs = "none" /\ mem.loop = "finish"
  <2>1. /\ B.rb = None /\ B.user = Subject /\ backup = B
        /\ \A k \in Keys : Done(k, PlanIn(B, k))
        /\ mem.i \in 1..Len(rec.users) /\ Had(rec, B.user)
    BY <1>1, <1>2, <1>9 DEF LoopOwn, InUndo, TypeInv, PlaceInv, Below
  <2>2. Fit(rec, Forgot) /\ ~RestoreStarted(Forgot) /\ Forgot # None /\ Forgot.user = B.user
    BY <1>1, <2>1, EndOwn
  <2>3. UNCHANGED backup /\ Ended("current", Forgot)
    BY <1>2, <1>9, RestoredCases
  <2>4. pc' = "current" /\ mem'.b = Forgot /\ mem'.i = mem.i /\ mem'.loop = None
    BY <1>2, <1>3, <2>3, EndedFacts
  <2>5. Forgot.rb = None /\ B = [Forgot EXCEPT !.plans = B.plans] /\ AllDone(B)
    BY <1>2, <2>1 DEF Forgot, Backups, AllDone, PlanIn
  <2>6. backup' = B /\ mem'.b = Forgot /\ Subject' = Subject /\ Like(B, Forgot)
    <3>1. Subject' = Subject
      BY <1>1, <2>4 DEF Subject
    <3>2. B # None
      BY <1>1, EndOwn
    <3>3. Like(B, Forgot)
      BY <2>5, <3>2 DEF Like
    <3> QED BY <2>1, <2>3, <2>4, <3>1, <3>3
  <2>8. AllDone(backup')
    BY <2>5, <2>6
  <2>9. UndoOwn'
    BY <2>1, <2>2, <2>5, <2>6, <2>8 DEF UndoOwn, AllDone, Done, Finished
  <2>7. PlaceOwn'
    BY <1>1, <2>1, <2>3, <2>4, <2>9 DEF PlaceOwn, InLoop
  <2> QED BY <1>1, <1>2, <2>2, <2>3, <2>4, <2>7, OwnStep
<1> QED BY <1>2, <1>5, <1>6, <1>7, <1>8, <1>9 DEF Loops

LEMMA CompensateOwn == ASSUME TypeInv, OwnInv, Compensate PROVE OwnInv'
<1>1. /\ UNCHANGED <<store, rec, backup>> /\ pc' = "undo" /\ rec # None
      /\ mem' = [Fresh EXCEPT !.i = Len(rec.users)]
  BY DEF Compensate, durable, TypeInv, PlaceInv
<1>2. mem'.b = None /\ mem'.i = Len(rec.users) /\ mem'.loop = None
  BY <1>1 DEF Fresh
<1>3. /\ Fit(rec, backup) /\ Len(rec.users) # 0
  BY <1>1 DEF OwnInv, Recording
<1>4. PlaceOwn'
  BY <1>1, <1>2, <1>3 DEF PlaceOwn, InLoop
<1> QED BY <1>1, <1>2, <1>3, <1>4, FitBefore, OwnStep

\* Where a compensation is, and what it leaves of the users after.
LEMMA AtUser ==
  ASSUME TypeInv, OwnInv, pc \in {"undo", "current", "settle"}, mem.i > 0
  PROVE  /\ rec # None /\ Fit(rec, backup) /\ Fit(rec, mem.b) /\ mem \in Memory
         /\ mem.i \in 1..Len(rec.users) /\ mem.errs = "none" /\ mem.loop = None
         /\ mem.i < Len(rec.users) => backup = None \/ Had(rec, backup.user)
         /\ mem.i < Len(rec.users) => Had(rec, Subject)
         /\ Had(rec, Subject) => mem.i = 1 /\ Original = rec.before
         /\ ~Had(rec, Subject) => mem.i = Len(rec.users) /\ Gets(rec, Subject)
<1>1. rec # None /\ mem \in Memory /\ mem.i \in 1..Len(rec.users) /\ mem.errs = "none" /\ mem.loop = None
  BY SubjectFacts
<1>2. /\ Fit(rec, backup) /\ Fit(rec, mem.b)
      /\ mem.i < Len(rec.users) => backup = None \/ Had(rec, backup.user)
  BY <1>1 DEF OwnInv, PlaceOwn, Undoing
<1>3. /\ mem.i < Len(rec.users) => Had(rec, Subject)
      /\ Had(rec, Subject) => mem.i = 1
      /\ ~Had(rec, Subject) => mem.i = Len(rec.users) /\ Gets(rec, Subject)
  BY <1>1, UsersFacts DEF Subject
<1>4. Had(rec, Subject) => Original = rec.before
  BY DEF Had, Original
<1> QED BY <1>1, <1>2, <1>3, <1>4

LEMMA UndoOwnStep == ASSUME TypeInv, OwnInv, Undo PROVE OwnInv'
<1>1. pc = "undo" /\ mem.i > 0 /\ UNCHANGED <<store, rec, backup>>
  BY UndoCases DEF durable
<1>2. /\ rec # None /\ Fit(rec, backup) /\ Fit(rec, mem.b) /\ mem \in Memory
      /\ mem.i \in 1..Len(rec.users) /\ mem.errs = "none" /\ mem.loop = None
      /\ mem.i < Len(rec.users) => backup = None \/ Had(rec, backup.user)
      /\ Fit(rec, None) /\ Sound(backup)
  BY <1>1, AtUser, FitBefore, SubjectFacts
<1>3. CASE Goto("refused")
  BY <1>1, <1>2, <1>3, OwnStep DEF Goto, PlaceOwn, InLoop, Undoing, InUndo
<1>4. ASSUME pc' = "current", NEW o \in BOOLEAN, mem' = [mem EXCEPT !.b = None, !.other = o],
             backup = None \/ (backup.user # Subject /\ o)
      PROVE  OwnInv'
  <2>1. /\ mem'.b = None /\ mem'.i = mem.i /\ mem'.loop = None
        /\ backup = None \/ (backup.user # Subject /\ mem'.other)
    BY <1>2, <1>4 DEF Memory
  <2>2. PlaceOwn'
    BY <1>1, <1>2, <1>4, <2>1 DEF PlaceOwn, InLoop, UndoOwn, Subject, Undoing, InUndo
  <2> QED BY <1>1, <1>2, <2>1, <2>2, OwnStep
<1>5. CASE /\ backup # None /\ backup.user = Subject /\ backup.rb = None /\ ~RestoreStarted(backup)
           /\ pc' = "current" /\ mem' = [mem EXCEPT !.b = backup, !.other = FALSE]
  <2>1. mem'.b = backup /\ mem'.i = mem.i /\ mem'.loop = None
    BY <1>2, <1>5 DEF Memory
  <2>2. backup = [backup EXCEPT !.plans = backup.plans]
    BY <1>2, <1>5 DEF Sound, Backups
  <2>3. PlaceOwn'
    BY <1>1, <1>2, <1>5, <2>1, <2>2 DEF PlaceOwn, InLoop, UndoOwn, Subject, Undoing, InUndo, Like
  <2> QED BY <1>1, <1>2, <2>1, <2>3, OwnStep
<1>6. CASE /\ backup # None /\ backup.user = Subject /\ pc' = "look"
           /\ \/ backup.rb # None /\ mem' = [mem EXCEPT !.b = backup, !.loop = "inverse", !.k = 1]
              \/ /\ backup.rb = None /\ RestoreStarted(backup)
                 /\ mem' = [mem EXCEPT !.b = backup, !.loop = "finish", !.k = 1]
  <2>1. /\ mem'.b = backup /\ mem'.i = mem.i /\ mem'.k = 1 /\ mem'.errs = "none"
        /\ mem'.loop = IF backup.rb # None THEN "inverse" ELSE "finish"
    BY <1>2, <1>6 DEF Memory
  <2>2. backup.rb = None => Had(rec, backup.user) /\ ~Gets(rec, backup.user)
    BY <1>2, <1>6 DEF Fit
  <2>3. LoopOwn'
    BY <1>1, <1>2, <1>6, <2>1, <2>2 DEF LoopOwn, InUndo, InLoop, Below, B, Subject
  <2>4. PlaceOwn'
    BY <1>1, <1>2, <1>6, <2>1, <2>3 DEF PlaceOwn, InLoop, Undoing, InUndo
  <2> QED BY <1>1, <1>2, <1>6, <2>1, <2>4, OwnStep
<1> QED BY <1>3, <1>4, <1>5, <1>6, UndoCases

LEMMA CurrentOwn == ASSUME TypeInv, OwnInv, Current PROVE OwnInv'
<1>1. pc = "current" /\ store' = store /\ rec' = rec
  BY CurrentCases
<1>2. mem.i > 0 /\ UndoOwn /\ rec # None
  BY <1>1 DEF TypeInv, PlaceInv, OwnInv, PlaceOwn
<1>3. /\ Fit(rec, backup) /\ Fit(rec, mem.b) /\ mem \in Memory
      /\ mem.i \in 1..Len(rec.users) /\ mem.errs = "none" /\ mem.loop = None
      /\ mem.i < Len(rec.users) => backup = None \/ Had(rec, backup.user)
      /\ mem.i < Len(rec.users) => Had(rec, Subject)
      /\ Had(rec, Subject) => Original = rec.before
      /\ ~Had(rec, Subject) => Gets(rec, Subject)
  BY <1>1, <1>2, AtUser
<1>4. CASE (Goto("stopped") \/ Goto("refused")) /\ UNCHANGED backup
  BY <1>1, <1>2, <1>3, <1>4, OwnStep DEF Goto, PlaceOwn, InLoop, Undoing, InUndo
<1>5. CASE Goto("settle") /\ UNCHANGED backup
  <2>1. pc' = "settle" /\ mem' = mem
    BY <1>5 DEF Goto
  <2>2. UndoOwn'
    BY <1>1, <1>2, <1>5, <2>1 DEF UndoOwn, Subject, Like, AllDone, Done, Finished
  <2>3. PlaceOwn'
    BY <1>1, <1>3, <1>5, <2>1, <2>2 DEF PlaceOwn, InLoop
  <2> QED BY <1>1, <1>2, <1>3, <1>5, <2>1, <2>3, OwnStep
<1>6. CASE \/ /\ backup' = UndoBackup /\ pc' = "look"
              /\ mem' = [mem EXCEPT !.b = UndoBackup, !.loop = "restore", !.k = 1]
           \/ backup' \in {backup, UndoBackup} /\ Goto("stopped")
  <2>1. /\ UndoBackup # None /\ UndoBackup.user = Basis.user /\ UndoBackup.orig = Basis.orig
        /\ UndoBackup.plans = Basis.plans /\ UndoBackup.managed = Basis.managed \cup {Proxy}
        /\ UndoBackup.rb # None /\ UndoBackup.rb.proxy = Proxy
    BY <1>1, UndoBackupFacts
  <2>2. /\ Original # None /\ Original.user = Subject /\ Subject \in Users /\ Values \in [Keys -> Lists]
    BY <1>1, <1>2, SubjectFacts
  <2>3. /\ Basis.user = Subject /\ ~RestoreStarted(Basis)
        /\ Had(rec, Subject) => /\ Basis.orig = rec.before.orig
                                /\ rec.before.managed \subseteq Basis.managed
                                /\ Basis.managed \subseteq rec.before.managed \cup {Proxy}
        /\ ~Had(rec, Subject) => Basis.managed \subseteq {Proxy}
    <3>1. CASE mem.b # None
      BY <1>2, <1>3, <3>1 DEF Basis, UndoOwn, Fit, Proxy
    <3>2. CASE mem.b = None /\ Had(rec, Subject)
      BY <1>2, <1>3, <2>2, <3>2 DEF Basis, OwnInv, Recording
    <3>3. CASE mem.b = None /\ ~Had(rec, Subject)
      <4>1. Basis = Backup(Subject, Values, {})
        BY <3>3 DEF Basis, Original, Had
      <4> QED BY <2>2, <3>3, <4>1, NewBackup
    <3> QED BY <3>1, <3>2, <3>3
  <2>4. ~RestoreStarted(UndoBackup)
    BY <2>1, <2>3 DEF RestoreStarted
  <2>5. Fit(rec, UndoBackup)
    BY <1>3, <2>1, <2>3, <2>4 DEF Fit, Proxy
  <2>6. CASE backup' \in {backup, UndoBackup} /\ Goto("stopped")
    BY <1>1, <1>2, <1>3, <2>5, <2>6, OwnStep DEF Goto, PlaceOwn, InLoop, Undoing, InUndo
  <2>7. CASE /\ backup' = UndoBackup /\ pc' = "look"
             /\ mem' = [mem EXCEPT !.b = UndoBackup, !.loop = "restore", !.k = 1]
    <3>1. /\ mem'.b = UndoBackup /\ mem'.i = mem.i /\ mem'.k = 1 /\ mem'.loop = "restore"
      BY <1>3, <2>7 DEF Memory
    <3>2. LoopOwn'
      BY <1>1, <1>2, <1>3, <2>1, <2>3, <2>7, <3>1 DEF LoopOwn, InUndo, InLoop, Below, B, Subject
    <3>3. PlaceOwn'
      BY <1>1, <1>3, <2>1, <2>3, <2>7, <3>1, <3>2 DEF PlaceOwn, InLoop, Undoing, InUndo
    <3> QED BY <1>1, <1>2, <2>5, <2>7, <3>1, <3>3, OwnStep
  <2> QED BY <1>6, <2>6, <2>7
<1> QED BY <1>4, <1>5, <1>6, CurrentCases

LEMMA SettleOwn == ASSUME TypeInv, OwnInv, Settle PROVE OwnInv'
<1>1. pc = "settle" /\ store' = store /\ rec' = rec
  BY SettleCases
<1>2. mem.i > 0 /\ UndoOwn /\ rec # None /\ Recording(store, rec)
  BY <1>1 DEF TypeInv, PlaceInv, OwnInv, PlaceOwn
<1>3. /\ Fit(rec, backup) /\ Fit(rec, mem.b) /\ mem \in Memory
      /\ mem.i \in 1..Len(rec.users)
      /\ Had(rec, Subject) => mem.i = 1
      /\ ~Had(rec, Subject) => mem.i = Len(rec.users) /\ Gets(rec, Subject)
      /\ Fit(rec, rec.before) /\ Fit(rec, None)
  BY <1>1, <1>2, AtUser, FitBefore
<1>4. CASE Goto("stopped") /\ backup' \in {backup, rec.before, None}
  BY <1>1, <1>2, <1>3, <1>4, OwnStep DEF Goto, PlaceOwn, InLoop, Undoing, InUndo
<1>5. CASE Down
  <2>1. pc' = "undo" /\ mem'.b = None /\ mem'.loop = None /\ mem'.i = mem.i - 1
    BY <1>2, <1>3, <1>5, DownFacts DEF Down
  <2>2. CASE Had(rec, Subject)
    <3>1. \/ backup' = rec.before
          \/ mem.b = rec.before /\ backup' = backup
      BY <2>1, <2>2, SettleCases DEF Goto
    <3>2. rec.before # None
      BY <2>2 DEF Had
    <3>3. backup' = rec.before \/ Like(backup', rec.before)
      BY <1>2, <3>1, <3>2 DEF UndoOwn
    <3>4. Fit(rec, backup') /\ (backup' # None => Had(rec, backup'.user))
      <4>1. CASE backup' = rec.before
        BY <1>3, <2>2, <4>1 DEF Had
      <4>2. CASE mem.b = rec.before /\ backup' = backup
        <5>1. mem.b.user = Subject /\ Like(backup, mem.b) /\ mem.b \in Backups
          BY <1>1, <1>2, <3>2, <4>2, SubjectFacts DEF UndoOwn, Sound
        <5>2. backup.user = Subject
          BY <5>1 DEF Like, Backups
        <5> QED BY <1>3, <2>2, <4>2, <5>2
      <4> QED BY <3>1, <4>1, <4>2
    <3>5. PlaceOwn'
      BY <1>1, <2>1, <3>2, <3>3, <3>4 DEF PlaceOwn, InLoop, Undoing, InUndo, Like
    <3> QED BY <1>1, <1>2, <1>3, <2>1, <3>4, <3>5, OwnStep
  <2>3. CASE ~Had(rec, Subject)
    <3>1. \/ backup' = None
          \/ mem.b = None /\ backup' = backup
      BY <2>1, <2>3, SettleCases DEF Goto
    <3>2. backup' = None \/ (backup' # None /\ Had(rec, backup'.user) /\ backup' = backup)
      BY <1>2, <1>3, <2>3, <3>1 DEF UndoOwn, Fit, Gets
    <3>3. rec.before = None => mem.i = 1 /\ mem.i = Len(rec.users)
      BY <1>2, <1>3, <2>3 DEF Recording
    <3>4. rec.before # None => mem.i # 1
      BY <1>2, <1>3, <2>3, UsersFacts DEF Subject
    <3>5. PlaceOwn'
      BY <1>1, <1>3, <2>1, <3>2, <3>3, <3>4 DEF PlaceOwn, InLoop, Undoing, InUndo, Had
    <3> QED BY <1>1, <1>2, <1>3, <2>1, <3>2, <3>5, OwnStep
  <2> QED BY <2>2, <2>3
<1> QED BY <1>4, <1>5, SettleCases

LEMMA UndoneOwn == ASSUME TypeInv, OwnInv, Undone PROVE OwnInv'
<1>1. /\ pc = "undo" /\ mem.i = 0 /\ rec' = None /\ UNCHANGED <<store, backup>>
  BY DEF Undone
<1>2. rec # None /\ Sound(rec.before)
  BY <1>1, RecordTypes DEF TypeInv, PlaceInv
<1>3. /\ Recording(store, rec)
      /\ backup = rec.before \/ (rec.before # None /\ Like(backup, rec.before))
  BY <1>1, <1>2 DEF OwnInv, PlaceOwn
<1>4. backup # None => rec.before # None /\ backup.user = rec.before.user
                       /\ backup.managed = rec.before.managed /\ backup.rb = rec.before.rb
  BY <1>2, <1>3 DEF Like, Sound, Backups
<1>5. backup = None <=> rec.before = None
  BY <1>3 DEF Like
<1> QED BY <1>1, <1>3, <1>4, <1>5 DEF OwnInv, RestInv, Recording

\* The process is gone: what it knew does not count.
LEMMA ExitOwn ==
  ASSUME TypeInv, OwnInv, Exit, UNCHANGED durable
  PROVE  OwnInv'
<1>1. mem'.b = None /\ pc' = "idle" /\ UNCHANGED <<store, rec, backup>>
  BY DEF Exit, Fresh, durable
<1>2. PlaceOwn'
  BY <1>1 DEF PlaceOwn, InLoop, Undoing, InUndo
<1> QED BY <1>1, <1>2, OwnStep, FitBefore DEF OwnInv, RestInv

\* Steps that change none of this.
LEMMA SameOwn ==
  ASSUME OwnInv, UNCHANGED <<store, rec, backup, pc, mem>>
  PROVE  OwnInv'
<1>1. RestInv'
  BY DEF OwnInv, RestInv
<1>2. PlaceOwn = PlaceOwn'
  BY DEF PlaceOwn, LoopOwn, UndoOwn, InLoop, InUndo, Undoing, Below, Done, PlanIn, B, Subject,
         Owner, Proxy, Like, AllDone, Finished
<1> QED BY <1>1, <1>2 DEF OwnInv
BaseInv == TypeInv /\ OwnInv

LEMMA BaseInit == Init => BaseInv
BY InitTypes, InitOwn DEF BaseInv

LEMMA BaseStep == BaseInv /\ [Next]_vars => BaseInv'
<1> SUFFICES ASSUME BaseInv, [Next]_vars PROVE BaseInv'
  OBVIOUS
<1> USE DEF BaseInv
<1>1. CASE \E cand \in Settings : Plan(cand)
  BY <1>1, PlanOn, PlanTypes, PlanOwn
<1>2. CASE Take \/ Reject \/ Check \/ Apply \/ Verify
  BY <1>2, TakeTypes, TakeOwn, RejectTypes, RejectOwn, CheckTypes, CheckOwn, ApplyTypes, ApplyOwn,
     VerifyTypes, VerifyOwn
<1>3. CASE Rollback \/ Release \/ Commit
  BY <1>3, RollbackTypes, RollbackOwn, ReleaseTypes, ReleaseOwn, CommitTypes, CommitOwn
<1>4. CASE Look \/ Step \/ Tick \/ Restored
  BY <1>4, LookTypes, LookOwn, StepTypes, StepOwn, TickTypes, TickOwn, RestoredTypes, RestoredOwn
<1>5. CASE Compensate \/ Undo \/ Current \/ Settle \/ Undone
  BY <1>5, CompensateTypes, CompensateOwn, UndoTypes, UndoOwnStep, CurrentTypes, CurrentOwn,
     SettleTypes, SettleOwn, UndoneTypes, UndoneOwn
<1>6. CASE GiveUp \/ Kill \/ KillInside
  BY <1>6, GiveUpTypes, KillTypes, KillInsideTypes, ExitOwn DEF GiveUp, Kill, KillInside
<1>7. CASE \E u \in Users, k \in Keys : \E v \in Edits(u, k) : Edit(u, k, v)
  BY <1>7, EditTypes, SameOwn DEF Edit, durable
<1>8. CASE UNCHANGED vars
  <2>1. UNCHANGED <<durable, file, parked, user, left, store, rec, backup, pc, mem>>
    BY <1>8 DEF vars, durable
  <2>2. DataInv'
    BY <2>1, SameData, FreeSpends DEF Free, TypeInv
  <2>3. PlaceInv'
    BY <2>1 DEF TypeInv, PlaceInv, InLoop, Applying, Counted, Finished, PlanOf, InRollback, B, Sound
  <2> QED BY <2>1, <2>2, <2>3, SameOwn DEF TypeInv
<1> QED BY <1>1, <1>2, <1>3, <1>4, <1>5, <1>6, <1>7, <1>8 DEF Next

\* Every variable has its type, and a rollback in the ownership is never
\* beside a restoration.
THEOREM TypeCorrect == Spec => []TypeOK
<1>1. BaseInv => TypeOK
  <2> SUFFICES ASSUME BaseInv PROVE TypeOK
    OBVIOUS
  <2>1. backup # None /\ backup.rb # None => ~RestoreStarted(backup) /\ backup.rb.proxy \in backup.managed
    BY DEF BaseInv, OwnInv, RestInv, Fit
  <2> QED BY <2>1 DEF BaseInv, TypeInv, DataInv, Sound, TypeOK
<1> QED BY <1>1, BaseInit, BaseStep, PTL DEF Spec
-----------------------------------------------------------------------------
(* Where addresses of the manager can be                                   *)

Prox(v) == Range(v) \cap Proxies

LEMMA ProxValues ==
  /\ Prox(<<>>) = {} /\ Prox(<<own>>) = {} /\ Prox(<<added>>) = {}
  /\ \A p \in Proxies : Prox(<<p>>) = {p}
  /\ \A v \in Lists : Prox(Append(v, added)) = Prox(v)
  /\ \A v \in Lists, i \in Nat : i <= Len(v) => Prox(SubSeq(v, 1, i)) \subseteq Prox(v)
<1>1. Range(<<>>) = {}
  BY DEF Range
<1>2. ASSUME NEW x PROVE Range(<<x>>) = {x}
  BY DEF Range
<1>3. ASSUME NEW v \in Lists PROVE Prox(Append(v, added)) = Prox(v)
  BY RangeOfAppend, Constants DEF Lists, Prox
<1>4. ASSUME NEW v \in Lists, NEW i \in Nat, i <= Len(v) PROVE Prox(SubSeq(v, 1, i)) \subseteq Prox(v)
  <2> DEFINE w == SubSeq(v, 1, i)
  <2>1. v \in Seq(Proxies \cup {own, added})
    BY DEF Lists
  <2>2. Len(w) = i /\ DOMAIN w = 1..i /\ \A j \in 1..i : w[j] = v[j] /\ j \in DOMAIN v
    BY <1>4, <2>1
  <2> QED BY <2>2 DEF Prox, Range
<1> QED BY <1>1, <1>2, <1>3, <1>4, Constants DEF Prox

LEMMA ProxConcat ==
  ASSUME NEW v \in Lists, NEW w \in Lists
  PROVE  Prox(v \o w) = Prox(v) \cup Prox(w)
<1> DEFINE S == Proxies \cup {own, added}
           c == v \o w
<1>1. v \in Seq(S) /\ w \in Seq(S)
  BY DEF Lists
<1>2. /\ c \in Seq(S) /\ Len(c) = Len(v) + Len(w)
      /\ \A i \in 1..Len(v) : c[i] = v[i]
      /\ \A i \in 1..Len(w) : c[Len(v) + i] = w[i]
  BY <1>1
<1> HIDE DEF c
<1>3. Range(c) \subseteq Range(v) \cup Range(w)
  <2> SUFFICES ASSUME NEW i \in 1..Len(c) PROVE c[i] \in Range(v) \cup Range(w)
    BY <1>2 DEF Range
  <2>1. CASE i <= Len(v)
    BY <1>1, <1>2, <2>1 DEF Range
  <2>2. CASE i > Len(v)
    <3>1. i - Len(v) \in 1..Len(w) /\ c[i] = w[i - Len(v)]
      BY <1>1, <1>2, <2>2
    <3> QED BY <1>1, <3>1 DEF Range
  <2> QED BY <1>1, <2>1, <2>2
<1>4. Range(v) \subseteq Range(c) /\ Range(w) \subseteq Range(c)
  <2>1. ASSUME NEW i \in 1..Len(v) PROVE v[i] \in Range(c)
    BY <1>1, <1>2, <2>1 DEF Range
  <2>2. ASSUME NEW i \in 1..Len(w) PROVE w[i] \in Range(c)
    <3>1. Len(v) + i \in 1..Len(c) /\ w[i] = c[Len(v) + i]
      BY <1>1, <1>2
    <3> QED BY <1>2, <3>1 DEF Range
  <2> QED BY <1>1, <2>1, <2>2 DEF Range
<1> QED BY <1>3, <1>4 DEF Prox, c

LEMMA Contained ==
  ASSUME NEW v \in Lists, NEW m \in SUBSET Proxies
  PROVE  ContainsManaged(v, m) <=> Prox(v) \cap m # {}
<1>1. DOMAIN v = 1..Len(v)
  BY DEF Lists
<1> QED BY <1>1 DEF ContainsManaged, Prox, Range

\* What a release puts there.
LEMMA DesiredProx ==
  ASSUME NEW k \in Keys, NEW o \in Lists, NEW v \in Lists, NEW m \in SUBSET Proxies
  PROVE  Prox(Desired(k, o, v, m)) \subseteq Prox(o) \cup (Prox(v) \ m)
<1>1. Unmanaged(v, m) \in Lists
  BY UnmanagedType DEF Lists
<1>2. Prox(Unmanaged(v, m)) = Prox(v) \ m
  BY UnmanagedRange DEF Lists, Prox
<1> QED BY <1>1, <1>2, ProxConcat DEF Desired, DesiredGit

\* A step of a plan puts nothing there that is not desired; the last one puts
\* it there.
LEMMA AfterFacts ==
  ASSUME NEW k \in Keys, NEW p \in RestorePlans, Counted(k, p), ~Finished(k, p)
  PROVE  /\ Prox(PlanAfter(k, p)) \subseteq Prox(p.desired)
         /\ Finished(k, [p EXCEPT !.next = @ + 1]) => PlanAfter(k, p) = p.desired
         /\ [p EXCEPT !.next = @ + 1].desired = p.desired
<1>1. p.desired \in Lists /\ p.desired \in Seq(Proxies \cup {own, added}) /\ p.next \in Nat /\ p # None
  BY Constants DEF RestorePlans, Lists
<1>2. [p EXCEPT !.next = @ + 1].desired = p.desired /\ [p EXCEPT !.next = @ + 1].next = p.next + 1
  BY DEF RestorePlans
<1>3. CASE k \in Git
  <2>1. p.next <= Len(p.desired)
    BY <1>1, <1>3 DEF Counted, Finished
  <2>2. Finished(k, [p EXCEPT !.next = @ + 1]) => p.next = Len(p.desired)
    BY <1>1, <1>2, <1>3 DEF Finished
  <2>3. SubSeq(p.desired, 1, Len(p.desired)) = p.desired
    BY <1>1
  <2> QED BY <1>1, <1>2, <1>3, <2>1, <2>2, <2>3, ProxValues DEF PlanAfter
<1>4. CASE k \notin Git
  BY <1>2, <1>4 DEF PlanAfter
<1> QED BY <1>3, <1>4

HeldBy(b, u) == IF b # None /\ b.user = u THEN b.managed ELSE {}

\* Only addresses that the ownership names, and only with its user.
Within(f, b) == \A u \in Users, k \in Keys : Prox(f[u][k]) \subseteq HeldBy(b, u)

\* No address is among the originals or in what a release makes of a key.
OrigClean(b) == b # None => \A k \in Keys : Prox(b.orig[k]) = {}
PlansClean(f, b) == b # None => \A k \in Keys : b.plans[k] # None =>
  /\ Prox(b.plans[k].desired) = {}
  /\ Finished(k, b.plans[k]) => Prox(f[b.user][k]) = {}
\* A rollback brings none back that is not named.
BackClean(b) == b # None /\ b.rb # None => \A k \in Keys :
  /\ Prox(b.rb.vals[k]) \subseteq b.managed
  /\ b.rb.plans[k] # None => Prox(b.rb.plans[k].desired) \subseteq b.managed
Clean(f, b) == OrigClean(b) /\ PlansClean(f, b) /\ BackClean(b)

InLoopOf(loops) == InLoop /\ mem.loop \in loops

ProxyPlace ==
  /\ pc \in {"take", "check", "reject"} \/ InLoopOf({"handover"}) \/ (pc = "apply" /\ mem.k = 1) =>
       Within(file, rec.before)
  /\ pc \in {"apply", "verify", "rollback"} => \A k \in Keys : Prox(mem.snap[k]) \subseteq backup.managed
  /\ pc = "settle" => \A k \in Keys : Prox(file[Subject][k]) \subseteq Prox(Values[k])
  /\ InLoopOf({"restore"}) => \A k \in Keys :
       /\ PlanIn(B, k) # None /\ PlanIn(B, k).desired = Values[k]
       /\ Finished(k, PlanIn(B, k)) => Prox(file[B.user][k]) \subseteq Prox(Values[k])

ProxyInv ==
  /\ Within(file, backup) /\ OrigClean(backup)
  /\ rec # None => /\ Within(rec.vals, rec.before) /\ OrigClean(rec.before)
                   /\ Clean(file, backup) /\ Clean(file, mem.b) /\ ProxyPlace

\* A step that keeps the record.
LEMMA ProxyStep ==
  ASSUME ProxyInv, rec # None, rec' = rec, Within(file', backup'), Clean(file', backup'),
         Clean(file', mem'.b), ProxyPlace'
  PROVE  ProxyInv'
BY DEF ProxyInv, Clean

LEMMA NowhereProxy ==
  ASSUME pc \in {"idle", "failed", "refused", "stopped", "applied", "undo", "current", "release"}
  PROVE  ProxyPlace
BY DEF ProxyPlace, InLoopOf, InLoop

\* No address more.
LEMMA Fewer ==
  ASSUME NEW f, NEW g, NEW b \in Backups \cup {None},
         \A u \in Users, k \in Keys : Prox(g[u][k]) \subseteq Prox(f[u][k])
  PROVE  (Within(f, b) => Within(g, b)) /\ (Clean(f, b) => Clean(g, b))
<1>1. Within(f, b) => Within(g, b)
  BY DEF Within
<1>2. b # None => b.user \in Users
  BY DEF Backups
<1>3. PlansClean(f, b) => PlansClean(g, b)
  BY <1>2 DEF PlansClean
<1> QED BY <1>1, <1>3 DEF Clean

\* The plan of the key is not at its end.
OpenFor(b, u, k) == b # None /\ b.user = u /\ b.plans[k] # None => ~Finished(k, b.plans[k])

\* One key is written.
LEMMA WrittenWithin ==
  ASSUME NEW f, NEW b \in Backups \cup {None}, NEW u \in Users, NEW k \in Keys, NEW g,
         \A w \in Users, j \in Keys : w # u \/ j # k => g[w][j] = f[w][j],
         Within(f, b), Prox(g[u][k]) \subseteq HeldBy(b, u)
  PROVE  Within(g, b)
BY DEF Within

LEMMA WrittenClean ==
  ASSUME NEW f, NEW b \in Backups \cup {None}, NEW u \in Users, NEW k \in Keys, NEW g,
         \A w \in Users, j \in Keys : w # u \/ j # k => g[w][j] = f[w][j],
         Clean(f, b), OpenFor(b, u, k)
  PROVE  Clean(g, b)
<1>1. b # None => b.user \in Users
  BY DEF Backups
<1>2. PlansClean(g, b)
  BY <1>1 DEF Clean, PlansClean, OpenFor
<1> QED BY <1>2 DEF Clean
\* An ownership in which nothing is under way.
LEMMA CleanFresh ==
  ASSUME NEW f, NEW b \in Backups \cup {None}, OrigClean(b), b # None => b.rb = None /\ ~RestoreStarted(b)
  PROVE  Clean(f, b)
BY NoPlansFacts DEF Clean, PlansClean, BackClean, RestoreStarted

\* The ownership of before.
LEMMA CleanBefore ==
  ASSUME BaseInv, ProxyInv, rec # None
  PROVE  /\ rec.before \in Backups \cup {None} /\ OrigClean(rec.before)
         /\ \A f : Clean(f, rec.before) /\ Clean(f, None)
<1>1. rec.before \in Backups \cup {None}
  BY RecordTypes DEF BaseInv, TypeInv
<1>2. /\ OrigClean(rec.before) /\ OrigClean(None)
      /\ rec.before # None => rec.before.rb = None /\ ~RestoreStarted(rec.before)
  BY DEF ProxyInv, BaseInv, OwnInv, Recording, OrigClean
<1> QED BY <1>1, <1>2, CleanFresh

LEMMA InitProxy == Init => ProxyInv
<1> SUFFICES ASSUME Init PROVE ProxyInv
  OBVIOUS
<1>1. rec = None /\ backup = None /\ file \in [Users -> Starts]
  BY DEF Init
<1>2. \A u \in Users, k \in Keys : file[u][k] \in {<<>>, <<own>>}
  BY <1>1, DevAssumption
<1>3. \A u \in Users, k \in Keys : Prox(file[u][k]) = {}
  BY <1>2, ProxValues
<1> QED BY <1>1, <1>3 DEF ProxyInv, Within, OrigClean

LEMMA PlanProxy == ASSUME BaseInv, ProxyInv, NEW cand \in Settings, Plan(cand) PROVE ProxyInv'
<1>1. /\ rec = None /\ UNCHANGED <<backup, file>>
      /\ backup # None => backup.rb = None /\ ~RestoreStarted(backup)
      /\ backup \in Backups \cup {None}
  BY DEF Plan, BaseInv, TypeInv, DataInv, Sound
<1>2. /\ rec'.before = backup /\ rec'.vals = file /\ mem'.b = None
      /\ pc' \in {"take", "release"}
  BY PlanOn, PlanFacts DEF BaseInv
<1>3. Within(file, backup) /\ OrigClean(backup) /\ OrigClean(None)
  BY DEF ProxyInv, OrigClean
<1>4. Clean(file, backup) /\ Clean(file, None)
  BY <1>1, <1>3, CleanFresh
<1>5. ProxyPlace'
  BY <1>1, <1>2, <1>3 DEF ProxyPlace, InLoopOf, InLoop
<1> QED BY <1>1, <1>2, <1>3, <1>4, <1>5 DEF ProxyInv

\* What is known while there is a record.
LEMMA ProxyFacts ==
  ASSUME BaseInv, ProxyInv, rec # None
  PROVE  /\ Within(file, backup) /\ Within(rec.vals, rec.before) /\ OrigClean(rec.before)
         /\ Clean(file, backup) /\ Clean(file, mem.b) /\ ProxyPlace
         /\ backup \in Backups \cup {None} /\ mem.b \in Backups \cup {None}
         /\ file \in [Users -> [Keys -> Lists]]
BY DEF ProxyInv, BaseInv, TypeInv, DataInv, PlaceInv, Sound

LEMMA TakeProxy == ASSUME BaseInv, ProxyInv, Take PROVE ProxyInv'
<1>1. /\ pc = "take" /\ rec # None /\ rec' = rec /\ file' = file
      /\ Owner \in Users /\ Proxy \in Proxies /\ file[Owner] \in [Keys -> Lists]
      /\ backup \in Backups \cup {None} /\ Sound(backup) /\ mem \in Memory
  BY TakeCases, ApplyingFacts DEF Applying, BaseInv
<1>2. Within(file, backup) /\ Within(file, rec.before) /\ Clean(file, backup) /\ Clean(file, mem.b)
  BY <1>1, ProxyFacts DEF ProxyPlace
<1>3. ASSUME backup = None PROVE Within(file, TakeNew) /\ Clean(file, TakeNew)
  <2>1. \A u \in Users, k \in Keys : Prox(file[u][k]) = {}
    BY <1>2, <1>3 DEF Within, HeldBy
  <2>2. /\ TakeNew \in Backups /\ TakeNew.orig = file[Owner]
        /\ TakeNew.rb = None /\ ~RestoreStarted(TakeNew)
    BY <1>1, NewBackup DEF TakeNew
  <2>3. Within(file, TakeNew) /\ OrigClean(TakeNew)
    BY <1>1, <2>1, <2>2 DEF Within, OrigClean
  <2> QED BY <2>2, <2>3, CleanFresh
<1>4. ASSUME backup # None PROVE Within(file, TakeKeep) /\ Clean(file, TakeKeep)
  <2>1. backup.rb = None /\ ~RestoreStarted(backup)
    BY <1>1, <1>4, TakeFit DEF BaseInv
  <2>2. /\ TakeKeep \in Backups /\ TakeKeep.orig = backup.orig /\ TakeKeep.user = backup.user
        /\ TakeKeep.plans = backup.plans /\ TakeKeep.rb = backup.rb
        /\ TakeKeep.managed = backup.managed \cup {Proxy} /\ TakeKeep # None
    BY <1>1, <1>4, MoreManaged DEF TakeKeep
  <2>3. Within(file, TakeKeep) /\ OrigClean(TakeKeep) /\ ~RestoreStarted(TakeKeep)
    BY <1>2, <1>4, <2>1, <2>2 DEF Within, HeldBy, OrigClean, Clean, RestoreStarted
  <2> QED BY <2>1, <2>2, <2>3, CleanFresh
<1>5. Within(file, backup') /\ Clean(file, backup')
  BY <1>2, <1>3, <1>4, TakeCases
<1>6. Clean(file, mem'.b) /\ (pc' \in {"check", "reject"} \/ (pc' = "look" /\ mem'.loop = "handover"))
  BY <1>1, <1>2, TakeCases DEF Goto, Memory
<1>7. ProxyPlace'
  BY <1>1, <1>2, <1>6 DEF ProxyPlace, InLoopOf, InLoop
<1> QED BY <1>1, <1>5, <1>6, <1>7, ProxyStep

LEMMA RejectProxy == ASSUME BaseInv, ProxyInv, Reject PROVE ProxyInv'
<1>1. /\ pc = "reject" /\ rec # None /\ rec' = rec /\ file' = file /\ backup' \in {backup, rec.before}
      /\ pc' = "failed" /\ mem' = mem
  BY RejectCases, ApplyingFacts DEF Applying, BaseInv, Goto
<1>2. /\ Within(file, backup) /\ Within(file, rec.before) /\ Clean(file, backup) /\ Clean(file, mem.b)
      /\ Clean(file, rec.before)
  BY <1>1, ProxyFacts, CleanBefore DEF ProxyPlace
<1>3. ProxyPlace'
  BY <1>1 DEF ProxyPlace, InLoopOf, InLoop
<1> QED BY <1>1, <1>2, <1>3, ProxyStep

LEMMA CheckProxy == ASSUME BaseInv, ProxyInv, Check PROVE ProxyInv'
<1>1. /\ pc = "check" /\ rec # None /\ UNCHANGED <<rec, backup, file>> /\ mem \in Memory
      /\ Owner \in Users
  BY CheckCases, ApplyingFacts DEF Applying, BaseInv, durable
<1>2. /\ Within(file, backup) /\ Within(file, rec.before) /\ Clean(file, backup) /\ Clean(file, mem.b)
  BY <1>1, ProxyFacts DEF ProxyPlace
<1>3. backup.user = Owner
  BY <1>1 DEF BaseInv, OwnInv, PlaceOwn
<1>4. \A k \in Keys : Prox(file[Owner][k]) \subseteq backup.managed
  BY <1>1, <1>2, <1>3 DEF Within, HeldBy
<1>5. /\ mem'.b = mem.b
      /\ \/ pc' = "apply" /\ mem'.snap = file[Owner]
         \/ pc' = "reject"
  BY <1>1, CheckCases DEF Goto, Memory
<1>6. ProxyPlace'
  BY <1>1, <1>2, <1>4, <1>5 DEF ProxyPlace, InLoopOf, InLoop
<1> QED BY <1>1, <1>2, <1>5, <1>6, ProxyStep

\* The ownership an apply works under.
LEMMA ApplyProxyFacts ==
  ASSUME BaseInv, ProxyInv, pc \in {"apply", "verify", "rollback"}
  PROVE  /\ rec # None /\ Owner \in Users /\ mem.k \in Keys /\ Proxy \in Proxies
         /\ backup # None /\ backup.user = Owner /\ Proxy \in backup.managed /\ backup.rb = None
         /\ \A b \in {backup, mem.b} : b # None /\ b.user = Owner => \A k \in Keys : b.plans[k] = None
         /\ \A k \in Keys : Prox(mem.snap[k]) \subseteq backup.managed
<1>1. rec # None /\ Owner \in Users /\ mem.k \in Keys /\ Proxy \in Proxies /\ rec.cand.on
  BY ApplyingFacts DEF Applying, BaseInv
<1>2. /\ backup # None /\ backup.user = Owner /\ Proxy \in backup.managed /\ backup.rb = None
      /\ Fit(rec, backup) /\ Fit(rec, mem.b)
  BY <1>1 DEF BaseInv, OwnInv, PlaceOwn
<1>3. ASSUME NEW b \in {backup, mem.b}, b # None, b.user = Owner PROVE \A k \in Keys : b.plans[k] = None
  BY <1>1, <1>2, <1>3, NoPlansFacts DEF Fit, Gets, Owner, RestoreStarted
<1>4. \A k \in Keys : Prox(mem.snap[k]) \subseteq backup.managed
  BY <1>1, ProxyFacts DEF ProxyPlace
<1> QED BY <1>1, <1>2, <1>3, <1>4

\* An apply writes no address that the ownership does not name.
LEMMA ApplyWritten ==
  ASSUME BaseInv, ProxyInv, pc = "apply", file' \in {file, [file EXCEPT ![Owner][mem.k] = <<Proxy>>]}
  PROVE  Within(file', backup) /\ Clean(file', backup) /\ Clean(file', mem.b)
<1>2. /\ rec # None /\ Owner \in Users /\ mem.k \in Keys /\ Proxy \in Proxies
      /\ backup # None /\ backup.user = Owner /\ Proxy \in backup.managed
      /\ \A b \in {backup, mem.b} : b # None /\ b.user = Owner => \A k \in Keys : b.plans[k] = None
  BY ApplyProxyFacts
<1>3. /\ Within(file, backup) /\ Clean(file, backup) /\ Clean(file, mem.b)
      /\ backup \in Backups \cup {None} /\ mem.b \in Backups \cup {None}
      /\ file \in [Users -> [Keys -> Lists]]
  BY <1>2, ProxyFacts
<1>4. Prox(<<Proxy>>) \subseteq HeldBy(backup, Owner) /\ <<Proxy>> \in Lists
  BY <1>2, ProxValues, ListTypes DEF HeldBy
<1>5. CASE file' = [file EXCEPT ![Owner][mem.k] = <<Proxy>>]
  <2>1. ASSUME NEW b \in {backup, mem.b}
        PROVE  b \in Backups \cup {None} /\ OpenFor(b, Owner, mem.k)
    BY <1>2, <1>3 DEF OpenFor
  <2>2. \A w \in Users, j \in Keys : w # Owner \/ j # mem.k => file'[w][j] = file[w][j]
    BY <1>2, <1>3, <1>5
  <2>3. file'[Owner][mem.k] = <<Proxy>>
    BY <1>2, <1>3, <1>5
  <2>4. Within(file', backup)
    <3>1. Prox(file'[Owner][mem.k]) \subseteq HeldBy(backup, Owner)
      BY <1>4, <2>3
    <3> QED BY <1>2, <1>3, <2>2, <3>1, WrittenWithin
  <2>5. Clean(file', backup) /\ Clean(file', mem.b)
    BY <1>2, <1>3, <2>1, <2>2, WrittenClean
  <2> QED BY <2>4, <2>5
<1> QED BY <1>3, <1>5

LEMMA ApplyProxy == ASSUME BaseInv, ProxyInv, Apply PROVE ProxyInv'
<1>1. /\ pc = "apply" /\ UNCHANGED <<rec, backup>>
      /\ file' \in {file, [file EXCEPT ![Owner][mem.k] = <<Proxy>>]}
  BY ApplyCases DEF durable, BaseInv
<1>2. /\ rec # None /\ Owner \in Users /\ mem.k \in Keys
      /\ \A k \in Keys : Prox(mem.snap[k]) \subseteq backup.managed
  BY <1>1, ApplyProxyFacts
<1>3. ProxyPlace
  BY <1>2, ProxyFacts
<1>4. Within(file', backup) /\ Clean(file', backup) /\ Clean(file', mem.b)
  BY <1>1, ApplyWritten
<1>5. NextKey => /\ mem'.snap = mem.snap /\ mem'.b = mem.b
                 /\ \/ pc' = "apply" /\ mem'.k = mem.k + 1 /\ mem.k \in Nat /\ mem.k > 0
                    \/ pc' = "applied"
  BY <1>1, <1>2, NextKeyPlace, Constants DEF BaseInv, TypeInv
<1>6. /\ mem'.b = mem.b
      /\ \/ pc' \in {"applied", "rollback", "verify"}
         \/ pc' = "apply" /\ mem'.k # 1
         \/ pc' = "reject" /\ file' = file /\ Within(file, rec.before)
      /\ pc' \in {"apply", "verify", "rollback"} => mem'.snap = mem.snap
  BY <1>1, <1>3, <1>5, ApplyCases DEF Failing, Goto, ProxyPlace, BaseInv
<1>7. ProxyPlace'
  BY <1>1, <1>2, <1>6 DEF ProxyPlace, InLoopOf, InLoop
<1> QED BY <1>1, <1>2, <1>4, <1>6, <1>7, ProxyStep

LEMMA VerifyProxy == ASSUME BaseInv, ProxyInv, Verify PROVE ProxyInv'
<1>1. pc = "verify" /\ UNCHANGED <<rec, backup, file>>
  BY VerifyCases DEF durable
<1>2. rec # None /\ mem.k \in Keys /\ \A k \in Keys : Prox(mem.snap[k]) \subseteq backup.managed
  BY <1>1, ApplyProxyFacts
<1>3. Within(file, backup) /\ Clean(file, backup) /\ Clean(file, mem.b)
  BY <1>2, ProxyFacts
<1>4. NextKey => /\ mem'.snap = mem.snap /\ mem'.b = mem.b
                 /\ \/ pc' = "apply" /\ mem'.k = mem.k + 1 /\ mem.k \in Nat /\ mem.k > 0
                    \/ pc' = "applied"
  BY <1>1, <1>2, NextKeyPlace, Constants DEF BaseInv, TypeInv
<1>5. /\ mem'.b = mem.b /\ mem'.snap = mem.snap
      /\ pc' \in {"applied", "rollback"} \/ (pc' = "apply" /\ mem'.k # 1)
  BY <1>1, <1>4, VerifyCases DEF Goto
<1>6. ProxyPlace'
  BY <1>1, <1>2, <1>5 DEF ProxyPlace, InLoopOf, InLoop
<1> QED BY <1>1, <1>2, <1>3, <1>5, <1>6, ProxyStep

LEMMA RollbackProxy == ASSUME BaseInv, ProxyInv, Rollback PROVE ProxyInv'
<1>1. pc = "rollback" /\ UNCHANGED <<rec, file>> /\ mem \in Memory
  BY RollbackCases, ApplyingFacts DEF BaseInv, Applying
<1>2. /\ rec # None /\ backup # None /\ backup.user = Owner
      /\ \A k \in Keys : backup.plans[k] = None
      /\ \A k \in Keys : Prox(mem.snap[k]) \subseteq backup.managed
  BY <1>1, ApplyProxyFacts
<1>3. Within(file, backup) /\ Clean(file, backup) /\ Clean(file, mem.b)
  BY <1>2, ProxyFacts
<1>4. /\ RollbackBackup # None /\ RollbackBackup.user = backup.user /\ RollbackBackup.orig = backup.orig
      /\ RollbackBackup.plans = backup.plans /\ RollbackBackup.managed = backup.managed
      /\ RollbackBackup.rb.vals = mem.snap /\ RollbackBackup.rb.plans = NoPlans
  BY <1>1, RollbackFacts DEF BaseInv
<1>5. Within(file, RollbackBackup) /\ Clean(file, RollbackBackup)
  BY <1>2, <1>3, <1>4, NoPlansFacts DEF Within, HeldBy, Clean, OrigClean, PlansClean, BackClean
<1>6. /\ backup' \in {backup, RollbackBackup} /\ mem'.b \in {mem.b, RollbackBackup}
      /\ pc' = "failed" \/ (pc' = "look" /\ mem'.loop = "rollback")
  BY <1>1, RollbackCases DEF Goto, Memory
<1>7. ProxyPlace'
  BY <1>6 DEF ProxyPlace, InLoopOf, InLoop
<1> QED BY <1>1, <1>2, <1>3, <1>5, <1>6, <1>7, ProxyStep

LEMMA ReleaseProxy == ASSUME BaseInv, ProxyInv, Release PROVE ProxyInv'
<1>1. pc = "release" /\ UNCHANGED <<rec, backup, file>> /\ mem \in Memory /\ rec # None
  BY ReleaseCases DEF durable, BaseInv, TypeInv, PlaceInv
<1>2. Within(file, backup) /\ Clean(file, backup) /\ Clean(file, mem.b)
  BY <1>1, ProxyFacts
<1>3. /\ mem'.b \in {mem.b, backup}
      /\ pc' = "applied" \/ (pc' = "look" /\ mem'.loop = "release")
  BY <1>1, ReleaseCases DEF Goto, Memory
<1>4. ProxyPlace'
  BY <1>3 DEF ProxyPlace, InLoopOf, InLoop
<1> QED BY <1>1, <1>2, <1>3, <1>4, ProxyStep

\* The record is gone.
LEMMA NoRecordProxy ==
  ASSUME ProxyInv, rec' = None, UNCHANGED <<backup, file>>
  PROVE  ProxyInv'
BY DEF ProxyInv

\* What a loop works under.
LEMMA LoopProxyFacts ==
  ASSUME BaseInv, ProxyInv, InLoop
  PROVE  /\ rec # None /\ B \in Backups /\ Sound(B) /\ B # None /\ B.user \in Users /\ mem.k \in Keys
         /\ backup \in Backups /\ backup # None /\ backup.user = B.user /\ backup.managed = B.managed
         /\ Within(file, backup) /\ Clean(file, backup) /\ Clean(file, B) /\ ProxyPlace
         /\ Within(rec.vals, rec.before)
         /\ B.managed \in SUBSET Proxies /\ Managed \in SUBSET Proxies
         /\ B.rb = None => B.managed \subseteq Managed
         /\ B.rb # None => ~RestoreStarted(B) /\ ~RestoreStarted(backup) /\ B.rb \in Rollbacks
         /\ \A k \in Keys : Prox(file[B.user][k]) \subseteq B.managed
         /\ file \in [Users -> [Keys -> Lists]] /\ mem \in Memory
<1>1. /\ rec # None /\ B \in Backups /\ Sound(B) /\ B # None /\ B.user \in Users /\ mem.k \in Keys
      /\ mem \in Memory
  BY LoopTypes DEF BaseInv
<1>2. LoopOwn /\ Fit(rec, B) /\ Fit(rec, backup)
  BY <1>1 DEF BaseInv, OwnInv, PlaceOwn, B
<1>3. /\ backup # None /\ backup.user = B.user /\ backup.managed = B.managed
      /\ backup.rb = None <=> B.rb = None
  BY <1>2 DEF LoopOwn
<1>4. /\ Within(file, backup) /\ Clean(file, backup) /\ Clean(file, B) /\ ProxyPlace
      /\ backup \in Backups /\ file \in [Users -> [Keys -> Lists]] /\ Within(rec.vals, rec.before)
  BY <1>1, <1>3, ProxyFacts DEF B
<1>5. B.managed \in SUBSET Proxies /\ (B.rb # None => B.rb \in Rollbacks /\ B.rb.proxy \in Proxies)
  BY <1>1 DEF Backups, Rollbacks
<1>6. Proxy \in Proxies
  BY <1>1, RecordTypes DEF BaseInv, TypeInv
<1>7. Managed \in SUBSET Proxies /\ (B.rb = None => B.managed \subseteq Managed)
  BY <1>5, <1>6 DEF Managed, InRollback
<1>8. B.rb # None => ~RestoreStarted(B) /\ ~RestoreStarted(backup)
  BY <1>1, <1>2, <1>3 DEF Fit
<1>9. \A k \in Keys : Prox(file[B.user][k]) \subseteq B.managed
  BY <1>1, <1>3, <1>4 DEF Within, HeldBy
<1> QED BY <1>1, <1>3, <1>4, <1>5, <1>7, <1>8, <1>9

\* A loop goes on.
LEMMA LoopProxyStep ==
  ASSUME ProxyInv, rec # None, InLoop, InLoop', rec' = rec, mem'.loop = mem.loop, mem'.i = mem.i,
         Within(file', backup'), Clean(file', backup'), Clean(file', mem'.b),
         mem.loop = "handover" => Within(file', rec.before),
         mem.loop = "restore" => \A k \in Keys :
           /\ PlanIn(mem'.b, k) # None /\ PlanIn(mem'.b, k).desired = Values[k]
           /\ Finished(k, PlanIn(mem'.b, k)) => Prox(file'[mem'.b.user][k]) \subseteq Prox(Values[k])
  PROVE  ProxyInv'
<1>1. Values' = Values
  BY DEF Values, Subject
<1>2. InLoop' => pc' \in {"look", "step", "tick", "restored"}
  BY DEF InLoop
<1>3. ProxyPlace'
  BY <1>1, <1>2 DEF ProxyPlace, InLoopOf, B
<1> QED BY <1>3, ProxyStep

\* What a loop knows of the plans it has.
LEMMA LoopPlaceProxy ==
  ASSUME ProxyPlace, InLoop
  PROVE  /\ mem.loop = "handover" => Within(file, rec.before)
         /\ mem.loop = "restore" => \A k \in Keys :
              /\ PlanIn(B, k) # None /\ PlanIn(B, k).desired = Values[k]
              /\ Finished(k, PlanIn(B, k)) => Prox(file[B.user][k]) \subseteq Prox(Values[k])
BY DEF ProxyPlace, InLoopOf

\* The ownership with another plan of the key.
LEMMA CleanPlan ==
  ASSUME BaseInv, ProxyInv, InLoop, NEW p \in RestorePlans,
         B.rb = None => /\ Prox(p.desired) = {}
                        /\ Finished(mem.k, p) => Prox(file[B.user][mem.k]) = {},
         B.rb # None => Prox(p.desired) \subseteq B.managed
  PROVE  Clean(file, WithPlan(mem.k, p))
<1> DEFINE w == WithPlan(mem.k, p)
<1>1. /\ B \in Backups /\ B # None /\ mem.k \in Keys /\ Clean(file, B)
      /\ B.rb # None => B.rb \in Rollbacks
  BY LoopProxyFacts
<1>2. /\ w \in Backups /\ w # None
      /\ w.user = B.user /\ w.orig = B.orig /\ w.managed = B.managed
      /\ w.rb = None <=> B.rb = None
      /\ B.rb = None  => w.plans = [B.plans EXCEPT ![mem.k] = p]
      /\ B.rb # None => /\ w.plans = B.plans /\ w.rb.vals = B.rb.vals
                        /\ w.rb.plans = [B.rb.plans EXCEPT ![mem.k] = p]
  BY <1>1, WithPlanFacts
<1> HIDE DEF w
<1>3. OrigClean(w)
  BY <1>1, <1>2 DEF Clean, OrigClean
<1>4. CASE B.rb = None
  <2>1. B.plans \in [Keys -> RestorePlans \cup {None}]
    BY <1>1 DEF Backups
  <2>2. \A k \in Keys : w.plans[k] = IF k = mem.k THEN p ELSE B.plans[k]
    BY <1>1, <1>2, <1>4, <2>1
  <2>3. PlansClean(file, w)
    BY <1>1, <1>2, <1>4, <2>2 DEF Clean, PlansClean
  <2> QED BY <1>2, <1>3, <1>4, <2>3 DEF Clean, BackClean, w
<1>5. CASE B.rb # None
  <2>1. B.rb.plans \in [Keys -> RestorePlans \cup {None}]
    BY <1>1, <1>5 DEF Rollbacks
  <2>2. \A k \in Keys : w.rb.plans[k] = IF k = mem.k THEN p ELSE B.rb.plans[k]
    BY <1>1, <1>2, <1>5, <2>1
  <2>3. BackClean(w)
    BY <1>1, <1>2, <1>5, <2>2 DEF Clean, BackClean
  <2>4. PlansClean(file, w)
    BY <1>1, <1>2, <1>5 DEF Clean, PlansClean
  <2> QED BY <1>3, <2>3, <2>4 DEF Clean, w
<1> QED BY <1>4, <1>5

\* The plan that is made.
LEMMA NewPlanProxy ==
  ASSUME BaseInv, ProxyInv, InLoop
  PROVE  /\ B.rb = None => /\ Prox(NewPlan.desired) = {}
                           /\ Finished(mem.k, NewPlan) => Prox(file[B.user][mem.k]) = {}
         /\ B.rb # None => Prox(NewPlan.desired) \subseteq B.managed
<1> DEFINE now == file[B.user][mem.k]
<1>1. /\ B \in Backups /\ B # None /\ mem.k \in Keys /\ Clean(file, B) /\ B.user \in Users
      /\ Managed \in SUBSET Proxies /\ B.managed \in SUBSET Proxies
      /\ B.rb = None => B.managed \subseteq Managed
      /\ Prox(now) \subseteq B.managed /\ now \in Lists
  BY LoopProxyFacts
<1>2. Goal(mem.k) \in Lists
  BY GoalType DEF BaseInv
<1>3. IF ContainsManaged(now, Managed)
      THEN ~Finished(mem.k, NewPlan) /\ NewPlan.desired = Desired(mem.k, Goal(mem.k), now, Managed)
      ELSE NewPlan.desired = now
  BY NewPlanFacts DEF BaseInv
<1>4. Prox(Desired(mem.k, Goal(mem.k), now, Managed)) \subseteq Prox(Goal(mem.k)) \cup (Prox(now) \ Managed)
  BY <1>1, <1>2, DesiredProx
<1>5. ContainsManaged(now, Managed) <=> Prox(now) \cap Managed # {}
  BY <1>1, Contained
<1>6. B.rb = None => Prox(Goal(mem.k)) = {}
  BY <1>1 DEF Goal, InRollback, Clean, OrigClean
<1>7. B.rb # None => Prox(Goal(mem.k)) \subseteq B.managed
  BY <1>1 DEF Goal, InRollback, Clean, BackClean
<1> HIDE DEF now
<1>8. B.rb = None => /\ Prox(NewPlan.desired) = {}
                     /\ Finished(mem.k, NewPlan) => Prox(now) = {}
  BY <1>1, <1>3, <1>4, <1>5, <1>6
<1>9. B.rb # None => Prox(NewPlan.desired) \subseteq B.managed
  BY <1>1, <1>3, <1>4, <1>7
<1> QED BY <1>8, <1>9 DEF now

\* A plan is recorded.
LEMMA RecordedProxy ==
  ASSUME BaseInv, ProxyInv, pc \in {"look", "tick"}, NEW p \in RestorePlans, Counted(mem.k, p), Recorded(p),
         UNCHANGED <<rec, file>>,
         B.rb = None => /\ Prox(p.desired) = {}
                        /\ Finished(mem.k, p) => Prox(file[B.user][mem.k]) = {},
         B.rb # None => Prox(p.desired) \subseteq B.managed,
         mem.loop = "restore" =>
           /\ p.desired = Values[mem.k]
           /\ Finished(mem.k, p) => Prox(file[B.user][mem.k]) \subseteq Prox(Values[mem.k])
  PROVE  ProxyInv'
<1> DEFINE w == WithPlan(mem.k, p)
<1>1. InLoop
  BY DEF InLoop
<1>2. /\ rec # None /\ B \in Backups /\ B # None /\ Sound(B) /\ mem.k \in Keys /\ backup # None
      /\ backup.user = B.user /\ backup.managed = B.managed
      /\ Within(file, backup) /\ Clean(file, backup) /\ ProxyPlace /\ mem \in Memory
  BY <1>1, LoopProxyFacts
<1>3. /\ w \in Backups /\ w # None /\ Sound(w) /\ w.user = B.user /\ w.managed = B.managed
      /\ PlanIn(w, mem.k) = p /\ \A k \in Keys \ {mem.k} : PlanIn(w, k) = PlanIn(B, k)
  BY <1>1, <1>2, WithPlanOwn, WithPlanSound DEF BaseInv
<1>4. Clean(file, w)
  BY <1>1, CleanPlan
<1> HIDE DEF w
<1>5. Within(file, w)
  BY <1>2, <1>3 DEF Within, HeldBy
<1>6. \E e \in {"none", "fault"} : \/ ToKey(e, w)
                                   \/ pc' = "step" /\ mem' = [mem EXCEPT !.b = w]
  BY DEF Recorded, w
<1>7. InLoop' /\ mem'.b = w /\ mem'.loop = mem.loop /\ mem'.i = mem.i
  <2>1. ASSUME NEW e \in {"none", "fault"}, ToKey(e, w) PROVE <1>7!:
    <3>1. e \in Errors
      BY DEF Errors
    <3> QED BY <1>1, <1>3, <2>1, <3>1, ToKeyFacts DEF BaseInv, InLoop
  <2>2. CASE pc' = "step" /\ mem' = [mem EXCEPT !.b = w]
    BY <1>2, <2>2 DEF InLoop, Memory
  <2> QED BY <1>6, <2>1, <2>2
<1>8. backup' \in {backup, w}
  BY DEF Recorded, w
<1>9. p # None
  BY Constants
<1>10. mem.loop = "restore" => \A k \in Keys :
         /\ PlanIn(w, k) # None /\ PlanIn(w, k).desired = Values[k]
         /\ Finished(k, PlanIn(w, k)) => Prox(file[w.user][k]) \subseteq Prox(Values[k])
  BY <1>1, <1>2, <1>3, <1>9, LoopPlaceProxy
<1>11. mem.loop = "handover" => Within(file, rec.before)
  BY <1>1, <1>2, LoopPlaceProxy
<1> QED BY <1>1, <1>2, <1>4, <1>5, <1>7, <1>8, <1>10, <1>11, LoopProxyStep

\* A key is left as it is.
LEMMA ToKeyProxy ==
  ASSUME BaseInv, ProxyInv, InLoop, NEW e \in Errors, ToKey(e, B), UNCHANGED <<rec, backup>>,
         Within(file', backup), Clean(file', backup), Clean(file', B),
         mem.loop = "handover" => Within(file', rec.before),
         mem.loop = "restore" => \A k \in Keys :
           Finished(k, PlanIn(B, k)) => Prox(file'[B.user][k]) \subseteq Prox(Values[k])
  PROVE  ProxyInv'
<1>1. rec # None /\ B \in Backups /\ Sound(B) /\ ProxyPlace
  BY LoopProxyFacts
<1>2. mem'.b = B /\ mem'.loop = mem.loop /\ mem'.i = mem.i /\ InLoop'
  BY <1>1, ToKeyFacts DEF BaseInv, InLoop
<1> QED BY <1>1, <1>2, LoopPlaceProxy, LoopProxyStep

LEMMA LookProxy == ASSUME BaseInv, ProxyInv, Look PROVE ProxyInv'
<1>1. pc = "look" /\ InLoop /\ UNCHANGED <<rec, file>>
  BY LookCases DEF InLoop
<1>2. /\ rec # None /\ B \in Backups /\ B # None /\ mem.k \in Keys /\ mem \in Memory
      /\ Within(file, backup) /\ Clean(file, backup) /\ Clean(file, B) /\ ProxyPlace
  BY <1>1, LoopProxyFacts
<1>3. /\ mem.loop = "handover" => Within(file, rec.before)
      /\ mem.loop = "restore" => \A k \in Keys :
              /\ PlanIn(B, k) # None /\ PlanIn(B, k).desired = Values[k]
              /\ Finished(k, PlanIn(B, k)) => Prox(file[B.user][k]) \subseteq Prox(Values[k])
  BY <1>1, <1>2, LoopPlaceProxy
<1>4. CASE PlanOf(mem.k) = None /\ Recorded(NewPlan)
  <2>1. NewPlan \in RestorePlans /\ Counted(mem.k, NewPlan)
    BY <1>1, NewPlanFacts DEF BaseInv
  <2>2. mem.loop # "restore"
    BY <1>2, <1>3, <1>4 DEF PlanOf, PlanIn, InRollback
  <2> QED BY <1>1, <1>4, <2>1, <2>2, NewPlanProxy, RecordedProxy
<1>5. CASE UNCHANGED backup /\ \E e \in {"none", "parked", "fault"} : ToKey(e, B)
  <2>1. PICK e \in Errors : ToKey(e, B)
    BY <1>5 DEF Errors
  <2> QED BY <1>1, <1>2, <1>3, <1>5, <2>1, ToKeyProxy
<1>6. CASE Goto("step") /\ UNCHANGED backup
  <2>1. mem' = mem /\ InLoop' /\ mem'.b = B
    BY <1>6 DEF Goto, InLoop, B
  <2> QED BY <1>1, <1>2, <1>3, <1>6, <2>1, LoopProxyStep
<1> QED BY <1>4, <1>5, <1>6, LookCases

\* A step of a plan writes none that the ownership does not name.
LEMMA StepWritten ==
  ASSUME BaseInv, ProxyInv, pc = "step", file' \in {file, After}
  PROVE  /\ Within(file', backup) /\ Clean(file', backup) /\ Clean(file', B)
         /\ mem.loop = "handover" => Within(file', rec.before)
         /\ mem.loop = "restore" => \A k \in Keys :
              Finished(k, PlanIn(B, k)) => Prox(file'[B.user][k]) \subseteq Prox(Values[k])
<1> DEFINE v == PlanAfter(mem.k, Cur)
<1>1. pc = "step" /\ InLoop
  BY DEF InLoop
<1>2. /\ rec # None /\ B \in Backups /\ B # None /\ mem.k \in Keys /\ mem \in Memory /\ B.user \in Users
      /\ Within(file, backup) /\ Clean(file, backup) /\ Clean(file, B) /\ ProxyPlace
      /\ backup \in Backups /\ backup # None /\ backup.user = B.user /\ backup.managed = B.managed
      /\ B.rb # None => ~RestoreStarted(B) /\ ~RestoreStarted(backup)
      /\ file \in [Users -> [Keys -> Lists]]
  BY <1>1, LoopProxyFacts
<1>3. /\ mem.loop = "handover" => Within(file, rec.before)
      /\ mem.loop = "restore" => \A k \in Keys :
              /\ PlanIn(B, k) # None /\ PlanIn(B, k).desired = Values[k]
              /\ Finished(k, PlanIn(B, k)) => Prox(file[B.user][k]) \subseteq Prox(Values[k])
  BY <1>1, <1>2, LoopPlaceProxy
<1>4. /\ Cur \in RestorePlans /\ Cur # None /\ ~Finished(mem.k, Cur) /\ Cur = PlanIn(B, mem.k)
      /\ Prox(v) \subseteq Prox(Cur.desired) /\ v \in Lists
  <2>1. /\ Cur \in RestorePlans /\ Counted(mem.k, Cur) /\ ~Finished(mem.k, Cur)
        /\ PlanAfter(mem.k, Cur) \in Lists
    BY <1>1, AtStep DEF BaseInv
  <2>2. Cur # None
    BY <2>1, Constants
  <2> QED BY <1>2, <2>1, <2>2, AfterFacts DEF Cur, PlanOf, PlanIn, InRollback
<1> HIDE DEF v
<1>5. B.rb = None => Prox(v) = {}
  BY <1>2, <1>4 DEF Clean, PlansClean, PlanIn
<1>6. Prox(v) \subseteq B.managed
  BY <1>2, <1>4, <1>5 DEF Clean, BackClean, PlanIn
<1>7. PlanIn(backup, mem.k) = PlanIn(B, mem.k) /\ (backup.rb = None <=> B.rb = None)
  <2>1. LoopOwn
    BY <1>1, <1>2 DEF BaseInv, OwnInv, PlaceOwn
  <2>2. mem.k \in mem.k..NK
    BY <1>2, Constants
  <2> QED BY <1>1, <2>1, <2>2 DEF LoopOwn
<1>8. ASSUME NEW b \in {backup, B} PROVE OpenFor(b, B.user, mem.k)
  BY <1>2, <1>4, <1>7, NoPlansFacts DEF OpenFor, PlanIn, RestoreStarted
<1>9. mem.loop = "handover" => B.rb = None
  BY <1>1, <1>2 DEF BaseInv, OwnInv, PlaceOwn, LoopOwn
<1>10. CASE file' = file
  BY <1>2, <1>3, <1>10
<1>11. CASE file' = After
  <2>1. \A w \in Users, j \in Keys : w # B.user \/ j # mem.k => file'[w][j] = file[w][j]
    BY <1>2, <1>11 DEF After
  <2>2. file'[B.user][mem.k] = v
    BY <1>2, <1>11 DEF After, v
  <2>3. rec.before \in Backups \cup {None}
    BY <1>2, CleanBefore
  <2>4. Within(file', backup)
    BY <1>2, <1>6, <2>1, <2>2, WrittenWithin DEF HeldBy
  <2>5. mem.loop = "handover" => Within(file', rec.before)
    BY <1>2, <1>3, <1>5, <1>9, <2>1, <2>2, <2>3, WrittenWithin
  <2>6. Clean(file', backup) /\ Clean(file', B)
    <3>1. ASSUME NEW b \in {backup, B} PROVE Clean(file', b)
      <4>1. b \in Backups \cup {None} /\ Clean(file, b) /\ OpenFor(b, B.user, mem.k)
        BY <1>2, <1>8
      <4> QED BY <1>2, <2>1, <4>1, WrittenClean
    <3> QED BY <3>1
  <2>7. mem.loop = "restore" => \A k \in Keys :
          Finished(k, PlanIn(B, k)) => Prox(file'[B.user][k]) \subseteq Prox(Values[k])
    BY <1>2, <1>3, <1>4, <2>1
  <2> QED BY <2>4, <2>5, <2>6, <2>7
<1> QED BY <1>10, <1>11

LEMMA StepProxy == ASSUME BaseInv, ProxyInv, Step PROVE ProxyInv'
<1>1. pc = "step" /\ InLoop /\ UNCHANGED <<rec, backup>> /\ file' \in {file, After}
  BY StepCases DEF InLoop, durable, BaseInv
<1>2. rec # None /\ B \in Backups /\ B # None /\ mem \in Memory /\ B.user \in Users /\ ProxyPlace
  BY <1>1, LoopProxyFacts
<1>3. mem.loop = "restore" => \A k \in Keys : PlanIn(B, k) # None /\ PlanIn(B, k).desired = Values[k]
  BY <1>1, <1>2, LoopPlaceProxy
<1>10. /\ Within(file', backup) /\ Clean(file', backup) /\ Clean(file', B)
       /\ mem.loop = "handover" => Within(file', rec.before)
       /\ mem.loop = "restore" => \A k \in Keys :
            Finished(k, PlanIn(B, k)) => Prox(file'[B.user][k]) \subseteq Prox(Values[k])
  BY <1>1, StepWritten
<1>11. CASE \E e \in {"parked", "differs", "fault"} : ToKey(e, B)
  <2>1. PICK e \in Errors : ToKey(e, B)
    BY <1>11 DEF Errors
  <2> QED BY <1>1, <1>10, <2>1, ToKeyProxy
<1>12. CASE Goto("tick")
  <2>1. mem' = mem /\ InLoop' /\ mem'.b = B
    BY <1>12 DEF Goto, InLoop, B
  <2> QED BY <1>1, <1>2, <1>3, <1>10, <2>1, LoopProxyStep
<1> QED BY <1>11, <1>12, StepCases DEF BaseInv

LEMMA TickProxy == ASSUME BaseInv, ProxyInv, Tick PROVE ProxyInv'
<1> DEFINE p == [Cur EXCEPT !.next = @ + 1]
<1>1. pc = "tick" /\ InLoop /\ UNCHANGED <<rec, file>>
  BY TickCases DEF InLoop
<1>2. /\ rec # None /\ B \in Backups /\ B # None /\ mem.k \in Keys
      /\ Within(file, backup) /\ Clean(file, backup) /\ Clean(file, B) /\ ProxyPlace
  BY <1>1, LoopProxyFacts
<1>3. /\ mem.loop = "handover" => Within(file, rec.before)
      /\ mem.loop = "restore" => \A k \in Keys :
              /\ PlanIn(B, k) # None /\ PlanIn(B, k).desired = Values[k]
              /\ Finished(k, PlanIn(B, k)) => Prox(file[B.user][k]) \subseteq Prox(Values[k])
  BY <1>1, <1>2, LoopPlaceProxy
<1>4. /\ Cur \in RestorePlans /\ Cur # None /\ Cur = PlanIn(B, mem.k)
      /\ p \in RestorePlans /\ Counted(mem.k, p) /\ p.desired = Cur.desired
      /\ Finished(mem.k, p) => PlanAfter(mem.k, Cur) = Cur.desired
  <2>1. /\ Cur \in RestorePlans /\ Counted(mem.k, Cur) /\ ~Finished(mem.k, Cur)
        /\ p \in RestorePlans /\ Counted(mem.k, p)
    BY <1>1, AtStep DEF BaseInv
  <2>2. Cur # None
    BY <2>1, Constants
  <2> QED BY <1>2, <2>1, <2>2, AfterFacts DEF Cur, PlanOf, PlanIn, InRollback
<1> HIDE DEF p
<1>5. /\ B.rb = None => Prox(p.desired) = {}
      /\ B.rb # None => Prox(p.desired) \subseteq B.managed
  BY <1>2, <1>4 DEF Clean, PlansClean, BackClean, PlanIn
<1>6. CASE file[B.user][mem.k] = PlanAfter(mem.k, Cur) /\ Recorded(p)
  <2>1. Finished(mem.k, p) => file[B.user][mem.k] = p.desired
    BY <1>4, <1>6
  <2> QED BY <1>1, <1>2, <1>3, <1>4, <1>5, <1>6, <2>1, RecordedProxy
<1>7. CASE ToKey("differs", B) /\ UNCHANGED backup
  <2>1. "differs" \in Errors
    BY DEF Errors
  <2> QED BY <1>1, <1>2, <1>3, <1>7, <2>1, ToKeyProxy
<1> QED BY <1>6, <1>7, TickCases DEF p

\* What a loop that is done with every key has brought about.
LEMMA EndProxy ==
  ASSUME BaseInv, ProxyInv, pc = "restored", mem.errs = "none"
  PROVE  /\ B.rb = None => Within(file, None)
         /\ mem.loop = "restore" => \A k \in Keys : Prox(file[Subject][k]) \subseteq Prox(Values[k])
<1>1. InLoop
  BY DEF InLoop
<1>2. /\ rec # None /\ B # None /\ LoopOwn /\ Clean(file, B) /\ ProxyPlace
      /\ Within(file, backup) /\ backup.user = B.user
  BY <1>1, LoopProxyFacts, EndOwn DEF BaseInv
<1>3. \A k \in Keys : Done(k, PlanIn(B, k))
  BY <1>2 DEF LoopOwn, Below
<1>4. ASSUME B.rb = None PROVE Within(file, None)
  <2>1. \A k \in Keys : Prox(file[B.user][k]) = {}
    BY <1>2, <1>3, <1>4 DEF Done, PlanIn, Clean, PlansClean
  <2> QED BY <1>2, <2>1 DEF Within, HeldBy
<1>5. ASSUME mem.loop = "restore" PROVE \A k \in Keys : Prox(file[Subject][k]) \subseteq Prox(Values[k])
  <2>1. B.user = Subject
    BY <1>1, <1>2, <1>5 DEF LoopOwn, InUndo
  <2> QED BY <1>1, <1>2, <1>3, <1>5, <2>1, LoopPlaceProxy DEF Done
<1> QED BY <1>4, <1>5

LEMMA RestoredProxy == ASSUME BaseInv, ProxyInv, Restored PROVE ProxyInv'
<1>1. /\ pc = "restored" /\ InLoop /\ UNCHANGED <<rec, file>> /\ mem.loop \in Loops /\ mem \in Memory
  BY RestoredCases, LoopTypes DEF BaseInv, InLoop
<1>2. /\ rec # None /\ B \in Backups /\ Sound(B) /\ B # None /\ backup.user = B.user /\ backup # None
      /\ backup.managed = B.managed /\ LoopOwn
      /\ Within(file, backup) /\ Clean(file, backup) /\ Clean(file, B) /\ ProxyPlace
  BY <1>1, LoopProxyFacts, EndOwn DEF BaseInv
<1>3. \A f : Clean(f, None)
  BY <1>2, CleanBefore
<1>4. \A p, b : b \in Backups \cup {None} /\ Ended(p, b) =>
        pc' = p /\ mem'.b = b /\ mem'.i = mem.i
  BY <1>1, EndedFacts DEF BaseInv
<1>5. /\ Gone \in Backups /\ Forgot \in Backups /\ Gone.user = B.user /\ Gone.managed = B.managed
      /\ Gone.orig = B.orig /\ Gone.rb = None /\ Gone # None
      /\ Forgot.orig = B.orig /\ Forgot.rb = B.rb
      /\ ~RestoreStarted(Forgot) /\ (B.rb # None => ~RestoreStarted(Gone))
  BY <1>1, <1>2, GoneFacts, EndOwn DEF BaseInv
<1>6. B.rb # None => Within(file, Gone) /\ Clean(file, Gone)
  <2>1. Within(file, Gone) /\ OrigClean(Gone)
    BY <1>2, <1>5 DEF Within, HeldBy, Clean, OrigClean
  <2> QED BY <1>5, <2>1, CleanFresh
<1>7. B.rb = None => Clean(file, Forgot)
  <2>1. OrigClean(Forgot)
    BY <1>2, <1>5 DEF Clean, OrigClean
  <2> QED BY <1>5, <2>1, CleanFresh
<1>8. mem.loop = "handover" => Within(file, rec.before)
  BY <1>1, <1>2, LoopPlaceProxy
<1>9. CASE mem.errs # "none" /\ UNCHANGED backup
  <2>1. mem'.b = B /\ (pc' \in {"failed", "refused", "stopped"} \/ (pc' = "reject" /\ mem.loop = "handover"))
    BY <1>2, <1>4, <1>9, RestoredCases, <1>1
  <2>2. ProxyPlace'
    BY <1>1, <1>8, <2>1 DEF ProxyPlace, InLoopOf, InLoop
  <2> QED BY <1>1, <1>2, <1>9, <2>1, <2>2, ProxyStep
<1>10. CASE mem.errs = "none" /\ mem.loop \in {"release", "handover"}
  <2>1. B.rb = None
    BY <1>2, <1>10 DEF LoopOwn
  <2>2. Within(file, None) /\ Within(file, rec.before)
    BY <1>1, <1>10, <2>1, EndProxy DEF Within, HeldBy
  <2>3. /\ backup' \in {backup, None} /\ mem'.b \in {B, None}
        /\ pc' \in {"applied", "failed", "take", "reject"}
    BY <1>1, <1>2, <1>4, <1>10, RestoredCases
  <2>4. ProxyPlace'
    BY <1>1, <2>2, <2>3 DEF ProxyPlace, InLoopOf, InLoop
  <2> QED BY <1>1, <1>2, <1>3, <2>2, <2>3, <2>4, ProxyStep
<1>11. CASE mem.errs = "none" /\ mem.loop \in {"rollback", "inverse", "restore"}
  <2>1. B.rb # None
    BY <1>2, <1>11 DEF LoopOwn
  <2>2. /\ backup' \in {backup, Gone} /\ mem'.b \in {None, Gone} /\ mem'.i = mem.i
        /\ pc' \in {"failed", "current", "stopped"} \/ (pc' = "settle" /\ mem.loop = "restore")
    BY <1>1, <1>4, <1>5, <1>11, RestoredCases
  <2>3. mem.loop = "restore" => \A k \in Keys : Prox(file[Subject][k]) \subseteq Prox(Values[k])
    BY <1>1, <1>11, EndProxy
  <2>4. Subject' = Subject /\ Values' = Values
    BY <1>1, <2>2 DEF Subject, Values
  <2>5. ProxyPlace'
    BY <1>1, <2>2, <2>3, <2>4 DEF ProxyPlace, InLoopOf, InLoop
  <2> QED BY <1>1, <1>2, <1>3, <1>6, <2>1, <2>2, <2>5, ProxyStep
<1>12. CASE mem.errs = "none" /\ mem.loop = "finish"
  <2>1. B.rb = None
    BY <1>2, <1>12 DEF LoopOwn
  <2>2. backup' = backup /\ mem'.b = Forgot /\ pc' = "current"
    BY <1>1, <1>4, <1>5, <1>12, RestoredCases
  <2>3. ProxyPlace'
    BY <2>2 DEF ProxyPlace, InLoopOf, InLoop
  <2> QED BY <1>1, <1>2, <1>7, <2>1, <2>2, <2>3, ProxyStep
<1>13. mem.errs # "none" => backup' = backup
  BY <1>1, RestoredCases
<1> QED BY <1>1, <1>9, <1>10, <1>11, <1>12, <1>13 DEF Loops

\* The process knows nothing but the record.
LEMMA ForgottenProxy ==
  ASSUME BaseInv, ProxyInv, rec # None, UNCHANGED <<rec, backup>>, mem'.b = None,
         Within(file', backup), Clean(file', backup), pc' \in {"idle", "undo"}
  PROVE  ProxyInv'
<1>1. \A f : Clean(f, None)
  BY ProxyFacts, CleanBefore
<1>2. ProxyPlace'
  BY DEF ProxyPlace, InLoopOf, InLoop
<1> QED BY <1>1, <1>2, ProxyStep

LEMMA CompensateProxy == ASSUME BaseInv, ProxyInv, Compensate PROVE ProxyInv'
<1>1. UNCHANGED <<rec, backup, file>> /\ rec # None /\ pc' = "undo"
  BY DEF Compensate, durable, BaseInv, TypeInv, PlaceInv
<1>2. mem'.b = None
  BY DEF Compensate, Fresh
<1> QED BY <1>1, <1>2, ProxyFacts, ForgottenProxy

LEMMA ExitProxy == ASSUME BaseInv, ProxyInv, Exit, UNCHANGED <<rec, backup, file>> PROVE ProxyInv'
<1>1. CASE rec = None
  BY <1>1, NoRecordProxy
<1>2. CASE rec # None
  <2>1. pc' = "idle" /\ mem'.b = None
    BY DEF Exit, Fresh
  <2> QED BY <1>2, <2>1, ProxyFacts, ForgottenProxy
<1> QED BY <1>1, <1>2

\* A kill inside an exchange hides addresses or leaves one that is named.
LEMMA KillInsideProxy == ASSUME BaseInv, ProxyInv, KillInside PROVE ProxyInv'
<1>1. UNCHANGED <<rec, backup>> /\ rec # None /\ pc' = "idle" /\ mem'.b = None
  BY KillInsideFacts DEF BaseInv, durable, Exit, Fresh
<1>2. PICK u \in Users :
        /\ \A w \in Users, j \in Keys : w # u => file'[w][j] = file[w][j]
        /\ \/ \A j \in Keys : file'[u][j] \in {file[u][j], <<>>}
           \/ pc = "apply" /\ u = Owner /\ file' = [file EXCEPT ![Owner][mem.k] = <<Proxy>>]
           \/ pc = "step" /\ u = B.user /\ file' = After
  BY KillInsideFacts DEF BaseInv
<1>3. CASE \A j \in Keys : file'[u][j] \in {file[u][j], <<>>}
  <2>1. Prox(<<>>) = {}
    BY ProxValues
  <2>2. \A w \in Users, j \in Keys : Prox(file'[w][j]) \subseteq Prox(file[w][j])
    BY <1>2, <1>3, <2>1
  <2>3. backup \in Backups \cup {None} /\ Within(file, backup) /\ Clean(file, backup)
    BY <1>1, ProxyFacts
  <2>4. Within(file', backup) /\ Clean(file', backup)
    BY <2>2, <2>3, Fewer
  <2> QED BY <1>1, <2>4, ForgottenProxy
<1>4. CASE pc = "apply" /\ file' = [file EXCEPT ![Owner][mem.k] = <<Proxy>>]
  BY <1>1, <1>4, ApplyWritten, ForgottenProxy
<1>5. CASE pc = "step" /\ file' = After
  BY <1>1, <1>5, StepWritten, ForgottenProxy
<1> QED BY <1>2, <1>3, <1>4, <1>5

LEMMA UndoProxy == ASSUME BaseInv, ProxyInv, Undo PROVE ProxyInv'
<1>1. /\ UNCHANGED <<rec, backup, file>> /\ rec # None /\ mem \in Memory
  BY UndoCases, SubjectFacts DEF durable, BaseInv
<1>2. /\ Within(file, backup) /\ Clean(file, backup) /\ Clean(file, mem.b) /\ \A f : Clean(f, None)
  BY <1>1, ProxyFacts, CleanBefore
<1>3. /\ mem'.b \in {None, backup, mem.b}
      /\ \/ pc' \in {"current", "refused"}
         \/ pc' = "look" /\ mem'.loop \in {"inverse", "finish"}
  BY <1>1, UndoCases DEF Goto, Memory
<1>4. ProxyPlace'
  BY <1>3 DEF ProxyPlace, InLoopOf, InLoop
<1> QED BY <1>1, <1>2, <1>3, <1>4, ProxyStep

\* What the keys of the user held: no address, unless he had the ownership.
LEMMA ValuesProxy ==
  ASSUME BaseInv, ProxyInv, pc \in {"undo", "current", "settle"}, mem.i > 0
  PROVE  \A k \in Keys : Prox(Values[k]) \subseteq HeldBy(rec.before, Subject)
BY SubjectFacts, ProxyFacts DEF BaseInv, Within, Values

\* Nobody else has any of them left.
LEMMA OthersProxy ==
  ASSUME BaseInv, ProxyInv, pc \in {"current", "settle"}, mem.b # None \/ ~mem.other \/ Had(rec, Subject)
  PROVE  \A u \in Users, k \in Keys : u # Subject => Prox(file[u][k]) = {}
<1>1. mem.i > 0 /\ rec # None /\ UndoOwn
  BY DEF BaseInv, TypeInv, PlaceInv, OwnInv, PlaceOwn
<1>2. Within(file, backup)
  BY <1>1, ProxyFacts
<1>3. backup = None \/ backup.user = Subject
  <2>1. CASE mem.b # None
    <3>1. Like(backup, mem.b) /\ mem.b.user = Subject /\ mem.b \in Backups
      BY <1>1, <2>1 DEF UndoOwn, BaseInv, TypeInv, PlaceInv, Sound
    <3> QED BY <3>1 DEF Like, Backups
  <2>2. CASE mem.b = None /\ ~mem.other
    BY <1>1, <2>2 DEF UndoOwn
  <2>3. CASE Had(rec, Subject)
    <3>1. /\ Fit(rec, backup) /\ mem.i = 1 /\ Recording(store, rec)
          /\ mem.i < Len(rec.users) => backup = None \/ Had(rec, backup.user)
      BY <1>1, <2>3, AtUser DEF BaseInv, OwnInv
    <3>2. ASSUME backup # None, backup.user # Subject PROVE FALSE
      <4>1. ~Had(rec, backup.user) /\ Gets(rec, backup.user)
        BY <2>3, <3>1, <3>2 DEF Fit, Had
      <4>2. rec.users = <<rec.before.user, rec.cand.user>>
        BY <2>3, <3>1, <3>2, <4>1 DEF Recording, Had, Gets
      <4> QED BY <3>1, <3>2, <4>1, <4>2
    <3> QED BY <3>2
  <2> QED BY <1>1, <2>1, <2>2, <2>3 
<1> QED BY <1>2, <1>3 DEF Within, HeldBy

LEMMA CurrentProxy == ASSUME BaseInv, ProxyInv, Current PROVE ProxyInv'
<1>1. /\ pc = "current" /\ UNCHANGED <<rec, file>> /\ rec # None /\ mem \in Memory /\ mem.i > 0
      /\ Subject \in Users
  BY CurrentCases, SubjectFacts DEF BaseInv, TypeInv, PlaceInv
<1>2. /\ Within(file, backup) /\ Clean(file, backup) /\ Clean(file, mem.b) /\ \A f : Clean(f, None)
      /\ OrigClean(rec.before)
  BY <1>1, ProxyFacts, CleanBefore
<1>4. CASE UNCHANGED backup /\ (Goto("stopped") \/ Goto("refused"))
  <2>1. mem' = mem /\ pc' \in {"stopped", "refused"}
    BY <1>4 DEF Goto
  <2>2. ProxyPlace'
    BY <2>1 DEF ProxyPlace, InLoopOf, InLoop
  <2> QED BY <1>1, <1>2, <1>4, <2>1, <2>2, ProxyStep
<1>5. CASE file[Subject] = Values /\ Goto("settle") /\ UNCHANGED backup
  <2>1. mem' = mem /\ pc' = "settle" /\ Subject' = Subject /\ Values' = Values
    BY <1>1, <1>5 DEF Goto, Subject, Values
  <2>2. ProxyPlace'
    BY <1>1, <1>5, <2>1 DEF ProxyPlace, InLoopOf, InLoop
  <2> QED BY <1>1, <1>2, <1>5, <2>1, <2>2, ProxyStep
<1>6. CASE ~mem.other /\ backup' \in {backup, UndoBackup} /\ mem'.i = mem.i /\ mem'.b \in {UndoBackup, mem.b}
           /\ (pc' = "stopped" \/ (pc' = "look" /\ mem'.loop = "restore" /\ mem'.b = UndoBackup))
  <2>1. /\ UndoBackup \in Backups /\ UndoBackup # None /\ Basis \in Backups
        /\ UndoBackup.user = Basis.user /\ UndoBackup.orig = Basis.orig
        /\ UndoBackup.plans = Basis.plans /\ UndoBackup.managed = Basis.managed \cup {Proxy}
        /\ UndoBackup.rb # None /\ UndoBackup.rb.vals = Values
        /\ UndoBackup.rb.plans = [k \in Keys |-> InversePlan(k, file[Subject][k])]
    BY <1>1, UndoBackupFacts DEF BaseInv
  <2>2. \A k \in Keys : LET p == InversePlan(k, file[Subject][k])
                        IN /\ p \in RestorePlans /\ p # None /\ p.desired = Values[k]
                           /\ Finished(k, p) => file[Subject][k] = Values[k]
    BY <1>1, InversePlanFacts, Constants DEF BaseInv
  <2>3. ASSUME mem.b # None
        PROVE  /\ Basis.user = Subject /\ ~RestoreStarted(Basis) /\ OrigClean(Basis)
               /\ \A k \in Keys : Prox(Values[k]) \subseteq Basis.managed
               /\ backup # None /\ backup.user = Subject /\ backup.managed = Basis.managed
    <3>1. /\ mem.b.user = Subject /\ ~RestoreStarted(mem.b) /\ Like(backup, mem.b)
          /\ Fit(rec, mem.b) /\ mem.b \in Backups
      BY <1>1, <2>3 DEF BaseInv, OwnInv, PlaceOwn, UndoOwn, TypeInv, PlaceInv, Sound
    <3>2. \A k \in Keys : Prox(Values[k]) \subseteq HeldBy(rec.before, Subject)
      BY <1>1, ValuesProxy
    <3>3. \A k \in Keys : Prox(Values[k]) \subseteq mem.b.managed
      BY <2>3, <3>1, <3>2 DEF Fit, Had, HeldBy
    <3>4. backup # None /\ backup.user = Subject /\ backup.managed = mem.b.managed
      BY <3>1 DEF Like, Backups
    <3> QED BY <1>2, <2>3, <3>1, <3>3, <3>4 DEF Basis, Clean
  <2>4. ASSUME mem.b = None
        PROVE  /\ Basis.user = Subject /\ ~RestoreStarted(Basis) /\ OrigClean(Basis)
               /\ \A k \in Keys : Prox(Values[k]) \subseteq Basis.managed
               /\ backup = None
    <3>1. backup = None
      BY <1>1, <1>6, <2>4 DEF BaseInv, OwnInv, PlaceOwn, UndoOwn
    <3>2. \A k \in Keys : Prox(Values[k]) \subseteq HeldBy(rec.before, Subject)
      BY <1>1, ValuesProxy
    <3>3. Basis = Original /\ Values \in [Keys -> Lists] /\ Original.user = Subject
      BY <1>1, <2>4, SubjectFacts DEF Basis, BaseInv
    <3>4. CASE Had(rec, Subject)
      <4>1. Original = rec.before
        BY <3>4 DEF Original, Had
      <4>2. ~RestoreStarted(rec.before) /\ \A k \in Keys : Prox(Values[k]) \subseteq rec.before.managed
        BY <1>1, <3>2, <3>4 DEF Had, HeldBy, BaseInv, OwnInv, Recording
      <4> QED BY <1>2, <3>1, <3>3, <4>1, <4>2
    <3>5. CASE ~Had(rec, Subject)
      <4>1. Original = Backup(Subject, Values, {})
        BY <3>5 DEF Original, Had
      <4>2. Original.orig = Values /\ ~RestoreStarted(Original)
        BY <1>1, <3>3, <4>1, NewBackup
      <4>3. \A k \in Keys : Prox(Values[k]) = {}
        BY <3>2, <3>5 DEF HeldBy, Had
      <4> QED BY <3>1, <3>3, <4>2, <4>3 DEF OrigClean
    <3> QED BY <3>4, <3>5
  <2>5. /\ Basis.user = Subject /\ ~RestoreStarted(Basis) /\ OrigClean(Basis) /\ Basis # None
        /\ \A k \in Keys : Prox(Values[k]) \subseteq Basis.managed
        /\ backup # None => backup.user = Subject /\ backup.managed = Basis.managed
    BY <2>1, <2>3, <2>4, Constants
  <2>6. Within(file, UndoBackup)
    BY <1>2, <2>1, <2>5 DEF Within, HeldBy
  <2>7. OrigClean(UndoBackup)
    BY <2>1, <2>5 DEF OrigClean
  <2>8. PlansClean(file, UndoBackup)
    BY <2>1, <2>5, NoPlansFacts DEF PlansClean, RestoreStarted
  <2>9. BackClean(UndoBackup)
    BY <2>1, <2>2, <2>5 DEF BackClean
  <2>10. Clean(file, UndoBackup)
    BY <2>7, <2>8, <2>9 DEF Clean
  <2>11. \A k \in Keys : /\ PlanIn(UndoBackup, k) # None /\ PlanIn(UndoBackup, k).desired = Values[k]
                         /\ Finished(k, PlanIn(UndoBackup, k)) => file[Subject][k] = Values[k]
    BY <2>1, <2>2 DEF PlanIn
  <2>12. Subject' = Subject /\ Values' = Values
    BY <1>1, <1>6 DEF Subject, Values
  <2>13. ProxyPlace'
    <3>1. CASE pc' = "stopped"
      BY <3>1 DEF ProxyPlace, InLoopOf, InLoop
    <3>2. CASE pc' = "look" /\ mem'.loop = "restore" /\ mem'.b = UndoBackup
      <4>1. B' = UndoBackup
        BY <3>2 DEF B
      <4> QED BY <1>1, <2>1, <2>5, <2>11, <2>12, <3>2, <4>1 DEF ProxyPlace, InLoopOf, InLoop
    <3> QED BY <1>6, <3>1, <3>2
  <2> QED BY <1>1, <1>2, <1>6, <2>6, <2>10, <2>13, ProxyStep
<1>7. \/ UNCHANGED backup /\ (Goto("stopped") \/ Goto("refused"))
      \/ file[Subject] = Values /\ Goto("settle") /\ UNCHANGED backup
      \/ /\ ~mem.other /\ backup' \in {backup, UndoBackup} /\ mem'.i = mem.i /\ mem'.b \in {UndoBackup, mem.b}
         /\ (pc' = "stopped" \/ (pc' = "look" /\ mem'.loop = "restore" /\ mem'.b = UndoBackup))
  <2>1. ASSUME backup' = UndoBackup, pc' = "look",
               mem' = [mem EXCEPT !.b = UndoBackup, !.loop = "restore", !.k = 1]
        PROVE  mem'.i = mem.i /\ mem'.b = UndoBackup /\ mem'.loop = "restore"
    BY <1>1, <2>1 DEF Memory
  <2>2. Goto("stopped") => mem' = mem /\ pc' = "stopped"
    BY DEF Goto
  <2> QED BY <2>1, <2>2, CurrentCases
<1> QED BY <1>4, <1>5, <1>6, <1>7

LEMMA SettleProxy == ASSUME BaseInv, ProxyInv, Settle PROVE ProxyInv'
<1>1. /\ pc = "settle" /\ UNCHANGED <<rec, file>> /\ rec # None /\ mem \in Memory /\ mem.i > 0
      /\ Subject \in Users
  BY SettleCases, SubjectFacts DEF BaseInv, TypeInv, PlaceInv
<1>2. /\ Within(file, backup) /\ Clean(file, backup) /\ Clean(file, mem.b)
      /\ \A f : Clean(f, None) /\ Clean(f, rec.before)
      /\ \A k \in Keys : Prox(file[Subject][k]) \subseteq Prox(Values[k])
  BY <1>1, ProxyFacts, CleanBefore DEF ProxyPlace
<1>3. \A k \in Keys : Prox(file[Subject][k]) \subseteq HeldBy(rec.before, Subject)
  BY <1>1, <1>2, ValuesProxy
<1>4. ASSUME Had(rec, Subject) PROVE Within(file, rec.before)
  <2>1. \A u \in Users, k \in Keys : u # Subject => Prox(file[u][k]) = {}
    BY <1>1, <1>4, OthersProxy
  <2> QED BY <1>3, <2>1 DEF Within
<1>5. ASSUME ~Had(rec, Subject), mem.b # None PROVE Within(file, None)
  <2>1. \A u \in Users, k \in Keys : u # Subject => Prox(file[u][k]) = {}
    BY <1>1, <1>5, OthersProxy
  <2>2. HeldBy(rec.before, Subject) = {}
    BY <1>5 DEF Had, HeldBy
  <2> QED BY <1>3, <2>1, <2>2 DEF Within
<1>6. /\ mem'.b \in {None, mem.b} /\ pc' \in {"undo", "stopped"}
      /\ \/ backup' = backup
         \/ Had(rec, Subject) /\ backup' = rec.before
         \/ ~Had(rec, Subject) /\ mem.b # None /\ backup' = None
  <2>1. Down => mem'.b = None /\ pc' = "undo"
    BY <1>1, DownFacts DEF Down
  <2>2. Goto("stopped") => mem'.b = mem.b /\ pc' = "stopped"
    BY DEF Goto
  <2> QED BY <2>1, <2>2, SettleCases
<1>7. ProxyPlace'
  BY <1>6 DEF ProxyPlace, InLoopOf, InLoop
<1> QED BY <1>1, <1>2, <1>4, <1>5, <1>6, <1>7, ProxyStep

LEMMA EditProxy ==
  ASSUME BaseInv, ProxyInv, NEW u \in Users, NEW k \in Keys, NEW v \in Edits(u, k), Edit(u, k, v)
  PROVE  ProxyInv'
<1>1. /\ UNCHANGED <<rec, backup, pc, mem>> /\ file' = [file EXCEPT ![u][k] = v]
      /\ file \in [Users -> [Keys -> Lists]] /\ backup \in Backups \cup {None}
  BY DEF Edit, durable, BaseInv, TypeInv, DataInv, Sound
<1>2. Prox(v) \subseteq Prox(file[u][k])
  <2>1. v \in {<<>>, <<own>>, <<added>>, Append(file[u][k], added)} /\ file[u][k] \in Lists
    BY <1>1 DEF Edits
  <2> QED BY <2>1, ProxValues
<1>3. \A w \in Users, j \in Keys : Prox(file'[w][j]) \subseteq Prox(file[w][j])
  BY <1>1, <1>2
<1>4. Within(file', backup) /\ OrigClean(backup)
  BY <1>1, <1>3, Fewer DEF ProxyInv
<1>5. CASE rec = None
  BY <1>1, <1>4, <1>5 DEF ProxyInv
<1>6. CASE rec # None
  <2>1. /\ Clean(file, backup) /\ Clean(file, mem.b) /\ ProxyPlace /\ mem.b \in Backups \cup {None}
        /\ rec.before \in Backups \cup {None}
    BY <1>6, ProxyFacts, CleanBefore
  <2>2. Clean(file', backup) /\ Clean(file', mem.b) /\ (Within(file, rec.before) => Within(file', rec.before))
    BY <1>1, <1>3, <2>1, Fewer
  <2>3. pc = "settle" => Subject \in Users
    BY SubjectFacts DEF BaseInv, TypeInv, PlaceInv
  <2>4. InLoop => B.user \in Users
    BY LoopTypes DEF BaseInv
  <2>5. Subject' = Subject /\ Values' = Values /\ B' = B /\ InLoop' = InLoop
    BY <1>1 DEF Subject, Values, B, InLoop
  <2>6. ProxyPlace'
    BY <1>1, <1>3, <2>1, <2>2, <2>3, <2>4, <2>5 DEF ProxyPlace, InLoopOf
  <2> QED BY <1>1, <1>4, <1>6, <2>2, <2>6, ProxyStep
<1> QED BY <1>5, <1>6

LEMMA SameProxy ==
  ASSUME ProxyInv, UNCHANGED <<rec, backup, file, pc, mem>>
  PROVE  ProxyInv'
BY DEF ProxyInv, ProxyPlace, InLoopOf, InLoop, Subject, Values, B

LEMMA ProxyNext == BaseInv /\ ProxyInv /\ [Next]_vars => ProxyInv'
<1> SUFFICES ASSUME BaseInv, ProxyInv, [Next]_vars PROVE ProxyInv'
  OBVIOUS
<1>1. ASSUME NEW cand \in Settings, Plan(cand) PROVE ProxyInv'
  BY <1>1, PlanProxy
<1>2. CASE Take \/ Reject \/ Check \/ Apply \/ Verify \/ Rollback \/ Release
  BY <1>2, TakeProxy, RejectProxy, CheckProxy, ApplyProxy, VerifyProxy, RollbackProxy, ReleaseProxy
<1>3. CASE Commit \/ Undone
  BY <1>3, NoRecordProxy DEF Commit, Undone
<1>4. CASE Look \/ Step \/ Tick \/ Restored
  BY <1>4, LookProxy, StepProxy, TickProxy, RestoredProxy
<1>5. CASE Compensate \/ Undo \/ Current \/ Settle
  BY <1>5, CompensateProxy, UndoProxy, CurrentProxy, SettleProxy
<1>6. CASE GiveUp \/ Kill \/ KillInside
  BY <1>6, ExitProxy, KillInsideProxy DEF GiveUp, Kill, durable
<1>7. ASSUME NEW u \in Users, NEW k \in Keys, NEW v \in Edits(u, k), Edit(u, k, v) PROVE ProxyInv'
  BY <1>7, EditProxy
<1>8. CASE UNCHANGED vars
  BY <1>8, SameProxy DEF vars, durable
<1> QED BY <1>1, <1>2, <1>3, <1>4, <1>5, <1>6, <1>7, <1>8 DEF Next

-----------------------------------------------------------------------------
(* Keys that nobody has edited during a command                            *)

\* What a user has chosen, from the original and what the key holds.
Given(k, o, v) == IF ContainsManaged(v, Proxies) THEN Desired(k, o, v, Proxies) ELSE v

\* Without a record.
AtRest(u, k) ==
  IF store.on /\ u = store.user
  THEN /\ mine[u][k] = Given(k, backup.orig[k], file[u][k])
       /\ <<u, k>> \in hand \/ file[u][k] = <<store.proxy>>
  ELSE mine[u][k] = file[u][k]

\* What was recorded.
AtPlan(u, k) ==
  /\ IF Had(rec, u)
     THEN /\ mine[u][k] = Given(k, rec.before.orig[k], rec.vals[u][k])
          /\ <<u, k>> \in hand \/ rec.vals[u][k] = <<store.proxy>>
     ELSE mine[u][k] = rec.vals[u][k]
  /\ ~Had(rec, u) /\ ~Gets(rec, u) => file[u][k] = rec.vals[u][k]

RelInv ==
  /\ rec = None => \A u \in Users, k \in Keys : ~Raced(u, k) => AtRest(u, k)
  /\ rec # None => rec.cand # store /\ \A u \in Users, k \in Keys : ~Raced(u, k) => AtPlan(u, k)

\* A release on its way, as long as nothing has failed.
Releasing(u, k) ==
  IF u # B.user THEN file[u][k] = mine[u][k]
  ELSE mem.errs = "none" =>
         /\ k \in Below => file[u][k] = mine[u][k]
         /\ k \notin Below /\ (k > mem.k \/ pc = "look") =>
              B.plans[k] = None /\ file[u][k] = rec.vals[u][k]
         /\ k = mem.k /\ pc \in {"step", "tick"} => B.plans[k].desired = mine[u][k]

\* A command on its way.
Forward(u, k) ==
  /\ pc \in {"take", "check", "release"} =>
       file[u][k] = IF backup # None /\ backup.user = u THEN rec.vals[u][k] ELSE mine[u][k]
  /\ pc = "check" /\ Gets(rec, u) /\ ~Had(rec, u) => backup.orig[k] = mine[u][k]
  /\ pc \in {"apply", "verify"} \/ (pc = "applied" /\ rec.cand.on) =>
       IF Gets(rec, u)
       THEN /\ backup.orig[k] = mine[u][k]
            /\ pc = "applied" \/ k < mem.k => file[u][k] = <<Proxy>>
       ELSE file[u][k] = mine[u][k]
  /\ pc = "applied" /\ ~rec.cand.on => file[u][k] = mine[u][k]
  /\ InLoopOf({"handover", "release"}) => Releasing(u, k)

ForwardInv == rec # None => \A u \in Users, k \in Keys : ~Raced(u, k) => Forward(u, k)

\* A compensation has put back what was recorded, of the users it is done with,
BackValues ==
  Undoing => \A j \in 1..Len(rec.users), k \in Keys :
    (j > mem.i \/ (j = mem.i /\ pc = "settle")) /\ ~Raced(rec.users[j], k) =>
      file[rec.users[j]][k] = rec.vals[rec.users[j]][k]
\* of the keys whose plans are done,
BackPlans ==
  InLoopOf({"restore"}) => \A k \in Keys :
    Finished(k, PlanIn(B, k)) /\ ~Raced(B.user, k) => file[B.user][k] = Values[k]
\* and the ownership, but for plans of keys that had been edited before.
BackOwner ==
  /\ pc = "settle" /\ mem.b # None /\ backup # mem.b => \A k \in Keys : Edited(Subject, k)
  /\ pc = "undo" /\ mem.i = 0 =>
       backup = rec.before \/ (rec.before # None /\ \A k \in Keys : Edited(rec.before.user, k))

BackInv == rec # None => BackValues /\ BackPlans /\ BackOwner

StuckInv == rec = None /\ backup # None /\ RestoreStarted(backup) =>
  \A k \in Keys : <<backup.user, k>> \in hand \/ Raced(backup.user, k)

QuietInv == RelInv /\ ForwardInv /\ BackInv /\ StuckInv

LEMMA GivenClean ==
  ASSUME NEW k \in Keys, NEW o \in Lists, NEW v \in Lists, Prox(v) = {}
  PROVE  Given(k, o, v) = v
BY Contained DEF Given

LEMMA GivenSingle ==
  ASSUME NEW k \in Keys, NEW o \in Lists, NEW p \in Proxies
  PROVE  Given(k, o, <<p>>) = o
<1> DEFINE S == Proxies \cup {own, added}
           nil == <<>>
           one == <<p>>
<1>1. nil \in Seq(S) /\ p \in S /\ \A i \in 1..Len(nil) : nil[i] \notin Proxies
  OBVIOUS
<1>10. one = Append(nil, p)
  OBVIOUS
<1>2. one \in Lists /\ Prox(one) = {p}
  BY ListTypes, ProxValues
<1>3. o \o nil = o
  BY DEF Lists
<1> HIDE DEF nil, one, S
<1>4. Unmanaged(nil, Proxies) = nil
  BY <1>1, UnmanagedAll
<1>5. Unmanaged(one, Proxies) = nil
  BY <1>1, <1>4, <1>10, UnmanagedAppend
<1>6. ContainsManaged(one, Proxies)
  BY <1>2, Contained
<1> QED BY <1>3, <1>5, <1>6 DEF Given, Desired, DesiredGit, one

\* A value that is added to a managed one.
LEMMA GivenAppend ==
  ASSUME NEW k \in Keys, NEW o \in Lists, NEW v \in Lists, Expressible(k, Append(v, added)),
         ContainsManaged(Append(v, added), Proxies)
  PROVE  Given(k, o, Append(v, added)) = Append(Given(k, o, v), added)
<1> DEFINE S == Proxies \cup {own, added}
           w == Append(v, added)
           r == Unmanaged(v, Proxies)
<1>1. v \in Seq(S) /\ o \in Seq(S) /\ added \in S /\ added \notin Proxies /\ w \in Lists
  BY Constants, ListTypes DEF Lists
<1>2. Prox(w) = Prox(v)
  BY ProxValues
<1>3. ContainsManaged(v, Proxies)
  BY <1>1, <1>2, Contained
<1>4. Len(v) > 0
  BY <1>1, <1>3 DEF ContainsManaged
<1>5. Len(w) = Len(v) + 1
  BY <1>1
<1>6. k \in Git
  BY <1>1, <1>4, <1>5 DEF Expressible
<1>7. Unmanaged(w, Proxies) = Append(r, added)
  BY <1>1, UnmanagedAppend
<1>8. r \in Seq(S)
  BY <1>1, UnmanagedType
<1> HIDE DEF r
<1>9. o \o Append(r, added) = Append(o \o r, added)
  BY <1>1, <1>8
<1> QED BY <1>3, <1>6, <1>7, <1>9 DEF Given, Desired, DesiredGit, r

\* It does not matter whether other addresses are known.
LEMMA DesiredManaged ==
  ASSUME NEW k \in Keys, NEW o \in Lists, NEW v \in Lists, NEW m \in SUBSET Proxies, Prox(v) \subseteq m
  PROVE  /\ Desired(k, o, v, m) = Desired(k, o, v, Proxies)
         /\ ContainsManaged(v, m) <=> ContainsManaged(v, Proxies)
<1>1. v \in Seq(Proxies \cup {own, added}) /\ DOMAIN v = 1..Len(v)
  BY DEF Lists
<1>2. \A i \in 1..Len(v) : v[i] \in m <=> v[i] \in Proxies
  BY <1>1 DEF Prox, Range
<1>3. Unmanaged(v, m) = Unmanaged(v, Proxies)
  BY <1>1, <1>2, UnmanagedAgrees
<1>4. ContainsManaged(v, m) <=> ContainsManaged(v, Proxies)
  BY <1>1, <1>2 DEF ContainsManaged
<1> QED BY <1>3, <1>4 DEF Desired, DesiredGit

\* What a command knows its values by.
LEMMA GivenKnown ==
  ASSUME NEW k \in Keys, NEW o \in Lists, NEW v \in Lists, NEW m \in SUBSET Proxies, Prox(o) = {},
         ValueKnown(v, o, m)
  PROVE  Given(k, o, v) = o
<1>1. CASE v = o
  BY <1>1, GivenClean
<1>2. CASE Len(v) = 1 /\ v[1] \in m
  <2>1. v = <<v[1]>>
    BY <1>2 DEF Lists
  <2> DEFINE p == v[1]
  <2>2. p \in Proxies /\ v = <<p>>
    BY <1>2, <2>1
  <2> HIDE DEF p
  <2> QED BY <2>2, GivenSingle
<1> QED BY <1>1, <1>2 DEF ValueKnown

\* A step that keeps the record and what the users have chosen.
LEMMA RelStep ==
  ASSUME RelInv, rec # None, rec' = rec, store' = store, UNCHANGED user,
         \A u \in Users, k \in Keys : ~Had(rec, u) /\ ~Gets(rec, u) => file'[u][k] = file[u][k]
  PROVE  RelInv'
<1>1. \A u \in Users, k \in Keys : Raced(u, k)' = Raced(u, k) /\ (~Raced(u, k) => AtPlan(u, k))
  BY DEF RelInv, user, Raced
<1>2. \A u \in Users, k \in Keys : AtPlan(u, k) => AtPlan(u, k)'
  BY DEF AtPlan, user
<1> QED BY <1>1, <1>2 DEF RelInv

\* Such a step, to a place at which nothing more is known.
LEMMA LostStep ==
  ASSUME QuietInv, rec # None, rec' = rec, store' = store, UNCHANGED user,
         \A u \in Users, k \in Keys : ~Had(rec, u) /\ ~Gets(rec, u) => file'[u][k] = file[u][k],
         pc' \in {"idle", "failed", "reject", "rollback", "refused", "stopped"}
           \/ (pc' \in {"look", "step", "tick", "restored"} /\ mem'.loop = "rollback")
  PROVE  QuietInv'
<1>1. RelInv'
  BY RelStep DEF QuietInv
<1>2. ForwardInv'
  BY DEF ForwardInv, Forward, InLoopOf, InLoop
<1>3. BackInv'
  BY DEF BackInv, BackValues, BackPlans, BackOwner, Undoing, InUndo, InLoopOf, InLoop
<1> QED BY <1>1, <1>2, <1>3 DEF QuietInv, StuckInv

\* A step of the command itself.
LEMMA ForwardStep ==
  ASSUME QuietInv, rec # None, rec' = rec, store' = store, UNCHANGED user,
         \A u \in Users, k \in Keys : ~Had(rec, u) /\ ~Gets(rec, u) => file'[u][k] = file[u][k],
         pc' \in {"take", "check", "apply", "verify", "applied", "release"}
           \/ (pc' \in {"look", "step", "tick", "restored"} /\ mem'.loop \in {"handover", "release"}),
         \A u \in Users, k \in Keys : ~Raced(u, k) => Forward(u, k)'
  PROVE  QuietInv'
<1>1. RelInv'
  BY RelStep DEF QuietInv
<1>2. \A u \in Users, k \in Keys : Raced(u, k)' = Raced(u, k)
  BY DEF user, Raced
<1>3. ForwardInv'
  BY <1>2 DEF ForwardInv
<1>4. BackInv'
  BY DEF BackInv, BackValues, BackPlans, BackOwner, Undoing, InUndo, InLoopOf, InLoop
<1> QED BY <1>1, <1>3, <1>4 DEF QuietInv, StuckInv

\* A step of a compensation.
LEMMA BackStep ==
  ASSUME QuietInv, rec # None, rec' = rec, store' = store, UNCHANGED user,
         \A u \in Users, k \in Keys : ~Had(rec, u) /\ ~Gets(rec, u) => file'[u][k] = file[u][k],
         pc' \in {"undo", "current", "settle"}
           \/ (pc' \in {"look", "step", "tick", "restored"} /\ mem'.loop \in {"inverse", "restore", "finish"}),
         BackValues', BackPlans', BackOwner'
  PROVE  QuietInv'
<1>1. RelInv'
  BY RelStep DEF QuietInv
<1>2. ForwardInv'
  BY DEF ForwardInv, Forward, InLoopOf, InLoop
<1> QED BY <1>1, <1>2 DEF QuietInv, StuckInv, BackInv

\* Everything that is known.
FullInv == BaseInv /\ ProxyInv /\ QuietInv

LEMMA InitQuiet == Init => QuietInv
<1> SUFFICES ASSUME Init PROVE QuietInv
  OBVIOUS
<1>1. rec = None /\ ~store.on /\ mine = file /\ backup = None
  BY DEF Init
<1> QED BY <1>1 DEF QuietInv, RelInv, AtRest, ForwardInv, BackInv, StuckInv

LEMMA PlanQuiet == ASSUME FullInv, NEW cand \in Settings, Plan(cand) PROVE QuietInv'
<1>1. /\ rec = None /\ UNCHANGED <<store, backup, file, mine, hand, race>> /\ cand # store
  BY DEF Plan, user
<1>2. /\ rec' # None /\ rec'.before = backup /\ rec'.vals = file /\ rec'.cand = cand
      /\ pc' \in {"take", "release"}
  BY PlanOn, PlanFacts DEF FullInv, BaseInv
<1>3. \A u : Had(rec', u) <=> store.on /\ u = store.user
  BY <1>1, <1>2 DEF Had, FullInv, BaseInv, OwnInv, RestInv
<1>4. \A u \in Users, k \in Keys : Raced(u, k)' = Raced(u, k) /\ (~Raced(u, k) => AtRest(u, k))
  BY <1>1 DEF FullInv, QuietInv, RelInv, Raced
<1>5. ASSUME NEW u \in Users, NEW k \in Keys, AtRest(u, k) PROVE AtPlan(u, k)' /\ Forward(u, k)'
  <2>1. AtPlan(u, k)'
    BY <1>1, <1>2, <1>3, <1>5 DEF AtRest, AtPlan
  <2>2. file[u][k] = IF backup # None /\ backup.user = u THEN file[u][k] ELSE mine[u][k]
    BY <1>1, <1>5 DEF AtRest, FullInv, BaseInv, OwnInv, RestInv
  <2>3. Forward(u, k)'
    BY <1>1, <1>2, <2>2 DEF Forward, InLoopOf, InLoop
  <2> QED BY <2>1, <2>3
<1>6. RelInv' /\ ForwardInv'
  BY <1>1, <1>2, <1>4, <1>5 DEF RelInv, ForwardInv
<1>7. BackInv'
  BY <1>2 DEF BackInv, BackValues, BackPlans, BackOwner, Undoing, InUndo, InLoopOf, InLoop
<1> QED BY <1>2, <1>6, <1>7 DEF QuietInv, StuckInv

\* What is known of an unraced key while there is a record.
LEMMA QuietFacts ==
  ASSUME FullInv, rec # None
  PROVE  /\ BaseInv /\ ProxyInv /\ QuietInv
         /\ \A u \in Users, k \in Keys : ~Raced(u, k) => AtPlan(u, k) /\ Forward(u, k)
BY DEF FullInv, QuietInv, RelInv, ForwardInv

LEMMA TakeQuiet == ASSUME FullInv, Take PROVE QuietInv'
<1>1. /\ pc = "take" /\ UNCHANGED <<store, rec, file, user>> /\ rec # None /\ mem \in Memory
      /\ Owner \in Users /\ mem.errs = "none" /\ file[Owner] \in [Keys -> Lists] /\ Proxy \in Proxies
      /\ backup \in Backups \cup {None} /\ Sound(backup)
  BY TakeCases, ApplyingFacts DEF Applying, FullInv, BaseInv
<1>2. /\ rec.cand.on /\ Owner = rec.cand.user
      /\ backup = rec.before \/ (backup = None /\ ~Had(rec, Owner))
      /\ backup # None => backup.rb = None /\ ~RestoreStarted(backup) /\ Had(rec, backup.user)
      /\ backup # None => TakeKeep.user = backup.user /\ TakeKeep # None
  BY <1>1, TakeFit DEF FullInv, BaseInv
<1>3. QuietInv /\ \A u \in Users, k \in Keys : ~Raced(u, k) => AtPlan(u, k) /\ Forward(u, k)
  BY <1>1, QuietFacts
<1>4. ASSUME NEW u \in Users, NEW k \in Keys, ~Raced(u, k)
      PROVE  file[u][k] = IF backup # None /\ backup.user = u THEN rec.vals[u][k] ELSE mine[u][k]
  BY <1>1, <1>3, <1>4 DEF Forward
<1>5. CASE Goto("reject")
  BY <1>1, <1>3, <1>5, LostStep DEF Goto
<1>6. CASE backup = None /\ backup' = TakeNew /\ Goto("check")
  <2>1. TakeNew # None /\ TakeNew.user = Owner /\ TakeNew.orig = file[Owner]
    BY <1>1, NewBackup DEF TakeNew
  <2>2. ~Had(rec, Owner)
    BY <1>2, <1>6 DEF Had
  <2>3. ASSUME NEW u \in Users, NEW k \in Keys, ~Raced(u, k) PROVE Forward(u, k)'
    <3>1. file[u][k] = mine[u][k] /\ (u = Owner => mine[u][k] = rec.vals[u][k])
      BY <1>3, <1>4, <1>6, <2>2, <2>3 DEF AtPlan
    <3>2. Gets(rec, u) => u = Owner
      BY <1>2 DEF Gets
    <3> QED BY <1>1, <1>6, <2>1, <3>1, <3>2 DEF Forward, Goto, InLoopOf, InLoop, user
  <2> QED BY <1>1, <1>3, <1>6, <2>3, ForwardStep DEF Goto
<1>7. CASE backup # None /\ backup.user = Owner /\ backup' = TakeKeep /\ Goto("check")
  <2>1. Had(rec, Owner)
    BY <1>2, <1>7
  <2>2. ASSUME NEW u \in Users, NEW k \in Keys, ~Raced(u, k) PROVE Forward(u, k)'
    <3>1. file[u][k] = IF u = Owner THEN rec.vals[u][k] ELSE mine[u][k]
      BY <1>4, <1>7, <2>2
    <3>2. Gets(rec, u) => u = Owner
      BY <1>2 DEF Gets
    <3> QED BY <1>1, <1>2, <1>7, <2>1, <3>1, <3>2 DEF Forward, Goto, InLoopOf, InLoop, user
  <2> QED BY <1>1, <1>3, <1>7, <2>2, ForwardStep DEF Goto
<1>8. CASE /\ backup # None /\ backup.user # Owner /\ UNCHANGED backup
           /\ pc' = "look" /\ mem' = [mem EXCEPT !.loop = "handover", !.b = backup, !.k = 1]
  <2>1. mem'.loop = "handover" /\ mem'.b = backup /\ mem'.k = 1 /\ mem'.errs = "none"
    BY <1>1, <1>8 DEF Memory
  <2>2. \A k \in Keys : backup.plans[k] = None
    BY <1>2, <1>8, NoPlansFacts DEF RestoreStarted
  <2>3. ASSUME NEW u \in Users, NEW k \in Keys, ~Raced(u, k) PROVE Forward(u, k)'
    <3>1. file[u][k] = IF backup.user = u THEN rec.vals[u][k] ELSE mine[u][k]
      BY <1>4, <1>8, <2>3
    <3>2. k \notin Below'
      BY <1>8, <2>1, Constants DEF Below
    <3>3. Releasing(u, k)'
      BY <1>1, <1>8, <2>1, <2>2, <3>1, <3>2 DEF Releasing, B, user
    <3> QED BY <1>8, <3>3 DEF Forward
  <2> QED BY <1>1, <1>3, <1>8, <2>1, <2>3, ForwardStep
<1> QED BY <1>5, <1>6, <1>7, <1>8, TakeCases

LEMMA RejectQuiet == ASSUME FullInv, Reject PROVE QuietInv'
<1>1. /\ UNCHANGED <<store, rec, file, user>> /\ rec # None /\ pc' = "failed"
  BY RejectCases, ApplyingFacts DEF Applying, FullInv, BaseInv, Goto
<1> QED BY <1>1, QuietFacts, LostStep

LEMMA CheckQuiet == ASSUME FullInv, Check PROVE QuietInv'
<1>1. /\ pc = "check" /\ UNCHANGED <<store, rec, backup, file, user>> /\ rec # None /\ mem \in Memory
      /\ Owner \in Users /\ mem.prior = rec.before /\ backup \in Backups /\ rec.cand.on
      /\ Owner = rec.cand.user /\ file[Owner] \in [Keys -> Lists]
  BY CheckCases, ApplyingFacts DEF Applying, FullInv, BaseInv, durable, Owner
<1>2. backup # None /\ backup.user = Owner /\ Fit(rec, backup)
  BY <1>1 DEF FullInv, BaseInv, OwnInv, PlaceOwn
<1>3. QuietInv /\ \A u \in Users, k \in Keys : ~Raced(u, k) => AtPlan(u, k) /\ Forward(u, k)
  BY <1>1, QuietFacts
<1>4. CASE Goto("reject")
  BY <1>1, <1>3, <1>4, LostStep DEF Goto
<1>5. CASE /\ pc' = "apply" /\ mem' = [mem EXCEPT !.k = 1, !.snap = file[Owner]]
           /\ mem.prior # None => \A k \in Keys : ValueKnown(file[Owner][k], backup.orig[k], backup.managed)
  <2>1. mem'.k = 1
    BY <1>1, <1>5 DEF Memory
  <2>2. \A k \in Keys : Prox(backup.orig[k]) = {} /\ backup.orig[k] \in Lists /\ backup.managed \in SUBSET Proxies
    BY <1>1, <1>2 DEF FullInv, ProxyInv, OrigClean, Backups
  <2>3. ASSUME NEW u \in Users, NEW k \in Keys, ~Raced(u, k) PROVE Forward(u, k)'
    <3>1. file[u][k] = IF u = Owner THEN rec.vals[u][k] ELSE mine[u][k]
      BY <1>1, <1>2, <1>3, <2>3 DEF Forward
    <3>2. ASSUME Gets(rec, u) PROVE backup.orig[k] = mine[u][k]
      <4>1. u = Owner
        BY <1>1, <3>2 DEF Gets
      <4>2. CASE ~Had(rec, u)
        BY <1>1, <1>3, <2>3, <3>2, <4>2 DEF Forward
      <4>3. CASE Had(rec, u)
        <5>1. mine[u][k] = Given(k, backup.orig[k], file[u][k])
          <6>1. backup.orig = rec.before.orig
            BY <1>2, <4>1, <4>3 DEF Fit
          <6>2. mine[u][k] = Given(k, rec.before.orig[k], rec.vals[u][k])
            BY <1>3, <2>3, <4>3 DEF AtPlan
          <6> QED BY <3>1, <4>1, <6>1, <6>2
        <5>2. ValueKnown(file[u][k], backup.orig[k], backup.managed) /\ file[u][k] \in Lists
          BY <1>1, <1>5, <4>1, <4>3 DEF Had
        <5> QED BY <2>2, <5>1, <5>2, GivenKnown
      <4> QED BY <4>2, <4>3
    <3>3. ~Gets(rec, u) => u # Owner
      BY <1>1 DEF Gets
    <3>4. ~(k < 1)
      BY Constants
    <3> QED BY <1>1, <1>5, <2>1, <3>1, <3>2, <3>3, <3>4 DEF Forward, InLoopOf, InLoop, user
  <2> QED BY <1>1, <1>3, <1>5, <2>3, ForwardStep
<1> QED BY <1>4, <1>5, CheckCases

\* The next key: all up to this one have the address.
LEMMA NextKeyQuiet ==
  ASSUME FullInv, pc \in {"apply", "verify"}, NextKey, UNCHANGED <<durable, user>>,
         \A u \in Users, k \in Keys : u # Owner \/ k # mem.k => file'[u][k] = file[u][k],
         file'[Owner][mem.k] = <<Proxy>>
  PROVE  QuietInv'
<1>1. /\ rec # None /\ UNCHANGED <<store, rec, backup>> /\ rec.cand.on /\ mem.k \in Keys /\ Owner = rec.cand.user
  BY ApplyingFacts DEF FullInv, BaseInv, Applying, durable, Owner
<1>2. QuietInv /\ \A u \in Users, k \in Keys : ~Raced(u, k) => AtPlan(u, k) /\ Forward(u, k)
  BY <1>1, QuietFacts
<1>3. \/ pc' = "apply" /\ mem'.k = mem.k + 1
      \/ pc' = "applied" /\ mem.k = NK
  BY <1>1, NextKeyPlace DEF FullInv, BaseInv
<1>4. ASSUME NEW u \in Users, NEW k \in Keys, ~Raced(u, k) PROVE Forward(u, k)'
  <2>1. IF Gets(rec, u)
        THEN /\ backup.orig[k] = mine[u][k]
             /\ k < mem.k => file[u][k] = <<Proxy>>
        ELSE file[u][k] = mine[u][k]
    BY <1>2, <1>4 DEF Forward
  <2>2. pc' = "applied" \/ k < mem'.k => k < mem.k \/ k = mem.k
    BY <1>1, <1>3, Constants
  <2>3. Gets(rec, u) <=> u = Owner
    BY <1>1 DEF Gets
  <2>4. IF Gets(rec, u)
        THEN /\ backup.orig[k] = mine[u][k]
             /\ pc' = "applied" \/ k < mem'.k => file'[u][k] = <<Proxy>>
        ELSE file'[u][k] = mine[u][k]
    <3>1. CASE k = mem.k
      BY <2>1, <2>3, <3>1
    <3>2. CASE k # mem.k
      BY <2>1, <2>2, <2>3, <3>2
    <3> QED BY <3>1, <3>2
  <2>5. Proxy' = Proxy
    BY <1>1 DEF Proxy
  <2> QED BY <1>1, <1>3, <2>4, <2>5 DEF Forward, InLoopOf, InLoop, user
<1>5. \A u \in Users : ~Gets(rec, u) => u # Owner
  BY <1>1 DEF Gets
<1> QED BY <1>1, <1>2, <1>3, <1>4, <1>5, ForwardStep

LEMMA ApplyQuiet == ASSUME FullInv, Apply PROVE QuietInv'
<1>1. /\ pc = "apply" /\ UNCHANGED <<store, rec, backup, user>> /\ rec # None /\ mem.k \in Keys
      /\ rec.cand.on /\ Owner = rec.cand.user /\ Owner \in Users /\ file \in [Users -> [Keys -> Lists]]
  BY ApplyCases, ApplyingFacts DEF FullInv, BaseInv, Applying, durable, Owner, TypeInv, DataInv
<1>2. QuietInv /\ \A u \in Users, k \in Keys : ~Raced(u, k) => AtPlan(u, k) /\ Forward(u, k)
  BY <1>1, QuietFacts
<1>3. \A u \in Users, k \in Keys : u # Owner \/ k # mem.k => file'[u][k] = file[u][k]
  BY <1>1, ApplyCases DEF FullInv, BaseInv
<1>4. \A u \in Users : Gets(rec, u) <=> u = Owner
  BY <1>1 DEF Gets
<1>5. CASE pc' \in {"reject", "rollback"}
  BY <1>1, <1>2, <1>3, <1>4, <1>5, LostStep
<1>6. CASE file' = [file EXCEPT ![Owner][mem.k] = <<Proxy>>] /\ NextKey
  <2>1. file'[Owner][mem.k] = <<Proxy>>
    BY <1>1, <1>6
  <2> QED BY <1>1, <1>3, <1>6, <2>1, NextKeyQuiet DEF durable
<1>7. CASE Goto("verify")
  <2>1. ASSUME NEW u \in Users, NEW k \in Keys, ~Raced(u, k) PROVE Forward(u, k)'
    <3>1. IF Gets(rec, u)
          THEN /\ backup.orig[k] = mine[u][k]
               /\ k < mem.k => file[u][k] = <<Proxy>>
          ELSE file[u][k] = mine[u][k]
      BY <1>1, <1>2, <2>1 DEF Forward
    <3>2. k < mem.k => k # mem.k
      BY <1>1, Constants
    <3>3. IF Gets(rec, u)
          THEN /\ backup.orig[k] = mine[u][k]
               /\ k < mem.k => file'[u][k] = <<Proxy>>
          ELSE file'[u][k] = mine[u][k]
      BY <1>3, <1>4, <3>1, <3>2
    <3>4. Proxy' = Proxy
      BY <1>1 DEF Proxy
    <3> QED BY <1>1, <1>7, <3>3, <3>4 DEF Forward, Goto, InLoopOf, InLoop, user
  <2> QED BY <1>1, <1>2, <1>3, <1>4, <1>7, <2>1, ForwardStep DEF Goto
<1>8. pc' \in {"reject", "rollback"} \/ Goto("verify")
      \/ (file' = [file EXCEPT ![Owner][mem.k] = <<Proxy>>] /\ NextKey)
  BY ApplyCases DEF Failing, Goto, FullInv, BaseInv
<1> QED BY <1>5, <1>6, <1>7, <1>8

LEMMA VerifyQuiet == ASSUME FullInv, Verify PROVE QuietInv'
<1>1. /\ pc = "verify" /\ UNCHANGED <<durable, file, user>> /\ rec # None
  BY VerifyCases, ApplyingFacts DEF FullInv, BaseInv, Applying
<1>2. CASE file[Owner][mem.k] = <<Proxy>> /\ NextKey
  BY <1>1, <1>2, NextKeyQuiet
<1>3. CASE Goto("rollback")
  BY <1>1, <1>3, QuietFacts, LostStep DEF Goto, durable
<1> QED BY <1>2, <1>3, VerifyCases

LEMMA RollbackQuiet == ASSUME FullInv, Rollback PROVE QuietInv'
<1>1. /\ UNCHANGED <<store, rec, file, user>> /\ mem \in Memory /\ rec # None
  BY RollbackCases, ApplyingFacts DEF FullInv, BaseInv, Applying
<1>2. pc' = "failed" \/ (pc' = "look" /\ mem'.loop = "rollback")
  BY <1>1, RollbackCases DEF Goto, Memory
<1> QED BY <1>1, <1>2, QuietFacts, LostStep

LEMMA ReleaseQuiet == ASSUME FullInv, Release PROVE QuietInv'
<1>1. /\ pc = "release" /\ UNCHANGED <<store, rec, backup, file, user>> /\ mem \in Memory /\ rec # None
      /\ mem.errs = "none" /\ ~rec.cand.on
  BY ReleaseCases DEF durable, FullInv, BaseInv, TypeInv, PlaceInv, InLoop
<1>2. backup = rec.before /\ Recording(store, rec)
  BY <1>1 DEF FullInv, BaseInv, OwnInv, PlaceOwn
<1>3. QuietInv /\ \A u \in Users, k \in Keys : ~Raced(u, k) => AtPlan(u, k) /\ Forward(u, k)
  BY <1>1, QuietFacts
<1>4. ASSUME NEW u \in Users, NEW k \in Keys, ~Raced(u, k)
      PROVE  file[u][k] = IF backup # None /\ backup.user = u THEN rec.vals[u][k] ELSE mine[u][k]
  BY <1>1, <1>3, <1>4 DEF Forward
<1>5. CASE backup = None
  BY <1>1, <1>2, <1>5 DEF Recording
<1>6. CASE /\ backup # None /\ pc' = "look"
           /\ mem' = [mem EXCEPT !.loop = "release", !.b = backup, !.k = 1]
  <2>1. mem'.loop = "release" /\ mem'.b = backup /\ mem'.k = 1 /\ mem'.errs = "none"
    BY <1>1, <1>6 DEF Memory
  <2>2. \A k \in Keys : backup.plans[k] = None
    BY <1>2, <1>6, NoPlansFacts DEF Recording, RestoreStarted
  <2>3. ASSUME NEW u \in Users, NEW k \in Keys, ~Raced(u, k) PROVE Forward(u, k)'
    <3>1. file[u][k] = IF backup.user = u THEN rec.vals[u][k] ELSE mine[u][k]
      BY <1>4, <1>6, <2>3
    <3>2. k \notin Below'
      BY <1>6, <2>1, Constants DEF Below
    <3>3. Releasing(u, k)'
      BY <1>1, <1>6, <2>1, <2>2, <3>1, <3>2 DEF Releasing, B, user
    <3> QED BY <1>6, <3>3 DEF Forward
  <2> QED BY <1>1, <1>3, <1>6, <2>1, <2>3, ForwardStep
<1> QED BY <1>5, <1>6, ReleaseCases

LEMMA CommitQuiet == ASSUME FullInv, Commit PROVE QuietInv'
<1>1. /\ pc = "applied" /\ rec # None /\ store' = rec.cand /\ rec' = None /\ UNCHANGED <<backup, file, mine, race>>
      /\ Proxy \in Proxies /\ Sound(backup)
  BY RecordTypes DEF Commit, FullInv, BaseInv, TypeInv, PlaceInv, DataInv
<1>2. /\ rec.cand.on => backup # None /\ backup.user = Owner
      /\ ~rec.cand.on => backup = None
      /\ Fit(rec, backup)
  BY <1>1 DEF FullInv, BaseInv, OwnInv, PlaceOwn
<1>3. \A u \in Users, k \in Keys : ~Raced(u, k) => Forward(u, k)
  BY <1>1, QuietFacts
<1>4. ASSUME NEW u \in Users, NEW k \in Keys, ~Raced(u, k) PROVE AtRest(u, k)'
  <2>1. CASE rec.cand.on /\ u = rec.cand.user
    <3>1. backup.orig[k] = mine[u][k] /\ file[u][k] = <<Proxy>>
      BY <1>1, <1>3, <1>4, <2>1 DEF Forward, Gets
    <3>2. backup.orig[k] \in Lists
      BY <1>1, <1>2, <2>1 DEF Sound, Backups
    <3>3. Given(k, backup.orig[k], <<Proxy>>) = backup.orig[k]
      BY <1>1, <3>2, GivenSingle
    <3> QED BY <1>1, <2>1, <3>1, <3>3 DEF AtRest, Proxy
  <2>2. CASE ~(rec.cand.on /\ u = rec.cand.user)
    <3>1. file[u][k] = mine[u][k]
      BY <1>1, <1>3, <1>4, <2>2 DEF Forward, Gets
    <3> QED BY <1>1, <2>2, <3>1 DEF AtRest
  <2> QED BY <2>1, <2>2
<1>5. \A u \in Users, k \in Keys : Raced(u, k)' = Raced(u, k)
  BY <1>1 DEF Raced
<1>6. backup # None => ~RestoreStarted(backup)
  BY <1>1, <1>2 DEF Fit, Gets, Owner
<1> QED BY <1>1, <1>4, <1>5, <1>6 DEF QuietInv, RelInv, ForwardInv, BackInv, StuckInv

\* What a loop works on.
LEMMA LoopQuietFacts ==
  ASSUME FullInv, InLoop
  PROVE  /\ rec # None /\ B \in Backups /\ Sound(B) /\ B # None /\ B.user \in Users /\ mem.k \in Keys
         /\ backup # None /\ backup.user = B.user /\ LoopOwn /\ Fit(rec, B)
         /\ Clean(file, B) /\ ProxyPlace /\ mem \in Memory /\ mem.loop \in Loops
         /\ Had(rec, B.user) \/ Gets(rec, B.user)
         /\ mem.loop \in {"handover", "release"} =>
              B.rb = None /\ Had(rec, B.user) /\ B.orig = rec.before.orig
         /\ QuietInv
         /\ \A u \in Users, k \in Keys : ~Raced(u, k) => AtPlan(u, k) /\ Forward(u, k)
         /\ file \in [Users -> [Keys -> Lists]]
<1>1. /\ rec # None /\ B \in Backups /\ Sound(B) /\ B # None /\ B.user \in Users /\ mem.k \in Keys
      /\ backup # None /\ backup.user = B.user /\ Clean(file, B) /\ ProxyPlace /\ mem \in Memory
      /\ file \in [Users -> [Keys -> Lists]]
  BY LoopProxyFacts DEF FullInv
<1>2. LoopOwn /\ Fit(rec, B)
  BY <1>1 DEF FullInv, BaseInv, OwnInv, PlaceOwn, B
<1>3. Had(rec, B.user) \/ Gets(rec, B.user)
  BY <1>1, <1>2 DEF Fit
<1>4. mem.loop \in {"handover", "release"} =>
        B.rb = None /\ Had(rec, B.user) /\ B.orig = rec.before.orig
  BY <1>1, <1>2 DEF LoopOwn, Fit
<1>5. mem.loop \in Loops
  BY LoopTypes DEF FullInv, BaseInv
<1> QED BY <1>1, <1>2, <1>3, <1>4, <1>5, QuietFacts

\* A release goes on, with the key it is at.
LEMMA ReleasingStep ==
  ASSUME FullInv, pc \in {"look", "step", "tick"}, mem.loop \in {"handover", "release"},
         UNCHANGED <<store, rec, user>>, mem'.loop = mem.loop, B'.user = B.user,
         \/ pc' \in {"step", "tick"} /\ mem'.k = mem.k
         \/ pc' = "look" /\ mem'.k = mem.k + 1
         \/ pc' = "restored" /\ (mem'.errs = "none" => mem.k = NK),
         \A u \in Users, k \in Keys : u # B.user \/ k # mem.k => file'[u][k] = file[u][k],
         mem'.errs = "none" =>
           /\ mem.errs = "none"
           /\ \A k \in Keys : k # mem.k => B'.plans[k] = B.plans[k]
           /\ ~Raced(B.user, mem.k) =>
                IF pc' \in {"step", "tick"} THEN B'.plans[mem.k].desired = mine[B.user][mem.k]
                ELSE file'[B.user][mem.k] = mine[B.user][mem.k]
  PROVE  QuietInv'
<1>1. InLoop
  BY DEF InLoop
<1>2. /\ rec # None /\ B.user \in Users /\ mem.k \in Keys /\ Had(rec, B.user) /\ QuietInv
      /\ \A u \in Users, k \in Keys : ~Raced(u, k) => AtPlan(u, k) /\ Forward(u, k)
  BY <1>1, LoopQuietFacts
<1>3. ASSUME NEW u \in Users, NEW k \in Keys, ~Raced(u, k) PROVE Forward(u, k)'
  <2>1. Releasing(u, k)
    BY <1>1, <1>2, <1>3 DEF Forward, InLoopOf
  <2>2. CASE u # B.user
    BY <1>1, <1>2, <2>1, <2>2 DEF Releasing, Forward, user
  <2>3. CASE u = B.user
    <3>1. SUFFICES ASSUME mem'.errs = "none" PROVE Releasing(u, k)'
      BY <2>3 DEF Releasing, Forward
    <3>2. k \in Nat /\ mem.k \in Nat /\ k <= NK /\ NK \in Nat
      BY <1>2, Constants
    <3>3. CASE k = mem.k
      <4>1. CASE pc' \in {"step", "tick"}
        <5>1. k \notin Below' /\ ~(k > mem'.k)
          BY <3>2, <3>3, <4>1 DEF Below
        <5>2. B'.plans[k].desired = mine[u][k]
          BY <1>3, <2>3, <3>1, <3>3, <4>1
        <5> QED BY <2>3, <3>3, <4>1, <5>1, <5>2 DEF Releasing, user
      <4>2. CASE pc' \in {"look", "restored"}
        <5>1. k \in Below'
          BY <1>2, <3>2, <3>3, <4>2, Constants DEF Below
        <5>2. file'[u][k] = mine[u][k]
          BY <1>3, <2>3, <3>1, <3>3, <4>2
        <5> QED BY <2>3, <3>3, <4>2, <5>1, <5>2 DEF Releasing, user
      <4> QED BY <4>1, <4>2
    <3>4. CASE k # mem.k
      <4>1. k \in Below \/ k > mem.k
        BY <1>2, <3>2, <3>4, Constants DEF Below
      <4>2. k \in Below => file'[u][k] = mine[u][k]
        BY <2>1, <2>3, <3>1, <3>4 DEF Releasing
      <4>3. k > mem.k => k \notin Below
        BY <3>2 DEF Below
      <4>4. k > mem.k => B'.plans[k] = None /\ file'[u][k] = rec.vals[u][k]
        BY <2>1, <2>3, <3>1, <3>4, <4>3 DEF Releasing
      <4>5. k \in Below' => k \in Below
        BY <3>1, <3>2, <3>4, Constants DEF Below
      <4>6. k \notin Below' => k > mem.k
        BY <3>2, <3>4, Constants DEF Below
      <4>7. ~(k = mem'.k /\ pc' \in {"step", "tick"})
        BY <3>4
      <4> QED BY <2>3, <4>2, <4>4, <4>5, <4>6, <4>7 DEF Releasing, user
    <3> QED BY <3>3, <3>4
  <2> QED BY <2>2, <2>3
<1>4. \A u \in Users : ~Had(rec, u) => u # B.user
  BY <1>2
<1> QED BY <1>2, <1>3, <1>4, ForwardStep

\* The users of a record are different ones.
LEMMA OtherUsers ==
  ASSUME BaseInv, rec # None, NEW i \in 1..Len(rec.users), NEW j \in 1..Len(rec.users), j > i
  PROVE  rec.users[j] # rec.users[i] /\ rec.users[j] \in Users
<1>1. Len(rec.users) \in Nat /\ rec.users \in Seq(Users)
  BY RecordTypes DEF BaseInv, TypeInv
<1>2. i < Len(rec.users) /\ j > 1
  BY <1>1
<1>3. Had(rec, rec.users[i]) /\ ~Had(rec, rec.users[j])
  BY <1>2, UsersFacts DEF BaseInv
<1>4. rec.users[j] \in Users
  BY <1>1
<1> QED BY <1>3, <1>4

\* A compensation goes on with the same user.
LEMMA UndoingStep ==
  ASSUME FullInv, pc \in {"undo", "current"} \/ InUndo, mem.i \in 1..Len(rec.users),
         UNCHANGED <<store, rec, user>>, mem'.i = mem.i,
         \A u \in Users, k \in Keys : u # Subject => file'[u][k] = file[u][k],
         pc' = "current" \/ (pc' \in {"look", "step", "tick", "restored"} /\ mem'.loop \in {"inverse", "finish"})
           \/ (pc' \in {"look", "step", "tick", "restored"} /\ mem'.loop = "restore" /\ BackPlans')
  PROVE  QuietInv'
<1>1. rec # None /\ rec.users \in Seq(Users)
  <2>1. pc # "idle"
    BY DEF InUndo, InLoop
  <2> QED BY <2>1, RecordTypes DEF FullInv, BaseInv, TypeInv, PlaceInv
<1>2. Undoing /\ QuietInv /\ pc # "settle"
  BY DEF Undoing, FullInv, InUndo, InLoop
<1>3. \A u \in Users, k \in Keys : Raced(u, k)' = Raced(u, k)
  BY DEF user, Raced
<1>4. BackValues
  BY <1>1, <1>2 DEF QuietInv, BackInv
<1>5. BackValues'
  <2> SUFFICES ASSUME NEW j \in 1..Len(rec.users), NEW k \in Keys, j > mem.i, ~Raced(rec.users[j], k)
               PROVE  file'[rec.users[j]][k] = rec.vals[rec.users[j]][k]
    <3>1. \A j \in 1..Len(rec.users) : rec.users[j] \in Users
      BY <1>1
    <3> QED BY <1>3, <3>1 DEF BackValues
  <2>1. rec.users[j] # Subject /\ rec.users[j] \in Users
    BY <1>1, OtherUsers DEF FullInv, Subject
  <2>2. file[rec.users[j]][k] = rec.vals[rec.users[j]][k]
    BY <1>2, <1>4 DEF BackValues
  <2> QED BY <2>1, <2>2
<1>6. BackPlans'
  BY DEF BackPlans, InLoopOf, InLoop
<1>7. BackOwner'
  BY DEF BackOwner
<1>8. Had(rec, Subject) \/ Gets(rec, Subject)
  BY <1>1, UsersFacts DEF FullInv, BaseInv, Subject
<1> QED BY <1>1, <1>2, <1>5, <1>6, <1>7, <1>8, BackStep

\* A loop goes on.
LEMMA LoopStep ==
  ASSUME FullInv, pc \in {"look", "step", "tick"}, UNCHANGED <<store, rec, user>>,
         mem'.loop = mem.loop, mem'.i = mem.i, B'.user = B.user,
         \/ pc' \in {"step", "tick"} /\ mem'.k = mem.k
         \/ pc' = "look" /\ mem'.k = mem.k + 1
         \/ pc' = "restored" /\ (mem'.errs = "none" => mem.k = NK),
         \A u \in Users, k \in Keys : u # B.user \/ k # mem.k => file'[u][k] = file[u][k],
         mem.loop \in {"handover", "release"} /\ mem'.errs = "none" =>
           /\ mem.errs = "none"
           /\ \A k \in Keys : k # mem.k => B'.plans[k] = B.plans[k]
           /\ ~Raced(B.user, mem.k) =>
                IF pc' \in {"step", "tick"} THEN B'.plans[mem.k].desired = mine[B.user][mem.k]
                ELSE file'[B.user][mem.k] = mine[B.user][mem.k],
         mem.loop = "restore" => BackPlans'
  PROVE  QuietInv'
<1>1. InLoop
  BY DEF InLoop
<1>2. /\ rec # None /\ QuietInv /\ mem.loop \in Loops /\ LoopOwn
      /\ Had(rec, B.user) \/ Gets(rec, B.user)
  BY <1>1, LoopQuietFacts
<1>3. CASE mem.loop \in {"handover", "release"}
  BY <1>3, ReleasingStep
<1>4. CASE mem.loop = "rollback"
  <2>1. \A u \in Users : ~Had(rec, u) /\ ~Gets(rec, u) => u # B.user
    BY <1>2
  <2> QED BY <1>2, <1>4, <2>1, LostStep
<1>5. CASE mem.loop \in {"inverse", "restore", "finish"}
  <2>1. mem.i \in 1..Len(rec.users) /\ InUndo /\ B.user = Subject
    BY <1>1, <1>2, <1>5 DEF FullInv, BaseInv, TypeInv, PlaceInv, LoopOwn, InUndo
  <2>2. \A u \in Users : u # Subject => u # B.user
    BY <2>1
  <2> QED BY <1>5, <2>1, <2>2, UndoingStep
<1> QED BY <1>2, <1>3, <1>4, <1>5 DEF Loops

\* A plan that is not at its end, and what a restoration has brought back.
LEMMA BackPlansFacts ==
  ASSUME FullInv, InLoop, mem.loop = "restore"
  PROVE  /\ B.user = Subject
         /\ \A k \in Keys : PlanIn(B, k) # None /\ PlanIn(B, k).desired = Values[k]
         /\ \A k \in Keys : Finished(k, PlanIn(B, k)) /\ ~Raced(B.user, k) => file[B.user][k] = Values[k]
<1>1. rec # None /\ LoopOwn /\ ProxyPlace /\ QuietInv
  BY LoopQuietFacts
<1>2. B.user = Subject
  BY <1>1 DEF LoopOwn, InUndo
<1>3. \A k \in Keys : PlanIn(B, k) # None /\ PlanIn(B, k).desired = Values[k]
  BY <1>1, LoopPlaceProxy
<1> QED BY <1>1, <1>2, <1>3 DEF QuietInv, BackInv, BackPlans, InLoopOf

\* What is left to be shown after a step of a restoration.
LEMMA BackPlansStep ==
  ASSUME InLoop', mem'.i = mem.i, UNCHANGED <<rec, user>>,
         \A k \in Keys : Finished(k, PlanIn(B', k)) /\ ~Raced(B'.user, k) => file'[B'.user][k] = Values[k]
  PROVE  BackPlans'
<1>1. Values' = Values
  BY DEF Values, Subject
<1>2. \A u, k : Raced(u, k)' = Raced(u, k)
  BY DEF user, Raced
<1> QED BY <1>1, <1>2 DEF BackPlans

LEMMA RecordedQuiet ==
  ASSUME FullInv, pc \in {"look", "tick"}, NEW p \in RestorePlans, Counted(mem.k, p), Recorded(p),
         UNCHANGED <<store, rec, user, file>>,
         mem.loop \in {"handover", "release"} /\ mem.errs = "none" /\ ~Raced(B.user, mem.k) =>
           /\ p.desired = mine[B.user][mem.k]
           /\ Finished(mem.k, p) => file[B.user][mem.k] = mine[B.user][mem.k],
         mem.loop = "restore" /\ Finished(mem.k, p) /\ ~Raced(B.user, mem.k) =>
           file[B.user][mem.k] = Values[mem.k]
  PROVE  QuietInv'
<1> DEFINE w == WithPlan(mem.k, p)
<1>1. InLoop
  BY DEF InLoop
<1>2. /\ rec # None /\ B \in Backups /\ Sound(B) /\ B # None /\ mem.k \in Keys /\ mem \in Memory
      /\ mem.loop \in {"handover", "release"} => B.rb = None
  BY <1>1, LoopQuietFacts
<1>3. /\ w \in Backups /\ w # None /\ Sound(w) /\ w.user = B.user
      /\ PlanIn(w, mem.k) = p /\ \A k \in Keys \ {mem.k} : PlanIn(w, k) = PlanIn(B, k)
      /\ w.rb = None <=> B.rb = None
  BY <1>1, <1>2, WithPlanOwn, WithPlanSound DEF FullInv, BaseInv
<1>4. \/ Finished(mem.k, p) /\ ToKey("none", w)
      \/ ~Finished(mem.k, p) /\ pc' = "step" /\ mem' = [mem EXCEPT !.b = w]
      \/ ToKey("fault", w)
  BY DEF Recorded
<1> HIDE DEF w
<1>5. \A e \in {"none", "fault"} : ToKey(e, w) =>
        /\ mem'.b = w /\ mem'.loop = mem.loop /\ mem'.i = mem.i
        /\ mem'.errs = "none" <=> e = "none" /\ mem.errs = "none"
        /\ \/ pc' = "restored" /\ (mem.k = NK \/ e # "none")
           \/ pc' = "look" /\ mem'.k = mem.k + 1
  BY <1>1, <1>3, ToKeyFacts DEF FullInv, BaseInv, Errors
<1>6. pc' = "step" /\ mem' = [mem EXCEPT !.b = w] =>
        mem'.b = w /\ mem'.loop = mem.loop /\ mem'.i = mem.i /\ mem'.errs = mem.errs /\ mem'.k = mem.k
  BY <1>2 DEF Memory
<1>7. /\ mem'.b = w /\ mem'.loop = mem.loop /\ mem'.i = mem.i
      /\ \/ pc' \in {"step", "tick"} /\ mem'.k = mem.k
         \/ pc' = "look" /\ mem'.k = mem.k + 1
         \/ pc' = "restored" /\ (mem'.errs = "none" => mem.k = NK)
      /\ mem'.errs = "none" =>
           /\ mem.errs = "none"
           /\ IF pc' = "step" THEN TRUE ELSE Finished(mem.k, p)
  BY <1>4, <1>5, <1>6
<1>8. B' = w /\ InLoop'
  BY <1>7 DEF B, InLoop
<1>9. ASSUME mem.loop \in {"handover", "release"}, mem'.errs = "none"
      PROVE  /\ mem.errs = "none"
             /\ \A k \in Keys : k # mem.k => B'.plans[k] = B.plans[k]
             /\ ~Raced(B.user, mem.k) =>
                  IF pc' \in {"step", "tick"} THEN B'.plans[mem.k].desired = mine[B.user][mem.k]
                  ELSE file'[B.user][mem.k] = mine[B.user][mem.k]
  <2>1. B.rb = None /\ w.rb = None
    BY <1>2, <1>3, <1>9
  <2>2. w.plans[mem.k] = p /\ \A k \in Keys : k # mem.k => w.plans[k] = B.plans[k]
    BY <1>3, <2>1 DEF PlanIn
  <2> QED BY <1>7, <1>8, <1>9, <2>2
<1>10. ASSUME mem.loop = "restore" PROVE BackPlans'
  <2>1. \A k \in Keys : Finished(k, PlanIn(w, k)) /\ ~Raced(w.user, k) => file[w.user][k] = Values[k]
    BY <1>1, <1>3, <1>10, BackPlansFacts
  <2> QED BY <1>7, <1>8, <2>1, BackPlansStep
<1> QED BY <1>3, <1>7, <1>8, <1>9, <1>10, LoopStep

LEMMA ToKeyQuiet ==
  ASSUME FullInv, pc \in {"look", "step", "tick"}, NEW e \in Errors, ToKey(e, B),
         UNCHANGED <<store, rec, user>>,
         \A u \in Users, k \in Keys : u # B.user \/ k # mem.k => file'[u][k] = file[u][k],
         e = "none" => file' = file,
         mem.loop \in {"handover", "release"} /\ mem.errs = "none" /\ e = "none" /\ ~Raced(B.user, mem.k) =>
           file[B.user][mem.k] = mine[B.user][mem.k],
         file' # file => ~Finished(mem.k, PlanIn(B, mem.k))
  PROVE  QuietInv'
<1>1. InLoop
  BY DEF InLoop
<1>2. rec # None /\ B \in Backups /\ Sound(B) /\ B # None /\ mem.k \in Keys /\ B.user \in Users
  BY <1>1, LoopQuietFacts
<1>3. /\ mem'.b = B /\ mem'.loop = mem.loop /\ mem'.i = mem.i
      /\ mem'.errs = "none" <=> e = "none" /\ mem.errs = "none"
      /\ \/ pc' = "restored" /\ (mem.k = NK \/ e # "none")
         \/ pc' = "look" /\ mem'.k = mem.k + 1
  BY <1>1, <1>2, ToKeyFacts DEF FullInv, BaseInv
<1>4. B' = B /\ InLoop'
  BY <1>3 DEF B, InLoop
<1>5. ASSUME mem.loop = "restore" PROVE BackPlans'
  <2>1. \A k \in Keys : Finished(k, PlanIn(B, k)) /\ ~Raced(B.user, k) => file'[B.user][k] = Values[k]
    <3>1. \A k \in Keys : Finished(k, PlanIn(B, k)) /\ ~Raced(B.user, k) => file[B.user][k] = Values[k]
      BY <1>1, <1>5, BackPlansFacts
    <3>2. CASE file' = file
      BY <3>1, <3>2
    <3>3. CASE file' # file
      BY <1>2, <3>1, <3>3
    <3> QED BY <3>2, <3>3
  <2> QED BY <1>3, <1>4, <2>1, BackPlansStep
<1> QED BY <1>3, <1>4, <1>5, LoopStep

\* The next place in the loop, for the same key.
LEMMA SameQuiet ==
  ASSUME FullInv, pc \in {"look", "step", "tick"}, pc' \in {"step", "tick"}, mem' = mem,
         UNCHANGED <<store, rec, user>>,
         \A u \in Users, k \in Keys : u # B.user \/ k # mem.k => file'[u][k] = file[u][k],
         mem.loop \in {"handover", "release"} /\ mem.errs = "none" /\ ~Raced(B.user, mem.k) =>
           B.plans[mem.k].desired = mine[B.user][mem.k],
         file' # file => ~Finished(mem.k, PlanIn(B, mem.k))
  PROVE  QuietInv'
<1>1. InLoop /\ B' = B /\ InLoop'
  BY DEF InLoop, B
<1>2. B.user \in Users /\ mem.k \in Keys
  BY <1>1, LoopQuietFacts
<1>3. ASSUME mem.loop = "restore" PROVE BackPlans'
  <2>1. \A k \in Keys : Finished(k, PlanIn(B, k)) /\ ~Raced(B.user, k) => file[B.user][k] = Values[k]
    BY <1>1, <1>3, BackPlansFacts
  <2>2. \A k \in Keys : Finished(k, PlanIn(B, k)) /\ ~Raced(B.user, k) => file'[B.user][k] = Values[k]
    <3>1. CASE file' = file
      BY <2>1, <3>1
    <3>2. CASE file' # file
      BY <1>2, <2>1, <3>2
    <3> QED BY <3>1, <3>2
  <2> QED BY <1>1, <2>2, BackPlansStep
<1> QED BY <1>1, <1>3, LoopStep

\* What a release knows of its key, as long as nothing has failed.
LEMMA ReleasingFacts ==
  ASSUME FullInv, pc \in {"look", "step", "tick"}, mem.loop \in {"handover", "release"}, mem.errs = "none",
         ~Raced(B.user, mem.k)
  PROVE  /\ pc = "look" => PlanOf(mem.k) = None /\ file[B.user][mem.k] = rec.vals[B.user][mem.k]
         /\ pc \in {"step", "tick"} => PlanOf(mem.k).desired = mine[B.user][mem.k]
         /\ mine[B.user][mem.k] = Given(mem.k, B.orig[mem.k], rec.vals[B.user][mem.k])
         /\ PlanOf(mem.k) = B.plans[mem.k]
<1>1. InLoop
  BY DEF InLoop
<1>2. /\ rec # None /\ mem.k \in Keys /\ B.user \in Users /\ B.rb = None /\ Had(rec, B.user)
      /\ B.orig = rec.before.orig
      /\ AtPlan(B.user, mem.k) /\ Forward(B.user, mem.k)
  BY <1>1, LoopQuietFacts
<1>3. Releasing(B.user, mem.k)
  BY <1>1, <1>2 DEF Forward, InLoopOf
<1>4. PlanOf(mem.k) = B.plans[mem.k]
  BY <1>2 DEF PlanOf, InRollback
<1>5. mem.k \notin Below
  BY <1>2, Constants DEF Below
<1> QED BY <1>2, <1>3, <1>4, <1>5 DEF Releasing, AtPlan

LEMMA LookQuiet == ASSUME FullInv, Look PROVE QuietInv'
<1>1. pc = "look" /\ InLoop /\ UNCHANGED <<store, rec, file, user>>
  BY LookCases DEF InLoop
<1>2. /\ rec # None /\ mem.k \in Keys /\ B.user \in Users
      /\ mem.loop \in {"handover", "release"} => B.rb = None
  BY <1>1, LoopQuietFacts
<1>3. CASE PlanOf(mem.k) = None /\ Recorded(NewPlan)
  <2>1. NewPlan \in RestorePlans /\ Counted(mem.k, NewPlan)
    BY <1>1, NewPlanFacts DEF FullInv, BaseInv
  <2>2. mem.loop # "restore"
    <3>1. mem.loop = "restore" => PlanIn(B, mem.k) # None
      BY <1>1, <1>2, BackPlansFacts
    <3> QED BY <1>3, <3>1 DEF PlanOf, PlanIn, InRollback
  <2>3. ASSUME mem.loop \in {"handover", "release"}, mem.errs = "none", ~Raced(B.user, mem.k)
        PROVE  /\ NewPlan.desired = mine[B.user][mem.k]
               /\ Finished(mem.k, NewPlan) => file[B.user][mem.k] = mine[B.user][mem.k]
    <3> DEFINE now == file[B.user][mem.k]
               o == B.orig[mem.k]
    <3>1. mine[B.user][mem.k] = Given(mem.k, o, now)
      BY <1>1, <2>3, ReleasingFacts
    <3>2. Goal(mem.k) = o
      BY <1>2, <2>3 DEF Goal, InRollback
    <3>3. IF ContainsManaged(now, Managed)
          THEN ~Finished(mem.k, NewPlan) /\ NewPlan.desired = Desired(mem.k, Goal(mem.k), now, Managed)
          ELSE NewPlan.desired = now
      BY <1>1, NewPlanFacts DEF FullInv, BaseInv
    <3>4. /\ Managed \in SUBSET Proxies /\ now \in Lists /\ o \in Lists /\ Prox(now) \subseteq Managed
      <4>1. /\ Managed \in SUBSET Proxies /\ B.rb = None => B.managed \subseteq Managed
            /\ Prox(now) \subseteq B.managed /\ now \in Lists
        BY <1>1, <1>2, LoopProxyFacts DEF FullInv
      <4>2. o \in Lists
        BY <1>1, <1>2, LoopTypes DEF FullInv, BaseInv
      <4> QED BY <1>2, <2>3, <4>1, <4>2, <1>1, LoopProxyFacts DEF FullInv
    <3> HIDE DEF now, o
    <3>5. /\ Desired(mem.k, o, now, Managed) = Desired(mem.k, o, now, Proxies)
          /\ ContainsManaged(now, Managed) <=> ContainsManaged(now, Proxies)
      BY <1>2, <3>4, DesiredManaged
    <3>6. NewPlan.desired = Given(mem.k, o, now) /\ (Finished(mem.k, NewPlan) => now = Given(mem.k, o, now))
      BY <3>2, <3>3, <3>5 DEF Given
    <3> QED BY <3>1, <3>6 DEF now
  <2> QED BY <1>1, <1>3, <2>1, <2>2, <2>3, RecordedQuiet
<1>4. CASE PlanOf(mem.k) # None /\ ToKey("none", B)
  <2>1. "none" \in Errors
    BY DEF Errors
  <2>2. ~(mem.loop \in {"handover", "release"} /\ mem.errs = "none" /\ ~Raced(B.user, mem.k))
    BY <1>1, <1>4, ReleasingFacts
  <2> QED BY <1>1, <1>4, <2>1, <2>2, ToKeyQuiet
<1>5. CASE \E e \in {"parked", "fault"} : ToKey(e, B)
  <2>1. PICK e \in Errors : ToKey(e, B) /\ e # "none"
    BY <1>5 DEF Errors
  <2> QED BY <1>1, <2>1, ToKeyQuiet
<1>6. CASE PlanOf(mem.k) # None /\ Goto("step")
  <2>1. ~(mem.loop \in {"handover", "release"} /\ mem.errs = "none" /\ ~Raced(B.user, mem.k))
    BY <1>1, <1>6, ReleasingFacts
  <2> QED BY <1>1, <1>6, <2>1, SameQuiet DEF Goto
<1> QED BY <1>3, <1>4, <1>5, <1>6, LookCases

LEMMA StepQuiet == ASSUME FullInv, Step PROVE QuietInv'
<1>1. pc = "step" /\ InLoop /\ UNCHANGED <<store, rec, user>>
  BY StepCases DEF InLoop, durable, FullInv, BaseInv
<1>2. mem.k \in Keys /\ B.user \in Users /\ file \in [Users -> [Keys -> Lists]]
  BY <1>1, LoopQuietFacts
<1>3. ~Finished(mem.k, PlanIn(B, mem.k))
  <2>1. ~Finished(mem.k, Cur)
    BY <1>1, AtStep DEF FullInv, BaseInv
  <2> QED BY <2>1 DEF Cur, PlanOf, PlanIn, InRollback
<1>4. \A u \in Users, k \in Keys : u # B.user \/ k # mem.k => file'[u][k] = file[u][k]
  <2>1. file' = file \/ file' = After
    BY StepCases DEF FullInv, BaseInv
  <2> QED BY <1>2, <2>1 DEF After
<1>5. CASE \E e \in {"parked", "differs", "fault"} : ToKey(e, B)
  <2>1. PICK e \in Errors : ToKey(e, B) /\ e # "none"
    BY <1>5 DEF Errors
  <2> QED BY <1>1, <1>3, <1>4, <2>1, ToKeyQuiet
<1>6. CASE Goto("tick")
  <2>1. mem.loop \in {"handover", "release"} /\ mem.errs = "none" /\ ~Raced(B.user, mem.k) =>
          B.plans[mem.k].desired = mine[B.user][mem.k]
    BY <1>1, ReleasingFacts
  <2> QED BY <1>1, <1>3, <1>4, <1>6, <2>1, SameQuiet DEF Goto
<1> QED BY <1>5, <1>6, StepCases DEF FullInv, BaseInv

LEMMA TickQuiet == ASSUME FullInv, Tick PROVE QuietInv'
<1> DEFINE p == [Cur EXCEPT !.next = @ + 1]
<1>1. pc = "tick" /\ InLoop /\ UNCHANGED <<store, rec, file, user>>
  BY TickCases DEF InLoop
<1>2. mem.k \in Keys /\ B.user \in Users
  BY <1>1, LoopQuietFacts
<1>3. /\ Cur = PlanIn(B, mem.k) /\ Cur = PlanOf(mem.k)
      /\ p \in RestorePlans /\ Counted(mem.k, p) /\ p.desired = Cur.desired
      /\ Finished(mem.k, p) => PlanAfter(mem.k, Cur) = Cur.desired
  <2>1. /\ Cur \in RestorePlans /\ Counted(mem.k, Cur) /\ ~Finished(mem.k, Cur)
        /\ p \in RestorePlans /\ Counted(mem.k, p)
    BY <1>1, AtStep DEF FullInv, BaseInv
  <2> QED BY <1>2, <2>1, AfterFacts DEF Cur, PlanOf, PlanIn, InRollback
<1> HIDE DEF p
<1>4. CASE file[B.user][mem.k] = PlanAfter(mem.k, Cur) /\ Recorded(p)
  <2>1. Finished(mem.k, p) => file[B.user][mem.k] = p.desired
    BY <1>3, <1>4
  <2>2. mem.loop \in {"handover", "release"} /\ mem.errs = "none" /\ ~Raced(B.user, mem.k) =>
          p.desired = mine[B.user][mem.k]
    BY <1>1, <1>3, ReleasingFacts
  <2>3. mem.loop = "restore" => p.desired = Values[mem.k]
    BY <1>1, <1>2, <1>3, BackPlansFacts
  <2> QED BY <1>1, <1>3, <1>4, <2>1, <2>2, <2>3, RecordedQuiet
<1>5. CASE ToKey("differs", B)
  <2>1. "differs" \in Errors
    BY DEF Errors
  <2> QED BY <1>1, <1>5, <2>1, ToKeyQuiet
<1> QED BY <1>4, <1>5, TickCases DEF p

LEMMA RestoredQuiet == ASSUME FullInv, Restored PROVE QuietInv'
<1>1. pc = "restored" /\ InLoop /\ UNCHANGED <<store, rec, file, user>>
  <2>1. pc = "restored"
    BY DEF Restored
  <2>2. InLoop => mem.loop \in Loops
    BY LoopTypes DEF FullInv, BaseInv
  <2> QED BY <2>1, <2>2, RestoredCases DEF InLoop
<1>2. /\ rec # None /\ B \in Backups /\ Sound(B) /\ B # None /\ B.user \in Users
      /\ backup # None /\ backup.user = B.user /\ LoopOwn /\ mem.loop \in Loops
      /\ mem.loop \in {"handover", "release"} =>
           B.rb = None /\ Had(rec, B.user) /\ B.orig = rec.before.orig
      /\ QuietInv
      /\ \A u \in Users, k \in Keys : ~Raced(u, k) => AtPlan(u, k) /\ Forward(u, k)
  BY <1>1, LoopQuietFacts
<1>3. \A p, b : b \in Backups \cup {None} /\ Ended(p, b) => pc' = p /\ mem'.b = b /\ mem'.i = mem.i
  BY <1>1, EndedFacts DEF FullInv, BaseInv
<1>4. Gone \in Backups /\ Forgot \in Backups
  BY <1>2, GoneFacts
<1>5. CASE pc' \in {"failed", "reject", "refused", "stopped"}
  BY <1>1, <1>2, <1>5, LostStep
<1>6. CASE /\ mem.errs = "none" /\ mem.loop \in {"handover", "release"} /\ backup' = None
           /\ pc' = IF mem.loop = "release" THEN "applied" ELSE "take"
  <2>1. ASSUME NEW u \in Users, NEW k \in Keys, ~Raced(u, k) PROVE file[u][k] = mine[u][k]
    <3>1. Releasing(u, k)
      BY <1>1, <1>2, <1>6, <2>1 DEF Forward, InLoopOf
    <3> QED BY <1>1, <1>6, <3>1 DEF Releasing, Below
  <2>2. mem.loop = "release" => ~rec.cand.on
    BY <1>1 DEF FullInv, BaseInv, TypeInv, PlaceInv
  <2>3. ASSUME NEW u \in Users, NEW k \in Keys, ~Raced(u, k) PROVE Forward(u, k)'
    BY <1>1, <1>6, <2>1, <2>2, <2>3 DEF Forward, InLoopOf, InLoop, user
  <2> QED BY <1>1, <1>2, <1>6, <2>3, ForwardStep
<1>7. CASE mem.errs = "none" /\ mem.loop \in {"inverse", "finish"} /\ pc' = "current" /\ mem'.i = mem.i
  <2>1. mem.i \in 1..Len(rec.users) /\ InUndo
    BY <1>1, <1>7 DEF FullInv, BaseInv, TypeInv, PlaceInv, InUndo
  <2> QED BY <1>1, <1>7, <2>1, UndoingStep
<1>8. CASE /\ mem.errs = "none" /\ mem.loop = "restore" /\ pc' = "settle" /\ mem'.i = mem.i
           /\ backup' = Gone /\ mem'.b = Gone
  <2>1. mem.i \in 1..Len(rec.users) /\ InUndo /\ Undoing /\ rec.users \in Seq(Users) /\ mem.i \in Nat
    BY <1>1, <1>2, <1>8, RecordTypes DEF FullInv, BaseInv, TypeInv, PlaceInv, InUndo, Undoing
  <2>2. \A k \in Keys : ~Raced(Subject, k) => file[Subject][k] = Values[k]
    <3>1. \A k \in Keys : Done(k, PlanIn(B, k))
      BY <1>1, <1>2, <1>8 DEF LoopOwn, Below
    <3> QED BY <1>1, <1>8, <3>1, BackPlansFacts DEF Done
  <2>3. \A u, k : Raced(u, k)' = Raced(u, k)
    BY <1>1 DEF user, Raced
  <2>4. BackValues
    BY <1>2 DEF QuietInv, BackInv
  <2>5. BackValues'
    <3> SUFFICES ASSUME NEW j \in 1..Len(rec.users), NEW k \in Keys, j > mem.i \/ j = mem.i, ~Raced(rec.users[j], k)
                 PROVE  file[rec.users[j]][k] = rec.vals[rec.users[j]][k]
      BY <1>1, <1>8, <2>3 DEF BackValues
    <3>1. CASE j > mem.i
      BY <2>1, <2>4, <3>1 DEF BackValues
    <3>2. CASE j = mem.i
      BY <2>2, <3>2 DEF Subject, Values
    <3> QED BY <3>1, <3>2
  <2>6. BackPlans' /\ BackOwner'
    BY <1>8 DEF BackPlans, BackOwner, InLoopOf, InLoop
  <2> QED BY <1>1, <1>2, <1>8, <2>5, <2>6, BackStep
<1>9. \/ pc' \in {"failed", "reject", "refused", "stopped"}
      \/ /\ mem.errs = "none" /\ mem.loop \in {"handover", "release"} /\ backup' = None
         /\ pc' = IF mem.loop = "release" THEN "applied" ELSE "take"
      \/ mem.errs = "none" /\ mem.loop \in {"inverse", "finish"} /\ pc' = "current" /\ mem'.i = mem.i
      \/ /\ mem.errs = "none" /\ mem.loop = "restore" /\ pc' = "settle" /\ mem'.i = mem.i
         /\ backup' = Gone /\ mem'.b = Gone
  BY <1>1, <1>2, <1>3, <1>4, RestoredCases
<1> QED BY <1>5, <1>6, <1>7, <1>8, <1>9

LEMMA CompensateQuiet == ASSUME FullInv, Compensate PROVE QuietInv'
<1>1. /\ UNCHANGED <<store, rec, file, user>> /\ rec # None /\ pc' = "undo"
      /\ mem' = [Fresh EXCEPT !.i = Len(rec.users)]
  BY DEF Compensate, durable, FullInv, BaseInv, TypeInv, PlaceInv
<1>2. mem'.i = Len(rec.users)
  BY <1>1 DEF Fresh
<1>3. Len(rec.users) \in Nat /\ Len(rec.users) # 0
  BY <1>1 DEF FullInv, BaseInv, OwnInv, Recording
<1>4. BackValues' /\ BackPlans' /\ BackOwner'
  BY <1>1, <1>2, <1>3 DEF BackValues, BackPlans, BackOwner, InLoopOf, InLoop
<1> QED BY <1>1, <1>4, QuietFacts, BackStep

\* A compensation is at a user of the record.
LEMMA SubjectQuiet ==
  ASSUME FullInv, pc \in {"undo", "current", "settle"}, mem.i > 0
  PROVE  /\ rec # None /\ mem.i \in 1..Len(rec.users) /\ mem \in Memory /\ Subject \in Users /\ QuietInv
         /\ Len(rec.users) \in Nat /\ mem.i \in Nat /\ rec.users \in Seq(Users)
         /\ BackValues /\ BackPlans /\ BackOwner
<1>1. rec # None /\ mem.i \in 1..Len(rec.users) /\ mem \in Memory /\ Subject \in Users /\ rec.users \in Seq(Users)
  BY SubjectFacts DEF FullInv, BaseInv
<1> QED BY <1>1 DEF FullInv, QuietInv, BackInv

LEMMA UndoQuiet == ASSUME FullInv, Undo PROVE QuietInv'
<1>1. pc = "undo" /\ mem.i > 0 /\ UNCHANGED <<store, rec, file, user>>
  BY UndoCases DEF durable
<1>2. rec # None /\ mem.i \in 1..Len(rec.users) /\ mem \in Memory
  BY <1>1, SubjectQuiet
<1>3. CASE Goto("refused")
  BY <1>1, <1>2, <1>3, QuietFacts, LostStep DEF Goto
<1>4. CASE mem'.i = mem.i /\ (pc' = "current" \/ (pc' = "look" /\ mem'.loop \in {"inverse", "finish"}))
  BY <1>1, <1>2, <1>4, UndoingStep
<1>5. Goto("refused") \/ (mem'.i = mem.i /\ (pc' = "current" \/ (pc' = "look" /\ mem'.loop \in {"inverse", "finish"})))
  BY <1>2, UndoCases DEF Memory
<1> QED BY <1>3, <1>4, <1>5

LEMMA CurrentQuiet == ASSUME FullInv, Current PROVE QuietInv'
<1>1. pc = "current" /\ UNCHANGED <<store, rec, file, user>> /\ mem.i > 0
  BY CurrentCases DEF FullInv, BaseInv, TypeInv, PlaceInv
<1>2. /\ rec # None /\ mem.i \in 1..Len(rec.users) /\ mem \in Memory /\ QuietInv /\ mem.i \in Nat
      /\ BackValues
  BY <1>1, SubjectQuiet
<1>3. CASE Goto("stopped") \/ Goto("refused")
  BY <1>1, <1>2, <1>3, LostStep DEF Goto
<1>4. CASE file[Subject] = Values /\ Goto("settle") /\ UNCHANGED backup
  <2>1. mem' = mem /\ pc' = "settle" /\ Subject' = Subject
    BY <1>1, <1>4 DEF Goto, Subject
  <2>2. \A u, k : Raced(u, k)' = Raced(u, k)
    BY <1>1 DEF user, Raced
  <2>3. BackValues'
    <3> SUFFICES ASSUME NEW j \in 1..Len(rec.users), NEW k \in Keys, j > mem.i \/ j = mem.i, ~Raced(rec.users[j], k)
                 PROVE  file[rec.users[j]][k] = rec.vals[rec.users[j]][k]
      BY <1>1, <2>1, <2>2 DEF BackValues
    <3>1. CASE j > mem.i
      BY <1>1, <1>2, <3>1 DEF BackValues, Undoing
    <3>2. CASE j = mem.i
      BY <1>4, <3>2 DEF Subject, Values
    <3> QED BY <3>1, <3>2
  <2>4. ASSUME mem.b # None, backup # mem.b PROVE \A k \in Keys : Edited(Subject, k)
    <3>1. /\ mem.b.user = Subject /\ mem.b.rb = None /\ ~RestoreStarted(mem.b)
          /\ Like(backup, mem.b) /\ AllDone(backup) /\ mem.b \in Backups /\ Fit(rec, backup)
      BY <1>1, <1>2, <2>4 DEF FullInv, BaseInv, OwnInv, PlaceOwn, UndoOwn, TypeInv, PlaceInv, Sound
    <3>2. backup # None /\ backup.user = Subject
      BY <3>1 DEF Like, Backups
    <3>3. Had(rec, Subject)
      <4>1. backup.plans # mem.b.plans
        BY <2>4, <3>1 DEF Like, Backups
      <4>2. RestoreStarted(backup)
        BY <3>1, <4>1 DEF RestoreStarted
      <4> QED BY <3>1, <3>2, <4>2 DEF Fit
    <3>4. Clean(file, backup)
      BY <1>2, ProxyFacts DEF FullInv
    <3>5. \A k \in Keys : Prox(Values[k]) = {}
      BY <1>4, <3>1, <3>2, <3>4 DEF AllDone, Done, Clean, PlansClean
    <3>6. Values = rec.vals[Subject] /\ rec.before # None /\ rec.before.user = Subject
      BY <3>3 DEF Had, Values
    <3>7. rec.before.managed \subseteq Proxies /\ \A k \in Keys : Values[k] \in Lists
      <4>1. rec.before \in Backups /\ Values \in [Keys -> Lists]
        BY <1>1, <3>6, SubjectFacts, CleanBefore DEF FullInv, BaseInv
      <4> QED BY <4>1 DEF Backups
    <3>8. \A k \in Keys : ~(Len(Values[k]) = 1 /\ Values[k][1] \in rec.before.managed)
      <4> SUFFICES ASSUME NEW k \in Keys, Len(Values[k]) = 1, Values[k][1] \in rec.before.managed
                   PROVE  FALSE
        OBVIOUS
      <4>1. 1 \in DOMAIN Values[k]
        BY <3>7 DEF Lists
      <4> QED BY <3>5, <3>7, <4>1 DEF Prox, Range
    <3> QED BY <3>6, <3>8 DEF Edited
  <2>5. BackOwner'
    BY <1>1, <1>4, <2>1, <2>4 DEF BackOwner, Edited
  <2>6. BackPlans'
    BY <2>1 DEF BackPlans, InLoopOf, InLoop
  <2> QED BY <1>1, <1>2, <2>1, <2>3, <2>5, <2>6, BackStep
<1>5. CASE /\ pc' = "look" /\ mem'.i = mem.i /\ mem'.b = UndoBackup /\ mem'.loop = "restore"
  <2>1. /\ UndoBackup.user = Basis.user /\ UndoBackup.rb # None
        /\ UndoBackup.rb.plans = [k \in Keys |-> InversePlan(k, file[Subject][k])]
    BY <1>1, UndoBackupFacts DEF FullInv, BaseInv
  <2>2. Basis.user = Subject
    <3>1. mem.b # None => mem.b.user = Subject
      BY <1>1, <1>2 DEF FullInv, BaseInv, OwnInv, PlaceOwn, UndoOwn
    <3>2. Original.user = Subject
      BY <1>1, SubjectFacts DEF FullInv, BaseInv
    <3> QED BY <3>1, <3>2 DEF Basis
  <2>3. \A k \in Keys : Finished(k, PlanIn(UndoBackup, k)) => file[Subject][k] = Values[k]
    BY <1>1, <2>1, InversePlanFacts DEF PlanIn, FullInv, BaseInv
  <2>4. B' = UndoBackup /\ InLoop'
    BY <1>5 DEF B, InLoop
  <2>5. BackPlans'
    BY <1>1, <1>5, <2>1, <2>2, <2>3, <2>4, BackPlansStep
  <2> QED BY <1>1, <1>2, <1>5, <2>5, UndoingStep
<1>6. \/ Goto("stopped") \/ Goto("refused")
      \/ file[Subject] = Values /\ Goto("settle") /\ UNCHANGED backup
      \/ pc' = "look" /\ mem'.i = mem.i /\ mem'.b = UndoBackup /\ mem'.loop = "restore"
  BY <1>2, CurrentCases DEF Memory
<1> QED BY <1>3, <1>4, <1>5, <1>6

LEMMA SettleQuiet == ASSUME FullInv, Settle PROVE QuietInv'
<1>1. pc = "settle" /\ UNCHANGED <<store, rec, file, user>> /\ mem.i > 0
  BY SettleCases DEF FullInv, BaseInv, TypeInv, PlaceInv
<1>2. /\ rec # None /\ mem.i \in 1..Len(rec.users) /\ mem \in Memory /\ QuietInv /\ mem.i \in Nat
      /\ BackValues /\ BackOwner
  BY <1>1, SubjectQuiet
<1>3. CASE Goto("stopped")
  BY <1>1, <1>2, <1>3, LostStep DEF Goto
<1>4. CASE Down
  <2>1. pc' = "undo" /\ mem'.i = mem.i - 1 /\ mem'.b = None
    BY <1>1, <1>2, <1>4, DownFacts DEF Down
  <2>2. \A u, k : Raced(u, k)' = Raced(u, k)
    BY <1>1 DEF user, Raced
  <2>3. BackValues'
    <3> SUFFICES ASSUME NEW j \in 1..Len(rec.users), NEW k \in Keys, j > mem.i - 1, ~Raced(rec.users[j], k)
                 PROVE  file[rec.users[j]][k] = rec.vals[rec.users[j]][k]
      BY <1>1, <2>1, <2>2 DEF BackValues
    <3>1. j > mem.i \/ j = mem.i
      BY <1>2
    <3> QED BY <1>1, <1>2, <3>1 DEF BackValues, Undoing
  <2>4. ASSUME mem.i = 1 PROVE backup' = rec.before \/ (rec.before # None /\ \A k \in Keys : Edited(rec.before.user, k))
    <3>1. rec.before # None => Had(rec, Subject)
      BY <1>2, <2>4, UsersFacts DEF FullInv, BaseInv, Subject
    <3>2. CASE Had(rec, Subject) /\ mem.b # rec.before
      BY <1>4, <2>1, <3>2, SettleCases, <1>1 DEF Goto
    <3>3. CASE Had(rec, Subject) /\ mem.b = rec.before
      <4>1. mem.b # None /\ rec.before.user = Subject
        BY <3>3 DEF Had
      <4>2. backup' = backup
        BY <2>1, <3>3, SettleCases DEF Goto
      <4> QED BY <1>1, <1>2, <3>3, <4>1, <4>2 DEF BackOwner
    <3>4. CASE ~Had(rec, Subject) /\ mem.b # None
      BY <2>1, <3>1, <3>4, SettleCases DEF Goto
    <3>5. CASE ~Had(rec, Subject) /\ mem.b = None
      <4>1. rec.before = None /\ UNCHANGED backup
        BY <3>1, <3>5, SettleCases
      <4>2. backup = None \/ backup.user # Subject
        BY <1>1, <1>2, <3>5 DEF FullInv, BaseInv, OwnInv, PlaceOwn, UndoOwn
      <4>3. Fit(rec, backup) /\ Recording(store, rec)
        BY <1>2 DEF FullInv, BaseInv, OwnInv
      <4>4. Subject = rec.cand.user
        BY <2>4, <4>1, <4>3 DEF Recording, Subject
      <4>5. backup = None
        BY <4>1, <4>2, <4>3, <4>4 DEF Fit, Had, Gets
      <4> QED BY <4>1, <4>5
    <3> QED BY <3>2, <3>3, <3>4, <3>5
  <2>5. mem'.i = 0 => mem.i = 1
    BY <1>2, <2>1
  <2>6. BackOwner'
    BY <1>1, <2>1, <2>4, <2>5 DEF BackOwner, Edited
  <2>7. BackPlans'
    BY <2>1 DEF BackPlans, InLoopOf, InLoop
  <2> QED BY <1>1, <1>2, <2>1, <2>3, <2>6, <2>7, BackStep
<1> QED BY <1>3, <1>4, SettleCases

\* What a compensation leaves.
LEMMA UndoneFacts ==
  ASSUME FullInv, pc = "undo", mem.i = 0
  PROVE  /\ rec # None /\ Recording(store, rec)
         /\ backup = rec.before \/ (rec.before # None /\ Like(backup, rec.before)
                                      /\ \A k \in Keys : Edited(rec.before.user, k))
         /\ \A u \in Range(rec.users), k \in Keys : ~Raced(u, k) => file[u][k] = rec.vals[u][k]
         /\ \A u \in Users, k \in Keys : ~Raced(u, k) => file[u][k] = rec.vals[u][k]
<1>1. /\ rec # None /\ rec.users \in Seq(Users) /\ BackValues /\ BackOwner /\ Undoing
      /\ \A u \in Users, k \in Keys : ~Raced(u, k) => AtPlan(u, k)
  BY RecordTypes, QuietFacts DEF FullInv, BaseInv, TypeInv, PlaceInv, QuietInv, BackInv, Undoing
<1>2. Recording(store, rec) /\ (backup = rec.before \/ (rec.before # None /\ Like(backup, rec.before)))
  BY <1>1 DEF FullInv, BaseInv, OwnInv, PlaceOwn
<1>3. \A u \in Range(rec.users), k \in Keys : ~Raced(u, k) => file[u][k] = rec.vals[u][k]
  <2>1. DOMAIN rec.users = 1..Len(rec.users)
    BY <1>1
  <2>2. \A j \in 1..Len(rec.users) : j > mem.i
    OBVIOUS
  <2> QED BY <1>1, <2>1, <2>2 DEF BackValues, Range
<1>4. ASSUME NEW u \in Users, NEW k \in Keys, ~Raced(u, k) PROVE file[u][k] = rec.vals[u][k]
  <2>1. CASE Had(rec, u) \/ Gets(rec, u)
    <3>1. u \in Range(rec.users)
      <4>1. CASE rec.before = None
        BY <1>2, <2>1, <4>1 DEF Recording, Had, Gets, Range
      <4>2. CASE rec.before # None /\ rec.cand.on /\ rec.cand.user # rec.before.user
        <5>1. rec.users = <<rec.before.user, rec.cand.user>>
          BY <1>2, <4>2 DEF Recording
        <5> QED BY <2>1, <5>1 DEF Had, Gets, Range
      <4>3. CASE rec.before # None /\ ~(rec.cand.on /\ rec.cand.user # rec.before.user)
        <5>1. rec.users = <<rec.before.user>>
          BY <1>2, <4>3 DEF Recording
        <5> QED BY <2>1, <4>3, <5>1 DEF Had, Gets, Range
      <4> QED BY <4>1, <4>2, <4>3
    <3> QED BY <1>3, <1>4, <3>1
  <2>2. CASE ~Had(rec, u) /\ ~Gets(rec, u)
    BY <1>1, <1>4, <2>2 DEF AtPlan
  <2> QED BY <2>1, <2>2
<1> QED BY <1>1, <1>2, <1>3, <1>4 DEF BackOwner

LEMMA UndoneQuiet == ASSUME FullInv, Undone PROVE QuietInv'
<1>1. pc = "undo" /\ mem.i = 0 /\ rec' = None /\ UNCHANGED <<store, backup, file, mine, hand, race>>
  BY DEF Undone, user
<1>2. /\ rec # None /\ Recording(store, rec)
      /\ backup = rec.before \/ (rec.before # None /\ Like(backup, rec.before)
                                   /\ \A k \in Keys : Edited(rec.before.user, k))
      /\ \A u \in Users, k \in Keys : ~Raced(u, k) => file[u][k] = rec.vals[u][k]
  BY <1>1, UndoneFacts
<1>3. \A u \in Users, k \in Keys : Raced(u, k)' = Raced(u, k) /\ (~Raced(u, k) => AtPlan(u, k))
  BY <1>1, <1>2, QuietFacts DEF Raced
<1>4. rec.before \in Backups \cup {None}
  BY <1>2, CleanBefore DEF FullInv
<1>5. /\ rec.before # None <=> store.on
      /\ rec.before # None => rec.before.user = store.user /\ store.proxy \in rec.before.managed
                              /\ ~RestoreStarted(rec.before)
  BY <1>2 DEF Recording
<1>6. backup # None <=> rec.before # None
  BY <1>2 DEF Like
<1>7. rec.before # None => backup.user = rec.before.user /\ backup.orig = rec.before.orig
  BY <1>2, <1>4 DEF Like, Backups
<1>8. \A u \in Users : Had(rec, u) <=> store.on /\ u = store.user
  BY <1>5 DEF Had
<1>9. ASSUME NEW u \in Users, NEW k \in Keys, ~Raced(u, k) PROVE AtRest(u, k)'
  <2>1. AtPlan(u, k) /\ file[u][k] = rec.vals[u][k]
    BY <1>2, <1>3, <1>9
  <2> QED BY <1>1, <1>5, <1>7, <1>8, <2>1 DEF AtPlan, AtRest
<1>10. ASSUME backup # None, RestoreStarted(backup), NEW k \in Keys, ~Raced(backup.user, k)
       PROVE  <<backup.user, k>> \in hand
  <2>1. backup # rec.before /\ Edited(rec.before.user, k) /\ rec.before # None
    BY <1>2, <1>5, <1>10
  <2>2. backup.user = rec.before.user /\ backup.user \in Users
    BY <1>4, <1>7, <2>1 DEF Backups
  <2>3. AtPlan(backup.user, k) /\ Had(rec, backup.user)
    BY <1>3, <1>10, <2>1, <2>2 DEF Had
  <2>4. rec.vals[backup.user][k] # <<store.proxy>>
    <3>1. store.proxy \in rec.before.managed
      BY <1>5, <2>1
    <3>2. Len(<<store.proxy>>) = 1 /\ <<store.proxy>>[1] = store.proxy
      OBVIOUS
    <3> QED BY <2>1, <2>2, <3>1, <3>2 DEF Edited
  <2> QED BY <2>3, <2>4 DEF AtPlan
<1>11. RelInv'
  BY <1>1, <1>3, <1>9 DEF RelInv
<1>12. StuckInv'
  <2>1. backup # None => backup.user \in Users
    BY <1>4, <1>6, <1>7 DEF Backups
  <2> QED BY <1>1, <1>3, <1>10, <2>1 DEF StuckInv
<1> QED BY <1>1, <1>11, <1>12 DEF QuietInv, ForwardInv, BackInv

LEMMA ExitQuiet ==
  ASSUME FullInv, rec # None, Exit, UNCHANGED <<store, rec, file, user>>
  PROVE  QuietInv'
BY QuietFacts, LostStep DEF Exit

\* A kill inside an exchange: of what the command handles nothing is known.
LEMMA KillInsideQuiet == ASSUME FullInv, KillInside PROVE QuietInv'
<1>1. UNCHANGED <<store, rec, user>> /\ rec # None /\ pc' = "idle"
  BY KillInsideFacts DEF FullInv, BaseInv, durable, Exit
<1>2. PICK u \in Users :
        /\ \A w \in Users, j \in Keys : w # u => file'[w][j] = file[w][j]
        /\ \/ pc = "apply" /\ u = Owner
           \/ pc = "step" /\ u = B.user
  BY KillInsideFacts DEF FullInv, BaseInv
<1>3. Had(rec, u) \/ Gets(rec, u)
  <2>1. CASE pc = "apply" /\ u = Owner
    <3>1. rec.cand.on
      BY <2>1, ApplyingFacts DEF Applying, FullInv, BaseInv
    <3> QED BY <2>1, <3>1 DEF Gets, Owner
  <2>2. CASE pc = "step" /\ u = B.user
    BY <2>2, LoopQuietFacts DEF InLoop
  <2> QED BY <1>2, <2>1, <2>2
<1>4. \A w \in Users, j \in Keys : ~Had(rec, w) /\ ~Gets(rec, w) => file'[w][j] = file[w][j]
  BY <1>2, <1>3
<1> QED BY <1>1, <1>4, QuietFacts, LostStep

\* An edit without a record: the key is now in the user's own hands.
LEMMA EditRest ==
  ASSUME FullInv, rec = None, NEW u \in Users, NEW k \in Keys, NEW v \in Edits(u, k), Edit(u, k, v)
  PROVE  QuietInv'
<1>1. /\ UNCHANGED <<store, rec, backup, race>> /\ hand' = hand \cup {<<u, k>>} /\ file' = [file EXCEPT ![u][k] = v]
      /\ mine' = [mine EXCEPT ![u][k] = IF \E i \in DOMAIN v : v[i] \in Proxies THEN Append(@, added) ELSE v]
      /\ file \in [Users -> [Keys -> Lists]] /\ mine \in [Users -> [Keys -> Lists]]
  BY DEF Edit, durable, FullInv, BaseInv, TypeInv, DataInv
<1>2. v \in Lists /\ file[u][k] \in Lists /\ mine[u][k] \in Lists
  BY <1>1, EditsTypes DEF FullInv, BaseInv
<1>3. \A w \in Users, j \in Keys : Raced(w, j)' = Raced(w, j) /\ (~Raced(w, j) => AtRest(w, j))
  BY <1>1 DEF FullInv, QuietInv, RelInv, Raced
<1>4. RestInv /\ Within(file, backup) /\ Sound(backup)
  BY DEF FullInv, BaseInv, OwnInv, ProxyInv, TypeInv, DataInv
<1>5. Prox(v) \subseteq Prox(file[u][k])
      /\ (Prox(v) # {} => v = Append(file[u][k], added) /\ Expressible(k, v))
  <2>1. v \in {<<>>, <<own>>, <<added>>, Append(file[u][k], added)} /\ Expressible(k, v)
    BY DEF Edits
  <2> QED BY <1>2, <2>1, ProxValues
<1>6. Prox(v) = {} => mine'[u][k] = v
  BY <1>1, <1>2, Contained DEF ContainsManaged
<1>7. Prox(v) # {} => mine'[u][k] = Append(mine[u][k], added) /\ ContainsManaged(v, Proxies)
  <2>1. ContainsManaged(v, Proxies) <=> Prox(v) # {}
    <3>1. ContainsManaged(v, Proxies) <=> Prox(v) \cap Proxies # {}
      BY <1>2, Contained
    <3> QED BY <3>1 DEF Prox
  <2>2. ContainsManaged(v, Proxies) => mine'[u][k] = Append(mine[u][k], added)
    BY <1>1 DEF ContainsManaged
  <2> QED BY <2>1, <2>2
<1>8. ASSUME ~Raced(u, k) PROVE AtRest(u, k)'
  <2>1. file'[u][k] = v /\ <<u, k>> \in hand'
    BY <1>1
  <2>2. CASE store.on /\ u = store.user
    <3>1. backup # None /\ backup.orig[k] \in Lists
      BY <1>4, <2>2 DEF RestInv, Sound, Backups
    <3>2. mine'[u][k] = Given(k, backup.orig[k], v)
      <4>1. CASE Prox(v) = {}
        BY <1>2, <1>6, <3>1, <4>1, GivenClean
      <4>2. CASE Prox(v) # {}
        <5>1. mine[u][k] = Given(k, backup.orig[k], file[u][k])
          BY <1>3, <1>8, <2>2 DEF AtRest
        <5>2. /\ Expressible(k, Append(file[u][k], added)) /\ v = Append(file[u][k], added)
              /\ ContainsManaged(Append(file[u][k], added), Proxies)
          BY <1>5, <1>7, <4>2
        <5>3. Given(k, backup.orig[k], Append(file[u][k], added)) =
                Append(Given(k, backup.orig[k], file[u][k]), added)
          BY <1>2, <3>1, <5>2, GivenAppend
        <5> QED BY <1>7, <4>2, <5>1, <5>2, <5>3
      <4> QED BY <4>1, <4>2
    <3> QED BY <1>1, <2>1, <2>2, <3>2 DEF AtRest
  <2>3. CASE ~(store.on /\ u = store.user)
    <3>1. HeldBy(backup, u) = {}
      BY <1>4, <2>3 DEF RestInv, HeldBy
    <3>2. Prox(v) = {}
      BY <1>4, <1>5, <3>1 DEF Within
    <3> QED BY <1>1, <1>6, <2>1, <2>3, <3>2 DEF AtRest
  <2> QED BY <2>2, <2>3
<1>9. ASSUME NEW w \in Users, NEW j \in Keys, w # u \/ j # k, ~Raced(w, j) PROVE AtRest(w, j)'
  <2>1. file'[w][j] = file[w][j] /\ mine'[w][j] = mine[w][j] /\ AtRest(w, j)
    BY <1>1, <1>3, <1>9
  <2> QED BY <1>1, <2>1 DEF AtRest
<1>10. RelInv'
  BY <1>1, <1>3, <1>8, <1>9 DEF RelInv
<1>11. StuckInv'
  <2>1. backup # None => backup.user \in Users
    BY <1>4 DEF Sound, Backups
  <2> QED BY <1>1, <1>3, <2>1 DEF StuckInv, FullInv, QuietInv
<1> QED BY <1>1, <1>10, <1>11 DEF QuietInv, ForwardInv, BackInv

\* An edit during a command: of the key nothing more is said.
LEMMA EditRaced ==
  ASSUME FullInv, rec # None, NEW u \in Users, NEW k \in Keys, NEW v \in Edits(u, k), Edit(u, k, v)
  PROVE  QuietInv'
<1>1. /\ UNCHANGED <<store, rec, backup, pc, mem, hand>> /\ file' = [file EXCEPT ![u][k] = v]
      /\ race' = race \cup {<<u, k, Mistaken(u, k, v)>>}
      /\ \A w \in Users, j \in Keys : w # u \/ j # k => file'[w][j] = file[w][j] /\ mine'[w][j] = mine[w][j]
  BY DEF Edit, durable, FullInv, BaseInv, TypeInv, DataInv
<1>2. Mistaken(u, k, v) \in BOOLEAN
  BY DEF Mistaken, Edited
<1>3. Raced(u, k)' /\ \A w, j : Raced(w, j) => Raced(w, j)'
  BY <1>1, <1>2 DEF Raced
<1>4. QuietInv /\ \A w \in Users, j \in Keys : ~Raced(w, j) => AtPlan(w, j) /\ Forward(w, j)
  BY QuietFacts
<1>5. /\ B' = B /\ Below' = Below /\ InLoop' = InLoop /\ Proxy' = Proxy /\ Subject' = Subject /\ Values' = Values
      /\ Undoing' = Undoing
  BY <1>1 DEF B, Below, InLoop, Proxy, Subject, Values, Undoing, InUndo
<1>6. ASSUME NEW w \in Users, NEW j \in Keys, ~Raced(w, j)' PROVE AtPlan(w, j)' /\ Forward(w, j)'
  <2>1. /\ file'[w][j] = file[w][j] /\ mine'[w][j] = mine[w][j] /\ AtPlan(w, j) /\ Forward(w, j)
    BY <1>1, <1>3, <1>4, <1>6
  <2>2. AtPlan(w, j)'
    BY <1>1, <2>1 DEF AtPlan
  <2>3. Releasing(w, j) => Releasing(w, j)'
    BY <1>1, <1>5, <2>1 DEF Releasing
  <2>4. Forward(w, j)'
    BY <1>1, <1>5, <2>1, <2>3 DEF Forward, InLoopOf
  <2> QED BY <2>2, <2>4
<1>7. RelInv' /\ ForwardInv'
  BY <1>1, <1>4, <1>6 DEF RelInv, ForwardInv, QuietInv
<1>8. BackValues'
  <2>1. BackValues
    BY <1>4 DEF QuietInv, BackInv
  <2>2. ASSUME Undoing, NEW j \in 1..Len(rec.users) PROVE rec.users[j] \in Users
    BY RecordTypes DEF FullInv, BaseInv, TypeInv
  <2> QED BY <1>1, <1>3, <1>5, <2>1, <2>2 DEF BackValues
<1>9. BackPlans'
  <2>1. BackPlans
    BY <1>4 DEF QuietInv, BackInv
  <2>2. InLoop => B.user \in Users
    BY LoopTypes DEF FullInv, BaseInv
  <2> QED BY <1>1, <1>3, <1>5, <2>1, <2>2 DEF BackPlans, InLoopOf
<1>10. BackOwner'
  BY <1>1, <1>4, <1>5 DEF BackOwner, QuietInv, BackInv, Edited
<1> QED BY <1>1, <1>7, <1>8, <1>9, <1>10 DEF QuietInv, BackInv, StuckInv

LEMMA StutterQuiet ==
  ASSUME QuietInv, UNCHANGED <<store, rec, backup, file, pc, mem, user>>
  PROVE  QuietInv'
<1> USE DEF user
<1>1. \A u, k : Raced(u, k)' = Raced(u, k)
  BY DEF Raced
<1>2. /\ B' = B /\ Below' = Below /\ InLoop' = InLoop /\ Proxy' = Proxy /\ Subject' = Subject /\ Values' = Values
      /\ Undoing' = Undoing
  BY DEF B, Below, InLoop, Proxy, Subject, Values, Undoing, InUndo
<1>3. RelInv'
  BY <1>1 DEF QuietInv, RelInv, AtRest, AtPlan
<1>4. ForwardInv'
  BY <1>1, <1>2 DEF QuietInv, ForwardInv, Forward, Releasing, InLoopOf
<1>5. BackInv'
  BY <1>1, <1>2 DEF QuietInv, BackInv, BackValues, BackPlans, BackOwner, InLoopOf, Edited
<1>6. StuckInv'
  BY <1>1 DEF QuietInv, StuckInv
<1> QED BY <1>3, <1>4, <1>5, <1>6 DEF QuietInv

LEMMA QuietNext == FullInv /\ [Next]_vars => QuietInv'
<1> SUFFICES ASSUME FullInv, [Next]_vars PROVE QuietInv'
  OBVIOUS
<1>1. ASSUME NEW cand \in Settings, Plan(cand) PROVE QuietInv'
  BY <1>1, PlanQuiet
<1>2. CASE Take \/ Reject \/ Check \/ Apply \/ Verify \/ Rollback \/ Release \/ Commit
  BY <1>2, TakeQuiet, RejectQuiet, CheckQuiet, ApplyQuiet, VerifyQuiet, RollbackQuiet, ReleaseQuiet,
     CommitQuiet
<1>3. CASE Look \/ Step \/ Tick \/ Restored
  BY <1>3, LookQuiet, StepQuiet, TickQuiet, RestoredQuiet
<1>4. CASE Compensate \/ Undo \/ Current \/ Settle \/ Undone
  BY <1>4, CompensateQuiet, UndoQuiet, CurrentQuiet, SettleQuiet, UndoneQuiet
<1>5. CASE GiveUp \/ Kill \/ KillInside
  <2>1. CASE GiveUp \/ Kill
    <3>1. /\ pc # "idle" /\ Exit /\ UNCHANGED <<durable, file, user>>
      BY <2>1 DEF GiveUp, Kill
    <3>2. rec # None
      BY <3>1 DEF FullInv, BaseInv, TypeInv, PlaceInv
    <3> QED BY <3>1, <3>2, ExitQuiet DEF durable
  <2> QED BY <1>5, <2>1, KillInsideQuiet
<1>6. ASSUME NEW u \in Users, NEW k \in Keys, NEW v \in Edits(u, k), Edit(u, k, v) PROVE QuietInv'
  BY <1>6, EditRest, EditRaced
<1>7. CASE UNCHANGED vars
  BY <1>7, StutterQuiet DEF vars, durable, FullInv
<1> QED BY <1>1, <1>2, <1>3, <1>4, <1>5, <1>6, <1>7 DEF Next

-----------------------------------------------------------------------------
(* What is hidden when a record is given up                                *)

\* The users whose keys a compensation has found readable.
Passed(j) == j > mem.i \/ (j = mem.i /\ (pc = "settle" \/ InLoopOf({"restore"})))
ReadInv == Undoing => \A j \in 1..Len(rec.users) : Passed(j) => AllReadable(rec.users[j])

LEMMA ParkedSame == ASSUME parked' = parked PROVE SameHidden
BY DEF SameHidden, Hidden

LEMMA ReadStarts == Init => ReadInv
BY DEF Init, ReadInv, Undoing, InUndo, InLoop

LEMMA ReadAway == ASSUME ~Undoing' PROVE ReadInv'
BY DEF ReadInv

\* A step that passes nobody.
LEMMA ReadKept ==
  ASSUME BaseInv, ReadInv, SameHidden, rec' = rec, rec # None,
         Undoing' => Undoing, \A j \in 1..Len(rec.users) : Passed(j)' => Passed(j)
  PROVE  ReadInv'
<1>1. rec.users \in Seq(Users)
  BY DEF BaseInv, TypeInv, DataInv, Records
<1>2. \A u \in Users : AllReadable(u) => AllReadable(u)'
  BY DEF SameHidden, AllReadable, Readable
<1> QED BY <1>1, <1>2 DEF ReadInv

\* The loop over the keys stays the one it is.
LEMMA ReadLoop ==
  ASSUME FullInv, ReadInv, SameHidden, InLoop, rec' = rec, mem'.loop = mem.loop, mem'.i = mem.i, InLoop'
  PROVE  ReadInv'
<1>1. rec # None /\ FullInv
  BY LoopQuietFacts
<1>2. (InUndo' <=> InUndo) /\ pc' # "settle" /\ (Undoing' => Undoing)
  BY DEF InUndo, Undoing, InLoop
<1>3. \A j : Passed(j)' => Passed(j)
  BY <1>2 DEF Passed, InLoopOf
<1> QED BY <1>1, <1>2, <1>3, ReadKept DEF FullInv

LEMMA ReadRecorded ==
  ASSUME FullInv, InLoop, NEW p \in RestorePlans, Counted(mem.k, p), Recorded(p)
  PROVE  mem'.loop = mem.loop /\ mem'.i = mem.i /\ InLoop'
<1>1. TypeInv /\ WithPlan(mem.k, p) \in Backups /\ Sound(WithPlan(mem.k, p)) /\ mem \in Memory
  BY LoopTypes, WithPlanSound DEF FullInv, BaseInv
<1>2. \A e \in Errors : ToKey(e, WithPlan(mem.k, p)) => mem'.loop = mem.loop /\ mem'.i = mem.i /\ InLoop'
  BY <1>1, ToKeyFacts DEF InLoop
<1>3. {"none", "fault"} \subseteq Errors
  BY DEF Errors
<1>4. CASE pc' = "step" /\ mem' = [mem EXCEPT !.b = WithPlan(mem.k, p)]
  BY <1>1, <1>4 DEF Memory, InLoop
<1> QED BY <1>2, <1>3, <1>4 DEF Recorded

LEMMA ReadToKey ==
  ASSUME FullInv, InLoop, NEW e \in Errors, ToKey(e, B)
  PROVE  mem'.loop = mem.loop /\ mem'.i = mem.i /\ InLoop'
<1>1. TypeInv /\ B \in Backups /\ Sound(B)
  BY LoopTypes DEF FullInv, BaseInv
<1> QED BY <1>1, ToKeyFacts DEF InLoop

LEMMA LoopRead == ASSUME FullInv, ReadInv, Look \/ Step \/ Tick PROVE ReadInv'
<1>1. {"none", "parked", "differs", "fault"} \subseteq Errors /\ TypeInv
  BY DEF Errors, FullInv, BaseInv
<1>2. CASE Look
  <2>1. pc = "look" /\ InLoop /\ rec' = rec /\ SameHidden
    BY <1>2, LookCases, ParkedSame DEF InLoop
  <2>2. PlanOf(mem.k) = None => NewPlan \in RestorePlans /\ Counted(mem.k, NewPlan)
    BY <1>1, <2>1, NewPlanFacts
  <2>3. mem'.loop = mem.loop /\ mem'.i = mem.i /\ InLoop'
    BY <1>1, <1>2, <2>1, <2>2, LookCases, ReadRecorded, ReadToKey DEF Goto, InLoop
  <2> QED BY <2>1, <2>3, ReadLoop
<1>3. CASE Step
  <2>1. pc = "step" /\ InLoop /\ rec' = rec /\ SameHidden
    BY <1>1, <1>3, StepCases DEF InLoop, durable
  <2>2. mem'.loop = mem.loop /\ mem'.i = mem.i /\ InLoop'
    BY <1>1, <1>3, <2>1, StepCases, ReadToKey DEF Goto, InLoop
  <2> QED BY <2>1, <2>2, ReadLoop
<1>4. CASE Tick
  <2>1. pc = "tick" /\ InLoop /\ rec' = rec /\ SameHidden
    BY <1>4, TickCases, ParkedSame DEF InLoop
  <2>2. LET p == [Cur EXCEPT !.next = @ + 1] IN p \in RestorePlans /\ Counted(mem.k, p)
    BY <1>1, <2>1, AtStep
  <2>3. mem'.loop = mem.loop /\ mem'.i = mem.i /\ InLoop'
    BY <1>1, <1>4, <2>1, <2>2, TickCases, ReadRecorded, ReadToKey
  <2> QED BY <2>1, <2>3, ReadLoop
<1> QED BY <1>2, <1>3, <1>4

LEMMA RestoredRead == ASSUME FullInv, ReadInv, Restored PROVE ReadInv'
<1>1. pc = "restored" /\ InLoop /\ rec' = rec /\ SameHidden
  BY ParkedSame DEF Restored, InLoop
<1>2. rec # None /\ mem \in Memory /\ mem.loop \in Loops
  BY <1>1, LoopQuietFacts
<1>3. \/ pc' \in {"failed", "reject", "refused", "stopped", "applied", "take"}
      \/ /\ mem'.i = mem.i
         /\ \/ pc' = "current" /\ mem.loop \in {"inverse", "finish"}
            \/ pc' = "settle" /\ mem.loop = "restore"
  BY <1>1, <1>2, RestoredCases DEF Ended, Memory, Loops
<1>4. CASE pc' \in {"failed", "reject", "refused", "stopped", "applied", "take"}
  BY <1>4, ReadAway DEF Undoing, InUndo, InLoop
<1>5. CASE mem'.i = mem.i /\ pc' = "current" /\ mem.loop \in {"inverse", "finish"}
  <2>1. Undoing /\ \A j : Passed(j)' => Passed(j)
    BY <1>1, <1>5 DEF Undoing, InUndo, Passed, InLoopOf, InLoop
  <2> QED BY <1>1, <1>2, <2>1, ReadKept DEF FullInv
<1>6. CASE mem'.i = mem.i /\ pc' = "settle" /\ mem.loop = "restore"
  <2>1. Undoing /\ \A j : Passed(j)' => Passed(j)
    BY <1>1, <1>6 DEF Undoing, InUndo, Passed, InLoopOf, InLoop
  <2> QED BY <1>1, <1>2, <2>1, ReadKept DEF FullInv
<1> QED BY <1>3, <1>4, <1>5, <1>6

LEMMA CompensateRead == ASSUME FullInv, Compensate PROVE ReadInv'
<1>1. pc' = "undo" /\ rec' = rec /\ mem'.i = Len(rec.users)
  BY DEF Compensate, Fresh, durable
<1>2. rec.users \in Seq(Users)
  BY CompensateTypes, RecordTypes DEF Compensate, FullInv, BaseInv, TypeInv, PlaceInv
<1>3. \A j \in 1..Len(rec.users) : ~Passed(j)'
  BY <1>1, <1>2 DEF Passed, InLoopOf, InLoop
<1> QED BY <1>1, <1>3 DEF ReadInv

LEMMA UndoRead == ASSUME FullInv, ReadInv, Undo PROVE ReadInv'
<1>1. pc = "undo" /\ mem.i > 0 /\ rec' = rec /\ SameHidden
  BY UndoCases, ParkedSame DEF durable
<1>2. rec # None /\ mem \in Memory
  BY <1>1, SubjectQuiet
<1>3. CASE Goto("refused")
  BY <1>3, ReadAway DEF Goto, Undoing, InUndo, InLoop
<1>4. CASE mem'.i = mem.i /\ (pc' = "current" \/ (pc' = "look" /\ mem'.loop \in {"inverse", "finish"}))
  <2>1. Undoing /\ \A j : Passed(j)' => Passed(j)
    BY <1>1, <1>4 DEF Undoing, Passed, InLoopOf, InLoop
  <2> QED BY <1>1, <1>2, <2>1, ReadKept DEF FullInv
<1>5. Goto("refused") \/ (mem'.i = mem.i /\ (pc' = "current" \/ (pc' = "look" /\ mem'.loop \in {"inverse", "finish"})))
  BY <1>2, UndoCases DEF Memory
<1> QED BY <1>3, <1>4, <1>5

\* Here the keys of the user are read.
LEMMA CurrentRead == ASSUME FullInv, ReadInv, Current PROVE ReadInv'
<1>1. pc = "current" /\ rec' = rec /\ SameHidden /\ mem.i > 0
  BY CurrentCases, ParkedSame DEF FullInv, BaseInv, TypeInv, PlaceInv
<1>2. rec # None /\ mem.i \in 1..Len(rec.users) /\ mem \in Memory /\ Subject \in Users /\ rec.users \in Seq(Users)
  BY <1>1, SubjectQuiet
<1>3. pc' \in {"stopped", "refused"} \/ (AllReadable(Subject) /\ mem'.i = mem.i)
  BY <1>1, <1>2 DEF Current, SaveBackup, Goto, Memory
<1>4. CASE pc' \in {"stopped", "refused"}
  BY <1>4, ReadAway DEF Undoing, InUndo, InLoop
<1>5. CASE AllReadable(Subject) /\ mem'.i = mem.i
  <2>1. \A u \in Users : AllReadable(u) => AllReadable(u)'
    BY <1>1 DEF SameHidden, AllReadable, Readable
  <2>2. ASSUME NEW j \in 1..Len(rec.users), Passed(j)' PROVE AllReadable(rec.users[j])
    <3>1. j > mem.i \/ j = mem.i
      BY <1>5, <2>2 DEF Passed
    <3>2. j > mem.i => Passed(j)
      BY DEF Passed
    <3> QED BY <1>1, <1>5, <3>1, <3>2 DEF ReadInv, Undoing, Subject
  <2> QED BY <1>1, <1>2, <2>1, <2>2 DEF ReadInv
<1> QED BY <1>3, <1>4, <1>5

LEMMA SettleRead == ASSUME FullInv, ReadInv, Settle PROVE ReadInv'
<1>1. pc = "settle" /\ rec' = rec /\ SameHidden /\ mem.i > 0
  BY SettleCases, ParkedSame DEF FullInv, BaseInv, TypeInv, PlaceInv
<1>2. rec # None /\ mem \in Memory /\ mem.i \in Nat
  BY <1>1, SubjectQuiet
<1>3. CASE Goto("stopped")
  BY <1>3, ReadAway DEF Goto, Undoing, InUndo, InLoop
<1>4. CASE Down
  <2>1. pc' = "undo" /\ mem'.i = mem.i - 1
    BY <1>1, <1>2, <1>4, DownFacts DEF Down
  <2>2. Undoing /\ \A j \in 1..Len(rec.users) : Passed(j)' => Passed(j)
    BY <1>1, <1>2, <2>1 DEF Undoing, Passed, InLoopOf, InLoop
  <2> QED BY <1>1, <1>2, <2>2, ReadKept DEF FullInv
<1> QED BY <1>3, <1>4, SettleCases

LEMMA ReadNext == FullInv /\ ReadInv /\ [Next]_vars => ReadInv'
<1> SUFFICES ASSUME FullInv, ReadInv, [Next]_vars PROVE ReadInv'
  OBVIOUS
<1>1. ASSUME NEW cand \in Settings, Plan(cand) PROVE ReadInv'
  BY <1>1, ReadAway DEF Plan, Undoing, InUndo, InLoop
<1>2. CASE Take \/ Reject \/ Check \/ Apply \/ Verify \/ Rollback \/ Release \/ Commit
  <2>1. mem \in Memory \/ Commit
    BY <1>2 DEF FullInv, BaseInv, TypeInv, PlaceInv
  <2>2. \/ pc' \in {"check", "reject", "failed", "apply", "verify", "rollback", "applied", "idle"}
        \/ pc' = "look" /\ mem'.loop \in {"handover", "rollback", "release"}
    BY <1>2, <2>1, TakeCases, RejectCases, CheckCases, ApplyCases, VerifyCases, RollbackCases, ReleaseCases
       DEF Goto, Failing, NextKey, Commit, Exit, Memory, FullInv, BaseInv
  <2> QED BY <2>2, ReadAway DEF Undoing, InUndo, InLoop
<1>3. CASE Look \/ Step \/ Tick \/ Restored
  BY <1>3, LoopRead, RestoredRead
<1>4. CASE Compensate \/ Undo \/ Current \/ Settle
  BY <1>4, CompensateRead, UndoRead, CurrentRead, SettleRead
<1>5. CASE Undone \/ GiveUp \/ Kill \/ KillInside
  <2>1. pc' = "idle"
    BY <1>5 DEF Undone, GiveUp, Kill, KillInside, Exit
  <2> QED BY <2>1, ReadAway DEF Undoing, InUndo, InLoop
<1>6. CASE UNCHANGED <<rec, parked, pc, mem>>
  <2>1. (Undoing' <=> Undoing) /\ \A j : Passed(j)' <=> Passed(j)
    BY <1>6 DEF Undoing, InUndo, InLoop, Passed, InLoopOf
  <2>2. rec # None \/ ~Undoing
    BY DEF FullInv, BaseInv, TypeInv, PlaceInv, Undoing, InUndo, InLoop
  <2> QED BY <1>6, <2>1, <2>2, ParkedSame, ReadKept, ReadAway DEF FullInv
<1>7. ASSUME NEW u \in Users, NEW k \in Keys, NEW v \in Edits(u, k), Edit(u, k, v) PROVE ReadInv'
  BY <1>6, <1>7 DEF Edit, durable
<1>8. CASE UNCHANGED vars
  BY <1>6, <1>8 DEF vars, durable
<1> QED BY <1>1, <1>2, <1>3, <1>4, <1>5, <1>7, <1>8 DEF Next

-----------------------------------------------------------------------------
(* The theorems                                                            *)

\* What the ownership, the addresses and the keys nobody has raced are, at
\* rest and at every place of a command and of its compensation.
THEOREM InvariantHolds == Spec => []FullInv
<1>1. Init => FullInv
  BY BaseInit, InitProxy, InitQuiet DEF FullInv
<1>2. FullInv /\ [Next]_vars => FullInv'
  BY BaseStep, ProxyNext, QuietNext DEF FullInv
<1> QED BY <1>1, <1>2, PTL DEF Spec

\* Between commands, when no recovery is owed, every key nobody has edited
\* during a command has, as git and npm find it, the value the settings ask
\* for, and the ownership is held if and only if the scene is on (applyDev,
\* restoreDev and compensateRuntimeDev).
THEOREM RestStaysClean == Spec => []RestIsClean
<1>1. ASSUME FullInv PROVE RestIsClean
  <2> SUFFICES ASSUME pc = "idle", rec = None PROVE RestIsClean
    BY DEF RestIsClean
  <2>1. RestInv /\ StuckInv /\ \A u \in Users, k \in Keys : ~Raced(u, k) => AtRest(u, k)
    BY <1>1 DEF FullInv, BaseInv, OwnInv, QuietInv, RelInv
  <2>2. CASE store.on
    <3>1. backup # None /\ backup.user = store.user /\ backup.rb = None /\ store.proxy \in backup.managed
      BY <2>1, <2>2 DEF RestInv
    <3>2. RestoreStarted(backup) => \A k \in Keys : <<store.user, k>> \in hand \/ Raced(store.user, k)
      BY <2>1, <3>1 DEF StuckInv
    <3> QED BY <2>1, <2>2, <3>1, <3>2 DEF RestIsClean, AtRest
  <2>3. CASE ~store.on
    BY <2>1, <2>3 DEF RestInv, RestIsClean, AtRest
  <2> QED BY <2>2, <2>3
<1> QED BY <1>1, InvariantHolds, PTL

\* When a change has failed and its record is given up, git and npm find every
\* key nobody edited meanwhile as it was before, the ownership is as it was, and
\* only files of git can still be under a reserved name, of keys that git finds
\* empty: whichever kills and failed calls there were on the way
\* (compensateRuntimeDev).
THEOREM FailuresAreUndone == Spec => FailureIsUndone
<1>1. ASSUME FullInv, ReadInv, [Next]_vars, rec # None, rec' = None, store' = store
      PROVE  /\ backup' # rec.before =>
                  /\ rec.before # None /\ backup' = [rec.before EXCEPT !.plans = backup'.plans]
                  /\ \A k \in Keys : Edited(rec.before.user, k)
             /\ \A u \in Range(rec.users), k \in Keys :
                  /\ ~Raced(u, k) => file'[u][k] = rec.vals[u][k]
                  /\ Hidden(u, k) => k \in Git /\ file'[u][k] = <<>>
  <2>1. Commit => store' # store
    BY <1>1 DEF Commit, FullInv, QuietInv, RelInv
  <2>2. CASE Undone
    <3>1. pc = "undo" /\ mem.i = 0 /\ UNCHANGED <<backup, file>>
      BY <2>2 DEF Undone
    <3>2. /\ backup = rec.before \/ (rec.before # None /\ Like(backup, rec.before)
                                      /\ \A k \in Keys : Edited(rec.before.user, k))
          /\ \A u \in Range(rec.users), k \in Keys : ~Raced(u, k) => file[u][k] = rec.vals[u][k]
      BY <1>1, <3>1, UndoneFacts
    <3>3. rec.users \in Seq(Users)
      BY <1>1, <3>1, RecordTypes DEF FullInv, BaseInv, TypeInv
    <3>4. ASSUME NEW u \in Range(rec.users), NEW k \in Keys, Hidden(u, k)
          PROVE  k \in Git /\ file[u][k] = <<>>
      <4>1. PICK j \in 1..Len(rec.users) : rec.users[j] = u
        BY <3>3 DEF Range
      <4>2. Passed(j) /\ u \in Users
        BY <3>1, <3>3, <4>1 DEF Passed
      <4>3. AllReadable(u)
        BY <1>1, <3>1, <4>1, <4>2 DEF ReadInv, Undoing
      <4> QED BY <1>1, <3>4, <4>2, <4>3 DEF AllReadable, Readable, FullInv, BaseInv, TypeInv, DataInv
    <3> QED BY <3>1, <3>2, <3>4 DEF Like
  <2>3. rec' = rec \/ Commit \/ Undone \/ (rec = None)
    BY <1>1 DEF Next, Plan, Take, Reject, Check, Apply, Verify, Rollback, Release, Look, Step, Tick, Restored,
                Compensate, Undo, Current, Settle, GiveUp, Edit, Kill, KillInside, vars, durable
  <2> QED BY <1>1, <2>1, <2>2, <2>3
<1>2. FullInv /\ ReadInv /\ [Next]_vars =>
        [rec # None /\ rec' = None /\ store' = store =>
           /\ backup' # rec.before =>
                /\ rec.before # None /\ backup' = [rec.before EXCEPT !.plans = backup'.plans]
                /\ \A k \in Keys : Edited(rec.before.user, k)
           /\ \A u \in Range(rec.users), k \in Keys :
                /\ ~Raced(u, k) => file'[u][k] = rec.vals[u][k]
                /\ Hidden(u, k) => k \in Git /\ file'[u][k] = <<>>]_vars
  BY <1>1
<1>3. Init => ReadInv
  BY ReadStarts
<1> QED BY <1>2, <1>3, ReadNext, InvariantHolds, PTL DEF Spec, FailureIsUndone
===============================================================================
