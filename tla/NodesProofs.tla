------------------------------ MODULE NodesProofs ------------------------------
(***************************************************************************)
(* What Nodes promises, proved for any links, subscriptions, scenes and    *)
(* commands.  The inductive invariant IInv adds to StoreIsValid and        *)
(* ResultsAreTheirs what a command has in hand: it knows no subscription   *)
(* twice, has one at least when it commits, and what it downloaded is no   *)
(* older than what was committed while the store is the one it began with. *)
(*                                                                         *)
(* The lists of an update are recursive functions, so the module begins    *)
(* with induction and recursion over the naturals, from the existence of   *)
(* a least element; then what Only, FlattenSeq and Added return; then that *)
(* each command keeps a good store good; then the update, whose Outcome    *)
(* is all the theorems need of reconcileSubscriptions.                     *)
(***************************************************************************)
EXTENDS Nodes, FiniteSetTheorems, WellFoundedInduction, TLAPS

-------------------------------------------------------------------------------
(* Induction over a list, without an operator to instantiate.               *)

\* A set of naturals that is not empty has a least element.
LEMMA LeastExists ==
  ASSUME NEW T, T \subseteq Nat, T # {}
  PROVE  \E x \in T : \A y \in T : x <= y
<1>1. PICK x \in T : \A y \in T : ~ (<<y, x>> \in OpToRel(<, Nat))
  BY NatLessThanWellFounded, WFMin
<1>2. \A y \in T : ~ (y < x)
  BY <1>1 DEF OpToRel
<1> QED BY <1>2

\* What holds at 0 and of the next place holds of every place.
LEMMA Induction ==
  ASSUME NEW n \in Nat, NEW T, 0 \in T, \A k \in 1..n : k - 1 \in T => k \in T
  PROVE  \A k \in 0..n : k \in T
<1> DEFINE Out == {k \in 0..n : k \notin T}
<1>1. SUFFICES ASSUME Out # {} PROVE FALSE
  OBVIOUS
<1>2. PICK x \in Out : \A y \in Out : x <= y
  <2>1. Out \subseteq Nat
    OBVIOUS
  <2> HIDE DEF Out
  <2> QED BY <1>1, <2>1, LeastExists
<1>3. x # 0 /\ x \in 1..n
  BY <1>2
<1>4. x - 1 \notin Out /\ x - 1 \in 0..n
  BY <1>2, <1>3
<1> QED BY <1>2, <1>3, <1>4

\* f is a at 0 and goes on by step.
Follows(f, n, a, step) == f[0] = a /\ \A k \in 1..n : f[k] = step[k][f[k - 1]]

\* A function can be defined by what it is at 0 and by one step.
LEMMA Recursion ==
  ASSUME NEW S, NEW n \in Nat, NEW a \in S, NEW step \in [1..n -> [S -> S]]
  PROVE  \E f \in [0..n -> S] : Follows(f, n, a, step)
<1> DEFINE T == {m \in 0..n : \E f \in [0..m -> S] : Follows(f, m, a, step)}
<1>1. 0 \in T
  <2> DEFINE f == [k \in 0..0 |-> a]
  <2>1. f \in [0..0 -> S] /\ f[0] = a
    OBVIOUS
  <2>2. Follows(f, 0, a, step)
    BY <2>1 DEF Follows
  <2> HIDE DEF f
  <2> QED BY <2>1, <2>2
<1>2. ASSUME NEW m \in 1..n, m - 1 \in T PROVE m \in T
  <2>1. PICK g \in [0..(m - 1) -> S] : Follows(g, m - 1, a, step)
    BY <1>2
  <2> DEFINE f == [k \in 0..m |-> IF k = m THEN step[m][g[m - 1]] ELSE g[k]]
  <2>2. g[m - 1] \in S /\ step[m][g[m - 1]] \in S
    BY <2>1
  <2>3. f \in [0..m -> S]
    BY <2>2
  <2>4. f[0] = a
    BY <2>1 DEF Follows
  <2>5. Follows(f, m, a, step)
    BY <2>1, <2>4 DEF Follows
  <2> HIDE DEF f
  <2> QED BY <2>3, <2>5
<1>3. n \in T
  <2>1. \A m \in 1..n : m - 1 \in T => m \in T
    BY <1>2
  <2> HIDE DEF T
  <2>2. \A k \in 0..n : k \in T
    BY <1>1, <2>1, Induction
  <2> QED BY <2>2
<1> QED BY <1>3

-------------------------------------------------------------------------------
(* The nodes at some places of a list.                                      *)

\* One step of the recursion of Only.
OnlyStep(s, I, f, k) == f[k] = IF k \in I THEN Append(f[k - 1], s[k]) ELSE f[k - 1]

\* The recursion of Only.
LEMMA OnlyIs ==
  ASSUME NEW S, NEW s \in Seq(S), NEW I
  PROVE  \E f \in [0..Len(s) -> Seq(S)] :
           /\ f[0] = <<>>
           /\ \A k \in 1..Len(s) : OnlyStep(s, I, f, k)
           /\ Only(s, I) = f[Len(s)]
<1> DEFINE n == Len(s)
           G(f, k) == IF k = 0 THEN <<>>
                      ELSE IF k \in I THEN Append(f[k - 1], s[k]) ELSE f[k - 1]
           F == CHOOSE f : f = [k \in 0..n |-> G(f, k)]
           nil == <<>>
           step == [k \in 1..n |-> [x \in Seq(S) |-> IF k \in I THEN Append(x, s[k]) ELSE x]]
<1>1. Only(s, I) = F[n]
  BY DEF Only
<1>0. n \in Nat /\ <<>> \in Seq(S) /\ s \in [1..n -> S]
  OBVIOUS
<1>2. step \in [1..n -> [Seq(S) -> Seq(S)]]
  OBVIOUS
<1>3. PICK g \in [0..n -> Seq(S)] : Follows(g, n, <<>>, step)
  <2> HIDE DEF step, n
  <2> QED BY <1>0, <1>2, Recursion
<1>4. g = [k \in 0..n |-> G(g, k)]
  <2>1. ASSUME NEW k \in 1..n PROVE g[k] = G(g, k)
    <3> HIDE DEF n
    <3>1. k - 1 \in 0..n
      BY <1>0
    <3>2. g[k - 1] \in Seq(S)
      BY <3>1
    <3>3. step[k][g[k - 1]] = G(g, k)
      BY <3>2
    <3>4. g[k] = step[k][g[k - 1]]
      BY <1>3 DEF Follows
    <3> QED BY <3>3, <3>4
  <2>2. g[0] = G(g, 0)
    BY <1>3 DEF Follows
  <2> HIDE DEF G, n, step
  <2>3. \A k \in 0..n : g[k] = G(g, k)
    BY <2>1, <2>2, <1>0
  <2> QED BY <2>3
<1>5. F = [k \in 0..n |-> G(F, k)]
  <2> HIDE DEF G, n
  <2> QED BY <1>4
<1>6. DOMAIN F = 0..n /\ \A k \in 0..n : F[k] = G(F, k)
  <2> HIDE DEF F, G, n
  <2> QED BY <1>5
<1> HIDE DEF F
<1>7. F[0] = nil /\ \A k \in 1..n : OnlyStep(s, I, F, k)
  <2> HIDE DEF n
  <2>1. F[0] = <<>>
    BY <1>0, <1>6
  <2>2. ASSUME NEW k \in 1..n PROVE OnlyStep(s, I, F, k)
    <3>1. k \in 0..n /\ k # 0
      BY <1>0
    <3>2. F[k] = G(F, k)
      BY <1>6, <3>1
    <3> QED BY <3>1, <3>2 DEF OnlyStep
  <2> QED BY <2>1, <2>2
<1>8. \A k \in 0..n : F[k] \in Seq(S)
  <2>5. nil \in Seq(S)
    OBVIOUS
  <2> HIDE DEF n, nil
  <2> DEFINE T == {k \in 0..n : F[k] \in Seq(S)}
  <2>1. 0 \in T
    BY <1>0, <1>7, <2>5
  <2>2. ASSUME NEW k \in 1..n, k - 1 \in T PROVE k \in T
    <3>1. F[k - 1] \in Seq(S) /\ s[k] \in S
      BY <1>0, <2>2
    <3>2. Append(F[k - 1], s[k]) \in Seq(S)
      BY <3>1
    <3>3. OnlyStep(s, I, F, k)
      BY <1>7
    <3>4. F[k] \in Seq(S)
      BY <3>1, <3>2, <3>3 DEF OnlyStep
    <3>5. k \in 0..n
      BY <1>0
    <3> QED BY <3>4, <3>5
  <2>3. \A k \in 1..n : k - 1 \in T => k \in T
    BY <2>2
  <2> HIDE DEF T
  <2>4. \A k \in 0..n : k \in T
    BY <2>1, <2>3, <1>0, Induction
  <2> QED BY <2>4 DEF T
<1>9. F \in [0..n -> Seq(S)]
  <2> HIDE DEF n, G
  <2>1. F = [k \in 0..n |-> F[k]]
    BY <1>5, <1>6
  <2> QED BY <2>1, <1>8
<1> QED BY <1>1, <1>7, <1>9

\* r is what s has at the places of I up to m: h says where each element comes from.
Picks(r, s, I, m, h) ==
  /\ Len(r) <= m
  /\ \A k \in 1..Len(r) : h[k] \in I /\ r[k] = s[h[k]]
  /\ \A k, j \in 1..Len(r) : k < j => h[k] < h[j]
  /\ \A i \in 1..m : i \in I => \E k \in 1..Len(r) : h[k] = i

\* Only picks exactly these places, in their order.
LEMMA OnlyPicks ==
  ASSUME NEW S, NEW s \in Seq(S), NEW I
  PROVE  /\ Only(s, I) \in Seq(S)
         /\ \E h \in [1..Len(Only(s, I)) -> 1..Len(s)] : Picks(Only(s, I), s, I, Len(s), h)
<1> DEFINE n == Len(s)
<1>1. PICK f \in [0..n -> Seq(S)] :
        f[0] = <<>> /\ (\A k \in 1..n : OnlyStep(s, I, f, k)) /\ Only(s, I) = f[n]
  BY OnlyIs
<1>2. n \in Nat /\ s \in [1..n -> S]
  OBVIOUS
<1> DEFINE T == {m \in 0..n : \E h \in [1..Len(f[m]) -> 1..m] : Picks(f[m], s, I, m, h)}
<1> HIDE DEF n
<1>3. 0 \in T
  <2>1. Len(f[0]) = 0
    BY <1>1
  <2> DEFINE h == [k \in 1..0 |-> k]
  <2>2. h \in [1..Len(f[0]) -> 1..0]
    BY <2>1
  <2>3. Picks(f[0], s, I, 0, h)
    BY <2>1 DEF Picks
  <2> HIDE DEF h
  <2> QED BY <2>2, <2>3, <1>2
<1>4. ASSUME NEW m \in 1..n, m - 1 \in T PROVE m \in T
  <2>1. PICK g \in [1..Len(f[m - 1]) -> 1..(m - 1)] : Picks(f[m - 1], s, I, m - 1, g)
    BY <1>4
  <2>2. m - 1 \in 0..n /\ m \in 0..n /\ f[m - 1] \in Seq(S) /\ f[m] \in Seq(S) /\ s[m] \in S
    BY <1>2
  <2>3. OnlyStep(s, I, f, m)
    BY <1>1
  <2> DEFINE l == Len(f[m - 1])
  <2>4. l \in Nat /\ g \in [1..l -> 1..(m - 1)]
    BY <2>2
  <2>5. CASE m \notin I
    <3>1. f[m] = f[m - 1]
      BY <2>3, <2>5 DEF OnlyStep
    <3>2. Picks(f[m], s, I, m, g)
      BY <2>1, <2>2, <2>5, <3>1 DEF Picks
    <3>3. g \in [1..Len(f[m]) -> 1..m]
      BY <2>4, <3>1
    <3> QED BY <2>2, <3>2, <3>3
  <2>6. CASE m \in I
    <3>1. f[m] = Append(f[m - 1], s[m])
      BY <2>3, <2>6 DEF OnlyStep
    <3> DEFINE h == [k \in 1..(l + 1) |-> IF k <= l THEN g[k] ELSE m]
    <3>2. Len(f[m]) = l + 1 /\ f[m][l + 1] = s[m] /\ \A k \in 1..l : f[m][k] = f[m - 1][k]
      BY <2>2, <3>1
    <3>3. h \in [1..(l + 1) -> 1..m]
      BY <2>4
    <3>12. h[l + 1] = m /\ \A k \in 1..l : h[k] = g[k]
      BY <2>4
    <3>13. \A k \in 1..l : g[k] \in 1..(m - 1)
      BY <2>4
    <3>4. h[l + 1] = m /\ \A k \in 1..l : h[k] = g[k] /\ h[k] < m
      <4> HIDE DEF h, l
      <4> QED BY <3>12, <3>13, <1>2
    <3>8. /\ l <= m - 1
          /\ \A k \in 1..l : g[k] \in I /\ f[m - 1][k] = s[g[k]]
          /\ \A k, j \in 1..l : k < j => g[k] < g[j]
          /\ \A i \in 1..(m - 1) : i \in I => \E k \in 1..l : g[k] = i
      BY <2>1 DEF Picks
    <3> HIDE DEF h, l
    <3>5. \A k \in 1..(l + 1) : h[k] \in I /\ f[m][k] = s[h[k]]
      <4> TAKE k \in 1..(l + 1)
      <4>1. CASE k = l + 1
        BY <4>1, <3>2, <3>4, <2>6
      <4>2. CASE k # l + 1
        <5>1. k \in 1..l
          BY <4>2, <2>4
        <5> QED BY <5>1, <3>8, <3>2, <3>4
      <4> QED BY <4>1, <4>2
    <3>6. \A k, j \in 1..(l + 1) : k < j => h[k] < h[j]
      <4> TAKE k, j \in 1..(l + 1)
      <4>1. CASE j = l + 1
        BY <4>1, <2>4, <3>4
      <4>2. CASE j # l + 1
        <5>1. k < j => k \in 1..l /\ j \in 1..l
          BY <4>2, <2>4
        <5> QED BY <5>1, <3>8, <3>4
      <4> QED BY <4>1, <4>2
    <3>7. \A i \in 1..m : i \in I => \E k \in 1..(l + 1) : h[k] = i
      <4> SUFFICES ASSUME NEW i \in 1..m, i \in I PROVE \E k \in 1..(l + 1) : h[k] = i
        OBVIOUS
      <4>1. CASE i = m
        BY <4>1, <2>4, <3>4
      <4>2. CASE i # m
        <5>1. i \in 1..(m - 1)
          BY <4>2, <1>2
        <5>2. PICK k \in 1..l : g[k] = i
          BY <5>1, <3>8
        <5>3. k \in 1..(l + 1) /\ h[k] = i
          BY <5>2, <3>4, <2>4
        <5> QED BY <5>3
      <4> QED BY <4>1, <4>2
    <3>9. l + 1 <= m
      BY <2>4, <3>8, <1>2
    <3>10. Picks(f[m], s, I, m, h)
      BY <3>2, <3>5, <3>6, <3>7, <3>9 DEF Picks
    <3>11. h \in [1..Len(f[m]) -> 1..m]
      BY <3>2, <3>3
    <3> QED BY <2>2, <3>10, <3>11
  <2> QED BY <2>5, <2>6
<1>5. n \in T
  <2>1. \A m \in 1..n : m - 1 \in T => m \in T
    BY <1>4
  <2> HIDE DEF T
  <2>2. \A k \in 0..n : k \in T
    BY <1>2, <1>3, <2>1, Induction
  <2> QED BY <1>2, <2>2
<1>6. Only(s, I) \in Seq(S)
  BY <1>1, <1>2
<1> QED BY <1>1, <1>5, <1>6 DEF n

\* r has what s has at the places of I, each once, and starts as s does when it may.
PartOf(r, s, I) ==
  /\ Len(r) <= Len(s)
  /\ \A k \in 1..Len(r) : \E i \in 1..Len(s) : i \in I /\ r[k] = s[i]
  /\ \A k, j \in 1..Len(r) : k # j =>
       \E a, b \in 1..Len(s) : a # b /\ a \in I /\ b \in I /\ r[k] = s[a] /\ r[j] = s[b]
  /\ \A i \in 1..Len(s) : i \in I => \E k \in 1..Len(r) : r[k] = s[i]
  /\ Len(s) > 0 /\ 1 \in I => Len(r) > 0 /\ r[1] = s[1]

LEMMA OnlyFacts ==
  ASSUME NEW S, NEW s \in Seq(S), NEW I, NEW r, r = Only(s, I)
  PROVE  r \in Seq(S) /\ PartOf(r, s, I)
<1>1. r \in Seq(S)
  BY OnlyPicks
<1>2. PICK h \in [1..Len(r) -> 1..Len(s)] : Picks(r, s, I, Len(s), h)
  BY OnlyPicks
<1> DEFINE n == Len(s)  l == Len(r)
<1>3. n \in Nat /\ l \in Nat
  BY <1>1
<1>4. /\ l <= n
      /\ \A k \in 1..l : h[k] \in I /\ r[k] = s[h[k]] /\ h[k] \in 1..n
      /\ \A k, j \in 1..l : k < j => h[k] < h[j]
      /\ \A i \in 1..n : i \in I => \E k \in 1..l : h[k] = i
  BY <1>2 DEF Picks
<1> HIDE DEF n, l
<1>5. \A k \in 1..l : \E i \in 1..n : i \in I /\ r[k] = s[i]
  BY <1>4
<1>6. \A k, j \in 1..l : k # j =>
              \E a, b \in 1..n : a # b /\ a \in I /\ b \in I /\ r[k] = s[a] /\ r[j] = s[b]
  <2> SUFFICES ASSUME NEW k \in 1..l, NEW j \in 1..l, k # j
               PROVE \E a, b \in 1..n : a # b /\ a \in I /\ b \in I /\ r[k] = s[a] /\ r[j] = s[b]
    OBVIOUS
  <2>1. h[k] # h[j]
    BY <1>3, <1>4
  <2> QED BY <2>1, <1>4
<1>7. \A i \in 1..n : i \in I => \E k \in 1..l : r[k] = s[i]
  BY <1>4
<1>8. ASSUME n > 0, 1 \in I PROVE l > 0 /\ r[1] = s[1]
  <2>1. PICK k \in 1..l : h[k] = 1
    BY <1>3, <1>4, <1>8
  <2>2. k = 1
    BY <1>3, <1>4, <2>1
  <2> QED BY <1>3, <1>4, <2>1, <2>2
<1> QED BY <1>1, <1>4, <1>5, <1>6, <1>7, <1>8 DEF n, l, PartOf

-------------------------------------------------------------------------------
(* The links of several lists, one list after the other.                    *)

\* The recursion of FlattenSeq.
LEMMA FlattenIs ==
  ASSUME NEW S, NEW ss \in Seq(Seq(S)), Len(ss) > 0
  PROVE  \E f \in [1..Len(ss) -> Seq(S)] :
           /\ f[1] = ss[1]
           /\ \A k \in 2..Len(ss) : f[k] = f[k - 1] \o ss[k]
           /\ FlattenSeq(ss) = f[Len(ss)]
<1> DEFINE n == Len(ss)
           G(f, k) == IF k = 1 THEN ss[k] ELSE f[k - 1] \o ss[k]
           F == CHOOSE f : f = [k \in 1..n |-> G(f, k)]
           step == [k \in 1..n |-> [x \in Seq(S) |-> IF k = 1 THEN ss[1] ELSE x \o ss[k]]]
<1>1. FlattenSeq(ss) = F[n]
  BY DEF FlattenSeq
<1>0. n \in Nat /\ n > 0 /\ ss \in [1..n -> Seq(S)] /\ ss[1] \in Seq(S)
  OBVIOUS
<1>2. step \in [1..n -> [Seq(S) -> Seq(S)]]
  <2>1. \A k \in 1..n, x \in Seq(S) : x \o ss[k] \in Seq(S)
    BY <1>0
  <2> QED BY <1>0, <2>1
<1>3. PICK g \in [0..n -> Seq(S)] : Follows(g, n, ss[1], step)
  <2> HIDE DEF step, n
  <2> QED BY <1>0, <1>2, Recursion
<1> DEFINE h == [k \in 1..n |-> g[k]]
<1>4. h = [k \in 1..n |-> G(h, k)]
  <2>1. ASSUME NEW k \in 1..n PROVE h[k] = G(h, k)
    <3>1. k - 1 \in 0..n /\ k \in 0..n
      BY <1>0
    <3>2. g[k - 1] \in Seq(S)
      BY <3>1
    <3>3. step[k][g[k - 1]] = IF k = 1 THEN ss[1] ELSE g[k - 1] \o ss[k]
      BY <3>2
    <3>4. g[k] = step[k][g[k - 1]]
      BY <1>3 DEF Follows
    <3>5. k # 1 => k - 1 \in 1..n /\ h[k - 1] = g[k - 1]
      BY <1>0
    <3>6. h[k] = g[k]
      OBVIOUS
    <3> HIDE DEF h, step, n
    <3> QED BY <3>3, <3>4, <3>5, <3>6
  <2>2. h = [k \in 1..n |-> h[k]]
    OBVIOUS
  <2> HIDE DEF G, n, step, h
  <2> QED BY <2>1, <2>2
<1>5. F = [k \in 1..n |-> G(F, k)]
  <2> HIDE DEF G, n, h
  <2> QED BY <1>4
<1>6. DOMAIN F = 1..n /\ \A k \in 1..n : F[k] = G(F, k)
  <2> HIDE DEF F, G, n
  <2> QED BY <1>5
<1> HIDE DEF F
<1>7. F[1] = ss[1] /\ \A k \in 2..n : F[k] = F[k - 1] \o ss[k]
  <2> HIDE DEF n
  <2>1. F[1] = G(F, 1)
    BY <1>0, <1>6
  <2>2. ASSUME NEW k \in 2..n PROVE F[k] = F[k - 1] \o ss[k]
    <3>1. k \in 1..n /\ k # 1
      BY <1>0
    <3>2. F[k] = G(F, k)
      BY <1>6, <3>1
    <3> QED BY <3>1, <3>2
  <2> QED BY <2>1, <2>2
<1>8. \A k \in 1..n : F[k] \in Seq(S)
  <2> HIDE DEF n
  <2> DEFINE T == {k \in 0..n : k = 0 \/ F[k] \in Seq(S)}
  <2>1. 0 \in T
    BY <1>0
  <2>2. ASSUME NEW k \in 1..n, k - 1 \in T PROVE k \in T
    <3>1. ss[k] \in Seq(S) /\ k \in 0..n
      BY <1>0
    <3>2. CASE k = 1
      BY <1>7, <3>1, <3>2
    <3>3. CASE k # 1
      <4>1. k \in 2..n /\ k - 1 # 0
        BY <1>0, <3>3
      <4>2. F[k - 1] \in Seq(S)
        BY <2>2, <4>1
      <4>3. F[k - 1] \o ss[k] \in Seq(S)
        BY <3>1, <4>2
      <4>4. F[k] \in Seq(S)
        BY <4>1, <4>3, <1>7
      <4> QED BY <4>4, <3>1
    <3> QED BY <3>2, <3>3
  <2>3. \A k \in 1..n : k - 1 \in T => k \in T
    BY <2>2
  <2>4. \A k \in 0..n : k \in T
    <3> HIDE DEF T
    <3> QED BY <2>1, <2>3, <1>0, Induction
  <2> QED BY <2>4, <1>0
<1>9. F \in [1..n -> Seq(S)]
  <2> HIDE DEF n, G
  <2>1. F = [k \in 1..n |-> F[k]]
    BY <1>5, <1>6
  <2> QED BY <2>1, <1>8
<1> QED BY <1>1, <1>7, <1>9

\* A flattened list starts with the first element of the first list, and has the elements
\* of all of the lists.
Joins(r, ss) ==
  /\ Len(r) > 0 /\ r[1] = ss[1][1]
  /\ \A k \in 1..Len(r) : \E i \in 1..Len(ss) : \E j \in 1..Len(ss[i]) : r[k] = ss[i][j]
  /\ \A i \in 1..Len(ss) : \A j \in 1..Len(ss[i]) : \E k \in 1..Len(r) : r[k] = ss[i][j]

LEMMA FlattenFacts ==
  ASSUME NEW S, NEW ss \in Seq(Seq(S)), Len(ss) > 0, NEW r, r = FlattenSeq(ss),
         Len(ss[1]) > 0
  PROVE  r \in Seq(S) /\ Joins(r, ss)
<1> DEFINE n == Len(ss)
<1>0. n \in Nat /\ n > 0 /\ ss \in [1..n -> Seq(S)]
  OBVIOUS
<1>1. PICK f \in [1..n -> Seq(S)] :
        f[1] = ss[1] /\ (\A k \in 2..n : f[k] = f[k - 1] \o ss[k]) /\ r = f[n]
  BY FlattenIs
<1> HIDE DEF n
<1> DEFINE Ok(m) ==
             /\ Len(f[m]) > 0 /\ f[m][1] = ss[1][1]
             /\ \A k \in 1..Len(f[m]) : \E i \in 1..m : \E j \in 1..Len(ss[i]) : f[m][k] = ss[i][j]
             /\ \A i \in 1..m : \A j \in 1..Len(ss[i]) : \E k \in 1..Len(f[m]) : f[m][k] = ss[i][j]
           T == {m \in 0..n : m = 0 \/ Ok(m)}
<1>2. Ok(1)
  BY <1>0, <1>1
<1>3. ASSUME NEW m \in 2..n, Ok(m - 1) PROVE Ok(m)
  <2>11. m - 1 \in 1..n /\ m \in 1..n
    BY <1>0
  <2>12. f[m - 1] \in Seq(S) /\ ss[m] \in Seq(S)
    BY <1>0, <1>1, <2>11
  <2>1. f[m - 1] \in Seq(S) /\ ss[m] \in Seq(S) /\ f[m] = f[m - 1] \o ss[m] /\ m - 1 \in 1..n /\ m \in 1..n
    BY <2>11, <2>12, <1>1
  <2> DEFINE a == f[m - 1]  b == ss[m]  c == f[m]  la == Len(a)  lb == Len(b)
  <2>2. la \in Nat /\ lb \in Nat /\ Len(c) = la + lb
    BY <2>1
  <2>3. \A k \in 1..la : c[k] = a[k]
    BY <2>1
  <2>4. \A j \in 1..lb : c[la + j] = b[j]
    BY <2>1
  <2>5. \A k \in 1..(la + lb) : k \in 1..la \/ \E j \in 1..lb : k = la + j
    <3> TAKE k \in 1..(la + lb)
    <3> HIDE DEF la, lb
    <3>1. k <= la \/ (k - la \in 1..lb /\ k = la + (k - la))
      BY <2>2
    <3> QED BY <3>1, <2>2
  <2>6. /\ la > 0 /\ a[1] = ss[1][1]
        /\ \A k \in 1..la : \E i \in 1..(m - 1) : \E j \in 1..Len(ss[i]) : a[k] = ss[i][j]
        /\ \A i \in 1..(m - 1) : \A j \in 1..Len(ss[i]) : \E k \in 1..la : a[k] = ss[i][j]
    BY <1>3
  <2>7. lb = Len(ss[m]) /\ \A j : b[j] = ss[m][j]
    OBVIOUS
  <2> HIDE DEF a, b, c, la, lb
  <2>8. \A k \in 1..(la + lb) : \E i \in 1..m : \E j \in 1..Len(ss[i]) : c[k] = ss[i][j]
    <3> TAKE k \in 1..(la + lb)
    <3>1. CASE k \in 1..la
      <4>1. PICK i \in 1..(m - 1) : \E j \in 1..Len(ss[i]) : a[k] = ss[i][j]
        BY <2>6, <3>1
      <4>2. i \in 1..m /\ c[k] = a[k]
        BY <2>3, <3>1, <1>0
      <4> QED BY <4>1, <4>2
    <3>2. CASE \E j \in 1..lb : k = la + j
      <4>1. PICK j \in 1..lb : k = la + j
        BY <3>2
      <4>2. c[k] = ss[m][j] /\ j \in 1..Len(ss[m])
        BY <4>1, <2>4, <2>7
      <4>3. m \in 1..m
        BY <1>0
      <4> QED BY <4>2, <4>3
    <3> QED BY <3>1, <3>2, <2>5
  <2>9. \A i \in 1..m : \A j \in 1..Len(ss[i]) : \E k \in 1..(la + lb) : c[k] = ss[i][j]
    <3> TAKE i \in 1..m
    <3> TAKE j \in 1..Len(ss[i])
    <3>1. CASE i = m
      <4>1. j \in 1..lb
        BY <3>1, <2>7
      <4>2. c[la + j] = ss[i][j] /\ la + j \in 1..(la + lb)
        BY <4>1, <3>1, <2>2, <2>4, <2>7
      <4> QED BY <4>2
    <3>2. CASE i # m
      <4>1. i \in 1..(m - 1)
        BY <3>2, <1>0
      <4>2. PICK k \in 1..la : a[k] = ss[i][j]
        BY <4>1, <2>6
      <4>3. k \in 1..(la + lb) /\ c[k] = a[k]
        BY <2>2, <2>3
      <4> QED BY <4>2, <4>3
    <3> QED BY <3>1, <3>2
  <2>10. Len(c) > 0 /\ c[1] = ss[1][1]
    <3>1. 1 \in 1..la
      BY <2>2, <2>6
    <3> QED BY <3>1, <2>2, <2>3, <2>6
  <2> QED BY <2>2, <2>8, <2>9, <2>10 DEF c
<1>4. Ok(n)
  <2>1. 0 \in T
    BY <1>0
  <2>2. ASSUME NEW m \in 1..n, m - 1 \in T PROVE m \in T
    <3>1. CASE m = 1
      <4> HIDE DEF Ok
      <4> QED BY <1>2, <3>1, <1>0
    <3>2. CASE m # 1
      <4>1. m \in 2..n /\ m - 1 # 0 /\ m \in 0..n
        BY <3>2, <1>0
      <4> HIDE DEF Ok
      <4> QED BY <4>1, <1>3, <2>2
    <3> QED BY <3>1, <3>2
  <2> HIDE DEF Ok
  <2>3. \A m \in 1..n : m - 1 \in T => m \in T
    BY <2>2
  <2>4. \A k \in 0..n : k \in T
    <3> HIDE DEF T
    <3> QED BY <2>1, <2>3, <1>0, Induction
  <2> QED BY <2>4, <1>0
<1>5. r \in Seq(S)
  BY <1>0, <1>1
<1> QED BY <1>1, <1>4, <1>5 DEF n, Joins

-------------------------------------------------------------------------------
(* Stores.                                                                  *)

\* Functions from a part of S.
Fns(S, T) == UNION {[D -> T] : D \in SUBSET S}

NodeType == [id : Nat, url : Urls, subs : SUBSET Subs, managed : BOOLEAN]

StoreType ==
  [nodes : Seq(NodeType), default : Nat \cup {None}, scenes : Fns(Scenes, Nat),
   on : SUBSET Scenes, results : Fns(Nat, Urls), subs : Seq(Subs), gen : Nat]

\* No subscription is saved twice.
Distinct(s) == \A i, j \in DOMAIN s : s[i] = s[j] => i = j

\* ResultsAreTheirs, of any store.
Theirs(st) == \A id \in DOMAIN st.results : st.results[id].config = Find(st.nodes, id).url.config

Good(st) == st \in StoreType /\ Valid(st) /\ Distinct(st.subs) /\ Theirs(st)

\* A function from a part of a set is one on its domain.
LEMMA FnsIs ==
  ASSUME NEW S, NEW T, NEW f
  PROVE  f \in Fns(S, T) <=> DOMAIN f \subseteq S /\ f \in [DOMAIN f -> T]
BY DEF Fns

\* Identifiers, and one that is not in use.
LEMMA IdsAre ==
  ASSUME NEW nodes \in Seq(NodeType)
  PROVE  /\ DOMAIN nodes = 1..Len(nodes) /\ Len(nodes) \in Nat
         /\ \A i \in 1..Len(nodes) : nodes[i] \in NodeType /\ nodes[i].id \in IdsOf(nodes)
         /\ \A id \in IdsOf(nodes) : \E i \in 1..Len(nodes) : nodes[i].id = id
         /\ IdsOf(nodes) \subseteq Nat /\ IsFiniteSet(IdsOf(nodes))
<1>1. DOMAIN nodes = 1..Len(nodes) /\ Len(nodes) \in Nat /\ \A i \in 1..Len(nodes) : nodes[i] \in NodeType
  OBVIOUS
<1>2. IdsOf(nodes) \subseteq Nat
  BY <1>1 DEF IdsOf, NodeType
<1> DEFINE f == [i \in 1..Len(nodes) |-> nodes[i].id]
<1>3. f \in Surjection(1..Len(nodes), IdsOf(nodes))
  BY <1>1 DEF Surjection, IdsOf
<1>4. IsFiniteSet(IdsOf(nodes))
  BY <1>1, <1>3, FS_Surjection, FS_Interval
<1> QED BY <1>1, <1>2, <1>4 DEF IdsOf

LEMMA NewIdIsNew ==
  ASSUME NEW nodes \in Seq(NodeType), NEW id, id = NewId(IdsOf(nodes))
  PROVE  id \in Nat /\ id \notin IdsOf(nodes)
<1> DEFINE used == IdsOf(nodes)  c == Cardinality(used)  T == {n \in 1..(c + 1) : n \notin used}
<1>1. IsFiniteSet(used)
  BY IdsAre
<1> HIDE DEF used
<1>2. c \in Nat
  BY <1>1, FS_CardinalityType
<1>3. T # {}
  <2>1. SUFFICES ASSUME 1..(c + 1) \subseteq used PROVE FALSE
    OBVIOUS
  <2>2. Cardinality(1..(c + 1)) <= c
    BY <1>1, <2>1, FS_Subset
  <2>3. Cardinality(1..(c + 1)) = c + 1
    BY <1>2, FS_Interval
  <2> QED BY <1>2, <2>2, <2>3
<1>4. PICK n \in T : \A m \in T : n <= m
  <2>1. T \subseteq Nat
    BY <1>2
  <2> HIDE DEF T
  <2> QED BY <1>3, <2>1, LeastExists
<1>5. n \in 1..(c + 1) /\ n \notin used /\ \A m \in 1..(n - 1) : m \in used
  BY <1>2, <1>4
<1>6. id = CHOOSE k \in 1..(c + 1) : k \notin used /\ \A m \in 1..(k - 1) : m \in used
  BY DEF NewId, used
<1> HIDE DEF c
<1>7. id \in 1..(c + 1) /\ id \notin used
  BY <1>5, <1>6
<1> QED BY <1>2, <1>7 DEF used

\* Identifiers name one node: what Find finds.
LEMMA FindIs ==
  ASSUME NEW nodes \in Seq(NodeType), NEW i \in 1..Len(nodes),
         \A j \in 1..Len(nodes) : nodes[j].id = nodes[i].id => i = j
  PROVE  Find(nodes, nodes[i].id) = nodes[i]
<1>1. DOMAIN nodes = 1..Len(nodes)
  OBVIOUS
<1> QED BY <1>1 DEF Find

\* What a good store has, in the form the proofs use.
LEMMA GoodHas ==
  ASSUME NEW st, Good(st)
  PROVE  /\ st \in StoreType /\ st.nodes \in Seq(NodeType) /\ DOMAIN st.nodes = 1..Len(st.nodes)
         /\ Len(st.nodes) \in Nat /\ Len(st.nodes) <= MaxNodes
         /\ \A i, j \in 1..Len(st.nodes) :
              st.nodes[i].id = st.nodes[j].id \/ st.nodes[i].url = st.nodes[j].url => i = j
         /\ \A i \in 1..Len(st.nodes) :
              /\ st.nodes[i] \in NodeType /\ st.nodes[i].subs \subseteq Range(st.subs)
              /\ st.nodes[i].id \in IdsOf(st.nodes)
              /\ Find(st.nodes, st.nodes[i].id) = st.nodes[i]
         /\ \A id \in IdsOf(st.nodes) : \E i \in 1..Len(st.nodes) : st.nodes[i].id = id
         /\ st.default \in IdsOf(st.nodes) \cup {None}
         /\ DOMAIN st.scenes \subseteq Scenes /\ st.scenes \in [DOMAIN st.scenes -> IdsOf(st.nodes)]
         /\ DOMAIN st.results \subseteq IdsOf(st.nodes) /\ st.results \in [DOMAIN st.results -> Urls]
         /\ st.on # {} => Len(st.nodes) # 0
<1>1. st \in StoreType /\ Valid(st)
  BY DEF Good
<1>2. /\ st.nodes \in Seq(NodeType) /\ st.scenes \in Fns(Scenes, Nat) /\ st.results \in Fns(Nat, Urls)
  BY <1>1 DEF StoreType
<1>3. DOMAIN st.nodes = 1..Len(st.nodes) /\ Len(st.nodes) \in Nat
  BY <1>2
<1>4. \A i, j \in 1..Len(st.nodes) :
              st.nodes[i].id = st.nodes[j].id \/ st.nodes[i].url = st.nodes[j].url => i = j
  BY <1>1, <1>3 DEF Valid
<1>5. \A i \in 1..Len(st.nodes) : Find(st.nodes, st.nodes[i].id) = st.nodes[i]
  BY <1>2, <1>4, FindIs
<1>6. DOMAIN st.scenes \subseteq Scenes /\ st.scenes \in [DOMAIN st.scenes -> Nat]
      /\ st.results \in [DOMAIN st.results -> Urls]
  BY <1>2, FnsIs
<1>7. st.scenes \in [DOMAIN st.scenes -> IdsOf(st.nodes)]
  <2>1. \A s \in DOMAIN st.scenes : st.scenes[s] \in IdsOf(st.nodes)
    BY <1>1 DEF Valid, Range
  <2> QED BY <1>6, <2>1
<1>8. st.on # {} => Len(st.nodes) # 0
  <2>1. Len(st.nodes) = 0 => st.nodes = <<>>
    BY <1>2
  <2> QED BY <1>1, <2>1 DEF Valid
<1> QED BY <1>1, <1>2, <1>3, <1>4, <1>5, <1>6, <1>7, <1>8, IdsAre DEF Valid

\* What makes a store good, in the form the proofs show it.
Sound(st) ==
  /\ st \in StoreType
  /\ Len(st.nodes) <= MaxNodes
  /\ \A i, j \in 1..Len(st.nodes) :
        st.nodes[i].id = st.nodes[j].id \/ st.nodes[i].url = st.nodes[j].url => i = j
  /\ \A i \in 1..Len(st.nodes) : st.nodes[i].subs \subseteq Range(st.subs)
  /\ st.default \in IdsOf(st.nodes) \cup {None}
  /\ \A s \in DOMAIN st.scenes : st.scenes[s] \in IdsOf(st.nodes)
  /\ DOMAIN st.results \subseteq IdsOf(st.nodes)
  /\ st.on # {} => Len(st.nodes) # 0
  /\ Distinct(st.subs)
  /\ \A i \in 1..Len(st.nodes) : st.nodes[i].id \in DOMAIN st.results =>
        st.results[st.nodes[i].id].config = st.nodes[i].url.config

LEMMA GoodIf ==
  ASSUME NEW st, Sound(st)
  PROVE  Good(st)
<1> USE DEF Sound
<1>1. st.nodes \in Seq(NodeType)
  BY DEF StoreType
<1>2. DOMAIN st.nodes = 1..Len(st.nodes)
  BY <1>1
<1>5. Len(st.nodes) # 0 => st.nodes # <<>>
  OBVIOUS
<1>3. Valid(st)
  BY <1>2, <1>5 DEF Valid, Range
<1>4. Theirs(st)
  <2> SUFFICES ASSUME NEW id \in DOMAIN st.results
               PROVE st.results[id].config = Find(st.nodes, id).url.config
    BY DEF Theirs
  <2>1. PICK i \in 1..Len(st.nodes) : st.nodes[i].id = id
    BY <1>2 DEF IdsOf
  <2>2. Find(st.nodes, id) = st.nodes[i]
    BY <1>1, <2>1, FindIs
  <2> QED BY <2>1, <2>2
<1> QED BY <1>3, <1>4 DEF Good

-------------------------------------------------------------------------------
(* Commands under the lock keep a store good.                               *)

\* A node of which only the membership changes.
LEMMA AdoptedType ==
  ASSUME NEW n \in NodeType, NEW sub \in Subs, NEW m, m = Adopted(n, sub)
  PROVE  m \in NodeType /\ m.id = n.id /\ m.url = n.url /\ m.subs = n.subs \cup {sub}
<1> DEFINE ss == n.subs \cup {sub}  b == TRUE
<1>1. m = [n EXCEPT !.subs = ss, !.managed = b]
  BY DEF Adopted
<1>2. ss \in SUBSET Subs /\ b \in BOOLEAN
  BY DEF NodeType
<1> HIDE DEF ss, b
<1>3. m \in NodeType /\ m.id = n.id /\ m.url = n.url /\ m.subs = ss
  BY <1>1, <1>2 DEF NodeType
<1> QED BY <1>3 DEF ss

LEMMA ManagedType ==
  ASSUME NEW n \in NodeType, NEW b \in BOOLEAN, NEW m, m = [n EXCEPT !.managed = b]
  PROVE  m \in NodeType /\ m.id = n.id /\ m.url = n.url /\ m.subs = n.subs
BY DEF NodeType

\* The only assumptions the proofs need about bounds and sentinels.
LEMMA Sentinels == None \notin Nat /\ MaxNodes \in Nat /\ MaxNodes >= 2
  BY NodesAssumption

LEMMA UseNodeGood ==
  ASSUME NEW st, Good(st), NEW id \in IdsOf(st.nodes), NEW scope, NEW u, u = UseNode(st, id, scope)
  PROVE  Good(u)
<1> DEFINE D == DOMAIN st.scenes \cup (IF scope = "all" THEN Scenes ELSE {scope} \cap Scenes)
           sc == [s \in D |-> IF scope \in {s, "all"} THEN id ELSE st.scenes[s]]
           de == IF scope \in {"default", "all"} THEN id ELSE st.default
<1>0. st \in StoreType
  BY GoodHas
<1>1. u = [st EXCEPT !.default = de, !.scenes = sc]
  BY DEF UseNode
<1>2. id \in Nat /\ IdsOf(st.nodes) \subseteq Nat
  BY GoodHas, IdsAre
<1>3. D \subseteq Scenes /\ \A s \in D : sc[s] \in IdsOf(st.nodes)
  <2>1. D \subseteq Scenes
    BY GoodHas
  <2>2. ASSUME NEW s \in D PROVE sc[s] \in IdsOf(st.nodes)
    <3>1. CASE scope \in {s, "all"}
      BY <3>1
    <3>2. CASE scope \notin {s, "all"}
      <4>1. s \in DOMAIN st.scenes
        BY <3>2
      <4>2. st.scenes[s] \in IdsOf(st.nodes)
        BY <4>1, GoodHas
      <4> QED BY <4>2, <3>2
    <3> QED BY <3>1, <3>2
  <2> QED BY <2>1, <2>2
<1>4. DOMAIN sc = D /\ sc \in [D -> Nat]
  BY <1>2, <1>3
<1> HIDE DEF sc, D
<1>5. sc \in Fns(Scenes, Nat)
  BY <1>3, <1>4, FnsIs
<1>6. de \in IdsOf(st.nodes) \cup {None}
  BY GoodHas
<1> HIDE DEF de
<1>7. /\ u.nodes = st.nodes /\ u.default = de /\ u.scenes = sc /\ u.on = st.on
      /\ u.results = st.results /\ u.subs = st.subs /\ u \in StoreType
  <2>1. de \in Nat \cup {None}
    BY <1>2, <1>6
  <2> QED BY <1>0, <1>1, <1>5, <2>1 DEF StoreType
<1>8. Distinct(u.subs) /\ \A i \in 1..Len(u.nodes) : u.nodes[i].id \in DOMAIN u.results =>
            u.results[u.nodes[i].id].config = u.nodes[i].url.config
  BY <1>7, GoodHas DEF Good, Theirs
<1>9. Sound(u)
  BY <1>3, <1>4, <1>6, <1>7, <1>8, GoodHas DEF Sound
<1> QED BY <1>9, GoodIf

\* Nodes that change only in what subscription they belong to, and whether they are managed.
LEMMA MembersGood ==
  ASSUME NEW st, Good(st), NEW nodes \in Seq(NodeType), Len(nodes) = Len(st.nodes),
         \A i \in 1..Len(st.nodes) : /\ nodes[i].id = st.nodes[i].id /\ nodes[i].url = st.nodes[i].url
                                     /\ nodes[i].subs \subseteq Range(st.subs),
         NEW u, u = [st EXCEPT !.nodes = nodes]
  PROVE  Good(u) /\ IdsOf(u.nodes) = IdsOf(st.nodes)
<1>0. st \in StoreType /\ Len(st.nodes) \in Nat
  BY GoodHas
<1>1. /\ u.nodes = nodes /\ u.default = st.default /\ u.scenes = st.scenes /\ u.on = st.on
      /\ u.results = st.results /\ u.subs = st.subs /\ u \in StoreType
  BY <1>0 DEF StoreType
<1>2. IdsOf(u.nodes) = IdsOf(st.nodes)
  <2>1. DOMAIN nodes = 1..Len(st.nodes) /\ DOMAIN st.nodes = 1..Len(st.nodes)
    BY GoodHas
  <2> QED BY <1>1, <2>1 DEF IdsOf
<1>3. u.on # {} => Len(u.nodes) # 0
  <2> QED BY <1>1, GoodHas
<1>4. Distinct(u.subs) /\ \A i \in 1..Len(u.nodes) : u.nodes[i].id \in DOMAIN u.results =>
            u.results[u.nodes[i].id].config = u.nodes[i].url.config
  BY <1>1, GoodHas DEF Good, Theirs
<1>5. /\ Len(u.nodes) <= MaxNodes
      /\ \A i, j \in 1..Len(u.nodes) :
            u.nodes[i].id = u.nodes[j].id \/ u.nodes[i].url = u.nodes[j].url => i = j
      /\ \A i \in 1..Len(u.nodes) : u.nodes[i].subs \subseteq Range(u.subs)
      /\ u.default \in IdsOf(u.nodes) \cup {None}
      /\ \A s \in DOMAIN u.scenes : u.scenes[s] \in IdsOf(u.nodes)
      /\ DOMAIN u.results \subseteq IdsOf(u.nodes)
  BY <1>1, <1>2, GoodHas
<1> QED
  <2>0. u \in StoreType
    BY <1>1
  <2>2. Sound(u)
    BY <2>0, <1>3, <1>4, <1>5 DEF Sound
  <2>1. Good(u)
    BY <2>2, GoodIf
  <2> QED BY <1>2, <2>1

LEMMA AdoptGood ==
  ASSUME NEW st, Good(st), NEW sub \in Range(st.subs), NEW ids, NEW u, u = Adopt(st, sub, ids)
  PROVE  Good(u)
<1> DEFINE nodes == [i \in DOMAIN st.nodes |->
             IF st.nodes[i].id \in ids THEN Adopted(st.nodes[i], sub) ELSE st.nodes[i]]
<1>0. st \in StoreType
  BY GoodHas
<1>1. u = [st EXCEPT !.nodes = nodes]
  BY DEF Adopt
<1>2. sub \in Subs
  BY GoodHas DEF StoreType, Range
<1>3. \A i \in 1..Len(st.nodes) :
        /\ nodes[i] \in NodeType /\ nodes[i].id = st.nodes[i].id /\ nodes[i].url = st.nodes[i].url
        /\ nodes[i].subs \subseteq Range(st.subs)
  <2> TAKE i \in 1..Len(st.nodes)
  <2>1. st.nodes[i] \in NodeType /\ st.nodes[i].subs \subseteq Range(st.subs) /\ i \in DOMAIN st.nodes
    BY GoodHas
  <2>3. st.nodes[i].subs \cup {sub} \in SUBSET Subs
    BY <1>2, <2>1 DEF NodeType
  <2>4. TRUE \in BOOLEAN
    OBVIOUS
  <2>2. nodes[i] = IF st.nodes[i].id \in ids THEN Adopted(st.nodes[i], sub) ELSE st.nodes[i]
    BY <2>1
  <2> HIDE DEF nodes
  <2>5. CASE st.nodes[i].id \in ids
    <3> DEFINE m == nodes[i]
    <3>1. m = Adopted(st.nodes[i], sub)
      BY <2>2, <2>5
    <3> HIDE DEF m
    <3>2. m \in NodeType /\ m.id = st.nodes[i].id /\ m.url = st.nodes[i].url
          /\ m.subs = st.nodes[i].subs \cup {sub}
      BY <1>2, <2>1, <3>1, AdoptedType
    <3> QED BY <2>1, <3>2 DEF m
  <2>6. CASE st.nodes[i].id \notin ids
    BY <2>1, <2>2, <2>6
  <2> QED BY <2>5, <2>6
<1>4. DOMAIN nodes = 1..Len(st.nodes) /\ nodes \in [1..Len(st.nodes) -> NodeType]
  BY <1>3, GoodHas
<1> HIDE DEF nodes
<1>5. nodes \in Seq(NodeType) /\ Len(nodes) = Len(st.nodes)
  BY <1>4, GoodHas
<1> QED BY <1>1, <1>3, <1>5, MembersGood

\* A new node at the end.
LEMMA AppendGood ==
  ASSUME NEW st, Good(st), NEW n \in NodeType, n.id \notin IdsOf(st.nodes),
         n.subs \subseteq Range(st.subs), \A i \in 1..Len(st.nodes) : st.nodes[i].url # n.url,
         Len(st.nodes) + 1 <= MaxNodes, NEW u, u = [st EXCEPT !.nodes = Append(st.nodes, n)]
  PROVE  Good(u) /\ n.id \in IdsOf(u.nodes)
<1> DEFINE l == Len(st.nodes)
<1>0. st \in StoreType /\ st.nodes \in Seq(NodeType)
  BY GoodHas
<1>1. /\ u.nodes = Append(st.nodes, n) /\ u.default = st.default /\ u.scenes = st.scenes /\ u.on = st.on
      /\ u.results = st.results /\ u.subs = st.subs /\ u \in StoreType
  <2>1. Append(st.nodes, n) \in Seq(NodeType)
    BY <1>0
  <2> QED BY <1>0, <2>1 DEF StoreType
<1>2. /\ Len(u.nodes) = l + 1 /\ u.nodes \in Seq(NodeType) /\ u.nodes[l + 1] = n
      /\ \A i \in 1..l : u.nodes[i] = st.nodes[i]
  BY <1>1, GoodHas
<1>3. l \in Nat /\ \A i \in 1..(l + 1) : i \in 1..l \/ i = l + 1
  BY GoodHas
<1>4. IdsOf(st.nodes) \subseteq IdsOf(u.nodes) /\ n.id \in IdsOf(u.nodes)
  <2>1. \A i \in 1..(l + 1) : u.nodes[i].id \in IdsOf(u.nodes)
    BY <1>2, IdsAre
  <2>2. l + 1 \in 1..(l + 1) /\ \A i \in 1..l : i \in 1..(l + 1)
    BY <1>3
  <2>3. \A id \in IdsOf(st.nodes) : \E i \in 1..l : st.nodes[i].id = id
    BY GoodHas
  <2> HIDE DEF l
  <2> QED BY <2>1, <2>2, <2>3, <1>2
<1>5. u.on # {} => Len(u.nodes) # 0
  BY <1>2, <1>3
<1> HIDE DEF l
<1>6. \A i, j \in 1..(l + 1) : u.nodes[i].id = u.nodes[j].id \/ u.nodes[i].url = u.nodes[j].url => i = j
  BY <1>2, <1>3, GoodHas DEF l
<1>7. \A i \in 1..(l + 1) : u.nodes[i].subs \subseteq Range(u.subs)
  BY <1>1, <1>2, <1>3, GoodHas DEF l
<1>8. Distinct(u.subs) /\ \A i \in 1..(l + 1) : u.nodes[i].id \in DOMAIN u.results =>
            u.results[u.nodes[i].id].config = u.nodes[i].url.config
  BY <1>1, <1>2, <1>3, GoodHas DEF Good, Theirs, l
<1>9. /\ Len(u.nodes) <= MaxNodes
      /\ u.default \in IdsOf(u.nodes) \cup {None}
      /\ \A s \in DOMAIN u.scenes : u.scenes[s] \in IdsOf(u.nodes)
      /\ DOMAIN u.results \subseteq IdsOf(u.nodes)
  BY <1>1, <1>2, <1>4, GoodHas DEF l
<1>10. Good(u)
  <2>0. u \in StoreType
    BY <1>1
  <2>1. /\ \A i, j \in 1..Len(u.nodes) :
             u.nodes[i].id = u.nodes[j].id \/ u.nodes[i].url = u.nodes[j].url => i = j
        /\ \A i \in 1..Len(u.nodes) : u.nodes[i].subs \subseteq Range(u.subs)
        /\ \A i \in 1..Len(u.nodes) : u.nodes[i].id \in DOMAIN u.results =>
             u.results[u.nodes[i].id].config = u.nodes[i].url.config
    BY <1>2, <1>6, <1>7, <1>8
  <2>2. Sound(u)
    BY <2>0, <2>1, <1>5, <1>8, <1>9 DEF Sound
  <2> QED BY <2>2, GoodIf
<1> QED BY <1>4, <1>10

LEMMA AddNodeGood ==
  ASSUME NEW st, Good(st), NEW url \in Urls, NEW scope, NEW u, u = AddNode(st, url, scope),
         Len(u.nodes) <= MaxNodes
  PROVE  Good(u)
<1> DEFINE known == {i \in DOMAIN st.nodes : st.nodes[i].url = url}
           new == Node(NewId(IdsOf(st.nodes)), url, {}, FALSE)
<1>1. CASE known # {}
  <2> DEFINE i == CHOOSE i \in known : TRUE
             v == [st EXCEPT !.nodes[i].managed = FALSE]
             nodes == [st.nodes EXCEPT ![i].managed = FALSE]
  <2>1. u = UseNode(v, st.nodes[i].id, scope)
    BY <1>1 DEF AddNode
  <2>2. i \in 1..Len(st.nodes)
    BY <1>1, GoodHas
  <2> HIDE DEF i
  <2>0. st \in StoreType /\ st.nodes \in Seq(NodeType)
    BY GoodHas
  <2>3. v = [st EXCEPT !.nodes = nodes]
    BY <2>0 DEF StoreType
  <2>7. [st.nodes[i] EXCEPT !.managed = FALSE] \in NodeType
    <3> DEFINE n == st.nodes[i]  b == FALSE  m == [n EXCEPT !.managed = b]
    <3>1. n \in NodeType /\ b \in BOOLEAN
      BY <2>0, <2>2
    <3> HIDE DEF n, b
    <3>2. m \in NodeType
      BY <3>1, ManagedType
    <3> QED BY <3>2 DEF n, b
  <2>4. nodes \in Seq(NodeType) /\ Len(nodes) = Len(st.nodes)
    BY <2>0, <2>2, <2>7
  <2>5. \A j \in 1..Len(st.nodes) : /\ nodes[j].id = st.nodes[j].id /\ nodes[j].url = st.nodes[j].url
                                     /\ nodes[j].subs \subseteq Range(st.subs)
    BY <2>2, GoodHas DEF NodeType
  <2> HIDE DEF nodes, v
  <2>6. Good(v) /\ st.nodes[i].id \in IdsOf(v.nodes)
    <3>1. Good(v) /\ IdsOf(v.nodes) = IdsOf(st.nodes)
      BY <2>3, <2>4, <2>5, MembersGood
    <3> QED BY <3>1, <2>2, GoodHas
  <2> QED BY <2>1, <2>6, UseNodeGood
<1>2. CASE known = {}
  <2> DEFINE v == [st EXCEPT !.nodes = Append(@, new)]
  <2>1. u = UseNode(v, new.id, scope)
    BY <1>2 DEF AddNode
  <2>2. new.id \in Nat /\ new.id \notin IdsOf(st.nodes) /\ new.url = url /\ new.subs = {} /\ new \in NodeType
    BY GoodHas, NewIdIsNew DEF Node, NodeType
  <2>3. \A i \in 1..Len(st.nodes) : st.nodes[i].url # new.url
    <3>1. DOMAIN st.nodes = 1..Len(st.nodes)
      BY GoodHas
    <3> HIDE DEF new
    <3> QED BY <1>2, <2>2, <3>1
  <2> HIDE DEF new
  <2>4. u.nodes = Append(st.nodes, new)
    BY <2>1, GoodHas DEF UseNode, StoreType
  <2>5. Len(st.nodes) + 1 <= MaxNodes
    BY <2>2, <2>4, GoodHas
  <2>6. v = [st EXCEPT !.nodes = Append(st.nodes, new)]
    OBVIOUS
  <2> HIDE DEF v
  <2>7. Good(v) /\ new.id \in IdsOf(v.nodes)
    BY <2>2, <2>3, <2>5, <2>6, AppendGood
  <2> QED BY <2>1, <2>7, UseNodeGood
<1> QED BY <1>1, <1>2

\* A node is removed, with all that refers to it.
LEMMA RemoveNodeGood ==
  ASSUME NEW st, Good(st), NEW id \in IdsOf(st.nodes), NEW u, u = RemoveNode(st, id)
  PROVE  Good(u)
<1> DEFINE s == st.nodes
           I == {i \in DOMAIN s : s[i].id # id}
           r == Only(s, I)
           de == IF st.default = id THEN First(r) ELSE st.default
           out == {x \in DOMAIN st.scenes : st.scenes[x] = id}
           sc == Without(st.scenes, out)
           re == Without(st.results, {id})
           on == IF r = <<>> THEN {} ELSE st.on
<1>0. st \in StoreType /\ s \in Seq(NodeType) /\ Len(s) \in Nat /\ DOMAIN s = 1..Len(s)
  BY GoodHas
<1>1. u = [st EXCEPT !.nodes = r, !.default = de, !.scenes = sc, !.results = re, !.on = on]
  BY DEF RemoveNode
<1>2. /\ r \in Seq(NodeType) /\ Len(r) <= Len(s)
      /\ \A k \in 1..Len(r) : \E i \in 1..Len(s) : i \in I /\ r[k] = s[i]
      /\ \A k, j \in 1..Len(r) : k # j =>
           \E a, b \in 1..Len(s) : a # b /\ a \in I /\ b \in I /\ r[k] = s[a] /\ r[j] = s[b]
      /\ \A i \in 1..Len(s) : i \in I => \E k \in 1..Len(r) : r[k] = s[i]
  <2>1. r = Only(s, I)
    OBVIOUS
  <2> HIDE DEF s, I, r
  <2>2. r \in Seq(NodeType) /\ PartOf(r, s, I)
    BY <1>0, <2>1, OnlyFacts
  <2> QED BY <2>2 DEF PartOf
<1>3. Len(r) \in Nat /\ DOMAIN r = 1..Len(r) /\ (Len(r) # 0 => First(r) = r[1].id /\ 1 \in 1..Len(r))
      /\ (Len(r) = 0 => First(r) = None)
  BY <1>2 DEF First
<1> HIDE DEF r
<1>4. IdsOf(r) = IdsOf(s) \ {id}
  <2>1. \A x \in IdsOf(r) : x \in IdsOf(s) /\ x # id
    <3> TAKE x \in IdsOf(r)
    <3>1. PICK k \in 1..Len(r) : r[k].id = x
      BY <1>3 DEF IdsOf
    <3>2. PICK i \in 1..Len(s) : i \in I /\ r[k] = s[i]
      BY <1>2
    <3> QED BY <1>0, <3>1, <3>2 DEF IdsOf
  <2>2. ASSUME NEW x \in IdsOf(s), x # id PROVE x \in IdsOf(r)
    <3>1. PICK i \in 1..Len(s) : s[i].id = x
      BY <1>0 DEF IdsOf
    <3>2. i \in I
      BY <1>0, <2>2, <3>1
    <3> QED BY <1>2, <1>3, <3>1, <3>2 DEF IdsOf
  <2> QED BY <2>1, <2>2
<1>5. de \in IdsOf(r) \cup {None}
  <2>1. First(r) \in IdsOf(r) \cup {None}
    BY <1>3 DEF IdsOf
  <2>2. st.default \in IdsOf(s) \cup {None}
    BY GoodHas
  <2> QED BY <2>1, <2>2, <1>4
<1>6. DOMAIN sc \subseteq Scenes /\ sc \in [DOMAIN sc -> Nat] /\ \A x \in DOMAIN sc : sc[x] \in IdsOf(r)
  <2>1. \A x \in DOMAIN st.scenes : st.scenes[x] \in IdsOf(s)
    BY GoodHas
  <2>2. DOMAIN sc = DOMAIN st.scenes \ out /\ \A x \in DOMAIN sc : sc[x] = st.scenes[x] /\ st.scenes[x] # id
    BY DEF Without
  <2>3. IdsOf(r) \subseteq Nat /\ sc = [x \in DOMAIN sc |-> sc[x]]
    BY <1>2, IdsAre DEF Without
  <2>4. \A x \in DOMAIN sc : sc[x] \in IdsOf(r)
    BY <2>1, <2>2, <1>4
  <2>5. DOMAIN sc \subseteq Scenes
    BY <2>2, GoodHas
  <2> HIDE DEF sc
  <2> QED BY <2>3, <2>4, <2>5
<1>7. DOMAIN re = DOMAIN st.results \ {id} /\ DOMAIN re \subseteq IdsOf(r) /\ IdsOf(r) \subseteq Nat
      /\ re \in [DOMAIN re -> Urls] /\ \A x \in DOMAIN re : re[x] = st.results[x]
  <2>1. DOMAIN re = DOMAIN st.results \ {id} /\ \A x \in DOMAIN re : re[x] = st.results[x]
    BY DEF Without
  <2>2. DOMAIN st.results \subseteq IdsOf(s) /\ st.results \in [DOMAIN st.results -> Urls]
    BY GoodHas
  <2>3. re = [x \in DOMAIN re |-> re[x]]
    BY DEF Without
  <2> HIDE DEF re
  <2> QED BY <2>1, <2>2, <2>3, <1>4, <1>2, IdsAre
<1>8. on \subseteq Scenes /\ (on # {} => Len(r) # 0)
  <2>1. st.on \subseteq Scenes
    BY <1>0 DEF StoreType
  <2>2. Len(r) = 0 => r = <<>>
    BY <1>2
  <2> QED BY <2>1, <2>2
<1> HIDE DEF de, sc, re, on
<1>9. /\ u.nodes = r /\ u.default = de /\ u.scenes = sc /\ u.on = on
      /\ u.results = re /\ u.subs = st.subs /\ u \in StoreType
  <2>1. de \in Nat \cup {None} /\ sc \in Fns(Scenes, Nat) /\ re \in Fns(Nat, Urls)
    BY <1>5, <1>6, <1>7, FnsIs
  <2> QED BY <1>0, <1>1, <1>2, <1>8, <2>1 DEF StoreType
<1>10. \A i, j \in 1..Len(r) : r[i].id = r[j].id \/ r[i].url = r[j].url => i = j
  <2> SUFFICES ASSUME NEW i \in 1..Len(r), NEW j \in 1..Len(r), i # j
               PROVE r[i].id # r[j].id /\ r[i].url # r[j].url
    OBVIOUS
  <2>1. PICK a, b \in 1..Len(s) : a # b /\ r[i] = s[a] /\ r[j] = s[b]
    BY <1>2
  <2> QED BY <2>1, GoodHas
<1>11. \A i \in 1..Len(r) : r[i].subs \subseteq Range(st.subs)
  BY <1>2, GoodHas
<1>12. \A i \in 1..Len(r) : r[i].id \in DOMAIN re => re[r[i].id].config = r[i].url.config
  <2> SUFFICES ASSUME NEW i \in 1..Len(r), r[i].id \in DOMAIN re
               PROVE  re[r[i].id].config = r[i].url.config
    OBVIOUS
  <2>1. PICK a \in 1..Len(s) : r[i] = s[a]
    BY <1>2
  <2>2. st.results[s[a].id].config = s[a].url.config
    BY <2>1, <1>7, GoodHas DEF Good, Theirs
  <2> QED BY <2>1, <2>2, <1>7
<1>13. Len(r) <= MaxNodes /\ Distinct(st.subs)
  <2>1. Len(s) <= MaxNodes
    BY GoodHas
  <2>2. Distinct(st.subs)
    BY DEF Good
  <2> HIDE DEF s
  <2> QED BY <2>1, <2>2, <1>2, <1>3, <1>0, Sentinels
<1>14. Sound(u)
  BY <1>5, <1>6, <1>7, <1>8, <1>9, <1>10, <1>11, <1>12, <1>13 DEF Sound
<1> QED BY <1>14, GoodIf

LEMMA RemoveAllGood ==
  ASSUME NEW st, Good(st), NEW u, u = RemoveAllNodes(st)
  PROVE  Good(u)
<1> DEFINE nil == <<>>
<1>0. st \in StoreType /\ Distinct(st.subs)
  BY DEF Good
<1>1. nil \in Seq(NodeType) /\ Len(nil) = 0 /\ DOMAIN nil = {} /\ nil \in Fns(Scenes, Nat) /\ nil \in Fns(Nat, Urls)
  <2>1. DOMAIN nil = {} /\ nil = [x \in {} |-> x]
    OBVIOUS
  <2>2. nil \in [{} -> Nat] /\ nil \in [{} -> Urls]
    BY <2>1
  <2>3. nil \in Seq(NodeType) /\ Len(nil) = 0
    OBVIOUS
  <2> HIDE DEF nil
  <2>4. DOMAIN nil = {} /\ nil \in [DOMAIN nil -> Nat] /\ nil \in [DOMAIN nil -> Urls]
    BY <2>1, <2>2
  <2> QED BY <2>3, <2>4, FnsIs
<1>2. u = [st EXCEPT !.nodes = nil, !.default = None, !.scenes = nil, !.results = nil, !.on = {}]
  BY DEF RemoveAllNodes
<1> HIDE DEF nil
<1>3. /\ u.nodes = nil /\ u.default = None /\ u.scenes = nil /\ u.on = {}
      /\ u.results = nil /\ u.subs = st.subs /\ u \in StoreType
  BY <1>0, <1>1, <1>2 DEF StoreType
<1>4. Sound(u)
  BY <1>0, <1>1, <1>3, Sentinels DEF Sound
<1> QED BY <1>4, GoodIf

\* A scene goes on, over a node, or off.
LEMMA SetSceneGood ==
  ASSUME NEW st, Good(st), NEW on \in SUBSET Scenes, on # {} => st.nodes # <<>>,
         NEW u, u = [st EXCEPT !.on = on]
  PROVE  Good(u)
<1>0. st \in StoreType /\ Distinct(st.subs) /\ Valid(st) /\ Theirs(st)
  BY DEF Good
<1>1. /\ u.nodes = st.nodes /\ u.default = st.default /\ u.scenes = st.scenes /\ u.on = on
      /\ u.results = st.results /\ u.subs = st.subs /\ u \in StoreType
  BY <1>0 DEF StoreType
<1>2. Valid(u) /\ Theirs(u)
  BY <1>0, <1>1 DEF Valid, Theirs
<1> QED BY <1>0, <1>1, <1>2 DEF Good

\* Results of probes are filed under nodes that still are what was probed.
LEMMA MergeResultsGood ==
  ASSUME NEW st, Good(st), NEW snapshot \in Fns(Nat, Urls), NEW u, u = MergeResults(st, snapshot)
  PROVE  /\ Good(u) /\ u.nodes = st.nodes /\ Fresh(st, snapshot) \subseteq IdsOf(st.nodes)
<1> DEFINE fresh == Fresh(st, snapshot)
           old == {id \in DOMAIN st.results \cap IdsOf(st.nodes) : id \in DOMAIN snapshot => id \in fresh}
           re == [id \in old \cup fresh |-> IF id \in fresh THEN snapshot[id] ELSE st.results[id]]
<1>0. st \in StoreType /\ Distinct(st.subs) /\ Valid(st) /\ Theirs(st)
  BY DEF Good
<1>1. u = [st EXCEPT !.results = re]
  BY DEF MergeResults
<1>2. \A id \in fresh : \E i \in 1..Len(st.nodes) :
        st.nodes[i].id = id /\ id \in DOMAIN snapshot /\ st.nodes[i].url = snapshot[id]
  <2>1. \A n \in Range(st.nodes) : \E i \in 1..Len(st.nodes) : st.nodes[i] = n
    BY GoodHas DEF Range
  <2> QED BY <2>1 DEF Fresh, Same
<1>3. fresh \subseteq IdsOf(st.nodes)
  BY <1>2, GoodHas
<1>4. DOMAIN re = old \cup fresh /\ \A id \in DOMAIN re :
        re[id] = IF id \in fresh THEN snapshot[id] ELSE st.results[id]
  OBVIOUS
<1>5. re \in [DOMAIN re -> Urls]
  <2>1. \A id \in DOMAIN re : re[id] \in Urls
    <3>1. snapshot \in [DOMAIN snapshot -> Urls] /\ st.results \in [DOMAIN st.results -> Urls]
      BY FnsIs, GoodHas
    <3>2. \A id \in fresh : id \in DOMAIN snapshot
      BY <1>2
    <3> HIDE DEF fresh
    <3> QED BY <1>4, <3>1, <3>2
  <2>2. re = [id \in DOMAIN re |-> re[id]]
    OBVIOUS
  <2> HIDE DEF re
  <2> QED BY <2>1, <2>2
<1>6. DOMAIN re \subseteq IdsOf(st.nodes)
  BY <1>3
<1> HIDE DEF re, fresh, old
<1>7. re \in Fns(Nat, Urls)
  BY <1>5, <1>6, FnsIs, GoodHas, IdsAre
<1>8. /\ u.nodes = st.nodes /\ u.default = st.default /\ u.scenes = st.scenes /\ u.on = st.on
      /\ u.results = re /\ u.subs = st.subs /\ u \in StoreType
  BY <1>0, <1>1, <1>7 DEF StoreType
<1>9. Valid(u)
  BY <1>0, <1>6, <1>8 DEF Valid
<1>10. Theirs(u)
  <2> SUFFICES ASSUME NEW id \in DOMAIN re PROVE re[id].config = Find(st.nodes, id).url.config
    BY <1>8 DEF Theirs
  <2>1. CASE id \in fresh
    <3>1. PICK i \in 1..Len(st.nodes) : st.nodes[i].id = id /\ st.nodes[i].url = snapshot[id]
      BY <1>2, <2>1
    <3>2. Find(st.nodes, id) = st.nodes[i]
      BY <3>1, GoodHas
    <3> QED BY <3>1, <3>2, <2>1, <1>4
  <2>2. CASE id \notin fresh
    <3>1. id \in DOMAIN st.results /\ re[id] = st.results[id]
      BY <2>2, <1>4 DEF old
    <3> QED BY <3>1, <1>0 DEF Theirs
  <2> QED BY <2>1, <2>2
<1> QED BY <1>0, <1>3, <1>8, <1>9, <1>10 DEF Good, fresh

-------------------------------------------------------------------------------
(* What was downloaded.                                                     *)

DownloadType == [sub : Subs, list : Lists, edition : Nat]

\* Downloads, at most one of a subscription.
Once(p) == p \in Seq(DownloadType) /\ \A i, j \in DOMAIN p : p[i].sub = p[j].sub => i = j

Prepared(p) == Once(p) /\ Len(p) # 0

LEMMA ListIs ==
  ASSUME NEW l \in Lists
  PROVE  /\ l \in Seq(Urls) /\ Len(l) > 0 /\ DOMAIN l = 1..Len(l)
         /\ \A i, j \in 1..Len(l) : l[i] = l[j] => i = j
<1>1. PICK n \in 1..MaxList : l \in [1..n -> Urls] /\ \A i, j \in 1..n : l[i] = l[j] => i = j
  BY DEF Lists
<1>2. n \in Nat /\ n > 0
  BY <1>1
<1> QED BY <1>1, <1>2

\* The connections of all downloads.
LEMMA IncomingIs ==
  ASSUME NEW p, Prepared(p), NEW links, links = Incoming(p)
  PROVE  /\ links \in Seq(Urls) /\ Len(links) > 0 /\ DOMAIN links = 1..Len(links) /\ Len(links) \in Nat
         /\ \A i \in DOMAIN p : ConfigsOf(p[i].list) \subseteq ConfigsOf(links)
         /\ \A i \in DOMAIN p : p[i].list[1].config \in ConfigsOf(p[i].list)
         /\ \A c \in ConfigsOf(links) : \E i \in DOMAIN p : c \in ConfigsOf(p[i].list)
         /\ links[1].config \in ConfigsOf(links)
<1> DEFINE ss == [i \in DOMAIN p |-> p[i].list]
<1>1. p \in Seq(DownloadType) /\ DOMAIN p = 1..Len(p) /\ Len(p) \in Nat /\ Len(p) > 0
  BY DEF Prepared, Once
<1>2. \A i \in 1..Len(p) : ss[i] = p[i].list /\ ss[i] \in Lists
  <2>1. \A i \in 1..Len(p) : p[i] \in DownloadType
    BY <1>1
  <2> QED BY <1>1, <2>1 DEF DownloadType
<1>3. \A i \in 1..Len(p) : ss[i] \in Seq(Urls) /\ Len(ss[i]) > 0 /\ DOMAIN ss[i] = 1..Len(ss[i])
  <2> HIDE DEF ss
  <2> QED BY <1>2, ListIs
<1>4. ss \in Seq(Seq(Urls)) /\ Len(ss) = Len(p)
  <2>1. DOMAIN ss = 1..Len(p) /\ ss = [i \in 1..Len(p) |-> ss[i]]
    BY <1>1
  <2> HIDE DEF ss
  <2> QED BY <1>1, <1>3, <2>1
<1>5. links = FlattenSeq(ss)
  BY DEF Incoming
<1> HIDE DEF ss
<1>6. /\ links \in Seq(Urls) /\ Len(links) > 0 /\ links[1] = ss[1][1]
      /\ \A k \in 1..Len(links) : \E i \in 1..Len(ss) : \E j \in 1..Len(ss[i]) : links[k] = ss[i][j]
      /\ \A i \in 1..Len(ss) : \A j \in 1..Len(ss[i]) : \E k \in 1..Len(links) : links[k] = ss[i][j]
  <2>1. Len(ss) > 0 /\ Len(ss[1]) > 0
    BY <1>1, <1>3, <1>4
  <2>2. links \in Seq(Urls) /\ Joins(links, ss)
    BY <1>4, <1>5, <2>1, FlattenFacts
  <2> QED BY <2>2 DEF Joins
<1>7. DOMAIN links = 1..Len(links) /\ Len(links) \in Nat
  BY <1>6
<1>8. \A i \in DOMAIN p : ConfigsOf(p[i].list) \subseteq ConfigsOf(links)
  <2> SUFFICES ASSUME NEW i \in 1..Len(p), NEW c \in ConfigsOf(ss[i])
               PROVE  c \in ConfigsOf(links)
    BY <1>1, <1>2
  <2>2. PICK j \in 1..Len(ss[i]) : ss[i][j].config = c
    BY <1>3 DEF ConfigsOf
  <2>1. PICK k \in 1..Len(links) : links[k] = ss[i][j]
    BY <1>4, <1>6
  <2> QED BY <1>7, <2>1, <2>2 DEF ConfigsOf
<1>9. \A c \in ConfigsOf(links) : \E i \in DOMAIN p : c \in ConfigsOf(p[i].list)
  <2> SUFFICES ASSUME NEW k \in 1..Len(links)
               PROVE  \E i \in DOMAIN p : links[k].config \in ConfigsOf(p[i].list)
    BY <1>7 DEF ConfigsOf
  <2>1. PICK i \in 1..Len(ss) : \E j \in 1..Len(ss[i]) : links[k] = ss[i][j]
    BY <1>6
  <2>2. PICK j \in 1..Len(ss[i]) : links[k] = ss[i][j]
    BY <2>1
  <2>3. i \in DOMAIN p /\ j \in DOMAIN p[i].list /\ links[k] = p[i].list[j]
    BY <1>1, <1>2, <1>3, <1>4, <2>2
  <2> QED BY <2>3 DEF ConfigsOf
<1>10. \A i \in DOMAIN p : p[i].list[1].config \in ConfigsOf(p[i].list)
  <2> TAKE i \in DOMAIN p
  <2>1. 1 \in DOMAIN p[i].list
    BY <1>1, <1>2, <1>3
  <2> QED BY <2>1 DEF ConfigsOf
<1>11. links[1].config \in ConfigsOf(links)
  <2>1. 1 \in DOMAIN links
    BY <1>6, <1>7
  <2> QED BY <2>1 DEF ConfigsOf
<1> QED BY <1>6, <1>7, <1>8, <1>9, <1>10, <1>11

\* The link that counts is the first one of the connection.
LEMMA DesiredIs ==
  ASSUME NEW links \in Seq(Urls), NEW c \in ConfigsOf(links), NEW d, d = Desired(links, c)
  PROVE  d \in Urls /\ d.config = c
<1> DEFINE T == {i \in 1..Len(links) : links[i].config = c}
           P(i) == links[i].config = c /\ \A j \in 1..(i - 1) : links[j].config # c
<1>1. DOMAIN links = 1..Len(links) /\ Len(links) \in Nat /\ \A i \in 1..Len(links) : links[i] \in Urls
  OBVIOUS
<1>2. T # {} /\ T \subseteq Nat
  BY <1>1 DEF ConfigsOf
<1>3. PICK i \in T : \A j \in T : i <= j
  <2> HIDE DEF T
  <2> QED BY <1>2, LeastExists
<1>4. i \in DOMAIN links /\ P(i)
  <2>1. \A j \in 1..(i - 1) : j \notin T
    BY <1>1, <1>3
  <2> QED BY <1>1, <1>3, <2>1
<1>5. d = links[CHOOSE k \in DOMAIN links : P(k)]
  BY DEF Desired
<1>6. \E k \in DOMAIN links : P(k) /\ d = links[k]
  BY <1>4, <1>5
<1> QED BY <1>1, <1>6

LEMMA SourcesAre ==
  ASSUME NEW p, Prepared(p), NEW c
  PROVE  /\ Sources(p, c) \subseteq Refreshing(p) /\ Refreshing(p) \subseteq Subs
         /\ c \in ConfigsOf(Incoming(p)) <=> Sources(p, c) # {}
         /\ \A i \in DOMAIN p : p[i].sub \in Sources(p, c) <=> c \in ConfigsOf(p[i].list)
         /\ \A i \in DOMAIN p : p[i].sub \in Refreshing(p)
<1>1. /\ p \in Seq(DownloadType) /\ DOMAIN p = 1..Len(p)
      /\ \A i, j \in DOMAIN p : p[i].sub = p[j].sub => i = j
  BY DEF Prepared, Once
<1>2. Sources(p, c) \subseteq Refreshing(p)
  BY DEF Sources, Refreshing
<1>3. Refreshing(p) \subseteq Subs
  <2>1. \A i \in DOMAIN p : p[i] \in DownloadType
    BY <1>1
  <2> QED BY <2>1 DEF Refreshing, DownloadType
<1>4. c \in ConfigsOf(Incoming(p)) <=> Sources(p, c) # {}
  <2>1. c \in ConfigsOf(Incoming(p)) <=> \E i \in DOMAIN p : c \in ConfigsOf(p[i].list)
    BY IncomingIs
  <2> QED BY <2>1 DEF Sources
<1>5. \A i \in DOMAIN p : p[i].sub \in Sources(p, c) <=> c \in ConfigsOf(p[i].list)
  BY <1>1 DEF Sources
<1> QED BY <1>2, <1>3, <1>4, <1>5 DEF Refreshing

-------------------------------------------------------------------------------
(* The stored nodes after an update.                                        *)

\* Among some copies there is one that is preferred.
LEMMA PreferredIs ==
  ASSUME NEW st, NEW copies, copies \subseteq Nat, copies # {}
  PROVE  Preferred(st, copies) \in copies
<1> DEFINE a(i) == Priority(st, st.nodes[i])
           T == {2 - a(i) : i \in copies}
           P(i) == \A j \in copies : a(i) > a(j) \/ (a(i) = a(j) /\ i <= j)
<1>1. \A i : a(i) \in {0, 1, 2}
  BY DEF Priority
<1> HIDE DEF a
<1>2. T \subseteq Nat /\ T # {}
  <2>1. \A i \in copies : 2 - a(i) \in Nat
    BY <1>1
  <2>2. PICK i \in copies : TRUE
    OBVIOUS
  <2>3. 2 - a(i) \in T
    OBVIOUS
  <2> QED BY <2>1, <2>3
<1>3. PICK x \in T : \A y \in T : x <= y
  <2> HIDE DEF T
  <2> QED BY <1>2, LeastExists
<1> DEFINE U == {i \in copies : 2 - a(i) = x}
<1>4. PICK k \in U : \A j \in U : k <= j
  <2>1. U \subseteq Nat /\ U # {}
    BY <1>3
  <2> HIDE DEF U
  <2> QED BY <2>1, LeastExists
<1>5. P(k)
  <2> SUFFICES ASSUME NEW j \in copies PROVE a(k) > a(j) \/ (a(k) = a(j) /\ k <= j)
    OBVIOUS
  <2>1. 2 - a(k) = x /\ x <= 2 - a(j)
    BY <1>3, <1>4
  <2>2. a(k) \in Int /\ a(j) \in Int
    BY <1>1
  <2>3. a(k) = a(j) => j \in U
    BY <2>1
  <2> QED BY <2>1, <2>2, <2>3, <1>4
<1>6. Preferred(st, copies) = CHOOSE i \in copies : P(i)
  BY DEF Preferred, a
<1> HIDE DEF P
<1> QED BY <1>4, <1>5, <1>6

\* The keeper of a connection is one of its copies, and the one that has the incoming link
\* if that has to stay.
LEMMA KeeperIs ==
  ASSUME NEW st, Good(st), NEW p, NEW i \in 1..Len(st.nodes), NEW c, c = st.nodes[i].url.config,
         NEW k, k = Keeper(st, p, c)
  PROVE  /\ k \in 1..Len(st.nodes) /\ st.nodes[k].url.config = c
         /\ c \in ConfigsOf(Incoming(p)) /\ st.nodes[i].url = Desired(Incoming(p), c)
              /\ MustKeep(st.nodes[i], Refreshing(p)) => k = i
<1> DEFINE links == Incoming(p)
           copies == {j \in DOMAIN st.nodes : st.nodes[j].url.config = c}
           same == {j \in copies : c \in ConfigsOf(links) /\ st.nodes[j].url = Desired(links, c)
                                   /\ MustKeep(st.nodes[j], Refreshing(p))}
<1>1. k = IF same # {} THEN CHOOSE j \in same : TRUE ELSE Preferred(st, copies)
  BY DEF Keeper
<1>2. DOMAIN st.nodes = 1..Len(st.nodes) /\ \A a, b \in 1..Len(st.nodes) : st.nodes[a].url = st.nodes[b].url => a = b
  BY GoodHas
<1>3. copies \subseteq Nat /\ copies # {}
  BY <1>2
<1>4. k \in copies
  <2>1. Preferred(st, copies) \in copies
    <3> HIDE DEF copies
    <3> QED BY <1>3, PreferredIs
  <2>2. same \subseteq copies
    OBVIOUS
  <2> HIDE DEF copies, same
  <2> QED BY <1>1, <2>1, <2>2
<1>5. same # {} => k \in same
  <2> HIDE DEF copies, same
  <2> QED BY <1>1
<1>6. ASSUME i \in same PROVE k = i
  <2>1. st.nodes[k].url = st.nodes[i].url
    BY <1>5, <1>6
  <2> QED BY <1>2, <1>4, <2>1
<1> QED BY <1>2, <1>4, <1>6

\* m is n after the update; k is the keeper of its connection, i its place.
Renewal(m, n, p, k, i) ==
  /\ m \in NodeType /\ m.id = n.id /\ m.managed = n.managed /\ m.url.config = n.url.config
  /\ m.subs = (n.subs \ Refreshing(p)) \cup (IF k = i THEN Sources(p, n.url.config) ELSE {})
  /\ m.url # n.url => /\ k = i /\ n.url.config \in ConfigsOf(Incoming(p))
                      /\ m.url = Desired(Incoming(p), n.url.config)

LEMMA RenewedIs ==
  ASSUME NEW st, Good(st), NEW p, Prepared(p), NEW i \in 1..Len(st.nodes)
  PROVE  Renewal(Renewed(st, p, i), st.nodes[i], p, Keeper(st, p, st.nodes[i].url.config), i)
<1> DEFINE n == st.nodes[i]  m == Renewed(st, p, i)  keeps == Keeper(st, p, n.url.config) = i
           c == n.url.config  links == Incoming(p)
           ss == (n.subs \ Refreshing(p)) \cup (IF keeps THEN Sources(p, c) ELSE {})
           url == IF keeps /\ n.managed /\ c \in ConfigsOf(links) THEN Desired(links, c) ELSE n.url
<1>1. n \in NodeType
  BY GoodHas
<1>2. m = [n EXCEPT !.subs = ss, !.url = url]
  BY DEF Renewed
<1>3. ss \in SUBSET Subs
  <2>1. n.subs \subseteq Subs
    BY <1>1 DEF NodeType
  <2>2. Sources(p, c) \subseteq Subs
    BY SourcesAre
  <2> QED BY <2>1, <2>2
<1>4. url \in Urls /\ url.config = c /\ (url # n.url => keeps /\ c \in ConfigsOf(links) /\ url = Desired(links, c))
  <2>1. n.url \in Urls
    BY <1>1 DEF NodeType
  <2>2. c \in ConfigsOf(links) => Desired(links, c) \in Urls /\ Desired(links, c).config = c
    <3>1. links \in Seq(Urls)
      BY IncomingIs
    <3> HIDE DEF links, c
    <3> QED BY <3>1, DesiredIs
  <2> QED BY <2>1, <2>2
<1> HIDE DEF ss, url, links, m, n, keeps
<1>5. m \in NodeType /\ m.id = n.id /\ m.managed = n.managed /\ m.subs = ss /\ m.url = url
  BY <1>1, <1>2, <1>3, <1>4 DEF NodeType
<1>6. /\ m.url.config = n.url.config
      /\ m.subs = (n.subs \ Refreshing(p)) \cup (IF keeps THEN Sources(p, n.url.config) ELSE {})
      /\ m.url # n.url => /\ keeps /\ n.url.config \in ConfigsOf(Incoming(p))
                          /\ m.url = Desired(Incoming(p), n.url.config)
  BY <1>4, <1>5 DEF ss, links
<1> QED BY <1>5, <1>6 DEF Renewal, m, n, keeps

\* Two stored nodes that stay have different links.
LEMMA RenewedApart ==
  ASSUME NEW st, Good(st), NEW p, Prepared(p), NEW i \in 1..Len(st.nodes), NEW j \in 1..Len(st.nodes),
         ~Withdrawn(Renewed(st, p, i)), ~Withdrawn(Renewed(st, p, j)),
         Renewed(st, p, i).url = Renewed(st, p, j).url
  PROVE  i = j
<1>1. ASSUME NEW a \in 1..Len(st.nodes), NEW b \in 1..Len(st.nodes), a # b, ~Withdrawn(Renewed(st, p, b)),
             Renewed(st, p, a).url = Renewed(st, p, b).url, Renewed(st, p, a).url # st.nodes[a].url
      PROVE  FALSE
  <2> DEFINE c == st.nodes[b].url.config
  <2>1. /\ Keeper(st, p, st.nodes[a].url.config) = a /\ st.nodes[a].url.config \in ConfigsOf(Incoming(p))
        /\ Renewed(st, p, a).url = Desired(Incoming(p), st.nodes[a].url.config)
        /\ Renewed(st, p, a).url.config = st.nodes[a].url.config
    BY <1>1, RenewedIs DEF Renewal
  <2>2. /\ Renewed(st, p, b).url.config = c
        /\ Renewed(st, p, b).managed = st.nodes[b].managed
        /\ Renewed(st, p, b).subs =
             (st.nodes[b].subs \ Refreshing(p)) \cup (IF Keeper(st, p, c) = b THEN Sources(p, c) ELSE {})
        /\ (Renewed(st, p, b).url # st.nodes[b].url => Keeper(st, p, c) = b)
    BY RenewedIs DEF Renewal
  <2>3. st.nodes[a].url.config = c
    BY <2>1, <2>2, <1>1
  <2>4. Keeper(st, p, c) = a /\ Keeper(st, p, c) # b
    BY <2>1, <2>3, <1>1
  <2>5. Renewed(st, p, b).url = st.nodes[b].url /\ Renewed(st, p, b).subs = st.nodes[b].subs \ Refreshing(p)
    BY <2>2, <2>4
  <2>6. MustKeep(st.nodes[b], Refreshing(p))
    BY <2>2, <2>5, <1>1 DEF MustKeep, Withdrawn
  <2>7. st.nodes[b].url = Desired(Incoming(p), c) /\ c \in ConfigsOf(Incoming(p))
    BY <2>1, <2>3, <2>5, <1>1
  <2>8. Keeper(st, p, c) = b
    BY <2>6, <2>7, KeeperIs
  <2> QED BY <2>4, <2>8
<1>2. ASSUME i # j PROVE FALSE
  <2>1. CASE Renewed(st, p, i).url # st.nodes[i].url
    BY <1>1, <1>2, <2>1
  <2>2. CASE Renewed(st, p, j).url # st.nodes[j].url
    BY <1>1, <1>2, <2>2
  <2>3. CASE Renewed(st, p, i).url = st.nodes[i].url /\ Renewed(st, p, j).url = st.nodes[j].url
    <3>1. st.nodes[i].url = st.nodes[j].url
      BY <2>3
    <3> QED BY <3>1, <1>2, GoodHas
  <2> QED BY <2>1, <2>2, <2>3
<1> QED BY <1>2

-------------------------------------------------------------------------------
(* The links that the store did not know yet.                               *)

\* r is nodes, which know the connection of url, or has a new node for it at the end.
Grown(r, nodes, p, url) ==
  \/ r = nodes /\ \E i \in 1..Len(nodes) : nodes[i].url.config = url.config
  \/ \E n \in NodeType :
       /\ \A i \in 1..Len(nodes) : nodes[i].url.config # url.config
       /\ n.id \notin IdsOf(nodes) /\ n.url = url /\ n.subs = Sources(p, url.config) /\ n.managed
       /\ r = Append(nodes, n)

LEMMA WithLinkIs ==
  ASSUME NEW nodes \in Seq(NodeType), NEW p, Prepared(p), NEW url \in Urls, NEW r, r = WithLink(nodes, p, url)
  PROVE  r \in Seq(NodeType) /\ Grown(r, nodes, p, url)
<1> DEFINE id == NewId(IdsOf(nodes))  ss == Sources(p, url.config)  b == TRUE  n == Node(id, url, ss, b)
<1>1. DOMAIN nodes = 1..Len(nodes)
  OBVIOUS
<1>2. CASE \E i \in 1..Len(nodes) : nodes[i].url.config = url.config
  <2>1. r = nodes
    BY <1>1, <1>2 DEF WithLink
  <2> QED BY <2>1, <1>2 DEF Grown
<1>3. CASE \A i \in 1..Len(nodes) : nodes[i].url.config # url.config
  <2>1. r = Append(nodes, n)
    BY <1>1, <1>3 DEF WithLink
  <2>2. id \in Nat /\ id \notin IdsOf(nodes) /\ ss \in SUBSET Subs /\ b \in BOOLEAN /\ b
    BY NewIdIsNew, SourcesAre
  <2>3. n = Node(id, url, ss, b) /\ ss = Sources(p, url.config)
    OBVIOUS
  <2> HIDE DEF id, ss, b, n
  <2>4. n \in NodeType /\ n.id = id /\ n.url = url /\ n.subs = ss /\ n.managed = b
    BY <2>2, <2>3 DEF Node, NodeType
  <2>5. Append(nodes, n) \in Seq(NodeType)
    BY <2>4
  <2>6. n.managed
    BY <2>2, <2>4
  <2> QED BY <1>3, <2>1, <2>2, <2>3, <2>4, <2>5, <2>6 DEF Grown
<1> QED BY <1>2, <1>3

\* The stored nodes of an update have the types of nodes.
LEMMA StoredIs ==
  ASSUME NEW st, Good(st), NEW p, Prepared(p), NEW s, s = Stored(st, p)
  PROVE  /\ s \in Seq(NodeType) /\ Len(s) = Len(st.nodes)
         /\ \A i \in 1..Len(st.nodes) : s[i] = Renewed(st, p, i)
<1>1. DOMAIN st.nodes = 1..Len(st.nodes) /\ Len(st.nodes) \in Nat
  BY GoodHas
<1>2. \A i \in 1..Len(st.nodes) : Renewed(st, p, i) \in NodeType
  BY RenewedIs DEF Renewal
<1>3. s = [i \in 1..Len(st.nodes) |-> Renewed(st, p, i)]
  BY <1>1 DEF Stored
<1> QED BY <1>1, <1>2, <1>3

\* The recursion of Added.
LEMMA AddedIs ==
  ASSUME NEW st, Good(st), NEW p, Prepared(p), NEW links, links = Incoming(p)
  PROVE  \E f \in [0..Len(links) -> Seq(NodeType)] :
           /\ f[0] = Stored(st, p)
           /\ \A k \in 1..Len(links) : f[k] = WithLink(f[k - 1], p, links[k])
           /\ Added(st, p) = f[Len(links)]
<1> DEFINE n == Len(links)
           s == Stored(st, p)
           G(f, k) == IF k = 0 THEN s ELSE WithLink(f[k - 1], p, links[k])
           F == CHOOSE f : f = [k \in 0..n |-> G(f, k)]
           step == [k \in 1..n |-> [x \in Seq(NodeType) |-> WithLink(x, p, links[k])]]
<1>0. n \in Nat /\ s \in Seq(NodeType) /\ \A k \in 1..n : links[k] \in Urls
  BY IncomingIs, StoredIs
<1>1. Added(st, p) = F[n]
  BY DEF Added
<1>2. step \in [1..n -> [Seq(NodeType) -> Seq(NodeType)]]
  <2>1. \A k \in 1..n, x \in Seq(NodeType) : WithLink(x, p, links[k]) \in Seq(NodeType)
    BY <1>0, WithLinkIs
  <2> HIDE DEF n
  <2> QED BY <2>1
<1>3. PICK g \in [0..n -> Seq(NodeType)] : Follows(g, n, s, step)
  <2> HIDE DEF step, n, s
  <2> QED BY <1>0, <1>2, Recursion
<1>4. g = [k \in 0..n |-> G(g, k)]
  <2>1. ASSUME NEW k \in 1..n PROVE g[k] = G(g, k)
    <3> HIDE DEF n
    <3>1. k - 1 \in 0..n /\ k # 0
      BY <1>0
    <3>2. g[k - 1] \in Seq(NodeType)
      BY <3>1
    <3>3. step[k][g[k - 1]] = G(g, k)
      BY <3>1, <3>2
    <3>4. g[k] = step[k][g[k - 1]]
      BY <1>3 DEF Follows
    <3> QED BY <3>3, <3>4
  <2>2. g[0] = G(g, 0)
    BY <1>3 DEF Follows
  <2> HIDE DEF G, n, step
  <2>3. \A k \in 0..n : g[k] = G(g, k)
    BY <2>1, <2>2, <1>0
  <2> QED BY <2>3
<1>5. F = [k \in 0..n |-> G(F, k)]
  <2> HIDE DEF G, n
  <2> QED BY <1>4
<1>6. DOMAIN F = 0..n /\ \A k \in 0..n : F[k] = G(F, k)
  <2> HIDE DEF F, G, n
  <2> QED BY <1>5
<1> HIDE DEF F
<1>7. F[0] = s /\ \A k \in 1..n : F[k] = WithLink(F[k - 1], p, links[k])
  <2> HIDE DEF n, s
  <2>1. F[0] = s
    BY <1>0, <1>6
  <2>2. ASSUME NEW k \in 1..n PROVE F[k] = WithLink(F[k - 1], p, links[k])
    <3>1. k \in 0..n /\ k # 0
      BY <1>0
    <3>2. F[k] = G(F, k)
      BY <1>6, <3>1
    <3> QED BY <3>1, <3>2
  <2> QED BY <2>1, <2>2
<1>8. \A k \in 0..n : F[k] \in Seq(NodeType)
  <2> HIDE DEF n, s
  <2> DEFINE T == {k \in 0..n : F[k] \in Seq(NodeType)}
  <2>1. 0 \in T
    BY <1>0, <1>7
  <2>2. ASSUME NEW k \in 1..n, k - 1 \in T PROVE k \in T
    <3>1. F[k - 1] \in Seq(NodeType) /\ links[k] \in Urls /\ k \in 0..n
      BY <1>0, <2>2
    <3>2. F[k] = WithLink(F[k - 1], p, links[k])
      BY <1>7
    <3>3. F[k] \in Seq(NodeType)
      BY <3>1, <3>2, WithLinkIs
    <3> QED BY <3>1, <3>3
  <2>3. \A k \in 1..n : k - 1 \in T => k \in T
    BY <2>2
  <2> HIDE DEF T
  <2>4. \A k \in 0..n : k \in T
    BY <2>1, <2>3, <1>0, Induction
  <2> QED BY <2>4 DEF T
<1>9. F \in [0..n -> Seq(NodeType)]
  <2> HIDE DEF n, G
  <2>1. F = [k \in 0..n |-> F[k]]
    BY <1>5, <1>6
  <2> QED BY <2>1, <1>8
<1> QED BY <1>1, <1>7, <1>9

\* The nodes after the first m links: the stored ones, and one for each connection that is new.
Full(a, st, p, m) ==
  /\ a \in Seq(NodeType) /\ Len(st.nodes) <= Len(a)
  /\ \A i \in 1..Len(st.nodes) : a[i] = Renewed(st, p, i)
  /\ \A i \in 1..Len(a) : i > Len(st.nodes) =>
       /\ a[i].managed /\ a[i].subs = Sources(p, a[i].url.config)
       /\ a[i].url.config \in ConfigsOf(Incoming(p)) /\ a[i].id \notin IdsOf(st.nodes)
  /\ \A i, j \in 1..Len(a) : a[i].id = a[j].id => i = j
  /\ \A i, j \in 1..Len(a) : i > Len(st.nodes) /\ a[i].url.config = a[j].url.config => i = j
  /\ \A j \in 1..m : \E i \in 1..Len(a) : a[i].url.config = Incoming(p)[j].config

LEMMA FullStart ==
  ASSUME NEW st, Good(st), NEW p, Prepared(p), NEW a, a = Stored(st, p)
  PROVE  Full(a, st, p, 0)
<1>1. /\ a \in Seq(NodeType) /\ Len(a) = Len(st.nodes)
      /\ \A i \in 1..Len(st.nodes) : a[i] = Renewed(st, p, i)
  BY StoredIs
<1>2. Len(st.nodes) \in Nat
  BY GoodHas
<1>3. \A i \in 1..Len(st.nodes) : a[i].id = st.nodes[i].id
  BY <1>1, RenewedIs DEF Renewal
<1>4. \A i, j \in 1..Len(a) : a[i].id = a[j].id => i = j
  BY <1>1, <1>3, GoodHas
<1> QED BY <1>1, <1>2, <1>4 DEF Full

LEMMA FullStep ==
  ASSUME NEW st, Good(st), NEW p, Prepared(p), NEW m \in 1..Len(Incoming(p)),
         NEW a, Full(a, st, p, m - 1), NEW b, Grown(b, a, p, Incoming(p)[m])
  PROVE  Full(b, st, p, m)
<1> DEFINE url == Incoming(p)[m]  l0 == Len(st.nodes)  la == Len(a)
<1>0. /\ a \in Seq(NodeType) /\ l0 <= la
      /\ \A i \in 1..l0 : a[i] = Renewed(st, p, i)
      /\ \A i \in 1..la : i > l0 =>
           /\ a[i].managed /\ a[i].subs = Sources(p, a[i].url.config)
           /\ a[i].url.config \in ConfigsOf(Incoming(p)) /\ a[i].id \notin IdsOf(st.nodes)
      /\ \A i, j \in 1..la : a[i].id = a[j].id => i = j
      /\ \A i, j \in 1..la : i > l0 /\ a[i].url.config = a[j].url.config => i = j
      /\ \A j \in 1..(m - 1) : \E i \in 1..la : a[i].url.config = Incoming(p)[j].config
  BY DEF Full
<1>1. la \in Nat /\ l0 \in Nat /\ m \in Nat /\ \A j \in 1..m : j \in 1..(m - 1) \/ j = m
  BY <1>0, GoodHas, IncomingIs
<1>2. CASE b = a /\ \E i \in 1..la : a[i].url.config = url.config
  BY <1>0, <1>1, <1>2 DEF Full
<1>3. ASSUME NEW n \in NodeType, \A i \in 1..la : a[i].url.config # url.config,
             n.id \notin IdsOf(a), n.url = url, n.subs = Sources(p, url.config), n.managed, b = Append(a, n)
      PROVE  Full(b, st, p, m)
  <2>1. b \in Seq(NodeType) /\ Len(b) = la + 1 /\ b[la + 1] = n /\ \A i \in 1..la : b[i] = a[i]
    BY <1>0, <1>3
  <2>2. url.config \in ConfigsOf(Incoming(p))
    <3>1. m \in DOMAIN Incoming(p)
      BY IncomingIs
    <3> QED BY <3>1 DEF ConfigsOf
  <2>3. \A i \in 1..la : a[i].id \in IdsOf(a)
    BY <1>0, IdsAre
  <2>4. n.id \notin IdsOf(st.nodes)
    <3> SUFFICES ASSUME n.id \in IdsOf(st.nodes) PROVE FALSE
      OBVIOUS
    <3>1. PICK i \in 1..l0 : st.nodes[i].id = n.id
      BY GoodHas
    <3>2. a[i].id = n.id /\ i \in 1..la
      BY <1>0, <1>1, <3>1, RenewedIs DEF Renewal
    <3> QED BY <3>2, <2>3, <1>3
  <2> HIDE DEF la, l0, url
  <2>5. \A i \in 1..(la + 1) : i \in 1..la \/ i = la + 1
    BY <1>1
  <2>6. \A i \in 1..l0 : b[i] = Renewed(st, p, i)
    BY <1>0, <1>1, <2>1
  <2>7. \A i \in 1..(la + 1) : i > l0 =>
           /\ b[i].managed /\ b[i].subs = Sources(p, b[i].url.config)
           /\ b[i].url.config \in ConfigsOf(Incoming(p)) /\ b[i].id \notin IdsOf(st.nodes)
    BY <1>0, <1>3, <2>1, <2>2, <2>4, <2>5
  <2>8. \A i, j \in 1..(la + 1) : b[i].id = b[j].id => i = j
    <3> TAKE i, j \in 1..(la + 1)
    <3> QED BY <1>0, <1>3, <2>1, <2>3, <2>5
  <2>9. \A i, j \in 1..(la + 1) : i > l0 /\ b[i].url.config = b[j].url.config => i = j
    <3> TAKE i, j \in 1..(la + 1)
    <3> QED BY <1>0, <1>3, <2>1, <2>5
  <2>10. \A j \in 1..m : \E i \in 1..(la + 1) : b[i].url.config = Incoming(p)[j].config
    <3> TAKE j \in 1..m
    <3>1. CASE j = m
      BY <3>1, <2>1, <1>1, <1>3 DEF url
    <3>2. CASE j # m
      <4>1. PICK i \in 1..la : a[i].url.config = Incoming(p)[j].config
        BY <3>2, <1>0, <1>1
      <4>2. i \in 1..(la + 1) /\ b[i] = a[i]
        BY <1>1, <2>1
      <4> QED BY <4>1, <4>2
    <3> QED BY <3>1, <3>2
  <2>11. l0 <= la + 1
    BY <1>0, <1>1
  <2> QED BY <2>1, <2>6, <2>7, <2>8, <2>9, <2>10, <2>11 DEF Full, l0
<1> QED BY <1>2, <1>3 DEF Grown

\* The nodes after all links.
LEMMA AddedFacts ==
  ASSUME NEW st, Good(st), NEW p, Prepared(p)
  PROVE  Full(Added(st, p), st, p, Len(Incoming(p)))
<1> DEFINE n == Len(Incoming(p))
<1>1. PICK f \in [0..n -> Seq(NodeType)] :
        /\ f[0] = Stored(st, p)
        /\ \A k \in 1..n : f[k] = WithLink(f[k - 1], p, Incoming(p)[k])
        /\ Added(st, p) = f[n]
  BY AddedIs
<1>2. n \in Nat /\ \A k \in 1..n : Incoming(p)[k] \in Urls
  BY IncomingIs
<1> DEFINE T == {k \in 0..n : Full(f[k], st, p, k)}
<1>3. 0 \in T
  BY <1>1, <1>2, FullStart
<1>4. ASSUME NEW k \in 1..n, k - 1 \in T PROVE k \in T
  <2> HIDE DEF n
  <2>1. k \in 0..n /\ k - 1 \in 0..n
    BY <1>2
  <2>2. f[k - 1] \in Seq(NodeType)
    BY <2>1
  <2>3. Grown(f[k], f[k - 1], p, Incoming(p)[k])
    BY <1>1, <1>2, <2>2, WithLinkIs
  <2>4. Full(f[k], st, p, k)
    BY <1>4, <2>3, FullStep DEF n
  <2> QED BY <2>1, <2>4
<1>5. n \in T
  <2>1. \A k \in 1..n : k - 1 \in T => k \in T
    BY <1>4
  <2> HIDE DEF T, n
  <2>2. \A k \in 0..n : k \in T
    BY <1>2, <1>3, <2>1, Induction
  <2> QED BY <1>2, <2>2
<1> QED BY <1>1, <1>5

-------------------------------------------------------------------------------
(* The nodes after an update.                                               *)

Staying(all) == {i \in DOMAIN all : ~Withdrawn(all[i])}

\* What is true of the nodes an update leaves; all are the ones before some are taken away.
After(nodes, st, p) ==
  /\ nodes \in Seq(NodeType)
  /\ \A i, j \in 1..Len(nodes) : nodes[i].id = nodes[j].id \/ nodes[i].url = nodes[j].url => i = j
  /\ \A c \in ConfigsOf(Incoming(p)) : \E i \in 1..Len(nodes) : nodes[i].url.config = c
  /\ \A i \in 1..Len(nodes) : nodes[i].subs \subseteq Range(st.subs) \cup Refreshing(p)
  /\ \A i \in 1..Len(nodes), j \in 1..Len(st.nodes) :
       nodes[i].id = st.nodes[j].id => nodes[i].url.config = st.nodes[j].url.config
  /\ \A j \in 1..Len(st.nodes) : st.nodes[j].id \notin IdsOf(nodes) =>
       st.nodes[j].managed /\ st.nodes[j].subs \subseteq Refreshing(p)
  /\ IdsOf(Added(st, p)) \ IdsOf(nodes) \subseteq IdsOf(st.nodes)
  /\ IdsOf(st.nodes) \subseteq IdsOf(Added(st, p)) /\ IdsOf(nodes) \subseteq IdsOf(Added(st, p))
  /\ Len(st.nodes) > 0 /\ st.nodes[1].id \in IdsOf(nodes) => Len(nodes) > 0 /\ nodes[1].id = st.nodes[1].id

\* The node that keeps a connection that is listed stays.
LEMMA StayingListed ==
  ASSUME NEW st, Good(st), NEW p, Prepared(p), NEW a, Full(a, st, p, Len(Incoming(p))),
         NEW c \in ConfigsOf(Incoming(p))
  PROVE  \E i \in 1..Len(a) : i \in Staying(a) /\ a[i].url.config = c /\ a[i].subs \cap Refreshing(p) = Sources(p, c)
<1>0. a \in Seq(NodeType) /\ DOMAIN a = 1..Len(a) /\ Len(a) \in Nat /\ Len(st.nodes) \in Nat /\ Len(st.nodes) <= Len(a)
  BY GoodHas DEF Full
<1>1. Sources(p, c) # {} /\ Sources(p, c) \subseteq Refreshing(p)
  BY SourcesAre
<1>2. PICK i \in 1..Len(a) : a[i].url.config = c
  <2>1. PICK j \in DOMAIN Incoming(p) : Incoming(p)[j].config = c
    BY DEF ConfigsOf
  <2>2. j \in 1..Len(Incoming(p))
    BY IncomingIs
  <2> QED BY <2>1, <2>2 DEF Full
<1>3. CASE i > Len(st.nodes)
  <2>1. a[i].subs = Sources(p, c)
    BY <1>2, <1>3 DEF Full
  <2> QED BY <2>1, <1>0, <1>1, <1>2 DEF Staying, Withdrawn
<1>4. CASE ~(i > Len(st.nodes))
  <2>1. i \in 1..Len(st.nodes)
    BY <1>0, <1>4
  <2>2. a[i] = Renewed(st, p, i)
    BY <2>1 DEF Full
  <2>3. st.nodes[i].url.config = c
    BY <1>2, <2>1, <2>2, RenewedIs DEF Renewal
  <2> DEFINE k == Keeper(st, p, c)
  <2>4. k \in 1..Len(st.nodes) /\ st.nodes[k].url.config = c
    BY <2>1, <2>3, KeeperIs
  <2> HIDE DEF k
  <2>5. a[k] = Renewed(st, p, k)
    BY <2>4 DEF Full
  <2>6. a[k].url.config = c /\ a[k].subs = (st.nodes[k].subs \ Refreshing(p)) \cup Sources(p, c)
    BY <2>4, <2>5, RenewedIs DEF Renewal, k
  <2>7. k \in 1..Len(a)
    BY <1>0, <2>4
  <2> QED BY <2>6, <2>7, <1>0, <1>1 DEF Staying, Withdrawn
<1> QED BY <1>3, <1>4

\* Nodes that stay have different links.
LEMMA StayingApart ==
  ASSUME NEW st, Good(st), NEW p, Prepared(p), NEW a, Full(a, st, p, Len(Incoming(p))),
         NEW i \in 1..Len(a), NEW j \in 1..Len(a), i \in Staying(a), j \in Staying(a), a[i].url = a[j].url
  PROVE  i = j
<1>0. Len(a) \in Nat /\ Len(st.nodes) \in Nat
  BY GoodHas DEF Full
<1>1. CASE i > Len(st.nodes) \/ j > Len(st.nodes)
  BY <1>1 DEF Full
<1>2. CASE i \in 1..Len(st.nodes) /\ j \in 1..Len(st.nodes)
  <2>1. a[i] = Renewed(st, p, i) /\ a[j] = Renewed(st, p, j)
    BY <1>2 DEF Full
  <2> QED BY <2>1, <1>2, RenewedApart DEF Staying
<1> QED BY <1>0, <1>1, <1>2

LEMMA NodesAfter ==
  ASSUME NEW st, Good(st), NEW p, Prepared(p), NEW nodes, nodes = Only(Added(st, p), Staying(Added(st, p)))
  PROVE  After(nodes, st, p)
<1> DEFINE a == Added(st, p)  I == Staying(a)  l0 == Len(st.nodes)  la == Len(a)  n == Len(nodes)
<1>1. Full(a, st, p, Len(Incoming(p)))
  BY AddedFacts
<1> HIDE DEF a
<1>2. a \in Seq(NodeType) /\ DOMAIN a = 1..la /\ la \in Nat /\ l0 \in Nat /\ l0 <= la /\ DOMAIN st.nodes = 1..l0
  BY <1>1, GoodHas DEF Full
<1>3. nodes \in Seq(NodeType) /\ PartOf(nodes, a, I)
  BY <1>2, OnlyFacts DEF a
<1> HIDE DEF I
<1>4. /\ \A k \in 1..n : \E i \in 1..la : i \in I /\ nodes[k] = a[i]
      /\ \A k, j \in 1..n : k # j =>
           \E x, y \in 1..la : x # y /\ x \in I /\ y \in I /\ nodes[k] = a[x] /\ nodes[j] = a[y]
      /\ \A i \in 1..la : i \in I => \E k \in 1..n : nodes[k] = a[i]
      /\ la > 0 /\ 1 \in I => n > 0 /\ nodes[1] = a[1]
  BY <1>3 DEF PartOf
<1>5. DOMAIN nodes = 1..n /\ n \in Nat
  BY <1>3
<1>6. \A i \in 1..l0 : i \in 1..la /\ Renewal(a[i], st.nodes[i], p, Keeper(st, p, st.nodes[i].url.config), i)
  <2> TAKE i \in 1..l0
  <2>1. a[i] = Renewed(st, p, i)
    BY <1>1 DEF Full
  <2> QED BY <2>1, <1>2, RenewedIs
<1>7. \A i \in 1..la : i > l0 =>
           /\ a[i].managed /\ a[i].subs = Sources(p, a[i].url.config)
           /\ a[i].url.config \in ConfigsOf(Incoming(p)) /\ a[i].id \notin IdsOf(st.nodes)
  BY <1>1 DEF Full
<1>8. \A i, j \in 1..la : a[i].id = a[j].id => i = j
  BY <1>1 DEF Full
<1> HIDE DEF l0, la, n
<1>9. \A i, j \in 1..n : nodes[i].id = nodes[j].id \/ nodes[i].url = nodes[j].url => i = j
  <2> SUFFICES ASSUME NEW i \in 1..n, NEW j \in 1..n, i # j
               PROVE  nodes[i].id # nodes[j].id /\ nodes[i].url # nodes[j].url
    OBVIOUS
  <2>1. PICK x, y \in 1..la : x # y /\ x \in I /\ y \in I /\ nodes[i] = a[x] /\ nodes[j] = a[y]
    BY <1>4
  <2>2. a[x].url # a[y].url
    BY <2>1, <1>1, StayingApart DEF I, la
  <2> QED BY <2>1, <2>2, <1>8
<1>10. \A c \in ConfigsOf(Incoming(p)) : \E i \in 1..n : nodes[i].url.config = c
  <2> TAKE c \in ConfigsOf(Incoming(p))
  <2>1. PICK i \in 1..la : i \in I /\ a[i].url.config = c
    BY <1>1, StayingListed DEF I, la
  <2> QED BY <2>1, <1>4
<1>11. \A i \in 1..n : nodes[i].subs \subseteq Range(st.subs) \cup Refreshing(p)
  <2> TAKE i \in 1..n
  <2>1. PICK x \in 1..la : nodes[i] = a[x]
    BY <1>4
  <2>2. CASE x > l0
    BY <2>1, <2>2, <1>7, SourcesAre
  <2>3. CASE x \in 1..l0
    <3>1. st.nodes[x].subs \subseteq Range(st.subs)
      BY <2>3, GoodHas DEF l0
    <3>2. a[x].subs \subseteq st.nodes[x].subs \cup Refreshing(p)
      BY <2>3, <1>6, SourcesAre DEF Renewal
    <3> QED BY <2>1, <3>1, <3>2
  <2> QED BY <2>2, <2>3, <1>2
<1>12. \A i \in 1..n, j \in 1..l0 : nodes[i].id = st.nodes[j].id => nodes[i].url.config = st.nodes[j].url.config
  <2> SUFFICES ASSUME NEW i \in 1..n, NEW j \in 1..l0, nodes[i].id = st.nodes[j].id
               PROVE nodes[i].url.config = st.nodes[j].url.config
    OBVIOUS
  <2>1. PICK x \in 1..la : nodes[i] = a[x]
    BY <1>4
  <2>2. a[j].id = st.nodes[j].id /\ j \in 1..la /\ a[j].url.config = st.nodes[j].url.config
    BY <1>6 DEF Renewal
  <2>3. x = j
    BY <2>1, <2>2, <1>8
  <2> QED BY <2>1, <2>2, <2>3
<1>13. ASSUME NEW j \in 1..l0, j \in I PROVE st.nodes[j].id \in IdsOf(nodes)
  <2>1. PICK k \in 1..n : nodes[k] = a[j]
    BY <1>4, <1>6, <1>13
  <2> QED BY <2>1, <1>5, <1>6 DEF IdsOf, Renewal
<1>14. \A j \in 1..l0 : st.nodes[j].id \notin IdsOf(nodes) =>
         st.nodes[j].managed /\ st.nodes[j].subs \subseteq Refreshing(p)
  <2> SUFFICES ASSUME NEW j \in 1..l0, st.nodes[j].id \notin IdsOf(nodes)
               PROVE  st.nodes[j].managed /\ st.nodes[j].subs \subseteq Refreshing(p)
    OBVIOUS
  <2>1. j \in 1..la /\ j \notin I
    BY <1>6, <1>13
  <2>2. Withdrawn(a[j])
    BY <2>1, <1>2 DEF I, Staying
  <2> QED BY <2>2, <1>6 DEF Withdrawn, Renewal
<1>15. IdsOf(a) \ IdsOf(nodes) \subseteq IdsOf(st.nodes)
  <2> SUFFICES ASSUME NEW x \in 1..la, a[x].id \notin IdsOf(nodes) PROVE a[x].id \in IdsOf(st.nodes)
    BY <1>2 DEF IdsOf
  <2>1. x \notin I
    BY <1>4, <1>5 DEF IdsOf
  <2>2. CASE x > l0
    <3>1. a[x].subs # {}
      BY <2>2, <1>7, SourcesAre
    <3> QED BY <2>1, <3>1, <1>2 DEF I, Staying, Withdrawn
  <2>3. CASE x \in 1..l0
    BY <2>3, <1>2, <1>6 DEF IdsOf, Renewal
  <2> QED BY <2>2, <2>3, <1>2
<1>16. IdsOf(st.nodes) \subseteq IdsOf(a)
  <2> SUFFICES ASSUME NEW j \in 1..l0 PROVE st.nodes[j].id \in IdsOf(a)
    BY <1>2 DEF IdsOf
  <2> QED BY <1>2, <1>6 DEF IdsOf, Renewal
<1>17. IdsOf(nodes) \subseteq IdsOf(a)
  <2> SUFFICES ASSUME NEW k \in 1..n PROVE nodes[k].id \in IdsOf(a)
    BY <1>5 DEF IdsOf
  <2>1. PICK i \in 1..la : nodes[k] = a[i]
    BY <1>4
  <2> QED BY <2>1, <1>2 DEF IdsOf
<1>18. ASSUME l0 > 0, st.nodes[1].id \in IdsOf(nodes) PROVE n > 0 /\ nodes[1].id = st.nodes[1].id
  <2>1. 1 \in 1..l0 /\ a[1].id = st.nodes[1].id /\ 1 \in 1..la
    BY <1>2, <1>6, <1>18 DEF Renewal
  <2>2. PICK k \in 1..n : nodes[k].id = st.nodes[1].id
    BY <1>5, <1>18 DEF IdsOf
  <2>3. PICK i \in 1..la : i \in I /\ nodes[k] = a[i]
    BY <1>4
  <2>4. i = 1
    BY <2>1, <2>2, <2>3, <1>8
  <2>5. la > 0 /\ 1 \in I
    BY <2>1, <2>3, <2>4, <1>2
  <2>6. n > 0 /\ nodes[1] = a[1]
    BY <2>5, <1>4
  <2> QED BY <2>1, <2>6
<1> QED BY <1>3, <1>9, <1>10, <1>11, <1>12, <1>14, <1>15, <1>16, <1>17, <1>18 DEF After, a, l0, n

-------------------------------------------------------------------------------
(* The subscriptions, and what takes the place of a node that went.         *)

LEMMA RefreshingIs ==
  ASSUME NEW p, Once(p)
  PROVE  IsFiniteSet(Refreshing(p)) /\ Refreshing(p) \subseteq Subs
<1>1. p \in Seq(DownloadType) /\ DOMAIN p = 1..Len(p) /\ Len(p) \in Nat
  BY DEF Once
<1> DEFINE f == [i \in 1..Len(p) |-> p[i].sub]
<1>2. f \in Surjection(1..Len(p), Refreshing(p))
  BY <1>1 DEF Surjection, Refreshing
<1>3. IsFiniteSet(Refreshing(p))
  BY <1>1, <1>2, FS_Surjection, FS_Interval
<1>4. \A i \in DOMAIN p : p[i] \in DownloadType
  BY <1>1
<1> QED BY <1>3, <1>4 DEF Refreshing, DownloadType

\* A finite set, as a list.
LEMMA SetToSeqIs ==
  ASSUME NEW S, NEW R \in SUBSET S, IsFiniteSet(R), NEW q, q = SetToSeq(R)
  PROVE  q \in Seq(S) /\ Distinct(q) /\ Range(q) = R
<1> DEFINE n == Cardinality(R)
<1>1. n \in Nat /\ ExistsBijection(1..n, R)
  BY FS_CardinalityType
<1>2. PICK g : g \in Bijection(1..n, R)
  BY <1>1 DEF ExistsBijection
<1>3. g \in [1..n -> R] /\ IsInjective(g)
  BY <1>2 DEF Bijection, Injection, IsInjective
<1>4. q = CHOOSE f \in [1..n -> R] : IsInjective(f)
  BY DEF SetToSeq
<1>5. q \in [1..n -> R] /\ IsInjective(q)
  BY <1>3, <1>4
<1>6. IsFiniteSet(1..n) /\ Cardinality(1..n) = n
  BY <1>1, FS_Interval
<1>7. q \in Injection(1..n, R)
  BY <1>5 DEF Injection, IsInjective
<1>8. q \in Surjection(1..n, R)
  <2> DEFINE D == 1..n
  <2>1. IsFiniteSet(R) /\ Cardinality(D) = Cardinality(R) /\ q \in Injection(D, R)
    BY <1>6, <1>7
  <2> HIDE DEF D
  <2>2. q \in Surjection(D, R)
    BY <2>1, FS_Injection
  <2> QED BY <2>2 DEF D
<1>9. Range(q) = R
  BY <1>5, <1>8 DEF Range, Surjection
<1>10. Distinct(q)
  BY <1>5 DEF Distinct, IsInjective
<1> HIDE DEF n
<1>11. q \in Seq(S)
  BY <1>1, <1>5
<1> QED BY <1>9, <1>10, <1>11

\* t is s, then q.
Concat(t, s, q) ==
  /\ Len(t) = Len(s) + Len(q)
  /\ \A i \in 1..Len(s) : t[i] = s[i]
  /\ \A i \in 1..Len(q) : t[Len(s) + i] = q[i]

LEMMA ConcatIs ==
  ASSUME NEW S, NEW s \in Seq(S), NEW q \in Seq(S)
  PROVE  s \o q \in Seq(S) /\ Concat(s \o q, s, q)
<1> DEFINE t == s \o q
<1>1. t \in Seq(S) /\ Len(t) = Len(s) + Len(q)
  OBVIOUS
<1>2. \A i \in 1..Len(q) : t[Len(s) + i] = q[i]
  OBVIOUS
<1>3. \A i \in 1..Len(s) : t[i] = s[i]
  OBVIOUS
<1> QED BY <1>1, <1>2, <1>3 DEF Concat

\* The subscriptions after an update: those of before, and the new ones.
LEMMA SubsAfter ==
  ASSUME NEW s \in Seq(Subs), Distinct(s), NEW R \in SUBSET Subs, IsFiniteSet(R),
         NEW t, t = s \o SetToSeq(R \ Range(s))
  PROVE  t \in Seq(Subs) /\ Distinct(t) /\ Range(t) = Range(s) \cup R
<1> DEFINE q == SetToSeq(R \ Range(s))  ls == Len(s)  lq == Len(q)
<1>1. q \in Seq(Subs) /\ Distinct(q) /\ Range(q) = R \ Range(s)
  <2>1. IsFiniteSet(R \ Range(s))
    BY FS_Subset
  <2> QED BY <2>1, SetToSeqIs
<1> HIDE DEF q
<1>2. t = s \o q
  BY DEF q
<1>3. /\ ls \in Nat /\ lq \in Nat /\ DOMAIN s = 1..ls /\ DOMAIN q = 1..lq /\ t \in Seq(Subs)
      /\ Len(t) = ls + lq /\ DOMAIN t = 1..(ls + lq)
      /\ (\A i \in 1..ls : t[i] = s[i]) /\ (\A i \in 1..lq : t[ls + i] = q[i])
  <2>1. ls \in Nat /\ lq \in Nat /\ DOMAIN s = 1..ls /\ DOMAIN q = 1..lq
    BY <1>1
  <2>6. t \in Seq(Subs) /\ Concat(t, s, q)
    BY <1>1, <1>2, ConcatIs
  <2>2. t \in Seq(Subs) /\ Len(t) = ls + lq
    BY <2>6 DEF Concat
  <2>3. DOMAIN t = 1..(ls + lq)
    BY <2>2
  <2>4. \A i \in 1..ls : t[i] = s[i]
    BY <1>1, <1>2
  <2>5. \A i \in 1..lq : t[ls + i] = q[i]
    BY <2>6 DEF Concat
  <2> QED BY <2>1, <2>2, <2>3, <2>4, <2>5
<1> HIDE DEF ls, lq
<1>4. \A i \in 1..(ls + lq) : i \in 1..ls \/ (i - ls \in 1..lq /\ i = ls + (i - ls))
  BY <1>3
<1>5. \A i \in 1..ls : s[i] \in Range(s)
  BY <1>3 DEF Range
<1>6. \A i \in 1..lq : q[i] \in R /\ q[i] \notin Range(s)
  BY <1>1, <1>3 DEF Range
<1>7. Distinct(t)
  <2> SUFFICES ASSUME NEW i \in 1..(ls + lq), NEW j \in 1..(ls + lq), t[i] = t[j] PROVE i = j
    BY <1>3 DEF Distinct
  <2>1. CASE i \in 1..ls /\ j \in 1..ls
    BY <2>1, <1>3 DEF Distinct
  <2>2. CASE i \in 1..ls /\ j - ls \in 1..lq /\ j = ls + (j - ls)
    <3>1. t[j] = q[j - ls]
      BY <2>2, <1>3
    <3> QED BY <3>1, <2>2, <1>3, <1>5, <1>6
  <2>3. CASE j \in 1..ls /\ i - ls \in 1..lq /\ i = ls + (i - ls)
    <3>1. t[i] = q[i - ls]
      BY <2>3, <1>3
    <3> QED BY <3>1, <2>3, <1>3, <1>5, <1>6
  <2>4. CASE i - ls \in 1..lq /\ i = ls + (i - ls) /\ j - ls \in 1..lq /\ j = ls + (j - ls)
    <3>1. t[i] = q[i - ls] /\ t[j] = q[j - ls]
      BY <2>4, <1>3
    <3>2. i - ls = j - ls
      BY <3>1, <2>4, <1>1, <1>3 DEF Distinct
    <3> QED BY <3>2, <2>4, <1>3
  <2> QED BY <2>1, <2>2, <2>3, <2>4, <1>4
<1>8. Range(t) \subseteq Range(s) \cup R
  <2> SUFFICES ASSUME NEW i \in 1..(ls + lq) PROVE t[i] \in Range(s) \cup R
    BY <1>3 DEF Range
  <2>1. CASE i \in 1..ls
    BY <2>1, <1>3, <1>5
  <2>2. CASE i - ls \in 1..lq /\ i = ls + (i - ls)
    <3>1. t[i] = q[i - ls]
      BY <2>2, <1>3
    <3> QED BY <3>1, <2>2, <1>6
  <2> QED BY <2>1, <2>2, <1>4
<1>9. Range(s) \subseteq Range(t)
  BY <1>3 DEF Range
<1>10. R \subseteq Range(t)
  <2> SUFFICES ASSUME NEW x \in R, x \notin Range(s) PROVE x \in Range(t)
    BY <1>9
  <2>1. PICK i \in 1..lq : q[i] = x
    BY <1>1, <1>3 DEF Range
  <2>3. ls + i \in 1..(ls + lq)
    BY <1>3
  <2>2. ls + i \in DOMAIN t /\ t[ls + i] = x
    BY <2>1, <2>3, <1>3
  <2> QED BY <2>2 DEF Range
<1> QED BY <1>3, <1>7, <1>8, <1>9, <1>10

\* What takes the place of a node is there, and is the same connection if that is there.
LEMMA ReplacementIs ==
  ASSUME NEW st, Good(st), NEW p, Prepared(p), NEW nodes, After(nodes, st, p), NEW n,
         NEW r, r = Replacement(st, p, nodes, n)
  PROVE  \E i \in 1..Len(nodes) :
           /\ nodes[i].id = r
           /\ (\E j \in 1..Len(nodes) : nodes[j].url.config = n.url.config) => nodes[i].url.config = n.url.config
<1> DEFINE links == Incoming(p)
           kept(c) == {i \in DOMAIN nodes : nodes[i].url.config = c}
           old(c) == IF \E i \in DOMAIN st.nodes : st.nodes[i].url.config = c
                     THEN st.nodes[Keeper(st, p, c)].id ELSE None
           least(c) == CHOOSE i \in kept(c) : \A j \in kept(c) : i <= j
           Cur(c) == IF kept(c) = {} THEN None
                     ELSE IF old(c) \in {nodes[i].id : i \in kept(c)} THEN old(c)
                     ELSE nodes[least(c)].id
           own == {i \in DOMAIN p : p[i].sub \in n.subs}
           subs == st.subs \o SetToSeq(Refreshing(p) \ Range(st.subs))
           Place(i) == CHOOSE k \in DOMAIN subs : subs[k] = p[i].sub
           first == CHOOSE i \in own : \A j \in own : Place(i) <= Place(j)
<1>1. nodes \in Seq(NodeType) /\ DOMAIN nodes = 1..Len(nodes) /\ Len(nodes) \in Nat
      /\ \A i \in 1..Len(nodes) : nodes[i].id \in Nat
  <2>1. nodes \in Seq(NodeType)
    BY DEF After
  <2> QED BY <2>1, IdsAre
<1>2. r = IF Cur(n.url.config) # None THEN Cur(n.url.config)
          ELSE IF own # {} THEN Cur(p[first].list[1].config) ELSE Cur(links[1].config)
  BY DEF Replacement
<1>3. ASSUME NEW c, kept(c) # {} PROVE Cur(c) # None /\ \E i \in kept(c) : nodes[i].id = Cur(c)
  <2>1. \E i \in kept(c) : \A j \in kept(c) : i <= j
    <3>1. kept(c) \subseteq Nat
      BY <1>1
    <3> HIDE DEF kept
    <3> QED BY <3>1, <1>3, LeastExists
  <2>2. least(c) \in kept(c)
    BY <2>1
  <2> HIDE DEF least, old
  <2>3. \E i \in kept(c) : nodes[i].id = Cur(c)
    <3>1. CASE old(c) \in {nodes[i].id : i \in kept(c)}
      BY <3>1, <1>3
    <3>2. CASE old(c) \notin {nodes[i].id : i \in kept(c)}
      BY <3>2, <1>3, <2>2
    <3> QED BY <3>1, <3>2
  <2>4. PICK i \in kept(c) : nodes[i].id = Cur(c)
    BY <2>3
  <2>5. Cur(c) \in Nat
    <3> HIDE DEF Cur
    <3> QED BY <2>4, <1>1
  <2> HIDE DEF Cur
  <2> QED BY <2>3, <2>5, Sentinels
<1>4. \A c \in ConfigsOf(links) : kept(c) # {}
  BY <1>1 DEF After
<1>5. CASE kept(n.url.config) # {}
  <2>1. Cur(n.url.config) # None
    BY <1>3, <1>5
  <2>2. r = Cur(n.url.config)
    <3> HIDE DEF Cur
    <3> QED BY <1>2, <2>1
  <2>3. PICK i \in kept(n.url.config) : nodes[i].id = Cur(n.url.config)
    BY <1>3, <1>5
  <2> HIDE DEF Cur
  <2> QED BY <2>2, <2>3, <1>1
<1>6. CASE kept(n.url.config) = {}
  <2>1. Cur(n.url.config) = None
    BY <1>6
  <2>2. own # {} => first \in own
    <3> SUFFICES ASSUME own # {} PROVE \E i \in own : \A j \in own : Place(i) <= Place(j)
      OBVIOUS
    <3>1. subs \in Seq(Subs) /\ Range(subs) = Range(st.subs) \cup Refreshing(p)
      <4>1. st.subs \in Seq(Subs) /\ Distinct(st.subs)
        BY DEF Good, StoreType
      <4> QED BY <4>1, RefreshingIs, SubsAfter DEF Prepared
    <3> HIDE DEF subs
    <3>2. \A i \in own : Place(i) \in Nat
      <4> SUFFICES ASSUME NEW i \in own PROVE Place(i) \in Nat
        OBVIOUS
      <4>1. p[i].sub \in Range(subs)
        BY <3>1, SourcesAre
      <4>2. \E k \in DOMAIN subs : subs[k] = p[i].sub
        BY <4>1 DEF Range
      <4>3. Place(i) \in DOMAIN subs
        BY <4>2
      <4> QED BY <3>1, <4>3
    <3> DEFINE T == {Place(i) : i \in own}
    <3> HIDE DEF Place
    <3>3. T \subseteq Nat /\ T # {}
      BY <3>2
    <3>4. PICK x \in T : \A y \in T : x <= y
      <4> HIDE DEF T
      <4> QED BY <3>3, LeastExists
    <3> QED BY <3>4
  <2> DEFINE c == IF own # {} THEN p[first].list[1].config ELSE links[1].config
  <2>3. c \in ConfigsOf(links)
    <3>1. CASE own # {}
      <4> HIDE DEF first
      <4>1. first \in DOMAIN p
        BY <2>2, <3>1
      <4> QED BY <4>1, <3>1, IncomingIs
    <3>2. CASE own = {}
      BY <3>2, IncomingIs
    <3> QED BY <3>1, <3>2
  <2> HIDE DEF Cur, first, own
  <2>4. r = Cur(c)
    BY <1>2, <2>1
  <2> HIDE DEF c
  <2>5. kept(c) # {}
    BY <2>3, <1>4
  <2>6. PICK i \in kept(c) : nodes[i].id = Cur(c)
    BY <2>5, <1>3
  <2> QED BY <2>4, <2>6, <1>1, <1>6
<1> QED BY <1>5, <1>6

-------------------------------------------------------------------------------
(* What an update makes of a store.                                         *)

\* y takes the place of x: it is a node, and of the same connection if one is there.
Heir(nodes, st, x, y) ==
  \E i \in 1..Len(nodes) :
    /\ nodes[i].id = y
    /\ \A a \in 1..Len(st.nodes) : st.nodes[a].id = x =>
         ((\E j \in 1..Len(nodes) : nodes[j].url.config = st.nodes[a].url.config)
            => nodes[i].url.config = st.nodes[a].url.config)

Outcome(u, st, p) ==
  /\ u \in StoreType /\ After(u.nodes, st, p)
  /\ u.nodes = Only(Added(st, p), Staying(Added(st, p)))
  /\ Distinct(u.subs) /\ Range(u.subs) = Range(st.subs) \cup Refreshing(p)
  /\ u.on = st.on
  /\ \A x \in DOMAIN u.results : /\ x \in DOMAIN st.results /\ x \in IdsOf(u.nodes)
                                 /\ u.results[x] = st.results[x]
  /\ u.default \in IdsOf(u.nodes) \cup {None}
  /\ DOMAIN u.scenes = DOMAIN st.scenes
  /\ \A s \in DOMAIN u.scenes : Heir(u.nodes, st, st.scenes[s], u.scenes[s])
  /\ Len(st.nodes) > 0 =>
       /\ st.default # None => Heir(u.nodes, st, st.default, u.default)
       /\ st.default = None => IF st.nodes[1].id \in IdsOf(u.nodes) THEN u.default = None
                               ELSE Heir(u.nodes, st, st.nodes[1].id, u.default)

LEMMA HeirIs ==
  ASSUME NEW st, Good(st), NEW p, Prepared(p), NEW nodes, After(nodes, st, p), NEW x \in IdsOf(st.nodes),
         NEW y, y = IF x \in IdsOf(Added(st, p)) \ IdsOf(nodes)
                    THEN Replacement(st, p, nodes, Find(st.nodes, x)) ELSE x
  PROVE  Heir(nodes, st, x, y)
<1>1. nodes \in Seq(NodeType) /\ x \in IdsOf(Added(st, p))
  BY DEF After
<1>2. PICK a \in 1..Len(st.nodes) : st.nodes[a].id = x
  BY GoodHas
<1>3. Find(st.nodes, x) = st.nodes[a] /\ \A b \in 1..Len(st.nodes) : st.nodes[b].id = x => b = a
  BY <1>2, GoodHas
<1>4. CASE x \in IdsOf(nodes)
  <2>1. PICK i \in 1..Len(nodes) : nodes[i].id = x
    BY <1>1, <1>4, IdsAre
  <2>2. nodes[i].url.config = st.nodes[a].url.config
    BY <2>1, <1>2 DEF After
  <2>3. y = x
    BY <1>4
  <2> QED BY <2>1, <2>2, <2>3, <1>3 DEF Heir
<1>5. CASE x \notin IdsOf(nodes)
  <2> DEFINE n == st.nodes[a]
  <2>1. y = Replacement(st, p, nodes, n)
    BY <1>1, <1>3, <1>5
  <2> HIDE DEF n
  <2>2. PICK i \in 1..Len(nodes) :
          /\ nodes[i].id = y
          /\ (\E j \in 1..Len(nodes) : nodes[j].url.config = n.url.config) => nodes[i].url.config = n.url.config
    BY <2>1, ReplacementIs
  <2> QED BY <2>2, <1>3 DEF Heir, n
<1> QED BY <1>4, <1>5

LEMMA ReconcileIs ==
  ASSUME NEW st, Good(st), NEW p, Prepared(p), NEW u, u = Reconcile(st, p)
  PROVE  Outcome(u, st, p)
<1> DEFINE all == Added(st, p)
           nodes == Only(all, Staying(all))
           gone == IdsOf(all) \ IdsOf(nodes)
           Now(id) == IF id \in gone THEN Replacement(st, p, nodes, Find(st.nodes, id)) ELSE id
           d == IF st.default = None THEN First(st.nodes) ELSE st.default
           de == IF d \in gone THEN Now(d) ELSE IF st.nodes = <<>> THEN First(nodes) ELSE st.default
           sc == [s \in DOMAIN st.scenes |-> Now(st.scenes[s])]
           re == Without(st.results, gone)
           subs == st.subs \o SetToSeq(Refreshing(p) \ Range(st.subs))
<1>0. st \in StoreType /\ st.subs \in Seq(Subs) /\ Distinct(st.subs)
  BY DEF Good, StoreType
<1>1. u = [st EXCEPT !.nodes = nodes, !.subs = subs, !.default = de, !.scenes = sc, !.results = re]
  BY DEF Reconcile, Staying
<1>2. After(nodes, st, p)
  BY NodesAfter
<1>3. subs \in Seq(Subs) /\ Distinct(subs) /\ Range(subs) = Range(st.subs) \cup Refreshing(p)
  BY <1>0, RefreshingIs, SubsAfter DEF Prepared
<1>4. \A x \in IdsOf(st.nodes) : Heir(nodes, st, x, Now(x))
  BY <1>2, HeirIs
<1>5. /\ nodes \in Seq(NodeType) /\ DOMAIN nodes = 1..Len(nodes) /\ Len(nodes) \in Nat
      /\ IdsOf(nodes) \subseteq Nat /\ IdsOf(st.nodes) \subseteq IdsOf(nodes) \cup gone
      /\ gone \subseteq IdsOf(st.nodes) /\ (\A i \in 1..Len(nodes) : nodes[i].id \in IdsOf(nodes))
  <2>1. nodes \in Seq(NodeType)
    BY <1>2 DEF After
  <2>2. IdsOf(st.nodes) \subseteq IdsOf(nodes) \cup gone /\ gone \subseteq IdsOf(st.nodes)
    BY <1>2 DEF After
  <2> HIDE DEF nodes, gone
  <2> QED BY <2>1, <2>2, IdsAre
<1>6. \A x, y : Heir(nodes, st, x, y) => y \in IdsOf(nodes)
  <2> HIDE DEF nodes
  <2> QED BY <1>5 DEF Heir
<1> HIDE DEF Now, nodes, subs
<1>7. /\ st.default \in IdsOf(st.nodes) \cup {None} /\ IdsOf(st.nodes) \subseteq Nat
      /\ (Len(st.nodes) = 0 => st.nodes = <<>> /\ First(st.nodes) = None)
      /\ (Len(st.nodes) # 0 => st.nodes # <<>> /\ First(st.nodes) = st.nodes[1].id /\ st.nodes[1].id \in IdsOf(st.nodes))
  <2>1. st.nodes \in Seq(NodeType) /\ DOMAIN st.nodes = 1..Len(st.nodes) /\ Len(st.nodes) \in Nat
    BY GoodHas
  <2>2. Len(st.nodes) # 0 => 1 \in DOMAIN st.nodes
    BY <2>1
  <2>3. (Len(st.nodes) = 0 => st.nodes = <<>>) /\ (Len(st.nodes) # 0 => st.nodes # <<>>)
    BY <2>1
  <2>4. st.default \in IdsOf(st.nodes) \cup {None}
    BY GoodHas
  <2> QED BY <2>1, <2>2, <2>3, <2>4, IdsAre DEF First, IdsOf
<1>8. First(nodes) \in IdsOf(nodes) \cup {None}
  <2>1. nodes # <<>> => 1 \in DOMAIN nodes
    BY <1>5
  <2> QED BY <2>1 DEF First, IdsOf
<1>9. d \in IdsOf(st.nodes) \cup {None} /\ None \notin gone
  BY <1>5, <1>7, Sentinels
<1>10. de \in IdsOf(nodes) \cup {None}
  <2>1. CASE d \in gone
    <3>1. Now(d) \in IdsOf(nodes)
      BY <2>1, <1>4, <1>5, <1>6
    <3> QED BY <2>1, <3>1
  <2>2. CASE d \notin gone /\ st.nodes = <<>>
    BY <2>2, <1>8
  <2>3. CASE d \notin gone /\ st.nodes # <<>>
    <3>1. st.default \in IdsOf(nodes) \cup {None}
      <4>1. st.default # None => d = st.default
        OBVIOUS
      <4> HIDE DEF d, gone
      <4> QED BY <4>1, <2>3, <1>5, <1>7
    <3> QED BY <3>1, <2>3
  <2> QED BY <2>1, <2>2, <2>3
<1>11. Len(st.nodes) > 0 =>
       /\ st.default # None => Heir(nodes, st, st.default, de)
       /\ st.default = None => IF st.nodes[1].id \in IdsOf(nodes) THEN de = None
                               ELSE Heir(nodes, st, st.nodes[1].id, de)
  <2> SUFFICES ASSUME Len(st.nodes) > 0
               PROVE  /\ st.default # None => Heir(nodes, st, st.default, de)
                      /\ st.default = None => IF st.nodes[1].id \in IdsOf(nodes) THEN de = None
                                              ELSE Heir(nodes, st, st.nodes[1].id, de)
    OBVIOUS
  <2>0. st.nodes # <<>> /\ First(st.nodes) = st.nodes[1].id /\ st.nodes[1].id \in IdsOf(st.nodes)
    BY <1>7
  <2>1. CASE st.default # None
    <3>1. d = st.default /\ d \in IdsOf(st.nodes)
      BY <2>1, <1>9
    <3>2. de = Now(d)
      BY <2>0, <3>1 DEF Now
    <3> QED BY <3>1, <3>2, <1>4, <2>1
  <2>2. CASE st.default = None
    <3>1. d = st.nodes[1].id /\ d \in IdsOf(st.nodes)
      BY <2>2, <2>0
    <3>2. CASE d \in IdsOf(nodes)
      <4>1. d \notin gone
        BY <3>2
      <4>2. de = None
        BY <4>1, <2>0, <2>2
      <4> QED BY <4>2, <3>1, <3>2, <2>2
    <3>3. CASE d \notin IdsOf(nodes)
      <4>1. d \in gone
        BY <3>1, <3>3, <1>5
      <4>2. de = Now(d)
        BY <4>1
      <4>3. Heir(nodes, st, d, de)
        BY <4>2, <3>1, <1>4
      <4> HIDE DEF de, d
      <4> QED BY <4>3, <3>1, <3>3, <2>2
    <3> QED BY <3>2, <3>3
  <2> QED BY <2>1, <2>2
<1>12. /\ DOMAIN sc = DOMAIN st.scenes /\ sc \in Fns(Scenes, Nat)
       /\ \A s \in DOMAIN sc : Heir(nodes, st, st.scenes[s], sc[s])
  <2>1. DOMAIN st.scenes \subseteq Scenes /\ \A s \in DOMAIN st.scenes : st.scenes[s] \in IdsOf(st.nodes)
    BY GoodHas
  <2>2. DOMAIN sc = DOMAIN st.scenes /\ \A s \in DOMAIN sc : sc[s] = Now(st.scenes[s])
    OBVIOUS
  <2>3. sc = [s \in DOMAIN sc |-> sc[s]]
    OBVIOUS
  <2> HIDE DEF sc
  <2>4. \A s \in DOMAIN sc : Heir(nodes, st, st.scenes[s], sc[s]) /\ sc[s] \in Nat
    BY <2>1, <2>2, <1>4, <1>5, <1>6
  <2> QED BY <2>1, <2>2, <2>3, <2>4, FnsIs
<1>13. /\ DOMAIN re = DOMAIN st.results \ gone /\ re \in Fns(Nat, Urls)
       /\ \A x \in DOMAIN re : x \in DOMAIN st.results /\ x \in IdsOf(nodes) /\ re[x] = st.results[x]
  <2>1. DOMAIN st.results \subseteq IdsOf(st.nodes) /\ st.results \in [DOMAIN st.results -> Urls]
    BY GoodHas
  <2>2. DOMAIN re = DOMAIN st.results \ gone /\ \A x \in DOMAIN re : re[x] = st.results[x]
    BY DEF Without
  <2>3. re = [x \in DOMAIN re |-> re[x]]
    BY DEF Without
  <2> HIDE DEF re, gone
  <2>4. \A x \in DOMAIN re : x \in DOMAIN st.results /\ x \in IdsOf(nodes) /\ re[x] = st.results[x] /\ re[x] \in Urls
    BY <2>1, <2>2, <1>5
  <2> QED BY <2>2, <2>3, <2>4, <1>5, FnsIs
<1> HIDE DEF de, sc, re, gone
<1>14. /\ u.nodes = nodes /\ u.default = de /\ u.scenes = sc /\ u.on = st.on
       /\ u.results = re /\ u.subs = subs /\ u \in StoreType
  <2>1. de \in Nat \cup {None}
    BY <1>5, <1>10
  <2> QED BY <1>0, <1>1, <1>3, <1>5, <1>12, <1>13, <2>1 DEF StoreType
<1>15. nodes = Only(Added(st, p), Staying(Added(st, p)))
  BY DEF nodes
<1> QED BY <1>2, <1>3, <1>10, <1>11, <1>12, <1>13, <1>14, <1>15 DEF Outcome

LEMMA ReconcileGood ==
  ASSUME NEW st, Good(st), NEW p, Prepared(p), NEW u, Outcome(u, st, p), Len(u.nodes) <= MaxNodes
  PROVE  Good(u)
<1>1. u \in StoreType /\ After(u.nodes, st, p) /\ Distinct(u.subs) /\ Range(u.subs) = Range(st.subs) \cup Refreshing(p)
      /\ u.on = st.on /\ u.default \in IdsOf(u.nodes) \cup {None}
  BY DEF Outcome
<1>2. u.nodes \in Seq(NodeType) /\ \A i \in 1..Len(u.nodes) : u.nodes[i].id \in IdsOf(u.nodes)
  <2>1. u.nodes \in Seq(NodeType)
    BY <1>1 DEF After
  <2> QED BY <2>1, IdsAre
<1>3. /\ \A i, j \in 1..Len(u.nodes) :
            u.nodes[i].id = u.nodes[j].id \/ u.nodes[i].url = u.nodes[j].url => i = j
      /\ \A i \in 1..Len(u.nodes) : u.nodes[i].subs \subseteq Range(u.subs)
  BY <1>1 DEF After
<1>4. \A s \in DOMAIN u.scenes : u.scenes[s] \in IdsOf(u.nodes)
  BY <1>2 DEF Outcome, Heir
<1>5. DOMAIN u.results \subseteq IdsOf(u.nodes)
  BY DEF Outcome
<1>6. Len(u.nodes) # 0
  <2>1. Incoming(p)[1].config \in ConfigsOf(Incoming(p))
    BY IncomingIs
  <2>2. PICK i \in 1..Len(u.nodes) : TRUE
    BY <1>1, <2>1 DEF After
  <2> QED BY <1>2, <2>2
<1>7. \A i \in 1..Len(u.nodes) : u.nodes[i].id \in DOMAIN u.results =>
        u.results[u.nodes[i].id].config = u.nodes[i].url.config
  <2> SUFFICES ASSUME NEW i \in 1..Len(u.nodes), u.nodes[i].id \in DOMAIN u.results
               PROVE  u.results[u.nodes[i].id].config = u.nodes[i].url.config
    OBVIOUS
  <2> DEFINE x == u.nodes[i].id
  <2>1. x \in DOMAIN st.results /\ u.results[x] = st.results[x]
    BY DEF Outcome
  <2>2. PICK a \in 1..Len(st.nodes) : st.nodes[a].id = x
    <3> HIDE DEF x
    <3>1. x \in IdsOf(st.nodes) /\ st.nodes \in Seq(NodeType)
      BY <2>1, GoodHas
    <3> QED BY <3>1, IdsAre
  <2>3. Find(st.nodes, x) = st.nodes[a] /\ st.results[x].config = Find(st.nodes, x).url.config
    BY <2>1, <2>2, GoodHas DEF Good, Theirs
  <2>4. u.nodes[i].url.config = st.nodes[a].url.config
    BY <2>2, <1>1 DEF After
  <2> QED BY <2>1, <2>3, <2>4
<1>8. Sound(u)
  BY <1>1, <1>3, <1>4, <1>5, <1>6, <1>7 DEF Sound
<1> QED BY <1>8, GoodIf

-------------------------------------------------------------------------------
(* The inductive invariant.                                                 *)

ProcType ==
  [pc : {"idle", "download", "probe"}, gen : Nat, todo : Seq(Subs), prepared : Seq(DownloadType),
   snapshot : Fns(Nat, Urls), scope : {"none", "default", "all"} \cup Scenes]

\* What a command at work has: an update knows each subscription once, and one
\* at least; while the store is the one it began with, what it downloaded is no
\* older than what was committed.
Working(q, st, fe, ta) ==
  /\ q \in ProcType /\ q.gen <= st.gen /\ Distinct(q.todo) /\ Once(q.prepared)
  /\ \A i \in DOMAIN q.todo, j \in DOMAIN q.prepared : q.todo[i] # q.prepared[j].sub
  /\ q.pc = "download" => Len(q.todo) # 0 \/ Len(q.prepared) # 0
  /\ \A i \in DOMAIN q.prepared :
       /\ q.prepared[i].edition <= fe[q.prepared[i].sub].edition
       /\ q.gen = st.gen => ta[q.prepared[i].sub] <= q.prepared[i].edition

IInv ==
  /\ Good(store)
  /\ feed \in [Subs -> [edition : Nat, list : Lists \cup {Unread}]]
  /\ taken \in [Subs -> Nat] /\ \A s \in Subs : taken[s] <= feed[s].edition
  /\ DOMAIN proc = Procs /\ \A p \in Procs : Working(proc[p], store, feed, taken)

\* A committed store is the one it was made from, one generation later.
LEMMA CommitGood ==
  ASSUME NEW st, Good(st), NEW g \in Nat, NEW u, u = [st EXCEPT !.gen = g]
  PROVE  /\ Good(u) /\ u.gen = g
         /\ u.nodes = st.nodes /\ u.default = st.default /\ u.scenes = st.scenes /\ u.on = st.on
         /\ u.results = st.results /\ u.subs = st.subs
<1>0. st \in StoreType /\ Distinct(st.subs) /\ Valid(st) /\ Theirs(st)
  BY DEF Good
<1>1. /\ u.nodes = st.nodes /\ u.default = st.default /\ u.scenes = st.scenes /\ u.on = st.on
      /\ u.results = st.results /\ u.subs = st.subs /\ u.gen = g /\ u \in StoreType
  BY <1>0 DEF StoreType
<1>2. Valid(u) /\ Theirs(u)
  BY <1>0, <1>1 DEF Valid, Theirs
<1> QED BY <1>0, <1>1, <1>2 DEF Good

\* A command at work does not mind a later store, or a later list.
LEMMA WorkingLater ==
  ASSUME NEW q, NEW st, NEW fe, NEW ta, Working(q, st, fe, ta), NEW u, NEW fe2, NEW ta2,
         st.gen \in Nat, u.gen \in Nat, fe \in [Subs -> [edition : Nat, list : Lists \cup {Unread}]],
         fe2 \in [Subs -> [edition : Nat, list : Lists \cup {Unread}]],
         \A s \in Subs : fe[s].edition <= fe2[s].edition,
         st.gen < u.gen \/ (st.gen = u.gen /\ ta2 = ta)
  PROVE  Working(q, u, fe2, ta2)
<1>1. q.gen \in Nat /\ q.gen <= u.gen /\ (q.gen = u.gen => q.gen = st.gen /\ ta2 = ta)
  BY DEF Working, ProcType
<1>2. ASSUME NEW i \in DOMAIN q.prepared
      PROVE  /\ q.prepared[i].edition <= fe2[q.prepared[i].sub].edition
             /\ q.gen = u.gen => ta2[q.prepared[i].sub] <= q.prepared[i].edition
  <2>1. q.prepared \in Seq(DownloadType)
    BY DEF Working, Once
  <2>2. q.prepared[i] \in DownloadType
    BY <2>1
  <2>3. q.prepared[i].sub \in Subs /\ q.prepared[i].edition \in Nat
    BY <2>2 DEF DownloadType
  <2>4. /\ q.prepared[i].edition <= fe[q.prepared[i].sub].edition
        /\ q.gen = st.gen => ta[q.prepared[i].sub] <= q.prepared[i].edition
    BY DEF Working
  <2>5. fe[q.prepared[i].sub].edition \in Nat /\ fe2[q.prepared[i].sub].edition \in Nat
    BY <2>3
  <2> QED BY <2>3, <2>4, <2>5, <1>1
<1> QED BY <1>1, <1>2 DEF Working

LEMMA RestWorks ==
  ASSUME NEW st, NEW fe, NEW ta, st.gen \in Nat
  PROVE  Working(Rest, st, fe, ta)
<1> DEFINE nil == <<>>
<1>1. nil \in Seq(Subs) /\ nil \in Seq(DownloadType) /\ DOMAIN nil = {} /\ nil = [x \in {} |-> x]
  OBVIOUS
<1>2. Rest = [pc |-> "idle", gen |-> 0, todo |-> nil, prepared |-> nil, snapshot |-> nil, scope |-> "none"]
  BY DEF Rest
<1> HIDE DEF nil
<1>3. nil \in Fns(Nat, Urls)
  <2>1. nil \in [{} -> Urls]
    BY <1>1
  <2> QED BY <1>1, <2>1, FnsIs
<1>4. Rest \in ProcType /\ Rest.pc = "idle" /\ Rest.gen = 0 /\ Rest.todo = nil /\ Rest.prepared = nil
  BY <1>1, <1>2, <1>3 DEF ProcType
<1> QED BY <1>1, <1>4 DEF Working, Distinct, Once

\* The store is committed, and a command may end.
LEMMA Committed ==
  ASSUME IInv, NEW st, Good(st), Commit(st), feed' = feed, taken' \in [Subs -> Nat],
         \A s \in Subs : taken'[s] <= feed[s].edition,
         proc' = proc \/ \E p \in Procs : proc' = [proc EXCEPT ![p] = Rest]
  PROVE  IInv'
<1>1. store.gen \in Nat
  BY DEF IInv, Good, StoreType
<1>2. Good(store') /\ store'.gen = store.gen + 1
  BY <1>1, CommitGood DEF Commit
<1>3. feed \in [Subs -> [edition : Nat, list : Lists \cup {Unread}]] /\ DOMAIN proc' = Procs
  BY DEF IInv
<1>4. \A s \in Subs : feed[s].edition <= feed'[s].edition
  BY <1>3
<1>5. ASSUME NEW p \in Procs PROVE Working(proc'[p], store', feed', taken')
  <2>1. Working(proc[p], store, feed, taken)
    BY DEF IInv
  <2>2. Working(proc[p], store', feed', taken')
    BY <2>1, <1>1, <1>2, <1>3, <1>4, WorkingLater
  <2>3. Working(Rest, store', feed', taken')
    BY <1>1, <1>2, RestWorks
  <2>4. proc'[p] = proc[p] \/ proc'[p] = Rest
    BY DEF IInv
  <2> QED BY <2>2, <2>3, <2>4
<1> QED BY <1>2, <1>3, <1>5 DEF IInv

LEMMA AtOnceOk ==
  ASSUME IInv, NEW st, Good(st), AtOnce(st)
  PROVE  IInv'
<1>1. Commit(st) /\ feed' = feed /\ taken' = taken /\ proc' = proc
  BY DEF AtOnce
<1>2. taken' \in [Subs -> Nat] /\ \A s \in Subs : taken'[s] <= feed[s].edition
  BY <1>1 DEF IInv
<1> QED BY <1>1, <1>2, Committed

LEMMA AddByHandOk == ASSUME IInv, AddByHand PROVE IInv'
<1>1. PICK url \in Urls : LET st == AddNode(store, url, "default") IN Len(st.nodes) <= MaxNodes /\ AtOnce(st)
  BY DEF AddByHand
<1> DEFINE st == AddNode(store, url, "default")
<1>2. Len(st.nodes) <= MaxNodes /\ AtOnce(st) /\ Good(store)
  BY <1>1 DEF IInv
<1>3. Good(st)
  BY <1>2, AddNodeGood
<1> HIDE DEF st
<1> QED BY <1>2, <1>3, AtOnceOk

LEMMA RemoveOneOk == ASSUME IInv, RemoveOne PROVE IInv'
<1>1. PICK id \in IdsOf(store.nodes) : AtOnce(RemoveNode(store, id))
  BY DEF RemoveOne
<1>2. Good(RemoveNode(store, id))
  BY RemoveNodeGood DEF IInv
<1> QED BY <1>1, <1>2, AtOnceOk

LEMMA RemoveAllOk == ASSUME IInv, RemoveAll PROVE IInv'
<1>1. AtOnce(RemoveAllNodes(store))
  BY DEF RemoveAll
<1>2. Good(RemoveAllNodes(store))
  BY RemoveAllGood DEF IInv
<1> QED BY <1>1, <1>2, AtOnceOk

LEMMA UseOk == ASSUME IInv, Use PROVE IInv'
<1>1. PICK id \in IdsOf(store.nodes), scope \in {"default", "all"} \cup Scenes : AtOnce(UseNode(store, id, scope))
  BY DEF Use
<1>2. Good(UseNode(store, id, scope))
  BY UseNodeGood DEF IInv
<1> QED BY <1>1, <1>2, AtOnceOk

LEMMA AdoptNodesOk == ASSUME IInv, AdoptNodes PROVE IInv'
<1>1. PICK sub \in Range(store.subs), ids \in SUBSET IdsOf(store.nodes) : AtOnce(Adopt(store, sub, ids))
  BY DEF AdoptNodes
<1>2. Good(Adopt(store, sub, ids))
  BY AdoptGood DEF IInv
<1> QED BY <1>1, <1>2, AtOnceOk

LEMMA SetSceneOk == ASSUME IInv, SetScene PROVE IInv'
<1>1. PICK scene \in Scenes :
        /\ scene \notin store.on => store.nodes # <<>>
        /\ AtOnce([store EXCEPT !.on = IF scene \in @ THEN @ \ {scene} ELSE @ \cup {scene}])
  BY DEF SetScene
<1> DEFINE on == IF scene \in store.on THEN store.on \ {scene} ELSE store.on \cup {scene}
           st == [store EXCEPT !.on = on]
<1>2. AtOnce(st)
  BY <1>1
<1>3. store.on \subseteq Scenes /\ (store.on # {} => store.nodes # <<>>)
  BY DEF IInv, Good, StoreType, Valid
<1>4. on \in SUBSET Scenes /\ (on # {} => store.nodes # <<>>)
  BY <1>1, <1>3
<1>5. Good(store)
  BY DEF IInv
<1> HIDE DEF on
<1>6. Good(st)
  BY <1>4, <1>5, SetSceneGood
<1> QED BY <1>2, <1>6, AtOnceOk

\* One command changes, and perhaps what is known of a list.
LEMMA ProcChanged ==
  ASSUME IInv, NEW p \in Procs, NEW q, proc' = [proc EXCEPT ![p] = q], store' = store, taken' = taken,
         feed' \in [Subs -> [edition : Nat, list : Lists \cup {Unread}]],
         \A s \in Subs : feed[s].edition <= feed'[s].edition,
         Working(q, store', feed', taken')
  PROVE  IInv'
<1>1. store.gen \in Nat /\ Good(store) /\ feed \in [Subs -> [edition : Nat, list : Lists \cup {Unread}]]
      /\ DOMAIN proc = Procs /\ taken \in [Subs -> Nat] /\ \A s \in Subs : taken[s] <= feed[s].edition
  BY DEF IInv, Good, StoreType
<1>2. ASSUME NEW r \in Procs PROVE Working(proc'[r], store', feed', taken')
  <2>1. CASE r = p
    BY <2>1, <1>1
  <2>2. CASE r # p
    <3>1. proc'[r] = proc[r] /\ Working(proc[r], store, feed, taken)
      BY <2>2, <1>1 DEF IInv
    <3>2. Working(proc[r], store', feed', taken')
      BY <3>1, <1>1, WorkingLater
    <3> QED BY <3>1, <3>2
  <2> QED BY <2>1, <2>2
<1>3. \A s \in Subs : taken'[s] <= feed'[s].edition
  <2> TAKE s \in Subs
  <2>1. feed[s].edition \in Nat /\ feed'[s].edition \in Nat /\ taken[s] \in Nat
    BY <1>1
  <2> QED BY <2>1, <1>1
<1> QED BY <1>1, <1>2, <1>3 DEF IInv

LEMMA FeedSame ==
  ASSUME IInv, feed' = feed
  PROVE  /\ feed' \in [Subs -> [edition : Nat, list : Lists \cup {Unread}]]
         /\ \A s \in Subs : feed[s].edition <= feed'[s].edition
BY DEF IInv

LEMMA StartUpdateOk ==
  ASSUME IInv, NEW p \in Procs, StartUpdate(p)
  PROVE  IInv'
<1> DEFINE nil == <<>>
<1>1. PICK todo \in {<<s>> : s \in Subs} \cup ({store.subs} \ {<<>>}) :
        proc' = [proc EXCEPT ![p] = [Rest EXCEPT !.pc = "download", !.gen = store.gen, !.todo = todo]]
  BY DEF StartUpdate
<1> DEFINE q == [Rest EXCEPT !.pc = "download", !.gen = store.gen, !.todo = todo]
<1>2. store' = store /\ taken' = taken /\ feed' = feed /\ proc' = [proc EXCEPT ![p] = q]
  BY <1>1 DEF StartUpdate
<1>3. store.gen \in Nat /\ store.subs \in Seq(Subs) /\ Distinct(store.subs)
  BY DEF IInv, Good, StoreType
<1>4. todo \in Seq(Subs) /\ Len(todo) # 0 /\ Distinct(todo)
  <2>1. CASE \E s \in Subs : todo = <<s>>
    BY <2>1 DEF Distinct
  <2>2. CASE todo = store.subs /\ todo # <<>>
    <3>1. Len(todo) = 0 => todo = <<>>
      BY <2>2, <1>3
    <3> QED BY <2>2, <1>3, <3>1
  <2> QED BY <2>1, <2>2
<1>5. nil \in Seq(DownloadType) /\ DOMAIN nil = {}
  OBVIOUS
<1>7. Rest \in ProcType /\ Rest.prepared = nil
  BY <1>3, RestWorks DEF Working, Rest
<1> HIDE DEF nil
<1>6. q \in ProcType /\ q.pc = "download" /\ q.gen = store.gen /\ q.todo = todo /\ q.prepared = nil
  BY <1>3, <1>4, <1>7 DEF ProcType
<1> HIDE DEF q
<1>8. Working(q, store', feed', taken')
  BY <1>2, <1>3, <1>4, <1>5, <1>6 DEF Working, Once
<1> QED BY <1>2, <1>8, FeedSame, ProcChanged

LEMMA DownloadOk ==
  ASSUME IInv, NEW p \in Procs, Download(p)
  PROVE  IInv'
<1> DEFINE q == proc[p]  s == Head(q.todo)  e == feed[s].edition
<1>1. PICK list \in IF feed[s].list = Unread THEN Lists ELSE {feed[s].list} :
         /\ feed' = [feed EXCEPT ![s].list = list]
         /\ proc' = [proc EXCEPT
              ![p].todo = Tail(@),
              ![p].prepared = Append(@, [sub |-> s, list |-> list, edition |-> feed[s].edition])]
  BY DEF Download
<1> DEFINE d == [sub |-> s, list |-> list, edition |-> e]
           r == [q EXCEPT !.todo = Tail(q.todo), !.prepared = Append(q.prepared, d)]
<1>2. store' = store /\ taken' = taken /\ q.pc = "download" /\ q.todo # <<>>
  BY DEF Download, In
<1>3. store.gen \in Nat /\ feed \in [Subs -> [edition : Nat, list : Lists \cup {Unread}]]
      /\ DOMAIN proc = Procs /\ taken \in [Subs -> Nat] /\ (\A x \in Subs : taken[x] <= feed[x].edition)
      /\ Working(q, store, feed, taken)
  BY DEF IInv, Good, StoreType
<1>4. q.todo \in Seq(Subs) /\ Distinct(q.todo) /\ q.prepared \in Seq(DownloadType) /\ Once(q.prepared)
      /\ \A i \in DOMAIN q.todo, j \in DOMAIN q.prepared : q.todo[i] # q.prepared[j].sub
  BY <1>3 DEF Working, Once, ProcType
<1> DEFINE t == q.todo  lt == Len(t)  lp == Len(q.prepared)
<1>5. /\ lt \in Nat /\ lt # 0 /\ DOMAIN t = 1..lt /\ s = t[1] /\ s \in Subs
      /\ Tail(t) \in Seq(Subs) /\ DOMAIN Tail(t) = 1..(lt - 1) /\ \A i \in 1..(lt - 1) : Tail(t)[i] = t[i + 1]
  <2>1. lt \in Nat /\ lt # 0 /\ DOMAIN t = 1..lt
    BY <1>2, <1>4
  <2>2. s = t[1] /\ s \in Subs
    BY <1>2, <1>4
  <2>3. Tail(t) \in Seq(Subs) /\ Len(Tail(t)) = lt - 1
    BY <1>2, <1>4
  <2>4. DOMAIN Tail(t) = 1..(lt - 1)
    BY <2>3
  <2>5. \A i \in 1..(lt - 1) : Tail(t)[i] = t[i + 1]
    BY <1>2, <1>4
  <2> QED BY <2>1, <2>2, <2>3, <2>4, <2>5
<1> HIDE DEF q, s
<1>6. feed[s] \in [edition : Nat, list : Lists \cup {Unread}] /\ e \in Nat /\ list \in Lists
  BY <1>3, <1>5
<1>7. d \in DownloadType /\ d.sub = s /\ d.edition = e
  BY <1>5, <1>6 DEF DownloadType
<1>8. /\ lp \in Nat /\ DOMAIN q.prepared = 1..lp
      /\ Append(q.prepared, d) \in Seq(DownloadType) /\ DOMAIN Append(q.prepared, d) = 1..(lp + 1)
      /\ Append(q.prepared, d)[lp + 1] = d /\ \A i \in 1..lp : Append(q.prepared, d)[i] = q.prepared[i]
      /\ Len(Append(q.prepared, d)) # 0
  <2> HIDE DEF d
  <2>1. lp \in Nat /\ DOMAIN q.prepared = 1..lp
    BY <1>4
  <2>2. Append(q.prepared, d) \in Seq(DownloadType) /\ Len(Append(q.prepared, d)) = lp + 1
    BY <1>4, <1>7
  <2>3. DOMAIN Append(q.prepared, d) = 1..(lp + 1)
    BY <2>2
  <2>4. Append(q.prepared, d)[lp + 1] = d /\ \A i \in 1..lp : Append(q.prepared, d)[i] = q.prepared[i]
    BY <1>4, <1>7
  <2> QED BY <2>1, <2>2, <2>3, <2>4
<1> HIDE DEF d, e
<1>9. /\ feed' \in [Subs -> [edition : Nat, list : Lists \cup {Unread}]]
      /\ \A x \in Subs : feed'[x].edition = feed[x].edition
  BY <1>1, <1>3, <1>5, <1>6
<1>10. q \in ProcType /\ q.gen <= store.gen
  BY <1>3 DEF Working
<1>11. proc' = [proc EXCEPT ![p] = r]
  <2>1. proc' = [proc EXCEPT ![p].todo = Tail(@), ![p].prepared = Append(@, d)]
    BY <1>1 DEF d, e
  <2>2. proc[p] = q
    BY DEF q
  <2> HIDE DEF d
  <2> QED BY <1>3, <1>10, <2>1, <2>2 DEF ProcType
<1>12. r \in ProcType /\ r.pc = "download" /\ r.gen = q.gen /\ r.todo = Tail(t)
       /\ r.prepared = Append(q.prepared, d)
  <2>1. q.pc = "download"
    BY <1>2
  <2> QED BY <1>5, <1>8, <1>10, <2>1 DEF ProcType
<1> HIDE DEF r
<1> DEFINE a == Append(q.prepared, d)
<1>21. DOMAIN r.todo = 1..(lt - 1) /\ \A i \in 1..(lt - 1) : r.todo[i] = t[i + 1]
  BY <1>5, <1>12
<1>13. Distinct(r.todo)
  <2> SUFFICES ASSUME NEW i \in 1..(lt - 1), NEW j \in 1..(lt - 1), t[i + 1] = t[j + 1] PROVE i = j
    BY <1>21 DEF Distinct
  <2>1. i + 1 \in DOMAIN t /\ j + 1 \in DOMAIN t
    BY <1>5
  <2>2. i + 1 = j + 1
    BY <2>1, <1>4 DEF Distinct
  <2> QED BY <2>2
<1>14. \A i \in 1..lp : q.prepared[i].sub # s
  <2>1. 1 \in DOMAIN t
    BY <1>5
  <2> QED BY <2>1, <1>4, <1>5, <1>8
<1> HIDE DEF lt, lp, a
<1>15. \A i \in 1..(lp + 1) : (i \in 1..lp /\ a[i] = q.prepared[i]) \/ (i = lp + 1 /\ a[i] = d)
  BY <1>8 DEF a
<1>16. Once(r.prepared)
  <2> SUFFICES ASSUME NEW i \in 1..(lp + 1), NEW j \in 1..(lp + 1), a[i].sub = a[j].sub PROVE i = j
    BY <1>8, <1>12 DEF Once, a
  <2> QED BY <1>4, <1>7, <1>8, <1>14, <1>15 DEF Once
<1>17. \A i \in 1..(lt - 1), j \in 1..(lp + 1) : t[i + 1] # a[j].sub
  <2> TAKE i \in 1..(lt - 1), j \in 1..(lp + 1)
  <2>1. i + 1 \in 1..lt /\ 1 \in 1..lt /\ i + 1 # 1
    BY <1>5
  <2>2. t[i + 1] # s
    BY <2>1, <1>4, <1>5 DEF Distinct
  <2> QED BY <2>1, <2>2, <1>4, <1>5, <1>7, <1>8, <1>15
<1>18. \A j \in 1..(lp + 1) : /\ a[j].edition <= feed'[a[j].sub].edition
                              /\ q.gen = store.gen => taken[a[j].sub] <= a[j].edition
  <2> TAKE j \in 1..(lp + 1)
  <2>1. CASE j \in 1..lp /\ a[j] = q.prepared[j]
    <3>1. q.prepared[j] \in DownloadType
      BY <2>1, <1>4, <1>8
    <3>2. q.prepared[j].sub \in Subs
      BY <3>1 DEF DownloadType
    <3>3. /\ q.prepared[j].edition <= feed[q.prepared[j].sub].edition
          /\ q.gen = store.gen => taken[q.prepared[j].sub] <= q.prepared[j].edition
      BY <2>1, <1>3, <1>8 DEF Working
    <3> QED BY <2>1, <3>2, <3>3, <1>9
  <2>2. CASE a[j] = d
    BY <2>2, <1>3, <1>5, <1>7, <1>9 DEF e
  <2> QED BY <2>1, <2>2, <1>15
<1>19. Working(r, store', feed', taken')
  <2>1. DOMAIN r.prepared = 1..(lp + 1) /\ r.prepared = a /\ Len(r.prepared) # 0
    BY <1>8, <1>12 DEF a
  <2>2. \A i \in DOMAIN r.todo, j \in DOMAIN r.prepared : r.todo[i] # r.prepared[j].sub
    BY <2>1, <1>17, <1>21
  <2>3. \A j \in DOMAIN r.prepared :
          /\ r.prepared[j].edition <= feed'[r.prepared[j].sub].edition
          /\ r.gen = store'.gen => taken'[r.prepared[j].sub] <= r.prepared[j].edition
    BY <2>1, <1>2, <1>12, <1>18
  <2>4. r \in ProcType /\ r.gen <= store'.gen
    BY <1>2, <1>10, <1>12
  <2> QED BY <2>1, <2>2, <2>3, <2>4, <1>13, <1>16 DEF Working
<1>20. \A x \in Subs : feed[x].edition <= feed'[x].edition
  BY <1>3, <1>9
<1> QED BY <1>2, <1>9, <1>11, <1>19, <1>20, ProcChanged

LEMMA PreparedIs ==
  ASSUME IInv, NEW p \in Procs, In(p, "download"), proc[p].todo = <<>>
  PROVE  Prepared(proc[p].prepared)
<1>1. Working(proc[p], store, feed, taken) /\ proc[p].pc = "download"
  BY DEF IInv, In
<1>2. Len(proc[p].todo) = 0
  OBVIOUS
<1>3. Once(proc[p].prepared) /\ Len(proc[p].prepared) # 0
  BY <1>1, <1>2 DEF Working
<1> QED BY <1>3 DEF Prepared

\* The editions an update commits: none is older than the one before.
LEMMA EditionsAre ==
  ASSUME IInv, NEW p \in Procs, In(p, "download"), proc[p].todo = <<>>, Unchanged(p), NEW ta,
         ta = [s \in Subs |-> IF s \in Refreshing(proc[p].prepared)
                              THEN (CHOOSE d \in Range(proc[p].prepared) : d.sub = s).edition ELSE taken[s]]
  PROVE  ta \in [Subs -> Nat] /\ \A s \in Subs : taken[s] <= ta[s] /\ ta[s] <= feed[s].edition
<1> DEFINE pr == proc[p].prepared
<1>1. Prepared(pr)
  BY PreparedIs
<1>2. pr \in Seq(DownloadType) /\ \A i \in DOMAIN pr : pr[i] \in DownloadType
  BY <1>1 DEF Prepared, Once
<1>3. proc[p].gen = store.gen /\ Working(proc[p], store, feed, taken) /\ taken \in [Subs -> Nat]
      /\ \A s \in Subs : taken[s] <= feed[s].edition
  BY DEF IInv, Unchanged
<1>4. ASSUME NEW s \in Subs PROVE ta[s] \in Nat /\ taken[s] <= ta[s] /\ ta[s] <= feed[s].edition
  <2>1. CASE s \notin Refreshing(pr)
    BY <2>1, <1>3
  <2>2. CASE s \in Refreshing(pr)
    <3>1. \E d \in Range(pr) : d.sub = s
      BY <2>2 DEF Refreshing, Range
    <3> DEFINE d == CHOOSE d \in Range(pr) : d.sub = s
    <3>2. d \in Range(pr) /\ d.sub = s
      BY <3>1
    <3>3. ta[s] = d.edition
      BY <2>2
    <3> HIDE DEF d
    <3>4. PICK i \in DOMAIN pr : pr[i] = d
      BY <3>2 DEF Range
    <3>5. taken[s] <= pr[i].edition /\ pr[i].edition <= feed[s].edition
      BY <3>2, <3>4, <1>3 DEF Working
    <3>6. pr[i].edition \in Nat
      BY <1>2 DEF DownloadType
    <3> QED BY <3>3, <3>4, <3>5, <3>6
  <2> QED BY <2>1, <2>2
<1> QED BY <1>4

LEMMA FinishUpdateOk ==
  ASSUME IInv, NEW p \in Procs, FinishUpdate(p)
  PROVE  IInv'
<1> DEFINE pr == proc[p].prepared  st == Reconcile(store, pr)
           ta == [s \in Subs |-> IF s \in Refreshing(pr)
                                 THEN (CHOOSE d \in Range(pr) : d.sub = s).edition ELSE taken[s]]
<1>1. /\ In(p, "download") /\ proc[p].todo = <<>> /\ proc' = [proc EXCEPT ![p] = Rest] /\ feed' = feed
      /\ IF Unchanged(p) /\ Len(st.nodes) <= MaxNodes THEN Commit(st) /\ taken' = ta
         ELSE store' = store /\ taken' = taken
  BY DEF FinishUpdate
<1>2. Prepared(pr) /\ Good(store)
  BY <1>1, PreparedIs DEF IInv
<1>3. CASE Unchanged(p) /\ Len(st.nodes) <= MaxNodes
  <2>1. Commit(st) /\ taken' = ta
    BY <1>1, <1>3
  <2>2. ta \in [Subs -> Nat] /\ \A s \in Subs : ta[s] <= feed[s].edition
    BY <1>1, <1>3, EditionsAre
  <2> HIDE DEF ta, st
  <2>3. Good(st)
    BY <1>2, <1>3, ReconcileIs, ReconcileGood DEF st
  <2> QED BY <2>1, <2>2, <2>3, <1>1, Committed
<1>4. CASE ~(Unchanged(p) /\ Len(st.nodes) <= MaxNodes)
  <2>1. store' = store /\ taken' = taken
    BY <1>1, <1>4
  <2>2. store.gen \in Nat
    BY <1>2 DEF Good, StoreType
  <2>3. Working(Rest, store', feed', taken')
    BY <2>1, <2>2, RestWorks
  <2> QED BY <2>1, <2>3, <1>1, FeedSame, ProcChanged
<1> QED BY <1>3, <1>4

LEMMA StartProbesOk ==
  ASSUME IInv, NEW p \in Procs, StartProbes(p)
  PROVE  IInv'
<1> DEFINE snapshot == [id \in IdsOf(store.nodes) |-> Find(store.nodes, id).url]
<1>1. PICK scope \in {"none", "default", "all"} \cup Scenes :
       proc' = [proc EXCEPT ![p] = [Rest EXCEPT !.pc = "probe", !.scope = scope, !.snapshot = snapshot]]
  BY DEF StartProbes
<1> DEFINE q == [Rest EXCEPT !.pc = "probe", !.scope = scope, !.snapshot = snapshot]
<1>2. store' = store /\ taken' = taken /\ feed' = feed
  BY DEF StartProbes
<1>3. Good(store) /\ store.gen \in Nat
  BY DEF IInv, Good, StoreType
<1>4. snapshot \in Fns(Nat, Urls)
  <2>1. IdsOf(store.nodes) \subseteq Nat /\ \A id \in IdsOf(store.nodes) : \E i \in 1..Len(store.nodes) : store.nodes[i].id = id
    BY <1>3, GoodHas, IdsAre
  <2>2. \A i \in 1..Len(store.nodes) : Find(store.nodes, store.nodes[i].id) = store.nodes[i] /\ store.nodes[i].url \in Urls
    BY <1>3, GoodHas DEF NodeType
  <2>3. \A id \in IdsOf(store.nodes) : Find(store.nodes, id).url \in Urls
    BY <2>1, <2>2
  <2>4. DOMAIN snapshot = IdsOf(store.nodes) /\ snapshot \in [IdsOf(store.nodes) -> Urls]
    BY <2>3
  <2> HIDE DEF snapshot
  <2> QED BY <2>1, <2>4, FnsIs
<1>5. Working(Rest, store, feed, taken)
  BY <1>3, RestWorks
<1>6. Rest \in ProcType /\ Rest.gen <= store.gen
  BY <1>5 DEF Working
<1> HIDE DEF snapshot
<1>7. q \in ProcType /\ q.gen = Rest.gen /\ q.todo = Rest.todo /\ q.prepared = Rest.prepared /\ q.pc = "probe"
  BY <1>4, <1>6 DEF ProcType
<1> HIDE DEF q
<1>8. Working(q, store', feed', taken')
  <2> HIDE DEF IInv
  <2> QED BY <1>2, <1>5, <1>6, <1>7 DEF Working
<1> QED BY <1>1, <1>2, <1>8, FeedSame, ProcChanged DEF q

LEMMA FinishProbesOk ==
  ASSUME IInv, NEW p \in Procs, FinishProbes(p)
  PROVE  IInv'
<1> DEFINE sn == proc[p].snapshot  st == MergeResults(store, sn)
<1>1. /\ proc' = [proc EXCEPT ![p] = Rest] /\ feed' = feed /\ taken' = taken
      /\ \/ Commit(st)
         \/ \E id \in Fresh(store, sn) : Commit(UseNode(st, id, proc[p].scope))
         \/ store' = store
  BY DEF FinishProbes
<1>2. Good(store) /\ store.gen \in Nat /\ sn \in Fns(Nat, Urls)
  BY DEF IInv, Good, StoreType, Working, ProcType
<1>3. Good(st) /\ Fresh(store, sn) \subseteq IdsOf(st.nodes)
  <2> HIDE DEF sn
  <2> QED BY <1>2, MergeResultsGood
<1>4. taken' \in [Subs -> Nat] /\ \A s \in Subs : taken'[s] <= feed[s].edition
  BY <1>1 DEF IInv
<1> HIDE DEF st, sn
<1>5. CASE Commit(st)
  BY <1>1, <1>3, <1>4, <1>5, Committed
<1>6. ASSUME NEW id \in Fresh(store, sn), Commit(UseNode(st, id, proc[p].scope)) PROVE IInv'
  <2> DEFINE u == UseNode(st, id, proc[p].scope)
  <2>1. Good(u)
    BY <1>3, UseNodeGood
  <2>2. Commit(u)
    BY <1>6
  <2> HIDE DEF u
  <2> QED BY <2>1, <2>2, <1>1, <1>4, Committed
<1>7. CASE store' = store
  <2>1. Working(Rest, store', feed', taken')
    BY <1>1, <1>2, <1>7, RestWorks
  <2> QED BY <2>1, <1>1, <1>7, FeedSame, ProcChanged
<1> QED BY <1>1, <1>5, <1>6, <1>7

LEMMA RepublishOk ==
  ASSUME IInv, NEW s \in Subs, Republish(s)
  PROVE  IInv'
<1> DEFINE nil == Unread
<1>1. /\ feed' = [feed EXCEPT ![s] = [edition |-> feed[s].edition + 1, list |-> nil]]
      /\ store' = store /\ taken' = taken /\ proc' = proc
  BY DEF Republish
<1>2. /\ feed \in [Subs -> [edition : Nat, list : Lists \cup {Unread}]] /\ store.gen \in Nat
      /\ taken \in [Subs -> Nat] /\ (\A x \in Subs : taken[x] <= feed[x].edition)
      /\ DOMAIN proc = Procs /\ Good(store)
  BY DEF IInv, Good, StoreType
<1> HIDE DEF nil
<1>3. feed[s] \in [edition : Nat, list : Lists \cup {Unread}] /\ nil \in Lists \cup {Unread}
  BY <1>2 DEF nil
<1>4. feed' \in [Subs -> [edition : Nat, list : Lists \cup {Unread}]]
  BY <1>1, <1>2, <1>3
<1>5. ASSUME NEW x \in Subs PROVE feed[x].edition <= feed'[x].edition /\ taken'[x] <= feed'[x].edition
  <2>1. feed[x].edition \in Nat /\ taken[x] \in Nat /\ taken[x] <= feed[x].edition
    BY <1>2
  <2>2. feed'[x].edition = feed[x].edition \/ feed'[x].edition = feed[x].edition + 1
    BY <1>1, <1>2
  <2> QED BY <2>1, <2>2, <1>1
<1>6. \A q \in Procs : Working(proc'[q], store', feed', taken')
  <2> TAKE q \in Procs
  <2>1. Working(proc[q], store, feed, taken)
    BY DEF IInv
  <2>2. Working(proc[q], store, feed', taken)
    BY <2>1, <1>2, <1>4, <1>5, WorkingLater
  <2> QED BY <2>2, <1>1
<1> QED BY <1>1, <1>2, <1>4, <1>5, <1>6 DEF IInv

LEMMA InitOk == Init => IInv
<1> SUFFICES ASSUME Init PROVE IInv
  OBVIOUS
<1> DEFINE nil == <<>>
<1>1. nil = [x \in {} |-> x] /\ DOMAIN nil = {} /\ nil \in Seq(Subs) /\ Range(nil) = {} /\ Len(nil) = 0
  BY DEF Range
<1>2. PICK nodes \in {<<>>} \cup {<<Node(1, u, {}, FALSE)>> : u \in Urls}
                      \cup {<<Node(1, x[1], {}, FALSE), Node(2, x[2], {}, FALSE)>>
                             : x \in {y \in Urls \X Urls : y[1] # y[2]}} :
        store = [nodes |-> nodes, default |-> First(nodes), scenes |-> nil, on |-> {},
                 results |-> nil, subs |-> nil, gen |-> 0]
  BY DEF Init
<1> DEFINE b == FALSE
<1>3. \A i \in Nat, u \in Urls :
        /\ Node(i, u, {}, b) \in NodeType /\ Node(i, u, {}, b).id = i
        /\ Node(i, u, {}, b).url = u /\ Node(i, u, {}, b).subs = {}
  <2>1. b \in BOOLEAN
    OBVIOUS
  <2> HIDE DEF b
  <2> QED BY <2>1 DEF Node, NodeType
<1>4. /\ nodes \in Seq(NodeType) /\ Len(nodes) <= 2
      /\ \A i \in 1..Len(nodes) : nodes[i].id = i /\ nodes[i].subs = {}
      /\ \A i, j \in 1..Len(nodes) : nodes[i].url = nodes[j].url => i = j
      /\ First(nodes) \in IdsOf(nodes) \cup {None}
  <2>1. CASE nodes = <<>>
    BY <2>1 DEF First
  <2>2. ASSUME NEW u \in Urls, nodes = <<Node(1, u, {}, b)>> PROVE <1>4
    <3> DEFINE n == Node(1, u, {}, b)
    <3>1. n \in NodeType /\ n.id = 1 /\ n.url = u /\ n.subs = {}
      BY <1>3
    <3> HIDE DEF n
    <3>2. nodes = <<n>>
      BY <2>2 DEF n
    <3>3. nodes \in Seq(NodeType) /\ Len(nodes) = 1 /\ nodes[1] = n /\ nodes # <<>> /\ DOMAIN nodes = 1..1
      BY <3>1, <3>2
    <3> QED BY <3>1, <3>3 DEF First, IdsOf
  <2>3. ASSUME NEW x \in Urls \X Urls, x[1] # x[2], nodes = <<Node(1, x[1], {}, b), Node(2, x[2], {}, b)>> PROVE <1>4
    <3> DEFINE m == Node(1, x[1], {}, b)  n == Node(2, x[2], {}, b)
    <3>0. x[1] \in Urls /\ x[2] \in Urls
      OBVIOUS
    <3>1. /\ m \in NodeType /\ m.id = 1 /\ m.url = x[1] /\ m.subs = {}
          /\ n \in NodeType /\ n.id = 2 /\ n.url = x[2] /\ n.subs = {}
      <4> DEFINE y == x[1]  z == x[2]
      <4>1. y \in Urls /\ z \in Urls /\ m = Node(1, y, {}, b) /\ n = Node(2, z, {}, b)
        BY <3>0
      <4> HIDE DEF y, z, b, m, n
      <4>2. m \in NodeType /\ m.id = 1 /\ m.url = y /\ m.subs = {}
        BY <1>3, <4>1
      <4>3. n \in NodeType /\ n.id = 2 /\ n.url = z /\ n.subs = {}
        BY <1>3, <4>1
      <4> QED BY <4>2, <4>3 DEF y, z
    <3>2. nodes = <<m, n>>
      BY <2>3
    <3> HIDE DEF m, n
    <3>3. /\ nodes \in Seq(NodeType) /\ Len(nodes) = 2 /\ nodes[1] = m /\ nodes[2] = n /\ nodes # <<>>
          /\ DOMAIN nodes = 1..2
      BY <3>1, <3>2
    <3>4. 1 \in 1..2 /\ \A i \in 1..2 : i = 1 \/ i = 2
      OBVIOUS
    <3>5. First(nodes) = nodes[1].id /\ 1 \in DOMAIN nodes
      BY <3>3, <3>4 DEF First
    <3>6. First(nodes) \in IdsOf(nodes)
      BY <3>5 DEF IdsOf
    <3>7. \A i \in 1..Len(nodes) : nodes[i].id = i /\ nodes[i].subs = {}
      BY <3>1, <3>3, <3>4
    <3>8. \A i, j \in 1..Len(nodes) : nodes[i].url = nodes[j].url => i = j
      <4>1. m.url # n.url
        BY <3>1, <2>3
      <4> QED BY <4>1, <3>3, <3>4
    <3> QED BY <3>3, <3>6, <3>7, <3>8
  <2> QED BY <1>2, <2>1, <2>2, <2>3
<1> HIDE DEF nil
<1>5. /\ store.nodes = nodes /\ store.default = First(nodes) /\ store.scenes = nil /\ store.on = {}
      /\ store.results = nil /\ store.subs = nil /\ store.gen = 0
  BY <1>2
<1>6. nil \in Fns(Scenes, Nat) /\ nil \in Fns(Nat, Urls)
  <2>1. nil \in [{} -> Nat] /\ nil \in [{} -> Urls]
    BY <1>1
  <2> QED BY <1>1, <2>1, FnsIs
<1>7. store \in StoreType
  <2>1. First(nodes) \in Nat \cup {None}
    BY <1>4, IdsAre
  <2> QED BY <1>1, <1>2, <1>4, <1>6, <2>1 DEF StoreType
<1>8. Sound(store)
  <2>1. \A i, j \in 1..Len(nodes) : nodes[i].id = nodes[j].id \/ nodes[i].url = nodes[j].url => i = j
    BY <1>4
  <2>2. Len(nodes) <= MaxNodes
    <3>1. Len(nodes) \in Nat
      BY <1>4
    <3> QED BY <3>1, <1>4, Sentinels
  <2> QED BY <2>1, <2>2, <1>1, <1>4, <1>5, <1>7 DEF Sound, Distinct
<1>9. Good(store)
  BY <1>8, GoodIf
<1>10. feed \in [Subs -> [edition : Nat, list : Lists \cup {Unread}]]
  BY DEF Init
<1>11. taken \in [Subs -> Nat] /\ \A s \in Subs : taken[s] <= feed[s].edition
  BY DEF Init
<1>12. DOMAIN proc = Procs /\ \A p \in Procs : proc[p] = Rest
  BY DEF Init
<1>13. Working(Rest, store, feed, taken)
  BY <1>5, RestWorks
<1> QED BY <1>9, <1>10, <1>11, <1>12, <1>13 DEF IInv

LEMMA NextOk == IInv /\ [Next]_vars => IInv'
<1> SUFFICES ASSUME IInv, [Next]_vars PROVE IInv'
  OBVIOUS
<1>1. CASE AddByHand
  BY <1>1, AddByHandOk
<1>2. CASE RemoveOne
  BY <1>2, RemoveOneOk
<1>3. CASE RemoveAll
  BY <1>3, RemoveAllOk
<1>4. CASE Use
  BY <1>4, UseOk
<1>5. CASE AdoptNodes
  BY <1>5, AdoptNodesOk
<1>6. CASE SetScene
  BY <1>6, SetSceneOk
<1>7. ASSUME NEW p \in Procs, StartUpdate(p) PROVE IInv'
  BY <1>7, StartUpdateOk
<1>8. ASSUME NEW p \in Procs, Download(p) PROVE IInv'
  BY <1>8, DownloadOk
<1>9. ASSUME NEW p \in Procs, FinishUpdate(p) PROVE IInv'
  BY <1>9, FinishUpdateOk
<1>10. ASSUME NEW p \in Procs, StartProbes(p) PROVE IInv'
  BY <1>10, StartProbesOk
<1>11. ASSUME NEW p \in Procs, FinishProbes(p) PROVE IInv'
  BY <1>11, FinishProbesOk
<1>12. ASSUME NEW s \in Subs, Republish(s) PROVE IInv'
  BY <1>12, RepublishOk
<1>13. CASE UNCHANGED vars
  BY <1>13 DEF vars, IInv, Good, StoreType, Valid, Theirs
<1> QED BY <1>1, <1>2, <1>3, <1>4, <1>5, <1>6, <1>7, <1>8, <1>9, <1>10, <1>11, <1>12, <1>13 DEF Next

LEMMA Invariance == Spec => []IInv
BY InitOk, NextOk, PTL DEF Spec

\* Every store a command commits is one the program accepts, for any links, any number of
\* subscriptions, scenes and commands at work (validateStoreSemantics).
THEOREM StoresAreValid == Spec => []StoreIsValid
<1>1. IInv => StoreIsValid
  BY DEF IInv, Good, StoreIsValid
<1> QED BY <1>1, Invariance, PTL

\* A probe result is about the connection of the node it is filed under (mergeSpeedResults).
THEOREM ResultsStayTheirs == Spec => []ResultsAreTheirs
<1>1. IInv => ResultsAreTheirs
  BY DEF IInv, Good, Theirs, ResultsAreTheirs
<1> QED BY <1>1, Invariance, PTL

-------------------------------------------------------------------------------
(* What an update may do to the selections and the nodes of a store.        *)

\* What is selected stays on its connection while a node has it.
LEMMA SelectionKept ==
  ASSUME NEW st, Good(st), NEW p, Prepared(p), NEW u, Outcome(u, st, p), NEW s \in Scenes, Len(st.nodes) > 0,
         NEW c, c = ConfigOf(st, Selected(st, s)), NEW j0 \in 1..Len(u.nodes), u.nodes[j0].url.config = c
  PROVE  ConfigOf(u, Selected(u, s)) = c
<1> DEFINE x == Selected(st, s)
<1>1. u.nodes \in Seq(NodeType) /\ DOMAIN u.nodes = 1..Len(u.nodes) /\ Len(u.nodes) \in Nat
      /\ (\A i \in 1..Len(u.nodes) : u.nodes[i].id \in Nat)
      /\ \A i, j \in 1..Len(u.nodes) : u.nodes[i].id = u.nodes[j].id => i = j
  <2>1. u.nodes \in Seq(NodeType) /\ \A i, j \in 1..Len(u.nodes) : u.nodes[i].id = u.nodes[j].id => i = j
    BY DEF Outcome, After
  <2> QED BY <2>1, IdsAre
<1>2. st.nodes # <<>> /\ First(st.nodes) = st.nodes[1].id /\ st.nodes[1].id \in IdsOf(st.nodes)
  <2>1. st.nodes \in Seq(NodeType) /\ 1 \in 1..Len(st.nodes)
    BY GoodHas
  <2>2. st.nodes # <<>>
    OBVIOUS
  <2> QED BY <2>1, <2>2, IdsAre DEF First
<1>3. x \in IdsOf(st.nodes)
  <2>1. CASE s \in DOMAIN st.scenes
    BY <2>1, GoodHas DEF Selected
  <2>2. CASE s \notin DOMAIN st.scenes
    <3>1. st.default \in IdsOf(st.nodes) \cup {None}
      BY GoodHas
    <3> QED BY <2>2, <3>1, <1>2 DEF Selected
  <2> QED BY <2>1, <2>2
<1>4. PICK a \in 1..Len(st.nodes) : st.nodes[a].id = x
  <2>1. st.nodes \in Seq(NodeType)
    BY GoodHas
  <2> HIDE DEF x
  <2> QED BY <2>1, <1>3, IdsAre
<1>5. c = st.nodes[a].url.config
  <2>1. Find(st.nodes, x) = st.nodes[a]
    BY <1>4, GoodHas
  <2> QED BY <2>1 DEF ConfigOf
<1> HIDE DEF x
<1>6. ASSUME NEW y, Heir(u.nodes, st, x, y) PROVE ConfigOf(u, y) = c /\ y # None
  <2>1. PICK i \in 1..Len(u.nodes) : u.nodes[i].id = y /\ u.nodes[i].url.config = c
    BY <1>4, <1>5, <1>6 DEF Heir
  <2>2. Find(u.nodes, y) = u.nodes[i]
    BY <2>1, <1>1, FindIs
  <2> QED BY <2>1, <2>2, <1>1, Sentinels DEF ConfigOf
<1>7. CASE s \in DOMAIN st.scenes
  <2>1. x = st.scenes[s] /\ Selected(u, s) = u.scenes[s] /\ Heir(u.nodes, st, st.scenes[s], u.scenes[s])
    BY <1>7 DEF x, Selected, Outcome
  <2> QED BY <2>1, <1>6
<1>8. CASE s \notin DOMAIN st.scenes /\ st.default # None
  <2>1. x = st.default /\ Heir(u.nodes, st, st.default, u.default) /\ s \notin DOMAIN u.scenes
    BY <1>8 DEF x, Selected, Outcome
  <2>2. ConfigOf(u, u.default) = c /\ u.default # None
    BY <2>1, <1>6
  <2> QED BY <2>1, <2>2 DEF Selected
<1>9. CASE s \notin DOMAIN st.scenes /\ st.default = None
  <2>1. x = st.nodes[1].id /\ s \notin DOMAIN u.scenes
    BY <1>2, <1>9 DEF x, Selected, Outcome
  <2>2. CASE x \in IdsOf(u.nodes)
    <3>1. u.default = None
      BY <2>1, <2>2, <1>9 DEF Outcome
    <3>2. Len(u.nodes) > 0 /\ u.nodes[1].id = x
      BY <2>1, <2>2 DEF Outcome, After
    <3>3. u.nodes # <<>> /\ 1 \in 1..Len(u.nodes)
      BY <3>2, <1>1
    <3>4. Selected(u, s) = x
      BY <2>1, <3>1, <3>2, <3>3 DEF Selected, First
    <3>5. Find(u.nodes, x) = u.nodes[1]
      BY <3>2, <3>3, <1>1, FindIs
    <3>6. u.nodes[1].url.config = c
      BY <3>2, <3>3, <1>4, <1>5 DEF Outcome, After
    <3> QED BY <3>4, <3>5, <3>6 DEF ConfigOf
  <2>3. CASE x \notin IdsOf(u.nodes)
    <3>1. Heir(u.nodes, st, x, u.default)
      BY <2>1, <2>3, <1>9 DEF Outcome
    <3>2. ConfigOf(u, u.default) = c /\ u.default # None
      BY <3>1, <1>6
    <3> QED BY <3>2, <2>1 DEF Selected
  <2> QED BY <2>2, <2>3
<1> QED BY <1>7, <1>8, <1>9

\* A subscription that was downloaded is named by one node of each connection of its list.
LEMMA ListedIs ==
  ASSUME NEW st, Good(st), NEW p, Prepared(p), NEW nodes, nodes = Only(Added(st, p), Staying(Added(st, p))),
         NEW d \in Range(p), NEW listed, listed = {n \in Range(nodes) : d.sub \in n.subs}
  PROVE  /\ {n.url.config : n \in listed} = ConfigsOf(d.list)
         /\ Cardinality(listed) = Cardinality(ConfigsOf(d.list))
<1> DEFINE a == Added(st, p)  l0 == Len(st.nodes)  la == Len(a)
<1>1. Full(a, st, p, Len(Incoming(p)))
  BY AddedFacts
<1> HIDE DEF a
<1>2. a \in Seq(NodeType) /\ la \in Nat /\ l0 \in Nat /\ l0 <= la
  BY <1>1, GoodHas DEF Full
<1>3. nodes \in Seq(NodeType) /\ PartOf(nodes, a, Staying(a))
  BY <1>2, OnlyFacts DEF a
<1>4. PICK e \in DOMAIN p : p[e] = d
  BY DEF Range
<1>5. d.sub \in Refreshing(p) /\ (\A c : d.sub \in Sources(p, c) <=> c \in ConfigsOf(d.list))
      /\ ConfigsOf(d.list) \subseteq ConfigsOf(Incoming(p))
  <2>1. \A c : p[e].sub \in Sources(p, c) <=> c \in ConfigsOf(p[e].list)
    BY SourcesAre
  <2>2. p[e].sub \in Refreshing(p)
    BY DEF Refreshing
  <2>3. ConfigsOf(p[e].list) \subseteq ConfigsOf(Incoming(p))
    BY IncomingIs
  <2> QED BY <1>4, <2>1, <2>2, <2>3
\* Where a node of the whole list names the subscription.
<1>6. ASSUME NEW i \in 1..la, d.sub \in a[i].subs
      PROVE  a[i].url.config \in ConfigsOf(d.list) /\ (i <= l0 => Keeper(st, p, a[i].url.config) = i)
  <2>1. CASE i > l0
    <3>1. a[i].subs = Sources(p, a[i].url.config)
      BY <1>1, <2>1 DEF Full
    <3>2. ~ (i <= l0)
      BY <1>2, <2>1
    <3> QED BY <1>5, <1>6, <3>1, <3>2
  <2>2. CASE i \in 1..l0
    <3>1. Renewal(a[i], st.nodes[i], p, Keeper(st, p, st.nodes[i].url.config), i)
      BY <1>1, <2>2, RenewedIs DEF Full
    <3>2. a[i].url.config = st.nodes[i].url.config
      BY <3>1 DEF Renewal
    <3>3. d.sub \in (IF Keeper(st, p, a[i].url.config) = i THEN Sources(p, a[i].url.config) ELSE {})
      BY <1>5, <1>6, <3>1, <3>2 DEF Renewal
    <3>4. Keeper(st, p, a[i].url.config) = i /\ d.sub \in Sources(p, a[i].url.config)
      BY <3>3
    <3> QED BY <1>5, <3>4
  <2> QED BY <2>1, <2>2, <1>2
<1>7. ASSUME NEW i \in 1..la, NEW j \in 1..la, d.sub \in a[i].subs, d.sub \in a[j].subs,
             a[i].url.config = a[j].url.config
      PROVE  i = j
  <2>1. CASE i > l0 \/ j > l0
    BY <1>1, <1>7, <2>1 DEF Full
  <2>2. CASE i <= l0 /\ j <= l0
    <3>1. Keeper(st, p, a[i].url.config) = i /\ Keeper(st, p, a[j].url.config) = j
      BY <1>6, <1>7, <2>2
    <3> QED BY <3>1, <1>7
  <2> QED BY <2>1, <2>2, <1>2
<1>8. ASSUME NEW c \in ConfigsOf(d.list) PROVE \E n \in listed : n.url.config = c
  <2>1. PICK i \in 1..la : i \in Staying(a) /\ a[i].url.config = c /\ a[i].subs \cap Refreshing(p) = Sources(p, c)
    BY <1>1, <1>5, StayingListed
  <2>2. d.sub \in a[i].subs
    BY <1>5, <2>1
  <2>3. PICK k \in 1..Len(nodes) : nodes[k] = a[i]
    BY <1>3, <2>1 DEF PartOf
  <2>4. nodes[k] \in Range(nodes)
    BY <1>3 DEF Range
  <2> QED BY <2>1, <2>2, <2>3, <2>4
<1>9. \A n \in listed : d.sub \in n.subs /\ \E i \in 1..la : a[i] = n
  <2> SUFFICES ASSUME NEW n \in listed PROVE d.sub \in n.subs /\ \E i \in 1..la : a[i] = n
    OBVIOUS
  <2>1. PICK k \in 1..Len(nodes) : nodes[k] = n
    BY <1>3 DEF Range
  <2> QED BY <2>1, <1>3 DEF PartOf
<1> DEFINE f == [n \in listed |-> n.url.config]  C == ConfigsOf(d.list)
<1>10. \A n \in listed : n.url.config \in C
  BY <1>6, <1>9
<1>11. \A m, n \in listed : m.url.config = n.url.config => m = n
  BY <1>7, <1>9
<1>12. \A c \in C : \E n \in listed : n.url.config = c
  BY <1>8
<1>13. IsFiniteSet(listed)
  <2> DEFINE g == [k \in 1..Len(nodes) |-> nodes[k]]
  <2>1. g \in Surjection(1..Len(nodes), Range(nodes)) /\ Len(nodes) \in Nat
    BY <1>3 DEF Surjection, Range
  <2>2. IsFiniteSet(Range(nodes))
    BY <2>1, FS_Surjection, FS_Interval
  <2>3. listed \subseteq Range(nodes)
    OBVIOUS
  <2> QED BY <2>2, <2>3, FS_Subset
<1> HIDE DEF C
<1>14. f \in Bijection(listed, C)
  BY <1>10, <1>11, <1>12 DEF Bijection, Injection, Surjection, IsInjective
<1>15. Cardinality(C) = Cardinality(listed)
  <2>1. ExistsBijection(listed, C)
    <3> HIDE DEF f
    <3> QED BY <1>14 DEF ExistsBijection
  <2> QED BY <1>13, <2>1, FS_Bijection
<1>16. {n.url.config : n \in listed} = C
  BY <1>10, <1>12
<1> QED BY <1>15, <1>16 DEF C

\* An outcome is one whatever its generation.
LEMMA OutcomeCommitted ==
  ASSUME NEW st, NEW p, NEW u, Outcome(u, st, p), NEW g \in Nat, NEW v, v = [u EXCEPT !.gen = g]
  PROVE  Outcome(v, st, p) /\ v.nodes = u.nodes
<1>1. /\ v.nodes = u.nodes /\ v.default = u.default /\ v.scenes = u.scenes /\ v.on = u.on
      /\ v.results = u.results /\ v.subs = u.subs /\ v \in StoreType
  BY DEF Outcome, StoreType
<1> QED BY <1>1 DEF Outcome

\* The step that commits an update is FinishUpdate, of the store the update began with.
LEMMA UpdatingIs ==
  ASSUME IInv, [Next]_vars, NEW p \in Procs, Updating(p)
  PROVE  /\ Prepared(proc[p].prepared) /\ Outcome(store', store, proc[p].prepared)
         /\ FinishUpdate(p) /\ Unchanged(p)
<1>1. proc[p].pc = "download" /\ proc'[p].pc = "idle" /\ store' # store
  BY DEF Updating, In
<1>2. \A q \in Procs : \A r : proc' = [proc EXCEPT ![q] = r] => q = p
  BY <1>1
<1>3. ASSUME NEW st, AtOnce(st) PROVE FALSE
  BY <1>1, <1>3 DEF AtOnce
<1>4. ~ (AddByHand \/ RemoveOne \/ RemoveAll \/ Use \/ AdoptNodes \/ SetScene)
  BY <1>3 DEF AddByHand, RemoveOne, RemoveAll, Use, AdoptNodes, SetScene
<1>5. ASSUME NEW q \in Procs PROVE ~ (StartUpdate(q) \/ Download(q) \/ StartProbes(q))
  BY <1>1 DEF StartUpdate, Download, StartProbes
<1>6. ASSUME NEW q \in Procs PROVE ~ FinishProbes(q)
  BY <1>1, <1>2 DEF FinishProbes, In
<1>7. \A s \in Subs : ~ Republish(s)
  BY <1>1 DEF Republish
<1>8. store' = store => FALSE
  BY <1>1
<1>9. PICK q \in Procs : FinishUpdate(q)
  BY <1>4, <1>5, <1>6, <1>7, <1>8 DEF Next, vars
<1>10. FinishUpdate(p)
  BY <1>2, <1>9 DEF FinishUpdate
<1> DEFINE pr == proc[p].prepared  st == Reconcile(store, pr)
<1>11. In(p, "download") /\ proc[p].todo = <<>> /\ Unchanged(p) /\ Commit(st)
  BY <1>1, <1>10 DEF FinishUpdate
<1>12. Prepared(pr) /\ Good(store) /\ store.gen \in Nat
  BY <1>11, PreparedIs DEF IInv, Good, StoreType
<1>13. store' = [st EXCEPT !.gen = store.gen + 1]
  BY <1>11 DEF Commit
<1> HIDE DEF pr
<1>14. Outcome(st, store, pr)
  BY <1>12, ReconcileIs
<1> HIDE DEF st
<1>15. Outcome(store', store, pr)
  BY <1>12, <1>13, <1>14, OutcomeCommitted
<1> QED BY <1>10, <1>11, <1>12, <1>15 DEF pr

\* Only a committed update changes what was taken, and puts nothing older.
LEMMA TakenIs ==
  ASSUME IInv, [Next]_vars
  PROVE  \A s \in Subs : taken'[s] >= taken[s]
<1>1. taken \in [Subs -> Nat] /\ store.gen \in Nat
  BY DEF IInv, Good, StoreType
<1>2. CASE taken' = taken
  BY <1>1, <1>2
<1>3. ASSUME NEW p \in Procs, FinishUpdate(p), taken' # taken PROVE \A s \in Subs : taken'[s] >= taken[s]
  <2> DEFINE pr == proc[p].prepared
             ta == [s \in Subs |-> IF s \in Refreshing(pr)
                                   THEN (CHOOSE d \in Range(pr) : d.sub = s).edition ELSE taken[s]]
  <2>1. In(p, "download") /\ proc[p].todo = <<>> /\ Unchanged(p) /\ taken' = ta
    BY <1>3 DEF FinishUpdate
  <2>2. ta \in [Subs -> Nat] /\ \A s \in Subs : taken[s] <= ta[s]
    BY <2>1, EditionsAre
  <2> HIDE DEF ta
  <2> QED BY <1>1, <2>1, <2>2
<1>4. taken' = taken \/ \E p \in Procs : FinishUpdate(p)
  BY DEF Next, vars, AddByHand, RemoveOne, RemoveAll, Use, AdoptNodes, SetScene, AtOnce,
         StartUpdate, Download, StartProbes, FinishProbes, Republish
<1> QED BY <1>2, <1>3, <1>4

\* An update changes the connection a scene uses only if no node has it any more
\* (subscriptionNodePriority, "keep selections stable").
THEOREM SelectionStaysStable == Spec => SelectionIsStable
<1> DEFINE A == \A p \in Procs, s \in Scenes : Updating(p) /\ store.nodes # <<>> =>
                  LET c == ConfigOf(store, Selected(store, s)) IN
                    c \in {store'.nodes[i].url.config : i \in DOMAIN store'.nodes}
                      => ConfigOf(store', Selected(store', s)) = c
<1>1. IInv /\ [Next]_vars => A
  <2> SUFFICES ASSUME IInv, [Next]_vars, NEW p \in Procs, NEW s \in Scenes, Updating(p), store.nodes # <<>>,
                      ConfigOf(store, Selected(store, s)) \in {store'.nodes[i].url.config : i \in DOMAIN store'.nodes}
               PROVE  ConfigOf(store', Selected(store', s)) = ConfigOf(store, Selected(store, s))
    OBVIOUS
  <2>1. Prepared(proc[p].prepared) /\ Outcome(store', store, proc[p].prepared) /\ Good(store)
    BY UpdatingIs DEF IInv
  <2>2. store'.nodes \in Seq(NodeType) /\ store.nodes \in Seq(NodeType)
    BY <2>1 DEF Outcome, After, Good, StoreType
  <2>3. Len(store.nodes) > 0
    BY <2>2
  <2>4. PICK j \in 1..Len(store'.nodes) : store'.nodes[j].url.config = ConfigOf(store, Selected(store, s))
    BY <2>2
  <2> QED BY <2>1, <2>3, <2>4, SelectionKept
<1>2. IInv /\ [Next]_vars => [A]_vars
  BY <1>1
<1> QED BY <1>2, Invariance, PTL DEF Spec, SelectionIsStable

\* An update makes exactly what was downloaded the subscription's nodes, takes away only managed
\* nodes without a source, and never puts an older list over a newer one
\* (reconcileSubscriptions, updateSubscriptionsFromSnapshot).
THEOREM UpdatesStayExact == Spec => UpdatesAreExact
<1> DEFINE Listing(d) == {n \in Range(store'.nodes) : d.sub \in n.subs}
           A == /\ \A s \in Subs : taken'[s] >= taken[s]
                /\ \A p \in Procs : Updating(p) =>
                     /\ \A d \in Range(proc[p].prepared) :
                          LET listed == {n \in Range(store'.nodes) : d.sub \in n.subs} IN
                          /\ {n.url.config : n \in listed} = ConfigsOf(d.list)
                          /\ Cardinality(listed) = Cardinality(ConfigsOf(d.list))
                     /\ \A n \in Range(store.nodes) :
                          n.id \notin IdsOf(store'.nodes)
                            => n.managed /\ n.subs \subseteq Refreshing(proc[p].prepared)
<1>1. IInv /\ [Next]_vars => A
  <2> SUFFICES ASSUME IInv, [Next]_vars PROVE A
    OBVIOUS
  <2>1. \A s \in Subs : taken'[s] >= taken[s]
    BY TakenIs
  <2>2. ASSUME NEW p \in Procs, Updating(p)
        PROVE  /\ \A d \in Range(proc[p].prepared) :
                    /\ {n.url.config : n \in Listing(d)} = ConfigsOf(d.list)
                    /\ Cardinality(Listing(d)) = Cardinality(ConfigsOf(d.list))
               /\ \A n \in Range(store.nodes) :
                    n.id \notin IdsOf(store'.nodes)
                      => n.managed /\ n.subs \subseteq Refreshing(proc[p].prepared)
    <3>1. Prepared(proc[p].prepared) /\ Outcome(store', store, proc[p].prepared) /\ Good(store)
      BY <2>2, UpdatingIs DEF IInv
    <3>2. store'.nodes = Only(Added(store, proc[p].prepared), Staying(Added(store, proc[p].prepared)))
      BY <3>1 DEF Outcome
    <3>3. ASSUME NEW d \in Range(proc[p].prepared)
          PROVE  /\ {n.url.config : n \in Listing(d)} = ConfigsOf(d.list)
                 /\ Cardinality(Listing(d)) = Cardinality(ConfigsOf(d.list))
      BY <3>1, <3>2, ListedIs
    <3>4. ASSUME NEW n \in Range(store.nodes), n.id \notin IdsOf(store'.nodes)
          PROVE  n.managed /\ n.subs \subseteq Refreshing(proc[p].prepared)
      <4>1. store.nodes \in Seq(NodeType)
        BY <3>1 DEF Good, StoreType
      <4>2. PICK j \in 1..Len(store.nodes) : store.nodes[j] = n
        BY <4>1 DEF Range
      <4> QED BY <3>1, <3>4, <4>2 DEF Outcome, After
    <3> QED BY <3>3, <3>4
  <2> HIDE DEF Listing
  <2>3. ASSUME NEW p \in Procs, Updating(p)
        PROVE  /\ \A d \in Range(proc[p].prepared) :
                    LET listed == {n \in Range(store'.nodes) : d.sub \in n.subs} IN
                    /\ {n.url.config : n \in listed} = ConfigsOf(d.list)
                    /\ Cardinality(listed) = Cardinality(ConfigsOf(d.list))
               /\ \A n \in Range(store.nodes) :
                    n.id \notin IdsOf(store'.nodes)
                      => n.managed /\ n.subs \subseteq Refreshing(proc[p].prepared)
    BY <2>2, <2>3 DEF Listing
  <2> QED BY <2>1, <2>3
<1>2. IInv /\ [Next]_vars => [A]_vars
  BY <1>1
<1> QED BY <1>2, Invariance, PTL DEF Spec, UpdatesAreExact
===============================================================================
