---------------------------- MODULE RuleBookProofs ----------------------------
(* Proofs about RuleEngine, SpxTicket and RuleBook, for any lists of rules,  *)
(* any tickets and any answers.                                              *)
EXTENDS RuleBook, SequenceTheorems, FiniteSetTheorems, WellFoundedInduction, TLAPS

(***************************************************************************)
(* Induction.  The induction theorems of the library take an operator,     *)
(* which the provers cannot instantiate; these take sets and functions.    *)
(***************************************************************************)
\* Every set of naturals that has a member has a least one.
LEMMA LeastNatural ==
    ASSUME NEW T \in SUBSET Nat, T # {}
    PROVE  \E m \in T : \A k \in T : m <= k
<1>1. PICK m \in T : \A k \in T : ~(<<k, m>> \in OpToRel(<, Nat))
  <2>. DEFINE R == OpToRel(<, Nat)
  <2>1. IsWellFoundedOn(R, Nat)
    BY NatLessThanWellFounded, Zenon
  <2>2. T \subseteq Nat
    OBVIOUS
  <2>. HIDE DEF R
  <2>3. \E m \in T : \A k \in T : ~(<<k, m>> \in R)
    BY <2>1, <2>2, WFMin, Zenon
  <2>. QED
    BY <2>3, Zenon DEF R
<1>2. \A k \in T : ~(k < m)
  BY <1>1 DEF OpToRel
<1>. QED
  BY <1>2

\* What holds at first and is kept by each step holds to the end.
LEMMA StepByStep ==
    ASSUME NEW T, NEW N \in Nat, 0 \in T, \A n \in 1..N : n - 1 \in T => n \in T
    PROVE  \A n \in 0..N : n \in T
<1>. DEFINE missed == {n \in 0..N : n \notin T}
<1>1. SUFFICES ASSUME missed # {} PROVE FALSE
  OBVIOUS
<1>2. missed \in SUBSET Nat
  OBVIOUS
<1>3. PICK m \in missed : \A k \in missed : m <= k
  BY <1>1, <1>2, LeastNatural
<1>4. m \in 1..N /\ m - 1 \in 0..N /\ m \notin T
  OBVIOUS
<1>5. m - 1 \notin missed
  BY <1>3, <1>4
<1>. QED
  BY <1>4, <1>5

LEMMA GreatestPlace ==
    ASSUME NEW N \in Nat, NEW s \in SUBSET (1..N), s # {}
    PROVE  Max(s) \in s /\ \A k \in s : k <= Max(s)
<1>. DEFINE left == {k \in 0..N : N - k \in s}
<1>1. \A k \in s : k \in 1..N /\ N - k \in 0..N /\ N - (N - k) = k
  OBVIOUS
<1>2. \A k \in s : N - k \in left
  BY <1>1
<1>3. left \in SUBSET Nat
  OBVIOUS
<1>4. PICK m \in left : \A k \in left : m <= k
  BY <1>2, <1>3, LeastNatural, Zenon
<1>5. N - m \in s /\ \A k \in s : N - m >= k
  <2>1. \A k \in s : m <= N - k
    BY <1>2, <1>4
  <2>2. m \in 0..N /\ N - m \in s
    OBVIOUS
  <2>. QED
    BY <2>1, <2>2, <1>1
<1>6. \E y \in s : \A k \in s : y >= k
  BY <1>5
<1>. QED
  BY <1>6, Zenon DEF Max

LEMMA LeastPlace ==
    ASSUME NEW s \in SUBSET Nat, s # {}
    PROVE  Min(s) \in s /\ \A k \in s : Min(s) <= k
<1>1. \E y \in s : \A k \in s : y <= k
  BY LeastNatural
<1>. QED
  BY <1>1, Zenon DEF Min

(***************************************************************************)
(* Folds.  FoldLeft is a function on the sets of places, of which only the *)
(* sets 1..n matter.                                                       *)
(***************************************************************************)
LEMMA FirstPlaces ==
    ASSUME NEW N \in Nat, NEW n \in 1..N
    PROVE  /\ 1..n \in SUBSET (1..N) /\ 1..n # {} /\ Max(1..n) = n
           /\ 1..n \ {n} = 1..(n - 1) /\ n - 1 \in 0..N
<1>1. 1..n \in SUBSET (1..N) /\ n \in 1..n /\ 1..n \ {n} = 1..(n - 1) /\ n - 1 \in 0..N
  OBVIOUS
<1>2. Max(1..n) \in 1..n /\ \A k \in 1..n : k <= Max(1..n)
  BY <1>1, GreatestPlace
<1>. QED
  BY <1>1, <1>2

\* f folds the function step over the places of each set of them.
IsFold(f, A, N, base, step) ==
    /\ f \in [SUBSET (1..N) -> A]
    /\ \A s \in SUBSET (1..N) :
           f[s] = IF s = {} THEN base ELSE step[<<f[s \ {Max(s)}], Max(s)>>]

LEMMA FoldExists ==
    ASSUME NEW A, NEW N \in Nat, NEW base \in A, NEW step \in [A \X (1..N) -> A]
    PROVE  \E f : IsFold(f, A, N, base, step)
<1>. DEFINE Folds(n, f) == \A s \in SUBSET (1..n) :
                f[s] = IF s = {} THEN base ELSE step[<<f[s \ {Max(s)}], Max(s)>>]
            Done == {n \in 0..N : \E f \in [SUBSET (1..n) -> A] : Folds(n, f)}
<1>1. 0 \in Done
  <2>. DEFINE f == [s \in SUBSET (1..0) |-> base]
  <2>1. f \in [SUBSET (1..0) -> A]
    OBVIOUS
  <2>2. Folds(0, f)
    OBVIOUS
  <2>3. 0 \in 0..N
    OBVIOUS
  <2>. HIDE DEF f, Folds
  <2>4. \E g \in [SUBSET (1..0) -> A] : Folds(0, g)
    BY <2>1, <2>2
  <2>. QED
    BY <2>3, <2>4
<1>2. ASSUME NEW n \in 1..N, n - 1 \in Done PROVE n \in Done
  <2>. DEFINE m == n - 1
  <2>1. PICK h \in [SUBSET (1..m) -> A] : Folds(m, h)
    BY <1>2
  <2>2. m \in Nat /\ n \in Nat /\ n # 0 /\ 1..m = 1..n \ {n} /\ n \in 1..n
    OBVIOUS
  <2>. HIDE DEF m
  <2>. DEFINE f == [s \in SUBSET (1..n) |->
                       IF n \in s THEN step[<<h[s \ {n}], n>>] ELSE h[s]]
  <2>3. \A s \in SUBSET (1..n) : s \ {n} \in SUBSET (1..m) /\ (n \notin s => s \in SUBSET (1..m))
    BY <2>2
  <2>4. f \in [SUBSET (1..n) -> A]
    BY <2>3
  <2>5. ASSUME NEW s \in SUBSET (1..n), n \in s
        PROVE  f[s] = IF s = {} THEN base ELSE step[<<f[s \ {Max(s)}], Max(s)>>]
    <3>1. Max(s) = n
      <4>1. Max(s) \in s /\ \A k \in s : k <= Max(s)
        BY <2>2, <2>5, GreatestPlace
      <4>2. Max(s) \in 1..n /\ n <= Max(s)
        BY <4>1, <2>5
      <4>. QED
        BY <4>2
    <3>2. f[s \ {n}] = h[s \ {n}]
      BY <2>3
    <3>. QED
      BY <3>1, <3>2, <2>5
  <2>6. ASSUME NEW s \in SUBSET (1..n), n \notin s
        PROVE  f[s] = IF s = {} THEN base ELSE step[<<f[s \ {Max(s)}], Max(s)>>]
    <3>1. f[s] = h[s] /\ s \in SUBSET (1..m)
      BY <2>3, <2>6
    <3>2. \A t \in SUBSET s : f[t] = h[t]
      BY <2>3, <2>6
    <3>3. f[s \ {Max(s)}] = h[s \ {Max(s)}]
      BY <3>2
    <3>4. h[s] = IF s = {} THEN base ELSE step[<<h[s \ {Max(s)}], Max(s)>>]
      BY <2>1, <3>1
    <3>. QED
      BY <3>1, <3>3, <3>4
  <2>7. Folds(n, f)
    BY <2>5, <2>6
  <2>8. n \in 0..N
    OBVIOUS
  <2>. QED
    BY <2>4, <2>7, <2>8
<1>3. N \in Done
  <2>. HIDE DEF Done
  <2>1. \A n \in 0..N : n \in Done
    BY <1>1, <1>2, StepByStep
  <2>. QED
    BY <2>1
<1>. QED
  BY <1>3 DEF IsFold

\* What is in A at first, and stays in it by each step, is in it to the end.
LEMMA Stays ==
    ASSUME NEW A, NEW N \in Nat, NEW g, g[0] \in A,
           \A n \in 1..N : g[n - 1] \in A => g[n] \in A
    PROVE  \A n \in 0..N : g[n] \in A
<1>. DEFINE T == {n \in 0..N : g[n] \in A}
<1>1. 0 \in T /\ \A n \in 1..N : n - 1 \in T => n \in T
  OBVIOUS
<1>2. \A n \in T : g[n] \in A
  OBVIOUS
<1>. HIDE DEF T
<1>3. \A n \in 0..N : n \in T
  BY <1>1, StepByStep
<1>. QED
  BY <1>2, <1>3

\* h does as the function step does, as long as its values are in A.
Follows(h, A, N, base, step) ==
    /\ h[{}] = base
    /\ \A t \in SUBSET (1..N) : t # {} /\ h[t \ {Max(t)}] \in A =>
           h[t] = step[<<h[t \ {Max(t)}], Max(t)>>]

\* g holds the values the function step goes through, the last of them last.
Trace(g, A, N, base, step, last) ==
    /\ g \in [0..N -> A] /\ g[0] = base /\ g[N] = last
    /\ \A n \in 1..N : g[n] = step[<<g[n - 1], n>>]

LEMMA FoldSteps ==
    ASSUME NEW A, NEW N \in Nat, NEW base \in A, NEW step \in [A \X (1..N) -> A],
           NEW h, Follows(h, A, N, base, step)
    PROVE  \E g : Trace(g, A, N, base, step, h[1..N])
<1>. DEFINE g == [n \in 0..N |-> h[1..n]]
<1>1. g[0] = base /\ h[1..N] = g[N]
  BY DEF Follows
<1>2. ASSUME NEW n \in 1..N, g[n - 1] \in A
      PROVE  g[n] = step[<<g[n - 1], n>>] /\ g[n] \in A
  <2>1. /\ 1..n \in SUBSET (1..N) /\ 1..n # {} /\ Max(1..n) = n
        /\ 1..n \ {n} = 1..(n - 1) /\ n - 1 \in 0..N /\ n \in 0..N
    BY FirstPlaces
  <2>2. h[1..n] = step[<<h[1..n \ {n}], n>>]
    BY <2>1, <1>2 DEF Follows
  <2>. QED
    BY <2>1, <2>2, <1>2
<1>. HIDE DEF g
<1>3. \A n \in 0..N : g[n] \in A
  BY <1>1, <1>2, Stays
<1>4. g \in [0..N -> A]
  <2>1. g = [n \in 0..N |-> h[1..n]]
    BY DEF g
  <2>. QED
    BY <2>1, <1>3
<1>5. \A n \in 1..N : g[n - 1] \in A
  BY <1>3
<1>. QED
  BY <1>1, <1>2, <1>4, <1>5 DEF Trace

(***************************************************************************)
(* Picked, one place at a time: g[n] is what is kept of the first n.       *)
(***************************************************************************)
PicksUp(g, S, s, I) ==
    /\ g \in [0..Len(s) -> Seq(S)]
    /\ g[0] = <<>>
    /\ Picked(s, I) = g[Len(s)]
    /\ \A n \in 1..Len(s) : g[n] = IF n \in I THEN Append(g[n - 1], s[n]) ELSE g[n - 1]

LEMMA PickedSteps ==
    ASSUME NEW S, NEW s \in Seq(S), NEW I
    PROVE  \E g : PicksUp(g, S, s, I)
<1>. DEFINE N == Len(s)
            D == DOMAIN [i \in DOMAIN s |-> i]
            step == [p \in Seq(S) \X (1..N) |->
                        IF p[2] \in I THEN Append(p[1], s[p[2]]) ELSE p[1]]
            Eq(f) == f = [t \in SUBSET D |->
                            IF t = {} THEN <<>>
                            ELSE IF [i \in DOMAIN s |-> i][Max(t)] \in I
                                 THEN Append(f[t \ {Max(t)}], s[[i \in DOMAIN s |-> i][Max(t)]])
                                 ELSE f[t \ {Max(t)}]]
<1>1. Picked(s, I) = (CHOOSE f : Eq(f))[D]
  BY Zenon DEF Picked, FoldLeftDomain, FoldLeft, MapThenFoldSet
<1>2. D = 1..N /\ N \in Nat /\ \A i \in D : [j \in DOMAIN s |-> j][i] = i /\ s[i] \in S
  OBVIOUS
<1>3. step \in [Seq(S) \X (1..N) -> Seq(S)] /\ <<>> \in Seq(S)
  OBVIOUS
<1>4. \A t \in SUBSET (1..N) : t # {} => Max(t) \in 1..N
  BY <1>2, GreatestPlace
<1>5. PICK f : IsFold(f, Seq(S), N, <<>>, step)
  <2>. HIDE DEF step, N
  <2>. QED
    BY <1>2, <1>3, FoldExists
<1>6. Eq(f)
  BY <1>2, <1>4, <1>5 DEF IsFold
<1>7. PICK h : Picked(s, I) = h[D] /\ Eq(h)
  <2>. HIDE DEF Eq, D
  <2>. QED
    BY <1>1, <1>6, Zenon
<1>8. Follows(h, Seq(S), N, <<>>, step)
  <2>1. \A t \in SUBSET D : h[t] =
             IF t = {} THEN <<>>
             ELSE IF [i \in DOMAIN s |-> i][Max(t)] \in I
                  THEN Append(h[t \ {Max(t)}], s[[i \in DOMAIN s |-> i][Max(t)]])
                  ELSE h[t \ {Max(t)}]
    BY <1>7
  <2>. QED
    BY <1>2, <1>4, <2>1 DEF Follows
<1>9. PICK g : Trace(g, Seq(S), N, <<>>, step, h[1..N])
  <2>. HIDE DEF step, N
  <2>. QED
    BY <1>2, <1>3, <1>8, FoldSteps, Zenon
<1>10. ASSUME NEW n \in 1..N
       PROVE  g[n] = IF n \in I THEN Append(g[n - 1], s[n]) ELSE g[n - 1]
  <2>1. g[n - 1] \in Seq(S)
    BY <1>2, <1>9 DEF Trace
  <2>2. g[n] = step[<<g[n - 1], n>>] /\ <<g[n - 1], n>> \in Seq(S) \X (1..N)
    BY <2>1, <1>9 DEF Trace
  <2>. QED
    BY <2>2
<1>11. g \in [0..N -> Seq(S)] /\ g[0] = <<>> /\ Picked(s, I) = g[N]
  BY <1>2, <1>7, <1>9 DEF Trace
<1>. QED
  BY <1>10, <1>11, Zenon DEF PicksUp

\* out holds the members of s at the places of I, in their order: the k-th of
\* them stands at p[k].
PlacesOf(p, out, s, n, I) ==
    /\ p \in [1..Len(out) -> (1..n) \cap I]
    /\ \A k \in 1..Len(out) : out[k] = s[p[k]]
    /\ \A j, k \in 1..Len(out) : j < k => p[j] < p[k]
    /\ \A i \in (1..n) \cap I : \E k \in 1..Len(out) : p[k] = i

LEMMA PickedPlaces ==
    ASSUME NEW S, NEW s \in Seq(S), NEW I
    PROVE  /\ Picked(s, I) \in Seq(S)
           /\ \E p : PlacesOf(p, Picked(s, I), s, Len(s), I)
<1>. DEFINE N == Len(s)
<1>0. PICK g : PicksUp(g, S, s, I)
  BY PickedSteps
<1>1. /\ g \in [0..N -> Seq(S)] /\ g[0] = <<>> /\ Picked(s, I) = g[N]
      /\ \A n \in 1..N : g[n] = IF n \in I THEN Append(g[n - 1], s[n]) ELSE g[n - 1]
  BY <1>0 DEF PicksUp
<1>. DEFINE T == {n \in 0..N : \E p : PlacesOf(p, g[n], s, n, I)}
<1>2. 0 \in T
  <2>1. PlacesOf(<<>>, g[0], s, 0, I)
    BY <1>1 DEF PlacesOf
  <2>. QED
    BY <2>1
<1>3. ASSUME NEW n \in 1..N, n - 1 \in T PROVE n \in T
  <2>1. PICK p : PlacesOf(p, g[n - 1], s, n - 1, I)
    BY <1>3
  <2>5. n \in Nat /\ n - 1 \in 0..N /\ n \in 0..N /\ s[n] \in S
    OBVIOUS
  <2>2. n \in Nat /\ n - 1 \in 0..N /\ n \in 0..N /\ g[n - 1] \in Seq(S) /\ s[n] \in S
    BY <1>1, <2>5
  <2>3. CASE n \notin I
    <3>1. g[n] = g[n - 1] /\ (1..n) \cap I = (1..(n - 1)) \cap I
      BY <1>1, <2>2, <2>3
    <3>2. PlacesOf(p, g[n], s, n, I)
      BY <2>1, <3>1 DEF PlacesOf
    <3>. QED
      BY <2>2, <3>2
  <2>4. CASE n \in I
    <3>. DEFINE m == Len(g[n - 1])
                q == [k \in 1..(m + 1) |-> IF k = m + 1 THEN n ELSE p[k]]
    <3>1. /\ g[n] = Append(g[n - 1], s[n]) /\ m \in Nat /\ Len(g[n]) = m + 1
          /\ \A k \in 1..m : g[n][k] = g[n - 1][k]
          /\ g[n][m + 1] = s[n]
      <4>1. g[n] = Append(g[n - 1], s[n])
        BY <1>1, <2>4
      <4>2. ASSUME NEW x \in Seq(S), NEW e \in S
            PROVE  /\ Len(x) \in Nat /\ Len(Append(x, e)) = Len(x) + 1
                   /\ \A k \in 1..Len(x) : Append(x, e)[k] = x[k]
                   /\ Append(x, e)[Len(x) + 1] = e
        OBVIOUS
      <4>. QED
        BY <2>2, <4>1, <4>2
    <3>2. \A k \in 1..m : p[k] \in 1..(n - 1) /\ p[k] \in I /\ g[n - 1][k] = s[p[k]]
      BY <2>1 DEF PlacesOf
    <3>3. q \in [1..(m + 1) -> (1..n) \cap I]
      BY <2>2, <2>4, <3>1, <3>2
    <3>4. \A k \in 1..(m + 1) : g[n][k] = s[q[k]]
      BY <3>1, <3>2
    <3>5. \A j, k \in 1..(m + 1) : j < k => q[j] < q[k]
      <4>1. \A j, k \in 1..m : j < k => p[j] < p[k]
        BY <2>1 DEF PlacesOf
      <4>2. \A k \in 1..m : q[k] = p[k] /\ p[k] \in 1..(n - 1)
        BY <3>1, <3>2
      <4>3. q[m + 1] = n /\ \A k \in 1..(m + 1) : k = m + 1 \/ k \in 1..m
        BY <3>1
      <4>4. m \in Nat
        BY <3>1
      <4>. HIDE DEF q, m
      <4>5. ASSUME NEW j \in 1..(m + 1), NEW k \in 1..(m + 1), j < k PROVE q[j] < q[k]
        <5>1. j \in 1..m
          BY <4>4, <4>5
        <5>2. CASE k = m + 1
          BY <2>2, <4>2, <4>3, <5>1, <5>2
        <5>3. CASE k \in 1..m
          BY <4>1, <4>2, <4>5, <5>1, <5>3
        <5>. QED
          BY <4>3, <5>2, <5>3
      <4>. QED
        BY <4>5
    <3>6. \A i \in (1..n) \cap I : \E k \in 1..(m + 1) : q[k] = i
      <4>1. \A i \in (1..(n - 1)) \cap I : \E k \in 1..m : p[k] = i
        BY <2>1 DEF PlacesOf
      <4>2. \A i \in (1..n) \cap I : i = n \/ i \in (1..(n - 1)) \cap I
        BY <2>2
      <4>3. q[m + 1] = n /\ m + 1 \in 1..(m + 1) /\ \A k \in 1..m : q[k] = p[k] /\ k \in 1..(m + 1)
        BY <3>1
      <4>. HIDE DEF q, m
      <4>. QED
        BY <4>1, <4>2, <4>3
    <3>. HIDE DEF q, m
    <3>7. PlacesOf(q, g[n], s, n, I)
      BY <3>1, <3>3, <3>4, <3>5, <3>6 DEF PlacesOf
    <3>. QED
      BY <2>2, <3>7
  <2>. QED
    BY <2>3, <2>4
<1>4. N \in T
  <2>. HIDE DEF T
  <2>1. N \in Nat
    OBVIOUS
  <2>2. \A n \in 0..N : n \in T
    BY <1>2, <1>3, <2>1, StepByStep
  <2>. QED
    BY <2>1, <2>2
<1>. QED
  BY <1>1, <1>4

\* What is kept of the sequence is what stands at the places.
LEMMA PickedMembers ==
    ASSUME NEW S, NEW s \in Seq(S), NEW I
    PROVE  /\ Picked(s, I) \in Seq(S)
           /\ \A k \in DOMAIN Picked(s, I) : \E i \in DOMAIN s \cap I : Picked(s, I)[k] = s[i]
           /\ \A i \in DOMAIN s \cap I : \E k \in DOMAIN Picked(s, I) : Picked(s, I)[k] = s[i]
           /\ (\A i \in DOMAIN s : i \notin I) => Picked(s, I) = <<>>
<1>. DEFINE out == Picked(s, I)
<1>1. PICK p : PlacesOf(p, out, s, Len(s), I)
  BY PickedPlaces
<1>2. out \in Seq(S)
  BY PickedPlaces
<1>. HIDE DEF out
<1>3. DOMAIN out = 1..Len(out) /\ DOMAIN s = 1..Len(s) /\ Len(out) \in Nat
  BY <1>2
<1>4. \A k \in DOMAIN out : \E i \in DOMAIN s \cap I : out[k] = s[i]
  BY <1>1, <1>3 DEF PlacesOf
<1>5. \A i \in DOMAIN s \cap I : \E k \in DOMAIN out : out[k] = s[i]
  BY <1>1, <1>3 DEF PlacesOf
<1>6. (\A i \in DOMAIN s : i \notin I) => out = <<>>
  <2>1. SUFFICES ASSUME \A i \in DOMAIN s : i \notin I PROVE out = <<>>
    OBVIOUS
  <2>2. Len(out) = 0
    BY <1>3, <1>4, <2>1
  <2>. QED
    BY <1>2, <2>2
<1>. QED
  BY <1>2, <1>4, <1>5, <1>6 DEF out

\* If every place is kept, so is the sequence.
LEMMA PickedAll ==
    ASSUME NEW S, NEW s \in Seq(S), NEW I, \A i \in DOMAIN s : i \in I
    PROVE  Picked(s, I) = s
<1>. DEFINE N == Len(s)
<1>0. PICK g : PicksUp(g, S, s, I)
  BY PickedSteps
<1>1. /\ g \in [0..N -> Seq(S)] /\ g[0] = <<>> /\ Picked(s, I) = g[N]
      /\ \A n \in 1..N : g[n] = IF n \in I THEN Append(g[n - 1], s[n]) ELSE g[n - 1]
  BY <1>0 DEF PicksUp
<1>. DEFINE T == {n \in 0..N : g[n] = SubSeq(s, 1, n)}
<1>2. N \in Nat /\ DOMAIN s = 1..N
  OBVIOUS
<1>3. 0 \in T
  <2>1. SubSeq(s, 1, 0) = <<>>
    OBVIOUS
  <2>. QED
    BY <1>1, <1>2, <2>1
<1>4. ASSUME NEW n \in 1..N, n - 1 \in T PROVE n \in T
  <2>1. g[n] = Append(SubSeq(s, 1, n - 1), s[n])
    BY <1>1, <1>2, <1>4
  <2>2. Append(SubSeq(s, 1, n - 1), s[n]) = SubSeq(s, 1, n)
    OBVIOUS
  <2>3. n \in 0..N
    OBVIOUS
  <2>. QED
    BY <2>1, <2>2, <2>3, Zenon
<1>5. g[N] = SubSeq(s, 1, N)
  <2>1. \A n \in 0..N : n \in T
    <3>. HIDE DEF T
    <3>. QED
      BY <1>2, <1>3, <1>4, StepByStep
  <2>. QED
    BY <1>2, <2>1
<1>6. SubSeq(s, 1, N) = s
  OBVIOUS
<1>. QED
  BY <1>1, <1>5, <1>6

(***************************************************************************)
(* Texts                                                                   *)
(***************************************************************************)
\* A word is a string; that "fuso" is one is unknown to the provers.
Word   == STRING \cup {"fuso"}
Phrase == Seq(Word)

LEMMA TrimTwice ==
    ASSUME NEW S, NEW s \in Seq(S)
    PROVE  Trim(s) \in Seq(S) /\ Trim(Trim(s)) = Trim(s)
<1>. DEFINE words(t) == {i \in DOMAIN t : t[i] # Blank}
<1>1. \A t : Trim(t) = IF words(t) = {} THEN <<>> ELSE SubSeq(t, Min(words(t)), Max(words(t)))
  BY DEF Trim
<1>2. CASE words(s) = {}
  <2>1. Trim(s) = <<>>
    BY <1>1, <1>2
  <2>2. words(<<>>) = {}
    OBVIOUS
  <2>3. Trim(<<>>) = <<>>
    BY <1>1, <2>2
  <2>. QED
    BY <2>1, <2>3
<1>3. CASE words(s) # {}
  <2>. DEFINE a == Min(words(s))  b == Max(words(s))  t == SubSeq(s, a, b)
  <2>1. words(s) \in SUBSET (1..Len(s)) /\ words(s) \in SUBSET Nat /\ Len(s) \in Nat
    OBVIOUS
  <2>2. a \in words(s) /\ b \in words(s) /\ \A k \in words(s) : a <= k /\ k <= b
    <3>. HIDE DEF words
    <3>. QED
      BY <1>3, <2>1, LeastPlace, GreatestPlace
  <2>3. a \in 1..Len(s) /\ b \in 1..Len(s) /\ a <= b /\ s[a] # Blank /\ s[b] # Blank
    BY <2>2
  <2>. HIDE DEF a, b
  <2>4. /\ t \in Seq(S) /\ Len(t) = b - a + 1
        /\ \A i \in 1..(b - a + 1) : t[i] = s[a + i - 1]
    BY <2>3
  <2>5. Trim(s) = t
    BY <1>1, <1>3 DEF a, b
  <2>. HIDE DEF t
  <2>6. 1 \in words(t) /\ Len(t) \in words(t) /\ Len(t) \in Nat /\ words(t) \in SUBSET (1..Len(t))
    BY <2>3, <2>4
  <2>7. words(t) \in SUBSET Nat /\ words(t) # {}
    BY <2>6
  <2>8. Min(words(t)) = 1 /\ Max(words(t)) = Len(t)
    <3>. HIDE DEF words
    <3>1. /\ Min(words(t)) \in words(t) /\ \A k \in words(t) : Min(words(t)) <= k
          /\ Max(words(t)) \in words(t) /\ \A k \in words(t) : k <= Max(words(t))
      BY <2>6, <2>7, LeastPlace, GreatestPlace
    <3>2. Min(words(t)) \in 1..Len(t) /\ Max(words(t)) \in 1..Len(t)
      BY <2>6, <3>1
    <3>3. Min(words(t)) <= 1 /\ Len(t) <= Max(words(t))
      BY <2>6, <3>1
    <3>. QED
      BY <2>6, <3>2, <3>3
  <2>9. SubSeq(t, 1, Len(t)) = t
    BY <2>4
  <2>. QED
    BY <1>1, <2>4, <2>5, <2>7, <2>8, <2>9
<1>. QED
  BY <1>2, <1>3

\* NormLoc keeps neither blanks nor dashes, NormVehicle no capacity either.
LEMMA NormalForms ==
    ASSUME NEW S, NEW s \in Seq(S)
    PROVE  /\ NormLoc(s) \in Seq(S) /\ NormVehicle(s) \in Seq(S)
           /\ NormLoc(<<>>) = <<>> /\ NormVehicle(<<>>) = <<>>
           /\ NormVehicle(NormVehicle(s)) = NormVehicle(s)
<1>1. \A t \in Seq(S) : /\ NormLoc(t) = Picked(t, {i \in DOMAIN t : t[i] \notin {Blank, Dash}})
                        /\ NormVehicle(t) = Picked(NormLoc(t), {i \in DOMAIN NormLoc(t) :
                                                    NormLoc(t)[i] \notin Capacities})
  BY Zenon DEF NormLoc, NormVehicle, Keep
<1>2. ASSUME NEW t \in Seq(S)
      PROVE  /\ NormLoc(t) \in Seq(S)
             /\ \A k \in DOMAIN NormLoc(t) : NormLoc(t)[k] \notin {Blank, Dash}
  <2>. DEFINE I == {i \in DOMAIN t : t[i] \notin {Blank, Dash}}
  <2>1. /\ Picked(t, I) \in Seq(S)
        /\ \A k \in DOMAIN Picked(t, I) : \E i \in DOMAIN t \cap I : Picked(t, I)[k] = t[i]
    <3>. HIDE DEF I
    <3>. QED
      BY PickedMembers
  <2>. QED
    BY <1>1, <2>1
<1>3. ASSUME NEW t \in Seq(S)
      PROVE  /\ NormVehicle(t) \in Seq(S)
             /\ \A k \in DOMAIN NormVehicle(t) :
                    NormVehicle(t)[k] \notin {Blank, Dash} /\ NormVehicle(t)[k] \notin Capacities
  <2>. DEFINE u == NormLoc(t)
              I == {i \in DOMAIN u : u[i] \notin Capacities}
  <2>0. u \in Seq(S) /\ \A k \in DOMAIN u : u[k] \notin {Blank, Dash}
    BY <1>2
  <2>. HIDE DEF u
  <2>1. /\ Picked(u, I) \in Seq(S)
        /\ \A k \in DOMAIN Picked(u, I) : \E i \in DOMAIN u \cap I : Picked(u, I)[k] = u[i]
    <3>. HIDE DEF I
    <3>. QED
      BY <2>0, PickedMembers
  <2>2. NormVehicle(t) = Picked(u, I)
    BY <1>1 DEF u
  <2>. QED
    BY <2>0, <2>1, <2>2
<1>4. ASSUME NEW t \in Seq(S),
             \A k \in DOMAIN t : t[k] \notin {Blank, Dash} /\ t[k] \notin Capacities
      PROVE  NormVehicle(t) = t
  <2>. DEFINE I == {i \in DOMAIN t : t[i] \notin {Blank, Dash}}
              J == {i \in DOMAIN t : t[i] \notin Capacities}
  <2>1. (\A i \in DOMAIN t : i \in I) /\ (\A i \in DOMAIN t : i \in J)
    BY <1>4
  <2>2. Picked(t, I) = t /\ Picked(t, J) = t
    <3>. HIDE DEF I, J
    <3>. QED
      BY <2>1, PickedAll
  <2>3. NormLoc(t) = t
    BY <1>1, <2>2
  <2>. QED
    BY <1>1, <2>2, <2>3
<1>5. NormLoc(<<>>) = <<>> /\ NormVehicle(<<>>) = <<>>
  <2>1. <<>> \in Seq(S) /\ \A k \in DOMAIN <<>> : FALSE
    OBVIOUS
  <2>. DEFINE I == {i \in DOMAIN <<>> : <<>>[i] \notin {Blank, Dash}}
              J == {i \in DOMAIN <<>> : <<>>[i] \notin Capacities}
  <2>2. Picked(<<>>, I) = <<>> /\ Picked(<<>>, J) = <<>>
    <3>. HIDE DEF I, J
    <3>. QED
      BY <2>1, PickedAll
  <2>3. NormLoc(<<>>) = <<>>
    BY <1>1, <2>1, <2>2
  <2>. QED
    BY <1>1, <2>1, <2>2, <2>3
<1>. QED
  BY <1>2, <1>3, <1>4, <1>5

(***************************************************************************)
(* Lists of texts                                                          *)
(***************************************************************************)
LEMMA TextsAreTrimmed ==
    ASSUME NEW vs \in Seq(Phrase)
    PROVE  /\ Texts(vs) \in Seq(Phrase)
           /\ \A i \in DOMAIN Texts(vs) : Trim(Texts(vs)[i]) = Texts(vs)[i] /\ Texts(vs)[i] # <<>>
<1>. DEFINE ts == Map(Trim, vs)
            I == {i \in DOMAIN ts : ts[i] # <<>>}
<1>1. ts = [i \in DOMAIN vs |-> Trim(vs[i])]
  BY Zenon DEF Map
<1>2. \A i \in DOMAIN vs : Trim(vs[i]) \in Phrase /\ Trim(Trim(vs[i])) = Trim(vs[i])
  BY TrimTwice DEF Phrase
<1>3. DOMAIN vs = 1..Len(vs) /\ Len(vs) \in Nat
  OBVIOUS
<1>4. ts \in Seq(Phrase) /\ \A i \in DOMAIN ts : Trim(ts[i]) = ts[i]
  BY <1>1, <1>2, <1>3
<1>5. Texts(vs) = Picked(ts, I)
  BY Zenon DEF Texts, Keep
<1>. HIDE DEF ts
<1>6. /\ Picked(ts, I) \in Seq(Phrase)
      /\ \A k \in DOMAIN Picked(ts, I) : \E i \in DOMAIN ts \cap I : Picked(ts, I)[k] = ts[i]
  <2>. HIDE DEF I
  <2>. QED
    BY <1>4, PickedMembers
<1>. QED
  BY <1>4, <1>5, <1>6

LEMMA TrimmedStays ==
    ASSUME NEW vs \in Seq(Phrase), \A i \in DOMAIN vs : Trim(vs[i]) = vs[i] /\ vs[i] # <<>>
    PROVE  Texts(vs) = vs
<1>. DEFINE I == {i \in DOMAIN vs : vs[i] # <<>>}
<1>1. Map(Trim, vs) = vs
  <2>1. Map(Trim, vs) = [i \in DOMAIN vs |-> Trim(vs[i])]
    BY Zenon DEF Map
  <2>. QED
    BY <2>1
<1>2. Texts(vs) = Picked(vs, I)
  BY <1>1, Zenon DEF Texts, Keep
<1>3. \A i \in DOMAIN vs : i \in I
  OBVIOUS
<1>. HIDE DEF I
<1>. QED
  BY <1>2, <1>3, PickedAll

\* The places of the first values of each key.
FirstsOf(vs, key) ==
    {i \in DOMAIN vs : /\ key[vs[i]] # <<>>
                       /\ \A j \in 1 .. i - 1 : key[vs[j]] # key[vs[i]]}

KeysDiffer(vs, key) == /\ \A i \in DOMAIN vs : key[vs[i]] # <<>>
                  /\ \A i, j \in DOMAIN vs : key[vs[i]] = key[vs[j]] => i = j

EachKeyKept(vs, out, key) ==
    \A i \in DOMAIN vs : key[vs[i]] # <<>> => \E k \in DOMAIN out : key[out[k]] = key[vs[i]]

\* One value of each key is kept, the first.
LEMMA OneOfEach ==
    ASSUME NEW S, NEW vs \in Seq(S), NEW key
    PROVE  /\ Picked(vs, FirstsOf(vs, key)) \in Seq(S)
           /\ KeysDiffer(Picked(vs, FirstsOf(vs, key)), key)
           /\ \A k \in DOMAIN Picked(vs, FirstsOf(vs, key)) :
                  \E i \in DOMAIN vs : Picked(vs, FirstsOf(vs, key))[k] = vs[i]
           /\ EachKeyKept(vs, Picked(vs, FirstsOf(vs, key)), key)
           /\ KeysDiffer(vs, key) => Picked(vs, FirstsOf(vs, key)) = vs
<1>. DEFINE I == FirstsOf(vs, key)
            out == Picked(vs, I)
<1>1. PICK p : PlacesOf(p, out, vs, Len(vs), I)
  BY PickedPlaces
<1>2. out \in Seq(S)
  BY PickedPlaces
<1>3. KeysDiffer(vs, key) => out = vs
  <2>1. KeysDiffer(vs, key) => \A i \in DOMAIN vs : i \in I
    BY DEF FirstsOf, KeysDiffer
  <2>. HIDE DEF I
  <2>. QED
    BY <2>1, PickedAll
<1>4. DOMAIN vs = 1..Len(vs) /\ Len(vs) \in Nat
  OBVIOUS
<1>5. \A i \in I : /\ i \in 1..Len(vs) /\ key[vs[i]] # <<>>
                   /\ \A j \in 1 .. i - 1 : key[vs[j]] # key[vs[i]]
  BY <1>4 DEF FirstsOf
<1>6. \A i \in DOMAIN vs : key[vs[i]] # <<>> => \E f \in I : key[vs[f]] = key[vs[i]]
  <2>1. SUFFICES ASSUME NEW i \in DOMAIN vs, key[vs[i]] # <<>>
                 PROVE  \E f \in I : key[vs[f]] = key[vs[i]]
    OBVIOUS
  <2>. DEFINE same == {j \in DOMAIN vs : key[vs[j]] = key[vs[i]]}
  <2>2. same \in SUBSET Nat /\ same # {}
    BY <1>4
  <2>3. PICK f \in same : \A j \in same : f <= j
    <3>. HIDE DEF same
    <3>. QED
      BY <2>2, LeastNatural
  <2>4. f \in DOMAIN vs /\ key[vs[f]] = key[vs[i]]
    OBVIOUS
  <2>5. \A j \in 1 .. f - 1 : key[vs[j]] # key[vs[f]]
    <3>1. SUFFICES ASSUME NEW j \in 1 .. f - 1, key[vs[j]] = key[vs[f]] PROVE FALSE
      OBVIOUS
    <3>2. j \in same
      BY <1>4, <2>4, <3>1
    <3>. QED
      BY <1>4, <2>3, <2>4, <3>2
  <2>. QED
    BY <2>1, <2>4, <2>5 DEF FirstsOf
<1>. HIDE DEF I, out
<1>7. DOMAIN out = 1..Len(out) /\ Len(out) \in Nat
  BY <1>2
<1>8. \A k \in DOMAIN out : p[k] \in I /\ out[k] = vs[p[k]] /\ p[k] \in DOMAIN vs
  BY <1>1, <1>4, <1>7 DEF PlacesOf
<1>9. \A j, k \in DOMAIN out : j < k => p[j] < p[k]
  BY <1>1, <1>7 DEF PlacesOf
<1>10. \A i \in I : \E k \in DOMAIN out : p[k] = i
  BY <1>1, <1>5, <1>7 DEF PlacesOf
<1>11. ASSUME NEW j \in DOMAIN out, NEW k \in DOMAIN out, j < k
       PROVE  key[out[j]] # key[out[k]]
  <2>1. p[j] \in 1 .. p[k] - 1
    BY <1>4, <1>8, <1>9, <1>11
  <2>. QED
    BY <1>5, <1>8, <2>1
<1>12. KeysDiffer(out, key)
  <2>1. \A i \in DOMAIN out : key[out[i]] # <<>>
    BY <1>5, <1>8
  <2>2. \A i, j \in DOMAIN out : i < j \/ j < i \/ i = j
    BY <1>7
  <2>. QED
    BY <1>11, <2>1, <2>2 DEF KeysDiffer
<1>13. \A k \in DOMAIN out : \E i \in DOMAIN vs : out[k] = vs[i]
  BY <1>8
<1>14. EachKeyKept(vs, out, key)
  BY <1>6, <1>8, <1>10 DEF EachKeyKept
<1>. QED
  BY <1>2, <1>3, <1>12, <1>13, <1>14 DEF I, out

LocKey     == [v \in Phrase |-> NormLoc(v)]
VehicleKey == [v \in Phrase |-> NormVehicle(v)]

LEMMA UniqByLoc ==
    ASSUME NEW vs \in Seq(Phrase)
    PROVE  /\ UniqKeepOrder(vs, NormLoc) = Picked(vs, FirstsOf(vs, LocKey))
           /\ UniqKeepOrder(vs, NormId) = Picked(vs, FirstsOf(vs, LocKey))
           /\ UniqKeepOrder(vs, NormVehicle) = Picked(vs, FirstsOf(vs, VehicleKey))
<1>1. /\ UniqKeepOrder(vs, NormLoc)
           = Picked(vs, {i \in DOMAIN vs : /\ NormLoc(vs[i]) # <<>>
                                           /\ \A j \in 1 .. i - 1 : NormLoc(vs[j]) # NormLoc(vs[i])})
      /\ UniqKeepOrder(vs, NormId)
           = Picked(vs, {i \in DOMAIN vs : /\ NormLoc(vs[i]) # <<>>
                                           /\ \A j \in 1 .. i - 1 : NormLoc(vs[j]) # NormLoc(vs[i])})
      /\ UniqKeepOrder(vs, NormVehicle)
           = Picked(vs, {i \in DOMAIN vs : /\ NormVehicle(vs[i]) # <<>>
                                           /\ \A j \in 1 .. i - 1 :
                                                  NormVehicle(vs[j]) # NormVehicle(vs[i])})
  BY Zenon DEF UniqKeepOrder, NormId
<1>2. \A i \in DOMAIN vs : /\ vs[i] \in Phrase
                           /\ \A j \in 1 .. i - 1 : j \in DOMAIN vs /\ vs[j] \in Phrase
  OBVIOUS
<1>3. FirstsOf(vs, LocKey)
        = {i \in DOMAIN vs : /\ NormLoc(vs[i]) # <<>>
                             /\ \A j \in 1 .. i - 1 : NormLoc(vs[j]) # NormLoc(vs[i])}
  BY <1>2 DEF FirstsOf, LocKey
<1>4. FirstsOf(vs, VehicleKey)
        = {i \in DOMAIN vs : /\ NormVehicle(vs[i]) # <<>>
                             /\ \A j \in 1 .. i - 1 : NormVehicle(vs[j]) # NormVehicle(vs[i])}
  BY <1>2 DEF FirstsOf, VehicleKey
<1>. QED
  BY <1>1, <1>3, <1>4

LEMMA EmptyForms ==
    NormLoc(<<>>) = <<>> /\ NormVehicle(<<>>) = <<>>
<1>1. <<>> \in Seq({})
  OBVIOUS
<1>. QED
  BY <1>1, NormalForms

\* No more is kept than there is.
LEMMA PickedLength ==
    ASSUME NEW S, NEW s \in Seq(S), NEW I
    PROVE  Len(Picked(s, I)) <= Len(s)
<1>0. PICK g : PicksUp(g, S, s, I)
  BY PickedSteps
<1>1. /\ g \in [0..Len(s) -> Seq(S)] /\ g[0] = <<>> /\ Picked(s, I) = g[Len(s)]
      /\ \A n \in 1..Len(s) : g[n] = IF n \in I THEN Append(g[n - 1], s[n]) ELSE g[n - 1]
  BY <1>0 DEF PicksUp
<1>. DEFINE T == {n \in 0..Len(s) : Len(g[n]) <= n}
<1>2. 0 \in T
  BY <1>1
<1>3. ASSUME NEW n \in 1..Len(s), n - 1 \in T PROVE n \in T
  <2>1. n - 1 \in 0..Len(s) /\ n \in 0..Len(s) /\ s[n] \in S
    OBVIOUS
  <2>2. g[n - 1] \in Seq(S) /\ Len(g[n - 1]) <= n - 1
    BY <1>1, <1>3, <2>1
  <2>3. Len(g[n]) <= n
    <3>1. CASE n \in I
      <4>1. g[n] = Append(g[n - 1], s[n])
        BY <1>1, <3>1
      <4>. QED
        BY <2>1, <2>2, <4>1
    <3>2. CASE n \notin I
      <4>1. g[n] = g[n - 1]
        BY <1>1, <3>2
      <4>. QED
        BY <2>1, <2>2, <4>1
    <3>. QED
      BY <3>1, <3>2
  <2>. QED
    BY <2>1, <2>3
<1>. HIDE DEF T
<1>4. Len(s) \in Nat
  OBVIOUS
<1>5. \A n \in 0..Len(s) : n \in T
  BY <1>2, <1>3, <1>4, StepByStep
<1>. QED
  BY <1>1, <1>4, <1>5 DEF T

\* A list of places, or of ids, as Sanitize leaves it.
CleanLocs(vs) == /\ vs \in Seq(Phrase)
                 /\ \A i \in DOMAIN vs : Trim(vs[i]) = vs[i]
                 /\ KeysDiffer(vs, LocKey)

CleanTypes(vs) == /\ vs \in Seq(Phrase)
                  /\ \A i \in DOMAIN vs : CanonicalLabel(vs[i]) = vs[i]
                  /\ KeysDiffer(vs, VehicleKey)

LEMMA CleanStays ==
    ASSUME NEW vs, CleanLocs(vs)
    PROVE  /\ vs \in Seq(Phrase)
           /\ \A i \in DOMAIN vs : vs[i] \in Phrase /\ vs[i] # <<>> /\ NormLoc(vs[i]) # <<>>
           /\ \A i, j \in DOMAIN vs : NormLoc(vs[i]) = NormLoc(vs[j]) => i = j
           /\ Texts(vs) = vs
           /\ UniqKeepOrder(vs, NormLoc) = vs
           /\ UniqKeepOrder(vs, NormId) = vs
<1>1. vs \in Seq(Phrase) /\ \A i \in DOMAIN vs : vs[i] \in Phrase
  BY DEF CleanLocs
<1>2. /\ \A i \in DOMAIN vs : NormLoc(vs[i]) # <<>>
      /\ \A i, j \in DOMAIN vs : NormLoc(vs[i]) = NormLoc(vs[j]) => i = j
  BY <1>1 DEF CleanLocs, KeysDiffer, LocKey
<1>3. \A i \in DOMAIN vs : vs[i] # <<>>
  BY <1>2, EmptyForms
<1>4. Texts(vs) = vs
  BY <1>1, <1>3, TrimmedStays DEF CleanLocs
<1>5. Picked(vs, FirstsOf(vs, LocKey)) = vs
  BY <1>1, OneOfEach DEF CleanLocs
<1>. QED
  BY <1>1, <1>2, <1>3, <1>4, <1>5, UniqByLoc

LEMMA Cleaned ==
    ASSUME NEW vs \in Seq(Phrase), \A i \in DOMAIN vs : Trim(vs[i]) = vs[i]
    PROVE  /\ CleanLocs(UniqKeepOrder(vs, NormLoc))
           /\ CleanLocs(UniqKeepOrder(vs, NormId))
           /\ Len(UniqKeepOrder(vs, NormLoc)) <= Len(vs)
<1>. DEFINE out == Picked(vs, FirstsOf(vs, LocKey))
<1>1. /\ out \in Seq(Phrase) /\ KeysDiffer(out, LocKey)
      /\ \A k \in DOMAIN out : \E i \in DOMAIN vs : out[k] = vs[i]
  BY OneOfEach
<1>2. Len(out) <= Len(vs)
  BY PickedLength
<1>3. CleanLocs(out)
  BY <1>1 DEF CleanLocs
<1>. QED
  BY <1>2, <1>3, UniqByLoc

LEMMA DestinationsAreClean ==
    ASSUME NEW vs \in Seq(Phrase)
    PROVE  /\ CleanLocs(Destinations(vs)) /\ Len(Destinations(vs)) <= MaxDestinations
           /\ CleanLocs(vs) /\ Len(vs) <= MaxDestinations => Destinations(vs) = vs
<1>. DEFINE all == Texts(vs)
            m == Min({MaxDestinations, Len(all)})
            cut == SubSeq(all, 1, m)
<1>1. all \in Seq(Phrase) /\ \A i \in DOMAIN all : Trim(all[i]) = all[i]
  BY TextsAreTrimmed
<1>. HIDE DEF all
<1>2. m \in 0..Len(all) /\ m <= MaxDestinations /\ (Len(all) <= MaxDestinations => m = Len(all))
  <2>. DEFINE both == {MaxDestinations, Len(all)}
  <2>1. Len(all) \in Nat /\ both \in SUBSET Nat /\ both # {}
    BY <1>1, MaxDestinationsAssumption
  <2>2. Min(both) \in both /\ \A k \in both : Min(both) <= k
    BY <2>1, LeastPlace
  <2>. QED
    BY <2>1, <2>2, MaxDestinationsAssumption
<1>. HIDE DEF m
<1>3. cut \in Seq(Phrase) /\ Len(cut) = m /\ \A i \in DOMAIN cut : cut[i] = all[i] /\ i \in DOMAIN all
  BY <1>1, <1>2
<1>4. Destinations(vs) = UniqKeepOrder(cut, NormLoc)
  BY Zenon DEF Destinations, all, m
<1>5. CleanLocs(vs) /\ Len(vs) <= MaxDestinations => cut = vs
  <2>1. CleanLocs(vs) => all = vs
    BY CleanStays DEF all
  <2>2. SubSeq(vs, 1, Len(vs)) = vs
    OBVIOUS
  <2>3. SUFFICES ASSUME CleanLocs(vs), Len(vs) <= MaxDestinations PROVE cut = vs
    OBVIOUS
  <2>4. all = vs /\ m = Len(vs)
    BY <1>2, <2>1, <2>3
  <2>. QED
    BY <2>2, <2>4
<1>. HIDE DEF cut
<1>6. \A i \in DOMAIN cut : Trim(cut[i]) = cut[i]
  BY <1>1, <1>3
<1>7. CleanLocs(UniqKeepOrder(cut, NormLoc)) /\ Len(UniqKeepOrder(cut, NormLoc)) <= Len(cut)
  BY <1>3, <1>6, Cleaned, Zenon
<1>8. CleanLocs(vs) => UniqKeepOrder(vs, NormLoc) = vs
  BY CleanStays, Zenon
<1>. QED
  BY <1>2, <1>3, <1>4, <1>5, <1>7, <1>8, MaxDestinationsAssumption

LEMMA CanonicalTwice ==
    ASSUME NEW v \in Phrase
    PROVE  CanonicalLabel(v) \in Phrase /\ CanonicalLabel(CanonicalLabel(v)) = CanonicalLabel(v)
<1>. DEFINE n == NormVehicle(v)  std == <<"fuso", "std">>  fuso == <<"fuso">>
<1>1. n \in Phrase /\ NormVehicle(n) = n
  BY NormalForms DEF Phrase
<1>2. \A u : CanonicalLabel(u) = IF NormVehicle(u) = std THEN fuso ELSE NormVehicle(u)
  BY DEF CanonicalLabel, VehicleRuleLabel
<1>3. fuso \in Phrase /\ fuso # std /\ NormVehicle(fuso) = fuso
  <2>. DEFINE I == {i \in DOMAIN fuso : fuso[i] \notin {Blank, Dash}}
              J == {i \in DOMAIN fuso : fuso[i] \notin Capacities}
  <2>6. fuso \in Seq(Word)
    <3>1. "fuso" \in Word
      BY Zenon DEF Word
    <3>2. \A e \in Word : Append(<<>>, e) \in Seq(Word) /\ Append(<<>>, e) = <<e>>
      OBVIOUS
    <3>. QED
      BY <3>1, <3>2
  <2>7. fuso # std
    <3>1. Len(fuso) = 1 /\ Len(std) = 2
      OBVIOUS
    <3>. HIDE DEF fuso, std
    <3>. QED
      BY <3>1
  <2>8. DOMAIN fuso = {1} /\ fuso[1] = "fuso"
    OBVIOUS
  <2>. HIDE DEF fuso
  <2>0. fuso \in Seq(Word) /\ fuso # std /\ DOMAIN fuso = {1} /\ fuso[1] = "fuso"
    BY <2>6, <2>7, <2>8
  <2>9. "fuso" \notin {Blank, Dash} /\ "fuso" \notin Capacities
    BY DEF Blank, Dash, Capacities
  <2>1. (\A i \in DOMAIN fuso : i \in I) /\ (\A i \in DOMAIN fuso : i \in J)
    BY <2>8, <2>9
  <2>2. Picked(fuso, I) = fuso /\ Picked(fuso, J) = fuso
    <3>. HIDE DEF I, J
    <3>. QED
      BY <2>0, <2>1, PickedAll
  <2>3. NormLoc(fuso) = Picked(fuso, I)
    BY Zenon DEF NormLoc, Keep
  <2>4. NormVehicle(fuso) = Picked(NormLoc(fuso), {i \in DOMAIN NormLoc(fuso) :
                                                   NormLoc(fuso)[i] \notin Capacities})
    BY Zenon DEF NormVehicle, Keep
  <2>5. NormVehicle(fuso) = fuso
    <3>. HIDE DEF I
    <3>. QED
      BY <2>2, <2>3, <2>4
  <2>. QED
    BY <2>0, <2>5 DEF Phrase
<1>. HIDE DEF n, std, fuso
<1>4. CanonicalLabel(v) = IF n = std THEN fuso ELSE n
  BY <1>2 DEF n
<1>. QED
  BY <1>1, <1>2, <1>3, <1>4

LEMMA ServiceTypesAreClean ==
    ASSUME NEW vs \in Seq(Phrase)
    PROVE  /\ CleanTypes(ServiceTypes(vs))
           /\ CleanTypes(vs) => ServiceTypes(vs) = vs
<1>. DEFINE labels == Map(CanonicalLabel, vs)
            I == {i \in DOMAIN labels : labels[i] # <<>>}
            kept == Picked(labels, I)
            out == Picked(kept, FirstsOf(kept, VehicleKey))
<1>1. labels = [i \in DOMAIN vs |-> CanonicalLabel(vs[i])]
  BY Zenon DEF Map
<1>2. labels \in Seq(Phrase) /\ \A i \in DOMAIN labels : CanonicalLabel(labels[i]) = labels[i]
  <2>1. \A i \in DOMAIN vs : vs[i] \in Phrase
    OBVIOUS
  <2>2. \A i \in DOMAIN vs : /\ CanonicalLabel(vs[i]) \in Phrase
                             /\ CanonicalLabel(CanonicalLabel(vs[i])) = CanonicalLabel(vs[i])
    BY <2>1, CanonicalTwice
  <2>3. DOMAIN vs = 1..Len(vs) /\ Len(vs) \in Nat
    OBVIOUS
  <2>. QED
    BY <1>1, <2>2, <2>3
<1>3. Keep(labels, LAMBDA v : v # <<>>) = kept
  BY Zenon DEF Keep
<1>4. /\ kept \in Seq(Phrase)
      /\ \A k \in DOMAIN kept : \E i \in DOMAIN labels \cap I : kept[k] = labels[i]
  <2>. HIDE DEF I, labels
  <2>. QED
    BY <1>2, PickedMembers
<1>5. CleanTypes(vs) => kept = vs
  <2>1. SUFFICES ASSUME CleanTypes(vs) PROVE kept = vs
    OBVIOUS
  <2>2. labels = vs
    BY <1>1, <2>1 DEF CleanTypes
  <2>3. \A i \in DOMAIN labels : i \in I
    <3>1. \A i \in DOMAIN vs : vs[i] \in Phrase /\ NormVehicle(vs[i]) # <<>>
      <4>1. \A i \in DOMAIN vs : vs[i] \in Phrase
        OBVIOUS
      <4>. QED
        BY <2>1, <4>1 DEF CleanTypes, KeysDiffer, VehicleKey
    <3>2. \A i \in DOMAIN vs : vs[i] # <<>>
      BY <3>1, EmptyForms
    <3>. HIDE DEF labels
    <3>. QED
      BY <2>2, <3>2
  <2>. HIDE DEF I, labels
  <2>. QED
    BY <2>2, <2>3, PickedAll
<1>6. ServiceTypes(vs) = UniqKeepOrder(Keep(labels, LAMBDA v : v # <<>>), NormVehicle)
  BY Zenon DEF ServiceTypes
<1>7. ServiceTypes(vs) = UniqKeepOrder(kept, NormVehicle)
  BY <1>3, <1>6, Zenon
<1>8. \A i \in DOMAIN kept : CanonicalLabel(kept[i]) = kept[i]
  BY <1>2, <1>4
<1>. HIDE DEF kept
<1>9. ServiceTypes(vs) = out
  BY <1>4, <1>7, UniqByLoc
<1>10. /\ out \in Seq(Phrase) /\ KeysDiffer(out, VehicleKey)
       /\ \A k \in DOMAIN out : \E i \in DOMAIN kept : out[k] = kept[i]
       /\ KeysDiffer(kept, VehicleKey) => out = kept
  BY <1>4, OneOfEach
<1>11. CleanTypes(out)
  BY <1>8, <1>10 DEF CleanTypes
<1>. QED
  BY <1>5, <1>9, <1>10, <1>11 DEF CleanTypes

(***************************************************************************)
(* Rules.  A settled rule is one that sanitize_accept_rules leaves alone.  *)
(***************************************************************************)
LEMMA GreaterOfTwo ==
    ASSUME NEW a \in Int, NEW b \in Int
    PROVE  /\ Max({a, b}) = IF a <= b THEN b ELSE a
           /\ Min({a, b}) = IF a <= b THEN a ELSE b
<1>1. \E x \in {a, b} : \A y \in {a, b} : x >= y
  OBVIOUS
<1>2. \E x \in {a, b} : \A y \in {a, b} : x <= y
  OBVIOUS
<1>3. Max({a, b}) \in {a, b} /\ \A y \in {a, b} : Max({a, b}) >= y
  BY <1>1, Zenon DEF Max
<1>4. Min({a, b}) \in {a, b} /\ \A y \in {a, b} : Min({a, b}) <= y
  BY <1>2, Zenon DEF Min
<1>. QED
  BY <1>3, <1>4

AtMostOne(S) == \A x, y \in S : x = y

LEMMA CountOf ==
    ASSUME NEW S \in SUBSET Int, AtMostOne(S)
    PROVE  /\ Max({0} \cup S) \in Nat
           /\ \A m \in Nat : Max({0} \cup {m}) = m
           /\ {NonNeg(x) : x \in S} \in SUBSET Nat
           /\ AtMostOne({NonNeg(x) : x \in S})
           /\ S \subseteq Nat => {NonNeg(x) : x \in S} = S
<1>1. \A x \in Int : NonNeg(x) \in Nat /\ (x \in Nat => NonNeg(x) = x)
  BY GreaterOfTwo DEF NonNeg
<1>2. Max({0} \cup S) \in Nat
  <2>1. CASE S = {}
    <3>1. {0} \cup S = {0, 0}
      BY <2>1
    <3>. QED
      BY <3>1, GreaterOfTwo
  <2>2. CASE S # {}
    <3>1. PICK x \in S : TRUE
      BY <2>2
    <3>2. {0} \cup S = {0, x}
      BY <3>1 DEF AtMostOne
    <3>. QED
      BY <3>1, <3>2, GreaterOfTwo
  <2>. QED
    BY <2>1, <2>2
<1>3. \A m \in Nat : Max({0} \cup {m}) = m
  <2>1. \A m \in Nat : {0} \cup {m} = {0, m}
    OBVIOUS
  <2>. QED
    BY <2>1, GreaterOfTwo
<1>4. {NonNeg(x) : x \in S} \in SUBSET Nat /\ AtMostOne({NonNeg(x) : x \in S})
  BY <1>1 DEF AtMostOne
<1>5. S \subseteq Nat => {NonNeg(x) : x \in S} = S
  BY <1>1
<1>. QED
  BY <1>2, <1>3, <1>4, <1>5

Priorities == -999..999

RuleRecord ==
    [enabled : BOOLEAN, priority : Priorities, mode : {"booking_id", "route", "filter"},
     service_types : Seq(Phrase), max_weight : SUBSET Nat, coc_only : BOOLEAN,
     non_coc_only : BOOLEAN, max_cod_amount : SUBSET Nat, booking_ids : Seq(Phrase),
     origin : Phrase, destinations : Seq(Phrase), booking_type : {"all", "spxid", "reguler"},
     shift_types : SUBSET Nat, trip_types : SUBSET Nat, match_mode : {"strict", "flexible"},
     min_deadline_min : SUBSET Nat, max_accept_count : Nat, accepted_count : Nat]

Settled(r) ==
    /\ r \in RuleRecord
    /\ ~(r.coc_only /\ r.non_coc_only)
    /\ AtMostOne(r.max_weight) /\ AtMostOne(r.max_cod_amount) /\ AtMostOne(r.min_deadline_min)
    /\ Trim(r.origin) = r.origin /\ Words(r.origin)
    /\ CleanTypes(r.service_types) /\ CleanLocs(r.booking_ids) /\ CleanLocs(r.destinations)
    /\ Len(r.destinations) <= MaxDestinations

LEMMA Sanitized ==
    ASSUME NEW raw, RawRule(raw)
    PROVE  Settled(Sanitize(raw))
<1>. DEFINE r == Sanitize(raw)
<1>1. /\ raw.enabled \in BOOLEAN /\ raw.coc_only \in BOOLEAN /\ raw.non_coc_only \in BOOLEAN
      /\ raw.priority \in Int
  BY DEF RawRule
<1>2. /\ raw.origin \in Phrase /\ raw.service_types \in Seq(Phrase)
      /\ raw.booking_ids \in Seq(Phrase) /\ raw.destinations \in Seq(Phrase)
  <2>1. \A t \in Seq(STRING) : t \in Phrase
    BY DEF Phrase, Word
  <2>2. \A ts \in Seq(Seq(STRING)) : ts \in Seq(Phrase)
    BY <2>1
  <2>. QED
    BY <2>1, <2>2 DEF RawRule
<1>3. \A S \in {raw.max_weight, raw.max_cod_amount, raw.min_deadline_min,
                raw.max_accept_count, raw.accepted_count} : S \in SUBSET Int /\ AtMostOne(S)
  BY DEF RawRule, AtMostOne
<1>4. /\ r.max_weight \in SUBSET Nat /\ AtMostOne(r.max_weight)
      /\ r.max_cod_amount \in SUBSET Nat /\ AtMostOne(r.max_cod_amount)
      /\ r.min_deadline_min \in SUBSET Nat /\ AtMostOne(r.min_deadline_min)
      /\ r.max_accept_count \in Nat /\ r.accepted_count \in Nat
  <2>1. /\ r.max_weight = {NonNeg(x) : x \in raw.max_weight}
        /\ r.max_cod_amount = {NonNeg(x) : x \in raw.max_cod_amount}
        /\ r.min_deadline_min = {NonNeg(x) : x \in raw.min_deadline_min}
        /\ r.max_accept_count = Max({0} \cup raw.max_accept_count)
        /\ r.accepted_count = Max({0} \cup raw.accepted_count)
    BY DEF Sanitize
  <2>2. \A S \in SUBSET Int : AtMostOne(S) =>
            /\ Max({0} \cup S) \in Nat
            /\ {NonNeg(x) : x \in S} \in SUBSET Nat
            /\ AtMostOne({NonNeg(x) : x \in S})
    BY CountOf
  <2>. HIDE DEF r
  <2>. QED
    BY <1>3, <2>1, <2>2
<1>5. r.shift_types \in SUBSET Nat /\ r.trip_types \in SUBSET Nat
  <2>1. /\ r.shift_types = {v \in raw.shift_types : v >= 0}
        /\ r.trip_types = {v \in raw.trip_types : v >= 0}
    BY DEF Sanitize, OnlyNonNeg
  <2>2. \A v \in raw.shift_types \cup raw.trip_types : v \in Int
    BY DEF RawRule
  <2>. HIDE DEF r
  <2>. QED
    BY <2>1, <2>2
<1>6. r.priority \in Priorities
  <2>. DEFINE top == 999  low == -999  p == Min({top, raw.priority})
  <2>1. r.priority = Max({low, p})
    BY DEF Sanitize
  <2>2. top = 999 /\ low = -999 /\ top \in Int /\ low \in Int
    OBVIOUS
  <2>. HIDE DEF top, low, r
  <2>6. raw.priority \in Int /\ top \in Int /\ low \in Int
    BY <1>1, <2>2
  <2>3. p = IF top <= raw.priority THEN top ELSE raw.priority
    BY <2>6, GreaterOfTwo, Zenon
  <2>. HIDE DEF p
  <2>4. p \in Int /\ p <= 999
    BY <1>1, <2>2, <2>3
  <2>5. Max({low, p}) = IF low <= p THEN p ELSE low
    BY <2>4, <2>6, GreaterOfTwo, Zenon
  <2>. QED
    BY <2>1, <2>2, <2>4, <2>5 DEF Priorities
<1>7. /\ r.mode \in {"booking_id", "route", "filter"}
      /\ r.booking_type \in {"all", "spxid", "reguler"}
      /\ r.match_mode \in {"strict", "flexible"}
      /\ r.enabled \in BOOLEAN /\ r.coc_only \in BOOLEAN /\ r.non_coc_only \in BOOLEAN
      /\ ~(r.coc_only /\ r.non_coc_only)
  BY <1>1 DEF Sanitize, ModeOf, BookingTypeFilter, MatchModeOf
<1>8. r.origin \in Phrase /\ Trim(r.origin) = r.origin /\ Words(r.origin)
  <2>1. r.origin = Trim(raw.origin)
    BY DEF Sanitize
  <2>2. raw.origin \in Seq(STRING)
    BY DEF RawRule
  <2>. HIDE DEF r
  <2>3. r.origin \in Seq(STRING) /\ Trim(r.origin) = r.origin
    BY <2>1, <2>2, TrimTwice
  <2>4. r.origin \in Phrase
    BY <1>2, <2>1, TrimTwice DEF Phrase
  <2>. QED
    BY <2>3, <2>4 DEF Words
<1>9. CleanTypes(r.service_types) /\ r.service_types \in Seq(Phrase)
  BY <1>2, ServiceTypesAreClean DEF Sanitize, CleanTypes
<1>10. /\ CleanLocs(r.destinations) /\ r.destinations \in Seq(Phrase)
       /\ Len(r.destinations) <= MaxDestinations
  BY <1>2, DestinationsAreClean DEF Sanitize, CleanLocs
<1>11. CleanLocs(r.booking_ids) /\ r.booking_ids \in Seq(Phrase)
  <2>1. CleanLocs(UniqKeepOrder(Texts(raw.booking_ids), NormId))
    BY <1>2, TextsAreTrimmed, Cleaned
  <2>. QED
    BY <2>1 DEF Sanitize, CleanLocs
<1>12. r \in RuleRecord
  <2>1. r = [enabled |-> r.enabled, priority |-> r.priority, mode |-> r.mode,
             service_types |-> r.service_types, max_weight |-> r.max_weight,
             coc_only |-> r.coc_only, non_coc_only |-> r.non_coc_only,
             max_cod_amount |-> r.max_cod_amount, booking_ids |-> r.booking_ids,
             origin |-> r.origin, destinations |-> r.destinations,
             booking_type |-> r.booking_type, shift_types |-> r.shift_types,
             trip_types |-> r.trip_types, match_mode |-> r.match_mode,
             min_deadline_min |-> r.min_deadline_min,
             max_accept_count |-> r.max_accept_count, accepted_count |-> r.accepted_count]
    BY DEF Sanitize
  <2>. HIDE DEF r
  <2>. QED
    BY <1>4, <1>5, <1>6, <1>7, <1>8, <1>9, <1>10, <1>11, <2>1 DEF RuleRecord
<1>. HIDE DEF r
<1>13. Settled(r)
  BY <1>4, <1>7, <1>8, <1>9, <1>10, <1>11, <1>12 DEF Settled
<1>. QED
  BY <1>13 DEF r

Clamp(n) == Max({-999, Min({999, n})})

LEMMA ClampStays ==
    ASSUME NEW x \in Priorities
    PROVE  Clamp(x) = x
<1>. DEFINE top == 999  low == -999  p == Min({top, x})
<1>1. top \in Int /\ low \in Int /\ x \in Int /\ x <= top /\ low <= x
  BY DEF Priorities
<1>. HIDE DEF top, low
<1>2. p = IF top <= x THEN top ELSE x
  BY <1>1, GreaterOfTwo, Zenon
<1>3. p = x
  BY <1>1, <1>2
<1>4. Max({low, x}) = IF low <= x THEN x ELSE low
  BY <1>1, GreaterOfTwo, Zenon
<1>5. Max({low, p}) = x
  BY <1>1, <1>3, <1>4
<1>. QED
  BY <1>5 DEF top, low, Clamp

\* The page may send back what it was shown: nothing is changed.
LEMMA EchoIsKept ==
    ASSUME NEW r, Settled(r)
    PROVE  Sanitize(Echo(r)) = r
<1>. DEFINE e == Echo(r)  t == Sanitize(e)
<1>1. r \in RuleRecord
  BY DEF Settled
<1>2. /\ r.priority \in Priorities /\ r.mode \in {"booking_id", "route", "filter"}
      /\ r.booking_type \in {"all", "spxid", "reguler"}
      /\ r.match_mode \in {"strict", "flexible"}
      /\ r.coc_only \in BOOLEAN /\ r.non_coc_only \in BOOLEAN
      /\ r.max_weight \in SUBSET Nat /\ r.max_cod_amount \in SUBSET Nat
      /\ r.min_deadline_min \in SUBSET Nat
      /\ r.shift_types \in SUBSET Nat /\ r.trip_types \in SUBSET Nat
      /\ r.max_accept_count \in Nat /\ r.accepted_count \in Nat
  BY <1>1 DEF RuleRecord
<1>3. /\ e.enabled = r.enabled /\ e.priority = r.priority /\ e.mode = r.mode
      /\ e.service_types = r.service_types /\ e.max_weight = r.max_weight
      /\ e.coc_only = r.coc_only /\ e.non_coc_only = r.non_coc_only
      /\ e.max_cod_amount = r.max_cod_amount /\ e.booking_ids = r.booking_ids
      /\ e.origin = r.origin /\ e.destinations = r.destinations
      /\ e.booking_type = r.booking_type /\ e.shift_types = r.shift_types
      /\ e.trip_types = r.trip_types /\ e.match_mode = r.match_mode
      /\ e.min_deadline_min = r.min_deadline_min
      /\ e.max_accept_count = {r.max_accept_count}
      /\ e.accepted_count = {r.accepted_count}
  BY <1>1 DEF RuleRecord, Echo
<1>. HIDE DEF e
<1>. DEFINE nc == e.non_coc_only /\ ~e.coc_only
            ids == UniqKeepOrder(Texts(e.booking_ids), NormId)
            prio == Max({-999, Min({999, e.priority})})
<1>4. prio = r.priority
  <2>1. e.priority \in Priorities /\ e.priority = r.priority
    BY <1>2, <1>3
  <2>2. Clamp(e.priority) = e.priority
    BY <2>1, ClampStays
  <2>3. prio = Clamp(e.priority)
    BY Zenon DEF Clamp
  <2>. HIDE DEF prio
  <2>. QED
    BY <2>1, <2>2, <2>3
<1>5. /\ {NonNeg(w) : w \in r.max_weight} = r.max_weight
      /\ {NonNeg(w) : w \in r.max_cod_amount} = r.max_cod_amount
      /\ {NonNeg(w) : w \in r.min_deadline_min} = r.min_deadline_min
      /\ Max({0} \cup {r.max_accept_count}) = r.max_accept_count
      /\ Max({0} \cup {r.accepted_count}) = r.accepted_count
  <2>1. \A S \in SUBSET Nat : AtMostOne(S) => {NonNeg(x) : x \in S} = S
    <3>1. \A S \in SUBSET Nat : S \in SUBSET Int /\ S \subseteq Nat
      OBVIOUS
    <3>. QED
      BY <3>1, CountOf
  <2>2. \A m \in Nat : Max({0} \cup {m}) = m
    <3>1. {} \in SUBSET Int /\ AtMostOne({})
      BY DEF AtMostOne
    <3>. QED
      BY <3>1, CountOf
  <2>3. AtMostOne(r.max_weight) /\ AtMostOne(r.max_cod_amount) /\ AtMostOne(r.min_deadline_min)
    BY DEF Settled
  <2>. QED
    BY <1>2, <2>1, <2>2, <2>3, Zenon
<1>6. /\ ServiceTypes(r.service_types) = r.service_types
      /\ Destinations(r.destinations) = r.destinations
      /\ UniqKeepOrder(Texts(r.booking_ids), NormId) = r.booking_ids
      /\ Trim(r.origin) = r.origin
  <2>1. /\ CleanTypes(r.service_types) /\ CleanLocs(r.destinations) /\ CleanLocs(r.booking_ids)
        /\ Len(r.destinations) <= MaxDestinations /\ Trim(r.origin) = r.origin
    BY DEF Settled
  <2>2. r.service_types \in Seq(Phrase) /\ r.destinations \in Seq(Phrase)
    BY <2>1 DEF CleanTypes, CleanLocs
  <2>3. Texts(r.booking_ids) = r.booking_ids /\ UniqKeepOrder(r.booking_ids, NormId) = r.booking_ids
    BY <2>1, CleanStays
  <2>4. UniqKeepOrder(Texts(r.booking_ids), NormId) = r.booking_ids
    BY <2>3, Zenon
  <2>. QED
    BY <2>1, <2>2, <2>4, ServiceTypesAreClean, DestinationsAreClean
<1>7. /\ ModeOf(r.mode) = r.mode /\ BookingTypeFilter(r.booking_type) = r.booking_type
      /\ MatchModeOf(r.match_mode) = r.match_mode
      /\ (r.non_coc_only /\ ~r.coc_only) = r.non_coc_only
      /\ OnlyNonNeg(r.shift_types) = r.shift_types /\ OnlyNonNeg(r.trip_types) = r.trip_types
  <2>1. (r.non_coc_only /\ ~r.coc_only) = r.non_coc_only
    BY <1>2 DEF Settled
  <2>2. ASSUME NEW S \in SUBSET Nat PROVE OnlyNonNeg(S) = S
    <3>1. \A v \in S : v >= 0
      OBVIOUS
    <3>. QED
      BY <3>1, Zenon DEF OnlyNonNeg
  <2>. QED
    BY <1>2, <2>1, <2>2 DEF ModeOf, BookingTypeFilter, MatchModeOf
<1>8. t = [enabled          |-> e.enabled,
           priority         |-> prio,
           mode             |-> ModeOf(e.mode),
           service_types    |-> ServiceTypes(e.service_types),
           max_weight       |-> {NonNeg(w) : w \in e.max_weight},
           coc_only         |-> e.coc_only,
           non_coc_only     |-> nc,
           max_cod_amount   |-> {NonNeg(a) : a \in e.max_cod_amount},
           booking_ids      |-> ids,
           origin           |-> Trim(e.origin),
           destinations     |-> Destinations(e.destinations),
           booking_type     |-> BookingTypeFilter(e.booking_type),
           shift_types      |-> OnlyNonNeg(e.shift_types),
           trip_types       |-> OnlyNonNeg(e.trip_types),
           match_mode       |-> MatchModeOf(e.match_mode),
           min_deadline_min |-> {NonNeg(m) : m \in e.min_deadline_min},
           max_accept_count |-> Max({0} \cup e.max_accept_count),
           accepted_count   |-> Max({0} \cup e.accepted_count)]
  BY Zenon DEF Sanitize
<1>9. /\ {NonNeg(w) : w \in e.max_weight} = r.max_weight
      /\ {NonNeg(a) : a \in e.max_cod_amount} = r.max_cod_amount
      /\ {NonNeg(m) : m \in e.min_deadline_min} = r.min_deadline_min
  BY <1>3, <1>5
<1>10. /\ prio = r.priority
       /\ Max({0} \cup e.max_accept_count) = r.max_accept_count
       /\ Max({0} \cup e.accepted_count) = r.accepted_count
  <2>. HIDE DEF prio
  <2>1. prio = r.priority
    BY <1>4
  <2>2. e.max_accept_count = {r.max_accept_count} /\ e.accepted_count = {r.accepted_count}
    BY <1>3
  <2>. QED
    BY <1>5, <2>1, <2>2, Zenon
<1>11. /\ ModeOf(e.mode) = r.mode /\ ServiceTypes(e.service_types) = r.service_types
       /\ ids = r.booking_ids
       /\ Trim(e.origin) = r.origin /\ Destinations(e.destinations) = r.destinations
       /\ BookingTypeFilter(e.booking_type) = r.booking_type
       /\ OnlyNonNeg(e.shift_types) = r.shift_types /\ OnlyNonNeg(e.trip_types) = r.trip_types
       /\ MatchModeOf(e.match_mode) = r.match_mode
       /\ nc = r.non_coc_only
       /\ e.enabled = r.enabled /\ e.coc_only = r.coc_only
  <2>0. e.non_coc_only = r.non_coc_only /\ e.coc_only = r.coc_only
    BY <1>3
  <2>1. (e.non_coc_only /\ ~e.coc_only) = (r.non_coc_only /\ ~r.coc_only)
    BY <2>0, Zenon
  <2>2. ids = r.booking_ids
    <3>1. e.booking_ids = r.booking_ids
      BY <1>3
    <3>. QED
      BY <1>6, <3>1, Zenon
  <2>3. nc = r.non_coc_only
    BY <1>7, <2>1, Zenon
  <2>. HIDE DEF nc, ids
  <2>4. /\ ServiceTypes(r.service_types) = r.service_types
        /\ Destinations(r.destinations) = r.destinations /\ Trim(r.origin) = r.origin
    BY <1>6, Zenon
  <2>5. /\ ModeOf(r.mode) = r.mode /\ BookingTypeFilter(r.booking_type) = r.booking_type
        /\ MatchModeOf(r.match_mode) = r.match_mode
        /\ OnlyNonNeg(r.shift_types) = r.shift_types /\ OnlyNonNeg(r.trip_types) = r.trip_types
    BY <1>7, Zenon
  <2>. QED
    BY <1>3, <2>2, <2>3, <2>4, <2>5
<1>. HIDE DEF nc, ids, prio
<1>12. t = [enabled |-> r.enabled, priority |-> r.priority, mode |-> r.mode,
           service_types |-> r.service_types, max_weight |-> r.max_weight,
           coc_only |-> r.coc_only, non_coc_only |-> r.non_coc_only,
           max_cod_amount |-> r.max_cod_amount, booking_ids |-> r.booking_ids,
           origin |-> r.origin, destinations |-> r.destinations,
           booking_type |-> r.booking_type, shift_types |-> r.shift_types,
           trip_types |-> r.trip_types, match_mode |-> r.match_mode,
           min_deadline_min |-> r.min_deadline_min,
           max_accept_count |-> r.max_accept_count, accepted_count |-> r.accepted_count]
  BY <1>8, <1>9, <1>10, <1>11
<1>. HIDE DEF t
<1>13. t = r
  BY <1>1, <1>12 DEF RuleRecord
<1>. QED
  BY <1>13 DEF t, e

(***************************************************************************)
(* Collapsing a list                                                       *)
(***************************************************************************)
SettledRules == {r \in RuleRecord : Settled(r)}

LEMMA SettledFields ==
    ASSUME NEW r \in SettledRules
    PROVE  /\ r \in RuleRecord /\ Settled(r)
           /\ r.enabled \in BOOLEAN /\ r.mode \in {"booking_id", "route", "filter"}
           /\ r.max_accept_count \in Nat /\ r.accepted_count \in Nat
           /\ CleanLocs(r.booking_ids) /\ CleanLocs(r.destinations)
           /\ r.booking_ids \in Seq(Phrase) /\ r.destinations \in Seq(Phrase)
<1>1. r \in RuleRecord /\ Settled(r)
  BY DEF SettledRules
<1>2. /\ r.enabled \in BOOLEAN /\ r.mode \in {"booking_id", "route", "filter"}
      /\ r.max_accept_count \in Nat /\ r.accepted_count \in Nat
  BY <1>1 DEF RuleRecord
<1>3. CleanLocs(r.booking_ids) /\ CleanLocs(r.destinations)
  BY <1>1 DEF Settled
<1>. QED
  BY <1>1, <1>2, <1>3 DEF CleanLocs

\* The changes that collapsing, charging and loading make to a rule.
LEMMA SettledChanges ==
    ASSUME NEW r \in SettledRules
    PROVE  /\ [r EXCEPT !.destinations = UniqKeepOrder(@, NormLoc)] = r
           /\ \A ids : CleanLocs(ids) =>
                  /\ [r EXCEPT !.booking_ids = ids] \in SettledRules
                  /\ [r EXCEPT !.booking_ids = ids].booking_ids = ids
                  /\ [r EXCEPT !.booking_ids = ids].mode = r.mode
                  /\ [r EXCEPT !.booking_ids = ids].enabled = r.enabled
           /\ [r EXCEPT !.booking_ids = r.booking_ids] = r
           /\ \A m, a \in Nat, on \in BOOLEAN :
                  [r EXCEPT !.max_accept_count = m, !.accepted_count = a, !.enabled = on]
                      \in SettledRules
<1>1. r \in RuleRecord /\ Settled(r) /\ CleanLocs(r.destinations)
  BY SettledFields
<1>2. [r EXCEPT !.destinations = UniqKeepOrder(@, NormLoc)] = r
  <2>1. UniqKeepOrder(r.destinations, NormLoc) = r.destinations
    BY <1>1, CleanStays
  <2>2. [r EXCEPT !.destinations = UniqKeepOrder(@, NormLoc)]
            = [r EXCEPT !.destinations = r.destinations]
    BY <2>1, Zenon
  <2>3. [r EXCEPT !.destinations = r.destinations] = r
    BY <1>1 DEF RuleRecord
  <2>. QED
    BY <2>2, <2>3, Zenon
<1>3. ASSUME NEW ids, CleanLocs(ids)
      PROVE  /\ [r EXCEPT !.booking_ids = ids] \in SettledRules
             /\ [r EXCEPT !.booking_ids = ids].booking_ids = ids
             /\ [r EXCEPT !.booking_ids = ids].mode = r.mode
             /\ [r EXCEPT !.booking_ids = ids].enabled = r.enabled
  <2>. DEFINE t == [r EXCEPT !.booking_ids = ids]
  <2>0. ids \in Seq(Phrase)
    BY <1>3 DEF CleanLocs
  <2>1. t \in RuleRecord /\ t.booking_ids = ids
    BY <1>1, <2>0 DEF RuleRecord
  <2>2. /\ t.coc_only = r.coc_only /\ t.non_coc_only = r.non_coc_only
        /\ t.max_weight = r.max_weight /\ t.max_cod_amount = r.max_cod_amount
        /\ t.min_deadline_min = r.min_deadline_min /\ t.origin = r.origin
        /\ t.service_types = r.service_types /\ t.destinations = r.destinations
        /\ t.mode = r.mode /\ t.enabled = r.enabled
    BY <1>1 DEF RuleRecord
  <2>. HIDE DEF t
  <2>3. Settled(t)
    BY <1>1, <1>3, <2>1, <2>2 DEF Settled
  <2>4. t \in SettledRules
    BY <2>1, <2>3 DEF SettledRules
  <2>. QED
    BY <2>1, <2>2, <2>4 DEF t
<1>4. ASSUME NEW m \in Nat, NEW a \in Nat, NEW on \in BOOLEAN
      PROVE  [r EXCEPT !.max_accept_count = m, !.accepted_count = a, !.enabled = on]
                 \in SettledRules
  <2>. DEFINE t == [r EXCEPT !.max_accept_count = m, !.accepted_count = a, !.enabled = on]
  <2>1. t \in RuleRecord
    BY <1>1 DEF RuleRecord
  <2>2. /\ t.coc_only = r.coc_only /\ t.non_coc_only = r.non_coc_only
        /\ t.max_weight = r.max_weight /\ t.max_cod_amount = r.max_cod_amount
        /\ t.min_deadline_min = r.min_deadline_min /\ t.origin = r.origin
        /\ t.service_types = r.service_types /\ t.destinations = r.destinations
        /\ t.booking_ids = r.booking_ids
    BY <1>1 DEF RuleRecord
  <2>. HIDE DEF t
  <2>3. Settled(t)
    BY <1>1, <2>1, <2>2 DEF Settled
  <2>4. t \in SettledRules
    BY <2>1, <2>3 DEF SettledRules
  <2>. QED
    BY <2>4 DEF t
<1>5. [r EXCEPT !.booking_ids = r.booking_ids] = r
  BY <1>1 DEF RuleRecord
<1>. QED
  BY <1>2, <1>3, <1>4, <1>5, Zenon

Claimed(rs, i) == {id \in Phrase : \E j \in DOMAIN rs :
                       ClaimsBefore(rs, j, i) /\ id \in IdsOf(rs[j])}

LEMMA IdsAre ==
    ASSUME NEW r \in SettledRules
    PROVE  /\ IdsOf(r) = {NormLoc(r.booking_ids[k]) : k \in DOMAIN r.booking_ids}
           /\ IdsOf(r) \subseteq Phrase \ {<<>>}
<1>1. IdsOf(r) = {NormLoc(r.booking_ids[k]) : k \in DOMAIN r.booking_ids}
  BY Zenon DEF IdsOf, NormId
<1>2. \A k \in DOMAIN r.booking_ids : /\ r.booking_ids[k] \in Phrase
                                      /\ NormLoc(r.booking_ids[k]) # <<>>
  BY SettledFields, CleanStays
<1>3. \A k \in DOMAIN r.booking_ids : NormLoc(r.booking_ids[k]) \in Phrase
  BY <1>2, NormalForms DEF Phrase
<1>. QED
  BY <1>1, <1>2, <1>3

\* The ids a rule keeps are its own but those an earlier rule claims.
LEMMA KeptIdsAre ==
    ASSUME NEW rs \in Seq(SettledRules), NEW i \in DOMAIN rs
    PROVE  /\ CleanLocs(KeptIds(rs, i))
           /\ {NormLoc(KeptIds(rs, i)[k]) : k \in DOMAIN KeptIds(rs, i)}
                  = IdsOf(rs[i]) \ Claimed(rs, i)
           /\ IdsOf(rs[i]) \cap Claimed(rs, i) = {} => KeptIds(rs, i) = rs[i].booking_ids
<1>. DEFINE own == rs[i].booking_ids
            claimed == UNION {IdsOf(rs[j]) : j \in {k \in DOMAIN rs : ClaimsBefore(rs, k, i)}}
            I == {k \in DOMAIN own : NormId(own[k]) \notin claimed}
            kept == Picked(own, I)
            out == Picked(kept, FirstsOf(kept, LocKey))
<1>1. rs[i] \in SettledRules /\ \A j \in DOMAIN rs : rs[j] \in SettledRules
  OBVIOUS
<1>2. own \in Seq(Phrase) /\ CleanLocs(own)
  BY <1>1, SettledFields
<1>3. IdsOf(rs[i]) = {NormLoc(own[k]) : k \in DOMAIN own}
  BY <1>1, IdsAre
<1>4. claimed = Claimed(rs, i)
  <2>1. \A j \in DOMAIN rs : IdsOf(rs[j]) \subseteq Phrase
    BY <1>1, IdsAre
  <2>. QED
    BY <2>1 DEF Claimed
<1>5. KeptIds(rs, i) = UniqKeepOrder(Keep(own, LAMBDA b : NormId(b) \notin claimed), NormId)
  BY Zenon DEF KeptIds
<1>6. Keep(own, LAMBDA b : NormId(b) \notin claimed) = kept
  BY Zenon DEF Keep
<1>7. KeptIds(rs, i) = UniqKeepOrder(kept, NormId)
  BY <1>5, <1>6, Zenon
<1>. HIDE DEF claimed, own
<1>8. I = {k \in DOMAIN own : NormLoc(own[k]) \notin claimed}
  BY Zenon DEF NormId
<1>. HIDE DEF I
<1>9. /\ kept \in Seq(Phrase)
      /\ \A k \in DOMAIN kept : \E j \in DOMAIN own \cap I : kept[k] = own[j]
      /\ \A j \in DOMAIN own \cap I : \E k \in DOMAIN kept : kept[k] = own[j]
  BY <1>2, PickedMembers
<1>10. (\A k \in DOMAIN own : k \in I) => kept = own
  BY <1>2, PickedAll
<1>. HIDE DEF kept
<1>11. \A k \in DOMAIN kept : Trim(kept[k]) = kept[k]
  BY <1>2, <1>9 DEF CleanLocs
<1>12. KeptIds(rs, i) = out
  BY <1>7, <1>9, UniqByLoc
<1>13. CleanLocs(KeptIds(rs, i))
  BY <1>7, <1>9, <1>11, Cleaned, Zenon
<1>14. /\ out \in Seq(Phrase)
       /\ \A k \in DOMAIN out : \E j \in DOMAIN kept : out[k] = kept[j]
       /\ \A j \in DOMAIN kept : LocKey[kept[j]] # <<>> =>
              \E k \in DOMAIN out : LocKey[out[k]] = LocKey[kept[j]]
       /\ KeysDiffer(kept, LocKey) => out = kept
  <2>1. kept \in Seq(Phrase)
    BY <1>9
  <2>2. out \in Seq(Phrase)
    BY <2>1, OneOfEach
  <2>3. \A k \in DOMAIN out : \E j \in DOMAIN kept : out[k] = kept[j]
    BY <2>1, OneOfEach
  <2>4. \A j \in DOMAIN kept : LocKey[kept[j]] # <<>> =>
              \E k \in DOMAIN out : LocKey[out[k]] = LocKey[kept[j]]
    <3>1. EachKeyKept(kept, Picked(kept, FirstsOf(kept, LocKey)), LocKey)
      BY <2>1, OneOfEach
    <3>. QED
      BY <3>1 DEF EachKeyKept
  <2>5. KeysDiffer(kept, LocKey) => out = kept
    BY <2>1, OneOfEach
  <2>. QED
    BY <2>2, <2>3, <2>4, <2>5
<1>. HIDE DEF out
<1>15. /\ \A k \in DOMAIN out : out[k] \in Phrase
       /\ \A k \in DOMAIN kept : kept[k] \in Phrase
       /\ \A k \in DOMAIN own : own[k] \in Phrase /\ NormLoc(own[k]) # <<>>
  <2>1. \A s \in Seq(Phrase) : \A k \in DOMAIN s : s[k] \in Phrase
    OBVIOUS
  <2>2. kept \in Seq(Phrase) /\ out \in Seq(Phrase)
    BY <1>9, <1>14
  <2>3. \A k \in DOMAIN own : own[k] \in Phrase /\ NormLoc(own[k]) # <<>>
    BY <1>2, CleanStays
  <2>. QED
    BY <2>1, <2>2, <2>3
<1>16. \A j \in DOMAIN kept : NormLoc(kept[j]) # <<>> =>
           \E k \in DOMAIN out : NormLoc(out[k]) = NormLoc(kept[j])
  BY <1>14, <1>15 DEF LocKey
<1>17. {NormLoc(out[k]) : k \in DOMAIN out} = IdsOf(rs[i]) \ claimed
  <2>1. \A k \in DOMAIN out : \E j \in DOMAIN own \cap I : out[k] = own[j]
    BY <1>9, <1>14
  <2>2. \A k \in DOMAIN out : NormLoc(out[k]) \in IdsOf(rs[i]) \ claimed
    BY <1>3, <1>8, <2>1
  <2>3. ASSUME NEW id \in IdsOf(rs[i]) \ claimed
        PROVE  \E k \in DOMAIN out : NormLoc(out[k]) = id
    <3>1. PICK j \in DOMAIN own : id = NormLoc(own[j])
      BY <1>3
    <3>2. j \in DOMAIN own \cap I
      BY <1>8, <3>1
    <3>3. PICK k \in DOMAIN kept : kept[k] = own[j]
      BY <1>9, <3>2
    <3>. QED
      BY <1>15, <1>16, <3>1, <3>3
  <2>. QED
    BY <2>2, <2>3
<1>18. IdsOf(rs[i]) \cap claimed = {} => out = own
  <2>1. SUFFICES ASSUME IdsOf(rs[i]) \cap claimed = {} PROVE out = own
    OBVIOUS
  <2>2. kept = own
    BY <1>3, <1>8, <1>10, <2>1
  <2>3. KeysDiffer(kept, LocKey)
    BY <1>2, <2>2 DEF CleanLocs
  <2>. QED
    BY <1>14, <2>2, <2>3
<1>. QED
  BY <1>4, <1>12, <1>13, <1>17, <1>18 DEF own

LEMMA LaneIsOf ==
    ASSUME NEW r, NEW t, r.origin = t.origin, r.destinations = t.destinations,
           r.match_mode = t.match_mode, r.booking_type = t.booking_type,
           r.service_types = t.service_types
    PROVE  Lane(r) = Lane(t)
BY Zenon DEF Lane

Bigger(m, n) == m = 0 \/ (n # 0 /\ m >= n)

\* What rule r of a route asked for is in the row t of its lane.
Holds(t, r) ==
    /\ t.mode = "route" /\ Lane(t) = Lane(r)
    /\ Bigger(t.max_accept_count, r.max_accept_count)
    /\ t.accepted_count >= r.accepted_count
    /\ r.enabled => t.enabled

LEMMA MergeHoldsBoth ==
    ASSUME NEW old \in SettledRules, NEW r \in SettledRules,
           old.mode = "route", Lane(old) = Lane(r)
    PROVE  /\ Merge(old, r) \in SettledRules
           /\ Merge(old, r).mode = "route" /\ Lane(Merge(old, r)) = Lane(r)
           /\ Holds(Merge(old, r), r)
           /\ \A q \in SettledRules : Holds(old, q) => Holds(Merge(old, r), q)
<1>. DEFINE m == IF 0 \in {old.max_accept_count, r.max_accept_count} THEN 0
                 ELSE Max({old.max_accept_count, r.max_accept_count})
            a == Max({old.accepted_count, r.accepted_count})
            on == old.enabled \/ r.enabled
            t == [old EXCEPT !.max_accept_count = m, !.accepted_count = a, !.enabled = on]
<1>1. /\ old \in RuleRecord /\ old.enabled \in BOOLEAN
      /\ old.max_accept_count \in Nat /\ old.accepted_count \in Nat
      /\ r.enabled \in BOOLEAN /\ r.max_accept_count \in Nat /\ r.accepted_count \in Nat
  BY SettledFields
<1>2. Merge(old, r) = t
  BY DEF Merge
<1>3. /\ m \in Nat /\ Bigger(m, old.max_accept_count) /\ Bigger(m, r.max_accept_count)
      /\ \A n \in Nat : Bigger(old.max_accept_count, n) => Bigger(m, n)
  <2>1. Max({old.max_accept_count, r.max_accept_count})
            = IF old.max_accept_count <= r.max_accept_count THEN r.max_accept_count
              ELSE old.max_accept_count
    BY <1>1, GreaterOfTwo
  <2>. QED
    BY <1>1, <2>1 DEF Bigger
<1>4. a \in Nat /\ a >= old.accepted_count /\ a >= r.accepted_count
  <2>1. a = IF old.accepted_count <= r.accepted_count THEN r.accepted_count ELSE old.accepted_count
    BY <1>1, GreaterOfTwo
  <2>. QED
    BY <1>1, <2>1
<1>5. on \in BOOLEAN /\ (old.enabled => on) /\ (r.enabled => on)
  BY Zenon
<1>. HIDE DEF m, a, on
<1>6. /\ t.mode = "route" /\ t.max_accept_count = m /\ t.accepted_count = a /\ t.enabled = on
  BY <1>1 DEF RuleRecord
<1>7. t \in SettledRules /\ Lane(t) = Lane(old)
  <2>. HIDE DEF t
  <2>1. t \in SettledRules
    <3>1. m \in Nat /\ a \in Nat /\ on \in BOOLEAN
      BY <1>3, <1>4, <1>5
    <3>. QED
      BY <3>1, SettledChanges, Zenon DEF t
  <2>2. /\ t.origin = old.origin /\ t.destinations = old.destinations
        /\ t.match_mode = old.match_mode
        /\ t.booking_type = old.booking_type /\ t.service_types = old.service_types
    BY <1>1 DEF RuleRecord, t
  <2>3. Lane(t) = Lane(old)
    BY <2>2, LaneIsOf
  <2>. QED
    BY <2>1, <2>3
<1>. HIDE DEF t
<1>8. Holds(t, r)
  BY <1>3, <1>4, <1>5, <1>6, <1>7 DEF Holds
<1>9. ASSUME NEW q \in SettledRules, Holds(old, q) PROVE Holds(t, q)
  <2>1. q.max_accept_count \in Nat /\ q.accepted_count \in Nat
    BY SettledFields
  <2>2. old.accepted_count >= q.accepted_count
    BY <1>9 DEF Holds
  <2>3. t.accepted_count >= q.accepted_count
    BY <1>1, <1>4, <1>6, <2>1, <2>2
  <2>. QED
    BY <1>3, <1>5, <1>6, <1>7, <1>9, <2>1, <2>3 DEF Holds
<1>. QED
  BY <1>2, <1>6, <1>7, <1>8, <1>9

\* The list with the i-th rule of rs added to it.
Added(out, rs, i) ==
    CASE rs[i].mode = "route"      -> AddRoute(out, rs[i])
      [] rs[i].mode = "booking_id" -> AddTargets(out, rs[i], KeptIds(rs, i))
      [] OTHER                     -> Append(out, rs[i])

SameLaneAt(out, r) == {k \in DOMAIN out : out[k].mode = "route" /\ Lane(out[k]) = Lane(r)}

LEMMA AddRouteIs ==
    ASSUME NEW out \in Seq(SettledRules), NEW r \in SettledRules
    PROVE  /\ AddRoute(out, r) \in Seq(SettledRules)
           /\ SameLaneAt(out, r) = {} => AddRoute(out, r) = Append(out, r)
           /\ SameLaneAt(out, r) # {} =>
                  \E k \in SameLaneAt(out, r) :
                      AddRoute(out, r) = [out EXCEPT ![k] = Merge(out[k], r)]
<1>. DEFINE at == SameLaneAt(out, r)
<1>1. AddRoute(out, r) =
          IF at = {} THEN Append(out, [r EXCEPT !.destinations = UniqKeepOrder(@, NormLoc)])
          ELSE [out EXCEPT ![Min(at)] = Merge(@, r)]
  BY Zenon DEF AddRoute, SameLaneAt
<1>2. [r EXCEPT !.destinations = UniqKeepOrder(@, NormLoc)] = r
  BY SettledChanges, Zenon
<1>3. at = {} => AddRoute(out, r) = Append(out, r)
  BY <1>1, <1>2, Zenon
<1>4. at \in SUBSET Nat /\ at \subseteq DOMAIN out
  BY DEF SameLaneAt
<1>5. ASSUME at # {}
      PROVE  \E k \in at : AddRoute(out, r) = [out EXCEPT ![k] = Merge(out[k], r)]
  <2>1. Min(at) \in at
    <3>. HIDE DEF at
    <3>. QED
      BY <1>4, <1>5, LeastPlace
  <2>2. AddRoute(out, r) = [out EXCEPT ![Min(at)] = Merge(out[Min(at)], r)]
    BY <1>1, <1>5, Zenon
  <2>. QED
    BY <2>1, <2>2
<1>6. AddRoute(out, r) \in Seq(SettledRules)
  <2>1. CASE at = {}
    BY <1>3, <2>1
  <2>2. CASE at # {}
    <3>1. PICK k \in at : AddRoute(out, r) = [out EXCEPT ![k] = Merge(out[k], r)]
      BY <1>5, <2>2
    <3>2. /\ k \in DOMAIN out /\ out[k] \in SettledRules
          /\ out[k].mode = "route" /\ Lane(out[k]) = Lane(r)
      BY DEF SameLaneAt
    <3>3. Merge(out[k], r) \in SettledRules
      BY <3>2, MergeHoldsBoth
    <3>4. \A m \in SettledRules : [out EXCEPT ![k] = m] \in Seq(SettledRules)
      BY <3>2
    <3>. QED
      BY <3>1, <3>3, <3>4
  <2>. QED
    BY <2>1, <2>2
<1>. QED
  BY <1>3, <1>5, <1>6

LEMMA AddedIsSettled ==
    ASSUME NEW rs \in Seq(SettledRules), NEW out \in Seq(SettledRules), NEW i \in DOMAIN rs
    PROVE  Added(out, rs, i) \in Seq(SettledRules)
<1>1. rs[i] \in SettledRules
  OBVIOUS
<1>2. AddRoute(out, rs[i]) \in Seq(SettledRules)
  BY <1>1, AddRouteIs
<1>3. Append(out, rs[i]) \in Seq(SettledRules)
  BY <1>1
<1>4. AddTargets(out, rs[i], KeptIds(rs, i)) \in Seq(SettledRules)
  <2>1. CleanLocs(KeptIds(rs, i))
    BY KeptIdsAre
  <2>2. [rs[i] EXCEPT !.booking_ids = KeptIds(rs, i)] \in SettledRules
    BY <1>1, <2>1, SettledChanges, Zenon
  <2>3. \A t \in SettledRules : Append(out, t) \in Seq(SettledRules)
    OBVIOUS
  <2>. QED
    BY <2>2, <2>3 DEF AddTargets
<1>. QED
  BY <1>2, <1>3, <1>4, Zenon DEF Added

\* g[n] is the list after the first n rules.
Collapses(g, rs) ==
    /\ g \in [0..Len(rs) -> Seq(SettledRules)]
    /\ g[0] = <<>>
    /\ DedupeRules(rs) = g[Len(rs)]
    /\ \A n \in 1..Len(rs) : g[n] = Added(g[n - 1], rs, n)

LEMMA DedupeSteps ==
    ASSUME NEW rs \in Seq(SettledRules)
    PROVE  \E g : Collapses(g, rs)
<1>. DEFINE A == Seq(SettledRules)
            N == Len(rs)
            D == DOMAIN [i \in DOMAIN rs |-> i]
            step == [p \in A \X (1..N) |-> Added(p[1], rs, p[2])]
            Eq(f) == f = [t \in SUBSET D |->
                            IF t = {} THEN <<>>
                            ELSE Added(f[t \ {Max(t)}], rs, [i \in DOMAIN rs |-> i][Max(t)])]
<1>1. DedupeRules(rs) = (CHOOSE f : Eq(f))[D]
  BY Zenon DEF DedupeRules, Added, FoldLeftDomain, FoldLeft, MapThenFoldSet
<1>2. /\ D = 1..N /\ N \in Nat /\ D = DOMAIN rs
      /\ \A i \in D : [j \in DOMAIN rs |-> j][i] = i
  OBVIOUS
<1>3. step \in [A \X (1..N) -> A] /\ <<>> \in A
  BY <1>2, AddedIsSettled
<1>4. \A t \in SUBSET (1..N) : t # {} => Max(t) \in 1..N
  BY <1>2, GreatestPlace
<1>5. PICK f : IsFold(f, A, N, <<>>, step)
  <2>. HIDE DEF step, N, A
  <2>. QED
    BY <1>2, <1>3, FoldExists
<1>. HIDE DEF A
<1>6. Eq(f)
  BY <1>2, <1>4, <1>5 DEF IsFold
<1>7. PICK h : DedupeRules(rs) = h[D] /\ Eq(h)
  <2>. HIDE DEF Eq, D
  <2>. QED
    BY <1>1, <1>6, Zenon
<1>8. Follows(h, A, N, <<>>, step)
  <2>1. \A t \in SUBSET D : h[t] =
             IF t = {} THEN <<>>
             ELSE Added(h[t \ {Max(t)}], rs, [i \in DOMAIN rs |-> i][Max(t)])
    BY <1>7
  <2>. QED
    BY <1>2, <1>4, <2>1 DEF Follows
<1>9. PICK g : Trace(g, A, N, <<>>, step, h[1..N])
  <2>. HIDE DEF step, N
  <2>. QED
    BY <1>2, <1>3, <1>8, FoldSteps, Zenon
<1>10. ASSUME NEW n \in 1..N PROVE g[n] = Added(g[n - 1], rs, n)
  <2>1. g[n - 1] \in A
    BY <1>2, <1>9 DEF Trace
  <2>2. g[n] = step[<<g[n - 1], n>>] /\ <<g[n - 1], n>> \in A \X (1..N)
    BY <2>1, <1>9 DEF Trace
  <2>. QED
    BY <2>2
<1>11. g \in [0..N -> A] /\ g[0] = <<>> /\ DedupeRules(rs) = g[N]
  BY <1>2, <1>7, <1>9 DEF Trace
<1>. QED
  BY <1>10, <1>11, Zenon DEF Collapses, A

\* Row k of out is made of rule src[k], the rows in the order of their rules.
MadeOf(src, out, rs, n) ==
    /\ src \in [1..Len(out) -> 1..n]
    /\ \A j, k \in 1..Len(out) : j < k => src[j] < src[k]
    /\ \A k \in 1..Len(out) :
           /\ out[k].mode = rs[src[k]].mode
           /\ out[k].mode = "booking_id" =>
                  /\ out[k].enabled = rs[src[k]].enabled
                  /\ out[k].booking_ids = KeptIds(rs, src[k])
                  /\ out[k].booking_ids # <<>>
    /\ \A i \in 1..n : rs[i].mode = "booking_id" /\ KeptIds(rs, i) # <<>> =>
           \E k \in 1..Len(out) : src[k] = i

LanesApart(out) ==
    \A j, k \in DOMAIN out : out[j].mode = "route" /\ out[k].mode = "route"
                             /\ Lane(out[j]) = Lane(out[k]) => j = k

RoutesHeld(out, rs, n) ==
    \A i \in 1..n : rs[i].mode = "route" => \E k \in DOMAIN out : Holds(out[k], rs[i])

Collapsed(out, rs, n) ==
    /\ \E src : MadeOf(src, out, rs, n)
    /\ LanesApart(out) /\ RoutesHeld(out, rs, n)

LEMMA HoldsItself ==
    ASSUME NEW r \in SettledRules, r.mode = "route"
    PROVE  Holds(r, r)
BY SettledFields DEF Holds, Bigger

LEMMA AppendCollapsed ==
    ASSUME NEW rs \in Seq(SettledRules), NEW out \in Seq(SettledRules), NEW i \in 1..Len(rs),
           Collapsed(out, rs, i - 1), NEW t \in SettledRules, t.mode = rs[i].mode,
           t.mode = "booking_id" => /\ t.enabled = rs[i].enabled
                                    /\ t.booking_ids = KeptIds(rs, i) /\ t.booking_ids # <<>>,
           t.mode = "route" => t = rs[i] /\ SameLaneAt(out, t) = {}
    PROVE  Collapsed(Append(out, t), rs, i)
<1>. DEFINE m == Len(out)  new == Append(out, t)
<1>1. /\ m \in Nat /\ Len(new) = m + 1 /\ DOMAIN new = 1..(m + 1) /\ DOMAIN out = 1..m
      /\ new[m + 1] = t /\ \A k \in 1..m : new[k] = out[k] /\ k \in 1..(m + 1)
      /\ m + 1 \in 1..(m + 1) /\ \A k \in 1..(m + 1) : k = m + 1 \/ k \in 1..m
  OBVIOUS
<1>2. i \in Nat /\ i \in 1..i /\ \A j \in 1..i : j = i \/ j \in 1..(i - 1)
  OBVIOUS
<1>. HIDE DEF m, new
<1>3. PICK src : MadeOf(src, out, rs, i - 1)
  BY DEF Collapsed
<1>. DEFINE from == [k \in 1..(m + 1) |-> IF k = m + 1 THEN i ELSE src[k]]
<1>4. /\ src \in [1..m -> 1..(i - 1)]
      /\ \A j, k \in 1..m : j < k => src[j] < src[k]
      /\ \A k \in 1..m :
           /\ out[k].mode = rs[src[k]].mode
           /\ out[k].mode = "booking_id" =>
                  /\ out[k].enabled = rs[src[k]].enabled
                  /\ out[k].booking_ids = KeptIds(rs, src[k])
                  /\ out[k].booking_ids # <<>>
      /\ \A j \in 1..(i - 1) : rs[j].mode = "booking_id" /\ KeptIds(rs, j) # <<>> =>
           \E k \in 1..m : src[k] = j
  BY <1>3 DEF MadeOf, m
<1>5. from[m + 1] = i /\ \A k \in 1..m : from[k] = src[k] /\ src[k] \in 1..(i - 1)
  BY <1>1, <1>4
<1>6. from \in [1..(m + 1) -> 1..i]
  BY <1>1, <1>2, <1>4
<1>. HIDE DEF from
<1>7. \A j, k \in 1..(m + 1) : j < k => from[j] < from[k]
  <2>1. SUFFICES ASSUME NEW j \in 1..(m + 1), NEW k \in 1..(m + 1), j < k
                 PROVE  from[j] < from[k]
    OBVIOUS
  <2>2. j \in 1..m
    BY <1>1, <2>1
  <2>3. CASE k = m + 1
    BY <1>2, <1>5, <2>2, <2>3
  <2>4. CASE k \in 1..m
    BY <1>4, <1>5, <2>1, <2>2, <2>4
  <2>. QED
    BY <1>1, <2>3, <2>4
<1>8. \A k \in 1..(m + 1) :
           /\ new[k].mode = rs[from[k]].mode
           /\ new[k].mode = "booking_id" =>
                  /\ new[k].enabled = rs[from[k]].enabled
                  /\ new[k].booking_ids = KeptIds(rs, from[k])
                  /\ new[k].booking_ids # <<>>
  BY <1>1, <1>4, <1>5
<1>9. \A j \in 1..i : rs[j].mode = "booking_id" /\ KeptIds(rs, j) # <<>> =>
           \E k \in 1..(m + 1) : from[k] = j
  <2>1. SUFFICES ASSUME NEW j \in 1..i, rs[j].mode = "booking_id", KeptIds(rs, j) # <<>>
                 PROVE  \E k \in 1..(m + 1) : from[k] = j
    OBVIOUS
  <2>2. CASE j = i
    BY <1>1, <1>5, <2>2
  <2>3. CASE j \in 1..(i - 1)
    <3>1. PICK k \in 1..m : src[k] = j
      BY <1>4, <2>1, <2>3
    <3>. QED
      BY <1>1, <1>5, <3>1
  <2>. QED
    BY <1>2, <2>2, <2>3
<1>10. MadeOf(from, new, rs, i)
  BY <1>1, <1>6, <1>7, <1>8, <1>9 DEF MadeOf
<1>11. LanesApart(new)
  <2>1. LanesApart(out)
    BY DEF Collapsed
  <2>2. t.mode = "route" => \A k \in 1..m : ~(out[k].mode = "route" /\ Lane(out[k]) = Lane(t))
    BY <1>1 DEF SameLaneAt
  <2>. QED
    BY <1>1, <2>1, <2>2 DEF LanesApart
<1>12. RoutesHeld(new, rs, i)
  <2>1. RoutesHeld(out, rs, i - 1)
    BY DEF Collapsed
  <2>2. \A j \in 1..(i - 1) : rs[j].mode = "route" => \E k \in DOMAIN new : Holds(new[k], rs[j])
    BY <1>1, <2>1 DEF RoutesHeld
  <2>3. rs[i].mode = "route" => Holds(new[m + 1], rs[i])
    BY <1>1, HoldsItself
  <2>. QED
    BY <1>1, <1>2, <2>2, <2>3 DEF RoutesHeld
<1>. QED
  BY <1>10, <1>11, <1>12 DEF Collapsed, new

LEMMA MergeCollapsed ==
    ASSUME NEW rs \in Seq(SettledRules), NEW out \in Seq(SettledRules), NEW i \in 1..Len(rs),
           Collapsed(out, rs, i - 1), rs[i].mode = "route", NEW k \in SameLaneAt(out, rs[i])
    PROVE  Collapsed([out EXCEPT ![k] = Merge(out[k], rs[i])], rs, i)
<1>. DEFINE new == [out EXCEPT ![k] = Merge(out[k], rs[i])]
<1>1. /\ k \in DOMAIN out /\ out[k] \in SettledRules /\ rs[i] \in SettledRules
      /\ out[k].mode = "route" /\ Lane(out[k]) = Lane(rs[i])
  BY DEF SameLaneAt
<1>2. /\ new[k] \in SettledRules /\ new[k].mode = "route" /\ Lane(new[k]) = Lane(rs[i])
      /\ Holds(new[k], rs[i])
      /\ \A q \in SettledRules : Holds(out[k], q) => Holds(new[k], q)
  BY <1>1, MergeHoldsBoth
<1>3. /\ DOMAIN new = DOMAIN out /\ DOMAIN out = 1..Len(out) /\ Len(new) = Len(out)
      /\ \A j \in DOMAIN out : j # k => new[j] = out[j]
  <2>1. \A m \in SettledRules : [out EXCEPT ![k] = m] \in Seq(SettledRules)
    BY <1>1
  <2>2. new \in Seq(SettledRules)
    BY <1>1, <2>1, MergeHoldsBoth
  <2>3. DOMAIN new = DOMAIN out
    OBVIOUS
  <2>4. \A j \in DOMAIN out : j # k => new[j] = out[j]
    OBVIOUS
  <2>5. DOMAIN out = 1..Len(out) /\ Len(out) \in Nat /\ DOMAIN new = 1..Len(new) /\ Len(new) \in Nat
    BY <2>2
  <2>. HIDE DEF new
  <2>6. Len(new) = Len(out)
    BY <2>3, <2>5
  <2>. QED
    BY <2>3, <2>4, <2>5, <2>6
<1>. HIDE DEF new
<1>4. PICK src : MadeOf(src, out, rs, i - 1)
  BY DEF Collapsed
<1>5. i \in Nat /\ (\A j \in 1..i : j = i \/ j \in 1..(i - 1)) /\ (\A j \in 1..(i - 1) : j \in 1..i)
  OBVIOUS
<1>6. MadeOf(src, new, rs, i)
  <2>1. src \in [1..Len(new) -> 1..i]
    BY <1>3, <1>4, <1>5 DEF MadeOf
  <2>2. \A j \in 1..Len(new) : /\ new[j].mode = out[j].mode
                               /\ new[j].mode = "booking_id" => new[j] = out[j]
    BY <1>1, <1>2, <1>3
  <2>3. \A j \in 1..i : rs[j].mode = "booking_id" /\ KeptIds(rs, j) # <<>> =>
           \E l \in 1..Len(new) : src[l] = j
    BY <1>3, <1>4, <1>5 DEF MadeOf
  <2>. QED
    BY <1>3, <1>4, <2>1, <2>2, <2>3 DEF MadeOf
<1>7. LanesApart(new)
  <2>1. \A j \in DOMAIN out : /\ new[j].mode = out[j].mode
                              /\ new[j].mode = "route" => Lane(new[j]) = Lane(out[j])
    BY <1>1, <1>2, <1>3
  <2>. QED
    BY <1>3, <2>1 DEF Collapsed, LanesApart
<1>8. RoutesHeld(new, rs, i)
  <2>1. SUFFICES ASSUME NEW j \in 1..i, rs[j].mode = "route"
                 PROVE  \E l \in DOMAIN new : Holds(new[l], rs[j])
    BY DEF RoutesHeld
  <2>2. CASE j = i
    BY <1>1, <1>2, <1>3, <2>2
  <2>3. CASE j \in 1..(i - 1)
    <3>1. PICK l \in DOMAIN out : Holds(out[l], rs[j])
      BY <2>1, <2>3 DEF Collapsed, RoutesHeld
    <3>2. rs[j] \in SettledRules
      BY <1>5
    <3>3. Holds(new[l], rs[j])
      BY <1>2, <1>3, <3>1, <3>2
    <3>. QED
      BY <1>3, <3>3
  <2>. QED
    BY <1>5, <2>2, <2>3
<1>. QED
  BY <1>6, <1>7, <1>8 DEF Collapsed, new

LEMMA DedupeCollapses ==
    ASSUME NEW rs \in Seq(SettledRules)
    PROVE  /\ DedupeRules(rs) \in Seq(SettledRules)
           /\ Collapsed(DedupeRules(rs), rs, Len(rs))
<1>1. PICK g : Collapses(g, rs)
  BY DedupeSteps
<1>2. /\ g \in [0..Len(rs) -> Seq(SettledRules)] /\ g[0] = <<>>
      /\ DedupeRules(rs) = g[Len(rs)]
      /\ \A n \in 1..Len(rs) : g[n] = Added(g[n - 1], rs, n)
  BY <1>1 DEF Collapses
<1>. DEFINE T == {n \in 0..Len(rs) : Collapsed(g[n], rs, n)}
<1>3. 0 \in T
  <2>1. MadeOf(<<>>, <<>>, rs, 0)
    BY DEF MadeOf
  <2>2. LanesApart(<<>>) /\ RoutesHeld(<<>>, rs, 0)
    BY DEF LanesApart, RoutesHeld
  <2>3. Collapsed(<<>>, rs, 0)
    BY <2>1, <2>2 DEF Collapsed
  <2>4. 0 \in 0..Len(rs)
    OBVIOUS
  <2>. QED
    BY <1>2, <2>3, <2>4
<1>4. ASSUME NEW n \in 1..Len(rs), n - 1 \in T PROVE n \in T
  <2>. DEFINE out == g[n - 1]  r == rs[n]
  <2>1. /\ n - 1 \in 0..Len(rs) /\ n \in 0..Len(rs) /\ n \in DOMAIN rs
    OBVIOUS
  <2>2. out \in Seq(SettledRules) /\ r \in SettledRules /\ Collapsed(out, rs, n - 1)
    BY <1>2, <1>4, <2>1
  <2>3. g[n] = Added(out, rs, n)
    BY <1>2
  <2>. HIDE DEF out
  <2>. SUFFICES Collapsed(g[n], rs, n)
    BY <2>1
  <2>4. CASE r.mode = "route"
    <3>1. g[n] = AddRoute(out, r)
      BY <2>3, <2>4, Zenon DEF Added
    <3>2. CASE SameLaneAt(out, r) = {}
      <4>1. AddRoute(out, r) = Append(out, r)
        BY <2>2, <3>2, AddRouteIs
      <4>2. Collapsed(Append(out, r), rs, n)
        BY <2>2, <2>4, <3>2, AppendCollapsed
      <4>. QED
        BY <3>1, <4>1, <4>2
    <3>3. CASE SameLaneAt(out, r) # {}
      <4>1. PICK k \in SameLaneAt(out, r) : AddRoute(out, r) = [out EXCEPT ![k] = Merge(out[k], r)]
        BY <2>2, <3>3, AddRouteIs
      <4>2. Collapsed([out EXCEPT ![k] = Merge(out[k], r)], rs, n)
        BY <2>2, <2>4, MergeCollapsed
      <4>. QED
        BY <3>1, <4>1, <4>2
    <3>. QED
      BY <3>2, <3>3
  <2>5. CASE r.mode = "booking_id"
    <3>. DEFINE ids == KeptIds(rs, n)
    <3>1. g[n] = AddTargets(out, r, ids)
      BY <2>3, <2>5 DEF Added
    <3>2. CASE ids = <<>>
      <4>1. g[n] = out
        BY <3>1, <3>2 DEF AddTargets
      <4>2. PICK src : MadeOf(src, out, rs, n - 1)
        BY <2>2 DEF Collapsed
      <4>3. n \in Nat /\ (\A j \in 1..n : j = n \/ j \in 1..(n - 1)) /\ (\A j \in 1..(n - 1) : j \in 1..n)
        OBVIOUS
      <4>4. MadeOf(src, out, rs, n)
        BY <3>2, <4>2, <4>3 DEF MadeOf
      <4>5. RoutesHeld(out, rs, n)
        BY <2>2, <2>5, <4>3 DEF Collapsed, RoutesHeld
      <4>. QED
        BY <2>2, <4>1, <4>4, <4>5 DEF Collapsed
    <3>3. CASE ids # <<>>
      <4>. DEFINE t == [r EXCEPT !.booking_ids = ids]
      <4>1. g[n] = Append(out, t)
        BY <3>1, <3>3 DEF AddTargets
      <4>2. CleanLocs(ids)
        BY <2>1, KeptIdsAre
      <4>. HIDE DEF ids
      <4>3. /\ t \in SettledRules /\ t.booking_ids = ids /\ t.mode = "booking_id"
            /\ t.enabled = r.enabled
        <5>1. /\ t \in SettledRules /\ t.booking_ids = ids /\ t.mode = r.mode
              /\ t.enabled = r.enabled
          BY <2>2, <4>2, SettledChanges, Zenon
        <5>. QED
          BY <2>5, <5>1
      <4>. HIDE DEF t
      <4>4. Collapsed(Append(out, t), rs, n)
        <5>1. t.mode = "booking_id" => /\ t.enabled = rs[n].enabled
                                       /\ t.booking_ids = KeptIds(rs, n) /\ t.booking_ids # <<>>
          BY <3>3, <4>3 DEF ids
        <5>2. t.mode = rs[n].mode /\ (t.mode = "route" => t = rs[n] /\ SameLaneAt(out, t) = {})
          BY <2>5, <4>3
        <5>. QED
          BY <2>2, <4>3, <5>1, <5>2, AppendCollapsed
      <4>. QED
        BY <4>1, <4>4
    <3>. QED
      BY <3>2, <3>3
  <2>6. CASE r.mode = "filter"
    <3>1. g[n] = Append(out, r)
      BY <2>3, <2>6 DEF Added
    <3>2. Collapsed(Append(out, r), rs, n)
      BY <2>2, <2>6, AppendCollapsed
    <3>. QED
      BY <3>1, <3>2
  <2>7. r.mode \in {"booking_id", "route", "filter"}
    BY <2>2, SettledFields
  <2>. QED
    BY <2>4, <2>5, <2>6, <2>7
<1>5. Len(rs) \in 0..Len(rs) /\ Len(rs) \in Nat
  OBVIOUS
<1>6. Len(rs) \in T
  <2>. HIDE DEF T
  <2>1. \A n \in 0..Len(rs) : n \in T
    BY <1>3, <1>4, <1>5, StepByStep
  <2>. QED
    BY <1>5, <2>1
<1>. QED
  BY <1>2, <1>5, <1>6

\* No id is in two rules by id, and none of them has no id.
IdsApart(rs) ==
    /\ \A j, k \in DOMAIN rs :
           rs[j].mode = "booking_id" /\ rs[k].mode = "booking_id"
           /\ IdsOf(rs[j]) \cap IdsOf(rs[k]) # {} => j = k
    /\ \A k \in DOMAIN rs : rs[k].mode = "booking_id" => rs[k].booking_ids # <<>>

\* A list that was collapsed is left alone.
LEMMA CollapsedStays ==
    ASSUME NEW rs \in Seq(SettledRules), LanesApart(rs), IdsApart(rs)
    PROVE  DedupeRules(rs) = rs
<1>1. PICK g : Collapses(g, rs)
  BY DedupeSteps
<1>2. /\ g \in [0..Len(rs) -> Seq(SettledRules)] /\ g[0] = <<>>
      /\ DedupeRules(rs) = g[Len(rs)]
      /\ \A n \in 1..Len(rs) : g[n] = Added(g[n - 1], rs, n)
  BY <1>1 DEF Collapses
<1>. DEFINE T == {n \in 0..Len(rs) : g[n] = SubSeq(rs, 1, n)}
<1>3. 0 \in T
  <2>1. SubSeq(rs, 1, 0) = <<>> /\ 0 \in 0..Len(rs)
    OBVIOUS
  <2>. QED
    BY <1>2, <2>1
<1>4. ASSUME NEW n \in 1..Len(rs), n - 1 \in T PROVE n \in T
  <2>. DEFINE out == SubSeq(rs, 1, n - 1)  r == rs[n]
  <2>1. /\ n \in 0..Len(rs) /\ n \in DOMAIN rs /\ r \in SettledRules
        /\ out \in Seq(SettledRules) /\ DOMAIN out = 1..(n - 1)
        /\ \A k \in 1..(n - 1) : out[k] = rs[k] /\ k \in DOMAIN rs /\ k # n
        /\ Append(out, r) = SubSeq(rs, 1, n)
    <3>1. n \in 0..Len(rs) /\ n \in DOMAIN rs /\ r \in SettledRules /\ n - 1 \in 0..Len(rs)
      OBVIOUS
    <3>2. out \in Seq(SettledRules) /\ Len(out) = n - 1
      OBVIOUS
    <3>3. DOMAIN out = 1..(n - 1)
      BY <3>1, <3>2
    <3>4. \A k \in 1..(n - 1) : out[k] = rs[k] /\ k \in DOMAIN rs /\ k # n
      OBVIOUS
    <3>5. Append(out, r) = SubSeq(rs, 1, n)
      OBVIOUS
    <3>. QED
      BY <3>1, <3>2, <3>3, <3>4, <3>5
  <2>2. g[n] = Added(out, rs, n)
    BY <1>2, <1>4
  <2>. HIDE DEF out
  <2>3. r.mode \in {"booking_id", "route", "filter"}
    BY <2>1, SettledFields
  <2>4. CASE r.mode = "route"
    <3>1. SameLaneAt(out, r) = {}
      BY <2>1, <2>4 DEF SameLaneAt, LanesApart
    <3>2. AddRoute(out, r) = Append(out, r)
      BY <2>1, <3>1, AddRouteIs
    <3>3. g[n] = AddRoute(out, r)
      BY <2>2, <2>4, Zenon DEF Added
    <3>. QED
      BY <2>1, <3>2, <3>3
  <2>5. CASE r.mode = "booking_id"
    <3>1. \A j \in DOMAIN rs : ClaimsBefore(rs, j, n) => rs[j].mode = "booking_id" /\ j # n
      BY <2>1 DEF ClaimsBefore
    <3>2. IdsOf(r) \cap Claimed(rs, n) = {}
      BY <2>1, <2>5, <3>1 DEF IdsApart, Claimed
    <3>3. KeptIds(rs, n) = r.booking_ids
      BY <2>1, <3>2, KeptIdsAre
    <3>4. [r EXCEPT !.booking_ids = r.booking_ids] = r
      BY <2>1, SettledChanges, Zenon
    <3>5. r.booking_ids # <<>>
      BY <2>1, <2>5 DEF IdsApart
    <3>6. g[n] = AddTargets(out, r, KeptIds(rs, n))
      BY <2>2, <2>5, Zenon DEF Added
    <3>7. AddTargets(out, r, r.booking_ids) = Append(out, r)
      BY <3>4, <3>5, Zenon DEF AddTargets
    <3>. QED
      BY <2>1, <3>3, <3>6, <3>7
  <2>6. CASE r.mode = "filter"
    <3>1. g[n] = Append(out, r)
      BY <2>2, <2>6 DEF Added
    <3>. QED
      BY <2>1, <3>1
  <2>. QED
    BY <2>3, <2>4, <2>5, <2>6
<1>5. Len(rs) \in 0..Len(rs) /\ Len(rs) \in Nat /\ SubSeq(rs, 1, Len(rs)) = rs
  OBVIOUS
<1>6. Len(rs) \in T
  <2>. HIDE DEF T
  <2>1. \A n \in 0..Len(rs) : n \in T
    BY <1>3, <1>4, <1>5, StepByStep
  <2>. QED
    BY <1>5, <2>1
<1>. QED
  BY <1>2, <1>5, <1>6

(***************************************************************************)
(* Choosing among the rules                                                *)
(***************************************************************************)
Ranks == [1..6 -> Int]

LEMMA RanksAre ==
    ASSUME NEW r \in SettledRules
    PROVE  RuleRank(r) \in Ranks
<1>. DEFINE route == r.mode = "route"
            p1 == CASE r.mode = "booking_id" -> 3 [] route -> 2 [] OTHER -> 1
            p3 == IF route THEN Len(Texts(r.destinations)) ELSE 0
            p4 == One(route /\ HasOrigin(r))
            p5 == One(route /\ r.match_mode = "strict")
            p6 == Len(r.service_types)
<1>1. /\ r.destinations \in Seq(Phrase) /\ r.service_types \in Seq(Phrase)
      /\ r.priority \in Priorities /\ Texts(r.destinations) = r.destinations
  <2>1. r \in RuleRecord /\ CleanLocs(r.destinations)
    BY SettledFields
  <2>2. r.service_types \in Seq(Phrase) /\ r.priority \in Priorities
    BY <2>1 DEF RuleRecord
  <2>3. r.destinations \in Seq(Phrase) /\ Texts(r.destinations) = r.destinations
    BY <2>1, CleanStays
  <2>. QED
    BY <2>2, <2>3
<1>2. r.priority \in Int
  <2>1. ASSUME NEW x \in Priorities PROVE x \in Int
    BY DEF Priorities
  <2>. QED
    BY <1>1, <2>1
<1>3. p1 \in Int /\ p3 \in Int /\ p6 \in Int
  BY <1>1
<1>4. p4 \in Int /\ p5 \in Int
  <2>1. p4 \in {0, 1} /\ p5 \in {0, 1}
    BY Zenon DEF One
  <2>. QED
    BY <2>1
<1>5. RuleRank(r) = <<p1, r.priority, p3, p4, p5, p6>>
  BY DEF RuleRank
<1>. HIDE DEF p1, p3, p4, p5, p6
<1>. QED
  BY <1>2, <1>3, <1>4, <1>5 DEF Ranks

LEMMA StrongerThanStronger ==
    ASSUME NEW p \in Ranks, NEW q \in Ranks, NEW s \in Ranks, Outranks(p, s), Outranks(s, q)
    PROVE  Outranks(p, q)
<1>1. DOMAIN p = 1..6 /\ DOMAIN s = 1..6 /\ \A i \in 1..6 : p[i] \in Int /\ q[i] \in Int /\ s[i] \in Int
  BY DEF Ranks
<1>2. PICK m \in 1..6 : p[m] > s[m] /\ \A j \in 1 .. m - 1 : p[j] = s[j]
  BY <1>1 DEF Outranks
<1>3. PICK k \in 1..6 : s[k] > q[k] /\ \A j \in 1 .. k - 1 : s[j] = q[j]
  BY <1>1 DEF Outranks
<1>4. \A j \in 1 .. m - 1 : j \in 1..6
  OBVIOUS
<1>5. CASE m < k
  <2>1. m \in 1 .. k - 1 /\ \A j \in 1 .. m - 1 : j \in 1 .. k - 1
    BY <1>5
  <2>2. p[m] > q[m] /\ \A j \in 1 .. m - 1 : p[j] = q[j]
    BY <1>1, <1>2, <1>3, <2>1
  <2>. QED
    BY <1>1, <2>2 DEF Outranks
<1>6. CASE m >= k
  <2>1. m = k \/ k \in 1 .. m - 1
    BY <1>6
  <2>2. p[k] > q[k]
    BY <1>1, <1>2, <1>3, <2>1
  <2>3. \A j \in 1 .. k - 1 : j \in 1 .. m - 1
    BY <1>6
  <2>4. \A j \in 1 .. k - 1 : p[j] = q[j]
    BY <1>2, <1>3, <2>3
  <2>. QED
    BY <1>1, <2>2, <2>4 DEF Outranks
<1>. QED
  BY <1>5, <1>6

\* The best of the first i rules, from the best of those before.
Better(best, rs, b, i) ==
    IF /\ Matches(rs[i], b)
       /\ \A k \in best : Outranks(RuleRank(rs[i]), RuleRank(rs[k]))
    THEN {i} ELSE best

\* g[n] is the place of the best of the first n rules, if any of them matches.
Chooses(g, rs, b) ==
    /\ g \in [0..Len(rs) -> SUBSET (1..Len(rs))]
    /\ g[0] = {}
    /\ FindBest(rs, b) = g[Len(rs)]
    /\ \A n \in 1..Len(rs) : g[n] = Better(g[n - 1], rs, b, n)

LEMMA FindBestSteps ==
    ASSUME NEW S, NEW rs \in Seq(S), NEW b
    PROVE  \E g : Chooses(g, rs, b)
<1>. DEFINE N == Len(rs)
            A == SUBSET (1..N)
            D == DOMAIN [i \in DOMAIN rs |-> i]
            step == [p \in A \X (1..N) |-> Better(p[1], rs, b, p[2])]
            Eq(f) == f = [t \in SUBSET D |->
                            IF t = {} THEN {}
                            ELSE Better(f[t \ {Max(t)}], rs, b, [i \in DOMAIN rs |-> i][Max(t)])]
<1>1. FindBest(rs, b) = (CHOOSE f : Eq(f))[D]
  BY Zenon DEF FindBest, Better, FoldLeftDomain, FoldLeft, MapThenFoldSet
<1>2. /\ D = 1..N /\ N \in Nat /\ D = DOMAIN rs
      /\ \A i \in D : [j \in DOMAIN rs |-> j][i] = i
  OBVIOUS
<1>3. step \in [A \X (1..N) -> A] /\ {} \in A
  <2>1. \A best \in A : \A i \in 1..N : Better(best, rs, b, i) \in A
    BY DEF Better
  <2>. QED
    BY <2>1
<1>4. \A t \in SUBSET (1..N) : t # {} => Max(t) \in 1..N
  BY <1>2, GreatestPlace
<1>5. PICK f : IsFold(f, A, N, {}, step)
  <2>. HIDE DEF step, N, A
  <2>. QED
    BY <1>2, <1>3, FoldExists
<1>. HIDE DEF A
<1>6. Eq(f)
  BY <1>2, <1>4, <1>5 DEF IsFold
<1>7. PICK h : FindBest(rs, b) = h[D] /\ Eq(h)
  <2>. HIDE DEF Eq, D
  <2>. QED
    BY <1>1, <1>6, Zenon
<1>8. Follows(h, A, N, {}, step)
  <2>1. \A t \in SUBSET D : h[t] =
             IF t = {} THEN {}
             ELSE Better(h[t \ {Max(t)}], rs, b, [i \in DOMAIN rs |-> i][Max(t)])
    BY <1>7
  <2>. QED
    BY <1>2, <1>4, <2>1 DEF Follows
<1>9. PICK g : Trace(g, A, N, {}, step, h[1..N])
  <2>. HIDE DEF step, N
  <2>. QED
    BY <1>2, <1>3, <1>8, FoldSteps, Zenon
<1>10. ASSUME NEW n \in 1..N PROVE g[n] = Better(g[n - 1], rs, b, n)
  <2>1. g[n - 1] \in A
    BY <1>2, <1>9 DEF Trace
  <2>2. g[n] = step[<<g[n - 1], n>>] /\ <<g[n - 1], n>> \in A \X (1..N)
    BY <2>1, <1>9 DEF Trace
  <2>. QED
    BY <2>2
<1>11. g \in [0..N -> A] /\ g[0] = {} /\ FindBest(rs, b) = g[N]
  BY <1>2, <1>7, <1>9 DEF Trace
<1>. QED
  BY <1>10, <1>11, Zenon DEF Chooses, A

BestSoFar(best, rs, b, n) ==
    /\ best \in SUBSET (1..n)
    /\ best = {} => \A j \in 1..n : ~Matches(rs[j], b)
    /\ \A k, l \in best : k = l
    /\ \A k \in best :
           /\ Matches(rs[k], b)
           /\ \A j \in 1..n : Matches(rs[j], b) =>
                  /\ ~Outranks(RuleRank(rs[j]), RuleRank(rs[k]))
                  /\ j < k => RuleRank(rs[j]) # RuleRank(rs[k])

\* No rank outranks itself.
LEMMA NoneOutranksItself ==
    ASSUME NEW p \in Ranks
    PROVE  ~Outranks(p, p)
<1>1. DOMAIN p = 1..6 /\ \A i \in 1..6 : p[i] \in Int
  BY DEF Ranks
<1>. QED
  BY <1>1 DEF Outranks

\* The rule that answers is the first of the strongest that match.
LEMMA FindBestIs ==
    ASSUME NEW rs \in Seq(SettledRules), NEW b
    PROVE  BestSoFar(FindBest(rs, b), rs, b, Len(rs))
<1>1. PICK g : Chooses(g, rs, b)
  BY FindBestSteps
<1>2. /\ g \in [0..Len(rs) -> SUBSET (1..Len(rs))]
      /\ g[0] = {}
      /\ FindBest(rs, b) = g[Len(rs)]
      /\ \A n \in 1..Len(rs) : g[n] = Better(g[n - 1], rs, b, n)
  BY <1>1 DEF Chooses
<1>. DEFINE T == {n \in 0..Len(rs) : BestSoFar(g[n], rs, b, n)}
            rank(i) == RuleRank(rs[i])
            hit(i) == Matches(rs[i], b)
<1>3. 0 \in T
  <2>1. BestSoFar({}, rs, b, 0)
    BY DEF BestSoFar
  <2>2. 0 \in 0..Len(rs)
    OBVIOUS
  <2>. QED
    BY <1>2, <2>1, <2>2
<1>4. ASSUME NEW n \in 1..Len(rs), n - 1 \in T PROVE n \in T
  <2>. DEFINE best == g[n - 1]
  <2>1. n - 1 \in 0..Len(rs) /\ n \in 0..Len(rs) /\ n \in DOMAIN rs
    OBVIOUS
  <2>. SUFFICES BestSoFar(g[n], rs, b, n)
    BY <2>1
  <2>2. BestSoFar(best, rs, b, n - 1)
    BY <1>4
  <2>3. g[n] = Better(best, rs, b, n)
    BY <1>2
  <2>. HIDE DEF best, rank, hit
  <2>4. /\ best \in SUBSET (1..(n - 1))
        /\ best = {} => \A j \in 1..(n - 1) : ~hit(j)
        /\ \A k, l \in best : k = l
        /\ \A k \in best : hit(k)
        /\ \A k \in best : \A j \in 1..(n - 1) : hit(j) =>
               ~Outranks(rank(j), rank(k)) /\ (j < k => rank(j) # rank(k))
    BY <2>2 DEF BestSoFar, rank, hit
  <2>5. \A i \in 1..n : rank(i) \in Ranks /\ (i = n \/ i \in 1..(n - 1))
    <3>1. \A i \in 1..n : rs[i] \in SettledRules
      OBVIOUS
    <3>2. \A i \in 1..n : rank(i) \in Ranks
      BY <3>1, RanksAre DEF rank
    <3>3. \A i \in 1..n : i = n \/ i \in 1..(n - 1)
      OBVIOUS
    <3>. QED
      BY <3>2, <3>3
  <2>6. n \in Nat /\ n \in 1..n /\ (\A i \in 1..(n - 1) : i \in 1..n /\ i < n)
    OBVIOUS
  <2>7. Better(best, rs, b, n) =
            IF hit(n) /\ \A k \in best : Outranks(rank(n), rank(k)) THEN {n} ELSE best
    BY Zenon DEF Better, rank, hit
  <2>8. CASE hit(n) /\ \A k \in best : Outranks(rank(n), rank(k))
    <3>1. ASSUME NEW j \in 1..n, hit(j)
          PROVE  ~Outranks(rank(j), rank(n)) /\ (j < n => rank(j) # rank(n))
      <4>1. CASE j = n
        BY <2>5, <2>6, <4>1, NoneOutranksItself
      <4>2. CASE j \in 1..(n - 1)
        <5>1. PICK k \in best : TRUE
          BY <2>4, <3>1, <4>2
        <5>2. Outranks(rank(n), rank(k)) /\ ~Outranks(rank(j), rank(k)) /\ k \in 1..n
          BY <2>4, <2>6, <2>8, <3>1, <4>2, <5>1
        <5>. QED
          BY <2>5, <2>6, <5>2, StrongerThanStronger
      <4>. QED
        BY <2>5, <4>1, <4>2
    <3>2. g[n] = {n}
      BY <2>3, <2>7, <2>8
    <3>3. BestSoFar({n}, rs, b, n)
      BY <2>6, <2>8, <3>1 DEF BestSoFar, rank, hit
    <3>. QED
      BY <3>2, <3>3
  <2>9. CASE ~(hit(n) /\ \A k \in best : Outranks(rank(n), rank(k)))
    <3>1. g[n] = best
      BY <2>3, <2>7, <2>9
    <3>2. best = {} => \A j \in 1..n : ~hit(j)
      BY <2>4, <2>5, <2>9
    <3>3. ASSUME NEW k \in best, NEW j \in 1..n, hit(j)
          PROVE  ~Outranks(rank(j), rank(k)) /\ (j < k => rank(j) # rank(k))
      <4>1. CASE j \in 1..(n - 1)
        BY <2>4, <3>3, <4>1
      <4>2. CASE j = n
        <5>1. k \in 1..(n - 1) /\ ~(j < k)
          BY <2>4, <4>2
        <5>2. \A l \in best : l = k
          BY <2>4
        <5>. QED
          BY <2>9, <3>3, <4>2, <5>1, <5>2
      <4>. QED
        BY <2>5, <4>1, <4>2
    <3>4. best \in SUBSET (1..n)
      BY <2>4, <2>6
    <3>5. BestSoFar(best, rs, b, n)
      BY <2>4, <3>2, <3>3, <3>4 DEF BestSoFar, rank, hit
    <3>. QED
      BY <3>1, <3>5
  <2>. QED
    BY <2>8, <2>9
<1>5. Len(rs) \in 0..Len(rs) /\ Len(rs) \in Nat
  OBVIOUS
<1>6. Len(rs) \in T
  <2>. HIDE DEF T
  <2>1. \A n \in 0..Len(rs) : n \in T
    BY <1>3, <1>4, <1>5, StepByStep
  <2>. QED
    BY <1>5, <2>1
<1>. QED
  BY <1>2, <1>6

(***************************************************************************)
(* Walking along the stops                                                 *)
(***************************************************************************)
NextStop(dests, stops, at, d, flexible) ==
    LET found == StopsFor(dests[d], stops, at)
    IN  CASE at # Lost /\ found # {} -> Min(found)
          [] at # Lost /\ found = {} /\ flexible /\ d # Len(dests) -> at
          [] OTHER -> Lost

LEMMA NextStopIs ==
    ASSUME NEW S, NEW stops \in Seq(S), NEW dests, NEW at \in Int, NEW d, NEW flexible
    PROVE  LET to == NextStop(dests, stops, at, d, flexible)
           IN  /\ to \in Int
               /\ at = Lost => to = Lost
               /\ at # Lost /\ StopsFor(dests[d], stops, at) # {} =>
                      /\ to \in StopsFor(dests[d], stops, at)
                      /\ \A j \in StopsFor(dests[d], stops, at) : to <= j
               /\ at # Lost /\ StopsFor(dests[d], stops, at) = {} =>
                      \/ to = Lost
                      \/ to = at /\ flexible /\ d # Len(dests)
<1>. DEFINE found == StopsFor(dests[d], stops, at)
            to == NextStop(dests, stops, at, d, flexible)
<1>1. found \in SUBSET Nat
  BY DEF StopsFor
<1>2. found # {} => Min(found) \in found /\ \A j \in found : Min(found) <= j
  <2>. HIDE DEF found
  <2>. QED
    BY <1>1, LeastPlace
<1>3. /\ at # Lost /\ found # {} => to = Min(found)
      /\ at # Lost /\ found = {} /\ flexible /\ d # Len(dests) => to = at
      /\ at = Lost \/ (found = {} /\ ~(flexible /\ d # Len(dests))) => to = Lost
  <2>. DEFINE a == at # Lost /\ found # {}
              c == at # Lost /\ found = {} /\ flexible /\ d # Len(dests)
  <2>1. to = CASE a -> Min(found) [] c -> at [] OTHER -> Lost
    BY Zenon DEF NextStop
  <2>2. ~(a /\ c)
    OBVIOUS
  <2>. HIDE DEF a, c, to, found
  <2>3. (a => to = Min(found)) /\ (c => to = at) /\ (~a /\ ~c => to = Lost)
    BY <2>1, <2>2
  <2>4. at = Lost \/ (found = {} /\ ~(flexible /\ d # Len(dests))) => ~a /\ ~c
    BY Zenon DEF a, c
  <2>8. (a <=> at # Lost /\ found # {})
        /\ (c <=> at # Lost /\ found = {} /\ flexible /\ d # Len(dests))
    BY Zenon DEF a, c
  <2>5. at # Lost /\ found # {} => to = Min(found)
    BY <2>3, <2>8
  <2>6. at # Lost /\ found = {} /\ flexible /\ d # Len(dests) => to = at
    BY <2>3, <2>8
  <2>7. at = Lost \/ (found = {} /\ ~(flexible /\ d # Len(dests))) => to = Lost
    BY <2>3, <2>4
  <2>. QED
    BY <2>5, <2>6, <2>7
<1>. HIDE DEF found, to
<1>4. to \in Int
  <2>0. Lost \in Int
    BY DEF Lost
  <2>1. \A j \in found : j \in Int
    BY <1>1
  <2>2. to = Lost \/ to = at \/ (found # {} /\ to = Min(found))
    BY <1>3, Zenon
  <2>. QED
    BY <1>2, <2>0, <2>1, <2>2, Zenon
<1>5. at # Lost /\ found # {} => to \in found /\ \A j \in found : to <= j
  BY <1>2, <1>3
<1>6. at # Lost /\ found = {} => to = Lost \/ (to = at /\ flexible /\ d # Len(dests))
  BY <1>3, Zenon
<1>7. at = Lost => to = Lost
  BY <1>3
<1>. QED
  BY <1>4, <1>5, <1>6, <1>7, Zenon DEF found, to

\* g[n] is the stop consumed last by the first n destinations.
Walks(g, dests, stops, start, flexible) ==
    /\ g \in [0..Len(dests) -> Int]
    /\ g[0] = start
    /\ Walk(dests, stops, start, flexible) = g[Len(dests)]
    /\ \A n \in 1..Len(dests) : g[n] = NextStop(dests, stops, g[n - 1], n, flexible)

LEMMA WalkSteps ==
    ASSUME NEW S, NEW dests \in Seq(S), NEW W, NEW stops \in Seq(W), NEW start \in Int,
           NEW flexible
    PROVE  \E g : Walks(g, dests, stops, start, flexible)
<1>. DEFINE N == Len(dests)
            D == DOMAIN [i \in DOMAIN dests |-> i]
            step == [p \in Int \X (1..N) |-> NextStop(dests, stops, p[1], p[2], flexible)]
            Eq(f) == f = [t \in SUBSET D |->
                            IF t = {} THEN start
                            ELSE NextStop(dests, stops, f[t \ {Max(t)}],
                                          [i \in DOMAIN dests |-> i][Max(t)], flexible)]
<1>1. Walk(dests, stops, start, flexible) = (CHOOSE f : Eq(f))[D]
  BY Zenon DEF Walk, NextStop, FoldLeftDomain, FoldLeft, MapThenFoldSet
<1>2. /\ D = 1..N /\ N \in Nat /\ D = DOMAIN dests
      /\ \A i \in D : [j \in DOMAIN dests |-> j][i] = i
  OBVIOUS
<1>3. step \in [Int \X (1..N) -> Int]
  <2>1. \A at \in Int : \A i \in 1..N : NextStop(dests, stops, at, i, flexible) \in Int
    BY NextStopIs
  <2>. QED
    BY <2>1
<1>4. \A t \in SUBSET (1..N) : t # {} => Max(t) \in 1..N
  BY <1>2, GreatestPlace
<1>5. PICK f : IsFold(f, Int, N, start, step)
  <2>. HIDE DEF step, N
  <2>. QED
    BY <1>2, <1>3, FoldExists
<1>6. Eq(f)
  BY <1>2, <1>4, <1>5 DEF IsFold
<1>7. PICK h : Walk(dests, stops, start, flexible) = h[D] /\ Eq(h)
  <2>. HIDE DEF Eq, D
  <2>. QED
    BY <1>1, <1>6, Zenon
<1>8. Follows(h, Int, N, start, step)
  <2>1. \A t \in SUBSET D : h[t] =
             IF t = {} THEN start
             ELSE NextStop(dests, stops, h[t \ {Max(t)}],
                           [i \in DOMAIN dests |-> i][Max(t)], flexible)
    BY <1>7
  <2>. QED
    BY <1>2, <1>4, <2>1 DEF Follows
<1>9. PICK g : Trace(g, Int, N, start, step, h[1..N])
  <2>. HIDE DEF step, N
  <2>. QED
    BY <1>2, <1>3, <1>8, FoldSteps, Zenon
<1>10. ASSUME NEW n \in 1..N PROVE g[n] = NextStop(dests, stops, g[n - 1], n, flexible)
  <2>1. g[n - 1] \in Int
    BY <1>2, <1>9 DEF Trace
  <2>2. g[n] = step[<<g[n - 1], n>>] /\ <<g[n - 1], n>> \in Int \X (1..N)
    BY <2>1, <1>9 DEF Trace
  <2>. QED
    BY <2>2
<1>11. g \in [0..N -> Int] /\ g[0] = start /\ Walk(dests, stops, start, flexible) = g[N]
  BY <1>2, <1>7, <1>9 DEF Trace
<1>. QED
  BY <1>10, <1>11, Zenon DEF Walks

\* A walk that reaches its end goes forward, from stop to stop, to one its
\* last destination occurs in.
LEMMA WalkGoesForward ==
    ASSUME NEW S, NEW dests \in Seq(S), NEW W, NEW stops \in Seq(W), NEW start \in Nat,
           NEW flexible, NEW g, Walks(g, dests, stops, start, flexible), g[Len(dests)] # Lost
    PROVE  /\ \A n \in 0..Len(dests) : g[n] \in Int
           /\ \A i, j \in 0..Len(dests) : i <= j => g[i] <= g[j]
           /\ \A n \in 1..Len(dests) :
                  \/ g[n] \in StopsFor(dests[n], stops, g[n - 1])
                  \/ flexible /\ n # Len(dests)
<1>. DEFINE N == Len(dests)
<1>0. N \in Nat /\ (\A n \in 1..N : n - 1 \in 0..N /\ n \in 0..N) /\ N \in 0..N /\ 0 \in 0..N
  OBVIOUS
<1>1. /\ \A n \in 0..N : g[n] \in Int
      /\ g[0] = start
      /\ \A n \in 1..N : g[n] = NextStop(dests, stops, g[n - 1], n, flexible)
  BY DEF Walks
<1>. HIDE DEF N
<1>2. \A n \in 1..N :
         /\ g[n - 1] = Lost => g[n] = Lost
         /\ g[n - 1] # Lost /\ StopsFor(dests[n], stops, g[n - 1]) # {} =>
                g[n] \in StopsFor(dests[n], stops, g[n - 1])
         /\ g[n - 1] # Lost /\ StopsFor(dests[n], stops, g[n - 1]) = {} =>
                \/ g[n] = Lost
                \/ g[n] = g[n - 1] /\ flexible /\ n # N
  <2>1. SUFFICES ASSUME NEW n \in 1..N
        PROVE  /\ g[n - 1] = Lost => g[n] = Lost
               /\ g[n - 1] # Lost /\ StopsFor(dests[n], stops, g[n - 1]) # {} =>
                      g[n] \in StopsFor(dests[n], stops, g[n - 1])
               /\ g[n - 1] # Lost /\ StopsFor(dests[n], stops, g[n - 1]) = {} =>
                      \/ g[n] = Lost
                      \/ g[n] = g[n - 1] /\ flexible /\ n # N
    OBVIOUS
  <2>. DEFINE at == g[n - 1]
  <2>2. at \in Int
    BY <1>0, <1>1
  <2>3. g[n] = NextStop(dests, stops, at, n, flexible)
    BY <1>1
  <2>. HIDE DEF at
  <2>. DEFINE to == NextStop(dests, stops, at, n, flexible)
  <2>5. /\ at = Lost => to = Lost
        /\ at # Lost /\ StopsFor(dests[n], stops, at) # {} => to \in StopsFor(dests[n], stops, at)
        /\ at # Lost /\ StopsFor(dests[n], stops, at) = {} =>
               to = Lost \/ (to = at /\ flexible /\ n # Len(dests))
    BY <2>2, NextStopIs, Zenon
  <2>6. g[n] = to
    BY <2>3
  <2>. HIDE DEF to
  <2>4. /\ at = Lost => g[n] = Lost
        /\ at # Lost /\ StopsFor(dests[n], stops, at) # {} => g[n] \in StopsFor(dests[n], stops, at)
        /\ at # Lost /\ StopsFor(dests[n], stops, at) = {} =>
               g[n] = Lost \/ (g[n] = at /\ flexible /\ n # Len(dests))
    BY <2>5, <2>6
  <2>. QED
    BY <2>4, Zenon DEF at, N
<1>3. \A n \in 0..N : g[n] # Lost
  <2>1. SUFFICES ASSUME NEW m \in 0..N, g[m] = Lost PROVE FALSE
    OBVIOUS
  <2>. DEFINE T == {n \in 0..N : n >= m => g[n] = Lost}
  <2>2. 0 \in T
    BY <1>0, <2>1
  <2>3. ASSUME NEW n \in 1..N, n - 1 \in T PROVE n \in T
    <3>1. n >= m => n = m \/ n - 1 >= m
      BY <1>0
    <3>. QED
      BY <1>0, <1>2, <2>1, <2>3, <3>1
  <2>4. N \in T
    <3>. HIDE DEF T
    <3>1. \A n \in 0..N : n \in T
      BY <1>0, <2>2, <2>3, StepByStep
    <3>. QED
      BY <1>0, <3>1
  <2>. QED
    BY <1>0, <2>4 DEF N
<1>4. \A n \in 1..N : /\ g[n - 1] <= g[n]
                      /\ \/ g[n] \in StopsFor(dests[n], stops, g[n - 1])
                         \/ flexible /\ n # N
  <2>1. SUFFICES ASSUME NEW n \in 1..N
        PROVE  /\ g[n - 1] <= g[n]
               /\ \/ g[n] \in StopsFor(dests[n], stops, g[n - 1])
                  \/ flexible /\ n # N
    OBVIOUS
  <2>2. g[n - 1] \in Int /\ g[n] \in Int /\ g[n - 1] # Lost /\ g[n] # Lost
    BY <1>0, <1>1, <1>3
  <2>3. \/ g[n] \in StopsFor(dests[n], stops, g[n - 1])
        \/ g[n] = g[n - 1] /\ flexible /\ n # N
    BY <1>2, <2>2, Zenon
  <2>4. g[n] \in StopsFor(dests[n], stops, g[n - 1]) => g[n - 1] <= g[n]
    BY <2>2 DEF StopsFor
  <2>5. g[n] = g[n - 1] => g[n - 1] <= g[n]
    BY <2>2
  <2>. QED
    BY <2>3, <2>4, <2>5, Zenon
<1>5. \A i, j \in 0..N : i <= j => g[i] <= g[j]
  <2>. DEFINE T == {j \in 0..N : \A i \in 0..j : g[i] <= g[j]}
  <2>1. 0 \in T
    BY <1>0, <1>1
  <2>2. ASSUME NEW n \in 1..N, n - 1 \in T PROVE n \in T
    <3>1. n \in Nat /\ \A i \in 0..n : i \in 0..N /\ (i = n \/ i \in 0..(n - 1))
      BY <1>0
    <3>2. ASSUME NEW i \in 0..n PROVE g[i] <= g[n]
      <4>1. g[i] \in Int /\ g[n - 1] \in Int /\ g[n] \in Int
        BY <1>0, <1>1, <3>1
      <4>2. CASE i = n
        BY <4>1, <4>2
      <4>3. CASE i \in 0..(n - 1)
        <5>1. g[i] <= g[n - 1]
          BY <2>2, <4>3
        <5>2. g[n - 1] <= g[n]
          BY <1>4
        <5>. QED
          BY <4>1, <5>1, <5>2
      <4>. QED
        BY <3>1, <4>2, <4>3
    <3>. QED
      BY <1>0, <3>2
  <2>3. \A n \in 0..N : n \in T
    <3>. HIDE DEF T
    <3>. QED
      BY <1>0, <2>1, <2>2, StepByStep
  <2>4. \A i, j \in 0..N : i <= j => i \in 0..j
    BY <1>0
  <2>. QED
    BY <2>3, <2>4
<1>. QED
  BY <1>1, <1>4, <1>5 DEF N

\* A strict walk finds a placement of its destinations.
LEMMA StrictWalkPlaces ==
    ASSUME NEW S, NEW dests \in Seq(S), NEW W, NEW stops \in Seq(W), NEW start \in Nat,
           Walk(dests, stops, start, FALSE) # Lost
    PROVE  Placements(DOMAIN dests, dests, stops, start) # {}
<1>. DEFINE N == Len(dests)
<1>1. PICK g : Walks(g, dests, stops, start, FALSE)
  <2>1. start \in Int
    OBVIOUS
  <2>. QED
    BY <2>1, WalkSteps, Zenon
<1>2. g[Len(dests)] # Lost /\ g[0] = start
  BY <1>1 DEF Walks
<1>3. /\ \A n \in 0..Len(dests) : g[n] \in Int
      /\ \A i, j \in 0..Len(dests) : i <= j => g[i] <= g[j]
      /\ \A n \in 1..Len(dests) :
             \/ g[n] \in StopsFor(dests[n], stops, g[n - 1])
             \/ FALSE /\ n # Len(dests)
  BY <1>1, <1>2, WalkGoesForward
<1>4. /\ DOMAIN dests = 1..N /\ N \in Nat /\ DOMAIN stops = 1..Len(stops) /\ 0 \in 0..N
      /\ \A n \in 1..N : n - 1 \in 0..N /\ n \in 0..N /\ 0 <= n - 1
      /\ \A i, j \in 1..N : i < j => i <= j - 1
  OBVIOUS
<1>. HIDE DEF N
<1>5. \A n \in 1..N : g[n] \in StopsFor(dests[n], stops, g[n - 1])
  BY <1>3 DEF N
<1>6. \A n \in 1..N : g[n] \in 1..Len(stops) /\ g[n] > g[n - 1] /\ LocMatch(stops[g[n]], dests[n])
  BY <1>4, <1>5 DEF StopsFor
<1>7. \A n \in 0..N : g[n] \in Int
  BY <1>3 DEF N
<1>8. \A i, j \in 0..N : i <= j => g[i] <= g[j]
  BY <1>3 DEF N
<1>. DEFINE f == [n \in 1..N |-> g[n]]
<1>9. f \in [1..N -> start + 1 .. Len(stops)]
  <2>1. ASSUME NEW n \in 1..N PROVE g[n] \in start + 1 .. Len(stops)
    <3>1. start <= g[n - 1]
      BY <1>2, <1>4, <1>8
    <3>2. g[n] \in 1..Len(stops) /\ g[n] > g[n - 1] /\ g[n - 1] \in Int /\ g[n] \in Int
      BY <1>4, <1>6, <1>7
    <3>. QED
      BY <3>1, <3>2
  <2>. QED
    BY <2>1
<1>10. \A i, j \in 1..N : i < j => f[i] < f[j]
  <2>1. SUFFICES ASSUME NEW i \in 1..N, NEW j \in 1..N, i < j PROVE g[i] < g[j]
    OBVIOUS
  <2>2. g[i] <= g[j - 1]
    BY <1>4, <1>8, <2>1
  <2>3. g[j] > g[j - 1] /\ g[i] \in Int /\ g[j] \in Int /\ g[j - 1] \in Int
    BY <1>4, <1>6, <1>7
  <2>. QED
    BY <2>2, <2>3
<1>11. \A i \in 1..N : LocMatch(stops[f[i]], dests[i])
  BY <1>6
<1>12. f \in Placements(DOMAIN dests, dests, stops, start)
  <2>. HIDE DEF f
  <2>. QED
    BY <1>4, <1>9, <1>10, <1>11 DEF Placements
<1>. QED
  BY <1>12

\* Any walk finds a place for its last destination.
LEMMA WalkPlacesTheLast ==
    ASSUME NEW S, NEW dests \in Seq(S), dests # <<>>, NEW W, NEW stops \in Seq(W),
           NEW start \in Nat, NEW flexible, Walk(dests, stops, start, flexible) # Lost
    PROVE  Placements({Len(dests)}, dests, stops, start) # {}
<1>. DEFINE N == Len(dests)
<1>1. PICK g : Walks(g, dests, stops, start, flexible)
  <2>1. start \in Int
    OBVIOUS
  <2>. QED
    BY <2>1, WalkSteps, Zenon
<1>2. g[Len(dests)] # Lost /\ g[0] = start
  BY <1>1 DEF Walks
<1>3. /\ \A n \in 0..Len(dests) : g[n] \in Int
      /\ \A i, j \in 0..Len(dests) : i <= j => g[i] <= g[j]
      /\ \A n \in 1..Len(dests) :
             \/ g[n] \in StopsFor(dests[n], stops, g[n - 1])
             \/ flexible /\ n # Len(dests)
  BY <1>1, <1>2, WalkGoesForward
<1>4. /\ N \in 1..N /\ N - 1 \in 0..N /\ N \in 0..N /\ 0 \in 0..N /\ 0 <= N - 1
      /\ DOMAIN stops = 1..Len(stops) /\ Len(stops) \in Nat
  <2>1. N # 0 /\ N \in Nat
    BY EmptySeq
  <2>. QED
    BY <2>1
<1>5. g[N] \in StopsFor(dests[N], stops, g[N - 1])
  BY <1>3, <1>4
<1>6. start <= g[N - 1] /\ g[N] \in Int /\ g[N - 1] \in Int
  BY <1>2, <1>3, <1>4
<1>. DEFINE last == dests[N]  at == g[N]
<1>7. at \in start + 1 .. Len(stops) /\ LocMatch(stops[at], last)
  BY <1>4, <1>5, <1>6 DEF StopsFor
<1>. HIDE DEF last, at
<1>. DEFINE f == [n \in {N} |-> at]
<1>8. f \in Placements({N}, dests, stops, start)
  <2>1. f \in [{N} -> start + 1 .. Len(stops)]
    BY <1>7
  <2>2. \A i, j \in {N} : ~(i < j)
    BY <1>4
  <2>3. \A i \in {N} : LocMatch(stops[f[i]], dests[i])
    BY <1>7 DEF last
  <2>. HIDE DEF f
  <2>. QED
    BY <2>1, <2>2, <2>3 DEF Placements
<1>. QED
  BY <1>8

\* Where the destinations in K can be placed, a walk that may pass over the
\* others, which no stop names, does not get lost.
LEMMA PlacedIsWalked ==
    ASSUME NEW S, NEW dests \in Seq(S), NEW W, NEW stops \in Seq(W), NEW start \in Nat,
           NEW flexible, NEW K \in SUBSET DOMAIN dests,
           \A n \in DOMAIN dests \ K :
               flexible /\ n # Len(dests) /\ StopsFor(dests[n], stops, start) = {},
           NEW f \in Placements(K, dests, stops, start)
    PROVE  Walk(dests, stops, start, flexible) # Lost
<1>. DEFINE N == Len(dests)
<1>1. PICK g : Walks(g, dests, stops, start, flexible)
  <2>1. start \in Int
    OBVIOUS
  <2>. QED
    BY <2>1, WalkSteps, Zenon
<1>2. /\ \A n \in 0..N : g[n] \in Int
      /\ g[0] = start /\ Walk(dests, stops, start, flexible) = g[N]
      /\ \A n \in 1..N : g[n] = NextStop(dests, stops, g[n - 1], n, flexible)
  BY <1>1 DEF Walks
<1>3. /\ DOMAIN dests = 1..N /\ N \in Nat /\ DOMAIN stops = 1..Len(stops) /\ 0 \in 0..N /\ N \in 0..N
      /\ \A n \in 1..N : n - 1 \in 0..N /\ n \in 0..N /\ n \in Nat /\ n - 1 < n
  OBVIOUS
<1>4. /\ \A n \in K : f[n] \in start + 1 .. Len(stops) /\ LocMatch(stops[f[n]], dests[n])
      /\ \A i, j \in K : i < j => f[i] < f[j]
  BY DEF Placements
<1>5. \A n \in K : n \in 1..N /\ f[n] \in 1..Len(stops) /\ f[n] > start /\ f[n] \in Int
  BY <1>3, <1>4
<1>6. \A n \in 1..N \ K : flexible /\ n # Len(dests) /\ StopsFor(dests[n], stops, start) = {}
  BY <1>3
<1>. HIDE DEF N
<1>. DEFINE T == {n \in 0..N : g[n] >= start /\ \A m \in K : m > n => g[n] < f[m]}
<1>7. 0 \in T
  BY <1>2, <1>3, <1>5
<1>8. ASSUME NEW n \in 1..N, n - 1 \in T PROVE n \in T
  <2>. DEFINE at == g[n - 1]
              to == NextStop(dests, stops, at, n, flexible)
  <2>1. /\ at \in Int /\ at >= start /\ g[n] \in Int
        /\ \A m \in K : m > n - 1 => at < f[m]
    BY <1>2, <1>3, <1>8
  <2>2. g[n] = to
    BY <1>2
  <2>. HIDE DEF at
  <2>3. at # Lost
    BY <2>1 DEF Lost
  <2>4. StopsFor(dests[n], stops, at) # {} =>
            /\ to \in StopsFor(dests[n], stops, at)
            /\ \A j \in StopsFor(dests[n], stops, at) : to <= j
    BY <2>1, <2>3, NextStopIs, Zenon
  <2>0. ASSUME StopsFor(dests[n], stops, at) = {}, flexible, n # Len(dests) PROVE to = at
    <3>. DEFINE found == StopsFor(dests[n], stops, at)
                some == at # Lost /\ found # {}
                none == at # Lost /\ found = {} /\ flexible /\ n # Len(dests)
    <3>1. to = CASE some -> Min(found) [] none -> at [] OTHER -> Lost
      BY Zenon DEF NextStop
    <3>2. ~some /\ none
      BY <2>0, <2>3
    <3>. HIDE DEF some, none, to, found
    <3>. QED
      BY <3>1, <3>2
  <2>. HIDE DEF to
  <2>5. CASE n \in K
    <3>1. at < f[n]
      BY <1>5, <2>1, <2>5
    <3>2. f[n] \in StopsFor(dests[n], stops, at)
      BY <1>3, <1>4, <1>5, <2>1, <2>5, <3>1 DEF StopsFor
    <3>3. g[n] \in StopsFor(dests[n], stops, at) /\ g[n] <= f[n]
      BY <2>2, <2>4, <3>2
    <3>4. g[n] > at
      BY <3>3 DEF StopsFor
    <3>5. \A m \in K : m > n => g[n] < f[m]
      <4>1. \A m \in K : m > n => f[n] < f[m] /\ f[n] \in Int /\ f[m] \in Int
        BY <1>4, <1>5, <2>5
      <4>. QED
        BY <2>1, <3>3, <4>1
    <3>. QED
      BY <1>3, <2>1, <3>4, <3>5
  <2>6. CASE n \notin K
    <3>1. flexible /\ n # Len(dests) /\ StopsFor(dests[n], stops, start) = {}
      BY <1>6, <2>6
    <3>2. StopsFor(dests[n], stops, at) = {}
      BY <1>3, <2>1, <3>1 DEF StopsFor
    <3>3. g[n] = at
      BY <2>0, <2>2, <3>1, <3>2
    <3>4. \A m \in K : m > n => m > n - 1
      BY <1>3, <1>5
    <3>. QED
      BY <1>3, <2>1, <3>3, <3>4
  <2>. QED
    BY <2>5, <2>6
<1>9. N \in T
  <2>. HIDE DEF T
  <2>1. \A n \in 0..N : n \in T
    BY <1>3, <1>7, <1>8, StepByStep
  <2>. QED
    BY <1>3, <2>1
<1>10. g[N] \in Int /\ g[N] >= 0
  BY <1>2, <1>3, <1>9
<1>. QED
  BY <1>2, <1>10 DEF Lost

(***************************************************************************)
(* The stops of a ticket                                                   *)
(***************************************************************************)
LEMMA Listed ==
    ASSUME NEW N \in Nat, NEW s, DOMAIN s = 1..N, s = [i \in 1..N |-> s[i]]
    PROVE  s \in Seq(ToSet(s))
<1>1. \A i \in 1..N : s[i] \in ToSet(s)
  BY DEF ToSet
<1>2. s \in [1..N -> ToSet(s)]
  BY <1>1
<1>. QED
  BY <1>2, SeqDef

LEMMA SeqIsListed ==
    ASSUME NEW S, NEW s \in Seq(S)
    PROVE  s \in Seq(ToSet(s))
<1>1. Len(s) \in Nat /\ DOMAIN s = 1..Len(s) /\ s = [i \in 1..Len(s) |-> s[i]]
  OBVIOUS
<1>. QED
  BY <1>1, Listed

\* The trimmed texts that are left of a list are a list.
LEMMA TextsAreListed ==
    ASSUME NEW S, NEW vs \in Seq(S)
    PROVE  Texts(vs) \in Seq(ToSet(Texts(vs)))
<1>. DEFINE m == Map(Trim, vs)
            I == {i \in DOMAIN m : m[i] # <<>>}
<1>1. m = [i \in 1..Len(vs) |-> Trim(vs[i])] /\ Len(vs) \in Nat
  <2>1. m = [i \in DOMAIN vs |-> Trim(vs[i])]
    BY Zenon DEF Map
  <2>2. DOMAIN vs = 1..Len(vs) /\ Len(vs) \in Nat
    OBVIOUS
  <2>. QED
    BY <2>1, <2>2
<1>2. Texts(vs) = Picked(m, I)
  BY Zenon DEF Texts, Keep
<1>. HIDE DEF m, I
<1>3. m \in Seq(ToSet(m))
  BY <1>1, Listed
<1>4. Picked(m, I) \in Seq(ToSet(m))
  BY <1>3, PickedPlaces
<1>. QED
  BY <1>2, <1>4, SeqIsListed

LEMMA NonEmptyIs ==
    ASSUME NEW S, NEW vs \in Seq(S)
    PROVE  NonEmpty(vs) \in Seq(S)
<1>. DEFINE I == {i \in DOMAIN vs : vs[i] # <<>>}
<1>1. NonEmpty(vs) = Picked(vs, I)
  BY Zenon DEF NonEmpty, Keep
<1>. HIDE DEF I
<1>. QED
  BY <1>1, PickedPlaces

\* What is left of the texts made of the items of a list is a list.
LEMMA NonEmptyIsListed ==
    ASSUME NEW S, NEW items \in Seq(S), NEW m, m = [i \in DOMAIN items |-> m[i]]
    PROVE  NonEmpty(m) \in Seq(ToSet(NonEmpty(m)))
<1>1. m = [i \in 1..Len(items) |-> m[i]] /\ Len(items) \in Nat /\ DOMAIN m = 1..Len(items)
  OBVIOUS
<1>2. m \in Seq(ToSet(m))
  BY <1>1, Listed
<1>. QED
  BY <1>2, NonEmptyIs, SeqIsListed

LEMMA ItemsAreListed ==
    ASSUME NEW raw, RawObject(raw), NEW k
    PROVE  Items(raw, k) \in Seq(ToSet(Items(raw, k)))
<1>1. <<>> \in Seq(ToSet(<<>>))
  OBVIOUS
<1>. QED
  BY <1>1 DEF RawObject, Items, Present

LegNames(leg) ==
    NonEmpty(Map(LAMBDA node : PickText(node, <<"name">>), Items(leg, "node_info_list")))

LEMMA LegNamesAreListed ==
    ASSUME NEW leg, RawObject(leg)
    PROVE  LegNames(leg) \in Seq(ToSet(LegNames(leg)))
<1>. DEFINE items == Items(leg, "node_info_list")
            m == [i \in DOMAIN items |-> PickText(items[i], <<"name">>)]
<1>1. LegNames(leg) = NonEmpty(m)
  BY Zenon DEF LegNames, Map
<1>2. items \in Seq(ToSet(items))
  BY ItemsAreListed
<1>. HIDE DEF items
<1>3. m = [i \in DOMAIN items |-> m[i]]
  OBVIOUS
<1>. HIDE DEF m
<1>. QED
  BY <1>1, <1>2, <1>3, NonEmptyIsListed

\* The names of all the legs are a list.
LEMMA RouteDetailsAreListed ==
    ASSUME NEW raw, RawTicket(raw)
    PROVE  ParseRouteDetailList(raw) \in Seq(ToSet(ParseRouteDetailList(raw)))
<1>. DEFINE legs == Items(raw, "route_detail_list")
            N == Len(legs)
            D == DOMAIN legs
            W == UNION {ToSet(LegNames(legs[i])) : i \in DOMAIN legs}
            A == Seq(W)
            step == [p \in A \X (1..N) |-> p[1] \o LegNames(legs[p[2]])]
            Eq(f) == f = [t \in SUBSET D |->
                            IF t = {} THEN <<>>
                            ELSE f[t \ {Max(t)}] \o LegNames(legs[Max(t)])]
<1>1. ParseRouteDetailList(raw) = (CHOOSE f : Eq(f))[D]
  BY Zenon DEF ParseRouteDetailList, LegNames, FoldLeft, MapThenFoldSet
<1>2. legs \in Seq(ToSet(legs)) /\ \A i \in DOMAIN legs : RawObject(legs[i])
  BY ItemsAreListed DEF RawTicket, ToSet
<1>. HIDE DEF legs
<1>3. D = 1..N /\ N \in Nat
  BY <1>2
<1>4. \A i \in 1..N : LegNames(legs[i]) \in A
  <2>1. SUFFICES ASSUME NEW i \in 1..N PROVE LegNames(legs[i]) \in A
    OBVIOUS
  <2>. DEFINE names == LegNames(legs[i])
  <2>2. names \in Seq(ToSet(names))
    BY <1>2, <1>3, LegNamesAreListed
  <2>3. ToSet(names) \subseteq W
    BY <1>3
  <2>. HIDE DEF W, names
  <2>4. names \in Seq(W)
    BY <2>2, <2>3
  <2>. QED
    BY <2>4 DEF names
<1>. HIDE DEF W
<1>5. step \in [A \X (1..N) -> A] /\ <<>> \in A
  <2>1. \A names \in A : \A i \in 1..N : names \o LegNames(legs[i]) \in A
    BY <1>4
  <2>. HIDE DEF A
  <2>2. step \in [A \X (1..N) -> A]
    BY <2>1
  <2>3. <<>> \in A
    BY DEF A
  <2>. QED
    BY <2>2, <2>3
<1>6. \A t \in SUBSET (1..N) : t # {} => Max(t) \in 1..N
  BY <1>3, GreatestPlace
<1>. HIDE DEF A
<1>7. PICK f : IsFold(f, A, N, <<>>, step)
  <2>. HIDE DEF step, N
  <2>. QED
    BY <1>3, <1>5, FoldExists
<1>8. Eq(f)
  BY <1>3, <1>6, <1>7 DEF IsFold
<1>9. PICK h : ParseRouteDetailList(raw) = h[D] /\ Eq(h)
  <2>. HIDE DEF Eq, D
  <2>. QED
    BY <1>1, <1>8, Zenon
<1>10. Follows(h, A, N, <<>>, step)
  <2>1. \A t \in SUBSET D : h[t] = IF t = {} THEN <<>>
                                   ELSE h[t \ {Max(t)}] \o LegNames(legs[Max(t)])
    BY <1>9
  <2>. QED
    BY <1>3, <1>6, <2>1 DEF Follows
<1>11. PICK g : Trace(g, A, N, <<>>, step, h[1..N])
  <2>. HIDE DEF step, N
  <2>. QED
    BY <1>3, <1>5, <1>10, FoldSteps, Zenon
<1>12. h[1..N] \in A
  BY <1>3, <1>11 DEF Trace
<1>. QED
  BY <1>3, <1>9, <1>12, SeqIsListed DEF A

\* The parts of a text between its arrows are a list.
LEMMA PartsAreListed ==
    ASSUME NEW V, NEW s \in Seq(V)
    PROVE  SplitAtArrows(s) \in Seq(ToSet(SplitAtArrows(s)))
<1>. DEFINE N == Len(s)
            D == DOMAIN s
            A == Seq(Seq(V)) \ {<<>>}
            next(parts, w) == IF w = Arrow THEN Append(parts, <<>>)
                              ELSE [parts EXCEPT ![Len(parts)] = Append(@, w)]
            step == [p \in A \X (1..N) |-> next(p[1], s[p[2]])]
            Eq(f) == f = [t \in SUBSET D |->
                            IF t = {} THEN <<<<>>>> ELSE next(f[t \ {Max(t)}], s[Max(t)])]
            all == FoldLeft(LAMBDA parts, w :
                          IF w = Arrow THEN Append(parts, <<>>)
                          ELSE [parts EXCEPT ![Len(parts)] = Append(@, w)],
                      <<<<>>>>, s)
<1>1. all = (CHOOSE f : Eq(f))[D]
  BY Zenon DEF FoldLeft, MapThenFoldSet
<1>2. SplitAtArrows(s) = NonEmpty(all)
  BY Zenon DEF SplitAtArrows
<1>. HIDE DEF all
<1>3. D = 1..N /\ N \in Nat /\ \A i \in 1..N : s[i] \in V
  OBVIOUS
<1>4. \A parts \in A : \A w \in V : next(parts, w) \in A
  <2>1. SUFFICES ASSUME NEW parts \in A, NEW w \in V PROVE next(parts, w) \in A
    OBVIOUS
  <2>2. Append(parts, <<>>) \in A
    OBVIOUS
  <2>3. Len(parts) \in DOMAIN parts /\ parts[Len(parts)] \in Seq(V)
    <3>1. Len(parts) # 0 /\ Len(parts) \in Nat
      BY EmptySeq
    <3>. QED
      BY <3>1
  <2>. DEFINE to == Append(parts[Len(parts)], w)
              new == [parts EXCEPT ![Len(parts)] = to]
  <2>4. to \in Seq(V)
    BY <2>3
  <2>. HIDE DEF to
  <2>5. new \in Seq(Seq(V)) /\ DOMAIN new = DOMAIN parts
    BY <2>4
  <2>6. new # <<>>
    BY <2>3, <2>5
  <2>. QED
    BY <2>2, <2>5, <2>6 DEF to
<1>. HIDE DEF next
<1>5. step \in [A \X (1..N) -> A] /\ <<<<>>>> \in A
  <2>1. <<<<>>>> \in A
    OBVIOUS
  <2>. HIDE DEF A
  <2>2. step \in [A \X (1..N) -> A]
    BY <1>3, <1>4
  <2>. QED
    BY <2>1, <2>2
<1>6. \A t \in SUBSET (1..N) : t # {} => Max(t) \in 1..N
  BY <1>3, GreatestPlace
<1>. HIDE DEF A
<1>7. PICK f : IsFold(f, A, N, <<<<>>>>, step)
  <2>. HIDE DEF step, N
  <2>. QED
    BY <1>3, <1>5, FoldExists
<1>8. Eq(f)
  BY <1>3, <1>6, <1>7 DEF IsFold
<1>9. PICK h : all = h[D] /\ Eq(h)
  <2>. HIDE DEF Eq, D
  <2>. QED
    BY <1>1, <1>8, Zenon
<1>10. Follows(h, A, N, <<<<>>>>, step)
  <2>1. \A t \in SUBSET D : h[t] = IF t = {} THEN <<<<>>>> ELSE next(h[t \ {Max(t)}], s[Max(t)])
    BY <1>9
  <2>. QED
    BY <1>3, <1>6, <2>1 DEF Follows
<1>11. PICK g : Trace(g, A, N, <<<<>>>>, step, h[1..N])
  <2>. HIDE DEF step, N
  <2>. QED
    BY <1>3, <1>5, <1>10, FoldSteps, Zenon
<1>12. all \in A
  <2>1. h[1..N] \in A
    BY <1>3, <1>11 DEF Trace
  <2>. QED
    BY <1>3, <1>9, <2>1
<1>. QED
  BY <1>2, <1>12, NonEmptyIs, SeqIsListed DEF A

LEMMA RouteStopsAreListed ==
    ASSUME NEW raw, RawTicket(raw)
    PROVE  ParseRouteStops(raw) \in Seq(ToSet(ParseRouteStops(raw)))
<1>. DEFINE list(x) == x \in Seq(ToSet(x))
            c1 == Items(raw, "route_stops") # <<>>
            v1 == NonEmpty(Map(BareText, Items(raw, "route_stops")))
            c2 == ParseRouteDetailList(raw) # <<>>
            v2 == ParseRouteDetailList(raw)
            c3 == ParseRouteList(raw) # <<>>
            v3 == ParseRouteList(raw)
            c4 == Filled(raw, "sgi_route_name")
            v4 == SplitAtArrows(TextOf(raw["sgi_route_name"]))
            c5 == Filled(raw, "report_station_name")
            v5 == <<TextOf(raw["report_station_name"])>>
            v6 == HubNames(raw)
<1>0. RawObject(raw)
  BY DEF RawTicket
<1>1. list(v1)
  <2>. DEFINE items == Items(raw, "route_stops")
              m == [i \in DOMAIN items |-> BareText(items[i])]
  <2>1. v1 = NonEmpty(m)
    BY Zenon DEF Map
  <2>2. items \in Seq(ToSet(items))
    BY <1>0, ItemsAreListed
  <2>. HIDE DEF items
  <2>3. m = [i \in DOMAIN items |-> m[i]]
    OBVIOUS
  <2>. HIDE DEF m, v1
  <2>. QED
    BY <2>1, <2>2, <2>3, NonEmptyIsListed
<1>2. list(v2)
  BY RouteDetailsAreListed
<1>3. list(v3)
  <2>. DEFINE key == Head(FirstRouteKey(raw))
              items == Items(raw, key)
              m == [i \in DOMAIN items |->
                       Only({TextOf(v) : v \in Nullish(items[i], StopKeys)}, <<>>)]
  <2>1. v3 = IF FirstRouteKey(raw) = <<>> THEN <<>> ELSE NonEmpty(m)
    BY Zenon DEF ParseRouteList, Map
  <2>2. items \in Seq(ToSet(items))
    BY <1>0, ItemsAreListed
  <2>. HIDE DEF items
  <2>3. m = [i \in DOMAIN items |-> m[i]]
    OBVIOUS
  <2>. HIDE DEF m
  <2>4. list(NonEmpty(m)) /\ list(<<>>)
    <3>1. list(<<>>)
      OBVIOUS
    <3>. QED
      BY <2>2, <2>3, <3>1, NonEmptyIsListed
  <2>. HIDE DEF list, v3
  <2>. QED
    BY <2>1, <2>4
<1>4. c4 => list(v4)
  <2>1. SUFFICES ASSUME c4 PROVE list(v4)
    OBVIOUS
  <2>. DEFINE v == raw["sgi_route_name"]  s == TextOf(v)
  <2>2. IsText(v) => v.s \in Seq(STRING)
    BY <1>0, <2>1 DEF Filled, Present, RawObject
  <2>. HIDE DEF v
  <2>3. NumeralOf(v.n) \in Seq({Digits[v.n], "0"})
    <3>1. \A x, y : <<x>> \in Seq({x, y}) /\ <<y>> \in Seq({x, y})
      OBVIOUS
    <3>. QED
      BY <3>1, Zenon DEF NumeralOf
  <2>4. PICK V : s \in Seq(V)
    <3>2. CASE IsText(v)
      <4>1. s = v.s
        BY <3>2 DEF TextOf
      <4>. HIDE DEF s
      <4>. QED
        BY <2>2, <3>2, <4>1
    <3>3. CASE ~IsText(v)
      <4>1. s = NumeralOf(v.n)
        BY <3>3 DEF TextOf
      <4>. HIDE DEF s
      <4>. QED
        BY <2>3, <4>1
    <3>. QED
      BY <3>2, <3>3
  <2>. HIDE DEF s
  <2>5. list(SplitAtArrows(s))
    BY <2>4, PartsAreListed
  <2>. QED
    BY <2>5 DEF s, v
<1>5. list(v5)
  <2>. DEFINE x == TextOf(raw["report_station_name"])
  <2>1. <<x>> \in Seq({x})
    OBVIOUS
  <2>. HIDE DEF x
  <2>2. list(<<x>>)
    BY <2>1, SeqIsListed
  <2>. QED
    BY <2>2 DEF x
<1>6. list(v6)
  <2>. DEFINE x == PickText(raw, OriginKeys)  y == PickText(raw, DestKeys)
  <2>1. <<x, y>> \in Seq({x, y})
    OBVIOUS
  <2>2. v6 = NonEmpty(<<x, y>>)
    BY DEF HubNames
  <2>. HIDE DEF x, y, v6
  <2>. QED
    BY <2>1, <2>2, NonEmptyIs, SeqIsListed
<1>7. ParseRouteStops(raw) = CASE c1 -> v1 [] c2 -> v2 [] c3 -> v3 [] c4 -> v4 [] c5 -> v5
                               [] OTHER -> v6
  BY Zenon DEF ParseRouteStops
<1>. HIDE DEF list, c1, c2, c3, c4, c5, v1, v2, v3, v4, v5, v6
<1>8. list(ParseRouteStops(raw))
  BY <1>1, <1>2, <1>3, <1>4, <1>5, <1>6, <1>7
<1>. QED
  BY <1>8 DEF list

LEMMA StopsAreListed ==
    ASSUME NEW S, NEW b, b.route_stops \in Seq(S)
    PROVE  Stops(b) \in Seq(ToSet(Stops(b)))
BY TextsAreListed DEF Stops

\* What the rules read of a ticket.
LEMMA CoreIs ==
    /\ Core.booking_type = TypeOf(ticket)
    /\ Core.vehicle_type = VehicleOf(ticket)
    /\ Core.route_stops = ParseRouteStops(ticket)
<1>. DEFINE b == NormalizeBooking(ticket)
<1>1. /\ b.booking_type = TypeOf(ticket) /\ b.vehicle_type = VehicleOf(ticket)
      /\ b.route_stops = ParseRouteStops(ticket)
  BY DEF NormalizeBooking
<1>. HIDE DEF b
<1>2. Core = [k \in CoreFields |-> b[k]]
  BY DEF Core, Booking, ToCoreBooking, Restrict, b
<1>3. {"booking_type", "vehicle_type", "route_stops"} \subseteq CoreFields
  BY DEF CoreFields
<1>4. /\ Core["booking_type"] = b["booking_type"]
      /\ Core["vehicle_type"] = b["vehicle_type"]
      /\ Core["route_stops"] = b["route_stops"]
  BY <1>2, <1>3
<1>. QED
  BY <1>1, <1>4

(***************************************************************************)
(* What a rule that matches asks for                                       *)
(***************************************************************************)
LEMMA DestinationsNormIs ==
    ASSUME NEW r \in SettledRules
    PROVE  /\ DestinationsNorm(r) = Map(NormLoc, r.destinations)
           /\ DestinationsNorm(r) \in Seq(Phrase)
           /\ DestinationsNorm(r) = <<>> <=> r.destinations = <<>>
<1>. DEFINE d == r.destinations
            m == [i \in DOMAIN d |-> NormLoc(d[i])]
<1>1. Texts(d) = d /\ d \in Seq(Phrase)
  BY SettledFields, CleanStays
<1>2. DestinationsNorm(r) = Map(NormLoc, d)
  BY <1>1, Zenon DEF DestinationsNorm
<1>3. Map(NormLoc, d) = m
  BY Zenon DEF Map
<1>. HIDE DEF d
<1>4. \A i \in DOMAIN d : NormLoc(d[i]) \in Phrase
  <2>1. \A i \in DOMAIN d : d[i] \in Phrase
    BY <1>1
  <2>. QED
    BY <2>1, NormalForms DEF Phrase
<1>5. m \in Seq(Phrase) /\ Len(m) = Len(d)
  <2>1. m = [i \in 1..Len(d) |-> NormLoc(d[i])] /\ Len(d) \in Nat
    BY <1>1
  <2>2. m \in [1..Len(d) -> Phrase]
    BY <1>1, <1>4, <2>1
  <2>3. m \in Seq(Phrase)
    BY <2>1, <2>2, SeqDef
  <2>4. DOMAIN m = 1..Len(d)
    BY <2>1
  <2>. HIDE DEF m
  <2>. QED
    BY <2>1, <2>3, <2>4
<1>. HIDE DEF m
<1>6. m = <<>> <=> d = <<>>
  BY <1>1, <1>5, EmptySeq
<1>. QED
  BY <1>2, <1>3, <1>5, <1>6 DEF d

LEMMA MatchAsks ==
    ASSUME NEW r \in SettledRules, NEW b, Matches(r, b)
    PROVE  \/ IdsOf(r) # {}
           \/ r.mode = "route" /\ (HasOrigin(r) \/ r.destinations # <<>> \/ r.booking_type # "all")
           \/ r.max_weight # {} \/ r.max_cod_amount # {} \/ r.coc_only \/ r.non_coc_only
           \/ r.service_types # <<>>
<1>1. CASE r.mode = "booking_id" /\ MatchesBookingId(r, b)
  BY <1>1 DEF MatchesBookingId
<1>2. CASE r.mode = "route" /\ MatchesRoute(r, b)
  <2>1. \/ HasOrigin(r) \/ DestinationsNorm(r) # <<>>
        \/ FilterActive(r) \/ r.booking_type # "all"
    BY <1>2 DEF MatchesRoute
  <2>. QED
    BY <1>2, <2>1, DestinationsNormIs DEF FilterActive
<1>3. CASE r.mode = "filter" /\ MatchesFilter(r, b)
  BY <1>3 DEF MatchesFilter, FilterActive
<1>. QED
  BY <1>1, <1>2, <1>3 DEF Matches

LEMMA StartIs ==
    ASSUME NEW r, NEW b
    PROVE  /\ Start(r, b) = IF OriginIsFirstStop(r, b) THEN 1 ELSE 0
           /\ Start(r, b) \in Nat
<1>1. Start(r, b) = IF OriginIsFirstStop(r, b) THEN 1 ELSE 0
  BY Zenon DEF Start, One
<1>. QED
  BY <1>1

\* A rule's destinations, normalised, the ticket's stops, and where its walk
\* through them starts.
LEMMA RouteIs ==
    ASSUME NEW r \in SettledRules, NEW b, NEW S, b.route_stops \in Seq(S)
    PROVE  LET dests == DestinationsNorm(r)
               stops == Stops(b)
               from  == Start(r, b)
           IN  /\ dests \in Seq(Phrase) /\ stops \in Seq(ToSet(stops)) /\ from \in Nat
               /\ dests = <<>> <=> r.destinations = <<>>
               /\ DOMAIN dests = DOMAIN r.destinations /\ Len(dests) = Len(r.destinations)
               /\ \A K : CanBePlaced(K, r, b) <=> Placements(K, dests, stops, from) # {}
               /\ Known(r, b) =
                      {i \in DOMAIN dests :
                          i = Len(dests) \/ StopsFor(dests[i], stops, from) # {}}
<1>. DEFINE dests == DestinationsNorm(r)
            stops == Stops(b)
            from  == Start(r, b)
            d == r.destinations
<1>1. stops \in Seq(ToSet(stops))
  BY StopsAreListed
<1>2. dests \in Seq(Phrase) /\ dests = Map(NormLoc, d) /\ (dests = <<>> <=> d = <<>>)
  BY DestinationsNormIs, Zenon
<1>3. from \in Nat /\ from = IF OriginIsFirstStop(r, b) THEN 1 ELSE 0
  BY StartIs
<1>4. dests = [i \in DOMAIN d |-> NormLoc(d[i])]
  BY <1>2, Zenon DEF Map
<1>5. d \in Seq(Phrase)
  BY SettledFields
<1>6. \A K : CanBePlaced(K, r, b) <=> Placements(K, dests, stops, from) # {}
  BY <1>2, <1>3, Zenon DEF CanBePlaced
<1>7. Known(r, b) = {i \in DOMAIN d : i = Len(d) \/ StopsFor(NormLoc(d[i]), stops, from) # {}}
  BY <1>3, Zenon DEF Known
<1>. HIDE DEF dests, stops, from, d
<1>8. DOMAIN dests = DOMAIN d /\ Len(dests) = Len(d) /\ \A i \in DOMAIN d : dests[i] = NormLoc(d[i])
  BY <1>2, <1>4, <1>5
<1>9. Known(r, b) = {i \in DOMAIN dests :
                         i = Len(dests) \/ StopsFor(dests[i], stops, from) # {}}
  BY <1>7, <1>8
<1>. QED
  BY <1>1, <1>2, <1>3, <1>6, <1>8, <1>9 DEF dests, stops, from, d

LEMMA MatchIsServed ==
    ASSUME NEW r \in SettledRules, NEW b, NEW S, b.route_stops \in Seq(S),
           r.mode = "route", Matches(r, b)
    PROVE  RestAllows(r, b) /\ MustRun(r, b)
<1>. DEFINE dests == DestinationsNorm(r)
            stops == Stops(b)
            from  == Start(r, b)
<1>1. /\ dests \in Seq(Phrase) /\ stops \in Seq(ToSet(stops)) /\ from \in Nat
      /\ dests = <<>> <=> r.destinations = <<>>
      /\ DOMAIN dests = DOMAIN r.destinations /\ Len(dests) = Len(r.destinations)
      /\ \A K : CanBePlaced(K, r, b) <=> Placements(K, dests, stops, from) # {}
  BY RouteIs
<1>2. MatchesRoute(r, b) /\ r.enabled /\ WithinCap(r) /\ ShiftOK(r, b)
  BY DEF Matches
<1>3. /\ HasOrigin(r) \/ dests # <<>> \/ FilterActive(r) \/ r.booking_type # "all"
      /\ OriginOK(r, b) /\ DestinationsOK(r, b) /\ r.booking_type \in {"all", b.booking_type}
      /\ ServiceOK(r, b) /\ WeightOK(r, b) /\ CodOK(r, b) /\ CocOK(r, b)
  BY <1>2 DEF MatchesRoute
<1>4. dests # <<>> => Walk(dests, stops, from, r.match_mode = "flexible") # Lost
  BY <1>3, Zenon DEF DestinationsOK
<1>. HIDE DEF dests, stops, from
<1>5. RestAllows(r, b)
  BY <1>1, <1>2, <1>3 DEF RestAllows
<1>6. CASE r.destinations = <<>>
  BY <1>5, <1>6 DEF MustRun
<1>7. CASE r.destinations # <<>> /\ r.match_mode = "strict"
  <2>1. (r.match_mode = "flexible") = FALSE
    BY <1>7
  <2>2. Walk(dests, stops, from, FALSE) # Lost
    BY <1>1, <1>4, <1>7, <2>1, Zenon
  <2>3. Placements(DOMAIN dests, dests, stops, from) # {}
    BY <1>1, <2>2, StrictWalkPlaces, Zenon
  <2>. QED
    BY <1>1, <1>5, <1>7, <2>3 DEF MustRun
<1>8. CASE r.destinations # <<>> /\ r.match_mode # "strict"
  <2>. DEFINE flexible == r.match_mode = "flexible"
  <2>1. Walk(dests, stops, from, flexible) # Lost
    BY <1>1, <1>4, <1>8
  <2>2. dests \in Seq(Phrase) /\ dests # <<>> /\ stops \in Seq(ToSet(stops)) /\ from \in Nat
    BY <1>1, <1>8
  <2>. HIDE DEF flexible
  <2>3. Placements({Len(dests)}, dests, stops, from) # {}
    BY <2>1, <2>2, WalkPlacesTheLast
  <2>. QED
    BY <1>1, <1>5, <1>8, <2>3 DEF MustRun
<1>. QED
  BY <1>6, <1>7, <1>8

LEMMA ServedIsMatch ==
    ASSUME NEW r \in SettledRules, NEW b, NEW S, b.route_stops \in Seq(S),
           r.mode = "route", RestAllows(r, b), RunsEnough(r, b)
    PROVE  Matches(r, b)
<1>. DEFINE dests == DestinationsNorm(r)
            stops == Stops(b)
            from  == Start(r, b)
            flexible == r.match_mode = "flexible"
            K == IF r.match_mode = "strict" THEN DOMAIN dests ELSE Known(r, b)
<1>1. /\ dests \in Seq(Phrase) /\ stops \in Seq(ToSet(stops)) /\ from \in Nat
      /\ dests = <<>> <=> r.destinations = <<>>
      /\ DOMAIN dests = DOMAIN r.destinations /\ Len(dests) = Len(r.destinations)
      /\ \A P : CanBePlaced(P, r, b) <=> Placements(P, dests, stops, from) # {}
      /\ Known(r, b) = {i \in DOMAIN dests :
                            i = Len(dests) \/ StopsFor(dests[i], stops, from) # {}}
  BY RouteIs
<1>2. DestinationsOK(r, b) <=>
          dests = <<>> \/ (stops # <<>> /\ Walk(dests, stops, from, flexible) # Lost)
  BY Zenon DEF DestinationsOK
<1>3. r.match_mode \in {"strict", "flexible"}
  BY SettledFields DEF RuleRecord
<1>. HIDE DEF dests, stops, from, flexible
<1>4. ASSUME dests # <<>> PROVE DestinationsOK(r, b)
  <2>1. Placements(K, dests, stops, from) # {}
    BY <1>1, <1>4 DEF RunsEnough
  <2>2. /\ K \in SUBSET DOMAIN dests /\ Len(dests) \in DOMAIN dests /\ Len(dests) \in K
        /\ \A n \in DOMAIN dests \ K :
               flexible /\ n # Len(dests) /\ StopsFor(dests[n], stops, from) = {}
    <3>1. Len(dests) # 0 /\ Len(dests) \in Nat /\ DOMAIN dests = 1..Len(dests)
      BY <1>1, <1>4, EmptySeq
    <3>2. Len(dests) \in DOMAIN dests
      BY <3>1
    <3>. QED
      BY <1>1, <1>3, <3>2 DEF flexible
  <2>. HIDE DEF K
  <2>3. PICK f : f \in Placements(K, dests, stops, from)
    BY <2>1
  <2>4. stops # <<>>
    <3>1. f[Len(dests)] \in from + 1 .. Len(stops)
      BY <2>2, <2>3 DEF Placements
    <3>2. Len(stops) > 0
      BY <1>1, <3>1
    <3>. QED
      BY <3>2
  <2>5. Walk(dests, stops, from, flexible) # Lost
    BY <1>1, <2>2, <2>3, PlacedIsWalked
  <2>. QED
    BY <1>2, <2>4, <2>5
<1>5. DestinationsOK(r, b)
  BY <1>2, <1>4
<1>6. MatchesRoute(r, b)
  <2>1. HasOrigin(r) \/ DestinationsNorm(r) # <<>> \/ FilterActive(r) \/ r.booking_type # "all"
    BY <1>1 DEF RestAllows, dests
  <2>. QED
    BY <1>5, <2>1 DEF RestAllows, MatchesRoute
<1>. QED
  BY <1>6 DEF RestAllows, Matches

(***************************************************************************)
(* The inductive invariant of RuleBook                                     *)
(***************************************************************************)
Stored == DedupeRules(Sent)

Counted(r, n) == [r EXCEPT !.accepted_count = n]

\* A row is as it was saved, but for the tickets it has won since.
RowsKept ==
    pc # "page" =>
        /\ page \in Saves
        /\ rows \in Seq(SettledRules)
        /\ DOMAIN rows = DOMAIN Stored
        /\ \A i \in DOMAIN rows :
               /\ rows[i].accepted_count >= Stored[i].accepted_count
               /\ rows[i] = Counted(Stored[i], rows[i].accepted_count)

\* Each row is loaded once; its copy may lag behind its count.
RulesLoaded ==
    pc \notin {"page", "saved"} =>
        /\ rules = [k \in DOMAIN rows |-> rules[k]]
        /\ \A k \in DOMAIN rows : rules[k].row \in DOMAIN rows
        /\ \A k \in DOMAIN rows :
               /\ rules[k].copy.accepted_count \in Nat
               /\ rules[k].copy = Counted(Loaded(rows[rules[k].row]), rules[k].copy.accepted_count)
        /\ \A j, k \in DOMAIN rows : rules[j].row = rules[k].row => j = k

NothingYet ==
    /\ pc = "page" => rows = <<>>
    /\ pc \in {"page", "saved"} => rules = <<>> /\ ticket = NoTicket /\ chosen = {}

\* The rule chosen is the one that answers for the ticket in hand.
Answered ==
    /\ pc \in {"fired", "won"} => chosen # {} /\ chosen = FindBest(Copies, Core)
    /\ pc = "loaded" /\ ticket # NoTicket /\ chosen = {} => FindBest(Copies, Core) = {}

InHand ==
    /\ pc \in {"page", "saved", "loaded", "read", "fired", "won"}
    /\ chosen \in SUBSET DOMAIN rules /\ AtMostOne(chosen)
    /\ reads \in 0..MaxReads
    /\ RawTicket(ticket)

IInv == InHand /\ NothingYet /\ RowsKept /\ RulesLoaded /\ Answered

LEMMA CountedIs ==
    ASSUME NEW r \in SettledRules, NEW n \in Nat
    PROVE  /\ Counted(r, n) \in SettledRules
           /\ Counted(r, n).accepted_count = n
           /\ Counted(r, n).mode = r.mode /\ Counted(r, n).enabled = r.enabled
           /\ Counted(r, n).booking_ids = r.booking_ids
           /\ Counted(r, n).max_accept_count = r.max_accept_count
           /\ Lane(Counted(r, n)) = Lane(r)
           /\ \A m \in Nat : Counted(Counted(r, n), m) = Counted(r, m)
           /\ Counted(r, r.accepted_count) = r
<1>. DEFINE t == Counted(r, n)
<1>1. r \in RuleRecord /\ Settled(r)
  BY SettledFields
<1>2. t \in RuleRecord /\ t.accepted_count = n
  BY <1>1 DEF RuleRecord, Counted
<1>3. /\ t.coc_only = r.coc_only /\ t.non_coc_only = r.non_coc_only
      /\ t.max_weight = r.max_weight /\ t.max_cod_amount = r.max_cod_amount
      /\ t.min_deadline_min = r.min_deadline_min /\ t.origin = r.origin
      /\ t.service_types = r.service_types /\ t.destinations = r.destinations
      /\ t.booking_ids = r.booking_ids /\ t.mode = r.mode /\ t.enabled = r.enabled
      /\ t.max_accept_count = r.max_accept_count
      /\ t.match_mode = r.match_mode /\ t.booking_type = r.booking_type
  BY <1>1 DEF RuleRecord, Counted
<1>4. \A m \in Nat : Counted(t, m) = Counted(r, m)
  BY <1>1 DEF RuleRecord, Counted
<1>5. Counted(r, r.accepted_count) = r
  BY <1>1 DEF RuleRecord, Counted
<1>. HIDE DEF t
<1>6. Settled(t)
  BY <1>1, <1>2, <1>3 DEF Settled
<1>7. t \in SettledRules
  BY <1>2, <1>6 DEF SettledRules
<1>8. Lane(t) = Lane(r)
  BY <1>3, LaneIsOf
<1>. QED
  BY <1>2, <1>3, <1>4, <1>5, <1>7, <1>8 DEF t

LEMMA LoadedIs ==
    ASSUME NEW r \in SettledRules
    PROVE  /\ Loaded(r) \in SettledRules
           /\ Loaded(r).mode = r.mode /\ Loaded(r).enabled = r.enabled
           /\ Loaded(r).accepted_count = r.accepted_count
           /\ Loaded(r).booking_ids = IF r.mode = "booking_id" THEN r.booking_ids ELSE <<>>
           /\ Lane(Loaded(r)) = Lane(r)
           /\ \A n \in Nat : Loaded(Counted(r, n)) = Counted(Loaded(r), n)
<1>. DEFINE ids == IF r.mode = "booking_id" THEN r.booking_ids ELSE <<>>
            t == [r EXCEPT !.booking_ids = ids]
<1>1. r \in RuleRecord /\ CleanLocs(r.booking_ids)
  BY SettledFields
<1>2. Loaded(r) = t
  BY DEF Loaded
<1>3. CleanLocs(ids)
  <2>1. CleanLocs(<<>>)
    BY DEF CleanLocs, KeysDiffer
  <2>. QED
    BY <1>1, <2>1
<1>4. ASSUME NEW n \in Nat PROVE Loaded(Counted(r, n)) = Counted(t, n)
  <2>1. Counted(r, n).mode = r.mode /\ Counted(r, n).booking_ids = r.booking_ids
    BY CountedIs
  <2>2. Loaded(Counted(r, n)) = [Counted(r, n) EXCEPT !.booking_ids = ids]
    BY <2>1 DEF Loaded
  <2>. HIDE DEF ids
  <2>3. [Counted(r, n) EXCEPT !.booking_ids = ids] = Counted(t, n)
    BY <1>1 DEF RuleRecord, Counted
  <2>. QED
    BY <2>2, <2>3
<1>. HIDE DEF ids
<1>5. /\ t \in SettledRules /\ t.booking_ids = ids /\ t.mode = r.mode /\ t.enabled = r.enabled
  BY <1>3, SettledChanges, Zenon
<1>6. /\ t.origin = r.origin /\ t.destinations = r.destinations /\ t.match_mode = r.match_mode
      /\ t.booking_type = r.booking_type /\ t.service_types = r.service_types
      /\ t.accepted_count = r.accepted_count
  BY <1>1 DEF RuleRecord
<1>. HIDE DEF t
<1>7. Lane(t) = Lane(r)
  BY <1>6, LaneIsOf
<1>. QED
  BY <1>2, <1>4, <1>5, <1>6, <1>7 DEF ids

\* What a page sends is cleaned into settled rules.
LEMMA SentIs ==
    ASSUME NEW raws \in Saves
    PROVE  SanitizeAcceptRules(raws) \in Seq(SettledRules)
<1>. DEFINE m == [i \in DOMAIN raws |-> Sanitize(raws[i])]
<1>1. SanitizeAcceptRules(raws) = m
  BY Zenon DEF SanitizeAcceptRules, Map
<1>2. raws \in Seq(ToSet(raws)) /\ \A i \in DOMAIN raws : RawRule(raws[i])
  BY SavesAssumption
<1>3. \A i \in DOMAIN raws : Sanitize(raws[i]) \in SettledRules
  BY <1>2, Sanitized DEF SettledRules, Settled
<1>4. DOMAIN raws = 1..Len(raws) /\ Len(raws) \in Nat
  BY <1>2
<1>5. m \in [1..Len(raws) -> SettledRules]
  BY <1>3, <1>4
<1>. QED
  BY <1>1, <1>4, <1>5, SeqDef

\* The copies that answer for a ticket are settled rules.
LEMMA CopiesAre ==
    ASSUME IInv
    PROVE  /\ Copies \in Seq(SettledRules) /\ DOMAIN Copies = DOMAIN rules
           /\ \A k \in DOMAIN rules : Copies[k] = rules[k].copy /\ rules[k].copy \in SettledRules
<1>1. CASE pc \in {"page", "saved"}
  <2>1. rules = <<>>
    BY <1>1 DEF IInv, NothingYet
  <2>2. Copies = <<>>
    BY <2>1 DEF Copies
  <2>. QED
    BY <2>1, <2>2
<1>2. CASE pc \notin {"page", "saved"}
  <2>1. /\ rows \in Seq(SettledRules)
        /\ rules = [k \in DOMAIN rows |-> rules[k]]
        /\ \A k \in DOMAIN rows : rules[k].row \in DOMAIN rows
        /\ \A k \in DOMAIN rows :
               /\ rules[k].copy.accepted_count \in Nat
               /\ rules[k].copy = Counted(Loaded(rows[rules[k].row]), rules[k].copy.accepted_count)
    BY <1>2 DEF IInv, RowsKept, RulesLoaded
  <2>2. ASSUME NEW k \in DOMAIN rows PROVE rules[k].copy \in SettledRules
    <3>1. Loaded(rows[rules[k].row]) \in SettledRules
      BY <2>1, LoadedIs
    <3>. QED
      BY <2>1, <3>1, CountedIs
  <2>3. DOMAIN rows = 1..Len(rows) /\ Len(rows) \in Nat /\ DOMAIN rules = DOMAIN rows
    BY <2>1
  <2>4. Copies = [k \in 1..Len(rows) |-> rules[k].copy]
    BY <2>3 DEF Copies
  <2>5. Copies \in [1..Len(rows) -> SettledRules]
    BY <2>2, <2>3, <2>4
  <2>6. Copies \in Seq(SettledRules)
    BY <2>3, <2>5, SeqDef
  <2>. QED
    BY <2>2, <2>3, <2>4, <2>6
<1>. QED
  BY <1>1, <1>2

LEMMA StartsRight == Init => IInv
<1>. SUFFICES ASSUME Init PROVE IInv
  OBVIOUS
<1>1. RawTicket(NoTicket)
  <2>1. DOMAIN NoTicket = {}
    BY DEF NoTicket
  <2>2. Items(NoTicket, "route_detail_list") = <<>>
    BY <2>1 DEF Items, Present
  <2>3. ToSet(<<>>) = {}
    BY DEF ToSet
  <2>. QED
    BY <2>1, <2>2, <2>3 DEF RawTicket, RawObject
<1>2. InHand
  BY <1>1, MaxReadsAssumption DEF Init, InHand, AtMostOne
<1>3. NothingYet /\ RowsKept /\ RulesLoaded /\ Answered
  BY DEF Init, NothingYet, RowsKept, RulesLoaded, Answered
<1>. QED
  BY <1>2, <1>3 DEF IInv

LEMMA SaveKeeps == IInv /\ Save => IInv'
<1>. SUFFICES ASSUME IInv, Save PROVE IInv'
  OBVIOUS
<1>1. PICK raws \in Saves : page' = raws /\ rows' = DedupeRules(SanitizeAcceptRules(raws))
  BY DEF Save
<1>2. pc = "page" /\ pc' = "saved" /\ UNCHANGED <<rules, ticket, chosen, reason, reads>>
  BY DEF Save
<1>3. Stored' = rows'
  BY <1>1 DEF Stored, Sent
<1>4. rows' \in Seq(SettledRules)
  BY <1>1, SentIs, DedupeCollapses
<1>5. \A i \in DOMAIN rows' : /\ rows'[i].accepted_count >= rows'[i].accepted_count
                              /\ rows'[i] = Counted(rows'[i], rows'[i].accepted_count)
  <2>1. ASSUME NEW i \in DOMAIN rows'
        PROVE  /\ rows'[i].accepted_count >= rows'[i].accepted_count
               /\ rows'[i] = Counted(rows'[i], rows'[i].accepted_count)
    <3>1. rows'[i] \in SettledRules
      BY <1>4
    <3>2. rows'[i].accepted_count \in Nat
      BY <3>1, SettledFields
    <3>. QED
      BY <3>1, <3>2, CountedIs
  <2>. QED
    BY <2>1
<1>6. RowsKept'
  BY <1>1, <1>3, <1>4, <1>5 DEF RowsKept
<1>7. InHand'
  BY <1>2 DEF IInv, InHand
<1>8. NothingYet' /\ RulesLoaded' /\ Answered'
  BY <1>2 DEF IInv, NothingYet, RulesLoaded, Answered
<1>. QED
  BY <1>6, <1>7, <1>8 DEF IInv

LEMMA LoadKeeps == IInv /\ Load => IInv'
<1>. SUFFICES ASSUME IInv, Load PROVE IInv'
  OBVIOUS
<1>1. PICK o \in LoadOrders :
          rules' = [k \in DOMAIN o |-> [row |-> o[k], copy |-> Loaded(rows[o[k]])]]
  BY DEF Load
<1>2. pc = "saved" /\ pc' = "loaded" /\ UNCHANGED <<page, rows, ticket, chosen, reason, reads>>
  BY DEF Load
<1>3. /\ o \in [DOMAIN rows -> DOMAIN rows] /\ DOMAIN o = DOMAIN rows
      /\ \A i, j \in DOMAIN o : o[i] = o[j] => i = j
  BY DEF LoadOrders
<1>4. rows \in Seq(SettledRules)
  BY <1>2 DEF IInv, RowsKept
<1>5. DOMAIN rules' = DOMAIN rows /\ \A k \in DOMAIN rows : /\ rules'[k].row = o[k]
                                                            /\ rules'[k].copy = Loaded(rows[o[k]])
  BY <1>1, <1>3
<1>6. rules' = [k \in DOMAIN rows |-> rules'[k]]
  BY <1>1, <1>3
<1>7. ASSUME NEW k \in DOMAIN rows
      PROVE  /\ rules'[k].row \in DOMAIN rows
             /\ rules'[k].copy.accepted_count \in Nat
             /\ rules'[k].copy = Counted(Loaded(rows[rules'[k].row]), rules'[k].copy.accepted_count)
  <2>1. o[k] \in DOMAIN rows /\ rows[o[k]] \in SettledRules
    BY <1>3, <1>4
  <2>2. Loaded(rows[o[k]]) \in SettledRules
    BY <2>1, LoadedIs
  <2>3. Loaded(rows[o[k]]).accepted_count \in Nat
    BY <2>2, SettledFields
  <2>4. Counted(Loaded(rows[o[k]]), Loaded(rows[o[k]]).accepted_count) = Loaded(rows[o[k]])
    BY <2>2, <2>3, CountedIs
  <2>. QED
    BY <1>5, <2>1, <2>3, <2>4
<1>8. \A j, k \in DOMAIN rows : rules'[j].row = rules'[k].row => j = k
  BY <1>3, <1>5
<1>9. RulesLoaded'
  BY <1>2, <1>6, <1>7, <1>8 DEF RulesLoaded
<1>10. Stored' = Stored
  BY <1>2 DEF Stored, Sent
<1>11. RowsKept'
  BY <1>2, <1>10 DEF IInv, RowsKept
<1>12. ticket = NoTicket /\ chosen = {}
  BY <1>2 DEF IInv, NothingYet
<1>13. InHand'
  BY <1>2, <1>12 DEF IInv, InHand
<1>14. NothingYet' /\ Answered'
  BY <1>2, <1>12 DEF NothingYet, Answered
<1>. QED
  BY <1>9, <1>11, <1>13, <1>14 DEF IInv

\* Nothing of the rules and rows is touched.
LEMMA BookKept ==
    ASSUME IInv, UNCHANGED <<page, rows, rules>>, pc \notin {"page", "saved"},
           pc' \notin {"page", "saved"}
    PROVE  RowsKept' /\ RulesLoaded' /\ NothingYet' /\ Copies' = Copies
<1>1. Stored' = Stored /\ Copies' = Copies
  BY DEF Stored, Sent, Copies
<1>. QED
  BY <1>1 DEF IInv, RowsKept, RulesLoaded, NothingYet

LEMMA ReadKeeps == IInv /\ Read => IInv'
<1>. SUFFICES ASSUME IInv, Read PROVE IInv'
  OBVIOUS
<1>1. PICK body \in Pages : \E t \in ToSet(ExtractBookingList(body)) : ticket' = t
  BY DEF Read
<1>2. RawTicket(ticket')
  BY <1>1, PagesAssumption
<1>3. /\ pc = "loaded" /\ pc' = "read" /\ reads < MaxReads /\ reads' = reads + 1
      /\ UNCHANGED <<page, rows, rules, chosen, reason>>
  BY DEF Read
<1>4. reads' \in 0..MaxReads
  BY <1>3, MaxReadsAssumption DEF IInv, InHand
<1>5. RawTicket(ticket)'
  BY <1>2 DEF RawTicket, RawObject
<1>6. InHand'
  BY <1>3, <1>4, <1>5 DEF IInv, InHand
<1>7. RowsKept' /\ RulesLoaded' /\ NothingYet'
  BY <1>3, BookKept
<1>8. Answered'
  BY <1>3 DEF Answered
<1>. QED
  BY <1>6, <1>7, <1>8 DEF IInv

LEMMA ChooseKeeps == IInv /\ Choose => IInv'
<1>. SUFFICES ASSUME IInv, Choose PROVE IInv'
  OBVIOUS
<1>1. /\ pc = "read" /\ chosen' = FindBest(Copies, Core)
      /\ pc' = (IF chosen' = {} THEN "loaded" ELSE "fired")
      /\ UNCHANGED <<page, rows, rules, ticket, reason, reads>>
  BY DEF Choose
<1>2. Core' = Core
  BY <1>1 DEF Core, Booking
<1>3. RowsKept' /\ RulesLoaded' /\ NothingYet' /\ Copies' = Copies
  BY <1>1, BookKept
<1>4. BestSoFar(chosen', Copies, Core, Len(Copies))
  BY <1>1, CopiesAre, FindBestIs
<1>5. chosen' \in SUBSET DOMAIN rules /\ AtMostOne(chosen')
  <2>1. 1..Len(Copies) = DOMAIN rules
    BY CopiesAre
  <2>. QED
    BY <1>4, <2>1 DEF BestSoFar, AtMostOne
<1>6. InHand'
  BY <1>1, <1>5 DEF IInv, InHand
<1>7. Answered'
  BY <1>1, <1>2, <1>3 DEF Answered
<1>. QED
  BY <1>3, <1>6, <1>7 DEF IInv

LEMMA FireKeeps == IInv /\ Fire => IInv'
<1>. SUFFICES ASSUME IInv, Fire PROVE IInv'
  OBVIOUS
<1>1. /\ pc = "fired" /\ pc' \in {"won", "loaded"}
      /\ UNCHANGED <<page, rows, rules, ticket, chosen, reads>>
  BY DEF Fire
<1>2. Core' = Core
  BY <1>1 DEF Core, Booking
<1>3. RowsKept' /\ RulesLoaded' /\ NothingYet' /\ Copies' = Copies
  BY <1>1, BookKept
<1>4. chosen # {} /\ chosen = FindBest(Copies, Core)
  BY <1>1 DEF IInv, Answered
<1>5. InHand'
  BY <1>1 DEF IInv, InHand
<1>6. Answered'
  BY <1>1, <1>2, <1>3, <1>4 DEF Answered
<1>. QED
  BY <1>3, <1>5, <1>6 DEF IInv

LEMMA ChargeKeeps == IInv /\ Charge => IInv'
<1>. SUFFICES ASSUME IInv, Charge PROVE IInv'
  OBVIOUS
<1>1. /\ pc = "won" /\ pc' = "loaded"
      /\ UNCHANGED <<page, rules, ticket, chosen, reason, reads>>
  BY DEF Charge
<1>2. PICK k \in chosen : rows' = [rows EXCEPT ![rules[k].row].accepted_count = @ + 1]
  BY DEF Charge, ChargeRow
<1>3. /\ rows \in Seq(SettledRules) /\ page \in Saves /\ DOMAIN rows = DOMAIN Stored
      /\ \A i \in DOMAIN rows :
             /\ rows[i].accepted_count >= Stored[i].accepted_count
             /\ rows[i] = Counted(Stored[i], rows[i].accepted_count)
      /\ rules = [j \in DOMAIN rows |-> rules[j]]
      /\ \A j \in DOMAIN rows : rules[j].row \in DOMAIN rows
      /\ \A j \in DOMAIN rows :
             /\ rules[j].copy.accepted_count \in Nat
             /\ rules[j].copy = Counted(Loaded(rows[rules[j].row]), rules[j].copy.accepted_count)
      /\ \A j, i \in DOMAIN rows : rules[j].row = rules[i].row => j = i
  BY <1>1 DEF IInv, RowsKept, RulesLoaded
<1>. DEFINE w == rules[k].row
            r == Counted(rows[w], rows[w].accepted_count + 1)
<1>4. k \in DOMAIN rules /\ DOMAIN rules = DOMAIN rows /\ w \in DOMAIN rows
  BY <1>3 DEF IInv, InHand
<1>5. /\ \A i \in DOMAIN rows : rows[i] \in SettledRules /\ rows[i].accepted_count \in Nat
      /\ DOMAIN rows = 1..Len(rows) /\ Len(rows) \in Nat
  <2>1. \A i \in DOMAIN rows : rows[i] \in SettledRules
    BY <1>3
  <2>2. \A i \in DOMAIN rows : rows[i].accepted_count \in Nat
    BY <2>1, SettledFields
  <2>. QED
    BY <1>3, <2>1, <2>2
<1>6. rows' = [rows EXCEPT ![w] = r]
  BY <1>2 DEF Counted
<1>. DEFINE was == rows[w].accepted_count
<1>7. /\ r \in SettledRules /\ r.accepted_count = was + 1 /\ was + 1 \in Nat
      /\ \A n \in Nat : Counted(r, n) = Counted(rows[w], n)
  BY <1>4, <1>5, CountedIs
<1>. HIDE DEF w, r, was
<1>8. /\ DOMAIN rows' = DOMAIN rows /\ rows'[w] = r
      /\ \A i \in DOMAIN rows : i # w => rows'[i] = rows[i]
      /\ rows' \in [1..Len(rows) -> SettledRules]
  BY <1>4, <1>5, <1>6, <1>7
<1>9. rows' \in Seq(SettledRules)
  BY <1>5, <1>8, SeqDef
<1>10. DOMAIN Stored = DOMAIN rows /\ \A i \in DOMAIN rows : Stored[i] \in SettledRules
  <2>1. Stored \in Seq(SettledRules)
    BY <1>3, SentIs, DedupeCollapses DEF Stored, Sent
  <2>. QED
    BY <1>3, <2>1
<1>11. Stored' = Stored
  BY <1>1 DEF Stored, Sent
<1>12. ASSUME NEW i \in DOMAIN rows
       PROVE  /\ rows'[i].accepted_count >= Stored[i].accepted_count
              /\ rows'[i] = Counted(Stored[i], rows'[i].accepted_count)
  <2>1. CASE i # w
    BY <1>3, <1>8, <2>1
  <2>2. CASE i = w
    <3>1. /\ was \in Nat /\ was = rows[w].accepted_count
          /\ Stored[w].accepted_count \in Nat /\ was >= Stored[w].accepted_count
      BY <1>3, <1>4, <1>5, <1>10, SettledFields DEF was
    <3>2. r.accepted_count >= Stored[w].accepted_count
      BY <1>7, <3>1
    <3>3. r = Counted(rows[w], was + 1)
      BY DEF r, was
    <3>4. rows[w] = Counted(Stored[w], was)
      BY <1>3, <1>4, <3>1
    <3>5. Counted(Counted(Stored[w], was), was + 1) = Counted(Stored[w], was + 1)
      BY <1>4, <1>7, <1>10, <3>1, CountedIs
    <3>6. r = Counted(Stored[w], r.accepted_count)
      BY <1>7, <3>3, <3>4, <3>5
    <3>. QED
      BY <1>8, <2>2, <3>2, <3>6
  <2>. QED
    BY <2>1, <2>2
<1>13. RowsKept'
  BY <1>1, <1>3, <1>8, <1>9, <1>11, <1>12 DEF RowsKept
<1>14. ASSUME NEW j \in DOMAIN rows
       PROVE  rules[j].copy = Counted(Loaded(rows'[rules[j].row]), rules[j].copy.accepted_count)
  <2>. DEFINE c == rules[j].copy.accepted_count
  <2>1. /\ c \in Nat /\ rules[j].copy = Counted(Loaded(rows[rules[j].row]), c)
        /\ rules[j].row \in DOMAIN rows
    BY <1>3
  <2>. HIDE DEF c
  <2>2. CASE rules[j].row # w
    BY <1>8, <2>1, <2>2 DEF c
  <2>3. CASE rules[j].row = w
    <3>1. Loaded(r) = Counted(Loaded(rows[w]), was + 1)
      BY <1>4, <1>5, <1>7, LoadedIs DEF r, was
    <3>2. Loaded(rows[w]) \in SettledRules
      BY <1>4, <1>5, LoadedIs
    <3>3. Counted(Loaded(r), c) = Counted(Loaded(rows[w]), c)
      BY <1>7, <2>1, <3>1, <3>2, CountedIs
    <3>. QED
      BY <1>8, <2>1, <2>3, <3>3 DEF c
  <2>. QED
    BY <2>2, <2>3
<1>15. RulesLoaded'
  BY <1>1, <1>3, <1>8, <1>14 DEF RulesLoaded
<1>16. Answered'
  BY <1>1 DEF IInv, Answered
<1>17. InHand' /\ NothingYet'
  BY <1>1 DEF IInv, InHand, NothingYet
<1>. QED
  BY <1>13, <1>15, <1>16, <1>17 DEF IInv

LEMMA IInvKept == IInv /\ [Next]_vars => IInv'
<1>. SUFFICES ASSUME IInv, [Next]_vars PROVE IInv'
  OBVIOUS
<1>1. CASE UNCHANGED vars
  <2>1. UNCHANGED <<pc, page, rows, rules, ticket, chosen, reason, reads>>
    BY <1>1 DEF vars
  <2>2. InHand' /\ NothingYet'
    BY <2>1 DEF IInv, InHand, NothingYet
  <2>3. Stored' = Stored /\ Copies' = Copies /\ Core' = Core
    BY <2>1 DEF Stored, Sent, Copies, Core, Booking
  <2>4. RowsKept' /\ RulesLoaded' /\ Answered'
    BY <2>1, <2>3 DEF IInv, RowsKept, RulesLoaded, Answered
  <2>. QED
    BY <2>2, <2>4 DEF IInv
<1>. QED
  BY <1>1, SaveKeeps, LoadKeeps, ReadKeeps, ChooseKeeps, FireKeeps, ChargeKeeps DEF Next

LEMMA IInvHolds == Spec => []IInv
  BY StartsRight, IInvKept, PTL DEF Spec

(***************************************************************************)
(* The theorems                                                            *)
(***************************************************************************)
LEMMA AtMostOneCounts ==
    ASSUME NEW S, AtMostOne(S)
    PROVE  Cardinality(S) <= 1
<1>1. CASE S = {}
  BY <1>1, FS_EmptySet
<1>2. ASSUME NEW x \in S PROVE Cardinality(S) <= 1
  <2>1. S = {x}
    BY <1>2 DEF AtMostOne
  <2>2. Cardinality({x}) = 1
    BY FS_Singleton, Zenon
  <2>. QED
    BY <2>1, <2>2
<1>. QED
  BY <1>1, <1>2

LEMMA SettledIsOK ==
    ASSUME NEW r \in SettledRules
    PROVE  RuleOK(r)
<1>1. r \in RuleRecord /\ Settled(r)
  BY SettledFields
<1>2. /\ r.enabled \in BOOLEAN /\ r.coc_only \in BOOLEAN /\ r.non_coc_only \in BOOLEAN
      /\ r.mode \in {"booking_id", "route", "filter"}
      /\ r.booking_type \in {"all", "spxid", "reguler"}
      /\ r.match_mode \in {"strict", "flexible"}
      /\ r.priority \in Priorities
  BY <1>1 DEF RuleRecord
<1>3. /\ r.max_weight \in SUBSET Nat /\ r.max_cod_amount \in SUBSET Nat
      /\ r.min_deadline_min \in SUBSET Nat
      /\ r.shift_types \in SUBSET Nat /\ r.trip_types \in SUBSET Nat
      /\ r.max_accept_count \in Nat /\ r.accepted_count \in Nat
  BY <1>1 DEF RuleRecord
<1>4. /\ ~(r.coc_only /\ r.non_coc_only)
      /\ AtMostOne(r.max_weight) /\ AtMostOne(r.max_cod_amount) /\ AtMostOne(r.min_deadline_min)
      /\ Words(r.origin)
      /\ Len(r.destinations) <= MaxDestinations
  BY <1>1, Zenon DEF Settled
<1>5. \A option \in {r.max_weight, r.max_cod_amount, r.min_deadline_min} :
          option \subseteq Nat /\ Cardinality(option) <= 1
  BY <1>3, <1>4, AtMostOneCounts
<1>6. r.shift_types \cup r.trip_types \subseteq Nat
  BY <1>3
<1>7. {r.max_accept_count, r.accepted_count} \subseteq Nat
  BY <1>3
<1>. QED
  BY <1>2, <1>4, <1>5, <1>6, <1>7, Zenon DEF RuleOK, Priorities

LEMMA TypeFollows == IInv => TypeOK
<1>. SUFFICES ASSUME IInv PROVE TypeOK
  OBVIOUS
<1>1. \A i \in DOMAIN rows : RuleOK(rows[i])
  <2>1. rows = <<>> \/ rows \in Seq(SettledRules)
    BY DEF IInv, NothingYet, RowsKept
  <2>2. \A i \in DOMAIN rows : rows[i] \in SettledRules
    BY <2>1
  <2>. QED
    BY <2>2, SettledIsOK
<1>2. \A k \in DOMAIN rules : RuleOK(rules[k].copy)
  BY CopiesAre, SettledIsOK
<1>3. \A k \in DOMAIN rules : rules[k].row \in DOMAIN rows
  BY DEF IInv, NothingYet, RulesLoaded
<1>4. Cardinality(chosen) <= 1
  BY AtMostOneCounts DEF IInv, InHand
<1>. QED
  BY <1>1, <1>2, <1>3, <1>4 DEF TypeOK, IInv, InHand

\* The rows and the poller's copies of them are rules as the page's cleaning
\* and the table's CHECKs promise them, through saves, loads and charges
\* (sanitize_accept_rules, dedupe_rules, load_compiled_rules).
THEOREM RuleBookTypes == Spec => []TypeOK
  BY IInvHolds, TypeFollows, PTL

LEMMA ChosenIs ==
    ASSUME IInv, pc = "fired", NEW k \in chosen
    PROVE  /\ k \in DOMAIN rules /\ rules[k].copy \in SettledRules
           /\ Matches(rules[k].copy, Core)
           /\ \A j \in DOMAIN rules : Matches(rules[j].copy, Core) =>
                  /\ ~Outranks(RuleRank(rules[j].copy), RuleRank(rules[k].copy))
                  /\ j < k => RuleRank(rules[j].copy) # RuleRank(rules[k].copy)
<1>1. chosen = FindBest(Copies, Core) /\ k \in DOMAIN rules
  BY DEF IInv, Answered, InHand
<1>2. /\ Copies \in Seq(SettledRules) /\ DOMAIN Copies = DOMAIN rules
      /\ \A j \in DOMAIN rules : Copies[j] = rules[j].copy /\ rules[j].copy \in SettledRules
  BY CopiesAre
<1>3. BestSoFar(chosen, Copies, Core, Len(Copies)) /\ 1..Len(Copies) = DOMAIN rules
  BY <1>1, <1>2, FindBestIs
<1>4. /\ Matches(Copies[k], Core)
      /\ \A j \in DOMAIN rules : Matches(Copies[j], Core) =>
             /\ ~Outranks(RuleRank(Copies[j]), RuleRank(Copies[k]))
             /\ j < k => RuleRank(Copies[j]) # RuleRank(Copies[k])
  BY <1>3, Zenon DEF BestSoFar
<1>. QED
  BY <1>1, <1>2, <1>4

\* A ticket is passed over only if no rule loaded matches it.
LEMMA NoneMatches ==
    ASSUME IInv, pc = "loaded", ticket # NoTicket, chosen = {}, NEW k \in DOMAIN rules
    PROVE  ~Matches(rules[k].copy, Core)
<1>1. FindBest(Copies, Core) = {}
  BY DEF IInv, Answered
<1>2. Copies \in Seq(SettledRules) /\ DOMAIN Copies = DOMAIN rules /\ Copies[k] = rules[k].copy
  BY CopiesAre
<1>3. BestSoFar(FindBest(Copies, Core), Copies, Core, Len(Copies))
  BY <1>2, FindBestIs
<1>4. k \in 1..Len(Copies)
  BY <1>2
<1>. QED
  BY <1>1, <1>2, <1>3, <1>4, Zenon DEF BestSoFar

\* The rule that answers for a ticket matches it, none that matches is stronger
\* or was loaded before it with the same rank, and a ticket is passed over only
\* if none matches (find_best_matching_rule_compiled).
THEOREM StrongestRuleAnswers == Spec => []StrongestAnswers
<1>1. IInv => StrongestAnswers
  <2>. SUFFICES ASSUME IInv PROVE StrongestAnswers
    OBVIOUS
  <2>. DEFINE rank(k) == RuleRank(rules[k].copy)
              Takers  == {j \in DOMAIN rules : Matches(rules[j].copy, Core)}
  <2>1. ASSUME pc = "fired"
        PROVE  /\ chosen # {} /\ chosen \subseteq Takers
               /\ \A k \in chosen, j \in Takers :
                      /\ ~Outranks(rank(j), rank(k))
                      /\ rank(j) = rank(k) => k <= j
    <3>1. chosen # {} /\ DOMAIN rules = 1..Len(Copies)
      <4>1. Copies \in Seq(SettledRules) /\ DOMAIN Copies = DOMAIN rules
        BY CopiesAre
      <4>. QED
        BY <2>1, <4>1 DEF IInv, Answered
    <3>2. ASSUME NEW k \in chosen
          PROVE  /\ k \in Takers /\ k \in Int
                 /\ \A j \in Takers : /\ j \in Int
                                      /\ ~Outranks(rank(j), rank(k))
                                      /\ j < k => rank(j) # rank(k)
      BY <2>1, <3>1, <3>2, ChosenIs
    <3>. HIDE DEF Takers, rank
    <3>. QED
      BY <3>1, <3>2
  <2>2. ASSUME pc = "loaded", ticket # NoTicket, chosen = {} PROVE Takers = {}
    BY <2>2, NoneMatches
  <2>. QED
    BY <2>1, <2>2, Zenon DEF StrongestAnswers
<1>. QED
  BY <1>1, IInvHolds, PTL

\* A rule of nothing but white space and punctuation takes no ticket, whatever
\* its mode (CompiledRule::compile, CompiledRule::matches).
THEOREM BlankRulesTakeNothing == Spec => []BlankRulesNeverFire
<1>1. IInv => BlankRulesNeverFire
  BY ChosenIs, MatchAsks DEF BlankRulesNeverFire
<1>. QED
  BY <1>1, IInvHolds, PTL

\* What SPX lists of a ticket's route is a list of stops.
LEMMA StopsAreRead ==
    ASSUME IInv
    PROVE  Core.route_stops \in Seq(ToSet(Core.route_stops))
<1>1. RawTicket(ticket)
  BY DEF IInv, InHand
<1>. QED
  BY <1>1, RouteStopsAreListed, CoreIs

LEMMA RoutesFollow == IInv => RoutesAreServed
<1>. SUFFICES ASSUME IInv PROVE RoutesAreServed
  OBVIOUS
<1>1. Core.route_stops \in Seq(ToSet(Core.route_stops))
  BY StopsAreRead
<1>2. \A k \in DOMAIN rules : rules[k].copy \in SettledRules
  BY CopiesAre
<1>3. ASSUME NEW r \in SettledRules, r.mode = "route"
      PROVE  /\ Matches(r, Core) => RestAllows(r, Core) /\ MustRun(r, Core)
             /\ RestAllows(r, Core) /\ RunsEnough(r, Core) => Matches(r, Core)
  <2>1. Matches(r, Core) => RestAllows(r, Core) /\ MustRun(r, Core)
    BY <1>1, <1>3, MatchIsServed
  <2>2. RestAllows(r, Core) /\ RunsEnough(r, Core) => Matches(r, Core)
    BY <1>1, <1>3, ServedIsMatch
  <2>. QED
    BY <2>1, <2>2
<1>. QED
  BY <1>2, <1>3, Zenon DEF RoutesAreServed

\* A route rule in force matches only tickets that run along its lane, and
\* every ticket that does and that nothing else it asks for refuses: for a
\* strict rule the two are the same; a flexible one asks for its endpoint and
\* is content with the hubs the ticket knows in order (CompiledRule::matches,
\* the walk of the destinations through the stops).
THEOREM RouteRulesFollowLanes == Spec => []RoutesAreServed
  BY RoutesFollow, IInvHolds, PTL

LEMMA NamedDecides == IInv => CocIsByName
<1>. SUFFICES ASSUME IInv, pc = "fired", NEW k \in chosen, rules[k].copy.mode # "booking_id"
              PROVE  LET named == PickText(ticket, NameKeys)
                         coc   == named # <<>> /\ Trim(named) # <<>> /\ Head(Trim(named)) = "spxid"
                     IN  /\ rules[k].copy.coc_only => coc
                         /\ rules[k].copy.non_coc_only => ~coc
  BY Zenon DEF CocIsByName
<1>. DEFINE named == PickText(ticket, NameKeys)
<1>1. Matches(rules[k].copy, Core)
  BY ChosenIs
<1>2. CocOK(rules[k].copy, Core)
  BY <1>1 DEF Matches, MatchesRoute, MatchesFilter
<1>3. Core.booking_type = BookingTypeOf(named)
  BY CoreIs DEF TypeOf
<1>4. Trim(<<>>) = <<>>
  BY DEF Trim
<1>. HIDE DEF named
<1>5. IsCocName(named) <=> named # <<>> /\ Trim(named) # <<>> /\ Head(Trim(named)) = "spxid"
  BY <1>4, Zenon DEF IsCocName
<1>6. Core.booking_type = "spxid" <=> IsCocName(named)
  BY <1>3 DEF BookingTypeOf
<1>7. /\ rules[k].copy.coc_only => Core.booking_type = "spxid"
      /\ rules[k].copy.non_coc_only => Core.booking_type # "spxid"
  BY <1>2 DEF CocOK
<1>8. /\ rules[k].copy.coc_only =>
             named # <<>> /\ Trim(named) # <<>> /\ Head(Trim(named)) = "spxid"
      /\ rules[k].copy.non_coc_only =>
             ~(named # <<>> /\ Trim(named) # <<>> /\ Head(Trim(named)) = "spxid")
  BY <1>5, <1>6, <1>7
<1>. QED
  BY <1>8, Zenon DEF named

LEMMA VehicleDecides == IInv => VehicleIsNamed
<1>. SUFFICES ASSUME IInv, pc = "fired", NEW k \in chosen, rules[k].copy.mode # "booking_id",
                     rules[k].copy.service_types # <<>>
              PROVE  /\ Core.vehicle_type # <<>>
                     /\ BareCode(Core.vehicle_type) =>
                            PickText(ticket, VehicleNameKeys) = Core.vehicle_type
  BY Zenon DEF VehicleIsNamed
<1>. DEFINE types == rules[k].copy.service_types
            vehicle == Core.vehicle_type
<1>1. Matches(rules[k].copy, Core) /\ rules[k].copy \in SettledRules
  BY ChosenIs
<1>2. ServiceOK(rules[k].copy, Core)
  BY <1>1 DEF Matches, MatchesRoute, MatchesFilter
<1>3. PICK i \in DOMAIN types : VehicleMatch(NormVehicle(vehicle), NormVehicle(types[i]))
  BY <1>2 DEF ServiceOK
<1>4. types \in Seq(Phrase)
  BY <1>1, SettledFields DEF RuleRecord
<1>. DEFINE label == NormVehicle(types[i])
<1>5. label # <<>> /\ Len(label) <= Len(NormVehicle(vehicle))
  BY <1>3 DEF VehicleMatch, IsPrefix
<1>6. label \in Phrase
  <2>1. types[i] \in Seq(Word)
    BY <1>3, <1>4 DEF Phrase
  <2>. QED
    BY <2>1, NormalForms DEF Phrase
<1>. HIDE DEF label
<1>7. Len(label) # 0 /\ Len(label) \in Nat
  BY <1>5, <1>6, EmptySeq DEF Phrase
<1>8. vehicle # <<>>
  <2>1. SUFFICES ASSUME vehicle = <<>> PROVE FALSE
    OBVIOUS
  <2>2. NormVehicle(vehicle) = <<>>
    BY <2>1, EmptyForms
  <2>. QED
    BY <1>5, <1>7, <2>2
<1>9. vehicle = VehicleOf(ticket)
  BY CoreIs
<1>. QED
  BY <1>8, <1>9, Zenon DEF VehicleOf

LEMMA IdDecides == IInv => MatchedIdIsFound
<1>. SUFFICES ASSUME IInv, pc = "fired", NEW k \in chosen, rules[k].copy.mode = "booking_id"
              PROVE  \E id \in MatchedBookingIdFor(Core, rules[k].copy) :
                         NormId(id) \in IdsOf(rows[rules[k].row])
  BY Zenon DEF MatchedIdIsFound
<1>. DEFINE c == rules[k].copy  w == rows[rules[k].row]
            hits == {j \in DOMAIN c.booking_ids : IdHits(NormId(c.booking_ids[j]), Core)}
<1>1. Matches(c, Core) /\ c \in SettledRules /\ k \in DOMAIN rules
  BY ChosenIs
<1>2. MatchesBookingId(c, Core)
  BY <1>1 DEF Matches
<1>3. c.booking_ids = w.booking_ids
  <2>1. /\ rows \in Seq(SettledRules) /\ k \in DOMAIN rows /\ rules[k].row \in DOMAIN rows
        /\ c.accepted_count \in Nat /\ c = Counted(Loaded(w), c.accepted_count)
    BY <1>1 DEF IInv, RowsKept, RulesLoaded
  <2>2. w \in SettledRules
    BY <2>1
  <2>. HIDE DEF w
  <2>3. Loaded(w) \in SettledRules /\ Loaded(w).mode = w.mode
        /\ Loaded(w).booking_ids = IF w.mode = "booking_id" THEN w.booking_ids ELSE <<>>
    BY <2>2, LoadedIs
  <2>4. c.mode = Loaded(w).mode /\ c.booking_ids = Loaded(w).booking_ids
    <3>. DEFINE n == c.accepted_count
    <3>1. n \in Nat /\ c = Counted(Loaded(w), n)
      BY <2>1
    <3>. HIDE DEF n, c
    <3>2. /\ Counted(Loaded(w), n).mode = Loaded(w).mode
          /\ Counted(Loaded(w), n).booking_ids = Loaded(w).booking_ids
      BY <2>3, <3>1, CountedIs
    <3>. QED
      BY <3>1, <3>2
  <2>. QED
    BY <2>3, <2>4
<1>4. MatchedBookingIdFor(Core, c) = IF hits = {} THEN {} ELSE {c.booking_ids[Min(hits)]}
  BY Zenon DEF MatchedBookingIdFor, FirstId
<1>5. hits # {}
  BY <1>2 DEF MatchesBookingId, IdsOf
<1>6. c.booking_ids \in Seq(Phrase)
  BY <1>1, SettledFields
<1>7. hits \in SUBSET Nat
  BY <1>6
<1>8. Min(hits) \in hits
  BY <1>5, <1>7, LeastPlace
<1>9. Min(hits) \in DOMAIN w.booking_ids
  BY <1>3, <1>8
<1>. HIDE DEF hits
<1>10. NormId(w.booking_ids[Min(hits)]) \in IdsOf(w)
  BY <1>9, Zenon DEF IdsOf
<1>. QED
  BY <1>3, <1>4, <1>5, <1>10

\* What a ticket's text says decides: a COC rule takes only tickets whose name
\* says SPXID, a vehicle asked for is one SPX named and no bare code, and an
\* id that wins is an id of the row (normalize_booking, coc.rs, vehicle.rs).
THEOREM TextDecides == Spec => []TextIsRead
<1>1. IInv => TextIsRead
  BY NamedDecides, VehicleDecides, IdDecides DEF TextIsRead
<1>. QED
  BY <1>1, IInvHolds, PTL

\* The rules by booking id that hold the id.
Holders(rs, id) == {k \in DOMAIN rs : rs[k].mode = "booking_id" /\ id \in IdsOf(rs[k])}

\* A list that was collapsed holds each id once, and armed if it can be.
LEMMA IdsAreArmed ==
    ASSUME NEW rs \in Seq(SettledRules), NEW out \in Seq(SettledRules), NEW src,
           MadeOf(src, out, rs, Len(rs)), NEW id
    PROVE  /\ AtMostOne(Holders(out, id))
           /\ Holders(rs, id) # {} => Holders(out, id) # {}
           /\ (\E i \in Holders(rs, id) : rs[i].enabled) =>
                  \A k \in Holders(out, id) : out[k].enabled
<1>1. /\ DOMAIN rs = 1..Len(rs) /\ Len(rs) \in Nat /\ DOMAIN out = 1..Len(out) /\ Len(out) \in Nat
      /\ \A i \in DOMAIN rs : rs[i] \in SettledRules /\ rs[i].enabled \in BOOLEAN
      /\ \A k \in DOMAIN out : out[k] \in SettledRules
  <2>1. \A i \in DOMAIN rs : rs[i] \in SettledRules
    OBVIOUS
  <2>2. \A k \in DOMAIN out : out[k] \in SettledRules
    OBVIOUS
  <2>. QED
    BY <2>1, <2>2, SettledFields
<1>2. /\ src \in [DOMAIN out -> DOMAIN rs]
      /\ \A j, k \in DOMAIN out : j < k => src[j] < src[k]
      /\ \A k \in DOMAIN out : out[k].mode = rs[src[k]].mode
      /\ \A k \in DOMAIN out : out[k].mode = "booking_id" =>
             out[k].enabled = rs[src[k]].enabled /\ out[k].booking_ids = KeptIds(rs, src[k])
      /\ \A i \in DOMAIN rs : rs[i].mode = "booking_id" /\ KeptIds(rs, i) # <<>> =>
             \E k \in DOMAIN out : src[k] = i
  BY <1>1, Zenon DEF MadeOf
<1>3. ASSUME NEW k \in DOMAIN out, out[k].mode = "booking_id"
      PROVE  IdsOf(out[k]) = IdsOf(rs[src[k]]) \ Claimed(rs, src[k])
  <2>1. src[k] \in DOMAIN rs /\ out[k].booking_ids = KeptIds(rs, src[k])
    BY <1>2, <1>3
  <2>2. IdsOf(out[k]) = {NormLoc(out[k].booking_ids[j]) : j \in DOMAIN out[k].booking_ids}
    BY <1>1, IdsAre
  <2>3. {NormLoc(KeptIds(rs, src[k])[j]) : j \in DOMAIN KeptIds(rs, src[k])}
            = IdsOf(rs[src[k]]) \ Claimed(rs, src[k])
    BY <2>1, KeptIdsAre
  <2>. QED
    BY <2>1, <2>2, <2>3
<1>. DEFINE A == Holders(rs, id)  H == Holders(out, id)
<1>4. ASSUME NEW i \in A PROVE i \in DOMAIN rs /\ rs[i].mode = "booking_id" /\ id \in IdsOf(rs[i])
  BY <1>4 DEF Holders
<1>5. ASSUME NEW k \in H
      PROVE  /\ k \in DOMAIN out /\ out[k].mode = "booking_id"
             /\ src[k] \in A /\ id \notin Claimed(rs, src[k])
             /\ out[k].enabled = rs[src[k]].enabled
  BY <1>2, <1>3, <1>5 DEF Holders
<1>6. ASSUME NEW i \in A, NEW j \in A, ClaimsBefore(rs, j, i)
      PROVE  id \in Claimed(rs, i)
  <2>1. id \in Phrase
    BY <1>1, <1>4, IdsAre
  <2>. QED
    BY <1>4, <1>6, <2>1 DEF Claimed
<1>. HIDE DEF A, H
<1>7. AtMostOne(H)
  <2>1. SUFFICES ASSUME NEW j \in H, NEW k \in H, j # k PROVE FALSE
    BY DEF AtMostOne
  <2>2. /\ src[j] \in A /\ src[k] \in A /\ src[j] # src[k]
        /\ src[j] \in Int /\ src[k] \in Int
        /\ id \notin Claimed(rs, src[j]) /\ id \notin Claimed(rs, src[k])
    <3>1. j \in 1..Len(out) /\ k \in 1..Len(out)
      BY <1>1, <1>5, <2>1
    <3>2. src[j] \in 1..Len(rs) /\ src[k] \in 1..Len(rs)
      BY <1>1, <1>2, <3>1
    <3>3. j < k \/ k < j
      BY <2>1, <3>1
    <3>4. src[j] < src[k] \/ src[k] < src[j]
      BY <1>1, <1>2, <3>1, <3>3
    <3>. QED
      BY <1>5, <2>1, <3>2, <3>4
  <2>3. /\ rs[src[j]].mode = "booking_id" /\ rs[src[k]].mode = "booking_id"
        /\ rs[src[j]].enabled \in BOOLEAN /\ rs[src[k]].enabled \in BOOLEAN
    BY <1>1, <1>4, <2>2
  <2>4. ClaimsBefore(rs, src[j], src[k]) \/ ClaimsBefore(rs, src[k], src[j])
    <3>1. src[j] < src[k] \/ src[k] < src[j]
      BY <2>2
    <3>. QED
      BY <2>3, <3>1 DEF ClaimsBefore
  <2>. QED
    BY <1>6, <2>2, <2>4
<1>8. ASSUME A # {} PROVE H # {}
  <2>. DEFINE B == {i \in A : rs[i].enabled}
              C == IF B # {} THEN B ELSE A
  <2>1. C # {} /\ C \in SUBSET Nat /\ C \subseteq A
    BY <1>1, <1>4, <1>8
  <2>. DEFINE m == Min(C)
  <2>2. m \in C /\ m \in Nat /\ \A j \in C : m <= j
    <3>. HIDE DEF C
    <3>. QED
      BY <2>1, LeastPlace
  <2>3. m \in A /\ m \in DOMAIN rs
    BY <1>4, <2>1, <2>2
  <2>4. \A j \in A : ~ClaimsBefore(rs, j, m)
    <3>1. SUFFICES ASSUME NEW j \in A, ClaimsBefore(rs, j, m) PROVE FALSE
      OBVIOUS
    <3>2. j \in Nat
      BY <1>1, <1>4
    <3>3. CASE rs[j].enabled /\ ~rs[m].enabled
      <4>1. j \in B
        BY <3>3
      <4>2. m \in B
        BY <2>2, <4>1
      <4>. QED
        BY <3>3, <4>2
    <3>4. CASE rs[j].enabled = rs[m].enabled /\ j < m
      <4>1. j \in C
        <5>1. CASE B = {}
          BY <5>1
        <5>2. CASE B # {}
          <6>1. m \in B
            BY <2>2, <5>2
          <6>2. rs[m].enabled /\ rs[j].enabled
            BY <3>4, <6>1
          <6>. QED
            BY <5>2, <6>2
        <5>. QED
          BY <5>1, <5>2
      <4>. HIDE DEF C, m
      <4>2. m <= j
        BY <2>2, <4>1
      <4>. QED
        BY <2>2, <3>2, <3>4, <4>2
    <3>. QED
      BY <3>1, <3>3, <3>4 DEF ClaimsBefore
  <2>. HIDE DEF m
  <2>5. id \notin Claimed(rs, m)
    <3>1. SUFFICES ASSUME id \in Claimed(rs, m) PROVE FALSE
      OBVIOUS
    <3>2. PICK j \in DOMAIN rs : ClaimsBefore(rs, j, m) /\ id \in IdsOf(rs[j])
      BY <3>1 DEF Claimed
    <3>3. rs[j].mode = "booking_id"
      BY <3>2 DEF ClaimsBefore
    <3>4. j \in A
      BY <3>2, <3>3 DEF A, Holders
    <3>. QED
      BY <2>4, <3>2, <3>4
  <2>6. /\ rs[m].mode = "booking_id"
        /\ id \in {NormLoc(KeptIds(rs, m)[j]) : j \in DOMAIN KeptIds(rs, m)}
    BY <1>4, <2>3, <2>5, KeptIdsAre
  <2>7. KeptIds(rs, m) # <<>>
    BY <2>6
  <2>8. PICK k \in DOMAIN out : src[k] = m
    BY <1>2, <2>3, <2>6, <2>7
  <2>9. out[k].mode = "booking_id"
    BY <1>2, <2>6, <2>8
  <2>10. id \in IdsOf(out[k])
    BY <1>3, <1>4, <2>3, <2>5, <2>8, <2>9
  <2>. QED
    BY <2>9, <2>10 DEF H, Holders
<1>9. ASSUME NEW e \in A, rs[e].enabled, NEW k \in H PROVE out[k].enabled
  <2>1. SUFFICES ASSUME ~out[k].enabled PROVE FALSE
    OBVIOUS
  <2>2. src[k] \in A /\ ~rs[src[k]].enabled /\ id \notin Claimed(rs, src[k])
    BY <1>5, <2>1
  <2>3. ClaimsBefore(rs, e, src[k])
    BY <1>4, <1>9, <2>2 DEF ClaimsBefore
  <2>. QED
    BY <1>6, <2>2, <2>3
<1>. QED
  BY <1>7, <1>8, <1>9 DEF A, H

\* What a save stored, and the rows that are left of it.
LEMMA RowsAreStored ==
    ASSUME IInv, pc # "page"
    PROVE  /\ Sent \in Seq(SettledRules) /\ Stored \in Seq(SettledRules)
           /\ rows \in Seq(SettledRules)
           /\ Collapsed(Stored, Sent, Len(Sent))
           /\ DOMAIN rows = DOMAIN Stored
           /\ \A k \in DOMAIN rows :
                  /\ rows[k].mode = Stored[k].mode /\ rows[k].enabled = Stored[k].enabled
                  /\ rows[k].booking_ids = Stored[k].booking_ids
                  /\ rows[k].max_accept_count = Stored[k].max_accept_count
                  /\ Lane(rows[k]) = Lane(Stored[k]) /\ IdsOf(rows[k]) = IdsOf(Stored[k])
                  /\ rows[k].accepted_count >= Stored[k].accepted_count
                  /\ rows[k].accepted_count \in Nat /\ Stored[k].accepted_count \in Nat
<1>1. /\ page \in Saves /\ rows \in Seq(SettledRules) /\ DOMAIN rows = DOMAIN Stored
      /\ \A k \in DOMAIN rows : /\ rows[k].accepted_count >= Stored[k].accepted_count
                                /\ rows[k] = Counted(Stored[k], rows[k].accepted_count)
  BY DEF IInv, RowsKept
<1>2. Sent \in Seq(SettledRules)
  BY <1>1, SentIs DEF Sent
<1>3. Stored \in Seq(SettledRules) /\ Collapsed(Stored, Sent, Len(Sent))
  BY <1>2, DedupeCollapses DEF Stored
<1>4. ASSUME NEW k \in DOMAIN rows
      PROVE  /\ rows[k].mode = Stored[k].mode /\ rows[k].enabled = Stored[k].enabled
             /\ rows[k].booking_ids = Stored[k].booking_ids
             /\ rows[k].max_accept_count = Stored[k].max_accept_count
             /\ Lane(rows[k]) = Lane(Stored[k])
             /\ rows[k].accepted_count \in Nat /\ Stored[k].accepted_count \in Nat
  <2>. DEFINE r == rows[k]  t == Stored[k]  n == rows[k].accepted_count
  <2>1. r \in SettledRules /\ t \in SettledRules
    BY <1>1, <1>3
  <2>2. n \in Nat /\ t.accepted_count \in Nat
    BY <2>1, SettledFields
  <2>3. r = Counted(t, n) /\ n = r.accepted_count
    BY <1>1
  <2>. HIDE DEF r, t, n
  <2>4. /\ Counted(t, n).mode = t.mode /\ Counted(t, n).enabled = t.enabled
        /\ Counted(t, n).booking_ids = t.booking_ids
        /\ Counted(t, n).max_accept_count = t.max_accept_count
        /\ Lane(Counted(t, n)) = Lane(t)
    BY <2>1, <2>2, CountedIs
  <2>5. /\ r.mode = t.mode /\ r.enabled = t.enabled /\ r.booking_ids = t.booking_ids
        /\ r.max_accept_count = t.max_accept_count /\ Lane(r) = Lane(t)
        /\ r.accepted_count \in Nat /\ t.accepted_count \in Nat
    BY <2>2, <2>3, <2>4
  <2>. QED
    BY <2>5 DEF r, t
<1>5. \A k \in DOMAIN rows : IdsOf(rows[k]) = IdsOf(Stored[k])
  BY <1>4, Zenon DEF IdsOf
<1>. QED
  BY <1>1, <1>2, <1>3, <1>4, <1>5

LEMMA StaysArmed == IInv => IdsStayArmed
<1>. DEFINE asked(id, on) == \E i \in DOMAIN Sent : /\ Sent[i].mode = "booking_id"
                                                    /\ Sent[i].enabled = on
                                                    /\ id \in IdsOf(Sent[i])
<1>. SUFFICES ASSUME IInv, pc # "page", NEW id
              PROVE  /\ Cardinality(Holders(rows, id)) <= 1
                     /\ asked(id, TRUE) \/ asked(id, FALSE) => Holders(rows, id) # {}
                     /\ asked(id, TRUE) => \A k \in Holders(rows, id) : rows[k].enabled
  BY Zenon DEF IdsStayArmed, Holders
<1>1. /\ Sent \in Seq(SettledRules) /\ Stored \in Seq(SettledRules)
      /\ Collapsed(Stored, Sent, Len(Sent)) /\ DOMAIN rows = DOMAIN Stored
      /\ \A k \in DOMAIN rows :
             /\ rows[k].mode = Stored[k].mode /\ rows[k].enabled = Stored[k].enabled
             /\ IdsOf(rows[k]) = IdsOf(Stored[k])
  BY RowsAreStored
<1>2. PICK src : MadeOf(src, Stored, Sent, Len(Sent))
  BY <1>1 DEF Collapsed
<1>3. /\ AtMostOne(Holders(Stored, id))
      /\ Holders(Sent, id) # {} => Holders(Stored, id) # {}
      /\ (\E i \in Holders(Sent, id) : Sent[i].enabled) =>
             \A k \in Holders(Stored, id) : Stored[k].enabled
  BY <1>1, <1>2, IdsAreArmed
<1>4. Holders(rows, id) = Holders(Stored, id)
  BY <1>1 DEF Holders
<1>5. /\ asked(id, TRUE) \/ asked(id, FALSE) => Holders(Sent, id) # {}
      /\ asked(id, TRUE) => \E i \in Holders(Sent, id) : Sent[i].enabled
  BY DEF Holders
<1>6. \A k \in Holders(rows, id) : rows[k].enabled = Stored[k].enabled
  BY <1>1 DEF Holders
<1>7. Cardinality(Holders(rows, id)) <= 1
  BY <1>3, <1>4, AtMostOneCounts
<1>. HIDE DEF asked
<1>. QED
  BY <1>3, <1>4, <1>5, <1>6, <1>7

LEMMA LanesAreKept == IInv => LanesMergeUp
<1>. DEFINE routes(rs) == {i \in DOMAIN rs : rs[i].mode = "route"}
<1>. SUFFICES ASSUME IInv, pc # "page"
              PROVE  /\ \A i, j \in routes(rows) : Lane(rows[i]) = Lane(rows[j]) => i = j
                     /\ \A i \in routes(Sent) : \E k \in routes(rows) :
                            /\ Lane(rows[k]) = Lane(Sent[i])
                            /\ Bigger(rows[k].max_accept_count, Sent[i].max_accept_count)
                            /\ rows[k].accepted_count >= Sent[i].accepted_count
                            /\ Sent[i].enabled => rows[k].enabled
  BY Zenon DEF LanesMergeUp, Bigger
<1>1. /\ Sent \in Seq(SettledRules) /\ LanesApart(Stored) /\ RoutesHeld(Stored, Sent, Len(Sent))
      /\ DOMAIN rows = DOMAIN Stored
      /\ \A k \in DOMAIN rows :
             /\ rows[k].mode = Stored[k].mode /\ rows[k].enabled = Stored[k].enabled
             /\ rows[k].max_accept_count = Stored[k].max_accept_count
             /\ Lane(rows[k]) = Lane(Stored[k])
             /\ rows[k].accepted_count >= Stored[k].accepted_count
             /\ rows[k].accepted_count \in Nat /\ Stored[k].accepted_count \in Nat
  BY RowsAreStored DEF Collapsed
<1>2. \A i, j \in routes(rows) : Lane(rows[i]) = Lane(rows[j]) => i = j
  BY <1>1 DEF LanesApart
<1>3. ASSUME NEW i \in routes(Sent)
      PROVE  \E k \in routes(rows) :
                 /\ Lane(rows[k]) = Lane(Sent[i])
                 /\ Bigger(rows[k].max_accept_count, Sent[i].max_accept_count)
                 /\ rows[k].accepted_count >= Sent[i].accepted_count
                 /\ Sent[i].enabled => rows[k].enabled
  <2>1. i \in 1..Len(Sent) /\ i \in DOMAIN Sent /\ Sent[i].mode = "route"
    BY <1>1
  <2>2. PICK k \in DOMAIN Stored : Holds(Stored[k], Sent[i])
    BY <1>1, <2>1 DEF RoutesHeld
  <2>3. Sent[i].accepted_count \in Nat
    BY <1>1, <2>1, SettledFields
  <2>4. k \in DOMAIN rows /\ rows[k].mode = "route" /\ Lane(rows[k]) = Lane(Sent[i])
    BY <1>1, <2>2 DEF Holds
  <2>5. Bigger(rows[k].max_accept_count, Sent[i].max_accept_count)
    BY <1>1, <2>2 DEF Holds
  <2>6. rows[k].accepted_count >= Sent[i].accepted_count
    BY <1>1, <2>2, <2>3 DEF Holds
  <2>7. Sent[i].enabled => rows[k].enabled
    BY <1>1, <2>2 DEF Holds
  <2>. QED
    BY <2>4, <2>5, <2>6, <2>7
<1>. QED
  BY <1>2, <1>3

LEMMA RowsStayApart ==
    ASSUME IInv, pc # "page"
    PROVE  LanesApart(rows) /\ IdsApart(rows)
<1>1. /\ Sent \in Seq(SettledRules) /\ Stored \in Seq(SettledRules)
      /\ Collapsed(Stored, Sent, Len(Sent)) /\ DOMAIN rows = DOMAIN Stored
      /\ \A k \in DOMAIN rows :
             /\ rows[k].mode = Stored[k].mode /\ rows[k].booking_ids = Stored[k].booking_ids
             /\ Lane(rows[k]) = Lane(Stored[k]) /\ IdsOf(rows[k]) = IdsOf(Stored[k])
  BY RowsAreStored
<1>2. LanesApart(rows)
  BY <1>1 DEF Collapsed, LanesApart
<1>3. PICK src : MadeOf(src, Stored, Sent, Len(Sent))
  BY <1>1 DEF Collapsed
<1>4. ASSUME NEW j \in DOMAIN rows, NEW k \in DOMAIN rows, rows[j].mode = "booking_id",
             rows[k].mode = "booking_id", IdsOf(rows[j]) \cap IdsOf(rows[k]) # {}
      PROVE  j = k
  <2>1. PICK id : id \in IdsOf(rows[j]) /\ id \in IdsOf(rows[k])
    BY <1>4
  <2>2. j \in Holders(Stored, id) /\ k \in Holders(Stored, id)
    BY <1>1, <1>4, <2>1 DEF Holders
  <2>3. AtMostOne(Holders(Stored, id))
    BY <1>1, <1>3, IdsAreArmed
  <2>. QED
    BY <2>2, <2>3 DEF AtMostOne
<1>5. \A k \in DOMAIN rows : rows[k].mode = "booking_id" => rows[k].booking_ids # <<>>
  <2>1. DOMAIN Stored = 1..Len(Stored)
    BY <1>1
  <2>. QED
    BY <1>1, <1>3, <2>1 DEF MadeOf
<1>. QED
  BY <1>2, <1>4, <1>5, Zenon DEF IdsApart

LEMMA SavedAgain == IInv => SavingAgainChangesNothing
<1>. DEFINE L == [k \in DOMAIN rules |-> Loaded(rows[rules[k].row])]
            shown == [k \in DOMAIN rules |-> Echo(Loaded(rows[rules[k].row]))]
<1>. SUFFICES ASSUME IInv, pc = "loaded"
              PROVE  ToSet(DedupeRules(SanitizeAcceptRules(shown)))
                         = {Loaded(rows[i]) : i \in DOMAIN rows}
  BY Zenon DEF SavingAgainChangesNothing
<1>1. /\ rows \in Seq(SettledRules) /\ DOMAIN rules = DOMAIN rows
      /\ \A k \in DOMAIN rows : rules[k].row \in DOMAIN rows
      /\ \A j, k \in DOMAIN rows : rules[j].row = rules[k].row => j = k
  BY DEF IInv, RowsKept, RulesLoaded
<1>2. DOMAIN rows = 1..Len(rows) /\ Len(rows) \in Nat
  BY <1>1
<1>3. ASSUME NEW k \in DOMAIN rows
      PROVE  /\ rows[rules[k].row] \in SettledRules /\ L[k] \in SettledRules
             /\ L[k] = Loaded(rows[rules[k].row])
             /\ L[k].mode = rows[rules[k].row].mode
             /\ Lane(L[k]) = Lane(rows[rules[k].row])
             /\ L[k].mode = "booking_id" => L[k].booking_ids = rows[rules[k].row].booking_ids
  <2>. DEFINE w == rows[rules[k].row]
  <2>1. w \in SettledRules /\ L[k] = Loaded(w)
    BY <1>1
  <2>. HIDE DEF w, L
  <2>2. /\ Loaded(w) \in SettledRules /\ Loaded(w).mode = w.mode /\ Lane(Loaded(w)) = Lane(w)
        /\ w.mode = "booking_id" => Loaded(w).booking_ids = w.booking_ids
    BY <2>1, LoadedIs
  <2>3. /\ w \in SettledRules /\ L[k] \in SettledRules /\ L[k] = Loaded(w)
        /\ L[k].mode = w.mode /\ Lane(L[k]) = Lane(w)
        /\ L[k].mode = "booking_id" => L[k].booking_ids = w.booking_ids
    BY <2>1, <2>2
  <2>. QED
    BY <2>3 DEF w
<1>4. L \in Seq(SettledRules) /\ DOMAIN L = DOMAIN rows
  <2>1. L \in [1..Len(rows) -> SettledRules]
    BY <1>1, <1>2, <1>3
  <2>. QED
    BY <1>1, <1>2, <2>1, SeqDef
<1>5. SanitizeAcceptRules(shown) = L
  <2>1. SanitizeAcceptRules(shown) = [k \in DOMAIN shown |-> Sanitize(shown[k])]
    BY Zenon DEF SanitizeAcceptRules, Map
  <2>2. ASSUME NEW k \in DOMAIN rules PROVE Sanitize(shown[k]) = L[k]
    <3>1. L[k] \in SettledRules
      BY <1>1, <1>3
    <3>2. Settled(L[k])
      BY <3>1, SettledFields
    <3>3. shown[k] = Echo(L[k])
      BY <1>1
    <3>. HIDE DEF L, shown
    <3>. QED
      BY <3>2, <3>3, EchoIsKept
  <2>3. DOMAIN shown = DOMAIN rules
    OBVIOUS
  <2>4. L = [k \in DOMAIN rules |-> L[k]]
    OBVIOUS
  <2>. HIDE DEF L, shown
  <2>. QED
    BY <2>1, <2>2, <2>3, <2>4
<1>6. LanesApart(rows) /\ IdsApart(rows)
  BY RowsStayApart
<1>7. \A k \in DOMAIN rows : L[k].mode = "booking_id" =>
          IdsOf(L[k]) = IdsOf(rows[rules[k].row])
  <2>. HIDE DEF L
  <2>. QED
    BY <1>3, Zenon DEF IdsOf
<1>8. ToSet(L) = {Loaded(rows[i]) : i \in DOMAIN rows}
  <2>. DEFINE f == [k \in DOMAIN rows |-> rules[k].row]
  <2>1. f \in Injection(DOMAIN rows, DOMAIN rows)
    BY <1>1 DEF Injection, IsInjective
  <2>2. IsFiniteSet(DOMAIN rows)
    BY <1>2, FS_Interval
  <2>3. f \in Surjection(DOMAIN rows, DOMAIN rows)
    <3>. HIDE DEF f
    <3>. QED
      BY <2>1, <2>2, FS_Injection
  <2>4. \A i \in DOMAIN rows : \E k \in DOMAIN rows : f[k] = i
    <3>. HIDE DEF f
    <3>. QED
      BY <2>3 DEF Surjection
  <2>5. ToSet(L) = {L[k] : k \in DOMAIN rows}
    BY <1>4 DEF ToSet
  <2>6. \A k \in DOMAIN rows : L[k] = Loaded(rows[f[k]]) /\ f[k] \in DOMAIN rows
    BY <1>1, <1>3
  <2>. HIDE DEF f, L
  <2>. QED
    BY <2>4, <2>5, <2>6
<1>. HIDE DEF L, shown
<1>9. LanesApart(L)
  <2>1. SUFFICES ASSUME NEW j \in DOMAIN rows, NEW k \in DOMAIN rows, L[j].mode = "route",
                        L[k].mode = "route", Lane(L[j]) = Lane(L[k])
                 PROVE  j = k
    BY <1>4 DEF LanesApart
  <2>2. rules[j].row = rules[k].row
    <3>. DEFINE a == rules[j].row  c == rules[k].row
    <3>1. a \in DOMAIN rows /\ c \in DOMAIN rows
      BY <1>1
    <3>2. rows[a].mode = "route" /\ rows[c].mode = "route" /\ Lane(rows[a]) = Lane(rows[c])
      BY <1>3, <2>1
    <3>. HIDE DEF a, c
    <3>3. a = c
      BY <1>6, <3>1, <3>2 DEF LanesApart
    <3>. QED
      BY <3>3 DEF a, c
  <2>. QED
    BY <1>1, <2>2
<1>10. IdsApart(L)
  <2>1. ASSUME NEW j \in DOMAIN rows, NEW k \in DOMAIN rows, L[j].mode = "booking_id",
               L[k].mode = "booking_id", IdsOf(L[j]) \cap IdsOf(L[k]) # {}
        PROVE  j = k
    <3>. DEFINE a == rules[j].row  c == rules[k].row
    <3>1. a \in DOMAIN rows /\ c \in DOMAIN rows
      BY <1>1
    <3>2. rows[a].mode = "booking_id" /\ rows[c].mode = "booking_id"
      BY <1>3, <2>1
    <3>3. IdsOf(rows[a]) \cap IdsOf(rows[c]) # {}
      BY <1>7, <2>1
    <3>. HIDE DEF a, c
    <3>4. a = c
      BY <1>6, <3>1, <3>2, <3>3 DEF IdsApart
    <3>5. rules[j].row = rules[k].row
      BY <3>4 DEF a, c
    <3>. QED
      BY <1>1, <3>5
  <2>2. \A k \in DOMAIN rows : L[k].mode = "booking_id" => L[k].booking_ids # <<>>
    BY <1>1, <1>3, <1>6 DEF IdsApart
  <2>. QED
    BY <1>4, <2>1, <2>2, Zenon DEF IdsApart
<1>. QED
  BY <1>4, <1>5, <1>8, <1>9, <1>10, CollapsedStays

\* A save stores what the page asked for: no booking id twice or lost or
\* disarmed, no lane twice, none with less than the page asked for it, and
\* what the page is shown, sent back, is stored again as it was
\* (sanitize_accept_rules, dedupe_rules, put_settings, load_compiled_rules).
THEOREM TheBookStaysWhole == Spec => []BookIsWhole
<1>1. IInv => BookIsWhole
  BY StaysArmed, LanesAreKept, SavedAgain DEF BookIsWhole
<1>. QED
  BY <1>1, IInvHolds, PTL
=============================================================================
