--------------------------- MODULE Induction_proofs ---------------------------
(***************************************************************************)
(* Facts about data of any length, that the proofs about the components    *)
(* cite: induction and recursion on the natural numbers, stated about sets *)
(* and functions, extreme elements, and what FlattenSeq puts where.        *)
(***************************************************************************)
EXTENDS Integers, SequencesExt, SequenceTheorems, WellFoundedInduction, TLAPS

(***************************************************************************)
(* A set of natural numbers that is not empty has a least element.         *)
(***************************************************************************)
LEMMA LeastElement ==
  ASSUME NEW T \in SUBSET Nat, T # {}
  PROVE  \E n \in T : \A m \in T : n <= m
<1> DEFINE R == OpToRel(<, Nat)
<1>1. IsWellFoundedOn(R, Nat)
  BY NatLessThanWellFounded
<1>2. PICK n \in T : \A m \in T : ~(<<m, n>> \in R)
  <2> HIDE DEF R
  <2> QED BY <1>1, WFMin
<1>3. ASSUME NEW m \in T PROVE n <= m
  <2>1. m < n => <<m, n>> \in R
    BY DEF OpToRel
  <2>2. ~(m < n)
    <3> HIDE DEF R
    <3> QED BY <1>2, <2>1
  <2> HIDE DEF R
  <2> QED BY <2>2
<1> HIDE DEF R
<1> QED BY <1>3

(***************************************************************************)
(* Induction up to a bound: a set that has 0, and with the number below    *)
(* each number up to N that number, has them all.                          *)
(***************************************************************************)
LEMMA BoundedInduction ==
  ASSUME NEW N \in Nat, NEW T, 0 \in T, \A n \in 1..N : n - 1 \in T => n \in T
  PROVE  0..N \subseteq T
<1> SUFFICES ASSUME ~(0..N \subseteq T) PROVE FALSE
  OBVIOUS
<1> DEFINE U == (0..N) \ T
<1>1. U \in SUBSET Nat /\ U # {}
  OBVIOUS
<1>2. PICK n \in U : \A m \in U : n <= m
  <2> HIDE DEF U
  <2> QED BY <1>1, LeastElement
<1>3. n \in 1..N /\ n - 1 \notin U
  BY <1>2
<1> QED BY <1>3

(***************************************************************************)
(* Recursion up to a bound: there is a function that starts with b and     *)
(* takes each value from the one before by G.  The provers instantiate the *)
(* lemma as long as the two definitions are hidden.                        *)
(***************************************************************************)
IsStep(G, N, S) == G \in [(1..N) \X S -> S]
IsIteration(f, N, S, b, G) ==
  f \in [0..N -> S] /\ f[0] = b /\ \A n \in 1..N : f[n] = G[<<n, f[n - 1]>>]

(***************************************************************************)
(* Values that are each made of the one before exist up to any bound.      *)
(***************************************************************************)
LEMMA BoundedRecursion ==
  ASSUME NEW N \in Nat, NEW S, NEW b \in S, NEW G, IsStep(G, N, S)
  PROVE  \E f : IsIteration(f, N, S, b, G)
<1> USE DEF IsStep
<1> DEFINE Upto(n, f) == f[0] = b /\ \A i \in 1..n : f[i] = G[<<i, f[i - 1]>>]
           T == {n \in 0..N : \E f \in [0..n -> S] : Upto(n, f)}
<1>1. 0 \in T
  <2> DEFINE g == [i \in 0..0 |-> b]
  <2>1. g \in [0..0 -> S] /\ Upto(0, g)
    OBVIOUS
  <2>2. \E f \in [0..0 -> S] : Upto(0, f)
    <3> HIDE DEF g
    <3> QED BY <2>1
  <2> QED BY <2>2
<1>2. ASSUME NEW n \in 1..N, n - 1 \in T
      PROVE  n \in T
  <2>1. PICK f \in [0..(n - 1) -> S] : Upto(n - 1, f)
    BY <1>2
  <2> DEFINE g == [i \in 0..n |-> IF i = n THEN G[<<n, f[n - 1]>>] ELSE f[i]]
  <2>2. n - 1 \in 0..(n - 1) /\ <<n, f[n - 1]>> \in (1..N) \X S
    OBVIOUS
  <2>3. G[<<n, f[n - 1]>>] \in S
    BY <2>2
  <2>4. g \in [0..n -> S]
    BY <2>3
  <2>5. g[0] = b
    BY <2>1
  <2>6. ASSUME NEW i \in 1..n PROVE g[i] = G[<<i, g[i - 1]>>]
    <3>1. CASE i = n
      <4>1. n - 1 \in 0..n /\ n - 1 # n /\ n \in 0..n
        OBVIOUS
      <4>2. g[n - 1] = f[n - 1] /\ g[n] = G[<<n, f[n - 1]>>]
        BY <4>1
      <4> HIDE DEF g
      <4> QED BY <4>2, <3>1
    <3>2. CASE i # n
      <4>1. i \in 1..(n - 1) /\ i - 1 \in 0..(n - 1) /\ i - 1 # n
        BY <3>2
      <4> QED BY <4>1, <2>1
    <3> QED BY <3>1, <3>2
  <2>7. Upto(n, g)
    BY <2>5, <2>6
  <2>8. \E h \in [0..n -> S] : Upto(n, h)
    <3> HIDE DEF g, Upto
    <3> QED BY <2>4, <2>7
  <2> QED BY <2>8
<1>3. N \in T
  <2> HIDE DEF T
  <2>1. 0..N \subseteq T
    BY <1>1, <1>2, BoundedInduction
  <2> QED BY <2>1
<1> QED BY <1>3 DEF IsIteration

(***************************************************************************)
(* Of finitely many integers one is the least and one is the greatest.     *)
(***************************************************************************)
LEMMA Extremes ==
  ASSUME NEW N \in Nat \ {0}, NEW g \in [1..N -> Int]
  PROVE  /\ \E i \in 1..N : \A j \in 1..N : g[i] <= g[j]
         /\ \E i \in 1..N : \A j \in 1..N : g[j] <= g[i]
<1> DEFINE Low(n) == \E i \in 1..n : \A j \in 1..n : g[i] <= g[j]
           High(n) == \E i \in 1..n : \A j \in 1..n : g[j] <= g[i]
           T == {n \in 0..N : n = 0 \/ (Low(n) /\ High(n))}
<1>1. 0 \in T
  OBVIOUS
<1>2. ASSUME NEW n \in 1..N, n - 1 \in T
      PROVE  n \in T
  <2>1. CASE n = 1
    BY <2>1
  <2>2. CASE n # 1
    <3>1. n - 1 # 0
      BY <2>2
    <3>2. PICK i \in 1..(n - 1) : \A j \in 1..(n - 1) : g[i] <= g[j]
      BY <1>2, <3>1
    <3>3. Low(n)
      <4>1. g[i] \in Int /\ g[n] \in Int
        OBVIOUS
      <4>2. CASE g[i] <= g[n]
        <5>1. \A j \in 1..n : j = n \/ j \in 1..(n - 1)
          OBVIOUS
        <5>2. i \in 1..n /\ \A j \in 1..n : g[i] <= g[j]
          BY <4>2, <3>2, <5>1
        <5> QED BY <5>2
      <4>3. CASE g[n] < g[i]
        <5>1. \A j \in 1..n : j = n \/ j \in 1..(n - 1)
          OBVIOUS
        <5>2. n \in 1..n /\ \A j \in 1..n : g[n] <= g[j]
          BY <4>3, <3>2, <5>1
        <5> QED BY <5>2
      <4> QED BY <4>1, <4>2, <4>3
    <3>4. PICK k \in 1..(n - 1) : \A j \in 1..(n - 1) : g[j] <= g[k]
      BY <1>2, <3>1
    <3>5. High(n)
      <4>1. g[k] \in Int /\ g[n] \in Int
        OBVIOUS
      <4>2. CASE g[n] <= g[k]
        <5>1. \A j \in 1..n : j = n \/ j \in 1..(n - 1)
          OBVIOUS
        <5>2. k \in 1..n /\ \A j \in 1..n : g[j] <= g[k]
          BY <4>2, <3>4, <5>1
        <5> QED BY <5>2
      <4>3. CASE g[k] < g[n]
        <5>1. \A j \in 1..n : j = n \/ j \in 1..(n - 1)
          OBVIOUS
        <5>2. n \in 1..n /\ \A j \in 1..n : g[j] <= g[n]
          BY <4>3, <3>4, <5>1
        <5> QED BY <5>2
      <4> QED BY <4>1, <4>2, <4>3
    <3> QED BY <3>3, <3>5
  <2> QED BY <2>1, <2>2
<1>3. N \in T
  <2> HIDE DEF T
  <2>1. 0..N \subseteq T
    BY <1>1, <1>2, BoundedInduction
  <2> QED BY <2>1
<1> QED BY <1>3

(***************************************************************************)
(* Two sequences one behind the other.                                     *)
(***************************************************************************)
Joins(u, s, t) ==
  /\ Len(u) = Len(s) + Len(t)
  /\ \A i \in 1..Len(s) : u[i] = s[i]
  /\ \A j \in 1..Len(t) : u[Len(s) + j] = t[j]

(***************************************************************************)
(* Both parts are found in the whole, the second behind the first.         *)
(***************************************************************************)
LEMMA ConcatParts ==
  ASSUME NEW S, NEW s \in Seq(S), NEW t \in Seq(S)
  PROVE  Joins(s \o t, s, t)
<1>1. Len(s) \in Nat /\ Len(t) \in Nat /\ Len(s \o t) = Len(s) + Len(t)
  BY ConcatProperties
<1>2. ASSUME NEW i \in 1..Len(s) PROVE (s \o t)[i] = s[i]
  <2>1. i \in 1..(Len(s) + Len(t)) /\ i <= Len(s)
    BY <1>1
  <2> QED BY <2>1, ConcatProperties
<1>3. ASSUME NEW j \in 1..Len(t) PROVE (s \o t)[Len(s) + j] = t[j]
  <2>1. Len(s) + j \in 1..(Len(s) + Len(t)) /\ ~(Len(s) + j <= Len(s)) /\ (Len(s) + j) - Len(s) = j
    BY <1>1
  <2> QED BY <2>1, ConcatProperties
<1> QED BY <1>1, <1>2, <1>3 DEF Joins

(***************************************************************************)
(* FlattenSeq as a recursion on the number of sequences joined.            *)
(***************************************************************************)
LEMMA FlattenSteps ==
  ASSUME NEW S, NEW seqs \in Seq(Seq(S))
  PROVE  \E f \in [0..Len(seqs) -> Seq(S)] :
           /\ f[0] = <<>>
           /\ \A n \in 1..Len(seqs) : f[n] = f[n - 1] \o seqs[n]
           /\ FlattenSeq(seqs) = f[Len(seqs)]
<1> DEFINE N == Len(seqs)
           G == [p \in (1..N) \X Seq(S) |-> p[2] \o seqs[p[1]]]
<1>1. N \in Nat /\ \A n \in 1..N : seqs[n] \in Seq(S)
  OBVIOUS
<1>2. <<>> \in Seq(S) /\ IsStep(G, N, Seq(S))
  <2>1. \A p \in (1..N) \X Seq(S) : p[2] \in Seq(S) /\ seqs[p[1]] \in Seq(S)
    BY <1>1
  <2>2. \A p \in (1..N) \X Seq(S) : p[2] \o seqs[p[1]] \in Seq(S)
    BY <2>1
  <2> QED BY <2>2 DEF IsStep
<1>3. PICK f : IsIteration(f, N, Seq(S), <<>>, G)
  <2> HIDE DEF N, G
  <2> QED BY <1>1, <1>2, BoundedRecursion
<1>4. \A n \in 1..N : n - 1 \in 0..N /\ f[n - 1] \in Seq(S) /\ f[n] = f[n - 1] \o seqs[n]
  <2> SUFFICES ASSUME NEW n \in 1..N
               PROVE  n - 1 \in 0..N /\ f[n - 1] \in Seq(S) /\ f[n] = f[n - 1] \o seqs[n]
    OBVIOUS
  <2>1. n - 1 \in 0..N /\ f[n - 1] \in Seq(S)
    <3> HIDE DEF N, G
    <3> QED BY <1>1, <1>3 DEF IsIteration
  <2>2. G[<<n, f[n - 1]>>] = f[n - 1] \o seqs[n]
    <3> HIDE DEF N
    <3> QED BY <2>1
  <2> HIDE DEF N, G
  <2> QED BY <2>1, <2>2, <1>3 DEF IsIteration
<1>5. CASE N = 0
  <2>1. FlattenSeq(seqs) = <<>>
    BY <1>5 DEF FlattenSeq
  <2> HIDE DEF G
  <2> QED BY <2>1, <1>3, <1>4, <1>5 DEF IsIteration
<1>6. CASE N # 0
  <2> DEFINE Eq(h) == h = [i \in 1..N |-> IF i = 1 THEN seqs[i] ELSE h[i - 1] \o seqs[i]]
             g == [i \in 1..N |-> f[i]]
             c == CHOOSE h : Eq(h)
  <2>1. FlattenSeq(seqs) = c[N]
    BY <1>6 DEF FlattenSeq
  <2>2. f[1] = seqs[1]
    <3> HIDE DEF N, G
    <3>1. 1 \in 1..N /\ 1 - 1 = 0
      BY <1>1, <1>6
    <3>2. f[1] = <<>> \o seqs[1] /\ seqs[1] \in Seq(S)
      BY <3>1, <1>1, <1>3, <1>4 DEF IsIteration
    <3> QED BY <3>2
  <2> HIDE DEF N, G
  <2>3. Eq(g)
    <3>1. ASSUME NEW i \in 1..N PROVE g[i] = IF i = 1 THEN seqs[i] ELSE g[i - 1] \o seqs[i]
      <4>1. CASE i = 1
        BY <4>1, <2>2
      <4>2. CASE i # 1
        <5>1. i - 1 \in 1..N
          BY <4>2, <1>1
        <5>2. g[i - 1] = f[i - 1] /\ g[i] = f[i]
          BY <5>1
        <5> HIDE DEF g
        <5> QED BY <4>2, <5>2, <1>4
      <4> QED BY <4>1, <4>2
    <3> QED BY <3>1
  <2>4. Eq(c)
    <3> HIDE DEF Eq, g
    <3> QED BY <2>3
  <2>5. \A n \in 1..N : c[n] = IF n = 1 THEN seqs[n] ELSE c[n - 1] \o seqs[n]
    <3> HIDE DEF c
    <3> QED BY <2>4
  <2> DEFINE T == {n \in 0..N : n = 0 \/ c[n] = f[n]}
  <2> HIDE DEF c
  <2>6. 0 \in T
    BY <1>1
  <2>7. ASSUME NEW n \in 1..N, n - 1 \in T
        PROVE  n \in T
    <3>1. CASE n = 1
      BY <3>1, <2>2, <2>5
    <3>2. CASE n # 1
      <4>1. c[n - 1] = f[n - 1]
        BY <2>7, <3>2
      <4>2. c[n] = f[n]
        BY <4>1, <3>2, <2>5, <1>4
      <4> QED BY <4>2
    <3> QED BY <3>1, <3>2
  <2>8. N \in T
    <3> HIDE DEF T
    <3>1. 0..N \subseteq T
      BY <1>1, <2>6, <2>7, BoundedInduction
    <3> QED BY <1>1, <3>1
  <2>9. FlattenSeq(seqs) = f[N]
    BY <2>1, <2>8, <1>6
  <2> QED BY <2>9, <1>3, <1>4 DEF N, IsIteration
<1> QED BY <1>5, <1>6

(***************************************************************************)
(* What FlattenSeq puts where: the sequences follow one another, so that   *)
(* sequence k ends at End[k], the sum of the lengths up to it.             *)
(***************************************************************************)
Ends(End, seqs) ==
  End \in [0..Len(seqs) -> Nat] /\ End[0] = 0 /\ \A n \in 1..Len(seqs) : End[n] = End[n - 1] + Len(seqs[n])

LaidOut(u, seqs, End) ==
  /\ Len(u) = End[Len(seqs)]
  /\ \A k \in 1..Len(seqs) :
       /\ Len(seqs[k]) <= End[k] /\ End[k] <= End[Len(seqs)]
       /\ \A j \in 1..Len(seqs[k]) : u[End[k] - Len(seqs[k]) + j] = seqs[k][j]

(***************************************************************************)
(* FlattenSeq lays the sequences out by their ends.                        *)
(***************************************************************************)
LEMMA FlattenLayout ==
  ASSUME NEW S, NEW seqs \in Seq(Seq(S)), NEW End, Ends(End, seqs)
  PROVE  FlattenSeq(seqs) \in Seq(S) /\ LaidOut(FlattenSeq(seqs), seqs, End)
<1> DEFINE N == Len(seqs)
<1>1. N \in Nat /\ \A n \in 1..N : seqs[n] \in Seq(S) /\ Len(seqs[n]) \in Nat /\ n - 1 \in 0..N
  OBVIOUS
<1>0. End \in [0..N -> Nat] /\ End[0] = 0 /\ \A n \in 1..N : End[n] = End[n - 1] + Len(seqs[n])
  BY DEF Ends
<1>2. PICK f \in [0..N -> Seq(S)] :
        f[0] = <<>> /\ (\A n \in 1..N : f[n] = f[n - 1] \o seqs[n]) /\ FlattenSeq(seqs) = f[N]
  BY FlattenSteps
<1> DEFINE Placed(n, k) == /\ Len(seqs[k]) <= End[k] /\ End[k] <= End[n]
                           /\ \A j \in 1..Len(seqs[k]) : f[n][End[k] - Len(seqs[k]) + j] = seqs[k][j]
           T == {n \in 0..N : Len(f[n]) = End[n] /\ \A k \in 1..n : Placed(n, k)}
<1>3. 0 \in T
  <2>1. Len(f[0]) = 0
    BY <1>2
  <2> QED BY <1>0, <2>1
<1>4. ASSUME NEW n \in 1..N, n - 1 \in T
      PROVE  n \in T
  <2>1. n \in 0..N /\ n - 1 \in 0..N /\ End[n] = End[n - 1] + Len(seqs[n])
    BY <1>0, <1>1
  <2>2. f[n - 1] \in Seq(S) /\ f[n] = f[n - 1] \o seqs[n] /\ Len(f[n - 1]) = End[n - 1]
    <3> HIDE DEF N
    <3> QED BY <2>1, <1>2, <1>4
  <2>3. End[n] \in Nat /\ End[n - 1] \in Nat /\ Len(seqs[n]) \in Nat /\ seqs[n] \in Seq(S)
    BY <1>0, <2>1, <1>1
  <2>4. /\ Len(f[n]) = End[n]
        /\ \A i \in 1..End[n - 1] : f[n][i] = f[n - 1][i]
        /\ \A j \in 1..Len(seqs[n]) : f[n][End[n - 1] + j] = seqs[n][j]
    <3> DEFINE s == f[n - 1]
               t == seqs[n]
    <3>1. s \in Seq(S) /\ t \in Seq(S) /\ f[n] = s \o t /\ Len(s) = End[n - 1] /\ End[n] = End[n - 1] + Len(t)
      BY <2>1, <2>2, <2>3
    <3> HIDE DEF N, T, Placed, s, t
    <3>2. Joins(f[n], s, t)
      BY <3>1, ConcatParts
    <3>3. /\ Len(f[n]) = End[n]
          /\ \A i \in 1..End[n - 1] : f[n][i] = s[i]
          /\ \A j \in 1..Len(t) : f[n][End[n - 1] + j] = t[j]
      BY <3>1, <3>2 DEF Joins
    <3> QED BY <3>3 DEF s, t
  <2>5. ASSUME NEW k \in 1..n PROVE Placed(n, k)
    <3>1. CASE k = n
      <4>1. End[n] - Len(seqs[n]) = End[n - 1] /\ Len(seqs[n]) <= End[n]
        BY <2>1, <2>3
      <4> HIDE DEF N
      <4> QED BY <3>1, <4>1, <2>3, <2>4
    <3>2. CASE k # n
      <4>1. k \in 1..(n - 1) /\ k \in 1..N /\ k \in 0..N
        BY <3>2, <1>1
      <4>2. Placed(n - 1, k)
        <5> HIDE DEF Placed, N
        <5> QED BY <4>1, <1>4
      <4>3. End[k] \in Nat /\ Len(seqs[k]) \in Nat
        BY <1>0, <4>1, <1>1
      <4>4. Len(seqs[k]) <= End[k] /\ End[k] <= End[n - 1] /\ End[k] <= End[n]
        <5>1. Len(seqs[k]) <= End[k] /\ End[k] <= End[n - 1]
          BY <4>2
        <5>2. \A e, m, l \in Nat : e <= m => e <= m + l
          OBVIOUS
        <5>3. End[k] <= End[n - 1] + Len(seqs[n])
          <6> HIDE DEF N, T, Placed
          <6> QED BY <5>1, <5>2, <4>3, <2>3
        <5> QED BY <5>1, <5>3, <2>1
      <4>5. ASSUME NEW j \in 1..Len(seqs[k])
            PROVE  f[n][End[k] - Len(seqs[k]) + j] = seqs[k][j]
        <5>1. \A e, l, m \in Nat : l <= e /\ e <= m => \A i \in 1..l : e - l + i \in 1..m
          OBVIOUS
        <5>2. End[k] - Len(seqs[k]) + j \in 1..End[n - 1]
          <6> HIDE DEF N, T, Placed
          <6> QED BY <5>1, <4>3, <4>4, <2>3
        <5>3. f[n - 1][End[k] - Len(seqs[k]) + j] = seqs[k][j]
          <6> HIDE DEF N, T
          <6> QED BY <4>2
        <5> HIDE DEF N, T, Placed
        <5> QED BY <5>2, <5>3, <2>4
      <4> HIDE DEF N, T
      <4> QED BY <4>4, <4>5
    <3> QED BY <3>1, <3>2
  <2> HIDE DEF Placed, N
  <2> QED BY <2>1, <2>4, <2>5
<1>5. N \in T
  <2> HIDE DEF T, N
  <2>1. 0..N \subseteq T
    BY <1>1, <1>3, <1>4, BoundedInduction
  <2> QED BY <1>1, <2>1
<1> QED BY <1>1, <1>2, <1>5 DEF LaidOut
===============================================================================
