----------------------------- MODULE SequenceLemmas -----------------------------
(***************************************************************************)
(* Facts the proofs share about natural numbers, about the operators the   *)
(* models build sequences with and about sums over finite sets.  Induction *)
(* over the numbers up to n or over the subsets of a finite set is an      *)
(* argument about the least counterexample.                                *)
(***************************************************************************)
EXTENDS Integers, SequencesExt, FiniteSetTheorems, SequenceTheorems, TLAPS

(* A set of natural numbers that is not empty has a least element. *)
LEMMA Least ==
    ASSUME NEW T, T \subseteq Nat, T # {}
    PROVE  \E m \in T : \A k \in T : m <= k
  <1>. DEFINE R == {ss \in Nat \X Nat : ss[1] < ss[2]}
  <1>1. R = OpToRel(<, Nat)
    BY Zenon DEF OpToRel
  <1>2. IsWellFoundedOn(R, Nat)
    BY <1>1, NatLessThanWellFounded, Zenon
  <1>3. \E x \in T : \A y \in T : <<y, x>> \notin R
    <2>. HIDE DEF R
    <2>. QED  BY <1>2, WFMin
  <1>4. PICK m \in T : \A k \in T : <<k, m>> \notin R
    BY <1>3
  <1>5. \A k \in T : ~ (k < m)
    <2>. SUFFICES ASSUME NEW k \in T, k < m PROVE FALSE
      OBVIOUS
    <2>1. <<k, m>> \in Nat \X Nat /\ <<k, m>>[1] < <<k, m>>[2]
      OBVIOUS
    <2>. QED  BY <1>4, <2>1
  <1>. QED  BY <1>5

(* Induction up to a bound: a set of numbers that holds 0 and, with a      *)
(* number below n, the next one, holds them all.                           *)
LEMMA UpTo ==
    ASSUME NEW n \in Nat, NEW T, 0 \in T, \A i \in 1 .. n : i - 1 \in T => i \in T
    PROVE  0 .. n \subseteq T
  <1>. DEFINE Missing == {i \in 0 .. n : i \notin T}
  <1>. SUFFICES ASSUME Missing # {} PROVE FALSE
    OBVIOUS
  <1>1. Missing \subseteq Nat
    OBVIOUS
  <1>2. PICK m \in Missing : \A k \in Missing : m <= k
    <2>. HIDE DEF Missing
    <2>. QED  BY <1>1, Least
  <1>3. m \in 1 .. n
    BY <1>2
  <1>4. m - 1 \in T
    BY <1>2, <1>3
  <1>. QED  BY <1>2, <1>3, <1>4

(* A function defined from its value at 0 by one step after the other      *)
(* exists, and so is what the recursive definition names.                  *)
Iteration(f, n, d, G) == f[0] = d /\ \A i \in 1 .. n : f[i] = G[i][f[i - 1]]

LEMMA Iterates ==
    ASSUME NEW n \in Nat, NEW D, NEW d \in D, NEW G \in [1 .. n -> [D -> D]]
    PROVE  \E f \in [0 .. n -> D] : Iteration(f, n, d, G)
  <1>. DEFINE Built(m) == \E f \in [0 .. m -> D] : f[0] = d /\ \A i \in 1 .. m : f[i] = G[i][f[i - 1]]
              T == {m \in 0 .. n : Built(m)}
  <1>1. 0 \in T
    <2>. DEFINE f == [i \in 0 .. 0 |-> d]
    <2>1. f \in [0 .. 0 -> D] /\ f[0] = d
      OBVIOUS
    <2>2. \A i \in 1 .. 0 : f[i] = G[i][f[i - 1]]
      OBVIOUS
    <2>. HIDE DEF f
    <2>. QED  BY <2>1, <2>2
  <1>2. ASSUME NEW m \in 1 .. n, m - 1 \in T
        PROVE  m \in T
    <2>1. PICK f \in [0 .. m - 1 -> D] : f[0] = d /\ \A i \in 1 .. m - 1 : f[i] = G[i][f[i - 1]]
      BY <1>2
    <2>2. PICK x \in D : x = G[m][f[m - 1]]
      OBVIOUS
    <2>. DEFINE h == [i \in 0 .. m |-> IF i = m THEN x ELSE f[i]]
    <2>3. h \in [0 .. m -> D] /\ h[0] = d
      BY <2>1
    <2>4. ASSUME NEW i \in 1 .. m
          PROVE  h[i] = G[i][h[i - 1]]
      <3>1. i - 1 \in 0 .. m /\ i - 1 # m /\ h[i - 1] = f[i - 1]
        OBVIOUS
      <3>2. CASE i = m
        <4>1. h[i] = x
          BY <3>2
        <4>. QED  BY <2>2, <3>1, <3>2, <4>1
      <3>3. CASE i # m
        <4>1. h[i] = f[i] /\ i \in 1 .. m - 1
          BY <3>3
        <4>. HIDE DEF h
        <4>. QED  BY <2>1, <3>1, <4>1
      <3>. QED  BY <3>2, <3>3
    <2>5. Built(m)
      <3>. HIDE DEF h
      <3>. QED  BY <2>3, <2>4
    <2>. HIDE DEF Built
    <2>. QED  BY <2>5
  <1>3. 0 .. n \subseteq T
    <2>1. \A m \in 1 .. n : m - 1 \in T => m \in T
      BY <1>2
    <2>. HIDE DEF T
    <2>. QED  BY <1>1, <2>1, UpTo
  <1>. QED  BY <1>3 DEF Iteration

(* FlattenSeq appends the sequences one after the other.                   *)
LEMMA FlattenSteps ==
    ASSUME NEW S, NEW ss \in Seq(Seq(S))
    PROVE  \E f \in [0 .. Len(ss) -> Seq(S)] :
             /\ f[0] = <<>>
             /\ \A i \in 1 .. Len(ss) : f[i] = f[i - 1] \o ss[i]
             /\ FlattenSeq(ss) = f[Len(ss)]
  <1>1. PICK n \in Nat : n = Len(ss)
    OBVIOUS
  <1>2. ss \in [1 .. n -> Seq(S)]
    BY <1>1
  <1>. DEFINE G == [i \in 1 .. n |-> [s \in Seq(S) |-> s \o ss[i]]]
  <1>3. G \in [1 .. n -> [Seq(S) -> Seq(S)]]
    BY <1>2
  <1>4. <<>> \in Seq(S)
    OBVIOUS
  <1>5. PICK f \in [0 .. n -> Seq(S)] : f[0] = <<>> /\ \A i \in 1 .. n : f[i] = G[i][f[i - 1]]
    <2>. HIDE DEF G
    <2>1. PICK D, d, H : D = Seq(S) /\ d = <<>> /\ H = G
      OBVIOUS
    <2>2. d \in D /\ H \in [1 .. n -> [D -> D]]
      BY <1>3, <1>4, <2>1
    <2>3. \E f \in [0 .. n -> D] : Iteration(f, n, d, H)
      BY <2>2, Iterates
    <2>4. PICK f \in [0 .. n -> D] : Iteration(f, n, d, H)
      BY <2>3
    <2>5. f[0] = <<>> /\ \A i \in 1 .. n : f[i] = G[i][f[i - 1]]
      BY <2>1, <2>4, Zenon DEF Iteration
    <2>6. f \in [0 .. n -> Seq(S)]
      BY <2>1
    <2>. QED  BY <2>5, <2>6, Zenon
  <1>6. \A i \in 1 .. n : f[i] = f[i - 1] \o ss[i]
    <2>. TAKE i \in 1 .. n
    <2>1. f[i - 1] \in Seq(S)
      OBVIOUS
    <2>. QED  BY <1>5, <2>1
  <1>7. FlattenSeq(ss) = f[n]
    <2>1. CASE n = 0
      <3>1. ss = <<>>
        BY <1>1, <2>1, EmptySeq
      <3>. QED  BY <1>1, <1>5, <2>1, <3>1 DEF FlattenSeq
    <2>2. CASE n # 0
      <3>. DEFINE g == [i \in 1 .. n |-> f[i]]
                  flatten == CHOOSE h : h = [i \in 1 .. Len(ss) |->
                                               IF i = 1 THEN ss[i] ELSE h[i - 1] \o ss[i]]
      <3>1. FlattenSeq(ss) = flatten[n]
        BY <1>1, <2>2 DEF FlattenSeq
      <3>2. \A i \in 1 .. n : g[i] = IF i = 1 THEN ss[i] ELSE g[i - 1] \o ss[i]
        <4>. TAKE i \in 1 .. n
        <4>1. ss[i] \in Seq(S)
          BY <1>2
        <4>2. CASE i = 1
          <5>1. f[1] = <<>> \o ss[1]
            <6>1. f[i] = f[i - 1] \o ss[i]
              BY <1>6, Zenon
            <6>2. i - 1 = 0 /\ f[0] = <<>>
              BY <1>5, <4>2
            <6>. QED  BY <4>2, <6>1, <6>2, Zenon
          <5>2. <<>> \o ss[1] = ss[1]
            BY <4>1, <4>2, ConcatEmptySeq
          <5>. QED  BY <4>2, <5>1, <5>2
        <4>3. CASE i # 1
          <5>1. g[i] = f[i] /\ g[i - 1] = f[i - 1]
            BY <4>3
          <5>. QED  BY <1>6, <4>3, <5>1
        <4>. QED  BY <4>2, <4>3
      <3>3. g = [i \in 1 .. Len(ss) |-> IF i = 1 THEN ss[i] ELSE g[i - 1] \o ss[i]]
        <4>1. DOMAIN g = 1 .. n /\ g = [i \in DOMAIN g |-> g[i]]
          OBVIOUS
        <4>. HIDE DEF g
        <4>. QED  BY <1>1, <3>2, <4>1
      <3>4. flatten = [i \in 1 .. Len(ss) |-> IF i = 1 THEN ss[i] ELSE flatten[i - 1] \o ss[i]]
        <4>. HIDE DEF g
        <4>. QED  BY <3>3
      <3>5. \A i \in 1 .. n : flatten[i] = IF i = 1 THEN ss[i] ELSE flatten[i - 1] \o ss[i]
        <4>. HIDE DEF flatten
        <4>. QED  BY <1>1, <3>4
      <3>. HIDE DEF flatten, g
      <3>. DEFINE T == {i \in 0 .. n : i # 0 => flatten[i] = g[i]}
      <3>6. 0 \in T
        OBVIOUS
      <3>7. ASSUME NEW i \in 1 .. n, i - 1 \in T
            PROVE  i \in T
        <4>1. flatten[i] = IF i = 1 THEN ss[i] ELSE flatten[i - 1] \o ss[i]
          BY <3>5
        <4>2. g[i] = IF i = 1 THEN ss[i] ELSE g[i - 1] \o ss[i]
          BY <3>2
        <4>3. i # 1 => flatten[i - 1] = g[i - 1]
          BY <3>7
        <4>. QED  BY <4>1, <4>2, <4>3
      <3>8. 0 .. n \subseteq T
        <4>1. \A i \in 1 .. n : i - 1 \in T => i \in T
          BY <3>7
        <4>. HIDE DEF T
        <4>. QED  BY <3>6, <4>1, UpTo
      <3>9. n \in 1 .. n /\ n \in T
        BY <2>2, <3>8
      <3>10. flatten[n] = g[n]
        BY <2>2, <3>9
      <3>11. g[n] = f[n]
        BY <3>9 DEF g
      <3>. QED  BY <3>1, <3>10, <3>11
    <2>. QED  BY <2>1, <2>2
  <1>. QED  BY <1>1, <1>5, <1>6, <1>7

(* Where the members of two sequences are after one is appended to the     *)
(* other.                                                                  *)
LEMMA ConcatMembers ==
    ASSUME NEW S, NEW p \in Seq(S), NEW q \in Seq(S)
    PROVE  /\ p \o q \in Seq(S)
           /\ Len(p) \in Nat /\ Len(q) \in Nat
           /\ DOMAIN p = 1 .. Len(p) /\ DOMAIN q = 1 .. Len(q)
           /\ Len(p \o q) = Len(p) + Len(q) /\ DOMAIN (p \o q) = 1 .. Len(p) + Len(q)
           /\ \A k \in 1 .. Len(p) : k \in DOMAIN (p \o q) /\ (p \o q)[k] = p[k]
           /\ \A j \in 1 .. Len(q) : Len(p) + j \in DOMAIN (p \o q) /\ (p \o q)[Len(p) + j] = q[j]
  <1>1. PICK r : r = p \o q
    OBVIOUS
  <1>2. /\ r \in Seq(S) /\ Len(r) = Len(p) + Len(q)
        /\ \A i \in 1 .. Len(p) + Len(q) : r[i] = IF i <= Len(p) THEN p[i] ELSE q[i - Len(p)]
    BY <1>1, ConcatProperties, Zenon
  <1>3. PICK a, b \in Nat : a = Len(p) /\ b = Len(q)
    BY LenProperties
  <1>4. DOMAIN p = 1 .. a /\ DOMAIN q = 1 .. b /\ DOMAIN r = 1 .. a + b
    BY <1>2, <1>3, LenProperties
  <1>5. \A k \in 1 .. a : k \in 1 .. a + b /\ r[k] = p[k]
    BY <1>2, <1>3
  <1>6. ASSUME NEW j \in 1 .. b
        PROVE  a + j \in 1 .. a + b /\ r[a + j] = q[j]
    <2>1. a + j \in 1 .. a + b /\ ~(a + j <= a) /\ (a + j) - a = j
      OBVIOUS
    <2>. QED  BY <1>2, <1>3, <2>1
  <1>. QED  BY <1>1, <1>2, <1>3, <1>4, <1>5, <1>6

LEMMA ConcatSet ==
    ASSUME NEW S, NEW p \in Seq(S), NEW q \in Seq(S)
    PROVE  p \o q \in Seq(S) /\ ToSet(p \o q) = ToSet(p) \union ToSet(q)
  <1>1. PICK r, a, b : r = p \o q /\ a = Len(p) /\ b = Len(q)
    OBVIOUS
  <1>2. /\ r \in Seq(S) /\ a \in Nat /\ b \in Nat
        /\ DOMAIN p = 1 .. a /\ DOMAIN q = 1 .. b /\ DOMAIN r = 1 .. a + b
        /\ \A k \in 1 .. a : k \in DOMAIN r /\ r[k] = p[k]
        /\ \A j \in 1 .. b : a + j \in DOMAIN r /\ r[a + j] = q[j]
    BY <1>1, ConcatMembers
  <1>3. ASSUME NEW k \in 1 .. a + b
        PROVE  r[k] \in ToSet(p) \union ToSet(q)
    <2>1. CASE k <= a
      BY <1>2, <2>1 DEF ToSet
    <2>2. CASE ~(k <= a)
      <3>1. PICK j \in 1 .. b : k = a + j
        <4>1. k - a \in 1 .. b /\ k = a + (k - a)
          BY <1>2, <2>2
        <4>. QED  BY <4>1
      <3>. QED  BY <1>2, <3>1 DEF ToSet
    <2>. QED  BY <2>1, <2>2
  <1>4. ToSet(p) \subseteq ToSet(r) /\ ToSet(q) \subseteq ToSet(r)
    BY <1>2 DEF ToSet
  <1>5. ToSet(r) \subseteq ToSet(p) \union ToSet(q)
    BY <1>2, <1>3 DEF ToSet
  <1>. QED  BY <1>1, <1>2, <1>4, <1>5

(* The members of a flattened sequence are those of its parts.             *)
LEMMA FlattenMembers ==
    ASSUME NEW S, NEW ss \in Seq(Seq(S))
    PROVE  /\ FlattenSeq(ss) \in Seq(S)
           /\ \A i \in DOMAIN ss : ToSet(ss[i]) \subseteq ToSet(FlattenSeq(ss))
  <1>0. ASSUME NEW p \in Seq(S), NEW q \in Seq(S)
        PROVE  /\ \A l \in 1 .. Len(p) : l \in DOMAIN (p \o q) /\ (p \o q)[l] = p[l]
               /\ \A l \in 1 .. Len(q) : Len(p) + l \in DOMAIN (p \o q) /\ (p \o q)[Len(p) + l] = q[l]
    <2>1. PICK r, a, b : r = p \o q /\ a = Len(p) /\ b = Len(q)
      OBVIOUS
    <2>2. /\ \A l \in 1 .. a : l \in DOMAIN r /\ r[l] = p[l]
          /\ \A l \in 1 .. b : a + l \in DOMAIN r /\ r[a + l] = q[l]
      BY <2>1, ConcatMembers
    <2>. QED  BY <2>1, <2>2, Zenon
  <1>1. PICK n \in Nat : n = Len(ss)
    OBVIOUS
  <1>2. PICK f \in [0 .. n -> Seq(S)] : /\ f[0] = <<>>
                                        /\ \A i \in 1 .. n : f[i] = f[i - 1] \o ss[i]
                                        /\ FlattenSeq(ss) = f[n]
    BY <1>1, FlattenSteps
  <1>3. \A m \in 1 .. n : f[m - 1] \in Seq(S) /\ ss[m] \in Seq(S) /\ f[m] = f[m - 1] \o ss[m]
    <2>. TAKE m \in 1 .. n
    <2>1. m - 1 \in 0 .. n /\ m \in 1 .. Len(ss)
      BY <1>1
    <2>2. ss[m] \in Seq(S)
      BY <2>1, ElementOfSeq
    <2>. QED  BY <1>2, <2>1, <2>2
  <1>4. ASSUME NEW i \in 1 .. n, NEW x, NEW j \in DOMAIN ss[i], ss[i][j] = x
        PROVE  \E k \in DOMAIN f[n] : f[n][k] = x
    <2>. DEFINE Has(m) == \E k \in DOMAIN f[m] : f[m][k] = x
                T == {m \in 0 .. n : i <= m => Has(m)}
    <2>1. 0 \in T
      OBVIOUS
    <2>2. ASSUME NEW m \in 1 .. n, m - 1 \in T
          PROVE  m \in T
      <3>1. PICK p \in Seq(S), q \in Seq(S) : p = f[m - 1] /\ q = ss[m] /\ f[m] = p \o q
        BY <1>3
      <3>2. CASE m < i
        BY <3>2
      <3>3. CASE m = i
        <4>1. q = ss[i] /\ j \in DOMAIN q /\ q[j] = x
          BY <1>4, <3>1, <3>3
        <4>2. \E k \in DOMAIN (p \o q) : (p \o q)[k] = x
          <5>1. j \in 1 .. Len(q) /\ q[j] = x
            BY <4>1, LenProperties
          <5>2. \A l \in 1 .. Len(q) : Len(p) + l \in DOMAIN (p \o q) /\ (p \o q)[Len(p) + l] = q[l]
            BY <1>0, Zenon
          <5>3. Len(p) + j \in DOMAIN (p \o q) /\ (p \o q)[Len(p) + j] = q[j]
            BY <5>1, <5>2
          <5>. QED  BY <5>1, <5>3
        <4>3. Has(m)
          BY <3>1, <4>2, Zenon
        <4>. QED  BY <4>3
      <3>4. CASE m > i
        <4>1. PICK k \in DOMAIN p : p[k] = x
          BY <2>2, <3>1, <3>4
        <4>3. \E l \in DOMAIN (p \o q) : (p \o q)[l] = x
          <5>1. k \in 1 .. Len(p)
            BY LenProperties
          <5>2. \A l \in 1 .. Len(p) : l \in DOMAIN (p \o q) /\ (p \o q)[l] = p[l]
            BY <1>0, Zenon
          <5>3. k \in DOMAIN (p \o q) /\ (p \o q)[k] = p[k]
            BY <5>1, <5>2
          <5>. QED  BY <4>1, <5>3
        <4>4. Has(m)
          BY <3>1, <4>3, Zenon
        <4>. QED  BY <4>4
      <3>. QED  BY <3>2, <3>3, <3>4
    <2>3. 0 .. n \subseteq T
      <3>1. \A m \in 1 .. n : m - 1 \in T => m \in T
        BY <2>2
      <3>. HIDE DEF T
      <3>. QED  BY <2>1, <3>1, UpTo
    <2>. QED  BY <2>3
  <1>5. FlattenSeq(ss) \in Seq(S)
    <2>1. n \in 0 .. n
      OBVIOUS
    <2>2. f[n] \in Seq(S)
      BY <2>1
    <2>3. FlattenSeq(ss) = f[n]
      BY <1>2, Zenon
    <2>. QED  BY <2>2, <2>3
  <1>6. DOMAIN ss = 1 .. n
    BY <1>1, LenProperties
  <1>7. \A i \in 1 .. n : ToSet(ss[i]) \subseteq ToSet(f[n])
    BY <1>4 DEF ToSet
  <1>. QED  BY <1>2, <1>5, <1>6, <1>7

(* Where the members of the parts of a flattened sequence are: at[i] of    *)
(* them come before part i + 1.                                            *)
Layout(ss, s, at) ==
    /\ at \in [0 .. Len(ss) -> Nat] /\ at[0] = 0
    /\ \A i \in 1 .. Len(ss) : at[i] = at[i - 1] + Len(ss[i])
    /\ DOMAIN s = 1 .. at[Len(ss)] /\ Len(s) = at[Len(ss)]
    /\ \A i \in 1 .. Len(ss) : \A k \in 1 .. Len(ss[i]) :
           at[i - 1] + k \in DOMAIN s /\ s[at[i - 1] + k] = ss[i][k]
    /\ \A p \in DOMAIN s : \E i \in 1 .. Len(ss) : \E k \in 1 .. Len(ss[i]) : p = at[i - 1] + k

LEMMA FlattenLayout ==
    ASSUME NEW S, NEW ss \in Seq(Seq(S))
    PROVE  FlattenSeq(ss) \in Seq(S) /\ \E at : Layout(ss, FlattenSeq(ss), at)
  <1>1. PICK n \in Nat : n = Len(ss)
    OBVIOUS
  <1>2. PICK f \in [0 .. n -> Seq(S)] : /\ f[0] = <<>>
                                        /\ \A i \in 1 .. n : f[i] = f[i - 1] \o ss[i]
                                        /\ FlattenSeq(ss) = f[n]
    BY <1>1, FlattenSteps
  <1>3. PICK at \in [0 .. n -> Nat] : \A i \in 0 .. n : f[i] \in Seq(S) /\ at[i] = Len(f[i])
    <2>1. [i \in 0 .. n |-> Len(f[i])] \in [0 .. n -> Nat]
      OBVIOUS
    <2>. QED  BY <2>1
  <1>4. at[0] = 0
    BY <1>2, <1>3
  <1>5. ASSUME NEW i \in 1 .. n
        PROVE  /\ ss[i] \in Seq(S) /\ Len(ss[i]) \in Nat
               /\ at[i - 1] \in Nat /\ at[i] = at[i - 1] + Len(ss[i])
               /\ \A k \in 1 .. at[i - 1] : f[i][k] = f[i - 1][k]
               /\ \A k \in 1 .. Len(ss[i]) : f[i][at[i - 1] + k] = ss[i][k]
    <2>1. i - 1 \in 0 .. n /\ i \in 0 .. n /\ i \in 1 .. Len(ss)
      BY <1>1
    <2>2. ss[i] \in Seq(S)
      BY <2>1, ElementOfSeq
    <2>3. PICK p \in Seq(S), q \in Seq(S) : p = f[i - 1] /\ q = ss[i] /\ f[i] = p \o q
      BY <1>2, <1>3, <2>1, <2>2
    <2>4. PICK r, a, b : r = p \o q /\ a = Len(p) /\ b = Len(q)
      OBVIOUS
    <2>5. /\ a \in Nat /\ b \in Nat /\ Len(r) = a + b
          /\ \A k \in 1 .. a : r[k] = p[k]
          /\ \A k \in 1 .. b : r[a + k] = q[k]
      BY <2>4, ConcatMembers
    <2>6. a = at[i - 1] /\ at[i] = Len(r)
      BY <1>3, <2>1, <2>3, <2>4
    <2>7. f[i] = r /\ f[i - 1] = p /\ ss[i] = q /\ Len(ss[i]) = b
      BY <2>3, <2>4
    <2>. QED  BY <2>2, <2>5, <2>6, <2>7
  <1>. DEFINE Placed(m) == /\ \A i \in 1 .. m : at[i] <= at[m]
                           /\ \A i \in 1 .. m : \A k \in 1 .. Len(ss[i]) : f[m][at[i - 1] + k] = ss[i][k]
                           /\ \A p \in 1 .. at[m] : \E i \in 1 .. m : \E k \in 1 .. Len(ss[i]) : p = at[i - 1] + k
              T == {m \in 0 .. n : Placed(m)}
  <1>6. 0 \in T
    BY <1>4
  <1>7. ASSUME NEW m \in 1 .. n, m - 1 \in T
        PROVE  m \in T
    <2>1. Placed(m - 1)
      BY <1>7
    <2>2. PICK a, b \in Nat : a = at[m - 1] /\ b = Len(ss[m]) /\ a \in Nat
      BY <1>5
    <2>3. at[m] = a + b
      BY <1>5, <2>2
    <2>4. ASSUME NEW i \in 1 .. m, i # m
          PROVE  i \in 1 .. m - 1 /\ i \in 1 .. n /\ at[i] <= a /\ at[i] \in Nat
      <3>1. i \in 1 .. m - 1 /\ i \in 1 .. n /\ i \in 0 .. n
        BY <2>4
      <3>. QED  BY <1>3, <2>1, <2>2, <3>1
    <2>5. ASSUME NEW i \in 1 .. m
          PROVE  at[i] <= at[m]
      <3>1. CASE i = m
        BY <2>2, <2>3, <3>1
      <3>2. CASE i # m
        <4>1. PICK y \in Nat : y = at[i] /\ y <= a
          BY <2>4, <3>2
        <4>2. y <= a + b
          BY <4>1
        <4>. QED  BY <2>3, <4>1, <4>2
      <3>. QED  BY <3>1, <3>2
    <2>6. ASSUME NEW i \in 1 .. m, NEW k \in 1 .. Len(ss[i])
          PROVE  f[m][at[i - 1] + k] = ss[i][k]
      <3>1. CASE i = m
        BY <1>5, <2>6, <3>1
      <3>2. CASE i # m
        <4>1. at[i - 1] \in Nat /\ at[i] = at[i - 1] + Len(ss[i]) /\ Len(ss[i]) \in Nat
          BY <1>5, <2>4, <3>2
        <4>2. at[i - 1] + k \in 1 .. a
          <5>1. PICK x \in Nat, l \in Nat, y \in Nat : x = at[i - 1] /\ l = Len(ss[i]) /\ y = at[i]
            BY <2>4, <3>2, <4>1
          <5>2. y = x + l /\ y <= a /\ k \in 1 .. l
            BY <2>4, <3>2, <4>1, <5>1
          <5>3. x + k \in 1 .. a
            BY <5>2
          <5>. QED  BY <5>1, <5>3
        <4>3. f[m - 1][at[i - 1] + k] = ss[i][k]
          BY <2>1, <2>4, <3>2
        <4>. QED  BY <1>5, <2>2, <4>2, <4>3
      <3>. QED  BY <3>1, <3>2
    <2>7. ASSUME NEW p \in 1 .. at[m]
          PROVE  \E i \in 1 .. m : \E k \in 1 .. Len(ss[i]) : p = at[i - 1] + k
      <3>1. CASE p <= a
        <4>1. p \in 1 .. at[m - 1]
          BY <2>2, <2>3, <3>1
        <4>2. PICK i \in 1 .. m - 1 : \E k \in 1 .. Len(ss[i]) : p = at[i - 1] + k
          BY <2>1, <4>1
        <4>. QED  BY <4>2, SMTT(20)
      <3>2. CASE ~(p <= a)
        <4>1. p - a \in 1 .. b /\ p = a + (p - a)
          BY <2>3, <3>2
        <4>2. p - a \in 1 .. Len(ss[m]) /\ p = at[m - 1] + (p - a)
          BY <2>2, <4>1
        <4>. QED  BY <4>2
      <3>. QED  BY <3>1, <3>2
    <2>8. Placed(m)
      BY <2>5, <2>6, <2>7
    <2>. HIDE DEF Placed
    <2>. QED  BY <2>8
  <1>8. Placed(n)
    <2>1. \A m \in 1 .. n : m - 1 \in T => m \in T
      BY <1>7
    <2>2. 0 .. n \subseteq T
      <3>. HIDE DEF T
      <3>. QED  BY <1>6, <2>1, UpTo
    <2>3. n \in T
      <3>1. n \in 0 .. n
        OBVIOUS
      <3>. HIDE DEF T
      <3>. QED  BY <2>2, <3>1
    <2>. QED  BY <2>3
  <1>9. FlattenSeq(ss) \in Seq(S) /\ FlattenSeq(ss) = f[n] /\ DOMAIN f[n] = 1 .. at[n] /\ Len(f[n]) = at[n]
    BY <1>2, <1>3, LenProperties
  <1>10. ASSUME NEW i \in 1 .. n, NEW k \in 1 .. Len(ss[i])
         PROVE  at[i - 1] + k \in DOMAIN f[n]
    <2>1. at[i - 1] \in Nat /\ at[i] = at[i - 1] + Len(ss[i]) /\ Len(ss[i]) \in Nat
      BY <1>5
    <2>2. PICK x \in Nat, l \in Nat, y \in Nat : x = at[i - 1] /\ l = Len(ss[i]) /\ y = at[n]
      BY <2>1
    <2>3. x + l <= y /\ k \in 1 .. l
      BY <1>8, <2>1, <2>2
    <2>4. x + k \in 1 .. y
      BY <2>3
    <2>. QED  BY <1>9, <2>2, <2>4
  <1>11. Layout(ss, f[n], at)
    BY <1>1, <1>4, <1>5, <1>8, <1>9, <1>10 DEF Layout
  <1>. QED  BY <1>9, <1>11

(* The parts of a flattened sequence when they are equally long.           *)
Even(ss, s, w) ==
    /\ Len(s) = Len(ss) * w
    /\ \A i \in 1 .. Len(ss) : \A k \in 1 .. w : s[(i - 1) * w + k] = ss[i][k]

LEMMA FlattenEven ==
    ASSUME NEW S, NEW ss \in Seq(Seq(S)), NEW w \in Nat, \A i \in 1 .. Len(ss) : Len(ss[i]) = w
    PROVE  FlattenSeq(ss) \in Seq(S) /\ Even(ss, FlattenSeq(ss), w)
  <1>1. PICK s : s = FlattenSeq(ss)
    OBVIOUS
  <1>2. s \in Seq(S) /\ \E at : Layout(ss, s, at)
    BY <1>1, FlattenLayout
  <1>3. PICK at : Layout(ss, s, at)
    BY <1>2
  <1>4. PICK n \in Nat : n = Len(ss)
    BY LenProperties
  <1>5. /\ at \in [0 .. n -> Nat] /\ at[0] = 0
        /\ \A i \in 1 .. n : at[i] = at[i - 1] + w
        /\ Len(s) = at[n]
        /\ \A i \in 1 .. n : \A k \in 1 .. w : s[at[i - 1] + k] = ss[i][k]
    BY <1>3, <1>4 DEF Layout
  <1>. DEFINE T == {m \in 0 .. n : at[m] = m * w}
  <1>6. 0 \in T
    BY <1>5
  <1>7. ASSUME NEW i \in 1 .. n, i - 1 \in T
        PROVE  i \in T
    <2>1. at[i - 1] = (i - 1) * w /\ at[i] = at[i - 1] + w
      BY <1>5, <1>7
    <2>2. (i - 1) * w + w = i * w
      OBVIOUS
    <2>. QED  BY <2>1, <2>2
  <1>8. 0 .. n \subseteq T
    <2>. HIDE DEF T
    <2>. QED  BY <1>6, <1>7, UpTo
  <1>9. \A m \in 0 .. n : at[m] = m * w
    BY <1>8
  <1>10. ASSUME NEW i \in 1 .. n, NEW k \in 1 .. w
         PROVE  s[(i - 1) * w + k] = ss[i][k]
    <2>1. i - 1 \in 0 .. n
      OBVIOUS
    <2>2. at[i - 1] = (i - 1) * w
      BY <1>9, <2>1, Zenon
    <2>. QED  BY <1>5, <2>2
  <1>11. Len(s) = n * w
    BY <1>5, <1>9
  <1>. QED  BY <1>1, <1>2, <1>4, <1>10, <1>11 DEF Even

(* SetToSeq lists every member of a finite set, and each once.             *)
LEMMA SetToSeqLists ==
    ASSUME NEW S, IsFiniteSet(S)
    PROVE  /\ SetToSeq(S) \in Seq(S)
           /\ Len(SetToSeq(S)) = Cardinality(S) /\ Cardinality(S) \in Nat
           /\ DOMAIN SetToSeq(S) = 1 .. Cardinality(S)
           /\ \A i, j \in DOMAIN SetToSeq(S) : SetToSeq(S)[i] = SetToSeq(S)[j] => i = j
           /\ ToSet(SetToSeq(S)) = S
  <1>1. PICK n \in Nat : n = Cardinality(S)
    BY FS_CardinalityType
  <1>2. ExistsBijection(1 .. n, S)
    BY <1>1, FS_CardinalityType
  <1>3. \E f \in [1 .. n -> S] : IsInjective(f)
    BY <1>2 DEF ExistsBijection, Bijection, Injection
  <1>4. PICK q : q = SetToSeq(S)
    OBVIOUS
  <1>5. q \in [1 .. n -> S] /\ IsInjective(q)
    BY <1>1, <1>3, <1>4 DEF SetToSeq
  <1>6. q \in Surjection(1 .. n, S)
    <2>1. q \in Injection(1 .. n, S)
      BY <1>5 DEF Injection
    <2>2. IsFiniteSet(1 .. n) /\ Cardinality(1 .. n) = n
      BY FS_Interval
    <2>. QED  BY <1>1, <2>1, <2>2, FS_Injection
  <1>7. q \in Seq(S) /\ Len(q) = n /\ DOMAIN q = 1 .. n
    BY <1>5
  <1>8. \A x \in S : \E i \in 1 .. n : q[i] = x
    BY <1>6 DEF Surjection
  <1>9. \A i, j \in 1 .. n : q[i] = q[j] => i = j
    BY <1>5 DEF IsInjective
  <1>10. ToSet(q) = S
    BY <1>5, <1>7, <1>8 DEF ToSet
  <1>. QED  BY <1>1, <1>4, <1>7, <1>9, <1>10

(* How many members of a sequence are in a set. *)
CountIn(s, T) == Cardinality({i \in DOMAIN s : s[i] \in T})

LEMMA CountConcat ==
    ASSUME NEW S, NEW p \in Seq(S), NEW q \in Seq(S), NEW T
    PROVE  /\ CountIn(p, T) \in Nat /\ CountIn(q, T) \in Nat
           /\ CountIn(p \o q, T) = CountIn(p, T) + CountIn(q, T)
  <1>1. PICK r, a, b : r = p \o q /\ a = Len(p) /\ b = Len(q)
    OBVIOUS
  <1>2. /\ a \in Nat /\ b \in Nat
        /\ DOMAIN p = 1 .. a /\ DOMAIN q = 1 .. b /\ DOMAIN r = 1 .. a + b
        /\ \A k \in 1 .. a : k \in DOMAIN r /\ r[k] = p[k]
        /\ \A j \in 1 .. b : a + j \in DOMAIN r /\ r[a + j] = q[j]
    BY <1>1, ConcatMembers
  <1>. DEFINE P == {i \in 1 .. a : p[i] \in T}
              Q == {i \in 1 .. b : q[i] \in T}
              Q2 == {i \in a + 1 .. a + b : r[i] \in T}
              R == {i \in 1 .. a + b : r[i] \in T}
              f == [j \in Q |-> a + j]
  <1>3. R = P \cup Q2 /\ P \cap Q2 = {}
    BY <1>2
  <1>4. IsFiniteSet(P) /\ IsFiniteSet(Q)
    <2>1. P \in SUBSET (1 .. a) /\ Q \in SUBSET (1 .. b)
      OBVIOUS
    <2>2. 1 \in Int /\ a \in Int /\ b \in Int
      BY <1>2
    <2>3. IsFiniteSet(1 .. a) /\ IsFiniteSet(1 .. b)
      BY <2>2, FS_Interval
    <2>. HIDE DEF P, Q
    <2>. QED  BY <2>1, <2>3, FS_Subset
  <1>5. f \in Bijection(Q, Q2)
    <2>1. \A j \in Q : a + j \in Q2
      BY <1>2
    <2>2. \A i \in Q2 : i - a \in Q /\ a + (i - a) = i
      <3>. TAKE i \in Q2
      <3>1. PICK j : j = i - a
        OBVIOUS
      <3>2. j \in 1 .. b /\ a + j = i
        BY <1>2, <3>1
      <3>3. q[j] = r[i]
        BY <1>2, <3>2
      <3>. QED  BY <3>1, <3>2, <3>3
    <2>3. \A i, j \in Q : a + i = a + j => i = j
      BY <1>2
    <2>4. f \in [Q -> Q2] /\ \A j \in Q : f[j] = a + j
      BY <2>1
    <2>5. \A i \in Q2 : \E j \in Q : f[j] = i
      BY <2>2, <2>4
    <2>. HIDE DEF f, Q, Q2
    <2>. QED  BY <2>3, <2>4, <2>5 DEF Bijection, Injection, Surjection, IsInjective
  <1>6. IsFiniteSet(Q2) /\ Cardinality(Q2) = Cardinality(Q)
    <2>1. ExistsBijection(Q, Q2)
      <3>. HIDE DEF f, Q, Q2
      <3>. QED  BY <1>5 DEF ExistsBijection
    <2>. HIDE DEF f, Q, Q2
    <2>. QED  BY <1>4, <2>1, FS_Bijection
  <1>7. Cardinality(R) = Cardinality(P) + Cardinality(Q) /\ Cardinality(P) \in Nat /\ Cardinality(Q) \in Nat
    <2>. HIDE DEF f, P, Q, Q2, R
    <2>1. /\ Cardinality(P \cup Q2) = Cardinality(P) + Cardinality(Q2) - Cardinality(P \cap Q2)
          /\ Cardinality(P) \in Nat /\ Cardinality(Q) \in Nat
      BY <1>4, <1>6, FS_Union, FS_CardinalityType
    <2>2. Cardinality(P \cap Q2) = 0 /\ Cardinality(Q2) = Cardinality(Q)
      BY <1>3, <1>6, FS_EmptySet
    <2>3. Cardinality(R) = Cardinality(P) + Cardinality(Q) - 0
      BY <1>3, <2>1, <2>2
    <2>. QED  BY <2>1, <2>3
  <1>8. CountIn(p, T) = Cardinality(P) /\ CountIn(q, T) = Cardinality(Q) /\ CountIn(r, T) = Cardinality(R)
    BY <1>2, Zenon DEF CountIn
  <1>. HIDE DEF f, P, Q, Q2, R
  <1>. QED  BY <1>1, <1>7, <1>8

LEMMA CountAll ==
    ASSUME NEW S, NEW p \in Seq(S), NEW T
    PROVE  /\ (\A x \in S : x \in T) => CountIn(p, T) = Len(p)
           /\ (\A x \in S : x \notin T) => CountIn(p, T) = 0
  <1>1. PICK n \in Nat : n = Len(p) /\ DOMAIN p = 1 .. n /\ \A i \in 1 .. n : p[i] \in S
    OBVIOUS
  <1>2. Cardinality(1 .. n) = n /\ Cardinality({}) = 0
    <2>1. 0 \in Int /\ 1 \in Int /\ n \in Int
      OBVIOUS
    <2>2. Cardinality(1 .. n) = IF 1 > n THEN 0 ELSE n - 1 + 1
      BY <2>1, FS_Interval
    <2>. QED  BY <2>2, FS_EmptySet
  <1>3. ASSUME \A x \in S : x \in T
        PROVE  CountIn(p, T) = n
    <2>1. {i \in DOMAIN p : p[i] \in T} = 1 .. n
      BY <1>1, <1>3
    <2>. QED  BY <1>2, <2>1 DEF CountIn
  <1>4. ASSUME \A x \in S : x \notin T
        PROVE  CountIn(p, T) = 0
    <2>1. {i \in DOMAIN p : p[i] \in T} = {}
      BY <1>1, <1>4
    <2>. QED  BY <1>2, <2>1 DEF CountIn
  <1>. QED  BY <1>1, <1>3, <1>4

(* Sequences with as many such members each, one after the other.          *)
LEMMA CountFlatten ==
    ASSUME NEW S, NEW ss \in Seq(Seq(S)), NEW T, NEW c \in Nat,
           \A i \in DOMAIN ss : CountIn(ss[i], T) = c
    PROVE  CountIn(FlattenSeq(ss), T) = Len(ss) * c
  <1>1. PICK n \in Nat : n = Len(ss) /\ DOMAIN ss = 1 .. n
    OBVIOUS
  <1>2. PICK f \in [0 .. n -> Seq(S)] : /\ f[0] = <<>>
                                        /\ \A i \in 1 .. n : f[i] = f[i - 1] \o ss[i]
                                        /\ FlattenSeq(ss) = f[n]
    BY <1>1, FlattenSteps
  <1>. DEFINE K == {m \in 0 .. n : CountIn(f[m], T) = m * c}
  <1>3. 0 \in K
    <2>1. PICK e : e = <<>>
      OBVIOUS
    <2>2. DOMAIN e = {}
      BY <2>1
    <2>3. {i \in DOMAIN e : e[i] \in T} = {}
      BY <2>2
    <2>4. CountIn(e, T) = 0
      BY <2>3, FS_EmptySet DEF CountIn
    <2>. QED  BY <1>2, <2>1, <2>4
  <1>4. ASSUME NEW m \in 1 .. n, m - 1 \in K
        PROVE  m \in K
    <2>1. PICK p \in Seq(S), q \in Seq(S) : p = f[m - 1] /\ q = ss[m]
      <3>1. m - 1 \in 0 .. n /\ ss[m] \in Seq(S)
        BY <1>1, ElementOfSeq
      <3>. QED  BY <3>1
    <2>2. CountIn(p \o q, T) = CountIn(p, T) + CountIn(q, T)
      BY CountConcat
    <2>3. f[m] = p \o q
      BY <1>2, <2>1, Zenon
    <2>4. CountIn(p, T) = (m - 1) * c /\ CountIn(q, T) = c
      BY <1>1, <1>4, <2>1
    <2>5. CountIn(f[m], T) = (m - 1) * c + c
      BY <2>2, <2>3, <2>4
    <2>6. (m - 1) * c + c = m * c
      OBVIOUS
    <2>. QED  BY <2>5, <2>6
  <1>5. 0 .. n \subseteq K
    <2>1. \A m \in 1 .. n : m - 1 \in K => m \in K
      BY <1>4
    <2>. HIDE DEF K
    <2>. QED  BY <1>3, <2>1, UpTo
  <1>6. CountIn(f[n], T) = n * c
    BY <1>5
  <1>. QED  BY <1>1, <1>2, <1>6, Zenon

-------------------------------------------------------------------------------
(* A family of subsets of a finite set that is not empty has one that      *)
(* contains no other, and a family that holds the empty set and, with each *)
(* of its sets, that set and one more member, holds them all.              *)
LEMMA Smallest ==
    ASSUME NEW S, IsFiniteSet(S), NEW B, B \subseteq SUBSET S, B # {}
    PROVE  \E m \in B : \A t \in B : t \subseteq m => t = m
  <1>1. IsWellFoundedOn(StrictSubsetOrdering(S), SUBSET S)
    BY FS_StrictSubsetOrderingWellFounded, FS_FiniteSubsetsOfFinite
  <1>2. PICK m \in B : \A t \in B : <<t, m>> \notin StrictSubsetOrdering(S)
    <2>. HIDE DEF StrictSubsetOrdering
    <2>. QED  BY <1>1, WFMin
  <1>3. ASSUME NEW t \in B, t \subseteq m, t # m PROVE FALSE
    <2>1. <<t, m>> \in (SUBSET S) \X (SUBSET S)
      OBVIOUS
    <2>. QED  BY <1>2, <1>3, <2>1 DEF StrictSubsetOrdering
  <1>. QED  BY <1>3

LEMMA OneByOne ==
    ASSUME NEW S, IsFiniteSet(S), NEW C, {} \in C,
           \A T \in SUBSET S : \A x \in T : T \ {x} \in C => T \in C
    PROVE  \A T \in SUBSET S : T \in C
  <1>. DEFINE B == {T \in SUBSET S : T \notin C}
  <1>. SUFFICES ASSUME B # {} PROVE FALSE
    OBVIOUS
  <1>1. PICK m \in B : \A t \in B : t \subseteq m => t = m
    <2>1. B \subseteq SUBSET S
      OBVIOUS
    <2>. HIDE DEF B
    <2>. QED  BY <2>1, Smallest
  <1>2. PICK x \in m : TRUE
    <2>1. m # {}
      BY <1>1
    <2>. QED  BY <2>1
  <1>3. m \ {x} \subseteq m /\ m \ {x} # m /\ m \ {x} \in SUBSET S
    OBVIOUS
  <1>4. m \ {x} \in C
    BY <1>1, <1>3
  <1>. QED  BY <1>4

(* A finite set of integers that is not empty has a largest.               *)
LEMMA Maximum ==
    ASSUME NEW S, S \subseteq Int, IsFiniteSet(S), S # {}
    PROVE  Max(S) \in S /\ \A y \in S : y <= Max(S)
  <1>. DEFINE C == {T \in SUBSET S : T # {} => \E m \in T : \A y \in T : m >= y}
  <1>1. {} \in C
    OBVIOUS
  <1>2. ASSUME NEW T \in SUBSET S, NEW x \in T, T \ {x} \in C
        PROVE  T \in C
    <2>1. CASE T \ {x} = {}
      <3>1. \A y \in T : y = x /\ x \in Int
        BY <2>1
      <3>2. \A y \in T : x >= y
        BY <3>1
      <3>. QED  BY <3>2
    <2>2. CASE T \ {x} # {}
      <3>1. PICK m \in T \ {x} : \A y \in T \ {x} : m >= y
        BY <1>2, <2>2
      <3>2. m \in Int /\ x \in Int /\ \A y \in T : y \in Int
        OBVIOUS
      <3>3. CASE m >= x
        BY <3>1, <3>3
      <3>4. CASE ~(m >= x)
        <4>1. \A y \in T : x >= y
          BY <3>1, <3>2, <3>4
        <4>. QED  BY <4>1
      <3>. QED  BY <3>3, <3>4
    <2>. QED  BY <2>1, <2>2
  <1>3. S \in C
    <2>. HIDE DEF C
    <2>. QED  BY <1>1, <1>2, OneByOne
  <1>4. \E m \in S : \A y \in S : m >= y
    BY <1>3
  <1>5. PICK m : m = Max(S)
    OBVIOUS
  <1>6. m \in S /\ \A y \in S : m >= y
    BY <1>4, <1>5 DEF Max
  <1>. QED  BY <1>5, <1>6

LEMMA MinOfTwo ==
    ASSUME NEW a \in Int, NEW b \in Int
    PROVE  Min({a, b}) \in {a, b} /\ Min({a, b}) <= a /\ Min({a, b}) <= b
  <1>1. \E x \in {a, b} : \A y \in {a, b} : x =< y
    <2>1. CASE a <= b
      BY <2>1
    <2>2. CASE b <= a
      BY <2>2
    <2>. QED  BY <2>1, <2>2
  <1>2. PICK m : m = Min({a, b})
    OBVIOUS
  <1>3. m \in {a, b} /\ \A y \in {a, b} : m =< y
    BY <1>1, <1>2 DEF Min
  <1>. QED  BY <1>2, <1>3

(* Ranks that no two elements share: those below k are k many.             *)
Below(V, f, k) == {x \in V : f[x] < k}

LEMMA Ranked ==
    ASSUME NEW V, IsFiniteSet(V), NEW m, m = Cardinality(V), NEW f \in [V -> 0 .. m - 1],
           \A x, y \in V : f[x] = f[y] => x = y, NEW k \in 0 .. m
    PROVE  Cardinality(Below(V, f, k)) = k
  <1>1. m \in Nat
    BY FS_CardinalityType
  <1>2. IsFiniteSet(0 .. m - 1) /\ Cardinality(0 .. m - 1) = m
    <2>1. 0 \in Int /\ m - 1 \in Int
      BY <1>1
    <2>2. IsFiniteSet(0 .. m - 1) /\ Cardinality(0 .. m - 1) = IF 0 > m - 1 THEN 0 ELSE m - 1 - 0 + 1
      BY <2>1, FS_Interval
    <2>. QED  BY <1>1, <2>2
  <1>3. f \in Surjection(V, 0 .. m - 1)
    <2>1. f \in Injection(V, 0 .. m - 1)
      BY DEF Injection, IsInjective
    <2>. QED  BY <1>2, <2>1, FS_Injection
  <1>4. \A r \in 0 .. m - 1 : \E x \in V : f[x] = r
    BY <1>3 DEF Surjection
  <1>. DEFINE W == {x \in V : f[x] < k}
              g == [x \in W |-> f[x]]
  <1>5. IsFiniteSet(W)
    BY FS_Subset
  <1>6. g \in [W -> 0 .. k - 1]
    <2>. SUFFICES ASSUME NEW x \in W PROVE f[x] \in 0 .. k - 1
      OBVIOUS
    <2>1. f[x] \in 0 .. m - 1 /\ f[x] < k
      OBVIOUS
    <2>. QED  BY <1>1, <2>1
  <1>7. g \in Bijection(W, 0 .. k - 1)
    <2>1. \A x, y \in W : g[x] = g[y] => x = y
      OBVIOUS
    <2>2. \A r \in 0 .. k - 1 : \E x \in W : g[x] = r
      <3>. SUFFICES ASSUME NEW r \in 0 .. k - 1 PROVE \E x \in W : f[x] = r
        OBVIOUS
      <3>1. r \in 0 .. m - 1 /\ r < k
        BY <1>1
      <3>2. PICK x \in V : f[x] = r
        BY <1>4, <3>1
      <3>. QED  BY <3>1, <3>2
    <2>. HIDE DEF W, g
    <2>3. g \in Injection(W, 0 .. k - 1) /\ g \in Surjection(W, 0 .. k - 1)
      BY <1>6, <2>1, <2>2 DEF Injection, IsInjective, Surjection
    <2>. QED  BY <2>3 DEF Bijection
  <1>8. Cardinality(0 .. k - 1) = k /\ IsFiniteSet(0 .. k - 1)
    <2>1. 0 \in Int /\ k - 1 \in Int /\ k \in Nat
      BY <1>1
    <2>2. IsFiniteSet(0 .. k - 1) /\ Cardinality(0 .. k - 1) = IF 0 > k - 1 THEN 0 ELSE k - 1 - 0 + 1
      BY <2>1, FS_Interval
    <2>. QED  BY <2>1, <2>2
  <1>. HIDE DEF W, g
  <1>9. Cardinality(W) = k
    <2>1. \E h : h \in Bijection(W, 0 .. k - 1)
      BY <1>7
    <2>. QED  BY <1>5, <1>7, <1>8, FS_Bijection DEF ExistsBijection
  <1>. QED  BY <1>9 DEF W, Below

-------------------------------------------------------------------------------
(* Sums over a finite set: g tells the sum of f over every part of S, and  *)
(* in a sum any member may be the last one added.                          *)
Adds(g, f, S) ==
    /\ g \in [SUBSET S -> Int] /\ g[{}] = 0
    /\ \A s \in SUBSET S : \A x \in s : g[s] = f[x] + g[s \ {x}]

LEMMA AddsOneMore ==
    ASSUME NEW S, NEW a \in S, NEW f, \A x \in S : f[x] \in Int, NEW g, Adds(g, f, S \ {a})
    PROVE  \E h : Adds(h, f, S)
  <1>1. PICK P : P = S \ {a}
    OBVIOUS
  <1>2. /\ g \in [SUBSET P -> Int] /\ g[{}] = 0
        /\ \A s \in SUBSET P : \A x \in s : g[s] = f[x] + g[s \ {x}]
    BY <1>1 DEF Adds
  <1>3. \A s \in SUBSET S : s \ {a} \in SUBSET P /\ (a \notin s => s \in SUBSET P)
    BY <1>1
  <1>4. a \notin P /\ f[a] \in Int
    BY <1>1
  <1>. DEFINE h == [s \in SUBSET S |-> IF a \in s THEN f[a] + g[s \ {a}] ELSE g[s]]
  <1>5. h \in [SUBSET S -> Int]
    <2>1. ASSUME NEW s \in SUBSET S
          PROVE  (IF a \in s THEN f[a] + g[s \ {a}] ELSE g[s]) \in Int
      BY <1>2, <1>3, <1>4
    <2>. QED  BY <2>1
  <1>6. h[{}] = 0
    BY <1>2
  <1>7. ASSUME NEW s \in SUBSET S, NEW x \in s
        PROVE  h[s] = f[x] + h[s \ {x}]
    <2>1. CASE x = a
      <3>1. h[s] = f[a] + g[s \ {a}] /\ h[s \ {a}] = g[s \ {a}]
        BY <2>1
      <3>. QED  BY <2>1, <3>1
    <2>2. CASE x # a /\ a \in s
      <3>1. PICK t, u : t = s \ {a} /\ u = t \ {x}
        OBVIOUS
      <3>2. t \in SUBSET P /\ x \in t /\ u \in SUBSET P /\ u = (s \ {x}) \ {a} /\ a \in s \ {x}
        BY <1>3, <2>2, <3>1
      <3>3. h[s] = f[a] + g[t] /\ h[s \ {x}] = f[a] + g[u]
        BY <2>2, <3>1, <3>2
      <3>4. g[t] = f[x] + g[u]
        <4>1. \A y \in t : g[t] = f[y] + g[t \ {y}]
          BY <1>2, <3>2, Zenon
        <4>2. g[t] = f[x] + g[t \ {x}]
          BY <3>2, <4>1, Zenon
        <4>. QED  BY <3>1, <4>2, Zenon
      <3>5. g[u] \in Int /\ f[x] \in Int /\ f[a] \in Int
        BY <1>2, <3>2
      <3>. HIDE DEF h
      <3>. QED  BY <3>3, <3>4, <3>5
    <2>3. CASE a \notin s
      <3>1. s \in SUBSET P /\ h[s] = g[s] /\ h[s \ {x}] = g[s \ {x}]
        BY <1>3, <2>3
      <3>. QED  BY <1>2, <3>1
    <2>. QED  BY <2>1, <2>2, <2>3
  <1>. HIDE DEF h
  <1>. QED  BY <1>5, <1>6, <1>7 DEF Adds

LEMMA SumsExist ==
    ASSUME NEW S, IsFiniteSet(S), NEW f, \A x \in S : f[x] \in Int
    PROVE  \E g : Adds(g, f, S)
  <1>. DEFINE C == {T \in SUBSET S : \E g : Adds(g, f, T)}
  <1>1. {} \in C
    <2>. DEFINE g == [s \in SUBSET {} |-> 0]
    <2>1. Adds(g, f, {})
      BY DEF Adds
    <2>. QED  BY <2>1
  <1>2. ASSUME NEW T \in SUBSET S, NEW x \in T, T \ {x} \in C
        PROVE  T \in C
    <2>1. PICK g : Adds(g, f, T \ {x})
      BY <1>2
    <2>2. \E h : Adds(h, f, T)
      BY <2>1, AddsOneMore
    <2>. QED  BY <2>2
  <1>3. S \in C
    <2>. HIDE DEF C
    <2>. QED  BY <1>1, <1>2, OneByOne
  <1>. QED  BY <1>3

(* SumFunctionOnSet is that sum, whatever member CHOOSE takes.             *)
LEMMA SumIs ==
    ASSUME NEW S, IsFiniteSet(S), NEW f, NEW g, Adds(g, f, S)
    PROVE  SumFunctionOnSet(f, S) = g[S]
  <1>. DEFINE next(s) == CHOOSE x \in s : TRUE
              iter == CHOOSE h : h = [s \in SUBSET S |-> IF s = {} THEN 0 ELSE f[next(s)] + h[s \ {next(s)}]]
  <1>1. SumFunctionOnSet(f, S) = iter[S]
    BY DEF SumFunctionOnSet, FoldFunctionOnSet, MapThenFoldSet
  <1>2. g = [s \in SUBSET S |-> IF s = {} THEN 0 ELSE f[next(s)] + g[s \ {next(s)}]]
    <2>1. \A s \in SUBSET S : s # {} => next(s) \in s
      OBVIOUS
    <2>. HIDE DEF next
    <2>2. \A s \in SUBSET S : g[s] = IF s = {} THEN 0 ELSE f[next(s)] + g[s \ {next(s)}]
      BY <2>1 DEF Adds
    <2>3. g = [s \in SUBSET S |-> g[s]]
      BY DEF Adds
    <2>. QED  BY <2>2, <2>3
  <1>3. iter = [s \in SUBSET S |-> IF s = {} THEN 0 ELSE f[next(s)] + iter[s \ {next(s)}]]
    <2>. HIDE DEF next
    <2>. QED  BY <1>2
  <1>4. \A s \in SUBSET S : iter[s] = IF s = {} THEN 0 ELSE f[next(s)] + iter[s \ {next(s)}]
    <2>. HIDE DEF iter, next
    <2>. QED  BY <1>3
  <1>5. ASSUME NEW s \in SUBSET S, s # {}
        PROVE  next(s) \in s
    BY <1>5
  <1>. HIDE DEF iter, next
  <1>. DEFINE B == {s \in SUBSET S : iter[s] # g[s]}
  <1>6. B = {}
    <2>. SUFFICES ASSUME B # {} PROVE FALSE
      OBVIOUS
    <2>1. PICK m \in B : \A t \in B : t \subseteq m => t = m
      <3>1. B \subseteq SUBSET S
        OBVIOUS
      <3>. HIDE DEF B
      <3>. QED  BY <3>1, Smallest
    <2>2. m \in SUBSET S /\ iter[m] # g[m]
      OBVIOUS
    <2>3. m # {}
      <3>1. iter[{}] = 0 /\ g[{}] = 0
        BY <1>4 DEF Adds
      <3>. QED  BY <2>2, <3>1
    <2>4. PICK x \in m : x = next(m)
      BY <1>5, <2>2, <2>3
    <2>5. m \ {x} \in SUBSET S /\ m \ {x} # m /\ m \ {x} \subseteq m
      BY <2>2
    <2>6. iter[m \ {x}] = g[m \ {x}]
      BY <2>1, <2>5
    <2>7. g[m] = f[x] + g[m \ {x}]
      BY <2>2 DEF Adds
    <2>8. iter[m] = f[x] + iter[m \ {x}]
      BY <1>4, <2>2, <2>3, <2>4
    <2>. QED  BY <2>2, <2>6, <2>7, <2>8
  <1>7. iter[S] = g[S]
    BY <1>6
  <1>. QED  BY <1>1, <1>7

LEMMA SumEmpty == \A f : SumFunctionOnSet(f, {}) = 0
  <1>. TAKE f
  <1>1. IsFiniteSet({})
    BY FS_EmptySet
  <1>2. PICK g : Adds(g, f, {})
    BY <1>1, SumsExist
  <1>3. SumFunctionOnSet(f, {}) = g[{}]
    BY <1>1, <1>2, SumIs
  <1>. QED  BY <1>2, <1>3 DEF Adds

LEMMA SumRemove ==
    ASSUME NEW S, IsFiniteSet(S), NEW f, \A x \in S : f[x] \in Int, NEW a \in S
    PROVE  /\ SumFunctionOnSet(f, S) \in Int /\ SumFunctionOnSet(f, S \ {a}) \in Int
           /\ SumFunctionOnSet(f, S) = f[a] + SumFunctionOnSet(f, S \ {a})
  <1>1. PICK P : P = S \ {a}
    OBVIOUS
  <1>2. IsFiniteSet(P) /\ P \in SUBSET S /\ S \in SUBSET S
    BY <1>1, FS_RemoveElement
  <1>3. PICK g : Adds(g, f, S)
    BY SumsExist
  <1>4. g[S] \in Int /\ g[P] \in Int /\ g[S] = f[a] + g[P]
    BY <1>1, <1>2, <1>3 DEF Adds
  <1>. DEFINE h == [s \in SUBSET P |-> g[s]]
  <1>5. Adds(h, f, P)
    <2>1. h \in [SUBSET P -> Int] /\ h[{}] = 0
      BY <1>2, <1>3 DEF Adds
    <2>2. ASSUME NEW s \in SUBSET P, NEW x \in s
          PROVE  h[s] = f[x] + h[s \ {x}]
      <3>1. s \in SUBSET S /\ s \ {x} \in SUBSET P
        BY <1>2
      <3>2. g[s] = f[x] + g[s \ {x}]
        BY <1>3, <3>1 DEF Adds
      <3>3. h[s] = g[s] /\ h[s \ {x}] = g[s \ {x}]
        BY <3>1
      <3>. HIDE DEF h
      <3>. QED  BY <3>2, <3>3
    <2>. HIDE DEF h
    <2>. QED  BY <2>1, <2>2 DEF Adds
  <1>6. h[P] = g[P]
    OBVIOUS
  <1>. HIDE DEF h
  <1>7. SumFunctionOnSet(f, S) = g[S] /\ SumFunctionOnSet(f, P) = h[P]
    BY <1>2, <1>3, <1>5, SumIs
  <1>. QED  BY <1>1, <1>4, <1>6, <1>7

(* A sum is no larger than one with larger members.                        *)
LEMMA SumMonotone ==
    ASSUME NEW S, IsFiniteSet(S), NEW f, NEW h,
           \A x \in S : f[x] \in Int /\ h[x] \in Int /\ f[x] <= h[x]
    PROVE  /\ SumFunctionOnSet(f, S) \in Int /\ SumFunctionOnSet(h, S) \in Int
           /\ SumFunctionOnSet(f, S) <= SumFunctionOnSet(h, S)
  <1>. DEFINE C == {T \in SUBSET S : /\ SumFunctionOnSet(f, T) \in Int /\ SumFunctionOnSet(h, T) \in Int
                                     /\ SumFunctionOnSet(f, T) <= SumFunctionOnSet(h, T)}
  <1>1. {} \in C
    BY SumEmpty
  <1>2. ASSUME NEW T \in SUBSET S, NEW x \in T, T \ {x} \in C
        PROVE  T \in C
    <2>1. IsFiniteSet(T) /\ \A y \in T : f[y] \in Int /\ h[y] \in Int
      BY FS_Subset
    <2>2. /\ SumFunctionOnSet(f, T) \in Int
          /\ SumFunctionOnSet(f, T) = f[x] + SumFunctionOnSet(f, T \ {x})
      BY <2>1, SumRemove
    <2>3. /\ SumFunctionOnSet(h, T) \in Int
          /\ SumFunctionOnSet(h, T) = h[x] + SumFunctionOnSet(h, T \ {x})
      BY <2>1, SumRemove
    <2>4. f[x] \in Int /\ h[x] \in Int /\ f[x] <= h[x]
      OBVIOUS
    <2>. QED  BY <1>2, <2>2, <2>3, <2>4
  <1>3. S \in C
    <2>. HIDE DEF C
    <2>. QED  BY <1>1, <1>2, OneByOne
  <1>. QED  BY <1>3

(* Only the members of the set count. *)
LEMMA SumSame ==
    ASSUME NEW S, IsFiniteSet(S), NEW f, NEW h, \A x \in S : f[x] \in Int /\ h[x] = f[x]
    PROVE  SumFunctionOnSet(h, S) = SumFunctionOnSet(f, S)
  <1>1. /\ SumFunctionOnSet(f, S) \in Int /\ SumFunctionOnSet(h, S) \in Int
        /\ SumFunctionOnSet(f, S) <= SumFunctionOnSet(h, S)
    <2>1. \A x \in S : f[x] \in Int /\ h[x] \in Int /\ f[x] <= h[x]
      OBVIOUS
    <2>. QED  BY <2>1, SumMonotone
  <1>2. SumFunctionOnSet(h, S) <= SumFunctionOnSet(f, S)
    <2>1. \A x \in S : f[x] \in Int /\ h[x] \in Int /\ h[x] <= f[x]
      OBVIOUS
    <2>. QED  BY <2>1, SumMonotone
  <1>. QED  BY <1>1, <1>2

LEMMA SumNatural ==
    ASSUME NEW S, IsFiniteSet(S), NEW f, \A x \in S : f[x] \in Nat
    PROVE  SumFunctionOnSet(f, S) \in Nat /\ \A x \in S : f[x] <= SumFunctionOnSet(f, S)
  <1>. DEFINE C == {T \in SUBSET S : SumFunctionOnSet(f, T) \in Nat}
  <1>1. {} \in C
    BY SumEmpty
  <1>2. ASSUME NEW T \in SUBSET S, NEW x \in T, T \ {x} \in C
        PROVE  T \in C
    <2>1. IsFiniteSet(T) /\ \A y \in T : f[y] \in Int
      BY FS_Subset
    <2>2. SumFunctionOnSet(f, T) = f[x] + SumFunctionOnSet(f, T \ {x})
      BY <2>1, SumRemove
    <2>. QED  BY <1>2, <2>2
  <1>3. S \in C /\ \A x \in S : S \ {x} \in C
    <2>. HIDE DEF C
    <2>1. \A T \in SUBSET S : T \in C
      BY <1>1, <1>2, OneByOne
    <2>. QED  BY <2>1
  <1>4. ASSUME NEW x \in S
        PROVE  f[x] <= SumFunctionOnSet(f, S)
    <2>1. SumFunctionOnSet(f, S) = f[x] + SumFunctionOnSet(f, S \ {x})
      BY SumRemove
    <2>. QED  BY <1>3, <2>1
  <1>. QED  BY <1>3, <1>4

(* One member more by one, the sum more by one; and between two functions, *)
(* one below the other, there is one for every sum between theirs.         *)
LEMMA SumOneMore ==
    ASSUME NEW S, IsFiniteSet(S), NEW f \in [S -> Int], NEW a \in S
    PROVE  SumFunctionOnSet([f EXCEPT ![a] = f[a] + 1], S) = SumFunctionOnSet(f, S) + 1
  <1>1. PICK h : h = [f EXCEPT ![a] = f[a] + 1]
    OBVIOUS
  <1>2. /\ h \in [S -> Int] /\ h[a] = f[a] + 1
        /\ \A x \in S \ {a} : f[x] \in Int /\ h[x] = f[x]
    BY <1>1
  <1>3. IsFiniteSet(S \ {a})
    BY FS_RemoveElement
  <1>4. SumFunctionOnSet(h, S \ {a}) = SumFunctionOnSet(f, S \ {a})
    BY <1>2, <1>3, SumSame
  <1>5. /\ SumFunctionOnSet(f, S \ {a}) \in Int
        /\ SumFunctionOnSet(f, S) = f[a] + SumFunctionOnSet(f, S \ {a})
    BY SumRemove
  <1>6. SumFunctionOnSet(h, S) = h[a] + SumFunctionOnSet(h, S \ {a})
    <2>1. \A x \in S : h[x] \in Int
      BY <1>2
    <2>. QED  BY <2>1, SumRemove
  <1>. QED  BY <1>1, <1>2, <1>4, <1>5, <1>6

LEMMA SumBetween ==
    ASSUME NEW S, IsFiniteSet(S), NEW low \in [S -> Int], NEW high \in [S -> Int],
           \A x \in S : low[x] <= high[x], NEW b \in Int,
           SumFunctionOnSet(low, S) <= b, b <= SumFunctionOnSet(high, S)
    PROVE  \E n \in [S -> Int] : /\ \A x \in S : n[x] \in low[x] .. high[x]
                                 /\ SumFunctionOnSet(n, S) = b
  <1>1. PICK l, t : l = SumFunctionOnSet(low, S) /\ t = b - l
    OBVIOUS
  <1>2. l \in Int /\ t \in Nat /\ SumFunctionOnSet(high, S) \in Int
    <2>1. \A x \in S : low[x] \in Int /\ high[x] \in Int
      OBVIOUS
    <2>2. SumFunctionOnSet(low, S) \in Int /\ SumFunctionOnSet(high, S) \in Int
      BY <2>1, SumMonotone
    <2>. QED  BY <1>1, <2>2
  <1>. DEFINE Fits(n, k) == /\ \A x \in S : n[x] \in low[x] .. high[x]
                            /\ SumFunctionOnSet(n, S) = l + k
              K == {k \in 0 .. t : \E n \in [S -> Int] : Fits(n, k)}
  <1>3. 0 \in K
    <2>1. Fits(low, 0)
      BY <1>1, <1>2
    <2>. HIDE DEF Fits
    <2>. QED  BY <1>2, <2>1
  <1>4. ASSUME NEW k \in 1 .. t, k - 1 \in K
        PROVE  k \in K
    <2>1. PICK n \in [S -> Int] : Fits(n, k - 1)
      BY <1>4
    <2>2. \E a \in S : n[a] < high[a]
      <3>. SUFFICES ASSUME \A a \in S : ~ (n[a] < high[a]) PROVE FALSE
        OBVIOUS
      <3>1. \A x \in S : high[x] \in Int /\ n[x] \in Int /\ high[x] <= n[x]
        OBVIOUS
      <3>2. SumFunctionOnSet(high, S) <= SumFunctionOnSet(n, S)
        BY <3>1, SumMonotone
      <3>. QED  BY <1>1, <1>2, <2>1, <3>2
    <2>3. PICK a \in S : n[a] < high[a]
      BY <2>2
    <2>4. PICK m : m = [n EXCEPT ![a] = n[a] + 1]
      OBVIOUS
    <2>5. SumFunctionOnSet(m, S) = SumFunctionOnSet(n, S) + 1
      BY <2>4, SumOneMore
    <2>6. m \in [S -> Int] /\ \A x \in S : m[x] = IF x = a THEN n[x] + 1 ELSE n[x]
      BY <2>4
    <2>7. Fits(m, k)
      <3>1. ASSUME NEW x \in S PROVE m[x] \in low[x] .. high[x]
        <4>1. n[x] \in low[x] .. high[x] /\ low[x] \in Int /\ high[x] \in Int /\ n[x] \in Int
          BY <2>1
        <4>. QED  BY <2>3, <2>6, <4>1
      <3>2. SumFunctionOnSet(m, S) = l + k
        BY <1>2, <2>1, <2>5
      <3>. QED  BY <3>1, <3>2
    <2>. HIDE DEF Fits
    <2>. QED  BY <2>6, <2>7
  <1>5. t \in K
    <2>1. 0 .. t \subseteq K
      <3>1. \A k \in 1 .. t : k - 1 \in K => k \in K
        BY <1>4
      <3>. HIDE DEF K
      <3>. QED  BY <1>2, <1>3, <3>1, UpTo
    <2>. QED  BY <1>2, <2>1
  <1>6. l + t = b
    BY <1>1, <1>2
  <1>. QED  BY <1>5, <1>6

(* The sum of the first members of a sequence, by its running totals. *)
LEMMA PrefixSums ==
    ASSUME NEW n \in Nat, NEW f \in [1 .. n -> Nat], NEW at \in [0 .. n -> Nat], at[0] = 0,
           \A i \in 1 .. n : at[i] = at[i - 1] + f[i]
    PROVE  \A m \in 0 .. n : SumFunctionOnSet(f, 1 .. m) = at[m]
  <1>. DEFINE T == {m \in 0 .. n : SumFunctionOnSet(f, 1 .. m) = at[m]}
  <1>1. 0 \in T
    <2>1. 1 .. 0 = {}
      OBVIOUS
    <2>2. SumFunctionOnSet(f, 1 .. 0) = 0
      BY <2>1, SumEmpty
    <2>. QED  BY <2>2
  <1>2. ASSUME NEW m \in 1 .. n, m - 1 \in T
        PROVE  m \in T
    <2>1. PICK S : S = 1 .. m
      OBVIOUS
    <2>2. IsFiniteSet(S) /\ m \in S /\ S \ {m} = 1 .. m - 1
      <3>1. 1 \in Int /\ m \in Int
        OBVIOUS
      <3>2. IsFiniteSet(1 .. m)
        BY <3>1, FS_Interval
      <3>3. \A x \in 1 .. m : x # m => x \in 1 .. m - 1
        OBVIOUS
      <3>4. \A x \in 1 .. m - 1 : x \in 1 .. m /\ x # m
        OBVIOUS
      <3>5. (1 .. m) \ {m} = 1 .. m - 1
        BY <3>3, <3>4, Zenon
      <3>6. m \in 1 .. m
        OBVIOUS
      <3>. QED  BY <2>1, <3>2, <3>5, <3>6
    <2>3. \A x \in S : f[x] \in Int
      BY <2>1
    <2>4. SumFunctionOnSet(f, S) = f[m] + SumFunctionOnSet(f, S \ {m})
      BY <2>2, <2>3, SumRemove
    <2>5. SumFunctionOnSet(f, 1 .. m - 1) = at[m - 1]
      BY <1>2
    <2>6. at[m] = at[m - 1] + f[m] /\ at[m - 1] \in Nat /\ f[m] \in Nat
      OBVIOUS
    <2>7. SumFunctionOnSet(f, 1 .. m) = at[m]
      <3>1. SumFunctionOnSet(f, 1 .. m) = f[m] + at[m - 1]
        BY <2>1, <2>2, <2>4, <2>5, Zenon
      <3>. QED  BY <2>6, <3>1
    <2>. QED  BY <2>7
  <1>. HIDE DEF T
  <1>3. 0 .. n \subseteq T
    BY <1>1, <1>2, UpTo
  <1>. QED  BY <1>3 DEF T

-------------------------------------------------------------------------------
(* The numbers of a set are told apart by how many are not greater, and    *)
(* every place in their order is one's.                                    *)
LEMMA NumbersRanked ==
    ASSUME NEW s \in SUBSET Nat, IsFiniteSet(s), NEW m, m = Cardinality(s)
    PROVE  /\ m \in Nat
           /\ \A x \in s : Cardinality({t \in s : t <= x}) \in 1 .. m
           /\ \A x, y \in s : x < y => Cardinality({t \in s : t <= x}) < Cardinality({t \in s : t <= y})
           /\ \A k \in 1 .. m : \E x \in s : Cardinality({t \in s : t <= x}) = k
  <1>1. m \in Nat
    BY FS_CardinalityType
  <1>. DEFINE Upto(x) == {t \in s : t <= x}
              rank(x) == Cardinality(Upto(x))
              f == [x \in s |-> rank(x)]
  <1>2. \A x \in s : IsFiniteSet(Upto(x)) /\ rank(x) \in 1 .. m
    <2>. TAKE x \in s
    <2>1. Upto(x) \in SUBSET s /\ x \in Upto(x)
      OBVIOUS
    <2>. HIDE DEF Upto
    <2>2. IsFiniteSet(Upto(x)) /\ rank(x) <= m /\ rank(x) \in Nat
      BY <1>1, <2>1, FS_Subset, FS_CardinalityType
    <2>3. rank(x) # 0
      BY <2>1, <2>2, FS_EmptySet
    <2>. QED  BY <2>2, <2>3
  <1>3. ASSUME NEW x \in s, NEW y \in s, x < y
        PROVE  rank(x) < rank(y)
    <2>0. x \in Nat /\ y \in Nat /\ y <= y /\ ~(y <= x)
      BY <1>3
    <2>1. Upto(x) \in SUBSET Upto(y) /\ y \in Upto(y) /\ y \notin Upto(x)
      <3>1. ASSUME NEW t \in s, t <= x PROVE t <= y
        <4>1. t \in Nat
          OBVIOUS
        <4>. QED  BY <1>3, <2>0, <3>1, <4>1
      <3>. QED  BY <2>0, <3>1
    <2>2. Upto(x) # Upto(y)
      BY <2>1
    <2>. HIDE DEF Upto
    <2>3. rank(x) <= rank(y) /\ rank(x) # rank(y)
      BY <1>2, <2>1, <2>2, FS_Subset
    <2>. QED  BY <1>2, <2>3
  <1>4. \A x, y \in s : rank(x) = rank(y) => x = y
    <2>. HIDE DEF rank
    <2>. SUFFICES ASSUME NEW x \in s, NEW y \in s, rank(x) = rank(y) PROVE x = y
      OBVIOUS
    <2>1. PICK a \in Int : a = rank(x) /\ a = rank(y) /\ ~(a < a)
      <3>1. rank(x) \in 1 .. m
        BY <1>2, Zenon
      <3>. QED  BY <3>1
    <2>3. ~(x < y) /\ ~(y < x)
      BY <1>3, <2>1
    <2>2. x \in Nat /\ y \in Nat
      OBVIOUS
    <2>. QED  BY <2>2, <2>3
  <1>5. \A k \in 1 .. m : \E x \in s : rank(x) = k
    <2>. HIDE DEF rank
    <2>1. f \in Injection(s, 1 .. m)
      BY <1>2, <1>4 DEF Injection, IsInjective
    <2>2. IsFiniteSet(1 .. m) /\ Cardinality(1 .. m) = m
      <3>1. 1 \in Int /\ m \in Int
        BY <1>1
      <3>2. IsFiniteSet(1 .. m) /\ Cardinality(1 .. m) = IF 1 > m THEN 0 ELSE m - 1 + 1
        BY <3>1, FS_Interval
      <3>. QED  BY <1>1, <3>2
    <2>3. PICK g : g = f
      OBVIOUS
    <2>4. g \in Surjection(s, 1 .. m)
      BY <2>1, <2>2, <2>3, FS_Injection
    <2>5. \A k \in 1 .. m : \E x \in s : g[x] = k
      BY <2>4 DEF Surjection
    <2>. QED  BY <2>3, <2>5
  <1>. QED  BY <1>1, <1>2, <1>3, <1>5

(* Quotient and remainder. *)
LEMMA FloorDivision ==
    ASSUME NEW n \in Int, NEW d \in Nat, d > 0
    PROVE  /\ (n \div d) \in Int /\ (n % d) \in 0 .. d - 1
           /\ n = d * (n \div d) + (n % d)
<1>1. (n \div d) \in Int
  BY SMT
<1>2. (n % d) \in 0 .. d - 1
  BY SMT
<1>3. n = d * (n \div d) + (n % d)
  BY SMT
<1>4. QED
  BY <1>1, <1>2, <1>3
===============================================================================
