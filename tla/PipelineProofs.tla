----------------------------- MODULE PipelineProofs -----------------------------
(***************************************************************************)
(* What is made of a scene is true of it.                                  *)
(***************************************************************************)
EXTENDS ScenePipeline, SceneProofs

(* A product of naturals grows with its factors.                           *)
LEMMA Products ==
    ASSUME NEW a \in Nat, NEW b \in Nat, NEW c \in Nat, NEW d \in Nat, a <= c, b <= d
    PROVE  /\ a * b \in Nat /\ c * d \in Nat /\ a * b <= c * d
           /\ a < c /\ d > 0 => a * b < c * d
           /\ b < d /\ c > 0 => a * b < c * d
  <1>1. PICK x \in Nat, y \in Nat : c = a + x /\ d = b + y
    <2>1. c - a \in Nat /\ d - b \in Nat /\ c = a + (c - a) /\ d = b + (d - b)
      OBVIOUS
    <2>. QED  BY <2>1
  <1>2. PICK p \in Nat, q \in Nat, r \in Nat, s \in Nat : p = a * b /\ q = a * y /\ r = x * b /\ s = x * y
    OBVIOUS
  <1>3. c * d = p + q + r + s
    BY <1>1, <1>2
  <1>4. c * d = p + q + (x * d) /\ c * d = p + (c * y) + r
    BY <1>1, <1>2
  <1>5. x > 0 /\ d > 0 => x * d > 0
    BY <1>1
  <1>6. c > 0 /\ y > 0 => c * y > 0
    BY <1>1
  <1>7. x * d \in Nat /\ c * y \in Nat
    BY <1>1
  <1>8. a < c /\ d > 0 => a * b < c * d
    BY <1>1, <1>2, <1>4, <1>5, <1>7
  <1>9. b < d /\ c > 0 => a * b < c * d
    BY <1>1, <1>2, <1>4, <1>6, <1>7
  <1>. QED  BY <1>2, <1>3, <1>8, <1>9

(* The quadrant q is the first of the largest of four memberships.         *)
IsDominant(m, q) ==
    /\ q \in 0 .. 3
    /\ \A r \in 0 .. 3 : m[r + 1] <= m[q + 1]
    /\ \A r \in 0 .. q - 1 : m[r + 1] < m[q + 1]

LEMMA DominantIs ==
    ASSUME NEW m, \A k \in 1 .. 4 : m[k] \in Nat, NEW q, IsDominant(m, q)
    PROVE  DominantQuadrantIndex(m) = q /\ DominantQuadrant(m) = q
  <1>1. q \in 0 .. 3
    BY DEF IsDominant
  <1>0. \A r \in 0 .. 3 : m[r + 1] \in Nat
    OBVIOUS
  <1>2. DominantQuadrantIndex(m) = q
    <2>. DEFINE D(p) == /\ \A r \in 0 .. 3 : m[r + 1] <= m[p + 1]
                        /\ \A r \in 0 .. p - 1 : m[r + 1] < m[p + 1]
    <2>1. D(q)
      BY DEF IsDominant
    <2>2. ASSUME NEW p \in 0 .. 3, D(p) PROVE p = q
      <3>1. ~ (p < q)
        <4>. SUFFICES ASSUME p < q PROVE FALSE
          OBVIOUS
        <4>1. p \in 0 .. q - 1
          BY <1>1
        <4>2. m[p + 1] < m[q + 1] /\ m[q + 1] <= m[p + 1]
          BY <1>1, <2>1, <2>2, <4>1
        <4>. QED  BY <1>0, <1>1, <4>2
      <3>2. ~ (q < p)
        <4>. SUFFICES ASSUME q < p PROVE FALSE
          OBVIOUS
        <4>1. q \in 0 .. p - 1
          BY <1>1
        <4>2. m[q + 1] < m[p + 1] /\ m[p + 1] <= m[q + 1]
          BY <1>1, <2>1, <2>2, <4>1
        <4>. QED  BY <1>0, <1>1, <4>2
      <3>. QED  BY <1>1, <3>1, <3>2
    <2>3. DominantQuadrantIndex(m) = CHOOSE p \in 0 .. 3 : D(p)
      BY DEF DominantQuadrantIndex
    <2>. HIDE DEF D
    <2>. QED  BY <1>1, <2>1, <2>2, <2>3
  <1>3. DominantQuadrant(m) = q
    <2>1. PICK T : T = {p \in 0 .. 3 : \A r \in 0 .. 3 : m[r + 1] <= m[p + 1]}
      OBVIOUS
    <2>2. q \in T
      BY <1>1, <2>1 DEF IsDominant
    <2>3. ASSUME NEW p \in T PROVE q <= p
      <3>. SUFFICES ASSUME p < q PROVE FALSE
        BY <1>1, <2>1
      <3>1. p \in 0 .. q - 1 /\ p \in 0 .. 3
        BY <1>1, <2>1
      <3>2. m[p + 1] < m[q + 1]
        BY <3>1 DEF IsDominant
      <3>3. m[q + 1] <= m[p + 1]
        BY <1>1, <2>1
      <3>. QED  BY <1>0, <1>1, <3>1, <3>2, <3>3
    <2>4. ASSUME NEW p \in T, \A y \in T : p =< y PROVE p = q
      <3>1. p <= q /\ q <= p /\ p \in 0 .. 3
        BY <2>1, <2>2, <2>3, <2>4
      <3>. QED  BY <1>1, <3>1
    <2>5. DominantQuadrant(m) = CHOOSE p \in T : \A y \in T : p =< y
      BY <2>1 DEF DominantQuadrant, Min
    <2>. QED  BY <2>2, <2>3, <2>4, <2>5
  <1>. QED  BY <1>2, <1>3

(* A sum of memberships keeps the quadrant its terms agree on.             *)
LEMMA SumKeepsDominant ==
    ASSUME NEW m, \A k \in 1 .. 4 : m[k] \in Nat, NEW o, \A k \in 1 .. 4 : o[k] \in Nat,
           NEW q, IsDominant(m, q), IsDominant(o, q)
    PROVE  /\ \A k \in 1 .. 4 : Plus(m, o)[k] \in Nat
           /\ IsDominant(Plus(m, o), q)
  <1>1. PICK t : t = Plus(m, o)
    OBVIOUS
  <1>2. \A k \in 1 .. 4 : t[k] = m[k] + o[k]
    BY <1>1 DEF Plus
  <1>3. q \in 0 .. 3 /\ \A r \in 0 .. 3 : r + 1 \in 1 .. 4
    BY DEF IsDominant
  <1>4. \A r \in 0 .. 3 : t[r + 1] <= t[q + 1]
    <2>. TAKE r \in 0 .. 3
    <2>1. PICK i \in 1 .. 4, j \in 1 .. 4 : i = r + 1 /\ j = q + 1
      BY <1>3
    <2>2. m[i] <= m[j] /\ o[i] <= o[j]
      BY <2>1 DEF IsDominant
    <2>3. t[i] <= t[j]
      BY <1>2, <2>2
    <2>. QED  BY <2>1, <2>3
  <1>5. \A r \in 0 .. q - 1 : t[r + 1] < t[q + 1]
    <2>. TAKE r \in 0 .. q - 1
    <2>1. PICK i \in 1 .. 4, j \in 1 .. 4 : i = r + 1 /\ j = q + 1
      BY <1>3
    <2>2. m[i] < m[j] /\ o[i] < o[j]
      BY <2>1 DEF IsDominant
    <2>3. t[i] < t[j]
      BY <1>2, <2>2
    <2>. QED  BY <2>1, <2>3
  <1>6. \A k \in 1 .. 4 : t[k] \in Nat
    BY <1>2
  <1>. QED  BY <1>1, <1>3, <1>4, <1>5, <1>6 DEF IsDominant

(* On the grid the largest membership of a point is that of the quadrant   *)
(* its signs tell.                                                         *)
LEMMA DominantIsHard ==
    ASSUME NEW p \in Point
    PROVE  /\ \A k \in 1 .. 4 : PositionalIdentity(p)[k] \in Nat
           /\ IsDominant(PositionalIdentity(p), HardQuadrant(p))
  <1>1. PICK x, y \in Int : /\ x = p[1] /\ y = p[2] /\ x \in Int /\ -Unit <= x /\ x <= Unit
                            /\ -Unit <= y /\ y <= Unit
    BY GridAssumption DEF Point
  <1>2. PICK a \in Nat, b \in Nat, c \in Nat, d \in Nat :
            /\ a = x + Unit /\ b = Unit - x /\ c = y + Unit /\ d = Unit - y
    BY <1>1, GridAssumption
  <1>3. PICK m : m = PositionalIdentity(p)
    OBVIOUS
  <1>4. PICK ac \in Nat, bc \in Nat, bd \in Nat, ad \in Nat :
            ac = a * c /\ bc = b * c /\ bd = b * d /\ ad = a * d
    OBVIOUS
  <1>5. m = <<ac, bc, bd, ad>>
    <2>1. 2 * Unit - a = b /\ 2 * Unit - c = d
      BY <1>1, <1>2, GridAssumption
    <2>2. AxisMembership(p[1]) = a /\ AxisMembership(p[2]) = c
      BY <1>1, <1>2 DEF AxisMembership
    <2>. QED  BY <1>3, <1>4, <2>1, <2>2 DEF PositionalIdentity
  <1>6. \A k \in 1 .. 4 : m[k] \in Nat
    BY <1>5
  <1>7. IsDominant(m, HardQuadrant(p))
    <2>1. CASE y >= 0 /\ x >= 0
      <3>1. b <= a /\ d <= c
        BY <1>1, <1>2, <2>1, GridAssumption
      <3>2. bc <= ac /\ bd <= ac /\ ad <= ac
        BY <1>4, <3>1, Products
      <3>3. HardQuadrant(p) = 0
        BY <1>1, <2>1 DEF HardQuadrant
      <3>. QED  BY <1>4, <1>5, <3>2, <3>3 DEF IsDominant
    <2>2. CASE y >= 0 /\ x < 0
      <3>1. a < b /\ a <= b /\ d <= c /\ c > 0
        BY <1>1, <1>2, <2>2, GridAssumption
      <3>2. ac < bc /\ bd <= bc /\ ad <= bc
        BY <1>4, <3>1, Products
      <3>3. HardQuadrant(p) = 1
        BY <1>1, <2>2 DEF HardQuadrant
      <3>. QED  BY <1>4, <1>5, <3>2, <3>3 DEF IsDominant
    <2>3. CASE y < 0 /\ x <= 0
      <3>1. a <= b /\ c < d /\ c <= d /\ b > 0 /\ d > 0
        BY <1>1, <1>2, <2>3, GridAssumption
      <3>2. ac < bd /\ bc < bd /\ ad <= bd
        BY <1>4, <3>1, Products
      <3>3. HardQuadrant(p) = 2
        BY <1>1, <2>3 DEF HardQuadrant
      <3>. QED  BY <1>4, <1>5, <3>2, <3>3 DEF IsDominant
    <2>4. CASE y < 0 /\ x > 0
      <3>1. b < a /\ b <= a /\ c < d /\ c <= d /\ a > 0 /\ d > 0
        BY <1>1, <1>2, <2>4, GridAssumption
      <3>2. ac < ad /\ bc < ad /\ bd < ad
        BY <1>4, <3>1, Products
      <3>3. HardQuadrant(p) = 3
        BY <1>1, <2>4 DEF HardQuadrant
      <3>. QED  BY <1>4, <1>5, <3>2, <3>3 DEF IsDominant
    <2>. QED  BY <1>1, <2>1, <2>2, <2>3, <2>4
  <1>. QED  BY <1>3, <1>6, <1>7

-------------------------------------------------------------------------------
(* The memberships along a path, and the runs they make.                   *)
AlongPath(path) == [k \in DOMAIN path |-> PositionalIdentity(path[k])]

RunRecords == [dominant : 0 .. 3, sum : [1 .. 4 -> Nat]]

LEMMA AlongPathIs ==
    ASSUME NEW path \in Seq(Point)
    PROVE  /\ DOMAIN AlongPath(path) = 1 .. Len(path) /\ Len(AlongPath(path)) = Len(path)
           /\ \A k \in 1 .. Len(path) :
                  /\ AlongPath(path)[k] \in [1 .. 4 -> Nat]
                  /\ DominantQuadrantIndex(AlongPath(path)[k]) = HardQuadrant(path[k])
                  /\ IsDominant(AlongPath(path)[k], HardQuadrant(path[k]))
                  /\ HardQuadrant(path[k]) \in 0 .. 3
  <1>1. PICK n \in Nat : n = Len(path) /\ DOMAIN path = 1 .. n
    OBVIOUS
  <1>2. PICK ms : ms = AlongPath(path)
    OBVIOUS
  <1>3. ms = [k \in 1 .. n |-> PositionalIdentity(path[k])]
    BY <1>1, <1>2 DEF AlongPath
  <1>4. ASSUME NEW k \in 1 .. n
        PROVE  /\ ms[k] \in [1 .. 4 -> Nat]
               /\ DominantQuadrantIndex(ms[k]) = HardQuadrant(path[k])
               /\ IsDominant(ms[k], HardQuadrant(path[k]))
               /\ HardQuadrant(path[k]) \in 0 .. 3
    <2>1. PICK p \in Point : p = path[k]
      BY <1>1
    <2>2. PICK m : m = PositionalIdentity(p)
      OBVIOUS
    <2>3. (\A j \in 1 .. 4 : m[j] \in Nat) /\ IsDominant(m, HardQuadrant(p))
      BY <2>2, DominantIsHard
    <2>4. m = [j \in 1 .. 4 |-> m[j]]
      BY <2>2 DEF PositionalIdentity
    <2>5. m \in [1 .. 4 -> Nat]
      BY <2>3, <2>4
    <2>6. DominantQuadrantIndex(m) = HardQuadrant(p)
      BY <2>3, DominantIs
    <2>7. ms[k] = m
      BY <1>3, <2>1, <2>2
    <2>. QED  BY <2>1, <2>3, <2>5, <2>6, <2>7 DEF IsDominant
  <1>5. DOMAIN ms = 1 .. n /\ Len(ms) = n
    <2>1. ms \in [1 .. n -> [1 .. 4 -> Nat]]
      <3>1. PICK V : V = [1 .. 4 -> Nat]
        OBVIOUS
      <3>2. \A k \in 1 .. n : ms[k] \in V
        BY <1>4, <3>1
      <3>3. ms \in [1 .. n -> V]
        BY <1>3, <3>2
      <3>. QED  BY <3>1, <3>3
    <2>. QED  BY <2>1
  <1>. QED  BY <1>1, <1>2, <1>4, <1>5

LEMMA WithSampleType ==
    ASSUME NEW runs \in Seq(RunRecords), NEW m \in [1 .. 4 -> Nat], NEW q, IsDominant(m, q)
    PROVE  /\ WithSample(runs, m) \in Seq(RunRecords)
           /\ IF runs # <<>> /\ runs[Len(runs)].dominant = q
              THEN /\ Len(WithSample(runs, m)) = Len(runs)
                   /\ \A j \in 1 .. Len(runs) - 1 : WithSample(runs, m)[j] = runs[j]
                   /\ WithSample(runs, m)[Len(runs)] =
                          [dominant |-> q, sum |-> Plus(runs[Len(runs)].sum, m)]
              ELSE WithSample(runs, m) = Append(runs, [dominant |-> q, sum |-> m])
  <1>1. DominantQuadrantIndex(m) = q /\ q \in 0 .. 3
    BY DominantIs DEF IsDominant
  <1>2. PICK R : R = RunRecords
    OBVIOUS
  <1>3. PICK res : res = WithSample(runs, m)
    OBVIOUS
  <1>4. CASE runs # <<>> /\ runs[Len(runs)].dominant = q
    <2>1. PICK n \in Nat : n = Len(runs) /\ n \in 1 .. Len(runs)
      BY <1>4
    <2>2. PICK r \in R : r = runs[n]
      BY <1>2, <2>1
    <2>3. r.sum \in [1 .. 4 -> Nat] /\ r = [dominant |-> r.dominant, sum |-> r.sum] /\ r.dominant = q
      BY <1>2, <1>4, <2>1, <2>2 DEF RunRecords
    <2>4. PICK v : v = Plus(r.sum, m)
      OBVIOUS
    <2>5. v \in [1 .. 4 -> Nat]
      <3>1. PICK s \in [1 .. 4 -> Nat] : s = r.sum
        BY <2>3
      <3>2. v = Plus(s, m)
        BY <2>4, <3>1
      <3>. QED  BY <3>2, SMTT(20) DEF Plus
    <2>6. PICK t : t = [dominant |-> q, sum |-> v]
      OBVIOUS
    <2>7. t \in R /\ [r EXCEPT !.sum = v] = t
      <3>1. t \in R
        BY <1>1, <1>2, <2>5, <2>6 DEF RunRecords
      <3>2. [r EXCEPT !.sum = v] = t
        BY <2>3, <2>6
      <3>. QED  BY <3>1, <3>2
    <2>8. res = [runs EXCEPT ![n].sum = Plus(@, m)]
      BY <1>1, <1>3, <1>4, <2>1 DEF WithSample
    <2>9. res = [runs EXCEPT ![n] = t]
      <3>1. [runs EXCEPT ![n].sum = Plus(@, m)] = [runs EXCEPT ![n] = [runs[n] EXCEPT !.sum = Plus(runs[n].sum, m)]]
        OBVIOUS
      <3>. QED  BY <2>2, <2>4, <2>7, <2>8, <3>1
    <2>10. runs \in Seq(R)
      BY <1>2
    <2>11. /\ res \in Seq(R) /\ Len(res) = n
           /\ \A j \in 1 .. n : res[j] = IF j = n THEN t ELSE runs[j]
      BY <2>1, <2>7, <2>9, <2>10, ExceptSeq
    <2>. QED  BY <1>2, <1>3, <1>4, <2>1, <2>2, <2>4, <2>6, <2>11
  <1>5. CASE ~ (runs # <<>> /\ runs[Len(runs)].dominant = q)
    <2>1. PICK t : t = [dominant |-> q, sum |-> m]
      OBVIOUS
    <2>2. t \in R
      BY <1>1, <1>2, <2>1 DEF RunRecords
    <2>3. res = Append(runs, t)
      BY <1>1, <1>3, <1>5, <2>1 DEF WithSample
    <2>4. res \in Seq(R)
      BY <1>2, <2>2, <2>3
    <2>. QED  BY <1>2, <1>3, <1>5, <2>1, <2>3, <2>4
  <1>. QED  BY <1>4, <1>5

(* The runs and the visited quadrants after each sample of a path.         *)
LEMMA RunsSteps ==
    ASSUME NEW path \in Seq(Point)
    PROVE  \E f \in [0 .. Len(path) -> Seq(RunRecords)] :
              /\ f[0] = <<>>
              /\ \A k \in 1 .. Len(path) : f[k] = WithSample(f[k - 1], AlongPath(path)[k])
              /\ RunsOfSamples(AlongPath(path)) = f[Len(path)]
  <1>0. PICK n \in Nat : n = Len(path)
    OBVIOUS
  <1>1. PICK ms, D : n = Len(path) /\ ms = AlongPath(path) /\ D = Seq(RunRecords)
    BY <1>0
  <1>2. /\ Len(ms) = n
        /\ \A k \in 1 .. n : ms[k] \in [1 .. 4 -> Nat] /\ IsDominant(ms[k], HardQuadrant(path[k]))
    BY <1>1, AlongPathIs
  <1>3. ASSUME NEW x \in D, NEW k \in 1 .. n PROVE WithSample(x, ms[k]) \in D
    <2>1. ms[k] \in [1 .. 4 -> Nat] /\ IsDominant(ms[k], HardQuadrant(path[k]))
      BY <1>2
    <2>. QED  BY <1>1, <2>1, WithSampleType
  <1>4. PICK G : G = [k \in 1 .. n |-> [x \in D |-> WithSample(x, ms[k])]]
    OBVIOUS
  <1>5. G \in [1 .. n -> [D -> D]]
    BY <1>3, <1>4
  <1>6. <<>> \in D
    BY <1>1
  <1>7. PICK d \in D : d = <<>>
    BY <1>6
  <1>8. PICK f \in [0 .. n -> D] : Iteration(f, n, d, G)
    BY <1>1, <1>5, <1>7, Iterates
  <1>9. f = [k \in 0 .. n |-> IF k = 0 THEN <<>> ELSE WithSample(f[k - 1], ms[k])]
    <2>1. f[0] = <<>> /\ \A k \in 1 .. n : f[k] = G[k][f[k - 1]]
      BY <1>7, <1>8, Zenon DEF Iteration
    <2>2. ASSUME NEW k \in 0 .. n
          PROVE  f[k] = IF k = 0 THEN <<>> ELSE WithSample(f[k - 1], ms[k])
      <3>1. k # 0 => k \in 1 .. n /\ f[k - 1] \in D
        OBVIOUS
      <3>. QED  BY <1>4, <2>1, <3>1
    <2>3. f = [k \in 0 .. n |-> f[k]]
      OBVIOUS
    <2>. QED  BY <2>2, <2>3
  <1>. DEFINE runs == CHOOSE g : g = [k \in 0 .. Len(ms) |->
                                         IF k = 0 THEN <<>> ELSE WithSample(g[k - 1], ms[k])]
  <1>10. RunsOfSamples(ms) = runs[Len(ms)]
    BY DEF RunsOfSamples
  <1>11. runs = [k \in 0 .. n |-> IF k = 0 THEN <<>> ELSE WithSample(runs[k - 1], ms[k])]
    BY <1>2, <1>9
  <1>. HIDE DEF runs
  <1>12. PICK g : g = runs
    OBVIOUS
  <1>13. g[0] = <<>> /\ \A k \in 1 .. n : g[k] = WithSample(g[k - 1], ms[k])
    BY <1>11, <1>12
  <1>14. 0 .. n \subseteq {k \in 0 .. n : g[k] \in D}
    <2>. DEFINE T == {k \in 0 .. n : g[k] \in D}
    <2>1. 0 \in T
      BY <1>6, <1>13
    <2>2. \A k \in 1 .. n : k - 1 \in T => k \in T
      BY <1>3, <1>13
    <2>. HIDE DEF T
    <2>3. 0 .. n \subseteq T
      BY <2>1, <2>2, UpTo
    <2>. QED  BY <2>3 DEF T
  <1>15. g \in [0 .. n -> D]
    <2>1. g = [k \in 0 .. n |-> g[k]]
      BY <1>11, <1>12
    <2>. QED  BY <1>14, <2>1
  <1>. QED  BY <1>1, <1>2, <1>10, <1>12, <1>13, <1>15

LEMMA ExtendedType ==
    ASSUME NEW seen \in Seq(0 .. 3), NEW q \in 0 .. 3
    PROVE  Extended(seen, q) \in Seq(0 .. 3)
  BY DEF Extended

LEMMA VisitedSteps ==
    ASSUME NEW path \in Seq(Point)
    PROVE  \E f \in [0 .. Len(path) -> Seq(0 .. 3)] :
              /\ f[0] = <<>>
              /\ \A k \in 1 .. Len(path) : f[k] = Extended(f[k - 1], HardQuadrant(path[k]))
              /\ Visited(path) = f[Len(path)]
  <1>0. PICK n \in Nat : n = Len(path)
    OBVIOUS
  <1>1. PICK D : n = Len(path) /\ D = Seq(0 .. 3)
    BY <1>0
  <1>2. \A k \in 1 .. n : HardQuadrant(path[k]) \in 0 .. 3
    BY <1>1, AlongPathIs
  <1>3. ASSUME NEW x \in D, NEW k \in 1 .. n PROVE Extended(x, HardQuadrant(path[k])) \in D
    BY <1>1, <1>2, ExtendedType
  <1>4. PICK G : G = [k \in 1 .. n |-> [x \in D |-> Extended(x, HardQuadrant(path[k]))]]
    OBVIOUS
  <1>5. G \in [1 .. n -> [D -> D]]
    BY <1>3, <1>4
  <1>6. <<>> \in D
    BY <1>1
  <1>7. PICK d \in D : d = <<>>
    BY <1>6
  <1>8. PICK f \in [0 .. n -> D] : Iteration(f, n, d, G)
    BY <1>1, <1>5, <1>7, Iterates
  <1>9. f = [k \in 0 .. n |-> IF k = 0 THEN <<>> ELSE Extended(f[k - 1], HardQuadrant(path[k]))]
    <2>1. f[0] = <<>> /\ \A k \in 1 .. n : f[k] = G[k][f[k - 1]]
      BY <1>7, <1>8, Zenon DEF Iteration
    <2>2. ASSUME NEW k \in 0 .. n
          PROVE  f[k] = IF k = 0 THEN <<>> ELSE Extended(f[k - 1], HardQuadrant(path[k]))
      <3>1. k # 0 => k \in 1 .. n /\ f[k - 1] \in D
        OBVIOUS
      <3>. QED  BY <1>4, <2>1, <3>1
    <2>3. f = [k \in 0 .. n |-> f[k]]
      OBVIOUS
    <2>. QED  BY <2>2, <2>3
  <1>. DEFINE seen == CHOOSE g : g = [k \in 0 .. Len(path) |->
                                  IF k = 0 THEN <<>> ELSE Extended(g[k - 1], HardQuadrant(path[k]))]
  <1>10. Visited(path) = seen[Len(path)]
    BY DEF Visited
  <1>11. seen = [k \in 0 .. n |-> IF k = 0 THEN <<>> ELSE Extended(seen[k - 1], HardQuadrant(path[k]))]
    BY <1>1, <1>9
  <1>. HIDE DEF seen
  <1>12. PICK g : g = seen
    OBVIOUS
  <1>13. g[0] = <<>> /\ \A k \in 1 .. n : g[k] = Extended(g[k - 1], HardQuadrant(path[k]))
    BY <1>11, <1>12
  <1>14. 0 .. n \subseteq {k \in 0 .. n : g[k] \in D}
    <2>. DEFINE T == {k \in 0 .. n : g[k] \in D}
    <2>1. 0 \in T
      BY <1>6, <1>13
    <2>2. \A k \in 1 .. n : k - 1 \in T => k \in T
      BY <1>3, <1>13
    <2>. HIDE DEF T
    <2>3. 0 .. n \subseteq T
      BY <2>1, <2>2, UpTo
    <2>. QED  BY <2>3 DEF T
  <1>15. g \in [0 .. n -> D]
    <2>1. g = [k \in 0 .. n |-> g[k]]
      BY <1>11, <1>12
    <2>. QED  BY <1>14, <2>1
  <1>. QED  BY <1>1, <1>10, <1>12, <1>13, <1>15

(* Runs agree with the quadrants visited: as many, in the same order, and  *)
(* each with a sum that its quadrant dominates.                            *)
Agree(runs, seen) ==
    /\ Len(runs) = Len(seen)
    /\ \A j \in 1 .. Len(seen) : /\ runs[j].dominant = seen[j]
                                 /\ runs[j].sum \in [1 .. 4 -> Nat]
                                 /\ IsDominant(runs[j].sum, seen[j])

LEMMA AgreeStep ==
    ASSUME NEW runs \in Seq(RunRecords), NEW seen \in Seq(0 .. 3), Agree(runs, seen),
           NEW m \in [1 .. 4 -> Nat], NEW q \in 0 .. 3, IsDominant(m, q)
    PROVE  /\ Agree(WithSample(runs, m), Extended(seen, q))
           /\ Len(Extended(seen, q)) > 0
           /\ Extended(seen, q)[Len(Extended(seen, q))] = q
           /\ Len(Extended(seen, q)) = IF seen # <<>> /\ seen[Len(seen)] = q THEN Len(seen) ELSE Len(seen) + 1
  <1>1. PICK n \in Nat : n = Len(seen) /\ Len(runs) = n
    BY DEF Agree
  <1>2. (runs # <<>> <=> n > 0) /\ (seen # <<>> <=> n > 0)
    BY <1>1
  <1>3. PICK res, ext : res = WithSample(runs, m) /\ ext = Extended(seen, q)
    OBVIOUS
  <1>4. CASE n > 0 /\ seen[n] = q
    <2>1. runs # <<>> /\ runs[Len(runs)].dominant = q
      BY <1>1, <1>2, <1>4 DEF Agree
    <2>2. /\ Len(res) = n
          /\ \A j \in 1 .. n - 1 : res[j] = runs[j]
          /\ res[n] = [dominant |-> q, sum |-> Plus(runs[n].sum, m)]
      BY <1>1, <1>3, <2>1, WithSampleType
    <2>3. ext = seen
      BY <1>1, <1>2, <1>3, <1>4 DEF Extended, Last
    <2>4. PICK s, t : s = runs[n].sum /\ t = Plus(s, m)
      OBVIOUS
    <2>5. s \in [1 .. 4 -> Nat] /\ IsDominant(s, q)
      BY <1>1, <1>4, <2>4 DEF Agree
    <2>6. (\A k \in 1 .. 4 : t[k] \in Nat) /\ IsDominant(t, q)
      <3>1. (\A k \in 1 .. 4 : s[k] \in Nat) /\ \A k \in 1 .. 4 : m[k] \in Nat
        BY <2>5
      <3>. QED  BY <2>4, <2>5, <3>1, SumKeepsDominant
    <2>7. t \in [1 .. 4 -> Nat]
      <3>1. t = [k \in 1 .. 4 |-> t[k]]
        BY <2>4 DEF Plus
      <3>. QED  BY <2>6, <3>1
    <2>8. res[n].dominant = q /\ res[n].sum = t
      BY <2>2, <2>4
    <2>9. ASSUME NEW j \in 1 .. n
          PROVE  /\ res[j].dominant = seen[j] /\ res[j].sum \in [1 .. 4 -> Nat]
                 /\ IsDominant(res[j].sum, seen[j])
      <3>1. CASE j = n
        BY <1>4, <2>6, <2>7, <2>8, <3>1
      <3>2. CASE j # n
        <4>1. j \in 1 .. n - 1
          BY <3>2
        <4>2. res[j] = runs[j]
          BY <2>2, <4>1
        <4>. QED  BY <1>1, <4>2 DEF Agree
      <3>. QED  BY <3>1, <3>2
    <2>10. Agree(res, ext)
      BY <1>1, <2>2, <2>3, <2>9 DEF Agree
    <2>. QED  BY <1>1, <1>2, <1>3, <1>4, <2>3, <2>10
  <1>5. CASE ~ (n > 0 /\ seen[n] = q)
    <2>1. ~ (runs # <<>> /\ runs[Len(runs)].dominant = q)
      BY <1>1, <1>2, <1>5 DEF Agree
    <2>2. PICK t : t = [dominant |-> q, sum |-> m]
      OBVIOUS
    <2>3. res = Append(runs, t)
      BY <1>3, <2>1, <2>2, WithSampleType
    <2>4. ext = Append(seen, q)
      BY <1>1, <1>2, <1>3, <1>5 DEF Extended, Last
    <2>5. Len(res) = n + 1 /\ res[n + 1] = t /\ \A j \in 1 .. n : res[j] = runs[j]
      BY <1>1, <2>3
    <2>6. Len(ext) = n + 1 /\ ext[n + 1] = q /\ \A j \in 1 .. n : ext[j] = seen[j]
      BY <1>1, <2>4
    <2>7. t.dominant = q /\ t.sum = m
      BY <2>2
    <2>8. ASSUME NEW j \in 1 .. n + 1
          PROVE  /\ res[j].dominant = ext[j] /\ res[j].sum \in [1 .. 4 -> Nat]
                 /\ IsDominant(res[j].sum, ext[j])
      <3>1. CASE j = n + 1
        BY <2>5, <2>6, <2>7, <3>1
      <3>2. CASE j # n + 1
        <4>1. j \in 1 .. n
          BY <3>2
        <4>2. res[j] = runs[j] /\ ext[j] = seen[j]
          BY <2>5, <2>6, <4>1
        <4>. QED  BY <1>1, <4>1, <4>2 DEF Agree
      <3>. QED  BY <3>1, <3>2
    <2>9. Agree(res, ext)
      BY <2>5, <2>6, <2>8 DEF Agree
    <2>. QED  BY <1>1, <1>2, <1>3, <1>5, <2>6, <2>9
  <1>. QED  BY <1>4, <1>5

Changes(path, k) == {j \in 1 .. k - 1 : HardQuadrant(path[j]) # HardQuadrant(path[j + 1])}

(* What holds after k samples of a path.                                   *)
Told(path, runs, seen, k) ==
    /\ Agree(runs, seen)
    /\ k > 0 => /\ Len(seen) > 0 /\ seen[Len(seen)] = HardQuadrant(path[k])
                /\ IsFiniteSet(Changes(path, k))
                /\ Cardinality(Changes(path, k)) = Len(seen) - 1

LEMMA ToldStep ==
    ASSUME NEW path, NEW k \in Nat, k > 0, NEW runs \in Seq(RunRecords), NEW seen \in Seq(0 .. 3),
           Told(path, runs, seen, k - 1), k = 1 => seen = <<>>,
           NEW m \in [1 .. 4 -> Nat], NEW q \in 0 .. 3, q = HardQuadrant(path[k]), IsDominant(m, q)
    PROVE  Told(path, WithSample(runs, m), Extended(seen, q), k)
  <1>1. PICK ext, res : ext = Extended(seen, q) /\ res = WithSample(runs, m)
    OBVIOUS
  <1>2. Agree(runs, seen)
    BY DEF Told
  <1>3. /\ Agree(res, ext) /\ Len(ext) > 0 /\ ext[Len(ext)] = q
        /\ Len(ext) = IF seen # <<>> /\ seen[Len(seen)] = q THEN Len(seen) ELSE Len(seen) + 1
    <2>1. /\ Agree(WithSample(runs, m), Extended(seen, q))
          /\ Len(Extended(seen, q)) > 0
          /\ Extended(seen, q)[Len(Extended(seen, q))] = q
          /\ Len(Extended(seen, q)) =
                 IF seen # <<>> /\ seen[Len(seen)] = q THEN Len(seen) ELSE Len(seen) + 1
      BY <1>2, AgreeStep, SMTT(30)
    <2>. QED  BY <1>1, <2>1, Zenon
  <1>4. PICK D : D = Changes(path, k)
    OBVIOUS
  <1>5. IsFiniteSet(D) /\ Cardinality(D) = Len(ext) - 1
    <2>1. CASE k = 1
      <3>1. D = {}
        BY <1>4, <2>1 DEF Changes
      <3>2. Len(ext) = 1
        BY <1>3, <2>1
      <3>3. IsFiniteSet({}) /\ Cardinality({}) = 0
        BY FS_EmptySet
      <3>. QED  BY <3>1, <3>2, <3>3
    <2>2. CASE k # 1
      <3>1. PICK C : C = Changes(path, k - 1)
        OBVIOUS
      <3>0. PICK h \in Nat : h = Len(seen)
        BY LenProperties
      <3>2. /\ h > 0 /\ seen[h] = HardQuadrant(path[k - 1])
            /\ IsFiniteSet(C) /\ Cardinality(C) = h - 1
        BY <2>2, <3>0, <3>1 DEF Told
      <3>3. seen # <<>>
        BY <3>0, <3>2
      <3>4. PICK l \in Nat : l = k - 1 /\ l > 0
        BY <2>2
      <3>5. \A j : j \in 1 .. k - 1 <=> j = l \/ j \in 1 .. l - 1
        BY <3>4
      <3>6. C = {j \in 1 .. l - 1 : HardQuadrant(path[j]) # HardQuadrant(path[j + 1])} /\ l + 1 = k
        BY <3>1, <3>4 DEF Changes
      <3>7. D = {j \in 1 .. k - 1 : HardQuadrant(path[j]) # HardQuadrant(path[j + 1])}
        BY <1>4 DEF Changes
      <3>8. CASE seen[h] = q
        <4>1. HardQuadrant(path[l]) = HardQuadrant(path[l + 1])
          BY <3>2, <3>4, <3>6, <3>8
        <4>2. D = C
          BY <3>5, <3>6, <3>7, <4>1
        <4>3. Len(ext) = h
          BY <1>3, <3>0, <3>3, <3>8
        <4>. QED  BY <3>2, <4>2, <4>3
      <3>9. CASE seen[h] # q
        <4>1. HardQuadrant(path[l]) # HardQuadrant(path[l + 1])
          BY <3>2, <3>4, <3>6, <3>9
        <4>2. l \notin 1 .. l - 1
          BY <3>4
        <4>3. D = C \cup {l} /\ l \notin C
          BY <3>5, <3>6, <3>7, <4>1, <4>2
        <4>4. Len(ext) = h + 1
          BY <1>3, <3>0, <3>3, <3>9
        <4>5. IsFiniteSet(D) /\ Cardinality(D) = Cardinality(C) + 1
          BY <3>2, <4>3, FS_AddElement
        <4>. QED  BY <3>0, <3>2, <4>4, <4>5
      <3>. QED  BY <3>8, <3>9
    <2>. QED  BY <2>1, <2>2
  <1>. QED  BY <1>1, <1>3, <1>4, <1>5 DEF Told

(* Compressed into runs, the memberships along a path tell the quadrants   *)
(* it visits, and the changes between samples are one less.                *)
LEMMA PathQuadrants ==
    ASSUME NEW path \in Seq(Point), Len(path) > 0
    PROVE  /\ Visited(path) \in Seq(0 .. 3) /\ Len(Visited(path)) > 0
           /\ DOMAIN CompressIntoSegments(AlongPath(path)) = DOMAIN Visited(path)
           /\ \A k \in DOMAIN Visited(path) :
                  DominantQuadrant(CompressIntoSegments(AlongPath(path))[k]) = Visited(path)[k]
           /\ CountQuadrantTransitions(AlongPath(path)) = Len(Visited(path)) - 1
  <1>0. PICK n \in Nat : n = Len(path) /\ n > 0
    OBVIOUS
  <1>1. PICK ms : n = Len(path) /\ n > 0 /\ ms = AlongPath(path)
    BY <1>0
  <1>2. /\ Len(ms) = n
        /\ \A k \in 1 .. n : /\ ms[k] \in [1 .. 4 -> Nat]
                             /\ DominantQuadrantIndex(ms[k]) = HardQuadrant(path[k])
                             /\ IsDominant(ms[k], HardQuadrant(path[k]))
                             /\ HardQuadrant(path[k]) \in 0 .. 3
    BY <1>1, AlongPathIs
  <1>3. PICK f \in [0 .. n -> Seq(RunRecords)] :
              /\ f[0] = <<>>
              /\ \A k \in 1 .. n : f[k] = WithSample(f[k - 1], ms[k])
              /\ RunsOfSamples(ms) = f[n]
    BY <1>1, RunsSteps
  <1>4. PICK g \in [0 .. n -> Seq(0 .. 3)] :
              /\ g[0] = <<>>
              /\ \A k \in 1 .. n : g[k] = Extended(g[k - 1], HardQuadrant(path[k]))
              /\ Visited(path) = g[n]
    BY <1>1, VisitedSteps
  <1>. DEFINE T == {k \in 0 .. n : Told(path, f[k], g[k], k)}
  <1>5. 0 \in T
    <2>1. Told(path, <<>>, <<>>, 0)
      BY DEF Agree, Told
    <2>. QED  BY <1>3, <1>4, <2>1
  <1>6. ASSUME NEW k \in 1 .. n, k - 1 \in T
        PROVE  k \in T
    <2>1. PICK runs \in Seq(RunRecords), seen \in Seq(0 .. 3), m \in [1 .. 4 -> Nat], q \in 0 .. 3 :
              /\ runs = f[k - 1] /\ seen = g[k - 1] /\ m = ms[k] /\ q = HardQuadrant(path[k])
      <3>1. k - 1 \in 0 .. n
        OBVIOUS
      <3>2. f[k - 1] \in Seq(RunRecords) /\ g[k - 1] \in Seq(0 .. 3)
        BY <1>3, <1>4, <3>1
      <3>. QED  BY <1>2, <3>2
    <2>2. Told(path, runs, seen, k - 1) /\ IsDominant(m, q) /\ k \in Nat /\ k > 0
      BY <1>2, <1>6, <2>1, SMTT(20)
    <2>3. k = 1 => seen = <<>>
      BY <1>4, <2>1
    <2>4. f[k] = WithSample(runs, m) /\ g[k] = Extended(seen, q)
      BY <1>3, <1>4, <2>1
    <2>5. Told(path, WithSample(runs, m), Extended(seen, q), k)
      BY <2>1, <2>2, <2>3, ToldStep
    <2>. QED  BY <2>4, <2>5
  <1>7. Told(path, f[n], g[n], n)
    <2>1. \A k \in 1 .. n : k - 1 \in T => k \in T
      BY <1>6
    <2>. HIDE DEF T
    <2>2. 0 .. n \subseteq T
      BY <1>1, <1>5, <2>1, UpTo
    <2>3. n \in T
      BY <1>1, <2>2
    <2>. QED  BY <2>3 DEF T
  <1>8. PICK runs \in Seq(RunRecords), vis \in Seq(0 .. 3) : runs = f[n] /\ vis = g[n]
    OBVIOUS
  <1>9. Agree(runs, vis) /\ Len(vis) > 0 /\ Cardinality(Changes(path, n)) = Len(vis) - 1
    BY <1>1, <1>7, <1>8 DEF Told
  <1>. HIDE DEF T
  <1>10. CountQuadrantTransitions(ms) = Len(vis) - 1
    <2>1. {k \in 1 .. Len(ms) - 1 : DominantQuadrantIndex(ms[k]) # DominantQuadrantIndex(ms[k + 1])}
             = Changes(path, n)
      <3>1. \A k \in 1 .. n - 1 : k \in 1 .. n /\ k + 1 \in 1 .. n
        OBVIOUS
      <3>2. \A k \in 1 .. n - 1 : /\ DominantQuadrantIndex(ms[k]) = HardQuadrant(path[k])
                                  /\ DominantQuadrantIndex(ms[k + 1]) = HardQuadrant(path[k + 1])
        BY <1>2, <3>1
      <3>. QED  BY <1>2, <3>2 DEF Changes
    <2>. QED  BY <1>9, <2>1 DEF CountQuadrantTransitions
  <1>11. PICK segs : segs = CompressIntoSegments(ms)
    OBVIOUS
  <1>12. segs = [k \in DOMAIN runs |-> runs[k].sum]
    BY <1>3, <1>8, <1>11 DEF CompressIntoSegments
  <1>13. DOMAIN vis = 1 .. Len(vis) /\ DOMAIN runs = 1 .. Len(vis)
    BY <1>9 DEF Agree
  <1>14. \A k \in DOMAIN vis : DominantQuadrant(segs[k]) = vis[k]
    <2>. TAKE k \in DOMAIN vis
    <2>1. segs[k] = runs[k].sum /\ segs[k] \in [1 .. 4 -> Nat] /\ IsDominant(segs[k], vis[k])
      BY <1>9, <1>12, <1>13 DEF Agree
    <2>. QED  BY <2>1, DominantIs
  <1>. QED  BY <1>1, <1>4, <1>8, <1>9, <1>10, <1>11, <1>12, <1>13, <1>14

-------------------------------------------------------------------------------
(* A path stays on the grid: between the ends of a segment it is between   *)
(* them or clamped.                                                        *)
LEMMA QuotientBetween ==
    ASSUME NEW n \in Int, NEW d \in Nat, d > 0, NEW lo \in Int, NEW hi \in Int,
           d * lo <= n, n <= d * hi
    PROVE  (n \div d) \in lo .. hi
  <1>1. PICK q \in Int, r \in 0 .. d - 1 : q = n \div d /\ n = d * q + r
    BY FloorDivision
  <1>2. lo <= q
    <2>. SUFFICES ASSUME q + 1 <= lo PROVE FALSE
      BY <1>1
    <2>1. PICK x \in Nat : lo = q + 1 + x
      <3>1. lo - (q + 1) \in Nat /\ lo = q + 1 + (lo - (q + 1))
        BY <1>1
      <3>. QED  BY <3>1
    <2>2. PICK a \in Int, b \in Nat : a = d * q /\ b = d * x
      BY <1>1
    <2>3. d * lo = a + d + b
      BY <1>1, <2>1, <2>2
    <2>. QED  BY <1>1, <2>2, <2>3
  <1>3. q <= hi
    <2>. SUFFICES ASSUME hi + 1 <= q PROVE FALSE
      BY <1>1
    <2>1. PICK x \in Nat : q = hi + 1 + x
      <3>1. q - (hi + 1) \in Nat /\ q = hi + 1 + (q - (hi + 1))
        BY <1>1
      <3>. QED  BY <3>1
    <2>2. PICK a \in Int, b \in Nat : a = d * hi /\ b = d * x
      BY <1>1
    <2>3. d * q = a + d + b
      BY <1>1, <2>1, <2>2
    <2>. QED  BY <1>1, <2>2, <2>3
  <1>. QED  BY <1>1, <1>2, <1>3

LEMMA StraightBetween ==
    ASSUME NEW a \in -Unit .. Unit, NEW b \in -Unit .. Unit, NEW step \in 1 .. SamplesPerEvent
    PROVE  /\ a + ((b - a) * step) \div SamplesPerEvent \in -Unit .. Unit
           /\ step = SamplesPerEvent => a + ((b - a) * step) \div SamplesPerEvent = b
  <1>1. PICK u \in Nat, S \in Nat : u = Unit /\ S = SamplesPerEvent /\ S > 0
    BY GridAssumption, SamplesAssumption
  <1>2. a \in Int /\ b \in Int /\ step \in Nat /\ step <= S /\ -u <= a /\ a <= u /\ -u <= b /\ b <= u
    BY <1>1
  <1>0. PICK n \in Int : n = (b - a) * step
    BY <1>2
  <1>3. PICK q : n = (b - a) * step /\ q = n \div S
    BY <1>0
  <1>4. CASE a <= b
    <2>1. PICK x \in Nat : x = b - a
      BY <1>2, <1>4
    <2>2. n = x * step /\ x * step <= x * S /\ x * step \in Nat
      BY <1>1, <1>2, <1>3, <2>1, Products
    <2>3. S * 0 <= n /\ n <= S * x
      BY <1>1, <1>3, <2>1, <2>2
    <2>4. q \in 0 .. x
      BY <1>1, <1>3, <2>1, <2>3, QuotientBetween
    <2>5. step = S => S * x <= n
      BY <1>1, <2>1, <2>2
    <2>6. step = S => q \in x .. x
      BY <1>1, <1>3, <2>1, <2>3, <2>5, QuotientBetween
    <2>. QED  BY <1>1, <1>2, <1>3, <2>1, <2>4, <2>6
  <1>5. CASE b < a
    <2>1. PICK x \in Nat : x = a - b
      BY <1>2, <1>5
    <2>2. PICK y \in Nat : y = x * step /\ y <= x * S
      BY <1>1, <1>2, <2>1, Products
    <2>3. n = -y
      <3>1. b - a = -x
        BY <1>2, <2>1
      <3>2. (-x) * step = -(x * step)
        BY <1>2, <2>1
      <3>. QED  BY <1>3, <2>2, <3>1, <3>2
    <2>4. S * (-x) <= n /\ n <= S * 0
      <3>1. S * (-x) = -(x * S)
        BY <1>1, <2>1
      <3>. QED  BY <1>1, <2>2, <2>3, <3>1
    <2>5. q \in -x .. 0
      <3>1. -x \in Int /\ 0 \in Int
        BY <2>1
      <3>. QED  BY <1>1, <1>3, <2>4, <3>1, QuotientBetween
    <2>6. step = S => q \in -x .. -x
      <3>. SUFFICES ASSUME step = S PROVE q \in -x .. -x
        OBVIOUS
      <3>1. n <= S * (-x) /\ -x \in Int
        <4>1. S * (-x) = -(x * S)
          BY <1>1, <2>1
        <4>. QED  BY <1>1, <2>1, <2>2, <2>3, <4>1
      <3>. QED  BY <1>1, <1>3, <2>4, <3>1, QuotientBetween
    <2>. QED  BY <1>1, <1>2, <1>3, <2>1, <2>5, <2>6
  <1>. QED  BY <1>2, <1>4, <1>5

LEMMA ClampType ==
    ASSUME NEW v \in Int
    PROVE  Clamp(v) \in -Unit .. Unit
  <1>1. PICK u \in Nat : u = Unit
    BY GridAssumption
  <1>2. PICK m : m = Min({u, v})
    OBVIOUS
  <1>3. m \in {u, v} /\ m <= u /\ m \in Int
    <2>1. u \in Int /\ v \in Int
      BY <1>1
    <2>2. Min({u, v}) \in {u, v} /\ Min({u, v}) <= u
      BY <2>1, MinOfTwo
    <2>. QED  BY <1>2, <2>1, <2>2
  <1>4. PICK x : x = Max({-u, m})
    OBVIOUS
  <1>5. \E y \in {-u, m} : \A z \in {-u, m} : y >= z
    <2>1. CASE m >= -u
      BY <1>3, <2>1
    <2>2. CASE ~ (m >= -u)
      BY <1>3, <2>2
    <2>. QED  BY <2>1, <2>2
  <1>6. x \in {-u, m} /\ \A z \in {-u, m} : x >= z
    BY <1>4, <1>5 DEF Max
  <1>7. x \in -u .. u
    BY <1>1, <1>3, <1>6
  <1>. QED  BY <1>1, <1>2, <1>4, <1>7 DEF Clamp

LEMMA InterpolateOnGrid ==
    ASSUME NEW a \in Point, NEW b \in Point, NEW step \in 1 .. SamplesPerEvent, NEW bend \in Int
    PROVE  /\ Interpolate(a, b, step, bend) \in Point
           /\ step = SamplesPerEvent => Interpolate(a, b, step, bend) = b
  <1>1. PICK x \in -Unit .. Unit, y \in -Unit .. Unit, v \in -Unit .. Unit, w \in -Unit .. Unit :
            a = <<x, y>> /\ b = <<v, w>>
    BY DEF Point
  <1>2. PICK p, q : /\ p = x + ((v - x) * step) \div SamplesPerEvent
                    /\ q = y + ((w - y) * step) \div SamplesPerEvent
    OBVIOUS
  <1>3. /\ p \in -Unit .. Unit /\ q \in -Unit .. Unit
        /\ step = SamplesPerEvent => p = v /\ q = w
    BY <1>2, StraightBetween
  <1>4. p \in Int /\ q \in Int
    BY <1>3, GridAssumption
  <1>5. PICK f \in Int, g \in Int : f = - Sign(w - y) /\ g = Sign(v - x)
    BY GridAssumption DEF Sign
  <1>6. PICK res : res = Interpolate(a, b, step, bend)
    OBVIOUS
  <1>7. res = IF bend = 0 \/ step = SamplesPerEvent THEN <<p, q>>
              ELSE <<Clamp(p + bend * f), Clamp(q + bend * g)>>
    BY <1>1, <1>2, <1>5, <1>6 DEF Interpolate
  <1>8. bend * f \in Int /\ bend * g \in Int
    BY <1>5
  <1>9. Clamp(p + bend * f) \in -Unit .. Unit /\ Clamp(q + bend * g) \in -Unit .. Unit
    BY <1>4, <1>8, ClampType
  <1>10. res \in Point
    BY <1>3, <1>7, <1>9 DEF Point
  <1>. QED  BY <1>1, <1>3, <1>6, <1>7, <1>10

LEMMA PathOnGrid ==
    ASSUME NEW n \in Nat, NEW ends \in [0 .. n -> Point], NEW complexity \in Int
    PROVE  /\ TrajectoryPoints(ends, complexity) \in Seq(Point)
           /\ Len(TrajectoryPoints(ends, complexity)) = 1 + n * SamplesPerEvent
  <1>1. Cardinality(DOMAIN ends) - 1 = n
    <2>1. 0 \in Int /\ n \in Int
      OBVIOUS
    <2>2. Cardinality(0 .. n) = IF 0 > n THEN 0 ELSE n - 0 + 1
      BY <2>1, FS_Interval
    <2>. QED  BY <2>2
  <1>2. PICK S \in Nat, m \in Nat : S = SamplesPerEvent /\ S > 0 /\ m = n * S
    <2>1. PICK S \in Nat : S = SamplesPerEvent /\ S > 0
      BY SamplesAssumption
    <2>2. n * S \in Nat
      OBVIOUS
    <2>. QED  BY <2>1, <2>2
  <1>3. PICK path : path = TrajectoryPoints(ends, complexity)
    OBVIOUS
  <1>4. PICK bend \in Int : bend = Bend(complexity)
    <2>1. PICK u \in Nat : u = Unit
      BY GridAssumption
    <2>2. PICK t \in Int : t = (complexity - 1) * u
      OBVIOUS
    <2>3. t * 12 \in Int /\ 96 \in Nat /\ 96 > 0
      OBVIOUS
    <2>4. (t * 12) \div 96 \in Int
      BY <2>3, FloorDivision
    <2>. QED  BY <2>1, <2>2, <2>4 DEF Bend
  <1>. DEFINE seg(i) == (i - 2) \div S
              off(i) == ((i - 2) % S) + 1
              side(k) == IF k % 2 = 0 THEN 1 ELSE -1
  <1>5. path = [i \in 1 .. 1 + m |->
                  IF i = 1 THEN ends[0]
                  ELSE Interpolate(ends[seg(i)], ends[seg(i) + 1], off(i), side(seg(i)) * bend)]
    BY <1>1, <1>2, <1>3, <1>4 DEF TrajectoryPoints
  <1>6. ASSUME NEW i \in 1 .. 1 + m, i # 1
        PROVE  seg(i) \in 0 .. n - 1 /\ off(i) \in 1 .. S
    <2>1. PICK j \in Nat : j = i - 2 /\ j < m
      BY <1>2, <1>6
    <2>2. PICK q \in Int, r \in 0 .. S - 1 : q = j \div S /\ r = j % S /\ j = S * q + r
      BY <1>2, <2>1, FloorDivision
    <2>3. q >= 0
      <3>. SUFFICES ASSUME q < 0 PROVE FALSE
        BY <2>2
      <3>1. PICK x \in Nat : q = -1 - x
        <4>1. -1 - q \in Nat /\ q = -1 - (-1 - q)
          BY <2>2
        <4>. QED  BY <4>1
      <3>2. PICK y \in Nat : y = S * x
        BY <1>2
      <3>3. S * q = -S - y
        BY <1>2, <3>1, <3>2
      <3>. QED  BY <1>2, <2>1, <2>2, <3>2, <3>3
    <2>4. q < n
      <3>. SUFFICES ASSUME n <= q PROVE FALSE
        BY <2>2
      <3>1. n * S <= q * S /\ q * S \in Nat
        BY <1>2, <2>2, <2>3, Products
      <3>2. q * S = S * q
        BY <1>2, <2>2
      <3>. QED  BY <1>2, <2>1, <2>2, <3>1, <3>2
    <2>. QED  BY <1>2, <2>1, <2>2, <2>3, <2>4
  <1>7. \A k : side(k) \in Int
    OBVIOUS
  <1>. HIDE DEF seg, off, side
  <1>8. \A i \in 1 .. 1 + m : path[i] \in Point
    <2>. TAKE i \in 1 .. 1 + m
    <2>1. CASE i = 1
      <3>1. path[i] = ends[0] /\ 0 \in 0 .. n
        BY <1>5, <2>1
      <3>. QED  BY <3>1
    <2>2. CASE i # 1
      <3>1. PICK k, o, b : k = seg(i) /\ o = off(i) /\ b = side(k) * bend
        OBVIOUS
      <3>2. k \in 0 .. n - 1 /\ o \in 1 .. S
        BY <1>6, <2>2, <3>1
      <3>3. ends[k] \in Point /\ ends[k + 1] \in Point
        BY <3>2
      <3>4. b \in Int
        <4>1. PICK s \in Int : s = side(k)
          BY <1>7
        <4>2. s * bend \in Int
          BY <1>4
        <4>. QED  BY <3>1, <4>1, <4>2
      <3>5. path[i] = Interpolate(ends[k], ends[k + 1], o, b)
        BY <1>5, <2>2, <3>1
      <3>6. Interpolate(ends[k], ends[k + 1], o, b) \in Point
        BY <1>2, <3>2, <3>3, <3>4, InterpolateOnGrid
      <3>. QED  BY <3>5, <3>6
    <2>. QED  BY <2>1, <2>2
  <1>9. path \in Seq(Point) /\ Len(path) = 1 + m
    <2>1. path = [i \in 1 .. 1 + m |-> path[i]]
      BY <1>5
    <2>0. PICK l \in Nat : l = 1 + m
      BY <1>2
    <2>2. PICK P : l = 1 + m /\ P = Point
      BY <2>0
    <2>3. path \in [1 .. l -> P]
      BY <1>8, <2>1, <2>2
    <2>. QED  BY <2>2, <2>3
  <1>. QED  BY <1>2, <1>3, <1>9

-------------------------------------------------------------------------------
(* The least of a set of numbers. *)
LEMMA Minimum ==
    ASSUME NEW T, T \subseteq Nat, T # {}
    PROVE  /\ Min(T) \in T /\ \A k \in T : Min(T) <= k
           /\ \A m \in T : (\A k \in T : m <= k) => Min(T) = m
  <1>1. PICK m \in T : \A k \in T : m <= k
    BY Least
  <1>2. PICK l : l = Min(T)
    OBVIOUS
  <1>3. l \in T /\ \A k \in T : l <= k
    BY <1>1, <1>2 DEF Min
  <1>4. ASSUME NEW i \in T, \A k \in T : i <= k PROVE l = i
    <2>1. l <= i /\ i <= l /\ l \in Nat /\ i \in Nat
      BY <1>3, <1>4
    <2>. QED  BY <2>1
  <1>. QED  BY <1>2, <1>3, <1>4

(* No two identities have the same class value, nor the same rank, nor the *)
(* same name.                                                              *)
LEMMA ClassValues ==
    ASSUME NEW p \in ShapeColorPairs, NEW q \in ShapeColorPairs
    PROVE  ClassValue(p) \in Nat /\ (ClassValue(p) = ClassValue(q) => p = q)
  <1>1. PICK a \in 1 .. 6, b \in 1 .. 6 : p = <<a, b>>
    BY DEF ShapeColorPairs, ShapeTypePalette, ColorPalette
  <1>2. PICK c \in 1 .. 6, d \in 1 .. 6 : q = <<c, d>>
    BY DEF ShapeColorPairs, ShapeTypePalette, ColorPalette
  <1>3. PICK u : u = ColorBitCodePalette
    OBVIOUS
  <1>4. u[1] = 4 /\ u[2] = 2 /\ u[3] = 1 /\ u[4] = 6 /\ u[5] = 5 /\ u[6] = 3
    BY <1>3 DEF ColorBitCodePalette
  <1>5. /\ u[b] \in 1 .. 6 /\ u[d] \in 1 .. 6 /\ (u[b] = u[d] => b = d)
    <2>1. b \in {1, 2, 3, 4, 5, 6} /\ d \in {1, 2, 3, 4, 5, 6}
      OBVIOUS
    <2>. QED  BY <1>4, <2>1
  <1>6. ClassValue(p) = a * 8 + u[b] /\ ClassValue(q) = c * 8 + u[d]
    BY <1>1, <1>2, <1>3 DEF ClassValue
  <1>7. ASSUME a * 8 + u[b] = c * 8 + u[d] PROVE a = c /\ b = d
    BY <1>5, <1>7
  <1>. QED  BY <1>1, <1>2, <1>5, <1>6, <1>7

LEMMA ClassRanks ==
    ASSUME NEW p \in ShapeColorPairs, NEW q \in ShapeColorPairs
    PROVE  ClassRank(p) \in Nat /\ (ClassRank(p) = ClassRank(q) => p = q)
  <1>. DEFINE Smaller(r) == {t \in ShapeColorPairs : ClassValue(t) < ClassValue(r)}
  <1>1. IsFiniteSet(ShapeColorPairs)
    <2>1. IsFiniteSet(1 .. Len(ShapeTypePalette)) /\ IsFiniteSet(1 .. Len(ColorPalette))
      <3>1. Len(ShapeTypePalette) = 6 /\ Len(ColorPalette) = 6 /\ 1 \in Int /\ 6 \in Int
        BY DEF ShapeTypePalette, ColorPalette
      <3>2. IsFiniteSet(1 .. 6)
        BY <3>1, FS_Interval
      <3>. QED  BY <3>1, <3>2
    <2>. QED  BY <2>1, FS_Product DEF ShapeColorPairs
  <1>2. ASSUME NEW r \in ShapeColorPairs
        PROVE  ClassRank(r) = Cardinality(Smaller(r)) /\ IsFiniteSet(Smaller(r)) /\ ClassRank(r) \in Nat
    <2>1. Smaller(r) \subseteq ShapeColorPairs /\ ClassRank(r) = Cardinality(Smaller(r))
      BY DEF ClassRank
    <2>. HIDE DEF Smaller
    <2>. QED  BY <1>1, <2>1, FS_Subset, FS_CardinalityType
  <1>3. ASSUME NEW r \in ShapeColorPairs, NEW t \in ShapeColorPairs, ClassValue(r) < ClassValue(t)
        PROVE  ClassRank(r) # ClassRank(t)
    <2>1. PICK v, w : v = Smaller(r) /\ w = Smaller(t)
      OBVIOUS
    <2>2. ASSUME NEW x \in v PROVE x \in w
      <3>1. x \in ShapeColorPairs /\ ClassValue(x) < ClassValue(r)
        BY <2>1
      <3>2. ClassValue(x) \in Nat /\ ClassValue(r) \in Nat /\ ClassValue(t) \in Nat
        BY <3>1, ClassValues
      <3>3. ClassValue(x) < ClassValue(t)
        BY <1>3, <3>1, <3>2
      <3>. QED  BY <2>1, <3>1, <3>3
    <2>3. r \in w /\ r \notin v
      <3>1. ClassValue(r) \in Nat
        BY ClassValues
      <3>. QED  BY <1>3, <2>1, <3>1
    <2>4. IsFiniteSet(w) /\ v \subseteq w /\ v # w
      BY <1>2, <2>1, <2>2, <2>3
    <2>5. Cardinality(v) # Cardinality(w)
      BY <2>4, FS_Subset
    <2>. QED  BY <1>2, <2>1, <2>5
  <1>4. ASSUME ClassRank(p) = ClassRank(q) PROVE p = q
    <2>1. ClassValue(p) \in Nat /\ ClassValue(q) \in Nat
      BY ClassValues
    <2>2. ~(ClassValue(p) < ClassValue(q)) /\ ~(ClassValue(q) < ClassValue(p))
      BY <1>3, <1>4
    <2>3. ClassValue(p) = ClassValue(q)
      BY <2>1, <2>2
    <2>. QED  BY <2>3, ClassValues
  <1>. QED  BY <1>2, <1>4

LEMMA ShapeIds ==
    ASSUME NEW p \in ShapeColorPairs, NEW q \in ShapeColorPairs, ShapeId(p) = ShapeId(q)
    PROVE  p = q
  <1>1. PICK a \in {1, 2, 3, 4, 5, 6}, b \in {1, 2, 3, 4, 5, 6} : p = <<a, b>>
    BY DEF ShapeColorPairs, ShapeTypePalette, ColorPalette
  <1>2. PICK c \in {1, 2, 3, 4, 5, 6}, d \in {1, 2, 3, 4, 5, 6} : q = <<c, d>>
    BY DEF ShapeColorPairs, ShapeTypePalette, ColorPalette
  <1>3. ShapeTypePalette[a] = ShapeTypePalette[c] /\ ColorPalette[b] = ColorPalette[d]
    BY <1>1, <1>2 DEF ShapeId
  <1>4. a = c
    BY <1>3 DEF ShapeTypePalette
  <1>5. b = d
    BY <1>3 DEF ColorPalette
  <1>. QED  BY <1>1, <1>2, <1>4, <1>5

-------------------------------------------------------------------------------
(* The longest motion.  Both loops over the events, the target's and the   *)
(* server's, change the best so far in the same way.                       *)
Bests == [distance : Int, rank : Int]

Improved(best, d, r, new) ==
    /\ d > best.distance => new.distance = d /\ new.rank = r
    /\ d = best.distance /\ r < best.rank => new.distance = d /\ new.rank = r
    /\ d < best.distance \/ (d = best.distance /\ best.rank <= r) => new = best

(* The best of the first k of the distances d with the ranks r. *)
BestOf(d, r, k, best) ==
    /\ k > 0 => \E j \in 1 .. k : best.distance = d[j] /\ best.rank = r[j]
    /\ \A j \in 1 .. k : d[j] < best.distance \/ (d[j] = best.distance /\ best.rank <= r[j])

LEMMA BestOfMore ==
    ASSUME NEW n \in Nat, NEW d \in [1 .. n -> Nat], NEW r \in [1 .. n -> Nat],
           NEW k \in 1 .. n, NEW best \in Bests, NEW new \in Bests,
           k = 1 => best.distance = -1,
           BestOf(d, r, k - 1, best), Improved(best, d[k], r[k], new)
    PROVE  BestOf(d, r, k, new)
  <1>1. PICK x \in Int, p \in Int : x = best.distance /\ p = best.rank
    BY DEF Bests
  <1>2. PICK y \in Int, q \in Int : y = new.distance /\ q = new.rank
    BY DEF Bests
  <1>3. PICK dk \in Nat, rk \in Nat : dk = d[k] /\ rk = r[k]
    OBVIOUS
  <1>4. \A j \in 1 .. k : j = k \/ j \in 1 .. k - 1
    OBVIOUS
  <1>5. \A j \in 1 .. k - 1 : d[j] \in Nat /\ r[j] \in Nat /\ (d[j] < x \/ (d[j] = x /\ p <= r[j]))
    BY <1>1 DEF BestOf
  <1>6. CASE dk > x \/ (dk = x /\ rk < p)
    <2>1. y = dk /\ q = rk
      BY <1>1, <1>2, <1>3, <1>6 DEF Improved
    <2>2. ASSUME NEW j \in 1 .. k PROVE d[j] < y \/ (d[j] = y /\ q <= r[j])
      <3>1. CASE j = k
        BY <1>3, <2>1, <3>1
      <3>2. CASE j # k
        <4>1. d[j] \in Nat /\ r[j] \in Nat /\ (d[j] < x \/ (d[j] = x /\ p <= r[j]))
          BY <1>4, <1>5, <3>2
        <4>. QED  BY <1>3, <1>6, <2>1, <4>1
      <3>. QED  BY <3>1, <3>2
    <2>3. \E j \in 1 .. k : y = d[j] /\ q = r[j]
      BY <1>3, <2>1
    <2>. QED  BY <1>2, <2>2, <2>3 DEF BestOf
  <1>7. CASE dk < x \/ (dk = x /\ p <= rk)
    <2>1. y = x /\ q = p
      BY <1>1, <1>2, <1>3, <1>7 DEF Improved
    <2>2. k # 1
      BY <1>1, <1>3, <1>7
    <2>3. k - 1 > 0
      BY <2>2
    <2>4. PICK j \in 1 .. k - 1 : x = d[j] /\ p = r[j]
      BY <1>1, <2>3 DEF BestOf
    <2>5. \E i \in 1 .. k : y = d[i] /\ q = r[i]
      <3>1. j \in 1 .. k /\ y = d[j] /\ q = r[j]
        BY <2>1, <2>4
      <3>. QED  BY <3>1
    <2>6. ASSUME NEW i \in 1 .. k PROVE d[i] < y \/ (d[i] = y /\ q <= r[i])
      <3>1. CASE i = k
        BY <1>3, <1>7, <2>1, <3>1
      <3>2. CASE i # k
        BY <1>4, <1>5, <2>1, <3>2
      <3>. QED  BY <3>1, <3>2
    <2>. QED  BY <1>2, <2>5, <2>6 DEF BestOf
  <1>. QED  BY <1>1, <1>3, <1>6, <1>7

LEMMA BestOfAll ==
    ASSUME NEW n \in Nat, NEW d \in [1 .. n -> Nat], NEW r \in [1 .. n -> Nat],
           NEW f \in [0 .. n -> Bests], f[0].distance = -1,
           \A k \in 1 .. n : Improved(f[k - 1], d[k], r[k], f[k])
    PROVE  BestOf(d, r, n, f[n])
  <1>. DEFINE T == {k \in 0 .. n : BestOf(d, r, k, f[k])}
  <1>1. 0 \in T
    BY DEF BestOf
  <1>2. ASSUME NEW k \in 1 .. n, k - 1 \in T PROVE k \in T
    <2>1. PICK b \in Bests, c \in Bests : b = f[k - 1] /\ c = f[k]
      OBVIOUS
    <2>2. BestOf(d, r, k - 1, b) /\ Improved(b, d[k], r[k], c)
      BY <1>2, <2>1
    <2>3. k = 1 => b.distance = -1
      BY <2>1
    <2>4. BestOf(d, r, k, c)
      BY <2>2, <2>3, BestOfMore
    <2>. QED  BY <2>1, <2>4
  <1>3. \A k \in 1 .. n : k - 1 \in T => k \in T
    BY <1>2
  <1>. HIDE DEF T
  <1>4. 0 .. n \subseteq T
    BY <1>1, <1>3, UpTo
  <1>5. n \in T
    BY <1>4
  <1>. QED  BY <1>5 DEF T

(* What the loops need of a scene: events whose length and rank are        *)
(* numbers.                                                                *)
Moving(s) ==
    /\ Len(s.motion_events) \in Nat
    /\ FallbackRank(s) \in Nat
    /\ \A k \in 1 .. Len(s.motion_events) :
           Squared(s.motion_events[k]) \in Nat /\ RankOf(s, s.motion_events[k]) \in Nat

LEMMA Improvements ==
    ASSUME NEW s, Moving(s), NEW k \in 1 .. Len(s.motion_events), NEW best \in Bests
    PROVE  LET e == s.motion_events[k]
           IN  /\ Larger(s, best, e) \in Bests /\ Improved(best, Squared(e), RankOf(s, e), Larger(s, best, e))
               /\ Better(s, best, e) \in Bests /\ Improved(best, Squared(e), RankOf(s, e), Better(s, best, e))
  <1>1. PICK e : e = s.motion_events[k] /\ Squared(e) \in Nat /\ RankOf(s, e) \in Nat
    BY DEF Moving
  <1>0. PICK d \in Nat, r \in Nat : d = Squared(e) /\ r = RankOf(s, e)
    BY <1>1
  <1>2. PICK x \in Int, p \in Int : best = [distance |-> x, rank |-> p]
    BY DEF Bests
  <1>3. PICK l, b : l = Larger(s, best, e) /\ b = Better(s, best, e)
    OBVIOUS
  <1>4. l \in Bests /\ Improved(best, d, r, l)
    <2>1. l = IF d > x THEN [distance |-> d, rank |-> r]
              ELSE IF d = x /\ r < p THEN [distance |-> x, rank |-> r] ELSE best
      BY <1>0, <1>2, <1>3 DEF Larger
    <2>. QED  BY <1>2, <2>1 DEF Bests, Improved
  <1>5. b \in Bests /\ Improved(best, d, r, b)
    <2>1. PICK m \in Int : m = Min({p, r}) /\ m \in {p, r} /\ m <= p /\ m <= r
      <3>1. PICK m : m = Min({p, r})
        OBVIOUS
      <3>2. m \in {p, r} /\ m <= p /\ m <= r
        BY <3>1, MinOfTwo
      <3>. QED  BY <3>1, <3>2
    <2>2. b = IF d > x THEN [distance |-> d, rank |-> r]
              ELSE IF d = x THEN [distance |-> x, rank |-> m] ELSE best
      <3>1. CASE d > x
        <4>1. b = [distance |-> d, rank |-> r]
          BY <1>0, <1>2, <1>3, <3>1 DEF Better
        <4>. QED  BY <3>1, <4>1
      <3>2. CASE d = x
        <4>1. ~(Squared(e) > best.distance) /\ Squared(e) = best.distance /\ best.rank = p
          BY <1>0, <1>2, <3>2
        <4>2. b = [best EXCEPT !.rank = Min({@, RankOf(s, e)})]
          BY <1>3, <4>1, Zenon DEF Better
        <4>3. b = [best EXCEPT !.rank = m]
          BY <1>0, <2>1, <4>1, <4>2
        <4>. QED  BY <1>2, <3>2, <4>3
      <3>3. CASE ~(d > x) /\ d # x
        <4>1. ~(Squared(e) > best.distance) /\ ~(Squared(e) = best.distance)
          BY <1>0, <1>2, <3>3
        <4>2. b = best
          BY <1>3, <4>1, Zenon DEF Better
        <4>. QED  BY <3>3, <4>2
      <3>. QED  BY <3>1, <3>2, <3>3
    <2>3. CASE d > x
      <3>1. b = [distance |-> d, rank |-> r]
        BY <2>2, <2>3
      <3>. QED  BY <1>2, <2>3, <3>1 DEF Bests, Improved
    <2>4. CASE d = x
      <3>1. b = [distance |-> x, rank |-> m]
        BY <2>2, <2>4
      <3>2. b \in Bests
        BY <3>1 DEF Bests
      <3>3. r < p => m = r
        BY <2>1
      <3>4. p <= r => m = p
        BY <2>1
      <3>. QED  BY <1>2, <2>4, <3>1, <3>2, <3>3, <3>4 DEF Improved
    <2>5. CASE d < x
      <3>1. b = best
        BY <2>2, <2>5
      <3>. QED  BY <1>2, <2>5, <3>1 DEF Improved
    <2>. QED  BY <2>3, <2>4, <2>5
  <1>. QED  BY <1>0, <1>1, <1>3, <1>4, <1>5

(* The loops run to the end.  Both find the same: the largest distance and *)
(* the least rank at that distance.                                        *)
LEMMA LargestIs ==
    ASSUME NEW s, Moving(s)
    PROVE  \E best : /\ LargestMotionRank(s) = best.rank
                     /\ BestOf([k \in 1 .. Len(s.motion_events) |-> Squared(s.motion_events[k])],
                               [k \in 1 .. Len(s.motion_events) |-> RankOf(s, s.motion_events[k])],
                               Len(s.motion_events), best)
  <1>0. PICK n \in Nat : n = Len(s.motion_events)
    BY DEF Moving
  <1>1. PICK ev, D, b0 : /\ n = Len(s.motion_events) /\ ev = s.motion_events /\ D = Bests
                         /\ b0 = [distance |-> -1, rank |-> FallbackRank(s)]
    BY <1>0
  <1>2. b0 \in D /\ b0.distance = -1
    BY <1>1 DEF Moving, Bests
  <1>3. PICK d, r : d = [k \in 1 .. n |-> Squared(ev[k])] /\ r = [k \in 1 .. n |-> RankOf(s, ev[k])]
    OBVIOUS
  <1>4. d \in [1 .. n -> Nat] /\ r \in [1 .. n -> Nat]
    BY <1>1, <1>3 DEF Moving
  <1>5. ASSUME NEW k \in 1 .. n, NEW x \in D
        PROVE  Larger(s, x, ev[k]) \in D /\ Improved(x, d[k], r[k], Larger(s, x, ev[k]))
    <2>1. Larger(s, x, ev[k]) \in D /\ Improved(x, Squared(ev[k]), RankOf(s, ev[k]), Larger(s, x, ev[k]))
      BY <1>1, Improvements
    <2>2. d[k] = Squared(ev[k]) /\ r[k] = RankOf(s, ev[k])
      BY <1>3
    <2>. QED  BY <2>1, <2>2, Zenon
  <1>6. PICK G : G = [k \in 1 .. n |-> [x \in D |-> Larger(s, x, ev[k])]]
    OBVIOUS
  <1>7. G \in [1 .. n -> [D -> D]]
    BY <1>5, <1>6
  <1>8. PICK f \in [0 .. n -> D] : Iteration(f, n, b0, G)
    BY <1>2, <1>7, Iterates
  <1>9. f = [k \in 0 .. n |-> IF k = 0 THEN b0 ELSE Larger(s, f[k - 1], ev[k])]
    <2>1. f[0] = b0 /\ \A k \in 1 .. n : f[k] = G[k][f[k - 1]]
      BY <1>8, Zenon DEF Iteration
    <2>2. ASSUME NEW k \in 0 .. n
          PROVE  f[k] = IF k = 0 THEN b0 ELSE Larger(s, f[k - 1], ev[k])
      <3>1. k # 0 => k \in 1 .. n /\ f[k - 1] \in D
        OBVIOUS
      <3>. QED  BY <1>6, <2>1, <3>1
    <2>3. f = [k \in 0 .. n |-> f[k]]
      OBVIOUS
    <2>. QED  BY <2>2, <2>3
  <1>. DEFINE best == CHOOSE g : g = [k \in 0 .. Len(s.motion_events) |->
                          IF k = 0 THEN [distance |-> -1, rank |-> FallbackRank(s)]
                          ELSE Larger(s, g[k - 1], s.motion_events[k])]
  <1>10. LargestMotionRank(s) = best[Len(s.motion_events)].rank
    BY DEF LargestMotionRank
  <1>11. best = [k \in 0 .. n |-> IF k = 0 THEN b0 ELSE Larger(s, best[k - 1], ev[k])]
    BY <1>1, <1>9
  <1>. HIDE DEF best
  <1>12. PICK g : g = best
    OBVIOUS
  <1>13. g[0] = b0 /\ \A k \in 1 .. n : g[k] = Larger(s, g[k - 1], ev[k])
    BY <1>11, <1>12
  <1>14. 0 .. n \subseteq {k \in 0 .. n : g[k] \in D}
    <2>. DEFINE T == {k \in 0 .. n : g[k] \in D}
    <2>1. 0 \in T
      BY <1>2, <1>13
    <2>2. \A k \in 1 .. n : k - 1 \in T => k \in T
      BY <1>5, <1>13
    <2>. HIDE DEF T
    <2>3. 0 .. n \subseteq T
      BY <2>1, <2>2, UpTo
    <2>. QED  BY <2>3 DEF T
  <1>15. g \in [0 .. n -> D]
    <2>1. g = [k \in 0 .. n |-> g[k]]
      BY <1>11, <1>12
    <2>. QED  BY <1>14, <2>1
  <1>16. \A k \in 1 .. n : Improved(g[k - 1], d[k], r[k], g[k])
    <2>. TAKE k \in 1 .. n
    <2>1. g[k - 1] \in D /\ g[k] = Larger(s, g[k - 1], ev[k])
      BY <1>13, <1>15
    <2>. QED  BY <1>5, <2>1
  <1>17. BestOf(d, r, n, g[n])
    BY <1>1, <1>2, <1>4, <1>13, <1>15, <1>16, BestOfAll
  <1>18. LargestMotionRank(s) = g[n].rank
    BY <1>1, <1>10, <1>12
  <1>. QED  BY <1>1, <1>3, <1>17, <1>18, Zenon

LEMMA WinningIs ==
    ASSUME NEW s, Moving(s)
    PROVE  \E best : /\ WinningRank(s) = best.rank
                     /\ BestOf([k \in 1 .. Len(s.motion_events) |-> Squared(s.motion_events[k])],
                               [k \in 1 .. Len(s.motion_events) |-> RankOf(s, s.motion_events[k])],
                               Len(s.motion_events), best)
  <1>0. PICK n \in Nat : n = Len(s.motion_events)
    BY DEF Moving
  <1>1. PICK ev, D, b0 : /\ n = Len(s.motion_events) /\ ev = s.motion_events /\ D = Bests
                         /\ b0 = [distance |-> -1, rank |-> FallbackRank(s)]
    BY <1>0
  <1>2. b0 \in D /\ b0.distance = -1
    BY <1>1 DEF Moving, Bests
  <1>3. PICK d, r : d = [k \in 1 .. n |-> Squared(ev[k])] /\ r = [k \in 1 .. n |-> RankOf(s, ev[k])]
    OBVIOUS
  <1>4. d \in [1 .. n -> Nat] /\ r \in [1 .. n -> Nat]
    BY <1>1, <1>3 DEF Moving
  <1>5. ASSUME NEW k \in 1 .. n, NEW x \in D
        PROVE  Better(s, x, ev[k]) \in D /\ Improved(x, d[k], r[k], Better(s, x, ev[k]))
    <2>1. Better(s, x, ev[k]) \in D /\ Improved(x, Squared(ev[k]), RankOf(s, ev[k]), Better(s, x, ev[k]))
      BY <1>1, Improvements
    <2>2. d[k] = Squared(ev[k]) /\ r[k] = RankOf(s, ev[k])
      BY <1>3
    <2>. QED  BY <2>1, <2>2, Zenon
  <1>6. PICK G : G = [k \in 1 .. n |-> [x \in D |-> Better(s, x, ev[k])]]
    OBVIOUS
  <1>7. G \in [1 .. n -> [D -> D]]
    BY <1>5, <1>6
  <1>8. PICK f \in [0 .. n -> D] : Iteration(f, n, b0, G)
    BY <1>2, <1>7, Iterates
  <1>9. f = [k \in 0 .. n |-> IF k = 0 THEN b0 ELSE Better(s, f[k - 1], ev[k])]
    <2>1. f[0] = b0 /\ \A k \in 1 .. n : f[k] = G[k][f[k - 1]]
      BY <1>8, Zenon DEF Iteration
    <2>2. ASSUME NEW k \in 0 .. n
          PROVE  f[k] = IF k = 0 THEN b0 ELSE Better(s, f[k - 1], ev[k])
      <3>1. k # 0 => k \in 1 .. n /\ f[k - 1] \in D
        OBVIOUS
      <3>. QED  BY <1>6, <2>1, <3>1
    <2>3. f = [k \in 0 .. n |-> f[k]]
      OBVIOUS
    <2>. QED  BY <2>2, <2>3
  <1>. DEFINE best == CHOOSE g : g = [k \in 0 .. Len(s.motion_events) |->
                          IF k = 0 THEN [distance |-> -1, rank |-> FallbackRank(s)]
                          ELSE Better(s, g[k - 1], s.motion_events[k])]
  <1>10. WinningRank(s) = best[Len(s.motion_events)].rank
    BY DEF WinningRank
  <1>11. best = [k \in 0 .. n |-> IF k = 0 THEN b0 ELSE Better(s, best[k - 1], ev[k])]
    BY <1>1, <1>9
  <1>. HIDE DEF best
  <1>12. PICK g : g = best
    OBVIOUS
  <1>13. g[0] = b0 /\ \A k \in 1 .. n : g[k] = Better(s, g[k - 1], ev[k])
    BY <1>11, <1>12
  <1>14. 0 .. n \subseteq {k \in 0 .. n : g[k] \in D}
    <2>. DEFINE T == {k \in 0 .. n : g[k] \in D}
    <2>1. 0 \in T
      BY <1>2, <1>13
    <2>2. \A k \in 1 .. n : k - 1 \in T => k \in T
      BY <1>5, <1>13
    <2>. HIDE DEF T
    <2>3. 0 .. n \subseteq T
      BY <2>1, <2>2, UpTo
    <2>. QED  BY <2>3 DEF T
  <1>15. g \in [0 .. n -> D]
    <2>1. g = [k \in 0 .. n |-> g[k]]
      BY <1>11, <1>12
    <2>. QED  BY <1>14, <2>1
  <1>16. \A k \in 1 .. n : Improved(g[k - 1], d[k], r[k], g[k])
    <2>. TAKE k \in 1 .. n
    <2>1. g[k - 1] \in D /\ g[k] = Better(s, g[k - 1], ev[k])
      BY <1>13, <1>15
    <2>. QED  BY <1>5, <2>1
  <1>17. BestOf(d, r, n, g[n])
    BY <1>1, <1>2, <1>4, <1>13, <1>15, <1>16, BestOfAll
  <1>18. WinningRank(s) = g[n].rank
    BY <1>1, <1>10, <1>12
  <1>. QED  BY <1>1, <1>3, <1>17, <1>18, Zenon

(* The events with the longest motion, as AnswersAreTrue names them. *)
Longest(s) == {e \in Range(s.motion_events) : \A f \in Range(s.motion_events) : Squared(f) <= Squared(e)}

LEMMA BestIsLeast ==
    ASSUME NEW s, Moving(s), DOMAIN s.motion_events = 1 .. Len(s.motion_events),
           Len(s.motion_events) > 0, NEW best,
           BestOf([k \in 1 .. Len(s.motion_events) |-> Squared(s.motion_events[k])],
                  [k \in 1 .. Len(s.motion_events) |-> RankOf(s, s.motion_events[k])],
                  Len(s.motion_events), best)
    PROVE  /\ \E e \in Longest(s) : RankOf(s, e) = best.rank
           /\ best.rank = Min({RankOf(s, e) : e \in Longest(s)})
  <1>0. PICK n \in Nat : n = Len(s.motion_events) /\ n > 0
    BY DEF Moving
  <1>1. PICK ev, d, r : /\ n = Len(s.motion_events) /\ n > 0 /\ ev = s.motion_events
                        /\ d = [k \in 1 .. n |-> Squared(ev[k])]
                        /\ r = [k \in 1 .. n |-> RankOf(s, ev[k])]
    BY <1>0
  <1>2. BestOf(d, r, n, best)
    BY <1>1
  <1>3. \A k \in 1 .. n : /\ d[k] \in Nat /\ r[k] \in Nat /\ ev[k] \in Range(ev)
                          /\ d[k] = Squared(ev[k]) /\ r[k] = RankOf(s, ev[k])
    BY <1>1 DEF Moving, Range
  <1>4. \A e \in Range(ev) : \E k \in 1 .. n : e = ev[k]
    BY <1>1 DEF Range
  <1>5. PICK j \in 1 .. n : best.distance = d[j] /\ best.rank = r[j]
    BY <1>1, <1>2 DEF BestOf
  <1>6. \A k \in 1 .. n : d[k] < d[j] \/ (d[k] = d[j] /\ r[j] <= r[k])
    BY <1>2, <1>5 DEF BestOf
  <1>7. ev[j] \in Longest(s)
    <2>1. ASSUME NEW f \in Range(ev) PROVE Squared(f) <= Squared(ev[j])
      <3>1. PICK k \in 1 .. n : f = ev[k]
        BY <1>4
      <3>. QED  BY <1>3, <1>6, <3>1
    <2>. QED  BY <1>1, <1>3, <2>1 DEF Longest
  <1>8. ASSUME NEW e \in Longest(s) PROVE RankOf(s, e) \in Nat /\ r[j] <= RankOf(s, e)
    <2>1. e \in Range(ev) /\ Squared(ev[j]) <= Squared(e)
      BY <1>1, <1>3 DEF Longest
    <2>2. PICK k \in 1 .. n : e = ev[k]
      BY <1>4, <2>1
    <2>3. d[j] <= d[k] /\ d[j] \in Nat /\ d[k] \in Nat
      BY <1>3, <2>1, <2>2
    <2>4. d[k] = d[j] /\ r[j] <= r[k]
      BY <1>6, <2>3
    <2>. QED  BY <1>3, <2>2, <2>4
  <1>9. PICK R : R = {RankOf(s, e) : e \in Longest(s)}
    OBVIOUS
  <1>10. R \subseteq Nat /\ r[j] \in R /\ \A k \in R : r[j] <= k
    BY <1>3, <1>7, <1>8, <1>9
  <1>11. Min(R) = r[j]
    BY <1>10, Minimum
  <1>. QED  BY <1>3, <1>5, <1>7, <1>9, <1>11

-------------------------------------------------------------------------------
(* A scene as BuildScene makes it of a configuration and counts. *)
Made(c, n, s) ==
    /\ n \in Seq(Nat) /\ Len(n) \in 1 .. 6
    /\ s.shape_paths \in [1 .. Len(n) -> Seq(Point)]
    /\ \A i \in 1 .. Len(n) : Len(s.shape_paths[i]) = 1 + n[i] * SamplesPerEvent
    /\ s.identity \in PairIdentities(Len(n), ShapeColorPairs)
    /\ s.expected_slots = c.n_motion_slots
    /\ \E slots \in SlotChoices(c, n), ids \in EventIds(Total(n)) :
           s.motion_events = BuildMotionEvents(c, n, s.shape_paths, slots, ids)

(* Its events lie shape by shape and move by move.                         *)
MoveOf(s, e, i, k) ==
    /\ e.shape_index = i /\ e.shape_event_index = k - 1
    /\ e.start_point = s.shape_paths[i][(k - 1) * SamplesPerEvent + 1]
    /\ e.end_point = s.shape_paths[i][k * SamplesPerEvent + 1]
    /\ e.start_point \in Point /\ e.end_point \in Point

Arranged(n, s, at) ==
    /\ at \in [0 .. Len(n) -> Nat] /\ at[0] = 0
    /\ \A i \in 1 .. Len(n) : at[i] = at[i - 1] + n[i]
    /\ DOMAIN s.motion_events = 1 .. at[Len(n)] /\ Len(s.motion_events) = at[Len(n)]
    /\ \A i \in 1 .. Len(n) : \A k \in 1 .. n[i] :
           at[i - 1] + k \in 1 .. at[Len(n)] /\ MoveOf(s, s.motion_events[at[i - 1] + k], i, k)
    /\ \A p \in 1 .. at[Len(n)] : \E i \in 1 .. Len(n) : \E k \in 1 .. n[i] : p = at[i - 1] + k

(* For the layout it was built with, and so for some.                      *)
LEMMA BuiltArranged ==
    ASSUME NEW c, NEW n, NEW s, Made(c, n, s), NEW slots, NEW ids,
           NEW at, Built(c, Len(n), n, s.shape_paths, slots, ids, s.motion_events, at)
    PROVE  Arranged(n, s, at)
  <1>1. PICK N \in Nat : N = Len(n)
    BY DEF Made
  <1>2. n \in [1 .. N -> Nat]
    BY <1>1, LenProperties DEF Made
  <1>4. PICK ps, ev : ps = s.shape_paths /\ ev = s.motion_events
    OBVIOUS
  <1>6. Built(c, N, n, ps, slots, ids, ev, at)
    BY <1>1, <1>4
  <1>7. ASSUME NEW i \in 1 .. N, NEW k \in 1 .. n[i]
        PROVE  MoveOf(s, ev[at[i - 1] + k], i, k)
    <2>1. PICK e : e = ev[at[i - 1] + k] /\ e = MotionEvent(c, ps[i], i, k - 1, slots[i][k], ids[at[i - 1] + k])
      BY <1>6 DEF Built
    <2>2. PICK m \in Nat : m = n[i] /\ k \in 1 .. m
      BY <1>2
    <2>3. PICK S \in Nat : S = SamplesPerEvent /\ S > 0
      BY SamplesAssumption
    <2>4. k \in Nat /\ k - 1 \in Nat /\ k <= m
      BY <2>2
    <2>5. (k - 1) + 1 = k
      BY <2>4
    <2>6. /\ e.shape_index = i /\ e.shape_event_index = k - 1
          /\ e.start_point = ps[i][(k - 1) * S + 1] /\ e.end_point = ps[i][k * S + 1]
      BY <2>1, <2>3, <2>5 DEF MotionEvent
    <2>7. PICK a \in Nat, b \in Nat, l \in Nat : a = (k - 1) * S /\ b = k * S /\ l = m * S
      <3>1. (k - 1) * S \in Nat /\ k * S \in Nat /\ m * S \in Nat
        BY <2>2, <2>3, <2>4
      <3>. QED  BY <3>1
    <2>8. a <= l /\ b <= l
      <3>1. k - 1 <= m
        BY <2>4
      <3>2. (k - 1) * S <= m * S /\ k * S <= m * S
        BY <2>2, <2>3, <2>4, <3>1, Products, SMTT(20)
      <3>. QED  BY <2>7, <3>2
    <2>9. ps[i] \in Seq(Point) /\ Len(ps[i]) = 1 + l
      BY <1>1, <1>4, <2>2, <2>3, <2>7 DEF Made
    <2>10. a + 1 \in 1 .. Len(ps[i]) /\ b + 1 \in 1 .. Len(ps[i])
      BY <2>7, <2>8, <2>9
    <2>11. ps[i][a + 1] \in Point /\ ps[i][b + 1] \in Point
      BY <2>9, <2>10, ElementOfSeq
    <2>. QED  BY <1>4, <2>1, <2>3, <2>6, <2>7, <2>11 DEF MoveOf
  <1>. QED  BY <1>1, <1>4, <1>6, <1>7 DEF Built, Arranged

LEMMA MadeArranged ==
    ASSUME NEW c, NEW n, NEW s, Made(c, n, s)
    PROVE  \E at : Arranged(n, s, at)
  <1>1. PICK N \in Nat : N = Len(n)
    BY DEF Made
  <1>2. n \in [1 .. N -> Nat]
    BY <1>1, LenProperties DEF Made
  <1>3. PICK slots \in SlotChoices(c, n), ids \in EventIds(Total(n)) :
            s.motion_events = BuildMotionEvents(c, n, s.shape_paths, slots, ids)
    BY DEF Made
  <1>4. PICK ps, ev : ps = s.shape_paths /\ ev = s.motion_events
    OBVIOUS
  <1>5. PICK at : Built(c, N, n, ps, slots, ids, BuildMotionEvents(c, n, ps, slots, ids), at)
    BY <1>2, BuiltInOrder
  <1>6. Built(c, Len(n), n, s.shape_paths, slots, ids, s.motion_events, at)
    BY <1>1, <1>3, <1>4, <1>5
  <1>. QED  BY <1>6, BuiltArranged

(* A square is a natural number. *)
LEMMA SquaredType ==
    ASSUME NEW e, e.start_point \in Point, e.end_point \in Point
    PROVE  Squared(e) \in Nat
  <1>1. PICK u \in Nat : u = Unit
    BY GridAssumption
  <1>2. PICK a \in Int, b \in Int : a = e.end_point[1] - e.start_point[1] /\ b = e.end_point[2] - e.start_point[2]
    BY <1>1 DEF Point
  <1>3. Squared(e) = a * a + b * b
    BY <1>2 DEF Squared
  <1>4. \A x \in Int : x * x \in Int /\ x * x >= 0
    OBVIOUS
  <1>5. PICK x \in Int, y \in Int : x = a * a /\ y = b * b /\ x >= 0 /\ y >= 0
    BY <1>2, <1>4
  <1>. QED  BY <1>3, <1>5

(* What the loops over the events need.                                    *)
LEMMA MadeMoving ==
    ASSUME NEW c, NEW n, NEW s, Made(c, n, s)
    PROVE  /\ Moving(s)
           /\ DOMAIN s.motion_events = 1 .. Len(s.motion_events)
           /\ \A e \in Range(s.motion_events) : e.shape_index \in 1 .. Len(n)
           /\ (\E i \in 1 .. Len(n) : n[i] > 0) => Len(s.motion_events) > 0
  <1>1. PICK at : Arranged(n, s, at)
    BY MadeArranged
  <1>0. PICK N \in Nat : N = Len(n) /\ N > 0
    <2>1. PICK N : N = Len(n)
      OBVIOUS
    <2>2. N \in 1 .. 6
      BY <2>1 DEF Made
    <2>3. N \in Nat /\ N > 0
      BY <2>2
    <2>. QED  BY <2>1, <2>3
  <1>2. PICK ev : N = Len(n) /\ N > 0 /\ ev = s.motion_events
    BY <1>0
  <1>3. n \in [1 .. N -> Nat]
    BY <1>2, LenProperties DEF Made
  <1>4. s.identity \in [1 .. N -> ShapeColorPairs]
    BY <1>2 DEF Made, PairIdentities
  <1>5. \A i \in 1 .. N : ClassRank(s.identity[i]) \in Nat
    BY <1>4, ClassRanks
  <1>6. FallbackRank(s) \in Nat
    <2>1. PICK R : R = {ClassRank(s.identity[i]) : i \in DOMAIN s.identity}
      OBVIOUS
    <2>2. R \subseteq Nat /\ R # {}
      <3>1. DOMAIN s.identity = 1 .. N /\ 1 \in 1 .. N
        BY <1>2, <1>4
      <3>. QED  BY <1>5, <2>1, <3>1
    <2>3. Min(R) \in Nat
      BY <2>2, Minimum
    <2>. QED  BY <2>1, <2>3 DEF FallbackRank
  <1>7. DOMAIN ev = 1 .. Len(ev) /\ Len(ev) \in Nat /\ Len(ev) = at[N]
    BY <1>1, <1>2 DEF Arranged
  <1>8. ASSUME NEW p \in 1 .. Len(ev)
        PROVE  ev[p].shape_index \in 1 .. N /\ Squared(ev[p]) \in Nat /\ RankOf(s, ev[p]) \in Nat
    <2>1. PICK i \in 1 .. N : \E k \in 1 .. n[i] : p = at[i - 1] + k
      BY <1>1, <1>2, <1>7 DEF Arranged
    <2>2. PICK k \in 1 .. n[i] : p = at[i - 1] + k
      BY <2>1
    <2>3. MoveOf(s, ev[p], i, k)
      BY <1>1, <1>2, <2>2 DEF Arranged
    <2>4. ev[p].shape_index = i /\ ev[p].start_point \in Point /\ ev[p].end_point \in Point
      BY <2>3 DEF MoveOf
    <2>5. Squared(ev[p]) \in Nat
      BY <2>4, SquaredType
    <2>6. RankOf(s, ev[p]) = ClassRank(s.identity[i])
      BY <2>4 DEF RankOf
    <2>. QED  BY <1>5, <2>4, <2>5, <2>6
  <1>9. Moving(s)
    BY <1>2, <1>6, <1>7, <1>8 DEF Moving
  <1>10. \A e \in Range(ev) : e.shape_index \in 1 .. N
    BY <1>7, <1>8 DEF Range
  <1>11. ASSUME NEW i \in 1 .. N, n[i] > 0 PROVE Len(ev) > 0
    <2>1. 1 \in 1 .. n[i]
      BY <1>3, <1>11
    <2>2. at[i - 1] + 1 \in 1 .. at[N]
      BY <1>1, <1>2, <2>1 DEF Arranged
    <2>. QED  BY <1>7, <2>2
  <1>. QED  BY <1>2, <1>7, <1>9, <1>10, <1>11

(* The queried event of a shape is its next move after as many.            *)
LEMMA QueriedIs ==
    ASSUME NEW c, NEW n, NEW s, Made(c, n, s), NEW i \in 1 .. Len(n), NEW q \in Nat, q < n[i]
    PROVE  /\ MoveOf(s, QueriedEvent(s, i, q), i, q + 1)
           /\ QueriedEvent(s, i, q) \in Range(s.motion_events)
  <1>1. PICK at : Arranged(n, s, at)
    BY MadeArranged
  <1>2. PICK ev : ev = s.motion_events
    OBVIOUS
  <1>3. PICK m \in Nat : m = n[i]
    BY DEF Made
  <1>4. PICK g : g = [k \in 1 .. m |-> ev[at[i - 1] + k]]
    OBVIOUS
  <1>5. PICK own : own = {e \in Range(ev) : e.shape_index = i}
    OBVIOUS
  <1>6. ASSUME NEW k \in 1 .. m
        PROVE  g[k] \in own /\ MoveOf(s, g[k], i, k) /\ g[k].shape_event_index = k - 1
    <2>1. at[i - 1] + k \in DOMAIN ev /\ MoveOf(s, ev[at[i - 1] + k], i, k)
      BY <1>1, <1>2, <1>3 DEF Arranged
    <2>2. g[k] = ev[at[i - 1] + k] /\ g[k] \in Range(ev)
      BY <1>4, <2>1 DEF Range
    <2>3. MoveOf(s, g[k], i, k)
      BY <2>1, <2>2
    <2>4. g[k].shape_index = i /\ g[k].shape_event_index = k - 1
      BY <2>3 DEF MoveOf
    <2>. QED  BY <1>5, <2>2, <2>3, <2>4
  <1>7. ASSUME NEW e \in own PROVE \E k \in 1 .. m : e = g[k]
    <2>1. PICK p \in DOMAIN ev : e = ev[p] /\ e.shape_index = i
      BY <1>5 DEF Range
    <2>2. PICK j \in 1 .. Len(n) : \E k \in 1 .. n[j] : p = at[j - 1] + k
      BY <1>1, <1>2, <2>1 DEF Arranged
    <2>3. PICK k \in 1 .. n[j] : p = at[j - 1] + k
      BY <2>2
    <2>4. MoveOf(s, e, j, k)
      BY <1>1, <1>2, <2>1, <2>3 DEF Arranged
    <2>5. j = i
      BY <2>1, <2>4 DEF MoveOf
    <2>. QED  BY <1>3, <1>4, <2>1, <2>3, <2>5
  <1>. DEFINE earlier(e) == {f \in own : f.shape_event_index < e.shape_event_index}
  <1>8. ASSUME NEW k \in 1 .. m PROVE Cardinality(earlier(g[k])) = k - 1
    <2>1. PICK h, T : h = [j \in 1 .. k - 1 |-> g[j]] /\ T = earlier(g[k])
      OBVIOUS
    <2>2. \A j \in 1 .. k - 1 : j \in 1 .. m /\ j < k
      OBVIOUS
    <2>3. \A j \in 1 .. k - 1 : h[j] = g[j] /\ h[j] \in own /\ h[j].shape_event_index = j - 1
      BY <1>6, <2>1, <2>2
    <2>4. g[k].shape_event_index = k - 1
      BY <1>6
    <2>5. \A j \in 1 .. k - 1 : h[j] \in T
      BY <2>1, <2>3, <2>4
    <2>6. \A x, y \in 1 .. k - 1 : h[x] = h[y] => x = y
      <3>. TAKE x, y \in 1 .. k - 1
      <3>1. h[x].shape_event_index = x - 1 /\ h[y].shape_event_index = y - 1
        BY <2>3
      <3>. QED  BY <3>1
    <2>7. \A f \in T : \E j \in 1 .. k - 1 : f = h[j]
      <3>. TAKE f \in T
      <3>1. f \in own /\ f.shape_event_index < k - 1
        BY <2>1, <2>4
      <3>2. PICK j \in 1 .. m : f = g[j]
        BY <1>7, <3>1
      <3>3. j - 1 < k - 1
        BY <1>6, <3>1, <3>2
      <3>4. j \in 1 .. k - 1
        BY <3>3
      <3>. QED  BY <2>3, <3>2, <3>4
    <2>8. h \in [1 .. k - 1 -> T]
      BY <2>1, <2>5
    <2>9. h \in Bijection(1 .. k - 1, T)
      <3>. HIDE DEF earlier
      <3>1. h \in Injection(1 .. k - 1, T)
        BY <2>6, <2>8 DEF Injection, IsInjective
      <3>2. h \in Surjection(1 .. k - 1, T)
        BY <2>7, <2>8 DEF Surjection
      <3>. QED  BY <3>1, <3>2 DEF Bijection
    <2>10. IsFiniteSet(1 .. k - 1) /\ Cardinality(1 .. k - 1) = k - 1
      <3>1. 1 \in Int /\ k - 1 \in Int
        OBVIOUS
      <3>2. IsFiniteSet(1 .. k - 1) /\ Cardinality(1 .. k - 1) = IF 1 > k - 1 THEN 0 ELSE k - 1 - 1 + 1
        BY <3>1, FS_Interval
      <3>. QED  BY <3>2
    <2>11. ExistsBijection(1 .. k - 1, T)
      BY <2>9 DEF ExistsBijection
    <2>12. Cardinality(T) = Cardinality(1 .. k - 1)
      BY <2>10, <2>11, FS_Bijection
    <2>. QED  BY <2>1, <2>10, <2>12
  <1>9. q + 1 \in 1 .. m /\ (q + 1) - 1 = q
    BY <1>3
  <1>10. PICK e : e = QueriedEvent(s, i, q)
    OBVIOUS
  <1>11. e = CHOOSE x \in own : Cardinality(earlier(x)) = q
    BY <1>2, <1>5, <1>10 DEF QueriedEvent
  <1>12. g[q + 1] \in own /\ Cardinality(earlier(g[q + 1])) = q
    BY <1>6, <1>8, <1>9
  <1>13. e \in own /\ Cardinality(earlier(e)) = q
    <2>. HIDE DEF earlier
    <2>. QED  BY <1>11, <1>12
  <1>14. PICK k \in 1 .. m : e = g[k]
    BY <1>7, <1>13
  <1>15. k - 1 = q
    BY <1>8, <1>13, <1>14
  <1>16. k = q + 1
    BY <1>15
  <1>17. MoveOf(s, e, i, q + 1)
    BY <1>6, <1>14, <1>16
  <1>. QED  BY <1>2, <1>5, <1>10, <1>13, <1>17

(* The targets of a scene tell what its paths and events do.               *)
LEMMA TargetsOfScene ==
    ASSUME NEW c, NEW n, NEW s, Made(c, n, s),
           NEW q, DOMAIN q = 1 .. Len(n), \A j \in 1 .. Len(n) : q[j] \in Nat /\ q[j] < n[j],
           NEW i \in 1 .. Len(n)
    PROVE  LET t       == SceneTargetsOf(s, q)
               path    == s.shape_paths[i]
               visited == Visited(path)
           IN  /\ [k \in DOMAIN t.oqp[i] |-> DominantQuadrant(t.oqp[i][k]) + 1]
                      = [k \in DOMAIN visited |-> visited[k] + 1]
               /\ visited \in Seq(0 .. 3) /\ Len(visited) > 0
               /\ t.xct[i] = Len(visited) - 1
               /\ t.zqh[i].moves = q[i] + 1
               /\ t.zqh[i].quadrant = HardQuadrant(path[t.zqh[i].moves * SamplesPerEvent + 1])
               /\ t.zqh[i].quadrant \in 0 .. 3
               /\ t.lme = LargestMotionRank(s)
  <1>1. PICK t, path, ms, v : /\ t = SceneTargetsOf(s, q) /\ path = s.shape_paths[i]
                              /\ ms = AlongPath(path) /\ v = Visited(path)
    OBVIOUS
  <1>2. path \in Seq(Point) /\ Len(path) > 0
    <2>1. path \in Seq(Point) /\ Len(path) = 1 + n[i] * SamplesPerEvent
      BY <1>1 DEF Made
    <2>2. PICK m \in Nat, S \in Nat : m = n[i] /\ S = SamplesPerEvent
      <3>1. n[i] \in Nat
        BY DEF Made
      <3>2. SamplesPerEvent \in Nat
        BY SamplesAssumption
      <3>. QED  BY <3>1, <3>2
    <2>3. m * S \in Nat
      BY <2>2
    <2>. QED  BY <2>1, <2>2, <2>3
  <1>3. Memberships(s, i) = ms
    BY <1>1 DEF Memberships, AlongPath
  <1>4. /\ t.oqp = [j \in DOMAIN q |-> CompressIntoSegments(Memberships(s, j))]
        /\ t.xct = [j \in DOMAIN q |-> CountQuadrantTransitions(Memberships(s, j))]
        /\ t.zqh = [j \in DOMAIN q |-> QuadrantAfterMoves(s, j, q[j])]
        /\ t.lme = LargestMotionRank(s)
    BY <1>1 DEF SceneTargetsOf
  <1>5. /\ t.oqp[i] = CompressIntoSegments(ms) /\ t.xct[i] = CountQuadrantTransitions(ms)
        /\ t.zqh[i] = QuadrantAfterMoves(s, i, q[i])
    <2>1. i \in DOMAIN q
      OBVIOUS
    <2>. QED  BY <1>3, <1>4, <2>1
  <1>6. /\ v \in Seq(0 .. 3) /\ Len(v) > 0
        /\ DOMAIN CompressIntoSegments(ms) = DOMAIN v
        /\ \A k \in DOMAIN v : DominantQuadrant(CompressIntoSegments(ms)[k]) = v[k]
        /\ CountQuadrantTransitions(ms) = Len(v) - 1
    BY <1>1, <1>2, PathQuadrants
  <1>7. [k \in DOMAIN t.oqp[i] |-> DominantQuadrant(t.oqp[i][k]) + 1] = [k \in DOMAIN v |-> v[k] + 1]
    <2>1. PICK x : x = t.oqp[i]
      OBVIOUS
    <2>2. DOMAIN x = DOMAIN v /\ \A k \in DOMAIN v : DominantQuadrant(x[k]) = v[k]
      BY <1>5, <1>6, <2>1
    <2>3. [k \in DOMAIN x |-> DominantQuadrant(x[k]) + 1] = [k \in DOMAIN v |-> v[k] + 1]
      BY <2>2
    <2>. QED  BY <2>1, <2>3
  <1>8. PICK e : e = QueriedEvent(s, i, q[i])
    OBVIOUS
  <1>9. MoveOf(s, e, i, q[i] + 1)
    BY <1>8, QueriedIs
  <1>10. e.end_point = path[(q[i] + 1) * SamplesPerEvent + 1] /\ e.end_point \in Point
    BY <1>1, <1>9 DEF MoveOf
  <1>11. t.zqh[i].moves = q[i] + 1 /\ t.zqh[i].quadrant = HardQuadrant(e.end_point)
    BY <1>5, <1>8 DEF QuadrantAfterMoves
  <1>12. HardQuadrant(e.end_point) \in 0 .. 3
    BY DEF HardQuadrant
  <1>13. t.zqh[i].quadrant = HardQuadrant(path[t.zqh[i].moves * SamplesPerEvent + 1])
    BY <1>10, <1>11
  <1>. QED  BY <1>1, <1>4, <1>5, <1>6, <1>7, <1>11, <1>12, <1>13

(* The target and the server find the same shape, one that makes a longest *)
(* move and has the least rank of those that do.                           *)
LEMMA WinnerOfScene ==
    ASSUME NEW c, NEW n, NEW s, Made(c, n, s), \E i \in 1 .. Len(n) : n[i] > 0
    PROVE  LET ranks == {ClassRank(s.identity[e.shape_index]) : e \in Longest(s)}
           IN  /\ LargestMotionRank(s) = Min(ranks)
               /\ \E e \in Longest(s) : /\ ShapeId(WinningShape(s)) = ShapeId(s.identity[e.shape_index])
                                        /\ ClassRank(s.identity[e.shape_index]) = Min(ranks)
               /\ \E i \in 1 .. Len(n) : WinningShape(s) = s.identity[i]
  <1>1. /\ Moving(s) /\ DOMAIN s.motion_events = 1 .. Len(s.motion_events)
        /\ Len(s.motion_events) > 0
        /\ \A e \in Range(s.motion_events) : e.shape_index \in 1 .. Len(n)
    BY MadeMoving
  <1>2. PICK R : R = {RankOf(s, e) : e \in Longest(s)}
    OBVIOUS
  <1>3. R = {ClassRank(s.identity[e.shape_index]) : e \in Longest(s)}
    BY <1>2 DEF RankOf
  <1>4. LargestMotionRank(s) = Min(R)
    BY <1>1, <1>2, LargestIs, BestIsLeast
  <1>5. /\ WinningRank(s) = Min(R)
        /\ \E e \in Longest(s) : RankOf(s, e) = WinningRank(s)
    BY <1>1, <1>2, WinningIs, BestIsLeast
  <1>6. PICK e \in Longest(s) : RankOf(s, e) = Min(R)
    BY <1>5
  <1>7. PICK j \in 1 .. Len(n) : j = e.shape_index
    <2>1. e \in Range(s.motion_events)
      BY DEF Longest
    <2>. QED  BY <1>1, <2>1
  <1>8. s.identity \in [1 .. Len(n) -> ShapeColorPairs]
    BY DEF Made, PairIdentities
  <1>9. PICK I : I = {i \in DOMAIN s.identity : ClassRank(s.identity[i]) = WinningRank(s)}
    OBVIOUS
  <1>10. j \in I /\ I \subseteq Nat
    <2>1. ClassRank(s.identity[j]) = WinningRank(s)
      BY <1>5, <1>6, <1>7 DEF RankOf
    <2>. QED  BY <1>8, <1>9, <2>1
  <1>11. PICK w : w = Min(I) /\ w \in I
    BY <1>10, Minimum
  <1>12. /\ WinningShape(s) = s.identity[w] /\ w \in 1 .. Len(n)
         /\ ClassRank(s.identity[w]) = ClassRank(s.identity[j])
    BY <1>5, <1>6, <1>7, <1>8, <1>9, <1>11 DEF WinningShape, RankOf
  <1>13. s.identity[w] = s.identity[j]
    <2>1. s.identity[w] \in ShapeColorPairs /\ s.identity[j] \in ShapeColorPairs
      BY <1>8, <1>12
    <2>. QED  BY <1>12, <2>1, ClassRanks
  <1>14. ClassRank(s.identity[e.shape_index]) = Min(R)
    BY <1>6 DEF RankOf
  <1>. QED  BY <1>3, <1>4, <1>7, <1>12, <1>13, <1>14

-------------------------------------------------------------------------------
(* Both ways to assign identities give every shape a pair of its own.      *)
LEMMA IdentitiesArePairs ==
    ASSUME NEW a \in Assignments, NEW n \in 1 .. 6, NEW f \in Identities(a, n)
    PROVE  f \in PairIdentities(n, ShapeColorPairs)
  <1>1. CASE a = "pair_unique_random"
    BY <1>1, IdentitiesAssumption
  <1>2. CASE a = "index_locked"
    <2>1. PICK order \in [1 .. 6 -> 1 .. 6] : f = [i \in 1 .. n |-> <<i, order[((i - 1) % 6) + 1]>>]
      <3>1. f \in LockedIdentities(n, DOMAIN ColorPalette)
        BY <1>2, IdentitiesAssumption
      <3>2. DOMAIN ColorPalette = 1 .. 6 /\ Len(ColorPalette) = 6
        BY DEF ColorPalette
      <3>. QED  BY <3>1, <3>2 DEF LockedIdentities
    <2>2. ASSUME NEW i \in 1 .. n PROVE f[i] \in ShapeColorPairs /\ f[i][1] = i
      <3>1. ((i - 1) % 6) + 1 \in 1 .. 6
        OBVIOUS
      <3>2. PICK k \in 1 .. 6 : k = ((i - 1) % 6) + 1
        BY <3>1
      <3>3. f[i] = <<i, order[k]>> /\ order[k] \in 1 .. 6 /\ i \in 1 .. 6
        BY <2>1, <3>2
      <3>4. ShapeColorPairs = (1 .. 6) \X (1 .. 6)
        BY DEF ShapeColorPairs, ShapeTypePalette, ColorPalette
      <3>. QED  BY <3>3, <3>4
    <2>3. f \in [1 .. n -> ShapeColorPairs]
      <3>1. f = [i \in 1 .. n |-> f[i]]
        BY <2>1
      <3>. QED  BY <2>2, <3>1
    <2>4. IsInjective(f)
      <3>1. \A i, j \in 1 .. n : f[i] = f[j] => i = j
        BY <2>2
      <3>. QED  BY <2>3, <3>1 DEF IsInjective
    <2>. QED  BY <2>3, <2>4 DEF PairIdentities
  <1>. QED  BY <1>1, <1>2 DEF Assignments

(* The invariant of the pipeline: a scene is one that BuildScene makes of  *)
(* the configuration and the counts it still has, the targets are its      *)
(* targets, and a question is one that is asked of them.                   *)
Early    == {"config", "counts", "paths", "rejected"}
Targeted == {"targets", "text", "decoded", "question", "answered"}

OnGrid == stage = "paths" => \A i \in 1 .. Len(paths) : paths[i] \in Seq(Point)
SceneMade == stage \notin Early => Made(config, counts, scene)
TargetsMade ==
    stage \in Targeted =>
        /\ DOMAIN queries = 1 .. Len(counts)
        /\ \A i \in 1 .. Len(counts) : queries[i] \in Nat /\ queries[i] < counts[i]
        /\ targets = SceneTargetsOf(scene, queries)
QuestionAsked ==
    stage \in {"question", "answered"} =>
        \E t \in Targets, l \in LocalIndices : question = PlanItem(t, l)
AnswerGiven ==
    stage = "answered" =>
        /\ verdict.answer \in Answers \cup {FormatExpectedAnswer(question.target, question.expected)}
        /\ verdict.correct = EvaluateAnswer(verdict.answer, question.target, question.expected)

PipeInv == GenInv /\ OnGrid /\ SceneMade /\ TargetsMade /\ QuestionAsked /\ AnswerGiven

LEMMA InitPipe == Init => PipeInv
  <1>. SUFFICES ASSUME Init PROVE PipeInv
    OBVIOUS
  <1>1. GenInv /\ stage = "config"
    BY InitGenerates DEF Init, GenInit
  <1>. QED  BY <1>1 DEF PipeInv, OnGrid, SceneMade, TargetsMade, QuestionAsked, AnswerGiven, Early, Targeted

LEMMA ValidShapes ==
    ASSUME NEW c, Validate(c)
    PROVE  c.n_shapes \in 1 .. 6 /\ c.trajectory_complexity \in 1 .. 4
  BY DEF Validate, SettingsOK

(* The next path lies on the grid. *)
LEMMA StepOnGrid ==
    ASSUME PipeInv, SamplePath
    PROVE  OnGrid'
  <1>1. /\ stage = "paths" /\ config' = config /\ counts' = counts
        /\ Len(paths) < Len(counts) /\ Generates(config, counts) /\ PathsFit(counts, paths)
        /\ Validate(config) /\ \A i \in 1 .. Len(paths) : paths[i] \in Seq(Point)
    BY DEF SamplePath, PipeInv, GenInv, OnGrid
  <1>2. Len(counts) \in 1 .. 6 /\ config.trajectory_complexity \in Int /\ counts \in Seq(Nat)
    BY <1>1, ValidShapes DEF Generates
  <1>3. PICK P : paths \in Seq(P)
    BY <1>1 DEF PathsFit
  <1>4. PICK m \in Nat : m = Len(paths) /\ m + 1 \in 1 .. Len(counts)
    <2>1. Len(paths) \in Nat
      BY <1>3, LenProperties
    <2>. QED  BY <1>1, <1>2, <2>1
  <1>5. PICK k \in Nat : k = counts[m + 1]
    BY <1>2, <1>4, ElementOfSeq
  <1>6. PICK path \in Seq(Point) : paths' = Append(paths, path)
    <2>1. CASE k = 0
      <3>1. paths' = Append(paths, <<<<0, 0>>>>)
        BY <1>4, <1>5, <2>1 DEF SamplePath
      <3>2. <<0, 0>> \in Point
        BY GridAssumption DEF Point
      <3>3. PICK o : o = <<0, 0>>
        OBVIOUS
      <3>4. <<o>> \in Seq(Point)
        BY <3>2, <3>3
      <3>. QED  BY <3>1, <3>3, <3>4
    <2>2. CASE k # 0
      <3>1. PICK ends \in [0 .. k -> PathPoints[Len(counts)]] :
                paths' = Append(paths, TrajectoryPoints(ends, config.trajectory_complexity))
        BY <1>4, <1>5, <2>2 DEF SamplePath
      <3>2. PathPoints[Len(counts)] \subseteq Point
        BY <1>2, GridAssumption
      <3>3. ends \in [0 .. k -> Point]
        BY <3>1, <3>2
      <3>4. TrajectoryPoints(ends, config.trajectory_complexity) \in Seq(Point)
        BY <1>2, <3>3, PathOnGrid
      <3>. QED  BY <3>1, <3>4
    <2>. QED  BY <2>1, <2>2
  <1>7. PICK ps : ps = Append(paths, path)
    OBVIOUS
  <1>8. Len(ps) = m + 1 /\ (\A i \in 1 .. m : ps[i] = paths[i]) /\ ps[m + 1] = path
    <2>1. PICK Q : Q = P \cup {path}
      OBVIOUS
    <2>2. paths \in Seq(Q)
      <3>1. paths \in [1 .. m -> P]
        BY <1>3, <1>4, LenProperties
      <3>2. paths \in [1 .. m -> Q]
        BY <2>1, <3>1
      <3>. QED  BY <3>2
    <2>3. path \in Q
      BY <2>1
    <2>. QED  BY <1>4, <1>7, <2>2, <2>3, AppendProperties
  <1>9. \A i \in 1 .. m + 1 : ps[i] \in Seq(Point)
    <2>. TAKE i \in 1 .. m + 1
    <2>1. CASE i = m + 1
      BY <1>8, <2>1
    <2>2. CASE i # m + 1
      <3>1. i \in 1 .. m
        BY <2>2
      <3>. QED  BY <1>1, <1>4, <1>8, <3>1
    <2>. QED  BY <2>1, <2>2
  <1>. QED  BY <1>6, <1>7, <1>8, <1>9 DEF OnGrid

(* The scene is made of the configuration. *)
LEMMA StepMade ==
    ASSUME PipeInv, BuildScene
    PROVE  Made(config', counts', scene')
  <1>1. /\ config' = config /\ counts' = counts /\ ConfigTypes(config) /\ Validate(config)
        /\ Generates(config, counts) /\ PathsFit(counts, paths) /\ Len(paths) = Len(counts)
        /\ \A i \in 1 .. Len(paths) : paths[i] \in Seq(Point)
    BY DEF BuildScene, PipeInv, GenInv, OnGrid
  <1>2. counts \in Seq(Nat) /\ Len(counts) \in 1 .. 6
    BY <1>1, ValidShapes DEF Generates
  <1>3. PICK slots \in SlotChoices(config, counts), ids \in EventIds(Total(counts)),
             identity \in Identities(config.shape_identity_assignment, Len(counts)) :
             /\ scene'.shape_paths = paths
             /\ scene'.motion_events = BuildMotionEvents(config, counts, paths, slots, ids)
             /\ scene'.identity = identity
             /\ scene'.expected_slots = config.n_motion_slots
    BY DEF BuildScene
  <1>4. identity \in PairIdentities(Len(counts), ShapeColorPairs)
    <2>1. config.shape_identity_assignment \in Assignments
      BY <1>1, FieldTypes
    <2>. QED  BY <1>2, <2>1, IdentitiesArePairs
  <1>5. paths \in [1 .. Len(counts) -> Seq(Point)]
    <2>1. PICK P : paths \in Seq(P)
      BY <1>1 DEF PathsFit
    <2>2. paths \in [1 .. Len(counts) -> P]
      BY <1>1, <2>1, LenProperties
    <2>. QED  BY <1>1, <2>2
  <1>6. \A i \in 1 .. Len(counts) : paths[i] \in Seq(Point) /\ Len(paths[i]) = 1 + counts[i] * SamplesPerEvent
    BY <1>1 DEF PathsFit
  <1>7. PICK s : s = scene'
    OBVIOUS
  <1>8. Made(config, counts, s)
    BY <1>2, <1>3, <1>4, <1>5, <1>6, <1>7 DEF Made
  <1>. QED  BY <1>1, <1>7, <1>8

(* Steps after the scene keep what it was made of. *)
LEMMA KeepsMade ==
    ASSUME PipeInv, stage \notin Early, stage' \notin Early \cup {"scene"},
           config' = config, counts' = counts, paths' = paths, scene' = scene
    PROVE  GenInv' /\ OnGrid' /\ SceneMade'
  <1>1. ConfigTypes(config) /\ Made(config, counts, scene)
    BY DEF PipeInv, GenInv, SceneMade
  <1>2. stage' \notin {"config", "counts", "paths", "scene"}
    BY DEF Early
  <1>3. GenInv'
    BY <1>1, <1>2 DEF GenInv, EventsFollowTheShape
  <1>4. OnGrid' /\ SceneMade'
    BY <1>1, <1>2 DEF OnGrid, SceneMade
  <1>. QED  BY <1>3, <1>4

LEMMA PipeGenerates ==
    ASSUME PipeInv, GenNext /\ UNCHANGED <<targetVars, textVars, mediaVars, questionVars>>
    PROVE  PipeInv'
  <1>1. GenInv'
    BY StepGenerates DEF PipeInv
  <1>2. stage' \in {"config", "counts", "rejected", "paths", "scene"}
    BY DEF GenNext, ApplyPreset, StartScene, ResolveCounts, SamplePath, BuildScene
  <1>3. TargetsMade' /\ QuestionAsked' /\ AnswerGiven'
    BY <1>2 DEF TargetsMade, QuestionAsked, AnswerGiven, Targeted
  <1>4. CASE SamplePath
    <2>1. stage' = "paths" /\ OnGrid'
      BY <1>4, StepOnGrid DEF SamplePath
    <2>. QED  BY <1>1, <1>3, <2>1 DEF PipeInv, SceneMade, Early
  <1>5. CASE BuildScene
    <2>1. stage' = "scene" /\ Made(config', counts', scene')
      BY <1>5, StepMade DEF BuildScene
    <2>. QED  BY <1>1, <1>3, <2>1 DEF PipeInv, SceneMade, OnGrid
  <1>6. CASE ApplyPreset \/ StartScene
    <2>1. stage' \in {"config", "counts", "rejected"}
      BY <1>6 DEF ApplyPreset, StartScene
    <2>. QED  BY <1>1, <1>3, <2>1 DEF PipeInv, SceneMade, OnGrid, Early
  <1>7. CASE ResolveCounts
    <2>1. stage' = "paths" /\ paths' = <<>>
      BY <1>7 DEF ResolveCounts, PipeInv, GenInv
    <2>2. PICK ps : ps = <<>>
      OBVIOUS
    <2>3. 1 .. Len(ps) = {}
      BY <2>2
    <2>4. OnGrid'
      BY <2>1, <2>2, <2>3 DEF OnGrid
    <2>. QED  BY <1>1, <1>3, <2>1, <2>4 DEF PipeInv, SceneMade, Early
  <1>. QED  BY <1>4, <1>5, <1>6, <1>7 DEF GenNext

LEMMA PipeTargets ==
    ASSUME PipeInv, (GenerateTargets \/ TargetsFail) /\ UNCHANGED <<textVars, mediaVars, questionVars>>
    PROVE  PipeInv'
  <1>1. /\ stage = "scene" /\ stage' \in {"targets", "targets failed"}
        /\ config' = config /\ counts' = counts /\ paths' = paths /\ scene' = scene
    BY DEF GenerateTargets, TargetsFail
  <1>2. GenInv' /\ OnGrid' /\ SceneMade'
    BY <1>1, KeepsMade DEF Early
  <1>3. QuestionAsked' /\ AnswerGiven'
    BY <1>1 DEF QuestionAsked, AnswerGiven
  <1>4. CASE TargetsFail
    <2>1. stage' = "targets failed"
      BY <1>4 DEF TargetsFail
    <2>. QED  BY <1>2, <1>3, <2>1 DEF PipeInv, TargetsMade, Targeted
  <1>5. CASE GenerateTargets
    <2>1. PICK q \in [DOMAIN counts -> 0 .. Max(Range(counts)) - 1] :
              (\A i \in DOMAIN counts : q[i] < counts[i]) /\ queries' = q /\ targets' = SceneTargetsOf(scene, q)
      BY <1>5 DEF GenerateTargets
    <2>2. DOMAIN counts = 1 .. Len(counts) /\ Len(counts) \in 1 .. 6 /\ counts \in Seq(Nat)
      BY <1>1, LenProperties DEF PipeInv, SceneMade, Made, Early
    <2>3. PICK x : x = Max(Range(counts))
      OBVIOUS
    <2>4. x \in Int
      <3>1. PICK R : R = Range(counts)
        OBVIOUS
      <3>2. R = {counts[i] : i \in 1 .. Len(counts)} /\ IsFiniteSet(1 .. Len(counts))
        <4>1. 1 \in Int /\ Len(counts) \in Int
          BY <2>2
        <4>2. IsFiniteSet(1 .. Len(counts))
          BY <4>1, FS_Interval
        <4>. QED  BY <2>2, <3>1, <4>2 DEF Range
      <3>3. IsFiniteSet(R)
        <4>1. counts \in Surjection(1 .. Len(counts), R)
          BY <2>2, <3>2 DEF Surjection
        <4>. QED  BY <3>2, <4>1, FS_Surjection
      <3>4. R \subseteq Int /\ R # {}
        <4>1. \A i \in 1 .. Len(counts) : counts[i] \in Nat
          BY <2>2
        <4>2. 1 \in 1 .. Len(counts)
          BY <2>2
        <4>. QED  BY <3>2, <4>1, <4>2
      <3>. QED  BY <2>3, <3>1, <3>3, <3>4, Maximum
    <2>5. \A i \in 1 .. Len(counts) : q[i] \in Nat /\ q[i] < counts[i]
      BY <2>1, <2>2, <2>3, <2>4, SMTT(20)
    <2>6. DOMAIN q = 1 .. Len(counts)
      BY <2>1, <2>2
    <2>7. TargetsMade'
      BY <1>1, <2>1, <2>5, <2>6 DEF TargetsMade
    <2>. QED  BY <1>2, <1>3, <2>7 DEF PipeInv
  <1>. QED  BY <1>4, <1>5

LEMMA PipeText ==
    ASSUME PipeInv, (WriteText \/ DecodeText) /\ UNCHANGED <<mediaVars, questionVars>>
    PROVE  PipeInv'
  <1>1. /\ stage \in {"targets", "text"} /\ stage' \in {"text", "decoded"}
        /\ config' = config /\ counts' = counts /\ paths' = paths /\ scene' = scene
        /\ queries' = queries /\ targets' = targets
    BY DEF WriteText, DecodeText
  <1>2. GenInv' /\ OnGrid' /\ SceneMade'
    BY <1>1, KeepsMade DEF Early
  <1>3. QuestionAsked' /\ AnswerGiven'
    BY <1>1 DEF QuestionAsked, AnswerGiven
  <1>4. TargetsMade'
    BY <1>1 DEF PipeInv, TargetsMade, Targeted
  <1>. QED  BY <1>2, <1>3, <1>4 DEF PipeInv

LEMMA PipeMedia ==
    ASSUME PipeInv, (StartMedia \/ PlaySlot \/ ValidateSound) /\ UNCHANGED questionVars
    PROVE  PipeInv'
  <1>1. /\ stage \in {"scene", "media"} /\ stage' \in {"silent", "media", "sound accepted", "sound refused"}
        /\ config' = config /\ counts' = counts /\ paths' = paths /\ scene' = scene
    BY DEF StartMedia, PlaySlot, ValidateSound
  <1>2. GenInv' /\ OnGrid' /\ SceneMade'
    BY <1>1, KeepsMade DEF Early
  <1>3. QuestionAsked' /\ AnswerGiven' /\ TargetsMade'
    BY <1>1 DEF QuestionAsked, AnswerGiven, TargetsMade, Targeted
  <1>. QED  BY <1>2, <1>3 DEF PipeInv

LEMMA PipeQuestion ==
    ASSUME PipeInv, AskQuestion \/ Answer
    PROVE  PipeInv'
  <1>1. /\ stage \in {"targets", "question"} /\ stage' \in {"question", "answered"}
        /\ config' = config /\ counts' = counts /\ paths' = paths /\ scene' = scene
        /\ queries' = queries /\ targets' = targets
    BY DEF AskQuestion, Answer, targetVars
  <1>2. GenInv' /\ OnGrid' /\ SceneMade'
    BY <1>1, KeepsMade DEF Early
  <1>3. TargetsMade'
    BY <1>1 DEF PipeInv, TargetsMade, Targeted
  <1>4. CASE AskQuestion
    <2>1. PICK t \in Targets, l \in LocalIndices : question' = PlanItem(t, l)
      BY <1>4 DEF AskQuestion
    <2>2. PlanItem(t, l) = PlanItem(t, l)'
      BY <1>1 DEF PlanItem, QueryShape, ExpectedAnswer
    <2>3. QuestionAsked'
      BY <2>1, <2>2 DEF QuestionAsked
    <2>4. stage' = "question"
      BY <1>4 DEF AskQuestion
    <2>. QED  BY <1>2, <1>3, <2>3, <2>4 DEF PipeInv, AnswerGiven
  <1>5. CASE Answer
    <2>1. /\ stage = "question" /\ question' = question
          /\ \E raw \in Answers \cup {FormatExpectedAnswer(question.target, question.expected)} :
                verdict' = [answer |-> raw,
                            correct |-> EvaluateAnswer(raw, question.target, question.expected)]
      BY <1>5 DEF Answer
    <2>2. PICK t \in Targets, l \in LocalIndices : question = PlanItem(t, l)
      BY <2>1 DEF PipeInv, QuestionAsked
    <2>3. PlanItem(t, l) = PlanItem(t, l)'
      BY <1>1 DEF PlanItem, QueryShape, ExpectedAnswer
    <2>4. QuestionAsked'
      BY <2>1, <2>2, <2>3 DEF QuestionAsked
    <2>5. PICK raw \in Answers \cup {FormatExpectedAnswer(question.target, question.expected)} :
              verdict' = [answer |-> raw,
                          correct |-> EvaluateAnswer(raw, question.target, question.expected)]
      BY <2>1
    <2>6. PICK v : v = verdict'
      OBVIOUS
    <2>7. v.answer = raw /\ v.correct = EvaluateAnswer(raw, question.target, question.expected)
      BY <2>5, <2>6
    <2>8. AnswerGiven'
      BY <2>1, <2>5, <2>6, <2>7 DEF AnswerGiven
    <2>. QED  BY <1>2, <1>3, <2>4, <2>8 DEF PipeInv
  <1>. QED  BY <1>4, <1>5

LEMMA StepPipe == PipeInv /\ [Next]_vars => PipeInv'
  <1>. SUFFICES ASSUME PipeInv, [Next]_vars PROVE PipeInv'
    OBVIOUS
  <1>1. CASE UNCHANGED vars
    <2>1. UNCHANGED genVars /\ UNCHANGED targetVars /\ UNCHANGED questionVars
      BY <1>1 DEF vars
    <2>2. GenInv'
      BY <2>1, StepGenerates DEF PipeInv
    <2>3. OnGrid' /\ SceneMade'
      BY <2>1 DEF PipeInv, genVars, OnGrid, SceneMade
    <2>4. TargetsMade'
      BY <2>1 DEF PipeInv, genVars, targetVars, TargetsMade
    <2>5. ASSUME NEW t, NEW l PROVE PlanItem(t, l) = PlanItem(t, l)'
      BY <2>1 DEF genVars, targetVars, PlanItem, QueryShape, ExpectedAnswer
    <2>6. QuestionAsked'
      BY <2>1, <2>5 DEF PipeInv, genVars, questionVars, QuestionAsked
    <2>7. AnswerGiven'
      BY <2>1 DEF PipeInv, genVars, questionVars, AnswerGiven
    <2>. QED  BY <2>2, <2>3, <2>4, <2>6, <2>7 DEF PipeInv
  <1>. QED  BY <1>1, PipeGenerates, PipeTargets, PipeText, PipeMedia, PipeQuestion DEF Next

LEMMA PipeInvariant == Spec => []PipeInv
  BY InitPipe, StepPipe, PTL DEF Spec

(* A question is about a shape of the scene.                               *)
LEMMA ItemIs ==
    ASSUME PipeInv, stage \in {"question", "answered"}
    PROVE  /\ question.target \in Targets /\ question.shape \in 1 .. Len(counts)
           /\ question.expected = ExpectedAnswer(question.target, question.shape)
           /\ question.integer_max = config.n_motion_slots * 2
           /\ Made(config, counts, scene)
           /\ DOMAIN queries = 1 .. Len(counts)
           /\ \A i \in 1 .. Len(counts) : queries[i] \in Nat /\ queries[i] < counts[i]
           /\ targets = SceneTargetsOf(scene, queries)
           /\ \E i \in 1 .. Len(counts) : counts[i] > 0
  <1>1. PICK t \in Targets, l \in LocalIndices : question = PlanItem(t, l)
    BY DEF PipeInv, QuestionAsked
  <1>2. /\ question.target = t /\ question.shape = QueryShape(l, scene)
        /\ question.expected = ExpectedAnswer(question.target, question.shape)
        /\ question.integer_max = config.n_motion_slots * 2
    BY <1>1 DEF PlanItem
  <1>3. Made(config, counts, scene)
    BY DEF PipeInv, SceneMade, Early
  <1>4. PICK m \in 1 .. 6 : m = Len(counts)
    BY <1>3 DEF Made
  <1>5. QueryShape(l, scene) \in 1 .. m
    <2>1. Len(scene.shape_paths) = m
      <3>1. PICK Q : Q = Seq(Point)
        OBVIOUS
      <3>2. scene.shape_paths \in [1 .. m -> Q]
        BY <1>3, <1>4, <3>1 DEF Made
      <3>. QED  BY <3>2
    <2>2. l \in Nat
      BY QuestionsAssumption
    <2>3. l % m \in 0 .. m - 1
      BY <2>2
    <2>. QED  BY <2>1, <2>3 DEF QueryShape
  <1>6. /\ DOMAIN queries = 1 .. m
        /\ \A i \in 1 .. m : queries[i] \in Nat /\ queries[i] < counts[i]
        /\ targets = SceneTargetsOf(scene, queries)
    BY <1>4 DEF PipeInv, TargetsMade, Targeted
  <1>7. \E i \in 1 .. Len(counts) : counts[i] > 0
    <2>1. counts[1] \in Nat /\ 1 \in 1 .. m
      BY <1>3, <1>4 DEF Made
    <2>2. counts[1] > 0
      BY <1>6, <2>1
    <2>. QED  BY <1>4, <2>1, <2>2
  <1>. QED  BY <1>1, <1>2, <1>3, <1>4, <1>5, <1>6, <1>7

(* The expected answer of every question is true of its scene: for any     *)
(* grid, number of shapes, events and samples, path, landscape and seed,   *)
(* the quadrants told by the compressed memberships are those the path     *)
(* visits, and the shape of the longest move is the one the events show    *)
(* (generate_all_scene_targets, target_generation.rs:220;                  *)
(* build_plan_item_from_config, flow.rs:606).                              *)
THEOREM QuestionsAreTrue == Spec => []AnswersAreTrue
  <1>1. PipeInv => AnswersAreTrue
    <2>. SUFFICES ASSUME PipeInv, stage = "question" PROVE AnswersAreTrue
      BY DEF AnswersAreTrue
    <2>1. PICK c, i, n, q, t, s : /\ i = question.shape /\ c = config /\ n = counts /\ q = queries
                                  /\ t = targets /\ s = scene
      OBVIOUS
    <2>2. /\ question.target \in Targets /\ i \in 1 .. Len(n)
          /\ question.expected = ExpectedAnswer(question.target, i)
          /\ Made(c, n, s) /\ DOMAIN q = 1 .. Len(n)
          /\ \A j \in 1 .. Len(n) : q[j] \in Nat /\ q[j] < n[j]
          /\ t = SceneTargetsOf(s, q)
          /\ \E j \in 1 .. Len(n) : n[j] > 0
      BY <2>1, ItemIs
    <2>3. PICK path, visited : path = s.shape_paths[i] /\ visited = Visited(path)
      OBVIOUS
    <2>4. /\ [k \in DOMAIN t.oqp[i] |-> DominantQuadrant(t.oqp[i][k]) + 1]
                  = [k \in DOMAIN visited |-> visited[k] + 1]
          /\ t.xct[i] = Len(visited) - 1
          /\ t.zqh[i].quadrant = HardQuadrant(path[t.zqh[i].moves * SamplesPerEvent + 1])
          /\ t.lme = LargestMotionRank(s)
      <3>1. LET u == SceneTargetsOf(s, q)
            IN  /\ [k \in DOMAIN u.oqp[i] |-> DominantQuadrant(u.oqp[i][k]) + 1]
                       = [k \in DOMAIN Visited(s.shape_paths[i]) |-> Visited(s.shape_paths[i])[k] + 1]
                /\ u.xct[i] = Len(Visited(s.shape_paths[i])) - 1
                /\ u.zqh[i].quadrant = HardQuadrant(s.shape_paths[i][u.zqh[i].moves * SamplesPerEvent + 1])
                /\ u.lme = LargestMotionRank(s)
        BY <2>2, TargetsOfScene, SMTT(20)
      <3>. QED  BY <2>2, <2>3, <3>1, Zenon
    <2>5. PICK R : R = {ClassRank(s.identity[e.shape_index]) : e \in Longest(s)}
      OBVIOUS
    <2>6. /\ LargestMotionRank(s) = Min(R)
          /\ \E e \in Longest(s) : /\ ShapeId(WinningShape(s)) = ShapeId(s.identity[e.shape_index])
                                   /\ ClassRank(s.identity[e.shape_index]) = Min(R)
      <3>1. LET ranks == {ClassRank(s.identity[e.shape_index]) : e \in Longest(s)}
            IN  /\ LargestMotionRank(s) = Min(ranks)
                /\ \E e \in Longest(s) : /\ ShapeId(WinningShape(s)) = ShapeId(s.identity[e.shape_index])
                                         /\ ClassRank(s.identity[e.shape_index]) = Min(ranks)
                /\ \E j \in 1 .. Len(n) : WinningShape(s) = s.identity[j]
        <4>1. Made(c, n, s) /\ (\E j \in 1 .. Len(n) : n[j] > 0)
          BY <2>2
        <4>. QED  BY <4>1, WinnerOfScene, Zenon
      <3>. QED  BY <2>5, <3>1, Zenon
    <2>7. CASE question.target = "oqp"
      <3>1. question.expected = [k \in DOMAIN t.oqp[i] |-> DominantQuadrant(t.oqp[i][k]) + 1]
        BY <2>1, <2>2, <2>7 DEF ExpectedAnswer
      <3>2. question.expected = [k \in DOMAIN visited |-> visited[k] + 1]
        BY <2>4, <3>1, Zenon
      <3>. QED  BY <2>1, <2>3, <2>7, <3>2 DEF AnswersAreTrue
    <2>8. CASE question.target = "xct"
      <3>1. question.expected = t.xct[i]
        BY <2>1, <2>2, <2>8 DEF ExpectedAnswer
      <3>. QED  BY <2>1, <2>3, <2>4, <2>8, <3>1 DEF AnswersAreTrue
    <2>9. CASE question.target = "zqh"
      <3>1. question.expected = t.zqh[i].quadrant + 1
        BY <2>1, <2>2, <2>9 DEF ExpectedAnswer
      <3>. QED  BY <2>1, <2>3, <2>4, <2>9, <3>1 DEF AnswersAreTrue
    <2>10. CASE question.target = "lme"
      <3>1. question.expected = ShapeId(WinningShape(s))
        BY <2>1, <2>2, <2>10 DEF ExpectedAnswer
      <3>2. /\ t.lme = Min(R)
            /\ \E e \in Longest(s) : /\ question.expected = ShapeId(s.identity[e.shape_index])
                                     /\ ClassRank(s.identity[e.shape_index]) = Min(R)
        BY <2>4, <2>6, <3>1
      <3>. QED  BY <2>1, <2>5, <2>10, <3>2 DEF AnswersAreTrue, Longest
    <2>. QED  BY <2>2, <2>7, <2>8, <2>9, <2>10 DEF Targets
  <1>. QED  BY <1>1, PipeInvariant, PTL

-------------------------------------------------------------------------------
(* The parts of an answer.  Its words are pairs of a tag and a value. *)
Worded(raw) == raw \in Seq(Range(raw)) /\ \A w \in Range(raw) : w = <<w[1], w[2]>>

Tagged(raw, tag) == {k \in 1 .. Len(raw) : raw[k][1] = tag}

LEMMA ParsedShape ==
    ASSUME NEW raw, Len(raw) \in Nat
    PROVE  /\ Tagged(raw, "type") = {} \/ Tagged(raw, "colour") = {} => ParseShapeAnswer(raw) = NotParsed
           /\ Tagged(raw, "type") # {} /\ Tagged(raw, "colour") # {} =>
                  \E k \in Tagged(raw, "type"), l \in Tagged(raw, "colour") :
                      ParseShapeAnswer(raw) = <<raw[k][2], raw[l][2]>>
  <1>1. PICK I, J : I = Tagged(raw, "type") /\ J = Tagged(raw, "colour")
    OBVIOUS
  <1>2. PICK k, l : k = (IF I # {} THEN Min(I) ELSE 0) /\ l = (IF J # {} THEN Min(J) ELSE 0)
    OBVIOUS
  <1>3. ParseShapeAnswer(raw) = IF k = 0 \/ l = 0 THEN NotParsed ELSE <<raw[k][2], raw[l][2]>>
    <2>1. SelectInSeq(raw, LAMBDA w : w[1] = "type") = k
      BY <1>1, <1>2 DEF SelectInSeq, Tagged
    <2>2. SelectInSeq(raw, LAMBDA w : w[1] = "colour") = l
      BY <1>1, <1>2 DEF SelectInSeq, Tagged
    <2>. QED  BY <2>1, <2>2 DEF ParseShapeAnswer
  <1>4. 0 \notin I /\ 0 \notin J /\ I \subseteq Nat /\ J \subseteq Nat
    BY <1>1 DEF Tagged
  <1>5. (I # {} => k \in I) /\ (J # {} => l \in J)
    BY <1>2, <1>4, Minimum
  <1>. QED  BY <1>1, <1>2, <1>3, <1>4, <1>5

LEMMA SequenceAnswers ==
    ASSUME NEW raw, Worded(raw), NEW m \in Nat, m > 0, NEW expected \in [1 .. m -> 1 .. 4]
    PROVE  (ParseSequence(raw) # NotParsed /\ ParseSequence(raw) = expected)
               <=> raw = [k \in 1 .. m |-> <<"number", expected[k]>>]
  <1>1. PICK n \in Nat : n = Len(raw) /\ DOMAIN raw = 1 .. n /\ raw = [k \in 1 .. n |-> raw[k]]
    BY LenProperties DEF Worded
  <1>2. \A k \in 1 .. n : raw[k] = <<raw[k][1], raw[k][2]>>
    BY <1>1 DEF Worded, Range
  <1>3. expected # NotParsed
    <2>1. 1 \in DOMAIN expected
      OBVIOUS
    <2>. QED  BY <2>1 DEF NotParsed
  <1>4. ASSUME ParseSequence(raw) # NotParsed, ParseSequence(raw) = expected
        PROVE  raw = [k \in 1 .. m |-> <<"number", expected[k]>>]
    <2>1. /\ \A k \in 1 .. n : raw[k][1] = "number" /\ raw[k][2] \in 1 .. 4
          /\ expected = [k \in 1 .. n |-> raw[k][2]]
      BY <1>1, <1>4 DEF ParseSequence
    <2>2. 1 .. n = 1 .. m
      BY <2>1
    <2>3. \A k \in 1 .. m : raw[k] = <<"number", expected[k]>>
      BY <1>2, <2>1, <2>2
    <2>. QED  BY <1>1, <2>2, <2>3
  <1>5. ASSUME raw = [k \in 1 .. m |-> <<"number", expected[k]>>]
        PROVE  ParseSequence(raw) = expected
    <2>1. DOMAIN raw = 1 .. m /\ \A k \in 1 .. m : raw[k][1] = "number" /\ raw[k][2] = expected[k]
      BY <1>5
    <2>2. ParseSequence(raw) = [k \in 1 .. m |-> raw[k][2]]
      BY <2>1 DEF ParseSequence
    <2>. QED  BY <2>1, <2>2
  <1>. QED  BY <1>3, <1>4, <1>5

LEMMA NumberAnswers ==
    ASSUME NEW raw, Worded(raw), NEW expected
    PROVE  /\ (Len(raw) = 1 /\ raw[1][1] = "number" /\ raw[1][2] = expected) <=> raw = <<<<"number", expected>>>>
           /\ expected \in 1 .. 4 =>
                  ((Len(ParseSequence(raw)) = 1 /\ ParseSequence(raw)[1] = expected)
                       <=> raw = <<<<"number", expected>>>>)
  <1>1. PICK n \in Nat : n = Len(raw) /\ DOMAIN raw = 1 .. n /\ raw = [k \in 1 .. n |-> raw[k]]
    BY LenProperties DEF Worded
  <1>2. \A k \in 1 .. n : raw[k] = <<raw[k][1], raw[k][2]>>
    BY <1>1 DEF Worded, Range
  <1>3. ASSUME n = 1, raw[1][1] = "number", raw[1][2] = expected
        PROVE  raw = <<<<"number", expected>>>>
    <2>1. PICK w : w = <<"number", expected>>
      OBVIOUS
    <2>2. raw[1] = w
      BY <1>2, <1>3, <2>1
    <2>3. raw = [k \in 1 .. 1 |-> w]
      BY <1>1, <1>3, <2>2
    <2>4. raw = <<w>>
      BY <2>3
    <2>. QED  BY <2>1, <2>4
  <1>4. ASSUME raw = <<<<"number", expected>>>>
        PROVE  Len(raw) = 1 /\ raw[1][1] = "number" /\ raw[1][2] = expected
    BY <1>4
  <1>5. ASSUME expected \in 1 .. 4, Len(ParseSequence(raw)) = 1, ParseSequence(raw)[1] = expected
        PROVE  n = 1 /\ raw[1][1] = "number" /\ raw[1][2] = expected
    <2>1. ParseSequence(raw) # <<>>
      BY <1>5
    <2>2. (\A k \in 1 .. n : raw[k][1] = "number") /\ ParseSequence(raw) = [k \in 1 .. n |-> raw[k][2]]
      BY <1>1, <2>1 DEF ParseSequence, NotParsed
    <2>3. PICK p : p = [k \in 1 .. n |-> raw[k][2]]
      OBVIOUS
    <2>4. Len(p) = n
      <3>1. PICK P : P = {raw[k][2] : k \in 1 .. n}
        OBVIOUS
      <3>2. p \in [1 .. n -> P]
        BY <2>3, <3>1
      <3>. QED  BY <3>2
    <2>5. n = 1
      BY <1>5, <2>2, <2>3, <2>4
    <2>. QED  BY <1>5, <2>2, <2>3, <2>5
  <1>6. ASSUME expected \in 1 .. 4, raw = <<<<"number", expected>>>>
        PROVE  Len(ParseSequence(raw)) = 1 /\ ParseSequence(raw)[1] = expected
    <2>1. DOMAIN raw = 1 .. 1 /\ raw[1][1] = "number" /\ raw[1][2] = expected
      BY <1>6
    <2>2. ParseSequence(raw) = [k \in 1 .. 1 |-> raw[k][2]]
      BY <1>6, <2>1 DEF ParseSequence
    <2>3. ParseSequence(raw) = <<expected>>
      BY <2>1, <2>2
    <2>. QED  BY <2>3
  <1>. QED  BY <1>1, <1>3, <1>4, <1>5, <1>6

(* The label of a shape is read as the shape, and an answer is right when  *)
(* it names the shape's type and colour and no other.                      *)
LEMMA ShapeAnswers ==
    ASSUME NEW raw, Worded(raw), NEW a, NEW b
    PROVE  LET named(tag) == {w[2] : w \in {w \in Range(raw) : w[1] = tag}}
               right      == ParseShapeAnswer(raw) # NotParsed /\ ParseShapeAnswer(raw) = <<a, b>>
           IN  /\ right => a \in named("type") /\ b \in named("colour")
               /\ named("type") = {a} /\ named("colour") = {b} => right
  <1>1. PICK n \in Nat : n = Len(raw) /\ DOMAIN raw = 1 .. n
    BY LenProperties DEF Worded
  <1>2. PICK T, C : /\ T = {w[2] : w \in {w \in Range(raw) : w[1] = "type"}}
                    /\ C = {w[2] : w \in {w \in Range(raw) : w[1] = "colour"}}
    OBVIOUS
  <1>3. \A k \in Tagged(raw, "type") : raw[k][2] \in T
    BY <1>1, <1>2 DEF Tagged, Range
  <1>4. \A k \in Tagged(raw, "colour") : raw[k][2] \in C
    BY <1>1, <1>2 DEF Tagged, Range
  <1>5. (\E x : x \in T) => Tagged(raw, "type") # {}
    BY <1>1, <1>2 DEF Tagged, Range
  <1>6. (\E x : x \in C) => Tagged(raw, "colour") # {}
    BY <1>1, <1>2 DEF Tagged, Range
  <1>7. ASSUME ParseShapeAnswer(raw) # NotParsed, ParseShapeAnswer(raw) = <<a, b>>
        PROVE  a \in T /\ b \in C
    <2>1. PICK k \in Tagged(raw, "type"), l \in Tagged(raw, "colour") :
              ParseShapeAnswer(raw) = <<raw[k][2], raw[l][2]>>
      BY <1>1, <1>7, ParsedShape
    <2>2. a = raw[k][2] /\ b = raw[l][2]
      BY <1>7, <2>1
    <2>. QED  BY <1>3, <1>4, <2>2
  <1>8. ASSUME T = {a}, C = {b}
        PROVE  ParseShapeAnswer(raw) # NotParsed /\ ParseShapeAnswer(raw) = <<a, b>>
    <2>1. Tagged(raw, "type") # {} /\ Tagged(raw, "colour") # {}
      BY <1>5, <1>6, <1>8
    <2>2. PICK k \in Tagged(raw, "type"), l \in Tagged(raw, "colour") :
              ParseShapeAnswer(raw) = <<raw[k][2], raw[l][2]>>
      BY <1>1, <2>1, ParsedShape
    <2>3. raw[k][2] = a /\ raw[l][2] = b
      BY <1>3, <1>4, <1>8
    <2>. QED  BY <2>2, <2>3 DEF NotParsed
  <1>. QED  BY <1>2, <1>7, <1>8, Zenon

LEMMA LabelIsRead ==
    ASSUME NEW a, NEW b
    PROVE  /\ Worded(NaturalLabel(<<a, b>>))
           /\ \A w \in Range(NaturalLabel(<<a, b>>)) : w = <<"colour", b>> \/ w = <<"type", a>>
           /\ ParseShapeAnswer(NaturalLabel(<<a, b>>)) # NotParsed
           /\ ParseShapeAnswer(NaturalLabel(<<a, b>>)) = <<a, b>>
  <1>1. PICK raw, u, v : /\ raw = NaturalLabel(<<a, b>>) /\ raw = <<u, v>>
                         /\ u = <<"colour", b>> /\ v = <<"type", a>>
    BY DEF NaturalLabel
  <1>2. Range(raw) = {u, v}
    <2>1. DOMAIN raw = {1, 2} /\ raw[1] = u /\ raw[2] = v
      BY <1>1
    <2>. QED  BY <2>1 DEF Range
  <1>3. Worded(raw)
    <2>1. raw \in Seq({u, v})
      <3>1. PICK R : R = {u, v}
        OBVIOUS
      <3>2. u \in R /\ v \in R /\ raw = <<u, v>>
        BY <1>1, <3>1
      <3>3. raw \in Seq(R)
        BY <3>2
      <3>. QED  BY <3>1, <3>3
    <2>2. u = <<u[1], u[2]>> /\ v = <<v[1], v[2]>>
      BY <1>1
    <2>. QED  BY <1>2, <2>1, <2>2 DEF Worded
  <1>4. u[1] = "colour" /\ u[2] = b /\ v[1] = "type" /\ v[2] = a /\ "type" # "colour"
    BY <1>1
  <1>5. {w[2] : w \in {w \in Range(raw) : w[1] = "type"}} = {a}
    BY <1>2, <1>4
  <1>6. {w[2] : w \in {w \in Range(raw) : w[1] = "colour"}} = {b}
    BY <1>2, <1>4
  <1>7. ParseShapeAnswer(raw) # NotParsed /\ ParseShapeAnswer(raw) = <<a, b>>
    <2>1. LET named(tag) == {w[2] : w \in {w \in Range(raw) : w[1] = tag}}
          IN  named("type") = {a} /\ named("colour") = {b} =>
                  ParseShapeAnswer(raw) # NotParsed /\ ParseShapeAnswer(raw) = <<a, b>>
      BY <1>3, ShapeAnswers
    <2>. QED  BY <1>5, <1>6, <2>1, Zenon
  <1>. QED  BY <1>1, <1>2, <1>3, <1>7

(* What is expected of a question of a scene. *)
Expectable(target, expected) ==
    /\ target = "oqp" => \E m \in Nat : m > 0 /\ expected \in [1 .. m -> 1 .. 4]
    /\ target = "zqh" => expected \in 1 .. 4
    /\ target = "lme" => expected = <<expected[1], expected[2]>>

LEMMA KeyIsWorded ==
    ASSUME NEW target \in Targets, NEW expected, Expectable(target, expected)
    PROVE  Worded(FormatExpectedAnswer(target, expected))
  <1>1. PICK raw : raw = FormatExpectedAnswer(target, expected)
    OBVIOUS
  <1>2. CASE target = "oqp"
    <2>1. PICK m \in Nat : expected \in [1 .. m -> 1 .. 4]
      BY <1>2 DEF Expectable
    <2>2. raw = [k \in 1 .. m |-> <<"number", expected[k]>>]
      BY <1>1, <1>2, <2>1 DEF FormatExpectedAnswer
    <2>3. PICK R : R = Range(raw)
      OBVIOUS
    <2>4. raw \in [1 .. m -> R] /\ \A w \in R : w = <<w[1], w[2]>>
      BY <2>2, <2>3 DEF Range
    <2>5. raw \in Seq(R)
      BY <2>4
    <2>. QED  BY <1>1, <2>3, <2>4, <2>5 DEF Worded
  <1>3. CASE target \in {"xct", "zqh"}
    <2>1. PICK w : w = <<"number", expected>> /\ raw = <<w>>
      <3>1. raw = <<<<"number", expected>>>>
        BY <1>1, <1>3 DEF FormatExpectedAnswer
      <3>. QED  BY <3>1
    <2>2. Range(raw) = {w} /\ w = <<w[1], w[2]>> /\ raw \in Seq({w})
      BY <2>1 DEF Range
    <2>. QED  BY <1>1, <2>2 DEF Worded
  <1>4. CASE target = "lme"
    <2>1. PICK a, b : expected = <<a, b>>
      BY <1>4 DEF Expectable
    <2>2. raw = NaturalLabel(<<a, b>>)
      BY <1>1, <1>4, <2>1 DEF FormatExpectedAnswer
    <2>. QED  BY <1>1, <2>2, LabelIsRead
  <1>. QED  BY <1>2, <1>3, <1>4 DEF Targets

(* The evaluation of an answer, worded as answers are. *)
Judged(target, expected, raw, key, correct) ==
    LET named(tag) == {w[2] : w \in {w \in Range(raw) : w[1] = tag}}
    IN  /\ raw = key => correct
        /\ target # "lme" /\ correct => raw = key
        /\ target = "lme" =>
              /\ correct => \A w \in Range(key) : w[2] \in named(w[1])
              /\ (\A w \in Range(key) : named(w[1]) = {w[2]}) => correct

LEMMA KeyIsJudged ==
    ASSUME NEW target \in Targets, NEW expected, Expectable(target, expected), NEW raw, Worded(raw)
    PROVE  Judged(target, expected, raw, FormatExpectedAnswer(target, expected),
                  EvaluateAnswer(raw, target, expected))
  <1>1. PICK key, correct : /\ key = FormatExpectedAnswer(target, expected)
                            /\ correct = EvaluateAnswer(raw, target, expected)
    OBVIOUS
  <1>2. CASE target = "oqp"
    <2>1. PICK m \in Nat : m > 0 /\ expected \in [1 .. m -> 1 .. 4]
      BY <1>2 DEF Expectable
    <2>2. key = [k \in 1 .. m |-> <<"number", expected[k]>>]
      BY <1>1, <1>2, <2>1 DEF FormatExpectedAnswer
    <2>3. correct <=> raw = key
      <3>1. correct = (ParseSequence(raw) # NotParsed /\ ParseSequence(raw) = expected)
        BY <1>1, <1>2 DEF EvaluateAnswer
      <3>2. (ParseSequence(raw) # NotParsed /\ ParseSequence(raw) = expected)
               <=> raw = [k \in 1 .. m |-> <<"number", expected[k]>>]
        BY <2>1, SequenceAnswers
      <3>. QED  BY <2>2, <3>1, <3>2, Zenon
    <2>. QED  BY <1>1, <1>2, <2>3 DEF Judged
  <1>3. CASE target = "xct"
    <2>1. key = <<<<"number", expected>>>>
      BY <1>1, <1>3 DEF FormatExpectedAnswer
    <2>2. correct <=> raw = key
      <3>1. correct = (Len(raw) = 1 /\ raw[1][1] = "number" /\ raw[1][2] = expected)
        BY <1>1, <1>3 DEF EvaluateAnswer
      <3>. QED  BY <2>1, <3>1, NumberAnswers
    <2>. QED  BY <1>1, <1>3, <2>2 DEF Judged
  <1>4. CASE target = "zqh"
    <2>1. key = <<<<"number", expected>>>> /\ expected \in 1 .. 4
      BY <1>1, <1>4 DEF FormatExpectedAnswer, Expectable
    <2>2. correct <=> raw = key
      <3>1. correct = (Len(ParseSequence(raw)) = 1 /\ ParseSequence(raw)[1] = expected)
        BY <1>1, <1>4 DEF EvaluateAnswer
      <3>. QED  BY <2>1, <3>1, NumberAnswers
    <2>. QED  BY <1>1, <1>4, <2>2 DEF Judged
  <1>5. CASE target = "lme"
    <2>1. PICK a, b : expected = <<a, b>>
      BY <1>5 DEF Expectable
    <2>2. PICK u, v : u = <<"colour", b>> /\ v = <<"type", a>>
      OBVIOUS
    <2>3. key = NaturalLabel(<<a, b>>) /\ key = <<u, v>>
      BY <1>1, <1>5, <2>1, <2>2 DEF FormatExpectedAnswer, NaturalLabel
    <2>4. u \in Range(key) /\ v \in Range(key) /\ \A w \in Range(key) : w = u \/ w = v
      <3>1. DOMAIN key = {1, 2} /\ key[1] = u /\ key[2] = v
        BY <2>3
      <3>. QED  BY <3>1 DEF Range
    <2>5. u[1] = "colour" /\ u[2] = b /\ v[1] = "type" /\ v[2] = a
      BY <2>2
    <2>6. correct = (ParseShapeAnswer(raw) # NotParsed /\ ParseShapeAnswer(raw) = <<a, b>>)
      BY <1>1, <1>5, <2>1 DEF EvaluateAnswer
    <2>. DEFINE named(tag) == {w[2] : w \in {w \in Range(raw) : w[1] = tag}}
    <2>7. /\ correct => a \in named("type") /\ b \in named("colour")
          /\ named("type") = {a} /\ named("colour") = {b} => correct
      <3>1. LET each(tag) == {w[2] : w \in {w \in Range(raw) : w[1] = tag}}
                right      == ParseShapeAnswer(raw) # NotParsed /\ ParseShapeAnswer(raw) = <<a, b>>
            IN  /\ right => a \in each("type") /\ b \in each("colour")
                /\ each("type") = {a} /\ each("colour") = {b} => right
        BY ShapeAnswers
      <3>. QED  BY <2>6, <3>1, Zenon
    <2>8. raw = key => correct
      BY <2>3, <2>6, LabelIsRead
    <2>. HIDE DEF named
    <2>9. correct => \A w \in Range(key) : w[2] \in named(w[1])
      BY <2>4, <2>5, <2>7
    <2>10. (\A w \in Range(key) : named(w[1]) = {w[2]}) => correct
      BY <2>4, <2>5, <2>7
    <2>. QED  BY <1>1, <1>5, <2>8, <2>9, <2>10, Zenon DEF Judged, named
  <1>. QED  BY <1>2, <1>3, <1>4, <1>5 DEF Targets

(* What is expected of the question asked. *)
LEMMA ExpectedIs ==
    ASSUME PipeInv, stage \in {"question", "answered"}
    PROVE  Expectable(question.target, question.expected)
  <1>1. PICK c, i, n, q, t, s : /\ i = question.shape /\ c = config /\ n = counts /\ q = queries
                                /\ t = targets /\ s = scene
    OBVIOUS
  <1>2. /\ question.target \in Targets /\ i \in 1 .. Len(n)
        /\ question.expected = ExpectedAnswer(question.target, i)
        /\ Made(c, n, s) /\ DOMAIN q = 1 .. Len(n)
        /\ \A j \in 1 .. Len(n) : q[j] \in Nat /\ q[j] < n[j]
        /\ t = SceneTargetsOf(s, q)
    BY <1>1, ItemIs
  <1>3. PICK u, v : u = SceneTargetsOf(s, q) /\ v = Visited(s.shape_paths[i])
    OBVIOUS
  <1>4. /\ [k \in DOMAIN u.oqp[i] |-> DominantQuadrant(u.oqp[i][k]) + 1] = [k \in DOMAIN v |-> v[k] + 1]
        /\ v \in Seq(0 .. 3) /\ Len(v) > 0
        /\ u.zqh[i].quadrant \in 0 .. 3
    <2>1. LET x == SceneTargetsOf(s, q)
          IN  /\ [k \in DOMAIN x.oqp[i] |-> DominantQuadrant(x.oqp[i][k]) + 1]
                     = [k \in DOMAIN Visited(s.shape_paths[i]) |-> Visited(s.shape_paths[i])[k] + 1]
              /\ Visited(s.shape_paths[i]) \in Seq(0 .. 3) /\ Len(Visited(s.shape_paths[i])) > 0
              /\ x.zqh[i].quadrant \in 0 .. 3
      BY <1>2, TargetsOfScene, SMTT(20)
    <2>. QED  BY <1>3, <2>1, Zenon
  <1>5. ASSUME question.target = "oqp"
        PROVE  \E m \in Nat : m > 0 /\ question.expected \in [1 .. m -> 1 .. 4]
    <2>1. question.expected = [k \in DOMAIN t.oqp[i] |-> DominantQuadrant(t.oqp[i][k]) + 1]
      BY <1>1, <1>2, <1>5 DEF ExpectedAnswer
    <2>2. question.expected = [k \in DOMAIN v |-> v[k] + 1]
      BY <1>2, <1>3, <1>4, <2>1, Zenon
    <2>3. PICK m \in Nat : m = Len(v) /\ m > 0 /\ DOMAIN v = 1 .. m
      BY <1>4, LenProperties
    <2>4. \A k \in 1 .. m : v[k] \in 0 .. 3
      BY <1>4, <2>3, ElementOfSeq
    <2>. QED  BY <2>2, <2>3, <2>4
  <1>6. ASSUME question.target = "zqh" PROVE question.expected \in 1 .. 4
    <2>1. question.expected = t.zqh[i].quadrant + 1
      BY <1>1, <1>2, <1>6 DEF ExpectedAnswer
    <2>. QED  BY <1>2, <1>3, <1>4, <2>1
  <1>7. ASSUME question.target = "lme"
        PROVE  question.expected = <<question.expected[1], question.expected[2]>>
    <2>1. question.expected = ShapeId(WinningShape(s))
      BY <1>1, <1>2, <1>7 DEF ExpectedAnswer
    <2>. QED  BY <2>1 DEF ShapeId
  <1>. QED  BY <1>5, <1>6, <1>7 DEF Expectable

(* The shapes of a scene are called by names of their own. *)
LEMMA ShapesOfScene ==
    ASSUME NEW c, NEW n, Made(c, n, scene)
    PROVE  /\ DOMAIN SceneShapes = 1 .. Len(n) /\ 1 \in 1 .. Len(n)
           /\ \A k \in 1 .. Len(n) :
                 /\ scene.identity[k] \in ShapeColorPairs
                 /\ SceneShapes[k] = ShapeId(scene.identity[k])
                 /\ SceneShapes[k] # None /\ NaturalLabel(SceneShapes[k]) # None
                 /\ SceneShapes[k] \in Range(SceneShapes)
                 /\ ParseShapeAnswer(NaturalLabel(SceneShapes[k])) = SceneShapes[k]
                 /\ ParseShapeAnswer(NaturalLabel(SceneShapes[k])) # NotParsed
           /\ \A j, k \in 1 .. Len(n) : SceneShapes[j] = SceneShapes[k] => j = k
  <1>0. PICK N \in 1 .. 6 : N = Len(n)
    <2>1. Len(n) \in 1 .. 6
      BY DEF Made
    <2>. QED  BY <2>1
  <1>1. PICK f, g : N = Len(n) /\ f = scene.identity /\ g = SceneShapes
    BY <1>0
  <1>2. f \in [1 .. N -> ShapeColorPairs] /\ IsInjective(f)
    BY <1>1 DEF Made, PairIdentities
  <1>3. g = [k \in 1 .. N |-> ShapeId(f[k])]
    BY <1>1, <1>2 DEF SceneShapes
  <1>4. ASSUME NEW k \in 1 .. N
        PROVE  /\ f[k] \in ShapeColorPairs /\ g[k] = ShapeId(f[k]) /\ g[k] \in Range(g)
               /\ g[k] # None /\ NaturalLabel(g[k]) # None
               /\ ParseShapeAnswer(NaturalLabel(g[k])) = g[k]
               /\ ParseShapeAnswer(NaturalLabel(g[k])) # NotParsed
    <2>1. f[k] \in ShapeColorPairs /\ g[k] = ShapeId(f[k]) /\ g[k] \in Range(g)
      BY <1>2, <1>3 DEF Range
    <2>2. g[k] # None /\ NaturalLabel(g[k]) # None
      BY <2>1, NoneAssumption
    <2>3. PICK a, b : g[k] = <<a, b>>
      BY <2>1 DEF ShapeId
    <2>4. ParseShapeAnswer(NaturalLabel(g[k])) = g[k] /\ ParseShapeAnswer(NaturalLabel(g[k])) # NotParsed
      BY <2>3, LabelIsRead
    <2>. QED  BY <2>1, <2>2, <2>4
  <1>5. ASSUME NEW j \in 1 .. N, NEW k \in 1 .. N, g[j] = g[k] PROVE j = k
    <2>1. f[j] = f[k]
      BY <1>4, <1>5, ShapeIds
    <2>. QED  BY <1>2, <2>1 DEF IsInjective
  <1>6. 1 \in 1 .. N /\ DOMAIN g = 1 .. N
    BY <1>3
  <1>. QED  BY <1>1, <1>4, <1>5, <1>6

(* The answer shown as expected is judged correct; no sequence or number   *)
(* but it is, and a shape is judged by the type and the colour it names;   *)
(* of the labels offered exactly one is right, and a shape is heard when   *)
(* its label is asked for (evaluate_answer, server.rs:1270; get_question,  *)
(* mcp.rs:213).                                                            *)
THEOREM KeysAreAccepted == Spec => []AnswerKeyIsAccepted
  <1>1. PipeInv => AnswerKeyIsAccepted
    <2>. SUFFICES ASSUME PipeInv PROVE AnswerKeyIsAccepted
      OBVIOUS
    <2>1. ASSUME stage = "answered"
          PROVE  Judged(question.target, question.expected, verdict.answer,
                        FormatExpectedAnswer(question.target, question.expected), verdict.correct)
      <3>1. PICK target, expected, raw : /\ target = question.target /\ expected = question.expected
                                         /\ raw = verdict.answer
        OBVIOUS
      <3>2. target \in Targets /\ Expectable(target, expected)
        BY <2>1, <3>1, ItemIs, ExpectedIs
      <3>3. /\ raw \in Answers \cup {FormatExpectedAnswer(target, expected)}
            /\ verdict.correct = EvaluateAnswer(raw, target, expected)
        BY <2>1, <3>1 DEF PipeInv, AnswerGiven
      <3>4. Worded(raw)
        <4>1. CASE raw \in Answers
          BY <4>1, QuestionsAssumption DEF Worded
        <4>2. CASE raw = FormatExpectedAnswer(target, expected)
          BY <3>2, <4>2, KeyIsWorded
        <4>. QED  BY <3>3, <4>1, <4>2
      <3>5. Judged(target, expected, raw, FormatExpectedAnswer(target, expected),
                   EvaluateAnswer(raw, target, expected))
        BY <3>2, <3>4, KeyIsJudged
      <3>. QED  BY <3>1, <3>3, <3>5, Zenon
    <2>2. ASSUME stage = "question"
          PROVE  LET told   == GetQuestion(question)
                     labels == told.available_shapes
                 IN  /\ question.target = "lme" =>
                           /\ Cardinality({k \in DOMAIN labels :
                                  EvaluateAnswer(labels[k], "lme", question.expected)}) = 1
                           /\ \A k \in DOMAIN labels :
                                  ResolveSoundShape(question, labels[k]) = SceneShapes[k]
                           /\ told.sound_reference \in Range(SceneShapes)
                     /\ question.target # "lme" =>
                           told.sound_reference = ShapeId(scene.identity[question.shape])
      <3>1. PICK c, n, g : c = config /\ n = counts /\ g = SceneShapes
        OBVIOUS
      <3>2. /\ Made(c, n, scene) /\ question.shape \in 1 .. Len(n)
            /\ question.expected = ExpectedAnswer(question.target, question.shape)
            /\ \E i \in 1 .. Len(n) : n[i] > 0
        BY <2>2, <3>1, ItemIs
      <3>3. /\ DOMAIN g = 1 .. Len(n) /\ 1 \in 1 .. Len(n)
            /\ \A k \in 1 .. Len(n) :
                  /\ g[k] = ShapeId(scene.identity[k])
                  /\ g[k] # None /\ NaturalLabel(g[k]) # None /\ g[k] \in Range(g)
                  /\ ParseShapeAnswer(NaturalLabel(g[k])) = g[k]
                  /\ ParseShapeAnswer(NaturalLabel(g[k])) # NotParsed
            /\ \A j, k \in 1 .. Len(n) : g[j] = g[k] => j = k
        BY <3>1, <3>2, ShapesOfScene
      <3>4. PICK told, labels : told = GetQuestion(question) /\ labels = told.available_shapes
        OBVIOUS
      <3>5. ASSUME question.target = "lme"
            PROVE  /\ Cardinality({k \in DOMAIN labels :
                              EvaluateAnswer(labels[k], "lme", question.expected)}) = 1
                   /\ \A k \in DOMAIN labels : ResolveSoundShape(question, labels[k]) = SceneShapes[k]
                   /\ told.sound_reference \in Range(SceneShapes)
        <4>1. labels = [k \in 1 .. Len(n) |-> NaturalLabel(g[k])]
          BY <3>1, <3>3, <3>4, <3>5 DEF GetQuestion
        <4>2. told.sound_reference = ResolveSoundShape(question, None)
          BY <3>4 DEF GetQuestion
        <4>3. NamedShape(question) = None
          BY <3>5 DEF NamedShape
        <4>4. ResolveSoundShape(question, None) = g[1]
          <5>1. g[1] \in Range(g)
            BY <3>3
          <5>. QED  BY <3>1, <4>3, <5>1 DEF ResolveSoundShape
        <4>5. ASSUME NEW k \in 1 .. Len(n)
              PROVE  ResolveSoundShape(question, labels[k]) = g[k]
          <5>1. labels[k] = NaturalLabel(g[k]) /\ labels[k] # None /\ ParseShapeAnswer(labels[k]) = g[k]
                /\ g[k] \in Range(g)
            BY <3>3, <4>1
          <5>2. PICK label, w : label = labels[k] /\ w = g[k]
            OBVIOUS
          <5>3. label # None /\ ParseShapeAnswer(label) = w /\ w \in Range(SceneShapes)
            BY <3>1, <5>1, <5>2
          <5>4. ResolveSoundShape(question, label)
                    = IF ParseShapeAnswer(label) \in Range(SceneShapes) THEN ParseShapeAnswer(label) ELSE NotParsed
            BY <5>3 DEF ResolveSoundShape
          <5>. QED  BY <5>2, <5>3, <5>4
        <4>6. PICK i \in 1 .. Len(n) : question.expected = g[i]
          <5>1. question.expected = ShapeId(WinningShape(scene))
            BY <3>2, <3>5 DEF ExpectedAnswer
          <5>2. LET ranks == {ClassRank(scene.identity[e.shape_index]) : e \in Longest(scene)}
                IN  /\ LargestMotionRank(scene) = Min(ranks)
                    /\ \E e \in Longest(scene) :
                          /\ ShapeId(WinningShape(scene)) = ShapeId(scene.identity[e.shape_index])
                          /\ ClassRank(scene.identity[e.shape_index]) = Min(ranks)
                    /\ \E j \in 1 .. Len(n) : WinningShape(scene) = scene.identity[j]
            <6>1. Made(c, n, scene) /\ (\E j \in 1 .. Len(n) : n[j] > 0)
              BY <3>2
            <6>. QED  BY <6>1, WinnerOfScene, Zenon
          <5>3. PICK j \in 1 .. Len(n) : WinningShape(scene) = scene.identity[j]
            BY <5>2
          <5>. QED  BY <3>3, <5>1, <5>3
        <4>7. \A k \in 1 .. Len(n) : EvaluateAnswer(labels[k], "lme", question.expected) <=> k = i
          <5>. TAKE k \in 1 .. Len(n)
          <5>1. /\ labels[k] = NaturalLabel(g[k]) /\ ParseShapeAnswer(labels[k]) = g[k]
                /\ ParseShapeAnswer(labels[k]) # NotParsed
            BY <3>3, <4>1
          <5>2. EvaluateAnswer(labels[k], "lme", question.expected)
                    = (ParseShapeAnswer(labels[k]) # NotParsed
                       /\ ParseShapeAnswer(labels[k]) = question.expected)
            BY DEF EvaluateAnswer
          <5>3. g[k] = g[i] <=> k = i
            BY <3>3
          <5>. QED  BY <4>6, <5>1, <5>2, <5>3
        <4>8. {k \in DOMAIN labels : EvaluateAnswer(labels[k], "lme", question.expected)} = {i}
          BY <4>1, <4>7
        <4>9. Cardinality({i}) = 1
          BY FS_Singleton
        <4>10. \A k \in DOMAIN labels : ResolveSoundShape(question, labels[k]) = SceneShapes[k]
          BY <3>1, <4>1, <4>5
        <4>11. told.sound_reference \in Range(SceneShapes)
          BY <3>1, <3>3, <4>2, <4>4
        <4>. QED  BY <4>8, <4>9, <4>10, <4>11, Zenon
      <3>6. ASSUME question.target # "lme"
            PROVE  told.sound_reference = ShapeId(scene.identity[question.shape])
        <4>1. PICK k \in 1 .. Len(n) : k = question.shape
          BY <3>2
        <4>2. NamedShape(question) = g[k] /\ g[k] # None /\ g[k] \in Range(g)
          BY <3>1, <3>3, <3>6, <4>1 DEF NamedShape
        <4>3. ResolveSoundShape(question, None) = g[k]
          BY <3>1, <4>2 DEF ResolveSoundShape
        <4>4. told.sound_reference = ResolveSoundShape(question, None)
          BY <3>4 DEF GetQuestion
        <4>. QED  BY <3>3, <4>1, <4>3, <4>4
      <3>. QED  BY <3>4, <3>5, <3>6, Zenon
    <2>. QED  BY <2>1, <2>2, Zenon DEF AnswerKeyIsAccepted, Judged
  <1>. QED  BY <1>1, PipeInvariant, PTL

-------------------------------------------------------------------------------
(* Rounding away from zero keeps the side of the axis a coordinate is on.  *)
LEMMA RoundedUp ==
    ASSUME NEW w \in Nat
    PROVE  LET up == ((w + TableStep - 1) \div TableStep) * TableStep
           IN  up \in Nat /\ up >= w
  <1>1. PICK t \in Nat : t = TableStep /\ t > 0
    BY TableAssumption
  <1>2. PICK a \in Int : a = w + t - 1
    OBVIOUS
  <1>3. PICK q \in Int, r \in 0 .. t - 1 : q = a \div t /\ r = a % t /\ a = t * q + r
    BY <1>1, <1>2, FloorDivision
  <1>4. PICK p \in Int : p = t * q
    BY <1>1
  <1>5. p = a - r
    BY <1>3, <1>4
  <1>6. p \in Nat /\ p >= w
    BY <1>1, <1>2, <1>3, <1>5
  <1>7. q * t = p
    BY <1>1, <1>4
  <1>. QED  BY <1>1, <1>2, <1>3, <1>6, <1>7

LEMMA RoundAwaySign ==
    ASSUME NEW v \in Int
    PROVE  /\ RoundAway(v) \in Int
           /\ RoundAway(v) >= 0 <=> v >= 0
           /\ RoundAway(v) > 0 <=> v > 0
  <1>. DEFINE up(w) == ((w + TableStep - 1) \div TableStep) * TableStep
  <1>1. \A w \in Nat : up(w) \in Nat /\ up(w) >= w
    BY RoundedUp
  <1>2. up(0) = 0
    <2>1. PICK t \in Nat : t = TableStep /\ t > 0
      BY TableAssumption
    <2>2. (t - 1) \div t = 0
      <3>1. PICK q \in Int, r \in 0 .. t - 1 : q = (t - 1) \div t /\ t - 1 = t * q + r
        BY <2>1, FloorDivision
      <3>2. ASSUME q >= 1 PROVE FALSE
        <4>1. t * q >= t
          <5>1. 1 * t <= q * t /\ q * t \in Nat
            BY <2>1, <3>1, <3>2, Products
          <5>. QED  BY <2>1, <3>1, <5>1
        <4>. QED  BY <2>1, <3>1, <4>1
      <3>3. ASSUME q <= -1 PROVE FALSE
        <4>1. PICK x \in Nat : q = -1 - x
          <5>1. -1 - q \in Nat /\ q = -1 - (-1 - q)
            BY <3>1, <3>3
          <5>. QED  BY <5>1
        <4>2. PICK y \in Nat : y = t * x
          BY <2>1
        <4>3. t * q = -t - y
          BY <2>1, <4>1, <4>2
        <4>. QED  BY <2>1, <3>1, <4>2, <4>3
      <3>. QED  BY <3>1, <3>2, <3>3
    <2>3. up(0) = ((t - 1) \div t) * t
      BY <2>1
    <2>. QED  BY <2>1, <2>2, <2>3
  <1>3. RoundAway(v) = IF v >= 0 THEN up(v) ELSE - up(- v)
    BY DEF RoundAway
  <1>. HIDE DEF up
  <1>4. CASE v >= 0
    <2>1. v \in Nat /\ RoundAway(v) = up(v)
      BY <1>3, <1>4
    <2>2. up(v) \in Nat /\ up(v) >= v
      BY <1>1, <2>1
    <2>3. v = 0 => up(v) = 0
      BY <1>2
    <2>. QED  BY <2>1, <2>2, <2>3
  <1>5. CASE v < 0
    <2>1. - v \in Nat /\ RoundAway(v) = - up(- v)
      BY <1>3, <1>5
    <2>2. PICK u \in Nat : u = up(- v) /\ u >= - v
      BY <1>1, <2>1
    <2>. QED  BY <1>5, <2>1, <2>2
  <1>. QED  BY <1>4, <1>5

LEMMA RoundedQuadrant ==
    ASSUME NEW p \in Point
    PROVE  HardQuadrant([d \in DOMAIN p |-> RoundAway(p[d])]) = HardQuadrant(p)
  <1>1. PICK a \in Int, b \in Int : p = <<a, b>>
    BY GridAssumption DEF Point
  <1>2. PICK r : r = [d \in DOMAIN p |-> RoundAway(p[d])]
    OBVIOUS
  <1>3. r[1] = RoundAway(a) /\ r[2] = RoundAway(b)
    <2>1. DOMAIN p = {1, 2} /\ p[1] = a /\ p[2] = b
      BY <1>1
    <2>. QED  BY <1>2, <2>1
  <1>4. /\ r[1] \in Int /\ (r[1] >= 0 <=> a >= 0) /\ (r[1] > 0 <=> a > 0)
        /\ r[2] \in Int /\ (r[2] >= 0 <=> b >= 0)
    BY <1>3, RoundAwaySign
  <1>5. HardQuadrant(r) = HardQuadrant(p)
    BY <1>1, <1>4 DEF HardQuadrant
  <1>. QED  BY <1>2, <1>5

Written(p) == [d \in DOMAIN p |-> RoundAway(p[d])]

LEMMA RowsOfScene ==
    ASSUME NEW s, NEW k \in DOMAIN s.motion_events
    PROVE  LET rows == TabularCsv(TabularMotionRows(s))
               e    == s.motion_events[k]
           IN  /\ DOMAIN rows = DOMAIN s.motion_events
               /\ rows[k].shape_id = ShapeId(s.identity[e.shape_index])
               /\ rows[k].start = Written(e.start_point) /\ rows[k].end = Written(e.end_point)
  <1>1. PICK e, r, x, y : /\ e = s.motion_events[k]
                          /\ x = ShapeId(s.identity[e.shape_index]) /\ y = SlotPeers(s, e)
                          /\ r = [event_index |-> e.global_event_index, shape_id |-> x,
                                  start |-> e.start_point, end |-> e.end_point,
                                  simultaneous_event_ids |-> y]
    OBVIOUS
  <1>2. PICK rows : rows = TabularMotionRows(s)
    OBVIOUS
  <1>3. DOMAIN rows = DOMAIN s.motion_events /\ rows[k] = r
    BY <1>1, <1>2 DEF TabularMotionRows
  <1>4. PICK csv : csv = TabularCsv(rows)
    OBVIOUS
  <1>5. /\ DOMAIN csv = DOMAIN rows
        /\ csv[k] = [r EXCEPT !.start = Written(@), !.end = Written(@)]
    BY <1>3, <1>4 DEF TabularCsv, Written
  <1>6. PICK a, b : a = Written(e.start_point) /\ b = Written(e.end_point)
    OBVIOUS
  <1>7. csv[k] = [event_index |-> e.global_event_index, shape_id |-> x, start |-> a, end |-> b,
                  simultaneous_event_ids |-> y]
    BY <1>1, <1>5, <1>6
  <1>. QED  BY <1>1, <1>2, <1>3, <1>4, <1>5, <1>6, <1>7

(* The rows of a shape, by its name. *)
LEMMA RowsOfShape ==
    ASSUME NEW c, NEW n, NEW s, Made(c, n, s), NEW i \in 1 .. Len(n), NEW at, Arranged(n, s, at),
           NEW rows, rows = TabularCsv(TabularMotionRows(s))
    PROVE  /\ at[i - 1] \in Nat /\ n[i] \in Nat
           /\ {k \in DOMAIN rows : rows[k].shape_id = ShapeId(s.identity[i])}
                  = at[i - 1] + 1 .. at[i - 1] + n[i]
           /\ \A k \in 1 .. n[i] :
                  /\ rows[at[i - 1] + k].start = Written(s.shape_paths[i][(k - 1) * SamplesPerEvent + 1])
                  /\ rows[at[i - 1] + k].end = Written(s.shape_paths[i][k * SamplesPerEvent + 1])
                  /\ s.shape_paths[i][k * SamplesPerEvent + 1] \in Point
  <1>0. PICK N \in Nat : N = Len(n)
    <2>1. Len(n) \in Nat
      BY DEF Made
    <2>. QED  BY <2>1
  <1>1. PICK ev : N = Len(n) /\ ev = s.motion_events
    BY <1>0
  <1>2. at \in [0 .. N -> Nat] /\ n \in [1 .. N -> Nat]
    BY <1>1, LenProperties DEF Arranged, Made
  <1>3. at[i - 1] \in Nat /\ n[i] \in Nat
    BY <1>1, <1>2
  <1>4. DOMAIN rows = 1 .. at[N] /\ DOMAIN ev = 1 .. at[N]
    <2>1. DOMAIN ev = 1 .. at[N]
      BY <1>1, SMTT(20) DEF Arranged
    <2>2. DOMAIN rows = DOMAIN ev
      BY <1>1 DEF TabularCsv, TabularMotionRows
    <2>. QED  BY <2>1, <2>2
  <1>5. s.identity \in [1 .. N -> ShapeColorPairs] /\ IsInjective(s.identity)
    BY <1>1 DEF Made, PairIdentities
  <1>6. ASSUME NEW j \in 1 .. N, NEW k \in 1 .. n[j]
        PROVE  /\ at[j - 1] + k \in 1 .. at[N]
               /\ rows[at[j - 1] + k].shape_id = ShapeId(s.identity[j])
               /\ rows[at[j - 1] + k].start = Written(s.shape_paths[j][(k - 1) * SamplesPerEvent + 1])
               /\ rows[at[j - 1] + k].end = Written(s.shape_paths[j][k * SamplesPerEvent + 1])
               /\ s.shape_paths[j][k * SamplesPerEvent + 1] \in Point
    <2>1. PICK p : p = at[j - 1] + k
      OBVIOUS
    <2>2. p \in 1 .. at[N] /\ MoveOf(s, ev[p], j, k)
      BY <1>1, <2>1 DEF Arranged
    <2>3. /\ rows[p].shape_id = ShapeId(s.identity[ev[p].shape_index])
          /\ rows[p].start = Written(ev[p].start_point) /\ rows[p].end = Written(ev[p].end_point)
      <3>1. p \in DOMAIN s.motion_events
        BY <1>1, <1>4, <2>2
      <3>2. LET r == TabularCsv(TabularMotionRows(s))
                e == s.motion_events[p]
            IN  /\ DOMAIN r = DOMAIN s.motion_events
                /\ r[p].shape_id = ShapeId(s.identity[e.shape_index])
                /\ r[p].start = Written(e.start_point) /\ r[p].end = Written(e.end_point)
        BY <3>1, RowsOfScene, Zenon
      <3>. QED  BY <1>1, <3>2, Zenon
    <2>. QED  BY <2>1, <2>2, <2>3 DEF MoveOf
  <1>7. ASSUME NEW p \in DOMAIN rows, rows[p].shape_id = ShapeId(s.identity[i])
        PROVE  p \in at[i - 1] + 1 .. at[i - 1] + n[i]
    <2>1. PICK j \in 1 .. N : \E k \in 1 .. n[j] : p = at[j - 1] + k
      BY <1>1, <1>4, <1>7 DEF Arranged
    <2>2. PICK k \in 1 .. n[j] : p = at[j - 1] + k
      BY <2>1
    <2>3. ShapeId(s.identity[j]) = ShapeId(s.identity[i])
      BY <1>6, <1>7, <2>2
    <2>4. s.identity[j] = s.identity[i]
      <3>1. s.identity[j] \in ShapeColorPairs /\ s.identity[i] \in ShapeColorPairs
        BY <1>1, <1>5
      <3>. QED  BY <2>3, <3>1, ShapeIds
    <2>5. j = i
      BY <1>1, <1>5, <2>4 DEF IsInjective
    <2>. QED  BY <1>3, <2>2, <2>5
  <1>8. ASSUME NEW p \in at[i - 1] + 1 .. at[i - 1] + n[i]
        PROVE  p \in DOMAIN rows /\ rows[p].shape_id = ShapeId(s.identity[i])
    <2>1. PICK k \in 1 .. n[i] : p = at[i - 1] + k
      <3>1. p - at[i - 1] \in 1 .. n[i] /\ p = at[i - 1] + (p - at[i - 1])
        BY <1>3
      <3>. QED  BY <3>1
    <2>. QED  BY <1>1, <1>4, <1>6, <2>1
  <1>9. {k \in DOMAIN rows : rows[k].shape_id = ShapeId(s.identity[i])}
            = at[i - 1] + 1 .. at[i - 1] + n[i]
    BY <1>7, <1>8
  <1>. QED  BY <1>1, <1>3, <1>6, <1>9

(* The table alone tells where each shape is after the queried move: its   *)
(* rows, found by the shape's name, are one for each move, join end to     *)
(* start, and keep, rounded, the target's quadrant, for any grid and any   *)
(* step of rounding (serialize_tabular_csv_inner,                          *)
(* tabular_encoding.rs:320).                                               *)
THEOREM TableIsEnough == Spec => []TableTellsTheTarget
  <1>1. PipeInv => TableTellsTheTarget
    <2>. SUFFICES ASSUME PipeInv, stage = "targets",
                         NEW rows, rows = TabularCsv(TabularMotionRows(scene)),
                         NEW i \in DOMAIN scene.identity
                  PROVE  LET own     == {k \in DOMAIN rows : rows[k].shape_id = ShapeId(scene.identity[i])}
                             upTo(k) == Cardinality({j \in own : j <= k})
                         IN  /\ Cardinality(own) = counts[i]
                             /\ \A j, k \in own : upTo(k) = upTo(j) + 1 => rows[j].end = rows[k].start
                             /\ \A k \in own : upTo(k) = targets.zqh[i].moves =>
                                                   HardQuadrant(rows[k].end) = targets.zqh[i].quadrant
      BY Zenon DEF TableTellsTheTarget
    <2>1. PICK c, n, q, t, s : c = config /\ n = counts /\ q = queries /\ t = targets /\ s = scene
      OBVIOUS
    <2>2. /\ Made(c, n, s) /\ DOMAIN q = 1 .. Len(n)
          /\ \A j \in 1 .. Len(n) : q[j] \in Nat /\ q[j] < n[j]
          /\ t = SceneTargetsOf(s, q)
      BY <2>1 DEF PipeInv, SceneMade, TargetsMade, Early, Targeted
    <2>3. i \in 1 .. Len(n)
      BY <2>1, <2>2 DEF Made, PairIdentities
    <2>4. PICK at : Arranged(n, s, at)
      BY <2>2, MadeArranged
    <2>5. PICK own : own = {k \in DOMAIN rows : rows[k].shape_id = ShapeId(scene.identity[i])}
      OBVIOUS
    <2>6. PICK b \in Nat, m \in Nat : b = at[i - 1] /\ m = n[i]
      <3>1. at[i - 1] \in Nat /\ n[i] \in Nat
        BY <2>1, <2>2, <2>3, <2>4, RowsOfShape
      <3>. QED  BY <3>1
    <2>7. PICK path : path = s.shape_paths[i]
      OBVIOUS
    <2>8. /\ own = b + 1 .. b + m
          /\ \A k \in 1 .. m : /\ rows[b + k].start = Written(path[(k - 1) * SamplesPerEvent + 1])
                               /\ rows[b + k].end = Written(path[k * SamplesPerEvent + 1])
                               /\ path[k * SamplesPerEvent + 1] \in Point
      <3>1. rows = TabularCsv(TabularMotionRows(s))
        BY <2>1
      <3>2. /\ {k \in DOMAIN rows : rows[k].shape_id = ShapeId(s.identity[i])}
                   = at[i - 1] + 1 .. at[i - 1] + n[i]
            /\ \A k \in 1 .. n[i] :
                   /\ rows[at[i - 1] + k].start = Written(s.shape_paths[i][(k - 1) * SamplesPerEvent + 1])
                   /\ rows[at[i - 1] + k].end = Written(s.shape_paths[i][k * SamplesPerEvent + 1])
                   /\ s.shape_paths[i][k * SamplesPerEvent + 1] \in Point
        BY <2>2, <2>3, <2>4, <3>1, RowsOfShape, SMTT(30)
      <3>. QED  BY <2>1, <2>5, <2>6, <2>7, <3>2
    <2>. DEFINE upTo(k) == Cardinality({j \in own : j <= k})
    <2>9. ASSUME NEW k \in own PROVE k - b \in 1 .. m /\ upTo(k) = k - b
      <3>1. k \in b + 1 .. b + m /\ b + 1 \in Int /\ k \in Int
        BY <2>8
      <3>2. {j \in own : j <= k} = b + 1 .. k
        BY <2>8, <3>1
      <3>3. Cardinality(b + 1 .. k) = IF b + 1 > k THEN 0 ELSE k - (b + 1) + 1
        BY <3>1, FS_Interval
      <3>4. Cardinality(b + 1 .. k) = k - b
        BY <3>1, <3>3
      <3>5. upTo(k) = k - b
        BY <3>2, <3>4
      <3>6. k - b \in 1 .. m
        BY <3>1
      <3>. QED  BY <3>5, <3>6
    <2>10. Cardinality(own) = m
      <3>1. b + 1 \in Int /\ b + m \in Int
        OBVIOUS
      <3>2. Cardinality(b + 1 .. b + m) = IF b + 1 > b + m THEN 0 ELSE b + m - (b + 1) + 1
        BY <3>1, FS_Interval
      <3>. QED  BY <2>8, <3>2
    <2>. HIDE DEF upTo
    <2>11. ASSUME NEW j \in own, NEW k \in own, upTo(k) = upTo(j) + 1
           PROVE  rows[j].end = rows[k].start
      <3>1. PICK x \in 1 .. m, y \in 1 .. m : x = j - b /\ y = k - b
        BY <2>9
      <3>2. y = x + 1 /\ j = b + x /\ k = b + y
        BY <2>8, <2>9, <2>11, <3>1
      <3>3. y - 1 = x
        BY <3>2
      <3>4. rows[k].start = Written(path[x * SamplesPerEvent + 1])
        BY <2>8, <3>2, <3>3
      <3>5. rows[j].end = Written(path[x * SamplesPerEvent + 1])
        BY <2>8, <3>2
      <3>. QED  BY <3>4, <3>5
    <2>12. ASSUME NEW k \in own, upTo(k) = t.zqh[i].moves
           PROVE  HardQuadrant(rows[k].end) = t.zqh[i].quadrant
      <3>1. t.zqh[i].quadrant = HardQuadrant(path[t.zqh[i].moves * SamplesPerEvent + 1])
        <4>1. LET u == SceneTargetsOf(s, q)
              IN  u.zqh[i].quadrant = HardQuadrant(s.shape_paths[i][u.zqh[i].moves * SamplesPerEvent + 1])
          BY <2>2, <2>3, TargetsOfScene
        <4>. QED  BY <2>2, <2>7, <4>1, Zenon
      <3>2. PICK x \in 1 .. m : x = k - b /\ x = t.zqh[i].moves /\ k = b + x
        <4>1. k - b \in 1 .. m /\ k - b = t.zqh[i].moves
          BY <2>9, <2>12
        <4>2. k = b + (k - b)
          BY <2>8
        <4>. QED  BY <4>1, <4>2
      <3>3. PICK p \in Point : p = path[x * SamplesPerEvent + 1] /\ rows[k].end = Written(p)
        BY <2>8, <3>2
      <3>4. HardQuadrant(Written(p)) = HardQuadrant(p)
        BY RoundedQuadrant DEF Written
      <3>. QED  BY <3>1, <3>2, <3>3, <3>4
    <2>. QED  BY <2>1, <2>5, <2>6, <2>10, <2>11, <2>12 DEF upTo
  <1>. QED  BY <1>1, PipeInvariant, PTL

-------------------------------------------------------------------------------
-------------------------------------------------------------------------------
(* When the events of a scene are played, for how long and how eased.      *)
Timed(c, n, s, at) ==
    /\ at[Len(n)] = 0 => s.motion_events = <<>>
    /\ \A p \in 1 .. at[Len(n)] :
           /\ s.motion_events[p].time_slot \in Nat
           /\ s.motion_events[p].time_slot < c.n_motion_slots
           /\ s.motion_events[p].duration_frames = c.event_duration_frames
           /\ s.motion_events[p].easing = c.easing_family
           /\ s.motion_events[p].global_event_index \in Nat
           /\ s.motion_events[p].global_event_index < at[Len(n)]
    /\ \A p, q \in 1 .. at[Len(n)] :
           s.motion_events[p].global_event_index = s.motion_events[q].global_event_index => p = q
    /\ \A i \in 1 .. Len(n) : \A j, k \in 1 .. n[i] : j < k =>
           s.motion_events[at[i - 1] + j].time_slot < s.motion_events[at[i - 1] + k].time_slot

(* The events keep the slots drawn for them and are numbered once.         *)
LEMMA MadeTimed ==
    ASSUME NEW c, ConfigTypes(c), NEW n, NEW s, Made(c, n, s)
    PROVE  \E at : Arranged(n, s, at) /\ Timed(c, n, s, at)
  <1>1. PICK N \in Nat : N = Len(n)
    BY DEF Made
  <1>2. n \in [1 .. N -> Nat]
    BY <1>1, LenProperties DEF Made
  <1>3. PICK slots \in SlotChoices(c, n), ids \in EventIds(Total(n)) :
            s.motion_events = BuildMotionEvents(c, n, s.shape_paths, slots, ids)
    BY DEF Made
  <1>4. PICK ps, ev : ps = s.shape_paths /\ ev = s.motion_events
    OBVIOUS
  <1>5. PICK at : Built(c, N, n, ps, slots, ids, BuildMotionEvents(c, n, ps, slots, ids), at)
    BY <1>2, BuiltInOrder
  <1>6. Built(c, N, n, ps, slots, ids, ev, at)
    BY <1>3, <1>4, <1>5
  <1>7. Arranged(n, s, at)
    BY <1>1, <1>4, <1>6, BuiltArranged
  <1>8. /\ at \in [0 .. N -> Nat] /\ at[0] = 0 /\ \A i \in 1 .. N : at[i] = at[i - 1] + n[i]
        /\ \A i \in 1 .. N : \A k \in 1 .. n[i] : at[i - 1] + k \in 1 .. at[N]
    BY <1>6 DEF Built
  <1>9. Total(n) = at[N]
    BY <1>2, <1>8, TotalBefore
  <1>10. SlotsInOrder(c, N, n, at, slots)
    BY <1>2, <1>3, <1>8, ChosenInOrder
  <1>11. PICK T \in Nat, w \in Nat : T = at[N] /\ w = c.n_motion_slots
    <2>1. at[N] \in Nat
      BY <1>8
    <2>. QED  BY <2>1, FieldTypes
  <1>12. /\ DOMAIN ids = 1 .. T /\ {ids[k] : k \in 1 .. T} = 0 .. T - 1
         /\ \A j, k \in 1 .. T : ids[j] = ids[k] => j = k
    <2>1. ids \in EventIds(T)
      BY <1>9, <1>11
    <2>. QED  BY <2>1, IdsNumberTheEvents
  <1>13. ASSUME NEW i \in 1 .. N, NEW k \in 1 .. n[i]
         PROVE  LET e == ev[at[i - 1] + k]
                IN  /\ e.time_slot = slots[i][k] /\ e.global_event_index = ids[at[i - 1] + k]
                    /\ e.duration_frames = c.event_duration_frames /\ e.easing = c.easing_family
    <2>1. PICK e : e = ev[at[i - 1] + k] /\ e = MotionEvent(c, ps[i], i, k - 1, slots[i][k], ids[at[i - 1] + k])
      BY <1>6 DEF Built
    <2>. QED  BY <2>1 DEF MotionEvent
  <1>14. ASSUME NEW p \in 1 .. T
         PROVE  /\ ev[p].time_slot \in Nat /\ ev[p].time_slot < w
                /\ ev[p].duration_frames = c.event_duration_frames /\ ev[p].easing = c.easing_family
                /\ ev[p].global_event_index = ids[p]
                /\ ids[p] \in Nat /\ ids[p] < T
    <2>1. PICK i \in 1 .. N : \E k \in 1 .. n[i] : p = at[i - 1] + k
      BY <1>6, <1>11 DEF Built
    <2>2. PICK k \in 1 .. n[i] : p = at[i - 1] + k
      BY <2>1
    <2>3. slots[i][k] \in 0 .. w - 1
      BY <1>10, <1>11 DEF SlotsInOrder, Slots
    <2>4. ids[p] \in 0 .. T - 1
      BY <1>12
    <2>5. slots[i][k] \in Nat /\ slots[i][k] < w
      BY <2>3
    <2>6. ids[p] \in Nat /\ ids[p] < T
      BY <2>4
    <2>. QED  BY <1>13, <2>2, <2>5, <2>6
  <1>15. ASSUME NEW i \in 1 .. N, NEW j \in 1 .. n[i], NEW k \in 1 .. n[i], j < k
         PROVE  ev[at[i - 1] + j].time_slot < ev[at[i - 1] + k].time_slot
    BY <1>10, <1>13, <1>15 DEF SlotsInOrder
  <1>16. Timed(c, n, s, at)
    <2>1. \A p \in 1 .. at[Len(n)] :
           /\ s.motion_events[p].time_slot \in Nat
           /\ s.motion_events[p].time_slot < c.n_motion_slots
           /\ s.motion_events[p].duration_frames = c.event_duration_frames
           /\ s.motion_events[p].easing = c.easing_family
           /\ s.motion_events[p].global_event_index \in Nat
           /\ s.motion_events[p].global_event_index < at[Len(n)]
      BY <1>1, <1>4, <1>11, <1>14
    <2>2. \A p, q \in 1 .. at[Len(n)] :
           s.motion_events[p].global_event_index = s.motion_events[q].global_event_index => p = q
      BY <1>1, <1>4, <1>11, <1>12, <1>14
    <2>3. \A i \in 1 .. Len(n) : \A j, k \in 1 .. n[i] : j < k =>
           s.motion_events[at[i - 1] + j].time_slot < s.motion_events[at[i - 1] + k].time_slot
      BY <1>1, <1>4, <1>15
    <2>4. at[Len(n)] = 0 => s.motion_events = <<>>
      BY <1>1, <1>4, <1>6 DEF Built
    <2>. QED  BY <2>1, <2>2, <2>3, <2>4 DEF Timed
  <1>. QED  BY <1>7, <1>16

(* The events of a slot are those of the scene whose slot it is, each once.  *)
InSlot(s, k, E, m, g, T) ==
    /\ m \in Nat /\ DOMAIN E = 1 .. m /\ (m = 0 => E = <<>>) /\ g \in [1 .. m -> 1 .. T]
    /\ \A x \in 1 .. m : E[x] = s.motion_events[g[x]] /\ E[x].time_slot = k
    /\ \A x, y \in 1 .. m : g[x] = g[y] => x = y
    /\ \A p \in 1 .. T : s.motion_events[p].time_slot = k => \E x \in 1 .. m : g[x] = p

(* Sorting loses nothing. *)
LEMMA SortedAll ==
    ASSUME NEW S \in SUBSET Nat, IsFiniteSet(S), NEW m, m = Cardinality(S)
    PROVE  /\ m \in Nat /\ Sorted(S) \in [1 .. m -> S]
           /\ \A j, k \in 1 .. m : Sorted(S)[j] = Sorted(S)[k] => j = k
           /\ \A x \in S : \E k \in 1 .. m : Sorted(S)[k] = x
  <1>1. PICK q : q = Sorted(S)
    OBVIOUS
  <1>2. m \in Nat /\ q \in [1 .. m -> S] /\ \A j, k \in 1 .. m : j < k => q[j] < q[k]
    BY <1>1, SortedLists
  <1>3. ASSUME NEW j \in 1 .. m, NEW k \in 1 .. m, q[j] = q[k]
        PROVE  j = k
    <2>1. PICK x \in Nat : x = q[j] /\ x = q[k]
      <3>1. q[j] \in S
        BY <1>2
      <3>. QED  BY <1>3, <3>1
    <2>2. ~ (j < k) /\ ~ (k < j)
      <3>1. ~ (x < x)
        BY <2>1
      <3>2. j < k => x < x
        BY <1>2, <2>1
      <3>3. k < j => x < x
        BY <1>2, <2>1
      <3>. QED  BY <3>1, <3>2, <3>3
    <2>3. j \in Int /\ k \in Int
      OBVIOUS
    <2>. QED  BY <2>2, <2>3
  <1>4. q \in Surjection(1 .. m, S)
    <2>1. 1 \in Int /\ m \in Int
      BY <1>2
    <2>2. IsFiniteSet(1 .. m) /\ Cardinality(1 .. m) = IF 1 > m THEN 0 ELSE m - 1 + 1
      BY <2>1, FS_Interval
    <2>3. Cardinality(1 .. m) = m
      BY <1>2, <2>2
    <2>4. q \in Injection(1 .. m, S)
      BY <1>2, <1>3 DEF Injection, IsInjective
    <2>5. PICK D : D = 1 .. m
      OBVIOUS
    <2>. QED  BY <2>2, <2>3, <2>4, <2>5, FS_Injection
  <1>5. \A x \in S : \E k \in 1 .. m : q[k] = x
    BY <1>4 DEF Surjection
  <1>. QED  BY <1>1, <1>2, <1>3, <1>5

LEMMA EventsInSlot ==
    ASSUME NEW c, NEW n, NEW s, NEW at, Arranged(n, s, at), Timed(c, n, s, at), Len(n) \in Nat, NEW k \in Nat
    PROVE  \E m, g : InSlot(s, k, SlotEvents(s, k), m, g, at[Len(n)])
  <1>1. PICK T \in Nat : T = at[Len(n)]
    BY DEF Arranged
  <1>2. PICK ev : ev = s.motion_events
    OBVIOUS
  <1>3. DOMAIN ev = 1 .. T /\ Range(ev) = {ev[p] : p \in 1 .. T}
    BY <1>1, <1>2 DEF Arranged, Range
  <1>4. PICK I : I = {e.global_event_index : e \in {e \in Range(ev) : e.time_slot = k}}
    OBVIOUS
  <1>5. /\ \A p \in 1 .. T : ev[p].global_event_index \in Nat /\ ev[p].global_event_index < T
        /\ \A p, q \in 1 .. T : ev[p].global_event_index = ev[q].global_event_index => p = q
    BY <1>1, <1>2 DEF Timed
  <1>6. /\ \A p \in 1 .. T : ev[p].time_slot = k => ev[p].global_event_index \in I
        /\ \A v \in I : \E p \in 1 .. T : ev[p].time_slot = k /\ ev[p].global_event_index = v
    BY <1>3, <1>4
  <1>7. I \in SUBSET Nat /\ IsFiniteSet(I)
    <2>1. \A v \in I : v \in Nat /\ v < T
      BY <1>5, <1>6
    <2>2. I \subseteq 0 .. T - 1
      BY <2>1
    <2>3. IsFiniteSet(0 .. T - 1)
      <3>1. 0 \in Int /\ T - 1 \in Int
        OBVIOUS
      <3>. QED  BY <3>1, FS_Interval
    <2>4. IsFiniteSet(I)
      BY <2>2, <2>3, FS_Subset
    <2>. QED  BY <2>1, <2>4
  <1>8. PICK m, q : m = Cardinality(I) /\ q = Sorted(I)
    OBVIOUS
  <1>9. /\ m \in Nat /\ q \in [1 .. m -> I] /\ \A x, y \in 1 .. m : q[x] = q[y] => x = y
        /\ \A v \in I : \E x \in 1 .. m : q[x] = v
    BY <1>7, <1>8, SortedAll
  <1>. DEFINE g == [x \in 1 .. m |-> CHOOSE p \in 1 .. T : ev[p].time_slot = k /\ ev[p].global_event_index = q[x]]
  <1>10. ASSUME NEW x \in 1 .. m
         PROVE  g[x] \in 1 .. T /\ ev[g[x]].time_slot = k /\ ev[g[x]].global_event_index = q[x]
    <2>1. \E p \in 1 .. T : ev[p].time_slot = k /\ ev[p].global_event_index = q[x]
      BY <1>6, <1>9
    <2>2. PICK p : p = CHOOSE r \in 1 .. T : ev[r].time_slot = k /\ ev[r].global_event_index = q[x]
      OBVIOUS
    <2>3. p \in 1 .. T /\ ev[p].time_slot = k /\ ev[p].global_event_index = q[x]
      BY <2>1, <2>2
    <2>4. g[x] = p
      BY <2>2
    <2>. QED  BY <2>3, <2>4
  <1>11. PICK f : f = g
    OBVIOUS
  <1>12. /\ f \in [1 .. m -> 1 .. T]
         /\ \A x \in 1 .. m : ev[f[x]].time_slot = k /\ ev[f[x]].global_event_index = q[x]
    <2>1. g \in [1 .. m -> 1 .. T]
      <3>1. \A x \in 1 .. m : g[x] \in 1 .. T
        BY <1>10
      <3>2. g = [x \in 1 .. m |-> g[x]]
        OBVIOUS
      <3>. HIDE DEF g
      <3>. QED  BY <3>1, <3>2
    <2>. HIDE DEF g
    <2>. QED  BY <1>10, <1>11, <2>1
  <1>. HIDE DEF g
  <1>13. PICK E : E = SlotEvents(s, k)
    OBVIOUS
  <1>14. E = [x \in 1 .. m |-> CHOOSE e \in Range(ev) : e.global_event_index = q[x]]
    <2>1. E = [x \in DOMAIN q |-> CHOOSE e \in Range(ev) : e.global_event_index = q[x]]
      BY <1>2, <1>4, <1>8, <1>13 DEF SlotEvents, EventsWithIds
    <2>2. DOMAIN q = 1 .. m
      BY <1>9
    <2>. QED  BY <2>1, <2>2
  <1>15. ASSUME NEW x \in 1 .. m
         PROVE  E[x] = ev[f[x]]
    <2>1. PICK e : e = CHOOSE r \in Range(ev) : r.global_event_index = q[x]
      OBVIOUS
    <2>2. E[x] = e
      BY <1>14, <2>1
    <2>3. f[x] \in 1 .. T /\ ev[f[x]] \in Range(ev) /\ ev[f[x]].global_event_index = q[x]
      BY <1>3, <1>12
    <2>4. e \in Range(ev) /\ e.global_event_index = q[x]
      BY <2>1, <2>3
    <2>5. PICK p \in 1 .. T : e = ev[p]
      BY <1>3, <2>4
    <2>6. p = f[x]
      BY <1>5, <2>3, <2>4, <2>5
    <2>. QED  BY <2>2, <2>5, <2>6
  <1>16. DOMAIN E = 1 .. m /\ (m = 0 => E = <<>>)
    <2>1. DOMAIN E = 1 .. m
      BY <1>14
    <2>2. PICK S : S = {E[x] : x \in 1 .. m}
      OBVIOUS
    <2>3. E \in [1 .. m -> S]
      BY <1>14, <2>1, <2>2
    <2>4. E \in Seq(S)
      BY <1>9, <2>3
    <2>5. Len(E) = m
      BY <1>9, <2>1, <2>4, LenProperties
    <2>. QED  BY <2>1, <2>4, <2>5, EmptySeq
  <1>17. ASSUME NEW x \in 1 .. m, NEW y \in 1 .. m, f[x] = f[y] PROVE x = y
    BY <1>9, <1>12, <1>17
  <1>18. ASSUME NEW p \in 1 .. T, ev[p].time_slot = k PROVE \E x \in 1 .. m : f[x] = p
    <2>1. PICK x \in 1 .. m : q[x] = ev[p].global_event_index
      BY <1>6, <1>9, <1>18
    <2>2. ev[f[x]].global_event_index = ev[p].global_event_index /\ f[x] \in 1 .. T
      BY <1>12, <2>1
    <2>. QED  BY <1>5, <2>2
  <1>19. InSlot(s, k, E, m, f, T)
    BY <1>2, <1>9, <1>12, <1>15, <1>16, <1>17, <1>18 DEF InSlot
  <1>. QED  BY <1>1, <1>13, <1>19

(* Every slot lasts as long as any event.                                    *)
LEMMA SlotLasts ==
    ASSUME NEW c, NEW n, NEW s, NEW at, Arranged(n, s, at), Timed(c, n, s, at), Len(n) \in Nat,
           s.motion_events # <<>>, NEW k \in Nat
    PROVE  SlotDuration(s, k) = c.event_duration_frames
  <1>1. PICK T \in Nat : T = at[Len(n)]
    BY DEF Arranged
  <1>2. PICK ev : ev = s.motion_events
    OBVIOUS
  <1>3. DOMAIN ev = 1 .. T /\ Range(ev) = {ev[p] : p \in 1 .. T} /\ T > 0
    BY <1>1, <1>2 DEF Arranged, Range, Timed
  <1>4. \A p \in 1 .. T : ev[p].time_slot \in Nat /\ ev[p].duration_frames = c.event_duration_frames
    BY <1>1, <1>2 DEF Timed
  <1>5. PICK E : E = SlotEvents(s, k)
    OBVIOUS
  <1>6. PICK m, g : InSlot(s, k, E, m, g, T)
    BY <1>1, <1>5, EventsInSlot
  <1>7. CASE E = <<>>
    <2>1. PICK V : V = {ev[p].time_slot : p \in 1 .. T}
      OBVIOUS
    <2>2. V \subseteq Nat /\ V # {}
      <3>1. 1 \in 1 .. T
        BY <1>3
      <3>. QED  BY <1>4, <2>1, <3>1
    <2>3. PICK v \in V : \A x \in V : v <= x
      BY <2>2, Least
    <2>4. PICK e : e = CHOOSE e0 \in Range(ev) : \A f \in Range(ev) : e0.time_slot <= f.time_slot
      OBVIOUS
    <2>5. \E e0 \in Range(ev) : \A f \in Range(ev) : e0.time_slot <= f.time_slot
      BY <1>3, <2>1, <2>3
    <2>6. e \in Range(ev)
      BY <2>4, <2>5
    <2>7. e.duration_frames = c.event_duration_frames
      BY <1>3, <1>4, <2>6
    <2>. QED  BY <1>2, <1>5, <1>7, <2>4, <2>7 DEF SlotDuration, DefaultDuration
  <1>8. CASE E # <<>>
    <2>1. m # 0
      BY <1>6, <1>8 DEF InSlot
    <2>2. 1 \in 1 .. m
      BY <1>6, <2>1 DEF InSlot
    <2>3. E[1] = ev[g[1]] /\ g[1] \in 1 .. T
      BY <1>2, <1>6, <2>2 DEF InSlot
    <2>. QED  BY <1>4, <1>5, <1>8, <2>3 DEF SlotDuration
  <1>. QED  BY <1>7, <1>8

(* Where a shape rests before a slot: after the moves of the earlier slots.  *)
RestsAt(n, s, at, k, i, p) ==
    \E m \in 0 .. n[i] :
        /\ p = s.shape_paths[i][m * SamplesPerEvent + 1]
        /\ \A j \in 1 .. n[i] : j <= m <=> s.motion_events[at[i - 1] + j].time_slot < k

Movers(E, i) == {x \in DOMAIN E : E[x].shape_index = i}

(* At most one of a slot's events moves a shape, and it moves it from where  *)
(* it rests to where it rests next.                                          *)
LEMMA ShapeMoves ==
    ASSUME NEW c, NEW n, NEW s, NEW at, Arranged(n, s, at), Timed(c, n, s, at), Len(n) \in Nat,
           NEW k \in Nat, NEW E, NEW m, NEW g, InSlot(s, k, E, m, g, at[Len(n)]),
           NEW i \in 1 .. Len(n), n[i] \in Nat, at[i - 1] \in Nat,
           NEW p, RestsAt(n, s, at, k, i, p)
    PROVE  /\ Movers(E, i) = {} => RestsAt(n, s, at, k + 1, i, p)
           /\ \A x \in Movers(E, i) :
                  /\ Movers(E, i) = {x}
                  /\ E[x].start_point = p /\ E[x].end_point \in Point
                  /\ RestsAt(n, s, at, k + 1, i, E[x].end_point)
  <1>1. PICK N \in Nat, T \in Nat, b \in Nat, r \in Nat : N = Len(n) /\ T = at[N] /\ b = at[i - 1] /\ r = n[i]
    BY DEF Arranged
  <1>2. PICK ev : ev = s.motion_events
    OBVIOUS
  <1>3. PICK w \in 0 .. r : /\ p = s.shape_paths[i][w * SamplesPerEvent + 1]
                            /\ \A j \in 1 .. r : j <= w <=> ev[b + j].time_slot < k
    BY <1>1, <1>2 DEF RestsAt
  <1>4. /\ \A j \in 1 .. r : b + j \in 1 .. T /\ MoveOf(s, ev[b + j], i, j)
        /\ \A j \in 1 .. r : ev[b + j].time_slot \in Nat
        /\ \A j, l \in 1 .. r : j < l => ev[b + j].time_slot < ev[b + l].time_slot
    BY <1>1, <1>2 DEF Arranged, Timed
  <1>5. ASSUME NEW x \in Movers(E, i)
        PROVE  \E j \in 1 .. r : E[x] = ev[b + j] /\ g[x] = b + j /\ ev[b + j].time_slot = k
    <2>1. x \in 1 .. m /\ E[x] = ev[g[x]] /\ g[x] \in 1 .. T /\ E[x].time_slot = k /\ E[x].shape_index = i
      BY <1>1, <1>2 DEF InSlot, Movers
    <2>2. PICK i2 \in 1 .. N : \E j \in 1 .. n[i2] : g[x] = at[i2 - 1] + j
      BY <1>1, <2>1 DEF Arranged
    <2>3. PICK j \in 1 .. n[i2] : g[x] = at[i2 - 1] + j
      BY <2>2
    <2>4. MoveOf(s, E[x], i2, j)
      BY <1>1, <1>2, <2>1, <2>3 DEF Arranged
    <2>5. i2 = i
      BY <2>1, <2>4 DEF MoveOf
    <2>. QED  BY <1>1, <2>1, <2>3, <2>5
  <1>6. ASSUME NEW j \in 1 .. r, ev[b + j].time_slot = k
        PROVE  /\ j = w + 1
               /\ \A l \in 1 .. r : l <= j <=> ev[b + l].time_slot < k + 1
    <2>1. ~ (j <= w)
      BY <1>3, <1>6
    <2>2. w + 1 \in 1 .. r
      BY <2>1
    <2>3. ~ (ev[b + (w + 1)].time_slot < k)
      <3>1. ~ (w + 1 <= w)
        OBVIOUS
      <3>. QED  BY <1>3, <2>2, <3>1
    <2>4. ~ (w + 1 < j)
      <3>1. ev[b + (w + 1)].time_slot \in Nat
        BY <1>4, <2>2
      <3>2. w + 1 < j => ev[b + (w + 1)].time_slot < k
        BY <1>4, <1>6, <2>2
      <3>. QED  BY <2>3, <3>2
    <2>5. j = w + 1
      BY <2>1, <2>4
    <2>6. ASSUME NEW l \in 1 .. r PROVE l <= j <=> ev[b + l].time_slot < k + 1
      <3>1. PICK t \in Nat : t = ev[b + l].time_slot
        BY <1>4
      <3>2. l < j => t < k
        BY <1>4, <1>6, <3>1
      <3>3. j < l => k < t
        BY <1>4, <1>6, <3>1
      <3>4. l = j => t = k
        BY <1>6, <3>1
      <3>. QED  BY <3>1, <3>2, <3>3, <3>4
    <2>. QED  BY <2>5, <2>6
  <1>7. ASSUME Movers(E, i) = {} PROVE RestsAt(n, s, at, k + 1, i, p)
    <2>1. ASSUME NEW j \in 1 .. r PROVE ev[b + j].time_slot # k
      <3>1. ASSUME ev[b + j].time_slot = k PROVE FALSE
        <4>1. PICK x \in 1 .. m : g[x] = b + j
          BY <1>1, <1>2, <1>4, <3>1 DEF InSlot
        <4>2. E[x] = ev[b + j] /\ x \in DOMAIN E
          BY <1>2, <4>1 DEF InSlot
        <4>3. E[x].shape_index = i
          BY <1>4, <4>2 DEF MoveOf
        <4>. QED  BY <1>7, <4>2, <4>3 DEF Movers
      <3>. QED  BY <3>1
    <2>2. \A j \in 1 .. r : j <= w <=> ev[b + j].time_slot < k + 1
      <3>. TAKE j \in 1 .. r
      <3>1. PICK t \in Nat : t = ev[b + j].time_slot
        BY <1>4
      <3>2. t # k
        BY <2>1, <3>1
      <3>3. j <= w <=> t < k
        BY <1>3, <3>1
      <3>4. t < k <=> t < k + 1
        BY <3>2
      <3>. QED  BY <3>1, <3>3, <3>4
    <2>. QED  BY <1>1, <1>2, <1>3, <2>2 DEF RestsAt
  <1>8. ASSUME NEW x \in Movers(E, i)
        PROVE  /\ Movers(E, i) = {x}
               /\ E[x].start_point = p /\ E[x].end_point \in Point
               /\ RestsAt(n, s, at, k + 1, i, E[x].end_point)
    <2>1. PICK j \in 1 .. r : E[x] = ev[b + j] /\ g[x] = b + j /\ ev[b + j].time_slot = k
      BY <1>5
    <2>2. j = w + 1 /\ j - 1 = w /\ \A l \in 1 .. r : l <= j <=> ev[b + l].time_slot < k + 1
      <3>1. j = w + 1 /\ \A l \in 1 .. r : l <= j <=> ev[b + l].time_slot < k + 1
        BY <1>6, <2>1
      <3>2. j - 1 = w
        BY <3>1
      <3>. QED  BY <3>1, <3>2
    <2>3. MoveOf(s, E[x], i, j)
      BY <1>4, <2>1
    <2>4. /\ E[x].start_point = s.shape_paths[i][w * SamplesPerEvent + 1]
          /\ E[x].end_point = s.shape_paths[i][j * SamplesPerEvent + 1] /\ E[x].end_point \in Point
      BY <2>2, <2>3 DEF MoveOf
    <2>5. RestsAt(n, s, at, k + 1, i, E[x].end_point)
      <3>1. j \in 0 .. r
        OBVIOUS
      <3>. QED  BY <1>1, <1>2, <2>2, <2>4, <3>1 DEF RestsAt
    <2>6. ASSUME NEW y \in Movers(E, i) PROVE y = x
      <3>1. PICK l \in 1 .. r : E[y] = ev[b + l] /\ g[y] = b + l /\ ev[b + l].time_slot = k
        BY <1>5
      <3>2. l = w + 1
        BY <1>6, <3>1
      <3>3. g[y] = g[x] /\ x \in 1 .. m /\ y \in 1 .. m
        BY <2>1, <2>2, <3>1, <3>2 DEF InSlot, Movers
      <3>. QED  BY <3>3 DEF InSlot
    <2>. QED  BY <1>3, <2>4, <2>5, <2>6
  <1>. QED  BY <1>7, <1>8

-------------------------------------------------------------------------------
(* An eased movement starts at rest and ends at its end. *)
LEMMA Eased ==
    ASSUME NEW l \in Nat, l > 0, NEW easing \in Easings
    PROVE  EasedProgress(0, l, easing) = 0 /\ EasedProgress(l, l, easing) = l * l
  <1>1. PICK m \in Nat : m = l * l
    OBVIOUS
  <1>2. 2 * 0 < l /\ ~ (2 * l < l) /\ l - 0 = l /\ l - l = 0
    OBVIOUS
  <1>3. CASE easing = "linear"
    BY <1>1, <1>2, <1>3 DEF EasedProgress
  <1>4. CASE easing = "ease_in"
    BY <1>1, <1>2, <1>4 DEF EasedProgress
  <1>5. CASE easing = "ease_out"
    <2>1. \A k : EasedProgress(k, l, easing) = l * l - (l - k) * (l - k)
      BY <1>5 DEF EasedProgress
    <2>2. l * l - (l - 0) * (l - 0) = 0 /\ l * l - (l - l) * (l - l) = l * l
      BY <1>1, <1>2
    <2>. QED  BY <2>1, <2>2
  <1>6. CASE easing = "ease_in_out"
    <2>1. \A k : EasedProgress(k, l, easing) =
              IF 2 * k < l THEN 2 * k * k ELSE l * l - 2 * (l - k) * (l - k)
      BY <1>6 DEF EasedProgress
    <2>2. 2 * 0 * 0 = 0 /\ l * l - 2 * (l - l) * (l - l) = l * l
      BY <1>1, <1>2
    <2>. QED  BY <1>2, <2>1, <2>2
  <1>. QED  BY <1>3, <1>4, <1>5, <1>6 DEF Easings

LEMMA AtRestIs ==
    ASSUME NEW p \in Point, NEW D \in Nat, D > 0
    PROVE  /\ LastFrame(D) \in Nat /\ LastFrame(D) > 0
           /\ AtRest(p, D) = [d \in 1 .. 2 |-> p[d] * (LastFrame(D) * LastFrame(D))]
           /\ p[1] \in Int /\ p[2] \in Int
  <1>1. PICK l \in Nat : l = LastFrame(D) /\ l > 0
    BY DEF LastFrame
  <1>2. p[1] \in Int /\ p[2] \in Int
    BY GridAssumption DEF Point
  <1>3. \A d \in 1 .. 2 : p[d] * l * l = p[d] * (l * l)
    <2>. TAKE d \in 1 .. 2
    <2>1. PICK a \in Int : a = p[d]
      BY <1>2
    <2>2. a * l * l = a * (l * l)
      OBVIOUS
    <2>. QED  BY <2>1, <2>2
  <1>. QED  BY <1>1, <1>2, <1>3 DEF AtRest

(* A shape is drawn where it rests at the start of a movement and where it  *)
(* will rest at its end.                                                    *)
LEMMA MotionEnds ==
    ASSUME NEW D \in Nat, D > 0, NEW e, e.start_point \in Point, e.end_point \in Point, e.easing \in Easings
    PROVE  /\ D > 1 => InMotion(e, 0, D) = AtRest(e.start_point, D)
           /\ InMotion(e, D - 1, D) = AtRest(e.end_point, D)
  <1>1. PICK l \in Nat : l = LastFrame(D) /\ l > 0
    BY DEF LastFrame
  <1>2. PICK a, b : a = e.start_point /\ b = e.end_point /\ a \in Point /\ b \in Point
    OBVIOUS
  <1>3. PICK m \in Nat : m = l * l
    OBVIOUS
  <1>4. /\ AtRest(a, D) = [d \in 1 .. 2 |-> a[d] * m]
        /\ AtRest(b, D) = [d \in 1 .. 2 |-> b[d] * m]
        /\ \A d \in 1 .. 2 : a[d] \in Int /\ b[d] \in Int
    BY <1>1, <1>2, <1>3, AtRestIs, SMTT(20)
  <1>5. \A j : InMotion(e, j, D) = [d \in 1 .. 2 |-> a[d] * m + (b[d] - a[d]) * Progress(j, D, e.easing)]
    BY <1>2, <1>4 DEF InMotion
  <1>6. ASSUME D > 1 PROVE Progress(0, D, e.easing) = 0
    <2>1. l = D - 1
      BY <1>1, <1>6 DEF LastFrame
    <2>. QED  BY <1>1, <1>6, <2>1, Eased DEF Progress
  <1>7. Progress(D - 1, D, e.easing) = m
    <2>1. CASE D <= 1
      BY <1>1, <1>3, <2>1 DEF Progress, LastFrame
    <2>2. CASE ~ (D <= 1)
      <3>1. l = D - 1
        BY <1>1, <2>2 DEF LastFrame
      <3>. QED  BY <1>1, <1>3, <2>2, <3>1, Eased DEF Progress
    <2>. QED  BY <2>1, <2>2
  <1>8. ASSUME D > 1 PROVE InMotion(e, 0, D) = AtRest(a, D)
    <2>1. \A d \in 1 .. 2 : a[d] * m + (b[d] - a[d]) * 0 = a[d] * m
      BY <1>4
    <2>2. InMotion(e, 0, D) = [d \in 1 .. 2 |-> a[d] * m + (b[d] - a[d]) * 0]
      BY <1>5, <1>6, <1>8
    <2>. QED  BY <1>4, <2>1, <2>2
  <1>9. InMotion(e, D - 1, D) = AtRest(b, D)
    <2>1. \A d \in 1 .. 2 : a[d] * m + (b[d] - a[d]) * m = b[d] * m
      <3>. TAKE d \in 1 .. 2
      <3>1. PICK x \in Int, y \in Int : x = a[d] /\ y = b[d]
        BY <1>4
      <3>2. x * m + (y - x) * m = y * m
        OBVIOUS
      <3>. QED  BY <3>1, <3>2
    <2>2. InMotion(e, D - 1, D) = [d \in 1 .. 2 |-> a[d] * m + (b[d] - a[d]) * m]
      BY <1>5, <1>7
    <2>. QED  BY <1>4, <2>1, <2>2
  <1>. QED  BY <1>2, <1>8, <1>9


(* A slot's events move each shape at most once, from where it rests. *)
MovesOnce(N, E, resting) ==
    \A i \in 1 .. N : \A x \in Movers(E, i) :
        /\ Movers(E, i) = {x}
        /\ E[x].start_point = resting[i] /\ E[x].end_point \in Point /\ E[x].easing \in Easings

(* Where they rest afterwards and what its frames show. *)
Shows(N, D, resting, E, after) ==
    /\ after \in [1 .. N -> Point]
    /\ \A i \in 1 .. N : /\ Movers(E, i) = {} => after[i] = resting[i]
                         /\ \A x \in Movers(E, i) : after[i] = E[x].end_point
                         /\ Movers(E, i) = {} =>
                               \A j : Frame(resting, E, j, D)[i] = AtRest(resting[i], D)
    /\ D > 1 => Frame(resting, E, 0, D) = [i \in 1 .. N |-> AtRest(resting[i], D)]
    /\ Frame(resting, E, D - 1, D) = [i \in 1 .. N |-> AtRest(after[i], D)]

LEMMA SlotFrames ==
    ASSUME NEW N \in Nat, NEW D \in Nat, D > 0, NEW resting \in [1 .. N -> Point],
           NEW m \in Nat, NEW E, DOMAIN E = 1 .. m, MovesOnce(N, E, resting)
    PROVE  Shows(N, D, resting, E, Settled(resting, E))
  <1>1. ASSUME NEW i \in 1 .. N, NEW x \in Movers(E, i) PROVE Max(Movers(E, i)) = x
    <2>1. PICK M : M = Movers(E, i)
      OBVIOUS
    <2>2. M = {x}
      BY <2>1 DEF MovesOnce
    <2>3. x \in Int
      BY DEF Movers
    <2>4. IsFiniteSet(M)
      BY <2>2, FS_Singleton
    <2>5. M \subseteq Int /\ M # {}
      BY <2>2, <2>3
    <2>6. Max(M) \in M
      BY <2>4, <2>5, Maximum
    <2>. QED  BY <2>1, <2>2, <2>6
  <1>2. PICK after : after = Settled(resting, E)
    OBVIOUS
  <1>3. after = [i \in 1 .. N |-> IF Movers(E, i) = {} THEN resting[i] ELSE E[Max(Movers(E, i))].end_point]
    BY <1>2 DEF Settled, Movers
  <1>4. ASSUME NEW i \in 1 .. N
        PROVE  /\ Movers(E, i) = {} => after[i] = resting[i]
               /\ \A x \in Movers(E, i) : after[i] = E[x].end_point
               /\ after[i] \in Point
    <2>1. Movers(E, i) = {} => after[i] = resting[i]
      BY <1>3
    <2>2. ASSUME NEW x \in Movers(E, i) PROVE after[i] = E[x].end_point /\ E[x].end_point \in Point
      <3>1. Max(Movers(E, i)) = x /\ Movers(E, i) # {}
        BY <1>1
      <3>2. after[i] = E[Max(Movers(E, i))].end_point
        BY <1>3, <3>1
      <3>. QED  BY <3>1, <3>2 DEF MovesOnce
    <2>. QED  BY <2>1, <2>2
  <1>5. after \in [1 .. N -> Point]
    BY <1>3, <1>4
  <1>6. \A j : Frame(resting, E, j, D) =
            [i \in 1 .. N |-> IF Movers(E, i) = {} THEN AtRest(resting[i], D)
                              ELSE InMotion(E[Max(Movers(E, i))], j, D)]
    BY DEF Frame, Movers
  <1>7. ASSUME NEW i \in 1 .. N, Movers(E, i) = {}
        PROVE  \A j : Frame(resting, E, j, D)[i] = AtRest(resting[i], D)
    BY <1>6, <1>7
  <1>8. ASSUME NEW i \in 1 .. N, NEW x \in Movers(E, i)
        PROVE  /\ \A j : Frame(resting, E, j, D)[i] = InMotion(E[x], j, D)
               /\ D > 1 => InMotion(E[x], 0, D) = AtRest(resting[i], D)
               /\ InMotion(E[x], D - 1, D) = AtRest(after[i], D)
    <2>1. Max(Movers(E, i)) = x /\ Movers(E, i) # {}
      BY <1>1
    <2>2. \A j : Frame(resting, E, j, D)[i] = InMotion(E[x], j, D)
      BY <1>6, <2>1
    <2>3. PICK e : e = E[x]
      OBVIOUS
    <2>4. e.start_point = resting[i] /\ e.start_point \in Point /\ e.end_point \in Point
          /\ e.end_point = after[i] /\ e.easing \in Easings
      BY <1>4, <2>3 DEF MovesOnce
    <2>5. (D > 1 => InMotion(e, 0, D) = AtRest(e.start_point, D))
          /\ InMotion(e, D - 1, D) = AtRest(e.end_point, D)
      BY <2>4, MotionEnds
    <2>. QED  BY <2>2, <2>3, <2>4, <2>5
  <1>9. ASSUME D > 1 PROVE Frame(resting, E, 0, D) = [i \in 1 .. N |-> AtRest(resting[i], D)]
    <2>1. PICK f : f = Frame(resting, E, 0, D)
      OBVIOUS
    <2>2. f = [i \in 1 .. N |-> f[i]]
      BY <1>6, <2>1
    <2>3. ASSUME NEW i \in 1 .. N PROVE f[i] = AtRest(resting[i], D)
      BY <1>7, <1>8, <1>9, <2>1
    <2>. QED  BY <2>1, <2>2, <2>3
  <1>10. Frame(resting, E, D - 1, D) = [i \in 1 .. N |-> AtRest(after[i], D)]
    <2>1. PICK f : f = Frame(resting, E, D - 1, D)
      OBVIOUS
    <2>2. f = [i \in 1 .. N |-> f[i]]
      BY <1>6, <2>1
    <2>3. ASSUME NEW i \in 1 .. N PROVE f[i] = AtRest(after[i], D)
      BY <1>4, <1>7, <1>8, <2>1
    <2>. QED  BY <2>1, <2>2, <2>3
  <1>. QED  BY <1>2, <1>4, <1>5, <1>7, <1>9, <1>10 DEF Shows


-------------------------------------------------------------------------------
(* What has been played of the first slots: where the shapes rest, what     *)
(* was shown and what was heard.                                            *)
Rests(n, s, at, k, resting) ==
    /\ resting \in [1 .. Len(n) -> Point]
    /\ \A i \in 1 .. Len(n) : RestsAt(n, s, at, k, i, resting[i])

Shown(n, s, d, k, resting, shown) ==
    /\ \E F : shown \in Seq(F)
    /\ Len(shown) = k * d
    /\ k > 0 => shown[k * d] = [i \in 1 .. Len(n) |-> AtRest(resting[i], d)]
    /\ \A q \in 1 .. k : \A i \in 1 .. Len(n) : Movers(SlotEvents(s, q - 1), i) = {} =>
           \A j \in 1 .. d : shown[(q - 1) * d + j][i] = shown[(q - 1) * d + 1][i]

SlotSamples(c) == ChannelCount(c) * SamplesForDuration(c.event_duration_frames, c)

Sounded(c, s, k, heard, sounded) ==
    /\ \E V : heard \in Seq(V)
    /\ Len(heard) = k
    /\ \A q \in 1 .. k : heard[q] = SlotVoices(s, SlotEvents(s, q - 1))
    /\ sounded = k * SlotSamples(c)

Played(c, n, s, at, k, resting, shown, heard, sounded) ==
    /\ s.motion_events # <<>> /\ k \in 0 .. c.n_motion_slots
    /\ Arranged(n, s, at) /\ Timed(c, n, s, at)
    /\ Rests(n, s, at, k, resting)
    /\ Shown(n, s, c.event_duration_frames, k, resting, shown)
    /\ Sounded(c, s, k, heard, sounded)

(* The numbers a valid configuration plays with. *)
LEMMA PlayableSettings ==
    ASSUME NEW c, ConfigTypes(c), Validate(c)
    PROVE  /\ c.event_duration_frames \in Nat \ {0} /\ c.n_motion_slots \in Nat \ {0}
           /\ c.sound_sample_rate_hz \in Nat \ {0} /\ c.sound_frames_per_second \in Nat \ {0}
           /\ c.easing_family \in Easings
  <1>1. /\ "event_duration_frames" \in Positive /\ "n_motion_slots" \in Positive
        /\ "sound_sample_rate_hz" \in Positive /\ "sound_frames_per_second" \in Positive
    BY DEF Positive
  <1>2. \A f \in {"event_duration_frames", "n_motion_slots", "sound_sample_rate_hz", "sound_frames_per_second"} :
            f \in Numbers \ Rates
    BY <1>1 DEF Numbers, Rates
  <1>3. /\ c["event_duration_frames"] \in Nat /\ c["n_motion_slots"] \in Nat
        /\ c["sound_sample_rate_hz"] \in Nat /\ c["sound_frames_per_second"] \in Nat
    BY <1>2 DEF ConfigTypes
  <1>4. /\ c["event_duration_frames"] > 0 /\ c["n_motion_slots"] > 0
        /\ c["sound_sample_rate_hz"] > 0 /\ c["sound_frames_per_second"] > 0
    BY <1>1 DEF Validate, SettingsOK
  <1>. QED  BY <1>3, <1>4, FieldTypes

(* The events of a slot move each shape at most once and to where it rests  *)
(* at the next.                                                             *)
LEMMA SlotMoves ==
    ASSUME NEW c, NEW n, Len(n) \in Nat, n \in [1 .. Len(n) -> Nat], NEW s, NEW at,
           Arranged(n, s, at), Timed(c, n, s, at), c.easing_family \in Easings,
           NEW k \in Nat, NEW E, NEW m, NEW g, InSlot(s, k, E, m, g, at[Len(n)]),
           NEW resting, Rests(n, s, at, k, resting)
    PROVE  MovesOnce(Len(n), E, resting) /\ Rests(n, s, at, k + 1, Settled(resting, E))
  <1>1. PICK N \in Nat : N = Len(n)
    OBVIOUS
  <1>2. /\ resting \in [1 .. N -> Point] /\ \A i \in 1 .. N : RestsAt(n, s, at, k, i, resting[i])
        /\ m \in Nat /\ DOMAIN E = 1 .. m
    BY <1>1 DEF Rests, InSlot
  <1>3. ASSUME NEW i \in 1 .. N
        PROVE  /\ Movers(E, i) = {} => RestsAt(n, s, at, k + 1, i, resting[i])
               /\ \A x \in Movers(E, i) :
                      /\ Movers(E, i) = {x}
                      /\ E[x].start_point = resting[i] /\ E[x].end_point \in Point
                      /\ RestsAt(n, s, at, k + 1, i, E[x].end_point)
    <2>1. n[i] \in Nat /\ at[i - 1] \in Nat
      <3>1. at \in [0 .. N -> Nat] /\ i - 1 \in 0 .. N
        BY <1>1 DEF Arranged
      <3>. QED  BY <1>1, <3>1
    <2>2. PICK p : p = resting[i]
      OBVIOUS
    <2>3. i \in 1 .. Len(n) /\ RestsAt(n, s, at, k, i, p)
      BY <1>1, <1>2, <2>2
    <2>4. /\ Movers(E, i) = {} => RestsAt(n, s, at, k + 1, i, p)
          /\ \A x \in Movers(E, i) :
                 /\ Movers(E, i) = {x}
                 /\ E[x].start_point = p /\ E[x].end_point \in Point
                 /\ RestsAt(n, s, at, k + 1, i, E[x].end_point)
      BY <2>1, <2>3, ShapeMoves
    <2>. QED  BY <2>2, <2>4
  <1>4. \A x \in 1 .. m : E[x].easing \in Easings
    <2>. TAKE x \in 1 .. m
    <2>1. E[x] = s.motion_events[g[x]] /\ g[x] \in 1 .. at[N]
      BY <1>1 DEF InSlot
    <2>. QED  BY <1>1, <2>1 DEF Timed
  <1>5. MovesOnce(N, E, resting)
    <2>. SUFFICES ASSUME NEW i \in 1 .. N, NEW x \in Movers(E, i)
                  PROVE  /\ Movers(E, i) = {x}
                         /\ E[x].start_point = resting[i] /\ E[x].end_point \in Point /\ E[x].easing \in Easings
      BY DEF MovesOnce
    <2>1. x \in 1 .. m
      BY <1>2 DEF Movers
    <2>. QED  BY <1>3, <1>4, <2>1
  <1>6. PICK after : after = Settled(resting, E)
    OBVIOUS
  <1>7. /\ after \in [1 .. N -> Point]
        /\ \A i \in 1 .. N : /\ Movers(E, i) = {} => after[i] = resting[i]
                             /\ \A x \in Movers(E, i) : after[i] = E[x].end_point
    <2>1. PICK D \in Nat : D > 0
      <3>1. 1 \in Nat /\ 1 > 0
        OBVIOUS
      <3>. QED  BY <3>1
    <2>2. Shows(N, D, resting, E, Settled(resting, E))
      BY <1>2, <1>5, <2>1, SlotFrames
    <2>. QED  BY <1>6, <2>2 DEF Shows
  <1>8. ASSUME NEW i \in 1 .. N PROVE RestsAt(n, s, at, k + 1, i, after[i])
    <2>1. CASE Movers(E, i) = {}
      BY <1>3, <1>7, <2>1
    <2>2. CASE Movers(E, i) # {}
      <3>1. PICK x \in Movers(E, i) : after[i] = E[x].end_point
        BY <1>7, <2>2
      <3>. QED  BY <1>3, <3>1
    <2>. QED  BY <2>1, <2>2
  <1>. QED  BY <1>1, <1>5, <1>6, <1>7, <1>8, SMTT(20) DEF Rests


(* A slot's frames follow those shown before. *)
Continues(k, d, shown, next) ==
    /\ k > 0 /\ d > 1 => next[Len(shown) + 1] = shown[Len(shown)]
    /\ k > 0 => Len(shown) > 0

LEMMA SlotShown ==
    ASSUME NEW n, Len(n) \in Nat, NEW s, NEW d \in Nat \ {0}, NEW k \in Nat, NEW resting, NEW shown,
           Shown(n, s, d, k, resting, shown),
           NEW E, E = SlotEvents(s, k), NEW after, Shows(Len(n), d, resting, E, after),
           NEW b, b = [j \in 1 .. d |-> Frame(resting, E, j - 1, d)]
    PROVE  Shown(n, s, d, k + 1, after, shown \o b) /\ Continues(k, d, shown, shown \o b)
  <1>1. PICK N \in Nat : N = Len(n)
    OBVIOUS
  <1>2. PICK l \in Nat : l = k * d
    OBVIOUS
  <1>3. /\ (k + 1) * d = l + d /\ (k > 0 => l > 0)
        /\ \A q \in 1 .. k : (q - 1) * d \in Nat /\ (q - 1) * d + d <= l
    <2>1. (k + 1) * d = l + d
      BY <1>2
    <2>2. k > 0 => l > 0
      <3>. SUFFICES ASSUME k > 0 PROVE l > 0
        OBVIOUS
      <3>1. 0 * d < k * d
        BY Products
      <3>. QED  BY <1>2, <3>1
    <2>3. ASSUME NEW q \in 1 .. k PROVE (q - 1) * d \in Nat /\ (q - 1) * d + d <= l
      <3>1. PICK r \in Nat : r = q - 1
        OBVIOUS
      <3>2. r + 1 \in Nat /\ r + 1 <= k
        BY <3>1
      <3>3. (r + 1) * d <= k * d
        BY <3>2, Products
      <3>4. r * d \in Nat /\ (r + 1) * d = r * d + d
        OBVIOUS
      <3>. QED  BY <1>2, <3>1, <3>3, <3>4
    <2>. QED  BY <2>1, <2>2, <2>3
  <1>4. PICK F : shown \in Seq(F)
    BY DEF Shown
  <1>5. /\ Len(shown) = l /\ (k > 0 => shown[l] = [i \in 1 .. N |-> AtRest(resting[i], d)])
        /\ \A q \in 1 .. k : \A i \in 1 .. N : Movers(SlotEvents(s, q - 1), i) = {} =>
              \A j \in 1 .. d : shown[(q - 1) * d + j][i] = shown[(q - 1) * d + 1][i]
    BY <1>1, <1>2 DEF Shown
  <1>6. PICK G : G = F \cup {b[j] : j \in 1 .. d}
    OBVIOUS
  <1>7. shown \in Seq(G) /\ b \in Seq(G) /\ Len(b) = d
    <2>1. shown \in [1 .. l -> F]
      BY <1>4, <1>5, LenProperties
    <2>2. shown \in [1 .. l -> G]
      BY <1>6, <2>1
    <2>3. shown \in Seq(G)
      BY <2>2
    <2>4. b = [j \in 1 .. d |-> b[j]]
      OBVIOUS
    <2>5. b \in [1 .. d -> G]
      BY <1>6, <2>4
    <2>6. b \in Seq(G)
      BY <2>5
    <2>7. Len(b) = d
      BY <2>4, <2>6, LenProperties
    <2>. QED  BY <2>3, <2>6, <2>7
  <1>8. PICK next : next = shown \o b
    OBVIOUS
  <1>9. /\ next \in Seq(G) /\ Len(next) = l + d
        /\ \A j \in 1 .. l : next[j] = shown[j]
        /\ \A j \in 1 .. d : next[l + j] = b[j]
    <2>1. /\ next \in Seq(G) /\ Len(next) = l + d
          /\ \A i \in 1 .. l + d : next[i] = IF i <= l THEN shown[i] ELSE b[i - l]
      BY <1>5, <1>7, <1>8, ConcatProperties, SMTT(20)
    <2>2. ASSUME NEW j \in 1 .. d PROVE next[l + j] = b[j]
      <3>1. l + j \in 1 .. l + d /\ ~ (l + j <= l) /\ (l + j) - l = j
        OBVIOUS
      <3>. QED  BY <2>1, <3>1
    <2>. QED  BY <2>1, <2>2
  <1>10. \A j \in 1 .. d : next[l + j] = Frame(resting, E, j - 1, d)
    BY <1>9
  <1>11. next[l + d] = [i \in 1 .. N |-> AtRest(after[i], d)]
    <2>1. d \in 1 .. d
      OBVIOUS
    <2>. QED  BY <1>1, <1>10, <2>1 DEF Shows
  <1>12. ASSUME k > 0, d > 1 PROVE next[l + 1] = shown[l]
    <2>1. 1 \in 1 .. d /\ 1 - 1 = 0
      OBVIOUS
    <2>2. next[l + 1] = Frame(resting, E, 0, d)
      BY <1>10, <2>1
    <2>. QED  BY <1>1, <1>5, <1>12, <2>2 DEF Shows
  <1>13. ASSUME NEW q \in 1 .. k + 1, NEW i \in 1 .. N, Movers(SlotEvents(s, q - 1), i) = {}, NEW j \in 1 .. d
         PROVE  next[(q - 1) * d + j][i] = next[(q - 1) * d + 1][i]
    <2>1. CASE q \in 1 .. k
      <3>1. PICK r \in Nat : r = (q - 1) * d /\ r + d <= l
        BY <1>3, <2>1
      <3>2. r + j \in 1 .. l /\ r + 1 \in 1 .. l
        BY <3>1
      <3>3. shown[r + j][i] = shown[r + 1][i]
        BY <1>5, <1>13, <2>1, <3>1
      <3>. QED  BY <1>9, <3>1, <3>2, <3>3
    <2>2. CASE q = k + 1
      <3>1. q - 1 = k
        BY <2>2
      <3>2. Movers(E, i) = {}
        BY <1>13, <3>1
      <3>3. \A x \in 1 .. d : next[l + x][i] = AtRest(resting[i], d)
        <4>1. \A j1 : Frame(resting, E, j1, d)[i] = AtRest(resting[i], d)
          BY <1>1, <3>2 DEF Shows
        <4>. QED  BY <1>10, <4>1
      <3>4. 1 \in 1 .. d
        OBVIOUS
      <3>. QED  BY <1>2, <3>1, <3>3, <3>4
    <2>. QED  BY <2>1, <2>2
  <1>14. Shown(n, s, d, k + 1, after, next)
    <2>1. \E X : next \in Seq(X)
      BY <1>9
    <2>2. Len(next) = (k + 1) * d /\ next[(k + 1) * d] = [i \in 1 .. N |-> AtRest(after[i], d)]
      <3>1. (k + 1) * d = l + d
        BY <1>3
      <3>2. Len(next) = l + d
        BY <1>9
      <3>. QED  BY <1>11, <3>1, <3>2, Zenon
    <2>3. \A q \in 1 .. k + 1 : \A i \in 1 .. N : Movers(SlotEvents(s, q - 1), i) = {} =>
              \A j \in 1 .. d : next[(q - 1) * d + j][i] = next[(q - 1) * d + 1][i]
      BY <1>13
    <2>. QED  BY <1>1, <2>1, <2>2, <2>3, Zenon DEF Shown
  <1>. QED  BY <1>3, <1>5, <1>8, <1>12, <1>14 DEF Continues


(* A slot's samples cover its frames, and by less than a sample more. *)
LEMMA SlotSamplesAre ==
    ASSUME NEW c, ConfigTypes(c), Validate(c), NEW d, d = c.event_duration_frames,
           NEW r, r = c.sound_sample_rate_hz, NEW f, f = c.sound_frames_per_second
    PROVE  /\ ChannelCount(c) \in 1 .. 2 /\ SamplesForDuration(d, c) \in Nat \ {0}
           /\ d \in Nat \ {0} /\ r \in Nat \ {0} /\ f \in Nat \ {0} /\ d * r \in Nat
           /\ SamplesForDuration(d, c) * f >= d * r
           /\ SamplesForDuration(d, c) * f <= d * r + (f - 1)
  <1>1. d \in Nat \ {0} /\ r \in Nat \ {0} /\ f \in Nat \ {0}
    BY PlayableSettings
  <1>2. PICK x \in Nat : x = d * r /\ x > 0
    <2>1. d \in Nat /\ r \in Nat /\ 0 <= r /\ 0 < d /\ r > 0
      BY <1>1
    <2>2. d * r \in Nat /\ 0 * r < d * r
      BY <2>1, Products
    <2>. QED  BY <2>1, <2>2
  <1>3. PICK y \in Nat : y = x + (f - 1)
    BY <1>1
  <1>4. PICK q \in Int, m \in Int : q = y \div f /\ m \in 0 .. f - 1 /\ y = f * q + m
    <2>1. f \in Nat /\ f > 0
      BY <1>1
    <2>2. /\ (y \div f) \in Int /\ (y % f) \in 0 .. f - 1 /\ y = f * (y \div f) + (y % f)
      BY <2>1, Division
    <2>3. (y % f) \in Int
      BY <1>1, <2>2
    <2>. QED  BY <2>2, <2>3
  <1>5. PICK p \in Int : p = f * q /\ p = q * f
    <2>1. f \in Int
      BY <1>1
    <2>2. f * q \in Int /\ f * q = q * f
      BY <2>1
    <2>. QED  BY <2>2
  <1>6. p >= x /\ p <= x + (f - 1)
    BY <1>1, <1>3, <1>4, <1>5
  <1>7. q \in Nat \ {0}
    <2>1. CASE q > 0
      BY <2>1
    <2>2. CASE q <= 0
      <3>1. f \in Nat
        BY <1>1
      <3>2. f * q <= 0
        BY <2>2, <3>1
      <3>. QED  BY <1>2, <1>5, <1>6, <3>2
    <2>. QED  BY <2>1, <2>2
  <1>8. SamplesForDuration(d, c) = q
    BY <1>2, <1>3, <1>4 DEF SamplesForDuration
  <1>9. ChannelCount(c) \in 1 .. 2
    BY DEF ChannelCount
  <1>. QED  BY <1>1, <1>2, <1>5, <1>6, <1>7, <1>8, <1>9

(* A shape starts where its path starts. *)
LEMMA StartsAtPath ==
    ASSUME NEW c, NEW n, Len(n) \in Nat, n \in [1 .. Len(n) -> Nat], NEW s, NEW at,
           Arranged(n, s, at), Timed(c, n, s, at), NEW i \in 1 .. Len(n),
           s.shape_paths[i] \in Seq(Point), Len(s.shape_paths[i]) = 1 + n[i] * SamplesPerEvent
    PROVE  InitialPosition(s, i) \in Point /\ RestsAt(n, s, at, 0, i, InitialPosition(s, i))
  <1>1. PICK N \in Nat, r \in Nat, b \in Nat : N = Len(n) /\ r = n[i] /\ b = at[i - 1]
    <2>1. at \in [0 .. Len(n) -> Nat] /\ i - 1 \in 0 .. Len(n)
      BY DEF Arranged
    <2>. QED  BY <2>1
  <1>2. PICK path : path = s.shape_paths[i]
    OBVIOUS
  <1>3. PICK ev : ev = s.motion_events
    OBVIOUS
  <1>4. PICK S \in Nat : S = SamplesPerEvent /\ S > 0
    BY SamplesAssumption
  <1>5. /\ DOMAIN ev = 1 .. at[N]
        /\ \A j \in 1 .. r : b + j \in 1 .. at[N] /\ MoveOf(s, ev[b + j], i, j)
        /\ \A p \in 1 .. at[N] : \E i2 \in 1 .. N : \E j \in 1 .. n[i2] : p = at[i2 - 1] + j
        /\ \A j \in 1 .. r : ev[b + j].time_slot \in Nat
    BY <1>1, <1>3 DEF Arranged, Timed
  <1>6. path[1] \in Point
    <2>1. r * S \in Nat
      OBVIOUS
    <2>2. path \in Seq(Point) /\ 1 \in 1 .. Len(path)
      BY <1>1, <1>2, <1>4, <2>1
    <2>. QED  BY <2>2, ElementOfSeq
  <1>7. PICK own : own = {p \in DOMAIN ev : ev[p].shape_index = i}
    OBVIOUS
  <1>8. ASSUME NEW p \in own PROVE \E j \in 1 .. r : p = b + j
    <2>1. p \in 1 .. at[N] /\ ev[p].shape_index = i
      BY <1>5, <1>7
    <2>2. PICK i2 \in 1 .. N : \E j \in 1 .. n[i2] : p = at[i2 - 1] + j
      BY <1>5, <2>1
    <2>3. PICK j \in 1 .. n[i2] : p = at[i2 - 1] + j
      BY <2>2
    <2>4. MoveOf(s, ev[p], i2, j)
      BY <1>1, <1>3, <2>3 DEF Arranged
    <2>5. i2 = i
      BY <2>1, <2>4 DEF MoveOf
    <2>. QED  BY <1>1, <2>3, <2>5
  <1>9. InitialPosition(s, i) = path[1]
    <2>1. CASE own = {}
      BY <1>2, <1>3, <1>7, <2>1 DEF InitialPosition
    <2>2. CASE own # {}
      <3>1. 1 \in 1 .. r
        BY <1>8, <2>2
      <3>2. b + 1 \in own
        <4>1. b + 1 \in 1 .. at[N] /\ MoveOf(s, ev[b + 1], i, 1)
          BY <1>5, <3>1
        <4>. QED  BY <1>5, <1>7, <4>1 DEF MoveOf
      <3>3. own \subseteq Nat /\ \A p \in own : b + 1 <= p
        BY <1>8
      <3>4. Min(own) = b + 1
        BY <3>2, <3>3, Minimum
      <3>5. PICK e : e = ev[b + 1]
        OBVIOUS
      <3>6. e.start_point = path[(1 - 1) * S + 1]
        BY <1>2, <1>4, <1>5, <3>1, <3>5 DEF MoveOf
      <3>7. (1 - 1) * S + 1 = 1
        OBVIOUS
      <3>. QED  BY <1>3, <1>7, <2>2, <3>4, <3>5, <3>6, <3>7 DEF InitialPosition
    <2>. QED  BY <2>1, <2>2
  <1>10. RestsAt(n, s, at, 0, i, path[1])
    <2>1. 0 \in 0 .. r /\ 0 * S + 1 = 1
      OBVIOUS
    <2>2. \A j \in 1 .. r : j <= 0 <=> ev[b + j].time_slot < 0
      BY <1>5
    <2>. QED  BY <1>1, <1>2, <1>3, <1>4, <2>1, <2>2 DEF RestsAt
  <1>. QED  BY <1>6, <1>9, <1>10, SMTT(20)

LEMMA PlayStarts ==
    ASSUME NEW c, ConfigTypes(c), Validate(c), NEW n, NEW s, Made(c, n, s), s.motion_events # <<>>
    PROVE  \E at : Played(c, n, s, at, 0, [i \in DOMAIN s.shape_paths |-> InitialPosition(s, i)], <<>>, <<>>, 0)
  <1>1. PICK at : Arranged(n, s, at) /\ Timed(c, n, s, at)
    BY MadeTimed
  <1>2. PICK N \in Nat : N = Len(n)
    BY DEF Made
  <1>3. n \in [1 .. N -> Nat] /\ DOMAIN s.shape_paths = 1 .. N
    BY <1>2, LenProperties DEF Made
  <1>4. ASSUME NEW i \in 1 .. N
        PROVE  InitialPosition(s, i) \in Point /\ RestsAt(n, s, at, 0, i, InitialPosition(s, i))
    <2>1. s.shape_paths[i] \in Seq(Point) /\ Len(s.shape_paths[i]) = 1 + n[i] * SamplesPerEvent
      BY <1>2 DEF Made
    <2>. QED  BY <1>1, <1>2, <1>3, <2>1, StartsAtPath
  <1>5. PICK resting : resting = [i \in DOMAIN s.shape_paths |-> InitialPosition(s, i)]
    OBVIOUS
  <1>6. Rests(n, s, at, 0, resting)
    <2>1. resting \in [1 .. N -> Point]
      BY <1>3, <1>4, <1>5
    <2>2. \A i \in 1 .. N : RestsAt(n, s, at, 0, i, resting[i])
      BY <1>3, <1>4, <1>5
    <2>. QED  BY <1>2, <2>1, <2>2 DEF Rests
  <1>7. PICK o : o = <<>>
    OBVIOUS
  <1>8. o \in Seq({}) /\ Len(o) = 0
    BY <1>7
  <1>9. PICK d : d = c.event_duration_frames
    OBVIOUS
  <1>10. d \in Nat /\ SlotSamples(c) \in Nat
    <2>1. d \in Nat /\ ChannelCount(c) \in Nat /\ SamplesForDuration(d, c) \in Nat
      BY <1>9, SlotSamplesAre
    <2>. QED  BY <1>9, <2>1 DEF SlotSamples
  <1>11. Shown(n, s, d, 0, resting, o)
    <2>1. 0 * d = 0 /\ 1 .. 0 = {} /\ ~ (0 > 0)
      BY <1>10
    <2>. QED  BY <1>8, <2>1 DEF Shown
  <1>12. Sounded(c, s, 0, o, 0)
    <2>1. 1 .. 0 = {} /\ 0 = 0 * SlotSamples(c)
      BY <1>10
    <2>. QED  BY <1>8, <2>1 DEF Sounded
  <1>13. 0 \in 0 .. c.n_motion_slots
    BY FieldTypes
  <1>. QED  BY <1>1, <1>5, <1>6, <1>7, <1>9, <1>11, <1>12, <1>13 DEF Played


Joins(d, shown, next) == shown # <<>> /\ d > 1 => next[Len(shown) + 1] = Last(shown)

(* The next slot is played after those before it; its first frame shows     *)
(* every shape where the last one left it.                                  *)
LEMMA PlaysOn ==
    ASSUME NEW c, ConfigTypes(c), Validate(c), NEW n, NEW s, Made(c, n, s), NEW at, NEW k,
           NEW resting, NEW shown, NEW heard, NEW sounded,
           Played(c, n, s, at, k, resting, shown, heard, sounded), k < c.n_motion_slots,
           NEW E, E = SlotEvents(s, k), NEW d, d = SlotDuration(s, k),
           NEW b, b = [j \in 1 .. d |-> Frame(resting, E, j - 1, d)]
    PROVE  /\ Played(c, n, s, at, k + 1, Settled(resting, E), shown \o b,
                     Append(heard, SlotVoices(s, E)),
                     sounded + ChannelCount(c) * SamplesForDuration(d, c))
           /\ Joins(d, shown, shown \o b)
  <1>1. PICK N \in Nat : N = Len(n)
    BY DEF Made
  <1>2. Len(n) \in Nat /\ n \in [1 .. Len(n) -> Nat]
    BY LenProperties DEF Made
  <1>3. PICK w \in Nat : w = c.n_motion_slots
    BY FieldTypes
  <1>4. k \in Nat /\ k + 1 \in 0 .. w
    BY <1>3 DEF Played
  <1>5. /\ Arranged(n, s, at) /\ Timed(c, n, s, at) /\ Rests(n, s, at, k, resting)
        /\ s.motion_events # <<>>
        /\ Sounded(c, s, k, heard, sounded)
    BY DEF Played
  <1>6. d = c.event_duration_frames
    BY <1>2, <1>4, <1>5, SlotLasts
  <1>7. d \in Nat \ {0}
    BY <1>6, PlayableSettings
  <1>8. Shown(n, s, d, k, resting, shown)
    BY <1>6 DEF Played
  <1>9. PICK m, g : InSlot(s, k, E, m, g, at[Len(n)])
    BY <1>2, <1>4, <1>5, EventsInSlot
  <1>10. PICK after : after = Settled(resting, E)
    OBVIOUS
  <1>11. MovesOnce(N, E, resting) /\ Rests(n, s, at, k + 1, after)
    <2>1. c.easing_family \in Easings
      BY FieldTypes
    <2>2. MovesOnce(Len(n), E, resting) /\ Rests(n, s, at, k + 1, Settled(resting, E))
      BY <1>2, <1>4, <1>5, <1>9, <2>1, SlotMoves
    <2>. QED  BY <1>1, <1>10, <2>2
  <1>12. Shows(N, d, resting, E, after)
    <2>1. m \in Nat /\ DOMAIN E = 1 .. m
      BY <1>9 DEF InSlot
    <2>2. d \in Nat /\ d > 0
      BY <1>7
    <2>3. resting \in [1 .. N -> Point]
      BY <1>1, <1>5 DEF Rests
    <2>4. Shows(N, d, resting, E, Settled(resting, E))
      BY <1>11, <2>1, <2>2, <2>3, SlotFrames
    <2>. QED  BY <1>10, <2>4
  <1>13. Shown(n, s, d, k + 1, after, shown \o b) /\ Continues(k, d, shown, shown \o b)
    <2>1. Shows(Len(n), d, resting, E, after)
      BY <1>1, <1>12
    <2>2. Len(n) \in Nat /\ k \in Nat
      BY <1>2, <1>4
    <2>. QED  BY <1>7, <1>8, <2>1, <2>2, SlotShown
  <1>14. Sounded(c, s, k + 1, Append(heard, SlotVoices(s, E)), sounded + ChannelCount(c) * SamplesForDuration(d, c))
    <2>1. PICK V : heard \in Seq(V)
      BY <1>5 DEF Sounded
    <2>2. PICK v : v = SlotVoices(s, E)
      OBVIOUS
    <2>3. PICK X : X = V \cup {v}
      OBVIOUS
    <2>4. Len(heard) = k
      BY <1>5 DEF Sounded
    <2>5. heard \in Seq(X)
      <3>1. heard \in [1 .. k -> V]
        BY <2>1, <2>4, LenProperties
      <3>2. heard \in [1 .. k -> X]
        BY <2>3, <3>1
      <3>. QED  BY <1>4, <3>2
    <2>6. PICK next : next = Append(heard, v)
      OBVIOUS
    <2>7. /\ next \in Seq(X) /\ Len(next) = k + 1 /\ next[k + 1] = v
          /\ \A q \in 1 .. k : next[q] = heard[q]
      <3>1. v \in X
        BY <2>3
      <3>. QED  BY <2>4, <2>5, <2>6, <3>1, AppendProperties
    <2>8. \A q \in 1 .. k + 1 : next[q] = SlotVoices(s, SlotEvents(s, q - 1))
      <3>. TAKE q \in 1 .. k + 1
      <3>1. CASE q \in 1 .. k
        BY <1>5, <2>7, <3>1 DEF Sounded
      <3>2. CASE q = k + 1
        <4>1. q - 1 = k
          BY <1>4, <3>2
        <4>. QED  BY <2>2, <2>7, <3>2, <4>1
      <3>. QED  BY <1>4, <3>1, <3>2
    <2>9. sounded + ChannelCount(c) * SamplesForDuration(d, c) = (k + 1) * SlotSamples(c)
      <3>1. PICK ch \in Nat, per \in Nat : ch = ChannelCount(c) /\ per = SamplesForDuration(d, c)
        <4>1. ChannelCount(c) \in Nat /\ SamplesForDuration(d, c) \in Nat
          BY <1>6, SlotSamplesAre
        <4>. QED  BY <4>1
      <3>2. PICK x \in Nat : x = ch * per
        OBVIOUS
      <3>3. SlotSamples(c) = x
        BY <1>6, <3>1, <3>2 DEF SlotSamples
      <3>4. sounded = k * x
        BY <1>5, <3>3 DEF Sounded
      <3>5. k * x + x = (k + 1) * x
        BY <1>4
      <3>. QED  BY <3>1, <3>2, <3>3, <3>4, <3>5
    <2>10. \E Y : next \in Seq(Y)
      BY <2>7
    <2>11. Len(next) = k + 1
      BY <2>7
    <2>. QED  BY <2>2, <2>6, <2>8, <2>9, <2>10, <2>11 DEF Sounded
  <1>15. ASSUME shown # <<>> PROVE k > 0
    <2>1. PICK F : shown \in Seq(F)
      BY <1>8 DEF Shown
    <2>2. Len(shown) = k * d
      BY <1>8 DEF Shown
    <2>3. Len(shown) # 0
      BY <1>15, <2>1, EmptySeq
    <2>4. k = 0 => k * d = 0
      BY <1>7
    <2>. QED  BY <1>4, <2>2, <2>3, <2>4
  <1>16. Played(c, n, s, at, k + 1, after, shown \o b, Append(heard, SlotVoices(s, E)),
                sounded + ChannelCount(c) * SamplesForDuration(d, c))
    BY <1>3, <1>4, <1>5, <1>6, <1>11, <1>13, <1>14 DEF Played
  <1>17. Joins(d, shown, shown \o b)
    BY <1>13, <1>15 DEF Last, Continues, Joins
  <1>. QED  BY <1>10, <1>16, <1>17


-------------------------------------------------------------------------------
(* The sum of equal numbers. *)
LEMMA TotalOfEqual ==
    ASSUME NEW n \in Nat, NEW x \in Nat
    PROVE  Total([k \in 1 .. n |-> x]) = n * x
  <1>. DEFINE f == [k \in 1 .. n |-> x]
              at == [k \in 0 .. n |-> k * x]
  <1>1. f \in [1 .. n -> Nat] /\ at \in [0 .. n -> Nat] /\ at[0] = 0 /\ at[n] = n * x
    <2>1. ASSUME NEW k \in 0 .. n PROVE k * x \in Nat
      <3>1. k \in Nat
        OBVIOUS
      <3>. QED  BY <3>1
    <2>2. 0 \in 0 .. n /\ n \in 0 .. n /\ 0 * x = 0
      OBVIOUS
    <2>. QED  BY <2>1, <2>2
  <1>2. ASSUME NEW i \in 1 .. n PROVE at[i] = at[i - 1] + f[i]
    <2>1. i \in 0 .. n /\ i - 1 \in 0 .. n
      OBVIOUS
    <2>2. i * x = (i - 1) * x + x
      OBVIOUS
    <2>. QED  BY <2>1, <2>2
  <1>3. PICK F, A : F = f /\ A = at
    OBVIOUS
  <1>4. F \in [1 .. n -> Nat] /\ A \in [0 .. n -> Nat] /\ A[0] = 0 /\ A[n] = n * x
        /\ \A i \in 1 .. n : A[i] = A[i - 1] + F[i]
    <2>. HIDE DEF f, at
    <2>. QED  BY <1>1, <1>2, <1>3
  <1>5. Total(F) = A[n]
    BY <1>4, TotalBefore
  <1>. QED  BY <1>3, <1>4, <1>5

(* The sound of all slots is what its validator expects. *)
LEMMA SoundMatches ==
    ASSUME NEW c, ConfigTypes(c), Validate(c), NEW n, NEW s, Made(c, n, s), NEW at, NEW k,
           NEW resting, NEW shown, NEW heard, NEW sounded,
           Played(c, n, s, at, k, resting, shown, heard, sounded), k = s.expected_slots
    PROVE  /\ sounded # 0 /\ sounded % ChannelCount(c) = 0
           /\ sounded \div ChannelCount(c) = ExpectedSamplesPerChannel(s, c)
           /\ sounded \div ChannelCount(c) = k * SamplesForDuration(c.event_duration_frames, c)
           /\ k = c.n_motion_slots
  <1>1. Len(n) \in Nat /\ k = c.n_motion_slots /\ k \in Nat \ {0}
    BY PlayableSettings DEF Made
  <1>2. PICK d : d = c.event_duration_frames
    OBVIOUS
  <1>3. PICK ch \in 1 .. 2, per \in Nat : ch = ChannelCount(c) /\ per = SamplesForDuration(d, c) /\ per > 0
    <2>1. ChannelCount(c) \in 1 .. 2 /\ SamplesForDuration(d, c) \in Nat \ {0}
      BY <1>2, SlotSamplesAre
    <2>. QED  BY <2>1
  <1>4. PICK q \in Nat : q = k * per /\ q > 0
    <2>1. k \in Nat /\ 0 \in Nat /\ 0 <= per /\ 0 < k
      BY <1>1
    <2>2. k * per \in Nat /\ 0 * per < k * per
      BY <1>3, <2>1, Products
    <2>. QED  BY <2>2
  <1>5. sounded = ch * q
    <2>1. sounded = k * (ch * per)
      BY <1>2, <1>3 DEF Played, Sounded, SlotSamples
    <2>2. k \in Nat /\ ch \in Nat
      BY <1>1
    <2>3. k * (ch * per) = ch * (k * per)
      BY <2>2
    <2>. QED  BY <1>4, <2>1, <2>3
  <1>6. ch * q # 0 /\ (ch * q) % ch = 0 /\ (ch * q) \div ch = q
    <2>1. CASE ch = 1
      BY <1>4, <2>1
    <2>2. CASE ch = 2
      BY <1>4, <2>2
    <2>. QED  BY <2>1, <2>2
  <1>7. ExpectedSamplesPerChannel(s, c) = q
    <2>1. ASSUME NEW x \in 1 .. k PROVE SamplesForDuration(SlotDuration(s, x - 1), c) = per
      <3>1. x - 1 \in Nat
        BY <1>1
      <3>2. SlotDuration(s, x - 1) = d
        BY <1>1, <1>2, <3>1, SlotLasts DEF Played
      <3>. QED  BY <1>3, <3>2
    <2>2. [x \in 1 .. k |-> SamplesForDuration(SlotDuration(s, x - 1), c)] = [x \in 1 .. k |-> per]
      BY <2>1
    <2>3. Total([x \in 1 .. k |-> per]) = k * per
      <3>1. k \in Nat
        BY <1>1
      <3>. QED  BY <3>1, TotalOfEqual
    <2>. QED  BY <1>4, <2>2, <2>3 DEF ExpectedSamplesPerChannel
  <1>. QED  BY <1>1, <1>2, <1>3, <1>4, <1>5, <1>6, <1>7

(* All moves done, a shape rests at the end of its path. *)
LEMMA RestsAtEnd ==
    ASSUME NEW c, NEW n, NEW s, Made(c, n, s), NEW at, Timed(c, n, s, at), Arranged(n, s, at),
           NEW i \in 1 .. Len(n), NEW p, RestsAt(n, s, at, c.n_motion_slots, i, p)
    PROVE  p = Last(s.shape_paths[i])
  <1>1. n[i] \in Nat
    BY LenProperties DEF Made
  <1>2. PICK r \in Nat : r = n[i]
    BY <1>1
  <1>7. PICK b : b = at[i - 1]
    OBVIOUS
  <1>3. PICK m \in 0 .. r : /\ p = s.shape_paths[i][m * SamplesPerEvent + 1]
                            /\ \A j \in 1 .. r : j <= m <=> s.motion_events[b + j].time_slot < c.n_motion_slots
    BY <1>2, <1>7 DEF RestsAt
  <1>4. \A j \in 1 .. r : s.motion_events[b + j].time_slot < c.n_motion_slots
    BY <1>2, <1>7 DEF Arranged, Timed
  <1>5. m = r
    <2>1. \A j \in 1 .. r : j <= m
      BY <1>3, <1>4
    <2>2. r > 0 => r \in 1 .. r
      OBVIOUS
    <2>. QED  BY <2>1, <2>2
  <1>6. Len(s.shape_paths[i]) = m * SamplesPerEvent + 1
    <2>1. Len(s.shape_paths[i]) = 1 + r * SamplesPerEvent
      BY <1>2 DEF Made
    <2>2. r * SamplesPerEvent \in Nat
      BY SamplesAssumption
    <2>. QED  BY <1>5, <2>1, <2>2
  <1>. QED  BY <1>3, <1>6 DEF Last


(* No two events of a slot move the same shape. *)
MoveApart(N, E, x, y) ==
    /\ E[x].shape_index \in 1 .. N
    /\ E[x].shape_index = E[y].shape_index => x = y

LEMMA OnePerShape ==
    ASSUME NEW c, NEW n, Len(n) \in Nat, NEW s, NEW at, Arranged(n, s, at), Timed(c, n, s, at),
           NEW k \in Nat, NEW E, NEW m, NEW g, InSlot(s, k, E, m, g, at[Len(n)]),
           NEW x \in 1 .. m, NEW y \in 1 .. m
    PROVE  MoveApart(Len(n), E, x, y)
  <1>1. PICK N \in Nat : N = Len(n)
    OBVIOUS
  <1>2. PICK ev : ev = s.motion_events
    OBVIOUS
  <1>3. ASSUME NEW z \in 1 .. m
        PROVE  \E i \in 1 .. N : \E j \in 1 .. n[i] :
                  g[z] = at[i - 1] + j /\ E[z].shape_index = i /\ ev[at[i - 1] + j].time_slot = k
    <2>1. g[z] \in 1 .. at[N] /\ E[z] = ev[g[z]] /\ E[z].time_slot = k
      BY <1>1, <1>2 DEF InSlot
    <2>2. PICK i \in 1 .. N : \E j \in 1 .. n[i] : g[z] = at[i - 1] + j
      BY <1>1, <2>1 DEF Arranged
    <2>3. PICK j \in 1 .. n[i] : g[z] = at[i - 1] + j
      BY <2>2
    <2>4. MoveOf(s, E[z], i, j)
      BY <1>1, <1>2, <2>1, <2>3 DEF Arranged
    <2>. QED  BY <2>1, <2>3, <2>4 DEF MoveOf
  <1>0. PICK i \in 1 .. N : \E j \in 1 .. n[i] :
            g[x] = at[i - 1] + j /\ E[x].shape_index = i /\ ev[at[i - 1] + j].time_slot = k
    BY <1>3
  <1>4. PICK j \in 1 .. n[i] :
            g[x] = at[i - 1] + j /\ E[x].shape_index = i /\ ev[at[i - 1] + j].time_slot = k
    BY <1>0
  <1>5. ASSUME E[x].shape_index = E[y].shape_index PROVE x = y
    <2>1. PICK i2 \in 1 .. N : \E l \in 1 .. n[i2] :
              g[y] = at[i2 - 1] + l /\ E[y].shape_index = i2 /\ ev[at[i2 - 1] + l].time_slot = k
      BY <1>3
    <2>2. PICK l \in 1 .. n[i2] :
              g[y] = at[i2 - 1] + l /\ E[y].shape_index = i2 /\ ev[at[i2 - 1] + l].time_slot = k
      BY <2>1
    <2>3. i2 = i
      BY <1>4, <1>5, <2>2
    <2>4. ~ (j < l) /\ ~ (l < j)
      <3>1. \A u, v \in 1 .. n[i] : u < v => ev[at[i - 1] + u].time_slot < ev[at[i - 1] + v].time_slot
        BY <1>1, <1>2 DEF Timed
      <3>2. ~ (k < k)
        OBVIOUS
      <3>3. l \in 1 .. n[i] /\ ev[at[i - 1] + l].time_slot = k
        BY <2>2, <2>3
      <3>. QED  BY <1>4, <3>1, <3>2, <3>3
    <2>5. j = l
      <3>1. j \in Int /\ l \in Int
        OBVIOUS
      <3>. QED  BY <2>4, <3>1
    <2>6. g[x] = g[y]
      BY <1>4, <2>2, <2>3, <2>5
    <2>. QED  BY <2>6 DEF InSlot
  <1>. QED  BY <1>1, <1>4, <1>5 DEF MoveApart

(* The image of 1 .. m under an injection has m members. *)
LEMMA AsMany ==
    ASSUME NEW m \in Nat, NEW f, DOMAIN f = 1 .. m, f = [x \in 1 .. m |-> f[x]],
           \A x, y \in 1 .. m : f[x] = f[y] => x = y,
           NEW S, S = {f[x] : x \in 1 .. m}
    PROVE  Cardinality(S) = m
  <1>1. 1 \in Int /\ m \in Int
    OBVIOUS
  <1>2. PICK D : D = 1 .. m
    OBVIOUS
  <1>3. IsFiniteSet(D) /\ Cardinality(D) = m
    <2>1. IsFiniteSet(1 .. m) /\ Cardinality(1 .. m) = IF 1 > m THEN 0 ELSE m - 1 + 1
      BY <1>1, FS_Interval
    <2>2. (IF 1 > m THEN 0 ELSE m - 1 + 1) = m
      OBVIOUS
    <2>. QED  BY <1>2, <2>1, <2>2
  <1>4. f \in [D -> S]
    BY <1>2
  <1>5. f \in Injection(D, S)
    BY <1>2, <1>4 DEF Injection, IsInjective
  <1>6. f \in Surjection(D, S)
    BY <1>2, <1>4 DEF Surjection
  <1>7. IsFiniteSet(S) /\ Cardinality(S) <= Cardinality(D)
    BY <1>3, <1>6, FS_Surjection
  <1>8. Cardinality(D) <= Cardinality(S)
    BY <1>5, <1>7, FS_Injection
  <1>9. Cardinality(S) \in Nat
    BY <1>7, FS_CardinalityType
  <1>. QED  BY <1>3, <1>7, <1>8, <1>9

(* The voices of a slot differ in rank and there is one for each shape that *)
(* moves in it.                                                             *)
Apart(v, H) ==
    /\ Cardinality({v[x].profile.canonical_rank : x \in DOMAIN v}) = Len(v)
    /\ Cardinality(H) = Len(v)

HeardOf(s, N, v) == {i \in 1 .. N : \E x \in DOMAIN v : v[x].profile = ShapeProfile(s.identity[i])}
Still(E, N, H) == \A i \in (1 .. N) \ H : Movers(E, i) = {}

LEMMA VoicesApart ==
    ASSUME NEW c, NEW n, NEW s, Made(c, n, s), NEW at, Arranged(n, s, at), Timed(c, n, s, at),
           NEW k \in Nat, NEW E, NEW m, NEW g, InSlot(s, k, E, m, g, at[Len(n)]),
           NEW v, v = SlotVoices(s, E),
           NEW H, H = HeardOf(s, Len(n), v)
    PROVE  Apart(v, H) /\ Still(E, Len(n), H)
  <1>1. PICK N \in Nat : N = Len(n)
    BY DEF Made
  <1>2. m \in Nat /\ DOMAIN E = 1 .. m
    BY DEF InSlot
  <1>3. v = [x \in 1 .. m |-> Voice(s, E[x])] /\ DOMAIN v = 1 .. m
    BY <1>2 DEF SlotVoices
  <1>4. Len(v) = m
    <2>1. PICK S : S = {v[x] : x \in 1 .. m}
      OBVIOUS
    <2>2. v \in [1 .. m -> S]
      <3>1. v = [x \in 1 .. m |-> v[x]]
        BY <1>3
      <3>. QED  BY <2>1, <3>1
    <2>3. v \in Seq(S)
      BY <1>2, <2>2
    <2>. QED  BY <1>2, <1>3, <2>3, LenProperties
  <1>5. PICK h : h = [x \in 1 .. m |-> E[x].shape_index]
    OBVIOUS
  <1>6. /\ DOMAIN h = 1 .. m /\ \A x \in 1 .. m : h[x] \in 1 .. N
        /\ \A x, y \in 1 .. m : h[x] = h[y] => x = y
    <2>1. ASSUME NEW x \in 1 .. m, NEW y \in 1 .. m
          PROVE  MoveApart(Len(n), E, x, y)
      <3>1. Len(n) \in Nat
        BY <1>1
      <3>. QED  BY <3>1, OnePerShape
    <2>. QED  BY <1>1, <1>5, <2>1 DEF MoveApart
  <1>7. PICK f : f = s.identity
    OBVIOUS
  <1>8. f \in [1 .. N -> ShapeColorPairs] /\ \A i, j \in 1 .. N : f[i] = f[j] => i = j
    BY <1>1, <1>7 DEF Made, PairIdentities, IsInjective
  <1>9. \A i, j \in 1 .. N : ClassRank(f[i]) = ClassRank(f[j]) => i = j
    <2>. TAKE i, j \in 1 .. N
    <2>. HAVE ClassRank(f[i]) = ClassRank(f[j])
    <2>1. PICK p \in ShapeColorPairs, q \in ShapeColorPairs : p = f[i] /\ q = f[j]
      BY <1>8
    <2>2. p = q
      BY <2>1, ClassRanks
    <2>. QED  BY <1>8, <2>1, <2>2
  <1>10. ASSUME NEW x \in 1 .. m
         PROVE  v[x].profile = ShapeProfile(f[h[x]]) /\ v[x].profile.canonical_rank = ClassRank(f[h[x]])
    <2>1. PICK w : w = Voice(s, E[x])
      OBVIOUS
    <2>2. v[x] = w
      BY <1>3, <2>1
    <2>3. h[x] = E[x].shape_index
      BY <1>5
    <2>4. w.profile = ShapeProfile(f[h[x]])
      BY <1>7, <2>1, <2>3 DEF Voice
    <2>5. \A id : ShapeProfile(id).canonical_rank = ClassRank(id)
      BY DEF ShapeProfile
    <2>. QED  BY <2>2, <2>4, <2>5
  <1>11. Cardinality({v[x].profile.canonical_rank : x \in DOMAIN v}) = m
    <2>1. PICK r : r = [x \in 1 .. m |-> v[x].profile.canonical_rank]
      OBVIOUS
    <2>2. DOMAIN r = 1 .. m /\ r = [x \in 1 .. m |-> r[x]]
      BY <2>1
    <2>3. ASSUME NEW x \in 1 .. m, NEW y \in 1 .. m, r[x] = r[y] PROVE x = y
      <3>1. ClassRank(f[h[x]]) = ClassRank(f[h[y]])
        BY <1>10, <2>1, <2>3
      <3>2. h[x] = h[y]
        BY <1>6, <1>9, <3>1
      <3>. QED  BY <1>6, <3>2
    <2>4. {v[x].profile.canonical_rank : x \in DOMAIN v} = {r[x] : x \in 1 .. m}
      BY <1>3, <2>1
    <2>5. PICK S : S = {r[x] : x \in 1 .. m}
      OBVIOUS
    <2>6. Cardinality(S) = m
      BY <1>2, <2>2, <2>3, <2>5, AsMany
    <2>. QED  BY <2>4, <2>5, <2>6
  <1>12. H = {h[x] : x \in 1 .. m}
    <2>1. ASSUME NEW x \in 1 .. m PROVE h[x] \in H
      BY <1>1, <1>3, <1>6, <1>7, <1>10 DEF HeardOf
    <2>2. ASSUME NEW i \in H PROVE \E x \in 1 .. m : i = h[x]
      <3>1. i \in 1 .. N
        BY <1>1 DEF HeardOf
      <3>2. PICK x \in 1 .. m : v[x].profile = ShapeProfile(f[i])
        BY <1>3, <1>7 DEF HeardOf
      <3>3. v[x].profile.canonical_rank = ClassRank(f[i])
        <4>1. \A id : ShapeProfile(id).canonical_rank = ClassRank(id)
          BY DEF ShapeProfile
        <4>. QED  BY <3>2, <4>1
      <3>4. ClassRank(f[h[x]]) = ClassRank(f[i])
        BY <1>10, <3>3
      <3>. QED  BY <1>6, <1>9, <3>1, <3>4
    <2>. QED  BY <2>1, <2>2
  <1>13. Cardinality(H) = m
    <2>1. h = [x \in 1 .. m |-> h[x]]
      BY <1>5, <1>6
    <2>. QED  BY <1>2, <1>6, <1>12, <2>1, AsMany
  <1>14. ASSUME NEW i \in (1 .. Len(n)) \ H PROVE Movers(E, i) = {}
    <2>1. ASSUME NEW x \in Movers(E, i) PROVE FALSE
      <3>1. x \in 1 .. m /\ E[x].shape_index = i
        BY <1>2 DEF Movers
      <3>2. h[x] = i
        BY <1>5, <3>1
      <3>. QED  BY <1>12, <3>1, <3>2
    <2>. QED  BY <2>1
  <1>. QED  BY <1>4, <1>11, <1>13, <1>14 DEF Apart, Still


(* Where the frames of a slot are. *)
ShownIn(s, shown, q) ==
    LET before == Total([x \in 1 .. q - 1 |-> SlotDuration(s, x - 1)])
    IN  SubSeq(shown, before + 1, before + SlotDuration(s, q - 1))

Located(sub, shown, d, q) == DOMAIN sub = 1 .. d /\ \A j \in 1 .. d : sub[j] = shown[(q - 1) * d + j]

LEMMA FramesWhere ==
    ASSUME NEW c, ConfigTypes(c), Validate(c), NEW n, NEW s, Made(c, n, s), NEW at, NEW k,
           NEW resting, NEW shown, NEW heard, NEW sounded,
           Played(c, n, s, at, k, resting, shown, heard, sounded),
           NEW d, d = c.event_duration_frames, NEW q \in 1 .. k, NEW sub, sub = ShownIn(s, shown, q)
    PROVE  Located(sub, shown, d, q)
  <1>1. k \in Nat /\ d \in Nat \ {0} /\ Len(n) \in Nat
    BY FieldTypes, PlayableSettings DEF Played, Made
  <1>2. \A x \in Nat : SlotDuration(s, x) = d
    BY <1>1, SlotLasts DEF Played
  <1>3. PICK r \in Nat : r = q - 1 /\ r + 1 <= k
    BY <1>1
  <1>4. PICK b \in Nat : b = r * d
    BY <1>1
  <1>5. Total([x \in 1 .. q - 1 |-> SlotDuration(s, x - 1)]) = b
    <2>1. [x \in 1 .. r |-> SlotDuration(s, x - 1)] = [x \in 1 .. r |-> d]
      <3>1. \A x \in 1 .. r : x - 1 \in Nat
        OBVIOUS
      <3>. QED  BY <1>2, <3>1
    <2>2. Total([x \in 1 .. r |-> d]) = r * d
      BY <1>1, TotalOfEqual
    <2>. QED  BY <1>3, <1>4, <2>1, <2>2
  <1>6. PICK F : shown \in Seq(F)
    BY DEF Played, Shown
  <1>7. PICK l \in Nat : l = Len(shown) /\ b + d <= l
    <2>1. Len(shown) = k * d
      BY DEF Played, Shown
    <2>2. d \in Nat /\ r + 1 \in Nat /\ d <= d
      BY <1>1
    <2>3. (r + 1) * d <= k * d
      <3>1. PICK t \in Nat : t = r + 1
        BY <2>2
      <3>2. t <= k /\ k \in Nat
        BY <1>1, <1>3, <3>1
      <3>3. t * d <= k * d
        BY <2>2, <3>2, Products
      <3>. QED  BY <3>1, <3>3
    <2>4. (r + 1) * d = b + d
      <3>1. PICK D \in Nat : D = d
        BY <2>2
      <3>2. (r + 1) * D = r * D + D
        OBVIOUS
      <3>. QED  BY <1>4, <3>1, <3>2
    <2>5. k * d \in Nat
      BY <1>1, <2>2
    <2>. QED  BY <2>1, <2>3, <2>4, <2>5
  <1>8. SlotDuration(s, q - 1) = d
    BY <1>2, <1>3
  <1>9. sub = SubSeq(shown, b + 1, b + d)
    BY <1>5, <1>8 DEF ShownIn
  <1>10. PICK lo \in Int, hi \in Int : lo = b + 1 /\ hi = b + d
    BY <1>1
  <1>11. \A i \in lo .. hi : shown[i] \in F
    <2>. TAKE i \in lo .. hi
    <2>1. i \in 1 .. l
      BY <1>1, <1>7, <1>10
    <2>. QED  BY <1>6, <1>7, <2>1, ElementOfSeq
  <1>12. /\ sub \in Seq(F) /\ Len(sub) = IF lo <= hi THEN hi - lo + 1 ELSE 0
         /\ \A i \in 1 .. hi - lo + 1 : sub[i] = shown[lo + i - 1]
    <2>1. sub = SubSeq(shown, lo, hi)
      BY <1>9, <1>10
    <2>2. /\ SubSeq(shown, lo, hi) \in Seq(F)
          /\ Len(SubSeq(shown, lo, hi)) = IF lo <= hi THEN hi - lo + 1 ELSE 0
          /\ \A i \in 1 .. hi - lo + 1 : SubSeq(shown, lo, hi)[i] = shown[lo + i - 1]
      BY <1>11, SubSeqProperties
    <2>. QED  BY <2>1, <2>2
  <1>13. lo <= hi /\ hi - lo + 1 = d /\ \A i \in 1 .. d : lo + i - 1 = b + i
    BY <1>1, <1>10
  <1>14. Len(sub) = d /\ \A i \in 1 .. d : sub[i] = shown[b + i]
    BY <1>12, <1>13
  <1>15. DOMAIN sub = 1 .. d
    BY <1>12, <1>14, LenProperties
  <1>. QED  BY <1>3, <1>4, <1>14, <1>15 DEF Located

(* The sound is no shorter than the frames and by less than a sample per   *)
(* slot longer.                                                            *)
LEMMA SoundLength ==
    ASSUME NEW c, ConfigTypes(c), Validate(c), NEW k \in Nat,
           NEW d, d = c.event_duration_frames, NEW r, r = c.sound_sample_rate_hz,
           NEW f, f = c.sound_frames_per_second, NEW per, per = SamplesForDuration(d, c)
    PROVE  (k * per) * f - (k * d) * r \in 0 .. k * (f - 1)
  <1>1. /\ per \in Nat /\ d \in Nat /\ r \in Nat /\ f \in Nat /\ f > 0
        /\ per * f >= d * r /\ per * f <= d * r + (f - 1)
    <2>1. /\ SamplesForDuration(d, c) \in Nat \ {0}
          /\ d \in Nat \ {0} /\ r \in Nat \ {0} /\ f \in Nat \ {0}
          /\ SamplesForDuration(d, c) * f >= d * r
          /\ SamplesForDuration(d, c) * f <= d * r + (f - 1)
      BY SlotSamplesAre
    <2>. QED  BY <2>1
  <1>2. PICK x \in Nat, y \in Nat : x = per * f /\ y = d * r
    BY <1>1
  <1>3. (k * per) * f = k * x /\ (k * d) * r = k * y
    <2>1. (k * per) * f = k * (per * f)
      BY <1>1
    <2>2. (k * d) * r = k * (d * r)
      BY <1>1
    <2>. QED  BY <1>2, <2>1, <2>2
  <1>4. PICK e \in Nat : e = x - y /\ e <= f - 1 /\ f - 1 \in Nat
    BY <1>1, <1>2
  <1>5. k * x - k * y = k * e
    BY <1>4
  <1>6. k * e \in Nat /\ k * e <= k * (f - 1) /\ k * (f - 1) \in Nat
    <2>1. PICK z \in Nat : z = f - 1 /\ e <= z
      BY <1>4
    <2>2. k <= k
      OBVIOUS
    <2>3. k * e \in Nat /\ k * z \in Nat /\ k * e <= k * z
      BY <2>1, <2>2, Products
    <2>. QED  BY <2>1, <2>3
  <1>7. k * e \in 0 .. k * (f - 1)
    BY <1>6
  <1>. QED  BY <1>3, <1>5, <1>7


-------------------------------------------------------------------------------
(* The invariant of the video and the sound, beside the scene's: what is    *)
(* rendered is rendered of the scene slot by slot, and the settings it      *)
(* divides by have been accepted.                                           *)
Playing == {"media", "sound accepted", "sound refused"}

SettingsAccepted == stage \notin {"config", "rejected"} => Validate(config)
NothingPlayed ==
    stage \notin Playing => slot = 0 /\ frames = <<>> /\ voices = <<>> /\ samples = 0
SlotsPlayed ==
    stage \in Playing => \E at : Played(config, counts, scene, at, slot, positions, frames, voices, samples)
SoundAccepted ==
    /\ stage # "sound refused"
    /\ stage = "sound accepted" => slot = scene.expected_slots

MediaInv == PipeInv /\ SettingsAccepted /\ NothingPlayed /\ SlotsPlayed /\ SoundAccepted

LEMMA InitMedia == Init => MediaInv
  <1>. SUFFICES ASSUME Init PROVE MediaInv
    OBVIOUS
  <1>1. stage = "config" /\ slot = 0 /\ frames = <<>> /\ voices = <<>> /\ samples = 0
    BY DEF Init, GenInit, MediaInit
  <1>. QED  BY <1>1, InitPipe DEF MediaInv, SettingsAccepted, NothingPlayed, SlotsPlayed, SoundAccepted, Playing

(* Steps that play nothing. *)
LEMMA KeepsPlayed ==
    ASSUME MediaInv, UNCHANGED <<slot, frames, voices, samples>>, stage \notin Playing, stage' \notin Playing,
           stage' \notin {"config", "rejected"} => Validate(config')
    PROVE  SettingsAccepted' /\ NothingPlayed' /\ SlotsPlayed' /\ SoundAccepted'
  <1>1. SettingsAccepted' /\ SlotsPlayed'
    BY DEF SettingsAccepted, SlotsPlayed, Playing
  <1>2. NothingPlayed'
    BY DEF MediaInv, NothingPlayed, Playing
  <1>3. SoundAccepted'
    BY DEF SoundAccepted, Playing
  <1>. QED  BY <1>1, <1>2, <1>3

LEMMA MediaStarts ==
    ASSUME MediaInv, StartMedia
    PROVE  SettingsAccepted' /\ NothingPlayed' /\ SlotsPlayed' /\ SoundAccepted'
  <1>1. /\ stage = "scene" /\ config' = config /\ counts' = counts /\ scene' = scene
        /\ slot' = slot /\ frames' = frames /\ voices' = voices /\ samples' = samples
        /\ positions' = [i \in DOMAIN scene.shape_paths |-> InitialPosition(scene, i)]
        /\ stage' = IF NothingToPlay(scene) THEN "silent" ELSE "media"
    BY DEF StartMedia
  <1>2. /\ ConfigTypes(config) /\ Validate(config) /\ Made(config, counts, scene)
        /\ slot = 0 /\ frames = <<>> /\ voices = <<>> /\ samples = 0
    BY <1>1 DEF MediaInv, PipeInv, GenInv, SceneMade, SettingsAccepted, NothingPlayed, Early, Playing
  <1>3. CASE NothingToPlay(scene)
    <2>1. stage' = "silent"
      BY <1>1, <1>3
    <2>. QED  BY <1>1, <1>2, <2>1, KeepsPlayed DEF Playing
  <1>4. CASE ~ NothingToPlay(scene)
    <2>1. stage' = "media"
      BY <1>1, <1>4
    <2>2. PICK c, n, s : c = config /\ n = counts /\ s = scene
      OBVIOUS
    <2>3. ConfigTypes(c) /\ Validate(c) /\ Made(c, n, s) /\ s.motion_events # <<>>
      BY <1>2, <1>4, <2>2 DEF NothingToPlay
    <2>4. PICK at : Played(c, n, s, at, 0, [i \in DOMAIN s.shape_paths |-> InitialPosition(s, i)], <<>>, <<>>, 0)
      BY <2>3, PlayStarts
    <2>5. Played(c, n, s, at, slot', positions', frames', voices', samples')
      BY <1>1, <1>2, <2>2, <2>4
    <2>6. SlotsPlayed'
      BY <1>1, <2>2, <2>5 DEF SlotsPlayed
    <2>. QED  BY <1>1, <1>2, <2>1, <2>6 DEF SettingsAccepted, NothingPlayed, SoundAccepted, Playing
  <1>. QED  BY <1>3, <1>4

(* A slot follows those played, and its first frame the last one shown.    *)
LEMMA MediaPlays ==
    ASSUME MediaInv, PlaySlot
    PROVE  /\ SettingsAccepted' /\ NothingPlayed' /\ SlotsPlayed' /\ SoundAccepted'
           /\ frames # <<>> /\ SlotDuration(scene, slot) > 1 => frames'[Len(frames) + 1] = Last(frames)
  <1>1. /\ stage = "media" /\ stage' = "media" /\ config' = config /\ counts' = counts /\ scene' = scene
        /\ slot < scene.expected_slots /\ slot' = slot + 1
    BY DEF PlaySlot
  <1>2. ConfigTypes(config) /\ Validate(config) /\ Made(config, counts, scene)
    BY <1>1 DEF MediaInv, PipeInv, GenInv, SceneMade, SettingsAccepted, Early
  <1>3. PICK c, n, s, k, resting, shown, heard, sounded :
            /\ c = config /\ n = counts /\ s = scene /\ k = slot /\ resting = positions
            /\ shown = frames /\ heard = voices /\ sounded = samples
    OBVIOUS
  <1>4. PICK at : Played(c, n, s, at, k, resting, shown, heard, sounded)
    BY <1>1, <1>3 DEF MediaInv, SlotsPlayed, Playing
  <1>5. ConfigTypes(c) /\ Validate(c) /\ Made(c, n, s) /\ k < c.n_motion_slots
    BY <1>1, <1>2, <1>3 DEF Made
  <1>6. PICK E, d : E = SlotEvents(s, k) /\ d = SlotDuration(s, k)
    OBVIOUS
  <1>7. PICK b : b = [j \in 1 .. d |-> Frame(resting, E, j - 1, d)]
    OBVIOUS
  <1>8. /\ frames' = shown \o b /\ positions' = Settled(resting, E)
        /\ voices' = Append(heard, SlotVoices(s, E))
        /\ samples' = sounded + ChannelCount(c) * SamplesForDuration(d, c)
    BY <1>3, <1>6, <1>7 DEF PlaySlot
  <1>9. Played(c, n, s, at, k + 1, Settled(resting, E), shown \o b, Append(heard, SlotVoices(s, E)),
               sounded + ChannelCount(c) * SamplesForDuration(d, c))
    BY <1>4, <1>5, <1>6, <1>7, PlaysOn
  <1>10. Joins(d, shown, shown \o b)
    BY <1>4, <1>5, <1>6, <1>7, PlaysOn
  <1>11. Played(c, n, s, at, slot', positions', frames', voices', samples')
    BY <1>1, <1>3, <1>8, <1>9
  <1>12. SlotsPlayed'
    BY <1>1, <1>3, <1>11 DEF SlotsPlayed
  <1>13. frames # <<>> /\ SlotDuration(scene, slot) > 1 => frames'[Len(frames) + 1] = Last(frames)
    BY <1>3, <1>6, <1>8, <1>10 DEF Joins
  <1>. QED  BY <1>1, <1>2, <1>12, <1>13 DEF SettingsAccepted, NothingPlayed, SoundAccepted, Playing

LEMMA MediaJudged ==
    ASSUME MediaInv, ValidateSound
    PROVE  SettingsAccepted' /\ NothingPlayed' /\ SlotsPlayed' /\ SoundAccepted'
  <1>1. /\ stage = "media" /\ config' = config /\ counts' = counts /\ scene' = scene
        /\ slot = scene.expected_slots /\ slot' = slot /\ frames' = frames /\ positions' = positions
        /\ voices' = voices /\ samples' = samples
    BY DEF ValidateSound, mediaVars
  <1>2. ConfigTypes(config) /\ Validate(config) /\ Made(config, counts, scene)
    BY <1>1 DEF MediaInv, PipeInv, GenInv, SceneMade, SettingsAccepted, Early
  <1>3. PICK c, n, s, k, resting, shown, heard, sounded :
            /\ c = config /\ n = counts /\ s = scene /\ k = slot /\ resting = positions
            /\ shown = frames /\ heard = voices /\ sounded = samples
    OBVIOUS
  <1>4. PICK at : Played(c, n, s, at, k, resting, shown, heard, sounded)
    BY <1>1, <1>3 DEF MediaInv, SlotsPlayed, Playing
  <1>5. ConfigTypes(c) /\ Validate(c) /\ Made(c, n, s) /\ k = s.expected_slots
    BY <1>1, <1>2, <1>3
  <1>6. /\ sounded # 0 /\ sounded % ChannelCount(c) = 0
        /\ sounded \div ChannelCount(c) = ExpectedSamplesPerChannel(s, c)
    BY <1>4, <1>5, SoundMatches
  <1>7. stage' = "sound accepted"
    BY <1>3, <1>6 DEF ValidateSound
  <1>8. SlotsPlayed'
    <2>1. Played(c, n, s, at, slot', positions', frames', voices', samples')
      BY <1>1, <1>3, <1>4
    <2>. QED  BY <1>1, <1>3, <2>1 DEF SlotsPlayed
  <1>. QED  BY <1>1, <1>2, <1>7, <1>8 DEF SettingsAccepted, NothingPlayed, SoundAccepted, Playing

LEMMA StepMedia == MediaInv /\ [Next]_vars => MediaInv'
  <1>. SUFFICES ASSUME MediaInv, [Next]_vars PROVE MediaInv'
    OBVIOUS
  <1>0. PipeInv'
    BY StepPipe DEF MediaInv
  <1>1. CASE UNCHANGED vars
    <2>1. /\ stage' = stage /\ config' = config /\ counts' = counts /\ scene' = scene
          /\ slot' = slot /\ positions' = positions /\ frames' = frames /\ voices' = voices /\ samples' = samples
      BY <1>1 DEF vars, genVars, mediaVars
    <2>2. SettingsAccepted' /\ NothingPlayed' /\ SoundAccepted'
      BY <2>1 DEF MediaInv, SettingsAccepted, NothingPlayed, SoundAccepted
    <2>3. SlotsPlayed'
      BY <2>1 DEF MediaInv, SlotsPlayed
    <2>. QED  BY <1>0, <2>2, <2>3 DEF MediaInv
  <1>2. CASE GenNext /\ UNCHANGED <<targetVars, textVars, mediaVars, questionVars>>
    <2>1. UNCHANGED <<slot, frames, voices, samples>>
      BY <1>2 DEF mediaVars
    <2>2. CASE ApplyPreset \/ StartScene
      <3>1. /\ stage = "config" /\ stage' \in {"config", "counts", "rejected"}
            /\ stage' = "counts" => Validate(config')
        BY <2>2 DEF ApplyPreset, StartScene
      <3>. QED  BY <1>0, <2>1, <3>1, KeepsPlayed DEF MediaInv, Playing
    <2>3. CASE ResolveCounts \/ SamplePath \/ BuildScene
      <3>1. stage \in {"counts", "paths"} /\ stage' \in {"paths", "scene"} /\ config' = config
        BY <2>3 DEF ResolveCounts, SamplePath, BuildScene
      <3>2. Validate(config')
        BY <3>1 DEF MediaInv, SettingsAccepted
      <3>. QED  BY <1>0, <2>1, <3>1, <3>2, KeepsPlayed DEF MediaInv, Playing
    <2>. QED  BY <1>2, <2>2, <2>3 DEF GenNext
  <1>3. CASE \/ (GenerateTargets \/ TargetsFail) /\ UNCHANGED <<textVars, mediaVars, questionVars>>
             \/ (WriteText \/ DecodeText) /\ UNCHANGED <<mediaVars, questionVars>>
             \/ AskQuestion \/ Answer
    <2>1. /\ stage \in {"scene", "targets", "text", "question"}
          /\ stage' \in {"targets", "targets failed", "text", "decoded", "question", "answered"}
          /\ config' = config /\ UNCHANGED <<slot, frames, voices, samples>>
      BY <1>3 DEF GenerateTargets, TargetsFail, WriteText, DecodeText, AskQuestion, Answer, mediaVars
    <2>2. Validate(config')
      BY <2>1 DEF MediaInv, SettingsAccepted
    <2>. QED  BY <1>0, <2>1, <2>2, KeepsPlayed DEF MediaInv, Playing
  <1>4. CASE (StartMedia \/ PlaySlot \/ ValidateSound) /\ UNCHANGED questionVars
    BY <1>0, <1>4, MediaStarts, MediaPlays, MediaJudged DEF MediaInv
  <1>. QED  BY <1>1, <1>2, <1>3, <1>4 DEF Next

LEMMA MediaInvariant == Spec => []MediaInv
  BY InitMedia, StepMedia, PTL DEF Spec


(* No shape jumps between two slots of the video: the first frame of a slot *)
(* of more than one frame shows every shape where the last frame before it  *)
(* did (video_encoding.rs:131).                                             *)
THEOREM FramesJoin == Spec => NoJump
  <1>1. MediaInv /\ [Next]_vars =>
            [ (stage = "media" /\ frames # <<>> /\ frames' # frames /\ SlotDuration(scene, slot) > 1) =>
                  frames'[Len(frames) + 1] = Last(frames) ]_frames
    <2>. SUFFICES ASSUME MediaInv, Next, stage = "media", frames # <<>>, frames' # frames,
                         SlotDuration(scene, slot) > 1
                  PROVE  frames'[Len(frames) + 1] = Last(frames)
      BY DEF vars, mediaVars
    <2>1. PlaySlot
      <3>1. ~ UNCHANGED mediaVars
        BY DEF mediaVars
      <3>2. ~ StartMedia /\ ~ ValidateSound /\ ~ AskQuestion /\ ~ Answer
        BY <3>1 DEF StartMedia, ValidateSound, AskQuestion, Answer
      <3>. QED  BY <3>1, <3>2 DEF Next
    <2>. QED  BY <2>1, MediaPlays
  <1>. QED  BY <1>1, MediaInvariant, PTL DEF Spec, NoJump


(* The voices of a slot played, and the shapes that stand still in it.      *)
StandStill(sub, N, H) == \A i \in (1 .. N) \ H : \A j \in DOMAIN sub : sub[j][i] = sub[1][i]

LEMMA SlotHeard ==
    ASSUME NEW c, ConfigTypes(c), Validate(c), NEW n, NEW s, Made(c, n, s), NEW at, NEW slots,
           NEW resting, NEW shown, NEW heard, NEW sounded,
           Played(c, n, s, at, slots, resting, shown, heard, sounded), NEW k \in 1 .. slots,
           NEW v, v = heard[k],
           NEW H, H = HeardOf(s, Len(n), v), NEW sub, sub = ShownIn(s, shown, k)
    PROVE  Apart(v, H) /\ StandStill(sub, Len(n), H)
  <1>1. slots \in Nat /\ Len(n) \in Nat
    BY FieldTypes DEF Played, Made
  <1>2. PICK d : d = c.event_duration_frames
    OBVIOUS
  <1>3. /\ Arranged(n, s, at) /\ Timed(c, n, s, at)
        /\ Shown(n, s, d, slots, resting, shown) /\ Sounded(c, s, slots, heard, sounded)
    BY <1>2 DEF Played
  <1>4. PICK q \in Nat : q = k - 1
    BY <1>1
  <1>5. PICK E : E = SlotEvents(s, q)
    OBVIOUS
  <1>6. PICK m, g : InSlot(s, q, E, m, g, at[Len(n)])
    BY <1>1, <1>3, <1>5, EventsInSlot
  <1>7. v = SlotVoices(s, E)
    BY <1>3, <1>4, <1>5 DEF Sounded
  <1>8. Apart(v, H) /\ Still(E, Len(n), H)
    BY <1>3, <1>6, <1>7, VoicesApart
  <1>9. Located(sub, shown, d, k)
    BY <1>2, FramesWhere
  <1>10. ASSUME NEW i \in (1 .. Len(n)) \ H, NEW j \in DOMAIN sub PROVE sub[j][i] = sub[1][i]
    <2>1. i \in 1 .. Len(n) /\ Movers(SlotEvents(s, k - 1), i) = {}
      BY <1>4, <1>5, <1>8 DEF Still
    <2>2. j \in 1 .. d /\ 1 \in 1 .. d
      <3>1. d \in Nat \ {0}
        BY <1>2, PlayableSettings
      <3>. QED  BY <1>9, <3>1 DEF Located
    <2>3. shown[(k - 1) * d + j][i] = shown[(k - 1) * d + 1][i]
      BY <1>3, <2>1, <2>2 DEF Shown
    <2>. QED  BY <1>9, <2>2, <2>3 DEF Located
  <1>. QED  BY <1>8, <1>10 DEF StandStill

(* When all slots have been played. *)
PlayedOut(c, n, s, slots, resting, shown, sounded) ==
    /\ \A i \in 1 .. Len(n) : resting[i] = Last(s.shape_paths[i])
    /\ (sounded \div ChannelCount(c)) * c.sound_frames_per_second - Len(shown) * c.sound_sample_rate_hz
         \in 0 .. slots * (c.sound_frames_per_second - 1)

LEMMA PlaysOut ==
    ASSUME NEW c, ConfigTypes(c), Validate(c), NEW n, NEW s, Made(c, n, s), NEW at, NEW slots,
           NEW resting, NEW shown, NEW heard, NEW sounded,
           Played(c, n, s, at, slots, resting, shown, heard, sounded), slots = s.expected_slots
    PROVE  PlayedOut(c, n, s, slots, resting, shown, sounded)
  <1>1. PICK d, r, f, per : d = c.event_duration_frames /\ r = c.sound_sample_rate_hz
                            /\ f = c.sound_frames_per_second /\ per = SamplesForDuration(d, c)
    OBVIOUS
  <1>2. slots \in Nat /\ slots = c.n_motion_slots
    BY FieldTypes DEF Made
  <1>3. sounded \div ChannelCount(c) = slots * per
    <2>1. /\ sounded # 0 /\ sounded % ChannelCount(c) = 0
          /\ sounded \div ChannelCount(c) = ExpectedSamplesPerChannel(s, c)
          /\ sounded \div ChannelCount(c) = slots * SamplesForDuration(c.event_duration_frames, c)
          /\ slots = c.n_motion_slots
      BY SoundMatches
    <2>. QED  BY <1>1, <2>1
  <1>4. /\ Arranged(n, s, at) /\ Timed(c, n, s, at) /\ Rests(n, s, at, slots, resting)
        /\ Shown(n, s, d, slots, resting, shown)
    BY <1>1 DEF Played
  <1>5. ASSUME NEW i \in 1 .. Len(n) PROVE resting[i] = Last(s.shape_paths[i])
    <2>1. PICK p : p = resting[i]
      OBVIOUS
    <2>2. RestsAt(n, s, at, c.n_motion_slots, i, p)
      BY <1>2, <1>4, <2>1 DEF Rests
    <2>. QED  BY <1>4, <2>1, <2>2, RestsAtEnd
  <1>6. (sounded \div ChannelCount(c)) * f - Len(shown) * r \in 0 .. slots * (f - 1)
    <2>1. Len(shown) = slots * d
      BY <1>4 DEF Shown
    <2>2. (slots * per) * f - (slots * d) * r \in 0 .. slots * (f - 1)
      BY <1>1, <1>2, SoundLength
    <2>. QED  BY <1>3, <2>1, <2>2, Zenon
  <1>. QED  BY <1>1, <1>5, <1>6 DEF PlayedOut

(* When all slots have been played every shape rests where its path ends,   *)
(* the sound is accepted and by less than a sample per slot longer than the *)
(* video, in every slot the voices differ in frequency, and a shape that is *)
(* not heard stands still (render_scene_sound_wav, sound_encoding.rs:56).   *)
THEOREM MediaEnd == Spec => []MediaEndTogether
  <1>1. MediaInv => MediaEndTogether
    <2>. SUFFICES ASSUME MediaInv, stage = "sound accepted"
                  PROVE  /\ \A i \in DOMAIN positions : positions[i] = Last(scene.shape_paths[i])
                         /\ (samples \div ChannelCount(config)) * config.sound_frames_per_second
                               - Len(frames) * config.sound_sample_rate_hz
                            \in 0 .. slot * (config.sound_frames_per_second - 1)
                         /\ \A k \in DOMAIN voices :
                               /\ Cardinality({voices[k][n].profile.canonical_rank : n \in DOMAIN voices[k]})
                                    = Len(voices[k])
                               /\ Cardinality(Heard(k)) = Len(voices[k])
                               /\ \A i \in DOMAIN positions \ Heard(k), j \in DOMAIN FramesOfSlot(k) :
                                     FramesOfSlot(k)[j][i] = FramesOfSlot(k)[1][i]
      BY DEF MediaEndTogether, MediaInv, SoundAccepted
    <2>1. ConfigTypes(config) /\ Validate(config) /\ Made(config, counts, scene) /\ slot = scene.expected_slots
      BY DEF MediaInv, PipeInv, GenInv, SceneMade, SettingsAccepted, SoundAccepted, Early
    <2>2. PICK c, n, s, slots, resting, shown, heard, sounded :
              /\ c = config /\ n = counts /\ s = scene /\ slots = slot /\ resting = positions
              /\ shown = frames /\ heard = voices /\ sounded = samples
      OBVIOUS
    <2>3. PICK at : Played(c, n, s, at, slots, resting, shown, heard, sounded)
      BY <2>2 DEF MediaInv, SlotsPlayed, Playing
    <2>4. ConfigTypes(c) /\ Validate(c) /\ Made(c, n, s) /\ slots = s.expected_slots
      BY <2>1, <2>2
    <2>5. PlayedOut(c, n, s, slots, resting, shown, sounded)
      BY <2>3, <2>4, PlaysOut
    <2>6. DOMAIN resting = 1 .. Len(n) /\ DOMAIN heard = 1 .. slots
      <3>1. resting \in [1 .. Len(n) -> Point] /\ (\E V : heard \in Seq(V)) /\ Len(heard) = slots
        BY <2>3 DEF Played, Rests, Sounded
      <3>. QED  BY <3>1, LenProperties
    <2>7. ASSUME NEW k \in DOMAIN voices
          PROVE  /\ Cardinality({voices[k][x].profile.canonical_rank : x \in DOMAIN voices[k]}) = Len(voices[k])
                 /\ Cardinality(Heard(k)) = Len(voices[k])
                 /\ \A i \in DOMAIN positions \ Heard(k), j \in DOMAIN FramesOfSlot(k) :
                       FramesOfSlot(k)[j][i] = FramesOfSlot(k)[1][i]
      <3>1. PICK v, H : v = voices[k] /\ H = Heard(k)
        OBVIOUS
      <3>2. H = HeardOf(s, Len(n), v)
        BY <2>2, <2>6, <3>1 DEF Heard, HeardOf
      <3>3. PICK sub : sub = ShownIn(s, shown, k)
        OBVIOUS
      <3>4. FramesOfSlot(k) = sub
        BY <2>2, <3>3 DEF FramesOfSlot, ShownIn
      <3>5. k \in 1 .. slots /\ v = heard[k]
        BY <2>2, <2>6, <3>1
      <3>6. Apart(v, H) /\ StandStill(sub, Len(n), H)
        BY <2>3, <2>4, <3>2, <3>3, <3>5, SlotHeard
      <3>7. DOMAIN positions = 1 .. Len(n)
        BY <2>2, <2>6
      <3>. QED  BY <3>1, <3>4, <3>6, <3>7 DEF Apart, StandStill
    <2>8. \A i \in DOMAIN positions : positions[i] = Last(scene.shape_paths[i])
      BY <2>2, <2>5, <2>6 DEF PlayedOut
    <2>9. (samples \div ChannelCount(config)) * config.sound_frames_per_second
             - Len(frames) * config.sound_sample_rate_hz
          \in 0 .. slot * (config.sound_frames_per_second - 1)
      BY <2>2, <2>5, Zenon DEF PlayedOut
    <2>. QED  BY <2>7, <2>8, <2>9
  <1>. QED  BY <1>1, MediaInvariant, PTL
===============================================================================
