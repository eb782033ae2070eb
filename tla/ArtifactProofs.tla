----------------------------- MODULE ArtifactProofs -----------------------------
(***************************************************************************)
(* The binary files, the Python module and the image.  A file that nothing *)
(* happened to gives back what was written, any other is refused, for      *)
(* artifacts of any size: where each part of a file is follows from its    *)
(* writer, and the counts in its header fix its length, so that a file cut *)
(* or extended anywhere has the wrong one.  Whatever a Python program      *)
(* calls, the objects it holds are valid configurations, and an iterator   *)
(* returns consecutive scenes.  For any number and size of panels,         *)
(* shuffled and scattered in any way, the panels, borders and markers of   *)
(* an image keep clear of each other, and its arrows tell the order of     *)
(* time.                                                                   *)
(***************************************************************************)
EXTENDS ArtifactFiles, PyBinding, ImageComic, SequenceLemmas

HeaderCells == 4 + SceneCells + TaskCells

(* A part is in the cells of a file behind the first "at" of them.         *)
Placed(cells, at, part) ==
    /\ at + Len(part) <= Len(cells)
    /\ \A k \in 1 .. Len(part) : cells[at + k] = part[k]

LEMMA WholePlaced == ASSUME NEW p \in Seq(Nat) PROVE Placed(p, 0, p)
  <1>1. Len(p) \in Nat
    BY LenProperties
  <1>. QED  BY <1>1 DEF Placed

LEMMA AppendPlaced ==
    ASSUME NEW p \in Seq(Nat), NEW q \in Seq(Nat)
    PROVE  p \o q \in Seq(Nat) /\ Len(p \o q) = Len(p) + Len(q) /\ Placed(p \o q, Len(p), q)
  <1>1. PICK r : r = p \o q
    OBVIOUS
  <1>2. /\ r \in Seq(Nat) /\ Len(r) = Len(p) + Len(q) /\ Len(p) \in Nat /\ Len(q) \in Nat
        /\ \A j \in 1 .. Len(q) : r[Len(p) + j] = q[j]
    BY <1>1, ConcatMembers
  <1>3. Placed(r, Len(p), q)
    BY <1>2 DEF Placed
  <1>. QED  BY <1>1, <1>2, <1>3

LEMMA StaysPlaced ==
    ASSUME NEW p \in Seq(Nat), NEW q \in Seq(Nat), NEW at \in Nat, NEW part \in Seq(Nat),
           Placed(p, at, part)
    PROVE  Placed(p \o q, at, part)
  <1>1. PICK r : r = p \o q
    OBVIOUS
  <1>2. /\ r \in Seq(Nat) /\ Len(r) = Len(p) + Len(q) /\ Len(p) \in Nat /\ Len(q) \in Nat
        /\ \A k \in 1 .. Len(p) : r[k] = p[k]
    BY <1>1, ConcatMembers
  <1>3. Len(part) \in Nat /\ at + Len(part) <= Len(p) /\ \A k \in 1 .. Len(part) : p[at + k] = part[k]
    BY LenProperties DEF Placed
  <1>4. ASSUME NEW k \in 1 .. Len(part)
        PROVE  r[at + k] = part[k]
    <2>1. PICK n, m \in Nat : n = Len(part) /\ m = Len(p)
      BY <1>2, <1>3
    <2>2. at + n <= m /\ k \in 1 .. n
      BY <1>3, <2>1
    <2>3. at + k \in 1 .. Len(p)
      BY <2>1, <2>2
    <2>. QED  BY <1>2, <1>3, <2>3
  <1>. QED  BY <1>1, <1>2, <1>3, <1>4 DEF Placed

(* What is placed in a file is what the reader takes from there.           *)
LEMMA CellsOfPlaced ==
    ASSUME NEW cells \in Seq(Nat), NEW at \in Nat, NEW part \in Seq(Nat), Placed(cells, at, part)
    PROVE  Cells(cells, at, Len(part)) = part
  <1>1. PICK n \in Nat : n = Len(part)
    BY LenProperties
  <1>2. /\ at + n <= Len(cells) /\ Len(cells) \in Nat
        /\ \A k \in 1 .. n : cells[at + k] = part[k]
    BY <1>1, LenProperties DEF Placed
  <1>3. PICK m, o \in Int : m = at + 1 /\ o = at + n
    OBVIOUS
  <1>4. \A i \in m .. o : cells[i] \in Nat
    <2>1. ASSUME NEW i \in m .. o
          PROVE  i \in 1 .. Len(cells)
      BY <1>2, <1>3
    <2>. QED  BY <2>1, ElementOfSeq
  <1>5. PICK s : s = SubSeq(cells, m, o)
    OBVIOUS
  <1>6. /\ s \in Seq(Nat) /\ Len(s) = (IF m <= o THEN o - m + 1 ELSE 0)
        /\ \A i \in 1 .. o - m + 1 : s[i] = cells[m + i - 1]
    BY <1>4, <1>5, SubSeqProperties
  <1>7. Len(s) = n
    BY <1>3, <1>6
  <1>8. ASSUME NEW i \in 1 .. Len(s)
        PROVE  s[i] = part[i]
    <2>1. i \in 1 .. n /\ i \in 1 .. o - m + 1 /\ m + i - 1 = at + i
      BY <1>3, <1>7
    <2>. QED  BY <1>2, <1>6, <2>1
  <1>9. s = part
    BY <1>1, <1>6, <1>7, <1>8, SeqEqual
  <1>. QED  BY <1>1, <1>3, <1>5, <1>9 DEF Cells

(* A float's number is in the second of its cells.                         *)
FloatsPlaced(values, s) ==
    Len(s) = 2 * Len(values) /\ \A k \in 1 .. Len(values) : s[2 * k] = values[k]

LEMMA FloatsLayout ==
    ASSUME NEW values \in Seq(Nat)
    PROVE  Floats(values) \in Seq(Nat) /\ FloatsPlaced(values, Floats(values))
  <1>1. PICK n \in Nat : n = Len(values)
    BY LenProperties
  <1>2. PICK v : v = [k \in 1 .. n |-> Float(values[k])]
    OBVIOUS
  <1>3. ASSUME NEW k \in 1 .. n
        PROVE  values[k] \in Nat /\ v[k] = <<0, values[k]>>
    BY <1>1, <1>2, ElementOfSeq DEF Float
  <1>4. v \in Seq(Seq(Nat)) /\ Len(v) = n
    <2>1. v \in [1 .. n -> Seq(Nat)]
      BY <1>2, <1>3 DEF Float
    <2>. QED  BY <2>1
  <1>5. \A i \in 1 .. Len(v) : Len(v[i]) = 2
    <2>1. ASSUME NEW i \in 1 .. n
          PROVE  Len(v[i]) = 2
      <3>1. PICK x \in Nat : v[i] = <<0, x>>
        BY <1>3
      <3>2. Len(<<0, x>>) = 2
        OBVIOUS
      <3>. QED  BY <3>1, <3>2
    <2>. QED  BY <1>4, <2>1
  <1>6. FlattenSeq(v) \in Seq(Nat) /\ Even(v, FlattenSeq(v), 2)
    BY <1>4, <1>5, FlattenEven
  <1>7. PICK s : s = FlattenSeq(v)
    OBVIOUS
  <1>8. Floats(values) = s
    <2>1. DOMAIN values = 1 .. n
      BY <1>1, LenProperties
    <2>. QED  BY <1>2, <1>7, <2>1 DEF Floats
  <1>9. /\ Len(s) = n * 2
        /\ \A i \in 1 .. n : \A k \in 1 .. 2 : s[(i - 1) * 2 + k] = v[i][k]
    BY <1>4, <1>6, <1>7 DEF Even
  <1>10. ASSUME NEW k \in 1 .. n
         PROVE  s[2 * k] = values[k]
    <2>1. s[(k - 1) * 2 + 2] = v[k][2]
      BY <1>9
    <2>2. (k - 1) * 2 + 2 = 2 * k
      OBVIOUS
    <2>. QED  BY <1>3, <2>1, <2>2
  <1>. QED  BY <1>1, <1>6, <1>7, <1>8, <1>9, <1>10 DEF FloatsPlaced

-------------------------------------------------------------------------------
(* A name comes back from its field.                                       *)
LEMMA NameOfFixed ==
    ASSUME NEW n \in Names, NEW w \in Nat, Len(n) <= w
    PROVE  Fixed(n, w) \in Seq(Nat) /\ Len(Fixed(n, w)) = w /\ Name(Fixed(n, w)) = n
  <1>1. n \in Seq(Nat) /\ (n # <<>> => n[Len(n)] # 0)
    BY DEF Names
  <1>2. PICK l \in Nat : l = Len(n)
    BY <1>1, LenProperties
  <1>3. PICK d \in Nat : d = w - l
    BY <1>2
  <1>4. PICK z : z = [k \in 1 .. d |-> 0]
    OBVIOUS
  <1>5. z \in Seq(Nat) /\ Len(z) = d /\ \A k \in 1 .. d : z[k] = 0
    <2>1. z \in [1 .. d -> Nat]
      BY <1>4
    <2>. QED  BY <1>4, <2>1
  <1>6. PICK f : f = n \o z
    OBVIOUS
  <1>7. Fixed(n, w) = f
    BY <1>2, <1>3, <1>4, <1>6 DEF Fixed
  <1>8. /\ f \in Seq(Nat) /\ Len(f) = l + d /\ DOMAIN f = 1 .. l + d
        /\ \A k \in 1 .. l : f[k] = n[k]
        /\ \A k \in 1 .. d : f[l + k] = 0
    <2>1. /\ f \in Seq(Nat) /\ Len(f) = Len(n) + Len(z) /\ DOMAIN f = 1 .. Len(n) + Len(z)
          /\ \A k \in 1 .. Len(n) : f[k] = n[k]
          /\ \A k \in 1 .. Len(z) : f[Len(n) + k] = z[k]
      <3>1. n \in Seq(Nat) /\ z \in Seq(Nat)
        BY <1>1, <1>5
      <3>. QED  BY <1>6, <3>1, ConcatMembers
    <2>. QED  BY <1>2, <1>5, <2>1
  <1>9. Len(f) = w /\ DOMAIN f = 1 .. w
    BY <1>2, <1>3, <1>8
  <1>10. PICK used : used = {k \in DOMAIN f : f[k] # 0}
    OBVIOUS
  <1>11. ASSUME NEW k \in used
         PROVE  k \in 1 .. l
    <2>1. k \in 1 .. w /\ f[k] # 0
      BY <1>9, <1>10
    <2>2. CASE k > l
      <3>1. k - l \in 1 .. d /\ l + (k - l) = k
        BY <1>3, <2>1, <2>2
      <3>. QED  BY <1>8, <2>1, <3>1
    <2>. QED  BY <2>1, <2>2
  <1>12. PICK last : last = IF used = {} THEN 0 ELSE CHOOSE k \in used : \A m \in used : m <= k
    OBVIOUS
  <1>13. last = l
    <2>1. CASE l = 0
      BY <1>11, <1>12, <2>1
    <2>2. CASE l # 0
      <3>1. n # <<>>
        BY <1>2, <2>2
      <3>2. l \in used
        <4>1. l \in 1 .. l /\ f[l] = n[l] /\ n[l] # 0 /\ l \in 1 .. w
          BY <1>1, <1>2, <1>3, <1>8, <2>2, <3>1
        <4>. QED  BY <1>9, <1>10, <4>1
      <3>3. \A m \in used : m <= l
        BY <1>11
      <3>4. PICK k : k = CHOOSE j \in used : \A m \in used : m <= j
        OBVIOUS
      <3>7. k \in used /\ \A m \in used : m <= k
        BY <3>2, <3>3, <3>4, Zenon
      <3>5. k <= l /\ l <= k /\ k \in Nat
        BY <1>11, <3>2, <3>7
      <3>6. last = k
        BY <1>12, <3>2, <3>4
      <3>. QED  BY <3>5, <3>6
    <2>. QED  BY <2>1, <2>2
  <1>14. SubSeq(f, 1, l) = n
    <2>1. PICK o \in Nat : o = 0
      OBVIOUS
    <2>2. Placed(f, o, n)
      BY <1>1, <1>2, <1>8, <2>1 DEF Placed
    <2>3. Cells(f, o, Len(n)) = n
      BY <1>1, <1>8, <2>2, CellsOfPlaced
    <2>. QED  BY <1>2, <2>1, <2>3 DEF Cells
  <1>15. Name(f) = SubSeq(f, 1, last)
    BY <1>10, <1>12 DEF Name
  <1>. QED  BY <1>7, <1>8, <1>9, <1>13, <1>14, <1>15

-------------------------------------------------------------------------------
(* Targets.                                                                *)
Targets == [kind : {"target"}, scene : Names, task : Names, segments : Seq(Seq(Nat))]

Width(t) == IF t.segments = <<>> THEN 0 ELSE Len(t.segments[1])

TargetParts(t, cells) ==
    /\ cells \in Seq(Nat) /\ Len(cells) = HeaderCells + 2 * (Len(t.segments) * Width(t))
    /\ cells[1] = Magic.target
    /\ cells[HeaderCells - 1] = Len(t.segments) /\ cells[HeaderCells] = Width(t)
    /\ Placed(cells, 2, Fixed(t.scene, SceneCells))
    /\ Placed(cells, 2 + SceneCells, Fixed(t.task, TaskCells))
    /\ \A k \in 1 .. Len(t.segments) * Width(t) : cells[HeaderCells + 2 * k] = FlattenSeq(t.segments)[k]

LEMMA HeadCells == SceneCells \in Nat \ {0} /\ TaskCells \in Nat \ {0} /\ HeaderCells \in Nat
  <1>1. SceneCells \in Nat \ {0} /\ TaskCells \in Nat \ {0}
    BY NotFiniteAssumption
  <1>. QED  BY <1>1 DEF HeaderCells

LEMMA TargetSegments ==
    ASSUME NEW t \in Targets, TargetWritable(t)
    PROVE  /\ t.segments \in Seq(Seq(Nat)) /\ Len(t.segments) \in Nat /\ Width(t) \in Nat
           /\ \A i \in 1 .. Len(t.segments) : t.segments[i] \in Seq(Nat) /\ Len(t.segments[i]) = Width(t)
           /\ FlattenSeq(t.segments) \in Seq(Nat) /\ Even(t.segments, FlattenSeq(t.segments), Width(t))
  <1>1. PICK ss \in Seq(Seq(Nat)) : ss = t.segments
    BY DEF Targets
  <1>2. Len(ss) \in Nat /\ DOMAIN ss = 1 .. Len(ss)
    BY LenProperties
  <1>3. \A i \in 1 .. Len(ss) : ss[i] \in Seq(Nat) /\ Len(ss[i]) \in Nat
    BY ElementOfSeq, LenProperties
  <1>4. \A i \in 1 .. Len(ss) : Len(ss[i]) = Len(ss[1])
    BY <1>1, <1>2 DEF TargetWritable, Range
  <1>5. PICK w : w = IF ss = <<>> THEN 0 ELSE Len(ss[1])
    OBVIOUS
  <1>6. w \in Nat /\ \A i \in 1 .. Len(ss) : Len(ss[i]) = w
    <2>1. CASE ss = <<>>
      BY <1>5, <2>1
    <2>2. CASE ss # <<>>
      <3>1. 1 \in 1 .. Len(ss)
        BY <1>2, <2>2, EmptySeq
      <3>. QED  BY <1>3, <1>4, <1>5, <2>2, <3>1
    <2>. QED  BY <2>1, <2>2
  <1>7. FlattenSeq(ss) \in Seq(Nat) /\ Even(ss, FlattenSeq(ss), w)
    BY <1>6, FlattenEven
  <1>8. Width(t) = w
    BY <1>1, <1>5 DEF Width
  <1>. QED  BY <1>1, <1>2, <1>3, <1>6, <1>7, <1>8

LEMMA TargetLayout ==
    ASSUME NEW t \in Targets, TargetWritable(t)
    PROVE  TargetParts(t, TargetFile(t))
  <1>1. /\ SceneCells \in Nat /\ TaskCells \in Nat /\ t.scene \in Names /\ t.task \in Names
        /\ Len(t.scene) <= SceneCells /\ Len(t.task) <= TaskCells
    BY HeadCells DEF Targets, TargetWritable
  <1>2. PICK c, w \in Nat : c = Len(t.segments) /\ w = Width(t)
    BY TargetSegments
  <1>3. PICK v \in Seq(Nat) : v = FlattenSeq(t.segments)
    BY TargetSegments
  <1>4. Len(v) = c * w
    BY <1>2, <1>3, TargetSegments DEF Even
  <1>5. PICK fl : fl = Floats(v)
    OBVIOUS
  <1>6. fl \in Seq(Nat) /\ Len(fl) = 2 * (c * w) /\ \A k \in 1 .. c * w : fl[2 * k] = v[k]
    BY <1>4, <1>5, FloatsLayout DEF FloatsPlaced
  <1>7. PICK sc \in Seq(Nat) : sc = Fixed(t.scene, SceneCells) /\ Len(sc) = SceneCells
    BY <1>1, NameOfFixed
  <1>8. PICK ta \in Seq(Nat) : ta = Fixed(t.task, TaskCells) /\ Len(ta) = TaskCells
    BY <1>1, NameOfFixed
  <1>9. PICK h : h = <<Magic.target, FormatVersion>>
    OBVIOUS
  <1>10. PICK m : m = <<c, w>>
    OBVIOUS
  <1>11. /\ h \in Seq(Nat) /\ Len(h) = 2 /\ h[1] = Magic.target
         /\ m \in Seq(Nat) /\ Len(m) = 2 /\ m[1] = c /\ m[2] = w
    <2>1. Magic.target \in Nat /\ FormatVersion \in Nat
      BY DEF Magic, FormatVersion
    <2>. QED  BY <1>9, <1>10, <2>1
  <1>12. PICK p2 : p2 = h \o sc
    OBVIOUS
  <1>13. /\ p2 \in Seq(Nat) /\ Len(p2) = 2 + SceneCells
         /\ Placed(p2, 0, h) /\ Placed(p2, 2, sc)
    <2>1. p2 \in Seq(Nat) /\ Len(p2) = Len(h) + Len(sc) /\ Placed(p2, Len(h), sc)
      BY <1>11, <1>12, AppendPlaced
    <2>2. Placed(p2, 0, h)
      BY <1>11, <1>12, WholePlaced, StaysPlaced
    <2>. QED  BY <1>7, <1>11, <2>1, <2>2
  <1>14. PICK p3 : p3 = p2 \o ta
    OBVIOUS
  <1>15. /\ p3 \in Seq(Nat) /\ Len(p3) = 2 + SceneCells + TaskCells
         /\ Placed(p3, 0, h) /\ Placed(p3, 2, sc) /\ Placed(p3, 2 + SceneCells, ta)
    <2>1. p3 \in Seq(Nat) /\ Len(p3) = Len(p2) + Len(ta) /\ Placed(p3, Len(p2), ta)
      BY <1>13, <1>14, AppendPlaced
    <2>2. Placed(p3, 0, h) /\ Placed(p3, 2, sc)
      BY <1>11, <1>13, <1>14, StaysPlaced
    <2>. QED  BY <1>8, <1>13, <2>1, <2>2
  <1>16. PICK p4 : p4 = p3 \o m
    OBVIOUS
  <1>17. /\ p4 \in Seq(Nat) /\ Len(p4) = HeaderCells
         /\ Placed(p4, 0, h) /\ Placed(p4, 2, sc) /\ Placed(p4, 2 + SceneCells, ta)
         /\ Placed(p4, 2 + SceneCells + TaskCells, m)
    <2>1. p4 \in Seq(Nat) /\ Len(p4) = Len(p3) + Len(m) /\ Placed(p4, Len(p3), m)
      BY <1>11, <1>15, <1>16, AppendPlaced
    <2>2. Placed(p4, 0, h) /\ Placed(p4, 2, sc)
      BY <1>11, <1>15, <1>16, StaysPlaced
    <2>3. Placed(p4, 2 + SceneCells, ta)
      <3>1. 2 + SceneCells \in Nat
        BY <1>1
      <3>. QED  BY <1>11, <1>15, <1>16, <3>1, StaysPlaced
    <2>4. Len(p4) = HeaderCells
      BY <1>1, <1>11, <1>15, <2>1 DEF HeaderCells
    <2>. QED  BY <1>15, <2>1, <2>2, <2>3, <2>4
  <1>18. PICK p5 : p5 = p4 \o fl
    OBVIOUS
  <1>19. /\ p5 \in Seq(Nat) /\ Len(p5) = HeaderCells + 2 * (c * w)
         /\ Placed(p5, 0, h) /\ Placed(p5, 2, sc) /\ Placed(p5, 2 + SceneCells, ta)
         /\ Placed(p5, 2 + SceneCells + TaskCells, m) /\ Placed(p5, HeaderCells, fl)
    <2>1. p5 \in Seq(Nat) /\ Len(p5) = Len(p4) + Len(fl) /\ Placed(p5, Len(p4), fl)
      BY <1>6, <1>17, <1>18, AppendPlaced
    <2>2. Placed(p5, 0, h) /\ Placed(p5, 2, sc)
      BY <1>6, <1>11, <1>17, <1>18, StaysPlaced
    <2>3. Placed(p5, 2 + SceneCells, ta)
      <3>1. 2 + SceneCells \in Nat
        BY <1>1
      <3>. QED  BY <1>6, <1>17, <1>18, <3>1, StaysPlaced
    <2>4. Placed(p5, 2 + SceneCells + TaskCells, m)
      <3>1. 2 + SceneCells + TaskCells \in Nat
        BY <1>1
      <3>. QED  BY <1>6, <1>11, <1>17, <1>18, <3>1, StaysPlaced
    <2>5. Len(p5) = HeaderCells + 2 * (c * w)
      <3>1. PICK n : n = 2 * (c * w)
        OBVIOUS
      <3>. QED  BY <1>6, <1>17, <2>1, <3>1
    <2>. QED  BY <1>17, <2>1, <2>2, <2>3, <2>4, <2>5
  <1>20. p5[1] = Magic.target
    BY <1>11, <1>19 DEF Placed
  <1>21. p5[HeaderCells - 1] = c /\ p5[HeaderCells] = w
    <2>1. PICK a \in Nat : a = 2 + SceneCells + TaskCells
      BY <1>1
    <2>2. p5[a + 1] = m[1] /\ p5[a + 2] = m[2]
      <3>1. Placed(p5, a, m)
        BY <1>19, <2>1
      <3>2. 1 \in 1 .. Len(m) /\ 2 \in 1 .. Len(m)
        BY <1>11
      <3>. QED  BY <3>1, <3>2 DEF Placed
    <2>3. a + 1 = HeaderCells - 1 /\ a + 2 = HeaderCells
      BY <1>1, <2>1 DEF HeaderCells
    <2>. QED  BY <1>11, <2>2, <2>3
  <1>22. ASSUME NEW k \in 1 .. c * w
         PROVE  p5[HeaderCells + 2 * k] = v[k]
    <2>1. PICK n \in Nat : n = c * w
      OBVIOUS
    <2>2. Len(fl) = 2 * n /\ k \in 1 .. n
      BY <1>6, <2>1
    <2>3. 2 * k \in 1 .. Len(fl)
      BY <2>2
    <2>4. p5[HeaderCells + 2 * k] = fl[2 * k]
      BY <1>19, <2>3 DEF Placed
    <2>. QED  BY <1>6, <2>4
  <1>23. TargetFile(t) = p5
    <2>1. IF t.segments = <<>> THEN w = 0 ELSE w = Len(t.segments[1])
      BY <1>2 DEF Width
    <2>. QED
      BY <1>2, <1>3, <1>5, <1>7, <1>8, <1>9, <1>10, <1>12, <1>14, <1>16, <1>18, <2>1 DEF TargetFile
  <1>. QED  BY <1>2, <1>3, <1>7, <1>8, <1>19, <1>20, <1>21, <1>22, <1>23 DEF TargetParts

(* Whatever happened to a file, its cells are those that were written up   *)
(* to where one of the two ends.                                           *)
Spoilt(cells, written) ==
    /\ cells \in Seq(Nat) /\ Len(cells) # Len(written)
    /\ \A k \in 1 .. Len(cells) : k <= Len(written) => cells[k] = written[k]

LEMMA TargetComesBack ==
    ASSUME NEW t \in Targets, TargetWritable(t), NEW cells, TargetParts(t, cells)
    PROVE  ReadTarget(cells) = t
  <1>1. /\ SceneCells \in Nat /\ TaskCells \in Nat /\ t.scene \in Names /\ t.task \in Names
        /\ Len(t.scene) <= SceneCells /\ Len(t.task) <= TaskCells
    BY HeadCells DEF Targets, TargetWritable
  <1>2. PICK c, w \in Nat : c = Len(t.segments) /\ w = Width(t)
    BY TargetSegments
  <1>3. PICK v \in Seq(Nat) : v = FlattenSeq(t.segments)
    BY TargetSegments
  <1>4. PICK n \in Nat : n = c * w
    OBVIOUS
  <1>5. Len(v) = n /\ DOMAIN v = 1 .. n /\ v = [k \in 1 .. n |-> v[k]]
    <2>1. Len(v) = n
      BY <1>2, <1>3, <1>4, TargetSegments DEF Even
    <2>. QED  BY <2>1, LenProperties
  <1>6. /\ cells \in Seq(Nat) /\ Len(cells) = HeaderCells + 2 * n
        /\ cells[1] = Magic.target /\ cells[HeaderCells - 1] = c /\ cells[HeaderCells] = w
        /\ \A k \in 1 .. n : cells[HeaderCells + 2 * k] = v[k]
    BY <1>2, <1>3, <1>4 DEF TargetParts
  <1>7. ReadFloats(cells, HeaderCells, n) = v
    BY <1>5, <1>6 DEF ReadFloats
  <1>8. Name(Cells(cells, 2, SceneCells)) = t.scene
    <2>1. PICK f \in Seq(Nat) : f = Fixed(t.scene, SceneCells) /\ Len(f) = SceneCells /\ Name(f) = t.scene
      BY <1>1, NameOfFixed
    <2>2. Placed(cells, 2, f)
      BY <2>1 DEF TargetParts
    <2>3. Cells(cells, 2, Len(f)) = f
      BY <1>6, <2>2, CellsOfPlaced
    <2>. QED  BY <2>1, <2>3
  <1>9. Name(Cells(cells, 2 + SceneCells, TaskCells)) = t.task
    <2>1. PICK f \in Seq(Nat) : f = Fixed(t.task, TaskCells) /\ Len(f) = TaskCells /\ Name(f) = t.task
      BY <1>1, NameOfFixed
    <2>2. Placed(cells, 2 + SceneCells, f) /\ 2 + SceneCells \in Nat
      BY <1>1, <2>1 DEF TargetParts
    <2>3. Cells(cells, 2 + SceneCells, Len(f)) = f
      BY <1>6, <2>2, CellsOfPlaced
    <2>. QED  BY <2>1, <2>3
  <1>10. AllFinite(v)
    BY <1>3 DEF TargetWritable
  <1>11. ASSUME NEW s \in 1 .. c
         PROVE  Cells(v, (s - 1) * w, w) = t.segments[s]
    <2>1. PICK a \in Nat : a = (s - 1) * w
      OBVIOUS
    <2>2. PICK d \in Nat : d = (c - s) * w
      OBVIOUS
    <2>3. a + w + d = n
      BY <1>4, <2>1, <2>2
    <2>4. PICK part \in Seq(Nat) : part = t.segments[s] /\ Len(part) = w
      BY <1>2, TargetSegments
    <2>5. \A k \in 1 .. w : v[a + k] = part[k]
      <3>1. \A i \in 1 .. c : \A k \in 1 .. w : v[(i - 1) * w + k] = t.segments[i][k]
        BY <1>2, <1>3, TargetSegments DEF Even
      <3>2. \A k \in 1 .. w : v[(s - 1) * w + k] = t.segments[s][k]
        BY <3>1, Zenon
      <3>. QED  BY <2>1, <2>4, <3>2
    <2>6. Len(v) = n /\ a + w <= n
      BY <1>5, <2>3
    <2>8. Placed(v, a, part)
      BY <2>4, <2>5, <2>6 DEF Placed
    <2>7. Cells(v, a, Len(part)) = part
      BY <2>8, CellsOfPlaced
    <2>. QED  BY <2>1, <2>4, <2>7
  <1>12. [s \in 1 .. c |-> Cells(v, (s - 1) * w, w)] = t.segments
    <2>1. PICK ss : ss = t.segments
      OBVIOUS
    <2>2. ss = [s \in 1 .. c |-> ss[s]]
      BY <1>2, <2>1, TargetSegments, LenProperties
    <2>. QED  BY <1>11, <2>1, <2>2
  <1>13. t = [kind |-> "target", scene |-> t.scene, task |-> t.task, segments |-> t.segments]
    BY DEF Targets
  <1>14. Has(cells, 0, HeaderCells) /\ Has(cells, HeaderCells, 2 * n) /\ NoTrailing(cells, HeaderCells + 2 * n)
    BY <1>6, HeadCells DEF Has, NoTrailing
  <1>15. 2 * c * w = 2 * n
    BY <1>4
  <1>. QED
    BY <1>4, <1>6, <1>7, <1>8, <1>9, <1>10, <1>12, <1>13, <1>14, <1>15 DEF ReadTarget, HeaderCells

LEMMA SpoiltTarget ==
    ASSUME NEW t \in Targets, TargetWritable(t), NEW written, TargetParts(t, written),
           NEW cells, Spoilt(cells, written)
    PROVE  ReadTarget(cells) = Refused
  <1>1. SUFFICES ASSUME Has(cells, 0, HeaderCells)
                 PROVE  ~ NoTrailing(cells, HeaderCells + 2 * cells[HeaderCells - 1] * cells[HeaderCells])
    BY DEF ReadTarget, HeaderCells
  <1>2. PICK c, w \in Nat : c = Len(t.segments) /\ w = Width(t)
    BY TargetSegments
  <1>3. PICK n \in Nat : n = c * w
    OBVIOUS
  <1>4. /\ written \in Seq(Nat) /\ Len(written) = HeaderCells + 2 * n
        /\ written[HeaderCells - 1] = c /\ written[HeaderCells] = w
    BY <1>2, <1>3 DEF TargetParts
  <1>5. HeaderCells \in Nat /\ HeaderCells > 4
    BY HeadCells DEF HeaderCells
  <1>6. Len(cells) \in Nat /\ HeaderCells <= Len(cells)
    BY <1>1, <1>5, LenProperties DEF Has, Spoilt
  <1>7. cells[HeaderCells - 1] = c /\ cells[HeaderCells] = w
    BY <1>4, <1>5, <1>6, SMTT(20) DEF Spoilt
  <1>8. 2 * c * w = 2 * n
    BY <1>3
  <1>. QED  BY <1>4, <1>7, <1>8 DEF NoTrailing, Spoilt

-------------------------------------------------------------------------------
(* Latent vectors.                                                         *)
Latents == [kind : {"latent"}, scene : Names, values : Seq(Nat)]

LatentParts(l, cells) ==
    /\ cells \in Seq(Nat) /\ Len(cells) = 3 + SceneCells + 2 * Len(l.values)
    /\ cells[1] = Magic.latent /\ cells[3 + SceneCells] = Len(l.values)
    /\ Placed(cells, 2, Fixed(l.scene, SceneCells))
    /\ \A k \in 1 .. Len(l.values) : cells[3 + SceneCells + 2 * k] = l.values[k]

LEMMA LatentLayout ==
    ASSUME NEW l \in Latents, LatentWritable(l)
    PROVE  LatentParts(l, LatentFile(l))
  <1>1. SceneCells \in Nat /\ l.scene \in Names /\ Len(l.scene) <= SceneCells
    BY HeadCells DEF Latents, LatentWritable
  <1>2. PICK v \in Seq(Nat) : v = l.values
    BY DEF Latents
  <1>3. PICK n \in Nat : n = Len(v)
    BY LenProperties
  <1>4. PICK fl : fl = Floats(v)
    OBVIOUS
  <1>5. fl \in Seq(Nat) /\ Len(fl) = 2 * n /\ \A k \in 1 .. n : fl[2 * k] = v[k]
    BY <1>3, <1>4, FloatsLayout DEF FloatsPlaced
  <1>6. PICK sc \in Seq(Nat) : sc = Fixed(l.scene, SceneCells) /\ Len(sc) = SceneCells
    BY <1>1, NameOfFixed
  <1>7. PICK h : h = <<Magic.latent, FormatVersion>>
    OBVIOUS
  <1>8. PICK m : m = <<n>>
    OBVIOUS
  <1>9. /\ h \in Seq(Nat) /\ Len(h) = 2 /\ h[1] = Magic.latent
        /\ m \in Seq(Nat) /\ Len(m) = 1 /\ m[1] = n
    <2>1. Magic.latent \in Nat /\ FormatVersion \in Nat
      BY DEF Magic, FormatVersion
    <2>. QED  BY <1>7, <1>8, <2>1
  <1>10. PICK p2 : p2 = h \o sc
    OBVIOUS
  <1>11. /\ p2 \in Seq(Nat) /\ Len(p2) = 2 + SceneCells
         /\ Placed(p2, 0, h) /\ Placed(p2, 2, sc)
    <2>1. p2 \in Seq(Nat) /\ Len(p2) = Len(h) + Len(sc) /\ Placed(p2, Len(h), sc)
      BY <1>9, <1>10, AppendPlaced
    <2>2. Placed(p2, 0, h)
      BY <1>9, <1>10, WholePlaced, StaysPlaced
    <2>. QED  BY <1>6, <1>9, <2>1, <2>2
  <1>12. PICK p3 : p3 = p2 \o m
    OBVIOUS
  <1>13. /\ p3 \in Seq(Nat) /\ Len(p3) = 3 + SceneCells
         /\ Placed(p3, 0, h) /\ Placed(p3, 2, sc) /\ Placed(p3, 2 + SceneCells, m)
    <2>1. p3 \in Seq(Nat) /\ Len(p3) = Len(p2) + Len(m) /\ Placed(p3, Len(p2), m)
      BY <1>9, <1>11, <1>12, AppendPlaced
    <2>2. Placed(p3, 0, h) /\ Placed(p3, 2, sc)
      BY <1>9, <1>11, <1>12, StaysPlaced
    <2>. QED  BY <1>1, <1>9, <1>11, <2>1, <2>2
  <1>14. PICK p4 : p4 = p3 \o fl
    OBVIOUS
  <1>15. /\ p4 \in Seq(Nat) /\ Len(p4) = 3 + SceneCells + 2 * n
         /\ Placed(p4, 0, h) /\ Placed(p4, 2, sc) /\ Placed(p4, 2 + SceneCells, m)
         /\ Placed(p4, 3 + SceneCells, fl)
    <2>1. p4 \in Seq(Nat) /\ Len(p4) = Len(p3) + Len(fl) /\ Placed(p4, Len(p3), fl)
      BY <1>5, <1>13, <1>14, AppendPlaced
    <2>2. Placed(p4, 0, h) /\ Placed(p4, 2, sc)
      BY <1>5, <1>9, <1>13, <1>14, StaysPlaced
    <2>3. Placed(p4, 2 + SceneCells, m)
      <3>1. 2 + SceneCells \in Nat
        BY <1>1
      <3>. QED  BY <1>5, <1>9, <1>13, <1>14, <3>1, StaysPlaced
    <2>. QED  BY <1>5, <1>13, <2>1, <2>2, <2>3
  <1>16. p4[1] = Magic.latent
    BY <1>9, <1>15 DEF Placed
  <1>17. p4[3 + SceneCells] = n
    <2>1. PICK a \in Nat : a = 2 + SceneCells
      BY <1>1
    <2>2. 1 \in 1 .. Len(m) /\ Placed(p4, a, m)
      BY <1>9, <1>15, <2>1
    <2>3. p4[a + 1] = m[1]
      BY <2>2 DEF Placed
    <2>. QED  BY <1>1, <1>9, <2>1, <2>3
  <1>18. ASSUME NEW k \in 1 .. n
         PROVE  p4[3 + SceneCells + 2 * k] = v[k]
    <2>1. 2 * k \in 1 .. Len(fl)
      BY <1>5
    <2>2. p4[3 + SceneCells + 2 * k] = fl[2 * k]
      BY <1>15, <2>1 DEF Placed
    <2>. QED  BY <1>5, <2>2
  <1>19. LatentFile(l) = p4
    BY <1>2, <1>3, <1>4, <1>6, <1>7, <1>8, <1>10, <1>12, <1>14 DEF LatentFile
  <1>. QED  BY <1>2, <1>3, <1>6, <1>15, <1>16, <1>17, <1>18, <1>19 DEF LatentParts

LEMMA LatentComesBack ==
    ASSUME NEW l \in Latents, LatentWritable(l), NEW cells, LatentParts(l, cells)
    PROVE  ReadLatent(cells) = l
  <1>1. SceneCells \in Nat /\ l.scene \in Names /\ Len(l.scene) <= SceneCells
    BY HeadCells DEF Latents, LatentWritable
  <1>2. PICK v \in Seq(Nat) : v = l.values
    BY DEF Latents
  <1>3. PICK n \in Nat : n = Len(v)
    BY LenProperties
  <1>4. v = [k \in 1 .. n |-> v[k]]
    BY <1>3, LenProperties
  <1>5. /\ cells \in Seq(Nat) /\ Len(cells) = 3 + SceneCells + 2 * n
        /\ cells[1] = Magic.latent /\ cells[3 + SceneCells] = n
        /\ \A k \in 1 .. n : cells[3 + SceneCells + 2 * k] = v[k]
    BY <1>2, <1>3 DEF LatentParts
  <1>6. ReadFloats(cells, 3 + SceneCells, n) = v
    BY <1>4, <1>5 DEF ReadFloats
  <1>7. Name(Cells(cells, 2, SceneCells)) = l.scene
    <2>1. PICK f \in Seq(Nat) : f = Fixed(l.scene, SceneCells) /\ Len(f) = SceneCells /\ Name(f) = l.scene
      BY <1>1, NameOfFixed
    <2>2. Placed(cells, 2, f)
      BY <2>1 DEF LatentParts
    <2>3. Cells(cells, 2, Len(f)) = f
      BY <1>5, <2>2, CellsOfPlaced
    <2>. QED  BY <2>1, <2>3
  <1>8. AllFinite(v)
    BY <1>2 DEF LatentWritable
  <1>9. l = [kind |-> "latent", scene |-> l.scene, values |-> v]
    BY <1>2 DEF Latents
  <1>10. /\ Has(cells, 0, 3 + SceneCells) /\ Has(cells, 3 + SceneCells, 2 * n)
         /\ NoTrailing(cells, 3 + SceneCells + 2 * n)
    BY <1>1, <1>5 DEF Has, NoTrailing
  <1>. QED  BY <1>5, <1>6, <1>7, <1>8, <1>9, <1>10 DEF ReadLatent

LEMMA SpoiltLatent ==
    ASSUME NEW l \in Latents, NEW written, LatentParts(l, written), NEW cells, Spoilt(cells, written)
    PROVE  ReadLatent(cells) = Refused
  <1>1. PICK head \in Nat : head = 3 + SceneCells
    BY HeadCells
  <1>2. SUFFICES ASSUME Has(cells, 0, head)
                 PROVE  ~ NoTrailing(cells, head + 2 * cells[head])
    BY <1>1 DEF ReadLatent
  <1>3. PICK n \in Nat : n = Len(l.values)
    BY LenProperties DEF Latents
  <1>4. written \in Seq(Nat) /\ Len(written) = head + 2 * n /\ written[head] = n
    BY <1>1, <1>3 DEF LatentParts
  <1>5. Len(cells) \in Nat /\ head \in 1 .. Len(cells)
    BY <1>1, <1>2, HeadCells, LenProperties DEF Has, Spoilt
  <1>6. cells[head] = n
    BY <1>4, <1>5 DEF Spoilt
  <1>. QED  BY <1>4, <1>6 DEF NoTrailing, Spoilt

-------------------------------------------------------------------------------
(* The site graph.                                                         *)
SiteGraphs == [kind : {"site_graph"}, nodes : Nat, edges : Seq(Edges), lambda2 : Nat,
               min_degree : Nat, max_degree : Nat, mean_degree : Nat]

EdgeAt(e, cells, at) == cells[at + 1] = e.src /\ cells[at + 2] = e.dst /\ cells[at + 4] = e.weight

GraphParts(g, cells) ==
    LET tail == 4 + 4 * Len(g.edges)
    IN  /\ cells \in Seq(Nat) /\ Len(cells) = tail + 6
        /\ cells[1] = Magic.site_graph /\ cells[3] = g.nodes /\ cells[4] = Len(g.edges)
        /\ \A k \in 1 .. Len(g.edges) : EdgeAt(g.edges[k], cells, 4 * k)
        /\ cells[tail + 2] = g.lambda2 /\ cells[tail + 3] = g.min_degree
        /\ cells[tail + 4] = g.max_degree /\ cells[tail + 6] = g.mean_degree

EdgeCells(e) == <<e.src, e.dst>> \o Float(e.weight)

LEMMA EdgeLayout ==
    ASSUME NEW e \in Edges
    PROVE  EdgeCells(e) \in Seq(Nat) /\ Len(EdgeCells(e)) = 4 /\ EdgeAt(e, EdgeCells(e), 0)
  <1>1. PICK a, b, w \in Nat : a = e.src /\ b = e.dst /\ w = e.weight
    BY DEF Edges
  <1>2. PICK p, q, c : p = <<a, b>> /\ q = <<0, w>> /\ c = p \o q
    OBVIOUS
  <1>3. /\ p \in Seq(Nat) /\ Len(p) = 2 /\ p[1] = a /\ p[2] = b
        /\ q \in Seq(Nat) /\ Len(q) = 2 /\ q[2] = w
    BY <1>2
  <1>4. /\ c \in Seq(Nat) /\ Len(c) = Len(p) + Len(q)
        /\ \A k \in 1 .. Len(p) : c[k] = p[k]
        /\ \A j \in 1 .. Len(q) : c[Len(p) + j] = q[j]
    BY <1>2, <1>3, ConcatMembers
  <1>5. Len(c) = 4 /\ c[1] = a /\ c[2] = b /\ c[4] = w
    BY <1>3, <1>4
  <1>6. EdgeCells(e) = c
    BY <1>1, <1>2 DEF EdgeCells, Float
  <1>7. EdgeAt(e, c, 0)
    BY <1>1, <1>5 DEF EdgeAt
  <1>. QED  BY <1>4, <1>5, <1>6, <1>7

LEMMA EdgesLayout ==
    ASSUME NEW edges \in Seq(Edges), NEW s, s = FlattenSeq([k \in DOMAIN edges |-> EdgeCells(edges[k])])
    PROVE  /\ s \in Seq(Nat) /\ Len(s) = 4 * Len(edges)
           /\ \A k \in 1 .. Len(edges) : EdgeAt(edges[k], s, 4 * (k - 1))
  <1>1. PICK n \in Nat : n = Len(edges)
    BY LenProperties
  <1>2. PICK ss : ss = [k \in 1 .. n |-> EdgeCells(edges[k])]
    OBVIOUS
  <1>3. ASSUME NEW k \in 1 .. n
        PROVE  /\ edges[k] \in Edges /\ ss[k] = EdgeCells(edges[k])
               /\ ss[k] \in Seq(Nat) /\ Len(ss[k]) = 4 /\ EdgeAt(edges[k], ss[k], 0)
    <2>1. edges[k] \in Edges
      BY <1>1, ElementOfSeq
    <2>2. ss[k] = EdgeCells(edges[k])
      BY <1>2
    <2>. QED  BY <2>1, <2>2, EdgeLayout
  <1>4. ss \in Seq(Seq(Nat)) /\ Len(ss) = n
    <2>1. ss \in [1 .. n -> Seq(Nat)]
      BY <1>2, <1>3
    <2>. QED  BY <2>1
  <1>5. s = FlattenSeq(ss)
    BY <1>1, <1>2, LenProperties
  <1>6. s \in Seq(Nat) /\ Even(ss, s, 4)
    BY <1>3, <1>4, <1>5, FlattenEven
  <1>7. Len(s) = 4 * n
    BY <1>4, <1>6 DEF Even
  <1>8. ASSUME NEW k \in 1 .. n
        PROVE  EdgeAt(edges[k], s, 4 * (k - 1))
    <2>1. \A j \in 1 .. 4 : s[(k - 1) * 4 + j] = ss[k][j]
      BY <1>4, <1>6 DEF Even
    <2>2. (k - 1) * 4 = 4 * (k - 1)
      OBVIOUS
    <2>3. PICK at : at = 4 * (k - 1)
      OBVIOUS
    <2>4. s[at + 1] = ss[k][1] /\ s[at + 2] = ss[k][2] /\ s[at + 4] = ss[k][4]
      BY <2>1, <2>2, <2>3
    <2>5. ss[k][1] = edges[k].src /\ ss[k][2] = edges[k].dst /\ ss[k][4] = edges[k].weight
      BY <1>3 DEF EdgeAt
    <2>. QED  BY <2>3, <2>4, <2>5 DEF EdgeAt
  <1>. QED  BY <1>1, <1>6, <1>7, <1>8

LEMMA GraphLayout ==
    ASSUME NEW g \in SiteGraphs
    PROVE  GraphParts(g, GraphFile(g))
  <1>1. PICK edges \in Seq(Edges) : edges = g.edges
    BY DEF SiteGraphs
  <1>2. PICK n \in Nat : n = Len(edges)
    BY LenProperties
  <1>3. PICK no, l2, mi, ma, me \in Nat : /\ no = g.nodes /\ l2 = g.lambda2 /\ mi = g.min_degree
                                        /\ ma = g.max_degree /\ me = g.mean_degree
    BY DEF SiteGraphs
  <1>4. PICK s : s = FlattenSeq([k \in DOMAIN edges |-> EdgeCells(edges[k])])
    OBVIOUS
  <1>5. s \in Seq(Nat) /\ Len(s) = 4 * n /\ \A k \in 1 .. n : EdgeAt(edges[k], s, 4 * (k - 1))
    BY <1>2, <1>4, EdgesLayout
  <1>6. PICK h : h = <<Magic.site_graph, FormatVersion, no, n>>
    OBVIOUS
  <1>7. h \in Seq(Nat) /\ Len(h) = 4 /\ h[1] = Magic.site_graph /\ h[3] = no /\ h[4] = n
    <2>1. Magic.site_graph \in Nat /\ FormatVersion \in Nat
      BY DEF Magic, FormatVersion
    <2>. QED  BY <1>6, <2>1
  <1>8. PICK e1, e2, e3 : e1 = Float(l2) /\ e2 = <<mi, ma>> /\ e3 = Float(me)
    OBVIOUS
  <1>9. /\ e1 \in Seq(Nat) /\ Len(e1) = 2 /\ e1[2] = l2
        /\ e2 \in Seq(Nat) /\ Len(e2) = 2 /\ e2[1] = mi /\ e2[2] = ma
        /\ e3 \in Seq(Nat) /\ Len(e3) = 2 /\ e3[2] = me
    BY <1>8 DEF Float
  <1>10. PICK p2 : p2 = h \o s
    OBVIOUS
  <1>11. p2 \in Seq(Nat) /\ Len(p2) = 4 + 4 * n /\ Placed(p2, 0, h) /\ Placed(p2, 4, s)
    <2>1. p2 \in Seq(Nat) /\ Len(p2) = Len(h) + Len(s) /\ Placed(p2, Len(h), s)
      BY <1>5, <1>7, <1>10, AppendPlaced
    <2>2. Placed(p2, 0, h)
      BY <1>5, <1>7, <1>10, WholePlaced, StaysPlaced
    <2>. QED  BY <1>5, <1>7, <2>1, <2>2
  <1>12. PICK tail \in Nat : tail = 4 + 4 * n
    OBVIOUS
  <1>13. PICK p3 : p3 = p2 \o e1
    OBVIOUS
  <1>14. /\ p3 \in Seq(Nat) /\ Len(p3) = tail + 2
         /\ Placed(p3, 0, h) /\ Placed(p3, 4, s) /\ Placed(p3, tail, e1)
    <2>1. p3 \in Seq(Nat) /\ Len(p3) = Len(p2) + Len(e1) /\ Placed(p3, Len(p2), e1)
      BY <1>9, <1>11, <1>13, AppendPlaced
    <2>2. Placed(p3, 0, h) /\ Placed(p3, 4, s)
      BY <1>5, <1>7, <1>9, <1>11, <1>13, StaysPlaced
    <2>. QED  BY <1>9, <1>11, <1>12, <2>1, <2>2
  <1>15. PICK p4 : p4 = p3 \o e2
    OBVIOUS
  <1>16. /\ p4 \in Seq(Nat) /\ Len(p4) = tail + 4
         /\ Placed(p4, 0, h) /\ Placed(p4, 4, s) /\ Placed(p4, tail, e1) /\ Placed(p4, tail + 2, e2)
    <2>1. p4 \in Seq(Nat) /\ Len(p4) = Len(p3) + Len(e2) /\ Placed(p4, Len(p3), e2)
      BY <1>9, <1>14, <1>15, AppendPlaced
    <2>2. Placed(p4, 0, h) /\ Placed(p4, 4, s) /\ Placed(p4, tail, e1)
      BY <1>5, <1>7, <1>9, <1>14, <1>15, StaysPlaced
    <2>. QED  BY <1>9, <1>14, <2>1, <2>2
  <1>17. PICK p5 : p5 = p4 \o e3
    OBVIOUS
  <1>18. /\ p5 \in Seq(Nat) /\ Len(p5) = tail + 6
         /\ Placed(p5, 0, h) /\ Placed(p5, 4, s) /\ Placed(p5, tail, e1) /\ Placed(p5, tail + 2, e2)
         /\ Placed(p5, tail + 4, e3)
    <2>1. p5 \in Seq(Nat) /\ Len(p5) = Len(p4) + Len(e3) /\ Placed(p5, Len(p4), e3)
      BY <1>9, <1>16, <1>17, AppendPlaced
    <2>2. Placed(p5, 0, h) /\ Placed(p5, 4, s) /\ Placed(p5, tail, e1)
      BY <1>5, <1>7, <1>9, <1>16, <1>17, StaysPlaced
    <2>3. Placed(p5, tail + 2, e2)
      <3>1. tail + 2 \in Nat
        OBVIOUS
      <3>. QED  BY <1>9, <1>16, <1>17, <3>1, StaysPlaced
    <2>. QED  BY <1>9, <1>16, <2>1, <2>2, <2>3
  <1>19. p5[1] = Magic.site_graph /\ p5[3] = no /\ p5[4] = n
    <2>1. 1 \in 1 .. Len(h) /\ 3 \in 1 .. Len(h) /\ 4 \in 1 .. Len(h)
      BY <1>7
    <2>2. p5[0 + 1] = h[1] /\ p5[0 + 3] = h[3] /\ p5[0 + 4] = h[4]
      BY <1>18, <2>1 DEF Placed
    <2>. QED  BY <1>7, <2>2
  <1>20. ASSUME NEW k \in 1 .. n
         PROVE  EdgeAt(edges[k], p5, 4 * k)
    <2>1. PICK at \in Nat : at = 4 * (k - 1)
      OBVIOUS
    <2>2. at + 1 \in 1 .. Len(s) /\ at + 2 \in 1 .. Len(s) /\ at + 4 \in 1 .. Len(s)
      BY <1>5, <2>1
    <2>3. /\ p5[4 + (at + 1)] = s[at + 1] /\ p5[4 + (at + 2)] = s[at + 2]
          /\ p5[4 + (at + 4)] = s[at + 4]
      BY <1>18, <2>2 DEF Placed
    <2>4. 4 + (at + 1) = 4 * k + 1 /\ 4 + (at + 2) = 4 * k + 2 /\ 4 + (at + 4) = 4 * k + 4
      BY <2>1
    <2>5. s[at + 1] = edges[k].src /\ s[at + 2] = edges[k].dst /\ s[at + 4] = edges[k].weight
      BY <1>5, <2>1 DEF EdgeAt
    <2>. QED  BY <2>3, <2>4, <2>5 DEF EdgeAt
  <1>21. p5[tail + 2] = l2
    BY <1>9, <1>18 DEF Placed
  <1>22. p5[tail + 3] = mi /\ p5[tail + 4] = ma
    <2>1. 1 \in 1 .. Len(e2) /\ 2 \in 1 .. Len(e2)
      BY <1>9
    <2>2. p5[tail + 2 + 1] = e2[1] /\ p5[tail + 2 + 2] = e2[2]
      BY <1>18, <2>1 DEF Placed
    <2>. QED  BY <1>9, <2>2
  <1>23. p5[tail + 6] = me
    <2>1. 2 \in 1 .. Len(e3)
      BY <1>9
    <2>2. p5[tail + 4 + 2] = e3[2]
      BY <1>18, <2>1, SMTT(20) DEF Placed
    <2>. QED  BY <1>9, <2>2
  <1>24. GraphFile(g) = p5
    BY <1>1, <1>2, <1>3, <1>4, <1>6, <1>8, <1>10, <1>13, <1>15, <1>17 DEF GraphFile, EdgeCells
  <1>. QED
    BY <1>1, <1>2, <1>3, <1>12, <1>18, <1>19, <1>20, <1>21, <1>22, <1>23, <1>24 DEF GraphParts

LEMMA GraphComesBack ==
    ASSUME NEW g \in SiteGraphs, GraphWritable(g), NEW cells, GraphParts(g, cells)
    PROVE  ReadGraph(cells) = g
  <1>1. PICK edges \in Seq(Edges) : edges = g.edges
    BY DEF SiteGraphs
  <1>2. PICK n \in Nat : n = Len(edges)
    BY LenProperties
  <1>3. PICK tail \in Nat : tail = 4 + 4 * n
    OBVIOUS
  <1>4. /\ cells \in Seq(Nat) /\ Len(cells) = tail + 6
        /\ cells[1] = Magic.site_graph /\ cells[3] = g.nodes /\ cells[4] = n
        /\ \A k \in 1 .. n : EdgeAt(edges[k], cells, 4 * k)
        /\ cells[tail + 2] = g.lambda2 /\ cells[tail + 3] = g.min_degree
        /\ cells[tail + 4] = g.max_degree /\ cells[tail + 6] = g.mean_degree
    BY <1>1, <1>2, <1>3 DEF GraphParts
  <1>. DEFINE edge(k) == [src |-> cells[4 * k + 1], dst |-> cells[4 * k + 2], weight |-> cells[4 * k + 4]]
  <1>5. ASSUME NEW k \in 1 .. n
        PROVE  edge(k) = edges[k]
    <2>1. edges[k] \in Edges
      BY <1>2, ElementOfSeq
    <2>2. edges[k] = [src |-> edges[k].src, dst |-> edges[k].dst, weight |-> edges[k].weight]
      BY <2>1 DEF Edges
    <2>3. EdgeAt(edges[k], cells, 4 * k)
      BY <1>4
    <2>. QED  BY <2>2, <2>3 DEF EdgeAt
  <1>6. [k \in 1 .. n |-> edge(k)] = edges
    <2>1. edges = [k \in 1 .. n |-> edges[k]]
      BY <1>2, LenProperties
    <2>. HIDE DEF edge
    <2>. QED  BY <1>5, <2>1
  <1>7. g = [kind |-> "site_graph", nodes |-> g.nodes, edges |-> edges, lambda2 |-> g.lambda2,
             min_degree |-> g.min_degree, max_degree |-> g.max_degree, mean_degree |-> g.mean_degree]
    BY <1>1 DEF SiteGraphs
  <1>8. [kind |-> "site_graph", nodes |-> cells[3], edges |-> [k \in 1 .. cells[4] |-> edge(k)],
         lambda2 |-> cells[tail + 2], min_degree |-> cells[tail + 3], max_degree |-> cells[tail + 4],
         mean_degree |-> cells[tail + 6]] = g
    <2>. HIDE DEF edge
    <2>. QED  BY <1>4, <1>6, <1>7
  <1>9. Has(cells, 0, 4) /\ Has(cells, 4, 4 * n + 6) /\ NoTrailing(cells, tail + 6)
    BY <1>3, <1>4 DEF Has, NoTrailing
  <1>10. tail = 4 + 4 * cells[4] /\ Has(cells, 4, 4 * cells[4] + 6)
    BY <1>3, <1>4, <1>9
  <1>. QED  BY <1>4, <1>8, <1>9, <1>10 DEF ReadGraph

LEMMA SpoiltGraph ==
    ASSUME NEW g \in SiteGraphs, NEW written, GraphParts(g, written), NEW cells, Spoilt(cells, written)
    PROVE  ReadGraph(cells) = Refused
  <1>1. SUFFICES ASSUME Has(cells, 0, 4)
                 PROVE  ~ NoTrailing(cells, 4 + 4 * cells[4] + 6)
    BY DEF ReadGraph
  <1>2. PICK n \in Nat : n = Len(g.edges)
    BY LenProperties DEF SiteGraphs
  <1>3. written \in Seq(Nat) /\ Len(written) = 4 + 4 * n + 6 /\ written[4] = n
    BY <1>2 DEF GraphParts
  <1>4. Len(cells) \in Nat /\ 4 \in 1 .. Len(cells)
    BY <1>1, LenProperties DEF Has, Spoilt
  <1>5. cells[4] = n
    BY <1>3, <1>4 DEF Spoilt
  <1>. QED  BY <1>3, <1>5 DEF NoTrailing, Spoilt

-------------------------------------------------------------------------------
(* What was written comes back, and what was spoilt is refused.            *)
LEMMA WritableComesBack ==
    ASSUME NEW a \in Artifacts, Writable(a)
    PROVE  /\ a.kind \in Kinds
           /\ Serialized(a) \in Seq(Nat) /\ Len(Serialized(a)) > 0 /\ Serialized(a)[1] = Magic[a.kind]
           /\ Deserialized(a.kind, Serialized(a)) = a
           /\ \A cells : Spoilt(cells, Serialized(a)) => Deserialized(a.kind, cells) = Refused
  <1>1. a \in Targets \/ a \in Latents \/ a \in SiteGraphs
    BY ArtifactsAssumption DEF Targets, Latents, SiteGraphs
  <1>2. CASE a \in Targets
    <2>1. a.kind = "target"
      BY <1>2 DEF Targets
    <2>2. TargetWritable(a) /\ Serialized(a) = TargetFile(a)
      BY <2>1 DEF Writable, Serialized
    <2>3. TargetParts(a, TargetFile(a))
      BY <1>2, <2>2, TargetLayout
    <2>4. TargetFile(a) \in Seq(Nat) /\ Len(TargetFile(a)) > 0 /\ TargetFile(a)[1] = Magic.target
      <3>1. PICK n \in Nat : n = Len(a.segments) * Width(a)
        BY <1>2, <2>2, TargetSegments
      <3>. QED  BY <2>3, <3>1, HeadCells DEF TargetParts, HeaderCells
    <2>5. ReadTarget(TargetFile(a)) = a
      BY <1>2, <2>2, <2>3, TargetComesBack
    <2>6. \A cells : Spoilt(cells, TargetFile(a)) => ReadTarget(cells) = Refused
      BY <1>2, <2>2, <2>3, SpoiltTarget
    <2>7. \A cells : Deserialized("target", cells) = ReadTarget(cells)
      BY DEF Deserialized
    <2>. QED  BY <2>1, <2>2, <2>4, <2>5, <2>6, <2>7 DEF Kinds, Magic
  <1>3. CASE a \in Latents
    <2>1. a.kind = "latent"
      BY <1>3 DEF Latents
    <2>2. LatentWritable(a) /\ Serialized(a) = LatentFile(a)
      BY <2>1 DEF Writable, Serialized
    <2>3. LatentParts(a, LatentFile(a))
      BY <1>3, <2>2, LatentLayout
    <2>4. LatentFile(a) \in Seq(Nat) /\ Len(LatentFile(a)) > 0 /\ LatentFile(a)[1] = Magic.latent
      <3>1. PICK n \in Nat : n = Len(a.values)
        BY <1>3, LenProperties DEF Latents
      <3>2. /\ LatentFile(a) \in Seq(Nat) /\ Len(LatentFile(a)) = 3 + SceneCells + 2 * n
            /\ LatentFile(a)[1] = Magic.latent
        BY <2>3, <3>1 DEF LatentParts
      <3>. QED  BY <3>2, HeadCells
    <2>5. ReadLatent(LatentFile(a)) = a
      BY <1>3, <2>2, <2>3, LatentComesBack
    <2>6. \A cells : Spoilt(cells, LatentFile(a)) => ReadLatent(cells) = Refused
      BY <1>3, <2>3, SpoiltLatent
    <2>7. \A cells : Deserialized("latent", cells) = ReadLatent(cells)
      BY DEF Deserialized
    <2>. QED  BY <2>1, <2>2, <2>4, <2>5, <2>6, <2>7 DEF Kinds, Magic
  <1>4. CASE a \in SiteGraphs
    <2>1. a.kind = "site_graph"
      BY <1>4 DEF SiteGraphs
    <2>2. GraphWritable(a) /\ Serialized(a) = GraphFile(a)
      BY <2>1 DEF Writable, Serialized
    <2>3. GraphParts(a, GraphFile(a))
      BY <1>4, GraphLayout
    <2>4. GraphFile(a) \in Seq(Nat) /\ Len(GraphFile(a)) > 0 /\ GraphFile(a)[1] = Magic.site_graph
      <3>1. PICK n \in Nat : n = Len(a.edges)
        BY <1>4, LenProperties DEF SiteGraphs
      <3>. QED  BY <2>3, <3>1 DEF GraphParts
    <2>5. ReadGraph(GraphFile(a)) = a
      BY <1>4, <2>2, <2>3, GraphComesBack
    <2>6. \A cells : Spoilt(cells, GraphFile(a)) => ReadGraph(cells) = Refused
      BY <1>4, <2>3, SpoiltGraph
    <2>7. \A cells : Deserialized("site_graph", cells) = ReadGraph(cells)
      BY DEF Deserialized
    <2>. QED  BY <2>1, <2>2, <2>4, <2>5, <2>6, <2>7 DEF Kinds, Magic
  <1>. QED  BY <1>1, <1>2, <1>3, <1>4

(* The first cell tells the kinds apart.                                   *)
LEMMA OtherKindRefused ==
    ASSUME NEW kind \in Kinds, NEW other \in Kinds, kind # other,
           NEW cells \in Seq(Nat), Len(cells) > 0 => cells[1] = Magic[kind]
    PROVE  Deserialized(other, cells) = Refused
  <1>1. ASSUME NEW n \in Nat, n > 0, Has(cells, 0, n)
        PROVE  cells[1] = Magic[kind]
    BY <1>1, LenProperties DEF Has
  <1>2. Magic[kind] # Magic[other]
    BY DEF Kinds, Magic
  <1>3. CASE other = "target"
    <2>1. HeaderCells \in Nat /\ HeaderCells > 0
      BY HeadCells DEF HeaderCells
    <2>2. ~ (Has(cells, 0, HeaderCells) /\ cells[1] = Magic.target)
      BY <1>1, <1>2, <1>3, <2>1 DEF Magic
    <2>3. ReadTarget(cells) = Refused
      BY <2>2 DEF ReadTarget, HeaderCells
    <2>. QED  BY <1>3, <2>3 DEF Deserialized
  <1>4. CASE other = "latent"
    <2>1. 3 + SceneCells \in Nat /\ 3 + SceneCells > 0
      BY HeadCells
    <2>2. ~ (Has(cells, 0, 3 + SceneCells) /\ cells[1] = Magic.latent)
      BY <1>1, <1>2, <1>4, <2>1 DEF Magic
    <2>3. ReadLatent(cells) = Refused
      BY <2>2 DEF ReadLatent
    <2>. QED  BY <1>4, <2>3 DEF Deserialized
  <1>5. CASE other = "site_graph"
    <2>1. ~ (Has(cells, 0, 4) /\ cells[1] = Magic.site_graph)
      BY <1>1, <1>2, <1>5 DEF Magic
    <2>2. ReadGraph(cells) = Refused
      BY <2>1 DEF ReadGraph
    <2>. QED  BY <1>5, <2>2 DEF Deserialized
  <1>. QED  BY <1>3, <1>4, <1>5 DEF Kinds

-------------------------------------------------------------------------------
FilesInv ==
    /\ artifact \in Artifacts
    /\ damage \in {"not written", "refused", "none", "cut", "extended"}
    /\ damage \in {"not written", "refused"} => outcome = Unread
    /\ damage \in {"none", "cut", "extended"} => Writable(artifact)
    /\ damage = "none" => file = Serialized(artifact)
    /\ damage \in {"cut", "extended"} => Spoilt(file, Serialized(artifact))
    /\ CutFilesRefused

LEMMA CutSpoils ==
    ASSUME NEW s \in Seq(Nat), NEW n \in 0 .. Len(s) - 1
    PROVE  Spoilt(SubSeq(s, 1, n), s)
  <1>1. PICK l \in Nat : l = Len(s)
    BY LenProperties
  <1>2. PICK o \in Int : o = 1
    OBVIOUS
  <1>3. n \in Nat /\ n < l /\ n \in Int
    BY <1>1
  <1>4. \A i \in o .. n : s[i] \in Nat
    <2>1. \A i \in o .. n : i \in 1 .. Len(s)
      BY <1>1, <1>2, <1>3
    <2>. QED  BY <2>1, ElementOfSeq
  <1>5. PICK c : c = SubSeq(s, o, n)
    OBVIOUS
  <1>6. /\ c \in Seq(Nat) /\ Len(c) = (IF o <= n THEN n - o + 1 ELSE 0)
        /\ \A i \in 1 .. n - o + 1 : c[i] = s[o + i - 1]
    BY <1>3, <1>4, <1>5, SubSeqProperties
  <1>7. Len(c) = n
    BY <1>2, <1>3, <1>6
  <1>8. \A i \in 1 .. n : c[i] = s[i]
    BY <1>2, <1>3, <1>6
  <1>. QED  BY <1>1, <1>2, <1>3, <1>5, <1>6, <1>7, <1>8 DEF Spoilt

LEMMA ExtensionSpoils ==
    ASSUME NEW s \in Seq(Nat), NEW n \in 1 .. Len(s)
    PROVE  Spoilt(s \o SubSeq(s, Len(s) - n + 1, Len(s)), s)
  <1>1. PICK l \in Nat : l = Len(s)
    BY LenProperties
  <1>2. PICK m, o \in Int : m = l - n + 1 /\ o = l
    OBVIOUS
  <1>3. \A i \in m .. o : s[i] \in Nat
    <2>1. \A i \in m .. o : i \in 1 .. Len(s)
      BY <1>1, <1>2
    <2>. QED  BY <2>1, ElementOfSeq
  <1>4. PICK c : c = SubSeq(s, m, o)
    OBVIOUS
  <1>5. c \in Seq(Nat) /\ Len(c) = (IF m <= o THEN o - m + 1 ELSE 0)
    BY <1>3, <1>4, SubSeqProperties
  <1>6. Len(c) = n
    BY <1>1, <1>2, <1>5
  <1>7. PICK r : r = s \o c
    OBVIOUS
  <1>8. /\ r \in Seq(Nat) /\ Len(r) = Len(s) + Len(c)
        /\ \A k \in 1 .. Len(s) : r[k] = s[k]
    <2>1. c \in Seq(Nat)
      BY <1>5
    <2>. QED  BY <1>7, <2>1, ConcatMembers
  <1>9. Spoilt(r, s)
    <2>1. Len(r) # Len(s)
      BY <1>1, <1>6, <1>8
    <2>2. \A k \in 1 .. Len(r) : k <= Len(s) => r[k] = s[k]
      <3>1. \A k \in 1 .. Len(r) : k <= l => k \in 1 .. l
        BY <1>1, <1>6, <1>8
      <3>. QED  BY <1>1, <1>8, <3>1
    <2>. QED  BY <1>8, <2>1, <2>2 DEF Spoilt
  <1>. QED  BY <1>1, <1>2, <1>4, <1>7, <1>9

LEMMA ReadKeepsFiles == FilesInv /\ Deserialize => FilesInv'
  <1>. SUFFICES ASSUME FilesInv, Deserialize
                PROVE  FilesInv'
    OBVIOUS
  <1>1. /\ damage \in {"none", "cut", "extended"} /\ outcome = Unread
        /\ UNCHANGED <<artifact, file, damage>>
    BY DEF Deserialize
  <1>2. PICK kind \in Kinds : readAs' = kind /\ outcome' = Deserialized(kind, file)
    BY DEF Deserialize
  <1>3. artifact \in Artifacts /\ Writable(artifact)
    BY <1>1 DEF FilesInv
  <1>4. /\ artifact.kind \in Kinds
        /\ Serialized(artifact) \in Seq(Nat) /\ Len(Serialized(artifact)) > 0
        /\ Serialized(artifact)[1] = Magic[artifact.kind]
        /\ Deserialized(artifact.kind, Serialized(artifact)) = artifact
    BY <1>3, WritableComesBack
  <1>5. damage = "none" \/ Spoilt(file, Serialized(artifact))
    BY <1>1 DEF FilesInv
  <1>6. file \in Seq(Nat) /\ (Len(file) > 0 => file[1] = Magic[artifact.kind])
    <2>1. CASE damage = "none"
      BY <1>4, <2>1 DEF FilesInv
    <2>2. CASE Spoilt(file, Serialized(artifact))
      <3>1. PICK w \in Seq(Nat) : w = Serialized(artifact)
        BY <1>4
      <3>2. file \in Seq(Nat) /\ Len(file) \in Nat /\ Len(w) \in Nat
        BY <2>2, LenProperties DEF Spoilt
      <3>. QED  BY <1>4, <2>2, <3>1, <3>2 DEF Spoilt
    <2>. QED  BY <1>5, <2>1, <2>2
  <1>7. outcome' = IF damage = "none" /\ kind = artifact.kind THEN artifact ELSE Refused
    <2>1. CASE kind # artifact.kind
      BY <1>2, <1>4, <1>6, <2>1, OtherKindRefused
    <2>2. CASE kind = artifact.kind /\ damage = "none"
      <3>1. file = Serialized(artifact)
        BY <2>2 DEF FilesInv
      <3>. QED  BY <1>2, <1>4, <2>2, <3>1
    <2>3. CASE kind = artifact.kind /\ damage # "none"
      <3>1. Spoilt(file, Serialized(artifact))
        BY <1>5, <2>3
      <3>2. Deserialized(artifact.kind, file) = Refused
        BY <1>3, <3>1, WritableComesBack
      <3>. QED  BY <1>2, <2>3, <3>2
    <2>. QED  BY <2>1, <2>2, <2>3
  <1>8. CutFilesRefused'
    BY <1>1, <1>2, <1>7 DEF CutFilesRefused
  <1>9. Writable(artifact)' /\ (Serialized(artifact))' = Serialized(artifact)
    BY <1>1, <1>3 DEF Writable, Serialized
  <1>. QED  BY <1>1, <1>8 DEF FilesInv, Writable, Serialized, Spoilt

LEMMA FilesStep == FilesInv /\ [FilesNext]_fileVars => FilesInv'
  <1>. SUFFICES ASSUME FilesInv, [FilesNext]_fileVars
                PROVE  FilesInv'
    OBVIOUS
  <1>1. CASE Serialize
    <2>1. outcome = Unread /\ outcome' = Unread /\ artifact' = artifact /\ artifact \in Artifacts
      BY <1>1 DEF FilesInv, Serialize
    <2>2. CASE Writable(artifact)
      <3>1. damage' = "none" /\ file' = Serialized(artifact)
        BY <1>1, <2>2 DEF Serialize
      <3>2. Writable(artifact') /\ file' = Serialized(artifact')
        BY <2>1, <2>2, <3>1
      <3>. QED  BY <2>1, <3>1, <3>2 DEF FilesInv, CutFilesRefused
    <2>3. CASE ~ Writable(artifact)
      <3>1. damage' = "refused"
        BY <1>1, <2>3 DEF Serialize
      <3>. QED  BY <2>1, <3>1 DEF FilesInv, CutFilesRefused
    <2>. QED  BY <2>2, <2>3
  <1>2. ASSUME damage = "none", outcome = Unread, UNCHANGED <<artifact, readAs, outcome>>,
               damage' \in {"cut", "extended"}, Spoilt(file', file)
        PROVE  FilesInv'
    <2>1. file = Serialized(artifact) /\ Writable(artifact) /\ artifact \in Artifacts
      BY <1>2 DEF FilesInv
    <2>2. artifact' = artifact /\ outcome' = Unread
      BY <1>2
    <2>3. Spoilt(file', Serialized(artifact')) /\ Writable(artifact')
      BY <1>2, <2>1, <2>2
    <2>. QED  BY <1>2, <2>1, <2>2, <2>3 DEF FilesInv, CutFilesRefused
  <1>3. CASE CutFile
    <2>1. damage = "none" /\ outcome = Unread /\ UNCHANGED <<artifact, readAs, outcome>> /\ damage' = "cut"
      BY <1>3 DEF CutFile
    <2>2. file \in Seq(Nat)
      BY <2>1, WritableComesBack DEF FilesInv
    <2>3. Spoilt(file', file)
      BY <1>3, <2>2, CutSpoils DEF CutFile
    <2>. QED  BY <1>2, <2>1, <2>3
  <1>4. CASE ExtendFile
    <2>1. damage = "none" /\ outcome = Unread /\ UNCHANGED <<artifact, readAs, outcome>> /\ damage' = "extended"
      BY <1>4 DEF ExtendFile
    <2>2. file \in Seq(Nat)
      BY <2>1, WritableComesBack DEF FilesInv
    <2>3. Spoilt(file', file)
      BY <1>4, <2>2, ExtensionSpoils DEF ExtendFile
    <2>. QED  BY <1>2, <2>1, <2>3
  <1>5. CASE Deserialize
    BY <1>5, ReadKeepsFiles
  <1>6. CASE UNCHANGED fileVars
    BY <1>6 DEF fileVars, FilesInv, CutFilesRefused, Spoilt, Writable, Serialized
  <1>. QED  BY <1>1, <1>3, <1>4, <1>5, <1>6 DEF FilesNext

(* For any artifacts: read as what it is, a file as it was written gives   *)
(* back the artifact, and one that was cut short or has something behind   *)
(* its end is refused, as is one read as another kind.                     *)
THEOREM DamageIsNoticed == FilesSpec => []CutFilesRefused
  <1>1. FilesInit => FilesInv
    BY DEF FilesInit, FilesInv, CutFilesRefused
  <1>2. FilesInv /\ [FilesNext]_fileVars => FilesInv'
    BY FilesStep
  <1>3. FilesInv => CutFilesRefused
    BY DEF FilesInv
  <1>. QED  BY <1>1, <1>2, <1>3, PTL DEF FilesSpec

-------------------------------------------------------------------------------
(* A record with the switch between drawn and given counts.                *)
IsConfig(c) == c = [f \in DOMAIN c |-> c[f]] /\ DrawnCounts \in DOMAIN c

HeldInv ==
    held # None =>
        /\ IsConfig(held) /\ Validate(held)
        /\ origin = "arguments" => held[DrawnCounts] = TRUE
        /\ origin = "policy" => held[DrawnCounts] = FALSE

FileInv == configFile # None => IsConfig(configFile)

(* The scenes delivered, with the place where the iterator goes on.        *)
Delivered(n, config, index) ==
    /\ delivered \in Seq([config : {config}, index : Nat]) /\ Len(delivered) = n
    /\ \A k \in 1 .. n : delivered[k] = [config |-> config, index |-> SaturatingAdd(index, k - 1)]

CopiesInv ==
    /\ bridge # None => Validate(bridge)
    /\ iterator # None =>
        /\ iterator = [config |-> iterator.config, next_index |-> iterator.next_index,
                       batch_size |-> iterator.batch_size, remaining |-> iterator.remaining]
        /\ Validate(iterator.config)

(* What is left is what was asked for less what was delivered.             *)
ProgressInv ==
    iterator # None =>
        /\ asked.config = iterator.config /\ asked.index \in Nat
        /\ iterator.batch_size \in Nat
        /\ Delivered(Len(delivered), asked.config, asked.index)
        /\ iterator.next_index = SaturatingAdd(asked.index, Len(delivered))
        /\ asked.total = None => iterator.remaining = None
        /\ asked.total # None =>
              iterator.remaining \in Nat /\ Len(delivered) + iterator.remaining = asked.total

PyInv == HeldInv /\ FileInv /\ CopiesInv /\ ProgressInv

-------------------------------------------------------------------------------
(* What the constructors and the policies make of the switch.              *)
LEMMA BaselineDraws ==
    ASSUME NEW seed
    PROVE  IsConfig(Baseline(seed)) /\ Baseline(seed)[DrawnCounts] = TRUE
  BY DEF IsConfig, Baseline, DrawnCounts

LEMMA OverDraws ==
    ASSUME NEW f, NEW g
    PROVE  /\ DrawnCounts \in DOMAIN f =>
                IsConfig(Over(f, g)) /\ Over(f, g)[DrawnCounts] = f[DrawnCounts]
           /\ DrawnCounts \in DOMAIN g /\ DrawnCounts \notin DOMAIN f =>
                IsConfig(Over(f, g)) /\ Over(f, g)[DrawnCounts] = g[DrawnCounts]
           /\ DrawnCounts \notin DOMAIN f /\ DrawnCounts \notin DOMAIN g =>
                DrawnCounts \notin DOMAIN Over(f, g)
  BY DEF Over, IsConfig

LEMMA SettingsDraw == IsConfig(Settings) /\ Settings[DrawnCounts] = TRUE
  <1>1. DrawnCounts \in DOMAIN Baseline(0) /\ Baseline(0)[DrawnCounts] = TRUE
    BY BaselineDraws DEF IsConfig
  <1>. DEFINE others == [x_nonlinearity |-> "sigmoid", y_nonlinearity |-> "tanh",
                         video_keyframe_border |-> FALSE, image_frame_scatter |-> FALSE,
                         image_arrow_type |-> "next"]
  <1>2. Settings = Over(Baseline(0), others)
    BY DEF Settings
  <1>. HIDE DEF others
  <1>. QED  BY <1>1, <1>2, OverDraws

LEMMA ArgumentsDraw ==
    ASSUME NEW a, DrawnCounts \notin DOMAIN a
    PROVE  IsConfig(FromArguments(a)) /\ FromArguments(a)[DrawnCounts] = TRUE
  <1>1. DrawnCounts \in DOMAIN Settings /\ Settings[DrawnCounts] = TRUE
    BY SettingsDraw DEF IsConfig
  <1>. QED  BY <1>1, OverDraws DEF FromArguments

LEMMA DefaultsDraw ==
    ASSUME NEW a, DrawnCounts \notin DOMAIN a
    PROVE  DrawnCounts \notin DOMAIN Over(Defaults, a)
  <1>1. DrawnCounts \notin DOMAIN Defaults
    BY DEF Defaults, DrawnCounts
  <1>. QED  BY <1>1, OverDraws

LEMMA ExceptIsConfig ==
    ASSUME NEW c, IsConfig(c), NEW f, NEW v
    PROVE  /\ IsConfig([c EXCEPT ![f] = v])
           /\ f # DrawnCounts => [c EXCEPT ![f] = v][DrawnCounts] = c[DrawnCounts]
           /\ f = DrawnCounts => [c EXCEPT ![f] = v][DrawnCounts] = v
  BY DEF IsConfig

LEMMA PolicyGives ==
    ASSUME NEW c, IsConfig(c), NEW p
    PROVE  IsConfig(ApplyPolicy(c, p)) /\ ApplyPolicy(c, p)[DrawnCounts] = FALSE
  <1>. DEFINE d == ApplyShapeCountProfile(c, PresetShapes[p])
  <1>1. IsConfig(d) /\ d[DrawnCounts] = FALSE
    BY DEF ApplyShapeCountProfile, IsConfig, DrawnCounts
  <1>. QED  BY <1>1 DEF ApplyPolicy, IsConfig, DrawnCounts

LEMMA FromPolicyGives ==
    ASSUME NEW p, NEW arguments
    PROVE  IsConfig(PolicyConfig(p, arguments)) /\ PolicyConfig(p, arguments)[DrawnCounts] = FALSE
  <1>. DEFINE policy == FromPolicy(p, arguments.seed, arguments.events_per_shape,
                                   arguments.simultaneous, arguments.validation_scene_count)
  <1>1. PICK base : IsConfig(base) /\ policy = ApplyPolicy(base, p)
    <2>. DEFINE start == Baseline(arguments.seed)
                slots == [start EXCEPT !.n_shapes = 1, !.n_motion_slots = arguments.events_per_shape,
                            !.motion_events_per_shape = <<arguments.events_per_shape>>,
                            !.randomize_motion_events_per_shape = FALSE,
                            !.allow_simultaneous = arguments.simultaneous,
                            !.site_k = 1, !.validation_scene_count = arguments.validation_scene_count]
    <2>1. IsConfig(start)
      BY BaselineDraws
    <2>2. policy = ApplyPolicy(slots, p)
      BY DEF FromPolicy
    <2>. HIDE DEF start
    <2>3. IsConfig(slots)
      BY <2>1 DEF IsConfig
    <2>. QED  BY <2>2, <2>3
  <1>2. IsConfig(policy) /\ policy[DrawnCounts] = FALSE
    BY <1>1, PolicyGives
  <1>3. PolicyConfig(p, arguments) = Over(policy, Settings)
    BY DEF PolicyConfig
  <1>. HIDE DEF policy
  <1>. QED  BY <1>2, <1>3, OverDraws DEF IsConfig

-------------------------------------------------------------------------------
(* The two ways the object is replaced.                                    *)
LEMMA BuildKeeps ==
    ASSUME PyInv, NEW config, NEW by, Build(config, by), IsConfig(config),
           by = "arguments" => config[DrawnCounts] = TRUE,
           by = "policy" => config[DrawnCounts] = FALSE
    PROVE  PyInv'
  <1>1. HeldInv'
    BY DEF Build, PyInv, HeldInv, IsConfig
  <1>2. FileInv' /\ CopiesInv' /\ ProgressInv'
    BY DEF Build, othersThanHeld, PyInv, FileInv, CopiesInv, ProgressInv, Delivered
  <1>. QED  BY <1>1, <1>2 DEF PyInv

LEMMA SetterKeeps ==
    ASSUME PyInv, NEW config, ApplyWithValidation(config), IsConfig(config),
           config[DrawnCounts] = held[DrawnCounts]
    PROVE  PyInv'
  <1>1. HeldInv'
    BY DEF ApplyWithValidation, PyInv, HeldInv, IsConfig
  <1>2. FileInv' /\ CopiesInv' /\ ProgressInv'
    BY DEF ApplyWithValidation, othersThanHeld, PyInv, FileInv, CopiesInv, ProgressInv, Delivered
  <1>. QED  BY <1>1, <1>2 DEF PyInv

(* No setter has the name of the switch.                                   *)
LEMMA SetFieldKeeps ==
    ASSUME PyInv, NEW fields, DrawnCounts \notin fields, SetField(fields)
    PROVE  PyInv'
  <1>0. PICK f \in fields : f # DrawnCounts /\ \E v : ApplyWithValidation([held EXCEPT ![f] = v])
    BY DEF SetField
  <1>1. PICK v : f # DrawnCounts /\ ApplyWithValidation([held EXCEPT ![f] = v])
    BY <1>0
  <1>2. IsConfig(held)
    BY <1>1 DEF ApplyWithValidation, PyInv, HeldInv
  <1>3. PICK config : config = [held EXCEPT ![f] = v]
    OBVIOUS
  <1>4. IsConfig(config) /\ config[DrawnCounts] = held[DrawnCounts]
    BY <1>1, <1>2, <1>3, ExceptIsConfig DEF SetField
  <1>. QED  BY <1>1, <1>3, <1>4, SetterKeeps

(* An iterator starts with nothing delivered, of a valid configuration.    *)
LEMMA NewIteratorKeeps ==
    ASSUME PyInv, NEW config, Validate(config), NewIterator(config)
    PROVE  PyInv'
  <1>1. HeldInv' /\ FileInv'
    BY DEF NewIterator, PyInv, HeldInv, FileInv, IsConfig
  <1>2. PICK index \in IndexArguments, size \in BatchSizes, total \in SampleTotals :
            /\ iterator' = [config |-> config, next_index |-> index, batch_size |-> size,
                            remaining |-> total]
            /\ asked' = [config |-> config, index |-> index, total |-> total]
    BY DEF NewIterator
  <1>3. /\ index \in Nat /\ size \in Nat /\ index <= MaxIndex /\ MaxIndex \in Nat
        /\ total # None => total \in Nat
    BY BindingAssumption
  <1>4. delivered' = <<>> /\ bridge' = bridge
    BY DEF NewIterator
  <1>5. CopiesInv'
    BY <1>2, <1>4 DEF PyInv, CopiesInv
  <1>6. SaturatingAdd(index, 0) = index
    BY <1>3 DEF SaturatingAdd
  <1>7. ProgressInv'
    BY <1>2, <1>3, <1>4, <1>6 DEF ProgressInv, Delivered, SaturatingAdd
  <1>. QED  BY <1>1, <1>5, <1>7 DEF PyInv

(* A batch continues where the last one ended, and counts against the      *)
(* total.                                                                  *)
LEMMA SmallerOfTwo ==
    ASSUME NEW m \in Nat, NEW n \in Nat
    PROVE  Min({m, n}) \in Nat /\ Min({m, n}) <= n
  BY DEF Min

LEMMA SaturatedSum ==
    ASSUME NEW i \in Nat, NEW n \in Nat, NEW k \in Nat
    PROVE  /\ SaturatingAdd(i, n) \in Nat
           /\ SaturatingAdd(SaturatingAdd(i, n), k) = SaturatingAdd(i, n + k)
  BY BindingAssumption DEF SaturatingAdd

LEMMA NextBatchKeeps ==
    ASSUME PyInv, NextBatch
    PROVE  PyInv'
  <1>. DEFINE length == IF iterator.remaining = None THEN iterator.batch_size
                        ELSE Min({iterator.batch_size, iterator.remaining})
  <1>1. /\ iterator # None /\ iterator.batch_size \in Nat /\ asked.index \in Nat
        /\ delivered \in Seq([config : {asked.config}, index : Nat])
    BY DEF NextBatch, PyInv, ProgressInv, Delivered
  <1>2. iterator.remaining # None => iterator.remaining \in Nat
    BY <1>1 DEF PyInv, ProgressInv
  <1>3. PICK size : size = length
    OBVIOUS
  <1>4. size \in Nat /\ (iterator.remaining # None => size <= iterator.remaining)
    BY <1>1, <1>2, <1>3, SmallerOfTwo
  <1>5. /\ delivered' = delivered \o Batch(iterator.config, iterator.next_index, size)
        /\ iterator' = [iterator EXCEPT
                !.next_index = SaturatingAdd(@, size),
                !.remaining = IF @ = None THEN None ELSE @ - size]
        /\ UNCHANGED <<held, origin, configFile, bridge, asked, calls>>
    BY <1>3 DEF NextBatch
  <1>. HIDE DEF length
  <1>6. HeldInv' /\ FileInv'
    BY <1>5 DEF PyInv, HeldInv, FileInv, IsConfig
  <1>7. /\ iterator' = [config |-> iterator.config,
                        next_index |-> SaturatingAdd(iterator.next_index, size),
                        batch_size |-> iterator.batch_size,
                        remaining |-> IF iterator.remaining = None THEN None
                                      ELSE iterator.remaining - size]
        /\ Validate(iterator.config)
    BY <1>1, <1>5 DEF PyInv, CopiesInv
  <1>8. CopiesInv'
    BY <1>5, <1>7 DEF PyInv, CopiesInv
  <1>9. ProgressInv'
    <2>1. PICK n, i, config, batch :
            /\ n = Len(delivered) /\ i = asked.index /\ config = iterator.config
            /\ batch = Batch(iterator.config, iterator.next_index, size)
      OBVIOUS
    <2>2. /\ n \in Nat /\ i \in Nat /\ config = asked.config
          /\ iterator.next_index = SaturatingAdd(i, n)
          /\ \A k \in 1 .. n : delivered[k] = [config |-> config, index |-> SaturatingAdd(i, k - 1)]
      BY <1>1, <2>1 DEF PyInv, ProgressInv, Delivered
    <2>3. /\ batch \in Seq([config : {config}, index : Nat]) /\ Len(batch) = size
          /\ \A k \in 1 .. size : batch[k] =
                [config |-> config, index |-> SaturatingAdd(i, (n + k) - 1)]
      <3>1. ASSUME NEW k \in 1 .. size
            PROVE  /\ SaturatingAdd(SaturatingAdd(i, n), k - 1) = SaturatingAdd(i, (n + k) - 1)
                   /\ SaturatingAdd(i, (n + k) - 1) \in Nat
        <4>1. k - 1 \in Nat /\ n + (k - 1) = (n + k) - 1 /\ n + (k - 1) \in Nat
          BY <1>4, <2>2
        <4>2. /\ SaturatingAdd(SaturatingAdd(i, n), k - 1) = SaturatingAdd(i, n + (k - 1))
              /\ SaturatingAdd(i, n + (k - 1)) \in Nat
          BY <2>2, <4>1, SaturatedSum
        <4>. QED  BY <4>1, <4>2
      <3>2. batch = [k \in 1 .. size |->
                        [config |-> config, index |-> SaturatingAdd(SaturatingAdd(i, n), k - 1)]]
        BY <2>1, <2>2 DEF Batch
      <3>3. batch = [k \in 1 .. size |->
                        [config |-> config, index |-> SaturatingAdd(i, (n + k) - 1)]]
        BY <3>1, <3>2
      <3>4. batch \in Seq([config : {config}, index : Nat])
        BY <1>4, <3>1, <3>3
      <3>5. Len(batch) = size
        BY <1>4, <3>3
      <3>. QED  BY <3>3, <3>4, <3>5
    <2>4. /\ delivered \in Seq([config : {config}, index : Nat]) /\ delivered' = delivered \o batch
      BY <1>1, <1>5, <2>1, <2>2
    <2>5. delivered' \in Seq([config : {config}, index : Nat]) /\ Len(delivered') = n + size
      BY <2>1, <2>3, <2>4, ConcatProperties
    <2>6. \A k \in 1 .. n + size : delivered'[k] =
                [config |-> config, index |-> SaturatingAdd(i, k - 1)]
      <3>. TAKE k \in 1 .. n + size
      <3>1. CASE k \in 1 .. n
        BY <2>1, <2>2, <2>3, <2>4, <3>1
      <3>2. CASE k \notin 1 .. n
        <4>1. k - n \in 1 .. size /\ n + (k - n) = k
          BY <1>4, <2>2, <3>2
        <4>2. delivered'[k] = batch[k - n]
          BY <2>1, <2>3, <2>4, <3>2, ConcatProperties
        <4>. QED  BY <2>3, <4>1, <4>2
      <3>. QED  BY <3>1, <3>2
    <2>7. SaturatingAdd(iterator.next_index, size) = SaturatingAdd(i, n + size)
      BY <1>4, <2>2, SaturatedSum
    <2>8. /\ asked.total = None => iterator.remaining = None
          /\ asked.total # None => iterator.remaining \in Nat /\ n + iterator.remaining = asked.total
      BY <1>1, <2>1 DEF PyInv, ProgressInv
    <2>9. /\ asked.total = None => iterator'.remaining = None
          /\ asked.total # None =>
                iterator'.remaining \in Nat /\ (n + size) + iterator'.remaining = asked.total
      BY <1>4, <1>7, <2>2, <2>8, BindingAssumption
    <2>10. /\ iterator'.config = config /\ iterator'.batch_size \in Nat
           /\ iterator'.next_index = SaturatingAdd(i, n + size)
           /\ asked'.config = config /\ asked'.index = i /\ asked'.total = asked.total
      BY <1>1, <1>5, <1>7, <2>1, <2>2, <2>7
    <2>. QED  BY <2>2, <2>5, <2>6, <2>9, <2>10 DEF ProgressInv, Delivered
  <1>. QED  BY <1>6, <1>8, <1>9 DEF PyInv

-------------------------------------------------------------------------------
LEMMA InitKeeps == PyInit => PyInv
  BY ArgumentsAssumption DEF PyInit, PyInv, HeldInv, FileInv, CopiesInv, ProgressInv, IsConfig

LEMMA StepKeeps == PyInv /\ [PyNext]_pyVars => PyInv'
  <1>. SUFFICES ASSUME PyInv, [PyNext]_pyVars PROVE PyInv'
    OBVIOUS
  <1>1. CASE NewConfig
    <2>1. PICK a \in Arguments : Build(FromArguments(a), "arguments")
      BY <1>1 DEF NewConfig
    <2>2. IsConfig(FromArguments(a)) /\ FromArguments(a)[DrawnCounts] = TRUE
      BY ArgumentsAssumption, ArgumentsDraw
    <2>. QED  BY <2>1, <2>2, BuildKeeps
  <1>2. CASE NewWithDefaults
    <2>1. PICK a \in Arguments : Build(FromArguments(Over(Defaults, a)), "arguments")
      BY <1>2 DEF NewWithDefaults
    <2>2. DrawnCounts \notin DOMAIN Over(Defaults, a)
      BY ArgumentsAssumption, DefaultsDraw
    <2>3. PICK b : b = Over(Defaults, a)
      OBVIOUS
    <2>4. IsConfig(FromArguments(b)) /\ FromArguments(b)[DrawnCounts] = TRUE
      BY <2>2, <2>3, ArgumentsDraw
    <2>. QED  BY <2>1, <2>3, <2>4, BuildKeeps
  <1>3. CASE FromToml
    <2>1. PICK config : config = configFile
      OBVIOUS
    <2>2. Build(config, "file") /\ IsConfig(config)
      BY <1>3, <2>1 DEF FromToml, PyInv, FileInv
    <2>. QED  BY <2>2, BuildKeeps
  <1>4. CASE FromPolicyWithDefaults
    <2>1. PICK p \in Presets : Build(ApplyPolicy(Settings, p), "policy")
      BY <1>4 DEF FromPolicyWithDefaults
    <2>2. IsConfig(ApplyPolicy(Settings, p)) /\ ApplyPolicy(Settings, p)[DrawnCounts] = FALSE
      BY SettingsDraw, PolicyGives
    <2>. QED  BY <2>1, <2>2, BuildKeeps
  <1>5. CASE NewFromPolicy
    <2>1. PICK p \in Presets, a \in PolicyArguments : Build(PolicyConfig(p, a), "policy")
      BY <1>5 DEF NewFromPolicy
    <2>2. IsConfig(PolicyConfig(p, a)) /\ PolicyConfig(p, a)[DrawnCounts] = FALSE
      BY FromPolicyGives
    <2>. QED  BY <2>1, <2>2, BuildKeeps
  <1>6. CASE ApplyPolicyToHeld
    <2>0. PICK p \in Presets : Build(ApplyPolicy(held, p), "policy")
      BY <1>6 DEF ApplyPolicyToHeld
    <2>1. PICK config : config = ApplyPolicy(held, p) /\ Build(config, "policy")
      BY <2>0
    <2>2. IsConfig(held)
      BY <1>6 DEF ApplyPolicyToHeld, PyInv, HeldInv
    <2>3. IsConfig(config) /\ config[DrawnCounts] = FALSE
      BY <2>1, <2>2, PolicyGives
    <2>. QED  BY <2>1, <2>3, BuildKeeps
  <1>7. CASE SetSceneNumbers \/ SetMediaFields \/ SetTokens \/ SetLandscapeAndSite
    <2>1. PICK fields : DrawnCounts \notin fields /\ SetField(fields)
      BY <1>7 DEF SetSceneNumbers, SetMediaFields, SetTokens, SetLandscapeAndSite,
                  DrawnCounts, Tokens
    <2>. QED  BY <2>1, SetFieldKeeps
  <1>8. CASE SetNShapes \/ SetMotionEventsPerShape
    <2>1. IsConfig(held)
      BY <1>8 DEF SetNShapes, SetMotionEventsPerShape, ApplyWithValidation, PyInv, HeldInv
    <2>2. PICK config, n, counts :
            /\ ApplyWithValidation(config)
            /\ config = [held EXCEPT !.n_shapes = n, !.motion_events_per_shape = counts]
      <3>1. CASE SetNShapes
        <4>1. PICK n : ApplyWithValidation([held EXCEPT !.n_shapes = n,
                            !.motion_events_per_shape = Resized(@, n)])
          BY <3>1 DEF SetNShapes
        <4>2. PICK counts : counts = Resized(held.motion_events_per_shape, n)
          OBVIOUS
        <4>. QED  BY <4>1, <4>2
      <3>2. CASE SetMotionEventsPerShape
        <4>1. PICK counts : ApplyWithValidation([held EXCEPT !.motion_events_per_shape = counts,
                                                             !.n_shapes = Len(counts)])
          BY <3>2 DEF SetMotionEventsPerShape
        <4>2. [held EXCEPT !.motion_events_per_shape = counts, !.n_shapes = Len(counts)]
                = [held EXCEPT !.n_shapes = Len(counts), !.motion_events_per_shape = counts]
          OBVIOUS
        <4>. QED  BY <4>1, <4>2
      <3>. QED  BY <1>8, <3>1, <3>2
    <2>3. IsConfig(config) /\ config[DrawnCounts] = held[DrawnCounts]
      BY <2>1, <2>2 DEF IsConfig, DrawnCounts
    <2>. QED  BY <2>2, <2>3, SetterKeeps
  <1>9. CASE WriteToml
    BY <1>9 DEF WriteToml, PyInv, HeldInv, FileInv, CopiesInv, ProgressInv, Delivered, IsConfig
  <1>10. CASE EditFile
    BY <1>10, ArgumentsAssumption
       DEF EditFile, PyInv, HeldInv, FileInv, CopiesInv, ProgressInv, Delivered, IsConfig
  <1>11. CASE BridgeFromConfig \/ BridgeFromPath
    BY <1>11 DEF BridgeFromConfig, BridgeFromPath,
                 PyInv, HeldInv, FileInv, CopiesInv, ProgressInv, Delivered, IsConfig
  <1>12. CASE IterScenes
    <2>1. PICK config : config = bridge
      OBVIOUS
    <2>2. NewIterator(config) /\ Validate(config)
      BY <1>12, <2>1 DEF IterScenes, PyInv, CopiesInv
    <2>. QED  BY <2>2, NewIteratorKeeps
  <1>13. CASE IterScenesFromPath
    <2>1. PICK config : config = configFile
      OBVIOUS
    <2>2. NewIterator(config) /\ Validate(config)
      BY <1>13, <2>1 DEF IterScenesFromPath
    <2>. QED  BY <2>2, NewIteratorKeeps
  <1>14. CASE NextBatch
    BY <1>14, NextBatchKeeps
  <1>15. CASE UNCHANGED pyVars
    BY <1>15 DEF pyVars, PyInv, HeldInv, FileInv, CopiesInv, ProgressInv, Delivered, IsConfig
  <1>. QED
    BY <1>1, <1>2, <1>3, <1>4, <1>5, <1>6, <1>7, <1>8, <1>9, <1>10, <1>11, <1>12, <1>13,
       <1>14, <1>15 DEF PyNext

LEMMA InvImplies == PyInv => HeldConfigValid /\ BatchesAreContiguous
  <1>1. ASSUME PyInv PROVE HeldConfigValid
    <2>1. held # None =>
            /\ Validate(held)
            /\ origin = "arguments" => held.randomize_motion_events_per_shape = TRUE
            /\ origin = "policy" => held.randomize_motion_events_per_shape = FALSE
      BY <1>1 DEF PyInv, HeldInv, DrawnCounts
    <2>. QED  BY <1>1, <2>1 DEF PyInv, CopiesInv, HeldConfigValid
  <1>2. ASSUME PyInv, iterator # None PROVE BatchesAreContiguous
    <2>1. Delivered(Len(delivered), asked.config, asked.index)
      BY <1>2 DEF PyInv, ProgressInv
    <2>2. DOMAIN delivered = 1 .. Len(delivered)
      BY <2>1 DEF Delivered
    <2>3. \A k \in DOMAIN delivered :
              delivered[k] = [config |-> asked.config, index |-> SaturatingAdd(asked.index, k - 1)]
      BY <2>1, <2>2 DEF Delivered
    <2>. QED  BY <1>2, <2>3 DEF PyInv, ProgressInv, BatchesAreContiguous
  <1>3. iterator = None => BatchesAreContiguous
    BY DEF BatchesAreContiguous
  <1>. QED  BY <1>1, <1>2, <1>3

(* Whatever is called and whatever stands in the file, the object, the     *)
(* bridges and the iterators hold configurations that validate accepts,    *)
(* with drawn counts when built from arguments and given ones when built   *)
(* from a policy (lib.rs:1033).                                            *)
THEOREM HeldAlwaysValid == PySpec => []HeldConfigValid
  BY InitKeeps, StepKeeps, InvImplies, PTL DEF PySpec

(* An iterator returns the scenes from the index asked for on, whatever    *)
(* fails or changes in between, up to the largest index (lib.rs:1326).     *)
THEOREM BatchesAlwaysContiguous == PySpec => []BatchesAreContiguous
  BY InitKeeps, StepKeeps, InvImplies, PTL DEF PySpec

-------------------------------------------------------------------------------
(* The smallest square grid with room for n panels. *)
LEMMA ColsExist == ASSUME NEW n \in Nat \ {0} PROVE LayoutCols(n) \in Nat \ {0}
  <1>. DEFINE T == {c \in 1 .. n : c * c >= n}
  <1>1. T \subseteq Nat /\ n \in T
    <2>1. n * n >= n
      OBVIOUS
    <2>. QED  BY <2>1
  <1>2. PICK m \in T : \A k \in T : m <= k
    BY <1>1, Least
  <1>3. m \in 1 .. n /\ m * m >= n /\ \A d \in 1 .. m - 1 : d * d < n
    <2>1. m \in 1 .. n /\ m * m >= n
      BY <1>2
    <2>2. ASSUME NEW d \in 1 .. m - 1 PROVE d * d < n
      <3>1. d \in 1 .. n /\ ~ (m <= d)
        BY <2>1
      <3>2. d \notin T
        BY <1>2, <3>1
      <3>3. d * d \in Int
        BY <3>1
      <3>. QED  BY <3>1, <3>2, <3>3
    <2>. QED  BY <2>1, <2>2
  <1>4. AtLeast(n, 1) = n
    BY DEF AtLeast
  <1>5. PICK found : found = CHOOSE c \in 1 .. n : c * c >= n /\ \A d \in 1 .. c - 1 : d * d < n
    OBVIOUS
  <1>6. found \in 1 .. n
    BY <1>3, <1>5
  <1>7. LayoutCols(n) = found
    BY <1>4, <1>5 DEF LayoutCols
  <1>. QED  BY <1>6, <1>7

(* One column or row further is a panel and a gutter further. *)
LEMMA Further ==
    ASSUME NEW a \in Nat, NEW b \in Nat, a < b, NEW w \in Nat
    PROVE  a * w \in Nat /\ b * w \in Nat /\ a * w + w <= b * w
  <1>1. PICK d \in Nat : b = a + 1 + d
    <2>1. b - a - 1 \in Nat /\ b = a + 1 + (b - a - 1)
      OBVIOUS
    <2>. QED  BY <2>1
  <1>2. b * w = a * w + w + d * w
    BY <1>1
  <1>3. a * w \in Nat /\ d * w \in Nat /\ b * w \in Nat
    OBVIOUS
  <1>. QED  BY <1>2, <1>3

(* Places of the grid are read line by line. *)
LEMMA GridOrder ==
    ASSUME NEW n \in Nat \ {0}, NEW c \in Nat \ {0}, NEW i \in 1 .. n, NEW j \in 1 .. n, i < j
    PROVE  /\ (i - 1) % c \in 0 .. c - 1 /\ (j - 1) % c \in 0 .. c - 1
           /\ (i - 1) \div c \in Nat /\ (j - 1) \div c \in 0 .. LayoutRows(n, c) - 1
           /\ \/ (i - 1) \div c < (j - 1) \div c
              \/ (i - 1) \div c = (j - 1) \div c /\ (i - 1) % c < (j - 1) % c
  <1>1. PICK p \in Int, r \in 0 .. c - 1 : p = (i - 1) \div c /\ r = (i - 1) % c /\ i - 1 = c * p + r
    BY FloorDivision
  <1>2. PICK q \in Int, s \in 0 .. c - 1 : q = (j - 1) \div c /\ s = (j - 1) % c /\ j - 1 = c * q + s
    BY FloorDivision
  <1>3. PICK t \in Int, u \in 0 .. c - 1 : t = LayoutRows(n, c) /\ n + c - 1 = c * t + u
    <2>1. n + c - 1 \in Int
      OBVIOUS
    <2>. QED  BY <2>1, FloorDivision DEF LayoutRows
  <1>4. p >= 0
    <2>1. p < 0 => c * p + c <= 0
      BY SMT
    <2>. QED  BY <1>1, <2>1
  <1>5. q < t
    <2>1. q >= t => c * q >= c * t
      BY SMT
    <2>2. c * q \in Int /\ c * t \in Int
      OBVIOUS
    <2>. QED  BY <1>2, <1>3, <2>1, <2>2
  <1>6. p < q \/ (p = q /\ r < s)
    <2>1. p > q => c * p >= c * q + c
      BY SMT
    <2>2. c * q \in Int /\ c * p \in Int
      OBVIOUS
    <2>. QED  BY <1>1, <1>2, <2>1, <2>2
  <1>7. q >= 0
    BY <1>4, <1>6
  <1>. QED  BY <1>1, <1>2, <1>3, <1>4, <1>5, <1>6, <1>7

-------------------------------------------------------------------------------
Drawn == drawing \in Drawings

(* The numbers of a picture. *)
LEMMA Sizes ==
    ASSUME Drawn
    PROVE  /\ PanelCount \in Nat \ {0} /\ Cols \in Nat \ {0} /\ Rows \in Nat \ {0}
           /\ Size \in Nat /\ Size >= 24
           /\ Gutter \in Nat /\ Gutter >= 3 /\ 8 * Gutter <= Size /\ Size < 8 * Gutter + 8
           /\ Jitter \subseteq Nat /\ \A d \in Jitter : d = 0 \/ 3 * d + 3 <= Gutter
           /\ Padding \in Nat /\ 10 * Padding <= Size /\ Size < 10 * Padding + 10
           /\ Inner = Size - 2 * Padding
           /\ CanvasWidth = Cols * (Size + Gutter) + Gutter
           /\ CanvasHeight = Rows * (Size + Gutter) + Gutter
  <1>1. PanelCount \in Nat \ {0} /\ drawing.resolution \in Nat
    BY DrawingsAssumption DEF Drawn, PanelCount
  <1>2. Cols \in Nat \ {0}
    BY <1>1, ColsExist DEF Cols
  <1>3. PICK n, c : n = PanelCount /\ c = Cols /\ n \in Nat \ {0} /\ c \in Nat \ {0}
    BY <1>1, <1>2
  <1>4. Rows \in Nat \ {0}
    <2>1. PICK t \in Int, u \in 0 .. c - 1 : t = Rows /\ n + c - 1 = c * t + u
      <3>1. n + c - 1 \in Int
        BY <1>3
      <3>. QED  BY <1>3, <3>1, FloorDivision DEF Rows, LayoutRows
    <2>2. t <= 0 => c * t <= 0
      BY <1>3, SMT
    <2>3. c * t \in Int
      BY <1>3
    <2>. QED  BY <1>3, <2>1, <2>2, <2>3
  <1>5. Size \in Nat /\ Size >= 24
    <2>1. drawing.resolution \div c \in Int
      BY <1>1, <1>3, FloorDivision
    <2>. QED  BY <1>3, <2>1 DEF Size, ThumbnailSize, AtLeast, Cols
  <1>6. PICK s : s = Size /\ s \in Nat /\ s >= 24
    BY <1>5
  <1>7. /\ Gutter \in Nat /\ Gutter >= 3 /\ 8 * Gutter <= Size /\ Size < 8 * Gutter + 8
    BY <1>6 DEF Gutter, PanelGutter, AtLeast
  <1>8. PICK g : g = Gutter /\ g \in Nat
    BY <1>7
  <1>9. Jitter \subseteq Nat /\ \A d \in Jitter : d = 0 \/ 3 * d + 3 <= Gutter
    BY <1>8 DEF Jitter
  <1>10. Padding \in Nat /\ 10 * Padding <= Size /\ Size < 10 * Padding + 10
    BY <1>6 DEF Padding, AtLeast
  <1>11. Inner = Size - 2 * Padding
    BY <1>6, <1>10 DEF Inner, AtLeast
  <1>12. /\ CanvasWidth = Cols * (Size + Gutter) + Gutter
         /\ CanvasHeight = Rows * (Size + Gutter) + Gutter
    <2>1. ASSUME NEW k \in Nat \ {0}
          PROVE  CanvasDimension(k, s, g) = k * (s + g) + g
      BY <1>6, <1>8 DEF CanvasDimension, AtLeast
    <2>. QED  BY <1>2, <1>4, <1>6, <1>8, <2>1 DEF CanvasWidth, CanvasHeight
  <1>. QED  BY <1>1, <1>2, <1>4, <1>5, <1>7, <1>9, <1>10, <1>11, <1>12

(* Panel p is at place pos[p] of the grid, moved by less than a third of   *)
(* the gutter, and some panel is read before an earlier one.               *)
LaidAs(pl, pos) ==
    /\ pos \in [Panels -> Panels] /\ \A i, j \in Panels : pos[i] = pos[j] => i = j
    /\ PanelCount > 1 => \E i, j \in Panels : i < j /\ pos[j] < pos[i]
    /\ \A p \in Panels : \E dx, dy \in Jitter :
           pl[p] = <<GridCorner(pos[p])[1] + dx, GridCorner(pos[p])[2] + dy>>

(* A panel's corner, at place k of the grid. *)
CornerAt(at, k, col, row, dx, dy) ==
    /\ col = (k - 1) % Cols /\ row = (k - 1) \div Cols
    /\ col < Cols /\ row < Rows
    /\ dx \in Jitter /\ dy \in Jitter
    /\ at = <<col * (Size + Gutter) + Gutter + dx, row * (Size + Gutter) + Gutter + dy>>

LEMMA Corner ==
    ASSUME Drawn, NEW pl, NEW pos, LaidAs(pl, pos), NEW p \in Panels
    PROVE  \E col, row, dx, dy \in Nat : CornerAt(pl[p], pos[p], col, row, dx, dy)
  <1>1. PICK n, c, k : n = PanelCount /\ c = Cols /\ k = pos[p] /\ n \in Nat \ {0} /\ c \in Nat \ {0} /\ k \in 1 .. n
    BY Sizes DEF LaidAs, Panels
  <1>2. (k - 1) % c \in 0 .. c - 1 /\ (k - 1) \div c \in 0 .. Rows - 1
    <2>0. Rows \in Nat \ {0} /\ Rows = LayoutRows(n, c)
      BY <1>1, Sizes DEF Rows
    <2>1. CASE k > 1
      <3>1. 1 \in 1 .. n /\ k \in 1 .. n /\ 1 < k
        BY <1>1, <2>1
      <3>2. (k - 1) % c \in 0 .. c - 1 /\ (k - 1) \div c \in 0 .. LayoutRows(n, c) - 1
        BY <1>1, <3>1, GridOrder
      <3>. QED  BY <2>0, <3>2
    <2>2. CASE k = 1
      <3>1. 0 \div c = 0 /\ 0 % c = 0
        <4>1. PICK q \in Int, r \in 0 .. c - 1 : q = 0 \div c /\ r = 0 % c /\ 0 = c * q + r
          BY <1>1, FloorDivision
        <4>2. (q > 0 => c * q >= c) /\ (q < 0 => c * q + c <= 0) /\ c * q \in Int
          BY <1>1, SMT
        <4>. QED  BY <1>1, <4>1, <4>2
      <3>. QED  BY <1>1, <2>0, <2>2, <3>1
    <2>. QED  BY <1>1, <2>1, <2>2
  <1>3. PICK dx, dy \in Jitter : pl[p] = <<GridCorner(pos[p])[1] + dx, GridCorner(pos[p])[2] + dy>>
    BY DEF LaidAs
  <1>4. dx \in Nat /\ dy \in Nat
    BY Sizes
  <1>5. PICK col, row \in Nat : col = (k - 1) % c /\ row = (k - 1) \div c /\ col < c /\ row < Rows
    BY <1>1, <1>2, Sizes
  <1>6. GridCorner(pos[p]) = <<col * (Size + Gutter) + Gutter, row * (Size + Gutter) + Gutter>>
    BY <1>1, <1>5 DEF GridCorner
  <1>7. pl[p] = <<col * (Size + Gutter) + Gutter + dx, row * (Size + Gutter) + Gutter + dy>>
    BY <1>3, <1>6
  <1>8. CornerAt(pl[p], pos[p], col, row, dx, dy)
    BY <1>1, <1>3, <1>5, <1>7 DEF CornerAt
  <1>. QED  BY <1>4, <1>8

(* Two panels: the one read first is above the other or beside it.  The    *)
(* gaps leave room for the scatter.                                        *)
LEMMA Spaced ==
    ASSUME Drawn, NEW pl, NEW pos, LaidAs(pl, pos), NEW p \in Panels, NEW q \in Panels, pos[p] < pos[q]
    PROVE  \E dx, dy, ex, ey \in Jitter :
             \/ pl[q][2] - ey >= pl[p][2] - dy + Size + Gutter
             \/ pl[q][2] - ey = pl[p][2] - dy /\ pl[q][1] - ex >= pl[p][1] - dx + Size + Gutter
  <1>1. PICK n, c, w : /\ n = PanelCount /\ c = Cols /\ w = Size + Gutter
                       /\ n \in Nat \ {0} /\ c \in Nat \ {0} /\ w \in Nat
    BY Sizes
  <1>2. PICK i, j \in 1 .. n : i = pos[p] /\ j = pos[q] /\ i < j
    BY <1>1 DEF LaidAs, Panels
  <1>3. PICK a, r, dx, dy \in Nat : CornerAt(pl[p], i, a, r, dx, dy)
    BY <1>1, <1>2, Corner
  <1>4. PICK b, s, ex, ey \in Nat : CornerAt(pl[q], j, b, s, ex, ey)
    BY <1>1, <1>2, Corner
  <1>10. /\ a = (i - 1) % c /\ r = (i - 1) \div c /\ dx \in Jitter /\ dy \in Jitter
         /\ pl[p][1] = a * w + Gutter + dx /\ pl[p][2] = r * w + Gutter + dy
    BY <1>1, <1>3 DEF CornerAt
  <1>11. /\ b = (j - 1) % c /\ s = (j - 1) \div c /\ ex \in Jitter /\ ey \in Jitter
         /\ pl[q][1] = b * w + Gutter + ex /\ pl[q][2] = s * w + Gutter + ey
    BY <1>1, <1>4 DEF CornerAt
  <1>5. r < s \/ (r = s /\ a < b)
    <2>1. \/ (i - 1) \div c < (j - 1) \div c
          \/ (i - 1) \div c = (j - 1) \div c /\ (i - 1) % c < (j - 1) % c
      <3>1. n \in Nat \ {0} /\ c \in Nat \ {0} /\ i \in 1 .. n /\ j \in 1 .. n /\ i < j
        BY <1>1, <1>2
      <3>. QED  BY <3>1, GridOrder, Zenon
    <2>. QED  BY <1>10, <1>11, <2>1, Zenon
  <1>6. (r < s => r * w + w <= s * w) /\ (a < b => a * w + w <= b * w)
    BY <1>1, <1>3, <1>4, Further
  <1>7. /\ a * w \in Nat /\ b * w \in Nat /\ r * w \in Nat /\ s * w \in Nat /\ Gutter \in Nat /\ Size \in Nat
    BY <1>1, <1>3, <1>4, Sizes
  <1>8. PICK aw, bw, rw, sw, g, size \in Nat :
             /\ aw = a * w /\ bw = b * w /\ rw = r * w /\ sw = s * w /\ g = Gutter /\ size = Size
             /\ w = size + g
    BY <1>1, <1>7
  <1>9. \/ pl[q][2] - ey >= pl[p][2] - dy + size + g
        \/ pl[q][2] - ey = pl[p][2] - dy /\ pl[q][1] - ex >= pl[p][1] - dx + size + g
    <2>1. /\ pl[p][1] = aw + g + dx /\ pl[p][2] = rw + g + dy
          /\ pl[q][1] = bw + g + ex /\ pl[q][2] = sw + g + ey
      BY <1>8, <1>10, <1>11
    <2>2. CASE r < s
      <3>1. rw + size + g <= sw
        BY <1>6, <1>8, <2>2
      <3>. QED  BY <2>1, <3>1
    <2>3. CASE r = s /\ a < b
      <3>1. aw + size + g <= bw /\ rw = sw
        BY <1>6, <1>8, <2>3
      <3>. QED  BY <2>1, <3>1
    <2>. QED  BY <1>5, <2>2, <2>3
  <1>. QED  BY <1>8, <1>9, <1>10, <1>11

(* Corners are pairs of numbers on the canvas. *)
LEMMA OnCanvas ==
    ASSUME Drawn, NEW pl, NEW pos, LaidAs(pl, pos), NEW p \in Panels
    PROVE  /\ pl[p] = <<pl[p][1], pl[p][2]>>
           /\ pl[p][1] \in Nat /\ pl[p][2] \in Nat
           /\ pl[p][1] >= Gutter /\ pl[p][1] + Size + 3 <= CanvasWidth
           /\ pl[p][2] >= Gutter /\ pl[p][2] + Size + 3 <= CanvasHeight
  <1>1. PICK c, m, w, g, size : /\ c = Cols /\ m = Rows /\ g = Gutter /\ size = Size /\ w = size + g
                                /\ c \in Nat /\ m \in Nat /\ w \in Nat /\ g \in Nat /\ size \in Nat /\ g >= 3
                                /\ CanvasWidth = c * w + g /\ CanvasHeight = m * w + g
    BY Sizes
  <1>0. PICK col, row, dx, dy \in Nat : CornerAt(pl[p], pos[p], col, row, dx, dy)
    BY Corner
  <1>2. /\ col < c /\ row < m /\ dx \in Jitter /\ dy \in Jitter
        /\ pl[p] = <<col * w + g + dx, row * w + g + dy>>
    BY <1>0, <1>1 DEF CornerAt
  <1>3. dx + 3 <= g /\ dy + 3 <= g
    <2>1. (dx = 0 \/ 3 * dx + 3 <= g) /\ (dy = 0 \/ 3 * dy + 3 <= g)
      BY <1>1, <1>2, Sizes
    <2>2. ASSUME NEW d \in Nat, d = 0 \/ 3 * d + 3 <= g PROVE d + 3 <= g
      BY <1>1, <2>2
    <2>. QED  BY <1>2, <2>1, <2>2
  <1>4. /\ col * w \in Nat /\ c * w \in Nat /\ col * w + w <= c * w
        /\ row * w \in Nat /\ m * w \in Nat /\ row * w + w <= m * w
    BY <1>1, <1>2, Further
  <1>5. PICK x, y, u, v \in Nat : x = col * w /\ y = row * w /\ u = c * w /\ v = m * w
    BY <1>4
  <1>6. pl[p] = <<pl[p][1], pl[p][2]>>
    BY <1>2
  <1>. QED  BY <1>1, <1>2, <1>3, <1>4, <1>5, <1>6

(* What the scatter leaves of a gap. *)
Gap == IF Size >= 50 THEN 5 ELSE IF Size >= 32 THEN 4 ELSE 3

LEMMA GapLeft ==
    ASSUME Drawn
    PROVE  \A d \in Jitter : d \in Nat /\ d + Gap <= Gutter
  <1>. TAKE d \in Jitter
  <1>1. PICK g, size \in Nat : /\ g = Gutter /\ size = Size
                              /\ g >= 3 /\ 8 * g <= size /\ size < 8 * g + 8 /\ (d = 0 \/ 3 * d + 3 <= g) /\ d \in Nat
    BY Sizes
  <1>2. CASE size >= 50
    BY <1>1, <1>2 DEF Gap
  <1>3. CASE size < 50 /\ size >= 32
    BY <1>1, <1>3 DEF Gap
  <1>4. CASE size < 32
    BY <1>1, <1>4 DEF Gap
  <1>. QED  BY <1>1, <1>2, <1>3, <1>4

(* Between two panels there is a gap in one direction. *)
Clear(a, b) ==
    \/ b[1] >= a[1] + Size + Gap \/ a[1] >= b[1] + Size + Gap
    \/ b[2] >= a[2] + Size + Gap \/ a[2] >= b[2] + Size + Gap

LEMMA PanelsClear ==
    ASSUME Drawn, NEW pl, NEW pos, LaidAs(pl, pos), NEW p \in Panels, NEW q \in Panels, p # q
    PROVE  Clear(pl[p], pl[q])
  <1>1. ASSUME NEW u \in Panels, NEW v \in Panels, pos[u] < pos[v]
        PROVE  pl[v][1] >= pl[u][1] + Size + Gap \/ pl[v][2] >= pl[u][2] + Size + Gap
    <2>1. PICK dx, dy, ex, ey \in Jitter :
             \/ pl[v][2] - ey >= pl[u][2] - dy + Size + Gutter
             \/ pl[v][2] - ey = pl[u][2] - dy /\ pl[v][1] - ex >= pl[u][1] - dx + Size + Gutter
      BY <1>1, Spaced
    <2>2. /\ dx \in Nat /\ dy \in Nat /\ ex \in Nat /\ ey \in Nat
          /\ dx + Gap <= Gutter /\ dy + Gap <= Gutter
      BY GapLeft
    <2>3. /\ pl[u][1] \in Nat /\ pl[u][2] \in Nat /\ pl[v][1] \in Nat /\ pl[v][2] \in Nat
          /\ Size \in Nat /\ Gutter \in Nat /\ Gap \in Nat
      BY OnCanvas, Sizes DEF Gap
    <2>. QED  BY <2>1, <2>2, <2>3
  <1>2. pos[p] \in Nat /\ pos[q] \in Nat /\ pos[p] # pos[q]
    <2>1. PICK n \in Nat : n = PanelCount
      BY Sizes
    <2>2. pos \in [1 .. n -> 1 .. n] /\ p \in 1 .. n /\ q \in 1 .. n
      BY <2>1 DEF LaidAs, Panels
    <2>3. pos[p] # pos[q]
      BY DEF LaidAs
    <2>. QED  BY <2>2, <2>3
  <1>3. CASE pos[p] < pos[q]
    BY <1>1, <1>3 DEF Clear
  <1>4. CASE pos[q] < pos[p]
    BY <1>1, <1>4 DEF Clear
  <1>. QED  BY <1>2, <1>3, <1>4

PanelsFit ==
    /\ \A i \in Panels :
          /\ Inside(PanelBox(i), Canvas) /\ Inside(BorderBox(i), Canvas)
          /\ \A j \in Panels \ {i} :
                /\ Disjoint(PanelBox(i), PanelBox(j))
                /\ Size >= 32 => Disjoint(BorderBox(i), BorderBox(j))
    /\ PanelCount > 1 => \E i, j \in Panels : i < j /\ ReadBefore(PanelBox(j), PanelBox(i))

LEMMA LaidFit ==
    ASSUME Drawn, NEW pos, LaidAs(placements, pos) PROVE PanelsFit
  <1>1. ASSUME NEW i \in Panels PROVE Inside(PanelBox(i), Canvas) /\ Inside(BorderBox(i), Canvas)
    <2>1. PICK x, y, g, size, u, v \in Nat :
             /\ x = placements[i][1] /\ y = placements[i][2] /\ g = Gutter /\ size = Size
             /\ u = CanvasWidth /\ v = CanvasHeight
             /\ x >= g /\ x + size + 3 <= u /\ y >= g /\ y + size + 3 <= v /\ g >= 3
      <3>1. CanvasWidth \in Nat /\ CanvasHeight \in Nat
        <4>1. ASSUME NEW k \in Nat, NEW w \in Nat, NEW g \in Nat PROVE k * w + g \in Nat
          OBVIOUS
        <4>. QED  BY <4>1, Sizes
      <3>. QED  BY <3>1, OnCanvas, Sizes
    <2>. QED  BY <2>1 DEF Inside, PanelBox, BorderBox, Box, Canvas
  <1>2. ASSUME NEW i \in Panels, NEW j \in Panels, i # j
        PROVE  /\ Disjoint(PanelBox(i), PanelBox(j))
               /\ Size >= 32 => Disjoint(BorderBox(i), BorderBox(j))
    <2>1. PICK x, y, u, v, size, gap \in Nat :
             /\ x = placements[i][1] /\ y = placements[i][2] /\ u = placements[j][1] /\ v = placements[j][2]
             /\ size = Size /\ gap = Gap /\ gap >= 3 /\ (size >= 32 => gap >= 4)
             /\ \/ u >= x + size + gap \/ x >= u + size + gap
                \/ v >= y + size + gap \/ y >= v + size + gap
      <3>1. Gap \in Nat /\ Gap >= 3 /\ (Size >= 32 => Gap >= 4)
        BY DEF Gap
      <3>2. Clear(placements[i], placements[j])
        BY <1>2, PanelsClear
      <3>3. /\ placements[i][1] \in Nat /\ placements[i][2] \in Nat
            /\ placements[j][1] \in Nat /\ placements[j][2] \in Nat
        BY OnCanvas
      <3>4. Size \in Nat
        BY Sizes
      <3>. QED  BY <3>1, <3>2, <3>3, <3>4 DEF Clear
    <2>. QED  BY <2>1 DEF Disjoint, PanelBox, BorderBox, Box
  <1>3. ASSUME PanelCount > 1
        PROVE  \E i, j \in Panels : i < j /\ ReadBefore(PanelBox(j), PanelBox(i))
    <2>1. PICK i, j \in Panels : i < j /\ pos[j] < pos[i]
      BY <1>3 DEF LaidAs
    <2>2. PICK dx, dy, ex, ey \in Jitter :
             \/ placements[i][2] - ey >= placements[j][2] - dy + Size + Gutter
             \/ /\ placements[i][2] - ey = placements[j][2] - dy
                /\ placements[i][1] - ex >= placements[j][1] - dx + Size + Gutter
      BY <2>1, Spaced
    <2>3. PICK x, y, u, v, size, gap, g \in Nat :
             /\ x = placements[i][1] /\ y = placements[i][2] /\ u = placements[j][1] /\ v = placements[j][2]
             /\ size = Size /\ gap = Gap /\ gap >= 3 /\ g = Gutter /\ 8 * g <= size
      <3>1. Gap \in Nat /\ Gap >= 3
        BY DEF Gap
      <3>. QED  BY <3>1, OnCanvas, Sizes
    <2>4. /\ dx \in Nat /\ dy \in Nat /\ ex \in Nat /\ ey \in Nat
          /\ dx + gap <= g /\ dy + gap <= g /\ ex + gap <= g /\ ey + gap <= g
      BY <2>3, GapLeft
    <2>5. \/ v + size - 1 < y
          \/ u + size - 1 < x /\ y + size - 1 >= v
      BY <2>2, <2>3, <2>4
    <2>6. ReadBefore(PanelBox(j), PanelBox(i))
      BY <2>3, <2>5 DEF ReadBefore, PanelBox, Box
    <2>. QED  BY <2>1, <2>6
  <1>. QED  BY <1>1, <1>2, <1>3 DEF PanelsFit

(* A marker of a move that ends within the inner part of panel k. *)
MarkerFits(k, box) ==
    /\ Size >= 100 => Inside(box, PanelBox(k))
    /\ Size >= 50 => \A j \in Panels \ {k} : Disjoint(box, PanelBox(j))

WithinInner(k, p) ==
    /\ p[1] \in Int /\ p[1] >= placements[k][1] + Padding /\ p[1] < placements[k][1] + Padding + Inner
    /\ p[2] \in Int /\ p[2] >= placements[k][2] + Padding /\ p[2] < placements[k][2] + Padding + Inner

LEMMA RadiusBound ==
    ASSUME Drawn, NEW shape
    PROVE  /\ MarkerRadius(shape) \in Nat
           /\ Size >= 50 => MarkerRadius(shape) <= Padding + 5
           /\ Size >= 100 => MarkerRadius(shape) <= Padding
  <1>1. PICK size, pad, inner \in Int : /\ size = Size /\ pad = Padding /\ inner = Inner
                                       /\ size >= 24 /\ 10 * pad <= size /\ size < 10 * pad + 10
                                       /\ inner = size - 2 * pad
    BY Sizes
  <1>2. PICK base \in Int : base = AtLeast(inner \div 20, 5) /\ base >= 5 /\ (base = 5 \/ 20 * base <= inner)
    BY <1>1 DEF AtLeast
  <1>3. MarkerRadius(shape) \in 0 .. 2 * base
    <2>1. (base * 3 + 1) \div 2 \in 0 .. 2 * base
      BY <1>2
    <2>2. base * 2 \in 0 .. 2 * base /\ base + 2 \in 0 .. 2 * base /\ base + 1 \in 0 .. 2 * base
      BY <1>2
    <2>. QED  BY <1>1, <1>2, <2>1, <2>2 DEF MarkerRadius
  <1>. QED  BY <1>1, <1>2, <1>3

LEMMA MarkersFit ==
    ASSUME Drawn, NEW pos, LaidAs(placements, pos), NEW k \in Panels, NEW p, WithinInner(k, p), NEW shape
    PROVE  MarkerFits(k, Around(p, MarkerRadius(shape)))
  <1>4. PICK r, size, pad, inner \in Int :
             /\ r = MarkerRadius(shape) /\ size = Size /\ pad = Padding /\ inner = Inner
             /\ inner = size - 2 * pad
             /\ r >= 0 /\ (size >= 50 => r <= pad + 5) /\ (size >= 100 => r <= pad)
    <2>1. Size \in Int /\ Padding \in Int /\ Inner = Size - 2 * Padding /\ Inner \in Int
      BY Sizes
    <2>2. MarkerRadius(shape) \in Int /\ MarkerRadius(shape) >= 0
      BY RadiusBound
    <2>3. (Size >= 50 => MarkerRadius(shape) <= Padding + 5) /\ (Size >= 100 => MarkerRadius(shape) <= Padding)
      BY RadiusBound
    <2>. QED  BY <2>1, <2>2, <2>3
  <1>5. PICK x, y, px, py \in Int :
             /\ x = placements[k][1] /\ y = placements[k][2] /\ px = p[1] /\ py = p[2]
    BY OnCanvas DEF WithinInner
  <1>1. /\ px >= x + pad /\ px < x + pad + inner /\ py >= y + pad /\ py < y + pad + inner
    BY <1>4, <1>5 DEF WithinInner
  <1>2. ASSUME Size >= 100 PROVE Inside(Around(p, MarkerRadius(shape)), PanelBox(k))
    BY <1>1, <1>2, <1>4, <1>5 DEF Inside, Around, PanelBox, Box
  <1>3. ASSUME Size >= 50, NEW j \in Panels \ {k} PROVE Disjoint(Around(p, MarkerRadius(shape)), PanelBox(j))
    <2>1. PICK u, v \in Int : u = placements[j][1] /\ v = placements[j][2]
      BY OnCanvas
    <2>2. \/ u >= x + size + 5 \/ x >= u + size + 5
          \/ v >= y + size + 5 \/ y >= v + size + 5
      <3>1. Gap = 5
        BY <1>3 DEF Gap
      <3>2. Clear(placements[k], placements[j])
        BY PanelsClear
      <3>. QED  BY <1>4, <1>5, <2>1, <3>1, <3>2 DEF Clear
    <2>. QED  BY <1>1, <1>3, <1>4, <1>5, <2>1, <2>2 DEF Disjoint, Around, PanelBox, Box
  <1>. QED  BY <1>2, <1>3 DEF MarkerFits

-------------------------------------------------------------------------------
(* Numbers in increasing order, as many as there are, are all of them. *)
LEMMA IncreasingIsIdentity ==
    ASSUME NEW n \in Nat, NEW f \in [1 .. n -> 1 .. n], \A i, j \in 1 .. n : i < j => f[i] < f[j]
    PROVE  \A i \in 1 .. n : f[i] = i
  <1>. DEFINE T == {i \in 0 .. n : i = 0 \/ f[i] >= i}
              U == {i \in 0 .. n : i = n \/ f[n - i] <= n - i}
  <1>1. ASSUME NEW i \in 1 .. n, i - 1 \in T PROVE i \in T
    <2>1. CASE i = 1
      BY <2>1
    <2>2. CASE i > 1
      <3>1. i - 1 \in 1 .. n /\ f[i - 1] >= i - 1 /\ f[i - 1] < f[i] /\ f[i - 1] \in Nat /\ f[i] \in Nat
        BY <1>1, <2>2
      <3>. QED  BY <3>1
    <2>. QED  BY <2>1, <2>2
  <1>2. 0 .. n \subseteq T
    <2>1. 0 \in T
      OBVIOUS
    <2>. HIDE DEF T
    <2>. QED  BY <1>1, <2>1, UpTo
  <1>3. ASSUME NEW i \in 1 .. n, i - 1 \in U PROVE i \in U
    <2>1. CASE i = n
      BY <2>1
    <2>2. CASE i < n
      <3>1. PICK j \in 1 .. n : j = n - i /\ j + 1 = n - (i - 1) /\ j + 1 \in 1 .. n /\ i - 1 # n
        BY <2>2
      <3>2. f[j + 1] <= j + 1 /\ f[j] < f[j + 1] /\ f[j] \in Nat /\ f[j + 1] \in Nat
        BY <1>3, <3>1
      <3>. QED  BY <3>1, <3>2
    <2>. QED  BY <2>1, <2>2
  <1>4. 0 .. n \subseteq U
    <2>1. 0 \in U
      BY SMT
    <2>. HIDE DEF U
    <2>. QED  BY <1>3, <2>1, UpTo
  <1>. SUFFICES ASSUME NEW i \in 1 .. n PROVE f[i] = i
    OBVIOUS
  <1>5. f[i] >= i
    BY <1>2
  <1>6. f[i] <= i
    <2>1. n - i \in 0 .. n /\ n - i # n /\ n - (n - i) = i
      OBVIOUS
    <2>2. n - i \in U
      BY <1>4, <2>1, Zenon
    <2>. QED  BY <2>1, <2>2
  <1>. QED  BY <1>5, <1>6

(* A shuffled order has every panel once and is not the order of time. *)
LEMMA ShuffleOrders ==
    ASSUME Drawn, NEW order \in Shuffles
    PROVE  /\ order \in [Panels -> Panels] /\ \A i, j \in Panels : order[i] = order[j] => i = j
           /\ \A p \in Panels : \E k \in Panels : order[k] = p
           /\ PanelCount > 1 => order # InTimeOrder
  <1>1. PICK n \in Nat \ {0} : n = PanelCount /\ Panels = 1 .. n
    BY Sizes DEF Panels
  <1>2. PICK drawnOrder \in [Panels -> Panels] :
            /\ \A i, j \in Panels : drawnOrder[i] = drawnOrder[j] => i = j
            /\ order = IF drawnOrder = InTimeOrder /\ n > 1
                       THEN Tail(drawnOrder) \o <<Head(drawnOrder)>> ELSE drawnOrder
    BY <1>1 DEF Shuffles
  <1>3. CASE drawnOrder = InTimeOrder /\ n > 1
    <2>1. PICK o : o = drawnOrder /\ o = [k \in 1 .. n |-> k]
      BY <1>1, <1>3 DEF InTimeOrder
    <2>2. o \in Seq(Nat) /\ Len(o) = n
      BY <2>1
    <2>3. PICK t : t = Tail(o) /\ t \in Seq(Nat) /\ Len(t) = n - 1 /\ \A k \in 1 .. n - 1 : t[k] = o[k + 1]
      <3>1. o # << >>
        BY <1>1, <2>2
      <3>. QED  BY <2>2, <3>1, HeadTailProperties
    <2>4. Head(o) = 1
      BY <1>3, <2>1, <2>2
    <2>5. PICK r : r = t \o <<1>> /\ r \in Seq(Nat) /\ Len(r) = n /\ r[n] = 1 /\ \A k \in 1 .. n - 1 : r[k] = t[k]
      <3>1. PICK e : e = <<1>>
        OBVIOUS
      <3>2. e \in Seq(Nat) /\ Len(e) = 1 /\ e[1] = 1
        BY <3>1
      <3>3. PICK r : r = t \o e
        OBVIOUS
      <3>4. r \in Seq(Nat) /\ Len(r) = Len(t) + Len(e)
            /\ (\A k \in 1 .. Len(t) : r[k] = t[k]) /\ \A k \in 1 .. Len(e) : r[Len(t) + k] = e[k]
        <4>1. /\ t \o e \in Seq(Nat) /\ Len(t \o e) = Len(t) + Len(e)
              /\ \A k \in 1 .. Len(t) : k \in DOMAIN (t \o e) /\ (t \o e)[k] = t[k]
              /\ \A k \in 1 .. Len(e) : Len(t) + k \in DOMAIN (t \o e) /\ (t \o e)[Len(t) + k] = e[k]
          <5>1. t \in Seq(Nat)
            BY <2>3
          <5>2. e \in Seq(Nat)
            BY <3>2
          <5>. QED  BY <5>1, <5>2, ConcatMembers
        <4>. QED  BY <3>3, <4>1, Zenon
      <3>5. Len(r) = n /\ r[n] = 1 /\ \A k \in 1 .. n - 1 : r[k] = t[k]
        <4>1. Len(t) + 1 = n /\ 1 \in 1 .. Len(e)
          BY <2>3, <3>2
        <4>. QED  BY <2>3, <3>2, <3>4, <4>1
      <3>. QED  BY <3>1, <3>3, <3>4, <3>5
    <2>6. order = r
      BY <1>2, <1>3, <2>1, <2>3, <2>4, <2>5
    <2>7. DOMAIN r = 1 .. n /\ \A k \in 1 .. n - 1 : r[k] = k + 1
      <3>1. DOMAIN r = 1 .. n
        BY <2>5
      <3>2. ASSUME NEW k \in 1 .. n - 1 PROVE r[k] = k + 1
        BY <2>1, <2>3, <2>5
      <3>. QED  BY <3>1, <3>2
    <2>8. r \in [1 .. n -> 1 .. n]
      <3>1. \A k \in 1 .. n : r[k] \in 1 .. n
        BY <2>5, <2>7
      <3>2. r = [k \in DOMAIN r |-> r[k]]
        BY <2>5
      <3>. QED  BY <2>7, <3>1, <3>2
    <2>9. \A i, j \in 1 .. n : r[i] = r[j] => i = j
      BY <2>5, <2>7
    <2>10. ASSUME NEW p \in 1 .. n PROVE \E k \in 1 .. n : r[k] = p
      <3>1. CASE p = 1
        BY <2>5, <3>1
      <3>2. CASE p > 1
        <4>1. p - 1 \in 1 .. n - 1 /\ r[p - 1] = p
          BY <2>7, <3>2
        <4>. QED  BY <4>1
      <3>. QED  BY <3>1, <3>2
    <2>11. r[1] # o[1]
      BY <1>3, <2>1, <2>7
    <2>12. order \in [Panels -> Panels] /\ \A i, j \in Panels : order[i] = order[j] => i = j
      BY <1>1, <2>6, <2>8, <2>9
    <2>13. \A p \in Panels : \E k \in Panels : order[k] = p
      BY <1>1, <2>6, <2>10
    <2>14. order # InTimeOrder
      BY <1>3, <2>1, <2>6, <2>11
    <2>. QED  BY <2>12, <2>13, <2>14
  <1>4. CASE ~ (drawnOrder = InTimeOrder /\ n > 1)
    <2>1. order = drawnOrder
      BY <1>2, <1>4
    <2>2. order \in Injection(1 .. n, 1 .. n)
      BY <1>1, <1>2, <2>1 DEF Injection, IsInjective
    <2>3. IsFiniteSet(1 .. n)
      BY FS_Interval
    <2>4. order \in Surjection(1 .. n, 1 .. n)
      BY <2>2, <2>3, FS_Injection
    <2>5. \A p \in 1 .. n : \E k \in 1 .. n : order[k] = p
      BY <2>4 DEF Surjection
    <2>6. \A p \in Panels : \E k \in Panels : order[k] = p
      BY <1>1, <2>5
    <2>7. PanelCount > 1 => order # InTimeOrder
      BY <1>1, <1>4, <2>1
    <2>8. order \in [Panels -> Panels] /\ \A i, j \in Panels : order[i] = order[j] => i = j
      BY <1>2, <2>1
    <2>. QED  BY <2>6, <2>7, <2>8
  <1>. QED  BY <1>3, <1>4

(* So the panels are laid out. *)
LEMMA LayOutLays ==
    ASSUME Drawn, LayOutPanels, comicStep' # "refused"
    PROVE  comicStep' = "frames" /\ \E pos : LaidAs(placements', pos)
  <1>1. PICK order \in Shuffles, dx \in [Panels -> Jitter], dy \in [Panels -> Jitter] :
            placements' = [p \in Panels |->
                LET k == CHOOSE k \in Panels : order[k] = p
                IN  <<GridCorner(k)[1] + dx[k], GridCorner(k)[2] + dy[k]>>]
    BY DEF LayOutPanels
  <1>2. PICK pos : pos = [p \in Panels |-> CHOOSE k \in Panels : order[k] = p]
    OBVIOUS
  <1>3. \A p \in Panels : pos[p] \in Panels /\ order[pos[p]] = p
    <2>1. \A p \in Panels : \E k \in Panels : order[k] = p
      BY ShuffleOrders
    <2>. QED  BY <1>2, <2>1
  <1>4. pos \in [Panels -> Panels] /\ \A i, j \in Panels : pos[i] = pos[j] => i = j
    BY <1>2, <1>3
  <1>5. ASSUME PanelCount > 1 PROVE \E i, j \in Panels : i < j /\ pos[j] < pos[i]
    <2>1. PICK n \in Nat : n = PanelCount /\ Panels = 1 .. n
      BY Sizes DEF Panels
    <2>. SUFFICES ASSUME \A i, j \in Panels : i < j => ~ (pos[j] < pos[i]) PROVE FALSE
      OBVIOUS
    <2>2. \A i, j \in 1 .. n : i < j => pos[i] < pos[j]
      BY <1>4, <2>1
    <2>3. \A i \in 1 .. n : pos[i] = i
      <3>1. pos \in [1 .. n -> 1 .. n]
        BY <1>4, <2>1
      <3>. QED  BY <2>2, <3>1, IncreasingIsIdentity
    <2>4. \A i \in Panels : order[i] = i
      BY <1>3, <2>1, <2>3
    <2>5. order \in [Panels -> Panels]
      BY ShuffleOrders
    <2>6. order = InTimeOrder
      BY <2>4, <2>5 DEF InTimeOrder
    <2>. QED  BY <1>5, <2>6, ShuffleOrders
  <1>6. ASSUME NEW p \in Panels
        PROVE  \E ex, ey \in Jitter :
                 placements'[p] = <<GridCorner(pos[p])[1] + ex, GridCorner(pos[p])[2] + ey>>
    <2>1. placements'[p] = <<GridCorner(pos[p])[1] + dx[pos[p]], GridCorner(pos[p])[2] + dy[pos[p]]>>
      BY <1>1, <1>2
    <2>2. dx[pos[p]] \in Jitter /\ dy[pos[p]] \in Jitter
      BY <1>1, <1>3
    <2>. QED  BY <2>1, <2>2
  <1>7. LaidAs(placements', pos)
    BY <1>4, <1>5, <1>6 DEF LaidAs
  <1>. QED  BY <1>7 DEF LayOutPanels

-------------------------------------------------------------------------------
(* The members at some positions. *)
LEMMA PickedMembers ==
    ASSUME NEW S, NEW s \in Seq(S), NEW positions \in SUBSET DOMAIN s
    PROVE  /\ Picked(s, positions) \in Seq(S)
           /\ \A m \in DOMAIN Picked(s, positions) : \E n \in positions : Picked(s, positions)[m] = s[n]
  <1>1. DOMAIN s = 1 .. Len(s) /\ Len(s) \in Nat
    OBVIOUS
  <1>2. IsFiniteSet(positions) /\ positions \in SUBSET Nat
    <2>1. IsFiniteSet(1 .. Len(s))
      BY <1>1, FS_Interval
    <2>. QED  BY <1>1, <2>1, FS_Subset
  <1>3. PICK count : count = Cardinality(positions)
    OBVIOUS
  <1>4. count \in Nat /\ \A k \in 1 .. count : \E x \in positions : Cardinality({t \in positions : t <= x}) = k
    BY <1>2, <1>3, NumbersRanked
  <1>. DEFINE at == [m \in 1 .. count |->
                        CHOOSE n \in positions : Cardinality({p \in positions : p <= n}) = m]
  <1>5. \A m \in 1 .. count : at[m] \in positions
    BY <1>4
  <1>6. Picked(s, positions) = [m \in 1 .. count |-> s[at[m]]]
    BY <1>3 DEF Picked
  <1>. HIDE DEF at
  <1>7. \A m \in 1 .. count : s[at[m]] \in S
    BY <1>5
  <1>8. [m \in 1 .. count |-> s[at[m]]] \in Seq(S)
    BY <1>4, <1>7
  <1>. QED  BY <1>5, <1>6, <1>8

(* A point of the scene is drawn in the inner part of its panel. *)
LEMMA PointsWithin ==
    ASSUME Drawn, NEW pos, LaidAs(placements, pos), NEW k \in Panels, NEW p \in Int \X Int
    PROVE  WithinInner(k, InPanel(k, p))
  <1>1. PICK inner \in Int : inner = Inner /\ inner >= 1
    <2>1. PICK size, pad \in Int : size = Size /\ pad = Padding /\ size >= 24 /\ 10 * pad <= size
                                  /\ Inner = size - 2 * pad
      BY Sizes
    <2>. QED  BY <2>1
  <1>2. ASSUME NEW c \in Int
        PROVE  Clamped(Nearest(c * (inner - 1), 2 * FullScale), inner - 1) \in 0 .. inner - 1
    <2>1. PICK v \in Int : v = Nearest(c * (inner - 1), 2 * FullScale)
      <3>1. PICK d \in Nat \ {0} : d = 2 * FullScale
        BY DrawingsAssumption
      <3>2. 2 * (c * (inner - 1)) + d \in Int /\ 2 * d \in Nat /\ 2 * d > 0
        BY <1>1, <1>2, <3>1
      <3>3. (2 * (c * (inner - 1)) + d) \div (2 * d) \in Int
        BY <3>2, FloorDivision
      <3>. QED  BY <3>1, <3>3 DEF Nearest
    <2>. QED  BY <1>1, <2>1 DEF Clamped
  <1>3. PICK x, y \in 0 .. inner - 1 : NormalizedToPixel(p, Inner) = <<x, y>>
    <2>1. p[1] + FullScale \in Int /\ FullScale - p[2] \in Int
      BY DrawingsAssumption
    <2>. QED  BY <1>1, <1>2, <2>1 DEF NormalizedToPixel
  <1>4. InPanel(k, p) = <<placements[k][1] + Padding + x, placements[k][2] + Padding + y>>
    BY <1>3 DEF InPanel
  <1>5. placements[k][1] \in Int /\ placements[k][2] \in Int /\ Padding \in Int
    BY OnCanvas, Sizes
  <1>. QED  BY <1>1, <1>3, <1>4, <1>5 DEF WithinInner

LEMMA MovementsKnown ==
    ASSUME Drawn, NEW pos, LaidAs(placements, pos), NEW k \in Panels
    PROVE  /\ \E M : Movements(k) \in Seq(M)
           /\ \A m \in DOMAIN Movements(k) :
                 /\ WithinInner(k, Movements(k)[m].to)
                 /\ \E shape : Movements(k)[m].radius = MarkerRadius(shape)
  <1>1. PICK events : events = drawing.events /\ events \in Seq(Range(events))
                      /\ \A e \in Range(events) : e.start_point \in Int \X Int /\ e.end_point \in Int \X Int
    BY DrawingsAssumption DEF Drawn
  <1>2. PICK own : own = EventsOfPanel(k) /\ own \in Seq(Range(events))
    BY <1>1, PickedMembers DEF EventsOfPanel
  <1>3. PICK n \in Nat : n = Len(own) /\ DOMAIN own = 1 .. n
    BY <1>2
  <1>4. PICK moves : moves = Movements(k)
    OBVIOUS
  <1>5. moves = [m \in 1 .. n |-> [from |-> InPanel(k, own[m].start_point),
                                  to |-> InPanel(k, own[m].end_point),
                                  radius |-> MarkerRadius(own[m].shape)]]
    BY <1>2, <1>3, <1>4 DEF Movements
  <1>6. ASSUME NEW m \in DOMAIN moves
        PROVE  /\ WithinInner(k, moves[m].to)
               /\ \E shape : moves[m].radius = MarkerRadius(shape)
    <2>1. own[m] \in Range(events)
      BY <1>2, <1>3, <1>5
    <2>2. own[m].end_point \in Int \X Int
      BY <1>1, <2>1
    <2>3. WithinInner(k, InPanel(k, own[m].end_point))
      BY <2>2, PointsWithin
    <2>. QED  BY <1>5, <2>3
  <1>7. moves \in Seq(Range(moves))
    BY <1>5 DEF Range
  <1>. QED  BY <1>4, <1>6, <1>7

(* Members of a flattened sequence are members of its parts. *)
ComesFrom(flat, n, ss) ==
    /\ \E S : flat \in Seq(S)
    /\ \A p \in DOMAIN flat : \E i \in 1 .. n : \E k \in DOMAIN ss[i] : flat[p] = ss[i][k]

LEMMA FlattenFrom ==
    ASSUME NEW n \in Nat, NEW T, NEW ss \in Seq(T), Len(ss) = n,
           \A i \in 1 .. n : ss[i] \in Seq(Range(ss[i]))
    PROVE  ComesFrom(FlattenSeq(ss), n, ss)
  <1>1. PICK S : S = UNION {Range(ss[i]) : i \in 1 .. n}
    OBVIOUS
  <1>2. \A i \in 1 .. n : ss[i] \in Seq(S)
    <2>. TAKE i \in 1 .. n
    <2>1. Range(ss[i]) \subseteq S
      BY <1>1
    <2>2. ss[i] \in Seq(Range(ss[i]))
      OBVIOUS
    <2>. QED  BY <2>1, <2>2
  <1>3. ss \in Seq(Seq(S)) /\ Len(ss) = n
    BY <1>2
  <1>4. PICK flat : flat = FlattenSeq(ss)
    OBVIOUS
  <1>5. flat \in Seq(S) /\ \E at : Layout(ss, flat, at)
    BY <1>3, <1>4, FlattenLayout
  <1>6. PICK at : Layout(ss, flat, at)
    BY <1>5
  <1>7. ASSUME NEW p \in DOMAIN flat
        PROVE  \E i \in 1 .. n : \E k \in DOMAIN ss[i] : flat[p] = ss[i][k]
    <2>4. PICK i \in 1 .. n : \E k \in 1 .. Len(ss[i]) : p = at[i - 1] + k
      BY <1>3, <1>6 DEF Layout
    <2>1. PICK k \in 1 .. Len(ss[i]) : p = at[i - 1] + k
      BY <2>4
    <2>2. flat[p] = ss[i][k]
      BY <1>3, <1>6, <2>1 DEF Layout
    <2>3. k \in DOMAIN ss[i]
      BY <1>2, <2>1
    <2>. QED  BY <2>2, <2>3
  <1>. QED  BY <1>4, <1>5, <1>7 DEF ComesFrom

-------------------------------------------------------------------------------
InfosKnown ==
    /\ infos \in Seq(Range(infos)) /\ Len(infos) <= PanelCount
    /\ \A k \in 1 .. Len(infos) : infos[k].anchor \in Anchors(k) /\ infos[k].movements = Movements(k)

(* Grounds come first, and markers fit. *)
StrokesKnown ==
    /\ strokes \in Seq(Range(strokes))
    /\ \E m \in 0 .. Len(strokes) : \A n \in DOMAIN strokes : strokes[n][1] = "frame" <=> n <= m
    /\ \A n \in DOMAIN strokes : strokes[n][1] = "marker" =>
          strokes[n][2] \in Panels /\ MarkerFits(strokes[n][2], strokes[n][3])

ConnectorsDrawn ==
    drawing.arrows # "current" =>
        \A k \in 1 .. PanelCount - 1 : \E n \in DOMAIN strokes : strokes[n] = SlotArrow(k)

ComicInv ==
    /\ comicStep \in {"layout", "refused", "frames", "motion", "encoded"} /\ Drawn
    /\ comicStep \in {"layout", "refused"} => infos = <<>> /\ strokes = <<>>
    /\ comicStep \in {"frames", "motion", "encoded"} =>
          (\E pos : LaidAs(placements, pos)) /\ InfosKnown /\ StrokesKnown
    /\ comicStep = "frames" => \A n \in DOMAIN strokes : strokes[n][1] = "frame"
    /\ comicStep \in {"motion", "encoded"} => Len(infos) = PanelCount /\ ConnectorsDrawn

(* What only depends on the layout stays. *)
LEMMA LayoutStays ==
    ASSUME UNCHANGED <<drawing, placements>>
    PROVE  /\ Drawn' <=> Drawn
           /\ Panels' = Panels /\ PanelCount' = PanelCount
           /\ \A pos : LaidAs(placements, pos)' <=> LaidAs(placements, pos)
           /\ \A k : Anchors(k)' = Anchors(k) /\ Movements(k)' = Movements(k)
           /\ \A k, box : MarkerFits(k, box)' <=> MarkerFits(k, box)
  <1>0. drawing' = drawing /\ placements' = placements
    OBVIOUS
  <1>1. Drawn' <=> Drawn
    BY <1>0 DEF Drawn
  <1>2. /\ PanelCount' = PanelCount /\ Panels' = Panels /\ Cols' = Cols /\ Rows' = Rows
        /\ Size' = Size /\ Gutter' = Gutter
    BY <1>0 DEF PanelCount, Panels, Cols, Rows, Size, Gutter
  <1>3. Padding' = Padding /\ Inner' = Inner /\ Jitter' = Jitter
    BY <1>0, <1>2 DEF Padding, Inner, Jitter
  <1>4. ASSUME NEW k PROVE GridCorner(k)' = GridCorner(k) /\ PanelBox(k)' = PanelBox(k)
    BY <1>0, <1>2 DEF GridCorner, PanelBox
  <1>5. ASSUME NEW pos PROVE LaidAs(placements, pos)' <=> LaidAs(placements, pos)
    BY <1>0, <1>2, <1>3, <1>4 DEF LaidAs
  <1>6. ASSUME NEW k PROVE Anchors(k)' = Anchors(k)
    BY <1>0, <1>2 DEF Anchors
  <1>7. ASSUME NEW k PROVE EventsOfPanel(k)' = EventsOfPanel(k)
    BY <1>0 DEF EventsOfPanel
  <1>8. ASSUME NEW k, NEW p PROVE InPanel(k, p)' = InPanel(k, p)
    BY <1>0, <1>3 DEF InPanel
  <1>9. ASSUME NEW shape PROVE MarkerRadius(shape)' = MarkerRadius(shape)
    BY <1>3 DEF MarkerRadius
  <1>10. ASSUME NEW k PROVE Movements(k)' = Movements(k)
    BY <1>7, <1>8, <1>9 DEF Movements
  <1>11. ASSUME NEW k, NEW box PROVE MarkerFits(k, box)' <=> MarkerFits(k, box)
    BY <1>2, <1>4 DEF MarkerFits
  <1>. QED  BY <1>1, <1>2, <1>5, <1>6, <1>10, <1>11

(* Strokes that are no grounds come after what was painted. *)
LEMMA PaintedOver ==
    ASSUME StrokesKnown, NEW more, more \in Seq(Range(more)), strokes' = strokes \o more,
           UNCHANGED <<drawing, placements>>,
           \A n \in DOMAIN more : more[n][1] # "frame" /\ (more[n][1] = "marker" =>
               more[n][2] \in Panels /\ MarkerFits(more[n][2], more[n][3]))
    PROVE  /\ StrokesKnown'
           /\ \A x : (\E n \in DOMAIN strokes : strokes[n] = x) \/ (\E n \in DOMAIN more : more[n] = x)
                      => \E n \in DOMAIN strokes' : strokes'[n] = x
  <1>1. PICK S : S = Range(strokes) \cup Range(more)
    OBVIOUS
  <1>2. strokes \in Seq(S) /\ more \in Seq(S)
    <2>1. strokes \in Seq(Range(strokes)) /\ Range(strokes) \subseteq S /\ Range(more) \subseteq S
      BY <1>1 DEF StrokesKnown
    <2>. QED  BY <2>1
  <1>3. PICK whole, l, d : whole = strokes' /\ whole = strokes \o more /\ l = Len(strokes) /\ d = Len(more)
    OBVIOUS
  <1>4. /\ whole \in Seq(S) /\ l \in Nat /\ d \in Nat /\ DOMAIN strokes = 1 .. l /\ DOMAIN more = 1 .. d
        /\ Len(whole) = l + d /\ DOMAIN whole = 1 .. l + d
        /\ (\A n \in 1 .. l : n \in DOMAIN whole /\ whole[n] = strokes[n])
        /\ \A n \in 1 .. d : l + n \in DOMAIN whole /\ whole[l + n] = more[n]
    <2>1. /\ strokes \o more \in Seq(S)
          /\ Len(strokes) \in Nat /\ Len(more) \in Nat
          /\ DOMAIN strokes = 1 .. Len(strokes) /\ DOMAIN more = 1 .. Len(more)
          /\ Len(strokes \o more) = Len(strokes) + Len(more)
          /\ DOMAIN (strokes \o more) = 1 .. Len(strokes) + Len(more)
          /\ \A n \in 1 .. Len(strokes) : n \in DOMAIN (strokes \o more) /\ (strokes \o more)[n] = strokes[n]
          /\ \A n \in 1 .. Len(more) : /\ Len(strokes) + n \in DOMAIN (strokes \o more)
                                        /\ (strokes \o more)[Len(strokes) + n] = more[n]
      <3>1. strokes \in Seq(S)
        BY <1>2
      <3>2. more \in Seq(S)
        BY <1>2
      <3>. QED  BY <3>1, <3>2, ConcatMembers
    <2>. QED  BY <1>3, <2>1, Zenon
  <1>5. \A n \in DOMAIN whole : (n \in 1 .. l /\ whole[n] = strokes[n])
                                \/ \E q \in 1 .. d : n = l + q /\ whole[n] = more[q]
    <2>. TAKE n \in DOMAIN whole
    <2>1. CASE n \in 1 .. l
      BY <1>4, <2>1
    <2>2. CASE n \notin 1 .. l
      <3>1. n - l \in 1 .. d /\ n = l + (n - l)
        BY <1>4, <2>2
      <3>2. whole[n] = more[n - l]
        BY <1>4, <3>1
      <3>. QED  BY <3>1, <3>2
    <2>. QED  BY <2>1, <2>2
  <1>6. \E m \in 0 .. Len(whole) : \A n \in DOMAIN whole : whole[n][1] = "frame" <=> n <= m
    <2>1. PICK m \in 0 .. l : \A n \in DOMAIN strokes : strokes[n][1] = "frame" <=> n <= m
      BY <1>3 DEF StrokesKnown
    <2>2. ASSUME NEW n \in DOMAIN whole PROVE whole[n][1] = "frame" <=> n <= m
      <3>1. CASE n \in 1 .. l /\ whole[n] = strokes[n]
        BY <1>4, <2>1, <3>1
      <3>2. CASE \E q \in 1 .. d : n = l + q /\ whole[n] = more[q]
        <4>1. PICK q \in 1 .. d : n = l + q /\ whole[n] = more[q]
          BY <3>2
        <4>2. ~ (n <= m)
          BY <1>4, <4>1
        <4>3. more[q][1] # "frame"
          BY <1>4, <4>1
        <4>. QED  BY <4>1, <4>2, <4>3
      <3>. QED  BY <1>5, <3>1, <3>2
    <2>3. m \in 0 .. Len(whole)
      BY <1>4
    <2>. QED  BY <2>2, <2>3
  <1>7. \A n \in DOMAIN whole : whole[n][1] = "marker" =>
            whole[n][2] \in Panels /\ MarkerFits(whole[n][2], whole[n][3])
    <2>. SUFFICES ASSUME NEW n \in DOMAIN whole, whole[n][1] = "marker"
                  PROVE  whole[n][2] \in Panels /\ MarkerFits(whole[n][2], whole[n][3])
      OBVIOUS
    <2>1. CASE n \in 1 .. l /\ whole[n] = strokes[n]
      BY <1>4, <2>1 DEF StrokesKnown
    <2>2. CASE \E q \in 1 .. d : n = l + q /\ whole[n] = more[q]
      BY <1>4, <2>2
    <2>. QED  BY <1>5, <2>1, <2>2
  <1>8. /\ Panels' = Panels
        /\ \A k, box : MarkerFits(k, box)' <=> MarkerFits(k, box)
    BY LayoutStays
  <1>9. whole \in Seq(Range(whole))
    <2>1. whole = [n \in 1 .. l + d |-> whole[n]] /\ l + d \in Nat
      BY <1>4
    <2>2. \A n \in 1 .. l + d : whole[n] \in Range(whole)
      BY <1>4 DEF Range
    <2>. QED  BY <2>1, <2>2
  <1>10. StrokesKnown'
    BY <1>3, <1>6, <1>7, <1>8, <1>9, SMTT(20) DEF StrokesKnown
  <1>11. ASSUME NEW x, (\E n \in DOMAIN strokes : strokes[n] = x) \/ (\E n \in DOMAIN more : more[n] = x)
         PROVE  \E n \in DOMAIN strokes' : strokes'[n] = x
    <2>1. ASSUME NEW n \in DOMAIN strokes, strokes[n] = x PROVE n \in DOMAIN whole /\ whole[n] = x
      BY <1>4, <2>1
    <2>2. ASSUME NEW n \in DOMAIN more, more[n] = x PROVE l + n \in DOMAIN whole /\ whole[l + n] = x
      BY <1>4, <2>2
    <2>3. \E n \in DOMAIN whole : whole[n] = x
      BY <1>11, <2>1, <2>2
    <2>. QED  BY <1>3, <2>3
  <1>. QED  BY <1>10, <1>11

-------------------------------------------------------------------------------
LEMMA InitComic == ComicInit => ComicInv
  BY DEF ComicInit, ComicInv, Drawn

LEMMA LayOutKeeps ==
    ASSUME ComicInv, LayOutPanels PROVE ComicInv'
  <1>1. /\ comicStep = "layout" /\ Drawn /\ infos = <<>> /\ strokes = <<>>
        /\ drawing' = drawing /\ infos' = <<>> /\ strokes' = <<>>
    BY DEF ComicInv, LayOutPanels
  <1>2. Drawn'
    BY <1>1 DEF Drawn
  <1>3. CASE comicStep' = "refused"
    BY <1>1, <1>2, <1>3 DEF ComicInv
  <1>4. CASE comicStep' # "refused"
    <2>1. PICK pos : LaidAs(placements', pos) /\ comicStep' = "frames"
      BY <1>1, <1>4, LayOutLays
    <2>2. LaidAs(placements, pos)'
      <3>1. /\ PanelCount' = PanelCount /\ Panels' = Panels /\ Cols' = Cols
            /\ Size' = Size /\ Gutter' = Gutter
        BY <1>1 DEF PanelCount, Panels, Cols, Size, Gutter
      <3>2. Jitter' = Jitter
        BY <1>1, <3>1 DEF Jitter
      <3>3. ASSUME NEW k PROVE GridCorner(k)' = GridCorner(k)
        BY <3>1 DEF GridCorner
      <3>. QED  BY <2>1, <3>1, <3>2, <3>3 DEF LaidAs
    <2>3. PanelCount' \in Nat
      <3>1. PanelCount \in Nat
        BY <1>1, Sizes
      <3>. QED  BY <1>1, <3>1 DEF PanelCount
    <2>4. InfosKnown'
      <3>1. infos' \in Seq(Range(infos')) /\ Len(infos') = 0
        BY <1>1
      <3>. QED  BY <2>3, <3>1 DEF InfosKnown
    <2>5. StrokesKnown'
      <3>1. strokes' \in Seq(Range(strokes')) /\ Len(strokes') = 0 /\ DOMAIN strokes' = {}
        BY <1>1
      <3>. QED  BY <3>1 DEF StrokesKnown
    <2>6. \A n \in DOMAIN strokes' : strokes'[n][1] = "frame"
      BY <1>1
    <2>. QED  BY <1>2, <2>1, <2>2, <2>4, <2>5, <2>6 DEF ComicInv
  <1>. QED  BY <1>3, <1>4

LEMMA FrameKeeps ==
    ASSUME ComicInv, DrawFrame PROVE ComicInv'
  <1>1. PICK k, anchor :
            /\ k = Len(infos) + 1 /\ Len(infos) < PanelCount /\ anchor \in Anchors(k)
            /\ infos' = Append(infos, [anchor |-> anchor, movements |-> Movements(k)])
            /\ strokes' = Append(strokes, <<"frame", k, PanelBox(k)>>)
            /\ drawing' = drawing /\ placements' = placements
            /\ comicStep = "frames" /\ comicStep' = "frames"
    BY DEF DrawFrame
  <1>2. /\ Drawn /\ InfosKnown /\ StrokesKnown /\ \E pos : LaidAs(placements, pos)
        /\ \A n \in DOMAIN strokes : strokes[n][1] = "frame"
    BY <1>1 DEF ComicInv
  <1>3. PICK info, more, l : /\ info = infos' /\ more = [anchor |-> anchor, movements |-> Movements(k)] /\ l = Len(infos)
    OBVIOUS
  <1>4. l \in Nat /\ DOMAIN infos = 1 .. l /\ infos \in Seq(Range(infos) \cup {more})
    <2>1. infos \in Seq(Range(infos))
      BY <1>2 DEF InfosKnown
    <2>. QED  BY <1>3, <2>1
  <1>5. /\ info \in Seq(Range(infos) \cup {more}) /\ Len(info) = l + 1 /\ info[l + 1] = more
        /\ \A i \in 1 .. l : info[i] = infos[i]
    <2>1. info = Append(infos, more)
      BY <1>1, <1>3
    <2>. QED  BY <1>3, <1>4, <2>1, AppendProperties
  <1>6. info \in Seq(Range(info))
    BY <1>5 DEF Range
  <1>7. /\ PanelCount' = PanelCount /\ Panels' = Panels /\ Drawn'
        /\ \A i : Anchors(i)' = Anchors(i) /\ Movements(i)' = Movements(i)
        /\ \E pos : LaidAs(placements, pos)'
    BY <1>1, <1>2, LayoutStays
  <1>8. InfosKnown'
    <2>1. l + 1 <= PanelCount
      BY <1>1, <1>2, <1>3, <1>4, Sizes
    <2>2. ASSUME NEW i \in 1 .. l + 1 PROVE info[i].anchor \in Anchors(i) /\ info[i].movements = Movements(i)
      <3>1. CASE i \in 1 .. l
        BY <1>2, <1>3, <1>5, <3>1 DEF InfosKnown
      <3>2. CASE i = l + 1
        BY <1>1, <1>3, <1>5, <3>2
      <3>. QED  BY <1>4, <3>1, <3>2
    <2>. QED  BY <1>3, <1>5, <1>6, <1>7, <2>1, <2>2 DEF InfosKnown
  <1>9. PICK painted, ground, m : painted = strokes' /\ ground = <<"frame", k, PanelBox(k)>> /\ m = Len(strokes)
    OBVIOUS
  <1>10. m \in Nat /\ DOMAIN strokes = 1 .. m /\ strokes \in Seq(Range(strokes) \cup {ground})
    <2>1. strokes \in Seq(Range(strokes))
      BY <1>2 DEF StrokesKnown
    <2>. QED  BY <1>9, <2>1
  <1>11. /\ painted \in Seq(Range(strokes) \cup {ground}) /\ Len(painted) = m + 1 /\ painted[m + 1] = ground
         /\ \A i \in 1 .. m : painted[i] = strokes[i]
    <2>1. painted = Append(strokes, ground)
      BY <1>1, <1>9
    <2>. QED  BY <1>9, <1>10, <2>1, AppendProperties
  <1>12. painted \in Seq(Range(painted)) /\ DOMAIN painted = 1 .. m + 1
    BY <1>10, <1>11 DEF Range
  <1>13. \A n \in DOMAIN painted : painted[n][1] = "frame"
    <2>. SUFFICES ASSUME NEW n \in 1 .. m + 1 PROVE painted[n][1] = "frame"
      BY <1>12
    <2>1. CASE n \in 1 .. m
      BY <1>2, <1>10, <1>11, <2>1
    <2>2. CASE n = m + 1
      BY <1>9, <1>11, <2>2
    <2>. QED  BY <1>10, <2>1, <2>2
  <1>14. StrokesKnown'
    <2>1. m + 1 \in 0 .. Len(painted) /\ \A n \in DOMAIN painted : painted[n][1] = "frame" <=> n <= m + 1
      BY <1>10, <1>11, <1>12, <1>13
    <2>2. \A n \in DOMAIN painted : painted[n][1] # "marker"
      BY <1>13
    <2>. QED  BY <1>9, <1>12, <2>1, <2>2 DEF StrokesKnown
  <1>. QED  BY <1>1, <1>7, <1>8, <1>9, <1>13, <1>14 DEF ComicInv

(* What SlotArrow needs of the frames. *)
LEMMA AnchorWithin ==
    ASSUME Drawn, NEW pos, LaidAs(placements, pos), NEW k \in Panels, NEW p \in Anchors(k)
    PROVE  Inside(Around(p, 0), PanelBox(k))
  <1>1. PICK x, y, size, inset \in Int :
             /\ x = placements[k][1] /\ y = placements[k][2] /\ size = Size /\ inset = Nearest(Size, 10)
             /\ inset >= 0 /\ inset + 1 <= size
    <2>1. PICK size \in Int : size = Size /\ size >= 24
      BY Sizes
    <2>2. PICK inset \in Int : inset = Nearest(size, 10) /\ inset >= 0 /\ inset + 1 <= size
      BY <2>1 DEF Nearest
    <2>. QED  BY <2>1, <2>2, OnCanvas
  <1>2. p \in {<<x + inset, y + inset>>, <<x + size - inset - 1, y + inset>>,
              <<x + inset, y + size - inset - 1>>, <<x + size - inset - 1, y + size - inset - 1>>}
    BY <1>1 DEF Anchors
  <1>. QED  BY <1>1, <1>2 DEF Inside, Around, PanelBox, Box

(* A function on the first numbers is a sequence of its values. *)
LEMMA ListOfValues ==
    ASSUME NEW n \in Nat, NEW f, f = [k \in 1 .. n |-> f[k]]
    PROVE  f \in Seq(Range(f)) /\ Len(f) = n /\ DOMAIN f = 1 .. n
  <1>1. \A k \in 1 .. n : f[k] \in Range(f)
    BY DEF Range
  <1>2. f \in [1 .. n -> Range(f)]
    BY <1>1
  <1>. QED  BY <1>2

(* The arrows that DrawConnectors paints. *)
Connectors ==
    CASE drawing.arrows = "prev"    -> [k \in 1 .. PanelCount - 1 |-> SlotArrow(k)]
      [] drawing.arrows = "next"    -> Reverse([k \in 1 .. PanelCount - 1 |-> SlotArrow(k)])
      [] drawing.arrows = "current" -> FlattenSeq([k \in Panels |-> ArrowsOf(k)])

LEMMA ArrowsOfPanel ==
    ASSUME ComicInv, comicStep = "frames", Len(infos) = PanelCount, NEW k \in Panels
    PROVE  /\ ArrowsOf(k) \in Seq(Range(ArrowsOf(k)))
           /\ \A m \in DOMAIN ArrowsOf(k) : ArrowsOf(k)[m][1] = "arrow"
  <1>1. PICK made, M : made = infos[k].movements /\ made \in Seq(M)
    <2>1. k \in 1 .. Len(infos)
      BY DEF Panels
    <2>2. infos[k].movements = Movements(k)
      BY <2>1 DEF ComicInv, InfosKnown
    <2>3. \E M : Movements(k) \in Seq(M)
      BY MovementsKnown DEF ComicInv
    <2>. QED  BY <2>2, <2>3
  <1>2. PICK moving : /\ moving = Picked(made, {m \in DOMAIN made : made[m].from # made[m].to})
                      /\ moving \in Seq(M)
    BY <1>1, PickedMembers
  <1>3. PICK n \in Nat : n = Len(moving) /\ DOMAIN moving = 1 .. n
    <2>1. moving \in Seq(M)
      BY <1>2
    <2>. QED  BY <2>1, LenProperties
  <1>4. PICK arrows : arrows = ArrowsOf(k) /\ arrows = [m \in 1 .. n |-> <<"arrow", moving[m].from, moving[m].to>>]
    BY <1>1, <1>2, <1>3 DEF ArrowsOf
  <1>5. arrows \in Seq(Range(arrows))
    <2>1. arrows = [m \in 1 .. n |-> arrows[m]]
      BY <1>4
    <2>. QED  BY <2>1, ListOfValues
  <1>. QED  BY <1>4, <1>5

LEMMA ConnectorsKnown ==
    ASSUME ComicInv, comicStep = "frames", Len(infos) = PanelCount
    PROVE  /\ Connectors \in Seq(Range(Connectors))
           /\ \A n \in DOMAIN Connectors : Connectors[n][1] = "arrow"
           /\ drawing.arrows # "current" =>
                  \A k \in 1 .. PanelCount - 1 : \E n \in DOMAIN Connectors : Connectors[n] = SlotArrow(k)
  <1>1. PICK n \in Nat \ {0} : n = PanelCount /\ Panels = 1 .. n
    BY Sizes DEF ComicInv, Panels
  <1>2. PICK line : line = [k \in 1 .. n - 1 |-> SlotArrow(k)]
    OBVIOUS
  <1>3. /\ line \in Seq(Range(line)) /\ Len(line) = n - 1
        /\ \A k \in 1 .. n - 1 : line[k] = SlotArrow(k) /\ line[k][1] = "arrow"
    <2>1. \A k \in 1 .. n - 1 : line[k] = SlotArrow(k) /\ line[k][1] = "arrow"
      BY <1>2 DEF SlotArrow
    <2>2. line \in Seq(Range(line)) /\ Len(line) = n - 1
      BY <1>2 DEF Range
    <2>. QED  BY <2>1, <2>2
  <1>4. CASE drawing.arrows = "prev"
    <2>1. Connectors = line
      BY <1>1, <1>2, <1>4 DEF Connectors
    <2>. QED  BY <1>1, <1>2, <1>3, <2>1
  <1>5. CASE drawing.arrows = "next"
    <2>1. PICK back : back = Connectors /\ back = [k \in 1 .. n - 1 |-> line[(n - 1) - k + 1]]
      <3>1. Connectors = Reverse(line)
        BY <1>1, <1>2, <1>5 DEF Connectors
      <3>2. Reverse(line) = [k \in 1 .. Len(line) |-> line[(Len(line) - k) + 1]]
        BY DEF Reverse
      <3>. QED  BY <1>3, <3>1, <3>2
    <2>2. back \in Seq(Range(back))
      <3>1. back = [k \in 1 .. n - 1 |-> back[k]] /\ n - 1 \in Nat
        BY <2>1
      <3>. QED  BY <3>1, ListOfValues
    <2>3. \A k \in 1 .. n - 1 : (n - 1) - k + 1 \in 1 .. n - 1 /\ (n - 1) - ((n - 1) - k + 1) + 1 = k
      OBVIOUS
    <2>4. \A k \in 1 .. n - 1 : back[k][1] = "arrow" /\ back[(n - 1) - k + 1] = SlotArrow(k)
      <3>. TAKE k \in 1 .. n - 1
      <3>1. PICK j \in 1 .. n - 1 : j = (n - 1) - k + 1 /\ (n - 1) - j + 1 = k
        BY <2>3
      <3>2. back[k] = line[j] /\ back[j] = line[k]
        BY <2>1, <3>1
      <3>. QED  BY <1>3, <3>1, <3>2
    <2>5. DOMAIN back = 1 .. n - 1
      BY <2>1
    <2>. QED  BY <1>1, <2>1, <2>2, <2>3, <2>4, <2>5
  <1>6. CASE drawing.arrows = "current"
    <2>1. PICK parts : parts = [k \in 1 .. n |-> ArrowsOf(k)]
      OBVIOUS
    <2>2. PICK flat : flat = Connectors /\ flat = FlattenSeq(parts)
      BY <1>1, <1>6, <2>1 DEF Connectors
    <2>3. /\ \E S : flat \in Seq(S)
          /\ \A p \in DOMAIN flat : \E i \in 1 .. n : \E k \in DOMAIN parts[i] : flat[p] = parts[i][k]
      <3>1. \A i \in 1 .. n : parts[i] \in Seq(Range(parts[i]))
        BY <1>1, <2>1, ArrowsOfPanel
      <3>2. parts = [i \in 1 .. n |-> parts[i]]
        BY <2>1
      <3>4. parts \in Seq(Range(parts)) /\ Len(parts) = n /\ n \in Nat
        BY <1>1, <3>2, ListOfValues
      <3>3. ComesFrom(FlattenSeq(parts), n, parts)
        <4>1. parts \in Seq(Range(parts))
          BY <3>4
        <4>2. Len(parts) = n /\ n \in Nat
          BY <3>4
        <4>. QED  BY <3>1, <4>1, <4>2, FlattenFrom
      <3>. QED  BY <2>2, <3>3 DEF ComesFrom
    <2>4. \A p \in DOMAIN flat : flat[p][1] = "arrow"
      BY <1>1, <2>1, <2>3, ArrowsOfPanel
    <2>5. flat \in Seq(Range(flat))
      BY <2>3 DEF Range
    <2>. QED  BY <1>6, <2>2, <2>4, <2>5
  <1>7. drawing.arrows \in {"prev", "current", "next"}
    BY DrawingsAssumption DEF ComicInv, Drawn
  <1>. QED  BY <1>4, <1>5, <1>6, <1>7

LEMMA ConnectorsKeep ==
    ASSUME ComicInv, DrawConnectors PROVE ComicInv'
  <1>1. /\ comicStep = "frames" /\ Len(infos) = PanelCount /\ strokes' = strokes \o Connectors
        /\ comicStep' = "motion" /\ UNCHANGED <<drawing, placements, infos>>
    BY DEF DrawConnectors, Connectors
  <1>2. Drawn /\ InfosKnown /\ StrokesKnown /\ \E pos : LaidAs(placements, pos)
    BY <1>1 DEF ComicInv
  <1>3. PICK more : /\ more = Connectors /\ more \in Seq(Range(more))
                    /\ \A n \in DOMAIN more : more[n][1] = "arrow"
                    /\ drawing.arrows # "current" =>
                          \A k \in 1 .. PanelCount - 1 : \E n \in DOMAIN more : more[n] = SlotArrow(k)
    BY <1>1, ConnectorsKnown
  <1>4. /\ StrokesKnown'
        /\ \A x : (\E n \in DOMAIN strokes : strokes[n] = x) \/ (\E n \in DOMAIN more : more[n] = x)
                   => \E n \in DOMAIN strokes' : strokes'[n] = x
    <2>1. \A n \in DOMAIN more : more[n][1] # "frame" /\ (more[n][1] = "marker" =>
               more[n][2] \in Panels /\ MarkerFits(more[n][2], more[n][3]))
      BY <1>3
    <2>2. strokes' = strokes \o more /\ UNCHANGED <<drawing, placements>> /\ more \in Seq(Range(more)) /\ StrokesKnown
      BY <1>1, <1>2, <1>3
    <2>. QED  BY <2>1, <2>2, PaintedOver, Zenon
  <1>5. /\ PanelCount' = PanelCount /\ Panels' = Panels /\ Drawn'
        /\ \A i : Anchors(i)' = Anchors(i) /\ Movements(i)' = Movements(i)
        /\ \E pos : LaidAs(placements, pos)'
    BY <1>1, <1>2, LayoutStays
  <1>6. InfosKnown'
    BY <1>1, <1>2, <1>5 DEF InfosKnown
  <1>7. ConnectorsDrawn'
    <2>1. \A k : SlotArrow(k)' = SlotArrow(k)
      BY <1>1 DEF SlotArrow
    <2>. QED  BY <1>1, <1>3, <1>4, <1>5, <2>1 DEF ConnectorsDrawn
  <1>. QED  BY <1>1, <1>4, <1>5, <1>6, <1>7 DEF ComicInv

(* Trails, markers and axes of a panel. *)
FineStroke(x) ==
    x[1] # "frame" /\ (x[1] = "marker" => x[2] \in Panels /\ MarkerFits(x[2], x[3]))

LEMMA MotionOfPanel ==
    ASSUME ComicInv, comicStep = "motion", NEW k \in Panels
    PROVE  /\ MotionStrokes(k) \in Seq(Range(MotionStrokes(k)))
           /\ \A m \in DOMAIN MotionStrokes(k) : FineStroke(MotionStrokes(k)[m])
  <1>1. PICK moves, M : moves = infos[k].movements /\ moves = Movements(k) /\ moves \in Seq(M)
    <2>1. k \in 1 .. Len(infos)
      BY DEF Panels, ComicInv
    <2>2. infos[k].movements = Movements(k)
      BY <2>1 DEF ComicInv, InfosKnown
    <2>3. \E M : Movements(k) \in Seq(M)
      BY MovementsKnown DEF ComicInv
    <2>. QED  BY <2>2, <2>3
  <1>2. PICK n \in Nat : DOMAIN moves = 1 .. n
    <2>1. moves \in Seq(M)
      BY <1>1
    <2>. QED  BY <2>1, LenProperties
  <1>3. PICK trails, markers, axes :
            /\ trails = [m \in 1 .. n |-> <<"trail", k, moves[m].from, moves[m].to>>]
            /\ markers = [m \in 1 .. n |-> <<"marker", k, Around(moves[m].to, moves[m].radius)>>]
            /\ axes = <<<<"axes", k, PanelBox(k)>>>>
    OBVIOUS
  <1>4. PICK own : own = MotionStrokes(k) /\ own = trails \o markers \o axes
    BY <1>1, <1>2, <1>3 DEF MotionStrokes
  <1>5. PICK S : S = (Range(trails) \cup Range(markers)) \cup {<<"axes", k, PanelBox(k)>>}
    OBVIOUS
  <1>6. trails \in Seq(S) /\ markers \in Seq(S) /\ axes \in Seq(S)
    <2>1. trails \in Seq(Range(trails))
      <3>1. trails = [m \in 1 .. n |-> trails[m]]
        BY <1>3
      <3>. QED  BY <3>1, ListOfValues
    <2>2. markers \in Seq(Range(markers))
      <3>1. markers = [m \in 1 .. n |-> markers[m]]
        BY <1>3
      <3>. QED  BY <3>1, ListOfValues
    <2>3. Range(trails) \subseteq S /\ Range(markers) \subseteq S /\ <<"axes", k, PanelBox(k)>> \in S
      BY <1>5
    <2>4. axes \in Seq(S)
      BY <1>3, <2>3
    <2>5. trails \in Seq(S)
      BY <2>1, <2>3
    <2>6. markers \in Seq(S)
      BY <2>2, <2>3
    <2>. QED  BY <2>4, <2>5, <2>6
  <1>7. own \in Seq(S)
    <2>1. trails \o markers \in Seq(S)
      BY <1>6
    <2>. QED  BY <1>4, <1>6, <2>1
  <1>8. ASSUME NEW x \in S PROVE FineStroke(x)
    <2>1. CASE x \in Range(trails)
      <3>1. PICK m \in 1 .. n : x = <<"trail", k, moves[m].from, moves[m].to>>
        BY <1>3, <2>1 DEF Range
      <3>. QED  BY <3>1 DEF FineStroke
    <2>2. CASE x \in Range(markers)
      <3>1. PICK m \in 1 .. n : x = <<"marker", k, Around(moves[m].to, moves[m].radius)>>
        BY <1>3, <2>2 DEF Range
      <3>2. WithinInner(k, moves[m].to) /\ \E shape : moves[m].radius = MarkerRadius(shape)
        BY <1>1, <1>2, MovementsKnown DEF ComicInv
      <3>3. MarkerFits(k, Around(moves[m].to, moves[m].radius))
        BY <3>2, MarkersFit DEF ComicInv
      <3>. QED  BY <3>1, <3>3 DEF FineStroke
    <2>3. CASE x = <<"axes", k, PanelBox(k)>>
      BY <2>3 DEF FineStroke
    <2>. QED  BY <1>5, <2>1, <2>2, <2>3
  <1>9. \A m \in DOMAIN own : own[m] \in S
    BY <1>7
  <1>10. own \in Seq(Range(own))
    <2>1. PICK l \in Nat : l = Len(own) /\ own = [m \in 1 .. l |-> own[m]]
      BY <1>7
    <2>. QED  BY <2>1, ListOfValues
  <1>. QED  BY <1>4, <1>8, <1>9, <1>10

LEMMA MotionKeeps ==
    ASSUME ComicInv, DrawMotion PROVE ComicInv'
  <1>1. /\ comicStep = "motion" /\ Len(infos) = PanelCount
        /\ strokes' = strokes \o FlattenSeq([k \in Panels |-> MotionStrokes(k)])
        /\ comicStep' = "encoded" /\ UNCHANGED <<drawing, placements, infos>>
    BY DEF DrawMotion, ComicInv
  <1>2. Drawn /\ InfosKnown /\ StrokesKnown /\ ConnectorsDrawn /\ \E pos : LaidAs(placements, pos)
    BY <1>1 DEF ComicInv
  <1>3. PICK n \in Nat \ {0} : n = PanelCount /\ Panels = 1 .. n
    BY <1>2, Sizes DEF Panels
  <1>4. PICK parts : parts = [k \in 1 .. n |-> MotionStrokes(k)]
    OBVIOUS
  <1>5. parts \in Seq(Range(parts)) /\ Len(parts) = n /\ n \in Nat
    <2>1. parts = [k \in 1 .. n |-> parts[k]] /\ n \in Nat
      BY <1>4
    <2>. QED  BY <2>1, ListOfValues
  <1>6. PICK more : more = FlattenSeq(parts)
    OBVIOUS
  <1>7. ComesFrom(more, n, parts)
    <2>1. parts \in Seq(Range(parts))
      BY <1>5
    <2>2. Len(parts) = n /\ n \in Nat
      BY <1>5
    <2>3. \A i \in 1 .. n : parts[i] \in Seq(Range(parts[i]))
      BY <1>1, <1>3, <1>4, MotionOfPanel
    <2>. QED  BY <1>6, <2>1, <2>2, <2>3, FlattenFrom
  <1>8. more \in Seq(Range(more))
    <2>1. PICK S : more \in Seq(S)
      BY <1>7 DEF ComesFrom
    <2>2. PICK l \in Nat : l = Len(more) /\ more = [m \in 1 .. l |-> more[m]]
      BY <2>1
    <2>. QED  BY <2>2, ListOfValues
  <1>9. \A m \in DOMAIN more : FineStroke(more[m])
    <2>. TAKE m \in DOMAIN more
    <2>1. PICK i \in 1 .. n : \E k \in DOMAIN parts[i] : more[m] = parts[i][k]
      BY <1>7 DEF ComesFrom
    <2>2. parts[i] = MotionStrokes(i) /\ i \in Panels
      BY <1>3, <1>4
    <2>. QED  BY <1>1, <2>1, <2>2, MotionOfPanel
  <1>10. /\ StrokesKnown'
         /\ \A x : (\E p \in DOMAIN strokes : strokes[p] = x) \/ (\E p \in DOMAIN more : more[p] = x)
                    => \E p \in DOMAIN strokes' : strokes'[p] = x
    <2>1. \A m \in DOMAIN more : more[m][1] # "frame" /\ (more[m][1] = "marker" =>
               more[m][2] \in Panels /\ MarkerFits(more[m][2], more[m][3]))
      BY <1>9 DEF FineStroke
    <2>2. strokes' = strokes \o more /\ UNCHANGED <<drawing, placements>> /\ more \in Seq(Range(more)) /\ StrokesKnown
      BY <1>1, <1>2, <1>3, <1>4, <1>6, <1>8
    <2>. QED  BY <2>1, <2>2, PaintedOver, Zenon
  <1>11. /\ PanelCount' = PanelCount /\ Panels' = Panels /\ Drawn'
         /\ \A i : Anchors(i)' = Anchors(i) /\ Movements(i)' = Movements(i)
         /\ \E pos : LaidAs(placements, pos)'
    BY <1>1, <1>2, LayoutStays
  <1>12. InfosKnown'
    BY <1>1, <1>2, <1>11 DEF InfosKnown
  <1>13. ConnectorsDrawn'
    <2>1. \A k : SlotArrow(k)' = SlotArrow(k)
      BY <1>1 DEF SlotArrow
    <2>. QED  BY <1>1, <1>2, <1>10, <1>11, <2>1 DEF ConnectorsDrawn
  <1>. QED  BY <1>1, <1>10, <1>11, <1>12, <1>13 DEF ComicInv

LEMMA StepKeepsComic == ComicInv /\ [ComicNext]_comicVars => ComicInv'
  <1>. SUFFICES ASSUME ComicInv, [ComicNext]_comicVars PROVE ComicInv'
    OBVIOUS
  <1>1. CASE LayOutPanels
    BY <1>1, LayOutKeeps
  <1>2. CASE DrawFrame
    BY <1>2, FrameKeeps
  <1>3. CASE DrawConnectors
    BY <1>3, ConnectorsKeep
  <1>4. CASE DrawMotion
    BY <1>4, MotionKeeps
  <1>5. CASE UNCHANGED comicVars
    <2>1. /\ UNCHANGED <<drawing, placements>> /\ infos' = infos /\ strokes' = strokes /\ comicStep' = comicStep
      BY <1>5 DEF comicVars
    <2>2. PanelCount' = PanelCount /\ Panels' = Panels /\ (Drawn => Drawn')
      BY <2>1, LayoutStays
    <2>3. /\ \A pos : LaidAs(placements, pos)' <=> LaidAs(placements, pos)
          /\ \A k : Anchors(k)' = Anchors(k) /\ Movements(k)' = Movements(k)
          /\ \A k, box : MarkerFits(k, box)' <=> MarkerFits(k, box)
      BY <2>1, LayoutStays
    <2>4. ASSUME InfosKnown PROVE InfosKnown'
      BY <2>1, <2>2, <2>3, <2>4 DEF InfosKnown
    <2>5. ASSUME StrokesKnown PROVE StrokesKnown'
      BY <2>1, <2>2, <2>3, <2>5 DEF StrokesKnown
    <2>6. ASSUME ConnectorsDrawn PROVE ConnectorsDrawn'
      <3>1. \A k : SlotArrow(k)' = SlotArrow(k)
        BY <2>1 DEF SlotArrow
      <3>. QED  BY <2>1, <2>2, <2>6, <3>1 DEF ConnectorsDrawn
    <2>. QED  BY <2>1, <2>2, <2>3, <2>4, <2>5, <2>6 DEF ComicInv
  <1>. QED  BY <1>1, <1>2, <1>3, <1>4, <1>5 DEF ComicNext

(* The picture tells the order of the scene, for any number of panels of   *)
(* any size, any shuffle and any scatter (image_encoding.rs:102): panels,  *)
(* borders and markers keep clear of their neighbours, the panels are not  *)
(* in the order of time, the arrows lead from each to the next, and no     *)
(* panel is painted over an arrow.                                         *)
THEOREM ComicTellsTheOrder == ComicSpec => []PanelsApart
  <1>1. ComicInv => PanelsApart
    <2>. SUFFICES ASSUME ComicInv, comicStep \notin {"idle", "layout", "refused"} PROVE PanelsApart
      BY DEF PanelsApart
    <2>1. PICK pos : LaidAs(placements, pos) /\ Drawn /\ InfosKnown /\ StrokesKnown
      BY DEF ComicInv
    <2>2. PanelsFit
      BY <2>1, LaidFit
    <2>3. ASSUME NEW n \in DOMAIN strokes, strokes[n][1] = "marker"
          PROVE  MarkerFits(strokes[n][2], strokes[n][3])
      BY <2>1, <2>3 DEF StrokesKnown
    <2>4. ASSUME NEW n \in DOMAIN strokes, NEW m \in DOMAIN strokes,
                 strokes[n][1] = "frame", strokes[m][1] # "frame"
          PROVE  n < m
      <3>1. PICK q \in 0 .. Len(strokes) : \A p \in DOMAIN strokes : strokes[p][1] = "frame" <=> p <= q
        BY <2>1 DEF StrokesKnown
      <3>2. n \in Nat /\ m \in Nat /\ n <= q /\ ~ (m <= q) /\ q \in Nat
        BY <2>1, <2>4, <3>1 DEF StrokesKnown
      <3>. QED  BY <3>2
    <2>5. ASSUME comicStep = "encoded", drawing.arrows # "current", NEW k \in 1 .. PanelCount - 1
          PROVE  \E n \in DOMAIN strokes :
                    /\ strokes[n][1] = "arrow"
                    /\ Inside(Around(strokes[n][2], 0), PanelBox(k))
                    /\ Inside(Around(strokes[n][3], 0), PanelBox(k + 1))
      <3>1. PICK n \in DOMAIN strokes : strokes[n] = SlotArrow(k)
        BY <2>5 DEF ComicInv, ConnectorsDrawn
      <3>2. /\ k \in Panels /\ k + 1 \in Panels /\ k \in 1 .. Len(infos) /\ k + 1 \in 1 .. Len(infos)
        <4>1. PICK c \in Nat : c = PanelCount /\ Panels = 1 .. c /\ Len(infos) = c
          BY <2>1, <2>5, Sizes DEF ComicInv, Panels
        <4>. QED  BY <4>1
      <3>3. infos[k].anchor \in Anchors(k) /\ infos[k + 1].anchor \in Anchors(k + 1)
        BY <2>1, <3>2 DEF InfosKnown
      <3>4. /\ Inside(Around(infos[k].anchor, 0), PanelBox(k))
            /\ Inside(Around(infos[k + 1].anchor, 0), PanelBox(k + 1))
        BY <2>1, <3>2, <3>3, AnchorWithin
      <3>. QED  BY <3>1, <3>4 DEF SlotArrow
    <2>. QED  BY <2>2, <2>3, <2>4, <2>5 DEF PanelsApart, PanelsFit, MarkerFits
  <1>. QED  BY <1>1, InitComic, StepKeepsComic, PTL DEF ComicSpec
===============================================================================
