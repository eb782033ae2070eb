----------------------------- MODULE ArtifactFiles -----------------------------
(***************************************************************************)
(* The binary files of a dataset (shapeflow-core                           *)
(* artifact_serialization.rs): targets, latent vectors and the site graph. *)
(*                                                                         *)
(* A file is a sequence of cells of four bytes, each a number.  A count or *)
(* an index takes one cell, a float two, the low word first, and a name a  *)
(* fixed number of cells filled up with zeros.  A float is a small number, *)
(* whose low word is zero, or NotFinite.                                   *)
(***************************************************************************)
EXTENDS Integers, Sequences, FiniteSets, SequencesExt

CONSTANTS
    Artifacts,  \* the values to write, records tagged with their kind
    SceneCells, \* cells of a scene's name (8 in the code)
    TaskCells,  \* cells of a task's name (2 in the code)
    NotFinite   \* the number that stands for an infinity or a NaN

ASSUME NotFiniteAssumption == NotFinite \in Nat /\ \A c \in {SceneCells, TaskCells} : c \in Nat \ {0}

(* No name of a scene or of a task ends with the character that fills its  *)
(* field up.                                                               *)
Names == {n \in Seq(Nat) : n # <<>> => n[Len(n)] # 0}
Edges == [src : Nat, dst : Nat, weight : Nat]

ASSUME ArtifactsAssumption ==
    \A a \in Artifacts :
        \/ a \in [kind : {"target"}, scene : Names, task : Names, segments : Seq(Seq(Nat))]
        \/ a \in [kind : {"latent"}, scene : Names, values : Seq(Nat)]
        \/ a \in [kind : {"site_graph"}, nodes : Nat, edges : Seq(Edges), lambda2 : Nat,
                  min_degree : Nat, max_degree : Nat, mean_degree : Nat]

VARIABLES
    artifact,   \* the value to be written
    file,       \* the cells on the disk
    damage,     \* what happened to the file since it was written
    readAs,     \* the kind the reader expects
    outcome     \* what the reader returned

fileVars == <<artifact, file, damage, readAs, outcome>>

Kinds == {"target", "latent", "site_graph"}
Refused == [kind |-> "refused"]
Unread == [kind |-> "unread"]

Magic == [target |-> 1001, latent |-> 1002, site_graph |-> 1003]
FormatVersion == 1

-------------------------------------------------------------------------------
(* Writing.  Every writer refuses what the reader would not give back.     *)
Fixed(name, width) == name \o [k \in 1 .. width - Len(name) |-> 0]
Float(value) == <<0, value>>
Floats(values) == FlattenSeq([k \in DOMAIN values |-> Float(values[k])])
AllFinite(values) == NotFinite \notin Range(values)

(* Mutant: the width of the first segment is written for all of them.      *)
AnyTargetWritable(t) ==
    /\ Len(t.scene) <= SceneCells /\ Len(t.task) <= TaskCells
    /\ AllFinite(FlattenSeq(t.segments))

TargetWritable(t) ==
    /\ Len(t.scene) <= SceneCells /\ Len(t.task) <= TaskCells
    /\ \A s \in Range(t.segments) : Len(s) = Len(t.segments[1])
    /\ AllFinite(FlattenSeq(t.segments))

TargetFile(t) ==
    <<Magic.target, FormatVersion>> \o Fixed(t.scene, SceneCells) \o Fixed(t.task, TaskCells)
        \o <<Len(t.segments), IF t.segments = <<>> THEN 0 ELSE Len(t.segments[1])>>
        \o Floats(FlattenSeq(t.segments))

LatentWritable(l) == Len(l.scene) <= SceneCells /\ AllFinite(l.values)

LatentFile(l) ==
    <<Magic.latent, FormatVersion>> \o Fixed(l.scene, SceneCells)
        \o <<Len(l.values)>> \o Floats(l.values)

EdgeInBounds(e, nodes) == e.src < nodes /\ e.dst < nodes

GraphWritable(g) ==
    /\ AllFinite(<<g.lambda2, g.mean_degree>>)
    /\ \A e \in Range(g.edges) : EdgeInBounds(e, g.nodes) /\ e.weight # NotFinite

GraphFile(g) ==
    <<Magic.site_graph, FormatVersion, g.nodes, Len(g.edges)>>
        \o FlattenSeq([k \in DOMAIN g.edges |->
                         <<g.edges[k].src, g.edges[k].dst>> \o Float(g.edges[k].weight)])
        \o Float(g.lambda2) \o <<g.min_degree, g.max_degree>> \o Float(g.mean_degree)

Writable(a) ==
    CASE a.kind = "target" -> TargetWritable(a)
      [] a.kind = "latent" -> LatentWritable(a)
      [] a.kind = "site_graph" -> GraphWritable(a)

Serialized(a) ==
    CASE a.kind = "target" -> TargetFile(a)
      [] a.kind = "latent" -> LatentFile(a)
      [] a.kind = "site_graph" -> GraphFile(a)

-------------------------------------------------------------------------------
(* Reading.  "at" is the number of cells already read.                     *)
Has(cells, at, n) == at + n <= Len(cells)
Cells(cells, at, n) == SubSeq(cells, at + 1, at + n)
ReadFloats(cells, at, n) == [k \in 1 .. n |-> cells[at + 2 * k]]

Name(cells) ==
    LET used == {k \in DOMAIN cells : cells[k] # 0}
    IN  SubSeq(cells, 1, IF used = {} THEN 0 ELSE CHOOSE k \in used : \A m \in used : m <= k)

(* Mutant: whatever follows the payload is ignored.                        *)
AnyTrailing(cells, at) == Has(cells, at, 0)

NoTrailing(cells, at) == Len(cells) = at

ReadTarget(cells) ==
    LET head == 4 + SceneCells + TaskCells
        count == cells[head - 1]
        width == cells[head]
        values == ReadFloats(cells, head, count * width)
    IN  IF /\ Has(cells, 0, head) /\ cells[1] = Magic.target
           /\ Has(cells, head, 2 * count * width)
           /\ AllFinite(values)
           /\ NoTrailing(cells, head + 2 * count * width)
        THEN [kind |-> "target",
              scene |-> Name(Cells(cells, 2, SceneCells)),
              task |-> Name(Cells(cells, 2 + SceneCells, TaskCells)),
              segments |-> [s \in 1 .. count |-> Cells(values, (s - 1) * width, width)]]
        ELSE Refused

ReadLatent(cells) ==
    LET head == 3 + SceneCells
        count == cells[head]
        values == ReadFloats(cells, head, count)
    IN  IF /\ Has(cells, 0, head) /\ cells[1] = Magic.latent
           /\ Has(cells, head, 2 * count)
           /\ AllFinite(values)
           /\ NoTrailing(cells, head + 2 * count)
        THEN [kind |-> "latent", scene |-> Name(Cells(cells, 2, SceneCells)), values |-> values]
        ELSE Refused

ReadGraph(cells) ==
    LET count == cells[4]
        tail == 4 + 4 * count
        edge(k) == [src |-> cells[4 * k + 1], dst |-> cells[4 * k + 2], weight |-> cells[4 * k + 4]]
        graph == [kind |-> "site_graph", nodes |-> cells[3], edges |-> [k \in 1 .. count |-> edge(k)],
                  lambda2 |-> cells[tail + 2],
                  min_degree |-> cells[tail + 3], max_degree |-> cells[tail + 4],
                  mean_degree |-> cells[tail + 6]]
    IN  IF /\ Has(cells, 0, 4) /\ cells[1] = Magic.site_graph
           /\ Has(cells, 4, 4 * count + 6)
           /\ GraphWritable(graph)
           /\ NoTrailing(cells, tail + 6)
        THEN graph
        ELSE Refused

Deserialized(kind, cells) ==
    CASE kind = "target" -> ReadTarget(cells)
      [] kind = "latent" -> ReadLatent(cells)
      [] kind = "site_graph" -> ReadGraph(cells)

-------------------------------------------------------------------------------
FilesInit ==
    /\ artifact \in Artifacts
    /\ file = <<>> /\ damage = "not written" /\ readAs = "none" /\ outcome = Unread

Serialize ==
    /\ damage = "not written"
    /\ IF Writable(artifact)
       THEN damage' = "none" /\ file' = Serialized(artifact)
       ELSE damage' = "refused" /\ UNCHANGED file
    /\ UNCHANGED <<artifact, readAs, outcome>>

(* A write that stopped half way leaves a prefix; one over a longer file   *)
(* that was not cut first, or an append, leaves something behind the end.  *)
CutFile ==
    /\ damage = "none" /\ outcome = Unread
    /\ \E n \in 0 .. Len(file) - 1 : file' = SubSeq(file, 1, n)
    /\ damage' = "cut"
    /\ UNCHANGED <<artifact, readAs, outcome>>

ExtendFile ==
    /\ damage = "none" /\ outcome = Unread
    /\ \E n \in 1 .. Len(file) : file' = file \o SubSeq(file, Len(file) - n + 1, Len(file))
    /\ damage' = "extended"
    /\ UNCHANGED <<artifact, readAs, outcome>>

Deserialize ==
    /\ damage \in {"none", "cut", "extended"} /\ outcome = Unread
    /\ \E kind \in Kinds : readAs' = kind /\ outcome' = Deserialized(kind, file)
    /\ UNCHANGED <<artifact, file, damage>>

FilesNext == Serialize \/ CutFile \/ ExtendFile \/ Deserialize

FilesSpec == FilesInit /\ [][FilesNext]_fileVars

-------------------------------------------------------------------------------
(* A file that nothing happened to gives back the artifact it was written  *)
(* from; read as another kind, cut short anywhere or followed by anything, *)
(* it is refused rather than read as another artifact (the deserializers,  *)
(* artifact_serialization.rs:175, 233, 317).                               *)
CutFilesRefused ==
    outcome # Unread =>
        outcome = IF damage = "none" /\ readAs = artifact.kind THEN artifact ELSE Refused
===============================================================================
