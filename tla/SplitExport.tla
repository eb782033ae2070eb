------------------------------ MODULE SplitExport ------------------------------
(***************************************************************************)
(* `shapeflow export-split` (shapeflow-cli/src/export_split.rs): the       *)
(* scenes one split of a generated dataset selects are copied, under the   *)
(* names the split assignments give them, into a target directory that is  *)
(* not emptied first.  The source is found by looking for a name all of    *)
(* whose artifacts exist; no content is looked at and the configuration    *)
(* given on the command line is not compared with the dataset's.           *)
(***************************************************************************)
EXTENDS DatasetValidation

CONSTANT Splits     \* the values of --split: buckets and "all"

VARIABLES out,        \* the target directory
          exported    \* the export that ran to its end last, with what it found

OutMetadata == {"config", "site_graph", "site_metadata", "split_assignments", "export_split"}

OutPaths == {MetadataPath(f) : f \in OutMetadata}
            \cup UNION {PathsOfScene(c, AssignedName(i)) : c \in Configs, i \in AllScenes}

Exists(path) == path \in Paths /\ store[path] # Absent

(* Both names of a scene, in the order of their text: a hexadecimal name   *)
(* sorts before one that starts with "scene_".                             *)
SourceSceneIdCandidates(index) == <<CanonicalName(index), AssignedName(index)>>

SourceTargets(name) == {p \in Paths : p[1] = "targets" /\ <<p[2], p[3]>> = name /\ Exists(p)}
SourceFrames(name)  == {p \in Paths : p[1] = "video_frames" /\ <<p[2], p[3]>> = name
                                       /\ p[4] # 0 /\ Exists(p)}

SourceCompleteByFirst(name) == Exists(ArtifactPath(ArtifactDirs[1], name))

SourceComplete(name) ==
    /\ \A a \in DOMAIN ArtifactDirs : Exists(ArtifactPath(ArtifactDirs[a], name))
    /\ Exists(FrameDirPath(name))
    /\ SourceTargets(name) # {}

Resolvable(index) ==
    \E n \in DOMAIN SourceSceneIdCandidates(index) :
        SourceComplete(SourceSceneIdCandidates(index)[n])

ResolveSourceSceneId(index) ==
    LET names == SourceSceneIdCandidates(index)
    IN  names[Min({n \in DOMAIN names : SourceComplete(names[n])})]

SelectAssignmentsTrainOnly(assignments, split) ==
    {i \in DOMAIN assignments : split # "train" \/ assignments[i] = "train"}

SelectAssignments(assignments, split) ==
    {i \in DOMAIN assignments : split \in {"all", assignments[i]}}

(* The members of a set one after the other, the lower key first.          *)
InOrder(S, key) ==
    [n \in 1 .. Cardinality(S) |->
        CHOOSE x \in S : Cardinality({y \in S : key[y] <= key[x]}) = n]

SelectedScenes(record, split) ==
    LET selected == SelectAssignments(record.split.assignments, split)
    IN  InOrder(selected, [i \in selected |-> i])

FilteredRecord(record, split) ==
    LET selected == Restrict(record.split.assignments,
                             SelectAssignments(record.split.assignments, split))
    IN  SplitRecord(record.config, [assignments |-> selected, summary |-> Summary(selected)])

-------------------------------------------------------------------------------
(* What an export of a split writes, from the dataset as it is.  The       *)
(* dataset does not change meanwhile: one command runs at a time.          *)

Renamed(path, index) == <<path[1], AssignedName(index)[1], index, path[4]>>

Copy(path, index) == Wr(Renamed(path, index), store[path])

SceneCopies(index) ==
    LET name    == ResolveSourceSceneId(index)
        found   == SourceFrames(name)
        frames  == InOrder(found, [p \in found |-> p[4]])
        targets == SetToSeq(SourceTargets(name))
    IN  [a \in DOMAIN ArtifactDirs |-> Copy(ArtifactPath(ArtifactDirs[a], name), index)]
        \o <<Copy(FrameDirPath(name), index)>>
        \o [f \in DOMAIN frames |-> Copy(frames[f], index)]
        \o [t \in DOMAIN targets |-> Copy(targets[t], index)]

Manifest(split, copies) ==
    [split   |-> split,
     scenes  |-> WritesInto(copies, ArtifactDirs[1]),
     targets |-> WritesInto(copies, "targets")]

(* The copies up to the first selected scene whose source is incomplete.   *)
CopiesOf(scenes) ==
    LET stop == {n \in DOMAIN scenes : ~Resolvable(scenes[n])}
        last == IF stop = {} THEN Len(scenes) ELSE Min(stop) - 1
    IN  FlattenSeq([n \in 1 .. last |-> SceneCopies(scenes[n])])

CopiedMetadata == <<"config", "site_graph", "site_metadata">>

MetadataCopies ==
    [m \in DOMAIN CopiedMetadata |->
        Wr(MetadataPath(CopiedMetadata[m]), File(CopiedMetadata[m]))]

ExportWrites(record, split) ==
    LET scenes == SelectedScenes(record, split)
        copies == CopiesOf(scenes)
    IN  MetadataCopies
        \o <<Wr(MetadataPath("split_assignments"), FilteredRecord(record, split))>>
        \o copies
        \o (IF \A n \in DOMAIN scenes : Resolvable(scenes[n])
            THEN <<Wr(MetadataPath("export_split"), Manifest(split, copies))>> ELSE <<>>)

(* Some of the metadata the export copies is missing.                      *)
MetadataMissing == \E m \in DOMAIN CopiedMetadata : File(CopiedMetadata[m]) = Absent

(* What reading the split assignments may give: a file cut off in its list *)
(* of assignments still parses, with the assignments that precede the cut. *)
ReadSplitAssignments ==
    IF Readable("split_assignments") THEN {File("split_assignments")}
    ELSE IF File("split_assignments") = Torn
    THEN UNION {{SplitRecord(File("config"),
                     [BuildSplitAssignments(m) EXCEPT !.assignments = Restrict(@, SceneIndices(n))]) :
                     n \in 1 .. m} : m \in SceneCounts}
    ELSE {}

-------------------------------------------------------------------------------
ExportInit ==
    /\ out = [p \in OutPaths |-> Absent]
    /\ exported = None

Apply(files, writes) ==
    [p \in DOMAIN files |->
        IF \E w \in DOMAIN writes : writes[w].path = p
        THEN writes[CHOOSE w \in DOMAIN writes : writes[w].path = p].content
        ELSE files[p]]

Whole(writes) == writes[Len(writes)].path = MetadataPath("export_split")

(* The export runs to its end: nothing was missing.                        *)
ExportSplit(split) ==
    /\ job = None
    /\ commands < MaxCommands
    /\ ~MetadataMissing
    /\ \E record \in ReadSplitAssignments :
           LET writes == ExportWrites(record, split)
           IN  /\ Whole(writes)
               /\ out' = Apply(out, writes)
    /\ exported' = [split |-> split, fresh |-> \A p \in OutPaths : out[p] = Absent]
    /\ commands' = commands + 1
    /\ UNCHANGED <<store, job, finished>>

(* It stops early: at a missing file or a scene without source artifacts,  *)
(* or anywhere because the process was stopped.                            *)
ExportStops(split) ==
    /\ job = None
    /\ commands < MaxCommands
    /\ \E record \in ReadSplitAssignments :
           LET writes == ExportWrites(record, split)
               limit  == IF MetadataMissing
                         THEN Min({m \in DOMAIN CopiedMetadata : File(CopiedMetadata[m]) = Absent}) - 1
                         ELSE IF Whole(writes) THEN Len(writes) - 1 ELSE Len(writes)
           IN  \E n \in 0 .. limit : out' = Apply(out, SubSeq(writes, 1, n))
    /\ exported' = None
    /\ commands' = commands + 1
    /\ UNCHANGED <<store, job, finished>>

ExportNext == \E s \in Splits : ExportSplit(s) \/ ExportStops(s)
===============================================================================
