-------------------------- MODULE DatasetValidation --------------------------
(***************************************************************************)
(* `shapeflow validate` with its --generated-* checks on a dataset         *)
(* directory (shapeflow-cli/src/validate.rs and the *_metadata.rs and      *)
(* site_graph_artifact.rs modules it calls).  Every check recomputes what  *)
(* the configuration given on the command line should have produced and    *)
(* compares the files with it; the checks asked for run in a fixed order   *)
(* and the first one that fails ends the command.                          *)
(***************************************************************************)
EXTENDS DatasetStore

GeneratedChecks ==
    <<"split_assignments", "site_metadata", "site_graph", "config", "materialization">>

File(name) == store[MetadataPath(name)]

Readable(name) == File(name) \notin {Absent, Torn}

(* generated_config_metadata: the same configuration, byte for byte.       *)
GeneratedConfigOK(request) ==
    Readable("config") /\ File("config") = request.config

(* site_metadata: identity first, then every figure of a recomputed report.*)
GeneratedSiteMetadataOK(request) ==
    /\ Readable("site_metadata")
    /\ File("site_metadata") = request.config
    /\ request.config \in ValidSites

GeneratedSiteGraphOK(request) ==
    /\ Readable("site_graph")
    /\ request.config \in ValidSites
    /\ File("site_graph") = request.config

GeneratedSplitAssignmentsOK(request) ==
    LET expected == BuildSplitAssignments(request.scenes)
        record   == File("split_assignments")
    IN  /\ Readable("split_assignments")
        /\ record.config = request.config
        /\ Cardinality(DOMAIN record.split.assignments) = record.split.summary.total
        /\ record.split.summary = expected.summary
        /\ record.split.assignments = expected.assignments

-------------------------------------------------------------------------------
(* materialization_metadata: the record, the exact file sets, the payloads.*)

ExpectedSceneNames(request) == {CanonicalName(i) : i \in SceneIndices(request.scenes)}

Observed(dir) == {p \in Paths : p[1] = dir /\ store[p] # Absent}

ExpectedArtifactFiles(request, dir) ==
    {ArtifactPath(dir, name) : name \in ExpectedSceneNames(request)}

ExpectedFrames(request) == 1 .. FrameCount[request.config]

ExpectedFrameEntries(request) ==
    UNION {{FrameDirPath(name)} \cup {FramePath(name, f) : f \in ExpectedFrames(request)} :
           name \in ExpectedSceneNames(request)}

ExpectedTargetFiles(request) ==
    {TargetPath(name, t) : name \in ExpectedSceneNames(request),
                           t \in ExpectedTaskIds(ShapeCount[request.config])}

(* What the record must say of the request before any directory is read.   *)
RecordOK(request) ==
    LET record == File("materialization")
    IN  /\ Readable("materialization")
        /\ record.config = request.config
        /\ record.scenes = request.scenes
        /\ record.samples = request.samples
        /\ record.targets = request.scenes * Cardinality(ExpectedTaskIds(ShapeCount[request.config]))
        /\ \A a \in DOMAIN ArtifactDirs : record.files[a] = request.scenes
        /\ record.frames = request.scenes * FrameCount[request.config]

(* No entry missing and none unexpected, directory by directory.           *)
FileSetsOK(request) ==
    /\ \A a \in DOMAIN ArtifactDirs :
           Observed(ArtifactDirs[a]) = ExpectedArtifactFiles(request, ArtifactDirs[a])
    /\ Observed("video_frames") = ExpectedFrameEntries(request)
    /\ Observed("targets") = ExpectedTargetFiles(request)

(* Every scene is generated again and every target decoded and compared.   *)
TargetPayloadsOK(request) ==
    /\ UnbuildableScenes(request) = {}
    /\ \A p \in ExpectedTargetFiles(request) : store[p] = Payload(request)

NonTargetPayloadsOKNoFrames(request) ==
    \A a \in DOMAIN ArtifactDirs :
        \A p \in ExpectedArtifactFiles(request, ArtifactDirs[a]) : store[p] = Payload(request)

NonTargetPayloadsOK(request) ==
    /\ \A a \in DOMAIN ArtifactDirs :
           \A p \in ExpectedArtifactFiles(request, ArtifactDirs[a]) : store[p] = Payload(request)
    /\ \A name \in ExpectedSceneNames(request), f \in ExpectedFrames(request) :
           store[FramePath(name, f)] = Payload(request)

(* The record's counts against what the directories hold.                  *)
ObservedCountsOK(request) ==
    LET record == File("materialization")
    IN  /\ record.targets = Cardinality(Observed("targets"))
        /\ record.frames = Cardinality(Observed("video_frames")) - request.scenes
        /\ \A a \in DOMAIN ArtifactDirs : record.files[a] = Cardinality(Observed(ArtifactDirs[a]))

GeneratedMaterializationOK(request) ==
    /\ RecordOK(request)
    /\ FileSetsOK(request)
    /\ TargetPayloadsOK(request)
    /\ NonTargetPayloadsOK(request)
    /\ ObservedCountsOK(request)

-------------------------------------------------------------------------------
ASSUME CheckAssumption == None \notin ToSet(GeneratedChecks)

CheckOK(check, request) ==
    CASE check = "split_assignments" -> GeneratedSplitAssignmentsOK(request)
      [] check = "site_metadata"     -> GeneratedSiteMetadataOK(request)
      [] check = "site_graph"        -> GeneratedSiteGraphOK(request)
      [] check = "config"            -> GeneratedConfigOK(request)
      [] check = "materialization"   -> GeneratedMaterializationOK(request)

(* The first check asked for that fails, None when all of them pass.       *)
FirstFailure(checks, request) ==
    LET failed == {n \in DOMAIN GeneratedChecks :
                      GeneratedChecks[n] \in checks /\ ~CheckOK(GeneratedChecks[n], request)}
    IN  IF failed = {} THEN None ELSE GeneratedChecks[Min(failed)]

(* A dataset accepted by all the checks that look at generated output.     *)
Accepted(request) == FirstFailure(ToSet(GeneratedChecks), request) = None
===============================================================================
