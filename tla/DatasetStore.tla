----------------------------- MODULE DatasetStore -----------------------------
(***************************************************************************)
(* The dataset directory `shapeflow generate` writes                       *)
(* (shapeflow-cli/src/generate.rs) and the one materialize_dataset of the  *)
(* Python module writes (shapeflow-py/src/lib.rs).  A run writes one file  *)
(* after the other over whatever an earlier run left, never removes        *)
(* anything, and records itself in metadata/materialization.toml last.  It *)
(* can stop anywhere: a file can be left half written, the site graph of   *)
(* the configuration can be rejected after metadata/config.toml was        *)
(* written, and a scene that cannot be built ends the run: the command     *)
(* builds every scene before it writes the first, the Python function      *)
(* builds each when its turn comes.  Otherwise both write the same files.  *)
(*                                                                         *)
(* A path is a tuple <<directory, form of the scene's name, scene, part>>, *)
(* where the part is a frame's number or a target's task.  The payload of  *)
(* a file is what it was computed from; the payloads of two requests are   *)
(* taken to differ whenever their configurations or sample counts do.      *)
(***************************************************************************)
EXTENDS SplitAssignments, Sequences, SequencesExt

CONSTANTS Configs,        \* configurations that pass config.validate()
          ShapeCount,     \* scene.n_shapes of each
          FrameCount,     \* n_motion_slots * event_duration_frames of each
          SceneCounts,    \* the --scene-count values asked for
          SampleCounts,   \* the --samples-per-event values asked for
          ArtifactDirs,   \* the directories with one file per scene, in write order
          TaskFamilies,   \* the per-shape target tasks
          ValidSites,     \* the configurations whose site graph is accepted
          Unbuildable,    \* pairs of a configuration and a scene that cannot be built
          Jobs,           \* bound: who ("command", "python") runs which request
          MaxCommands,    \* bound: commands run on the directory
          None,           \* nothing is running / nothing has finished
          Absent,         \* no such file
          Torn,           \* a file whose write was cut off
          Directory       \* a directory's entry

ASSUME DatasetAssumption ==
    /\ ShapeCount \in [Configs -> Nat \ {0}]
    /\ FrameCount \in [Configs -> Nat \ {0}]
    /\ SceneCounts \subseteq Nat \ {0}
    /\ MaxCommands \in Nat
    /\ IsFiniteSet(TaskFamilies)

(* The directories of one file per scene are distinct, and distinct from   *)
(* the others (generate.rs:134).                                           *)
ASSUME DirectoryAssumption ==
    /\ ArtifactDirs \in Seq(STRING) /\ ArtifactDirs # <<>>
    /\ \A a \in DOMAIN ArtifactDirs :
           /\ ArtifactDirs[a] \notin {"metadata", "video_frames", "targets"}
           /\ \A b \in DOMAIN ArtifactDirs : ArtifactDirs[a] = ArtifactDirs[b] => a = b

VARIABLES store,      \* the file at every path
          job,        \* the run under way: who runs it, its request and next write
          finished,   \* the request whose run ended last, None once another starts
          commands    \* number of commands started (a bound)

storeVars == <<store, job, finished, commands>>

Requests == [config : Configs, scenes : SceneCounts, samples : SampleCounts]

ASSUME JobAssumption ==
    /\ Jobs \subseteq {"command", "python"} \X Requests
    /\ None \notin Requests

(* One passage, crossing and transition target per shape and one for the   *)
(* scene's largest motion.                                                 *)
ExpectedTaskIds(shapes) == {<<"lme", 0>>} \cup (TaskFamilies \X (0 .. shapes - 1))

MetadataPath(file)       == <<"metadata", file, 0, 0>>
ArtifactPath(dir, name)  == <<dir, name[1], name[2], 0>>
FrameDirPath(name)       == <<"video_frames", name[1], name[2], 0>>
FramePath(name, frame)   == <<"video_frames", name[1], name[2], frame>>
TargetPath(name, task)   == <<"targets", name[1], name[2], task>>

PathsOfScene(config, name) ==
    {ArtifactPath(ArtifactDirs[a], name) : a \in DOMAIN ArtifactDirs}
        \cup {FrameDirPath(name)}
        \cup {FramePath(name, f) : f \in 1 .. FrameCount[config]}
        \cup {TargetPath(name, t) : t \in ExpectedTaskIds(ShapeCount[config])}

MetadataFiles == {"config", "site_graph", "site_metadata", "split_assignments", "materialization"}

AllScenes == UNION {SceneIndices(n) : n \in SceneCounts}

ArtifactPaths == UNION {PathsOfScene(c, CanonicalName(i)) : c \in Configs, i \in AllScenes}

Paths == {MetadataPath(f) : f \in MetadataFiles} \cup ArtifactPaths

-------------------------------------------------------------------------------
(* What a run of a request writes, in order.                               *)

Payload(request) == [config |-> request.config, samples |-> request.samples]

SplitRecord(config, split) == [config |-> config, split |-> split]

Wr(path, content) == [path |-> path, content |-> content]

SceneWrites(request, index) ==
    LET name    == CanonicalName(index)
        payload == Payload(request)
        tasks   == SetToSeq(ExpectedTaskIds(ShapeCount[request.config]))
    IN  [a \in DOMAIN ArtifactDirs |-> Wr(ArtifactPath(ArtifactDirs[a], name), payload)]
        \o <<Wr(FrameDirPath(name), Directory)>>
        \o [f \in 1 .. FrameCount[request.config] |-> Wr(FramePath(name, f), payload)]
        \o [t \in DOMAIN tasks |-> Wr(TargetPath(name, tasks[t]), payload)]

(* The counters the run advances at each write.                            *)
WritesInto(writes, dir) == Cardinality({w \in DOMAIN writes : writes[w].path[1] = dir})

MaterializationRecordEntries(request, writes) ==
    [config  |-> request.config,  scenes |-> request.scenes, samples |-> request.samples,
     files   |-> [a \in DOMAIN ArtifactDirs |-> WritesInto(writes, ArtifactDirs[a])],
     frames  |-> WritesInto(writes, "video_frames"),
     targets |-> WritesInto(writes, "targets")]

MaterializationRecord(request, writes) ==
    [config  |-> request.config,  scenes |-> request.scenes, samples |-> request.samples,
     files   |-> [a \in DOMAIN ArtifactDirs |-> WritesInto(writes, ArtifactDirs[a])],
     frames  |-> WritesInto(writes, "video_frames") - request.scenes,
     targets |-> WritesInto(writes, "targets")]

MetadataWrites(request) ==
    <<Wr(MetadataPath("config"), request.config),
      Wr(MetadataPath("site_graph"), request.config),
      Wr(MetadataPath("site_metadata"), request.config),
      Wr(MetadataPath("split_assignments"),
         SplitRecord(request.config, BuildSplitAssignments(request.scenes)))>>

WritePlan(request) ==
    LET scenes == FlattenSeq([n \in 1 .. request.scenes |-> SceneWrites(request, n - 1)])
    IN  MetadataWrites(request) \o scenes
        \o <<Wr(MetadataPath("materialization"), MaterializationRecord(request, scenes))>>

Plan == [r \in Requests |-> WritePlan(r)]

(* A file that was cut off, or that is missing, is no file a run writes.   *)
ASSUME ContentAssumption ==
    \A r \in Requests : \A w \in DOMAIN Plan[r] : Plan[r][w].content \notin {Absent, Torn}

-------------------------------------------------------------------------------
StoreInit ==
    /\ store = [p \in Paths |-> Absent]
    /\ job = None
    /\ finished = None
    /\ commands = 0

StartGenerate(tool, request) ==
    /\ job = None
    /\ commands < MaxCommands
    /\ job' = [tool |-> tool, request |-> request, next |-> 1]
    /\ finished' = None
    /\ commands' = commands + 1
    /\ UNCHANGED store

(* The site graph is validated after the first write; the command builds   *)
(* every scene, in parallel, before the first artifact is written.         *)
UnbuildableScenes(request) ==
    {i \in SceneIndices(request.scenes) : <<request.config, i>> \in Unbuildable}

SiteFails == job.next = 2 /\ job.request.config \notin ValidSites

CommandFails == job.tool = "command" /\ job.next = 5 /\ UnbuildableScenes(job.request) # {}

NextWrite == Plan[job.request][job.next]

(* The Python function generates a scene, then encodes and writes one file *)
(* after the other, its targets last: one that cannot be built fails at    *)
(* one of the steps up to its first target.                                *)
PythonMayFail ==
    /\ job.tool = "python" /\ job.next \in 5 .. Len(Plan[job.request]) - 1
    /\ <<job.request.config, NextWrite.path[3]>> \in Unbuildable

PythonFails == PythonMayFail /\ NextWrite.path[1] = "targets"

CannotGoOn == SiteFails \/ CommandFails \/ PythonFails

WriteFile ==
    /\ job # None
    /\ job.next <= Len(Plan[job.request])
    /\ ~CannotGoOn
    /\ store' = [store EXCEPT ![NextWrite.path] = NextWrite.content]
    /\ job' = [job EXCEPT !.next = @ + 1]
    /\ UNCHANGED <<finished, commands>>

GenerateFails ==
    /\ job # None
    /\ CannotGoOn \/ PythonMayFail
    /\ job' = None
    /\ UNCHANGED <<store, finished, commands>>

GenerateFinishes ==
    /\ job # None
    /\ job.next = Len(Plan[job.request]) + 1
    /\ job' = None
    /\ finished' = job.request
    /\ UNCHANGED <<store, commands>>

(* The process is stopped or a write fails: the file of the write under    *)
(* way is as it was or cut off; a directory is there or not.               *)
GenerateStops ==
    /\ job # None
    /\ job.next <= Len(Plan[job.request])
    /\ ~CannotGoOn
    /\ \/ UNCHANGED store
       \/ /\ NextWrite.content # Directory
          /\ store' = [store EXCEPT ![NextWrite.path] = Torn]
    /\ job' = None
    /\ UNCHANGED <<finished, commands>>

StoreNext ==
    \/ \E j \in Jobs : StartGenerate(j[1], j[2])
    \/ WriteFile
    \/ GenerateFails
    \/ GenerateFinishes
    \/ GenerateStops

-------------------------------------------------------------------------------
(* The directory one undisturbed run leaves when it starts from nothing.   *)
WrittenPaths(request) == {Plan[request][w].path : w \in DOMAIN Plan[request]}

FreshStore(request) ==
    [p \in Paths |->
        IF p \in WrittenPaths(request)
        THEN Plan[request][CHOOSE w \in DOMAIN Plan[request] : Plan[request][w].path = p].content
        ELSE Absent]

StoreSpec == StoreInit /\ [][StoreNext]_storeVars

(* The writes of a plan before one of them.                                *)
Earlier(n) == 1 .. n - 1

LastWritesHold(request, n) ==
    \A p \in Paths, w \in Earlier(n) :
        (/\ Plan[request][w].path = p
         /\ \A v \in Earlier(n) : v > w => Plan[request][v].path # p) =>
            store[p] = Plan[request][w].content

(* A run that ended has left every file it writes as it last wrote it,     *)
(* whatever earlier runs, cut off anywhere, had left there (the order of   *)
(* the writes, generate.rs:240).                                           *)
FinishedLeavesItsFiles ==
    job = None /\ finished # None => LastWritesHold(finished, Len(Plan[finished]) + 1)
===============================================================================
