------------------------------ MODULE DatasetProofs ------------------------------
(***************************************************************************)
(* The dataset directory.  A run that ends has healed every file it        *)
(* writes; what the five checks of generated output accept is, file by     *)
(* file, what an undisturbed run writes.  The split assignment, for any    *)
(* number of scenes.                                                       *)
(***************************************************************************)
EXTENDS Dataset, SequenceLemmas

(* The two roundings leave the test bucket a number of scenes, and at      *)
(* least one of any scenes (split_assignments.rs:50).                      *)
LEMMA CountsAddUp ==
    ASSUME NEW n \in Nat
    PROVE  /\ TrainCount(n) \in Nat /\ ValCount(n) \in Nat /\ TestCount(n) \in Nat
           /\ TrainCount(n) + ValCount(n) + TestCount(n) = n
           /\ TrainCount(n) + ValCount(n) <= n
  BY DEF TrainCount, ValCount, TestCount, TrainRatioNum, ValRatioNum, RatioDen

(* A bucket is an interval of scenes: training first, test last.           *)
LEMMA BucketsAreIntervals ==
    ASSUME NEW n \in Nat
    PROVE  /\ ScenesIn(Assignments(n), "train") = 0 .. TrainCount(n) - 1
           /\ ScenesIn(Assignments(n), "val") = TrainCount(n) .. TrainCount(n) + ValCount(n) - 1
           /\ ScenesIn(Assignments(n), "test") = TrainCount(n) + ValCount(n) .. n - 1
  <1>1. PICK t, v : t = TrainCount(n) /\ v = ValCount(n)
    OBVIOUS
  <1>2. t \in Nat /\ v \in Nat /\ t + v <= n
    BY <1>1, CountsAddUp
  <1>3. Assignments(n) = [i \in 0 .. n - 1 |->
            IF i < t THEN "train" ELSE IF i < t + v THEN "val" ELSE "test"]
    BY <1>1 DEF Assignments, SceneIndices, SplitBucketForLocalIndex
  <1>. QED  BY <1>1, <1>2, <1>3 DEF ScenesIn

(* Every scene is in one split and in no other, and the summary counts     *)
(* them, for any number of scenes (build_split_assignments,                *)
(* split_assignments.rs:72).                                               *)
THEOREM SplitsPartition ==
    ASSUME NEW n \in Nat
    PROVE  /\ UNION {ScenesIn(Assignments(n), b) : b \in SplitBucket} = SceneIndices(n)
           /\ \A a, b \in SplitBucket :
                a # b => ScenesIn(Assignments(n), a) \cap ScenesIn(Assignments(n), b) = {}
           /\ Summary(Assignments(n)) =
                [train |-> TrainCount(n), val |-> ValCount(n), test |-> TestCount(n), total |-> n]
  <1>1. \A i \in SceneIndices(n) : Assignments(n)[i] \in SplitBucket
    BY DEF Assignments, SplitBucketForLocalIndex, SplitBucket
  <1>2. DOMAIN Assignments(n) = SceneIndices(n)
    BY DEF Assignments
  <1>3. UNION {ScenesIn(Assignments(n), b) : b \in SplitBucket} = SceneIndices(n)
    BY <1>1, <1>2 DEF ScenesIn
  <1>4. \A a, b \in SplitBucket :
            a # b => ScenesIn(Assignments(n), a) \cap ScenesIn(Assignments(n), b) = {}
    BY DEF ScenesIn
  <1>5. /\ Cardinality(ScenesIn(Assignments(n), "train")) = TrainCount(n)
        /\ Cardinality(ScenesIn(Assignments(n), "val")) = ValCount(n)
        /\ Cardinality(ScenesIn(Assignments(n), "test")) = TestCount(n)
        /\ Cardinality(DOMAIN Assignments(n)) = n
    <2>1. PICK t, v : t = TrainCount(n) /\ v = ValCount(n)
      OBVIOUS
    <2>2. t \in Nat /\ v \in Nat /\ t + v <= n /\ TestCount(n) = n - t - v
      BY <2>1, CountsAddUp DEF TestCount
    <2>3. \A a \in Nat, b \in Nat : Cardinality(a .. (a + b) - 1) = b
      <3>. TAKE a \in Nat, b \in Nat
      <3>1. (a + b) - 1 \in Int /\ a \in Int
        OBVIOUS
      <3>2. Cardinality(a .. (a + b) - 1)
                = IF a > (a + b) - 1 THEN 0 ELSE ((a + b) - 1) - a + 1
        BY <3>1, FS_Interval
      <3>. QED  BY <3>2
    <2>4. /\ 0 .. t - 1 = 0 .. (0 + t) - 1 /\ 0 .. n - 1 = 0 .. (0 + n) - 1
          /\ t + v .. n - 1 = t + v .. ((t + v) + (n - t - v)) - 1
          /\ n - t - v \in Nat /\ t + v \in Nat
      BY <2>2
    <2>5. /\ Cardinality(0 .. t - 1) = t /\ Cardinality(t .. t + v - 1) = v
          /\ Cardinality(t + v .. n - 1) = n - t - v /\ Cardinality(0 .. n - 1) = n
      BY <2>2, <2>3, <2>4
    <2>. QED  BY <1>2, <2>1, <2>2, <2>5, BucketsAreIntervals DEF SceneIndices
  <1>. QED  BY <1>3, <1>4, <1>5 DEF Summary

(* A dataset of at least one scene has a test split; it has a training     *)
(* split from two scenes on and a validation split from seven on.          *)
THEOREM EmptySplits ==
    ASSUME NEW n \in Nat \ {0}
    PROVE  /\ ScenesIn(Assignments(n), "test") # {}
           /\ ScenesIn(Assignments(n), "train") = {} <=> n = 1
           /\ ScenesIn(Assignments(n), "val") = {} <=> n < 7
  <1>1. PICK t, v : /\ t = TrainCount(n) /\ t = (n * 70) \div 100
                    /\ v = ValCount(n) /\ v = (n * 15) \div 100
    BY DEF TrainCount, ValCount, TrainRatioNum, ValRatioNum, RatioDen
  <1>2. t \in Nat /\ v \in Nat
    BY <1>1, CountsAddUp
  <1>3. 100 * t <= n * 70 /\ n * 70 < 100 * t + 100
    BY <1>1
  <1>4. 100 * v <= n * 15 /\ n * 15 < 100 * v + 100
    BY <1>1
  <1>5. t + v < n /\ (t = 0 <=> n = 1) /\ (v = 0 <=> n < 7)
    BY <1>2, <1>3, <1>4
  <1>6. ScenesIn(Assignments(n), "test") # {}
    <2>1. t + v \in t + v .. n - 1
      BY <1>2, <1>5
    <2>. QED  BY <1>1, <2>1, BucketsAreIntervals
  <1>7. ScenesIn(Assignments(n), "train") = 0 .. t - 1
    BY <1>1, BucketsAreIntervals
  <1>8. ScenesIn(Assignments(n), "val") = t .. t + v - 1
    BY <1>1, BucketsAreIntervals
  <1>9. \A a \in Nat, b \in Nat : a .. (a + b) - 1 = {} <=> b = 0
    <2>. TAKE a \in Nat, b \in Nat
    <2>1. CASE b = 0
      BY <2>1
    <2>2. CASE b # 0
      <3>1. a \in a .. (a + b) - 1
        BY <2>2
      <3>. QED  BY <2>2, <3>1
    <2>. QED  BY <2>1, <2>2
  <1>10. 0 .. t - 1 = 0 .. (0 + t) - 1
    BY <1>2
  <1>11. 0 .. t - 1 = {} <=> t = 0
    BY <1>2, <1>9, <1>10
  <1>12. t .. t + v - 1 = {} <=> v = 0
    BY <1>2, <1>9
  <1>. QED  BY <1>5, <1>6, <1>7, <1>8, <1>11, <1>12

-------------------------------------------------------------------------------
WritesHold ==
    /\ store = [p \in Paths |-> store[p]]
    /\ job # None =>
        /\ finished = None
        /\ job = [tool |-> job.tool, request |-> job.request, next |-> job.next]
        /\ job.next \in Nat \ {0}
        /\ LastWritesHold(job.request, job.next)
    /\ FinishedLeavesItsFiles

LEMMA InitHolds == StoreInit => WritesHold
  BY DEF StoreInit, WritesHold, FinishedLeavesItsFiles

LEMMA StartHolds ==
    ASSUME WritesHold, NEW tool, NEW request, StartGenerate(tool, request)
    PROVE  WritesHold'
  <1>1. store' = store /\ finished' = None
        /\ job' = [tool |-> tool, request |-> request, next |-> 1]
    BY DEF StartGenerate
  <1>2. Earlier(1) = {}
    BY DEF Earlier
  <1>3. LastWritesHold(request, 1)'
    BY <1>2 DEF LastWritesHold
  <1>. QED  BY <1>1, <1>3 DEF WritesHold, FinishedLeavesItsFiles

(* A write makes its own file what the plan says; any other file was last  *)
(* written before.                                                         *)
LEMMA WriteHolds ==
    ASSUME WritesHold, WriteFile
    PROVE  WritesHold'
  <1>1. PICK request, n : request = job.request /\ n = job.next
    OBVIOUS
  <1>2. /\ n \in Nat \ {0} /\ LastWritesHold(request, n) /\ finished = None
        /\ job = [tool |-> job.tool, request |-> request, next |-> n]
        /\ store = [p \in Paths |-> store[p]]
    BY <1>1 DEF WritesHold, WriteFile
  <1>3. /\ store' = [store EXCEPT ![Plan[request][n].path] = Plan[request][n].content]
        /\ job' = [job EXCEPT !.next = @ + 1] /\ finished' = finished
    BY <1>1 DEF WriteFile, NextWrite
  <1>4. job' = [tool |-> job.tool, request |-> request, next |-> n + 1]
    BY <1>1, <1>2, <1>3
  <1>5. LastWritesHold(request, n + 1)'
    <2>. SUFFICES ASSUME NEW p \in Paths, NEW w \in Earlier(n + 1),
                         Plan[request][w].path = p,
                         \A v \in Earlier(n + 1) : v > w => Plan[request][v].path # p
                  PROVE  store'[p] = Plan[request][w].content
      BY DEF LastWritesHold
    <2>1. CASE w = n
      BY <1>2, <1>3, <2>1
    <2>2. CASE w # n
      <3>1. w \in Earlier(n) /\ n \in Earlier(n + 1) /\ n > w /\ Earlier(n) \subseteq Earlier(n + 1)
        BY <1>2, <2>2 DEF Earlier
      <3>2. store[p] = Plan[request][w].content
        BY <1>2, <3>1 DEF LastWritesHold
      <3>3. Plan[request][n].path # p
        BY <3>1
      <3>. QED  BY <1>2, <1>3, <3>2, <3>3
    <2>. QED  BY <2>1, <2>2
  <1>. QED  BY <1>2, <1>3, <1>4, <1>5 DEF WritesHold, FinishedLeavesItsFiles

LEMMA StepHolds == WritesHold /\ [StoreNext]_storeVars => WritesHold'
  <1>. SUFFICES ASSUME WritesHold, [StoreNext]_storeVars PROVE WritesHold'
    OBVIOUS
  <1>1. CASE \E j \in Jobs : StartGenerate(j[1], j[2])
    BY <1>1, StartHolds
  <1>2. CASE WriteFile
    BY <1>2, WriteHolds
  <1>3. CASE GenerateFails
    BY <1>3 DEF GenerateFails, WritesHold, FinishedLeavesItsFiles
  <1>4. CASE GenerateFinishes
    <2>1. LastWritesHold(job.request, Len(Plan[job.request]) + 1)
      BY <1>4 DEF GenerateFinishes, WritesHold
    <2>2. job' = None /\ finished' = job.request /\ store' = store
      BY <1>4 DEF GenerateFinishes
    <2>. QED  BY <2>1, <2>2 DEF WritesHold, FinishedLeavesItsFiles, LastWritesHold
  <1>5. CASE GenerateStops
    <2>1. job' = None /\ finished' = None /\ store' = [p \in Paths |-> store'[p]]
      BY <1>5 DEF GenerateStops, WritesHold
    <2>. QED  BY <2>1 DEF WritesHold, FinishedLeavesItsFiles
  <1>6. CASE UNCHANGED storeVars
    BY <1>6 DEF storeVars, WritesHold, FinishedLeavesItsFiles, LastWritesHold
  <1>. QED  BY <1>1, <1>2, <1>3, <1>4, <1>5, <1>6 DEF StoreNext

(* A run that ended has left every file it writes as it last wrote it, for *)
(* any requests and any way earlier runs stopped (generate.rs:240).        *)
THEOREM FinishedHeals == StoreSpec => []FinishedLeavesItsFiles
  <1>1. WritesHold => FinishedLeavesItsFiles
    BY DEF WritesHold
  <1>. QED  BY <1>1, InitHolds, StepHolds, PTL DEF StoreSpec

-------------------------------------------------------------------------------
(* What a run of a request writes, path by path. *)
RequestPaths(r) ==
    {MetadataPath(f) : f \in MetadataFiles}
        \cup UNION {PathsOfScene(r.config, CanonicalName(i)) : i \in SceneIndices(r.scenes)}

SceneFiles(r) == FlattenSeq([n \in 1 .. r.scenes |-> SceneWrites(r, n - 1)])

PlannedContent(r, p) ==
    IF p[1] = "metadata"
    THEN CASE p[2] = "split_assignments" -> SplitRecord(r.config, BuildSplitAssignments(r.scenes))
           [] p[2] = "materialization" -> MaterializationRecord(r, SceneFiles(r))
           [] OTHER -> r.config
    ELSE IF p[1] = "video_frames" /\ p[4] = 0 THEN Directory ELSE Payload(r)

PlannedWrites(r) == {Wr(p, PlannedContent(r, p)) : p \in RequestPaths(r)}

WritesOfScene(r, i) ==
    {Wr(p, PlannedContent(r, p)) : p \in PathsOfScene(r.config, CanonicalName(i))}

LEMMA RequestFacts ==
    ASSUME NEW r \in Requests
    PROVE  /\ r.config \in Configs /\ r.scenes \in Nat \ {0}
           /\ ShapeCount[r.config] \in Nat \ {0} /\ FrameCount[r.config] \in Nat \ {0}
           /\ r = [config |-> r.config, scenes |-> r.scenes, samples |-> r.samples]
  BY DatasetAssumption DEF Requests

LEMMA TasksFinite ==
    ASSUME NEW n \in Nat
    PROVE  IsFiniteSet(ExpectedTaskIds(n))
  <1>1. IsFiniteSet({<<"lme", 0>>})
    BY FS_Singleton
  <1>2. IsFiniteSet(0 .. n - 1)
    BY FS_Interval
  <1>3. IsFiniteSet(TaskFamilies \X (0 .. n - 1))
    BY <1>2, DatasetAssumption, FS_Product
  <1>. QED  BY <1>1, <1>3, FS_Union DEF ExpectedTaskIds

(* The writes of a scene: its artifacts, the frame directory, the frames   *)
(* and the targets.                                                        *)
Parts(r, i, A, D, F, T) ==
    /\ A \in Seq(WritesOfScene(r, i)) /\ D \in Seq(WritesOfScene(r, i))
    /\ F \in Seq(WritesOfScene(r, i)) /\ T \in Seq(WritesOfScene(r, i))
    /\ SceneWrites(r, i) = ((A \o D) \o F) \o T
    /\ WritesOfScene(r, i) = ToSet(A) \union ToSet(D) \union ToSet(F) \union ToSet(T)
    /\ DOMAIN A = DOMAIN ArtifactDirs
    /\ \A a \in DOMAIN A : A[a].path[1] = ArtifactDirs[a]
    /\ Len(D) = 1 /\ Len(F) = FrameCount[r.config]
    /\ \A w \in ToSet(D) \union ToSet(F) : w.path[1] = "video_frames"
    /\ Len(T) = Cardinality(ExpectedTaskIds(ShapeCount[r.config]))
    /\ \A w \in ToSet(T) : w.path[1] = "targets"

LEMMA SceneParts ==
    ASSUME NEW r \in Requests, NEW i
    PROVE  \E A, D, F, T : Parts(r, i, A, D, F, T)
  <1>1. PICK name, tasks, W : /\ name = CanonicalName(i)
                              /\ tasks = SetToSeq(ExpectedTaskIds(ShapeCount[r.config]))
                              /\ W = WritesOfScene(r, i)
    OBVIOUS
  <1>2. PICK n \in Nat \ {0} : n = FrameCount[r.config]
    BY RequestFacts
  <1>. DEFINE A == [a \in DOMAIN ArtifactDirs |-> Wr(ArtifactPath(ArtifactDirs[a], name), Payload(r))]
              D == <<Wr(FrameDirPath(name), Directory)>>
              F == [f \in 1 .. n |-> Wr(FramePath(name, f), Payload(r))]
              T == [t \in DOMAIN tasks |-> Wr(TargetPath(name, tasks[t]), Payload(r))]
  <1>3. SceneWrites(r, i) = A \o D \o F \o T
    BY <1>1, <1>2 DEF SceneWrites
  <1>4. /\ tasks \in Seq(ExpectedTaskIds(ShapeCount[r.config]))
        /\ ToSet(tasks) = ExpectedTaskIds(ShapeCount[r.config])
    BY <1>1, RequestFacts, TasksFinite, SetToSeqLists
  <1>5. PathsOfScene(r.config, name) =
            {ArtifactPath(ArtifactDirs[a], name) : a \in DOMAIN ArtifactDirs}
            \cup {FrameDirPath(name)}
            \cup {FramePath(name, f) : f \in 1 .. n}
            \cup {TargetPath(name, t) : t \in ExpectedTaskIds(ShapeCount[r.config])}
    BY <1>2 DEF PathsOfScene
  <1>6. W = {Wr(p, PlannedContent(r, p)) : p \in PathsOfScene(r.config, name)}
    BY <1>1 DEF WritesOfScene
  <1>7. \A a \in DOMAIN ArtifactDirs : PlannedContent(r, ArtifactPath(ArtifactDirs[a], name)) = Payload(r)
    BY DirectoryAssumption DEF PlannedContent, ArtifactPath
  <1>8. PlannedContent(r, FrameDirPath(name)) = Directory
    BY DEF PlannedContent, FrameDirPath
  <1>9. \A f \in 1 .. n : PlannedContent(r, FramePath(name, f)) = Payload(r)
    BY DEF PlannedContent, FramePath
  <1>10. \A t : PlannedContent(r, TargetPath(name, t)) = Payload(r)
    BY DEF PlannedContent, TargetPath
  <1>. HIDE DEF A, D, F, T
  <1>11. A \in Seq(W) /\ ToSet(A) = {Wr(ArtifactPath(ArtifactDirs[a], name), Payload(r)) : a \in DOMAIN ArtifactDirs}
    <2>1. PICK m \in Nat : DOMAIN ArtifactDirs = 1 .. m
      BY DirectoryAssumption
    <2>2. \A a \in 1 .. m : Wr(ArtifactPath(ArtifactDirs[a], name), Payload(r)) \in W
      BY <1>5, <1>6, <1>7, <2>1
    <2>3. A \in [1 .. m -> W]
      BY <2>1, <2>2 DEF A
    <2>. QED  BY <2>1, <2>3 DEF A, ToSet
  <1>12. D \in Seq(W) /\ ToSet(D) = {Wr(FrameDirPath(name), Directory)}
    <2>1. Wr(FrameDirPath(name), Directory) \in W
      BY <1>5, <1>6, <1>8
    <2>. QED  BY <2>1 DEF D, ToSet
  <1>13. F \in Seq(W) /\ ToSet(F) = {Wr(FramePath(name, f), Payload(r)) : f \in 1 .. n}
    <2>1. \A f \in 1 .. n : Wr(FramePath(name, f), Payload(r)) \in W
      BY <1>5, <1>6, <1>9
    <2>2. F \in [1 .. n -> W]
      BY <2>1 DEF F
    <2>. QED  BY <2>2 DEF F, ToSet
  <1>14. T \in Seq(W) /\ ToSet(T) = {Wr(TargetPath(name, t), Payload(r)) : t \in ToSet(tasks)}
    <2>1. PICK m \in Nat : DOMAIN tasks = 1 .. m
      BY <1>4
    <2>2. \A t \in 1 .. m : tasks[t] \in ToSet(tasks)
      BY <2>1 DEF ToSet
    <2>3. \A t \in 1 .. m : Wr(TargetPath(name, tasks[t]), Payload(r)) \in W
      BY <1>4, <1>5, <1>6, <1>10, <2>2
    <2>4. T \in [1 .. m -> W]
      BY <2>1, <2>3 DEF T
    <2>. QED  BY <2>1, <2>4 DEF T, ToSet
  <1>15. W = ToSet(A) \union ToSet(D) \union ToSet(F) \union ToSet(T)
    BY <1>4, <1>5, <1>6, <1>7, <1>8, <1>9, <1>10, <1>11, <1>12, <1>13, <1>14
  <1>16. DOMAIN A = DOMAIN ArtifactDirs /\ \A a \in DOMAIN A : A[a].path[1] = ArtifactDirs[a]
    BY DEF A, Wr, ArtifactPath
  <1>17. Len(D) = 1 /\ Len(F) = n /\ \A w \in ToSet(D) \union ToSet(F) : w.path[1] = "video_frames"
    <2>1. Len(D) = 1 /\ Len(F) = n
      BY DEF D, F
    <2>. QED  BY <1>12, <1>13, <2>1 DEF Wr, FrameDirPath, FramePath
  <1>18. /\ Len(T) = Cardinality(ExpectedTaskIds(ShapeCount[r.config]))
         /\ \A w \in ToSet(T) : w.path[1] = "targets"
    <2>1. PICK m \in Nat : m = Cardinality(ExpectedTaskIds(ShapeCount[r.config])) /\ DOMAIN tasks = 1 .. m
      BY <1>1, RequestFacts, TasksFinite, SetToSeqLists
    <2>2. Len(T) = m
      BY <2>1 DEF T
    <2>. QED  BY <1>14, <2>1, <2>2 DEF Wr, TargetPath
  <1>19. Parts(r, i, A, D, F, T)
    BY <1>1, <1>2, <1>3, <1>11, <1>12, <1>13, <1>14, <1>15, <1>16, <1>17, <1>18 DEF Parts
  <1>. QED  BY <1>19, Zenon

(* The writes of a scene are those of its paths, each as planned.          *)
LEMMA SceneWritesPlanned ==
    ASSUME NEW r \in Requests, NEW i
    PROVE  /\ SceneWrites(r, i) \in Seq(WritesOfScene(r, i))
           /\ ToSet(SceneWrites(r, i)) = WritesOfScene(r, i)
  <1>. DEFINE W == WritesOfScene(r, i)
  <1>1. PICK A, D, F, T : Parts(r, i, A, D, F, T)
    BY SceneParts, Zenon
  <1>2. /\ A \in Seq(W) /\ D \in Seq(W) /\ F \in Seq(W) /\ T \in Seq(W)
        /\ SceneWrites(r, i) = ((A \o D) \o F) \o T
        /\ W = ToSet(A) \union ToSet(D) \union ToSet(F) \union ToSet(T)
    BY <1>1, Zenon DEF Parts
  <1>. HIDE DEF W
  <1>3. PICK U : U = A \o D
    OBVIOUS
  <1>4. U \in Seq(W) /\ ToSet(U) = ToSet(A) \union ToSet(D)
    BY <1>2, <1>3, ConcatSet
  <1>5. PICK V : V = U \o F
    OBVIOUS
  <1>6. V \in Seq(W) /\ ToSet(V) = ToSet(U) \union ToSet(F)
    BY <1>2, <1>4, <1>5, ConcatSet
  <1>7. V \o T \in Seq(W) /\ ToSet(V \o T) = ToSet(V) \union ToSet(T)
    BY <1>2, <1>6, ConcatSet
  <1>8. SceneWrites(r, i) \in Seq(W) /\ ToSet(SceneWrites(r, i)) = W
    BY <1>2, <1>3, <1>4, <1>5, <1>6, <1>7
  <1>. QED  BY <1>8 DEF W

(* The scenes' writes are those of the scenes asked for.                   *)
LEMMA SceneFilesPlanned ==
    ASSUME NEW r \in Requests
    PROVE  LET W == UNION {WritesOfScene(r, i) : i \in SceneIndices(r.scenes)}
           IN  SceneFiles(r) \in Seq(W) /\ ToSet(SceneFiles(r)) = W
  <1>1. PICK n \in Nat \ {0} : n = r.scenes
    BY RequestFacts
  <1>2. PICK W : W = UNION {WritesOfScene(r, i) : i \in SceneIndices(r.scenes)}
    OBVIOUS
  <1>. DEFINE ss == [m \in 1 .. n |-> SceneWrites(r, m - 1)]
  <1>3. \A m \in 1 .. n : SceneWrites(r, m - 1) \in Seq(W)
    <2>. TAKE m \in 1 .. n
    <2>1. WritesOfScene(r, m - 1) \subseteq W
      BY <1>1, <1>2 DEF SceneIndices
    <2>2. SceneWrites(r, m - 1) \in Seq(WritesOfScene(r, m - 1))
      BY SceneWritesPlanned
    <2>. QED  BY <2>1, <2>2, SeqMonotonic
  <1>4. ss \in Seq(Seq(W)) /\ DOMAIN ss = 1 .. n
    BY <1>3
  <1>5. SceneFiles(r) = FlattenSeq(ss)
    BY <1>1 DEF SceneFiles
  <1>6. SceneFiles(r) \in Seq(W) /\ \A m \in 1 .. n : ToSet(ss[m]) \subseteq ToSet(SceneFiles(r))
    <2>. HIDE DEF ss
    <2>. QED  BY <1>4, <1>5, FlattenMembers
  <1>7. \A m \in 1 .. n : WritesOfScene(r, m - 1) \subseteq ToSet(SceneFiles(r))
    BY <1>6, SceneWritesPlanned
  <1>8. \A i \in SceneIndices(r.scenes) : WritesOfScene(r, i) \subseteq ToSet(SceneFiles(r))
    <2>. TAKE i \in SceneIndices(r.scenes)
    <2>1. i + 1 \in 1 .. n /\ (i + 1) - 1 = i
      BY <1>1 DEF SceneIndices
    <2>2. WritesOfScene(r, (i + 1) - 1) \subseteq ToSet(SceneFiles(r))
      BY <1>7, <2>1
    <2>. QED  BY <2>1, <2>2
  <1>9. ToSet(SceneFiles(r)) \subseteq W
    BY <1>6 DEF ToSet
  <1>. QED  BY <1>2, <1>6, <1>8, <1>9

(* A run writes each path it plans to, and what it plans to.               *)
LEMMA PlanWrites ==
    ASSUME NEW r \in Requests
    PROVE  /\ Plan[r] \in Seq(PlannedWrites(r)) /\ ToSet(Plan[r]) = PlannedWrites(r)
           /\ Plan[r] = MetadataWrites(r) \o SceneFiles(r)
                        \o <<Wr(MetadataPath("materialization"), MaterializationRecord(r, SceneFiles(r)))>>
  <1>1. PICK M, S, E, W : /\ M = MetadataWrites(r) /\ S = SceneFiles(r)
                          /\ E = <<Wr(MetadataPath("materialization"), MaterializationRecord(r, SceneFiles(r)))>>
                          /\ W = PlannedWrites(r)
    OBVIOUS
  <1>2. Plan[r] = M \o S \o E
    BY <1>1 DEF Plan, WritePlan, SceneFiles
  <1>3. \A f \in MetadataFiles : Wr(MetadataPath(f), PlannedContent(r, MetadataPath(f))) \in W
    BY <1>1 DEF PlannedWrites, RequestPaths
  <1>4. /\ PlannedContent(r, MetadataPath("config")) = r.config
        /\ PlannedContent(r, MetadataPath("site_graph")) = r.config
        /\ PlannedContent(r, MetadataPath("site_metadata")) = r.config
        /\ PlannedContent(r, MetadataPath("split_assignments"))
              = SplitRecord(r.config, BuildSplitAssignments(r.scenes))
        /\ PlannedContent(r, MetadataPath("materialization")) = MaterializationRecord(r, SceneFiles(r))
    BY DEF PlannedContent, MetadataPath
  <1>5. M \in Seq(W) /\ ToSet(M) = {Wr(MetadataPath(f), PlannedContent(r, MetadataPath(f))) :
                                       f \in MetadataFiles \ {"materialization"}}
    <2>1. PICK w1, w2, w3, w4 :
              /\ w1 = Wr(MetadataPath("config"), r.config)
              /\ w2 = Wr(MetadataPath("site_graph"), r.config)
              /\ w3 = Wr(MetadataPath("site_metadata"), r.config)
              /\ w4 = Wr(MetadataPath("split_assignments"),
                         SplitRecord(r.config, BuildSplitAssignments(r.scenes)))
      OBVIOUS
    <2>2. M = <<w1, w2, w3, w4>>
      BY <1>1, <2>1 DEF MetadataWrites
    <2>3. {w1, w2, w3, w4} \subseteq W
      BY <1>3, <1>4, <2>1 DEF MetadataFiles
    <2>4. {w1, w2, w3, w4} = {Wr(MetadataPath(f), PlannedContent(r, MetadataPath(f))) :
                                 f \in MetadataFiles \ {"materialization"}}
      BY <1>4, <2>1 DEF MetadataFiles
    <2>5. M \in Seq(W) /\ ToSet(M) = {w1, w2, w3, w4}
      BY <2>2, <2>3 DEF ToSet
    <2>. QED  BY <2>4, <2>5
  <1>6. E \in Seq(W) /\ ToSet(E) = {Wr(MetadataPath("materialization"),
                                       PlannedContent(r, MetadataPath("materialization")))}
    <2>1. Wr(MetadataPath("materialization"), PlannedContent(r, MetadataPath("materialization"))) \in W
      BY <1>3 DEF MetadataFiles
    <2>. QED  BY <1>1, <1>4, <2>1 DEF ToSet
  <1>7. PICK V : V = UNION {WritesOfScene(r, i) : i \in SceneIndices(r.scenes)}
    OBVIOUS
  <1>8. S \in Seq(V) /\ ToSet(S) = V
    BY <1>1, <1>7, SceneFilesPlanned
  <1>9. V \subseteq W
    BY <1>1, <1>7 DEF WritesOfScene, PlannedWrites, RequestPaths
  <1>10. S \in Seq(W)
    BY <1>8, <1>9, SeqMonotonic
  <1>11. PICK U : U = M \o S
    OBVIOUS
  <1>12. U \in Seq(W) /\ ToSet(U) = ToSet(M) \union ToSet(S)
    BY <1>5, <1>10, <1>11, ConcatSet
  <1>13. U \o E \in Seq(W) /\ ToSet(U \o E) = ToSet(U) \union ToSet(E)
    BY <1>6, <1>12, ConcatSet
  <1>14. W = ToSet(M) \union V \union ToSet(E)
    <2>1. W = {Wr(MetadataPath(f), PlannedContent(r, MetadataPath(f))) : f \in MetadataFiles}
              \union {Wr(p, PlannedContent(r, p)) :
                         p \in UNION {PathsOfScene(r.config, CanonicalName(i)) : i \in SceneIndices(r.scenes)}}
      BY <1>1 DEF PlannedWrites, RequestPaths
    <2>2. V = {Wr(p, PlannedContent(r, p)) :
                  p \in UNION {PathsOfScene(r.config, CanonicalName(i)) : i \in SceneIndices(r.scenes)}}
      BY <1>7 DEF WritesOfScene
    <2>3. {Wr(MetadataPath(f), PlannedContent(r, MetadataPath(f))) : f \in MetadataFiles}
              = ToSet(M) \union ToSet(E)
      BY <1>5, <1>6 DEF MetadataFiles
    <2>. QED  BY <2>1, <2>2, <2>3
  <1>. QED  BY <1>1, <1>2, <1>8, <1>11, <1>12, <1>13, <1>14

LEMMA PlanFacts ==
    ASSUME NEW r \in Requests
    PROVE  /\ Len(Plan[r]) \in Nat /\ DOMAIN Plan[r] = 1 .. Len(Plan[r])
           /\ \A w \in DOMAIN Plan[r] : /\ Plan[r][w].path \in RequestPaths(r)
                                        /\ Plan[r][w].content = PlannedContent(r, Plan[r][w].path)
           /\ \A p \in RequestPaths(r) : \E w \in DOMAIN Plan[r] : Plan[r][w].path = p
  <1>1. PICK s : s = Plan[r]
    OBVIOUS
  <1>2. s \in Seq(PlannedWrites(r)) /\ ToSet(s) = PlannedWrites(r)
    BY <1>1, PlanWrites
  <1>3. Len(s) \in Nat /\ DOMAIN s = 1 .. Len(s)
    BY <1>2
  <1>4. ASSUME NEW w \in DOMAIN s
        PROVE  s[w].path \in RequestPaths(r) /\ s[w].content = PlannedContent(r, s[w].path)
    <2>1. PICK p \in RequestPaths(r) : s[w] = Wr(p, PlannedContent(r, p))
      BY <1>2 DEF ToSet, PlannedWrites
    <2>2. s[w].path = p /\ s[w].content = PlannedContent(r, p)
      BY <2>1 DEF Wr
    <2>. QED  BY <2>2
  <1>5. ASSUME NEW p \in RequestPaths(r)
        PROVE  \E w \in DOMAIN s : s[w].path = p
    <2>1. PICK w \in DOMAIN s : s[w] = Wr(p, PlannedContent(r, p))
      BY <1>2 DEF ToSet, PlannedWrites
    <2>2. s[w].path = p
      BY <2>1 DEF Wr
    <2>. QED  BY <2>2
  <1>. QED  BY <1>1, <1>3, <1>4, <1>5

LEMMA RequestPathsAreFiles ==
    ASSUME NEW r \in Requests
    PROVE  RequestPaths(r) \subseteq Paths
  <1>1. \A i \in SceneIndices(r.scenes) : i \in AllScenes
    BY DEF AllScenes, Requests
  <1>2. r.config \in Configs
    BY RequestFacts
  <1>. QED  BY <1>1, <1>2 DEF RequestPaths, Paths, ArtifactPaths

(* What one undisturbed run leaves. *)
LEMMA FreshFiles ==
    ASSUME NEW r \in Requests
    PROVE  /\ WrittenPaths(r) = RequestPaths(r)
           /\ FreshStore(r) = [p \in Paths |-> IF p \in RequestPaths(r) THEN PlannedContent(r, p) ELSE Absent]
  <1>1. WrittenPaths(r) = RequestPaths(r)
    BY PlanFacts DEF WrittenPaths
  <1>2. ASSUME NEW p \in RequestPaths(r)
        PROVE  Plan[r][CHOOSE w \in DOMAIN Plan[r] : Plan[r][w].path = p].content = PlannedContent(r, p)
    <2>1. \E w \in DOMAIN Plan[r] : Plan[r][w].path = p
      BY PlanFacts
    <2>2. PICK c : c = CHOOSE w \in DOMAIN Plan[r] : Plan[r][w].path = p
      OBVIOUS
    <2>3. c \in DOMAIN Plan[r] /\ Plan[r][c].path = p
      BY <2>1, <2>2
    <2>4. Plan[r][c].content = PlannedContent(r, p)
      BY <2>3, PlanFacts
    <2>. QED  BY <2>2, <2>4
  <1>3. PICK F : F = FreshStore(r)
    OBVIOUS
  <1>4. F = [p \in Paths |-> F[p]]
    BY <1>3 DEF FreshStore
  <1>5. ASSUME NEW p \in Paths
        PROVE  F[p] = IF p \in RequestPaths(r) THEN PlannedContent(r, p) ELSE Absent
    <2>1. F[p] = IF p \in WrittenPaths(r)
                 THEN Plan[r][CHOOSE w \in DOMAIN Plan[r] : Plan[r][w].path = p].content ELSE Absent
      BY <1>3 DEF FreshStore
    <2>. QED  BY <1>1, <1>2, <2>1
  <1>. QED  BY <1>1, <1>3, <1>4, <1>5

(* The plan begins with the four files written first and ends with the     *)
(* record; the scenes' files are between them.                             *)
LEMMA PlanEnds ==
    ASSUME NEW r \in Requests
    PROVE  /\ Len(Plan[r]) >= 5
           /\ \A w \in 1 .. 4 \cup {Len(Plan[r])} : Plan[r][w].path[1] = "metadata"
  <1>1. PICK M, S, E, V : /\ M = MetadataWrites(r) /\ S = SceneFiles(r)
                          /\ E = <<Wr(MetadataPath("materialization"), MaterializationRecord(r, SceneFiles(r)))>>
                          /\ V = PlannedWrites(r) \union ToSet(M) \union ToSet(E)
    OBVIOUS
  <1>2. PICK U : U = M \o S
    OBVIOUS
  <1>3. Plan[r] = U \o E
    BY <1>1, <1>2, PlanWrites
  <1>4. S \in Seq(V)
    <2>1. UNION {WritesOfScene(r, i) : i \in SceneIndices(r.scenes)} \subseteq V
      BY <1>1 DEF WritesOfScene, PlannedWrites, RequestPaths
    <2>2. PICK X : X = UNION {WritesOfScene(r, i) : i \in SceneIndices(r.scenes)}
      OBVIOUS
    <2>3. S \in Seq(X) /\ X \subseteq V
      BY <1>1, <2>1, <2>2, SceneFilesPlanned
    <2>. QED  BY <2>3, SeqMonotonic
  <1>5. M \in Seq(V) /\ Len(M) = 4 /\ \A w \in 1 .. 4 : M[w].path[1] = "metadata"
    <2>1. M = <<Wr(MetadataPath("config"), r.config),
                Wr(MetadataPath("site_graph"), r.config),
                Wr(MetadataPath("site_metadata"), r.config),
                Wr(MetadataPath("split_assignments"),
                   SplitRecord(r.config, BuildSplitAssignments(r.scenes)))>>
      BY <1>1 DEF MetadataWrites
    <2>2. Len(M) = 4 /\ DOMAIN M = 1 .. 4
      BY <2>1
    <2>3. \A w \in 1 .. 4 : M[w].path[1] = "metadata"
      BY <2>1 DEF Wr, MetadataPath
    <2>4. \A w \in 1 .. 4 : M[w] \in V
      BY <1>1, <2>2 DEF ToSet
    <2>5. M \in Seq(ToSet(M))
      BY <2>1, <2>2 DEF ToSet
    <2>6. M \in Seq(V)
      BY <1>1, <2>5, SeqMonotonic
    <2>. QED  BY <2>2, <2>3, <2>6
  <1>6. E \in Seq(V) /\ Len(E) = 1 /\ E[1].path[1] = "metadata"
    BY <1>1 DEF Wr, MetadataPath, ToSet
  <1>7. PICK n \in Nat : n = Len(S)
    BY <1>4
  <1>8. /\ U \in Seq(V) /\ Len(U) = 4 + n
        /\ \A k \in 1 .. 4 : U[k] = M[k]
    <2>1. M \in Seq(V) /\ S \in Seq(V)
      BY <1>4, <1>5
    <2>2. /\ M \o S \in Seq(V) /\ Len(M \o S) = Len(M) + Len(S)
          /\ \A k \in 1 .. Len(M) : (M \o S)[k] = M[k]
      BY <2>1, ConcatMembers
    <2>. QED  BY <1>2, <1>5, <1>7, <2>2
  <1>9. /\ Len(Plan[r]) = Len(U) + Len(E)
        /\ \A k \in 1 .. Len(U) : Plan[r][k] = U[k]
        /\ \A k \in 1 .. Len(E) : Plan[r][Len(U) + k] = E[k]
    <2>1. U \in Seq(V) /\ E \in Seq(V)
      BY <1>6, <1>8
    <2>2. /\ Len(U \o E) = Len(U) + Len(E)
          /\ \A k \in 1 .. Len(U) : (U \o E)[k] = U[k]
          /\ \A k \in 1 .. Len(E) : (U \o E)[Len(U) + k] = E[k]
      BY <2>1, ConcatMembers
    <2>. QED  BY <1>3, <2>2
  <1>10. PICK P : P = Plan[r]
    OBVIOUS
  <1>11. Len(P) = 5 + n /\ P[5 + n] = E[1]
    BY <1>6, <1>7, <1>8, <1>9, <1>10
  <1>12. \A w \in 1 .. 4 : P[w] = M[w]
    BY <1>7, <1>8, <1>9, <1>10
  <1>13. \A w \in 1 .. 4 : P[w].path[1] = "metadata"
    BY <1>5, <1>12
  <1>14. P[Len(P)].path[1] = "metadata"
    BY <1>6, <1>11
  <1>15. Len(P) >= 5
    BY <1>7, <1>11
  <1>. QED  BY <1>10, <1>13, <1>14, <1>15

-------------------------------------------------------------------------------
(* What is known of the directory at any time: every file in it is one a   *)
(* run of some request wrote there, whole or cut off; the run under way    *)
(* passed what it has passed; and the run that ended wrote all its files.  *)

FileKnown(p) ==
    \/ store[p] = Absent
    \/ \E r \in Requests :
         /\ p \in RequestPaths(r)
         /\ \/ store[p] = PlannedContent(r, p)
            \/ store[p] = Torn /\ PlannedContent(r, p) # Directory

FileWritten(r, w) == store[Plan[r][w].path] = Plan[r][w].content

BuiltUpTo(r, n) ==
    \A w \in 5 .. Len(Plan[r]) - 1 :
        w < n /\ Plan[r][w].path[1] = "targets" => <<r.config, Plan[r][w].path[3]>> \notin Unbuildable

JobKnown ==
    /\ job = [tool |-> job.tool, request |-> job.request, next |-> job.next]
    /\ finished = None
    /\ job.tool \in {"command", "python"} /\ job.request \in Requests
    /\ job.next \in 1 .. Len(Plan[job.request]) + 1
    /\ job.next > 2 => job.request.config \in ValidSites
    /\ job.tool = "command" /\ job.next > 5 => UnbuildableScenes(job.request) = {}
    /\ job.tool = "python" => BuiltUpTo(job.request, job.next)
    /\ \A w \in Earlier(job.next) : FileWritten(job.request, w)

FinishedKnown ==
    /\ finished \in Requests
    /\ finished.config \in ValidSites
    /\ UnbuildableScenes(finished) = {}
    /\ \A w \in DOMAIN Plan[finished] : FileWritten(finished, w)

DirectoryKnown ==
    /\ store = [p \in Paths |-> store[p]]
    /\ \A p \in Paths : FileKnown(p)
    /\ job # None => JobKnown
    /\ job = None /\ finished # None => FinishedKnown

LEMMA KnownAtFirst == StoreInit => DirectoryKnown
  BY DEF StoreInit, DirectoryKnown, FileKnown

LEMMA KnownWhenStarted ==
    ASSUME DirectoryKnown, NEW j \in Jobs, StartGenerate(j[1], j[2])
    PROVE  DirectoryKnown'
  <1>1. j[1] \in {"command", "python"} /\ j[2] \in Requests
    BY JobAssumption
  <1>2. /\ store' = store /\ finished' = None
        /\ job' = [tool |-> j[1], request |-> j[2], next |-> 1]
    BY DEF StartGenerate
  <1>3. Len(Plan[j[2]]) \in Nat
    BY <1>1, PlanFacts
  <1>4. JobKnown'
    BY <1>1, <1>2, <1>3 DEF JobKnown, Earlier, BuiltUpTo
  <1>. QED  BY <1>2, <1>4 DEF DirectoryKnown, FileKnown

(* A write leaves every file it has written before as it was, or writes    *)
(* the same again.                                                         *)
LEMMA KnownWhenWritten ==
    ASSUME DirectoryKnown, WriteFile
    PROVE  DirectoryKnown'
  <1>1. PICK r, n, t : r = job.request /\ n = job.next /\ t = job.tool
    OBVIOUS
  <1>2. /\ job # None /\ finished = None /\ job = [tool |-> t, request |-> r, next |-> n]
        /\ t \in {"command", "python"} /\ r \in Requests
        /\ n \in 1 .. Len(Plan[r]) + 1 /\ n <= Len(Plan[r])
        /\ n > 2 => r.config \in ValidSites
        /\ t = "command" /\ n > 5 => UnbuildableScenes(r) = {}
        /\ t = "python" => BuiltUpTo(r, n)
        /\ \A w \in Earlier(n) : FileWritten(r, w)
    BY <1>1 DEF DirectoryKnown, JobKnown, WriteFile
  <1>3. Len(Plan[r]) \in Nat /\ DOMAIN Plan[r] = 1 .. Len(Plan[r]) /\ n \in DOMAIN Plan[r]
    BY <1>2, PlanFacts
  <1>4. PICK p, c : p = Plan[r][n].path /\ c = Plan[r][n].content
    OBVIOUS
  <1>5. p \in RequestPaths(r) /\ p \in Paths /\ c = PlannedContent(r, p)
    BY <1>2, <1>3, <1>4, PlanFacts, RequestPathsAreFiles
  <1>6. /\ store' = [store EXCEPT ![p] = c]
        /\ job' = [job EXCEPT !.next = @ + 1] /\ finished' = finished
    BY <1>1, <1>4 DEF WriteFile, NextWrite
  <1>7. job' = [tool |-> t, request |-> r, next |-> n + 1]
    BY <1>2, <1>6
  <1>8. /\ store' = [q \in Paths |-> store'[q]]
        /\ \A q \in Paths : store'[q] = IF q = p THEN c ELSE store[q]
    BY <1>6 DEF DirectoryKnown
  <1>9. \A q \in Paths : FileKnown(q)'
    <2>. TAKE q \in Paths
    <2>1. CASE q = p
      BY <1>2, <1>5, <1>8, <2>1 DEF FileKnown
    <2>2. CASE q # p
      BY <1>8, <2>2 DEF DirectoryKnown, FileKnown
    <2>. QED  BY <2>1, <2>2
  <1>10. \A w \in Earlier(n + 1) : FileWritten(r, w)'
    <2>. TAKE w \in Earlier(n + 1)
    <2>1. w \in DOMAIN Plan[r] /\ (w = n \/ w \in Earlier(n))
      BY <1>2, <1>3 DEF Earlier
    <2>2. PICK q, d : q = Plan[r][w].path /\ d = Plan[r][w].content
      OBVIOUS
    <2>3. q \in Paths /\ d = PlannedContent(r, q)
      BY <1>2, <2>1, <2>2, PlanFacts, RequestPathsAreFiles
    <2>4. CASE q = p
      BY <1>5, <1>8, <2>2, <2>3, <2>4 DEF FileWritten
    <2>5. CASE q # p
      BY <1>2, <1>4, <1>8, <2>1, <2>2, <2>3, <2>5 DEF FileWritten
    <2>. QED  BY <2>4, <2>5
  <1>11. n + 1 > 2 => r.config \in ValidSites
    BY <1>1, <1>2 DEF WriteFile, CannotGoOn, SiteFails
  <1>12. t = "command" /\ n + 1 > 5 => UnbuildableScenes(r) = {}
    BY <1>1, <1>2 DEF WriteFile, CannotGoOn, CommandFails
  <1>13. t = "python" => BuiltUpTo(r, n + 1)
    <2>. SUFFICES ASSUME t = "python", NEW w \in 5 .. Len(Plan[r]) - 1, w < n + 1,
                         Plan[r][w].path[1] = "targets"
                  PROVE  <<r.config, Plan[r][w].path[3]>> \notin Unbuildable
      BY DEF BuiltUpTo
    <2>1. CASE w < n
      BY <1>2, <2>1 DEF BuiltUpTo
    <2>2. CASE w = n
      BY <1>1, <2>2 DEF WriteFile, CannotGoOn, PythonFails, PythonMayFail, NextWrite
    <2>. QED  BY <1>2, <2>1, <2>2
  <1>14. JobKnown'
    <2>1. n + 1 \in 1 .. Len(Plan[r]) + 1
      BY <1>2, <1>3
    <2>. QED  BY <1>2, <1>6, <1>7, <1>10, <1>11, <1>12, <1>13, <2>1 DEF JobKnown
  <1>. QED  BY <1>2, <1>6, <1>8, <1>9, <1>14 DEF DirectoryKnown

(* A run that ends has passed every point where it can fail, and its       *)
(* targets are of every scene.                                             *)
LEMMA KnownWhenFinished ==
    ASSUME DirectoryKnown, GenerateFinishes
    PROVE  DirectoryKnown'
  <1>1. PICK r, n, t : r = job.request /\ n = job.next /\ t = job.tool
    OBVIOUS
  <1>2. /\ t \in {"command", "python"} /\ r \in Requests
        /\ n = Len(Plan[r]) + 1
        /\ n > 2 => r.config \in ValidSites
        /\ t = "command" /\ n > 5 => UnbuildableScenes(r) = {}
        /\ t = "python" => BuiltUpTo(r, n)
        /\ \A w \in Earlier(n) : FileWritten(r, w)
    BY <1>1 DEF DirectoryKnown, JobKnown, GenerateFinishes
  <1>3. Len(Plan[r]) \in Nat /\ DOMAIN Plan[r] = 1 .. Len(Plan[r]) /\ Len(Plan[r]) >= 5
    BY <1>2, PlanFacts, PlanEnds
  <1>4. store' = store /\ finished' = r /\ job' = None
    BY <1>1 DEF GenerateFinishes
  <1>5. \A w \in DOMAIN Plan[r] : FileWritten(r, w)
    BY <1>2, <1>3 DEF Earlier
  <1>6. UnbuildableScenes(r) = {}
    <2>1. CASE t = "command"
      BY <1>2, <1>3, <2>1
    <2>2. CASE t = "python"
      <3>. SUFFICES ASSUME NEW i \in SceneIndices(r.scenes), <<r.config, i>> \in Unbuildable PROVE FALSE
        BY DEF UnbuildableScenes
      <3>1. PICK p : p = TargetPath(CanonicalName(i), <<"lme", 0>>)
        OBVIOUS
      <3>2. p \in RequestPaths(r)
        BY <3>1 DEF RequestPaths, PathsOfScene, ExpectedTaskIds
      <3>3. p[1] = "targets" /\ p[3] = i
        BY <3>1 DEF TargetPath, CanonicalName
      <3>4. PICK w \in DOMAIN Plan[r] : Plan[r][w].path = p
        BY <1>2, <3>2, PlanFacts
      <3>5. w \notin 1 .. 4 \cup {Len(Plan[r])}
        BY <1>2, <3>3, <3>4, PlanEnds
      <3>6. w \in 5 .. Len(Plan[r]) - 1 /\ w < n
        BY <1>2, <1>3, <3>5
      <3>. QED  BY <1>2, <2>2, <3>3, <3>4, <3>6 DEF BuiltUpTo
    <2>. QED  BY <1>2, <2>1, <2>2
  <1>7. FinishedKnown'
    BY <1>2, <1>3, <1>4, <1>5, <1>6 DEF FinishedKnown, FileWritten
  <1>. QED  BY <1>4, <1>7 DEF DirectoryKnown, FileKnown

(* A file that is being written may be cut off; a directory never is.      *)
LEMMA KnownWhenStopped ==
    ASSUME DirectoryKnown, GenerateStops
    PROVE  DirectoryKnown'
  <1>1. PICK r, n : r = job.request /\ n = job.next
    OBVIOUS
  <1>2. job # None /\ finished = None /\ r \in Requests /\ n \in 1 .. Len(Plan[r])
    BY <1>1 DEF DirectoryKnown, JobKnown, GenerateStops
  <1>3. PICK p, c : p = Plan[r][n].path /\ c = Plan[r][n].content
    OBVIOUS
  <1>4. p \in RequestPaths(r) /\ c = PlannedContent(r, p)
    BY <1>2, <1>3, PlanFacts
  <1>5. /\ job' = None /\ finished' = None
        /\ store' = store \/ (c # Directory /\ store' = [store EXCEPT ![p] = Torn])
    BY <1>1, <1>2, <1>3 DEF GenerateStops, NextWrite
  <1>6. store' = [q \in Paths |-> store'[q]] /\ \A q \in Paths : FileKnown(q)'
    <2>1. CASE store' = store
      BY <2>1 DEF DirectoryKnown, FileKnown
    <2>2. CASE c # Directory /\ store' = [store EXCEPT ![p] = Torn]
      <3>1. /\ store' = [q \in Paths |-> store'[q]]
            /\ \A q \in Paths : store'[q] = IF q = p THEN Torn ELSE store[q]
        BY <2>2 DEF DirectoryKnown
      <3>2. \A q \in Paths : FileKnown(q)'
        <4>. TAKE q \in Paths
        <4>1. CASE q = p
          BY <1>2, <1>4, <2>2, <3>1, <4>1 DEF FileKnown
        <4>2. CASE q # p
          BY <3>1, <4>2 DEF DirectoryKnown, FileKnown
        <4>. QED  BY <4>1, <4>2
      <3>. QED  BY <3>1, <3>2
    <2>. QED  BY <1>5, <2>1, <2>2
  <1>. QED  BY <1>5, <1>6 DEF DirectoryKnown

LEMMA DirectoryStepKnown == DirectoryKnown /\ [Next]_vars => DirectoryKnown'
  <1>. SUFFICES ASSUME DirectoryKnown, [Next]_vars PROVE DirectoryKnown'
    OBVIOUS
  <1>1. ASSUME UNCHANGED <<store, job, finished>>
        PROVE  DirectoryKnown'
    BY <1>1 DEF DirectoryKnown, FileKnown, JobKnown, FinishedKnown, FileWritten
  <1>2. CASE \E j \in Jobs : StartGenerate(j[1], j[2])
    BY <1>2, KnownWhenStarted
  <1>3. CASE WriteFile
    BY <1>3, KnownWhenWritten
  <1>4. CASE GenerateFails
    <2>1. job' = None /\ finished' = None /\ store' = store
      BY <1>4 DEF GenerateFails, DirectoryKnown, JobKnown
    <2>. QED  BY <2>1 DEF DirectoryKnown, FileKnown
  <1>5. CASE GenerateFinishes
    BY <1>5, KnownWhenFinished
  <1>6. CASE GenerateStops
    BY <1>6, KnownWhenStopped
  <1>7. CASE ExportNext
    BY <1>1, <1>7 DEF ExportNext, ExportSplit, ExportStops
  <1>8. CASE UNCHANGED vars
    BY <1>1, <1>8 DEF vars
  <1>. QED  BY <1>2, <1>3, <1>4, <1>5, <1>6, <1>7, <1>8 DEF Next, StoreNext

LEMMA DirectoryIsKnown == Spec => []DirectoryKnown
  <1>1. Init => DirectoryKnown
    BY KnownAtFirst DEF Init
  <1>. QED  BY <1>1, DirectoryStepKnown, PTL DEF Spec

-------------------------------------------------------------------------------
(* Acceptance is the five checks. *)
LEMMA AcceptedMeans ==
    ASSUME NEW r
    PROVE  Accepted(r) <=> /\ GeneratedSplitAssignmentsOK(r)
                           /\ GeneratedSiteMetadataOK(r)
                           /\ GeneratedSiteGraphOK(r)
                           /\ GeneratedConfigOK(r)
                           /\ GeneratedMaterializationOK(r)
  <1>1. PICK checks : checks = GeneratedChecks
    OBVIOUS
  <1>2. checks = <<"split_assignments", "site_metadata", "site_graph", "config", "materialization">>
    BY <1>1 DEF GeneratedChecks
  <1>3. DOMAIN checks = 1 .. 5
    BY <1>2
  <1>4. PICK failed : failed = {n \in DOMAIN checks : checks[n] \in ToSet(checks) /\ ~CheckOK(checks[n], r)}
    OBVIOUS
  <1>5. Accepted(r) <=> (IF failed = {} THEN None ELSE checks[Min(failed)]) = None
    BY <1>1, <1>4 DEF Accepted, FirstFailure
  <1>6. failed # {} => Min(failed) \in failed
    <2>. SUFFICES ASSUME failed # {} PROVE Min(failed) \in failed
      OBVIOUS
    <2>1. failed \subseteq Nat
      BY <1>3, <1>4
    <2>2. \E m \in failed : \A k \in failed : m <= k
      BY <2>1, Least
    <2>. QED  BY <2>2 DEF Min
  <1>7. failed # {} => checks[Min(failed)] # None
    BY <1>1, <1>4, <1>6, CheckAssumption DEF ToSet
  <1>8. failed = {} <=> \A n \in 1 .. 5 : CheckOK(checks[n], r)
    BY <1>3, <1>4 DEF ToSet
  <1>9. (\A n \in 1 .. 5 : CheckOK(checks[n], r)) <=>
            /\ CheckOK("split_assignments", r) /\ CheckOK("site_metadata", r)
            /\ CheckOK("site_graph", r) /\ CheckOK("config", r) /\ CheckOK("materialization", r)
    <2>1. 1 .. 5 = {1, 2, 3, 4, 5}
      OBVIOUS
    <2>. QED  BY <1>2, <2>1
  <1>10. /\ CheckOK("split_assignments", r) <=> GeneratedSplitAssignmentsOK(r)
         /\ CheckOK("site_metadata", r) <=> GeneratedSiteMetadataOK(r)
         /\ CheckOK("site_graph", r) <=> GeneratedSiteGraphOK(r)
         /\ CheckOK("config", r) <=> GeneratedConfigOK(r)
         /\ CheckOK("materialization", r) <=> GeneratedMaterializationOK(r)
    BY DEF CheckOK
  <1>. QED  BY <1>5, <1>7, <1>8, <1>9, <1>10

(* The files of a request, directory by directory. *)
LEMMA PathsByDirectory ==
    ASSUME NEW r \in Requests
    PROVE  /\ \A p : p \in RequestPaths(r) <=>
                \/ \E f \in MetadataFiles : p = MetadataPath(f)
                \/ \E a \in DOMAIN ArtifactDirs : p \in ExpectedArtifactFiles(r, ArtifactDirs[a])
                \/ p \in ExpectedFrameEntries(r)
                \/ p \in ExpectedTargetFiles(r)
           /\ \A f : MetadataPath(f)[1] = "metadata"
           /\ \A d : \A p \in ExpectedArtifactFiles(r, d) : p[1] = d
           /\ \A p \in ExpectedFrameEntries(r) : p[1] = "video_frames"
           /\ \A p \in ExpectedTargetFiles(r) : p[1] = "targets"
  <1>1. PICK I, N, F, T : /\ I = SceneIndices(r.scenes) /\ F = 1 .. FrameCount[r.config]
                          /\ T = ExpectedTaskIds(ShapeCount[r.config])
                          /\ N = {CanonicalName(i) : i \in I}
    OBVIOUS
  <1>2. \A d : ExpectedArtifactFiles(r, d) = {ArtifactPath(d, name) : name \in N}
    BY <1>1 DEF ExpectedArtifactFiles, ExpectedSceneNames
  <1>3. ExpectedFrameEntries(r) = UNION {{FrameDirPath(name)} \cup {FramePath(name, f) : f \in F} : name \in N}
    BY <1>1 DEF ExpectedFrameEntries, ExpectedFrames, ExpectedSceneNames
  <1>4. ExpectedTargetFiles(r) = {TargetPath(name, t) : name \in N, t \in T}
    BY <1>1 DEF ExpectedTargetFiles, ExpectedSceneNames
  <1>5. RequestPaths(r) = {MetadataPath(f) : f \in MetadataFiles}
                          \cup UNION {PathsOfScene(r.config, name) : name \in N}
    BY <1>1 DEF RequestPaths
  <1>6. \A name \in N : PathsOfScene(r.config, name) =
            {ArtifactPath(ArtifactDirs[a], name) : a \in DOMAIN ArtifactDirs}
            \cup {FrameDirPath(name)} \cup {FramePath(name, f) : f \in F}
            \cup {TargetPath(name, t) : t \in T}
    BY <1>1 DEF PathsOfScene
  <1>7. ASSUME NEW p
        PROVE  (\E name \in N : p \in PathsOfScene(r.config, name)) <=>
                   \/ \E a \in DOMAIN ArtifactDirs : p \in ExpectedArtifactFiles(r, ArtifactDirs[a])
                   \/ p \in ExpectedFrameEntries(r)
                   \/ p \in ExpectedTargetFiles(r)
    <2>1. ASSUME NEW name \in N, p \in PathsOfScene(r.config, name)
          PROVE  \/ \E a \in DOMAIN ArtifactDirs : p \in ExpectedArtifactFiles(r, ArtifactDirs[a])
                 \/ p \in ExpectedFrameEntries(r)
                 \/ p \in ExpectedTargetFiles(r)
      <3>1. \/ \E a \in DOMAIN ArtifactDirs : p = ArtifactPath(ArtifactDirs[a], name)
            \/ p = FrameDirPath(name) \/ \E f \in F : p = FramePath(name, f)
            \/ \E t \in T : p = TargetPath(name, t)
        BY <1>6, <2>1
      <3>2. CASE \E a \in DOMAIN ArtifactDirs : p = ArtifactPath(ArtifactDirs[a], name)
        BY <1>2, <3>2
      <3>3. CASE p = FrameDirPath(name) \/ \E f \in F : p = FramePath(name, f)
        BY <1>3, <3>3
      <3>4. CASE \E t \in T : p = TargetPath(name, t)
        BY <1>4, <3>4
      <3>. QED  BY <3>1, <3>2, <3>3, <3>4
    <2>2. ASSUME NEW a \in DOMAIN ArtifactDirs, p \in ExpectedArtifactFiles(r, ArtifactDirs[a])
          PROVE  \E name \in N : p \in PathsOfScene(r.config, name)
      BY <1>2, <1>6, <2>2
    <2>3. ASSUME p \in ExpectedFrameEntries(r)
          PROVE  \E name \in N : p \in PathsOfScene(r.config, name)
      BY <1>3, <1>6, <2>3
    <2>4. ASSUME p \in ExpectedTargetFiles(r)
          PROVE  \E name \in N : p \in PathsOfScene(r.config, name)
      BY <1>4, <1>6, <2>4
    <2>. QED  BY <2>1, <2>2, <2>3, <2>4
  <1>8. \A d : \A p \in ExpectedArtifactFiles(r, d) : p[1] = d
    BY <1>2 DEF ArtifactPath
  <1>9. \A p \in ExpectedFrameEntries(r) : p[1] = "video_frames"
    BY <1>3 DEF FrameDirPath, FramePath
  <1>10. \A p \in ExpectedTargetFiles(r) : p[1] = "targets"
    BY <1>4 DEF TargetPath
  <1>11. \A f : MetadataPath(f)[1] = "metadata"
    BY DEF MetadataPath
  <1>12. \A p : p \in RequestPaths(r) <=>
            (\E f \in MetadataFiles : p = MetadataPath(f)) \/ (\E name \in N : p \in PathsOfScene(r.config, name))
    BY <1>5
  <1>. QED  BY <1>7, <1>8, <1>9, <1>10, <1>11, <1>12

(* A file in a dataset's directories is one of some scene. *)
LEMMA ScenePathsDirectory ==
    ASSUME NEW c, NEW name, NEW p \in PathsOfScene(c, name)
    PROVE  p[1] \in {ArtifactDirs[a] : a \in DOMAIN ArtifactDirs} \cup {"video_frames", "targets"}
  BY DEF PathsOfScene, ArtifactPath, FrameDirPath, FramePath, TargetPath

(* No file of another scene or another configuration is left: the checks   *)
(* of the file sets miss no directory.                                     *)
LEMMA NothingElseIsThere ==
    ASSUME NEW r \in Requests, FileSetsOK(r), NEW p \in Paths, p \notin RequestPaths(r)
    PROVE  store[p] = Absent
  <1>. SUFFICES ASSUME store[p] # Absent PROVE FALSE
    OBVIOUS
  <1>1. p \in ArtifactPaths
    BY PathsByDirectory DEF Paths
  <1>2. PICK c \in Configs, i \in AllScenes : p \in PathsOfScene(c, CanonicalName(i))
    BY <1>1 DEF ArtifactPaths
  <1>3. /\ \A a \in DOMAIN ArtifactDirs : ExpectedArtifactFiles(r, ArtifactDirs[a]) \subseteq RequestPaths(r)
        /\ ExpectedFrameEntries(r) \subseteq RequestPaths(r)
        /\ ExpectedTargetFiles(r) \subseteq RequestPaths(r)
    BY PathsByDirectory
  <1>4. CASE p[1] = "video_frames"
    <2>1. p \in Observed("video_frames")
      BY <1>4 DEF Observed
    <2>. QED  BY <1>3, <2>1 DEF FileSetsOK
  <1>5. CASE p[1] = "targets"
    <2>1. p \in Observed("targets")
      BY <1>5 DEF Observed
    <2>. QED  BY <1>3, <2>1 DEF FileSetsOK
  <1>6. ASSUME NEW a \in DOMAIN ArtifactDirs, p[1] = ArtifactDirs[a]
        PROVE  FALSE
    <2>1. p \in Observed(ArtifactDirs[a])
      BY <1>6 DEF Observed
    <2>. QED  BY <1>3, <2>1 DEF FileSetsOK
  <1>. QED  BY <1>2, <1>4, <1>5, <1>6, ScenePathsDirectory

(* A record that names the request is the record of the request: its       *)
(* counts need no look at the directories.                                 *)
LEMMA RecordIsOfRequest ==
    ASSUME NEW r \in Requests, DirectoryKnown, RecordOK(r)
    PROVE  File("materialization") = MaterializationRecord(r, SceneFiles(r))
  <1>1. PICK p : p = MetadataPath("materialization")
    OBVIOUS
  <1>2. p \in Paths /\ File("materialization") = store[p]
    BY <1>1 DEF Paths, MetadataFiles, File
  <1>3. store[p] \notin {Absent, Torn}
    BY <1>2 DEF RecordOK, Readable
  <1>4. PICK q \in Requests : store[p] = PlannedContent(q, p)
    BY <1>2, <1>3 DEF DirectoryKnown, FileKnown
  <1>5. store[p] = MaterializationRecord(q, SceneFiles(q))
    BY <1>1, <1>4 DEF PlannedContent, MetadataPath
  <1>6. store[p].config = r.config /\ store[p].scenes = r.scenes /\ store[p].samples = r.samples
    BY <1>2 DEF RecordOK
  <1>7. q.config = r.config /\ q.scenes = r.scenes /\ q.samples = r.samples
    BY <1>5, <1>6 DEF MaterializationRecord
  <1>8. q = r
    BY <1>7, RequestFacts
  <1>. QED  BY <1>2, <1>5, <1>8

(* A readable split assignment of the right configuration and with the     *)
(* right assignments and summary has nothing else in it.                   *)
LEMMA SplitIsOfRequest ==
    ASSUME NEW r \in Requests, DirectoryKnown, GeneratedSplitAssignmentsOK(r)
    PROVE  File("split_assignments") = SplitRecord(r.config, BuildSplitAssignments(r.scenes))
  <1>1. PICK p : p = MetadataPath("split_assignments")
    OBVIOUS
  <1>2. p \in Paths /\ File("split_assignments") = store[p]
    BY <1>1 DEF Paths, MetadataFiles, File
  <1>3. store[p] \notin {Absent, Torn}
    BY <1>2 DEF GeneratedSplitAssignmentsOK, Readable
  <1>4. PICK q \in Requests : store[p] = PlannedContent(q, p)
    BY <1>2, <1>3 DEF DirectoryKnown, FileKnown
  <1>5. store[p] = SplitRecord(q.config, BuildSplitAssignments(q.scenes))
    BY <1>1, <1>4 DEF PlannedContent, MetadataPath
  <1>6. PICK e, f : e = BuildSplitAssignments(r.scenes) /\ f = BuildSplitAssignments(q.scenes)
    OBVIOUS
  <1>7. store[p].config = q.config /\ store[p].split = f
    BY <1>5, <1>6 DEF SplitRecord
  <1>8. q.config = r.config /\ f.summary = e.summary /\ f.assignments = e.assignments
    BY <1>2, <1>6, <1>7 DEF GeneratedSplitAssignmentsOK
  <1>9. /\ e = [assignments |-> e.assignments, summary |-> e.summary]
        /\ f = [assignments |-> f.assignments, summary |-> f.summary]
    BY <1>6 DEF BuildSplitAssignments
  <1>10. f = e
    BY <1>8, <1>9
  <1>. QED  BY <1>2, <1>5, <1>6, <1>8, <1>10

(* Every file of the request is as planned. *)
LEMMA AcceptedFilesArePlanned ==
    ASSUME NEW r \in Requests, DirectoryKnown, Accepted(r), NEW p \in RequestPaths(r)
    PROVE  store[p] = PlannedContent(r, p)
  <1>1. /\ GeneratedSplitAssignmentsOK(r) /\ GeneratedSiteMetadataOK(r) /\ GeneratedSiteGraphOK(r)
        /\ GeneratedConfigOK(r) /\ RecordOK(r) /\ FileSetsOK(r)
        /\ TargetPayloadsOK(r) /\ NonTargetPayloadsOK(r)
    BY AcceptedMeans DEF GeneratedMaterializationOK
  <1>2. ASSUME NEW f \in MetadataFiles, p = MetadataPath(f)
        PROVE  store[p] = PlannedContent(r, p)
    <2>1. store[p] = File(f) /\ p[1] = "metadata" /\ p[2] = f
      BY <1>2 DEF File, MetadataPath
    <2>2. CASE f \in {"config", "site_graph", "site_metadata"}
      <3>1. File(f) = r.config
        BY <1>1, <2>2 DEF GeneratedConfigOK, GeneratedSiteGraphOK, GeneratedSiteMetadataOK
      <3>2. PlannedContent(r, p) = r.config
        BY <2>1, <2>2 DEF PlannedContent
      <3>. QED  BY <2>1, <3>1, <3>2
    <2>3. CASE f = "split_assignments"
      BY <1>1, <2>1, <2>3, SplitIsOfRequest DEF PlannedContent
    <2>4. CASE f = "materialization"
      BY <1>1, <2>1, <2>4, RecordIsOfRequest DEF PlannedContent
    <2>. QED  BY <2>2, <2>3, <2>4 DEF MetadataFiles
  <1>3. ASSUME NEW a \in DOMAIN ArtifactDirs, p \in ExpectedArtifactFiles(r, ArtifactDirs[a])
        PROVE  store[p] = PlannedContent(r, p)
    <2>1. store[p] = Payload(r)
      BY <1>1, <1>3 DEF NonTargetPayloadsOK
    <2>2. p[1] = ArtifactDirs[a]
      BY <1>3, PathsByDirectory
    <2>. QED  BY <2>1, <2>2, DirectoryAssumption DEF PlannedContent
  <1>4. ASSUME NEW name \in ExpectedSceneNames(r), NEW f \in ExpectedFrames(r), p = FramePath(name, f)
        PROVE  store[p] = PlannedContent(r, p)
    <2>1. store[p] = Payload(r)
      BY <1>1, <1>4 DEF NonTargetPayloadsOK
    <2>2. p[1] = "video_frames" /\ p[4] = f /\ f # 0
      BY <1>4, RequestFacts DEF FramePath, ExpectedFrames
    <2>. QED  BY <2>1, <2>2 DEF PlannedContent
  <1>5. ASSUME NEW name \in ExpectedSceneNames(r), p = FrameDirPath(name)
        PROVE  store[p] = PlannedContent(r, p)
    <2>1. p \in ExpectedFrameEntries(r)
      BY <1>5 DEF ExpectedFrameEntries
    <2>2. p \in Paths /\ store[p] # Absent
      BY <1>1, <2>1 DEF FileSetsOK, Observed
    <2>3. \A q : PlannedContent(q, p) = Directory
      BY <1>5 DEF PlannedContent, FrameDirPath
    <2>. QED  BY <2>2, <2>3 DEF DirectoryKnown, FileKnown
  <1>6. ASSUME p \in ExpectedTargetFiles(r)
        PROVE  store[p] = PlannedContent(r, p)
    <2>1. store[p] = Payload(r)
      BY <1>1, <1>6 DEF TargetPayloadsOK
    <2>2. p[1] = "targets"
      BY <1>6, PathsByDirectory
    <2>. QED  BY <2>1, <2>2 DEF PlannedContent
  <1>7. CASE p \in ExpectedFrameEntries(r)
    <2>1. PICK name \in ExpectedSceneNames(r) :
              p \in {FrameDirPath(name)} \cup {FramePath(name, f) : f \in ExpectedFrames(r)}
      BY <1>7 DEF ExpectedFrameEntries
    <2>. QED  BY <1>4, <1>5, <2>1
  <1>. QED  BY <1>2, <1>3, <1>6, <1>7, PathsByDirectory

LEMMA AcceptedStoreIsFresh ==
    ASSUME NEW r \in Requests, DirectoryKnown, Accepted(r)
    PROVE  store = FreshStore(r)
  <1>1. FileSetsOK(r)
    BY AcceptedMeans DEF GeneratedMaterializationOK
  <1>2. ASSUME NEW p \in Paths
        PROVE  store[p] = IF p \in RequestPaths(r) THEN PlannedContent(r, p) ELSE Absent
    BY <1>1, AcceptedFilesArePlanned, NothingElseIsThere
  <1>3. store = [p \in Paths |-> store[p]]
    BY DEF DirectoryKnown
  <1>4. PICK F : F = FreshStore(r) /\ F = [p \in Paths |-> IF p \in RequestPaths(r) THEN PlannedContent(r, p) ELSE Absent]
    BY FreshFiles
  <1>. QED  BY <1>2, <1>3, <1>4

(* A directory the five checks of generated output accept is file by file  *)
(* the one an undisturbed run of the request writes, whatever interrupted, *)
(* failed or larger runs were there before (validate.rs:267).              *)
THEOREM AcceptedHasNoLeftovers == Spec => []AcceptedIsFresh
  <1>1. DirectoryKnown => AcceptedIsFresh
    BY AcceptedStoreIsFresh DEF AcceptedIsFresh
  <1>. QED  BY <1>1, DirectoryIsKnown, PTL

-------------------------------------------------------------------------------
(* The counters of a run: how many of some writes go into a directory. *)
Into(W, d) == {w \in W : w.path[1] = d}

LEMMA WritesCounted ==
    ASSUME NEW W, NEW s \in Seq(W), NEW d
    PROVE  WritesInto(s, d) = CountIn(s, Into(W, d))
  <1>1. \A i \in DOMAIN s : s[i] \in W
    OBVIOUS
  <1>2. {i \in DOMAIN s : s[i].path[1] = d} = {i \in DOMAIN s : s[i] \in Into(W, d)}
    BY <1>1 DEF Into
  <1>. QED  BY <1>2 DEF WritesInto, CountIn

(* A scene's artifacts, frame directory, frames and targets, by directory. *)
DirectoryParts(A, D, F, T) ==
    /\ DOMAIN A = DOMAIN ArtifactDirs
    /\ \A a \in DOMAIN A : A[a].path[1] = ArtifactDirs[a]
    /\ Len(D) = 1
    /\ \A w \in ToSet(D) : w.path[1] = "video_frames"
    /\ \A w \in ToSet(F) : w.path[1] = "video_frames"
    /\ \A w \in ToSet(T) : w.path[1] = "targets"

ScenePartsCount(W, s, frames, targets) ==
    /\ \A b \in DOMAIN ArtifactDirs : CountIn(s, Into(W, ArtifactDirs[b])) = 1
    /\ CountIn(s, Into(W, "video_frames")) = frames + 1
    /\ CountIn(s, Into(W, "targets")) = targets

LEMMA PartsCounted ==
    ASSUME NEW W, NEW A \in Seq(W), NEW D \in Seq(W), NEW F \in Seq(W), NEW T \in Seq(W),
           DirectoryParts(A, D, F, T)
    PROVE  ScenePartsCount(W, ((A \o D) \o F) \o T, Len(F), Len(T))
  <1>. PICK s : s = ((A \o D) \o F) \o T
    OBVIOUS
  <1>1. /\ DOMAIN A = DOMAIN ArtifactDirs
        /\ \A a \in DOMAIN A : A[a].path[1] = ArtifactDirs[a]
        /\ Len(D) = 1
        /\ \A w \in ToSet(D) : w.path[1] = "video_frames"
        /\ \A w \in ToSet(F) : w.path[1] = "video_frames"
        /\ \A w \in ToSet(T) : w.path[1] = "targets"
    BY DEF DirectoryParts
  <1>2. Len(F) \in Nat /\ Len(T) \in Nat
    OBVIOUS
  <1>3. ASSUME NEW d
        PROVE  /\ CountIn(s, Into(W, d))
                    = CountIn(A, Into(W, d)) + CountIn(D, Into(W, d)) + CountIn(F, Into(W, d)) + CountIn(T, Into(W, d))
               /\ CountIn(A, Into(W, d)) \in Nat
    <2>1. PICK U, V : U = A \o D /\ V = U \o F
      OBVIOUS
    <2>2. /\ U \in Seq(W) /\ CountIn(A, Into(W, d)) \in Nat /\ CountIn(D, Into(W, d)) \in Nat
          /\ CountIn(U, Into(W, d)) = CountIn(A, Into(W, d)) + CountIn(D, Into(W, d))
      BY <2>1, CountConcat, ConcatMembers
    <2>3. /\ V \in Seq(W) /\ CountIn(F, Into(W, d)) \in Nat
          /\ CountIn(V, Into(W, d)) = CountIn(U, Into(W, d)) + CountIn(F, Into(W, d))
      <3>1. /\ CountIn(F, Into(W, d)) \in Nat
            /\ CountIn(U \o F, Into(W, d)) = CountIn(U, Into(W, d)) + CountIn(F, Into(W, d))
        BY <2>2, CountConcat
      <3>2. U \o F \in Seq(W)
        BY <2>2, ConcatMembers
      <3>. QED  BY <2>1, <3>1, <3>2
    <2>4. CountIn(V \o T, Into(W, d)) = CountIn(V, Into(W, d)) + CountIn(T, Into(W, d))
      BY <2>3, CountConcat
    <2>. QED  BY <2>1, <2>2, <2>3, <2>4
  <1>4. ASSUME NEW t \in Seq(W), NEW e, \A w \in ToSet(t) : w.path[1] = e, NEW d
        PROVE  CountIn(t, Into(W, d)) = IF d = e THEN Len(t) ELSE 0
    <2>1. PICK X : X = ToSet(t)
      OBVIOUS
    <2>2. t \in Seq(X) /\ X \subseteq W
      BY <2>1 DEF ToSet
    <2>3. d = e => \A x \in X : x \in Into(W, d)
      BY <1>4, <2>1, <2>2 DEF Into
    <2>4. d # e => \A x \in X : x \notin Into(W, d)
      BY <1>4, <2>1 DEF Into
    <2>. QED  BY <2>2, <2>3, <2>4, CountAll
  <1>5. \A d : CountIn(D, Into(W, d)) = IF d = "video_frames" THEN 1 ELSE 0
    <2>1. \A w \in ToSet(D) : w.path[1] = "video_frames"
      BY <1>1
    <2>2. \A d : CountIn(D, Into(W, d)) = IF d = "video_frames" THEN Len(D) ELSE 0
      BY <1>4, <2>1
    <2>. QED  BY <1>1, <2>2
  <1>6. \A d : CountIn(F, Into(W, d)) = IF d = "video_frames" THEN Len(F) ELSE 0
    <2>1. \A w \in ToSet(F) : w.path[1] = "video_frames"
      BY <1>1
    <2>. QED  BY <1>4, <2>1
  <1>7. \A d : CountIn(T, Into(W, d)) = IF d = "targets" THEN Len(T) ELSE 0
    <2>1. \A w \in ToSet(T) : w.path[1] = "targets"
      BY <1>1
    <2>. QED  BY <1>4, <2>1
  <1>8. ASSUME NEW d, \A a \in DOMAIN ArtifactDirs : ArtifactDirs[a] # d
        PROVE  CountIn(A, Into(W, d)) = 0
    <2>1. {a \in DOMAIN A : A[a] \in Into(W, d)} = {}
      BY <1>1, <1>8 DEF Into
    <2>. QED  BY <2>1, FS_EmptySet DEF CountIn
  <1>9. ASSUME NEW b \in DOMAIN ArtifactDirs
         PROVE  CountIn(A, Into(W, ArtifactDirs[b])) = 1
    <2>1. \A a \in DOMAIN A : A[a] \in W
      OBVIOUS
    <2>2. {a \in DOMAIN A : A[a] \in Into(W, ArtifactDirs[b])} = {b}
      BY <1>1, <2>1, DirectoryAssumption DEF Into
    <2>. QED  BY <2>2, FS_Singleton DEF CountIn
  <1>10. ASSUME NEW b \in DOMAIN ArtifactDirs
         PROVE  CountIn(s, Into(W, ArtifactDirs[b])) = 1
    <2>1. PICK d : d = ArtifactDirs[b]
      OBVIOUS
    <2>2. d # "video_frames" /\ d # "targets"
      BY <2>1, DirectoryAssumption
    <2>. QED  BY <1>3, <1>5, <1>6, <1>7, <1>9, <2>1, <2>2
  <1>11. CountIn(s, Into(W, "video_frames")) = Len(F) + 1
    <2>1. CountIn(A, Into(W, "video_frames")) = 0
      BY <1>8, DirectoryAssumption
    <2>2. /\ CountIn(D, Into(W, "video_frames")) = 1
          /\ CountIn(F, Into(W, "video_frames")) = Len(F)
          /\ CountIn(T, Into(W, "video_frames")) = 0
      BY <1>5, <1>6, <1>7
    <2>3. CountIn(s, Into(W, "video_frames")) = 0 + 1 + Len(F) + 0
      BY <1>3, <2>1, <2>2
    <2>. QED  BY <1>2, <2>3
  <1>12. CountIn(s, Into(W, "targets")) = Len(T)
    <2>1. CountIn(A, Into(W, "targets")) = 0
      BY <1>8, DirectoryAssumption
    <2>. QED  BY <1>2, <1>3, <1>5, <1>6, <1>7, <2>1
  <1>. QED  BY <1>10, <1>11, <1>12 DEF ScenePartsCount

(* Each scene adds as many to a counter as it has files in the directory.  *)
LEMMA SceneCounted ==
    ASSUME NEW r \in Requests, NEW i \in SceneIndices(r.scenes), NEW W, W = PlannedWrites(r)
    PROVE  /\ \A b \in DOMAIN ArtifactDirs : CountIn(SceneWrites(r, i), Into(W, ArtifactDirs[b])) = 1
           /\ CountIn(SceneWrites(r, i), Into(W, "video_frames")) = FrameCount[r.config] + 1
           /\ CountIn(SceneWrites(r, i), Into(W, "targets")) = Cardinality(ExpectedTaskIds(ShapeCount[r.config]))
  <1>1. PICK A, D, F, T : Parts(r, i, A, D, F, T)
    BY SceneParts, Zenon
  <1>2. PICK X : X = WritesOfScene(r, i)
    OBVIOUS
  <1>3. /\ A \in Seq(X) /\ D \in Seq(X) /\ F \in Seq(X) /\ T \in Seq(X)
        /\ SceneWrites(r, i) = ((A \o D) \o F) \o T
        /\ DOMAIN A = DOMAIN ArtifactDirs
        /\ \A a \in DOMAIN A : A[a].path[1] = ArtifactDirs[a]
        /\ Len(D) = 1 /\ Len(F) = FrameCount[r.config]
        /\ \A w \in ToSet(D) \union ToSet(F) : w.path[1] = "video_frames"
        /\ Len(T) = Cardinality(ExpectedTaskIds(ShapeCount[r.config]))
        /\ \A w \in ToSet(T) : w.path[1] = "targets"
    BY <1>1, <1>2, Zenon DEF Parts
  <1>4. X \subseteq W
    BY <1>2 DEF WritesOfScene, PlannedWrites, RequestPaths
  <1>5. A \in Seq(W) /\ D \in Seq(W) /\ F \in Seq(W) /\ T \in Seq(W)
    BY <1>3, <1>4, SeqMonotonic
  <1>6. \A w \in ToSet(D) : w.path[1] = "video_frames"
    BY <1>3
  <1>7. \A w \in ToSet(F) : w.path[1] = "video_frames"
    BY <1>3
  <1>8. DirectoryParts(A, D, F, T)
    BY <1>3, <1>6, <1>7 DEF DirectoryParts
  <1>9. ScenePartsCount(W, ((A \o D) \o F) \o T, Len(F), Len(T))
    BY <1>5, <1>8, PartsCounted
  <1>. QED  BY <1>3, <1>9 DEF ScenePartsCount

(* The counters after the last scene. *)
LEMMA FilesCounted ==
    ASSUME NEW r \in Requests
    PROVE  /\ \A b \in DOMAIN ArtifactDirs : WritesInto(SceneFiles(r), ArtifactDirs[b]) = r.scenes
           /\ WritesInto(SceneFiles(r), "video_frames") = r.scenes * (FrameCount[r.config] + 1)
           /\ WritesInto(SceneFiles(r), "targets")
                 = r.scenes * Cardinality(ExpectedTaskIds(ShapeCount[r.config]))
  <1>1. PICK n \in Nat \ {0} : n = r.scenes
    BY RequestFacts
  <1>2. PICK k \in Nat, m \in Nat : /\ k = Cardinality(ExpectedTaskIds(ShapeCount[r.config]))
                                    /\ m = FrameCount[r.config]
    BY RequestFacts, TasksFinite, FS_CardinalityType
  <1>. DEFINE ss == [j \in 1 .. n |-> SceneWrites(r, j - 1)]
              P == PlannedWrites(r)
  <1>3. \A j \in 1 .. n : j - 1 \in SceneIndices(r.scenes)
    BY <1>1 DEF SceneIndices
  <1>4. \A j \in 1 .. n : SceneWrites(r, j - 1) \in Seq(P)
    <2>. TAKE j \in 1 .. n
    <2>1. WritesOfScene(r, j - 1) \subseteq P
      BY <1>3 DEF WritesOfScene, PlannedWrites, RequestPaths
    <2>2. SceneWrites(r, j - 1) \in Seq(WritesOfScene(r, j - 1))
      BY SceneWritesPlanned
    <2>. QED  BY <2>1, <2>2, SeqMonotonic
  <1>5. ss \in Seq(Seq(P)) /\ DOMAIN ss = 1 .. n /\ Len(ss) = n
    BY <1>4
  <1>6. SceneFiles(r) = FlattenSeq(ss)
    BY <1>1 DEF SceneFiles
  <1>7. SceneFiles(r) \in Seq(P)
    <2>. HIDE DEF ss, P
    <2>. QED  BY <1>5, <1>6, FlattenMembers
  <1>8. ASSUME NEW d, NEW c \in Nat,
               \A i \in SceneIndices(r.scenes) : CountIn(SceneWrites(r, i), Into(P, d)) = c
        PROVE  WritesInto(SceneFiles(r), d) = n * c
    <2>1. \A j \in DOMAIN ss : CountIn(ss[j], Into(P, d)) = c
      BY <1>3, <1>5, <1>8
    <2>2. CountIn(FlattenSeq(ss), Into(P, d)) = n * c
      <3>. HIDE DEF ss, P
      <3>. QED  BY <1>5, <2>1, CountFlatten
    <2>3. WritesInto(SceneFiles(r), d) = CountIn(SceneFiles(r), Into(P, d))
      BY <1>7, WritesCounted
    <2>. QED  BY <1>6, <2>2, <2>3
  <1>9. \A b \in DOMAIN ArtifactDirs : WritesInto(SceneFiles(r), ArtifactDirs[b]) = n * 1
    BY <1>8, SceneCounted
  <1>10. WritesInto(SceneFiles(r), "video_frames") = n * (m + 1)
    <2>1. PICK c \in Nat : c = m + 1
      OBVIOUS
    <2>2. \A i \in SceneIndices(r.scenes) : CountIn(SceneWrites(r, i), Into(P, "video_frames")) = c
      BY <1>2, <2>1, SceneCounted
    <2>3. WritesInto(SceneFiles(r), "video_frames") = n * c
      BY <1>8, <2>2
    <2>. QED  BY <2>1, <2>3
  <1>11. WritesInto(SceneFiles(r), "targets") = n * k
    BY <1>2, <1>8, SceneCounted
  <1>. QED  BY <1>1, <1>2, <1>9, <1>10, <1>11

(* The files of as many scenes with the same parts each. *)
Grid(d, form, I, T) == {<<d, form, i, t>> : i \in I, t \in T}

LEMMA GridSize ==
    ASSUME NEW d, NEW form, NEW I, IsFiniteSet(I), NEW T, IsFiniteSet(T)
    PROVE  Cardinality(Grid(d, form, I, T)) = Cardinality(I) * Cardinality(T)
  <1>. DEFINE X == I \X T
              G == Grid(d, form, I, T)
              f == [x \in X |-> <<d, form, x[1], x[2]>>]
  <1>1. IsFiniteSet(X) /\ Cardinality(X) = Cardinality(I) * Cardinality(T)
    BY FS_Product
  <1>2. f \in Bijection(X, G)
    <2>1. f \in [X -> G]
      BY DEF Grid
    <2>2. \A x, y \in X : f[x] = f[y] => x = y
      OBVIOUS
    <2>3. \A g \in G : \E x \in X : f[x] = g
      <3>. TAKE g \in G
      <3>1. PICK i \in I, t \in T : g = <<d, form, i, t>>
        BY DEF Grid
      <3>2. <<i, t>> \in X /\ f[<<i, t>>] = g
        BY <3>1
      <3>. QED  BY <3>2
    <2>. HIDE DEF f, X, G
    <2>. QED  BY <2>1, <2>2, <2>3 DEF Bijection, Injection, Surjection, IsInjective
  <1>3. ExistsBijection(X, G)
    <2>. HIDE DEF f, X, G
    <2>. QED  BY <1>2 DEF ExistsBijection
  <1>4. Cardinality(G) = Cardinality(X)
    <2>. HIDE DEF X, G
    <2>. QED  BY <1>1, <1>3, FS_Bijection
  <1>. QED  BY <1>1, <1>4

(* How many files a request has in each directory. *)
LEMMA ExpectedSizes ==
    ASSUME NEW r \in Requests
    PROVE  /\ \A d : Cardinality(ExpectedArtifactFiles(r, d)) = r.scenes
           /\ Cardinality(ExpectedFrameEntries(r)) = r.scenes * (FrameCount[r.config] + 1)
           /\ Cardinality(ExpectedTargetFiles(r))
                 = r.scenes * Cardinality(ExpectedTaskIds(ShapeCount[r.config]))
  <1>1. PICK n \in Nat, m \in Nat : n = r.scenes /\ m = FrameCount[r.config]
    BY RequestFacts
  <1>2. PICK K : K = ExpectedTaskIds(ShapeCount[r.config]) /\ IsFiniteSet(K)
    BY RequestFacts, TasksFinite
  <1>8. PICK I : I = 0 .. n - 1 /\ IsFiniteSet(I) /\ Cardinality(I) = n
    <2>1. 0 \in Int /\ n - 1 \in Int
      OBVIOUS
    <2>2. IsFiniteSet(0 .. n - 1) /\ Cardinality(0 .. n - 1) = IF 0 > n - 1 THEN 0 ELSE (n - 1) - 0 + 1
      BY <2>1, FS_Interval
    <2>. QED  BY <2>2
  <1>3. ExpectedSceneNames(r) = {CanonicalName(i) : i \in I}
    BY <1>1, <1>8 DEF ExpectedSceneNames, SceneIndices
  <1>4. /\ \A d, i : ArtifactPath(d, CanonicalName(i)) = <<d, "canonical", i, 0>>
        /\ \A i : FrameDirPath(CanonicalName(i)) = <<"video_frames", "canonical", i, 0>>
        /\ \A i, f : FramePath(CanonicalName(i), f) = <<"video_frames", "canonical", i, f>>
        /\ \A i, t : TargetPath(CanonicalName(i), t) = <<"targets", "canonical", i, t>>
    BY DEF CanonicalName, ArtifactPath, FrameDirPath, FramePath, TargetPath
  <1>5. ASSUME NEW d
        PROVE  Cardinality(ExpectedArtifactFiles(r, d)) = n
    <2>1. ExpectedArtifactFiles(r, d) = Grid(d, "canonical", I, {0})
      <3>1. \A p : p \in ExpectedArtifactFiles(r, d) <=> \E i \in I : p = ArtifactPath(d, CanonicalName(i))
        BY <1>3, Zenon DEF ExpectedArtifactFiles
      <3>2. \A p : p \in Grid(d, "canonical", I, {0}) <=> \E i \in I : p = <<d, "canonical", i, 0>>
        BY DEF Grid
      <3>3. \A p : p \in ExpectedArtifactFiles(r, d) <=> p \in Grid(d, "canonical", I, {0})
        BY <1>4, <3>1, <3>2
      <3>. QED  BY <3>3
    <2>2. IsFiniteSet({0}) /\ Cardinality({0}) = 1
      BY FS_Singleton
    <2>3. Cardinality(Grid(d, "canonical", I, {0})) = n * 1
      BY <1>8, <2>2, GridSize
    <2>. QED  BY <2>1, <2>3
  <1>6. Cardinality(ExpectedFrameEntries(r)) = n * (m + 1)
    <2>1. \A p : p \in ExpectedFrameEntries(r) <=>
             \E i \in I : \/ p = FrameDirPath(CanonicalName(i))
                                 \/ \E f \in 1 .. m : p = FramePath(CanonicalName(i), f)
      BY <1>1, <1>3 DEF ExpectedFrameEntries, ExpectedFrames
    <2>2. \A f : f \in 0 .. m <=> f = 0 \/ f \in 1 .. m
      OBVIOUS
    <2>3. ExpectedFrameEntries(r) = Grid("video_frames", "canonical", I, 0 .. m)
      <3>1. \A p : p \in Grid("video_frames", "canonical", I, 0 .. m) <=>
               \E i \in I, f \in 0 .. m : p = <<"video_frames", "canonical", i, f>>
        BY DEF Grid
      <3>2. ASSUME NEW p, NEW i
            PROVE  (p = FrameDirPath(CanonicalName(i)) \/ \E f \in 1 .. m : p = FramePath(CanonicalName(i), f))
                      <=> \E f \in 0 .. m : p = <<"video_frames", "canonical", i, f>>
        <4>1. /\ FrameDirPath(CanonicalName(i)) = <<"video_frames", "canonical", i, 0>>
              /\ \A f : FramePath(CanonicalName(i), f) = <<"video_frames", "canonical", i, f>>
          BY <1>4
        <4>. QED  BY <2>2, <4>1
      <3>3. ASSUME NEW p
            PROVE  p \in ExpectedFrameEntries(r) <=> p \in Grid("video_frames", "canonical", I, 0 .. m)
        <4>. DEFINE At(i) == \E f \in 0 .. m : p = <<"video_frames", "canonical", i, f>>
                    In(i) == \/ p = FrameDirPath(CanonicalName(i))
                             \/ \E f \in 1 .. m : p = FramePath(CanonicalName(i), f)
        <4>1. p \in ExpectedFrameEntries(r) <=> \E i \in I : At(i)
          <5>1. \A i : In(i) <=> At(i)
            BY <3>2
          <5>2. p \in ExpectedFrameEntries(r) <=> \E i \in I : In(i)
            BY <2>1
          <5>. HIDE DEF In, At
          <5>. QED  BY <5>1, <5>2
        <4>2. p \in Grid("video_frames", "canonical", I, 0 .. m) <=> \E i \in I : At(i)
          BY <3>1, Zenon
        <4>. QED  BY <4>1, <4>2
      <3>. QED  BY <3>3
    <2>4. IsFiniteSet(0 .. m) /\ Cardinality(0 .. m) = m + 1
      <3>1. 0 \in Int /\ m \in Int
        OBVIOUS
      <3>2. IsFiniteSet(0 .. m) /\ Cardinality(0 .. m) = IF 0 > m THEN 0 ELSE m - 0 + 1
        BY <3>1, FS_Interval
      <3>. QED  BY <3>2
    <2>5. Cardinality(Grid("video_frames", "canonical", I, 0 .. m)) = n * Cardinality(0 .. m)
      BY <1>8, <2>4, GridSize
    <2>. QED  BY <2>3, <2>4, <2>5
  <1>7. Cardinality(ExpectedTargetFiles(r)) = n * Cardinality(K)
    <2>1. ExpectedTargetFiles(r) = Grid("targets", "canonical", I, K)
      <3>1. \A p : p \in ExpectedTargetFiles(r) <=>
               \E i \in I, t \in K : p = TargetPath(CanonicalName(i), t)
        BY <1>2, <1>3 DEF ExpectedTargetFiles
      <3>2. \A p : p \in Grid("targets", "canonical", I, K) <=>
               \E i \in I, t \in K : p = <<"targets", "canonical", i, t>>
        BY DEF Grid
      <3>3. \A p : p \in ExpectedTargetFiles(r) <=> p \in Grid("targets", "canonical", I, K)
        BY <1>4, <3>1, <3>2
      <3>. QED  BY <3>3
    <2>. QED  BY <1>2, <1>8, <2>1, GridSize
  <1>. QED  BY <1>1, <1>2, <1>5, <1>6, <1>7

(* The record of a run counts the files of its request. *)
LEMMA RecordCounts ==
    ASSUME NEW r \in Requests
    PROVE  LET record == MaterializationRecord(r, SceneFiles(r))
           IN  /\ record.config = r.config /\ record.scenes = r.scenes /\ record.samples = r.samples
               /\ \A a \in DOMAIN ArtifactDirs : record.files[a] = r.scenes
               /\ record.frames = r.scenes * FrameCount[r.config]
               /\ record.frames = Cardinality(ExpectedFrameEntries(r)) - r.scenes
               /\ record.targets = r.scenes * Cardinality(ExpectedTaskIds(ShapeCount[r.config]))
               /\ record.targets = Cardinality(ExpectedTargetFiles(r))
  <1>1. PICK n \in Nat, m \in Nat : n = r.scenes /\ m = FrameCount[r.config]
    BY RequestFacts
  <1>2. PICK R : R = MaterializationRecord(r, SceneFiles(r))
    OBVIOUS
  <1>3. /\ R.config = r.config /\ R.scenes = r.scenes /\ R.samples = r.samples
        /\ \A a \in DOMAIN ArtifactDirs : R.files[a] = WritesInto(SceneFiles(r), ArtifactDirs[a])
        /\ R.frames = WritesInto(SceneFiles(r), "video_frames") - r.scenes
        /\ R.targets = WritesInto(SceneFiles(r), "targets")
    BY <1>2 DEF MaterializationRecord
  <1>4. n * (m + 1) - n = n * m
    OBVIOUS
  <1>5. /\ R.frames = n * (m + 1) - n
        /\ Cardinality(ExpectedFrameEntries(r)) = n * (m + 1)
    BY <1>1, <1>3, FilesCounted, ExpectedSizes
  <1>6. R.frames = n * m /\ R.frames = Cardinality(ExpectedFrameEntries(r)) - n
    BY <1>4, <1>5
  <1>. QED  BY <1>1, <1>2, <1>3, <1>6, FilesCounted, ExpectedSizes

(* A run that ended left every file of its request as planned. *)
LEMMA FinishedFiles ==
    ASSUME NEW r \in Requests, \A w \in DOMAIN Plan[r] : FileWritten(r, w), NEW p \in RequestPaths(r)
    PROVE  store[p] = PlannedContent(r, p) /\ store[p] \notin {Absent, Torn}
  <1>1. PICK w \in DOMAIN Plan[r] : Plan[r][w].path = p
    BY PlanFacts
  <1>2. store[p] = Plan[r][w].content
    BY <1>1 DEF FileWritten
  <1>3. Plan[r][w].content = PlannedContent(r, p)
    BY <1>1, PlanFacts
  <1>. QED  BY <1>2, <1>3, ContentAssumption

(* When nothing else is there, every check finds what it expects. *)
LEMMA CompleteIsAccepted ==
    ASSUME NEW r \in Requests, r.config \in ValidSites, UnbuildableScenes(r) = {},
           \A p \in RequestPaths(r) : store[p] = PlannedContent(r, p) /\ store[p] \notin {Absent, Torn},
           {p \in Paths : store[p] # Absent} \subseteq RequestPaths(r)
    PROVE  Accepted(r)
  <1>1. ASSUME NEW f \in MetadataFiles
        PROVE  File(f) = PlannedContent(r, MetadataPath(f)) /\ Readable(f)
    <2>1. MetadataPath(f) \in RequestPaths(r)
      BY DEF RequestPaths
    <2>. QED  BY <2>1 DEF File, Readable
  <1>2. /\ PlannedContent(r, MetadataPath("config")) = r.config
        /\ PlannedContent(r, MetadataPath("site_graph")) = r.config
        /\ PlannedContent(r, MetadataPath("site_metadata")) = r.config
        /\ PlannedContent(r, MetadataPath("split_assignments"))
              = SplitRecord(r.config, BuildSplitAssignments(r.scenes))
        /\ PlannedContent(r, MetadataPath("materialization")) = MaterializationRecord(r, SceneFiles(r))
    BY DEF PlannedContent, MetadataPath
  <1>3. GeneratedConfigOK(r) /\ GeneratedSiteMetadataOK(r) /\ GeneratedSiteGraphOK(r)
    BY <1>1, <1>2 DEF GeneratedConfigOK, GeneratedSiteMetadataOK, GeneratedSiteGraphOK, MetadataFiles
  <1>4. GeneratedSplitAssignmentsOK(r)
    <2>1. PICK e : e = BuildSplitAssignments(r.scenes)
      OBVIOUS
    <2>2. Cardinality(DOMAIN e.assignments) = e.summary.total
      BY <2>1 DEF BuildSplitAssignments, Summary
    <2>3. PICK record : record = File("split_assignments")
      OBVIOUS
    <2>4. record.config = r.config /\ record.split = e /\ Readable("split_assignments")
      BY <1>1, <1>2, <2>1, <2>3 DEF SplitRecord, MetadataFiles
    <2>. QED  BY <2>1, <2>2, <2>3, <2>4 DEF GeneratedSplitAssignmentsOK
  <1>5. ASSUME NEW d, d # "metadata"
        PROVE  \A p : p \in Observed(d) <=> p \in RequestPaths(r) /\ p[1] = d
    BY RequestPathsAreFiles DEF Observed
  <1>6. FileSetsOK(r)
    <2>1. \A p : /\ p \in Observed("video_frames") <=> p \in ExpectedFrameEntries(r)
                 /\ p \in Observed("targets") <=> p \in ExpectedTargetFiles(r)
      <3>. TAKE p
      <3>1. /\ p \in Observed("video_frames") <=> p \in RequestPaths(r) /\ p[1] = "video_frames"
            /\ p \in Observed("targets") <=> p \in RequestPaths(r) /\ p[1] = "targets"
        BY <1>5
      <3>. QED  BY <3>1, PathsByDirectory, DirectoryAssumption
    <2>2. ASSUME NEW a \in DOMAIN ArtifactDirs
          PROVE  \A p : p \in Observed(ArtifactDirs[a]) <=> p \in ExpectedArtifactFiles(r, ArtifactDirs[a])
      <3>. TAKE p
      <3>1. p \in Observed(ArtifactDirs[a]) <=> p \in RequestPaths(r) /\ p[1] = ArtifactDirs[a]
        BY <1>5, DirectoryAssumption
      <3>2. ASSUME NEW b \in DOMAIN ArtifactDirs, p \in ExpectedArtifactFiles(r, ArtifactDirs[b]),
                   p[1] = ArtifactDirs[a]
            PROVE  p \in ExpectedArtifactFiles(r, ArtifactDirs[a])
        BY <3>2, PathsByDirectory
      <3>3. p \in ExpectedArtifactFiles(r, ArtifactDirs[a]) => p \in RequestPaths(r) /\ p[1] = ArtifactDirs[a]
        BY PathsByDirectory
      <3>. QED  BY <3>1, <3>2, <3>3, PathsByDirectory, DirectoryAssumption
    <2>3. \A a \in DOMAIN ArtifactDirs : Observed(ArtifactDirs[a]) = ExpectedArtifactFiles(r, ArtifactDirs[a])
      BY <2>2
    <2>4. Observed("video_frames") = ExpectedFrameEntries(r) /\ Observed("targets") = ExpectedTargetFiles(r)
      BY <2>1
    <2>. QED  BY <2>3, <2>4 DEF FileSetsOK
  <1>7. PICK record : record = File("materialization")
    OBVIOUS
  <1>8. record = MaterializationRecord(r, SceneFiles(r)) /\ Readable("materialization")
    BY <1>1, <1>2, <1>7 DEF MetadataFiles
  <1>9. RecordOK(r)
    BY <1>7, <1>8, RecordCounts DEF RecordOK
  <1>10. ObservedCountsOK(r)
    BY <1>6, <1>7, <1>8, RecordCounts, ExpectedSizes DEF ObservedCountsOK, FileSetsOK
  <1>11. TargetPayloadsOK(r)
    <2>1. \A p \in ExpectedTargetFiles(r) : p \in RequestPaths(r) /\ p[1] = "targets"
      BY PathsByDirectory
    <2>2. \A p \in ExpectedTargetFiles(r) : PlannedContent(r, p) = Payload(r)
      BY <2>1 DEF PlannedContent
    <2>. QED  BY <2>1, <2>2 DEF TargetPayloadsOK
  <1>12. NonTargetPayloadsOK(r)
    <2>1. ASSUME NEW a \in DOMAIN ArtifactDirs, NEW p \in ExpectedArtifactFiles(r, ArtifactDirs[a])
          PROVE  store[p] = Payload(r)
      <3>1. p \in RequestPaths(r) /\ p[1] = ArtifactDirs[a]
        BY PathsByDirectory
      <3>2. PlannedContent(r, p) = Payload(r)
        BY <3>1, DirectoryAssumption DEF PlannedContent
      <3>. QED  BY <3>1, <3>2
    <2>2. ASSUME NEW name \in ExpectedSceneNames(r), NEW f \in ExpectedFrames(r)
          PROVE  store[FramePath(name, f)] = Payload(r)
      <3>1. FramePath(name, f) \in ExpectedFrameEntries(r)
        BY DEF ExpectedFrameEntries
      <3>2. FramePath(name, f) \in RequestPaths(r)
        BY <3>1, PathsByDirectory
      <3>3. f # 0
        BY RequestFacts DEF ExpectedFrames
      <3>4. PlannedContent(r, FramePath(name, f)) = Payload(r)
        BY <3>3 DEF PlannedContent, FramePath
      <3>. QED  BY <3>2, <3>4
    <2>. QED  BY <2>1, <2>2 DEF NonTargetPayloadsOK
  <1>. QED  BY <1>3, <1>4, <1>6, <1>9, <1>10, <1>11, <1>12, AcceptedMeans DEF GeneratedMaterializationOK

(* What generate produces, validate accepts, whatever requests were run    *)
(* before and wherever they stopped: a run that ended is accepted for its  *)
(* own request if and only if no earlier run left a file that this one     *)
(* does not write (generate.rs:240, validate.rs:267).                      *)
THEOREM FinishedIsValid == Spec => []FinishedIsAccepted
  <1>1. DirectoryKnown => FinishedIsAccepted
    <2>. SUFFICES ASSUME DirectoryKnown, finished # None, job = None
                  PROVE  Accepted(finished) <=> {p \in Paths : store[p] # Absent} \subseteq WrittenPaths(finished)
      BY DEF FinishedIsAccepted
    <2>1. PICK r : r = finished
      OBVIOUS
    <2>2. /\ r \in Requests /\ r.config \in ValidSites /\ UnbuildableScenes(r) = {}
          /\ \A w \in DOMAIN Plan[r] : FileWritten(r, w)
      BY <2>1 DEF DirectoryKnown, FinishedKnown
    <2>3. \A p \in RequestPaths(r) : store[p] = PlannedContent(r, p) /\ store[p] \notin {Absent, Torn}
      BY <2>2, FinishedFiles
    <2>4. WrittenPaths(r) = RequestPaths(r)
      BY <2>2, FreshFiles
    <2>5. ASSUME {p \in Paths : store[p] # Absent} \subseteq RequestPaths(r)
          PROVE  Accepted(r)
      BY <2>2, <2>3, <2>5, CompleteIsAccepted
    <2>6. ASSUME Accepted(r)
          PROVE  {p \in Paths : store[p] # Absent} \subseteq RequestPaths(r)
      <3>1. FileSetsOK(r)
        BY <2>2, <2>6, AcceptedMeans DEF GeneratedMaterializationOK
      <3>. QED  BY <2>2, <3>1, NothingElseIsThere
    <2>. QED  BY <2>1, <2>4, <2>5, <2>6
  <1>. QED  BY <1>1, DirectoryIsKnown, PTL

-------------------------------------------------------------------------------
(* InOrder lists every member of the set. *)
LEMMA InOrderLists ==
    ASSUME NEW S, IsFiniteSet(S), NEW key \in [S -> Nat], \A x, y \in S : key[x] = key[y] => x = y
    PROVE  /\ InOrder(S, key) \in Seq(S) /\ Len(InOrder(S, key)) = Cardinality(S)
           /\ ToSet(InOrder(S, key)) = S
  <1>1. PICK n \in Nat : n = Cardinality(S)
    BY FS_CardinalityType
  <1>. DEFINE Upto(x) == {y \in S : key[y] <= key[x]}
              rank(x) == Cardinality(Upto(x))
              f == [x \in S |-> rank(x)]
  <1>2. \A x \in S : IsFiniteSet(Upto(x)) /\ rank(x) \in 1 .. n
    <2>. TAKE x \in S
    <2>1. Upto(x) \in SUBSET S /\ x \in Upto(x)
      OBVIOUS
    <2>. HIDE DEF Upto
    <2>2. IsFiniteSet(Upto(x)) /\ rank(x) <= n /\ rank(x) \in Nat
      BY <1>1, <2>1, FS_Subset, FS_CardinalityType
    <2>3. rank(x) # 0
      BY <2>1, <2>2, FS_EmptySet
    <2>. QED  BY <2>2, <2>3
  <1>3. ASSUME NEW x \in S, NEW y \in S, key[x] < key[y]
        PROVE  rank(x) # rank(y)
    <2>1. Upto(x) \in SUBSET Upto(y) /\ y \in Upto(y) /\ y \notin Upto(x)
      BY <1>3
    <2>2. Upto(x) # Upto(y)
      BY <2>1
    <2>. HIDE DEF Upto
    <2>. QED  BY <1>2, <2>1, <2>2, FS_Subset
  <1>4. \A x, y \in S : rank(x) = rank(y) => x = y
    <2>. HIDE DEF rank
    <2>. SUFFICES ASSUME NEW x \in S, NEW y \in S, rank(x) = rank(y) PROVE key[x] = key[y]
      OBVIOUS
    <2>1. ~(key[x] < key[y]) /\ ~(key[y] < key[x])
      BY <1>3
    <2>2. key[x] \in Nat /\ key[y] \in Nat
      OBVIOUS
    <2>. QED  BY <2>1, <2>2
  <1>5. \A k \in 1 .. n : \E x \in S : rank(x) = k
    <2>. HIDE DEF rank
    <2>1. f \in Injection(S, 1 .. n)
      BY <1>2, <1>4 DEF Injection, IsInjective
    <2>2. IsFiniteSet(1 .. n) /\ Cardinality(1 .. n) = n
      <3>1. 1 \in Int /\ n \in Int
        OBVIOUS
      <3>2. IsFiniteSet(1 .. n) /\ Cardinality(1 .. n) = IF 1 > n THEN 0 ELSE n - 1 + 1
        BY <3>1, FS_Interval
      <3>. QED  BY <3>2
    <2>3. PICK g : g = f
      OBVIOUS
    <2>4. g \in Surjection(S, 1 .. n)
      BY <1>1, <2>1, <2>2, <2>3, FS_Injection
    <2>5. \A k \in 1 .. n : \E x \in S : g[x] = k
      BY <2>4 DEF Surjection
    <2>. QED  BY <2>3, <2>5
  <1>. DEFINE q == [k \in 1 .. n |-> CHOOSE x \in S : rank(x) = k]
  <1>6. InOrder(S, key) = q
    BY <1>1 DEF InOrder
  <1>. HIDE DEF rank
  <1>7. \A k \in 1 .. n : q[k] \in S /\ rank(q[k]) = k
    <2>. TAKE k \in 1 .. n
    <2>1. PICK c : c = CHOOSE x \in S : rank(x) = k
      OBVIOUS
    <2>2. c \in S /\ rank(c) = k
      BY <1>5, <2>1
    <2>. QED  BY <2>1, <2>2
  <1>8. DOMAIN q = 1 .. n
    OBVIOUS
  <1>9. \A x \in S : \E k \in 1 .. n : q[k] = x
    <2>. TAKE x \in S
    <2>1. PICK k \in 1 .. n : k = rank(x)
      BY <1>2
    <2>2. q[k] \in S /\ rank(q[k]) = k
      BY <1>7
    <2>. HIDE DEF q
    <2>. QED  BY <1>4, <2>1, <2>2
  <1>10. q = [k \in 1 .. n |-> q[k]]
    OBVIOUS
  <1>. HIDE DEF q
  <1>11. q \in Seq(S) /\ Len(q) = n
    <2>1. q \in [1 .. n -> S]
      BY <1>7, <1>10
    <2>. QED  BY <2>1
  <1>12. ToSet(q) = S
    BY <1>7, <1>8, <1>9 DEF ToSet
  <1>. QED  BY <1>1, <1>6, <1>11, <1>12

-------------------------------------------------------------------------------
(* What an export finds of a scene, and copies. *)

(* The directory never holds more than finitely many files. *)
PresentFiles == {p \in Paths : store[p] # Absent}

FilesFinite == IsFiniteSet(PresentFiles)

LEMMA FilesStayFinite == Spec => []FilesFinite
  <1>1. Init => FilesFinite
    <2>. SUFFICES ASSUME Init PROVE FilesFinite
      OBVIOUS
    <2>1. PresentFiles = {}
      BY DEF Init, StoreInit, PresentFiles
    <2>. QED  BY <2>1, FS_EmptySet DEF FilesFinite
  <1>2. FilesFinite /\ DirectoryKnown /\ [Next]_vars => FilesFinite'
    <2>. SUFFICES ASSUME FilesFinite, DirectoryKnown, [Next]_vars PROVE FilesFinite'
      OBVIOUS
    <2>1. CASE UNCHANGED store
      BY <2>1 DEF FilesFinite, PresentFiles
    <2>2. ASSUME NEW q, NEW v, store' = [store EXCEPT ![q] = v]
          PROVE  FilesFinite'
      <3>1. PresentFiles' \in SUBSET (PresentFiles \cup {q})
        BY <2>2 DEF PresentFiles, DirectoryKnown
      <3>2. IsFiniteSet(PresentFiles \cup {q})
        BY FS_Union, FS_Singleton DEF FilesFinite
      <3>. QED  BY <3>1, <3>2, FS_Subset DEF FilesFinite
    <2>. QED  BY <2>1, <2>2 DEF Next, StoreNext, StartGenerate, WriteFile, GenerateFails, GenerateFinishes,
                               GenerateStops, ExportNext, ExportSplit, ExportStops, vars
  <1>. QED  BY <1>1, <1>2, DirectoryIsKnown, PTL DEF Spec

LEMMA PathForms ==
    ASSUME NEW p \in Paths
    PROVE  \/ p[1] = "metadata"
           \/ \E c \in Configs, i \in AllScenes :
                \/ \E a \in DOMAIN ArtifactDirs : p = <<ArtifactDirs[a], "canonical", i, 0>>
                \/ p = <<"video_frames", "canonical", i, 0>>
                \/ \E f \in 1 .. FrameCount[c] : p = <<"video_frames", "canonical", i, f>>
                \/ \E t \in ExpectedTaskIds(ShapeCount[c]) : p = <<"targets", "canonical", i, t>>
  <1>1. CASE p \in {MetadataPath(f) : f \in MetadataFiles}
    BY <1>1 DEF MetadataPath
  <1>2. CASE p \in ArtifactPaths
    <2>1. PICK c \in Configs, i \in AllScenes : p \in PathsOfScene(c, CanonicalName(i))
      BY <1>2 DEF ArtifactPaths
    <2>2. \/ \E a \in DOMAIN ArtifactDirs : p = <<ArtifactDirs[a], "canonical", i, 0>>
          \/ p = <<"video_frames", "canonical", i, 0>>
          \/ \E f \in 1 .. FrameCount[c] : p = <<"video_frames", "canonical", i, f>>
          \/ \E t \in ExpectedTaskIds(ShapeCount[c]) : p = <<"targets", "canonical", i, t>>
      BY <2>1 DEF PathsOfScene, CanonicalName, ArtifactPath, FrameDirPath, FramePath, TargetPath
    <2>. QED  BY <2>2
  <1>. QED  BY <1>1, <1>2 DEF Paths

LEMMA FramesFound ==
    ASSUME NEW i, NEW name \in {CanonicalName(i), AssignedName(i)}, NEW p \in SourceFrames(name)
    PROVE  /\ p = <<"video_frames", "canonical", i, p[4]>> /\ name = CanonicalName(i) /\ i \in AllScenes
           /\ \E c \in Configs : p[4] \in 1 .. FrameCount[c]
           /\ p[4] \in Nat \ {0} /\ p \in PresentFiles
  <1>1. /\ p \in Paths /\ p[1] = "video_frames" /\ p[2] = name[1] /\ p[3] = name[2] /\ p[4] # 0
        /\ p \in PresentFiles
    BY DEF SourceFrames, Exists, PresentFiles
  <1>2. name[2] = i /\ (name = CanonicalName(i) \/ name[1] = "scene")
    BY DEF CanonicalName, AssignedName
  <1>3. PICK c \in Configs, j \in AllScenes :
            \/ p = <<"video_frames", "canonical", j, 0>>
            \/ \E f \in 1 .. FrameCount[c] : p = <<"video_frames", "canonical", j, f>>
    BY <1>1, PathForms, DirectoryAssumption
  <1>4. PICK f \in 1 .. FrameCount[c] : p = <<"video_frames", "canonical", j, f>>
    BY <1>1, <1>3
  <1>5. j = i /\ p[4] = f /\ p[2] = "canonical"
    BY <1>1, <1>2, <1>4
  <1>6. name = CanonicalName(i)
    BY <1>1, <1>2, <1>5
  <1>7. f \in Nat \ {0}
    BY DatasetAssumption
  <1>. QED  BY <1>1, <1>4, <1>5, <1>6, <1>7

LEMMA TargetsFound ==
    ASSUME NEW i, NEW name \in {CanonicalName(i), AssignedName(i)}, NEW p \in SourceTargets(name)
    PROVE  /\ p = <<"targets", "canonical", i, p[4]>> /\ name = CanonicalName(i) /\ i \in AllScenes
           /\ \E c \in Configs : p[4] \in ExpectedTaskIds(ShapeCount[c])
           /\ p \in PresentFiles
  <1>1. p \in Paths /\ p[1] = "targets" /\ p[2] = name[1] /\ p[3] = name[2] /\ p \in PresentFiles
    BY DEF SourceTargets, Exists, PresentFiles
  <1>2. name[2] = i /\ (name = CanonicalName(i) \/ name[1] = "scene")
    BY DEF CanonicalName, AssignedName
  <1>3. PICK c \in Configs, j \in AllScenes :
            \E t \in ExpectedTaskIds(ShapeCount[c]) : p = <<"targets", "canonical", j, t>>
    BY <1>1, PathForms, DirectoryAssumption
  <1>4. PICK t \in ExpectedTaskIds(ShapeCount[c]) : p = <<"targets", "canonical", j, t>>
    BY <1>3
  <1>5. j = i /\ p[4] = t /\ p[2] = "canonical"
    BY <1>1, <1>2, <1>4
  <1>6. name = CanonicalName(i)
    BY <1>1, <1>2, <1>5
  <1>. QED  BY <1>1, <1>4, <1>5, <1>6

(* A scene that can be exported is found under its canonical name: no run  *)
(* writes any other.                                                       *)
LEMMA Resolved ==
    ASSUME NEW i, Resolvable(i)
    PROVE  /\ ResolveSourceSceneId(i) = CanonicalName(i) /\ SourceComplete(CanonicalName(i))
           /\ i \in AllScenes
  <1>1. PICK names : names = SourceSceneIdCandidates(i)
    OBVIOUS
  <1>2. names = <<CanonicalName(i), AssignedName(i)>>
    BY <1>1 DEF SourceSceneIdCandidates
  <1>3. PICK found : found = {n \in DOMAIN names : SourceComplete(names[n])}
    OBVIOUS
  <1>4. found # {} /\ found \subseteq Nat
    BY <1>1, <1>2, <1>3 DEF Resolvable
  <1>5. Min(found) \in found
    <2>1. \E m \in found : \A k \in found : m <= k
      BY <1>4, Least
    <2>. QED  BY <2>1 DEF Min
  <1>6. PICK name : name = names[Min(found)]
    OBVIOUS
  <1>7. name \in {CanonicalName(i), AssignedName(i)} /\ SourceComplete(name)
    BY <1>2, <1>3, <1>5, <1>6
  <1>8. PICK p : p \in SourceTargets(name)
    BY <1>7 DEF SourceComplete
  <1>9. name = CanonicalName(i) /\ i \in AllScenes
    BY <1>7, <1>8, TargetsFound
  <1>10. ResolveSourceSceneId(i) = name
    BY <1>1, <1>3, <1>6 DEF ResolveSourceSceneId
  <1>. QED  BY <1>7, <1>9, <1>10

(* The copies of a scene: its artifacts, the frame directory, the frames   *)
(* and the targets found.                                                  *)
CopyParts(i, A, D, F, T) ==
    /\ SceneCopies(i) = ((A \o D) \o F) \o T
    /\ DOMAIN A = DOMAIN ArtifactDirs
    /\ \A a \in DOMAIN A : A[a] = Copy(ArtifactPath(ArtifactDirs[a], CanonicalName(i)), i)
    /\ A \in Seq(ToSet(A)) /\ D \in Seq(ToSet(D)) /\ F \in Seq(ToSet(F)) /\ T \in Seq(ToSet(T))
    /\ ToSet(D) = {Copy(FrameDirPath(CanonicalName(i)), i)} /\ Len(D) = 1
    /\ ToSet(F) = {Copy(p, i) : p \in SourceFrames(CanonicalName(i))}
    /\ Len(F) = Cardinality(SourceFrames(CanonicalName(i)))
    /\ ToSet(T) = {Copy(p, i) : p \in SourceTargets(CanonicalName(i))}
    /\ Len(T) = Cardinality(SourceTargets(CanonicalName(i)))

(* A listing, each member copied. *)
LEMMA Mapped ==
    ASSUME NEW S, NEW s \in Seq(S), ToSet(s) = S, NEW i, NEW r, r = [n \in DOMAIN s |-> Copy(s[n], i)]
    PROVE  r \in Seq(ToSet(r)) /\ Len(r) = Len(s) /\ ToSet(r) = {Copy(p, i) : p \in S}
  <1>1. PICK n \in Nat : n = Len(s) /\ DOMAIN s = 1 .. n
    OBVIOUS
  <1>. DEFINE q == [k \in 1 .. n |-> Copy(s[k], i)]
  <1>2. q \in [1 .. n -> ToSet(q)]
    BY DEF ToSet
  <1>3. q \in Seq(ToSet(q)) /\ Len(q) = n
    <2>1. PICK X, x : X = ToSet(q) /\ x = q
      OBVIOUS
    <2>2. x \in [1 .. n -> X]
      BY <1>2, <2>1
    <2>3. x \in Seq(X) /\ Len(x) = n
      BY <2>2
    <2>. QED  BY <2>1, <2>3
  <1>4. ToSet(q) = {Copy(p, i) : p \in S}
    <2>1. ToSet(s) = {s[k] : k \in 1 .. n}
      BY <1>1 DEF ToSet
    <2>2. ToSet(q) = {Copy(s[k], i) : k \in 1 .. n}
      BY DEF ToSet
    <2>. QED  BY <2>1, <2>2
  <1>5. r = q
    BY <1>1
  <1>. HIDE DEF q
  <1>. QED  BY <1>1, <1>3, <1>4, <1>5

LEMMA SceneCopyParts ==
    ASSUME FilesFinite, NEW i, Resolvable(i)
    PROVE  \E A, D, F, T : CopyParts(i, A, D, F, T)
  <1>1. PICK name, frames, targets :
            /\ name = CanonicalName(i)
            /\ frames = InOrder(SourceFrames(name), [p \in SourceFrames(name) |-> p[4]])
            /\ targets = SetToSeq(SourceTargets(name))
    OBVIOUS
  <1>2. ResolveSourceSceneId(i) = name
    BY <1>1, Resolved
  <1>3. IsFiniteSet(SourceFrames(name)) /\ IsFiniteSet(SourceTargets(name))
    <2>1. SourceFrames(name) \in SUBSET PresentFiles /\ SourceTargets(name) \in SUBSET PresentFiles
      BY DEF SourceFrames, SourceTargets, Exists, PresentFiles
    <2>. QED  BY <2>1, FS_Subset DEF FilesFinite
  <1>4. frames \in Seq(SourceFrames(name)) /\ Len(frames) = Cardinality(SourceFrames(name))
        /\ ToSet(frames) = SourceFrames(name)
    <2>1. PICK S, key : S = SourceFrames(name) /\ key = [p \in S |-> p[4]]
      OBVIOUS
    <2>2. \A p \in S : p[4] \in Nat /\ p = <<"video_frames", "canonical", i, p[4]>>
      BY <1>1, <2>1, FramesFound
    <2>3. key \in [S -> Nat] /\ \A x, y \in S : key[x] = key[y] => x = y
      BY <2>1, <2>2
    <2>. QED  BY <1>1, <1>3, <2>1, <2>3, InOrderLists
  <1>5. targets \in Seq(SourceTargets(name)) /\ Len(targets) = Cardinality(SourceTargets(name))
        /\ ToSet(targets) = SourceTargets(name)
    BY <1>1, <1>3, SetToSeqLists
  <1>. DEFINE A == [a \in DOMAIN ArtifactDirs |-> Copy(ArtifactPath(ArtifactDirs[a], name), i)]
              D == <<Copy(FrameDirPath(name), i)>>
              F == [f \in DOMAIN frames |-> Copy(frames[f], i)]
              T == [t \in DOMAIN targets |-> Copy(targets[t], i)]
  <1>6. SceneCopies(i) = A \o D \o F \o T
    BY <1>1, <1>2 DEF SceneCopies
  <1>7. /\ A \in Seq(ToSet(A)) /\ DOMAIN A = DOMAIN ArtifactDirs
        /\ \A a \in DOMAIN A : A[a] = Copy(ArtifactPath(ArtifactDirs[a], name), i)
    <2>1. PICK m \in Nat : DOMAIN ArtifactDirs = 1 .. m
      BY DirectoryAssumption
    <2>2. A \in [1 .. m -> ToSet(A)]
      BY <2>1 DEF ToSet
    <2>. QED  BY <2>2
  <1>8. D \in Seq(ToSet(D)) /\ Len(D) = 1 /\ ToSet(D) = {Copy(FrameDirPath(name), i)}
    BY DEF ToSet
  <1>9. F \in Seq(ToSet(F)) /\ Len(F) = Len(frames) /\ ToSet(F) = {Copy(p, i) : p \in SourceFrames(name)}
    <2>1. PICK S, r : S = SourceFrames(name) /\ r = F
      OBVIOUS
    <2>2. /\ r = [k \in DOMAIN frames |-> Copy(frames[k], i)]
          /\ frames \in Seq(S) /\ ToSet(frames) = S
      BY <1>4, <2>1
    <2>3. r \in Seq(ToSet(r)) /\ Len(r) = Len(frames) /\ ToSet(r) = {Copy(p, i) : p \in S}
      <3>. HIDE DEF F
      <3>. QED  BY <2>2, Mapped
    <2>. QED  BY <2>1, <2>3
  <1>10. T \in Seq(ToSet(T)) /\ Len(T) = Len(targets) /\ ToSet(T) = {Copy(p, i) : p \in SourceTargets(name)}
    <2>1. PICK S, r : S = SourceTargets(name) /\ r = T
      OBVIOUS
    <2>2. /\ r = [k \in DOMAIN targets |-> Copy(targets[k], i)]
          /\ targets \in Seq(S) /\ ToSet(targets) = S
      BY <1>5, <2>1
    <2>3. r \in Seq(ToSet(r)) /\ Len(r) = Len(targets) /\ ToSet(r) = {Copy(p, i) : p \in S}
      <3>. HIDE DEF T
      <3>. QED  BY <2>2, Mapped
    <2>. QED  BY <2>1, <2>3
  <1>. HIDE DEF A, D, F, T
  <1>11. CopyParts(i, A, D, F, T)
    BY <1>1, <1>4, <1>5, <1>6, <1>7, <1>8, <1>9, <1>10 DEF CopyParts
  <1>. QED  BY <1>11, Zenon

SourcePaths(i) ==
    {ArtifactPath(ArtifactDirs[a], CanonicalName(i)) : a \in DOMAIN ArtifactDirs}
        \cup {FrameDirPath(CanonicalName(i))}
        \cup SourceFrames(CanonicalName(i)) \cup SourceTargets(CanonicalName(i))

CopiesOfScene(i) == {Copy(p, i) : p \in SourcePaths(i)}

LEMMA SceneCopiesAre ==
    ASSUME FilesFinite, NEW i, Resolvable(i)
    PROVE  SceneCopies(i) \in Seq(CopiesOfScene(i)) /\ ToSet(SceneCopies(i)) = CopiesOfScene(i)
  <1>. DEFINE W == CopiesOfScene(i)
  <1>1. PICK A, D, F, T : CopyParts(i, A, D, F, T)
    BY SceneCopyParts, Zenon
  <1>2. /\ SceneCopies(i) = ((A \o D) \o F) \o T
        /\ DOMAIN A = DOMAIN ArtifactDirs
        /\ \A a \in DOMAIN A : A[a] = Copy(ArtifactPath(ArtifactDirs[a], CanonicalName(i)), i)
        /\ A \in Seq(ToSet(A)) /\ D \in Seq(ToSet(D)) /\ F \in Seq(ToSet(F)) /\ T \in Seq(ToSet(T))
        /\ ToSet(D) = {Copy(FrameDirPath(CanonicalName(i)), i)}
        /\ ToSet(F) = {Copy(p, i) : p \in SourceFrames(CanonicalName(i))}
        /\ ToSet(T) = {Copy(p, i) : p \in SourceTargets(CanonicalName(i))}
    BY <1>1, Zenon DEF CopyParts
  <1>3. ToSet(A) = {Copy(ArtifactPath(ArtifactDirs[a], CanonicalName(i)), i) : a \in DOMAIN ArtifactDirs}
    BY <1>2 DEF ToSet
  <1>4. W = ToSet(A) \union ToSet(D) \union ToSet(F) \union ToSet(T)
    <2>1. \A x : x \in W <=> \E p \in SourcePaths(i) : x = Copy(p, i)
      BY DEF CopiesOfScene
    <2>. HIDE DEF W
    <2>2. \A x : x \in W <=> x \in ToSet(A) \union ToSet(D) \union ToSet(F) \union ToSet(T)
      <3>1. \A p : p \in SourcePaths(i) <=>
               \/ \E a \in DOMAIN ArtifactDirs : p = ArtifactPath(ArtifactDirs[a], CanonicalName(i))
               \/ p = FrameDirPath(CanonicalName(i))
               \/ p \in SourceFrames(CanonicalName(i)) \/ p \in SourceTargets(CanonicalName(i))
        BY DEF SourcePaths
      <3>2. /\ \A x : x \in ToSet(A) <=> \E a \in DOMAIN ArtifactDirs :
                                            x = Copy(ArtifactPath(ArtifactDirs[a], CanonicalName(i)), i)
            /\ \A x : x \in ToSet(D) <=> x = Copy(FrameDirPath(CanonicalName(i)), i)
            /\ \A x : x \in ToSet(F) <=> \E p \in SourceFrames(CanonicalName(i)) : x = Copy(p, i)
            /\ \A x : x \in ToSet(T) <=> \E p \in SourceTargets(CanonicalName(i)) : x = Copy(p, i)
        BY <1>2, <1>3
      <3>3. ASSUME NEW x \in W
            PROVE  x \in ToSet(A) \/ x \in ToSet(D) \/ x \in ToSet(F) \/ x \in ToSet(T)
        <4>1. PICK p \in SourcePaths(i) : x = Copy(p, i)
          BY <2>1
        <4>. QED  BY <3>1, <3>2, <4>1
      <3>4. ASSUME NEW x, x \in ToSet(A) \/ x \in ToSet(D) \/ x \in ToSet(F) \/ x \in ToSet(T)
            PROVE  x \in W
        <4>1. PICK p : p \in SourcePaths(i) /\ x = Copy(p, i)
          BY <3>1, <3>2, <3>4
        <4>. QED  BY <2>1, <4>1
      <3>. QED  BY <3>3, <3>4
    <2>. QED  BY <2>2
  <1>. HIDE DEF W
  <1>5. A \in Seq(W) /\ D \in Seq(W) /\ F \in Seq(W) /\ T \in Seq(W)
    <2>1. ToSet(A) \subseteq W /\ ToSet(D) \subseteq W /\ ToSet(F) \subseteq W /\ ToSet(T) \subseteq W
      BY <1>4
    <2>. QED  BY <1>2, <2>1, SeqMonotonic
  <1>6. PICK U : U = A \o D
    OBVIOUS
  <1>11. PICK V : V = U \o F
    OBVIOUS
  <1>7. U \in Seq(W) /\ ToSet(U) = ToSet(A) \union ToSet(D)
    BY <1>5, <1>6, ConcatSet
  <1>8. V \in Seq(W) /\ ToSet(V) = ToSet(U) \union ToSet(F)
    BY <1>5, <1>7, <1>11, ConcatSet
  <1>9. V \o T \in Seq(W) /\ ToSet(V \o T) = ToSet(V) \union ToSet(T)
    BY <1>5, <1>8, ConcatSet
  <1>10. SceneCopies(i) \in Seq(W) /\ ToSet(SceneCopies(i)) = W
    BY <1>2, <1>4, <1>6, <1>7, <1>8, <1>9, <1>11
  <1>. QED  BY <1>10 DEF W

(* What a copied path is a copy of. *)
LEMMA SourcePathForms ==
    ASSUME NEW i, Resolvable(i), NEW p \in SourcePaths(i)
    PROVE  /\ p = <<p[1], "canonical", i, p[4]>> /\ p[1] # "metadata"
           /\ p \in Paths /\ store[p] # Absent
           /\ \/ p[1] \in {ArtifactDirs[a] : a \in DOMAIN ArtifactDirs} /\ p[4] = 0
              \/ p[1] = "video_frames" \/ p[1] = "targets"
           /\ <<p[1], "scene", i, p[4]>> \in OutPaths
  <1>1. SourceComplete(CanonicalName(i)) /\ i \in AllScenes
    BY Resolved
  <1>2. /\ p = <<p[1], "canonical", i, p[4]>> /\ p[1] # "metadata"
        /\ p \in Paths /\ store[p] # Absent
        /\ \/ p[1] \in {ArtifactDirs[a] : a \in DOMAIN ArtifactDirs} /\ p[4] = 0
           \/ p[1] = "video_frames" \/ p[1] = "targets"
    <2>1. CASE p \in SourceFrames(CanonicalName(i))
      <3>1. p = <<"video_frames", "canonical", i, p[4]>> /\ p \in PresentFiles
        BY <2>1, FramesFound
      <3>. QED  BY <3>1 DEF PresentFiles
    <2>2. CASE p \in SourceTargets(CanonicalName(i))
      <3>1. p = <<"targets", "canonical", i, p[4]>> /\ p \in PresentFiles
        BY <2>2, TargetsFound
      <3>. QED  BY <3>1 DEF PresentFiles
    <2>3. CASE p = FrameDirPath(CanonicalName(i))
      <3>1. Exists(p)
        BY <1>1, <2>3 DEF SourceComplete
      <3>. QED  BY <2>3, <3>1 DEF Exists, FrameDirPath, CanonicalName
    <2>4. ASSUME NEW a \in DOMAIN ArtifactDirs, p = ArtifactPath(ArtifactDirs[a], CanonicalName(i))
          PROVE  /\ p = <<p[1], "canonical", i, p[4]>> /\ p[1] # "metadata"
                 /\ p \in Paths /\ store[p] # Absent
                 /\ p[1] \in {ArtifactDirs[b] : b \in DOMAIN ArtifactDirs} /\ p[4] = 0
      <3>1. Exists(p)
        BY <1>1, <2>4 DEF SourceComplete
      <3>2. p = <<ArtifactDirs[a], "canonical", i, 0>>
        BY <2>4 DEF ArtifactPath, CanonicalName
      <3>. QED  BY <3>1, <3>2, DirectoryAssumption DEF Exists
    <2>. QED  BY <2>1, <2>2, <2>3, <2>4 DEF SourcePaths
  <1>3. <<p[1], "scene", i, p[4]>> \in OutPaths
    <2>1. PICK c \in Configs :
             \/ \E a \in DOMAIN ArtifactDirs : p = <<ArtifactDirs[a], "canonical", i, 0>>
             \/ p = <<"video_frames", "canonical", i, 0>>
             \/ \E f \in 1 .. FrameCount[c] : p = <<"video_frames", "canonical", i, f>>
             \/ \E t \in ExpectedTaskIds(ShapeCount[c]) : p = <<"targets", "canonical", i, t>>
      BY <1>2, PathForms
    <2>2. /\ \A a \in DOMAIN ArtifactDirs : <<ArtifactDirs[a], "scene", i, 0>> \in PathsOfScene(c, AssignedName(i))
          /\ <<"video_frames", "scene", i, 0>> \in PathsOfScene(c, AssignedName(i))
          /\ \A f \in 1 .. FrameCount[c] : <<"video_frames", "scene", i, f>> \in PathsOfScene(c, AssignedName(i))
          /\ \A t \in ExpectedTaskIds(ShapeCount[c]) : <<"targets", "scene", i, t>> \in PathsOfScene(c, AssignedName(i))
      BY DEF PathsOfScene, AssignedName, ArtifactPath, FrameDirPath, FramePath, TargetPath
    <2>3. <<p[1], "scene", i, p[4]>> \in PathsOfScene(c, AssignedName(i))
      BY <2>1, <2>2
    <2>. QED  BY <1>1, <2>3 DEF OutPaths
  <1>. QED  BY <1>2, <1>3

LEMMA CopyForms ==
    ASSUME NEW i, Resolvable(i), NEW w \in CopiesOfScene(i)
    PROVE  /\ w.path = <<w.path[1], "scene", i, w.path[4]>> /\ w.path[1] # "metadata" /\ w.path \in OutPaths
           /\ <<w.path[1], "canonical", i, w.path[4]>> \in SourcePaths(i)
           /\ w.content = store[<<w.path[1], "canonical", i, w.path[4]>>] /\ w.content # Absent
  <1>1. PICK p \in SourcePaths(i) : w = Copy(p, i)
    BY DEF CopiesOfScene
  <1>2. w.path = <<p[1], "scene", i, p[4]>> /\ w.content = store[p]
    BY <1>1 DEF Copy, Wr, Renamed, AssignedName
  <1>3. /\ p = <<p[1], "canonical", i, p[4]>> /\ p[1] # "metadata" /\ store[p] # Absent
        /\ <<p[1], "scene", i, p[4]>> \in OutPaths
    BY SourcePathForms
  <1>4. w.path[1] = p[1] /\ w.path[4] = p[4]
    BY <1>2
  <1>. QED  BY <1>2, <1>3, <1>4

(* The scenes of a selection are taken one after the other. *)
LEMMA ScenesListed ==
    ASSUME NEW record, NEW split, NEW I, I = SelectAssignments(record.split.assignments, split),
           IsFiniteSet(I), I \subseteq Nat
    PROVE  /\ SelectedScenes(record, split) \in Seq(I) /\ ToSet(SelectedScenes(record, split)) = I
           /\ Len(SelectedScenes(record, split)) = Cardinality(I)
  <1>1. PICK key : key = [i \in I |-> i]
    OBVIOUS
  <1>2. key \in [I -> Nat] /\ \A x, y \in I : key[x] = key[y] => x = y
    BY <1>1
  <1>3. SelectedScenes(record, split) = InOrder(I, key)
    BY <1>1 DEF SelectedScenes
  <1>. QED  BY <1>2, <1>3, InOrderLists

(* Copying ends before the first scene that is not found. *)
LEMMA CopiesListed ==
    ASSUME NEW I, NEW scenes \in Seq(I), FilesFinite
    PROVE  \E last \in 0 .. Len(scenes) :
             /\ \A n \in 1 .. last : Resolvable(scenes[n])
             /\ CopiesOf(scenes) = FlattenSeq([n \in 1 .. last |-> SceneCopies(scenes[n])])
             /\ (\A n \in DOMAIN scenes : Resolvable(scenes[n])) => last = Len(scenes)
  <1>1. PICK m \in Nat : m = Len(scenes) /\ DOMAIN scenes = 1 .. m
    OBVIOUS
  <1>2. PICK stop : stop = {n \in DOMAIN scenes : ~Resolvable(scenes[n])}
    OBVIOUS
  <1>3. PICK last : last = IF stop = {} THEN m ELSE Min(stop) - 1
    OBVIOUS
  <1>4. CopiesOf(scenes) = FlattenSeq([n \in 1 .. last |-> SceneCopies(scenes[n])])
    BY <1>1, <1>2, <1>3 DEF CopiesOf
  <1>5. last \in 0 .. m /\ \A n \in 1 .. last : Resolvable(scenes[n])
    <2>1. CASE stop = {}
      BY <1>1, <1>2, <1>3, <2>1
    <2>2. CASE stop # {}
      <3>1. stop \subseteq Nat
        BY <1>1, <1>2
      <3>2. \E k \in stop : \A j \in stop : k <= j
        BY <2>2, <3>1, Least
      <3>3. PICK k : k = Min(stop) /\ k \in stop /\ \A j \in stop : k <= j
        BY <3>2 DEF Min
      <3>4. last = k - 1 /\ k \in 1 .. m
        BY <1>1, <1>2, <1>3, <2>2, <3>3
      <3>5. \A n \in 1 .. last : n \notin stop /\ n \in DOMAIN scenes
        BY <1>1, <3>3, <3>4
      <3>. QED  BY <1>2, <3>4, <3>5
    <2>. QED  BY <2>1, <2>2
  <1>6. (\A n \in DOMAIN scenes : Resolvable(scenes[n])) => last = m
    BY <1>2, <1>3
  <1>. QED  BY <1>1, <1>4, <1>5, <1>6

LEMMA CopiesAre ==
    ASSUME NEW I, NEW scenes \in Seq(I), FilesFinite
    PROVE  /\ CopiesOf(scenes) \in Seq(ToSet(CopiesOf(scenes)))
           /\ \A w \in ToSet(CopiesOf(scenes)) : \E i \in I : Resolvable(i) /\ w \in CopiesOfScene(i)
           /\ (\A n \in DOMAIN scenes : Resolvable(scenes[n])) =>
                 \A i \in ToSet(scenes) : CopiesOfScene(i) \subseteq ToSet(CopiesOf(scenes))
  <1>1. PICK last \in 0 .. Len(scenes) :
             /\ \A n \in 1 .. last : Resolvable(scenes[n])
             /\ CopiesOf(scenes) = FlattenSeq([n \in 1 .. last |-> SceneCopies(scenes[n])])
             /\ (\A n \in DOMAIN scenes : Resolvable(scenes[n])) => last = Len(scenes)
    BY CopiesListed
  <1>2. PICK m \in Nat : m = Len(scenes) /\ DOMAIN scenes = 1 .. m
    OBVIOUS
  <1>3. PICK C : C = CopiesOf(scenes)
    OBVIOUS
  <1>4. PICK ss : ss = [n \in 1 .. last |-> SceneCopies(scenes[n])]
    OBVIOUS
  <1>5. PICK W : W = UNION {CopiesOfScene(scenes[n]) : n \in 1 .. last}
    OBVIOUS
  <1>6. \A n \in 1 .. last : ss[n] \in Seq(W) /\ ToSet(ss[n]) = CopiesOfScene(scenes[n])
    <2>. TAKE n \in 1 .. last
    <2>1. Resolvable(scenes[n])
      BY <1>1
    <2>2. /\ SceneCopies(scenes[n]) \in Seq(CopiesOfScene(scenes[n]))
          /\ ToSet(SceneCopies(scenes[n])) = CopiesOfScene(scenes[n])
      BY <2>1, SceneCopiesAre
    <2>3. CopiesOfScene(scenes[n]) \subseteq W
      BY <1>5
    <2>4. SceneCopies(scenes[n]) \in Seq(W)
      BY <2>2, <2>3, SeqMonotonic
    <2>. QED  BY <1>4, <2>2, <2>4
  <1>7. ss \in Seq(Seq(W)) /\ DOMAIN ss = 1 .. last
    <2>1. last \in Nat
      BY <1>1, <1>2
    <2>2. ss \in [1 .. last -> Seq(W)]
      BY <1>4, <1>6
    <2>. QED  BY <2>1, <2>2
  <1>8. C \in Seq(W) /\ \A n \in 1 .. last : ToSet(ss[n]) \subseteq ToSet(C)
    BY <1>1, <1>3, <1>4, <1>7, FlattenMembers
  <1>9. C \in Seq(ToSet(C)) /\ ToSet(C) \subseteq W
    <2>1. \A k \in DOMAIN C : C[k] \in W /\ C[k] \in ToSet(C)
      BY <1>8 DEF ToSet
    <2>2. PICK l \in Nat : DOMAIN C = 1 .. l /\ C = [k \in 1 .. l |-> C[k]]
      BY <1>8
    <2>3. PICK X : X = ToSet(C)
      OBVIOUS
    <2>4. C \in Seq(X)
      BY <2>1, <2>2, <2>3
    <2>5. ToSet(C) \subseteq W
      BY <2>1 DEF ToSet
    <2>. QED  BY <2>3, <2>4, <2>5
  <1>10. ASSUME NEW w \in ToSet(C)
         PROVE  \E i \in I : Resolvable(i) /\ w \in CopiesOfScene(i)
    <2>1. PICK n \in 1 .. last : w \in CopiesOfScene(scenes[n])
      BY <1>5, <1>9
    <2>2. n \in DOMAIN scenes
      BY <1>1, <1>2
    <2>3. scenes[n] \in I /\ Resolvable(scenes[n])
      BY <1>1, <2>2
    <2>. QED  BY <2>1, <2>3
  <1>11. ASSUME \A n \in DOMAIN scenes : Resolvable(scenes[n]), NEW i \in ToSet(scenes)
         PROVE  CopiesOfScene(i) \subseteq ToSet(C)
    <2>1. PICK n \in DOMAIN scenes : scenes[n] = i
      BY DEF ToSet
    <2>2. n \in 1 .. last
      BY <1>1, <1>2, <1>11
    <2>. QED  BY <1>6, <1>8, <2>1, <2>2
  <1>. QED  BY <1>3, <1>9, <1>10, <1>11

(* What a file holds after writes of which no two write it differently. *)
LEMMA Applied ==
    ASSUME NEW files, NEW writes, NEW p \in DOMAIN files
    PROVE  /\ DOMAIN Apply(files, writes) = DOMAIN files
           /\ \/ \E w \in ToSet(writes) : w.path = p /\ Apply(files, writes)[p] = w.content
              \/ (\A w \in ToSet(writes) : w.path # p) /\ Apply(files, writes)[p] = files[p]
  <1>1. Apply(files, writes)[p] = IF \E w \in DOMAIN writes : writes[w].path = p
                                  THEN writes[CHOOSE w \in DOMAIN writes : writes[w].path = p].content
                                  ELSE files[p]
    BY DEF Apply
  <1>2. CASE \E w \in DOMAIN writes : writes[w].path = p
    <2>1. PICK c : c = CHOOSE w \in DOMAIN writes : writes[w].path = p
      OBVIOUS
    <2>2. c \in DOMAIN writes /\ writes[c].path = p
      BY <1>2, <2>1
    <2>3. writes[c] \in ToSet(writes)
      BY <2>2 DEF ToSet
    <2>4. Apply(files, writes)[p] = writes[c].content
      BY <1>1, <1>2, <2>1
    <2>. QED  BY <2>2, <2>3, <2>4 DEF Apply
  <1>3. CASE ~ \E w \in DOMAIN writes : writes[w].path = p
    BY <1>1, <1>3 DEF Apply, ToSet
  <1>. QED  BY <1>2, <1>3

CopiedMetadataFiles == {Wr(MetadataPath(f), File(f)) : f \in {"config", "site_graph", "site_metadata"}}

LEMMA MetadataCopied ==
    MetadataCopies \in Seq(CopiedMetadataFiles) /\ ToSet(MetadataCopies) = CopiedMetadataFiles
  <1>1. PICK c : c = CopiedMetadata
    OBVIOUS
  <1>2. c = <<"config", "site_graph", "site_metadata">> /\ DOMAIN c = 1 .. 3
    BY <1>1 DEF CopiedMetadata
  <1>3. PICK M : M = [m \in 1 .. 3 |-> Wr(MetadataPath(c[m]), File(c[m]))]
    OBVIOUS
  <1>4. MetadataCopies = M
    BY <1>1, <1>2, <1>3 DEF MetadataCopies
  <1>5. /\ M[1] = Wr(MetadataPath("config"), File("config"))
        /\ M[2] = Wr(MetadataPath("site_graph"), File("site_graph"))
        /\ M[3] = Wr(MetadataPath("site_metadata"), File("site_metadata"))
    BY <1>2, <1>3
  <1>6. CopiedMetadataFiles = {M[1], M[2], M[3]}
    BY <1>5 DEF CopiedMetadataFiles
  <1>7. DOMAIN M = {1, 2, 3} /\ \A m \in 1 .. 3 : M[m] \in {M[1], M[2], M[3]}
    BY <1>3
  <1>8. ToSet(M) = {M[1], M[2], M[3]}
    BY <1>7 DEF ToSet
  <1>9. M \in Seq({M[1], M[2], M[3]})
    BY <1>3, <1>7
  <1>. QED  BY <1>4, <1>6, <1>8, <1>9

(* An export that was whole wrote the metadata, the filtered assignments,  *)
(* the copies of every scene selected, and the manifest.                   *)
LEMMA WholeExport ==
    ASSUME FilesFinite, NEW record, NEW split, NEW I, I = SelectAssignments(record.split.assignments, split),
           IsFiniteSet(I), I \subseteq Nat, Whole(ExportWrites(record, split))
    PROVE  LET copies == CopiesOf(SelectedScenes(record, split))
           IN  /\ \A i \in I : Resolvable(i)
               /\ \A w : w \in ToSet(ExportWrites(record, split)) <=>
                    \/ w \in CopiedMetadataFiles
                    \/ w = Wr(MetadataPath("split_assignments"), FilteredRecord(record, split))
                    \/ \E i \in I : w \in CopiesOfScene(i)
                    \/ w = Wr(MetadataPath("export_split"), Manifest(split, copies))
  <1>1. PICK scenes : scenes = SelectedScenes(record, split)
    OBVIOUS
  <1>2. scenes \in Seq(I) /\ ToSet(scenes) = I
    BY <1>1, ScenesListed
  <1>3. PICK copies : copies = CopiesOf(scenes)
    OBVIOUS
  <1>4. /\ copies \in Seq(ToSet(copies))
        /\ \A w \in ToSet(copies) : \E i \in I : Resolvable(i) /\ w \in CopiesOfScene(i)
        /\ (\A n \in DOMAIN scenes : Resolvable(scenes[n])) =>
              \A i \in I : CopiesOfScene(i) \subseteq ToSet(copies)
    BY <1>2, <1>3, CopiesAre
  <1>5. PICK M, s, e : /\ M = MetadataCopies
                       /\ s = Wr(MetadataPath("split_assignments"), FilteredRecord(record, split))
                       /\ e = Wr(MetadataPath("export_split"), Manifest(split, copies))
    OBVIOUS
  <1>6. PICK all : all <=> \A n \in DOMAIN scenes : Resolvable(scenes[n])
    OBVIOUS
  <1>7. PICK tail : tail = IF all THEN <<e>> ELSE <<>>
    OBVIOUS
  <1>8. PICK writes : writes = ExportWrites(record, split)
    OBVIOUS
  <1>9. writes = ((M \o <<s>>) \o copies) \o tail
    BY <1>1, <1>3, <1>5, <1>6, <1>7, <1>8 DEF ExportWrites
  <1>10. PICK W : W = ToSet(M) \cup {s} \cup ToSet(copies) \cup {e}
    OBVIOUS
  <1>11. M \in Seq(W)
    <2>1. M \in Seq(CopiedMetadataFiles) /\ CopiedMetadataFiles \subseteq W
      BY <1>5, <1>10, MetadataCopied
    <2>. QED  BY <2>1, SeqMonotonic
  <1>12. <<s>> \in Seq(W) /\ ToSet(<<s>>) = {s}
    BY <1>10 DEF ToSet
  <1>13. copies \in Seq(W)
    <2>1. ToSet(copies) \subseteq W
      BY <1>10
    <2>. QED  BY <1>4, <2>1, SeqMonotonic
  <1>14. tail \in Seq(W) /\ ToSet(tail) = IF all THEN {e} ELSE {}
    <2>1. e \in W
      BY <1>10
    <2>2. CASE all
      BY <1>7, <2>1, <2>2 DEF ToSet
    <2>3. CASE ~all
      BY <1>7, <2>3 DEF ToSet
    <2>. QED  BY <2>2, <2>3
  <1>15. PICK U : U = M \o <<s>>
    OBVIOUS
  <1>16. PICK V : V = U \o copies
    OBVIOUS
  <1>17. U \in Seq(W) /\ ToSet(U) = ToSet(M) \cup {s}
    <2>1. PICK t : t = <<s>>
      OBVIOUS
    <2>2. M \o t \in Seq(W) /\ ToSet(M \o t) = ToSet(M) \cup ToSet(t)
      BY <1>11, <1>12, <2>1, ConcatSet
    <2>. QED  BY <1>12, <1>15, <2>1, <2>2
  <1>18. V \in Seq(W) /\ ToSet(V) = ToSet(U) \cup ToSet(copies)
    BY <1>13, <1>16, <1>17, ConcatSet
  <1>19. V \o tail \in Seq(W) /\ ToSet(V \o tail) = ToSet(V) \cup ToSet(tail)
    BY <1>14, <1>18, ConcatSet
  <1>20. writes \in Seq(W) /\ ToSet(writes) = ToSet(M) \cup {s} \cup ToSet(copies) \cup ToSet(tail)
    BY <1>9, <1>15, <1>16, <1>17, <1>18, <1>19
  <1>21. all
    <2>. SUFFICES ASSUME ~all PROVE FALSE
      OBVIOUS
    <2>1. writes[Len(writes)].path = MetadataPath("export_split")
      BY <1>8 DEF Whole
    <2>2. ToSet(writes) = ToSet(M) \cup {s} \cup ToSet(copies)
      BY <1>14, <1>20
    <2>3. \A w \in ToSet(writes) : w.path # MetadataPath("export_split")
      <3>1. \A w \in ToSet(M) : w.path # MetadataPath("export_split")
        BY <1>5, MetadataCopied DEF CopiedMetadataFiles, Wr, MetadataPath
      <3>2. s.path # MetadataPath("export_split")
        BY <1>5 DEF Wr, MetadataPath
      <3>3. \A w \in ToSet(copies) : w.path[1] # "metadata"
        BY <1>4, CopyForms
      <3>. QED  BY <2>2, <3>1, <3>2, <3>3 DEF MetadataPath
    <2>4. Len(writes) \in DOMAIN writes
      <3>1. s \in ToSet(writes)
        BY <2>2
      <3>2. DOMAIN writes # {}
        BY <3>1 DEF ToSet
      <3>. QED  BY <1>20, <3>2
    <2>5. writes[Len(writes)] \in ToSet(writes)
      BY <2>4 DEF ToSet
    <2>. QED  BY <2>1, <2>3, <2>5
  <1>22. \A i \in I : Resolvable(i)
    BY <1>2, <1>6, <1>21 DEF ToSet
  <1>23. \A w : w \in ToSet(writes) <=> w \in ToSet(M) \/ w = s \/ w \in ToSet(copies) \/ w = e
    BY <1>14, <1>20, <1>21
  <1>24. \A w : w \in ToSet(copies) <=> \E i \in I : w \in CopiesOfScene(i)
    BY <1>4, <1>6, <1>21
  <1>25. ToSet(M) = CopiedMetadataFiles
    BY <1>5, MetadataCopied
  <1>. QED  BY <1>1, <1>3, <1>5, <1>8, <1>22, <1>23, <1>24, <1>25

(* What reading the split assignments may give, whole or cut off: it names *)
(* scenes of the dataset.                                                  *)
LEMMA RecordRead ==
    ASSUME DirectoryKnown, NEW record \in ReadSplitAssignments
    PROVE  \E n \in Nat : DOMAIN record.split.assignments = SceneIndices(n)
  <1>1. PICK p : p = MetadataPath("split_assignments")
    OBVIOUS
  <1>2. p \in Paths /\ File("split_assignments") = store[p] /\ p[1] = "metadata" /\ p[2] = "split_assignments"
    BY <1>1 DEF Paths, MetadataFiles, File, MetadataPath
  <1>3. \A m : DOMAIN Assignments(m) = SceneIndices(m)
    BY DEF Assignments
  <1>4. CASE Readable("split_assignments")
    <2>1. record = store[p] /\ store[p] \notin {Absent, Torn}
      BY <1>2, <1>4 DEF ReadSplitAssignments, Readable
    <2>2. PICK q \in Requests : store[p] = PlannedContent(q, p)
      BY <1>2, <2>1 DEF DirectoryKnown, FileKnown
    <2>3. record = SplitRecord(q.config, BuildSplitAssignments(q.scenes))
      BY <1>2, <2>1, <2>2 DEF PlannedContent
    <2>4. record.split.assignments = Assignments(q.scenes)
      BY <2>3 DEF SplitRecord, BuildSplitAssignments
    <2>. QED  BY <1>3, <2>4, RequestFacts
  <1>5. CASE ~Readable("split_assignments")
    <2>1. PICK m \in SceneCounts : \E n \in 1 .. m :
              record = SplitRecord(File("config"),
                         [BuildSplitAssignments(m) EXCEPT !.assignments = Restrict(Assignments(m), SceneIndices(n))])
      BY <1>5 DEF ReadSplitAssignments, BuildSplitAssignments
    <2>4. PICK n \in 1 .. m :
              record = SplitRecord(File("config"),
                         [BuildSplitAssignments(m) EXCEPT !.assignments = Restrict(Assignments(m), SceneIndices(n))])
      BY <2>1
    <2>2. record.split.assignments = Restrict(Assignments(m), SceneIndices(n))
      BY <2>4 DEF SplitRecord, BuildSplitAssignments
    <2>3. DOMAIN record.split.assignments = SceneIndices(n)
      BY <2>2 DEF Restrict
    <2>. QED  BY <2>3, DatasetAssumption
  <1>. QED  BY <1>4, <1>5

LEMMA Selected ==
    ASSUME DirectoryKnown, NEW record \in ReadSplitAssignments, NEW split,
           NEW I, I = SelectAssignments(record.split.assignments, split)
    PROVE  /\ IsFiniteSet(I) /\ I \subseteq Nat
           /\ DOMAIN FilteredRecord(record, split).split.assignments = I
           /\ FilteredRecord(record, split).split.summary = Summary(FilteredRecord(record, split).split.assignments)
  <1>1. PICK n \in Nat : DOMAIN record.split.assignments = SceneIndices(n)
    BY RecordRead
  <1>2. IsFiniteSet(SceneIndices(n)) /\ SceneIndices(n) \subseteq Nat
    <2>1. 0 \in Int /\ n - 1 \in Int
      OBVIOUS
    <2>. QED  BY <2>1, FS_Interval DEF SceneIndices
  <1>3. I \in SUBSET SceneIndices(n)
    BY <1>1 DEF SelectAssignments
  <1>4. IsFiniteSet(I)
    BY <1>2, <1>3, FS_Subset
  <1>5. PICK s : s = Restrict(record.split.assignments, I)
    OBVIOUS
  <1>6. DOMAIN s = I
    BY <1>5 DEF Restrict
  <1>7. FilteredRecord(record, split) = SplitRecord(record.config, [assignments |-> s, summary |-> Summary(s)])
    BY <1>5 DEF FilteredRecord
  <1>8. PICK u : u = Summary(s)
    OBVIOUS
  <1>9. FilteredRecord(record, split).split.assignments = s /\ FilteredRecord(record, split).split.summary = u
    BY <1>7, <1>8 DEF SplitRecord
  <1>. QED  BY <1>2, <1>3, <1>4, <1>6, <1>8, <1>9

(* The target directory has a file, or none, at each of its paths. *)
OutKnown == out = [p \in OutPaths |-> out[p]]

LEMMA OutStaysKnown == Spec => []OutKnown
  <1>1. Init => OutKnown
    BY DEF Init, ExportInit, OutKnown
  <1>2. OutKnown /\ [Next]_vars => OutKnown'
    <2>. SUFFICES ASSUME OutKnown, [Next]_vars PROVE OutKnown'
      OBVIOUS
    <2>1. CASE UNCHANGED out
      BY <2>1 DEF OutKnown, OutPaths
    <2>2. ASSUME NEW writes, out' = Apply(out, writes)
          PROVE  OutKnown'
      <3>1. DOMAIN out = OutPaths
        BY DEF OutKnown
      <3>2. out' = [p \in OutPaths |->
                      IF \E w \in DOMAIN writes : writes[w].path = p
                      THEN writes[CHOOSE w \in DOMAIN writes : writes[w].path = p].content
                      ELSE out[p]]
        BY <2>2, <3>1 DEF Apply
      <3>3. OutPaths' = OutPaths
        BY DEF OutPaths
      <3>. QED  BY <3>2, <3>3 DEF OutKnown
    <2>. QED  BY <2>1, <2>2 DEF Next, StoreNext, ExportNext, ExportSplit, ExportStops, vars
  <1>. QED  BY <1>1, <1>2, PTL DEF Spec

(* What the target holds after an export that was whole. *)
ExportedFiles(record, split, I, target) ==
    /\ target[MetadataPath("split_assignments")] = FilteredRecord(record, split)
    /\ target[MetadataPath("export_split")] = Manifest(split, CopiesOf(SelectedScenes(record, split)))
    /\ \A i \in I : \A w \in CopiesOfScene(i) : target[w.path] = w.content
    /\ \A p \in OutPaths :
           p[1] # "metadata" /\ (\A i \in I : \A w \in CopiesOfScene(i) : w.path # p) => target[p] = out[p]

LEMMA ExportLeaves ==
    ASSUME FilesFinite, DirectoryKnown, OutKnown, NEW record \in ReadSplitAssignments, NEW split,
           NEW I, I = SelectAssignments(record.split.assignments, split),
           Whole(ExportWrites(record, split))
    PROVE  /\ \A i \in I : Resolvable(i)
           /\ ExportedFiles(record, split, I, Apply(out, ExportWrites(record, split)))
  <1>1. IsFiniteSet(I) /\ I \subseteq Nat
    BY Selected
  <1>2. PICK writes, s, e :
            /\ writes = ExportWrites(record, split)
            /\ s = Wr(MetadataPath("split_assignments"), FilteredRecord(record, split))
            /\ e = Wr(MetadataPath("export_split"), Manifest(split, CopiesOf(SelectedScenes(record, split))))
    OBVIOUS
  <1>3. /\ \A i \in I : Resolvable(i)
        /\ \A w : w \in ToSet(writes) <=>
             \/ w \in CopiedMetadataFiles \/ w = s \/ (\E i \in I : w \in CopiesOfScene(i)) \/ w = e
    BY <1>1, <1>2, WholeExport
  <1>4. PICK target : target = Apply(out, writes)
    OBVIOUS
  <1>5. ASSUME NEW p \in OutPaths
        PROVE  \/ \E w \in ToSet(writes) : w.path = p /\ target[p] = w.content
               \/ (\A w \in ToSet(writes) : w.path # p) /\ target[p] = out[p]
    <2>1. p \in DOMAIN out
      BY DEF OutKnown
    <2>. QED  BY <1>4, <2>1, Applied
  <1>6. /\ \A w \in CopiedMetadataFiles : /\ w.path[1] = "metadata"
                                          /\ w.path # MetadataPath("split_assignments")
                                          /\ w.path # MetadataPath("export_split")
        /\ s.path = MetadataPath("split_assignments") /\ s.content = FilteredRecord(record, split)
        /\ e.path = MetadataPath("export_split")
        /\ e.content = Manifest(split, CopiesOf(SelectedScenes(record, split)))
        /\ s.path # e.path /\ s.path[1] = "metadata" /\ e.path[1] = "metadata"
        /\ s.path \in OutPaths /\ e.path \in OutPaths
    BY <1>2 DEF CopiedMetadataFiles, Wr, MetadataPath, OutPaths, OutMetadata
  <1>7. \A i \in I : \A w \in CopiesOfScene(i) :
            /\ w.path = <<w.path[1], "scene", i, w.path[4]>> /\ w.path[1] # "metadata" /\ w.path \in OutPaths
            /\ w.content = store[<<w.path[1], "canonical", i, w.path[4]>>]
    BY <1>3, CopyForms
  <1>8. target[s.path] = s.content
    <2>1. s \in ToSet(writes)
      BY <1>3
    <2>2. PICK w \in ToSet(writes) : w.path = s.path /\ target[s.path] = w.content
      BY <1>5, <1>6, <2>1
    <2>3. w \notin CopiedMetadataFiles /\ w # e /\ \A i \in I : w \notin CopiesOfScene(i)
      BY <1>6, <1>7, <2>2
    <2>. QED  BY <1>3, <2>2, <2>3
  <1>9. target[e.path] = e.content
    <2>1. e \in ToSet(writes)
      BY <1>3
    <2>2. PICK w \in ToSet(writes) : w.path = e.path /\ target[e.path] = w.content
      BY <1>5, <1>6, <2>1
    <2>3. w \notin CopiedMetadataFiles /\ w # s /\ \A i \in I : w \notin CopiesOfScene(i)
      BY <1>6, <1>7, <2>2
    <2>. QED  BY <1>3, <2>2, <2>3
  <1>10. ASSUME NEW i \in I, NEW v \in CopiesOfScene(i)
         PROVE  target[v.path] = v.content
    <2>1. v \in ToSet(writes) /\ v.path \in OutPaths /\ v.path[1] # "metadata"
      BY <1>3, <1>7
    <2>2. PICK w \in ToSet(writes) : w.path = v.path /\ target[v.path] = w.content
      BY <1>5, <2>1
    <2>3. w \notin CopiedMetadataFiles /\ w # s /\ w # e
      BY <1>6, <2>1, <2>2
    <2>4. PICK j \in I : w \in CopiesOfScene(j)
      BY <1>3, <2>3
    <2>5. w.path = <<w.path[1], "scene", j, w.path[4]>> /\ w.content = store[<<w.path[1], "canonical", j, w.path[4]>>]
      BY <1>7, <2>4
    <2>6. v.path = <<v.path[1], "scene", i, v.path[4]>> /\ v.content = store[<<v.path[1], "canonical", i, v.path[4]>>]
      BY <1>7
    <2>7. i = j
      BY <2>2, <2>5, <2>6
    <2>. QED  BY <2>2, <2>5, <2>6, <2>7
  <1>11. ASSUME NEW p \in OutPaths, p[1] # "metadata",
                \A i \in I : \A w \in CopiesOfScene(i) : w.path # p
         PROVE  target[p] = out[p]
    <2>1. \A w \in ToSet(writes) : w.path # p
      BY <1>3, <1>6, <1>11
    <2>. QED  BY <1>5, <2>1
  <1>12. ExportedFiles(record, split, I, target)
    BY <1>6, <1>8, <1>9, <1>10, <1>11 DEF ExportedFiles
  <1>. QED  BY <1>2, <1>3, <1>4, <1>12

LEMMA ExportedComplete ==
    ASSUME FilesFinite, DirectoryKnown, OutKnown, NEW split, ExportSplit(split)
    PROVE  ExportedScenesComplete'
  <1>1. PICK record \in ReadSplitAssignments :
            Whole(ExportWrites(record, split)) /\ out' = Apply(out, ExportWrites(record, split))
    BY DEF ExportSplit
  <1>2. PICK I : I = SelectAssignments(record.split.assignments, split)
    OBVIOUS
  <1>3. PICK target : target = Apply(out, ExportWrites(record, split)) /\ out' = target
    BY <1>1
  <1>4. /\ \A i \in I : Resolvable(i)
        /\ ExportedFiles(record, split, I, target)
    BY <1>1, <1>2, <1>3, ExportLeaves
  <1>5. PICK filtered : filtered = FilteredRecord(record, split).split
    OBVIOUS
  <1>6. DOMAIN filtered.assignments = I /\ filtered.summary = Summary(filtered.assignments)
    BY <1>2, <1>5, Selected
  <1>7. target[MetadataPath("split_assignments")].split = filtered
    BY <1>4, <1>5 DEF ExportedFiles
  <1>8. \A i \in I : \A w \in CopiesOfScene(i) : target[w.path] = w.content
    BY <1>4 DEF ExportedFiles
  <1>9. ASSUME NEW i \in I, NEW p \in SourcePaths(i)
        PROVE  /\ <<p[1], "scene", i, p[4]>> \in OutPaths
               /\ target[<<p[1], "scene", i, p[4]>>] # Absent
    <2>1. PICK w : w = Copy(p, i)
      OBVIOUS
    <2>2. w \in CopiesOfScene(i) /\ w.path = <<p[1], "scene", i, p[4]>> /\ w.content = store[p]
      BY <2>1 DEF CopiesOfScene, Copy, Renamed, Wr, AssignedName
    <2>3. store[p] # Absent /\ <<p[1], "scene", i, p[4]>> \in OutPaths
      BY <1>4, SourcePathForms
    <2>. QED  BY <1>8, <2>2, <2>3
  <1>10. ASSUME NEW i \in I, NEW a \in DOMAIN ArtifactDirs
         PROVE  target[ArtifactPath(ArtifactDirs[a], AssignedName(i))] # Absent
    <2>1. PICK p : p = ArtifactPath(ArtifactDirs[a], CanonicalName(i))
      OBVIOUS
    <2>2. p \in SourcePaths(i)
      BY <2>1 DEF SourcePaths
    <2>3. ArtifactPath(ArtifactDirs[a], AssignedName(i)) = <<p[1], "scene", i, p[4]>>
      BY <2>1 DEF ArtifactPath, AssignedName, CanonicalName
    <2>. QED  BY <1>9, <2>2, <2>3
  <1>11. ASSUME NEW i \in I
         PROVE  \E p \in OutPaths : p[1] = "targets" /\ p[3] = i /\ target[p] # Absent
    <2>1. Resolvable(i)
      BY <1>4
    <2>2. SourceComplete(CanonicalName(i))
      BY <2>1, Resolved
    <2>3. PICK p : p \in SourceTargets(CanonicalName(i))
      BY <2>2 DEF SourceComplete
    <2>4. p \in SourcePaths(i) /\ p[1] = "targets"
      BY <2>3 DEF SourcePaths, SourceTargets
    <2>5. PICK q : q = <<p[1], "scene", i, p[4]>>
      OBVIOUS
    <2>6. q \in OutPaths /\ target[q] # Absent /\ q[1] = "targets" /\ q[3] = i
      BY <1>9, <2>4, <2>5
    <2>. QED  BY <2>6
  <1>12. OutPaths' = OutPaths
    BY DEF OutPaths
  <1>13. \A i : AssignedName(i)' = AssignedName(i)
    BY DEF AssignedName
  <1>. QED  BY <1>3, <1>6, <1>7, <1>10, <1>11 DEF ExportedScenesComplete

(* The filtered assignments of a finished export name scenes all of whose  *)
(* artifacts are in the target, whatever dataset it was given and however  *)
(* it was left, and their summary counts them (export_split.rs:545).       *)
THEOREM ExportIsComplete == Spec => []ExportedScenesComplete
  <1>1. Init => ExportedScenesComplete
    BY DEF Init, ExportInit, ExportedScenesComplete
  <1>2. /\ ExportedScenesComplete /\ FilesFinite /\ DirectoryKnown /\ OutKnown /\ [Next]_vars
        => ExportedScenesComplete'
    <2>. SUFFICES ASSUME ExportedScenesComplete, FilesFinite, DirectoryKnown, OutKnown, [Next]_vars
                  PROVE  ExportedScenesComplete'
      OBVIOUS
    <2>1. CASE exported' = None
      BY <2>1 DEF ExportedScenesComplete
    <2>2. CASE UNCHANGED vars
      BY <2>2 DEF ExportedScenesComplete, vars
    <2>3. CASE \E s \in Splits : ExportSplit(s)
      BY <2>3, ExportedComplete
    <2>. QED  BY <2>1, <2>2, <2>3 DEF Next, ExportNext, ExportStops
  <1>. QED  BY <1>1, <1>2, FilesStayFinite, DirectoryIsKnown, OutStaysKnown, PTL DEF Spec

(* What an export counts of the scenes it copied. *)
LEMMA CopiesCounted ==
    ASSUME FilesFinite, NEW I, IsFiniteSet(I), NEW scenes \in Seq(I), Len(scenes) = Cardinality(I),
           \A n \in DOMAIN scenes : Resolvable(scenes[n]),
           NEW k \in Nat, \A i \in I : Cardinality(SourceTargets(CanonicalName(i))) = k
    PROVE  /\ WritesInto(CopiesOf(scenes), ArtifactDirs[1]) = Cardinality(I)
           /\ WritesInto(CopiesOf(scenes), "targets") = Cardinality(I) * k
  <1>1. PICK m \in Nat : m = Cardinality(I) /\ m = Len(scenes) /\ DOMAIN scenes = 1 .. m
    BY FS_CardinalityType
  <1>2. PICK last \in 0 .. Len(scenes) :
             /\ \A n \in 1 .. last : Resolvable(scenes[n])
             /\ CopiesOf(scenes) = FlattenSeq([n \in 1 .. last |-> SceneCopies(scenes[n])])
             /\ (\A n \in DOMAIN scenes : Resolvable(scenes[n])) => last = Len(scenes)
    BY CopiesListed
  <1>3. PICK ss : ss = [n \in 1 .. m |-> SceneCopies(scenes[n])]
    OBVIOUS
  <1>4. CopiesOf(scenes) = FlattenSeq(ss)
    BY <1>1, <1>2, <1>3
  <1>5. PICK W : W = UNION {CopiesOfScene(scenes[n]) : n \in 1 .. m}
    OBVIOUS
  <1>6. PICK d : d = ArtifactDirs[1] /\ 1 \in DOMAIN ArtifactDirs
    BY DirectoryAssumption
  <1>7. ASSUME NEW n \in 1 .. m
        PROVE  /\ ss[n] \in Seq(W)
               /\ CountIn(ss[n], Into(W, d)) = 1 /\ CountIn(ss[n], Into(W, "targets")) = k
    <2>1. PICK i \in I : i = scenes[n]
      BY <1>1
    <2>2. Resolvable(i)
      BY <1>1, <2>1
    <2>3. PICK A, D, F, T : CopyParts(i, A, D, F, T)
      BY <2>2, SceneCopyParts
    <2>4. /\ SceneCopies(i) = ((A \o D) \o F) \o T
          /\ DOMAIN A = DOMAIN ArtifactDirs
          /\ \A a \in DOMAIN A : A[a] = Copy(ArtifactPath(ArtifactDirs[a], CanonicalName(i)), i)
          /\ A \in Seq(ToSet(A)) /\ D \in Seq(ToSet(D)) /\ F \in Seq(ToSet(F)) /\ T \in Seq(ToSet(T))
          /\ ToSet(D) = {Copy(FrameDirPath(CanonicalName(i)), i)} /\ Len(D) = 1
          /\ ToSet(F) = {Copy(p, i) : p \in SourceFrames(CanonicalName(i))}
          /\ ToSet(T) = {Copy(p, i) : p \in SourceTargets(CanonicalName(i))}
          /\ Len(T) = Cardinality(SourceTargets(CanonicalName(i)))
      BY <2>3, Zenon DEF CopyParts
    <2>5. CopiesOfScene(i) \subseteq W
      BY <1>5, <2>1
    <2>6. ToSet(A) \subseteq W /\ ToSet(D) \subseteq W /\ ToSet(F) \subseteq W /\ ToSet(T) \subseteq W
      <3>1. \A p \in SourcePaths(i) : Copy(p, i) \in W
        BY <2>5 DEF CopiesOfScene
      <3>2. ToSet(A) \subseteq W
        BY <2>4, <3>1 DEF ToSet, SourcePaths
      <3>3. ToSet(D) \subseteq W
        BY <2>4, <3>1 DEF SourcePaths
      <3>4. ToSet(F) \subseteq W
        BY <2>4, <3>1 DEF SourcePaths
      <3>5. ToSet(T) \subseteq W
        BY <2>4, <3>1 DEF SourcePaths
      <3>. QED  BY <3>2, <3>3, <3>4, <3>5
    <2>7. A \in Seq(W) /\ D \in Seq(W) /\ F \in Seq(W) /\ T \in Seq(W)
      BY <2>4, <2>6, SeqMonotonic
    <2>8. \A p : Copy(p, i).path[1] = p[1]
      BY DEF Copy, Wr, Renamed
    <2>9. DirectoryParts(A, D, F, T)
      <3>1. \A a \in DOMAIN A : A[a].path[1] = ArtifactDirs[a]
        BY <2>4, <2>8 DEF ArtifactPath
      <3>2. \A w \in ToSet(D) : w.path[1] = "video_frames"
        BY <2>4, <2>8 DEF FrameDirPath
      <3>3. \A w \in ToSet(F) : w.path[1] = "video_frames"
        BY <2>4, <2>8 DEF SourceFrames
      <3>4. \A w \in ToSet(T) : w.path[1] = "targets"
        BY <2>4, <2>8 DEF SourceTargets
      <3>. QED  BY <2>4, <3>1, <3>2, <3>3, <3>4 DEF DirectoryParts
    <2>10. ScenePartsCount(W, ((A \o D) \o F) \o T, Len(F), Len(T))
      BY <2>7, <2>9, PartsCounted
    <2>11. /\ CountIn(SceneCopies(i), Into(W, d)) = 1
           /\ CountIn(SceneCopies(i), Into(W, "targets")) = Len(T)
      BY <1>6, <2>4, <2>10 DEF ScenePartsCount
    <2>12. SceneCopies(i) \in Seq(W)
      <3>1. SceneCopies(i) \in Seq(CopiesOfScene(i))
        BY <2>2, SceneCopiesAre
      <3>. QED  BY <2>5, <3>1, SeqMonotonic
    <2>13. ss[n] = SceneCopies(i)
      BY <1>3, <2>1
    <2>. QED  BY <2>1, <2>4, <2>11, <2>12, <2>13
  <1>8. ss \in Seq(Seq(W)) /\ DOMAIN ss = 1 .. m /\ Len(ss) = m
    <2>1. ss \in [1 .. m -> Seq(W)]
      BY <1>3, <1>7
    <2>. QED  BY <2>1
  <1>9. PICK C : C = CopiesOf(scenes) /\ C = FlattenSeq(ss)
    BY <1>4
  <1>10. C \in Seq(W)
    BY <1>8, <1>9, FlattenMembers
  <1>11. WritesInto(C, d) = m * 1
    <2>1. \A j \in DOMAIN ss : CountIn(ss[j], Into(W, d)) = 1
      BY <1>7, <1>8
    <2>2. CountIn(FlattenSeq(ss), Into(W, d)) = m * 1
      BY <1>8, <2>1, CountFlatten
    <2>. QED  BY <1>9, <1>10, <2>2, WritesCounted
  <1>12. WritesInto(C, "targets") = m * k
    <2>1. \A j \in DOMAIN ss : CountIn(ss[j], Into(W, "targets")) = k
      BY <1>7, <1>8
    <2>2. CountIn(FlattenSeq(ss), Into(W, "targets")) = m * k
      BY <1>8, <2>1, CountFlatten
    <2>. QED  BY <1>9, <1>10, <2>2, WritesCounted
  <1>. QED  BY <1>1, <1>6, <1>9, <1>11, <1>12

(* In an accepted dataset the source of a scene is all its files, as they  *)
(* were planned, and nothing else.                                         *)
LEMMA AcceptedSources ==
    ASSUME DirectoryKnown, NEW r \in Requests, Accepted(r), NEW i \in SceneIndices(r.scenes)
    PROVE  /\ SourceTargets(CanonicalName(i))
                = {<<"targets", "canonical", i, t>> : t \in ExpectedTaskIds(ShapeCount[r.config])}
           /\ SourcePaths(i) = PathsOfScene(r.config, CanonicalName(i))
  <1>1. PICK K, m : K = ExpectedTaskIds(ShapeCount[r.config]) /\ m = FrameCount[r.config] /\ m \in Nat \ {0}
    BY RequestFacts
  <1>2. FileSetsOK(r)
    BY AcceptedMeans DEF GeneratedMaterializationOK
  <1>3. CanonicalName(i) \in ExpectedSceneNames(r)
    BY DEF ExpectedSceneNames
  <1>4. \A p : p \in Paths /\ p[1] = "targets" /\ store[p] # Absent <=> p \in ExpectedTargetFiles(r)
    BY <1>2 DEF FileSetsOK, Observed
  <1>5. \A p : p \in Paths /\ p[1] = "video_frames" /\ store[p] # Absent <=> p \in ExpectedFrameEntries(r)
    BY <1>2 DEF FileSetsOK, Observed
  <1>6. SourceTargets(CanonicalName(i)) = {<<"targets", "canonical", i, t>> : t \in K}
    <2>1. ASSUME NEW p \in SourceTargets(CanonicalName(i))
          PROVE  \E t \in K : p = <<"targets", "canonical", i, t>>
      <3>1. p \in ExpectedTargetFiles(r) /\ p[3] = i
        BY <1>4 DEF SourceTargets, Exists, CanonicalName
      <3>2. PICK name \in ExpectedSceneNames(r), t \in K : p = TargetPath(name, t)
        BY <1>1, <3>1 DEF ExpectedTargetFiles
      <3>3. PICK j : name = CanonicalName(j)
        BY DEF ExpectedSceneNames
      <3>4. p = <<"targets", "canonical", j, t>>
        BY <3>2, <3>3 DEF TargetPath, CanonicalName
      <3>. QED  BY <3>1, <3>4
    <2>2. ASSUME NEW t \in K
          PROVE  <<"targets", "canonical", i, t>> \in SourceTargets(CanonicalName(i))
      <3>1. PICK p : p = TargetPath(CanonicalName(i), t)
        OBVIOUS
      <3>2. p = <<"targets", "canonical", i, t>>
        BY <3>1 DEF TargetPath, CanonicalName
      <3>3. p \in ExpectedTargetFiles(r)
        BY <1>1, <1>3, <3>1 DEF ExpectedTargetFiles
      <3>4. p \in Paths /\ store[p] # Absent
        BY <1>4, <3>3
      <3>. QED  BY <3>2, <3>4 DEF SourceTargets, Exists, CanonicalName
    <2>. QED  BY <2>1, <2>2
  <1>7. SourceFrames(CanonicalName(i)) = {<<"video_frames", "canonical", i, f>> : f \in 1 .. m}
    <2>1. ASSUME NEW p \in SourceFrames(CanonicalName(i))
          PROVE  \E f \in 1 .. m : p = <<"video_frames", "canonical", i, f>>
      <3>1. p \in ExpectedFrameEntries(r) /\ p[3] = i /\ p[4] # 0
        BY <1>5 DEF SourceFrames, Exists, CanonicalName
      <3>2. PICK name \in ExpectedSceneNames(r) :
                p \in {FrameDirPath(name)} \cup {FramePath(name, f) : f \in ExpectedFrames(r)}
        BY <3>1 DEF ExpectedFrameEntries
      <3>3. PICK j : name = CanonicalName(j)
        BY DEF ExpectedSceneNames
      <3>4. p # FrameDirPath(name)
        BY <3>1 DEF FrameDirPath
      <3>5. PICK f \in 1 .. m : p = FramePath(name, f)
        BY <1>1, <3>2, <3>4 DEF ExpectedFrames
      <3>6. p = <<"video_frames", "canonical", j, f>>
        BY <3>3, <3>5 DEF FramePath, CanonicalName
      <3>. QED  BY <3>1, <3>6
    <2>2. ASSUME NEW f \in 1 .. m
          PROVE  <<"video_frames", "canonical", i, f>> \in SourceFrames(CanonicalName(i))
      <3>1. PICK p : p = FramePath(CanonicalName(i), f)
        OBVIOUS
      <3>2. p = <<"video_frames", "canonical", i, f>> /\ f # 0
        BY <3>1 DEF FramePath, CanonicalName
      <3>3. p \in ExpectedFrameEntries(r)
        BY <1>1, <1>3, <3>1 DEF ExpectedFrameEntries, ExpectedFrames
      <3>4. p \in Paths /\ store[p] # Absent
        BY <1>5, <3>3
      <3>. QED  BY <3>2, <3>4 DEF SourceFrames, Exists, CanonicalName
    <2>. QED  BY <2>1, <2>2
  <1>8. /\ {FramePath(CanonicalName(i), f) : f \in 1 .. m} = SourceFrames(CanonicalName(i))
        /\ {TargetPath(CanonicalName(i), t) : t \in K} = SourceTargets(CanonicalName(i))
    <2>1. /\ \A f : FramePath(CanonicalName(i), f) = <<"video_frames", "canonical", i, f>>
          /\ \A t : TargetPath(CanonicalName(i), t) = <<"targets", "canonical", i, t>>
      BY DEF FramePath, TargetPath, CanonicalName
    <2>. QED  BY <1>6, <1>7, <2>1
  <1>9. SourcePaths(i) = PathsOfScene(r.config, CanonicalName(i))
    BY <1>1, <1>8 DEF SourcePaths, PathsOfScene
  <1>. QED  BY <1>1, <1>6, <1>9

(* A file of the dataset and its copy. *)
LEMMA CopiedPaths ==
    ASSUME NEW c, NEW i, NEW p
    PROVE  p \in PathsOfScene(c, AssignedName(i)) <=>
             /\ p = <<p[1], "scene", i, p[4]>>
             /\ <<p[1], "canonical", i, p[4]>> \in PathsOfScene(c, CanonicalName(i))
  <1>1. ASSUME NEW form, NEW name, name = <<form, i>>, NEW q
        PROVE  q \in PathsOfScene(c, name) <=>
                 \/ \E a \in DOMAIN ArtifactDirs : q = <<ArtifactDirs[a], form, i, 0>>
                 \/ q = <<"video_frames", form, i, 0>>
                 \/ \E f \in 1 .. FrameCount[c] : q = <<"video_frames", form, i, f>>
                 \/ \E t \in ExpectedTaskIds(ShapeCount[c]) : q = <<"targets", form, i, t>>
    <2>1. /\ \A d : ArtifactPath(d, name) = <<d, form, i, 0>>
          /\ FrameDirPath(name) = <<"video_frames", form, i, 0>>
          /\ \A f : FramePath(name, f) = <<"video_frames", form, i, f>>
          /\ \A t : TargetPath(name, t) = <<"targets", form, i, t>>
      BY <1>1 DEF ArtifactPath, FrameDirPath, FramePath, TargetPath
    <2>. QED  BY <2>1 DEF PathsOfScene
  <1>2. AssignedName(i) = <<"scene", i>> /\ CanonicalName(i) = <<"canonical", i>>
    BY DEF AssignedName, CanonicalName
  <1>3. p \in PathsOfScene(c, AssignedName(i)) <=>
          \/ \E a \in DOMAIN ArtifactDirs : p = <<ArtifactDirs[a], "scene", i, 0>>
          \/ p = <<"video_frames", "scene", i, 0>>
          \/ \E f \in 1 .. FrameCount[c] : p = <<"video_frames", "scene", i, f>>
          \/ \E t \in ExpectedTaskIds(ShapeCount[c]) : p = <<"targets", "scene", i, t>>
    BY <1>1, <1>2
  <1>4. PICK q : q = <<p[1], "canonical", i, p[4]>>
    OBVIOUS
  <1>5. q \in PathsOfScene(c, CanonicalName(i)) <=>
          \/ \E a \in DOMAIN ArtifactDirs : q = <<ArtifactDirs[a], "canonical", i, 0>>
          \/ q = <<"video_frames", "canonical", i, 0>>
          \/ \E f \in 1 .. FrameCount[c] : q = <<"video_frames", "canonical", i, f>>
          \/ \E t \in ExpectedTaskIds(ShapeCount[c]) : q = <<"targets", "canonical", i, t>>
    BY <1>1, <1>2
  <1>6. \A d, x : q = <<d, "canonical", i, x>> <=> p[1] = d /\ p[4] = x
    BY <1>4
  <1>7. \A d, x : p = <<d, "scene", i, x>> <=> p = <<p[1], "scene", i, p[4]>> /\ p[1] = d /\ p[4] = x
    OBVIOUS
  <1>8. q \in PathsOfScene(c, CanonicalName(i)) <=>
          \/ \E a \in DOMAIN ArtifactDirs : p[1] = ArtifactDirs[a] /\ p[4] = 0
          \/ p[1] = "video_frames" /\ p[4] = 0
          \/ \E f \in 1 .. FrameCount[c] : p[1] = "video_frames" /\ p[4] = f
          \/ \E t \in ExpectedTaskIds(ShapeCount[c]) : p[1] = "targets" /\ p[4] = t
    BY <1>5, <1>6
  <1>9. p \in PathsOfScene(c, AssignedName(i)) <=>
          /\ p = <<p[1], "scene", i, p[4]>>
          /\ \/ \E a \in DOMAIN ArtifactDirs : p[1] = ArtifactDirs[a] /\ p[4] = 0
             \/ p[1] = "video_frames" /\ p[4] = 0
             \/ \E f \in 1 .. FrameCount[c] : p[1] = "video_frames" /\ p[4] = f
             \/ \E t \in ExpectedTaskIds(ShapeCount[c]) : p[1] = "targets" /\ p[4] = t
    BY <1>3, <1>7
  <1>. QED  BY <1>4, <1>8, <1>9

(* The scenes a split selects of the assignments of an accepted dataset.   *)
SelectedOf(r, split) ==
    IF split = "all" THEN SceneIndices(r.scenes) ELSE ScenesIn(Assignments(r.scenes), split)

FilesOf(r, I) == UNION {PathsOfScene(r.config, AssignedName(i)) : i \in I}

LEMMA AcceptedSelection ==
    ASSUME DirectoryKnown, NEW r \in Requests, Accepted(r), NEW record \in ReadSplitAssignments, NEW split
    PROVE  /\ SelectAssignments(record.split.assignments, split) = SelectedOf(r, split)
           /\ SelectedOf(r, split) \subseteq SceneIndices(r.scenes)
  <1>1. GeneratedSplitAssignmentsOK(r)
    BY AcceptedMeans
  <1>2. record = SplitRecord(r.config, BuildSplitAssignments(r.scenes))
    <2>1. record = File("split_assignments")
      BY <1>1 DEF GeneratedSplitAssignmentsOK, ReadSplitAssignments
    <2>. QED  BY <1>1, <2>1, SplitIsOfRequest
  <1>3. record.split.assignments = Assignments(r.scenes)
    BY <1>2 DEF SplitRecord, BuildSplitAssignments
  <1>4. PICK a : a = Assignments(r.scenes)
    OBVIOUS
  <1>5. a \in [SceneIndices(r.scenes) -> SplitBucket]
    BY <1>4 DEF Assignments, SplitBucketForLocalIndex, SplitBucket
  <1>6. DOMAIN a = SceneIndices(r.scenes) /\ \A i \in SceneIndices(r.scenes) : a[i] \in SplitBucket
    BY <1>5
  <1>. QED  BY <1>3, <1>4, <1>6 DEF SelectAssignments, SelectedOf, ScenesIn, SplitBucket

(* What the manifest says is in the target is what is there. *)
LEMMA FilesOfCounted ==
    ASSUME NEW r \in Requests, NEW I, IsFiniteSet(I)
    PROVE  Cardinality({p \in FilesOf(r, I) : p[1] = "targets"})
             = Cardinality(I) * Cardinality(ExpectedTaskIds(ShapeCount[r.config]))
  <1>1. PICK K : K = ExpectedTaskIds(ShapeCount[r.config]) /\ IsFiniteSet(K)
    BY RequestFacts, TasksFinite
  <1>2. \A i : AssignedName(i) = <<"scene", i>>
    BY DEF AssignedName
  <1>3. ASSUME NEW i, NEW p
        PROVE  p \in PathsOfScene(r.config, AssignedName(i)) /\ p[1] = "targets"
                 <=> \E t \in K : p = <<"targets", "scene", i, t>>
    <2>1. /\ \A d : ArtifactPath(d, AssignedName(i)) = <<d, "scene", i, 0>>
          /\ FrameDirPath(AssignedName(i)) = <<"video_frames", "scene", i, 0>>
          /\ \A f : FramePath(AssignedName(i), f) = <<"video_frames", "scene", i, f>>
          /\ \A t : TargetPath(AssignedName(i), t) = <<"targets", "scene", i, t>>
      BY DEF ArtifactPath, FrameDirPath, FramePath, TargetPath, AssignedName
    <2>2. p \in PathsOfScene(r.config, AssignedName(i)) <=>
            \/ \E a \in DOMAIN ArtifactDirs : p = <<ArtifactDirs[a], "scene", i, 0>>
            \/ p = <<"video_frames", "scene", i, 0>>
            \/ \E f \in 1 .. FrameCount[r.config] : p = <<"video_frames", "scene", i, f>>
            \/ \E t \in K : p = <<"targets", "scene", i, t>>
      BY <1>1, <2>1 DEF PathsOfScene
    <2>. QED  BY <2>2, DirectoryAssumption
  <1>4. {p \in FilesOf(r, I) : p[1] = "targets"} = Grid("targets", "scene", I, K)
    <2>1. \A p : p \in FilesOf(r, I) /\ p[1] = "targets" <=> \E i \in I, t \in K : p = <<"targets", "scene", i, t>>
      BY <1>3 DEF FilesOf
    <2>. QED  BY <2>1 DEF Grid
  <1>. QED  BY <1>1, <1>4, GridSize

(* Validation reads the directory and nothing else. *)
LEMMA AcceptedUnchanged ==
    ASSUME NEW r, UNCHANGED store
    PROVE  Accepted(r)' <=> Accepted(r)
  <1>1. /\ \A name : File(name)' = File(name)
        /\ \A name : Readable(name)' <=> Readable(name)
        /\ \A d : Observed(d)' = Observed(d)
    BY DEF File, Readable, Observed
  <1>2. GeneratedMaterializationOK(r)' <=> GeneratedMaterializationOK(r)
    <2>1. RecordOK(r)' <=> RecordOK(r)
      BY <1>1 DEF RecordOK
    <2>2. FileSetsOK(r)' <=> FileSetsOK(r)
      BY <1>1 DEF FileSetsOK
    <2>3. TargetPayloadsOK(r)' <=> TargetPayloadsOK(r)
      BY DEF TargetPayloadsOK
    <2>4. NonTargetPayloadsOK(r)' <=> NonTargetPayloadsOK(r)
      BY DEF NonTargetPayloadsOK
    <2>5. ObservedCountsOK(r)' <=> ObservedCountsOK(r)
      BY <1>1 DEF ObservedCountsOK
    <2>. QED  BY <2>1, <2>2, <2>3, <2>4, <2>5 DEF GeneratedMaterializationOK
  <1>3. /\ GeneratedSplitAssignmentsOK(r)' <=> GeneratedSplitAssignmentsOK(r)
        /\ GeneratedSiteMetadataOK(r)' <=> GeneratedSiteMetadataOK(r)
        /\ GeneratedSiteGraphOK(r)' <=> GeneratedSiteGraphOK(r)
        /\ GeneratedConfigOK(r)' <=> GeneratedConfigOK(r)
    BY <1>1 DEF GeneratedSplitAssignmentsOK, GeneratedSiteMetadataOK, GeneratedSiteGraphOK, GeneratedConfigOK
  <1>4. Accepted(r)' <=> /\ GeneratedSplitAssignmentsOK(r)'
                         /\ GeneratedSiteMetadataOK(r)'
                         /\ GeneratedSiteGraphOK(r)'
                         /\ GeneratedConfigOK(r)'
                         /\ GeneratedMaterializationOK(r)'
    BY AcceptedMeans, PTL
  <1>. QED  BY <1>2, <1>3, <1>4, AcceptedMeans

LEMMA ExportedExactly ==
    ASSUME FilesFinite, DirectoryKnown, OutKnown, NEW split, ExportSplit(split)
    PROVE  ExportIsTheSplit'
  <1>. SUFFICES ASSUME NEW r \in Requests, \A p \in OutPaths : out[p] = Absent, Accepted(r)
                PROVE  /\ {p \in OutPaths : p[1] # "metadata" /\ out'[p] # Absent} = FilesOf(r, SelectedOf(r, split))
                       /\ \A p \in FilesOf(r, SelectedOf(r, split)) : out'[p] = store[<<p[1], "canonical", p[3], p[4]>>]
                       /\ out'[MetadataPath("export_split")] =
                            [split |-> split, scenes |-> Cardinality(SelectedOf(r, split)),
                             targets |-> Cardinality({p \in FilesOf(r, SelectedOf(r, split)) : p[1] = "targets"})]
    <2>1. exported' = [split |-> split, fresh |-> \A p \in OutPaths : out[p] = Absent]
      BY DEF ExportSplit
    <2>2. store' = store /\ job' = job /\ finished' = finished
      BY DEF ExportSplit
    <2>3. exported'.split = split /\ (exported'.fresh <=> \A p \in OutPaths : out[p] = Absent)
      BY <2>1
    <2>4. \A r : Accepted(r)' <=> Accepted(r)
      BY <2>2, AcceptedUnchanged
    <2>5. OutPaths' = OutPaths
      BY DEF OutPaths
    <2>. QED  BY <2>2, <2>3, <2>4, <2>5 DEF ExportIsTheSplit, SelectedOf, FilesOf
  <1>1. PICK record \in ReadSplitAssignments :
            Whole(ExportWrites(record, split)) /\ out' = Apply(out, ExportWrites(record, split))
    BY DEF ExportSplit
  <1>2. PICK I : I = SelectedOf(r, split)
    OBVIOUS
  <1>3. I = SelectAssignments(record.split.assignments, split) /\ I \subseteq SceneIndices(r.scenes)
    BY <1>2, AcceptedSelection
  <1>4. IsFiniteSet(I) /\ I \subseteq Nat
    BY <1>3, Selected
  <1>5. PICK target : target = Apply(out, ExportWrites(record, split)) /\ out' = target
    BY <1>1
  <1>6. /\ \A i \in I : Resolvable(i)
        /\ ExportedFiles(record, split, I, target)
    BY <1>1, <1>3, <1>5, ExportLeaves
  <1>7. /\ \A i \in I : \A w \in CopiesOfScene(i) : target[w.path] = w.content
        /\ \A p \in OutPaths :
             p[1] # "metadata" /\ (\A i \in I : \A w \in CopiesOfScene(i) : w.path # p) => target[p] = Absent
        /\ target[MetadataPath("export_split")] = Manifest(split, CopiesOf(SelectedScenes(record, split)))
    BY <1>6 DEF ExportedFiles
  <1>8. \A i \in I : SourcePaths(i) = PathsOfScene(r.config, CanonicalName(i))
    BY <1>3, AcceptedSources
  <1>9. ASSUME NEW p \in FilesOf(r, I)
        PROVE  /\ p \in OutPaths /\ p[1] # "metadata" /\ target[p] # Absent
               /\ target[p] = store[<<p[1], "canonical", p[3], p[4]>>]
    <2>1. PICK i \in I : p \in PathsOfScene(r.config, AssignedName(i))
      BY DEF FilesOf
    <2>2. PICK q : q = <<p[1], "canonical", i, p[4]>>
      OBVIOUS
    <2>3. p = <<p[1], "scene", i, p[4]>> /\ q \in SourcePaths(i) /\ q[1] = p[1] /\ q[4] = p[4]
      BY <1>8, <2>1, <2>2, CopiedPaths
    <2>4. Resolvable(i)
      BY <1>6
    <2>5. q[1] # "metadata" /\ store[q] # Absent /\ <<q[1], "scene", i, q[4]>> \in OutPaths
      BY <2>3, <2>4, SourcePathForms
    <2>6. PICK w : w = Copy(q, i)
      OBVIOUS
    <2>7. w \in CopiesOfScene(i) /\ w.path = <<q[1], "scene", i, q[4]>> /\ w.content = store[q]
      BY <2>3, <2>6 DEF CopiesOfScene, Copy, Renamed, Wr, AssignedName
    <2>8. w.path = p /\ p[3] = i
      BY <2>3, <2>7
    <2>9. target[p] = store[q]
      BY <1>7, <2>7, <2>8
    <2>. QED  BY <2>2, <2>3, <2>5, <2>8, <2>9
  <1>10. ASSUME NEW p \in OutPaths, p[1] # "metadata", target[p] # Absent
         PROVE  p \in FilesOf(r, I)
    <2>1. PICK i \in I : \E w \in CopiesOfScene(i) : w.path = p
      BY <1>7, <1>10
    <2>2. PICK w \in CopiesOfScene(i) : w.path = p
      BY <2>1
    <2>3. Resolvable(i)
      BY <1>6
    <2>4. p = <<p[1], "scene", i, p[4]>> /\ <<p[1], "canonical", i, p[4]>> \in SourcePaths(i)
      BY <2>2, <2>3, CopyForms
    <2>5. p \in PathsOfScene(r.config, AssignedName(i))
      BY <1>8, <2>4, CopiedPaths
    <2>. QED  BY <2>5 DEF FilesOf
  <1>11. Manifest(split, CopiesOf(SelectedScenes(record, split))) =
            [split |-> split, scenes |-> Cardinality(I),
             targets |-> Cardinality({p \in FilesOf(r, I) : p[1] = "targets"})]
    <2>1. PICK scenes : scenes = SelectedScenes(record, split)
      OBVIOUS
    <2>2. scenes \in Seq(I) /\ ToSet(scenes) = I /\ Len(scenes) = Cardinality(I)
      BY <1>3, <1>4, <2>1, ScenesListed
    <2>3. \A n \in DOMAIN scenes : Resolvable(scenes[n])
      BY <1>6, <2>2 DEF ToSet
    <2>4. PICK K : K = ExpectedTaskIds(ShapeCount[r.config]) /\ IsFiniteSet(K)
      BY RequestFacts, TasksFinite
    <2>5. PICK k \in Nat : k = Cardinality(K)
      BY <2>4, FS_CardinalityType
    <2>6. \A i \in I : Cardinality(SourceTargets(CanonicalName(i))) = k
      <3>. TAKE i \in I
      <3>5. PICK S : S = {<<"targets", "canonical", i, t>> : t \in K}
        OBVIOUS
      <3>1. SourceTargets(CanonicalName(i)) = S
        BY <1>3, <2>4, <3>5, AcceptedSources
      <3>2. IsFiniteSet({i}) /\ Cardinality({i}) = 1
        BY FS_Singleton
      <3>3. Cardinality(Grid("targets", "canonical", {i}, K)) = 1 * k
        BY <2>4, <2>5, <3>2, GridSize
      <3>4. Grid("targets", "canonical", {i}, K) = S
        <4>1. \A p : p \in Grid("targets", "canonical", {i}, K) <=> \E t \in K : p = <<"targets", "canonical", i, t>>
          BY DEF Grid
        <4>. QED  BY <3>5, <4>1
      <3>. QED  BY <3>1, <3>3, <3>4
    <2>7. /\ WritesInto(CopiesOf(scenes), ArtifactDirs[1]) = Cardinality(I)
          /\ WritesInto(CopiesOf(scenes), "targets") = Cardinality(I) * k
      BY <1>4, <2>2, <2>3, <2>6, CopiesCounted
    <2>8. Cardinality({p \in FilesOf(r, I) : p[1] = "targets"}) = Cardinality(I) * k
      BY <1>4, <2>4, <2>5, FilesOfCounted
    <2>. QED  BY <2>1, <2>7, <2>8 DEF Manifest
  <1>. QED  BY <1>2, <1>5, <1>7, <1>9, <1>10, <1>11

(* An export of an accepted dataset into an empty directory leaves the     *)
(* split and nothing else: each selected scene with all its files under    *)
(* its assigned name, as generated, and a manifest that counts them        *)
(* (export_split.rs:545).                                                  *)
THEOREM ExportIsExact == Spec => []ExportIsTheSplit
  <1>1. Init => ExportIsTheSplit
    BY DEF Init, ExportInit, ExportIsTheSplit
  <1>2. /\ ExportIsTheSplit /\ FilesFinite /\ DirectoryKnown /\ OutKnown /\ [Next]_vars
        => ExportIsTheSplit'
    <2>. SUFFICES ASSUME ExportIsTheSplit, FilesFinite, DirectoryKnown, OutKnown, [Next]_vars
                  PROVE  ExportIsTheSplit'
      OBVIOUS
    <2>1. CASE exported' = None
      BY <2>1 DEF ExportIsTheSplit
    <2>2. CASE UNCHANGED vars
      <3>1. \A r : Accepted(r)' <=> Accepted(r)
        BY <2>2, AcceptedUnchanged DEF vars
      <3>. QED  BY <2>2, <3>1 DEF ExportIsTheSplit, vars, OutPaths
    <2>3. CASE \E s \in Splits : ExportSplit(s)
      BY <2>3, ExportedExactly
    <2>. QED  BY <2>1, <2>2, <2>3 DEF Next, ExportNext, ExportStops
  <1>. QED  BY <1>1, <1>2, FilesStayFinite, DirectoryIsKnown, OutStaysKnown, PTL DEF Spec
===============================================================================
