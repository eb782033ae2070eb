--------------------------- MODULE SplitAssignments ---------------------------
(***************************************************************************)
(* The train, validation and test assignment of a dataset's scenes         *)
(* (shapeflow-core/src/split_assignments.rs).  Scenes are assigned in      *)
(* index order by fixed ratios, rounded down; the test bucket takes what   *)
(* the two roundings leave.  A scene has two names: the one the assignment *)
(* gives it ("scene_000007") and the canonical one its artifacts carry     *)
(* (32 hexadecimal digits); a name is modelled as the pair of its form and *)
(* the scene's index.                                                      *)
(***************************************************************************)
EXTENDS Integers, FiniteSets

TrainRatioNum == 70
ValRatioNum   == 15
RatioDen      == 100

SplitBucket == {"train", "val", "test"}

TrainCount(sceneCount) == (sceneCount * TrainRatioNum) \div RatioDen
ValCount(sceneCount)   == (sceneCount * ValRatioNum) \div RatioDen
TestCount(sceneCount)  == sceneCount - TrainCount(sceneCount) - ValCount(sceneCount)

SplitBucketForLocalIndex(index, train, val) ==
    IF index < train THEN "train"
    ELSE IF index < train + val THEN "val" ELSE "test"

SceneIndices(sceneCount) == 0 .. sceneCount - 1

Assignments(sceneCount) ==
    [i \in SceneIndices(sceneCount) |->
        SplitBucketForLocalIndex(i, TrainCount(sceneCount), ValCount(sceneCount))]

(* The scenes of one bucket, as the running counters of the loop see them. *)
ScenesIn(assignments, bucket) ==
    {i \in DOMAIN assignments : assignments[i] = bucket}

Summary(assignments) ==
    [train |-> Cardinality(ScenesIn(assignments, "train")),
     val   |-> Cardinality(ScenesIn(assignments, "val")),
     test  |-> Cardinality(ScenesIn(assignments, "test")),
     total |-> Cardinality(DOMAIN assignments)]

(* A scene count of zero is an error of the caller's request.              *)
BuildSplitAssignments(sceneCount) ==
    [assignments |-> Assignments(sceneCount),
     summary     |-> Summary(Assignments(sceneCount))]

AssignedName(index)  == <<"scene", index>>
CanonicalName(index) == <<"canonical", index>>
===============================================================================
