-------------------------------- MODULE Dataset --------------------------------
(***************************************************************************)
(* A dataset directory and an export target together: generate commands,   *)
(* runs of the Python function and exports, one at a time, each of which   *)
(* may be interrupted.  What validate and export-split then promise of     *)
(* them.                                                                   *)
(***************************************************************************)
EXTENDS SplitExport

vars == <<store, job, finished, commands, out, exported>>

Init == StoreInit /\ ExportInit

Next ==
    \/ StoreNext /\ exported' = None /\ UNCHANGED out
    \/ ExportNext

Spec == Init /\ [][Next]_vars

-------------------------------------------------------------------------------
(* The five checks of generated output together leave no room: whatever    *)
(* interrupted, failed or larger runs preceded, a directory they accept is *)
(* file by file the one an undisturbed run of that request writes.         *)
AcceptedIsFresh ==
    \A r \in Requests : job = None /\ Accepted(r) => store = FreshStore(r)

(* What generate produces, validate accepts: a run that ended is accepted  *)
(* for its own request unless an earlier run left a file this one does not *)
(* write; leftovers it does write, cut off or not, are healed.             *)
FinishedIsAccepted ==
    (finished # None /\ job = None) =>
        (Accepted(finished) <=> {p \in Paths : store[p] # Absent}
                                  \subseteq WrittenPaths(finished))

(* An export of an accepted dataset into an empty target is exactly the    *)
(* split: each selected scene with all its files, under its assigned name, *)
(* as generated, no file of a scene of another split, and a manifest that  *)
(* counts them.                                                            *)
ExportIsTheSplit ==
    \A r \in Requests :
        (exported # None /\ exported.fresh /\ job = None /\ finished = r /\ Accepted(r)) =>
            LET selected == IF exported.split = "all" THEN SceneIndices(r.scenes)
                            ELSE ScenesIn(Assignments(r.scenes), exported.split)
                files    == UNION {PathsOfScene(r.config, AssignedName(i)) : i \in selected}
            IN  /\ {p \in OutPaths : p[1] # "metadata" /\ out[p] # Absent} = files
                /\ \A p \in files : out[p] = store[<<p[1], "canonical", p[3], p[4]>>]
                /\ out[MetadataPath("export_split")] =
                       [split |-> exported.split, scenes |-> Cardinality(selected),
                        targets |-> Cardinality({p \in files : p[1] = "targets"})]

(* The filtered assignments of a finished export name scenes whose         *)
(* artifacts are all in the target, and its summary counts them.           *)
ExportedScenesComplete ==
    exported # None =>
        LET record == out[MetadataPath("split_assignments")].split
        IN  /\ record.summary = Summary(record.assignments)
            /\ \A i \in DOMAIN record.assignments :
                   /\ \A a \in DOMAIN ArtifactDirs :
                          out[ArtifactPath(ArtifactDirs[a], AssignedName(i))] # Absent
                   /\ \E p \in OutPaths : p[1] = "targets" /\ p[3] = i /\ out[p] # Absent
===============================================================================
