------------------------------- MODULE SiteStats -------------------------------
(***************************************************************************)
(* `shapeflow site-stats` (shapeflow-cli/src/site_stats.rs): the graph is  *)
(* read back from its artifact, its figures are derived a second time,     *)
(* with a search of the command's own, and compared with the figures the   *)
(* artifact carries, with a report computed anew and with the              *)
(* configuration.                                                          *)
(*                                                                         *)
(* A mean degree is kept as the sum of the degrees.  Weights and the       *)
(* eigenvalue are left out, as in SiteGraph.                               *)
(***************************************************************************)
EXTENDS SiteGraph

FirstThenSecond(e, f) == e[1] < f[1] \/ (e[1] = f[1] /\ e[2] < f[2])

DegreeSum == MapThenSumSet(Degree, Nodes)
MinDegree == Min({Degree(i) : i \in Nodes})

(* What a validation that accepts the graph returns: a report and the      *)
(* artifact to be written.                                                 *)
Report ==
    [scene_count |-> Len(site.scenes), site_k |-> site.site_k, effective_k |-> EffectiveK,
     edge_count |-> Cardinality(graph), components |-> components,
     min_degree |-> MinDegree, max_degree |-> MaxDegree, degree_sum |-> DegreeSum]

GraphArtifact ==
    [node_count |-> Len(site.scenes), edges |-> SetToSortSeq(graph, FirstThenSecond),
     min_degree |-> MinDegree, max_degree |-> MaxDegree, degree_sum |-> DegreeSum]

-------------------------------------------------------------------------------
NodesOf(a) == 0 .. a.node_count - 1

(* Both ends exist, the smaller first, and no edge comes twice.            *)
EdgesCanonical(a) ==
    /\ \A e \in Range(a.edges) : e[1] < e[2] /\ e[2] \in NodesOf(a)
    /\ Cardinality(Range(a.edges)) = Len(a.edges)

Adjacent(a, i) ==
    {j \in NodesOf(a) : <<i, j>> \in Range(a.edges) \/ <<j, i>> \in Range(a.edges)}

(* From every node not seen yet the search sees all it can reach, one more *)
(* edge away with each round.                                              *)
CountConnectedComponents(a) ==
    LET rounds == [k \in 1 .. a.node_count |-> k]
        wider(part, k) == part \cup UNION {Adjacent(a, i) : i \in part}
        search(acc, i) ==
            IF i \in acc.seen THEN acc
            ELSE [seen |-> acc.seen \cup FoldLeft(wider, {i}, rounds), count |-> acc.count + 1]
    IN  FoldLeft(search, [seen |-> {}, count |-> 0], [k \in 1 .. a.node_count |-> k - 1]).count

DeriveSiteStats(a) ==
    LET degree(i) == Cardinality(Adjacent(a, i))
    IN  [node_count |-> a.node_count, edge_count |-> Len(a.edges),
         components |-> CountConnectedComponents(a),
         min_degree |-> Min({degree(i) : i \in NodesOf(a)}),
         max_degree |-> Max({degree(i) : i \in NodesOf(a)}),
         degree_sum |-> MapThenSumSet(degree, NodesOf(a))]

SameDegrees(a, b) ==
    a.min_degree = b.min_degree /\ a.max_degree = b.max_degree /\ a.degree_sum = b.degree_sum

ReportMatchesStats(report, stats) ==
    /\ report.scene_count = stats.node_count
    /\ report.edge_count = stats.edge_count
    /\ report.components = stats.components
    /\ SameDegrees(report, stats)

ReportMatchesConfig(report) ==
    /\ report.scene_count = Len(site.scenes)
    /\ report.site_k = site.site_k
    /\ report.effective_k = Min({site.site_k, Len(site.scenes) - 1})

ArtifactMatchesReport(a, report) ==
    /\ a.node_count = report.scene_count
    /\ Len(a.edges) = report.edge_count
    /\ SameDegrees(a, report)

(* The command prints the figures of an artifact, or fails.                *)
SiteStatsAccepts(a) ==
    /\ EdgesCanonical(a)
    /\ SameDegrees(a, DeriveSiteStats(a))
    /\ ReportMatchesConfig(Report)
    /\ ReportMatchesStats(Report, DeriveSiteStats(a))
    /\ ArtifactMatchesReport(a, Report)
===============================================================================
