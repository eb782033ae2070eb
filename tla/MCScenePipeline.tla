---------------------------- MODULE MCScenePipeline ----------------------------
(***************************************************************************)
(* Small configurations for the pipeline of a scene: they reach every way  *)
(* to say how often shapes move, and some validate turns away.             *)
(***************************************************************************)
EXTENDS ScenePipeline

CONSTANTS MaxEvents,        \* scenes with more events are not built
          Variety           \* which configurations a run starts from

mcPoints == <<{<<-8, 8>>, <<0, -8>>, <<8, -8>>, <<-4, 0>>},
              {<<-8, -8>>, <<0, -8>>, <<8, 0>>},
              {<<-8, 0>>, <<0, -8>>},
              {<<-8, 8>>}, {<<-8, 8>>}, {<<-8, 8>>}>>

mcIdentities(assignment, n) ==
    IF assignment = "index_locked" THEN {[i \in 1..n |-> <<i, 7 - i>>]}
    ELSE {[i \in 1..n |-> <<7 - i, 1>>], [i \in 1..n |-> <<1, i>>]}

Small == [Baseline(0) EXCEPT !.event_duration_frames = 3, !.sound_sample_rate_hz = 10,
                             !.sound_frames_per_second = 4, !.allow_simultaneous = TRUE,
                             !.randomize_motion_events_per_shape = FALSE]

Explicit(c, n, slots, each) ==
    [c EXCEPT !.n_shapes = n, !.n_motion_slots = slots, !.motion_events_per_shape = each]

Ranged(slots, cap, ranges) ==
    [Small EXCEPT !.n_shapes = Len(ranges), !.n_motion_slots = slots,
                  !.motion_events_per_shape = <<>>, !.n_motion_events_total = cap,
                  !.randomize_motion_events_per_shape = TRUE,
                  !.motion_events_per_shape_random_ranges =
                      [i \in DOMAIN ranges |-> [min |-> ranges[i][1], max |-> ranges[i][2]]]]

(* One shape on every point; two that share slots; three in one slot; two  *)
(* that may not share; drawn counts, with and without ranges; a session.   *)
Accepted ==
    {[Explicit(Small, 1, 2, <<2>>) EXCEPT !.trajectory_complexity = 1,
                                          !.event_duration_frames = 1],
     [Explicit(Small, 2, 2, <<2, 1>>) EXCEPT !.text_reference_frame = "relative"],
     [Explicit(Small, 3, 1, <<1, 1, 1>>) EXCEPT !.easing_family = "linear",
                                             !.sound_channel_mapping = "mono_mix"],
     [Explicit(Small, 2, 2, <<1, 1>>) EXCEPT !.allow_simultaneous = FALSE,
                                             !.shape_identity_assignment = "pair_unique_random",
                                             !.trajectory_complexity = 3,
                                             !.text_reference_frame = "mixed"],
     Ranged(2, 2, <<<<0, 2>>, <<1, 1>>>>),
     [Small EXCEPT !.n_shapes = 1, !.n_motion_slots = 1, !.motion_events_per_shape = <<1>>,
                   !.randomize_motion_events_per_shape = TRUE],
     [SessionConfig(65537, 1, 2) EXCEPT !.event_duration_frames = 2,
                                        !.site_k = 1, !.validation_scene_count = 2]}

(* Events without room for them, minimums over the cap, a site graph with  *)
(* too few scenes, and the policies of the README on one slot per event.   *)
Rejected ==
    {Explicit([Small EXCEPT !.allow_simultaneous = FALSE], 2, 2, <<2, 1>>),
     Explicit(Small, 2, 1, <<2, 0>>),
     Ranged(2, 2, <<<<2, 2>>, <<1, 2>>>>),
     [Explicit(Small, 1, 1, <<1>>) EXCEPT !.validation_scene_count = 10],
     FromPolicy("bridging", 0, 4, FALSE, 8),
     FromPolicy("hardness", 0, 4, FALSE, 8)}

Crowded == {Explicit(Small, 4, 1, <<1, 1, 1, 1>>)}

mcCandidates == IF Variety = "crowded" THEN Crowded ELSE Accepted \cup Rejected

mcAnswers == {<<>>, <<<<"number", 2>>>>, <<<<"number", 5>>>>,
              <<<<"type", "circle">>, <<"word", "the">>, <<"colour", "red">>>>}

Bounded == Total(counts) <= MaxEvents
===============================================================================
