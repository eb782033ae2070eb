------------------------------- MODULE SceneMedia -------------------------------
(***************************************************************************)
(* The video and the sound of a scene, slot by slot (shapeflow-core        *)
(* video_encoding.rs, sound_encoding.rs and sound_validation.rs).          *)
(*                                                                         *)
(* A frame is where every shape stands and the sound of a slot is the      *)
(* voices that are mixed in it; what is drawn for a shape and the samples' *)
(* values are left out.  Both encoders walk the same slots, so one action  *)
(* advances both.                                                          *)
(***************************************************************************)
EXTENDS SceneText

VARIABLES
    slot,       \* the next slot to play
    positions,  \* where the shapes rest between slots
    frames,     \* the frames rendered
    voices,     \* for each slot, the voices heard in it
    samples     \* samples of sound, those of all channels

mediaVars == <<slot, positions, frames, voices, samples>>

(* A shape starts where its first event in the scene's order starts, a     *)
(* shape without events at the first point of its path.                    *)
InitialPosition(s, i) ==
    LET own == {k \in DOMAIN s.motion_events : s.motion_events[k].shape_index = i}
    IN  IF own = {} THEN s.shape_paths[i][1] ELSE s.motion_events[Min(own)].start_point

(* A slot without events is as long as those of the earliest event.        *)
DefaultDuration(s) ==
    LET earliest == CHOOSE e \in Range(s.motion_events) :
                        \A f \in Range(s.motion_events) : e.time_slot <= f.time_slot
    IN  earliest.duration_frames

SlotEvents(s, k) ==
    EventsWithIds(s, {e.global_event_index : e \in {e \in Range(s.motion_events) : e.time_slot = k}})

SlotDuration(s, k) ==
    IF SlotEvents(s, k) = <<>> THEN DefaultDuration(s) ELSE SlotEvents(s, k)[1].duration_frames

(* Frame j of n, from 0; a single frame shows the end of the movement.     *)
(* Coordinates carry the square of the last frame's number.                *)
LastFrame(n) == IF n <= 1 THEN 1 ELSE n - 1
Progress(j, n, easing) == IF n <= 1 THEN 1 ELSE EasedProgress(j, n - 1, easing)
AtRest(p, n) == [d \in 1..2 |-> p[d] * LastFrame(n) * LastFrame(n)]
InMotion(e, j, n) ==
    [d \in 1..2 |-> AtRest(e.start_point, n)[d]
                    + (e.end_point[d] - e.start_point[d]) * Progress(j, n, e.easing)]

Frame(resting, events, j, n) ==
    [i \in DOMAIN resting |->
        LET moving == {k \in DOMAIN events : events[k].shape_index = i}
        IN  IF moving = {} THEN AtRest(resting[i], n)
            ELSE InMotion(events[Max(moving)], j, n)]

(* Mutant: shapes fall back to where they rested before the slot.          *)
SettledBack(resting, events) == resting

Settled(resting, events) ==
    [i \in DOMAIN resting |->
        LET moving == {k \in DOMAIN events : events[k].shape_index = i}
        IN  IF moving = {} THEN resting[i] ELSE events[Max(moving)].end_point]

(* Mutant: rounded down.                                                   *)
SamplesRoundedDown(n, c) == (n * c.sound_sample_rate_hz) \div c.sound_frames_per_second

(* Samples are rounded up for each slot.                                   *)
SamplesForDuration(n, c) ==
    (n * c.sound_sample_rate_hz + (c.sound_frames_per_second - 1)) \div c.sound_frames_per_second

-------------------------------------------------------------------------------
ChannelCount(c) == IF c.sound_channel_mapping = "mono_mix" THEN 1 ELSE 2

(* The rank of a shape's identity sets the frequency it sounds at, its     *)
(* type the waveform; types without one of their own share the first.      *)
(* Where it is moves the pitch, the loudness and the balance.              *)
Waveforms == <<"sine", "triangle", "square", "sawtooth", "pulse">>
WaveformFor(type) == Waveforms[IF type \in DOMAIN Waveforms THEN type ELSE 1]

ShapeProfile(identity) ==
    [canonical_rank |-> ClassRank(identity), waveform |-> WaveformFor(identity[1])]

Voice(s, e) ==
    [profile |-> ShapeProfile(s.identity[e.shape_index]),
     start_point |-> e.start_point, end_point |-> e.end_point, easing |-> e.easing]

SlotVoices(s, events) == [k \in DOMAIN events |-> Voice(s, events[k])]

NothingToPlay(s) == s.motion_events = <<>>

-------------------------------------------------------------------------------
MediaInit == slot = 0 /\ positions = <<>> /\ frames = <<>> /\ voices = <<>> /\ samples = 0

(* A scene without events has no frames, and its sound is refused.         *)
StartMedia ==
    /\ stage = "scene"
    /\ positions' = [i \in DOMAIN scene.shape_paths |-> InitialPosition(scene, i)]
    /\ stage' = IF NothingToPlay(scene) THEN "silent" ELSE "media"
    /\ UNCHANGED <<config, counts, paths, scene, targetVars, textVars, slot, frames, voices, samples>>

PlaySlot ==
    /\ stage = "media" /\ slot < scene.expected_slots
    /\ LET events == SlotEvents(scene, slot)
           n      == SlotDuration(scene, slot)
       IN  /\ \A k \in DOMAIN events : events[k].duration_frames = n
           /\ frames' = frames \o [j \in 1..n |-> Frame(positions, events, j - 1, n)]
           /\ positions' = Settled(positions, events)
           /\ voices' = Append(voices, SlotVoices(scene, events))
           /\ samples' = samples + ChannelCount(config) * SamplesForDuration(n, config)
    /\ slot' = slot + 1
    /\ UNCHANGED <<stage, config, counts, paths, scene, targetVars, textVars>>

(* What the validator of the sound expects, from the slots alone.          *)
ExpectedSamplesPerChannel(s, c) ==
    Total([k \in 1 .. s.expected_slots |-> SamplesForDuration(SlotDuration(s, k - 1), c)])

ValidateSound ==
    /\ stage = "media" /\ slot = scene.expected_slots
    /\ stage' =
         IF /\ samples # 0
            /\ samples % ChannelCount(config) = 0
            /\ samples \div ChannelCount(config) = ExpectedSamplesPerChannel(scene, config)
         THEN "sound accepted" ELSE "sound refused"
    /\ UNCHANGED <<config, counts, paths, scene, targetVars, textVars, mediaVars>>
===============================================================================
