------------------------------ MODULE ScenePipeline ------------------------------
(***************************************************************************)
(* A scene from its configuration to everything made of it: targets, a     *)
(* question with its answer, a text that is read back, a video with its    *)
(* sound.  What is made of one scene has to agree with it and with the     *)
(* rest.                                                                   *)
(***************************************************************************)
EXTENDS EvalQuestions

vars == <<genVars, targetVars, textVars, mediaVars, questionVars>>

Init == GenInit /\ TargetInit /\ TextInit /\ MediaInit /\ QuestionInit

Next ==
    \/ GenNext /\ UNCHANGED <<targetVars, textVars, mediaVars, questionVars>>
    \/ (GenerateTargets \/ TargetsFail) /\ UNCHANGED <<textVars, mediaVars, questionVars>>
    \/ (WriteText \/ DecodeText) /\ UNCHANGED <<mediaVars, questionVars>>
    \/ (StartMedia \/ PlaySlot \/ ValidateSound) /\ UNCHANGED questionVars
    \/ AskQuestion \/ Answer

Spec == Init /\ [][Next]_vars

-------------------------------------------------------------------------------
(* The quadrants a path is in, told from the points alone, without runs.   *)
Extended(seen, q) == IF seen # <<>> /\ Last(seen) = q THEN seen ELSE Append(seen, q)

Visited(path) ==
    LET seen[n \in 0 .. Len(path)] ==
            IF n = 0 THEN <<>> ELSE Extended(seen[n - 1], HardQuadrant(path[n]))
    IN  seen[Len(path)]

(* The expected answer of a question is true of the scene: the quadrants   *)
(* visited, the number of changes, the quadrant of the path after the      *)
(* named moves, the shape with the longest move and, among equals, the     *)
(* smallest rank.                                                          *)
AnswersAreTrue ==
    stage = "question" =>
        LET path    == scene.shape_paths[question.shape]
            visited == Visited(path)
            longest == {e \in Range(scene.motion_events) :
                            \A f \in Range(scene.motion_events) : Squared(f) <= Squared(e)}
            ranks   == {ClassRank(scene.identity[e.shape_index]) : e \in longest}
        IN  CASE question.target = "oqp" -> question.expected = [k \in DOMAIN visited |-> visited[k] + 1]
              [] question.target = "xct" -> question.expected = Len(visited) - 1
              [] question.target = "zqh" ->
                    question.expected =
                        HardQuadrant(path[targets.zqh[question.shape].moves * SamplesPerEvent + 1]) + 1
              [] question.target = "lme" ->
                    /\ targets.lme = Min(ranks)
                    /\ \E e \in longest : /\ question.expected = ShapeId(scene.identity[e.shape_index])
                                          /\ ClassRank(scene.identity[e.shape_index]) = Min(ranks)

(* The expected answer, written as the server shows it, is evaluated as    *)
(* correct, and so is any answer that names its type and its colour and no *)
(* other, in whatever order and among whatever words; an answer that does  *)
(* not name them, or to another form or out of range, never is.  An        *)
(* agent is told a choice that has the answer once and asks for each       *)
(* shape's sound by its label; unasked it hears the shape it is asked      *)
(* about (get_question, mcp.rs:213).                                       *)
AnswerKeyIsAccepted ==
    /\ stage = "question" =>
        LET told   == GetQuestion(question)
            labels == told.available_shapes
        IN  /\ question.target = "lme" =>
                  /\ Cardinality({k \in DOMAIN labels :
                         EvaluateAnswer(labels[k], "lme", question.expected)}) = 1
                  /\ \A k \in DOMAIN labels : ResolveSoundShape(question, labels[k]) = SceneShapes[k]
                  /\ told.sound_reference \in Range(SceneShapes)
            /\ question.target # "lme" =>
                  told.sound_reference = ShapeId(scene.identity[question.shape])
    /\ stage = "answered" =>
        LET key == FormatExpectedAnswer(question.target, question.expected)
            named(tag) == {w[2] : w \in {w \in Range(verdict.answer) : w[1] = tag}}
        IN  /\ verdict.answer = key => verdict.correct
            /\ question.target # "lme" /\ verdict.correct => verdict.answer = key
            /\ question.target = "lme" =>
                  /\ verdict.correct => \A w \in Range(key) : w[2] \in named(w[1])
                  /\ (\A w \in Range(key) : named(w[1]) = {w[2]}) => verdict.correct

(* On straight paths the slider of a crossing question reaches its answer. *)
CrossingsFitTheSlider ==
    (stage = "question" /\ question.target = "xct" /\ config.trajectory_complexity = 1) =>
        question.expected <= question.integer_max

(* The table alone tells a shape's whole way: its rows, found by its name, *)
(* join end to start, and the rounding leaves the end of the queried move  *)
(* in the quadrant of the target.                                          *)
TableTellsTheTarget ==
    stage = "targets" =>
        LET rows == TabularCsv(TabularMotionRows(scene))
        IN  \A i \in DOMAIN scene.identity :
                LET own     == {k \in DOMAIN rows : rows[k].shape_id = ShapeId(scene.identity[i])}
                    upTo(k) == Cardinality({j \in own : j <= k})
                IN  /\ Cardinality(own) = counts[i]
                    /\ \A j, k \in own : upTo(k) = upTo(j) + 1 => rows[j].end = rows[k].start
                    /\ \A k \in own : upTo(k) = targets.zqh[i].moves =>
                                          HardQuadrant(rows[k].end) = targets.zqh[i].quadrant

-------------------------------------------------------------------------------
(* What a text says, as far as it is meant to be read back.                *)
Meaning(semantics) ==
    [events |-> [k \in DOMAIN semantics.events |->
        LET e == semantics.events[k]
        IN  [event_index |-> e.event_index, shape_id |-> e.shape_id,
             from |-> Quadrant(e.start_point[1], e.start_point[2]),
             to |-> Quadrant(e.end_point[1], e.end_point[2]),
             simultaneous_with |-> e.simultaneous_with]],
     pairs |-> semantics.pairs]

(* A text of any profile decodes to the meaning of its scene.              *)
AllProfilesDecode == stage = "decoded" => decoded = Meaning(DeriveSemantics(scene))

(* Its lines may arrive in any order after the header, but no event line   *)
(* may be missing.                                                         *)
LostLineRefused ==
    stage = "text" =>
        /\ DecodeSemantics(<<text[1]>> \o Reverse(Tail(text))) = DecodeSemantics(text)
        /\ \A k \in 2 .. Len(text) :
               text[k][1][1] = "Event" => DecodeSemantics(RemoveAt(text, k)) = Refused

(* The text and the target agree on where a shape is after the queried     *)
(* move, off the lower half of the axis, where the text says right and the *)
(* target left.                                                            *)
TextTellsTheTarget ==
    (stage = "decoded" /\ decoded # Refused) =>
        \A i \in DOMAIN scene.shape_paths :
            LET e    == QueriedEvent(scene, i, targets.zqh[i].moves - 1)
                said == decoded.events[e.global_event_index + 1].to
                name == <<"top right", "top left", "bottom left", "bottom right">>
            IN  (e.end_point[1] # 0 \/ e.end_point[2] >= 0) =>
                    said = name[targets.zqh[i].quadrant + 1]

-------------------------------------------------------------------------------
(* No shape jumps between two slots of the video: a slot's first frame     *)
(* shows every shape where the last frame left it, unless the slot has     *)
(* only one frame.                                                         *)
NoJump ==
    [][ (stage = "media" /\ frames # <<>> /\ frames' # frames
         /\ SlotDuration(scene, slot) > 1) =>
            frames'[Len(frames) + 1] = Last(frames) ]_frames

(* When the last slot has played, every shape rests where its path ends,   *)
(* and the sound, which its validator accepts, is not shorter than the     *)
(* video and by less than a sample per slot longer.  In every slot the     *)
(* voices differ in frequency, so that each stands for one shape, and a    *)
(* shape that is not heard stands still in the frames                      *)
(* (render_scene_sound_wav, sound_encoding.rs:56; the frames,              *)
(* video_encoding.rs:131).                                                 *)
FramesOfSlot(k) ==
    LET before == Total([m \in 1 .. k - 1 |-> SlotDuration(scene, m - 1)])
    IN  SubSeq(frames, before + 1, before + SlotDuration(scene, k - 1))

Heard(k) ==
    {i \in DOMAIN positions :
        \E n \in DOMAIN voices[k] : voices[k][n].profile = ShapeProfile(scene.identity[i])}

MediaEndTogether ==
    /\ stage # "sound refused"
    /\ stage = "sound accepted" =>
        /\ \A i \in DOMAIN positions : positions[i] = Last(scene.shape_paths[i])
        /\ LET excess == (samples \div ChannelCount(config)) * config.sound_frames_per_second
                         - Len(frames) * config.sound_sample_rate_hz
           IN  excess \in 0 .. slot * (config.sound_frames_per_second - 1)
        /\ \A k \in DOMAIN voices :
              /\ Cardinality({voices[k][n].profile.canonical_rank : n \in DOMAIN voices[k]}) = Len(voices[k])
              /\ Cardinality(Heard(k)) = Len(voices[k])
              /\ \A i \in DOMAIN positions \ Heard(k), j \in DOMAIN FramesOfSlot(k) :
                    FramesOfSlot(k)[j][i] = FramesOfSlot(k)[1][i]
===============================================================================
