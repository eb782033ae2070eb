----------------------------- MODULE EvalQuestions -----------------------------
(***************************************************************************)
(* A question of the human evaluation: what is asked of a scene, which     *)
(* answer is expected (shapeflow-human-eval/flow.rs) and how an answer is  *)
(* evaluated (server.rs), and what an agent is told of it (mcp.rs).        *)
(*                                                                         *)
(* An answer is the sequence of its words, tagged as numbers, as shape     *)
(* types, as colours or as other words.                                    *)
(***************************************************************************)
EXTENDS SceneMedia

CONSTANTS LocalIndices,     \* positions of a question within its modality
          Answers           \* the answers a participant may give

ASSUME QuestionsAssumption ==
    /\ LocalIndices \subseteq Nat
    /\ \A raw \in Answers : raw \in Seq(Range(raw)) /\ \A w \in Range(raw) : w = <<w[1], w[2]>>

VARIABLES question, verdict

questionVars == <<question, verdict>>

(* The configuration of a session of the given slots and shapes.           *)
SessionConfig(seed, slots, shapes) ==
    [Baseline(SessionMasterSeed(seed)) EXCEPT
        !.n_shapes = shapes, !.n_motion_slots = slots, !.allow_simultaneous = TRUE,
        !.randomize_motion_events_per_shape = TRUE, !.motion_events_per_shape = <<>>,
        !.n_motion_events_total = (slots * 3) \div 2,
        !.motion_events_per_shape_random_ranges =
            [i \in 1..shapes |-> [min |-> slots \div 4, max |-> slots]]]

Targets == {"oqp", "xct", "zqh", "lme"}

(* The first of the largest values, from 0.                                *)
DominantQuadrant(values) ==
    Min({q \in 0..3 : \A r \in 0..3 : values[r + 1] <= values[q + 1]})

(* The server finds the largest motion anew, then the shape with its rank. *)
Better(s, best, e) ==
    CASE Squared(e) > best.distance -> [distance |-> Squared(e), rank |-> RankOf(s, e)]
      [] Squared(e) = best.distance -> [best EXCEPT !.rank = Min({@, RankOf(s, e)})]
      [] OTHER -> best

WinningRank(s) ==
    LET best[n \in 0 .. Len(s.motion_events)] ==
            IF n = 0 THEN [distance |-> -1, rank |-> FallbackRank(s)]
            ELSE Better(s, best[n - 1], s.motion_events[n])
    IN  best[Len(s.motion_events)].rank

WinningShape(s) ==
    s.identity[Min({i \in DOMAIN s.identity : ClassRank(s.identity[i]) = WinningRank(s)})]

(* Shapes are queried in turn; quadrants are numbered from 1 in answers.   *)
QueryShape(localIndex, s) == (localIndex % Len(s.shape_paths)) + 1

ExpectedAnswer(target, i) ==
    CASE target = "oqp" -> [k \in DOMAIN targets.oqp[i] |-> DominantQuadrant(targets.oqp[i][k]) + 1]
      [] target = "xct" -> targets.xct[i]
      [] target = "zqh" -> targets.zqh[i].quadrant + 1
      [] target = "lme" -> ShapeId(WinningShape(scene))

(* Mutant: one crossing for each slot.                                     *)
PlanItemNarrow(target, localIndex) ==
    [target |-> target, shape |-> QueryShape(localIndex, scene),
     expected |-> ExpectedAnswer(target, QueryShape(localIndex, scene)),
     integer_max |-> config.n_motion_slots]

PlanItem(target, localIndex) ==
    [target |-> target, shape |-> QueryShape(localIndex, scene),
     expected |-> ExpectedAnswer(target, QueryShape(localIndex, scene)),
     integer_max |-> config.n_motion_slots * 2]

-------------------------------------------------------------------------------
(* Parsing.  A form that cannot be parsed is NotParsed.                    *)
NotParsed == <<>>

ParseSequence(raw) ==
    IF \E k \in DOMAIN raw : raw[k][1] # "number" \/ raw[k][2] \notin 1..4 THEN NotParsed
    ELSE [k \in DOMAIN raw |-> raw[k][2]]

(* Mutant: the type has to come first.                                     *)
ParseTypeThenColour(raw) ==
    IF Len(raw) < 2 \/ raw[1][1] # "type" \/ Last(raw)[1] # "colour" THEN NotParsed
    ELSE <<raw[1][2], Last(raw)[2]>>

(* The first type and the first colour named, in either order, whatever    *)
(* stands between them.                                                    *)
ParseShapeAnswer(raw) ==
    LET type   == SelectInSeq(raw, LAMBDA w : w[1] = "type")
        colour == SelectInSeq(raw, LAMBDA w : w[1] = "colour")
    IN  IF type = 0 \/ colour = 0 THEN NotParsed ELSE <<raw[type][2], raw[colour][2]>>

EvaluateAnswer(raw, target, expected) ==
    CASE target = "oqp" -> ParseSequence(raw) # NotParsed /\ ParseSequence(raw) = expected
      [] target = "xct" -> Len(raw) = 1 /\ raw[1][1] = "number" /\ raw[1][2] = expected
      [] target = "zqh" -> Len(ParseSequence(raw)) = 1 /\ ParseSequence(raw)[1] = expected
      [] target = "lme" -> ParseShapeAnswer(raw) # NotParsed /\ ParseShapeAnswer(raw) = expected

NaturalLabel(id) == <<<<"colour", id[2]>>, <<"type", id[1]>>>>

(* What the server shows as the expected answer.                           *)
FormatExpectedAnswer(target, expected) ==
    CASE target = "oqp" -> [k \in DOMAIN expected |-> <<"number", expected[k]>>]
      [] target \in {"xct", "zqh"} -> <<<<"number", expected>>>>
      [] target = "lme" -> NaturalLabel(expected)

ASSUME NoneAssumption ==
    \A id \in ShapeColorPairs : ShapeId(id) # None /\ NaturalLabel(ShapeId(id)) # None

-------------------------------------------------------------------------------
(* The shapes of the scene, and the one a question names: the largest      *)
(* motion is asked of all of them.                                         *)
SceneShapes == [i \in DOMAIN scene.identity |-> ShapeId(scene.identity[i])]
NamedShape(item) == IF item.target = "lme" THEN None ELSE SceneShapes[item.shape]

(* The shape whose sound is played as a reference: the one requested in    *)
(* words, else the one named, else the first; it has to be in the scene.   *)
ResolveSoundShape(item, requested) ==
    LET wanted == IF requested # None THEN ParseShapeAnswer(requested)
                  ELSE IF NamedShape(item) # None THEN NamedShape(item)
                  ELSE SceneShapes[1]
    IN  IF wanted \in Range(SceneShapes) THEN wanted ELSE NotParsed

(* What get_question tells an agent about the shapes: the labels it can    *)
(* choose from and, in a sound question, the reference on offer.           *)
GetQuestion(item) ==
    [available_shapes |-> IF item.target = "lme"
                          THEN [i \in DOMAIN SceneShapes |-> NaturalLabel(SceneShapes[i])]
                          ELSE None,
     sound_reference |-> ResolveSoundShape(item, None)]

-------------------------------------------------------------------------------
QuestionInit == question = None /\ verdict = None

AskQuestion ==
    /\ stage = "targets"
    /\ \E target \in Targets, localIndex \in LocalIndices :
            question' = PlanItem(target, localIndex)
    /\ stage' = "question"
    /\ UNCHANGED <<config, counts, paths, scene, targetVars, textVars, mediaVars, verdict>>

Answer ==
    /\ stage = "question"
    /\ \E raw \in Answers \cup {FormatExpectedAnswer(question.target, question.expected)} :
            verdict' = [answer |-> raw,
                        correct |-> EvaluateAnswer(raw, question.target, question.expected)]
    /\ stage' = "answered"
    /\ UNCHANGED <<config, counts, paths, scene, targetVars, textVars, mediaVars, question>>
===============================================================================
