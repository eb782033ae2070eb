------------------------------- MODULE SceneTable -------------------------------
(***************************************************************************)
(* What a shape of a scene is called (type and colour), how identities are *)
(* ranked, and the rows of the tabular artifact                            *)
(* (shapeflow-core/tabular_encoding.rs).                                   *)
(***************************************************************************)
EXTENDS SceneGeneration

CONSTANT TableStep      \* the last decimal a table keeps

ASSUME TableAssumption == TableStep \in Nat \ {0}

ShapeTypePalette == <<"circle", "star", "triangle", "square", "pentagon", "hexagon">>
ColorPalette     == <<"red", "green", "blue", "yellow", "magenta", "cyan">>
ColorBitCodePalette == <<4, 2, 1, 6, 5, 3>>

(* An identity is a pair of positions in the palettes.                     *)
ShapeColorPairs == (1 .. Len(ShapeTypePalette)) \X (1 .. Len(ColorPalette))

(* Locked to the index, shape i has the i-th type and the i-th colour of a *)
(* shuffled palette; as unique pairs, the i-th pair of the shuffled pairs. *)
LockedIdentities(n, colors) ==
    {[i \in 1..n |-> <<i, order[((i - 1) % Len(ColorPalette)) + 1]>>] :
        order \in {o \in [DOMAIN ColorPalette -> colors] : IsInjective(o)}}

PairIdentities(n, pairs) == {p \in [1..n -> pairs] : IsInjective(p)}

ASSUME IdentitiesAssumption ==
    \A n \in 1..6 :
        /\ Identities("index_locked", n) \subseteq LockedIdentities(n, DOMAIN ColorPalette)
        /\ Identities("pair_unique_random", n) \subseteq PairIdentities(n, ShapeColorPairs)

ShapeId(identity) == <<ShapeTypePalette[identity[1]], ColorPalette[identity[2]]>>

(* The class value is the type's code with the colour's bits below it; the *)
(* rank counts the smaller ones.                                           *)
ClassValue(identity) == identity[1] * 8 + ColorBitCodePalette[identity[2]]
ClassRank(identity) == Cardinality({p \in ShapeColorPairs : ClassValue(p) < ClassValue(identity)})

(* One row per event, in the order of the scene.                           *)
TabularMotionRows(s) ==
    [k \in DOMAIN s.motion_events |->
        LET e == s.motion_events[k]
        IN  [event_index |-> e.global_event_index, shape_id |-> ShapeId(s.identity[e.shape_index]),
             start |-> e.start_point, end |-> e.end_point,
             simultaneous_event_ids |-> SlotPeers(s, e)]]

(* The file keeps three decimals, rounded away from zero.                  *)
(* Mutant: rounded to the nearest step.                                    *)
RoundNearest(v) == ((v + TableStep \div 2) \div TableStep) * TableStep

RoundAway(v) ==
    LET up(w) == ((w + TableStep - 1) \div TableStep) * TableStep
    IN  IF v >= 0 THEN up(v) ELSE - up(- v)

TabularCsv(rows) ==
    LET written(p) == [d \in DOMAIN p |-> RoundAway(p[d])]
    IN  [k \in DOMAIN rows |-> [rows[k] EXCEPT !.start = written(@), !.end = written(@)]]
===============================================================================
