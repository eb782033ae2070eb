------------------------------- MODULE ImageComic -------------------------------
(***************************************************************************)
(* The image of a scene (shapeflow-core image_encoding.rs): one panel for  *)
(* every motion slot, shuffled over a grid, with arrows that tell the      *)
(* order of the slots or the direction of the movements.                   *)
(*                                                                         *)
(* Pixels are not painted one by one: a stroke is the box it stays in, and *)
(* the picture is the sequence of the strokes.  A coordinate p of a scene  *)
(* stands for p / FullScale.  The generator of random numbers is a choice. *)
(***************************************************************************)
EXTENDS Integers, Sequences, FiniteSets, SequencesExt

CONSTANTS
    FullScale,  \* the coordinate 1.0
    Drawings    \* inputs: n_motion_slots, resolution, scatter, arrows, events

ASSUME DrawingsAssumption ==
    /\ FullScale \in Nat \ {0}
    /\ \A d \in Drawings :
          /\ d.n_motion_slots \in Nat \ {0} /\ d.resolution \in Nat
          /\ d.arrows \in {"prev", "current", "next"}
          /\ d.events \in Seq(Range(d.events))
          /\ \A e \in Range(d.events) : {e.start_point, e.end_point} \subseteq Int \X Int

VARIABLES
    drawing,    \* the scene and the configuration
    placements, \* the upper left corner of every panel
    infos,      \* anchor and movements of the panels drawn so far
    strokes,    \* what was painted, in order
    comicStep   \* "layout", "frames", "arrows", "motion", "encoded" or "refused"

comicVars == <<drawing, placements, infos, strokes, comicStep>>

AtLeast(n, m) == IF n >= m THEN n ELSE m
PanelCount == drawing.n_motion_slots
Panels == 1 .. PanelCount

-------------------------------------------------------------------------------
(* The grid.                                                               *)
LayoutCols(n) == CHOOSE c \in 1 .. AtLeast(n, 1) :
                    c * c >= n /\ \A d \in 1 .. c - 1 : d * d < n
LayoutRows(n, cols) == (n + cols - 1) \div cols
ThumbnailSize(n, resolution) == AtLeast(resolution \div LayoutCols(n), 24)
PanelGutter(size) == AtLeast(size \div 8, 2)
CanvasDimension(count, size, gutter) ==
    AtLeast(count, 1) * size + (AtLeast(count, 1) + 1) * gutter

Cols == LayoutCols(PanelCount)
Rows == LayoutRows(PanelCount, Cols)
Size == ThumbnailSize(PanelCount, drawing.resolution)
Gutter == PanelGutter(Size)
Padding == AtLeast(Size \div 10, 1)
Inner == AtLeast(Size - 2 * Padding, 1)
CanvasWidth == CanvasDimension(Cols, Size, Gutter)
CanvasHeight == CanvasDimension(Rows, Size, Gutter)

(* Any order of the panels can come out of the shuffle; the order of time  *)
(* is turned by one place.                                                 *)
InTimeOrder == [k \in Panels |-> k]
Shuffles == {IF order = InTimeOrder /\ PanelCount > 1
             THEN Tail(order) \o <<Head(order)>> ELSE order :
                order \in {p \in [Panels -> Panels] : \A i, j \in Panels : p[i] = p[j] => i = j}}

(* Mutant: a panel may move over the whole gutter.                         *)
WideJitter == IF drawing.scatter THEN 0 .. Gutter - 1 ELSE {0}

Jitter == IF drawing.scatter /\ Gutter \div 3 > 0 THEN 0 .. (Gutter \div 3) - 1 ELSE {0}

(* Place k of the grid, from 1.                                            *)
GridCorner(k) ==
    <<((k - 1) % Cols) * (Size + Gutter) + Gutter, ((k - 1) \div Cols) * (Size + Gutter) + Gutter>>

-------------------------------------------------------------------------------
(* Boxes: the first and the last column and row.                           *)
Box(at, size) == [left |-> at[1], top |-> at[2],
                  right |-> at[1] + size - 1, bottom |-> at[2] + size - 1]
Around(point, radius) ==
    [left |-> point[1] - radius, top |-> point[2] - radius,
     right |-> point[1] + radius, bottom |-> point[2] + radius]
PanelBox(k) == Box(placements[k], Size)

(* A border is a line of four pixels, two of them outside the panel.       *)
BorderBox(k) == Box(<<placements[k][1] - 2, placements[k][2] - 2>>, Size + 4)

Nearest(numerator, denominator) == (2 * numerator + denominator) \div (2 * denominator)

Clamped(v, last) == IF v < 0 THEN 0 ELSE IF v > last THEN last ELSE v
NormalizedToPixel(p, size) ==
    <<Clamped(Nearest((p[1] + FullScale) * (size - 1), 2 * FullScale), size - 1),
      Clamped(Nearest((FullScale - p[2]) * (size - 1), 2 * FullScale), size - 1)>>

InPanel(k, p) ==
    LET local == NormalizedToPixel(p, Inner)
    IN  <<placements[k][1] + Padding + local[1], placements[k][2] + Padding + local[2]>>

MarkerRadius(shape) ==
    LET base == AtLeast(Inner \div 20, 5)
    IN  CASE shape = "triangle" -> (base * 3 + 1) \div 2
          [] shape = "star"     -> base * 2
          [] shape = "circle"   -> base + 2
          [] OTHER              -> base + 1

(* Every corner of a panel can be the one the arrows go to.                *)
Anchors(k) ==
    LET inset == Nearest(Size, 10)
        near(o) == o + inset
        far(o) == o + Size - inset - 1
        x == placements[k][1]
        y == placements[k][2]
    IN  {<<near(x), near(y)>>, <<far(x), near(y)>>, <<near(x), far(y)>>, <<far(x), far(y)>>}

(* The members of a sequence at some positions, in order.                  *)
Picked(s, positions) ==
    [m \in 1 .. Cardinality(positions) |->
        s[CHOOSE n \in positions : Cardinality({p \in positions : p <= n}) = m]]

EventsOfPanel(k) ==
    Picked(drawing.events, {n \in DOMAIN drawing.events : drawing.events[n].time_slot = k})

Movements(k) ==
    [m \in DOMAIN EventsOfPanel(k) |->
        [from |-> InPanel(k, EventsOfPanel(k)[m].start_point),
         to |-> InPanel(k, EventsOfPanel(k)[m].end_point),
         radius |-> MarkerRadius(EventsOfPanel(k)[m].shape)]]

-------------------------------------------------------------------------------
ComicInit ==
    /\ drawing \in Drawings
    /\ placements = <<>> /\ infos = <<>> /\ strokes = <<>>
    /\ comicStep = "layout"

LayOutPanels ==
    /\ comicStep = "layout"
    /\ \/ /\ drawing.resolution = 0
          /\ comicStep' = "refused" /\ UNCHANGED placements
       \/ /\ drawing.resolution > 0
          /\ \E order \in Shuffles, dx \in [Panels -> Jitter], dy \in [Panels -> Jitter] :
                placements' = [p \in Panels |->
                    LET k == CHOOSE k \in Panels : order[k] = p
                    IN  <<GridCorner(k)[1] + dx[k], GridCorner(k)[2] + dy[k]>>]
          /\ comicStep' = "frames"
    /\ UNCHANGED <<drawing, infos, strokes>>

(* The ground of every panel, in the order of time.                        *)
DrawFrame ==
    /\ comicStep = "frames" /\ Len(infos) < PanelCount
    /\ LET k == Len(infos) + 1
       IN  /\ \E anchor \in Anchors(k) :
                infos' = Append(infos, [anchor |-> anchor, movements |-> Movements(k)])
           /\ strokes' = Append(strokes, <<"frame", k, PanelBox(k)>>)
    /\ UNCHANGED <<drawing, placements, comicStep>>

(* A movement's arrow stops before the marker; one that is too short, or   *)
(* does not move, has none or goes to its end.                             *)
ArrowsOf(k) ==
    LET made   == infos[k].movements
        moving == Picked(made, {m \in DOMAIN made : made[m].from # made[m].to})
    IN  [m \in DOMAIN moving |-> <<"arrow", moving[m].from, moving[m].to>>]

SlotArrow(k) == <<"arrow", infos[k].anchor, infos[k + 1].anchor>>

(* "prev" and "next" differ in the order of painting alone.                *)
DrawConnectors ==
    /\ comicStep = "frames" /\ Len(infos) = PanelCount
    /\ strokes' = strokes \o
            CASE drawing.arrows = "prev"    -> [k \in 1 .. PanelCount - 1 |-> SlotArrow(k)]
              [] drawing.arrows = "next"    -> Reverse([k \in 1 .. PanelCount - 1 |-> SlotArrow(k)])
              [] drawing.arrows = "current" -> FlattenSeq([k \in Panels |-> ArrowsOf(k)])
    /\ comicStep' = "motion"
    /\ UNCHANGED <<drawing, placements, infos>>

(* Trails first, then the markers, then the axes, for one panel after the  *)
(* other.                                                                  *)
MotionStrokes(k) ==
    LET moves == infos[k].movements
        box(point, radius) == Around(point, radius)
    IN  [m \in DOMAIN moves |-> <<"trail", k, moves[m].from, moves[m].to>>]
        \o [m \in DOMAIN moves |-> <<"marker", k, box(moves[m].to, moves[m].radius)>>]
        \o <<<<"axes", k, PanelBox(k)>>>>

DrawMotion ==
    /\ comicStep = "motion"
    /\ strokes' = strokes \o FlattenSeq([k \in Panels |-> MotionStrokes(k)])
    /\ comicStep' = "encoded"
    /\ UNCHANGED <<drawing, placements, infos>>

ComicNext == LayOutPanels \/ DrawFrame \/ DrawConnectors \/ DrawMotion

ComicSpec == ComicInit /\ [][ComicNext]_comicVars

-------------------------------------------------------------------------------
Disjoint(a, b) ==
    a.right < b.left \/ b.right < a.left \/ a.bottom < b.top \/ b.bottom < a.top
Inside(a, b) ==
    a.left >= b.left /\ a.right <= b.right /\ a.top >= b.top /\ a.bottom <= b.bottom
ReadBefore(a, b) == a.bottom < b.top \/ (a.right < b.left /\ b.bottom >= a.top)
Canvas == [left |-> 0, top |-> 0, right |-> CanvasWidth - 1, bottom |-> CanvasHeight - 1]

(* The picture tells the order of the scene: panels and markers do not     *)
(* overlap what is beside them, whatever the scatter; several panels are   *)
(* never in the order of time when read line by line; the arrows between   *)
(* the panels, followed from the first, visit them all in the order of     *)
(* time; and no panel is painted over an arrow (image_encoding.rs:102).    *)
(* Panels of less than 32 pixels have borders that may touch, those of     *)
(* less than 50 markers that reach into the next panel.                    *)
PanelsApart ==
    comicStep \notin {"idle", "layout", "refused"} =>
        /\ \A i \in Panels :
              /\ Inside(PanelBox(i), Canvas) /\ Inside(BorderBox(i), Canvas)
              /\ \A j \in Panels \ {i} :
                    /\ Disjoint(PanelBox(i), PanelBox(j))
                    /\ Size >= 32 => Disjoint(BorderBox(i), BorderBox(j))
        /\ PanelCount > 1 => \E i, j \in Panels : i < j /\ ReadBefore(PanelBox(j), PanelBox(i))
        /\ \A n \in DOMAIN strokes : strokes[n][1] = "marker" =>
              LET k == strokes[n][2]
              IN  /\ Size >= 100 => Inside(strokes[n][3], PanelBox(k))
                  /\ Size >= 50 => \A j \in Panels \ {k} : Disjoint(strokes[n][3], PanelBox(j))
        /\ \A n, m \in DOMAIN strokes :
              strokes[n][1] = "frame" /\ strokes[m][1] # "frame" => n < m
        /\ comicStep = "encoded" /\ drawing.arrows # "current" =>
              \A k \in 1 .. PanelCount - 1 : \E n \in DOMAIN strokes :
                  /\ strokes[n][1] = "arrow"
                  /\ Inside(Around(strokes[n][2], 0), PanelBox(k))
                  /\ Inside(Around(strokes[n][3], 0), PanelBox(k + 1))
===============================================================================
