------------------------------- MODULE TextNoise -------------------------------
(***************************************************************************)
(* The synonyms and typing errors of a scene's text, and the decoder's     *)
(* way to undo them before it parses a line (shapeflow-core                *)
(* text_semantics.rs).  Every word of a line is varied and restored on its *)
(* own, so one word is looked at.  Words and letters are strings.          *)
(***************************************************************************)
EXTENDS Integers, Sequences, FiniteSets, TLC

CONSTANTS Synonyms      \* the thesaurus: variants of the words that have some

VARIABLES
    word,       \* the word of the grammar
    surface,    \* what is written for it
    restored,   \* what the decoder reads
    noiseStep   \* "written", "reworded", "mistyped" or "read"

noiseVars == <<word, surface, restored, noiseStep>>

Vocabulary ==
    {"Scene", "Event", "Pair", "At", "This", "the", "as", "at", "of", "scene", "motion",
     "event", "events", "red", "green", "blue", "yellow", "magenta", "cyan", "circle", "star",
     "triangle", "square", "pentagon", "hexagon", "shape", "moved", "translated", "within",
     "from", "to", "quadrant", "through", "top", "bottom", "left", "right", "above", "below",
     "aligned", "horizontally", "vertically", "with", "relative", "center", "same", "time",
     "happened", "and", "is"}

(* The words of the lines that noise is put on: the header has none.       *)
Written == Vocabulary \ {"Scene", "motion", "events", "translated"}

-------------------------------------------------------------------------------
(* The letters beside a letter, from either side.                          *)
QwertyNeighbors ==
    [q |-> "wsa", w |-> "qedsa", e |-> "wrfds", r |-> "etfd", t |-> "rygf", y |-> "uhgt",
     u |-> "ijhy", i |-> "okju", o |-> "plki", p |-> "lo", a |-> "qwsz", s |-> "aqwedxz",
     d |-> "erfcxsw", f |-> "ertgvcd", g |-> "tyhbvf", h |-> "yujnbg", j |-> "uikmnh",
     k |-> "iolmj", l |-> "opk", z |-> "asx", x |-> "zsdc", c |-> "xdfv", v |-> "cfgb",
     b |-> "vghn", n |-> "bhjm", m |-> "njk"]

Letter(w, i) == SubSeq(w, i, i)
Letters(w) == {Letter(w, i) : i \in 1 .. Len(w)}

NeighborsOfLetter(l) ==
    (Letters(QwertyNeighbors[l]) \cup {k \in DOMAIN QwertyNeighbors : l \in Letters(QwertyNeighbors[k])})
        \ {l}

(* The capitals that begin a word; a capital is mistyped as a capital.     *)
Capitals == [A |-> "a", E |-> "e", P |-> "p", S |-> "s", T |-> "t"]
Upper(l) ==
    LET i == CHOOSE i \in 1..26 : Letter("abcdefghijklmnopqrstuvwxyz", i) = l
    IN  Letter("ABCDEFGHIJKLMNOPQRSTUVWXYZ", i)

KeyboardNeighbors ==
    [l \in DOMAIN QwertyNeighbors |-> NeighborsOfLetter(l)]
        @@ [c \in DOMAIN Capitals |-> {Upper(n) : n \in NeighborsOfLetter(Capitals[c])}]

(* The six ways to mistype a word once.                                    *)
Upto(w, i) == SubSeq(w, 1, i)
From(w, i) == SubSeq(w, i, Len(w))
With(w, i, letters) == Upto(w, i - 1) \o letters \o From(w, i + 1)
Places(w) == 1 .. Len(w)

Doublings(w) == {With(w, i, Letter(w, i) \o Letter(w, i)) : i \in Places(w)}
Omissions(w) == {With(w, i, "") : i \in Places(w)}
Swaps(w) == {Upto(w, i - 1) \o Letter(w, i + 1) \o Letter(w, i) \o From(w, i + 2) : i \in 1 .. Len(w) - 1}
Neighborly(w, letters(_, _)) ==
    UNION {{With(w, i, letters(Letter(w, i), n)) : n \in KeyboardNeighbors[Letter(w, i)]} : i \in Places(w)}
Replacements(w) == Neighborly(w, LAMBDA l, n : n)
Additions(w) == Neighborly(w, LAMBDA l, n : l \o n) \cup Neighborly(w, LAMBDA l, n : n \o l)

SingleTypos(w) ==
    (Doublings(w) \cup Omissions(w) \cup Swaps(w) \cup Replacements(w) \cup Additions(w)) \ {w}

TyposOfVocabulary == [w \in Vocabulary |-> SingleTypos(w)]

-------------------------------------------------------------------------------
Variants(w) == IF w \in DOMAIN Synonyms THEN Synonyms[w] ELSE {}
AllVariants == UNION {Synonyms[w] : w \in DOMAIN Synonyms}

(* Mutant: words of the thesaurus can be mistyped.                         *)
StructureProtected(w) == w \in {"scene", "event", "pair", "Scene", "Event", "Pair"}

(* Short words, the words a line begins with and the words the thesaurus   *)
(* replaces, or puts in their place, are never mistyped.                   *)
TypoProtected(w) ==
    w \in {"scene", "event", "pair", "Scene", "Event", "Pair"} \cup DOMAIN Synonyms \cup AllVariants

NoiseInit == word \in Written /\ surface = word /\ restored = "" /\ noiseStep = "written"

ApplySynonyms ==
    /\ noiseStep = "written"
    /\ surface' \in {surface} \cup Variants(surface)
    /\ noiseStep' = "reworded"
    /\ UNCHANGED <<word, restored>>

ApplyTypos ==
    /\ noiseStep = "reworded"
    /\ surface' \in {surface} \cup
            IF Len(surface) >= 4 /\ ~ TypoProtected(surface) THEN SingleTypos(surface) ELSE {}
    /\ noiseStep' = "mistyped"
    /\ UNCHANGED <<word, restored>>

(* A word that is not in the vocabulary is read as the only word of it     *)
(* that can be mistyped so; when there are two, it stays as it is.         *)
NormalizeTypoToken(w) ==
    LET candidates == {v \in Vocabulary : w \in TyposOfVocabulary[v]}
    IN  IF w \notin Vocabulary /\ Cardinality(candidates) = 1
        THEN CHOOSE v \in candidates : TRUE ELSE w

(* The first word of the alphabet with this variant.                       *)
CanonicalOrder == <<"happened", "moved", "relative", "same", "scene">>

NormalizeSynonymToken(w) ==
    LET places == {k \in DOMAIN CanonicalOrder : w \in Variants(CanonicalOrder[k])}
    IN  IF places = {} THEN w ELSE CanonicalOrder[CHOOSE k \in places : \A m \in places : k <= m]

NormalizeSurfaceVariants ==
    /\ noiseStep = "mistyped"
    /\ LET read == NormalizeSynonymToken(NormalizeTypoToken(surface))
       IN  restored' = IF read = "translated" THEN "moved" ELSE read
    /\ noiseStep' = "read"
    /\ UNCHANGED <<word, surface>>

NoiseNext == ApplySynonyms \/ ApplyTypos \/ NormalizeSurfaceVariants
===============================================================================
