------------------------------ MODULE Reanchor -----------------------------
(***************************************************************************)
(* Where a comment's quote is in a later version: the pipeline of exact     *)
(* search, context, offset mapping through a diff, and fuzzy search.  A     *)
(* text is a sequence of letters.  An edit script is what the diff library  *)
(* answers, any one that turns the old text into the new one; the library's *)
(* fuzzy search answers any position, or none.                              *)
(***************************************************************************)
EXTENDS Naturals, Integers, Sequences, FiniteSets, SequencesExt, FiniteSetsExt

CONSTANT ContextChars  \* ANCHOR_CONTEXT_CHARS, letters of context on either side

ASSUME ContextAssumption == ContextChars \in Nat

\* Letters from one offset up to another, as slice counts them: from 0, cut at the end.
Slice(text, from, to) ==
  SubSeq(text, from + 1, IF to < Len(text) THEN to ELSE Len(text))

Lowest(n) == IF n < 0 THEN 0 ELSE n

createTextAnchor(source, start, end) ==
  [exact  |-> Slice(source, start, end),
   prefix |-> Slice(source, Lowest(start - ContextChars), start),
   suffix |-> Slice(source, end, end + ContextChars),
   start  |-> start, end |-> end]

\* Certainty, in units that every sum of two lengths up to eight divides; the two floors.
Certain == 840
ConfidenceFloor == 504
SanityFloor == 126

\* Letters a shortest script keeps.  The library's cleanup may keep fewer.
Common(a, b) ==
  LET f[i \in 0 .. Len(a), j \in 0 .. Len(b)] ==
        IF i = 0 \/ j = 0 THEN 0
        ELSE IF a[i] = b[j] THEN f[i - 1, j - 1] + 1
        ELSE IF f[i - 1, j] > f[i, j - 1] THEN f[i - 1, j] ELSE f[i, j - 1]
  IN  f[Len(a), Len(b)]

similarity(a, b) ==
  IF Len(a) + Len(b) = 0 THEN Certain
  ELSE (Certain * 2 * Common(a, b)) \div (Len(a) + Len(b))

findAll(haystack, needle) ==
  {at \in 0 .. Len(haystack) - Len(needle) : Slice(haystack, at, at + Len(needle)) = needle}

-----------------------------------------------------------------------------
\* Every script from one text to another, a letter at a time: what is deleted comes before
\* what is inserted in its place.
Scripts(old, new) ==
  LET g[i \in 0 .. Len(old), j \in 0 .. Len(new)] ==
        IF i = 0 /\ j = 0 THEN {<<>>}
        ELSE (IF j > 0 THEN {Append(s, "insert") : s \in g[i, j - 1]} ELSE {})
             \cup
             (IF i > 0
              THEN {Append(s, "delete") : s \in {s \in g[i - 1, j] :
                                                   s = <<>> \/ s[Len(s)] # "insert"}}
              ELSE {})
             \cup
             (IF i > 0 /\ j > 0 /\ old[i] = new[j]
              THEN {Append(s, "keep") : s \in g[i - 1, j - 1]} ELSE {})
  IN  g[Len(old), Len(new)]

\* The old text's offset in the new one: past all that comes before the letter it names.
mapOffset(script, offset) ==
  LET Past(op, pos) ==
        IF op = "insert" /\ ~pos.found THEN [pos EXCEPT !.new = @ + 1]
        ELSE IF pos.found \/ pos.old = offset THEN [pos EXCEPT !.found = TRUE]
        ELSE [pos EXCEPT !.old = @ + 1, !.new = IF op = "keep" THEN @ + 1 ELSE @]
  IN  FoldLeft(LAMBDA pos, op : Past(op, pos), [old |-> 0, new |-> 0, found |-> FALSE], script).new

\* Twice the share of the context that is around a place.
contextScore(anchor, doc, at) ==
  LET end == at + Len(anchor.exact)
  IN  similarity(Slice(doc, Lowest(at - ContextChars), at), anchor.prefix)
      + similarity(Slice(doc, end, end + ContextChars), anchor.suffix)

contextPlausible(anchor, doc, at) ==
  \/ anchor.prefix = <<>> /\ anchor.suffix = <<>>
  \/ contextScore(anchor, doc, at) >= 2 * SanityFloor

Orphan == [method |-> "orphan"]

Located(method, start, end, confidence) ==
  [method |-> method, start |-> start, end |-> end, confidence |-> confidence]

\* The first of the places whose context fits best.
BestHit(anchor, doc, hits) ==
  LET best == {at \in hits : \A other \in hits :
                 contextScore(anchor, doc, other) <= contextScore(anchor, doc, at)}
  IN  CHOOSE at \in best : \A other \in best : at <= other

\* Wrong: the last of them.
lastHit(anchor, doc, hits) ==
  LET best == {at \in hits : \A other \in hits :
                 contextScore(anchor, doc, other) <= contextScore(anchor, doc, at)}
  IN  CHOOSE at \in best : \A other \in best : other <= at

exactMatch(anchor, doc) ==
  LET hits == findAll(doc, anchor.exact)
      at == BestHit(anchor, doc, hits)
      end == at + Len(anchor.exact)
      score == contextScore(anchor, doc, at)
  IN  IF Cardinality(hits) = 1 /\ contextPlausible(anchor, doc, at)
      THEN Located("exact", at, end, Certain)
      ELSE IF Cardinality(hits) > 1 /\ score >= 2 * ConfidenceFloor
      THEN Located("context", at, end, score \div 2)
      ELSE Orphan

mappedMatch(anchor, doc, script) ==
  LET start == mapOffset(script, anchor.start)
      end == Max({start, mapOffset(script, anchor.end)})
      sim == similarity(anchor.exact, Slice(doc, start, end))
  IN  IF end > start /\ sim >= ConfidenceFloor THEN Located("fuzzy", start, end, sim) ELSE Orphan

\* loc is what the library's search found, -1 for nothing; the wider window is a fifth longer.
fuzzyMatch(anchor, doc, loc) ==
  LET length == Len(anchor.exact)
      window == similarity(anchor.exact, Slice(doc, loc, loc + length))
      stretched == Slice(doc, loc, loc + (6 * length + 4) \div 5)
      wide == similarity(anchor.exact, stretched)
  IN  IF loc = -1 \/ ~contextPlausible(anchor, doc, loc) THEN Orphan
      ELSE IF window >= ConfidenceFloor THEN Located("fuzzy", loc, loc + length, window)
      ELSE IF wide >= ConfidenceFloor THEN Located("fuzzy", loc, loc + Len(stretched), wide)
      ELSE Orphan

resolveTextAnchor(anchor, doc, script, loc) ==
  LET exact == exactMatch(anchor, doc)
      mapped == mappedMatch(anchor, doc, script)
  IN  IF exact # Orphan THEN exact
      ELSE IF mapped # Orphan THEN mapped
      ELSE fuzzyMatch(anchor, doc, loc)

\* A part of a diagram is there while its identifier is somewhere in the source.
resolveNonText(stableId, source) ==
  IF findAll(source, stableId) # {} THEN Located("exact", 0, Len(source), Certain) ELSE Orphan

\* The identifier of an edge, as the client takes it from the rendered diagram, and the edge
\* as the source of a flowchart writes it.
edgeId(from, to) == <<from, "-", ">", to>>
edgeSource(from, to) == <<from, "-", "-", ">", to>>

\* A thread's place in the current version: none where either text is too large for a diff,
\* and without the pinned text, once it was purged, a diff of the current one with itself.
Resolutions(anchor, pinned, current, purged, tooLarge) ==
  IF tooLarge THEN {Orphan}
  ELSE {resolveTextAnchor(anchor, current, script, loc) :
          script \in Scripts(IF purged THEN current ELSE pinned, current),
          loc \in (-1) .. Len(current)}

-----------------------------------------------------------------------------
Texts(letters, length) == UNION {[1 .. n -> letters] : n \in 0 .. length}

\* The quotes of a text.
Spans(text) == {s \in (0 .. Len(text)) \X (0 .. Len(text)) : s[1] < s[2]}

\* Whatever script the diff finds, mapping keeps the order of offsets, stays within the new
\* text, and takes each letter the script keeps to the same letter.
ASSUME MappingKeepsOrder ==
  \A old, new \in Texts({"a", "b"}, 3) : \A script \in Scripts(old, new) :
    LET map == [o \in 0 .. Len(old) |-> mapOffset(script, o)]
        kept == {k \in DOMAIN script : script[k] = "keep"}
    IN  /\ \A o \in 0 .. Len(old) : map[o] \in 0 .. Len(new)
        /\ \A o \in 1 .. Len(old) : map[o - 1] <= map[o]
        /\ \A k \in kept :
             LET before == SubSeq(script, 1, k - 1)
                 o == Len(SelectSeq(before, LAMBDA op : op # "insert"))
             IN  map[o] = Len(SelectSeq(before, LAMBDA op : op # "delete"))

\* A quote of a text that did not change is found where it is, unless it is there again
\* with the same letters around it.
ASSUME UnchangedIsFound ==
  \A text \in Texts({"a", "b", "c"}, 4) : \A s \in Spans(text) :
    LET anchor == createTextAnchor(text, s[1], s[2])
        Twin(at) == LET end == at + Len(anchor.exact)
                        there == createTextAnchor(text, at, end)
                    IN  /\ there.exact = anchor.exact
                        /\ there.prefix = anchor.prefix /\ there.suffix = anchor.suffix
        found == exactMatch(anchor, text)
    IN  (\A at \in findAll(text, anchor.exact) : Twin(at) => at = s[1])
        => found # Orphan /\ found.start = s[1] /\ found.end = s[2]

\* With such a twin before it the comment goes there, with full confidence, though no
\* letter of the document changed and the diff would have told the two apart.
ASSUME TwinsAreConfused ==
  \E text \in Texts({"a", "b"}, 6) : \E s \in Spans(text) :
    LET anchor == createTextAnchor(text, s[1], s[2])
        found == exactMatch(anchor, text)
    IN  /\ found # Orphan /\ found.start # s[1] /\ found.confidence = Certain
        /\ \A script \in Scripts(text, text) :
             (\A k \in DOMAIN script : script[k] = "keep")
             => mappedMatch(anchor, text, script) = Located("fuzzy", s[1], s[2], Certain)

\* A comment's place begins in the document, at no less than the floor's confidence, wherever
\* the search looked and whether or not the pinned text is still there, and it ends there too
\* unless the search found the quote's beginning at the end of the text: then the place may
\* reach beyond it.
ASSUME PlacesBeginInTheText ==
  \A old, new \in Texts({"a", "b"}, 3) : \A s \in Spans(old), purged \in BOOLEAN :
    \A found \in Resolutions(createTextAnchor(old, s[1], s[2]), old, new, purged, FALSE) :
      found # Orphan =>
        /\ found.start \in 0 .. Len(new) /\ found.start < found.end
        /\ found.confidence \in ConfidenceFloor .. Certain
        /\ found.end <= Len(new) \/ found.method = "fuzzy"

ASSUME PlacesReachBeyond ==
  \E old, new \in Texts({"a", "b"}, 3) : \E s \in Spans(old) :
    \E found \in Resolutions(createTextAnchor(old, s[1], s[2]), old, new, FALSE, FALSE) :
      found # Orphan /\ found.end > Len(new)

\* An edge is an orphan in the very source it was taken from; a node is not, after it was
\* removed from the diagram, where its name is in the text.
ASSUME EdgesAreOrphaned ==
  /\ resolveNonText(edgeId("a", "b"), edgeSource("a", "b")) = Orphan
  /\ \E text \in Texts({"a", "b"}, 2) : resolveNonText(<<"b">>, text) # Orphan

=============================================================================
