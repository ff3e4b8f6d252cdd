------------------------------- MODULE Anchors -----------------------------
(***************************************************************************)
(* From a selection in the rendered document to offsets in its source, and  *)
(* back to the letters that are marked.  Each run of rendered text, a leaf, *)
(* is tagged with the range of the source it was made of, and aligned with  *)
(* it: the parser drops the marks that continue a list or a quotation.      *)
(* Texts are sequences of letters; offsets count from 0.                    *)
(***************************************************************************)
EXTENDS Naturals, Sequences, FiniteSetsExt, SequencesExt

Newline == "newline"
PrefixChars == {" ", ">"}

\* A letter in the run of blanks and marks that begins a line, the text's own first line
\* excepted.
isStrippableLinePrefixChar(source, i) ==
  \E j \in 1 .. i - 1 : source[j] = Newline /\ \A k \in j + 1 .. i : source[k] \in PrefixChars

Nowhere == {}

\* The source offset after each letter of the leaf, {} from the first that is not there: each is
\* the next one that equals it, with nothing but strippable letters before.
tryAlignFrom(source, leaf, start) ==
  LET Next(si, letter) ==
        {i + 1 : i \in {i \in si .. Len(source) - 1 :
                          /\ source[i + 1] = letter
                          /\ \A k \in si .. i - 1 :
                               /\ source[k + 1] # letter
                               /\ isStrippableLinePrefixChar(source, k + 1)}}
      f[k \in 0 .. Len(leaf)] ==
        IF k = 0 THEN {start} ELSE UNION {Next(si, leaf[k]) : si \in f[k - 1]}
  IN  f

\* The alignment from the first letter where there is one.
alignLeaf(source, leaf) ==
  LET starts == {s \in 0 .. Len(source) - 1 :
                   source[s + 1] = leaf[1] /\ tryAlignFrom(source, leaf, s)[Len(leaf)] # Nowhere}
  IN  IF starts = {} THEN <<>> ELSE tryAlignFrom(source, leaf, Min(starts))

Aligned(source, leaf) == alignLeaf(source, leaf) # <<>>

sourceOffsetAt(source, leaf, k) == CHOOSE o \in alignLeaf(source, leaf)[k] : TRUE

renderedOffsetAt(source, leaf, o) ==
  LET reached == {k \in 0 .. Len(leaf) : sourceOffsetAt(source, leaf, k) >= o}
  IN  IF reached = {} THEN Len(leaf) ELSE Min(reached)

-----------------------------------------------------------------------------
\* A page is a sequence of leaves, each after some letters of the source that are not text.
Leaf(gap, source, text) == [gap |-> gap, source |-> source, text |-> text]

LeafStart(page, i) ==
  LET f[n \in 0 .. i] ==
        IF n = 0 THEN 0
        ELSE f[n - 1] + (IF n = 1 THEN 0 ELSE Len(page[n - 1].source)) + page[n].gap
  IN  f[i]

LeafEnd(page, i) == LeafStart(page, i) + Len(page[i].source)

\* A place is a leaf and an offset in its text.
resolveSourceOffset(page, place) ==
  LeafStart(page, place[1])
    + sourceOffsetAt(page[place[1]].source, page[place[1]].text, place[2])

\* The source range of a selection, none where it ends before it begins.
captureTextAnchor(page, from, to) ==
  LET start == resolveSourceOffset(page, from)
      end == resolveSourceOffset(page, to)
  IN  IF end > start THEN {<<start, end>>} ELSE {}

\* The letters from one place up to another.
LettersOf(page, from, to) ==
  {letter \in UNION {{i} \X (1 .. Len(page[i].text)) : i \in DOMAIN page} :
     /\ letter[1] > from[1] \/ (letter[1] = from[1] /\ letter[2] > from[2])
     /\ letter[1] < to[1] \/ (letter[1] = to[1] /\ letter[2] <= to[2])}

\* The letters marked for a range of the source: from the first leaf with a part of it to the last.
resolveStructural(page, start, end) ==
  LET lo(i) == Max({LeafStart(page, i) + sourceOffsetAt(page[i].source, page[i].text, 0), start})
      hi(i) == Min({LeafStart(page, i)
                      + sourceOffsetAt(page[i].source, page[i].text, Len(page[i].text)), end})
      parts == {i \in DOMAIN page : LeafEnd(page, i) > start /\ LeafStart(page, i) < end
                                    /\ lo(i) < hi(i)}
      At(i, o) == <<i, renderedOffsetAt(page[i].source, page[i].text, o - LeafStart(page, i))>>
  IN  IF parts = {} THEN {}
      ELSE LettersOf(page, At(Min(parts), lo(Min(parts))), At(Max(parts), hi(Max(parts))))

-----------------------------------------------------------------------------
\* What the parser may make of a source: without some of the marks each line begins with.
KeptSets(source) ==
  LET marks == {i \in DOMAIN source : isStrippableLinePrefixChar(source, i)}
  IN  {DOMAIN source \ gone : gone \in {g \in SUBSET marks :
         \A i \in g : i - 1 \in g \/ source[i - 1] = Newline}}

Kept(source, kept) ==
  LET places == SetToSortSeq(kept, LAMBDA i, j : i < j) IN [k \in DOMAIN places |-> source[places[k]]]

Sources(length) == UNION {[1 .. n -> {"a", Newline, " ", ">"}] : n \in 1 .. length}

\* However many of its marks a line loses, the leaf is aligned with its source: offsets
\* increase, each letter that is no mark has its own, and mapping back gives the same place.
ASSUME LettersKeepTheirPlace ==
  \A source \in Sources(5) : \A kept \in KeptSets(source) :
    LET leaf == Kept(source, kept)
        places == SetToSortSeq(kept, LAMBDA i, j : i < j)
        at == alignLeaf(source, leaf)
        Offset(k) == CHOOSE o \in at[k] : TRUE
    IN  /\ at # <<>>
        /\ \A k \in 1 .. Len(leaf) :
             /\ Offset(k - 1) < Offset(k) /\ source[Offset(k)] = leaf[k]
             /\ leaf[k] \notin PrefixChars => Offset(k) = places[k]
        /\ \A k \in 0 .. Len(leaf) : renderedOffsetAt(source, leaf, Offset(k)) = k

\* A block of code is tagged with its fence: code that repeats the word on the fence is taken
\* for that word.
ASSUME CodeMayBeTakenForItsFence ==
  LET code == <<"a", Newline>>
  IN  Min(alignLeaf(<<"fence">> \o <<"a", Newline>> \o code \o <<"fence">>, code)[0]) = 1

Pages ==
  LET leaves == {Leaf(g, s, t) : g \in {0, 2}, s \in {<<"a", Newline, ">", " ", "a">>},
                                 t \in {<<"a", Newline, "a">>}}
                \cup {Leaf(g, <<"a", "a">>, <<"a", "a">>) : g \in {0, 1}}
  IN  UNION {[1 .. n -> leaves] : n \in 1 .. 3}

\* What is marked for a selection is what was selected, across leaves, dropped marks and
\* letters of the source that are not shown, whatever end of a leaf it begins or ends at.
ASSUME SelectionIsMarked ==
  \A page \in Pages :
    LET places == UNION {{i} \X (0 .. Len(page[i].text)) : i \in DOMAIN page}
    IN  \A from, to \in places :
          LET selected == LettersOf(page, from, to)
          IN  selected # {} =>
                \E range \in captureTextAnchor(page, from, to) :
                  resolveStructural(page, range[1], range[2]) = selected

=============================================================================
