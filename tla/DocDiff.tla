------------------------------- MODULE DocDiff -----------------------------
(***************************************************************************)
(* The comparison of two versions of a document, block by block: what the   *)
(* diff library's script makes of the blocks, and how deleted blocks are    *)
(* paired with the inserted ones that follow them.  A block is a text.      *)
(***************************************************************************)
EXTENDS Reanchor

Unchanged(b, a) == [type |-> "unchanged", before |-> {b}, after |-> {a}]
Modified(b, a) == [type |-> "modified", before |-> {b}, after |-> {a}]
Removed(b) == [type |-> "removed", before |-> {b}, after |-> {}]
Added(a) == [type |-> "added", before |-> {}, after |-> {a}]

\* DIFF_MODIFIED_SIMILARITY_THRESHOLD
AlikeFloor == 420

\* A deleted block and an inserted one at the same place of their runs: one block that was
\* modified, if they are alike, else two.
Paired(before, after, b, a) ==
  IF similarity(before[b], after[a]) >= AlikeFloor THEN <<Modified(b, a)>>
  ELSE <<Removed(b), Added(a)>>

\* Blocks b + 1 .. b + d were deleted, and a + 1 .. a + n inserted right after.
pairRuns(before, after, b, d, a, n) ==
  LET paired == IF d < n THEN d ELSE n
      both == [k \in 1 .. paired |-> Paired(before, after, b + k, a + k)]
  IN  FlattenSeq(both) \o [k \in 1 .. d - paired |-> Removed(b + paired + k)]
                       \o [k \in 1 .. n - paired |-> Added(a + paired + k)]

\* Wrong: what one run has more than the other is forgotten.
pairsOnly(before, after, b, d, a, n) ==
  FlattenSeq([k \in 1 .. (IF d < n THEN d ELSE n) |-> Paired(before, after, b + k, a + k)])

\* A script as runs of one operation each, as the library answers it.
Runs(script) ==
  FoldLeft(LAMBDA runs, op :
             IF runs # <<>> /\ runs[Len(runs)].op = op
             THEN [runs EXCEPT ![Len(runs)].length = @ + 1]
             ELSE Append(runs, [op |-> op, length |-> 1]),
           <<>>, script)

\* The walk over the runs, with how far it is in either version.  An insert run that follows a
\* delete run was consumed with it.
computeDocDiff(before, after, script) ==
  LET runs == Runs(script)
      walk[i \in 0 .. Len(runs)] ==
        IF i = 0 THEN [b |-> 0, a |-> 0, blocks |-> <<>>]
        ELSE
          LET at == walk[i - 1]
              n == runs[i].length
              follows == i < Len(runs) /\ runs[i + 1].op = "insert"
              m == IF follows THEN runs[i + 1].length ELSE 0
              consumed == i > 1 /\ runs[i - 1].op = "delete"
          IN  CASE runs[i].op = "keep" ->
                     [b |-> at.b + n, a |-> at.a + n,
                      blocks |-> at.blocks \o [k \in 1 .. n |-> Unchanged(at.b + k, at.a + k)]]
                [] runs[i].op = "delete" ->
                     [b |-> at.b + n, a |-> at.a + m,
                      blocks |-> at.blocks \o pairRuns(before, after, at.b, n, at.a, m)]
                [] runs[i].op = "insert" /\ consumed -> at
                [] OTHER ->
                     [b |-> at.b, a |-> at.a + n,
                      blocks |-> at.blocks \o [k \in 1 .. n |-> Added(at.a + k)]]
  IN  walk[Len(runs)].blocks

-----------------------------------------------------------------------------
\* The numbers of a version's blocks in the order the comparison shows them.
Order(blocks, version) ==
  FlattenSeq([k \in DOMAIN blocks |-> SetToSeq(blocks[k][version])])

Counting(n) == [k \in 1 .. n |-> k]

\* Blocks that share no letter, that share half of them, and the one that a third has all of.
Blocks == {<<"a", "b">>, <<"b", "c">>, <<"d", "e">>}

Versions3 == UNION {[1 .. n -> Blocks] : n \in 0 .. 3}

\* Whatever script the diff finds, each block of either version is shown once and in order;
\* what is shown as unchanged is the same text in both, and what is shown as modified is alike.
ASSUME BlocksAreShownOnce ==
  \A before, after \in Versions3 : \A script \in Scripts(before, after) :
    LET blocks == computeDocDiff(before, after, script)
    IN  /\ Order(blocks, "before") = Counting(Len(before))
        /\ Order(blocks, "after") = Counting(Len(after))
        /\ \A k \in DOMAIN blocks : \A b \in blocks[k].before, a \in blocks[k].after :
             \/ blocks[k].type = "unchanged" /\ before[b] = after[a]
             \/ blocks[k].type = "modified" /\ similarity(before[b], after[a]) >= AlikeFloor

\* Pairing goes by place: with a block removed before it, a block that was edited is shown as
\* removed and added, though the edited form is alike.
ASSUME PairingGoesByPlace ==
  \E before, after \in Versions3 : \E script \in Scripts(before, after) :
    LET blocks == computeDocDiff(before, after, script)
    IN  \E b \in DOMAIN before, a \in DOMAIN after :
          /\ similarity(before[b], after[a]) >= AlikeFloor
          /\ \A k \in DOMAIN blocks : blocks[k].type \in {"removed", "added"}

-----------------------------------------------------------------------------
\* Inside a modified pair each distinct word, or line, is encoded as one code unit.
CodeUnits == 65536
fromCharCode(code) == code % CodeUnits

\* The distinct words of up to three printable ASCII letters that fit into so many bytes,
\* with a blank after each.
Letters == 94
DistinctWords(bytes) ==
  LET short == Letters + Letters * Letters
  IN  short + (bytes - 2 * Letters - 3 * Letters * Letters) \div 4

DIFF_MAX_BYTES == 200000

\* The cap on bytes keeps one version's words apart but not those of two, even if three fifths
\* of the second one's are the first one's words too: two different words get the same unit.
ASSUME WordsShareCodeUnits ==
  LET one == DistinctWords(DIFF_MAX_BYTES)
      both == one + (2 * one) \div 5
  IN  /\ one < CodeUnits /\ both > CodeUnits
      /\ both - one < (Letters * Letters * Letters) - one
      /\ \E code \in 1 .. both : code # both /\ fromCharCode(code) = fromCharCode(both)

=============================================================================
