-------------------------------- MODULE Keyset -----------------------------
(***************************************************************************)
(* Paging by keyset.  Rows are stamped in microseconds; a cursor goes       *)
(* through a Date of JavaScript, which keeps milliseconds.  A query either   *)
(* truncates the column to milliseconds before it compares and sorts, or     *)
(* compares it as it is stored.                                              *)
(***************************************************************************)
EXTENDS Naturals, Sequences, FiniteSets, SequencesExt

CONSTANT Micros  \* microseconds of a millisecond

ASSUME KeysetAssumption == Micros \in Nat \ {0}

Truncated(at) == Micros * (at \div Micros)
Stored(at) == at

\* A row is <<id, at>>; a cursor is the row it was made of, <<>> for the first page.
encodeCursor(row) == <<row[1], Truncated(row[2])>>

Before(a, b) == a[2] < b[2] \/ (a[2] = b[2] /\ a[1] < b[1])

After(a, b) == Before(b, a)

\* The rows of a page, in a query's order of the keys it compares: one row more than the
\* limit tells whether there is a next page.
PageOf(rows, cursor, limit, Key(_), Order(_, _)) ==
  LET keyed(r) == <<r[1], Key(r[2])>>
      rest == {r \in rows : cursor = <<>> \/ Order(cursor, keyed(r))}
      total == Cardinality(rest)
      place(r) == Cardinality({s \in rest : Order(keyed(s), keyed(r))}) + 1
      shown == [i \in 1 .. (IF total < limit THEN total ELSE limit) |->
                  CHOOSE r \in rest : place(r) = i]
  IN  [rows |-> shown, next |-> IF total > limit THEN encodeCursor(shown[limit]) ELSE <<>>]

\* The home screen, the export of an organization, the public hub and the threads of a
\* document.
overviewPage(rows, cursor, limit) == PageOf(rows, cursor, limit, Truncated, After)
listForExport(rows, cursor, limit) == PageOf(rows, cursor, limit, Truncated, Before)
listPublicDocs(rows, cursor, limit) == PageOf(rows, cursor, limit, Stored, After)
listForDocumentPage(rows, cursor, limit) == PageOf(rows, cursor, limit, Stored, Before)

\* All that a reader is shown who follows the cursors for some pages.
Shown(rows, limit, Page(_, _, _), pages) ==
  LET walk[n \in 0 .. pages] ==
        IF n = 0 THEN [rows |-> <<>>, next |-> <<>>, more |-> TRUE]
        ELSE LET sofar == walk[n - 1]
                 page == Page(rows, sofar.next, limit)
             IN  IF ~sofar.more THEN sofar
                 ELSE [rows |-> sofar.rows \o page.rows, next |-> page.next,
                       more |-> page.next # <<>>]
  IN  walk[pages]

\* The listing ends, with each row once.
ListsEachOnce(rows, limit, Page(_, _, _)) ==
  LET all == Shown(rows, limit, Page, Cardinality(rows) + 1)
  IN  ~all.more /\ Len(all.rows) = Cardinality(rows) /\ ToSet(all.rows) = rows

\* Some row is on no page.
Drops(rows, limit, Page(_, _, _)) ==
  LET all == Shown(rows, limit, Page, Cardinality(rows) + 1)
  IN  ~all.more /\ \E r \in rows : r \notin ToSet(all.rows)

\* The listing shows a row again, or never comes to an end.
Repeats(rows, limit, Page(_, _, _)) ==
  LET all == Shown(rows, limit, Page, 2 * Cardinality(rows))
  IN  all.more \/ Len(all.rows) > Cardinality(rows)

\* Rows of some ids, with any stamps up to a bound.
RowSets(n, last) ==
  {{<<i, at[i]>> : i \in 1 .. n} : at \in [1 .. n -> 0 .. last]}

-----------------------------------------------------------------------------
\* Truncating both sides lists each row exactly once, whatever shares a millisecond.
ASSUME TruncatedListsEachOnce ==
  \A rows \in RowSets(4, 2 * Micros + 1), limit \in 1 .. 3 :
    /\ ListsEachOnce(rows, limit, overviewPage)
    /\ ListsEachOnce(rows, limit, listForExport)

\* The public hub never shows a row twice, but drops rows of the cursor's millisecond.
ASSUME HubDropsRows ==
  /\ \E rows \in RowSets(3, Micros) : Drops(rows, 1, listPublicDocs)
  /\ \A rows \in RowSets(4, 2 * Micros + 1), limit \in 1 .. 3 :
       ~Repeats(rows, limit, listPublicDocs)

\* A listing of threads that ends has lost none, but the last thread of a page can come
\* again on the next, and with pages of one thread the first comes for ever.
ASSUME ThreadsRepeatRows ==
  /\ \E rows \in RowSets(2, Micros) : Repeats(rows, 1, listForDocumentPage)
  /\ \A rows \in RowSets(4, 2 * Micros + 1), limit \in 1 .. 3 :
       ~Drops(rows, limit, listForDocumentPage)

=============================================================================
