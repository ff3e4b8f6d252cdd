-------------------------------- MODULE Home -------------------------------
(***************************************************************************)
(* The home screen over a workspace that changes under it: one lane of      *)
(* documents, newest activity first, read page by page.  A screen's own     *)
(* requests can be answered in any order.                                   *)
(***************************************************************************)
EXTENDS Workspace

CONSTANTS
  Fetches,     \* requests in flight at the same time
  Lanes,       \* the lanes the reader looks at
  Limit        \* documents of a page

ASSUME HomeAssumption ==
  /\ Limit \in Nat \ {0}
  /\ "all" \in Lanes /\ Lanes \subseteq {"all", "unfiled", "archived"} \cup Projects

VARIABLES
  lane,       \* the lane selected
  listed,     \* the documents shown
  nextCursor,
  fetch,      \* of each request: what for, for which lane, and its answer
  touched,    \* history: documents written since the listing was begun
  steady      \* history: since it was begun, no request overlapped another one or failed

homeVars == <<lane, listed, nextCursor, fetch, touched, steady>>

NoFetch == [pc |-> "none", more |-> FALSE, lane |-> "all", cursor |-> <<>>, page |-> None]

HomeTypeOK ==
  /\ WorkspaceTypeOK
  /\ lane \in Lanes
  /\ ToSet(listed) \subseteq Docs
  /\ \A f \in Fetches :
       /\ fetch[f].pc \in {"none", "sent", "answered"}
       /\ fetch[f].lane \in Lanes
  /\ touched \subseteq Docs
  /\ steady \in BOOLEAN

-----------------------------------------------------------------------------
InLane(d, l) ==
  /\ Live(d)
  /\ document[d].archived = (l = "archived")
  /\ l \in Projects => document[d].project = l
  /\ l = "unfiled" => document[d].project = None

Rows(l) == {<<d, document[d].at>> : d \in {e \in Docs : InLane(e, l)}}

\* Wrong: the column as it is stored.
homeOverviewStored(l, cursor) == listPublicDocs(Rows(l), cursor, Limit)

homeOverview(l, cursor) == overviewPage(Rows(l), cursor, Limit)

Alone == \A f \in Fetches : fetch[f].pc = "none"

Unseen == UNCHANGED <<lane, listed, nextCursor, touched>>

Asks(f, request) ==
  /\ fetch[f].pc = "none"
  /\ Counted
  /\ fetch' = [fetch EXCEPT ![f] = request]

\* The effect of a lane: its first page, whatever else is under way.
SelectLane(f, l) ==
  /\ l # lane
  /\ Asks(f, [NoFetch EXCEPT !.pc = "sent", !.lane = l])
  /\ lane' = l
  /\ steady' = Alone
  /\ UNCHANGED <<listed, nextCursor, touched>>

\* act, bulk and uploadFiles: their work, and then the first page of the lane they were
\* begun in.
Act(f) ==
  /\ Asks(f, [NoFetch EXCEPT !.pc = "sent", !.lane = lane])
  /\ steady' = Alone
  /\ Unseen

loadMore(f) ==
  /\ nextCursor # <<>>
  /\ Asks(f, [NoFetch EXCEPT !.pc = "sent", !.more = TRUE, !.lane = lane, !.cursor = nextCursor])
  /\ steady' = (steady /\ Alone)
  /\ Unseen

\* The server reads the lane as it is now; a listing begins with its first page.
Serve(f) ==
  /\ fetch[f].pc = "sent"
  /\ fetch' = [fetch EXCEPT ![f].pc = "answered",
                            ![f].page = homeOverview(fetch[f].lane, fetch[f].cursor)]
  /\ touched' = IF fetch[f].more THEN touched ELSE {}
  /\ UNCHANGED <<lane, listed, nextCursor, steady, events>>

Ids(rows) == [i \in DOMAIN rows |-> rows[i][1]]

\* The answer is shown, whichever lane is selected by then.
Deliver(f) ==
  LET page == fetch[f].page
  IN  /\ fetch[f].pc = "answered"
      /\ listed' = IF fetch[f].more THEN listed \o Ids(page.rows) ELSE Ids(page.rows)
      /\ nextCursor' = page.next
      /\ fetch' = [fetch EXCEPT ![f] = NoFetch]
      /\ UNCHANGED <<lane, touched, steady, events>>

\* "Could not load documents": what was shown stays.
Fail(f) ==
  /\ fetch[f].pc \in {"sent", "answered"}
  /\ fetch' = [fetch EXCEPT ![f] = NoFetch]
  /\ steady' = FALSE
  /\ Unseen /\ UNCHANGED events

-----------------------------------------------------------------------------
HomeInit ==
  /\ WorkspaceInit
  /\ lane = "all"
  /\ listed = <<>>
  /\ nextCursor = <<>>
  /\ fetch = [f \in Fetches |-> NoFetch]
  /\ touched = Docs
  /\ steady = FALSE

ScreenNext(f) ==
  \/ \E l \in Lanes : SelectLane(f, l)
  \/ Act(f) \/ loadMore(f)
  \/ Serve(f) \/ Deliver(f) \/ Fail(f)

HomeNext ==
  \/ /\ WorkspaceNext
     /\ touched' = touched \cup {d \in Docs : document'[d] # document[d]}
     /\ UNCHANGED <<lane, listed, nextCursor, fetch, steady>>
  \/ /\ \E f \in Fetches : ScreenNext(f)
     /\ UNCHANGED <<document, projects, strayed, lock, call>>

HomeSpec == HomeInit /\ [][HomeNext]_<<workspaceVars, homeVars>>

-----------------------------------------------------------------------------
\* Who pages a lane to its end sees every document of it once and no other, except
\* those written meanwhile, however many others move past the cursor and whatever shares
\* its millisecond; unless requests overlapped or failed.
ListedOnce ==
  steady /\ Alone /\ nextCursor = <<>> =>
    \A d \in Docs \ touched :
      Cardinality({i \in DOMAIN listed : listed[i] = d}) = (IF InLane(d, lane) THEN 1 ELSE 0)

\* Not so: what is shown under a lane's title belongs to the lane, once all is answered.
ShowsTheLane ==
  Alone => \A i \in DOMAIN listed : listed[i] \in touched \/ InLane(listed[i], lane)

=============================================================================
