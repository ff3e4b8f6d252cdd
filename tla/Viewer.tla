------------------------------- MODULE Viewer ------------------------------
(***************************************************************************)
(* One reader's page of a document: the text, the rail of threads, and the  *)
(* text of an older version.  Whatever the reader does becomes a request,    *)
(* and then others that read what it made; they are served and answered in   *)
(* any order while other people change the document too.                     *)
(***************************************************************************)
EXTENDS Naturals

CONSTANTS
  Threads,    \* the threads there can be
  Requests,   \* requests in flight at the same time
  MaxSeq,     \* bound: versions of the document
  MaxActs,    \* bound: what the reader does
  MaxOthers,  \* bound: what others do
  Unset

ASSUME ViewerAssumption ==
  /\ MaxSeq \in Nat \ {0} /\ MaxActs \in Nat /\ MaxOthers \in Nat
  /\ Unset \notin Nat /\ \A list \in SUBSET (Threads \X BOOLEAN) : list # Unset

VARIABLES
  \* the server
  status,      \* of each thread
  voted,       \* whether the reader has upvoted it
  current,     \* the current version
  \* the page
  threads,     \* the open threads loaded, each with the reader's vote as shown
  resolvedThreads,  \* the resolved ones, Unset when they are to be loaded
  filter,      \* "none", "resolved", or one of the filters of open threads: "open"
  source,      \* the version whose text is loaded
  against,     \* the version the loaded threads' anchors are resolved on
  viewVersion, \* the old version selected
  oldSource,   \* the version whose text is loaded as the old one
  triageSeq,   \* the version announced as uploaded
  request,
  \* history
  mine,        \* threads the reader changed after everybody else
  ahead,       \* of each request, those served before it, also in part, and not answered yet
  inOrder,     \* so far answers came in the order of serving
  failed,      \* a request failed
  acts, others

serverVars == <<status, voted, current>>
shownVars ==
  <<threads, resolvedThreads, filter, source, against, viewVersion, oldSource, triageSeq>>
viewerVars == <<serverVars, shownVars, request, mine, ahead, inOrder, failed, acts, others>>

Seqs == 1 .. MaxSeq

\* A thread as it is listed.
Listed == Threads \X BOOLEAN

NoRequest ==
  [pc |-> "none", kind |-> Unset, thread |-> Unset, seq |-> 0, list |-> Unset, text |-> Unset,
   on |-> Unset, vote |-> FALSE]

ViewerTypeOK ==
  /\ status \in [Threads -> {"none", "open", "resolved", "deleted"}]
  /\ voted \in [Threads -> BOOLEAN]
  /\ threads \subseteq Listed
  /\ resolvedThreads = Unset \/ resolvedThreads \subseteq Listed
  /\ filter \in {"none", "open", "resolved"}
  /\ {current, source, against} \subseteq Seqs
  /\ {viewVersion, oldSource} \subseteq Seqs \cup {Unset}
  /\ triageSeq \in 2 .. (MaxSeq + 1) \cup {Unset}
  /\ \A r \in Requests :
       /\ request[r].pc \in {"none", "sent", "served", "refused"}
       /\ request[r].kind \in {"create", "resolve", "delete", "upvote", "upload",
                               "open", "resolved", "all", "version", Unset}
  /\ mine \subseteq Threads
  /\ ahead \in [Requests -> SUBSET Requests]

-----------------------------------------------------------------------------
ListOf(s) == {<<t, voted[t]>> : t \in {u \in Threads : status[u] = s}}

ThreadsIn(list) == {l[1] : l \in list}

Cached == IF resolvedThreads = Unset THEN {} ELSE resolvedThreads

Quiet == \A r \in Requests : request[r].pc = "none"

Free(r) == request[r].pc = "none"

New(kind) == [NoRequest EXCEPT !.pc = "sent", !.kind = kind]

Acts(r, next) ==
  /\ Free(r)
  /\ acts < MaxActs
  /\ acts' = acts + 1
  /\ request' = [request EXCEPT ![r] = next]
  /\ UNCHANGED <<serverVars, mine, ahead, inOrder, failed, others>>

\* What the effect on the filter and the cache asks for: the resolved threads, when they
\* are on screen and not loaded.
NeedsResolved(f, cache) == f \in {"none", "resolved"} /\ cache = Unset

\* Create, resolve or delete a thread that is on the rail as one of that kind.
Change(r, kind, t) ==
  /\ CASE kind = "create" -> status[t] = "none" /\ \A q \in Requests : request[q].thread # t
       [] kind = "resolve" -> t \in ThreadsIn(threads)
       [] kind = "delete" -> t \in ThreadsIn(threads \cup Cached)
  /\ Acts(r, [New(kind) EXCEPT !.thread = t])
  /\ UNCHANGED shownVars

\* A thread's vote wherever the page holds the thread.
Patched(list, t, vote) ==
  IF list = Unset THEN Unset ELSE {IF l[1] = t THEN <<t, vote>> ELSE l : l \in list}

patchUpvote(t, vote) ==
  /\ threads' = Patched(threads, t, vote)
  /\ resolvedThreads' = Patched(resolvedThreads, t, vote)
  /\ UNCHANGED <<filter, source, against, viewVersion, oldSource, triageSeq>>

\* On any thread that is listed, resolved ones too.  Shown as done at once; the vote
\* before is kept for the case it fails.
Upvote(r, l) ==
  /\ l \in threads \cup Cached
  /\ patchUpvote(l[1], ~l[2])
  /\ Acts(r, [New("upvote") EXCEPT !.thread = l[1], !.vote = l[2]])

\* uploadVersionFile; the number to announce is one more than the page's.
Upload(r) ==
  /\ viewVersion' = Unset /\ oldSource' = Unset
  /\ Acts(r, [New("upload") EXCEPT !.seq = source + 1])
  /\ UNCHANGED <<threads, resolvedThreads, filter, source, against, triageSeq>>

SetFilter(r, f) ==
  /\ f # filter
  /\ filter' = f
  /\ Acts(r, IF NeedsResolved(f, resolvedThreads) THEN New("resolved") ELSE NoRequest)
  /\ UNCHANGED <<threads, resolvedThreads, source, against, viewVersion, oldSource, triageSeq>>

SelectVersion(r, v) ==
  /\ v < source /\ v # viewVersion
  /\ viewVersion' = v
  /\ Acts(r, [New("version") EXCEPT !.seq = v])
  /\ UNCHANGED <<threads, resolvedThreads, filter, source, against, oldSource, triageSeq>>

BackToCurrent(r) ==
  /\ viewVersion # Unset
  /\ viewVersion' = Unset /\ oldSource' = Unset
  /\ Acts(r, NoRequest)
  /\ UNCHANGED <<threads, resolvedThreads, filter, source, against, triageSeq>>

-----------------------------------------------------------------------------
\* The server: it does what was asked, or refuses.
Allowed(q) ==
  CASE q.kind = "create" -> status[q.thread] = "none"
    [] q.kind = "resolve" -> status[q.thread] = "open"
    [] q.kind = "delete" -> status[q.thread] \in {"open", "resolved"}
    [] q.kind = "upvote" -> status[q.thread] \in {"open", "resolved"}
    [] OTHER -> TRUE

Becomes(kind) ==
  CASE kind = "create" -> "open" [] kind = "resolve" -> "resolved" [] kind = "delete" -> "deleted"

Effect(q) ==
  /\ status' = IF q.kind \in {"create", "resolve", "delete"}
               THEN [status EXCEPT ![q.thread] = Becomes(q.kind)] ELSE status
  /\ voted' = IF q.kind = "upvote" THEN [voted EXCEPT ![q.thread] = ~@] ELSE voted
  /\ \/ UNCHANGED current
     \/ q.kind = "upload" /\ current < MaxSeq /\ current' = current + 1
  /\ mine' = IF q.kind \in {"create", "resolve", "delete"} THEN mine \cup {q.thread} ELSE mine

Reply(q) ==
  CASE q.kind = "upvote" -> [q EXCEPT !.pc = "served", !.on = ~voted[q.thread]]
    [] q.kind = "open" -> [q EXCEPT !.pc = "served", !.list = ListOf("open"), !.on = current]
    [] q.kind = "resolved" -> [q EXCEPT !.pc = "served", !.list = ListOf("resolved")]
    [] OTHER -> [q EXCEPT !.pc = "served"]

SameShown == UNCHANGED <<shownVars, inOrder, failed, acts, others>>

\* Served, also in part, and not answered.
Begun(q) ==
  \/ q.pc \in {"served", "refused"}
  \/ q.pc = "sent" /\ (q.text # Unset \/ q.list # Unset)

Follows(r) == ahead' = [ahead EXCEPT ![r] = {x \in Requests : Begun(request[x])}]

Respond(r) ==
  LET q == request[r]
  IN  /\ q.pc = "sent" /\ q.kind # "all"
      /\ Follows(r)
      /\ \/ /\ Allowed(q)
            /\ Effect(q)
            /\ request' = [request EXCEPT ![r] = Reply(q)]
         \/ /\ ~Allowed(q)
            /\ request' = [request EXCEPT ![r].pc = "refused"]
            /\ UNCHANGED <<serverVars, mine>>
      /\ SameShown

\* refreshAll: the text and the threads are read side by side, and shown together.
Part(r, q) ==
  request' = [request EXCEPT ![r] =
    IF q.text # Unset /\ q.list # Unset THEN [q EXCEPT !.pc = "served"] ELSE q]

RespondInPart(r) ==
  LET q == request[r]
  IN  /\ q.pc = "sent" /\ q.kind = "all"
      /\ \/ q.text = Unset /\ Part(r, [q EXCEPT !.text = current])
         \/ q.list = Unset /\ Part(r, [q EXCEPT !.list = ListOf("open"), !.on = current])
      /\ IF Begun(q) THEN UNCHANGED ahead ELSE Follows(r)
      /\ UNCHANGED <<serverVars, mine>> /\ SameShown

-----------------------------------------------------------------------------
\* Whoever was served after r waits for it no more.
Answered(r) == ahead' = [x \in Requests |-> IF x = r THEN {} ELSE ahead[x] \ {r}]

\* The page takes an answer.
Takes(r, next) ==
  /\ request[r].pc = "served"
  /\ request' = [request EXCEPT ![r] = next]
  /\ inOrder' = (inOrder /\ ahead[r] = {})
  /\ Answered(r)
  /\ UNCHANGED <<serverVars, mine, failed, acts, others>>

\* act, resolveWithSweep: what was done is read back.
Done(r) ==
  /\ request[r].kind \in {"create", "resolve", "delete"}
  /\ Takes(r, New("open"))
  /\ UNCHANGED shownVars

Uploaded(r) ==
  /\ request[r].kind = "upload"
  /\ Takes(r, [New("all") EXCEPT !.seq = request[r].seq])
  /\ UNCHANGED shownVars

Upvoted(r) ==
  /\ request[r].kind = "upvote"
  /\ Takes(r, NoRequest)
  /\ patchUpvote(request[r].thread, request[r].on)

\* Wrong: the resolved threads stay as they were.
CacheKept == resolvedThreads

CacheDropped == Unset

\* Dropping the cache asks for the resolved threads, unless it was being loaded anyway.
Reloads == IF filter \in {"none", "resolved"} /\ resolvedThreads # Unset /\ CacheDropped = Unset
           THEN New("resolved") ELSE NoRequest

refreshThreads(r) ==
  /\ request[r].kind = "open"
  /\ Takes(r, Reloads)
  /\ threads' = request[r].list
  /\ against' = request[r].on
  /\ resolvedThreads' = CacheDropped
  /\ UNCHANGED <<filter, source, viewVersion, oldSource, triageSeq>>

refreshAll(r) ==
  /\ request[r].kind = "all"
  /\ Takes(r, Reloads)
  /\ threads' = request[r].list
  /\ against' = request[r].on
  /\ source' = request[r].text
  /\ resolvedThreads' = CacheDropped
  /\ triageSeq' = request[r].seq
  /\ UNCHANGED <<filter, viewVersion, oldSource>>

ResolvedLoaded(r) ==
  /\ request[r].kind = "resolved"
  /\ Takes(r, NoRequest)
  /\ resolvedThreads' = request[r].list
  /\ UNCHANGED <<threads, filter, source, against, viewVersion, oldSource, triageSeq>>

VersionLoaded(r) ==
  /\ request[r].kind = "version"
  /\ Takes(r, NoRequest)
  /\ oldSource' = request[r].seq
  /\ UNCHANGED <<threads, resolvedThreads, filter, source, against, viewVersion, triageSeq>>

\* What an error does: a vote is taken back, the selection of a version given up.
Undone(q) ==
  CASE q.kind = "upvote" -> patchUpvote(q.thread, q.vote)
    [] q.kind = "version" ->
         /\ viewVersion' = Unset /\ oldSource' = Unset
         /\ UNCHANGED <<threads, resolvedThreads, filter, source, against, triageSeq>>
    [] OTHER -> UNCHANGED shownVars

RequestFails(r) ==
  LET q == request[r]
  IN  /\ q.pc # "none"
      /\ request' = [request EXCEPT ![r] = NoRequest]
      /\ Answered(r)
      /\ failed' = (failed \/ q.pc # "refused")
      /\ inOrder' = (inOrder /\ (q.pc = "refused" => ahead[r] = {}))
      /\ Undone(q)
      /\ UNCHANGED <<serverVars, mine, acts, others>>

\* Somebody else.
Other(t, kind) ==
  /\ others < MaxOthers
  /\ others' = others + 1
  /\ Allowed([NoRequest EXCEPT !.kind = kind, !.thread = t])
  /\ status' = [status EXCEPT ![t] = Becomes(kind)]
  /\ mine' = mine \ {t}
  /\ UNCHANGED <<voted, current, shownVars, request, ahead, inOrder, failed, acts>>

OtherUpload ==
  /\ others < MaxOthers
  /\ others' = others + 1
  /\ current < MaxSeq
  /\ current' = current + 1
  /\ UNCHANGED <<status, voted, shownVars, request, mine, ahead, inOrder, failed, acts>>

-----------------------------------------------------------------------------
\* The page is loaded.
ViewerInit ==
  /\ status \in [Threads -> {"none", "open", "resolved"}]
  /\ voted = [t \in Threads |-> FALSE]
  /\ current \in Seqs
  /\ threads = ListOf("open")
  /\ resolvedThreads = ListOf("resolved")
  /\ filter = "none"
  /\ source = current
  /\ against = current
  /\ viewVersion = Unset
  /\ oldSource = Unset
  /\ triageSeq = Unset
  /\ request = [r \in Requests |-> NoRequest]
  /\ mine = {}
  /\ ahead = [r \in Requests |-> {}]
  /\ inOrder = TRUE
  /\ failed = FALSE
  /\ acts = 0
  /\ others = 0

Reader(r) ==
  \/ \E t \in Threads, kind \in {"create", "resolve", "delete"} : Change(r, kind, t)
  \/ \E l \in threads \cup Cached : Upvote(r, l)
  \/ Upload(r)
  \/ \E f \in {"none", "open", "resolved"} : SetFilter(r, f)
  \/ \E v \in Seqs : SelectVersion(r, v)
  \/ BackToCurrent(r)

Answers(r) ==
  \/ Done(r) \/ Uploaded(r) \/ Upvoted(r) \/ refreshThreads(r) \/ refreshAll(r)
  \/ ResolvedLoaded(r) \/ VersionLoaded(r) \/ RequestFails(r)

ViewerNext ==
  \/ \E r \in Requests : Reader(r) \/ Respond(r) \/ RespondInPart(r) \/ Answers(r)
  \/ \E t \in Threads, kind \in {"create", "resolve", "delete"} : Other(t, kind)
  \/ OtherUpload

ViewerSpec == ViewerInit /\ [][ViewerNext]_viewerVars

-----------------------------------------------------------------------------
\* A thread stands on the rail where the server has it.
Placed(t) ==
  /\ t \in ThreadsIn(threads) <=> status[t] = "open"
  /\ filter # "open" => /\ resolvedThreads # Unset
                         /\ t \in ThreadsIn(Cached) <=> status[t] = "resolved"

VotesShown ==
  \A l \in threads \cup Cached : status[l[1]] # "deleted" => l[2] = voted[l[1]]

\* Once all is answered, the rail shows whatever the reader has changed last as it is,
\* however the reader's own changes, votes, filters and reloads overlapped and whatever
\* others did between; unless an answer was overtaken or a request failed.
RailShowsMyChanges ==
  Quiet /\ inOrder /\ ~failed => VotesShown /\ \A t \in mine : Placed(t)

\* Not so: what the reader did shows once all is answered.
RailIsFresh == Quiet /\ ~failed => VotesShown /\ \A t \in mine : Placed(t)

\* Not so: the text shown under an old version's banner is that version's, not even once
\* all is answered.
BannerNamesTheText == Quiet /\ viewVersion # Unset /\ oldSource # Unset => oldSource = viewVersion

\* Not so: the dropped cache is loaded again, when it is on screen.
CacheReloaded == Quiet /\ filter # "open" => resolvedThreads # Unset

\* Not so: "v{newSeq} uploaded".
TriageIsTrue == Quiet /\ ~failed /\ triageSeq # Unset => triageSeq <= current

\* Not so: a highlight stands "where the anchor resolves on this version".
MarksFitTheText == Quiet /\ ~failed => against = source

=============================================================================
