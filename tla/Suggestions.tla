---------------------------- MODULE Suggestions -----------------------------
(***************************************************************************)
(* Suggested edits of one document: acceptSuggestion and rejectSuggestion, *)
(* which only record a decision, and the reading of threads, which finds   *)
(* out later whether some version really contains the proposal.            *)
(*                                                                         *)
(* Every one of them reads the suggestion in one transaction and writes it *)
(* in another; all that holds them together is the where clause of the     *)
(* update.                                                                 *)
(***************************************************************************)
EXTENDS Threads

CONSTANTS
  Deciders,   \* calls of acceptSuggestion and rejectSuggestion
  Readers     \* calls of listThreadsWithResolutions

VARIABLES
  contains,   \* per version: suggestions whose proposal it shows at their anchor
  suggestion, \* comments.suggestion_outcome and applied_version_id
  decider,    \* each decision call
  reader      \* each reader: the threads and the version it works on

suggestionVars == <<contains, suggestion, decider, reader>>
suggestVars == <<threadVars, suggestionVars>>

Outcomes == {"open", "accepted", "rejected"}

SuggestionsTypeOK ==
  /\ ThreadsTypeOK
  /\ contains \in [Versions -> SUBSET Comments]
  /\ suggestion \in [Comments -> [outcome : Outcomes, applied : published \cup {0}]]
  /\ decider \in [Deciders -> [pc : {"idle", "update", "won", "lost"},
                               on : SUBSET Comments, outcome : Outcomes]]
  /\ reader \in [Readers -> [pc : {"idle", "document", "resolve"},
                             threads : SUBSET Comments, version : published \cup {0}]]

Present(c) == comment[c].status \in {"open", "resolved"}

-----------------------------------------------------------------------------
\* A version appears, and with it which proposals its text contains.
PublishText(v, proposals) ==
  /\ Publish(v)
  /\ contains' = [contains EXCEPT ![v] = proposals]
  /\ UNCHANGED <<suggestion, decider, reader>>

\* The calls' first transactions: the suggestion is still open when read.
DecideRead(x, c, outcome) ==
  /\ decider[x].pc = "idle"
  /\ Present(c)
  /\ suggestion[c].outcome = "open"
  /\ decider' = [decider EXCEPT ![x] = [pc |-> "update", on |-> {c}, outcome |-> outcome]]
  /\ UNCHANGED <<threadVars, contains, suggestion, reader>>

\* Wrong: the update trusts what the call read.
CanSetAnyOutcome(c) == Present(c)

\* setSuggestionOutcome where the row is an open, present suggestion.
CanSetOutcome(c) == Present(c) /\ suggestion[c].outcome = "open"

setSuggestionOutcome(c, outcome) ==
  suggestion' = [suggestion EXCEPT ![c].outcome = outcome]

DecideUpdate(x, c) ==
  /\ decider[x].pc = "update"
  /\ c \in decider[x].on
  /\ IF CanSetOutcome(c)
       THEN /\ setSuggestionOutcome(c, decider[x].outcome)
            /\ decider' = [decider EXCEPT ![x].pc = "won"]
       ELSE /\ decider' = [decider EXCEPT ![x].pc = "lost"]
            /\ UNCHANGED suggestion
  /\ UNCHANGED <<threadVars, contains, reader>>

-----------------------------------------------------------------------------
(* listThreadsWithResolutions.                                              *)

\* listCommentThreads: what materializeIfMatched will consider later.
ReadThreads(x) ==
  /\ reader[x].pc = "idle"
  /\ current # 0
  /\ reader' = [reader EXCEPT ![x] =
       [pc |-> "document", version |-> 0,
        threads |-> {c \in Comments : /\ Present(c)
                                      /\ suggestion[c].outcome = "accepted"
                                      /\ suggestion[c].applied = 0}]]
  /\ UNCHANGED <<threadVars, contains, suggestion, decider>>

ReadDocument(x) ==
  /\ reader[x].pc = "document"
  /\ reader' = [reader EXCEPT ![x] =
       [pc |-> "resolve", threads |-> @.threads, version |-> current]]
  /\ UNCHANGED <<threadVars, contains, suggestion, decider>>

\* Wrong: an earlier record is written over.
CanMarkAgain(c) == Present(c) /\ suggestion[c].outcome = "accepted"

\* markSuggestionApplied where the row is accepted, present and not yet applied.
CanMarkApplied(c) ==
  /\ Present(c)
  /\ suggestion[c].outcome = "accepted"
  /\ suggestion[c].applied = 0

\* Wrong: the version recorded is whatever is current by now.
markAppliedByLatest(x, c) == suggestion' = [suggestion EXCEPT ![c].applied = current]

markSuggestionApplied(x, c) ==
  suggestion' = [suggestion EXCEPT ![c].applied = reader[x].version]

\* materializeIfMatched, comment by comment in any order.
Materialize(x, c) ==
  /\ reader[x].pc = "resolve"
  /\ c \in reader[x].threads
  /\ reader' = [reader EXCEPT ![x].threads = @ \ {c}]
  /\ IF c \in contains[reader[x].version] /\ CanMarkApplied(c)
       THEN markSuggestionApplied(x, c)
       ELSE UNCHANGED suggestion
  /\ UNCHANGED <<threadVars, contains, decider>>

ReadDone(x) ==
  /\ reader[x].pc = "resolve"
  /\ reader[x].threads = {}
  /\ reader' = [reader EXCEPT ![x] = [pc |-> "idle", threads |-> {}, version |-> 0]]
  /\ UNCHANGED <<threadVars, contains, suggestion, decider>>

-----------------------------------------------------------------------------
SuggestInit ==
  /\ ThreadsInit
  /\ contains = [v \in Versions |-> {}]
  /\ suggestion = [c \in Comments |-> [outcome |-> "open", applied |-> 0]]
  /\ decider = [x \in Deciders |-> [pc |-> "idle", on |-> {}, outcome |-> "open"]]
  /\ reader = [x \in Readers |-> [pc |-> "idle", threads |-> {}, version |-> 0]]

Decide(x) ==
  \E c \in Comments :
    \/ DecideRead(x, c, "accepted")
    \/ DecideRead(x, c, "rejected")
    \/ DecideUpdate(x, c)

Read(x) ==
  \/ ReadThreads(x)
  \/ ReadDocument(x)
  \/ \E c \in Comments : Materialize(x, c)
  \/ ReadDone(x)

SuggestNext ==
  \/ \E v \in Versions, proposals \in SUBSET Comments : PublishText(v, proposals)
  \/ \E c \in Comments : Comment(c) /\ UNCHANGED suggestionVars
  \/ \E x \in Deciders : Decide(x)
  \/ \E x \in Readers : Read(x)

SuggestSpec == SuggestInit /\ [][SuggestNext]_suggestVars

-----------------------------------------------------------------------------
(* Properties.                                                              *)

\* Of all accepts and rejects of one suggestion at most one is told that it won,
\* and what it decided stands from then on.
OneDecisionWins ==
  \A x \in Deciders : decider[x].pc = "won" => \A c \in decider[x].on :
    /\ suggestion[c].outcome = decider[x].outcome
    /\ \A y \in Deciders \ {x} : decider[y].pc = "won" => c \notin decider[y].on

\* "Applied" is the truth: an applied suggestion was accepted, and the version it
\* names contains the proposal, however many versions appeared while threads were
\* being read.
AppliedIsTrue ==
  \A c \in Comments : suggestion[c].applied # 0 =>
    /\ suggestion[c].outcome = "accepted"
    /\ c \in contains[suggestion[c].applied]

\* The version a suggestion was applied in is recorded once: a slower reader of an
\* older or newer version never moves it, nor does anything touch a suggestion
\* once its comment is deleted.
AppliedOnce ==
  [][\A c \in Comments : suggestion'[c] # suggestion[c] =>
       suggestion[c].applied = 0 /\ Present(c)]_suggestVars
=============================================================================
