-------------------------- MODULE DocumentHistory ---------------------------
(***************************************************************************)
(* What a reader of an organization is promised, with no request, blob,    *)
(* sweep or log in sight: a document appears, publishes numbered contents, *)
(* loses old ones, is hidden by its owner and is erased.                   *)
(*                                                                         *)
(* A number published once never shows anything else, a content that       *)
(* expired never comes back, the newest KeepLastN contents never expire,   *)
(* and a hidden or erased document shows nothing, for good.                *)
(***************************************************************************)
EXTENDS Integers, FiniteSets

CONSTANTS Documents, Contents, Numbers, KeepLastN

VARIABLES
  phase,   \* "absent", "visible", "hidden" or "erased"
  shown,   \* the contents a reader can open now, as <<number, content>>
  spent    \* the numbers that have been published

history == <<phase, shown, spent>>

HistoryInit ==
  /\ phase = [d \in Documents |-> "absent"]
  /\ shown = [d \in Documents |-> {}]
  /\ spent = [d \in Documents |-> {}]

Appear(d) ==
  /\ phase[d] = "absent"
  /\ phase' = [phase EXCEPT ![d] = "visible"]
  /\ UNCHANGED <<shown, spent>>

\* A hidden document may still be published to: nobody sees it.
Publish(d, n, h) ==
  /\ phase[d] \in {"visible", "hidden"}
  /\ n \notin spent[d]
  /\ spent' = [spent EXCEPT ![d] = @ \cup {n}]
  /\ shown' = [shown EXCEPT ![d] = IF phase[d] = "visible" THEN @ \cup {<<n, h>>} ELSE @]
  /\ UNCHANGED phase

Expire(d, c) ==
  /\ c \in shown[d]
  /\ Cardinality({b \in shown[d] : b[1] > c[1]}) >= KeepLastN
  /\ shown' = [shown EXCEPT ![d] = @ \ {c}]
  /\ UNCHANGED <<phase, spent>>

Hide(d) ==
  /\ phase[d] = "visible"
  /\ phase' = [phase EXCEPT ![d] = "hidden"]
  /\ shown' = [shown EXCEPT ![d] = {}]
  /\ UNCHANGED spent

\* A document whose creation failed is erased without having been hidden.
Erase(d) ==
  /\ phase[d] \in {"visible", "hidden"}
  /\ phase' = [phase EXCEPT ![d] = "erased"]
  /\ shown' = [shown EXCEPT ![d] = {}]
  /\ spent' = [spent EXCEPT ![d] = {}]

HistoryNext ==
  \E d \in Documents :
    \/ Appear(d)
    \/ \E n \in Numbers, h \in Contents : Publish(d, n, h)
    \/ \E c \in shown[d] : Expire(d, c)
    \/ Hide(d)
    \/ Erase(d)

HistorySpec == HistoryInit /\ [][HistoryNext]_history
=============================================================================
