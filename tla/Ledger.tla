------------------------------- MODULE Ledger -------------------------------
(***************************************************************************)
(* What the webhook promises, whatever Stripe and the server do: the       *)
(* organization's row is a ledger of the events that were sent.  An event  *)
(* is applied at most once, in one step, and sets some of the columns it   *)
(* tells to what it tells; nothing else ever changes the row.              *)
(***************************************************************************)
EXTENDS Integers, Sequences

CONSTANT AsItIs    \* what an event says of a column it does not tell

VARIABLES
    row,           \* column -> its value
    sent,          \* the events: each a function from columns to what it tells
    applied        \* the events that took effect, or turned out to have none

vars == <<row, sent, applied>>

Init == sent = <<>> /\ applied = {}

\* Stripe may tell anything, but takes nothing back.
Send ==
    /\ Len(sent') = Len(sent) + 1 /\ SubSeq(sent', 1, Len(sent)) = sent
    /\ UNCHANGED <<row, applied>>

\* Columns another event has set meanwhile to what this one was to set may be left alone.
Apply(e) ==
    /\ e \notin applied
    /\ applied' = applied \cup {e}
    /\ \E told \in SUBSET {c \in DOMAIN row : sent[e][c] # AsItIs} :
         row' = [c \in DOMAIN row |-> IF c \in told THEN sent[e][c] ELSE row[c]]
    /\ UNCHANGED sent

Next == Send \/ \E e \in DOMAIN sent : Apply(e)

Spec == Init /\ [][Next]_vars
=============================================================================
