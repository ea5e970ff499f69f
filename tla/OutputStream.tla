------------------------------ MODULE OutputStream -----------------------------
(***************************************************************************)
(* What the caller of an operation with output may rely on: the pieces it  *)
(* is given, put together, are what the token produced for this operation, *)
(* in order and without a hole, and each piece arrives before the next one *)
(* is produced.  An operation that ends in an error gives nothing more.    *)
(***************************************************************************)
EXTENDS Naturals, Sequences

CONSTANTS Ops

VARIABLES
    sent,      \* how many bytes the token has produced for each operation
    got,       \* the bytes its caller has received
    status     \* "open", "complete" or "broken"

vars == <<sent, got, status>>

\* The first n bytes the token produces for o.
Bytes(o, n) == [i \in 1 .. n |-> <<o, i>>]

Init ==
    /\ sent = [o \in Ops |-> 0]
    /\ got = [o \in Ops |-> <<>>]
    /\ status = [o \in Ops |-> "open"]

MoreSent(o) ==
    /\ sent'[o] \in Nat
    /\ sent'[o] >= sent[o]
    /\ sent' = [sent EXCEPT ![o] = sent'[o]]

\* The token produces a piece: only if the caller has received the one before.
Produce(o) ==
    /\ status[o] = "open"
    /\ Len(got[o]) = sent[o]
    /\ MoreSent(o)
    /\ UNCHANGED <<got, status>>

\* The caller receives the piece; the last one completes the operation.
Receive(o) ==
    /\ status[o] = "open"
    /\ got' = [got EXCEPT ![o] = Bytes(o, sent[o])]
    /\ \E s \in {"open", "complete"} : status' = [status EXCEPT ![o] = s]
    /\ UNCHANGED sent

\* An error, or the caller gives up: what the token produces from now on, in
\* this step or later, is for nobody.
Break(o) ==
    /\ status[o] = "open"
    /\ status' = [status EXCEPT ![o] = "broken"]
    /\ MoreSent(o)
    /\ UNCHANGED got

Waste(o) ==
    /\ status[o] = "broken"
    /\ MoreSent(o)
    /\ UNCHANGED <<got, status>>

Next == \E o \in Ops : Produce(o) \/ Receive(o) \/ Break(o) \/ Waste(o)

Spec == Init /\ [][Next]_vars
=============================================================================
