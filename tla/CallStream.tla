----------------------------- MODULE CallStream -----------------------------
(***************************************************************************)
(* What a call output track promises the guest: a FIFO.  The frames it     *)
(* accepts are heard once each, in order, and none is skipped; only a      *)
(* flush or a close discards some, from either end of what is waiting.     *)
(***************************************************************************)
EXTENDS Naturals, Sequences

VARIABLES
    queue,      \* frames accepted and not yet heard
    accepted,   \* frames accepted so far: the next one is accepted + 1
    heard,      \* the frame heard last
    discarding  \* a flush is going on, or the track is closed

vars == <<queue, accepted, heard, discarding>>

Init == queue = <<>> /\ accepted = 0 /\ heard = 0 /\ discarding = FALSE

Accept(n) ==
    /\ ~discarding
    /\ queue' = queue \o [i \in 1..n |-> accepted + i]
    /\ accepted' = accepted + n
    /\ UNCHANGED <<heard, discarding>>

Hear ==
    /\ queue # <<>>
    /\ heard' = Head(queue) /\ queue' = Tail(queue)
    /\ UNCHANGED <<accepted, discarding>>

Discard(n) ==
    /\ discarding
    /\ queue' \in {SubSeq(queue, 1, n), SubSeq(queue, n + 1, Len(queue))}
    /\ UNCHANGED <<accepted, heard, discarding>>

DiscardBegins == ~discarding /\ discarding' = TRUE /\ UNCHANGED <<accepted, heard>>
                 /\ \E n \in 0..Len(queue) : queue' = SubSeq(queue, 1, n)
DiscardEnds   == discarding /\ discarding' = FALSE /\ UNCHANGED <<queue, accepted, heard>>

Next ==
    \/ \E n \in 1..2 : Accept(n)
    \/ Hear
    \/ \E n \in 0..Len(queue) : Discard(n)
    \/ DiscardBegins
    \/ DiscardEnds

Spec == Init /\ [][Next]_vars
=============================================================================
