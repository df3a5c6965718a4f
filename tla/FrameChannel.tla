---------------------------- MODULE FrameChannel ----------------------------
(***************************************************************************)
(* What a stream of frames promises: a frame that was sent is delivered    *)
(* once, unchanged, and after every frame sent before it, until the        *)
(* channel breaks.  A frame may be skipped by a receiver that ignores its  *)
(* kind.                                                                   *)
(***************************************************************************)
EXTENDS Naturals, Sequences

CONSTANTS
    Ignored(_)    \* frames the receiver reads and says nothing of

VARIABLES
    queue,    \* frames sent and not yet delivered
    last,     \* the frame delivered last, until the receiver is done with it
    broken    \* nothing is promised any more

vars == <<queue, last, broken>>

Init == queue = << >> /\ last = << >> /\ broken = FALSE

\* One frame or several behind the ones that are there.
Send ==
    /\ ~broken /\ UNCHANGED <<last, broken>>
    /\ Len(queue') > Len(queue)
    /\ SubSeq(queue', 1, Len(queue)) = queue

Deliver ==
    /\ ~broken /\ queue # << >> /\ last = << >> /\ ~Ignored(Head(queue))
    /\ last' = Head(queue) /\ queue' = Tail(queue)
    /\ UNCHANGED broken

Done == last # << >> /\ last' = << >> /\ UNCHANGED <<queue, broken>>

Ignore ==
    /\ ~broken /\ queue # << >> /\ Ignored(Head(queue))
    /\ queue' = Tail(queue)
    /\ UNCHANGED <<last, broken>>

\* Both ends have left; a new connection starts with nothing in transit.
Renew == queue' = << >> /\ last' = << >> /\ broken' = FALSE

Break == broken'

Next == Send \/ Deliver \/ Done \/ Ignore \/ Renew \/ Break

Spec == Init /\ [][Next]_vars
=============================================================================
