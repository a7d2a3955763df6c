------------------------------ MODULE AtLeastOnce ------------------------------
(***************************************************************************)
(* What the edge channel promises of the events of one gateway and plugin  *)
(* (services/edge/hub.js, header), whatever connections come and go: the   *)
(* sender keeps an event until it was handled, and events are handled in   *)
(* their order, though perhaps more than once.  A doubtful event is one    *)
(* the promise leaves out: it may be forgotten unhandled, or come late.    *)
(***************************************************************************)
EXTENDS Naturals

VARIABLES
    emitted,    \* events 1..emitted exist
    kept,       \* those the sender still holds
    handled,    \* those the receiver has handled, once or more
    doubtful    \* those the promise leaves out

vars == <<emitted, kept, handled, doubtful>>

Settled == handled \cup doubtful

Init == emitted = 0 /\ kept = {} /\ handled = {} /\ doubtful = {}

\* A new event; one sent ahead of older ones makes these doubtful.
Emit ==
    /\ emitted' = emitted + 1 /\ kept' = kept \cup {emitted'}
    /\ doubtful' \in {doubtful, doubtful \cup kept}
    /\ UNCHANGED handled

Doubt(e) ==
    /\ doubtful' = doubtful \cup {e}
    /\ UNCHANGED <<emitted, kept, handled>>

\* An event is handled once all older ones are settled.
Handle(e) ==
    /\ 1..(e - 1) \subseteq Settled
    /\ handled' = handled \cup {e}
    /\ UNCHANGED <<emitted, kept, doubtful>>

\* The sender forgets events up to one, each of them settled.
Forget(n) ==
    /\ kept \cap 1..n \subseteq Settled
    /\ kept' = kept \ 1..n
    /\ UNCHANGED <<emitted, handled, doubtful>>

Next == Emit \/ \E e \in 1..emitted : Doubt(e) \/ Handle(e) \/ Forget(e)

Spec == Init /\ [][Next]_vars
=============================================================================
