------------------------------ MODULE EdgeEvents ------------------------------
(***************************************************************************)
(* Events of the edge part of one plugin on one gateway, on their way to   *)
(* the plugin's process (services/edge/hub.js onEvent, pump).              *)
(*                                                                         *)
(* The gateway numbers its events upwards, keeps each until it is          *)
(* acknowledged, and sends what it keeps again after the first state of a  *)
(* connection; an ack covers every lower number.  Each connection has a    *)
(* queue of its own and hands the events over one after another.  A        *)
(* delivery may fail after the handlers ran (time limit).                  *)
(*                                                                         *)
(* The gateway is another program; it is modelled after the one the        *)
(* repository tests the hub with (scripts/plugin-edge-host.js).            *)
(***************************************************************************)
EXTENDS EdgeConnections, Sequences, FiniteSets

CONSTANTS
    MaxSeq,     \* bound: events the edge part emits
    QueueMax,   \* limits.queueMax, 1000 in the code
    Switched,   \* TRUE: the plugin is switched off and on for the gateway in between
    Eager       \* TRUE: a new event is sent before the first state of a connection, as
                \* scripts/plugin-edge-host.js does

ASSUME EventsAssumption == MaxSeq \in Nat /\ QueueMax \in Nat \ {0} /\ Eager \in BOOLEAN /\ Switched \in BOOLEAN

VARIABLES
    emitted,    \* the number of the newest event
    unacked,    \* events the gateway keeps
    informed,   \* the gateway has had the first state of its connection
    up,         \* frames on their way to the hub: 0 the hello, n an event
    down,       \* frames on their way to the gateway: 0 a state, n an ack
    queue,      \* items of each connection
    pump,       \* of each connection: "idle", "delivering" the head, "waiting" to try again
    acked,      \* the highest event each connection has acknowledged
    effective,  \* the plugin is switched on for the gateway
    handled,    \* history: events whose handlers ran
    doubtful    \* history: events that met a full queue or a plugin switched off, or were
                \* kept while a newer one was sent ahead of them

gatewayVars == <<emitted, unacked, informed>>
pumpVars    == <<queue, pump, acked>>
vars == <<connectionVars, gatewayVars, up, down, pumpVars, effective, handled, doubtful>>

Events == 1..MaxSeq

Init ==
    /\ ConnectionsInit
    /\ emitted = 0 /\ unacked = {} /\ informed = FALSE
    /\ up = [c \in Conns |-> <<>>] /\ down = [c \in Conns |-> <<>>]
    /\ queue = [c \in Conns |-> <<>>] /\ pump = [c \in Conns |-> "idle"]
    /\ acked = [c \in Conns |-> 0]
    /\ effective = TRUE
    /\ handled = {} /\ doubtful = {}

-----------------------------------------------------------------------------
(* The gateway *)

\* A frame the gateway sends is lost when it has no connection.
Sent(frames) == IF gw = 0 THEN up ELSE [up EXCEPT ![gw] = @ \o frames]

Emit ==
    /\ emitted < MaxSeq /\ emitted' = emitted + 1
    /\ unacked' = unacked \cup {emitted + 1}
    /\ LET sends == gw # 0 /\ (informed \/ Eager)
       IN /\ up' = IF sends THEN Sent(<<emitted + 1>>) ELSE up
          /\ doubtful' = IF sends /\ ~informed THEN doubtful \cup unacked ELSE doubtful
    /\ UNCHANGED <<connectionVars, informed, down, pumpVars, effective, handled>>

Connect(c) ==
    /\ Connects(c)
    /\ up' = [up EXCEPT ![c] = <<0>>]
    /\ informed' = FALSE
    /\ UNCHANGED <<emitted, unacked, down, pumpVars, effective, handled, doubtful>>

\* What it has sent may still arrive.
Leave ==
    /\ Leaves
    /\ down' = [down EXCEPT ![gw] = <<>>]
    /\ informed' = FALSE
    /\ UNCHANGED <<emitted, unacked, up, pumpVars, effective, handled, doubtful>>

\* The events of S one after another, oldest first.
Ascending(S) ==
    {s \in [1..Cardinality(S) -> S] :
        /\ \A e \in S : \E i \in DOMAIN s : s[i] = e
        /\ \A i, j \in DOMAIN s : i < j => s[i] < s[j]}

\* The first state of a connection: everything kept is sent again.
GatewayState ==
    /\ gw # 0 /\ down[gw] # <<>> /\ Head(down[gw]) = 0
    /\ down' = [down EXCEPT ![gw] = Tail(@)]
    /\ informed' = TRUE
    /\ \E s \in Ascending(unacked) : up' = Sent(s)
    /\ UNCHANGED <<connectionVars, emitted, unacked, pumpVars, effective, handled, doubtful>>

\* An ack covers all lower numbers.
GatewayAck ==
    /\ gw # 0 /\ down[gw] # <<>> /\ Head(down[gw]) # 0
    /\ down' = [down EXCEPT ![gw] = Tail(@)]
    /\ unacked' = {e \in unacked : e > Head(down[gw])}
    /\ UNCHANGED <<connectionVars, emitted, informed, up, pumpVars, effective, handled, doubtful>>

-----------------------------------------------------------------------------
(* The hub *)

\* send() on an open connection; the frame is lost when the gateway has left.
Answer(c, frames) == IF ws[c] = "open" /\ gw = c THEN [down EXCEPT ![c] = @ \o frames] ELSE down

Arrives(c) ==
    /\ Reads(c) /\ up[c] # <<>>
    /\ up' = [up EXCEPT ![c] = Tail(@)]

Hello(c) ==
    /\ Arrives(c) /\ Head(up[c]) = 0
    /\ Greets(c)
    /\ down' = Answer(c, <<0>>)
    /\ acked' = [acked EXCEPT ![c] = 0]
    /\ UNCHANGED <<gatewayVars, queue, pump, effective, handled, doubtful>>

\* Mutant: the loop goes round once more after the last event.
PumpedOnce(c, items) == IF ws[c] = "open" THEN "delivering" ELSE "idle"

\* pump(): nothing while a delivery runs or waits, nor on a connection that closes.
Pumped(c, items) == IF items # <<>> /\ ws[c] = "open" THEN "delivering" ELSE "idle"

\* Mutant: the event acknowledged last is not recognised.
TakenBelow(c, e) == e < acked[c]

Taken(c, e) == e <= acked[c]
Queued(c, e) == queue[c] # <<>> /\ queue[c][Len(queue[c])] >= e
Full(c)      == Len(queue[c]) >= QueueMax

\* onEvent(): switched off, delivered before, queued already, no room, or queued now.
Event(c) ==
    LET e == Head(up[c])
    IN /\ Arrives(c) /\ e # 0 /\ c \in ready
       /\ UNCHANGED <<connectionVars, gatewayVars, acked, effective, handled>>
       /\ \/ /\ ~effective
             /\ doubtful' = doubtful \cup {e}
             /\ UNCHANGED <<down, queue, pump>>
          \/ /\ effective /\ Taken(c, e)
             /\ down' = Answer(c, <<acked[c]>>)
             /\ UNCHANGED <<queue, pump, doubtful>>
          \/ /\ effective /\ ~Taken(c, e) /\ Queued(c, e)
             /\ UNCHANGED <<down, queue, pump, doubtful>>
          \/ /\ effective /\ ~Taken(c, e) /\ ~Queued(c, e) /\ Full(c)
             /\ doubtful' = doubtful \cup {e}
             /\ UNCHANGED <<down, queue, pump>>
          \/ /\ effective /\ ~Taken(c, e) /\ ~Queued(c, e) /\ ~Full(c)
             /\ queue' = [queue EXCEPT ![c] = Append(@, e)]
             /\ pump' = [pump EXCEPT ![c] = IF @ = "idle" THEN Pumped(c, queue'[c]) ELSE @]
             /\ UNCHANGED <<down, doubtful>>

\* The plugin process took the event; the answer is acknowledged if one still listens.
Delivered(c) ==
    LET e == Head(queue[c])
    IN /\ pump[c] = "delivering"
       /\ handled' = handled \cup {e}
       /\ queue' = [queue EXCEPT ![c] = Tail(@)]
       /\ acked' = [acked EXCEPT ![c] = e]
       /\ down' = Answer(c, <<e>>)
       /\ pump' = [pump EXCEPT ![c] = Pumped(c, queue'[c])]
       /\ UNCHANGED <<connectionVars, gatewayVars, up, effective, doubtful>>

\* Mutant: an event that could not be delivered is taken off the queue.
DeliveryFailsSkips(c) ==
    /\ pump[c] = "delivering"
    /\ handled' \in {handled, handled \cup {Head(queue[c])}}
    /\ queue' = [queue EXCEPT ![c] = Tail(@)]
    /\ pump' = [pump EXCEPT ![c] = Pumped(c, queue'[c])]
    /\ UNCHANGED <<connectionVars, gatewayVars, up, down, acked, effective, doubtful>>

\* Not running, cut off, or late: then the handlers may have run all the same.
DeliveryFails(c) ==
    /\ pump[c] = "delivering"
    /\ handled' \in {handled, handled \cup {Head(queue[c])}}
    /\ pump' = [pump EXCEPT ![c] = "waiting"]
    /\ UNCHANGED <<connectionVars, gatewayVars, up, down, queue, acked, effective, doubtful>>

\* Mutant: the timer is cleared and the pump not started.
RetryForgets(c) ==
    /\ pump[c] = "waiting"
    /\ pump' = [pump EXCEPT ![c] = "idle"]
    /\ UNCHANGED <<connectionVars, gatewayVars, up, down, queue, acked, effective, handled, doubtful>>

\* The retry timer, 1 s to 30 s later.
Retry(c) ==
    /\ pump[c] = "waiting"
    /\ pump' = [pump EXCEPT ![c] = Pumped(c, queue[c])]
    /\ UNCHANGED <<connectionVars, gatewayVars, up, down, queue, acked, effective, handled, doubtful>>

Drop(c) ==
    /\ Drops(c)
    /\ UNCHANGED <<gatewayVars, up, down, pumpVars, effective, handled, doubtful>>

\* onClose() clears the retry timer; a delivery that runs goes on.
Close(c) ==
    /\ Closes(c)
    /\ up' = [up EXCEPT ![c] = <<>>] /\ down' = [down EXCEPT ![c] = <<>>]
    /\ pump' = [pump EXCEPT ![c] = IF @ = "waiting" THEN "idle" ELSE @]
    /\ informed' = (informed /\ gw # c)
    /\ UNCHANGED <<emitted, unacked, queue, acked, effective, handled, doubtful>>

\* The server stops and is started again: queues and deliveries are gone.
ServerRestart ==
    /\ current # 0 /\ AllClose
    /\ up' = [c \in Conns |-> <<>>] /\ down' = [c \in Conns |-> <<>>]
    /\ queue' = [c \in Conns |-> <<>>] /\ pump' = [c \in Conns |-> "idle"]
    /\ informed' = FALSE
    /\ UNCHANGED <<emitted, unacked, acked, effective, handled, doubtful>>

\* The plugin, its assignment or the edge of the gateway is switched.  The state that
\* follows is not the first of its connection and brings no events.
Switch ==
    /\ Switched /\ effective' = ~effective
    /\ UNCHANGED <<connectionVars, gatewayVars, up, down, pumpVars, handled, doubtful>>

-----------------------------------------------------------------------------
Gateway == Emit \/ Leave \/ GatewayState \/ GatewayAck

Hub(c) == Hello(c) \/ Event(c) \/ Delivered(c) \/ DeliveryFails(c) \/ Retry(c) \/ Drop(c) \/ Close(c)

Next ==
    \/ Gateway \/ Switch \/ ServerRestart
    \/ \E c \in Conns : Connect(c) \/ Hub(c)

\* Frames arrive, timers fire, connections that close end, and the plugin process takes
\* an event that is offered to it again and again.
Fairness ==
    /\ WF_vars(GatewayState \/ GatewayAck)
    /\ \A c \in Conns :
        /\ WF_vars(Hello(c) \/ Event(c)) /\ WF_vars(Retry(c)) /\ WF_vars(Close(c))
        /\ SF_vars(Delivered(c))

Spec == Init /\ [][Next]_vars /\ Fairness

-----------------------------------------------------------------------------
(* Properties *)

\* The variables keep their types; a connection delivers the head of its queue.
TypeOK ==
    /\ ConnectionsTypeOK
    /\ emitted \in 0..MaxSeq /\ unacked \subseteq 1..emitted /\ informed \in BOOLEAN
    /\ up \in [Conns -> Seq(0..MaxSeq)] /\ down \in [Conns -> Seq(0..MaxSeq)]
    /\ queue \in [Conns -> Seq(Events)]
    /\ pump \in [Conns -> {"idle", "delivering", "waiting"}]
    /\ acked \in [Conns -> 0..MaxSeq]
    /\ effective \in BOOLEAN
    /\ handled \subseteq 1..emitted
    /\ \A c \in Conns : pump[c] # "idle" => queue[c] # <<>>

\* A connection holds and acknowledges its events in ascending order, so that nothing is
\* delivered twice within one connection.
QueueAscends ==
    \A c \in Conns :
        /\ \A i, j \in DOMAIN queue[c] : i < j => queue[c][i] < queue[c][j]
        /\ queue[c] # <<>> => Head(queue[c]) > acked[c]

\* "The ack goes back only after the plugin process took the event", "nothing after it
\* is acknowledged first": over reconnects, failed deliveries and restarts the gateway
\* keeps an event until it was handled, and events are handled in their order, the
\* doubtful ones apart.
Promise == INSTANCE AtLeastOnce WITH kept <- unacked
PromiseKept == Promise!Spec

Stable == gw # 0 /\ ws[gw] = "open" /\ effective

\* On a connection that stays, every event is handled and forgotten by the gateway in
\* the end; a doubtful one may have to wait for the next connection.
AllTaken == <>[]Stable => <>[](unacked \subseteq doubtful)

\* "The gateway keeps them and sends them again": no event is lost, whatever is dropped
\* at a full queue.
NothingLost == 1..emitted \subseteq unacked \cup handled
=============================================================================
