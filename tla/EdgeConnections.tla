---------------------------- MODULE EdgeConnections ----------------------------
(***************************************************************************)
(* The connections of one gateway to the hub (services/edge/hub.js).       *)
(*                                                                         *)
(* Every connection of the gateway gets a Conn of its own; the map conns   *)
(* holds the newest.  A newer one closes the older, whose "close" event    *)
(* comes up to two seconds later: until then its frames are still read,    *)
(* and what it waits for still ends.  The gateway may have left a          *)
(* connection long before the hub notices.                                 *)
(***************************************************************************)
EXTENDS Naturals

CONSTANT
    MaxConns    \* bound: connections of the gateway in one behaviour

ASSUME ConnectionsAssumption == MaxConns \in Nat

VARIABLES
    ws,         \* readyState of the WebSocket of each connection, "none" before it exists
    ready,      \* connections whose hello was taken
    current,    \* conns.get(peerId): the newest connection that has not closed, or 0
    gw          \* the connection the gateway uses, or 0

connectionVars == <<ws, ready, current, gw>>

Conns == 1..MaxConns

ConnectionsTypeOK ==
    /\ ws \in [Conns -> {"none", "open", "closing", "closed"}]
    /\ ready \subseteq Conns
    /\ current \in 0..MaxConns
    /\ gw \in 0..MaxConns

ConnectionsInit ==
    /\ ws = [c \in Conns |-> "none"]
    /\ ready = {} /\ current = 0 /\ gw = 0

Reads(c) == ws[c] \in {"open", "closing"}

-----------------------------------------------------------------------------
\* close(): nothing more is sent; a closing or closed one stays as it is.
Closing(c) == IF c # 0 /\ ws[c] = "open" THEN [ws EXCEPT ![c] = "closing"] ELSE ws

\* onConnection(): the new one is in the map before the old one is closed (4000).
\* The gateway has left its own before.
Connects(c) ==
    /\ ws[c] = "none" /\ \A d \in Conns : d < c => ws[d] # "none"
    /\ gw = 0 /\ gw' = c
    /\ ws' = [Closing(current) EXCEPT ![c] = "open"]
    /\ current' = c
    /\ UNCHANGED ready

\* onHello() takes the hello of a connection being closed as well.
Greets(c) ==
    /\ Reads(c)
    /\ ready' = ready \cup {c}
    /\ UNCHANGED <<ws, current, gw>>

\* The hub closes: 4001 credentials changed, 1008 too many frames, no hello in 10 s.
Drops(c) ==
    /\ ws[c] = "open"
    /\ ws' = Closing(c)
    /\ UNCHANGED <<ready, current, gw>>

\* The gateway leaves: it stops, or takes the network for dead.
Leaves ==
    /\ gw # 0 /\ gw' = 0
    /\ UNCHANGED <<ws, ready, current>>

\* onClose(): after the closing handshake or its time limit, or when the peer has gone.
\* Only the newest is taken out of the map.
Closes(c) ==
    /\ ws[c] = "closing" \/ (ws[c] = "open" /\ gw # c)
    /\ ws' = [ws EXCEPT ![c] = "closed"]
    /\ current' = IF current = c THEN 0 ELSE current
    /\ gw' = IF gw = c THEN 0 ELSE gw
    /\ UNCHANGED ready

\* The server stops, or closes every connection at its end (closeAll()).
AllClose ==
    /\ ws' = [c \in Conns |-> IF Reads(c) THEN "closed" ELSE ws[c]]
    /\ current' = 0 /\ gw' = 0
    /\ UNCHANGED ready
=============================================================================
