-------------------------- MODULE CaddySyncHistory --------------------------
(***************************************************************************)
(* CaddySync with history variables, to say what a rollback is for: each   *)
(* row as it was when a request took it, whether another request took it   *)
(* too, and whether its ACL was rewritten.                                 *)
(***************************************************************************)
EXTENDS CaddySync

VARIABLES
    before,      \* each row as it was before the request that holds it
    shared,      \* the rows that were held by two requests since
    relisted     \* those whose rows of route_peer_acl no rollback brings back

hvars == <<vars, before, shared, relisted>>

\* The requests under way whose closures captured the row.
Holders(r) == {q \in Requests : undo[q].rows[r] # Absent}

\* An update with acl_peers replaces what route_peer_acl holds, a remove() lets it
\* go with the row, and what they captured does not contain it.
Relists(r) ==
    \/ db[r] # Absent /\ db'[r] # Absent /\ db'[r].acl # db[r].acl
    \/ \E q \in Requests : undo'[q].kind = "remove" /\ undo'[q].rows[r] # Absent

HInit == Init /\ before = db /\ shared = {} /\ relisted = {}

\* A row nobody holds is its own past, and of a shared one nothing is said.
HNext ==
    /\ Next
    /\ shared' = {r \in Routes : Holders(r)' # {} /\
                     (r \in shared \/ \E p, q \in Holders(r)' : p # q)}
    /\ before' = [r \in Routes |-> IF Holders(r)' = {} \/ r \in shared' THEN db'[r]
                                   ELSE IF Holders(r) = {} THEN db[r] ELSE before[r]]
    /\ relisted' = {r \in Routes \ shared' : Holders(r)' # {} /\ (r \in relisted \/ Relists(r))}

HSpec == HInit /\ [][HNext]_hvars

\* The request ends in this step without having changed its rows for good: its sync
\* failed, or it had not written yet.
Fails(q) == request[q] = "preparing" \/ outcome' = "fail"

\* The row is there or not, and says what it said.  The circuit is the breaker's.
AsBefore(row, was, peersToo) ==
    /\ row = Absent <=> was = Absent
    /\ row # Absent => /\ row.enabled = was.enabled
                       /\ row.target = was.target
                       /\ peersToo => row.acl = was.acl

\* routesSync.withCaddySync puts the row back the way it was: a row that one request
\* deleted, created or changed is as before when that request fails, whatever others
\* do to other rows meanwhile; the peers of its ACL too, unless an update sent new
\* ones or remove() took the row.
FailedRestoresRow ==
    [][ \A q \in Requests, r \in Routes :
            Holders(r) = {q} /\ r \notin shared /\ Holders(r)' = {} /\ Fails(q)
                => AsBefore(db'[r], before[r], r \notin relisted) ]_hvars
=============================================================================
