-------------------------- MODULE ConnectionRegistry --------------------------
(****************************************************************************)
(* WebSocketManager of app/api/chat_ws.py and the ws_active_connections     *)
(* gauge that the handler keeps beside it.                                  *)
(*                                                                          *)
(* The manager's lock is held over no await, so on one event loop it is     *)
(* never contended and each method is one step.  connect registers after    *)
(* the handshake is accepted; a handshake that fails changes nothing.       *)
(****************************************************************************)
EXTENDS Integers, FiniteSets

CONSTANTS Conns, Users, UserOf

VARIABLES
    connections,    \* _connections: user -> non-empty set of its sockets
    gauge,          \* ws_active_connections
    live            \* connections whose handler is between connect and finally

registryVars == <<connections, gauge, live>>

Registries == UNION {[D -> SUBSET Conns] : D \in SUBSET Users}

TypeOK ==
    /\ connections \in Registries
    /\ gauge \in Int
    /\ live \subseteq Conns

Init ==
    /\ connections = << >>
    /\ gauge = 0
    /\ live = {}

\* _connections.get(user_id, set())
Sessions(u) == IF u \in DOMAIN connections THEN connections[u] ELSE {}

\* connect: setdefault(user_id, set()).add(websocket), then the gauge.
Connect(c) ==
    LET u == UserOf[c] IN
    /\ c \notin live
    /\ live' = live \cup {c}
    /\ connections' = [v \in DOMAIN connections \cup {u} |->
                          IF v = u THEN Sessions(u) \cup {c} ELSE connections[v]]
    /\ gauge' = gauge + 1

\* Mutated form of Without: the entry goes with the first tab that closes.
WithoutUser(u, c) == [v \in DOMAIN connections \ {u} |-> connections[v]]

\* The mapping once c is discarded; an entry left empty is deleted.
Without(u, c) ==
    LET rest == Sessions(u) \ {c}
        kept == DOMAIN connections \ (IF rest = {} THEN {u} ELSE {}) IN
    [v \in kept |-> IF v = u THEN rest ELSE connections[v]]

\* disconnect, then the gauge: the finally block of the handler.
Disconnect(c) ==
    /\ c \in live
    /\ live' = live \ {c}
    /\ connections' = Without(UserOf[c], c)
    /\ gauge' = gauge - 1

Next == \E c \in Conns : Connect(c) \/ Disconnect(c)

Spec == Init /\ [][Next]_registryVars

\* The manager holds exactly the sockets whose handlers run, under the right
\* user and with no empty entry, and the gauge counts them: one tab that closes
\* takes neither its sibling nor a count with it.
RegistryMirrorsHandlers ==
    /\ connections = [u \in {UserOf[c] : c \in live} |->
                          {c \in live : UserOf[c] = u}]
    /\ gauge = Cardinality(live)
===============================================================================
