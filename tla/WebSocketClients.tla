--------------------------- MODULE WebSocketClients ---------------------------
(***************************************************************************)
(* The table of clients that TwistedWebSocketProtocol keeps for do_propagate *)
(* when bookkeeping is on (spyne/server/twisted/websocket.py).  A client is  *)
(* entered under the id of its protocol object, and user code may give it    *)
(* another name through app_id.                                             *)
(***************************************************************************)
EXTENDS Functions

CONSTANTS
    Client,
    Name      \* what app_id is set to

VARIABLES
    state,    \* of each client: "new", "open" or "lost"
    app_id,   \* of each client; its own id is the client itself
    clients,  \* the table, a function of ids and names
    taken     \* for the properties: clients whose name another one took

vars == <<state, app_id, clients, taken>>

Without(id) == Restrict(clients, DOMAIN clients \ {id})
With(f, id, c) == [i \in DOMAIN f \cup {id} |-> IF i = id THEN c ELSE f[i]]

\* Whoever was there under that name.
Evicted(id) == IF id \in DOMAIN clients THEN {clients[id]} ELSE {}

Init ==
    /\ state = [c \in Client |-> "new"]
    /\ app_id = [c \in Client |-> c]
    /\ clients = <<>>
    /\ taken = {}

\* The entry stays where it was as well.
BadSetAppId(c, what) ==
    /\ state[c] # "lost"
    /\ app_id' = [app_id EXCEPT ![c] = what]
    /\ IF app_id[c] \in DOMAIN clients
       THEN /\ clients' = With(clients, what, clients[app_id[c]])
            /\ taken' = taken \cup (Evicted(what) \ {clients[app_id[c]]})
       ELSE UNCHANGED <<clients, taken>>
    /\ UNCHANGED state

\* The old entry is deleted and no new one made.
BadSetForgets(c, what) ==
    /\ state[c] # "lost"
    /\ app_id' = [app_id EXCEPT ![c] = what]
    /\ clients' = Without(app_id[c])
    /\ UNCHANGED <<state, taken>>

\* The setter of app_id moves whatever entry is there under the old name.
SetAppId(c, what) ==
    /\ state[c] # "lost"
    /\ app_id' = [app_id EXCEPT ![c] = what]
    /\ IF app_id[c] \in DOMAIN clients
       THEN /\ clients' = With(Without(app_id[c]), what, clients[app_id[c]])
            /\ taken' = taken \cup (Evicted(what) \ {clients[app_id[c]]})
       ELSE UNCHANGED <<clients, taken>>
    /\ UNCHANGED state

ConnectionMade(c) ==
    /\ state[c] = "new"
    /\ state' = [state EXCEPT ![c] = "open"]
    /\ clients' = With(clients, app_id[c], c)
    /\ taken' = taken \cup Evicted(app_id[c])
    /\ UNCHANGED app_id

\* The entry stays when the protocol is gone.
BadConnectionLost(c) ==
    /\ state[c] = "open"
    /\ state' = [state EXCEPT ![c] = "lost"]
    /\ UNCHANGED <<app_id, clients, taken>>

\* The entry under the id of the protocol object is deleted; when the client has
\* another name that is a KeyError.
ConnectionLost(c) ==
    /\ state[c] = "open"
    /\ state' = [state EXCEPT ![c] = "lost"]
    /\ clients' = Without(c)
    /\ UNCHANGED <<app_id, taken>>

Next ==
    \E c \in Client :
        \/ ConnectionMade(c)
        \/ \E what \in Name : SetAppId(c, what)
        \/ ConnectionLost(c)

Spec == Init /\ [][Next]_vars

-----------------------------------------------------------------------------

\* A propagated message reaches every client that is connected, once, whatever
\* names were given; only the client whose name another one took may miss it.
Reached ==
    \A c \in Client :
        LET entries == {i \in DOMAIN clients : clients[i] = c}
        IN  /\ \A i, j \in entries : i = j
            /\ state[c] = "open" /\ c \notin taken => entries # {}

\* An entry that a client leaves behind is one with a name: the table grows with
\* the names that were given, and no further.
StaleHasName ==
    \A i \in DOMAIN clients : state[clients[i]] = "lost" => i \in Name
=============================================================================
