------------------------------- MODULE Servers -------------------------------
(***************************************************************************)
(* The other servers of spyne, over the same application and the same        *)
(* auxiliary methods: the null server, the Django server, the websocket      *)
(* server with its table of clients, and the pool of ZeroMQ workers.  A      *)
(* process runs one of them; server names it.                               *)
(***************************************************************************)
EXTENDS ZeroMqPool

CONSTANT Name  \* see WebSocketClients

ASSUME ServersAssumption == Client \cap Name = {}

VARIABLES
    server,   \* "null", "django", "websocket", "clients" or "zeromq"
    call, view, message,                          \* a request to each of three
    state, app_id, clients, taken                 \* the table of clients

Null == INSTANCE NullServer WITH q <- call
Django == INSTANCE DjangoServer WITH q <- view
Socket == INSTANCE WebSocketServer WITH q <- message
Clients == INSTANCE WebSocketClients

registry == <<state, app_id, clients, taken>>
vars == <<server, call, view, message, registry, pool>>

Init ==
    /\ server \in {"null", "django", "websocket", "clients", "zeromq"}
    /\ IF server = "null" THEN Null!Init ELSE call = Null!NewCall(FALSE, FALSE, FALSE)
    /\ IF server = "websocket" THEN Socket!Init ELSE message = Socket!NewMessage(FALSE, FALSE, TRUE)
    /\ Django!Init
    /\ Clients!Init
    /\ PoolInit

NullStep ==
    /\ server = "null" /\ Null!Next
    /\ UNCHANGED <<server, view, message, registry, pool>>

DjangoStep ==
    /\ server = "django" /\ Django!Next
    /\ UNCHANGED <<server, call, message, registry, pool>>

SocketReceives ==
    /\ server = "websocket" /\ Socket!Receives
    /\ UNCHANGED <<server, call, view, registry, pool>>

SocketFires ==
    /\ server = "websocket" /\ (Socket!DeferredFires \/ Socket!DeferredFails)
    /\ UNCHANGED <<server, call, view, registry, pool>>

ClientsStep ==
    /\ server = "clients" /\ Clients!Next
    /\ UNCHANGED <<server, call, view, message, pool>>

Arrives(c) ==
    /\ server = "zeromq" /\ Send(c)
    /\ UNCHANGED <<server, call, view, message, registry>>

Works(w) ==
    /\ server = "zeromq" /\ Work(w)
    /\ UNCHANGED <<server, call, view, message, registry>>

Next ==
    \/ NullStep \/ DjangoStep \/ SocketReceives \/ SocketFires \/ ClientsStep
    \/ \E c \in Client : Arrives(c)
    \/ \E w \in Worker : Works(w)

\* User code fires the Deferreds it returned; the worker threads that are alive
\* run.
FairSpec ==
    /\ Init /\ [][Next]_vars
    /\ WF_vars(SocketFires)
    /\ \A w \in Worker : WF_vars(Works(w))

-----------------------------------------------------------------------------

\* The null server.  The caller of a method that failed gets no value, and asking
\* for the string never yields anything unserialized; the context is closed
\* exactly when a synchronous call returns, and auxiliary methods run exactly
\* then.
NullContract == Null!HonestResult /\ Null!ClosedOnReturn /\ Null!AuxFollowReturn

\* The Django server.  The response code is the user's, else the one of the
\* outcome, a context is closed exactly when there is a response, and auxiliary methods run at most
\* once.
DjangoContract == Django!RightCode /\ Django!ClosedIfAnswered /\ Django!AuxRules

\* The servers that answer later.  A message to the websocket server has one
\* response, behind which only the same one or an empty frame may follow, and no
\* auxiliary method after a Deferred that failed; a request to the ZeroMQ pool is in one inbox, and all its auxiliary
\* methods have run when it is answered.
ResponseContract ==
    /\ Socket!OneResponse /\ Socket!AuxUnlessFailed
    /\ OneInbox /\ AuxBeforeAnswer

\* Nobody waits for ever: a message is answered or its connection dropped, a
\* request to the pool is answered unless a worker died.
ProgressContract ==
    /\ server = "websocket" => Socket!NeverSilent
    /\ AnsweredByTheLiving

\* Nobody else removes a client of the websocket server: it loses its entry by
\* leaving or to a client that gets the name.
ClientsKept ==
    [][\A c \in Client :
           c \in Range(clients) /\ c \notin Range(clients)' =>
               state'[c] = "lost" \/ c \in taken']_registry

\* The registry of clients.  A message that is propagated reaches every client,
\* the entries clients leave behind are those with a name, and nobody is removed
\* for another one.
ClientsContract == [](Clients!Reached /\ Clients!StaleHasName) /\ ClientsKept
=============================================================================
