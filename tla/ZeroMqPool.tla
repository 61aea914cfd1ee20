------------------------------ MODULE ZeroMqPool ------------------------------
(***************************************************************************)
(* The ZeroMQThreadPoolServer of spyne/server/zeromq.py: a device hands the  *)
(* requests to the REP sockets of the workers in turn, and every worker is a *)
(* thread that serves one request after the other.  An exception ends the    *)
(* thread; its socket remains connected, since the pool holds it.  The       *)
(* clients are REQ sockets, which send nothing while they wait.              *)
(***************************************************************************)
EXTENDS ServerBase

CONSTANTS
    Client,
    NWorkers,    \* pool_size
    MaxRequests  \* bound: requests a client sends

Worker == 0 .. NWorkers - 1

ASSUME ZeroMqPoolAssumption ==
    /\ NWorkers \in Nat \ {0}
    /\ MaxRequests \in Nat

VARIABLES
    inbox,    \* requests each worker's socket has received, in order
    turn,     \* the worker that gets the next request
    alive,    \* workers whose thread runs
    waiting,  \* clients without an answer to their last request
    sent,     \* requests each client has sent
    served    \* what became of the last request of each client

pool == <<inbox, turn, alive, waiting, sent, served>>

\* The error is told to the auxiliary methods.
BadServe(p) ==
    LET called == Then(Receive(p), LAMBDA c :
                       IF c.error = "none" THEN GetOutObject(c) ELSE {c})
        aux == Then(Then(called, GetOutString), LAMBDA c :
                    ProcessContexts(c, c.error # "none"))
    IN  Then(Then(aux, LAMBDA c : {[c EXCEPT !.reply = c.string]}), Close)

\* serve_forever for one request.  process_contexts gets the error in the place
\* of the context, and so hears of no error.
Serve(p) ==
    LET called == Then(Receive(p), LAMBDA c :
                       IF c.error = "none" THEN GetOutObject(c) ELSE {c})
        aux == Then(Then(called, GetOutString), LAMBDA c : ProcessContexts(c, FALSE))
    IN  Then(Then(aux, LAMBDA c : {[c EXCEPT !.reply = c.string]}), Close)

\* What the properties tell of a request: the document sent to the client, how
\* many auxiliary contexts there were, how often each of their methods ran, and
\* whether the request killed the worker.
Summary(p) ==
    [reply |-> p.reply, others |-> Len(p.others), aux |-> p.aux, died |-> p.exc # "none"]

Unserved == Summary(WithFields(NewRequest(FALSE), [reply |-> "none"]))

Served == {Summary(p) : p \in Serve(WithFields(NewRequest(FALSE), [reply |-> "none"]))}

-----------------------------------------------------------------------------

PoolInit ==
    /\ inbox = [w \in Worker |-> <<>>]
    /\ turn = 0
    /\ alive = Worker
    /\ waiting = {}
    /\ sent = [c \in Client |-> 0]
    /\ served = [c \in Client |-> Unserved]

\* A client sends again before it was answered.
BadSend(c) ==
    /\ sent[c] < MaxRequests
    /\ inbox' = [inbox EXCEPT ![turn] = Append(@, c)]
    /\ turn' = (turn + 1) % NWorkers
    /\ waiting' = waiting \cup {c}
    /\ sent' = [sent EXCEPT ![c] = @ + 1]
    /\ served' = [served EXCEPT ![c] = Unserved]
    /\ UNCHANGED alive

\* A client that waits for no answer sends a request.
Send(c) ==
    /\ c \notin waiting
    /\ sent[c] < MaxRequests
    /\ inbox' = [inbox EXCEPT ![turn] = Append(@, c)]
    /\ turn' = (turn + 1) % NWorkers
    /\ waiting' = waiting \cup {c}
    /\ sent' = [sent EXCEPT ![c] = @ + 1]
    /\ served' = [served EXCEPT ![c] = Unserved]
    /\ UNCHANGED alive

\* The worker lives on, but the client is not told of the failure.
BadWork(w) ==
    /\ w \in alive
    /\ inbox[w] # <<>>
    /\ inbox' = [inbox EXCEPT ![w] = Tail(@)]
    /\ \E s \in Served :
        /\ served' = [served EXCEPT ![Head(inbox[w])] = [s EXCEPT !.died = FALSE]]
        /\ waiting' = IF s.reply = "none" THEN waiting ELSE waiting \ {Head(inbox[w])}
    /\ UNCHANGED <<turn, sent, alive>>

Work(w) ==
    /\ w \in alive
    /\ inbox[w] # <<>>
    /\ inbox' = [inbox EXCEPT ![w] = Tail(@)]
    /\ \E s \in Served :
        /\ served' = [served EXCEPT ![Head(inbox[w])] = s]
        /\ waiting' = IF s.reply = "none" THEN waiting ELSE waiting \ {Head(inbox[w])}
        /\ alive' = IF s.died THEN alive \ {w} ELSE alive
    /\ UNCHANGED <<turn, sent>>

-----------------------------------------------------------------------------

\* A request is answered unless a worker died: the one that served it, or the one
\* that should have, whose share of the requests the device goes on handing to
\* its socket.
AnsweredByTheLiving ==
    \A c \in Client :
        c \in waiting ~>
            \/ c \notin waiting
            \/ served[c].died
            \/ \E w \in Worker \ alive : Contains(inbox[w], c)

\* When a client has its answer, every auxiliary method of the request has run
\* once, after an error also those that do not process exceptions.  There is none
\* for a request that names no method.
AuxBeforeAnswer ==
    \A c \in Client :
        served[c].reply # "none" => \A a \in 1 .. served[c].others : served[c].aux[a] = 1

\* A client is in the inbox of at most one worker and waits while it is there.
OneInbox ==
    \A c \in Client :
        /\ Cardinality({w \in Worker : Contains(inbox[w], c)}) <= 1
        /\ (\E w \in Worker : Contains(inbox[w], c)) => c \in waiting
=============================================================================
