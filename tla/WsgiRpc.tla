------------------------------- MODULE WsgiRpc -------------------------------
(***************************************************************************)
(* Requests to the WSGI server: handle_rpc, handle_error and __finalize of *)
(* spyne/server/wsgi.py with the calls of ServerBase they make and the     *)
(* auxiliary methods of spyne/auxproc.                                     *)
(*                                                                         *)
(* Every request runs in a thread of the WSGI server.  Its auxiliary       *)
(* contexts are numbered in the order of registration, which is the order  *)
(* of the loop in process_contexts.  An auxiliary method is bound to a     *)
(* SyncAuxProc, which runs it in place, or to a ThreadAuxProc, whose pool  *)
(* all requests share.  What user code, event listeners and the protocols  *)
(* do is a choice: they succeed, raise a Fault or raise something else.    *)
(*                                                                         *)
(* Definitions whose name begins with Bad are the definition that follows  *)
(* them with a mistake, and not part of the model.                         *)
(***************************************************************************)
EXTENDS Naturals, Sequences, FiniteSets

CONSTANTS
    Req,                  \* requests
    NAux,                 \* auxiliary methods of the method that is called
    ThreadAux,            \* those whose AuxProc is a ThreadAuxProc
    AuxOnError,           \* those whose AuxProc has process_exceptions set
    PoolSize,             \* pool_size of a ThreadAuxProc
    LazyOutput,           \* whether the protocol's out_string is a generator
    CloseListenersRaise   \* whether method_context_closed listeners may raise

Aux == 1 .. NAux

\* ThreadAuxProc.__init__ does not let process_exceptions be set.
ASSUME WsgiRpcAssumption ==
    /\ NAux \in Nat
    /\ ThreadAux \subseteq Aux
    /\ AuxOnError \subseteq Aux \ ThreadAux
    /\ PoolSize \in Nat \ {0}
    /\ LazyOutput \in BOOLEAN
    /\ CloseListenersRaise \in BOOLEAN

VARIABLES
    at,        \* at[r]: what the request's thread does next
    failed,    \* failed[r]: in_error or out_error is set on the primary context
    status,    \* status[r]: transport.resp_code
    document,  \* document[r]: what out_document holds
    string,    \* string[r]: what out_string holds
    starts,    \* starts[r]: calls of start_response
    closes,    \* closes[r]: runs of __finalize, each with a wsgi_close event
    cursor,    \* cursor[r]: next context of the loop in process_contexts
    aux,       \* aux[r][a]: state of auxiliary context a
    queue,     \* queue[a]: requests waiting in the pool of a
    running    \* running[a]: requests the pool's threads work on

response == <<failed, status, document, string, starts, closes>>
pools == <<queue, running>>
vars == <<at, response, cursor, aux, pools>>

\* A request is over when its body was handed over, when the body broke off,
\* or when an exception left the WSGI callable.
Over == {"done", "broken", "escaped"}
Stages == {"received", "in_object", "out_object", "first_object", "out_string",
           "error", "return", "finalize", "aux", "body"} \cup Over

Init ==
    /\ at = [r \in Req |-> "received"]
    /\ failed = [r \in Req |-> FALSE]
    /\ status = [r \in Req |-> "unset"]
    /\ document = [r \in Req |-> "none"]
    /\ string = [r \in Req |-> "none"]
    /\ starts = [r \in Req |-> 0]
    /\ closes = [r \in Req |-> 0]
    /\ cursor = [r \in Req |-> 1]
    /\ aux = [r \in Req |-> [a \in Aux |-> "idle"]]
    /\ queue = [a \in ThreadAux |-> <<>>]
    /\ running = [a \in ThreadAux |-> {}]

GoTo(r, stage) == at' = [at EXCEPT ![r] = stage]
SetError(r) == failed' = [failed EXCEPT ![r] = TRUE]
SetOutput(r, doc, str) ==
    /\ document' = [document EXCEPT ![r] = doc]
    /\ string' = [string EXCEPT ![r] = str]

\* An exception nobody catches leaves the callable.
Escape(r) == GoTo(r, "escaped")

-----------------------------------------------------------------------------
(* From the request to the response.                                       *)

\* The envelope is parsed and the method looked up.  A Fault leaves the one
\* context of the request, with no auxiliary contexts.
GenerateContexts(r) ==
    /\ at[r] = "received"
    /\ \/ GoTo(r, "in_object") /\ UNCHANGED <<failed, cursor>>
       \/ /\ SetError(r)
          /\ cursor' = [cursor EXCEPT ![r] = NAux + 1]
          /\ GoTo(r, "error")
       \/ Escape(r) /\ UNCHANGED <<failed, cursor>>
    /\ UNCHANGED <<status, document, string, starts, closes, aux, pools>>

GetInObject(r) ==
    /\ at[r] = "in_object"
    /\ \/ GoTo(r, "out_object") /\ UNCHANGED failed
       \/ SetError(r) /\ GoTo(r, "error")
       \/ Escape(r) /\ UNCHANGED failed
    /\ UNCHANGED <<status, document, string, starts, closes, cursor, aux, pools>>

\* The user's method, which may set the response code: it returns a value or
\* a generator, fails, or returns Ignored() for several values, whose empty
\* out_object next(iter(...)) does not survive.
GetOutObject(r) ==
    /\ at[r] = "out_object"
    /\ \E code \in {"unset", "user"} : status' = [status EXCEPT ![r] = code]
    /\ \/ GoTo(r, "out_string") /\ UNCHANGED failed
       \/ GoTo(r, "first_object") /\ UNCHANGED failed
       \/ SetError(r) /\ GoTo(r, "error")
       \/ Escape(r) /\ UNCHANGED failed
    /\ UNCHANGED <<document, string, starts, closes, cursor, aux, pools>>

\* A generator runs up to its first yield, outside of any try block.
FirstObject(r) ==
    /\ at[r] = "first_object"
    /\ \/ GoTo(r, "out_string") \/ Escape(r)
    /\ UNCHANGED <<response, cursor, aux, pools>>

\* Serialization.  Whatever it raises becomes an out_error: before there is
\* a document, between document and string, or when both are set.
GetOutString(r) ==
    /\ at[r] = "out_string"
    /\ status' = [status EXCEPT ![r] = IF @ = "unset" THEN "200" ELSE @]
    /\ \/ SetOutput(r, "result", "result") /\ GoTo(r, "return") /\ UNCHANGED failed
       \/ /\ \/ UNCHANGED <<document, string>>
             \/ SetOutput(r, "result", "none")
             \/ SetOutput(r, "result", "result")
          /\ SetError(r)
          /\ GoTo(r, "error")
    /\ UNCHANGED <<starts, closes, cursor, aux, pools>>

\* A response that is not ready when the headers leave.
BadStartResponse(r) ==
    /\ at[r] = "return"
    /\ starts' = [starts EXCEPT ![r] = @ + 1]
    /\ \/ GoTo(r, "finalize") /\ UNCHANGED failed
       \/ SetError(r) /\ GoTo(r, "error")
    /\ UNCHANGED <<status, document, string, closes, cursor, aux, pools>>

\* MTOM and the wsgi_return listeners may raise, then the headers leave.
StartResponse(r) ==
    /\ at[r] = "return"
    /\ \/ /\ starts' = [starts EXCEPT ![r] = @ + 1]
          /\ GoTo(r, "finalize")
       \/ Escape(r) /\ UNCHANGED starts
    /\ UNCHANGED <<failed, status, document, string, closes, cursor, aux, pools>>

\* handle_error up to start_response.  get_out_string does not serialize when
\* there is a document and does nothing when there is a string.
HandleError(r) ==
    /\ at[r] = "error"
    /\ status' = [status EXCEPT ![r] = IF @ = "unset" THEN "error" ELSE @]
    /\ \/ LET doc == IF document[r] = "none" THEN "fault" ELSE document[r]
              str == IF string[r] = "none" THEN doc ELSE string[r]
          IN  /\ SetOutput(r, doc, str)
              /\ starts' = [starts EXCEPT ![r] = @ + 1]
              /\ GoTo(r, "aux")
       \/ Escape(r) /\ UNCHANGED <<document, string, starts>>
    /\ UNCHANGED <<failed, closes, cursor, aux, pools>>

\* __finalize: the context is closed and wsgi_close fires.  The call is an
\* argument of chain(), so it runs when the response is put together.
Finalize(r) ==
    /\ at[r] = "finalize"
    /\ \/ /\ closes' = [closes EXCEPT ![r] = @ + 1]
          /\ GoTo(r, IF failed[r] THEN "body" ELSE "aux")
       \/ CloseListenersRaise /\ Escape(r) /\ UNCHANGED closes
    /\ UNCHANGED <<failed, status, document, string, starts, cursor, aux, pools>>

\* The WSGI server iterates over the body.  A lazy out_string may raise here.
SendBody(r) ==
    /\ at[r] = "body"
    /\ \/ GoTo(r, "done")
       \/ LazyOutput /\ ~failed[r] /\ GoTo(r, "broken")
    /\ UNCHANGED <<response, cursor, aux, pools>>

-----------------------------------------------------------------------------
(* Auxiliary methods.                                                      *)

InLoop(r, a) == at[r] = "aux" /\ a = cursor[r]
SetAux(r, a, state) == aux' = [aux EXCEPT ![r][a] = state]

Advance(r) == cursor' = [cursor EXCEPT ![r] = @ + 1]

\* The error argument of process_contexts gets lost.
BadSkips(r, a) == FALSE

\* The primary method failed and a does not process exceptions.
Skips(r, a) == failed[r] /\ a \notin AuxOnError

SkipAux(r, a) ==
    /\ InLoop(r, a)
    /\ Skips(r, a)
    /\ Advance(r)
    /\ UNCHANGED <<at, response, aux, pools>>

\* The context is closed when its call went well.  A Fault of the call is
\* logged and leaves it open.
RunSyncAux(r, a) ==
    /\ InLoop(r, a)
    /\ a \notin ThreadAux
    /\ ~Skips(r, a)
    /\ \E state \in {"closed", "failed"} : SetAux(r, a, state)
    /\ Advance(r)
    /\ UNCHANGED <<at, response, pools>>

\* No try block around process_contexts.
BadRaiseSyncAux(r, a) ==
    /\ InLoop(r, a)
    /\ a \notin ThreadAux
    /\ ~Skips(r, a)
    /\ SetAux(r, a, "raised")
    /\ Escape(r)
    /\ UNCHANGED <<response, cursor, pools>>

\* Its result cannot be serialized: the exception ends the loop and is logged.
RaiseSyncAux(r, a) ==
    /\ InLoop(r, a)
    /\ a \notin ThreadAux
    /\ ~Skips(r, a)
    /\ SetAux(r, a, "raised")
    /\ cursor' = [cursor EXCEPT ![r] = NAux + 1]
    /\ UNCHANGED <<at, response, pools>>

QueueAux(r, a) ==
    /\ InLoop(r, a)
    /\ a \in ThreadAux
    /\ ~Skips(r, a)
    /\ queue' = [queue EXCEPT ![a] = Append(@, r)]
    /\ SetAux(r, a, "queued")
    /\ Advance(r)
    /\ UNCHANGED <<at, response, running>>

\* The loop waits for one context more than there is.
BadAuxLoopEnds(r) ==
    /\ at[r] = "aux"
    /\ cursor[r] = NAux + 2
    /\ GoTo(r, IF failed[r] THEN "finalize" ELSE "body")
    /\ UNCHANGED <<response, cursor, aux, pools>>

AuxLoopEnds(r) ==
    /\ at[r] = "aux"
    /\ cursor[r] = NAux + 1
    /\ GoTo(r, IF failed[r] THEN "finalize" ELSE "body")
    /\ UNCHANGED <<response, cursor, aux, pools>>

\* The job stays in the queue.
BadWorkerTakes(a) ==
    /\ queue[a] # <<>>
    /\ Cardinality(running[a]) < PoolSize
    /\ running' = [running EXCEPT ![a] = @ \cup {Head(queue[a])}]
    /\ SetAux(Head(queue[a]), a, "running")
    /\ UNCHANGED <<at, response, cursor, queue>>

\* A thread of the pool takes the oldest job.
WorkerTakes(a) ==
    /\ queue[a] # <<>>
    /\ Cardinality(running[a]) < PoolSize
    /\ queue' = [queue EXCEPT ![a] = Tail(@)]
    /\ running' = [running EXCEPT ![a] = @ \cup {Head(queue[a])}]
    /\ SetAux(Head(queue[a]), a, "running")
    /\ UNCHANGED <<at, response, cursor>>

\* A thread dies of the exception of its job.
BadWorkerEnds(a, r) ==
    /\ r \in running[a]
    /\ aux[r][a] = "running"
    /\ \/ SetAux(r, a, "closed") /\ running' = [running EXCEPT ![a] = @ \ {r}]
       \/ SetAux(r, a, "failed") /\ UNCHANGED running
    /\ UNCHANGED <<at, response, cursor, queue>>

\* apply_async keeps what the job raises for a result nobody asks for.
WorkerEnds(a, r) ==
    /\ r \in running[a]
    /\ \E state \in {"closed", "failed"} : SetAux(r, a, state)
    /\ running' = [running EXCEPT ![a] = @ \ {r}]
    /\ UNCHANGED <<at, response, cursor, queue>>

-----------------------------------------------------------------------------
RequestStep(r) ==
    \/ GenerateContexts(r)
    \/ GetInObject(r)
    \/ GetOutObject(r)
    \/ FirstObject(r)
    \/ GetOutString(r)
    \/ StartResponse(r)
    \/ HandleError(r)
    \/ Finalize(r)
    \/ SendBody(r)
    \/ AuxLoopEnds(r)
    \/ \E a \in Aux : \/ SkipAux(r, a)
                      \/ RunSyncAux(r, a)
                      \/ RaiseSyncAux(r, a)
                      \/ QueueAux(r, a)

PoolStep(a) == WorkerTakes(a) \/ \E r \in Req : WorkerEnds(a, r)

Next == (\E r \in Req : RequestStep(r)) \/ (\E a \in ThreadAux : PoolStep(a))

\* The threads of the WSGI server and of the pools are scheduled fairly, and
\* every call of user code comes to an end.
Fairness ==
    /\ \A r \in Req : WF_vars(RequestStep(r))
    /\ \A a \in ThreadAux : WF_vars(WorkerTakes(a))
    /\ \A a \in ThreadAux, r \in Req : WF_vars(WorkerEnds(a, r))

Spec == Init /\ [][Next]_vars
FairSpec == Spec /\ Fairness

-----------------------------------------------------------------------------
(* Properties.                                                             *)

\* Each variable holds what the attribute it stands for may hold.
TypeOK ==
    /\ at \in [Req -> Stages]
    /\ failed \in [Req -> BOOLEAN]
    /\ status \in [Req -> {"unset", "user", "200", "error"}]
    /\ document \in [Req -> {"none", "result", "fault"}]
    /\ string \in [Req -> {"none", "result", "fault"}]
    /\ starts \in [Req -> Nat]
    /\ closes \in [Req -> Nat]
    /\ cursor \in [Req -> 1 .. NAux + 1]
    /\ aux \in [Req -> [Aux -> {"idle", "queued", "running", "closed",
                                "failed", "raised"}]]
    /\ queue \in [ThreadAux -> Seq(Req)]
    /\ running \in [ThreadAux -> SUBSET Req]

\* PEP 3333: however serialization, error handling and close interleave, a
\* request makes one start_response call before the server gets a body, and
\* the context of a response the server gets is closed exactly once.
OneResponse == \A r \in Req :
    /\ starts[r] <= 1
    /\ closes[r] <= 1
    /\ at[r] \in {"body", "done", "broken"} => starts[r] = 1 /\ closes[r] = 1

\* No auxiliary method can take away a response whose headers have left:
\* after start_response only a close listener can let an exception out, and
\* that is while the context is being closed.
AuxIsolated == \A r \in Req :
    starts[r] = 1 /\ at[r] = "escaped" => CloseListenersRaise /\ closes[r] = 0

\* An auxiliary method begins after the primary method's outcome is sent and,
\* when that is an error, only with process_exceptions.
AuxGated == \A r \in Req, a \in Aux :
    aux[r][a] # "idle" =>
        starts[r] = 1 /\ (failed[r] => a \in AuxOnError)

\* The loop goes in the order of registration: an auxiliary method was begun
\* only if all those before it were, which did not raise.
AuxInOrder == \A r \in Req : \A b \in Aux : aux[r][b] # "idle" =>
    \A a \in 1 .. b - 1 : Skips(r, a) \/ aux[r][a] \notin {"idle", "raised"}

\* Auxiliary methods run after the primary one, those that are to run, in their order,
\* and their failures are not those of the request.
AuxContract == AuxIsolated /\ AuxGated /\ AuxInOrder

\* The pools know each job exactly once, waiting or running, and run no more
\* jobs than they have threads.
PoolExact == \A a \in ThreadAux :
    /\ Cardinality(running[a]) <= PoolSize
    /\ \A i, j \in 1 .. Len(queue[a]) : queue[a][i] = queue[a][j] => i = j
    /\ \A i \in 1 .. Len(queue[a]) : aux[queue[a][i]][a] = "queued"
    /\ \A r \in running[a] : aux[r][a] = "running"

\* Every request comes to an end, and so does every job of a pool.
Served ==
    /\ \A r \in Req : <>(at[r] \in Over)
    /\ \A r \in Req, a \in ThreadAux :
          aux[r][a] = "queued" ~> aux[r][a] \in {"closed", "failed"}
=============================================================================
