--------------------------- MODULE TwistedMsgpack ---------------------------
(***************************************************************************)
(* One connection of the Twisted MessagePack server: class                 *)
(* TwistedMessagePackProtocol of spyne/server/twisted/msgpack.py, with     *)
(* the contexts of spyne/server/msgpack.py.                                *)
(*                                                                         *)
(* The reactor is single threaded, but its callbacks re-enter the queues:  *)
(* a response that is flushed makes process_inactive start the next user   *)
(* call, which may answer at once and flush again, and an exception that   *)
(* leaves the inner call unwinds through the outer one.  So a callback is  *)
(* modelled by an explicit call stack (head = running frame), one action   *)
(* per stretch of code between two calls, and the reactor delivers an      *)
(* event only when the stack is empty.                                     *)
(*                                                                         *)
(* A definition whose name begins with Bad is not part of the model: it is *)
(* the definition that follows it with a mistake, which the properties at  *)
(* the end of the module must notice.                                      *)
(***************************************************************************)
EXTENDS Naturals, Sequences

CONSTANTS
    MaxReq,          \* bound: requests a client sends over one connection
    MaxQueue,        \* max_in_queue_size; 0 means unlimited
    InactiveLimits,  \* values a subclass may give MAX_INACTIVE_CONTEXTS
    IdleTimeoutSet,  \* whether IDLE_TIMEOUT_SEC is positive
    Ways,            \* Ways[r]: what the call of request r may do
    Unserializable,  \* requests whose return value cannot be packed
    AuxReq,          \* requests whose method has an auxiliary method
    AuxOnError,      \* those whose AuxProc has process_exceptions set
    AuxRaises,       \* those whose auxiliary result cannot be packed
    NoData           \* the None of an unanswered entry of inreq_queue

Req == 1 .. MaxReq
Data == {"result", "error"}

\* How a call ends, seen by process_contexts: with an error, with a value,
\* with a Deferred that fires later or has fired already, or with Ignored()
\* from a method of several return values, which leaves an empty out_object.
AllWays == {"fails", "value", "deferred", "fired", "ignored"}

ASSUME TwistedMsgpackAssumption ==
    /\ MaxReq \in Nat
    /\ MaxQueue \in Nat
    /\ InactiveLimits \subseteq Nat
    /\ IdleTimeoutSet \in BOOLEAN
    /\ Ways \in [Req -> SUBSET AllWays]
    /\ Unserializable \subseteq Req
    /\ AuxReq \subseteq Req
    /\ AuxOnError \subseteq AuxReq
    /\ AuxRaises \subseteq AuxReq
    /\ NoData \notin Data

VARIABLES
    buffer,         \* whole messages in the Unpacker, not yet iterated
    next,           \* number the next context gets
    inactive,       \* inactive_queue
    inreq,          \* the keys of inreq_queue, in insertion order
    data,           \* the values of inreq_queue
    active,         \* the keys of active_queue
    pending,        \* contexts whose Deferred has not fired yet
    outError,       \* contexts with out_error set
    open,           \* contexts whose transport is not None yet
    closes,         \* closes[r]: how often close() ran on the context
    auxRuns,        \* auxRuns[r]: how often the auxiliary method ran
    wire,           \* the transport.write calls: <<context, value>>
    disconnecting,  \* self.disconnecting
    idleTimer,      \* self.idle_timer is not None
    armed,          \* a delayed loseConnection is pending in the reactor
    conn,           \* Twisted's side: "up", "closing" or "lost"
    maxInactive,    \* MAX_INACTIVE_CONTEXTS of the protocol's class
    stack,          \* frames of the running callback, innermost first
    raised          \* an exception is propagating

queues == <<buffer, next, inactive, inreq, data, active, wire>>
contexts == <<pending, outError, open, closes, auxRuns>>
link == <<disconnecting, idleTimer, armed, conn, maxInactive>>
vars == <<queues, contexts, link, stack, raised>>

-----------------------------------------------------------------------------
(* The call stack.                                                         *)

Frame(fn, r, at) == [fn |-> fn, ctx |-> r, at |-> at]

Idle == stack = <<>>
Running(fn, at) ==
    /\ ~raised
    /\ stack # <<>>
    /\ Head(stack).fn = fn
    /\ Head(stack).at = at
Self == Head(stack).ctx
Callbacks == {"_cb_deferred", "_cb_deferred_nowrap"}

Return == stack' = Tail(stack)
Become(frame) == stack' = <<frame>> \o Tail(stack)
Call(frame, at) ==
    stack' = <<frame, [Head(stack) EXCEPT !.at = at]>> \o Tail(stack)

\* The running frame ends with an exception.
Raise == Return /\ raised' = TRUE

Waiting == {r \in Req : \E i \in 1 .. Len(inreq) : inreq[i] = r}

Close(r) ==
    /\ closes' = [closes EXCEPT ![r] = @ + 1]
    /\ open' = open \ {r}

-----------------------------------------------------------------------------
Init ==
    /\ buffer = 0
    /\ next = 1
    /\ inactive = <<>>
    /\ inreq = <<>>
    /\ data = [r \in Req |-> NoData]
    /\ active = {}
    /\ pending = {}
    /\ outError = {}
    /\ open = {}
    /\ closes = [r \in Req |-> 0]
    /\ auxRuns = [r \in Req |-> 0]
    /\ wire = <<>>
    /\ disconnecting = FALSE
    /\ idleTimer = IdleTimeoutSet
    /\ armed = IdleTimeoutSet
    /\ conn = "up"
    /\ maxInactive \in InactiveLimits
    /\ stack = <<>>
    /\ raised = FALSE

-----------------------------------------------------------------------------
(* Reactor events.                                                         *)

\* A segment with n whole messages arrives; the idle timer is restarted.
DataReceived(n) ==
    /\ Idle
    /\ conn = "up"
    /\ buffer + n < MaxReq - next + 2
    /\ buffer' = buffer + n
    /\ idleTimer' = IdleTimeoutSet
    /\ armed' = IdleTimeoutSet
    /\ stack' = <<Frame("dataReceived", 0, "next")>>
    /\ UNCHANGED <<next, inactive, inreq, data, active, wire, contexts,
                   disconnecting, conn, maxInactive, raised>>

\* The Deferred a user function returned fires, with a result or a failure.
DeferredFires(r) ==
    /\ Idle
    /\ r \in pending
    /\ pending' = pending \ {r}
    /\ \E fn \in {"_cb_deferred", "_eb_deferred"} :
           stack' = <<Frame(fn, r, "start")>>
    /\ UNCHANGED <<queues, outError, open, closes, auxRuns, link, raised>>

\* loseConnection, called by the reactor when the idle timer expires.
IdleTimeout ==
    /\ Idle
    /\ armed
    /\ disconnecting' = TRUE
    /\ idleTimer' = FALSE
    /\ armed' = FALSE
    /\ conn' = IF conn = "up" THEN "closing" ELSE conn
    /\ UNCHANGED <<queues, contexts, maxInactive, stack, raised>>

\* The peer hangs up, or Twisted finishes an abort.  Nothing is drained.
ConnectionLost ==
    /\ Idle
    /\ conn # "lost"
    /\ conn' = "lost"
    /\ disconnecting' = FALSE
    /\ armed' = (armed /\ ~idleTimer)
    /\ idleTimer' = FALSE
    /\ UNCHANGED <<queues, contexts, maxInactive, stack, raised>>

-----------------------------------------------------------------------------
(* dataReceived and process_incoming_message.                              *)

\* appendleft instead of append.
BadNextMessage ==
    /\ Running("dataReceived", "next")
    /\ buffer > 0
    /\ buffer' = buffer - 1
    /\ next' = next + 1
    /\ inactive' = <<next>> \o inactive
    /\ open' = open \cup {next}
    /\ Call(Frame("process_inactive", 0, "loop"), "processed")
    /\ UNCHANGED <<inreq, data, active, wire, pending, outError, closes,
                   auxRuns, link, raised>>

NextMessage ==
    /\ Running("dataReceived", "next")
    /\ buffer > 0
    /\ buffer' = buffer - 1
    /\ next' = next + 1
    /\ inactive' = Append(inactive, next)
    /\ open' = open \cup {next}
    /\ Call(Frame("process_inactive", 0, "loop"), "processed")
    /\ UNCHANGED <<inreq, data, active, wire, pending, outError, closes,
                   auxRuns, link, raised>>

\* produce_contexts refuses the message: the exception leaves dataReceived.
MalformedMessage ==
    /\ Running("dataReceived", "next")
    /\ buffer > 0
    /\ buffer' = buffer - 1
    /\ raised' = TRUE
    /\ UNCHANGED <<next, inactive, inreq, data, active, wire, contexts, link,
                   stack>>

NoMoreMessages ==
    /\ Running("dataReceived", "next")
    /\ buffer = 0
    /\ Return
    /\ UNCHANGED <<queues, contexts, link, raised>>

MessageProcessed ==
    /\ Running("dataReceived", "processed")
    /\ IF disconnecting
         THEN Return
         ELSE Become(Frame("dataReceived", 0, "next"))
    /\ UNCHANGED <<queues, contexts, link, raised>>

-----------------------------------------------------------------------------
(* process_inactive.                                                       *)

MayAdmit ==
    /\ inactive # <<>>
    /\ MaxQueue = 0 \/ Len(inreq) < MaxQueue

Start(r) ==
    /\ active' = active \cup {r}
    /\ inreq' = Append(inreq, r)
    /\ data' = [data EXCEPT ![r] = NoData]
    /\ Call(Frame("process_contexts", r, "start"), "loop")
    /\ UNCHANGED <<buffer, next, wire, contexts, link, raised>>

\* pop instead of popleft.
BadAdmit ==
    /\ Running("process_inactive", "loop")
    /\ MayAdmit
    /\ inactive' = SubSeq(inactive, 1, Len(inactive) - 1)
    /\ Start(inactive[Len(inactive)])

Admit ==
    /\ Running("process_inactive", "loop")
    /\ MayAdmit
    /\ inactive' = Tail(inactive)
    /\ Start(Head(inactive))

TooMany == MaxQueue > 0 /\ Len(inreq) > maxInactive

AdmitNoMore ==
    /\ Running("process_inactive", "loop")
    /\ ~MayAdmit
    /\ IF TooMany
         THEN /\ disconnecting' = TRUE
              /\ idleTimer' = FALSE
              /\ conn' = IF conn = "up" THEN "closing" ELSE conn
              /\ UNCHANGED <<armed, maxInactive>>
         ELSE UNCHANGED link
    /\ Return
    /\ UNCHANGED <<queues, contexts, raised>>

-----------------------------------------------------------------------------
(* process_contexts: the request is deserialized and the user code runs.   *)

Ends(way) ==
    /\ Running("process_contexts", "start")
    /\ way \in Ways[Self]

\* The context is closed before its error is sent.
BadRequestFails ==
    /\ Ends("fails")
    /\ outError' = outError \cup {Self}
    /\ Close(Self)
    /\ Become(Frame("handle_error", Self, "start"))
    /\ UNCHANGED <<queues, pending, auxRuns, link, raised>>

\* in_error from the envelope or the body, or out_error from the user code.
RequestFails ==
    /\ Ends("fails")
    /\ outError' = outError \cup {Self}
    /\ Become(Frame("handle_error", Self, "start"))
    /\ UNCHANGED <<queues, pending, open, closes, auxRuns, link, raised>>

ReturnsValue ==
    /\ Ends("value")
    /\ Become(Frame("_cb_deferred_nowrap", Self, "start"))
    /\ UNCHANGED <<queues, contexts, link, raised>>

\* The else is missing: the Deferred is also serialized at once.
BadReturnsDeferred ==
    /\ Ends("deferred")
    /\ pending' = pending \cup {Self}
    /\ Become(Frame("_cb_deferred_nowrap", Self, "start"))
    /\ UNCHANGED <<queues, outError, open, closes, auxRuns, link, raised>>

ReturnsDeferred ==
    /\ Ends("deferred")
    /\ pending' = pending \cup {Self}
    /\ Return
    /\ UNCHANGED <<queues, outError, open, closes, auxRuns, link, raised>>

\* addCallback on a Deferred that has fired already runs the chain at once.
ReturnsFiredDeferred ==
    /\ Ends("fired")
    /\ \E fn \in {"_cb_deferred", "_eb_deferred"} :
           Become(Frame(fn, Self, "start"))
    /\ UNCHANGED <<queues, contexts, link, raised>>

\* out_object is (), so out_object[0] raises an IndexError.
ReturnsIgnored ==
    /\ Ends("ignored")
    /\ Raise
    /\ UNCHANGED <<queues, contexts, link>>

-----------------------------------------------------------------------------
(* _cb_deferred, _eb_deferred and handle_error.                            *)

\* get_out_string and pack, then enqueue_outresp_data, inside the try.
Respond ==
    /\ \E fn \in Callbacks : Running(fn, "start")
    /\ IF Self \in Unserializable
         THEN Call(Frame("handle_error", Self, "start"), "except")
         ELSE Call(Frame("enqueue_outresp_data", Self, "result"), "try")
    /\ UNCHANGED <<queues, contexts, link, raised>>

\* The exception leaves _cb_deferred: up the stack when it was called
\* directly, into _eb_deferred when it runs in the chain of a Deferred.
LeaveCallback(r) ==
    IF Head(stack).fn = "_cb_deferred"
      THEN /\ Become(Frame("_eb_deferred", r, "start"))
           /\ raised' = FALSE
      ELSE Raise

\* The finally clause, then the auxiliary contexts without any guard.
Finally ==
    /\ \E fn \in Callbacks : Running(fn, "try") \/ Running(fn, "except")
    /\ Close(Self)
    /\ auxRuns' = IF Self \in AuxReq
                    THEN [auxRuns EXCEPT ![Self] = @ + 1]
                    ELSE auxRuns
    /\ IF Self \in AuxRaises
         THEN LeaveCallback(Self)
         ELSE Return /\ UNCHANGED raised
    /\ UNCHANGED <<queues, pending, outError, link>>

\* The failure is only logged.
BadErrback ==
    /\ Running("_eb_deferred", "start")
    /\ Return
    /\ UNCHANGED <<queues, contexts, link, raised>>

Errback ==
    /\ Running("_eb_deferred", "start")
    /\ outError' = outError \cup {Self}
    /\ Call(Frame("handle_error", Self, "start"), "wait")
    /\ UNCHANGED <<queues, pending, open, closes, auxRuns, link, raised>>

ErrbackDone ==
    /\ Running("_eb_deferred", "wait")
    /\ Return
    /\ UNCHANGED <<queues, contexts, link, raised>>

\* get_out_string serializes the fault when out_error is set and the result
\* again when it is not; a context that is closed has no transport, and its
\* error is not sent.
HandleError ==
    /\ Running("handle_error", "start")
    /\ IF Self \in Unserializable /\ Self \notin outError
         THEN Raise
         ELSE /\ UNCHANGED raised
              /\ IF Self \in open
                   THEN Call(Frame("enqueue_outresp_data", Self, "error"),
                             "wait")
                   ELSE Become(Frame("handle_error", Self, "wait"))
    /\ UNCHANGED <<queues, contexts, link>>

\* process_contexts gets the protocol as its server argument, which has no
\* get_in_object: no auxiliary method runs and the AttributeError is logged.
HandleErrorDone ==
    /\ Running("handle_error", "wait")
    /\ Return
    /\ UNCHANGED <<queues, contexts, link, raised>>

-----------------------------------------------------------------------------
(* enqueue_outresp_data.                                                   *)

Store ==
    /\ \E d \in Data :
         /\ Running("enqueue_outresp_data", d)
         /\ IF Self \in Waiting /\ data[Self] = NoData
              THEN /\ data' = [data EXCEPT ![Self] = d]
                   /\ Become(Frame("enqueue_outresp_data", Self, "flush"))
                   /\ UNCHANGED raised
              ELSE Raise /\ UNCHANGED data
    /\ UNCHANGED <<buffer, next, inactive, inreq, active, wire, contexts,
                   link>>

HeadAnswered == inreq # <<>> /\ data[Head(inreq)] # NoData

\* The flush leaves the close to the callbacks.
BadWriteHead ==
    LET k == Head(inreq) IN
      /\ wire' = Append(wire, <<k, data[k]>>)
      /\ inreq' = Tail(inreq)
      /\ data' = [data EXCEPT ![k] = NoData]
      /\ UNCHANGED <<buffer, next, inactive, contexts, link, raised>>

WriteHead ==
    LET k == Head(inreq) IN
      /\ wire' = Append(wire, <<k, data[k]>>)
      /\ inreq' = Tail(inreq)
      /\ data' = [data EXCEPT ![k] = NoData]
      /\ Close(k)
      /\ UNCHANGED <<buffer, next, inactive, pending, outError, auxRuns, link,
                     raised>>

\* "if v is None: break" is missing.
BadFlushOne ==
    /\ Running("enqueue_outresp_data", "flush")
    /\ inreq # <<>>
    /\ WriteHead
    /\ active' = active \ {Head(inreq)}
    /\ UNCHANGED stack

\* "del self.active_queue[k]" is missing.
BadFlushOneKeepsActive ==
    /\ Running("enqueue_outresp_data", "flush")
    /\ HeadAnswered
    /\ WriteHead
    /\ UNCHANGED <<active, stack>>

\* Only the first answered entry is written.
BadFlushOneOnly ==
    /\ Running("enqueue_outresp_data", "flush")
    /\ HeadAnswered
    /\ WriteHead
    /\ active' = active \ {Head(inreq)}
    /\ Become(Frame("process_inactive", 0, "loop"))

\* One turn of the loop runs to its end: the listeners of outresp_flushed and of
\* method_context_closed, and closing the files of a context, do not raise.
FlushOne ==
    /\ Running("enqueue_outresp_data", "flush")
    /\ HeadAnswered
    /\ WriteHead
    /\ active' = active \ {Head(inreq)}
    /\ UNCHANGED stack

FlushDone ==
    /\ Running("enqueue_outresp_data", "flush")
    /\ ~HeadAnswered
    /\ Become(Frame("process_inactive", 0, "loop"))
    /\ UNCHANGED <<queues, contexts, link, raised>>

-----------------------------------------------------------------------------
(* Exceptions.  Every frame on the stack but the innermost one waits for a *)
(* call; what it does with an exception is one action each.                *)

Unwinding(fn, at) ==
    /\ raised
    /\ stack # <<>>
    /\ Head(stack).fn = fn
    /\ Head(stack).at = at

\* No handler in process_inactive or handle_error.
Propagate ==
    /\ \/ Unwinding("process_inactive", "loop")
       \/ Unwinding("handle_error", "wait")
    /\ Return
    /\ UNCHANGED <<queues, contexts, link, raised>>

\* The except clause of _cb_deferred.
CatchInCallback ==
    /\ \E fn \in Callbacks : Unwinding(fn, "try")
    /\ Call(Frame("handle_error", Self, "start"), "except")
    /\ raised' = FALSE
    /\ UNCHANGED <<queues, contexts, link>>

\* handle_error raised inside the except clause: only finally still runs.
FailInExcept ==
    /\ \E fn \in Callbacks : Unwinding(fn, "except")
    /\ Close(Self)
    /\ LeaveCallback(Self)
    /\ UNCHANGED <<queues, pending, outError, auxRuns, link>>

\* _eb_deferred re-raises and log_and_let_go leaves it in the Deferred.
FailInErrback ==
    /\ Unwinding("_eb_deferred", "wait")
    /\ Return
    /\ raised' = FALSE
    /\ UNCHANGED <<queues, contexts, link>>

\* Twisted drops a connection whose dataReceived raises.
FailInDataReceived ==
    /\ \/ Unwinding("dataReceived", "next")
       \/ Unwinding("dataReceived", "processed")
    /\ Return
    /\ raised' = FALSE
    /\ conn' = "closing"
    /\ UNCHANGED <<queues, contexts, disconnecting, idleTimer, armed,
                   maxInactive>>

-----------------------------------------------------------------------------
Step ==
    \/ NextMessage \/ MalformedMessage \/ NoMoreMessages \/ MessageProcessed
    \/ Admit \/ AdmitNoMore
    \/ RequestFails \/ ReturnsValue \/ ReturnsDeferred \/ ReturnsFiredDeferred
    \/ ReturnsIgnored
    \/ Respond \/ Finally \/ Errback \/ ErrbackDone
    \/ HandleError \/ HandleErrorDone
    \/ Store \/ FlushOne \/ FlushDone
    \/ Propagate \/ CatchInCallback \/ FailInExcept \/ FailInErrback
    \/ FailInDataReceived

Next ==
    \/ \E n \in Req : DataReceived(n)
    \/ \E r \in Req : DeferredFires(r)
    \/ IdleTimeout
    \/ ConnectionLost
    \/ Step

\* The running callback finishes (it is plain sequential code), and the
\* Deferreds of the user code fire sooner or later.  Nothing is assumed of
\* the client, of the timer or of the network.
Fairness ==
    /\ WF_vars(Step)
    /\ \A r \in Req : WF_vars(DeferredFires(r))

Spec == Init /\ [][Next]_vars
FairSpec == Spec /\ Fairness

-----------------------------------------------------------------------------
(* Properties.                                                             *)

Ats == {"next", "processed", "loop", "start", "try", "except", "wait",
        "result", "error", "flush"}
LoopFrames == [fn : {"dataReceived", "process_inactive"}, ctx : {0}, at : Ats]
CallFrames ==
    [fn : {"process_contexts", "_cb_deferred", "_cb_deferred_nowrap",
           "_eb_deferred", "handle_error", "enqueue_outresp_data"},
     ctx : Req, at : Ats]
Frames == LoopFrames \cup CallFrames

\* Each variable holds what the attribute it stands for may hold, and the
\* frames of the loops belong to no context.
TypeOK ==
    /\ buffer \in Nat
    /\ next \in Nat \ {0}
    /\ buffer + next <= MaxReq + 1
    /\ inactive \in Seq(Req)
    /\ inreq \in Seq(Req)
    /\ data \in [Req -> Data \cup {NoData}]
    /\ active \subseteq Req
    /\ pending \subseteq Req
    /\ outError \subseteq Req
    /\ open \subseteq Req
    /\ closes \in [Req -> Nat]
    /\ auxRuns \in [Req -> Nat]
    /\ wire \in Seq(Req \X Data)
    /\ disconnecting \in BOOLEAN
    /\ idleTimer \in BOOLEAN
    /\ armed \in BOOLEAN
    /\ conn \in {"up", "closing", "lost"}
    /\ maxInactive \in Nat
    /\ stack \in Seq(Frames)
    /\ raised \in BOOLEAN

\* Requests keep their order from dataReceived through inactive_queue and
\* inreq_queue to transport.write: what is on the wire, in work and waiting
\* is 1, 2, 3 ... without a gap and without a repetition, however the
\* callbacks nest and whatever raises.
FifoPipeline ==
    /\ \A i \in 1 .. Len(wire) : wire[i][1] = i
    /\ \A i \in 1 .. Len(inreq) : inreq[i] = Len(wire) + i
    /\ \A i \in 1 .. Len(inactive) :
           inactive[i] = Len(wire) + Len(inreq) + i
    /\ next = Len(wire) + Len(inreq) + Len(inactive) + 1

\* active_queue and inreq_queue have the same keys, so that the lookups of
\* enqueue_outresp_data cannot fail, and the re-entrant process_inactive
\* never admits more than max_in_queue_size requests.
QueuesAgree ==
    /\ active = Waiting
    /\ MaxQueue > 0 => Len(inreq) <= MaxQueue

\* A response whose turn has come is never left in inreq_queue: the only
\* code that runs then is the flush loop of enqueue_outresp_data.
NothingWithheld == HeadAnswered => Running("enqueue_outresp_data", "flush")

\* The context of a response that is sent is closed, whichever way the call
\* ended.  The callbacks close it and the flush closes it, before or after:
\* twice is normal, never and three times are not.
SentIsClosed == \A r \in Req : r <= Len(wire) => closes[r] \in {1, 2}

\* Only a message that produce_contexts refuses raises.  This is for
\* methods that neither return Ignored() for several values nor something
\* that cannot be packed: then no key is missing and no assertion fails.
OnlyInputRaises == raised => Head(stack).fn = "dataReceived"

\* The code that still holds on to a request and can answer it.
Held(r) ==
    \/ r \in pending
    \/ \E i \in 1 .. Len(stack) : stack[i].ctx = r

\* A request of inreq_queue that nothing will ever answer: it blocks every
\* response behind it.
Lost(r) == r \in Waiting /\ data[r] = NoData /\ ~Held(r)

Broken(r) == r \in Unserializable \/ "ignored" \in Ways[r]

\* An exception that unwinds through the callbacks of other requests does
\* not take their responses along: only a request that itself returned
\* something that cannot be sent is lost.
OnlyBrokenLost == \A r \in Req : Lost(r) => Broken(r)

\* Once the server has decided to drop the connection it takes no further
\* message, not even one that is in the buffer already.
DropStopsReading == [][disconnecting => next' = next]_vars

\* Every request the server has read is answered, even when the peer has
\* hung up (Twisted discards what is written then).  Again for methods
\* whose results can be sent.
Answered == \A r \in Req : r < next ~> Len(wire) >= r

\* The responses leave in the order of the requests, each one once, and the
\* one whose turn it is leaves without waiting for anything else.
Abs == INSTANCE OrderedResponses WITH
    Answer <- Data,
    NoAnswer <- NoData,
    received <- next - 1,
    answer <- [i \in Req |-> IF i <= Len(wire) THEN wire[i][2] ELSE data[i]],
    sent <- Len(wire)
ImplementsOrderedResponses == Abs!Spec

-----------------------------------------------------------------------------
(* What docs, comments and assertions say and the code does not do.        *)

\* The assertion of enqueue_outresp_data: a response is enqueued once.
EnqueuedOnce ==
    \A d \in Data :
        Running("enqueue_outresp_data", d) => data[Self] = NoData
=============================================================================
