------------------------ MODULE TwistedMsgpackProofs ------------------------
(* Proofs about one connection of the Twisted MessagePack server.          *)
EXTENDS TwistedMsgpack, TLAPS

-----------------------------------------------------------------------------
(* Sequences.                                                              *)

\* What popleft leaves of a queue.
LEMMA TailFacts ==
    ASSUME NEW S, NEW s \in Seq(S), s # <<>>
    PROVE  /\ Len(s) \in Nat \ {0}
           /\ Head(s) = s[1]
           /\ Head(s) \in S
           /\ Tail(s) \in Seq(S)
           /\ Len(Tail(s)) = Len(s) - 1
           /\ \A i \in 1 .. Len(Tail(s)) : Tail(s)[i] = s[i + 1]
    OBVIOUS

\* What append makes of a queue.
LEMMA AppendFacts ==
    ASSUME NEW S, NEW s \in Seq(S), NEW e \in S
    PROVE  /\ Len(s) \in Nat
           /\ Append(s, e) \in Seq(S)
           /\ Len(Append(s, e)) = Len(s) + 1
           /\ \A i \in 1 .. Len(s) : Append(s, e)[i] = s[i]
           /\ Append(s, e)[Len(s) + 1] = e
    OBVIOUS

-----------------------------------------------------------------------------
(* The call stack.                                                         *)

\* The innermost frame is a frame, and so is what is left below it.
LEMMA TopFrame ==
    ASSUME stack \in Seq(Frames), stack # <<>>
    PROVE  Head(stack) \in Frames /\ Tail(stack) \in Seq(Frames)
  BY TailFacts

\* A return, a jump and a call leave a well-formed stack.
LEMMA ReturnType ==
    ASSUME stack \in Seq(Frames), stack # <<>>, Return
    PROVE  stack' \in Seq(Frames)
  BY TopFrame DEF Return

LEMMA BecomeType ==
    ASSUME stack \in Seq(Frames), stack # <<>>, NEW f \in Frames, Become(f)
    PROVE  stack' \in Seq(Frames)
  BY TopFrame DEF Become

LEMMA CallType ==
    ASSUME stack \in Seq(Frames), stack # <<>>,
           NEW f \in Frames, NEW at \in Ats, Call(f, at)
    PROVE  stack' \in Seq(Frames)
<1>1. [Head(stack) EXCEPT !.at = at] \in Frames
  BY TopFrame DEF Frames, LoopFrames, CallFrames
<1> QED
  BY <1>1, TopFrame DEF Call

\* A frame of a function that works for a context names that context.
LEMMA SelfType ==
    ASSUME stack \in Seq(Frames), stack # <<>>,
           Head(stack).fn \notin {"dataReceived", "process_inactive"}
    PROVE  Self \in Req
  BY TopFrame DEF Self, Frames, LoopFrames, CallFrames

\* The frames the actions make.
LEMMA LoopFrameType ==
    ASSUME NEW fn \in {"dataReceived", "process_inactive"}, NEW at \in Ats
    PROVE  Frame(fn, 0, at) \in Frames
  BY DEF Frame, Frames, LoopFrames

LEMMA CallFrameType ==
    ASSUME NEW fn \in {"process_contexts", "_cb_deferred",
                       "_cb_deferred_nowrap", "_eb_deferred",
                       "handle_error", "enqueue_outresp_data"},
           NEW r \in Req, NEW at \in Ats
    PROVE  Frame(fn, r, at) \in Frames
  BY DEF Frame, Frames, CallFrames

-----------------------------------------------------------------------------
(* Type correctness.                                                       *)

LEMMA TypeInit == Init => TypeOK
<1> SUFFICES ASSUME Init PROVE TypeOK
  OBVIOUS
<1>1. /\ MaxReq \in Nat
      /\ IdleTimeoutSet \in BOOLEAN
  BY TwistedMsgpackAssumption DEF TwistedMsgpackAssumption
<1>2. /\ inactive \in Seq(Req)
      /\ inreq \in Seq(Req)
      /\ wire \in Seq(Req \X Data)
      /\ stack \in Seq(Frames)
  BY DEF Init
<1>3. idleTimer \in BOOLEAN /\ armed \in BOOLEAN
  BY <1>1 DEF Init
<1>4. buffer \in Nat /\ next \in Nat \ {0} /\ buffer + next <= MaxReq + 1
  BY <1>1 DEF Init
<1>5. /\ data \in [Req -> Data \cup {NoData}]
      /\ closes \in [Req -> Nat]
      /\ auxRuns \in [Req -> Nat]
  BY DEF Init
<1>6. maxInactive \in Nat
  BY TwistedMsgpackAssumption DEF TwistedMsgpackAssumption, Init
<1> QED
  BY <1>2, <1>3, <1>4, <1>5, <1>6 DEF Init, TypeOK

\* Every action keeps the attributes, and the call stack, in their types.
LEMMA TypeStep == TypeOK /\ [Next]_vars => TypeOK'
<1> SUFFICES ASSUME TypeOK, [Next]_vars
             PROVE  TypeOK'
  OBVIOUS
<1>c. /\ MaxReq \in Nat
      /\ IdleTimeoutSet \in BOOLEAN
  BY TwistedMsgpackAssumption DEF TwistedMsgpackAssumption
<1>1. ASSUME NEW n \in Req, DataReceived(n)
      PROVE  TypeOK'
  <2>1. idleTimer' \in BOOLEAN /\ armed' \in BOOLEAN
    BY <1>1, <1>c DEF DataReceived
  <2>2. buffer' \in Nat /\ next' \in Nat \ {0} /\ buffer' + next' <= MaxReq + 1
    BY <1>1, <1>c DEF DataReceived, TypeOK, Req
  <2>3. stack' \in Seq(Frames)
    BY <1>1, LoopFrameType DEF DataReceived, Ats
  <2> QED
    BY <1>1, <2>1, <2>2, <2>3 DEF TypeOK, DataReceived, contexts
<1>2. ASSUME NEW r \in Req, DeferredFires(r)
      PROVE  TypeOK'
  BY <1>2, CallFrameType DEF TypeOK, DeferredFires, queues, contexts, link, Ats
<1>3. ASSUME IdleTimeout
      PROVE  TypeOK'
  BY <1>3 DEF TypeOK, IdleTimeout, queues, contexts
<1>4. ASSUME ConnectionLost
      PROVE  TypeOK'
  BY <1>4 DEF TypeOK, ConnectionLost, queues, contexts
<1>5. CASE NextMessage
  <2>1. /\ buffer' \in Nat
        /\ next' \in Nat \ {0}
        /\ buffer' + next' <= MaxReq + 1
        /\ next \in Req
    BY <1>5, <1>c DEF TypeOK, NextMessage, Req
  <2>2. inactive' \in Seq(Req) /\ open' \subseteq Req
    BY <1>5, <2>1 DEF TypeOK, NextMessage
  <2>3. stack' \in Seq(Frames)
    BY <1>5, LoopFrameType, CallType DEF TypeOK, NextMessage, Running, Ats
  <2> QED
    BY <1>5, <2>1, <2>2, <2>3 DEF TypeOK, NextMessage, link
<1>6. CASE MalformedMessage
  <2>1. buffer' \in Nat /\ buffer' + next <= MaxReq + 1
    BY <1>6, <1>c DEF TypeOK, MalformedMessage
  <2> QED
    BY <1>6, <2>1 DEF TypeOK, MalformedMessage, contexts, link
<1>7. CASE NoMoreMessages
  BY <1>7, ReturnType
  DEF TypeOK, NoMoreMessages, Running, queues, contexts, link
<1>8. CASE MessageProcessed
  BY <1>8, ReturnType, BecomeType, LoopFrameType
  DEF TypeOK, MessageProcessed, Running, queues, contexts, link, Ats
<1>9. CASE Admit
  <2> DEFINE r == Head(inactive)
  <2>1. /\ r \in Req /\ inactive' \in Seq(Req)
        /\ inreq' = Append(inreq, r) /\ active' = active \cup {r}
        /\ data' = [data EXCEPT ![r] = NoData]
        /\ Call(Frame("process_contexts", r, "start"), "loop")
        /\ UNCHANGED <<buffer, next, wire, contexts, link, raised>>
    BY <1>9, TailFacts DEF TypeOK, Admit, MayAdmit, Start
  <2> HIDE DEF r
  <2>2. inreq' \in Seq(Req)
    BY <2>1, AppendFacts DEF TypeOK
  <2>3. stack' \in Seq(Frames)
    BY <1>9, <2>1, CallFrameType, CallType DEF TypeOK, Admit, Running, Ats
  <2> QED
    BY <2>1, <2>2, <2>3 DEF TypeOK, contexts, link
<1>10. CASE AdmitNoMore
  BY <1>10, ReturnType
  DEF TypeOK, AdmitNoMore, Running, queues, contexts, link
<1>11. CASE RequestFails
  BY <1>11, SelfType, CallFrameType, BecomeType
  DEF TypeOK, RequestFails, Ends, Running, queues, contexts, link, Ats
<1>12. CASE ReturnsValue
  BY <1>12, SelfType, CallFrameType, BecomeType
  DEF TypeOK, ReturnsValue, Ends, Running, queues, contexts, link, Ats
<1>13. CASE ReturnsDeferred
  BY <1>13, SelfType, ReturnType
  DEF TypeOK, ReturnsDeferred, Ends, Running, queues, contexts, link
<1>14. CASE ReturnsFiredDeferred
  BY <1>14, SelfType, CallFrameType, BecomeType
  DEF TypeOK, ReturnsFiredDeferred, Ends, Running, queues, contexts, link, Ats
<1>15. CASE ReturnsIgnored
  BY <1>15, ReturnType
  DEF TypeOK, ReturnsIgnored, Ends, Running, Raise, queues, contexts, link
<1>16. CASE Respond
  BY <1>16, SelfType, CallFrameType, CallType
  DEF TypeOK, Respond, Running, Callbacks, queues, contexts, link, Ats
<1>17. CASE Finally
  <2>1. stack # <<>> /\ Self \in Req
    BY <1>17, SelfType DEF TypeOK, Finally, Running, Callbacks
  <2>2. /\ closes' \in [Req -> Nat]
        /\ open' \subseteq Req
        /\ auxRuns' \in [Req -> Nat]
    BY <1>17, <2>1 DEF TypeOK, Finally, Close
  <2>3. /\ stack' \in Seq(Frames)
        /\ raised' \in BOOLEAN
    BY <1>17, <2>1, CallFrameType, ReturnType, BecomeType
    DEF TypeOK, Finally, LeaveCallback, Raise, Ats
  <2> QED
    BY <1>17, <2>2, <2>3 DEF TypeOK, Finally, queues, link
<1>18. CASE Errback
  BY <1>18, SelfType, CallFrameType, CallType
  DEF TypeOK, Errback, Running, queues, contexts, link, Ats
<1>19. CASE ErrbackDone
  BY <1>19, ReturnType
  DEF TypeOK, ErrbackDone, Running, queues, contexts, link
<1>20. CASE HandleError
  BY <1>20, SelfType, CallFrameType, ReturnType, BecomeType, CallType
  DEF TypeOK, HandleError, Running, Raise, queues, contexts, link, Ats
<1>21. CASE HandleErrorDone
  BY <1>21, ReturnType
  DEF TypeOK, HandleErrorDone, Running, queues, contexts, link
<1>22. CASE Store
  <2>1. stack # <<>> /\ Head(stack).fn = "enqueue_outresp_data" /\ Self \in Req
    BY <1>22, SelfType DEF TypeOK, Store, Running
  <2>2. data' \in [Req -> Data \cup {NoData}]
    BY <1>22, <2>1 DEF TypeOK, Store, Data
  <2>3. stack' \in Seq(Frames) /\ raised' \in BOOLEAN
    BY <1>22, <2>1, CallFrameType, ReturnType, BecomeType DEF TypeOK, Store, Raise, Ats
  <2> QED
    BY <1>22, <2>2, <2>3 DEF TypeOK, Store, contexts, link
<1>23. CASE FlushOne
  <2> DEFINE k == Head(inreq)
  <2>1. /\ k \in Req
        /\ Tail(inreq) \in Seq(Req)
        /\ data[k] \in Data
    BY <1>23, TailFacts DEF TypeOK, FlushOne, HeadAnswered
  <2>2. wire' \in Seq(Req \X Data)
    BY <1>23, <2>1 DEF TypeOK, FlushOne, WriteHead
  <2>3. /\ closes' \in [Req -> Nat]
        /\ open' \subseteq Req
        /\ data' \in [Req -> Data \cup {NoData}]
        /\ inreq' \in Seq(Req)
        /\ active' \subseteq Req
    <3>1. closes' \in [Req -> Nat] /\ open' \subseteq Req
      <4>1. Close(k)
        BY <1>23 DEF FlushOne, WriteHead
      <4>2. closes \in [Req -> Nat] /\ open \subseteq Req
        BY DEF TypeOK
      <4> HIDE DEF k
      <4> QED
        BY <2>1, <4>1, <4>2 DEF Close
    <3>2. data' \in [Req -> Data \cup {NoData}]
      BY <1>23, <2>1 DEF TypeOK, FlushOne, WriteHead
    <3>3. inreq' \in Seq(Req) /\ active' \subseteq Req
      BY <1>23, <2>1 DEF TypeOK, FlushOne, WriteHead
    <3> QED
      BY <3>1, <3>2, <3>3
  <2> QED
    BY <1>23, <2>2, <2>3 DEF TypeOK, FlushOne, WriteHead, link
<1>24. CASE FlushDone
  BY <1>24, LoopFrameType, BecomeType
  DEF TypeOK, FlushDone, Running, queues, contexts, link, Ats
<1>25. CASE Propagate
  BY <1>25, ReturnType
  DEF TypeOK, Propagate, Unwinding, queues, contexts, link
<1>26. CASE CatchInCallback
  BY <1>26, SelfType, CallFrameType, CallType
  DEF TypeOK, CatchInCallback, Unwinding, Callbacks, queues, contexts, link, Ats
<1>27. CASE FailInExcept
  <2>1. stack # <<>> /\ Self \in Req
    BY <1>27, SelfType DEF TypeOK, FailInExcept, Unwinding, Callbacks
  <2>2. /\ closes' \in [Req -> Nat]
        /\ open' \subseteq Req
        /\ auxRuns' \in [Req -> Nat]
    BY <1>27, <2>1 DEF TypeOK, FailInExcept, Close
  <2>3. /\ stack' \in Seq(Frames)
        /\ raised' \in BOOLEAN
    BY <1>27, <2>1, CallFrameType, ReturnType, BecomeType
    DEF TypeOK, FailInExcept, LeaveCallback, Raise, Ats
  <2> QED
    BY <1>27, <2>2, <2>3 DEF TypeOK, FailInExcept, queues, link
<1>28. CASE FailInErrback
  BY <1>28, ReturnType
  DEF TypeOK, FailInErrback, Unwinding, queues, contexts, link
<1>29. CASE FailInDataReceived
  BY <1>29, ReturnType
  DEF TypeOK, FailInDataReceived, Unwinding, queues, contexts
<1>30. CASE UNCHANGED vars
  BY <1>30 DEF TypeOK, vars, queues, contexts, link
<1> QED
  BY <1>1, <1>2, <1>3, <1>4, <1>5, <1>6, <1>7, <1>8, <1>9, <1>10, <1>11,
     <1>12, <1>13, <1>14, <1>15, <1>16, <1>17, <1>18, <1>19, <1>20, <1>21,
     <1>22, <1>23, <1>24, <1>25, <1>26, <1>27, <1>28, <1>29, <1>30
  DEF Next, Step

\* THEOREM: the attributes and the call stack stay well formed, for any
\* number of requests, any queue limits and any behaviour of the methods.
THEOREM TypeCorrect == Spec => []TypeOK
  BY TypeInit, TypeStep, PTL DEF Spec

-----------------------------------------------------------------------------
(* The queues.                                                             *)

\* The variables FifoPipeline and QueuesAgree speak of.
pipeline == <<next, inactive, inreq, wire, active>>

\* All but three actions leave the queues alone.
LEMMA PipelineActions ==
    ASSUME [Next]_vars, ~NextMessage, ~Admit, ~FlushOne
    PROVE  UNCHANGED pipeline
<1> USE DEF pipeline, queues
<1>1. ASSUME NEW n \in Req, DataReceived(n)
      PROVE  UNCHANGED pipeline
  BY <1>1 DEF DataReceived
<1>2. ASSUME NEW r \in Req, DeferredFires(r)
      PROVE  UNCHANGED pipeline
  BY <1>2 DEF DeferredFires
<1>3. CASE IdleTimeout \/ ConnectionLost
  BY <1>3 DEF IdleTimeout, ConnectionLost
<1>4. CASE MalformedMessage \/ NoMoreMessages \/ MessageProcessed
  BY <1>4 DEF MalformedMessage, NoMoreMessages, MessageProcessed
<1>5. CASE AdmitNoMore \/ RequestFails \/ ReturnsValue \/ ReturnsDeferred
             \/ ReturnsFiredDeferred \/ ReturnsIgnored
  BY <1>5 DEF AdmitNoMore, RequestFails, ReturnsValue, ReturnsDeferred,
              ReturnsFiredDeferred, ReturnsIgnored
<1>6. CASE Respond \/ Finally \/ Errback \/ ErrbackDone \/ HandleError
             \/ HandleErrorDone
  BY <1>6 DEF Respond, Finally, Errback, ErrbackDone, HandleError,
              HandleErrorDone
<1>7. CASE Store \/ FlushDone
  BY <1>7 DEF Store, FlushDone
<1>8. CASE Propagate \/ CatchInCallback \/ FailInExcept \/ FailInErrback
             \/ FailInDataReceived
  BY <1>8 DEF Propagate, CatchInCallback, FailInExcept, FailInErrback,
              FailInDataReceived
<1>9. CASE UNCHANGED vars
  BY <1>9 DEF vars
<1> QED
  BY <1>1, <1>2, <1>3, <1>4, <1>5, <1>6, <1>7, <1>8, <1>9 DEF Next, Step

LEMMA FifoInit == Init => FifoPipeline /\ QueuesAgree
  BY TwistedMsgpackAssumption
  DEF Init, FifoPipeline, QueuesAgree, Waiting, TwistedMsgpackAssumption

\* A request moves from one queue to the next only at the ends, whatever
\* callback the step belongs to.
LEMMA FifoStep == TypeOK /\ FifoPipeline /\ [Next]_vars => FifoPipeline'
<1> SUFFICES ASSUME TypeOK, FifoPipeline, [Next]_vars
             PROVE  FifoPipeline'
  OBVIOUS
<1>t. /\ Len(wire) \in Nat
      /\ Len(inreq) \in Nat
      /\ Len(inactive) \in Nat
  BY DEF TypeOK
<1>1. CASE NextMessage
  <2>1. next \in Req
    BY <1>1, TwistedMsgpackAssumption
    DEF NextMessage, TypeOK, Req, TwistedMsgpackAssumption
  <2>2. /\ Len(inactive') = Len(inactive) + 1
        /\ \A i \in 1 .. Len(inactive) : inactive'[i] = inactive[i]
        /\ inactive'[Len(inactive) + 1] = next
    BY <1>1, <2>1, AppendFacts DEF NextMessage, TypeOK
  <2>3. /\ next' = next + 1
        /\ UNCHANGED <<inreq, wire>>
    BY <1>1 DEF NextMessage
  <2>4. ASSUME NEW i \in 1 .. Len(inactive')
        PROVE  inactive'[i] = Len(wire) + Len(inreq) + i
    <3>1. CASE i = Len(inactive) + 1
      BY <1>t, <2>2, <3>1 DEF FifoPipeline
    <3>2. CASE i \in 1 .. Len(inactive)
      BY <1>t, <2>2, <3>2 DEF FifoPipeline
    <3> QED
      BY <1>t, <2>2, <3>1, <3>2
  <2>5. next' = Len(wire) + Len(inreq) + Len(inactive') + 1
    BY <1>t, <2>2, <2>3 DEF FifoPipeline
  <2> QED
    BY <2>3, <2>4, <2>5 DEF FifoPipeline
<1>2. CASE Admit
  <2> DEFINE r == Head(inactive)
  <2>1. inactive # <<>>
    BY <1>2 DEF Admit, MayAdmit
  <2>2. /\ r = inactive[1]
        /\ r \in Req
        /\ Len(inactive) \in Nat \ {0}
        /\ Len(inactive') = Len(inactive) - 1
        /\ \A i \in 1 .. Len(inactive') : inactive'[i] = inactive[i + 1]
    BY <1>2, <2>1, TailFacts DEF Admit, TypeOK
  <2>3. /\ Len(inreq') = Len(inreq) + 1
        /\ \A i \in 1 .. Len(inreq) : inreq'[i] = inreq[i]
        /\ inreq'[Len(inreq) + 1] = r
    BY <1>2, <2>2, AppendFacts DEF Admit, Start, TypeOK
  <2>4. UNCHANGED <<next, wire>>
    BY <1>2 DEF Admit, Start
  <2>5. r = Len(wire) + Len(inreq) + 1
    BY <1>t, <2>2 DEF FifoPipeline
  <2> HIDE DEF r
  <2>6. ASSUME NEW i \in 1 .. Len(inreq')
        PROVE  inreq'[i] = Len(wire) + i
    <3>1. CASE i = Len(inreq) + 1
      BY <1>t, <2>3, <2>5, <3>1
    <3>2. CASE i \in 1 .. Len(inreq)
      BY <1>t, <2>3, <3>2 DEF FifoPipeline
    <3> QED
      BY <1>t, <2>3, <3>1, <3>2
  <2>7. ASSUME NEW i \in 1 .. Len(inactive')
        PROVE  inactive'[i] = Len(wire) + Len(inreq') + i
    <3>1. i + 1 \in 1 .. Len(inactive)
      BY <1>t, <2>2
    <3>2. inactive[i + 1] = Len(wire) + Len(inreq) + (i + 1)
      BY <3>1 DEF FifoPipeline
    <3> QED
      BY <1>t, <2>2, <2>3, <3>2
  <2>8. next = Len(wire) + Len(inreq') + Len(inactive') + 1
    BY <1>t, <2>2, <2>3 DEF FifoPipeline
  <2> QED
    BY <2>4, <2>6, <2>7, <2>8 DEF FifoPipeline
<1>3. CASE FlushOne
  <2> DEFINE k == Head(inreq)
  <2>1. inreq # <<>> /\ data[k] \in Data
    BY <1>3, TailFacts DEF FlushOne, HeadAnswered, TypeOK
  <2>2. /\ k = inreq[1]
        /\ k \in Req
        /\ Len(inreq) \in Nat \ {0}
        /\ Len(inreq') = Len(inreq) - 1
        /\ \A i \in 1 .. Len(inreq') : inreq'[i] = inreq[i + 1]
    BY <1>3, <2>1, TailFacts DEF FlushOne, WriteHead, TypeOK
  <2>3. /\ Len(wire') = Len(wire) + 1
        /\ \A i \in 1 .. Len(wire) : wire'[i] = wire[i]
        /\ wire'[Len(wire) + 1] = <<k, data[k]>>
    <3>1. <<k, data[k]>> \in Req \X Data
      BY <2>1, <2>2
    <3> QED
      BY <1>3, <3>1, AppendFacts DEF FlushOne, WriteHead, TypeOK
  <2>4. UNCHANGED <<next, inactive>>
    BY <1>3 DEF FlushOne, WriteHead
  <2>5. k = Len(wire) + 1
    <3>1. 1 \in 1 .. Len(inreq)
      BY <2>2
    <3>2. inreq[1] = Len(wire) + 1
      BY <1>t, <3>1 DEF FifoPipeline
    <3> QED
      BY <2>2, <3>2
  <2> HIDE DEF k
  <2>6. \A i \in 1 .. Len(wire') : wire'[i][1] = i
    BY <1>t, <2>3, <2>5 DEF FifoPipeline
  <2>7. ASSUME NEW i \in 1 .. Len(inreq')
        PROVE  inreq'[i] = Len(wire') + i
    <3>1. i + 1 \in 1 .. Len(inreq)
      BY <1>t, <2>2
    <3>2. inreq[i + 1] = Len(wire) + (i + 1)
      BY <3>1 DEF FifoPipeline
    <3> QED
      BY <1>t, <2>2, <2>3, <3>2
  <2>8. \A i \in 1 .. Len(inactive) :
            inactive[i] = Len(wire') + Len(inreq') + i
    <3>1. Len(wire') + Len(inreq') = Len(wire) + Len(inreq)
      BY <1>t, <2>2, <2>3
    <3> QED
      BY <3>1 DEF FifoPipeline
  <2> QED
    BY <1>t, <2>2, <2>3, <2>4, <2>6, <2>7, <2>8 DEF FifoPipeline, TypeOK
<1>4. CASE UNCHANGED pipeline
  BY <1>4 DEF pipeline, FifoPipeline
<1> QED
  BY <1>1, <1>2, <1>3, <1>4, PipelineActions

\* The first waiting request becomes the last key of inreq_queue.
LEMMA AdmitFacts ==
    ASSUME TypeOK, Admit
    PROVE  /\ Head(inactive) \in Req
           /\ inreq' = Append(inreq, Head(inactive))
           /\ Len(inreq') = Len(inreq) + 1
           /\ active' = active \cup {Head(inactive)}
           /\ data' = [data EXCEPT ![Head(inactive)] = NoData]
           /\ Waiting' = Waiting \cup {Head(inactive)}
<1> DEFINE r == Head(inactive)
<1>1. r \in Req
  BY TailFacts DEF Admit, MayAdmit, TypeOK
<1>2. /\ inreq' = Append(inreq, r)
      /\ Len(inreq) \in Nat
      /\ Len(inreq') = Len(inreq) + 1
      /\ \A i \in 1 .. Len(inreq) : inreq'[i] = inreq[i]
      /\ inreq'[Len(inreq) + 1] = r
      /\ active' = active \cup {r}
      /\ data' = [data EXCEPT ![r] = NoData]
  BY <1>1, AppendFacts DEF Admit, Start, TypeOK
<1> HIDE DEF r
<1>3. ASSUME NEW q \in Req, NEW i \in 1 .. Len(inreq'), inreq'[i] = q
      PROVE  q \in Waiting \cup {r}
  BY <1>2, <1>3 DEF Waiting
<1>4. ASSUME NEW q \in Waiting PROVE q \in Waiting'
  BY <1>2, <1>4 DEF Waiting
<1>5. r \in Waiting'
  BY <1>1, <1>2 DEF Waiting
<1>6. Waiting' = Waiting \cup {r}
  BY <1>3, <1>4, <1>5 DEF Waiting
<1> QED
  BY <1>1, <1>2, <1>6 DEF r

\* The flushed request was the first key, and it was there only once.
LEMMA FlushFacts ==
    ASSUME TypeOK, FifoPipeline, FlushOne
    PROVE  /\ Head(inreq) = Len(wire) + 1
           /\ Head(inreq) \in Req
           /\ data[Head(inreq)] \in Data
           /\ Len(inreq') = Len(inreq) - 1
           /\ active' = active \ {Head(inreq)}
           /\ data' = [data EXCEPT ![Head(inreq)] = NoData]
           /\ Waiting' = Waiting \ {Head(inreq)}
<1> DEFINE k == Head(inreq)
<1>t. Len(wire) \in Nat
  BY DEF TypeOK
<1>1. /\ k = inreq[1]
      /\ k \in Req
      /\ data[k] \in Data
      /\ Len(inreq) \in Nat \ {0}
      /\ Len(inreq') = Len(inreq) - 1
      /\ \A i \in 1 .. Len(inreq') : inreq'[i] = inreq[i + 1]
      /\ active' = active \ {k}
      /\ data' = [data EXCEPT ![k] = NoData]
  BY TailFacts DEF FlushOne, HeadAnswered, WriteHead, TypeOK
<1>2. k = Len(wire) + 1
  BY <1>t, <1>1 DEF FifoPipeline
<1> HIDE DEF k
<1>3. ASSUME NEW q \in Req, NEW i \in 1 .. Len(inreq'), inreq'[i] = q
      PROVE  q \in Waiting \ {k}
  <2>1. i + 1 \in 1 .. Len(inreq) /\ inreq[i + 1] = q
    BY <1>1, <1>3
  <2>2. q = Len(wire) + (i + 1)
    BY <2>1 DEF FifoPipeline
  <2> QED
    BY <1>t, <1>2, <2>1, <2>2 DEF Waiting
<1>4. ASSUME NEW q \in Req, NEW i \in 1 .. Len(inreq), inreq[i] = q, q # k
      PROVE  q \in Waiting'
  <2>1. i # 1
    BY <1>1, <1>4
  <2>2. i - 1 \in 1 .. Len(inreq') /\ inreq'[i - 1] = q
    BY <1>1, <1>4, <2>1
  <2> QED
    BY <2>2 DEF Waiting
<1>5. Waiting' = Waiting \ {k}
  BY <1>3, <1>4 DEF Waiting
<1> QED
  BY <1>1, <1>2, <1>5 DEF k

\* The keys of the two dictionaries change together.
LEMMA AgreeStep ==
    TypeOK /\ FifoPipeline /\ QueuesAgree /\ [Next]_vars => QueuesAgree'
<1> SUFFICES ASSUME TypeOK, FifoPipeline, QueuesAgree, [Next]_vars
             PROVE  QueuesAgree'
  OBVIOUS
<1>c. MaxQueue \in Nat /\ Len(inreq) \in Nat
  BY TwistedMsgpackAssumption DEF TwistedMsgpackAssumption, TypeOK
<1>1. CASE NextMessage
  BY <1>1 DEF NextMessage, QueuesAgree, Waiting
<1>2. CASE Admit
  <2>1. MaxQueue > 0 => Len(inreq) < MaxQueue
    BY <1>2, <1>c DEF Admit, MayAdmit
  <2>2. Len(inreq') = Len(inreq) + 1 /\ active' = Waiting'
    BY <1>2, AdmitFacts DEF QueuesAgree
  <2> QED
    BY <1>c, <2>1, <2>2 DEF QueuesAgree
<1>3. CASE FlushOne
  <2>1. Len(inreq') = Len(inreq) - 1 /\ active' = Waiting'
    BY <1>3, FlushFacts DEF QueuesAgree
  <2> QED
    BY <1>c, <2>1 DEF QueuesAgree
<1>4. CASE UNCHANGED pipeline
  BY <1>4 DEF pipeline, QueuesAgree, Waiting
<1> QED
  BY <1>1, <1>2, <1>3, <1>4, PipelineActions

-----------------------------------------------------------------------------
(* The flush loop.                                                         *)

\* Apart from admitting, enqueueing and flushing, no action changes an
\* entry of inreq_queue, and none of them runs while the flush loop has an
\* answered entry in front of it.
LEMMA FlushActions ==
    ASSUME [Next]_vars, ~Admit, ~Store, ~FlushOne
    PROVE  /\ UNCHANGED <<inreq, data>>
           /\ HeadAnswered /\ Running("enqueue_outresp_data", "flush")
                  => UNCHANGED vars
<1> USE DEF queues, Running, Idle
<1>1. ASSUME NEW n \in Req, DataReceived(n)
      PROVE  UNCHANGED <<inreq, data>> /\ stack = <<>>
  BY <1>1 DEF DataReceived
<1>2. ASSUME NEW r \in Req, DeferredFires(r)
      PROVE  UNCHANGED <<inreq, data>> /\ stack = <<>>
  BY <1>2 DEF DeferredFires
<1>3. CASE IdleTimeout \/ ConnectionLost
  BY <1>3 DEF IdleTimeout, ConnectionLost
<1>4. CASE NextMessage \/ MalformedMessage \/ NoMoreMessages
             \/ MessageProcessed
  BY <1>4 DEF NextMessage, MalformedMessage, NoMoreMessages,
              MessageProcessed
<1>5. CASE AdmitNoMore \/ RequestFails \/ ReturnsValue \/ ReturnsDeferred
             \/ ReturnsFiredDeferred \/ ReturnsIgnored
  BY <1>5 DEF AdmitNoMore, RequestFails, ReturnsValue, ReturnsDeferred,
              ReturnsFiredDeferred, ReturnsIgnored, Ends
<1>6. CASE Respond \/ Finally \/ Errback \/ ErrbackDone \/ HandleError
             \/ HandleErrorDone
  BY <1>6 DEF Respond, Finally, Errback, ErrbackDone, HandleError,
              HandleErrorDone, Callbacks
<1>7. CASE FlushDone
  BY <1>7 DEF FlushDone
<1>8. CASE Propagate \/ CatchInCallback \/ FailInExcept \/ FailInErrback
             \/ FailInDataReceived
  BY <1>8 DEF Propagate, CatchInCallback, FailInExcept, FailInErrback,
              FailInDataReceived, Unwinding
<1>9. CASE UNCHANGED vars
  BY <1>9 DEF vars
<1> QED
  BY <1>1, <1>2, <1>3, <1>4, <1>5, <1>6, <1>7, <1>8, <1>9 DEF Next, Step

LEMMA WithheldInit == Init => NothingWithheld
  BY DEF Init, NothingWithheld, HeadAnswered

\* The loop is entered by the only step that answers an entry, and left
\* only when the first entry is not answered.
LEMMA WithheldStep ==
    TypeOK /\ NothingWithheld /\ [Next]_vars => NothingWithheld'
<1> SUFFICES ASSUME TypeOK, NothingWithheld, [Next]_vars
             PROVE  NothingWithheld'
  OBVIOUS
<1>1. CASE Admit
  <2> DEFINE r == Head(inactive)
  <2>1. ~HeadAnswered
    BY <1>1 DEF Admit, NothingWithheld, Running
  <2>2. r \in Req
    BY <1>1, TailFacts DEF Admit, MayAdmit, TypeOK
  <2>3. inreq' = Append(inreq, r) /\ data' = [data EXCEPT ![r] = NoData]
    BY <1>1 DEF Admit, Start
  <2> HIDE DEF r
  <2>4. CASE inreq = <<>>
    <3>1. Head(inreq') = r
      BY <2>2, <2>3, <2>4
    <3> QED
      BY <2>2, <2>3, <3>1 DEF NothingWithheld, HeadAnswered, TypeOK
  <2>5. CASE inreq # <<>>
    <3>1. Head(inreq') = Head(inreq) /\ Head(inreq) \in Req
      BY <2>2, <2>3, <2>5, TailFacts DEF TypeOK
    <3>2. data[Head(inreq)] = NoData
      BY <2>1, <2>5 DEF HeadAnswered
    <3> QED
      BY <2>2, <2>3, <3>1, <3>2 DEF NothingWithheld, HeadAnswered, TypeOK
  <2> QED
    BY <2>4, <2>5
<1>2. CASE Store
  <2>1. ~HeadAnswered
    BY <1>2 DEF Store, NothingWithheld, Running, Data
  <2>2. CASE UNCHANGED data
    BY <1>2, <2>1, <2>2 DEF Store, NothingWithheld, HeadAnswered
  <2>3. CASE Become(Frame("enqueue_outresp_data", Self, "flush"))
             /\ UNCHANGED raised
    <3>1. stack # <<>> /\ ~raised
      BY <1>2 DEF Store, Running
    <3>2. Tail(stack) \in Seq(Frames)
      BY <3>1, TopFrame DEF TypeOK
    <3>3. /\ stack' # <<>>
          /\ Head(stack') = Frame("enqueue_outresp_data", Self, "flush")
      BY <2>3, <3>2 DEF Become
    <3> QED
      BY <2>3, <3>1, <3>3 DEF NothingWithheld, Running, Frame
  <2> QED
    BY <1>2, <2>2, <2>3 DEF Store
<1>3. CASE FlushOne
  BY <1>3 DEF FlushOne, WriteHead, NothingWithheld, Running
<1>4. CASE UNCHANGED <<inreq, data>>
           /\ (HeadAnswered /\ Running("enqueue_outresp_data", "flush")
                  => UNCHANGED vars)
  BY <1>4 DEF NothingWithheld, HeadAnswered, Running, vars, queues
<1> QED
  BY <1>1, <1>2, <1>3, <1>4, FlushActions

-----------------------------------------------------------------------------
(* The theorems about the queues.                                          *)

\* What holds of the queues in every state of every connection.  The order
\* makes the keys unique, which QueuesAgree needs; the types make every
\* queue a queue of requests.
QueueInv == TypeOK /\ FifoPipeline /\ QueuesAgree /\ NothingWithheld

\* The queue invariant is inductive.
THEOREM QueuesCorrect == Spec => []QueueInv
<1>1. Init => QueueInv
  BY TypeInit, FifoInit, WithheldInit DEF QueueInv
<1>2. QueueInv /\ [Next]_vars => QueueInv'
  BY TypeStep, FifoStep, AgreeStep, WithheldStep DEF QueueInv
<1> QED
  BY <1>1, <1>2, PTL DEF Spec

\* Requests and responses are never lost between the queues, reordered or
\* repeated, however process_inactive and the callbacks nest.
THEOREM Fifo == Spec => []FifoPipeline
<1>1. QueueInv => FifoPipeline
  BY DEF QueueInv
<1> QED
  BY <1>1, QueuesCorrect, PTL

\* active_queue mirrors inreq_queue and max_in_queue_size is respected.
THEOREM Agreement == Spec => []QueuesAgree
<1>1. QueueInv => QueuesAgree
  BY DEF QueueInv
<1> QED
  BY <1>1, QueuesCorrect, PTL

\* No response that could be written is left behind.
THEOREM Flushed == Spec => []NothingWithheld
<1>1. QueueInv => NothingWithheld
  BY DEF QueueInv
<1> QED
  BY <1>1, QueuesCorrect, PTL

-----------------------------------------------------------------------------
(* TwistedMsgpack implements OrderedResponses.                             *)

\* Only keys of inreq_queue have a value in it.
DataInv == \A r \in Req : data[r] # NoData => r \in Waiting

LEMMA DataStep ==
    TypeOK /\ FifoPipeline /\ DataInv /\ [Next]_vars => DataInv'
<1> SUFFICES ASSUME TypeOK, FifoPipeline, DataInv, [Next]_vars,
                    NEW r \in Req, data'[r] # NoData
             PROVE  r \in Waiting'
  BY DEF DataInv
<1>1. CASE Admit
  BY <1>1, AdmitFacts DEF DataInv, TypeOK
<1>2. CASE FlushOne
  BY <1>2, FlushFacts DEF DataInv, TypeOK
<1>3. CASE Store
  <2>1. inreq' = inreq
    BY <1>3 DEF Store
  <2>2. r \in Waiting
    BY <1>3 DEF Store, DataInv, TypeOK
  <2> QED
    BY <2>1, <2>2 DEF Waiting
<1>4. CASE UNCHANGED <<inreq, data>>
  BY <1>4 DEF DataInv, Waiting
<1> QED
  BY <1>1, <1>2, <1>3, <1>4, FlushActions

\* The mapping of OrderedResponses!answer.
AbsAnswer == [i \in Req |-> IF i <= Len(wire) THEN wire[i][2] ELSE data[i]]

LEMMA LenType ==
    ASSUME NEW S, NEW s \in Seq(S)
    PROVE  Len(s) \in Nat
  OBVIOUS

\* The lengths of the queues are numbers, before and after a step.
LEMMA Lengths ==
    ASSUME TypeOK
    PROVE  Len(wire) \in Nat /\ Len(inreq) \in Nat /\ Len(inactive) \in Nat
<1>1. wire \in Seq(Req \X Data) /\ inreq \in Seq(Req) /\ inactive \in Seq(Req)
  BY Zenon DEF TypeOK
<1>2. Len(wire) \in Nat
  BY ONLY <1>1, LenType
<1>3. Len(inreq) \in Nat
  BY ONLY <1>1, LenType
<1>4. Len(inactive) \in Nat
  BY ONLY <1>1, LenType
<1> QED
  BY <1>2, <1>3, <1>4, Zenon

LEMMA NextLengths ==
    ASSUME TypeOK'
    PROVE  Len(wire') \in Nat /\ Len(inreq') \in Nat
<1>1. wire' \in Seq(Req \X Data) /\ inreq' \in Seq(Req)
  BY Zenon DEF TypeOK
<1>2. Len(wire') \in Nat
  BY ONLY <1>1, LenType
<1>3. Len(inreq') \in Nat
  BY ONLY <1>1, LenType
<1> QED
  BY <1>2, <1>3, Zenon

\* Reading a message is Receive.
LEMMA ReceiveStep ==
    ASSUME TypeOK, NextMessage
    PROVE  Abs!Receive
<1>1. MaxReq \in Nat
  BY TwistedMsgpackAssumption DEF TwistedMsgpackAssumption
<1>2. next - 1 < MaxReq /\ next' - 1 = (next - 1) + 1
  BY <1>1 DEF TypeOK, NextMessage
<1>3. UNCHANGED <<wire, data>>
  BY DEF NextMessage
<1> QED
  BY <1>2, <1>3 DEF Abs!Receive

\* Filling an entry of inreq_queue is Complete, and a rejected one changes
\* nothing the abstract specification sees.
LEMMA CompleteStep ==
    ASSUME TypeOK, FifoPipeline, Store
    PROVE  (\E i \in Req, a \in Data : Abs!Complete(i, a))
           \/ UNCHANGED <<next, wire, data>>
<1>1. CASE UNCHANGED data
  BY <1>1 DEF Store
<1>2. ASSUME NEW d \in Data, Self \in Waiting, data[Self] = NoData,
             data' = [data EXCEPT ![Self] = d]
      PROVE  Abs!Complete(Self, d)
  <2>1. PICK i \in 1 .. Len(inreq) : inreq[i] = Self
    BY <1>2 DEF Waiting
  <2>2. /\ Len(wire) \in Nat
        /\ Len(inreq) \in Nat
        /\ Len(inactive) \in Nat
        /\ Self \in Req
    <3>1. inreq \in Seq(Req)
      BY Zenon DEF TypeOK
    <3>2. Self \in Req
      BY ONLY <2>1, <3>1
    <3> QED
      BY <3>2, Lengths, Zenon
  <2>3. Self = Len(wire) + i
    BY <2>1 DEF FifoPipeline
  <2>4. Self \in Len(wire) + 1 .. next - 1
    BY <2>1, <2>2, <2>3 DEF FifoPipeline, Req
  <2>5. ~(Self <= Len(wire))
    BY <2>1, <2>2, <2>3
  <2>6. UNCHANGED <<next, wire>>
    BY DEF Store
  <2>7. AbsAnswer[Self] = NoData
    BY <1>2, <2>2, <2>5 DEF AbsAnswer
  <2>8. AbsAnswer' = [AbsAnswer EXCEPT ![Self] = d]
    <3>1. ASSUME NEW q \in Req
          PROVE  AbsAnswer'[q] = [AbsAnswer EXCEPT ![Self] = d][q]
      BY <1>2, <2>2, <2>5, <2>6 DEF AbsAnswer, TypeOK
    <3> QED
      BY <3>1 DEF AbsAnswer
  <2> QED
    BY <2>4, <2>6, <2>7, <2>8 DEF Abs!Complete, AbsAnswer
<1> QED
  BY <1>1, <1>2 DEF Store, Waiting

\* Writing the first entry is Send.
LEMMA SendStep ==
    ASSUME TypeOK, FifoPipeline, FlushOne
    PROVE  Abs!Send
<1> DEFINE k == Head(inreq)
<1>1. /\ k = Len(wire) + 1
      /\ k \in Req
      /\ data[k] \in Data
      /\ data' = [data EXCEPT ![k] = NoData]
  BY FlushFacts
<1>2. /\ wire' = Append(wire, <<k, data[k]>>)
      /\ UNCHANGED next
      /\ inreq # <<>>
  BY DEF FlushOne, WriteHead, HeadAnswered
<1>3. /\ Len(wire) \in Nat
      /\ Len(inreq) \in Nat \ {0}
      /\ Len(inactive) \in Nat
  BY <1>2, TailFacts DEF TypeOK
<1> HIDE DEF k
<1>4. /\ Len(wire') = Len(wire) + 1
      /\ \A i \in 1 .. Len(wire) : wire'[i] = wire[i]
      /\ wire'[Len(wire) + 1] = <<k, data[k]>>
  BY <1>1, <1>2, AppendFacts DEF TypeOK
<1>5. Len(wire) < next - 1
  BY <1>3 DEF FifoPipeline
<1>6. AbsAnswer[Len(wire) + 1] # NoData
  BY <1>1, <1>3, TwistedMsgpackAssumption
  DEF AbsAnswer, TwistedMsgpackAssumption
<1>7. AbsAnswer' = AbsAnswer
  <2>1. ASSUME NEW i \in Req
        PROVE  AbsAnswer'[i] = AbsAnswer[i]
    <3>1. CASE i <= Len(wire)
      BY <1>3, <1>4, <3>1 DEF AbsAnswer, Req
    <3>2. CASE i = Len(wire) + 1
      BY <1>1, <1>3, <1>4, <3>2 DEF AbsAnswer
    <3>3. CASE i > Len(wire) + 1
      BY <1>1, <1>3, <1>4, <3>3 DEF AbsAnswer, TypeOK, Req
    <3> QED
      BY <1>3, <3>1, <3>2, <3>3 DEF Req
  <2> QED
    BY <2>1 DEF AbsAnswer
<1> QED
  BY <1>2, <1>4, <1>5, <1>6, <1>7 DEF Abs!Send, AbsAnswer

\* Admitting a request writes the None of its entry, which changes nothing
\* the abstract specification sees.
LEMMA AdmitStutters ==
    ASSUME TypeOK, FifoPipeline, DataInv, Admit
    PROVE  UNCHANGED <<next, wire, data>>
<1> DEFINE r == Head(inactive)
<1>1. UNCHANGED <<next, wire>>
  BY DEF Admit, Start
<1>2. /\ r \in Req
      /\ r = inactive[1]
      /\ Len(inactive) \in Nat \ {0}
      /\ Len(wire) \in Nat
      /\ Len(inreq) \in Nat
      /\ data' = [data EXCEPT ![r] = NoData]
  <2>1. inactive \in Seq(Req) /\ inactive # <<>>
    BY DEF Admit, MayAdmit, TypeOK
  <2>2. r \in Req /\ r = inactive[1] /\ Len(inactive) \in Nat \ {0}
    BY <2>1, TailFacts
  <2>3. data' = [data EXCEPT ![r] = NoData]
    BY AdmitFacts
  <2> QED
    BY <2>2, <2>3, Lengths
<1> HIDE DEF r
<1>3. r = Len(wire) + Len(inreq) + 1
  BY <1>2 DEF FifoPipeline
<1>4. r \notin Waiting
  <2>1. ASSUME NEW i \in 1 .. Len(inreq) PROVE inreq[i] # r
    BY <1>2, <1>3 DEF FifoPipeline
  <2> QED
    BY <2>1 DEF Waiting
<1>5. data[r] = NoData
  BY <1>2, <1>4 DEF DataInv
<1> QED
  BY <1>1, <1>2, <1>5 DEF TypeOK

\* All other steps leave what the abstract specification sees unchanged.
LEMMA OtherStutters ==
    ASSUME [Next]_vars, ~NextMessage, ~Admit, ~Store, ~FlushOne
    PROVE  UNCHANGED <<next, wire, data>>
  BY PipelineActions, FlushActions DEF pipeline

LEMMA AbsInit == Init => Abs!Init
  BY DEF Init, Abs!Init, Req

LEMMA AbsStep ==
    TypeOK /\ FifoPipeline /\ DataInv /\ [Next]_vars
        => [Abs!Next]_(Abs!vars)
<1> SUFFICES ASSUME TypeOK, FifoPipeline, DataInv, [Next]_vars
             PROVE  [Abs!Next]_(Abs!vars)
  OBVIOUS
<1>1. CASE NextMessage
  BY <1>1, ReceiveStep DEF Abs!Next
<1>2. ASSUME UNCHANGED <<next, wire, data>>
      PROVE  [Abs!Next]_(Abs!vars)
  BY <1>2 DEF Abs!vars
<1>3. CASE Store
  BY <1>2, <1>3, CompleteStep DEF Abs!Next, Req
<1>4. CASE FlushOne
  BY <1>4, SendStep DEF Abs!Next
<1>5. CASE Admit
  BY <1>2, <1>5, AdmitStutters
<1> QED
  BY <1>1, <1>2, <1>3, <1>4, <1>5, OtherStutters

\* Every behaviour of a connection is one of OrderedResponses: answers may
\* be computed in any order and leave in the order of the requests.  (That
\* the next answer is not kept back for ever is liveness and left to TLC.)
THEOREM Implementation == Spec => Abs!Init /\ [][Abs!Next]_(Abs!vars)
<1>1. Init => DataInv
  BY DEF Init, DataInv
<1>2. QueueInv /\ DataInv /\ [Next]_vars => DataInv'
  BY DataStep DEF QueueInv
<1>3. QueueInv /\ DataInv /\ [Next]_vars => [Abs!Next]_(Abs!vars)
  BY AbsStep DEF QueueInv
<1> QED
  BY <1>1, <1>2, <1>3, AbsInit, QueuesCorrect, PTL DEF Spec

-----------------------------------------------------------------------------
(* The frames of the call stack.                                           *)

\* Every frame is for a context or, those of dataReceived and process_inactive, for
\* none, which is 0.
LEMMA StackContexts ==
    ASSUME TypeOK
    PROVE  \A i \in 1 .. Len(stack) : stack[i] \in Frames /\ stack[i].ctx \in Nat
<1>1. stack \in Seq(Frames)
  BY DEF TypeOK
<1>2. Req \subseteq Nat
  BY TwistedMsgpackAssumption DEF Req, TwistedMsgpackAssumption
<1>3. \A f \in Frames : f.ctx \in Nat
  <2>1. \A f \in LoopFrames : f.ctx = 0
    BY DEF LoopFrames
  <2>2. \A f \in CallFrames : f.ctx \in Req
    BY DEF CallFrames
  <2>3. 0 \in Nat
    OBVIOUS
  <2> QED
    BY <1>2, <2>1, <2>2, <2>3, Zenon DEF Frames
<1>4. ASSUME NEW i \in 1 .. Len(stack) PROVE stack[i] \in Frames
  BY <1>1
<1> QED
  BY <1>3, <1>4

\* What follows a return, a jump and a call, frame by frame.
LEMMA ReturnStack ==
    ASSUME stack \in Seq(Frames), stack # <<>>, Return
    PROVE  /\ Len(stack) \in Nat \ {0}
           /\ Len(stack') = Len(stack) - 1
           /\ \A i \in 1 .. Len(stack') : stack'[i] = stack[i + 1]
  BY TailFacts DEF Return

LEMMA BecomeStack ==
    ASSUME stack \in Seq(Frames), stack # <<>>, NEW f \in Frames, Become(f)
    PROVE  /\ Len(stack) \in Nat \ {0}
           /\ Len(stack') = Len(stack)
           /\ stack'[1] = f
           /\ \A i \in 2 .. Len(stack') : stack'[i] = stack[i]
<1>1. /\ Tail(stack) \in Seq(Frames)
      /\ Len(stack) \in Nat \ {0}
      /\ Len(Tail(stack)) = Len(stack) - 1
      /\ \A i \in 1 .. Len(Tail(stack)) : Tail(stack)[i] = stack[i + 1]
  BY TailFacts
<1>2. stack' = <<f>> \o Tail(stack)
  BY DEF Become
<1> QED
  BY <1>1, <1>2

LEMMA CallStack ==
    ASSUME stack \in Seq(Frames), stack # <<>>,
           NEW f \in Frames, NEW at \in Ats, Call(f, at)
    PROVE  /\ Len(stack) \in Nat \ {0}
           /\ Len(stack') = Len(stack) + 1
           /\ stack'[1] = f
           /\ stack'[2] = [stack[1] EXCEPT !.at = at]
           /\ \A i \in 3 .. Len(stack') : stack'[i] = stack[i - 1]
<1> DEFINE g == [Head(stack) EXCEPT !.at = at]
<1>1. /\ Tail(stack) \in Seq(Frames)
      /\ Len(stack) \in Nat \ {0}
      /\ Head(stack) = stack[1]
      /\ Len(Tail(stack)) = Len(stack) - 1
      /\ \A i \in 1 .. Len(Tail(stack)) : Tail(stack)[i] = stack[i + 1]
  BY TailFacts
<1>2. g \in Frames
  BY TopFrame DEF Frames, LoopFrames, CallFrames
<1>3. stack' = <<f, g>> \o Tail(stack)
  BY DEF Call
<1>4. g = [stack[1] EXCEPT !.at = at]
  BY <1>1
<1> HIDE DEF g
<1> QED
  BY <1>1, <1>2, <1>3, <1>4

\* Where a frame is that waits for a call.
Waits == {"processed", "loop", "try", "except", "wait"}

\* The frames that lead to the close of a callback.
Closers == Callbacks \cup {"process_contexts"}

\* The requests that have left inactive_queue.
Admitted == Len(wire) + Len(inreq)

\* Only the innermost frame does not wait, and a frame of process_contexts is
\* innermost.  A context that has a frame was admitted, its Deferred is not
\* pending, and no two of its frames lead to a close.
FramesInv ==
    /\ \A i \in 2 .. Len(stack) :
           stack[i].at \in Waits /\ stack[i].fn # "process_contexts"
    /\ \A i \in 1 .. Len(stack) :
           stack[i].ctx <= Admitted /\ stack[i].ctx \notin pending
    /\ \A i, j \in 1 .. Len(stack) :
           /\ stack[i].fn \in Closers
           /\ stack[j].fn \in Closers
           /\ stack[i].ctx = stack[j].ctx
           => i = j
    /\ \A j \in 2 .. Len(stack) :
           stack[1].fn = "process_contexts" => stack[j].ctx # stack[1].ctx
    /\ \A r \in pending : r <= Admitted

\* No step takes an admission back.
LEMMA AdmittedGrows ==
    ASSUME TypeOK, FifoPipeline, [Next]_vars
    PROVE  Admitted \in Nat /\ Admitted' \in Nat /\ Admitted <= Admitted'
<1>1. TypeOK'
  BY TypeStep
<1>2. /\ Len(wire) \in Nat /\ Len(inreq) \in Nat
      /\ Len(wire') \in Nat /\ Len(inreq') \in Nat
  BY <1>1, Lengths, NextLengths, Zenon
<1>3. CASE Admit
  BY <1>2, <1>3, AdmitFacts DEF Admitted, Admit, Start
<1>4. CASE FlushOne
  <2>1. wire' = Append(wire, <<Head(inreq), data[Head(inreq)]>>)
    BY <1>4 DEF FlushOne, WriteHead
  <2>2. Len(wire') = Len(wire) + 1
    BY <2>1 DEF TypeOK
  <2> QED
    BY <1>2, <1>4, <2>2, FlushFacts DEF Admitted
<1>5. CASE UNCHANGED <<wire, inreq>>
  BY <1>2, <1>5 DEF Admitted
<1>6. CASE NextMessage
  BY <1>2, <1>6 DEF Admitted, NextMessage
<1> QED
  BY <1>3, <1>4, <1>5, <1>6, PipelineActions DEF pipeline

\* Every frame keeps its context, and a caller that was there stays there.
LEMMA FramesReturn ==
    ASSUME TypeOK, FramesInv, stack # <<>>, Return, UNCHANGED pending,
           Admitted \in Nat, Admitted' \in Nat, Admitted <= Admitted'
    PROVE  FramesInv'
<1>1. /\ Len(stack) \in Nat \ {0}
      /\ Len(stack') = Len(stack) - 1
      /\ \A i \in 1 .. Len(stack') : stack'[i] = stack[i + 1]
  BY ReturnStack DEF TypeOK
<1>2. ASSUME NEW i \in 1 .. Len(stack')
      PROVE  i + 1 \in 1 .. Len(stack) /\ i + 1 \in 2 .. Len(stack)
  BY <1>1
<1>3. \A i \in 1 .. Len(stack') : stack'[i].at \in Waits /\ stack'[i].fn # "process_contexts"
  BY <1>1, <1>2 DEF FramesInv
<1>4. ASSUME NEW i \in 1 .. Len(stack')
      PROVE  stack'[i].ctx <= Admitted' /\ stack'[i].ctx \notin pending'
  <2>1. stack[i + 1] \in Frames
    BY <1>2 DEF TypeOK
  <2>2. stack[i + 1].ctx \in Nat
    BY <2>1, TwistedMsgpackAssumption
    DEF Frames, LoopFrames, CallFrames, Req, TwistedMsgpackAssumption
  <2> QED
    BY <1>1, <1>2, <2>2 DEF FramesInv
<1>5. ASSUME NEW i \in 1 .. Len(stack'), NEW j \in 1 .. Len(stack'),
             stack'[i].fn \in Closers, stack'[j].fn \in Closers,
             stack'[i].ctx = stack'[j].ctx
      PROVE  i = j
  <2>1. i + 1 = j + 1
    BY <1>1, <1>2, <1>5 DEF FramesInv
  <2> QED
    BY <1>1, <2>1
<1>6. \A j \in 2 .. Len(stack') :
          stack'[1].fn = "process_contexts" => stack'[j].ctx # stack'[1].ctx
  BY <1>1, <1>3
<1>7. \A r \in pending' : r <= Admitted'
  BY DEF FramesInv, TypeOK, Req
<1> QED
  BY <1>1, <1>3, <1>4, <1>5, <1>6, <1>7 DEF FramesInv

LEMMA FramesBecome ==
    ASSUME TypeOK, FramesInv, stack # <<>>, UNCHANGED pending,
           NEW f \in Frames, Become(f), f.ctx \in {0, Self},
           f.fn # "process_contexts",
           f.fn \in Closers => Head(stack).fn \in Closers /\ f.ctx = Self,
           Admitted \in Nat, Admitted' \in Nat, Admitted <= Admitted'
    PROVE  FramesInv'
<1>1. /\ Len(stack) \in Nat \ {0}
      /\ Len(stack') = Len(stack)
      /\ stack'[1] = f
      /\ \A i \in 2 .. Len(stack') : stack'[i] = stack[i]
      /\ Head(stack) = stack[1]
      /\ 1 \in 1 .. Len(stack)
  BY BecomeStack, TailFacts DEF TypeOK
<1>2. \A i \in 1 .. Len(stack) : stack[i] \in Frames /\ stack[i].ctx \in Nat
  BY StackContexts
<1>3. \A i \in 2 .. Len(stack') : stack'[i].at \in Waits /\ stack'[i].fn # "process_contexts"
  BY <1>1 DEF FramesInv
<1>4. ASSUME NEW i \in 1 .. Len(stack')
      PROVE  stack'[i].ctx <= Admitted' /\ stack'[i].ctx \notin pending'
  <2>1. 0 \notin pending
    BY DEF TypeOK, Req
  <2>2. CASE i = 1
    BY <1>1, <1>2, <2>1, <2>2 DEF FramesInv, Self
  <2>3. CASE i \in 2 .. Len(stack')
    BY <1>1, <1>2, <2>3 DEF FramesInv
  <2> QED
    BY <1>1, <2>2, <2>3
<1>5. ASSUME NEW i \in 1 .. Len(stack'), NEW j \in 1 .. Len(stack'),
             stack'[i].fn \in Closers, stack'[j].fn \in Closers,
             stack'[i].ctx = stack'[j].ctx
      PROVE  i = j
  <2>1. ASSUME NEW k \in 1 .. Len(stack'), stack'[k].fn \in Closers
        PROVE  stack[k].fn \in Closers /\ stack[k].ctx = stack'[k].ctx
    BY <1>1, <2>1 DEF Self
  <2> QED
    BY <1>1, <1>5, <2>1 DEF FramesInv
<1>6. \A r \in pending' : r <= Admitted'
  BY DEF FramesInv, TypeOK, Req
<1> QED
  BY <1>1, <1>3, <1>4, <1>5, <1>6 DEF FramesInv

LEMMA FramesCall ==
    ASSUME TypeOK, FramesInv, stack # <<>>, UNCHANGED pending,
           NEW f \in Frames, NEW at \in Waits, Call(f, at), f.ctx \in {0, Self},
           f.fn \notin Closers, Head(stack).fn # "process_contexts",
           Admitted \in Nat, Admitted' \in Nat, Admitted <= Admitted'
    PROVE  FramesInv'
<1>0. at \in Ats
  BY DEF Waits, Ats
<1>1. /\ Len(stack) \in Nat \ {0}
      /\ Len(stack') = Len(stack) + 1
      /\ stack'[1] = f
      /\ stack'[2] = [stack[1] EXCEPT !.at = at]
      /\ \A i \in 3 .. Len(stack') : stack'[i] = stack[i - 1]
      /\ Head(stack) = stack[1]
      /\ 1 \in 1 .. Len(stack)
  <2>1. stack \in Seq(Frames)
    BY DEF TypeOK
  <2>2. /\ Len(stack) \in Nat \ {0}
        /\ Len(stack') = Len(stack) + 1
        /\ stack'[1] = f
        /\ stack'[2] = [stack[1] EXCEPT !.at = at]
        /\ \A i \in 3 .. Len(stack') : stack'[i] = stack[i - 1]
    BY <1>0, <2>1, CallStack
  <2>3. Head(stack) = stack[1]
    BY <2>1, TailFacts
  <2>4. 1 \in 1 .. Len(stack)
    BY <2>2
  <2> QED
    BY <2>2, <2>3, <2>4
<1>2. \A i \in 1 .. Len(stack) : stack[i] \in Frames /\ stack[i].ctx \in Nat
  BY StackContexts
<1>3. stack'[2].at = at /\ stack'[2].fn = stack[1].fn /\ stack'[2].ctx = stack[1].ctx
  BY <1>1, <1>2 DEF Frames, LoopFrames, CallFrames
<1>4. ASSUME NEW i \in 2 .. Len(stack')
      PROVE  /\ i - 1 \in 1 .. Len(stack)
             /\ stack'[i].fn = stack[i - 1].fn
             /\ stack'[i].ctx = stack[i - 1].ctx
             /\ i # 2 => stack'[i] = stack[i - 1]
  <2>1. i - 1 \in 1 .. Len(stack)
    BY <1>1
  <2>2. CASE i = 2
    <3>1. i - 1 = 1
      BY <2>2
    <3> QED
      BY <1>3, <2>1, <2>2, <3>1
  <2>3. CASE i \in 3 .. Len(stack')
    BY <1>1, <2>1, <2>3
  <2> QED
    BY <1>1, <2>2, <2>3
<1>5. ASSUME NEW i \in 2 .. Len(stack')
      PROVE  stack'[i].at \in Waits /\ stack'[i].fn # "process_contexts"
  <2>1. CASE i = 2
    BY <1>1, <1>3, <2>1
  <2>2. CASE i \in 3 .. Len(stack')
    <3>1. i - 1 \in 2 .. Len(stack)
      BY <1>1, <2>2
    <3> QED
      BY <1>1, <2>2, <3>1 DEF FramesInv
  <2> QED
    BY <1>1, <2>1, <2>2
<1>6. ASSUME NEW i \in 1 .. Len(stack')
      PROVE  stack'[i].ctx <= Admitted' /\ stack'[i].ctx \notin pending'
  <2>1. 0 \notin pending
    BY DEF TypeOK, Req
  <2>2. CASE i = 1
    BY <1>1, <1>2, <2>1, <2>2 DEF FramesInv, Self
  <2>3. CASE i \in 2 .. Len(stack')
    BY <1>2, <1>4, <2>3 DEF FramesInv
  <2> QED
    BY <1>1, <2>2, <2>3
<1>7. ASSUME NEW i \in 1 .. Len(stack'), NEW j \in 1 .. Len(stack'),
             stack'[i].fn \in Closers, stack'[j].fn \in Closers,
             stack'[i].ctx = stack'[j].ctx
      PROVE  i = j
  <2>1. i \in 2 .. Len(stack') /\ j \in 2 .. Len(stack')
    BY <1>1, <1>7
  <2>2. /\ i - 1 \in 1 .. Len(stack) /\ j - 1 \in 1 .. Len(stack)
        /\ stack[i - 1].fn = stack'[i].fn /\ stack[i - 1].ctx = stack'[i].ctx
        /\ stack[j - 1].fn = stack'[j].fn /\ stack[j - 1].ctx = stack'[j].ctx
    BY <1>4, <2>1
  <2>3. i - 1 = j - 1
    BY <1>7, <2>2 DEF FramesInv
  <2> QED
    BY <1>1, <2>3
<1>8. \A r \in pending' : r <= Admitted'
  BY DEF FramesInv, TypeOK, Req
<1>9. stack'[1].fn # "process_contexts"
  BY <1>1 DEF Closers
<1> QED
  BY <1>1, <1>5, <1>6, <1>7, <1>8, <1>9 DEF FramesInv

\* What the reactor calls; the frame at the bottom of the stack is one of it.
Bottoms == {"dataReceived", "_cb_deferred", "_eb_deferred"}

\* What an action does to the stack: the frame that runs returns, gives way to
\* one of the same context, or calls one; no action of these makes a Deferred
\* pending or a frame of process_contexts.
Moves ==
    \/ UNCHANGED <<stack, pending>> /\ (raised' => raised \/ stack # <<>>)
    \/ /\ stack # <<>> /\ Return /\ UNCHANGED pending
       /\ raised' => Head(stack).fn \notin Bottoms
    \/ \E f \in Frames :
          /\ stack # <<>> /\ Become(f) /\ UNCHANGED pending
          /\ f.ctx \in {0, Self} /\ f.fn # "process_contexts"
          /\ Head(stack).fn \in Bottoms => f.fn \in Bottoms
          /\ f.fn \in Closers => Head(stack).fn \in Closers /\ f.ctx = Self
    \/ \E f \in Frames, at \in Waits :
          /\ stack # <<>> /\ Call(f, at) /\ UNCHANGED pending
          /\ f.ctx \in {0, Self} /\ f.fn \notin Closers
          /\ Head(stack).fn # "process_contexts"

LEMMA FrameFields ==
    ASSUME NEW fn, NEW r, NEW at
    PROVE  /\ Frame(fn, r, at).fn = fn
           /\ Frame(fn, r, at).ctx = r
           /\ Frame(fn, r, at).at = at
  BY DEF Frame

\* The four kinds of steps, from the frame that is made.
LEMMA MoveBecome ==
    ASSUME stack # <<>>, NEW f \in Frames, Become(f), UNCHANGED pending,
           f.ctx \in {0, Self}, f.fn # "process_contexts",
           Head(stack).fn \in Bottoms => f.fn \in Bottoms,
           f.fn \in Closers => Head(stack).fn \in Closers /\ f.ctx = Self
    PROVE  Moves
  BY DEF Moves

LEMMA MoveCall ==
    ASSUME stack # <<>>, NEW f \in Frames, NEW at \in Waits, Call(f, at),
           UNCHANGED pending, f.ctx \in {0, Self}, f.fn \notin Closers,
           Head(stack).fn # "process_contexts"
    PROVE  Moves
  BY DEF Moves

\* LeaveCallback runs the errback of the same context or returns.
LEMMA MoveLeave ==
    ASSUME stack \in Seq(Frames), stack # <<>>, Self \in Req,
           Head(stack).fn \in Callbacks, LeaveCallback(Self), UNCHANGED pending
    PROVE  Moves
<1>1. CASE Become(Frame("_eb_deferred", Self, "start"))
  <2>1. Frame("_eb_deferred", Self, "start") \in Frames
    BY CallFrameType DEF Ats
  <2> QED
    BY <1>1, <2>1, FrameFields, MoveBecome DEF Closers, Callbacks, Bottoms
<1>2. CASE Return /\ Head(stack).fn # "_cb_deferred"
  BY <1>2 DEF Moves, Callbacks, Bottoms
<1> QED
  BY <1>1, <1>2 DEF LeaveCallback, Raise

LEMMA StackMoves ==
    ASSUME TypeOK, [Next]_vars, ~Admit, ~ReturnsDeferred,
           \A n \in Req : ~DataReceived(n), \A r \in Req : ~DeferredFires(r)
    PROVE  Moves
<1> USE FrameFields DEF Running, Unwinding, Bottoms
<1>s. stack \in Seq(Frames)
  BY DEF TypeOK
<1>1. CASE IdleTimeout \/ ConnectionLost \/ MalformedMessage \/ FlushOne \/ UNCHANGED vars
  BY <1>1 DEF IdleTimeout, ConnectionLost, MalformedMessage, FlushOne, WriteHead,
              vars, contexts, Moves
<1>2. CASE NextMessage
  BY <1>2, LoopFrameType, MoveCall DEF NextMessage, Ats, Waits, Closers, Callbacks
<1>3. CASE NoMoreMessages \/ AdmitNoMore \/ ReturnsIgnored \/ ErrbackDone
             \/ HandleErrorDone \/ Propagate \/ FailInErrback \/ FailInDataReceived
  BY <1>3 DEF NoMoreMessages, AdmitNoMore, ReturnsIgnored, Ends, Raise, ErrbackDone,
              HandleErrorDone, Propagate, FailInErrback, FailInDataReceived,
              contexts, Moves
<1>4. CASE MessageProcessed
  <2>1. CASE Return
    BY <1>4, <2>1 DEF MessageProcessed, contexts, Moves
  <2>2. CASE Become(Frame("dataReceived", 0, "next"))
    BY <1>4, <2>2, LoopFrameType, MoveBecome
    DEF MessageProcessed, contexts, Ats, Closers, Callbacks
  <2> QED
    BY <1>4, <2>1, <2>2 DEF MessageProcessed
<1>5. CASE RequestFails
  BY <1>s, <1>5, SelfType, CallFrameType, MoveBecome
  DEF RequestFails, Ends, Ats, Closers, Callbacks
<1>6. CASE ReturnsValue
  BY <1>s, <1>6, SelfType, CallFrameType, MoveBecome
  DEF ReturnsValue, Ends, contexts, Ats, Closers, Callbacks
<1>7. CASE ReturnsFiredDeferred
  <2>1. PICK fn \in {"_cb_deferred", "_eb_deferred"} : Become(Frame(fn, Self, "start"))
    BY <1>7 DEF ReturnsFiredDeferred
  <2>2. Frame(fn, Self, "start") \in Frames
    BY <1>s, <1>7, SelfType, CallFrameType DEF ReturnsFiredDeferred, Ends, Ats
  <2> QED
    BY <1>7, <2>1, <2>2, MoveBecome
    DEF ReturnsFiredDeferred, Ends, contexts, Closers, Callbacks
<1>8. CASE Respond
  <2>0. /\ stack # <<>> /\ Head(stack).fn \in Callbacks /\ Self \in Req
        /\ UNCHANGED pending
    BY <1>s, <1>8, SelfType DEF Respond, Callbacks, contexts
  <2>1. CASE Call(Frame("handle_error", Self, "start"), "except")
    BY <2>0, <2>1, CallFrameType, MoveCall DEF Ats, Waits, Closers, Callbacks
  <2>2. CASE Call(Frame("enqueue_outresp_data", Self, "result"), "try")
    BY <2>0, <2>2, CallFrameType, MoveCall DEF Ats, Waits, Closers, Callbacks
  <2> QED
    BY <1>8, <2>1, <2>2 DEF Respond
<1>9. CASE Finally
  <2>1. /\ stack # <<>> /\ Head(stack).fn \in Callbacks /\ Self \in Req
        /\ ~raised /\ UNCHANGED pending
    BY <1>s, <1>9, SelfType DEF Finally, Callbacks
  <2>2. CASE LeaveCallback(Self)
    BY <1>s, <2>1, <2>2, MoveLeave
  <2>3. CASE Return /\ UNCHANGED raised
    BY <2>1, <2>3 DEF Moves
  <2> QED
    BY <1>9, <2>2, <2>3 DEF Finally
<1>10. CASE Errback
  <2>0. /\ stack # <<>> /\ Head(stack).fn = "_eb_deferred" /\ Self \in Req
        /\ UNCHANGED pending
    BY <1>s, <1>10, SelfType DEF Errback
  <2>1. Call(Frame("handle_error", Self, "start"), "wait")
    BY <1>10 DEF Errback
  <2> QED
    BY <2>0, <2>1, CallFrameType, MoveCall DEF Ats, Waits, Closers, Callbacks
<1>11. CASE HandleError
  <2>0. /\ stack # <<>> /\ Head(stack).fn = "handle_error" /\ Self \in Req
        /\ UNCHANGED pending
    BY <1>s, <1>11, SelfType DEF HandleError, contexts
  <2>1. CASE Return
    BY <2>0, <2>1 DEF Moves
  <2>2. CASE Call(Frame("enqueue_outresp_data", Self, "error"), "wait")
    BY <2>0, <2>2, CallFrameType, MoveCall DEF Ats, Waits, Closers, Callbacks
  <2>3. CASE Become(Frame("handle_error", Self, "wait"))
    BY <2>0, <2>3, CallFrameType, MoveBecome DEF Ats, Closers, Callbacks
  <2> QED
    BY <1>11, <2>1, <2>2, <2>3 DEF HandleError, Raise
<1>12. CASE Store
  <2>0. /\ stack # <<>> /\ Head(stack).fn = "enqueue_outresp_data"
        /\ Self \in Req /\ UNCHANGED pending
    BY <1>s, <1>12, SelfType DEF Store, contexts
  <2>1. CASE Become(Frame("enqueue_outresp_data", Self, "flush"))
    BY <2>0, <2>1, CallFrameType, MoveBecome DEF Ats, Closers, Callbacks
  <2>2. CASE Return
    BY <2>0, <2>2 DEF Moves
  <2> QED
    BY <1>12, <2>1, <2>2 DEF Store, Raise
<1>13. CASE FlushDone
  BY <1>13, LoopFrameType, MoveBecome DEF FlushDone, contexts, Ats, Closers, Callbacks
<1>14. CASE CatchInCallback
  <2>0. /\ stack # <<>> /\ Head(stack).fn \in Callbacks /\ Self \in Req
        /\ UNCHANGED pending
    BY <1>s, <1>14, SelfType DEF CatchInCallback, Callbacks, contexts
  <2> QED
    BY <1>14, <2>0, CallFrameType, MoveCall
    DEF CatchInCallback, Ats, Waits, Closers, Callbacks
<1>15. CASE FailInExcept
  <2>1. /\ stack # <<>> /\ Head(stack).fn \in Callbacks /\ Self \in Req
        /\ UNCHANGED pending
    BY <1>s, <1>15, SelfType DEF FailInExcept, Callbacks
  <2> QED
    BY <1>s, <1>15, <2>1, MoveLeave DEF FailInExcept
<1> QED
  BY <1>1, <1>2, <1>3, <1>4, <1>5, <1>6, <1>7, <1>8, <1>9, <1>10, <1>11, <1>12,
     <1>13, <1>14, <1>15
  DEF Next, Step

LEMMA FramesInit == Init => FramesInv
  BY DEF Init, FramesInv

\* A callback of the reactor starts with a single frame.
LEMMA FramesSingle ==
    ASSUME NEW f \in Frames, stack' = <<f>>, f.ctx <= Admitted',
           f.ctx \notin pending', \A r \in pending' : r <= Admitted'
    PROVE  FramesInv'
  BY DEF FramesInv

LEMMA FramesStep ==
    TypeOK /\ FifoPipeline /\ FramesInv /\ [Next]_vars => FramesInv'
<1> SUFFICES ASSUME TypeOK, FifoPipeline, FramesInv, [Next]_vars
             PROVE  FramesInv'
  OBVIOUS
<1>a. Admitted \in Nat /\ Admitted' \in Nat /\ Admitted <= Admitted'
  BY AdmittedGrows
<1>1. CASE Moves
  <2>1. CASE UNCHANGED <<stack, pending>>
    <3>1. \A i \in 1 .. Len(stack) : stack[i].ctx \in Nat
      BY TwistedMsgpackAssumption
      DEF TypeOK, Frames, LoopFrames, CallFrames, Req, TwistedMsgpackAssumption
    <3>2. \A i \in 1 .. Len(stack) : stack[i].ctx <= Admitted'
      BY <1>a, <3>1 DEF FramesInv
    <3>3. \A r \in pending : r <= Admitted'
      BY <1>a DEF FramesInv, TypeOK, Req
    <3> QED
      BY <2>1, <3>2, <3>3 DEF FramesInv
  <2>2. CASE stack # <<>> /\ Return /\ UNCHANGED pending
    BY <1>a, <2>2, FramesReturn
  <2>3. ASSUME NEW f \in Frames, stack # <<>>, Become(f), UNCHANGED pending,
               f.ctx \in {0, Self}, f.fn # "process_contexts",
               f.fn \in Closers => Head(stack).fn \in Closers /\ f.ctx = Self
        PROVE  FramesInv'
    BY <1>a, <2>3, FramesBecome
  <2>4. ASSUME NEW f \in Frames, NEW at \in Waits, stack # <<>>, Call(f, at),
               UNCHANGED pending, f.ctx \in {0, Self}, f.fn \notin Closers,
               Head(stack).fn # "process_contexts"
        PROVE  FramesInv'
    BY <1>a, <2>4, FramesCall
  <2> QED
    BY <1>1, <2>1, <2>2, <2>3, <2>4 DEF Moves
<1>2. ASSUME NEW n \in Req, DataReceived(n)
      PROVE  FramesInv'
  <2>1. Frame("dataReceived", 0, "next") \in Frames
    BY LoopFrameType DEF Ats
  <2>2. stack' = <<Frame("dataReceived", 0, "next")>> /\ UNCHANGED pending
    BY <1>2 DEF DataReceived, contexts
  <2>3. 0 \notin pending /\ \A r \in pending : r <= Admitted'
    BY <1>a DEF FramesInv, TypeOK, Req
  <2> QED
    BY <1>a, <2>1, <2>2, <2>3, FrameFields, FramesSingle
<1>3. ASSUME NEW r \in Req, DeferredFires(r)
      PROVE  FramesInv'
  <2>1. PICK fn \in {"_cb_deferred", "_eb_deferred"} : stack' = <<Frame(fn, r, "start")>>
    BY <1>3 DEF DeferredFires
  <2>2. Frame(fn, r, "start") \in Frames
    BY CallFrameType DEF Ats
  <2>3. r \in pending /\ pending' = pending \ {r}
    BY <1>3 DEF DeferredFires
  <2>4. \A q \in pending : q <= Admitted'
    BY <1>a DEF FramesInv, TypeOK, Req
  <2> QED
    BY <2>1, <2>2, <2>3, <2>4, FrameFields, FramesSingle
<1>4. CASE ReturnsDeferred
  <2>1. /\ stack # <<>> /\ Head(stack).fn = "process_contexts"
        /\ Return /\ pending' = pending \cup {Self}
    BY <1>4 DEF ReturnsDeferred, Ends, Running
  <2>2. /\ Len(stack) \in Nat \ {0}
        /\ Len(stack') = Len(stack) - 1
        /\ \A i \in 1 .. Len(stack') : stack'[i] = stack[i + 1]
        /\ Head(stack) = stack[1]
    BY <2>1, ReturnStack, TailFacts DEF TypeOK
  <2>3. \A i \in 1 .. Len(stack) : stack[i] \in Frames /\ stack[i].ctx \in Nat
    BY StackContexts
  <2>4. ASSUME NEW i \in 1 .. Len(stack')
        PROVE  /\ i + 1 \in 1 .. Len(stack)
               /\ i + 1 \in 2 .. Len(stack)
               /\ stack'[i] = stack[i + 1]
    BY <2>2
  <2>5. ASSUME NEW i \in 1 .. Len(stack')
        PROVE  stack'[i].ctx <= Admitted' /\ stack'[i].ctx \notin pending'
    <3>1. stack'[i] = stack[i + 1] /\ i + 1 \in 1 .. Len(stack) /\ i + 1 \in 2 .. Len(stack)
      BY <2>4
    <3>2. stack[i + 1].ctx <= Admitted /\ stack[i + 1].ctx \notin pending
      BY <1>a, <3>1 DEF FramesInv
    <3>3. stack[i + 1].ctx # Self
      BY <1>a, <2>1, <2>2, <3>1 DEF FramesInv, Self
    <3>4. stack'[i].ctx <= Admitted'
      BY <1>a, <2>3, <3>1, <3>2
    <3> QED
      BY <2>1, <3>1, <3>2, <3>3, <3>4
  <2>6. ASSUME NEW i \in 1 .. Len(stack'), NEW j \in 1 .. Len(stack'),
               stack'[i].fn \in Closers, stack'[j].fn \in Closers,
               stack'[i].ctx = stack'[j].ctx
        PROVE  i = j
    <3>1. i + 1 = j + 1
      BY <2>4, <2>6 DEF FramesInv
    <3> QED
      BY <2>2, <3>1
  <2>7. \A i \in 1 .. Len(stack') : stack'[i].at \in Waits /\ stack'[i].fn # "process_contexts"
    BY <2>4 DEF FramesInv
  <2>8. \A q \in pending' : q <= Admitted'
    BY <1>a, <2>1, <2>2, <2>3 DEF FramesInv, TypeOK, Req, Self
  <2>9. ASSUME NEW j \in 2 .. Len(stack')
        PROVE  stack'[1].fn # "process_contexts"
    <3>1. 1 \in 1 .. Len(stack')
      BY <2>2
    <3> QED
      BY <2>7, <3>1
  <2>10. \A i \in 2 .. Len(stack') :
             stack'[i].at \in Waits /\ stack'[i].fn # "process_contexts"
    <3>1. \A i \in 2 .. Len(stack') : i \in 1 .. Len(stack')
      BY <2>2
    <3> QED
      BY <2>7, <3>1
  <2> QED
    BY <2>5, <2>6, <2>8, <2>9, <2>10 DEF FramesInv
<1>5. CASE Admit
  <2> DEFINE r == Head(inactive)
             f == Frame("process_contexts", r, "start")
  <2>1. /\ r \in Req /\ inreq' = Append(inreq, r) /\ UNCHANGED <<wire, pending>>
        /\ Call(f, "loop") /\ stack # <<>>
        /\ Head(stack).fn = "process_inactive"
    BY <1>5, AdmitFacts DEF Admit, Start, Running, contexts
  <2>2. r = Admitted + 1 /\ Admitted' = Admitted + 1
    <3>1. /\ Len(inactive) \in Nat \ {0} /\ r = inactive[1]
          /\ Len(wire) \in Nat /\ Len(inreq) \in Nat
      BY <1>5, TailFacts DEF TypeOK, Admit, MayAdmit
    <3>2. inactive[1] = Len(wire) + Len(inreq) + 1
      BY <3>1 DEF FifoPipeline
    <3> HIDE DEF r
    <3> QED
      BY <2>1, <3>1, <3>2 DEF Admitted, TypeOK
  <2>3. f \in Frames /\ f.fn = "process_contexts" /\ f.ctx = r
    BY <2>1, CallFrameType, FrameFields DEF Ats
  <2> HIDE DEF r, f
  <2>4. /\ Len(stack) \in Nat \ {0}
        /\ Len(stack') = Len(stack) + 1
        /\ stack'[1] = f
        /\ stack'[2] = [stack[1] EXCEPT !.at = "loop"]
        /\ \A i \in 3 .. Len(stack') : stack'[i] = stack[i - 1]
        /\ Head(stack) = stack[1]
    BY <2>1, <2>3, CallStack, TailFacts DEF TypeOK, Ats
  <2>5. \A i \in 1 .. Len(stack) : stack[i] \in Frames /\ stack[i].ctx \in Nat
    BY StackContexts
  <2>6. ASSUME NEW i \in 2 .. Len(stack')
        PROVE  /\ i - 1 \in 1 .. Len(stack)
               /\ stack'[i].fn = stack[i - 1].fn
               /\ stack'[i].ctx = stack[i - 1].ctx
               /\ stack'[i].at \in Waits
               /\ stack'[i].fn # "process_contexts"
    <3>1. i - 1 \in 1 .. Len(stack)
      BY <2>4
    <3>2. CASE i = 2
      <4>1. i - 1 = 1
        BY <3>2
      <4>2. stack[1] \in Frames
        BY <2>4, <2>5
      <4>3. /\ stack'[2].fn = stack[1].fn
            /\ stack'[2].ctx = stack[1].ctx
            /\ stack'[2].at = "loop"
        BY <2>4, <4>2 DEF Frames, LoopFrames, CallFrames
      <4> QED
        BY <2>1, <2>4, <3>1, <3>2, <4>1, <4>3 DEF Waits
    <3>3. CASE i \in 3 .. Len(stack')
      <4>1. i - 1 \in 2 .. Len(stack) /\ stack'[i] = stack[i - 1]
        BY <2>4, <3>3
      <4> QED
        BY <3>1, <4>1 DEF FramesInv
    <3> QED
      BY <2>4, <3>2, <3>3
  <2>7. \A q \in pending : q <= Admitted /\ q \in Nat
    BY DEF FramesInv, TypeOK, Req
  <2>8. ASSUME NEW i \in 2 .. Len(stack')
        PROVE  stack'[i].ctx <= Admitted /\ stack'[i].ctx \in Nat /\ stack'[i].ctx \notin pending
    BY <2>5, <2>6 DEF FramesInv
  <2>9. ASSUME NEW i \in 1 .. Len(stack'), NEW j \in 1 .. Len(stack'),
               stack'[i].fn \in Closers, stack'[j].fn \in Closers,
               stack'[i].ctx = stack'[j].ctx
        PROVE  i = j
    <3>1. i = 1 <=> j = 1
      BY <1>a, <2>2, <2>3, <2>4, <2>8, <2>9
    <3>2. CASE i # 1 /\ j # 1
      <4>1. i \in 2 .. Len(stack') /\ j \in 2 .. Len(stack')
        BY <2>4, <3>2
      <4>2. i - 1 = j - 1
        BY <2>6, <2>9, <4>1 DEF FramesInv
      <4> QED
        BY <2>4, <4>2
    <3> QED
      BY <3>1, <3>2
  <2>10. ASSUME NEW i \in 1 .. Len(stack')
         PROVE  stack'[i].ctx <= Admitted' /\ stack'[i].ctx \notin pending'
    <3>1. CASE i = 1
      BY <1>a, <2>1, <2>2, <2>3, <2>4, <2>7, <3>1
    <3>2. CASE i \in 2 .. Len(stack')
      BY <1>a, <2>1, <2>8, <3>2
    <3> QED
      BY <2>4, <3>1, <3>2
  <2>11. \A j \in 2 .. Len(stack') : stack'[j].ctx # stack'[1].ctx
    BY <1>a, <2>2, <2>3, <2>4, <2>8
  <2>12. \A q \in pending' : q <= Admitted'
    BY <1>a, <2>1, <2>7
  <2> QED
    BY <2>6, <2>9, <2>10, <2>11, <2>12 DEF FramesInv
<1> QED
  BY <1>1, <1>2, <1>3, <1>4, <1>5, StackMoves

-----------------------------------------------------------------------------
(* Closing contexts.                                                       *)

\* Contexts are closed by the flush and by the end of a callback only.
LEMMA CloseActions ==
    ASSUME [Next]_vars, ~NextMessage, ~Finally, ~FailInExcept, ~FlushOne
    PROVE  UNCHANGED <<closes, open>>
<1> USE DEF contexts
<1>1. ASSUME NEW n \in Req, DataReceived(n)
      PROVE  UNCHANGED <<closes, open>>
  BY <1>1 DEF DataReceived
<1>2. ASSUME NEW r \in Req, DeferredFires(r)
      PROVE  UNCHANGED <<closes, open>>
  BY <1>2 DEF DeferredFires
<1>3. CASE IdleTimeout \/ ConnectionLost
  BY <1>3 DEF IdleTimeout, ConnectionLost
<1>4. CASE MalformedMessage \/ NoMoreMessages \/ MessageProcessed \/ Admit
  BY <1>4 DEF MalformedMessage, NoMoreMessages, MessageProcessed, Admit, Start
<1>5. CASE AdmitNoMore \/ RequestFails \/ ReturnsValue \/ ReturnsDeferred
             \/ ReturnsFiredDeferred \/ ReturnsIgnored
  BY <1>5 DEF AdmitNoMore, RequestFails, ReturnsValue, ReturnsDeferred,
              ReturnsFiredDeferred, ReturnsIgnored
<1>6. CASE Respond \/ Errback \/ ErrbackDone \/ HandleError \/ HandleErrorDone
  BY <1>6 DEF Respond, Errback, ErrbackDone, HandleError, HandleErrorDone
<1>7. CASE Store \/ FlushDone
  BY <1>7 DEF Store, FlushDone
<1>8. CASE Propagate \/ CatchInCallback \/ FailInErrback \/ FailInDataReceived
  BY <1>8 DEF Propagate, CatchInCallback, FailInErrback, FailInDataReceived
<1>9. CASE UNCHANGED vars
  BY <1>9 DEF vars
<1> QED
  BY <1>1, <1>2, <1>3, <1>4, <1>5, <1>6, <1>7, <1>8, <1>9 DEF Next, Step

\* A callback that ends closes the context of its own frame.
LEMMA CallbackCloses ==
    ASSUME TypeOK, Finally \/ FailInExcept
    PROVE  /\ stack # <<>> /\ stack[1] = Head(stack)
           /\ Head(stack).fn \in Callbacks /\ Self \in Req
           /\ Close(Self)
           /\ Return \/ Become(Frame("_eb_deferred", Self, "start"))
           /\ UNCHANGED <<wire, inreq, inactive, next, data, pending>>
  BY SelfType, TailFacts
  DEF Finally, FailInExcept, TypeOK, Running, Unwinding, Callbacks, queues,
      LeaveCallback, Raise

\* How often the flush has closed a context.
Sent(r) == IF r <= Len(wire) THEN 1 ELSE 0

\* A context may still be closed by a callback.
WillClose(r) ==
    \/ r > Admitted
    \/ r \in pending
    \/ \E i \in 1 .. Len(stack) : stack[i].ctx = r /\ stack[i].fn \in Closers

\* The flush closes a context once, and so does the one callback it has.
ClosesInv ==
    \A r \in Req :
        \/ closes[r] = Sent(r)
        \/ closes[r] = Sent(r) + 1 /\ ~WillClose(r)

\* A context that a callback has been through does not come back to one.
LEMMA WillCloseShrinks ==
    ASSUME TypeOK, FifoPipeline, FramesInv, [Next]_vars,
           NEW r \in Req, WillClose(r)'
    PROVE  WillClose(r)
<1>a. Admitted \in Nat /\ Admitted' \in Nat /\ Admitted <= Admitted' /\ r \in Nat
  BY AdmittedGrows, TwistedMsgpackAssumption DEF Req, TwistedMsgpackAssumption
<1>1. CASE r > Admitted'
  BY <1>a, <1>1 DEF WillClose
<1>2. CASE r \in pending'
  <2>1. CASE UNCHANGED pending
    BY <1>2, <2>1 DEF WillClose
  <2>2. CASE ReturnsDeferred
    <3>1. /\ stack # <<>> /\ Head(stack).fn = "process_contexts"
          /\ pending' = pending \cup {Self}
      BY <2>2 DEF ReturnsDeferred, Ends, Running
    <3>2. 1 \in 1 .. Len(stack) /\ Head(stack) = stack[1]
      BY <3>1, TailFacts DEF TypeOK
    <3> QED
      BY <1>2, <3>1, <3>2 DEF WillClose, Closers, Self
  <2>3. ASSUME NEW q \in Req, DeferredFires(q)
        PROVE  r \in pending
    BY <1>2, <2>3 DEF DeferredFires
  <2>4. CASE Admit
    BY <1>2, <2>4 DEF Admit, Start, contexts, WillClose
  <2>5. ASSUME NEW n \in Req, DataReceived(n)
        PROVE  r \in pending
    BY <1>2, <2>5 DEF DataReceived, contexts
  <2> QED
    BY <2>1, <2>2, <2>3, <2>4, <2>5, StackMoves DEF Moves, WillClose
<1>3. ASSUME NEW i \in 1 .. Len(stack'),
             stack'[i].ctx = r, stack'[i].fn \in Closers
      PROVE  WillClose(r)
  <2>s. stack \in Seq(Frames)
    BY DEF TypeOK
  <2>1. CASE UNCHANGED stack
    BY <1>3, <2>1 DEF WillClose
  <2>2. CASE stack # <<>> /\ Return
    <3>1. i + 1 \in 1 .. Len(stack) /\ stack'[i] = stack[i + 1]
      BY <2>s, <2>2, ReturnStack
    <3> QED
      BY <1>3, <3>1 DEF WillClose
  <2>3. ASSUME NEW f \in Frames, stack # <<>>, Become(f),
               f.fn \in Closers => Head(stack).fn \in Closers /\ f.ctx = Self
        PROVE  WillClose(r)
    <3>1. /\ Len(stack) \in Nat \ {0}
          /\ Len(stack') = Len(stack) /\ stack'[1] = f /\ Head(stack) = stack[1]
          /\ \A k \in 2 .. Len(stack') : stack'[k] = stack[k]
      BY <2>s, <2>3, BecomeStack, TailFacts
    <3>2. CASE i = 1
      BY <1>3, <2>3, <3>1, <3>2 DEF WillClose, Self
    <3>3. CASE i \in 2 .. Len(stack')
      BY <1>3, <3>1, <3>3 DEF WillClose
    <3> QED
      BY <3>1, <3>2, <3>3
  <2>4. ASSUME NEW f \in Frames, NEW at \in Waits, stack # <<>>, Call(f, at),
               f.fn \notin Closers \/ r > Admitted \/ f.ctx > Admitted
        PROVE  WillClose(r)
    <3>0. at \in Ats
      BY DEF Waits, Ats
    <3>1. /\ Len(stack) \in Nat \ {0}
          /\ Len(stack') = Len(stack) + 1 /\ stack'[1] = f
          /\ stack'[2] = [stack[1] EXCEPT !.at = at]
          /\ \A k \in 3 .. Len(stack') : stack'[k] = stack[k - 1]
      BY <2>s, <2>4, <3>0, CallStack
    <3>a. 1 \in 1 .. Len(stack) /\ stack[1] \in Frames
      BY <2>s, <3>1
    <3>2. CASE i = 1
      BY <1>3, <2>4, <3>1, <3>2 DEF WillClose
    <3>3. CASE i = 2
      <4>1. stack'[2].fn = stack[1].fn /\ stack'[2].ctx = stack[1].ctx
        BY <3>1, <3>a DEF Frames, LoopFrames, CallFrames
      <4> QED
        BY <1>3, <3>3, <3>a, <4>1 DEF WillClose
    <3>4. CASE i \in 3 .. Len(stack')
      <4>1. i - 1 \in 1 .. Len(stack) /\ stack'[i] = stack[i - 1]
        BY <3>1, <3>4
      <4> QED
        BY <1>3, <4>1 DEF WillClose
    <3> QED
      BY <3>1, <3>2, <3>3, <3>4
  <2>5. CASE Admit
    <3> DEFINE q == Head(inactive)
    <3>1. /\ q \in Req /\ Call(Frame("process_contexts", q, "start"), "loop")
          /\ stack # <<>>
      BY <2>5, AdmitFacts DEF Admit, Start, Running
    <3>2. q > Admitted
      <4>1. /\ Len(inactive) \in Nat \ {0} /\ q = inactive[1]
            /\ Len(wire) \in Nat /\ Len(inreq) \in Nat
        <5>1. inactive \in Seq(Req) /\ inactive # <<>>
          BY <2>5 DEF TypeOK, Admit, MayAdmit
        <5>2. Len(inactive) \in Nat \ {0} /\ q = inactive[1]
          BY <5>1, TailFacts
        <5> QED
          BY <5>2, Lengths
      <4>2. inactive[1] = Len(wire) + Len(inreq) + 1
        BY <4>1 DEF FifoPipeline
      <4> HIDE DEF q
      <4> QED
        BY <4>1, <4>2 DEF Admitted
    <3>3. Frame("process_contexts", q, "start") \in Frames
      BY <3>1, CallFrameType DEF Ats
    <3> HIDE DEF q
    <3> QED
      BY <2>4, <3>1, <3>2, <3>3, FrameFields DEF Waits
  <2>6. CASE ReturnsDeferred
    BY <2>2, <2>6 DEF ReturnsDeferred, Ends, Running
  <2>7. ASSUME NEW n \in Req, DataReceived(n)
        PROVE  FALSE
    <3>1. stack' = <<Frame("dataReceived", 0, "next")>>
      BY <2>7 DEF DataReceived
    <3>2. stack'[i].fn = "dataReceived"
      BY <3>1, FrameFields
    <3> QED
      BY <1>3, <3>2 DEF Closers, Callbacks
  <2>8. ASSUME NEW q \in Req, DeferredFires(q)
        PROVE  WillClose(r)
    <3>1. PICK fn \in {"_cb_deferred", "_eb_deferred"} : stack' = <<Frame(fn, q, "start")>>
      BY <2>8 DEF DeferredFires
    <3>2. stack'[i].ctx = q
      BY <3>1, FrameFields
    <3> QED
      BY <1>3, <2>8, <3>2 DEF DeferredFires, WillClose
  <2> QED
    BY <2>1, <2>2, <2>3, <2>4, <2>5, <2>6, <2>7, <2>8, StackMoves DEF Moves
<1> QED
  BY <1>1, <1>2, <1>3 DEF WillClose

LEMMA ClosesInit == Init => ClosesInv
  BY TwistedMsgpackAssumption
  DEF Init, ClosesInv, Sent, Req, TwistedMsgpackAssumption

LEMMA ClosesStep ==
    TypeOK /\ FifoPipeline /\ FramesInv /\ ClosesInv /\ [Next]_vars => ClosesInv'
<1> SUFFICES ASSUME TypeOK, FifoPipeline, FramesInv, ClosesInv, [Next]_vars,
                    NEW r \in Req
             PROVE  \/ closes'[r] = Sent(r)'
                    \/ closes'[r] = Sent(r)' + 1 /\ ~WillClose(r)'
  BY DEF ClosesInv
<1>a. WillClose(r)' => WillClose(r)
  BY WillCloseShrinks
<1>b. /\ closes \in [Req -> Nat] /\ Len(wire) \in Nat /\ r \in Nat
      /\ Sent(r) \in Nat
  BY TwistedMsgpackAssumption DEF TypeOK, Sent, Req, TwistedMsgpackAssumption
<1>c. \/ closes[r] = Sent(r)
      \/ closes[r] = Sent(r) + 1 /\ ~WillClose(r)
  BY DEF ClosesInv
<1>1. CASE FlushOne
  <2> DEFINE k == Head(inreq)
  <2>1. k = Len(wire) + 1 /\ k \in Req
    BY <1>1, FlushFacts
  <2>2. wire' = Append(wire, <<k, data[k]>>) /\ closes' = [closes EXCEPT ![k] = @ + 1]
    BY <1>1 DEF FlushOne, WriteHead, Close
  <2>3. Len(wire') = Len(wire) + 1
    BY <2>2 DEF TypeOK
  <2> HIDE DEF k
  <2>4. CASE r = k
    BY <1>a, <1>b, <1>c, <2>1, <2>2, <2>3, <2>4 DEF Sent
  <2>5. CASE r # k
    BY <1>a, <1>b, <1>c, <2>1, <2>2, <2>3, <2>5 DEF Sent
  <2> QED
    BY <2>4, <2>5
<1>2. CASE Finally \/ FailInExcept
  <2>1. /\ stack # <<>> /\ stack[1] = Head(stack)
        /\ Head(stack).fn \in Callbacks /\ Self \in Req
        /\ closes' = [closes EXCEPT ![Self] = @ + 1]
        /\ Return \/ Become(Frame("_eb_deferred", Self, "start"))
        /\ UNCHANGED <<wire, inreq, pending>>
    BY <1>2, CallbackCloses DEF Close
  <2>2. CASE r # Self
    BY <1>a, <1>c, <2>1, <2>2 DEF Sent
  <2>3. CASE r = Self
    <3>1. 1 \in 1 .. Len(stack) /\ stack[1].ctx = r /\ stack[1].fn \in Closers
      BY <2>1, <2>3, TailFacts DEF TypeOK, Self, Closers
    <3>2. WillClose(r)
      BY <3>1 DEF WillClose
    <3>3. r <= Admitted /\ r \notin pending
      BY <3>1 DEF FramesInv
    <3>4. ASSUME NEW i \in 1 .. Len(stack'), stack'[i].ctx = r
          PROVE  stack'[i].fn \notin Closers
      <4>1. CASE Return
        <5>1. i + 1 \in 2 .. Len(stack) /\ stack'[i] = stack[i + 1]
          BY <2>1, <4>1, ReturnStack DEF TypeOK
        <5> QED
          BY <3>1, <3>4, <5>1 DEF FramesInv
      <4>2. CASE Become(Frame("_eb_deferred", Self, "start"))
        <5>1. Frame("_eb_deferred", Self, "start") \in Frames
          BY <2>1, CallFrameType DEF Ats
        <5>2. /\ Len(stack) \in Nat \ {0} /\ Len(stack') = Len(stack)
              /\ stack'[1] = Frame("_eb_deferred", Self, "start")
              /\ \A k \in 2 .. Len(stack') : stack'[k] = stack[k]
          BY <2>1, <4>2, <5>1, BecomeStack DEF TypeOK
        <5>3. CASE i = 1
          BY <5>2, <5>3, FrameFields DEF Closers, Callbacks
        <5>4. CASE i \in 2 .. Len(stack')
          BY <3>1, <3>4, <5>2, <5>4 DEF FramesInv
        <5> QED
          BY <5>2, <5>3, <5>4
      <4> QED
        BY <2>1, <4>1, <4>2
    <3>5. ~WillClose(r)'
      <4>1. Admitted' = Admitted /\ Admitted \in Nat
        BY <2>1 DEF Admitted, TypeOK
      <4> QED
        BY <1>b, <2>1, <3>3, <3>4, <4>1 DEF WillClose
    <3> QED
      BY <1>b, <1>c, <2>1, <2>3, <3>2, <3>5 DEF Sent
  <2> QED
    BY <2>2, <2>3
<1>3. CASE UNCHANGED <<closes, wire>>
  BY <1>a, <1>c, <1>3 DEF Sent
<1>4. CASE NextMessage
  BY <1>a, <1>c, <1>4 DEF NextMessage, Sent
<1>5. CASE Admit
  BY <1>a, <1>c, <1>5 DEF Admit, Start, contexts, Sent
<1> QED
  BY <1>1, <1>2, <1>3, <1>4, <1>5, CloseActions, PipelineActions DEF pipeline

\* What holds of the frames and the closes beside the queues.
StackInv == QueueInv /\ FramesInv /\ ClosesInv

THEOREM FramesCorrect == Spec => []StackInv
<1>1. Init => FramesInv /\ ClosesInv
  BY FramesInit, ClosesInit
<1>2. QueueInv /\ FramesInv /\ ClosesInv /\ [Next]_vars => FramesInv' /\ ClosesInv'
  BY FramesStep, ClosesStep DEF QueueInv
<1>3. QueueInv /\ FramesInv /\ ClosesInv => StackInv
  BY DEF StackInv
<1> QED
  BY <1>1, <1>2, <1>3, QueuesCorrect, PTL DEF Spec

\* A response that is sent leaves its context closed, once by the flush and at
\* most once more by its callback, whatever fails on the way.
THEOREM SentClosed == Spec => []SentIsClosed
<1>1. StackInv => SentIsClosed
  BY DEF StackInv, ClosesInv, Sent, SentIsClosed
<1> QED
  BY <1>1, FramesCorrect, PTL

-----------------------------------------------------------------------------
(* Exceptions do not leave the stack.                                      *)

\* The frame at the bottom is one of the reactor's, and all of those stop an
\* exception: none is on its way when the stack is empty.
BottomInv ==
    /\ stack # <<>> => stack[Len(stack)].fn \in Bottoms
    /\ raised => stack # <<>>

LEMMA BottomReturn ==
    ASSUME TypeOK, BottomInv, stack # <<>>, Return,
           raised' => Head(stack).fn \notin Bottoms
    PROVE  BottomInv'
<1>1. /\ Len(stack) \in Nat \ {0}
      /\ Len(stack') = Len(stack) - 1
      /\ \A i \in 1 .. Len(stack') : stack'[i] = stack[i + 1]
      /\ Head(stack) = stack[1]
      /\ stack' \in Seq(Frames)
  BY ReturnStack, ReturnType, TailFacts DEF TypeOK
<1>2. ASSUME stack' # <<>>
      PROVE  stack'[Len(stack')].fn \in Bottoms
  <2>1. Len(stack') \in 1 .. Len(stack')
    BY <1>1, <1>2, TailFacts
  <2>2. stack'[Len(stack')] = stack[Len(stack)]
    BY <1>1, <2>1
  <2> QED
    BY <2>2 DEF BottomInv
<1>3. ASSUME raised'
      PROVE  stack' # <<>>
  <2>1. stack[1].fn # stack[Len(stack)].fn
    BY <1>1, <1>3 DEF BottomInv
  <2> QED
    BY <1>1, <2>1
<1> QED
  BY <1>2, <1>3 DEF BottomInv

LEMMA BottomBecome ==
    ASSUME TypeOK, BottomInv, stack # <<>>, NEW f \in Frames, Become(f),
           Head(stack).fn \in Bottoms => f.fn \in Bottoms
    PROVE  BottomInv'
<1>1. /\ Len(stack) \in Nat \ {0}
      /\ Len(stack') = Len(stack)
      /\ stack'[1] = f
      /\ \A i \in 2 .. Len(stack') : stack'[i] = stack[i]
      /\ Head(stack) = stack[1]
      /\ stack' # <<>>
  BY BecomeStack, TailFacts DEF TypeOK
<1>2. CASE Len(stack) = 1
  BY <1>1, <1>2 DEF BottomInv
<1>3. CASE Len(stack) > 1
  BY <1>1, <1>3 DEF BottomInv
<1> QED
  BY <1>1, <1>2, <1>3

LEMMA BottomCall ==
    ASSUME TypeOK, BottomInv, stack # <<>>,
           NEW f \in Frames, NEW at \in Ats, Call(f, at)
    PROVE  BottomInv'
<1>1. /\ Len(stack) \in Nat \ {0}
      /\ Len(stack') = Len(stack) + 1
      /\ stack'[2] = [stack[1] EXCEPT !.at = at]
      /\ \A i \in 3 .. Len(stack') : stack'[i] = stack[i - 1]
      /\ stack[1] \in Frames
      /\ stack' # <<>>
  <2>1. stack \in Seq(Frames)
    BY DEF TypeOK
  <2>2. stack[1] \in Frames
    BY <2>1, TailFacts
  <2>3. stack' # <<>>
    BY DEF Call
  <2> QED
    BY <2>1, <2>2, <2>3, CallStack
<1>2. stack'[2].fn = stack[1].fn
  BY <1>1 DEF Frames, LoopFrames, CallFrames
<1>0. PICK n \in Nat \ {0} : Len(stack) = n /\ Len(stack') = n + 1
  BY <1>1
<1>3. stack'[Len(stack')].fn = stack[Len(stack)].fn
  <2>1. CASE n = 1
    BY <1>0, <1>2, <2>1
  <2>2. CASE n # 1
    <3>1. n + 1 \in 3 .. n + 1 /\ n + 1 - 1 = n
      BY <2>2
    <3>2. stack'[n + 1] = stack[n + 1 - 1]
      BY <1>0, <1>1, <3>1
    <3> QED
      BY <1>0, <3>1, <3>2
  <2> QED
    BY <2>1, <2>2
<1> QED
  BY <1>1, <1>3 DEF BottomInv

LEMMA BottomInit == Init => BottomInv
  BY DEF Init, BottomInv

LEMMA BottomStep ==
    TypeOK /\ BottomInv /\ [Next]_vars => BottomInv'
<1> SUFFICES ASSUME TypeOK, BottomInv, [Next]_vars
             PROVE  BottomInv'
  OBVIOUS
<1>1. CASE Moves
  <2>1. CASE UNCHANGED stack /\ (raised' => raised \/ stack # <<>>)
    BY <2>1 DEF BottomInv
  <2>2. ASSUME NEW f \in Frames, NEW at \in Waits, stack # <<>>, Call(f, at)
        PROVE  BottomInv'
    <3>1. at \in Ats
      BY DEF Waits, Ats
    <3> QED
      BY <2>2, <3>1, BottomCall
  <2> QED
    BY <1>1, <2>1, <2>2, BottomReturn, BottomBecome DEF Moves
<1>2. ASSUME NEW n \in Req, DataReceived(n)
      PROVE  BottomInv'
  BY <1>2, FrameFields DEF DataReceived, BottomInv, Bottoms, Idle
<1>3. ASSUME NEW r \in Req, DeferredFires(r)
      PROVE  BottomInv'
  BY <1>3, FrameFields DEF DeferredFires, BottomInv, Bottoms, Idle
<1>4. CASE ReturnsDeferred
  <2>1. stack # <<>> /\ Return /\ ~raised'
    BY <1>4 DEF ReturnsDeferred, Ends, Running
  <2> QED
    BY <2>1, BottomReturn
<1>5. CASE Admit
  <2>1. Frame("process_contexts", Head(inactive), "start") \in Frames
    BY <1>5, AdmitFacts, CallFrameType DEF Ats
  <2> QED
    BY <1>5, <2>1, BottomCall DEF Admit, Start, Running, Ats
<1> QED
  BY <1>1, <1>2, <1>3, <1>4, <1>5, StackMoves

-----------------------------------------------------------------------------
(* Who still answers a request.                                            *)

\* What a jump and a call run next, and what a return goes on with.
LEMMA BecomeHead ==
    ASSUME stack \in Seq(Frames), stack # <<>>, NEW f \in Frames, Become(f)
    PROVE  stack' # <<>> /\ Head(stack') = f
  BY TopFrame DEF Become

LEMMA CallHead ==
    ASSUME stack \in Seq(Frames), stack # <<>>,
           NEW f \in Frames, NEW at \in Ats, Call(f, at)
    PROVE  stack' # <<>> /\ Head(stack') = f
<1>1. [Head(stack) EXCEPT !.at = at] \in Frames
  BY TopFrame DEF Frames, LoopFrames, CallFrames
<1> QED
  BY <1>1, TopFrame DEF Call

LEMMA ReturnHead ==
    ASSUME TypeOK, FramesInv, stack # <<>>, Return, stack' # <<>>
    PROVE  Head(stack') \in Frames /\ Head(stack').at \in Waits
<1>1. /\ Len(stack) \in Nat \ {0}
      /\ Len(stack') = Len(stack) - 1
      /\ \A i \in 1 .. Len(stack') : stack'[i] = stack[i + 1]
  BY ReturnStack DEF TypeOK
<1>2. stack' \in Seq(Frames)
  BY ReturnType DEF TypeOK
<1>3. Len(stack') \in Nat \ {0} /\ Head(stack') = stack'[1] /\ Head(stack') \in Frames
  BY <1>2, TailFacts
<1>4. 1 \in 1 .. Len(stack') /\ 1 + 1 \in 2 .. Len(stack)
  BY <1>1, <1>3
<1>5. Head(stack') = stack[1 + 1]
  BY <1>1, <1>3, <1>4
<1> QED
  BY <1>3, <1>4, <1>5 DEF FramesInv

\* An entry of inreq_queue that has no response yet.
Unanswered(r) == r \in Waiting /\ data[r] = NoData

\* The running frame is on its way to enqueue the response of its context.
Answers == {"start", "result", "error"}
Answering(r) ==
    /\ stack # <<>>
    /\ ~raised
    /\ Head(stack).ctx = r
    /\ Head(stack).at \in Answers

\* What will answer a request: its Deferred, or the running frame.
Token(r) == r \in pending \/ Answering(r)

\* A context is open until it has been through a callback or the flush.
OpenInv == \A r \in Req : r > Admitted /\ r < next => r \in open

\* Something will answer every request that has no response, and its context
\* has a transport to write an error to, unless its own result cannot be sent.
HoldInv == \A r \in Req : ~Broken(r) /\ Unanswered(r) => r \in open /\ Token(r)

\* Nothing but an admission makes an entry without a response.
LEMMA UnansweredBack ==
    ASSUME TypeOK, FifoPipeline, [Next]_vars, ~Admit,
           NEW r \in Req, Unanswered(r)'
    PROVE  Unanswered(r) /\ (FlushOne => r # Head(inreq))
<1>1. CASE FlushOne
  BY <1>1, FlushFacts DEF Unanswered, TypeOK
<1>2. CASE Store
  <2>1. inreq' = inreq /\ ~FlushOne
    BY <1>2 DEF Store, FlushOne, Running, Data
  <2>2. data'[r] = NoData => data[r] = NoData
    BY <1>2, TwistedMsgpackAssumption DEF Store, TypeOK, TwistedMsgpackAssumption
  <2> QED
    BY <2>1, <2>2 DEF Unanswered, Waiting
<1>3. CASE UNCHANGED <<inreq, data>> /\ ~FlushOne
  BY <1>3 DEF Unanswered, Waiting
<1> QED
  BY <1>1, <1>2, <1>3, FlushActions

\* While a frame is on its way to a response, it takes the next step.
LEMMA AnsweringActions ==
    ASSUME stack # <<>>, ~raised, Head(stack).at \in Answers, [Next]_vars
    PROVE  \/ RequestFails \/ ReturnsValue \/ ReturnsDeferred
           \/ ReturnsFiredDeferred \/ ReturnsIgnored
           \/ Respond \/ Errback \/ HandleError \/ Store \/ UNCHANGED vars
<1> USE DEF Answers, Running, Unwinding, Idle
<1>1. ASSUME NEW n \in Req, DataReceived(n)
      PROVE  FALSE
  BY <1>1 DEF DataReceived
<1>2. ASSUME NEW r \in Req, DeferredFires(r)
      PROVE  FALSE
  BY <1>2 DEF DeferredFires
<1>3. ~IdleTimeout /\ ~ConnectionLost
  BY DEF IdleTimeout, ConnectionLost
<1>4. ~NextMessage /\ ~MalformedMessage /\ ~NoMoreMessages /\ ~MessageProcessed
  BY DEF NextMessage, MalformedMessage, NoMoreMessages, MessageProcessed
<1>5. ~Admit /\ ~AdmitNoMore /\ ~Finally /\ ~ErrbackDone /\ ~HandleErrorDone
  BY DEF Admit, AdmitNoMore, Finally, ErrbackDone, HandleErrorDone
<1>6. ~FlushOne /\ ~FlushDone
  BY DEF FlushOne, FlushDone
<1>7. /\ ~Propagate /\ ~CatchInCallback /\ ~FailInExcept /\ ~FailInErrback
      /\ ~FailInDataReceived
  BY DEF Propagate, CatchInCallback, FailInExcept, FailInErrback,
         FailInDataReceived
<1> QED
  BY <1>1, <1>2, <1>3, <1>4, <1>5, <1>6, <1>7 DEF Next, Step

\* Whoever is to answer a request that can be answered does so or hands the
\* request on: no exception gets in between.
LEMMA TokenKept ==
    ASSUME TypeOK, BottomInv, [Next]_vars, NEW r \in Req, ~Broken(r), r \in open,
           Unanswered(r), Unanswered(r)', Token(r)
    PROVE  Token(r)'
<1> USE FrameFields DEF Running
<1>s. stack \in Seq(Frames)
  BY DEF TypeOK
<1>1. CASE r \in pending
  <2>1. CASE DeferredFires(r)
    <3>1. ~raised
      BY <2>1 DEF DeferredFires, Idle, BottomInv
    <3> QED
      BY <2>1, <3>1 DEF DeferredFires, Token, Answering, Answers
  <2>2. ASSUME NEW q \in Req, q # r, DeferredFires(q)
        PROVE  r \in pending'
    BY <1>1, <2>2 DEF DeferredFires
  <2>3. ASSUME NEW n \in Req, DataReceived(n)
        PROVE  r \in pending'
    BY <1>1, <2>3 DEF DataReceived, contexts
  <2>4. CASE Admit \/ ReturnsDeferred
    BY <1>1, <2>4 DEF Admit, Start, contexts, ReturnsDeferred, Token
  <2> QED
    BY <1>1, <2>1, <2>2, <2>3, <2>4, StackMoves DEF Moves, Token
<1>2. CASE Answering(r)
  <2>0. stack # <<>> /\ ~raised /\ Self = r /\ Head(stack).at \in Answers
    BY <1>2 DEF Answering, Self
  <2>1. ASSUME NEW f \in Frames, Become(f), f.ctx = r, f.at \in Answers, raised' = raised
        PROVE  Token(r)'
    BY <1>s, <2>0, <2>1, BecomeHead DEF Token, Answering
  <2>2. ASSUME NEW f \in Frames, NEW at \in Ats, Call(f, at),
               f.ctx = r, f.at \in Answers, raised' = raised
        PROVE  Token(r)'
    BY <1>s, <2>0, <2>2, CallHead DEF Token, Answering
  <2>3. CASE RequestFails
    BY <2>0, <2>1, <2>3, CallFrameType DEF RequestFails, Ends, Ats, Answers
  <2>4. CASE ReturnsValue
    BY <2>0, <2>1, <2>4, CallFrameType DEF ReturnsValue, Ends, Ats, Answers
  <2>5. CASE ReturnsDeferred
    BY <2>0, <2>5 DEF ReturnsDeferred, Token
  <2>6. CASE ReturnsFiredDeferred
    <3>1. PICK fn \in {"_cb_deferred", "_eb_deferred"} : Become(Frame(fn, r, "start"))
      BY <2>0, <2>6 DEF ReturnsFiredDeferred
    <3>2. Frame(fn, r, "start") \in Frames
      BY CallFrameType DEF Ats
    <3> QED
      BY <2>1, <2>6, <3>1, <3>2 DEF ReturnsFiredDeferred, Answers
  <2>7. ~ReturnsIgnored
    BY <2>0 DEF ReturnsIgnored, Ends, Broken
  <2>8. CASE Respond
    <3>1. /\ Call(Frame("enqueue_outresp_data", r, "result"), "try")
          /\ raised' = raised
      BY <2>0, <2>8 DEF Respond, Broken
    <3>2. Frame("enqueue_outresp_data", r, "result") \in Frames
      BY CallFrameType DEF Ats
    <3> QED
      BY <2>2, <3>1, <3>2 DEF Ats, Answers
  <2>9. CASE Errback
    BY <2>0, <2>2, <2>9, CallFrameType DEF Errback, Ats, Answers
  <2>10. CASE HandleError
    <3>1. /\ Call(Frame("enqueue_outresp_data", r, "error"), "wait")
          /\ raised' = raised
      BY <2>0, <2>10 DEF HandleError, Broken
    <3>2. Frame("enqueue_outresp_data", r, "error") \in Frames
      BY CallFrameType DEF Ats
    <3> QED
      BY <2>2, <3>1, <3>2 DEF Ats, Answers
  <2>11. ~Store
    <3>1. ASSUME Store PROVE data'[r] \in Data
      BY <2>0, <3>1 DEF Store, Unanswered, TypeOK
    <3> QED
      BY <3>1, TwistedMsgpackAssumption DEF Unanswered, TwistedMsgpackAssumption
  <2>12. CASE UNCHANGED vars
    BY <1>2, <2>12 DEF vars, contexts, Token, Answering
  <2> QED
    BY <2>0, <2>3, <2>4, <2>5, <2>6, <2>7, <2>8, <2>9, <2>10, <2>11, <2>12,
       AnsweringActions
<1> QED
  BY <1>1, <1>2 DEF Token

LEMMA HoldInit == Init => OpenInv /\ HoldInv
  BY TwistedMsgpackAssumption
  DEF Init, OpenInv, HoldInv, Unanswered, Waiting, Req, TwistedMsgpackAssumption

\* Only requests that were admitted are closed.
LEMMA OpenStep ==
    TypeOK /\ FifoPipeline /\ FramesInv /\ OpenInv /\ [Next]_vars => OpenInv'
<1> SUFFICES ASSUME TypeOK, FifoPipeline, FramesInv, OpenInv, [Next]_vars,
                    NEW r \in Req, r > Admitted', r < next'
             PROVE  r \in open'
  BY DEF OpenInv
<1>b. Admitted \in Nat /\ Admitted' \in Nat /\ Admitted <= Admitted'
  BY AdmittedGrows
<1>c. /\ r \in Nat /\ next \in Nat
      /\ Len(wire) \in Nat /\ Len(inreq) \in Nat
  BY TwistedMsgpackAssumption DEF Req, TypeOK, TwistedMsgpackAssumption
<1>d. r > Admitted
  BY <1>b, <1>c
<1>a. /\ Admitted \in Nat /\ r \in Nat /\ r > Admitted /\ next \in Nat
      /\ Len(wire) \in Nat /\ Len(inreq) \in Nat
  BY <1>b, <1>c, <1>d
<1>1. CASE NextMessage
  BY <1>1, <1>a DEF NextMessage, OpenInv
<1>2. CASE FlushOne
  <2>1. Head(inreq) = Len(wire) + 1 /\ Len(inreq) # 0
    BY <1>2, FlushFacts, TailFacts DEF FlushOne, HeadAnswered, TypeOK
  <2>2. open' = open \ {Head(inreq)} /\ next' = next
    BY <1>2 DEF FlushOne, WriteHead, Close
  <2> QED
    BY <1>a, <2>1, <2>2 DEF OpenInv, Admitted
<1>3. CASE Finally \/ FailInExcept
  <2>1. /\ stack # <<>> /\ stack[1] = Head(stack) /\ next' = next
        /\ open' = open \ {Self}
    BY <1>3, CallbackCloses DEF Close
  <2>2. Self <= Admitted
    BY <2>1, TailFacts DEF FramesInv, TypeOK, Self
  <2> QED
    BY <1>a, <2>1, <2>2 DEF OpenInv
<1>4. CASE UNCHANGED open /\ next' = next
  BY <1>a, <1>4 DEF OpenInv
<1>5. CASE Admit
  BY <1>a, <1>5 DEF Admit, Start, contexts, OpenInv
<1> QED
  BY <1>1, <1>2, <1>3, <1>4, <1>5, CloseActions, PipelineActions DEF pipeline

\* Neither the exceptions that unwind through a callback nor the contexts that
\* others close take the answer of a request away.
LEMMA HoldStep ==
    TypeOK /\ FifoPipeline /\ FramesInv /\ BottomInv /\ OpenInv /\ HoldInv
        /\ [Next]_vars => HoldInv'
<1> SUFFICES ASSUME TypeOK, FifoPipeline, FramesInv, BottomInv, OpenInv, HoldInv,
                    [Next]_vars,
                    NEW r \in Req, ~Broken(r), Unanswered(r)'
             PROVE  r \in open' /\ Token(r)'
  BY DEF HoldInv, Broken
<1>1. CASE Admit
  <2> DEFINE q == Head(inactive)
  <2>1. /\ q \in Req /\ Waiting' = Waiting \cup {q}
        /\ data' = [data EXCEPT ![q] = NoData]
        /\ UNCHANGED <<open, pending, raised>>
        /\ Call(Frame("process_contexts", q, "start"), "loop")
        /\ stack # <<>> /\ ~raised /\ Head(stack).at = "loop"
    BY <1>1, AdmitFacts DEF Admit, Start, contexts, Running
  <2>2. Frame("process_contexts", q, "start") \in Frames
    BY <2>1, CallFrameType DEF Ats
  <2>3. CASE r = q
    <3>1. r > Admitted /\ r < next
      <4>1. /\ Len(inactive) \in Nat \ {0} /\ q = inactive[1]
            /\ Len(wire) \in Nat /\ Len(inreq) \in Nat
        BY <1>1, TailFacts DEF TypeOK, Admit, MayAdmit
      <4>2. inactive[1] = Len(wire) + Len(inreq) + 1
        BY <4>1 DEF FifoPipeline
      <4> HIDE DEF q
      <4> QED
        BY <2>3, <4>1, <4>2 DEF Admitted, FifoPipeline
    <3>2. Answering(r)'
      <4> HIDE DEF q
      <4>1. stack' # <<>> /\ Head(stack') = Frame("process_contexts", q, "start")
        BY <2>1, <2>2, CallHead DEF TypeOK, Ats
      <4> QED
        BY <2>1, <2>3, <4>1, FrameFields DEF Answering, Answers
    <3> QED
      BY <2>1, <3>1, <3>2 DEF OpenInv, Token
  <2>4. CASE r # q
    <3> HIDE DEF q
    <3>1. Unanswered(r)
      BY <2>1, <2>4 DEF Unanswered, TypeOK
    <3> QED
      BY <2>1, <3>1 DEF HoldInv, Token, Answering, Answers
  <2> QED
    BY <2>3, <2>4
<1>2. CASE ~Admit
  <2>1. Unanswered(r) /\ (FlushOne => r # Head(inreq))
    BY <1>2, UnansweredBack
  <2>2. r \in open /\ Token(r)
    BY <2>1 DEF HoldInv
  <2>3. Token(r)'
    BY <2>1, <2>2, TokenKept
  <2>4. r \in open'
    <3>1. CASE FlushOne
      BY <2>1, <2>2, <3>1 DEF FlushOne, WriteHead, Close
    <3>2. CASE NextMessage
      BY <2>2, <3>2 DEF NextMessage
    <3>3. CASE Finally \/ FailInExcept
      <4>1. /\ stack # <<>> /\ stack[1] = Head(stack)
            /\ open' = open \ {Self}
        BY <3>3, CallbackCloses DEF Close
      <4>2. Self \notin pending
        BY <4>1, TailFacts DEF FramesInv, TypeOK, Self
      <4>3. Head(stack).at \notin Answers
        BY <3>3 DEF Finally, FailInExcept, Running, Unwinding, Answers
      <4>4. r # Self
        BY <2>2, <4>2, <4>3 DEF Token, Answering
      <4> QED
        BY <2>2, <4>1, <4>4
    <3> QED
      BY <2>2, <3>1, <3>2, <3>3, CloseActions
  <2> QED
    BY <2>3, <2>4
<1> QED
  BY <1>1, <1>2

\* The invariant of the requests: OpenInv and HoldInv need each other and the
\* frames.
AnswerInv == BottomInv /\ OpenInv /\ HoldInv

THEOREM AnswersHeld == Spec => [](StackInv /\ AnswerInv)
<1>1. Init => AnswerInv
  BY BottomInit, HoldInit DEF AnswerInv
<1>2. StackInv /\ AnswerInv /\ [Next]_vars => AnswerInv'
  BY BottomStep, OpenStep, HoldStep DEF StackInv, QueueInv, AnswerInv
<1> QED
  BY <1>1, <1>2, FramesCorrect, PTL DEF Spec

\* A request is never left in inreq_queue with nothing to answer it, whatever
\* the other requests do, unless its own result cannot be sent.
THEOREM NoneLost == Spec => []OnlyBrokenLost
<1>1. StackInv /\ AnswerInv => OnlyBrokenLost
  <2> SUFFICES ASSUME StackInv, HoldInv, NEW r \in Req, Lost(r), ~Broken(r)
               PROVE  FALSE
    BY DEF OnlyBrokenLost, AnswerInv
  <2>1. Token(r) /\ ~Held(r)
    BY DEF HoldInv, Lost, Unanswered
  <2>2. Answering(r)
    BY <2>1 DEF Token, Held
  <2>3. 1 \in 1 .. Len(stack) /\ stack[1].ctx = r
    BY <2>2, TailFacts DEF Answering, StackInv, QueueInv, TypeOK
  <2> QED
    BY <2>1, <2>3 DEF Held
<1> QED
  BY <1>1, AnswersHeld, PTL

-----------------------------------------------------------------------------
(* When no method returns something that cannot be sent.                   *)

\* No return value and no auxiliary result breaks its response.
Sound == Unserializable = {} /\ AuxRaises = {} /\ \A r \in Req : "ignored" \notin Ways[r]

\* The exception that produce_contexts raises unwinds dataReceived alone, and
\* whatever is to answer a request finds its entry without a response.
SoundInv ==
    /\ raised => stack # <<>> /\ Head(stack).fn = "dataReceived"
    /\ \A r \in Req : Token(r) => Unanswered(r)

\* Only admissions give a request something that answers it.
LEMMA TokenBack ==
    ASSUME Sound, TypeOK, FramesInv, SoundInv, [Next]_vars, ~Admit,
           NEW r \in Req, Token(r)'
    PROVE  Token(r)
<1> USE FrameFields DEF Answers
<1>s. stack \in Seq(Frames)
  BY DEF TypeOK
<1>1. CASE r \in pending'
  <2>1. CASE ReturnsDeferred
    BY <1>1, <2>1 DEF ReturnsDeferred, Ends, Running, Token, Answering, Self
  <2>2. ASSUME NEW q \in Req, DeferredFires(q)
        PROVE  r \in pending
    BY <1>1, <2>2 DEF DeferredFires
  <2>3. ASSUME NEW n \in Req, DataReceived(n)
        PROVE  r \in pending
    BY <1>1, <2>3 DEF DataReceived, contexts
  <2> QED
    BY <1>1, <2>1, <2>2, <2>3, StackMoves DEF Moves, Token
<1>2. CASE Answering(r)' /\ r \notin pending
  <2>0. stack' # <<>> /\ ~raised' /\ Head(stack').ctx = r /\ Head(stack').at \in Answers
    BY <1>2 DEF Answering
  <2>1. ~(stack # <<>> /\ Return)
    BY <2>0, ReturnHead DEF Waits
  <2>2. ASSUME NEW f \in Frames, stack # <<>>, Become(f)
        PROVE  f.ctx = r /\ f.at \in Answers
    BY <1>s, <2>0, <2>2, BecomeHead
  <2>3. ASSUME NEW f \in Frames, NEW at \in Ats, stack # <<>>, Call(f, at)
        PROVE  f.ctx = r /\ f.at \in Answers
    BY <1>s, <2>0, <2>3, CallHead
  <2>4. CASE stack # <<>> /\ ~raised /\ Head(stack).at \in Answers
    <3>1. CASE Self = r
      BY <2>4, <3>1 DEF Token, Answering, Self
    <3>2. CASE Self # r
      <4>1. ~RequestFails /\ ~ReturnsValue
        <5>1. ASSUME NEW fn \in {"handle_error", "_cb_deferred_nowrap"}, Self \in Req,
                     stack # <<>>, Become(Frame(fn, Self, "start"))
              PROVE  FALSE
          <6>1. Frame(fn, Self, "start") \in Frames
            BY <5>1, CallFrameType DEF Ats
          <6> QED
            BY <2>2, <3>2, <5>1, <6>1
        <5> QED
          BY <1>s, <5>1, SelfType DEF RequestFails, ReturnsValue, Ends, Running
      <4>2. ~ReturnsDeferred /\ ~ReturnsIgnored
        BY <2>1 DEF ReturnsDeferred, ReturnsIgnored, Ends, Running, Raise
      <4>3. ~ReturnsFiredDeferred
        <5>1. ASSUME NEW fn \in {"_cb_deferred", "_eb_deferred"}, Self \in Req,
                     stack # <<>>, Become(Frame(fn, Self, "start"))
              PROVE  FALSE
          <6>1. Frame(fn, Self, "start") \in Frames
            BY <5>1, CallFrameType DEF Ats
          <6> QED
            BY <2>2, <3>2, <5>1, <6>1
        <5> QED
          BY <1>s, <5>1, SelfType DEF ReturnsFiredDeferred, Ends, Running
      <4>4. ~Respond
        BY <1>s, <2>3, <3>2, SelfType, CallFrameType DEF Respond, Running, Callbacks, Ats
      <4>5. ~Errback
        BY <1>s, <2>3, <3>2, SelfType, CallFrameType DEF Errback, Running, Ats
      <4>6. ~HandleError
        <5>1. ASSUME HandleError
              PROVE  /\ Self \in Req
                     /\ Frame("enqueue_outresp_data", Self, "error") \in Frames
                     /\ Frame("handle_error", Self, "wait") \in Frames
          BY <1>s, <5>1, SelfType, CallFrameType DEF HandleError, Running, Ats
        <5>2. ASSUME HandleError
              PROVE  \/ Return
                     \/ Become(Frame("handle_error", Self, "wait"))
                     \/ Call(Frame("enqueue_outresp_data", Self, "error"), "wait")
          BY <5>2 DEF HandleError, Raise
        <5>3. "wait" \in Ats
          BY DEF Ats
        <5> QED
          BY <2>1, <2>2, <2>3, <2>4, <3>2, <5>1, <5>2, <5>3
      <4>7. ~Store
        <5>1. ASSUME Store
              PROVE  /\ Self \in Req
                     /\ Raise \/ Become(Frame("enqueue_outresp_data", Self, "flush"))
          BY <1>s, <5>1, SelfType DEF Store, Running
        <5>2. ASSUME Store PROVE Frame("enqueue_outresp_data", Self, "flush") \in Frames
          BY <5>1, <5>2, CallFrameType DEF Ats
        <5>3. ~Store \/ ~Raise
          BY <2>0 DEF Raise
        <5>4. ASSUME Store, Become(Frame("enqueue_outresp_data", Self, "flush"))
              PROVE  FALSE
          <6>1. Frame("enqueue_outresp_data", Self, "flush").ctx = r
            BY <2>2, <2>4, <5>2, <5>4
          <6>2. Frame("enqueue_outresp_data", Self, "flush").ctx = Self
            BY DEF Frame
          <6> QED
            BY <3>2, <6>1, <6>2
        <5> QED
          BY <5>1, <5>3, <5>4
      <4>8. CASE UNCHANGED vars
        BY <1>2, <4>8 DEF vars, Token, Answering
      <4> QED
        BY <2>4, <4>1, <4>2, <4>3, <4>4, <4>5, <4>6, <4>7, <4>8, AnsweringActions
    <3> QED
      BY <3>1, <3>2
  <2>5. CASE ~(stack # <<>> /\ ~raised /\ Head(stack).at \in Answers)
    <3> USE DEF Running, Unwinding
    <3>1. ASSUME NEW n \in Req, DataReceived(n)
          PROVE  FALSE
      BY <2>0, <3>1 DEF DataReceived
    <3>2. ASSUME NEW q \in Req, DeferredFires(q)
          PROVE  Token(r)
      BY <2>0, <3>2 DEF DeferredFires, Token
    <3>3. CASE IdleTimeout \/ ConnectionLost
      BY <2>0, <2>5, <3>3 DEF IdleTimeout, ConnectionLost, Idle
    <3>4. ~NextMessage
      <4>1. Frame("process_inactive", 0, "loop") \in Frames
        BY LoopFrameType DEF Ats
      <4> QED
        BY <2>3, <4>1 DEF NextMessage, Ats
    <3>5. ~MalformedMessage /\ ~NoMoreMessages
      BY <2>0, <2>1 DEF MalformedMessage, NoMoreMessages
    <3>6. ~MessageProcessed
      BY <2>1, <2>2, LoopFrameType DEF MessageProcessed, Ats
    <3>7. /\ ~AdmitNoMore /\ ~ErrbackDone /\ ~HandleErrorDone /\ ~Propagate
          /\ ~FailInErrback /\ ~FailInDataReceived
      BY <2>1 DEF AdmitNoMore, ErrbackDone, HandleErrorDone, Propagate,
                  FailInErrback, FailInDataReceived
    <3>8. /\ ~RequestFails /\ ~ReturnsValue /\ ~ReturnsDeferred
          /\ ~ReturnsFiredDeferred /\ ~ReturnsIgnored
      BY <2>5 DEF RequestFails, ReturnsValue, ReturnsDeferred,
                  ReturnsFiredDeferred, ReturnsIgnored, Ends
    <3>9. ~Respond /\ ~Errback /\ ~HandleError /\ ~Store
      BY <2>5 DEF Respond, Errback, HandleError, Store, Data
    <3>10. ~Finally
      BY <2>1 DEF Finally, Sound
    <3>11. ~FlushOne
      BY <2>0, <2>5 DEF FlushOne, WriteHead
    <3>12. ~FlushDone
      BY <2>2, LoopFrameType DEF FlushDone, Ats
    <3>13. ~CatchInCallback /\ ~FailInExcept
      BY DEF CatchInCallback, FailInExcept, SoundInv, Callbacks
    <3>14. CASE UNCHANGED vars
      BY <1>2, <3>14 DEF vars, Token, Answering
    <3> QED
      BY <3>1, <3>2, <3>3, <3>4, <3>5, <3>6, <3>7, <3>8, <3>9, <3>10, <3>11,
         <3>12, <3>13, <3>14 DEF Next, Step
  <2> QED
    BY <2>4, <2>5
<1> QED
  BY <1>1, <1>2 DEF Token

\* An entry gets its response from what was to answer it, and loses it with
\* the flush.
LEMMA AnsweredStep ==
    ASSUME TypeOK, FifoPipeline, FramesInv, SoundInv, [Next]_vars, ~Admit,
           NEW r \in Req, Token(r), Token(r)'
    PROVE  Unanswered(r)'
<1>u. Unanswered(r)
  BY DEF SoundInv
<1>1. CASE FlushOne
  <2>1. r # Head(inreq)
    BY <1>u, <1>1 DEF FlushOne, HeadAnswered, Unanswered
  <2> QED
    BY <1>u, <1>1, <2>1, FlushFacts DEF Unanswered, TypeOK
<1>2. CASE Store
  <2>1. inreq' = inreq /\ stack # <<>> /\ UNCHANGED pending
    BY <1>2 DEF Store, Running, contexts
  <2>2. CASE UNCHANGED data
    BY <1>u, <2>1, <2>2 DEF Unanswered, Waiting
  <2>3. CASE Become(Frame("enqueue_outresp_data", Self, "flush"))
    <3>1. Self \in Req
      BY <1>2, SelfType DEF Store, Running, TypeOK
    <3>2. Frame("enqueue_outresp_data", Self, "flush") \in Frames
      BY <3>1, CallFrameType DEF Ats
    <3>3. Head(stack').at = "flush"
      BY <2>1, <2>3, <3>2, BecomeHead, FrameFields DEF TypeOK
    <3>4. r \in pending
      BY <2>1, <3>3 DEF Token, Answering, Answers
    <3>5. Self \notin pending
      BY <2>1, TailFacts DEF FramesInv, TypeOK, Self
    <3>6. data'[r] = data[r]
      BY <1>2, <3>1, <3>4, <3>5 DEF Store, TypeOK
    <3> QED
      BY <1>u, <2>1, <3>6 DEF Unanswered, Waiting
  <2> QED
    BY <1>2, <2>2, <2>3 DEF Store
<1>3. CASE UNCHANGED <<inreq, data>>
  BY <1>u, <1>3 DEF Unanswered, Waiting
<1> QED
  BY <1>1, <1>2, <1>3, FlushActions

\* What raises: a message that is refused; a response that is not awaited
\* would, but there is none.
LEMMA RaisedStep ==
    ASSUME Sound, TypeOK, SoundInv, [Next]_vars, raised'
    PROVE  stack' # <<>> /\ Head(stack').fn = "dataReceived"
<1> USE DEF SoundInv, Running, Unwinding, Ends
<1>1. ASSUME NEW n \in Req, DataReceived(n)
      PROVE  FALSE
  BY <1>1 DEF DataReceived, Idle
<1>2. ASSUME NEW r \in Req, DeferredFires(r)
      PROVE  FALSE
  BY <1>2 DEF DeferredFires, Idle
<1>3. ~IdleTimeout /\ ~ConnectionLost
  BY DEF IdleTimeout, ConnectionLost, Idle
<1>4. CASE MalformedMessage
  BY <1>4 DEF MalformedMessage
<1>5. ~NextMessage /\ ~NoMoreMessages /\ ~MessageProcessed /\ ~Admit /\ ~AdmitNoMore
  BY DEF NextMessage, NoMoreMessages, MessageProcessed, Admit, Start, AdmitNoMore
<1>6. ~RequestFails /\ ~ReturnsValue /\ ~ReturnsDeferred /\ ~ReturnsFiredDeferred
  BY DEF RequestFails, ReturnsValue, ReturnsDeferred, ReturnsFiredDeferred
<1>7. ~ReturnsIgnored
  BY SelfType DEF ReturnsIgnored, Sound, TypeOK
<1>8. ~Respond /\ ~Errback /\ ~ErrbackDone /\ ~HandleErrorDone
  BY DEF Respond, Errback, ErrbackDone, HandleErrorDone
<1>9. ~HandleError /\ ~Finally
  BY DEF HandleError, Finally, Sound
<1>10. ~Store
  <2>1. ASSUME Store PROVE Self \in Waiting /\ data[Self] = NoData
    <3>1. Token(Self) /\ Self \in Req
      BY <2>1, SelfType DEF Store, Token, Answering, Answers, Data, Self, TypeOK
    <3> QED
      BY <3>1 DEF Unanswered
  <2> QED
    BY <2>1 DEF Store
<1>11. ~FlushOne /\ ~FlushDone
  BY DEF FlushOne, WriteHead, FlushDone
<1>12. ~Propagate /\ ~CatchInCallback /\ ~FailInExcept
  BY DEF Propagate, CatchInCallback, FailInExcept, Callbacks
<1>13. ~FailInErrback /\ ~FailInDataReceived
  BY DEF FailInErrback, FailInDataReceived
<1>14. CASE UNCHANGED vars
  BY <1>14 DEF vars
<1> QED
  BY <1>1, <1>2, <1>3, <1>4, <1>5, <1>6, <1>7, <1>8, <1>9, <1>10, <1>11, <1>12,
     <1>13, <1>14 DEF Next, Step

LEMMA SoundInit == Init => SoundInv
  BY DEF Init, SoundInv, Token, Answering

LEMMA SoundStep ==
    ASSUME Sound, TypeOK, FifoPipeline, FramesInv, SoundInv, [Next]_vars
    PROVE  SoundInv'
<1>1. ASSUME NEW r \in Req, Token(r)'
      PROVE  Unanswered(r)'
  <2>1. CASE Admit /\ r = Head(inactive)
    BY <2>1, AdmitFacts DEF Unanswered, TypeOK
  <2>2. CASE Admit /\ r # Head(inactive)
    <3>1. Frame("process_contexts", Head(inactive), "start") \in Frames
      BY <2>2, AdmitFacts, CallFrameType DEF Ats
    <3>2. stack' # <<>> /\ Head(stack').ctx = Head(inactive) /\ UNCHANGED pending
      BY <2>2, <3>1, CallHead, FrameFields
      DEF Admit, Start, Running, contexts, TypeOK, Ats
    <3>3. r \in pending
      BY <1>1, <2>2, <3>2 DEF Token, Answering
    <3> QED
      BY <2>2, <3>3, AdmitFacts DEF SoundInv, Token, Unanswered, TypeOK
  <2>3. CASE ~Admit
    BY <1>1, <2>3, TokenBack, AnsweredStep
  <2> QED
    BY <2>1, <2>2, <2>3
<1> QED
  BY <1>1, RaisedStep DEF SoundInv

\* With methods whose results can be sent, no lookup and no assertion of the
\* server fails: what raises is a message that cannot be decoded.
THEOREM InputRaises == Sound => (Spec => []OnlyInputRaises)
<1> SUFFICES ASSUME Sound PROVE Spec => []OnlyInputRaises
  OBVIOUS
<1>1. StackInv /\ SoundInv /\ [Next]_vars => SoundInv'
  BY SoundStep DEF StackInv, QueueInv
<1>2. SoundInv => OnlyInputRaises
  BY DEF SoundInv, OnlyInputRaises
<1> QED
  BY <1>1, <1>2, SoundInit, FramesCorrect, PTL DEF Spec

-----------------------------------------------------------------------------
(* Disconnecting.                                                          *)

\* A connection that is being dropped delivers nothing more, and dataReceived
\* is not about to read the next message.
DropInv ==
    disconnecting =>
        /\ conn # "up"
        /\ stack # <<>> => Head(stack).at # "next"

\* What can start a disconnection or bring dataReceived to its next message.
LEMMA DropActions ==
    ASSUME TypeOK, FramesInv, DropInv, [Next]_vars
    PROVE  DropInv'
<1> USE FrameFields DEF Running, Unwinding
<1>s. stack \in Seq(Frames)
  BY DEF TypeOK
<1>a. ASSUME stack # <<>>, Return, stack' # <<>>
      PROVE  Head(stack').at # "next"
  BY <1>a, ReturnHead DEF Waits
<1>b. ASSUME NEW f \in Frames, stack # <<>>, Become(f), f.at # "next",
             UNCHANGED <<disconnecting, conn>>
      PROVE  DropInv'
  BY <1>s, <1>b, BecomeHead DEF DropInv
<1>c. ASSUME NEW f \in Frames, NEW at \in Ats, stack # <<>>, Call(f, at), f.at # "next",
             UNCHANGED <<disconnecting, conn>>
      PROVE  DropInv'
  BY <1>s, <1>c, CallHead DEF DropInv
<1>r. ASSUME stack # <<>>, Return, disconnecting' => conn' # "up"
      PROVE  DropInv'
  BY <1>a, <1>r DEF DropInv
<1>1. ASSUME NEW n \in Req, DataReceived(n)
      PROVE  DropInv'
  BY <1>1 DEF DataReceived, DropInv
<1>2. ASSUME NEW r \in Req, DeferredFires(r)
      PROVE  DropInv'
  BY <1>2 DEF DeferredFires, DropInv, link
<1>3. CASE IdleTimeout \/ ConnectionLost
  BY <1>3 DEF IdleTimeout, ConnectionLost, DropInv, Idle
<1>4. CASE NextMessage
  BY <1>4, <1>c, LoopFrameType DEF NextMessage, Ats, link
<1>5. CASE MalformedMessage \/ FlushOne \/ UNCHANGED vars
  BY <1>5 DEF MalformedMessage, FlushOne, WriteHead, DropInv, vars, link
<1>6. CASE MessageProcessed
  <2>1. CASE disconnecting
    BY <1>6, <1>r, <2>1 DEF MessageProcessed, DropInv, link
  <2>2. CASE ~disconnecting
    BY <1>6, <2>2 DEF MessageProcessed, DropInv, link
  <2> QED
    BY <2>1, <2>2
<1>7. CASE Admit
  <2>1. Frame("process_contexts", Head(inactive), "start") \in Frames
    BY <1>7, AdmitFacts, CallFrameType DEF Ats
  <2> QED
    BY <1>7, <1>c, <2>1 DEF Admit, Start, Ats, link
<1>8. CASE AdmitNoMore
  BY <1>8, <1>r DEF AdmitNoMore, DropInv, link
<1>9. CASE NoMoreMessages \/ ReturnsDeferred \/ ReturnsIgnored \/ ErrbackDone
             \/ HandleErrorDone \/ Propagate \/ FailInErrback \/ FailInDataReceived
  BY <1>9, <1>r DEF NoMoreMessages, ReturnsDeferred, ReturnsIgnored, Ends, Raise,
     ErrbackDone, HandleErrorDone, Propagate, FailInErrback, FailInDataReceived,
     DropInv, link
<1>10. CASE RequestFails \/ ReturnsValue
  BY <1>s, <1>10, <1>b, SelfType, CallFrameType
  DEF RequestFails, ReturnsValue, Ends, Ats, link
<1>11. CASE ReturnsFiredDeferred
  <2>1. PICK fn \in {"_cb_deferred", "_eb_deferred"} : Become(Frame(fn, Self, "start"))
    BY <1>11 DEF ReturnsFiredDeferred
  <2>2. Frame(fn, Self, "start") \in Frames
    BY <1>s, <1>11, SelfType, CallFrameType DEF ReturnsFiredDeferred, Ends, Ats
  <2> QED
    BY <1>11, <1>b, <2>1, <2>2 DEF ReturnsFiredDeferred, Ends, link
<1>12. CASE Respond
  BY <1>s, <1>12, <1>c, SelfType, CallFrameType DEF Respond, Callbacks, Ats, link
<1>13. CASE Errback \/ CatchInCallback
  BY <1>s, <1>13, <1>c, SelfType, CallFrameType
  DEF Errback, CatchInCallback, Callbacks, Ats, link
<1>14. CASE HandleError
  BY <1>s, <1>14, <1>b, <1>c, <1>r, SelfType, CallFrameType
  DEF HandleError, Raise, DropInv, Ats, link
<1>15. CASE Store
  BY <1>s, <1>15, <1>b, <1>r, SelfType, CallFrameType
  DEF Store, Raise, DropInv, Ats, link
<1>16. CASE FlushDone
  BY <1>16, <1>b, LoopFrameType DEF FlushDone, Ats, link
<1>17. CASE Finally \/ FailInExcept
  <2>1. /\ stack # <<>> /\ Self \in Req
        /\ Return \/ Become(Frame("_eb_deferred", Self, "start"))
        /\ UNCHANGED <<disconnecting, conn>>
    BY <1>17, CallbackCloses DEF Finally, FailInExcept, link
  <2>2. Frame("_eb_deferred", Self, "start") \in Frames
    BY <2>1, CallFrameType DEF Ats
  <2> QED
    BY <1>b, <1>r, <2>1, <2>2 DEF DropInv
<1> QED
  BY <1>1, <1>2, <1>3, <1>4, <1>5, <1>6, <1>7, <1>8, <1>9, <1>10, <1>11, <1>12,
     <1>13, <1>14, <1>15, <1>16, <1>17 DEF Next, Step

\* Once the server has decided to drop the connection it reads nothing more.
THEOREM DropStops == Spec => DropStopsReading
<1>1. Init => DropInv
  BY DEF Init, DropInv
<1>2. StackInv /\ DropInv /\ [Next]_vars => DropInv'
  BY DropActions DEF StackInv, QueueInv
<1>3. DropInv /\ [Next]_vars => [disconnecting => next' = next]_vars
  <2>1. ASSUME DropInv, disconnecting, NextMessage
        PROVE  FALSE
    BY <2>1 DEF DropInv, NextMessage, Running
  <2>2. ASSUME Admit \/ FlushOne
        PROVE  next' = next
    BY <2>2 DEF Admit, Start, FlushOne, WriteHead
  <2> QED
    BY <2>1, <2>2, PipelineActions DEF pipeline
<1> QED
  BY <1>1, <1>2, <1>3, FramesCorrect, PTL DEF Spec, DropStopsReading
=============================================================================
