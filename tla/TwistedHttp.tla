----------------------------- MODULE TwistedHttp -----------------------------
(***************************************************************************)
(* One request to the Twisted HTTP server: TwistedWebResource, _cb_deferred *)
(* and _eb_deferred of spyne/server/twisted/http.py, the Producer of        *)
(* _base.py and the push half of spyne/server/_base.py.                     *)
(*                                                                          *)
(* The reactor calls render, the callbacks of the Deferred that user code   *)
(* returned, the producer, and tells when the client has gone; between two  *)
(* such calls anything else may happen.  Each call runs to its end in one   *)
(* step, so a step is one outcome of a call in the sense of ServerBase, and *)
(* the operators carry the names of the functions they stand for.           *)
(*                                                                          *)
(* Besides the fields of ServerBase's request the state has                *)
(*   out        what serialization writes to: the "string" of the context,  *)
(*              or, as p_ctx.out_stream, the request itself ("stream"), what *)
(*              the protocols of cloth and HTML do                           *)
(*   resp       transport.resp_code: "none", or the user's "own"            *)
(*   deferred   the Deferred user code returned: "none", "pending", "fired" *)
(*   producer   "none", "on", the "file" of static.File, or "dead" when it *)
(*              raised; body and left: what it holds, chunks to go         *)
(*   push       the Deferred of a PushBase: "none", "pending" for the one   *)
(*              that is the result, "interim" for one found in the result    *)
(*              while it was streamed, or "interim_over" once its generator  *)
(*              raised; "fired" or, returned in another thread, "stuck"      *)
(*   gen, stack the generator of the PushBase that is the result, "none",    *)
(*              "open" or "over", and whether it is in pusher_stack          *)
(*   notify     whether notifyFinish has the callbacks of _cb_deferred     *)
(*   reply      what render returns, "none" for NOT_DONE_YET               *)
(*   code, head the response code, "own" when it is the user's, and the one *)
(*              the headers left with                                       *)
(*   sent       what was written to a client that was there                *)
(*   finished, gone  the request was finished, its client has left         *)
(***************************************************************************)
EXTENDS ServerBase

CONSTANTS
    Chunks,      \* chunks of a response body
    MaxPushes    \* bound: objects appended to a PushBase

ASSUME TwistedHttpAssumption ==
    /\ Chunks \in Nat \ {0}
    /\ MaxPushes \in Nat

VARIABLES
    at,  \* "arrived", or "rendered" once render has returned
    q    \* the request, see above

vars == <<at, q>>

NewHttpRequest(many, out) ==
    WithFields(NewRequest(many),
        [out |-> out, resp |-> "none", deferred |-> "none", producer |-> "none", body |-> "none", left |-> 0,
         push |-> "none", gen |-> "none", stack |-> FALSE, notify |-> FALSE,
         reply |-> "none", code |-> "unset", head |-> "none", sent |-> <<>>,
         finished |-> FALSE, gone |-> FALSE])

-----------------------------------------------------------------------------
(* The request object of twisted.web.                                      *)

\* The headers leave with the first write.  A write to a client that has gone is
\* dropped, one to a finished request raises.  An empty string comes only behind
\* what was streamed, and adds nothing to it.
Write(p, what) ==
    IF p.finished THEN Raises(p, "Exception")
    ELSE IF p.gone \/ what = "empty" THEN {p}
    ELSE {[p EXCEPT !.sent = Append(@, what), !.head = IF @ = "none" THEN p.code ELSE @]}

\* A finish that comes too late raises, a second one is only warned about; the
\* first drops the producer and runs the callbacks of notifyFinish.
Finish(p) ==
    IF p.gone THEN Raises(p, "Exception")
    ELSE IF p.finished THEN {p}
    ELSE LET over == [p EXCEPT !.finished = TRUE, !.producer = "none"]
         IN  IF p.notify THEN Logged(Except(Close(over), Exceptions, Close)) ELSE {over}

-----------------------------------------------------------------------------
(* The server base, when out_stream is the request.                        *)

\* Serialization, create_out_string or a listener between them raises.
SerializationRaises(p) ==
    Raises(Blame(p, Kind(p)), "Exception") \cup Raises(Blame(p, Kind(p)), "Fault")

\* The markup behind what was pushed is written.
EndDocument(p, what) ==
    Then(Write(p, what), LAMBDA c : {c} \cup SerializationRaises(c)) \cup SerializationRaises(p)

\* finalize_context finds an empty string.
FinalizeStream(p) == {[p EXCEPT !.string = "empty"]}

\* PushBase.close of a PushBase found in the result: the rest of the document
\* follows, and nothing finalizes the context.
InterimClose(p) ==
    IF p.push = "interim_over" THEN {p} ELSE EndDocument(p, "result")

\* convert_pull_to_push.  The callback of the PushBase may append to it.
InitInterimPush(p) ==
    LET pushed(c) == {c} \cup IF MaxPushes > 0
                              THEN Write(c, "result") \cup SerializationRaises(c) ELSE {}
        init == Then(Then(FireEvent(p, "method_return_push"), LAMBDA c : pushed(c)),
                     LAMBDA c : Returns(c) \cup Raises(Blame(c, "push"), "Exception"))
    IN  Then(init, LAMBDA c :
             InterimClose(c)
               \cup {[c EXCEPT !.push = "interim"]}
               \cup IF c.deferred = "fired"
                    THEN {[Blame(c, "thread") EXCEPT !.push = "stuck"]} ELSE {})

\* The document goes to the request as it is made, as far as it is made.
StreamOut(p) ==
    SerializationRaises(p)
      \cup Then(Write(p, Kind(p)), LAMBDA c :
               FinalizeStream(c) \cup SerializationRaises(c)
                 \cup IF p.error = "none" THEN InitInterimPush(c) ELSE {})

\* ServerBase.get_out_string.
GetOut(p) ==
    IF p.string # "none" THEN {p}
    ELSE IF p.out = "string" THEN GetOutString(p) ELSE StreamOut(p)

\* get_out_string_push, once Break has ended it.
FinalizePush(p) ==
    IF p.out = "string" THEN GetOutString(p)
    ELSE Then(EndDocument(p, "push"), FinalizeStream)

\* PushBase.close: Break ends the generator, which finalizes the context the
\* first time, and the callback of init_root_push processes the others.
PusherClose(p) ==
    Then(IF p.gen = "over" THEN {p} ELSE FinalizePush([p EXCEPT !.gen = "over"]),
         LAMBDA c : ProcessContexts(c, FALSE))

\* ServerBase.pusher_try_close; pop raises when the stack is empty.
BasePusherTryClose(p) ==
    Then(PusherClose(p), LAMBDA c :
         IF c.stack THEN {[c EXCEPT !.stack = FALSE]} ELSE Raises(c, "Exception"))

\* The pusher is root, so the stream is finished.
PusherTryClose(p) == Then(BasePusherTryClose(p), Finish)

\* _cb_push_close and _eb_push_close.
EbPushClose(p) ==
    Logged({IF c.exc = "none" THEN c ELSE Blame(c, "fault") : c \in PusherTryClose(p)})
CbPushClose(p) == Except(PusherTryClose(p), Exceptions, EbPushClose)

\* gen.send: the object is serialized to out_stream.  When that raises, so
\* does append, and the generator is over.
Push(p) ==
    Write(p, "push")
      \cup {[Blame(p, "result") EXCEPT !.exc = "Exception", !.gen = "over"]}

\* The callback of the PushBase: it may append, and returns a Deferred or not.
PusherInit(p) ==
    LET pushed == {p} \cup IF MaxPushes > 0 THEN Push(p) ELSE {}
    IN  Then(pushed, LAMBDA c : Returns(c) \cup Raises(Blame(c, "push"), "Exception"))

\* The pusher is closed when init returns, unless that is a Deferred.  For a
\* PushBase made in another thread init runs in a thread too, and the Deferred
\* of deferToThread does not fire with a Deferred.
InitRootPush(p) ==
    IF p.stack THEN {p}
    ELSE LET fired == FireEvent([p EXCEPT !.stack = TRUE], "method_return_push")
             init == Then(fired, LAMBDA c : PusherInit([c EXCEPT !.gen = "open"]))
         IN  Then(init, LAMBDA c :
                  PusherTryClose(c)
                    \cup {[c EXCEPT !.push = "pending"]}
                    \cup IF c.deferred = "fired"
                         THEN {[Blame(c, "thread") EXCEPT !.push = "stuck"]} ELSE {})

-----------------------------------------------------------------------------
(* The Twisted server.                                                     *)

\* transport.resp_code and out_string as user code sets them.
SetAnswer(p, code, string) == [p EXCEPT !.resp = code, !.string = string]

\* The user's response code is overwritten.
BadCodeOr(p, code) == code

\* The user's response code is not touched.
CodeOr(p, code) == IF p.resp = "own" THEN "own" ELSE code

\* The code of the result stays.
BadHandleRpcError(p) ==
    LET closed == Then(GetOut([p EXCEPT !.document = "none", !.string = "none"]), Close)
    IN  Then(closed, LAMBDA c : ProcessContexts(c, TRUE))

\* A fresh document and string are made for the error.
HandleRpcError(p) ==
    LET coded == [p EXCEPT !.code = CodeOr(p, "error"), !.document = "none",
                           !.string = "none"]
        closed == Then(GetOut(coded), Close)
    IN  Then(closed, LAMBDA c : ProcessContexts(c, TRUE))

\* The request is not finished.
BadEbFault(p, exc) ==
    LET failed == [p EXCEPT !.error = IF exc = "Fault" THEN "Fault" ELSE "Server"]
        handled == Then(HandleRpcError(failed), LAMBDA c :
                        FireEvent(c, "method_exception_object"))
    IN  Then(handled, LAMBDA c : Write(c, c.string))

\* _eb_deferred for a Fault or any other exception.
EbFault(p, exc) ==
    LET failed == [p EXCEPT !.error = IF exc = "Fault" THEN "Fault" ELSE "Server"]
        handled == Then(HandleRpcError(failed), LAMBDA c :
                        FireEvent(c, "method_exception_object"))
    IN  Then(Then(handled, LAMBDA c : Write(c, c.string)), Finish)

\* Only half of the work.
BadCbLeavesOpen(p) == Finish(p)
BadCbLeavesWaiting(p) == Close(p)

\* The last chunk is out.
CbRequestFinished(p) == Then(Finish(p), Close)

EbRequestFinished(p) == Then(Close(p), Finish)

\* There is no channel to register with once the client has gone.
RegisterProducer(p) ==
    IF p.gone \/ p.finished \/ p.producer # "none"
    THEN EbFault(Blame(p, "producer"), "Exception")
    ELSE {[p EXCEPT !.producer = "on", !.body = p.string, !.left = Chunks]}

\* notifyFinish is asked for a page as well.
BadRenderFile(p) ==
    LET page == Then(Then(Write([p EXCEPT !.notify = TRUE], "result"), Finish), Close)
        file == IF p.gone THEN Raises(Blame(p, "producer"), "Exception")
                ELSE {[p EXCEPT !.producer = "file", !.notify = TRUE]}
    IN  page \cup file

\* _render_file: a page instead of the file, or the file, for which there is no
\* channel once the client has gone.
RenderFile(p) ==
    LET page == Then(Then(Write(p, "result"), Finish), Close)
        file == IF p.gone THEN Raises(Blame(p, "producer"), "Exception")
                ELSE {[p EXCEPT !.producer = "file", !.notify = TRUE]}
    IN  page \cup file

\* A PushBase found in the result is waited for instead of produced from.
CbDeferred(p, ret) ==
    LET coded == [p EXCEPT !.code = CodeOr(p, "200")]
        started == CASE ret = "push" -> InitRootPush(coded)
                     [] ret = "file" /\ p.out = "string" -> RenderFile(coded)
                     [] OTHER -> Then(GetOut(coded), LAMBDA c :
                                      IF c.push = "interim" THEN {c} ELSE RegisterProducer(c))
    IN  Then(started, LAMBDA c : ProcessContexts(c, FALSE))

\* do_redirect makes the code and the string of the response.  It is produced
\* as if it were the result, and finished by the statement that follows the
\* branches.
EbRedirect(p) ==
    LET redirected == Returns(SetAnswer(p, "own", "result"))
                        \cup Raises(p, "Exception")
        out == Then(redirected, LAMBDA c : CbDeferred(c, "none"))
        fired == Then(out, LAMBDA c : FireEvent(c, "method_redirect"))
        caught == Except(fired, Exceptions, LAMBDA c :
                         ErrorObject(c, "Server", "method_redirect_exception"))
    IN  Then(caught, Finish)

EbDeferred(p, exc) ==
    IF exc = "Redirect" THEN EbRedirect(Blame(p, "redirect")) ELSE EbFault(p, exc)

\* What _cb_deferred raised goes to _eb_deferred.
CatchWith(outcomes) ==
    UNION {IF s.exc = "none" THEN {s}
           ELSE EbDeferred([s EXCEPT !.exc = "none"], s.exc) :
           s \in outcomes}

\* _cb_deferred is given what the list holds, a PushBase too.
BadDispatch(p) ==
    IF ~HasFirst(p) THEN Raises(p, "Exception")
    ELSE IF First(p) = "deferred" THEN {[p EXCEPT !.deferred = "pending"]}
    ELSE Logged(CatchWith(CbDeferred(p, First(p))))

\* out_object[0], and what it means.  Without a Deferred _cb_deferred is given
\* the whole list, in which it looks for no PushBase and no file.
Dispatch(p) ==
    IF ~HasFirst(p) THEN Raises(p, "Exception")
    ELSE CASE First(p) = "deferred" -> {[p EXCEPT !.deferred = "pending"]}
           [] First(p) = "push" -> InitRootPush(p)
           [] OTHER -> Logged(CatchWith(CbDeferred(p, "value")))

\* User code may set either; do_redirect did.
UserSets(p) ==
    IF "method_redirect" \in ToSet(p.events) THEN {SetAnswer(p, "own", "result")}
    ELSE {SetAnswer(p, code, string) :
              code \in {p.resp, "own"}, string \in {p.string, "result"}}

HandleRpc(p) ==
    LET received == Receive(p)
        called == Then(received, LAMBDA c :
                       IF c.error = "none" THEN UNION {UserSets(d) : d \in GetOutObject(c)}
                       ELSE {c})
    IN  Then(called, LAMBDA c :
             IF c.error = "none" THEN Dispatch(c)
             ELSE Then(HandleRpcError(c), LAMBDA d : {[d EXCEPT !.reply = d.string]}))

\* What render returned is written; an exception becomes the page of Twisted.
Reply(p) ==
    IF p.exc # "none"
    THEN Then(Write([Blame(p, "escaped") EXCEPT !.exc = "none", !.code = "error"], "500"),
              Finish)
    ELSE IF p.reply = "none" THEN {p}
    ELSE Then(Write(p, p.reply), Finish)

-----------------------------------------------------------------------------
(* What the reactor calls.                                                 *)

Init ==
    /\ at = "arrived"
    /\ \E many \in BOOLEAN, out \in {"string", "stream"} :
           q = NewHttpRequest(many, out)

Settle(outcomes) == q' \in Logged(outcomes)

Render ==
    /\ at = "arrived"
    /\ at' = "rendered"
    /\ Settle(UNION {Reply(p) : p \in HandleRpc(q)})

Fired == [q EXCEPT !.deferred = "fired", !.raised = IF q.gone THEN @ \cup {"left"} ELSE @]

DeferredFires ==
    /\ q.deferred = "pending"
    /\ \E ret \in {"value", "push", "file"}, p \in UserSets(Fired) :
           Settle(CatchWith(CbDeferred(p, ret)))
    /\ UNCHANGED at

DeferredFails ==
    /\ q.deferred = "pending"
    /\ \E exc \in Exceptions, p \in UserSets(Fired) : Settle(EbDeferred(p, exc))
    /\ UNCHANGED at

\* The body may be a generator that raises: the exception ends the pulling, and
\* nobody tells the Deferred of the producer.  There is no body at all when a
\* PushBase found in the result was closed at once: then next raises.
ResumeProducing ==
    /\ q.producer = "on"
    /\ q.left > 0
    /\ \/ q.body # "none" /\ Settle(Write([q EXCEPT !.left = @ - 1], q.body))
       \/ q' = [Blame(q, "body") EXCEPT !.producer = "dead"]
    /\ UNCHANGED at

StopIteration ==
    /\ q.producer = "on"
    /\ q.left = 0
    /\ Settle(Except(CbRequestFinished([q EXCEPT !.producer = "none"]), Exceptions,
                     EbRequestFinished))
    /\ UNCHANGED at

FileEnds ==
    /\ q.producer = "file"
    /\ Settle(Then(Write([q EXCEPT !.producer = "none"], "result"), Finish))
    /\ UNCHANGED at

\* User code appends an object while its Deferred has not fired.
AppendObject ==
    /\ q.push = "pending"
    /\ q.gen = "open"
    /\ Len(q.sent) < MaxPushes
    /\ Settle(Push(q))
    /\ UNCHANGED at

\* The same for a PushBase found in the result.
AppendInterim ==
    /\ q.push = "interim"
    /\ Len(q.sent) < MaxPushes
    /\ \/ Settle(Write(q, "result"))
       \/ Settle(SerializationRaises([q EXCEPT !.push = "interim_over"]))
    /\ UNCHANGED at

PushEnds ==
    /\ q.push = "pending"
    /\ LET over == [q EXCEPT !.push = "fired"]
       IN  Settle(CbPushClose(over)) \/ Settle(EbPushClose(over))
    /\ UNCHANGED at

\* Its Deferred fires, then the one that get_out_string returned.
InterimEnds ==
    /\ q.push \in {"interim", "interim_over"}
    /\ LET closed == {[c EXCEPT !.push = "fired"] : c \in Logged(InterimClose(q))}
       IN  Settle(UNION {Except(CbRequestFinished(c), Exceptions, EbRequestFinished) :
                         c \in closed})
    /\ UNCHANGED at

\* The producer is stopped, then the request learns of it.
ClientLeaves ==
    /\ at = "rendered"
    /\ ~q.gone
    /\ ~q.finished
    /\ LET stopped == IF q.producer = "on"
                      THEN Logged(EbRequestFinished([q EXCEPT !.producer = "none"]))
                      ELSE {q}
           left == {[p EXCEPT !.gone = TRUE, !.producer = "none"] : p \in stopped}
       IN  Settle(UNION {IF p.notify THEN EbRequestFinished(p) ELSE {p} : p \in left})
    /\ UNCHANGED at

Next ==
    \/ Render
    \/ DeferredFires \/ DeferredFails
    \/ ResumeProducing \/ StopIteration \/ FileEnds
    \/ AppendObject \/ PushEnds
    \/ AppendInterim \/ InterimEnds
    \/ ClientLeaves

\* The reactor goes on pulling, and user code fires the Deferreds it returned.
\* Of those, the one of the method is told by its field: it stays pending until
\* DeferredFires or DeferredFails, so that this is their weak fairness.
Fairness ==
    /\ []<>(q.deferred # "pending")
    /\ WF_vars(ResumeProducing)
    /\ WF_vars(StopIteration)
    /\ WF_vars(FileEnds)
    /\ WF_vars(PushEnds)
    /\ WF_vars(InterimEnds)

Spec == Init /\ [][Next]_vars
FairSpec == Spec /\ Fairness

-----------------------------------------------------------------------------
(* Properties.                                                             *)

\* The fields stay in their ranges.
TypeOK ==
    /\ at \in {"arrived", "rendered"}
    /\ q.exc = "none"
    /\ RequestOK(q)
    /\ q.deferred \in {"none", "pending", "fired"}
    /\ q.producer \in {"none", "on", "file", "dead"}
    /\ q.left \in 0 .. Chunks
    /\ q.push \in {"none", "pending", "interim", "interim_over", "fired", "stuck"}
    /\ q.gen \in {"none", "open", "over"}
    /\ q.out \in {"string", "stream"}
    /\ q.resp \in {"none", "own"}
    /\ q.head \in {"none", "unset", "200", "error", "own"}
    /\ q.sent \in Seq({"result", "fault", "push", "500"})
    /\ {q.stack, q.notify, q.finished, q.gone} \subseteq BOOLEAN

Pushed == q.gen # "none"

\* What was streamed is with the client already when something raises: the
\* serialization itself, a PushBase found on the way, an auxiliary method, or
\* what follows a streamed fault and is not caught.
Broken == q.out = "stream"
          /\ WentWrong(q, {"result", "push", "method_return_push", "aux", "escaped"})

\* The client is never sent parts of two documents: neither a result with a
\* fault behind it nor the other way round, whenever user code, serialization
\* or an auxiliary method fails.  Only what a PushBase wrote may be followed by
\* another document, and what a protocol that streams had written when it failed.
OneAnswer ==
    \A i, j \in DOMAIN q.sent : i < j => q.sent[i] \in {q.sent[j], "push"} \/ Broken

\* The response code that leaves with the headers is the one of the document
\* that follows, or the user's.  A response that is pushed or streamed commits
\* to its code before it may fail; an auxiliary method that fails again while
\* the error it caused is handled leaves the code of the error on the result.
StatusMatches ==
    /\ "result" \in ToSet(q.sent) => q.head \in {"200", "own"} \/ WentWrong(q, {"aux"})
    /\ "fault" \in ToSet(q.sent) => q.head \in {"error", "own"} \/ Pushed \/ Broken

\* A code that user code set is the one that leaves.  It is lost when a PushBase
\* is returned at once, it comes too late with the redirect of a response that
\* has begun, and Twisted has its own for what escapes.
OwnCodeKept ==
    q.resp = "own" =>
        q.head \in {"none", "own"} \/ Pushed \/ WentWrong(q, {"escaped", "redirect"})

\* What the client gets is one document under its own response code.
RightAnswer == OneAnswer /\ StatusMatches /\ OwnCodeKept

\* The context is closed once, unless an auxiliary method raised or the client
\* had left when the Deferred of the method fired.
ClosedOnce == q.closed > 1 => WentWrong(q, {"aux", "left"})

\* An auxiliary method runs once for a request.  It runs twice when one of them
\* raised, when the client had left, and for a PushBase that a Deferred returned
\* or whose client left: then init_root_push or _eb_push_close and _cb_deferred
\* both process the contexts.
AuxOnce ==
    \A a \in Aux : q.aux[a] > 1 =>
        \/ WentWrong(q, {"aux", "left"})
        \/ Pushed /\ (q.deferred = "fired" \/ q.gone)

\* What ends a request happens once, with the exceptions the parts tell.
OnceEach == ClosedOnce /\ AuxOnce

\* Every request is finished or its client leaves, whatever order results,
\* failures and chunks come in.  What may keep a client waiting is a body that
\* raises while it is produced, a pusher stuck in another thread, and a failure
\* while a failure is handled.
Answered ==
    at = "rendered" ~>
        \/ q.finished \/ q.gone
        \/ q.producer = "dead" \/ q.push = "stuck"
        \/ WentWrong(q, {"fault", "aux", "method_exception_object",
                      "method_redirect_exception", "method_context_closed"})

\* Every context is closed in the end, also when the client leaves, so that its
\* files are.  The exceptions: push responses and redirects by a Deferred, which
\* never close it, a body that raises, and what _eb_deferred does not catch.
Released ==
    at = "rendered" ~>
        \/ q.closed > 0
        \/ Pushed
        \/ WentWrong(q, {"escaped", "redirect", "body", "fault", "method_context_closed"})
=============================================================================
