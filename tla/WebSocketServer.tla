---------------------------- MODULE WebSocketServer ----------------------------
(***************************************************************************)
(* A message to the websocket server: frameReceived, _cb_deferred and        *)
(* _eb_deferred of spyne/server/twisted/websocket.py.  An exception that     *)
(* leaves frameReceived makes the reactor drop the connection; a write to a  *)
(* connection that is lost is dropped.  Besides the fields of ServerBase's   *)
(* request the state has                                                    *)
(*   at        "arrived", "received", or "dropped" with its connection      *)
(*   once      out_string is a generator, as those of JsonDocument and      *)
(*             MessagePackDocument are: it is "empty" once it was joined     *)
(*   text      the strings of out_string join to a text that the connection  *)
(*             writes, as on Python 2; on Python 3 they are bytes            *)
(*   deferred  the Deferred user code returned: "none", "pending", "fired"  *)
(*   sent      the frames sent in response                                  *)
(***************************************************************************)
EXTENDS ServerBase

VARIABLE q

NewMessage(many, once, text) ==
    WithFields(NewRequest(many),
        [at |-> "arrived", once |-> once, text |-> text, deferred |-> "none",
         sent |-> <<>>])

\* out_string is joined and sent.  Joining a generator serializes what it holds,
\* which may raise; it is used up in either case.
SendFrame(p) ==
    LET joined == [p EXCEPT !.string = IF p.once THEN "empty" ELSE @]
    IN  IF ~p.text THEN Raises(Blame(joined, "frame"), "Exception")
        ELSE {[joined EXCEPT !.sent = Append(@, p.string)]}
               \cup IF p.once /\ p.string # "empty"
                    THEN Raises(Blame(joined, Kind(p)), "Exception") ELSE {}

\* The auxiliary methods are run by the errback as well.
BadRespond(p) ==
    Then(Then(Then(GetOutString(p), SendFrame), Close), LAMBDA c : ProcessContexts(c, FALSE))

\* What the callback and the errback begin with.
Respond(p) == Then(Then(GetOutString(p), SendFrame), Close)

\* Unlike the other servers' handlers, it does not say that there was an error.
CbDeferred(p) == Then(Respond(p), LAMBDA c : ProcessContexts(c, FALSE))

\* What was serialized is forgotten.
BadEbDeferred(p, exc) ==
    Respond([p EXCEPT !.error = IF exc = "Fault" THEN "Fault" ELSE "Server",
                      !.document = "none", !.string = "none"])

\* What was serialized is kept, so a failure that follows the response sends it
\* a second time, or an empty frame when it was a generator.
EbDeferred(p, exc) ==
    Respond([p EXCEPT !.error = IF exc = "Fault" THEN "Fault" ELSE "Server"])

\* Exceptions of the response are logged instead of leaving frameReceived.
BadFrameReceived(p) ==
    LET called == Then(Receive(p), LAMBDA c :
                       IF c.error = "none" THEN GetOutObject(c) ELSE {c})
    IN  Then(called, LAMBDA c :
             IF c.error = "none" /\ c.object.items = <<"deferred">>
             THEN {[c EXCEPT !.deferred = "pending"]} ELSE Logged(CbDeferred(c)))

\* The object of a method that failed is its error.  An empty list has no first
\* element, and a PushBase is not implemented.
FrameReceived(p) ==
    LET called == Then(Receive(p), LAMBDA c :
                       IF c.error = "none" THEN GetOutObject(c) ELSE {c})
    IN  Then(called, LAMBDA c :
             IF c.error # "none" THEN CbDeferred(c)
             ELSE IF c.object = List(<<>>) THEN Raises(c, "Exception")
             ELSE CASE First(c) = "deferred" -> {[c EXCEPT !.deferred = "pending"]}
                    [] First(c) = "push" -> Raises(c, "Exception")
                    [] OTHER -> CbDeferred(c))

-----------------------------------------------------------------------------

Init == \E many, once, text \in BOOLEAN : q = NewMessage(many, once, text)

Receives ==
    /\ q.at = "arrived"
    /\ q' \in {[c EXCEPT !.exc = "none",
                         !.at = IF c.exc = "none" THEN "received" ELSE "dropped"] :
               c \in FrameReceived(q)}

Fired == [q EXCEPT !.deferred = "fired"]

\* The callbacks of a Deferred: the errback follows the callback, and hears of
\* its failure too.
DeferredFires ==
    /\ q.deferred = "pending"
    /\ q' \in Logged(UNION {IF c.exc = "none" THEN {c}
                            ELSE EbDeferred([c EXCEPT !.exc = "none"], c.exc) :
                            c \in CbDeferred(Fired)})

DeferredFails ==
    /\ q.deferred = "pending"
    /\ \E exc \in Exceptions : q' \in Logged(EbDeferred(Fired, exc))

Next == Receives \/ DeferredFires \/ DeferredFails

\* User code fires the Deferreds it returned.
Spec == Init /\ [][Next]_q
FairSpec == Spec /\ WF_q(DeferredFires \/ DeferredFails)

-----------------------------------------------------------------------------

\* A message has one response, unless something raised behind the response of a
\* Deferred: then a second frame follows, the same again or, when the response
\* was a generator, an empty one, and never another response.  A generator that
\* raised while it was joined leaves an empty frame for the only one.
OneResponse ==
    /\ Len(q.sent) > 1 =>
           q.deferred = "fired" /\ WentWrong(q, {"aux", "method_context_closed"})
    /\ \A i \in 2 .. Len(q.sent) : q.sent[i] = IF q.once THEN "empty" ELSE q.sent[1]
    /\ q.sent # <<>> /\ q.sent[1] = "empty" =>
           q.once /\ q.deferred = "fired" /\ WentWrong(q, {"result"})

\* No client waits for ever: a message that was received is answered or its connection dropped,
\* unless the fault itself could not be serialized for the response of a
\* Deferred, or no response can be sent at all.
NeverSilent ==
    q.at # "arrived" ~>
        q.sent # <<>> \/ q.at = "dropped" \/ WentWrong(q, {"fault", "frame"})

\* Auxiliary methods run at most once; after a Deferred that failed, or whose
\* response did, none of them runs, not even those that process exceptions.
AuxUnlessFailed ==
    \A a \in Aux : q.aux[a] <= IF q.deferred = "fired" /\ q.error # "none"
                               THEN IF WentWrong(q, {"aux"}) THEN 1 ELSE 0 ELSE 1
=============================================================================
