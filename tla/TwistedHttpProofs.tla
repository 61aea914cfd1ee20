-------------------------- MODULE TwistedHttpProofs --------------------------
(* Proofs about a request to the Twisted HTTP server.                      *)
EXTENDS TwistedHttp, ServerBaseProofs, TLAPS

HttpFields == {"out", "resp", "deferred", "producer", "body", "left", "push", "gen", "stack", "notify",
               "reply", "code", "head", "sent", "finished", "gone"}

\* What the invariant does not speak about, and raised, which only grows.
Free == {"exc", "events", "error", "object", "many", "raised", "document", "string", "left"}

\* Of what the invariant speaks about only the fields in changed differ in c.
Change(p, c, changed) == Kept(p, c, changed \cup Free)

-----------------------------------------------------------------------------
(* The invariant.                                                          *)

\* The exceptions to OnceEach: an auxiliary method has raised or the client had
\* left, or there is a push and the contexts are processed twice.
Excused(p) == p.raised \cap {"aux", "left"} # {}
Escaped(p) == Excused(p) \/ (p.gen # "none" /\ (p.deferred = "fired" \/ p.gone))

\* Nothing that is written from now on reaches the client.
Silent(p) == p.finished \/ p.gone

\* The exception to RightAnswer: what was streamed is with the client already.
Torn(p) ==
    /\ p.out = "stream"
    /\ p.raised \cap {"result", "push", "method_return_push", "aux", "escaped"} # {}

OnlySent(p, kinds) == \A i \in DOMAIN p.sent : p.sent[i] \in kinds

\* Another document may be written.
PushOnly(p) == Silent(p) \/ Torn(p) \/ OnlySent(p, {"push"})

\* The code that a first write sends is the user's, if there is one.
Uncoded(p) == p.gen # "none" \/ p.raised \cap {"escaped", "redirect"} # {}
Coded(p) == p.resp = "own" => p.code = "own" \/ Uncoded(p)

\* A PushBase found in the result is waited for.
Interim(p) == p.push \in {"interim", "interim_over"}

\* Somebody is at work on the result, and will close the context.
Busy(p) == p.producer \in {"on", "file"} \/ Interim(p)

AuxZero(p) == \A a \in Aux : p.aux[a] = 0

\* The auxiliary methods may run, as nothing will run them after that.
AuxOpen(p) == Escaped(p) \/ (AuxZero(p) /\ p.push # "pending")

Shape(p) ==
    /\ Fields \cup HttpFields \subseteq DOMAIN p
    /\ p.aux \in [Aux -> Nat]
    /\ p.others \in {<<>>, [i \in Aux |-> i]}
    /\ p.closed \in Nat
    /\ p.sent \in Seq({"result", "fault", "push", "500"})
    /\ p.out \in {"string", "stream"}

\* RightAnswer and OnceEach, and what a write has to know.
Sound(p) ==
    /\ Shape(p)
    /\ \A i, j \in DOMAIN p.sent : i < j => p.sent[i] \in {p.sent[j], "push"} \/ Torn(p)
    /\ \A i \in DOMAIN p.sent :
           /\ p.sent[i] = "result" => p.head \in {"200", "own"} \/ "aux" \in p.raised
           /\ p.sent[i] = "fault" =>
                  p.head \in {"error", "own"} \/ p.gen # "none" \/ Torn(p)
           /\ p.sent[i] = "push" => p.gen # "none"
    /\ p.sent = <<>> => p.head = "none"
    /\ p.resp = "own" => p.head \in {"none", "own"} \/ Uncoded(p)
    /\ p.closed > 1 => Excused(p)
    /\ \A a \in Aux : p.aux[a] > 1 => Escaped(p)

\* Who may still close the context and run the auxiliary methods: the end of the
\* producer, of a PushBase found in the result or of the request closes it, the end
\* of a push runs them.
Quiet(p) ==
    /\ Sound(p)
    /\ p.deferred # "pending"
    /\ p.push = "pending" =>
           /\ p.gen # "none" /\ p.producer \notin {"on", "file"}
           /\ Escaped(p) \/ (p.stack /\ AuxZero(p))
    /\ \/ Excused(p) \/ p.closed = 0
       \/ ~Busy(p) /\ (p.notify => Silent(p))
    /\ Excused(p) \/ p.producer # "on" \/ ~p.notify
    /\ Interim(p) => Excused(p) \/ (~p.notify /\ p.producer = "none")
    /\ Busy(p) =>
           /\ Coded(p)
           /\ \/ Silent(p) \/ "aux" \in p.raised
              \/ OnlySent(p, {"result"}) /\ p.code \in {"200", "own"}
    /\ p.producer = "on" => p.body \in {"result", "empty", "none"}

\* What is still written is more of the document that was begun.
Orderly(p) ==
    /\ p.push = "pending" => OnlySent(p, {"push"})
    /\ Busy(p) => OnlySent(p, {"result"})
Working(p) == p.reply = "none" /\ (Torn(p) \/ Orderly(p))

\* Between two calls of the reactor.
Settled(p) == Quiet(p) /\ (Silent(p) \/ Working(p))

\* A failure may be handled.
Failing(p) ==
    /\ Settled(p) /\ PushOnly(p) /\ AuxOpen(p)
    /\ Excused(p) \/ (p.closed = 0 /\ ~p.notify /\ p.producer = "none" /\ ~Interim(p))
    /\ (p.producer = "none" /\ p.push # "pending" /\ ~Interim(p)) \/ "aux" \in p.raised

\* The response has begun and the auxiliary methods may run.
Started(p) == Settled(p) /\ (PushOnly(p) \/ p.out = "stream") /\ AuxOpen(p)

\* The context may be closed.
Unclosed(p) ==
    \/ Excused(p)
    \/ p.closed = 0 /\ ~Busy(p) /\ (p.notify => Silent(p))

\* Nothing was done for the response.
Blank(p) ==
    /\ Shape(p)
    /\ p.sent = <<>> /\ p.head = "none" /\ p.reply = "none"
    /\ p.producer = "none" /\ p.push = "none" /\ p.gen = "none"
    /\ p.closed = 0 /\ AuxZero(p) /\ ~p.notify /\ ~p.finished

Waiting(p) ==
    /\ Blank(p)
    /\ p.error = "none"
    /\ p.document \in {"none", "result"}
    /\ p.string \in {"none", "result"}

\* The result is there, or its failure.
Reached(p) == p.deferred # "pending" /\ (p.gone => "left" \in p.raised)
Fresh(p) == Waiting(p) /\ Reached(p)

\* Once the request is over or its client has left, a failure is all there is.
Late(p) == Failing(p) /\ (p.finished \/ (p.gone /\ Excused(p)))

\* The result is there and may be streamed, or its string produced.
Ready(p) ==
    /\ Settled(p) /\ Coded(p)
    /\ OnlySent(p, {"result"}) /\ p.code \in {"200", "own"}
    /\ p.sent = <<>> \/ p.out = "stream"
    /\ p.producer = "none" /\ p.push \in {"none", "stuck"} /\ p.gen = "none" /\ p.reply = "none"
    /\ p.closed = 0 /\ AuxZero(p) /\ ~p.notify /\ ~p.finished
    /\ p.gone => "left" \in p.raised

\* _cb_deferred may be called for the redirected response.
Redirectable(p) == Fresh(p) \/ Late(p) \/ (Ready(p) /\ Torn(p))

\* A document of the kind may be written.
CanWrite(p, what) ==
    \/ Silent(p) \/ what = "empty"
    \/ /\ Coded(p)
       /\ \/ /\ what = "result"
             /\ Torn(p) \/ OnlySent(p, {"result"})
             /\ \/ "aux" \in p.raised
                \/ OnlySent(p, {"result"}) /\ p.code \in {"200", "own"}
          \/ /\ what = "fault"
             /\ \/ Torn(p)
                \/ OnlySent(p, {"push"}) /\ (p.code \in {"error", "own"} \/ p.gen # "none")
          \/ what = "push" /\ (Torn(p) \/ OnlySent(p, {"push"})) /\ p.gen # "none"
          \/ what = "500" /\ (Torn(p) \/ OnlySent(p, {"push"}))

\* The pusher may be closed.
Closable(p) ==
    /\ Settled(p) /\ p.push # "pending" /\ p.gen # "none"
    /\ p.gen = "over" \/ PushOnly(p)
    /\ ~Busy(p) \/ "aux" \in p.raised
    /\ Escaped(p) \/ (p.stack /\ AuxZero(p))

Newborn(p) ==
    /\ Fresh(p)
    /\ p.exc = "none" /\ p.deferred = "none" /\ p.others = <<>> /\ p.object \in Objects
    /\ ~p.stack /\ ~p.gone

\* The request waits for the Deferred of user code.
Pending(p) == Waiting(p) /\ p.deferred = "pending" /\ ~p.stack

HttpInv ==
    /\ q.exc = "none"
    /\ \/ at = "arrived" /\ Newborn(q)
       \/ at = "rendered" /\ (Settled(q) \/ Pending(q))

-----------------------------------------------------------------------------
(* Frames.                                                                 *)

LEMMA ChangeRule ==
    ASSUME NEW p, Fields \cup HttpFields \subseteq DOMAIN p, NEW S, NEW c, Change(p, c, S)
    PROVE  /\ Fields \cup HttpFields \subseteq DOMAIN c
           /\ p.raised \subseteq c.raised
           /\ "aux" \notin S => c.aux = p.aux
           /\ "others" \notin S => c.others = p.others
           /\ "closed" \notin S => c.closed = p.closed
           /\ "deferred" \notin S => c.deferred = p.deferred
           /\ "producer" \notin S => c.producer = p.producer
           /\ "body" \notin S => c.body = p.body
           /\ "push" \notin S => c.push = p.push
           /\ "gen" \notin S => c.gen = p.gen
           /\ "stack" \notin S => c.stack = p.stack
           /\ "notify" \notin S => c.notify = p.notify
           /\ "reply" \notin S => c.reply = p.reply
           /\ "code" \notin S => c.code = p.code
           /\ "head" \notin S => c.head = p.head
           /\ "sent" \notin S => c.sent = p.sent
           /\ "finished" \notin S => c.finished = p.finished
           /\ "gone" \notin S => c.gone = p.gone
           /\ "out" \notin S => c.out = p.out
           /\ "resp" \notin S => c.resp = p.resp
<1>1. {"out", "resp", "aux", "others", "closed", "deferred", "producer", "body", "push", "gen", "stack",
       "notify", "reply", "code", "head", "sent", "finished", "gone"} \subseteq DOMAIN p \ Free
  BY DEF Fields, HttpFields, Free
<1>2. /\ DOMAIN c = DOMAIN p /\ p.raised \subseteq c.raised
      /\ \A f \in DOMAIN p \ Free : f \notin S => c[f] = p[f]
  BY DEF Change, Kept
<1> QED
  BY <1>1, <1>2

LEMMA KeptChange ==
    ASSUME NEW p, NEW c, NEW T, Kept(p, c, T), NEW S, T \subseteq S \cup Free
    PROVE  Change(p, c, S)
  BY DEF Change, Kept

LEMMA ChangeTrans ==
    ASSUME NEW p, NEW c, NEW d, NEW S, Change(p, c, S), Change(c, d, S)
    PROVE  Change(p, d, S)
  BY DEF Change, Kept

LEMMA ChangeMore ==
    ASSUME NEW p, NEW c, NEW S, NEW T, Change(p, c, S), S \subseteq T
    PROVE  Change(p, c, T)
  BY DEF Change, Kept

LEMMA ExcChange ==
    ASSUME NEW p, Fields \cup HttpFields \subseteq DOMAIN p, NEW e
    PROVE  LET c == [p EXCEPT !.exc = e]
           IN  Change(p, c, {}) /\ Kept(p, c, {"exc"}) /\ c.exc = e
               /\ Fields \subseteq DOMAIN c
  BY DEF Change, Kept, Fields, HttpFields, Free

LEMMA BlameChange ==
    ASSUME NEW p, Fields \cup HttpFields \subseteq DOMAIN p, NEW what
    PROVE  LET c == Blame(p, what)
           IN  /\ Change(p, c, {}) /\ Kept(p, c, {"raised"})
               /\ c.exc = p.exc /\ what \in c.raised /\ Fields \subseteq DOMAIN c
  BY DEF Blame, Change, Kept, Fields, HttpFields, Free

\* What the invariant does not speak about does not disturb it.
LEMMA SameRule ==
    ASSUME NEW p, Shape(p), NEW c, Change(p, c, {})
    PROVE  /\ Shape(c)
           /\ Excused(p) => Excused(c)
           /\ Escaped(p) => Escaped(c)
           /\ Torn(p) => Torn(c)
           /\ Silent(c) <=> Silent(p)
           /\ Busy(c) <=> Busy(p)
           /\ PushOnly(p) => PushOnly(c)
           /\ Coded(p) => Coded(c)
           /\ AuxOpen(p) => AuxOpen(c)
           /\ Sound(p) => Sound(c)
           /\ Quiet(p) => Quiet(c)
           /\ Settled(p) => Settled(c)
           /\ Failing(p) => Failing(c)
           /\ Closable(p) => Closable(c)
           /\ Started(p) => Started(c)
           /\ Ready(p) => Ready(c)
           /\ Late(p) => Late(c)
           /\ Blank(p) => Blank(c)
           /\ \A what : CanWrite(p, what) => CanWrite(c, what)
<1>1. /\ Fields \cup HttpFields \subseteq DOMAIN c
      /\ p.raised \subseteq c.raised
      /\ c.aux = p.aux /\ c.others = p.others /\ c.closed = p.closed
      /\ c.deferred = p.deferred /\ c.producer = p.producer /\ c.body = p.body
      /\ c.push = p.push /\ c.gen = p.gen /\ c.stack = p.stack /\ c.notify = p.notify
      /\ c.reply = p.reply /\ c.code = p.code /\ c.head = p.head /\ c.sent = p.sent
      /\ c.finished = p.finished /\ c.gone = p.gone
      /\ c.out = p.out /\ c.resp = p.resp
  BY ChangeRule DEF Shape
<1>2. Shape(c)
  BY <1>1 DEF Shape
<1>3. /\ Excused(p) => Excused(c)
      /\ "aux" \in p.raised => "aux" \in c.raised
      /\ Torn(p) => Torn(c)
      /\ Uncoded(p) => Uncoded(c)
      /\ Coded(p) => Coded(c)
  BY <1>1 DEF Excused, Torn, Uncoded, Coded
<1>4. Escaped(p) => Escaped(c)
  BY <1>1, <1>3 DEF Escaped
<1>5. /\ Silent(c) <=> Silent(p)
      /\ AuxZero(c) <=> AuxZero(p)
      /\ Interim(c) <=> Interim(p)
      /\ Busy(c) <=> Busy(p)
      /\ \A kinds : OnlySent(c, kinds) <=> OnlySent(p, kinds)
  BY <1>1 DEF Silent, AuxZero, Interim, Busy, OnlySent
<1>5a. PushOnly(p) => PushOnly(c)
  BY <1>3, <1>5 DEF PushOnly
<1>6. AuxOpen(p) => AuxOpen(c)
  BY <1>1, <1>4, <1>5 DEF AuxOpen
<1>7. Sound(p) => Sound(c)
  BY <1>1, <1>2, <1>3, <1>4 DEF Sound
<1>8. Quiet(p) => Quiet(c)
  BY <1>1, <1>3, <1>4, <1>5, <1>7 DEF Quiet
<1>9. Working(p) => Working(c)
  BY <1>1, <1>3, <1>5 DEF Working, Orderly
<1>10. Settled(p) => Settled(c)
  BY <1>5, <1>8, <1>9 DEF Settled
<1>11. Failing(p) => Failing(c)
  BY <1>1, <1>3, <1>5, <1>5a, <1>6, <1>10 DEF Failing
<1>12. Closable(p) => Closable(c)
  BY <1>1, <1>3, <1>4, <1>5, <1>5a, <1>10 DEF Closable
<1>13. Started(p) => Started(c)
  BY <1>1, <1>5a, <1>6, <1>10 DEF Started
<1>14. Blank(p) => Blank(c)
  BY <1>1, <1>2, <1>5 DEF Blank
<1>15. \A what : CanWrite(p, what) => CanWrite(c, what)
  BY <1>1, <1>3, <1>5 DEF CanWrite
<1>16. Ready(p) => Ready(c)
  BY <1>1, <1>3, <1>5, <1>10 DEF Ready
<1>17. Late(p) => Late(c)
  BY <1>1, <1>3, <1>11 DEF Late
<1> QED
  BY <1>2, <1>3, <1>4, <1>5, <1>5a, <1>6, <1>7, <1>8, <1>10, <1>11, <1>12, <1>13, <1>14, <1>15,
     <1>16, <1>17

\* A fresh request stays one while no document is made.
LEMMA FreshSet ==
    ASSUME NEW p, Shape(p), NEW c,
           Kept(p, c, {"exc", "events", "raised", "stack", "code", "resp", "string"}),
           c.string \in {p.string, "result"}
    PROVE  /\ Blank(p) => Blank(c)
           /\ Waiting(p) => Waiting(c)
           /\ Fresh(p) => Fresh(c)
<1>1. {"error", "document"} \subseteq DOMAIN p
  BY DEF Shape, Fields
<1>2. c.error = p.error /\ c.document = p.document
  BY <1>1 DEF Kept
<1>3. Change(p, c, {"stack", "code", "resp"})
  BY KeptChange DEF Free
<1>4. /\ Fields \cup HttpFields \subseteq DOMAIN c
      /\ p.raised \subseteq c.raised
      /\ c.aux = p.aux /\ c.others = p.others /\ c.closed = p.closed
      /\ c.deferred = p.deferred /\ c.producer = p.producer
      /\ c.push = p.push /\ c.gen = p.gen /\ c.notify = p.notify
      /\ c.reply = p.reply /\ c.head = p.head /\ c.sent = p.sent
      /\ c.finished = p.finished /\ c.gone = p.gone /\ c.out = p.out
  BY <1>3, ChangeRule DEF Shape
<1>5. Blank(p) => Blank(c)
  BY <1>4 DEF Blank, Shape, AuxZero
<1>6. Waiting(p) => Waiting(c)
  BY <1>2, <1>5 DEF Waiting
<1> QED
  BY <1>4, <1>5, <1>6 DEF Fresh, Reached

LEMMA FreshRule ==
    ASSUME NEW p, Shape(p), NEW c, Kept(p, c, {"exc", "events", "raised", "stack", "code"})
    PROVE  /\ Blank(p) => Blank(c)
           /\ Waiting(p) => Waiting(c)
           /\ Fresh(p) => Fresh(c)
<1>1. "string" \in DOMAIN p
  BY DEF Shape, Fields
<1>2. c.string = p.string
  BY <1>1 DEF Kept
<1>3. Kept(p, c, {"exc", "events", "raised", "stack", "code", "resp", "string"})
  BY DEF Kept
<1> QED
  BY <1>2, <1>3, FreshSet

\* A blank request that may be answered is in no way disturbed.
LEMMA BlankRule ==
    ASSUME NEW p, Blank(p), Reached(p)
    PROVE  Failing(p) /\ OnlySent(p, {})
<1>1. Sound(p)
  BY DEF Blank, Shape, Sound, AuxZero
<1>2. /\ OnlySent(p, {}) /\ PushOnly(p) /\ AuxOpen(p) /\ Working(p)
      /\ ~Interim(p) /\ ~Busy(p)
  BY DEF Blank, OnlySent, PushOnly, AuxOpen, Working, Orderly, Interim, Busy
<1>3. Settled(p)
  BY <1>1, <1>2 DEF Settled, Quiet, Blank, Reached
<1> QED
  BY <1>2, <1>3 DEF Failing, Blank

\* What stays when more has gone wrong.
LEMMA RaisedRule ==
    ASSUME NEW p, NEW c, p.raised \subseteq c.raised, c.out = p.out, c.resp = p.resp
    PROVE  /\ Excused(p) => Excused(c)
           /\ "aux" \in p.raised => "aux" \in c.raised
           /\ Torn(p) => Torn(c)
           /\ c.gen = p.gen => (Uncoded(p) => Uncoded(c))
           /\ c.gen = p.gen /\ c.code = p.code => (Coded(p) => Coded(c))
           /\ c.producer = p.producer /\ c.push = p.push =>
                  (Busy(c) <=> Busy(p)) /\ (Interim(c) <=> Interim(p))
  BY DEF Excused, Torn, Uncoded, Coded, Busy, Interim

-----------------------------------------------------------------------------
(* Steps.                                                                  *)

\* The auxiliary methods are processed once.
LEMMA ContextsStep ==
    ASSUME NEW p, Settled(p), AuxOpen(p), Running(p), NEW error \in BOOLEAN,
           NEW c \in ProcessContexts(p, error)
    PROVE  /\ Change(p, c, {"aux"}) /\ Settled(c)
           /\ c.exc \in {"none", "Exception"}
           /\ c.exc # "none" => "aux" \in c.raised
<1>1. Shape(p)
  BY DEF Settled, Quiet, Sound
<1>2. /\ Kept(p, c, {"exc", "raised", "aux"})
      /\ c.exc \in {"none", "Exception"}
      /\ c.exc # "none" => "aux" \in c.raised
      /\ c.aux \in [Aux -> Nat]
      /\ \A a \in Aux : c.aux[a] \in {p.aux[a], p.aux[a] + 1}
  BY <1>1, ContextsRule DEF Shape
<1>3. Change(p, c, {"aux"})
  BY <1>2, KeptChange DEF Free
<1>4. /\ Fields \cup HttpFields \subseteq DOMAIN c
      /\ p.raised \subseteq c.raised
      /\ c.others = p.others /\ c.closed = p.closed
      /\ c.deferred = p.deferred /\ c.producer = p.producer /\ c.body = p.body
      /\ c.push = p.push /\ c.gen = p.gen /\ c.stack = p.stack /\ c.notify = p.notify
      /\ c.reply = p.reply /\ c.code = p.code /\ c.head = p.head /\ c.sent = p.sent
      /\ c.finished = p.finished /\ c.gone = p.gone
      /\ c.out = p.out /\ c.resp = p.resp
  BY <1>1, <1>3, ChangeRule DEF Shape
<1>5. /\ Excused(p) => Excused(c)
      /\ "aux" \in p.raised => "aux" \in c.raised
      /\ Torn(p) => Torn(c)
      /\ Uncoded(p) => Uncoded(c)
      /\ Coded(p) => Coded(c)
      /\ Busy(c) <=> Busy(p)
      /\ Interim(c) <=> Interim(p)
  BY <1>4, RaisedRule
<1>6. Escaped(p) => Escaped(c)
  BY <1>4, <1>5 DEF Escaped
<1>7. \A a \in Aux : c.aux[a] > 1 => Escaped(c)
  <2>1. CASE Escaped(p)
    BY <1>6, <2>1
  <2>2. CASE AuxZero(p)
    BY <1>2, <2>2 DEF AuxZero
  <2> QED
    BY <2>1, <2>2 DEF AuxOpen
<1>8. Sound(c)
  BY <1>1, <1>2, <1>4, <1>5, <1>7 DEF Settled, Quiet, Sound, Shape
<1>9. c.push = "pending" => Escaped(c)
  BY <1>4, <1>6 DEF AuxOpen
<1>10. Silent(c) <=> Silent(p)
  BY <1>4 DEF Silent
<1>11. Quiet(c)
  BY <1>4, <1>5, <1>8, <1>9, <1>10 DEF Settled, Quiet, OnlySent
<1>12. Working(p) => Working(c)
  BY <1>4, <1>5 DEF Working, Orderly, OnlySent
<1> QED
  BY <1>2, <1>3, <1>10, <1>11, <1>12 DEF Settled

\* The context is closed, or a listener raised before it was.
LEMMA CloseStep ==
    ASSUME NEW p, Quiet(p), Unclosed(p), Running(p), NEW c \in Close(p)
    PROVE  /\ Change(p, c, {"closed"}) /\ Quiet(c)
           /\ Settled(p) => Settled(c)
           /\ c.exc \in Exceptions \cup {"none"}
           /\ c.exc # "none" => c.closed = p.closed /\ Unclosed(c)
<1>1. Shape(p)
  BY DEF Quiet, Sound
<1>2. /\ Kept(p, c, {"exc", "events", "raised", "closed"})
      /\ c.exc \in Exceptions \cup {"none"}
      /\ c.closed = IF c.exc = "none" THEN p.closed + 1 ELSE p.closed
  BY CloseRule
<1>3. Change(p, c, {"closed"})
  BY <1>2, KeptChange DEF Free
<1>4. /\ Fields \cup HttpFields \subseteq DOMAIN c
      /\ p.raised \subseteq c.raised
      /\ c.aux = p.aux /\ c.others = p.others
      /\ c.deferred = p.deferred /\ c.producer = p.producer /\ c.body = p.body
      /\ c.push = p.push /\ c.gen = p.gen /\ c.stack = p.stack /\ c.notify = p.notify
      /\ c.reply = p.reply /\ c.code = p.code /\ c.head = p.head /\ c.sent = p.sent
      /\ c.finished = p.finished /\ c.gone = p.gone
      /\ c.out = p.out /\ c.resp = p.resp
  BY <1>1, <1>3, ChangeRule DEF Shape
<1>5. /\ Excused(p) => Excused(c)
      /\ "aux" \in p.raised => "aux" \in c.raised
      /\ Silent(c) <=> Silent(p)
      /\ Torn(p) => Torn(c)
      /\ Uncoded(p) => Uncoded(c)
      /\ Coded(p) => Coded(c)
      /\ Busy(c) <=> Busy(p)
      /\ Interim(c) <=> Interim(p)
  BY <1>4, RaisedRule DEF Silent
<1>6. Escaped(p) => Escaped(c)
  BY <1>4, <1>5 DEF Escaped
<1>7. c.closed \in Nat /\ (c.closed > 1 => Excused(c))
  BY <1>1, <1>2, <1>5 DEF Unclosed, Shape
<1>8. Sound(c)
  BY <1>1, <1>4, <1>5, <1>6, <1>7 DEF Quiet, Sound, Shape
<1>9. Quiet(c)
  BY <1>4, <1>5, <1>6, <1>8 DEF Quiet, Unclosed, AuxZero, OnlySent
<1>10. Working(p) => Working(c)
  BY <1>4, <1>5 DEF Working, Orderly, OnlySent
<1>11. c.exc # "none" => Unclosed(c)
  BY <1>2, <1>4, <1>5 DEF Unclosed
<1> QED
  BY <1>2, <1>3, <1>5, <1>9, <1>10, <1>11 DEF Settled

\* The end of a request closes its context when notifyFinish has been asked for;
\* it comes too late when the client has gone.
LEMMA FinishStep ==
    ASSUME NEW p, Quiet(p), Running(p), NEW c \in Finish(p)
    PROVE  /\ Change(p, c, {"closed", "finished", "producer"}) /\ Settled(c)
           /\ c.exc \in {"none", "Exception"}
           /\ c.exc = "none" => c.finished
           /\ c.exc # "none" => p.gone /\ c.closed = p.closed /\ c.finished = p.finished
                                  /\ c.producer = p.producer
           /\ ~p.notify => c.closed = p.closed
           /\ c.producer \in {p.producer, "none"}
           /\ p.finished => c.finished
<1>1. Shape(p)
  BY DEF Quiet, Sound
<1> DEFINE S == {"closed", "finished", "producer"}
<1>2. CASE p.gone
  <2>1. c = [p EXCEPT !.exc = "Exception"]
    BY <1>2 DEF Finish, Raises
  <2>2. Change(p, c, {}) /\ c.exc = "Exception"
    BY <1>1, <2>1, ExcChange DEF Shape
  <2>3. Quiet(c) /\ Silent(c)
    BY <1>1, <1>2, <2>2, SameRule DEF Silent
  <2>4. c.closed = p.closed /\ c.finished = p.finished /\ c.producer = p.producer
    BY <1>1, <2>2, ChangeRule DEF Shape
  <2>5. Change(p, c, S)
    BY <2>2, ChangeMore
  <2> QED
    BY <1>2, <2>2, <2>3, <2>4, <2>5 DEF Settled
<1>3. CASE ~p.gone /\ p.finished
  <2>1. c = p
    BY <1>3 DEF Finish
  <2> QED
    BY <1>3, <2>1 DEF Settled, Silent, Running, Change, Kept
<1>4. CASE ~p.gone /\ ~p.finished
  <2> DEFINE over == [p EXCEPT !.finished = TRUE, !.producer = "none"]
  <2>1. c \in IF p.notify THEN Logged(Except(Close(over), Exceptions, Close)) ELSE {over}
    BY <1>4 DEF Finish
  <2>2. /\ Change(p, over, {"finished", "producer"}) /\ Running(over)
        /\ over.finished = TRUE /\ over.producer = "none" /\ over.raised = p.raised
    BY <1>1 DEF Shape, Running, Change, Kept, Fields, HttpFields, Free
  <2> HIDE DEF over
  <2>3. /\ Fields \cup HttpFields \subseteq DOMAIN over
        /\ over.aux = p.aux /\ over.others = p.others /\ over.closed = p.closed
        /\ over.deferred = p.deferred
        /\ over.push = p.push /\ over.gen = p.gen /\ over.stack = p.stack
        /\ over.notify = p.notify /\ over.head = p.head /\ over.sent = p.sent
        /\ over.gone = p.gone /\ over.out = p.out /\ over.resp = p.resp
        /\ over.code = p.code
    BY <1>1, <2>2, ChangeRule DEF Shape
  <2>4. /\ Excused(over) <=> Excused(p)
        /\ Escaped(p) => Escaped(over)
        /\ Silent(over)
        /\ Interim(over) <=> Interim(p)
        /\ Busy(over) <=> Interim(p)
    BY <2>2, <2>3 DEF Excused, Escaped, Silent, Busy, Interim
  <2>4a. /\ Torn(p) => Torn(over)
         /\ Uncoded(p) => Uncoded(over)
         /\ Coded(p) => Coded(over)
         /\ Interim(p) => Busy(p)
    BY <2>2, <2>3 DEF Torn, Coded, Uncoded, Busy
  <2>5. Quiet(over)
    BY <1>1, <2>2, <2>3, <2>4, <2>4a DEF Quiet, Sound, Shape, AuxZero
  <2>6. p.notify => Unclosed(over)
    BY <1>4, <2>2, <2>3, <2>4, <2>4a DEF Quiet, Unclosed, Silent, Busy, Interim
  <2>7. CASE ~p.notify
    <3>1. c = over
      BY <2>1, <2>7
    <3> QED
      BY <2>2, <2>3, <2>4, <2>5, <3>1, ChangeMore DEF Settled, Running
  <2>8. CASE p.notify
    <3>1. PICK d \in Except(Close(over), Exceptions, Close) : c = [d EXCEPT !.exc = "none"]
      BY <2>1, <2>8 DEF Logged
    <3>2. Change(over, d, {"closed"}) /\ Quiet(d)
      <4>1. PICK s \in Close(over) :
                d = s \/ (s.exc \in Exceptions /\ d \in Close([s EXCEPT !.exc = "none"]))
        BY <3>1 DEF Except
      <4>2. /\ Change(over, s, {"closed"}) /\ Quiet(s)
            /\ s.exc # "none" => Unclosed(s)
        BY <2>2, <2>5, <2>6, <2>8, CloseStep
      <4>3. CASE d = s
        BY <4>2, <4>3
      <4>4. CASE s.exc \in Exceptions /\ d \in Close([s EXCEPT !.exc = "none"])
        <5> DEFINE e == [s EXCEPT !.exc = "none"]
        <5>1. Change(s, e, {}) /\ Running(e) /\ Shape(s)
          BY <4>2, ExcChange DEF Quiet, Sound, Shape, Running
        <5> HIDE DEF e
        <5>2. Unclosed(s)
          BY <4>2, <4>4 DEF Exceptions
        <5>3. /\ Quiet(e) /\ (Excused(s) => Excused(e)) /\ e.closed = s.closed
              /\ e.producer = s.producer /\ e.notify = s.notify
              /\ (Silent(e) <=> Silent(s)) /\ (Busy(e) <=> Busy(s))
          BY <4>2, <5>1, SameRule, ChangeRule DEF Shape
        <5>4. Unclosed(e)
          BY <5>2, <5>3 DEF Unclosed
        <5>5. d \in Close(e)
          BY <4>4 DEF e
        <5>6. Change(e, d, {"closed"}) /\ Quiet(d)
          BY <5>1, <5>3, <5>4, <5>5, CloseStep
        <5>7. Change(s, e, {"closed"})
          BY <5>1, ChangeMore
        <5> QED
          BY <4>2, <5>6, <5>7, ChangeTrans
      <4> QED
        BY <4>1, <4>3, <4>4
    <3>3. Shape(d) /\ d.finished = TRUE /\ d.producer = "none" /\ d.gone = p.gone
      <4>1. Shape(d)
        BY <3>2 DEF Quiet, Sound
      <4> QED
        BY <2>2, <2>3, <3>2, <4>1, ChangeRule
    <3>4. Change(d, c, {}) /\ c.exc = "none"
      BY <3>1, <3>3, ExcChange DEF Shape
    <3>5. Quiet(c) /\ c.finished = TRUE /\ c.producer = "none"
      <4>1. Quiet(c)
        BY <3>2, <3>3, <3>4, SameRule
      <4> QED
        BY <3>3, <3>4, <4>1, ChangeRule DEF Shape
    <3>6. Change(p, over, S) /\ Change(over, d, S) /\ Change(d, c, S)
      <4>1. Change(p, over, S)
        BY <2>2, ChangeMore
      <4>2. Change(over, d, S)
        BY <3>2, ChangeMore
      <4>3. Change(d, c, S)
        BY <3>4, ChangeMore
      <4> QED
        BY <4>1, <4>2, <4>3
    <3>7. Change(p, c, S)
      BY <3>6, ChangeTrans
    <3> QED
      BY <1>4, <2>8, <3>4, <3>5, <3>7 DEF Settled, Silent
  <2> QED
    BY <2>7, <2>8
<1> QED
  BY <1>2, <1>3, <1>4

\* Nothing is written behind another document.
LEMMA WriteStep ==
    ASSUME NEW p, Sound(p), Running(p), NEW what \in {"result", "fault", "push", "500", "empty"},
           CanWrite(p, what), NEW c \in Write(p, what)
    PROVE  /\ Kept(p, c, {"exc", "sent", "head"}) /\ Change(p, c, {"sent", "head"})
           /\ Sound(c)
           /\ c.exc \in {"none", "Exception"} /\ (c.exc # "none" <=> p.finished)
           /\ Silent(p) \/ what = "empty" => Change(p, c, {})
           /\ \A kinds : OnlySent(p, kinds) /\ what \in kinds => OnlySent(c, kinds)
<1>1. Shape(p)
  BY DEF Sound
<1>2. CASE p.finished
  <2>1. c = [p EXCEPT !.exc = "Exception"]
    BY <1>2 DEF Write, Raises
  <2>2. Change(p, c, {}) /\ Kept(p, c, {"exc"}) /\ c.exc = "Exception"
    BY <1>1, <2>1, ExcChange DEF Shape
  <2>3. Sound(c) /\ c.sent = p.sent
    BY <1>1, <2>2, SameRule, ChangeRule DEF Shape
  <2> QED
    BY <1>2, <2>2, <2>3, ChangeMore DEF Silent, OnlySent, Kept
<1>3. CASE ~p.finished /\ (p.gone \/ what = "empty")
  <2>1. c = p
    BY <1>3 DEF Write
  <2> QED
    BY <1>3, <2>1 DEF Silent, OnlySent, Kept, Change, Running
<1>4. CASE ~p.finished /\ ~p.gone /\ what # "empty"
  <2>1. c = [p EXCEPT !.sent = Append(@, what), !.head = IF @ = "none" THEN p.code ELSE @]
    BY <1>4 DEF Write
  <2>2. /\ Kept(p, c, {"sent", "head"}) /\ c.exc = p.exc /\ c.raised = p.raised
        /\ c.sent = Append(p.sent, what)
        /\ c.head = IF p.head = "none" THEN p.code ELSE p.head
    BY <1>1, <2>1 DEF Shape, Kept, Fields, HttpFields
  <2>3. Change(p, c, {"sent", "head"}) /\ Kept(p, c, {"exc", "sent", "head"})
    BY <2>2, KeptChange DEF Kept
  <2>4. /\ Fields \cup HttpFields \subseteq DOMAIN c
        /\ c.aux = p.aux /\ c.others = p.others /\ c.closed = p.closed
        /\ c.deferred = p.deferred /\ c.gen = p.gen
        /\ c.finished = p.finished /\ c.gone = p.gone
        /\ c.out = p.out /\ c.resp = p.resp /\ c.code = p.code
    BY <1>1, <2>3, ChangeRule DEF Shape
  <2>4a. what \in {"result", "fault", "push", "500"}
    BY <1>4
  <2>5. /\ p.sent \in Seq({"result", "fault", "push", "500"})
        /\ c.sent \in Seq({"result", "fault", "push", "500"})
        /\ Len(c.sent) = Len(p.sent) + 1 /\ DOMAIN p.sent = 1 .. Len(p.sent)
        /\ Len(p.sent) \in Nat
        /\ DOMAIN c.sent = DOMAIN p.sent \cup {Len(c.sent)}
        /\ c.sent[Len(c.sent)] = what
        /\ \A i \in DOMAIN p.sent : c.sent[i] = p.sent[i] /\ i < Len(c.sent)
    BY <1>1, <2>2, <2>4a DEF Shape
  <2>6. /\ Shape(c)
        /\ Excused(c) <=> Excused(p)
        /\ Escaped(c) <=> Escaped(p)
        /\ Torn(c) <=> Torn(p)
        /\ Uncoded(c) <=> Uncoded(p)
    BY <1>1, <2>2, <2>4, <2>5 DEF Shape, Excused, Escaped, Torn, Uncoded
  <2>7. Torn(p) \/ \A i \in DOMAIN p.sent : p.sent[i] \in {what, "push"}
    BY <1>4 DEF CanWrite, Silent, OnlySent
  <2>8. \A i, j \in DOMAIN c.sent : i < j => c.sent[i] \in {c.sent[j], "push"} \/ Torn(c)
    <3> SUFFICES ASSUME NEW i \in DOMAIN c.sent, NEW j \in DOMAIN c.sent, i < j, ~Torn(c)
                 PROVE  c.sent[i] \in {c.sent[j], "push"}
      OBVIOUS
    <3>1. i \in DOMAIN p.sent
      BY <2>5
    <3>2. CASE j \in DOMAIN p.sent
      BY <2>5, <2>6, <3>1, <3>2 DEF Sound
    <3>3. CASE j = Len(c.sent)
      BY <2>5, <2>6, <2>7, <3>1, <3>3
    <3> QED
      BY <2>5, <3>2, <3>3
  <2>9. p.sent = <<>> => p.head = "none"
    BY DEF Sound
  <2>10. what = "result" => c.head \in {"200", "own"} \/ "aux" \in c.raised
    <3> SUFFICES ASSUME what = "result", "aux" \notin p.raised
                 PROVE  c.head \in {"200", "own"}
      BY <2>2
    <3>1. OnlySent(p, {"result"}) /\ p.code \in {"200", "own"}
      BY <1>4 DEF CanWrite, Silent
    <3>2. CASE p.sent = <<>>
      BY <2>2, <2>9, <3>1, <3>2
    <3>3. CASE p.sent # <<>>
      <4>1. 1 \in DOMAIN p.sent
        BY <2>5, <3>3
      <4>2. p.head \in {"200", "own"}
        BY <3>1, <4>1 DEF Sound, OnlySent
      <4> QED
        BY <2>2, <4>2
    <3> QED
      BY <3>2, <3>3
  <2>11. what = "fault" => c.head \in {"error", "own"} \/ c.gen # "none" \/ Torn(c)
    <3> SUFFICES ASSUME what = "fault", ~Torn(p), p.gen = "none"
                 PROVE  c.head \in {"error", "own"}
      BY <2>4, <2>6
    <3>1. OnlySent(p, {"push"}) /\ p.code \in {"error", "own"}
      BY <1>4 DEF CanWrite, Silent
    <3>2. CASE p.sent = <<>>
      BY <2>2, <2>9, <3>1, <3>2
    <3>3. CASE p.sent # <<>>
      <4>1. 1 \in DOMAIN p.sent
        BY <2>5, <3>3
      <4> QED
        BY <3>1, <4>1 DEF Sound, OnlySent
    <3> QED
      BY <3>2, <3>3
  <2>12. what = "push" => c.gen # "none"
    BY <1>4, <2>4 DEF CanWrite, Silent
  <2>13. p.head # "none" => c.head = p.head
    BY <2>2
  <2>14. \A i \in DOMAIN p.sent :
            /\ p.sent[i] = "result" => c.head \in {"200", "own"} \/ "aux" \in c.raised
            /\ p.sent[i] = "fault" =>
                   c.head \in {"error", "own"} \/ c.gen # "none" \/ Torn(c)
            /\ p.sent[i] = "push" => c.gen # "none"
    BY <2>2, <2>4, <2>6, <2>13 DEF Sound
  <2>15. \A i \in DOMAIN c.sent :
            /\ c.sent[i] = "result" => c.head \in {"200", "own"} \/ "aux" \in c.raised
            /\ c.sent[i] = "fault" =>
                   c.head \in {"error", "own"} \/ c.gen # "none" \/ Torn(c)
            /\ c.sent[i] = "push" => c.gen # "none"
    BY <2>5, <2>10, <2>11, <2>12, <2>14
  <2>15a. c.resp = "own" => c.head \in {"none", "own"} \/ Uncoded(c)
    <3>1. Coded(p)
      BY <1>4 DEF CanWrite, Silent
    <3> QED
      BY <2>2, <2>4, <2>6, <2>13, <3>1 DEF Sound, Coded
  <2>16. Sound(c)
    <3>1. c.sent # <<>>
      BY <2>5
    <3> QED
      BY <2>4, <2>6, <2>8, <2>15, <2>15a, <3>1 DEF Sound
  <2>17. \A kinds : OnlySent(p, kinds) /\ what \in kinds => OnlySent(c, kinds)
    BY <2>5 DEF OnlySent
  <2> QED
    BY <1>4, <2>2, <2>3, <2>16, <2>17 DEF Running, Silent
<1> QED
  BY <1>2, <1>3, <1>4

\* A quiet request stays one when something may be written.
LEMMA WriteQuiet ==
    ASSUME NEW p, Quiet(p), Running(p), NEW what \in {"result", "fault", "push", "500", "empty"},
           what \in {"result", "empty"} \/ ~Busy(p) \/ "aux" \in p.raised,
           CanWrite(p, what), NEW c \in Write(p, what)
    PROVE  Quiet(c) /\ (Busy(c) <=> Busy(p))
<1>1. /\ Change(p, c, {"sent", "head"}) /\ Sound(c)
      /\ Shape(p)
      /\ Silent(p) \/ what = "empty" => Change(p, c, {})
      /\ \A kinds : OnlySent(p, kinds) /\ what \in kinds => OnlySent(c, kinds)
  BY WriteStep DEF Quiet, Sound
<1>2. /\ p.raised \subseteq c.raised
      /\ c.aux = p.aux /\ c.closed = p.closed
      /\ c.deferred = p.deferred /\ c.producer = p.producer /\ c.body = p.body
      /\ c.push = p.push /\ c.gen = p.gen /\ c.stack = p.stack /\ c.notify = p.notify
      /\ c.code = p.code /\ c.finished = p.finished /\ c.gone = p.gone
      /\ c.out = p.out /\ c.resp = p.resp
  BY <1>1, ChangeRule DEF Shape
<1>3. /\ Excused(p) => Excused(c)
      /\ "aux" \in p.raised => "aux" \in c.raised
      /\ Coded(p) => Coded(c)
      /\ Busy(c) <=> Busy(p)
      /\ Interim(c) <=> Interim(p)
  BY <1>2, RaisedRule
<1>4. CASE Silent(p) \/ what = "empty"
  BY <1>1, <1>3, <1>4, SameRule
<1>5. CASE ~Silent(p) /\ what # "empty"
  <2>1. Busy(c) => \/ Silent(c) \/ "aux" \in c.raised
                   \/ OnlySent(c, {"result"}) /\ c.code \in {"200", "own"}
    BY <1>1, <1>2, <1>3, <1>5 DEF Quiet, Silent
  <2> QED
    BY <1>1, <1>2, <1>3, <2>1 DEF Quiet, Escaped, Silent, AuxZero
<1> QED
  BY <1>4, <1>5

\* The response is written and finished.
LEMMA WriteFinish ==
    ASSUME NEW p, Quiet(p), Running(p), NEW what \in {"result", "fault", "push", "500", "empty"},
           what \in {"result", "empty"} \/ ~Busy(p) \/ "aux" \in p.raised,
           CanWrite(p, what), NEW c \in Then(Write(p, what), Finish)
    PROVE  /\ Change(p, c, {"sent", "head", "closed", "finished", "producer"}) /\ Settled(c)
           /\ c.exc \in {"none", "Exception"}
           /\ p.finished => c.exc # "none"
           /\ c.exc = "none" => c.finished
           /\ ~p.notify => c.closed = p.closed
           /\ c.producer \in {p.producer, "none"}
<1> DEFINE S == {"sent", "head", "closed", "finished", "producer"}
<1>1. PICK w \in Write(p, what) : c \in IF w.exc = "none" THEN Finish(w) ELSE {w}
  BY DEF Then
<1>2. /\ Change(p, w, {"sent", "head"}) /\ Quiet(w) /\ Shape(p)
      /\ w.exc \in {"none", "Exception"} /\ (w.exc # "none" <=> p.finished)
  BY WriteStep, WriteQuiet DEF Quiet, Sound
<1>3. /\ w.notify = p.notify /\ w.closed = p.closed /\ w.producer = p.producer
      /\ w.finished = p.finished
      /\ Fields \subseteq DOMAIN w
  BY <1>2, ChangeRule DEF Shape
<1>4. Change(p, w, S)
  BY <1>2, ChangeMore
<1>5. CASE w.exc # "none"
  BY <1>1, <1>2, <1>3, <1>4, <1>5 DEF Settled, Silent
<1>6. CASE w.exc = "none"
  <2>1. c \in Finish(w) /\ Running(w)
    BY <1>1, <1>3, <1>6 DEF Running
  <2>2. /\ Change(w, c, {"closed", "finished", "producer"}) /\ Settled(c)
        /\ c.exc \in {"none", "Exception"}
        /\ c.exc = "none" => c.finished
        /\ ~w.notify => c.closed = w.closed
        /\ c.producer \in {w.producer, "none"}
    BY <1>2, <2>1, FinishStep
  <2>3. Change(w, c, S)
    BY <2>2, ChangeMore
  <2>4. Change(p, c, S)
    BY <1>4, <2>3, ChangeTrans
  <2> QED
    BY <1>2, <1>3, <1>6, <2>2, <2>4
<1> QED
  BY <1>5, <1>6

\* The response code may be set to the one of an error, unless the user set it.
LEMMA CodeStep ==
    ASSUME NEW p, Failing(p), NEW c, Change(p, c, {"code"}), Coded(c)
    PROVE  Failing(c) /\ Change(p, c, {"code"})
<1>1. Shape(p)
  BY DEF Failing, Settled, Quiet, Sound
<1>2. /\ Fields \cup HttpFields \subseteq DOMAIN c
      /\ p.raised \subseteq c.raised
      /\ c.aux = p.aux /\ c.others = p.others /\ c.closed = p.closed
      /\ c.deferred = p.deferred /\ c.producer = p.producer /\ c.body = p.body
      /\ c.push = p.push /\ c.gen = p.gen /\ c.stack = p.stack /\ c.notify = p.notify
      /\ c.reply = p.reply /\ c.head = p.head /\ c.sent = p.sent
      /\ c.finished = p.finished /\ c.gone = p.gone
      /\ c.out = p.out /\ c.resp = p.resp
  BY <1>1, ChangeRule DEF Shape
<1>3. /\ Excused(p) => Excused(c)
      /\ "aux" \in p.raised => "aux" \in c.raised
      /\ Torn(p) => Torn(c)
      /\ Uncoded(p) => Uncoded(c)
      /\ Busy(c) <=> Busy(p)
      /\ Interim(c) <=> Interim(p)
  BY <1>2, RaisedRule
<1>4. /\ Silent(c) <=> Silent(p)
      /\ AuxZero(c) <=> AuxZero(p)
      /\ PushOnly(p) => PushOnly(c)
      /\ Escaped(p) => Escaped(c)
      /\ \A kinds : OnlySent(c, kinds) <=> OnlySent(p, kinds)
  BY <1>2, <1>3 DEF Silent, AuxZero, PushOnly, OnlySent, Escaped
<1>5. Sound(p) => Sound(c)
  BY <1>1, <1>2, <1>3, <1>4 DEF Sound, Shape
<1>6. Busy(p) => "aux" \in p.raised
  BY DEF Failing, Busy
<1>7. Quiet(p) => Quiet(c)
  BY <1>2, <1>3, <1>4, <1>5, <1>6 DEF Quiet
<1>8. Working(p) => Working(c)
  BY <1>2, <1>3, <1>4 DEF Working, Orderly
<1> QED
  BY <1>2, <1>3, <1>4, <1>7, <1>8 DEF Failing, Settled, AuxOpen

-----------------------------------------------------------------------------
(* Failures.                                                               *)

\* Closing, finishing and the auxiliary methods do not disturb what is written.
LEMMA EndKeeps ==
    ASSUME NEW p, Shape(p), NEW c,
           Change(p, c, {"closed", "finished", "producer", "notify", "aux"}),
           p.finished => c.finished
    PROVE  /\ p.raised \subseteq c.raised
           /\ Excused(p) => Excused(c)
           /\ Escaped(p) => Escaped(c)
           /\ Silent(p) => Silent(c)
           /\ Torn(p) => Torn(c)
           /\ Coded(p) => Coded(c)
           /\ PushOnly(p) => PushOnly(c)
           /\ c.aux = p.aux => (AuxOpen(p) => AuxOpen(c))
           /\ \A what : CanWrite(p, what) => CanWrite(c, what)
<1>1. /\ p.raised \subseteq c.raised
      /\ c.deferred = p.deferred /\ c.code = p.code
      /\ c.push = p.push /\ c.gen = p.gen /\ c.stack = p.stack
      /\ c.sent = p.sent /\ c.gone = p.gone
      /\ c.out = p.out /\ c.resp = p.resp
  BY ChangeRule DEF Shape
<1>2. /\ Excused(p) => Excused(c)
      /\ "aux" \in p.raised => "aux" \in c.raised
      /\ Torn(p) => Torn(c)
      /\ Coded(p) => Coded(c)
  BY <1>1, RaisedRule
<1>3. /\ Silent(p) => Silent(c)
      /\ Escaped(p) => Escaped(c)
      /\ c.aux = p.aux => (AuxZero(p) => AuxZero(c))
      /\ \A kinds : OnlySent(p, kinds) <=> OnlySent(c, kinds)
  BY <1>1, <1>2 DEF Escaped, Silent, AuxZero, OnlySent
<1>4. \A what : CanWrite(p, what) => CanWrite(c, what)
  BY <1>1, <1>2, <1>3 DEF CanWrite
<1> QED
  BY <1>1, <1>2, <1>3, <1>4 DEF AuxOpen, PushOnly

\* Serialization raises.
LEMMA RaisesRule ==
    ASSUME NEW p, Fields \cup HttpFields \subseteq DOMAIN p, NEW c \in SerializationRaises(p)
    PROVE  /\ Kept(p, c, {"exc", "raised"}) /\ Change(p, c, {})
           /\ Fields \subseteq DOMAIN c
           /\ c.exc \in {"Fault", "Exception"}
           /\ Kind(p) \in c.raised
<1>1. \E e \in {"Fault", "Exception"} : c = [Blame(p, Kind(p)) EXCEPT !.exc = e]
  BY DEF SerializationRaises, Raises
<1>2. {"exc", "raised"} \subseteq DOMAIN p
  BY DEF Fields
<1>3. Kept(p, c, {"exc", "raised"}) /\ c.exc \in {"Fault", "Exception"} /\ Kind(p) \in c.raised
  BY <1>1, <1>2 DEF Blame, Kept
<1> QED
  BY <1>3, KeptChange DEF Free, Kept

\* What the document of an error leaves.
Erred(p, c) ==
    /\ Settled(c) /\ Coded(c) /\ c.code = p.code
    /\ PushOnly(c) \/ c.out = "stream"
    /\ ~Busy(c) \/ "aux" \in c.raised
    /\ c.exc = "none" => c.string \in {"fault", "empty"} /\ CanWrite(c, c.string)

\* The document of an error is made, or written to the request.
LEMMA ErrorOutRule ==
    ASSUME NEW p, Failing(p), Running(p), p.error # "none", p.document = "none",
           p.string = "none", Coded(p), p.code \in {"error", "own"}, NEW c \in GetOut(p)
    PROVE  /\ Change(p, c, {"sent", "head"}) /\ Fields \subseteq DOMAIN c
           /\ c.exc \in {"none", "Fault", "Exception"}
           /\ Erred(p, c) /\ AuxOpen(c) /\ Unclosed(c)
<1>1. Shape(p) /\ Quiet(p) /\ Sound(p) /\ Kind(p) = "fault"
  BY DEF Failing, Settled, Quiet, Sound, Kind
<1>2. CanWrite(p, "fault")
  BY DEF Failing, PushOnly, CanWrite
<1>3. ~Busy(p) \/ "aux" \in p.raised
  BY DEF Failing, Busy
<1>4. ASSUME NEW w, Change(p, w, {"sent", "head"}), Settled(w), w.exc # "none",
             PushOnly(w) \/ w.out = "stream"
      PROVE  Erred(p, w) /\ AuxOpen(w) /\ Unclosed(w)
  <2>1. /\ p.raised \subseteq w.raised
        /\ w.aux = p.aux /\ w.closed = p.closed /\ w.deferred = p.deferred
        /\ w.push = p.push /\ w.producer = p.producer /\ w.gen = p.gen
        /\ w.notify = p.notify /\ w.code = p.code
        /\ w.gone = p.gone /\ w.out = p.out /\ w.resp = p.resp
    BY <1>1, <1>4, ChangeRule DEF Shape
  <2>2. /\ Excused(p) => Excused(w)
        /\ "aux" \in p.raised => "aux" \in w.raised
        /\ Coded(p) => Coded(w)
        /\ Busy(w) <=> Busy(p)
    BY <2>1, RaisedRule
  <2>3. AuxOpen(w) /\ Unclosed(w)
    BY <2>1, <2>2 DEF Failing, AuxOpen, Unclosed, Escaped, AuxZero, Busy
  <2> QED
    BY <1>3, <1>4, <2>1, <2>2, <2>3 DEF Erred
<1>5. CASE p.out = "string"
  <2>1. c \in GetOutString(p)
    BY <1>5 DEF GetOut
  <2>2. /\ Kept(p, c, {"exc", "document", "string", "raised"})
        /\ c.exc \in {"none", "Fault", "Exception"}
        /\ c.exc = "none" => c.string = "fault"
    BY <1>1, <2>1, GetOutStringRule
  <2>3. Change(p, c, {}) /\ Change(p, c, {"sent", "head"}) /\ Fields \subseteq DOMAIN c
    BY <2>2, KeptChange DEF Free, Kept, Running
  <2>4. /\ Failing(c) /\ Coded(c) /\ PushOnly(c) /\ CanWrite(c, "fault")
        /\ Busy(c) <=> Busy(p)
        /\ "aux" \in p.raised => "aux" \in c.raised
        /\ c.code = p.code
    BY <1>1, <1>2, <2>3, SameRule, ChangeRule DEF Failing, Shape
  <2>5. AuxOpen(c) /\ Unclosed(c) /\ Settled(c)
    BY <2>4 DEF Failing, Unclosed, Busy
  <2> QED
    BY <1>3, <2>2, <2>3, <2>4, <2>5 DEF Erred
<1>6. CASE p.out = "stream"
  <2>1. \/ c \in SerializationRaises(p)
        \/ \E w \in Write(p, "fault") :
               \/ w.exc # "none" /\ c = w
               \/ w.exc = "none" /\ (c \in FinalizeStream(w) \/ c \in SerializationRaises(w))
    <3>1. c \in StreamOut(p)
      BY <1>6 DEF GetOut
    <3>2. c \in SerializationRaises(p) \cup
                UNION {IF w.exc = "none"
                       THEN FinalizeStream(w) \cup SerializationRaises(w)
                              \cup IF w.error = "none" THEN InitInterimPush(w) ELSE {}
                       ELSE {w} : w \in Write(p, "fault")}
      BY <1>1, <3>1 DEF StreamOut, Then
    <3>3. \A w \in Write(p, "fault") : w.exc = "none" => w.error # "none"
      <4> SUFFICES ASSUME NEW w \in Write(p, "fault")
                   PROVE  w.error = p.error
        OBVIOUS
      <4>1. Kept(p, w, {"exc", "sent", "head"})
        BY <1>1, <1>2, WriteStep
      <4> QED
        BY <1>1, <4>1 DEF Kept, Shape, Fields
    <3> QED
      BY <3>2, <3>3
  <2>2. CASE c \in SerializationRaises(p)
    <3>1. Change(p, c, {}) /\ c.exc \in {"Fault", "Exception"} /\ Fields \subseteq DOMAIN c
      BY <1>1, <2>2, RaisesRule DEF Shape
    <3>2. Settled(c) /\ PushOnly(c) /\ Change(p, c, {"sent", "head"})
      BY <1>1, <3>1, SameRule, ChangeMore DEF Failing
    <3> QED
      BY <1>4, <3>1, <3>2
  <2>3. ASSUME NEW w \in Write(p, "fault")
        PROVE  /\ Change(p, w, {"sent", "head"}) /\ Settled(w) /\ w.out = "stream"
               /\ w.exc \in {"none", "Exception"} /\ w.code = p.code
               /\ Fields \cup HttpFields \subseteq DOMAIN w
    <3>1. /\ Change(p, w, {"sent", "head"}) /\ Quiet(w)
          /\ w.exc \in {"none", "Exception"}
      BY <1>1, <1>2, <1>3, WriteStep, WriteQuiet
    <3>2. /\ Fields \cup HttpFields \subseteq DOMAIN w
          /\ p.raised \subseteq w.raised
          /\ w.push = p.push /\ w.producer = p.producer /\ w.reply = p.reply
          /\ w.finished = p.finished /\ w.gone = p.gone /\ w.code = p.code
          /\ w.out = p.out /\ w.resp = p.resp
      BY <1>1, <3>1, ChangeRule DEF Shape
    <3>3. /\ Torn(p) => Torn(w)
          /\ "aux" \in w.raised => Torn(w)
          /\ Silent(p) => Silent(w)
          /\ Busy(w) <=> Busy(p)
      BY <1>6, <3>2, RaisedRule DEF Torn, Silent
    <3>4. Silent(w) \/ Working(w)
      BY <1>3, <3>2, <3>3 DEF Failing, Settled, Working, Orderly
    <3> QED
      BY <1>6, <3>1, <3>2, <3>4 DEF Settled
  <2>4. ASSUME NEW w \in Write(p, "fault"), w.exc # "none", c = w
        PROVE  Change(p, c, {"sent", "head"}) /\ Fields \subseteq DOMAIN c
               /\ c.exc \in {"none", "Fault", "Exception"}
               /\ Erred(p, c) /\ AuxOpen(c) /\ Unclosed(c)
    BY <1>4, <2>3, <2>4
  <2>5. ASSUME NEW w \in Write(p, "fault"), w.exc = "none", c \in SerializationRaises(w)
        PROVE  Change(p, c, {"sent", "head"}) /\ Fields \subseteq DOMAIN c
               /\ c.exc \in {"none", "Fault", "Exception"}
               /\ Erred(p, c) /\ AuxOpen(c) /\ Unclosed(c)
    <3>1. Change(p, w, {"sent", "head"}) /\ Settled(w) /\ w.out = "stream"
          /\ Fields \cup HttpFields \subseteq DOMAIN w
      BY <2>3
    <3>2. Change(w, c, {}) /\ c.exc \in {"Fault", "Exception"} /\ Fields \subseteq DOMAIN c
      BY <2>5, <3>1, RaisesRule
    <3>3. Shape(w)
      BY <3>1 DEF Settled, Quiet, Sound
    <3>4. Settled(c) /\ c.out = "stream"
      BY <3>1, <3>2, <3>3, SameRule, ChangeRule
    <3>5. Change(w, c, {"sent", "head"})
      BY <3>2, ChangeMore
    <3>6. Change(p, c, {"sent", "head"})
      BY <3>1, <3>5, ChangeTrans
    <3> QED
      BY <1>4, <3>2, <3>4, <3>6
  <2>6. ASSUME NEW w \in Write(p, "fault"), w.exc = "none", c \in FinalizeStream(w)
        PROVE  Change(p, c, {"sent", "head"}) /\ Fields \subseteq DOMAIN c
               /\ c.exc \in {"none", "Fault", "Exception"}
               /\ Erred(p, c) /\ AuxOpen(c) /\ Unclosed(c)
    <3>1. Change(p, w, {"sent", "head"}) /\ Settled(w) /\ w.out = "stream"
          /\ Fields \cup HttpFields \subseteq DOMAIN w
      BY <2>3
    <3> DEFINE e == [c EXCEPT !.exc = "Exception"]
    <3>2. Change(w, c, {}) /\ c.exc = "none" /\ c.string = "empty"
          /\ Fields \cup HttpFields \subseteq DOMAIN c
      BY <2>6, <3>1 DEF FinalizeStream, Change, Kept, Fields, HttpFields, Free
    <3>3. Shape(w)
      BY <3>1 DEF Settled, Quiet, Sound
    <3>4. Settled(c) /\ c.out = "stream" /\ Shape(c)
      BY <3>1, <3>2, <3>3, SameRule, ChangeRule
    <3>5. Change(w, c, {"sent", "head"})
      BY <3>2, ChangeMore
    <3>6. Change(p, c, {"sent", "head"})
      BY <3>1, <3>5, ChangeTrans
    <3>7. /\ p.raised \subseteq c.raised
          /\ c.aux = p.aux /\ c.closed = p.closed /\ c.deferred = p.deferred
          /\ c.push = p.push /\ c.producer = p.producer /\ c.gen = p.gen
          /\ c.notify = p.notify /\ c.code = p.code
          /\ c.gone = p.gone /\ c.out = p.out /\ c.resp = p.resp
      BY <1>1, <3>6, ChangeRule DEF Shape
    <3>8. /\ Excused(p) => Excused(c)
          /\ "aux" \in p.raised => "aux" \in c.raised
          /\ Coded(p) => Coded(c)
          /\ Busy(c) <=> Busy(p)
      BY <3>7, RaisedRule
    <3>9. AuxOpen(c) /\ Unclosed(c)
      BY <3>7, <3>8 DEF Failing, AuxOpen, Unclosed, Escaped, AuxZero, Busy
    <3> QED
      BY <1>3, <3>2, <3>4, <3>6, <3>7, <3>8, <3>9 DEF Erred, CanWrite
  <2> QED
    BY <2>1, <2>2, <2>4, <2>5, <2>6
<1> QED
  BY <1>1, <1>5, <1>6 DEF Shape

LEMMA HandleErrorRule ==
    ASSUME NEW p, Failing(p), Running(p), p.error # "none", NEW c \in HandleRpcError(p)
    PROVE  /\ Change(p, c, {"code", "closed", "aux", "sent", "head"})
           /\ Erred(c, c) /\ c.code \in {"error", "own"}
           /\ c.exc \in Exceptions \cup {"none"}
<1> DEFINE coded == [p EXCEPT !.code = CodeOr(p, "error"), !.document = "none",
                              !.string = "none"]
           closed == UNION {IF s.exc = "none" THEN Close(s) ELSE {s} :
                            s \in GetOut(coded)}
           S == {"code", "closed", "aux", "sent", "head"}
<1>1. PICK d \in closed : c \in IF d.exc = "none" THEN ProcessContexts(d, TRUE) ELSE {d}
  BY DEF HandleRpcError, Then
<1>2. PICK s \in GetOut(coded) : d \in IF s.exc = "none" THEN Close(s) ELSE {s}
  OBVIOUS
<1>3. Shape(p)
  BY DEF Failing, Settled, Quiet, Sound
<1>4. /\ Change(p, coded, {"code"}) /\ Running(coded)
      /\ coded.code \in {"error", "own"}
      /\ coded.resp = "own" => coded.code = "own"
      /\ coded.document = "none" /\ coded.string = "none" /\ coded.error = p.error
  BY <1>3 DEF CodeOr, Shape, Running, Change, Kept, Fields, HttpFields, Free
<1> HIDE DEF coded, closed
<1>5. Failing(coded) /\ Coded(coded)
  BY <1>4, CodeStep DEF Coded
<1>6. /\ Change(coded, s, {"sent", "head"}) /\ Fields \subseteq DOMAIN s
      /\ s.exc \in {"none", "Fault", "Exception"}
      /\ Erred(coded, s) /\ AuxOpen(s) /\ Unclosed(s)
  BY <1>4, <1>5, ErrorOutRule
<1>7. Settled(s) /\ Quiet(s) /\ Shape(s) /\ Erred(s, s) /\ s.code \in {"error", "own"}
  BY <1>4, <1>6 DEF Erred, Settled, Quiet, Sound
<1>8. /\ d.exc \in Exceptions \cup {"none"}
      /\ Erred(d, d) /\ AuxOpen(d) /\ d.code \in {"error", "own"}
      /\ Change(s, d, {"closed"})
      /\ Fields \subseteq DOMAIN d
  <2>1. CASE s.exc = "none"
    <3>1. d \in Close(s) /\ Running(s)
      BY <1>2, <1>6, <2>1 DEF Running
    <3>2. Change(s, d, {"closed"}) /\ Settled(d) /\ d.exc \in Exceptions \cup {"none"}
      BY <1>6, <1>7, <3>1, CloseStep
    <3>3. /\ d.code = s.code /\ d.finished = s.finished /\ Fields \subseteq DOMAIN d
          /\ d.aux = s.aux /\ d.out = s.out /\ d.resp = s.resp
          /\ d.producer = s.producer /\ d.push = s.push
          /\ s.raised \subseteq d.raised
      BY <1>7, <3>2, ChangeRule DEF Shape
    <3>4. d.string = s.string
      <4>1. Kept(s, d, {"exc", "events", "raised", "closed"})
        BY <3>1, CloseRule
      <4> QED
        BY <1>6, <4>1 DEF Kept, Fields
    <3>5. Change(s, d, {"closed", "finished", "producer", "notify", "aux"})
      BY <3>2, ChangeMore
    <3>6. /\ PushOnly(s) => PushOnly(d)
          /\ Coded(d) /\ AuxOpen(d)
          /\ CanWrite(s, s.string) => CanWrite(d, s.string)
      BY <1>6, <1>7, <3>3, <3>5, EndKeeps DEF Erred
    <3>7. /\ Busy(d) <=> Busy(s)
          /\ "aux" \in s.raised => "aux" \in d.raised
      BY <3>3, RaisedRule
    <3> QED
      BY <1>7, <2>1, <3>2, <3>3, <3>4, <3>6, <3>7 DEF Erred
  <2>2. CASE s.exc # "none"
    <3>1. d = s
      BY <1>2, <2>2
    <3>2. Change(s, s, {"closed"})
      BY DEF Change, Kept
    <3> QED
      BY <1>6, <1>7, <2>2, <3>1, <3>2 DEF Exceptions
  <2> QED
    BY <2>1, <2>2
<1>9. Change(p, d, S)
  <2>1. Change(p, coded, S)
    BY <1>4, ChangeMore
  <2>2. Change(coded, s, S)
    BY <1>6, ChangeMore
  <2>3. Change(s, d, S)
    BY <1>8, ChangeMore
  <2> QED
    BY <2>1, <2>2, <2>3, ChangeTrans
<1>10. CASE d.exc # "none"
  BY <1>1, <1>8, <1>9, <1>10
<1>11. CASE d.exc = "none"
  <2>1. c \in ProcessContexts(d, TRUE) /\ Running(d)
    BY <1>1, <1>8, <1>11 DEF Running
  <2>2. Settled(d) /\ Shape(d)
    BY <1>8 DEF Erred, Settled, Quiet, Sound
  <2>3. Change(d, c, {"aux"}) /\ Settled(c) /\ c.exc \in {"none", "Exception"}
    BY <1>8, <2>1, <2>2, ContextsStep
  <2>4. /\ c.code = d.code /\ c.finished = d.finished
        /\ c.out = d.out /\ c.resp = d.resp /\ c.producer = d.producer /\ c.push = d.push
        /\ d.raised \subseteq c.raised
    BY <2>2, <2>3, ChangeRule DEF Shape
  <2>5. c.string = d.string
    <3>1. Kept(d, c, {"exc", "raised", "aux"})
      BY <2>1, <2>2, ContextsRule DEF Shape
    <3> QED
      BY <1>8, <3>1 DEF Kept, Fields
  <2>6. Change(d, c, {"closed", "finished", "producer", "notify", "aux"})
    BY <2>3, ChangeMore
  <2>7. /\ PushOnly(d) => PushOnly(c)
        /\ Coded(d) => Coded(c)
        /\ CanWrite(d, d.string) => CanWrite(c, d.string)
    BY <2>2, <2>4, <2>6, EndKeeps
  <2>8. /\ Busy(c) <=> Busy(d)
        /\ "aux" \in d.raised => "aux" \in c.raised
    BY <2>4, RaisedRule
  <2>9. Erred(c, c)
    BY <1>8, <1>11, <2>3, <2>4, <2>5, <2>7, <2>8 DEF Erred
  <2>10. Change(d, c, S)
    BY <2>3, ChangeMore
  <2>11. Change(p, c, S)
    BY <1>9, <2>10, ChangeTrans
  <2> QED
    BY <1>8, <2>3, <2>4, <2>9, <2>11 DEF Exceptions
<1> QED
  BY <1>10, <1>11

\* A failure is told and the request finished.  Once the client has gone or the
\* request is finished, that fails.
LEMMA EbFaultRule ==
    ASSUME NEW p, Failing(p), Running(p), NEW exc, NEW c \in EbFault(p, exc)
    PROVE  /\ Settled(c)
           /\ c.exc \in Exceptions \cup {"none"}
           /\ p.finished => c.exc # "none"
           /\ p.gone /\ Excused(p) => Failing(c) /\ c.gone /\ Excused(c)
<1> DEFINE failed == [p EXCEPT !.error = IF exc = "Fault" THEN "Fault" ELSE "Server"]
           handled == UNION {IF s.exc = "none" THEN FireEvent(s, "method_exception_object")
                             ELSE {s} : s \in HandleRpcError(failed)}
           written == UNION {IF s.exc = "none" THEN Write(s, s.string) ELSE {s} : s \in handled}
           S == {"code", "closed", "aux", "sent", "head"}
           T == {"code", "closed", "aux", "sent", "head", "finished", "producer"}
<1>1. EbFault(p, exc) = UNION {IF s.exc = "none" THEN Finish(s) ELSE {s} : s \in written}
  BY DEF EbFault, Then
<1>2. PICK w \in written : c \in IF w.exc = "none" THEN Finish(w) ELSE {w}
  <2> HIDE DEF written
  <2> QED
    BY <1>1
<1>3. PICK h \in handled : w \in IF h.exc = "none" THEN Write(h, h.string) ELSE {h}
  <2> HIDE DEF handled
  <2> QED
    OBVIOUS
<1>4. PICK s \in HandleRpcError(failed) :
          h \in IF s.exc = "none" THEN FireEvent(s, "method_exception_object") ELSE {s}
  <2> HIDE DEF failed
  <2> QED
    OBVIOUS
<1>5. Shape(p)
  BY DEF Failing, Settled, Quiet, Sound
<1>6. Change(p, failed, {}) /\ Running(failed) /\ failed.error # "none"
  BY <1>5 DEF Shape, Running, Change, Kept, Fields, HttpFields, Free
<1> HIDE DEF failed, handled, written
<1>7. Failing(failed)
  BY <1>5, <1>6, SameRule
<1>8. /\ Change(failed, s, S) /\ Erred(s, s) /\ s.exc \in Exceptions \cup {"none"}
  BY <1>6, <1>7, HandleErrorRule
<1>9. Shape(s) /\ Settled(s) /\ Fields \subseteq DOMAIN s
  BY <1>8 DEF Erred, Settled, Quiet, Sound, Shape
<1>10. /\ Change(s, h, {}) /\ h.exc \in Exceptions \cup {"none"}
       /\ h.exc = "none" => s.exc = "none" /\ h.string = s.string
  <2>1. CASE s.exc = "none"
    <3>1. Kept(s, h, {"exc", "events", "raised"}) /\ h.exc \in Exceptions \cup {"none"}
      BY <1>4, <1>9, <2>1, FireRule DEF Running
    <3>2. h.string = s.string
      BY <1>9, <3>1 DEF Kept, Fields
    <3> QED
      BY <2>1, <3>1, <3>2, KeptChange DEF Free
  <2>2. CASE s.exc # "none"
    BY <1>4, <1>8, <2>2 DEF Change, Kept
  <2> QED
    BY <2>1, <2>2
<1>11. /\ Settled(h) /\ h.finished = s.finished
       /\ h.gone = s.gone /\ Fields \subseteq DOMAIN h
       /\ ~Busy(h) \/ "aux" \in h.raised
  <2>1. Fields \cup HttpFields \subseteq DOMAIN h
        /\ h.finished = s.finished /\ h.gone = s.gone /\ s.raised \subseteq h.raised
    BY <1>9, <1>10, ChangeRule DEF Shape
  <2>2. Settled(h) /\ (Busy(h) <=> Busy(s))
    BY <1>9, <1>10, SameRule
  <2> QED
    BY <1>8, <2>1, <2>2 DEF Erred
<1>12. h.exc = "none" => h.string \in {"fault", "empty"} /\ CanWrite(h, h.string)
  BY <1>8, <1>9, <1>10, SameRule DEF Erred
<1>13. Change(p, h, S)
  <2>1. Change(p, failed, S) /\ Change(s, h, S)
    BY <1>6, <1>10, ChangeMore
  <2> QED
    BY <1>8, <2>1, ChangeTrans
<1>14. h.finished = p.finished
  BY <1>5, <1>13, ChangeRule DEF Shape
<1>15. /\ Settled(c) /\ c.exc \in Exceptions \cup {"none"}
       /\ h.finished => c.exc # "none"
       /\ Change(h, c, T)
       /\ c.producer \in {h.producer, "none"}
  <2>1. CASE h.exc = "none"
    <3>1. c \in Then(Write(h, h.string), Finish)
      BY <1>2, <1>3, <2>1 DEF Then
    <3>2. Quiet(h) /\ Running(h)
      BY <1>11, <2>1 DEF Settled, Running
    <3>3. /\ Change(h, c, {"sent", "head", "closed", "finished", "producer"}) /\ Settled(c)
          /\ c.exc \in {"none", "Exception"}
          /\ h.finished => c.exc # "none"
          /\ c.producer \in {h.producer, "none"}
      BY <1>11, <1>12, <2>1, <3>1, <3>2, WriteFinish
    <3> QED
      BY <3>3, ChangeMore DEF Exceptions
  <2>2. CASE h.exc # "none"
    BY <1>2, <1>3, <1>10, <1>11, <2>2 DEF Change, Kept
  <2> QED
    BY <2>1, <2>2
<1>16. Change(p, c, T)
  BY <1>13, <1>15, ChangeMore, ChangeTrans
<1>17. ASSUME p.gone, Excused(p)
       PROVE  Failing(c) /\ c.gone /\ Excused(c)
  <2>1. /\ c.gone = p.gone /\ p.raised \subseteq c.raised /\ c.push = p.push
        /\ h.producer = p.producer
    BY <1>5, <1>13, <1>16, ChangeRule DEF Shape
  <2>2. Excused(c)
    BY <1>17, <2>1 DEF Excused
  <2>3. \/ c.producer = "none" /\ c.push # "pending" /\ ~Interim(c)
        \/ "aux" \in c.raised
    BY <1>15, <2>1 DEF Failing, Interim
  <2> QED
    BY <1>15, <1>17, <2>1, <2>2, <2>3
    DEF Failing, PushOnly, Silent, AuxOpen, Escaped
<1> QED
  BY <1>14, <1>15, <1>17

\* What is written is more of what was begun, or comes behind what was torn.
Fits(p, what) ==
    /\ CanWrite(p, what)
    /\ what \in {"result", "empty"} \/ ~Busy(p) \/ "aux" \in p.raised
    /\ \/ Torn(p) \/ Silent(p)
       \/ (p.push = "pending" => what = "push") /\ (Busy(p) => what = "result")

LEMMA WriteSettled ==
    ASSUME NEW p, Settled(p), Running(p), NEW what \in {"result", "fault", "push", "500"},
           Fits(p, what), NEW c \in Write(p, what)
    PROVE  /\ Settled(c)
           /\ Kept(p, c, {"exc", "sent", "head"}) /\ Change(p, c, {"sent", "head"})
           /\ Fields \cup HttpFields \subseteq DOMAIN c
           /\ c.exc \in {"none", "Exception"} /\ (c.exc # "none" <=> p.finished)
           /\ Silent(p) => Change(p, c, {})
           /\ Torn(p) => Torn(c)
           /\ Coded(p) => Coded(c)
           /\ \A kinds : OnlySent(p, kinds) /\ what \in kinds => OnlySent(c, kinds)
<1>1. Shape(p) /\ Quiet(p) /\ Sound(p)
  BY DEF Settled, Quiet, Sound
<1>2. /\ Quiet(c) /\ Change(p, c, {"sent", "head"}) /\ Kept(p, c, {"exc", "sent", "head"})
      /\ c.exc \in {"none", "Exception"} /\ (c.exc # "none" <=> p.finished)
      /\ Silent(p) => Change(p, c, {})
      /\ \A kinds : OnlySent(p, kinds) /\ what \in kinds => OnlySent(c, kinds)
  BY <1>1, WriteStep, WriteQuiet DEF Fits
<1>3. /\ Fields \cup HttpFields \subseteq DOMAIN c
      /\ p.raised \subseteq c.raised
      /\ c.push = p.push /\ c.producer = p.producer /\ c.reply = p.reply
      /\ c.gen = p.gen /\ c.code = p.code
      /\ c.finished = p.finished /\ c.gone = p.gone
      /\ c.out = p.out /\ c.resp = p.resp
  BY <1>1, <1>2, ChangeRule DEF Shape
<1>4. /\ Torn(p) => Torn(c)
      /\ Coded(p) => Coded(c)
      /\ Busy(c) <=> Busy(p)
      /\ Silent(c) <=> Silent(p)
  BY <1>3, RaisedRule DEF Silent
<1>5. Silent(c) \/ Working(c)
  BY <1>2, <1>3, <1>4 DEF Fits, Settled, Working, Orderly
<1> QED
  BY <1>2, <1>3, <1>4, <1>5 DEF Settled

\* The rest of a document is written.
LEMMA EndDocumentRule ==
    ASSUME NEW p, Settled(p), Running(p), NEW what \in {"result", "push"},
           Fits(p, what), NEW c \in EndDocument(p, what)
    PROVE  /\ Settled(c) /\ Change(p, c, {"sent", "head"})
           /\ Fields \cup HttpFields \subseteq DOMAIN c
           /\ c.exc \in {"none", "Fault", "Exception"}
           /\ c.exc # "none" => Kind(p) \in c.raised \/ p.finished
           /\ \A kinds : OnlySent(p, kinds) /\ what \in kinds => OnlySent(c, kinds)
           /\ "error" \in DOMAIN p => c.error = p.error
           /\ "string" \in DOMAIN p => c.string = p.string
<1>1. Shape(p) /\ Fields \cup HttpFields \subseteq DOMAIN p
  BY DEF Settled, Quiet, Sound, Shape
<1>2. \/ c \in SerializationRaises(p)
      \/ \E w \in Write(p, what) : c = w \/ (w.exc = "none" /\ c \in SerializationRaises(w))
  BY DEF EndDocument, Then
<1>3. ASSUME NEW w, Settled(w), c \in SerializationRaises(w),
             Kept(p, w, {"exc", "sent", "head"}), Change(p, w, {"sent", "head"}),
             \A kinds : OnlySent(p, kinds) /\ what \in kinds => OnlySent(w, kinds)
      PROVE  /\ Settled(c) /\ Change(p, c, {"sent", "head"})
             /\ Fields \cup HttpFields \subseteq DOMAIN c
             /\ c.exc \in {"none", "Fault", "Exception"}
             /\ Kind(p) \in c.raised
             /\ \A kinds : OnlySent(p, kinds) /\ what \in kinds => OnlySent(c, kinds)
             /\ c.error = p.error /\ c.string = p.string
  <2>1. Shape(w) /\ Fields \cup HttpFields \subseteq DOMAIN w
    BY <1>3 DEF Settled, Quiet, Sound, Shape
  <2>2. /\ Kept(w, c, {"exc", "raised"}) /\ Change(w, c, {})
        /\ c.exc \in {"Fault", "Exception"} /\ Kind(w) \in c.raised
    BY <1>3, <2>1, RaisesRule
  <2>3. /\ w.error = p.error /\ w.string = p.string
        /\ c.error = w.error /\ c.string = w.string
    BY <1>1, <1>3, <2>1, <2>2 DEF Kept, Fields
  <2>4. Settled(c) /\ c.sent = w.sent /\ Fields \cup HttpFields \subseteq DOMAIN c
    BY <1>3, <2>1, <2>2, SameRule, ChangeRule
  <2>5. Change(w, c, {"sent", "head"})
    BY <2>2, ChangeMore
  <2>6. Change(p, c, {"sent", "head"})
    BY <1>3, <2>5, ChangeTrans
  <2> QED
    BY <1>3, <2>2, <2>3, <2>4, <2>6 DEF Kind, OnlySent
<1>4. CASE c \in SerializationRaises(p)
  <2>1. Kept(p, p, {"exc", "sent", "head"}) /\ Change(p, p, {"sent", "head"})
    BY DEF Kept, Change
  <2> QED
    BY <1>3, <1>4, <2>1
<1>5. ASSUME NEW w \in Write(p, what), c = w \/ (w.exc = "none" /\ c \in SerializationRaises(w))
      PROVE  /\ Settled(c) /\ Change(p, c, {"sent", "head"})
             /\ Fields \cup HttpFields \subseteq DOMAIN c
             /\ c.exc \in {"none", "Fault", "Exception"}
             /\ c.exc # "none" => Kind(p) \in c.raised \/ p.finished
             /\ \A kinds : OnlySent(p, kinds) /\ what \in kinds => OnlySent(c, kinds)
             /\ c.error = p.error /\ c.string = p.string
  <2>1. /\ Settled(w) /\ Change(p, w, {"sent", "head"})
        /\ Kept(p, w, {"exc", "sent", "head"})
        /\ Fields \cup HttpFields \subseteq DOMAIN w
        /\ w.exc \in {"none", "Exception"} /\ (w.exc # "none" <=> p.finished)
        /\ \A kinds : OnlySent(p, kinds) /\ what \in kinds => OnlySent(w, kinds)
    BY WriteSettled
  <2>2. w.error = p.error /\ w.string = p.string
    BY <1>1, <2>1 DEF Kept, Fields
  <2>3. CASE c = w
    BY <2>1, <2>2, <2>3
  <2>4. CASE w.exc = "none" /\ c \in SerializationRaises(w)
    BY <1>3, <2>1, <2>4
  <2> QED
    BY <1>5, <2>3, <2>4
<1> QED
  BY <1>2, <1>4, <1>5

LEMMA FinalizeStreamRule ==
    ASSUME NEW p, Fields \cup HttpFields \subseteq DOMAIN p, NEW c \in FinalizeStream(p)
    PROVE  /\ Change(p, c, {}) /\ c.exc = p.exc /\ c.string = "empty"
           /\ Fields \subseteq DOMAIN c /\ c.error = p.error
  BY DEF FinalizeStream, Change, Kept, Fields, HttpFields, Free

-----------------------------------------------------------------------------
(* Pushes.                                                                 *)

\* The generator starts and ends, and the pusher comes and goes.
LEMMA PusherStep ==
    ASSUME NEW p, Settled(p), NEW c, Change(p, c, {"gen", "stack"}),
           p.gen # "none" => c.gen # "none", p.push = "pending" => c.stack = p.stack
    PROVE  /\ Settled(c) /\ c.push = p.push
           /\ Escaped(p) => Escaped(c)
           /\ AuxZero(p) => AuxZero(c)
           /\ Coded(p) => Coded(c)
           /\ Torn(p) => Torn(c)
<1>1. Shape(p)
  BY DEF Settled, Quiet, Sound
<1>2. /\ Fields \cup HttpFields \subseteq DOMAIN c
      /\ p.raised \subseteq c.raised
      /\ c.aux = p.aux /\ c.others = p.others /\ c.closed = p.closed
      /\ c.deferred = p.deferred /\ c.producer = p.producer /\ c.body = p.body
      /\ c.push = p.push /\ c.notify = p.notify
      /\ c.reply = p.reply /\ c.code = p.code /\ c.head = p.head /\ c.sent = p.sent
      /\ c.finished = p.finished /\ c.gone = p.gone
      /\ c.out = p.out /\ c.resp = p.resp
  BY <1>1, ChangeRule DEF Shape
<1>3. /\ Excused(p) => Excused(c)
      /\ "aux" \in p.raised => "aux" \in c.raised
      /\ Torn(p) => Torn(c)
      /\ Busy(c) <=> Busy(p)
      /\ Interim(c) <=> Interim(p)
  BY <1>2, RaisedRule
<1>3a. /\ Silent(c) <=> Silent(p)
       /\ AuxZero(p) => AuxZero(c)
       /\ Uncoded(p) => Uncoded(c)
       /\ Coded(p) => Coded(c)
       /\ \A kinds : OnlySent(p, kinds) <=> OnlySent(c, kinds)
  BY <1>2 DEF Silent, AuxZero, Uncoded, Coded, OnlySent
<1>4. Escaped(p) => Escaped(c)
  BY <1>2, <1>3 DEF Escaped
<1>5. Sound(c)
  BY <1>1, <1>2, <1>3, <1>3a, <1>4 DEF Settled, Quiet, Sound, Shape
<1>6. Quiet(c)
  BY <1>2, <1>3, <1>3a, <1>4, <1>5 DEF Settled, Quiet
<1>7. Working(p) => Working(c)
  BY <1>2, <1>3, <1>3a DEF Working, Orderly
<1> QED
  BY <1>2, <1>3, <1>3a, <1>4, <1>6, <1>7 DEF Settled

\* The generator of a push ends, which finalizes its context.
LEMMA FinalizePushRule ==
    ASSUME NEW p, Settled(p), Running(p), p.push # "pending", p.gen # "none", PushOnly(p),
           ~Busy(p) \/ "aux" \in p.raised, NEW c \in FinalizePush(p)
    PROVE  /\ Settled(c) /\ Change(p, c, {"sent", "head"})
           /\ c.exc \in {"none", "Fault", "Exception"}
           /\ OnlySent(p, {"push"}) => OnlySent(c, {"push"})
<1>1. Shape(p)
  BY DEF Settled, Quiet, Sound
<1>2. CASE p.out = "string"
  <2>1. c \in GetOutString(p)
    BY <1>2 DEF FinalizePush
  <2>2. /\ Kept(p, c, {"exc", "document", "string", "raised"})
        /\ c.exc \in {"none", "Fault", "Exception"}
    BY <2>1, GetOutStringRule
  <2>3. Change(p, c, {}) /\ Change(p, c, {"sent", "head"})
    BY <2>2, KeptChange DEF Free
  <2>4. Settled(c) /\ c.sent = p.sent
    BY <1>1, <2>3, SameRule, ChangeRule DEF Shape
  <2> QED
    BY <2>2, <2>3, <2>4 DEF OnlySent
<1>3. CASE p.out # "string"
  <2>1. PICK d \in EndDocument(p, "push") :
            IF d.exc = "none" THEN c \in FinalizeStream(d) ELSE c = d
    BY <1>3 DEF FinalizePush, Then
  <2>2. p.out = "stream"
    BY <1>1, <1>3 DEF Shape
  <2>3. Fits(p, "push")
    BY <2>2 DEF Fits, CanWrite, PushOnly, Coded, Uncoded, Torn
  <2>4. /\ Settled(d) /\ Change(p, d, {"sent", "head"})
        /\ Fields \cup HttpFields \subseteq DOMAIN d
        /\ d.exc \in {"none", "Fault", "Exception"}
        /\ OnlySent(p, {"push"}) => OnlySent(d, {"push"})
    BY <2>1, <2>3, EndDocumentRule
  <2>5. CASE d.exc # "none"
    BY <2>1, <2>4, <2>5
  <2>6. CASE d.exc = "none"
    <3>1. Change(d, c, {}) /\ c.exc = "none"
      BY <2>1, <2>4, <2>6, FinalizeStreamRule
    <3>2. Shape(d)
      BY <2>4 DEF Settled, Quiet, Sound
    <3>3. Settled(c) /\ c.sent = d.sent
      BY <2>4, <3>1, <3>2, SameRule, ChangeRule
    <3>4. Change(d, c, {"sent", "head"})
      BY <3>1, ChangeMore
    <3>5. Change(p, c, {"sent", "head"})
      BY <2>4, <3>4, ChangeTrans
    <3> QED
      BY <2>4, <3>1, <3>3, <3>5 DEF OnlySent
  <2> QED
    BY <2>5, <2>6
<1> QED
  BY <1>2, <1>3

\* The pusher is closed.  A second call after one that raised does what the first
\* one left, or there is an exception to OnceEach.
LEMMA PusherTryCloseRule ==
    ASSUME NEW p, Closable(p), Running(p), NEW c \in PusherTryClose(p)
    PROVE  /\ Change(p, c, {"gen", "stack", "aux", "sent", "head", "closed", "finished",
                           "producer"})
           /\ Settled(c) /\ c.gen # "none"
           /\ c.exc \in {"none", "Fault", "Exception"}
           /\ c.exc # "none" => Closable(c) /\ c.closed = p.closed
                                /\ c.producer = p.producer
                                  /\ c.finished = p.finished
           /\ c.exc = "none" => c.finished
           /\ OnlySent(p, {"push"}) => OnlySent(c, {"push"})
<1> DEFINE over == [p EXCEPT !.gen = "over"]
           strings == IF p.gen = "over" THEN {p} ELSE FinalizePush(over)
           closes == UNION {IF s.exc = "none" THEN ProcessContexts(s, FALSE) ELSE {s} :
                            s \in strings}
           pop(s) == IF s.stack THEN {[s EXCEPT !.stack = FALSE]} ELSE Raises(s, "Exception")
           pops == UNION {IF s.exc = "none" THEN pop(s) ELSE {s} : s \in closes}
           S == {"gen", "stack", "aux", "sent", "head"}
           T == {"gen", "stack", "aux", "sent", "head", "closed", "finished",
                           "producer"}
<1>1. PusherTryClose(p) = UNION {IF s.exc = "none" THEN Finish(s) ELSE {s} : s \in pops}
  BY DEF PusherTryClose, BasePusherTryClose, PusherClose, Then
<1>2. PICK u \in pops : c \in IF u.exc = "none" THEN Finish(u) ELSE {u}
  <2> HIDE DEF pops
  <2> QED
    BY <1>1
<1>3. PICK t \in closes : u \in IF t.exc = "none" THEN pop(t) ELSE {t}
  <2> HIDE DEF closes, pop
  <2> QED
    OBVIOUS
<1>4. PICK s \in strings :
          t \in IF s.exc = "none" THEN ProcessContexts(s, FALSE) ELSE {s}
  <2> HIDE DEF strings
  <2> QED
    OBVIOUS
<1> HIDE DEF closes, pops
<1>5. Shape(p)
  BY DEF Closable, Settled, Quiet, Sound
<1>6. Change(p, over, {"gen"}) /\ Running(over) /\ over.gen = "over"
  BY <1>5 DEF Shape, Running, Change, Kept, Fields, HttpFields, Free
<1>7. /\ Settled(over) /\ Shape(over) /\ over.push # "pending" /\ over.stack = p.stack
      /\ (Escaped(p) => Escaped(over)) /\ (AuxZero(p) => AuxZero(over))
      /\ PushOnly(p) => PushOnly(over)
      /\ ~Busy(over) \/ "aux" \in over.raised
      /\ OnlySent(p, {"push"}) => OnlySent(over, {"push"})
  <2> HIDE DEF over
  <2>1. Change(p, over, {"gen", "stack"})
    BY <1>6, ChangeMore
  <2>2. /\ over.stack = p.stack /\ over.sent = p.sent /\ over.finished = p.finished
        /\ over.gone = p.gone /\ over.out = p.out /\ over.resp = p.resp
        /\ over.producer = p.producer /\ over.push = p.push
        /\ p.raised \subseteq over.raised
    BY <1>5, <1>6, ChangeRule DEF Shape
  <2>3. /\ Settled(over) /\ over.push = p.push
        /\ Escaped(p) => Escaped(over)
        /\ AuxZero(p) => AuxZero(over)
        /\ Torn(p) => Torn(over)
    BY <1>6, <2>1, <2>2, PusherStep DEF Closable
  <2>4. /\ Busy(over) <=> Busy(p)
        /\ "aux" \in p.raised => "aux" \in over.raised
    BY <2>2, RaisedRule
  <2> QED
    BY <2>2, <2>3, <2>4 DEF Closable, Settled, Quiet, Sound, PushOnly, Silent, OnlySent
<1>8. /\ Change(p, s, S) /\ s.exc \in {"none", "Fault", "Exception"}
      /\ s.gen = "over" /\ Settled(s) /\ s.push # "pending" /\ Shape(s)
      /\ Escaped(s) \/ (AuxZero(s) /\ s.stack)
      /\ ~Busy(s) \/ "aux" \in s.raised
      /\ OnlySent(p, {"push"}) => OnlySent(s, {"push"})
  <2> HIDE DEF over
  <2>1. CASE p.gen = "over"
    <3>1. s = p
      BY <1>4, <2>1
    <3>2. Change(p, p, S)
      BY DEF Change, Kept
    <3> QED
      BY <1>5, <2>1, <3>1, <3>2 DEF Running, Closable
  <2>2. CASE p.gen # "over"
    <3>1. s \in FinalizePush(over)
      BY <1>4, <2>2
    <3>2. Change(over, s, {"sent", "head"}) /\ s.exc \in {"none", "Fault", "Exception"}
          /\ Settled(s) /\ (OnlySent(over, {"push"}) => OnlySent(s, {"push"}))
      <4>1. PushOnly(over) /\ over.gen # "none"
        BY <1>6, <1>7, <2>2 DEF Closable
      <4> QED
        BY <1>6, <1>7, <3>1, <4>1, FinalizePushRule
    <3>3. /\ s.gen = over.gen /\ s.push = over.push /\ s.stack = over.stack
          /\ s.aux = over.aux /\ s.deferred = over.deferred /\ s.gone = over.gone
          /\ s.out = over.out /\ s.resp = over.resp /\ s.producer = over.producer
          /\ over.raised \subseteq s.raised
      BY <1>7, <3>2, ChangeRule DEF Shape
    <3>4. /\ Busy(s) <=> Busy(over)
          /\ "aux" \in over.raised => "aux" \in s.raised
          /\ Excused(over) => Excused(s)
      BY <3>3, RaisedRule
    <3>5. (Escaped(over) => Escaped(s)) /\ (AuxZero(over) => AuxZero(s))
      <4>1. Escaped(over) => Escaped(s)
        BY <3>3, <3>4 DEF Escaped
      <4>2. AuxZero(over) => AuxZero(s)
        BY <3>3 DEF AuxZero
      <4> QED
        BY <4>1, <4>2
    <3>6. Change(over, s, S)
      BY <3>2, ChangeMore
    <3>7. Change(p, over, S)
      BY <1>6, ChangeMore
    <3>8. Change(p, s, S)
      BY <3>6, <3>7, ChangeTrans
    <3> QED
      BY <1>6, <1>7, <3>2, <3>3, <3>4, <3>5, <3>8 DEF Closable, Settled, Quiet, Sound
  <2> QED
    BY <2>1, <2>2
<1> HIDE DEF over, strings
<1>9. /\ Settled(t) /\ t.push # "pending" /\ t.gen = "over" /\ Shape(t) /\ Change(p, t, S)
      /\ t.exc \in {"none", "Fault", "Exception"}
      /\ Escaped(t) \/ t.stack
      /\ t.exc # "none" => Escaped(t) \/ AuxZero(t)
      /\ ~Busy(t) \/ "aux" \in t.raised
      /\ OnlySent(p, {"push"}) => OnlySent(t, {"push"})
  <2>1. CASE s.exc = "none"
    <3>1. t \in ProcessContexts(s, FALSE) /\ Running(s) /\ AuxOpen(s)
      BY <1>4, <1>8, <2>1 DEF Running, Shape, AuxOpen
    <3>2. /\ Change(s, t, {"aux"}) /\ Settled(t)
          /\ t.exc \in {"none", "Exception"}
          /\ t.exc # "none" => "aux" \in t.raised
      BY <1>8, <3>1, ContextsStep
    <3>3. /\ t.push = s.push /\ t.gen = s.gen /\ t.stack = s.stack
          /\ t.deferred = s.deferred /\ t.gone = s.gone /\ s.raised \subseteq t.raised
          /\ t.producer = s.producer /\ t.out = s.out /\ t.resp = s.resp
          /\ t.sent = s.sent
      BY <1>8, <3>2, ChangeRule DEF Shape
    <3>4. /\ Escaped(s) => Escaped(t)
          /\ t.exc # "none" => Escaped(t)
          /\ Busy(t) <=> Busy(s)
          /\ OnlySent(s, {"push"}) => OnlySent(t, {"push"})
      BY <3>2, <3>3, RaisedRule DEF Escaped, Excused, OnlySent
    <3>5. Change(p, t, S)
      BY <1>8, <3>2, ChangeMore, ChangeTrans
    <3> QED
      BY <1>8, <3>2, <3>3, <3>4, <3>5 DEF Settled, Quiet, Sound
  <2>2. CASE s.exc # "none"
    <3>1. t = s
      BY <1>4, <2>2
    <3> QED
      BY <1>8, <2>2, <3>1
  <2> QED
    BY <2>1, <2>2
<1>10. /\ Settled(u) /\ u.push # "pending" /\ u.gen = "over" /\ Change(p, u, S)
       /\ ~Busy(u) \/ "aux" \in u.raised
       /\ u.exc \in {"none", "Fault", "Exception"}
       /\ u.exc # "none" => Closable(u)
       /\ OnlySent(p, {"push"}) => OnlySent(u, {"push"})
  <2>1. CASE t.exc # "none"
    BY <1>3, <1>9, <2>1 DEF Closable
  <2>2. CASE t.exc = "none" /\ ~t.stack
    <3>1. u = [t EXCEPT !.exc = "Exception"]
      BY <1>3, <2>2 DEF Raises
    <3>2. Change(t, u, {}) /\ u.exc = "Exception"
      BY <1>9, <3>1, ExcChange DEF Shape
    <3>2a. /\ u.push = t.push /\ u.gen = t.gen /\ u.sent = t.sent
           /\ t.raised \subseteq u.raised
      BY <1>9, <3>2, ChangeRule DEF Shape
    <3>3. Settled(u) /\ Escaped(u) /\ (Busy(u) <=> Busy(t))
      BY <1>9, <2>2, <3>2, SameRule
    <3>4. Change(p, u, S)
      BY <1>9, <3>2, ChangeMore, ChangeTrans
    <3>5. OnlySent(p, {"push"}) => OnlySent(u, {"push"})
      BY <1>9, <3>2a DEF OnlySent
    <3> QED
      BY <1>9, <3>2, <3>2a, <3>3, <3>4, <3>5 DEF Closable
  <2>3. CASE t.exc = "none" /\ t.stack
    <3>1. u = [t EXCEPT !.stack = FALSE]
      BY <1>3, <2>3
    <3>2. Change(t, u, {"stack"}) /\ u.exc = "none"
      BY <1>9, <2>3, <3>1 DEF Shape, Change, Kept, Fields, HttpFields, Free
    <3>3. /\ u.gen = t.gen /\ t.raised \subseteq u.raised /\ u.out = t.out
          /\ u.resp = t.resp /\ u.producer = t.producer /\ u.push = t.push
          /\ u.sent = t.sent
      BY <1>9, <3>2, ChangeRule DEF Shape
    <3>4. Change(t, u, {"gen", "stack"})
      BY <3>2, ChangeMore
    <3>5. Settled(u) /\ u.push # "pending"
      BY <1>9, <3>3, <3>4, PusherStep
    <3>6. Change(p, u, S)
      BY <1>9, <3>2, ChangeMore, ChangeTrans
    <3>7. Busy(u) <=> Busy(t)
      BY <3>3, RaisedRule
    <3> QED
      BY <1>9, <3>2, <3>3, <3>5, <3>6, <3>7 DEF OnlySent
  <2> QED
    BY <2>1, <2>2, <2>3
<1>11. /\ Shape(u) /\ Fields \subseteq DOMAIN u
       /\ u.closed = p.closed /\ u.producer = p.producer /\ u.finished = p.finished
  <2>1. u.closed = p.closed /\ u.producer = p.producer /\ u.finished = p.finished
    BY <1>5, <1>10, ChangeRule DEF Shape
  <2> QED
    BY <1>10, <2>1 DEF Settled, Quiet, Sound, Shape
<1>12. CASE u.exc # "none"
  BY <1>2, <1>10, <1>11, <1>12, ChangeMore
<1>13. CASE u.exc = "none"
  <2>1. c \in Finish(u) /\ Running(u) /\ Quiet(u)
    BY <1>2, <1>10, <1>11, <1>13 DEF Running, Settled
  <2>2. /\ Change(u, c, {"closed", "finished", "producer"}) /\ Settled(c)
        /\ c.exc \in {"none", "Exception"}
        /\ c.exc = "none" => c.finished
        /\ c.exc # "none" => u.gone /\ c.closed = u.closed /\ c.finished = u.finished
                               /\ c.producer = u.producer
    BY <2>1, FinishStep
  <2>3. /\ c.gen = u.gen /\ c.gone = u.gone /\ c.push = u.push
        /\ u.raised \subseteq c.raised /\ c.out = u.out /\ c.resp = u.resp
        /\ c.sent = u.sent
    BY <1>11, <2>2, ChangeRule DEF Shape
  <2>4. c.exc # "none" => Escaped(c)
    <3>1. u.gone => Escaped(c)
      BY <1>10, <2>3 DEF Escaped
    <3> QED
      BY <2>2, <3>1
  <2>5. Change(p, c, T)
    BY <1>10, <2>2, ChangeMore, ChangeTrans
  <2>6. c.exc # "none" => ~Busy(c) \/ "aux" \in c.raised
    BY <1>10, <2>2, <2>3, RaisedRule
  <2> QED
    BY <1>10, <1>11, <2>2, <2>3, <2>4, <2>5, <2>6 DEF Closable, OnlySent
<1> QED
  BY <1>12, <1>13

\* An object is pushed, or its serialization raises.
LEMMA PushRule ==
    ASSUME NEW p, Settled(p), Running(p), PushOnly(p), p.gen # "none",
           ~Busy(p), NEW c \in Push(p)
    PROVE  /\ Change(p, c, {"gen", "sent", "head"}) /\ Settled(c) /\ c.gen # "none"
           /\ OnlySent(p, {"push"}) => OnlySent(c, {"push"})
           /\ c.exc \in {"none", "Exception"}
<1>1. Shape(p) /\ Quiet(p) /\ Sound(p)
  BY DEF Settled, Quiet, Sound
<1>2. CASE c \in Write(p, "push")
  <2>1. Fits(p, "push")
    BY DEF Fits, CanWrite, PushOnly, Coded, Uncoded
  <2>2. /\ Change(p, c, {"sent", "head"}) /\ Settled(c)
        /\ c.exc \in {"none", "Exception"}
        /\ OnlySent(p, {"push"}) => OnlySent(c, {"push"})
    BY <1>2, <2>1, WriteSettled
  <2>3. c.gen = p.gen
    BY <1>1, <2>2, ChangeRule DEF Shape
  <2>4. Change(p, c, {"gen", "sent", "head"})
    BY <2>2, ChangeMore
  <2> QED
    BY <2>2, <2>3, <2>4
<1>3. CASE c = [Blame(p, "result") EXCEPT !.exc = "Exception", !.gen = "over"]
  <2>1. Change(p, c, {"gen"}) /\ c.gen = "over" /\ c.exc = "Exception"
    BY <1>1, <1>3 DEF Shape, Blame, Change, Kept, Fields, HttpFields, Free
  <2>2. Change(p, c, {"gen", "stack"}) /\ Change(p, c, {"gen", "sent", "head"})
    BY <2>1, ChangeMore
  <2>3. c.stack = p.stack /\ c.sent = p.sent
    BY <1>1, <2>1, ChangeRule DEF Shape
  <2>4. Settled(c)
    BY <2>1, <2>2, <2>3, PusherStep
  <2> QED
    BY <2>1, <2>2, <2>3, <2>4 DEF OnlySent
<1> QED
  BY <1>2, <1>3 DEF Push

\* The callback of a push has begun.
Pushing(p) ==
    /\ Settled(p) /\ OnlySent(p, {"push"})
    /\ p.gen # "none" /\ p.stack /\ p.push = "none"
    /\ p.closed = 0 /\ ~p.notify /\ p.producer = "none" /\ AuxZero(p)

LEMMA PushingFails ==
    ASSUME NEW p, Pushing(p)
    PROVE  Failing(p) /\ Closable(p) /\ PushOnly(p)
  BY DEF Pushing, Failing, Closable, PushOnly, AuxOpen, Busy, Interim

LEMMA PusherInitRule ==
    ASSUME NEW p, Pushing(p), Running(p), NEW c \in PusherInit(p)
    PROVE  /\ Pushing(c) /\ Change(p, c, {"gen", "sent", "head"})
           /\ c.exc \in {"none", "Exception"}
<1>1. PICK d \in {p} \cup Push(p) :
          IF d.exc = "none" THEN c = d \/ c = [Blame(d, "push") EXCEPT !.exc = "Exception"]
          ELSE c = d
  <2> DEFINE pushed == {p} \cup IF MaxPushes > 0 THEN Push(p) ELSE {}
             over(d) == Returns(d) \cup Raises(Blame(d, "push"), "Exception")
  <2>1. PusherInit(p) = UNION {IF s.exc = "none" THEN over(s) ELSE {s} : s \in pushed}
    BY DEF PusherInit, Then
  <2>2. PICK s \in pushed : c \in IF s.exc = "none" THEN over(s) ELSE {s}
    <3> HIDE DEF pushed, over
    <3> QED
      BY <2>1
  <2>3. s \in {p} \cup Push(p)
    OBVIOUS
  <2> QED
    BY <2>2, <2>3 DEF Returns, Raises
<1>2. /\ Change(p, d, {"gen", "sent", "head"}) /\ Settled(d) /\ d.gen # "none"
      /\ OnlySent(d, {"push"})
      /\ d.exc \in {"none", "Exception"}
  <2>1. CASE d = p
    BY <2>1 DEF Pushing, Running, Change, Kept
  <2>2. CASE d \in Push(p)
    BY <2>2, PushingFails, PushRule DEF Pushing, Busy, Interim
  <2> QED
    BY <2>1, <2>2
<1>3. Shape(p) /\ Shape(d)
  BY <1>2 DEF Pushing, Settled, Quiet, Sound
<1>7. Fields \cup HttpFields \subseteq DOMAIN p /\ Fields \cup HttpFields \subseteq DOMAIN d
  BY <1>3 DEF Shape
<1>4. Pushing(d)
  <2>1. /\ d.stack = p.stack /\ d.push = p.push /\ d.closed = p.closed
        /\ d.notify = p.notify /\ d.producer = p.producer /\ d.aux = p.aux
    BY <1>2, <1>7, ChangeRule
  <2> QED
    BY <1>2, <2>1 DEF Pushing, AuxZero
<1>5. CASE c = d
  BY <1>2, <1>4, <1>5
<1>6. CASE c = [Blame(d, "push") EXCEPT !.exc = "Exception"]
  <2>1. Change(d, c, {}) /\ c.exc = "Exception"
    BY <1>3, <1>6 DEF Shape, Blame, Change, Kept, Fields, HttpFields, Free
  <2>2. /\ Settled(c) /\ c.sent = d.sent /\ c.gen = d.gen
        /\ c.stack = d.stack /\ c.push = d.push /\ c.closed = d.closed
        /\ c.notify = d.notify /\ c.producer = d.producer /\ c.aux = d.aux
    BY <1>2, <1>3, <1>7, <2>1, SameRule, ChangeRule
  <2>3. Pushing(c)
    BY <1>4, <2>2 DEF Pushing, AuxZero, OnlySent
  <2>4. Change(p, c, {"gen", "sent", "head"})
    BY <1>2, <2>1, ChangeMore, ChangeTrans
  <2> QED
    BY <2>1, <2>3, <2>4
<1> QED
  BY <1>1, <1>5, <1>6

\* A push begins, and may end at once.
LEMMA InitRootPushRule ==
    ASSUME NEW p, Fresh(p), ~p.stack, Running(p), NEW c \in InitRootPush(p)
    PROVE  /\ Settled(c) /\ c.deferred = p.deferred
           /\ c.exc \in Exceptions \cup {"none"}
           /\ c.exc = "none" => PushOnly(c) /\ c.gen # "none"
           /\ c.exc # "none" => Failing(c)
           /\ c.exc = "Redirect" => Fresh(c)
<1> DEFINE made == [p EXCEPT !.stack = TRUE]
           opened(s) == [s EXCEPT !.gen = "open"]
           init == UNION {IF s.exc = "none" THEN PusherInit(opened(s)) ELSE {s} :
                          s \in FireEvent(made, "method_return_push")}
           ends(s) == PusherTryClose(s)
                        \cup {[s EXCEPT !.push = "pending"]}
                        \cup IF s.deferred = "fired"
                             THEN {[Blame(s, "thread") EXCEPT !.push = "stuck"]} ELSE {}
<1>1. InitRootPush(p) = UNION {IF s.exc = "none" THEN ends(s) ELSE {s} : s \in init}
  BY DEF InitRootPush, Then
<1>2. PICK d \in init : c \in IF d.exc = "none" THEN ends(d) ELSE {d}
  <2> HIDE DEF init, ends
  <2> QED
    BY <1>1
<1>3. PICK s \in FireEvent(made, "method_return_push") :
          d \in IF s.exc = "none" THEN PusherInit(opened(s)) ELSE {s}
  <2> HIDE DEF made, opened
  <2> QED
    OBVIOUS
<1>4. Shape(p)
  BY DEF Fresh, Waiting, Blank
<1>5. /\ Kept(p, made, {"stack"}) /\ Running(made) /\ made.stack = TRUE
      /\ Fields \cup HttpFields \subseteq DOMAIN made
  BY <1>4 DEF Shape, Running, Kept, Fields, HttpFields
<1> HIDE DEF made, init
<1>6. /\ Kept(made, s, {"exc", "events", "raised"}) /\ s.exc \in Exceptions \cup {"none"}
  BY <1>5, FireRule
<1>7. /\ Kept(p, s, {"exc", "events", "raised", "stack", "code"})
      /\ Change(made, s, {}) /\ Change(p, s, {"stack"})
  <2>1. Kept(p, s, {"exc", "events", "raised", "stack"})
    BY <1>5, <1>6 DEF Kept
  <2> QED
    BY <1>6, <2>1, KeptChange DEF Kept, Free
<1>8. Fresh(s) /\ s.stack = TRUE /\ s.deferred = p.deferred /\ Shape(s)
  <2>1. s.stack = made.stack
    BY <1>5, <1>7, ChangeRule
  <2>2. s.deferred = p.deferred
    BY <1>4, <1>7, ChangeRule DEF Shape
  <2> QED
    BY <1>4, <1>5, <1>7, <2>1, <2>2, FreshRule DEF Fresh, Waiting, Blank
<1>9. Failing(s) /\ OnlySent(s, {"push"})
  BY <1>8, BlankRule DEF Fresh, Waiting, OnlySent
<1>10. CASE s.exc # "none"
  <2>1. d = s /\ c = s
    BY <1>2, <1>3, <1>10
  <2> QED
    BY <1>6, <1>8, <1>9, <1>10, <2>1 DEF Failing
<1>11. CASE s.exc = "none"
  <2> DEFINE o == opened(s)
  <2>1. d \in PusherInit(o)
    BY <1>3, <1>11
  <2>2. Change(s, o, {"gen"}) /\ Running(o) /\ o.gen = "open"
    BY <1>8, <1>11 DEF Shape, Running, Change, Kept, Fields, HttpFields, Free
  <2> HIDE DEF opened
  <2>3. /\ o.stack = s.stack /\ o.push = s.push /\ o.closed = s.closed /\ o.aux = s.aux
        /\ o.notify = s.notify /\ o.producer = s.producer /\ o.sent = s.sent
        /\ o.deferred = s.deferred
    BY <1>8, <2>2, ChangeRule DEF Shape
  <2>4. Settled(o)
    BY <1>9, <2>2, <2>3, ChangeMore, PusherStep DEF Failing
  <2>5. Pushing(o)
    BY <1>8, <1>9, <2>2, <2>3, <2>4 DEF Pushing, OnlySent, Fresh, Waiting, Blank, AuxZero
  <2> HIDE DEF o
  <2>6. /\ Pushing(d) /\ Change(o, d, {"gen", "sent", "head"})
        /\ d.exc \in {"none", "Exception"}
    BY <2>1, <2>2, <2>5, PusherInitRule
  <2>7. d.deferred = p.deferred /\ Shape(d)
    <3>1. Shape(o) /\ Shape(d)
      BY <2>5, <2>6 DEF Pushing, Settled, Quiet, Sound
    <3>2. Fields \cup HttpFields \subseteq DOMAIN o
      BY <3>1 DEF Shape
    <3>3. d.deferred = o.deferred
      BY <2>6, <3>2, ChangeRule
    <3> QED
      BY <1>8, <2>3, <3>1, <3>3
  <2>8. Failing(d) /\ Closable(d) /\ PushOnly(d)
    BY <2>6, PushingFails
  <2>9. CASE d.exc # "none"
    <3>1. c = d
      BY <1>2, <2>9
    <3> QED
      BY <2>6, <2>7, <2>8, <2>9, <3>1 DEF Exceptions, Failing
  <2>10. CASE d.exc = "none" /\ c \in PusherTryClose(d)
    <3>1. Running(d)
      BY <2>7, <2>10 DEF Running, Shape
    <3>2. /\ Change(d, c, {"gen", "stack", "aux", "sent", "head", "closed", "finished",
                           "producer"})
          /\ Settled(c) /\ c.gen # "none"
          /\ c.exc \in {"none", "Fault", "Exception"}
          /\ c.exc # "none" => Closable(c) /\ c.closed = d.closed /\ c.producer = d.producer
                                 /\ c.finished = d.finished
          /\ c.exc = "none" => c.finished
          /\ OnlySent(d, {"push"}) => OnlySent(c, {"push"})
      BY <2>8, <2>10, <3>1, PusherTryCloseRule
    <3>3. c.notify = d.notify /\ c.deferred = d.deferred /\ c.push = d.push
      <4>1. Fields \cup HttpFields \subseteq DOMAIN d
        BY <2>7 DEF Shape
      <4> QED
        BY <3>2, <4>1, ChangeRule
    <3>4. PushOnly(c)
      BY <2>6, <3>2 DEF Pushing, PushOnly
    <3>5. c.exc # "none" => Failing(c)
      BY <2>6, <3>2, <3>3, <3>4 DEF Failing, Closable, AuxOpen, Pushing, Interim
    <3> QED
      BY <2>7, <3>2, <3>3, <3>4, <3>5 DEF Exceptions
  <2>11. CASE d.exc = "none" /\ c \notin PusherTryClose(d)
    <3>1. \/ c = [d EXCEPT !.push = "pending"]
          \/ c = [Blame(d, "thread") EXCEPT !.push = "stuck"]
      BY <1>2, <2>11
    <3>2. /\ Change(d, c, {"push"}) /\ c.exc = "none" /\ c.push \in {"pending", "stuck"}
      <4>1. {"push", "raised", "exc"} \subseteq DOMAIN d
        BY <2>7 DEF Shape, Fields, HttpFields
      <4>2. /\ Kept(d, c, {"push", "raised"}) /\ c.exc = "none"
            /\ c.push \in {"pending", "stuck"}
        BY <2>11, <3>1, <4>1 DEF Blame, Kept
      <4> QED
        BY <4>2, KeptChange DEF Free
    <3>3. /\ Fields \cup HttpFields \subseteq DOMAIN c
          /\ d.raised \subseteq c.raised
          /\ c.aux = d.aux /\ c.others = d.others /\ c.closed = d.closed
          /\ c.deferred = d.deferred /\ c.producer = d.producer /\ c.body = d.body
          /\ c.gen = d.gen /\ c.stack = d.stack /\ c.notify = d.notify
          /\ c.reply = d.reply /\ c.code = d.code /\ c.head = d.head /\ c.sent = d.sent
          /\ c.finished = d.finished /\ c.gone = d.gone
          /\ c.out = d.out /\ c.resp = d.resp
      BY <2>7, <3>2, ChangeRule DEF Shape
    <3>4. /\ Excused(d) => Excused(c)
          /\ "aux" \in d.raised => "aux" \in c.raised
          /\ Torn(d) => Torn(c)
          /\ Uncoded(d) => Uncoded(c)
      BY <3>3, RaisedRule
    <3>4a. /\ Silent(c) <=> Silent(d)
           /\ AuxZero(c)
           /\ ~Busy(c) /\ ~Interim(c)
           /\ OnlySent(c, {"push"})
      BY <2>6, <3>2, <3>3 DEF Silent, AuxZero, Busy, Interim, OnlySent, Pushing
    <3>5. Escaped(d) => Escaped(c)
      BY <3>3, <3>4 DEF Escaped
    <3>6. Sound(c)
      BY <2>7, <2>8, <3>3, <3>4, <3>4a, <3>5
      DEF Closable, Settled, Quiet, Sound, Shape
    <3>7. Quiet(c)
      BY <2>6, <2>8, <3>3, <3>4, <3>4a, <3>6 DEF Closable, Settled, Quiet, Pushing
    <3>8. Working(d) => Working(c)
      BY <3>3, <3>4a DEF Working, Orderly
    <3>9. Settled(c) /\ PushOnly(c)
      BY <2>8, <3>4a, <3>7, <3>8 DEF Closable, Settled, PushOnly
    <3> QED
      BY <2>6, <2>7, <3>2, <3>3, <3>9 DEF Pushing
  <2> QED
    BY <2>6, <2>9, <2>10, <2>11
<1> QED
  BY <1>10, <1>11

-----------------------------------------------------------------------------
(* Results.                                                                *)

\* The response may be begun: nothing was done for it.
LEMMA ReadyStart ==
    ASSUME NEW p, Fresh(p), Coded(p), p.code \in {"200", "own"}
    PROVE  Ready(p) /\ p.sent = <<>>
<1>1. Failing(p) /\ OnlySent(p, {})
  BY BlankRule DEF Fresh, Waiting
<1>2. OnlySent(p, {"result"})
  BY <1>1 DEF OnlySent
<1> QED
  BY <1>1, <1>2 DEF Ready, Failing, Fresh, Waiting, Blank, Reached

LEMMA ReadyFails ==
    ASSUME NEW p, Ready(p)
    PROVE  /\ PushOnly(p) => Failing(p)
           /\ p.gone => Late(p)
           /\ ~Busy(p) /\ ~Interim(p) /\ AuxOpen(p)
           /\ PushOnly(p) \/ p.out = "stream"
           /\ Shape(p) /\ Fields \cup HttpFields \subseteq DOMAIN p
<1>1. /\ ~Busy(p) /\ ~Interim(p) /\ AuxOpen(p)
      /\ Shape(p) /\ Fields \cup HttpFields \subseteq DOMAIN p
  BY DEF Ready, Busy, Interim, AuxOpen, Settled, Quiet, Sound, Shape
<1>2. PushOnly(p) => Failing(p)
  BY <1>1 DEF Ready, Failing
<1>3. p.gone => Late(p)
  BY <1>2 DEF Ready, Late, PushOnly, Silent, Excused
<1>4. PushOnly(p) \/ p.out = "stream"
  BY DEF Ready, PushOnly, OnlySent
<1> QED
  BY <1>1, <1>2, <1>3, <1>4

\* The result is streamed on.
LEMMA ReadyWrite ==
    ASSUME NEW p, Ready(p), Running(p), p.out = "stream", NEW c \in Write(p, "result")
    PROVE  /\ Ready(c) /\ c.exc = "none" /\ c.out = "stream" /\ Fields \subseteq DOMAIN c
           /\ Kept(p, c, {"exc", "sent", "head"})
<1>1. Fits(p, "result")
  BY DEF Ready, Fits, CanWrite
<1>2. /\ Settled(c)
      /\ Kept(p, c, {"exc", "sent", "head"}) /\ Change(p, c, {"sent", "head"})
      /\ Fields \cup HttpFields \subseteq DOMAIN c
      /\ c.exc = "none"
      /\ Coded(p) => Coded(c)
      /\ OnlySent(p, {"result"}) => OnlySent(c, {"result"})
  BY <1>1, WriteSettled DEF Ready, Settled
<1>3. Fields \cup HttpFields \subseteq DOMAIN p
  BY ReadyFails
<1>4. /\ p.raised \subseteq c.raised
      /\ c.code = p.code /\ c.producer = p.producer /\ c.push = p.push /\ c.gen = p.gen
      /\ c.reply = p.reply /\ c.closed = p.closed /\ c.aux = p.aux /\ c.notify = p.notify
      /\ c.finished = p.finished /\ c.gone = p.gone /\ c.out = p.out
  BY <1>2, <1>3, ChangeRule
<1>5. AuxZero(p) => AuxZero(c)
  BY <1>4 DEF AuxZero
<1> QED
  BY <1>2, <1>4, <1>5 DEF Ready

\* Serialization to the request raises: what is there stays.
LEMMA ReadyRaises ==
    ASSUME NEW p, Ready(p), p.out = "stream", p.error = "none",
           NEW c \in SerializationRaises(p)
    PROVE  /\ Ready(c) /\ Torn(c) /\ c.exc \in {"Fault", "Exception"}
           /\ Kept(p, c, {"exc", "raised"}) /\ Fields \subseteq DOMAIN c
<1>1. Shape(p) /\ Fields \cup HttpFields \subseteq DOMAIN p
  BY ReadyFails
<1>2. /\ Kept(p, c, {"exc", "raised"}) /\ Change(p, c, {})
      /\ Fields \subseteq DOMAIN c
      /\ c.exc \in {"Fault", "Exception"}
      /\ "result" \in c.raised
  BY <1>1, RaisesRule DEF Kind
<1>3. Ready(c)
  BY <1>1, <1>2, SameRule
<1>4. c.out = p.out
  BY <1>1, <1>2, ChangeRule
<1> QED
  BY <1>2, <1>3, <1>4 DEF Torn

\* What streaming the result leaves behind while nobody waits for more of it.
Streaming(p) ==
    /\ Ready(p) /\ p.out = "stream" /\ p.error = "none"
    /\ p.exc \in Exceptions \cup {"none"}
    /\ p.exc # "none" => Torn(p)
    /\ p.string \in {"none", "result", "empty"}
    /\ Fields \subseteq DOMAIN p

\* What is written or raised while the result is streamed leaves it so.
LEMMA StreamingSteps ==
    ASSUME NEW p, Streaming(p), p.exc = "none",
           NEW c \in Write(p, "result") \cup SerializationRaises(p)
                       \cup EndDocument(p, "result")
    PROVE  Streaming(c) /\ c.string = p.string
<1>1. ASSUME NEW s, Streaming(s), s.exc = "none", NEW d \in Write(s, "result")
      PROVE  Streaming(d) /\ d.string = s.string /\ d.exc = "none"
  <2>1. /\ Ready(d) /\ d.exc = "none" /\ d.out = "stream" /\ Fields \subseteq DOMAIN d
        /\ Kept(s, d, {"exc", "sent", "head"})
    BY <1>1, ReadyWrite DEF Streaming, Running
  <2>2. d.error = s.error /\ d.string = s.string
    BY <1>1, <2>1 DEF Streaming, Kept, Fields
  <2> QED
    BY <1>1, <2>1, <2>2 DEF Streaming
<1>2. ASSUME NEW s, Streaming(s), s.exc = "none", NEW d \in SerializationRaises(s)
      PROVE  Streaming(d) /\ d.string = s.string
  <2>1. /\ Ready(d) /\ Torn(d) /\ d.exc \in {"Fault", "Exception"}
        /\ Kept(s, d, {"exc", "raised"}) /\ Fields \subseteq DOMAIN d
    BY <1>2, ReadyRaises DEF Streaming
  <2>2. d.error = s.error /\ d.string = s.string
    BY <1>2, <2>1 DEF Streaming, Kept, Fields
  <2>3. d.out = "stream"
    BY <2>1 DEF Torn
  <2> QED
    BY <1>2, <2>1, <2>2, <2>3 DEF Streaming, Exceptions
<1>3. CASE c \in EndDocument(p, "result")
  <2>1. \/ c \in SerializationRaises(p)
        \/ \E w \in Write(p, "result") : c = w \/ (w.exc = "none" /\ c \in SerializationRaises(w))
    BY <1>3 DEF EndDocument, Then
  <2> QED
    BY <1>1, <1>2, <2>1
<1> QED
  BY <1>1, <1>2, <1>3

\* A change that the invariant does not speak about.
LEMMA StreamingSame ==
    ASSUME NEW p, Streaming(p), NEW c, Change(p, c, {}), Fields \subseteq DOMAIN c,
           c.error = p.error, c.string \in {p.string, "empty"},
           c.exc \in Exceptions \cup {"none"},
           c.exc # "none" => c.raised \cap {"push", "method_return_push"} # {}
    PROVE  Streaming(c)
<1>1. Shape(p) /\ Fields \cup HttpFields \subseteq DOMAIN p
  BY ReadyFails DEF Streaming
<1>2. Ready(c)
  BY <1>1, SameRule DEF Streaming
<1>3. c.out = p.out
  BY <1>1, ChangeRule
<1> QED
  BY <1>2, <1>3 DEF Streaming, Torn

\* A PushBase found in the result is waited for, or its Deferred is stuck.
LEMMA InterimStarted ==
    ASSUME NEW p, Streaming(p), p.exc = "none", NEW c,
           \/ c = [p EXCEPT !.push = "interim"]
           \/ c = [Blame(p, "thread") EXCEPT !.push = "stuck"]
    PROVE  IF c.push = "interim" THEN Started(c) /\ c.exc = "none" ELSE Streaming(c)
<1>1. Shape(p) /\ Fields \cup HttpFields \subseteq DOMAIN p
  BY ReadyFails DEF Streaming
<1>2. /\ Kept(p, c, {"push", "raised"}) /\ c.exc = "none" /\ c.push \in {"interim", "stuck"}
      /\ Fields \subseteq DOMAIN c
  BY <1>1 DEF Blame, Kept, Fields, HttpFields, Streaming
<1>3. c.error = p.error /\ c.string = p.string
  BY <1>1, <1>2 DEF Kept, Fields
<1>4. Change(p, c, {"push"})
  BY <1>2, KeptChange DEF Free
<1>5. /\ Fields \cup HttpFields \subseteq DOMAIN c
      /\ p.raised \subseteq c.raised
      /\ c.aux = p.aux /\ c.others = p.others /\ c.closed = p.closed
      /\ c.deferred = p.deferred /\ c.producer = p.producer /\ c.body = p.body
      /\ c.gen = p.gen /\ c.stack = p.stack /\ c.notify = p.notify
      /\ c.reply = p.reply /\ c.code = p.code /\ c.head = p.head /\ c.sent = p.sent
      /\ c.finished = p.finished /\ c.gone = p.gone
      /\ c.out = p.out /\ c.resp = p.resp
  BY <1>1, <1>4, ChangeRule
<1>6. /\ Excused(p) => Excused(c)
      /\ "aux" \in p.raised => "aux" \in c.raised
      /\ Torn(p) => Torn(c)
      /\ Uncoded(p) => Uncoded(c)
      /\ Coded(p) => Coded(c)
  BY <1>5, RaisedRule
<1>7. /\ Silent(c) <=> Silent(p)
      /\ AuxZero(c) <=> AuxZero(p)
      /\ Escaped(p) => Escaped(c)
      /\ \A kinds : OnlySent(c, kinds) <=> OnlySent(p, kinds)
  BY <1>5, <1>6 DEF Silent, AuxZero, Escaped, OnlySent
<1>8. Sound(c)
  BY <1>1, <1>5, <1>6, <1>7 DEF Streaming, Ready, Settled, Quiet, Sound, Shape
<1>9. Quiet(c)
  BY <1>2, <1>5, <1>6, <1>7, <1>8 DEF Streaming, Ready, Settled, Quiet
<1>10. Working(c)
  BY <1>2, <1>5, <1>7 DEF Streaming, Ready, Working, Orderly
<1>11. Settled(c) /\ AuxOpen(c)
  BY <1>2, <1>5, <1>7, <1>9, <1>10 DEF Settled, AuxOpen, Streaming, Ready
<1>12. CASE c.push = "interim"
  BY <1>2, <1>5, <1>11, <1>12 DEF Started, Streaming
<1>13. CASE c.push = "stuck"
  <2>1. Ready(c)
    BY <1>5, <1>6, <1>7, <1>11, <1>13 DEF Ready, Streaming
  <2> QED
    BY <1>2, <1>3, <1>5, <1>13, <2>1 DEF Streaming
<1> QED
  BY <1>2, <1>12, <1>13

\* convert_pull_to_push.
LEMMA InterimRule ==
    ASSUME NEW p, Streaming(p), p.exc = "none", NEW c \in InitInterimPush(p)
    PROVE  IF c.push = "interim" THEN Started(c) /\ c.exc = "none" ELSE Streaming(c)
<1> DEFINE pushed(s) == {s} \cup IF MaxPushes > 0
                                 THEN Write(s, "result") \cup SerializationRaises(s) ELSE {}
           pushes == UNION {IF s.exc = "none" THEN pushed(s) ELSE {s} :
                            s \in FireEvent(p, "method_return_push")}
           back(s) == Returns(s) \cup Raises(Blame(s, "push"), "Exception")
           init == UNION {IF s.exc = "none" THEN back(s) ELSE {s} : s \in pushes}
           ends(s) == InterimClose(s)
                        \cup {[s EXCEPT !.push = "interim"]}
                        \cup IF s.deferred = "fired"
                             THEN {[Blame(s, "thread") EXCEPT !.push = "stuck"]} ELSE {}
<1>1. InitInterimPush(p) = UNION {IF s.exc = "none" THEN ends(s) ELSE {s} : s \in init}
  BY DEF InitInterimPush, Then
<1>2. PICK d \in init : c \in IF d.exc = "none" THEN ends(d) ELSE {d}
  <2> HIDE DEF init, ends
  <2> QED
    BY <1>1
<1>3. PICK e \in pushes : d \in IF e.exc = "none" THEN back(e) ELSE {e}
  <2> HIDE DEF pushes, back
  <2> QED
    OBVIOUS
<1>4. PICK f \in FireEvent(p, "method_return_push") :
          e \in IF f.exc = "none" THEN pushed(f) ELSE {f}
  <2> HIDE DEF pushed
  <2> QED
    OBVIOUS
<1> HIDE DEF pushes, init
<1>5. Streaming(f)
  <2>1. /\ Kept(p, f, {"exc", "events", "raised"})
        /\ f.exc \in Exceptions \cup {"none"}
        /\ f.exc # "none" => "method_return_push" \in f.raised
    BY FireRule DEF Streaming, Running
  <2>2. Change(p, f, {})
    BY <2>1, KeptChange DEF Free
  <2>3. Fields \subseteq DOMAIN f /\ f.error = p.error /\ f.string = p.string
    BY <2>1 DEF Streaming, Kept, Fields
  <2> QED
    BY <2>1, <2>2, <2>3, StreamingSame
<1>6. Streaming(e)
  <2>1. e = f \/ (f.exc = "none" /\ e \in Write(f, "result") \cup SerializationRaises(f))
    BY <1>4
  <2> QED
    BY <1>5, <2>1, StreamingSteps
<1>7. Streaming(d)
  <2>1. d = e \/ d = [Blame(e, "push") EXCEPT !.exc = "Exception"]
    BY <1>3 DEF Returns, Raises
  <2>2. CASE d = [Blame(e, "push") EXCEPT !.exc = "Exception"]
    <3>1. Fields \cup HttpFields \subseteq DOMAIN e
      BY <1>6, ReadyFails DEF Streaming
    <3>2. /\ Change(e, d, {}) /\ d.exc = "Exception" /\ "push" \in d.raised
          /\ d.error = e.error /\ d.string = e.string /\ Fields \subseteq DOMAIN d
      BY <2>2, <3>1 DEF Blame, Change, Kept, Fields, HttpFields, Free
    <3> QED
      BY <1>6, <3>2, StreamingSame DEF Exceptions
  <2> QED
    BY <1>6, <2>1, <2>2
<1>8. CASE d.exc # "none"
  <2>1. c = d
    BY <1>2, <1>8
  <2> QED
    BY <1>7, <2>1 DEF Streaming, Ready
<1>9. CASE d.exc = "none"
  <2>1. \/ c \in InterimClose(d)
        \/ c = [d EXCEPT !.push = "interim"]
        \/ c = [Blame(d, "thread") EXCEPT !.push = "stuck"]
    BY <1>2, <1>9
  <2>2. CASE c \in InterimClose(d)
    <3>1. c = d \/ c \in EndDocument(d, "result")
      BY <2>2 DEF InterimClose
    <3>2. Streaming(c)
      BY <1>7, <1>9, <3>1, StreamingSteps
    <3> QED
      BY <3>2 DEF Streaming, Ready
  <2> QED
    BY <1>7, <1>9, <2>1, <2>2, InterimStarted
<1> QED
  BY <1>8, <1>9

\* The result is streamed.
LEMMA StreamOutRule ==
    ASSUME NEW p, Streaming(p), p.exc = "none", NEW c \in StreamOut(p)
    PROVE  IF c.push = "interim" THEN Started(c) /\ c.exc = "none" ELSE Streaming(c)
<1>1. Kind(p) = "result" /\ p.error = "none"
  BY DEF Streaming, Kind
<1>2. \/ c \in SerializationRaises(p)
      \/ \E w \in Write(p, "result") :
             IF w.exc = "none"
             THEN c \in FinalizeStream(w) \cup SerializationRaises(w) \cup InitInterimPush(w)
             ELSE c = w
  <2>1. c \in SerializationRaises(p) \cup
              UNION {IF w.exc = "none"
                     THEN FinalizeStream(w) \cup SerializationRaises(w)
                            \cup IF p.error = "none" THEN InitInterimPush(w) ELSE {}
                     ELSE {w} : w \in Write(p, "result")}
    BY <1>1 DEF StreamOut, Then
  <2> QED
    BY <1>1, <2>1
<1>3. ASSUME NEW d, Streaming(d)
      PROVE  d.push # "interim"
  BY <1>3 DEF Streaming, Ready
<1>4. CASE c \in SerializationRaises(p)
  BY <1>3, <1>4, StreamingSteps
<1>5. ASSUME NEW w \in Write(p, "result"),
             IF w.exc = "none"
             THEN c \in FinalizeStream(w) \cup SerializationRaises(w) \cup InitInterimPush(w)
             ELSE c = w
      PROVE  IF c.push = "interim" THEN Started(c) /\ c.exc = "none" ELSE Streaming(c)
  <2>1. Streaming(w)
    BY StreamingSteps
  <2>2. CASE c = w
    BY <1>3, <2>1, <2>2
  <2>3. CASE w.exc = "none" /\ c \in FinalizeStream(w)
    <3>1. Fields \cup HttpFields \subseteq DOMAIN w
      BY <2>1, ReadyFails DEF Streaming
    <3>2. /\ Change(w, c, {}) /\ c.exc = "none" /\ c.string = "empty"
          /\ Fields \subseteq DOMAIN c /\ c.error = w.error
      BY <2>3, <3>1, FinalizeStreamRule
    <3>3. Streaming(c)
      BY <2>1, <3>2, StreamingSame
    <3> QED
      BY <1>3, <3>3
  <2>4. CASE w.exc = "none" /\ c \in SerializationRaises(w)
    BY <1>3, <2>1, <2>4, StreamingSteps
  <2>5. CASE w.exc = "none" /\ c \in InitInterimPush(w)
    BY <2>1, <2>5, InterimRule
  <2> QED
    BY <1>5, <2>2, <2>3, <2>4, <2>5
<1> QED
  BY <1>2, <1>4, <1>5

\* What is to be produced, or its failure.
Made(p) ==
    /\ Ready(p) /\ p.exc \in Exceptions \cup {"none"} /\ Fields \subseteq DOMAIN p
    /\ p.exc # "none" => PushOnly(p)
    /\ p.exc = "Redirect" => Torn(p)
    /\ p.string \in {"none", "result", "empty"}

\* The string is made, or the result streamed.
LEMMA GetOutRule ==
    ASSUME NEW p, Ready(p), Running(p), p.string \in {"none", "result", "empty"},
           p.string = "none" => p.error = "none" /\ p.document \in {"none", "result"},
           NEW c \in GetOut(p)
    PROVE  IF c.push = "interim" THEN Started(c) /\ c.exc = "none" ELSE Made(c)
<1>1. /\ Shape(p) /\ Fields \cup HttpFields \subseteq DOMAIN p
      /\ p.push # "interim"
  BY ReadyFails DEF Ready
<1>2. CASE p.string # "none"
  <2>1. c = p
    BY <1>2 DEF GetOut
  <2> QED
    BY <1>1, <2>1 DEF Running, Made
<1>3. CASE p.string = "none" /\ p.out = "string"
  <2>1. c \in GetOutString(p)
    BY <1>3 DEF GetOut
  <2>2. /\ Kept(p, c, {"exc", "document", "string", "raised"})
        /\ c.exc \in {"none", "Fault", "Exception"}
        /\ c.document = p.document \/ (p.document = "none" /\ c.document = Kind(p))
        /\ c.string = p.string \/ (p.string = "none" /\ c.string = c.document)
    BY <2>1, GetOutStringRule
  <2>3. Change(p, c, {})
    BY <2>2, KeptChange DEF Free
  <2>4. Ready(c)
    BY <1>1, <2>3, SameRule
  <2>5. c.push = p.push /\ c.out = p.out
    BY <1>1, <2>3, ChangeRule
  <2>6. PushOnly(c)
    BY <1>3, <2>4, <2>5, ReadyFails
  <2>7. c.string \in {"none", "result", "empty"}
    BY <1>3, <2>2 DEF Kind
  <2>8. Fields \subseteq DOMAIN c
    BY <2>2 DEF Kept, Running
  <2> QED
    BY <1>1, <2>2, <2>4, <2>5, <2>6, <2>7, <2>8 DEF Made, Exceptions
<1>4. CASE p.string = "none" /\ p.out # "string"
  <2>1. c \in StreamOut(p) /\ p.out = "stream"
    BY <1>1, <1>4 DEF GetOut, Shape
  <2>2. Streaming(p)
    BY <1>1, <1>4, <2>1 DEF Streaming, Running
  <2>3. IF c.push = "interim" THEN Started(c) /\ c.exc = "none" ELSE Streaming(c)
    BY <2>1, <2>2, StreamOutRule DEF Running
  <2> QED
    BY <2>3 DEF Streaming, Made, PushOnly
<1> QED
  BY <1>2, <1>3, <1>4

\* The response is begun, or its failure may be handled.
Begun(c) ==
    /\ Settled(c)
    /\ c.exc \in Exceptions \cup {"none"}
    /\ c.exc = "none" => Started(c)
    /\ c.exc # "none" => Failing(c)
    /\ c.exc = "Redirect" => Redirectable(c)

LEMMA LateFault ==
    ASSUME NEW p, Late(p), Running(p), NEW c \in EbFault(Blame(p, "producer"), "Exception")
    PROVE  /\ Settled(c)
           /\ c.exc \in Exceptions \cup {"none"}
           /\ c.exc = "none" => Started(c)
           /\ p.gone /\ Excused(p) => Begun(c)
<1> DEFINE b == Blame(p, "producer")
<1>1. Shape(p) /\ Fields \cup HttpFields \subseteq DOMAIN p /\ Failing(p)
  BY DEF Late, Failing, Settled, Quiet, Sound, Shape
<1>2. Change(p, b, {}) /\ Running(b)
  BY <1>1, BlameChange DEF Running
<1> HIDE DEF b
<1>3. /\ Failing(b) /\ b.finished = p.finished /\ b.gone = p.gone
      /\ Excused(p) => Excused(b)
  BY <1>1, <1>2, SameRule, ChangeRule
<1>4. /\ Settled(c)
      /\ c.exc \in Exceptions \cup {"none"}
      /\ b.finished => c.exc # "none"
      /\ b.gone /\ Excused(b) => Failing(c) /\ c.gone /\ Excused(c)
  BY <1>2, <1>3, EbFaultRule DEF b
<1>5. Failing(c) => Started(c)
  BY DEF Failing, Started
<1> QED
  BY <1>3, <1>4, <1>5 DEF Late, Begun, Redirectable

\* The producer is registered, or it is too late for that.
LEMMA RegisterRule ==
    ASSUME NEW p, Ready(p), Running(p), p.string \in {"none", "result", "empty"},
           NEW c \in RegisterProducer(p)
    PROVE  Begun(c)
<1>1. /\ ~Busy(p) /\ ~Interim(p) /\ AuxOpen(p)
      /\ PushOnly(p) \/ p.out = "stream"
      /\ Shape(p) /\ Fields \cup HttpFields \subseteq DOMAIN p
      /\ p.gone => Late(p)
  BY ReadyFails
<1>2. CASE p.gone
  <2>1. c \in EbFault(Blame(p, "producer"), "Exception")
    BY <1>2 DEF RegisterProducer
  <2> QED
    BY <1>1, <1>2, <2>1, LateFault DEF Late, Ready, Excused
<1>3. CASE ~p.gone
  <2>1. c = [p EXCEPT !.producer = "on", !.body = p.string, !.left = Chunks]
    BY <1>3 DEF RegisterProducer, Ready
  <2>2. /\ Change(p, c, {"producer", "body"}) /\ c.exc = "none" /\ c.producer = "on"
        /\ c.body = p.string /\ c.raised = p.raised
    BY <1>1, <2>1 DEF Change, Kept, Fields, HttpFields, Free, Running
  <2>3. /\ Fields \cup HttpFields \subseteq DOMAIN c
        /\ c.aux = p.aux /\ c.others = p.others /\ c.closed = p.closed
        /\ c.deferred = p.deferred
        /\ c.push = p.push /\ c.gen = p.gen /\ c.stack = p.stack /\ c.notify = p.notify
        /\ c.reply = p.reply /\ c.code = p.code /\ c.head = p.head /\ c.sent = p.sent
        /\ c.finished = p.finished /\ c.gone = p.gone
        /\ c.out = p.out /\ c.resp = p.resp
    BY <1>1, <2>2, ChangeRule
  <2>4. /\ Excused(c) <=> Excused(p)
        /\ Torn(c) <=> Torn(p)
        /\ Uncoded(c) <=> Uncoded(p)
        /\ Coded(c) <=> Coded(p)
        /\ Interim(c) <=> Interim(p)
    BY <2>2, <2>3 DEF Excused, Torn, Uncoded, Coded, Interim
  <2>5. /\ Escaped(c) <=> Escaped(p)
        /\ Silent(c) <=> Silent(p)
        /\ AuxZero(c) <=> AuxZero(p)
        /\ PushOnly(c) <=> PushOnly(p)
        /\ \A kinds : OnlySent(c, kinds) <=> OnlySent(p, kinds)
    BY <2>3, <2>4 DEF Escaped, Silent, AuxZero, OnlySent, PushOnly
  <2>6. Sound(c)
    BY <1>1, <2>2, <2>3, <2>4, <2>5 DEF Ready, Settled, Quiet, Sound, Shape
  <2>7. Quiet(c)
    BY <1>1, <2>2, <2>3, <2>4, <2>5, <2>6 DEF Ready, Settled, Quiet
  <2>8. Working(c)
    BY <2>3, <2>4, <2>5 DEF Ready, Working, Orderly
  <2> QED
    BY <1>1, <2>2, <2>3, <2>5, <2>7, <2>8 DEF Begun, Settled, Started, AuxOpen
<1> QED
  BY <1>2, <1>3

\* A PushBase found in the result is waited for, or a producer registered.
LEMMA ProducerRule ==
    ASSUME NEW p, Ready(p), Running(p), p.string \in {"none", "result", "empty"},
           p.string = "none" => p.error = "none" /\ p.document \in {"none", "result"},
           NEW c \in Then(GetOut(p), LAMBDA d : IF d.push = "interim" THEN {d}
                                                ELSE RegisterProducer(d))
    PROVE  Begun(c)
<1>1. PICK s \in GetOut(p) :
          IF s.exc # "none" \/ s.push = "interim" THEN c = s ELSE c \in RegisterProducer(s)
  BY DEF Then
<1>2. IF s.push = "interim" THEN Started(s) /\ s.exc = "none" ELSE Made(s)
  BY GetOutRule
<1>3. CASE s.push = "interim"
  BY <1>1, <1>2, <1>3 DEF Begun, Started
<1>4. CASE s.push # "interim" /\ s.exc # "none"
  <2>1. Made(s) /\ c = s
    BY <1>1, <1>2, <1>4
  <2>2. Failing(s)
    BY <1>4, <2>1, ReadyFails DEF Made
  <2> QED
    BY <1>4, <2>1, <2>2 DEF Begun, Failing, Made, Redirectable
<1>5. CASE s.push # "interim" /\ s.exc = "none"
  BY <1>1, <1>2, <1>5, RegisterRule DEF Made, Running
<1> QED
  BY <1>3, <1>4, <1>5

\* A page is written and its context closed, or a file is sent.
LEMMA RenderFileRule ==
    ASSUME NEW p, Running(p), Ready(p), p.sent = <<>>, NEW c \in RenderFile(p)
    PROVE  Begun(c)
<1> DEFINE page == UNION {IF s.exc = "none" THEN Close(s) ELSE {s} :
                          s \in Then(Write(p, "result"), Finish)}
<1>0. OnlySent(p, {}) /\ PushOnly(p)
  BY DEF OnlySent, PushOnly
<1>1. /\ Shape(p) /\ Failing(p) /\ Quiet(p) /\ p.gen = "none" /\ Coded(p)
      /\ ~p.finished /\ p.producer = "none" /\ ~p.notify /\ p.sent = <<>>
      /\ p.reply = "none" /\ p.push \in {"none", "stuck"} /\ p.closed = 0
      /\ p.code \in {"200", "own"} /\ AuxZero(p) /\ ~Interim(p) /\ ~Busy(p)
  BY <1>0, ReadyFails DEF Ready, Settled
<1>2. \/ c \in page
      \/ p.gone /\ c = [Blame(p, "producer") EXCEPT !.exc = "Exception"]
      \/ ~p.gone /\ c = [p EXCEPT !.producer = "file", !.notify = TRUE]
  BY DEF RenderFile, Then, Raises
<1>3. CASE c \in page
  <2>1. PICK s \in Then(Write(p, "result"), Finish) :
            c \in IF s.exc = "none" THEN Close(s) ELSE {s}
    <3> QED
      BY <1>3
  <2> HIDE DEF page
  <2>2. CanWrite(p, "result")
    BY <1>1 DEF CanWrite, Ready
  <2>3. /\ Change(p, s, {"sent", "head", "closed", "finished", "producer"}) /\ Settled(s)
        /\ s.exc \in {"none", "Exception"}
        /\ s.exc = "none" => s.finished
        /\ s.closed = p.closed
        /\ s.producer = "none"
    BY <1>1, <2>1, <2>2, WriteFinish
  <2>4. /\ Fields \subseteq DOMAIN s /\ p.raised \subseteq s.raised /\ Shape(s) /\ Quiet(s)
        /\ s.aux = p.aux /\ s.push = p.push /\ s.notify = p.notify /\ s.gone = p.gone
    <3>1. Quiet(s) /\ Shape(s)
      BY <2>3 DEF Settled, Quiet, Sound
    <3>2. Fields \cup HttpFields \subseteq DOMAIN p
      BY <1>1 DEF Shape
    <3> QED
      BY <2>3, <3>1, <3>2, ChangeRule
  <2>5. AuxOpen(s) /\ Unclosed(s)
    BY <1>1, <2>3, <2>4 DEF AuxOpen, Unclosed, Busy, Interim, AuxZero
  <2>6. CASE s.exc # "none"
    <3>1. c = s
      BY <2>1, <2>6
    <3>2. p.gone
      <4>1. PICK w \in Write(p, "result") : s \in IF w.exc = "none" THEN Finish(w) ELSE {w}
        BY <2>1 DEF Then
      <4>2. /\ w.exc = "none" /\ Change(p, w, {"sent", "head"}) /\ Quiet(w)
        BY <1>1, <2>2, <4>1, WriteStep, WriteQuiet DEF Quiet
      <4>3. w.gone = p.gone /\ Running(w)
        BY <1>1, <4>2, ChangeRule DEF Shape, Running
      <4> QED
        BY <2>6, <4>1, <4>2, <4>3, FinishStep
    <3> QED
      BY <1>1, <2>3, <2>4, <2>5, <2>6, <3>1, <3>2
      DEF Begun, Exceptions, Failing, PushOnly, Silent, Interim
  <2>7. CASE s.exc = "none"
    <3>1. c \in Close(s) /\ Running(s)
      BY <2>1, <2>4, <2>7 DEF Running
    <3>2. /\ Change(s, c, {"closed"}) /\ Settled(c)
          /\ c.exc \in Exceptions \cup {"none"}
          /\ c.exc # "none" => c.closed = s.closed
      BY <2>3, <2>4, <2>5, <3>1, CloseStep
    <3>3. /\ c.finished = s.finished /\ c.notify = s.notify /\ c.producer = s.producer
          /\ c.push = s.push /\ c.aux = s.aux
      BY <2>4, <3>2, ChangeRule DEF Shape
    <3>4. Change(s, c, {"closed", "finished", "producer", "notify", "aux"})
      BY <3>2, ChangeMore
    <3>5. AuxOpen(c) /\ (Excused(s) => Excused(c))
      BY <2>3, <2>4, <2>5, <2>7, <3>3, <3>4, EndKeeps
    <3>6. PushOnly(c)
      BY <2>3, <2>7, <3>3 DEF PushOnly, Silent
    <3>7. c.exc # "none" => Failing(c)
      BY <1>1, <2>3, <2>4, <3>2, <3>3, <3>5, <3>6 DEF Failing, Interim
    <3> QED
      BY <2>3, <2>7, <3>2, <3>3, <3>5, <3>6, <3>7 DEF Begun, Started, Redirectable, Late
  <2> QED
    BY <2>6, <2>7
<1>4. CASE p.gone /\ c = [Blame(p, "producer") EXCEPT !.exc = "Exception"]
  <2>1. Change(p, c, {}) /\ c.exc = "Exception"
    BY <1>1, <1>4 DEF Shape, Blame, Change, Kept, Fields, HttpFields, Free
  <2> QED
    BY <1>1, <2>1, SameRule DEF Begun, Exceptions, Failing
<1>5. CASE ~p.gone /\ c = [p EXCEPT !.producer = "file", !.notify = TRUE]
  <2>1. /\ Change(p, c, {"producer", "notify"}) /\ c.exc = "none" /\ c.producer = "file"
        /\ c.raised = p.raised
    BY <1>1, <1>5 DEF Shape, Running, Change, Kept, Fields, HttpFields, Free
  <2>2. /\ Fields \cup HttpFields \subseteq DOMAIN c
        /\ c.aux = p.aux /\ c.others = p.others /\ c.closed = p.closed
        /\ c.deferred = p.deferred
        /\ c.push = p.push /\ c.gen = p.gen /\ c.stack = p.stack
        /\ c.reply = p.reply /\ c.code = p.code /\ c.head = p.head /\ c.sent = p.sent
        /\ c.finished = p.finished /\ c.gone = p.gone
        /\ c.out = p.out /\ c.resp = p.resp
    BY <1>1, <2>1, ChangeRule DEF Shape
  <2>3. /\ Excused(c) <=> Excused(p)
        /\ Escaped(c) <=> Escaped(p)
        /\ Uncoded(c) <=> Uncoded(p)
        /\ Coded(c) <=> Coded(p)
        /\ AuxZero(c) <=> AuxZero(p)
        /\ ~Interim(c)
        /\ \A kinds : OnlySent(c, kinds)
    BY <1>1, <2>1, <2>2
    DEF Excused, Escaped, Uncoded, Coded, Interim, AuxZero, OnlySent
  <2>4. Sound(c)
    BY <1>1, <2>1, <2>2, <2>3 DEF Quiet, Sound, Shape
  <2>5. Settled(c)
    BY <1>1, <2>1, <2>2, <2>3, <2>4 DEF Settled, Quiet, Working, Orderly
  <2> QED
    BY <1>1, <2>1, <2>2, <2>3, <2>5 DEF Begun, Started, PushOnly, AuxOpen
<1> QED
  BY <1>2, <1>3, <1>4, <1>5

\* The response is begun and the auxiliary methods run, or _eb_deferred may be
\* called.
LEMMA CbDeferredRule ==
    ASSUME NEW p, Running(p), NEW ret,
           \/ Fresh(p) /\ (ret = "push" => ~p.stack /\ p.deferred = "fired")
           \/ Ready(p) /\ Torn(p) /\ p.string = "result" /\ ret = "none",
           NEW c \in CbDeferred(p, ret)
    PROVE  /\ Settled(c)
           /\ c.exc \in Exceptions \cup {"none"}
           /\ c.exc # "none" => Failing(c)
           /\ c.exc = "Redirect" => Redirectable(c)
<1> DEFINE coded == [p EXCEPT !.code = CodeOr(p, "200")]
           produced == Then(GetOut(coded), LAMBDA d : IF d.push = "interim" THEN {d}
                                                      ELSE RegisterProducer(d))
           started == CASE ret = "push" -> InitRootPush(coded)
                        [] ret = "file" /\ p.out = "string" -> RenderFile(coded)
                        [] OTHER -> produced
<1>1. PICK s \in started : c \in IF s.exc = "none" THEN ProcessContexts(s, FALSE) ELSE {s}
  BY DEF CbDeferred, Then
<1>2. Shape(p) /\ Fields \cup HttpFields \subseteq DOMAIN p
  BY DEF Fresh, Waiting, Blank, Ready, Settled, Quiet, Sound, Shape
<1>3. /\ Kept(p, coded, {"code"}) /\ Running(coded)
      /\ coded.code = CodeOr(p, "200")
  BY <1>2 DEF Running, Kept, Fields, HttpFields
<1> HIDE DEF coded
<1>4. Change(p, coded, {"code"})
  BY <1>3, KeptChange
<1>5. /\ coded.stack = p.stack /\ coded.deferred = p.deferred /\ coded.resp = p.resp
      /\ coded.string = p.string
  BY <1>2, <1>3 DEF Kept, Fields, HttpFields
<1>6. Coded(coded) /\ coded.code \in {"200", "own"}
  BY <1>3, <1>5 DEF Coded, CodeOr
<1>7. Fresh(p) => Fresh(coded) /\ Ready(coded) /\ coded.sent = <<>>
  <2>1. Kept(p, coded, {"exc", "events", "raised", "stack", "code"})
    BY <1>3 DEF Kept
  <2> QED
    BY <1>2, <1>6, <2>1, FreshRule, ReadyStart
<1>8. Ready(coded)
  <2>1. CASE ~Fresh(p)
    <3>1. Failing(p)
      BY <2>1, ReadyFails DEF PushOnly
    <3>2. Settled(coded)
      BY <1>4, <1>6, <3>1, CodeStep DEF Failing
    <3>3. /\ p.raised \subseteq coded.raised
          /\ coded.producer = p.producer /\ coded.push = p.push /\ coded.gen = p.gen
          /\ coded.reply = p.reply /\ coded.closed = p.closed /\ coded.aux = p.aux
          /\ coded.notify = p.notify /\ coded.finished = p.finished
          /\ coded.gone = p.gone /\ coded.out = p.out /\ coded.sent = p.sent
      <4> HIDE DEF produced, started
      <4> QED
        BY ONLY <1>2, <1>4, ChangeRule
    <3> QED
      BY <1>6, <2>1, <3>2, <3>3 DEF Ready, AuxZero, OnlySent
  <2> QED
    BY <1>7, <2>1
<1>9. Begun(s)
  <2>1. CASE ret = "push"
    <3>1. s \in InitRootPush(coded)
      BY <1>1, <2>1
    <3>2. /\ Settled(s) /\ s.deferred = coded.deferred
          /\ s.exc \in Exceptions \cup {"none"}
          /\ s.exc = "none" => PushOnly(s) /\ s.gen # "none"
          /\ s.exc # "none" => Failing(s)
          /\ s.exc = "Redirect" => Fresh(s)
      BY <1>3, <1>5, <1>7, <2>1, <3>1, InitRootPushRule
    <3> QED
      BY <1>5, <2>1, <3>2 DEF Begun, Started, AuxOpen, Escaped, Redirectable
  <2>2. CASE ret = "file" /\ p.out = "string"
    <3>1. s \in RenderFile(coded)
      BY <1>1, <2>2
    <3> QED
      BY <1>3, <1>7, <2>2, <3>1, RenderFileRule
  <2>3. CASE ret # "push" /\ ~(ret = "file" /\ p.out = "string")
    <3>1. s \in produced
      BY <1>1, <2>3
    <3> HIDE DEF started
    <3>2. /\ coded.string \in {"none", "result", "empty"}
          /\ coded.string = "none" =>
                 coded.error = "none" /\ coded.document \in {"none", "result"}
      BY <1>5, <1>7 DEF Fresh, Waiting
    <3> QED
      BY <1>3, <1>8, <3>1, <3>2, ProducerRule
  <2> QED
    BY <2>1, <2>2, <2>3
<1> HIDE DEF started
<1>10. CASE s.exc # "none"
  BY <1>1, <1>9, <1>10 DEF Begun
<1>11. CASE s.exc = "none"
  <2>1. /\ c \in ProcessContexts(s, FALSE) /\ Running(s) /\ Shape(s)
        /\ Fields \cup HttpFields \subseteq DOMAIN s
    BY <1>1, <1>9, <1>11 DEF Begun, Running, Settled, Quiet, Sound, Shape
  <2>2. /\ Change(s, c, {"aux"}) /\ Settled(c)
        /\ c.exc \in {"none", "Exception"}
        /\ c.exc # "none" => "aux" \in c.raised
    BY <1>9, <1>11, <2>1, ContextsStep DEF Begun, Started
  <2>3. /\ c.sent = s.sent /\ c.finished = s.finished /\ c.gone = s.gone /\ c.out = s.out
        /\ s.raised \subseteq c.raised
    BY <2>1, <2>2, ChangeRule
  <2>4. c.exc # "none" => PushOnly(c)
    BY <1>9, <1>11, <2>2, <2>3 DEF Begun, Started, PushOnly, OnlySent, Silent, Torn
  <2> QED
    BY <2>2, <2>4 DEF Failing, Excused, Escaped, AuxOpen, Exceptions
<1> QED
  BY <1>10, <1>11

LEMMA RedirectableRule ==
    ASSUME NEW p, Redirectable(p)
    PROVE  Failing(p) /\ Settled(p) /\ Shape(p)
<1>1. Failing(p)
  BY BlankRule, ReadyFails DEF Redirectable, Fresh, Waiting, Late, PushOnly
<1> QED
  BY <1>1 DEF Failing, Settled, Quiet, Sound

\* What the invariant does not speak about, and the user's code of a redirect,
\* leave the response as ready for one as it was.
LEMMA RedirectKeeps ==
    ASSUME NEW p, Redirectable(p), NEW c,
           Kept(p, c, {"exc", "events", "raised", "resp", "string"}),
           c.string \in {p.string, "result"},
           c.resp = p.resp \/ (c.resp = "own" /\ "redirect" \in c.raised)
    PROVE  Redirectable(c)
<1>1. Shape(p) /\ Failing(p) /\ Settled(p) /\ Fields \cup HttpFields \subseteq DOMAIN p
  BY RedirectableRule DEF Shape
<1>2. Fresh(p) => Fresh(c)
  <2>1. Kept(p, c, {"exc", "events", "raised", "stack", "code", "resp", "string"})
    BY DEF Kept
  <2> QED
    BY <1>1, <2>1, FreshSet
<1>3. Change(p, c, {"resp"})
  BY KeptChange DEF Free
<1>4. /\ Fields \cup HttpFields \subseteq DOMAIN c
      /\ p.raised \subseteq c.raised
      /\ c.aux = p.aux /\ c.others = p.others /\ c.closed = p.closed
      /\ c.deferred = p.deferred /\ c.producer = p.producer /\ c.body = p.body
      /\ c.push = p.push /\ c.gen = p.gen /\ c.stack = p.stack /\ c.notify = p.notify
      /\ c.reply = p.reply /\ c.code = p.code /\ c.head = p.head /\ c.sent = p.sent
      /\ c.finished = p.finished /\ c.gone = p.gone /\ c.out = p.out
  BY <1>1, <1>3, ChangeRule
<1>5. /\ Excused(p) => Excused(c)
      /\ "aux" \in p.raised => "aux" \in c.raised
      /\ Torn(p) => Torn(c)
      /\ Interim(c) <=> Interim(p)
      /\ Busy(c) <=> Busy(p)
      /\ c.resp = p.resp \/ Uncoded(c)
      /\ Uncoded(p) => Uncoded(c)
  BY <1>4 DEF Excused, Torn, Interim, Busy, Uncoded
<1>6. /\ Silent(c) <=> Silent(p)
      /\ AuxZero(c) <=> AuxZero(p)
      /\ Escaped(p) => Escaped(c)
      /\ Coded(p) => Coded(c)
      /\ \A kinds : OnlySent(c, kinds) <=> OnlySent(p, kinds)
  BY <1>4, <1>5 DEF Silent, AuxZero, Escaped, Coded, OnlySent
<1>7. Sound(c)
  BY <1>1, <1>4, <1>5, <1>6 DEF Settled, Quiet, Sound, Shape
<1>8. Quiet(c)
  BY <1>1, <1>4, <1>5, <1>6, <1>7 DEF Settled, Quiet
<1>9. Working(p) => Working(c)
  BY <1>4, <1>5, <1>6 DEF Working, Orderly
<1>10. Settled(c)
  BY <1>1, <1>6, <1>8, <1>9 DEF Settled
<1>11. PushOnly(p) => PushOnly(c)
  BY <1>5, <1>6 DEF PushOnly
<1>12. Failing(c)
  BY <1>1, <1>4, <1>5, <1>6, <1>10, <1>11 DEF Failing, AuxOpen
<1>13. Late(p) => Late(c)
  BY <1>4, <1>5, <1>12 DEF Late
<1>14. Ready(p) => Ready(c)
  BY <1>4, <1>6, <1>10 DEF Ready
<1> QED
  BY <1>2, <1>5, <1>13, <1>14 DEF Redirectable

\* The redirected response, whose callback may have been called already.
LEMMA RedirectedRule ==
    ASSUME NEW p, Running(p), Redirectable(p), p.string = "result",
           NEW c \in CbDeferred(p, "none")
    PROVE  Settled(c) /\ c.exc \in Exceptions \cup {"none"}
<1>1. CASE ~Late(p)
  BY <1>1, CbDeferredRule DEF Redirectable
<1>2. CASE Late(p)
  <2> DEFINE coded == [p EXCEPT !.code = CodeOr(p, "200")]
             produced == Then(GetOut(coded), LAMBDA d : IF d.push = "interim" THEN {d}
                                                        ELSE RegisterProducer(d))
  <2>0. PICK s \in produced :
            c \in IF s.exc = "none" THEN ProcessContexts(s, FALSE) ELSE {s}
    <3> DEFINE started == CASE "none" = "push" -> InitRootPush(coded)
                            [] "none" = "file" /\ p.out = "string" -> RenderFile(coded)
                            [] OTHER -> produced
    <3>1. PICK s \in started :
              c \in IF s.exc = "none" THEN ProcessContexts(s, FALSE) ELSE {s}
      BY DEF CbDeferred, Then
    <3>2. started = produced
      <4> HIDE DEF coded, produced
      <4> QED
        OBVIOUS
    <3> QED
      BY <3>1, <3>2
  <2> HIDE DEF produced
  <2>1. Shape(p) /\ Failing(p) /\ Fields \cup HttpFields \subseteq DOMAIN p
    BY RedirectableRule DEF Shape
  <2>2. Change(p, coded, {"code"}) /\ Running(coded) /\ coded.code = CodeOr(p, "200")
        /\ coded.string = p.string
    BY <2>1 DEF Running, Change, Kept, Fields, HttpFields, Free
  <2>3. GetOut(coded) = {coded}
    BY <2>2 DEF GetOut
  <2> HIDE DEF coded
  <2>4. /\ coded.finished = p.finished /\ coded.gone = p.gone /\ coded.resp = p.resp
        /\ coded.push = p.push /\ p.raised \subseteq coded.raised
    BY <2>1, <2>2, ChangeRule
  <2>5. Coded(coded)
    BY <2>2, <2>4 DEF Coded, CodeOr
  <2>6. Late(coded)
    BY <1>2, <2>1, <2>2, <2>4, <2>5, CodeStep DEF Late, Excused
  <2>7. s \in IF coded.push = "interim" THEN {coded} ELSE RegisterProducer(coded)
    <3>1. PICK d \in GetOut(coded) :
              IF d.exc # "none" \/ d.push = "interim" THEN s = d
              ELSE s \in RegisterProducer(d)
      BY <2>0 DEF Then, produced
    <3>2. d = coded
      BY <2>3
    <3> QED
      BY <2>2, <3>1, <3>2 DEF Running
  <2>8. /\ Settled(s)
        /\ s.exc \in Exceptions \cup {"none"}
        /\ s.exc = "none" => Started(s)
    <3>1. CASE coded.push = "interim"
      BY <2>2, <2>6, <2>7, <3>1 DEF Late, Failing, Started, Running
    <3>2. CASE coded.push # "interim"
      <4>1. s \in RegisterProducer(coded)
        BY <2>7, <3>2
      <4>2. coded.finished \/ coded.gone
        BY <2>6 DEF Late
      <4>3. s \in EbFault(Blame(coded, "producer"), "Exception")
        BY <4>1, <4>2 DEF RegisterProducer
      <4> QED
        BY <2>2, <2>6, <4>3, LateFault
    <3> QED
      BY <3>1, <3>2
  <2>9. CASE s.exc # "none"
    BY <2>0, <2>8, <2>9
  <2>10. CASE s.exc = "none"
    <3>1. c \in ProcessContexts(s, FALSE) /\ Running(s) /\ AuxOpen(s)
      BY <2>0, <2>8, <2>10 DEF Running, Settled, Quiet, Sound, Shape, Started
    <3> QED
      BY <2>8, <3>1, ContextsStep DEF Exceptions
  <2> QED
    BY <2>9, <2>10
<1> QED
  BY <1>1, <1>2

\* The statement behind the branches finishes the request.
LEMMA EbRedirectRule ==
    ASSUME NEW p, Running(p), Redirectable(p), "redirect" \in p.raised,
           NEW c \in EbRedirect(p)
    PROVE  Settled(c) /\ c.exc \in Exceptions \cup {"none"}
<1> DEFINE set == SetAnswer(p, "own", "result")
           first == Returns(set) \cup Raises(p, "Exception")
           out == UNION {IF s.exc = "none" THEN CbDeferred(s, "none") ELSE {s} : s \in first}
           fired == UNION {IF s.exc = "none" THEN FireEvent(s, "method_redirect") ELSE {s} :
                           s \in out}
           cleared(s) == [s EXCEPT !.exc = "none"]
           caught == UNION {IF s.exc \in Exceptions
                            THEN ErrorObject(cleared(s), "Server", "method_redirect_exception")
                            ELSE {s} : s \in fired}
<1>1. EbRedirect(p) = UNION {IF s.exc = "none" THEN Finish(s) ELSE {s} : s \in caught}
  BY DEF EbRedirect, Then, Except
<1>2. PICK u \in caught : c \in IF u.exc = "none" THEN Finish(u) ELSE {u}
  <2> HIDE DEF caught
  <2> QED
    BY <1>1
<1>3. PICK t \in fired :
          u \in IF t.exc \in Exceptions
                THEN ErrorObject(cleared(t), "Server", "method_redirect_exception")
                ELSE {t}
  <2> HIDE DEF fired, cleared
  <2> QED
    OBVIOUS
<1>4. PICK s \in out : t \in IF s.exc = "none" THEN FireEvent(s, "method_redirect") ELSE {s}
  <2> HIDE DEF out
  <2> QED
    OBVIOUS
<1>5. PICK r \in first : s \in IF r.exc = "none" THEN CbDeferred(r, "none") ELSE {r}
  <2> HIDE DEF first
  <2> QED
    OBVIOUS
<1> HIDE DEF caught, fired, out
<1>6. Settled(p) /\ Shape(p)
  BY RedirectableRule
<1>7. r = set \/ r = [p EXCEPT !.exc = "Exception"]
  BY DEF Returns, Raises
<1>8. Settled(s) /\ s.exc \in Exceptions \cup {"none"}
  <2>1. CASE r = set
    <3>1. /\ Kept(p, set, {"exc", "events", "raised", "resp", "string"})
          /\ set.string = "result" /\ set.resp = "own" /\ "redirect" \in set.raised
          /\ Running(set)
      BY <1>6 DEF SetAnswer, Shape, Kept, Running, Fields, HttpFields
    <3> HIDE DEF set
    <3>2. Redirectable(set)
      BY <3>1, RedirectKeeps
    <3> QED
      BY <1>5, <2>1, <3>1, <3>2, RedirectedRule DEF Running
  <2>2. CASE r = [p EXCEPT !.exc = "Exception"]
    <3>1. Change(p, r, {}) /\ r.exc = "Exception"
      BY <1>6, <2>2, ExcChange DEF Shape
    <3> QED
      BY <1>5, <1>6, <3>1, SameRule DEF Exceptions
  <2> QED
    BY <1>7, <2>1, <2>2
<1>9. Settled(t) /\ t.exc \in Exceptions \cup {"none"}
  <2>1. Shape(s)
    BY <1>8 DEF Settled, Quiet, Sound
  <2>2. CASE s.exc = "none"
    <3>1. Kept(s, t, {"exc", "events", "raised"}) /\ t.exc \in Exceptions \cup {"none"}
      BY <1>4, <2>1, <2>2, FireRule DEF Running, Shape
    <3> QED
      BY <1>8, <2>1, <3>1, KeptChange, SameRule DEF Free
  <2>3. CASE s.exc # "none"
    BY <1>4, <1>8, <2>3
  <2> QED
    BY <2>2, <2>3
<1>10. Settled(u) /\ u.exc \in Exceptions \cup {"none"} /\ Shape(u)
  <2>1. Shape(t)
    BY <1>9 DEF Settled, Quiet, Sound
  <2>2. CASE t.exc \in Exceptions
    <3> DEFINE d == cleared(t)
    <3>1. Change(t, d, {}) /\ Running(d)
      BY <2>1, ExcChange DEF Shape, Running
    <3> HIDE DEF cleared
    <3>2. u \in ErrorObject(d, "Server", "method_redirect_exception")
      BY <1>3, <2>2
    <3> HIDE DEF d
    <3>3. Kept(d, u, {"exc", "events", "raised", "error"})
          /\ u.exc \in Exceptions \cup {"none"}
      BY <3>1, <3>2, ErrorRule
    <3>4. Change(d, u, {})
      BY <3>3, KeptChange DEF Free
    <3>5. Change(t, u, {})
      BY <3>1, <3>4, ChangeTrans
    <3> QED
      BY <1>9, <2>1, <3>3, <3>5, SameRule
  <2>3. CASE t.exc \notin Exceptions
    BY <1>3, <1>9, <2>1, <2>3
  <2> QED
    BY <2>2, <2>3
<1>11. CASE u.exc # "none"
  BY <1>2, <1>10, <1>11
<1>12. CASE u.exc = "none"
  <2>1. c \in Finish(u) /\ Running(u) /\ Quiet(u)
    BY <1>2, <1>10, <1>12 DEF Running, Shape, Settled
  <2> QED
    BY <2>1, FinishStep DEF Exceptions
<1> QED
  BY <1>11, <1>12

LEMMA EbDeferredRule ==
    ASSUME NEW p, Running(p), Failing(p), NEW exc, exc = "Redirect" => Redirectable(p),
           NEW c \in EbDeferred(p, exc)
    PROVE  Settled(c) /\ c.exc \in Exceptions \cup {"none"}
<1>1. CASE exc = "Redirect"
  <2> DEFINE b == Blame(p, "redirect")
  <2>1. Shape(p)
    BY DEF Failing, Settled, Quiet, Sound
  <2>2. /\ Kept(p, b, {"raised"}) /\ Running(b) /\ "redirect" \in b.raised
        /\ b.string = p.string /\ b.resp = p.resp
    BY <2>1 DEF Blame, Kept, Shape, Running, Fields, HttpFields
  <2>3. c \in EbRedirect(b)
    BY <1>1 DEF EbDeferred
  <2> HIDE DEF b
  <2>4. Kept(p, b, {"exc", "events", "raised", "resp", "string"})
    BY <2>2 DEF Kept
  <2>5. Redirectable(b)
    BY <1>1, <2>2, <2>4, RedirectKeeps
  <2> QED
    BY <2>2, <2>3, <2>5, EbRedirectRule
<1>2. CASE exc # "Redirect"
  <2>1. c \in EbFault(p, exc)
    BY <1>2 DEF EbDeferred
  <2> QED
    BY <2>1, EbFaultRule
<1> QED
  BY <1>1, <1>2

\* What a callback may leave behind for the errback.
Caught(s) ==
    /\ Settled(s)
    /\ s.exc # "none" => Failing(s)
    /\ s.exc = "Redirect" => Redirectable(s)

LEMMA CatchRule ==
    ASSUME NEW outcomes, \A s \in outcomes : Caught(s), NEW c \in CatchWith(outcomes)
    PROVE  Settled(c)
<1> DEFINE cleared(s) == [s EXCEPT !.exc = "none"]
<1>1. PICK s \in outcomes :
          c \in IF s.exc = "none" THEN {s} ELSE EbDeferred(cleared(s), s.exc)
  BY DEF CatchWith
<1>2. Caught(s) /\ Shape(s)
  BY DEF Caught, Settled, Quiet, Sound
<1>3. CASE s.exc = "none"
  BY <1>1, <1>2, <1>3 DEF Caught
<1>4. CASE s.exc # "none"
  <2> DEFINE d == cleared(s)
  <2>1. Change(s, d, {}) /\ Kept(s, d, {"exc"}) /\ Running(d)
    BY <1>2, ExcChange DEF Shape, Running
  <2> HIDE DEF cleared
  <2>2. c \in EbDeferred(d, s.exc)
    BY <1>1, <1>4
  <2> HIDE DEF d
  <2>3. Failing(d)
    BY <1>2, <1>4, <2>1, SameRule DEF Caught
  <2>4. /\ Kept(s, d, {"exc", "events", "raised", "resp", "string"})
        /\ d.string = s.string /\ d.resp = s.resp
    BY <1>2, <2>1 DEF Kept, Shape, Fields, HttpFields
  <2>5. s.exc = "Redirect" => Redirectable(d)
    BY <1>2, <2>4, RedirectKeeps DEF Caught
  <2> QED
    BY <2>1, <2>2, <2>3, <2>5, EbDeferredRule
<1> QED
  BY <1>3, <1>4

-----------------------------------------------------------------------------
(* Requests.                                                               *)

\* What may be written is finished, or nobody is there to read it.
LEMMA SilentRule ==
    ASSUME NEW p, Quiet(p), Silent(p), Running(p), NEW what,
           NEW c \in Then(Write(p, what), Finish)
    PROVE  Settled(c)
<1>1. PICK w \in Write(p, what) : c \in IF w.exc = "none" THEN Finish(w) ELSE {w}
  BY DEF Then
<1>2. Shape(p)
  BY DEF Quiet, Sound
<1>3. CASE p.finished
  <2>1. w = [p EXCEPT !.exc = "Exception"]
    BY <1>1, <1>3 DEF Write, Raises
  <2>2. Change(p, w, {}) /\ w.exc = "Exception"
    BY <1>2, <2>1, ExcChange DEF Shape
  <2>3. c = w
    BY <1>1, <2>2
  <2> QED
    BY <1>2, <2>2, <2>3, SameRule DEF Settled
<1>4. CASE ~p.finished
  <2>1. w = p
    BY <1>1, <1>4 DEF Write, Silent
  <2> QED
    BY <1>1, <2>1, FinishStep DEF Running
<1> QED
  BY <1>3, <1>4

LEMMA LoggedRule ==
    ASSUME NEW p, NEW c, c = [p EXCEPT !.exc = "none"]
    PROVE  /\ Settled(p) => Settled(c) /\ c.exc = "none"
           /\ Pending(p) => Pending(c) /\ c.exc = "none"
<1>1. CASE Shape(p)
  <2>1. Change(p, c, {}) /\ Kept(p, c, {"exc"}) /\ c.exc = "none"
    BY <1>1, ExcChange DEF Shape
  <2>2. Kept(p, c, {"exc", "events", "raised", "stack", "code"})
    BY <2>1 DEF Kept
  <2>3. c.deferred = p.deferred /\ c.stack = p.stack
    BY <1>1, <2>1, ChangeRule DEF Shape
  <2> QED
    BY <1>1, <2>1, <2>2, <2>3, SameRule, FreshRule DEF Pending
<1> QED
  BY <1>1 DEF Settled, Quiet, Sound, Pending, Waiting, Blank

\* The result of user code is passed on, or the request waits for it.
LEMMA DispatchRule ==
    ASSUME NEW p, Running(p), Fresh(p), ~p.stack, NEW c \in Dispatch(p)
    PROVE  /\ c.exc # "none" => Failing(c)
           /\ c.exc = "none" => Settled(c) \/ Pending(c)
<1>1. Shape(p) /\ Failing(p)
  BY BlankRule DEF Fresh, Waiting, Blank
<1>2. \/ c = [p EXCEPT !.exc = "Exception"]
      \/ c = [p EXCEPT !.deferred = "pending"]
      \/ c \in InitRootPush(p)
      \/ c \in Logged(CatchWith(CbDeferred(p, "value")))
  BY DEF Dispatch, Raises
<1>3. CASE c = [p EXCEPT !.exc = "Exception"]
  <2>1. Change(p, c, {}) /\ c.exc = "Exception"
    BY <1>1, <1>3, ExcChange DEF Shape
  <2> QED
    BY <1>1, <2>1, SameRule
<1>4. CASE c = [p EXCEPT !.deferred = "pending"]
  <2>1. /\ Kept(p, c, {"deferred"}) /\ c.exc = "none" /\ c.deferred = "pending"
        /\ c.error = p.error /\ c.document = p.document /\ c.string = p.string
    BY <1>1, <1>4 DEF Shape, Running, Kept, Fields, HttpFields
  <2>2. Change(p, c, {"deferred"})
    BY <2>1, KeptChange
  <2>3. /\ Fields \cup HttpFields \subseteq DOMAIN c
        /\ p.raised \subseteq c.raised
        /\ c.aux = p.aux /\ c.others = p.others /\ c.closed = p.closed
        /\ c.producer = p.producer
        /\ c.push = p.push /\ c.gen = p.gen /\ c.stack = p.stack /\ c.notify = p.notify
        /\ c.reply = p.reply /\ c.head = p.head /\ c.sent = p.sent
        /\ c.finished = p.finished /\ c.out = p.out
    BY <1>1, <2>2, ChangeRule DEF Shape
  <2>4. Blank(c)
    BY <2>3 DEF Fresh, Waiting, Blank, Shape, AuxZero
  <2> QED
    BY <2>1, <2>3, <2>4 DEF Fresh, Waiting, Pending
<1>5. CASE c \in InitRootPush(p)
  BY <1>5, InitRootPushRule
<1>6. CASE c \in Logged(CatchWith(CbDeferred(p, "value")))
  <2>1. PICK d \in CatchWith(CbDeferred(p, "value")) : c = [d EXCEPT !.exc = "none"]
    BY <1>6 DEF Logged
  <2>2. \A s \in CbDeferred(p, "value") : Caught(s)
    BY CbDeferredRule DEF Caught
  <2>3. Settled(d)
    BY <2>1, <2>2, CatchRule
  <2> QED
    BY <2>1, <2>3, LoggedRule
<1> QED
  BY <1>2, <1>3, <1>4, <1>5, <1>6

\* User code sets the response code and the string.
LEMMA UserSetsRule ==
    ASSUME NEW p, Shape(p), NEW c \in UserSets(p)
    PROVE  /\ Kept(p, c, {"resp", "string"})
           /\ c.string \in {p.string, "result"}
           /\ c.exc = p.exc
           /\ Blank(p) => Blank(c)
           /\ Waiting(p) => Waiting(c)
           /\ Fresh(p) => Fresh(c)
<1>1. Fields \cup HttpFields \subseteq DOMAIN p
  BY DEF Shape
<1>2. PICK code \in {p.resp, "own"}, string \in {p.string, "result"} :
          c = SetAnswer(p, code, string)
  BY DEF UserSets
<1>3. /\ Kept(p, c, {"resp", "string"})
      /\ c.string \in {p.string, "result"}
      /\ c.exc = p.exc
  BY <1>1, <1>2 DEF SetAnswer, Kept, Fields, HttpFields
<1>4. Kept(p, c, {"exc", "events", "raised", "stack", "code", "resp", "string"})
  BY <1>3 DEF Kept
<1> QED
  BY <1>3, <1>4, FreshSet

\* What render was told to return, or what it raised.
Replying(c) ==
    /\ Quiet(c)
    /\ ~Busy(c) \/ "aux" \in c.raised
    /\ c.exc # "none" => PushOnly(c) \/ c.out = "stream"
    /\ c.exc = "none" => c.reply \in {"fault", "empty"} /\ CanWrite(c, c.reply)

LEMMA FailingReplies ==
    ASSUME NEW c, Failing(c), c.exc # "none"
    PROVE  Replying(c)
  BY DEF Failing, Settled, Replying, Busy, Interim

LEMMA HandleRpcRule ==
    ASSUME NEW p, Newborn(p), NEW c \in HandleRpc(p)
    PROVE  Replying(c) \/ (c.exc = "none" /\ (Settled(c) \/ Pending(c)))
<1> DEFINE object(s) == IF s.error = "none"
                        THEN UNION {UserSets(d) : d \in GetOutObject(s)} ELSE {s}
           called == UNION {IF s.exc = "none" THEN object(s) ELSE {s} : s \in Receive(p)}
           told(s) == UNION {IF d.exc = "none" THEN {[d EXCEPT !.reply = d.string]} ELSE {d} :
                             d \in HandleRpcError(s)}
           answer(s) == IF s.error = "none" THEN Dispatch(s) ELSE told(s)
<1>1. HandleRpc(p) = UNION {IF s.exc = "none" THEN answer(s) ELSE {s} : s \in called}
  BY DEF HandleRpc, Then
<1>2. PICK s \in called : c \in IF s.exc = "none" THEN answer(s) ELSE {s}
  <2> HIDE DEF called, answer
  <2> QED
    BY <1>1
<1>3. PICK r \in Receive(p) : s \in IF r.exc = "none" THEN object(r) ELSE {r}
  <2> HIDE DEF object
  <2> QED
    OBVIOUS
<1> HIDE DEF called
<1>4. /\ Fresh(p) /\ Waiting(p) /\ Blank(p) /\ Shape(p) /\ Running(p) /\ p.others = <<>>
      /\ p.error = "none" /\ p.object \in Objects /\ ~p.stack /\ p.deferred = "none"
           /\ ~p.gone
  BY DEF Newborn, Fresh, Waiting, Blank, Shape, Running
<1>5. /\ Kept(p, r, {"exc", "events", "error", "raised", "others"})
      /\ r.exc \in Exceptions \cup {"none"}
      /\ r.error \in {"none", "Fault"}
      /\ r.others \in {<<>>, [i \in Aux |-> i]}
  BY <1>4, ReceiveRule
<1>6. /\ Blank(r) /\ Shape(r) /\ ~r.stack /\ r.deferred = "none" /\ ~r.gone
      /\ r.document = p.document /\ r.string = p.string /\ r.object = p.object
  <2>1. r.document = p.document /\ r.string = p.string /\ r.object = p.object
    BY <1>4, <1>5 DEF Kept, Shape, Fields
  <2>2. Change(p, r, {"others"})
    BY <1>5, KeptChange DEF Free
  <2>3. /\ Fields \cup HttpFields \subseteq DOMAIN r
        /\ r.aux = p.aux /\ r.closed = p.closed /\ r.deferred = p.deferred
        /\ r.producer = p.producer /\ r.gone = p.gone
        /\ r.push = p.push /\ r.gen = p.gen /\ r.stack = p.stack /\ r.notify = p.notify
        /\ r.reply = p.reply /\ r.head = p.head /\ r.sent = p.sent
        /\ r.finished = p.finished /\ r.out = p.out
    BY <1>4, <2>2, ChangeRule DEF Shape
  <2>4. Blank(r)
    BY <1>4, <1>5, <2>3 DEF Blank, Shape, AuxZero
  <2> QED
    BY <1>4, <2>1, <2>3, <2>4 DEF Blank
<1>7. /\ Blank(s) /\ Shape(s) /\ ~s.stack /\ s.deferred = "none" /\ ~s.gone
      /\ s.document = p.document /\ s.string \in {p.string, "result"}
      /\ s.exc \in Exceptions \cup {"none"}
  <2>1. CASE r.exc = "none" /\ r.error = "none"
    <3>1. Running(r)
      BY <1>6, <2>1 DEF Running, Shape
    <3>2. PICK d \in GetOutObject(r) : s \in UserSets(d)
      BY <1>3, <2>1
    <3>3. /\ Kept(r, d, {"exc", "events", "error", "object", "raised"})
          /\ d.exc \in Exceptions \cup {"none"}
      BY <1>4, <1>6, <2>1, <3>1, <3>2, GetOutObjectRule
    <3>4. Change(r, d, {})
      BY <3>3, KeptChange DEF Free
    <3>5. d.document = r.document /\ d.string = r.string
      BY <1>6, <3>3 DEF Kept, Shape, Fields
    <3>6. d.stack = r.stack /\ d.deferred = r.deferred /\ d.gone = r.gone
      BY <1>6, <3>4, ChangeRule DEF Shape
    <3>7. Blank(d) /\ Shape(d)
      BY <1>6, <3>4, SameRule
    <3>8. /\ Kept(d, s, {"resp", "string"})
          /\ s.string \in {d.string, "result"}
          /\ s.exc = d.exc /\ Blank(s)
      BY <3>2, <3>7, UserSetsRule
    <3>9. /\ s.stack = d.stack /\ s.deferred = d.deferred /\ s.gone = d.gone
          /\ s.document = d.document
      BY <3>7, <3>8 DEF Kept, Shape, Fields, HttpFields
    <3> QED
      BY <1>6, <3>3, <3>5, <3>6, <3>8, <3>9 DEF Blank
  <2>2. CASE ~(r.exc = "none" /\ r.error = "none")
    <3>1. s = r
      BY <1>3, <2>2
    <3> QED
      BY <1>5, <1>6, <3>1
  <2> QED
    BY <2>1, <2>2
<1>8. Failing(s) /\ Reached(s)
  BY <1>7, BlankRule DEF Reached
<1>9. CASE s.exc # "none"
  BY <1>2, <1>8, <1>9, FailingReplies
<1>10. CASE s.exc = "none" /\ s.error = "none"
  <2>1. c \in Dispatch(s) /\ Running(s)
    BY <1>2, <1>7, <1>10 DEF Running, Shape
  <2>2. Fresh(s)
    BY <1>4, <1>7, <1>8, <1>10 DEF Fresh, Waiting
  <2> QED
    <3>1. /\ c.exc # "none" => Failing(c)
          /\ c.exc = "none" => Settled(c) \/ Pending(c)
      BY <1>7, <2>1, <2>2, DispatchRule
    <3> HIDE DEF answer
    <3> QED
      BY <3>1, FailingReplies
<1>11. CASE s.exc = "none" /\ s.error # "none"
  <2>1. Running(s)
    BY <1>7, <1>11 DEF Running, Shape
  <2>2. PICK d \in HandleRpcError(s) :
            c \in IF d.exc = "none" THEN {[d EXCEPT !.reply = d.string]} ELSE {d}
    BY <1>2, <1>11
  <2>3. Erred(d, d) /\ Quiet(d) /\ Shape(d)
    <3>1. Erred(d, d)
      BY <1>8, <1>11, <2>1, <2>2, HandleErrorRule
    <3> QED
      BY <3>1 DEF Erred, Settled, Quiet, Sound
  <2>4. CASE d.exc # "none"
    BY <2>2, <2>3, <2>4 DEF Erred, Replying
  <2>5. CASE d.exc = "none"
    <3>1. c = [d EXCEPT !.reply = d.string]
      BY <2>2, <2>5
    <3>2. Change(d, c, {"reply"}) /\ c.exc = "none" /\ c.reply = d.string
          /\ c.raised = d.raised
      BY <2>3, <2>5, <3>1 DEF Shape, Change, Kept, Fields, HttpFields, Free
    <3>3. /\ Fields \cup HttpFields \subseteq DOMAIN c
          /\ c.aux = d.aux /\ c.others = d.others /\ c.closed = d.closed
          /\ c.deferred = d.deferred /\ c.producer = d.producer /\ c.body = d.body
          /\ c.push = d.push /\ c.gen = d.gen /\ c.stack = d.stack /\ c.notify = d.notify
          /\ c.code = d.code /\ c.head = d.head /\ c.sent = d.sent
          /\ c.finished = d.finished /\ c.gone = d.gone
          /\ c.out = d.out /\ c.resp = d.resp
      BY <2>3, <3>2, ChangeRule DEF Shape
    <3>4. /\ Excused(c) <=> Excused(d)
          /\ Torn(c) <=> Torn(d)
          /\ Uncoded(c) <=> Uncoded(d)
          /\ Coded(c) <=> Coded(d)
          /\ Interim(c) <=> Interim(d)
          /\ Busy(c) <=> Busy(d)
      BY <3>2, <3>3 DEF Excused, Torn, Uncoded, Coded, Interim, Busy
    <3>5. /\ Escaped(c) <=> Escaped(d)
          /\ Silent(c) <=> Silent(d)
          /\ AuxZero(c) <=> AuxZero(d)
          /\ \A kinds : OnlySent(c, kinds) <=> OnlySent(d, kinds)
      BY <3>3, <3>4 DEF Escaped, Silent, AuxZero, OnlySent
    <3>6. Sound(c)
      BY <2>3, <3>2, <3>3, <3>4, <3>5 DEF Quiet, Sound, Shape
    <3>7. Quiet(c)
      BY <2>3, <3>2, <3>3, <3>4, <3>5, <3>6 DEF Quiet
    <3>8. CanWrite(c, c.reply)
      BY <2>3, <2>5, <3>2, <3>3, <3>4, <3>5 DEF Erred, CanWrite
    <3> QED
      BY <2>3, <2>5, <3>2, <3>4, <3>7, <3>8 DEF Erred, Replying
  <2> QED
    BY <2>4, <2>5
<1> QED
  BY <1>9, <1>10, <1>11

\* What render returns is written at once.
LEMMA ReplyRule ==
    ASSUME NEW p, Newborn(p), NEW d \in HandleRpc(p), NEW c \in Reply(d)
    PROVE  Settled(c) \/ Pending(c)
<1>1. CASE d.exc # "none"
  <2> DEFINE e == [Blame(d, "escaped") EXCEPT !.exc = "none", !.code = "error"]
  <2>1. /\ Quiet(d) /\ Shape(d)
        /\ ~Busy(d) \/ "aux" \in d.raised
        /\ PushOnly(d) \/ d.out = "stream"
    BY <1>1, HandleRpcRule DEF Replying, Quiet, Sound
  <2>2. Change(d, e, {"code"}) /\ Running(e) /\ "escaped" \in e.raised
    BY <2>1 DEF Shape, Running, Blame, Change, Kept, Fields, HttpFields, Free
  <2>3. c \in Then(Write(e, "500"), Finish)
    BY <1>1 DEF Reply
  <2> HIDE DEF e
  <2>4. /\ Fields \cup HttpFields \subseteq DOMAIN e
        /\ d.raised \subseteq e.raised
        /\ e.aux = d.aux /\ e.others = d.others /\ e.closed = d.closed
        /\ e.deferred = d.deferred /\ e.producer = d.producer /\ e.body = d.body
        /\ e.push = d.push /\ e.gen = d.gen /\ e.stack = d.stack /\ e.notify = d.notify
        /\ e.head = d.head /\ e.sent = d.sent
        /\ e.finished = d.finished /\ e.gone = d.gone
        /\ e.out = d.out /\ e.resp = d.resp
    BY <2>1, <2>2, ChangeRule DEF Shape
  <2>5. /\ Excused(d) => Excused(e)
        /\ "aux" \in d.raised => "aux" \in e.raised
        /\ Torn(d) \/ d.out = "stream" => Torn(e)
        /\ Uncoded(e) /\ Coded(e)
        /\ Interim(e) <=> Interim(d)
        /\ Busy(e) <=> Busy(d)
    BY <2>2, <2>4 DEF Excused, Torn, Uncoded, Coded, Interim, Busy
  <2>6. /\ Silent(e) <=> Silent(d)
        /\ AuxZero(e) <=> AuxZero(d)
        /\ Escaped(d) => Escaped(e)
        /\ \A kinds : OnlySent(e, kinds) <=> OnlySent(d, kinds)
    BY <2>4, <2>5 DEF Silent, AuxZero, Escaped, OnlySent
  <2>7. Sound(e)
    BY <2>1, <2>4, <2>5, <2>6 DEF Quiet, Sound, Shape
  <2>8. Quiet(e)
    BY <2>1, <2>4, <2>5, <2>6, <2>7 DEF Quiet
  <2>9. CanWrite(e, "500")
    BY <2>1, <2>5, <2>6 DEF PushOnly, CanWrite
  <2> QED
    BY <2>1, <2>2, <2>3, <2>5, <2>8, <2>9, WriteFinish
<1>2. CASE d.exc = "none" /\ d.reply = "none"
  <2>1. c = d
    BY <1>2 DEF Reply
  <2> QED
    BY <1>2, <2>1, HandleRpcRule DEF Replying
<1>3. CASE d.exc = "none" /\ d.reply # "none"
  <2>1. c \in Then(Write(d, d.reply), Finish)
    BY <1>3 DEF Reply
  <2>2. Replying(d) \/ Settled(d)
    BY <1>3, HandleRpcRule DEF Pending, Waiting, Blank
  <2>3. Running(d)
    BY <1>3, <2>2 DEF Replying, Settled, Quiet, Sound, Shape, Running
  <2>4. CASE Replying(d)
    BY <1>3, <2>1, <2>3, <2>4, WriteFinish DEF Replying
  <2>5. CASE Settled(d)
    BY <1>3, <2>1, <2>3, <2>5, SilentRule DEF Settled, Working
  <2> QED
    BY <2>2, <2>4, <2>5
<1> QED
  BY <1>1, <1>2, <1>3

-----------------------------------------------------------------------------
(* What the reactor calls.                                                 *)

LEMMA SettleRule ==
    ASSUME at' = "rendered", NEW outcomes, Settle(outcomes),
           \A c \in outcomes : Settled(c) \/ Pending(c)
    PROVE  HttpInv'
<1>1. PICK c \in outcomes : q' = [c EXCEPT !.exc = "none"]
  BY DEF Settle, Logged
<1>2. q'.exc = "none" /\ (Settled(q') \/ Pending(q'))
  BY <1>1, LoggedRule
<1> QED
  BY <1>2 DEF HttpInv

LEMMA RenderStep ==
    ASSUME HttpInv, Render
    PROVE  HttpInv'
<1>1. Newborn(q) /\ at' = "rendered"
  BY DEF HttpInv, Render
<1>2. \A c \in UNION {Reply(p) : p \in HandleRpc(q)} : Settled(c) \/ Pending(c)
  BY <1>1, ReplyRule
<1> QED
  BY <1>1, <1>2, SettleRule DEF Render

\* The Deferred of user code has fired, which may have set the answer.
LEMMA FiredRule ==
    ASSUME HttpInv, q.deferred = "pending", NEW p \in UserSets(Fired)
    PROVE  /\ at = "rendered"
           /\ Running(p) /\ Fresh(p) /\ ~p.stack /\ p.deferred = "fired"
<1>1. at = "rendered" /\ Pending(q) /\ q.exc = "none"
  BY DEF HttpInv, Newborn, Settled, Quiet
<1>2. Shape(q)
  BY <1>1 DEF Pending, Waiting, Blank
<1>3. /\ Kept(q, Fired, {"deferred", "raised"}) /\ Fired.exc = "none"
      /\ Fired.deferred = "fired" /\ (q.gone => "left" \in Fired.raised)
      /\ Fired.error = q.error /\ Fired.document = q.document /\ Fired.string = q.string
  BY <1>1, <1>2 DEF Fired, Shape, Kept, Fields, HttpFields
<1> DEFINE c == Fired
<1>4. Change(q, c, {"deferred"})
  BY <1>3, KeptChange DEF Free
<1> HIDE DEF c
<1>5. /\ Fields \cup HttpFields \subseteq DOMAIN c
      /\ c.aux = q.aux /\ c.others = q.others /\ c.closed = q.closed
      /\ c.producer = q.producer
      /\ c.push = q.push /\ c.gen = q.gen /\ c.stack = q.stack /\ c.notify = q.notify
      /\ c.reply = q.reply /\ c.head = q.head /\ c.sent = q.sent
      /\ c.finished = q.finished /\ c.gone = q.gone
      /\ c.out = q.out /\ c.resp = q.resp
  BY <1>2, <1>4, ChangeRule DEF Shape
<1>6. Blank(c)
  BY <1>1, <1>5 DEF Pending, Waiting, Blank, Shape, AuxZero
<1>7. Waiting(c)
  BY <1>1, <1>3, <1>6 DEF Pending, Waiting, c
<1>8. /\ Fresh(c) /\ ~c.stack /\ c.deferred = "fired" /\ c.exc = "none" /\ Shape(c)
  BY <1>1, <1>3, <1>5, <1>6, <1>7 DEF Fresh, Reached, Pending, Blank, c
<1>9. /\ Kept(c, p, {"resp", "string"}) /\ p.exc = c.exc /\ Fresh(p)
  BY <1>8, UserSetsRule DEF c
<1>10. p.stack = c.stack /\ p.deferred = c.deferred /\ Fields \subseteq DOMAIN p
  BY <1>8, <1>9 DEF Kept, Shape, Fields, HttpFields
<1> QED
  BY <1>1, <1>8, <1>9, <1>10 DEF Running

LEMMA DeferredFiresStep ==
    ASSUME HttpInv, DeferredFires
    PROVE  HttpInv'
<1>1. PICK ret \in {"value", "push", "file"}, p \in UserSets(Fired) :
          Settle(CatchWith(CbDeferred(p, ret)))
  BY DEF DeferredFires
<1>2. /\ at = "rendered" /\ at' = at
      /\ Running(p) /\ Fresh(p) /\ ~p.stack /\ p.deferred = "fired"
  BY FiredRule DEF DeferredFires
<1>3. \A s \in CbDeferred(p, ret) : Caught(s)
  BY <1>2, CbDeferredRule DEF Caught
<1>4. \A c \in CatchWith(CbDeferred(p, ret)) : Settled(c)
  BY <1>3, CatchRule
<1> QED
  BY <1>1, <1>2, <1>4, SettleRule

LEMMA DeferredFailsStep ==
    ASSUME HttpInv, DeferredFails
    PROVE  HttpInv'
<1>1. PICK exc \in Exceptions, p \in UserSets(Fired) : Settle(EbDeferred(p, exc))
  BY DEF DeferredFails
<1>2. at = "rendered" /\ at' = at /\ Running(p) /\ Fresh(p)
  BY FiredRule DEF DeferredFails
<1>3. Failing(p) /\ Redirectable(p)
  BY <1>2, BlankRule DEF Fresh, Waiting, Redirectable
<1>4. \A c \in EbDeferred(p, exc) : Settled(c)
  BY <1>2, <1>3, EbDeferredRule
<1> QED
  BY <1>1, <1>2, <1>4, SettleRule

\* Nothing more is produced, or a push has ended.
LEMMA StopStep ==
    ASSUME NEW p, Settled(p), NEW c, Change(p, c, {"producer", "push"}),
           \/ c.producer \in {p.producer, "none"}
           \/ p.producer = "on" /\ c.producer = "dead",
           c.push \in {p.push, "fired"}
    PROVE  /\ Settled(c) /\ Shape(c)
           /\ p.raised \subseteq c.raised /\ (Excused(p) => Excused(c))
           /\ c.closed = p.closed /\ c.notify = p.notify
           /\ c.gen = p.gen /\ c.finished = p.finished
           /\ PushOnly(p) => PushOnly(c)
           /\ Escaped(p) \/ (p.stack /\ AuxZero(p)) => Escaped(c) \/ (c.stack /\ AuxZero(c))
           /\ \A what : CanWrite(p, what) => CanWrite(c, what)
<1>1. Shape(p)
  BY DEF Settled, Quiet, Sound
<1>2. /\ Fields \cup HttpFields \subseteq DOMAIN c
      /\ p.raised \subseteq c.raised
      /\ c.aux = p.aux /\ c.others = p.others /\ c.closed = p.closed
      /\ c.deferred = p.deferred /\ c.body = p.body
      /\ c.gen = p.gen /\ c.stack = p.stack /\ c.notify = p.notify
      /\ c.reply = p.reply /\ c.code = p.code /\ c.head = p.head /\ c.sent = p.sent
      /\ c.finished = p.finished /\ c.gone = p.gone
      /\ c.out = p.out /\ c.resp = p.resp
  BY <1>1, ChangeRule DEF Shape
<1>3. /\ Excused(p) => Excused(c)
      /\ "aux" \in p.raised => "aux" \in c.raised
      /\ Torn(p) => Torn(c)
      /\ Uncoded(p) => Uncoded(c)
      /\ Coded(p) => Coded(c)
  BY <1>2, RaisedRule
<1>4. /\ Silent(c) <=> Silent(p)
      /\ AuxZero(c) <=> AuxZero(p)
      /\ \A kinds : OnlySent(c, kinds) <=> OnlySent(p, kinds)
      /\ Escaped(p) => Escaped(c)
  BY <1>2, <1>3 DEF Silent, AuxZero, OnlySent, Escaped
<1>5. /\ Interim(c) => Interim(p)
      /\ Busy(c) => Busy(p)
  BY DEF Interim, Busy
<1>6. Sound(c)
  BY <1>1, <1>2, <1>3, <1>4 DEF Settled, Quiet, Sound, Shape
<1>7. Quiet(c)
  BY <1>2, <1>3, <1>4, <1>5, <1>6 DEF Settled, Quiet
<1>8. Working(p) => Working(c)
  BY <1>2, <1>3, <1>4, <1>5 DEF Working, Orderly
<1>9. /\ PushOnly(p) => PushOnly(c)
      /\ \A what : CanWrite(p, what) => CanWrite(c, what)
  BY <1>2, <1>3, <1>4 DEF PushOnly, CanWrite
<1> QED
  BY <1>2, <1>3, <1>4, <1>6, <1>7, <1>8, <1>9 DEF Settled, Sound

\* Who is at work on the result waits for nobody else, and writes more of it.
LEMMA BusyRule ==
    ASSUME HttpInv, Busy(q)
    PROVE  /\ at = "rendered" /\ Settled(q) /\ Shape(q) /\ Running(q)
           /\ Fits(q, "result")
<1>1. at = "rendered" /\ Settled(q) /\ q.exc = "none"
  BY DEF HttpInv, Newborn, Fresh, Pending, Waiting, Blank, Busy, Interim
<1>2. q.push # "pending"
  BY <1>1 DEF Settled, Quiet, Busy, Interim
<1>3. CanWrite(q, "result")
  BY <1>1 DEF Settled, Quiet, Working, Orderly, CanWrite
<1> QED
  BY <1>1, <1>2, <1>3 DEF Settled, Quiet, Sound, Shape, Running, Fits

LEMMA ResumeProducingStep ==
    ASSUME HttpInv, ResumeProducing
    PROVE  HttpInv'
<1>1. /\ q.producer = "on" /\ at' = at
      /\ \/ q.body # "none" /\ Settle(Write([q EXCEPT !.left = @ - 1], q.body))
         \/ q' = [Blame(q, "body") EXCEPT !.producer = "dead"]
  BY DEF ResumeProducing
<1>2. /\ at = "rendered" /\ Settled(q) /\ Shape(q) /\ Running(q) /\ Fits(q, "result")
  BY <1>1, BusyRule DEF Busy
<1>3. CASE q.body # "none" /\ Settle(Write([q EXCEPT !.left = @ - 1], q.body))
  <2> DEFINE p == [q EXCEPT !.left = @ - 1]
  <2>1. Change(q, p, {}) /\ Running(p)
    BY <1>2 DEF Shape, Running, Change, Kept, Fields, HttpFields, Free
  <2> HIDE DEF p
  <2>2. Settled(p) /\ Shape(p) /\ (Torn(q) => Torn(p)) /\ (Silent(q) <=> Silent(p))
        /\ (Busy(p) <=> Busy(q)) /\ (CanWrite(q, "result") => CanWrite(p, "result"))
    BY <1>2, <2>1, SameRule
  <2>3. p.producer = q.producer /\ p.push = q.push
    BY <1>2, <2>1, ChangeRule DEF Shape
  <2>4. Fits(p, "result")
    BY <1>2, <2>2, <2>3 DEF Fits
  <2>5. ASSUME NEW c \in Write(p, q.body)
        PROVE  Settled(c)
    <3>1. q.body \in {"result", "empty"}
      BY <1>1, <1>2, <1>3 DEF Settled, Quiet
    <3>2. CASE q.body = "result"
      BY <2>1, <2>2, <2>4, <2>5, <3>2, WriteSettled
    <3>3. CASE q.body = "empty"
      <4>1. c = p \/ c = [p EXCEPT !.exc = "Exception"]
        BY <2>5, <3>3 DEF Write, Raises
      <4>2. Fields \cup HttpFields \subseteq DOMAIN p
        BY <2>2 DEF Shape
      <4>3. c = p \/ Change(p, c, {})
        BY <4>1, <4>2, ExcChange
      <4> QED
        BY <2>2, <4>3, SameRule
    <3> QED
      BY <3>1, <3>2, <3>3
  <2>6. Settle(Write(p, q.body))
    BY <1>3 DEF p
  <2> QED
    BY <1>1, <1>2, <2>5, <2>6, SettleRule
<1>4. CASE q' = [Blame(q, "body") EXCEPT !.producer = "dead"]
  <2>1. /\ Change(q, q', {"producer", "push"}) /\ q'.producer = "dead"
        /\ q'.exc = "none" /\ q'.push = q.push
    BY <1>2, <1>4 DEF Shape, Running, Blame, Change, Kept, Fields, HttpFields, Free
  <2>2. Settled(q')
    BY <1>1, <1>2, <2>1, StopStep
  <2> QED
    BY <1>1, <1>2, <2>1, <2>2 DEF HttpInv
<1> QED
  BY <1>1, <1>3, <1>4

\* The context is closed and the request finished.
LEMMA EbRequestFinishedRule ==
    ASSUME NEW p, Settled(p), Unclosed(p), Running(p), NEW c \in EbRequestFinished(p)
    PROVE  /\ Settled(c)
           /\ p.raised \subseteq c.raised /\ c.notify = p.notify /\ Shape(c)
<1>1. PICK s \in Close(p) : c \in IF s.exc = "none" THEN Finish(s) ELSE {s}
  BY DEF EbRequestFinished, Then
<1>2. Quiet(p) /\ Shape(p)
  BY DEF Settled, Quiet, Sound
<1>3. Change(p, s, {"closed"}) /\ Settled(s) /\ s.exc \in Exceptions \cup {"none"}
  BY <1>1, <1>2, CloseStep
<1>4. Shape(s) /\ Quiet(s)
  BY <1>3 DEF Settled, Quiet, Sound
<1>5. p.raised \subseteq s.raised /\ s.notify = p.notify
      /\ Fields \cup HttpFields \subseteq DOMAIN s
  BY <1>2, <1>3, ChangeRule DEF Shape
<1>6. CASE s.exc # "none"
  BY <1>1, <1>3, <1>4, <1>5, <1>6
<1>7. CASE s.exc = "none"
  <2>1. Change(s, c, {"closed", "finished", "producer"}) /\ Settled(c)
    BY <1>1, <1>4, <1>5, <1>7, FinishStep DEF Running
  <2>2. s.raised \subseteq c.raised /\ c.notify = s.notify
    BY <1>5, <2>1, ChangeRule
  <2> QED
    BY <1>5, <2>1, <2>2 DEF Settled, Quiet, Sound
<1> QED
  BY <1>6, <1>7

\* Nobody is at work any more: the context was not closed before, and neither
\* is it closed by the callbacks of notifyFinish, or there is an exception.
Over(p) ==
    /\ Settled(p) /\ Running(p)
    /\ Excused(p) \/ (p.closed = 0 /\ ~p.notify /\ ~Busy(p))

LEMMA OverRule ==
    ASSUME NEW p, Over(p)
    PROVE  /\ Quiet(p) /\ Shape(p) /\ Unclosed(p)
           /\ \A c \in EbRequestFinished(p) : Settled(c)
           /\ \A c \in Except(CbRequestFinished(p), Exceptions, EbRequestFinished) :
                  Settled(c)
<1> DEFINE cleared(s) == [s EXCEPT !.exc = "none"]
<1>1. Settled(p) /\ Running(p) /\ Quiet(p) /\ Shape(p) /\ Unclosed(p)
  BY DEF Over, Settled, Quiet, Sound, Unclosed
<1>2. ASSUME NEW u \in CbRequestFinished(p)
      PROVE  Settled(u) /\ (u.exc # "none" => Unclosed(u))
  <2>1. PICK s \in Finish(p) : u \in IF s.exc = "none" THEN Close(s) ELSE {s}
    BY <1>2 DEF CbRequestFinished, Then
  <2>2. /\ Change(p, s, {"closed", "finished", "producer"}) /\ Settled(s)
        /\ ~p.notify => s.closed = p.closed
        /\ s.producer \in {p.producer, "none"}
    BY <1>1, <2>1, FinishStep
  <2>3. s.notify = p.notify /\ p.raised \subseteq s.raised /\ s.push = p.push
    BY <1>1, <2>2, ChangeRule DEF Shape
  <2>4. Unclosed(s) /\ Quiet(s) /\ Shape(s)
    BY <2>2, <2>3 DEF Over, Unclosed, Excused, Busy, Interim, Settled, Quiet, Sound
  <2>5. CASE s.exc # "none"
    BY <2>1, <2>2, <2>4, <2>5
  <2>6. CASE s.exc = "none"
    BY <2>1, <2>2, <2>4, <2>6, CloseStep DEF Running, Shape
  <2> QED
    BY <2>5, <2>6
<1>3. ASSUME NEW c \in Except(CbRequestFinished(p), Exceptions, EbRequestFinished)
      PROVE  Settled(c)
  <2>1. PICK u \in CbRequestFinished(p) :
            c \in IF u.exc \in Exceptions THEN EbRequestFinished(cleared(u)) ELSE {u}
    BY <1>3 DEF Except
  <2>2. Settled(u) /\ (u.exc # "none" => Unclosed(u)) /\ Shape(u)
    BY <1>2 DEF Settled, Quiet, Sound
  <2>3. CASE u.exc \notin Exceptions
    BY <2>1, <2>2, <2>3
  <2>4. CASE u.exc \in Exceptions
    <3> DEFINE e == cleared(u)
    <3>1. Change(u, e, {}) /\ Running(e)
      BY <2>2, ExcChange DEF Shape, Running
    <3> HIDE DEF cleared
    <3>2. c \in EbRequestFinished(e)
      BY <2>1, <2>4
    <3> HIDE DEF e
    <3>3. /\ Settled(e) /\ (Excused(u) => Excused(e)) /\ (Silent(e) <=> Silent(u))
          /\ Busy(e) <=> Busy(u)
      BY <2>2, <3>1, SameRule
    <3>4. e.closed = u.closed /\ e.notify = u.notify
      BY <2>2, <3>1, ChangeRule DEF Shape
    <3>5. Unclosed(e)
      BY <2>2, <2>4, <3>3, <3>4 DEF Exceptions, Unclosed
    <3> QED
      BY <3>1, <3>2, <3>3, <3>5, EbRequestFinishedRule
  <2> QED
    BY <2>3, <2>4
<1> QED
  BY <1>1, <1>3, EbRequestFinishedRule

\* The producer comes to its end.
LEMMA EndsRule ==
    ASSUME NEW p, Settled(p), p.producer = "on", Running(p),
           NEW d, d = [p EXCEPT !.producer = "none"]
    PROVE  Over(d) /\ (Excused(d) \/ ~d.notify)
<1>1. Shape(p)
  BY DEF Settled, Quiet, Sound
<1>2. /\ Change(p, d, {"producer", "push"}) /\ d.producer = "none" /\ d.push = p.push
      /\ d.exc = "none"
  BY <1>1 DEF Shape, Running, Change, Kept, Fields, HttpFields, Free
<1>3. /\ Settled(d) /\ Shape(d)
      /\ Excused(p) => Excused(d)
      /\ d.closed = p.closed /\ d.notify = p.notify
  <2>1. d.producer \in {p.producer, "none"} /\ d.push \in {p.push, "fired"}
    BY ONLY <1>2
  <2>2. Settled(p) /\ Change(p, d, {"producer", "push"})
    BY <1>2
  <2> QED
    BY ONLY <2>1, <2>2, StopStep
<1>4. Excused(p) \/ (p.closed = 0 /\ ~p.notify /\ ~Interim(p))
  BY DEF Settled, Quiet, Busy
<1>5. Excused(d) \/ (d.closed = 0 /\ ~d.notify /\ ~Busy(d))
  BY <1>2, <1>3, <1>4 DEF Busy, Interim
<1> QED
  BY <1>2, <1>3, <1>5 DEF Over, Running, Shape

LEMMA StopIterationStep ==
    ASSUME HttpInv, StopIteration
    PROVE  HttpInv'
<1> DEFINE d == [q EXCEPT !.producer = "none"]
<1>1. /\ q.producer = "on" /\ at' = at
      /\ Settle(Except(CbRequestFinished(d), Exceptions, EbRequestFinished))
  BY DEF StopIteration
<1>2. at = "rendered" /\ Settled(q) /\ Running(q)
  BY <1>1, BusyRule DEF Busy
<1>3. Over(d)
  BY <1>1, <1>2, EndsRule
<1> HIDE DEF d
<1>4. \A c \in Except(CbRequestFinished(d), Exceptions, EbRequestFinished) : Settled(c)
  BY <1>3, OverRule
<1> QED
  BY <1>1, <1>2, <1>4, SettleRule

\* A PushBase found in the result ends, and with it the request.
LEMMA InterimEndsStep ==
    ASSUME HttpInv, InterimEnds
    PROVE  HttpInv'
<1> DEFINE fired(c) == [c EXCEPT !.push = "fired"]
           ends(d) == Except(CbRequestFinished(d), Exceptions, EbRequestFinished)
           closed == {fired(c) : c \in Logged(InterimClose(q))}
<1>1. Interim(q) /\ at' = at /\ Settle(UNION {ends(d) : d \in closed})
  BY DEF InterimEnds, Interim
<1>2. at = "rendered" /\ Settled(q) /\ Shape(q) /\ Running(q) /\ Fits(q, "result")
  BY <1>1, BusyRule DEF Busy
<1>3. ASSUME NEW d \in closed
      PROVE  Over(d)
  <2>1. PICK s \in InterimClose(q) : d = fired([s EXCEPT !.exc = "none"])
    BY <1>3 DEF Logged
  <2>2. Settled(s) /\ Shape(s) /\ Interim(s)
    <3>1. CASE q.push = "interim_over"
      BY <1>1, <1>2, <2>1, <3>1 DEF InterimClose
    <3>2. CASE q.push # "interim_over"
      <4>1. Settled(s) /\ Change(q, s, {"sent", "head"})
        BY <1>2, <2>1, <3>2, EndDocumentRule DEF InterimClose
      <4>2. s.push = q.push
        BY <1>2, <4>1, ChangeRule DEF Shape
      <4> QED
        BY <1>1, <4>1, <4>2 DEF Interim, Settled, Quiet, Sound
    <3> QED
      BY <3>1, <3>2
  <2>3. /\ Change(s, d, {"producer", "push"}) /\ d.producer = s.producer
        /\ d.push = "fired" /\ d.exc = "none"
    BY <2>1, <2>2 DEF Shape, Change, Kept, Fields, HttpFields, Free
  <2>4. /\ Settled(d) /\ Shape(d)
        /\ Excused(s) => Excused(d)
        /\ d.closed = s.closed /\ d.notify = s.notify
    BY <2>2, <2>3, StopStep
  <2>5. Excused(s) \/ (s.closed = 0 /\ ~s.notify /\ s.producer = "none")
    BY <2>2 DEF Settled, Quiet, Busy
  <2>6. Excused(d) \/ (d.closed = 0 /\ ~d.notify /\ ~Busy(d))
    BY <2>3, <2>4, <2>5 DEF Busy, Interim
  <2> QED
    BY <2>3, <2>4, <2>6 DEF Over, Running, Shape
<1> HIDE DEF closed
<1>4. \A d \in closed : \A c \in ends(d) : Settled(c)
  BY <1>3, OverRule
<1>5. \A c \in UNION {ends(d) : d \in closed} : Settled(c)
  <2> HIDE DEF ends
  <2> QED
    BY <1>4
<1> HIDE DEF ends
<1> QED
  BY <1>1, <1>2, <1>5, SettleRule

LEMMA FileEndsStep ==
    ASSUME HttpInv, FileEnds
    PROVE  HttpInv'
<1> DEFINE d == [q EXCEPT !.producer = "none"]
<1>1. q.producer = "file" /\ at' = at /\ Settle(Then(Write(d, "result"), Finish))
  BY DEF FileEnds
<1>2. at = "rendered" /\ Settled(q) /\ Shape(q) /\ Running(q) /\ Fits(q, "result")
  BY <1>1, BusyRule DEF Busy
<1>3. /\ Change(q, d, {"producer", "push"}) /\ d.producer = "none" /\ d.push = q.push
      /\ d.exc = "none"
  BY <1>2 DEF Shape, Running, Change, Kept, Fields, HttpFields, Free
<1> HIDE DEF d
<1>4. Settled(d) /\ Shape(d) /\ CanWrite(d, "result")
  BY <1>2, <1>3, StopStep DEF Fits
<1>5. \A c \in Then(Write(d, "result"), Finish) : Settled(c)
  BY <1>3, <1>4, WriteFinish DEF Settled, Running, Shape
<1> QED
  BY <1>1, <1>2, <1>5, SettleRule

\* A push that has not ended.
LEMMA PushPendingRule ==
    ASSUME HttpInv, q.push = "pending"
    PROVE  /\ at = "rendered" /\ Settled(q) /\ Shape(q) /\ Running(q) /\ PushOnly(q)
           /\ q.gen # "none" /\ ~Busy(q)
           /\ Escaped(q) \/ (q.stack /\ AuxZero(q))
<1>1. at = "rendered" /\ Settled(q) /\ q.exc = "none"
  BY DEF HttpInv, Newborn, Fresh, Pending, Waiting, Blank
<1> QED
  BY <1>1 DEF Settled, Working, Orderly, Quiet, Sound, Shape, Running, PushOnly, Busy, Interim

LEMMA AppendObjectStep ==
    ASSUME HttpInv, AppendObject
    PROVE  HttpInv'
<1>1. q.push = "pending" /\ at' = at /\ Settle(Push(q))
  BY DEF AppendObject
<1>2. \A c \in Push(q) : Settled(c)
  BY <1>1, PushPendingRule, PushRule
<1> QED
  BY <1>1, <1>2, PushPendingRule, SettleRule

\* More of the result is written, or its serialization raises.
LEMMA AppendInterimStep ==
    ASSUME HttpInv, AppendInterim
    PROVE  HttpInv'
<1> DEFINE over == [q EXCEPT !.push = "interim_over"]
<1>1. /\ q.push = "interim" /\ at' = at
      /\ Settle(Write(q, "result")) \/ Settle(SerializationRaises(over))
  BY DEF AppendInterim
<1>2. at = "rendered" /\ Settled(q) /\ Shape(q) /\ Running(q) /\ Fits(q, "result")
  BY <1>1, BusyRule DEF Busy, Interim
<1>3. \A c \in Write(q, "result") : Settled(c)
  BY <1>2, WriteSettled
<1>4. Settled(over)
  <2>1. Change(q, over, {"push"}) /\ over.push = "interim_over"
    BY <1>2 DEF Shape, Change, Kept, Fields, HttpFields, Free
  <2> HIDE DEF over
  <2>2. /\ Fields \cup HttpFields \subseteq DOMAIN over
        /\ q.raised \subseteq over.raised
        /\ over.aux = q.aux /\ over.others = q.others /\ over.closed = q.closed
        /\ over.deferred = q.deferred /\ over.producer = q.producer /\ over.body = q.body
        /\ over.gen = q.gen /\ over.stack = q.stack /\ over.notify = q.notify
        /\ over.reply = q.reply /\ over.code = q.code /\ over.head = q.head
        /\ over.sent = q.sent
        /\ over.finished = q.finished /\ over.gone = q.gone
        /\ over.out = q.out /\ over.resp = q.resp
    BY <1>2, <2>1, ChangeRule DEF Shape
  <2>3. /\ Excused(q) => Excused(over)
        /\ "aux" \in q.raised => "aux" \in over.raised
        /\ Torn(q) => Torn(over)
        /\ Uncoded(q) => Uncoded(over)
        /\ Coded(q) => Coded(over)
    BY <2>2, RaisedRule
  <2>4. /\ Silent(over) <=> Silent(q)
        /\ \A kinds : OnlySent(over, kinds) <=> OnlySent(q, kinds)
        /\ Escaped(q) => Escaped(over)
        /\ Interim(q) /\ Interim(over) /\ Busy(q) /\ Busy(over)
    BY <1>1, <2>1, <2>2, <2>3 DEF Silent, OnlySent, Escaped, Interim, Busy
  <2>5. Sound(over)
    BY <1>2, <2>2, <2>3, <2>4 DEF Settled, Quiet, Sound, Shape
  <2>6. Quiet(over)
    BY <1>2, <2>1, <2>2, <2>3, <2>4, <2>5 DEF Settled, Quiet
  <2>7. Working(q) => Working(over)
    BY <2>1, <2>2, <2>3, <2>4 DEF Working, Orderly
  <2> QED
    BY <1>2, <2>4, <2>6, <2>7 DEF Settled
<1> HIDE DEF over
<1>5. ASSUME NEW c \in SerializationRaises(over)
      PROVE  Settled(c)
  <2>1. Shape(over)
    BY <1>4 DEF Settled, Quiet, Sound
  <2>2. Change(over, c, {})
    BY <1>5, <2>1, RaisesRule DEF Shape
  <2> QED
    BY <1>4, <2>1, <2>2, SameRule
<1> QED
  BY <1>1, <1>2, <1>3, <1>5, SettleRule

LEMMA EbPushCloseRule ==
    ASSUME NEW p, Closable(p), Running(p), NEW c \in EbPushClose(p)
    PROVE  Settled(c)
<1>1. PICK s \in PusherTryClose(p) :
          c = [(IF s.exc = "none" THEN s ELSE Blame(s, "fault")) EXCEPT !.exc = "none"]
  BY DEF EbPushClose, Logged
<1>2. Settled(s) /\ Shape(s)
  BY PusherTryCloseRule DEF Settled, Quiet, Sound
<1>3. Change(s, c, {})
  BY <1>1, <1>2 DEF Shape, Blame, Change, Kept, Fields, HttpFields, Free
<1> QED
  BY <1>2, <1>3, SameRule

LEMMA PushEndsStep ==
    ASSUME HttpInv, PushEnds
    PROVE  HttpInv'
<1> DEFINE over == [q EXCEPT !.push = "fired"]
           cleared(s) == [s EXCEPT !.exc = "none"]
<1>1. /\ q.push = "pending" /\ at' = at
      /\ Settle(CbPushClose(over)) \/ Settle(EbPushClose(over))
  BY DEF PushEnds
<1>2. /\ at = "rendered" /\ Settled(q) /\ Shape(q) /\ Running(q) /\ PushOnly(q)
      /\ q.gen # "none" /\ ~Busy(q)
      /\ Escaped(q) \/ (q.stack /\ AuxZero(q))
  BY <1>1, PushPendingRule
<1>3. Closable(over) /\ Running(over)
  <2>1. /\ Change(q, over, {"producer", "push"}) /\ over.exc = "none"
        /\ over.push = "fired" /\ over.producer = q.producer
    BY <1>2 DEF Shape, Running, Change, Kept, Fields, HttpFields, Free
  <2> HIDE DEF over
  <2>2. /\ Settled(over) /\ Shape(over) /\ over.gen = q.gen /\ PushOnly(over)
        /\ Escaped(over) \/ (over.stack /\ AuxZero(over))
    BY <1>1, <1>2, <2>1, StopStep
  <2>3. ~Busy(over)
    BY <1>2, <2>1 DEF Busy, Interim
  <2> QED
    BY <1>2, <2>1, <2>2, <2>3 DEF Closable, Running, Shape
<1> HIDE DEF over
<1>4. \A c \in EbPushClose(over) : Settled(c)
  BY <1>3, EbPushCloseRule
<1>5. ASSUME NEW c \in CbPushClose(over)
      PROVE  Settled(c)
  <2>1. PICK s \in PusherTryClose(over) :
            c \in IF s.exc \in Exceptions THEN EbPushClose(cleared(s)) ELSE {s}
    BY <1>5 DEF CbPushClose, Except
  <2>2. Settled(s) /\ Shape(s) /\ (s.exc # "none" => Closable(s))
    BY <1>3, PusherTryCloseRule DEF Settled, Quiet, Sound
  <2>3. CASE s.exc \notin Exceptions
    BY <2>1, <2>2, <2>3
  <2>4. CASE s.exc \in Exceptions
    <3> DEFINE e == cleared(s)
    <3>1. Change(s, e, {}) /\ Running(e)
      BY <2>2, ExcChange DEF Shape, Running
    <3> HIDE DEF cleared
    <3>2. c \in EbPushClose(e)
      BY <2>1, <2>4
    <3> HIDE DEF e
    <3>3. Closable(e)
      BY <2>2, <2>4, <3>1, SameRule DEF Exceptions
    <3> QED
      BY <3>1, <3>2, <3>3, EbPushCloseRule
  <2> QED
    BY <2>3, <2>4
<1> QED
  BY <1>1, <1>2, <1>4, <1>5, SettleRule

\* The context c is p after its client left: what is still done for it goes unseen.
Deserted(p, c) ==
    /\ Quiet(p) => Settled(c)
    /\ Pending(p) => Pending(c)
    /\ Shape(c) /\ c.exc = p.exc /\ Silent(c)
    /\ c.producer = "none" /\ c.closed = p.closed /\ c.notify = p.notify
    /\ Excused(p) => Excused(c)
    /\ Busy(c) => Interim(p)

\* A client that leaves makes its context a deserted one.
LEMMA GoneStep ==
    ASSUME NEW p, Shape(p), NEW c, c = [p EXCEPT !.gone = TRUE, !.producer = "none"]
    PROVE  Deserted(p, c)
<1>1. /\ Kept(p, c, {"gone", "producer"}) /\ c.gone = TRUE /\ c.producer = "none"
      /\ c.exc = p.exc /\ c.error = p.error /\ c.document = p.document
           /\ c.string = p.string
  BY DEF Shape, Kept, Fields, HttpFields
<1>2. Change(p, c, {"gone", "producer"})
  BY <1>1, KeptChange
<1>3. /\ Fields \cup HttpFields \subseteq DOMAIN c
      /\ p.raised \subseteq c.raised
      /\ c.aux = p.aux /\ c.others = p.others /\ c.closed = p.closed
      /\ c.deferred = p.deferred /\ c.body = p.body
      /\ c.push = p.push /\ c.gen = p.gen /\ c.stack = p.stack /\ c.notify = p.notify
      /\ c.reply = p.reply /\ c.code = p.code /\ c.head = p.head /\ c.sent = p.sent
      /\ c.finished = p.finished
      /\ c.out = p.out /\ c.resp = p.resp
  BY <1>2, ChangeRule DEF Shape
<1>4. /\ Excused(p) => Excused(c)
      /\ "aux" \in p.raised => "aux" \in c.raised
      /\ Torn(p) => Torn(c)
      /\ Uncoded(p) => Uncoded(c)
      /\ Coded(p) => Coded(c)
  BY ONLY <1>3, RaisedRule
<1>5. /\ Silent(c)
      /\ AuxZero(c) <=> AuxZero(p)
      /\ Interim(c) <=> Interim(p)
      /\ Busy(c) <=> Interim(p)
      /\ Interim(p) => Busy(p)
  BY <1>1, <1>3 DEF Silent, AuxZero, Interim, Busy
<1>6. (Escaped(p) \/ c.gen # "none") => Escaped(c)
  BY <1>1, <1>3, <1>4 DEF Escaped
<1>7. Shape(c)
  BY <1>3 DEF Shape
<1>8. Sound(p) => Sound(c)
  BY <1>3, <1>4, <1>6, <1>7 DEF Sound
<1>9. Quiet(p) => Quiet(c)
  BY <1>1, <1>3, <1>4, <1>5, <1>6, <1>8 DEF Quiet
<1>10. Blank(p) => Blank(c)
  BY <1>1, <1>3, <1>5, <1>7 DEF Blank
<1>11. Pending(p) => Pending(c)
  BY <1>1, <1>3, <1>10 DEF Pending, Waiting
<1> QED
  BY <1>1, <1>3, <1>4, <1>5, <1>7, <1>9, <1>11 DEF Settled, Deserted

LEMMA ClientLeavesStep ==
    ASSUME HttpInv, ClientLeaves
    PROVE  HttpInv'
<1> DEFINE d == [q EXCEPT !.producer = "none"]
           stopped == IF q.producer = "on" THEN Logged(EbRequestFinished(d)) ELSE {q}
           gone(p) == [p EXCEPT !.gone = TRUE, !.producer = "none"]
           left == {gone(p) : p \in stopped}
           ends(p) == IF p.notify THEN EbRequestFinished(p) ELSE {p}
<1>1. /\ at = "rendered" /\ at' = at /\ ~q.gone /\ ~q.finished
      /\ Settle(UNION {ends(p) : p \in left})
  BY DEF ClientLeaves
<1>2. q.exc = "none" /\ (Settled(q) \/ Pending(q)) /\ Shape(q) /\ Running(q)
  BY <1>1 DEF HttpInv, Newborn, Fresh, Settled, Quiet, Sound, Pending, Waiting, Blank, Shape,
              Running
<1>3. ASSUME NEW p \in stopped
      PROVE  /\ Shape(p) /\ Running(p)
             /\ \/ Pending(p) /\ ~p.notify
                \/ Quiet(p) /\ (p.notify => Excused(p) \/ p.closed = 0)
  <2>1. CASE q.producer = "on"
    <3>1. Settled(q)
      BY <1>2, <2>1 DEF Pending, Waiting, Blank
    <3>2. /\ Settled(d) /\ Running(d) /\ Unclosed(d) /\ Shape(d)
          /\ Excused(d) \/ ~d.notify
      BY <1>2, <2>1, <3>1, EndsRule, OverRule DEF Over
    <3>3. PICK s \in EbRequestFinished(d) : p = [s EXCEPT !.exc = "none"]
      BY <1>3, <2>1 DEF Logged
    <3> HIDE DEF d
    <3>4. Settled(s) /\ d.raised \subseteq s.raised /\ s.notify = d.notify /\ Shape(s)
      BY <3>2, <3>3, EbRequestFinishedRule
    <3>5. Change(s, p, {}) /\ p.exc = "none"
      BY <3>3, <3>4, ExcChange DEF Shape
    <3>6. Settled(p) /\ Shape(p) /\ s.raised \subseteq p.raised /\ p.notify = s.notify
      BY <3>4, <3>5, SameRule, ChangeRule DEF Shape
    <3>7. p.notify => Excused(p)
      BY <3>2, <3>4, <3>6 DEF Excused
    <3> QED
      BY <3>5, <3>6, <3>7 DEF Settled, Shape, Running
  <2>2. CASE q.producer # "on"
    <3>1. p = q
      BY <1>3, <2>2
    <3> QED
      BY <1>1, <1>2, <3>1 DEF Settled, Quiet, Silent, Pending, Waiting, Blank
  <2> QED
    BY <2>1, <2>2
<1> HIDE DEF stopped
<1>4. ASSUME NEW c \in UNION {ends(p) : p \in left}
      PROVE  Settled(c) \/ Pending(c)
  <2>1. PICK p \in stopped : c \in ends(gone(p))
    BY <1>4
  <2> DEFINE g == gone(p)
  <2>2. /\ Shape(p) /\ Running(p)
        /\ \/ Pending(p) /\ ~p.notify
           \/ Quiet(p) /\ (p.notify => Excused(p) \/ p.closed = 0)
    BY <1>3
  <2>3. Deserted(p, g)
    <3>1. g = [p EXCEPT !.gone = TRUE, !.producer = "none"]
      OBVIOUS
    <3>2. Shape(p)
      BY <2>2
    <3> HIDE DEF g
    <3> QED
      BY ONLY <3>1, <3>2, GoneStep
  <2>4. c \in IF g.notify THEN EbRequestFinished(g) ELSE {g}
    BY <2>1
  <2> HIDE DEF g
  <2>5. CASE g.notify
    <3>1. /\ Settled(g) /\ Running(g) /\ Silent(g) /\ Quiet(p) /\ p.notify
          /\ Excused(p) \/ p.closed = 0
      BY <2>2, <2>3, <2>5 DEF Running, Shape, Deserted
    <3>2. Excused(p) \/ ~Interim(p)
      BY <3>1 DEF Quiet
    <3>3. Unclosed(g)
      BY <2>3, <3>1, <3>2 DEF Unclosed, Deserted
    <3> QED
      BY <2>4, <2>5, <3>1, <3>3, EbRequestFinishedRule
  <2>6. CASE ~g.notify
    BY <2>2, <2>3, <2>4, <2>6 DEF Deserted
  <2> QED
    BY <2>5, <2>6
<1> HIDE DEF left, ends
<1> QED
  BY <1>1, <1>4, SettleRule

LEMMA HttpStart == Init => HttpInv
<1> SUFFICES ASSUME Init
             PROVE  HttpInv
  OBVIOUS
<1>1. PICK many \in BOOLEAN, out \in {"string", "stream"} :
          at = "arrived" /\ q = NewHttpRequest(many, out)
  BY DEF Init
<1> DEFINE p == NewRequest(many)
           more == [out |-> out, resp |-> "none", deferred |-> "none", producer |-> "none", body |-> "none", left |-> 0,
                    push |-> "none", gen |-> "none", stack |-> FALSE, notify |-> FALSE,
                    reply |-> "none", code |-> "unset", head |-> "none", sent |-> <<>>,
                    finished |-> FALSE, gone |-> FALSE]
<1>2. q = WithFields(p, more)
  BY <1>1 DEF NewHttpRequest
<1>3. DOMAIN more = HttpFields
  BY DEF HttpFields
<1>4. /\ DOMAIN p = Fields
      /\ p.exc = "none" /\ p.error = "none" /\ p.object = NoObject /\ p.raised = {}
      /\ p.others = <<>> /\ p.aux = [a \in Aux |-> 0]
      /\ p.document = "none" /\ p.string = "none" /\ p.closed = 0
  BY NewFields
<1> DEFINE joined == Joined(q, p, more)
<1>5. joined
  BY <1>2, WithFieldsRule
<1>6. /\ DOMAIN q = Fields \cup HttpFields
      /\ \A f \in Fields : q[f] = p[f]
      /\ \A f \in HttpFields : q[f] = more[f]
  <2>1. HttpFields \cap Fields = {}
    BY DEF Fields, HttpFields
  <2> HIDE DEF p, more
  <2> QED
    BY <1>3, <1>4, <1>5, <2>1 DEF Joined
<1>7. /\ q.deferred = "none" /\ q.producer = "none" /\ q.push = "none" /\ q.gen = "none"
      /\ q.stack = FALSE /\ q.notify = FALSE /\ q.reply = "none" /\ q.head = "none"
      /\ q.sent = <<>> /\ q.finished = FALSE /\ q.gone = FALSE
      /\ q.out = out
  BY <1>6 DEF HttpFields
<1> HIDE DEF more, p, joined
<1>8. /\ q.exc = "none" /\ q.error = "none" /\ q.object = NoObject
      /\ q.others = <<>> /\ q.aux = [a \in Aux |-> 0]
      /\ q.document = "none" /\ q.string = "none" /\ q.closed = 0
  BY <1>4, <1>6 DEF Fields
<1>9. Shape(q)
  BY <1>6, <1>7, <1>8 DEF Shape
<1>10. Blank(q)
  BY <1>7, <1>8, <1>9 DEF Blank, AuxZero
<1> QED
  BY <1>1, <1>7, <1>8, <1>10 DEF HttpInv, Newborn, Fresh, Waiting, Reached, Objects

LEMMA HttpStep == HttpInv /\ [Next]_vars => HttpInv'
<1> SUFFICES ASSUME HttpInv, [Next]_vars
             PROVE  HttpInv'
  OBVIOUS
<1>1. CASE Render
  BY <1>1, RenderStep
<1>2. CASE DeferredFires
  BY <1>2, DeferredFiresStep
<1>3. CASE DeferredFails
  BY <1>3, DeferredFailsStep
<1>4. CASE ResumeProducing
  BY <1>4, ResumeProducingStep
<1>5. CASE StopIteration
  BY <1>5, StopIterationStep
<1>6. CASE FileEnds
  BY <1>6, FileEndsStep
<1>7. CASE AppendObject
  BY <1>7, AppendObjectStep
<1>8. CASE PushEnds
  BY <1>8, PushEndsStep
<1>9. CASE AppendInterim
  BY <1>9, AppendInterimStep
<1>10. CASE InterimEnds
  BY <1>10, InterimEndsStep
<1>11. CASE ClientLeaves
  BY <1>11, ClientLeavesStep
<1>12. CASE UNCHANGED vars
  BY <1>12 DEF vars, HttpInv
<1> QED
  BY <1>1, <1>2, <1>3, <1>4, <1>5, <1>6, <1>7, <1>8, <1>9, <1>10, <1>11, <1>12 DEF Next

\* Whatever is left to be done for a request writes no second document and ends
\* nothing twice: between two calls of the reactor a request is new, waits for
\* the Deferred of user code, or is settled.
THEOREM HttpCorrect == Spec => []HttpInv
  BY HttpStart, HttpStep, PTL DEF Spec

\* The client of the Twisted HTTP server gets one document, under the response
\* code that was set for it, the one that user code set before all; or what
\* RightAnswer excepts has happened, above all that a document which is written
\* to the request as it is made was not made to its end.
THEOREM RightAnswers == Spec => []RightAnswer
<1>1. Sound(q) => RightAnswer
  <2> SUFFICES ASSUME Sound(q)
               PROVE  RightAnswer
    OBVIOUS
  <2>1. /\ Broken <=> Torn(q)
        /\ \A w \in {"aux", "escaped", "redirect"} : WentWrong(q, {w}) <=> w \in q.raised
        /\ WentWrong(q, {"escaped", "redirect"}) <=> q.raised \cap {"escaped", "redirect"} # {}
    BY DEF Broken, Torn, WentWrong
  <2>2. OneAnswer
    BY <2>1 DEF OneAnswer, Sound
  <2>3. \A w \in ToSet(q.sent) : \E i \in DOMAIN q.sent : q.sent[i] = w
    BY DEF ToSet
  <2>4. StatusMatches
    BY <2>1, <2>3 DEF StatusMatches, Pushed, Sound
  <2>5. OwnCodeKept
    BY <2>1 DEF OwnCodeKept, Pushed, Sound, Uncoded
  <2> QED
    BY <2>2, <2>4, <2>5 DEF RightAnswer
<1>2. Blank(q) => RightAnswer
  BY DEF RightAnswer, OneAnswer, StatusMatches, OwnCodeKept, ToSet, Blank
<1>3. HttpInv => RightAnswer
  BY <1>1, <1>2 DEF HttpInv, Newborn, Fresh, Settled, Quiet, Pending, Waiting
<1> QED
  BY <1>3, HttpCorrect, PTL

\* A request is closed once and each of its auxiliary methods runs once, or the
\* exceptions that OnceEach names have happened.
THEOREM EachOnce == Spec => []OnceEach
<1>1. Sound(q) => OnceEach
  BY DEF OnceEach, ClosedOnce, AuxOnce, Pushed, WentWrong, Sound, Excused, Escaped
<1>2. Blank(q) => OnceEach
  BY DEF OnceEach, ClosedOnce, AuxOnce, Blank, AuxZero
<1>3. HttpInv => OnceEach
  BY <1>1, <1>2 DEF HttpInv, Newborn, Fresh, Settled, Quiet, Pending, Waiting
<1> QED
  BY <1>3, HttpCorrect, PTL
=============================================================================
