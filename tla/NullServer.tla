------------------------------ MODULE NullServer ------------------------------
(***************************************************************************)
(* A call through the NullServer: _FunctionCall.__call__, _cb_async and     *)
(* _cb_sync of spyne/server/null.py.  There is no transport: the caller     *)
(* gets what the method returns, or its exception.                          *)
(*                                                                          *)
(* Besides the fields of ServerBase's request the state has                *)
(*   async    whether the call was made through server.is_async             *)
(*   ostr     whether the caller asked for the serialized response          *)
(*   retval   "none", "result" or "deferred"                                *)
(*   got      what the caller got: "none" as yet, retval, or the exception  *)
(*            that was raised                                               *)
(*   fired    what the Deferred that the caller got ended with              *)
(***************************************************************************)
EXTENDS ServerBase

VARIABLE q

NewCall(many, async, ostr) ==
    WithFields(NewRequest(many),
        [async |-> async, ostr |-> ostr, retval |-> "none", got |-> "none",
         fired |-> "none"])

\* More arguments than the message has members are an IndexError, an unknown
\* method is a Fault.
Contexts(p) ==
    Returns([p EXCEPT !.others = [i \in Aux |-> i]])
      \cup Raises(p, "Fault") \cup Raises(p, "Exception")

\* The next contexts of the loop have errors and events of their own, which
\* nobody looks at: what escapes is an argument too many and the exception of a
\* listener that hears of another one.
ProcessAux(p) ==
    LET todo == ToSet(p.others)
    IN  {Ran(p, todo, NAux)}
          \cup {AuxRaises(Ran(p, todo, last)) :
                 last \in UNION {{a - 1, a} : a \in todo \cap AuxRaising}}

\* The fault is returned.
BadCbSync(p) ==
    Then(IF p.ostr THEN GetOutString(p) ELSE {p},
         LAMBDA c : {[c EXCEPT !.retval = "result"]})

\* A fault of the method is raised, everything else is returned.
CbSync(p) ==
    IF p.error # "none" THEN Raises(p, "Fault")
    ELSE Then(IF p.ostr THEN GetOutString(p) ELSE {p},
              LAMBDA c : {[c EXCEPT !.retval = "result"]})

\* Asked for a Deferred, __call__ looks at out_object[0] before _cb_sync looks
\* at out_error: a method that failed has no list.
Primary(p) ==
    IF ~p.async THEN CbSync(p)
    ELSE IF ~HasFirst(p) THEN Raises(p, "Exception")
    ELSE IF First(p) = "deferred" THEN {[p EXCEPT !.retval = "deferred"]}
    ELSE CbSync(p)

\* The context is closed as soon as the method has returned.
BadCall(p) ==
    LET called == Then(Contexts(p), ProcessRequest)
        closed == Then(called, LAMBDA c : IF c.async THEN {c} ELSE Close(c))
    IN  Then(Then(closed, Primary), ProcessAux)

\* The auxiliary methods are called whatever became of the primary one.
BadCallAux(p) ==
    LET primary == Then(Then(Contexts(p), ProcessRequest), Primary)
        aux == Except(Then(primary, ProcessAux), {"Fault"}, ProcessAux)
    IN  Then(aux, LAMBDA c : IF c.async THEN {c} ELSE Close(c))

Call(p) ==
    LET primary == Then(Then(Contexts(p), ProcessRequest), Primary)
    IN  Then(Then(primary, ProcessAux), LAMBDA c : IF c.async THEN {c} ELSE Close(c))

-----------------------------------------------------------------------------

Init ==
    \E many, async, ostr \in BOOLEAN : q = NewCall(many, async, ostr)

Invoke ==
    /\ q.got = "none"
    /\ q' \in {[c EXCEPT !.exc = "none",
                         !.got = IF c.exc = "none" THEN c.retval ELSE c.exc] :
               c \in Call(q)}

\* _cb_async; the context is not closed.
DeferredFires ==
    /\ q.got = "deferred"
    /\ q.fired = "none"
    /\ \/ q' \in {[c EXCEPT !.exc = "none",
                            !.fired = IF c.exc = "none" THEN c.retval ELSE c.exc] :
                  c \in CbSync([q EXCEPT !.object = List(<<"value">>)])}
       \/ q' = [q EXCEPT !.fired = "Exception"]

Next == Invoke \/ DeferredFires

Spec == Init /\ [][Next]_q

-----------------------------------------------------------------------------

\* The caller never gets a value for a method that failed, nor is the value
\* served unserialized where the string was asked for.
HonestResult ==
    "result" \in {q.got, q.fired} =>
        /\ q.error = "none"
        /\ q.ostr => q.string = "result"

\* A context is closed exactly when a synchronous call returns.  So it stays
\* open when the method, serialization or an auxiliary method failed, and always
\* after an asynchronous call.
ClosedOnReturn == q.closed = IF q.got = "result" /\ ~q.async THEN 1 ELSE 0

\* The auxiliary methods follow the primary one if and only if that returned,
\* each once and in order, also when it returned a Deferred that will fail.
AuxFollowReturn ==
    /\ q.got \in {"result", "deferred"} => \A a \in Aux : q.aux[a] = 1
    /\ \A a, b \in Aux : a <= b => 1 >= q.aux[a] /\ q.aux[a] >= q.aux[b]
    /\ q.retval = "none" => \A a \in Aux : q.aux[a] = 0
=============================================================================
