----------------------------- MODULE DjangoServer -----------------------------
(***************************************************************************)
(* A request to DjangoServer.handle_rpc of spyne/server/django.py, which is  *)
(* one call from beginning to end.  Besides the fields of ServerBase's       *)
(* request the state has                                                    *)
(*   code   the response code, "none" for the 200 that is Django's default, *)
(*          "own" for one that user code set                                *)
(*   set    what user code set itself, the "code" or the "string" of the    *)
(*          response; for the properties only                               *)
(*   reply  what the HttpResponse holds, "none" until it is made            *)
(*   got    what the client got: "none" as yet, a document, or the "500"    *)
(*          page Django makes of an exception                               *)
(***************************************************************************)
EXTENDS ServerBase

VARIABLE q

NewView ==
    WithFields(NewRequest(FALSE), [code |-> "none", set |-> {}, reply |-> "none", got |-> "none"])

\* The context is closed in the try block of the auxiliary methods.
BadResponse(p, error) ==
    LET made == [p EXCEPT !.reply = p.string]
    IN  Logged(Then(ProcessContexts(made, error), Close))

\* An exception of an auxiliary method ends up in the log.
Response(p, error) ==
    Then(Logged(ProcessContexts([p EXCEPT !.reply = p.string], error)), Close)

\* The code is always that of the fault.
BadHandleError(p) ==
    LET coded == [p EXCEPT !.code = "error"]
    IN  Then(GetOutString(coded), LAMBDA c : Response(c, TRUE))

\* A code, document or string that is there already is kept: a method that set
\* the code and then raised has its fault sent with it, and a listener that
\* raises after the result was made has the result sent with the code of an
\* error.
HandleError(p) ==
    LET coded == [p EXCEPT !.code = IF @ = "none" THEN "error" ELSE @]
    IN  Then(GetOutString(coded), LAMBDA c : Response(c, TRUE))

OutString(p) ==
    Except({[c EXCEPT !.error = IF c.exc = "none" THEN @ ELSE "Server"] :
            c \in GetOutString(p)},
           Exceptions, HandleError)

\* User code may set transport.resp_code and out_string, whether it raises
\* afterwards or not; do_redirect sets both.
UserSets(p) ==
    {[p EXCEPT !.set = set,
               !.code = IF "code" \in set THEN "own" ELSE @,
               !.string = IF "string" \in set THEN "result" ELSE @] :
     set \in IF "method_redirect" \in ToSet(p.events) THEN {{"code", "string"}}
             ELSE SUBSET {"code", "string"}}

Called(p) == UNION {UserSets(c) : c \in GetOutObject(p)}

\* The auxiliary methods are processed as after a success.
BadHandleRpc(p) ==
    Then(Receive(p), LAMBDA c :
         LET called == IF c.error = "none" THEN Called(c) ELSE {c}
         IN  Then(called, LAMBDA d :
                  Then(GetOutString(d), LAMBDA e : Response(e, FALSE))))

\* An error is seen to after each step; the string is made in a try block that
\* the response is not part of.
HandleRpc(p) ==
    Then(Receive(p), LAMBDA c :
         LET called == IF c.error = "none" THEN Called(c) ELSE {c}
         IN  Then(called, LAMBDA d :
                  IF d.error # "none" THEN HandleError(d)
                  ELSE Then(OutString(d), LAMBDA e :
                            IF e.reply = "none" THEN Response(e, FALSE) ELSE {e})))

-----------------------------------------------------------------------------

Init == q = NewView

Handle ==
    /\ q.got = "none"
    /\ q' \in {[c EXCEPT !.exc = "none", !.got = IF c.exc = "none" THEN c.reply ELSE "500"] :
               c \in HandleRpc(q)}

Next == Handle

Spec == Init /\ [][Next]_q

-----------------------------------------------------------------------------

\* The code is the user's where there is one, else that of an error exactly when
\* the request failed; and a request that failed has its fault sent, unless
\* user code had made the response or something raised behind the result:
\* handle_error does not remake what is there.
RightCode ==
    q.got \in {"result", "fault"} =>
        /\ q.code = IF "code" \in q.set THEN "own"
                    ELSE IF q.error = "none" THEN "none" ELSE "error"
        /\ IF q.error = "none" THEN q.got = "result"
           ELSE q.got = "fault" \/ "string" \in q.set \/ WentWrong(q, {"result"})

\* A response that Django gets comes from a context that was closed, whatever
\* the auxiliary methods raised.  An exception that leaves handle_rpc leaves
\* the context open.
ClosedIfAnswered == q.closed = IF q.got \in {"result", "fault"} THEN 1 ELSE 0

\* After an error only the auxiliary methods that process exceptions run, and
\* none a second time when the response of the result is given up for a fault.
AuxRules ==
    \A a \in Aux : q.aux[a] <= IF q.error = "none" \/ a \in AuxOnError THEN 1 ELSE 0
=============================================================================
