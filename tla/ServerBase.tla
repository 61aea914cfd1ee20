------------------------------ MODULE ServerBase ------------------------------
(***************************************************************************)
(* What the servers share: Application.process_request of                   *)
(* spyne/application.py, one call of user code between the method events,   *)
(* ServerBase of spyne/server/_base.py, and process_contexts of             *)
(* spyne/auxproc.                                                           *)
(*                                                                         *)
(* A context is a record.  The fields that a call of user code uses:        *)
(*   events   the method events fired for the context, in order            *)
(*   error    out_error: "none", the Fault user code raised ("Fault") or   *)
(*            the one made of any other exception ("Server")               *)
(*   object   out_object: is it a list, and the values it holds            *)
(*   many     whether the method is wrapped and declares several values    *)
(*   exc      the exception on its way up the stack, or "none"             *)
(*   raised   a record, for the properties only, of what went wrong: the   *)
(*            events whose listeners raised, and what a transport adds     *)
(* and those of one request to a server                                    *)
(*   others    the auxiliary contexts of the request, in their order        *)
(*   aux       how often each auxiliary method ran                          *)
(*   document  out_document, and string: out_string; "none", or whether it  *)
(*             holds the "result" or the "fault"; "empty" for (b'',)         *)
(*   closed    how often close() ran to its end                             *)
(*                                                                         *)
(* A context is private to its request, so that a call is a single step:    *)
(* each operator is a call, as the set of its outcomes.                     *)
(***************************************************************************)
EXTENDS SequencesExt, Naturals

CONSTANTS
    Returned,      \* what user code may return
    RaisingEvents  \* events with a listener that may raise

-----------------------------------------------------------------------------
(* Calls that may raise.  A call that runs to its end within one step of   *)
(* the model is the set of states it may leave behind.  The operators      *)
(* below are the sequence of such calls and the try block.                 *)

Exceptions == {"Redirect", "Fault", "Exception"}

Returns(s) == {s}
Raises(s, e) == {[s EXCEPT !.exc = e]}

\* What follows a call is skipped when the call raises.
Then(outcomes, Next(_)) ==
    UNION {IF s.exc = "none" THEN Next(s) ELSE {s} : s \in outcomes}

\* except caught: the handler starts with the exception cleared.
Except(outcomes, caught, Handler(_)) ==
    UNION {IF s.exc \in caught THEN Handler([s EXCEPT !.exc = "none"]) ELSE {s} :
           s \in outcomes}

\* The exception is logged and forgotten.
Logged(outcomes) == {[s EXCEPT !.exc = "none"] : s \in outcomes}

-----------------------------------------------------------------------------
(* Results of user code.                                                   *)

List(items) == [list |-> TRUE, items |-> items]
Bare(item) == [list |-> FALSE, items |-> <<item>>]
NoObject == Bare("none")

Values == Returned \cup {"none", "value"}
Objects == {NoObject, List(<<>>), List(<<"value", "value">>)}
             \cup {List(<<v>>) : v \in Values} \cup {Bare(v) : v \in Values}

NewContext(many) ==
    [exc |-> "none", events |-> <<>>, error |-> "none", object |-> NoObject,
     many |-> many, raised |-> {}]

Blame(c, what) == [c EXCEPT !.raised = @ \cup {what}]

FireEvent(c, event) ==
    LET fired == [c EXCEPT !.events = Append(@, event)]
    IN  {fired} \cup IF event \in RaisingEvents
                     THEN {[Blame(fired, event) EXCEPT !.exc = e] : e \in Exceptions}
                     ELSE {}

\* User code through the service class, or with the instance that __respawn__
\* finds; RespawnError and InvalidRequestError are Faults.  Without a
\* function there is nothing to call.
CallWrapper(c) ==
    {[c EXCEPT !.object = IF v = "value" /\ c.many
                          THEN List(<<"value", "value">>) ELSE Bare(v)] :
     v \in Values} \cup {[c EXCEPT !.exc = e] : e \in Exceptions}

\* A single return value is put in a list.
WrapObject(c) == [c EXCEPT !.object = IF c.many THEN @ ELSE List(@.items)]

ErrorObject(c, error, event) == FireEvent([c EXCEPT !.error = error], event)

\* e.do_redirect() is the protocol's and may fail.
OnRedirect(c) ==
    LET redirected == Returns(c) \cup Raises(c, "Exception")
        done == Then(redirected, LAMBDA d :
                     FireEvent([d EXCEPT !.object = List(<<"none">>)],
                               "method_redirect"))
    IN  Except(done, Exceptions, LAMBDA d :
               ErrorObject(d, "Server", "method_redirect_exception"))

ProcessRequest(c) ==
    LET called == Then(FireEvent(c, "method_call"), LAMBDA d : CallWrapper(d))
        returned == Then(called, LAMBDA d :
                         FireEvent(WrapObject(d), "method_return_object"))
    IN  UNION {CASE s.exc = "none" -> {s}
                 [] s.exc = "Redirect" -> OnRedirect([s EXCEPT !.exc = "none"])
                 [] OTHER -> ErrorObject([s EXCEPT !.exc = "none"],
                                 IF s.exc = "Fault" THEN "Fault" ELSE "Server",
                                 "method_exception_object") :
               s \in returned}

\* ServerBase.get_out_object: a method that returned Ignored.
Ignore(c) ==
    [c EXCEPT !.object = IF @.items = <<"ignored">>
                         THEN IF @.list THEN List(<<"none">>) ELSE List(<<>>)
                         ELSE @]

GetOutObject(c) == {IF s.exc = "none" THEN Ignore(s) ELSE s : s \in ProcessRequest(c)}

\* out_object[0]: an index error for an empty list, a type error for a value
\* that is no list.
First(c) == c.object.items[1]
HasFirst(c) == c.object.list /\ c.object.items # <<>>

-----------------------------------------------------------------------------
(* Servers.                                                                *)

CONSTANTS
    NAux,        \* auxiliary methods of the method
    AuxOnError,  \* those that process exceptions
    AuxRaising   \* those whose processing may raise

Aux == 1 .. NAux

ASSUME ServerBaseAssumption ==
    /\ NAux \in Nat
    /\ AuxOnError \subseteq Aux
    /\ AuxRaising \subseteq Aux

\* p with more fields.
WithFields(p, more) ==
    [f \in DOMAIN p \cup DOMAIN more |-> IF f \in DOMAIN p THEN p[f] ELSE more[f]]

NewRequest(many) ==
    WithFields(NewContext(many),
        [others |-> <<>>, aux |-> [a \in Aux |-> 0], document |-> "none",
         string |-> "none", closed |-> 0])

RequestOK(p) ==
    /\ p.exc \in Exceptions \cup {"none"}
    /\ p.error \in {"none", "Fault", "Server"}
    /\ p.object \in Objects
    /\ p.aux \in [Aux -> Nat]
    /\ {p.document, p.string} \subseteq {"none", "result", "fault", "empty"}
    /\ p.closed \in Nat

WentWrong(p, where) == p.raised \cap where # {}

\* generate_contexts and get_in_object.  A Fault is an error of the context,
\* in the first case one without auxiliary contexts.
Receive(p) ==
    LET faulty(c) == ErrorObject(c, "Fault", "method_exception_object")
        read == [p EXCEPT !.others = [i \in Aux |-> i]]
    IN  faulty(p) \cup faulty(read) \cup Returns(read) \cup Raises(p, "Exception")

Kind(p) == IF p.error = "none" THEN "result" ELSE "fault"

\* Without an out_stream: the transports that set one extend this.
\* Serialization may raise before there is a document, create_out_string
\* before there is a string, and a listener after it.  What is there already
\* is not made again.
GetOutString(p) ==
    LET kind == Kind(p)
        raising(c) == Raises(Blame(c, kind), "Exception") \cup Raises(Blame(c, kind), "Fault")
        document == IF p.document # "none" THEN {p}
                    ELSE {[p EXCEPT !.document = kind]} \cup raising(p)
    IN  IF p.string # "none" THEN {p}
        ELSE Then(document, LAMBDA c :
                  LET made == [c EXCEPT !.string = c.document]
                  IN  {made} \cup raising(made) \cup raising(c))

\* The methods of todo that come up to last in the order of the auxiliary
\* contexts have run.
Ran(p, todo, last) ==
    [p EXCEPT !.aux = [a \in Aux |-> IF a \in todo /\ a <= last THEN @[a] + 1 ELSE @[a]]]

\* What raises in an auxiliary context.
AuxRaises(p) == [Blame(p, "aux") EXCEPT !.exc = "Exception"]

\* process_contexts, a loop over the auxiliary contexts of the request: it comes
\* to its end or as far as the context that raises.
ProcessContexts(p, error) ==
    LET todo == {a \in ToSet(p.others) : error => a \in AuxOnError}
    IN  {Ran(p, todo, NAux)}
          \cup {AuxRaises(Ran(p, todo, a)) : a \in todo \cap AuxRaising}

\* MethodContext.close.
Close(p) ==
    Then(FireEvent(p, "method_context_closed"),
         LAMBDA c : {[c EXCEPT !.closed = @ + 1]})
=============================================================================
