-------------------------- MODULE ServerBaseProofs --------------------------
(* What the calls that servers share may change in a request.              *)
EXTENDS ServerBase, TLAPS

\* Of p only the fields in changed differ in c, and what went wrong is not
\* forgotten.
Kept(p, c, changed) ==
    /\ DOMAIN c = DOMAIN p
    /\ \A f \in DOMAIN p \ changed : c[f] = p[f]
    /\ p.raised \subseteq c.raised

Fields == {"exc", "events", "error", "object", "many", "raised", "others", "aux",
           "document", "string", "closed"}

\* A request whose call has not raised so far.
Running(p) == Fields \subseteq DOMAIN p /\ p.exc = "none"

LEMMA NewFields ==
    ASSUME NEW many
    PROVE  LET p == NewRequest(many)
           IN  /\ DOMAIN p = Fields
               /\ p.exc = "none" /\ p.events = <<>> /\ p.error = "none"
               /\ p.object = NoObject /\ p.many = many /\ p.raised = {}
               /\ p.others = <<>> /\ p.aux = [a \in Aux |-> 0]
               /\ p.document = "none" /\ p.string = "none" /\ p.closed = 0
  BY DEF NewRequest, NewContext, WithFields, Fields

\* w is p with the fields that a server adds.
Joined(w, p, more) ==
    /\ DOMAIN w = DOMAIN p \cup DOMAIN more
    /\ \A f \in DOMAIN p : w[f] = p[f]
    /\ \A f \in DOMAIN more \ DOMAIN p : w[f] = more[f]

LEMMA WithFieldsRule ==
    ASSUME NEW p, NEW more
    PROVE  Joined(WithFields(p, more), p, more)
  BY DEF WithFields, Joined

LEMMA FireRule ==
    ASSUME NEW p, Running(p), NEW event, NEW c \in FireEvent(p, event)
    PROVE  /\ Kept(p, c, {"exc", "events", "raised"})
           /\ c.exc \in Exceptions \cup {"none"}
           /\ c.exc # "none" => event \in c.raised
           /\ c.raised \subseteq p.raised \cup {event}
           /\ c.exc = "none" => c.raised = p.raised
<1> DEFINE d == [p EXCEPT !.events = Append(@, event)]
<1>1. Running(d) /\ Kept(p, d, {"events"}) /\ d.raised = p.raised
  BY DEF Running, Fields, Kept
<1>2. c = d \/ \E e \in Exceptions : c = [Blame(d, event) EXCEPT !.exc = e]
  BY DEF FireEvent
<1> HIDE DEF d
<1>3. CASE c = d
  BY <1>1, <1>3 DEF Running, Kept
<1>4. ASSUME NEW e \in Exceptions, c = [Blame(d, event) EXCEPT !.exc = e]
      PROVE  /\ Kept(d, c, {"exc", "raised"})
             /\ c.exc = e /\ e # "none" /\ c.raised = d.raised \cup {event}
  BY <1>1, <1>4 DEF Running, Fields, Kept, Blame, Exceptions
<1> QED
  BY <1>1, <1>2, <1>3, <1>4 DEF Kept

LEMMA ErrorRule ==
    ASSUME NEW p, Running(p), NEW error, NEW event, NEW c \in ErrorObject(p, error, event)
    PROVE  /\ Kept(p, c, {"exc", "events", "raised", "error"})
           /\ c.error = error
           /\ c.exc \in Exceptions \cup {"none"}
           /\ c.exc # "none" => event \in c.raised
           /\ c.raised \subseteq p.raised \cup {event}
           /\ c.exc = "none" => c.raised = p.raised
<1> DEFINE d == [p EXCEPT !.error = error]
<1>1. Running(d) /\ d.error = error /\ Kept(p, d, {"error"}) /\ d.raised = p.raised
  BY DEF Running, Fields, Kept
<1>2. c \in FireEvent(d, event)
  BY DEF ErrorObject
<1> HIDE DEF d
<1> QED
  BY <1>1, <1>2, FireRule DEF Kept, Running, Fields

\* Only what user code returns and wraps is ever an object.
LEMMA CallRule ==
    ASSUME NEW p, Running(p), NEW c \in CallWrapper(p)
    PROVE  /\ Kept(p, c, {"exc", "object"})
           /\ c.exc \in Exceptions \cup {"none"}
           /\ p.object \in Objects => c.object \in Objects
           /\ c.exc = "none" /\ ~c.many => \E v \in Values : c.object = Bare(v)
<1> DEFINE Put(o) == [p EXCEPT !.object = o]
<1>1. \A o : Kept(p, Put(o), {"object"}) /\ Put(o).exc = "none" /\ Put(o).object = o
                /\ Put(o).many = p.many
  BY DEF Running, Fields, Kept
<1>2. \/ \E v \in Values : c = Put(IF v = "value" /\ p.many
                                   THEN List(<<"value", "value">>) ELSE Bare(v))
      \/ \E e \in Exceptions : c = [p EXCEPT !.exc = e]
  BY DEF CallWrapper
<1>3. ASSUME NEW v \in Values,
             c = Put(IF v = "value" /\ p.many THEN List(<<"value", "value">>) ELSE Bare(v))
      PROVE  /\ Kept(p, c, {"object"}) /\ c.exc = "none" /\ c.object \in Objects
             /\ ~c.many => c.object = Bare(v)
  <2>1. Bare(v) \in Objects /\ List(<<"value", "value">>) \in Objects
    BY DEF Objects
  <2> HIDE DEF Put
  <2> QED
    BY <1>1, <1>3, <2>1
<1>4. ASSUME NEW e \in Exceptions, c = [p EXCEPT !.exc = e]
      PROVE  Kept(p, c, {"exc"}) /\ c.exc = e /\ c.object = p.object /\ e # "none"
  BY <1>4 DEF Running, Fields, Kept, Exceptions
<1> HIDE DEF Put
<1> QED
  BY <1>2, <1>3, <1>4 DEF Kept

LEMMA WrapRule ==
    ASSUME NEW p, Running(p), p.object \in Objects,
           ~p.many => \E v \in Values : p.object = Bare(v)
    PROVE  Kept(p, WrapObject(p), {"object"}) /\ WrapObject(p).object \in Objects
<1>1. \A v \in Values : List(Bare(v).items) \in Objects
  BY DEF Objects, Bare, List
<1> QED
  BY <1>1 DEF WrapObject, Running, Fields, Kept

LEMMA RedirectRule ==
    ASSUME NEW p, Running(p), p.object \in Objects, p.error = "none", NEW c \in OnRedirect(p)
    PROVE  /\ Kept(p, c, {"exc", "events", "error", "object", "raised"})
           /\ c.exc \in Exceptions \cup {"none"}
           /\ c.error \in {"none", "Server"}
           /\ c.object \in Objects
<1> DEFINE Changed == {"exc", "events", "object", "raised"}
           redirected == Returns(p) \cup Raises(p, "Exception")
           to(d) == [d EXCEPT !.object = List(<<"none">>)]
           done == UNION {IF s.exc = "none" THEN FireEvent(to(s), "method_redirect") ELSE {s} :
                          s \in redirected}
<1>1. ASSUME NEW d \in done
      PROVE  Kept(p, d, Changed) /\ d.exc \in Exceptions \cup {"none"} /\ d.object \in Objects
  <2>1. \/ d \in FireEvent(to(p), "method_redirect")
        \/ d = [p EXCEPT !.exc = "Exception"]
    BY DEF Returns, Raises, Running, Fields
  <2>2. Running(to(p)) /\ Kept(p, to(p), {"object"}) /\ to(p).object \in Objects
    BY DEF Running, Fields, Kept, Objects, Values
  <2>3. CASE d \in FireEvent(to(p), "method_redirect")
    <3> HIDE DEF to
    <3> QED
      BY <2>2, <2>3, FireRule DEF Kept, Running, Fields
  <2>4. CASE d = [p EXCEPT !.exc = "Exception"]
    BY <2>4 DEF Kept, Running, Fields, Exceptions
  <2> QED
    BY <2>1, <2>3, <2>4
<1>2. \/ c \in done
      \/ \E d \in done : c \in ErrorObject([d EXCEPT !.exc = "none"], "Server",
                                           "method_redirect_exception")
  BY DEF OnRedirect, Except, Then
<1> HIDE DEF done
<1>3. CASE c \in done
  BY <1>1, <1>3 DEF Kept, Running, Fields
<1>4. ASSUME NEW d \in done,
             c \in ErrorObject([d EXCEPT !.exc = "none"], "Server", "method_redirect_exception")
      PROVE  /\ Kept(p, c, {"exc", "events", "error", "object", "raised"})
             /\ c.exc \in Exceptions \cup {"none"}
             /\ c.error = "Server"
             /\ c.object \in Objects
  <2> DEFINE e == [d EXCEPT !.exc = "none"]
  <2>1. Running(e) /\ Kept(p, e, Changed) /\ e.object \in Objects
    BY <1>1 DEF Kept, Running, Fields
  <2> HIDE DEF e
  <2>2. c \in ErrorObject(e, "Server", "method_redirect_exception")
    BY <1>4 DEF e
  <2> QED
    BY <2>1, <2>2, ErrorRule DEF Kept, Running, Fields
<1> QED
  BY <1>2, <1>3, <1>4

\* The call ends with a result, an error, or the exception of a listener.
LEMMA ProcessRequestRule ==
    ASSUME NEW p, Running(p), p.object \in Objects, p.error = "none",
           NEW c \in ProcessRequest(p)
    PROVE  /\ Kept(p, c, {"exc", "events", "error", "object", "raised"})
           /\ c.exc \in Exceptions \cup {"none"}
           /\ c.error \in {"none", "Fault", "Server"}
           /\ c.object \in Objects
<1> DEFINE Changed == {"exc", "events", "object", "raised"}
           called == UNION {IF s.exc = "none" THEN CallWrapper(s) ELSE {s} :
                            s \in FireEvent(p, "method_call")}
           returned == UNION {IF s.exc = "none"
                              THEN FireEvent(WrapObject(s), "method_return_object")
                              ELSE {s} : s \in called}
           cleared(s) == [s EXCEPT !.exc = "none"]
<1>1. ASSUME NEW d \in called
      PROVE  /\ Kept(p, d, Changed) /\ d.exc \in Exceptions \cup {"none"}
             /\ d.object \in Objects
             /\ d.exc = "none" /\ ~d.many => \E v \in Values : d.object = Bare(v)
  <2>1. PICK s \in FireEvent(p, "method_call") :
            d \in IF s.exc = "none" THEN CallWrapper(s) ELSE {s}
    OBVIOUS
  <2>2. Kept(p, s, {"exc", "events", "raised"}) /\ s.exc \in Exceptions \cup {"none"}
    BY <2>1, FireRule
  <2>3. s.object \in Objects
    BY <2>2 DEF Kept, Running, Fields
  <2>4. CASE s.exc = "none"
    <3>1. Running(s) /\ d \in CallWrapper(s)
      BY <2>1, <2>2, <2>4 DEF Kept, Running, Fields
    <3> QED
      BY <2>2, <2>3, <3>1, CallRule DEF Kept, Running, Fields
  <2>5. CASE s.exc # "none"
    BY <2>1, <2>2, <2>3, <2>5 DEF Kept, Running, Fields
  <2> QED
    BY <2>4, <2>5
<1>2. ASSUME NEW d \in returned
      PROVE  /\ Kept(p, d, Changed) /\ d.exc \in Exceptions \cup {"none"}
             /\ d.object \in Objects
  <2>1. PICK s \in called :
            d \in IF s.exc = "none" THEN FireEvent(WrapObject(s), "method_return_object")
                  ELSE {s}
    OBVIOUS
  <2> HIDE DEF called
  <2>2. /\ Kept(p, s, Changed) /\ s.exc \in Exceptions \cup {"none"}
        /\ s.object \in Objects
        /\ s.exc = "none" /\ ~s.many => \E v \in Values : s.object = Bare(v)
    BY <1>1
  <2>3. CASE s.exc = "none"
    <3>1. Running(s) /\ d \in FireEvent(WrapObject(s), "method_return_object")
      BY <2>1, <2>2, <2>3 DEF Kept, Running, Fields
    <3>2. Kept(s, WrapObject(s), {"object"}) /\ WrapObject(s).object \in Objects
      BY <2>2, <2>3, <3>1, WrapRule
    <3>3. Running(WrapObject(s))
      BY <3>1, <3>2 DEF Kept, Running, Fields
    <3> QED
      BY <2>2, <3>1, <3>2, <3>3, FireRule DEF Kept, Running, Fields
  <2>4. CASE s.exc # "none"
    BY <2>1, <2>2, <2>4
  <2> QED
    BY <2>3, <2>4
<1>3. PICK s \in returned :
          c \in CASE s.exc = "none" -> {s}
                  [] s.exc = "Redirect" -> OnRedirect(cleared(s))
                  [] OTHER -> ErrorObject(cleared(s),
                                  IF s.exc = "Fault" THEN "Fault" ELSE "Server",
                                  "method_exception_object")
  BY DEF ProcessRequest, Then
<1> HIDE DEF returned
<1>4. Kept(p, s, Changed) /\ s.exc \in Exceptions \cup {"none"} /\ s.object \in Objects
  BY <1>2
<1>5. /\ Running(cleared(s)) /\ Kept(p, cleared(s), Changed)
      /\ cleared(s).object \in Objects /\ cleared(s).error = "none"
  BY <1>4 DEF Kept, Running, Fields
<1> HIDE DEF cleared
<1>6. CASE s.exc = "none"
  BY <1>3, <1>4, <1>6 DEF Kept, Running, Fields
<1>7. CASE s.exc = "Redirect"
  <2>1. c \in OnRedirect(cleared(s))
    BY <1>3, <1>7
  <2> QED
    BY <1>5, <2>1, RedirectRule DEF Kept
<1>8. CASE s.exc \notin {"none", "Redirect"}
  <2>1. PICK error \in {"Fault", "Server"} :
            c \in ErrorObject(cleared(s), error, "method_exception_object")
    BY <1>3, <1>8
  <2> QED
    BY <1>5, <2>1, ErrorRule DEF Kept, Running, Fields
<1> QED
  BY <1>6, <1>7, <1>8

LEMMA GetOutObjectRule ==
    ASSUME NEW p, Running(p), p.object \in Objects, p.error = "none",
           NEW c \in GetOutObject(p)
    PROVE  /\ Kept(p, c, {"exc", "events", "error", "object", "raised"})
           /\ c.exc \in Exceptions \cup {"none"}
           /\ c.error \in {"none", "Fault", "Server"}
           /\ c.object \in Objects
<1>1. PICK s \in ProcessRequest(p) : c = s \/ c = Ignore(s)
  BY DEF GetOutObject
<1>2. /\ Kept(p, s, {"exc", "events", "error", "object", "raised"})
      /\ s.exc \in Exceptions \cup {"none"}
      /\ s.error \in {"none", "Fault", "Server"}
      /\ s.object \in Objects
  BY ProcessRequestRule
<1>3. Kept(s, Ignore(s), {"object"}) /\ Ignore(s).object \in Objects
  BY <1>2 DEF Ignore, Kept, Running, Fields, Objects, Values
<1> QED
  BY <1>1, <1>2, <1>3 DEF Kept, Running, Fields

LEMMA ReceiveRule ==
    ASSUME NEW p, Running(p), p.others = <<>>, NEW c \in Receive(p)
    PROVE  /\ Kept(p, c, {"exc", "events", "error", "raised", "others"})
           /\ c.exc \in Exceptions \cup {"none"}
           /\ c.error \in {p.error, "Fault"}
           /\ c.others \in {<<>>, [i \in Aux |-> i]}
<1> DEFINE read == [p EXCEPT !.others = [i \in Aux |-> i]]
<1>1. Running(read) /\ Kept(p, read, {"others"}) /\ read.others = [i \in Aux |-> i]
  BY DEF Kept, Running, Fields
<1>2. \/ c \in ErrorObject(p, "Fault", "method_exception_object")
      \/ c \in ErrorObject(read, "Fault", "method_exception_object")
      \/ c = read
      \/ c = [p EXCEPT !.exc = "Exception"]
  BY DEF Receive, Returns, Raises
<1> HIDE DEF read
<1>3. CASE c \in ErrorObject(p, "Fault", "method_exception_object")
  BY <1>3, ErrorRule DEF Kept, Running, Fields
<1>4. CASE c \in ErrorObject(read, "Fault", "method_exception_object")
  BY <1>1, <1>4, ErrorRule DEF Kept, Running, Fields
<1>5. CASE c = read
  BY <1>1, <1>5 DEF Kept, Running, Fields
<1>6. CASE c = [p EXCEPT !.exc = "Exception"]
  BY <1>6 DEF Kept, Running, Fields, Exceptions
<1> QED
  BY <1>2, <1>3, <1>4, <1>5, <1>6

\* A document is of the kind that the context asks for when it is made; a string
\* is made of the document.
LEMMA GetOutStringRule ==
    ASSUME NEW p, Running(p), NEW c \in GetOutString(p)
    PROVE  /\ Kept(p, c, {"exc", "document", "string", "raised"})
           /\ c.exc \in {"none", "Fault", "Exception"}
           /\ c.exc # "none" => Kind(p) \in c.raised
           /\ c.exc = "none" => c.raised = p.raised
           /\ c.document = p.document \/ (p.document = "none" /\ c.document = Kind(p))
           /\ c.string = p.string \/ (p.string = "none" /\ c.string = c.document)
           /\ p.string # "none" => c = p
           /\ c.exc = "none" => c.string # "none"
<1> DEFINE kind == Kind(p)
           raising(d) == Raises(Blame(d, kind), "Exception")
                           \cup Raises(Blame(d, kind), "Fault")
           documents == IF p.document # "none" THEN {p}
                        ELSE {[p EXCEPT !.document = kind]} \cup raising(p)
           made(d) == [d EXCEPT !.string = d.document]
<1>1. CASE p.string # "none"
  <2>1. c = p
    BY <1>1 DEF GetOutString
  <2> QED
    BY <1>1, <2>1 DEF Kept, Running
<1>2. CASE p.string = "none"
  <2>1. \A d, e : Running(d) /\ e \in raising(d) =>
            /\ Kept(d, e, {"exc", "raised"}) /\ kind \in e.raised
            /\ e.exc \in {"Fault", "Exception"}
    <3> SUFFICES ASSUME NEW d, NEW e, Running(d), e \in raising(d)
                 PROVE  /\ Kept(d, e, {"exc", "raised"}) /\ kind \in e.raised
                        /\ e.exc \in {"Fault", "Exception"}
      OBVIOUS
    <3>1. \/ e = [Blame(d, kind) EXCEPT !.exc = "Exception"]
          \/ e = [Blame(d, kind) EXCEPT !.exc = "Fault"]
      BY DEF Raises
    <3> HIDE DEF kind, raising, documents, made
    <3>2. {"exc", "raised"} \subseteq DOMAIN d
      BY DEF Running, Fields
    <3> QED
      BY <3>1, <3>2 DEF Blame, Kept
  <2>2. \A d : Running(d) =>
            Kept(d, made(d), {"string"}) /\ Running(made(d)) /\ made(d).string = d.document
    BY DEF Kept, Running, Fields
  <2>3. PICK d \in documents :
            IF d.exc = "none" THEN c = made(d) \/ c \in raising(made(d)) \/ c \in raising(d)
            ELSE c = d
    BY <1>2 DEF GetOutString, Then, Kind
  <2>4. \/ Running(d) /\ Kept(p, d, {"document"}) /\ d.document # "none"
           /\ (d.document = p.document \/ (p.document = "none" /\ d.document = kind))
           /\ d.raised = p.raised
        \/ d \in raising(p)
    <3>1. kind # "none"
      BY DEF Kind
    <3> HIDE DEF kind, raising
    <3> QED
      BY <3>1 DEF Kept, Running, Fields
  <2> HIDE DEF kind, raising, documents, made
  <2>5. CASE d \in raising(p)
    BY <1>2, <2>1, <2>3, <2>5 DEF Kept, Running, Fields, kind
  <2>6. CASE d \notin raising(p) /\ c = made(d)
    BY <1>2, <2>2, <2>4, <2>6 DEF Kept, Running, Fields, kind
  <2>7. CASE d \notin raising(p) /\ c \in raising(made(d))
    BY <1>2, <2>1, <2>2, <2>4, <2>7 DEF Kept, Running, Fields, kind
  <2>8. CASE d \notin raising(p) /\ c \in raising(d)
    BY <1>2, <2>1, <2>4, <2>8 DEF Kept, Running, Fields, kind
  <2> QED
    BY <2>3, <2>4, <2>5, <2>6, <2>7, <2>8 DEF Running
<1> QED
  BY <1>1, <1>2

LEMMA CloseRule ==
    ASSUME NEW p, Running(p), NEW c \in Close(p)
    PROVE  /\ Kept(p, c, {"exc", "events", "raised", "closed"})
           /\ c.exc \in Exceptions \cup {"none"}
           /\ c.exc # "none" => "method_context_closed" \in c.raised /\ c.closed = p.closed
           /\ c.exc = "none" => c.closed = p.closed + 1 /\ c.raised = p.raised
<1>1. PICK s \in FireEvent(p, "method_context_closed") :
          c = IF s.exc = "none" THEN [s EXCEPT !.closed = @ + 1] ELSE s
  BY DEF Close, Then
<1>2. /\ Kept(p, s, {"exc", "events", "raised"})
      /\ s.exc \in Exceptions \cup {"none"}
      /\ s.exc # "none" => "method_context_closed" \in s.raised
      /\ s.exc = "none" => s.raised = p.raised
  BY FireRule
<1> QED
  BY <1>1, <1>2 DEF Kept, Running, Fields

\* The methods in todo run at most once, those before one that has run as well.
LEMMA RanRule ==
    ASSUME NEW p, Running(p), p.aux \in [Aux -> Nat], NEW todo, NEW last \in Nat
    PROVE  LET c == Ran(p, todo, last)
           IN  /\ Running(c) /\ Kept(p, c, {"aux"}) /\ c.raised = p.raised
               /\ c.aux \in [Aux -> Nat]
               /\ \A a \in Aux : c.aux[a] = IF a \in todo /\ a <= last THEN p.aux[a] + 1
                                            ELSE p.aux[a]
  BY DEF Ran, Kept, Running, Fields

LEMMA AuxRaisesRule ==
    ASSUME NEW p, Running(p)
    PROVE  /\ Kept(p, AuxRaises(p), {"exc", "raised"})
           /\ AuxRaises(p).exc = "Exception" /\ "aux" \in AuxRaises(p).raised
  BY DEF AuxRaises, Blame, Kept, Running, Fields

\* A method runs once more, if at all.  All of them have when nothing raised,
\* but those that do not process exceptions never do after an error.
LEMMA ContextsRule ==
    ASSUME NEW p, Running(p), p.aux \in [Aux -> Nat], NEW error \in BOOLEAN,
           p.others \in {<<>>, [i \in Aux |-> i]},
           NEW c \in ProcessContexts(p, error)
    PROVE  /\ Kept(p, c, {"exc", "raised", "aux"})
           /\ c.exc \in {"none", "Exception"}
           /\ c.exc = "none" => c.raised = p.raised
           /\ c.exc # "none" => "aux" \in c.raised
           /\ c.aux \in [Aux -> Nat]
           /\ \A a \in Aux : c.aux[a] \in {p.aux[a], p.aux[a] + 1}
           /\ error => \A a \in Aux \ AuxOnError : c.aux[a] = p.aux[a]
           /\ p.others = <<>> => c.aux = p.aux
           /\ c.exc = "none" /\ ~error /\ p.others # <<>> =>
                  \A a \in Aux : c.aux[a] = p.aux[a] + 1
<1> DEFINE todo == {a \in ToSet(p.others) : error => a \in AuxOnError}
<1>1. NAux \in Nat /\ Aux = 1 .. NAux
  BY ServerBaseAssumption DEF Aux
<1>2. ToSet(p.others) \subseteq Aux
  BY DEF ToSet
<1>3. p.others = <<>> => todo = {}
  BY DEF ToSet
<1>4. p.others # <<>> => ToSet(p.others) = Aux
  BY DEF ToSet
<1>5. \/ c = Ran(p, todo, NAux)
      \/ \E a \in todo : c = AuxRaises(Ran(p, todo, a))
  BY DEF ProcessContexts
<1>6. /\ todo \subseteq Aux
      /\ error => todo \cap (Aux \ AuxOnError) = {}
      /\ ~error /\ p.others # <<>> => todo = Aux
  BY <1>2, <1>4
<1> HIDE DEF todo
<1>7. PICK last \in Nat :
          /\ c = Ran(p, todo, last) \/ c = AuxRaises(Ran(p, todo, last))
          /\ c = AuxRaises(Ran(p, todo, last)) \/ last = NAux
  <2>1. NAux \in Nat /\ \A a \in todo : a \in Nat
    BY <1>1, <1>6
  <2>2. CASE c = Ran(p, todo, NAux)
    BY <2>1, <2>2
  <2>3. ASSUME NEW a \in todo, c = AuxRaises(Ran(p, todo, a))
        PROVE  \E last \in Nat : c = AuxRaises(Ran(p, todo, last))
    BY <2>1, <2>3
  <2> QED
    BY <1>5, <2>2, <2>3
<1> DEFINE d == Ran(p, todo, last)
<1>8. /\ Running(d) /\ Kept(p, d, {"aux"}) /\ d.raised = p.raised
      /\ d.aux \in [Aux -> Nat]
      /\ \A a \in Aux : d.aux[a] = IF a \in todo /\ a <= last THEN p.aux[a] + 1
                                   ELSE p.aux[a]
  BY RanRule
<1> HIDE DEF d
<1>9. /\ p.others = <<>> => d.aux = p.aux
      /\ error => \A a \in Aux \ AuxOnError : d.aux[a] = p.aux[a]
      /\ ~error /\ p.others # <<>> /\ last = NAux => \A a \in Aux : d.aux[a] = p.aux[a] + 1
  <2>1. p.others = <<>> => d.aux = p.aux
    BY <1>3, <1>8
  <2>2. \A a \in Aux : a <= NAux
    BY <1>1
  <2> QED
    BY <1>6, <1>8, <2>1, <2>2
<1>10. c = d \/ (Kept(d, c, {"exc", "raised"}) /\ c.exc = "Exception" /\ "aux" \in c.raised)
  BY <1>7, <1>8, AuxRaisesRule DEF d
<1>11. c = d => last = NAux
  BY <1>7, <1>8, AuxRaisesRule DEF Running, d
<1> QED
  BY <1>8, <1>9, <1>10, <1>11 DEF Kept, Running, Fields
=============================================================================
