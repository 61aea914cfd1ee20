---------------------------- MODULE ServersProofs ----------------------------
(* Proofs about the other servers.                                         *)
EXTENDS Servers, ServerBaseProofs, FiniteSetTheorems, TLAPS

\* What a set has at most one element of, has at most one.
LEMMA AtMostOne ==
    ASSUME NEW S, \A x, y \in S : x = y
    PROVE  Cardinality(S) <= 1
<1>1. CASE S = {}
  BY <1>1, FS_EmptySet
<1>2. ASSUME NEW x \in S
      PROVE  Cardinality(S) <= 1
  <2>1. S = {x}
    BY <1>2
  <2> QED
    BY <2>1, FS_Singleton
<1> QED
  BY <1>1, <1>2

-----------------------------------------------------------------------------
(* The clients of the websocket server.                                    *)

\* A client has one entry at most, made when it connected.  The entry under a
\* client's own id is its own, until it leaves.
RegistryInv ==
    /\ state \in [Client -> {"new", "open", "lost"}]
    /\ DOMAIN app_id = Client
    /\ \A c \in Client : app_id[c] \in Name \cup {c}
    /\ DOMAIN clients \subseteq Client \cup Name
    /\ \A i \in DOMAIN clients : clients[i] \in Client /\ state[clients[i]] # "new"
    /\ \A i, j \in DOMAIN clients : clients[i] = clients[j] => i = j
    /\ \A i \in DOMAIN clients : i \in Client => clients[i] = i /\ state[i] = "open"
    /\ \A c \in Client :
           state[c] = "open" /\ c \notin taken => \E i \in DOMAIN clients : clients[i] = c

LEMMA RegistryInit == Clients!Init => RegistryInv
  BY DEF Clients!Init, RegistryInv

LEMMA ConnectionMadeStep ==
    ASSUME RegistryInv, NEW c \in Client, Clients!ConnectionMade(c)
    PROVE  RegistryInv'
<1> DEFINE id == app_id[c]
<1>1. /\ state[c] = "new" /\ state' = [state EXCEPT ![c] = "open"]
      /\ DOMAIN clients' = DOMAIN clients \cup {id}
      /\ clients'[id] = c
      /\ \A i \in DOMAIN clients \ {id} : clients'[i] = clients[i]
      /\ taken' = taken \cup Clients!Evicted(id)
      /\ app_id' = app_id
  BY DEF Clients!ConnectionMade, Clients!With
<1>2. id \in Name \cup {c}
  BY DEF RegistryInv
<1>3. Client \cap Name = {}
  BY ServersAssumption DEF ServersAssumption
<1>4. \A i \in DOMAIN clients : clients[i] # c
  BY <1>1 DEF RegistryInv
<1>5. id \in DOMAIN clients => clients[id] \in taken'
  BY <1>1 DEF Clients!Evicted
<1> HIDE DEF id
<1> QED
  BY <1>1, <1>2, <1>3, <1>4, <1>5 DEF RegistryInv

LEMMA SetAppIdStep ==
    ASSUME RegistryInv, NEW c \in Client, NEW what \in Name, Clients!SetAppId(c, what)
    PROVE  RegistryInv'
<1>3. Client \cap Name = {}
  BY ServersAssumption DEF ServersAssumption
<1>1. state' = state /\ app_id' = [app_id EXCEPT ![c] = what]
  BY DEF Clients!SetAppId
<1>2. CASE app_id[c] \in DOMAIN clients
  <2> DEFINE id == app_id[c]
             d == clients[id]
  <2>1. /\ DOMAIN clients' = (DOMAIN clients \ {id}) \cup {what}
        /\ clients'[what] = d
        /\ \A i \in DOMAIN clients \ {id, what} : clients'[i] = clients[i]
        /\ taken' = taken \cup (Clients!Evicted(what) \ {d})
    BY <1>2 DEF Clients!SetAppId, Clients!With, Clients!Without, Clients!Restrict
  <2>2. what \in DOMAIN clients /\ clients[what] # d => clients[what] \in taken'
    BY <2>1 DEF Clients!Evicted
  <2>3. id \in DOMAIN clients /\ d = clients[id]
    BY <1>2
  <2> HIDE DEF id, d
  <2> QED
    BY <1>1, <1>3, <2>1, <2>2, <2>3 DEF RegistryInv
<1>4. CASE app_id[c] \notin DOMAIN clients
  BY <1>1, <1>4 DEF Clients!SetAppId, RegistryInv
<1> QED
  BY <1>2, <1>4

LEMMA ConnectionLostStep ==
    ASSUME RegistryInv, NEW c \in Client, Clients!ConnectionLost(c)
    PROVE  RegistryInv'
<1>1. /\ state' = [state EXCEPT ![c] = "lost"] /\ UNCHANGED <<app_id, taken>>
      /\ DOMAIN clients' = DOMAIN clients \ {c}
      /\ \A i \in DOMAIN clients' : clients'[i] = clients[i]
  BY DEF Clients!ConnectionLost, Clients!Without, Clients!Restrict
<1> QED
  BY <1>1 DEF RegistryInv

\* A client whose entry goes has left or is one whose name was taken.
LEMMA EntryKept ==
    ASSUME RegistryInv, NEW c \in Client,
           \/ Clients!ConnectionMade(c)
           \/ \E what \in Name : Clients!SetAppId(c, what)
           \/ Clients!ConnectionLost(c),
           NEW d \in Client, d \in Range(clients), d \notin Range(clients')
    PROVE  state'[d] = "lost" \/ d \in taken'
<1>1. PICK i \in DOMAIN clients : clients[i] = d
  BY DEF Range
<1>2. \A j \in DOMAIN clients' : clients'[j] # d
  BY DEF Range
<1>3. CASE Clients!ConnectionMade(c)
  BY <1>1, <1>2, <1>3 DEF Clients!ConnectionMade, Clients!With, Clients!Evicted
<1>4. ASSUME NEW what \in Name, Clients!SetAppId(c, what)
      PROVE  d \in taken'
  <2>1. app_id[c] \in DOMAIN clients
    BY <1>1, <1>2, <1>4 DEF Clients!SetAppId
  <2>2. /\ DOMAIN clients' = (DOMAIN clients \ {app_id[c]}) \cup {what}
        /\ clients'[what] = clients[app_id[c]]
        /\ \A j \in DOMAIN clients \ {app_id[c], what} : clients'[j] = clients[j]
        /\ taken' = taken \cup (Clients!Evicted(what) \ {clients[app_id[c]]})
    BY <1>4, <2>1 DEF Clients!SetAppId, Clients!With, Clients!Without, Clients!Restrict
  <2> QED
    BY <1>1, <1>2, <2>1, <2>2 DEF Clients!Evicted
<1>5. CASE Clients!ConnectionLost(c)
  <2>1. i = c
    BY <1>1, <1>2, <1>5 DEF Clients!ConnectionLost, Clients!Without, Clients!Restrict
  <2> QED
    BY <1>1, <1>5, <2>1 DEF Clients!ConnectionLost, RegistryInv
<1> QED
  BY <1>3, <1>4, <1>5

LEMMA RegistryStep == RegistryInv /\ [Next]_vars => RegistryInv'
<1> SUFFICES ASSUME RegistryInv, [Next]_vars
             PROVE  RegistryInv'
  OBVIOUS
<1>1. CASE ClientsStep
  BY <1>1, ConnectionMadeStep, SetAppIdStep, ConnectionLostStep
  DEF ClientsStep, Clients!Next
<1>2. CASE UNCHANGED registry
  BY <1>2 DEF registry, RegistryInv
<1> QED
  BY <1>1, <1>2
  DEF Next, vars, NullStep, DjangoStep, SocketReceives, SocketFires, Arrives, Works

LEMMA KeptStep ==
    RegistryInv /\ [Next]_vars =>
        [\A c \in Client :
             c \in Range(clients) /\ c \notin Range(clients)' =>
                 state'[c] = "lost" \/ c \in taken']_registry
<1> SUFFICES ASSUME RegistryInv, [Next]_vars, registry' # registry,
                    NEW d \in Client, d \in Range(clients), d \notin Range(clients)'
             PROVE  state'[d] = "lost" \/ d \in taken'
  OBVIOUS
<1>1. CASE ClientsStep
  BY <1>1, EntryKept DEF ClientsStep, Clients!Next
<1>2. CASE UNCHANGED registry
  BY <1>2
<1> QED
  BY <1>1, <1>2
  DEF Next, vars, NullStep, DjangoStep, SocketReceives, SocketFires, Arrives, Works

\* What is propagated reaches every client that is connected and still has its
\* name, the entries that are left behind are named, and nobody but the client
\* itself and a namesake removes an entry.
THEOREM ClientsCorrect == FairSpec => ClientsContract
<1>1. Init => RegistryInv
  BY RegistryInit DEF Init
<1>2. RegistryInv => Clients!Reached /\ Clients!StaleHasName
  <2> SUFFICES ASSUME RegistryInv
               PROVE  Clients!Reached /\ Clients!StaleHasName
    OBVIOUS
  <2>1. ASSUME NEW c \in Client
        PROVE  LET entries == {i \in DOMAIN clients : clients[i] = c}
               IN  /\ \A i, j \in entries : i = j
                   /\ state[c] = "open" /\ c \notin taken => entries # {}
    BY DEF RegistryInv
  <2>2. Clients!StaleHasName
    BY DEF RegistryInv, Clients!StaleHasName
  <2> QED
    BY <2>1, <2>2 DEF Clients!Reached
<1> QED
  BY <1>1, <1>2, RegistryStep, KeptStep, PTL DEF FairSpec, ClientsContract, ClientsKept

-----------------------------------------------------------------------------
(* The Django server.                                                      *)

\* What the server shares with the others is the same here.
LEMMA DjangoSame ==
    ASSUME NEW p, NEW error
    PROVE  /\ Django!Receive(p) = Receive(p)
           /\ Django!GetOutObject(p) = GetOutObject(p)
           /\ Django!GetOutString(p) = GetOutString(p)
           /\ Django!ProcessContexts(p, error) = ProcessContexts(p, error)
           /\ Django!Close(p) = Close(p)
<1>1. Django!Receive(p) = Receive(p)
  BY DEF Receive, ErrorObject, FireEvent, Blame, Returns, Raises, Aux, Exceptions,
         Django!Receive, Django!ErrorObject, Django!FireEvent, Django!Blame,
         Django!Returns, Django!Raises, Django!Aux, Django!Exceptions
<1>2. Django!GetOutObject(p) = GetOutObject(p)
  BY DEF GetOutObject, ProcessRequest, Ignore, OnRedirect, ErrorObject, WrapObject,
         CallWrapper, FireEvent, Blame, List, Bare, Values, Then, Except, Returns, Raises,
         Exceptions, Django!GetOutObject, Django!ProcessRequest, Django!Ignore,
         Django!OnRedirect, Django!ErrorObject, Django!WrapObject, Django!CallWrapper,
         Django!FireEvent, Django!Blame, Django!List, Django!Bare, Django!Values,
         Django!Then, Django!Except, Django!Returns, Django!Raises, Django!Exceptions
<1>3. Django!GetOutString(p) = GetOutString(p)
  BY DEF GetOutString, Kind, Then, Raises, Blame,
         Django!GetOutString, Django!Kind, Django!Then, Django!Raises, Django!Blame
<1>4. Django!ProcessContexts(p, error) = ProcessContexts(p, error)
  BY DEF ProcessContexts, Ran, AuxRaises, Blame, Aux, ToSet, Django!ProcessContexts,
         Django!Ran, Django!AuxRaises, Django!Blame, Django!Aux, Django!ToSet
<1>5. Django!Close(p) = Close(p)
  BY DEF Close, Then, FireEvent, Blame, Exceptions,
         Django!Close, Django!Then, Django!FireEvent, Django!Blame, Django!Exceptions
<1> QED
  BY <1>1, <1>2, <1>3, <1>4, <1>5

\* A request that no call has failed yet and none of whose auxiliary methods ran.
View(p) ==
    /\ Running(p)
    /\ {"code", "set", "reply", "got"} \subseteq DOMAIN p
    /\ p.others \in {<<>>, [i \in Aux |-> i]}
    /\ p.aux = [a \in Aux |-> 0]
    /\ p.closed = 0

\* Of the response there is only what user code made.
Begun(p) ==
    /\ p.document = "none" /\ p.reply = "none"
    /\ p.code = IF "code" \in p.set THEN "own" ELSE "none"
    /\ p.string = IF "string" \in p.set THEN "result" ELSE "none"

\* The code is the user's or that of the outcome, and the fault is sent unless
\* there was a response before.
Right(c) ==
    /\ c.reply \in {"result", "fault"}
    /\ c.code = IF "code" \in c.set THEN "own"
                ELSE IF c.error = "none" THEN "none" ELSE "error"
    /\ IF c.error = "none" THEN c.reply = "result"
       ELSE c.reply = "fault" \/ "string" \in c.set \/ "result" \in c.raised

\* The auxiliary methods that a request with this error may have run.
Allowed(c) ==
    /\ c.aux \in [Aux -> Nat]
    /\ \A a \in Aux : c.aux[a] <= IF c.error = "none" \/ a \in AuxOnError THEN 1 ELSE 0

LEMMA ResponseRule ==
    ASSUME NEW p, View(p), NEW error \in BOOLEAN, p.error # "none" => error,
           NEW c \in Django!Response(p, error)
    PROVE  /\ Kept(p, c, {"exc", "events", "raised", "aux", "reply", "closed"})
           /\ c.exc \in Exceptions \cup {"none"}
           /\ c.reply = p.string
           /\ c.closed = IF c.exc = "none" THEN 1 ELSE 0
           /\ Allowed(c)
<1> DEFINE d == [p EXCEPT !.reply = p.string]
           cleared(s) == [s EXCEPT !.exc = "none"]
<1>1. View(d) /\ Kept(p, d, {"reply"}) /\ d.reply = p.string
  BY DEF View, Kept, Running, Fields
<1>2. PICK s \in ProcessContexts(d, error) : c \in Close(cleared(s))
  <2>1. PICK s \in Django!ProcessContexts(d, error) :
            c \in IF cleared(s).exc = "none" THEN Django!Close(cleared(s)) ELSE {cleared(s)}
    BY DEF Django!Response, Django!Then, Django!Logged
  <2>2. s \in ProcessContexts(d, error)
    BY <2>1, DjangoSame
  <2>3. d.aux \in [Aux -> Nat]
    BY <1>1 DEF View
  <2>4. Kept(d, s, {"exc", "raised", "aux"})
    BY <1>1, <2>2, <2>3, ContextsRule DEF View
  <2>5. cleared(s).exc = "none"
    BY <1>1, <2>4 DEF View, Kept, Running, Fields
  <2> QED
    BY <2>1, <2>2, <2>5, DjangoSame
<1> HIDE DEF d
<1>3. /\ Kept(d, s, {"exc", "raised", "aux"})
      /\ s.aux \in [Aux -> Nat]
      /\ \A a \in Aux : s.aux[a] \in {d.aux[a], d.aux[a] + 1}
      /\ error => \A a \in Aux \ AuxOnError : s.aux[a] = d.aux[a]
  <2>1. d.aux \in [Aux -> Nat]
    BY <1>1 DEF View
  <2> QED
    BY <1>1, <1>2, <2>1, ContextsRule DEF View
<1>4. \A a \in Aux : s.aux[a] <= IF a \in AuxOnError \/ ~error THEN 1 ELSE 0
  BY <1>1, <1>3 DEF View
<1>5. Running(cleared(s)) /\ Kept(s, cleared(s), {"exc"})
  BY <1>1, <1>3 DEF View, Kept, Running, Fields
<1> HIDE DEF cleared
<1>6. /\ Kept(cleared(s), c, {"exc", "events", "raised", "closed"})
      /\ c.exc \in Exceptions \cup {"none"}
      /\ c.exc # "none" => c.closed = cleared(s).closed
      /\ c.exc = "none" => c.closed = cleared(s).closed + 1
  BY <1>2, <1>5, CloseRule
<1>7. Kept(p, c, {"exc", "events", "raised", "aux", "reply", "closed"})
  BY <1>1, <1>3, <1>5, <1>6 DEF Kept, View, Running, Fields
<1>8. c.reply = p.string /\ c.closed = (IF c.exc = "none" THEN 1 ELSE 0)
  BY <1>1, <1>3, <1>5, <1>6 DEF Kept, View, Running, Fields
<1>9. c.aux = s.aux /\ c.error = p.error
  BY <1>1, <1>3, <1>5, <1>6 DEF Kept, View, Running, Fields
<1> QED
  BY <1>3, <1>4, <1>6, <1>7, <1>8, <1>9 DEF Allowed

\* What a response of handle_error holds: the document that is there, under a
\* code that is there, else the fault under the code of an error.
LEMMA HandleErrorRule ==
    ASSUME NEW p, View(p), p.error # "none",
           {p.document, p.string} \subseteq {"none", "result"},
           NEW c \in Django!HandleError(p)
    PROVE  /\ c.exc \in Exceptions \cup {"none"}
           /\ DOMAIN c = DOMAIN p /\ c.got = p.got /\ c.error = p.error /\ c.set = p.set
           /\ p.raised \subseteq c.raised
           /\ c.closed = IF c.exc = "none" THEN 1 ELSE 0
           /\ c.exc = "none" =>
                 c.reply \in {"fault"} \cup ({p.document, p.string} \ {"none"})
           /\ c.code = IF p.code = "none" THEN "error" ELSE p.code
           /\ Allowed(c)
<1> DEFINE d == [p EXCEPT !.code = IF @ = "none" THEN "error" ELSE @]
<1>1. /\ View(d) /\ Kept(p, d, {"code"})
      /\ d.code = IF p.code = "none" THEN "error" ELSE p.code
  BY DEF View, Kept, Running, Fields
<1>2. PICK s \in GetOutString(d) :
          c \in IF s.exc = "none" THEN Django!Response(s, TRUE) ELSE {s}
  <2>1. PICK s \in Django!GetOutString(d) :
            c \in IF s.exc = "none" THEN Django!Response(s, TRUE) ELSE {s}
    BY DEF Django!HandleError, Django!Then
  <2> HIDE DEF d
  <2>2. s \in GetOutString(d)
    BY <2>1, DjangoSame
  <2> QED
    BY <2>1, <2>2
<1> HIDE DEF d
<1>3. d.document = p.document /\ d.string = p.string /\ d.error = p.error
  BY <1>1 DEF Kept, View, Running, Fields
<1>4. /\ Kept(d, s, {"exc", "document", "string", "raised"})
      /\ s.exc \in {"none", "Fault", "Exception"}
      /\ s.string \in {"fault"} \cup {p.document, p.string}
      /\ s.exc = "none" => s.string # "none"
  <2>1. Kind(d) = "fault"
    BY <1>3 DEF Kind
  <2> QED
    BY <1>1, <1>2, <1>3, <2>1, GetOutStringRule DEF View
<1>5. /\ s.error = p.error /\ s.code = d.code /\ s.got = p.got /\ s.closed = 0 /\ s.aux = d.aux
      /\ s.set = p.set
  BY <1>1, <1>3, <1>4 DEF Kept, View, Running, Fields
<1>6. CASE s.exc # "none"
  <2>1. c = s
    BY <1>2, <1>6
  <2>2. Allowed(s)
    BY <1>1, <1>5 DEF Allowed, View
  <2> QED
    BY <1>1, <1>4, <1>5, <1>6, <2>1, <2>2 DEF Kept, Exceptions
<1>7. CASE s.exc = "none"
  <2>1. View(s)
    BY <1>1, <1>4, <1>7 DEF Kept, View, Running, Fields
  <2>2. c \in Django!Response(s, TRUE)
    BY <1>2, <1>7
  <2>3. /\ Kept(s, c, {"exc", "events", "raised", "aux", "reply", "closed"})
        /\ c.exc \in Exceptions \cup {"none"}
        /\ c.reply = s.string
        /\ c.closed = IF c.exc = "none" THEN 1 ELSE 0
        /\ Allowed(c)
    BY <2>1, <2>2, ResponseRule
  <2>4. c.error = s.error /\ c.code = s.code /\ c.got = s.got /\ c.set = s.set
    BY <2>1, <2>3 DEF Kept, View, Running, Fields
  <2> QED
    BY <1>1, <1>4, <1>5, <1>7, <2>3, <2>4 DEF Kept
<1> QED
  BY <1>6, <1>7

\* Either the result was serialized, or a response with the code of an error was
\* made because that raised, or that raised as well.
LEMMA OutStringRule ==
    ASSUME NEW p, View(p), p.error = "none", Begun(p),
           NEW c \in Django!OutString(p)
    PROVE  /\ c.exc \in Exceptions \cup {"none"}
           /\ DOMAIN c = DOMAIN p /\ c.got = p.got /\ c.set = p.set
           /\ \/ /\ View(c) /\ c.error = "none" /\ c.reply = "none" /\ c.string = "result"
                 /\ c.code = p.code
              \/ /\ c.closed = IF c.exc = "none" THEN 1 ELSE 0
                 /\ "result" \in c.raised /\ c.error # "none"
                 /\ c.code = IF p.code = "none" THEN "error" ELSE p.code
                 /\ c.exc = "none" => c.reply \in {"result", "fault"}
                 /\ Allowed(c)
<1> DEFINE erred(s) == [s EXCEPT !.error = IF s.exc = "none" THEN @ ELSE "Server"]
           cleared(s) == [s EXCEPT !.exc = "none"]
<1>1. PICK s \in GetOutString(p) :
          c \in IF erred(s).exc \in Exceptions THEN Django!HandleError(cleared(erred(s)))
                ELSE {erred(s)}
  <2> DEFINE outcomes == {erred(s) : s \in Django!GetOutString(p)}
  <2>1. Django!OutString(p) =
            UNION {IF t.exc \in Django!Exceptions THEN Django!HandleError(cleared(t))
                   ELSE {t} : t \in outcomes}
    BY DEF Django!OutString, Django!Except
  <2>2. PICK t \in outcomes :
            c \in IF t.exc \in Django!Exceptions THEN Django!HandleError(cleared(t)) ELSE {t}
    <3> HIDE DEF outcomes, cleared
    <3> QED
      BY <2>1
  <2>3. PICK s \in Django!GetOutString(p) : t = erred(s)
    OBVIOUS
  <2>4. Django!Exceptions = Exceptions
    BY DEF Django!Exceptions, Exceptions
  <2>5. s \in GetOutString(p)
    BY <2>3, DjangoSame
  <2> HIDE DEF erred, cleared
  <2> QED
    BY <2>2, <2>3, <2>4, <2>5
<1>2. /\ Kept(p, s, {"exc", "document", "string", "raised"})
      /\ s.exc \in {"none", "Fault", "Exception"}
      /\ s.exc # "none" => "result" \in s.raised
      /\ {s.document, s.string} \subseteq {"none", "result"}
      /\ s.exc = "none" => s.string = "result"
  BY <1>1, GetOutStringRule DEF View, Begun, Kind
<1>3. CASE s.exc = "none"
  <2>1. erred(s).exc = "none" /\ Kept(s, erred(s), {}) /\ erred(s).error = s.error
    BY <1>2, <1>3 DEF Kept, View, Running, Fields
  <2>2. c = erred(s)
    BY <1>1, <2>1 DEF Exceptions
  <2> HIDE DEF erred
  <2>3. View(s)
    BY <1>2, <1>3 DEF Kept, View, Running, Fields
  <2> QED
    BY <1>2, <2>1, <2>2, <2>3 DEF Kept, View, Begun, Running, Fields
<1>4. CASE s.exc # "none"
  <2> DEFINE e == cleared(erred(s))
  <2>1. /\ View(e) /\ Kept(p, e, {"exc", "document", "string", "raised", "error"})
        /\ e.error = "Server" /\ e.document = s.document /\ e.string = s.string
        /\ e.raised = s.raised /\ e.code = p.code /\ e.got = p.got /\ e.set = p.set
    <3> DEFINE t == erred(s)
    <3>1. /\ Kept(s, t, {"error"}) /\ t.error = "Server" /\ t.raised = s.raised
      BY <1>2, <1>4 DEF Kept, View, Running, Fields
    <3>2. Kept(p, t, {"exc", "document", "string", "raised", "error"})
      BY <1>2, <3>1 DEF Kept, View, Running, Fields
    <3> HIDE DEF t
    <3>3. /\ Kept(t, cleared(t), {"exc"}) /\ cleared(t).exc = "none"
          /\ cleared(t).raised = t.raised
      BY <1>2, <3>1 DEF Kept, View, Running, Fields
    <3> HIDE DEF cleared
    <3>4. e = cleared(t)
      BY DEF t
    <3> HIDE DEF e
    <3>5. Kept(p, e, {"exc", "document", "string", "raised", "error"})
      BY <3>2, <3>3, <3>4 DEF Kept
    <3>6. View(e)
      BY <3>3, <3>4, <3>5 DEF Kept, View, Running, Fields
    <3> QED
      BY <1>2, <3>1, <3>3, <3>4, <3>5, <3>6 DEF Kept, View, Running, Fields
  <2>2. erred(s).exc \in Exceptions
    BY <1>2, <1>4 DEF Kept, View, Running, Fields, Exceptions
  <2>3. c \in Django!HandleError(e)
    BY <1>1, <2>2
  <2> HIDE DEF e
  <2>4. /\ c.exc \in Exceptions \cup {"none"}
        /\ DOMAIN c = DOMAIN e /\ c.got = e.got /\ c.error = e.error /\ c.set = e.set
        /\ e.raised \subseteq c.raised
        /\ c.closed = IF c.exc = "none" THEN 1 ELSE 0
        /\ c.exc = "none" => c.reply \in {"fault", "result"}
        /\ c.code = IF e.code = "none" THEN "error" ELSE e.code
        /\ Allowed(c)
    BY <1>2, <2>1, <2>3, HandleErrorRule
  <2> QED
    BY <1>2, <1>4, <2>1, <2>4 DEF Kept
<1> QED
  BY <1>3, <1>4

\* What user code leaves behind.
LEMMA CalledRule ==
    ASSUME NEW p, View(p), p.error = "none", Begun(p), p.set = {}, p.object \in Objects,
           NEW c \in Django!Called(p)
    PROVE  /\ Begun(c) /\ DOMAIN c = DOMAIN p /\ c.closed = 0 /\ c.aux = p.aux
           /\ c.exc = "none" => View(c)
<1>1. PICK d \in GetOutObject(p) : c \in Django!UserSets(d)
  BY DjangoSame DEF Django!Called
<1>2. Kept(p, d, {"exc", "events", "error", "object", "raised"})
  BY <1>1, GetOutObjectRule DEF View
<1>3. PICK set \in SUBSET {"code", "string"} :
          c = [d EXCEPT !.set = set,
                        !.code = IF "code" \in set THEN "own" ELSE @,
                        !.string = IF "string" \in set THEN "result" ELSE @]
  BY <1>1 DEF Django!UserSets
<1>4. /\ DOMAIN c = DOMAIN d /\ c.set = set
      /\ c.code = (IF "code" \in set THEN "own" ELSE "none")
      /\ c.string = (IF "string" \in set THEN "result" ELSE "none")
      /\ \A f \in DOMAIN d \ {"set", "code", "string"} : c[f] = d[f]
  BY <1>2, <1>3 DEF Kept, View, Begun, Running, Fields
<1> QED
  BY <1>2, <1>4 DEF Kept, View, Begun, Running, Fields

LEMMA DjangoRule ==
    ASSUME NEW p, View(p), p.error = "none", Begun(p), p.set = {}, p.object \in Objects, p.others = <<>>,
           NEW c \in Django!HandleRpc(p)
    PROVE  /\ DOMAIN c = DOMAIN p
           /\ c.closed = IF c.exc = "none" THEN 1 ELSE 0
           /\ c.exc = "none" => Right(c)
           /\ Allowed(c)
<1> DEFINE invoked(s) == IF s.error = "none" THEN Django!Called(s) ELSE {s}
           answer(e) == IF e.reply = "none" THEN Django!Response(e, FALSE) ELSE {e}
<1>1. PICK r \in Receive(p) :
          IF r.exc # "none" THEN c = r
          ELSE \E d \in invoked(r) :
                   IF d.exc # "none" THEN c = d
                   ELSE IF d.error # "none" THEN c \in Django!HandleError(d)
                   ELSE \E e \in Django!OutString(d) :
                            IF e.exc # "none" THEN c = e ELSE c \in answer(e)
  <2> DEFINE calls(s) == IF s.error = "none" THEN Django!Called(s) ELSE {s}
             answered(d) == UNION {IF e.exc = "none" THEN answer(e) ELSE {e} :
                                   e \in Django!OutString(d)}
             called(d) == IF d.error # "none" THEN Django!HandleError(d) ELSE answered(d)
             received(r) == UNION {IF d.exc = "none" THEN called(d) ELSE {d} :
                                   d \in calls(r)}
  <2>1. Django!HandleRpc(p) =
            UNION {IF r.exc = "none" THEN received(r) ELSE {r} : r \in Django!Receive(p)}
    BY DEF Django!HandleRpc, Django!Then
  <2>2. \A d : c \in answered(d) =>
            \E e \in Django!OutString(d) : IF e.exc # "none" THEN c = e ELSE c \in answer(e)
    OBVIOUS
  <2> HIDE DEF answered, answer
  <2>3. \A r : c \in received(r) =>
            \E d \in calls(r) : IF d.exc # "none" THEN c = d ELSE c \in called(d)
    OBVIOUS
  <2> HIDE DEF received
  <2>4. PICK r \in Django!Receive(p) : IF r.exc # "none" THEN c = r ELSE c \in received(r)
    BY <2>1
  <2>5. r \in Receive(p) /\ calls(r) = invoked(r)
    BY <2>4, DjangoSame
  <2> HIDE DEF calls, invoked
  <2>6. r.exc = "none" =>
            \E d \in invoked(r) : IF d.exc # "none" THEN c = d ELSE c \in called(d)
    BY <2>3, <2>4, <2>5
  <2> QED
    BY <2>2, <2>4, <2>5, <2>6
<1> DEFINE Initial(s) == Begun(s) /\ DOMAIN s = DOMAIN p
<1>2. /\ Kept(p, r, {"exc", "events", "error", "raised", "others"})
      /\ r.exc \in Exceptions \cup {"none"}
      /\ r.error \in {"none", "Fault"}
      /\ r.others \in {<<>>, [i \in Aux |-> i]}
  BY <1>1, ReceiveRule DEF View
<1>3. /\ Initial(r) /\ r.object \in Objects /\ r.closed = 0 /\ r.aux = p.aux /\ r.set = {}
      /\ r.exc = "none" => View(r)
  BY <1>2 DEF Kept, View, Begun, Running, Fields
<1>4. \A s : s.aux = p.aux => Allowed(s)
  BY DEF Allowed, View
<1>5. CASE r.exc # "none"
  BY <1>1, <1>3, <1>4, <1>5
<1>6. ASSUME r.exc = "none"
      PROVE  /\ DOMAIN c = DOMAIN p
             /\ c.closed = IF c.exc = "none" THEN 1 ELSE 0
             /\ c.exc = "none" => Right(c)
             /\ Allowed(c)
  <2>1. PICK d \in invoked(r) :
            IF d.exc # "none" THEN c = d
            ELSE IF d.error # "none" THEN c \in Django!HandleError(d)
            ELSE \E e \in Django!OutString(d) :
                     IF e.exc # "none" THEN c = e ELSE c \in answer(e)
    BY <1>1, <1>6
  <2>2. /\ Initial(d) /\ d.closed = 0 /\ d.aux = p.aux
        /\ d.exc = "none" => View(d)
    <3>1. CASE r.error = "none"
      <4>1. d \in Django!Called(r)
        BY <2>1, <3>1
      <4> QED
        BY <1>2, <1>3, <1>6, <3>1, <4>1, CalledRule
    <3>2. CASE r.error # "none"
      BY <1>3, <1>6, <2>1, <3>2
    <3> QED
      BY <3>1, <3>2
  <2>4. CASE d.exc # "none"
    BY <1>4, <2>1, <2>2, <2>4
  <2>5. CASE d.exc = "none" /\ d.error # "none"
    <3>1. c \in Django!HandleError(d)
      BY <2>1, <2>5
    <3>2. {d.document, d.string} \subseteq {"none", "result"}
      BY <2>2 DEF Begun
    <3>3. /\ c.exc \in Exceptions \cup {"none"}
          /\ DOMAIN c = DOMAIN d /\ c.error = d.error /\ c.set = d.set
          /\ c.closed = IF c.exc = "none" THEN 1 ELSE 0
          /\ c.exc = "none" => c.reply \in {"fault"} \cup ({d.document, d.string} \ {"none"})
          /\ c.code = IF d.code = "none" THEN "error" ELSE d.code
          /\ Allowed(c)
      BY <2>2, <2>5, <3>1, <3>2, HandleErrorRule
    <3> QED
      BY <2>2, <2>5, <3>3 DEF Begun, Right
  <2>6. CASE d.exc = "none" /\ d.error = "none"
    <3>1. PICK e \in Django!OutString(d) :
              IF e.exc # "none" THEN c = e ELSE c \in answer(e)
      BY <2>1, <2>6
    <3>2. /\ DOMAIN e = DOMAIN p /\ e.set = d.set
          /\ \/ /\ View(e) /\ e.error = "none" /\ e.reply = "none" /\ e.string = "result"
                /\ e.code = d.code
             \/ /\ e.closed = IF e.exc = "none" THEN 1 ELSE 0
                /\ "result" \in e.raised /\ e.error # "none"
                /\ e.code = IF d.code = "none" THEN "error" ELSE d.code
                /\ e.exc = "none" => e.reply \in {"result", "fault"}
                /\ Allowed(e)
      BY <2>2, <2>6, <3>1, OutStringRule
    <3>3. CASE View(e) /\ e.error = "none" /\ e.reply = "none" /\ e.string = "result"
                 /\ e.code = d.code
      <4>1. c \in Django!Response(e, FALSE)
        BY <3>1, <3>3 DEF View, Running
      <4>2. /\ Kept(e, c, {"exc", "events", "raised", "aux", "reply", "closed"})
            /\ c.reply = "result"
            /\ c.closed = IF c.exc = "none" THEN 1 ELSE 0
            /\ Allowed(c)
        BY <3>3, <4>1, ResponseRule
      <4>3. c.code = d.code /\ DOMAIN c = DOMAIN e /\ c.set = d.set /\ c.error = "none"
        BY <3>2, <3>3, <4>2 DEF Kept, View, Running, Fields
      <4> QED
        BY <2>2, <3>2, <4>2, <4>3 DEF Begun, Right
    <3>4. CASE /\ e.closed = IF e.exc = "none" THEN 1 ELSE 0
               /\ "result" \in e.raised /\ e.error # "none"
               /\ e.code = IF d.code = "none" THEN "error" ELSE d.code
               /\ e.exc = "none" => e.reply \in {"result", "fault"}
               /\ Allowed(e)
      <4>1. c = e
        BY <3>1, <3>4
      <4> QED
        BY <2>2, <3>2, <3>4, <4>1 DEF Begun, Right
    <3> QED
      BY <3>2, <3>3, <3>4
  <2> QED
    BY <2>4, <2>5, <2>6
<1> QED
  BY <1>5, <1>6

LEMMA NewViewRule ==
    /\ View(Django!NewView)
    /\ Django!NewView.error = "none" /\ Begun(Django!NewView)
    /\ Django!NewView.set = {} /\ Django!NewView.got = "none"
    /\ Django!NewView.object \in Objects /\ Django!NewView.others = <<>>
<1>1. Django!NewView =
          WithFields(NewRequest(FALSE), [code |-> "none", set |-> {}, reply |-> "none", got |-> "none"])
  BY DEF Django!NewView, Django!WithFields, Django!NewRequest, Django!NewContext,
         Django!NoObject, Django!Bare, Django!Aux,
         WithFields, NewRequest, NewContext, NoObject, Bare, Aux
<1>2. NoObject \in Objects
  BY DEF Objects
<1> DEFINE more == [code |-> "none", set |-> {}, reply |-> "none", got |-> "none"]
           r == NewRequest(FALSE)
<1>3. /\ DOMAIN r = Fields
      /\ r.exc = "none" /\ r.error = "none" /\ r.object = NoObject
      /\ r.others = <<>> /\ r.aux = [a \in Aux |-> 0]
      /\ r.document = "none" /\ r.string = "none" /\ r.closed = 0
  BY NewFields
<1>4. Django!NewView = WithFields(r, more)
  BY <1>1
<1> HIDE DEF r, more
<1>5. Joined(Django!NewView, r, more)
  BY <1>4, WithFieldsRule
<1> QED
  BY <1>2, <1>3, <1>5 DEF Joined, View, Begun, Running, Fields, more

\* A view is as it was made or answered as it should be.
ViewInv == view = Django!NewView \/ (view.got # "none" /\ DjangoContract)

LEMMA ViewStep == ViewInv /\ [Next]_vars => ViewInv'
<1> SUFFICES ASSUME ViewInv, [Next]_vars
             PROVE  ViewInv'
  OBVIOUS
<1>1. CASE Django!Handle
  <2>1. view = Django!NewView
    BY <1>1 DEF Django!Handle, ViewInv
  <2>2. PICK c \in Django!HandleRpc(view) :
            view' = [c EXCEPT !.exc = "none",
                              !.got = IF c.exc = "none" THEN c.reply ELSE "500"]
    BY <1>1 DEF Django!Handle
  <2>3. /\ DOMAIN c = DOMAIN view
        /\ c.closed = IF c.exc = "none" THEN 1 ELSE 0
        /\ c.exc = "none" => Right(c)
        /\ Allowed(c)
    BY <2>1, <2>2, NewViewRule, DjangoRule
  <2>4. /\ view'.got = IF c.exc = "none" THEN c.reply ELSE "500"
        /\ view'.code = c.code /\ view'.raised = c.raised /\ view'.closed = c.closed
        /\ view'.aux = c.aux /\ view'.error = c.error /\ view'.set = c.set
    BY <2>1, <2>2, <2>3, NewViewRule DEF View, Running, Fields
  <2>5. view'.got # "none"
    BY <2>3, <2>4 DEF Right
  <2>6. Django!RightCode'
    BY <2>3, <2>4 DEF Django!RightCode, Django!WentWrong, Right
  <2>7. Django!ClosedIfAnswered'
    BY <2>3, <2>4 DEF Django!ClosedIfAnswered, Right
  <2>8. Django!AuxRules'
    BY <2>3, <2>4 DEF Django!AuxRules, Allowed, Django!Aux, Aux
  <2> QED
    BY <2>5, <2>6, <2>7, <2>8 DEF ViewInv, DjangoContract
<1>2. CASE UNCHANGED view
  BY <1>2 DEF ViewInv, DjangoContract, Django!RightCode, Django!ClosedIfAnswered,
              Django!AuxRules
<1> QED
  BY <1>1, <1>2
  DEF Next, vars, NullStep, DjangoStep, Django!Next, SocketReceives, SocketFires,
      ClientsStep, Arrives, Works

\* A response has the code user code set, else that of its outcome, a context is
\* closed exactly when Django has a response, and auxiliary methods run as they may after an error.
THEOREM DjangoAnswers == FairSpec => []DjangoContract
<1>1. Init => ViewInv
  BY DEF Init, Django!Init, ViewInv
<1>2. ViewInv => DjangoContract
  <2> SUFFICES ASSUME view = Django!NewView
               PROVE  DjangoContract
    BY DEF ViewInv
  <2>1. view.got = "none" /\ view.closed = 0 /\ view.aux = [a \in Aux |-> 0]
    BY NewViewRule DEF View
  <2> QED
    BY <2>1 DEF DjangoContract, Django!RightCode, Django!ClosedIfAnswered,
                Django!AuxRules, Django!Aux, Aux
<1> QED
  BY <1>1, <1>2, ViewStep, PTL DEF FairSpec

-----------------------------------------------------------------------------
(* The null server.                                                        *)

LEMMA NullSame ==
    ASSUME NEW p, NEW todo, NEW last
    PROVE  /\ Null!ProcessRequest(p) = ProcessRequest(p)
           /\ Null!GetOutString(p) = GetOutString(p)
           /\ Null!Close(p) = Close(p)
           /\ Null!Ran(p, todo, last) = Ran(p, todo, last)
           /\ Null!AuxRaises(p) = AuxRaises(p)
<1>1. Null!ProcessRequest(p) = ProcessRequest(p)
  BY DEF ProcessRequest, OnRedirect, ErrorObject, WrapObject, CallWrapper, FireEvent,
         Blame, List, Bare, Values, Then, Except, Returns, Raises, Exceptions,
         Null!ProcessRequest, Null!OnRedirect, Null!ErrorObject, Null!WrapObject,
         Null!CallWrapper, Null!FireEvent, Null!Blame, Null!List, Null!Bare, Null!Values,
         Null!Then, Null!Except, Null!Returns, Null!Raises, Null!Exceptions
<1>2. Null!GetOutString(p) = GetOutString(p)
  BY DEF GetOutString, Then, Raises, Blame, Kind,
         Null!GetOutString, Null!Then, Null!Raises, Null!Blame, Null!Kind
<1>3. Null!Close(p) = Close(p)
  BY DEF Close, Then, FireEvent, Blame, Exceptions,
         Null!Close, Null!Then, Null!FireEvent, Null!Blame, Null!Exceptions
<1>4. Null!Ran(p, todo, last) = Ran(p, todo, last)
  BY DEF Ran, Aux, Null!Ran, Null!Aux
<1>5. Null!AuxRaises(p) = AuxRaises(p)
  BY DEF AuxRaises, Blame, Null!AuxRaises, Null!Blame
<1> QED
  BY <1>1, <1>2, <1>3, <1>4, <1>5

\* A call whose method has given no document so far.
Calling(p) ==
    /\ Running(p)
    /\ {"async", "ostr", "retval", "got", "fired"} \subseteq DOMAIN p
    /\ {p.async, p.ostr} \subseteq BOOLEAN
    /\ p.document = "none" /\ p.string = "none"
    /\ p.closed = 0

LEMMA CbSyncRule ==
    ASSUME NEW p, Calling(p), NEW c \in Null!CbSync(p)
    PROVE  /\ Kept(p, c, {"exc", "document", "string", "raised", "retval"})
           /\ c.exc \in Exceptions \cup {"none"}
           /\ c.exc # "none" => c.retval = p.retval
           /\ c.exc = "none" =>
                /\ c.retval = "result" /\ p.error = "none"
                /\ p.ostr => c.string = "result"
<1> DEFINE put(s) == [s EXCEPT !.retval = "result"]
           strings == IF p.ostr THEN Null!GetOutString(p) ELSE {p}
<1>1. CASE p.error # "none"
  <2>1. c = [p EXCEPT !.exc = "Fault"]
    BY <1>1 DEF Null!CbSync, Null!Raises
  <2> QED
    BY <2>1 DEF Kept, Calling, Running, Fields, Exceptions
<1>2. CASE p.error = "none"
  <2>1. PICK s \in strings : c \in IF s.exc = "none" THEN {put(s)} ELSE {s}
    BY <1>2 DEF Null!CbSync, Null!Then
  <2>2. IF p.ostr THEN s \in GetOutString(p) ELSE s = p
    BY <2>1, NullSame
  <2>3. /\ Kept(p, s, {"exc", "document", "string", "raised"})
        /\ s.exc \in Exceptions \cup {"none"}
        /\ s.exc = "none" /\ p.ostr => s.string = "result"
    <3>1. CASE p.ostr
      <4>1. Kind(p) = "result"
        BY <1>2 DEF Kind
      <4> QED
        BY <2>2, <3>1, <4>1, GetOutStringRule DEF Calling, Exceptions
    <3>2. CASE ~p.ostr
      BY <2>2, <3>2 DEF Kept, Calling, Running
    <3> QED
      BY <3>1, <3>2
  <2>4. Kept(s, put(s), {"retval"}) /\ put(s).retval = "result" /\ put(s).exc = s.exc
           /\ put(s).string = s.string
    BY <2>3 DEF Kept, Calling, Running, Fields
  <2> HIDE DEF put, strings
  <2>5. CASE s.exc = "none"
    <3>1. c = put(s)
      BY <2>1, <2>5
    <3> QED
      BY <1>2, <2>3, <2>4, <2>5, <3>1 DEF Kept, Calling, Running, Fields
  <2>6. CASE s.exc # "none"
    <3>1. c = s
      BY <2>1, <2>6
    <3> QED
      BY <2>3, <2>6, <3>1 DEF Kept, Calling, Running, Fields
  <2> QED
    BY <2>5, <2>6
<1> QED
  BY <1>1, <1>2

LEMMA PrimaryRule ==
    ASSUME NEW p, Calling(p), p.retval = "none", NEW c \in Null!Primary(p)
    PROVE  /\ Kept(p, c, {"exc", "document", "string", "raised", "retval"})
           /\ c.exc \in Exceptions \cup {"none"}
           /\ c.exc # "none" => c.retval = "none"
           /\ c.exc = "none" =>
                \/ /\ c.retval = "deferred" /\ p.async
                   /\ c.document = "none" /\ c.string = "none"
                \/ /\ c.retval = "result" /\ p.error = "none"
                   /\ p.ostr => c.string = "result"
<1>1. \/ c \in Null!CbSync(p)
      \/ c = [p EXCEPT !.exc = "Exception"]
      \/ p.async /\ c = [p EXCEPT !.retval = "deferred"]
  BY DEF Null!Primary, Null!Raises
<1>2. CASE c \in Null!CbSync(p)
  BY <1>2, CbSyncRule
<1>3. CASE c = [p EXCEPT !.exc = "Exception"]
  BY <1>3 DEF Kept, Calling, Running, Fields, Exceptions
<1>4. CASE p.async /\ c = [p EXCEPT !.retval = "deferred"]
  BY <1>4 DEF Kept, Calling, Running, Fields
<1> QED
  BY <1>1, <1>2, <1>3, <1>4

\* The auxiliary methods run in order up to one of them.
LEMMA ProcessAuxRule ==
    ASSUME NEW p, Running(p), p.others = [i \in Aux |-> i], p.aux = [a \in Aux |-> 0],
           NEW c \in Null!ProcessAux(p)
    PROVE  /\ Kept(p, c, {"exc", "raised", "aux"})
           /\ c.exc \in {"none", "Exception"}
           /\ \A a, b \in Aux : a <= b => 1 >= c.aux[a] /\ c.aux[a] >= c.aux[b]
           /\ c.exc = "none" => \A a \in Aux : c.aux[a] = 1
<1> DEFINE todo == Null!ToSet(p.others)
<1>1. NAux \in Nat /\ Aux = 1 .. NAux /\ Null!Aux = Aux
  BY ServerBaseAssumption DEF Aux, Null!Aux
<1>2. todo = Aux
  BY DEF Null!ToSet
<1>3. \/ c = Null!Ran(p, todo, NAux)
      \/ \E a \in todo : \E last \in {a - 1, a} : c = Null!AuxRaises(Null!Ran(p, todo, last))
  BY DEF Null!ProcessAux
<1>4. \/ c = Ran(p, Aux, NAux)
      \/ \E a \in Aux : \E last \in {a - 1, a} : c = AuxRaises(Ran(p, Aux, last))
  BY <1>2, <1>3, NullSame
<1>5. PICK last \in Nat :
          \/ last = NAux /\ c = Ran(p, Aux, last)
          \/ c = AuxRaises(Ran(p, Aux, last))
  BY <1>1, <1>4
<1> DEFINE d == Ran(p, Aux, last)
<1>6. p.aux \in [Aux -> Nat]
  OBVIOUS
<1>7. /\ Running(d) /\ Kept(p, d, {"aux"})
      /\ \A a \in Aux : d.aux[a] = IF a <= last THEN 1 ELSE 0
  BY <1>6, RanRule
<1>8. \/ last = NAux /\ c = d
      \/ Kept(d, c, {"exc", "raised"}) /\ c.exc = "Exception"
  BY <1>5, <1>7, AuxRaisesRule
<1> HIDE DEF d
<1>9. Kept(p, c, {"exc", "raised", "aux"}) /\ c.exc \in {"none", "Exception"}
        /\ c.aux = d.aux /\ (c.exc = "none" => last = NAux)
  BY <1>7, <1>8 DEF Kept, Running, Fields
<1>10. \A a \in Aux : a \in Nat /\ a <= NAux
  BY <1>1
<1> QED
  BY <1>7, <1>9, <1>10

\* What a call leaves behind.  The context is closed when a synchronous call
\* returns, and nothing has run for a method that did not.
Concluded(c) ==
    /\ \A a, b \in Aux : a <= b => 1 >= c.aux[a] /\ c.aux[a] >= c.aux[b]
    /\ c.exc = "none" => \A a \in Aux : c.aux[a] = 1
    /\ c.retval = "none" => \A a \in Aux : c.aux[a] = 0
    /\ c.closed = IF c.exc = "none" /\ ~c.async THEN 1 ELSE 0
    /\ c.exc = "none" =>
          \/ c.retval = "deferred" /\ c.async /\ c.document = "none" /\ c.string = "none"
          \/ c.retval = "result" /\ c.error = "none" /\ (c.ostr => c.string = "result")

LEMMA NullCallRule ==
    ASSUME NEW p, Calling(p), p.object \in Objects, p.error = "none", p.retval = "none",
           p.aux = [a \in Aux |-> 0], NEW c \in Null!Call(p)
    PROVE  /\ DOMAIN c = DOMAIN p
           /\ c.async = p.async /\ c.ostr = p.ostr /\ c.got = p.got /\ c.fired = p.fired
           /\ c.exc \in Exceptions \cup {"none"}
           /\ Concluded(c)
<1> DEFINE ended(e) == IF e.async THEN {e} ELSE Null!Close(e)
           requested == UNION {IF a.exc = "none" THEN Null!ProcessRequest(a) ELSE {a} :
                               a \in Null!Contexts(p)}
           primary == UNION {IF b.exc = "none" THEN Null!Primary(b) ELSE {b} :
                             b \in requested}
           aux == UNION {IF d.exc = "none" THEN Null!ProcessAux(d) ELSE {d} : d \in primary}
<1>1. Null!Call(p) = UNION {IF e.exc = "none" THEN ended(e) ELSE {e} : e \in aux}
  BY DEF Null!Call, Null!Then
<1>2. PICK e \in aux : c \in IF e.exc = "none" THEN ended(e) ELSE {e}
  <2> HIDE DEF aux, ended
  <2> QED
    BY <1>1
<1>3. PICK d \in primary : e \in IF d.exc = "none" THEN Null!ProcessAux(d) ELSE {d}
  <2> HIDE DEF primary
  <2> QED
    BY <1>2
<1>4. PICK b \in requested : d \in IF b.exc = "none" THEN Null!Primary(b) ELSE {b}
  <2> HIDE DEF requested
  <2> QED
    BY <1>3
<1>5. PICK a \in Null!Contexts(p) :
          b \in IF a.exc = "none" THEN ProcessRequest(a) ELSE {a}
  BY <1>4, NullSame
<1>6. c \in IF e.exc = "none" THEN IF e.async THEN {e} ELSE Close(e) ELSE {e}
  BY <1>2, NullSame
<1> HIDE DEF requested, primary, aux, ended
<1> DEFINE Untouched(s) == s.aux = [x \in Aux |-> 0] /\ s.retval = "none" /\ s.closed = 0
           Same(s) == /\ DOMAIN s = DOMAIN p
                      /\ s.async = p.async /\ s.ostr = p.ostr
                      /\ s.got = p.got /\ s.fired = p.fired
                      /\ s.exc \in Exceptions \cup {"none"}
<1>7. /\ Same(a) /\ Untouched(a)
      /\ a.exc = "none" => /\ Calling(a) /\ a.object \in Objects /\ a.error = "none"
                           /\ a.others = [x \in Aux |-> x]
  <2>1. \/ a = [p EXCEPT !.others = [x \in Aux |-> x]]
        \/ \E x \in {"Fault", "Exception"} : a = [p EXCEPT !.exc = x]
    BY DEF Null!Contexts, Null!Returns, Null!Raises, Null!Aux, Aux
  <2> QED
    BY <2>1 DEF Calling, Running, Fields, Exceptions
<1>8. /\ Same(b) /\ Untouched(b)
      /\ b.exc = "none" => Calling(b) /\ b.others = [x \in Aux |-> x]
  <2>1. CASE a.exc = "none"
    <3>1. b \in ProcessRequest(a)
      BY <1>5, <2>1
    <3>2. /\ Kept(a, b, {"exc", "events", "error", "object", "raised"})
          /\ b.exc \in Exceptions \cup {"none"}
      BY <1>7, <2>1, <3>1, ProcessRequestRule DEF Calling
    <3> QED
      BY <1>7, <2>1, <3>2 DEF Kept, Calling, Running, Fields
  <2>2. CASE a.exc # "none"
    BY <1>5, <1>7, <2>2
  <2> QED
    BY <2>1, <2>2
<1>9. /\ Same(d) /\ d.aux = [x \in Aux |-> 0] /\ d.closed = 0
      /\ d.exc # "none" => d.retval = "none"
      /\ d.exc = "none" =>
            /\ Running(d) /\ d.others = [x \in Aux |-> x]
            /\ \/ d.retval = "deferred" /\ d.async /\ d.document = "none" /\ d.string = "none"
               \/ d.retval = "result" /\ d.error = "none" /\ (d.ostr => d.string = "result")
  <2>1. CASE b.exc = "none"
    <3>1. d \in Null!Primary(b)
      BY <1>4, <2>1
    <3>2. /\ Kept(b, d, {"exc", "document", "string", "raised", "retval"})
          /\ d.exc \in Exceptions \cup {"none"}
          /\ d.exc # "none" => d.retval = "none"
          /\ d.exc = "none" =>
               \/ /\ d.retval = "deferred" /\ b.async
                  /\ d.document = "none" /\ d.string = "none"
               \/ /\ d.retval = "result" /\ b.error = "none"
                  /\ b.ostr => d.string = "result"
      BY <1>8, <2>1, <3>1, PrimaryRule
    <3> QED
      BY <1>8, <2>1, <3>2 DEF Kept, Calling, Running, Fields
  <2>2. CASE b.exc # "none"
    BY <1>4, <1>8, <2>2
  <2> QED
    BY <2>1, <2>2
<1>10. CASE d.exc # "none"
  <2>1. c = d
    BY <1>3, <1>6, <1>10
  <2>2. \A x \in Aux : c.aux[x] = 0
    BY <1>9, <2>1
  <2>3. Concluded(c)
    BY <1>9, <1>10, <2>1, <2>2 DEF Concluded
  <2> QED
    BY <1>9, <2>1, <2>3
<1>11. CASE d.exc = "none"
  <2>1. e \in Null!ProcessAux(d)
    BY <1>3, <1>11
  <2>2. /\ Kept(d, e, {"exc", "raised", "aux"})
        /\ e.exc \in {"none", "Exception"}
        /\ \A x, y \in Aux : x <= y => 1 >= e.aux[x] /\ e.aux[x] >= e.aux[y]
        /\ e.exc = "none" => \A x \in Aux : e.aux[x] = 1
    BY <1>9, <1>11, <2>1, ProcessAuxRule
  <2>3. /\ Same(e) /\ e.closed = 0
        /\ \/ e.retval = "deferred" /\ e.async /\ e.document = "none" /\ e.string = "none"
           \/ e.retval = "result" /\ e.error = "none" /\ (e.ostr => e.string = "result")
        /\ e.exc = "none" => Running(e)
    <3>1. {"async", "ostr", "got", "fired"} \subseteq DOMAIN d
      BY <1>9 DEF Calling
    <3>2. /\ e.async = d.async /\ e.ostr = d.ostr /\ e.got = d.got /\ e.fired = d.fired
          /\ DOMAIN e = DOMAIN d
      BY <2>2, <3>1 DEF Kept
    <3>3. {"closed", "retval", "document", "string", "error"} \subseteq DOMAIN d
      BY <1>9 DEF Calling, Running, Fields
    <3>4. /\ e.closed = d.closed /\ e.retval = d.retval /\ e.document = d.document
          /\ e.string = d.string /\ e.error = d.error
      BY <2>2, <3>3 DEF Kept
    <3>5. e.exc = "none" => Running(e)
      BY <1>9, <1>11, <3>2 DEF Running
    <3> QED
      BY <1>9, <1>11, <2>2, <3>2, <3>4, <3>5 DEF Exceptions
  <2>4. CASE e.exc # "none" \/ e.async
    <3>1. c = e
      BY <1>6, <2>4
    <3> QED
      BY <2>2, <2>3, <2>4, <3>1 DEF Concluded
  <2>5. CASE e.exc = "none" /\ ~e.async
    <3>1. c \in Close(e)
      BY <1>6, <2>5
    <3>2. /\ Kept(e, c, {"exc", "events", "raised", "closed"})
          /\ c.exc \in Exceptions \cup {"none"}
          /\ c.exc # "none" => c.closed = 0
          /\ c.exc = "none" => c.closed = 1
      BY <2>3, <2>5, <3>1, CloseRule
    <3>3. Same(c) /\ c.aux = e.aux /\ c.retval = e.retval /\ c.error = e.error
             /\ c.string = e.string
      <4>1. {"async", "ostr", "got", "fired", "aux", "retval", "error", "string"}
                \subseteq DOMAIN e
        BY <2>3 DEF Calling, Running, Fields
      <4> QED
        BY <2>3, <3>2, <4>1 DEF Kept
    <3> QED
      BY <2>2, <2>3, <2>5, <3>2, <3>3 DEF Concluded
  <2> QED
    BY <2>4, <2>5
<1> QED
  BY <1>10, <1>11

LEMMA NewCallRule ==
    ASSUME NEW many \in BOOLEAN, NEW async \in BOOLEAN, NEW ostr \in BOOLEAN,
           NEW p, p = Null!NewCall(many, async, ostr)
    PROVE  /\ Calling(p)
           /\ p.object \in Objects /\ p.error = "none" /\ p.retval = "none"
           /\ p.got = "none" /\ p.fired = "none" /\ p.aux = [a \in Aux |-> 0]
<1> DEFINE r == NewRequest(many)
           more == [async |-> async, ostr |-> ostr, retval |-> "none", got |-> "none",
                    fired |-> "none"]
<1>1. p = WithFields(r, more)
  BY DEF Null!NewCall, Null!WithFields, Null!NewRequest, Null!NewContext, Null!NoObject,
         Null!Bare, Null!Aux, WithFields, NewRequest, NewContext, NoObject, Bare, Aux
<1>2. /\ DOMAIN r = Fields
      /\ r.exc = "none" /\ r.error = "none" /\ r.object = NoObject
      /\ r.others = <<>> /\ r.aux = [a \in Aux |-> 0]
      /\ r.document = "none" /\ r.string = "none" /\ r.closed = 0
  BY NewFields
<1>3. NoObject \in Objects
  BY DEF Objects
<1> HIDE DEF r, more
<1>4. Joined(p, r, more)
  BY <1>1, WithFieldsRule
<1> QED
  BY <1>2, <1>3, <1>4 DEF Joined, Calling, Running, Fields, more

\* A call is as it was made or concluded as it should be; while the Deferred is
\* awaited no document has been made.
CallInv ==
    \/ \E many, async, ostr \in BOOLEAN : call = Null!NewCall(many, async, ostr)
    \/ /\ call.got # "none" /\ NullContract
       /\ call.got = "deferred" /\ call.fired = "none" =>
              Calling(call) /\ call.retval = "deferred"

LEMMA InvokeStep == CallInv /\ Null!Invoke => CallInv'
<1> SUFFICES ASSUME CallInv, Null!Invoke
             PROVE  CallInv'
  OBVIOUS
<1>1. PICK c \in Null!Call(call) :
          call' = [c EXCEPT !.exc = "none",
                            !.got = IF c.exc = "none" THEN c.retval ELSE c.exc]
  BY DEF Null!Invoke
<1>2. \E many, async, ostr \in BOOLEAN : call = Null!NewCall(many, async, ostr)
  BY DEF Null!Invoke, CallInv
<1>3. /\ Calling(call)
      /\ call.object \in Objects /\ call.error = "none" /\ call.retval = "none"
      /\ call.got = "none" /\ call.fired = "none" /\ call.aux = [a \in Aux |-> 0]
  BY <1>2, NewCallRule
<1>4. /\ DOMAIN c = DOMAIN call
      /\ c.async = call.async /\ c.ostr = call.ostr /\ c.fired = "none"
      /\ c.exc \in Exceptions \cup {"none"}
      /\ Concluded(c)
  BY <1>1, <1>3, NullCallRule
<1>5. /\ DOMAIN call' = DOMAIN call
      /\ call'.exc = "none"
      /\ call'.got = IF c.exc = "none" THEN c.retval ELSE c.exc
      /\ call'.aux = c.aux /\ call'.retval = c.retval /\ call'.closed = c.closed
      /\ call'.async = c.async /\ call'.ostr = c.ostr /\ call'.fired = c.fired
      /\ call'.error = c.error /\ call'.document = c.document /\ call'.string = c.string
  BY <1>1, <1>3, <1>4 DEF Calling, Running, Fields
<1>6. call'.got # "none" /\ (call'.got \in {"result", "deferred"} => c.exc = "none")
  BY <1>4, <1>5 DEF Concluded, Exceptions
<1>7. Null!HonestResult'
  BY <1>4, <1>5, <1>6 DEF Null!HonestResult, Concluded
<1>8. Null!ClosedOnReturn'
  BY <1>3, <1>4, <1>5, <1>6 DEF Null!ClosedOnReturn, Concluded, Calling
<1>9. Null!AuxFollowReturn'
  BY <1>4, <1>5, <1>6 DEF Null!AuxFollowReturn, Concluded, Null!Aux, Aux
<1>10. call'.got = "deferred" => Calling(call)' /\ call'.retval = "deferred"
  BY <1>3, <1>4, <1>5, <1>6 DEF Concluded, Calling, Running, Fields
<1> QED
  BY <1>6, <1>7, <1>8, <1>9, <1>10 DEF CallInv, NullContract

LEMMA DeferredFiresStep == CallInv /\ Null!DeferredFires => CallInv'
<1> SUFFICES ASSUME CallInv, Null!DeferredFires
             PROVE  CallInv'
  OBVIOUS
<1>1. call.got = "deferred" /\ call.fired = "none"
  BY DEF Null!DeferredFires
<1>2. NullContract /\ Calling(call) /\ call.retval = "deferred"
  BY <1>1, NewCallRule DEF CallInv
<1> DEFINE Ended(fired) ==
        /\ call'.got = "deferred" /\ call'.fired = fired /\ fired # "none"
        /\ call'.aux = call.aux /\ call'.retval # "none" /\ call'.closed = 0
        /\ fired = "result" =>
               call'.error = "none" /\ (call'.ostr => call'.string = "result")
<1>3. ASSUME NEW c \in Null!CbSync([call EXCEPT !.object = Null!List(<<"value">>)]),
             call' = [c EXCEPT !.exc = "none",
                               !.fired = IF c.exc = "none" THEN c.retval ELSE c.exc]
      PROVE  \E fired : Ended(fired)
  <2> DEFINE p == [call EXCEPT !.object = Null!List(<<"value">>)]
  <2>1. Calling(p) /\ Kept(call, p, {"object"})
    BY <1>2 DEF Kept, Calling, Running, Fields
  <2>2. c \in Null!CbSync(p)
    BY <1>3
  <2> HIDE DEF p
  <2>3. /\ Kept(p, c, {"exc", "document", "string", "raised", "retval"})
        /\ c.exc \in Exceptions \cup {"none"}
        /\ c.exc # "none" => c.retval = p.retval
        /\ c.exc = "none" =>
             /\ c.retval = "result" /\ p.error = "none"
             /\ p.ostr => c.string = "result"
    BY <2>1, <2>2, CbSyncRule
  <2>4. {"got", "fired", "aux", "closed", "error", "ostr", "exc", "retval", "string"}
            \subseteq DOMAIN call
    BY <1>2 DEF Calling, Running, Fields
  <2>5. /\ p.got = call.got /\ p.aux = call.aux /\ p.closed = call.closed
        /\ p.retval = call.retval /\ DOMAIN p = DOMAIN call
    BY <2>1, <2>4 DEF Kept
  <2>6. /\ c.got = p.got /\ c.aux = p.aux /\ c.closed = p.closed
        /\ c.error = p.error /\ c.ostr = p.ostr /\ DOMAIN c = DOMAIN call
    BY <2>3, <2>4, <2>5 DEF Kept
  <2>7. /\ call'.fired = IF c.exc = "none" THEN c.retval ELSE c.exc
        /\ call'.got = c.got /\ call'.aux = c.aux /\ call'.closed = c.closed
        /\ call'.retval = c.retval /\ call'.error = c.error /\ call'.ostr = c.ostr
        /\ call'.string = c.string
    BY <1>3, <2>4, <2>6
  <2>8. Ended(call'.fired)
    BY <1>1, <1>2, <2>3, <2>5, <2>6, <2>7 DEF Calling, Exceptions
  <2> QED
    BY <2>8
<1>4. ASSUME call' = [call EXCEPT !.fired = "Exception"]
      PROVE  Ended("Exception")
  BY <1>1, <1>2, <1>4 DEF Calling, Running, Fields
<1>5. PICK fired : Ended(fired)
  BY <1>3, <1>4 DEF Null!DeferredFires
<1>6. Null!HonestResult'
  BY <1>5 DEF Null!HonestResult
<1>7. Null!ClosedOnReturn'
  BY <1>5 DEF Null!ClosedOnReturn
<1>8. Null!AuxFollowReturn'
  BY <1>1, <1>2, <1>5 DEF Null!AuxFollowReturn, NullContract
<1> QED
  BY <1>5, <1>6, <1>7, <1>8 DEF CallInv, NullContract

LEMMA CallStep == CallInv /\ [Next]_vars => CallInv'
<1>1. CallInv /\ UNCHANGED call => CallInv'
  BY DEF CallInv, NullContract, Null!HonestResult, Null!ClosedOnReturn,
         Null!AuxFollowReturn, Calling, Running
<1> QED
  BY <1>1, InvokeStep, DeferredFiresStep
  DEF Next, vars, NullStep, Null!Next, DjangoStep, SocketReceives, SocketFires,
      ClientsStep, Arrives, Works

\* The caller gets no value of a method that failed and no unserialized one for a
\* string; a context is closed exactly when a synchronous call returns, and the
\* auxiliary methods run exactly after a method that did not fail.
THEOREM NullAnswers == FairSpec => []NullContract
<1>1. Init => CallInv
  BY DEF Init, Null!Init, CallInv
<1>2. CallInv => NullContract
  <2> SUFFICES ASSUME \E many, async, ostr \in BOOLEAN :
                          call = Null!NewCall(many, async, ostr)
               PROVE  NullContract
    BY DEF CallInv
  <2>1. /\ Calling(call) /\ call.got = "none" /\ call.fired = "none"
        /\ call.aux = [a \in Aux |-> 0]
    BY NewCallRule
  <2> QED
    BY <2>1 DEF NullContract, Null!HonestResult, Null!ClosedOnReturn,
                Null!AuxFollowReturn, Calling, Null!Aux, Aux
<1> QED
  BY <1>1, <1>2, CallStep, PTL DEF FairSpec

-----------------------------------------------------------------------------
(* The ZeroMQ pool.                                                        *)

\* A client waits for every request of it that is in an inbox, so that there is
\* one at most.
PoolInv ==
    /\ inbox \in [Worker -> Seq(Client)]
    /\ turn \in Worker
    /\ \A v, w \in Worker : \A i \in DOMAIN inbox[v], j \in DOMAIN inbox[w] :
           inbox[v][i] = inbox[w][j] => v = w /\ i = j
    /\ \A w \in Worker : \A i \in DOMAIN inbox[w] : inbox[w][i] \in waiting
    /\ DOMAIN served = Client
    /\ AuxBeforeAnswer

\* A request whose response leaves has all its auxiliary methods behind it.
LEMMA ServedRule ==
    ASSUME NEW s \in Served
    PROVE  s.reply # "none" => \A a \in 1 .. s.others : s.aux[a] = 1
<1> DEFINE invoked(r) == IF r.error = "none" THEN GetOutObject(r) ELSE {r}
           reply(x) == [x EXCEPT !.reply = x.string]
           more == [reply |-> "none"]
           p == WithFields(NewRequest(FALSE), more)
           called == UNION {IF r.exc = "none" THEN invoked(r) ELSE {r} : r \in Receive(p)}
           strings == UNION {IF d.exc = "none" THEN GetOutString(d) ELSE {d} : d \in called}
           aux == UNION {IF e.exc = "none" THEN ProcessContexts(e, FALSE) ELSE {e} :
                         e \in strings}
           replied == UNION {IF x.exc = "none" THEN {reply(x)} ELSE {x} : x \in aux}
<1>1. Serve(p) = UNION {IF y.exc = "none" THEN Close(y) ELSE {y} : y \in replied}
  BY DEF Serve, Then
<1>2. PICK c \in Serve(p) : s = Summary(c)
  BY DEF Served
<1>3. PICK y \in replied : c \in IF y.exc = "none" THEN Close(y) ELSE {y}
  <2> HIDE DEF replied, p
  <2> QED
    BY <1>1, <1>2
<1>4. PICK x \in aux : y \in IF x.exc = "none" THEN {reply(x)} ELSE {x}
  <2> HIDE DEF aux
  <2> QED
    BY <1>3
<1>5. PICK e \in strings : x \in IF e.exc = "none" THEN ProcessContexts(e, FALSE) ELSE {e}
  <2> HIDE DEF strings
  <2> QED
    BY <1>4
<1>6. PICK d \in called : e \in IF d.exc = "none" THEN GetOutString(d) ELSE {d}
  <2> HIDE DEF called
  <2> QED
    BY <1>5
<1>7. PICK r \in Receive(p) : d \in IF r.exc = "none" THEN invoked(r) ELSE {r}
  <2> HIDE DEF invoked, p
  <2> QED
    BY <1>6
<1> HIDE DEF replied, aux, strings, called
<1> DEFINE Base(q) == /\ Fields \cup {"reply"} \subseteq DOMAIN q
                      /\ q.reply = "none"
                      /\ q.aux = [a \in Aux |-> 0]
                      /\ q.others \in {<<>>, [i \in Aux |-> i]}
<1>8. Base(p) /\ p.exc = "none" /\ p.object \in Objects /\ p.error = "none" /\ p.others = <<>>
  <2> DEFINE n == NewRequest(FALSE)
  <2>1. /\ DOMAIN n = Fields
        /\ n.exc = "none" /\ n.error = "none" /\ n.object = NoObject
        /\ n.others = <<>> /\ n.aux = [a \in Aux |-> 0]
    BY NewFields
  <2>2. NoObject \in Objects
    BY DEF Objects
  <2> HIDE DEF n, more
  <2>3. Joined(p, n, more)
    BY WithFieldsRule DEF n
  <2> HIDE DEF p
  <2> QED
    BY <2>1, <2>2, <2>3 DEF Joined, Fields, more
<1> HIDE DEF p
<1>9. Base(r) /\ r.object \in Objects
  <2>1. /\ Kept(p, r, {"exc", "events", "error", "raised", "others"})
        /\ r.others \in {<<>>, [i \in Aux |-> i]}
    BY <1>7, <1>8, ReceiveRule DEF Running
  <2> QED
    BY <1>8, <2>1 DEF Kept, Fields
<1>10. Base(d)
  <2>1. CASE r.exc = "none" /\ r.error = "none"
    <3>1. Kept(r, d, {"exc", "events", "error", "object", "raised"})
      BY <1>7, <1>9, <2>1, GetOutObjectRule DEF Running
    <3> QED
      BY <1>9, <3>1 DEF Kept, Fields
  <2>2. CASE ~(r.exc = "none" /\ r.error = "none")
    BY <1>7, <1>9, <2>2
  <2> QED
    BY <2>1, <2>2
<1>11. Base(e)
  <2>1. CASE d.exc = "none"
    <3>1. Kept(d, e, {"exc", "document", "string", "raised"})
      BY <1>6, <1>10, <2>1, GetOutStringRule DEF Running
    <3> QED
      BY <1>10, <3>1 DEF Kept, Fields
  <2>2. CASE d.exc # "none"
    BY <1>6, <1>10, <2>2
  <2> QED
    BY <2>1, <2>2
<1>12. /\ {"exc", "reply", "aux", "others", "closed"} \subseteq DOMAIN x
       /\ Fields \subseteq DOMAIN x
       /\ x.reply = "none"
       /\ x.others \in {<<>>, [i \in Aux |-> i]}
       /\ x.exc = "none" /\ x.others # <<>> => \A a \in Aux : x.aux[a] = 1
  <2>1. CASE e.exc = "none"
    <3>1. x \in ProcessContexts(e, FALSE)
      BY <1>5, <2>1
    <3>2. e.aux \in [Aux -> Nat] /\ Running(e)
      BY <1>11, <2>1 DEF Running
    <3>3. /\ Kept(e, x, {"exc", "raised", "aux"})
          /\ x.exc = "none" /\ e.others # <<>> => \A a \in Aux : x.aux[a] = e.aux[a] + 1
      BY <1>11, <3>1, <3>2, ContextsRule
    <3> QED
      BY <1>11, <3>3 DEF Kept, Fields
  <2>2. CASE e.exc # "none"
    BY <1>5, <1>11, <2>2 DEF Fields
  <2> QED
    BY <2>1, <2>2
<1>13. y.others = x.others /\ y.aux = x.aux /\ Fields \cup {"reply"} \subseteq DOMAIN y
         /\ (y.reply # "none" => x.exc = "none")
  BY <1>4, <1>12 DEF Fields
<1>14. c.others = y.others /\ c.aux = y.aux /\ c.reply = y.reply
  <2>1. CASE y.exc = "none"
    <3>1. Kept(y, c, {"exc", "events", "raised", "closed"})
      BY <1>3, <1>13, <2>1, CloseRule DEF Running
    <3> QED
      BY <1>13, <3>1 DEF Kept, Fields
  <2>2. CASE y.exc # "none"
    BY <1>3, <2>2
  <2> QED
    BY <2>1, <2>2
<1>15. s.reply = c.reply /\ s.others = Len(c.others) /\ s.aux = c.aux
  BY <1>2 DEF Summary
<1>16. Len(<<>>) = 0 /\ Len([i \in Aux |-> i]) = NAux
  BY ServerBaseAssumption DEF Aux
<1>17. 1 .. 0 = {}
  OBVIOUS
<1> QED
  <2>1. CASE x.others = <<>>
    <3>1. s.others = 0
      BY <1>13, <1>14, <1>15, <1>16, <2>1
    <3> QED
      BY <1>17, <3>1
  <2>2. CASE x.others = [i \in Aux |-> i] /\ x.others # <<>>
    <3>1. 1 .. s.others = Aux
      <4>1. c.others = [i \in Aux |-> i]
        BY <1>13, <1>14, <2>2
      <4>2. s.others = NAux
        BY <1>15, <1>16, <4>1
      <4> QED
        BY <4>2 DEF Aux
    <3>2. s.reply # "none" => \A a \in Aux : s.aux[a] = 1
      BY <1>12, <1>13, <1>14, <1>15, <2>2
    <3> QED
      BY <3>1, <3>2
  <2> QED
    BY <1>12, <2>1, <2>2

LEMMA UnservedRule == Unserved.reply = "none"
<1> DEFINE more == [reply |-> "none"]
           n == NewRequest(FALSE)
           p == WithFields(n, more)
<1>1. DOMAIN n = Fields
  BY NewFields
<1>2. Unserved.reply = p.reply
  BY DEF Unserved, Summary
<1> HIDE DEF n, more
<1>3. Joined(p, n, more)
  BY WithFieldsRule
<1> HIDE DEF p
<1> QED
  BY <1>1, <1>2, <1>3 DEF Joined, Fields, more

LEMMA SendStep ==
    ASSUME PoolInv, NEW c \in Client, Send(c)
    PROVE  PoolInv'
<1>1. \A w \in Worker : \A i \in DOMAIN inbox[w] : inbox[w][i] # c
  BY DEF PoolInv, Send
<1>2. turn' \in Worker
  BY ZeroMqPoolAssumption DEF PoolInv, Send, Worker, ZeroMqPoolAssumption
<1>3. /\ inbox' \in [Worker -> Seq(Client)]
      /\ \A w \in Worker \ {turn} : inbox'[w] = inbox[w]
      /\ inbox'[turn] = Append(inbox[turn], c)
  BY DEF PoolInv, Send
<1>4. /\ DOMAIN inbox'[turn] = DOMAIN inbox[turn] \cup {Len(inbox[turn]) + 1}
      /\ \A i \in DOMAIN inbox[turn] : inbox'[turn][i] = inbox[turn][i]
      /\ inbox'[turn][Len(inbox[turn]) + 1] = c
      /\ Len(inbox[turn]) + 1 \notin DOMAIN inbox[turn]
  BY <1>3 DEF PoolInv
<1>5. /\ waiting' = waiting \cup {c}
      /\ served' = [served EXCEPT ![c] = Unserved]
  BY DEF Send
<1>6. \A w \in Worker : \A i \in DOMAIN inbox'[w] :
          \/ i \in DOMAIN inbox[w] /\ inbox'[w][i] = inbox[w][i]
          \/ w = turn /\ i = Len(inbox[turn]) + 1 /\ inbox'[w][i] = c
  BY <1>3, <1>4
<1>7. \A v, w \in Worker : \A i \in DOMAIN inbox'[v], j \in DOMAIN inbox'[w] :
          inbox'[v][i] = inbox'[w][j] => v = w /\ i = j
  <2> SUFFICES ASSUME NEW v \in Worker, NEW w \in Worker,
                      NEW i \in DOMAIN inbox'[v], NEW j \in DOMAIN inbox'[w],
                      inbox'[v][i] = inbox'[w][j]
               PROVE  v = w /\ i = j
    OBVIOUS
  <2>1. /\ \/ i \in DOMAIN inbox[v] /\ inbox'[v][i] = inbox[v][i] /\ inbox'[v][i] # c
           \/ v = turn /\ i = Len(inbox[turn]) + 1 /\ inbox'[v][i] = c
        /\ \/ j \in DOMAIN inbox[w] /\ inbox'[w][j] = inbox[w][j] /\ inbox'[w][j] # c
           \/ w = turn /\ j = Len(inbox[turn]) + 1 /\ inbox'[w][j] = c
    BY <1>1, <1>6
  <2> QED
    BY <2>1 DEF PoolInv
<1>8. \A w \in Worker : \A i \in DOMAIN inbox'[w] : inbox'[w][i] \in waiting'
  BY <1>5, <1>6 DEF PoolInv
<1>9. AuxBeforeAnswer'
  BY <1>5, UnservedRule DEF PoolInv, AuxBeforeAnswer
<1> QED
  BY <1>2, <1>3, <1>5, <1>7, <1>8, <1>9 DEF PoolInv

LEMMA WorkStep ==
    ASSUME PoolInv, NEW w \in Worker, Work(w)
    PROVE  PoolInv'
<1> DEFINE h == Head(inbox[w])
<1>1. PICK s \in Served :
          /\ inbox' = [inbox EXCEPT ![w] = Tail(@)]
          /\ served' = [served EXCEPT ![h] = s]
          /\ waiting' \in {waiting, waiting \ {h}}
          /\ turn' = turn
  BY DEF Work
<1>2. inbox[w] \in Seq(Client) /\ inbox[w] # <<>>
  BY DEF PoolInv, Work
<1>3. /\ h = inbox[w][1] /\ 1 \in DOMAIN inbox[w] /\ h \in Client
      /\ Tail(inbox[w]) \in Seq(Client)
      /\ \A i \in DOMAIN Tail(inbox[w]) :
             i + 1 \in DOMAIN inbox[w] /\ Tail(inbox[w])[i] = inbox[w][i + 1] /\ i + 1 # 1
  BY <1>2
<1>4. /\ inbox' \in [Worker -> Seq(Client)]
      /\ inbox'[w] = Tail(inbox[w])
      /\ \A v \in Worker \ {w} : inbox'[v] = inbox[v]
  BY <1>1, <1>3 DEF PoolInv
<1> HIDE DEF h
<1> DEFINE Place(v, i) == IF v = w THEN i + 1 ELSE i
<1>5. \A v \in Worker : \A i \in DOMAIN inbox'[v] :
          /\ Place(v, i) \in DOMAIN inbox[v] /\ inbox'[v][i] = inbox[v][Place(v, i)]
          /\ i \in Nat
          /\ inbox[v][Place(v, i)] # h
  <2> SUFFICES ASSUME NEW v \in Worker, NEW i \in DOMAIN inbox'[v]
               PROVE  /\ Place(v, i) \in DOMAIN inbox[v]
                      /\ inbox'[v][i] = inbox[v][Place(v, i)]
                      /\ i \in Nat
                      /\ inbox[v][Place(v, i)] # h
    OBVIOUS
  <2>1. i \in Nat
    BY <1>4
  <2>2. CASE v = w
    <3>1. /\ i + 1 \in DOMAIN inbox[w] /\ inbox'[v][i] = inbox[w][i + 1] /\ i + 1 # 1
          /\ Place(v, i) = i + 1
      BY <1>3, <1>4, <2>2
    <3>2. inbox[w][i + 1] # h
      BY <1>3, <3>1 DEF PoolInv
    <3> QED
      BY <2>1, <2>2, <3>1, <3>2
  <2>3. CASE v # w
    BY <1>3, <1>4, <2>1, <2>3 DEF PoolInv
  <2> QED
    BY <2>2, <2>3
<1>6. \A u, v \in Worker : \A i \in DOMAIN inbox'[u], j \in DOMAIN inbox'[v] :
          inbox'[u][i] = inbox'[v][j] => u = v /\ i = j
  <2> SUFFICES ASSUME NEW u \in Worker, NEW v \in Worker,
                      NEW i \in DOMAIN inbox'[u], NEW j \in DOMAIN inbox'[v],
                      inbox'[u][i] = inbox'[v][j]
               PROVE  u = v /\ i = j
    OBVIOUS
  <2>1. u = v /\ Place(u, i) = Place(v, j) /\ i \in Nat /\ j \in Nat
    BY <1>5 DEF PoolInv
  <2> QED
    BY <2>1
<1>7. \A v \in Worker : \A i \in DOMAIN inbox'[v] : inbox'[v][i] \in waiting'
  BY <1>1, <1>5 DEF PoolInv
<1>8. AuxBeforeAnswer' /\ DOMAIN served' = Client
  BY <1>1, <1>3, ServedRule DEF PoolInv, AuxBeforeAnswer
<1> QED
  BY <1>1, <1>4, <1>6, <1>7, <1>8 DEF PoolInv

LEMMA PoolStep == PoolInv /\ [Next]_vars => PoolInv'
<1>1. PoolInv /\ UNCHANGED pool => PoolInv'
  BY DEF PoolInv, pool, AuxBeforeAnswer
<1> QED
  BY <1>1, SendStep, WorkStep
  DEF Next, vars, NullStep, DjangoStep, SocketReceives, SocketFires, ClientsStep,
      Arrives, Works

\* The positions of a client's requests are one at most.
LEMMA InboxesAgree == PoolInv => OneInbox
<1> SUFFICES ASSUME PoolInv, NEW c \in Client
             PROVE  /\ Cardinality({w \in Worker : Contains(inbox[w], c)}) <= 1
                    /\ (\E w \in Worker : Contains(inbox[w], c)) => c \in waiting
  BY DEF OneInbox
<1>1. \A w \in Worker : Contains(inbox[w], c) => \E i \in DOMAIN inbox[w] : inbox[w][i] = c
  BY DEF PoolInv, Contains
<1>2. \A v, w \in {w \in Worker : Contains(inbox[w], c)} : v = w
  BY <1>1 DEF PoolInv
<1> QED
  BY <1>1, <1>2, AtMostOne DEF PoolInv

-----------------------------------------------------------------------------
(* The websocket server.                                                   *)

LEMMA SocketSame ==
    ASSUME NEW p
    PROVE  /\ Socket!Receive(p) = Receive(p)
           /\ Socket!GetOutObject(p) = GetOutObject(p)
           /\ Socket!GetOutString(p) = GetOutString(p)
           /\ Socket!ProcessContexts(p, FALSE) = ProcessContexts(p, FALSE)
           /\ Socket!Close(p) = Close(p)
<1>1. Socket!Receive(p) = Receive(p)
  BY DEF Receive, ErrorObject, FireEvent, Blame, Returns, Raises, Aux, Exceptions,
         Socket!Receive, Socket!ErrorObject, Socket!FireEvent, Socket!Blame,
         Socket!Returns, Socket!Raises, Socket!Aux, Socket!Exceptions
<1>2. Socket!GetOutObject(p) = GetOutObject(p)
  BY DEF GetOutObject, ProcessRequest, Ignore, OnRedirect, ErrorObject, WrapObject,
         CallWrapper, FireEvent, Blame, List, Bare, Values, Then, Except, Returns, Raises,
         Exceptions, Socket!GetOutObject, Socket!ProcessRequest, Socket!Ignore,
         Socket!OnRedirect, Socket!ErrorObject, Socket!WrapObject, Socket!CallWrapper,
         Socket!FireEvent, Socket!Blame, Socket!List, Socket!Bare, Socket!Values,
         Socket!Then, Socket!Except, Socket!Returns, Socket!Raises, Socket!Exceptions
<1>3. Socket!GetOutString(p) = GetOutString(p)
  BY DEF GetOutString, Kind, Then, Raises, Blame,
         Socket!GetOutString, Socket!Kind, Socket!Then, Socket!Raises, Socket!Blame
<1>4. Socket!ProcessContexts(p, FALSE) = ProcessContexts(p, FALSE)
  BY DEF ProcessContexts, Ran, AuxRaises, Blame, Aux, ToSet, Socket!ProcessContexts,
         Socket!Ran, Socket!AuxRaises, Socket!Blame, Socket!Aux, Socket!ToSet
<1>5. Socket!Close(p) = Close(p)
  BY DEF Close, Then, FireEvent, Blame, Exceptions,
         Socket!Close, Socket!Then, Socket!FireEvent, Socket!Blame, Socket!Exceptions
<1> QED
  BY <1>1, <1>2, <1>3, <1>4, <1>5

Added == {"at", "once", "text", "deferred", "sent"}

\* A message whose handling has not raised.
Handled(p) == Running(p) /\ Added \subseteq DOMAIN p /\ p.document # "empty"

\* The response is joined and sent once it is serialized, and what raises behind
\* it is the closing of the context.  A generator is used up, sent or not.
LEMMA SendFrameRule ==
    ASSUME NEW p, Handled(p), p.string # "none", NEW c \in Socket!SendFrame(p)
    PROVE  /\ Kept(p, c, {"exc", "string", "raised", "sent"})
           /\ c.exc \in {"none", "Exception"}
           /\ c.string = IF p.once THEN "empty" ELSE p.string
           /\ c.sent = IF c.exc = "none" THEN Append(p.sent, p.string) ELSE p.sent
           /\ c.exc = "none" => p.text
           /\ c.exc # "none" /\ p.text => p.once /\ Kind(p) \in c.raised
<1> DEFINE joined == [p EXCEPT !.string = IF p.once THEN "empty" ELSE @]
           put == [joined EXCEPT !.sent = Append(@, p.string)]
           raising(what) == [Blame(joined, what) EXCEPT !.exc = "Exception"]
<1>1. \/ c = raising("frame") /\ ~p.text
      \/ c = put /\ p.text
      \/ c = raising(Kind(p)) /\ p.text /\ p.once
  BY DEF Socket!SendFrame, Socket!Raises, Socket!Blame, Socket!Kind, Kind, Blame
<1>2. /\ Kept(p, joined, {"string"}) /\ joined.raised = p.raised
      /\ joined.string = IF p.once THEN "empty" ELSE p.string
  BY DEF Kept, Handled, Running, Fields
<1> HIDE DEF joined
<1>3. {"exc", "raised", "sent", "string", "once", "text"} \subseteq DOMAIN p
  BY DEF Handled, Running, Fields, Added
<1>4. CASE c = put /\ p.text
  BY <1>2, <1>3, <1>4 DEF Kept, Handled, Running
<1>5. ASSUME NEW what, c = raising(what)
      PROVE  /\ Kept(p, c, {"exc", "string", "raised", "sent"}) /\ c.exc = "Exception"
             /\ c.string = joined.string /\ c.sent = p.sent /\ what \in c.raised
  BY <1>2, <1>3, <1>5 DEF Kept, Blame
<1> QED
  BY <1>1, <1>2, <1>4, <1>5

\* No frame was sent: a string is used up only if that is what failed.
Withheld(p, c) ==
    /\ c.sent = p.sent
    /\ c.string = "empty" =>
           p.string = "empty" \/ ~p.text \/ (p.once /\ Kind(p) \in c.raised)

\* The frame x was sent, which is the string that was there or a new one.
Framed(p, c, x) ==
    /\ c.sent = Append(p.sent, x) /\ p.text
    /\ c.string = IF p.once THEN "empty" ELSE x
    /\ IF p.string = "none" THEN x \notin {"none", "empty"} ELSE x = p.string

LEMMA Appended ==
    ASSUME NEW x, NEW y
    PROVE  Append(<<>>, x) = <<x>> /\ Append(<<x>>, y) = <<x, y>>
<1> DEFINE s == Append(<<x>>, y)
<1>1. Append(<<>>, x) = <<x>>
  OBVIOUS
<1>2. <<x>> \in Seq({x, y}) /\ <<x, y>> \in Seq({x, y})
  OBVIOUS
<1>3. Len(s) = 2 /\ s \in Seq({x, y}) /\ s[1] = x /\ s[2] = y
  BY <1>2
<1> HIDE DEF s
<1>4. s = <<x, y>>
  BY <1>2, <1>3
<1> QED
  BY <1>1, <1>4 DEF s

\* A frame that is the first one, and one that follows another.
LEMMA FramedRule ==
    ASSUME NEW p, NEW c, NEW x, Framed(p, c, x)
    PROVE  /\ p.sent = <<>> => c.sent = <<x>>
           /\ \A y : p.sent = <<y>> => c.sent = <<y, x>>
<1> DEFINE s == p.sent
<1>1. c.sent = Append(s, x)
  BY DEF Framed
<1> HIDE DEF s
<1>2. s = <<>> => c.sent = <<x>>
  BY <1>1, Appended
<1>3. ASSUME NEW y, s = <<y>>
      PROVE  c.sent = <<y, x>>
  <2>1. Append(<<y>>, x) = <<y, x>>
    BY Appended
  <2> QED
    BY <1>1, <1>3, <2>1
<1> QED
  BY <1>2, <1>3 DEF s

LEMMA RespondRule ==
    ASSUME NEW p, Handled(p), NEW c \in Socket!Respond(p)
    PROVE  /\ Kept(p, c, {"exc", "events", "document", "string", "raised", "closed", "sent"})
           /\ c.exc \in Exceptions \cup {"none"}
           /\ c.document # "empty"
           /\ Withheld(p, c) \/ \E x : Framed(p, c, x)
           /\ \/ c.exc = "none" \/ c.sent = p.sent
              \/ "method_context_closed" \in c.raised
<1> DEFINE frames == UNION {IF s.exc = "none" THEN Socket!SendFrame(s) ELSE {s} :
                            s \in Socket!GetOutString(p)}
<1>1. Socket!Respond(p) = UNION {IF d.exc = "none" THEN Socket!Close(d) ELSE {d} : d \in frames}
  BY DEF Socket!Respond, Socket!Then
<1>2. PICK d \in frames : c \in IF d.exc = "none" THEN Socket!Close(d) ELSE {d}
  <2> HIDE DEF frames
  <2> QED
    BY <1>1
<1>3. PICK s \in Socket!GetOutString(p) :
          d \in IF s.exc = "none" THEN Socket!SendFrame(s) ELSE {s}
  BY <1>2
<1> HIDE DEF frames
<1>4. /\ Kept(p, s, {"exc", "document", "string", "raised"})
      /\ s.exc \in {"none", "Fault", "Exception"}
      /\ s.document # "empty"
      /\ s.string = p.string \/ (p.string = "none" /\ s.string # "empty")
      /\ s.exc = "none" => s.string # "none"
  <2>1. s \in GetOutString(p)
    BY <1>3, SocketSame
  <2>2. Kind(p) # "empty"
    BY DEF Kind
  <2> QED
    BY <2>1, <2>2, GetOutStringRule DEF Handled
<1>5. {"sent", "string", "once", "text", "error", "exc", "document"} \subseteq DOMAIN p
  BY DEF Handled, Running, Fields, Added
<1>6. s.sent = p.sent /\ s.once = p.once /\ s.text = p.text /\ Kind(s) = Kind(p)
  BY <1>4, <1>5 DEF Kept, Kind
<1>7. CASE s.exc # "none"
  <2>1. c = s
    BY <1>2, <1>3, <1>7
  <2> QED
    BY <1>4, <1>6, <1>7, <2>1 DEF Kept, Exceptions, Withheld
<1>8. CASE s.exc = "none"
  <2>1. Handled(s)
    BY <1>4, <1>8 DEF Kept, Handled, Running
  <2>2. d \in Socket!SendFrame(s)
    BY <1>3, <1>8
  <2>3. /\ Kept(s, d, {"exc", "string", "raised", "sent"})
        /\ d.exc \in {"none", "Exception"}
        /\ d.string = IF s.once THEN "empty" ELSE s.string
        /\ d.sent = IF d.exc = "none" THEN Append(s.sent, s.string) ELSE s.sent
        /\ d.exc = "none" => s.text
        /\ d.exc # "none" /\ s.text => s.once /\ Kind(s) \in d.raised
    BY <1>4, <1>8, <2>1, <2>2, SendFrameRule
  <2>4. d.document = s.document /\ DOMAIN d = DOMAIN p
    BY <1>4, <1>5, <2>3 DEF Kept
  <2>5. CASE d.exc # "none"
    <3>1. c = d
      BY <1>2, <2>5
    <3>2. Withheld(p, d)
      <4>1. d.string = (IF p.once THEN "empty" ELSE s.string) /\ d.sent = p.sent
        BY <1>6, <2>3, <2>5
      <4>2. p.text => p.once /\ Kind(p) \in d.raised
        BY <1>6, <2>3, <2>5
      <4> QED
        BY <4>1, <4>2, <1>4 DEF Withheld
    <3> QED
      BY <1>4, <1>6, <2>3, <2>4, <2>5, <3>1, <3>2 DEF Kept, Exceptions
  <2>6. CASE d.exc = "none"
    <3>1. Running(d)
      BY <2>1, <2>3, <2>6 DEF Kept, Handled, Running
    <3>2. c \in Close(d)
      BY <1>2, <2>6, SocketSame
    <3>3. /\ Kept(d, c, {"exc", "events", "raised", "closed"})
          /\ c.exc \in Exceptions \cup {"none"}
          /\ c.exc # "none" => "method_context_closed" \in c.raised
      BY <3>1, <3>2, CloseRule
    <3>4. c.sent = d.sent /\ c.string = d.string /\ c.document = d.document
      BY <1>5, <2>4, <3>3 DEF Kept
    <3>5. Kept(p, c, {"exc", "events", "document", "string", "raised", "closed", "sent"})
      BY <1>4, <2>3, <3>3 DEF Kept
    <3>6. Framed(p, c, s.string)
      <4>1. /\ c.sent = Append(p.sent, s.string) /\ p.text
            /\ c.string = IF p.once THEN "empty" ELSE s.string
        BY <1>6, <2>3, <2>6, <3>4
      <4> QED
        BY <4>1, <1>4, <1>8 DEF Framed
    <3> QED
      BY <1>4, <2>4, <3>3, <3>4, <3>5, <3>6
  <2> QED
    BY <2>3, <2>5, <2>6
<1> QED
  BY <1>7, <1>8

\* What the callback leaves behind for a request that has had no response.
LEMMA CbDeferredRule ==
    ASSUME NEW p, Handled(p), p.sent = <<>>, p.string = "none", p.aux = [a \in Aux |-> 0],
           p.others \in {<<>>, [i \in Aux |-> i]},
           NEW c \in Socket!CbDeferred(p)
    PROVE  /\ DOMAIN c = DOMAIN p /\ p.raised \subseteq c.raised
           /\ c.exc \in Exceptions \cup {"none"}
           /\ c.error = p.error /\ c.deferred = p.deferred /\ c.at = p.at
           /\ c.once = p.once /\ c.text = p.text /\ c.document # "empty"
           /\ \/ c.sent = <<>> /\ (c.string = "empty" /\ c.text =>
                                       c.once /\ Kind(p) \in c.raised)
              \/ \E x : /\ c.sent = <<x>> /\ x \notin {"none", "empty"}
                         /\ c.string = IF p.once THEN "empty" ELSE x
           /\ \/ c.exc = "none" \/ c.sent = <<>>
              \/ c.raised \cap {"aux", "method_context_closed"} # {}
           /\ \A a \in Aux : c.aux[a] \in {0, 1}
           /\ \/ c.exc = "none" \/ "aux" \in c.raised
              \/ \A a \in Aux : c.aux[a] = 0
<1>1. PICK d \in Socket!Respond(p) : c \in IF d.exc = "none" THEN ProcessContexts(d, FALSE)
                                           ELSE {d}
  <2>1. PICK d \in Socket!Respond(p) :
            c \in IF d.exc = "none" THEN Socket!ProcessContexts(d, FALSE) ELSE {d}
    BY DEF Socket!CbDeferred, Socket!Then
  <2>2. Socket!ProcessContexts(d, FALSE) = ProcessContexts(d, FALSE)
    BY SocketSame
  <2> QED
    BY <2>1, <2>2
<1>2. /\ Kept(p, d, {"exc", "events", "document", "string", "raised", "closed", "sent"})
      /\ d.exc \in Exceptions \cup {"none"}
      /\ d.document # "empty"
      /\ Withheld(p, d) \/ \E x : Framed(p, d, x)
      /\ d.exc = "none" \/ d.sent = <<>> \/ "method_context_closed" \in d.raised
  BY <1>1, RespondRule
<1> DEFINE Reply(e) == \/ /\ e.sent = <<>>
                          /\ e.string = "empty" /\ p.text => p.once /\ Kind(p) \in e.raised
                       \/ \E x : /\ e.sent = <<x>> /\ x \notin {"none", "empty"}
                                  /\ e.string = IF p.once THEN "empty" ELSE x
<1>3. Reply(d)
  <2>1. CASE Withheld(p, d)
    BY <2>1 DEF Withheld
  <2>2. ASSUME NEW x, Framed(p, d, x)
        PROVE  Reply(d)
    <3>1. d.sent = <<x>>
      BY <2>2, FramedRule
    <3>2. x \notin {"none", "empty"} /\ d.string = IF p.once THEN "empty" ELSE x
      BY <2>2 DEF Framed
    <3> QED
      BY <3>1, <3>2
  <2> QED
    BY <1>2, <2>1, <2>2
<1> HIDE DEF Reply
<1>4. /\ d.error = p.error /\ d.deferred = p.deferred /\ d.at = p.at
      /\ d.once = p.once /\ d.text = p.text
      /\ d.aux = [a \in Aux |-> 0] /\ d.others = p.others
      /\ DOMAIN d = DOMAIN p /\ p.raised \subseteq d.raised
  BY <1>2 DEF Kept, Handled, Running, Fields, Added
<1>5. CASE d.exc # "none"
  <2>1. c = d
    BY <1>1, <1>5
  <2>2. \A a \in Aux : c.aux[a] = 0
    BY <1>4, <2>1
  <2> QED
    BY <1>2, <1>3, <1>4, <2>1, <2>2 DEF Reply
<1>6. CASE d.exc = "none"
  <2>1. c \in ProcessContexts(d, FALSE)
    BY <1>1, <1>6
  <2>2. Running(d) /\ d.aux \in [Aux -> Nat]
    BY <1>4, <1>6 DEF Handled, Running
  <2>3. /\ Kept(d, c, {"exc", "raised", "aux"})
        /\ c.exc \in {"none", "Exception"}
        /\ c.exc # "none" => "aux" \in c.raised
        /\ \A a \in Aux : c.aux[a] \in {d.aux[a], d.aux[a] + 1}
    BY <1>4, <2>1, <2>2, ContextsRule
  <2>4. \A a \in Aux : c.aux[a] \in {0, 1}
    BY <1>4, <2>3
  <2>5. {"error", "deferred", "at", "once", "text", "sent", "string", "document"} \subseteq DOMAIN d
    BY <1>4 DEF Handled, Running, Fields, Added
  <2>6. /\ c.error = d.error /\ c.deferred = d.deferred /\ c.at = d.at /\ c.sent = d.sent
        /\ c.once = d.once /\ c.text = d.text /\ c.document = d.document
        /\ c.string = d.string /\ DOMAIN c = DOMAIN d /\ d.raised \subseteq c.raised
    BY <2>3, <2>5 DEF Kept
  <2>7. Reply(c)
    BY <1>3, <2>6 DEF Reply
  <2>8. \/ c.sent = <<>> /\ (c.string = "empty" /\ c.text => c.once /\ Kind(p) \in c.raised)
        \/ \E x : /\ c.sent = <<x>> /\ x \notin {"none", "empty"}
                   /\ c.string = IF p.once THEN "empty" ELSE x
    BY <1>4, <2>6, <2>7 DEF Reply
  <2> QED
    BY <1>2, <1>4, <2>3, <2>4, <2>6, <2>8 DEF Exceptions
<1> QED
  BY <1>5, <1>6

LEMMA EbDeferredRule ==
    ASSUME NEW p, Handled(p), NEW exc, NEW c \in Socket!EbDeferred(p, exc)
    PROVE  /\ DOMAIN c = DOMAIN p /\ p.raised \subseteq c.raised
           /\ c.error # "none" /\ c.deferred = p.deferred /\ c.at = p.at /\ c.aux = p.aux
           /\ c.once = p.once
           /\ c.sent = p.sent \/ \E x : Framed(p, c, x)
<1> DEFINE error == IF exc = "Fault" THEN "Fault" ELSE "Server"
           d == [p EXCEPT !.error = error]
<1>1. c \in Socket!Respond(d)
  BY DEF Socket!EbDeferred
<1>2. error # "none"
  OBVIOUS
<1> HIDE DEF error
<1>3. Handled(d) /\ Kept(p, d, {"error"}) /\ d.error # "none"
  BY <1>2 DEF Handled, Kept, Running, Fields
<1> HIDE DEF d
<1>4. /\ Kept(d, c, {"exc", "events", "document", "string", "raised", "closed", "sent"})
      /\ Withheld(d, c) \/ \E x : Framed(d, c, x)
  BY <1>1, <1>3, RespondRule
<1>5. {"error", "deferred", "at", "sent", "string", "aux", "once", "text"} \subseteq DOMAIN p
  BY DEF Handled, Running, Fields, Added
<1>6. d.sent = p.sent /\ d.string = p.string /\ d.deferred = p.deferred /\ d.at = p.at
        /\ d.aux = p.aux /\ d.once = p.once /\ d.text = p.text /\ DOMAIN d = DOMAIN p
  BY <1>3, <1>5 DEF Kept
<1>7. /\ c.error = d.error /\ c.deferred = d.deferred /\ c.at = d.at /\ c.aux = d.aux
      /\ c.once = d.once
  BY <1>4, <1>5, <1>6 DEF Kept
<1>8. c.sent = p.sent \/ \E x : Framed(p, c, x)
  BY <1>4, <1>6 DEF Withheld, Framed
<1> QED
  BY <1>3, <1>4, <1>6, <1>7, <1>8 DEF Kept

\* A message that no response was made for.
Unanswered(p) ==
    /\ Handled(p)
    /\ p.sent = <<>> /\ p.error = "none" /\ p.string = "none"
    /\ p.aux = [a \in Aux |-> 0]
    /\ p.others \in {<<>>, [i \in Aux |-> i]}

\* frameReceived either leaves the response to a Deferred or makes one at most.
LEMMA FrameReceivedRule ==
    ASSUME NEW p, Unanswered(p), p.object \in Objects, p.others = <<>>,
           p.deferred = "none", NEW c \in Socket!FrameReceived(p)
    PROVE  /\ DOMAIN c = DOMAIN p
           /\ \/ c.deferred = "pending" /\ Unanswered(c)
              \/ /\ c.deferred = "none"
                 /\ c.sent = <<>> \/ \E x : c.sent = <<x>> /\ x # "empty"
                 /\ \A a \in Aux : c.aux[a] \in {0, 1}
<1> DEFINE invoked(r) == IF r.error = "none" THEN Socket!GetOutObject(r) ELSE {r}
           called == UNION {IF r.exc = "none" THEN invoked(r) ELSE {r} : r \in Socket!Receive(p)}
<1>1. PICK d \in called :
          \/ d.exc # "none" /\ c = d
          \/ d.exc = "none" /\ c \in Socket!CbDeferred(d)
          \/ d.exc = "none" /\ c = [d EXCEPT !.exc = "Exception"]
          \/ d.exc = "none" /\ d.error = "none" /\ c = [d EXCEPT !.deferred = "pending"]
  <2> DEFINE answer(d) == IF d.error # "none" THEN Socket!CbDeferred(d)
                          ELSE IF d.object = Socket!List(<<>>) THEN Socket!Raises(d, "Exception")
                          ELSE CASE Socket!First(d) = "deferred" ->
                                      {[d EXCEPT !.deferred = "pending"]}
                                 [] Socket!First(d) = "push" -> Socket!Raises(d, "Exception")
                                 [] OTHER -> Socket!CbDeferred(d)
  <2>1. Socket!FrameReceived(p) =
            UNION {IF d.exc = "none" THEN answer(d) ELSE {d} : d \in called}
    BY DEF Socket!FrameReceived, Socket!Then
  <2>2. PICK d \in called : c \in IF d.exc = "none" THEN answer(d) ELSE {d}
    <3> HIDE DEF called, answer
    <3> QED
      BY <2>1
  <2> HIDE DEF called
  <2> QED
    BY <2>2 DEF Socket!Raises
<1>2. PICK r \in Socket!Receive(p) : d \in IF r.exc = "none" THEN invoked(r) ELSE {r}
  <2> HIDE DEF invoked
  <2> QED
    BY <1>1
<1> HIDE DEF called
<1>3. /\ Kept(p, r, {"exc", "events", "error", "raised", "others"})
      /\ r.others \in {<<>>, [i \in Aux |-> i]}
  <2>1. r \in Receive(p)
    BY <1>2, SocketSame
  <2> QED
    BY <2>1, ReceiveRule DEF Unanswered, Handled
<1>4. Kept(p, d, {"exc", "events", "error", "object", "raised", "others"})
        /\ d.others \in {<<>>, [i \in Aux |-> i]}
  <2>1. CASE r.exc = "none" /\ r.error = "none"
    <3>1. d \in GetOutObject(r)
      BY <1>2, <2>1, SocketSame
    <3>2. Running(r) /\ r.object \in Objects
      BY <1>3, <2>1 DEF Kept, Unanswered, Handled, Running, Fields
    <3>3. Kept(r, d, {"exc", "events", "error", "object", "raised"})
      BY <2>1, <3>1, <3>2, GetOutObjectRule
    <3> QED
      BY <1>3, <3>2, <3>3 DEF Kept, Running, Fields
  <2>2. CASE ~(r.exc = "none" /\ r.error = "none")
    <3>1. d = r
      BY <1>2, <2>2
    <3> QED
      BY <1>3, <3>1 DEF Kept
  <2> QED
    BY <2>1, <2>2
<1>5. /\ DOMAIN d = DOMAIN p /\ d.sent = <<>> /\ d.deferred = "none"
      /\ d.aux = [a \in Aux |-> 0] /\ d.string = "none"
      /\ d.exc = "none" => Handled(d)
  BY <1>4 DEF Kept, Unanswered, Handled, Running, Fields, Added
<1>6. CASE d.exc # "none" /\ c = d
  BY <1>5, <1>6
<1>7. CASE d.exc = "none" /\ c \in Socket!CbDeferred(d)
  BY <1>4, <1>5, <1>7, CbDeferredRule
<1>8. CASE d.exc = "none" /\ c = [d EXCEPT !.exc = "Exception"]
  <2>1. /\ DOMAIN c = DOMAIN d /\ c.sent = d.sent /\ c.deferred = d.deferred
        /\ c.aux = d.aux
    BY <1>5, <1>8 DEF Handled, Running, Fields, Added
  <2> QED
    BY <1>5, <2>1
<1>9. CASE d.exc = "none" /\ d.error = "none" /\ c = [d EXCEPT !.deferred = "pending"]
  <2>1. /\ Kept(d, c, {"deferred"}) /\ c.deferred = "pending"
    BY <1>5, <1>9 DEF Kept, Handled, Running, Fields, Added
  <2>2. {"sent", "aux", "others", "error", "exc", "string", "document"} \subseteq DOMAIN d
    BY <1>5, <1>9 DEF Handled, Running, Fields, Added
  <2>3. /\ c.sent = d.sent /\ c.aux = d.aux /\ c.others = d.others /\ c.error = d.error
        /\ c.exc = d.exc /\ c.string = d.string /\ c.document = d.document
        /\ DOMAIN c = DOMAIN d
    BY <2>1, <2>2 DEF Kept
  <2> QED
    BY <1>4, <1>5, <1>9, <2>1, <2>3 DEF Unanswered, Handled, Running
<1> QED
  BY <1>1, <1>6, <1>7, <1>8, <1>9

LEMMA NewMessageRule ==
    ASSUME NEW many \in BOOLEAN, NEW once \in BOOLEAN, NEW text \in BOOLEAN,
           NEW p, p = Socket!NewMessage(many, once, text)
    PROVE  /\ Unanswered(p) /\ p.object \in Objects /\ p.others = <<>>
           /\ p.deferred = "none" /\ p.at = "arrived"
<1> DEFINE r == NewRequest(many)
           more == [at |-> "arrived", once |-> once, text |-> text,
                    deferred |-> "none", sent |-> <<>>]
<1>1. p = WithFields(r, more)
  BY DEF Socket!NewMessage, Socket!WithFields, Socket!NewRequest, Socket!NewContext,
         Socket!NoObject, Socket!Bare, Socket!Aux, WithFields, NewRequest, NewContext,
         NoObject, Bare, Aux
<1>2. /\ DOMAIN r = Fields
      /\ r.exc = "none" /\ r.error = "none" /\ r.object = NoObject
      /\ r.others = <<>> /\ r.aux = [a \in Aux |-> 0]
      /\ r.document = "none" /\ r.string = "none"
  BY NewFields
<1>3. NoObject \in Objects
  BY DEF Objects
<1> HIDE DEF r, more
<1>4. Joined(p, r, more)
  BY <1>1, WithFieldsRule
<1> QED
  BY <1>2, <1>3, <1>4 DEF Joined, Unanswered, Handled, Running, Fields, Added, more

\* A message is as it arrived, or its response is left to a Deferred, or it has
\* been responded to as it should be.
MessageInv ==
    \/ \E many, once, text \in BOOLEAN : message = Socket!NewMessage(many, once, text)
    \/ /\ message.at # "arrived"
       /\ message.deferred = "pending" => Unanswered(message)
       /\ Socket!OneResponse /\ Socket!AuxUnlessFailed

LEMMA ReceivesStep == MessageInv /\ Socket!Receives => MessageInv'
<1> SUFFICES ASSUME MessageInv, Socket!Receives
             PROVE  MessageInv'
  OBVIOUS
<1>1. PICK c \in Socket!FrameReceived(message) :
          message' = [c EXCEPT !.exc = "none",
                               !.at = IF c.exc = "none" THEN "received" ELSE "dropped"]
  BY DEF Socket!Receives
<1>2. /\ Unanswered(message) /\ message.object \in Objects /\ message.others = <<>>
      /\ message.deferred = "none"
  <2>1. PICK many, once, text \in BOOLEAN : message = Socket!NewMessage(many, once, text)
    BY DEF Socket!Receives, MessageInv
  <2> QED
    BY <2>1, NewMessageRule
<1>3. /\ DOMAIN c = DOMAIN message
      /\ \/ c.deferred = "pending" /\ Unanswered(c)
         \/ /\ c.deferred = "none"
            /\ c.sent = <<>> \/ \E x : c.sent = <<x>> /\ x # "empty"
            /\ \A a \in Aux : c.aux[a] \in {0, 1}
  BY <1>1, <1>2, FrameReceivedRule
<1>4. /\ Fields \cup Added \subseteq DOMAIN c
  BY <1>2, <1>3 DEF Unanswered, Handled, Running
<1>5. /\ message'.exc = "none" /\ DOMAIN message' = DOMAIN c
      /\ message'.at = (IF c.exc = "none" THEN "received" ELSE "dropped")
      /\ message'.deferred = c.deferred /\ message'.sent = c.sent
      /\ message'.aux = c.aux /\ message'.others = c.others /\ message'.error = c.error
      /\ message'.string = c.string /\ message'.document = c.document
  BY <1>1, <1>4 DEF Fields, Added
<1>6. message'.at # "arrived"
  BY <1>5
<1>7. message'.deferred = "pending" => Unanswered(message)'
  BY <1>3, <1>4, <1>5 DEF Unanswered, Handled, Running
<1>8. message'.sent = <<>> \/ \E x : message'.sent = <<x>> /\ x # "empty"
  BY <1>3, <1>5 DEF Unanswered
<1>9. Socket!OneResponse'
  <2>1. CASE message'.sent = <<>>
    BY <2>1 DEF Socket!OneResponse
  <2>2. ASSUME NEW x, message'.sent = <<x>>, x # "empty"
        PROVE  Socket!OneResponse'
    <3>1. Len(message'.sent) = 1 /\ message'.sent[1] # "empty"
      BY <2>2
    <3> QED
      BY <3>1 DEF Socket!OneResponse
  <2> QED
    BY <1>8, <2>1, <2>2
<1>10. \A a \in Aux : message'.aux[a] <= 1
  BY <1>3, <1>5 DEF Unanswered
<1>11. Socket!AuxUnlessFailed'
  BY <1>3, <1>5, <1>10 DEF Socket!AuxUnlessFailed, Socket!Aux, Aux
<1> QED
  BY <1>6, <1>7, <1>9, <1>11 DEF MessageInv

LEMMA SocketFiresStep ==
    MessageInv /\ (Socket!DeferredFires \/ Socket!DeferredFails) => MessageInv'
<1> SUFFICES ASSUME MessageInv, Socket!DeferredFires \/ Socket!DeferredFails
             PROVE  MessageInv'
  OBVIOUS
<1> DEFINE p == Socket!Fired
<1>1. Unanswered(message) /\ message.at # "arrived"
  BY NewMessageRule DEF Socket!DeferredFires, Socket!DeferredFails, MessageInv
<1>2. /\ Kept(message, p, {"deferred"}) /\ p.deferred = "fired"
  BY <1>1 DEF Socket!Fired, Kept, Unanswered, Handled, Running, Fields, Added
<1>3. Unanswered(p) /\ p.at # "arrived" /\ p.deferred = "fired" /\ Kind(p) = "result"
  BY <1>1, <1>2 DEF Kept, Unanswered, Handled, Running, Fields, Added, Kind
<1> HIDE DEF p
<1> DEFINE Wrong(c) == c.raised \cap {"aux", "method_context_closed"} # {}
           Ended(c) == /\ DOMAIN c = DOMAIN p
                       /\ c.deferred = "fired" /\ c.at # "arrived"
                       /\ \/ c.sent = <<>> \/ \E x : c.sent = <<x>> /\ x # "empty"
                          \/ c.sent = <<"empty">> /\ c.once /\ "result" \in c.raised
                          \/ /\ Wrong(c)
                             /\ \E x : /\ x # "empty"
                                       /\ c.sent = <<x, IF c.once THEN "empty" ELSE x>>
                       /\ \A a \in Aux : c.aux[a] \in {0, 1}
                       /\ \/ c.error = "none" \/ "aux" \in c.raised
                          \/ \A a \in Aux : c.aux[a] = 0
<1>4. ASSUME NEW c \in Socket!CbDeferred(p), c.exc = "none"
      PROVE  Ended(c)
  BY <1>3, <1>4, CbDeferredRule DEF Unanswered
<1>5. ASSUME NEW c \in Socket!CbDeferred(p), c.exc # "none",
             NEW d \in Socket!EbDeferred([c EXCEPT !.exc = "none"], c.exc)
      PROVE  Ended(d)
  <2> DEFINE e == [c EXCEPT !.exc = "none"]
  <2>1. /\ DOMAIN c = DOMAIN p
        /\ c.error = "none" /\ c.deferred = "fired" /\ c.at # "arrived"
        /\ c.document # "empty"
        /\ \/ c.sent = <<>> /\ (c.string = "empty" /\ c.text => c.once /\ "result" \in c.raised)
           \/ \E x : /\ c.sent = <<x>> /\ x \notin {"none", "empty"} /\ Wrong(c)
                      /\ c.string = IF c.once THEN "empty" ELSE x
        /\ \A a \in Aux : c.aux[a] \in {0, 1}
        /\ \/ "aux" \in c.raised
           \/ \A a \in Aux : c.aux[a] = 0
    BY <1>3, <1>5, CbDeferredRule DEF Unanswered
  <2>2. Fields \cup Added \subseteq DOMAIN c
    BY <1>3, <2>1 DEF Unanswered, Handled, Running
  <2>3. /\ Handled(e) /\ DOMAIN e = DOMAIN c /\ e.sent = c.sent /\ e.string = c.string
        /\ e.aux = c.aux /\ e.raised = c.raised /\ e.deferred = c.deferred /\ e.at = c.at
        /\ e.once = c.once /\ e.text = c.text
    BY <2>1, <2>2 DEF Handled, Running, Fields, Added
  <2>4. d \in Socket!EbDeferred(e, c.exc)
    BY <1>5
  <2> HIDE DEF e
  <2>5. /\ DOMAIN d = DOMAIN e /\ e.raised \subseteq d.raised
        /\ d.deferred = e.deferred /\ d.at = e.at /\ d.aux = e.aux /\ d.once = e.once
        /\ d.sent = e.sent \/ \E x : Framed(e, d, x)
    BY <2>3, <2>4, EbDeferredRule
  <2>6. CASE c.sent = <<>>
    <3>1. \/ d.sent = <<>> \/ \E x : d.sent = <<x>> /\ x # "empty"
          \/ d.sent = <<"empty">> /\ c.once /\ "result" \in c.raised
      <4>1. ASSUME NEW x, Framed(e, d, x)
            PROVE  d.sent = <<x>> /\ (x = "empty" => c.once /\ "result" \in c.raised)
        <5>1. d.sent = <<x>>
          BY <2>3, <2>6, <4>1, FramedRule
        <5>2. x = "empty" => c.string = "empty" /\ c.text
          BY <2>3, <4>1 DEF Framed
        <5>3. c.string = "empty" /\ c.text => c.once /\ "result" \in c.raised
          BY <2>1, <2>6
        <5> QED
          BY <5>1, <5>2, <5>3
      <4> QED
        BY <2>3, <2>5, <2>6, <4>1
    <3> QED
      BY <2>1, <2>3, <2>5, <3>1
  <2>7. ASSUME NEW x, c.sent = <<x>>, x \notin {"none", "empty"}, Wrong(c),
               c.string = IF c.once THEN "empty" ELSE x
        PROVE  Ended(d)
    <3>1. d.sent = <<x>> \/ d.sent = <<x, c.string>>
      <4>1. ASSUME NEW y, Framed(e, d, y)
            PROVE  d.sent = <<x, c.string>>
        <5>1. c.string # "none"
          BY <2>7
        <5>2. y = c.string
          BY <2>3, <4>1, <5>1 DEF Framed
        <5> QED
          BY <2>3, <2>7, <4>1, <5>2, FramedRule
      <4> QED
        BY <2>3, <2>5, <2>7, <4>1
    <3>2. Wrong(d)
      BY <2>3, <2>5, <2>7
    <3> QED
      BY <2>1, <2>3, <2>5, <2>7, <3>1, <3>2
  <2> QED
    BY <2>1, <2>6, <2>7
<1>6. ASSUME NEW exc \in Socket!Exceptions, NEW c \in Socket!EbDeferred(p, exc)
      PROVE  Ended(c)
  <2>1. /\ DOMAIN c = DOMAIN p
        /\ c.deferred = p.deferred /\ c.at = p.at /\ c.aux = p.aux
        /\ c.sent = p.sent \/ \E x : Framed(p, c, x)
    BY <1>3, <1>6, EbDeferredRule DEF Unanswered
  <2>2. c.sent = <<>> \/ \E x : c.sent = <<x>> /\ x # "empty"
    <3>1. ASSUME NEW x, Framed(p, c, x)
          PROVE  c.sent = <<x>> /\ x # "empty"
      BY <1>3, <3>1, FramedRule DEF Unanswered, Framed
    <3> QED
      BY <1>3, <2>1, <3>1 DEF Unanswered
  <2> QED
    BY <1>3, <2>1, <2>2 DEF Unanswered
<1>7. PICK c : Ended(c) /\ message' = [c EXCEPT !.exc = "none"]
  <2> DEFINE caught(x) == IF x.exc = "none" THEN {x}
                          ELSE Socket!EbDeferred([x EXCEPT !.exc = "none"], x.exc)
             outcomes == UNION {caught(x) : x \in Socket!CbDeferred(p)}
  <2>1. CASE Socket!DeferredFires
    <3>1. message' \in {[x EXCEPT !.exc = "none"] : x \in outcomes}
      BY <2>1 DEF Socket!DeferredFires, Socket!Logged, p
    <3>2. PICK c \in outcomes : message' = [c EXCEPT !.exc = "none"]
      <4> HIDE DEF outcomes
      <4> QED
        BY <3>1
    <3>3. PICK x \in Socket!CbDeferred(p) : c \in caught(x)
      <4> HIDE DEF caught
      <4> QED
        BY <3>2
    <3>4. Ended(c)
      <4> HIDE DEF Ended
      <4> QED
        BY <1>4, <1>5, <3>3
    <3> QED
      BY <3>2, <3>4
  <2>2. CASE Socket!DeferredFails
    <3>1. PICK exc \in Socket!Exceptions : message' \in Socket!Logged(Socket!EbDeferred(p, exc))
      BY <2>2 DEF Socket!DeferredFails, p
    <3>2. PICK c \in Socket!EbDeferred(p, exc) : message' = [c EXCEPT !.exc = "none"]
      BY <3>1 DEF Socket!Logged
    <3>3. Ended(c)
      <4> HIDE DEF Ended
      <4> QED
        BY <1>6, <3>2
    <3> QED
      BY <3>2, <3>3
  <2> QED
    BY <2>1, <2>2
<1>8. Fields \cup Added \subseteq DOMAIN c
  BY <1>3, <1>7 DEF Unanswered, Handled, Running
<1>9. /\ message'.deferred = "fired" /\ message'.at # "arrived"
      /\ message'.sent = c.sent /\ message'.aux = c.aux /\ message'.error = c.error
      /\ message'.raised = c.raised /\ message'.once = c.once
  BY <1>7, <1>8 DEF Fields, Added
<1>10. Socket!OneResponse'
  <2>1. /\ Len(c.sent) > 1 => Wrong(c)
        /\ \A i \in 2 .. Len(c.sent) : c.sent[i] = IF c.once THEN "empty" ELSE c.sent[1]
        /\ c.sent # <<>> /\ c.sent[1] = "empty" => c.once /\ "result" \in c.raised
    <3>1. CASE c.sent = <<>>
      BY <3>1
    <3>2. ASSUME NEW x, c.sent = <<x>>
          PROVE  Len(c.sent) = 1 /\ c.sent[1] = x
      BY <3>2
    <3>3. ASSUME NEW x, NEW y, c.sent = <<x, y>>
          PROVE  /\ 2 .. Len(c.sent) = {2} /\ c.sent[1] = x /\ c.sent[2] = y
      BY <3>3
    <3>4. \/ c.sent = <<>> \/ \E x : c.sent = <<x>> /\ x # "empty"
          \/ c.sent = <<"empty">> /\ c.once /\ "result" \in c.raised
          \/ /\ Wrong(c)
             /\ \E x : x # "empty" /\ c.sent = <<x, IF c.once THEN "empty" ELSE x>>
      BY <1>7
    <3> HIDE DEF Wrong
    <3>5. CASE \E x : c.sent = <<x>> /\ (x = "empty" => c.once /\ "result" \in c.raised)
      <4>1. PICK x : c.sent = <<x>> /\ (x = "empty" => c.once /\ "result" \in c.raised)
        BY <3>5
      <4>2. Len(c.sent) = 1 /\ c.sent[1] = x
        BY <3>2, <4>1
      <4> QED
        BY <4>1, <4>2
    <3>6. CASE Wrong(c) /\ \E x : x # "empty" /\ c.sent = <<x, IF c.once THEN "empty" ELSE x>>
      <4>1. PICK x : x # "empty" /\ c.sent = <<x, IF c.once THEN "empty" ELSE x>>
        BY <3>6
      <4> DEFINE y == IF c.once THEN "empty" ELSE x
      <4>2. c.sent = <<x, y>>
        BY <4>1
      <4> HIDE DEF y
      <4>3. 2 .. Len(c.sent) = {2} /\ c.sent[1] = x /\ c.sent[2] = y
        BY <3>3, <4>2
      <4> QED
        BY <3>6, <4>1, <4>3 DEF y
    <3> QED
      BY <3>1, <3>4, <3>5, <3>6
  <2> QED
    BY <1>9, <2>1 DEF Socket!OneResponse, Socket!WentWrong
<1>11. Socket!AuxUnlessFailed'
  <2>1. \A a \in Aux : c.aux[a] <= IF c.error # "none" THEN IF "aux" \in c.raised THEN 1 ELSE 0
                                   ELSE 1
    BY <1>7
  <2>2. "aux" \in c.raised <=> c.raised \cap {"aux"} # {}
    OBVIOUS
  <2> QED
    BY <1>9, <2>1, <2>2 DEF Socket!AuxUnlessFailed, Socket!WentWrong, Socket!Aux, Aux
<1> QED
  BY <1>9, <1>10, <1>11 DEF MessageInv

LEMMA MessageStep == MessageInv /\ [Next]_vars => MessageInv'
<1>1. MessageInv /\ UNCHANGED message => MessageInv'
  BY DEF MessageInv, Unanswered, Handled, Running, Socket!OneResponse,
         Socket!AuxUnlessFailed
<1> QED
  BY <1>1, ReceivesStep, SocketFiresStep
  DEF Next, vars, NullStep, DjangoStep, SocketReceives, SocketFires, ClientsStep,
      Arrives, Works

\* A message has one response, behind which only the same one or an empty frame
\* follows and only after something raised, and no auxiliary method after a Deferred that failed; a client's request is
\* in one inbox, and answered only when its auxiliary methods have run.
THEOREM ResponsesCorrect == FairSpec => []ResponseContract
<1>1. Init => MessageInv
  BY DEF Init, Socket!Init, MessageInv
<1>2. Init => PoolInv
  <2> SUFFICES ASSUME Init
               PROVE  PoolInv
    OBVIOUS
  <2>1. /\ inbox = [w \in Worker |-> <<>>] /\ turn = 0
        /\ served = [c \in Client |-> Unserved]
    BY DEF Init, PoolInit
  <2>2. 0 \in Worker
    BY ZeroMqPoolAssumption DEF ZeroMqPoolAssumption, Worker
  <2> QED
    BY <2>1, <2>2, UnservedRule DEF PoolInv, AuxBeforeAnswer
<1>3. MessageInv => Socket!OneResponse /\ Socket!AuxUnlessFailed
  <2> SUFFICES ASSUME \E many, once, text \in BOOLEAN :
                           message = Socket!NewMessage(many, once, text)
               PROVE  Socket!OneResponse /\ Socket!AuxUnlessFailed
    BY DEF MessageInv
  <2>1. /\ message.sent = <<>> /\ message.deferred = "none"
        /\ message.aux = [a \in Aux |-> 0]
    BY NewMessageRule DEF Unanswered
  <2> QED
    BY <2>1 DEF Socket!OneResponse, Socket!AuxUnlessFailed, Socket!Aux, Aux
<1>4. PoolInv => OneInbox /\ AuxBeforeAnswer
  BY InboxesAgree DEF PoolInv
<1> QED
  BY <1>1, <1>2, <1>3, <1>4, MessageStep, PoolStep, PTL DEF FairSpec, ResponseContract
=============================================================================
