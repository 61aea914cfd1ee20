------------------------------- MODULE Messages -------------------------------
(***************************************************************************)
(* The way of a call through the protocols of spyne/protocol: the method it  *)
(* is for, the envelope of its documents, that of SOAP, of JsonDocument, of  *)
(* the JSON-RPC flavour of spyne and of MessagePack RPC, with headers and     *)
(* faults, and the way from a request's body to the arguments of the function *)
(* and from what it returns to the response's.                              *)
(***************************************************************************)
EXTENDS Integers, FiniteSets, SequencesExt, Jobs

\* Something else than a Fault is raised, or the text of a list is sent.
Wrong == [ok |-> FALSE, value |-> None]
Right(v) == [ok |-> TRUE, value |-> v]

\* A Fault is raised.
Refused == [ok |-> TRUE, value |-> "fault"]

-----------------------------------------------------------------------------
(* Arguments and results.  A method is [style, simple, n]: "wrapped" methods *)
(* have n parameters and n results, "bare" ones take and return one object,   *)
(* which is simple or has n members.                                        *)

\* Values for n members, without those that are too many.
Pad(values, n) == [i \in 1 .. n |-> IF i \in DOMAIN values THEN values[i] ELSE None]

\* As if a null were a list of arguments for every protocol.
BadInObject(prot, m, body) == Right(IF body # None THEN body ELSE <<>>)

\* What the body of a request becomes: None is a null or an element that is nil.
XmlInObject(m, body) == Right(body)

\* JsonDocument looks for an argument by the name of its class, in a dict that has
\* the name of the method; dicts are read into objects only.
JsonInObject(m, body) == Right(IF m.style = "bare" \/ body = None THEN <<>> ELSE body)

JsonRpcInObject(m, body) ==
    IF m.simple THEN Wrong ELSE Right(Pad(IF body = None THEN <<>> ELSE body, m.n))

MessagePackRpcInObject(m, body) ==
    IF body = None THEN Right(<<>>) ELSE IF m.simple THEN Wrong ELSE Right(body)

InObject(prot, m, body) ==
    CASE prot \in {"xml", "soap"} -> XmlInObject(m, body)
      [] prot = "json" -> JsonInObject(m, body)
      [] prot = "jsonrpc" -> JsonRpcInObject(m, body)
      [] prot = "msgpackrpc" -> MessagePackRpcInObject(m, body)

\* The positional arguments of the function, which takes as many as it has.
Arguments(m, object) ==
    IF m.style = "bare" THEN Right(<<object>>)
    ELSE IF object = None \/ Len(object) # m.n THEN Wrong ELSE Right(object)

\* As if a single result needed no list.
BadOutObject(m, returned) == IF m.style # "wrapped" THEN <<returned>> ELSE returned

\* A single result is put into a list by process_request.
OutObject(m, returned) ==
    IF m.style # "wrapped" \/ m.n <= 1 THEN <<returned>> ELSE returned

\* The members of the response's body, or its only value.  With XML, JSON and
\* MessagePack RPC there have to be as many results as members.
Exactly(m, object) ==
    IF object = None \/ Len(object) < m.n THEN Wrong ELSE Right(Pad(object, m.n))
Padded(m, object) == IF object = None THEN Wrong ELSE Right(Pad(object, m.n))

\* The list with the object of a bare method is taken for the object.
XmlResponse(m, object) ==
    IF m.style = "wrapped" THEN Exactly(m, object)
    ELSE IF m.simple \/ Len(object) > m.n THEN Wrong ELSE Right(Pad(object, m.n))

SoapResponse(m, object) ==
    IF m.style = "wrapped" THEN Padded(m, object) ELSE Right(object[1])

JsonResponse(m, object) ==
    IF m.style = "wrapped" THEN Exactly(m, object) ELSE Right(object[1])

JsonRpcResponse(m, object) ==
    IF m.style # "wrapped" /\ m.simple THEN Wrong ELSE Padded(m, object)

MessagePackRpcResponse(m, object) ==
    IF m.style # "wrapped" /\ m.simple THEN Wrong ELSE Exactly(m, object)

ResponseBody(prot, m, object) ==
    CASE prot = "xml" -> XmlResponse(m, object)
      [] prot = "soap" -> SoapResponse(m, object)
      [] prot = "json" -> JsonResponse(m, object)
      [] prot = "jsonrpc" -> JsonRpcResponse(m, object)
      [] prot = "msgpackrpc" -> MessagePackRpcResponse(m, object)

-----------------------------------------------------------------------------
(* Headers.  An object of a header class is the sequence of its members.     *)

Headers(out) == IF out.list THEN out.values ELSE <<out.values[1]>>

\* The elements in a SOAP header, in the order of the header classes.
SoapHeader(classes, out) ==
    LET headers == Headers(out)
    IN  [i \in 1 .. IF Len(classes) < Len(headers) THEN Len(classes) ELSE Len(headers) |->
           [tag |-> classes[i].name, value |-> headers[i]]]

\* As if headers were read by position.
BadFromSoapHeader(classes, elements) ==
    [i \in DOMAIN classes |-> IF i \in DOMAIN elements THEN elements[i].value ELSE None]

\* Each header class takes the last element that has its name.
FromSoapHeader(classes, elements) ==
    [i \in DOMAIN classes |->
        LET mine == SelectSeq(elements, LAMBDA e : e.tag = classes[i].name)
        IN  IF mine = <<>> THEN None ELSE mine[Len(mine)].value]

\* A dict has the members that are set.
MembersOf(object) == {i \in DOMAIN object : object[i] # None}

\* The list of dicts in the head of a JSON-RPC document.
JsonHead(classes, out) ==
    LET headers == Headers(out)
        n == IF Len(classes) < Len(headers) THEN Len(classes) ELSE Len(headers)
    IN  IF n = 0 THEN Wrong ELSE Right(SubSeq(headers, 1, n))

\* The position of a header is compared with the number of its own members.
FromJsonHead(classes, docs) ==
    [i \in DOMAIN classes |->
        IF i \notin DOMAIN docs \/ docs[i] = None THEN None
        ELSE IF i - 1 < Cardinality(MembersOf(docs[i])) THEN docs[i]
        ELSE None]

\* A single header needs no list.
InHeader(headers) == IF Len(headers) = 1 THEN headers[1] ELSE headers

\* ctx.in_header of a receiver that finds these elements, or these dicts; without a
\* header in the envelope there is None in its place.
SoapInHeader(classes, elements, out) ==
    Right(IF out = None THEN None ELSE InHeader(FromSoapHeader(classes, elements)))

JsonInHeader(classes, out) ==
    LET head == IF out = None THEN Right(<<None>>) ELSE JsonHead(classes, out)
    IN  IF head.ok THEN Right(InHeader(FromJsonHead(classes, head.value))) ELSE Wrong

\* HttpRpc reads an object of the first class from the headers of the request, whose
\* names are those of its members.
HttpInHeader(classes, out) ==
    Right(IF out = None \/ out.values = <<>> \/ out.values[1] = None THEN Pad(<<>>, 2)
          ELSE out.values[1])

-----------------------------------------------------------------------------
(* Envelopes that a server receives.  What carries one is [text, charset, post, *)
(* mapped]: how good the text is, whether its charset is known, whether SOAP    *)
(* comes with POST and a type of content, and whether the body is one piece of  *)
(* memory, as Twisted gives a large one.  A text is "good", "malformed",        *)
(* "undecodable", or "untokened", which is malformed in its tokens already.     *)

\* Any error of the parser is a Fault, that of the decoder is not.
ParseXmlString(c) ==
    IF c.text = "undecodable" /\ c.charset THEN Wrong
    ELSE IF c.text = "good" THEN Right("document") ELSE Refused

SoapInDocument(c) == IF c.post THEN ParseXmlString(c) ELSE Refused

XmlInDocument(c) == IF c.text = "good" THEN Right("document") ELSE Refused

JsonInDocument(c) ==
    CASE c.text = "good" -> Right("document")
      [] c.text = "undecodable" -> Wrong
      [] OTHER -> Refused

\* Only the errors of the parser are looked for, not those of the scanner.
YamlInDocument(c) ==
    CASE c.text = "good" -> Right("document")
      [] c.text = "malformed" -> Refused
      [] OTHER -> Wrong

\* The errors of unpacking are only looked for in a body that is not mapped.
MessagePackInDocument(c) ==
    CASE c.text = "good" -> Right("document")
      [] c.text # "good" /\ c.mapped -> Wrong
      [] OTHER -> Refused

MessagePackRpcInDocument(c) == IF c.text = "good" THEN Right("document") ELSE Refused

InDocument(prot, c) ==
    CASE prot = "soap" -> SoapInDocument(c)
      [] prot = "xml" -> XmlInDocument(c)
      [] prot \in {"json", "jsonrpc", "hybrid"} -> JsonInDocument(c)
      [] prot = "yaml" -> YamlInDocument(c)
      [] prot = "msgpack" -> MessagePackInDocument(c)
      [] prot = "msgpackrpc" -> MessagePackRpcInDocument(c)

\* As if a body that is missing were refused.
BadDecomposeSoap(e) ==
    IF ~e.envelope \/ (e.headers = 0 /\ e.bodies = 0) \/ e.bodies = 0 THEN Refused
    ELSE IF e.children = 0 THEN Wrong
    ELSE Right(IF e.fault THEN "nameless" ELSE "body")

\* The elements are counted, not what is in the first of them.
DecomposeSoap(e) ==
    IF ~e.envelope \/ (e.headers = 0 /\ e.bodies = 0) THEN Refused
    ELSE IF e.bodies = 0 \/ e.children = 0 THEN Wrong
    ELSE Right(IF e.fault THEN "nameless" ELSE "body")

\* resolve_hrefs, below an element of [ok, kids, href, text], where an href is the element
\* that has the id, or none that is there.  The targets are those that have ids; what
\* refers to one gets its attributes, its text, and its children, which move.  A
\* reference that leads back to itself is followed without end.
RECURSIVE ResolveHrefs(_, _, _, _)
ResolveHrefs(doc, element, targets, above) ==
    FoldLeft(LAMBDA d, e :
        LET target == d.href[e]
            below == ResolveHrefs(d, target, targets, above \cup {target})
        IN  CASE ~d.ok \/ e \in targets -> d
              [] d.ok /\ e \notin targets /\ target = None -> ResolveHrefs(d, e, targets, above)
              [] d.ok /\ e \notin targets /\ target \notin targets \ above -> [d EXCEPT !.ok = FALSE]
              [] OTHER -> IF ~below.ok THEN below
                          ELSE [below EXCEPT !.kids[e] = @ \o below.kids[target], !.kids[target] = <<>>,
                                             !.text[e] = below.text[target]],
        doc, doc.kids[element])

DecomposeJson(e) == IF ~e.dict \/ e.keys # 1 THEN Refused ELSE Right("body")

\* HybridHttpJsonDocument puts what it reads into a dict, under the end of the url.
HybridDocument == [dict |-> TRUE, keys |-> 1]

\* A fault in place of the body leaves no name to look for.
DecomposeJsonRpc(e) ==
    IF ~e.dict \/ ~e.version THEN Refused
    ELSE IF e.fault THEN Right("nameless")
    ELSE IF e.body # "dict" \/ e.keys # 1 THEN Refused ELSE Right("body")

\* Requests, responses, notifications and errors have the types 0 to 3.
DecomposeMessagePackRpc(e) ==
    IF ~e.sized \/ e.len \notin 3 .. 4 THEN Refused
    ELSE CASE e.type = 0 -> Right("body")
           [] e.type \in {1, 2} -> Wrong
           [] OTHER -> Refused

Decompose(prot, e) ==
    CASE prot = "soap" -> DecomposeSoap(e)
      [] prot = "xml" -> Right("body")
      [] prot = "hybrid" -> DecomposeJson(HybridDocument)
      [] prot \in {"json", "yaml", "msgpack"} -> DecomposeJson(e)
      [] prot = "jsonrpc" -> DecomposeJsonRpc(e)
      [] prot = "msgpackrpc" -> DecomposeMessagePackRpc(e)

\* get_call_handles and generate_method_contexts: what has no name breaks.
MethodContexts(found, known) ==
    IF found = "nameless" THEN Wrong ELSE IF known THEN Right("contexts") ELSE Refused

\* generate_contexts: the document, what it is for, and the contexts of its methods.
GenerateContexts(prot, carrier, envelope, known) ==
    LET document == InDocument(prot, carrier)
        body == Decompose(prot, envelope)
    IN  IF document \in {Wrong, Refused} THEN document
        ELSE IF body \in {Wrong, Refused} THEN body
        ELSE MethodContexts(body.value, known)

-----------------------------------------------------------------------------
(* Faults: [code, actor, detail, schema].  The code is the sequence of its    *)
(* fragments, the actor "none", "empty" or "text", the detail "none", a dict   *)
(* "dict0" to "dict2" by its number of keys, "text" or "other"; schema is TRUE *)
(* of the errors of schema validation.                                      *)

\* XmlDocument and Soap11.
FaultToParent(f) ==
    IF f.actor = "none" \/ f.detail = "other" THEN Wrong
    ELSE Right([code |-> <<"prefix">> \o f.code, actor |-> f.actor,
                detail |-> IF f.detail \in {"none", "dict0"} THEN "none" ELSE "element"])

\* The text of an empty element is None, and the detail is an element.
FaultFromElement(d) ==
    Right([code |-> d.code, actor |-> IF d.actor = "empty" THEN "none" ELSE d.actor,
           detail |-> d.detail])

\* As if the subcodes were nested from the outside to the inside.
BadFault12ToParent(f) ==
    IF \/ f.code[1] \notin {"Client", "Server"}
       \/ f.actor = "none" \/ f.detail \notin {"none", "dict1"}
    THEN Wrong
    ELSE Right([code |-> <<IF f.code[1] = "Client" THEN "Sender" ELSE "Receiver">> \o Reverse(Tail(f.code)),
                actor |-> f.actor, reason |-> ~f.schema,
                detail |-> IF f.detail = "none" THEN "none" ELSE "element"])

\* Soap12: a detail has one key, and the code of an error of schema validation takes the place of its reason.
Fault12ToParent(f) ==
    IF \/ f.code[1] \notin {"Client", "Server"}
       \/ f.actor = "none" \/ f.detail \notin {"none", "dict1"}
    THEN Wrong
    ELSE Right([code |-> <<IF f.code[1] = "Client" THEN "Sender" ELSE "Receiver">> \o Tail(f.code),
                actor |-> f.actor, reason |-> ~f.schema,
                detail |-> IF f.detail = "none" THEN "none" ELSE "element"])

\* The elements are looked for with the prefix soap, which the document may lack.
Fault12FromElement(d, prefix) ==
    IF prefix # "soap" \/ ~d.reason \/ d.actor = "empty" THEN Wrong
    ELSE Right([code |-> d.code, actor |-> d.actor, detail |-> d.detail])

\* As a dict, with what it has; as a list, with empty texts.
FaultToDict(f, ignoreEmpty) ==
    [code |-> {f.code},
     actor |-> IF f.actor = "none" \/ (f.actor = "empty" /\ ignoreEmpty) THEN {} ELSE {f.actor},
     detail |-> IF f.detail = "none" THEN {} ELSE {f.detail}]

\* The arguments of Fault() have defaults.
FaultFromDict(d) ==
    LET value(field, default) == IF field = {} THEN default ELSE CHOOSE v \in field : TRUE
    IN  [code |-> value(d.code, <<"Server">>), actor |-> value(d.actor, "empty"),
         detail |-> value(d.detail, "none")]

\* MessagePack RPC sends the type of an error, which it does not know when it reads.
\* For JSON-RPC a Fault is a class without members.
ReceiveFault(prot, f, ignoreEmpty) ==
    CASE prot = "msgpackrpc" -> DecomposeMessagePackRpc([sized |-> TRUE, len |-> 3, type |-> 3])
      [] prot = "jsonrpc" -> Right(FaultFromDict([code |-> {}, actor |-> {}, detail |-> {}]))
      [] prot = "dict" -> Right(FaultFromDict(FaultToDict(f, ignoreEmpty)))
      [] prot = "soap11" ->
            LET doc == FaultToParent(f) IN IF doc.ok THEN FaultFromElement(doc.value) ELSE Wrong
      [] prot \in {"soap12", "soap"} ->
            LET doc == Fault12ToParent(f)
            IN  IF doc.ok THEN Fault12FromElement(doc.value, prot) ELSE Wrong

-----------------------------------------------------------------------------
(* What arrives and what is sent.                                          *)

CONSTANTS MaxContentLength, BlockLength, EnvironName, Precedence, TextOrder, Escaped

Http == INSTANCE HttpRpc

CONSTANTS
    Calls,          \* bodies of requests: [prot, method, body]
    Answers,        \* what functions return: [prot, method, returned]
    SentHeaders,    \* [prot, classes, out]
    Requests,       \* [prot, carrier, envelope, known]
    Faults,         \* [prot, fault, ignoreEmpty]
    HttpRequests,   \* [patterns, verb, path, query, form]
    Uploads,        \* [length, stream]
    Queries,        \* pairs of a name and a value or None
    Cookies,        \* [server, sent, cookies]
    Peers,          \* [env, proxies, real, right]
    Environs,       \* of WSGI: [scheme, host, server, port, script, path, method, query]
    Bodies,         \* bodies of SOAP with references: [kids, href, targets]
    HttpAnswers     \* see HandleRpc, OutHeaders and Answer of HttpRpc

MessagesInit ==
    \/ /\ job = "call"
       /\ input \in Calls
    \/ /\ job = "answer"
       /\ input \in Answers
    \/ /\ job = "header"
       /\ input \in SentHeaders
    \/ /\ job = "envelope"
       /\ input \in Requests
    \/ /\ job = "fault"
       /\ input \in Faults
    \/ /\ job = "http"
       /\ input \in HttpRequests
    \/ /\ job = "upload"
       /\ input \in Uploads
    \/ /\ job = "query"
       /\ input \in Queries
    \/ /\ job = "cookies"
       /\ input \in Cookies
    \/ /\ job = "peer"
       /\ input \in Peers
    \/ /\ job = "url"
       /\ input \in Environs
    \/ /\ job = "respond"
       /\ input \in HttpAnswers
    \/ /\ job = "hrefs"
       /\ input \in Bodies

\* A body is read and the function is called.
ReadCall ==
    /\ Does("call")
    /\ LET object == InObject(input.prot, input.method, input.body)
       IN  output' = IF object.ok THEN Arguments(input.method, object.value) ELSE Wrong

\* What a function returns is sent.
SendAnswer ==
    /\ Does("answer")
    /\ output' = ResponseBody(input.prot, input.method,
                              OutObject(input.method, input.returned))

\* The elements of a SOAP header come in any order, depending on who sends them.
PassHeader ==
    /\ Does("header")
    /\ IF input.prot = "jsonrpc" THEN output' = JsonInHeader(input.classes, input.out)
       ELSE IF input.prot = "http" THEN output' = HttpInHeader(input.classes, input.out)
       ELSE LET elements == IF input.out = None THEN <<>> ELSE SoapHeader(input.classes, input.out)
            IN  \E p \in Permutations(DOMAIN elements) :
                   output' = SoapInHeader(input.classes, [i \in DOMAIN elements |-> elements[p[i]]],
                                          input.out)

ReadEnvelope ==
    /\ Does("envelope")
    /\ output' = GenerateContexts(input.prot, input.carrier, input.envelope, input.known)

\* The body is the element 0, and the text of an element its number.
FollowHrefs ==
    /\ Does("hrefs")
    /\ output' = ResolveHrefs([ok |-> TRUE, kids |-> input.kids, href |-> input.href,
                               text |-> [e \in DOMAIN input.kids |-> e]],
                              0, input.targets, {})

PassFault ==
    /\ Does("fault")
    /\ output' = ReceiveFault(input.prot, input.fault, input.ignoreEmpty)

\* A request meets the patterns in one of the orders they may have.
RouteHttp ==
    /\ Does("http")
    /\ \E order \in Http!HttpPatterns(input.patterns) :
          LET match(server) == Http!MatchPattern(order, server, input.verb, input.path)
              name == [server \in {"wsgi", "twisted"} |-> Http!MethodName(match(server), input.path)]
              params == [server \in {"wsgi", "twisted"} |-> match(server).params]
          IN  output' = [name |-> name, params |-> params,
                         wsgi |-> Http!WsgiBody(match("wsgi"), input.verb, input.query, input.form),
                         twisted |-> Http!TwistedBody(match("twisted"), input.query, input.form)]

ReadUpload ==
    /\ Does("upload")
    /\ output' = Http!Input(input.length, input.stream)

\* A form is sent as a query, as browsers do it.
FormEscapes == ";" :> "%3B" @@ "&" :> "%26" @@ "=" :> "%3D" @@ "+" :> "%2B" @@ " " :> "+"
QuotedForm(text) ==
    [i \in DOMAIN text |-> IF text[i] \in DOMAIN FormEscapes THEN FormEscapes[text[i]] ELSE text[i]]
FormPair(pair) ==
    QuotedForm(pair[1]) \o (IF pair[2] = None THEN <<>> ELSE <<"=">> \o QuotedForm(pair[2]))
Joined(texts, sign) ==
    IF texts = <<>> THEN <<>>
    ELSE FoldLeft(LAMBDA text, t : text \o sign \o t, texts[1], Tail(texts))

ReadQuery ==
    /\ Does("query")
    /\ output' = Http!ParseQs(Joined([i \in DOMAIN input |-> FormPair(input[i])], <<"&">>))

\* Cookies are quoted as http.cookies of Python does it.
CookieQuotes ==
    Http!Quote :> <<Http!Backslash, Http!Quote>> @@ Http!Backslash :> <<Http!Backslash, Http!Backslash>>
        @@ Http!Control :> <<Http!Backslash, "012">> @@ ";" :> <<Http!Backslash, "073">>
QuotedCookie(text) ==
    IF ToSet(text) \cap (DOMAIN CookieQuotes \cup {" ", "="}) = {} THEN text
    ELSE <<Http!Quote>>
            \o FlattenSeq([i \in DOMAIN text |-> IF text[i] \in DOMAIN CookieQuotes
                                                  THEN CookieQuotes[text[i]] ELSE <<text[i]>>])
            \o <<Http!Quote>>
CookieText(cookies) ==
    Joined([i \in DOMAIN cookies |-> cookies[i].name \o <<"=">> \o QuotedCookie(cookies[i].value)],
           <<";", " ">>)

ReadCookies ==
    /\ Does("cookies")
    /\ LET sent == Append(input.sent, [name |-> "Cookie", value |-> CookieText(input.cookies)])
       IN  output' = Http!HeaderDoc(IF input.server = "wsgi" THEN Http!WsgiHeaders(sent)
                                    ELSE Http!TwistedHeaders(sent))

FindPeer ==
    /\ Does("peer")
    /\ output' = [best |-> Http!GetIp(input.env, input.real, input.right),
                  trusted |-> Http!GetTrustedIp(input.env, input.proxies, input.right),
                  peer |-> Http!GetPeer(input.env)]

FindUrl ==
    /\ Does("url")
    /\ output' = Http!WsgiCall(input)

Respond ==
    /\ Does("respond")
    /\ output' = Http!Answer(input, Http!HandleRpc(input), Http!OutHeaders(input))

MessagesNext ==
    \/ ReadCall \/ SendAnswer \/ PassHeader \/ ReadEnvelope \/ PassFault \/ RouteHttp
    \/ ReadUpload \/ ReadQuery \/ ReadCookies \/ FindPeer \/ FindUrl \/ Respond
    \/ FollowHrefs

-----------------------------------------------------------------------------

\* The arguments of a wrapped method reach the function by every protocol, and so
\* does an object, but by JsonDocument, and a simple argument, but by those that read
\* dicts.  Of a null JSON-RPC makes arguments that are not set; with the others the
\* function is called with too few.
ArgumentsReach ==
    Done("call") =>
        LET m == input.method
            elements == input.prot \in {"xml", "soap"}
            nothing == [i \in 1 .. m.n |-> None]
        IN  IF m.style = "wrapped"
            THEN output = IF input.body # None THEN Right(input.body)
                          ELSE IF input.prot = "jsonrpc" \/ (m.n = 0 /\ ~elements)
                          THEN Right(nothing) ELSE Wrong
            ELSE (output = Right(<<input.body>>)) <=>
                     \/ elements
                     \/ input.prot # "json" /\ ~m.simple /\ input.body # None

\* As many results as the method declares are sent as they are.  Of another number
\* some protocols send the first ones, or pad them, where others raise.  The object
\* that a bare method returns is sent by SOAP and by JsonDocument only: the others
\* put the list that holds it in the place of the object.
ResultsReturn ==
    Done("answer") =>
        LET m == input.method
            r == input.returned
            exact == m.n <= 1 \/ (r # None /\ Len(r) = m.n)
            values == IF m.n = 0 THEN <<>> ELSE IF m.n = 1 THEN <<r>> ELSE r
        IN  IF m.style = "wrapped"
            THEN /\ exact => output = Right(values)
                 /\ output.ok => Len(output.value) = m.n
                 /\ r = None /\ m.n > 1 => output = Wrong
            ELSE (output = Right(r)) <=> input.prot \in {"soap", "json"}

\* Each header class gets the header that was sent for it, with SOAP unless another
\* one has the same name, in whatever order the headers come, with JSON-RPC only if it
\* has more members set than there are headers before it.  With HttpRpc only the first
\* class has one, and then it has one always.
HeadersReturn ==
    Done("header") =>
        LET classes == input.classes
            out == input.out
            sent(i) == IF i \in DOMAIN Headers(out) THEN Headers(out)[i] ELSE None
            got(i) == IF Len(classes) = 1 THEN output.value ELSE output.value[i]
            shared(i) == \E j \in DOMAIN classes \cap DOMAIN Headers(out) :
                            j # i /\ classes[j].name = classes[i].name
        IN  IF input.prot = "http"
            THEN output = Right(IF out = None \/ sent(1) = None THEN <<None, None>> ELSE sent(1))
            ELSE out # None /\ output.ok =>
                \A i \in DOMAIN classes :
                    IF input.prot = "soap"
                    THEN ~shared(i) /\ sent(i) # None => got(i) = sent(i)
                    ELSE got(i) = IF sent(i) = None \/ Cardinality(MembersOf(sent(i))) < i
                                  THEN None ELSE sent(i)

\* What is not a request is refused with a Fault, but where the code raises something
\* else, which the server does not expect: a text that cannot be decoded, but by
\* MessagePack and by XML without a charset; YAML with errors in its tokens;
\* MessagePack that is wrong in one large piece; a SOAP body that is empty or missing;
\* a fault where a request should be; and messages of MessagePack RPC that are no
\* requests.  Only what is whole, and for a method that is known, is called.
EnvelopesRefused ==
    Done("envelope") =>
        LET e == input.envelope
            c == input.carrier
            prot == input.prot
            dicts == {"json", "yaml", "msgpack"}
            document == c.text = "good" /\ (prot = "soap" => c.post)
            breaks == CASE prot = "soap" -> c.post /\ c.text = "undecodable" /\ c.charset
                        [] prot \in {"json", "jsonrpc", "hybrid"} -> c.text = "undecodable"
                        [] prot = "yaml" -> c.text \in {"undecodable", "untokened"}
                        [] prot = "msgpack" -> c.text # "good" /\ c.mapped
                        [] OTHER -> FALSE
            whole == CASE prot = "soap" -> e.envelope /\ e.bodies > 0 /\ e.children > 0 /\ ~e.fault
                       [] prot \in dicts -> e.dict /\ e.keys = 1
                       [] prot = "jsonrpc" -> e.dict /\ e.version /\ ~e.fault
                                                /\ e.body = "dict" /\ e.keys = 1
                       [] prot = "msgpackrpc" -> e.sized /\ e.len \in {3, 4} /\ e.type = 0
                       [] OTHER -> TRUE
            raises == CASE prot = "soap" -> e.envelope /\ e.headers + e.bodies > 0
                        [] prot = "jsonrpc" -> e.dict /\ e.version /\ e.fault
                        [] prot = "msgpackrpc" -> e.sized /\ e.len \in {3, 4} /\ e.type \in {1, 2}
                        [] OTHER -> FALSE
        IN  /\ output = Right("contexts") <=> document /\ whole /\ input.known
            /\ output = Wrong <=> breaks \/ (document /\ ~whole /\ raises)
            /\ output \in {Right("contexts"), Wrong, Refused}

\* What is referred to is found wherever a body refers to it, unless something is missing
\* or refers to itself, which is no Fault.  Of several that refer to the same only one has
\* what is in it, and the others nothing but its text.
HrefsResolved ==
    Done("hrefs") =>
        LET inside(es) == es \cup UNION {ToSet(input.kids[input.href[e]]) : e \in {e \in es : input.href[e] \in input.targets}}
            message == ToSet(input.kids[1])
            reached == inside(inside(message))
            refers(e) == input.href[e] # None
            circular == \E e \in reached : input.href[e] \in input.targets
                                          /\ e \in inside(inside(ToSet(input.kids[input.href[e]])))
            who(t) == {e \in reached : input.href[e] = t}
        IN  /\ output.ok <=> ~circular /\ \A e \in reached : refers(e) => input.href[e] \in input.targets
            /\ output.ok => \A t \in input.targets :
                  /\ \A e \in who(t) : output.text[e] = t /\ output.kids[e] \in {<<>>, input.kids[t]}
                  /\ who(t) # {} => Cardinality({e \in who(t) : output.kids[e] = input.kids[t]}) = 1
                  /\ output.kids[t] = IF who(t) = {} THEN input.kids[t] ELSE <<>>

\* A fault that comes back says whose mistake it was, has its subcodes, its actor and
\* a detail if it had one.  It does not come back by MessagePack RPC or JSON-RPC, nor
\* by Soap12 with the prefixes of its own documents.  The mistakes that cannot be sent
\* are those with no actor, with codes that Soap12 does not know, and with details that
\* are no dicts, or dicts that Soap12 finds too small or too large.
FaultsReturn ==
    Done("fault") =>
        LET f == input.fault
            got == output.value
            sender == IF f.code[1] = "Client" THEN "Sender" ELSE "Receiver"
            shown == f.detail \notin {"none", "dict0"}
        IN  CASE input.prot = "soap11" ->
                    /\ output.ok <=> f.actor # "none" /\ f.detail # "other"
                    /\ output.ok => /\ Tail(got.code) = f.code
                                    /\ got.actor = "text" <=> f.actor = "text"
                                    /\ got.detail # "none" <=> shown
              [] input.prot = "soap" ->
                    /\ output.ok <=> /\ f.code[1] \in {"Client", "Server"} /\ ~f.schema
                                     /\ f.actor = "text" /\ f.detail \in {"none", "dict1"}
                    /\ output.ok => /\ got.code = <<sender>> \o Tail(f.code)
                                    /\ got.actor = f.actor
                                    /\ got.detail # "none" <=> shown
              [] input.prot = "soap12" -> ~output.ok
              [] input.prot = "dict" ->
                    /\ got.code = f.code /\ got.detail = f.detail
                    /\ got.actor = "text" <=> f.actor = "text"
              [] input.prot = "msgpackrpc" -> output = Refused
              [] OTHER -> got.code = <<"Server">>

\* A request goes, by both servers, to a method one of whose patterns it fits, if there
\* is one, with the values its placeholders stand for.  A fragment that is spelled out
\* wins over a placeholder, unless it sorts before it.  A pattern that was tried before
\* leaves the verb in front of them when only its verb fits.  Under Twisted no pattern
\* without an address fits, which costs the parameters of its verb.
RoutesFound ==
    Done("http") =>
        LET fits(server) == {p \in input.patterns : /\ Http!VerbFits(p, input.verb)
                                                    /\ Http!AddressFits(p, server, input.path)}
            own(p) == Http!Extended(Http!VerbParams(p, input.verb), Http!AddressParams(p, input.path))
            others(p, name) == {q \in input.patterns \ {p} : name \in DOMAIN Http!VerbParams(q, input.verb)}
            loses(q, p) == /\ p.address # None
                           /\ LET i == Http!Difference(p.address, q.address)
                              IN  /\ i <= Len(p.address)
                                  /\ q.address[i].binds = {} /\ p.address[i].binds # {}
                                  /\ Http!Place(q.address[i].text) > Http!Place(p.address[i].text)
        IN  /\ output.name["wsgi"] = output.name["twisted"]
            /\ \A server \in {"wsgi", "twisted"} :
                  LET params == output.params[server]
                      left(name, values) == Len(params[name]) - Len(Http!ListOf(values, name))
                  IN  IF fits(server) = {} THEN output.name[server] = input.path[Len(input.path)]
                      ELSE \E p \in fits(server) :
                              /\ p.endpoint = output.name[server]
                              /\ ~\E q \in fits(server) : loses(q, p)
                              /\ DOMAIN own(p) \subseteq DOMAIN params
                              /\ \A name \in DOMAIN params :
                                    /\ IsSuffix(Http!ListOf(own(p), name), params[name])
                                    /\ left(name, own(p)) <= Cardinality(others(p, name))
                                    /\ \A i \in 1 .. left(name, own(p)) : params[name][i] = input.verb

\* Both servers read the same values of a name that is in one of the query, the address
\* and the form, but those that are empty or have escapes.  Of a name that is in several
\* WSGI reads all of them, and Twisted one: no argument comes near the values that the
\* address has, and one of the form hides those of the query.  Where no pattern has an
\* address the end of the path and the arguments are all they agree on.
BodiesAgree ==
    Done("http") =>
        LET params == output.params["twisted"]
            places(name) == {d \in {"query", "form", "address"} :
                                name \in DOMAIN CASE d = "query" -> input.query
                                                  [] d = "form" -> input.form
                                                  [] OTHER -> params}
            addressed == \A p \in input.patterns : p.address # None
        IN  /\ addressed => DOMAIN output.twisted = DOMAIN output.wsgi
            /\ \A name \in DOMAIN output.twisted \cap DOMAIN output.wsgi :
                  LET w == output.wsgi[name]
                      t == output.twisted[name]
                      plain == \A i \in DOMAIN w : w[i] # None /\ w[i] \notin DOMAIN Escaped
                  IN  plain /\ (addressed \/ name \notin DOMAIN params) =>
                          /\ Cardinality(places(name)) = 1 => w = t
                          /\ ToSet(t) \subseteq ToSet(w) /\ Len(t) <= Len(w)
                          /\ name \in DOMAIN params => t = params[name]

Total(blocks) == FoldLeft(LAMBDA sum, n : sum + n, 0, blocks)
Least(m, n) == IF m < n THEN m ELSE n

\* A body that says it is too long is refused before it is read.  Of another one as
\* much is read as it says, if it is there; when it does not say anything the rest of
\* what is too long is left, and nothing tells.
UploadsBounded ==
    Done("upload") =>
        LET said == IF input.length = None THEN MaxContentLength ELSE input.length
            read == Total(output.blocks)
        IN  /\ output.refused <=> input.length # None /\ input.length > MaxContentLength
            /\ ~output.refused =>
                  /\ said >= 0 => read = Least(said, Total(input.stream))
                  /\ said < 0 => read = 0
                  /\ \A i \in DOMAIN output.blocks : output.blocks[i] \in 1 .. BlockLength

\* The values of a query come back under their names, in their order.
QueriesReturn ==
    Done("query") =>
        LET names == {input[i][1] : i \in DOMAIN input}
            pairs(n) == SelectSeq(input, LAMBDA p : p[1] = n)
        IN  output = [n \in names |-> [i \in DOMAIN pairs(n) |-> pairs(n)[i][2]]]

\* A cookie is read as it was set, behind the headers that have its name.  Twisted
\* unescapes it once more.  A cookie that is called cookie is a header of cookies, too.
CookiesReturn ==
    Done("cookies") =>
        LET last(i) == \A j \in DOMAIN input.cookies :
                          j > i => input.cookies[j].name # input.cookies[i].name
            header(n) == SelectSeq(input.sent, LAMBDA h : h.name \in DOMAIN EnvironName
                                      /\ n = <<IF input.server = "wsgi" THEN EnvironName[h.name]
                                               ELSE h.name>>)
            plain == \A i \in DOMAIN input.cookies :
                        /\ input.cookies[i].name # <<"cookie">>
                        /\ input.server = "wsgi" \/ ToSet(input.cookies[i].value) \cap {"%3B"} = {}
        IN  plain => \A i \in DOMAIN input.cookies :
                LET cookie == input.cookies[i]
                    before == header(cookie.name)
                IN  last(i) => output[cookie.name] =
                        (IF before = <<>> THEN <<>>
                         ELSE IF input.server = "wsgi"
                         THEN <<Joined([k \in DOMAIN before |-> before[k].value], <<",">>)>>
                         ELSE [k \in DOMAIN before |-> before[k].value])
                        \o <<cookie.value>>

\* The address of a client is the first that is public, in the order of the headers;
\* if there is none it is one that is private, and at last that of the machine itself.
\* A list is trusted only if a proxy is at its end.  The peer of a call is known whenever
\* there is an address that is one.
PeersFound ==
    Done("peer") =>
        LET all == {h \in ToSet(Precedence) : h \in DOMAIN input.env}
            seen == UNION {ToSet(input.env[h]) : h \in all}
            of(kinds) == {ip \in seen : ip.family # "none" /\ ip.kind \in kinds}
            rank(h) == CHOOSE i \in DOMAIN Precedence : Precedence[i] = h
            holds(h) == ToSet(input.env[h]) \cap of({"public"}) # {}
            first == CHOOSE h \in all : holds(h) /\ \A g \in all : holds(g) => rank(h) <= rank(g)
            public == SelectSeq(input.env[first], LAMBDA ip : ip \in of({"public"}))
            end(ips) == IF input.right THEN ips[1] ELSE ips[Len(ips)]
        IN  /\ output.best =
                  IF of({"public"}) # {}
                  THEN IF input.right THEN public[Len(public)] ELSE public[1]
                  ELSE IF input.real THEN None ELSE output.best
            /\ (of({"public"}) = {} /\ ~input.real) =>
                  IF of({"private"}) # {} THEN output.best \in of({"private"})
                  ELSE IF of({"loopback"}) # {} THEN output.best \in of({"loopback"})
                  ELSE output.best = None
            /\ output.peer = None <=> of({"public", "private", "loopback"}) = {}
            /\ output.trusted # None =>
                  \E h \in {Precedence[1], Precedence[2]} \cap all :
                      /\ end(input.env[h]).ip \in input.proxies
                      /\ output.trusted = IF input.right THEN input.env[h][Len(input.env[h])]
                                          ELSE input.env[h][1]

\* Slashes that follow each other are one.
Folded(path) ==
    FoldLeft(LAMBDA p, x : IF x = "/" /\ p # <<>> /\ p[Len(p)] = "/" THEN p ELSE Append(p, x), <<>>, path)

\* A description of the service is sent to those who ask for it with GET, by the query or
\* by the end of the path.  The address that is written into it leads back to the
\* application, without what asked for it, and names its port unless it is the usual one.
\* The root of an application that is at a slash has no address, and no call arrives.
UrlsLeadBack ==
    Done("url") =>
        LET usual == IF input.scheme = "https" THEN 443 ELSE 80
            path == Folded(input.script \o input.path)
            asked == /\ input.method = "GET"
                     /\ \/ path # <<>> /\ path[Len(path)] = ".wsdl"
                        \/ input.query \in {<<"wsdl">>, <<"wsdl", "=", "b">>}
        IN  IF input.script = <<"/">> /\ input.path = <<>> THEN output.to = "nothing"
            ELSE /\ output.to = IF asked THEN "wsdl" ELSE "rpc"
                 /\ IsPrefix(Folded(output.url.path), path)
                 /\ ".wsdl" \notin ToSet(path) \/ ~asked => Folded(output.url.path) = path
                 /\ asked => ".wsdl" \notin ToSet(output.url.path)
                 /\ output.url.authority =
                        IF input.host # None THEN <<input.host>>
                        ELSE IF input.port = usual THEN <<input.server>> ELSE <<input.server, input.port>>

\* What a function returns is written with the headers it sets, or a fault is, when it
\* is not what can be written.  Only when its headers cannot be written the result is
\* sent without them, and nothing tells.  The length is missing only of what is not
\* known to its end.
AnswersWritten ==
    Done("respond") =>
        LET x == input
            many == x.style = "wrapped" /\ Len(x.returns) > 1
            wrong == \/ many /\ ~Http!Ignored(x) /\ ~x.ignoreUncap
                     \/ /\ Len(x.returns) = 1
                        /\ \/ x.returns[1] = "complex" /\ x.value # None /\ ~Http!Ignored(x) /\ ~x.ignoreUncap
                           \/ x.returns[1] = "file" /\ (x.value = None \/ x.value.form # "file")
            timeless == x.header # None /\
                           (x.class = None \/ \E m \in x.class : m.time /\ m.min > 0 /\ x.header[m.name] = None)
            set == IF x.header = None THEN {}
                   ELSE {m.name : m \in {m \in x.class : m.min > 0 \/ x.header[m.name] # None}}
        IN  /\ wrong => output.body = "fault"
            /\ output.body = "fault" => wrong \/ timeless
            /\ (~wrong /\ ~timeless) => \A n \in set : output.headers[n] = x.header[n]
            /\ (~wrong /\ timeless) => output.headers = x.user
            /\ ~output.length => output.body \in {"file", "generator"}
            /\ output.raises => ~x.chunked

\* What HttpRpc reads and writes.
HttpServed ==
    /\ UploadsBounded /\ QueriesReturn /\ CookiesReturn
    /\ PeersFound /\ UrlsLeadBack /\ AnswersWritten

\* Messages arrive as they were sent, or are refused, as far as the code makes them so.
MessagesArrive ==
    /\ ArgumentsReach /\ ResultsReturn /\ HeadersReturn
    /\ EnvelopesRefused /\ HrefsResolved /\ FaultsReturn
    /\ RoutesFound /\ BodiesAgree /\ HttpServed
=============================================================================
