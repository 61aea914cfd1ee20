------------------------------- MODULE HttpRpc -------------------------------
(***************************************************************************)
(* What HttpRpc of spyne/protocol/http.py reads and writes by WSGI and         *)
(* Twisted: the bytes of a body, queries, headers and cookies, the address of  *)
(* a client and of the application, and answers; the url patterns of the       *)
(* methods of an application, the one that a request fits, and the values of   *)
(* the query, of the pattern and of the form.                                *)
(*                                                                         *)
(* A text is a sequence of symbols.  Those with a meaning are = ; & and +,     *)
(* Quote and Backslash, a Control character, the octal digits of two           *)
(* characters, and the escapes of some with a percent sign.                   *)
(*                                                                         *)
(* A pattern is [address, verb, endpoint]; an address is a sequence of        *)
(* fragments [text, binds], where binds holds the name of a placeholder, and  *)
(* a verb is None or [accepts, binds].  Only a pattern of a method of a class  *)
(* has no address, and then none has: None cannot be sorted among texts.      *)
(* Patterns with a host, whose regular expressions cannot be made of the bytes *)
(* __init__ turns it into, are left out.  Here a text is a value with its     *)
(* place in TextOrder.                                                       *)
(***************************************************************************)
EXTENDS Nothing, SequencesExt, FiniteSets, Integers

CONSTANTS
    MaxContentLength,
    BlockLength,
    EnvironName,    \* header |-> its name in a WSGI environment, without HTTP_
    Precedence,     \* headers with addresses, the best ones first
    TextOrder,      \* the texts of fragments in ascending order
    Escaped         \* the text of each text that has escapes

Quote == "quote"
Backslash == "backslash"
Control == "control"
Blank == " "

Octals == "012" :> Control @@ "073" :> ";"
Escapes == "%3B" :> ";" @@ "%26" :> "&" @@ "%3D" :> "=" @@ "%2B" :> "+"

-----------------------------------------------------------------------------
(* Texts.                                                                   *)

\* str.split
Split(text, at) ==
    FoldLeft(LAMBDA pieces, x : IF x \in at THEN Append(pieces, <<>>)
                                ELSE [pieces EXCEPT ![Len(pieces)] = Append(@, x)],
             <<<<>>>>, text)

EqualSign(text) == SelectInSeq(text, LAMBDA x : x = "=")
BeforeSign(text) == SubSeq(text, 1, EqualSign(text) - 1)
AfterSign(text) == SubSeq(text, EqualSign(text) + 1, Len(text))

Strip(text) ==
    LET filled == {i \in DOMAIN text : text[i] # Blank}
    IN  IF filled = {} THEN <<>>
        ELSE SubSeq(text, CHOOSE i \in filled : \A j \in filled : i <= j,
                          CHOOSE i \in filled : \A j \in filled : i >= j)

\* unquote of urllib
Unescaped(text) == [i \in DOMAIN text |-> IF text[i] \in DOMAIN Escapes THEN Escapes[text[i]] ELSE text[i]]

\* Append a value to the list of a name.
AddTo(dict, name, value) ==
    (name :> (IF name \in DOMAIN dict THEN Append(dict[name], value) ELSE <<value>>)) @@ dict

-----------------------------------------------------------------------------
(* Bodies.                                                                  *)

\* A stream gives no more than a chunk at a time.
RECURSIVE Blocks(_, _)
Blocks(stream, left) ==
    IF left <= 0 \/ stream = <<>> THEN <<>>
    ELSE LET wanted == IF left < BlockLength THEN left ELSE BlockLength
             read == IF Head(stream) < wanted THEN Head(stream) ELSE wanted
             rest == IF read = Head(stream) THEN Tail(stream) ELSE <<Head(stream) - read>> \o Tail(stream)
         IN  <<read>> \o Blocks(rest, left - read)

\* The length is not compared with what may be read.
BadInput(length, stream) ==
    [refused |-> FALSE, blocks |-> Blocks(stream, IF length = None THEN MaxContentLength ELSE length)]

\* __wsgi_input_to_iterable; an empty length is 0, and without one as much is read as
\* may be.
Input(length, stream) ==
    LET n == IF length = None THEN MaxContentLength ELSE length
    IN  IF n > MaxContentLength THEN [refused |-> TRUE, blocks |-> <<>>]
        ELSE [refused |-> FALSE, blocks |-> Blocks(stream, n)]

-----------------------------------------------------------------------------
(* Queries.                                                                 *)

\* What is escaped is made of escapes before the signs for blanks are.
BadFormText(text) == ReplaceAll(Unescaped(text), "+", Blank)

FormText(text) == Unescaped(ReplaceAll(text, "+", Blank))

\* _parse_qs: a name without a sign has no value.
ParseQs(qs) ==
    FoldLeft(LAMBDA dict, pair :
                 CASE pair = <<>> -> dict
                   [] pair # <<>> /\ EqualSign(pair) = 0 -> AddTo(dict, FormText(pair), None)
                   [] OTHER -> AddTo(dict, FormText(BeforeSign(pair)), FormText(AfterSign(pair))),
             <<>>, Split(qs, {"&", ";"}))

-----------------------------------------------------------------------------
(* Headers and cookies.                                                     *)

\* Of the ways to escape a character only that with digits is known.
RECURSIVE BadUnescape(_)
BadUnescape(text) ==
    LET i == SelectInSeq(text, LAMBDA x : x = Backslash)
    IN  IF i \in {0, Len(text)} THEN text
        ELSE SubSeq(text, 1, i) \o BadUnescape(SubSeq(text, i + 1, Len(text)))

RECURSIVE Unescape(_)
Unescape(text) ==
    LET i == SelectInSeq(text, LAMBDA x : x = Backslash)
    IN  IF i \in {0, Len(text)} THEN text
        ELSE SubSeq(text, 1, i - 1) \o <<IF text[i + 1] \in DOMAIN Octals THEN Octals[text[i + 1]]
                                      ELSE text[i + 1]>>
                \o Unescape(SubSeq(text, i + 2, Len(text)))

\* _unquote_cookie
UnquoteCookie(text) ==
    IF Len(text) < 2 \/ text[1] # Quote \/ text[Len(text)] # Quote THEN text
    ELSE Unescape(SubSeq(text, 2, Len(text) - 1))

\* _parse_cookie: the last cookie of a name.
PutCookie(dict, name, value) ==
    IF name = <<>> /\ value = <<>> THEN dict ELSE (name :> UnquoteCookie(value)) @@ dict
ParseCookie(text) ==
    FoldLeft(LAMBDA dict, chunk :
                 IF EqualSign(chunk) = 0 THEN PutCookie(dict, <<>>, Strip(chunk))
                 ELSE PutCookie(dict, Strip(BeforeSign(chunk)), Strip(AfterSign(chunk))),
             <<>>, Split(text, {";"}))

\* _get_http_headers: the server has joined those of one name, and keeps Content-Type
\* and Content-Length somewhere else.
WsgiHeaders(sent) ==
    LET names == {sent[i].name : i \in DOMAIN sent} \cap DOMAIN EnvironName
        texts(n) == SelectSeq(sent, LAMBDA h : h.name = n)
    IN  [key \in {<<EnvironName[n]>> : n \in names} |->
            LET all == texts(CHOOSE n \in names : EnvironName[n] = key[1])
            IN  <<FoldLeft(LAMBDA text, h : text \o <<",">> \o h.value, all[1].value, Tail(all))>>]

\* getAllRawHeaders and _decode_dict
TwistedHeaders(sent) ==
    FoldLeft(LAMBDA dict, h : AddTo(dict, <<h.name>>, Unescaped(h.value)), <<>>, sent)

\* The cookies are put among the headers.  One that is called cookie is one more header
\* to be read.
AddCookies(doc, cookies) ==
    FoldSet(LAMBDA name, dict : AddTo(dict, name, cookies[name]), doc, DOMAIN cookies)
RECURSIVE LoadCookies(_, _, _)
LoadCookies(doc, key, i) ==
    IF i > Len(doc[key]) THEN doc
    ELSE LoadCookies(AddCookies(doc, ParseCookie(doc[key][i])), key, i + 1)

\* decompose_incoming_envelope
HeaderDoc(doc) ==
    CASE <<"cookie">> \in DOMAIN doc -> LoadCookies(doc, <<"cookie">>, 1)
      [] <<"cookie">> \notin DOMAIN doc /\ <<"Cookie">> \in DOMAIN doc ->
            LoadCookies(doc, <<"Cookie">>, 1)
      [] OTHER -> doc

-----------------------------------------------------------------------------
(* Addresses.                                                               *)

\* is_valid_ipv4, is_valid_ipv6
IsValidIp(ip) == ip.family \in {"v4", "v6"}

\* get_ip and get_real_ip of AddressParser: an address is [ip, kind, family], where kind
\* is "public", "private" or "loopback".
Better(best, ip) ==
    IF best = None THEN ip
    ELSE IF best.kind = "loopback" /\ ip.kind # "loopback" THEN ip ELSE best
NextAddress(st, ip, real) ==
    CASE st.found # None \/ ~IsValidIp(ip) -> st
      [] st.found = None /\ ip.kind = "public" -> [st EXCEPT !.found = ip]
      [] OTHER -> IF real THEN st ELSE [st EXCEPT !.best = Better(@, ip)]
Addresses(env, right) ==
    FlattenSeq([i \in DOMAIN Precedence |->
                  IF Precedence[i] \notin DOMAIN env THEN <<>>
                  ELSE IF right THEN Reverse(env[Precedence[i]]) ELSE env[Precedence[i]]])
GetIp(env, real, right) ==
    LET st == FoldLeft(LAMBDA s, ip : NextAddress(s, ip, real), [found |-> None, best |-> None],
                       Addresses(env, right))
    IN  IF st.found # None THEN st.found ELSE st.best

\* get_trusted_ip: the other end of the first list that ends with a proxy.
GetTrustedIp(env, proxies, right) ==
    LET list(i) == IF Precedence[i] \notin DOMAIN env THEN <<>>
                   ELSE IF right THEN Reverse(env[Precedence[i]]) ELSE env[Precedence[i]]
        known == SelectSeq([i \in 1 .. 2 |-> list(i)],
                           LAMBDA ips : Len(ips) > 1 /\ ips[Len(ips)].ip \in proxies)
    IN  IF known = <<>> THEN None ELSE known[1][1]

\* get_peer: the type and the host of an Address.
GetPeer(env) ==
    LET ip == GetIp(env, FALSE, FALSE)
    IN  IF ip = None THEN None ELSE [type |-> IF ip.family = "v4" THEN "TCP4" ELSE "TCP6", host |-> ip.ip]

\* _reconstruct_url of WSGI: [authority, path], or None when an IndexError is raised.
Authority(e) ==
    IF e.host # None THEN <<e.host>>
    ELSE IF e.port = (IF e.scheme = "https" THEN 443 ELSE 80) THEN <<e.server>>
    ELSE <<e.server, e.port>>
ScriptPart(script) ==
    CASE script = <<"/">> -> <<>>
      [] Len(script) > 1 /\ script[1] = "/" /\ script[2] = "/" -> Tail(script)
      [] OTHER -> script
ReconstructUrl(e) ==
    LET slash == e.script = <<"/">>
    IN  IF slash /\ e.path = <<>> THEN None
        ELSE [authority |-> Authority(e),
              path |-> (IF slash /\ e.path[1] # "/" THEN e.script ELSE ScriptPart(e.script)) \o e.path]

\* What a text has before another one.
UpTo(text, x) ==
    LET i == SelectInSeq(text, LAMBDA y : y = x) IN IF i = 0 THEN text ELSE SubSeq(text, 1, i - 1)

\* is_wsdl_request
IsWsdlRequest(e) ==
    /\ e.method = "GET"
    /\ \/ e.query # None /\ UpTo(e.query, "=") = <<"wsdl">>
       \/ e.path # <<>> /\ e.path[Len(e.path)] = ".wsdl"

\* WsgiApplication.__call__: every request needs an address.
WsgiCall(e) ==
    LET url == ReconstructUrl(e)
    IN  CASE url = None -> [to |-> "nothing", url |-> None]
          [] url # None /\ IsWsdlRequest(e) -> [to |-> "wsdl", url |-> [url EXCEPT !.path = UpTo(@, ".wsdl")]]
          [] OTHER -> [to |-> "rpc", url |-> url]

-----------------------------------------------------------------------------
(* Answers.                                                                 *)

\* to_bytes_iterable, of a value [form, type]: what is written and whether its size is
\* known.  Only a File.Value has a type.
Document(body, sized) == [body |-> body, sized |-> sized, error |-> FALSE]
NoDocument == [body |-> None, sized |-> TRUE, error |-> FALSE]
Unwritten == [body |-> None, sized |-> TRUE, error |-> TRUE]
Written(class, value, ignoreUncap) ==
    CASE class = "file" -> IF value # None /\ value.form = "file" THEN Document("file", FALSE)
                           ELSE Unwritten
      [] class # "file" /\ value = None -> Document("nothing", TRUE)
      [] class = "complex" /\ value # None ->
            IF ignoreUncap THEN Document("nothing", TRUE) ELSE Unwritten
      [] OTHER -> Document(value.form, value.form # "generator")

\* _handle_rpc: of several results nothing is written.  One that is ignored is None.
Ignored(x) == x.value # None /\ x.value.form = "ignored"
HandleRpc(x) ==
    LET many == x.style = "wrapped" /\ Len(x.returns) > 1
        value == IF Ignored(x) THEN None ELSE x.value
    IN  CASE many /\ Ignored(x) -> Document("nothing", TRUE)
          [] many /\ ~Ignored(x) /\ ~x.ignoreUncap -> Unwritten
          [] ~many /\ Len(x.returns) = 1 -> Written(x.returns[1], value, x.ignoreUncap)
          [] OTHER -> NoDocument

\* object_to_simple_dict with _header_to_bytes, of the members [name, time, many, min]
\* of a header class.  A datetime that is missing has no zone.
HeadersOf(class, object) ==
    LET values == [n \in {m.name : m \in class} |-> object[n]]
        left == {m.name : m \in {m \in class : object[m.name] = None /\ m.min = 0}}
    IN  [ok |-> \A m \in class : object[m.name] = None /\ m.min > 0 => ~m.time,
         values |-> [n \in DOMAIN values \ left |-> values[n]]]
OutHeaders(x) ==
    CASE x.header = None -> [ok |-> TRUE, values |-> <<>>]
      [] x.header # None /\ x.class = None -> [ok |-> FALSE, values |-> <<>>]
      [] OTHER -> HeadersOf(x.class, x.header)

\* What WsgiApplication makes of it.  An error that comes after the status was set and
\* the result was written changes neither of them; what a user says of the length does
\* not last.  Unless it is chunked the answer is joined as texts are, which bytes are not.
Fault(x) == [body |-> "fault", type |-> "text/plain", headers |-> x.user, length |-> TRUE, raises |-> FALSE]
FileType(x, type) ==
    IF Len(x.returns) = 1 /\ x.returns[1] = "file" /\ x.value.type # None THEN x.value.type ELSE type
Sent(x, doc, headers) ==
    [body |-> IF doc.body = None THEN "nothing" ELSE doc.body,
     type |-> FileType(x, IF x.type = None THEN "text/plain" ELSE x.type),
     headers |-> headers @@ x.user, length |-> doc.sized \/ ~x.chunked, raises |-> FALSE]
Answer(x, doc, out) ==
    CASE doc.error \/ (~out.ok /\ doc.body = None) -> Fault(x)
      [] ~doc.error /\ ~out.ok /\ doc.body # None -> [Sent(x, doc, <<>>) EXCEPT !.length = TRUE]
      [] OTHER -> [Sent(x, doc, out.values) EXCEPT !.raises = ~x.chunked /\ doc.body # "nothing"]

-----------------------------------------------------------------------------
(* Routes.                                                                  *)

Place(text) == CHOOSE i \in DOMAIN TextOrder : TextOrder[i] = text

\* The first fragment in which two addresses differ.
Difference(a, b) ==
    CHOOSE i \in 1 .. Len(a) + 1 :
        /\ \A j \in 1 .. i - 1 : j <= Len(b) /\ a[j].text = b[j].text
        /\ i > Len(a) \/ i > Len(b) \/ a[i].text # b[i].text

\* Addresses are compared as texts.
Less(a, b) ==
    LET i == Difference(a, b)
    IN  a # None /\ i <= Len(b) /\ (i > Len(a) \/ Place(a[i].text) < Place(b[i].text))

\* As if they were not reversed.
BadHttpPatterns(patterns) ==
    {order \in SetToSeqs(patterns) :
        \A i, j \in DOMAIN order : i < j => ~Less(order[j].address, order[i].address)}

\* The patterns of all methods are put into a set and sorted, in reverse: those that
\* have the same address come in any order.
HttpPatterns(patterns) ==
    {order \in SetToSeqs(patterns) :
        \A i, j \in DOMAIN order : i < j => ~Less(order[i].address, order[j].address)}

VerbFits(p, verb) == p.verb = None \/ verb \in p.verb.accepts

\* Without an address the end of the path is to be the name of the endpoint.  Under
\* Twisted the path is bytes, and no name is equal to those.
AddressFits(p, server, path) ==
    IF p.address = None THEN server = "wsgi" /\ path[Len(path)] = p.endpoint
    ELSE /\ Len(path) = Len(p.address)
         /\ \A i \in DOMAIN path : p.address[i].binds = {} => p.address[i].text = path[i]

\* Of each name the values of one dictionary, then those of the other.
ListOf(values, name) == IF name \in DOMAIN values THEN values[name] ELSE <<>>
Extended(values, more) ==
    [name \in DOMAIN values \cup DOMAIN more |-> ListOf(values, name) \o ListOf(more, name)]

VerbParams(p, verb) == [name \in IF p.verb = None THEN {} ELSE p.verb.binds |-> <<verb>>]

AddressParams(p, path) ==
    LET parts == IF p.address = None THEN <<>> ELSE p.address
        part(name) == CHOOSE i \in DOMAIN parts : name \in parts[i].binds
    IN  [name \in UNION {parts[i].binds : i \in DOMAIN parts} |-> <<path[part(name)]>>]

\* As if the verb were not looked at.
BadMatchPattern(order, server, verb, path) ==
    LET fits == SelectSeq(order, LAMBDA p : AddressFits(p, server, path))
    IN  IF fits = <<>> THEN [endpoint |-> None, params |-> <<>>]
        ELSE [endpoint |-> fits[1].endpoint,
              params |-> Extended(VerbParams(fits[1], verb), AddressParams(fits[1], path))]

\* Parameters are appended as soon as a part of a pattern fits, whether the rest of it
\* does or not.  They end with the first pattern that fits.
MatchPattern(order, server, verb, path) ==
    FoldLeft(LAMBDA st, p :
                 IF st.endpoint # None \/ ~VerbFits(p, verb) THEN st
                 ELSE LET tried == Extended(st.params, VerbParams(p, verb))
                      IN  IF ~AddressFits(p, server, path) THEN [st EXCEPT !.params = tried]
                          ELSE [endpoint |-> p.endpoint,
                                params |-> Extended(tried, AddressParams(p, path))],
             [endpoint |-> None, params |-> <<>>], order)

\* Without a pattern the last fragment of the path is the name of the method.
MethodName(match, path) ==
    IF match.endpoint # None THEN match.endpoint ELSE path[Len(path)]

\* The body under WSGI: the query, the parameters and then the form.  In a request
\* with a form a single empty value is none.
WsgiBody(match, verb, query, form) ==
    LET doc == Extended(Extended(query, match.params), form)
    IN  [name \in DOMAIN doc |->
            IF verb \in {"POST", "PUT", "PATCH"} /\ doc[name] = <<"">> THEN <<None>> ELSE doc[name]]

Unquote(text) == IF text \in DOMAIN Escaped THEN Escaped[text] ELSE text

\* The arguments of a request of twisted.web: those of the form in the place of those
\* of the query.
Arguments(query, form) == form @@ query

\* As if parameters and arguments had keys of one type.
BadTwistedBody(match, query, form) ==
    LET doc == Extended(Arguments(query, form), match.params)
    IN  [name \in DOMAIN doc |-> [i \in DOMAIN doc[name] |-> Unquote(doc[name][i])]]

\* The body under Twisted.  The names of arguments are bytes and those of parameters
\* texts, so that get finds nothing to extend; when bytes are made texts at last the
\* parameter, which comes later, takes the place of the argument.  Values are unquoted
\* once more.  The verb is bytes, of which none is equal to "POST".
TwistedBody(match, query, form) ==
    LET doc == match.params @@ Arguments(query, form)
    IN  [name \in DOMAIN doc |-> [i \in DOMAIN doc[name] |-> Unquote(doc[name][i])]]
===============================================================================
