----------------------------- MODULE MCDocuments -----------------------------
(***************************************************************************)
(* Documents with a few classes.                                            *)
(***************************************************************************)
EXTENDS Documents

CONSTANTS text1, text2

F(k, t, array, min, max) ==
    [name |-> k, type |-> t, array |-> array, attribute |-> FALSE, min |-> min, max |-> max]

Attribute(k, min) == [F(k, Simple, FALSE, min, 1) EXCEPT !.attribute = TRUE]

MCFlatTypeInfo ==
    "Root" :> <<F("x", Simple, FALSE, 0, 1), F("s", Simple, FALSE, 0, Unbounded),
                F("p", "Part", FALSE, 0, 1), F("q", "Element", TRUE, 0, 1)>>
    @@ "Part" :> <<F("y", Simple, FALSE, 0, 1), F("e", "Leaf", FALSE, 0, Unbounded)>>
    @@ "Element" :> <<F("y", Simple, FALSE, 0, 1), F("z", Simple, FALSE, 1, 1)>>
    @@ "Leaf" :> <<F("z", Simple, FALSE, 0, 1)>>
    @@ "Twice" :> <<F("p", "Part", FALSE, 0, 1), F("q", "Part", FALSE, 0, 1)>>
    @@ "Array" :> <<F("q", "Pair", TRUE, 0, 1)>>
    @@ "Pair" :> <<F("y", Simple, FALSE, 0, 1), F("z", Simple, FALSE, 0, 1)>>
    @@ "Counted" :> <<F("x", Simple, FALSE, 1, 1), F("s", Simple, FALSE, 1, 2),
                      F("p", "Needy", FALSE, 0, 1), F("q", "Needy2", FALSE, 0, 2)>>
    @@ "Needy" :> <<F("y", Simple, FALSE, 1, 1), F("z", Simple, FALSE, 0, 1)>>
    @@ "Needy2" :> <<F("y", Simple, FALSE, 1, 1)>>
    @@ "Holder" :> <<F("x", Simple, FALSE, 0, 1), F("p", "Base", FALSE, 0, 1),
                     F("q", "Base", TRUE, 0, 1)>>
    @@ "Base" :> <<F("y", Simple, FALSE, 0, 1)>>
    @@ "Derived" :> <<F("y", Simple, FALSE, 0, 1), F("z", Simple, FALSE, 1, 1)>>
    @@ "Pairs" :> <<F("s", Simple, FALSE, 2, 3), F("x", Simple, FALSE, 0, 1)>>
    @@ "Letter" :> <<Attribute("x", 0), F("y", "Stamp", FALSE, 0, 1),
                     F("z", "Seal", FALSE, 0, 2), F("s", Simple, FALSE, 0, 2),
                     F("p", Simple, TRUE, 0, 1)>>
    @@ "Stamp" :> <<Attribute("x", 0), F("y", Simple, FALSE, 0, 1)>>
    @@ "Seal" :> <<Attribute("e", 0)>>
    @@ "Signed" :> <<Attribute("x", 1), F("y", Simple, FALSE, 0, 1)>>

MCSubclasses == [c \in DOMAIN MCFlatTypeInfo |-> IF c = "Base" THEN {"Derived"} ELSE {}]

MCFlatInstances == {"Root", "Twice"}

Key(k) == <<Step(k, NoIndex)>>
Key2(k, i, l) == <<Step(k, i), Step(l, NoIndex)>>

Times(n) == [i \in 1 .. n |-> text1]

\* All dicts with each of the keys absent or with one of its contents.
Dicts(contents) ==
    FoldSet(LAMBDA k, all : all \cup {d @@ (k :> x) : d \in all, x \in contents[k]},
            {<<>>}, DOMAIN contents)
MCFlatDocs ==
    {[class |-> "Counted", doc |-> d] :
        d \in Dicts([k \in {Key("x"), Key("s"), Key2("p", NoIndex, "y"), Key2("p", NoIndex, "z"),
                            Key2("q", 0, "y"), Key2("q", 1, "y"), Key2("q", 3, "y")} |->
                       {Times(n) : n \in 1 .. IF k = Key("s") THEN 3 ELSE 2}])}

MCArrayDocs ==
    {[class |-> "Array", doc |-> d] :
        d \in Dicts([k \in {Key2("q", i, l) : i \in 0 .. 3, l \in {"y", "z"}} |->
                       IF k[2].name = "y" THEN {<<text1>>, <<text2>>} ELSE {<<text1>>}])}

MCHierClasses == {"Root", "Holder"}
MCHierProts == [ignoreWrappers : BOOLEAN, asList : BOOLEAN, polymorphic : BOOLEAN]

Needs == Dicts("y" :> {text1} @@ "z" :> {text1})

MCHierDocs ==
    {[class |-> "Counted", doc |-> d] :
        d \in Dicts("x" :> {text1} @@ "s" :> {Times(1), Times(2), Times(3)} @@ "p" :> Needs
                    @@ "q" :> SeqOf(Dicts("y" :> {text1}), 3))}
    \cup {[class |-> "Pairs", doc |-> d] :
        d \in Dicts("x" :> {text1} @@ "s" :> {Times(n) : n \in 0 .. 4})}

MCXmlClasses == {"Root", "Holder", "Letter", "Signed"}

Elt(k, sub) == [Leaf(k, None) EXCEPT !.sub = sub]
MCXmlDocs ==
    {[class |-> "Counted", doc |-> Elt("body", sub)] :
        sub \in SeqOf({Leaf("x", text1), Leaf("s", text1), Elt("p", <<>>), Elt("p", <<Leaf("y", text1)>>),
                       Elt("q", <<Leaf("y", text1)>>), Elt("q", <<Leaf("y", text1), Leaf("y", text1)>>)}, 4)}

Objects2 == [1 .. 2 -> {None, text1}]
Methods ==
    [style : {"wrapped"}, simple : {FALSE}, n : 0 .. 2]
    \cup [style : {"bare"}, simple : {FALSE}, n : 1 .. 2]
    \cup [style : {"bare"}, simple : {TRUE}, n : {1}]
Protocols == {"xml", "soap", "json", "jsonrpc", "msgpackrpc"}

MCCalls ==
    UNION {[prot : Protocols, method : {m},
            body : {None} \cup IF m.simple THEN {text1} ELSE [1 .. m.n -> {None, text1}]] : m \in Methods}

\* A bare method without results has a message without members.
MCAnswers ==
    UNION {[prot : Protocols, method : {m},
            returned : {None} \cup IF m.simple \/ (m.style = "wrapped" /\ m.n < 2) THEN {text1}
                                   ELSE SeqOf({None, text1}, 3)] : m \in Methods}
    \cup [prot : Protocols, method : {[style |-> "bare", simple |-> FALSE, n |-> 0]},
          returned : {None}]

HeaderClasses == {<<>>} \cup {<<"a">>, <<"a", "b">>, <<"a", "a">>, <<"a", "b", "c">>}
MCSentHeaders ==
    [prot : {"soap", "jsonrpc", "http"}, classes : {[i \in DOMAIN h |-> [name |-> h[i]]] : h \in HeaderClasses \ {<<>>}},
     out : {None} \cup [list : {FALSE}, values : {<<o>> : o \in Objects2}]
           \cup [list : {TRUE}, values : SeqOf(Objects2 \cup {None}, 3)]]

Carriers ==
    [text : {"good", "malformed", "undecodable", "untokened"}, charset : BOOLEAN, post : BOOLEAN,
     mapped : BOOLEAN]
Plain == [text |-> "good", charset |-> TRUE, post |-> TRUE, mapped |-> FALSE]
Dictionary == [dict : BOOLEAN, keys : 0 .. 2]
Envelopes ==
    [soap |-> [envelope : BOOLEAN, headers : 0 .. 2, bodies : 0 .. 2, children : 0 .. 2, fault : BOOLEAN],
     xml |-> {None}, json |-> Dictionary, yaml |-> Dictionary, msgpack |-> Dictionary,
     jsonrpc |-> [dict : BOOLEAN, version : BOOLEAN, fault : BOOLEAN, body : {"none", "dict", "other"},
                  keys : 0 .. 2],
     hybrid |-> {None},
     msgpackrpc |-> [sized : BOOLEAN, len : 2 .. 5, type : 0 .. 4]]
MCRequests ==
    UNION {[prot : {prot}, carrier : Carriers, envelope : Envelopes[prot], known : {TRUE}]
           \cup [prot : {prot}, carrier : {Plain}, envelope : Envelopes[prot], known : BOOLEAN]
              : prot \in DOMAIN Envelopes}

\* A message with two parameters, before or after what they may refer to.
MCBodies ==
    LET kids(order) == 0 :> order @@ 1 :> <<2, 3>> @@ 4 :> <<6>> @@ 5 :> <<7>> @@ [e \in {2, 3, 6, 7} |-> <<>>]
        free == {2, 3, 6, 7}
    IN  {[kids |-> kids(order), href |-> h @@ [e \in {0, 1, 4, 5} |-> None], targets |-> {4, 5}] :
            order \in {<<1, 4, 5>>, <<4, 5, 1>>}, h \in [free -> {None, 4, 5, 9}]}

MCFaults ==
    [prot : {"soap11", "soap12", "soap", "dict", "jsonrpc", "msgpackrpc"}, ignoreEmpty : BOOLEAN,
     fault : [code : {<<c>> \o s : c \in {"Client", "Server", "Other"}, s \in SeqOf({"x", "y"}, 2)},
              actor : {"none", "empty", "text"}, schema : BOOLEAN,
              detail : {"none", "dict0", "dict1", "dict2", "text", "other"}]]

Fixed(text) == [text |-> text, binds |-> {}]
Placeholder(text, name) == [text |-> text, binds |-> {name}]
Addresses ==
    LET firsts == {Fixed("a"), Fixed("1"), Placeholder("<u>", "u"), Placeholder("{u}", "u")}
        lasts == {Fixed("b"), Placeholder("<v>", "v")}
    IN  {<<f>> : f \in firsts} \cup {<<f, l>> : f \in firsts \ {Fixed("1")}, l \in lasts}
Verbs == {None, [accepts |-> {"GET"}, binds |-> {}], [accepts |-> {"GET", "POST"}, binds |-> {"w"}]}
Patterns(endpoint) == [address : Addresses, verb : Verbs, endpoint : {endpoint}]
Nowhere(endpoint) == [address : {None}, verb : Verbs, endpoint : {endpoint}]

MCHttpRequests ==
    [patterns : {{p, q} : p \in Patterns("f"), q \in Patterns("g")},
     verb : {"GET"}, path : {<<"a">>, <<"1">>, <<"a", "b">>}, query : {<<>>}, form : {<<>>}]
    \cup [patterns : {{p} : p \in Patterns("f")}, verb : {"POST"},
          path : {<<"">>, <<"%61">>, <<"a", "b">>},
          query : Dicts("u" :> {<<"">>, <<"%61">>} @@ "w" :> {<<"a", "b">>}),
          form : Dicts("u" :> {<<"">>, <<"1">>} @@ "y" :> {<<"">>, <<"%61">>})]
    \cup [patterns : {{p, q} : p \in Nowhere("f"), q \in Nowhere("g")}, verb : {"GET", "POST"},
          path : {<<"f">>, <<"a", "g">>, <<"a">>},
          query : Dicts("w" :> {<<"">>, <<"a", "b">>}), form : {<<>>}]

ClothType(kind, fields) ==
    [kind |-> kind, fields |-> fields, of |-> None, required |-> FALSE, exc |-> FALSE]
SimpleCloth == ClothType("simple", <<>>)
Inner == ClothType("complex", "s" :> SimpleCloth)
MCClothTypes ==
    {ClothType("complex", "s" :> SimpleCloth @@ "q" :> [SimpleCloth EXCEPT !.required = TRUE]
                          @@ "x" :> [SimpleCloth EXCEPT !.exc = TRUE] @@ "c" :> Inner
                          @@ "r" :> [ClothType("array", <<>>) EXCEPT !.of = Inner])}
MCClothInsts ==
    LET both == <<[s |-> text1], [s |-> None]>>
    IN  {[s |-> s, q |-> None, x |-> text1, c |-> c.obj, r |-> c.array] :
            s \in {None, text1},
            c \in {[obj |-> None, array |-> both], [obj |-> [s |-> None], array |-> both],
                  [obj |-> [s |-> text1], array |-> <<>>]}}

Mark == [id |-> None, attr |-> None, data |-> None, tag |-> FALSE]
Id(k) == [Mark EXCEPT !.id = k]
FewMarks == {Mark, Id("s"), Id("c"), Id("r")}
ManyMarks ==
    FewMarks \cup {Id("q"), Id("x"), Id("u"), [Id("c") EXCEPT !.data = "s"], [Mark EXCEPT !.attr = "s"],
                  [Mark EXCEPT !.data = "s"], [Id("s") EXCEPT !.tag = TRUE]}

\* The elements of a template come in the order of the document.
Templates(marks, size) ==
    LET ordered(p, e) ==
            \/ e = 1 /\ p[e] = 0
            \/ /\ e > 1
               /\ LET up[d \in 0 .. e - 1] == d # 0 /\ (d = p[e] \/ up[p[d]]) IN up[e - 1]
        parents == {p \in [1 .. size -> 0 .. size - 1] :
                      /\ \A e \in 1 .. size : p[e] < e
                      /\ \A e \in 1 .. size : ordered(p, e)}
    IN  {[e \in 1 .. size |-> [parent |-> p[e]] @@ m[e]] :
            p \in parents, m \in {f \in [1 .. size -> marks] : f[1] = Mark}}
MCCloths == Templates(ManyMarks, 3) \cup Templates(ManyMarks, 4)

Markup(kind, name, fields) ==
    [kind |-> kind, name |-> name, fields |-> fields, bases |-> {}, many |-> FALSE, required |-> FALSE,
     exc |-> FALSE, hidden |-> FALSE, order |-> None, sub |-> None, default |-> None, label |-> None,
     prot |-> None, protAttrs |-> <<>>, methods |-> <<>>, header |-> TRUE, key |-> FALSE]
Simple1 == Markup("simple", "S", <<>>)
Member(name, type) == [name |-> name, type |-> type]
Prot(kind, header, ignoreWrappers) == [kind |-> kind, header |-> header, ignoreWrappers |-> ignoreWrappers]
Column == Prot("column", TRUE, TRUE)
MCMarkupProts ==
    {Prot("xml", TRUE, w) : w \in BOOLEAN} \cup {Prot("html", TRUE, w) : w \in BOOLEAN}
    \cup {Prot("micro", TRUE, FALSE)} \cup {Prot(k, h, TRUE) : k \in {"column", "row"}, h \in BOOLEAN}

ClassD == [Markup("complex", "D", <<Member("d", [Simple1 EXCEPT !.key = TRUE]), Member("e", Simple1)>>)
             EXCEPT !.methods = <<"get">>]
ClassE == [ClassD EXCEPT !.name = "E", !.bases = {"D"}, !.fields = Append(@, Member("g", Simple1)),
                         !.methods = <<>>]
MCClasses == "D" :> ClassD @@ "E" :> ClassE @@ "C" :> Markup("complex", "C", <<>>)
ManyOf(type) == [type EXCEPT !.many = TRUE]
ArrayOf(type) == Markup("array", type.name \o "Array", <<Member(type.name, ManyOf(type))>>)

\* A field with the values it may have.
Choice(name, type, values) == [name |-> name, type |-> type, values |-> values]
ObjectD(x) == Mk!Object("D", "d" :> Mk!Text(x \o "d") @@ "e" :> None)
ObjectE(x) == Mk!Object("E", "d" :> None @@ "e" :> Mk!Text(x \o "e") @@ "g" :> Mk!Text(x \o "g"))
ListsOf(a, b) == {None} \cup {Mk!List(p, s) : p \in BOOLEAN, s \in {<<>>, <<a, b>>}}
FieldChoices ==
    LET texts(k) == {None, Mk!Text(k)}
        dd(k) == ListsOf(ObjectD(k \o "1"), ObjectE(k \o "2"))
        ss(k) == ListsOf(Mk!Text(k \o "1"), Mk!Text(k \o "2"))
        simple(k, type) == Choice(k, type, texts(k))
    IN  {simple("s", Simple1),
         simple("q", [Simple1 EXCEPT !.required = TRUE, !.default = Mk!Text("default"), !.label = <<"Q">>]),
         simple("x", [Simple1 EXCEPT !.exc = TRUE]),
         simple("p", [Simple1 EXCEPT !.protAttrs = "xml" :> [exc |-> TRUE] @@ "row" :> [order |-> 0]]),
         simple("h", [Simple1 EXCEPT !.hidden = TRUE, !.order = 0, !.sub = "hh"]),
         simple("u", [Simple1 EXCEPT !.kind = "uri"]),
         simple("t", [Simple1 EXCEPT !.kind = "data"]),
         simple("m", [Simple1 EXCEPT !.kind = "attribute"]),
         Choice("o", ClassD, {None, ObjectD("o"), ObjectE("o")}),
         Choice("c", [ClassD EXCEPT !.prot = Column], {None, ObjectD("c")}),
         Choice("dd", ArrayOf(ClassD), dd("dd")),
         Choice("mm", ManyOf(ClassD), dd("mm")),
         Choice("ll", ManyOf(Simple1), ss("ll")),
         Choice("aa", ArrayOf(Simple1), ss("aa")),
         Choice("kk", ManyOf([ClassD EXCEPT !.prot = Column]), dd("kk"))}

MCMarkupFields == {f \in FieldChoices \X FieldChoices : f[1] # f[2]}

MCOrders ==
    UNION {{[i \in 1 .. n |-> Member(i, [Simple1 EXCEPT !.order = o[i]])] : o \in [1 .. n -> {None} \cup -2 .. 3]}
              : n \in 1 .. 4}

MCUploads == [length : {None} \cup -1 .. 7, stream : SeqOf(1 .. 3, 3)]

QueryTexts == {<<>>, <<"a">>, <<"=">>, <<"+">>, <<" ">>, <<";", "&">>, <<"a", "+", " ">>, None}
MCQueries == SeqOf({<<"a">>, <<"=", "b">>} \X QueryTexts, 3)

MCEnvironName == "Cookie" :> "cookie" @@ "X-A" :> "x_a"
Cookie(name, value) == [name |-> name, value |-> value]
MCCookies ==
    LET header(n) == Cookie(n, <<"h">>)
        texts == SeqOf({"quote", "backslash", "control", "012", ";", "%3B", "=", " ", "a"}, 2)
        names == {<<"a">>, <<"x_a">>, <<"X-A">>, <<"cookie">>}
        few == {<<"a">>, <<";", "quote">>, <<"backslash", "012">>, <<"%3B">>}
    IN  [server : {"wsgi", "twisted"},
         sent : {<<>>, <<header("X-A")>>, <<header("X-A"), header("Content-Type"), header("X-A")>>},
         cookies : {<<c>> : c \in {Cookie(n, v) : n \in names, v \in texts}}
                   \cup SeqOf({Cookie(n, v) : n \in names, v \in few}, 2)]

Address(ip, kind) ==
    [ip |-> ip, kind |-> kind, family |-> CASE ip = "s" -> "v6" [] ip = "z" -> "none" [] OTHER -> "v4"]
MCPrecedence == <<"HTTP_X_FORWARDED_FOR", "X_FORWARDED_FOR", "REMOTE_ADDR">>
MCPeers ==
    LET public == Address("p", "public")
        private == Address("q", "private")
        loop == Address("l", "loopback")
        lists == {<<Address("r", "public")>>, <<private, loop>>, <<loop, public>>}
        some == SeqOf({public, Address("s", "public"), private, loop, Address("z", "public")}, 2)
    IN  [env : Dicts("HTTP_X_FORWARDED_FOR" :> (some \ {<<>>}) @@ "X_FORWARDED_FOR" :> lists
                     @@ "REMOTE_ADDR" :> lists),
         proxies : {{}, {"q"}}, real : BOOLEAN, right : BOOLEAN]

MCEnvirons ==
    [scheme : {"http", "https"}, host : {None, "host"}, server : {"server"}, port : {80, 443, 8080},
     script : SeqOf({"/", "a"}, 2), path : SeqOf({"/", "b", ".wsdl"}, 2), method : {"GET", "POST"},
     query : {None, <<"wsdl">>, <<"wsdl", "=", "b">>, <<"b", "=", "wsdl">>}]

MCHttpAnswers ==
    LET header(n, time, min) == [name |-> n, time |-> time, min |-> min]
        classes == {{header("A", FALSE, m), header("B", TRUE, n)} : m \in 0 .. 1, n \in 0 .. 1}
    IN  [style : {"wrapped", "bare"},
         returns : {<<>>, <<"simple">>, <<"complex">>, <<"file">>, <<"simple", "file">>},
         value : {None} \cup [form : {"ignored", "text", "generator"}, type : {None}]
                 \cup [form : {"file"}, type : {None, "text/css"}],
         ignoreUncap : BOOLEAN, header : {None} \cup [{"A", "B"} -> {None, "v"}],
         class : {None} \cup classes, user : {<<>>, "A" :> "u"}, type : {None}, chunked : BOOLEAN]

MCTextOrder == <<"", "%61", "1", "<u>", "<v>", "a", "b", "{u}">>
MCEscaped == "%61" :> "a"

MCNameOrder == <<"e", "p", "q", "s", "x", "y", "z">>
MCIndexOrder == <<0, 2, 3, 1>>
=============================================================================
