------------------------------- MODULE MCModels -------------------------------
(***************************************************************************)
(* Definitions of a few classes, services, functions and simple types.      *)
(***************************************************************************)
EXTENDS Models

\* All dicts with each of the keys absent or with one of its contents.
Dicts(contents) ==
    FoldSet(LAMBDA k, all : all \cup {d @@ (k :> x) : d \in all, x \in contents[k]},
            {<<>>}, DOMAIN contents)

\* Class 1 is a simple type.  Classes 2 to 4 are defined in this order; a variant
\* has the members of its original, a class may have members of later classes.
Simple1 == [ns |-> "xsd", name |-> "string", orig |-> 1, extends |-> <<>>, fields |-> <<>>,
            methods |-> <<>>]
Class(i, ns, name, extends, fields) ==
    [ns |-> ns, name |-> name, orig |-> i, extends |-> extends, fields |-> fields, methods |-> <<>>]
Parents(i) == {<<>>} \cup {<<j>> : j \in 2 .. i - 1}
Members == {<<1>>} \cup {<<1, j>> : j \in 2 .. 4}

Programs ==
    LET two == {<<Simple1, Class(2, ns, "A", <<>>, f)>> : ns \in {"tns", "other"}, f \in Members}
        more(set, name) ==
            UNION {{Append(cs, Class(Len(cs) + 1, ns, name, e, f)) :
                       ns \in {"tns", "other"}, e \in Parents(Len(cs) + 1), f \in Members}
                     \cup {Append(cs, cs[i]) : i \in 2 .. Len(cs)} :
                   cs \in set}
    IN  more(more(two, "B"), "C") \cup more(more({cs \in two : cs[2].fields = <<1>>}, "B"), "A")

Method(headers, messages, aux) ==
    [owner |-> None, name |-> "m", headers |-> headers, messages |-> messages, aux |-> aux, when |-> TRUE]

\* Class 2 has a method with message 5, class 4 may have one with message 6.
MemberMethod(owner, name, message, when) ==
    [Method(<<>>, <<message>>, FALSE) EXCEPT !.owner = owner, !.name = name, !.when = when]
WithMethods ==
    {<<Simple1,
       [Class(2, a, "A", <<>>, <<1>>) EXCEPT !.methods = <<MemberMethod("A", "m", 5, w)>>],
       Class(3, b, "B", e, <<1>>),
       [Class(4, c, d, f, <<2, 3>>) EXCEPT
            !.methods = IF n = None THEN <<>> ELSE <<MemberMethod(d, n, 6, TRUE)>>],
       Class(5, "tns", "A.m", <<>>, <<2>>),
       Class(6, "tns", "D.m", <<>>, <<4>>)>> :
        a \in {"tns", "other"}, w \in BOOLEAN, b \in {"tns", "other"}, e \in {<<>>, <<2>>},
        c \in {"tns", "other"}, d \in {"A", "C"}, f \in {<<>>, <<2>>, <<3>>},
        n \in {None, "m", "n"}}

MCApps ==
    [program : Programs, tns : {"tns"}, methods : {<<Method(<<>>, <<4>>, FALSE)>>},
     classes : {<<>>, <<2>>}]
    \cup [program : Programs, tns : {"tns"}, methods : {<<Method(<<3>>, <<4>>, a)>> : a \in BOOLEAN},
          classes : {<<>>}]
    \cup [program : WithMethods, tns : {"tns"}, methods : {<<Method(<<>>, <<4>>, FALSE)>>},
          classes : {<<>>}]

\* Two functions in each service, with the same name or not, and one function twice.
ServiceMethods ==
    SeqOf([function : {1, 2}, name : {"k", "l"}, aux : BOOLEAN], 2)
MCServices ==
    {<<s>> : s \in [aux : BOOLEAN, methods : ServiceMethods]}
    \cup {<<s, t>> : s, t \in [aux : BOOLEAN, methods : ServiceMethods]}
    \cup {<<s, t, u>> : s, t, u \in [aux : BOOLEAN,
                                   methods : {<<[function |-> 1, name |-> "k", aux |-> FALSE]>>}]}

\* Two services with a method each, or one with two, which have headers or not.
NamedClass(ns, type, element) == [ns |-> ns, type |-> type, element |-> element]
TnsClass(name) == NamedClass("tns", name, name)
WsdlMethod(name, port, kind) ==
    [name |-> name, in |-> TnsClass(name), out |-> TnsClass(name \o "Response"), inHeaders |-> <<>>,
     outHeaders |-> <<>>, faults |-> <<>>, port |-> port, kind |-> kind]
Kinds == {"sync", "async", "callback"}
PortLists == {<<>>, <<"p">>, <<"p", "q">>}
MethodsNamed(name) == {WsdlMethod(name, p, k) : p \in {<<>>, <<"p">>, <<"q">>}, k \in Kinds}
ServicesOf(name, aux, methods) == [name : {name}, aux : aux, ports : PortLists, methods : methods]
WithHeaders(name) ==
    {[WsdlMethod(name, <<>>, k) EXCEPT !.in.ns = n, !.inHeaders = i, !.outHeaders = o, !.faults = f] :
        k \in Kinds, n \in {"tns", "other"},
        i \in {<<>>, <<TnsClass("H")>>, <<NamedClass("other", "H", "H")>>,
               <<NamedClass("tns", "H", "h")>>, <<TnsClass("H"), TnsClass("K")>>},
        o \in {<<>>, <<TnsClass("K")>>, <<TnsClass("K"), NamedClass("other", "H", "H")>>},
        f \in {<<>>, <<TnsClass("F")>>}}
MCDescribed ==
    {<<s, t>> : s \in ServicesOf("S", BOOLEAN, {<<m>> : m \in MethodsNamed("f")}),
                t \in ServicesOf("T", BOOLEAN, {<<m>> : m \in MethodsNamed("g")})}
    \cup {<<s>> : s \in ServicesOf("S", {FALSE}, {<<m, n>> : m \in MethodsNamed("f"),
                                                           n \in MethodsNamed("g")})}
    \cup {<<[name |-> "S", aux |-> FALSE, ports |-> <<>>, methods |-> <<m, n>>]>> :
             m \in WithHeaders("f"), n \in {x \in WithHeaders("g") : x.faults = <<>>}}

SimpleType == [kind |-> "simple", size |-> 0]
ObjectType(n) == [kind |-> "complex", size |-> n]
SelfType == [kind |-> "self", size |-> 0]

\* rpc, srpc and mrpc, the latter with and without a context.
Decorators ==
    {[start |-> <<"ctx">>, options |-> <<>>, class |-> None],
     [start |-> <<>>, options |-> "_no_ctx" :> TRUE, class |-> None],
     [start |-> <<"self", "ctx">>, options |-> "_no_self" :> FALSE, class |-> ObjectType(1)],
     [start |-> <<"self">>, options |-> "_no_self" :> FALSE @@ "_no_ctx" :> TRUE, class |-> ObjectType(0)]}
Names2 == {<<>>, <<"a">>, <<"a", "b">>}
DecoratedWith(names, params, options) ==
    {[f |-> d.start \o n, params |-> p, options |-> d.options @@ o, class |-> d.class] :
        d \in Decorators, n \in names, p \in params, o \in options}
MCDecorated ==
    DecoratedWith(Names2, SeqOf({SimpleType, ObjectType(0), ObjectType(1), SelfType}, 2),
                  Dicts("_body_style" :> {"bare", "out_bare"}
                        @@ "_in_arg_names" :> {"a" :> "b", "a" :> "c"}
                        @@ "_args" :> {<<"a">>, <<"self", "a">>}))
    \cup DecoratedWith({<<"a">>}, {<<SimpleType>>},
                  Dicts("_body_style" :> {"wrapped", "bare", "out_bare", "other"}
                        @@ "_soap_body_style" :> {"document", "rpc", "other"}
                        @@ "_returns" :> {<<SimpleType>>, <<ObjectType(0)>>, <<SimpleType, SimpleType>>}
                        @@ "_out_variable_name" :> {"r"}
                        @@ "_out_variable_names" :> {<<"r">>, <<"r", "s">>, <<"r", "r">>}))
    \cup DecoratedWith({<<>>, <<"a">>}, {<<>>, <<SimpleType>>},
                  {o \in Dicts("_in_message_name" :> {"m"} @@ "_operation_name" :> {"o"}
                               @@ "_service" :> {1} @@ "_service_class" :> {1}
                               @@ "_in_header" :> {"tuple", "other"} @@ "_default_on_null" :> {TRUE}
                               @@ "_body_style" :> {"bare", "out_bare"} @@ "_unknown" :> {1}) :
                      Cardinality(DOMAIN o) <= 2})

\* A class with a primary key, and one with a key and two fields more, one of which
\* is perhaps appended.  Fields are stored alike or not.
Type(kind, size) == [kind |-> kind, size |-> size]
PlainField(name, type) ==
    [name |-> name, type |-> type, class |-> 0, many |-> FALSE, store |-> 0, nullable |-> TRUE,
     pk |-> FALSE, excDb |-> FALSE, excMapper |-> FALSE, column |-> None, table |-> None]
Keys ==
    {[PlainField(<<"id">>, t) EXCEPT !.pk = TRUE] :
        t \in {Type("int", 32), Type("text", None)}}
    \cup {[PlainField(<<"id">>, Type("uint", 32)) EXCEPT !.pk = TRUE, !.column = <<"k">>]}
SimpleFields ==
    {PlainField(<<"f">>, Type(k, s)) : k \in {"int", "uint"}, s \in {None, 8, 16, 32, 64}}
    \cup {PlainField(<<"f">>, Type(k, s)) : k \in {"text", "bytes"}, s \in {None, 4}}
    \cup {[PlainField(<<"f">>, Type("int", 32)) EXCEPT !.nullable = n, !.column = c] :
             n \in BOOLEAN, c \in {None, <<"g", "id">>, <<"p", "id">>, <<"k">>}}
    \cup {[PlainField(<<"f">>, Type("text", 4)) EXCEPT !.excDb = TRUE],
          [PlainField(<<"f">>, Type("text", 4)) EXCEPT !.excMapper = TRUE]}
StoredFields(name) ==
    LET stored == [PlainField(name, Type("int", 16)) EXCEPT !.store = 1]
    IN  {[stored EXCEPT !.class = c, !.many = m] : c \in 0 .. 2, m \in BOOLEAN} \ {stored}
TableOf(multi, left, right) ==
    [as |-> "table", multi |-> multi, table |-> IF multi = "named" THEN <<"r">> ELSE None,
     left |-> left, right |-> right]
Storages ==
    {TableOf("no", None, None), TableOf("no", <<"k">>, None), TableOf("no", None, <<"k">>),
     TableOf("auto", None, None), TableOf("named", None, None),
     [TableOf("no", None, None) EXCEPT !.as = "xml"]}
MCStores ==
    [key : Keys, first : SimpleFields \cup StoredFields(<<"f">>), second : StoredFields(<<"g">>),
     storage : Storages, other : {None} \cup Storages,
     shape : {"defined", "appended", "extended"}]

NoKw == [gt |-> {}, ge |-> {}, lt |-> {}, le |-> {}, total |-> {}, maxLen |-> {}]
Bounds == {-129, -128, -127, 0, 126, 127, 128, 254, 255, 256}
Kws ==
    UNION {{[NoKw EXCEPT !.gt = {n}], [NoKw EXCEPT !.ge = {n}],
            [NoKw EXCEPT !.lt = {n}], [NoKw EXCEPT !.le = {n}]} : n \in Bounds}
    \cup {NoKw, [NoKw EXCEPT !.total = {2}], [NoKw EXCEPT !.maxLen = {3}]}
KwLists ==
    {<<>>} \cup {<<kw>> : kw \in Kws} \cup {<<[NoKw EXCEPT !.total = {2}], kw>> : kw \in Kws}

MCNumbers ==
    [kind : {"integer", "nonNegativeInteger", "positiveInteger", "signed", "unsigned"},
     bits : {8}, kws : KwLists,
     text : [n : {-1000, -129, -128, -100, -99, -1, 0, 1, 99, 100, 127, 128, 254, 255, 256},
             zeros : {0, 1}]]
    \cup [kind : {"signed", "unsigned"}, bits : {16}, kws : {<<>>},
          text : [n : {-32769, -32768, -10000, -9999, 0, 32767, 32768, 65534, 65535, 65536},
                  zeros : {0, 1}]]

MCStrings ==
    [class : [minLen : 0 .. 3, maxLen : {{}} \cup {{n} : n \in 0 .. 3}, pattern : BOOLEAN,
              nillable : BOOLEAN, emptyIsNone : BOOLEAN],
     text : [len : 0 .. 4, matches : BOOLEAN]]

MCDurations ==
    [neg : BOOLEAN, days : {0, 1, 400}, secs : {0, 1, 59, 60, 61, 3600, 3661, 86399},
     micros : {0, 1, 10, 12345, 99999, 100000, 123456, 999999}]
    \ {[neg |-> TRUE, days |-> 0, secs |-> 0, micros |-> 0]}

MCDateTimes ==
    [class : [asZone : {{}, {0}, {-210}, {60}}, timezone : BOOLEAN,
              serializeAs : {"text", "sec", "sec_float", "msec", "msec_float", "usec"}],
     value : [sec : {100000}, micro : {0, 1, 1000, 123456},
              off : {{}, {0}, {330}, {-300}, {-330}, {-30}}]]

\* Values of each type, of classes with options that matter to it.
WithoutOptions(type) ==
    [type |-> type, encoding |-> "default", serializeAs |-> None, formats |-> <<>>,
     zone |-> FALSE, parser |-> FALSE]
Prots == {"xml", "soap", "json", "yaml", "msgpack"}
Objects(types) == [prot : Prots, class : types, value : {Val("object", <<>>)}]
FormatNames(names) ==
    Dicts([n \in names |-> IF n \in {"string_format", "str_format", "interp_format"}
                           THEN {"{}"} ELSE {"f", "g"}])
Few(dicts) == {d \in dicts : Cardinality(DOMAIN d) <= 2}

SentDates ==
    {[WithoutOptions("DateTime") EXCEPT !.formats = f, !.zone = z] : f \in Few(FormatNames(
        {"datetime_format", "dt_format", "date_format", "out_format", "format",
         "string_format", "str_format", "interp_format"})), z \in BOOLEAN}
    \cup {[WithoutOptions(t) EXCEPT !.serializeAs = s, !.parser = r] :
            t \in {"DateTime", "Date"}, s \in Units \cup {"secs", "str", None}, r \in BOOLEAN}
    \cup {[WithoutOptions("Date") EXCEPT !.formats = f] :
            f \in FormatNames({"date_format", "format", "str_format"})}
SentUuids ==
    {[WithoutOptions("Uuid") EXCEPT !.serializeAs = s, !.encoding = e] :
        s \in {None, "str", "hex", "urn", "int", "fields", "bytes", "bytes_le"},
        e \in {"default", "hex", "base64"}}
MCSent ==
    Objects(SentDates \cup SentUuids
            \cup {WithoutOptions(t) : t \in {"Time", "Duration", "Enum", "Decimal"}}
            \cup {[WithoutOptions("Decimal") EXCEPT !.formats = f] : f \in FormatNames({"format"})})
    \cup [prot : Prots,
          class : {[WithoutOptions("ByteArray") EXCEPT !.encoding = e] :
                      e \in {"default", None, "hex", "base64", "urlsafe"}},
          value : {Val("chunks", <<>>), Val("bytes", <<>>)}]
    \cup [prot : Prots,
          class : {[WithoutOptions("File") EXCEPT !.encoding = e] : e \in {"default", "hex", "base64"}},
          value : {Val("file", <<>>)}]
    \cup [prot : Prots,
          class : {[WithoutOptions(t) EXCEPT !.encoding = e, !.formats = f] :
                      t \in {"Unicode", "AnyUri"}, e \in {"default", "utf8", "latin1"},
                      f \in FormatNames({"format", "str_format"})},
          value : {Val("str", <<>>), Val("bytes", <<"utf8">>), Val("bytes", <<"latin1">>)}]
    \cup [prot : Prots,
          class : {[WithoutOptions(t) EXCEPT !.formats = f] :
                      t \in {"Integer", "UnsignedInteger", "Double", "Float"},
                      f \in FormatNames({"format"})},
          value : {Val("number", <<>>)}]
    \cup [prot : Prots, class : {WithoutOptions("Integer")}, value : {Val("number", <<"huge">>)}]
    \cup [prot : Prots, class : {WithoutOptions("Boolean")}, value : {Val("bool", <<>>)}]
\* A simple type, what is made of it, a class A that has both, and what is made of
\* that.  Statements refer to those before them, from 3 on.
SimpleMade ==
    {[op |-> "customize", type |-> 1, options |-> o] :
        o \in {"max_len" :> 5, "sub_name" :> <<"z">>, "max_len" :> 5 @@ "order" :> 0,
               "max_len" :> 5 @@ "max_occurs" :> 2, "max_len" :> 5 @@ "min_occurs" :> 1,
               "sub_name" :> <<"z">> @@ "min_occurs" :> 1}}
    \cup {[op |-> "customize", type |-> 2, options |-> o] :
            o \in {"min_occurs" :> 1, "sub_name" :> <<"z">>}}
MemberMade ==
    {[op |-> "array", type |-> t, member |-> None, wrapped |-> w] : t \in 1 .. 3, w \in BOOLEAN}
    \cup {[op |-> "array", type |-> 3, member |-> <<"m">>, wrapped |-> TRUE]}
    \cup {[op |-> k, type |-> 3] : k \in {"attribute", "data", "mandatory"}}
    \cup {[op |-> k, type |-> 1] : k \in {"attribute", "mandatory"}}
    \cup {[op |-> "customize", type |-> 3, options |-> "max_len" :> 4]}
ClassMade(name, module, bases, fields, mixin) ==
    [op |-> "class", type |-> 1, name |-> <<name>>, ns |-> None, module |-> module,
     bases |-> bases, fields |-> fields, mixin |-> mixin]
FieldX(t) == [name |-> <<"x">>, type |-> t]
FieldY(t) == [name |-> <<"y">>, type |-> t]
FieldZ(t) == [name |-> <<"z">>, type |-> t]
FirstMade ==
    {ClassMade("A", "m", <<>>, f, FALSE) :
        f \in {<<FieldX(3), FieldY(4)>>, <<FieldY(4), FieldX(3)>>, <<FieldX(1), FieldZ(4)>>}}
    \cup {ClassMade("A", "m", <<>>, <<FieldX(4)>>, TRUE)}
SecondMade ==
    {ClassMade("B", "n", bases, f, FALSE) :
        bases \in {<<>>, <<5>>}, f \in {<<FieldX(4)>>, <<FieldY(3), FieldZ(4)>>}}
    \cup {ClassMade("B", "n", <<5>>, <<>>, FALSE)}
    \cup {[op |-> "child_attrs", type |-> 5, attrs |-> <<"x">> :> o] :
            o \in {"max_len" :> 3, "sub_name" :> <<"s">>}}
    \cup {[op |-> "mandatory", type |-> t] : t \in {4, 5}}
\* A class that extends A, and a variant of it with other members of either.
Extended ==
    {<<ClassMade("B", "n", <<5>>, <<FieldZ(t)>>, FALSE),
       [op |-> "child_attrs", type |-> 6, attrs |-> [k \in ks |-> "max_len" :> 3]]>> :
        t \in {1, 4}, ks \in {{<<"x">>}, {<<"x">>, <<"z">>}}}
\* A variant of A, and a class that extends A and has a reference to itself.
Late ==
    {<<v, ClassMade("B", "n", <<5>>, <<FieldZ(t)>>, FALSE)>> :
        v \in {[op |-> "mandatory", type |-> 5],
               [op |-> "child_attrs", type |-> 5, attrs |-> <<"x">> :> ("max_len" :> 3)]},
        t \in {2, 3}}
MCMakings ==
    [statements : {<<a, b, c, d>> : a \in SimpleMade, b \in MemberMade,
                                   c \in FirstMade, d \in SecondMade},
     classes : {<<5, 6>>, <<6, 5>>}]
    \cup [statements : {<<a, b, c>> \o d : a \in SimpleMade, b \in MemberMade,
                                         c \in FirstMade, d \in Extended},
          classes : {<<5, 7>>, <<7, 5>>}]
    \cup [statements : {<<a, [op |-> "attribute", type |-> 1], c>> \o d :
                           a \in SimpleMade, c \in FirstMade, d \in Late},
          classes : {<<5, 7>>, <<6, 7>>}]

\* Two classes with a member that has options, and objects with some of the members.
Default == "default" :> [native |-> "text", of |-> "default"]
MCFillings ==
    [statements :
        {<<[op |-> "customize", type |-> 1, options |-> o],
           ClassMade("A", "m", <<>>, <<FieldX(x), FieldY(y)>>, FALSE),
           ClassMade("B", "n", <<4>>, f, FALSE)>> :
            o \in {"max_len" :> 5, "read_only" :> TRUE, "voa" :> TRUE, Default,
                   "voa" :> TRUE @@ Default, "voa" :> TRUE @@ "read_only" :> TRUE},
            x \in {1, 3}, y \in {1, 3}, f \in {<<>>, <<FieldZ(3)>>, <<FieldZ(3), FieldX(1)>>}},
     given : SUBSET {<<"x">>, <<"y">>, <<"z">>},
     wrong : {None, <<"x">>, <<"y">>, <<"z">>}]

\* Schemas.  In every file x is the prefix of XML Schema, t of its own namespace and
\* o of the other one.
Ref(prefix, name) == [prefix |-> prefix, name |-> name]
String == Ref("x", "string")
Once == "min_occurs" :> 1
Elem(name, type) == [kind |-> "element", name |-> name, ref |-> None, type |-> type, occurs |-> Once]
ElemRef(ref) == [kind |-> "element", name |-> None, ref |-> ref, type |-> None, occurs |-> Once]
Attr(name, ref, type) ==
    [kind |-> "attribute", name |-> name, ref |-> ref, type |-> type, occurs |-> <<>>]
TypeS1 == [name |-> "s1", kind |-> "restriction", base |-> String]
TypeS2(base) == [name |-> "s2", kind |-> "restriction", base |-> base]
ComplexOf(name, members, content) == [name |-> name, members |-> members, content |-> content]
ContentOf(base, attributes) == [base |-> base, attributes |-> attributes]
File(tns, other, default) ==
    [tns |-> tns,
     nsmap |-> "x" :> "xsd" @@ "t" :> tns @@ "o" :> other
               @@ (IF default = None THEN <<>> ELSE None :> default),
     imports |-> <<>>, includes |-> <<>>, simple |-> <<>>, complex |-> <<>>, elements |-> <<>>,
     attributes |-> <<>>]

\* One file, with a class A that refers to what comes before it and after it.
RefMade == {String, Ref("t", "A"), Ref("t", "B"), Ref("t", "s2"), Ref(None, "B")}
MemberPairs ==
    {<<Elem("p", r), Elem("q", u)>> : r \in RefMade, u \in {String, Ref("t", "B"), Ref("t", "s2")}}
    \cup {<<ElemRef(Ref("t", "e")), Elem("q", String)>>, <<Elem("p", String), Attr("a", None, Ref("t", "s1"))>>}
ContentsOfB ==
    {ComplexOf("B", <<Elem("r", String)>>, None),
     ComplexOf("B", <<>>, ContentOf(Ref("t", "A"), <<Attr("b", None, String)>>)),
     ComplexOf("B", <<>>, ContentOf(Ref("t", "s1"), <<Attr(None, Ref("t", "c"), None)>>))}
OneFile ==
    {[File("n1", "n2", d) EXCEPT !.simple = s, !.complex = c, !.elements = <<Elem("e", e)>>,
                                 !.attributes = <<Attr("c", None, String)>>] :
        d \in {None, "xsd", "n1"},
        s \in {<<TypeS1, TypeS2(Ref("t", "s1"))>>, <<TypeS2(Ref("t", "s1")), TypeS1>>,
               <<[TypeS1 EXCEPT !.kind = "union"], TypeS2(String)>>},
        c \in UNION {{<<ComplexOf("A", m, None), b>>, <<b, ComplexOf("A", m, None)>>} :
                        m \in MemberPairs, b \in ContentsOfB},
        e \in {Ref("t", "B"), Ref("t", "Z")}}

\* Two files, the first of which imports the second, which may import the first.
TwoFiles ==
    {"n1" :> [File("n1", "n2", None) EXCEPT !.imports = <<"n2">>, !.simple = <<TypeS1>>,
                                            !.complex = <<ComplexOf("A", m, None)>>] @@
     "n2" :> [File("n2", "n1", d) EXCEPT !.imports = i, !.simple = s, !.elements = <<Elem("e", e)>>,
                  !.complex = <<ComplexOf("B", <<Elem("r", r), Elem("v", String)>>, None)>>] :
        m \in {<<x, Elem("q", String)>> : x \in {Elem("p", Ref("o", "B")), Elem("p", Ref("o", "s2")),
                                                  ElemRef(Ref("o", "e"))}},
        d \in {None, "n2"},
        i \in {<<>>, <<"n1">>, <<"n3">>},
        s \in {<<>>, <<TypeS2(String)>>, <<TypeS2(Ref("o", "s1"))>>},
        e \in {Ref("t", "B"), Ref("o", "A"), Ref(None, "B"), String},
        r \in {String, Ref("o", "A"), Ref("t", "B")}}

\* A file that includes one that includes another.
Included ==
    [files : {"n1" :> [File("n1", "n2", None) EXCEPT !.includes = <<"l1">>, !.complex = c] :
                c \in {<<>>, <<ComplexOf("A", <<Elem("p", Ref("t", "B")), Elem("q", Ref("t", "s1"))>>,
                                        None)>>}},
     places : {"l1" :> [File("n1", "n2", None) EXCEPT !.includes = i, !.attributes = a,
                            !.complex = <<ComplexOf("B", <<Elem("r", r)>>, b)>>] @@
               "l2" :> [File("n1", "n2", None) EXCEPT !.simple = <<TypeS1>>] :
                i \in {<<>>, <<"l2">>}, a \in {<<>>, <<Attr("c", None, String)>>},
                r \in {String, Ref("t", "s1"), Ref("t", "A")},
                b \in {None, ContentOf(String, <<Attr(None, Ref("t", "c"), None)>>)}}]
MCSchemas ==
    [files : {"n1" :> f : f \in OneFile} \cup TwoFiles, places : {<<>>}] \cup Included

=============================================================================
