-------------------------------- MODULE Models --------------------------------
(***************************************************************************)
(* What is made of the definitions of a program before the first request,    *)
(* and the memos of what is computed from its classes.                       *)
(*                                                                         *)
(* Methods of decorated functions, an interface of services and classes, and *)
(* simple types are jobs, applied to every input of a small set.  Classes are *)
(* defined while modules are imported, by one thread; the memos are read by   *)
(* the threads of a server.  Each is a machine of its own, side by side: a    *)
(* behaviour is one of these.                                               *)
(***************************************************************************)
EXTENDS ComplexModel, Memoize, Interface, Descriptors, Primitives, Conversions, Tables, Jobs

Cls == INSTANCE Classes
Xsd == INSTANCE SchemaParser

CONSTANTS
    Apps,           \* applications: [program, tns, methods, classes]
    Services,       \* the services of an application: [aux, methods]
    Described,      \* services in a WSDL document: [name, aux, ports, methods]
    Decorated,      \* functions with their decorators: [f, params, options, class]
    Makings,        \* types made by statements: [statements, classes]
    Fillings,       \* objects of the last class: [statements, given, wrong]
    Schemas,        \* schema files: [files, places], the first is that of n1
    Stores,         \* classes with tables: [key, first, second, storage, other, shape]
    Numbers,        \* integers as texts: [kind, bits, kws, text]
    Strings,        \* strings with their class: [class, text]
    Durations,
    DateTimes,      \* datetimes with their class: [class, value]
    Sent            \* values that are sent: [prot, class, value]

DefinitionsInit ==
    /\ output = None
    /\ \/ /\ job = "populate"
          /\ input \in Apps
       \/ /\ job = "routes"
          /\ input \in Services
       \/ /\ job = "wsdl"
          /\ input \in Described
       \/ /\ job = "describe"
          /\ input \in Decorated
       \/ /\ job = "classes"
          /\ input \in Makings
       \/ /\ job = "objects"
          /\ input \in Fillings
       \/ /\ job = "parse"
          /\ input \in Schemas
       \/ /\ job = "tables"
          /\ input \in Stores
       \/ /\ job = "number"
          /\ input \in Numbers
       \/ /\ job = "string"
          /\ input \in Strings
       \/ /\ job = "duration"
          /\ input \in Durations
       \/ /\ job = "datetime"
          /\ input \in DateTimes
       \/ /\ job = "convert"
          /\ input \in Sent

Populate ==
    /\ Does("populate")
    /\ LET st == PopulateClasses(input)
       IN  output' = [interface |-> st,
                      schema |-> IF st.ok THEN BuildSchemaNodes(input.program, input.tns, st.deps, input.methods)
                                 ELSE [ok |-> FALSE] @@ NewSchema,
                      routes |-> PopulateRoutes(MemberRoutes(input.program, st.members))]

Route ==
    /\ Does("routes")
    /\ output' = IF \E i \in DOMAIN input : MixesMethods(input[i]) \/ Repeated(input[i])
                 THEN [NewRoutes EXCEPT !.error = "refused"]
                 ELSE PopulateRoutes(MethodsOf(input))

\* Services that could be added to the interface are described to a client.
DescribeServices ==
    /\ Does("wsdl")
    /\ output' = BuildWsdl("tns", "App", input)

\* A decorated function is put in a class, and then in another one.
Describe ==
    /\ Does("describe")
    /\ LET first == ExplainMethod(input.f, input.params, input.options, input.class)
       IN  output' = [first |-> first,
                      second |-> ExplainMethod(input.f, first.params, first.left, input.class)]

\* The classes are added to an interface in some order.
Interfaced(heaps, made) ==
    LET last == Last(heaps)
        complex == SelectSeq(made, LAMBDA c : last.types[c].kind = "complex")
    IN  [ok |-> last.ok, heaps |-> heaps, classes |-> complex,
         resolved |-> IF last.ok THEN Cls!Resolutions(last, complex) ELSE <<>>]
ClassesOf(heaps, complex) ==
    Interfaced(heaps, [i \in DOMAIN complex |-> Cls!Made(heaps, complex[i])])
MakeClasses ==
    /\ Does("classes")
    /\ output' = ClassesOf(Cls!Heaps(input.statements), input.classes)

\* An object is made of keyword arguments, of a dict and of a list.
ObjectsOf(h, given) ==
    LET c == h.made
        members == Cls!FlatTypeInfo(h, c)
        value(k) == IF k \in DOMAIN given THEN given[k] ELSE None
        init == Cls!Init(h, c, given)
        dict == Cls!FromDict(h, c, given)
    IN  [heap |-> h, given |-> given, init |-> init, dict |-> dict,
         list |-> Cls!FromList(h, c, [i \in DOMAIN members |-> value(members[i].name)]),
         copy |-> Cls!InitFrom(h, c, init),
         back |-> Cls!AsDict(h, c, dict)]

\* One of the values may be of another type.
ValuesFor(h, names, wrong) ==
    LET fields == {f \in ToSet(Cls!FlatTypeInfo(h, h.made)) : f.name \in names}
    IN  [k \in {f.name : f \in fields} |->
            [native |-> IF k = wrong THEN "number" ELSE "text", of |-> k]]
FilledWith(h, x) == ObjectsOf(h, ValuesFor(h, x.given, x.wrong))
MakeObjects ==
    /\ Does("objects")
    /\ output' = FilledWith(Last(Cls!Heaps(input.statements)), input)

ParseFiles ==
    /\ Does("parse")
    /\ output' = Xsd!Parse(input.files, input.places, input.files["n1"])

\* A class with a key, and one that has the key, too, or extends it, with two fields
\* more, the second of which may be appended.  They share a storage if there is no
\* other.
TwoClasses(x) ==
    LET second == [x.second EXCEPT !.store = IF x.other = None THEN 1 ELSE 2]
        child(parent, fields) == [table |-> <<"c">>, extends |-> parent, fields |-> fields]
        appended(n) == <<[class |-> 2, field |-> second, variants |-> n]>>
    IN  [storages |-> IF x.other = None THEN <<x.storage>> ELSE <<x.storage, x.other>>,
         classes |-> <<[table |-> <<"p">>, extends |-> 0, fields |-> <<x.key>>],
                       CASE x.shape = "defined" -> child(0, <<x.key, x.first, second>>)
                         [] x.shape = "appended" -> child(0, <<x.key, x.first>>)
                         [] x.shape = "extended" -> child(1, <<x.first>>)>>,
         appended |-> CASE x.shape = "defined" -> <<>>
                        [] x.shape = "appended" -> appended(0)
                        [] x.shape = "extended" -> appended(1)]

StoreClasses ==
    /\ Does("tables")
    /\ output' = MakeTables(TwoClasses(input))

\* The class of a number: its customizations one after the other, as long as none
\* of them is refused.
CustomizedWith(kind, bits, kws) ==
    FoldLeft(LAMBDA st, kw : IF ~st.ok \/ Unsatisfiable(st.class, kw)
                             THEN [st EXCEPT !.ok = FALSE]
                             ELSE [st EXCEPT !.class = CustomizeNumber(@, kw)],
             [ok |-> TRUE, class |-> NewInteger(kind, bits)], kws)

\* A number is read as a text, as a number, and by a validating parser.
ReadNumber ==
    /\ Does("number")
    /\ LET made == CustomizedWith(input.kind, input.bits, input.kws)
       IN  output' = [made |-> made.ok,
                      text |-> made.ok /\ FromText(made.class, input.text),
                      number |-> made.ok /\ FromNumber(made.class, input.text.n),
                      schema |-> made.ok /\ SchemaValid(made.class, input.text.n)]

\* A string is read from an element, from a dict, and by a validating parser.
ReadString ==
    /\ Does("string")
    /\ output' = [element |-> StringFromElement(input.class, input.text),
                  dict |-> StringFromDict(input.class, input.text),
                  schema |-> StringValid(input.class, input.text)]

SendDuration ==
    /\ Does("duration")
    /\ \E lost \in {0, 1} : output' = DurationFromUnicode(DurationToUnicode(input), lost)

SendDateTime ==
    /\ Does("datetime")
    /\ LET c == input.class
       IN  output' = IF c.serializeAs = "text"
                     THEN DateTimeFromText(c, DateTimeToText(c, input.value))
                     ELSE DateTimeFromNumber(c, DateTimeToNumber(c, input.value))

\* A peer reads a value with soft validation and without.
Convert ==
    /\ Does("convert")
    /\ LET read(soft) == SendValue(input.prot, input.class, input.value, soft)
       IN  output' = [soft |-> read(TRUE), lax |-> read(FALSE)]

DefinitionsNext ==
    \/ Populate \/ Route \/ DescribeServices \/ Describe \/ MakeClasses \/ MakeObjects \/ ParseFiles \/ StoreClasses
    \/ ReadNumber \/ ReadString \/ SendDuration \/ SendDateTime \/ Convert

-----------------------------------------------------------------------------
(* Interfaces.                                                              *)

References(cs, c) ==
    ToSet(cs[c].fields) \cup ToSet(cs[c].extends)
        \cup {d \in ToSet(Extending(cs, c)) : cs[d].ns = cs[c].ns}
MethodClasses(m) == IF m.aux THEN {} ELSE ToSet(m.headers) \cup ToSet(m.messages)
Callable(cs, c) == SelectSeq(MemberMethods(cs, c), LAMBDA m : m.when)

ReferenceGraph(cs) == [c \in DOMAIN cs |-> References(cs, c)]
UseGraph(cs) ==
    [c \in DOMAIN cs |-> References(cs, c) \cup UNION {MethodClasses(m) : m \in ToSet(Callable(cs, c))}]

RECURSIVE ReachedFrom(_, _)
ReachedFrom(graph, set) ==
    LET more == set \cup UNION {graph[c] : c \in set}
    IN  IF more = set THEN set ELSE ReachedFrom(graph, more)

\* Whether a class can be reached from itself over others.
Cyclic(cs, set) ==
    LET graph == ReferenceGraph(cs)
    IN  \E c \in set :
            \E d \in graph[c] :
                /\ QName(cs, d) # QName(cs, c)
                /\ \E e \in ReachedFrom(graph, {d}) : QName(cs, e) = QName(cs, c)

\* An application is refused exactly when two classes it uses have one name, its
\* schema only when classes refer to each other.  Otherwise the schema defines
\* every class that is used, as one variant or another, and the namespace of a
\* definition imports those of the classes it refers to.  A message has an element in the
\* target namespace, which is that of another class if one of its name is there.
SchemaClosed ==
    Done("populate") =>
        LET cs == input.program
            st == output.interface
            types == output.schema.types
            used == ReachedFrom(UseGraph(cs), UNION {MethodClasses(m) : m \in ToSet(input.methods)}
                                              \cup ToSet(input.classes))
        IN  /\ st.ok <=> \A c, d \in used : QName(cs, c) = QName(cs, d) => cs[c].orig = cs[d].orig
            /\ st.ok /\ ~output.schema.ok => Cyclic(cs, used)
            /\ output.schema.ok =>
                   /\ \A c \in used : cs[c].ns \in BaseNamespaces \/ QName(cs, c) \in DOMAIN types
                   /\ \A k \in DOMAIN types : cs[types[k]].orig = cs[st.classes[k]].orig
                   /\ \A k \in DOMAIN types :
                         \A d \in ToSet(cs[types[k]].fields) \cup ToSet(cs[types[k]].extends) :
                             cs[d].ns \in {k[1]} \cup BaseNamespaces \cup st.imports[k[1]]
                   /\ \A c \in UNION {ToSet(m.messages) : m \in {m \in ToSet(input.methods) : ~m.aux}} :
                         LET name == <<input.tns, cs[c].name>>
                         IN  output.schema.elements[name] \in
                                 IF name \in DOMAIN types THEN {types[name]} ELSE {c}

\* A method of a class that is used, or of the one that class extends, is called under
\* their names, unless two classes of one name in different namespaces have it: then
\* the application is refused.
MembersCalled ==
    Done("populate") /\ output.interface.ok =>
        LET cs == input.program
            map == output.routes.map
            entered == {cs[c].orig : c \in Range(output.interface.classes)}
            keys(c) == {MemberKey(cs, c, m) : m \in ToSet(Callable(cs, c))}
            clash == \E c, d \in entered : c # d /\ keys(c) \cap keys(d) # {}
        IN  /\ output.routes.error = IF clash THEN "ValueError" ELSE "none"
            /\ ~clash => /\ DOMAIN map = UNION {keys(c) : c \in entered}
                         /\ \A k \in DOMAIN map : Len(map[k]) = 1

\* A document is refused only for a method whose port is not one of its service, or for a
\* callback of a service with ports before any without.  In what is written every message
\* of the target namespace that is referred to is there, but for the headers of
\* asynchronous methods when nothing is called back, and every header has its part, but
\* under another name if its element has one.  A port has a binding unless it is for
\* callbacks.  A method is in the one binding of its port and in one portType, which is that
\* of the same name as long as services have one port each, and else that of the last.
WsdlClosed ==
    Done("wsdl") =>
        LET primary == SelectSeq(input, LAMBDA s : ~s.aux)
            early == \E i \in DOMAIN primary :
                        /\ primary[i].ports # <<>>
                        /\ Callbacks(primary[i]) # <<>>
                        /\ \A j \in 1 .. i - 1 : primary[j].ports # <<>>
            wrong == \E s \in ToSet(primary) : \E m \in ToSet(s.methods) : WrongPort(s, m)
            called == \E s \in ToSet(primary) : Callbacks(s) # <<>>
            operations(parts) == UNION {ToSet(p.operations) : p \in ToSet(parts)}
            message(name) == {x \in ToSet(output.messages) : x.name = name}
            having(parts, m) == {x.name : x \in {x \in ToSet(parts) :
                                    \E o \in ToSet(x.operations) : o.method = m.name}}
        IN  /\ output.error = IF wrong THEN "ValueError" ELSE IF early THEN "AttributeError"
                             ELSE "none"
            /\ output.error = "none" =>
                  /\ \A o \in operations(output.portTypes) :
                        \A r \in o.messages : r.ns = "tns" => message(r.name) # {}
                  /\ \A o \in operations(output.bindings) : \A r \in o.headers :
                        r.ns = "tns" =>
                            \/ message(r.name) = {} /\ ~called /\ r.part \in {"ReplyTo", "MessageID"}
                            \/ \E x \in message(r.name) : \E c \in ToSet(x.parts) : c.type = r.part
                  /\ \A s \in ToSet(output.services) : \A p \in ToSet(s.ports) :
                        (\E b \in ToSet(output.bindings) : b.name = p) <=> p # <<"App", "Callback">>
                  /\ \A s \in ToSet(primary) : \A m \in ToSet(s.methods) :
                        /\ having(output.bindings, m) =
                              IF m.kind = "callback" THEN {<<"App">>} ELSE {<<Last(<<"App">> \o m.port)>>}
                        /\ having(output.portTypes, m) =
                              IF m.kind = "callback" THEN {<<"App", "Callback">>}
                              ELSE {<<Last(<<"App">> \o s.ports)>>}

\* A name leads to one primary method and then to the auxiliary ones in the order
\* of their services.  A second primary method is refused, and so is one that
\* comes after an auxiliary method of its name.  Of the methods of one service with
\* one name only the first can be called, and nothing tells.
RoutesInOrder ==
    Done("routes") /\ output.error # "refused" =>
        LET all == MethodsOf(input)
            firsts == {i \in DOMAIN all : \A j \in 1 .. i - 1 : all[j].id # all[i].id}
            methods == SelectSeq([i \in DOMAIN all |-> i], LAMBDA i : i \in firsts)
            clash == \E i, j \in firsts :
                        i < j /\ all[i].key = all[j].key /\ ~all[j].aux
        IN  /\ output.error # "none" <=> clash
            /\ ~clash => \A k \in DOMAIN output.map :
                  /\ Tail(output.map[k]) = SelectSeq(Tail(output.map[k]), LAMBDA m : m.aux)
                  /\ output.map[k] =
                        SelectSeq([i \in DOMAIN methods |-> all[methods[i]]],
                                  LAMBDA m : m.key = k)

\* The arguments of a function, as they are named in its messages.
Expected(d) ==
    LET start == ArgStart(d.noCtx, d.noSelf)
    IN  [i \in DOMAIN input.f |-> IF i <= start THEN input.f[i] ELSE Renamed(input.options, input.f[i])]

\* A function that is accepted is called with its own arguments, each in its place,
\* unless two of them are given one name: then with too few.  Names that are given
\* by _args are not compared with it.  In the second class it is put in all its
\* options are forgotten, with what it returns.
CallsFit ==
    Done("describe") =>
        LET d == output.first
            sent == SubSeq(input.f, ArgStart(d.noCtx, d.noSelf) + 1, Len(input.f))
            names == [i \in DOMAIN sent |-> Renamed(input.options, sent[i])]
        IN  /\ (d.ok /\ "_args" \notin DOMAIN input.options) =>
                   (CallArguments(d) = Expected(d) <=> IsInjective(names))
            /\ (d.ok /\ output.second.ok) =>
                   /\ output.second.results = 0
                   /\ output.second.style = "wrapped"
                   /\ input.options = <<>> => output.second = d

\* The fields that a program maps, with their classes.
FieldsOf(program) ==
    {<<c, f>> : c \in DOMAIN program.classes, f \in UNION {ToSet(d.fields) : d \in ToSet(program.classes)}}
Declared(program) ==
    {p \in FieldsOf(program) : p[2] \in ToSet(program.classes[p[1]].fields)}
        \cup {<<a.class, a.field>> : a \in ToSet(program.appended)}

\* The columns a field asks for, by its own declaration: in which table, under which
\* name, of which type, and to which column they refer.
Asked(program, c, f) ==
    LET cs == program.classes
        s == program.storages[f.store]
        own == TableName(cs, c)
        key(table, name, d) == [table |-> table, name |-> name, type |-> KeyTo(cs, d).type,
                                ref |-> KeyTo(cs, d).ref]
        data(table, name, type) == [table |-> table, name |-> name, type |-> type, ref |-> None]
        relation == IF s.multi = "auto" THEN own \o f.name ELSE s.table
        values == IF f.table = None THEN own \o f.name ELSE f.table
    IN  CASE f.store = 0 -> {data(own, ColumnName(f), SqlType(f.type))}
          [] f.store # 0 /\ s.as # "table" ->
                {data(own, ColumnName(f), [kind |-> s.as, size |-> None])}
          [] f.store # 0 /\ s.as = "table" /\ ~f.many ->
                {key(own, OneToOneName(cs, f, s.left), f.class)}
          [] f.store # 0 /\ s.as = "table" /\ f.many /\ s.multi # "no" ->
                {key(relation, OneToManyName(cs, c, s.left), c),
                 key(relation, OneToOneName(cs, f, s.right), f.class)}
          [] f.store # 0 /\ s.as = "table" /\ f.many /\ s.multi = "no" /\ f.class = 0 ->
                {key(values, OneToManyName(cs, c, s.left), c),
                 data(values, IF s.right = None THEN f.name ELSE s.right, SqlType(f.type))}
          [] OTHER -> {key(TableName(cs, f.class), OneToManyName(cs, c, s.right), c)}

\* Two fields are at odds when they ask for one column or share a storage.
AtOdds(program, p, q) ==
    /\ p # q
    /\ \/ p[2].store # 0 /\ p[2].store = q[2].store
       \/ \E x \in Asked(program, p[1], p[2]), y \in Asked(program, q[1], q[2]) :
             x.table = y.table /\ x.name = y.name

\* A field whose property stands for all the columns it asks for.
Granted(st, program, c, f) ==
    /\ HasProperty(program.classes, st, c, f.name)
    /\ LET cols == ToSet(st.props[c][f.name].cols)
       IN  /\ cols = {<<x.table, x.name>> : x \in Asked(program, c, f)}
           /\ \A x \in Asked(program, c, f) :
                 /\ st.tables[x.table][x.name].type = x.type
                 /\ st.tables[x.table][x.name].ref = x.ref

\* Whether a value of a simple type is in the range of another.
Fits(t, u) ==
    CASE u.kind = "decimal" \/ u.size = None -> TRUE
      [] t.size = None -> FALSE
      [] OTHER -> t.size <= u.size /\ (t.kind = "uint" => t.size < u.size)

\* What the storage of a field cannot be: a relation table of values or for a single
\* object, the wrong side of a key, an array of objects of the class itself, or one
\* that is appended to variants too, an object of the class itself whose primary key
\* is in a column of another name.
Misplaced(program, c, f) ==
    LET s == program.storages[f.store]
        repeated == \E a \in ToSet(program.appended) : a.field = f /\ a.variants > 0
    IN  /\ f.store # 0
        /\ s.as = "table"
        /\ \/ s.multi # "no" /\ (f.class = 0 \/ ~f.many)
           \/ s.multi = "no" /\ f.class # 0 /\ s.right # None /\ ~f.many
           \/ s.multi = "no" /\ f.class # 0 /\ f.many /\ (s.left # None \/ f.class = c \/ repeated)
           \/ s.multi = "no" /\ f.class = 0 /\ repeated
           \/ f.class = c /\ ~f.many /\ Pk(program.classes, c).column # None

\* The fields of the classes of a program that is accepted have the columns they ask
\* for, unless two of them are at odds.  A field that shares the storage of another
\* one is related by the column of that.  A column is only required in classes that
\* extend none, and what is read back from it takes all values of its field but
\* those of unsigned numbers of 32 or 64 bits.
TablesSound ==
    Done("tables") =>
        LET program == TwoClasses(input)
            all == Declared(program)
            plain(p) == p[2].store = 0
            alone(p) == ~\E q \in all : AtOdds(program, p, q)
            mapped == {p \in all : p[1] \in output.mapped /\ ~p[2].excDb /\ ~p[2].excMapper}
            col(p) == output.props[p[1]][p[2].name].cols
        IN  /\ ((\A p \in all : ~Misplaced(program, p[1], p[2])) /\ (\A p \in all : alone(p)))
                  => output.ok
            /\ output.ok => \A p \in mapped : alone(p) => Granted(output, program, p[1], p[2])
            /\ output.ok => \A p, q \in mapped :
                  (p[1] = q[1] /\ p[2].store # 0 /\ p[2].store = q[2].store
                      /\ {output.props[p[1]][x[2].name].kind : x \in {p, q}} = {"one"}) =>
                     col(p) = col(q)
            /\ output.ok => \A p \in mapped : (alone(p) /\ plain(p)) =>
                  LET column == output.tables[col(p)[1][1]][col(p)[1][2]]
                  IN  /\ column.nullable <=> p[2].nullable \/ program.classes[p[1]].extends # 0
                      /\ Fits(p[2].type, SpyneType(column.type)) <=>
                            ~(p[2].type.kind = "uint" /\ p[2].type.size \in {16, 32, 64})

-----------------------------------------------------------------------------
(* Types.                                                                   *)

PartsOf(h, t) ==
    ToSet([i \in DOMAIN h.types[t].fields |-> h.types[t].fields[i].type])
        \cup ({h.types[t].of, h.types[t].extends} \ {0})
RECURSIVE AllParts(_, _)
AllParts(h, set) ==
    LET more == set \cup UNION {PartsOf(h, t) : t \in set}
    IN  IF more = set THEN set ELSE AllParts(h, more)

\* After its classes were added to an interface, whatever they are made of has a name
\* and a namespace, and no reference of a class to itself is left.  Classes with one
\* name are variants of one class.  What has a name and a namespace of its own keeps
\* them when the next class is added, unless something without a name, like a variant of
\* a modifier, has it as a part: then it is named after the last such
\* member.  The names of an XmlData are those of what it modifies.
TypesNamed ==
    Done("classes") /\ output.ok =>
        LET h == Last(output.resolved)
            added == ToSet(output.classes)
            name(g, t) == <<Cls!GetNamespace(g, t), Cls!GetTypeName(g, t)>>
        IN  /\ \A t \in AllParts(h, added) :
                  /\ h.types[t].name # Cls!Unnamed
                  /\ Cls!GetNamespace(h, t) # None
                  /\ h.types[t].kind # "self"
            /\ \A c, d \in added :
                  name(h, c) = name(h, d) => Cls!Root(h, c) = Cls!Root(h, d)
            /\ \A i \in 2 .. Len(output.resolved) :
                  LET before == output.resolved[i - 1]
                      after == output.resolved[i]
                  IN  \A t \in DOMAIN after.types :
                          \/ name(before, t) = name(after, t)
                          \/ before.types[t].name = Cls!Unnamed
                          \/ before.types[t].kind = "data"
                          \/ \E u \in DOMAIN before.types :
                                t \in PartsOf(before, u) /\ before.types[u].name = Cls!Unnamed
                          \/ /\ before.types[t].name = after.types[t].name
                             /\ Cls!GetNamespace(before, t) \in {None, "xsd"}

\* A reference of a class to itself, or an array of it.
IsSelf(h, t) ==
    \/ h.types[t].kind = "self"
    \/ /\ h.types[t].kind = "array"
       /\ h.types[h.types[Cls!Innermost(h, t)].fields[1].type].kind = "self"

\* Making a type leaves all types alone that there were before it, but three: Mandatory
\* of an array replaces the element in the array it is given, and the first class that
\* has an array of references to itself makes it an array of its own objects, for
\* every other class that has the array, too.  A class with a reference to itself puts
\* it into the variants of its base as well, as long as it has none of its own.
TypesKept ==
    Done("classes") /\ output.ok =>
        \A i \in DOMAIN input.statements :
            LET s == input.statements[i]
                before == output.heaps[i]
                after == output.heaps[i + 1]
            IN  \A t \in DOMAIN before.types :
                    \/ before.types[t] = after.types[t]
                    \/ /\ s.op = "mandatory"
                       /\ t = Cls!Made(output.heaps, s.type)
                       /\ before.types[t].kind = "array"
                    \/ s.op = "class" /\ IsSelf(before, t)
                    \/ /\ s.op = "class" /\ s.bases # <<>>
                       /\ \E f \in ToSet(s.fields) : IsSelf(before, Cls!Made(output.heaps, f.type))
                       /\ t \in Cls!Variants(before, Cls!Made(output.heaps, Head(s.bases)))

-----------------------------------------------------------------------------
(* Schemas.                                                                 *)

\* The files that were parsed, each with what it includes.
Parsed == {p \in DOMAIN output.contexts : output.contexts[p].tns # None}
SchemaOf(p) == output.contexts[p].schema
TypeIn(p, e) == Xsd!GetType(output, p, Xsd!MemberOf(e).ref)
FieldsRead(p, c) == output.types[<<output.contexts[p].tns, c.name>>].fields

\* A parser that returns has made every class, with those of its members whose types
\* are known in the end, however they refer to each other.  If it had clones nothing
\* else is missing either, otherwise nobody is told.
SchemaRead ==
    Done("parse") /\ output.error = None =>
        \A p \in Parsed : \A c \in ToSet(SchemaOf(p).complex) :
            LET names == {f.name : f \in ToSet(FieldsRead(p, c))}
            IN  \A e \in ToSet(Xsd!Members(c)) :
                    /\ TypeIn(p, e) # None <=> Xsd!MemberOf(e).name \in names
                    /\ output.children # <<>> => TypeIn(p, e) # None

\* The members of a class are in the order of the schema but for those whose types
\* come later in the file, the class itself and elements among them, which are last.
SchemaOrder ==
    Done("parse") /\ output.error = None /\ DOMAIN input.files = {"n1"} /\ input.places = <<>> =>
        \A i \in DOMAIN SchemaOf(1).complex :
            LET c == SchemaOf(1).complex[i]
                later == {<<"n1", SchemaOf(1).complex[j].name>> : j \in i .. Len(SchemaOf(1).complex)}
                waits(e) == e.ref # None \/ TypeIn(1, e) \in later
                known == SelectSeq(Xsd!Members(c), LAMBDA e : TypeIn(1, e) # None)
                found == SelectSeq(known, LAMBDA e : ~waits(e)) \o SelectSeq(known, waits)
            IN  c.content = None =>
                    [k \in DOMAIN FieldsRead(1, c) |-> FieldsRead(1, c)[k].name]
                        = [k \in DOMAIN found |-> Xsd!MemberOf(found[k]).name]

\* One file is refused exactly when a simple type has a base that nobody defines, or
\* that comes after it while names without a prefix are in another namespace, or when
\* simple content has a base that does not come before it.  An import of what is not
\* there is always refused.  The parser breaks while it goes through the elements that
\* wait only when one of them has a type of the other file.
SchemaRefused ==
    Done("parse") =>
        LET file == input.files["n1"]
            own == IF None \in DOMAIN file.nsmap THEN file.nsmap[None] = "n1" ELSE TRUE
            based(i) ==
                LET s == file.simple[i]
                IN  s.kind # "union" /\ s.base.prefix = "t" =>
                        \E j \in DOMAIN file.simple :
                            /\ file.simple[j].name = s.base.name
                            /\ file.simple[j].kind # "union"
                            /\ j < i \/ own
            held(i) ==
                LET base == file.complex[i].content.base
                IN  file.complex[i].content # None /\ base.prefix = "t" =>
                        \/ \E j \in 1 .. i - 1 : file.complex[j].name = base.name
                        \/ \E s \in ToSet(file.simple) : s.name = base.name /\ s.kind # "union"
            imported == UNION {ToSet(f.imports) : f \in {input.files[n] : n \in DOMAIN input.files}}
        IN  /\ (DOMAIN input.files = {"n1"} /\ input.places = <<>>) =>
                  (output.error = None <=> /\ \A i \in DOMAIN file.simple : based(i)
                                           /\ \A i \in DOMAIN file.complex : held(i))
            /\ output.error = "KeyError" <=> ~(imported \subseteq DOMAIN input.files)
            /\ output.error = "RuntimeError" =>
                  \E f \in {input.files[n] : n \in DOMAIN input.files} :
                      \E e \in ToSet(f.elements) : e.type.prefix = "o"

\* What an application is made of is there, or it is refused.
InterfaceSound ==
    /\ SchemaClosed /\ WsdlClosed /\ MembersCalled /\ RoutesInOrder /\ CallsFit /\ TablesSound
    /\ TypesNamed /\ TypesKept
    /\ SchemaRead /\ SchemaOrder /\ SchemaRefused

-----------------------------------------------------------------------------
(* Simple values.                                                           *)

\* What the schema takes soft validation takes, but for the highest unsigned number
\* of a width.  The other way round only the number of digits may differ, which soft
\* validation does not count.  A text is taken when its number is, unless it has too
\* many characters: so are negative numbers of a width that have as many digits as
\* its highest unsigned number, as long as the class is not customized.
NumbersAgree ==
    Done("number") =>
        LET n == input.text.n
            c == NewInteger(input.kind, input.bits)
            kws == ToSet(input.kws)
            longest == Digits(2 ^ input.bits)
        IN  output.made =>
                /\ output.schema => output.number \/ (input.kind = "unsigned" /\ n = MaxBound(c))
                /\ output.number =>
                      output.schema \/ \E kw \in kws : \E d \in kw.total :
                                          Digits(IF n < 0 THEN -n ELSE n) > d
                /\ output.text => output.number
                /\ (output.number /\ input.text.zeros = 0 /\ kws = {}) =>
                      (output.text <=> ~(Bounded(c) /\ n < 0 /\ Digits(-n) = longest))

\* A customization is refused exactly when one of its bounds leaves no number of the
\* width.
BoundsSatisfiable ==
    Done("number") =>
        LET c == NewInteger(input.kind, input.bits)
            empty(kw) == LET none == [c EXCEPT !.maxLen = {}]
                         IN  \E d \in {[none EXCEPT !.gt = kw.gt], [none EXCEPT !.ge = kw.ge],
                                       [none EXCEPT !.lt = kw.lt], [none EXCEPT !.le = kw.le]} :
                                ~\E n \in MinBound(c) .. MaxBound(c) : InRange(d, n)
        IN  output.made <=> ~(Bounded(c) /\ \E kw \in ToSet(input.kws) : empty(kw))

\* The schema, elements and dicts take the same strings, as far as they are not
\* empty.  An empty element is taken whatever its shortest length is.
StringsAgree ==
    Done("string") =>
        LET c == input.class
        IN  /\ input.text.len > 0 =>
                  /\ output.element <=> output.schema
                  /\ output.dict <=> output.schema
            /\ (input.text.len = 0 /\ ~c.emptyIsNone) =>
                  /\ output.dict <=> output.schema
                  /\ output.element <=> c.nillable /\ (c.pattern => input.text.matches)
            /\ (input.text.len = 0 /\ c.emptyIsNone) => (output.dict <=> output.element)

\* A duration comes back, up to one microsecond, unless its microseconds are less
\* than a tenth of a second: then it comes back longer than it was.
DurationsReturn ==
    Done("duration") =>
        /\ [output EXCEPT !.micros = 0] = [input EXCEPT !.micros = 0]
        /\ input.micros = 0 => output = input
        /\ input.micros >= 100000 => output.micros \in {input.micros - 1, input.micros}
        /\ (0 < input.micros /\ input.micros < 100000) => output.micros > input.micros

Instant(v) == v.sec - 60 * One(v.off)

\* A datetime that knows its zone comes back as the same instant, in the zone of the
\* class if that has one, unless it is written in a zone that is behind UTC by no
\* whole hours, or without a zone.  One that knows none keeps its clock.  As a number
\* it loses its zone and keeps its clock, up to the unit of the number; of
\* milliseconds only the seconds are read.
DateTimesReturn ==
    Done("datetime") =>
        LET c == input.class
            v == input.value
            written == IF c.asZone = {} THEN v.off ELSE c.asZone
            skewed == \E m \in written : m < 0 /\ m % 60 # 0
        IN  IF c.serializeAs # "text"
            THEN /\ output = [v EXCEPT !.off = {}, !.micro = output.micro]
                 /\ output.micro = IF c.serializeAs \in {"sec", "msec"} THEN 0 ELSE v.micro
            ELSE IF v.off = {} THEN output = [v EXCEPT !.off = c.asZone]
            ELSE IF ~c.timezone /\ c.asZone = {} THEN output = [v EXCEPT !.off = {}]
            ELSE /\ (Instant(output) = Instant(v)) <=> (c.timezone => ~skewed)
                 /\ c.asZone # {} => output.off = c.asZone
                 /\ output.micro = v.micro

\* Whether a value that is read stands for the one that was sent.
SameValue(c, v, w) ==
    LET types == [number |-> {"Integer", "Double"}, bool |-> {"Boolean"}, str |-> {"Unicode"},
                  chunks |-> {"ByteArray"}, file |-> {"File"},
                  object |-> {"Decimal", "DateTime", "Date", "Time", "Duration", "Uuid", "EnumBase"}]
    IN  /\ w.form \in DOMAIN types
        /\ Handler(FromUnicodeHandlers, c.type) \in types[w.form]
        /\ w.layers = <<>> \/ w = v

\* Which names of options make both sides look at the same format.
FormatsAgree(c, writer, reader, applied) ==
    /\ \A n \in applied : n \notin DOMAIN c.formats
    /\ FirstFormat(c, writer) = FirstFormat(c, reader)

\* Of classes without options all values arrive, but files in XML, which stay coded,
\* and of what is read from a text what MessagePack writes as bytes.
PlainReturns ==
    Done("convert") =>
        LET c == input.class
            plain == c = [c EXCEPT !.encoding = "default", !.serializeAs = None, !.formats = <<>>,
                                   !.zone = FALSE, !.parser = FALSE]
        IN  (plain /\ ~(c.type \in {"Unicode", "AnyUri"} /\ input.value.form = "bytes")) =>
                /\ SameValue(c, input.value, output.lax) <=>
                      ~ \/ XmlBased(input.prot) /\ c.type = "File"
                        \/ input.prot = "msgpack"
                              /\ c.type \in {"Decimal", "DateTime", "Date", "Duration", "Enum"}
                /\ output.soft = output.lax

\* Nothing is read as something else unless it was meant for people, is coded in a
\* charset or a zone that its class does not tell, or is a file in XML.
NothingMistaken ==
    Done("convert") =>
        LET c == input.class
            v == input.value
            read == output.lax.form \notin {"failed", "refused"}
            text == c.type \in {"Unicode", "AnyUri"}
        IN  (read /\ ~SameValue(c, v, output.lax)) =>
                \/ text /\ (c.formats # <<>> \/ v.form = "bytes")
                \/ c.type = "DateTime" /\ c.zone /\ FirstFormat(c, ReaderFormats) # None
                \/ XmlBased(input.prot) /\ c.type = "File"

\* Soft validation refuses some of what is read without it, and changes nothing, but
\* two ways to write a uuid that it does not know.
SoftOnlyRefuses ==
    Done("convert") =>
        \/ output.soft = output.lax
        \/ output.soft.form = "refused"
        \/ output.soft.form = "failed" /\ input.class.serializeAs \in {"str", "urn"}

\* Datetimes and uuids arrive when both sides look at the same options.  With SOAP all
\* datetimes do, and dates only if their class has no format, which is written but not
\* read.  A number
\* has no place in XML, and none in JSON that is validated; a parser of three
\* arguments is only called with them by XML.  Binary data does not arrive where
\* the text of its encoding is read as bytes, or the bytes as a text.
OptionsShared ==
    Done("convert") =>
        LET c == input.class
            p == input.prot
            s == c.serializeAs
            same == SameValue(c, input.value, output.lax)
            number == s \in Units /\ ~XmlBased(p)
        IN  /\ (c.type = "DateTime" /\ p = "soap") => same
            /\ (c.type = "DateTime" /\ p # "soap" /\ c.parser) => (same <=> p = "xml" /\ s = None)
            /\ (c.type = "DateTime" /\ p # "soap" /\ ~c.parser) =>
                  (same <=> \/ number
                            \/ /\ s = None
                               /\ p # "msgpack"
                               /\ FormatsAgree(c, WriterFormats, ReaderFormats,
                                               {"string_format", "str_format", "interp_format"})
                               /\ c.zone => FirstFormat(c, ReaderFormats) = None)
            /\ (c.type = "DateTime" /\ number /\ p = "json") => output.soft.form = "refused"
            /\ c.type = "Date" =>
                  (same <=> /\ s \in {None, "str"}
                            /\ p # "msgpack"
                            /\ ~c.parser \/ XmlBased(p)
                            /\ FormatsAgree(c, <<"date_format">>, <<"date_format">>,
                                            {"str_format", "format"})
                            /\ p = "soap" => "date_format" \notin DOMAIN c.formats)
            /\ c.type = "ByteArray" =>
                  (same <=> IF TextBased(p) THEN c.encoding \in {"default", "base64", "urlsafe"}
                            ELSE c.encoding # "base64")
            /\ (c.type = "Uuid" /\ same) =>
                  /\ s \in {"int", "fields"} => ~XmlBased(p)
                  /\ s \in {"bytes", "bytes_le"} =>
                        \/ p = "msgpack"
                        \/ XmlBased(p) /\ c.encoding = "base64"
                        \/ p = "yaml" /\ c.encoding = "hex"
                  /\ s \in {"hex", "urn"} => p # "msgpack"
                  /\ s # "str"

ConversionsReturn == PlainReturns /\ NothingMistaken /\ SoftOnlyRefuses /\ OptionsShared

-----------------------------------------------------------------------------
(* Members and objects.                                                     *)

\* The name of a member outside.
WireName(h, f) ==
    LET sub == Cls!Option(h, f.type, "sub_name", None)
    IN  IF sub = None THEN f.name ELSE sub

\* An element is read as the member that was written under its name, when no other
\* has the name, in every variant of the class under the name it has in the class, if
\* the class has it, too.  Only the other name of a reference of the class to itself is
\* not known.
MembersRead ==
    Done("classes") /\ output.ok =>
        LET h == Last(output.resolved)
        IN  \A c \in ToSet(output.classes) :
                LET members == Cls!FlatTypeInfo(h, c)
                    all == Cls!FlatTypeInfo(h, Cls!Root(h, c))
                    wire(f) == WireName(h, IF Cls!HasField(all, f.name)
                                           THEN [f EXCEPT !.type = Cls!FieldType(all, f.name)] ELSE f)
                    own(f) == wire(f) = f.name \/ h.types[f.type].kind # "complex"
                    clear(i) == \A j \in DOMAIN members \ {i} :
                                   wire(members[i]) \notin {members[j].name, wire(members[j])}
                IN  \A i \in DOMAIN members :
                        own(members[i]) /\ clear(i) =>
                            LET read == Cls!ReadAs(h, c, wire(members[i]))
                            IN  /\ read # None
                                /\ read.name = members[i].name
                                /\ h.types[c].orig = 0 => read = members[i]

\* An object with all its members is refused by soft validation exactly when one it
\* must have is an attribute, or has another name outside and no member has its own.
MembersCounted ==
    Done("classes") /\ output.ok =>
        LET h == Last(output.resolved)
            element(f) == h.types[f.type].kind \notin {"attribute", "data"}
        IN  \A c \in ToSet(output.classes) :
                LET members == Cls!FlatTypeInfo(h, c)
                    elements == SelectSeq(members, element)
                    written == [i \in DOMAIN elements |-> WireName(h, elements[i])]
                    must == {f \in ToSet(members) : Cls!Option(h, f.type, "min_occurs", 0) > 0}
                IN  Cls!Frequent(h, c, written) <=>
                        \A f \in must :
                            \/ element(f) /\ WireName(h, f) = f.name
                            \/ \E g \in ToSet(elements) \ {f} : WireName(h, g) = f.name

\* Keyword arguments keep the default of what is not given, and do not set what may
\* only be read; a dict and a list do the opposite, a copy is made like the first,
\* and the dict of an object is the one it was made of.  A value of another type is
\* refused where assignments are checked.  Of a class that checks the assignments of
\* some member only this holds: a list makes the same object as a dict.
ObjectsFilled ==
    Done("objects") =>
        LET h == output.heap
            c == h.made
            members == Cls!FlatTypeInfo(h, c)
            names == ToSet(Cls!FieldNames(members))
            option(k, o, absent) == Cls!Option(h, Cls!FieldType(members, k), o, absent)
            given == output.given
            set(from) == [k \in names |-> IF k \in from THEN given[k] ELSE option(k, "default", None)]
            writable == {k \in DOMAIN given : ~option(k, "read_only", FALSE)}
            checked(k) == option(k, "voa", FALSE) /\ k = input.wrong
        IN  /\ output.dict.ok = output.list.ok
            /\ output.dict.ok => output.dict = output.list
            /\ (\A k \in names : Cls!Kept(h, c, k) = k) =>
                  /\ output.init.ok <=> \A k \in writable : ~checked(k)
                  /\ output.dict.ok <=> \A k \in DOMAIN given : ~checked(k)
                  /\ output.init.ok =>
                        /\ output.init.kept = set(writable)
                        /\ output.copy = output.init
                  /\ output.dict.ok =>
                        /\ output.dict.kept = [k \in names |-> IF k \in DOMAIN given THEN given[k]
                                                              ELSE None]
                        /\ output.back = given

\* Simple values are the same on both sides, as far as the code makes them so.
ValuesAgree ==
    /\ MembersRead /\ MembersCounted /\ ObjectsFilled
    /\ ConversionsReturn
    /\ NumbersAgree /\ BoundsSatisfiable /\ StringsAgree
    /\ DurationsReturn /\ DateTimesReturn

-----------------------------------------------------------------------------
(* Side by side.                                                           *)

VARIABLE machine  \* the one that moves

ModelsInit ==
    /\ machine \in {"classes", "memo", "definitions"}
    /\ ClassesInit
    /\ MemoInit
    /\ IF machine = "definitions" THEN DefinitionsInit
       ELSE job = None /\ input = None /\ output = None

ClassesStep ==
    /\ machine = "classes"
    /\ ClassesNext
    /\ UNCHANGED <<machine, vars, memoVars>>

MemoStep ==
    /\ machine = "memo"
    /\ MemoNext
    /\ UNCHANGED <<machine, vars, classVars>>

DefinitionsStep ==
    /\ machine = "definitions"
    /\ DefinitionsNext
    /\ UNCHANGED <<machine, classVars, memoVars>>

ModelsNext == ClassesStep \/ MemoStep \/ DefinitionsStep

ModelsSpec == ModelsInit /\ [][ModelsNext]_<<machine, vars, classVars, memoVars>>
=============================================================================
