------------------------------ MODULE Interface ------------------------------
(***************************************************************************)
(* What an application makes of its services before the first request:       *)
(* spyne/interface/_base.py enters the classes its methods use, with the     *)
(* namespaces they import from each other, and the routes from names to      *)
(* methods; spyne/interface/xml_schema defines the classes it entered.       *)
(*                                                                         *)
(* The classes of a program are a sequence, in the order of their            *)
(* definition.  A class is a record of its namespace and type name; orig,    *)
(* the class it is a variant of, or itself; extends, a sequence of at most   *)
(* one class; fields, the sequence of the classes of its members; and         *)
(* methods, the sequence of the methods that are defined in it.  Methods are  *)
(* records of their headers and messages, which are sequences of classes, and *)
(* of whether they are auxiliary; those of classes have a name, the name of    *)
(* the class they are defined in, and when, the answer of static_when.        *)
(***************************************************************************)
EXTENDS SequencesExt, Naturals

\* Those of namespace.PREFMAP, which are not imported.
BaseNamespaces == {"xsd"}

QName(cs, c) == <<cs[c].ns, cs[c].name>>

\* Attributes._subclasses: variants share the list of their original.
Extending(cs, c) ==
    SelectSeq([d \in DOMAIN cs |-> d],
              LAMBDA d : /\ cs[d].orig = d
                         /\ \E e \in ToSet(cs[d].extends) : cs[e].orig = cs[c].orig)

\* Attributes.methods: a class without methods has those of the one it extends.
RECURSIVE MemberMethods(_, _)
MemberMethods(cs, c) ==
    IF cs[c].methods # <<>> \/ cs[c].extends = <<>> THEN cs[c].methods
    ELSE MemberMethods(cs, cs[c].extends[1])

\* An interface that is set to an application.
NewInterface(tns) ==
    [ok |-> TRUE, tns |-> tns, classes |-> <<>>, imports |-> tns :> {}, deps |-> <<>>,
     members |-> <<>>]

\* has_class, where it does not raise.
HasClass(cs, st, c) == QName(cs, c) \in DOMAIN st.classes

\* has_class raises for two classes of one name.  Of those it lets an Array and an
\* Iterable of one type pass, which no program here has.
Conflicting(cs, st, c) ==
    HasClass(cs, st, c) /\ cs[st.classes[QName(cs, c)]].orig # cs[c].orig

\* Namespaces are compared with the one the class was first met in.
BadImport(st, from, to) ==
    IF to \in BaseNamespaces \cup DOMAIN st.imports THEN st
    ELSE [st EXCEPT !.imports[from] = @ \cup {to}]

\* One namespace refers to another.
Import(st, from, to) ==
    IF from = to \/ to \in BaseNamespaces THEN st
    ELSE [st EXCEPT !.imports[from] = @ \cup {to}]

EnterClass(cs, st, c) ==
    [st EXCEPT !.classes = (QName(cs, c) :> c) @@ @,
               !.imports = IF cs[c].ns \in BaseNamespaces THEN @ ELSE @ @@ (cs[c].ns :> {}),
               !.deps = @ @@ (c :> {})]

RECURSIVE AddClass(_, _, _, _), AddReference(_, _, _, _), AddSubclass(_, _, _, _)

\* add_method: the classes of auxiliary methods are imported without being entered.
AddHeader(cs, st, m, c) ==
    LET added == IF m.aux THEN st ELSE AddClass(cs, st, c, TRUE)
    IN  IF added.ok THEN Import(added, st.tns, cs[c].ns) ELSE added

\* A message is imported before it is entered.
AddMessage(cs, st, m, c) ==
    IF ~st.ok THEN st
    ELSE LET imported == Import(st, st.tns, cs[c].ns)
         IN  IF m.aux THEN imported ELSE AddClass(cs, imported, c, TRUE)

AddMethod(cs, st, m) ==
    FoldLeft(LAMBDA s, c : AddMessage(cs, s, m, c),
             FoldLeft(LAMBDA s, c : IF s.ok THEN AddHeader(cs, s, m, c) ELSE s, st, m.headers),
             m.messages)

AddMemberMethod(cs, st, c, m) ==
    IF ~st.ok \/ ~m.when THEN st
    ELSE AddMethod(cs, [st EXCEPT !.members = Append(@, [class |-> c, method |-> m])], m)

\* The parent of a class, or the class of one of its members.
AddReference(cs, st, c, d) ==
    LET added == AddClass(cs, [st EXCEPT !.deps[c] = @ \cup {d}], d, TRUE)
    IN  IF added.ok THEN Import(added, cs[c].ns, cs[d].ns) ELSE added

\* Only the subclasses of the same namespace, as the others would have to import
\* this one which would have to import them.
AddSubclass(cs, st, c, d) ==
    IF ~st.ok \/ cs[d].ns # cs[c].ns THEN st
    ELSE IF HasClass(cs, st, d) THEN [st EXCEPT !.ok = ~Conflicting(cs, st, d)]
    ELSE LET added == AddClass(cs, st, d, FALSE)
         IN  IF added.ok THEN [added EXCEPT !.deps[d] = @ \cup {c}] ELSE added

AddClass(cs, st, c, addParent) ==
    IF ~st.ok THEN st
    ELSE IF HasClass(cs, st, c) THEN [st EXCEPT !.ok = ~Conflicting(cs, st, c)]
    ELSE FoldLeft(LAMBDA s, d : AddSubclass(cs, s, c, d),
             FoldLeft(LAMBDA s, m : AddMemberMethod(cs, s, c, m),
                 FoldLeft(LAMBDA s, d : IF s.ok THEN AddReference(cs, s, c, d) ELSE s,
                          EnterClass(cs, st, c),
                          (IF addParent THEN cs[c].extends ELSE <<>>) \o cs[c].fields),
                 MemberMethods(cs, c)),
             Extending(cs, c))

\* populate_interface: the classes of all methods, then Application.classes.
PopulateClasses(app) ==
    FoldLeft(LAMBDA st, c : AddClass(app.program, st, c, TRUE),
             FoldLeft(LAMBDA st, m : AddMethod(app.program, st, m),
                      NewInterface(app.tns), app.methods),
             app.classes)

-----------------------------------------------------------------------------
(* The schema.                                                              *)

\* toposort2: the classes that depend on nothing that is left, time and again.
RECURSIVE Layers(_, _)
Layers(data, n) ==
    LET ordered == {c \in DOMAIN data : data[c] = {}}
    IN  IF ordered = {} THEN <<>>
        ELSE SelectSeq([c \in 1 .. n |-> c], LAMBDA c : c \in ordered)
             \o Layers([c \in DOMAIN data \ ordered |-> data[c] \ ordered], n)

\* Classes that are only depended on depend on nothing.
Toposort2(deps, n) ==
    Layers([c \in DOMAIN deps |-> deps[c] \ {c}]
             @@ [c \in UNION {deps[d] : d \in DOMAIN deps} |-> {}], n)

\* An XmlSchema of nothing, with the classes it has seen, and types and elements by their
\* qualified names.
NewSchema == [tags |-> {}, types |-> <<>>, elements |-> <<>>]

\* add_complex_type and add_element, in the schema of the namespace of the class: of the
\* classes of one name the last one stays.
DefineType(cs, doc, c) ==
    [doc EXCEPT !.types = (QName(cs, c) :> c) @@ @, !.elements = (QName(cs, c) :> c) @@ @]

\* XmlSchema.add and complex_add: members come first.  Simple types of the base
\* namespaces need no definition.
RECURSIVE AddType(_, _, _)
AddType(cs, doc, c) ==
    IF c \in doc.tags \/ cs[c].ns \in BaseNamespaces THEN doc
    ELSE DefineType(cs, FoldLeft(LAMBDA d, f : AddType(cs, d, f),
                             [doc EXCEPT !.tags = @ \cup {c}], cs[c].fields), c)

\* add_missing_elements_for_methods: messages have elements in the target namespace,
\* which may already have one of that name.
AddMissingElements(cs, tns, doc, methods) ==
    LET messages == FlattenSeq([i \in DOMAIN methods |->
                        IF methods[i].aux THEN <<>> ELSE methods[i].messages])
    IN  [doc EXCEPT !.elements =
            FoldLeft(LAMBDA e, c : e @@ (<<tns, cs[c].name>> :> c), @, messages)]

\* build_schema_nodes; ok is FALSE when a cycle of dependencies is refused.
BuildSchemaNodes(cs, tns, deps, methods) ==
    LET order == Toposort2(deps, Len(cs))
        doc == FoldLeft(LAMBDA d, c : AddType(cs, d, c), NewSchema, order)
    IN  [ok |-> ToSet(order) = DOMAIN deps \cup UNION {deps[d] : d \in DOMAIN deps}]
            @@ AddMissingElements(cs, tns, doc, methods)

-----------------------------------------------------------------------------
(* The WSDL document of services: [name, aux, ports, methods].  Their methods *)
(* are records of their name; the classes of their messages, headers and       *)
(* faults; the port they ask for, a sequence of at most one; and their kind,   *)
(* "sync", "async" or "callback".  Those classes are records of a namespace, the name of the type  *)
(* and that of the element.                                                  *)

\* check_method_port.
WrongPort(service, m) ==
    IF m.port = <<>> THEN service.ports # <<>> ELSE m.port[1] \notin ToSet(service.ports)

Callbacks(service) == SelectSeq(service.methods, LAMBDA m : m.kind = "callback")

\* One header has a message of the name of its class, several have one together.
HeaderMessage(m, headers, suffix) ==
    IF Len(headers) > 1 THEN <<m.name, suffix>> ELSE <<headers[1].type>>

\* The messages of a method, each with the classes of its parts.
MessagesOf(m) ==
    LET header(headers, suffix) ==
            IF headers = <<>> THEN <<>>
            ELSE <<[name |-> HeaderMessage(m, headers, suffix), parts |-> headers]>>
    IN  <<[name |-> <<m.in.element>>, parts |-> <<m.in>>],
          [name |-> <<m.out.element>>, parts |-> <<m.out>>]>>
        \o header(m.inHeaders, "InHeaderMsg") \o header(m.outHeaders, "OutHeaderMsg")
        \o [i \in DOMAIN m.faults |-> [name |-> <<m.faults[i].type>>, parts |-> <<m.faults[i]>>]]

\* add_messages_for_methods: a name is that of the first message that has it.
AddMessages(doc, service) ==
    LET add(d, x) == IF \E y \in ToSet(d.messages) : y.name = x.name THEN d
                     ELSE [d EXCEPT !.messages = Append(@, x)]
    IN  FoldLeft(add, doc, FlattenSeq([i \in DOMAIN service.methods |->
                                          MessagesOf(service.methods[i])]))

\* An operation of a portType with the messages it refers to.
PortOperation(m) ==
    [method |-> m.name,
     messages |-> {[ns |-> m.in.ns, name |-> <<m.in.element>>]}
        \cup IF m.kind # "sync" THEN {}
             ELSE {[ns |-> m.out.ns, name |-> <<m.out.element>>]}
                  \cup {[ns |-> f.ns, name |-> <<f.type>>] : f \in ToSet(m.faults)}]

\* _add_callbacks: with a portType of their own, and a service whose port has no binding.
AddCallbacks(doc, service, name) ==
    LET own == <<name, "Callback">>
        calls == Callbacks(service)
        header(x) == [name |-> <<x, "Header">>, parts |-> <<[ns |-> "wsa", type |-> x, element |-> x]>>]
    IN  IF calls = <<>> THEN doc
        ELSE [doc EXCEPT
                !.messages = @ \o <<header("RelatesTo"), header("ReplyTo"), header("MessageID")>>,
                !.portTypes = Append(@, [name |-> own, operations |->
                                  [i \in DOMAIN calls |-> PortOperation(calls[i])]]),
                !.services = Append(@, [name |-> own, ports |-> <<own>>])]

PortNames(service, name) == IF service.ports = <<>> THEN <<name>> ELSE service.ports

\* add_port_type: all operations go into the last portType of the service.
AddPortType(doc, service, name) ==
    LET names == PortNames(service, name)
        own == SelectSeq(service.methods, LAMBDA m : m.kind # "callback")
        create(types, n) == IF \E t \in ToSet(types) : t.name = <<n>> THEN types
                            ELSE Append(types, [name |-> <<n>>, operations |-> <<>>])
        called == AddCallbacks(doc, service, name)
        types == FoldLeft(create, called.portTypes, names)
    IN  IF doc.error # "none" THEN doc
        ELSE IF \E m \in ToSet(service.methods) : WrongPort(service, m)
        THEN [doc EXCEPT !.error = "ValueError"]
        ELSE [called EXCEPT
                !.portTypes = [i \in DOMAIN types |->
                    IF types[i].name # <<Last(names)>> THEN types[i]
                    ELSE [types[i] EXCEPT !.operations =
                             @ \o [j \in DOMAIN own |-> PortOperation(own[j])]]],
                !.services = [i \in DOMAIN @ |->
                    IF @[i].name # <<service.name>> THEN @[i]
                    ELSE [@[i] EXCEPT !.ports = @ \o [j \in DOMAIN names |-> <<names[j]>>]]]]

\* inner: an operation of a binding with the parts of messages its headers refer to.
BindingOperation(tns, m) ==
    LET refer(headers, suffix) ==
            {[ns |-> h.ns, name |-> HeaderMessage(m, headers, suffix), part |-> h.type] :
                h \in ToSet(headers)}
        addressing(x) == [ns |-> tns, name |-> <<x, "Header">>, part |-> x]
    IN  [method |-> m.name,
         headers |-> refer(m.inHeaders, "InHeaderMsg")
            \cup CASE m.kind = "sync" -> refer(m.outHeaders, "OutHeaderMsg")
                   [] m.kind = "async" -> {addressing("ReplyTo"), addressing("MessageID")}
                   [] m.kind = "callback" -> {addressing("RelatesTo")}]

\* add_bindings_for_methods: services without ports share a binding, which callbacks of
\* the others go to, too, if there is one yet.
AddBindings(tns, doc, service, name) ==
    LET of(methods) == [i \in DOMAIN methods |-> BindingOperation(tns, methods[i])]
        bound(p) == [name |-> <<p>>, operations |->
                        of(SelectSeq(service.methods, LAMBDA m : m.port = <<p>> /\ m.kind # "callback"))]
        late == FlattenSeq([i \in DOMAIN service.ports |->
                    SelectSeq(Callbacks(service), LAMBDA m : m.port = <<service.ports[i]>>)])
        bindings == doc.bindings \o [i \in DOMAIN service.ports |-> bound(service.ports[i])]
    IN  IF doc.error # "none" THEN doc
        ELSE IF service.ports = <<>>
        THEN [doc EXCEPT !.shared = IF @ = 0 THEN Len(doc.bindings) + 1 ELSE @,
                         !.bindings =
                             IF doc.shared = 0
                             THEN Append(@, [name |-> <<name>>, operations |-> of(service.methods)])
                             ELSE [@ EXCEPT ![doc.shared].operations = @ \o of(service.methods)]]
        ELSE IF late # <<>> /\ doc.shared = 0 THEN [doc EXCEPT !.error = "AttributeError"]
        ELSE [doc EXCEPT !.bindings =
                 IF late = <<>> THEN bindings
                 ELSE [bindings EXCEPT ![doc.shared].operations = @ \o of(late)]]

\* build_interface_document, from the messages on.  Services of one name are one.
BuildWsdl(tns, name, services) ==
    LET primary == SelectSeq(services, LAMBDA s : ~s.aux)
        create(made, s) == IF \E x \in ToSet(made) : x.name = <<s.name>> THEN made
                           ELSE Append(made, [name |-> <<s.name>>, ports |-> <<>>])
        new == [error |-> "none", messages |-> <<>>, portTypes |-> <<>>, bindings |-> <<>>,
                services |-> FoldLeft(create, <<>>, primary), shared |-> 0]
        described == FoldLeft(LAMBDA d, s : AddPortType(d, s, name),
                              FoldLeft(AddMessages, new, services), primary)
    IN  FoldLeft(LAMBDA d, s : AddBindings(tns, d, s, name), described, primary)

-----------------------------------------------------------------------------
(* Routes.  A method is a record of its id, its key and whether it is an      *)
(* auxiliary one.                                                           *)

NewRoutes == [error |-> "none", ids |-> {}, map |-> <<>>]

\* A primary method may come whenever there are only auxiliary ones.
BadProcessMethod(st, m) ==
    LET val == IF m.key \in DOMAIN st.map THEN st.map[m.key] ELSE <<>>
    IN  IF st.error # "none" \/ m.id \in st.ids THEN st
        ELSE IF val = <<>> \/ m.aux \/ val[1].aux
        THEN [st EXCEPT !.map = (m.key :> Append(val, m)) @@ @, !.ids = @ \cup {m.id}]
        ELSE [st EXCEPT !.error = "ValueError"]

\* process_method: val.insert(method, 0) has its arguments the wrong way round.
ProcessMethod(st, m) ==
    LET val == IF m.key \in DOMAIN st.map THEN st.map[m.key] ELSE <<>>
    IN  IF st.error # "none" \/ m.id \in st.ids THEN st
        ELSE IF val = <<>> \/ m.aux
        THEN [st EXCEPT !.map = (m.key :> Append(val, m)) @@ @, !.ids = @ \cup {m.id}]
        ELSE [st EXCEPT !.error = IF val[1].aux THEN "TypeError" ELSE "ValueError"]

\* The name of a class comes before that of a method that is not defined in it.
MemberKey(cs, c, m) ==
    (IF cs[c].name = m.owner THEN <<>> ELSE <<cs[c].name>>) \o <<m.owner, m.name>>

\* The methods of the classes that were entered, as those of their originals.
MemberRoutes(cs, members) ==
    [i \in DOMAIN members |->
        LET c == cs[members[i].class].orig
            m == members[i].method
        IN  [id |-> <<cs[c].ns, cs[c].name, m.owner, m.name>>, key |-> MemberKey(cs, c, m),
             aux |-> m.aux]]

PopulateRoutes(methods) == FoldLeft(ProcessMethod, NewRoutes, methods)
=============================================================================
