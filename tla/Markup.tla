-------------------------------- MODULE Markup --------------------------------
(***************************************************************************)
(* ToParentMixin of spyne/protocol/cloth/to_parent.py and the protocols that *)
(* are made of it: XmlCloth ("xml"), HtmlCloth ("html"), HtmlMicroFormat      *)
(* ("micro"), HtmlColumnTable ("column") and HtmlRowTable ("row").  They       *)
(* write a value straight into the elements of its document.  Where they     *)
(* meet a PushBase they are suspended until the user has pushed its elements, *)
(* and are resumed with a Break when the user is done.                       *)
(*                                                                         *)
(* A type is a record of its kind ("simple", "uri", "data", "attribute",      *)
(* "complex" or "array"), its name, its fields, [name, type], and its         *)
(* attributes.  The one field of an array, and nothing else, is many.  A      *)
(* value is None, a text, a list, [push, items], or an object, of a class.    *)
(***************************************************************************)
EXTENDS SequencesExt, FiniteSetsExt, Naturals, Nothing

Text(v) == [is |-> "text", v |-> v]
List(push, items) == [is |-> "list", push |-> push, items |-> items]
Object(class, values) == [is |-> "object", class |-> class, values |-> values]

IsA(kind, inst) == inst # None /\ inst.is = kind

\* getattr(inst, k, None)
Attr(inst, k) == IF IsA("object", inst) /\ k \in DOMAIN inst.values THEN inst.values[k] ELSE None

\* get_cls_attrs: a type may have other attributes for a protocol.
AttrsOf(prot, type) ==
    IF prot.kind \in DOMAIN type.protAttrs THEN type.protAttrs[prot.kind] @@ type ELSE type

\* trc
Translated(type, default) == IF type.label = None THEN default ELSE type.label

\* sort_fields: a place from the end is negative.  The fields without a place get
\* the numbers that follow the count of those with one.
SortKeys(prot, fields) ==
    LET order(i) == AttrsOf(prot, fields[i].type).order
        ordered == {i \in DOMAIN fields : order(i) # None}
    IN  [i \in DOMAIN fields |->
            IF i \in ordered
            THEN IF order(i) < 0 THEN Len(fields) + order(i) ELSE order(i)
            ELSE Cardinality(ordered) + Cardinality({j \in 1 .. i - 1 : j \notin ordered})]

\* The last one of equals is first.
BadSortFields(prot, fields) ==
    LET key == SortKeys(prot, fields)
        place(i) == 1 + Cardinality({j \in DOMAIN fields : key[j] < key[i] \/ (key[j] = key[i] /\ j > i)})
    IN  [n \in DOMAIN fields |-> fields[CHOOSE i \in DOMAIN fields : place(i) = n]]

\* The field with the least number is first, and of equals the one that was declared first.
SortFields(prot, fields) ==
    LET key == SortKeys(prot, fields)
        place(i) == 1 + Cardinality({j \in DOMAIN fields : key[j] < key[i] \/ (key[j] = key[i] /\ j < i)})
    IN  [n \in DOMAIN fields |-> fields[CHOOSE i \in DOMAIN fields : place(i) = n]]

-----------------------------------------------------------------------------
(* Coroutines.  What a serializer has written when it is suspended first, and   *)
(* when that wait has ended with a Break; how many elements are open while it   *)
(* waits; and whether it raises an error.                                    *)

\* The concatenation of sequences.
Together(parts) == FlattenSeq(<<>> \o parts)

Node(tag, name, text, sub) == [tag |-> tag, name |-> name, text |-> text, hidden |-> FALSE, sub |-> sub]

Written(nodes) == [first |-> nodes, done |-> nodes, waits |-> FALSE, open |-> 0, fails |-> FALSE]

Fails == [Written(<<>>) EXCEPT !.fails = TRUE]

\* Nothing is written after a Break.
BadInTurn(parts, own) ==
    LET waits == {i \in DOMAIN parts : parts[i].waits}
    IN  IF waits = {} THEN Written(Together([i \in DOMAIN parts |-> parts[i].done]))
        ELSE [Written(Together([i \in 1 .. Min(waits) |-> parts[i].done])) EXCEPT !.waits = TRUE]

\* Elements are written while `own' of them are open in the same generator.  It throws
\* the Break into the one that waits and goes on.  When it has to wait again, then as
\* the answer of that throw: who called it takes it for done and drops it.  That leaves
\* elements open, which the writer refuses.
InTurn(parts, own) ==
    LET waits == {i \in DOMAIN parts : parts[i].waits}
        end == Len(parts) + 1
        first == Min(waits \cup {end})
        second == Min((waits \ {first}) \cup {end})
        until(n) == Together([i \in DOMAIN parts |-> CASE i < n -> parts[i].done
                                                         [] i = n -> parts[i].first
                                                         [] OTHER -> <<>>])
    IN  [first |-> until(first),
         done |-> until(second),
         waits |-> waits # {},
         open |-> IF waits = {} THEN 0 ELSE parts[first].open + own,
         fails |-> \/ \E i \in DOMAIN parts : i <= second /\ parts[i].fails
                   \/ second < end /\ parts[second].open + own > 0]

\* with parent.element(tag)
Element(tag, name, part) ==
    [part EXCEPT !.first = <<Node(tag, name, None, part.first)>>,
                 !.done = <<Node(tag, name, None, part.done)>>,
                 !.open = @ + 1]

Hide(part, hidden) ==
    LET hide(nodes) == [i \in DOMAIN nodes |-> [nodes[i] EXCEPT !.hidden = hidden]]
    IN  [part EXCEPT !.first = hide(@), !.done = hide(@)]

\* The generator is dropped where it waits.  Its elements are closed from the outside:
\* more than one cannot be.
Dropped(part) ==
    IF part.waits /\ part.open > 1 THEN Fails ELSE [Written(part.first) EXCEPT !.fails = part.fails]

-----------------------------------------------------------------------------
(* What all of them do.                                                      *)

CONSTANT Classes   \* bound: the classes of objects, by name

\* get_polymorphic_target: the class of the object, without what the field customizes.
PolymorphicTarget(type, inst) ==
    IF IsA("object", inst) /\ inst.class # type.name /\ type.name \in Classes[inst.class].bases
    THEN Classes[inst.class] ELSE type

Item(type) == type.fields[1].type

\* strip_wrappers
StripWrappers(type) == IF type.kind = "array" THEN Item(type) ELSE type

SubName(field) == IF field.type.sub = None THEN field.name ELSE field.type.sub

\* _gen_attrib_dict writes those that are excluded, too.
AttribDict(type, inst) ==
    LET attrs == SelectSeq(type.fields, LAMBDA f : f.type.kind = "attribute" /\ Attr(inst, f.name) # None)
    IN  [i \in DOMAIN attrs |-> Node("@", <<SubName(attrs[i])>>, Attr(inst, attrs[i].name).v, <<>>)]

\* A call knows its protocol, the stack of those it came through, and, among the
\* arguments that are handed on, whether it is for an element of an array, and of which
\* index; and the type, the value and the name of what is written.
NewCall(prot, type, inst, name) ==
    [prot |-> prot, stack |-> {prot}, fromArr |-> FALSE, index |-> None,
     type |-> type, inst |-> inst, name |-> name]

For(call, type, inst, name) == [call EXCEPT !.type = type, !.inst = inst, !.name = name]

IsTable(call) == call.prot.kind \in {"column", "row"}

\* ToParentMixin.array_to_parent; elements of microformats have the name of their type.
ItemCalls(call) ==
    LET of == StripWrappers(call.type)
        micro == call.prot.kind = "micro"
    IN  IF ~IsA("list", call.inst) THEN <<>>
        ELSE [i \in DOMAIN call.inst.items |->
                 [For(call, of, call.inst.items[i], IF micro THEN <<of.name>> ELSE call.name)
                     EXCEPT !.fromArr = TRUE, !.index = IF micro THEN @ ELSE i - 1]]

\* Everything is written.
BadMembers(call, inst) == SortFields(call.prot, call.type.fields)

\* The fields of an object that are written: _write_members leaves out what has no value
\* and need not have one, tables do not.
Members(call, inst) ==
    SelectSeq(SortFields(call.prot, call.type.fields),
              LAMBDA f : LET attrs == AttrsOf(call.prot, f.type)
                         IN  /\ ~attrs.exc
                             /\ IsTable(call) \/ f.type.kind # "attribute"
                             /\ IsTable(call) \/ Attr(inst, f.name) # None \/ attrs.required)

\* Names in a table of columns tell the way from the root.
MemberCalls(call, inst) ==
    LET way == IF call.index = None THEN call.name ELSE Append(call.name, call.index)
        name(f) == IF call.prot.kind = "column" THEN Append(way, SubName(f)) ELSE <<SubName(f)>>
        member(f) == For(call, f.type, Attr(inst, f.name), name(f))
        fields == Members(call, inst)
    IN  [i \in DOMAIN fields |->
            IF IsTable(call) THEN [member(fields[i]) EXCEPT !.fromArr = FALSE] ELSE member(fields[i])]

\* get_serialization_instance; XmlCloth does without for the elements of arrays, and
\* tables and microformats always do.
SerializationInstance(call) ==
    LET type == call.type
        inst == call.inst
        fields == type.fields
    IN  IF call.prot.kind = "html" \/ (call.prot.kind = "xml" /\ ~call.fromArr)
        THEN IF type.kind = "array" THEN Object(type.name, fields[1].name :> inst)
             ELSE IF IsA("list", inst)
             THEN Object(type.name,
                         [k \in {fields[i].name : i \in DOMAIN inst.items \cap DOMAIN fields} |->
                             inst.items[CHOOSE i \in DOMAIN fields : fields[i].name = k]])
             ELSE inst
        ELSE inst

-----------------------------------------------------------------------------
(* XmlCloth, HtmlCloth and HtmlMicroFormat.                                   *)

\* gen_anchor of HtmlCloth, model_base_to_parent
Simple(call) ==
    LET prot == call.prot.kind
        link == call.type.kind = "uri"
        v == call.inst.v
        text == IF link THEN Node("a", call.name, v, <<>>) ELSE Node("text", <<>>, v, <<>>)
    IN  CASE ~IsA("text", call.inst) -> Fails
          [] prot = "xml" -> Written(<<Node("elt", call.name, v, <<>>)>>)
          [] prot = "micro" /\ ~link -> Written(<<Node("div", call.name, v, <<>>)>>)
          [] IsTable(call) /\ ~link /\ call.fromArr ->
                 Written(<<Node("tr", <<>>, None, <<Node("td", call.name, v, <<>>)>>)>>)
          [] OTHER -> Written(<<text>>)

\* _write_members: XmlData is written as it is.
WriteMembers(call, inst, parts) ==
    LET fields == Members(call, inst)
        data(v) == Written(IF v = None THEN <<>> ELSE <<Node("text", <<>>, v.v, <<>>)>>)
    IN  InTurn([i \in DOMAIN fields |->
                   IF fields[i].type.kind = "data" THEN data(Attr(inst, fields[i].name)) ELSE parts[i]],
               0)

\* complex_to_parent: that of XmlCloth does not keep the coroutine that writes the
\* members; HtmlMicroFormat has its own.
Complex(call, inst, parts) ==
    LET members == WriteMembers(call, inst, parts)
        dropped == Dropped(members)
        attrs == AttribDict(call.type, inst)
    IN  CASE call.prot.kind = "xml" ->
                 Element("elt", call.name, [dropped EXCEPT !.first = attrs \o @, !.done = attrs \o @])
          [] call.prot.kind = "html" ->
                 IF IsA("list", call.inst) /\ call.type.kind # "array"
                       /\ Len(call.inst.items) > Len(call.type.fields)
                 THEN Fails
                 ELSE Element("elt", call.name, members)
          [] OTHER -> Element("div", call.name, members)

\* What is pushed is not there when the array is begun.
Items(call, parts, own) ==
    LET all == InTurn(parts, own)
    IN  IF ~IsA("list", call.inst) THEN Fails
        ELSE IF call.inst.push THEN [all EXCEPT !.first = <<>>, !.waits = TRUE, !.open = own]
        ELSE all

\* HtmlMicroFormat.array_to_parent has an element of its own.
MicroArray(call, parts) ==
    LET items == Items(call, parts, 1)
        element(nodes) == <<Node("div", call.name, None, nodes)>>
    IN  [items EXCEPT !.first = element(@), !.done = element(@)]

-----------------------------------------------------------------------------
(* HtmlColumnTable.                                                          *)

Hidden(prot, type) == AttrsOf(prot, type).hidden

\* The links to the methods of a class carry the primary key.
MethodLinks(type, inst) ==
    LET keys == {f \in ToSet(type.fields) : f.type.key /\ Attr(inst, f.name) # None}
        key == [k \in {f.name : f \in keys} |-> Attr(inst, k).v]
    IN  IF type.methods = <<>> THEN <<>>
        ELSE <<Node("td", <<"mrpc-cell">>, None,
                    [i \in DOMAIN type.methods |-> Node("link", <<type.methods[i]>>, key, <<>>)])>>

Cell(call, field, part) == Hide(Element("td", <<SubName(field)>>, part), Hidden(call.prot, field.type))

\* _gen_row
GenRow(call, parts) ==
    LET fields == Members(call, call.inst)
        row == InTurn([i \in DOMAIN fields |-> Cell(call, fields[i], parts[i])], 1)
        end(nodes) == <<Node("tr", <<>>, None, nodes \o MethodLinks(call.type, call.inst))>>
    IN  [row EXCEPT !.first = <<Node("tr", <<>>, None, @)>>, !.done = end(@)]

Header(prot, type, name) ==
    [Node("th", name, Translated(type, name), <<>>) EXCEPT !.hidden = Hidden(prot, type)]

\* _gen_thead
GenHead(call) ==
    LET fields == Members(call, None)
        methods == IF call.type.methods = <<>> THEN <<>> ELSE <<Node("th", <<"mrpc-cell">>, None, <<>>)>>
    IN  Node("thead", <<>>, None,
             IF call.type.kind = "complex"
             THEN [i \in DOMAIN fields |-> Header(call.prot, fields[i].type, <<fields[i].name>>)] \o methods
             ELSE <<Node("th", call.name, Translated(call.type, call.name), <<>>)>>)

\* _gen_table
GenTable(call, rows) ==
    LET head == IF call.prot.header /\ call.type.header THEN <<GenHead(call)>> ELSE <<>>
        body == Element("tbody", <<>>, rows)
    IN  Element("table", <<call.type.name>>, [body EXCEPT !.first = head \o @, !.done = head \o @])

-----------------------------------------------------------------------------
(* HtmlRowTable.                                                             *)

WithHeader(call, header, cell) ==
    LET head == IF call.prot.header THEN <<header>> ELSE <<>>
    IN  Element("tr", <<>>, [cell EXCEPT !.first = head \o @, !.done = head \o @])

\* complex_model_to_parent
FieldRows(call, parts) ==
    LET fields == Members(call, call.inst)
        rows == InTurn([i \in DOMAIN fields |->
                           WithHeader(call, Header(call.prot, fields[i].type, <<SubName(fields[i])>>),
                                      Cell(call, fields[i], parts[i]))],
                       2)
        table(nodes) == <<Node("table", <<call.type.name>>, None, <<Node("tbody", <<>>, None, nodes)>>)>>
    IN  [rows EXCEPT !.first = table(@), !.done = table(@)]

\* HtmlRowTable.array_to_parent
RowArray(call, items) ==
    LET header == Node("th", <<>>, Translated(call.type, <<call.type.name>>), <<>>)
        cell == Hide(Element("td", call.name, Element("table", <<>>, items)), Hidden(call.prot, call.type))
    IN  Element("div", <<>>,
                IF call.type.kind = "complex" THEN items
                ELSE Element("table", call.name, WithHeader(call, header, cell)))

-----------------------------------------------------------------------------
(* ToParentMixin.to_parent.                                                  *)

IsArray(call) ==
    \/ call.type.many /\ ~call.fromArr
    \/ call.type.kind = "array" /\ call.prot.kind = "micro"

\* The call with the class, the protocol and the value that are found: a protocol that a
\* value has been through is not switched to again.
Resolve(call) ==
    LET target == PolymorphicTarget(call.type, call.inst)
        switched == IF target.prot = None \/ target.prot \in call.stack THEN call
                    ELSE [call EXCEPT !.prot = target.prot, !.stack = @ \cup {target.prot}]
        inst == IF call.inst = None THEN target.default ELSE call.inst
    IN  For(switched, IF switched.prot.ignoreWrappers THEN StripWrappers(target) ELSE target,
            inst, call.name)

\* What is written below.
CallsBelow(call) ==
    CASE call.inst = None -> <<>>
      [] IsArray(call) -> ItemCalls(call)
      [] call.type.kind \in {"complex", "array"} -> MemberCalls(call, SerializationInstance(call))
      [] OTHER -> <<>>

\* null_to_parent: HtmlMicroFormat returns an element instead of writing it.
Null(call) ==
    Written(IF call.prot.kind = "xml" THEN <<Node("nil", call.name, None, <<>>)>> ELSE <<>>)

Handle(call, parts) ==
    LET prot == call.prot.kind
        items == Items(call, parts, 0)
        rows == IF IsArray(call) THEN items ELSE GenRow(call, parts)
    IN  CASE call.inst = None -> Null(call)
          [] IsArray(call) /\ prot \in {"xml", "html"} -> items
          [] IsArray(call) /\ prot = "micro" -> MicroArray(call, parts)
          [] IsArray(call) /\ prot = "row" -> RowArray(call, items)
          [] ~IsArray(call) /\ call.type.kind \notin {"complex", "array"} -> Simple(call)
          [] prot = "column" -> IF call.fromArr /\ ~IsArray(call) THEN rows ELSE GenTable(call, rows)
          [] prot = "row" -> FieldRows(call, parts)
          [] OTHER -> Complex(call, SerializationInstance(call), parts)

RECURSIVE ToParent(_)
ToParent(declared) ==
    LET call == Resolve(declared)
        below == CallsBelow(call)
    IN  Handle(call, [i \in DOMAIN below |-> ToParent(below[i])])

\* serialize, _incgen and subserialize: the result of a method whose message has one
\* part for each value that is returned.
Serialize(prot, message, style, returned) ==
    LET strip == StripWrappers(IF Len(message.fields) = 1 THEN Item(message) ELSE message)
        fields == message.fields
        whole == Object(message.name, [k \in {fields[i].name : i \in DOMAIN fields} |->
                                          returned[CHOOSE i \in DOMAIN fields : fields[i].name = k]])
        call(type, inst) == NewCall(prot, type, inst, <<message.name>>)
    IN  ToParent(CASE style = "bare" -> call(message, returned[1])
                   [] prot.ignoreWrappers -> call(strip, returned[1])
                   [] OTHER -> call(message, whole))
=============================================================================
