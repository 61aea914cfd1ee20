------------------------------ MODULE Documents ------------------------------
(***************************************************************************)
(* The algorithms of spyne/protocol that turn instances into documents and   *)
(* back, applied to every input of a small set.                              *)
(***************************************************************************)
EXTENDS DictDocuments, XmlTree, Cloth, Messages, Integers

CONSTANTS
    FlatInstances,  \* classes whose instances are made flat
    FlatDocs,       \* flat documents: [class, doc]
    ArrayDocs,      \* flat documents with an array of objects: [class, doc]
    HierClasses,    \* classes whose instances are made hierarchical documents
    HierProts,
    HierDocs,       \* hierarchical documents: [class, doc]
    XmlClasses,     \* classes whose instances are made elements
    XmlDocs,        \* elements: [class, doc]
    ClothTypes,     \* types of what is written into templates
    ClothInsts,     \* their instances
    Cloths,         \* templates
    Classes,        \* those of the objects that are written as markup
    MarkupProts,    \* protocols
    MarkupFields,   \* pairs of fields, [name, type, values], of what is written as markup
    Orders          \* places of fields

Mk == INSTANCE Markup

\* A method whose one result is an object of two fields, as it is or in its message, or
\* an array of two of them, the second of which lacks a field.
MarkupInput(prot, fields, shape, v) ==
    LET member(f) == [name |-> f.name, type |-> f.type]
        class == [Classes["C"] EXCEPT !.fields = <<member(fields[1]), member(fields[2])>>]
        object(values) == Mk!Object("C", fields[1].name :> values[1] @@ fields[2].name :> values[2])
        many == <<object(v), object([v EXCEPT ![2] = None])>>
        array == [class EXCEPT !.kind = "array", !.name = "CArray",
                               !.fields = <<[name |-> "C", type |-> [class EXCEPT !.many = TRUE]]>>]
        message(type) == [class EXCEPT !.name = "Response", !.fields = <<[name |-> "Result", type |-> type]>>]
    IN  [prot |-> prot, style |-> IF shape = "bare" THEN "bare" ELSE "wrapped",
         message |-> CASE shape = "bare" -> class
                       [] shape = "object" -> message(class)
                       [] OTHER -> message(array),
         returned |-> <<IF shape \in {"list", "push"} THEN Mk!List(shape = "push", many) ELSE object(v)>>]

Init ==
    /\ output = None
    /\ \/ /\ job = "flatten"
          /\ input \in UNION {{[class |-> c, inst |-> i] : i \in Instances(c)} :
                                 c \in FlatInstances}
       \/ /\ job = "unflatten"
          /\ input \in FlatDocs
       \/ /\ job = "arrays"
          /\ input \in ArrayDocs
       \/ /\ job = "hier"
          /\ input \in UNION {{[class |-> c, inst |-> i, prot |-> p] : i \in Instances(c)} :
                                 c \in HierClasses, p \in HierProts}
       \/ /\ job = "hierdoc"
          /\ input \in HierDocs
       \/ /\ job = "xml"
          /\ input \in UNION {{[class |-> c, inst |-> i, polymorphic |-> p] : i \in Instances(c)} :
                                 c \in XmlClasses, p \in BOOLEAN}
       \/ /\ job = "xmldoc"
          /\ input \in XmlDocs
       \/ /\ job = "cloth"
          /\ input \in [type : ClothTypes, inst : ClothInsts, cloth : Cloths]
       \/ /\ job = "markup"
          /\ \E prot \in MarkupProts, fields \in MarkupFields, shape \in {"bare", "object", "list", "push"} :
                \E v \in fields[1].values \X fields[2].values :
                   /\ shape # "bare" => None \notin {v[1], v[2]}
                   /\ input = MarkupInput(prot, fields, shape, v)
       \/ /\ job = "sort"
          /\ input \in Orders
       \/ MessagesInit

\* A flat document is read: the one that an instance is sent as, one that is validated,
\* or one of an array, with strict_arrays as well as without.
ReadFlat ==
    /\ \E j \in {"flatten", "unflatten", "arrays"} : Does(j)
    /\ LET doc == IF job = "flatten" THEN ObjectToSimpleDict(input.class, input.inst, <<>>)
                  ELSE input.doc
       IN  output' = [strict \in IF job = "arrays" THEN BOOLEAN ELSE {FALSE} |->
                         SimpleDictToObject(input.class, doc, strict, job # "arrays")]

Nest ==
    /\ Does("hier")
    /\ output' = DocToObject(input.prot, input.class,
                    ObjectToDoc(input.prot, input.class, input.inst), TRUE)

ReadDict ==
    /\ Does("hierdoc")
    /\ output' = DocToObject([ignoreWrappers |-> TRUE, asList |-> FALSE],
                    input.class, input.doc, TRUE)

MakeElement ==
    /\ Does("xml")
    /\ LET prot == [polymorphic |-> input.polymorphic, soft |-> TRUE]
       IN  output' = FromElement(prot, input.class,
                       ToElement(prot, "body", input.class, input.inst))

ReadElement ==
    /\ Does("xmldoc")
    /\ output' = FromElement([soft |-> TRUE], input.class, input.doc)

Render ==
    /\ Does("cloth")
    /\ output' = Subserialize(input.cloth, input.type, input.inst)

WriteMarkup ==
    /\ Does("markup")
    /\ output' = Mk!Serialize(input.prot, input.message, input.style, input.returned)

\* The fields are sorted by their order attributes.
Sort ==
    /\ Does("sort")
    /\ output' = Mk!SortFields([kind |-> "xml"], input)

Next ==
    \/ MessagesNext
    \/ Render \/ WriteMarkup \/ Sort
    \/ ReadFlat \/ Nest \/ ReadDict
    \/ MakeElement \/ ReadElement

Spec == Init /\ [][Next]_vars

-----------------------------------------------------------------------------
(* Flat documents.                                                          *)

\* What a flat document can carry: an object none of whose members is set has no
\* key, and is lost with the array that holds nothing else.
RECURSIVE Carried(_, _)
Carried(c, inst) ==
    LET unset(i) == \A k \in DOMAIN i : i[k] = None
        member(f, v) ==
            IF v = None \/ f.type = Simple \/ v = <<>> THEN v
            ELSE IF MaxOccurs(f) = 1
            THEN LET i == Carried(f.type, v) IN IF unset(i) THEN None ELSE i
            ELSE LET kept == SelectSeq([i \in DOMAIN v |-> Carried(f.type, v[i])],
                                       LAMBDA i : ~unset(i))
                 IN  IF kept = <<>> THEN None ELSE kept
    IN  [k \in Names(c) |-> member(Field(c, k), inst[k])]

\* The classes that are met below a class, as often as they are.
RECURSIVE Below(_)
Below(c) == FoldLeft(LAMBDA all, f : IF f.type = Simple THEN all
                                     ELSE all \o <<f.type>> \o Below(f.type),
                     <<>>, FlatTypeInfo[c])

\* Part of an instance: some of its members are not set.
RECURSIVE PartOf(_, _, _)
PartOf(c, part, inst) ==
    \A k \in Names(c) :
        LET f == Field(c, k)
        IN  \/ part[k] = None
            \/ part[k] = inst[k]
            \/ inst[k] # None /\ f.type # Simple /\ MaxOccurs(f) = 1
                  /\ PartOf(f.type, part[k], inst[k])

\* An instance that respects its occurrences comes back from a flat document as
\* far as that can carry it.  When a class occurs twice below the root the
\* members of the second one are left out, in silence, but nothing else changes.
FlatRoundTrip ==
    Done("flatten") =>
        LET carried == Carried(input.class, input.inst)
        IN  /\ IsInjective(Below(input.class)) =>
                  output[FALSE] = [obj |-> carried, ok |-> TRUE]
            /\ PartOf(input.class, output[FALSE].obj, carried)

\* The indexes of an array in a document, and its elements by index.
Indexes(doc) == {key[1].index : key \in DOMAIN doc}
Ascending(s) == InOrder(s, LAMBDA i, j : i < j)

\* Without strict_arrays the elements are in the order of their indexes, whatever
\* the gaps between these, and each has the members of its own index.
SparseInOrder ==
    Done("arrays") =>
        LET order == Ascending(Indexes(input.doc))
            f == FlatTypeInfo[input.class][1]
            member(n, k) ==
                LET key == <<Step(f.name, n), Step(k, NoIndex)>>
                IN  IF key \in DOMAIN input.doc THEN input.doc[key][1] ELSE None
        IN  /\ output[FALSE].ok
            /\ order # <<>> =>
                  output[FALSE].obj[f.name] =
                      [i \in DOMAIN order |->
                         [k \in Names(f.type) |-> member(order[i], k)]]

\* strict_arrays takes no array with a gap, but one before the first element, and
\* then it agrees with the other mode.  It refuses arrays without a gap as well,
\* as soon as the order of the texts of their indexes is another than their own.
StrictHasNoGap ==
    Done("arrays") =>
        LET all == Indexes(input.doc)
            gapless == all = 0 .. Cardinality(all) - 1
            inOrder == \A i, j \in DOMAIN IndexOrder :
                          (i < j /\ {IndexOrder[i], IndexOrder[j]} \subseteq all)
                             => IndexOrder[i] < IndexOrder[j]
        IN  /\ output[TRUE].ok => gapless \/ all \cup {0} = 0 .. Cardinality(all)
            /\ output[TRUE].ok /\ gapless => output[TRUE] = output[FALSE]
            /\ gapless => (output[TRUE].ok <=> inOrder)

\* The objects of a document: the prefixes of its keys.
Objects(doc) ==
    {<<>>} \cup UNION {{SubSeq(key, 1, n) : n \in 1 .. Len(key) - 1} : key \in DOMAIN doc}

RECURSIVE ClassAt(_, _)
ClassAt(c, steps) ==
    IF steps = <<>> THEN c ELSE ClassAt(Field(c, steps[1].name).type, Tail(steps))

\* Soft validation accepts a document when every object of it has each of its
\* members as often as its class says, counting the values of a simple one and
\* the different indexes of an object.
FlatOccurrences ==
    Done("unflatten") =>
        LET times(o, f) ==
                LET keys == {key \in DOMAIN input.doc :
                               /\ IsStrictPrefix(o, key)
                               /\ key[Len(o) + 1].name = f.name}
                IN  IF f.type = Simple
                    THEN FoldSet(LAMBDA key, n : n + Len(input.doc[key]), 0, keys)
                    ELSE Cardinality({key[Len(o) + 1] : key \in keys})
        IN  output[FALSE].ok <=>
                \A o \in Objects(input.doc) : \A f \in FieldsOf(ClassAt(input.class, o)) :
                    times(o, f) \in MinOccurs(f) .. MaxOccurs(f)

-----------------------------------------------------------------------------
(* Hierarchical documents and elements.                                     *)

\* An instance as its declared class has it.
RECURSIVE AsDeclared(_, _)
AsDeclared(c, inst) ==
    [k \in Names(c) |->
        LET f == Field(c, k)
            v == inst[k]
        IN  IF v = None \/ f.type = Simple THEN v
            ELSE IF MaxOccurs(f) > 1 THEN [i \in DOMAIN v |-> AsDeclared(f.type, v[i])]
            ELSE AsDeclared(f.type, v)]

\* The objects of an instance: <<class, instance>>.
RECURSIVE Parts(_, _)
Parts(declared, inst) ==
    LET c == ClassOf(declared, inst)
    IN  {<<c, inst>>} \cup UNION
          {LET v == inst[f.name]
           IN  IF v = None \/ f.type = Simple THEN {}
               ELSE IF MaxOccurs(f) > 1 THEN UNION {Parts(f.type, v[i]) : i \in DOMAIN v}
               ELSE Parts(f.type, v) : f \in FieldsOf(c)}

\* An instance comes back from a dict, as an instance of the declared class unless
\* the document is polymorphic and has wrappers, which name the class.  It comes
\* back from a list when all of its members that are no simple values are set,
\* and never when wrappers are expected around lists, which have none.
HierRoundTrip ==
    Done("hier") =>
        LET prot == input.prot
            declared == AsDeclared(input.class, input.inst)
            expected == IF prot.polymorphic /\ ~prot.ignoreWrappers THEN input.inst
                        ELSE declared
            holes == \E p \in Parts(input.class, declared) : \E f \in FieldsOf(p[1]) :
                        p[2][f.name] = None /\ (f.type # Simple \/ MaxOccurs(f) > 1)
        IN  (output = Ok(expected)) <=> (prot.asList => prot.ignoreWrappers /\ ~holes)

\* In the objects of a dict each member that is required is there.
RECURSIVE Complete(_, _)
Complete(c, d) ==
    \A f \in FieldsOf(c) :
        IF f.name \notin DOMAIN d THEN MinOccurs(f) = 0
        ELSE /\ MinOccurs(f) <= 1
             /\ IF f.type = Simple THEN TRUE
                ELSE IF MaxOccurs(f) > 1
                THEN \A i \in DOMAIN d[f.name] : Complete(f.type, d[f.name][i])
                ELSE Complete(f.type, d[f.name])

\* Soft validation of a dict tells whether required members are missing, at every
\* depth.  The elements of a list are not counted: it may have more of them than
\* max_occurs allows, and min_occurs of 2 or more is never met.
HierOccurrences ==
    Done("hierdoc") => (output.ok <=> Complete(input.class, input.doc))

\* What an element holds of an instance: an empty list of elements is none.
RECURSIVE InElement(_, _)
InElement(c, inst) ==
    [k \in Names(c) |->
        LET f == Field(c, k)
            v == inst[k]
        IN  IF v = None \/ (f.type = Simple /\ v # <<>>) THEN v
            ELSE IF v = <<>> THEN IF f.array THEN v ELSE None
            ELSE IF MaxOccurs(f) > 1
            THEN [i \in DOMAIN v |-> InElement(ClassOf(f.type, v[i]), v[i])]
            ELSE InElement(ClassOf(f.type, v), v)]

\* An instance comes back from an element, with the classes of its parts if they
\* are told, unless an attribute of a part has the name of a member of the whole.
\* A required attribute makes soft validation refuse the element of a class.
XmlRoundTrip ==
    Done("xml") =>
        LET inst == IF input.polymorphic THEN input.inst
                    ELSE AsDeclared(input.class, input.inst)
            parts == Parts(input.class, inst)
            signed(p) == {f.name : f \in {g \in FieldsOf(p[1]) :
                                           g.attribute /\ p[2][g.name] # None}}
            mixed == \E p \in parts, f \in UNION {FieldsOf(q[1]) : q \in parts} :
                        /\ f.type # Simple /\ ~f.array
                        /\ \E q \in parts : /\ f \in FieldsOf(q[1])
                                            /\ p[1] \in {f.type} \cup Subclasses[f.type]
                                            /\ signed(p) \cap Names(q[1]) # {}
            required == \E p \in parts : \E f \in FieldsOf(p[1]) : f.attribute /\ f.min > 0
        IN  IF required THEN output = Error
            ELSE mixed \/ output = Ok(InElement(input.class, inst))

\* Soft validation of an element counts the elements of each member, at every depth.
RECURSIVE Counts(_, _)
Counts(c, e) ==
    \A f \in FieldsOf(c) :
        LET found == SelectSeq(e.sub, LAMBDA d : d.tag = f.name)
        IN  /\ Len(found) >= f.min
            /\ Len(found) <= f.max
            /\ f.type # Simple => \A i \in DOMAIN found : Counts(f.type, found[i])

\* An element is accepted when each of its members, and of those of the elements
\* below, is there as often as the class says.
XmlOccurrences ==
    Done("xmldoc") => (output.ok <=> Counts(input.class, input.doc))

-----------------------------------------------------------------------------
(* Cloths.                                                                  *)

\* The places of fields that are entered for an object whose cloth is a.
Places(t, type, a) ==
    {d \in ToSet(OutmostElts(t, a)) :
        LET k == CHOOSE k \in {t[d].id, t[d].attr, t[d].data} : k # None /\ (t[d].id # None => k = t[d].id)
        IN  k \in DOMAIN type.fields => ~type.fields[k].exc}

Touched(t, places, e) == \E d \in places : d = e \/ IsUnder(t, d, e)

RECURSIVE Fill(_, _, _, _, _), FillBelow(_, _, _, _, _), Filled(_, _, _, _)

Tagged(e, first, inner) ==
    <<Event("open", e)>> \o first \o <<Event("text", e)>> \o inner
        \o <<Event("close", e), Event("tail", e)>>

\* The children of an element, none of which is there without a place.
FillBelow(t, places, type, inst, e) ==
    LET inner == Children(t, e)
    IN  IF \E i \in DOMAIN inner : Touched(t, places, inner[i])
        THEN FlattenSeq([i \in DOMAIN inner |->
                IF Touched(t, places, inner[i]) THEN Fill(t, places, type, inst, inner[i])
                ELSE Whole(t, inner[i])])
        ELSE <<>>

Fill(t, places, type, inst, e) ==
    LET inner == FillBelow(t, places, type, inst, e)
        value(k) == IF k \in DOMAIN type.fields THEN inst[k] ELSE None
    IN  IF e \notin places THEN Tagged(e, <<>>, inner)
        ELSE IF t[e].id # None
        THEN IF t[e].id \notin DOMAIN type.fields THEN <<>>
             ELSE IF t[e].tag /\ value(t[e].id) # None THEN <<Event("value", value(t[e].id))>>
             ELSE Filled(t, type.fields[t[e].id], value(t[e].id), e)
        ELSE IF t[e].attr # None
        THEN IF value(t[e].attr) = None THEN inner
             ELSE Tagged(e, <<Event("attr", value(t[e].attr))>>, inner)
        ELSE IF value(t[e].data) = None THEN inner
        ELSE <<Event("value", value(t[e].data))>> \o inner

\* A value in its place.
Filled(t, type, v, e) ==
    IF v = None THEN IF type.required THEN Tagged(e, <<>>, Whole(t, e)) ELSE <<>>
    ELSE IF type.kind = "simple" THEN Tagged(e, <<>>, <<Event("value", v)>>)
    ELSE IF type.kind = "array" THEN FlattenSeq([i \in DOMAIN v |-> Filled(t, type.of, v[i], e)])
    ELSE LET inner == FillBelow(t, Places(t, type, e), type, v, e)
             data == t[e].data
         IN  IF data = None THEN Tagged(e, <<>>, inner)
             ELSE IF v[data] = None THEN Tagged(e, <<>>, <<>>) \o inner
             ELSE Tagged(e, <<>>, <<Event("value", v[data])>> \o inner)

IsDouble(i) == i > 1 /\ output[i].kind = "tail" /\ output[i] = output[i - 1]

\* Each field is in its place and what is around the places is copied once and in
\* order, but for the tails of the elements behind the last one that is entered,
\* which are written twice.  A place whose field has no value is left out with its
\* tail, and an object whose own data is not set is closed before its fields come.
ClothFilled ==
    Done("cloth") =>
        LET single == SelectSeq([i \in DOMAIN output |-> i], LAMBDA i : ~IsDouble(i))
        IN  /\ [i \in DOMAIN single |-> output[single[i]]] =
                  Filled(input.cloth, input.type, input.inst, 1)
            /\ \A i \in DOMAIN output : IsDouble(i) =>
                  \A j \in i .. Len(output) : output[j].kind \notin {"value", "attr"}

-----------------------------------------------------------------------------
(* Markup.                                                                  *)

\* The images of the elements of a sequence.
Each(seq, Image(_)) == [i \in DOMAIN seq |-> Image(seq[i])]

\* The values that a document shows, in order.
RECURSIVE Texts(_)
Texts(nodes) ==
    LET texts(n) ==
            (IF n.tag \in {"text", "elt", "a", "div", "td", "@"} /\ n.text # None
             THEN <<n.text>> ELSE <<>>) \o Texts(n.sub)
    IN  Mk!Together(Each(nodes, texts))

\* The members of an object that a protocol shows: only tables show what is not set
\* as its default when it need not be, and only XML and tables show attributes.
Members(prot, type, inst) ==
    LET shown(f, attrs) ==
            /\ ~attrs.exc
            /\ \/ prot.kind \in {"column", "row"}
               \/ f.type.kind # "attribute" /\ (attrs.required \/ Mk!Attr(inst, f.name) # None)
        outside(f) == prot.kind = "xml" /\ f.type.kind = "attribute"
    IN  SelectSeq(type.fields, outside)
        \o SelectSeq(Mk!SortFields(prot, type.fields),
                     LAMBDA f : shown(f, Mk!AttrsOf(prot, f.type)))

\* A value with the class and the protocol that write it.
View(above, declared, sent) ==
    LET type == Mk!PolymorphicTarget(declared, sent)
        view == [above EXCEPT !.type = type, !.inst = IF sent = None THEN type.default ELSE sent]
    IN  IF type.prot = None \/ type.prot \in above.stack THEN view
        ELSE [view EXCEPT !.prot = type.prot, !.stack = @ \cup {type.prot}]

\* What it consists of.
Consists(view, inst) ==
    CASE inst = None \/ Mk!IsA("text", inst) -> <<>>
      [] Mk!IsA("list", inst) ->
             [i \in DOMAIN inst.items |->
                 View(view, IF view.type.kind = "array" THEN Mk!Item(view.type) ELSE view.type, inst.items[i])]
      [] OTHER ->
             LET member(f) == View(view, f.type, Mk!Attr(inst, f.name))
             IN  Each(Members(view.prot, view.type, inst), member)

\* The values below one, whatever they are written as.
RECURSIVE Shown(_)
Shown(view) ==
    IF Mk!IsA("text", view.inst) THEN <<view.inst.v>>
    ELSE LET shown(part) == Shown(part)
         IN  Mk!Together(Each(Consists(view, view.inst), shown))

\* A list, and those below a value, with what is above each of them, from the inside out.
ListOf(view, wrapped) ==
    [push |-> view.inst.push, prot |-> view.prot.kind, wrapped |-> wrapped,
     above |-> IF wrapped /\ ~view.prot.ignoreWrappers THEN <<view.prot.kind>> ELSE <<>>]

RECURSIVE Lists(_)
Lists(view) ==
    LET list == Mk!IsA("list", view.inst)
        below(l) == [l EXCEPT !.above = Append(@, IF list THEN "list" ELSE view.prot.kind)]
        lists(part) == Each(Lists(part), below)
    IN  (IF list THEN <<ListOf(view, view.type.kind = "array")>> ELSE <<>>)
        \o Mk!Together(Each(Consists(view, view.inst), lists))

Pushes(lists) == SelectSeq(lists, LAMBDA l : l.push)

\* Where an element of a list is written its members are too, but for those of an object
\* in a table: a list there is not taken for one.  Microformats do not mistake arrays.
Swallowed(l) ==
    /\ \E i \in DOMAIN l.above :
          /\ l.above[i] = "list"
          /\ \A j \in 1 .. i : l.above[j] \notin {"column", "row"}
    /\ ~(l.prot = "micro" /\ l.wrapped)

\* What a method with one result returns, as its message says it.
Returned(x) ==
    LET one == Mk!Item(x.message)
        whole == Mk!Object(x.message.name, x.message.fields[1].name :> x.returned[1])
        root == [prot |-> x.prot, stack |-> {x.prot}, type |-> None, inst |-> None]
    IN  CASE x.style = "bare" -> View(root, x.message, x.returned[1])
          [] x.prot.ignoreWrappers -> View(root, one, x.returned[1])
          [] OTHER -> View(root, x.message, whole)

\* Every value that is to be shown is, once and in order.  That is so while nothing is
\* pushed below an object that XmlCloth writes, which is closed where the push begins; as
\* long as no more than one member is pushed; and unless a list lies in an element of
\* another.
MarkupComplete ==
    Done("markup") =>
        LET x == Returned(input)
            lists == Lists(x)
            pushes == Pushes(lists)
            dropped == \E i \in DOMAIN pushes : "xml" \in ToSet(pushes[i].above)
            swallowed == \E i \in DOMAIN lists : Swallowed(lists[i])
        IN  (Len(pushes) <= 1 /\ ~dropped /\ ~swallowed) =>
                /\ ~output.fails
                /\ Texts(output.done) = Shown(x)

\* What is shown is never more, nor in another order.
MarkupInOrder ==
    Done("markup") =>
        LET x == Returned(input)
            shown == Shown(x)
            next(n, v) == Min({i \in n + 1 .. Len(shown) : shown[i] = v} \cup {Len(shown) + 1})
        IN  output.fails \/ FoldLeft(next, 0, Texts(output.done)) <= Len(shown)

\* The tables of a document.
RECURSIVE Tables(_)
Tables(nodes) ==
    UNION {(IF nodes[i].tag = "table" THEN {nodes[i]} ELSE {}) \cup Tables(nodes[i].sub) : i \in DOMAIN nodes}

\* A row of a table of columns has a cell below each header, hidden where that is; only
\* the rows of objects of a subclass may have more or others.
ColumnsAligned ==
    (Done("markup") /\ ~output.fails) =>
        \A table \in Tables(output.done) :
            (Len(table.sub) = 2 /\ table.name \in {<<c>> : c \in DOMAIN Classes}
               /\ \A c \in DOMAIN Classes : table.name[1] \notin Classes[c].bases) =>
                LET head == table.sub[1].sub
                    rows == table.sub[2].sub
                IN  \A i \in DOMAIN rows :
                        /\ Len(rows[i].sub) = Len(head)
                        /\ \A k \in DOMAIN head : rows[i].sub[k].hidden = head[k].hidden

\* Sorting keeps the fields.  Those with a place come in the order of their places, the
\* others in the order they were declared; and one field alone that has a place is at
\* it, unless it was declared before the one that is there otherwise.
FieldsSorted ==
    Done("sort") =>
        LET n == Len(input)
            order(f) == f.type.order
            placed == {i \in DOMAIN input : order(input[i]) # None}
            at(i) == CHOOSE j \in DOMAIN output : output[j] = input[i]
            place(i) == IF order(input[i]) < 0 THEN n + order(input[i]) ELSE order(input[i])
        IN  /\ DOMAIN output = DOMAIN input
            /\ ToSet(output) = ToSet(input)
            /\ \A i, j \in DOMAIN input :
                   \/ i \in placed /\ j \in placed /\ place(i) < place(j)
                   \/ i \notin placed /\ j \notin placed /\ i < j
                   => at(i) < at(j)
            /\ \A i \in placed :
                   (placed = {i} /\ place(i) \in 0 .. n - 1) =>
                       at(i) - 1 = IF place(i) > 0 /\ i <= place(i) THEN place(i) - 1 ELSE place(i)

-----------------------------------------------------------------------------

\* The elements of a flat document's array come in the order of their indexes,
\* with gaps closed or refused.
ArraysInOrder == SparseInOrder /\ StrictHasNoGap

\* Flat documents, hierarchical ones and elements bring instances back, and cloths and
\* markup show them.
RoundTrips ==
    /\ FlatRoundTrip /\ HierRoundTrip /\ XmlRoundTrip /\ ClothFilled
    /\ MarkupComplete /\ MarkupInOrder /\ ColumnsAligned /\ FieldsSorted

\* Soft validation counts members, as far as each protocol does.
Occurrences == FlatOccurrences /\ HierOccurrences /\ XmlOccurrences
=============================================================================
