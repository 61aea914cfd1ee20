------------------------------- MODULE Classes -------------------------------
(***************************************************************************)
(* The types a program makes while its modules are imported, and the names    *)
(* and namespaces they get when it is started: class statements with bases,   *)
(* mixins and references of a class to itself, Array, XmlAttribute, XmlData,  *)
(* Mandatory and customize of spyne/model/complex.py and _base.py, and         *)
(* resolve_namespace.                                                       *)
(*                                                                         *)
(* Types are objects that share each other: a heap [types, bodies, variants,  *)
(* made, ok] holds them under their numbers.  made is the type of the last    *)
(* statement, ok is FALSE after one that raised.  bodies are the lists of     *)
(* members whose values are the text of an element, which classes share as    *)
(* well.  variants are the dicts Attributes._variants, of the classes that    *)
(* have one of their own; a variant has None, here an empty one.              *)
(***************************************************************************)
EXTENDS Nothing, SequencesExt, Naturals

Unnamed == <<"Empty">>           \* ModelBase.Empty
Unset == "unset"                 \* an attribute that is looked up in the base
DefaultNs == "tns"               \* the namespace of the interface

\* Types have a kind: simple, complex, array, attribute, data, or self for a
\* SelfReference.  bases are the Python classes they were made from, of is the type
\* that a modifier modifies.
NewType(kind, name, ns) ==
    [kind |-> kind, name |-> name, ns |-> ns, module |-> "model", orig |-> 0, bases |-> <<>>,
     extends |-> 0, default |-> TRUE, mixin |-> FALSE, of |-> 0, body |-> 0,
     options |-> <<>>, fields |-> <<>>, alt |-> <<>>]

Unicode == 1
SelfReference == 2
NewHeap ==
    [types |-> <<NewType("simple", <<"string">>, "xsd"), NewType("self", <<>>, None)>>,
     bodies |-> <<>>, variants |-> <<>>, made |-> 0, ok |-> TRUE]

Raise(h) == [h EXCEPT !.ok = FALSE]
Make(h, t) == [h EXCEPT !.types = Append(@, t), !.made = Len(h.types) + 1]

Root(h, t) == IF h.types[t].orig = 0 THEN t ELSE h.types[t].orig

\* Attributes: what was given, here or to what a type was made from.
Option(h, t, k, absent) ==
    IF k \in DOMAIN h.types[t].options THEN h.types[t].options[k] ELSE absent
Many(h, t) == Option(h, t, "max_occurs", 1) # 1

\* The constraints that make a simple type one of its own, see is_default.
Constraints == {"max_len", "min_len"}

RECURSIVE GetNamespace(_, _), GetTypeName(_, _)
GetNamespace(h, t) ==
    CASE h.types[t].kind = "data" -> GetNamespace(h, h.types[t].of)
      [] h.types[t].ns = Unset ->
            LET set == SelectSeq(h.types[t].bases, LAMBDA b : GetNamespace(h, b) # None)
            IN  IF set = <<>> THEN None ELSE GetNamespace(h, Head(set))
      [] OTHER -> h.types[t].ns
GetTypeName(h, t) ==
    IF h.types[t].kind = "data" THEN GetTypeName(h, h.types[t].of) ELSE h.types[t].name

-----------------------------------------------------------------------------
(* Dicts with an order.                                                     *)

Member(k, t) == [name |-> k, type |-> t]
FieldNames(fields) == [i \in DOMAIN fields |-> fields[i].name]
HasField(fields, k) == k \in ToSet(FieldNames(fields))
FieldType(fields, k) == fields[CHOOSE i \in DOMAIN fields : fields[i].name = k].type
SetField(fields, f) ==
    IF HasField(fields, f.name)
    THEN [i \in DOMAIN fields |-> IF fields[i].name = f.name THEN f ELSE fields[i]]
    ELSE Append(fields, f)
InsertField(fields, index, f) ==
    LET others == SelectSeq(fields, LAMBDA g : g.name # f.name)
    IN  InsertAt(others, 1 + (IF index > Len(others) THEN Len(others) ELSE index), f)

\* _get_flat_type_info
RECURSIVE FlatTypeInfo(_, _)
FlatTypeInfo(h, c) ==
    IF c = 0 THEN <<>>
    ELSE FoldLeft(SetField, FlatTypeInfo(h, h.types[c].extends), h.types[c].fields)

-----------------------------------------------------------------------------
(* Customization.                                                           *)

\* SimpleModel.customize, which resolves the namespace at once.
CustomizeSimple(h, t, new) ==
    LET old == h.types[t]
        default == old.default /\ DOMAIN new \cap Constraints = {}
        leaves == GetNamespace(h, t) = "xsd" /\ ~default
    IN  Make(h, [old EXCEPT !.orig = Root(h, t), !.bases = <<t>>, !.default = default,
                            !.extends = IF default THEN @ ELSE t,
                            !.name = CASE default -> @
                                       [] "type_name" \in DOMAIN new -> new["type_name"]
                                       [] OTHER -> Unnamed,
                            !.ns = IF leaves THEN old.module ELSE Unset,
                            !.options = new @@ @])

\* SelfReference.customize: what was given first stays.
CustomizeSelf(h, t, new) ==
    Make(h, [h.types[t] EXCEPT !.orig = Root(h, t), !.bases = <<t>>, !.options = @ @@ new])

CustomizeModifier(h, t, new) ==
    Make(h, [h.types[t] EXCEPT !.orig = Root(h, t), !.bases = <<t>>, !.ns = Unset, !.options = new @@ @])

RECURSIVE Customize(_, _, _), CustomizeClass(_, _, _, _)

\* _process_child_attrs with child_attrs: the members of the class, then what is left
\* for its base.  The other names of members stay as they were.
ChildAttrs(h, c, attrs) ==
    LET own == DOMAIN attrs \cap ToSet(FieldNames(h.types[c].fields))
        left == [k \in DOMAIN attrs \ own |-> attrs[k]]
        changed ==
            FoldLeft(LAMBDA g, k :
                        LET f == Customize(g, FieldType(g.types[c].fields, k), attrs[k])
                        IN  [f EXCEPT !.types[c].fields = SetField(@, Member(k, f.made))],
                     h, SelectSeq(FieldNames(h.types[c].fields), LAMBDA k : k \in own))
        extends == h.types[c].extends
        base == CustomizeClass(changed, extends, <<>>, left)
    IN  IF extends = 0 THEN changed ELSE [base EXCEPT !.types[c].extends = base.made]

\* The class whose Attributes have the _variants that are found for c: Attributes
\* extend those of the first base.
RECURSIVE Keeper(_, _)
Keeper(h, c) ==
    IF c \in DOMAIN h.variants \/ h.types[c].bases = <<>> THEN c
    ELSE Keeper(h, Head(h.types[c].bases))
Variants(h, c) ==
    LET k == Keeper(h, c) IN IF k \in DOMAIN h.variants THEN h.variants[k] ELSE {}

\* _process_variants: where a base has a dict already the variant goes into that.
\* Arrays are variants of Array, of which no field is ever replaced.
KeepVariant(h, orig, v) ==
    LET k == IF Variants(h, orig) = {} THEN orig ELSE Keeper(h, orig)
    IN  IF h.types[orig].kind = "array" THEN h
        ELSE [h EXCEPT !.variants = (v :> {}) @@ (k :> (Variants(h, orig) \cup {v})) @@ @]

\* ComplexModelBase.customize: a variant of the first original.
CustomizeClass(h, c, new, attrs) ==
    LET old == h.types[c]
        copy == Make(h, [old EXCEPT !.orig = Root(h, c), !.bases = <<c>>,
                                    !.ns = GetNamespace(h, c),
                                    !.name = IF "type_name" \in DOMAIN new THEN new["type_name"]
                                             ELSE @,
                                    !.options = new @@ @])
        made == KeepVariant(copy, Root(h, c), copy.made)
    IN  IF attrs = None THEN made
        ELSE [ChildAttrs(made, made.made, attrs) EXCEPT !.made = made.made]

Customize(h, t, new) ==
    CASE h.types[t].kind = "simple" -> CustomizeSimple(h, t, new)
      [] h.types[t].kind = "self" -> CustomizeSelf(h, t, new)
      [] h.types[t].kind \in {"complex", "array"} -> CustomizeClass(h, t, new, None)
      [] OTHER -> CustomizeModifier(h, t, new)

-----------------------------------------------------------------------------
(* Arrays and modifiers.                                                    *)

Unbounded == "max_occurs" :> 2    \* or any number above one

\* The customization that makes the elements many is not made: the element has to be.
BadSetSerializer(h, a, t, member) ==
    [h EXCEPT !.types[a].name = Append(GetTypeName(h, t), "Array"),
              !.types[a].fields = <<Member(IF member = None THEN GetTypeName(h, t) ELSE member, t)>>,
              !.types[t].options = Unbounded @@ @, !.made = a]

\* Array._set_serializer: an array of what has no name yet has none.
SetSerializer(h, a, t, member) ==
    LET element == IF Many(h, t) THEN [h EXCEPT !.made = t] ELSE Customize(h, t, Unbounded)
        name == GetTypeName(h, t)
    IN  [element EXCEPT
            !.types[a].name = IF name = Unnamed THEN Unnamed ELSE Append(name, "Array"),
            !.types[a].fields =
                <<Member(CASE name = Unnamed -> <<"OhNoes">>
                          [] member # None -> member
                          [] OTHER -> name, element.made)>>,
            !.made = a]

\* Array(t, member, wrapped).  A SelfReference has no attributes.
ArrayOf(h, t, member, wrapped) ==
    LET array == Make(h, NewType("array", <<"Array">>, None))
    IN  CASE h.types[t].kind = "self" ->
                IF wrapped THEN [array EXCEPT !.types[array.made].fields = <<Member(<<"_bogus">>, t)>>]
                ELSE Raise(h)
          [] wrapped -> SetSerializer(array, array.made, t, member)
          [] OTHER -> Customize(h, t, IF Many(h, t) THEN <<>> ELSE Unbounded)

\* XmlAttribute(t) and XmlData(t) share the attributes of what they modify.
Modifier(h, kind, t) ==
    IF h.types[t].kind = "self" THEN Raise(h)
    ELSE Make(h, [NewType(kind, IF h.types[t].name = Unnamed THEN Unnamed ELSE <<kind>>, None)
                    EXCEPT !.of = t, !.options = h.types[t].options])

\* Mandatory(t): of an array the element is replaced in the array that was given.
RECURSIVE Mandatory(_, _)
Mandatory(h, t) ==
    LET name == GetTypeName(h, t)
        named == "min_occurs" :> 1
                 @@ (IF name = Unnamed THEN <<>> ELSE "type_name" :> <<"Mandatory">> \o name)
        element == h.types[t].fields[1]
        inner == Mandatory(h, element.type)
        replaced == [inner EXCEPT !.types[t].fields[1].type = inner.made]
    IN  CASE h.types[t].kind = "self" -> Raise(h)
          [] h.types[t].kind = "simple" -> Customize(h, t, "min_len" :> 1 @@ named)
          [] h.types[t].kind = "array" ->
                IF Option(h, element.type, "min_occurs", 0) # 0 THEN Customize(h, t, named)
                ELSE IF inner.ok THEN Customize(replaced, t, named) ELSE inner
          [] OTHER -> Customize(h, t, named)

-----------------------------------------------------------------------------
(* Class statements: [name, ns, bases, fields, mixin].                        *)

\* _get_type_info: bases with members that are no mixins must be one.  The members of
\* mixins come first, and replace those of the class.
Inherit(h, bases) ==
    FoldLeft(LAMBDA st, b :
                CASE h.types[b].mixin ->
                        [st EXCEPT !.mixed = FoldLeft(SetField, @, FlatTypeInfo(h, b))]
                  [] st.extends \notin {0, b} -> [st EXCEPT !.ok = FALSE]
                  [] h.types[b].fields # <<>> ->
                        [st EXCEPT !.extends = b, !.ok = @ /\ h.types[b].orig = 0]
                  [] OTHER -> st,
             [extends |-> 0, mixed |-> <<>>, ok |-> TRUE], bases)

\* _sanitize_type_info: the members that have another name outside.  SelfReferences
\* are not looked at.
OtherNames(h, bases, fields) ==
    LET inherited == FoldLeft(LAMBDA alt, b : h.types[b].alt @@ alt, <<>>, bases)
        renamed == SelectSeq(fields, LAMBDA f : /\ h.types[f.type].kind # "self"
                                                /\ Option(h, f.type, "sub_name", None) # None)
    IN  FoldLeft(LAMBDA alt, f : Option(h, f.type, "sub_name", None) :> f @@ alt,
                 inherited, renamed)

\* recust_selfref
SelfType(h, s, c) ==
    IF h.types[s].options = <<>> THEN [h EXCEPT !.made = c]
    ELSE Customize(h, c, h.types[s].options)

\* _replace_field: in the class and in the variants that are found for it, which are
\* those of its base when it has none.
ReplaceField(h, c, f) ==
    FoldSet(LAMBDA t, g : [g EXCEPT !.types[t].fields = SetField(@, f)],
            h, {c} \cup Variants(h, c))

\* The array inside arrays.
RECURSIVE Innermost(_, _)
Innermost(h, a) ==
    LET t == h.types[a].fields[1].type
    IN  IF h.types[t].kind = "array" THEN Innermost(h, t) ELSE a

\* ComplexModelMeta.__init__, for one member.  The list of bodies is the one of the
\* base, if that has one.
AddMember(h, c, f) ==
    LET array == Innermost(h, f.type)
        element == h.types[array].fields[1].type
        body == h.types[c].body
        self(s) == SelfType(h, s, c)
    IN  CASE h.types[f.type].kind = "self" ->
                ReplaceField(self(f.type), c, Member(f.name, self(f.type).made))
          [] h.types[f.type].kind = "data" ->
                IF body = 0
                THEN [h EXCEPT !.bodies = Append(@, <<f>>), !.types[c].body = Len(h.bodies) + 1]
                ELSE [h EXCEPT !.bodies[body] = Append(@, f)]
          [] h.types[f.type].kind = "array" ->
                IF h.types[element].kind = "self"
                THEN SetSerializer(self(element), array, self(element).made, None)
                ELSE h
          [] OTHER -> h

\* Members with an order are inserted at their place, one after the other.
Ordered(h, fields) ==
    LET order(f) == Option(h, f.type, "order", None)
    IN  FoldLeft(LAMBDA fs, f : InsertField(fs, order(f), f),
                 SelectSeq(fields, LAMBDA f : order(f) = None),
                 SelectSeq(fields, LAMBDA f : order(f) # None))

ClassStatement(h, s) ==
    LET inherited == Inherit(h, s.bases)
        fields == FoldRight(LAMBDA f, fs : InsertField(fs, 0, f), inherited.mixed, s.fields)
        first == IF s.bases = <<>> THEN NewType("complex", <<>>, None) ELSE h.types[Head(s.bases)]
        made == Make(h, [first EXCEPT
                    !.name = s.name, !.ns = IF s.ns = None THEN Unset ELSE s.ns,
                    !.module = s.module, !.bases = s.bases,
                    !.extends = inherited.extends, !.orig = 0, !.mixin = s.mixin,
                    !.fields = fields, !.alt = OtherNames(h, s.bases, fields)])
        filled == FoldLeft(LAMBDA g, f : AddMember(g, made.made, f), made, fields)
    IN  IF ~inherited.ok THEN Raise(h)
        ELSE [filled EXCEPT !.types[made.made].fields = Ordered(filled, @), !.made = made.made]

-----------------------------------------------------------------------------
(* Names and namespaces.                                                    *)

\* The types above are left without a name.
BadFillEmptyTypeName(h, t, ns, parent, k) ==
    LET child == IF h.types[t].kind = "array" THEN h.types[t].fields[1].type ELSE h.types[t].of
    IN  IF h.types[t].kind \in {"array", "attribute", "data"}
        THEN [h EXCEPT !.types[t].ns = ns, !.types[t].name = Append(parent \o k, "Array"),
                       !.types[t].fields = <<Member(parent \o k, child)>>,
                       !.types[child].name = parent \o k]
        ELSE [h EXCEPT !.types[t].ns = ns, !.types[t].name = parent \o k]

\* The name of an array is the one of its elements, whose member is renamed with them.
FillEmptyArrayName(h, t, ns, name, child) ==
    [h EXCEPT !.types[t].ns = ns, !.types[t].name = Append(name, "Array"),
              !.types[t].fields = <<Member(name, child)>>,
              !.types[child].name = name]

\* _fill_empty_type_name: a type is named after the member that has it, and so are
\* the types it extends.
RECURSIVE FillEmptyTypeName(_, _, _, _, _)
FillEmptyTypeName(h, t, ns, parent, k) ==
    LET kind == h.types[t].kind
        name == parent \o k
        child == IF kind = "array" THEN h.types[t].fields[1].type ELSE h.types[t].of
        above(g, s, parentNs, parentName) ==
            LET e == g.types[s].extends
            IN  IF e # 0 /\ g.types[e].name = Unnamed
                THEN FillEmptyTypeName(g, e, parentNs, parentName, k \o <<"Parent">>)
                ELSE g
    IN  IF kind \in {"array", "attribute", "data"}
        THEN above(FillEmptyArrayName(h, t, ns, name, child), child, ns, parent)
        ELSE above([h EXCEPT !.types[t].ns = ns, !.types[t].name = name], t, ns, name)

\* resolve_namespace, which visits every type once: [heap, tags].
RECURSIVE ResolveNamespace(_, _)

\* ModelBase.resolve_namespace
ResolveBase(st, t) ==
    LET ns == GetNamespace(st.heap, t)
        own == CASE ns = "xsd" /\ ~st.heap.types[t].default -> DefaultNs
                 [] ns = None -> st.heap.types[t].module
                 [] OTHER -> st.heap.types[t].ns
        set == [heap |-> [st.heap EXCEPT !.types[t].ns = own], tags |-> st.tags \cup {t}]
        extends == st.heap.types[t].extends
    IN  IF extends = 0 THEN set ELSE ResolveNamespace(set, extends)

\* ComplexModelBase.resolve_namespace
ResolveMembers(st, c) ==
    FoldLeft(LAMBDA s, f :
                ResolveNamespace(
                    IF s.heap.types[f.type].name # Unnamed THEN s
                    ELSE [s EXCEPT !.heap = FillEmptyTypeName(@, f.type, GetNamespace(@, c),
                                                             GetTypeName(@, c), f.name)],
                    f.type),
             st, st.heap.types[c].fields)

ResolveComplex(st, c) ==
    IF c \in st.tags THEN st ELSE ResolveMembers(ResolveBase(st, c), c)

\* Array.resolve_namespace, XmlModifier.resolve_namespace
Adopt(st, t, child) ==
    LET ns == IF st.heap.types[t].kind = "array" /\ GetNamespace(st.heap, t) # None
              THEN GetNamespace(st.heap, t) ELSE GetNamespace(st.heap, child)
    IN  [st EXCEPT !.heap.types[t].ns = IF ns = "xsd" THEN DefaultNs ELSE ns]

ResolveNamespace(st, t) ==
    LET type == st.heap.types[t]
        child == IF type.kind = "array" THEN type.fields[1].type ELSE type.of
    IN  CASE type.kind = "complex" -> ResolveComplex(st, t)
          [] type.kind = "array" -> ResolveComplex(Adopt(ResolveNamespace(st, child), t, child), t)
          [] type.kind \in {"attribute", "data"} -> Adopt(ResolveNamespace(st, child), t, child)
          [] OTHER -> IF t \in st.tags THEN st ELSE ResolveBase(st, t)

\* A class is added to an interface.
Resolve(h, c) == ResolveNamespace([heap |-> h, tags |-> {}], c).heap

-----------------------------------------------------------------------------
(* Statements of a program.                                                  *)

\* They refer to the two types there are and to what statements before them made.
Made(heaps, i) == IF i <= 2 THEN i ELSE heaps[i - 1].made

Execute(heaps, s) ==
    LET h == Last(heaps)
        t == Made(heaps, s.type)
    IN  CASE ~h.ok -> h
          [] s.op = "customize" -> Customize(h, t, s.options)
          [] s.op = "child_attrs" -> CustomizeClass(h, t, <<>>, s.attrs)
          [] s.op = "array" -> ArrayOf(h, t, s.member, s.wrapped)
          [] s.op \in {"attribute", "data"} -> Modifier(h, s.op, t)
          [] s.op = "mandatory" -> Mandatory(h, t)
          [] s.op = "class" ->
                LET field(f) == Member(f.name, Made(heaps, f.type))
                IN  ClassStatement(h, [s EXCEPT
                        !.bases = [i \in DOMAIN s.bases |-> Made(heaps, s.bases[i])],
                        !.fields = [i \in DOMAIN s.fields |-> field(s.fields[i])]])

\* The heaps before and after each statement, and after each class was resolved.
Heaps(statements) == FoldLeft(LAMBDA hs, s : Append(hs, Execute(hs, s)), <<NewHeap>>, statements)
Resolutions(h, classes) ==
    FoldLeft(LAMBDA hs, c : Append(hs, Resolve(Last(hs), c)), <<h>>, classes)

\* complex_from_element: the members that elements of some names are read as, and
\* whether validation counts them.
ReadAs(h, c, wire) ==
    LET flat == FlatTypeInfo(h, c)
    IN  CASE HasField(flat, wire) -> Member(wire, FieldType(flat, wire))
          [] wire \in DOMAIN h.types[c].alt -> h.types[c].alt[wire]
          [] OTHER -> None

Frequent(h, c, wires) ==
    \A f \in ToSet(FlatTypeInfo(h, c)) :
        Option(h, f.type, "min_occurs", 0) > 0 => f.name \in ToSet(wires)

-----------------------------------------------------------------------------
(* Objects.  A value is text or an object; an object is what is kept under    *)
(* the names of its members.                                                *)

Native(h, t) == IF h.types[t].kind = "simple" THEN "text" ELSE "object"

\* The properties that validate on assignment are functions of one scope, and mean the
\* member of its last turn, and the type of that.
RECURSIVE Property(_, _, _)
Property(h, c, k) ==
    LET own == h.types[c].fields
    IN  CASE c = 0 -> None
          [] ~HasField(own, k) -> Property(h, h.types[c].extends, k)
          [] OTHER -> IF Option(h, FieldType(own, k), "voa", FALSE) THEN own[Len(own)] ELSE None

Kept(h, c, k) == LET p == Property(h, c, k) IN IF p = None THEN k ELSE p.name

NewObject == [kept |-> <<>>, ok |-> TRUE]

GetAttr(h, c, obj, k) == obj.kept[Kept(h, c, k)]

\* setattr
SetAttr(h, c, obj, k, v) ==
    LET p == Property(h, c, k)
    IN  IF p # None /\ v # None /\ v.native # Native(h, p.type)
        THEN [obj EXCEPT !.ok = FALSE]
        ELSE [obj EXCEPT !.kept = Kept(h, c, k) :> v @@ @]

\* _safe_set
SafeSet(h, c, obj, f, v) ==
    IF Option(h, f.type, "read_only", FALSE) THEN obj ELSE SetAttr(h, c, obj, f.name, v)

\* _init_member, with _set_member_default: a member has its default, or None, that it may be
\* read-only or not.
InitMember(h, c, obj, f) ==
    IF f.name \in DOMAIN obj.kept THEN obj
    ELSE SetAttr(h, c, obj, f.name, Option(h, f.type, "default", None))

\* ComplexModelBase.__init__
Init(h, c, kwargs) ==
    FoldLeft(LAMBDA obj, f :
                LET new == InitMember(h, c, obj, f)
                IN  IF f.name \in DOMAIN kwargs THEN SafeSet(h, c, new, f, kwargs[f.name]) ELSE new,
             NewObject, FlatTypeInfo(h, c))

\* What is not in the dict stays as it is.
BadFromDict(h, c, d) ==
    FoldLeft(LAMBDA obj, f : IF f.name \in DOMAIN d THEN SetAttr(h, c, obj, f.name, d[f.name])
                             ELSE obj,
             Init(h, c, <<>>), FlatTypeInfo(h, c))

\* get_serialization_instance of a dict and of a list
FromDict(h, c, d) ==
    FoldLeft(LAMBDA obj, f : SetAttr(h, c, obj, f.name,
                                     IF f.name \in DOMAIN d THEN d[f.name] ELSE None),
             Init(h, c, <<>>), FlatTypeInfo(h, c))

FromList(h, c, values) ==
    LET flat == FlatTypeInfo(h, c)
    IN  IF Len(values) > Len(flat) THEN [NewObject EXCEPT !.ok = FALSE]
        ELSE FoldLeft(LAMBDA obj, i : SetAttr(h, c, obj, flat[i].name, values[i]),
                      Init(h, c, <<>>), [i \in DOMAIN values |-> i])

\* init_from
InitFrom(h, c, other) ==
    FoldLeft(LAMBDA obj, f : SafeSet(h, c, obj, f, GetAttr(h, c, other, f.name)),
             Init(h, c, <<>>), FlatTypeInfo(h, c))

\* as_dict
AsDict(h, c, obj) ==
    LET set == {k \in ToSet(FieldNames(FlatTypeInfo(h, c))) : GetAttr(h, c, obj, k) # None}
    IN  [k \in set |-> GetAttr(h, c, obj, k)]
=============================================================================
