----------------------------- MODULE DictDocuments -----------------------------
(***************************************************************************)
(* Documents that are dicts.                                                 *)
(*                                                                          *)
(* Flat ones are those of SimpleDictDocument of spyne/protocol/dictdoc/      *)
(* simple.py, with get_simple_type_info_with_prot of spyne/model/complex.py. *)
(* A key is a sequence of steps, a field name and an index or NoIndex, for   *)
(* q[1].y.  A document maps keys to lists of values.                         *)
(*                                                                          *)
(* Hierarchical ones, of Json, Yaml and MessagePack, are those of            *)
(* HierDictDocument of spyne/protocol/dictdoc/hier.py.  A protocol is a      *)
(* record of ignore_wrappers, polymorphic, and whether complex_as is list.   *)
(* A dict is a function, a list a sequence.                                  *)
(*                                                                          *)
(* Types are converted elsewhere: a value is itself.                         *)
(***************************************************************************)
EXTENDS Schema

CONSTANTS
    Empty,       \* the text 'empty'
    NameOrder,   \* the names, in the order of their texts
    IndexOrder   \* the indexes, in the order of their texts with the bracket that
                 \* ends them: in base 2 it is 0, 2, 3, 1, as 0, 10, 1, 2 in base 10

NoIndex == None
Step(k, i) == [name |-> k, index |-> i]

-----------------------------------------------------------------------------
(* Flat documents.                                                          *)

Merge(docs) == FoldSet(LAMBDA d, acc : d @@ acc, <<>>, docs)

\* Nothing is told of an array without elements.
BadEmptyArray(key) == <<>>

EmptyArray(key) == key :> <<Empty>>

\* object_to_simple_dict
RECURSIVE ObjectToSimpleDict(_, _, _)
ObjectToSimpleDict(c, inst, prefix) ==
    LET key(f, i) == Append(prefix, Step(f.name, i))
        entries(f) ==
            LET v == inst[f.name]
            IN  CASE v = None -> <<>>
                  [] v # None /\ f.type = Simple ->
                        key(f, NoIndex) :> (IF MaxOccurs(f) > 1 THEN v ELSE <<v>>)
                  [] v # None /\ f.type # Simple /\ MaxOccurs(f) = 1 ->
                        ObjectToSimpleDict(f.type, v, key(f, NoIndex))
                  [] v = <<>> /\ f.type # Simple /\ MaxOccurs(f) > 1 ->
                        EmptyArray(key(f, NoIndex))
                  [] OTHER ->
                        Merge({ObjectToSimpleDict(f.type, v[i], key(f, i - 1)) :
                                  i \in DOMAIN v})
    IN  Merge({entries(f) : f \in FieldsOf(c)})

-----------------------------------------------------------------------------
(* Deserialization.                                                         *)

\* get_simple_type_info_with_prot: the field of each path, breadth first.  A class
\* that was met before is not entered again.
RECURSIVE Visit(_, _, _)
Visit(queue, tags, info) ==
    IF queue = <<>> THEN info
    ELSE LET q == Head(queue)
             c == q.field.type
             below == [i \in DOMAIN FlatTypeInfo[c] |->
                         [field |-> FlatTypeInfo[c][i],
                          path |-> Append(q.path, FlatTypeInfo[c][i].name)]]
             seen == info @@ (q.path :> q.field)
         IN  IF c = Simple \/ c \in tags
             THEN Visit(Tail(queue), tags, seen)
             ELSE Visit(Tail(queue) \o below, tags \cup {c}, seen)

SimpleTypeInfo(c) ==
    Visit([i \in DOMAIN FlatTypeInfo[c] |->
             [field |-> FlatTypeInfo[c][i], path |-> <<FlatTypeInfo[c][i].name>>]],
          {c}, <<>>)

Path(key) == [i \in DOMAIN key |-> key[i].name]

Rank(step) ==
    <<CHOOSE i \in DOMAIN NameOrder : NameOrder[i] = step.name,
      IF step.index = NoIndex THEN 0
      ELSE CHOOSE i \in DOMAIN IndexOrder : IndexOrder[i] = step.index>>

\* The order of the texts of two keys.
Before(a, b) ==
    \/ IsStrictPrefix(a, b)
    \/ \E i \in DOMAIN a \cap DOMAIN b :
          /\ SubSeq(a, 1, i - 1) = SubSeq(b, 1, i - 1)
          /\ LET x == Rank(a[i])
                 y == Rank(b[i])
             IN  x[1] < y[1] \/ (x[1] = y[1] /\ x[2] < y[2])

\* frequencies[key][k] += n
Count(freq, key, k, n) ==
    (<<key, k>> :> (n + (IF <<key, k>> \in DOMAIN freq THEN freq[<<key, k>>] ELSE 0)))
        @@ freq

\* Until the end each element of an array carries the index it was given.
Item(c, n) == [at |-> n, elt |-> New(c)]
At(list, n) == CHOOSE i \in DOMAIN list : list[i].at = n

\* The sparse index is taken for the position.
BadSparse(list, n, new) == InsertAt(list, (IF n > Len(list) THEN Len(list) ELSE n) + 1, new)

\* _s2cmi: the position of a sparse index is the number of lower ones.
Sparse(list, n, new) ==
    InsertAt(list, Cardinality({i \in DOMAIN list : list[i].at < n}) + 1, new)

\* An index past the end is taken for the end.
BadStrict(list, n, c) ==
    LET first == IF list = <<>> THEN <<Item(c, 0)>> ELSE list
    IN  IF n >= Len(first) THEN Append(first, Item(c, n)) ELSE first

\* strict_arrays: the first element is made in any case, the others only at the end.
Strict(list, n, c) ==
    LET first == IF list = <<>> THEN <<Item(c, 0)>> ELSE list
    IN  CASE n > Len(first) -> <<>>
          [] n = Len(first) -> Append(first, Item(c, n))
          [] OTHER -> first

\* A member that may have objects is a list of them until the end, also one that
\* may have a single one.
Elements(v) == IF v = None THEN <<>> ELSE v

Grown(list, f, n, strict) ==
    IF strict THEN Strict(list, n, f.type)
    ELSE IF \E i \in DOMAIN list : list[i].at = n THEN list
    ELSE Sparse(list, n, Item(f.type, n))

Position(f, step) == IF MaxOccurs(f) = 1 \/ step.index = NoIndex THEN 0 ELSE step.index

\* The end of a key; fkey is the key of the object in frequencies.
SetMember(st, f, value, fkey) ==
    [obj |-> [st.obj EXCEPT ![f.name] = IF f.type = Simple /\ MaxOccurs(f) = 1 THEN value[1]
                                        ELSE Elements(@) \o value],
     freq |-> Count(st.freq, fkey, f.name, Len(value)),
     ok |-> TRUE]

\* r is what became of the i-th object.
Put(obj, f, list, i, r) ==
    [r EXCEPT !.obj = [obj EXCEPT ![f.name] = [list EXCEPT ![i].elt = r.obj]]]

\* The rest of a key of an object of class c gets its value.
RECURSIVE Assign(_, _, _, _, _, _), Enter(_, _, _, _, _, _, _)
Assign(st, c, key, value, fkey, strict) ==
    LET f == Field(c, key[1].name)
    IN  IF Len(key) = 1 THEN SetMember(st, f, value, fkey)
        ELSE Enter(st, f, key, value, fkey, strict,
                   Grown(Elements(st.obj[f.name]), f, Position(f, key[1]), strict))

Enter(st, f, key, value, fkey, strict, list) ==
    LET n == Position(f, key[1])
        made == Len(list) - Len(Elements(st.obj[f.name]))
    IN  IF list = <<>> THEN [st EXCEPT !.ok = FALSE]
        ELSE Put(st.obj, f, list, At(list, n),
                 Assign([obj |-> list[At(list, n)].elt, ok |-> TRUE,
                         freq |-> IF made = 0 THEN st.freq ELSE Count(st.freq, fkey, f.name, made)],
                        f.type, Tail(key), value, fkey \o <<f.type, n>>, strict))

\* The lists become what they stand for.
RECURSIVE Contiguous(_, _)
Contiguous(c, inst) ==
    [k \in Names(c) |->
        LET f == Field(c, k)
            v == inst[k]
        IN  IF v = None \/ f.type = Simple THEN v
            ELSE IF MaxOccurs(f) = 1 THEN Contiguous(f.type, v[1].elt)
            ELSE [i \in DOMAIN v |-> Contiguous(f.type, v[i].elt)]]

\* Instances below the root are not looked at.
BadCheckFreq(c, freq) ==
    \A f \in FieldsOf(c) :
        LET n == IF <<<<c, 0>>, f.name>> \in DOMAIN freq THEN freq[<<<<c, 0>>, f.name>>] ELSE 0
        IN  n \in MinOccurs(f) .. MaxOccurs(f)

\* _fill and _check_freq_dict, for every object something was counted for.
CheckFreq(c, freq) ==
    LET required == \E f \in FieldsOf(c) : f.min > 0
        counted == {p[1] : p \in DOMAIN freq} \cup (IF required THEN {<<c, 0>>} ELSE {})
    IN  \A key \in counted : \A f \in FieldsOf(key[Len(key) - 1]) :
            LET n == IF <<key, f.name>> \in DOMAIN freq THEN freq[<<key, f.name>>] ELSE 0
            IN  n \in MinOccurs(f) .. MaxOccurs(f)

\* simple_dict_to_object; ok is FALSE for a validation error.
SimpleDictToObject(c, doc, strict, soft) ==
    LET info == SimpleTypeInfo(c)
        put(st, key) ==
            LET f == info[Path(key)]
                value == IF f.type = Simple THEN doc[key]
                         ELSE IF MaxOccurs(f) > 1 THEN <<>> ELSE <<Item(f.type, 0)>>
            IN  IF \/ ~st.ok
                   \/ Path(key) \notin DOMAIN info
                   \/ f.type # Simple /\ doc[key] # <<Empty>>
                THEN st
                ELSE Assign(st, c, key, value, <<c, 0>>, strict)
        end == FoldLeft(put, [obj |-> New(c), freq |-> <<>>, ok |-> TRUE],
                        InOrder(DOMAIN doc, Before))
    IN  [obj |-> IF end.ok THEN Contiguous(c, end.obj) ELSE None,
         ok |-> end.ok /\ (soft => CheckFreq(c, end.freq))]

-----------------------------------------------------------------------------
(* Hierarchical documents.                                                  *)

\* get_polymorphic_target
Target(prot, c, inst) == IF prot.polymorphic THEN ClassOf(c, inst) ELSE c

\* A dict that holds an object is wrapped in one that names its class.
Wrapped(prot, c, d) == IF prot.ignoreWrappers THEN d ELSE (c :> d)

\* A member that is not set is left out.
BadIsShown(prot, f, d) == d # None

\* _get_member_pairs: optional members that are not set are left out, of dicts.
IsShown(prot, f, d) == d # None \/ f.min > 0 \/ prot.asList

\* _complex_to_doc, of the names and the documents of the members that are shown: their
\* list without the names, or the dict of them.
ComplexToDoc(prot, c, pairs) ==
    IF prot.asList THEN [i \in DOMAIN pairs |-> pairs[i][2]]
    ELSE Wrapped(prot, c, FoldLeft(LAMBDA d, pair : pair[1] :> pair[2] @@ d, <<>>, pairs))

\* _object_to_doc
RECURSIVE ObjectToDoc(_, _, _)
ObjectToDoc(prot, declared, inst) ==
    LET c == Target(prot, declared, inst)
        value(f, v) == IF f.type = Simple THEN v ELSE ObjectToDoc(prot, f.type, v)
        member(f) ==
            LET v == inst[f.name]
            IN  IF v = None THEN None
                ELSE IF MaxOccurs(f) > 1 THEN [i \in DOMAIN v |-> value(f, v[i])]
                ELSE value(f, v)
        shown == SelectSeq(FlatTypeInfo[c], LAMBDA f : IsShown(prot, f, member(f)))
    IN  ComplexToDoc(prot, c, [i \in DOMAIN shown |-> <<shown[i].name, member(shown[i])>>])

-----------------------------------------------------------------------------

\* Elements of lists are counted.
BadOften(f, d) == IF f.max > 1 THEN Len(d) ELSE 1

\* frequencies[k] += 1, of the key, whatever the number of its elements.
Often(f, d) == 1

\* _doc_to_object and _from_dict_value.  There is no object for None, but an
\* empty list.  A list that is to be iterated must be there.  The name in a wrapper
\* is looked at when the class has subclasses only.
RECURSIVE DocToObject(_, _, _, _)
DocToObject(prot, declared, doc, soft) ==
    LET wrapped == ~prot.ignoreWrappers
        name == CHOOSE k \in DOMAIN doc : TRUE
        known == name = declared \/ Subclasses[declared] = {} \/ name \in Subclasses[declared]
        c == IF wrapped /\ name \in Subclasses[declared] THEN name ELSE declared
        body == IF wrapped THEN doc[name] ELSE doc
        fields == FlatTypeInfo[c]
        given == IF prot.asList
                 THEN {fields[i].name : i \in DOMAIN fields \cap DOMAIN body}
                 ELSE DOMAIN body \cap Names(c)
        content(k) ==
            IF prot.asList
            THEN body[CHOOSE i \in DOMAIN fields : fields[i].name = k]
            ELSE body[k]
        value(f, d) == IF f.type = Simple THEN Ok(d) ELSE DocToObject(prot, f.type, d, soft)
        member(k) ==
            LET f == Field(c, k)
                d == content(k)
            IN  CASE d = None /\ f.max > 1 -> Error
                  [] d = None /\ f.max = 1 /\ f.array -> Ok(<<>>)
                  [] d # None /\ MaxOccurs(f) > 1 -> All([i \in DOMAIN d |-> value(f, d[i])])
                  [] OTHER -> value(f, d)
        members == All([k \in given |-> member(k)])
        counted == \A f \in FieldsOf(c) :
                      (IF f.name \in given THEN Often(f, content(f.name)) ELSE 0)
                          \in MinOccurs(f) .. MaxOccurs(f)
    IN  IF doc = None THEN Ok(<<>>)
        ELSE IF wrapped /\ prot.asList THEN Error  \* Wrapper documents must be dicts
        ELSE IF wrapped /\ DOMAIN doc = {} THEN Ok(None)
        ELSE IF wrapped /\ (Cardinality(DOMAIN doc) > 1 \/ ~known) THEN Error
        ELSE IF ~members.ok \/ (soft /\ ~counted) THEN Error
        ELSE Ok(members.v @@ New(c))
=============================================================================
