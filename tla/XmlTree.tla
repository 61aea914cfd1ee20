------------------------------- MODULE XmlTree -------------------------------
(***************************************************************************)
(* Trees of elements: XmlDocument of spyne/protocol/xml.py, which the Soap   *)
(* protocols extend.  Soft validation is part of the protocol here, and so   *)
(* is polymorphic, with which the class of an object goes to xsi:type.       *)
(***************************************************************************)
EXTENDS Schema

\* An element without attributes and without elements below.
Leaf(tag, text) ==
    [tag |-> tag, xsi |-> None, nil |-> FALSE, text |-> text, attrs |-> <<>>, sub |-> <<>>]

\* _gen_tag, null_to_parent
Nil(tag) == [Leaf(tag, None) EXCEPT !.nil = TRUE]

\* The class is left out.
BadXsiType(declared, c) == None

\* add_type: only when another class than the declared one is meant.
XsiType(declared, c) == IF c = declared THEN None ELSE c

\* xmlattribute_to_parent: what an object has in its attributes.
XmlAttributes(c, inst) ==
    LET set == {f.name : f \in {g \in FieldsOf(c) : g.attribute /\ inst[g.name] # None}}
    IN  [k \in set |-> inst[k]]

\* to_parent, complex_to_parent and _get_members_etree: the element of an object
RECURSIVE ToElement(_, _, _, _)
ToElement(prot, tag, declared, inst) ==
    LET c == IF prot.polymorphic THEN ClassOf(declared, inst) ELSE declared
        value(k, f, v) == IF v = None THEN Nil(k)
                          ELSE IF f.type = Simple THEN Leaf(k, v)
                          ELSE ToElement(prot, k, f.type, v)
        elements(f) ==
            LET v == inst[f.name]
            IN  CASE f.attribute -> <<>>
                  [] ~f.attribute /\ v = None ->
                        IF f.min > 0 THEN <<Nil(f.name)>> ELSE <<>>
                  [] ~f.attribute /\ v # None /\ f.max > 1 ->
                        [i \in DOMAIN v |-> value(f.name, f, v[i])]
                  [] ~f.attribute /\ v # None /\ f.array ->
                        <<[Leaf(f.name, None) EXCEPT
                              !.sub = [i \in DOMAIN v |-> value(f.type, f, v[i])]]>>
                  [] OTHER -> <<value(f.name, f, v)>>
    IN  [tag |-> tag, xsi |-> XsiType(declared, c), nil |-> FALSE, text |-> None,
         attrs |-> XmlAttributes(c, inst),
         sub |-> FoldLeft(LAMBDA all, f : all \o elements(f), <<>>, FlatTypeInfo[c])]

-----------------------------------------------------------------------------

\* The most is not looked at.
BadRespects(f, n) == n >= f.min

\* Soft validation counts the elements of a member; attributes have none.
Respects(f, n) == n \in f.min .. f.max

\* from_element and complex_from_element.  An attribute of an element below is
\* taken for a member of the object as well.
RECURSIVE FromElement(_, _, _)
FromElement(prot, declared, e) ==
    LET c == IF e.xsi = None THEN declared ELSE e.xsi
        value(f, d) == CASE d.nil -> Ok(None)
                         [] ~d.nil /\ f.type = Simple -> Ok(d.text)
                         [] OTHER -> FromElement(prot, f.type, d)
        content(f, d) == IF f.array /\ ~d.nil
                         THEN All([i \in DOMAIN d.sub |-> value(f, d.sub[i])])
                         ELSE value(f, d)
        set(inst, f, v) ==
            [inst EXCEPT ![f.name] =
                IF f.max = 1 THEN v ELSE (IF @ = None THEN <<>> ELSE @) \o <<v>>]
        attribute(acc, k, v) == [acc EXCEPT !.v[k] = v, !.ok = @ /\ Field(c, k).attribute]
        child(acc, d) ==
            IF ~acc.ok \/ d.tag \notin Names(c) THEN acc
            ELSE LET f == Field(c, d.tag)
                     r == content(f, d)
                     given == DOMAIN d.attrs \cap Names(c)
                 IN  FoldSet(LAMBDA k, a : attribute(a, k, d.attrs[k]),
                             [v |-> set(acc.v, f, r.v), ok |-> r.ok], given)
        read == FoldLeft(child, Ok(New(c)), e.sub)
        own == {k \in DOMAIN e.attrs \cap Names(c) : Field(c, k).attribute}
        inst == [k \in own |-> e.attrs[k]] @@ read.v
        times(f) == Cardinality({i \in DOMAIN e.sub : e.sub[i].tag = f.name})
    IN  IF /\ read.ok
           /\ prot.soft => \A f \in FieldsOf(c) : Respects(f, times(f))
        THEN Ok(inst)
        ELSE Error
=============================================================================
