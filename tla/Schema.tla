-------------------------------- MODULE Schema --------------------------------
(***************************************************************************)
(* The classes and the instances that the protocols of spyne/protocol turn   *)
(* into documents and back.  A class is a sequence of fields, what           *)
(* get_flat_type_info returns.  A field is a record of its name; its type,   *)
(* which is Simple or a class; whether it is an Array of that type, or an    *)
(* XmlAttribute; and its min_occurs and max_occurs.  An instance is a         *)
(* function of the names.                                                   *)
(***************************************************************************)
EXTENDS SequencesExt, Naturals, Nothing

CONSTANTS
    Value,         \* values of simple fields
    FlatTypeInfo,  \* of each class
    Subclasses,    \* of each class: those that extend it, with more names
    MaxLen         \* bound: elements of an array

Simple == "simple"
Unbounded == 1000

Field(c, k) ==
    FlatTypeInfo[c][CHOOSE i \in DOMAIN FlatTypeInfo[c] : FlatTypeInfo[c][i].name = k]
FieldsOf(c) == ToSet(FlatTypeInfo[c])
Names(c) == {f.name : f \in FieldsOf(c)}

\* The occurrences an Array asks for are those of its elements.
MinOccurs(f) == IF f.array THEN 0 ELSE f.min
MaxOccurs(f) == IF f.array THEN Unbounded ELSE f.max

\* The members of a set in an order, as the code sorts them.
InOrder(set, before(_, _)) ==
    FoldSet(LAMBDA e, list :
               InsertAt(list, Cardinality({i \in DOMAIN list : before(list[i], e)}) + 1, e),
            <<>>, set)

\* The class of an instance that is declared to be of class c: the one with its
\* names.
ClassOf(c, inst) == CHOOSE d \in {c} \cup Subclasses[c] : Names(d) = DOMAIN inst

\* get_deserialization_instance
New(c) == [k \in Names(c) |-> None]

\* What a conversion returns; ok is FALSE when an error is raised.
Ok(v) == [v |-> v, ok |-> TRUE]
Error == [v |-> None, ok |-> FALSE]

All(results) ==
    IF \A i \in DOMAIN results : results[i].ok
    THEN Ok([i \in DOMAIN results |-> results[i].v])
    ELSE Error

\* All the instances that respect the occurrences, those of subclasses too where
\* one is a member.
RECURSIVE Instances(_)
Instances(c) ==
    LET elements(f) == IF f.type = Simple THEN Value 
                       ELSE UNION {Instances(c2) : c2 \in {f.type} \cup Subclasses[f.type]}
        lists(f) == {s \in SeqOf(elements(f), MaxLen) :
                        Len(s) \in MinOccurs(f) .. MaxOccurs(f)}
        values(f) == (IF f.min = 0 THEN {None} ELSE {})
                     \cup (IF MaxOccurs(f) > 1 THEN lists(f) ELSE elements(f))
    IN  FoldLeft(LAMBDA all, f : {inst @@ (f.name :> v) : inst \in all, v \in values(f)},
                 {<<>>}, FlatTypeInfo[c])
=============================================================================
