-------------------------------- MODULE Cloth --------------------------------
(***************************************************************************)
(* The cloth protocols: ToClothMixin of spyne/protocol/cloth/to_cloth.py     *)
(* writes an instance into a template, "cloth", of which some elements are    *)
(* the places of its fields.  The output is written in one pass: elements    *)
(* are entered, and left when the next one to enter is somewhere else, and   *)
(* what lies between is copied.                                              *)
(*                                                                         *)
(* The elements of a template are numbered in document order; each has its   *)
(* parent, 0 for the root, the fields its spyne-id, spyne-attr and           *)
(* spyne-data attributes name, and whether it is a spyne-data element.  The  *)
(* texts and tails of all elements are different.  A type is a record of its *)
(* kind, "simple", "array" or "complex", its fields, whether it is required   *)
(* and whether it is excluded.                                               *)
(***************************************************************************)
EXTENDS SequencesExt, FiniteSetsExt, Naturals, Nothing

IsUnder(t, e, a) == LET above[d \in 0 .. e] == d # 0 /\ (t[d].parent = a \/ above[t[d].parent])
                    IN  above[e]

\* _revancestors
Ancestors(t, e) == SelectSeq([d \in 1 .. e |-> d], LAMBDA a : IsUnder(t, e, a))

Children(t, e) == SelectSeq([d \in DOMAIN t |-> d], LAMBDA d : t[d].parent = e)

Following(t, e) == SelectSeq(Children(t, t[e].parent), LAMBDA d : d > e)

\* _prevsibls: those after another one, if that is one of them.
Previous(t, e, since) ==
    SelectSeq(Children(t, t[e].parent),
              LAMBDA d : d < e /\ (since # None /\ since <= e
                                    /\ t[since].parent = t[e].parent => d > since))

IsMarked(f) == f.id # None \/ f.attr # None \/ f.data # None

\* _get_outmost_elts: what is below an element that has an id is its own.
OutmostElts(t, e) ==
    SelectSeq([d \in DOMAIN t |-> d],
              LAMBDA d : /\ IsUnder(t, d, e)
                         /\ IsMarked(t[d])
                         /\ ~\E a \in ToSet(Ancestors(t, d)) :
                               IsUnder(t, a, e) /\ t[a].id # None)

-----------------------------------------------------------------------------
(* The output, a sequence of events, with the stack of the elements that are   *)
(* entered and those that were skipped.                                     *)

NewOutput == [stack |-> <<>>, tags |-> {}, out |-> <<>>]

Write(st, events) == [st EXCEPT !.out = @ \o events]

Event(kind, x) == [kind |-> kind, of |-> x]

\* An element is written with all that is in it, and its tail.
RECURSIVE Whole(_, _)
Whole(t, e) ==
    <<Event("open", e), Event("text", e)>>
        \o FlattenSeq([i \in DOMAIN Children(t, e) |-> Whole(t, Children(t, e)[i])])
        \o <<Event("close", e), Event("tail", e)>>

WriteAll(t, st, elts) == FoldLeft(LAMBDA s, d : Write(s, Whole(t, d)), st, elts)

Unskipped(st, elts) == SelectSeq(elts, LAMBDA d : d \notin st.tags)

\* The end of the element on top, unless that was skipped.
Leave(t, st) ==
    LET top == Last(st.stack)
    IN  Write([st EXCEPT !.stack = Front(@)],
              IF top.open THEN <<Event("close", top.elt), Event("tail", top.elt)>> ELSE <<>>)

OnPath(st, ancestors) ==
    /\ Len(st.stack) <= Len(ancestors)
    /\ \A i \in DOMAIN st.stack : st.stack[i].elt = ancestors[i]

\* What comes behind an element is written only below the last one that is left.
RECURSIVE BadMoveUp(_, _, _, _)
BadMoveUp(t, st, ancestors, last) ==
    IF OnPath(st, ancestors) THEN [st |-> st, last |-> last]
    ELSE LET left == Leave(t, st)
             top == Last(st.stack).elt
         IN  BadMoveUp(t, WriteAll(t, left, Following(t, top)), ancestors, top)

\* Up to an element above the one to enter.  What comes behind the last one that is
\* left is not written: some of it may be to enter.
RECURSIVE MoveUp(_, _, _, _)
MoveUp(t, st, ancestors, last) ==
    IF OnPath(st, ancestors) THEN [st |-> st, last |-> last]
    ELSE LET left == Leave(t, st)
             top == Last(st.stack).elt
         IN  MoveUp(t, IF OnPath(left, ancestors) THEN left
                       ELSE WriteAll(t, left, Following(t, top)),
                    ancestors, top)

Push(st, e, open) == [st EXCEPT !.stack = Append(@, [elt |-> e, open |-> open])]

\* Down to the element to enter, with what comes before on each level.
MoveDown(t, st, ancestors, last) ==
    FoldLeft(LAMBDA s, a :
                Push(Write(WriteAll(t, s, Unskipped(s, Previous(t, a, last))),
                           <<Event("open", a), Event("text", a)>>),
                     a, TRUE),
             st, SubSeq(ancestors, Len(st.stack) + 1, Len(ancestors)))

\* _enter_cloth
EnterCloth(t, st, e, skip, skipDupe, attrs) ==
    IF skipDupe /\ st.stack # <<>> /\ Last(st.stack).elt = e THEN st
    ELSE LET ancestors == Ancestors(t, e)
             up == MoveUp(t, st, ancestors, IF st.stack = <<>> THEN None ELSE Last(st.stack).elt)
             down == MoveDown(t, up.st, ancestors, up.last)
             before == WriteAll(t, down, Unskipped(down, Previous(t, e, up.last)))
         IN  IF skip \/ t[e].tag THEN Push([before EXCEPT !.tags = @ \cup {e}], e, FALSE)
             ELSE Push(Write(before, <<Event("open", e)>> \o attrs \o <<Event("text", e)>>), e, TRUE)

\* _close_cloth: write() has written the tail already.
RECURSIVE CloseCloth(_, _)
CloseCloth(t, st) ==
    IF st.stack = <<>> THEN st
    ELSE LET behind == Following(t, Last(st.stack).elt)
         IN  CloseCloth(t, Write(Leave(t, st),
                   FlattenSeq([i \in DOMAIN behind |->
                                 Append(Whole(t, behind[i]), Event("tail", behind[i]))])))

-----------------------------------------------------------------------------
(* Values.                                                                  *)

RECURSIVE ToCloth(_, _, _, _, _, _, _), ComplexToCloth(_, _, _, _, _)

\* array_to_cloth: the place of an array without elements is skipped.
ArrayToCloth(t, st, type, inst, e) ==
    IF inst = <<>> THEN EnterCloth(t, st, e, TRUE, FALSE, <<>>)
    ELSE FoldLeft(LAMBDA s, v : ToCloth(t, s, type.of, v, e, FALSE, FALSE), st, inst)

\* _process_field
ProcessField(t, st, type, inst, e, k, asAttr, asData) ==
    IF k \notin DOMAIN type.fields THEN EnterCloth(t, st, e, TRUE, FALSE, <<>>)
    ELSE IF type.fields[k].exc THEN st
    ELSE ToCloth(t, IF asData THEN EnterCloth(t, st, e, TRUE, TRUE, <<>>) ELSE st,
                 type.fields[k], inst[k], e, asAttr, asData)

\* The fields of one element: the first that is neither an attribute nor data is
\* the last.
ProcessElt(t, st, type, inst, e) ==
    LET field(s, k, asAttr, asData) ==
            IF k = None THEN s ELSE ProcessField(t, s, type, inst, e, k, asAttr, asData)
        first == field(st, t[e].id, FALSE, t[e].tag)
    IN  IF t[e].id # None /\ ~t[e].tag THEN first
        ELSE field(field(first, t[e].attr, TRUE, t[e].tag), t[e].data, FALSE, TRUE)

ComplexToCloth(t, st, type, inst, e) ==
    LET entered == EnterCloth(t, st, e, FALSE, FALSE, <<>>)
        own == IF t[e].data = None THEN entered
               ELSE ProcessField(t, entered, type, inst, e, t[e].data, FALSE, TRUE)
    IN  FoldLeft(LAMBDA s, d : ProcessElt(t, s, type, inst, d), own, OutmostElts(t, e))

\* A value that is required and missing leaves its place as it is, inside itself.
ToCloth(t, st, type, inst, e, asAttr, asData) ==
    IF inst = None
    THEN IF type.required
         THEN Write(EnterCloth(t, st, e, FALSE, FALSE, IF asAttr THEN <<Event("attr", None)>> ELSE <<>>),
                    Whole(t, e))
         ELSE EnterCloth(t, st, e, TRUE, FALSE, <<>>)
    ELSE IF asData THEN Write(st, <<Event("value", inst)>>)
    ELSE IF asAttr THEN EnterCloth(t, st, e, FALSE, FALSE, <<Event("attr", inst)>>)
    ELSE CASE type.kind = "array" -> ArrayToCloth(t, st, type, inst, e)
           [] type.kind = "complex" -> ComplexToCloth(t, st, type, inst, e)
           [] OTHER -> Write(EnterCloth(t, st, e, FALSE, FALSE, <<>>), <<Event("value", inst)>>)

\* subserialize, with a cloth of its own.
Subserialize(t, type, inst) ==
    CloseCloth(t, ToCloth(t, NewOutput, type, inst, 1, FALSE, FALSE)).out
=============================================================================
