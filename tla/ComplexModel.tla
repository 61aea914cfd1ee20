----------------------------- MODULE ComplexModel -----------------------------
(***************************************************************************)
(* Classes of spyne/model/complex.py while a program defines, customizes     *)
(* and extends them: ComplexModelMeta, ComplexModelBase.customize and        *)
(* append_field, insert_field, and the memoized views of a class.            *)
(*                                                                          *)
(* A class is a number, in the order of creation, but the variants that one  *)
(* call of customize makes are numbered so that a base comes before what     *)
(* extends it.  A customized class is a variant of the one it was customized *)
(* from first, its __orig__.  A field is a name and the customizations its   *)
(* type has had; a customization of a field's type is a Token, whatever      *)
(* attribute it sets.  What a class keeps in its Attributes others find      *)
(* there, as these are looked up in the bases.                               *)
(***************************************************************************)
EXTENDS SequencesExt, FiniteSets, Naturals

CONSTANTS
    Field,       \* names of fields
    Token,       \* customizations
    MaxClasses,  \* bound: no class is defined or customized from this many on
    MaxSets,     \* bound: fields appended and inserted
    MaxViews     \* bound: entries of the memos

VARIABLES
    classes,     \* the classes, see NewClass
    variants,    \* _variants, of the Attributes that have it themselves
    subclasses,  \* _subclasses, likewise; {} is None
    flat,        \* memo of get_flat_type_info
    below,       \* memo of get_subclasses, as sets
    asked,       \* for the properties: <<field, token>> asked of each class
    again,       \* for the properties: <<class, field>> that was set once more
    direct,      \* for the properties: variants that were given a field themselves,
                 \* and the variants made of these
    sets         \* fields appended and inserted, see MaxSets

classVars == <<classes, variants, subclasses, flat, below, asked, again, direct, sets>>

Absent == 0
All == "all"  \* child_attrs_all asks for every field
Empty == <<>>

-----------------------------------------------------------------------------
(* Ordered dictionaries of fields: odict.                                   *)

Names(fields) == [i \in DOMAIN fields |-> fields[i].name]
Has(fields, k) == k \in ToSet(Names(fields))
Position(fields, k) == CHOOSE i \in DOMAIN fields : Names(fields)[i] = k
Get(fields, k) == fields[Position(fields, k)]

SetItem(fields, f) ==
    IF Has(fields, f.name) THEN [fields EXCEPT ![Position(fields, f.name)] = f]
    ELSE Append(fields, f)

\* list.insert takes an index past the end for the end.
Insert(fields, index, f) ==
    LET others == IF Has(fields, f.name) THEN RemoveAt(fields, Position(fields, f.name))
                  ELSE fields
        n == IF index > Len(others) THEN Len(others) ELSE index
    IN  InsertAt(others, n + 1, f)

Update(fields, new) ==
    LET set[n \in 0 .. Len(new)] == IF n = 0 THEN fields ELSE SetItem(set[n - 1], new[n])
    IN  set[Len(new)]

-----------------------------------------------------------------------------
(* Views of a class.                                                        *)

\* The bases of the class, the first one first, and the class.
Chain(cs, c) ==
    LET up[n \in 0 .. Len(cs)] == IF n = Absent THEN <<>> ELSE up[cs[n].extends] \o <<n>>
    IN  up[c]

\* _get_flat_type_info: the fields of the base, updated with those of the class.
FlatTypeInfo(cs, c) ==
    LET info[n \in 0 .. Len(cs)] ==
            IF n = Absent THEN <<>> ELSE Update(info[cs[n].extends], cs[n].fields)
    IN  info[c]

Root(cs, c) == IF cs[c].orig = Absent THEN c ELSE cs[c].orig

-----------------------------------------------------------------------------
(* Attributes, which inherit from those of the class or of the first base.  *)

Parent(cs, c) ==
    CASE cs[c].orig # Absent -> cs[c].orig
      [] cs[c].orig = Absent /\ cs[c].base # Absent -> cs[c].base
      [] OTHER -> cs[c].mixin

\* The class an attribute is found in, Absent if it is in none.
Lookup(cs, attr, c) ==
    LET at[n \in 0 .. Len(cs)] ==
            IF n = Absent \/ n \in DOMAIN attr THEN n ELSE at[Parent(cs, n)]
    IN  at[c]

Own(attr, c) == IF c \in DOMAIN attr THEN attr[c] ELSE {}
Found(cs, attr, c) == Own(attr, Lookup(cs, attr, c))

Variants(c) == Found(classes, variants, c)

\* get_subclasses(): what is listed, and what those that are listed say, from the memo
\* if they are in it: so are all that the memo says are below them.
Said(cs, subs, memo, c) == IF c \in DOMAIN memo THEN memo[c] ELSE Found(cs, subs, c)
Subclasses(cs, subs, memo, c) ==
    {d \in DOMAIN cs : \A S \in SUBSET DOMAIN cs :
        /\ Said(cs, subs, memo, c) \subseteq S
        /\ \A e \in S : Said(cs, subs, memo, e) \subseteq S
        => d \in S}

-----------------------------------------------------------------------------
(* Definition and customization.                                            *)

\* The fields of a mixin, in its order, come first.
Mixed(fields, mixin) ==
    LET m == Len(mixin)
        put[n \in 0 .. m] == IF n = 0 THEN fields ELSE Insert(put[n - 1], 0, mixin[m + 1 - n])
    IN  put[m]

\* _get_type_info: a base that has fields is extended.  Otherwise __extends__ is not
\* set, and the one of the base is found.
NewClass(cs, base, mixin, fields) ==
    [orig |-> Absent, base |-> base, mixin |-> mixin, all |-> {},
     delayed |-> [k \in Field |-> {}],
     extends |-> IF base = Absent THEN Absent
                 ELSE IF cs[base].fields = <<>> THEN cs[base].extends ELSE base,
     fields |-> IF mixin = Absent THEN fields ELSE Mixed(fields, FlatTypeInfo(cs, mixin))]

\* The class is put on the list that is found in the one it extends.  If it finds that
\* list itself, it gets one of its own, None.
Registered(cs, subs, c) ==
    LET e == cs[c].extends
        l == IF Found(cs, subs, e) = {} THEN e ELSE Lookup(cs, subs, e)
        listed == [n \in DOMAIN subs \cup {l} |-> IF n = l THEN Own(subs, n) \cup {c} ELSE subs[n]]
        more == IF Lookup(cs, listed, c) = l THEN {c} ELSE {}
    IN  IF e = Absent THEN subs
        ELSE [n \in DOMAIN listed \cup more |-> Own(listed, n)]

Customize(f, tokens) == [f EXCEPT !.cust = @ \cup tokens]

\* What variants extend: a base that had no fields when the class was defined may
\* have some now.
Rebase(cs) ==
    [c \in DOMAIN cs |-> [cs[c] EXCEPT !.extends =
        IF @ # Absent \/ cs[c].base = Absent THEN @
        ELSE IF cs[cs[c].base].fields = <<>> THEN Absent ELSE cs[c].base]]

\* customize() makes a variant of the class and of each of its bases; made[d] is the
\* one of d.  The variant of the class is the last.
WithVariants(cs, c, made) ==
    LET chain == Chain(cs, c)
    IN  [i \in DOMAIN chain |->
            [made[chain[i]] EXCEPT
                !.orig = Root(cs, chain[i]),
                !.extends = IF i = 1 THEN Absent ELSE Len(cs) + i - 1]]

\* _process_variants: the variants that are made of a chain of classes are kept where
\* the originals find a dictionary, or else in these.  Variants have none.
Keeper(cs, vars, c) ==
    IF Lookup(cs, vars, Root(cs, c)) = Absent THEN Root(cs, c) ELSE Lookup(cs, vars, Root(cs, c))
KeepVariants(cs, vars, chain) ==
    LET keepers == {Keeper(cs, vars, chain[i]) : i \in DOMAIN chain}
        kept(n) == {Len(cs) + i : i \in {j \in DOMAIN chain : Keeper(cs, vars, chain[j]) = n}}
    IN  [n \in DOMAIN vars \cup keepers \cup {Len(cs) + i : i \in DOMAIN chain} |->
            Own(vars, n) \cup kept(n)]

\* _process_child_attrs with child_attrs_all, which fields to come have as well.
ChildAttrsAll(cs, c, t) ==
    WithVariants(cs, c, [d \in ToSet(Chain(cs, c)) |->
        [cs[d] EXCEPT !.fields = [j \in DOMAIN @ |-> Customize(@[j], {t})], !.all = {t}]])

\* The field is customized where it is, in the class or else in the first base that
\* has it.  The classes that have no such field keep the customization for later.
ChildAttrs(cs, c, k, t) ==
    LET own(d) == Has(cs[d].fields, k)
        done(d) == \E e \in ToSet(Chain(cs, c)) : d < e /\ own(e)
        inherited(d) == ~own(d) /\ Has(FlatTypeInfo(cs, d), k)
    IN  WithVariants(cs, c, [d \in ToSet(Chain(cs, c)) |->
            CASE done(d) \/ inherited(d) -> cs[d]
              [] ~done(d) /\ own(d) ->
                    [cs[d] EXCEPT !.fields = SetItem(@, Customize(Get(@, k), {t}))]
              [] OTHER -> [cs[d] EXCEPT !.delayed[k] = {t}]])

\* The customizations that wait for the field are forgotten.
BadDelayed(class, k) == [name |-> k, cust |-> {}]

\* A field as a class takes it, with what was delayed.
Delayed(class, k) == [name |-> k, cust |-> class.all \cup class.delayed[k]]

-----------------------------------------------------------------------------

ClassesInit ==
    /\ classes = <<>>
    /\ variants = Empty
    /\ subclasses = Empty
    /\ flat = Empty
    /\ below = Empty
    /\ asked = <<>>
    /\ again = {}
    /\ direct = {}
    /\ sets = 0

MayGrow == Len(classes) < MaxClasses

\* A customized class is neither a base nor a mixin, and a mixin has no bases itself.
MayInherit(base, mixin) ==
    /\ base # Absent => /\ classes[base].orig = Absent
                        /\ \A d \in DOMAIN classes : classes[d].mixin # base
    /\ mixin # Absent => /\ Parent(classes, mixin) = Absent
                         /\ \A d \in DOMAIN classes : classes[d].base # mixin
                         /\ base # mixin

Memoized(c) ==
    [d \in DOMAIN flat \cup {c} |-> IF d \in DOMAIN flat THEN flat[d] ELSE FlatTypeInfo(classes, d)]

Defined(base, mixin, fields) ==
    /\ MayGrow
    /\ MayInherit(base, mixin)
    /\ classes' = Append(classes, NewClass(classes, base, mixin, fields))
    /\ subclasses' = Registered(classes', subclasses, Len(classes'))
    /\ flat' = IF mixin = Absent THEN flat ELSE Memoized(mixin)
    /\ asked' = Append(asked, {})
    /\ UNCHANGED <<variants, again, direct, sets>>

\* The memo is left to itself.
BadDefine(base, mixin, fields) == Defined(base, mixin, fields) /\ UNCHANGED below

\* A class statement.  The memo is cleared for a base that has fields.
Define(base, mixin, fields) ==
    /\ Defined(base, mixin, fields)
    /\ below' = IF base # Absent /\ classes[base].fields # <<>> THEN Empty ELSE below

\* What is asked of the variant is what was asked of the class, and the latest.
Customizes(c, k, t) ==
    LET cs == Rebase(classes)
        chain == Chain(cs, c)
    IN  /\ MayGrow
        /\ classes' = classes \o (IF k = All THEN ChildAttrsAll(cs, c, t)
                                  ELSE ChildAttrs(cs, c, k, t))
        /\ variants' = KeepVariants(classes, variants, chain)
        /\ asked' = asked \o [i \in DOMAIN chain |->
                                 IF i < Len(chain) THEN {}
                                 ELSE {a \in asked[c] : a[1] # k} \cup {<<k, t>>}]
        /\ again' = again \cup {<<Len(classes) + p[1], p[2]>> :
               p \in {r \in (DOMAIN chain) \X Field : <<chain[r[1]], r[2]>> \in again}}
        /\ direct' = direct \cup {Len(classes) + i :
               i \in {j \in DOMAIN chain : chain[j] \in direct}}
        /\ flat' = Empty
        /\ below' = Empty
        /\ UNCHANGED <<subclasses, sets>>

\* The class and the variants it finds: its own, and if these are kept with those of a
\* base, all of them.
Reached(c) == {c} \cup Variants(c)

SetMore(c, k) ==
    /\ sets < MaxSets
    /\ sets' = sets + 1
    /\ again' = again \cup {<<d, k>> : d \in {e \in Reached(c) : Has(FlatTypeInfo(classes, e), k)}}
    /\ direct' = IF classes[c].orig = Absent THEN direct ELSE direct \cup {c}

\* The variants are not told.
BadAppendField(c, k) ==
    /\ classes' = [classes EXCEPT ![c].fields = SetItem(@, Delayed(classes[c], k))]
    /\ flat' = Empty
    /\ SetMore(c, k)
    /\ UNCHANGED <<variants, subclasses, below, asked>>

\* The field is appended to the class and to its variants.
AppendField(c, k) ==
    /\ classes' = [d \in DOMAIN classes |->
                     IF d \in Reached(c)
                     THEN [classes[d] EXCEPT !.fields = SetItem(@, Delayed(classes[d], k))]
                     ELSE classes[d]]
    /\ flat' = Empty
    /\ SetMore(c, k)
    /\ UNCHANGED <<variants, subclasses, below, asked>>

\* What was delayed for the field is used up.
Inserted(c, index, k) ==
    /\ classes' = [d \in DOMAIN classes |->
                     IF d \in Reached(c)
                     THEN [classes[d] EXCEPT
                              !.fields = Insert(@, index, Delayed(classes[d], k)),
                              !.delayed[k] = {}]
                     ELSE classes[d]]
    /\ SetMore(c, k)
    /\ UNCHANGED <<variants, subclasses, below, asked>>

\* The memo of the fields is left to itself.
BadInsertField(c, index, k) == Inserted(c, index, k) /\ UNCHANGED flat

\* The field is inserted into the class and its variants.
InsertField(c, index, k) == Inserted(c, index, k) /\ flat' = Empty

MayMemoize == Cardinality(DOMAIN flat) + Cardinality(DOMAIN below) < MaxViews

\* The memoized functions.  To ask for subclasses is to ask these for theirs.
GetFlatTypeInfo(c) ==
    /\ MayMemoize /\ c \notin DOMAIN flat
    /\ flat' = Memoized(c)
    /\ UNCHANGED <<classes, variants, subclasses, below, asked, again, direct, sets>>

GetSubclasses(c) ==
    LET said(d) == Subclasses(classes, subclasses, below, d)
    IN  /\ MayMemoize /\ c \notin DOMAIN below
        /\ below' = [d \in DOMAIN below \cup {c} \cup said(c) |-> said(d)]
        /\ UNCHANGED <<classes, variants, subclasses, flat, asked, again, direct, sets>>

Plain(k) == [name |-> k, cust |-> {}]

ClassesNext ==
    \/ \E base, mixin \in {Absent} \cup DOMAIN classes :
          \/ Define(base, mixin, <<>>)
          \/ \E k \in Field : Define(base, mixin, <<Plain(k)>>)
    \/ \E c \in DOMAIN classes :
          \/ \E k \in Field \cup {All}, t \in Token : Customizes(c, k, t)
          \/ \E k \in Field : AppendField(c, k) \/ InsertField(c, 0, k) \/ InsertField(c, 1, k)
          \/ GetFlatTypeInfo(c)
          \/ GetSubclasses(c)

ClassesSpec == ClassesInit /\ [][ClassesNext]_classVars

-----------------------------------------------------------------------------

\* A class that extends what its base does, as that had no fields.
Inheriting(c) == classes[c].extends # classes[c].base

\* What the memoized views of a class say is what they would say if they were
\* computed again, whatever was defined, customized or extended since: a class has
\* the fields of its view, and those that are listed below it are there.
NothingStale ==
    /\ \A c \in DOMAIN flat : flat[c] = FlatTypeInfo(classes, c)
    /\ \A c \in DOMAIN below : below[c] \subseteq Subclasses(classes, subclasses, Empty, c)

\* What would be listed below a class is, except classes whose base had no fields: the
\* memo is not cleared for these.
NothingMissing ==
    \A c \in DOMAIN below : \A d \in Subclasses(classes, subclasses, Empty, c) :
        d \notin below[c] => Inheriting(d)

\* Another class finds the variants of the class as well.
Shared(c) == \E d \in DOMAIN classes : d # c /\ Variants(d) \cap Variants(c) # {}

\* The variants of a class have its fields, whenever these came.  They have no others,
\* and have them in its order, except those that were given a field of their own, and
\* those of a class that shares its variants with a base, or with a class that has it
\* as a base: what any of these is given goes to the variants of all.
VariantsFollow ==
    \A c \in DOMAIN classes : classes[c].orig # Absent =>
        LET orig == classes[c].orig
        IN  /\ ToSet(Names(classes[orig].fields)) \subseteq ToSet(Names(classes[c].fields))
            /\ c \notin direct /\ ~Shared(orig) =>
                  Names(classes[c].fields) = Names(classes[orig].fields)

\* The class, or one it extends, is a variant and extends what its original does not.
Rebased(c) ==
    \E d \in ToSet(Chain(classes, c)) :
        classes[d].extends # Absent /\ classes[Root(classes, d)].extends = Absent

\* The latest customization that was asked of a field, by its name or for all of
\* the fields, is found on it, be it older or younger than the customization, in
\* the class or in a base, unless the field was set once more, or the class got a base
\* that its original does not extend.
Customized ==
    \A c \in DOMAIN classes : ~Rebased(c) => \A a \in asked[c] :
        LET info == FlatTypeInfo(classes, c)
            concerned == {f \in ToSet(info) : a[1] \in {f.name, All}}
        IN  \A f \in concerned :
                a[2] \in f.cust \/ \E d \in ToSet(Chain(classes, c)) : <<d, f.name>> \in again

\* Customizations survive everything that is done to the fields of a class.
CustomizationsKept == VariantsFollow /\ Customized
=============================================================================
