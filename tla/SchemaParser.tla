---------------------------- MODULE SchemaParser ----------------------------
(***************************************************************************)
(* XmlSchemaParser of spyne/interface/xml_schema/parser.py: classes of XML    *)
(* Schema files that import and include each other.  What refers to something *)
(* not seen yet waits, and is tried again when more was read.                *)
(*                                                                         *)
(* A file is [tns, nsmap, imports, includes, simple, complex, elements,       *)
(* attributes] in document order; a reference to a type or an element is        *)
(* [prefix, name].  A type is known by its namespace and name.                 *)
(***************************************************************************)
EXTENDS Nothing, SequencesExt, Naturals

Xsd == "xsd"
\* TYPE_MAP
BuiltIn == {"string", "int"}
NullType == <<Xsd, "null">>
Unknown == "unknown"            \* the prefix has no namespace

NewContext ==
    [tns |-> None, nsmap |-> <<>>, schema |-> <<>>, pending |-> <<>>, elements |-> <<>>]

\* The parser and its clones: retval is shared by all, and so are the simple types
\* that wait.
NewParser ==
    [types |-> <<>>, elements |-> <<>>, loaded |-> <<>>, imported |-> {},
     simple |-> {}, contexts |-> <<NewContext>>, children |-> <<>>, error |-> None]

Raise(st, error) == [st EXCEPT !.error = error]

\* One after the other, until one raises.
Each(Op(_, _), st, seq) ==
    FoldLeft(LAMBDA s, x : IF s.error # None THEN s ELSE Op(s, x), st, seq)

\* A dict of things with names.
PutNamed(seq, x) ==
    IF \E i \in DOMAIN seq : seq[i].name = x.name
    THEN [i \in DOMAIN seq |-> IF seq[i].name = x.name THEN x ELSE seq[i]]
    ELSE Append(seq, x)
DelNamed(seq, name) == SelectSeq(seq, LAMBDA x : x.name # name)
Distinct(seq) == FoldLeft(PutNamed, <<>>, seq)

-----------------------------------------------------------------------------
(* Names.                                                                   *)

\* get_name: a name without a prefix is in the default namespace, if there is one.
GetName(st, p, r) ==
    LET ctx == st.contexts[p]
    IN  CASE r.prefix \in DOMAIN ctx.nsmap -> <<ctx.nsmap[r.prefix], r.name>>
          [] r.prefix = None -> <<ctx.tns, r.name>>
          [] OTHER -> Unknown

\* get_type: a type, or that of an element, whose name is read as if it were written
\* in the schema at hand.
OrElse(t, u) == IF t = None THEN u ELSE t
RECURSIVE TypeNamed(_, _, _)
TypeNamed(st, p, q) ==
    LET of == st.elements[q]
        default == st.contexts[p].nsmap
    IN  CASE q = Unknown -> Unknown
          [] q # Unknown /\ q \in DOMAIN st.types -> q
          [] q # Unknown /\ q \in DOMAIN st.elements \ DOMAIN st.types ->
                CASE of = None -> None
                  [] of # None /\ of.prefix # None -> TypeNamed(st, p, GetName(st, p, of))
                  [] OTHER -> OrElse(TypeNamed(st, p, <<q[1], of.name>>),
                                     IF None \in DOMAIN default
                                     THEN TypeNamed(st, p, <<default[None], of.name>>) ELSE None)
          [] OTHER -> IF q[1] = Xsd /\ q[2] \in BuiltIn THEN q ELSE None
GetType(st, p, r) == IF r = None THEN NullType ELSE TypeNamed(st, p, GetName(st, p, r))

-----------------------------------------------------------------------------
(* Simple types.                                                            *)

\* process_simple_type, with those that wait for it.  Unions are skipped, and their
\* names stay unknown.
RECURSIVE AddBack(_, _, _)
PutSimpleType(st, p, s, base) ==
    CASE base = Unknown -> Raise(st, "KeyError")
      [] base = None -> [st EXCEPT !.simple = @ \cup {<<GetName(st, p, s.base), s>>}]
      [] OTHER ->
            AddBack([st EXCEPT !.types = <<st.contexts[p].tns, s.name>>
                                            :> [kind |-> s.kind, base |-> base, fields |-> <<>>] @@ @],
                    p, GetName(st, p, [prefix |-> None, name |-> s.name]))
ProcessSimpleType(st, p, s) ==
    IF s.kind = "union" \/ s.base = None THEN st
    ELSE PutSimpleType(st, p, s, GetType(st, p, s.base))
AddBack(st, p, key) ==
    FoldSet(LAMBDA w, g :
                IF g.error # None THEN g
                ELSE ProcessSimpleType([g EXCEPT !.simple = @ \ {w}], p, w[2]),
            st, {w \in st.simple : w[1] = key})

-----------------------------------------------------------------------------
(* Attributes, complex types and elements.                                   *)

\* process_attribute: [st, name, type].  A reference is named after its type.
AttributeOf(st, a, type) ==
    LET failed(error) == [st |-> Raise(st, error), name |-> None, type |-> None]
    IN  CASE type = Unknown -> failed("KeyError")
          [] a.ref # None /\ type # Unknown ->
                IF type \in DOMAIN st.types /\ st.types[type].kind = "attribute"
                THEN [st |-> st, name |-> st.types[type].base[2], type |-> type]
                ELSE failed("AttributeError")
          [] a.ref = None /\ type = None -> failed("ValueError")
          [] OTHER -> [st |-> st, name |-> a.name, type |-> type]
ProcessAttribute(st, p, a) ==
    AttributeOf(st, a, GetType(st, p, IF a.ref # None THEN a.ref ELSE a.type))

\* parse_schema: an attribute of the schema becomes a type.
PutAttribute(p, made) ==
    IF made.st.error # None THEN made.st
    ELSE [made.st EXCEPT !.types =
            <<made.st.contexts[p].tns, made.name>>
                :> [kind |-> "attribute", base |-> made.type, fields |-> <<>>] @@ @]
AddAttribute(st, p, a) == PutAttribute(p, ProcessAttribute(st, p, a))

\* An element without a type is skipped, and so is a reference to an attribute.
Members(c) ==
    SelectSeq(c.members, LAMBDA e : IF e.kind = "element" THEN e.ref # None \/ e.type # None
                                    ELSE e.ref = None /\ e.type # None)

\* process_element: an element that refers to another has its name.
MemberOf(e) ==
    [name |-> IF e.ref # None THEN e.ref.name ELSE e.name, kind |-> e.kind,
     ref |-> IF e.ref # None THEN e.ref ELSE e.type, occurs |-> e.occurs]

\* process_type: the member f of a type waits when its type is not there.
PutMember(acc, p, c, f, type) ==
    LET key == <<c.name, f.name>>
    IN  CASE type = Unknown -> [acc EXCEPT !.st = Raise(@, "KeyError")]
          [] type = None ->
                [acc EXCEPT !.st.contexts[p].pending = PutNamed(@, [name |-> key, of |-> c])]
          [] OTHER ->
                [acc EXCEPT !.st.contexts[p].pending = DelNamed(@, key),
                            !.ti = Append(@, [name |-> f.name, kind |-> f.kind, type |-> type,
                                              occurs |-> f.occurs])]
ProcessType(acc, p, c, f) ==
    IF acc.st.error # None THEN acc ELSE PutMember(acc, p, c, f, GetType(acc.st, p, f.ref))

\* process_complex_type: c has members, which are elements and attributes with types,
\* and may have simple content, the attributes and the base of which must be there.
\* What is there already is changed: members found late come last.
OwnMembers(st, p, c) ==
    FoldLeft(LAMBDA acc, e : ProcessType(acc, p, c, MemberOf(e)),
             [st |-> st, ti |-> <<>>, base |-> None], Members(c))

PutContentAttribute(acc, a, made) ==
    [acc EXCEPT !.st = made.st,
                !.ti = Append(@, [name |-> made.name, kind |-> "attribute", type |-> made.type,
                                  occurs |-> a.occurs])]
ContentAttributes(acc, p, c) ==
    FoldLeft(LAMBDA x, a : IF x.st.error # None THEN x
                           ELSE PutContentAttribute(x, a, ProcessAttribute(x.st, p, a)),
             acc, IF c.content = None THEN <<>> ELSE c.content.attributes)

PutContent(acc, p, c, base) ==
    CASE acc.st.error # None -> acc
      [] acc.st.error = None /\ base = Unknown -> [acc EXCEPT !.st = Raise(@, "KeyError")]
      [] acc.st.error = None /\ base = None -> [acc EXCEPT !.st = Raise(@, "TypeError")]
      [] OTHER ->
            IF base \in DOMAIN acc.st.types /\ acc.st.types[base].kind = "complex"
            THEN [acc EXCEPT !.base = base]
            ELSE ProcessType(acc, p, c, [name |-> "_data", kind |-> "data",
                                         ref |-> c.content.base, occurs |-> <<>>])
Content(acc, p, c) ==
    IF c.content = None THEN acc ELSE PutContent(acc, p, c, GetType(acc.st, p, c.content.base))

\* Members that are found late are left out.
BadPutComplexType(acc, q) ==
    IF acc.st.error # None \/ q \in DOMAIN acc.st.types THEN acc.st
    ELSE [acc.st EXCEPT !.types =
            q :> [kind |-> "complex", base |-> acc.base, fields |-> Distinct(acc.ti)] @@ @]

PutComplexType(acc, q) ==
    LET new == [kind |-> "complex", base |-> acc.base, fields |-> Distinct(acc.ti)]
    IN  IF acc.st.error # None THEN acc.st
        ELSE IF q \notin DOMAIN acc.st.types THEN [acc.st EXCEPT !.types = q :> new @@ @]
        ELSE IF acc.st.types[q].kind # "complex" THEN Raise(acc.st, "AttributeError")
        ELSE [acc.st EXCEPT !.types[q].fields = FoldLeft(PutNamed, @, acc.ti)]

ProcessComplexType(st, p, c) ==
    PutComplexType(Content(ContentAttributes(OwnMembers(st, p, c), p, c), p, c),
                   <<st.contexts[p].tns, c.name>>)

\* process_schema_element
PutElement(st, p, e, type) ==
    CASE type = Unknown -> Raise(st, "KeyError")
      [] type = None -> [st EXCEPT !.contexts[p].elements = PutNamed(@, e)]
      [] OTHER -> [st EXCEPT !.contexts[p].elements = DelNamed(@, e.name),
                             !.elements = <<st.contexts[p].tns, e.name>> :> e.type @@ @]
ProcessElement(st, p, e) == PutElement(st, p, e, GetType(st, p, e.type))

\* process_pending: an element that is found now is deleted from the dict that is
\* being walked through.
Walking(p, size, st) ==
    IF st.error = None /\ Len(st.contexts[p].elements) # size THEN Raise(st, "RuntimeError") ELSE st
PendingTypes(st, p) ==
    Each(LAMBDA s, w : ProcessComplexType(s, p, w.of), st, st.contexts[p].pending)
PendingElements(st, p) ==
    Each(LAMBDA s, e : Walking(p, Len(st.contexts[p].elements), ProcessElement(s, p, e)),
         st, st.contexts[p].elements)
ProcessPending(st, p) == IF st.error # None THEN st ELSE PendingElements(PendingTypes(st, p), p)

-----------------------------------------------------------------------------
(* Files: files has those of namespaces, places those that are included.       *)

\* clone: the clone of a schema that includes works on what that works on.
Clone(st, p) == [st EXCEPT !.children = Append(@, p)]

\* process_includes: what is included below comes first, attributes are left out.
Extended(st, p, file) ==
    IF st.error # None THEN st
    ELSE [st EXCEPT !.contexts[p].schema =
            [@ EXCEPT !.imports = @ \o file.imports, !.simple = @ \o file.simple,
                      !.complex = @ \o file.complex, !.elements = @ \o file.elements]]
RECURSIVE ProcessInclude(_, _, _, _)
ProcessInclude(st, p, places, location) ==
    LET file == places[location]
    IN  IF location \notin DOMAIN places THEN Raise(st, "IOError")
        ELSE Extended(Each(LAMBDA s, l : ProcessInclude(Clone(s, p), p, places, l),
                           [st EXCEPT !.contexts[p].nsmap = file.nsmap @@ @], file.includes),
                      p, file)

Start(st, p, file) ==
    [st EXCEPT !.contexts[p] = [NewContext EXCEPT !.tns = file.tns, !.nsmap = file.nsmap,
                                                  !.schema = file],
               !.loaded = Append(@, file.tns)]
Includes(st, p, places) ==
    Each(LAMBDA s, l : ProcessInclude(s, p, places, l), st, st.contexts[p].schema.includes)

SimpleTypes(st, p) ==
    Each(LAMBDA s, x : ProcessSimpleType(s, p, x), st, Distinct(st.contexts[p].schema.simple))
NoneLeft(st, p) ==
    IF st.error = None /\ st.contexts[p].schema.simple # <<>> /\ st.simple # {}
    THEN Raise(st, "AssertionError") ELSE st
Attributes(st, p) ==
    Each(LAMBDA s, a : AddAttribute(s, p, a), st, Distinct(st.contexts[p].schema.attributes))
ComplexTypes(st, p) ==
    Each(LAMBDA s, c : ProcessComplexType(s, p, c), st, Distinct(st.contexts[p].schema.complex))
Elements(st, p) ==
    Each(LAMBDA s, e : ProcessElement(s, p, e), st, Distinct(st.contexts[p].schema.elements))

\* parse_schema, in the context p.  What is there is not imported again.
RECURSIVE ParseSchema(_, _, _, _, _)
ImportNamespace(st, p, files, places, ns) ==
    LET q == Len(st.contexts) + 1
        clone == [Clone(st, q) EXCEPT !.contexts = Append(@, NewContext),
                                      !.imported = @ \cup {<<st.contexts[p].tns, ns>>}]
    IN  CASE ns \in ToSet(st.loaded) -> st
          [] ns \notin ToSet(st.loaded) /\ ns \notin DOMAIN files -> Raise(st, "KeyError")
          [] OTHER -> ParseSchema(clone, q, files, places, files[ns])
Imports(st, p, files, places) ==
    Each(LAMBDA s, ns : ImportNamespace(s, p, files, places, ns), st, st.contexts[p].schema.imports)

ParseSchema(st, p, files, places, file) ==
    LET imported == Imports(Includes(Start(st, p, file), p, places), p, files, places)
    IN  IF file.tns \in ToSet(st.loaded) THEN st
        ELSE ProcessPending(Elements(ComplexTypes(Attributes(
                    NoneLeft(SimpleTypes(imported, p), p), p), p), p), p)

\* What still waits is an error only for a parser that has clones: for another it is
\* left out without a word.
Waits(st, p) == st.contexts[p].pending # <<>> \/ st.contexts[p].elements # <<>> \/ st.simple # {}
AllParsers(st) == <<1>> \o st.children
NoneWaits(st) ==
    IF st.error = None /\ \E i \in DOMAIN AllParsers(st) : Waits(st, AllParsers(st)[i])
    THEN Raise(st, "unresolved") ELSE st
Again(st) == IF st.error # None \/ st.children = <<>> THEN st
             ELSE NoneWaits(Each(ProcessPending, st, AllParsers(st) \o AllParsers(st)))
Parse(files, places, file) == Again(ParseSchema(NewParser, 1, files, places, file))
=============================================================================
