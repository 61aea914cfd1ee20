------------------------------- MODULE Tables -------------------------------
(***************************************************************************)
(* The relational store: gen_sqla_info of spyne/store/relational/_base.py    *)
(* makes a table and a mapper of each class that names a table, and          *)
(* add_column extends them with the fields that are appended later.          *)
(*                                                                         *)
(* A program is a record of its storages, the table() objects that fields    *)
(* are stored as, its classes in the order of their definition, and the      *)
(* fields that are appended then.  A field refers to its storage by number,  *)
(* since two fields may share one.  A name is the sequence of the names that *)
(* are joined by underscores.                                               *)
(*                                                                         *)
(* SQLAlchemy is external: a table is a function from the names of its       *)
(* columns to their types and foreign keys, a mapper one from properties to  *)
(* what they stand for.                                                     *)
(***************************************************************************)
EXTENDS SequencesExt, Functions, FiniteSetsExt, Naturals, TLC, Nothing

-----------------------------------------------------------------------------
(* Types of columns.  Integers are records of their kind, "int" or "uint", and *)
(* the bits they have, others of kind and length.  None stands for no limit.  *)

\* Whether _get_sqlalchemy_type returns a class, not an instance of one.
IsClass(type) == type.kind \notin {"Unicode", "String", "DateTime"}

\* Unsigned numbers get the column of the signed ones of their width.
SqlType(t) ==
    CASE t.kind \in {"int", "uint"} ->
            [size |-> None,
             kind |-> CASE t.size = None -> "DECIMAL"
                        [] t.size = 64 -> "BigInteger"
                        [] t.size = 32 -> "Integer"
                        [] OTHER -> "SmallInteger"]
      [] t.kind = "text" -> IF t.size = None THEN [kind |-> "UnicodeText", size |-> None]
                            ELSE [kind |-> "Unicode", size |-> t.size]
      [] t.kind = "bytes" -> IF t.size = None THEN [kind |-> "Text", size |-> None]
                             ELSE [kind |-> "String", size |-> t.size]

\* _get_spyne_type: what a column becomes when its table is reflected.
SpyneType(type) ==
    CASE type.kind = "DECIMAL" -> [kind |-> "decimal", size |-> None]
      [] type.kind = "BigInteger" -> [kind |-> "int", size |-> 64]
      [] type.kind = "Integer" -> [kind |-> "int", size |-> 32]
      [] type.kind = "SmallInteger" -> [kind |-> "int", size |-> 16]
      [] OTHER -> [kind |-> "text", size |-> type.size]

-----------------------------------------------------------------------------
(* Classes.  A program as far as the fields of its classes.                  *)

\* The name of a table is inherited: a subclass cannot give another one.
RECURSIVE TableName(_, _)
TableName(classes, c) ==
    LET inherited == IF classes[c].extends = 0 THEN None ELSE TableName(classes, classes[c].extends)
    IN  IF inherited # None THEN inherited ELSE classes[c].table

RECURSIVE FlatFields(_, _)
FlatFields(classes, c) ==
    (IF classes[c].extends = 0 THEN <<>> ELSE FlatFields(classes, classes[c].extends))
        \o classes[c].fields

\* get_pk_columns, whose only element is taken.
PkColumns(classes, c) == SelectSeq(FlatFields(classes, c), LAMBDA f : f.pk)
HasOnePk(classes, c) == Len(PkColumns(classes, c)) = 1
Pk(classes, c) == PkColumns(classes, c)[1]

\* The column of a field, unless its name is given.
ColumnName(f) == IF f.column = None THEN f.name ELSE f.column

Column(type, ref) == [type |-> type, ref |-> ref, pk |-> FALSE, nullable |-> TRUE]

\* _sp_attrs_to_sqla_constraints: subclasses share the table of their parent.
Constrained(classes, c, f, col) ==
    IF ~f.nullable /\ classes[c].extends = 0 THEN [col EXCEPT !.nullable = FALSE] ELSE col

\* A foreign key refers to a column by the name of the field.
KeyTo(classes, c) ==
    Column(SqlType(Pk(classes, c).type), <<TableName(classes, c), Pk(classes, c).name>>)

-----------------------------------------------------------------------------
(* The metadata.                                                            *)

NewDatabase(storages) ==
    [ok |-> TRUE, tables |-> <<>>, mapped |-> {}, props |-> <<>>, storage |-> storages]

Fail(st) == [st EXCEPT !.ok = FALSE]

\* A column is appended, unless the table has one of its name.
AddColumn(st, table, name, col) ==
    [st EXCEPT !.tables[table] = IF name \in DOMAIN @ THEN @ ELSE @ @@ (name :> col)]

\* A mapper has the properties of those it inherits from.
RECURSIVE HasProperty(_, _, _, _)
HasProperty(classes, st, c, name) ==
    /\ c # 0
    /\ \/ c \in DOMAIN st.props /\ name \in DOMAIN st.props[c]
       \/ HasProperty(classes, st, classes[c].extends, name)

SetProperty(st, c, name, prop) == [st EXCEPT !.props[c] = (name :> prop) @@ @]

\* A property is added to the mapper of a class, unless it has one of that name.  A
\* class that is being mapped has the last property of a name.
AddProperty(classes, st, c, name, prop) ==
    IF c \in st.mapped /\ HasProperty(classes, st, c, name) THEN st
    ELSE SetProperty(st, c, name, prop)

Simple(table, name) == [kind |-> "column", to |-> 0, cols |-> <<<<table, name>>>>]
Relation(kind, to, cols) == [kind |-> kind, to |-> to, cols |-> cols]

\* _add_simple_type
AddSimpleType(classes, st, c, f) ==
    LET table == TableName(classes, c)
        added == AddColumn(st, table, ColumnName(f),
                     Constrained(classes, c, f,
                         [Column(SqlType(f.type), None) EXCEPT !.pk = f.pk]))
    IN  IF f.excDb THEN st
        ELSE IF f.excMapper THEN added
        ELSE AddProperty(classes, added, c, f.name, Simple(table, ColumnName(f)))

\* _add_complex_type_as_xml, _add_complex_type_as_json
AddDocument(classes, st, c, f) ==
    LET table == TableName(classes, c)
        col == Constrained(classes, c, f,
                           Column([kind |-> st.storage[f.store].as, size |-> None], None))
    IN  AddProperty(classes, IF f.name \in DOMAIN st.tables[table] THEN st
                    ELSE AddColumn(st, table, ColumnName(f), col),
                    c, f.name, Simple(table, ColumnName(f)))

\* _get_col_o2o, as far as the name of the column, and _get_col_o2m.
OneToOneName(classes, f, given) ==
    IF given # None THEN given ELSE ColumnName(f) \o Pk(classes, f.class).name
OneToManyName(classes, c, given) ==
    IF given # None THEN given ELSE TableName(classes, c) \o Pk(classes, c).name

\* The name is taken from the storage and not written back.
BadRelate(classes, st, c, f) ==
    LET table == TableName(classes, c)
        name == OneToOneName(classes, f, st.storage[f.store].left)
        col == Constrained(classes, c, f, KeyTo(classes, f.class))
    IN  IF name = ColumnName(f) THEN Fail(st)
        ELSE AddProperty(classes, AddProperty(classes, AddColumn(st, table, name, col),
                                     c, f.name, Relation("one", f.class, <<<<table, name>>>>)),
                         c, name, Simple(table, name))

\* The column that refers to the object, whose name the storage keeps.  One that is
\* there already is used as it is, but for its nullability.
Relate(classes, st, c, f) ==
    LET table == TableName(classes, c)
        name == OneToOneName(classes, f, st.storage[f.store].left)
        col == Constrained(classes, c, f, KeyTo(classes, f.class))
        added == AddColumn([st EXCEPT !.storage[f.store].left = name], table, name, col)
        limited == IF col.nullable THEN added
                   ELSE [added EXCEPT !.tables[table][name].nullable = FALSE]
    IN  IF name = ColumnName(f) THEN Fail(st)
        ELSE AddProperty(classes, AddProperty(classes, limited, c, f.name,
                                     Relation("one", f.class, <<<<table, name>>>>)),
                         c, name, Simple(table, name))

\* _add_simple_type_to_complex.  A class that refers to itself needs the column of
\* its primary key by the name of the field.
AddOneToOne(classes, st, c, f) ==
    IF \/ st.storage[f.store].multi # "no"
       \/ st.storage[f.store].right # None
       \/ TableName(classes, f.class) = None
       \/ ~HasOnePk(classes, f.class)
       \/ f.class = c /\ Pk(classes, c).name \notin DOMAIN st.tables[TableName(classes, c)]
    THEN Fail(st)
    ELSE Relate(classes, st, c, f)

\* _gen_array_o2m: the rows of the elements refer to the one of the object.  A
\* column that is there needs the very class of the type.
AddOneToMany(classes, st, c, f) ==
    LET name == OneToManyName(classes, c, st.storage[f.store].right)
        kept == [st EXCEPT !.storage[f.store].right = name]
        child == TableName(classes, f.class)
        col == KeyTo(classes, c)
        there == f.class \in st.mapped /\ name \in DOMAIN st.tables[child]
        made == SetProperty(AddColumn(kept, child, name, Constrained(classes, c, f, col)),
                            f.class, name, Simple(child, name))
    IN  IF \/ ~HasOnePk(classes, c)
           \/ st.storage[f.store].left # None
           \/ f.class \notin st.mapped
           \/ there /\ ~(IsClass(col.type) /\ st.tables[child][name].type = col.type)
        THEN Fail(st)
        ELSE AddProperty(classes, IF there THEN kept ELSE made,
                         c, f.name, Relation("many", f.class, <<<<child, name>>>>))

\* _get_cols_m2m: the columns of a relation table are its primary key.
RelationKey(classes, c) == [KeyTo(classes, c) EXCEPT !.pk = TRUE]

\* _gen_array_m2m.  A relation table that is there needs the column that refers to
\* the owner, and gets the one that refers to the elements.
AddManyToMany(classes, st, c, f) ==
    LET storage == st.storage[f.store]
        table == IF storage.multi = "auto" THEN TableName(classes, c) \o f.name
                 ELSE storage.table
        left == OneToManyName(classes, c, storage.left)
        right == OneToOneName(classes, f, storage.right)
        own == RelationKey(classes, c)
        element == RelationKey(classes, f.class)
        there == table \in DOMAIN st.tables
        unlike(name, col) == st.tables[table][name].type.kind # col.type.kind
        kept == [st EXCEPT !.storage[f.store].left = left, !.storage[f.store].right = right]
        base == IF there THEN kept
                ELSE [kept EXCEPT !.tables = @ @@ (table :> (left :> own))]
    IN  IF \/ f.class = 0 \/ ~HasOnePk(classes, c)
           \/ TableName(classes, f.class) = None \/ ~HasOnePk(classes, f.class)
           \/ right = ColumnName(f)
           \/ there /\ left \notin DOMAIN st.tables[table]
           \/ there /\ unlike(left, own)
           \/ there /\ right \in DOMAIN st.tables[table] /\ unlike(right, element)
        THEN Fail(st)
        ELSE AddProperty(classes, AddColumn(base, table, right, element), c, f.name,
                         Relation("through", f.class, <<<<table, left>>, <<table, right>>>>))

\* _gen_array_simple: the elements have a table of their own.  If there is one, an
\* instance is wanted for the type of its data and a class for that of its key.
AddValues(classes, st, c, f) ==
    LET storage == st.storage[f.store]
        left == OneToManyName(classes, c, storage.left)
        right == IF storage.right = None THEN f.name ELSE storage.right
        table == IF f.table = None THEN TableName(classes, c) \o f.name ELSE f.table
        key == KeyTo(classes, c)
        data == Column(SqlType(f.type), None)
        there == table \in DOMAIN st.tables
        cols == st.tables[table]
        kept == [st EXCEPT !.storage[f.store].left = left]
        id == [Column([kind |-> "Integer", size |-> None], None) EXCEPT !.pk = TRUE]
        made == IF there THEN AddColumn(kept, table, left, Constrained(classes, c, f, key))
                ELSE [kept EXCEPT !.tables = @ @@
                        (table :> (<<"id">> :> id @@ left :> Constrained(classes, c, f, key)
                                     @@ right :> Constrained(classes, c, f, data)))]
    IN  IF \/ ~HasOnePk(classes, c)
           \/ there /\ right \notin DOMAIN cols
           \/ there /\ (IsClass(data.type) \/ cols[right].type.kind # data.type.kind)
           \/ there /\ left \in DOMAIN cols /\ ~(IsClass(key.type) /\ cols[left].type = key.type)
        THEN Fail(st)
        ELSE AddProperty(classes, made, c, f.name,
                         Relation("values", 0, <<<<table, left>>, <<table, right>>>>))

\* _add_complex_type and _add_complex_type_as_table
AddField(classes, st, c, f) ==
    IF f.store = 0 THEN IF f.class = 0 /\ ~f.many THEN AddSimpleType(classes, st, c, f) ELSE st
    ELSE IF st.storage[f.store].as # "table" THEN AddDocument(classes, st, c, f)
    ELSE IF ~f.many THEN AddOneToOne(classes, st, c, f)
    ELSE IF st.storage[f.store].multi # "no" THEN AddManyToMany(classes, st, c, f)
    ELSE IF f.class = 0 THEN AddValues(classes, st, c, f)
    ELSE AddOneToMany(classes, st, c, f)

\* A field of a class whose statement has failed is not looked at.
AddUnlessFailed(classes, st, c, f) == IF st.ok THEN AddField(classes, st, c, f) ELSE st

\* _check_table: the table of that name, or one without columns.
OpenTable(st, table) ==
    [st EXCEPT !.tables = IF table \in DOMAIN @ THEN @ ELSE @ @@ (table :> <<>>)]

\* _check_inheritance: a class that extends one that is mapped shares its mapper.
Inherits(classes, st, c) == classes[c].extends \in st.mapped

\* gen_sqla_info: the fields of the parent are mapped if that is.  A class without a
\* table is left alone.
GenSqlaInfo(classes, st, c) ==
    LET table == TableName(classes, c)
        parent == classes[c].extends
        fields == IF Inherits(classes, st, c) THEN classes[c].fields ELSE FlatFields(classes, c)
        begun == [OpenTable(st, table) EXCEPT !.props = @ @@ (c :> <<>>)]
        filled == FoldLeft(LAMBDA s, f : IF HasProperty(classes, s, parent, f.name) THEN s
                                         ELSE AddUnlessFailed(classes, s, c, f),
                           begun, fields)
    IN  IF ~st.ok \/ table = None \/ classes[c].fields = <<>> THEN st
        ELSE [filled EXCEPT !.mapped = @ \cup {c}]

\* add_column, which needs the table of the class.
AppendColumn(classes, st, c, f) ==
    IF c \in st.mapped THEN AddUnlessFailed(classes, st, c, f) ELSE Fail(st)

\* append_field of a class with a number of variants, whose mapper is the same.
AppendToTable(classes, st, c, f, variants) ==
    FoldLeft(LAMBDA s, i : AppendColumn(classes, s, c, f), st, [i \in 0 .. variants |-> i])

\* The classes are defined one after the other, then the fields are appended.
MakeTables(program) ==
    LET n == Len(program.classes)
        defined == FoldLeft(LAMBDA st, c : GenSqlaInfo(program.classes, st, c),
                            NewDatabase(program.storages), [c \in 1 .. n |-> c])
    IN  FoldLeft(LAMBDA st, a :
                    IF st.ok THEN AppendToTable([program.classes EXCEPT ![a.class].fields = Append(@, a.field)],
                                              st, a.class, a.field, a.variants)
                    ELSE st,
                 defined, program.appended)
=============================================================================
