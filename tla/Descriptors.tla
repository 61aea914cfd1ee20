----------------------------- MODULE Descriptors -----------------------------
(***************************************************************************)
(* What spyne/decorator.py makes of a decorated function when the class that *)
(* it is in is made: the description of a method.  The options of the        *)
(* decorator are kept in one dict for all classes the function is put in,    *)
(* and every description takes what it reads out of it.                      *)
(*                                                                         *)
(* A function is the sequence of the names of its arguments, those for self  *)
(* and the context included.  A type is a record of its kind, "simple",      *)
(* "complex" or "self", which is SelfReference, and of the number of its     *)
(* members.  A class is the type of the class that mrpc methods are in.      *)
(***************************************************************************)
EXTENDS SequencesExt, Functions, Naturals, Nothing

Option(options, k, default) == IF k \in DOMAIN options THEN options[k] ELSE default

\* Options that mean the same: at most one of them is given.
Synonyms ==
    {{"_service", "_service_class"}, {"_throws", "_faults"}, {"_pattern", "_patterns"},
     {"_in_arg_names", "_in_variable_names"}, {"_udd", "_udp"},
     {"_evmgr", "_evmgrs", "_event_manager", "_event_managers"}}

\* What is read whatever the other options are.
AlwaysRead ==
    UNION Synonyms \cup
    {"_no_ctx", "_no_self", "_args", "_body_style", "_soap_body_style", "_returns", "_in_header",
     "_in_message_name", "_operation_name", "_out_message_name", "_aux", "_default_on_null"}

\* _validate_body_style: without _body_style the other one is not looked at.
BodyStyle(options) ==
    LET style == Option(options, "_body_style", None)
        soap == Option(options, "_soap_body_style", None)
    IN  IF style = None THEN {"wrapped"}
        ELSE IF style \notin {"wrapped", "bare", "out_bare"} THEN {}
        ELSE CASE soap = None -> {style}
               [] soap = "document" -> {"wrapped"}
               [] soap = "rpc" -> {"bare"}
               [] OTHER -> {}

IsBare(style) == style \in {"bare", "out_bare"}

\* How many arguments come before those that are sent.
ArgStart(noCtx, noSelf) == (IF noCtx THEN 0 ELSE 1) + (IF noSelf THEN 0 ELSE 1)

\* _substitute_self_reference, in the list that all descriptions share.
Substitute(params, class) == [i \in DOMAIN params |-> IF params[i].kind = "self" THEN class ELSE params[i]]

\* The context is skipped even if there is none.
BadArgNames(f, options, noCtx, noSelf) ==
    IF "_args" \in DOMAIN options THEN options["_args"]
    ELSE (IF noSelf THEN <<>> ELSE <<"self">>) \o SubSeq(f, ArgStart(FALSE, noSelf) + 1, Len(f))

\* The names of the arguments that are sent: those of _args, or those of the
\* function, with that of self.
ArgNames(f, options, noCtx, noSelf) ==
    IF "_args" \in DOMAIN options THEN options["_args"]
    ELSE (IF noSelf THEN <<>> ELSE <<"self">>) \o SubSeq(f, ArgStart(noCtx, noSelf) + 1, Len(f))

ArgTypes(params, options, noSelf, class) ==
    IF noSelf \/ "_args" \in DOMAIN options THEN params ELSE <<class>> \o params

Renamed(options, k) ==
    LET names == Option(options, "_in_arg_names", Option(options, "_in_variable_names", <<>>))
    IN  Option(names, k, k)

\* in_params, a dict: a name that comes again keeps its place and takes the type.
InParams(names, types) ==
    LET firsts == SelectSeq([i \in DOMAIN names |-> i], LAMBDA i : \A j \in 1 .. i - 1 : names[j] # names[i])
        at(k) == CHOOSE i \in DOMAIN names : names[i] = k /\ \A j \in i + 1 .. Len(names) : names[j] # k
    IN  [n \in DOMAIN firsts |-> [name |-> names[firsts[n]], type |-> types[at(names[firsts[n]])]]]

\* _produce_input_message: the members of the message, and its name for the methods
\* of a class.
InMessage(f, params, options, noCtx, noSelf, style, class) ==
    LET names == ArgNames(f, options, noCtx, noSelf)
        types == ArgTypes(params, options, noSelf, class)
        counted == Len(names) = Len(types)
        members == IF counted
                   THEN InParams([i \in DOMAIN names |-> Renamed(options, names[i])], types)
                   ELSE <<>>
        refused == \/ ~counted
                   \/ style = "bare" /\ Len(members) > 1
                   \/ style = "bare" /\ Len(members) = 1
                         /\ members[1].type.kind = "complex" /\ members[1].type.size = 0
    IN  [ok |-> ~refused, members |-> members,
         empty |-> members = <<>>]

\* _produce_output_message: a result of several values has a name for each.
OutMessage(options, style) ==
    LET returns == Option(options, "_returns", <<>>)
        names == Option(options, "_out_variable_names", [i \in DOMAIN returns |-> i])
    IN  IF IsBare(style)
        THEN [ok |-> Len(returns) < 2,
              empty |-> returns = <<>> \/ returns = <<[kind |-> "complex", size |-> 0]>>,
              results |-> Len(returns)]
        ELSE [ok |-> Len(returns) > 1 => Len(names) = Len(returns),
              empty |-> returns = <<>>,
              results |-> IF Len(returns) > 1 THEN Cardinality(Range(names)) ELSE Len(returns)]

\* The names of results are only looked at when there are such results to name.
ResultNames(options, style) ==
    LET returns == Option(options, "_returns", <<>>)
    IN  IF style # "wrapped" \/ returns = <<>> THEN {}
        ELSE IF Len(returns) = 1 THEN {"_out_variable_name"} ELSE {"_out_variable_names"}

\* kparams, when a method has been described.
Left(options, style) == Restrict(options, DOMAIN options \ (AlwaysRead \cup ResultNames(options, style)))

MethodStyle(style, in, out) ==
    IF ~IsBare(style) THEN "wrapped"
    ELSE IF ~in.empty THEN style
    ELSE IF out.empty THEN "empty" ELSE "empty_out_bare"

\* in_message_name is that of the class for its methods, and so never the same.
NamesConflict(options, noSelf) ==
    /\ "_operation_name" \in DOMAIN options
    /\ "_in_message_name" \in DOMAIN options \/ ~noSelf

\* MethodDescriptor, which has a default for null only in a class.
Descriptor(options, style, in, out, class) ==
    [ok |-> Option(options, "_default_on_null", FALSE) => class # None,
     style |-> MethodStyle(style, in, out), members |-> in.members, results |-> out.results,
     noCtx |-> Option(options, "_no_ctx", FALSE), noSelf |-> Option(options, "_no_self", TRUE),
     inName |-> Option(options, "_in_message_name", "default"),
     outName |-> Option(options, "_out_message_name", "default")]

\* explain_method.  The class is None in a service.
ExplainMethod(f, params, options, class) ==
    LET noSelf == Option(options, "_no_self", TRUE)
        types == Substitute(params, class)
        style == CHOOSE s \in BodyStyle(options) : TRUE
        in == InMessage(f, types, options, Option(options, "_no_ctx", FALSE), noSelf, style, class)
        out == OutMessage(options, style)
        descriptor == Descriptor(options, style, in, out, class)
        refused == \/ \E s \in Synonyms : Cardinality(s \cap DOMAIN options) > 1
                   \/ noSelf /\ \E i \in DOMAIN params : params[i].kind = "self"
                   \/ NamesConflict(options, noSelf)
                   \/ BodyStyle(options) = {}
                   \/ ~in.ok
                   \/ ~out.ok
                   \/ Option(options, "_in_header", "tuple") # "tuple"
                   \/ ~descriptor.ok
                   \/ Left(options, style) # <<>>
    IN  IF refused THEN [ok |-> FALSE, params |-> params, left |-> <<>>]
        ELSE [params |-> types, left |-> Left(options, style)] @@ descriptor

-----------------------------------------------------------------------------
(* Calls and services.                                                      *)

\* What a function is called with: the names of the members of the message, with
\* "self" and "ctx" where those are given.  The method of a class takes the object
\* from the first argument, and of a message of one member gives no other.
CallArguments(d) ==
    LET names == IF d.style = "empty" THEN <<>> ELSE [i \in DOMAIN d.members |-> d.members[i].name]
        context == IF d.noCtx THEN <<>> ELSE <<"ctx">>
    IN  IF d.noSelf THEN context \o names
        ELSE <<"self">> \o context
                \o (IF Len(names) < 2 THEN <<>> ELSE Tail(names))

\* ServiceMeta.__init__: primary and auxiliary methods are not mixed.
MixesMethods(service) ==
    /\ ~service.aux
    /\ \E i, j \in DOMAIN service.methods : service.methods[i].aux /\ ~service.methods[j].aux

\* Methods of one service are told apart by their functions inside an application, and
\* by their names in its interface.
InternalKey(m) == m.function
GenInterfaceKey(owner, m) == <<owner, m.name>>

\* Application.check_unique_method_keys: a function is in a service once.
Repeated(service) ==
    \E i, j \in DOMAIN service.methods :
        i # j /\ InternalKey(service.methods[i]) = InternalKey(service.methods[j])

\* populate_interface: the methods of all services, which are auxiliary if the
\* service is.
MethodsOf(services) ==
    FlattenSeq([s \in DOMAIN services |->
        [i \in DOMAIN services[s].methods |->
            LET m == services[s].methods[i]
            IN  [id |-> GenInterfaceKey(s, m), key |-> m.name, aux |-> m.aux \/ services[s].aux]]])
=============================================================================
