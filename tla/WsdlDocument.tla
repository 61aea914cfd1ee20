---------------------------- MODULE WsdlDocument ----------------------------
(***************************************************************************)
(* The WSDL document of an application and the requests for it: one Wsdl11 *)
(* object (spyne/interface/wsdl/wsdl11.py) is shared by the threads of a   *)
(* server, which is either WsgiApplication (spyne/server/wsgi.py, a lock   *)
(* around the build) or DjangoServer (spyne/server/django.py, no lock).    *)
(*                                                                         *)
(* A build goes through the sections of build_interface_document.  The     *)
(* document object keeps the current root element and dictionaries of the  *)
(* service and portType elements it has made, which later builds find      *)
(* there.  A tree is modelled by how many of each part hang below its      *)
(* root; the application has one service with one method.                  *)
(*                                                                         *)
(* Definitions whose name begins with Bad are the definition that follows  *)
(* them with a mistake, and not part of the model.                         *)
(***************************************************************************)
EXTENDS Naturals, Sequences, FiniteSets

CONSTANTS
    Threads,    \* each handles one request for the WSDL
    Servers,    \* subset of {"wsgi", "django"}: the servers to look at
    CacheWsdl,  \* cache_wsdl of DjangoServer
    MayRaise,   \* whether a build may raise, e.g. in a document_built listener
    NoThread,   \* nobody holds the lock
    NoDoc       \* None

Parts == {"types", "service", "portType", "port", "operation", "binding"}
Docs == [root : Nat, parts : [Parts -> Nat]]

ASSUME WsdlDocumentAssumption ==
    /\ IsFiniteSet(Threads)
    /\ Servers \subseteq {"wsgi", "django"}
    /\ CacheWsdl \in BOOLEAN
    /\ MayRaise \in BOOLEAN
    /\ NoThread \notin Threads
    /\ NoDoc \notin Docs

VARIABLES
    server,    \* the server class
    pc,        \* pc[t]: what thread t does next
    seen,      \* seen[t]: what t got from get_interface_document (a local)
    root,      \* root[t]: the root element a build of t works on (a local)
    lock,      \* holder of _mtx_build_interface_document
    cached,    \* the server's _wsdl
    wsdl,      \* the document object's __wsdl
    current,   \* its root_elt and root_tree
    tree,      \* tree[k]: the parts below the k-th root element made
    schemaAt,  \* root the current schema nodes hang below, 0 if none
    serviceAt, \* root of the element in service_elt_dict, 0 if it is empty
    portTypeAt,\* root of the element in port_type_dict, 0 if it is empty
    raised,    \* a build has raised
    lost,      \* a late store has emptied _wsdl
    answer     \* answer[t]: the body of the 200 response to t

object == <<wsdl, current, tree, schemaAt, serviceAt, portTypeAt>>
vars == <<server, pc, seen, root, lock, cached, object, raised, lost, answer>>

Building == {"schema", "root", "types", "services", "portTypes", "bindings",
             "serialize"}
Stages == {"request", "peek", "store", "read", "acquire", "locked", "built",
           "release", "done"} \cup Building

Init ==
    /\ server \in Servers
    /\ pc = [t \in Threads |-> "request"]
    /\ seen = [t \in Threads |-> NoDoc]
    /\ root = [t \in Threads |-> 0]
    /\ lock = NoThread
    /\ cached = NoDoc
    /\ wsdl = NoDoc
    /\ current = 0
    /\ tree = <<>>
    /\ schemaAt = 0
    /\ serviceAt = 0
    /\ portTypeAt = 0
    /\ raised = FALSE
    /\ lost = FALSE
    /\ answer = [t \in Threads |-> NoDoc]

GoTo(t, stage) == pc' = [pc EXCEPT ![t] = stage]
Answer(t, doc) == answer' = [answer EXCEPT ![t] = doc]

-----------------------------------------------------------------------------
(* handle_wsdl_request of WsgiApplication.  Without the lock it reads _wsdl, *)
(* reads the document object, stores that in _wsdl and reads _wsdl again.    *)

WsgiRequest(t) ==
    /\ server = "wsgi"
    /\ pc[t] = "request"
    /\ GoTo(t, IF cached = NoDoc THEN "peek" ELSE "read")
    /\ UNCHANGED <<server, seen, root, lock, cached, object, raised, lost, answer>>

Peek(t) ==
    /\ pc[t] = "peek"
    /\ seen' = [seen EXCEPT ![t] = wsdl]
    /\ GoTo(t, "store")
    /\ UNCHANGED <<server, root, lock, cached, object, raised, lost, answer>>

Store(t) ==
    /\ pc[t] = "store"
    /\ cached' = seen[t]
    /\ lost' = (lost \/ (cached # NoDoc /\ seen[t] = NoDoc))
    /\ GoTo(t, "read")
    /\ UNCHANGED <<server, seen, root, lock, object, raised, answer>>

Read(t) ==
    /\ pc[t] = "read"
    /\ Answer(t, cached)
    /\ GoTo(t, IF cached = NoDoc THEN "acquire" ELSE "done")
    /\ UNCHANGED <<server, seen, root, lock, cached, object, raised, lost>>

Acquire(t) ==
    /\ pc[t] = "acquire"
    /\ lock = NoThread
    /\ lock' = t
    /\ GoTo(t, "locked")
    /\ UNCHANGED <<server, seen, root, cached, object, raised, lost, answer>>

\* The cache is not looked at again under the lock.
BadRecheck(t) ==
    /\ pc[t] = "locked"
    /\ GoTo(t, "schema")
    /\ UNCHANGED <<server, seen, root, lock, cached, object, raised, lost, answer>>

\* With the lock, another thread may have built the document.
Recheck(t) ==
    /\ pc[t] = "locked"
    /\ Answer(t, cached)
    /\ GoTo(t, IF cached = NoDoc THEN "schema" ELSE "release")
    /\ UNCHANGED <<server, seen, root, lock, cached, object, raised, lost>>

WsgiBuilt(t) ==
    /\ server = "wsgi"
    /\ pc[t] = "built"
    /\ cached' = wsdl
    /\ Answer(t, wsdl)
    /\ GoTo(t, "release")
    /\ UNCHANGED <<server, seen, root, lock, object, raised, lost>>

\* The lock is released where the document was built, not in a finally.
BadRelease(t) ==
    /\ pc[t] = "release"
    /\ lock' = IF answer[t] = NoDoc THEN lock ELSE NoThread
    /\ GoTo(t, "done")
    /\ UNCHANGED <<server, seen, root, cached, object, raised, lost, answer>>

\* The finally clause, after a document or after the 500 response.
Release(t) ==
    /\ pc[t] = "release"
    /\ lock' = NoThread
    /\ GoTo(t, "done")
    /\ UNCHANGED <<server, seen, root, cached, object, raised, lost, answer>>

-----------------------------------------------------------------------------
(* handle_wsdl of DjangoServer.                                            *)

\* The dictionary of the service elements is emptied, that of the portType
\* elements is not.
DjangoRequest(t) ==
    /\ server = "django"
    /\ pc[t] = "request"
    /\ Answer(t, cached)
    /\ IF cached = NoDoc
         THEN GoTo(t, "schema") /\ serviceAt' = 0
         ELSE GoTo(t, "done") /\ UNCHANGED serviceAt
    /\ UNCHANGED <<server, seen, root, lock, cached, wsdl, current, tree,
                   schemaAt, portTypeAt, raised, lost>>

DjangoBuilt(t) ==
    /\ server = "django"
    /\ pc[t] = "built"
    /\ cached' = IF CacheWsdl THEN wsdl ELSE cached
    /\ Answer(t, wsdl)
    /\ GoTo(t, "done")
    /\ UNCHANGED <<server, seen, root, lock, object, raised, lost>>

-----------------------------------------------------------------------------
(* build_interface_document.                                               *)

\* An exception: 500 under the finally clause, or out of the Django view.
Fail(t) ==
    /\ raised' = TRUE
    /\ GoTo(t, IF server = "wsgi" THEN "release" ELSE "done")

\* Each new element is a pair of a part and the root it goes below.
Add(new) ==
    tree' = [k \in 1 .. Len(tree) |-> [p \in Parts |->
                 tree[k][p] + IF <<p, k>> \in new THEN 1 ELSE 0]]

\* build_schema_nodes makes new schema elements.
BuildSchema(t) ==
    /\ pc[t] = "schema"
    /\ schemaAt' = 0
    /\ GoTo(t, "root")
    /\ UNCHANGED <<server, seen, root, lock, cached, wsdl, current, tree,
                   serviceAt, portTypeAt, raised, lost, answer>>

NewRoot(t) ==
    /\ pc[t] = "root"
    /\ tree' = Append(tree, [p \in Parts |-> 0])
    /\ current' = Len(tree) + 1
    /\ root' = [root EXCEPT ![t] = Len(tree) + 1]
    /\ GoTo(t, "types")
    /\ UNCHANGED <<server, seen, lock, cached, wsdl, schemaAt, serviceAt,
                   portTypeAt, raised, lost, answer>>

\* The schemas move below the new root, away from where they were.
AddTypes(t) ==
    /\ pc[t] = "types"
    /\ tree' = [k \in 1 .. Len(tree) |-> [tree[k] EXCEPT
                   !["types"] = IF k = root[t] THEN 1
                                ELSE IF k = schemaAt THEN 0 ELSE @]]
    /\ schemaAt' = root[t]
    /\ GoTo(t, "services")
    /\ UNCHANGED <<server, seen, root, lock, cached, wsdl, current, serviceAt,
                   portTypeAt, raised, lost, answer>>

\* An element that is in the dictionary is not made again.
AddServices(t) ==
    /\ pc[t] = "services"
    /\ IF serviceAt = 0
         THEN Add({<<"service", current>>}) /\ serviceAt' = current
         ELSE UNCHANGED <<tree, serviceAt>>
    /\ GoTo(t, "portTypes")
    /\ UNCHANGED <<server, seen, root, lock, cached, wsdl, current, schemaAt,
                   portTypeAt, raised, lost, answer>>

\* The operation goes into the portType of the dictionary, the port into the
\* service of the dictionary, which is a KeyError if there is none.
AddPortTypes(t) ==
    /\ pc[t] = "portTypes"
    /\ portTypeAt' = IF portTypeAt = 0 THEN current ELSE portTypeAt
    /\ Add({<<"operation", portTypeAt'>>, <<"port", serviceAt>>}
               \cup (IF portTypeAt = 0 THEN {<<"portType", current>>} ELSE {}))
    /\ IF serviceAt = 0 THEN Fail(t) ELSE GoTo(t, "bindings") /\ UNCHANGED raised
    /\ UNCHANGED <<server, seen, root, lock, cached, wsdl, current, schemaAt,
                   serviceAt, lost, answer>>

AddBindings(t) ==
    /\ pc[t] = "bindings"
    /\ Add({<<"binding", root[t]>>})
    /\ GoTo(t, "serialize")
    /\ UNCHANGED <<server, seen, root, lock, cached, wsdl, current, schemaAt,
                   serviceAt, portTypeAt, raised, lost, answer>>

Serialize(t) ==
    /\ pc[t] = "serialize"
    /\ wsdl' = [root |-> current, parts |-> tree[current]]
    /\ GoTo(t, "built")
    /\ UNCHANGED <<server, seen, root, lock, cached, current, tree, schemaAt,
                   serviceAt, portTypeAt, raised, lost, answer>>

Raise(t) ==
    /\ MayRaise
    /\ pc[t] \in Building
    /\ Fail(t)
    /\ UNCHANGED <<server, seen, root, lock, cached, object, lost, answer>>

-----------------------------------------------------------------------------
BuildStep(t) ==
    \/ BuildSchema(t) \/ NewRoot(t) \/ AddTypes(t) \/ AddServices(t)
    \/ AddPortTypes(t) \/ AddBindings(t) \/ Serialize(t) \/ Raise(t)

Step(t) ==
    \/ WsgiRequest(t) \/ Peek(t) \/ Store(t) \/ Read(t) \/ Acquire(t) \/ Recheck(t)
    \/ WsgiBuilt(t) \/ Release(t)
    \/ DjangoRequest(t) \/ DjangoBuilt(t)
    \/ BuildStep(t)

Next == \E t \in Threads : Step(t)

\* A thread that can go on goes on.  That much is enough for the lock: there
\* are finitely many requests, and when the others are done it stays free.
Fairness == \A t \in Threads : WF_vars(Step(t))

Spec == Init /\ [][Next]_vars
FairSpec == Spec /\ Fairness

-----------------------------------------------------------------------------
(* Properties.                                                             *)

\* Each variable holds what the attribute it stands for may hold, and a
\* request builds at most once.
TypeOK ==
    /\ server \in Servers
    /\ pc \in [Threads -> Stages]
    /\ seen \in [Threads -> Docs \cup {NoDoc}]
    /\ root \in [Threads -> 0 .. Len(tree)]
    /\ lock \in Threads \cup {NoThread}
    /\ cached \in Docs \cup {NoDoc}
    /\ wsdl \in Docs \cup {NoDoc}
    /\ tree \in Seq([Parts -> Nat])
    /\ Len(tree) <= Cardinality(Threads)
    /\ {current, schemaAt, serviceAt, portTypeAt} \subseteq 0 .. Len(tree)
    /\ raised \in BOOLEAN
    /\ lost \in BOOLEAN
    /\ answer \in [Threads -> Docs \cup {NoDoc}]

InBuild(t) == pc[t] \in Building \cup {"built"}

\* WsgiApplication builds in one thread at a time, whatever raises.
Exclusive == server = "wsgi" =>
    \A s, t \in Threads : InBuild(s) /\ InBuild(t) => s = t

\* All clients of WsgiApplication get the same document though the cache is
\* read without the lock and builds may fail, unless a late store loses it.
SameAnswer == server = "wsgi" /\ ~lost =>
    \A s, t \in Threads :
        answer[s] # NoDoc /\ answer[t] # NoDoc => answer[s] = answer[t]

\* A document has each of its parts once, below the root of its build.
Complete(doc) == \A p \in Parts : doc.parts[p] = 1

\* No thread is kept out for ever: the lock is released in every case.
Served == \A t \in Threads : <>(pc[t] = "done")

-----------------------------------------------------------------------------
(* What the documentation and a comment say and the code does not do.      *)

\* "It's the transport's job to assure thread-safety": what WsgiApplication
\* answers while no build fails is complete.
WsgiSafe == server = "wsgi" /\ ~raised =>
    \A t \in Threads : answer[t] # NoDoc => Complete(answer[t])
=============================================================================
