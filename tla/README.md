# Verification of Spyne

TLA+ models of Spyne: its servers and the order in which things happen in them,
the classes and interfaces it makes of a program, and the documents, envelopes and
values its protocols write and read.  TLC checks the models on small instances,
and TLAPS proves for every value of their parameters the safety properties of its
servers, of the event manager as a whole and as an ordered set, of memoized functions,
and of the classes a program defines, customizes and extends.  Paths below are relative
to the repository.

    tlc -config msgpack_sound.cfg MCTwistedMsgpack      # one run
    tlapm EventManagerProofs.tla                        # one module of proofs

`PROJECT.json` lists, for a machine, which definition models which lines, which
configuration checks what, and for each property a mistake in the code's place
that it notices.


## 1. The system

Spyne turns service classes into remote procedures.  Decorators and metaclasses
make *descriptors* and *classes* of a program, from which an *interface* is
populated: the classes of the schema, the methods of the routes.  A *transport*
(server) reads a request into a `MethodContext`, an input *protocol* turns its
bytes into objects, the *application* calls the user's method, an output protocol
turns the result into bytes, and the transport sends them.  Event managers fire
events between these steps; auxiliary contexts run further methods after the
response.

| Component (`spyne/`) | State it keeps | Operations | Interacts with | What is hard | What makes it correct |
|---|---|---|---|---|---|
| Twisted MessagePack connection (`server/twisted/msgpack.py`, `server/msgpack.py`) | queues of inactive, active and unanswered requests, idle timer, flags of the connection | `dataReceived`, `process_incoming_message`, `process_inactive`, `_cb_deferred`, `_eb_deferred`, `handle_error`, `enqueue_outresp_data`, `connectionLost` | the reactor, the user's Deferreds, auxiliary methods | callbacks re-enter the queues; exceptions unwind through callbacks of other requests; Deferreds fire in any order | responses in request order, none lost or repeated; limits respected; nothing waits for ever |
| Chunked output (same file, `out_write`) | `_chunks`, a deque of generators; pending `callLater` calls | `out_write`, `_write_single_chunk`, loss of the connection | the reactor | several chains of delayed calls on one deque | the peer gets a prefix of what was written |
| WSGI server (`server/wsgi.py`, `server/_base.py`) | per request: errors, output, transport context | `handle_rpc`, `handle_error`, `__finalize`, `generate_contexts`, `get_in_object`, `get_out_object`, `get_out_string` | application, auxiliary methods, WSGI server | failures in each step and in the handling of failures; lazily generated bodies | one response, one close |
| Twisted HTTP server (`server/twisted/http.py`, `server/twisted/_base.py`) | pending Deferreds, producers, pushes | `render`, `handle_rpc`, `_cb_deferred`, `_eb_deferred`, `init_root_push`, `Producer` | the reactor, the client | results after the client has gone; redirects; pushes that go on after the method returned | one end of a response, one close, one run of the auxiliary methods |
| Null, Django, websocket and ZeroMQ servers (`server/null.py`, `django.py`, `twisted/websocket.py`, `zeromq.py`) | registry of clients by name; worker threads | a call; `handle_rpc`; `frameReceived`, `app_id`, `propagate`; `serve_forever` | application, auxiliary methods | failures half way; renamed clients; threads that end | the caller learns of a failure; messages reach the client they name; requests are answered |
| Auxiliary methods (`auxproc/`) | pool of a `ThreadAuxProc` | `process_contexts`, `process_context`, `process` | every server | run concurrently with the response and with those of other requests | never disturb the response; none lost |
| Application (`application.py`) | none of its own | `process_request`, `call_wrapper` | event managers, user code | events, redirects and Ignored when listeners raise | an error is announced and returned |
| WSDL document (`interface/wsdl/wsdl11.py`, `interface/xml_schema/`) | the root element and dictionaries of elements that outlive a build | `build_interface_document`, `get_interface_document` | WSGI and Django servers | built lazily by request threads | one complete document for all |
| Event manager (`evmgr.py`, `util/oset.py`) | an ordered set of handlers per event, as a linked list | `add_listener`, `del_listener`, `fire_event` | everything | handlers change the list they are called from | each handler once, in order |
| Memoization (`util/memo.py`) | a dictionary of results, a lock | call, clear | views of classes | a clear while another thread computes | a value the function had |
| Models (`model/complex.py`, `model/_base.py`, `model/primitive/`) | the fields of a class, its variants, views that are memoized | definition, `customize`, `append_field`, `insert_field`; validation of values | protocols, interface | variants that must keep up with their original; boundaries of numbers | views are true; native and textual validation agree with the schema |
| Interface (`interface/_base.py`, `interface/xml_schema/`, `util/toposort.py`) | maps of classes, imports, methods | `add_class`, `process_method`, `populate_interface`, `build_schema_nodes` | models, services | cyclic graphs of classes, equal names | a schema that defines and imports all it refers to; each method reachable |
| Dictionary protocols (`protocol/dictdoc/`, `json.py`, `msgpack.py`) | none | `object_to_simple_dict`, `simple_dict_to_object`, `_object_to_doc`, `_doc_to_object`, `_check_freq_dict` | models | nested, repeated and missing members, indexes in any order | what goes out comes in; occurrences are enforced |
| XML and SOAP protocols (`protocol/xml.py`, `protocol/soap/`) | none | `to_parent`, `from_element`, envelopes, headers, faults | models | attributes, nil, polymorphism | the same |
| Protocol base (`protocol/_base.py`, `_inbase.py`, `_outbase.py`) | tables of handlers | `to_unicode`, `from_unicode`, `to_bytes`, `from_bytes`, `get_polymorphic_target` | every protocol | a value is written by one table and read by another, with the options of its class | what is written can be read, and is the value |
| HttpRpc and HTTP routing (`server/http.py`, `protocol/http.py`, `util/address.py`) | url patterns | `match_pattern`, `decompose_incoming_envelope`, `_parse_qs`, cookies, headers | WSGI and Twisted | patterns that overlap; two servers with different tables; limits on a body | the right method with the right values |
| HTML and cloth (`protocol/html/`, `protocol/cloth/`) | the elements that are open, coroutines of pushes | `to_parent`, `to_cloth`, `pusher_try_close` | models, the servers' pushes | an object is written while its parts are still pushed | each value in its place, in order |
| Decorators and services (`decorator.py`, `service.py`, `descriptor.py`) | the options of a function, shared by the classes it is put in | `rpc`, `srpc`, `mrpc`, the metaclass of services | interface, application | options that mean the same or exclude each other | a function is called with its arguments under its names |
| Relational store (`store/relational/`) | tables and mappers of SQLAlchemy | `gen_sqla_info`, `add_column` | models | classes that share tables, fields that come later | a column for each field, keys that refer to something |
| Schema parser (`interface/xml_schema/parser.py`) | types seen, and those that wait | `parse_schema`, imports, includes | models | files that refer to each other | the classes of the schema, or an error |


## 2. Modules

| Module | What it is |
|---|---|
| `OrderedResponses` | abstract: answers become known in any order and are sent in order |
| `TwistedMsgpack`, `MCTwistedMsgpack`, `TwistedMsgpackProofs` | the connection of the Twisted MessagePack server; values for TLC; types, order, limits and the refinement of `OrderedResponses` |
| `ChunkedWriter`, `ChunkedWriterProofs` | `out_write` with `out_chunk_size` |
| `WsgiRpc`, `WsgiRpcProofs` | requests to the WSGI server with their auxiliary methods |
| `WsdlDocument` | building and caching of the WSDL by WSGI and Django |
| `ListenerOrder` | abstract: an ordered set of handlers |
| `EventManager`, `EventManagerProofs` | listeners in their linked list, and fires that walk it |
| `ServerBase`, `ServerBaseProofs` | `process_request`, `call_wrapper` and what user code may do in them; the steps all servers share; lemmas about each of them |
| `TwistedHttp`, `TwistedHttpProofs` | one request to the Twisted HTTP server |
| `NullServer`, `DjangoServer`, `WebSocketServer`, `WebSocketClients`, `ZeroMqPool` | one module per server; the websocket server has one for its requests and one for its registry of clients |
| `Servers`, `ServersProofs` | one of these five, chosen by the initial state |
| `Nothing`, `Jobs` | Python's `None`; a behaviour that computes one output of one input |
| `ComplexModel` | classes, bases, mixins, variants, their fields and memoized views |
| `Memoize` | threads that call a memoized function while what it depends on changes |
| `CachesProofs` | what is computed once and kept: proofs about `WsdlDocument`, `Memoize` and `ComplexModel` |
| `Classes` | types made by statements, which share members and elements, the names they get, and objects of them |
| `Descriptors` | what `rpc`, `srpc` and `mrpc` make of a function and its options |
| `Interface` | the classes an application enters, their schema, the routes of its methods and of those of classes, and what its WSDL says of them |
| `SchemaParser` | classes read from schema files |
| `Tables` | tables and mappers of classes that are stored |
| `Primitives`, `Conversions` | integers, strings, durations and datetimes, their validation and facets; simple values from one peer to another by protocol and options |
| `Models`, `MCModels` | the jobs over these, with `ComplexModel` and `Memoize` beside them; the definitions TLC draws them from |
| `Schema` | classes, instances and their members, shared by the protocols |
| `DictDocuments`, `XmlTree` | instances to flat, hierarchical and XML documents and back |
| `Cloth`, `Markup` | values written into the places of a template; values written as markup, with pushes |
| `HttpRpc` | url patterns, bodies, queries, cookies, addresses and answers |
| `Messages` | envelopes, headers, arguments, results and faults by protocol, and its jobs |
| `Documents`, `MCDocuments` | the jobs of all protocols; the classes, instances and documents TLC draws them from |

A definition whose name begins with `Bad` stands before the definition it
resembles and is that definition with a mistake someone could make.  It is not
part of a model; it shows that a property would notice.

### TwistedMsgpack

The reactor has one thread, and every interleaving of this component comes from
callbacks that call into each other: a response that is flushed admits the next
request, whose method may answer at once and flush again; an exception in that
inner call leaves through the outer one, whose `except` clause takes it for its
own.  The module therefore has a call stack (`stack`, innermost frame first) and
a flag for an exception that is on its way (`raised`).  One action is the code
between two calls.  The actions of the reactor (`DataReceived`, `DeferredFires`,
`IdleTimeout`, `ConnectionLost`) need an empty stack.

| Variable | Code |
|---|---|
| `buffer` | whole messages in the `Unpacker` |
| `next` | the number the next context gets; contexts are numbered as they are read |
| `inactive`, `inreq`, `data`, `active` | `inactive_queue`, keys and values of `inreq_queue`, keys of `active_queue` |
| `pending` | contexts whose Deferred has not fired |
| `outError`, `open`, `closes` | `out_error` is set; `transport` is not `None`; how often `close()` ran |
| `wire` | `transport.write` calls |
| `disconnecting`, `idleTimer`, `armed`, `conn` | attributes of the protocol and of Twisted's transport |

How a user's call ends is a choice among the members of `Ways[r]`: an error, a
value, a Deferred that fires later or has fired already, or the `Ignored()` of a
method with several return values.  `Unserializable` are results that cannot be
packed.  Out of scope: `oob_ctx`, which nothing in the repository sets, and a listener of
`outresp_flushed` or `method_context_closed`, or a `close()`, that raises between
`out_write` and the two `del`s of the flush loop (`msgpack.py:304-307`) or in the `finally`
of `cb` (489): the properties about order, loss and what is withheld assume that it does not.

### ChunkedWriter

`out_write` appends a generator to a deque and starts a chain of `callLater`s
that writes a chunk each.  A second response starts a second chain on the same
deque.  Chunks are numbered as they are produced, so that `peer` can be compared
with what was written.  Chunks not yet written when the connection is lost are
kept in the deque, as in the code.

### WsgiRpc

Each request is a thread with a position `at` and the fields of its context that
later steps read.  Each step of `ServerBase` has the three outcomes the code
tells apart: it succeeds, it sets an error on the context, or it lets an
exception out of the WSGI callable because the call stands outside of the `try`.
Auxiliary contexts are processed by the loop of `process_contexts` in the order
of registration; `SyncAuxProc` runs the method in place, `ThreadAuxProc` queues
it for its pool, which the requests share.

### WsdlDocument

Threads of one server ask for the WSDL.  For WSGI the reads and writes of
`self._wsdl` outside of the lock are steps of their own: a thread reads the
document object, looks at the cache, stores what it read, reads again, takes the
lock, looks again, builds.  The build is a step per section, each of which looks
up elements in dictionaries that outlive it (`service_elt_dict`,
`port_type_dict`, the schema dictionary) and adds what is missing to the tree
they belong to.  `tree[k]` counts how often each part occurs below the k-th
root.  `lost` records that a late store has overwritten the cached document.
Django's sections are taken between the same points without a lock.

### EventManager

`oset` keeps a dictionary from handlers to nodes `[key, prev, next]` of a doubly
linked list with a sentinel.  `heap` is the sequence of all nodes ever made, so
a node's number is its age and a removed node remains where a walk may still
stand on it.  `AddFirst` makes the set of an event, `AppendHandler` and
`RemoveHandler` relink nodes as `add` and `discard` do, `RemoveAll` is
`del_listener` without a handler, which drops the set with its links intact.
`Fire` and `HandlerReturns` are `__iter__`, the second of which looks up the
next node only after the handler has run.  `curr`, `list` and `stage` are the
state of the generator; `ran`, `removed`, `born` and `gone` are history the
properties speak of.

### ServerBase and the servers

`ServerBase` models each call as an operator from the context before it to the set
of contexts after it.  A context is a record, and an exception on its way up is one
of its fields (`exc`); `Then(set, F)` goes on with `F` where there is none, as the
statements of a function do, and `except` clauses choose by `exc`.  `CallWrapper`
has the ways a call of user code ends (a value, a fault, an exception, a Deferred, a
push, `Ignored`, a redirect), `ProcessRequest` the `except` clauses around it,
and any listener named in `RaisingEvents` may raise.  `ProcessContexts` yields the
contexts of a loop that comes to its end or as far as the method that raises.

Each server then is what it makes of these.  `NullServer.Call` and
`DjangoServer.HandleRpc` are one step each, since nothing comes between; in the latter
user code may set the response code and the `out_string` of its context (`set`).
`WebSocketServer` and `TwistedHttp` have a step per callback of the reactor, between
which the client may leave.  A websocket message has an `out_string` that can be joined
once or again (`once`) and to texts or to bytes (`text`); one that user code set itself is
not modelled there.  `ZeroMqPool` has workers that take requests from an inbox
each and may die of an exception; `WebSocketClients` has the connections and the
shared registry `clients`.

`TwistedHttp` has both kinds of protocols.  Most make an `out_string`, which the producer
sends.  Those of cloth and HTML write to the request while they serialize (`StreamOut`,
`EndDocument`): what they wrote before they failed is with the client, and a push in the
result suspends them (`InitInterimPush`, `AppendInterim`, `InterimEnds`).  User code may
set the response code and the string of its context (`UserSets`), and a redirect does.

| `TwistedHttp` | Code |
|---|---|
| `at` | the request has arrived, or `render` has returned |
| `q.out` | where serialization writes: to `out_string`, or to the request, which is the `out_stream` (`XmlCloth`, HTML) |
| `q.resp` | whether user code has set `transport.resp_code` |
| `q.deferred` | the user's Deferred: none, pending or fired |
| `q.producer`, `q.body`, `q.left` | the producer of the response (a `Producer`, that of a file, one that has raised), what it holds, chunks to go |
| `q.push`, `q.gen`, `q.stack` | the Deferred of a push that is the result or in it (`interim`), the generator of the former, whether it is in `pusher_stack` |
| `q.notify` | a `notifyFinish` callback that closes the context is registered |
| `q.reply` | what `render` returns in place of `NOT_DONE_YET` |
| `q.code`, `q.head`, `q.sent` | the response code as it is set (`own` is the user's), as it was sent, and what was sent |
| `q.finished`, `q.gone` | `request.finish()` was called; the client has left |

### ComplexModel and Memoize

`classes` is the sequence of class objects with their own fields, bases, mixins,
the original they are a variant of, and customizations that wait for fields to
come.  `Define`, `Customizes`, `AppendField` and `InsertField` do what the
metaclass and the class methods do, the walk over subclasses and variants and
the clearing of memos included.  `flat` and `below` are the memos of two views of
a class, `asked` is history: what a program has asked of the fields of each class.

What Python looks up in base classes is looked up (`Lookup`): `variants` and
`subclasses` hold the `_variants` and `_subclasses` of those `Attributes` that have their
own, and a class without its own finds the one of its base (`complex.py:258-270`).  So a
class that extends one with variants keeps its own variants with those, and a field that
is given to it goes to all of them; `VariantsFollow` says of these variants (`Shared`) only
that they have the fields of their class.  In the same way a class with a base that has no
fields extends what the base extends, but the memo of `get_subclasses` is not cleared then
(315-321).  Two properties say what that leaves of the memos: `NothingStale`, that the
fields a memo holds are the fields of the class, and that whom it lists below a class is
below it; `NothingMissing`, that only such classes are missing from the list.  When a base has got fields after all, a variant that is made then
extends the base though its original does not (`Rebase`); `Customized` says nothing of
these.  Statements are restricted (`MayInherit`): a customized class is no base and no mixin,
and a mixin has no bases and is no base itself.

In `Memoize` a call is split where another thread may come between: the look (`Call`),
the lock with the second look and the begin of the computation (`TakeLock`), its end
with the store (`Keep`), and the fetch (`GetMemo`).  `place` is where a thread is,
`holder` who has the lock, `got` the version a thread computes from or has fetched.
`Change` and `Clear` are the two halves of an `append_field`: the source changes, then
the memo is cleared.  Two properties are kept apart.  `MemoContract` is what a caller is
left with when a clear comes into its call.  `ComputedOnce` is the work of the lock and of
the look behind it, and goes beyond what the module says of itself: the docstring of
`memo.py` (25-26) calls memoizers "NOT thread-safe" and advises against relying on
"exactly-one-execution-per-key behavior in a multithreaded environment".  It is checked as
a property of the code that a change of it may break, for one key and from one clear to the
next, and is nothing to build on.

### Models and Documents

A behaviour takes one input from a set and computes one output (`Jobs`).  The
properties then relate output and input: what was written and read again is the
instance it was made of, unless the instance is one of those the code is known
to lose; a document is accepted exactly if the members occur as often as their
class says; text is valid exactly if the schema says so; a decorated function
is called with its own arguments; a column stands for each field.  In this way the
algorithms, which have no state of their own, are compared with a reference over
all inputs of a small set, and every deviation is written down in the property,
where it can be seen, with the condition under which it happens.

* `Classes` keeps types in a heap under numbers, since statements share objects: the
  element of an array that was customized is the array's own or its original's, and a
  later statement shows which.
* `Descriptors` takes a function's parameters and options, the synonyms of options
  included, and yields the messages, names and wrappers of the method, or an exception.
* `Interface` enters the classes of headers, of messages and of auxiliary methods, and
  the methods that classes have themselves, which are called by the name of their class
  (`MembersCalled`).  From what was entered `BuildWsdl` makes messages, port types,
  bindings and services (`WsdlClosed`: what is referred to is there).
* `Tables` makes columns and properties of the classes in the order of their
  definition; `SchemaParser` keeps what waits for a type and tries it again when more
  was read.
* `Conversions` has a value as its Python type and the codings around it; each protocol
  is the set of handlers it replaces and the forms its document can carry.
* `Cloth` numbers the elements of a template in document order and writes as the code
  does, in one pass; `Markup` writes as a sequence of opened, closed and text marks, with
  the coroutine of a push as the rest of what is to be written.
* `HttpRpc` has texts as sequences of symbols, of which only those with a meaning in a
  query or a cookie differ.  The parameters of a url are lists of values by name, which
  the patterns that are tried append to, and WSGI and Twisted join them to the query and
  the form in ways of their own (`WsgiBody`, `TwistedBody`): what both read alike is
  stated for names that are in one place.  A request is for the WSDL or for a method by its address,
  and the address in the WSDL leads back to the application (`UrlsLeadBack`).
* `Messages` has a request as what carries it (its charset, the HTTP method, the map from
  content types to protocols) and what it says.  References of SOAP bodies are elements
  that another element names by its id.


## 3. Runs

| Run | Shows |
|---|---|
| `msgpack_sound` | four requests, queue limit 2, idle timeout, methods whose results can be sent: no callback raises (`OnlyInputRaises`), order (`FifoPipeline`), contexts closed (`SentIsClosed`), every request is answered (`Answered`), and the connection implements `OrderedResponses` with its liveness |
| `msgpack_faulty` | one request whose result cannot be packed, one with a failing auxiliary method: `active_queue` mirrors `inreq_queue` within the limit (`QueuesAgree`), nothing due is withheld (`NothingWithheld`), only the broken request is lost (`OnlyBrokenLost`) |
| `msgpack_enqueued_twice` | finding: the assertion of `enqueue_outresp_data` fails |
| `chunks` | four responses of up to three chunks: the peer sees a prefix, and the chunks arrive unless the connection goes |
| `wsgi_requests` | two requests with three auxiliary methods, of a pool with one thread, with `process_exceptions`, and plain: one response and one close (`OneResponse`), gating, order and isolation of auxiliary methods (`AuxContract`), exact pools (`PoolExact`), every request and job ends (`Served`) |
| `twisted_http` | one request that ends in every way while the client may leave: the answer is the one document of the outcome, under its code or the one user code set, unless it was partly streamed when something failed (`RightAnswer`), it is finished, closed and followed by auxiliary methods once, unless one of the known ways to do so twice is met (`OnceEach`), and it is answered and released unless one of the known ways to hang is met (`Answered`, `Released`) |
| `servers` | a synchronous call of the null server returns the value or raises, and closes (`NullContract`); a Django response has the code of its document, or the one user code set, and the document of its outcome, or the one user code made (`DjangoContract`); a websocket message has one response, or where something fails behind it the same again or an empty frame, a ZeroMQ request is in one inbox until it is answered (`ResponseContract`); the registry of websocket clients reaches all but those that lost their name (`ClientsContract`); answers come (`ProgressContract`) |
| `wsdl_requests` | two threads of either server, builds that may raise: one build at a time, one document for all as long as nothing raised, every thread answered |
| `wsdl_wsgi` | finding: incomplete documents |
| `events` | three handlers, one fire, five nodes: who is called (`Delivery`), the walk ends (`Ends`), and the list is an ordered set (`ImplementsOrder`) |
| `models` | the jobs of `Models`, beside three classes with two changes of fields, and three threads with two changes of what a memo depends on: numbers, strings and times agree with the schema and cross every protocol (`ValuesAgree`); decorated functions, interfaces, types that share each other, schema files and tables are what their program says (`InterfaceSound`); the memos of views hold nothing that is not so (`NothingStale`) and lack only what extends past a base without fields (`NothingMissing`), customizations reach the fields they were asked for (`CustomizationsKept`), a memoized call returns a value the function had or one of the known others (`MemoContract`), and is computed once between two clears (`ComputedOnce`) |
| `documents` | the jobs of `Documents`: what is written comes back, and is in its place in templates and markup (`RoundTrips`), arrays keep their order (`ArraysInOrder`), occurrences are enforced (`Occurrences`), calls reach their method with their values and callers get what it returned, over every protocol and HttpRpc (`MessagesArrive`) |

`PROJECT.json` names the mistakes each property was tried on.

### Bounds

* *Requests (4; 6 in the finding that needs them).*  With a queue limit of 2, two
  requests are active and two wait, so one can be admitted by the flush of another
  and a third still waits behind it: the deepest nesting in which three different
  requests take part.  Where the run is about limits the proofs cover any number.
* *`InactiveLimits` {1, 9}.*  The default is infinite and a subclass may set a number;
  the initial state picks one.  With 1 the second active request drops the connection,
  with 9 nothing does, and only then do requests wait behind a full queue.
* *Chunks (4 responses of up to 3).*  Three chains on one deque suffice for two
  chains to find it empty; four leave one more.
* *WSGI (2 requests, 3 auxiliary methods, 1 thread in the pool).*  Two requests
  contend for the pool; three methods give each kind one and an order to get wrong.
* *Twisted HTTP (2 chunks, 2 pushes, 2 auxiliary methods, of which the second
  processes exceptions and raises).*  The client can leave before, between and
  behind the chunks; requests share no state.  Both places to serialize to are tried, with
  and without a code that user code set.
* *Servers (3 clients, 2 names, 2 workers, 2 requests).*  A name can be taken by a
  second client, and by a third after the first has gone; one worker can die while
  the other lives.
* *WSDL (2 threads).*  Every race in it is between one thread that builds and one
  that looks; a third thread behaves as the second.
* *Events (3 handlers, 1 fire, `MaxNodes` 5).*  Five nodes are the sentinel and
  four registrations: one handler can be removed, added again and removed again,
  or the list be dropped and begun anew while the walk stands in the old one.  A
  fire only reads the list, so fires do not influence each other; the proof is for
  any number.
* *Models (`MaxClasses` 3, `MaxSets` 2, fields a and b; 3 threads, `MaxChanges` 2).*
  Three classes are an original, its variant and the variant's, or a class between
  a base and a mixin; two sets are a field before and one after a customization.
  Three threads are one that computes late, one that clears, and one that reads.
* *Decorated functions, classes, schemas and tables.*  Each option that shapes a message
  is given alone and with those it excludes or overrides.  Programs of four or five
  statements make two classes, the types they share, and a variant.  Schemas are one
  file with two classes, two that import each other, and two levels of include.  Stored
  classes are two with two stored fields each, in tables of their own or shared, in
  three shapes.  Datetimes have at most two formats per class.  Descriptions are of two
  services with one method each or one with two, of every kind, with no port, one or two.
  `MaxViews` 1 lets each of the two memos of classes hold one entry.
* *Documents.*  Classes have up to three members, instances nest twice, lists have up
  to three elements (`MaxLen` 2 for members): enough for a repeated member, a gap, a
  repeated class and a cycle.  `TextOrder` and `IndexOrder` are the orders Python
  gives the texts, with indexes of two digits.  Integers have 8 and 16 bits and stand
  on and beside their boundaries.
* *Templates and markup.*  Templates have three or four elements, a field with an
  element before and one behind it among them.  Markup is written of objects with two
  fields of fifteen kinds, by nine protocols, in four shapes; orders are of up to four
  fields in places from -2 to 3.
* *HttpRpc (`MaxContentLength` 5, `BlockLength` 2).*  Bodies are up to two symbols longer
  than allowed, so that the limit is met inside a block and at its end.  Queries have
  up to three pairs, cookies two with values of two symbols; three headers name an
  address.
* *Messages.*  Each carrier has one deviation at a time, in front of eight protocols.
  References are from two parameters to two elements with one child each, which may refer
  in turn: enough for a shared, a missing and a circular one.

### Fairness

* `TwistedMsgpack`: a running callback finishes, since it is sequential code, and
  each Deferred of the user fires.  Nothing is assumed of client, timer or network.
* `ChunkedWriter`: the reactor runs delayed calls that are due.
* `WsgiRpc`: threads of the WSGI server and the pools are scheduled, and user code
  comes to an end.  Weak fairness suffices, since only its own thread disables a step.
* `TwistedHttp`, `WebSocketServer`: Deferreds of the user fire, pushes end, and the
  reactor goes on to ask a registered producer.  Nothing is assumed of the client.  In
  `TwistedHttp` the first of these is stated by its field, `[]<>(q.deferred # "pending")`,
  which is weak fairness of the two steps that end it.
* `ZeroMqPool`: workers that live go on.
* `WsdlDocument`: a thread that can go on does.  Weak fairness is enough for the
  lock because there are finitely many requests.
* `EventManager`: handlers return.  `Ends` further relies on the bound on
  registrations: a handler that removes and adds itself in every call makes
  `fire_event` go on for ever, in the code as in the model without `MaxNodes`.


## 4. Proofs

TLAPS checks the theorems below for every value of the constants that satisfies
the named assumption of the module (`TwistedMsgpackAssumption` and so on).  The
assumptions say what sorts the constants have and, in `WsgiRpc`, that a
`ThreadAuxProc` cannot process exceptions and that a pool has a thread, in
`ZeroMqPool` that there is a worker, and in `Servers` that names are not clients.
All invariants and action properties that the runs about servers, events, memos and
classes check are theorems, except `NothingMissing`, and so are both refinements, that of
`OrderedResponses` without its liveness.

**TwistedMsgpack.** The order of requests comes first.  `TypeCorrect` is inductive by
itself.  `Fifo`: `FifoPipeline` is inductive given the types, because it relates all four
places a request may be in: `wire`, `inreq`, `inactive` and `next`.  `Agreement` needs
it (the entry that is flushed is not already among the active ones).  `Flushed` says
that a due answer is under the flush loop; it needs that a frame which stores an
answer becomes the flush loop in the same step.  `Implementation` maps every step to a
step of `OrderedResponses` or a stutter; it needs `DataInv`, that only entries of
`inreq_queue` hold data.  Liveness of the refinement remains with TLC.

The others are about the call stack, whose depth is not bounded.

* `FramesCorrect` has `StackInv`: besides the above, `FramesInv` (every frame but the
  innermost waits for a call; a context with a frame was admitted and its Deferred is
  not pending; no two of its frames lead to a close) and `ClosesInv` (the flush closes a
  context once, and so does the one callback it has, after which nothing will:
  `WillClose`).  `SentClosed` follows.
* `AnswersHeld` has `AnswerInv`: `BottomInv` (the lowest frame is one of the reactor's, and
  those stop an exception), `OpenInv` (a context is open until it has been through a
  callback or the flush) and `HoldInv`: an entry of `inreq_queue` without a response,
  unless its own result cannot be sent, is open and has a *token*, which is its pending
  Deferred or the running frame on its way to enqueue the response.  Whatever is
  raised, and through whose frames, the token is handed on or turned into a response.
  `NoneLost` follows.
* `InputRaises` holds where `Sound` does: all results can be packed, no auxiliary method
  raises and no method with several values returns `Ignored`, which is what
  `msgpack_sound` assumes as well.  `SoundInv` is then inductive: an exception on its way
  is that of an undecodable message and unwinds `dataReceived` alone, and whatever has
  a token has no response yet.
* `DropStops` (`DropStopsReading`, which no run repeats): `DropInv` says that a connection
  that is being dropped delivers nothing more, and that `dataReceived` is not about to
  read the next message.

**ChunkedWriter.** `PrefixDelivered` and `NeverForgotten` are inductive together
with the types and with the agreement of `conn` and `disconnecting`.

**WsgiRpc.** `ResponseOnce`, `AuxContracts` and `PoolsExact` come from
one invariant that ties `starts` and `closes` to the position of the thread,
states that auxiliary contexts at or behind `cursor` are idle, and that a job
is queued or running exactly if its context says so, in one place only.

**WsdlDocument.** `BuildsExclude` and `AnswersAgree`: `Rooted` says that a build past
its first sections has a root element to work on, `Guarded` that a thread inside
the section the lock guards holds the lock, and `OneDocument` that, unless a late
store has lost it, what threads have seen, cached or answered is the one document
`wsdl`, and that nobody builds once there is one.

**Memoize.** `MemoKept` (`MemoContract`) and `MemoOnce` (`ComputedOnce`, which the lock
gives and the docstring of `memo.py` does not promise) have `MemoInv`: `Locked` says that
who computes holds the lock, and nobody else; `Single` that a value is stored at most once between two clears, and nobody
computes while there is one; `Timely` that what is computed is the present version unless
the memo has been cleared, or is about to be, since the call began; and `Findable` that who
is about to fetch finds a value, unless it was cleared.  It holds for any number of threads
and changes.

**ComplexModel.** `ViewsFresh` (`NothingStale`) and `CustomizationsSurvive`
(`CustomizationsKept`) have `ClassInv`, for any number of classes, fields and
customizations.  It is

* `ClassTypes`: classes refer to earlier ones, fields have one name each, and a variant's
  original is no variant itself;
* `VariantsKept`: what is kept with a class are variants, each variant is found by its
  original, whoever keeps it, and extends something if that does; and `Listed`, that
  lists of subclasses are of classes there are.  Both are about where Python finds an
  attribute, so they need `LookupStays` and `FoundGrows`: another class that gets an
  attribute of its own hides that of its base from nobody who found something in it;
* `Follow`: variants have the fields of their original, and the same ones in the same order
  if nobody shares them (`SharedIn`).  It is inductive as once two classes share variants
  they always do (`SharedStays`), and because a field reaches a variant together with its
  original, unless it is shared or was given the field itself;
* `AllDue`, which is needed because a customization may wait for a field that comes later,
  in the class or in one it extends: what was asked of a class is, for each field, either
  there in the `Nearest` class of its line that has the field, or waits in every class of
  the line (`DueField`), or both in case it was asked of all fields (`DueAll`).  A field
  that is then set anywhere meets who waits for it.  It says nothing of classes that are
  `Rebased`, in a line their original does not have;
* `NothingStale`: lists of subclasses only grow, so what was below a class stays below it
  (`BelowGrows`), though the memo is not always cleared.

What the model computes by recursive functions is turned into equations by `Recursion`, and
what holds all along a line of classes follows by `Induction`; both are lemmas about sets of
numbers, got from the fact that a set of numbers has a least one.

**EventManager.** The properties say nothing of links, so none is inductive.
`Keyed` connects the dictionary and the nodes; `Current` puts everything
registered behind the last sentinel; `Linked` says that registered nodes and
sentinel form a ring in order of age.  `Walking` is the heart: for the nodes a
fire may meet (`Met`), the removed ones included, the way leads on to a later
such node or to the sentinel, and never past a handler that has been registered
since the fire began.  It survives `RemoveHandler` because a removed node's
neighbours are linked around it, while the node itself keeps pointing at what was
once its successor, which, if it is removed too, leads on in turn.  `Fresh` says that
a fire starts with nothing called.  From these follow `SpecAllCalled`,
`SpecNoneCalledLate`, `SpecInOrder`, with the keys of the nodes a fire has run
`SpecNoneCalledTwice`, and `SpecDelivery`, which puts them together.

`SpecImplementsOrder` is the refinement of `ListenerOrder`.  The mapping `Walk` is the
keys a walk would meet, and it follows the links by a recursive function, `Way`.  Since
the ring is in order of age, `Way` rises until it is back at the sentinel, and what it
has met then is the registered nodes in order (`Listing`).  There is one such sequence
only; so a node that is linked in at the end appends its key, and one that is linked out
takes its own key away and leaves the others in place.

**ServerBase.** `ServerBaseProofs` has a lemma for each operator of `ServerBase`, in the
manner of Hoare: of a context `p` that is `Running` (all fields, no exception) and any
context `c` the call may leave, which fields differ (`Kept(p, c, changed)`) and what
holds of them.  For instance, `Close` counts one more or ends in an exception of a
listener, which is then on record in `raised`.  The proofs of the servers go from lemma
to lemma as the code goes from call to call.  `ProcessContexts` is for this reason a set
of prefixes of its loop, which needs no fold.

**Servers.** Each server has an invariant of its own, and the others leave its variables
alone.

* `NullAnswers`: `CallInv` says that a call is as it was made or is concluded as
  `NullContract` has it, and that while its Deferred is awaited no document has been made.
* `DjangoAnswers`: `ViewInv` is `DjangoContract` for a request that has its response.
  `View` and `Allowed` are what `HandleRpc` and `HandleError` hand to each other, the code
  and the document that user code set included.
* `ResponsesCorrect`: in `MessageInv` a message whose Deferred is pending is `Unanswered`,
  so that the one callback finds nothing sent, and `Framed` says of a frame what of
  `out_string` it used up; `PoolInv` says that a client waits for each
  of its requests that is in an inbox, so that there is one at most.
* `ClientsCorrect`: in `RegistryInv` a client has one entry at most, made when it
  connected, and the entry under a client's own id is its own, until it leaves.
  `ClientsContract`, an action property in part, needs that to tell whose entry goes.

**TwistedHttp.** `HttpCorrect` has `HttpInv`: a request is newborn, or it waits for the
user's Deferred with nothing done (`Pending`), or it is `Settled`, which is

* `Sound`: what was sent is as `RightAnswer` has it, and closes and runs as `OnceEach` has
  them, or one of the exceptions they name is on record;
* `Quiet`: who may still close the context or run the auxiliary methods is one at most.
  Whoever is `Busy` with the result, a producer or a push that was found in it (`Interim`),
  closes the context, and so does `notifyFinish`; the end of a push that user code returned
  runs the auxiliary methods;
* and `Silent`, where nothing reaches the client any more, or `Working`: what a producer or
  a push still writes is more of the document that was begun, or else the document is
  `Torn`: it was written to the request as it was made, and something failed before its
  end.

`Coded` is what keeps the code of the user: until the head is sent, the code that is set is
the user's if there is one.  Every call of the reactor runs to its end in one step.  The proof
goes through the functions in the order of their calls: `Fresh`, `Ready`, `Started`,
`Failing`, `Late`, `Redirectable`, `Replying` and `Closable` are their preconditions, each
function with a lemma that says which of these, or `Settled`, holds after, for a result that
is made first and for one that is streamed (`Streaming`).  `RightAnswers` and `EachOnce`
follow, for any number of auxiliary methods, chunks and pushes.

**Only model-checked.**

* Everything temporal under fairness, which the prover does not reach: `Answered`,
  `Drained`, `Served`, `Released`, `Ends`, `ProgressContract`, the liveness of
  `OrderedResponses`.
* `NothingMissing`.  It needs more of the shape of `_subclasses` than the proof has: that a
  class is reached from every class it extends, through the lists that are shared.
* `InterfaceSound`, `ValuesAgree`, `RoundTrips`, `ArraysInOrder`, `Occurrences` and
  `MessagesArrive`.  They compare recursive algorithms on data (`RECURSIVE` operators over
  trees of documents, classes and types) with what they should compute, and a proof would
  be an induction over that data.


## 5. Findings

Two have a run that reaches the state in question.

1. `msgpack_enqueued_twice`: an exception of one request that was started from
   inside the flush of another makes the other one enqueue a second response
   (`server/twisted/msgpack.py:296`).
2. `wsdl_wsgi`: `self._wsdl` is written outside of the lock, so a late store empties
   the cache and the document is rebuilt incompletely (`server/wsgi.py:337`).

The others are part of the models, and the properties state when they happen.

*Servers.*

* MessagePack: `process_exceptions` has no effect, since `handle_error` hands
  `process_contexts` the protocol where it wants the server (`msgpack.py:392`).  A
  context whose response still waits is closed, and closed again when it is flushed.
  The limit on inactive contexts is compared with the number of active ones.  With
  `out_chunk_size`, `outresp_flushed` is fired when chunks are queued, a chain of
  delayed calls runs on after the connection is lost, and several chains outpace
  `out_chunk_delay_sec`.
* WSGI: `wsgi_close`, documented as fired after the data has been returned, comes
  before it (`wsgi.py:507`).  An error found while the response is serialized goes out
  with `200 OK` (`wsgi.py:454`).  A generator method that raises before its first yield
  leaves `handle_rpc` without a response.
* Auxiliary methods: one that raises ends the loop over the rest, and its context is
  not closed; `ThreadAuxProc.initialize` replaces the pool for every server.
* Twisted HTTP: when the client leaves before the Deferred fires, the context is
  closed and the auxiliary methods run twice; so they run for a push that comes by a
  Deferred or whose client leaves.  A push never closes its context; neither does a
  redirect by a Deferred, which also finishes the request before its producer.  A lazy
  body that raises leaves the request open for ever.  Of a method with several results,
  a Deferred ends in a TypeError.  Protocols that write to the request (`http.py:627`) have
  sent a part of the result, under its code, when something raises, and the fault follows
  it.  A code that user code sets is kept for a fault too (`http.py:582`), so that one may
  go out under the user's 200; it is lost when a push is returned at once.  After a push
  inside of a result that is closed at once there is no body to produce, which leaves the
  request open.
* Null: auxiliary contexts, contexts of failing calls and those of `is_async` are not
  closed; a failing call through `is_async` raises TypeError in place of its fault.
* Django: a response code that user code set survives an error, so that a fault may go out
  under the user's 200 (`django.py:233`); an error after serialization goes out with the
  document of the result and the code of the error; concurrent WSDL builds answer with unfinished trees, though a
  comment calls them safe (`django.py:207-210`); `port_type_dict` is not emptied.
* Websocket: the errback also hears of what fails after the response and sends the
  response again, or, as the `out_string` of JsonDocument and MessagePackDocument is a
  generator, an empty frame.  On Python 3 no response can be sent at all: `''.join` of
  bytes raises (`websocket.py:158, 168`).  The setter of `app_id` deletes the entry of another client of that
  name; `connectionLost` deletes by `id(self)`, so that entries of renamed clients stay.
* ZeroMQ: `process_contexts` gets its arguments in the wrong order, so that all
  auxiliary methods run after an error; a worker that dies keeps its inbox, and what
  is handed to it is not answered.
* Events: a handler that is removed while its event is fired may still be called.

*Models and interface.*

* A thread that computes while a memo is cleared stores its stale value behind the
  clear, for ever; a call whose key is cleared between the look and the fetch gets None.
  Between two clears the lock does make one execution of many, which the docstring of
  `memo.py` denies.
* `child_attrs_all` is replaced by a later one for fields that come after it, delayed
  `child_attrs` are overwritten, and `Mandatory(Array)` changes the array it is given.
* `_variants` is found in the base: a class that is defined after its base was customized
  gives its own fields (`complex.py:1305-1308, 1316-1319`), and a reference to itself
  (1347-1350), to the variants of the base, which the base has not.
* A class whose base has no fields joins the subclasses of the class above without a clear
  of the memo of `get_subclasses` (`complex.py:315-321, 679-684`), which stays without it.
* A primary method that is entered after an auxiliary one of its name ends the start
  with a TypeError (`interface/_base.py:306`); classes that refer to each other may end
  it in an AssertionError of `toposort2`; of variants with one name the schema keeps
  the last.  Methods of two classes of one name end the start with a ValueError.
* WSDL: all operations of a service with several port types go into its last one, while
  its bindings follow the port each method names.  The headers of asynchronous methods
  refer to messages that are there only if some method calls back, and the port of
  callbacks has no binding.  A callback of a service with ports, before any without, ends
  the build with an AttributeError.

*Documents and values.*

* Flat: with `strict_arrays` an array of more than ten elements is refused; the second
  member of a class below the root is dropped in silence; objects with nothing set
  vanish and shift the arrays they are in.
* Hierarchical: frequencies count keys, so `max_occurs` of a list is not enforced and
  `min_occurs` above 1 never met, though `model/_base.py:329-337` allows any number;
  None for a complex member comes back as an empty list; `complex_as=list` with
  wrappers cannot be read again.
* XML: attributes of a child are assigned to members of its parent with the same
  name; a mandatory XmlAttribute is always refused by soft validation; the class of
  `xsi:type` need not extend the declared one.
* Values: soft validation refuses the highest unsigned number of each width, and the
  longest negative text of signed ones; a duration with few microseconds comes back
  longer; negative offsets with minutes are read as another instant; datetimes written
  as numbers lose their zone, as `msec` their milliseconds.
* Messages: bare methods do not work over JsonDocument (arguments), XmlDocument, JSON-RPC
  and MessagePack RPC (results); JSON-RPC drops a header with fewer members than its
  position; MessagePack RPC cannot read its own errors, and Soap12 not its own
  prefixes; of several classes of HTTP headers the first is read only; a fault where a SOAP
  or JSON-RPC request should be, and an empty SOAP body, end in an AttributeError; of
  several elements of a SOAP body that refer to the same one only one gets what is in it,
  and a reference that is missing or circular is an error of the server; Soap12 sends a
  detail only if it is a dict with one key, where `Fault` asks for an "additional
  information dict".
* Routing: addresses with `{placeholders}` sort behind letters, so that they win over
  addresses that are spelled out, contrary to the comment in `server/http.py:263-265`;
  parameters of patterns that did not fit stay; patterns with a host cannot be made on
  Python 3.  Under Twisted, values are unquoted twice and a single empty value is not
  turned into None, contrary to the comment in `twisted/http.py:451`; a value of the
  address replaces those of the query and the form (bytes keys beside text keys,
  `twisted/http.py:437-440`), which WSGI adds to each other; and no pattern without an
  address fits.
* HttpRpc on Python 3: under Twisted the url of the application cannot be joined of texts
  and bytes, so that WSDL requests fail.  Headers have other names under Twisted than
  under WSGI.  Without a Content-Length WSGI cuts longer bodies silently, and a response
  that is not chunked cannot be joined.  An error while the headers of a response are
  written leaves the status 200.  Of several files of one field WSGI keeps the first.  A
  cookie named "cookie" is parsed twice.  `get_trusted_ip` compares substrings.
* Simple values: MessagePack writes Decimals and times as bytes that it cannot read, and
  cannot write enums.  The formats of a DateTime are used for writing only, except for
  `out_format`, documented as "only when serializing", which is used for reading.
  What `serialize_as` writes can often not be read: Dates as numbers, Uuids as texts.
  SOAP writes Dates with their format and reads ISO dates only.
  Files in XML come back coded.  JSON refuses numbers for times in soft validation, and
  answers a number for a Decimal with an error of the server.

*Definitions.*

* Decorators: `_soap_body_style` is ignored without `_body_style` and overrides it
  otherwise (`decorator.py:147-173`); `_in_header` must be a tuple, though the
  doc string says a type or an iterable (320-321); `_out_variable_name` with another body
  style raises (544), though it is documented as ignored (335-340); `mrpc` with
  `_operation_name` always raises (446-450).  Of two methods of a service with one
  message name the second cannot be reached.
* Classes: types that a program makes of each other share more than it says.
  `Mandatory(Array)` and the variants of modifiers change the element of the type they
  are made from; an array of SelfReference belongs to the first class it is put in; the
  namespace of a subclass without its own depends on which is resolved first.
  `child_attrs` with a `sub_name` does not renew the table of alternative names.
  Mandatory members with a `sub_name` are always refused by soft XML validation.
* Order: `order=-1` or beyond the end is not always that place, though
  `model/_base.py:476` says it is that of `insert()`.
* Tables: a `table()` shared by two fields makes them share the foreign key; so do two
  arrays of one class with the same element class.  Unsigned numbers get signed columns.
  The `__tablename__` of a subclass is ignored.  Foreign keys name the field and not the
  column of the primary key.  Arrays appended to a class with variants raise
  (`_base.py:730`, "This branch MUST be tested").
* Schema parser: members whose type comes later are moved to the end of their class; a
  single file silently lacks members of undeclared types; names of another file are read
  with the prefixes of the importing one; entries are deleted from a dict that is walked,
  a RuntimeError on Python 3; unions fail whatever depends on them.

*Templates and markup.*

* Cloth: the tail of an element behind the last entered one is written twice; the place of
  a field without value goes with its tail; children of an entered object with no place
  inside are lost; a required None is written as an element inside of itself (tests
  `_test_simple_empty_nonoptional*`, disabled).
* Pushes: `XmlCloth` drops the coroutine of a member below an object, so that what is
  pushed there, and the members behind it, are not sent; with several pushed members only
  what comes before the second wait is written.
* Markup: a list inside an element of another array is swallowed by XML, HTML and
  microformats; tables with `ignore_wrappers` write empty cells for lists; rows of a
  subclass have more cells than their header; a polymorphic switch loses the
  customization of fields; HTML writes no XmlAttributes.


## 6. What is left to do

* Fault classes, geometries, the prefixes of namespaces; the types of
  `store/relational/document.py`.
* The algorithms of `DictDocuments` and `XmlTree` with recursive functions in place of
  `RECURSIVE` operators, which would bring `RoundTrips` within reach of a proof by
  `Induction` on the depth of an instance.


## 7. Not modelled

* *Bytes*: the wire formats, lxml, msgpack, yaml, WSGI header texts.
  A message is a number, a model value, or a record of what the code tells apart.
* *External code*: Twisted's reactor and transports, SQLAlchemy, Django, zmq; they
  appear as the events and calls `spyne/` sees.
* *HTTP*: files of forms, patterns with a host, MIME attachments.
* *Streaming by `XmlDocument`* over Twisted (`xml.py:636-655`), which writes to a stream
  as cloth does and finishes it; a push inside of an object that is pushed.
* *Markup*: tag bags, templates of classes, faults, links of images, styles.
* *Relational store*: indexes, constraints, files, several primary keys.
* *Clients* (`client/`): thin wrappers around one request and its response.
* *Overlapping registration of listeners* in two threads, *several servers sharing
  one `ThreadAuxProc`*, and files kept by contexts.
* *Vendored code and tools* (`util/six.py`, `util/_twisted_ws.py` but for `sendFrame`,
  `util/invregexp.py`), examples, and the build.
