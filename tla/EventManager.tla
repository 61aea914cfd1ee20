---------------------------- MODULE EventManager ----------------------------
(***************************************************************************)
(* The listeners of one event (spyne/evmgr.py) in the ordered set they are *)
(* kept in (spyne/util/oset.py): a dictionary from handlers to the nodes   *)
(* of a doubly linked list with a sentinel.                                *)
(*                                                                         *)
(* fire_event walks the list while it calls the handlers, and a handler    *)
(* may add and remove listeners or fire the event itself; requests in      *)
(* other threads fire it as well.  Calls of add_listener and del_listener  *)
(* do not overlap each other.                                              *)
(*                                                                         *)
(* A node is named by the number of nodes made so far, so that a greater   *)
(* number means a later registration.                                      *)
(*                                                                         *)
(* Definitions whose name begins with Bad are the definition that follows  *)
(* them with a mistake, and not part of the model.                         *)
(***************************************************************************)
EXTENDS Naturals, Sequences, FiniteSets

CONSTANTS
    Handlers,   \* functions that are registered for the event
    Fires,      \* calls of fire_event
    MaxNodes,   \* bound: nodes and sentinels made
    NoKey       \* the key of a sentinel, None

ASSUME EventManagerAssumption ==
    /\ NoKey \notin Handlers
    /\ MaxNodes \in Nat

VARIABLES
    heap,       \* the nodes [key, prev, next], sentinels among them
    end,        \* sentinel of the oset in handlers, 0 if there is no entry
    map,        \* map[h]: node of h in that oset, 0 if it has none
    stage,      \* stage[f]: "ready", "running", "returned" or "raised"
    list,       \* list[f]: the sentinel the loop of f compares with
    curr,       \* curr[f]: the node whose handler f runs
    ran,        \* ran[f]: the nodes whose handlers f has called
    removed,    \* nodes that were taken out of their list
    born,       \* born[f]: number of nodes when f began
    gone        \* gone[f]: value of removed when f began

oset == <<heap, end, map, removed>>
walks == <<stage, list, curr, ran, born, gone>>
vars == <<oset, walks>>

Init ==
    /\ heap = <<>>
    /\ end = 0
    /\ map = [h \in Handlers |-> 0]
    /\ removed = {}
    /\ stage = [f \in Fires |-> "ready"]
    /\ list = [f \in Fires |-> 0]
    /\ curr = [f \in Fires |-> 0]
    /\ ran = [f \in Fires |-> {}]
    /\ born = [f \in Fires |-> 0]
    /\ gone = [f \in Fires |-> {}]

-----------------------------------------------------------------------------
(* add_listener and oset.add.                                              *)

\* The first handler of the event gets a new oset.
AddFirst(h) ==
    LET s == Len(heap) + 1 IN
    /\ end = 0
    /\ s < MaxNodes
    /\ heap' = heap \o << [key |-> NoKey, prev |-> s + 1, next |-> s + 1],
                          [key |-> h, prev |-> s, next |-> s] >>
    /\ end' = s
    /\ map' = [map EXCEPT ![h] = s + 1]
    /\ UNCHANGED <<removed, walks>>

\* A handler that is there already is added again.
BadAppendHandler(h) ==
    LET n == Len(heap) + 1
        last == heap[end].prev
    IN
    /\ end # 0
    /\ n <= MaxNodes
    /\ heap' = Append([heap EXCEPT ![last].next = n, ![end].prev = n],
                      [key |-> h, prev |-> last, next |-> end])
    /\ map' = [map EXCEPT ![h] = n]
    /\ UNCHANGED <<end, removed, walks>>

\* In front of the others.
BadPrependHandler(h) ==
    LET n == Len(heap) + 1
        first == heap[end].next
    IN
    /\ end # 0
    /\ map[h] = 0
    /\ n <= MaxNodes
    /\ heap' = Append([heap EXCEPT ![first].prev = n, ![end].next = n],
                      [key |-> h, prev |-> end, next |-> first])
    /\ map' = [map EXCEPT ![h] = n]
    /\ UNCHANGED <<end, removed, walks>>

AppendHandler(h) ==
    LET n == Len(heap) + 1
        last == heap[end].prev
    IN
    /\ end # 0
    /\ map[h] = 0
    /\ n <= MaxNodes
    /\ heap' = Append([heap EXCEPT ![last].next = n, ![end].prev = n],
                      [key |-> h, prev |-> last, next |-> end])
    /\ map' = [map EXCEPT ![h] = n]
    /\ UNCHANGED <<end, removed, walks>>

-----------------------------------------------------------------------------
(* del_listener and oset.discard.  Without an entry, or with a handler that *)
(* is not there, they raise a KeyError and change nothing.                  *)

\* The removed node no longer leads into the list.
BadRemoveHandler(h) ==
    LET n == map[h] IN
    /\ end # 0
    /\ n # 0
    /\ heap' = [heap EXCEPT ![heap[n].prev].next = heap[n].next,
                            ![heap[n].next].prev = heap[n].prev,
                            ![n].next = end]
    /\ map' = [map EXCEPT ![h] = 0]
    /\ removed' = removed \cup {n}
    /\ UNCHANGED <<end, walks>>

\* The node before it still leads to it.
BadRemoveHalf(h) ==
    LET n == map[h] IN
    /\ end # 0
    /\ n # 0
    /\ heap' = [heap EXCEPT ![heap[n].next].prev = heap[n].prev]
    /\ map' = [map EXCEPT ![h] = 0]
    /\ removed' = removed \cup {n}
    /\ UNCHANGED <<end, walks>>

\* prev and next are swapped.
BadRemoveSwapped(h) ==
    LET n == map[h] IN
    /\ end # 0
    /\ n # 0
    /\ heap' = [heap EXCEPT ![heap[n].next].next = heap[n].prev,
                            ![heap[n].prev].prev = heap[n].next]
    /\ map' = [map EXCEPT ![h] = 0]
    /\ removed' = removed \cup {n}
    /\ UNCHANGED <<end, walks>>

\* A node keeps its own links when it is taken out.
RemoveHandler(h) ==
    LET n == map[h] IN
    /\ end # 0
    /\ n # 0
    /\ heap' = [heap EXCEPT ![heap[n].prev].next = heap[n].next,
                            ![heap[n].next].prev = heap[n].prev]
    /\ map' = [map EXCEPT ![h] = 0]
    /\ removed' = removed \cup {n}
    /\ UNCHANGED <<end, walks>>

\* del_listener without a handler drops the set, with its list as it is.
RemoveAll ==
    /\ end # 0
    /\ end' = 0
    /\ map' = [h \in Handlers |-> 0]
    /\ removed' = removed \cup ({map[h] : h \in Handlers} \ {0})
    /\ UNCHANGED <<heap, walks>>

-----------------------------------------------------------------------------
(* fire_event and oset.__iter__.                                           *)

\* Call the handler of node n, or leave the loop.
Visit(f, n) ==
    IF n = list'[f]
    THEN stage' = [stage EXCEPT ![f] = "returned"] /\ UNCHANGED <<curr, ran>>
    ELSE /\ stage' = [stage EXCEPT ![f] = "running"]
         /\ curr' = [curr EXCEPT ![f] = n]
         /\ ran' = [ran EXCEPT ![f] = @ \cup {n}]

\* An event without an entry has an empty oset.
Fire(f) ==
    /\ stage[f] = "ready"
    /\ list' = [list EXCEPT ![f] = end]
    /\ Visit(f, IF end = 0 THEN 0 ELSE heap[end].next)
    /\ born' = [born EXCEPT ![f] = Len(heap)]
    /\ gone' = [gone EXCEPT ![f] = removed]
    /\ UNCHANGED oset

\* The next node is looked up when the handler is back.
HandlerReturns(f) ==
    /\ stage[f] = "running"
    /\ UNCHANGED list
    /\ Visit(f, heap[curr[f]].next)
    /\ UNCHANGED <<oset, born, gone>>

\* An exception of a handler goes through fire_event.
HandlerRaises(f) ==
    /\ stage[f] = "running"
    /\ stage' = [stage EXCEPT ![f] = "raised"]
    /\ UNCHANGED <<oset, list, curr, ran, born, gone>>

-----------------------------------------------------------------------------
Next ==
    \/ \E h \in Handlers : AddFirst(h) \/ AppendHandler(h) \/ RemoveHandler(h)
    \/ RemoveAll
    \/ \E f \in Fires : Fire(f) \/ HandlerReturns(f) \/ HandlerRaises(f)

\* Handlers come back.
Fairness == \A f \in Fires : WF_vars(HandlerReturns(f))

Spec == Init /\ [][Next]_vars
FairSpec == Spec /\ Fairness

-----------------------------------------------------------------------------
(* Properties.                                                             *)

Node == [key : Handlers \cup {NoKey}, prev : Nat, next : Nat]
Nodes == 1 .. Len(heap)
Registered == {n \in Nodes : heap[n].key # NoKey /\ n \notin removed}

\* Each variable holds what it may hold.
TypeOK ==
    /\ heap \in Seq(Node)
    /\ end \in 0 .. Len(heap)
    /\ map \in [Handlers -> 0 .. Len(heap)]
    /\ removed \subseteq Nodes
    /\ stage \in [Fires -> {"ready", "running", "returned", "raised"}]
    /\ list \in [Fires -> 0 .. Len(heap)]
    /\ curr \in [Fires -> 0 .. Len(heap)]
    /\ ran \in [Fires -> SUBSET Nodes]
    /\ born \in [Fires -> 0 .. Len(heap)]
    /\ gone \in [Fires -> SUBSET Nodes]

\* A fire that returned has called every handler that was registered when it
\* began and still is, whatever was added and removed under its feet, the
\* node it stood on included.
AllCalled == \A f \in Fires : stage[f] = "returned" =>
    \A n \in Registered : n <= born[f] => n \in ran[f]

\* It calls no handler that was removed before it began.
NoneCalledLate == \A f \in Fires : ran[f] \cap gone[f] = {}

\* "Adding a handler twice does not cause it to run twice": not unless it was
\* removed in between.
NoneCalledTwice == \A f \in Fires : \A m, n \in ran[f] :
    m < n /\ heap[m].key = heap[n].key => m \in removed

\* What an event promises its listeners, while they come and go.
Delivery == AllCalled /\ NoneCalledLate /\ NoneCalledTwice

\* Handlers are called in the order they were registered, also after the list
\* was relinked during the walk.
InOrder == [][\A f \in Fires :
    stage[f] = "running" /\ curr'[f] # curr[f] => curr'[f] > curr[f]]_vars

\* Every fire ends as long as registrations do.
Ends == \A f \in Fires : stage[f] = "running" ~> stage[f] # "running"

\* The nodes met on the way from the sentinel, one after the other.
Way ==
    LET way[k \in 0 .. Len(heap)] == IF k = 0 THEN end ELSE heap[way[k - 1]].next
    IN  way

\* The handlers met before the way is back at the sentinel.
Walk ==
    LET before == {k \in 1 .. Len(heap) : \A j \in 1 .. k : Way[j] # end}
    IN  IF end = 0 THEN <<>> ELSE [k \in before |-> heap[Way[k]].key]

\* The linked list behaves as the ordered set it stands for.
Order == INSTANCE ListenerOrder WITH listeners <- Walk
ImplementsOrder == Order!Spec
=============================================================================
