------------------------- MODULE EventManagerProofs -------------------------
(***************************************************************************)
(* What holds of EventManager for every set of handlers and any number of  *)
(* fires and registrations: a fire calls the handlers it should and no     *)
(* others, in order, although the list is relinked under its feet.         *)
(***************************************************************************)
EXTENDS EventManager, SequenceTheorems, WellFoundedInduction, TLAPS

Ring == Registered \cup {end}

\* map and the nodes of registered handlers agree, and a handler's newest
\* node is the registered one.
Keyed ==
    /\ \A h \in Handlers : map[h] # 0 =>
          map[h] \in Registered /\ heap[map[h]].key = h
    /\ \A n \in Registered : map[heap[n].key] = n
    /\ \A m \in Registered, n \in Nodes : heap[n].key = heap[m].key => n <= m

\* All that is registered was made after the sentinel it is linked to, and no
\* sentinel was made since.
Current ==
    /\ end = 0 => Registered = {}
    /\ end # 0 => /\ heap[end].key = NoKey
                  /\ \A n \in Nodes : n > end => heap[n].key # NoKey
                  /\ \A n \in Registered : n > end

\* The registered nodes and the sentinel form a ring in the order of their
\* registration.
Linked == end # 0 =>
    /\ \A n \in Ring :
          /\ heap[n].next \in Ring /\ heap[heap[n].next].prev = n
          /\ heap[n].prev \in Ring /\ heap[heap[n].prev].next = n
          /\ heap[n].next = end \/ heap[n].next > n
    /\ \A n \in Ring, m \in Registered : m > n =>
          heap[n].next # end /\ heap[n].next <= m

\* The nodes a fire may meet: those of its list that were not removed before
\* it began.
Met(f) == {n \in Nodes : /\ n > list[f]
                         /\ n \notin gone[f]
                         /\ \A k \in Nodes : list[f] < k /\ k <= n =>
                               heap[k].key # NoKey}

\* From each node a fire may meet its way leads on to later ones, and past no
\* handler that was registered all the time.
Walking == \A f \in Fires : stage[f] = "running" =>
    /\ list[f] \in Nodes /\ heap[list[f]].key = NoKey
    /\ curr[f] \in ran[f] /\ ran[f] \subseteq Met(f)
    /\ \A x \in Met(f) :
          heap[x].next # list[f] => heap[x].next \in Met(f) /\ heap[x].next > x
    /\ \A x \in Met(f), d \in Registered : d <= born[f] /\ d > x =>
          heap[x].next # list[f] /\ heap[x].next <= d
    /\ \A d \in Registered : d <= born[f] /\ d <= curr[f] => d \in ran[f]

\* A fire that has not begun has called nothing.
Fresh == \A f \in Fires : stage[f] = "ready" => ran[f] = {}

Inv == /\ TypeOK /\ Keyed /\ Current /\ Linked /\ Walking
       /\ Fresh /\ AllCalled /\ NoneCalledLate

\* The parts hold of an event that has no listeners.
LEMMA InitInv == Init => Inv
  <1> SUFFICES ASSUME Init PROVE Inv
    OBVIOUS
  <1>1. TypeOK
    BY DEF Init, TypeOK, Nodes
  <1>2. Nodes = {} /\ Registered = {}
    BY DEF Init, Nodes, Registered
  <1> QED
    BY <1>1, <1>2 DEF Init, Inv, Keyed, Current, Linked, Walking, Fresh,
                      AllCalled, NoneCalledLate

USE EventManagerAssumption

\* Members of the ring are nodes; the registered ones are not its sentinel.
LEMMA RingNodes ==
  ASSUME Inv, end # 0
  PROVE  Ring \subseteq Nodes /\ end \notin Registered /\ Registered \subseteq Nodes
  BY DEF Inv, TypeOK, Current, Ring, Registered, Nodes

\* A sentinel and a node, linked to each other.
LEMMA AddFirstStep ==
  ASSUME Inv, NEW h \in Handlers, AddFirst(h)
  PROVE  Inv'
  <1> DEFINE s == Len(heap) + 1
  <1>1. /\ heap \in Seq(Node) /\ Len(heap) \in Nat /\ end = 0 /\ Registered = {}
        /\ Nodes = 1 .. Len(heap)
    BY DEF Inv, TypeOK, Current, AddFirst, Nodes
  <1>2. /\ heap' \in Seq(Node) /\ Len(heap') = Len(heap) + 2
        /\ Nodes' = Nodes \cup {s, s + 1}
        /\ \A n \in Nodes : heap'[n] = heap[n]
        /\ heap'[s] = [key |-> NoKey, prev |-> s + 1, next |-> s + 1]
        /\ heap'[s + 1] = [key |-> h, prev |-> s, next |-> s]
    <2> DEFINE A == [key |-> NoKey, prev |-> s + 1, next |-> s + 1]
               B == [key |-> h, prev |-> s, next |-> s]
    <2>1. heap' = heap \o <<A, B>>
      BY DEF AddFirst
    <2>2. A \in Node /\ B \in Node
      BY <1>1 DEF Node
    <2> HIDE DEF A, B
    <2>3. <<A, B>> \in Seq(Node) /\ Len(<<A, B>>) = 2
      BY <2>2
    <2>4. heap' \in Seq(Node) /\ Len(heap') = Len(heap) + 2
      BY <1>1, <2>1, <2>3
    <2>5. \A n \in 1 .. Len(heap) : heap'[n] = heap[n]
      BY <1>1, <2>1, <2>3
    <2>6. heap'[s] = A /\ heap'[s + 1] = B
      BY <1>1, <2>1, <2>3
    <2>7. Nodes' = Nodes \cup {s, s + 1}
      BY <1>1, <2>4 DEF Nodes
    <2> QED
      BY <1>1, <2>4, <2>5, <2>6, <2>7 DEF A, B
  <1>3. removed \subseteq Nodes
    BY DEF Inv, TypeOK
  <1>4. Registered' = {s + 1}
    <2>1. removed' = removed /\ s \notin removed /\ s + 1 \notin removed
      BY <1>1, <1>3 DEF AddFirst
    <2>2. \A n \in Nodes : heap[n].key = NoKey \/ n \in removed
      BY <1>1 DEF Registered
    <2>3. heap'[s].key = NoKey /\ heap'[s + 1].key = h
      BY <1>2
    <2> QED
      BY <1>2, <2>1, <2>2, <2>3 DEF Registered
  <1>5. map = [g \in Handlers |-> 0]
    BY <1>1 DEF Inv, TypeOK, Keyed
  <1>6. TypeOK'
    BY <1>1, <1>2 DEF AddFirst, Inv, TypeOK, walks, Nodes
  <1>7. Keyed' /\ Current' /\ Linked'
    <2>1. map' = [g \in Handlers |-> IF g = h THEN s + 1 ELSE 0]
      BY <1>5 DEF AddFirst
    <2>2. Keyed'
      BY <1>1, <1>2, <1>4, <2>1 DEF Keyed, Nodes
    <2>3. Current'
      <3>1. end' = s /\ s # 0 /\ s + 1 > s
        BY <1>1 DEF AddFirst
      <3>2. \A n \in Nodes' : n > s => n = s + 1
        BY <1>1, <1>2
      <3>3. heap'[s].key = NoKey /\ heap'[s + 1].key = h
        BY <1>2
      <3> QED
        BY <1>4, <3>1, <3>2, <3>3 DEF Current
    <2>4. Linked'
      BY <1>1, <1>2, <1>4 DEF AddFirst, Linked, Ring
    <2> QED
      BY <2>2, <2>3, <2>4
  <1>8. Walking'
    <2> SUFFICES ASSUME NEW f \in Fires, stage[f] = "running"
                 PROVE  /\ list[f] \in Nodes' /\ heap'[list[f]].key = NoKey
                        /\ curr[f] \in ran[f] /\ ran[f] \subseteq Met(f)'
                        /\ \A x \in Met(f)' : heap'[x].next # list[f] =>
                              heap'[x].next \in Met(f)' /\ heap'[x].next > x
                        /\ \A d \in Registered' : ~(d <= born[f])
      BY DEF Walking, AddFirst, walks
    <2>1. Met(f)' = Met(f)
      <3>1. list[f] \in Nodes
        BY DEF Inv, Walking
      <3>2. ASSUME NEW n \in Met(f)' PROVE n \in Met(f)
        <4>1. n \in Nodes
          BY <1>1, <1>2, <3>1, <3>2 DEF Met, AddFirst, walks
        <4> QED
          BY <1>2, <3>2, <4>1 DEF Met, AddFirst, walks
      <3>3. ASSUME NEW n \in Met(f) PROVE n \in Met(f)'
        BY <1>1, <1>2, <3>3 DEF Met, AddFirst, walks
      <3> QED
        BY <3>2, <3>3
    <2>2. born[f] \in 0 .. Len(heap)
      BY DEF Inv, TypeOK
    <2>3. Met(f) \subseteq Nodes
      BY DEF Met
    <2>4. \A d \in Registered' : ~(d <= born[f])
      BY <1>1, <1>4, <2>2
    <2>5. list[f] \in Nodes /\ heap[list[f]].key = NoKey
      BY DEF Inv, Walking
    <2>6. curr[f] \in ran[f] /\ ran[f] \subseteq Met(f)
      BY DEF Inv, Walking
    <2>7. \A x \in Met(f) : heap[x].next # list[f] =>
             heap[x].next \in Met(f) /\ heap[x].next > x
      BY DEF Inv, Walking
    <2> HIDE DEF s
    <2> QED
      BY <1>2, <2>1, <2>3, <2>4, <2>5, <2>6, <2>7
  <1>9. Fresh' /\ AllCalled' /\ NoneCalledLate'
    BY <1>1, <1>4 DEF Inv, TypeOK, Fresh, AllCalled, NoneCalledLate, AddFirst, walks
  <1> QED
    BY <1>6, <1>7, <1>8, <1>9 DEF Inv

\* What the assignments to prev[NEXT] and next[PREV] do to the nodes.
Relink(old, a, b, u, v) == [old EXCEPT ![a].next = u, ![b].prev = v]

\* Relinking changes one pointer of each of two nodes, and neither their keys nor
\* anything of the others.
LEMMA Relinked ==
  ASSUME NEW old \in Seq(Node), NEW a \in 1 .. Len(old), NEW b \in 1 .. Len(old),
         NEW u \in Nat, NEW v \in Nat
  PROVE  /\ Relink(old, a, b, u, v) \in Seq(Node)
         /\ Len(Relink(old, a, b, u, v)) = Len(old)
         /\ \A k \in 1 .. Len(old) :
               /\ Relink(old, a, b, u, v)[k].key = old[k].key
               /\ Relink(old, a, b, u, v)[k].next = IF k = a THEN u ELSE old[k].next
               /\ Relink(old, a, b, u, v)[k].prev = IF k = b THEN v ELSE old[k].prev
  <1> DEFINE mid == [old EXCEPT ![a].next = u]
             new == [mid EXCEPT ![b].prev = v]
  <1>1. \A k \in 1 .. Len(old) : old[k] \in Node
    OBVIOUS
  <1>2. [old[a] EXCEPT !.next = u] \in Node
    <2>1. old[a] \in Node
      BY <1>1
    <2> QED
      BY <2>1 DEF Node
  <1>3. mid \in Seq(Node) /\ Len(mid) = Len(old)
    BY <1>2
  <1>4. \A k \in 1 .. Len(old) :
           /\ mid[k].key = old[k].key /\ mid[k].prev = old[k].prev
           /\ mid[k].next = IF k = a THEN u ELSE old[k].next
    <2> SUFFICES ASSUME NEW k \in 1 .. Len(old)
                 PROVE  /\ mid[k].key = old[k].key /\ mid[k].prev = old[k].prev
                        /\ mid[k].next = IF k = a THEN u ELSE old[k].next
      OBVIOUS
    <2>1. CASE k = a
      <3>1. mid[k] = [old[a] EXCEPT !.next = u]
        BY <2>1
      <3> QED
        BY <1>1, <2>1, <3>1 DEF Node
    <2>2. CASE k # a
      <3>1. mid[k] = old[k]
        BY <2>2
      <3> QED
        BY <2>2, <3>1
    <2> QED
      BY <2>1, <2>2
  <1> HIDE DEF mid
  <1>5. \A k \in 1 .. Len(old) : mid[k] \in Node
    BY <1>3
  <1>6. [mid[b] EXCEPT !.prev = v] \in Node
    BY <1>5 DEF Node
  <1>7. new \in Seq(Node) /\ Len(new) = Len(old)
    BY <1>3, <1>6
  <1>8. \A k \in 1 .. Len(old) :
           /\ new[k].key = mid[k].key /\ new[k].next = mid[k].next
           /\ new[k].prev = IF k = b THEN v ELSE mid[k].prev
    <2> SUFFICES ASSUME NEW k \in 1 .. Len(old)
                 PROVE  /\ new[k].key = mid[k].key /\ new[k].next = mid[k].next
                        /\ new[k].prev = IF k = b THEN v ELSE mid[k].prev
      OBVIOUS
    <2>1. CASE k = b
      <3>1. new[k] = [mid[b] EXCEPT !.prev = v]
        BY <1>3, <2>1
      <3> QED
        BY <1>5, <2>1, <3>1 DEF Node
    <2>2. CASE k # b
      <3>1. new[k] = mid[k]
        BY <1>3, <2>2
      <3> QED
        BY <2>2, <3>1
    <2> QED
      BY <2>1, <2>2
  <1>9. new = Relink(old, a, b, u, v)
    BY DEF mid, Relink
  <1> HIDE DEF new
  <1>10. \A k \in 1 .. Len(old) :
           /\ new[k].key = old[k].key
           /\ new[k].next = IF k = a THEN u ELSE old[k].next
           /\ new[k].prev = IF k = b THEN v ELSE old[k].prev
    BY <1>4, <1>8
  <1> QED
    BY <1>7, <1>9, <1>10

Extend(old, a, b, h) ==
    Append(Relink(old, a, b, Len(old) + 1, Len(old) + 1),
           [key |-> h, prev |-> a, next |-> b])

\* Extending appends one node that points to its neighbours, and makes them point
\* to it.
LEMMA Extended ==
  ASSUME NEW old \in Seq(Node), NEW a \in 1 .. Len(old), NEW b \in 1 .. Len(old),
         NEW h \in Handlers
  PROVE  /\ Extend(old, a, b, h) \in Seq(Node)
         /\ Len(Extend(old, a, b, h)) = Len(old) + 1
         /\ \A k \in 1 .. Len(old) :
               /\ Extend(old, a, b, h)[k].key = old[k].key
               /\ Extend(old, a, b, h)[k].next =
                     IF k = a THEN Len(old) + 1 ELSE old[k].next
               /\ Extend(old, a, b, h)[k].prev =
                     IF k = b THEN Len(old) + 1 ELSE old[k].prev
         /\ Extend(old, a, b, h)[Len(old) + 1] =
               [key |-> h, prev |-> a, next |-> b]
  <1> DEFINE A == [key |-> h, prev |-> a, next |-> b]
             mid == Relink(old, a, b, Len(old) + 1, Len(old) + 1)
             new == Append(mid, A)
  <1>1. A \in Node
    BY DEF Node
  <1>2. Len(old) \in Nat
    OBVIOUS
  <1>3. /\ mid \in Seq(Node) /\ Len(mid) = Len(old)
        /\ \A k \in 1 .. Len(old) :
               /\ mid[k].key = old[k].key
               /\ mid[k].next = IF k = a THEN Len(old) + 1 ELSE old[k].next
               /\ mid[k].prev = IF k = b THEN Len(old) + 1 ELSE old[k].prev
    BY <1>2, Relinked
  <1> HIDE DEF A, mid
  <1>4. /\ new \in Seq(Node) /\ Len(new) = Len(mid) + 1 /\ new[Len(mid) + 1] = A
        /\ \A k \in 1 .. Len(mid) : new[k] = mid[k]
    <2>1. mid \in Seq(Node) /\ A \in Node
      BY <1>1, <1>3
    <2>2. Append(mid, A) \in Seq(Node) /\ Len(Append(mid, A)) = Len(mid) + 1
      BY <2>1, AppendProperties
    <2>3. Append(mid, A)[Len(mid) + 1] = A
      BY <2>1, AppendProperties
    <2>4. \A k \in 1 .. Len(mid) : Append(mid, A)[k] = mid[k]
      BY <2>1, AppendProperties
    <2> QED
      BY <2>2, <2>3, <2>4
  <1>5. \A k \in 1 .. Len(old) : new[k] = mid[k]
    BY <1>3, <1>4
  <1>6. Extend(old, a, b, h) = new
    BY DEF Extend, mid, A
  <1> HIDE DEF new
  <1>7. new[Len(old) + 1] = [key |-> h, prev |-> a, next |-> b]
    BY <1>3, <1>4 DEF A
  <1>8. \A k \in 1 .. Len(old) :
               /\ new[k].key = old[k].key
               /\ new[k].next = IF k = a THEN Len(old) + 1 ELSE old[k].next
               /\ new[k].prev = IF k = b THEN Len(old) + 1 ELSE old[k].prev
    BY <1>3, <1>5
  <1> QED
    BY <1>3, <1>4, <1>6, <1>7, <1>8

\* A node between the last one and the sentinel.
LEMMA AppendHandlerStep ==
  ASSUME Inv, NEW h \in Handlers, AppendHandler(h)
  PROVE  Inv'
  <1> DEFINE n == Len(heap) + 1
             last == heap[end].prev
  <1>1. /\ heap \in Seq(Node) /\ Len(heap) \in Nat /\ end # 0 /\ map[h] = 0
        /\ Nodes = 1 .. Len(heap) /\ removed \subseteq Nodes /\ end \in Nodes
        /\ n \in Nat /\ n \notin Nodes /\ \A k \in Nodes : k \in Nat /\ k < n
    BY DEF Inv, TypeOK, AppendHandler, Nodes
  <1>2. Ring \subseteq Nodes /\ end \notin Registered /\ Registered \subseteq Nodes
    BY <1>1, RingNodes
  <1>3. /\ last \in Ring /\ last \in Nodes /\ heap[last].next = end
        /\ \A m \in Registered : m <= last
    <2>1. last \in Ring /\ heap[last].next = end
      BY <1>1 DEF Inv, Linked, Ring
    <2>2. \A m \in Registered : ~(m > last)
      BY <1>1, <2>1 DEF Inv, Linked
    <2>3. last \in Nodes
      BY <1>2, <2>1
    <2> HIDE DEF last
    <2> QED
      BY <1>1, <1>2, <2>1, <2>2, <2>3
  <1>4. /\ heap' \in Seq(Node) /\ Len(heap') = Len(heap) + 1
        /\ Nodes' = Nodes \cup {n}
        /\ \A k \in Nodes : /\ heap'[k].key = heap[k].key
                            /\ heap'[k].next = IF k = last THEN n ELSE heap[k].next
                            /\ heap'[k].prev = IF k = end THEN n ELSE heap[k].prev
        /\ heap'[n].key = h /\ heap'[n].prev = last /\ heap'[n].next = end
    <2>1. heap' = Extend(heap, last, end, h)
      BY DEF AppendHandler, Extend, Relink
    <2>2. last \in 1 .. Len(heap) /\ end \in 1 .. Len(heap)
      BY <1>1, <1>3
    <2> HIDE DEF last
    <2>3. /\ heap' \in Seq(Node) /\ Len(heap') = Len(heap) + 1
          /\ \A k \in 1 .. Len(heap) :
                /\ heap'[k].key = heap[k].key
                /\ heap'[k].next = IF k = last THEN n ELSE heap[k].next
                /\ heap'[k].prev = IF k = end THEN n ELSE heap[k].prev
          /\ heap'[n] = [key |-> h, prev |-> last, next |-> end]
      BY <1>1, <2>1, <2>2, Extended
    <2>4. Nodes' = Nodes \cup {n}
      BY <1>1, <2>3 DEF Nodes
    <2> QED
      BY <1>1, <2>3, <2>4
  <1>5. /\ end' = end /\ removed' = removed /\ UNCHANGED walks
        /\ map' = [map EXCEPT ![h] = n]
    BY DEF AppendHandler
  <1>6. Registered' = Registered \cup {n}
    BY <1>1, <1>4, <1>5 DEF Registered
  <1>7. TypeOK'
    BY <1>1, <1>4, <1>5 DEF Inv, TypeOK, walks, Nodes
  <1> HIDE DEF n, last
  <1>8. Keyed'
    <2>1. map \in [Handlers -> 0 .. Len(heap)]
      BY DEF Inv, TypeOK
    <2>2. \A m \in Registered : heap[m].key \in Handlers \ {h}
      <3>1. \A m \in Registered : heap[m].key \in Handlers
        <4>1. \A m \in Nodes : heap[m] \in Node
          BY <1>1
        <4> QED
          BY <4>1 DEF Registered, Node
      <3>2. \A m \in Registered : heap[m].key # h
        BY <1>1, <1>2 DEF Inv, Keyed, Nodes
      <3> QED
        BY <3>1, <3>2
    <2>3. \A g \in Handlers : map'[g] # 0 =>
             map'[g] \in Registered' /\ heap'[map'[g]].key = g
      BY <1>2, <1>4, <1>5, <1>6, <2>1 DEF Inv, Keyed
    <2>4. \A m \in Registered' : map'[heap'[m].key] = m
      BY <1>2, <1>4, <1>5, <1>6, <2>1, <2>2 DEF Inv, Keyed
    <2>5. \A m \in Registered', k \in Nodes' :
             heap'[k].key = heap'[m].key => k <= m
      <3> SUFFICES ASSUME NEW m \in Registered', NEW k \in Nodes',
                          heap'[k].key = heap'[m].key
                   PROVE  k <= m
        OBVIOUS
      <3>1. CASE m = n
        BY <1>1, <1>4, <3>1
      <3>2. CASE m \in Registered
        BY <1>1, <1>2, <1>4, <2>2, <3>2 DEF Inv, Keyed
      <3> QED
        BY <1>6, <3>1, <3>2
    <2> QED
      BY <2>3, <2>4, <2>5 DEF Keyed
  <1>9. Current'
    BY <1>1, <1>2, <1>4, <1>5, <1>6, EventManagerAssumption DEF Inv, Current
  <1>10. Linked'
    <2>1. Ring' = Ring \cup {n}
      BY <1>5, <1>6 DEF Ring
    <2>2. ASSUME NEW k \in Ring'
          PROVE  /\ heap'[k].next \in Ring' /\ heap'[heap'[k].next].prev = k
                 /\ heap'[k].prev \in Ring' /\ heap'[heap'[k].prev].next = k
                 /\ heap'[k].next = end \/ heap'[k].next > k
      <3>1. CASE k = n
        BY <1>1, <1>2, <1>3, <1>4, <2>1, <3>1 DEF Ring
      <3>2. CASE k \in Ring
        <4>1. /\ heap[k].next \in Ring /\ heap[heap[k].next].prev = k
              /\ heap[k].prev \in Ring /\ heap[heap[k].prev].next = k
              /\ heap[k].next = end \/ heap[k].next > k
              /\ k \in Nodes /\ heap[k].next \in Nodes /\ heap[k].prev \in Nodes
          BY <1>1, <1>2, <3>2 DEF Inv, Linked
        <4>2. heap[k].next = end => k = last
          BY <4>1 DEF last
        <4>3. heap[k].prev = last => k = end
          BY <1>3, <4>1
        <4>4. /\ heap'[k].next \in Ring' /\ heap'[heap'[k].next].prev = k
              /\ heap'[k].next = end \/ heap'[k].next > k
          BY <1>1, <1>4, <2>1, <4>1, <4>2
        <4>5. heap'[k].prev \in Ring' /\ heap'[heap'[k].prev].next = k
          <5>1. CASE k = end
            BY <1>1, <1>4, <2>1, <4>1, <5>1
          <5>2. CASE k # end
            BY <1>1, <1>4, <2>1, <4>1, <4>3, <5>2
          <5> QED
            BY <5>1, <5>2
        <4> QED
          BY <4>4, <4>5
      <3> QED
        BY <2>1, <2>2, <3>1, <3>2
    <2>3. ASSUME NEW k \in Ring', NEW m \in Registered', m > k
          PROVE  heap'[k].next # end /\ heap'[k].next <= m
      <3>1. k \in Ring
        BY <1>1, <1>2, <1>6, <2>1, <2>3
      <3>2. CASE m = n
        <4>1. k \in Nodes /\ heap[k].next \in Nodes /\ heap[heap[k].next].prev = k
          BY <1>1, <1>2, <3>1 DEF Inv, Linked
        <4>2. heap[k].next = end => k = last
          BY <4>1 DEF last
        <4> QED
          BY <1>1, <1>4, <3>2, <4>1, <4>2
      <3>3. CASE m \in Registered
        BY <1>1, <1>2, <1>3, <1>4, <3>1, <3>3, <2>3 DEF Inv, Linked
      <3> QED
        BY <1>6, <3>2, <3>3
    <2> QED
      BY <1>5, <2>2, <2>3 DEF Linked
  <1>11. Walking'
    <2> SUFFICES ASSUME NEW f \in Fires, stage[f] = "running"
                 PROVE  /\ list[f] \in Nodes' /\ heap'[list[f]].key = NoKey
                        /\ curr[f] \in ran[f] /\ ran[f] \subseteq Met(f)'
                        /\ \A x \in Met(f)' : heap'[x].next # list[f] =>
                              heap'[x].next \in Met(f)' /\ heap'[x].next > x
                        /\ \A x \in Met(f)', d \in Registered' :
                              d <= born[f] /\ d > x =>
                                 heap'[x].next # list[f] /\ heap'[x].next <= d
                        /\ \A d \in Registered' :
                              d <= born[f] /\ d <= curr[f] => d \in ran[f]
      BY <1>5 DEF Walking, walks
    <2>1. /\ list[f] \in Nodes /\ heap[list[f]].key = NoKey
          /\ curr[f] \in ran[f] /\ ran[f] \subseteq Met(f)
          /\ \A x \in Met(f) : heap[x].next # list[f] =>
                heap[x].next \in Met(f) /\ heap[x].next > x
          /\ \A x \in Met(f), d \in Registered : d <= born[f] /\ d > x =>
                heap[x].next # list[f] /\ heap[x].next <= d
          /\ \A d \in Registered : d <= born[f] /\ d <= curr[f] => d \in ran[f]
      BY DEF Inv, Walking
    <2>2. born[f] < n /\ ~(n <= born[f]) /\ n \notin gone[f]
      BY <1>1 DEF Inv, TypeOK, n
    <2>3. list[f] <= end
      BY <1>1, <2>1 DEF Inv, Current
    <2>4. \A x \in Nodes : x \in Met(f)' <=> x \in Met(f)
      <3> SUFFICES ASSUME NEW x \in Nodes
                   PROVE  x \in Met(f)' <=> x \in Met(f)
        OBVIOUS
      <3>1. list' = list /\ gone' = gone
        BY <1>5 DEF walks
      <3>2. ~(n <= x)
        BY <1>1
      <3> QED
        BY <1>4, <3>1, <3>2 DEF Met
    <2>5. CASE list[f] = end
      <3>1. \A k \in Nodes' : end < k => heap'[k].key # NoKey
        BY <1>1, <1>4, EventManagerAssumption DEF Inv, Current
      <3>2. n \in Met(f)'
        BY <1>1, <1>4, <1>5, <2>2, <2>5, <3>1 DEF Met, walks
      <3>3. \A x \in Met(f)' : heap'[x].next # list[f] =>
               heap'[x].next \in Met(f)' /\ heap'[x].next > x
        <4> SUFFICES ASSUME NEW x \in Met(f)', heap'[x].next # list[f]
                     PROVE  heap'[x].next \in Met(f)' /\ heap'[x].next > x
          OBVIOUS
        <4>1. x # n
          BY <1>4, <2>5
        <4>2. x \in Nodes /\ x \in Met(f)
          BY <1>4, <2>4, <4>1 DEF Met
        <4>3. CASE x = last
          BY <1>1, <1>4, <3>2, <4>2, <4>3
        <4>4. CASE x # last
          <5>1. heap'[x].next = heap[x].next
            BY <1>4, <4>2, <4>4
          <5>2. heap[x].next \in Met(f) /\ heap[x].next > x
            BY <2>1, <4>2, <5>1
          <5> QED
            BY <2>4, <5>1, <5>2 DEF Met
        <4> QED
          BY <4>3, <4>4
      <3>4. \A x \in Met(f)', d \in Registered' : d <= born[f] /\ d > x =>
               heap'[x].next # list[f] /\ heap'[x].next <= d
        <4> SUFFICES ASSUME NEW x \in Met(f)', NEW d \in Registered',
                            d <= born[f], d > x
                     PROVE  heap'[x].next # list[f] /\ heap'[x].next <= d
          OBVIOUS
        <4>1. d \in Registered
          BY <1>6, <2>2
        <4>2. x \in Nodes /\ x \in Met(f)
          BY <1>1, <1>2, <1>4, <2>4, <4>1 DEF Met
        <4>3. x # last
          BY <1>1, <1>2, <1>3, <4>1, <4>2
        <4> QED
          BY <1>4, <2>1, <4>1, <4>2, <4>3
      <3> QED
        BY <1>4, <1>6, <2>1, <2>2, <2>4, <3>3, <3>4 DEF Met
    <2>6. CASE list[f] < end
      <3>1. \A x \in Met(f) : x < end
        BY <1>1, <2>1, <2>6 DEF Inv, Current, Met
      <3>2. last >= end
        BY <1>1, <1>3 DEF Inv, Current, Ring
      <3>3. n \notin Met(f)'
        <4>1. heap'[end].key = NoKey
          BY <1>1, <1>4 DEF Inv, Current
        <4>2. end \in Nodes' /\ end <= n
          BY <1>1, <1>4
        <4> QED
          BY <1>5, <2>6, <4>1, <4>2 DEF Met, walks
      <3>4. Met(f)' = Met(f)
        BY <1>4, <2>4, <3>3 DEF Met
      <3>5. \A x \in Met(f) : x \in Nodes /\ heap'[x].next = heap[x].next
        <4>1. \A x \in Met(f) : x \in Nodes /\ x # last
          BY <1>1, <1>3, <3>1, <3>2 DEF Met
        <4> QED
          BY <1>4, <4>1
      <3>6. \A d \in Registered' : d <= born[f] => d \in Registered
        BY <1>6, <2>2
      <3> QED
        BY <1>4, <2>1, <3>4, <3>5, <3>6
    <2> QED
      BY <1>1, <2>1, <2>3, <2>5, <2>6
  <1>12. Fresh' /\ AllCalled' /\ NoneCalledLate'
    <2>1. \A f \in Fires : ~(n <= born[f])
      BY <1>1 DEF Inv, TypeOK, n
    <2> QED
      BY <1>5, <1>6, <2>1 DEF Inv, Fresh, AllCalled, NoneCalledLate, walks
  <1> QED
    BY <1>7, <1>8, <1>9, <1>10, <1>11, <1>12 DEF Inv

\* The neighbours of a removed node are linked to each other.
LEMMA RemoveHandlerStep ==
  ASSUME Inv, NEW h \in Handlers, RemoveHandler(h)
  PROVE  Inv'
  <1> DEFINE n == map[h]
             p == heap[n].prev
             q == heap[n].next
  <1>1. /\ heap \in Seq(Node) /\ Len(heap) \in Nat /\ end # 0
        /\ Nodes = 1 .. Len(heap) /\ removed \subseteq Nodes /\ end \in Nodes
        /\ \A k \in Nodes : k \in Nat
    BY DEF Inv, TypeOK, RemoveHandler, Nodes
  <1>2. Ring \subseteq Nodes /\ end \notin Registered /\ Registered \subseteq Nodes
    BY <1>1, RingNodes
  <1>3. /\ n \in Registered /\ n \in Nodes /\ heap[n].key = h /\ n # end
        /\ p \in Ring /\ p \in Nodes /\ q \in Ring /\ q \in Nodes
        /\ heap[p].next = n /\ heap[q].prev = n
        /\ q = end \/ q > n
    <2>1. n \in Registered /\ heap[n].key = h
      BY DEF RemoveHandler, Inv, Keyed
    <2>2. n \in Ring
      BY <2>1 DEF Ring
    <2> HIDE DEF n
    <2> QED
      BY <1>1, <1>2, <2>1, <2>2 DEF Inv, Linked
  <1>4. p # n /\ q # n
    BY <1>1, <1>3
  <1>5. /\ heap' \in Seq(Node) /\ Len(heap') = Len(heap) /\ Nodes' = Nodes
        /\ \A k \in Nodes : /\ heap'[k].key = heap[k].key
                            /\ heap'[k].next = IF k = p THEN q ELSE heap[k].next
                            /\ heap'[k].prev = IF k = q THEN p ELSE heap[k].prev
    <2>1. heap' = Relink(heap, p, q, q, p)
      BY DEF RemoveHandler, Relink
    <2>2. /\ p \in 1 .. Len(heap) /\ q \in 1 .. Len(heap)
          /\ p \in Nat /\ q \in Nat /\ heap \in Seq(Node)
      BY <1>1, <1>3
    <2> DEFINE new == Relink(heap, p, q, q, p)
    <2> HIDE DEF p, q
    <2>3. /\ new \in Seq(Node) /\ Len(new) = Len(heap)
          /\ \A k \in 1 .. Len(heap) :
                /\ new[k].key = heap[k].key
                /\ new[k].next = IF k = p THEN q ELSE heap[k].next
                /\ new[k].prev = IF k = q THEN p ELSE heap[k].prev
      <3> HIDE DEF new
      <3>1. new \in Seq(Node)
        BY <2>2, Relinked DEF new
      <3>2. Len(new) = Len(heap)
        BY <2>2, Relinked DEF new
      <3>3. \A k \in 1 .. Len(heap) :
                /\ new[k].key = heap[k].key
                /\ new[k].next = IF k = p THEN q ELSE heap[k].next
                /\ new[k].prev = IF k = q THEN p ELSE heap[k].prev
        BY <2>2, Relinked DEF new
      <3> QED
        BY <3>1, <3>2, <3>3
    <2>4. heap' = new
      BY <2>1
    <2> HIDE DEF new
    <2> QED
      BY <1>1, <2>3, <2>4 DEF Nodes
  <1>6. /\ end' = end /\ removed' = removed \cup {n} /\ UNCHANGED walks
        /\ map' = [map EXCEPT ![h] = 0]
    BY DEF RemoveHandler
  <1>7. Registered' = Registered \ {n}
    BY <1>5, <1>6 DEF Registered
  <1> HIDE DEF n, p, q
  <1>8. TypeOK'
    <2>1. map' \in [Handlers -> 0 .. Len(heap)] /\ end' \in 0 .. Len(heap)
      BY <1>1, <1>6 DEF Inv, TypeOK
    <2>2. removed' \subseteq Nodes
      BY <1>1, <1>3, <1>6
    <2> QED
      BY <1>5, <1>6, <2>1, <2>2 DEF Inv, TypeOK, walks
  <1>9. Keyed'
    <2>1. map \in [Handlers -> 0 .. Len(heap)]
      BY DEF Inv, TypeOK
    <2>2. \A m \in Registered' : m \in Registered /\ m \in Nodes /\ heap[m].key # h
      BY <1>2, <1>7 DEF Inv, Keyed, n
    <2>3. \A g \in Handlers : map'[g] # 0 =>
             map'[g] \in Registered' /\ heap'[map'[g]].key = g
      <3> SUFFICES ASSUME NEW g \in Handlers, map'[g] # 0
                   PROVE  map'[g] \in Registered' /\ heap'[map'[g]].key = g
        OBVIOUS
      <3>1. g # h /\ map'[g] = map[g]
        BY <1>6, <2>1
      <3>2. map[g] \in Registered /\ heap[map[g]].key = g
        BY <3>1 DEF Inv, Keyed
      <3>3. map[g] # n
        BY <1>3, <3>1, <3>2
      <3> QED
        BY <1>2, <1>5, <1>7, <3>1, <3>2, <3>3
    <2>4. \A m \in Registered' : map'[heap'[m].key] = m
      BY <1>5, <1>6, <2>1, <2>2 DEF Inv, Keyed
    <2>5. \A m \in Registered', k \in Nodes' :
             heap'[k].key = heap'[m].key => k <= m
      BY <1>5, <2>2 DEF Inv, Keyed
    <2> QED
      BY <2>3, <2>4, <2>5 DEF Keyed
  <1>10. Current'
    BY <1>1, <1>5, <1>6, <1>7 DEF Inv, Current
  <1>11. Linked'
    <2>1. Ring' = Ring \ {n}
      BY <1>3, <1>6, <1>7 DEF Ring
    <2>2. ASSUME NEW k \in Ring'
          PROVE  /\ heap'[k].next \in Ring' /\ heap'[heap'[k].next].prev = k
                 /\ heap'[k].prev \in Ring' /\ heap'[heap'[k].prev].next = k
                 /\ heap'[k].next = end \/ heap'[k].next > k
      <3>1. /\ k \in Ring /\ k # n /\ k \in Nodes
            /\ heap[k].next \in Ring /\ heap[heap[k].next].prev = k
            /\ heap[k].prev \in Ring /\ heap[heap[k].prev].next = k
            /\ heap[k].next = end \/ heap[k].next > k
            /\ heap[k].next \in Nodes /\ heap[k].prev \in Nodes
        BY <1>1, <1>2, <2>1, <2>2 DEF Inv, Linked
      <3>2. heap[k].next = n <=> k = p
        BY <1>3, <3>1 DEF p
      <3>3. heap[k].prev = n <=> k = q
        BY <1>3, <3>1 DEF q
      <3>4. /\ heap'[k].next \in Ring' /\ heap'[heap'[k].next].prev = k
            /\ heap'[k].next = end \/ heap'[k].next > k
        <4>1. CASE k = p
          BY <1>1, <1>3, <1>4, <1>5, <2>1, <3>1, <3>2, <4>1
        <4>2. CASE k # p
          <5>1. heap'[k].next = heap[k].next
            BY <1>5, <3>1, <4>2
          <5>2. heap[k].next # q
            BY <1>3, <3>1
          <5> QED
            BY <1>5, <2>1, <3>1, <3>2, <4>2, <5>1, <5>2
        <4> QED
          BY <4>1, <4>2
      <3>5. heap'[k].prev \in Ring' /\ heap'[heap'[k].prev].next = k
        <4>1. CASE k = q
          BY <1>1, <1>3, <1>4, <1>5, <2>1, <3>1, <4>1
        <4>2. CASE k # q
          <5>1. heap'[k].prev = heap[k].prev
            BY <1>5, <3>1, <4>2
          <5>2. heap[k].prev # p
            BY <1>3, <3>1
          <5> QED
            BY <1>5, <2>1, <3>1, <3>3, <4>2, <5>1, <5>2
        <4> QED
          BY <4>1, <4>2
      <3> QED
        BY <3>4, <3>5
    <2>3. ASSUME NEW k \in Ring', NEW m \in Registered', m > k
          PROVE  heap'[k].next # end /\ heap'[k].next <= m
      <3>1. k \in Ring /\ k \in Nodes /\ m \in Registered /\ m # n /\ m \in Nodes
        BY <1>2, <1>7, <2>1
      <3>2. heap[k].next # end /\ heap[k].next <= m
        BY <1>1, <2>3, <3>1 DEF Inv, Linked
      <3>3. CASE k = p
        <4>1. m > n
          BY <1>1, <1>3, <3>1, <3>2, <3>3
        <4>2. n \in Ring
          BY <1>3 DEF Ring
        <4>3. q # end /\ q <= m
          BY <1>1, <3>1, <4>1, <4>2 DEF Inv, Linked, q
        <4> QED
          BY <1>5, <3>1, <3>3, <4>3
      <3>4. CASE k # p
        BY <1>5, <3>1, <3>2, <3>4
      <3> QED
        BY <3>3, <3>4
    <2> QED
      BY <1>6, <2>2, <2>3 DEF Linked
  <1>12. Walking'
    <2> SUFFICES ASSUME NEW f \in Fires, stage[f] = "running"
                 PROVE  /\ list[f] \in Nodes' /\ heap'[list[f]].key = NoKey
                        /\ curr[f] \in ran[f] /\ ran[f] \subseteq Met(f)'
                        /\ \A x \in Met(f)' : heap'[x].next # list[f] =>
                              heap'[x].next \in Met(f)' /\ heap'[x].next > x
                        /\ \A x \in Met(f)', d \in Registered' :
                              d <= born[f] /\ d > x =>
                                 heap'[x].next # list[f] /\ heap'[x].next <= d
                        /\ \A d \in Registered' :
                              d <= born[f] /\ d <= curr[f] => d \in ran[f]
      BY <1>6 DEF Walking, walks
    <2>1. /\ list[f] \in Nodes /\ heap[list[f]].key = NoKey
          /\ curr[f] \in ran[f] /\ ran[f] \subseteq Met(f)
          /\ \A x \in Met(f) : heap[x].next # list[f] =>
                heap[x].next \in Met(f) /\ heap[x].next > x
          /\ \A x \in Met(f), d \in Registered : d <= born[f] /\ d > x =>
                heap[x].next # list[f] /\ heap[x].next <= d
          /\ \A d \in Registered : d <= born[f] /\ d <= curr[f] => d \in ran[f]
      BY DEF Inv, Walking
    <2>2. Met(f)' = Met(f)
      BY <1>5, <1>6 DEF Met, walks
    <2>3. Met(f) \subseteq Nodes
      BY DEF Met
    <2>4. p \in Met(f) => n \in Met(f) /\ n > p
      <3>1. n # list[f]
        BY <1>1, <1>3, <2>1 DEF Registered
      <3> QED
        BY <1>3, <2>1, <3>1
    <2>5. ASSUME NEW x \in Met(f), heap'[x].next # list[f]
          PROVE  heap'[x].next \in Met(f) /\ heap'[x].next > x
      <3>1. CASE x = p
        <4>1. heap'[x].next = q
          BY <1>5, <2>3, <3>1
        <4>2. q \in Met(f) /\ q > n /\ n > p
          BY <2>1, <2>4, <2>5, <3>1, <4>1 DEF q
        <4> QED
          BY <1>1, <1>3, <3>1, <4>1, <4>2
      <3>2. CASE x # p
        BY <1>5, <2>1, <2>3, <2>5, <3>2
      <3> QED
        BY <3>1, <3>2
    <2>6. ASSUME NEW x \in Met(f), NEW d \in Registered', d <= born[f], d > x
          PROVE  heap'[x].next # list[f] /\ heap'[x].next <= d
      <3>1. d \in Registered /\ d # n /\ d \in Nodes /\ x \in Nodes
        BY <1>2, <1>7, <2>3
      <3>2. heap[x].next # list[f] /\ heap[x].next <= d
        BY <2>1, <2>6, <3>1
      <3>3. CASE x = p
        <4>1. n \in Met(f) /\ d > n
          BY <1>1, <1>3, <2>4, <3>1, <3>2, <3>3
        <4>2. q # list[f] /\ q <= d
          BY <2>1, <2>6, <3>1, <4>1 DEF q
        <4> QED
          BY <1>5, <3>1, <3>3, <4>2
      <3>4. CASE x # p
        BY <1>5, <3>1, <3>2, <3>4
      <3> QED
        BY <3>3, <3>4
    <2>7. \A d \in Registered' : d <= born[f] /\ d <= curr[f] => d \in ran[f]
      BY <1>7, <2>1
    <2>8. list[f] \in Nodes' /\ heap'[list[f]].key = NoKey
      BY <1>5, <2>1
    <2> QED
      BY <2>1, <2>2, <2>5, <2>6, <2>7, <2>8
  <1>13. Fresh' /\ AllCalled' /\ NoneCalledLate'
    BY <1>6, <1>7 DEF Inv, Fresh, AllCalled, NoneCalledLate, walks
  <1> QED
    BY <1>8, <1>9, <1>10, <1>11, <1>12, <1>13 DEF Inv

\* The list stays as it is, and nothing of it is registered any more.
LEMMA RemoveAllStep ==
  ASSUME Inv, RemoveAll
  PROVE  Inv'
  <1>1. /\ heap' = heap /\ end' = 0 /\ UNCHANGED walks
        /\ map' = [h \in Handlers |-> 0]
        /\ removed' = removed \cup ({map[h] : h \in Handlers} \ {0})
        /\ Nodes' = Nodes
    BY DEF RemoveAll, Nodes
  <1>2. \A n \in Registered : n \in Nodes /\ n # 0 /\ heap[n].key \in Handlers
    <2>1. \A n \in Nodes : heap[n] \in Node /\ n # 0
      BY DEF Inv, TypeOK, Nodes
    <2> QED
      BY <2>1 DEF Registered, Node
  <1>3. Registered' = {}
    <2>1. \A n \in Registered : n \in removed'
      BY <1>1, <1>2 DEF Inv, Keyed
    <2> QED
      BY <1>1, <2>1 DEF Registered
  <1>4. TypeOK'
    <2>1. map' \in [Handlers -> 0 .. Len(heap)] /\ end' \in 0 .. Len(heap)
      BY <1>1 DEF Inv, TypeOK
    <2>2. removed' \subseteq Nodes
      <3>1. \A h \in Handlers : map[h] # 0 => map[h] \in Nodes
        BY DEF Inv, TypeOK, Nodes
      <3>2. removed \subseteq Nodes
        BY DEF Inv, TypeOK
      <3> QED
        BY <1>1, <3>1, <3>2
    <2> QED
      BY <1>1, <2>1, <2>2 DEF Inv, TypeOK, walks
  <1>5. Keyed' /\ Current' /\ Linked'
    BY <1>1, <1>3 DEF Keyed, Current, Linked
  <1>6. Walking'
    <2>1. \A f \in Fires : Met(f)' = Met(f)
      BY <1>1 DEF Met, walks
    <2> QED
      BY <1>1, <1>3, <2>1 DEF Inv, Walking, walks
  <1>7. Fresh' /\ AllCalled' /\ NoneCalledLate'
    BY <1>1, <1>3 DEF Inv, Fresh, AllCalled, NoneCalledLate, walks
  <1> QED
    BY <1>4, <1>5, <1>6, <1>7 DEF Inv

\* Steps of a fire leave the nodes and what is registered alone.
LEMMA OsetUnchanged ==
  ASSUME Inv, UNCHANGED oset
  PROVE  /\ Keyed' /\ Current' /\ Linked'
         /\ Registered' = Registered /\ Nodes' = Nodes /\ Ring' = Ring
  BY DEF Inv, Keyed, Current, Linked, oset, Registered, Nodes, Ring

\* A fire begins at the oldest registered node, or ends at once if there is none.
LEMMA FireStep ==
  ASSUME Inv, NEW f \in Fires, Fire(f)
  PROVE  Inv'
  <1> DEFINE n == IF end = 0 THEN 0 ELSE heap[end].next
  <1>1. /\ stage[f] = "ready" /\ list' = [list EXCEPT ![f] = end] /\ UNCHANGED oset
        /\ born' = [born EXCEPT ![f] = Len(heap)]
        /\ gone' = [gone EXCEPT ![f] = removed]
    BY DEF Fire
  <1>2. /\ stage \in [Fires -> {"ready", "running", "returned", "raised"}]
        /\ list \in [Fires -> 0 .. Len(heap)] /\ curr \in [Fires -> 0 .. Len(heap)]
        /\ ran \in [Fires -> SUBSET Nodes] /\ born \in [Fires -> 0 .. Len(heap)]
        /\ gone \in [Fires -> SUBSET Nodes] /\ removed \subseteq Nodes
        /\ Len(heap) \in Nat /\ end \in 0 .. Len(heap)
        /\ Nodes = 1 .. Len(heap) /\ \A k \in Nodes : k \in Nat
    BY DEF Inv, TypeOK, Nodes
  <1>3. /\ Keyed' /\ Current' /\ Linked'
        /\ Registered' = Registered /\ Nodes' = Nodes /\ heap' = heap
        /\ removed' = removed
    BY <1>1, OsetUnchanged DEF oset
  <1>4. \A g \in Fires \ {f} :
           /\ stage'[g] = stage[g] /\ list'[g] = list[g] /\ curr'[g] = curr[g]
           /\ ran'[g] = ran[g] /\ born'[g] = born[g] /\ gone'[g] = gone[g]
           /\ Met(g)' = Met(g)
    <2>1. \A g \in Fires \ {f} :
             /\ stage'[g] = stage[g] /\ list'[g] = list[g] /\ curr'[g] = curr[g]
             /\ ran'[g] = ran[g] /\ born'[g] = born[g] /\ gone'[g] = gone[g]
      BY <1>1, <1>2 DEF Fire, Visit
    <2> QED
      BY <1>3, <2>1 DEF Met
  <1>5. list'[f] = end /\ born'[f] = Len(heap) /\ gone'[f] = removed
    BY <1>1, <1>2
  <1>6. n = end => Registered = {}
    <2>1. CASE end = 0
      BY <2>1 DEF Inv, Current
    <2>2. CASE end # 0 /\ n = end
      <3>1. end \in Ring /\ heap[end].next = end
        BY <2>2 DEF Ring
      <3>2. \A m \in Registered : m > end
        BY <2>2 DEF Inv, Current
      <3> QED
        BY <2>2, <3>1, <3>2 DEF Inv, Linked
    <2> QED
      BY <2>1, <2>2
  <1>7. n # end => end # 0 /\ n \in Registered /\ n \in Nodes
                   /\ \A d \in Registered : n <= d
    <2> SUFFICES ASSUME n # end
                 PROVE  end # 0 /\ n \in Registered /\ n \in Nodes
                        /\ \A d \in Registered : n <= d
      OBVIOUS
    <2>1. end # 0 /\ n = heap[end].next /\ end \in Ring
      BY DEF Ring
    <2> HIDE DEF n
    <2>2. n \in Registered
      BY <2>1 DEF Inv, Linked, Ring
    <2>3. \A d \in Registered : d > end
      BY <2>1 DEF Inv, Current
    <2>4. \A d \in Registered : n <= d
      BY <2>1, <2>3 DEF Inv, Linked
    <2> QED
      BY <2>1, <2>2, <2>4, RingNodes
  <1>8. CASE n = end
    <2>1. /\ stage' = [stage EXCEPT ![f] = "returned"]
          /\ curr' = curr /\ ran' = ran
      BY <1>5, <1>8 DEF Fire, Visit
    <2>2. TypeOK'
      BY <1>1, <1>2, <1>3, <2>1 DEF Inv, TypeOK, oset
    <2>3. Walking'
      BY <1>2, <1>3, <1>4, <2>1 DEF Inv, Walking
    <2>4. AllCalled'
      BY <1>2, <1>3, <1>4, <1>6, <1>8, <2>1 DEF Inv, AllCalled
    <2>5. Fresh' /\ NoneCalledLate'
      <3>1. ran'[f] = {}
        BY <1>1, <2>1 DEF Inv, Fresh
      <3> QED
        BY <1>2, <1>4, <2>1, <3>1 DEF Inv, Fresh, NoneCalledLate
    <2> QED
      BY <1>3, <2>2, <2>3, <2>4, <2>5 DEF Inv
  <1>9. CASE n # end
    <2>1. /\ stage' = [stage EXCEPT ![f] = "running"]
          /\ curr' = [curr EXCEPT ![f] = n]
          /\ ran' = [ran EXCEPT ![f] = @ \cup {n}]
      BY <1>5, <1>9 DEF Fire, Visit
    <2>2. /\ end # 0 /\ n \in Registered /\ n \in Nodes
          /\ \A d \in Registered : n <= d
      BY <1>7, <1>9
    <2> HIDE DEF n
    <2>3. curr'[f] = n /\ ran'[f] = {n}
      BY <1>1, <1>2, <2>1 DEF Inv, Fresh
    <2>4. TypeOK'
      <3>1. /\ stage' \in [Fires -> {"ready", "running", "returned", "raised"}]
            /\ curr' \in [Fires -> 0 .. Len(heap)]
            /\ ran' \in [Fires -> SUBSET Nodes]
        BY <1>2, <2>1, <2>2
      <3>2. /\ list' \in [Fires -> 0 .. Len(heap)]
            /\ born' \in [Fires -> 0 .. Len(heap)]
            /\ gone' \in [Fires -> SUBSET Nodes]
        BY <1>1, <1>2
      <3> QED
        BY <1>1, <1>3, <3>1, <3>2 DEF Inv, TypeOK, oset
    <2>5. Met(f)' = Registered
      <3>1. \A k \in Nodes : k > end => heap[k].key # NoKey
        BY <2>2 DEF Inv, Current
      <3>2. \A k \in Registered : k > end /\ k \in Nodes /\ k \notin removed
        BY <2>2 DEF Inv, Current, Registered
      <3>3. \A k \in Nodes : k > end /\ k \notin removed => k \in Registered
        BY <3>1 DEF Registered
      <3> QED
        BY <1>3, <1>5, <3>1, <3>2, <3>3 DEF Met
    <2>6. Walking'
      <3>1. ASSUME NEW g \in Fires, g # f, stage'[g] = "running"
            PROVE  /\ list'[g] \in Nodes' /\ heap'[list'[g]].key = NoKey
                   /\ curr'[g] \in ran'[g] /\ ran'[g] \subseteq Met(g)'
                   /\ \A x \in Met(g)' : heap'[x].next # list'[g] =>
                         heap'[x].next \in Met(g)' /\ heap'[x].next > x
                   /\ \A x \in Met(g)', d \in Registered' :
                         d <= born'[g] /\ d > x =>
                            heap'[x].next # list'[g] /\ heap'[x].next <= d
                   /\ \A d \in Registered' :
                         d <= born'[g] /\ d <= curr'[g] => d \in ran'[g]
        BY <1>3, <1>4, <3>1 DEF Inv, Walking
      <3>2. end \in Nodes /\ heap[end].key = NoKey
        BY <1>2, <2>2 DEF Inv, Current
      <3>3. \A x \in Registered : heap[x].next # end =>
               heap[x].next \in Registered /\ heap[x].next > x
        BY <2>2 DEF Inv, Linked, Ring
      <3>4. \A x \in Registered, d \in Registered : d > x =>
               heap[x].next # end /\ heap[x].next <= d
        BY <2>2 DEF Inv, Linked, Ring
      <3>5. \A d \in Registered : d <= n => d = n
        BY <1>2, <2>2 DEF Registered
      <3> QED
        BY <1>3, <1>5, <2>2, <2>3, <2>5, <3>1, <3>2, <3>3, <3>4, <3>5 DEF Walking
    <2>7. Fresh' /\ AllCalled'
      <3>1. stage'[f] = "running"
        BY <1>2, <2>1
      <3> QED
        BY <1>3, <1>4, <3>1 DEF Inv, Fresh, AllCalled
    <2>8. NoneCalledLate'
      <3>1. ran'[f] \cap gone'[f] = {}
        BY <1>5, <2>2, <2>3 DEF Registered
      <3> QED
        BY <1>4, <3>1 DEF Inv, NoneCalledLate
    <2> QED
      BY <1>3, <2>4, <2>6, <2>7, <2>8 DEF Inv
  <1> QED
    BY <1>8, <1>9

\* A fire goes on to the node its node leads to now, removed or not.
LEMMA HandlerReturnsStep ==
  ASSUME Inv, NEW f \in Fires, HandlerReturns(f)
  PROVE  Inv'
  <1> DEFINE n == heap[curr[f]].next
  <1>1. /\ stage[f] = "running" /\ list' = list /\ UNCHANGED oset
        /\ born' = born /\ gone' = gone
    BY DEF HandlerReturns
  <1>2. /\ stage \in [Fires -> {"ready", "running", "returned", "raised"}]
        /\ list \in [Fires -> 0 .. Len(heap)] /\ curr \in [Fires -> 0 .. Len(heap)]
        /\ ran \in [Fires -> SUBSET Nodes] /\ born \in [Fires -> 0 .. Len(heap)]
        /\ Nodes = 1 .. Len(heap) /\ \A k \in Nodes : k \in Nat
    BY DEF Inv, TypeOK, Nodes
  <1>3. /\ Keyed' /\ Current' /\ Linked'
        /\ Registered' = Registered /\ Nodes' = Nodes /\ heap' = heap
    BY <1>1, OsetUnchanged DEF oset
  <1>4. \A g \in Fires : Met(g)' = Met(g)
    BY <1>1, <1>3 DEF Met
  <1>5. \A g \in Fires \ {f} :
           stage'[g] = stage[g] /\ curr'[g] = curr[g] /\ ran'[g] = ran[g]
    BY <1>2 DEF HandlerReturns, Visit
  <1>6. /\ list[f] \in Nodes /\ heap[list[f]].key = NoKey
        /\ curr[f] \in ran[f] /\ ran[f] \subseteq Met(f) /\ curr[f] \in Met(f)
        /\ \A x \in Met(f) :
              heap[x].next # list[f] => heap[x].next \in Met(f) /\ heap[x].next > x
        /\ \A x \in Met(f), d \in Registered : d <= born[f] /\ d > x =>
              heap[x].next # list[f] /\ heap[x].next <= d
        /\ \A d \in Registered : d <= born[f] /\ d <= curr[f] => d \in ran[f]
    BY <1>1 DEF Inv, Walking
  <1>7. CASE n = list[f]
    <2>1. /\ stage' = [stage EXCEPT ![f] = "returned"]
          /\ curr' = curr /\ ran' = ran
      BY <1>1, <1>7 DEF HandlerReturns, Visit
    <2>2. TypeOK'
      BY <1>1, <1>2, <1>3, <2>1 DEF Inv, TypeOK, oset
    <2>3. Walking'
      BY <1>1, <1>2, <1>3, <1>4, <2>1 DEF Inv, Walking
    <2>4. AllCalled'
      <3>1. \A d \in Registered : d <= born[f] => d \in ran[f]
        <4>1. \A d \in Registered : d <= born[f] => ~(d > curr[f])
          BY <1>6, <1>7
        <4>2. curr[f] \in Nat /\ \A d \in Registered : d \in Nat
          BY <1>2 DEF Registered
        <4> QED
          BY <1>6, <4>1, <4>2
      <3> QED
        BY <1>1, <1>2, <1>3, <1>5, <2>1, <3>1 DEF Inv, AllCalled
    <2>5. Fresh' /\ NoneCalledLate'
      BY <1>1, <1>2, <2>1 DEF Inv, Fresh, NoneCalledLate
    <2> QED
      BY <1>3, <2>2, <2>3, <2>4, <2>5 DEF Inv
  <1>8. CASE n # list[f]
    <2>1. /\ stage' = [stage EXCEPT ![f] = "running"]
          /\ curr' = [curr EXCEPT ![f] = n]
          /\ ran' = [ran EXCEPT ![f] = @ \cup {n}]
      BY <1>1, <1>8 DEF HandlerReturns, Visit
    <2>2. n \in Met(f) /\ n > curr[f] /\ n \in Nodes /\ n \notin gone[f]
      BY <1>6, <1>8 DEF Met
    <2>3. stage'[f] = "running" /\ curr'[f] = n /\ ran'[f] = ran[f] \cup {n}
      BY <1>2, <2>1
    <2>4. \A d \in Registered : d <= born[f] /\ d > curr[f] => n <= d
      BY <1>6
    <2> HIDE DEF n
    <2>5. TypeOK'
      <3>1. /\ stage' \in [Fires -> {"ready", "running", "returned", "raised"}]
            /\ curr' \in [Fires -> 0 .. Len(heap)]
            /\ ran' \in [Fires -> SUBSET Nodes]
        BY <1>2, <2>1, <2>2
      <3> QED
        BY <1>1, <1>3, <3>1 DEF Inv, TypeOK, oset
    <2>6. Walking'
      <3>1. ASSUME NEW g \in Fires, g # f, stage'[g] = "running"
            PROVE  /\ list'[g] \in Nodes' /\ heap'[list'[g]].key = NoKey
                   /\ curr'[g] \in ran'[g] /\ ran'[g] \subseteq Met(g)'
                   /\ \A x \in Met(g)' : heap'[x].next # list'[g] =>
                         heap'[x].next \in Met(g)' /\ heap'[x].next > x
                   /\ \A x \in Met(g)', d \in Registered' :
                         d <= born'[g] /\ d > x =>
                            heap'[x].next # list'[g] /\ heap'[x].next <= d
                   /\ \A d \in Registered' :
                         d <= born'[g] /\ d <= curr'[g] => d \in ran'[g]
        BY <1>1, <1>3, <1>4, <1>5, <3>1 DEF Inv, Walking
      <3>2. \A d \in Registered : d <= born[f] /\ d <= n => d \in ran'[f]
        <4> SUFFICES ASSUME NEW d \in Registered, d <= born[f], d <= n
                     PROVE  d \in ran'[f]
          OBVIOUS
        <4>1. d \in Nat /\ curr[f] \in Nat /\ n \in Nat
          BY <1>2, <2>2 DEF Registered
        <4>2. CASE d <= curr[f]
          BY <1>6, <2>3, <4>2
        <4>3. CASE d > curr[f]
          <5>1. d = n
            BY <2>4, <4>1, <4>3
          <5> QED
            BY <2>3, <5>1
        <4> QED
          BY <4>1, <4>2, <4>3
      <3> QED
        BY <1>1, <1>3, <1>4, <1>6, <2>2, <2>3, <3>1, <3>2 DEF Walking
    <2>7. Fresh' /\ AllCalled'
      BY <1>1, <1>3, <1>5, <2>3 DEF Inv, Fresh, AllCalled
    <2>8. NoneCalledLate'
      BY <1>1, <1>5, <2>2, <2>3 DEF Inv, NoneCalledLate
    <2> QED
      BY <1>3, <2>5, <2>6, <2>7, <2>8 DEF Inv
  <1> QED
    BY <1>7, <1>8

\* A fire that a handler ended is not looked at again.
LEMMA HandlerRaisesStep ==
  ASSUME Inv, NEW f \in Fires, HandlerRaises(f)
  PROVE  Inv'
  <1>1. /\ stage' = [stage EXCEPT ![f] = "raised"] /\ UNCHANGED oset
        /\ UNCHANGED <<list, curr, ran, born, gone>>
    BY DEF HandlerRaises
  <1>2. /\ Keyed' /\ Current' /\ Linked'
        /\ Registered' = Registered /\ Nodes' = Nodes /\ heap' = heap
    BY <1>1, OsetUnchanged DEF oset
  <1>3. stage \in [Fires -> {"ready", "running", "returned", "raised"}]
    BY DEF Inv, TypeOK
  <1>4. TypeOK'
    BY <1>1, <1>2, <1>3 DEF Inv, TypeOK, oset
  <1>5. Walking'
    <2>1. \A g \in Fires : Met(g)' = Met(g)
      BY <1>1, <1>2 DEF Met
    <2> QED
      BY <1>1, <1>2, <1>3, <2>1 DEF Inv, Walking
  <1>6. Fresh' /\ AllCalled' /\ NoneCalledLate'
    BY <1>1, <1>2, <1>3 DEF Inv, Fresh, AllCalled, NoneCalledLate
  <1> QED
    BY <1>2, <1>4, <1>5, <1>6 DEF Inv

\* Every step keeps the parts: one step of the proof for each operation.
LEMMA StepInv == Inv /\ [Next]_vars => Inv'
  <1> SUFFICES ASSUME Inv, [Next]_vars PROVE Inv'
    OBVIOUS
  <1>1. CASE \E h \in Handlers : AddFirst(h)
    BY <1>1, AddFirstStep
  <1>2. CASE \E h \in Handlers : AppendHandler(h)
    BY <1>2, AppendHandlerStep
  <1>3. CASE \E h \in Handlers : RemoveHandler(h)
    BY <1>3, RemoveHandlerStep
  <1>4. CASE RemoveAll
    BY <1>4, RemoveAllStep
  <1>5. CASE \E f \in Fires : Fire(f)
    BY <1>5, FireStep
  <1>6. CASE \E f \in Fires : HandlerReturns(f)
    BY <1>6, HandlerReturnsStep
  <1>7. CASE \E f \in Fires : HandlerRaises(f)
    BY <1>7, HandlerRaisesStep
  <1>8. CASE UNCHANGED vars
    <2>1. UNCHANGED oset /\ UNCHANGED walks
      BY <1>8 DEF vars
    <2>2. /\ Keyed' /\ Current' /\ Linked'
          /\ Registered' = Registered /\ Nodes' = Nodes /\ heap' = heap
      BY <2>1, OsetUnchanged DEF oset
    <2>3. TypeOK'
      BY <2>1, <2>2 DEF Inv, TypeOK, oset, walks
    <2>4. Walking'
      <3>1. \A g \in Fires : Met(g)' = Met(g)
        BY <2>1, <2>2 DEF Met, walks
      <3> QED
        BY <2>1, <2>2, <3>1 DEF Inv, Walking, walks
    <2> QED
      BY <2>1, <2>2, <2>3, <2>4 DEF Inv, Fresh, AllCalled, NoneCalledLate, walks
  <1> QED
    BY <1>1, <1>2, <1>3, <1>4, <1>5, <1>6, <1>7, <1>8 DEF Next

\* So the parts hold in every state the event manager reaches.
LEMMA SpecInv == Spec => []Inv
  BY InitInv, StepInv, PTL DEF Spec

\* Each variable holds what it may hold.
THEOREM SpecTypeOK == Spec => []TypeOK
  <1>1. Inv => TypeOK
    BY DEF Inv
  <1> QED
    BY <1>1, SpecInv, PTL

\* A fire that returned has called every handler that was registered when it
\* began and still is (evmgr.py fire_event over oset.py __iter__).
THEOREM SpecAllCalled == Spec => []AllCalled
  <1>1. Inv => AllCalled
    BY DEF Inv
  <1> QED
    BY <1>1, SpecInv, PTL

\* A fire calls no handler that was removed before it began, although removed
\* nodes keep their links (oset.py discard).
THEOREM SpecNoneCalledLate == Spec => []NoneCalledLate
  <1>1. Inv => NoneCalledLate
    BY DEF Inv
  <1> QED
    BY <1>1, SpecInv, PTL

\* A node keeps its key whatever is linked to it.
LEMMA KeysKept ==
  ASSUME Inv, [Next]_vars
  PROVE  \A k \in Nodes : heap'[k].key = heap[k].key
  <1>1. /\ heap \in Seq(Node) /\ Nodes = 1 .. Len(heap) /\ Len(heap) \in Nat
        /\ \A k \in Nodes : heap[k] \in Node
    BY DEF Inv, TypeOK, Nodes
  <1>2. ASSUME NEW h \in Handlers, AddFirst(h)
        PROVE  \A k \in Nodes : heap'[k].key = heap[k].key
    <2> DEFINE A == [key |-> NoKey, prev |-> Len(heap) + 2, next |-> Len(heap) + 2]
               B == [key |-> h, prev |-> Len(heap) + 1, next |-> Len(heap) + 1]
    <2>1. A \in Node /\ B \in Node
      BY <1>1, EventManagerAssumption DEF Node
    <2>2. heap' = heap \o <<A, B>>
      BY <1>1, <1>2 DEF AddFirst
    <2> HIDE DEF A, B
    <2>3. <<A, B>> \in Seq(Node)
      BY <2>1
    <2>4. \A k \in Nodes : heap'[k] = heap[k]
      BY <1>1, <2>2, <2>3
    <2> QED
      BY <2>4
  <1>3. ASSUME NEW h \in Handlers, AppendHandler(h)
        PROVE  \A k \in Nodes : heap'[k].key = heap[k].key
    <2>1. end # 0 /\ end \in Nodes /\ end \in Ring
      BY <1>3 DEF AppendHandler, Inv, TypeOK, Nodes, Ring
    <2>2. heap[end].prev \in Nodes
      BY <2>1, RingNodes DEF Inv, Linked
    <2> DEFINE last == heap[end].prev
               new == Extend(heap, last, end, h)
    <2>3. heap' = new
      BY <1>3 DEF AppendHandler, Extend, Relink
    <2>4. last \in 1 .. Len(heap) /\ end \in 1 .. Len(heap) /\ heap \in Seq(Node)
      BY <1>1, <2>1, <2>2
    <2> HIDE DEF last
    <2>5. /\ new \in Seq(Node) /\ Len(new) = Len(heap) + 1
          /\ \A k \in 1 .. Len(heap) :
                /\ new[k].key = heap[k].key
                /\ new[k].next = IF k = last THEN Len(heap) + 1 ELSE heap[k].next
                /\ new[k].prev = IF k = end THEN Len(heap) + 1 ELSE heap[k].prev
          /\ new[Len(heap) + 1] = [key |-> h, prev |-> last, next |-> end]
      BY <2>4, Extended
    <2> HIDE DEF new
    <2> QED
      BY <1>1, <2>3, <2>5
  <1>4. ASSUME NEW h \in Handlers, RemoveHandler(h)
        PROVE  \A k \in Nodes : heap'[k].key = heap[k].key
    <2> DEFINE p == heap[map[h]].prev
               q == heap[map[h]].next
    <2>1. end # 0 /\ map[h] \in Ring
      BY <1>4 DEF RemoveHandler, Inv, Keyed, Ring
    <2>2. p \in Nodes /\ q \in Nodes
      BY <2>1, RingNodes DEF Inv, Linked
    <2> DEFINE new == Relink(heap, p, q, q, p)
    <2>3. heap' = new
      BY <1>4 DEF RemoveHandler, Relink
    <2>4. /\ p \in 1 .. Len(heap) /\ q \in 1 .. Len(heap)
          /\ p \in Nat /\ q \in Nat /\ heap \in Seq(Node)
      BY <1>1, <2>2
    <2> HIDE DEF p, q
    <2>5. \A k \in 1 .. Len(heap) :
             /\ new[k].key = heap[k].key
             /\ new[k].next = IF k = p THEN q ELSE heap[k].next
             /\ new[k].prev = IF k = q THEN p ELSE heap[k].prev
      BY <2>4, Relinked
    <2> HIDE DEF new
    <2> QED
      BY <1>1, <2>3, <2>5
  <1>5. CASE heap' = heap
    BY <1>5
  <1>6. (RemoveAll \/ \E f \in Fires : Fire(f) \/ HandlerReturns(f) \/ HandlerRaises(f))
           => heap' = heap
    BY DEF RemoveAll, Fire, HandlerReturns, HandlerRaises, oset
  <1> QED
    BY <1>2, <1>3, <1>4, <1>5, <1>6 DEF Next, vars, oset

\* A fire runs handlers, never a sentinel.
OnlyHandlers == \A f \in Fires : \A n \in ran[f] : heap[n].key # NoKey

\* No step of a fire runs the sentinel: the walk ends when it meets it.
LEMMA OnlyHandlersStep ==
  ASSUME Inv, OnlyHandlers, [Next]_vars
  PROVE  OnlyHandlers'
  <1>1. \A f \in Fires : ran[f] \subseteq Nodes
    BY DEF Inv, TypeOK
  <1>2. \A f \in Fires : ran'[f] = ran[f] \/ stage'[f] = "running"
    <2>1. stage \in [Fires -> {"ready", "running", "returned", "raised"}]
          /\ ran \in [Fires -> SUBSET Nodes]
      BY DEF Inv, TypeOK
    <2>2. ASSUME NEW f \in Fires, Fire(f) \/ HandlerReturns(f)
          PROVE  \A g \in Fires : ran'[g] = ran[g] \/ stage'[g] = "running"
      BY <2>1, <2>2 DEF Fire, HandlerReturns, Visit
    <2>3. (\E f \in Fires : Fire(f) \/ HandlerReturns(f)) \/ ran' = ran
      BY DEF Next, vars, walks, AddFirst, AppendHandler, RemoveHandler, RemoveAll,
             HandlerRaises
    <2> QED
      BY <2>2, <2>3
  <1>3. Inv'
    BY StepInv
  <1>4. \A f \in Fires : stage'[f] = "running" =>
           \A n \in ran'[f] : heap'[n].key # NoKey
    <2>1. \A f \in Fires : stage'[f] = "running" => ran'[f] \subseteq Met(f)'
      BY <1>3 DEF Inv, Walking
    <2>2. \A f \in Fires : \A n \in Met(f)' : heap'[n].key # NoKey
      <3>1. \A n \in Nodes' : n <= n
        BY DEF Nodes
      <3> QED
        BY <3>1 DEF Met
    <2> QED
      BY <2>1, <2>2
  <1> QED
    BY <1>1, <1>2, <1>4, KeysKept DEF OnlyHandlers

\* A handler that was not removed in between runs once in a fire: "Adding a
\* handler twice does not cause it to run twice" (evmgr.py).
THEOREM SpecNoneCalledTwice == Spec => []NoneCalledTwice
  <1>1. Init => OnlyHandlers
    BY DEF Init, OnlyHandlers
  <1>2. Inv /\ OnlyHandlers => NoneCalledTwice
    <2> SUFFICES ASSUME Inv, OnlyHandlers, NEW f \in Fires,
                        NEW m \in ran[f], NEW n \in ran[f],
                        m < n, heap[m].key = heap[n].key, m \notin removed
                 PROVE  FALSE
      BY DEF NoneCalledTwice
    <2>1. m \in Nodes /\ n \in Nodes /\ m \in Nat /\ n \in Nat
      BY DEF Inv, TypeOK, Nodes
    <2>2. m \in Registered
      BY <2>1 DEF OnlyHandlers, Registered
    <2>3. n <= m
      BY <2>1, <2>2 DEF Inv, Keyed
    <2> QED
      BY <2>1, <2>3
  <1>3. Inv /\ OnlyHandlers /\ [Next]_vars => OnlyHandlers'
    BY OnlyHandlersStep
  <1> QED
    BY <1>1, <1>2, <1>3, SpecInv, PTL DEF Spec

\* Handlers are called in the order they were registered, also from a node that
\* was taken out of the list (oset.py __iter__).
THEOREM SpecInOrder == Spec => InOrder
  <1>1. Inv /\ [Next]_vars =>
           [\A f \in Fires : stage[f] = "running" /\ curr'[f] # curr[f]
                               => curr'[f] > curr[f]]_vars
    <2> SUFFICES ASSUME Inv, Next, NEW f \in Fires,
                        stage[f] = "running", curr'[f] # curr[f]
                 PROVE  curr'[f] > curr[f]
      BY DEF vars
    <2>1. curr \in [Fires -> 0 .. Len(heap)]
      BY DEF Inv, TypeOK
    <2>2. \E g \in Fires : Fire(g) \/ HandlerReturns(g)
      BY DEF Next, AddFirst, AppendHandler, RemoveHandler, RemoveAll,
             HandlerRaises, walks
    <2>3. ASSUME NEW g \in Fires, Fire(g) PROVE FALSE
      BY <2>1, <2>3 DEF Fire, Visit
    <2>4. HandlerReturns(f)
      BY <2>1, <2>2, <2>3 DEF HandlerReturns, Visit
    <2>5. /\ curr'[f] = heap[curr[f]].next /\ heap[curr[f]].next # list[f]
      BY <2>1, <2>4 DEF HandlerReturns, Visit
    <2>6. curr[f] \in Met(f)
      BY DEF Inv, Walking
    <2> QED
      BY <2>5, <2>6 DEF Inv, Walking
  <1> QED
    BY <1>1, SpecInv, PTL DEF Spec, InOrder

\* What an event promises its listeners while they come and go.
THEOREM SpecDelivery == Spec => []Delivery
  <1>1. AllCalled /\ NoneCalledLate /\ NoneCalledTwice => Delivery
    BY DEF Delivery
  <1> QED
    BY <1>1, SpecAllCalled, SpecNoneCalledLate, SpecNoneCalledTwice, PTL

-----------------------------------------------------------------------------
(* The linked list implements the ordered set.  The way from the sentinel    *)
(* meets the registered nodes in the order of their numbers, and then the    *)
(* sentinel, so that what it meets is known without its links.               *)

\* A set of numbers has a least one.
LEMMA Least ==
  ASSUME NEW S \in SUBSET Nat, S # {}
  PROVE  \E n \in S : \A m \in S : ~(m < n)
  <1>1. PICK n \in S : \A m \in S : <<m, n>> \notin OpToRel(<, Nat)
    BY NatLessThanWellFounded, WFMin, Zenon
  <1>2. \A m \in S : m < n => <<m, n>> \in OpToRel(<, Nat)
    BY Zenon DEF OpToRel
  <1> QED
    BY <1>1, <1>2

\* A step can be repeated up to N times.
Iterates(g, N, T, first, step) ==
  g \in [0 .. N -> T] /\ g[0] = first /\ \A n \in 1 .. N : g[n] = step[g[n - 1]]

\* A function that repeats a step exists for every number of steps.
LEMMA Iteration ==
  ASSUME NEW N \in Nat, NEW T, NEW first \in T, NEW step \in [T -> T]
  PROVE  \E g : Iterates(g, N, T, first, step)
  <1> DEFINE Upto(g, m) == /\ g \in [0 .. m -> T]
                           /\ g[0] = first
                           /\ \A n \in 1 .. m : g[n] = step[g[n - 1]]
             Bad == {m \in 0 .. N : ~ \E g : Upto(g, m)}
  <1>1. Bad = {}
    <2> SUFFICES ASSUME Bad # {} PROVE FALSE
      OBVIOUS
    <2>1. PICK m \in Bad : \A k \in Bad : ~(k < m)
      <3>1. Bad \in SUBSET Nat
        OBVIOUS
      <3> HIDE DEF Bad
      <3> QED
        BY <3>1, Least
    <2>2. m # 0
      <3>1. Upto([n \in 0 .. 0 |-> first], 0)
        OBVIOUS
      <3> QED
        BY <3>1
    <2>3. m - 1 \in 0 .. N /\ m - 1 < m /\ m \in 1 .. N
      BY <2>2
    <2>4. PICK g : Upto(g, m - 1)
      <3>1. m - 1 \notin Bad
        BY <2>1, <2>3
      <3> QED
        BY <2>3, <3>1
    <2> DEFINE h == [n \in 0 .. m |-> IF n = m THEN step[g[m - 1]] ELSE g[n]]
    <2>5. \A n \in 0 .. m - 1 : h[n] = g[n] /\ g[n] \in T
      BY <2>3, <2>4
    <2>6. h[m] = step[g[m - 1]] /\ h[m] \in T
      BY <2>3, <2>4
    <2> HIDE DEF h
    <2>7. h \in [0 .. m -> T]
      <3>1. h = [n \in 0 .. m |-> h[n]]
        BY DEF h
      <3>2. \A n \in 0 .. m : h[n] \in T
        BY <2>3, <2>5, <2>6
      <3> QED
        BY <3>1, <3>2
    <2>8. ASSUME NEW n \in 1 .. m PROVE h[n] = step[h[n - 1]]
      <3>1. h[n - 1] = g[n - 1]
        BY <2>3, <2>5
      <3>2. n # m => h[n] = g[n] /\ g[n] = step[g[n - 1]]
        BY <2>3, <2>4, <2>5
      <3> QED
        BY <2>6, <3>1, <3>2
    <2>9. h[0] = first
      BY <2>3, <2>4, <2>5
    <2>10. Upto(h, m)
      BY <2>7, <2>8, <2>9
    <2> QED
      BY <2>10
  <1>2. N \in 0 .. N
    OBVIOUS
  <1> QED
    BY <1>1, <1>2 DEF Iterates

\* The definition of Way as equations.
LEMMA WayEquations ==
  ASSUME Inv, end # 0
  PROVE  /\ Way \in [0 .. Len(heap) -> Ring]
         /\ Way[0] = end
         /\ \A k \in 1 .. Len(heap) : Way[k] = heap[Way[k - 1]].next
  <1> DEFINE N == Len(heap)
             Is(w) == w = [k \in 0 .. N |-> IF k = 0 THEN end ELSE heap[w[k - 1]].next]
             way == CHOOSE w : Is(w)
  <1>1. N \in Nat /\ end \in Ring /\ \A n \in Ring : heap[n].next \in Ring
    BY DEF Inv, TypeOK, Linked, Ring
  <1> DEFINE step == [n \in Ring |-> heap[n].next]
  <1>2. step \in [Ring -> Ring] /\ \A n \in Ring : step[n] = heap[n].next
    BY <1>1
  <1> HIDE DEF N, step
  <1>3. PICK g : Iterates(g, N, Ring, end, step)
    <2>1. N \in Nat /\ end \in Ring /\ step \in [Ring -> Ring]
      BY <1>1, <1>2
    <2> HIDE DEF Is, way
    <2> QED
      BY <2>1, Iteration, Zenon
  <1>4. Is(g)
    <2>1. ASSUME NEW k \in 0 .. N
          PROVE  g[k] = IF k = 0 THEN end ELSE heap[g[k - 1]].next
      <3>1. CASE k = 0
        BY <1>3, <3>1 DEF Iterates
      <3>2. CASE k # 0
        <4>1. k \in 1 .. N /\ k - 1 \in 0 .. N
          BY <1>1, <3>2
        <4> QED
          BY <1>2, <1>3, <3>2, <4>1 DEF Iterates
      <3> QED
        BY <3>1, <3>2
    <2> QED
      BY <1>3, <2>1 DEF Iterates
  <1>5. Is(way)
    <2> HIDE DEF Is
    <2> QED
      BY <1>4
  <1>6. Way = way
    BY DEF Way, N
  <1> HIDE DEF way
  <1>7. \A k \in 0 .. N : way[k] = IF k = 0 THEN end ELSE heap[way[k - 1]].next
    BY <1>5
  <1>8. way[0] = end /\ \A k \in 1 .. N : way[k] = heap[way[k - 1]].next
    BY <1>1, <1>7
  <1>9. \A k \in 0 .. N : way[k] \in Ring
    <2> DEFINE Bad == {k \in 0 .. N : way[k] \notin Ring}
    <2> SUFFICES ASSUME Bad # {} PROVE FALSE
      OBVIOUS
    <2>1. PICK k \in Bad : \A j \in Bad : ~(j < k)
      <3>1. Bad \in SUBSET Nat
        BY <1>1
      <3> HIDE DEF Bad
      <3> QED
        BY <3>1, Least
    <2>2. k \in 1 .. N /\ k - 1 \in 0 .. N /\ k - 1 < k
      BY <1>1, <1>8, <2>1
    <2>3. way[k - 1] \in Ring
      BY <2>1, <2>2
    <2> QED
      BY <1>1, <1>8, <2>1, <2>2, <2>3
  <1>10. way = [k \in 0 .. N |-> way[k]]
    BY <1>5
  <1> QED
    BY <1>6, <1>8, <1>9, <1>10 DEF N

\* Until it is back, the way leads to greater and greater numbers.
LEMMA WayRises ==
  ASSUME Inv, end # 0, NEW m \in 0 .. Len(heap), \A j \in 1 .. m : Way[j] # end
  PROVE  /\ \A i, j \in 0 .. m : i < j => Way[i] < Way[j]
         /\ \A j \in 0 .. m : j < Way[j]
  <1> DEFINE Rises(k) == \A i \in 0 .. k : Way[i] <= Way[k] /\ (i < k => Way[i] < Way[k])
             Bad == {k \in 0 .. m : ~(Rises(k) /\ k < Way[k])}
  <1>1. /\ Len(heap) \in Nat /\ m \in Nat /\ end \in Nat /\ end > 0
        /\ Ring \subseteq Nat
    <2>1. Ring \subseteq Nodes
      BY RingNodes
    <2> QED
      BY <2>1 DEF Inv, TypeOK, Nodes
  <1>2. /\ Way[0] = end /\ \A k \in 0 .. m : Way[k] \in Ring
        /\ \A k \in 1 .. m : Way[k] = heap[Way[k - 1]].next
    <2>1. \A k \in 0 .. m : k \in 0 .. Len(heap)
      BY <1>1
    <2>2. \A k \in 1 .. m : k \in 1 .. Len(heap)
      BY <1>1
    <2> QED
      BY <2>1, <2>2, WayEquations
  <1>n. \A k \in 0 .. m : Way[k] \in Nat
    BY <1>1, <1>2
  <1>3. ASSUME NEW k \in 1 .. m PROVE Way[k - 1] < Way[k]
    <2>1. k - 1 \in 0 .. m /\ Way[k - 1] \in Ring /\ Way[k] = heap[Way[k - 1]].next
      BY <1>1, <1>2
    <2>2. heap[Way[k - 1]].next = end \/ heap[Way[k - 1]].next > Way[k - 1]
      BY <2>1 DEF Inv, Linked
    <2>3. Way[k] # end /\ Way[k] \in Nat /\ Way[k - 1] \in Nat
      BY <1>n, <2>1
    <2> QED
      BY <2>1, <2>2, <2>3
  <1>4. Bad = {}
    <2> SUFFICES ASSUME Bad # {} PROVE FALSE
      OBVIOUS
    <2>1. PICK k \in Bad : \A j \in Bad : ~(j < k)
      <3>1. Bad \in SUBSET Nat
        BY <1>1
      <3> HIDE DEF Bad
      <3> QED
        BY <3>1, Least
    <2>2. k # 0
      <3>1. Rises(0) /\ 0 < Way[0]
        BY <1>1, <1>2
      <3> QED
        BY <2>1, <3>1
    <2>3. k \in 1 .. m /\ k - 1 \in 0 .. m /\ k - 1 < k
      BY <1>1, <2>2
    <2>4. Rises(k - 1) /\ k - 1 < Way[k - 1]
      BY <2>1, <2>3
    <2>5. Way[k - 1] < Way[k] /\ Way[k] \in Nat /\ Way[k - 1] \in Nat
      BY <1>1, <1>2, <1>3, <2>3
    <2>6. k < Way[k]
      BY <2>3, <2>4, <2>5
    <2>7. ASSUME NEW i \in 0 .. k
          PROVE  Way[i] <= Way[k] /\ (i < k => Way[i] < Way[k])
      <3>1. CASE i = k
        BY <2>5, <3>1
      <3>2. CASE i # k
        <4>1. i \in 0 .. k - 1 /\ Way[i] \in Nat
          <5>1. i \in 0 .. m /\ i \in 0 .. k - 1
            BY <1>1, <2>3, <3>2
          <5> QED
            BY <1>n, <5>1
        <4>2. Way[i] <= Way[k - 1]
          BY <2>4, <4>1
        <4> QED
          BY <2>5, <4>1, <4>2
      <3> QED
        BY <3>1, <3>2
    <2> QED
      BY <2>1, <2>6, <2>7
  <1>5. \A k \in 0 .. m : Rises(k) /\ k < Way[k]
    BY <1>4
  <1>6. ASSUME NEW i \in 0 .. m, NEW j \in 0 .. m, i < j PROVE Way[i] < Way[j]
    <2>1. i \in 0 .. j
      BY <1>1, <1>6
    <2> QED
      BY <1>5, <1>6, <2>1
  <1> QED
    BY <1>5, <1>6

\* s has the numbers in R, from the least to the greatest.
Listing(s, R) ==
  /\ s \in Seq(Nat)
  /\ \A i, j \in 1 .. Len(s) : i < j => s[i] < s[j]
  /\ \A i \in 1 .. Len(s) : s[i] \in R
  /\ \A n \in R : \E i \in 1 .. Len(s) : s[i] = n

\* There is one such sequence only.
LEMMA SameStart ==
  ASSUME NEW R, NEW s, NEW t, Listing(s, R), Listing(t, R),
         NEW i \in 1 .. Len(s), i <= Len(t),
         \A k \in 1 .. i - 1 : s[k] = t[k]
  PROVE  ~(s[i] < t[i])
  <1> SUFFICES ASSUME s[i] < t[i] PROVE FALSE
    OBVIOUS
  <1>1. /\ Len(s) \in Nat /\ Len(t) \in Nat /\ i \in 1 .. Len(t)
        /\ \A k \in 1 .. Len(s) : s[k] \in Nat
        /\ \A k \in 1 .. Len(t) : t[k] \in Nat
    <2>1. s \in Seq(Nat) /\ t \in Seq(Nat)
      BY DEF Listing
    <2> QED
      BY <2>1, SMTT(30)
  <1>2. PICK j \in 1 .. Len(t) : t[j] = s[i]
    BY DEF Listing
  <1>3. CASE j < i
    <2>1. j \in 1 .. i - 1 /\ j \in 1 .. Len(s)
      BY <1>1, <1>3
    <2>2. s[j] = t[j] /\ s[j] < s[i]
      BY <1>3, <2>1 DEF Listing
    <2> QED
      BY <1>1, <1>2, <2>2
  <1>4. CASE j = i
    BY <1>1, <1>2, <1>4
  <1>5. CASE i < j
    <2>1. t[i] < t[j]
      BY <1>1, <1>5 DEF Listing
    <2> QED
      BY <1>1, <1>2, <2>1
  <1> QED
    BY <1>1, <1>3, <1>4, <1>5

\* Two listings of the same nodes agree at every place both have,
LEMMA SameUpTo ==
  ASSUME NEW R, NEW s, NEW t, Listing(s, R), Listing(t, R)
  PROVE  \A i \in 1 .. Len(s) : i <= Len(t) => s[i] = t[i]
  <1> DEFINE Bad == {i \in 1 .. Len(s) : i <= Len(t) /\ s[i] # t[i]}
  <1> SUFFICES ASSUME Bad # {} PROVE FALSE
    OBVIOUS
  <1>1. Len(s) \in Nat /\ Len(t) \in Nat
    BY SMTT(30) DEF Listing
  <1>2. PICK i \in Bad : \A k \in Bad : ~(k < i)
    <2>1. Bad \in SUBSET Nat
      BY <1>1
    <2> HIDE DEF Bad
    <2> QED
      BY <2>1, Least
  <1>3. i \in 1 .. Len(s) /\ i \in 1 .. Len(t) /\ s[i] # t[i] /\ i <= Len(t) /\ i <= Len(s)
    BY <1>1
  <1>4. \A k \in 1 .. i - 1 : s[k] = t[k] /\ t[k] = s[k]
    <2> TAKE k \in 1 .. i - 1
    <2>1. k \in 1 .. Len(s) /\ k <= Len(t) /\ k < i
      BY <1>1, <1>3
    <2> QED
      BY <1>2, <2>1
  <1>5. s[i] \in Nat /\ t[i] \in Nat
    <2>1. s \in Seq(Nat) /\ t \in Seq(Nat)
      BY DEF Listing
    <2> QED
      BY <1>3, <2>1, SMTT(30)
  <1> HIDE DEF Bad
  <1>6. ~(s[i] < t[i])
    BY <1>3, <1>4, SameStart
  <1>7. ~(t[i] < s[i])
    BY <1>3, <1>4, SameStart
  <1> QED
    BY <1>3, <1>5, <1>6, <1>7

\* neither of them is longer,
LEMMA NoLonger ==
  ASSUME NEW R, NEW s, NEW t, Listing(s, R), Listing(t, R)
  PROVE  ~(Len(s) < Len(t))
  <1> SUFFICES ASSUME Len(s) < Len(t) PROVE FALSE
    OBVIOUS
  <1> DEFINE n == Len(s) + 1
  <1>1. Len(s) \in Nat /\ Len(t) \in Nat /\ n \in 1 .. Len(t)
    BY DEF Listing
  <1>2. PICK j \in 1 .. Len(s) : s[j] = t[n]
    BY <1>1 DEF Listing
  <1>3. j \in 1 .. Len(t) /\ j < n /\ j <= Len(t)
    BY <1>1
  <1>4. s[j] = t[j]
    BY <1>3, SameUpTo
  <1>5. t[j] < t[n] /\ t[j] \in Nat /\ t[n] \in Nat
    <2>1. t \in Seq(Nat) /\ t[j] < t[n]
      BY <1>1, <1>3 DEF Listing
    <2> QED
      BY <1>1, <1>3, <2>1
  <1> QED
    BY <1>2, <1>4, <1>5

\* and so they are the same sequence: there is one way to list nodes in order.
LEMMA OneListing ==
  ASSUME NEW R, NEW s, NEW t, Listing(s, R), Listing(t, R)
  PROVE  s = t
  <1>1. Len(s) \in Nat /\ Len(t) \in Nat /\ s \in Seq(Nat) /\ t \in Seq(Nat)
    BY DEF Listing
  <1>2. Len(s) = Len(t)
    BY <1>1, NoLonger
  <1>3. \A i \in 1 .. Len(s) : s[i] = t[i]
    BY <1>1, <1>2, SameUpTo
  <1> QED
    BY <1>1, <1>2, <1>3, SeqEqual

\* The handlers of nodes, in their order.
Keys(s, nodes) == [i \in 1 .. Len(s) |-> nodes[s[i]].key]

\* What the walk meets is the registered handlers in the order of their nodes.
LEMMA WalkListing ==
  ASSUME Inv
  PROVE  \E s : Listing(s, Registered) /\ Walk = Keys(s, heap)
  <1>1. CASE end = 0
    <2>1. Registered = {}
      BY <1>1 DEF Inv, Current
    <2>2. Listing(<<>>, Registered)
      BY <2>1 DEF Listing
    <2>3. Walk = Keys(<<>>, heap)
      BY <1>1 DEF Walk, Keys
    <2> QED
      BY <2>2, <2>3
  <1>2. CASE end # 0
    <2> DEFINE N == Len(heap)
               Back == {k \in 1 .. N : Way[k] = end}
    <2>1. /\ N \in Nat /\ Ring \subseteq Nodes /\ Nodes = 1 .. N
          /\ end \in Nodes /\ Ring = Registered \cup {end} /\ end \notin Registered
      BY <1>2, RingNodes DEF Inv, TypeOK, Nodes, Ring
    <2>2. /\ \A k \in 0 .. N : Way[k] \in Ring
          /\ Way[0] = end
          /\ \A k \in 1 .. N : Way[k] = heap[Way[k - 1]].next
      BY <1>2, WayEquations
    <2>3. Back # {}
      <3> SUFFICES ASSUME Back = {} PROVE FALSE
        OBVIOUS
      <3>1. N \in 0 .. N /\ \A j \in 1 .. N : Way[j] # end
        BY <2>1
      <3>2. N < Way[N]
        BY <1>2, <3>1, WayRises
      <3>3. Way[N] \in 1 .. N
        BY <2>1, <2>2, <3>1
      <3> QED
        BY <2>1, <3>2, <3>3
    <2>4. PICK b \in Back : \A k \in Back : ~(k < b)
      <3>1. Back \in SUBSET Nat
        BY <2>1
      <3> HIDE DEF Back
      <3> QED
        BY <2>3, <3>1, Least
    <2> DEFINE m == b - 1
               s == [k \in 1 .. m |-> Way[k]]
    <2>5. /\ m \in Nat /\ m \in 0 .. N /\ b \in 1 .. N /\ Way[b] = end
          /\ \A k \in 0 .. m : k \in 0 .. N
      BY <2>1
    <2>6. \A j \in 1 .. m : Way[j] # end
      <3> TAKE j \in 1 .. m
      <3>1. j \in 1 .. N /\ j < b
        BY <2>1, <2>5
      <3> QED
        BY <2>4, <3>1
    <2> HIDE DEF Back
    <2>7. /\ \A i, j \in 0 .. m : i < j => Way[i] < Way[j]
      BY <1>2, <2>5, <2>6, WayRises
    <2>8. \A k \in 0 .. m : Way[k] \in Nat
      <3>1. \A n \in Ring : n \in Nat
        BY <2>1
      <3> QED
        BY <2>2, <2>5, <3>1
    <2>9. /\ s \in Seq(Nat) /\ Len(s) = m /\ \A k \in 1 .. m : s[k] = Way[k]
      <3>1. \A k \in 1 .. m : Way[k] \in Nat
        BY <2>5, <2>8
      <3> QED
        BY <2>5, <3>1
    <2>10. Walk = Keys(s, heap)
      <3> DEFINE before == {k \in 1 .. N : \A j \in 1 .. k : Way[j] # end}
      <3>1. before = 1 .. m
        <4>1. ASSUME NEW k \in before PROVE k \in 1 .. m
          <5>1. k < b
            BY <2>1, <2>5
          <5> QED
            BY <2>1, <2>5, <5>1
        <4>2. ASSUME NEW k \in 1 .. m PROVE k \in before
          <5>1. k \in 1 .. N /\ \A j \in 1 .. k : j \in 1 .. m
            BY <2>1, <2>5
          <5> QED
            BY <2>6, <5>1
        <4> QED
          BY <4>1, <4>2
      <3>2. Walk = [k \in before |-> heap[Way[k]].key]
        BY <1>2 DEF Walk
      <3> HIDE DEF before, s, m
      <3>3. Keys(s, heap) = [k \in 1 .. m |-> heap[Way[k]].key]
        BY <2>9 DEF Keys
      <3> QED
        BY <3>1, <3>2, <3>3
    <2> HIDE DEF s
    <2>11. \A i, j \in 1 .. Len(s) : i < j => s[i] < s[j]
      <3>1. \A i \in 1 .. m : i \in 0 .. m
        BY <2>5
      <3> QED
        BY <2>7, <2>9, <3>1
    <2>12. \A i \in 1 .. Len(s) : s[i] \in Registered
      <3> TAKE i \in 1 .. Len(s)
      <3>1. i \in 1 .. m /\ i \in 0 .. N
        BY <2>5, <2>9
      <3> QED
        BY <2>1, <2>2, <2>6, <2>9, <3>1
    <2>13. ASSUME NEW n \in Registered PROVE \E i \in 1 .. Len(s) : s[i] = n
      <3> DEFINE Past == {k \in 1 .. b : k = b \/ Way[k] >= n}
      <3>1. n \in Nat /\ end < n
        BY <1>2, <2>1 DEF Inv, Current
      <3>2. PICK k \in Past : \A j \in Past : ~(j < k)
        <4>1. Past \in SUBSET Nat /\ b \in Past
          BY <2>5
        <4> HIDE DEF Past
        <4> QED
          BY <4>1, Least
      <3>3. k \in 1 .. N /\ k - 1 \in 0 .. m /\ k - 1 < k /\ k \in Nat
        BY <2>1, <2>5
      <3>4. Way[k - 1] \in Nat /\ Way[k - 1] \in Ring
        BY <2>2, <2>5, <2>8, <3>3
      <3>5. Way[k - 1] < n
        <4>1. CASE k - 1 = 0
          BY <2>2, <3>1, <4>1
        <4>2. CASE k - 1 # 0
          <5>1. k - 1 \in 1 .. b /\ k - 1 \notin Past
            BY <2>5, <3>2, <3>3, <4>2
          <5> QED
            BY <3>1, <3>4, <5>1
        <4> QED
          BY <4>1, <4>2
      <3>6. Way[k] # end /\ Way[k] <= n
        <4>1. heap[Way[k - 1]].next # end /\ heap[Way[k - 1]].next <= n
          BY <1>2, <3>1, <3>4, <3>5 DEF Inv, Linked
        <4> QED
          BY <2>2, <3>3, <4>1
      <3>7. k \in 1 .. m /\ Way[k] >= n
        BY <2>5, <3>2, <3>3, <3>6
      <3>8. Way[k] = n
        BY <2>8, <3>1, <3>6, <3>7
      <3> QED
        BY <2>9, <3>7, <3>8
    <2> QED
      BY <2>9, <2>10, <2>11, <2>12, <2>13 DEF Listing
  <1> QED
    BY <1>1, <1>2

\* So whatever lists the registered nodes is what the walk meets.
WalkOrdered == \A s : Listing(s, Registered) => Walk = Keys(s, heap)

\* The list met from the sentinel is the registered nodes by age, in a state the
\* event manager reaches and in the state after it.
LEMMA WalkIsOrdered == Inv => WalkOrdered
  <1> SUFFICES ASSUME Inv, NEW s, Listing(s, Registered)
               PROVE  Walk = Keys(s, heap)
    BY DEF WalkOrdered
  <1>1. PICK t : Listing(t, Registered) /\ Walk = Keys(t, heap)
    BY WalkListing
  <1> QED
    BY <1>1, OneListing

\* The same, after a step.
LEMMA WalkStaysOrdered == Inv' => WalkOrdered'
  BY WalkIsOrdered, PTL

\* The handlers of a listing, and the nodes it lists.
LEMMA KeysFacts ==
  ASSUME Inv, NEW s, Listing(s, Registered)
  PROVE  /\ s \in Seq(Nat) /\ Len(s) \in Nat
         /\ \A i \in 1 .. Len(s) : s[i] \in Nat /\ s[i] \in Nodes
         /\ Keys(s, heap) \in Seq(Handlers)
         /\ Len(Keys(s, heap)) = Len(s)
         /\ \A i \in 1 .. Len(s) : Keys(s, heap)[i] = heap[s[i]].key
  <1>1. s \in Seq(Nat) /\ \A i \in 1 .. Len(s) : s[i] \in Registered
    BY DEF Listing
  <1>2. Len(s) \in Nat /\ \A i \in 1 .. Len(s) : s[i] \in Nat
    BY <1>1
  <1>3. ASSUME NEW n \in Registered PROVE n \in Nodes /\ heap[n].key \in Handlers
    <2>1. n \in Nodes /\ heap[n].key # NoKey
      BY DEF Registered
    <2>2. heap[n] \in Node
      BY <2>1 DEF Inv, TypeOK, Nodes
    <2> QED
      BY <2>1, <2>2 DEF Node
  <1> DEFINE keys == [i \in 1 .. Len(s) |-> heap[s[i]].key]
  <1>4. keys \in Seq(Handlers) /\ Len(keys) = Len(s)
    BY <1>1, <1>2, <1>3
  <1>5. Keys(s, heap) = keys
    BY DEF Keys
  <1>6. \A i \in 1 .. Len(s) : keys[i] = heap[s[i]].key
    OBVIOUS
  <1> HIDE DEF keys
  <1> QED
    BY <1>1, <1>2, <1>3, <1>4, <1>5, <1>6

\* The first handler that is added is the one the walk meets.
LEMMA AddFirstOrder ==
  ASSUME Inv, Inv', NEW h \in Handlers, AddFirst(h)
  PROVE  Order!Add(h)
  <1> DEFINE n == Len(heap) + 2
  <1>1. /\ heap \in Seq(Node) /\ Len(heap) \in Nat /\ end = 0 /\ Registered = {}
        /\ removed' \subseteq 1 .. Len(heap) /\ Nodes = 1 .. Len(heap)
    BY DEF Inv, TypeOK, Current, AddFirst, Nodes
  <1>2. /\ Len(heap') = n
        /\ heap'[n - 1].key = NoKey /\ heap'[n].key = h
    <2> DEFINE A == [key |-> NoKey, prev |-> n, next |-> n]
               B == [key |-> h, prev |-> n - 1, next |-> n - 1]
    <2>1. A \in Node /\ B \in Node
      BY <1>1 DEF Node
    <2>2. heap' = heap \o <<A, B>>
      BY <1>1 DEF AddFirst
    <2>3. A.key = NoKey /\ B.key = h
      OBVIOUS
    <2> HIDE DEF A, B
    <2>4. <<A, B>> \in Seq(Node) /\ Len(<<A, B>>) = 2
      BY <2>1
    <2>5. Len(heap') = n
      BY <1>1, <2>2, <2>4
    <2>6. heap'[Len(heap) + 1] = A /\ heap'[Len(heap) + 2] = B
      BY <1>1, <2>2, <2>4
    <2> QED
      BY <1>1, <2>3, <2>5, <2>6
  <1>3. Registered' = {n}
    <2>1. Registered' = {k \in 1 .. n : heap'[k].key # NoKey /\ k \notin removed'}
      BY <1>2 DEF Registered, Nodes
    <2>2. \A k \in Nodes : heap'[k].key = NoKey \/ k \in removed'
      <3>1. \A k \in Nodes : heap[k].key = NoKey \/ k \in removed
        BY <1>1 DEF Registered
      <3>2. removed' = removed
        BY DEF AddFirst
      <3>3. \A k \in Nodes : heap'[k].key = heap[k].key
        BY KeysKept DEF Next
      <3> QED
        BY <3>1, <3>2, <3>3
    <2>3. heap'[n].key # NoKey
      BY <1>2
    <2> QED
      BY <1>1, <1>2, <2>1, <2>2, <2>3
  <1>4. Walk = <<>>
    BY <1>1 DEF Walk
  <1>5. Walk' = <<h>>
    <2> DEFINE s == <<n>>
    <2>1. n \in Nat /\ s \in Seq(Nat) /\ Len(s) = 1 /\ s[1] = n
      BY <1>1
    <2> HIDE DEF s
    <2>2. Listing(s, Registered')
      BY <1>3, <2>1 DEF Listing
    <2>3. Walk' = Keys(s, heap')
      BY <2>2, WalkStaysOrdered DEF WalkOrdered
    <2>4. Keys(s, heap') = [i \in 1 .. 1 |-> h]
      BY <1>2, <2>1 DEF Keys
    <2> QED
      BY <2>3, <2>4
  <1> QED
    BY <1>4, <1>5 DEF Order!Add, Order!Listed

\* A handler that is added to others is the last the walk meets: its node is the
\* newest of the registered ones.
LEMMA AppendHandlerOrder ==
  ASSUME Inv, Inv', NEW h \in Handlers, AppendHandler(h)
  PROVE  Order!Add(h)
  <1> DEFINE n == Len(heap) + 1
  <1>1. /\ heap \in Seq(Node) /\ Len(heap) \in Nat /\ end # 0 /\ map[h] = 0
        /\ removed \subseteq Nodes /\ Nodes = 1 .. Len(heap) /\ removed' = removed
    BY DEF Inv, TypeOK, AppendHandler, Nodes
  <1>2. Len(heap') = n /\ heap'[n].key = h
    <2>1. end \in Nodes /\ end \in Ring
      BY <1>1 DEF Inv, TypeOK, Nodes, Ring
    <2>2. heap[end].prev \in Nodes
      BY <1>1, <2>1, RingNodes DEF Inv, Linked
    <2> DEFINE last == heap[end].prev
               new == Extend(heap, last, end, h)
    <2>3. heap' = new
      BY DEF AppendHandler, Extend, Relink
    <2>4. last \in 1 .. Len(heap) /\ end \in 1 .. Len(heap) /\ heap \in Seq(Node)
      BY <1>1, <2>1, <2>2
    <2> HIDE DEF last
    <2>5. /\ Len(new) = Len(heap) + 1
          /\ new[Len(heap) + 1] = [key |-> h, prev |-> last, next |-> end]
      BY <2>4, Extended
    <2> HIDE DEF new
    <2> QED
      BY <2>3, <2>5
  <1>3. \A k \in Nodes : heap'[k].key = heap[k].key
    BY KeysKept DEF Next
  <1>4. Registered' = Registered \cup {n}
    <2>1. Registered' = {k \in 1 .. n : heap'[k].key # NoKey /\ k \notin removed}
      BY <1>1, <1>2 DEF Registered, Nodes
    <2>2. heap'[n].key # NoKey /\ n \notin removed
      BY <1>1, <1>2
    <2> QED
      BY <1>1, <1>3, <2>1, <2>2 DEF Registered
  <1>5. PICK s : Listing(s, Registered)
    BY WalkListing
  <1>6. /\ s \in Seq(Nat) /\ Len(s) \in Nat
        /\ \A i \in 1 .. Len(s) : s[i] \in Nat /\ s[i] \in Nodes
        /\ Walk = Keys(s, heap) /\ Keys(s, heap) \in Seq(Handlers)
        /\ Len(Keys(s, heap)) = Len(s)
        /\ \A i \in 1 .. Len(s) : Keys(s, heap)[i] = heap[s[i]].key
    BY <1>5, KeysFacts, WalkIsOrdered DEF WalkOrdered
  <1>7. h \notin Order!Listed
    <2>1. ASSUME NEW i \in 1 .. Len(s), Walk[i] = h PROVE FALSE
      <3>1. s[i] \in Registered /\ heap[s[i]].key = h
        BY <1>5, <1>6, <2>1 DEF Listing
      <3>2. map[h] = s[i] /\ s[i] # 0
        BY <1>1, <1>6, <3>1 DEF Inv, Keyed
      <3> QED
        BY <1>1, <3>2
    <2>2. DOMAIN Walk = 1 .. Len(s)
      BY <1>6 DEF Keys
    <2> QED
      BY <2>1, <2>2 DEF Order!Listed
  <1> DEFINE t == Append(s, n)
  <1>8. /\ t \in Seq(Nat) /\ Len(t) = Len(s) + 1 /\ t[Len(s) + 1] = n
        /\ \A i \in 1 .. Len(s) : t[i] = s[i]
    BY <1>1, <1>6
  <1> HIDE DEF t
  <1>9. Listing(t, Registered')
    <2>1. \A i, j \in 1 .. Len(t) : i < j => t[i] < t[j]
      <3> SUFFICES ASSUME NEW i \in 1 .. Len(t), NEW j \in 1 .. Len(t), i < j
                   PROVE  t[i] < t[j]
        OBVIOUS
      <3>1. i \in 1 .. Len(s) /\ t[i] = s[i] /\ s[i] < n
        BY <1>1, <1>6, <1>8
      <3>2. CASE j = Len(s) + 1
        BY <1>8, <3>1, <3>2
      <3>3. CASE j # Len(s) + 1
        <4>1. j \in 1 .. Len(s) /\ t[j] = s[j]
          <5>1. Len(s) \in Nat /\ Len(t) = Len(s) + 1
            BY <1>6, <1>8
          <5>2. j \in 1 .. Len(s)
            BY <3>3, <5>1
          <5> QED
            BY <1>8, <5>2
        <4> QED
          BY <1>5, <3>1, <4>1 DEF Listing
      <3> QED
        BY <3>2, <3>3
    <2>2. \A i \in 1 .. Len(t) : t[i] \in Registered'
      <3> TAKE i \in 1 .. Len(t)
      <3>1. i \in 1 .. Len(s) \/ i = Len(s) + 1
        BY <1>6, <1>8
      <3> QED
        BY <1>4, <1>5, <1>8, <3>1 DEF Listing
    <2>3. ASSUME NEW m \in Registered' PROVE \E i \in 1 .. Len(t) : t[i] = m
      <3>1. CASE m = n
        <4>1. Len(s) + 1 \in 1 .. Len(t)
          BY <1>6, <1>8
        <4> QED
          BY <1>8, <3>1, <4>1
      <3>2. CASE m \in Registered
        <4>1. PICK i \in 1 .. Len(s) : s[i] = m
          BY <1>5, <3>2 DEF Listing
        <4>2. i \in 1 .. Len(t) /\ t[i] = m
          BY <1>6, <1>8, <4>1
        <4> QED
          BY <4>2
      <3> QED
        BY <1>4, <3>1, <3>2
    <2> QED
      BY <1>8, <2>1, <2>2, <2>3 DEF Listing
  <1>10. Walk' = Keys(t, heap')
    BY <1>9, WalkStaysOrdered DEF WalkOrdered
  <1>11. Keys(t, heap') = Append(Walk, h)
    <2>1. \A i \in 1 .. Len(s) : heap'[t[i]].key = Walk[i]
      BY <1>3, <1>6, <1>8
    <2>2. heap'[t[Len(s) + 1]].key = h
      BY <1>2, <1>8
    <2> DEFINE new == [i \in 1 .. Len(s) + 1 |-> heap'[t[i]].key]
               old == Append(Walk, h)
    <2>3. Keys(t, heap') = new
      BY <1>8 DEF Keys
    <2>4. /\ old \in Seq(Handlers) /\ Len(old) = Len(s) + 1 /\ old[Len(s) + 1] = h
          /\ \A i \in 1 .. Len(s) : old[i] = Walk[i]
      BY <1>6
    <2>5. \A i \in 1 .. Len(s) + 1 : new[i] = heap'[t[i]].key
      OBVIOUS
    <2> HIDE DEF old
    <2>6. \A i \in 1 .. Len(s) + 1 : new[i] = old[i]
      <3> TAKE i \in 1 .. Len(s) + 1
      <3>1. i \in 1 .. Len(s) \/ i = Len(s) + 1
        BY <1>6
      <3> QED
        BY <2>1, <2>2, <2>4, <2>5, <3>1
    <2>7. \A i \in 1 .. Len(s) + 1 : new[i] \in Handlers
      <3>1. \A i \in 1 .. Len(s) + 1 : old[i] \in Handlers
        BY <2>4
      <3> QED
        BY <2>6, <3>1
    <2>8. new \in Seq(Handlers) /\ Len(new) = Len(s) + 1
      BY <1>6, <2>7
    <2> HIDE DEF new
    <2>9. new = old
      BY <1>6, <2>4, <2>6, <2>8, SeqEqual
    <2> QED
      BY <2>3, <2>9 DEF old
  <1> QED
    BY <1>7, <1>10, <1>11 DEF Order!Add

\* A sequence without one of its elements.
Without(s, p) == SubSeq(s, 1, p - 1) \o SubSeq(s, p + 1, Len(s))

\* What such a sequence holds at each place.
LEMMA WithoutElement ==
  ASSUME NEW S, NEW s \in Seq(S), NEW p \in 1 .. Len(s)
  PROVE  /\ Without(s, p) \in Seq(S)
         /\ Len(Without(s, p)) = Len(s) - 1
         /\ \A i \in 1 .. Len(s) - 1 : Without(s, p)[i] = IF i < p THEN s[i] ELSE s[i + 1]
  <1> DEFINE a == SubSeq(s, 1, p - 1)
             b == SubSeq(s, p + 1, Len(s))
  <1>1. Len(s) \in Nat /\ \A i \in 1 .. Len(s) : s[i] \in S
    OBVIOUS
  <1>2. /\ a \in Seq(S) /\ Len(a) = p - 1 /\ \A i \in 1 .. p - 1 : a[i] = s[i]
    <2>1. p - 1 \in Int /\ \A i \in 1 .. p - 1 : s[i] \in S
      BY <1>1
    <2> QED
      BY <1>1, <2>1, SubSeqProperties
  <1>3. /\ b \in Seq(S) /\ Len(b) = Len(s) - p
        /\ \A i \in 1 .. Len(s) - p : b[i] = s[p + i]
    <2>1. p + 1 \in Int /\ \A i \in p + 1 .. Len(s) : s[i] \in S
      BY <1>1
    <2> QED
      BY <1>1, <2>1, SubSeqProperties
  <1>4. Without(s, p) = a \o b
    BY DEF Without
  <1> HIDE DEF a, b
  <1>5. /\ a \o b \in Seq(S) /\ Len(a \o b) = Len(s) - 1
        /\ \A i \in 1 .. Len(s) - 1 : (a \o b)[i] = IF i <= p - 1 THEN a[i] ELSE b[i - (p - 1)]
    BY <1>1, <1>2, <1>3, ConcatProperties
  <1>6. ASSUME NEW i \in 1 .. Len(s) - 1
        PROVE  (a \o b)[i] = IF i < p THEN s[i] ELSE s[i + 1]
    <2>1. CASE i < p
      BY <1>2, <1>5, <2>1
    <2>2. CASE ~(i < p)
      <3>1. i - (p - 1) \in 1 .. Len(s) - p /\ p + (i - (p - 1)) = i + 1 /\ ~(i <= p - 1)
        BY <1>1, <2>2
      <3> QED
        BY <1>3, <1>5, <2>2, <3>1
    <2> QED
      BY <2>1, <2>2
  <1> QED
    BY <1>4, <1>5, <1>6

\* A listing without one of its numbers.
LEMMA ListingWithout ==
  ASSUME NEW R, NEW s, Listing(s, R), NEW p \in 1 .. Len(s)
  PROVE  Listing(Without(s, p), R \ {s[p]})
  <1> DEFINE t == Without(s, p)
  <1>1. s \in Seq(Nat) /\ Len(s) \in Nat
    BY DEF Listing
  <1>2. /\ t \in Seq(Nat) /\ Len(t) = Len(s) - 1
        /\ \A i \in 1 .. Len(s) - 1 : t[i] = IF i < p THEN s[i] ELSE s[i + 1]
    BY <1>1, WithoutElement
  <1> HIDE DEF t
  <1>3. \A i, j \in 1 .. Len(s) : i < j => s[i] < s[j]
    BY DEF Listing
  <1>4. \A i \in 1 .. Len(s) : s[i] \in Nat
    BY <1>1
  <1> DEFINE at(i) == IF i < p THEN i ELSE i + 1
  <1>5. ASSUME NEW i \in 1 .. Len(t)
        PROVE  at(i) \in 1 .. Len(s) /\ at(i) # p /\ t[i] = s[at(i)] /\ i \in Nat
    <2>1. i \in 1 .. Len(s) - 1 /\ i \in Nat
      BY <1>1, <1>2
    <2>2. at(i) \in 1 .. Len(s) /\ at(i) # p
      BY <1>1, <2>1
    <2> QED
      BY <1>2, <2>1, <2>2
  <1>6. \A i, j \in 1 .. Len(t) : i < j => t[i] < t[j]
    <2> SUFFICES ASSUME NEW i \in 1 .. Len(t), NEW j \in 1 .. Len(t), i < j
                 PROVE  t[i] < t[j]
      OBVIOUS
    <2>1. i \in Nat /\ j \in Nat /\ at(i) < at(j)
      BY <1>5
    <2> QED
      BY <1>3, <1>5, <2>1
  <1>7. \A i \in 1 .. Len(t) : t[i] \in R \ {s[p]}
    <2> TAKE i \in 1 .. Len(t)
    <2>1. at(i) \in 1 .. Len(s) /\ at(i) # p /\ t[i] = s[at(i)]
      BY <1>5
    <2>2. s[at(i)] \in R
      BY <2>1 DEF Listing
    <2> HIDE DEF at
    <2>3. s[at(i)] # s[p]
      <3>1. at(i) < p \/ p < at(i)
        BY <2>1
      <3>2. s[at(i)] < s[p] \/ s[p] < s[at(i)]
        BY <1>3, <2>1, <3>1
      <3>3. s[at(i)] \in Nat /\ s[p] \in Nat
        BY <1>4, <2>1
      <3> QED
        BY <3>2, <3>3
    <2> QED
      BY <2>1, <2>2, <2>3
  <1>8. ASSUME NEW m \in R \ {s[p]} PROVE \E i \in 1 .. Len(t) : t[i] = m
    <2>1. PICK k \in 1 .. Len(s) : s[k] = m
      BY DEF Listing
    <2>2. k # p
      BY <2>1
    <2> DEFINE i == IF k < p THEN k ELSE k - 1
    <2>3. i \in 1 .. Len(s) - 1 /\ (IF i < p THEN i ELSE i + 1) = k
      BY <1>1, <2>2
    <2>4. t[i] = s[k]
      BY <1>2, <2>3
    <2> QED
      BY <1>2, <2>1, <2>3, <2>4
  <1> QED
    BY <1>2, <1>6, <1>7, <1>8 DEF Listing, t

\* A handler that is removed leaves the walk, and those after it move up by one.
LEMMA RemoveHandlerOrder ==
  ASSUME Inv, Inv', NEW h \in Handlers, RemoveHandler(h)
  PROVE  Order!Remove(h)
  <1> DEFINE n == map[h]
  <1>1. /\ n \in Registered /\ heap[n].key = h
        /\ removed' = removed \cup {n} /\ Nodes = 1 .. Len(heap)
    BY DEF RemoveHandler, Inv, Keyed, Nodes
  <1>2. Nodes' = Nodes /\ \A k \in Nodes : heap'[k].key = heap[k].key
    <2>1. heap \in Seq(Node)
      BY DEF Inv, TypeOK
    <2>2. Len(heap') = Len(heap)
      <3>1. DOMAIN heap' = DOMAIN heap
        BY DEF RemoveHandler
      <3>2. heap' \in Seq(Node)
        BY DEF Inv, TypeOK
      <3>3. Len(heap) \in Nat /\ DOMAIN heap = 1 .. Len(heap)
        BY <2>1
      <3>4. Len(heap') \in Nat /\ DOMAIN heap' = 1 .. Len(heap')
        BY <3>2
      <3> QED
        BY <3>1, <3>3, <3>4
    <2> QED
      BY <2>2, KeysKept DEF Next, Nodes
  <1>3. Registered' = Registered \ {n}
    BY <1>1, <1>2 DEF Registered
  <1> HIDE DEF n
  <1>4. PICK s : Listing(s, Registered)
    BY WalkListing
  <1>5. /\ s \in Seq(Nat) /\ Len(s) \in Nat
        /\ \A i \in 1 .. Len(s) : s[i] \in Nodes
        /\ Walk = Keys(s, heap) /\ Keys(s, heap) \in Seq(Handlers)
        /\ Len(Keys(s, heap)) = Len(s)
        /\ \A i \in 1 .. Len(s) : Keys(s, heap)[i] = heap[s[i]].key
    BY <1>4, KeysFacts, WalkIsOrdered DEF WalkOrdered
  <1>6. PICK p \in 1 .. Len(s) : s[p] = n
    BY <1>1, <1>4 DEF Listing
  <1>7. p \in DOMAIN Walk /\ Walk[p] = h
    BY <1>1, <1>5, <1>6 DEF Keys
  <1> DEFINE t == Without(s, p)
             u == Without(Walk, p)
  <1>8. Listing(t, Registered')
    BY <1>3, <1>4, <1>6, ListingWithout
  <1>9. Walk' = Keys(t, heap')
    BY <1>8, WalkStaysOrdered DEF WalkOrdered
  <1>10. /\ t \in Seq(Nat) /\ Len(t) = Len(s) - 1
         /\ \A i \in 1 .. Len(s) - 1 : t[i] = IF i < p THEN s[i] ELSE s[i + 1]
    BY <1>5, WithoutElement
  <1>11. /\ u \in Seq(Handlers) /\ Len(u) = Len(s) - 1
         /\ \A i \in 1 .. Len(s) - 1 : u[i] = IF i < p THEN Walk[i] ELSE Walk[i + 1]
    <2>1. Walk \in Seq(Handlers) /\ Len(Walk) = Len(s) /\ p \in 1 .. Len(Walk)
      BY <1>5
    <2>2. /\ u \in Seq(Handlers) /\ Len(u) = Len(Walk) - 1
          /\ \A i \in 1 .. Len(Walk) - 1 : u[i] = IF i < p THEN Walk[i] ELSE Walk[i + 1]
      BY <2>1, WithoutElement
    <2> QED
      BY <2>1, <2>2
  <1> HIDE DEF t, u
  <1>12. Keys(t, heap') = u
    <2> DEFINE new == [i \in 1 .. Len(t) |-> heap'[t[i]].key]
    <2>1. ASSUME NEW i \in 1 .. Len(t) PROVE new[i] = u[i] /\ u[i] \in Handlers
      <3>1. i \in 1 .. Len(s) - 1 /\ i \in 1 .. Len(s) /\ i + 1 \in 1 .. Len(s)
        BY <1>5, <1>10
      <3>2. u[i] \in Handlers
        BY <1>10, <1>11
      <3>3. CASE i < p
        <4>1. t[i] = s[i] /\ u[i] = Walk[i]
          BY <1>10, <1>11, <3>1, <3>3
        <4>2. s[i] \in Nodes /\ Walk[i] = heap[s[i]].key
          BY <1>5, <3>1
        <4> QED
          BY <1>2, <3>2, <4>1, <4>2
      <3>4. CASE ~(i < p)
        <4>1. t[i] = s[i + 1] /\ u[i] = Walk[i + 1]
          BY <1>10, <1>11, <3>1, <3>4
        <4>2. s[i + 1] \in Nodes /\ Walk[i + 1] = heap[s[i + 1]].key
          BY <1>5, <3>1
        <4> QED
          BY <1>2, <3>2, <4>1, <4>2
      <3> QED
        BY <3>3, <3>4
    <2>2. Len(t) \in Nat /\ Len(u) = Len(t)
      BY <1>10, <1>11
    <2>3. new \in Seq(Handlers) /\ Len(new) = Len(t)
      BY <2>1, <2>2
    <2>4. Keys(t, heap') = new
      BY DEF Keys
    <2> HIDE DEF new
    <2>5. new = u
      BY <1>11, <2>1, <2>2, <2>3, SeqEqual
    <2> QED
      BY <2>4, <2>5
  <1>13. Walk' = SubSeq(Walk, 1, p - 1) \o SubSeq(Walk, p + 1, Len(Walk))
    BY <1>9, <1>12 DEF u, Without
  <1> QED
    BY <1>7, <1>13 DEF Order!Remove

\* Every step adds or removes a handler at its place, drops all, or leaves the
\* listeners as they are.
LEMMA OrderStep ==
  ASSUME Inv, Inv', [Next]_vars
  PROVE  [Order!Next]_Walk
  <1>1. ASSUME NEW h \in Handlers, AddFirst(h) PROVE Order!Next
    BY <1>1, AddFirstOrder DEF Order!Next
  <1>2. ASSUME NEW h \in Handlers, AppendHandler(h) PROVE Order!Next
    BY <1>2, AppendHandlerOrder DEF Order!Next
  <1>3. ASSUME NEW h \in Handlers, RemoveHandler(h) PROVE Order!Next
    BY <1>3, RemoveHandlerOrder DEF Order!Next
  <1>4. ASSUME RemoveAll PROVE Order!Next
    <2>1. end' = 0
      BY <1>4 DEF RemoveAll
    <2>2. Walk' = <<>>
      BY <2>1 DEF Walk
    <2> QED
      BY <2>2 DEF Order!Next, Order!Clear
  <1>5. ASSUME heap' = heap, end' = end PROVE Walk' = Walk
    BY <1>5 DEF Walk, Way
  <1>6. (UNCHANGED vars \/ \E f \in Fires : Fire(f) \/ HandlerReturns(f) \/ HandlerRaises(f))
           => heap' = heap /\ end' = end
    BY DEF vars, Fire, HandlerReturns, HandlerRaises, oset
  <1> QED
    BY <1>1, <1>2, <1>3, <1>4, <1>5, <1>6 DEF Next

\* The linked list of oset.py implements the ordered set that add_listener and
\* del_listener of evmgr.py promise: what a walk would meet is the handlers in the
\* order they were added, and each step does to it what the ordered set allows.
THEOREM SpecImplementsOrder == Spec => ImplementsOrder
  <1>1. Init => Order!Init
    BY DEF Init, Order!Init, Walk
  <1>2. Inv /\ Inv' /\ [Next]_vars => [Order!Next]_Walk
    BY OrderStep
  <1> QED
    BY <1>1, <1>2, SpecInv, PTL DEF Spec, ImplementsOrder, Order!Spec
=============================================================================
