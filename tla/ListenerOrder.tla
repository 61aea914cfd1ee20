---------------------------- MODULE ListenerOrder ----------------------------
(***************************************************************************)
(* What EventManager (spyne/evmgr.py) promises of the handlers of an event: *)
(* they are kept in the order they were added, and one that is there        *)
(* already is not added again.                                              *)
(***************************************************************************)
EXTENDS Naturals, Sequences

CONSTANT Handlers
VARIABLE listeners

Listed == {listeners[i] : i \in DOMAIN listeners}

Init == listeners = <<>>

Add(h) == h \notin Listed /\ listeners' = Append(listeners, h)

Remove(h) ==
    \E i \in DOMAIN listeners :
        /\ listeners[i] = h
        /\ listeners' = SubSeq(listeners, 1, i - 1)
                            \o SubSeq(listeners, i + 1, Len(listeners))

Clear == listeners' = <<>>

Next == Clear \/ \E h \in Handlers : Add(h) \/ Remove(h)

Spec == Init /\ [][Next]_listeners
=============================================================================
