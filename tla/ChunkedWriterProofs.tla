------------------------- MODULE ChunkedWriterProofs -------------------------
(* Proofs about the chunked output of the MessagePack server.              *)
EXTENDS ChunkedWriter, SequenceTheorems, TLAPS

\* Queueing n chunks extends the queue with the next n numbers.
LEMMA QueueFacts ==
    ASSUME NEW s \in Seq(Nat), NEW p \in Nat, NEW n \in Nat
    PROVE  LET t == s \o [i \in 1 .. n |-> p + i] IN
           /\ t \in Seq(Nat)
           /\ Len(t) = Len(s) + n
           /\ \A i \in 1 .. Len(s) : t[i] = s[i]
           /\ \A i \in Len(s) + 1 .. Len(s) + n : t[i] = p + (i - Len(s))
<1> DEFINE u == [i \in 1 .. n |-> p + i]
<1>1. u \in Seq(Nat) /\ Len(u) = n
  OBVIOUS
<1>2. \A i \in 1 .. n : u[i] = p + i
  OBVIOUS
<1> HIDE DEF u
<1>3. /\ s \o u \in Seq(Nat)
      /\ Len(s \o u) = Len(s) + n
      /\ \A i \in 1 .. Len(s) : (s \o u)[i] = s[i]
      /\ \A i \in Len(s) + 1 .. Len(s) + n : (s \o u)[i] = u[i - Len(s)]
  <2>1. s \o u \in Seq(Nat) /\ Len(s \o u) = Len(s) + Len(u)
    BY <1>1, ConcatProperties
  <2>2. \A i \in 1 .. Len(s) + Len(u) :
            (s \o u)[i] = IF i <= Len(s) THEN s[i] ELSE u[i - Len(s)]
    BY <1>1, ConcatProperties
  <2>3. Len(s) \in Nat
    OBVIOUS
  <2> QED
    BY <1>1, <2>1, <2>2, <2>3
<1> QED
  BY <1>2, <1>3 DEF u

\* Taking the first chunk off the queue.
LEMMA TakeFacts ==
    ASSUME NEW s \in Seq(Nat), s # <<>>
    PROVE  /\ Len(s) \in Nat \ {0}
           /\ Head(s) = s[1]
           /\ Head(s) \in Nat
           /\ Tail(s) \in Seq(Nat)
           /\ Len(Tail(s)) = Len(s) - 1
           /\ \A i \in 1 .. Len(Tail(s)) : Tail(s)[i] = s[i + 1]
  OBVIOUS

\* Writing a chunk to a connection that is up.
LEMMA AppendFacts ==
    ASSUME NEW s \in Seq(Nat), NEW e \in Nat
    PROVE  /\ Append(s, e) \in Seq(Nat)
           /\ Len(Append(s, e)) = Len(s) + 1
           /\ \A i \in 1 .. Len(s) : Append(s, e)[i] = s[i]
           /\ Append(s, e)[Len(s) + 1] = e
  OBVIOUS

\* The flag is raised together with abortConnection, so while the
\* connection is up no writer discards anything.
UpMeansConnected == conn = "up" => ~disconnecting

Inv == TypeOK /\ UpMeansConnected /\ PeerSeesPrefix /\ WriterPending

LEMMA InvInit == Init => Inv
<1> SUFFICES ASSUME Init PROVE Inv
  OBVIOUS
<1>1. chunks \in Seq(Nat) /\ peer \in Seq(Nat) /\ flushed \in Seq(Nat)
  BY DEF Init
<1>2. TypeOK
  BY <1>1 DEF Init, TypeOK
<1>3. PeerSeesPrefix
  BY DEF Init, PeerSeesPrefix
<1> QED
  BY <1>2, <1>3 DEF Init, Inv, UpMeansConnected, WriterPending

\* A response is queued behind what is queued already.
LEMMA OutWriteStep ==
    ASSUME Inv, NEW n \in Nat \ {0}, OutWrite(n)
    PROVE  Inv'
<1>1. /\ chunks' = chunks \o [i \in 1 .. n |-> produced + i]
      /\ produced' = produced + n
      /\ writers' = writers + 1
      /\ UNCHANGED <<peer, disconnecting, conn>>
  BY DEF OutWrite
<1>2. /\ produced \in Nat
      /\ chunks \in Seq(Nat)
      /\ Len(chunks) \in Nat
      /\ Len(peer) \in Nat
      /\ writers \in Nat
  BY DEF Inv, TypeOK
<1>3. /\ chunks' \in Seq(Nat)
      /\ Len(chunks') = Len(chunks) + n
      /\ \A i \in 1 .. Len(chunks) : chunks'[i] = chunks[i]
      /\ \A i \in Len(chunks) + 1 .. Len(chunks) + n :
            chunks'[i] = produced + (i - Len(chunks))
  BY <1>1, <1>2, QueueFacts
<1>4. TypeOK'
  <2>1. flushed' \in Seq(Nat)
    BY AppendFacts, <1>2 DEF OutWrite, Inv, TypeOK
  <2> QED
    BY <1>1, <1>2, <1>3, <2>1 DEF Inv, TypeOK
<1>5. PeerSeesPrefix'
  <2>1. CASE conn = "up"
    <3>1. produced = Len(peer) + Len(chunks)
      BY <2>1 DEF Inv, PeerSeesPrefix
    <3>2. ASSUME NEW i \in 1 .. Len(chunks')
          PROVE  chunks'[i] = Len(peer) + i
      <4>1. CASE i \in 1 .. Len(chunks)
        BY <1>3, <2>1, <4>1 DEF Inv, PeerSeesPrefix
      <4>2. CASE i \in Len(chunks) + 1 .. Len(chunks) + n
        BY <1>2, <1>3, <3>1, <4>2
      <4> QED
        BY <1>2, <1>3, <4>1, <4>2
    <3>3. produced' = Len(peer) + Len(chunks')
      BY <1>1, <1>2, <1>3, <3>1
    <3> QED
      BY <1>1, <3>2, <3>3 DEF Inv, PeerSeesPrefix
  <2>2. CASE conn # "up"
    BY <1>1, <2>2 DEF Inv, PeerSeesPrefix
  <2> QED
    BY <2>1, <2>2
<1>6. UpMeansConnected' /\ WriterPending'
  BY <1>1, <1>2 DEF Inv, UpMeansConnected, WriterPending
<1> QED
  BY <1>4, <1>5, <1>6 DEF Inv

\* The first chunk goes to the peer, and the chain goes on.
LEMMA WriteChunkStep ==
    ASSUME Inv, WriteChunk
    PROVE  Inv'
<1>1. /\ chunks \in Seq(Nat)
      /\ chunks # <<>>
      /\ peer \in Seq(Nat)
      /\ writers \in Nat \ {0}
      /\ UNCHANGED <<produced, flushed, disconnecting, conn>>
  BY DEF Inv, TypeOK, WriteChunk
<1>2. CASE conn = "up"
  <2>1. /\ peer' = Append(peer, Head(chunks))
        /\ chunks' = Tail(chunks)
        /\ writers' = writers
    BY <1>2 DEF WriteChunk, Deliver, Inv, UpMeansConnected
  <2>2. /\ peer' \in Seq(Nat)
        /\ Len(peer') = Len(peer) + 1
        /\ \A i \in 1 .. Len(peer) : peer'[i] = peer[i]
        /\ peer'[Len(peer) + 1] = chunks[1]
    BY <1>1, <2>1, TakeFacts, AppendFacts
  <2>3. /\ chunks' \in Seq(Nat)
        /\ Len(chunks) \in Nat \ {0}
        /\ Len(chunks') = Len(chunks) - 1
        /\ \A i \in 1 .. Len(chunks') : chunks'[i] = chunks[i + 1]
    BY <1>1, <2>1, TakeFacts
  <2>4. Len(peer) \in Nat
    BY <1>1
  <2>5. /\ \A i \in 1 .. Len(chunks) : chunks[i] = Len(peer) + i
        /\ produced = Len(peer) + Len(chunks)
        /\ \A i \in 1 .. Len(peer) : peer[i] = i
    BY <1>2 DEF Inv, PeerSeesPrefix
  <2>6. ASSUME NEW i \in 1 .. Len(peer')
        PROVE  peer'[i] = i
    <3>1. chunks[1] = Len(peer) + 1
      BY <2>3, <2>5
    <3>2. CASE i \in 1 .. Len(peer)
      BY <2>2, <2>5, <3>2
    <3>3. CASE i = Len(peer) + 1
      BY <2>2, <3>1, <3>3
    <3> QED
      BY <2>2, <2>4, <3>2, <3>3
  <2>7. ASSUME NEW i \in 1 .. Len(chunks')
        PROVE  chunks'[i] = Len(peer') + i
    <3>1. i + 1 \in 1 .. Len(chunks)
      BY <2>3
    <3>2. chunks[i + 1] = Len(peer) + (i + 1)
      BY <2>5, <3>1
    <3> QED
      BY <2>2, <2>3, <2>4, <3>2
  <2>8. produced = Len(peer') + Len(chunks')
    BY <2>2, <2>3, <2>4, <2>5
  <2>9. PeerSeesPrefix'
    BY <1>1, <2>6, <2>7, <2>8 DEF PeerSeesPrefix
  <2>10. TypeOK' /\ UpMeansConnected' /\ WriterPending'
    BY <1>1, <2>1, <2>2, <2>3
    DEF Inv, TypeOK, UpMeansConnected, WriterPending
  <2> QED
    BY <2>9, <2>10 DEF Inv
<1>3. CASE conn # "up"
  <2>1. peer' = peer
    BY <1>3 DEF WriteChunk, Deliver
  <2>2. chunks' \in Seq(Nat) /\ writers' \in Nat
    <3>1. CASE disconnecting
      BY <1>1, <3>1 DEF WriteChunk
    <3>2. CASE ~disconnecting
      BY <1>1, <3>2, TakeFacts DEF WriteChunk
    <3> QED
      BY <3>1, <3>2
  <2> QED
    BY <1>1, <1>3, <2>1, <2>2
    DEF Inv, TypeOK, UpMeansConnected, PeerSeesPrefix, WriterPending
<1> QED
  BY <1>2, <1>3

LEMMA InvStep == Inv /\ [Next]_vars => Inv'
<1> SUFFICES ASSUME Inv, [Next]_vars PROVE Inv'
  OBVIOUS
<1> USE DEF Inv, TypeOK, UpMeansConnected, PeerSeesPrefix, WriterPending
<1>1. ASSUME NEW n \in 1 .. MaxChunks, OutWrite(n)
      PROVE  Inv'
  <2>1. n \in Nat \ {0}
    BY ChunkedWriterAssumption DEF ChunkedWriterAssumption
  <2> QED
    BY <1>1, <2>1, OutWriteStep
<1>2. CASE WriterEnds
  BY <1>2 DEF WriterEnds
<1>3. CASE WriteChunk
  BY <1>3, WriteChunkStep
<1>4. CASE LoseConnection
  BY <1>4 DEF LoseConnection
<1>5. CASE ConnectionLost
  BY <1>5 DEF ConnectionLost
<1>6. CASE UNCHANGED vars
  BY <1>6 DEF vars
<1> QED
  BY <1>1, <1>2, <1>3, <1>4, <1>5, <1>6 DEF Next

\* The peer never sees a gap, whatever the number of writers at work.
THEOREM PrefixDelivered == Spec => []PeerSeesPrefix
<1>1. Inv => PeerSeesPrefix
  BY DEF Inv
<1> QED
  BY <1>1, InvInit, InvStep, PTL DEF Spec

\* Chunks that are to be written always have a delayed call.
THEOREM NeverForgotten == Spec => []WriterPending
<1>1. Inv => WriterPending
  BY DEF Inv
<1> QED
  BY <1>1, InvInit, InvStep, PTL DEF Spec
=============================================================================
