---------------------------- MODULE ChunkedWriter ----------------------------
(***************************************************************************)
(* The chunked output of TwistedMessagePackProtocol (out_chunk_size > 0):  *)
(* out_write queues the chunks of a response and schedules a writer, and   *)
(* each writer writes one chunk and schedules itself again.  Every         *)
(* out_write starts another such chain of delayed calls, all of them work  *)
(* on the same queue.  Chunks are numbered in the order they are queued.   *)
(*                                                                         *)
(* Definitions whose name begins with Bad are the definition that follows  *)
(* them with a mistake, and not part of the model.                         *)
(***************************************************************************)
EXTENDS Naturals, Sequences

CONSTANTS
    MaxResponses,   \* bound: responses of one connection
    MaxChunks       \* bound: chunks of one response

ASSUME ChunkedWriterAssumption ==
    MaxResponses \in Nat /\ MaxChunks \in Nat

VARIABLES
    chunks,         \* out_chunks: the numbers of the chunks that are left
    produced,       \* number of chunks queued so far
    flushed,        \* for each outresp_flushed event, the response's last chunk
    writers,        \* delayed calls of _write_single_chunk in the reactor
    peer,           \* the chunks written while the connection was up
    disconnecting,  \* self.disconnecting
    conn            \* Twisted's side: "up", "closing" or "lost"

vars == <<chunks, produced, flushed, writers, peer, disconnecting, conn>>

Init ==
    /\ chunks = <<>>
    /\ produced = 0
    /\ flushed = <<>>
    /\ writers = 0
    /\ peer = <<>>
    /\ disconnecting = FALSE
    /\ conn = "up"

\* enqueue_outresp_data writes a response of n chunks and fires the event.
OutWrite(n) ==
    /\ Len(flushed) < MaxResponses
    /\ chunks' = chunks \o [i \in 1 .. n |-> produced + i]
    /\ produced' = produced + n
    /\ flushed' = Append(flushed, produced + n)
    /\ writers' = writers + 1
    /\ UNCHANGED <<peer, disconnecting, conn>>

\* A delayed call finds no chunk and ends its chain.
WriterEnds ==
    /\ writers > 0
    /\ chunks = <<>>
    /\ writers' = writers - 1
    /\ UNCHANGED <<chunks, produced, flushed, peer, disconnecting, conn>>

\* Twisted drops what is written to a connection that is not up.
Deliver(c) == peer' = IF conn = "up" THEN Append(peer, c) ELSE peer

\* The chain stops although there is more to write.
BadWriteChunk ==
    /\ writers > 0
    /\ chunks # <<>>
    /\ Deliver(Head(chunks))
    /\ chunks' = Tail(chunks)
    /\ writers' = writers - 1
    /\ UNCHANGED <<produced, flushed, disconnecting, conn>>

\* The newest response first.
BadWriteLastChunk ==
    /\ writers > 0
    /\ chunks # <<>>
    /\ Deliver(chunks[Len(chunks)])
    /\ chunks' = SubSeq(chunks, 1, Len(chunks) - 1)
    /\ UNCHANGED <<writers, produced, flushed, disconnecting, conn>>

\* A delayed call writes one chunk and schedules the next call.
\* Protocol.connected stays true once it is set, so only
\* self.disconnecting counts.
WriteChunk ==
    /\ writers > 0
    /\ chunks # <<>>
    /\ Deliver(Head(chunks))
    /\ IF disconnecting
         THEN chunks' = <<>> /\ writers' = writers - 1
         ELSE chunks' = Tail(chunks) /\ UNCHANGED writers
    /\ UNCHANGED <<produced, flushed, disconnecting, conn>>

\* loseConnection: flag and abortConnection in one go.
LoseConnection ==
    /\ disconnecting' = TRUE
    /\ conn' = IF conn = "up" THEN "closing" ELSE conn
    /\ UNCHANGED <<chunks, produced, flushed, writers, peer>>

\* The flag is reset, the queue and the delayed calls are left.
ConnectionLost ==
    /\ conn # "lost"
    /\ conn' = "lost"
    /\ disconnecting' = FALSE
    /\ UNCHANGED <<chunks, produced, flushed, writers, peer>>

Next ==
    \/ \E n \in 1 .. MaxChunks : OutWrite(n)
    \/ WriterEnds
    \/ WriteChunk
    \/ LoseConnection
    \/ ConnectionLost

\* The reactor runs delayed calls that are due.
Fairness == WF_vars(WriterEnds) /\ WF_vars(WriteChunk)

Spec == Init /\ [][Next]_vars
FairSpec == Spec /\ Fairness

-----------------------------------------------------------------------------
(* Properties.                                                             *)

\* Each variable holds what the attribute it stands for may hold.
TypeOK ==
    /\ chunks \in Seq(Nat)
    /\ produced \in Nat
    /\ flushed \in Seq(Nat)
    /\ writers \in Nat
    /\ peer \in Seq(Nat)
    /\ disconnecting \in BOOLEAN
    /\ conn \in {"up", "closing", "lost"}

\* However many chains of delayed calls work on the queue, and whatever is
\* discarded when the connection breaks, the peer has received a prefix of
\* what was written, with no chunk missing, repeated or out of place: a
\* gap in a MessagePack stream would garble every response after it.
PeerSeesPrefix ==
    /\ \A i \in 1 .. Len(peer) : peer[i] = i
    /\ conn = "up" =>
          /\ \A i \in 1 .. Len(chunks) : chunks[i] = Len(peer) + i
          /\ produced = Len(peer) + Len(chunks)

\* As long as there are chunks some delayed call will look at them, the one
\* case set apart where they are to be dropped.
WriterPending == chunks # <<>> /\ conn = "up" => writers > 0

\* What is queued reaches the peer unless the connection goes down.
Drained ==
    \A c \in 1 .. MaxResponses * MaxChunks :
        produced >= c ~> Len(peer) >= c \/ conn # "up"

=============================================================================
