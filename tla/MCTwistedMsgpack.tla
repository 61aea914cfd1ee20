-------------------------- MODULE MCTwistedMsgpack --------------------------
(* Values for the constants of TwistedMsgpack.                             *)
EXTENDS TwistedMsgpack

\* Calls end in every way that leaves something to send.
SoundWays == [r \in Req |-> AllWays \ {"ignored"}]

\* The fourth call may also leave nothing that can be sent.
FaultyWays == [SoundWays EXCEPT ![4] = AllWays]

\* The first four calls wait for a Deferred, the later ones have a broken
\* result: the least that puts an exception inside another request's flush
\* while that request is queued behind an unanswered one.
LateFaultWays ==
    [r \in Req |-> IF r <= 4 THEN {"deferred"} ELSE {"ignored"}]
=============================================================================
