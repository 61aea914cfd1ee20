-------------------------- MODULE OrderedResponses --------------------------
(***************************************************************************)
(* What a pipelined transport promises to one client: requests are         *)
(* numbered in the order they arrive, the application may answer them in   *)
(* any order, and the answers leave in the order of the requests, each     *)
(* one once.  TwistedMsgpack implements this module.                       *)
(***************************************************************************)
EXTENDS Naturals

CONSTANTS
    MaxReq,     \* bound on the number of requests of one connection
    Answer,     \* the values a response may have
    NoAnswer    \* the mark of a request that is not answered yet

VARIABLES
    received,   \* number of requests accepted so far
    answer,     \* answer[i]: the answer to the i-th request
    sent        \* number of answers handed to the network

vars == <<received, answer, sent>>

TypeOK ==
    /\ received \in 0 .. MaxReq
    /\ answer \in [1 .. MaxReq -> Answer \cup {NoAnswer}]
    /\ sent \in 0 .. received

Init ==
    /\ received = 0
    /\ answer = [i \in 1 .. MaxReq |-> NoAnswer]
    /\ sent = 0

Receive ==
    /\ received < MaxReq
    /\ received' = received + 1
    /\ UNCHANGED <<answer, sent>>

Complete(i, a) ==
    /\ i \in sent + 1 .. received
    /\ answer[i] = NoAnswer
    /\ answer' = [answer EXCEPT ![i] = a]
    /\ UNCHANGED <<received, sent>>

Send ==
    /\ sent < received
    /\ answer[sent + 1] # NoAnswer
    /\ sent' = sent + 1
    /\ UNCHANGED <<received, answer>>

Next ==
    \/ Receive
    \/ \E i \in 1 .. MaxReq, a \in Answer : Complete(i, a)
    \/ Send

\* An answer that is next in line is not kept back.
Spec == Init /\ [][Next]_vars /\ WF_vars(Send)
=============================================================================
