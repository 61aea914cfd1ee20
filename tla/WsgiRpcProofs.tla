----------------------------- MODULE WsgiRpcProofs -----------------------------
(* Proofs about the requests of the WSGI server.                           *)
EXTENDS WsgiRpc, FiniteSetTheorems, TLAPS

\* Up to start_response.
Before == {"received", "in_object", "out_object", "first_object", "out_string",
           "error", "return"}

\* What each stage of a request knows about its headers and its close.
Progress == \A r \in Req :
    /\ at[r] \in Before =>
          starts[r] = 0 /\ closes[r] = 0 /\ cursor[r] \in {1, NAux + 1}
    /\ at[r] = "error" => failed[r]
    /\ at[r] = "finalize" => starts[r] = 1 /\ closes[r] = 0
    /\ at[r] = "aux" => starts[r] = 1 /\ closes[r] = IF failed[r] THEN 0 ELSE 1
    /\ at[r] \in {"body", "done", "broken"} => starts[r] = 1 /\ closes[r] = 1
    /\ at[r] = "escaped" =>
          /\ starts[r] \in {0, 1}
          /\ closes[r] = 0
          /\ starts[r] = 1 => CloseListenersRaise

\* The contexts from the cursor on have not begun.  Those before it are begun
\* or skipped unless the loop was left early.
CursorSound == \A r \in Req, a \in Aux :
    /\ a >= cursor[r] => aux[r][a] = "idle"
    /\ a < cursor[r] /\ cursor[r] <= NAux =>
          Skips(r, a) \/ aux[r][a] \notin {"idle", "raised"}

PoolsFinite == \A a \in ThreadAux : IsFiniteSet(running[a])

Inv == /\ TypeOK
       /\ Progress
       /\ AuxGated
       /\ CursorSound
       /\ AuxInOrder
       /\ PoolsFinite
       /\ PoolExact

-----------------------------------------------------------------------------
\* Taking a job from the queue and adding one.
LEMMA TakeJob ==
    ASSUME NEW s \in Seq(Req), s # <<>>
    PROVE  /\ Len(s) \in Nat \ {0}
           /\ Head(s) = s[1]
           /\ Head(s) \in Req
           /\ Tail(s) \in Seq(Req)
           /\ Len(Tail(s)) = Len(s) - 1
           /\ \A i \in 1 .. Len(Tail(s)) : Tail(s)[i] = s[i + 1]
  OBVIOUS

LEMMA AddJob ==
    ASSUME NEW s \in Seq(Req), NEW r \in Req
    PROVE  /\ Append(s, r) \in Seq(Req)
           /\ Len(s) \in Nat
           /\ Len(Append(s, r)) = Len(s) + 1
           /\ \A i \in 1 .. Len(s) : Append(s, r)[i] = s[i]
           /\ Append(s, r)[Len(s) + 1] = r
  OBVIOUS

LEMMA InvInit == Init => Inv
<1> SUFFICES ASSUME Init PROVE Inv
  OBVIOUS
<1> USE WsgiRpcAssumption
<1>1. TypeOK
  BY DEF Init, TypeOK, Stages, Aux
<1>2. Progress
  BY DEF Init, Progress, Before
<1>3. AuxGated /\ AuxInOrder
  BY DEF Init, AuxGated, AuxInOrder, Aux
<1>4. CursorSound
  BY DEF Init, CursorSound, Aux
<1>5. PoolsFinite
  BY FS_EmptySet DEF Init, PoolsFinite
<1>6. PoolExact
  BY FS_EmptySet DEF Init, PoolExact
<1> QED
  BY <1>1, <1>2, <1>3, <1>4, <1>5, <1>6 DEF Inv

-----------------------------------------------------------------------------
(* Steps of a request's thread that leave the auxiliary contexts alone.    *)

\* The stages before start_response and start_response itself.
EarlyStep(r) ==
    \/ GenerateContexts(r)
    \/ GetInObject(r)
    \/ GetOutObject(r)
    \/ FirstObject(r)
    \/ GetOutString(r)
    \/ StartResponse(r)
    \/ HandleError(r)

LateStep(r) == Finalize(r) \/ SendBody(r) \/ AuxLoopEnds(r)

LEMMA EarlyType ==
    ASSUME TypeOK, NEW r \in Req, EarlyStep(r)
    PROVE  TypeOK'
<1> USE DEF EarlyStep, GenerateContexts, GetInObject, GetOutObject, FirstObject,
        GetOutString, StartResponse, HandleError, GoTo, SetError, SetOutput,
        Escape, response, pools
<1>1. \E stage \in Stages : at' = [at EXCEPT ![r] = stage]
  BY DEF Stages, Over
<1>2. failed' = failed \/ failed' = [failed EXCEPT ![r] = TRUE]
  OBVIOUS
<1>3. status' = status \/ \E code \in {"unset", "user", "200", "error"} :
         status' = [status EXCEPT ![r] = code]
  BY DEF TypeOK
<1>4. document' = document \/ \E doc \in {"none", "result", "fault"} :
         document' = [document EXCEPT ![r] = doc]
  BY DEF TypeOK
<1>5. string' = string \/ \E str \in {"none", "result", "fault"} :
         string' = [string EXCEPT ![r] = str]
  BY DEF TypeOK
<1>6. starts' = starts \/ starts' = [starts EXCEPT ![r] = @ + 1]
  OBVIOUS
<1>7. cursor' = cursor \/ cursor' = [cursor EXCEPT ![r] = NAux + 1]
  OBVIOUS
<1>8. UNCHANGED <<closes, aux, queue, running>>
  OBVIOUS
<1> HIDE DEF EarlyStep
<1> QED
  <2>1. NAux + 1 \in 1 .. NAux + 1
    BY WsgiRpcAssumption
  <2>2. at' \in [Req -> Stages]
    BY <1>1 DEF TypeOK
  <2>7. failed' \in [Req -> BOOLEAN]
    BY <1>2 DEF TypeOK
  <2>3. status' \in [Req -> {"unset", "user", "200", "error"}]
    BY <1>3 DEF TypeOK
  <2>4. document' \in [Req -> {"none", "result", "fault"}]
    BY <1>4 DEF TypeOK
  <2>8. string' \in [Req -> {"none", "result", "fault"}]
    BY <1>5 DEF TypeOK
  <2>5. starts' \in [Req -> Nat]
    BY <1>6 DEF TypeOK
  <2>6. cursor' \in [Req -> 1 .. NAux + 1]
    BY <1>7, <2>1 DEF TypeOK
  <2> QED
    BY <1>8, <2>2, <2>3, <2>4, <2>5, <2>6, <2>7, <2>8 DEF TypeOK

LEMMA EarlyProgress ==
    ASSUME TypeOK, Progress, NEW r \in Req, EarlyStep(r)
    PROVE  Progress'
<1> USE WsgiRpcAssumption DEF TypeOK, Progress, Before, GoTo, SetError,
        SetOutput, Escape, pools
<1>1. CASE GenerateContexts(r)
  BY <1>1 DEF GenerateContexts
<1>2. CASE GetInObject(r)
  BY <1>2 DEF GetInObject
<1>3. CASE GetOutObject(r)
  BY <1>3 DEF GetOutObject
<1>4. CASE FirstObject(r)
  BY <1>4 DEF FirstObject, response
<1>5. CASE GetOutString(r)
  BY <1>5 DEF GetOutString
<1>6. CASE StartResponse(r)
  <2>1. CASE at' = [at EXCEPT ![r] = "escaped"] /\ UNCHANGED starts
    BY <1>6, <2>1 DEF StartResponse
  <2>2. CASE /\ at' = [at EXCEPT ![r] = "finalize"]
             /\ starts' = [starts EXCEPT ![r] = @ + 1]
    BY <1>6, <2>2 DEF StartResponse
  <2> QED
    BY <1>6, <2>1, <2>2 DEF StartResponse
<1>7. CASE HandleError(r)
  <2>1. CASE at' = [at EXCEPT ![r] = "escaped"] /\ UNCHANGED starts
    BY <1>7, <2>1 DEF HandleError
  <2>2. CASE /\ at' = [at EXCEPT ![r] = "aux"]
             /\ starts' = [starts EXCEPT ![r] = @ + 1]
    BY <1>7, <2>2 DEF HandleError
  <2> QED
    BY <1>7, <2>1, <2>2 DEF HandleError
<1> QED
  BY <1>1, <1>2, <1>3, <1>4, <1>5, <1>6, <1>7 DEF EarlyStep

\* No auxiliary context has begun in these stages, so it does not matter
\* whether an error is set or the contexts are dropped.
LEMMA EarlyFrame ==
    ASSUME TypeOK, Progress, NEW r \in Req, EarlyStep(r)
    PROVE  /\ at[r] \in Before
           /\ UNCHANGED <<aux, queue, running>>
           /\ \A q \in Req \ {r} :
                 /\ failed'[q] = failed[q]
                 /\ starts'[q] = starts[q]
                 /\ cursor'[q] = cursor[q]
           /\ cursor'[r] \in {1, NAux + 1}
<1> USE DEF TypeOK, Before, GoTo, SetError, SetOutput, Escape, pools, response
<1>1. at[r] \in Before
  BY DEF EarlyStep, GenerateContexts, GetInObject, GetOutObject, FirstObject,
         GetOutString, StartResponse, HandleError
<1>2. UNCHANGED <<aux, queue, running>>
  BY DEF EarlyStep, GenerateContexts, GetInObject, GetOutObject, FirstObject,
         GetOutString, StartResponse, HandleError
<1>3. \A q \in Req \ {r} : /\ failed'[q] = failed[q]
                           /\ starts'[q] = starts[q]
                           /\ cursor'[q] = cursor[q]
  BY DEF EarlyStep, GenerateContexts, GetInObject, GetOutObject, FirstObject,
         GetOutString, StartResponse, HandleError
<1>4. cursor'[r] \in {cursor[r], NAux + 1}
  BY DEF EarlyStep, GenerateContexts, GetInObject, GetOutObject, FirstObject,
         GetOutString, StartResponse, HandleError
<1>5. cursor[r] \in {1, NAux + 1}
  BY <1>1 DEF Progress
<1> QED
  BY <1>1, <1>2, <1>3, <1>4, <1>5

LEMMA EarlyKeepsInv ==
    ASSUME Inv, NEW r \in Req, EarlyStep(r)
    PROVE  Inv'
<1> USE WsgiRpcAssumption
<1>1. TypeOK' /\ Progress'
  BY EarlyType, EarlyProgress DEF Inv
<1>2. /\ at[r] \in Before
      /\ UNCHANGED <<aux, queue, running>>
      /\ \A q \in Req \ {r} : /\ failed'[q] = failed[q]
                              /\ starts'[q] = starts[q]
                              /\ cursor'[q] = cursor[q]
      /\ cursor'[r] \in {1, NAux + 1}
  BY EarlyFrame DEF Inv
<1>3. \A a \in Aux : aux[r][a] = "idle"
  BY <1>2 DEF Inv, AuxGated, Progress
<1>4. AuxGated'
  BY <1>2, <1>3 DEF Inv, AuxGated
<1>5. CursorSound'
  BY <1>2, <1>3 DEF Inv, CursorSound, Skips, Aux
<1>6. AuxInOrder'
  <2> SUFFICES ASSUME NEW q \in Req, NEW b \in Aux, aux'[q][b] # "idle",
                      NEW a \in 1 .. b - 1
               PROVE  Skips(q, a)' \/ aux'[q][a] \notin {"idle", "raised"}
    BY DEF AuxInOrder
  <2>1. q # r
    BY <1>2, <1>3
  <2> QED
    BY <1>2, <2>1 DEF Inv, AuxInOrder, Skips
<1>7. PoolsFinite' /\ PoolExact'
  BY <1>2 DEF Inv, PoolsFinite, PoolExact
<1> QED
  BY <1>1, <1>4, <1>5, <1>6, <1>7 DEF Inv

LEMMA LateKeepsInv ==
    ASSUME Inv, NEW r \in Req, LateStep(r)
    PROVE  Inv'
<1> USE WsgiRpcAssumption
<1>1. UNCHANGED <<failed, starts, cursor, aux, queue, running>>
  BY DEF LateStep, Finalize, SendBody, AuxLoopEnds, response, pools
<1>2. TypeOK'
  <2>1. at' \in [Req -> Stages]
    <3>1. at \in [Req -> Stages]
      BY DEF Inv, TypeOK
    <3>2. PICK s \in {"body", "aux", "escaped", "done", "broken", "finalize"} :
              at' = [at EXCEPT ![r] = s]
      BY DEF LateStep, Finalize, SendBody, AuxLoopEnds, GoTo, Escape
    <3>3. s \in Stages
      BY DEF Stages, Over
    <3> QED
      BY <3>1, <3>2, <3>3
  <2>2. closes' = closes \/ closes' = [closes EXCEPT ![r] = @ + 1]
    BY DEF LateStep, Finalize, SendBody, AuxLoopEnds, response
  <2>3. closes' \in [Req -> Nat]
    <3>1. closes \in [Req -> Nat]
      BY DEF Inv, TypeOK
    <3> QED
      BY <2>2, <3>1
  <2>4. UNCHANGED <<status, document, string>>
    BY DEF LateStep, Finalize, SendBody, AuxLoopEnds, response
  <2> QED
    BY <1>1, <2>1, <2>3, <2>4 DEF Inv, TypeOK
<1>3. Progress'
  <2> USE DEF Inv, TypeOK, Progress, Before, GoTo, Escape
  <2>1. CASE Finalize(r)
    BY <1>1, <2>1 DEF Finalize
  <2>2. CASE SendBody(r)
    BY <1>1, <2>2 DEF SendBody, response
  <2>3. CASE AuxLoopEnds(r)
    BY <1>1, <2>3 DEF AuxLoopEnds, response
  <2> QED
    BY <2>1, <2>2, <2>3 DEF LateStep
<1>4. AuxGated' /\ CursorSound' /\ AuxInOrder'
  BY <1>1 DEF Inv, AuxGated, CursorSound, AuxInOrder, Skips
<1>5. PoolsFinite' /\ PoolExact'
  BY <1>1 DEF Inv, PoolsFinite, PoolExact
<1> QED
  BY <1>2, <1>3, <1>4, <1>5 DEF Inv

-----------------------------------------------------------------------------
(* Steps of the loop in process_contexts.                                  *)

LEMMA SkipKeepsInv ==
    ASSUME Inv, NEW r \in Req, NEW a \in Aux, SkipAux(r, a)
    PROVE  Inv'
<1> USE WsgiRpcAssumption
<1>1. /\ at[r] = "aux"
      /\ a = cursor[r]
      /\ Skips(r, a)
      /\ cursor' = [cursor EXCEPT ![r] = @ + 1]
      /\ UNCHANGED <<at, failed, starts, closes, aux, queue, running>>
  BY DEF SkipAux, InLoop, Advance, response, pools
<1>2. TypeOK'
  BY <1>1 DEF Inv, TypeOK, SkipAux, response, Aux
<1>3. Progress'
  BY <1>1 DEF Inv, TypeOK, Progress, Before
<1>4. AuxGated' /\ AuxInOrder'
  BY <1>1 DEF Inv, AuxGated, AuxInOrder, Skips
<1>5. CursorSound'
  BY <1>1 DEF Inv, TypeOK, CursorSound, Skips, Aux
<1>6. PoolsFinite' /\ PoolExact'
  BY <1>1 DEF Inv, PoolsFinite, PoolExact
<1> QED
  BY <1>2, <1>3, <1>4, <1>5, <1>6 DEF Inv

\* What the three ways to begin an auxiliary context have in common.
BeginsAux(r, a, state) ==
    /\ InLoop(r, a)
    /\ ~Skips(r, a)
    /\ SetAux(r, a, state)
    /\ \/ state \in {"closed", "failed", "queued"} /\ Advance(r)
       \/ state = "raised" /\ cursor' = [cursor EXCEPT ![r] = NAux + 1]
    /\ UNCHANGED <<at, response>>

LEMMA BeginsKeeps ==
    ASSUME Inv, NEW r \in Req, NEW a \in Aux, NEW state, BeginsAux(r, a, state)
    PROVE  Progress' /\ AuxGated' /\ CursorSound' /\ AuxInOrder'
<1> USE WsgiRpcAssumption
<1>1. /\ at[r] = "aux"
      /\ a = cursor[r]
      /\ ~Skips(r, a)
      /\ aux' = [aux EXCEPT ![r][a] = state]
      /\ state # "idle"
      /\ UNCHANGED <<at, failed, starts, closes>>
  BY DEF BeginsAux, InLoop, SetAux, response
<1>2. \/ state # "raised" /\ cursor' = [cursor EXCEPT ![r] = a + 1]
      \/ cursor' = [cursor EXCEPT ![r] = NAux + 1]
  BY <1>1 DEF BeginsAux, Advance, Inv, TypeOK
<1>3. Progress'
  BY <1>1, <1>2 DEF Inv, TypeOK, Progress, Before
<1>4. /\ \A q \in Req, b \in Aux :
            aux'[q][b] = IF q = r /\ b = a THEN state ELSE aux[q][b]
      /\ \A q \in Req, b \in Aux : Skips(q, b)' = Skips(q, b)
  BY <1>1 DEF Inv, TypeOK, Skips
<1>5. starts[r] = 1 /\ (failed[r] => a \in AuxOnError)
  BY <1>1 DEF Inv, Progress, Skips
<1>6. AuxGated'
  BY <1>1, <1>4, <1>5 DEF Inv, AuxGated
<1>7. CursorSound'
  <2> SUFFICES ASSUME NEW q \in Req, NEW b \in Aux
               PROVE  /\ b >= cursor'[q] => aux'[q][b] = "idle"
                      /\ b < cursor'[q] /\ cursor'[q] <= NAux =>
                            Skips(q, b)' \/ aux'[q][b] \notin {"idle", "raised"}
    BY DEF CursorSound
  <2>1. CASE q # r
    BY <1>2, <1>4, <2>1 DEF Inv, TypeOK, CursorSound
  <2>2. CASE q = r /\ cursor' = [cursor EXCEPT ![r] = NAux + 1]
    BY <2>2 DEF Inv, TypeOK, Aux
  <2>3. CASE q = r /\ state # "raised" /\ cursor' = [cursor EXCEPT ![r] = a + 1]
    BY <1>1, <1>4, <2>3 DEF Inv, TypeOK, CursorSound, Aux
  <2> QED
    BY <1>2, <2>1, <2>2, <2>3
<1>8. AuxInOrder'
  <2> SUFFICES ASSUME NEW q \in Req, NEW b \in Aux, aux'[q][b] # "idle",
                      NEW c \in 1 .. b - 1
               PROVE  Skips(q, c)' \/ aux'[q][c] \notin {"idle", "raised"}
    BY DEF AuxInOrder
  <2>1. c \in Aux
    BY DEF Aux
  <2>2. CASE q = r /\ b = a
    BY <1>1, <1>4, <2>1, <2>2 DEF Inv, CursorSound, Aux
  <2>3. CASE ~(q = r /\ b = a)
    <3>1. aux[q][b] # "idle"
      BY <1>4, <2>3
    <3>2. ~(q = r /\ c = a)
      BY <1>1, <3>1 DEF Inv, CursorSound, Aux
    <3> QED
      BY <1>4, <2>1, <3>1, <3>2 DEF Inv, AuxInOrder
  <2> QED
    BY <2>2, <2>3
<1> QED
  BY <1>3, <1>6, <1>7, <1>8

LEMMA SyncKeepsInv ==
    ASSUME Inv, NEW r \in Req, NEW a \in Aux, RunSyncAux(r, a) \/ RaiseSyncAux(r, a)
    PROVE  Inv'
<1> USE WsgiRpcAssumption
<1>1. PICK state \in {"closed", "failed", "raised"} : BeginsAux(r, a, state)
  BY DEF RunSyncAux, RaiseSyncAux, BeginsAux
<1>2. a \notin ThreadAux /\ UNCHANGED <<queue, running>>
  BY DEF RunSyncAux, RaiseSyncAux, pools
<1>3. aux' = [aux EXCEPT ![r][a] = state]
  BY <1>1 DEF BeginsAux, SetAux
<1>4. TypeOK'
  <2>1. cursor' \in [Req -> 1 .. NAux + 1]
    BY <1>1 DEF Inv, TypeOK, BeginsAux, InLoop, Advance, Aux
  <2>2. aux' \in [Req -> [Aux -> {"idle", "queued", "running", "closed",
                                  "failed", "raised"}]]
    BY <1>3 DEF Inv, TypeOK
  <2> QED
    BY <1>1, <1>2, <2>1, <2>2 DEF Inv, TypeOK, BeginsAux, response
<1>5. Progress' /\ AuxGated' /\ CursorSound' /\ AuxInOrder'
  BY <1>1, BeginsKeeps
<1>6. \A q \in Req, b \in ThreadAux : aux'[q][b] = aux[q][b]
  BY <1>2, <1>3 DEF Inv, TypeOK
<1>7. PoolsFinite'
  BY <1>2 DEF Inv, PoolsFinite
<1>8. PoolExact'
  <2>1. \A b \in ThreadAux : \A i \in 1 .. Len(queue[b]) : queue[b][i] \in Req
    BY DEF Inv, TypeOK
  <2>2. \A b \in ThreadAux : running[b] \subseteq Req
    BY DEF Inv, TypeOK
  <2> QED
    BY <1>2, <1>6, <2>1, <2>2 DEF Inv, PoolExact
<1> QED
  BY <1>4, <1>5, <1>7, <1>8 DEF Inv

LEMMA QueueKeepsInv ==
    ASSUME Inv, NEW r \in Req, NEW a \in Aux, QueueAux(r, a)
    PROVE  Inv'
<1> USE WsgiRpcAssumption
<1>1. BeginsAux(r, a, "queued")
  BY DEF QueueAux, BeginsAux
<1>2. /\ a \in ThreadAux
      /\ a = cursor[r]
      /\ queue' = [queue EXCEPT ![a] = Append(@, r)]
      /\ aux' = [aux EXCEPT ![r][a] = "queued"]
      /\ UNCHANGED running
  BY DEF QueueAux, InLoop, SetAux
<1>3. queue \in [ThreadAux -> Seq(Req)] /\ queue[a] \in Seq(Req)
  BY <1>2 DEF Inv, TypeOK
<1>4. /\ Append(queue[a], r) \in Seq(Req)
      /\ Len(queue[a]) \in Nat
      /\ Len(Append(queue[a], r)) = Len(queue[a]) + 1
      /\ \A i \in 1 .. Len(queue[a]) : Append(queue[a], r)[i] = queue[a][i]
      /\ Append(queue[a], r)[Len(queue[a]) + 1] = r
  BY <1>3, AddJob
<1>5. TypeOK'
  <2>1. cursor' \in [Req -> 1 .. NAux + 1]
    <3>1. cursor' = [cursor EXCEPT ![r] = @ + 1]
      BY DEF QueueAux, Advance
    <3>2. cursor[r] + 1 \in 1 .. NAux + 1
      BY <1>2 DEF Aux
    <3> QED
      BY <3>1, <3>2 DEF Inv, TypeOK
  <2>2. queue' \in [ThreadAux -> Seq(Req)]
    BY <1>2, <1>3, <1>4
  <2> QED
    BY <1>1, <1>2, <2>1, <2>2 DEF Inv, TypeOK, BeginsAux, response
<1>6. Progress' /\ AuxGated' /\ CursorSound' /\ AuxInOrder'
  BY <1>1, BeginsKeeps
<1>7. PoolsFinite'
  BY <1>2 DEF Inv, PoolsFinite
<1>8. aux[r][a] = "idle"
  BY <1>2 DEF Inv, TypeOK, CursorSound, Aux
<1>9. \A q \in Req, b \in ThreadAux :
          aux'[q][b] = IF q = r /\ b = a THEN "queued" ELSE aux[q][b]
  BY <1>2 DEF Inv, TypeOK
<1>10. PoolExact'
  <2> SUFFICES ASSUME NEW b \in ThreadAux
               PROVE  /\ Cardinality(running'[b]) <= PoolSize
                      /\ \A i, j \in 1 .. Len(queue'[b]) :
                            queue'[b][i] = queue'[b][j] => i = j
                      /\ \A i \in 1 .. Len(queue'[b]) :
                            aux'[queue'[b][i]][b] = "queued"
                      /\ \A q \in running'[b] : aux'[q][b] = "running"
    BY DEF PoolExact
  <2>1. queue[b] \in Seq(Req) /\ running[b] \subseteq Req
    BY DEF Inv, TypeOK
  <2>2. \A i \in 1 .. Len(queue[b]) : queue[b][i] \in Req
    BY <2>1
  <2>3. CASE b # a
    <3>1. queue'[b] = queue[b]
      BY <1>2, <1>3, <2>3
    <3> QED
      BY <1>2, <1>9, <2>1, <2>2, <2>3, <3>1 DEF Inv, PoolExact
  <2>4. CASE b = a
    <3>1. queue'[b] = Append(queue[a], r)
      BY <1>2, <1>3, <2>4
    <3>2. \A i \in 1 .. Len(queue[a]) : queue[a][i] # r
      BY <1>2, <1>8 DEF Inv, PoolExact
    <3>3. r \notin running[a]
      BY <1>2, <1>8 DEF Inv, PoolExact
    <3>4. ASSUME NEW i \in 1 .. Len(queue'[b])
          PROVE  aux'[queue'[b][i]][b] = "queued"
      <4>1. CASE i \in 1 .. Len(queue[a])
        <5>1. queue'[b][i] = queue[a][i]
          BY <1>4, <3>1, <4>1
        <5>2. queue[a][i] \in Req /\ aux[queue[a][i]][a] = "queued"
          BY <2>2, <2>4, <4>1 DEF Inv, PoolExact
        <5> QED
          BY <1>9, <2>4, <5>1, <5>2
      <4>2. CASE i = Len(queue[a]) + 1
        BY <1>4, <1>9, <2>4, <3>1, <4>2
      <4> QED
        BY <1>4, <3>1, <4>1, <4>2
    <3>5. ASSUME NEW i \in 1 .. Len(queue'[b]), NEW j \in 1 .. Len(queue'[b]),
                 queue'[b][i] = queue'[b][j]
          PROVE  i = j
      <4>1. CASE i \in 1 .. Len(queue[a]) /\ j \in 1 .. Len(queue[a])
        <5>1. queue[a][i] = queue[a][j]
          BY <1>4, <3>1, <3>5, <4>1
        <5> QED
          BY <1>2, <4>1, <5>1 DEF Inv, PoolExact
      <4>2. CASE i = Len(queue[a]) + 1 \/ j = Len(queue[a]) + 1
        BY <1>4, <3>1, <3>2, <3>5, <4>2
      <4> QED
        BY <1>4, <3>1, <4>1, <4>2
    <3>6. Cardinality(running'[b]) <= PoolSize
      BY <1>2 DEF Inv, PoolExact
    <3>7. \A q \in running'[b] : aux'[q][b] = "running"
      BY <1>2, <1>9, <2>1, <2>4, <3>3 DEF Inv, PoolExact
    <3> QED
      BY <3>4, <3>5, <3>6, <3>7
  <2> QED
    BY <2>3, <2>4
<1> QED
  BY <1>5, <1>6, <1>7, <1>10 DEF Inv

-----------------------------------------------------------------------------
(* Steps of the pools' threads.                                            *)

\* A job that has begun goes on: nothing but its own state changes.
LEMMA JobGoesOn ==
    ASSUME Inv, NEW r \in Req, NEW a \in Aux,
           NEW state \in {"running", "closed", "failed"},
           aux[r][a] \in {"queued", "running"},
           SetAux(r, a, state),
           UNCHANGED <<at, response, cursor>>
    PROVE  Progress' /\ AuxGated' /\ CursorSound' /\ AuxInOrder'
<1>1. UNCHANGED <<at, failed, starts, closes, cursor>>
  BY DEF response
<1>2. /\ \A q \in Req, b \in Aux :
            aux'[q][b] = IF q = r /\ b = a THEN state ELSE aux[q][b]
      /\ \A q \in Req, b \in Aux : Skips(q, b)' = Skips(q, b)
  BY <1>1 DEF Inv, TypeOK, Skips, SetAux
<1>3. \A q \in Req, b \in Aux :
          /\ aux'[q][b] = "idle" <=> aux[q][b] = "idle"
          /\ aux'[q][b] = "raised" => aux[q][b] = "raised"
  BY <1>2
<1>4. Progress'
  BY <1>1 DEF Inv, Progress
<1>5. AuxGated'
  BY <1>1, <1>3 DEF Inv, AuxGated
<1>6. CursorSound'
  BY <1>1, <1>2, <1>3 DEF Inv, CursorSound
<1>7. AuxInOrder'
  <2> SUFFICES ASSUME NEW q \in Req, NEW b \in Aux, aux'[q][b] # "idle",
                      NEW c \in 1 .. b - 1
               PROVE  Skips(q, c)' \/ aux'[q][c] \notin {"idle", "raised"}
    BY DEF AuxInOrder
  <2>1. c \in Aux
    BY WsgiRpcAssumption DEF Aux
  <2> QED
    BY <1>2, <1>3, <2>1 DEF Inv, AuxInOrder
<1> QED
  BY <1>4, <1>5, <1>6, <1>7

LEMMA TakesKeepsInv ==
    ASSUME Inv, NEW a \in ThreadAux, WorkerTakes(a)
    PROVE  Inv'
<1> USE WsgiRpcAssumption
<1> DEFINE r == Head(queue[a])
<1>1. /\ queue[a] # <<>>
      /\ Cardinality(running[a]) < PoolSize
      /\ queue' = [queue EXCEPT ![a] = Tail(@)]
      /\ running' = [running EXCEPT ![a] = @ \cup {r}]
      /\ SetAux(r, a, "running")
      /\ UNCHANGED <<at, response, cursor>>
  BY DEF WorkerTakes
<1>2. queue \in [ThreadAux -> Seq(Req)] /\ queue[a] \in Seq(Req)
  BY DEF Inv, TypeOK
<1>3. /\ Len(queue[a]) \in Nat \ {0}
      /\ r = queue[a][1]
      /\ r \in Req
      /\ Tail(queue[a]) \in Seq(Req)
      /\ Len(Tail(queue[a])) = Len(queue[a]) - 1
      /\ \A i \in 1 .. Len(Tail(queue[a])) : Tail(queue[a])[i] = queue[a][i + 1]
  BY <1>1, <1>2, TakeJob
<1> HIDE DEF r
<1>4. aux[r][a] = "queued" /\ a \in Aux
  BY <1>3 DEF Inv, PoolExact
<1>5. Progress' /\ AuxGated' /\ CursorSound' /\ AuxInOrder'
  BY <1>1, <1>3, <1>4, JobGoesOn
<1>6. TypeOK'
  <2>1. queue' \in [ThreadAux -> Seq(Req)]
    BY <1>1, <1>2, <1>3
  <2>2. running' \in [ThreadAux -> SUBSET Req]
    BY <1>1, <1>3 DEF Inv, TypeOK
  <2> QED
    BY <1>1, <1>3, <1>4, <2>1, <2>2 DEF Inv, TypeOK, response, SetAux
<1>7. IsFiniteSet(running[a]) /\ Cardinality(running[a]) \in Nat
  BY FS_CardinalityType DEF Inv, PoolsFinite
<1>8. /\ IsFiniteSet(running[a] \cup {r})
      /\ Cardinality(running[a] \cup {r}) <= Cardinality(running[a]) + 1
  <2>1. /\ IsFiniteSet(running[a] \cup {r})
        /\ Cardinality(running[a] \cup {r}) =
              IF r \in running[a] THEN Cardinality(running[a])
                                  ELSE Cardinality(running[a]) + 1
    BY <1>7, FS_AddElement, Zenon
  <2> QED
    BY <1>7, <2>1
<1>9. running \in [ThreadAux -> SUBSET Req]
  BY DEF Inv, TypeOK
<1>10. PoolsFinite'
  BY <1>1, <1>8, <1>9 DEF Inv, PoolsFinite
<1>11. \A q \in Req, b \in ThreadAux :
          aux'[q][b] = IF q = r /\ b = a THEN "running" ELSE aux[q][b]
  BY <1>1, <1>3, <1>4 DEF Inv, TypeOK, SetAux
<1>12. PoolExact'
  <2> SUFFICES ASSUME NEW b \in ThreadAux
               PROVE  /\ Cardinality(running'[b]) <= PoolSize
                      /\ \A i, j \in 1 .. Len(queue'[b]) :
                            queue'[b][i] = queue'[b][j] => i = j
                      /\ \A i \in 1 .. Len(queue'[b]) :
                            aux'[queue'[b][i]][b] = "queued"
                      /\ \A q \in running'[b] : aux'[q][b] = "running"
    BY DEF PoolExact
  <2>1. queue[b] \in Seq(Req) /\ running[b] \subseteq Req
    BY DEF Inv, TypeOK
  <2>2. \A i \in 1 .. Len(queue[b]) : queue[b][i] \in Req
    BY <2>1
  <2>3. CASE b # a
    <3>1. queue'[b] = queue[b] /\ running'[b] = running[b]
      BY <1>1, <1>2, <1>9, <2>3
    <3> QED
      BY <1>11, <2>1, <2>2, <2>3, <3>1 DEF Inv, PoolExact
  <2>4. CASE b = a
    <3>1. queue'[b] = Tail(queue[a]) /\ running'[b] = running[a] \cup {r}
      BY <1>1, <1>2, <1>9, <2>4
    <3>2. \A i \in 1 .. Len(Tail(queue[a])) :
             i + 1 \in 1 .. Len(queue[a]) /\ i + 1 # 1
      BY <1>3
    <3>3. \A i \in 1 .. Len(Tail(queue[a])) : queue[a][i + 1] # r
      BY <1>3, <3>2 DEF Inv, PoolExact
    <3>4. \A i \in 1 .. Len(queue'[b]) : aux'[queue'[b][i]][b] = "queued"
      BY <1>3, <1>11, <2>2, <2>4, <3>1, <3>2, <3>3 DEF Inv, PoolExact
    <3>5. ASSUME NEW i \in 1 .. Len(queue'[b]), NEW j \in 1 .. Len(queue'[b]),
                 queue'[b][i] = queue'[b][j]
          PROVE  i = j
      <4>1. queue[a][i + 1] = queue[a][j + 1]
        BY <1>3, <3>1, <3>5
      <4>2. i + 1 = j + 1
        BY <3>1, <3>2, <4>1 DEF Inv, PoolExact
      <4> QED
        BY <4>2
    <3>6. Cardinality(running'[b]) <= PoolSize
      <4>1. Cardinality(running[a] \cup {r}) \in Nat
        BY <1>8, FS_CardinalityType
      <4>2. Cardinality(running[a] \cup {r}) <= PoolSize
        BY <1>1, <1>7, <1>8, <4>1
      <4> QED
        BY <3>1, <4>2
    <3>7. \A q \in running'[b] : aux'[q][b] = "running"
      BY <1>3, <1>11, <2>1, <2>4, <3>1 DEF Inv, PoolExact
    <3> QED
      BY <3>4, <3>5, <3>6, <3>7
  <2> QED
    BY <2>3, <2>4
<1> QED
  BY <1>5, <1>6, <1>10, <1>12 DEF Inv

LEMMA EndsKeepsInv ==
    ASSUME Inv, NEW a \in ThreadAux, NEW r \in Req, WorkerEnds(a, r)
    PROVE  Inv'
<1> USE WsgiRpcAssumption
<1>1. /\ r \in running[a]
      /\ running' = [running EXCEPT ![a] = @ \ {r}]
      /\ UNCHANGED <<at, response, cursor, queue>>
  BY DEF WorkerEnds
<1>2. PICK state \in {"closed", "failed"} : SetAux(r, a, state)
  BY DEF WorkerEnds
<1>3. aux[r][a] = "running" /\ a \in Aux
  BY <1>1 DEF Inv, PoolExact
<1>4. Progress' /\ AuxGated' /\ CursorSound' /\ AuxInOrder'
  BY <1>1, <1>2, <1>3, JobGoesOn
<1>5. running \in [ThreadAux -> SUBSET Req]
  BY DEF Inv, TypeOK
<1>6. TypeOK'
  BY <1>1, <1>2, <1>3 DEF Inv, TypeOK, response, SetAux
<1>7. IsFiniteSet(running[a]) /\ Cardinality(running[a]) \in Nat
  BY FS_CardinalityType DEF Inv, PoolsFinite
<1>8. /\ IsFiniteSet(running[a] \ {r})
      /\ Cardinality(running[a] \ {r}) = Cardinality(running[a]) - 1
  BY <1>1, <1>7, FS_RemoveElement
<1>9. PoolsFinite'
  BY <1>1, <1>5, <1>8 DEF Inv, PoolsFinite
<1>10. \A q \in Req, b \in ThreadAux :
          aux'[q][b] = IF q = r /\ b = a THEN state ELSE aux[q][b]
  BY <1>2, <1>3 DEF Inv, TypeOK, SetAux
<1>11. PoolExact'
  <2> SUFFICES ASSUME NEW b \in ThreadAux
               PROVE  /\ Cardinality(running'[b]) <= PoolSize
                      /\ \A i \in 1 .. Len(queue[b]) :
                            aux'[queue[b][i]][b] = "queued"
                      /\ \A q \in running'[b] : aux'[q][b] = "running"
    <3>1. queue' = queue
      BY <1>1
    <3>2. \A p \in ThreadAux : \A i, j \in 1 .. Len(queue[p]) :
              queue[p][i] = queue[p][j] => i = j
      BY DEF Inv, PoolExact
    <3> QED
      BY <3>1, <3>2 DEF PoolExact
  <2>1. queue[b] \in Seq(Req) /\ running[b] \subseteq Req
    BY DEF Inv, TypeOK
  <2>2. \A i \in 1 .. Len(queue[b]) : queue[b][i] \in Req
    BY <2>1
  <2>3. \A i \in 1 .. Len(queue[b]) : aux'[queue[b][i]][b] = "queued"
    <3>1. \A i \in 1 .. Len(queue[b]) : ~(queue[b][i] = r /\ b = a)
      BY <1>3 DEF Inv, PoolExact
    <3> QED
      BY <1>10, <2>2, <3>1 DEF Inv, PoolExact
  <2>4. CASE b # a
    <3>1. running'[b] = running[b]
      BY <1>1, <1>5, <2>4
    <3> QED
      BY <1>10, <2>1, <2>3, <2>4, <3>1 DEF Inv, PoolExact
  <2>5. CASE b = a
    <3>1. running'[b] = running[a] \ {r}
      BY <1>1, <1>5, <2>5
    <3>2. Cardinality(running'[b]) <= PoolSize
      BY <1>7, <1>8, <2>5, <3>1 DEF Inv, PoolExact
    <3>3. \A q \in running'[b] : aux'[q][b] = "running"
      BY <1>10, <2>1, <2>5, <3>1 DEF Inv, PoolExact
    <3> QED
      BY <2>3, <3>2, <3>3
  <2> QED
    BY <2>4, <2>5
<1> QED
  BY <1>4, <1>6, <1>9, <1>11 DEF Inv

-----------------------------------------------------------------------------
LEMMA InvNext == Inv /\ [Next]_vars => Inv'
<1> SUFFICES ASSUME Inv, [Next]_vars PROVE Inv'
  OBVIOUS
<1>1. CASE UNCHANGED vars
  <2>1. UNCHANGED <<at, failed, status, document, string, starts, closes, cursor,
                    aux, queue, running>>
    BY <1>1 DEF vars, response, pools
  <2> QED
    BY <2>1 DEF Inv, TypeOK, Progress, AuxGated, CursorSound, AuxInOrder,
                PoolsFinite, PoolExact, Skips
<1>2. CASE \E r \in Req : RequestStep(r)
  <2> SUFFICES ASSUME NEW r \in Req, RequestStep(r) PROVE Inv'
    BY <1>2
  <2>1. CASE EarlyStep(r)
    BY <2>1, EarlyKeepsInv
  <2>2. CASE LateStep(r)
    BY <2>2, LateKeepsInv
  <2>3. CASE \E a \in Aux : \/ SkipAux(r, a)
                            \/ RunSyncAux(r, a)
                            \/ RaiseSyncAux(r, a)
                            \/ QueueAux(r, a)
    BY <2>3, SkipKeepsInv, SyncKeepsInv, QueueKeepsInv
  <2> QED
    BY <2>1, <2>2, <2>3 DEF RequestStep, EarlyStep, LateStep
<1>3. CASE \E a \in ThreadAux : PoolStep(a)
  BY <1>3, TakesKeepsInv, EndsKeepsInv DEF PoolStep
<1> QED
  BY <1>1, <1>2, <1>3 DEF Next

LEMMA InvAlways == Spec => []Inv
<1> QED
  BY InvInit, InvNext, PTL DEF Spec

\* Every variable keeps its type.
THEOREM TypeCorrect == Spec => []TypeOK
<1>1. Inv => TypeOK
  BY DEF Inv
<1> QED
  BY <1>1, InvAlways, PTL

\* One start_response and one close per response, whatever serialization,
\* error handling and the auxiliary methods do.
THEOREM ResponseOnce == Spec => []OneResponse
<1>1. ASSUME Inv, NEW r \in Req
      PROVE  /\ starts[r] \in {0, 1}
             /\ closes[r] \in {0, 1}
             /\ at[r] \in {"body", "done", "broken"} =>
                   starts[r] = 1 /\ closes[r] = 1
  <2>1. \/ at[r] \in Before
        \/ at[r] \in {"finalize", "aux", "body", "done", "broken", "escaped"}
    BY <1>1 DEF Inv, TypeOK, Before, Stages, Over
  <2> QED
    BY <1>1, <2>1 DEF Inv, Progress
<1>2. Inv => OneResponse
  BY <1>1 DEF OneResponse
<1> QED
  BY <1>2, InvAlways, PTL

\* No exception of an auxiliary method leaves the callable.  Auxiliary methods begin
\* after the headers, in order, and after an error only with process_exceptions.
THEOREM AuxContracts == Spec => []AuxContract
<1>1. Inv => AuxIsolated
  BY DEF Inv, Progress, AuxIsolated
<1>2. Inv => AuxGated /\ AuxInOrder
  BY DEF Inv
<1>3. Inv => AuxContract
  BY <1>1, <1>2 DEF AuxContract
<1> QED
  BY <1>3, InvAlways, PTL

\* The pools neither lose nor repeat a job nor exceed their size.
THEOREM PoolsExact == Spec => []PoolExact
<1>1. Inv => PoolExact
  BY DEF Inv
<1> QED
  BY <1>1, InvAlways, PTL
=============================================================================
