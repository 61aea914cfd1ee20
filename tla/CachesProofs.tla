----------------------------- MODULE CachesProofs -----------------------------
(***************************************************************************)
(* What is computed once, kept, and looked at again.                        *)
(*                                                                         *)
(* Memoize: the contract of a memoized function that threads call while its  *)
(* memo is cleared.  ComplexModel: what is memoized of a class would be found  *)
(* again, and no customization of its fields is lost.                        *)
(* WsdlDocument: WsgiApplication builds in one thread at a time, and answers *)
(* everybody with one document as long as no late store has emptied its      *)
(* cache.                                                                   *)
(***************************************************************************)
EXTENDS WsdlDocument, Memoize, ComplexModel, FiniteSetTheorems, SequenceTheorems,
        WellFoundedInduction, TLAPS

-----------------------------------------------------------------------------
(* Induction, recursion and sequences.                                      *)

\* A set of numbers has a least one.  An induction is a proof that there is no least
\* counterexample.
LEMMA Least ==
    ASSUME NEW S \in SUBSET Nat, S # {}
    PROVE  \E n \in S : \A m \in S : ~(m < n)
<1>1. PICK n \in S : \A m \in S : <<m, n>> \notin OpToRel(<, Nat)
  BY NatLessThanWellFounded, WFMin, Zenon
<1>2. \A m \in S : m < n => <<m, n>> \in OpToRel(<, Nat)
  BY Zenon DEF OpToRel
<1> QED
  BY <1>1, <1>2

\* Strong induction over the numbers up to N, with the set of those that are good.
LEMMA Induction ==
    ASSUME NEW N \in Nat, NEW Good,
           \A n \in 0 .. N : (\A k \in 0 .. n - 1 : k \in Good) => n \in Good
    PROVE  \A n \in 0 .. N : n \in Good
<1> DEFINE Bad == {n \in 0 .. N : n \notin Good}
<1> SUFFICES ASSUME Bad # {} PROVE FALSE
  OBVIOUS
<1>1. PICK n \in Bad : \A k \in Bad : ~(k < n)
  <2>1. Bad \in SUBSET Nat
    OBVIOUS
  <2> HIDE DEF Bad
  <2> QED
    BY <2>1, Least
<1>2. \A k \in 0 .. n - 1 : k \in Good
  BY <1>1
<1> QED
  BY <1>1, <1>2

\* A function is defined by recursion: its value at n is computed by step[n] from that
\* at from[n], which comes before.
Recursive(N, T, first, from, step) ==
    /\ N \in Nat /\ first \in T
    /\ from \in [1 .. N -> Nat] /\ \A n \in 1 .. N : from[n] < n
    /\ step \in [1 .. N -> [T -> T]]
Solves(g, N, T, first, from, step) ==
    /\ g \in [0 .. N -> T]
    /\ g[0] = first
    /\ \A n \in 1 .. N : g[n] = step[n][g[from[n]]]

\* Such a function exists.
LEMMA Recursion ==
    ASSUME NEW N, NEW T, NEW first, NEW from, NEW step, Recursive(N, T, first, from, step)
    PROVE  \E g : Solves(g, N, T, first, from, step)
<1> USE DEF Recursive
<1> DEFINE Upto(g, m) == /\ g \in [0 .. m -> T]
                         /\ g[0] = first
                         /\ \A n \in 1 .. m : g[n] = step[n][g[from[n]]]
           Bad == {m \in 0 .. N : ~ \E g : Upto(g, m)}
<1>1. Bad = {}
  <2> SUFFICES ASSUME Bad # {} PROVE FALSE
    OBVIOUS
  <2>1. PICK m \in Bad : \A k \in Bad : ~(k < m)
    <3>1. Bad \in SUBSET Nat
      OBVIOUS
    <3> HIDE DEF Bad
    <3> QED
      BY <3>1, Least
  <2>2. m # 0
    <3>1. Upto([n \in 0 .. 0 |-> first], 0)
      OBVIOUS
    <3> QED
      BY <3>1
  <2>3. m - 1 \in 0 .. N /\ m - 1 < m /\ m \in 1 .. N
    BY <2>2
  <2>4. PICK g : Upto(g, m - 1)
    <3>1. m - 1 \notin Bad
      BY <2>1, <2>3
    <3> QED
      BY <2>3, <3>1
  <2> DEFINE h == [n \in 0 .. m |-> IF n = m THEN step[m][g[from[m]]] ELSE g[n]]
  <2>5. \A n \in 1 .. m : from[n] \in 0 .. m - 1 /\ step[n] \in [T -> T]
    BY <2>3
  <2>6. \A n \in 0 .. m - 1 : h[n] = g[n] /\ g[n] \in T
    BY <2>3, <2>4
  <2>7. h[m] = step[m][g[from[m]]] /\ h[m] \in T
    BY <2>3, <2>4, <2>5
  <2> HIDE DEF h
  <2>8. h \in [0 .. m -> T]
    <3>1. h = [n \in 0 .. m |-> h[n]]
      BY DEF h
    <3>2. \A n \in 0 .. m : h[n] \in T
      BY <2>3, <2>6, <2>7, SMTT(30)
    <3> QED
      BY <3>1, <3>2
  <2>9. ASSUME NEW n \in 1 .. m PROVE h[n] = step[n][h[from[n]]]
    <3>1. h[from[n]] = g[from[n]]
      BY <2>5, <2>6
    <3>2. n # m => h[n] = g[n] /\ g[n] = step[n][g[from[n]]]
      BY <2>3, <2>4, <2>6
    <3> QED
      BY <2>7, <3>1, <3>2
  <2>10. h[0] = first
    BY <2>3, <2>4, <2>6
  <2>11. Upto(h, m)
    BY <2>8, <2>9, <2>10
  <2> QED
    BY <2>11
<1>2. N \in 0 .. N
  OBVIOUS
<1> QED
  BY <1>1, <1>2 DEF Solves

\* The elements of a sequence that grew.
LEMMA ToSetAppend ==
    ASSUME NEW S, NEW s \in Seq(S), NEW e \in S
    PROVE  ToSet(s \o <<e>>) = ToSet(s) \cup {e}
<1> DEFINE t == s \o <<e>>
<1>1. /\ Len(s) \in Nat /\ DOMAIN s = 1 .. Len(s)
      /\ t \in Seq(S) /\ DOMAIN t = 1 .. Len(s) + 1
      /\ \A i \in 1 .. Len(s) : t[i] = s[i]
      /\ t[Len(s) + 1] = e
  OBVIOUS
<1> HIDE DEF t
<1> QED
  BY <1>1 DEF ToSet

\* An element leaves a sequence, or comes to it, at a position.
LEMMA RemoveAtProperties ==
    ASSUME NEW S, NEW s \in Seq(S), NEW p \in 1 .. Len(s)
    PROVE  /\ RemoveAt(s, p) \in Seq(S)
           /\ Len(RemoveAt(s, p)) = Len(s) - 1
           /\ \A i \in 1 .. Len(s) - 1 : RemoveAt(s, p)[i] = IF i < p THEN s[i] ELSE s[i + 1]
<1> DEFINE a == SubSeq(s, 1, p - 1)
           b == SubSeq(s, p + 1, Len(s))
<1>1. Len(s) \in Nat /\ \A i \in 1 .. Len(s) : s[i] \in S
  OBVIOUS
<1>2. /\ a \in Seq(S) /\ Len(a) = p - 1 /\ \A i \in 1 .. p - 1 : a[i] = s[i]
  <2>1. p - 1 \in Int /\ \A i \in 1 .. p - 1 : s[i] \in S
    BY <1>1
  <2> QED
    BY <1>1, <2>1, SubSeqProperties
<1>3. /\ b \in Seq(S) /\ Len(b) = Len(s) - p
      /\ \A i \in 1 .. Len(s) - p : b[i] = s[p + i]
  <2>1. p + 1 \in Int /\ \A i \in p + 1 .. Len(s) : s[i] \in S
    BY <1>1
  <2> QED
    BY <1>1, <2>1, SubSeqProperties
<1> HIDE DEF a, b
<1>4. RemoveAt(s, p) = a \o b
  BY DEF RemoveAt, a, b
<1>5. /\ a \o b \in Seq(S) /\ Len(a \o b) = Len(s) - 1
      /\ \A i \in 1 .. Len(s) - 1 : (a \o b)[i] = IF i <= p - 1 THEN a[i] ELSE b[i - (p - 1)]
  BY <1>1, <1>2, <1>3, ConcatProperties
<1>6. ASSUME NEW i \in 1 .. Len(s) - 1
      PROVE  (a \o b)[i] = IF i < p THEN s[i] ELSE s[i + 1]
  <2>1. CASE i < p
    BY <1>2, <1>5, <2>1
  <2>2. CASE ~(i < p)
    <3>1. i - (p - 1) \in 1 .. Len(s) - p /\ p + (i - (p - 1)) = i + 1 /\ ~(i <= p - 1)
      BY <1>1, <2>2
    <3> QED
      BY <1>3, <1>5, <2>2, <3>1
  <2> QED
    BY <2>1, <2>2
<1> QED
  BY <1>4, <1>5, <1>6

LEMMA InsertAtProperties ==
    ASSUME NEW S, NEW s \in Seq(S), NEW p \in 1 .. Len(s) + 1, NEW e \in S
    PROVE  /\ InsertAt(s, p, e) \in Seq(S)
           /\ Len(InsertAt(s, p, e)) = Len(s) + 1
           /\ \A i \in 1 .. Len(s) + 1 :
                 InsertAt(s, p, e)[i] =
                    IF i < p THEN s[i] ELSE IF i = p THEN e ELSE s[i - 1]
<1> DEFINE a == SubSeq(s, 1, p - 1)
           b == SubSeq(s, p, Len(s))
           ae == a \o <<e>>
<1>1. Len(s) \in Nat /\ \A i \in 1 .. Len(s) : s[i] \in S
  OBVIOUS
<1>2. /\ a \in Seq(S) /\ Len(a) = p - 1 /\ \A i \in 1 .. p - 1 : a[i] = s[i]
  <2>1. p - 1 \in Int /\ \A i \in 1 .. p - 1 : s[i] \in S
    BY <1>1
  <2> QED
    BY <1>1, <2>1, SubSeqProperties
<1>3. /\ b \in Seq(S) /\ Len(b) = Len(s) - p + 1
      /\ \A i \in 1 .. Len(s) - p + 1 : b[i] = s[p + i - 1]
  <2>1. p \in Int /\ Len(s) \in Int /\ \A i \in p .. Len(s) : s[i] \in S
    BY <1>1
  <2>2. /\ b \in Seq(S) /\ Len(b) = IF p <= Len(s) THEN Len(s) - p + 1 ELSE 0
        /\ \A i \in 1 .. Len(s) - p + 1 : b[i] = s[p + i - 1]
    BY <2>1, SubSeqProperties
  <2> QED
    BY <1>1, <2>2
<1> HIDE DEF a, b
<1>4. /\ ae \in Seq(S) /\ Len(ae) = p /\ ae[p] = e
      /\ \A i \in 1 .. p - 1 : ae[i] = s[i]
  BY <1>2, SMTT(30)
<1> HIDE DEF ae
<1>5. InsertAt(s, p, e) = ae \o b
  BY DEF InsertAt, a, b, ae
<1>6. /\ ae \o b \in Seq(S) /\ Len(ae \o b) = Len(s) + 1
      /\ \A i \in 1 .. Len(s) + 1 : (ae \o b)[i] = IF i <= p THEN ae[i] ELSE b[i - p]
  <2>1. Len(ae) + Len(b) = Len(s) + 1
    BY <1>1, <1>3, <1>4
  <2>2. /\ ae \o b \in Seq(S) /\ Len(ae \o b) = Len(s) + 1
        /\ \A i \in 1 .. Len(ae) + Len(b) :
              (ae \o b)[i] = IF i <= Len(ae) THEN ae[i] ELSE b[i - Len(ae)]
    BY <1>3, <1>4, <2>1, ConcatProperties
  <2> QED
    BY <1>4, <2>1, <2>2
<1>7. ASSUME NEW i \in 1 .. Len(s) + 1
      PROVE  (ae \o b)[i] = IF i < p THEN s[i] ELSE IF i = p THEN e ELSE s[i - 1]
  <2>1. CASE i <= p
    BY <1>4, <1>6, <2>1
  <2>2. CASE ~(i <= p)
    <3>1. i - p \in 1 .. Len(s) - p + 1 /\ p + (i - p) - 1 = i - 1 /\ ~(i < p) /\ i # p
      BY <1>1, <2>2
    <3> QED
      BY <1>3, <1>6, <2>2, <3>1
  <2> QED
    BY <2>1, <2>2
<1> QED
  BY <1>5, <1>6, <1>7

-----------------------------------------------------------------------------
(* The memo of a function.                                                  *)

Places == {"idle", "locking", "computing", "getting", "returned"}

MemoTypes ==
    /\ source \in Nat \ {0}
    /\ pending \in BOOLEAN
    /\ memo \in Nat
    /\ holder \in SUBSET Thread
    /\ place \in [Thread -> Places]
    /\ got \in [Thread -> Nat]
    /\ stores \in Nat
    /\ cleared \in SUBSET Thread
    /\ late \in BOOLEAN

\* The thread that computes is the one that holds the lock.
Locked ==
    /\ \A t \in Thread : place[t] = "computing" <=> t \in holder
    /\ \A t, u \in holder : t = u

\* Nobody computes while there is a value, and a value was stored once.
Single ==
    /\ holder # {} => memo = NoResult
    /\ stores = IF memo = NoResult THEN 0 ELSE 1

\* What is computed is of a version the function had, which is the last one as long
\* as the memo has not been cleared since the call began.
Timely ==
    \A t \in holder : /\ got[t] # NoResult
                      /\ t \notin cleared /\ ~pending => got[t] = source

\* Who is about to fetch the value finds one, unless it was cleared.
Findable ==
    \A t \in Thread : place[t] = "getting" /\ memo = NoResult => t \in cleared

MemoInv ==
    MemoTypes /\ Locked /\ Single /\ Timely /\ Findable /\ StaleOnlyIfLate /\ NoneOnlyIfCleared

\* The invariant holds at first, and every step keeps it.
LEMMA MemoStart == MemoInit => MemoInv
<1> SUFFICES ASSUME MemoInit PROVE MemoInv
  OBVIOUS
<1> USE DEF MemoInit, NoResult
<1>1. MemoTypes
  <2>1. place \in [Thread -> Places] /\ got \in [Thread -> Nat]
    BY DEF Places
  <2>2. holder \in SUBSET Thread /\ cleared \in SUBSET Thread
    OBVIOUS
  <2>3. pending \in BOOLEAN /\ late \in BOOLEAN
    OBVIOUS
  <2>4. source \in Nat \ {0} /\ memo \in Nat /\ stores \in Nat
    OBVIOUS
  <2> QED
    BY <2>1, <2>2, <2>3, <2>4, Zenon DEF MemoTypes
<1>2. Locked
  BY DEF Locked
<1>3. Single /\ Timely
  BY DEF Single, Timely
<1>4. Findable /\ StaleOnlyIfLate /\ NoneOnlyIfCleared
  BY DEF Findable, StaleOnlyIfLate, NoneOnlyIfCleared
<1> QED
  BY <1>1, <1>2, <1>3, <1>4 DEF MemoInv

LEMMA MemoStep == MemoInv /\ [MemoNext]_memoVars => MemoInv'
<1> SUFFICES ASSUME MemoInv, [MemoNext]_memoVars
             PROVE  MemoInv'
  OBVIOUS
<1> USE DEF MemoInv, MemoTypes, Places, Locked, Single, Timely, Findable, StaleOnlyIfLate,
            NoneOnlyIfCleared, NoResult
<1>1. ASSUME NEW t \in Thread, Call(t) PROVE MemoInv'
  BY <1>1 DEF Call, Go
<1>2. ASSUME NEW t \in Thread, TakeLock(t) PROVE MemoInv'
  BY <1>2 DEF TakeLock, Go
<1>3. ASSUME NEW t \in Thread, Keep(t) PROVE MemoInv'
  <2>1. t \in holder /\ holder = {t} /\ got[t] # NoResult
    BY <1>3 DEF Keep, Go
  <2>2. MemoTypes' /\ Locked'
    BY <1>3, <2>1 DEF Keep, Go
  <2>3. Single' /\ Timely'
    BY <1>3, <2>1 DEF Keep, Go
  <2>4. Findable' /\ StaleOnlyIfLate'
    BY <1>3, <2>1 DEF Keep, Go
  <2>5. NoneOnlyIfCleared'
    BY <1>3, <2>1 DEF Keep, Go
  <2> QED
    BY <2>2, <2>3, <2>4, <2>5
<1>4. ASSUME NEW t \in Thread, GetMemo(t) PROVE MemoInv'
  BY <1>4 DEF GetMemo, Go
<1>5. ASSUME NEW t \in Thread, Return(t) PROVE MemoInv'
  BY <1>5 DEF Return, Go
<1>6. CASE Change
  BY <1>6 DEF Change
<1>7. CASE Clear
  BY <1>7 DEF Clear
<1>8. CASE UNCHANGED memoVars
  BY <1>8 DEF memoVars
<1> QED
  BY <1>1, <1>2, <1>3, <1>4, <1>5, <1>6, <1>7, <1>8 DEF MemoNext

\* Whatever threads call a memoized function while its memo is cleared, they get None
\* only from a clear, and leave an old value behind only when the memo was cleared during
\* the call that computed it.
THEOREM MemoKept == MemoSpec => []MemoContract
<1>1. MemoInv => MemoContract
  BY DEF MemoContract, MemoInv
<1> QED
  BY <1>1, MemoStart, MemoStep, PTL DEF MemoSpec

\* The lock of the code lets them compute once between two clears, though the docstring
\* of memo.py does not promise it.
THEOREM MemoOnce == MemoSpec => []ComputedOnce
<1>1. ASSUME MemoInv PROVE ComputedOnce
  <2> DEFINE busy == {t \in Thread : place[t] = "computing"}
  <2>1. CASE busy = {}
    BY <1>1, <2>1, FS_EmptySet DEF ComputedOnce, MemoInv, Single
  <2>2. CASE busy # {}
    <3>1. PICK t \in Thread : busy = {t}
      BY <1>1, <2>2 DEF MemoInv, Locked
    <3> QED
      BY <1>1, <3>1, FS_Singleton DEF ComputedOnce, MemoInv, Single
  <2> QED
    BY <2>1, <2>2
<1> QED
  BY <1>1, MemoStart, MemoStep, PTL DEF MemoSpec

-----------------------------------------------------------------------------
(* Classes and the numbers of their bases.                                  *)

FieldRec == [name : Field, cust : SUBSET Token]
Class == [orig : Nat, base : Nat, mixin : Nat, all : SUBSET Token,
          delayed : [Field -> SUBSET Token], extends : Nat, fields : Seq(FieldRec)]

Distinct(fields) ==
    /\ fields \in Seq(FieldRec)
    /\ \A i, j \in 1 .. Len(fields) : fields[i].name = fields[j].name => i = j

\* Bases and originals come before.
Ordered(cs) ==
    /\ cs \in Seq(Class)
    /\ \A c \in 1 .. Len(cs) :
          /\ cs[c].extends \in 0 .. c - 1
          /\ cs[c].orig \in 0 .. c - 1
          /\ cs[c].base \in 0 .. c - 1
          /\ cs[c].mixin \in 0 .. c - 1

\* The definition of Chain as equations.
LEMMA ChainEquations ==
    ASSUME NEW cs, Ordered(cs)
    PROVE  /\ Chain(cs, 0) = <<>>
           /\ \A n \in 1 .. Len(cs) : Chain(cs, n) = Chain(cs, cs[n].extends) \o <<n>>
<1> DEFINE N == Len(cs)
           Is(g) == g = [n \in 0 .. N |->
                            IF n = Absent THEN <<>> ELSE g[cs[n].extends] \o <<n>>]
           up == CHOOSE g : Is(g)
<1>n. N \in Nat /\ \A n \in 1 .. N : cs[n].extends \in 0 .. n - 1
  BY DEF Ordered
<1>1. \E g : Is(g)
  <2> DEFINE from == [n \in 1 .. N |-> cs[n].extends]
             step == [n \in 1 .. N |-> [s \in Seq(Nat) |-> s \o <<n>>]]
  <2>1. /\ from \in [1 .. N -> Nat] /\ \A n \in 1 .. N : from[n] < n
        /\ \A n \in 1 .. N : from[n] = cs[n].extends /\ from[n] \in 0 .. N
    BY <1>n
  <2>2. /\ step \in [1 .. N -> [Seq(Nat) -> Seq(Nat)]]
        /\ \A n \in 1 .. N, s \in Seq(Nat) : step[n][s] = s \o <<n>>
    OBVIOUS
  <2> HIDE DEF N, from, step
  <2>3. Recursive(N, Seq(Nat), <<>>, from, step)
    BY <1>n, <2>1, <2>2 DEF Recursive
  <2>4. PICK g : Solves(g, N, Seq(Nat), <<>>, from, step)
    BY <2>3, Recursion
  <2>5. \A n \in 1 .. N : g[n] = g[cs[n].extends] \o <<n>>
    BY <2>1, <2>2, <2>4, ZenonT(40) DEF Solves
  <2>6. ASSUME NEW n \in 0 .. N
        PROVE  g[n] = IF n = Absent THEN <<>> ELSE g[cs[n].extends] \o <<n>>
    <3>1. CASE n = 0
      BY <2>4, <3>1 DEF Absent, Solves
    <3>2. CASE n # 0
      <4>1. n \in 1 .. N
        BY <1>n, <3>2
      <4> QED
        BY <2>5, <3>2, <4>1 DEF Absent
    <3> QED
      BY <3>1, <3>2
  <2> QED
    BY <2>4, <2>6 DEF Solves
<1>2. Is(up)
  <2> HIDE DEF Is
  <2> QED
    BY <1>1
<1>3. \A n : Chain(cs, n) = up[n]
  BY DEF Chain
<1> HIDE DEF up, N
<1>4. \A n \in 0 .. N : up[n] = IF n = Absent THEN <<>> ELSE up[cs[n].extends] \o <<n>>
  BY <1>2
<1>5. up[0] = <<>>
  <2>1. 0 \in 0 .. N
    BY <1>n
  <2> QED
    BY <1>4, <2>1 DEF Absent
<1>6. ASSUME NEW n \in 1 .. N PROVE up[n] = up[cs[n].extends] \o <<n>>
  <2>1. n \in 0 .. N /\ n # 0
    BY <1>n
  <2> QED
    BY <1>4, <2>1 DEF Absent
<1> QED
  BY <1>3, <1>5, <1>6 DEF N

\* A class and its bases, as a set.
Line(cs, c) == ToSet(Chain(cs, c))

\* The chain of a class is made of classes.
LEMMA ChainType ==
    ASSUME NEW cs, Ordered(cs), NEW c \in 0 .. Len(cs)
    PROVE  Chain(cs, c) \in Seq(1 .. Len(cs))
<1> DEFINE N == Len(cs)
           Good == {n \in 0 .. N : Chain(cs, n) \in Seq(1 .. N)}
<1>1. N \in Nat /\ \A n \in 1 .. N : cs[n].extends \in 0 .. n - 1
  BY DEF Ordered
<1>2. ASSUME NEW n \in 0 .. N, \A k \in 0 .. n - 1 : k \in Good
      PROVE  n \in Good
  <2>1. CASE n = 0
    <3>1. Chain(cs, 0) = <<>>
      BY ChainEquations
    <3> QED
      BY <2>1, <3>1, EmptySeq
  <2>2. CASE n # 0
    <3>1. n \in 1 .. N /\ cs[n].extends \in Good
      BY <1>1, <1>2, <2>2
    <3>2. Chain(cs, n) = Chain(cs, cs[n].extends) \o <<n>>
      BY <3>1, ChainEquations
    <3> QED
      BY <3>1, <3>2, SMTT(30)
  <2> QED
    BY <2>1, <2>2
<1> HIDE DEF Good
<1>3. \A n \in 0 .. N : n \in Good
  BY <1>1, <1>2, Induction
<1> QED
  BY <1>3 DEF Good

LEMMA LineEquations ==
    ASSUME NEW cs, Ordered(cs)
    PROVE  /\ Line(cs, 0) = {}
           /\ \A n \in 1 .. Len(cs) : Line(cs, n) = Line(cs, cs[n].extends) \cup {n}
<1>1. Line(cs, 0) = {}
  BY ChainEquations DEF Line, ToSet
<1>2. ASSUME NEW n \in 1 .. Len(cs) PROVE Line(cs, n) = Line(cs, cs[n].extends) \cup {n}
  <2> DEFINE s == Chain(cs, cs[n].extends)
  <2>1. cs[n].extends \in 0 .. Len(cs)
    BY DEF Ordered
  <2>2. s \in Seq(1 .. Len(cs)) /\ Chain(cs, n) = s \o <<n>>
    BY <2>1, ChainType, ChainEquations
  <2> HIDE DEF s
  <2>3. ToSet(s \o <<n>>) = ToSet(s) \cup {n}
    BY <2>2, ToSetAppend
  <2> QED
    BY <2>2, <2>3 DEF Line, s
<1> QED
  BY <1>1, <1>2

\* A base has the bases of its class that come before it.
LEMMA LineOrder ==
    ASSUME NEW cs, Ordered(cs), NEW c \in 0 .. Len(cs)
    PROVE  /\ Line(cs, c) \subseteq 1 .. c
           /\ c # 0 => c \in Line(cs, c)
           /\ \A d \in Line(cs, c) : Line(cs, d) = {e \in Line(cs, c) : e <= d}
<1> DEFINE N == Len(cs)
           Good == {n \in 0 .. N :
                       /\ Line(cs, n) \subseteq 1 .. n
                       /\ \A d \in Line(cs, n) : Line(cs, d) = {e \in Line(cs, n) : e <= d}}
<1>1. N \in Nat /\ \A n \in 1 .. N : cs[n].extends \in 0 .. n - 1
  BY DEF Ordered
<1>2. ASSUME NEW n \in 0 .. N, \A k \in 0 .. n - 1 : k \in Good
      PROVE  n \in Good
  <2>1. CASE n = 0
    BY <2>1, LineEquations
  <2>2. CASE n # 0
    <3> DEFINE b == cs[n].extends
    <3>1. n \in 1 .. N /\ b \in 0 .. n - 1 /\ b \in Good
      BY <1>1, <1>2, <2>2
    <3>2. Line(cs, n) = Line(cs, b) \cup {n}
      BY <3>1, LineEquations
    <3>3. Line(cs, b) \subseteq 1 .. b
      BY <3>1
    <3>4. \A d \in Line(cs, b) : Line(cs, d) = {e \in Line(cs, b) : e <= d}
      BY <3>1
    <3> HIDE DEF b
    <3>5. Line(cs, n) \subseteq 1 .. n
      BY <3>1, <3>2, <3>3
    <3>6. ASSUME NEW d \in Line(cs, n) PROVE Line(cs, d) = {e \in Line(cs, n) : e <= d}
      <4>1. CASE d = n
        BY <4>1, <3>5
      <4>2. CASE d # n
        <5>1. d \in Line(cs, b) /\ ~(n <= d)
          BY <3>1, <3>2, <3>3, <4>2
        <5> QED
          BY <3>2, <3>4, <5>1
      <4> QED
        BY <4>1, <4>2
    <3> QED
      BY <3>5, <3>6
  <2> QED
    BY <2>1, <2>2
<1> HIDE DEF Good
<1>3. \A n \in 0 .. N : n \in Good
  BY <1>1, <1>2, Induction
<1>4. c # 0 => c \in Line(cs, c)
  BY LineEquations
<1> QED
  BY <1>3, <1>4 DEF Good

-----------------------------------------------------------------------------
(* Attributes, which are looked up.                                         *)

LEMMA ParentRule ==
    ASSUME NEW cs, Ordered(cs), NEW n \in 1 .. Len(cs)
    PROVE  Parent(cs, n) \in 0 .. n - 1
<1>1. cs[n].orig \in 0 .. n - 1 /\ cs[n].base \in 0 .. n - 1 /\ cs[n].mixin \in 0 .. n - 1
  BY DEF Ordered
<1>2. \/ Parent(cs, n) = cs[n].orig
      \/ Parent(cs, n) = cs[n].base
      \/ Parent(cs, n) = cs[n].mixin
  BY DEF Parent
<1> QED
  BY <1>1, <1>2

\* The definition of Lookup as equations.
LEMMA LookupEquations ==
    ASSUME NEW cs, Ordered(cs), NEW attr
    PROVE  /\ Lookup(cs, attr, 0) = 0
           /\ \A n \in 1 .. Len(cs) :
                 Lookup(cs, attr, n) = IF n \in DOMAIN attr THEN n
                                       ELSE Lookup(cs, attr, Parent(cs, n))
           /\ \A n \in 0 .. Len(cs) : /\ Lookup(cs, attr, n) \in 0 .. n
                                      /\ Lookup(cs, attr, n) \in {0} \cup DOMAIN attr
<1> DEFINE N == Len(cs)
           Is(g) == g = [n \in 0 .. N |->
                            IF n = Absent \/ n \in DOMAIN attr THEN n ELSE g[Parent(cs, n)]]
           at == CHOOSE g : Is(g)
<1>p. \A n \in 1 .. N : Parent(cs, n) \in 0 .. n - 1
  BY ParentRule
<1>n. N \in Nat /\ \A n \in 1 .. N : Parent(cs, n) \in 0 .. n - 1
  BY <1>p DEF Ordered
<1>1. \E g : Is(g)
  <2> DEFINE from == [n \in 1 .. N |-> Parent(cs, n)]
             step == [n \in 1 .. N |-> [x \in Nat |-> IF n \in DOMAIN attr THEN n ELSE x]]
  <2>1. /\ from \in [1 .. N -> Nat] /\ \A n \in 1 .. N : from[n] < n
        /\ \A n \in 1 .. N : from[n] = Parent(cs, n) /\ from[n] \in 0 .. N
    BY <1>n
  <2>2. /\ step \in [1 .. N -> [Nat -> Nat]]
        /\ \A n \in 1 .. N, x \in Nat : step[n][x] = IF n \in DOMAIN attr THEN n ELSE x
    OBVIOUS
  <2> HIDE DEF N, from, step
  <2>3. Recursive(N, Nat, 0, from, step)
    BY <1>n, <2>1, <2>2 DEF Recursive
  <2>4. PICK g : Solves(g, N, Nat, 0, from, step)
    BY <2>3, Recursion
  <2>5. ASSUME NEW n \in 1 .. N
        PROVE  g[n] = IF n \in DOMAIN attr THEN n ELSE g[Parent(cs, n)]
    <3>1. g[n] = step[n][g[from[n]]] /\ g[from[n]] \in Nat /\ from[n] = Parent(cs, n)
      BY <2>1, <2>4 DEF Solves
    <3> QED
      BY <2>2, <3>1
  <2>6. ASSUME NEW n \in 0 .. N
        PROVE  g[n] = IF n = Absent \/ n \in DOMAIN attr THEN n ELSE g[Parent(cs, n)]
    <3>1. CASE n = 0
      BY <2>4, <3>1 DEF Absent, Solves
    <3>2. CASE n # 0
      <4>1. n \in 1 .. N
        BY <1>n, <3>2
      <4> QED
        BY <2>5, <3>2, <4>1 DEF Absent
    <3> QED
      BY <3>1, <3>2
  <2> QED
    BY <2>4, <2>6 DEF Solves
<1>2. Is(at)
  <2> HIDE DEF Is
  <2> QED
    BY <1>1
<1>3. \A n : Lookup(cs, attr, n) = at[n]
  BY DEF Lookup
<1> HIDE DEF at, N
<1>4. \A n \in 0 .. N : at[n] = IF n = Absent \/ n \in DOMAIN attr THEN n ELSE at[Parent(cs, n)]
  BY <1>2
<1>5. at[0] = 0
  <2>1. 0 \in 0 .. N
    BY <1>n
  <2> QED
    BY <1>4, <2>1 DEF Absent
<1>6. ASSUME NEW n \in 1 .. N
      PROVE  at[n] = IF n \in DOMAIN attr THEN n ELSE at[Parent(cs, n)]
  <2>1. n \in 0 .. N /\ n # 0
    BY <1>n
  <2> QED
    BY <1>4, <2>1 DEF Absent
<1> DEFINE Good == {n \in 0 .. N : at[n] \in 0 .. n /\ at[n] \in {0} \cup DOMAIN attr}
<1>7. ASSUME NEW n \in 0 .. N, \A k \in 0 .. n - 1 : k \in Good
      PROVE  n \in Good
  <2>1. CASE n = 0
    BY <1>5, <2>1
  <2>2. CASE n # 0
    <3>1. n \in 1 .. N /\ Parent(cs, n) \in 0 .. n - 1
      BY <1>n, <2>2
    <3>2. /\ at[Parent(cs, n)] \in 0 .. Parent(cs, n)
          /\ at[Parent(cs, n)] \in {0} \cup DOMAIN attr
      BY <1>7, <3>1
    <3>3. at[Parent(cs, n)] \in 0 .. n
      BY <3>1, <3>2
    <3> QED
      BY <1>6, <3>1, <3>2, <3>3
  <2> QED
    BY <2>1, <2>2
<1> HIDE DEF Good
<1>8. \A n \in 0 .. N : n \in Good
  BY <1>n, <1>7, Induction
<1> QED
  BY <1>3, <1>5, <1>6, <1>8 DEF N, Good

\* The classes of cs are those of ds, as far as attributes go, and come first there.
SameParents(cs, ds) ==
    /\ Ordered(cs) /\ Ordered(ds) /\ Len(cs) <= Len(ds)
    /\ \A c \in 1 .. Len(cs) :
          ds[c].orig = cs[c].orig /\ ds[c].base = cs[c].base /\ ds[c].mixin = cs[c].mixin

\* What is found is found again, if others that have the attribute now did not find it.
LEMMA LookupStays ==
    ASSUME NEW cs, NEW ds, SameParents(cs, ds), NEW attr, NEW more,
           DOMAIN attr \subseteq DOMAIN more,
           NEW c \in 0 .. Len(cs), NEW x, Lookup(cs, attr, c) = x,
           \A n \in 1 .. Len(cs) :
              n \in DOMAIN more /\ n \notin DOMAIN attr => Lookup(cs, attr, n) # x
    PROVE  Lookup(ds, more, c) = x
<1> DEFINE N == Len(cs)
           Good == {n \in 0 .. N : Lookup(cs, attr, n) = x => Lookup(ds, more, n) = x}
<1>1. /\ Ordered(cs) /\ Ordered(ds) /\ N \in Nat /\ Len(ds) \in Nat /\ N <= Len(ds)
      /\ \A n \in 1 .. N : Parent(ds, n) = Parent(cs, n)
  BY DEF SameParents, Ordered, Parent
<1>2. ASSUME NEW n \in 0 .. N, \A k \in 0 .. n - 1 : k \in Good
      PROVE  n \in Good
  <2>1. CASE n = 0
    BY <1>1, <2>1, LookupEquations
  <2>2. CASE n # 0
    <3>1. n \in 1 .. N /\ n \in 1 .. Len(ds)
      BY <1>1, <2>2
    <3>2. Parent(cs, n) \in 0 .. n - 1
      BY <1>1, <3>1, ParentRule
    <3>3. Lookup(cs, attr, Parent(cs, n)) = x => Lookup(ds, more, Parent(cs, n)) = x
      BY <1>2, <3>2
    <3>4. Lookup(cs, attr, n) = IF n \in DOMAIN attr THEN n
                                ELSE Lookup(cs, attr, Parent(cs, n))
      BY <1>1, <3>1, LookupEquations
    <3>5. Lookup(ds, more, n) = IF n \in DOMAIN more THEN n
                                ELSE Lookup(ds, more, Parent(cs, n))
      BY <1>1, <3>1, LookupEquations
    <3> QED
      BY <3>1, <3>3, <3>4, <3>5
  <2> QED
    BY <2>1, <2>2
<1> HIDE DEF Good
<1>3. \A n \in 0 .. N : n \in Good
  BY <1>1, <1>2, Induction
<1> QED
  BY <1>3 DEF Good

\* Nothing that is found is lost, if what is there grows and others have the attribute
\* now that found nothing.
LEMMA FoundGrows ==
    ASSUME NEW cs, NEW ds, SameParents(cs, ds), NEW attr, NEW more,
           \A n \in DOMAIN attr : n \in DOMAIN more /\ attr[n] \subseteq more[n],
           \A n \in 1 .. Len(cs) :
              n \in DOMAIN more /\ n \notin DOMAIN attr => Found(cs, attr, n) = {}
    PROVE  \A c \in 0 .. Len(cs) : Found(cs, attr, c) \subseteq Found(ds, more, c)
<1> SUFFICES ASSUME NEW c \in 0 .. Len(cs), Found(cs, attr, c) # {}
             PROVE  Found(cs, attr, c) \subseteq Found(ds, more, c)
  OBVIOUS
<1> DEFINE x == Lookup(cs, attr, c)
<1>1. \A n \in 1 .. Len(cs) :
         n \in DOMAIN more /\ n \notin DOMAIN attr => Lookup(cs, attr, n) # x
  BY DEF Found
<1>2. Lookup(ds, more, c) = x
  <2> HIDE DEF x
  <2> QED
    BY <1>1, LookupStays DEF x
<1> QED
  BY <1>2 DEF Found, Own

\* What is found stays the same when classes follow.
LEMMA FoundStays ==
    ASSUME NEW cs, NEW ds, SameParents(cs, ds), NEW attr, DOMAIN attr \subseteq 1 .. Len(cs)
    PROVE  \A c \in 0 .. Len(cs) : /\ Lookup(ds, attr, c) = Lookup(cs, attr, c)
                                  /\ Found(ds, attr, c) = Found(cs, attr, c)
<1>1. \A c \in 0 .. Len(cs) : Lookup(ds, attr, c) = Lookup(cs, attr, c)
  BY LookupStays
<1> QED
  BY <1>1 DEF Found

-----------------------------------------------------------------------------
(* Fields: ordered dictionaries.                                            *)

\* A field is there when it is at a position, its own.
LEMMA HasRule ==
    ASSUME NEW fields, Distinct(fields), NEW k
    PROVE  /\ Has(fields, k) <=> \E i \in 1 .. Len(fields) : fields[i].name = k
           /\ Has(fields, k) <=> \E f \in ToSet(fields) : f.name = k
           /\ Has(fields, k) => /\ Position(fields, k) \in 1 .. Len(fields)
                                /\ fields[Position(fields, k)].name = k
<1>1. DOMAIN fields = 1 .. Len(fields)
  BY DEF Distinct
<1>2. /\ DOMAIN Names(fields) = 1 .. Len(fields)
      /\ \A i \in 1 .. Len(fields) : Names(fields)[i] = fields[i].name
  BY <1>1 DEF Names
<1>3. Has(fields, k) <=> \E i \in 1 .. Len(fields) : fields[i].name = k
  BY <1>2 DEF Has, ToSet
<1>4. Has(fields, k) => /\ Position(fields, k) \in 1 .. Len(fields)
                        /\ fields[Position(fields, k)].name = k
  BY <1>1, <1>2, <1>3 DEF Position
<1> QED
  BY <1>1, <1>3, <1>4 DEF ToSet

\* A field replaces the one of its name, in its place, or comes last.
LEMMA SetItemRule ==
    ASSUME NEW fields, Distinct(fields), NEW f \in FieldRec
    PROVE  /\ Distinct(SetItem(fields, f))
           /\ ToSet(SetItem(fields, f)) = {g \in ToSet(fields) : g.name # f.name} \cup {f}
<1> DEFINE new == SetItem(fields, f)
           p == Position(fields, f.name)
<1>1. fields \in Seq(FieldRec) /\ Len(fields) \in Nat /\ DOMAIN fields = 1 .. Len(fields)
  BY DEF Distinct
<1>2. \A i, j \in 1 .. Len(fields) : fields[i].name = fields[j].name => i = j
  BY DEF Distinct
<1>3. CASE Has(fields, f.name)
  <2>1. p \in 1 .. Len(fields) /\ fields[p].name = f.name
    BY <1>3, HasRule
  <2>2. new = [fields EXCEPT ![p] = f]
    BY <1>3 DEF SetItem
  <2> HIDE DEF p, new
  <2>3. /\ new \in Seq(FieldRec) /\ Len(new) = Len(fields) /\ DOMAIN new = 1 .. Len(fields)
        /\ \A i \in 1 .. Len(fields) : new[i] = IF i = p THEN f ELSE fields[i]
    BY <1>1, <2>1, <2>2, ExceptSeq
  <2>4. Distinct(new)
    BY <1>2, <2>1, <2>3 DEF Distinct
  <2>5. \A i \in 1 .. Len(fields) : i # p => fields[i].name # f.name
    BY <1>2, <2>1
  <2>6. ToSet(new) = {g \in ToSet(fields) : g.name # f.name} \cup {f}
    BY <1>1, <2>1, <2>3, <2>5 DEF ToSet
  <2> QED
    BY <2>4, <2>6 DEF new
<1>4. CASE ~Has(fields, f.name)
  <2>1. new = Append(fields, f)
    BY <1>4 DEF SetItem
  <2>2. \A i \in 1 .. Len(fields) : fields[i].name # f.name
    BY <1>4, HasRule
  <2> HIDE DEF new
  <2>3. /\ new \in Seq(FieldRec) /\ Len(new) = Len(fields) + 1
        /\ DOMAIN new = 1 .. Len(fields) + 1
        /\ \A i \in 1 .. Len(fields) : new[i] = fields[i]
        /\ new[Len(fields) + 1] = f
    BY <1>1, <2>1
  <2>4. Distinct(new)
    <3> SUFFICES ASSUME NEW i \in 1 .. Len(fields) + 1, NEW j \in 1 .. Len(fields) + 1,
                        new[i].name = new[j].name
                 PROVE  i = j
      BY <2>3 DEF Distinct
    <3>1. \A m \in 1 .. Len(fields) + 1 : m \in 1 .. Len(fields) \/ m = Len(fields) + 1
      BY <1>1
    <3> QED
      BY <1>2, <2>2, <2>3, <3>1
  <2>5. ToSet(new) = ToSet(fields) \cup {f}
    <3>1. 1 .. Len(fields) + 1 = (1 .. Len(fields)) \cup {Len(fields) + 1}
      BY <1>1
    <3> QED
      BY <1>1, <2>3, <3>1 DEF ToSet
  <2>6. \A g \in ToSet(fields) : g.name # f.name
    BY <1>1, <2>2 DEF ToSet
  <2> QED
    BY <2>4, <2>5, <2>6 DEF new
<1> QED
  BY <1>3, <1>4
\* A field leaves its place and comes to another.
LEMMA RemovedRule ==
    ASSUME NEW fields, Distinct(fields), NEW p \in 1 .. Len(fields)
    PROVE  /\ Distinct(RemoveAt(fields, p))
           /\ ToSet(RemoveAt(fields, p)) =
                 {g \in ToSet(fields) : g.name # fields[p].name}
<1> DEFINE new == RemoveAt(fields, p)
<1>1. /\ fields \in Seq(FieldRec) /\ Len(fields) \in Nat /\ DOMAIN fields = 1 .. Len(fields)
      /\ \A i, j \in 1 .. Len(fields) : fields[i].name = fields[j].name => i = j
  BY DEF Distinct
<1>2. /\ new \in Seq(FieldRec) /\ Len(new) = Len(fields) - 1 /\ DOMAIN new = 1 .. Len(fields) - 1
      /\ \A i \in 1 .. Len(fields) - 1 : new[i] = IF i < p THEN fields[i] ELSE fields[i + 1]
  <2>1. /\ new \in Seq(FieldRec) /\ Len(new) = Len(fields) - 1
        /\ \A i \in 1 .. Len(fields) - 1 : new[i] = IF i < p THEN fields[i] ELSE fields[i + 1]
    BY <1>1, RemoveAtProperties
  <2> QED
    BY <2>1
<1> HIDE DEF new
<1>3. Distinct(new)
  <2>1. \A i \in 1 .. Len(fields) - 1 :
           (IF i < p THEN i ELSE i + 1) \in 1 .. Len(fields)
    BY <1>1
  <2> QED
    BY <1>1, <1>2, <2>1 DEF Distinct
<1>4. ASSUME NEW g
      PROVE  g \in ToSet(new) <=> g \in ToSet(fields) /\ g.name # fields[p].name
  <2>1. ASSUME NEW i \in 1 .. Len(fields) - 1, new[i] = g
        PROVE  g \in ToSet(fields) /\ g.name # fields[p].name
    <3>1. \E j \in 1 .. Len(fields) : j # p /\ fields[j] = g
      <4>1. CASE i < p
        <5>1. i \in 1 .. Len(fields) /\ i # p
          BY <1>1, <4>1
        <5> QED
          BY <1>2, <2>1, <4>1, <5>1
      <4>2. CASE ~(i < p)
        <5>1. i + 1 \in 1 .. Len(fields) /\ i + 1 # p
          BY <1>1, <4>2
        <5> QED
          BY <1>2, <2>1, <4>2, <5>1
      <4> QED
        BY <4>1, <4>2
    <3> QED
      BY <1>1, <3>1 DEF ToSet
  <2>2. ASSUME NEW j \in 1 .. Len(fields), fields[j] = g, g.name # fields[p].name
        PROVE  g \in ToSet(new)
    <3>1. j # p
      BY <2>2
    <3>2. CASE j < p
      <4>1. j \in 1 .. Len(fields) - 1
        BY <1>1, <3>2
      <4> QED
        BY <1>2, <2>2, <3>2, <4>1 DEF ToSet
    <3>3. CASE p < j
      <4>1. j - 1 \in 1 .. Len(fields) - 1 /\ ~(j - 1 < p) /\ (j - 1) + 1 = j
        BY <1>1, <3>3
      <4> QED
        BY <1>2, <2>2, <4>1 DEF ToSet
    <3> QED
      BY <1>1, <3>1, <3>2, <3>3
  <2> QED
    BY <1>1, <1>2, <2>1, <2>2 DEF ToSet
<1> QED
  BY <1>3, <1>4 DEF new

LEMMA InsertedRule ==
    ASSUME NEW fields, Distinct(fields), NEW p \in 1 .. Len(fields) + 1, NEW f \in FieldRec,
           \A g \in ToSet(fields) : g.name # f.name
    PROVE  /\ Distinct(InsertAt(fields, p, f))
           /\ ToSet(InsertAt(fields, p, f)) = ToSet(fields) \cup {f}
<1> DEFINE new == InsertAt(fields, p, f)
           N == Len(fields)
           old == [i \in 1 .. N + 1 |-> IF i < p THEN i ELSE i - 1]
<1>1. /\ fields \in Seq(FieldRec) /\ N \in Nat /\ DOMAIN fields = 1 .. N
      /\ \A i, j \in 1 .. N : fields[i].name = fields[j].name => i = j
  BY DEF Distinct
<1>2. /\ new \in Seq(FieldRec) /\ Len(new) = N + 1 /\ DOMAIN new = 1 .. N + 1
      /\ \A i \in 1 .. N + 1 :
            new[i] = IF i < p THEN fields[i] ELSE IF i = p THEN f ELSE fields[i - 1]
  BY <1>1, InsertAtProperties, SMTT(30)
<1>3. \A i \in 1 .. N + 1 : i # p => old[i] \in 1 .. N
  BY <1>1
<1>4. \A i, j \in 1 .. N + 1 : i # p /\ j # p /\ old[i] = old[j] => i = j
  BY <1>1
<1>5. \A j \in 1 .. N : \E i \in 1 .. N + 1 : i # p /\ old[i] = j
  <2> TAKE j \in 1 .. N
  <2>1. CASE j < p
    <3>1. j \in 1 .. N + 1 /\ j # p /\ old[j] = j
      BY <1>1, <2>1
    <3> QED
      BY <3>1
  <2>2. CASE ~(j < p)
    <3>1. j + 1 \in 1 .. N + 1 /\ j + 1 # p /\ old[j + 1] = j
      BY <1>1, <2>2
    <3> QED
      BY <3>1
  <2> QED
    BY <2>1, <2>2
<1>6. \A i \in 1 .. N + 1 : i # p => new[i] = fields[old[i]]
  <2> TAKE i \in 1 .. N + 1
  <2>1. i # p /\ ~(i < p) => i - 1 = old[i]
    OBVIOUS
  <2>2. i < p => i = old[i]
    OBVIOUS
  <2> QED
    BY <1>2, <2>1, <2>2
<1>7. new[p] = f /\ \A j \in 1 .. N : fields[j].name # f.name
  BY <1>1, <1>2, SMTT(30) DEF ToSet
<1> HIDE DEF new, old, N
<1>8. Distinct(new)
  <2> SUFFICES ASSUME NEW i \in 1 .. N + 1, NEW j \in 1 .. N + 1, new[i].name = new[j].name
               PROVE  i = j
    BY <1>2 DEF Distinct
  <2>1. CASE i = p \/ j = p
    BY <1>3, <1>6, <1>7, <2>1
  <2>2. CASE i # p /\ j # p
    <3>1. old[i] = old[j]
      BY <1>1, <1>3, <1>6, <2>2
    <3> QED
      BY <1>4, <2>2, <3>1
  <2> QED
    BY <2>1, <2>2
<1>9. ToSet(new) = ToSet(fields) \cup {f}
  <2>1. \A i \in 1 .. N + 1 : new[i] \in ToSet(fields) \cup {f}
    BY <1>1, <1>3, <1>6, <1>7 DEF ToSet
  <2>2. \A j \in 1 .. N : fields[j] \in ToSet(new)
    BY <1>2, <1>5, <1>6, SMTT(30) DEF ToSet
  <2>3. p \in 1 .. N + 1
    BY DEF N
  <2> QED
    <3>1. ToSet(new) = {new[i] : i \in 1 .. N + 1}
      BY <1>2 DEF ToSet
    <3>2. ToSet(fields) = {fields[i] : i \in 1 .. N}
      BY <1>1 DEF ToSet
    <3> QED
      BY <1>7, <2>1, <2>2, <2>3, <3>1, <3>2
<1> QED
  BY <1>8, <1>9 DEF new

\* A field replaces the one of its name, and comes to the place asked for.
LEMMA InsertRule ==
    ASSUME NEW fields, Distinct(fields), NEW index \in Nat, NEW f \in FieldRec
    PROVE  /\ Distinct(Insert(fields, index, f))
           /\ ToSet(Insert(fields, index, f)) = {g \in ToSet(fields) : g.name # f.name} \cup {f}
<1> DEFINE others == IF Has(fields, f.name) THEN RemoveAt(fields, Position(fields, f.name))
                     ELSE fields
           n == IF index > Len(others) THEN Len(others) ELSE index
<1>1. Distinct(others) /\ ToSet(others) = {g \in ToSet(fields) : g.name # f.name}
  <2>1. CASE Has(fields, f.name)
    BY <2>1, HasRule, RemovedRule
  <2>2. CASE ~Has(fields, f.name)
    BY <2>2, HasRule
  <2> QED
    BY <2>1, <2>2
<1>2. Insert(fields, index, f) = InsertAt(others, n + 1, f)
  BY DEF Insert
<1> HIDE DEF others
<1>3. n + 1 \in 1 .. Len(others) + 1
  BY <1>1 DEF Distinct
<1>4. \A g \in ToSet(others) : g.name # f.name
  BY <1>1
<1> HIDE DEF n
<1> QED
  BY <1>1, <1>2, <1>3, <1>4, InsertedRule

\* Fields as a class has them, each name once.
OrderedFields == {fields \in Seq(FieldRec) : Distinct(fields)}

\* Updated with others, fields take theirs and keep the rest.
LEMMA UpdateRule ==
    ASSUME NEW fields, Distinct(fields), NEW new, Distinct(new)
    PROVE  /\ Distinct(Update(fields, new))
           /\ ToSet(Update(fields, new)) =
                 {f \in ToSet(fields) : ~Has(new, f.name)} \cup ToSet(new)
<1> DEFINE N == Len(new)
           T == OrderedFields
           Is(g) == g = [n \in 0 .. N |-> IF n = 0 THEN fields ELSE SetItem(g[n - 1], new[n])]
           set == CHOOSE g : Is(g)
<1>1. N \in Nat /\ \A n \in 1 .. N : new[n] \in FieldRec
  BY DEF Distinct
<1>2. fields \in T
  BY DEF OrderedFields, Distinct
<1>3. \A s \in T, n \in 1 .. N : SetItem(s, new[n]) \in T
  BY <1>1, SetItemRule DEF OrderedFields, Distinct
<1>4. \E g : Is(g)
  <2> DEFINE from == [n \in 1 .. N |-> n - 1]
             step == [n \in 1 .. N |-> [s \in T |-> SetItem(s, new[n])]]
  <2>1. /\ from \in [1 .. N -> Nat] /\ \A n \in 1 .. N : from[n] < n
        /\ \A n \in 1 .. N : from[n] = n - 1 /\ from[n] \in 0 .. N
    BY <1>1
  <2>2. /\ step \in [1 .. N -> [T -> T]]
        /\ \A n \in 1 .. N, s \in T : step[n][s] = SetItem(s, new[n])
    BY <1>3
  <2> HIDE DEF N, T, from, step
  <2>3. Recursive(N, T, fields, from, step)
    BY <1>1, <1>2, <2>1, <2>2 DEF Recursive
  <2>4. PICK g : Solves(g, N, T, fields, from, step)
    BY <2>3, Recursion
  <2>5. \A n \in 1 .. N : g[n] = SetItem(g[n - 1], new[n])
    BY <2>1, <2>2, <2>4 DEF Solves
  <2>6. \A n \in 0 .. N : g[n] = IF n = 0 THEN fields ELSE SetItem(g[n - 1], new[n])
    BY <1>1, <2>4, <2>5 DEF Solves
  <2> QED
    BY <2>4, <2>6 DEF Solves
<1>5. Is(set)
  <2> HIDE DEF Is
  <2> QED
    BY <1>4
<1>6. Update(fields, new) = set[N]
  BY DEF Update
<1> HIDE DEF set
<1>7. set[0] = fields /\ \A n \in 1 .. N : set[n] = SetItem(set[n - 1], new[n])
  BY <1>1, <1>5
<1> DEFINE Upto(n) == {f \in ToSet(fields) : \A i \in 1 .. n : new[i].name # f.name}
                          \cup {new[i] : i \in 1 .. n}
           Good == {n \in 0 .. N : Distinct(set[n]) /\ ToSet(set[n]) = Upto(n)}
<1>8. ASSUME NEW n \in 0 .. N, \A k \in 0 .. n - 1 : k \in Good
      PROVE  n \in Good
  <2>1. CASE n = 0
    <3>1. Upto(0) = ToSet(fields)
      OBVIOUS
    <3> QED
      BY <1>7, <2>1, <3>1
  <2>2. CASE n # 0
    <3>1. n \in 1 .. N /\ n - 1 \in 0 .. N /\ n - 1 \in Good
      BY <1>1, <1>8, <2>2
    <3>2. set[n] = SetItem(set[n - 1], new[n]) /\ new[n] \in FieldRec
      BY <1>1, <1>7, <3>1
    <3>3. Distinct(set[n - 1]) /\ ToSet(set[n - 1]) = Upto(n - 1)
      BY <3>1
    <3> HIDE DEF Upto
    <3>4. /\ Distinct(set[n])
          /\ ToSet(set[n]) = {f \in Upto(n - 1) : f.name # new[n].name} \cup {new[n]}
      BY <3>2, <3>3, SetItemRule
    <3>5. \A i \in 1 .. n - 1 : new[i].name # new[n].name
      BY <1>1, <3>1 DEF Distinct
    <3>6. 1 .. n = (1 .. n - 1) \cup {n}
      BY <1>1, <3>1
    <3>7. {f \in Upto(n - 1) : f.name # new[n].name} \cup {new[n]} = Upto(n)
      BY <3>5, <3>6 DEF Upto
    <3> QED
      BY <3>4, <3>7
  <2> QED
    BY <2>1, <2>2
<1> HIDE DEF Good, Upto
<1>9. \A n \in 0 .. N : n \in Good
  BY <1>1, <1>8, Induction
<1>10. Distinct(set[N]) /\ ToSet(set[N]) = Upto(N)
  BY <1>1, <1>9 DEF Good
<1>11. Upto(N) = {f \in ToSet(fields) : ~Has(new, f.name)} \cup ToSet(new)
  <2>1. ToSet(new) = {new[i] : i \in 1 .. N}
    BY DEF ToSet, Distinct
  <2>2. \A f : Has(new, f.name) <=> \E i \in 1 .. N : new[i].name = f.name
    BY HasRule
  <2> QED
    BY <2>1, <2>2 DEF Upto
<1> QED
  BY <1>6, <1>10, <1>11

\* With a mixin, each name is there once.
LEMMA MixedRule ==
    ASSUME NEW fields, Distinct(fields), NEW mixin, Distinct(mixin)
    PROVE  Distinct(Mixed(fields, mixin))
<1> DEFINE N == Len(mixin)
           T == OrderedFields
           Is(g) == g = [n \in 0 .. N |->
                            IF n = 0 THEN fields ELSE Insert(g[n - 1], 0, mixin[N + 1 - n])]
           put == CHOOSE g : Is(g)
<1>1. N \in Nat /\ \A n \in 1 .. N : mixin[N + 1 - n] \in FieldRec
  <2>1. N \in Nat /\ \A n \in 1 .. N : mixin[n] \in FieldRec
    BY DEF Distinct
  <2>2. \A n \in 1 .. N : N + 1 - n \in 1 .. N
    BY <2>1
  <2> QED
    BY <2>1, <2>2
<1>2. fields \in T
  BY DEF OrderedFields, Distinct
<1>3. \A s \in T, n \in 1 .. N : Insert(s, 0, mixin[N + 1 - n]) \in T
  BY <1>1, InsertRule DEF OrderedFields, Distinct
<1> DEFINE from == [n \in 1 .. N |-> n - 1]
           step == [n \in 1 .. N |-> [s \in T |-> Insert(s, 0, mixin[N + 1 - n])]]
<1>4. /\ from \in [1 .. N -> Nat] /\ \A n \in 1 .. N : from[n] < n
      /\ \A n \in 1 .. N : from[n] = n - 1 /\ from[n] \in 0 .. N
  BY <1>1
<1>5. /\ step \in [1 .. N -> [T -> T]]
      /\ \A n \in 1 .. N, s \in T : step[n][s] = Insert(s, 0, mixin[N + 1 - n])
  BY <1>3
<1>6. \E g : Is(g)
  <2> HIDE DEF N, T, from, step
  <2>1. Recursive(N, T, fields, from, step)
    BY <1>1, <1>2, <1>4, <1>5 DEF Recursive
  <2>2. PICK g : Solves(g, N, T, fields, from, step)
    BY <2>1, Recursion
  <2>3. \A n \in 1 .. N : g[n] = Insert(g[n - 1], 0, mixin[N + 1 - n])
    BY <1>4, <1>5, <2>2 DEF Solves
  <2>4. \A n \in 0 .. N : g[n] = IF n = 0 THEN fields
                                 ELSE Insert(g[n - 1], 0, mixin[N + 1 - n])
    BY <1>1, <2>2, <2>3 DEF Solves
  <2> QED
    BY <2>2, <2>4 DEF Solves
<1>7. Is(put)
  <2> HIDE DEF Is
  <2> QED
    BY <1>6
<1>8. Mixed(fields, mixin) = put[N]
  BY DEF Mixed
<1> HIDE DEF put
<1>9. put[0] = fields /\ \A n \in 1 .. N : put[n] = Insert(put[n - 1], 0, mixin[N + 1 - n])
  BY <1>1, <1>7
<1> DEFINE Good == {n \in 0 .. N : put[n] \in T}
<1>10. ASSUME NEW n \in 0 .. N, \A k \in 0 .. n - 1 : k \in Good
       PROVE  n \in Good
  <2>1. n # 0 => n \in 1 .. N /\ n - 1 \in 0 .. N /\ n - 1 \in Good
    BY <1>1, <1>10
  <2> QED
    BY <1>2, <1>3, <1>9, <2>1
<1> HIDE DEF Good
<1>11. \A n \in 0 .. N : n \in Good
  BY <1>1, <1>10, Induction
<1> QED
  BY <1>1, <1>8, <1>11 DEF Good, OrderedFields

\* Classes in order, with fields of which each name is there once.
Sound(cs) ==
    /\ Ordered(cs)
    /\ \A c \in 1 .. Len(cs) : Distinct(cs[c].fields)

\* The line of a class is made of classes that are there.
LEMMA LineWithin ==
    ASSUME NEW cs, Sound(cs), NEW c \in 0 .. Len(cs)
    PROVE  Line(cs, c) \subseteq 1 .. Len(cs) /\ Len(cs) \in Nat
<1>1. Ordered(cs) /\ Len(cs) \in Nat
  BY DEF Sound, Ordered
<1>2. Line(cs, c) \subseteq 1 .. c
  BY <1>1, LineOrder
<1> QED
  BY <1>1, <1>2

LEMMA LineFrom ==
    ASSUME NEW cs, Sound(cs), NEW c \in 1 .. Len(cs)
    PROVE  Line(cs, c) \subseteq 1 .. Len(cs) /\ Len(cs) \in Nat /\ c \in 0 .. Len(cs)
<1>1. c \in 0 .. Len(cs)
  BY DEF Sound, Ordered
<1> QED
  BY <1>1, LineWithin

\* The definition of FlatTypeInfo as equations.
LEMMA InfoEquations ==
    ASSUME NEW cs, Sound(cs)
    PROVE  /\ FlatTypeInfo(cs, 0) = <<>>
           /\ \A n \in 1 .. Len(cs) :
                 FlatTypeInfo(cs, n) = Update(FlatTypeInfo(cs, cs[n].extends), cs[n].fields)
           /\ \A n \in 0 .. Len(cs) : Distinct(FlatTypeInfo(cs, n))
<1> DEFINE N == Len(cs)
           T == OrderedFields
           Is(g) == g = [n \in 0 .. N |-> IF n = Absent THEN <<>>
                                          ELSE Update(g[cs[n].extends], cs[n].fields)]
           info == CHOOSE g : Is(g)
<1>1. N \in Nat /\ \A n \in 1 .. N : cs[n].extends \in 0 .. n - 1
  BY DEF Sound, Ordered
<1>2. <<>> \in T
  BY EmptySeq DEF OrderedFields, Distinct
<1>3. \A s \in T, n \in 1 .. N : Update(s, cs[n].fields) \in T
  BY UpdateRule DEF OrderedFields, Sound, Distinct
<1> DEFINE from == [n \in 1 .. N |-> cs[n].extends]
           step == [n \in 1 .. N |-> [s \in T |-> Update(s, cs[n].fields)]]
<1>4. /\ from \in [1 .. N -> Nat] /\ \A n \in 1 .. N : from[n] < n
      /\ \A n \in 1 .. N : from[n] = cs[n].extends /\ from[n] \in 0 .. N
  BY <1>1
<1>5. /\ step \in [1 .. N -> [T -> T]]
      /\ \A n \in 1 .. N, s \in T : step[n][s] = Update(s, cs[n].fields)
  BY <1>3
<1>6. \E g : Is(g)
  <2> HIDE DEF N, T, from, step
  <2>1. Recursive(N, T, <<>>, from, step)
    BY <1>1, <1>2, <1>4, <1>5 DEF Recursive
  <2>2. PICK g : Solves(g, N, T, <<>>, from, step)
    BY <2>1, Recursion
  <2>3. \A n \in 1 .. N : g[n] = Update(g[cs[n].extends], cs[n].fields)
    BY <1>4, <1>5, <2>2 DEF Solves
  <2>4. \A n \in 0 .. N : g[n] = IF n = Absent THEN <<>>
                                 ELSE Update(g[cs[n].extends], cs[n].fields)
    BY <1>1, <2>2, <2>3 DEF Solves, Absent
  <2> QED
    BY <2>2, <2>4 DEF Solves
<1>7. Is(info)
  <2> HIDE DEF Is
  <2> QED
    BY <1>6
<1>8. \A n : FlatTypeInfo(cs, n) = info[n]
  BY DEF FlatTypeInfo
<1> HIDE DEF info
<1>9. /\ info[0] = <<>>
      /\ \A n \in 1 .. N : info[n] = Update(info[cs[n].extends], cs[n].fields)
  BY <1>1, <1>7 DEF Absent
<1> DEFINE Good == {n \in 0 .. N : info[n] \in T}
<1>10. ASSUME NEW n \in 0 .. N, \A k \in 0 .. n - 1 : k \in Good
       PROVE  n \in Good
  <2>1. n # 0 => n \in 1 .. N /\ cs[n].extends \in Good
    BY <1>1, <1>10
  <2> QED
    BY <1>2, <1>3, <1>9, <2>1
<1> HIDE DEF Good
<1>11. \A n \in 0 .. N : n \in Good
  BY <1>1, <1>10, Induction
<1> QED
  BY <1>8, <1>9, <1>11 DEF Good, OrderedFields

\* What a class shows of the fields of its bases: of each name, the nearest one.
Nearest(cs, c, d, k) ==
    /\ d \in Line(cs, c)
    /\ \A e \in Line(cs, c) : e > d => ~Has(cs[e].fields, k)

LEMMA InfoRule ==
    ASSUME NEW cs, Sound(cs), NEW c \in 0 .. Len(cs), NEW f
    PROVE  f \in ToSet(FlatTypeInfo(cs, c)) <=>
              \E d : Nearest(cs, c, d, f.name) /\ f \in ToSet(cs[d].fields)
<1> DEFINE N == Len(cs)
           Shown(n) == \E d : Nearest(cs, n, d, f.name) /\ f \in ToSet(cs[d].fields)
           Good == {n \in 0 .. N : f \in ToSet(FlatTypeInfo(cs, n)) <=> Shown(n)}
<1>1. N \in Nat /\ \A n \in 1 .. N : cs[n].extends \in 0 .. n - 1
  BY DEF Sound, Ordered
<1>2. ASSUME NEW n \in 0 .. N, \A k \in 0 .. n - 1 : k \in Good
      PROVE  n \in Good
  <2>1. CASE n = 0
    <3>1. ToSet(FlatTypeInfo(cs, 0)) = {}
      BY InfoEquations DEF ToSet
    <3>2. Line(cs, 0) = {}
      BY LineEquations DEF Sound
    <3>3. ~Shown(0)
      BY <3>2 DEF Nearest
    <3> HIDE DEF Shown
    <3> QED
      BY <2>1, <3>1, <3>3
  <2>2. CASE n # 0
    <3> DEFINE b == cs[n].extends
    <3>1. n \in 1 .. N /\ b \in 0 .. n - 1 /\ b \in Good /\ b \in 0 .. N
      BY <1>1, <1>2, <2>2
    <3>2. Line(cs, n) = Line(cs, b) \cup {n}
      BY <3>1, LineEquations DEF Sound
    <3>3. Line(cs, b) \subseteq 1 .. b
      BY <3>1, LineOrder DEF Sound
    <3>4. FlatTypeInfo(cs, n) = Update(FlatTypeInfo(cs, b), cs[n].fields)
      BY <3>1, InfoEquations
    <3>5. Distinct(FlatTypeInfo(cs, b)) /\ Distinct(cs[n].fields)
      BY <3>1, InfoEquations DEF Sound
    <3>6. f \in ToSet(FlatTypeInfo(cs, b)) <=> Shown(b)
      BY <3>1
    <3> HIDE DEF b
    <3>7. ToSet(FlatTypeInfo(cs, n)) =
             {g \in ToSet(FlatTypeInfo(cs, b)) : ~Has(cs[n].fields, g.name)}
                \cup ToSet(cs[n].fields)
      BY <3>4, <3>5, UpdateRule
    <3>8. /\ \A d \in Line(cs, b) : d < n /\ d # n
          /\ \A d \in Line(cs, n) : ~(d > n)
      BY <3>1, <3>2, <3>3
    <3>9. Nearest(cs, n, n, f.name)
      BY <3>1, <3>2, <3>8 DEF Nearest
    <3>10. ASSUME NEW d, d # n
           PROVE  Nearest(cs, n, d, f.name) <=>
                     Nearest(cs, b, d, f.name) /\ ~Has(cs[n].fields, f.name)
      <4>1. CASE d \in Line(cs, b)
        <5>1. n > d /\ d \in Line(cs, n) /\ n \in Line(cs, n)
          BY <3>1, <3>2, <3>8, <4>1
        <5> QED
          BY <3>2, <4>1, <5>1 DEF Nearest
      <4>2. CASE d \notin Line(cs, b)
        BY <3>2, <3>10, <4>2 DEF Nearest
      <4> QED
        BY <4>1, <4>2
    <3>11. ~Nearest(cs, b, n, f.name)
      BY <3>8 DEF Nearest
    <3>12. Shown(n) <=> \/ Shown(b) /\ ~Has(cs[n].fields, f.name)
                        \/ f \in ToSet(cs[n].fields)
      BY <3>9, <3>10, <3>11
    <3> QED
      BY <3>1, <3>6, <3>7, <3>12
  <2> QED
    BY <2>1, <2>2
<1> HIDE DEF Good
<1>3. \A n \in 0 .. N : n \in Good
  BY <1>1, <1>2, Induction
<1> QED
  BY <1>3 DEF Good

\* Numbers of the bases, in the chain of a class.
LEMMA ChainOrder ==
    ASSUME NEW cs, Ordered(cs), NEW c \in 1 .. Len(cs)
    PROVE  /\ Chain(cs, c) \in Seq(1 .. Len(cs))
           /\ Len(Chain(cs, c)) \in Nat \ {0}
           /\ DOMAIN Chain(cs, c) = 1 .. Len(Chain(cs, c))
           /\ Chain(cs, c)[Len(Chain(cs, c))] = c
           /\ \A i, j \in 1 .. Len(Chain(cs, c)) : i < j => Chain(cs, c)[i] < Chain(cs, c)[j]
<1> DEFINE N == Len(cs)
           Good == {n \in 0 .. N :
                       LET s == Chain(cs, n)
                       IN  /\ \A i \in 1 .. Len(s) : s[i] <= n
                           /\ \A i, j \in 1 .. Len(s) : i < j => s[i] < s[j]}
<1>1. N \in Nat /\ \A n \in 1 .. N : cs[n].extends \in 0 .. n - 1
  BY DEF Ordered
<1>2. ASSUME NEW n \in 1 .. N
      PROVE  LET s == Chain(cs, cs[n].extends)
             IN  /\ s \in Seq(1 .. N) /\ Len(s) \in Nat
                 /\ Chain(cs, n) \in Seq(1 .. N)
                 /\ Len(Chain(cs, n)) = Len(s) + 1
                 /\ \A i \in 1 .. Len(s) : Chain(cs, n)[i] = s[i]
                 /\ Chain(cs, n)[Len(s) + 1] = n
  <2> DEFINE s == Chain(cs, cs[n].extends)
  <2>1. cs[n].extends \in 0 .. N
    BY <1>1
  <2>2. s \in Seq(1 .. N) /\ Chain(cs, n) = s \o <<n>>
    BY <2>1, ChainType, ChainEquations
  <2> HIDE DEF s
  <2>3. /\ Len(s) \in Nat /\ s \o <<n>> \in Seq(1 .. N) /\ Len(s \o <<n>>) = Len(s) + 1
        /\ \A i \in 1 .. Len(s) : (s \o <<n>>)[i] = s[i]
        /\ (s \o <<n>>)[Len(s) + 1] = n
    BY <2>2
  <2> QED
    BY <2>2, <2>3 DEF s
<1>3. ASSUME NEW n \in 0 .. N, \A k \in 0 .. n - 1 : k \in Good
      PROVE  n \in Good
  <2>1. CASE n = 0
    BY <2>1, ChainEquations
  <2>2. CASE n # 0
    <3> DEFINE b == cs[n].extends
               s == Chain(cs, b)
               t == Chain(cs, n)
    <3>1. n \in 1 .. N /\ b \in 0 .. n - 1 /\ b \in Good
      <4>1. n \in 1 .. N /\ b \in 0 .. n - 1
        BY <1>1, <2>2
      <4> HIDE DEF Good, b
      <4> QED
        BY <1>3, <4>1
    <3>2. /\ s \in Seq(1 .. N) /\ Len(s) \in Nat
          /\ Len(t) = Len(s) + 1
          /\ \A i \in 1 .. Len(s) : t[i] = s[i]
          /\ t[Len(s) + 1] = n
      BY <1>2, <3>1
    <3>3. /\ \A i \in 1 .. Len(s) : s[i] <= b
          /\ \A i, j \in 1 .. Len(s) : i < j => s[i] < s[j]
      BY <3>1
    <3> HIDE DEF s, t, b
    <3>4. \A i \in 1 .. Len(s) : t[i] < n /\ s[i] \in 1 .. N
      BY <3>1, <3>2, <3>3
    <3>5. \A i \in 1 .. Len(t) : i \in 1 .. Len(s) \/ i = Len(s) + 1
      BY <3>2
    <3>6. \A i \in 1 .. Len(t) : t[i] <= n
      BY <3>1, <3>2, <3>4, <3>5, SMTT(30)
    <3>7. \A i, j \in 1 .. Len(t) : i < j => t[i] < t[j]
      <4> TAKE i, j \in 1 .. Len(t)
      <4>1. CASE j \in 1 .. Len(s)
        <5>1. i < j => i \in 1 .. Len(s)
          BY <3>2, <4>1
        <5> QED
          BY <3>2, <3>3, <4>1, <5>1
      <4>2. CASE j = Len(s) + 1
        <5>1. i < j => i \in 1 .. Len(s)
          BY <3>2, <4>2
        <5> QED
          BY <3>2, <3>4, <4>2, <5>1
      <4> QED
        BY <3>5, <4>1, <4>2
    <3> QED
      BY <3>1, <3>6, <3>7 DEF t
  <2> QED
    BY <2>1, <2>2
<1> HIDE DEF Good
<1>4. \A n \in 0 .. N : n \in Good
  BY <1>1, <1>3, Induction
<1>5. \A i, j \in 1 .. Len(Chain(cs, c)) : i < j => Chain(cs, c)[i] < Chain(cs, c)[j]
  BY <1>4 DEF Good
<1> QED
  BY <1>2, <1>5

\* The chain of a class, and what it shows, is that of its bases, whatever classes follow.
LEMMA SameChain ==
    ASSUME NEW cs, Ordered(cs), NEW ds, Ordered(ds), Len(cs) <= Len(ds),
           \A c \in 1 .. Len(cs) : ds[c].extends = cs[c].extends
    PROVE  \A c \in 0 .. Len(cs) : Chain(ds, c) = Chain(cs, c)
<1> DEFINE N == Len(cs)
           Good == {n \in 0 .. N : Chain(ds, n) = Chain(cs, n)}
<1>1. N \in Nat /\ (\A n \in 1 .. N : cs[n].extends \in 0 .. n - 1) /\ Len(ds) \in Nat
  BY DEF Ordered
<1>2. ASSUME NEW n \in 0 .. N, \A k \in 0 .. n - 1 : k \in Good
      PROVE  n \in Good
  <2>1. CASE n = 0
    BY <2>1, ChainEquations
  <2>2. CASE n # 0
    <3>1. n \in 1 .. N /\ n \in 1 .. Len(ds) /\ cs[n].extends \in Good
      BY <1>1, <1>2, <2>2
    <3>2. /\ Chain(cs, n) = Chain(cs, cs[n].extends) \o <<n>>
          /\ Chain(ds, n) = Chain(ds, ds[n].extends) \o <<n>>
      BY <3>1, ChainEquations
    <3> QED
      BY <3>1, <3>2
  <2> QED
    BY <2>1, <2>2
<1> HIDE DEF Good
<1>3. \A n \in 0 .. N : n \in Good
  BY <1>1, <1>2, Induction
<1> QED
  BY <1>3 DEF Good

LEMMA SameInfo ==
    ASSUME NEW cs, Sound(cs), NEW ds, Sound(ds), Len(cs) <= Len(ds),
           \A c \in 1 .. Len(cs) : /\ ds[c].extends = cs[c].extends
                                   /\ ds[c].fields = cs[c].fields
    PROVE  \A c \in 0 .. Len(cs) : FlatTypeInfo(ds, c) = FlatTypeInfo(cs, c)
<1> DEFINE N == Len(cs)
           Good == {n \in 0 .. N : FlatTypeInfo(ds, n) = FlatTypeInfo(cs, n)}
<1>1. N \in Nat /\ (\A n \in 1 .. N : cs[n].extends \in 0 .. n - 1) /\ Len(ds) \in Nat
  BY DEF Sound, Ordered
<1>2. ASSUME NEW n \in 0 .. N, \A k \in 0 .. n - 1 : k \in Good
      PROVE  n \in Good
  <2>1. CASE n = 0
    BY <2>1, InfoEquations
  <2>2. CASE n # 0
    <3>1. n \in 1 .. N /\ n \in 1 .. Len(ds) /\ cs[n].extends \in Good
      BY <1>1, <1>2, <2>2
    <3>2. /\ FlatTypeInfo(cs, n) = Update(FlatTypeInfo(cs, cs[n].extends), cs[n].fields)
          /\ FlatTypeInfo(ds, n) = Update(FlatTypeInfo(ds, ds[n].extends), ds[n].fields)
      BY <3>1, InfoEquations
    <3> QED
      BY <3>1, <3>2
  <2> QED
    BY <2>1, <2>2
<1> HIDE DEF Good
<1>3. \A n \in 0 .. N : n \in Good
  BY <1>1, <1>2, Induction
<1> QED
  BY <1>3 DEF Good

\* An original is no variant itself.
OwnOriginals(cs) == \A c \in 1 .. Len(cs) : cs[c].orig # Absent => cs[cs[c].orig].orig = Absent

LEMMA RootRule ==
    ASSUME NEW cs, Ordered(cs), OwnOriginals(cs), NEW c \in 1 .. Len(cs)
    PROVE  /\ Root(cs, c) \in 1 .. c
           /\ cs[Root(cs, c)].orig = Absent
<1>1. cs[c].orig \in 0 .. c - 1 /\ c \in Nat /\ Len(cs) \in Nat
  BY DEF Ordered
<1> QED
  BY <1>1 DEF OwnOriginals, Root, Absent

\* What variants extend: only what extended nothing extends something else.
LEMMA RebaseRule ==
    ASSUME NEW cs, Sound(cs), OwnOriginals(cs)
    PROVE  LET rs == Rebase(cs)
           IN  /\ Sound(rs) /\ OwnOriginals(rs) /\ Len(rs) = Len(cs)
               /\ \A c \in 1 .. Len(cs) :
                     /\ rs[c].orig = cs[c].orig /\ rs[c].base = cs[c].base
                     /\ rs[c].mixin = cs[c].mixin /\ rs[c].all = cs[c].all
                     /\ rs[c].delayed = cs[c].delayed /\ rs[c].fields = cs[c].fields
                     /\ cs[c].extends # Absent => rs[c].extends = cs[c].extends
<1> DEFINE rs == Rebase(cs)
           up(c) == IF cs[c].extends # Absent \/ cs[c].base = Absent THEN cs[c].extends
                    ELSE IF cs[cs[c].base].fields = <<>> THEN Absent ELSE cs[c].base
<1>1. Ordered(cs) /\ cs \in Seq(Class) /\ Len(cs) \in Nat /\ DOMAIN cs = 1 .. Len(cs)
  BY DEF Sound, Ordered
<1>2. rs = [c \in 1 .. Len(cs) |-> [cs[c] EXCEPT !.extends = up(c)]]
  BY <1>1 DEF Rebase
<1>3. ASSUME NEW c \in 1 .. Len(cs)
      PROVE  up(c) \in 0 .. c - 1 /\ up(c) \in Nat
  BY <1>1 DEF Ordered, Absent
<1>4. \A c \in 1 .. Len(cs) : cs[c].extends # Absent => up(c) = cs[c].extends
  OBVIOUS
<1> HIDE DEF up, rs
<1>5. ASSUME NEW c \in 1 .. Len(cs)
      PROVE  /\ rs[c] \in Class
             /\ rs[c].orig = cs[c].orig /\ rs[c].base = cs[c].base
             /\ rs[c].mixin = cs[c].mixin /\ rs[c].all = cs[c].all
             /\ rs[c].delayed = cs[c].delayed /\ rs[c].fields = cs[c].fields
             /\ rs[c].extends = up(c)
  <2>1. cs[c] \in Class /\ up(c) \in Nat
    BY <1>1, <1>3
  <2>2. rs[c] = [cs[c] EXCEPT !.extends = up(c)]
    BY <1>2
  <2> QED
    BY <2>1, <2>2 DEF Class
<1>6. rs \in Seq(Class) /\ Len(rs) = Len(cs)
  <2>1. rs \in [1 .. Len(cs) -> Class]
    BY <1>2, <1>5
  <2> QED
    BY <1>1, <2>1
<1>7. Ordered(rs)
  <2>1. \A c \in 1 .. Len(cs) : /\ cs[c].orig \in 0 .. c - 1 /\ cs[c].base \in 0 .. c - 1
                               /\ cs[c].mixin \in 0 .. c - 1
    BY <1>1 DEF Ordered
  <2> QED
    BY <1>3, <1>5, <1>6, <2>1 DEF Ordered
<1>8. Sound(rs)
  BY <1>5, <1>6, <1>7 DEF Sound
<1>9. OwnOriginals(rs)
  <2> SUFFICES ASSUME NEW c \in 1 .. Len(cs), cs[c].orig # Absent
               PROVE  rs[cs[c].orig].orig = Absent
    BY <1>5, <1>6 DEF OwnOriginals
  <2>1. cs[c].orig \in 0 .. c - 1
    BY <1>1 DEF Ordered
  <2>2. cs[c].orig \in 1 .. Len(cs)
    BY <1>1, <2>1 DEF Absent
  <2> QED
    BY <1>5, <2>2 DEF OwnOriginals
<1> QED
  BY <1>4, <1>5, <1>6, <1>8, <1>9 DEF rs

\* A copy of each class of the line, as it was made, behind the classes.
Copied(cs, c, made, ds) ==
    LET chain == Chain(cs, c)
        L == Len(cs)
    IN  /\ Sound(ds)
        /\ Len(ds) = L + Len(chain)
        /\ \A i \in 1 .. Len(chain) :
              /\ ds[L + i].all = made[chain[i]].all
              /\ ds[L + i].delayed = made[chain[i]].delayed
              /\ ds[L + i].fields = made[chain[i]].fields
              /\ ds[L + i].orig = Root(cs, chain[i])
              /\ ds[L + i].extends = IF i = 1 THEN Absent ELSE L + i - 1

\* What making the variants of a line leaves: the classes os that were there, and the
\* copies.
Varied(os, cs, c, made, ds) ==
    /\ Copied(cs, c, made, ds) /\ OwnOriginals(ds)
    /\ \A d \in 1 .. Len(cs) : ds[d] = os[d]

\* The classes stay sound when variants of sound makings are added.
LEMMA WithVariantsRule ==
    ASSUME NEW cs, Sound(cs), OwnOriginals(cs), NEW c \in 1 .. Len(cs), NEW made,
           \A d \in Line(cs, c) : /\ made[d] \in Class /\ Distinct(made[d].fields)
                                 /\ made[d].base = cs[d].base /\ made[d].mixin = cs[d].mixin,
           NEW os, Sound(os), OwnOriginals(os), Len(os) = Len(cs),
           \A d \in 1 .. Len(cs) : os[d].orig = cs[d].orig
    PROVE  Varied(os, cs, c, made, os \o WithVariants(cs, c, made))
<1> DEFINE ds == os \o WithVariants(cs, c, made)
           chain == Chain(cs, c)
           L == Len(cs)
           m == Len(chain)
           new == [i \in DOMAIN chain |->
                     [made[chain[i]] EXCEPT
                        !.orig = Root(cs, chain[i]),
                        !.extends = IF i = 1 THEN Absent ELSE L + i - 1]]
<1>0. Ordered(cs) /\ Ordered(os)
  BY DEF Sound
<1>1. /\ L \in Nat /\ m \in Nat /\ DOMAIN chain = 1 .. m /\ chain \in Seq(1 .. L)
      /\ os \in Seq(Class)
  <2>1. os \in Seq(Class) /\ L \in Nat
    BY <1>0 DEF Ordered
  <2>2. chain \in Seq(1 .. L) /\ m \in Nat \ {0} /\ DOMAIN chain = 1 .. m
    BY <1>0, ChainOrder
  <2> QED
    BY <2>1, <2>2
<1>2. ASSUME NEW i \in 1 .. m
      PROVE  /\ chain[i] \in 1 .. L /\ chain[i] \in Line(cs, c)
             /\ made[chain[i]] \in Class /\ Distinct(made[chain[i]].fields)
             /\ made[chain[i]].base \in 0 .. L
             /\ made[chain[i]].mixin \in 0 .. L
             /\ Root(cs, chain[i]) \in 1 .. L
             /\ os[Root(cs, chain[i])].orig = Absent
  <2>1. chain[i] \in 1 .. L /\ chain[i] \in Line(cs, c)
    BY <1>1, SMTT(30) DEF Line, ToSet
  <2>2. Root(cs, chain[i]) \in 1 .. chain[i] /\ cs[Root(cs, chain[i])].orig = Absent
    <3> DEFINE x == chain[i]
    <3>1. x \in 1 .. Len(cs)
      BY <2>1
    <3> HIDE DEF x
    <3>2. Root(cs, x) \in 1 .. x /\ cs[Root(cs, x)].orig = Absent
      BY <1>0, <3>1, RootRule
    <3> QED
      BY <3>2 DEF x
  <2>3. Root(cs, chain[i]) \in 1 .. L
    <3> DEFINE x == chain[i]
               r == Root(cs, x)
    <3>1. L \in Nat /\ x \in 1 .. L /\ r \in 1 .. x
      BY <1>1, <2>1, <2>2
    <3> HIDE DEF x, r, L
    <3>2. r \in 1 .. L
      BY <3>1
    <3> QED
      BY <3>2 DEF r, x
  <2>4. /\ cs[chain[i]].base \in 0 .. chain[i] - 1
        /\ cs[chain[i]].mixin \in 0 .. chain[i] - 1
    BY <1>0, <2>1 DEF Ordered
  <2>5. cs[chain[i]].base \in 0 .. L /\ cs[chain[i]].mixin \in 0 .. L
    BY <1>1, <2>1, <2>4
  <2> QED
    BY <2>1, <2>2, <2>3, <2>5
<1> HIDE DEF chain, m
<1>3. ASSUME NEW i \in 1 .. m
      PROVE  /\ new[i] \in Class
             /\ new[i].all = made[chain[i]].all
             /\ new[i].delayed = made[chain[i]].delayed
             /\ new[i].fields = made[chain[i]].fields
             /\ new[i].orig = Root(cs, chain[i])
             /\ new[i].extends = IF i = 1 THEN Absent ELSE L + i - 1
             /\ new[i].base = made[chain[i]].base
             /\ new[i].mixin = made[chain[i]].mixin
  <2> DEFINE r == Root(cs, chain[i])
             e == IF i = 1 THEN Absent ELSE L + i - 1
  <2>1. r \in Nat /\ e \in Nat /\ made[chain[i]] \in Class
    <3>1. e \in Nat
      BY <1>1 DEF Absent
    <3>2. r \in Nat
      BY <1>1, <1>2
    <3> QED
      BY <1>2, <3>1, <3>2
  <2>2. new[i] = [made[chain[i]] EXCEPT !.orig = r, !.extends = e]
    BY <1>1
  <2> HIDE DEF new, r, e
  <2>3. /\ new[i] \in Class
        /\ new[i].all = made[chain[i]].all
        /\ new[i].delayed = made[chain[i]].delayed
        /\ new[i].fields = made[chain[i]].fields
        /\ new[i].orig = r
        /\ new[i].extends = e
        /\ new[i].base = made[chain[i]].base
        /\ new[i].mixin = made[chain[i]].mixin
    BY <2>1, <2>2 DEF Class
  <2> QED
    BY <2>3 DEF r, e
<1>4. DOMAIN new = 1 .. m
  BY <1>1
<1>5. ds = os \o new
  BY DEF WithVariants, chain
<1> HIDE DEF new, ds
<1>6. /\ ds \in Seq(Class) /\ Len(ds) = L + m
      /\ \A d \in 1 .. L : ds[d] = os[d]
      /\ \A i \in 1 .. m : ds[L + i] = new[i]
  <2>1. new \in Seq(Class) /\ Len(new) = m
    <3>1. new = [i \in 1 .. m |-> new[i]]
      BY <1>4 DEF new
    <3>2. new \in [1 .. m -> Class]
      BY <1>3, <3>1
    <3> QED
      BY <1>1, <3>2
  <2>2. /\ os \o new \in Seq(Class) /\ Len(os \o new) = L + m
        /\ \A d \in 1 .. L + m : (os \o new)[d] = IF d <= L THEN os[d] ELSE new[d - L]
    <3>1. Len(os) = L
      OBVIOUS
    <3> HIDE DEF L
    <3>2. /\ os \o new \in Seq(Class) /\ Len(os \o new) = Len(os) + Len(new)
          /\ \A d \in 1 .. Len(os) + Len(new) :
                (os \o new)[d] = IF d <= Len(os) THEN os[d] ELSE new[d - Len(os)]
      <4>1. os \in Seq(Class) /\ new \in Seq(Class)
        BY <1>1, <2>1
      <4> QED
        BY ONLY <4>1, ConcatProperties
    <3>3. Len(new) = m
      BY <2>1
    <3> QED
      BY ONLY <3>1, <3>2, <3>3
  <2>3. \A i \in 1 .. m : L + i \in 1 .. L + m /\ ~(L + i <= L) /\ (L + i) - L = i
    BY <1>1
  <2>4. \A d \in 1 .. L : d \in 1 .. L + m /\ d <= L
    BY <1>1
  <2> QED
    BY <1>5, <2>2, <2>3, <2>4
<1>7. \A d \in 1 .. L + m : d \in 1 .. L \/ \E i \in 1 .. m : d = L + i
  <2> TAKE d \in 1 .. L + m
  <2>1. CASE d <= L
    BY <1>1, <2>1
  <2>2. CASE ~(d <= L)
    <3>1. d - L \in 1 .. m /\ d = L + (d - L)
      BY <1>1, <2>2
    <3> QED
      BY <3>1
  <2> QED
    BY <2>1, <2>2
<1>8. ASSUME NEW i \in 1 .. m
      PROVE  /\ ds[L + i].extends \in 0 .. L + i - 1
             /\ ds[L + i].orig \in 1 .. L
             /\ ds[L + i].orig \in 0 .. L + i - 1
             /\ ds[L + i].base \in 0 .. L + i - 1
             /\ ds[L + i].mixin \in 0 .. L + i - 1
             /\ os[ds[L + i].orig].orig = Absent
             /\ Distinct(ds[L + i].fields)
  <2>1. ds[L + i] = new[i]
    BY <1>6
  <2>2. ds[L + i].extends \in 0 .. L + i - 1
    <3>1. i = 1 \/ L + i - 1 \in 0 .. L + i - 1
      BY <1>1
    <3>2. 0 \in 0 .. L + i - 1
      BY <1>1
    <3> QED
      BY <1>3, <2>1, <3>1, <3>2 DEF Absent
  <2>3. ds[L + i].orig \in 1 .. L /\ os[ds[L + i].orig].orig = Absent
    BY <1>2, <1>3, <2>1
  <2>4. 0 .. L \subseteq 0 .. L + i - 1 /\ 1 .. L \subseteq 0 .. L + i - 1
    BY <1>1
  <2> QED
    BY <1>2, <1>3, <2>1, <2>2, <2>3, <2>4
<1>9. Ordered(ds)
  <2>1. ASSUME NEW d \in 1 .. L + m
        PROVE  /\ ds[d].extends \in 0 .. d - 1 /\ ds[d].orig \in 0 .. d - 1
               /\ ds[d].base \in 0 .. d - 1 /\ ds[d].mixin \in 0 .. d - 1
    <3>1. CASE d \in 1 .. L
      BY <1>0, <1>6, <3>1 DEF Ordered
    <3>2. CASE d \notin 1 .. L
      <4>1. PICK i \in 1 .. m : d = L + i
        BY <1>7, <3>2
      <4> QED
        BY <1>8, <4>1
    <3> QED
      BY <3>1, <3>2
  <2> QED
    BY <1>6, <2>1 DEF Ordered
<1>10. Sound(ds)
  <2>1. ASSUME NEW d \in 1 .. L + m
        PROVE  Distinct(ds[d].fields)
    BY <1>6, <1>7, <1>8 DEF Sound
  <2> QED
    BY <1>6, <1>9, <2>1 DEF Sound
<1>11. OwnOriginals(ds)
  <2> SUFFICES ASSUME NEW d \in 1 .. L + m, ds[d].orig # Absent
               PROVE  ds[ds[d].orig].orig = Absent
    BY <1>6 DEF OwnOriginals
  <2>1. CASE d \in 1 .. L
    <3>1. os[d].orig \in 1 .. L /\ ds[d] = os[d]
      <4>1. ds[d] = os[d] /\ os[d].orig \in 0 .. d - 1
        BY <1>0, <1>6, <2>1 DEF Ordered
      <4>2. os[d].orig # 0
        BY <4>1 DEF Absent
      <4> QED
        BY <1>1, <2>1, <4>1, <4>2
    <3> QED
      BY <1>6, <2>1, <3>1 DEF OwnOriginals
  <2>2. CASE d \notin 1 .. L
    <3>1. PICK i \in 1 .. m : d = L + i
      BY <1>7, <2>2
    <3>2. ds[d].orig \in 1 .. L /\ os[ds[d].orig].orig = Absent
      BY <1>8, <3>1
    <3> QED
      BY <1>6, <3>2
  <2> QED
    BY <2>1, <2>2
<1>12. ASSUME NEW i \in 1 .. m
       PROVE  /\ ds[L + i].all = made[chain[i]].all
              /\ ds[L + i].delayed = made[chain[i]].delayed
              /\ ds[L + i].fields = made[chain[i]].fields
              /\ ds[L + i].orig = Root(cs, chain[i])
              /\ ds[L + i].extends = IF i = 1 THEN Absent ELSE L + i - 1
  <2>1. ds[L + i] = new[i]
    BY <1>6
  <2> QED
    BY <1>3, <2>1
<1> QED
  BY <1>6, <1>10, <1>11, <1>12 DEF chain, m, ds, Varied, Copied

\* The bases of a variant are the variants made with it, before it.
LEMMA VariantLine ==
    ASSUME NEW ds, Ordered(ds), NEW L \in Nat, NEW m \in Nat, Len(ds) = L + m,
           \A i \in 1 .. m : ds[L + i].extends = IF i = 1 THEN Absent ELSE L + i - 1
    PROVE  \A i \in 1 .. m : Line(ds, L + i) = L + 1 .. L + i
<1> DEFINE Good == {i \in 0 .. m : i # 0 => Line(ds, L + i) = L + 1 .. L + i}
<1>1. ASSUME NEW i \in 0 .. m, \A k \in 0 .. i - 1 : k \in Good
      PROVE  i \in Good
  <2>1. CASE i = 0
    BY <2>1
  <2>2. CASE i = 1
    <3>1. L + 1 \in 1 .. Len(ds) /\ ds[L + 1].extends = 0
      BY <2>2 DEF Absent
    <3>2. Line(ds, L + 1) = Line(ds, 0) \cup {L + 1} /\ Line(ds, 0) = {}
      BY <3>1, LineEquations
    <3>3. L + 1 .. L + 1 = {L + 1}
      OBVIOUS
    <3> QED
      BY <2>2, <3>2, <3>3
  <2>3. CASE i # 0 /\ i # 1
    <3>1. /\ L + i \in 1 .. Len(ds) /\ ds[L + i].extends = L + i - 1
          /\ i - 1 \in 0 .. i - 1 /\ i - 1 # 0 /\ L + (i - 1) = L + i - 1
      BY <2>3
    <3>2. Line(ds, L + i) = Line(ds, L + i - 1) \cup {L + i}
      BY <3>1, LineEquations
    <3>3. i - 1 \in Good
      BY <1>1, <3>1
    <3>4. Line(ds, L + i - 1) = L + 1 .. L + i - 1
      BY <3>1, <3>3
    <3>5. L + 1 .. L + i = (L + 1 .. L + i - 1) \cup {L + i}
      BY <2>3
    <3> QED
      BY <3>2, <3>4, <3>5
  <2> QED
    BY <2>1, <2>2, <2>3
<1> HIDE DEF Good
<1>2. \A i \in 0 .. m : i \in Good
  BY <1>1, Induction
<1> QED
  BY <1>2 DEF Good

\* The line of a class is the same if its classes extend the same.
LEMMA SameLine ==
    ASSUME NEW cs, Ordered(cs), NEW rs, Ordered(rs), Len(rs) = Len(cs), NEW c \in 0 .. Len(cs),
           \A d \in Line(rs, c) : rs[d].extends = cs[d].extends
    PROVE  Line(cs, c) = Line(rs, c)
<1> DEFINE N == Len(cs)
           Good == {n \in 0 .. N :
                       (\A d \in Line(rs, n) : rs[d].extends = cs[d].extends)
                          => Line(cs, n) = Line(rs, n)}
<1>1. N \in Nat /\ \A n \in 1 .. N : rs[n].extends \in 0 .. n - 1
  BY DEF Ordered
<1>2. ASSUME NEW n \in 0 .. N, \A k \in 0 .. n - 1 : k \in Good
      PROVE  n \in Good
  <2>1. CASE n = 0
    BY <2>1, LineEquations
  <2>2. CASE n # 0
    <3>1. n \in 1 .. N /\ rs[n].extends \in Good
      BY <1>1, <1>2, <2>2
    <3>2. /\ Line(cs, n) = Line(cs, cs[n].extends) \cup {n}
          /\ Line(rs, n) = Line(rs, rs[n].extends) \cup {n}
      BY <3>1, LineEquations
    <3> QED
      BY <3>1, <3>2
  <2> QED
    BY <2>1, <2>2
<1> HIDE DEF Good
<1>3. \A n \in 0 .. N : n \in Good
  BY <1>1, <1>2, Induction
<1> QED
  BY <1>3 DEF Good

\* What was asked of all fields: each class of the line has it, and hands it on.
DueAll(cs, c, t) ==
    \A d \in Line(cs, c) : t \in cs[d].all /\ \A f \in ToSet(cs[d].fields) : t \in f.cust

\* What was asked of one field: the field was set once more, or the nearest one has it,
\* or there is none and all wait for it.
DueField(cs, ag, c, k, t) ==
    \/ \E d \in Line(cs, c) : <<d, k>> \in ag
    \/ \E d : Nearest(cs, c, d, k) /\ \E f \in ToSet(cs[d].fields) : f.name = k /\ t \in f.cust
    \/ \A d \in Line(cs, c) : ~Has(cs[d].fields, k) /\ t \in cs[d].delayed[k]

Due(cs, ag, c, a) == IF a[1] = All THEN DueAll(cs, c, a[2]) ELSE DueField(cs, ag, c, a[1], a[2])

\* It is about the line, and what waits or is there.
LEMMA DueAgrees ==
    ASSUME NEW cs, Sound(cs), NEW rs, NEW ag, NEW c \in 1 .. Len(cs), NEW a, Due(cs, ag, c, a),
           Line(rs, c) = Line(cs, c),
           \A d \in 1 .. Len(cs) : /\ rs[d].all = cs[d].all /\ rs[d].delayed = cs[d].delayed
                                  /\ rs[d].fields = cs[d].fields
    PROVE  Due(rs, ag, c, a)
<1>1. \A d \in Line(cs, c) : /\ rs[d].all = cs[d].all /\ rs[d].delayed = cs[d].delayed
                            /\ rs[d].fields = cs[d].fields
  BY LineFrom
<1>2. \A d, k : Nearest(rs, c, d, k) <=> Nearest(cs, c, d, k)
  BY <1>1 DEF Nearest
<1>3. DueAll(cs, c, a[2]) => DueAll(rs, c, a[2])
  BY <1>1 DEF DueAll
<1>4. DueField(cs, ag, c, a[1], a[2]) => DueField(rs, ag, c, a[1], a[2])
  <2>1. \A d : Nearest(cs, c, d, a[1]) => d \in Line(cs, c)
    BY DEF Nearest
  <2> QED
    BY <1>1, <1>2, <2>1 DEF DueField
<1> QED
  BY <1>3, <1>4 DEF Due

\* Numbers are counted, so that a line has a nearest owner of a field, or none at all.
LEMMA NearestOwner ==
    ASSUME NEW cs, Sound(cs), NEW c \in 0 .. Len(cs), NEW k
    PROVE  \/ \A d \in Line(cs, c) : ~Has(cs[d].fields, k)
           \/ \E d : Nearest(cs, c, d, k) /\ Has(cs[d].fields, k)
<1> DEFINE L == Line(cs, c)
           N == Len(cs)
           Far == {N - d : d \in {e \in L : Has(cs[e].fields, k)}}
<1>1. N \in Nat /\ L \subseteq 1 .. N
  BY LineWithin
<1>2. CASE Far # {}
  <2>1. Far \in SUBSET Nat
    BY <1>1
  <2>2. PICK n \in Far : \A m \in Far : ~(m < n)
    <3> HIDE DEF Far
    <3> QED
      BY <1>2, <2>1, Least
  <2>3. PICK d \in L : Has(cs[d].fields, k) /\ n = N - d
    BY <2>2
  <2>4. ASSUME NEW e \in L, e > d PROVE ~Has(cs[e].fields, k)
    <3>1. N - e < n
      BY <1>1, <2>3, <2>4
    <3> QED
      BY <2>2, <3>1
  <2> QED
    BY <2>3, <2>4 DEF Nearest
<1>3. CASE Far = {}
  BY <1>3
<1> QED
  BY <1>2, <1>3

\* Of each name, there is one field that a class shows.
LEMMA NearestUnique ==
    ASSUME NEW cs, Ordered(cs), NEW c \in 0 .. Len(cs), NEW k, NEW d, NEW e,
           Nearest(cs, c, d, k), Has(cs[d].fields, k),
           Nearest(cs, c, e, k), Has(cs[e].fields, k)
    PROVE  d = e
<1>1. d \in 1 .. c /\ e \in 1 .. c
  BY LineOrder DEF Nearest
<1>2. ~(d > e) /\ ~(e > d)
  BY DEF Nearest
<1> QED
  BY <1>1, <1>2

\* What is due is what is found.
LEMMA DueIsCustomized ==
    ASSUME NEW cs, Sound(cs), NEW c \in 1 .. Len(cs), NEW ag, NEW a, Due(cs, ag, c, a),
           NEW f \in ToSet(FlatTypeInfo(cs, c)), a[1] \in {f.name, All}
    PROVE  a[2] \in f.cust \/ \E d \in Line(cs, c) : <<d, f.name>> \in ag
<1>1. PICK d : Nearest(cs, c, d, f.name) /\ f \in ToSet(cs[d].fields)
  BY InfoRule
<1>2. d \in Line(cs, c) /\ d \in 1 .. Len(cs) /\ Distinct(cs[d].fields)
  <2>1. d \in Line(cs, c)
    BY <1>1 DEF Nearest
  <2>3. d \in 1 .. Len(cs)
    BY <2>1, LineFrom
  <2> QED
    BY <2>1, <2>3 DEF Sound
<1>3. Has(cs[d].fields, f.name)
  BY <1>1, <1>2, HasRule
<1>4. CASE a[1] = All
  BY <1>1, <1>2, <1>4 DEF Due, DueAll
<1>5. CASE a[1] # All
  <2>1. DueField(cs, ag, c, f.name, a[2])
    BY <1>5 DEF Due
  <2>2. ASSUME NEW e, Nearest(cs, c, e, f.name),
               NEW g \in ToSet(cs[e].fields), g.name = f.name, a[2] \in g.cust
        PROVE  a[2] \in f.cust
    <3>1. e \in Line(cs, c) /\ e \in 1 .. Len(cs) /\ Distinct(cs[e].fields)
      <4>1. e \in Line(cs, c)
        BY <2>2 DEF Nearest
      <4>3. e \in 1 .. Len(cs)
        BY <4>1, LineFrom
      <4> QED
        BY <4>1, <4>3 DEF Sound
    <3>2. Has(cs[e].fields, f.name)
      BY <2>2, <3>1, HasRule
    <3>3. d = e
      BY <1>1, <1>3, <2>2, <3>2, NearestUnique DEF Sound
    <3>4. f = g
      BY <1>1, <1>2, <2>2, <3>3, SMTT(30) DEF Distinct, ToSet
    <3> QED
      BY <2>2, <3>4
  <2> QED
    BY <1>2, <1>3, <2>1, <2>2 DEF DueField
<1> QED
  BY <1>4, <1>5

\* The classes of R are grown the field k; other classes, and other fields, stay.
Given(cs, ds, R, k) ==
    /\ Len(ds) = Len(cs)
    /\ R \subseteq 1 .. Len(cs)
    /\ \A d \in 1 .. Len(cs) :
          /\ ds[d].extends = cs[d].extends
          /\ ds[d].orig = cs[d].orig
          /\ ds[d].all = cs[d].all
          /\ \A j \in Field : j # k => ds[d].delayed[j] = cs[d].delayed[j]
          /\ d \notin R => ds[d] = cs[d]
          /\ d \in R => ToSet(ds[d].fields) =
                          {g \in ToSet(cs[d].fields) : g.name # k} \cup {Delayed(cs[d], k)}

\* What is due stays so when a field is given to classes.
LEMMA GivenDue ==
    ASSUME NEW cs, Sound(cs), NEW ds, Sound(ds), NEW R, NEW k \in Field, Given(cs, ds, R, k),
           NEW ag, NEW c \in 1 .. Len(cs), NEW a, a[1] \in Field \cup {All}, Due(cs, ag, c, a)
    PROVE  Due(ds, ag \cup {<<d, k>> : d \in {e \in R : Has(FlatTypeInfo(cs, e), k)}}, c, a)
<1> DEFINE more == {<<d, k>> : d \in {e \in R : Has(FlatTypeInfo(cs, e), k)}}
           X == Line(cs, c)
<1>1. Line(ds, c) = X
  <2>1. Len(cs) <= Len(ds) /\ c \in 0 .. Len(cs)
    BY DEF Given, Sound, Ordered
  <2> QED
    BY <2>1, SameChain DEF Given, Sound, Line
<1>2. X \subseteq 1 .. Len(cs)
  BY LineFrom
<1>3. ASSUME NEW d \in X
      PROVE  /\ Distinct(cs[d].fields) /\ Distinct(ds[d].fields)
             /\ \A j : j # k => (Has(ds[d].fields, j) <=> Has(cs[d].fields, j))
             /\ d \in R => Has(ds[d].fields, k)
             /\ d \notin R => ds[d] = cs[d]
             /\ d \in R => ToSet(ds[d].fields) =
                          {g \in ToSet(cs[d].fields) : g.name # k} \cup {Delayed(cs[d], k)}
  <2>1. d \in 1 .. Len(cs) /\ Len(ds) = Len(cs)
    BY <1>2 DEF Given
  <2>2. Distinct(cs[d].fields) /\ Distinct(ds[d].fields)
    BY <2>1 DEF Sound
  <2>3. /\ d \notin R => ds[d] = cs[d]
        /\ d \in R => ToSet(ds[d].fields) =
                          {g \in ToSet(cs[d].fields) : g.name # k} \cup {Delayed(cs[d], k)}
    BY <2>1 DEF Given
  <2>4. Delayed(cs[d], k).name = k
    BY DEF Delayed
  <2>5. \A j : /\ Has(cs[d].fields, j) <=> \E f \in ToSet(cs[d].fields) : f.name = j
               /\ Has(ds[d].fields, j) <=> \E f \in ToSet(ds[d].fields) : f.name = j
    BY <2>2, HasRule
  <2>6. ASSUME NEW j, j # k PROVE Has(ds[d].fields, j) <=> Has(cs[d].fields, j)
    BY <2>3, <2>4, <2>5, <2>6
  <2>7. d \in R => Has(ds[d].fields, k)
    BY <2>3, <2>4, <2>5
  <2> QED
    BY <2>2, <2>3, <2>6, <2>7
<1>4. CASE a[1] = All
  <2>1. DueAll(cs, c, a[2])
    BY <1>4 DEF Due
  <2>2. ASSUME NEW d \in X, NEW f \in ToSet(ds[d].fields) PROVE a[2] \in f.cust
    <3>1. a[2] \in Delayed(cs[d], k).cust
      BY <2>1 DEF DueAll, Delayed
    <3>2. \A g \in ToSet(cs[d].fields) : a[2] \in g.cust
      BY <2>1 DEF DueAll
    <3> QED
      BY <1>3, <3>1, <3>2
  <2>3. \A d \in X : ds[d].all = cs[d].all
    BY <1>2 DEF Given
  <2>4. DueAll(ds, c, a[2])
    BY <1>1, <2>1, <2>2, <2>3 DEF DueAll
  <2> QED
    BY <1>4, <2>4 DEF Due
<1>5. CASE a[1] # All
  <2> DEFINE j == a[1]
             t == a[2]
  <2>1. DueField(cs, ag, c, j, t) /\ j \in Field
    BY <1>5 DEF Due
  <2> SUFFICES DueField(ds, ag \cup more, c, j, t)
    BY <1>5 DEF Due
  <2> HIDE DEF more, X, j, t
  <2>2. CASE \E d \in X : <<d, j>> \in ag
    BY <1>1, <2>2 DEF DueField
  <2>3. CASE j # k
    <3>1. \A d : Nearest(ds, c, d, j) <=> Nearest(cs, c, d, j)
      BY <1>1, <1>3, <2>3 DEF Nearest, X
    <3>2. \A d \in X : \A f \in ToSet(cs[d].fields) : f.name = j => f \in ToSet(ds[d].fields)
      BY <1>3, <2>3
    <3>3. \A d \in X : ds[d].delayed[j] = cs[d].delayed[j]
      BY <1>2, <2>1, <2>3 DEF Given
    <3>4. CASE \E d : Nearest(cs, c, d, j) /\ \E f \in ToSet(cs[d].fields) : f.name = j /\ t \in f.cust
      BY <3>1, <3>2, <3>4 DEF DueField, Nearest, X
    <3>5. CASE \A d \in X : ~Has(cs[d].fields, j) /\ t \in cs[d].delayed[j]
      BY <1>1, <1>3, <2>3, <3>3, <3>5 DEF DueField
    <3> QED
      BY <2>1, <2>2, <3>4, <3>5 DEF DueField, X
  <2>4. CASE j = k /\ R \cap X = {}
    <3>1. \A d \in X : ds[d] = cs[d]
      BY <1>3, <2>4
    <3>2. \A d : Nearest(ds, c, d, j) <=> Nearest(cs, c, d, j)
      BY <1>1, <3>1 DEF Nearest, X
    <3> QED
      BY <1>1, <2>1, <3>1, <3>2 DEF DueField, Nearest, X
  <2>5. CASE j = k /\ \E e \in R \cap X : Has(FlatTypeInfo(cs, e), k)
    <3>1. PICK e \in X : <<e, k>> \in more
      BY <2>5 DEF more
    <3> QED
      BY <1>1, <2>5, <3>1 DEF DueField
  <2>6. CASE j = k /\ R \cap X # {} /\ \A e \in R \cap X : ~Has(FlatTypeInfo(cs, e), k)
    <3>1. ASSUME NEW e \in R \cap X, NEW d \in X, d <= e
          PROVE  ~Has(cs[d].fields, k)
      <4>1. e \in 1 .. Len(cs) /\ e \in 0 .. Len(cs) /\ c \in 0 .. Len(cs)
        <5>1. e \in 1 .. Len(cs)
          BY <1>2
        <5> QED
          BY <5>1, LineFrom
      <4>2. d \in Line(cs, e) /\ d \in 1 .. Len(cs)
        BY <1>2, <3>1, <4>1, LineOrder DEF Sound, X
      <4>3. \A f \in ToSet(FlatTypeInfo(cs, e)) : f.name # k
        BY <2>6, <4>1, InfoEquations, HasRule
      <4>4. \A b \in Line(cs, e) : Has(cs[b].fields, k) => ~Nearest(cs, e, b, k)
        <5> SUFFICES ASSUME NEW b \in Line(cs, e), Has(cs[b].fields, k), Nearest(cs, e, b, k)
                     PROVE  FALSE
          OBVIOUS
        <5>1. b \in 1 .. Len(cs)
          BY <4>1, LineWithin
        <5>2. PICK f \in ToSet(cs[b].fields) : f.name = k
          BY <5>1, HasRule DEF Sound
        <5>3. f \in ToSet(FlatTypeInfo(cs, e))
          BY <4>1, <5>2, InfoRule
        <5> QED
          BY <4>3, <5>2, <5>3
      <4> QED
        BY <4>1, <4>2, <4>4, NearestOwner DEF Nearest
    <3>2. CASE \E d : Nearest(cs, c, d, k) /\ \E f \in ToSet(cs[d].fields) : f.name = k /\ t \in f.cust
      <4>1. PICK d : Nearest(cs, c, d, k) /\ \E f \in ToSet(cs[d].fields) : f.name = k /\ t \in f.cust
        BY <3>2
      <4>2. d \in X /\ Has(cs[d].fields, k) /\ d \in 1 .. Len(cs)
        <5>1. d \in X
          BY <4>1 DEF Nearest, X
        <5> QED
          BY <1>2, <1>3, <4>1, <5>1, HasRule
      <4>3. \A e \in R \cap X : e < d
        <5> TAKE e \in R \cap X
        <5>1. ~(d <= e)
          BY <3>1, <4>2
        <5>2. e \in Int /\ d \in Int
          <6>1. Len(cs) \in Nat
            BY DEF Sound, Ordered
          <6>2. e \in 1 .. Len(cs) /\ d \in 1 .. Len(cs)
            BY <1>2, <4>2
          <6> QED
            BY <6>1, <6>2
        <5> QED
          BY <5>1, <5>2
      <4>4. d \notin R /\ ds[d] = cs[d]
        BY <1>3, <4>2, <4>3
      <4>5. \A e \in X : e > d => ds[e] = cs[e]
        BY <1>2, <1>3, <4>2, <4>3
      <4>6. Nearest(ds, c, d, k)
        BY <1>1, <4>1, <4>5 DEF Nearest, X
      <4> QED
        BY <2>6, <4>1, <4>4, <4>6 DEF DueField
    <3>3. CASE \A d \in X : ~Has(cs[d].fields, k) /\ t \in cs[d].delayed[k]
      <4>1. PICK e \in R \cap X : TRUE
        BY <2>6
      <4>2. Has(ds[e].fields, k)
        BY <1>3
      <4>3. PICK d : Nearest(ds, c, d, k) /\ Has(ds[d].fields, k)
        <5>1. c \in 0 .. Len(ds)
          BY DEF Given, Sound, Ordered
        <5> QED
          BY <1>1, <4>1, <4>2, <5>1, NearestOwner
      <4>4. d \in X
        BY <1>1, <4>3 DEF Nearest
      <4>5. d \in R
        BY <1>3, <3>3, <4>3, <4>4
      <4>6. Delayed(cs[d], k) \in ToSet(ds[d].fields)
        BY <1>3, <4>4, <4>5
      <4>7. Delayed(cs[d], k).name = k /\ t \in Delayed(cs[d], k).cust
        BY <3>3, <4>4 DEF Delayed
      <4> QED
        BY <2>6, <4>3, <4>6, <4>7 DEF DueField
    <3> QED
      BY <2>1, <2>2, <2>6, <3>2, <3>3 DEF DueField, X
  <2> QED
    BY <2>3, <2>4, <2>5, <2>6
<1> QED
  BY <1>4, <1>5

\* What a variant is made of: the class, with the same fields, which may have been
\* customized further.
Carried(cs, c, made) ==
    \A d \in Line(cs, c) :
        /\ made[d] \in Class
        /\ made[d].base = cs[d].base /\ made[d].mixin = cs[d].mixin
        /\ Distinct(made[d].fields)
        /\ Len(made[d].fields) = Len(cs[d].fields)
        /\ \A i \in 1 .. Len(cs[d].fields) :
              /\ made[d].fields[i].name = cs[d].fields[i].name
              /\ cs[d].fields[i].cust \subseteq made[d].fields[i].cust

\* A variant has the fields of its class.
LEMMA CarriedHas ==
    ASSUME NEW cs, Sound(cs), NEW c \in 1 .. Len(cs), NEW made, Carried(cs, c, made),
           NEW d \in Line(cs, c)
    PROVE  /\ d \in 1 .. Len(cs)
           /\ Distinct(cs[d].fields)
           /\ Names(made[d].fields) = Names(cs[d].fields)
           /\ \A k : Has(made[d].fields, k) <=> Has(cs[d].fields, k)
           /\ \A f \in ToSet(cs[d].fields) : \E g \in ToSet(made[d].fields) :
                 g.name = f.name /\ f.cust \subseteq g.cust
           /\ \A g \in ToSet(made[d].fields) : \E f \in ToSet(cs[d].fields) :
                 g.name = f.name /\ f.cust \subseteq g.cust
<1>1. d \in 1 .. Len(cs)
  BY LineFrom
<1>2. Distinct(cs[d].fields)
  BY <1>1 DEF Sound
<1> DEFINE F == cs[d].fields
           G == made[d].fields
<1>3. /\ DOMAIN F = 1 .. Len(F) /\ DOMAIN G = 1 .. Len(F) /\ Distinct(G) /\ Len(G) = Len(F)
      /\ \A i \in 1 .. Len(F) : G[i].name = F[i].name /\ F[i].cust \subseteq G[i].cust
  BY <1>2 DEF Carried, Distinct
<1> HIDE DEF F, G
<1>4. Names(G) = Names(F)
  BY <1>3 DEF Names
<1>5. \A k : Has(G, k) <=> Has(F, k)
  BY <1>4 DEF Has
<1>6. ToSet(F) = {F[i] : i \in 1 .. Len(F)} /\ ToSet(G) = {G[i] : i \in 1 .. Len(F)}
  BY <1>3 DEF ToSet
<1> QED
  BY <1>1, <1>2, <1>3, <1>4, <1>5, <1>6 DEF F, G

\* What a variant shows is what its class shows.
CopyShows(cs, c, ds, k) ==
    LET chain == Chain(cs, c)
        L == Len(cs)
        m == Len(chain)
    IN  /\ Line(ds, L + m) = {L + i : i \in 1 .. m}
        /\ Line(cs, c) = {chain[i] : i \in 1 .. m}
        /\ \A i \in 1 .. m : Nearest(cs, c, chain[i], k) <=> Nearest(ds, L + m, L + i, k)

LEMMA VariantNearest ==
    ASSUME NEW cs, Sound(cs), NEW c \in 1 .. Len(cs), NEW made, Carried(cs, c, made),
           NEW ds, Copied(cs, c, made, ds), NEW k
    PROVE  CopyShows(cs, c, ds, k)
<1> DEFINE chain == Chain(cs, c)
           L == Len(cs)
           m == Len(chain)
<1>1. /\ Sound(ds) /\ Len(ds) = L + m
      /\ \A i \in 1 .. m :
            /\ ds[L + i].fields = made[chain[i]].fields
            /\ ds[L + i].extends = IF i = 1 THEN Absent ELSE L + i - 1
  BY DEF Copied
<1>2. /\ chain \in Seq(1 .. L) /\ m \in Nat \ {0} /\ DOMAIN chain = 1 .. m
      /\ \A i, j \in 1 .. m : i < j => chain[i] < chain[j]
  BY ChainOrder DEF Sound
<1>3. L \in Nat
  BY DEF Sound, Ordered
<1>4. Line(cs, c) = {chain[i] : i \in 1 .. m}
  BY <1>2 DEF Line, ToSet
<1>5. \A i \in 1 .. m : Has(ds[L + i].fields, k) <=> Has(cs[chain[i]].fields, k)
  <2> TAKE i \in 1 .. m
  <2>1. chain[i] \in Line(cs, c)
    BY <1>4
  <2>2. Has(made[chain[i]].fields, k) <=> Has(cs[chain[i]].fields, k)
    BY <2>1, CarriedHas
  <2> QED
    BY <1>1, <2>2
<1> HIDE DEF chain, L, m
<1>6. Line(ds, L + m) = {L + i : i \in 1 .. m}
  <2>1. Line(ds, L + m) = L + 1 .. L + m
    <3>1. m \in Nat /\ m \in 1 .. m /\ Ordered(ds) /\ Len(ds) = L + m
      BY <1>1, <1>2 DEF Sound
    <3>2. \A i \in 1 .. m : ds[L + i].extends = IF i = 1 THEN Absent ELSE L + i - 1
      BY <1>1
    <3>3. \A i \in 1 .. m : Line(ds, L + i) = L + 1 .. L + i
      BY <1>3, <3>1, <3>2, VariantLine, ZenonT(90)
    <3> QED
      BY <3>1, <3>3
  <2>2. \A d \in L + 1 .. L + m : d - L \in 1 .. m /\ d = L + (d - L)
    BY <1>2, <1>3
  <2>3. \A i \in 1 .. m : L + i \in L + 1 .. L + m
    BY <1>2, <1>3
  <2> QED
    BY <2>1, <2>2, <2>3
<1>7. \A i, j \in 1 .. m : chain[j] > chain[i] <=> L + j > L + i
  <2> TAKE i, j \in 1 .. m
  <2>1. chain[i] \in Nat /\ chain[j] \in Nat /\ i \in Nat /\ j \in Nat
    BY <1>2, <1>3
  <2>2. (i < j => chain[i] < chain[j]) /\ (j < i => chain[j] < chain[i])
    BY <1>2
  <2> QED
    BY <1>3, <2>1, <2>2
<1>8. ASSUME NEW i \in 1 .. m
      PROVE  Nearest(cs, c, chain[i], k) <=> Nearest(ds, L + m, L + i, k)
  <2>1. chain[i] \in Line(cs, c) /\ L + i \in Line(ds, L + m)
    BY <1>4, <1>6
  <2>2. Nearest(cs, c, chain[i], k)
           <=> \A j \in 1 .. m : chain[j] > chain[i] => ~Has(cs[chain[j]].fields, k)
    BY <1>4, <2>1 DEF Nearest
  <2>3. Nearest(ds, L + m, L + i, k)
           <=> \A j \in 1 .. m : L + j > L + i => ~Has(ds[L + j].fields, k)
    BY <1>6, <2>1 DEF Nearest
  <2> QED
    BY <1>5, <1>7, <2>2, <2>3
<1> QED
  BY <1>4, <1>6, <1>8 DEF CopyShows, chain, L, m

\* What is due to a class is due to its variant, unless it is asked for anew.
LEMMA VariantDue ==
    ASSUME NEW cs, Sound(cs), NEW c \in 1 .. Len(cs), NEW made, Carried(cs, c, made),
           NEW ds, Copied(cs, c, made, ds), NEW ag, NEW more,
           \A i \in 1 .. Len(Chain(cs, c)), k \in Field :
              <<Chain(cs, c)[i], k>> \in ag => <<Len(cs) + i, k>> \in more,
           NEW a, a[1] \in Field \cup {All}, Due(cs, ag, c, a),
           \A d \in Line(cs, c) :
              IF a[1] = All THEN made[d].all = cs[d].all
              ELSE made[d].delayed[a[1]] = cs[d].delayed[a[1]]
    PROVE  Due(ds, ag \cup more, Len(cs) + Len(Chain(cs, c)), a)
<1> DEFINE chain == Chain(cs, c)
           L == Len(cs)
           m == Len(chain)
<1>1. \A i \in 1 .. m : /\ ds[L + i].all = made[chain[i]].all
                        /\ ds[L + i].delayed = made[chain[i]].delayed
                        /\ ds[L + i].fields = made[chain[i]].fields
  BY DEF Copied
<1>2. /\ Line(ds, L + m) = {L + i : i \in 1 .. m}
      /\ Line(cs, c) = {chain[i] : i \in 1 .. m}
      /\ \A k : \A i \in 1 .. m :
            Nearest(cs, c, chain[i], k) <=> Nearest(ds, L + m, L + i, k)
  <2>1. ASSUME NEW k
        PROVE  /\ Line(ds, L + m) = {L + i : i \in 1 .. m}
               /\ Line(cs, c) = {chain[i] : i \in 1 .. m}
               /\ \A i \in 1 .. m :
                     Nearest(cs, c, chain[i], k) <=> Nearest(ds, L + m, L + i, k)
    BY VariantNearest DEF CopyShows
  <2> QED
    BY <2>1
<1> HIDE DEF chain, L, m
<1>3. ASSUME NEW i \in 1 .. m
      PROVE  /\ \A k : Has(ds[L + i].fields, k) <=> Has(cs[chain[i]].fields, k)
             /\ \A f \in ToSet(cs[chain[i]].fields) : \E g \in ToSet(ds[L + i].fields) :
                   g.name = f.name /\ f.cust \subseteq g.cust
             /\ \A g \in ToSet(ds[L + i].fields) : \E f \in ToSet(cs[chain[i]].fields) :
                   g.name = f.name /\ f.cust \subseteq g.cust
  <2> DEFINE d == chain[i]
             G == ds[L + i].fields
  <2>1. d \in Line(cs, c) /\ G = made[d].fields
    BY <1>1, <1>2
  <2> HIDE DEF d, G
  <2>2. \A k : Has(G, k) <=> Has(cs[d].fields, k)
    BY <2>1, CarriedHas
  <2>3. \A f \in ToSet(cs[d].fields) : \E g \in ToSet(G) :
           g.name = f.name /\ f.cust \subseteq g.cust
    BY <2>1, CarriedHas
  <2>4. \A g \in ToSet(G) : \E f \in ToSet(cs[d].fields) :
           g.name = f.name /\ f.cust \subseteq g.cust
    BY <2>1, CarriedHas
  <2> QED
    BY <2>2, <2>3, <2>4 DEF d, G
<1>4. CASE a[1] = All
  <2>1. DueAll(cs, c, a[2])
    BY <1>4 DEF Due
  <2>2. ASSUME NEW i \in 1 .. m
        PROVE  /\ a[2] \in ds[L + i].all
               /\ \A g \in ToSet(ds[L + i].fields) : a[2] \in g.cust
    <3>1. chain[i] \in Line(cs, c)
      BY <1>2
    <3>2. a[2] \in cs[chain[i]].all /\ \A f \in ToSet(cs[chain[i]].fields) : a[2] \in f.cust
      BY <2>1, <3>1 DEF DueAll
    <3> QED
      BY <1>1, <1>3, <1>4, <3>1, <3>2
  <2>3. DueAll(ds, L + m, a[2])
    BY <1>2, <2>2 DEF DueAll
  <2> QED
    BY <1>4, <2>3 DEF Due, L, m, chain
<1>5. CASE a[1] # All
  <2> DEFINE k == a[1]
             t == a[2]
  <2>1. DueField(cs, ag, c, k, t) /\ k \in Field
    BY <1>5 DEF Due
  <2>2. \A d \in Line(cs, c) : made[d].delayed[k] = cs[d].delayed[k]
    BY <1>5
  <2> HIDE DEF k, t
  <2>3. CASE \E d \in Line(cs, c) : <<d, k>> \in ag
    <3>1. PICK i \in 1 .. m : <<chain[i], k>> \in ag
      BY <1>2, <2>3
    <3>2. <<L + i, k>> \in more
      BY <2>1, <3>1 DEF L, m, chain
    <3>3. DueField(ds, ag \cup more, L + m, k, t)
      BY <1>2, <3>2 DEF DueField
    <3> QED
      BY <1>5, <3>3 DEF Due, k, t, L, m, chain
  <2>4. CASE \E d : Nearest(cs, c, d, k) /\ \E f \in ToSet(cs[d].fields) : f.name = k /\ t \in f.cust
    <3>1. PICK i \in 1 .. m :
             /\ Nearest(cs, c, chain[i], k)
             /\ \E f \in ToSet(cs[chain[i]].fields) : f.name = k /\ t \in f.cust
      BY <1>2, <2>4 DEF Nearest
    <3>2. \E g \in ToSet(ds[L + i].fields) : g.name = k /\ t \in g.cust
      BY <1>3, <3>1
    <3>3. DueField(ds, ag \cup more, L + m, k, t)
      BY <1>2, <3>1, <3>2 DEF DueField
    <3> QED
      BY <1>5, <3>3 DEF Due, k, t, L, m, chain
  <2>5. CASE \A d \in Line(cs, c) : ~Has(cs[d].fields, k) /\ t \in cs[d].delayed[k]
    <3>1. \A i \in 1 .. m : ~Has(ds[L + i].fields, k) /\ t \in ds[L + i].delayed[k]
      <4> TAKE i \in 1 .. m
      <4>1. chain[i] \in Line(cs, c)
        BY <1>2
      <4>2. t \in made[chain[i]].delayed[k]
        BY <2>2, <2>5, <4>1
      <4> QED
        BY <1>1, <1>3, <2>5, <4>1, <4>2
    <3>2. DueField(ds, ag \cup more, L + m, k, t)
      BY <1>2, <3>1 DEF DueField
    <3> QED
      BY <1>5, <3>2 DEF Due, k, t, L, m, chain
  <2> QED
    BY <2>1, <2>3, <2>4, <2>5 DEF DueField
<1> QED
  BY <1>4, <1>5

\* A field that is customized.
LEMMA CustomizeRule ==
    ASSUME NEW f \in FieldRec, NEW t \in Token
    PROVE  /\ Customize(f, {t}) \in FieldRec
           /\ Customize(f, {t}).name = f.name
           /\ Customize(f, {t}).cust = f.cust \cup {t}
  BY DEF Customize, FieldRec

\* The variants that child_attrs_all and child_attrs make, of each class of the chain.
MadeAll(cs, c, t) ==
    [d \in ToSet(Chain(cs, c)) |->
        [cs[d] EXCEPT !.fields = [j \in DOMAIN @ |-> Customize(@[j], {t})], !.all = {t}]]

OwnsField(cs, d, k) == Has(cs[d].fields, k)
FieldDone(cs, c, d, k) == \E e \in ToSet(Chain(cs, c)) : d < e /\ OwnsField(cs, e, k)
FieldInherited(cs, d, k) == ~OwnsField(cs, d, k) /\ Has(FlatTypeInfo(cs, d), k)

MadeOne(cs, c, k, t) ==
    [d \in ToSet(Chain(cs, c)) |->
        CASE FieldDone(cs, c, d, k) \/ FieldInherited(cs, d, k) -> cs[d]
          [] ~FieldDone(cs, c, d, k) /\ OwnsField(cs, d, k) ->
                [cs[d] EXCEPT !.fields = SetItem(@, Customize(Get(@, k), {t}))]
          [] OTHER -> [cs[d] EXCEPT !.delayed[k] = {t}]]

\* With child_attrs_all, every field is customized.
LEMMA AllCarried ==
    ASSUME NEW cs, Sound(cs), NEW c \in 1 .. Len(cs), NEW t \in Token
    PROVE  LET made == MadeAll(cs, c, t)
           IN  /\ Carried(cs, c, made)
               /\ \A d \in Line(cs, c) :
                     /\ made[d].all = {t}
                     /\ made[d].delayed = cs[d].delayed
                     /\ \A f \in ToSet(made[d].fields) : t \in f.cust
<1> DEFINE made == MadeAll(cs, c, t)
<1>1. ASSUME NEW d \in Line(cs, c)
      PROVE  /\ made[d] \in Class
             /\ made[d].base = cs[d].base /\ made[d].mixin = cs[d].mixin
             /\ made[d].all = {t}
             /\ made[d].delayed = cs[d].delayed
             /\ Distinct(made[d].fields)
             /\ Len(made[d].fields) = Len(cs[d].fields)
             /\ \A f \in ToSet(made[d].fields) : t \in f.cust
             /\ \A i \in 1 .. Len(cs[d].fields) :
                   /\ made[d].fields[i].name = cs[d].fields[i].name
                   /\ cs[d].fields[i].cust \subseteq made[d].fields[i].cust
  <2> DEFINE F == cs[d].fields
             G == [j \in DOMAIN F |-> Customize(F[j], {t})]
  <2>1. d \in 1 .. Len(cs)
    BY LineFrom
  <2>2. cs[d] \in Class /\ Distinct(F)
    BY <2>1 DEF Sound, Ordered
  <2>3. made[d] = [cs[d] EXCEPT !.fields = G, !.all = {t}]
    BY DEF Line, MadeAll
  <2> HIDE DEF made
  <2>4. /\ F \in Seq(FieldRec) /\ Len(F) \in Nat /\ DOMAIN F = 1 .. Len(F)
        /\ \A i \in 1 .. Len(F) : F[i] \in FieldRec
    BY <2>2 DEF Distinct
  <2>5. \A i \in 1 .. Len(F) : /\ G[i] \in FieldRec /\ G[i].name = F[i].name
                               /\ G[i].cust = F[i].cust \cup {t}
    BY <2>4, CustomizeRule
  <2>6. G \in [1 .. Len(F) -> FieldRec]
    BY <2>4, <2>5
  <2> HIDE DEF G
  <2>7. G \in Seq(FieldRec) /\ Len(G) = Len(F) /\ DOMAIN G = 1 .. Len(F)
    BY <2>4, <2>6
  <2>8. Distinct(G)
    BY <2>2, <2>5, <2>7 DEF Distinct
  <2>9. /\ made[d] \in Class /\ made[d].all = {t} /\ made[d].delayed = cs[d].delayed
        /\ made[d].fields = G
        /\ made[d].base = cs[d].base /\ made[d].mixin = cs[d].mixin
    <3>1. cs[d] \in Class /\ G \in Seq(FieldRec) /\ {t} \in SUBSET Token
      BY <2>2, <2>7
    <3>2. [cs[d] EXCEPT !.fields = G, !.all = {t}] \in Class
      BY <3>1 DEF Class
    <3>3. cs[d] \in [orig : Nat, base : Nat, mixin : Nat, all : SUBSET Token,
                     delayed : [Field -> SUBSET Token], extends : Nat, fields : Seq(FieldRec)]
      BY <3>1 DEF Class
    <3>4. /\ [cs[d] EXCEPT !.fields = G, !.all = {t}].all = {t}
          /\ [cs[d] EXCEPT !.fields = G, !.all = {t}].delayed = cs[d].delayed
          /\ [cs[d] EXCEPT !.fields = G, !.all = {t}].fields = G
          /\ [cs[d] EXCEPT !.fields = G, !.all = {t}].base = cs[d].base
          /\ [cs[d] EXCEPT !.fields = G, !.all = {t}].mixin = cs[d].mixin
      BY <3>3
    <3> QED
      BY <2>3, <3>2, <3>4
  <2>10. \A f \in ToSet(G) : t \in f.cust
    BY <2>5, <2>7 DEF ToSet
  <2> QED
    BY <2>5, <2>7, <2>8, <2>9, <2>10
<1> HIDE DEF made
<1> QED
  BY <1>1 DEF Carried, made

\* With child_attrs, the nearest field of the name is customized, or
\* there is none and all wait for it.
LEMMA OneCarried ==
    ASSUME NEW cs, Sound(cs), NEW c \in 1 .. Len(cs), NEW k \in Field, NEW t \in Token
    PROVE  LET made == MadeOne(cs, c, k, t)
           IN  /\ Carried(cs, c, made)
               /\ \A d \in Line(cs, c) :
                     /\ made[d].all = cs[d].all
                     /\ \A j \in Field : j # k => made[d].delayed[j] = cs[d].delayed[j]
                     /\ Nearest(cs, c, d, k) /\ OwnsField(cs, d, k) =>
                           \E f \in ToSet(made[d].fields) : f.name = k /\ t \in f.cust
               /\ (\A d \in Line(cs, c) : ~OwnsField(cs, d, k)) =>
                     \A d \in Line(cs, c) : t \in made[d].delayed[k]
<1> DEFINE own(d) == OwnsField(cs, d, k)
           done(d) == FieldDone(cs, c, d, k)
           inherited(d) == FieldInherited(cs, d, k)
           made == MadeOne(cs, c, k, t)
<1>0. Line(cs, c) \subseteq 1 .. Len(cs) /\ Len(cs) \in Nat
  BY LineFrom
<1>1. \A d \in Line(cs, c) :
         made[d] = CASE done(d) \/ inherited(d) -> cs[d]
                     [] ~done(d) /\ own(d) ->
                           [cs[d] EXCEPT !.fields = SetItem(@, Customize(Get(@, k), {t}))]
                     [] OTHER -> [cs[d] EXCEPT !.delayed[k] = {t}]
  BY DEF Line, MadeOne
<1> HIDE DEF made
<1>2. ASSUME NEW d \in Line(cs, c)
      PROVE  /\ done(d) \/ inherited(d) => made[d] = cs[d]
             /\ ~done(d) /\ own(d) =>
                   made[d] = [cs[d] EXCEPT
                                !.fields = SetItem(cs[d].fields,
                                                   Customize(Get(cs[d].fields, k), {t}))]
             /\ ~done(d) /\ ~own(d) /\ ~inherited(d) =>
                   made[d] = [cs[d] EXCEPT !.delayed[k] = {t}]
  <2> HIDE DEF done, own, inherited
  <2>1. inherited(d) => ~own(d)
    BY DEF inherited, FieldInherited, own
  <2> QED
    BY <1>1, <2>1
<1>3. ASSUME NEW d \in Line(cs, c)
      PROVE  /\ cs[d] \in Class
             /\ Distinct(cs[d].fields)
  BY <1>0 DEF Sound, Ordered
<1>4. ASSUME NEW d \in Line(cs, c), made[d] = cs[d]
      PROVE  /\ made[d] \in Class
             /\ made[d].base = cs[d].base /\ made[d].mixin = cs[d].mixin
             /\ made[d].all = cs[d].all
             /\ \A j \in Field : j # k => made[d].delayed[j] = cs[d].delayed[j]
             /\ Distinct(made[d].fields)
             /\ Len(made[d].fields) = Len(cs[d].fields)
             /\ \A i \in 1 .. Len(cs[d].fields) :
                   /\ made[d].fields[i].name = cs[d].fields[i].name
                   /\ cs[d].fields[i].cust \subseteq made[d].fields[i].cust
  BY <1>3, <1>4
<1>5. ASSUME NEW d \in Line(cs, c), made[d] = [cs[d] EXCEPT !.delayed[k] = {t}]
      PROVE  /\ made[d] \in Class
             /\ made[d].base = cs[d].base /\ made[d].mixin = cs[d].mixin
             /\ made[d].all = cs[d].all
             /\ \A j \in Field : j # k => made[d].delayed[j] = cs[d].delayed[j]
             /\ t \in made[d].delayed[k]
             /\ Distinct(made[d].fields)
             /\ Len(made[d].fields) = Len(cs[d].fields)
             /\ \A i \in 1 .. Len(cs[d].fields) :
                   /\ made[d].fields[i].name = cs[d].fields[i].name
                   /\ cs[d].fields[i].cust \subseteq made[d].fields[i].cust
  <2>1. cs[d] \in Class /\ Distinct(cs[d].fields)
    BY <1>3
  <2> DEFINE new == [cs[d].delayed EXCEPT ![k] = {t}]
  <2>2. /\ new \in [Field -> SUBSET Token] /\ new[k] = {t}
        /\ \A j \in Field : j # k => new[j] = cs[d].delayed[j]
    BY <2>1 DEF Class
  <2> HIDE DEF new
  <2>3. made[d] = [cs[d] EXCEPT !.delayed = new]
    BY <1>5, <2>1 DEF new, Class
  <2>4. /\ made[d] \in Class /\ made[d].all = cs[d].all /\ made[d].delayed = new
        /\ made[d].fields = cs[d].fields
        /\ made[d].base = cs[d].base /\ made[d].mixin = cs[d].mixin
    BY <2>1, <2>2, <2>3 DEF Class
  <2> QED
    BY <2>1, <2>2, <2>4
<1>6. ASSUME NEW d \in Line(cs, c), own(d),
             made[d] = [cs[d] EXCEPT
                          !.fields = SetItem(cs[d].fields,
                                             Customize(Get(cs[d].fields, k), {t}))]
      PROVE  /\ made[d] \in Class
             /\ made[d].base = cs[d].base /\ made[d].mixin = cs[d].mixin
             /\ made[d].all = cs[d].all
             /\ \A j \in Field : j # k => made[d].delayed[j] = cs[d].delayed[j]
             /\ Distinct(made[d].fields)
             /\ Len(made[d].fields) = Len(cs[d].fields)
             /\ \A i \in 1 .. Len(cs[d].fields) :
                   /\ made[d].fields[i].name = cs[d].fields[i].name
                   /\ cs[d].fields[i].cust \subseteq made[d].fields[i].cust
             /\ \E f \in ToSet(made[d].fields) : f.name = k /\ t \in f.cust
  <2> DEFINE F == cs[d].fields
             p == Position(F, k)
             g == Customize(Get(F, k), {t})
             G == SetItem(F, g)
  <2>1. cs[d] \in Class /\ Distinct(F) /\ Has(F, k)
    BY <1>3, <1>6 DEF OwnsField
  <2> HIDE DEF own, done, inherited
  <2>2. made[d] = [cs[d] EXCEPT !.fields = G]
    BY <1>6
  <2>3. /\ F \in Seq(FieldRec) /\ Len(F) \in Nat /\ DOMAIN F = 1 .. Len(F)
    BY <2>1 DEF Distinct
  <2> HIDE DEF F
  <2>4. p \in 1 .. Len(F) /\ F[p].name = k /\ F[p] \in FieldRec
    BY <2>1, <2>3, HasRule
  <2>5. g \in FieldRec /\ g.name = k /\ g.cust = F[p].cust \cup {t}
    BY <2>4, CustomizeRule DEF Get
  <2> HIDE DEF g
  <2>6. G = [F EXCEPT ![p] = g]
    BY <2>1, <2>5 DEF SetItem
  <2>7. Distinct(G)
    BY <2>1, <2>5, SetItemRule
  <2> HIDE DEF G, p
  <2>8. /\ G \in Seq(FieldRec) /\ Len(G) = Len(F)
        /\ \A i \in 1 .. Len(F) : G[i] = IF i = p THEN g ELSE F[i]
    BY <2>3, <2>4, <2>5, <2>6, ExceptSeq
  <2>9. /\ made[d] \in Class /\ made[d].all = cs[d].all /\ made[d].delayed = cs[d].delayed
        /\ made[d].fields = G
        /\ made[d].base = cs[d].base /\ made[d].mixin = cs[d].mixin
    BY <2>1, <2>2, <2>8 DEF Class
  <2>10. \A i \in 1 .. Len(F) : G[i].name = F[i].name /\ F[i].cust \subseteq G[i].cust
    BY <2>4, <2>5, <2>8
  <2>11. g \in ToSet(G) /\ t \in g.cust
    <3>1. p \in DOMAIN G /\ G[p] = g
      BY <2>4, <2>8
    <3> QED
      BY <2>5, <3>1 DEF ToSet
  <2> QED
    BY <2>5, <2>7, <2>8, <2>9, <2>10, <2>11 DEF F
<1>7. ASSUME NEW d \in Line(cs, c)
      PROVE  /\ made[d] \in Class
             /\ made[d].base = cs[d].base /\ made[d].mixin = cs[d].mixin
             /\ made[d].all = cs[d].all
             /\ \A j \in Field : j # k => made[d].delayed[j] = cs[d].delayed[j]
             /\ Distinct(made[d].fields)
             /\ Len(made[d].fields) = Len(cs[d].fields)
             /\ \A i \in 1 .. Len(cs[d].fields) :
                   /\ made[d].fields[i].name = cs[d].fields[i].name
                   /\ cs[d].fields[i].cust \subseteq made[d].fields[i].cust
  <2>1. CASE done(d) \/ inherited(d)
    <3>1. made[d] = cs[d]
      BY <1>2, <2>1
    <3> HIDE DEF own, done, inherited
    <3> QED
      BY <1>4, <3>1
  <2>2. CASE ~done(d) /\ own(d)
    <3> HIDE DEF own, done, inherited
    <3> QED
      BY <1>2, <1>6, <2>2
  <2>3. CASE ~done(d) /\ ~own(d) /\ ~inherited(d)
    <3> HIDE DEF own, done, inherited
    <3> QED
      BY <1>2, <1>5, <2>3
  <2> HIDE DEF own, done, inherited
  <2> QED
    BY <2>1, <2>2, <2>3
<1>8. ASSUME NEW d \in Line(cs, c), Nearest(cs, c, d, k), own(d)
      PROVE  \E f \in ToSet(made[d].fields) : f.name = k /\ t \in f.cust
  <2>1. ~done(d)
    <3>1. \A e \in Line(cs, c) : d < e => e > d
      BY <1>0
    <3> QED
      BY <1>8, <3>1 DEF Nearest, Line, FieldDone, OwnsField
  <2> HIDE DEF own, done, inherited
  <2> QED
    BY <1>2, <1>6, <1>8, <2>1
<1>9. ASSUME \A d \in Line(cs, c) : ~own(d)
      PROVE  \A d \in Line(cs, c) : t \in made[d].delayed[k]
  <2> TAKE d \in Line(cs, c)
  <2>1. ~done(d) /\ ~own(d)
    BY <1>9 DEF Line, FieldDone
  <2>2. ~Has(FlatTypeInfo(cs, d), k)
    <3> SUFFICES ASSUME Has(FlatTypeInfo(cs, d), k) PROVE FALSE
      OBVIOUS
    <3>1. d \in 0 .. Len(cs) /\ c \in 0 .. Len(cs)
      BY <1>0
    <3>2. PICK f \in ToSet(FlatTypeInfo(cs, d)) : f.name = k
      BY <3>1, InfoEquations, HasRule
    <3>3. PICK e : Nearest(cs, d, e, k) /\ f \in ToSet(cs[e].fields)
      BY <3>1, <3>2, InfoRule
    <3>4. e \in Line(cs, c)
      BY <3>1, <3>3, LineOrder DEF Nearest, Sound
    <3>5. Has(cs[e].fields, k)
      BY <1>3, <3>2, <3>3, <3>4, HasRule
    <3> QED
      BY <1>9, <3>4, <3>5 DEF OwnsField
  <2>3. ~inherited(d)
    BY <2>2 DEF FieldInherited
  <2> HIDE DEF own, done, inherited
  <2> QED
    BY <1>2, <1>5, <2>1, <2>3
<1> QED
  BY <1>7, <1>8, <1>9 DEF Carried, made

\* Fields of the same names stay so when both are grown a field of the same name.
SameNames(F, G) ==
    /\ Len(F) = Len(G)
    /\ \A i \in 1 .. Len(F) : F[i].name = G[i].name

LEMMA SameNamesRule ==
    ASSUME NEW F, Distinct(F), NEW G, Distinct(G)
    PROVE  Names(F) = Names(G) <=> SameNames(F, G)
<1>1. /\ DOMAIN F = 1 .. Len(F) /\ DOMAIN G = 1 .. Len(G) /\ Len(F) \in Nat /\ Len(G) \in Nat
  BY DEF Distinct
<1>2. Names(F) = [i \in 1 .. Len(F) |-> F[i].name] /\ Names(G) = [i \in 1 .. Len(G) |-> G[i].name]
  BY <1>1 DEF Names
<1>3. ASSUME Names(F) = Names(G) PROVE SameNames(F, G)
  <2>1. DOMAIN Names(F) = 1 .. Len(F) /\ DOMAIN Names(G) = 1 .. Len(G)
    BY <1>2
  <2>2. Len(F) = Len(G)
    <3> DEFINE a == Len(F)
               b == Len(G)
    <3>1. 1 .. a = 1 .. b /\ a \in Nat /\ b \in Nat
      BY <1>1, <1>3, <2>1
    <3> HIDE DEF a, b
    <3>2. a # 0 => a <= b
      <4>1. a # 0 => a \in 1 .. a
        BY <3>1
      <4> QED
        BY <3>1, <4>1
    <3>3. b # 0 => b <= a
      <4>1. b # 0 => b \in 1 .. b
        BY <3>1
      <4> QED
        BY <3>1, <4>1
    <3>4. a = b
      BY <3>1, <3>2, <3>3
    <3> QED
      BY <3>4 DEF a, b
  <2>3. /\ \A i \in 1 .. Len(F) : Names(F)[i] = F[i].name
        /\ \A i \in 1 .. Len(G) : Names(G)[i] = G[i].name
    BY <1>2
  <2> QED
    BY <1>3, <2>2, <2>3 DEF SameNames
<1>4. ASSUME SameNames(F, G) PROVE Names(F) = Names(G)
  BY <1>2, <1>4 DEF SameNames
<1> QED
  BY <1>3, <1>4

LEMMA SamePosition ==
    ASSUME NEW F, Distinct(F), NEW G, Distinct(G), SameNames(F, G), NEW k
    PROVE  /\ Has(F, k) <=> Has(G, k)
           /\ Position(F, k) = Position(G, k)
<1>1. Names(F) = Names(G)
  BY SameNamesRule
<1>2. DOMAIN F = DOMAIN G
  BY DEF Distinct, SameNames
<1> QED
  BY <1>1, <1>2 DEF Has, Position

LEMMA SameNamesSet ==
    ASSUME NEW F, Distinct(F), NEW G, Distinct(G), SameNames(F, G),
           NEW f \in FieldRec, NEW g \in FieldRec, f.name = g.name
    PROVE  SameNames(SetItem(F, f), SetItem(G, g))
<1> DEFINE p == Position(F, f.name)
<1>1. /\ F \in Seq(FieldRec) /\ G \in Seq(FieldRec) /\ Len(F) = Len(G)
      /\ \A i \in 1 .. Len(F) : F[i].name = G[i].name
      /\ Len(F) \in Nat
  BY DEF Distinct, SameNames
<1>2. Position(G, g.name) = p /\ (Has(F, f.name) <=> Has(G, g.name))
  BY SamePosition
<1>3. CASE Has(F, f.name)
  <2>1. p \in 1 .. Len(F)
    BY <1>3, HasRule
  <2>2. SetItem(F, f) = [F EXCEPT ![p] = f] /\ SetItem(G, g) = [G EXCEPT ![p] = g]
    BY <1>2, <1>3 DEF SetItem
  <2> HIDE DEF p
  <2>3. /\ Len(SetItem(F, f)) = Len(F)
        /\ \A i \in 1 .. Len(F) : SetItem(F, f)[i] = IF i = p THEN f ELSE F[i]
    BY <1>1, <2>1, <2>2, ExceptSeq
  <2>4. /\ Len(SetItem(G, g)) = Len(F)
        /\ \A i \in 1 .. Len(F) : SetItem(G, g)[i] = IF i = p THEN g ELSE G[i]
    <3>1. p \in 1 .. Len(G)
      BY <1>1, <2>1
    <3> QED
      BY <1>1, <2>2, <3>1, ExceptSeq
  <2> QED
    BY <1>1, <2>3, <2>4 DEF SameNames
<1>4. CASE ~Has(F, f.name)
  <2>1. SetItem(F, f) = Append(F, f) /\ SetItem(G, g) = Append(G, g)
    BY <1>2, <1>4 DEF SetItem
  <2>2. /\ Len(SetItem(F, f)) = Len(F) + 1 /\ SetItem(F, f)[Len(F) + 1] = f
        /\ \A i \in 1 .. Len(F) : SetItem(F, f)[i] = F[i]
    BY <1>1, <2>1
  <2>3. /\ Len(SetItem(G, g)) = Len(F) + 1 /\ SetItem(G, g)[Len(F) + 1] = g
        /\ \A i \in 1 .. Len(F) : SetItem(G, g)[i] = G[i]
    BY <1>1, <2>1
  <2>4. \A i \in 1 .. Len(F) + 1 : i \in 1 .. Len(F) \/ i = Len(F) + 1
    BY <1>1
  <2> QED
    BY <1>1, <2>2, <2>3, <2>4 DEF SameNames
<1> QED
  BY <1>3, <1>4

LEMMA SameNamesInsert ==
    ASSUME NEW F, Distinct(F), NEW G, Distinct(G), SameNames(F, G), NEW index \in Nat,
           NEW f \in FieldRec, NEW g \in FieldRec, f.name = g.name
    PROVE  SameNames(Insert(F, index, f), Insert(G, index, g))
<1> DEFINE p == Position(F, f.name)
           A == IF Has(F, f.name) THEN RemoveAt(F, p) ELSE F
           B == IF Has(F, f.name) THEN RemoveAt(G, p) ELSE G
<1>1. /\ F \in Seq(FieldRec) /\ G \in Seq(FieldRec) /\ Len(F) = Len(G)
      /\ \A i \in 1 .. Len(F) : F[i].name = G[i].name
      /\ Len(F) \in Nat
  BY DEF Distinct, SameNames
<1>2. Position(G, g.name) = p /\ (Has(F, f.name) <=> Has(G, g.name))
  BY SamePosition
<1>3. A \in Seq(FieldRec) /\ B \in Seq(FieldRec) /\ SameNames(A, B)
  <2>1. CASE Has(F, f.name)
    <3>1. p \in 1 .. Len(F) /\ p \in 1 .. Len(G)
      BY <1>1, <2>1, HasRule
    <3> HIDE DEF p
    <3>2. /\ A \in Seq(FieldRec) /\ Len(A) = Len(F) - 1
          /\ \A i \in 1 .. Len(F) - 1 : A[i] = IF i < p THEN F[i] ELSE F[i + 1]
      BY <1>1, <2>1, <3>1, RemoveAtProperties
    <3>3. /\ B \in Seq(FieldRec) /\ Len(B) = Len(F) - 1
          /\ \A i \in 1 .. Len(F) - 1 : B[i] = IF i < p THEN G[i] ELSE G[i + 1]
      BY <1>1, <2>1, <3>1, RemoveAtProperties
    <3>4. \A i \in 1 .. Len(F) - 1 : i \in 1 .. Len(F) /\ i + 1 \in 1 .. Len(F)
      BY <1>1
    <3> HIDE DEF A, B
    <3> QED
      BY <1>1, <3>2, <3>3, <3>4 DEF SameNames
  <2>2. CASE ~Has(F, f.name)
    BY <1>1, <2>2
  <2> QED
    BY <2>1, <2>2
<1> DEFINE n == IF index > Len(A) THEN Len(A) ELSE index
           q == n + 1
<1>4. Insert(F, index, f) = InsertAt(A, q, f) /\ Insert(G, index, g) = InsertAt(B, q, g)
  <2>1. Len(A) = Len(B)
    BY <1>3 DEF SameNames
  <2>2. Insert(F, index, f) = InsertAt(A, q, f)
    BY DEF Insert
  <2>3. Insert(G, index, g) = InsertAt(B, (IF index > Len(B) THEN Len(B) ELSE index) + 1, g)
    BY <1>2 DEF Insert
  <2> QED
    BY <2>1, <2>2, <2>3
<1> HIDE DEF A, B
<1>5. Len(A) \in Nat /\ Len(A) = Len(B) /\ \A i \in 1 .. Len(A) : A[i].name = B[i].name
  BY <1>3 DEF SameNames
<1>6. q \in 1 .. Len(A) + 1 /\ q \in 1 .. Len(B) + 1
  BY <1>5
<1> HIDE DEF q
<1>7. /\ Len(InsertAt(A, q, f)) = Len(A) + 1
      /\ \A i \in 1 .. Len(A) + 1 :
            InsertAt(A, q, f)[i] = IF i < q THEN A[i] ELSE IF i = q THEN f ELSE A[i - 1]
  BY <1>3, <1>6, InsertAtProperties
<1>8. /\ Len(InsertAt(B, q, g)) = Len(A) + 1
      /\ \A i \in 1 .. Len(A) + 1 :
            InsertAt(B, q, g)[i] = IF i < q THEN B[i] ELSE IF i = q THEN g ELSE B[i - 1]
  <2>1. /\ Len(InsertAt(B, q, g)) = Len(B) + 1
        /\ \A i \in 1 .. Len(B) + 1 :
              InsertAt(B, q, g)[i] = IF i < q THEN B[i] ELSE IF i = q THEN g ELSE B[i - 1]
    BY <1>3, <1>6, InsertAtProperties
  <2> QED
    BY <1>5, <2>1
<1>9. ASSUME NEW i \in 1 .. Len(A) + 1
      PROVE  InsertAt(A, q, f)[i].name = InsertAt(B, q, g)[i].name
  <2>1. CASE i < q
    <3>1. i \in 1 .. Len(A)
      BY <1>5, <1>6, <2>1
    <3> QED
      BY <1>5, <1>7, <1>8, <2>1, <3>1
  <2>2. CASE i = q
    BY <1>7, <1>8, <2>2
  <2>3. CASE ~(i < q) /\ i # q
    <3>1. i - 1 \in 1 .. Len(A)
      BY <1>5, <1>6, <2>3
    <3> QED
      BY <1>5, <1>7, <1>8, <2>3, <3>1
  <2> QED
    BY <2>1, <2>2, <2>3
<1> QED
  BY <1>4, <1>7, <1>8, <1>9 DEF SameNames

-----------------------------------------------------------------------------
(* The invariant of classes, and the actions that keep it.                  *)

ClassTypes ==
    /\ Sound(classes) /\ OwnOriginals(classes)
    /\ asked \in Seq(SUBSET ((Field \cup {All}) \X Token)) /\ Len(asked) = Len(classes)
    /\ DOMAIN flat \subseteq 1 .. Len(classes) /\ DOMAIN below \subseteq 1 .. Len(classes)

\* What is kept with a class is a variant, and each variant is found by its original.  It
\* extends something if that does.
VariantsKept ==
    /\ \A n \in DOMAIN variants :
          /\ n \in 1 .. Len(classes)
          /\ \A d \in variants[n] : d \in 1 .. Len(classes) /\ classes[d].orig # Absent
    /\ \A d \in 1 .. Len(classes) : classes[d].orig # Absent =>
          /\ d \in Found(classes, variants, classes[d].orig)
          /\ classes[d].extends = Absent => classes[classes[d].orig].extends = Absent

Listed ==
    \A n \in DOMAIN subclasses :
        n \in 1 .. Len(classes) /\ subclasses[n] \subseteq 1 .. Len(classes)

RebasedIn(cs, c) ==
    \E d \in Line(cs, c) : cs[d].extends # Absent /\ cs[Root(cs, d)].extends = Absent

\* All that was asked is due.
AllDue ==
    \A c \in 1 .. Len(classes) : ~RebasedIn(classes, c) =>
        \A a \in asked[c] : Due(classes, again, c, a)

\* VariantsFollow, of classes and variants.
SharedIn(cs, dicts, c) ==
    \E d \in 1 .. Len(cs) : d # c /\ Found(cs, dicts, d) \cap Found(cs, dicts, c) # {}
FollowIn(cs, dicts, given) ==
    \A c \in 1 .. Len(cs) : cs[c].orig # Absent =>
        /\ ToSet(Names(cs[cs[c].orig].fields)) \subseteq ToSet(Names(cs[c].fields))
        /\ c \notin given /\ ~SharedIn(cs, dicts, cs[c].orig) =>
              Names(cs[c].fields) = Names(cs[cs[c].orig].fields)
Follow == FollowIn(classes, variants, direct)

\* The invariant.  Follow and AllDue are about what is there, NothingStale about
\* what is kept of it.
ClassInv == ClassTypes /\ VariantsKept /\ Listed /\ Follow /\ AllDue /\ NothingStale

LEMMA ClassFacts ==
    ASSUME ClassInv
    PROVE  /\ Sound(classes) /\ OwnOriginals(classes) /\ Ordered(classes)
           /\ classes \in Seq(Class) /\ Len(classes) \in Nat
           /\ DOMAIN classes = 1 .. Len(classes)
           /\ \A c \in 1 .. Len(classes) : classes[c].orig # Absent =>
                 classes[c].orig \in 1 .. Len(classes) /\ classes[classes[c].orig].orig = Absent
<1>1. /\ Sound(classes) /\ OwnOriginals(classes) /\ Ordered(classes)
      /\ classes \in Seq(Class) /\ Len(classes) \in Nat
      /\ DOMAIN classes = 1 .. Len(classes)
  BY DEF ClassInv, ClassTypes, Sound, Ordered
<1>2. ASSUME NEW c \in 1 .. Len(classes), classes[c].orig # Absent
      PROVE  classes[c].orig \in 1 .. Len(classes) /\ classes[classes[c].orig].orig = Absent
  <2>1. classes[c].orig \in 0 .. c - 1
    BY <1>1 DEF Ordered
  <2>2. classes[c].orig \in 1 .. Len(classes)
    BY <1>1, <1>2, <2>1 DEF Absent
  <2> QED
    BY <1>1, <1>2, <2>2 DEF OwnOriginals
<1> QED
  BY <1>1, <1>2

\* What is due stays so when classes are defined and customized.
LEMMA SameDue ==
    ASSUME NEW cs, Sound(cs), NEW ds, Sound(ds), Len(cs) <= Len(ds),
           \A c \in 1 .. Len(cs) : ds[c] = cs[c],
           NEW ag, NEW ag2, ag \subseteq ag2,
           NEW c \in 1 .. Len(cs), NEW a, Due(cs, ag, c, a)
    PROVE  Due(ds, ag2, c, a)
<1>1. Line(ds, c) = Line(cs, c)
  <2>1. c \in 0 .. Len(cs)
    BY DEF Sound, Ordered
  <2> QED
    BY <2>1, SameChain DEF Sound, Line
<1>2. \A d \in Line(cs, c) : ds[d] = cs[d]
  <2>1. Line(cs, c) \subseteq 1 .. Len(cs)
    BY LineFrom
  <2> QED
    BY <2>1
<1>3. \A d, k : Nearest(ds, c, d, k) <=> Nearest(cs, c, d, k)
  BY <1>1, <1>2 DEF Nearest
<1>4. DueAll(cs, c, a[2]) => DueAll(ds, c, a[2])
  BY <1>1, <1>2 DEF DueAll
<1>5. DueField(cs, ag, c, a[1], a[2]) => DueField(ds, ag2, c, a[1], a[2])
  <2>1. \A d : Nearest(cs, c, d, a[1]) => d \in Line(cs, c)
    BY DEF Nearest
  <2> QED
    BY <1>1, <1>2, <1>3, <2>1 DEF DueField
<1> QED
  BY <1>4, <1>5 DEF Due

\* Who is rebased stays so, and nobody becomes it.
LEMMA SameRebased ==
    ASSUME NEW cs, Sound(cs), OwnOriginals(cs), NEW ds, Sound(ds), Len(cs) <= Len(ds),
           \A c \in 1 .. Len(cs) : ds[c].extends = cs[c].extends /\ ds[c].orig = cs[c].orig,
           NEW c \in 1 .. Len(cs)
    PROVE  RebasedIn(ds, c) <=> RebasedIn(cs, c)
<1>1. Line(ds, c) = Line(cs, c)
  <2>1. c \in 0 .. Len(cs)
    BY DEF Sound, Ordered
  <2> QED
    BY <2>1, SameChain DEF Sound, Line
<1>2. ASSUME NEW d \in Line(cs, c)
      PROVE  /\ ds[d].extends = cs[d].extends
             /\ ds[Root(ds, d)].extends = cs[Root(cs, d)].extends
  <2>1. d \in 1 .. Len(cs) /\ Len(cs) \in Nat
    BY LineFrom
  <2>2. Root(cs, d) \in 1 .. d
    BY <2>1, RootRule DEF Sound
  <2>3. Root(cs, d) \in 1 .. Len(cs)
    BY <2>1, <2>2
  <2>4. Root(ds, d) = Root(cs, d)
    BY <2>1 DEF Root
  <2> QED
    BY <2>1, <2>3, <2>4
<1> QED
  BY <1>1, <1>2 DEF RebasedIn

\* If more is listed, more is below.
LEMMA BelowGrows ==
    ASSUME NEW cs, NEW ds, DOMAIN cs \subseteq DOMAIN ds, NEW subs, NEW more,
           \A e \in DOMAIN cs : /\ Found(cs, subs, e) \subseteq Found(ds, more, e)
                                /\ Found(cs, subs, e) \subseteq DOMAIN cs,
           NEW c \in DOMAIN cs
    PROVE  Subclasses(cs, subs, Empty, c) \subseteq Subclasses(ds, more, Empty, c)
<1>1. \A x, y, e : Said(x, y, Empty, e) = Found(x, y, e)
  BY DEF Said, Empty
<1> SUFFICES ASSUME NEW d \in Subclasses(cs, subs, Empty, c),
                    NEW S \in SUBSET DOMAIN ds, Found(ds, more, c) \subseteq S,
                    \A e \in S : Found(ds, more, e) \subseteq S
             PROVE  d \in DOMAIN ds /\ d \in S
  <2>1. \A d \in Subclasses(cs, subs, Empty, c) : d \in DOMAIN cs
    BY DEF Subclasses
  <2> QED
    BY <1>1, <2>1 DEF Subclasses
<1> DEFINE T == S \cap DOMAIN cs
<1>2. /\ T \in SUBSET DOMAIN cs
      /\ Found(cs, subs, c) \subseteq T
      /\ \A e \in T : Found(cs, subs, e) \subseteq T
  OBVIOUS
<1>3. d \in T
  <2> HIDE DEF T
  <2> QED
    BY <1>1, <1>2 DEF Subclasses
<1> QED
  BY <1>3

\* What an attribute holds is what is found in it.
LEMMA FoundWithin ==
    ASSUME NEW cs, NEW attr, NEW S, \A n \in DOMAIN attr : attr[n] \subseteq S, NEW c
    PROVE  Found(cs, attr, c) \subseteq S
  BY DEF Found, Own

\* Variants that two classes share are shared as long as none is lost.
LEMMA SharedStays ==
    ASSUME NEW cs, NEW ds, Len(cs) \in Nat, Len(ds) \in Nat, Len(cs) <= Len(ds),
           NEW dicts, NEW more, NEW o \in 1 .. Len(cs), SharedIn(cs, dicts, o),
           \A d \in 1 .. Len(cs) : Found(cs, dicts, d) \subseteq Found(ds, more, d)
    PROVE  SharedIn(ds, more, o)
<1>1. PICK d \in 1 .. Len(cs) : d # o /\ Found(cs, dicts, d) \cap Found(cs, dicts, o) # {}
  BY DEF SharedIn
<1>2. Found(ds, more, d) \cap Found(ds, more, o) # {}
  BY <1>1
<1>3. d \in 1 .. Len(ds)
  OBVIOUS
<1> QED
  BY <1>1, <1>2, <1>3 DEF SharedIn

\* A class statement makes a class.
LEMMA NewClassRule ==
    ASSUME NEW cs, Sound(cs), NEW base \in {Absent} \cup DOMAIN cs,
           NEW mixin \in {Absent} \cup DOMAIN cs, NEW fields, Distinct(fields)
    PROVE  LET new == NewClass(cs, base, mixin, fields)
           IN  /\ new \in Class /\ Distinct(new.fields)
               /\ new.orig = Absent /\ new.extends \in 0 .. Len(cs)
               /\ new.base \in 0 .. Len(cs) /\ new.mixin \in 0 .. Len(cs)
<1> DEFINE new == NewClass(cs, base, mixin, fields)
           up == IF base = Absent THEN Absent
                 ELSE IF cs[base].fields = <<>> THEN cs[base].extends ELSE base
           F == IF mixin = Absent THEN fields ELSE Mixed(fields, FlatTypeInfo(cs, mixin))
<1>1. DOMAIN cs = 1 .. Len(cs) /\ Len(cs) \in Nat
  BY DEF Sound, Ordered
<1>2. Distinct(F)
  <2>1. mixin # Absent => mixin \in 0 .. Len(cs)
    BY <1>1
  <2>2. mixin # Absent => Distinct(FlatTypeInfo(cs, mixin))
    BY <2>1, InfoEquations
  <2> QED
    BY <2>2, MixedRule
<1>3. base \in 0 .. Len(cs) /\ mixin \in 0 .. Len(cs)
  BY <1>1 DEF Absent
<1>4. up \in 0 .. Len(cs)
  <2>1. CASE base = Absent
    BY <1>1, <2>1 DEF Absent
  <2>2. CASE base # Absent
    <3>1. base \in 1 .. Len(cs) /\ cs[base].extends \in 0 .. base - 1
      BY <1>1, <2>2 DEF Sound, Ordered
    <3>2. cs[base].extends \in 0 .. Len(cs)
      BY <1>1, <3>1
    <3> QED
      BY <1>3, <2>2, <3>2
  <2> QED
    BY <2>1, <2>2
<1>5. new = [orig |-> Absent, base |-> base, mixin |-> mixin, all |-> {},
             delayed |-> [k \in Field |-> {}], extends |-> up, fields |-> F]
  BY DEF NewClass
<1>6. F \in Seq(FieldRec) /\ up \in Nat /\ base \in Nat /\ mixin \in Nat
  BY <1>1, <1>2, <1>3, <1>4 DEF Distinct
<1> HIDE DEF up, F, new
<1> QED
  BY <1>2, <1>3, <1>4, <1>5, <1>6 DEF Class, Absent, new

\* It is put on the list that what it extends finds, or on one of that.
LEMMA RegisteredRule ==
    ASSUME NEW ds, Ordered(ds), NEW L \in Nat, Len(ds) = L + 1, ds[L + 1].extends \in 0 .. L,
           NEW subs, \A n \in DOMAIN subs : n \in 1 .. L /\ subs[n] \subseteq 1 .. L
    PROVE  LET more == Registered(ds, subs, L + 1)
           IN  /\ \A n \in DOMAIN subs : n \in DOMAIN more /\ subs[n] \subseteq more[n]
               /\ \A n \in DOMAIN more : n \in 1 .. L + 1 /\ more[n] \subseteq 1 .. L + 1
               /\ \A n \in 1 .. L :
                     n \in DOMAIN more /\ n \notin DOMAIN subs => Found(ds, subs, n) = {}
<1> DEFINE e == ds[L + 1].extends
           l == IF Found(ds, subs, e) = {} THEN e ELSE Lookup(ds, subs, e)
           listed == [n \in DOMAIN subs \cup {l} |->
                         IF n = l THEN Own(subs, n) \cup {L + 1} ELSE subs[n]]
           one == IF Lookup(ds, listed, L + 1) = l THEN {L + 1} ELSE {}
           more == Registered(ds, subs, L + 1)
<1>1. 1 .. L \subseteq 1 .. L + 1 /\ L + 1 \in 1 .. L + 1 /\ L + 1 \notin 1 .. L
  OBVIOUS
<1>2. CASE e = Absent
  <2>1. more = subs
    BY <1>2 DEF Registered
  <2> QED
    BY <1>1, <2>1
<1>3. CASE e # Absent
  <2>1. more = [n \in DOMAIN listed \cup one |-> Own(listed, n)]
    BY <1>3 DEF Registered
  <2>2. e \in 1 .. L
    BY <1>3 DEF Absent
  <2>3. l \in 1 .. L /\ (l \notin DOMAIN subs => l = e /\ Found(ds, subs, e) = {})
    <3>1. CASE Found(ds, subs, e) = {}
      BY <2>2, <3>1
    <3>2. CASE Found(ds, subs, e) # {}
      <4>1. Lookup(ds, subs, e) \in DOMAIN subs
        BY <3>2 DEF Found, Own
      <4> QED
        BY <3>2, <4>1
    <3> QED
      BY <3>1, <3>2
  <2> HIDE DEF l, more, e
  <2>4. one \subseteq {L + 1}
    OBVIOUS
  <2> HIDE DEF one
  <2>5. /\ DOMAIN listed = DOMAIN subs \cup {l}
        /\ \A n \in DOMAIN subs : subs[n] \subseteq listed[n]
        /\ \A n \in DOMAIN listed : listed[n] \subseteq 1 .. L + 1
    BY <1>1 DEF Own
  <2> HIDE DEF listed
  <2>6. /\ DOMAIN more = DOMAIN listed \cup one
        /\ \A n \in DOMAIN more : more[n] = IF n \in DOMAIN listed THEN listed[n] ELSE {}
    BY <2>1 DEF Own
  <2>7. \A n \in DOMAIN subs : n \in DOMAIN more /\ subs[n] \subseteq more[n]
    BY <2>5, <2>6
  <2>8. \A n \in DOMAIN more : n \in 1 .. L + 1 /\ more[n] \subseteq 1 .. L + 1
    <3> TAKE n \in DOMAIN more
    <3>1. n \in 1 .. L \/ n = L + 1
      BY <2>3, <2>4, <2>5, <2>6
    <3>2. more[n] \subseteq 1 .. L + 1
      BY <2>5, <2>6
    <3> QED
      BY <1>1, <3>1, <3>2
  <2>9. \A n \in 1 .. L : n \in DOMAIN more /\ n \notin DOMAIN subs => Found(ds, subs, n) = {}
    BY <1>1, <2>3, <2>4, <2>5, <2>6
  <2> QED
    BY <2>7, <2>8, <2>9 DEF more
<1> QED
  BY <1>2, <1>3

\* The variants of a chain are kept where the originals find them.
VariantsPut(cs, ds, dicts, chain, more) ==
    LET L == Len(cs)
        m == Len(chain)
    IN  /\ \A n \in DOMAIN dicts : n \in DOMAIN more /\ dicts[n] \subseteq more[n]
        /\ \A n \in 1 .. L :
              n \in DOMAIN more /\ n \notin DOMAIN dicts => Lookup(cs, dicts, n) = 0
        /\ \A n \in DOMAIN more :
              /\ n \in 1 .. L + m
              /\ \A d \in more[n] : \/ n \in DOMAIN dicts /\ d \in dicts[n]
                                    \/ \E i \in 1 .. m : d = L + i
        /\ \A i \in 1 .. m : L + i \in Found(ds, more, Root(cs, chain[i]))

LEMMA KeepVariantsRule ==
    ASSUME NEW cs, OwnOriginals(cs), NEW ds, SameParents(cs, ds),
           NEW chain, chain \in Seq(1 .. Len(cs)), Len(ds) = Len(cs) + Len(chain),
           NEW dicts, DOMAIN dicts \subseteq 1 .. Len(cs)
    PROVE  VariantsPut(cs, ds, dicts, chain, KeepVariants(cs, dicts, chain))
<1> DEFINE L == Len(cs)
           m == Len(chain)
           keeper(i) == Keeper(cs, dicts, chain[i])
           kept(n) == {L + i : i \in {j \in 1 .. m : keeper(j) = n}}
           more == KeepVariants(cs, dicts, chain)
<1>1. /\ Ordered(cs) /\ Ordered(ds) /\ L \in Nat /\ DOMAIN chain = 1 .. m
      /\ \A i \in 1 .. m : chain[i] \in 1 .. L
  <2>1. Ordered(cs) /\ Ordered(ds)
    BY DEF SameParents
  <2>2. Len(cs) \in Nat
    BY <2>1 DEF Ordered
  <2> QED
    BY <2>1, <2>2
<1>2. ASSUME NEW i \in 1 .. m
      PROVE  LET r == Root(cs, chain[i])
                 x == Lookup(cs, dicts, r)
             IN  /\ r \in 1 .. L
                 /\ \/ x = 0 /\ keeper(i) = r
                    \/ x # 0 /\ x \in DOMAIN dicts /\ keeper(i) = x
  <2> DEFINE b == chain[i]
             r == Root(cs, b)
             x == Lookup(cs, dicts, r)
  <2>1. b \in 1 .. L
    BY <1>1
  <2> HIDE DEF b
  <2>2. r \in 1 .. b
    BY <1>1, <2>1, RootRule
  <2> HIDE DEF r
  <2>3. r \in 1 .. L /\ r \in 0 .. L
    BY <1>1, <2>1, <2>2
  <2>4. x \in {0} \cup DOMAIN dicts
    BY <1>1, <2>3, LookupEquations
  <2>5. Keeper(cs, dicts, b) = IF x = 0 THEN r ELSE x
    BY DEF Keeper, Absent, r
  <2> QED
    BY <2>3, <2>4, <2>5 DEF b, r
<1>3. more = [n \in DOMAIN dicts \cup {keeper(i) : i \in 1 .. m} \cup {L + i : i \in 1 .. m} |->
                Own(dicts, n) \cup kept(n)]
  BY <1>1 DEF KeepVariants
<1> HIDE DEF more, L, keeper
<1>4. \A n \in DOMAIN dicts : n \in DOMAIN more /\ dicts[n] \subseteq more[n]
  BY <1>3 DEF Own
<1>5. \A i \in 1 .. m : keeper(i) \in 1 .. L
  BY <1>2 DEF L
<1>6. \A i \in 1 .. m : L + i \in 1 .. L + m /\ L + i \notin 1 .. L
  BY <1>1
<1>7. ASSUME NEW n \in 1 .. L, n \in DOMAIN more, n \notin DOMAIN dicts
      PROVE  Lookup(cs, dicts, n) = 0
  <2>1. PICK i \in 1 .. m : n = keeper(i)
    BY <1>3, <1>6, <1>7
  <2> QED
    BY <1>2, <1>7, <2>1
<1>8. ASSUME NEW n \in DOMAIN more
      PROVE  /\ n \in 1 .. L + m
             /\ \A d \in more[n] : \/ n \in DOMAIN dicts /\ d \in dicts[n]
                                   \/ \E i \in 1 .. m : d = L + i
  <2>1. 1 .. L \subseteq 1 .. L + m
    BY <1>1
  <2>2. n \in 1 .. L + m
    BY <1>3, <1>5, <1>6, <2>1 DEF L
  <2> QED
    BY <1>3, <2>2 DEF Own
<1>9. ASSUME NEW i \in 1 .. m
      PROVE  L + i \in Found(ds, more, Root(cs, chain[i]))
  <2> DEFINE r == Root(cs, chain[i])
             x == Lookup(cs, dicts, r)
  <2>1. /\ r \in 1 .. L
        /\ \/ x = 0 /\ keeper(i) = r
           \/ x # 0 /\ x \in DOMAIN dicts /\ keeper(i) = x
    BY <1>2
  <2>2. keeper(i) \in DOMAIN more /\ L + i \in more[keeper(i)]
    BY <1>3
  <2> HIDE DEF r
  <2>3. Lookup(ds, more, r) = keeper(i)
    <3>1. CASE x = 0
      <4>1. r \in 1 .. Len(ds) /\ r \in DOMAIN more /\ keeper(i) = r
        BY <1>1, <2>1, <2>2, <3>1 DEF L
      <4> QED
        BY <1>1, <4>1, LookupEquations
    <3>2. CASE x # 0
      <4>1. r \in 0 .. Len(cs) /\ DOMAIN dicts \subseteq DOMAIN more
        BY <1>1, <1>4, <2>1 DEF L
      <4>2. \A n \in 1 .. Len(cs) :
               n \in DOMAIN more /\ n \notin DOMAIN dicts => Lookup(cs, dicts, n) # x
        BY <1>7, <3>2 DEF L
      <4> HIDE DEF x
      <4>3. Lookup(ds, more, r) = x
        <5>1. Lookup(cs, dicts, r) = x
          BY DEF x
        <5>2. SameParents(cs, ds)
          OBVIOUS
        <5> QED
          BY ONLY <4>1, <4>2, <5>1, <5>2, LookupStays
      <4> QED
        BY <2>1, <3>2, <4>3
    <3> QED
      BY <3>1, <3>2
  <2> QED
    BY <2>2, <2>3 DEF Found, Own, r
<1> QED
  BY <1>4, <1>7, <1>8, <1>9 DEF VariantsPut, L, more

\* A new class is nobody's base yet.
LEMMA DefineKeeps ==
    ASSUME ClassInv, NEW base \in {Absent} \cup DOMAIN classes,
           NEW mixin \in {Absent} \cup DOMAIN classes, NEW fields, Distinct(fields),
           Define(base, mixin, fields)
    PROVE  ClassInv'
<1> DEFINE L == Len(classes)
           new == NewClass(classes, base, mixin, fields)
<1>1. /\ Sound(classes) /\ OwnOriginals(classes) /\ Ordered(classes)
      /\ classes \in Seq(Class) /\ L \in Nat /\ DOMAIN classes = 1 .. L
  BY ClassFacts
<1>2. /\ new \in Class /\ Distinct(new.fields)
      /\ new.orig = Absent /\ new.extends \in 0 .. L
      /\ new.base \in 0 .. L /\ new.mixin \in 0 .. L
  BY <1>1, NewClassRule
<1>3. classes' = Append(classes, new) /\ asked' = Append(asked, {})
  BY DEF Define, Defined
<1> HIDE DEF new
<1>4. /\ classes' \in Seq(Class) /\ Len(classes') = L + 1
      /\ \A c \in 1 .. L : classes'[c] = classes[c]
      /\ classes'[L + 1] = new
      /\ DOMAIN classes' = 1 .. L + 1
  BY <1>1, <1>2, <1>3
<1>5. \A c \in 1 .. L + 1 : c \in 1 .. L \/ c = L + 1
  BY <1>1
<1>6. Ordered(classes')
  <2>1. ASSUME NEW c \in 1 .. L + 1
        PROVE  /\ classes'[c].extends \in 0 .. c - 1 /\ classes'[c].orig \in 0 .. c - 1
               /\ classes'[c].base \in 0 .. c - 1 /\ classes'[c].mixin \in 0 .. c - 1
    <3>1. CASE c \in 1 .. L
      BY <1>1, <1>4, <3>1 DEF Ordered
    <3>2. CASE c = L + 1
      BY <1>1, <1>2, <1>4, <3>2 DEF Absent
    <3> QED
      BY <1>5, <3>1, <3>2
  <2> QED
    BY <1>4, <2>1 DEF Ordered
<1>7. Sound(classes')
  <2>1. ASSUME NEW c \in 1 .. L + 1 PROVE Distinct(classes'[c].fields)
    BY <1>1, <1>2, <1>4, <1>5 DEF Sound
  <2> QED
    BY <1>4, <1>6, <2>1 DEF Sound
<1>8. ASSUME NEW c \in 1 .. L, classes[c].orig # Absent
      PROVE  /\ classes[c].orig \in 1 .. L
             /\ classes'[classes[c].orig] = classes[classes[c].orig]
             /\ classes[classes[c].orig].orig = Absent
  BY <1>4, <1>8, ClassFacts
<1>9. OwnOriginals(classes')
  <2> SUFFICES ASSUME NEW c \in 1 .. L + 1, classes'[c].orig # Absent
               PROVE  classes'[classes'[c].orig].orig = Absent
    BY <1>4 DEF OwnOriginals
  <2>1. c \in 1 .. L /\ classes'[c] = classes[c]
    BY <1>2, <1>4, <1>5
  <2> QED
    BY <1>8, <2>1
<1>10. \A c \in 0 .. L : FlatTypeInfo(classes', c) = FlatTypeInfo(classes, c)
  <2>1. L <= Len(classes')
    BY <1>1, <1>4
  <2> QED
    BY <1>1, <1>4, <1>7, <2>1, SameInfo
<1>11. ClassTypes'
  <2>1. /\ asked' \in Seq(SUBSET ((Field \cup {All}) \X Token)) /\ Len(asked') = L + 1
    BY <1>3 DEF ClassInv, ClassTypes
  <2>2. DOMAIN flat' \subseteq 1 .. L + 1 /\ DOMAIN below' \subseteq 1 .. L + 1
    <3>1. DOMAIN Empty = {}
      BY DEF Empty
    <3>2. 1 .. L \subseteq 1 .. L + 1 /\ DOMAIN flat \subseteq 1 .. L /\ DOMAIN below \subseteq 1 .. L
      BY <1>1 DEF ClassInv, ClassTypes
    <3>3. DOMAIN flat' \subseteq DOMAIN flat \cup 1 .. L
      BY <1>1 DEF Define, Defined, Memoized
    <3>4. DOMAIN below' \subseteq DOMAIN below
      BY <3>1 DEF Define
    <3> QED
      BY <3>2, <3>3, <3>4
  <2> QED
    BY <1>4, <1>7, <1>9, <2>1, <2>2 DEF ClassTypes
<1>12. SameParents(classes, classes')
  BY <1>1, <1>4, <1>6 DEF SameParents
<1>13. variants' = variants /\ DOMAIN variants \subseteq 1 .. L
  BY DEF Define, Defined, ClassInv, VariantsKept
<1>14. \A c \in 1 .. L : Found(classes', variants', c) = Found(classes, variants, c)
  <2>1. \A c \in 0 .. L : Found(classes', variants, c) = Found(classes, variants, c)
    BY <1>12, <1>13, FoundStays
  <2>2. \A c \in 1 .. L : c \in 0 .. L
    BY <1>1
  <2> QED
    BY <1>13, <2>1, <2>2
<1>15. VariantsKept'
  <2>1. ASSUME NEW n \in DOMAIN variants'
        PROVE  /\ n \in 1 .. Len(classes')
               /\ \A d \in variants'[n] : d \in 1 .. Len(classes') /\ classes'[d].orig # Absent
    <3>1. n \in 1 .. L /\ \A d \in variants[n] : d \in 1 .. L /\ classes[d].orig # Absent
      BY <1>13 DEF ClassInv, VariantsKept
    <3>2. 1 .. L \subseteq 1 .. Len(classes')
      BY <1>1, <1>4
    <3> QED
      BY <1>4, <1>13, <3>1, <3>2
  <2>2. ASSUME NEW d \in 1 .. Len(classes'), classes'[d].orig # Absent
        PROVE  /\ d \in Found(classes', variants', classes'[d].orig)
               /\ classes'[d].extends = Absent => classes'[classes'[d].orig].extends = Absent
    <3>1. d \in 1 .. L /\ classes'[d] = classes[d]
      BY <1>2, <1>4, <1>5, <2>2
    <3>2. /\ d \in Found(classes, variants, classes[d].orig)
          /\ classes[d].extends = Absent => classes[classes[d].orig].extends = Absent
      BY <2>2, <3>1 DEF ClassInv, VariantsKept
    <3> QED
      BY <1>8, <1>14, <2>2, <3>1, <3>2
  <2> QED
    BY <2>1, <2>2 DEF VariantsKept
<1>16. /\ Listed'
       /\ \A c \in 1 .. L :
             Found(classes, subclasses, c) \subseteq Found(classes', subclasses', c)
  <2>1. subclasses' = Registered(classes', subclasses, L + 1)
    BY <1>4 DEF Define, Defined
  <2>2. \A n \in DOMAIN subclasses : n \in 1 .. L /\ subclasses[n] \subseteq 1 .. L
    BY DEF ClassInv, Listed
  <2>3. classes'[L + 1].extends \in 0 .. L
    BY <1>2, <1>4
  <2>4. /\ \A n \in DOMAIN subclasses :
              n \in DOMAIN subclasses' /\ subclasses[n] \subseteq subclasses'[n]
        /\ \A n \in DOMAIN subclasses' : n \in 1 .. L + 1 /\ subclasses'[n] \subseteq 1 .. L + 1
        /\ \A n \in 1 .. L : n \in DOMAIN subclasses' /\ n \notin DOMAIN subclasses
              => Found(classes', subclasses, n) = {}
    BY <1>1, <1>4, <1>6, <2>1, <2>2, <2>3, RegisteredRule
  <2>5. \A c \in 0 .. L : Found(classes', subclasses, c) = Found(classes, subclasses, c)
    BY <1>12, <2>2, FoundStays
  <2>6. \A n \in 1 .. L : n \in 0 .. L
    BY <1>1
  <2>7. \A n \in 1 .. L : n \in DOMAIN subclasses' /\ n \notin DOMAIN subclasses
           => Found(classes, subclasses, n) = {}
    BY <2>4, <2>5, <2>6
  <2>8. \A c \in 0 .. L : Found(classes, subclasses, c) \subseteq Found(classes', subclasses', c)
    BY <1>12, <2>4, <2>7, FoundGrows
  <2>9. Listed'
    BY <1>4, <2>4 DEF Listed
  <2> QED
    BY <2>6, <2>8, <2>9
<1>17. Follow'
  <2> SUFFICES ASSUME NEW c \in 1 .. L + 1, classes'[c].orig # Absent
               PROVE  LET orig == classes'[c].orig
                      IN  /\ ToSet(Names(classes'[orig].fields)) \subseteq
                                ToSet(Names(classes'[c].fields))
                          /\ c \notin direct' /\ ~SharedIn(classes', variants', orig) =>
                                Names(classes'[c].fields) = Names(classes'[orig].fields)
    BY <1>4 DEF Follow, FollowIn
  <2>1. c \in 1 .. L /\ classes'[c] = classes[c]
    BY <1>2, <1>4, <1>5
  <2> DEFINE o == classes[c].orig
  <2>2. o \in 1 .. L /\ classes'[o] = classes[o]
    BY <1>8, <2>1
  <2>3. ~SharedIn(classes', variants', o) => ~SharedIn(classes, variants, o)
    <3> HIDE DEF o
    <3>1. Len(classes') \in Nat /\ Len(classes) <= Len(classes')
      BY <1>1, <1>4
    <3> QED
      BY <1>1, <1>14, <2>2, <3>1, SharedStays
  <2>4. direct' = direct
    BY DEF Define, Defined
  <2>5. /\ ToSet(Names(classes[o].fields)) \subseteq ToSet(Names(classes[c].fields))
        /\ c \notin direct /\ ~SharedIn(classes, variants, o) =>
              Names(classes[c].fields) = Names(classes[o].fields)
    BY <2>1 DEF ClassInv, Follow, FollowIn
  <2> QED
    BY <2>1, <2>2, <2>3, <2>4, <2>5
<1>18. AllDue'
  <2> SUFFICES ASSUME NEW c \in 1 .. L + 1, ~RebasedIn(classes', c), NEW a \in asked'[c]
               PROVE  Due(classes', again', c, a)
    BY <1>4 DEF AllDue
  <2>1. asked \in Seq(SUBSET ((Field \cup {All}) \X Token)) /\ Len(asked) = L
    BY DEF ClassInv, ClassTypes
  <2>2. asked'[L + 1] = {} /\ \A d \in 1 .. L : asked'[d] = asked[d]
    BY <1>3, <2>1
  <2>3. c \in 1 .. L /\ a \in asked[c]
    BY <1>5, <2>2
  <2>4. L <= Len(classes') /\ again \subseteq again'
    BY <1>1, <1>4 DEF Define, Defined
  <2>5. ~RebasedIn(classes, c)
    BY <1>1, <1>4, <1>7, <2>3, <2>4, SameRebased
  <2>6. Due(classes, again, c, a)
    BY <2>3, <2>5 DEF ClassInv, AllDue
  <2> QED
    BY <1>1, <1>4, <1>7, <2>3, <2>4, <2>6, SameDue
<1>19. NothingStale'
  <2>1. ASSUME NEW c \in DOMAIN flat' PROVE flat'[c] = FlatTypeInfo(classes', c)
    <3>1. c \in 1 .. L /\ flat'[c] = FlatTypeInfo(classes, c)
      <4>1. flat' = IF mixin = Absent THEN flat ELSE Memoized(mixin)
        BY DEF Define, Defined
      <4>2. c \in DOMAIN flat => c \in 1 .. L /\ flat[c] = FlatTypeInfo(classes, c)
        BY DEF ClassInv, ClassTypes, NothingStale
      <4> QED
        BY <1>1, <4>1, <4>2 DEF Memoized
    <3>2. c \in 0 .. L
      BY <1>1, <3>1
    <3> QED
      BY <1>10, <3>1, <3>2
  <2>2. ASSUME NEW c \in DOMAIN below'
        PROVE  below'[c] \subseteq Subclasses(classes', subclasses', Empty, c)
    <3>1. c \in DOMAIN below /\ below'[c] = below[c]
      <4>1. DOMAIN Empty = {}
        BY DEF Empty
      <4> QED
        BY <4>1 DEF Define
    <3>2. c \in 1 .. L /\ below[c] \subseteq Subclasses(classes, subclasses, Empty, c)
      BY <3>1 DEF ClassInv, ClassTypes, NothingStale
    <3>3. \A e \in DOMAIN classes : Found(classes, subclasses, e) \subseteq DOMAIN classes
      BY <1>1, FoundWithin DEF ClassInv, Listed
    <3>4. DOMAIN classes \subseteq DOMAIN classes'
      BY <1>1, <1>4
    <3>5. Subclasses(classes, subclasses, Empty, c)
             \subseteq Subclasses(classes', subclasses', Empty, c)
      BY <1>1, <1>16, <3>2, <3>3, <3>4, BelowGrows
    <3> QED
      BY <3>1, <3>2, <3>5
  <2> QED
    BY <2>1, <2>2 DEF NothingStale
<1> QED
  BY <1>11, <1>15, <1>16, <1>17, <1>18, <1>19 DEF ClassInv

\* The variants that customize makes have what was asked of their class, and the latest.
LEMMA CustomizesKeeps ==
    ASSUME ClassInv, NEW c \in DOMAIN classes, NEW k \in Field \cup {All}, NEW t \in Token,
           Customizes(c, k, t)
    PROVE  ClassInv'
<1> DEFINE L == Len(classes)
           rs == Rebase(classes)
           chain == Chain(rs, c)
           m == Len(chain)
           own(d) == OwnsField(rs, d, k)
           every == MadeAll(rs, c, t)
           one == MadeOne(rs, c, k, t)
           made == IF k = All THEN every ELSE one
<1>1. /\ Sound(classes) /\ OwnOriginals(classes) /\ Ordered(classes)
      /\ classes \in Seq(Class) /\ L \in Nat /\ DOMAIN classes = 1 .. L
      /\ c \in 1 .. L
  BY ClassFacts
<1>r. /\ Sound(rs) /\ OwnOriginals(rs) /\ Ordered(rs) /\ Len(rs) = L
      /\ \A d \in 1 .. L :
            /\ rs[d].orig = classes[d].orig /\ rs[d].base = classes[d].base
            /\ rs[d].mixin = classes[d].mixin /\ rs[d].all = classes[d].all
            /\ rs[d].delayed = classes[d].delayed /\ rs[d].fields = classes[d].fields
            /\ classes[d].extends # Absent => rs[d].extends = classes[d].extends
  <2> HIDE DEF rs
  <2>1. /\ Sound(rs) /\ OwnOriginals(rs) /\ Len(rs) = L
        /\ \A d \in 1 .. L :
              /\ rs[d].orig = classes[d].orig /\ rs[d].base = classes[d].base
              /\ rs[d].mixin = classes[d].mixin /\ rs[d].all = classes[d].all
              /\ rs[d].delayed = classes[d].delayed /\ rs[d].fields = classes[d].fields
              /\ classes[d].extends # Absent => rs[d].extends = classes[d].extends
    BY <1>1, RebaseRule DEF rs
  <2> QED
    BY <2>1 DEF Sound
<1>2. classes' = classes \o WithVariants(rs, c, made)
  BY DEF Customizes, ChildAttrsAll, ChildAttrs, MadeAll, MadeOne, OwnsField,
         FieldDone, FieldInherited
<1> HIDE DEF rs
<1>3. k = All => /\ Carried(rs, c, made)
                 /\ \A d \in Line(rs, c) :
                       /\ made[d].all = {t}
                       /\ made[d].delayed = rs[d].delayed
                       /\ \A f \in ToSet(made[d].fields) : t \in f.cust
  <2> HIDE DEF every, one
  <2>1. /\ Carried(rs, c, every)
        /\ \A d \in Line(rs, c) :
              /\ every[d].all = {t}
              /\ every[d].delayed = rs[d].delayed
              /\ \A f \in ToSet(every[d].fields) : t \in f.cust
    BY <1>1, <1>r, AllCarried DEF every
  <2> QED
    BY <2>1
<1>4. k # All =>
        /\ Carried(rs, c, made)
        /\ \A d \in Line(rs, c) :
              /\ made[d].all = rs[d].all
              /\ \A j \in Field : j # k => made[d].delayed[j] = rs[d].delayed[j]
              /\ Nearest(rs, c, d, k) /\ own(d) =>
                    \E f \in ToSet(made[d].fields) : f.name = k /\ t \in f.cust
        /\ (\A d \in Line(rs, c) : ~own(d)) =>
              \A d \in Line(rs, c) : t \in made[d].delayed[k]
  <2> SUFFICES ASSUME k # All
               PROVE  /\ Carried(rs, c, one)
                      /\ \A d \in Line(rs, c) :
                            /\ one[d].all = rs[d].all
                            /\ \A j \in Field : j # k =>
                                  one[d].delayed[j] = rs[d].delayed[j]
                            /\ Nearest(rs, c, d, k) /\ own(d) =>
                                  \E f \in ToSet(one[d].fields) : f.name = k /\ t \in f.cust
                      /\ (\A d \in Line(rs, c) : ~own(d)) =>
                            \A d \in Line(rs, c) : t \in one[d].delayed[k]
    OBVIOUS
  <2>1. k \in Field
    OBVIOUS
  <2> QED
    BY <1>1, <1>r, <2>1, OneCarried
<1> HIDE DEF made, own, every, one
<1>5. Carried(rs, c, made)
  BY <1>3, <1>4
<1>6. /\ Copied(rs, c, made, classes')
      /\ Sound(classes') /\ OwnOriginals(classes') /\ Len(classes') = L + m
      /\ \A d \in 1 .. L : classes'[d] = classes[d]
      /\ \A i \in 1 .. m : /\ classes'[L + i].all = made[chain[i]].all
                           /\ classes'[L + i].delayed = made[chain[i]].delayed
                           /\ classes'[L + i].fields = made[chain[i]].fields
                           /\ classes'[L + i].orig = Root(rs, chain[i])
                           /\ classes'[L + i].extends = IF i = 1 THEN Absent ELSE L + i - 1
  <2>1. \A d \in Line(rs, c) : /\ made[d] \in Class /\ Distinct(made[d].fields)
                              /\ made[d].base = rs[d].base /\ made[d].mixin = rs[d].mixin
    BY <1>5 DEF Carried
  <2>2. c \in 1 .. Len(rs) /\ Len(classes) = Len(rs)
        /\ \A d \in 1 .. Len(rs) : classes[d].orig = rs[d].orig
    BY <1>1, <1>r
  <2>3. Varied(classes, rs, c, made, classes')
    BY <1>1, <1>2, <1>r, <2>1, <2>2, WithVariantsRule, SMTT(30)
  <2> QED
    BY <1>r, <2>3 DEF Varied, Copied
<1>c. /\ Sound(rs) /\ c \in 1 .. Len(rs)
      /\ Copied(rs, c, made, classes')
  BY <1>1, <1>6, <1>r
<1>n. /\ Line(classes', Len(rs) + Len(chain)) = {Len(rs) + i : i \in 1 .. Len(chain)}
      /\ \A i \in 1 .. Len(chain) :
            Nearest(rs, c, chain[i], k) <=> Nearest(classes', Len(rs) + Len(chain), Len(rs) + i, k)
  <2>1. CopyShows(rs, c, classes', k)
    BY ONLY <1>5, <1>c, VariantNearest
  <2> QED
    BY <2>1 DEF CopyShows
<1>7. /\ chain \in Seq(1 .. L) /\ m \in Nat \ {0} /\ DOMAIN chain = 1 .. m
      /\ chain[m] = c
      /\ Line(rs, c) = {chain[i] : i \in 1 .. m}
      /\ \A i, j \in 1 .. m : i < j => chain[i] < chain[j]
  BY <1>1, <1>r, ChainOrder DEF Line, ToSet
<1> DEFINE newly == [i \in 1 .. m |->
                      IF i < m THEN {} ELSE {a \in asked[c] : a[1] # k} \cup {<<k, t>>}]
           more == {<<L + p[1], p[2]>> :
                       p \in {r \in (1 .. m) \X Field : <<chain[r[1]], r[2]>> \in again}}
           grown == {L + i : i \in {j \in 1 .. m : chain[j] \in direct}}
<1>8. /\ asked' = asked \o newly /\ again' = again \cup more /\ direct' = direct \cup grown
      /\ flat' = Empty /\ below' = Empty
  BY <1>7 DEF Customizes, chain, rs
<1> HIDE DEF chain, m
<1>9. /\ asked \in Seq(SUBSET ((Field \cup {All}) \X Token)) /\ Len(asked) = L
  BY DEF ClassInv, ClassTypes
<1>10. /\ asked' \in Seq(SUBSET ((Field \cup {All}) \X Token)) /\ Len(asked') = L + m
       /\ \A d \in 1 .. L : asked'[d] = asked[d]
       /\ \A i \in 1 .. m : asked'[L + i] = newly[i]
  <2>1. newly \in Seq(SUBSET ((Field \cup {All}) \X Token)) /\ Len(newly) = m
    <3>1. asked[c] \subseteq (Field \cup {All}) \X Token
      BY <1>1, <1>9
    <3>2. \A i \in 1 .. m : newly[i] \in SUBSET ((Field \cup {All}) \X Token)
      BY <3>1
    <3>3. newly \in [1 .. m -> SUBSET ((Field \cup {All}) \X Token)]
      BY <3>2
    <3> QED
      BY <1>7, <3>3
  <2> HIDE DEF newly
  <2>2. /\ asked \o newly \in Seq(SUBSET ((Field \cup {All}) \X Token))
        /\ Len(asked \o newly) = L + m
        /\ \A d \in 1 .. L + m : (asked \o newly)[d] = IF d <= L THEN asked[d] ELSE newly[d - L]
    <3>1. Len(asked) + Len(newly) = L + m
      BY <1>9, <2>1
    <3>2. /\ asked \o newly \in Seq(SUBSET ((Field \cup {All}) \X Token))
          /\ Len(asked \o newly) = Len(asked) + Len(newly)
          /\ \A d \in 1 .. Len(asked) + Len(newly) :
                (asked \o newly)[d] = IF d <= Len(asked) THEN asked[d] ELSE newly[d - Len(asked)]
      BY <1>9, <2>1, ConcatProperties
    <3> QED
      BY <1>9, <3>1, <3>2
  <2>3. \A i \in 1 .. m : L + i \in 1 .. L + m /\ ~(L + i <= L) /\ (L + i) - L = i
    BY <1>1, <1>7
  <2>4. \A d \in 1 .. L : d \in 1 .. L + m /\ d <= L
    BY <1>1, <1>7
  <2> QED
    BY <1>8, <2>2, <2>3, <2>4
<1>11. \A d \in 1 .. L + m : d \in 1 .. L \/ \E i \in 1 .. m : d = L + i
  <2> TAKE d \in 1 .. L + m
  <2>1. CASE d <= L
    BY <1>1, <2>1
  <2>2. CASE ~(d <= L)
    <3>1. d - L \in 1 .. m /\ d = L + (d - L)
      BY <1>1, <1>7, <2>2
    <3> QED
      BY <3>1
  <2> QED
    BY <2>1, <2>2
<1>12. DOMAIN flat' = {} /\ DOMAIN below' = {}
  BY <1>8 DEF Empty
<1>13. ClassTypes'
  BY <1>6, <1>10, <1>12 DEF ClassTypes
<1>v. ASSUME NEW i \in 1 .. m
      PROVE  /\ chain[i] \in 1 .. L /\ chain[i] \in Line(rs, c)
             /\ Root(rs, chain[i]) = Root(classes, chain[i])
             /\ Root(classes, chain[i]) \in 1 .. L
             /\ classes'[L + i].orig = Root(classes, chain[i])
             /\ classes'[L + i].orig # Absent
  <2> DEFINE e == chain[i]
  <2>1. e \in 1 .. L /\ e \in Line(rs, c)
    BY <1>7
  <2>2. classes'[L + i].orig = Root(rs, e)
    BY <1>6
  <2> HIDE DEF e
  <2>3. Root(rs, e) = Root(classes, e)
    BY <1>r, <2>1 DEF Root
  <2>4. Root(classes, e) \in 1 .. e
    BY <1>1, <2>1, RootRule
  <2>5. Root(classes, e) \in 1 .. L /\ Root(classes, e) # Absent
    BY <1>1, <2>1, <2>4 DEF Absent
  <2> QED
    BY <2>1, <2>2, <2>3, <2>5 DEF e
<1>p. SameParents(classes, classes')
  BY <1>1, <1>6, <1>7 DEF SameParents, Sound
<1>k. /\ \A n \in DOMAIN variants : n \in DOMAIN variants' /\ variants[n] \subseteq variants'[n]
      /\ \A n \in 1 .. L : n \in DOMAIN variants' /\ n \notin DOMAIN variants
            => Lookup(classes, variants, n) = 0
      /\ \A n \in DOMAIN variants' :
            /\ n \in 1 .. L + m
            /\ \A d \in variants'[n] : \/ n \in DOMAIN variants /\ d \in variants[n]
                                       \/ \E i \in 1 .. m : d = L + i
      /\ \A i \in 1 .. m : L + i \in Found(classes', variants', Root(classes, chain[i]))
  <2>1. variants' = KeepVariants(classes, variants, chain)
    BY DEF Customizes, chain, rs
  <2>2. DOMAIN variants \subseteq 1 .. Len(classes)
    BY DEF ClassInv, VariantsKept
  <2>3. /\ m \in Nat /\ chain \in Seq(1 .. Len(classes)) /\ Len(chain) = m
        /\ Len(classes') = Len(classes) + m /\ OwnOriginals(classes)
    BY <1>1, <1>6, <1>7 DEF m
  <2> HIDE DEF L
  <2>4. VariantsPut(classes, classes', variants, chain, KeepVariants(classes, variants, chain))
    BY ONLY <1>p, <2>2, <2>3, KeepVariantsRule
  <2> QED
    BY <2>1, <2>3, <2>4 DEF VariantsPut, L
<1>g. \A d \in 1 .. L : Found(classes, variants, d) \subseteq Found(classes', variants', d)
  <2>1. 0 \notin DOMAIN variants
    BY <1>1 DEF ClassInv, VariantsKept
  <2>2. \A n \in 1 .. L : n \in DOMAIN variants' /\ n \notin DOMAIN variants
            => Found(classes, variants, n) = {}
    BY <1>k, <2>1 DEF Found, Own
  <2>3. \A d \in 0 .. L : Found(classes, variants, d) \subseteq Found(classes', variants', d)
    BY <1>k, <1>p, <2>2, FoundGrows
  <2> QED
    BY <1>1, <2>3
\* What the variant of a class in the chain extends, and the class.
<1>e. ASSUME NEW i \in 1 .. m
      PROVE  rs[chain[i]].extends = Absent <=> i = 1
  <2> DEFINE d == chain[i]
             b == rs[d].extends
  <2>1. d \in 1 .. L /\ d \in Line(rs, c)
    BY <1>v
  <2>2. b \in 0 .. d - 1
    BY <1>r, <2>1 DEF Ordered
  <2>3. c \in 0 .. Len(rs) /\ d \in 1 .. Len(rs)
    BY <1>1, <1>r, <2>1
  <2>4. /\ Line(rs, d) = {e \in Line(rs, c) : e <= d}
        /\ Line(rs, d) = Line(rs, b) \cup {d}
    BY <1>r, <2>1, <2>3, LineOrder, LineEquations
  <2>5. ASSUME b # 0 PROVE i # 1
    <3>1. b \in 0 .. Len(rs) /\ b \in Line(rs, b)
      BY <1>1, <1>r, <2>1, <2>2, <2>5, LineOrder
    <3>2. PICK j \in 1 .. m : b = chain[j]
      BY <1>7, <2>4, <3>1
    <3>3. chain[j] < chain[i] /\ chain[i] \in Nat /\ chain[j] \in Nat
      BY <1>1, <1>v, <2>2, <3>2
    <3>4. i = 1 => j = i \/ i < j
      BY <1>7
    <3> QED
      BY <1>7, <3>3, <3>4
  <2>6. ASSUME b = 0 PROVE i = 1
    <3>1. Line(rs, d) = {d}
      BY <1>r, <2>4, <2>6, LineEquations
    <3>2. 1 \in 1 .. m
      BY <1>7
    <3>3. chain[1] \in Line(rs, c) /\ (i # 1 => chain[1] < d)
      <4>1. i # 1 => 1 < i
        BY <1>7
      <4> QED
        BY <1>7, <1>v, <3>2, <4>1
    <3>4. chain[1] \in Nat /\ d \in Nat
      BY <1>1, <1>v, <3>2
    <3>5. i # 1 => chain[1] \in Line(rs, d)
      BY <2>4, <3>3, <3>4
    <3> QED
      BY <3>1, <3>3, <3>4, <3>5
  <2> QED
    BY <2>5, <2>6 DEF Absent
<1>14. VariantsKept'
  <2>1. ASSUME NEW n \in DOMAIN variants'
        PROVE  /\ n \in 1 .. Len(classes')
               /\ \A d \in variants'[n] : d \in 1 .. Len(classes') /\ classes'[d].orig # Absent
    <3> SUFFICES ASSUME NEW d \in variants'[n]
                 PROVE  d \in 1 .. L + m /\ classes'[d].orig # Absent
      BY <1>6, <1>k
    <3>1. CASE n \in DOMAIN variants /\ d \in variants[n]
      <4>1. d \in 1 .. L /\ classes[d].orig # Absent
        BY <3>1 DEF ClassInv, VariantsKept
      <4>2. d \in 1 .. L + m
        BY <1>1, <1>7, <4>1
      <4> QED
        BY <1>6, <4>1, <4>2
    <3>2. CASE \E i \in 1 .. m : d = L + i
      <4>1. PICK i \in 1 .. m : d = L + i
        BY <3>2
      <4>2. d \in 1 .. L + m
        BY <1>1, <1>7, <4>1
      <4> QED
        BY <1>v, <4>1, <4>2
    <3> QED
      BY <1>k, <3>1, <3>2
  <2>2. ASSUME NEW d \in 1 .. L + m, classes'[d].orig # Absent
        PROVE  /\ d \in Found(classes', variants', classes'[d].orig)
               /\ classes'[d].extends = Absent => classes'[classes'[d].orig].extends = Absent
    <3>1. CASE d \in 1 .. L
      <4>1. classes'[d] = classes[d] /\ classes[d].orig \in 1 .. L
        BY <1>6, <2>2, <3>1, ClassFacts
      <4>2. /\ d \in Found(classes, variants, classes[d].orig)
            /\ classes[d].extends = Absent => classes[classes[d].orig].extends = Absent
        BY <2>2, <3>1, <4>1 DEF ClassInv, VariantsKept
      <4> QED
        BY <1>6, <1>g, <4>1, <4>2
    <3>2. CASE d \notin 1 .. L
      <4>1. PICK i \in 1 .. m : d = L + i
        BY <1>11, <3>2
      <4> DEFINE e == chain[i]
                 o == Root(classes, e)
      <4>2. /\ e \in 1 .. L /\ o \in 1 .. L /\ classes'[d].orig = o
            /\ d \in Found(classes', variants', o)
        BY <1>k, <1>v, <4>1
      <4>3. ASSUME classes'[d].extends = Absent PROVE classes'[o].extends = Absent
        <5>1. classes'[L + i].extends = IF i = 1 THEN Absent ELSE L + i - 1
          BY <1>6
        <5>5. i # 1 => L + i - 1 # Absent
          BY <1>1, <1>7 DEF Absent
        <5>6. i = 1
          BY <4>1, <4>3, <5>1, <5>5
        <5>2. rs[e].extends = Absent
          BY <1>e, <5>6
        <5> HIDE DEF e
        <5>3. classes[e].extends = Absent
          BY <1>r, <4>2, <5>2
        <5>4. classes[o].extends = Absent
          BY <4>2, <5>3 DEF ClassInv, VariantsKept, Root
        <5> QED
          BY <1>6, <4>2, <5>4
      <4> QED
        BY <4>2, <4>3
    <3> QED
      BY <3>1, <3>2
  <2> QED
    BY <1>6, <2>1, <2>2 DEF VariantsKept
<1>f. Follow'
  <2> SUFFICES ASSUME NEW d \in 1 .. L + m, classes'[d].orig # Absent
               PROVE  LET orig == classes'[d].orig
                      IN  /\ ToSet(Names(classes'[orig].fields)) \subseteq
                                ToSet(Names(classes'[d].fields))
                          /\ d \notin direct' /\ ~SharedIn(classes', variants', orig) =>
                                Names(classes'[d].fields) = Names(classes'[orig].fields)
    BY <1>6 DEF Follow, FollowIn
  <2>1. ASSUME NEW o \in 1 .. L, ~SharedIn(classes', variants', o)
        PROVE  ~SharedIn(classes, variants, o)
    <3>1. Len(classes') \in Nat /\ Len(classes) <= Len(classes')
      BY <1>1, <1>6, <1>7
    <3> QED
      BY <1>1, <1>g, <2>1, <3>1, SharedStays
  <2>2. \A e \in 1 .. L : classes[e].orig # Absent =>
           /\ classes[e].orig \in 1 .. L
           /\ ToSet(Names(classes[classes[e].orig].fields)) \subseteq ToSet(Names(classes[e].fields))
           /\ e \notin direct /\ ~SharedIn(classes, variants, classes[e].orig) =>
                 Names(classes[e].fields) = Names(classes[classes[e].orig].fields)
    BY ClassFacts DEF ClassInv, Follow, FollowIn
  <2>3. CASE d \in 1 .. L
    <3>1. classes'[d] = classes[d] /\ classes[d].orig \in 1 .. L
      BY <1>6, <2>2, <2>3
    <3> DEFINE o == classes[d].orig
    <3>2. classes'[o] = classes[o]
      BY <1>6, <3>1
    <3>3. /\ ToSet(Names(classes[o].fields)) \subseteq ToSet(Names(classes[d].fields))
          /\ d \notin direct /\ ~SharedIn(classes, variants, o) =>
                Names(classes[d].fields) = Names(classes[o].fields)
      BY <2>2, <2>3, <3>1
    <3>4. d \notin direct' => d \notin direct
      BY <1>8
    <3> QED
      BY <2>1, <3>1, <3>2, <3>3, <3>4
  <2>4. CASE d \notin 1 .. L
    <3>1. PICK i \in 1 .. m : d = L + i
      BY <1>11, <2>4
    <3> DEFINE e == chain[i]
               o == Root(classes, e)
    <3>2. /\ e \in Line(rs, c) /\ e \in 1 .. L /\ (d \notin direct' => e \notin direct)
          /\ classes'[d].orig = o /\ o \in 1 .. L
      BY <1>8, <1>v, <3>1
    <3>3. classes'[d].fields = made[e].fields /\ classes'[o] = classes[o]
      BY <1>6, <3>1, <3>2
    <3> HIDE DEF e
    <3>4. Names(made[e].fields) = Names(classes[e].fields)
      <4>1. e \in Line(rs, c) /\ c \in 1 .. Len(rs)
        BY <1>1, <1>r, <3>2
      <4>2. Names(made[e].fields) = Names(rs[e].fields)
        BY <1>5, <1>r, <4>1, CarriedHas
      <4> QED
        BY <1>r, <3>2, <4>2
    <3>5. /\ ToSet(Names(classes[o].fields)) \subseteq ToSet(Names(classes[e].fields))
          /\ e \notin direct /\ ~SharedIn(classes, variants, o) =>
                Names(classes[e].fields) = Names(classes[o].fields)
      <4>1. CASE classes[e].orig = Absent
        BY <4>1 DEF Root
      <4>2. CASE classes[e].orig # Absent
        BY <2>2, <3>2, <4>2 DEF Root
      <4> QED
        BY <4>1, <4>2
    <3> HIDE DEF o
    <3> QED
      BY <2>1, <3>2, <3>3, <3>4, <3>5
  <2> QED
    BY <2>3, <2>4
<1>z. ASSUME ~RebasedIn(classes', L + m)
      PROVE  ~RebasedIn(classes, c) /\ Line(classes, c) = Line(rs, c)
  <2>1. Line(classes', L + m) = {L + i : i \in 1 .. m}
    BY <1>n, <1>r DEF m
  <2>2. ASSUME NEW d \in Line(rs, c), rs[d].extends # Absent
        PROVE  d \in 1 .. L /\ classes[Root(classes, d)].extends # Absent
    <3>1. PICK i \in 1 .. m : d = chain[i]
      BY <1>7
    <3>2. i # 1
      BY <1>e, <2>2, <3>1
    <3>3. classes'[L + i].extends # Absent
      BY <1>1, <1>6, <3>2 DEF Absent
    <3>4. /\ Root(classes', L + i) = Root(classes, d) /\ Root(classes, d) \in 1 .. L
          /\ d \in 1 .. L
      BY <1>v, <3>1 DEF Root
    <3>5. classes'[Root(classes', L + i)].extends # Absent
      BY <1>z, <2>1, <3>3 DEF RebasedIn
    <3> QED
      BY <1>6, <3>4, <3>5
  <2>3. ASSUME NEW d \in Line(rs, c) PROVE rs[d].extends = classes[d].extends
    <3>1. d \in 1 .. L
      BY <1>7, <1>v
    <3>2. CASE classes[d].extends # Absent
      BY <1>r, <3>1, <3>2
    <3>3. CASE classes[d].extends = Absent
      <4>1. classes[Root(classes, d)].extends = Absent
        BY <3>1, <3>3 DEF ClassInv, VariantsKept, Root
      <4> QED
        BY <2>2, <3>3, <4>1
    <3> QED
      BY <3>2, <3>3
  <2>4. Line(classes, c) = Line(rs, c)
    <3>1. c \in 0 .. Len(classes) /\ Len(rs) = Len(classes)
      BY <1>1, <1>r
    <3> QED
      BY <1>1, <1>r, <2>3, <3>1, SameLine
  <2>5. ~RebasedIn(classes, c)
    BY <2>2, <2>3, <2>4 DEF RebasedIn
  <2> QED
    BY <2>4, <2>5
<1>15. Due(classes', again', L + m, <<k, t>>)
  <2>1. /\ Line(classes', L + m) = {L + i : i \in 1 .. m}
        /\ \A i \in 1 .. m :
              Nearest(rs, c, chain[i], k) <=> Nearest(classes', L + m, L + i, k)
    BY <1>n, <1>r DEF m
  <2>2. CASE k = All
    <3>1. \A i \in 1 .. m : /\ t \in classes'[L + i].all
                            /\ \A f \in ToSet(classes'[L + i].fields) : t \in f.cust
      <4> TAKE i \in 1 .. m
      <4>1. chain[i] \in Line(rs, c)
        BY <1>7
      <4>2. made[chain[i]].all = {t} /\ \A f \in ToSet(made[chain[i]].fields) : t \in f.cust
        BY <1>3, <2>2, <4>1
      <4> QED
        BY <1>6, <4>2
    <3>2. DueAll(classes', L + m, t)
      BY <2>1, <3>1 DEF DueAll
    <3> QED
      BY <2>2, <3>2 DEF Due
  <2>3. CASE k # All
    <3>1. CASE \A d \in Line(rs, c) : ~own(d)
      <4>1. ASSUME NEW i \in 1 .. m
            PROVE  ~Has(classes'[L + i].fields, k) /\ t \in classes'[L + i].delayed[k]
        <5>1. chain[i] \in Line(rs, c)
          BY <1>7
        <5>2. ~Has(made[chain[i]].fields, k)
          <6>1. c \in 1 .. Len(rs) /\ ~Has(rs[chain[i]].fields, k)
            BY <1>1, <1>r, <3>1, <5>1 DEF own, OwnsField
          <6> QED
            BY <1>5, <1>r, <5>1, <6>1, CarriedHas
        <5> QED
          BY <1>4, <1>6, <2>3, <3>1, <5>1, <5>2
      <4>2. DueField(classes', again', L + m, k, t)
        BY <2>1, <4>1 DEF DueField
      <4> QED
        BY <2>3, <4>2 DEF Due
    <3>2. CASE ~ \A d \in Line(rs, c) : ~own(d)
      <4>1. PICK d : Nearest(rs, c, d, k) /\ own(d)
        <5>1. c \in 0 .. Len(rs)
          BY <1>1, <1>r
        <5> QED
          BY <1>r, <3>2, <5>1, NearestOwner DEF own, OwnsField
      <4>2. PICK i \in 1 .. m : d = chain[i]
        BY <1>7, <4>1 DEF Nearest
      <4>3. \E f \in ToSet(classes'[L + i].fields) : f.name = k /\ t \in f.cust
        <5>1. d \in Line(rs, c)
          BY <4>1 DEF Nearest
        <5>2. \E f \in ToSet(made[d].fields) : f.name = k /\ t \in f.cust
          BY <1>4, <2>3, <4>1, <5>1
        <5> QED
          BY <1>6, <4>2, <5>2
      <4>4. DueField(classes', again', L + m, k, t)
        BY <2>1, <4>1, <4>2, <4>3 DEF DueField
      <4> QED
        BY <2>3, <4>4 DEF Due
    <3> QED
      BY <3>1, <3>2
  <2> QED
    BY <2>2, <2>3
<1>16. ASSUME NEW a \in asked[c], a[1] # k, ~RebasedIn(classes', L + m)
       PROVE  Due(classes', again', L + m, a)
  <2>1. a \in (Field \cup {All}) \X Token
    BY <1>1, <1>9
  <2>2. a[1] \in Field \cup {All} /\ Due(classes, again, c, a)
    BY <1>1, <1>16, <1>z, <2>1 DEF ClassInv, AllDue
  <2>3. Due(rs, again, c, a)
    BY <1>1, <1>r, <1>16, <1>z, <2>2, DueAgrees
  <2>4. \A i \in 1 .. m, j \in Field : <<chain[i], j>> \in again => <<L + i, j>> \in more
    <3> TAKE i \in 1 .. m, j \in Field
    <3>1. <<i, j>> \in (1 .. m) \X Field /\ <<i, j>>[1] = i /\ <<i, j>>[2] = j
      OBVIOUS
    <3> QED
      BY <3>1
  <2>5. \A d \in Line(rs, c) :
           IF a[1] = All THEN made[d].all = rs[d].all
           ELSE made[d].delayed[a[1]] = rs[d].delayed[a[1]]
    BY <1>3, <1>4, <1>16, <2>2
  <2> HIDE DEF more
  <2>6. \A i \in 1 .. Len(Chain(rs, c)), j \in Field :
           <<Chain(rs, c)[i], j>> \in again => <<Len(rs) + i, j>> \in more
    BY <1>r, <2>4 DEF chain, m
  <2>7. a[1] \in Field \cup {All}
    BY <2>2
  <2>8. Due(classes', again \cup more, Len(rs) + Len(Chain(rs, c)), a)
    BY ONLY <1>5, <1>c, <2>3, <2>5, <2>6, <2>7, VariantDue
  <2> QED
    BY <1>8, <1>r, <2>8 DEF chain, m
<1>17. AllDue'
  <2> SUFFICES ASSUME NEW d \in 1 .. L + m, ~RebasedIn(classes', d), NEW a \in asked'[d]
               PROVE  Due(classes', again', d, a)
    BY <1>6 DEF AllDue
  <2>1. CASE d \in 1 .. L
    <3>2. L <= Len(classes') /\ again \subseteq again'
      BY <1>1, <1>6, <1>7, <1>8
    <3>3. ~RebasedIn(classes, d)
      BY <1>1, <1>6, <2>1, <3>2, SameRebased
    <3>1. Due(classes, again, d, a)
      BY <1>10, <2>1, <3>3 DEF ClassInv, AllDue
    <3> QED
      BY <1>1, <1>6, <2>1, <3>1, <3>2, SameDue
  <2>2. CASE d \notin 1 .. L
    <3>1. PICK i \in 1 .. m : d = L + i
      BY <1>11, <2>2
    <3>2. a \in newly[i]
      BY <1>10, <3>1
    <3>3. i = m /\ (a = <<k, t>> \/ (a \in asked[c] /\ a[1] # k))
      <4>1. i = m
        <5>1. ~(i < m)
          BY <3>2
        <5> QED
          BY <1>7, <5>1
      <4>2. newly[m] = {b \in asked[c] : b[1] # k} \cup {<<k, t>>}
        BY <1>7
      <4> HIDE DEF newly
      <4>3. a \in {b \in asked[c] : b[1] # k} \/ a = <<k, t>>
        BY <3>2, <4>1, <4>2
      <4>4. a \in {b \in asked[c] : b[1] # k} => a \in asked[c] /\ a[1] # k
        BY Zenon
      <4> QED
        BY <4>1, <4>3, <4>4
    <3> QED
      BY <1>15, <1>16, <3>1, <3>3
  <2> QED
    BY <2>1, <2>2
<1>18. NothingStale'
  BY <1>12 DEF NothingStale
<1>19. Listed'
  <2>1. subclasses' = subclasses
    BY DEF Customizes
  <2>2. 1 .. L \subseteq 1 .. L + m
    BY <1>1, <1>7
  <2> QED
    BY <1>6, <2>1, <2>2 DEF ClassInv, Listed
<1> QED
  BY <1>13, <1>14, <1>f, <1>17, <1>18, <1>19 DEF ClassInv

\* The names of the fields.
LEMMA NamesRule ==
    ASSUME NEW F, Distinct(F), NEW x
    PROVE  x \in ToSet(Names(F)) <=> \E f \in ToSet(F) : f.name = x
  BY HasRule DEF Has

\* A field that is given to a class goes to all the variants it finds.
LEMMA GivenKeeps ==
    ASSUME ClassInv, NEW c \in DOMAIN classes, NEW k \in Field,
           Len(classes') = Len(classes), classes' \in Seq(Class),
           \A d \in 1 .. Len(classes) :
              /\ classes'[d].extends = classes[d].extends
              /\ classes'[d].orig = classes[d].orig
              /\ classes'[d].base = classes[d].base
              /\ classes'[d].mixin = classes[d].mixin
              /\ classes'[d].all = classes[d].all
              /\ \A j \in Field : j # k => classes'[d].delayed[j] = classes[d].delayed[j]
              /\ d \notin Reached(c) => classes'[d] = classes[d]
              /\ d \in Reached(c) =>
                    /\ Distinct(classes'[d].fields)
                    /\ ToSet(classes'[d].fields) =
                          {g \in ToSet(classes[d].fields) : g.name # k}
                             \cup {Delayed(classes[d], k)},
           \A d, e \in 1 .. Len(classes) :
              d \in Reached(c) /\ e \in Reached(c) /\ SameNames(classes[d].fields, classes[e].fields)
                 => SameNames(classes'[d].fields, classes'[e].fields),
           flat' = Empty, SetMore(c, k), UNCHANGED <<variants, subclasses, below, asked>>
    PROVE  ClassInv'
<1> DEFINE L == Len(classes)
           R == Reached(c)
<1>1. /\ Sound(classes) /\ OwnOriginals(classes) /\ Ordered(classes)
      /\ classes \in Seq(Class) /\ L \in Nat /\ DOMAIN classes = 1 .. L
      /\ c \in 1 .. L
  BY ClassFacts
<1>2. /\ c \in R
      /\ \A d \in R : d = c \/ d \in Found(classes, variants, c)
      /\ Found(classes, variants, c) \subseteq R
      /\ \A d \in Found(classes, variants, c) : d \in 1 .. L /\ classes[d].orig # Absent
      /\ R \subseteq 1 .. L
  <2>1. \A d \in Found(classes, variants, c) : d \in 1 .. L /\ classes[d].orig # Absent
    BY DEF Found, Own, ClassInv, VariantsKept
  <2> QED
    BY <1>1, <2>1 DEF Reached, Variants
<1>3. Ordered(classes')
  BY <1>1 DEF Ordered
<1>4. Sound(classes')
  BY <1>1, <1>3 DEF Sound
<1>5. \A d \in 1 .. L : classes[d].orig # Absent =>
         classes[d].orig \in 1 .. L /\ classes[classes[d].orig].orig = Absent
  BY ClassFacts
<1>6. OwnOriginals(classes')
  BY <1>5 DEF OwnOriginals
<1>7. Given(classes, classes', R, k)
  BY <1>2 DEF Given
<1>8. \A attr : DOMAIN attr \subseteq 1 .. L =>
         \A d \in 1 .. L : Found(classes', attr, d) = Found(classes, attr, d)
  <2>1. ASSUME NEW attr, DOMAIN attr \subseteq 1 .. L
        PROVE  \A d \in 1 .. L : Found(classes', attr, d) = Found(classes, attr, d)
    <3>1. SameParents(classes, classes')
      BY <1>1, <1>3 DEF SameParents
    <3>2. \A d \in 0 .. L : Found(classes', attr, d) = Found(classes, attr, d)
      BY <2>1, <3>1, FoundStays
    <3> QED
      BY <1>1, <3>2
  <2> QED
    BY <2>1
<1>9. /\ sets' = sets + 1
      /\ again' = again \cup {<<d, k>> : d \in {e \in R : Has(FlatTypeInfo(classes, e), k)}}
      /\ direct \subseteq direct'
      /\ classes[c].orig # Absent => c \in direct'
  BY DEF SetMore
<1>10. ClassTypes'
  <2>1. DOMAIN flat' = {}
    BY DEF Empty
  <2> QED
    BY <1>1, <1>4, <1>6, <2>1 DEF ClassInv, ClassTypes
<1>11. \A d \in 1 .. L : Found(classes', variants', d) = Found(classes, variants, d)
  <2>1. DOMAIN variants \subseteq 1 .. L /\ variants' = variants
    BY DEF ClassInv, VariantsKept
  <2> QED
    BY <1>8, <2>1
<1>12. VariantsKept' /\ Listed'
  <2>1. ASSUME NEW d \in 1 .. L, classes'[d].orig # Absent
        PROVE  /\ d \in Found(classes', variants', classes'[d].orig)
               /\ classes'[d].extends = Absent => classes'[classes'[d].orig].extends = Absent
    <3>1. /\ d \in Found(classes, variants, classes[d].orig)
          /\ classes[d].extends = Absent => classes[classes[d].orig].extends = Absent
      BY <2>1 DEF ClassInv, VariantsKept
    <3>2. classes'[d].orig = classes[d].orig /\ classes[d].orig \in 1 .. L
      BY <1>5, <2>1
    <3> QED
      BY <1>11, <3>1, <3>2
  <2> QED
    BY <2>1 DEF ClassInv, VariantsKept, Listed
\* Who has which names now.
<1>13. ASSUME NEW d \in 1 .. L, NEW x
       PROVE  x \in ToSet(Names(classes'[d].fields)) <=>
                 \/ x \in ToSet(Names(classes[d].fields))
                 \/ d \in R /\ x = k
  <2>1. Distinct(classes[d].fields) /\ Distinct(classes'[d].fields)
    BY <1>1, <1>4 DEF Sound
  <2>2. /\ x \in ToSet(Names(classes[d].fields)) <=> \E f \in ToSet(classes[d].fields) : f.name = x
        /\ x \in ToSet(Names(classes'[d].fields)) <=> \E f \in ToSet(classes'[d].fields) : f.name = x
    BY <2>1, NamesRule
  <2>3. CASE d \in R
    <3>1. /\ ToSet(classes'[d].fields) = {g \in ToSet(classes[d].fields) : g.name # k}
                                            \cup {Delayed(classes[d], k)}
          /\ Delayed(classes[d], k).name = k
      BY <2>3 DEF Delayed
    <3> QED
      BY <2>2, <2>3, <3>1
  <2>4. CASE d \notin R
    BY <2>4
  <2> QED
    BY <2>3, <2>4
<1>14. Follow'
  <2> SUFFICES ASSUME NEW d \in 1 .. L, classes'[d].orig # Absent
               PROVE  LET orig == classes'[d].orig
                      IN  /\ ToSet(Names(classes'[orig].fields)) \subseteq
                                ToSet(Names(classes'[d].fields))
                          /\ d \notin direct' /\ ~SharedIn(classes', variants', orig) =>
                                Names(classes'[d].fields) = Names(classes'[orig].fields)
    BY DEF Follow, FollowIn
  <2> DEFINE o == classes[d].orig
  <2>1. o \in 1 .. L /\ classes[o].orig = Absent /\ classes'[d].orig = o /\ o # Absent
    BY <1>5
  <2>2. /\ ToSet(Names(classes[o].fields)) \subseteq ToSet(Names(classes[d].fields))
        /\ d \notin direct /\ ~SharedIn(classes, variants, o) =>
              Names(classes[d].fields) = Names(classes[o].fields)
    BY <2>1 DEF ClassInv, Follow, FollowIn
  <2>3. d \in Found(classes, variants, o)
    BY <2>1 DEF ClassInv, VariantsKept
  <2>4. (d = c => c \in direct') /\ (d \notin direct' => d \notin direct)
    BY <1>9, <2>1
  <2> HIDE DEF o, R
  <2>5. o \in R => o = c /\ d \in R
    BY <1>2, <2>1, <2>3
  <2>6. ToSet(Names(classes'[o].fields)) \subseteq ToSet(Names(classes'[d].fields))
    <3> SUFFICES ASSUME NEW x \in ToSet(Names(classes'[o].fields))
                 PROVE  x \in ToSet(Names(classes'[d].fields))
      OBVIOUS
    <3>1. x \in ToSet(Names(classes[o].fields)) \/ (o \in R /\ x = k)
      <4>1. o \in 1 .. L
        BY <2>1
      <4>2. \A y : y \in ToSet(Names(classes'[o].fields)) <=>
                      y \in ToSet(Names(classes[o].fields)) \/ (o \in R /\ y = k)
        BY ONLY <1>13, <4>1
      <4> QED
        BY <4>2
    <3>2. x \in ToSet(Names(classes[d].fields)) \/ (d \in R /\ x = k)
      BY <2>2, <2>5, <3>1
    <3> QED
      BY <1>13, <3>2
  <2>7. ASSUME d \notin direct', ~SharedIn(classes', variants', o)
        PROVE  Names(classes'[d].fields) = Names(classes'[o].fields)
    <3>1. ~SharedIn(classes, variants, o)
      <4>1. /\ Len(classes) \in Nat /\ Len(classes') \in Nat /\ Len(classes) <= Len(classes')
            /\ \A e \in 1 .. Len(classes) :
                  Found(classes, variants, e) \subseteq Found(classes', variants', e)
        BY <1>1, <1>11
      <4> QED
        BY <2>1, <2>7, <4>1, SharedStays
    <3>2. Names(classes[d].fields) = Names(classes[o].fields)
      BY <2>2, <2>4, <2>7, <3>1
    <3>3. d \in R => o = c
      <4> SUFFICES ASSUME d \in R, o # c PROVE FALSE
        OBVIOUS
      <4>1. d \in Found(classes, variants, c)
        BY <1>2, <2>4, <2>7
      <4>2. SharedIn(classes, variants, o)
        BY <1>1, <2>3, <4>1 DEF SharedIn
      <4> QED
        BY <3>1, <4>2
    <3>4. CASE d \in R
      <4>1. o \in R
        BY <1>2, <3>3, <3>4
      <4>2. /\ Distinct(classes[d].fields) /\ Distinct(classes[o].fields)
            /\ Distinct(classes'[d].fields) /\ Distinct(classes'[o].fields)
        BY <1>1, <1>4, <2>1 DEF Sound
      <4>3. SameNames(classes[d].fields, classes[o].fields)
        BY <3>2, <4>2, SameNamesRule
      <4>4. SameNames(classes'[d].fields, classes'[o].fields)
        BY <2>1, <3>4, <4>1, <4>3 DEF R
      <4> QED
        BY <4>2, <4>4, SameNamesRule
    <3>5. CASE d \notin R
      <4>1. o \notin R
        BY <2>5, <3>5
      <4> QED
        BY <2>1, <3>2, <3>5, <4>1 DEF R
    <3> QED
      BY <3>4, <3>5
  <2> QED
    BY <2>1, <2>6, <2>7
<1>15. AllDue'
  <2> SUFFICES ASSUME NEW d \in 1 .. L, ~RebasedIn(classes', d), NEW a \in asked[d]
               PROVE  Due(classes', again', d, a)
    BY DEF AllDue
  <2>1. asked \in Seq(SUBSET ((Field \cup {All}) \X Token)) /\ Len(asked) = L
    BY DEF ClassInv, ClassTypes
  <2>2. a \in (Field \cup {All}) \X Token
    BY <2>1
  <2>3. Len(classes) <= Len(classes')
    BY <1>1
  <2>4. ~RebasedIn(classes, d)
    BY <1>1, <1>4, <2>3, SameRebased
  <2>5. a[1] \in Field \cup {All} /\ Due(classes, again, d, a)
    BY <2>2, <2>4 DEF ClassInv, AllDue
  <2> QED
    BY <1>1, <1>4, <1>7, <1>9, <2>5, GivenDue
<1>16. NothingStale'
  <2>1. DOMAIN flat' = {} /\ below' = below /\ subclasses' = subclasses
    BY DEF Empty
  <2>2. ASSUME NEW d \in DOMAIN below
        PROVE  below[d] \subseteq Subclasses(classes', subclasses, Empty, d)
    <3>1. d \in DOMAIN classes /\ below[d] \subseteq Subclasses(classes, subclasses, Empty, d)
      BY <1>1 DEF ClassInv, ClassTypes, NothingStale
    <3>2. /\ DOMAIN subclasses \subseteq 1 .. L
          /\ \A n \in DOMAIN subclasses : subclasses[n] \subseteq DOMAIN classes
      BY <1>1 DEF ClassInv, Listed
    <3>3. \A e \in DOMAIN classes : /\ Found(classes, subclasses, e) \subseteq DOMAIN classes
                                    /\ Found(classes, subclasses, e)
                                          \subseteq Found(classes', subclasses, e)
      BY <1>1, <1>8, <3>2, FoundWithin
    <3>4. DOMAIN classes \subseteq DOMAIN classes'
      BY <1>1
    <3>5. Subclasses(classes, subclasses, Empty, d) \subseteq Subclasses(classes', subclasses, Empty, d)
      BY <3>1, <3>3, <3>4, BelowGrows
    <3> QED
      BY <3>1, <3>5
  <2> QED
    BY <2>1, <2>2 DEF NothingStale
<1> QED
  BY <1>10, <1>12, <1>14, <1>15, <1>16 DEF ClassInv

\* A field as a class takes it.
LEMMA DelayedRule ==
    ASSUME NEW x \in Class, NEW k \in Field
    PROVE  Delayed(x, k) \in FieldRec /\ Delayed(x, k).name = k
  BY DEF Class, FieldRec, Delayed

\* A field is appended, or inserted, with what waits for it.
LEMMA AppendKeeps ==
    ASSUME ClassInv, NEW c \in DOMAIN classes, NEW k \in Field, AppendField(c, k)
    PROVE  ClassInv'
<1> DEFINE L == Len(classes)
           R == Reached(c)
<1>1. /\ Sound(classes) /\ classes \in Seq(Class) /\ L \in Nat /\ DOMAIN classes = 1 .. L
  BY ClassFacts
<1>2. ASSUME NEW d \in 1 .. L
      PROVE  /\ classes[d] \in Class /\ Distinct(classes[d].fields)
             /\ Delayed(classes[d], k) \in FieldRec /\ Delayed(classes[d], k).name = k
  <2>1. classes[d] \in Class /\ Distinct(classes[d].fields)
    BY <1>1 DEF Sound
  <2> QED
    BY <2>1, DelayedRule
<1> DEFINE grown(d) == SetItem(classes[d].fields, Delayed(classes[d], k))
<1>3. ASSUME NEW d \in 1 .. L
      PROVE  /\ Distinct(grown(d)) /\ grown(d) \in Seq(FieldRec)
             /\ ToSet(grown(d)) = {g \in ToSet(classes[d].fields) : g.name # k}
                                     \cup {Delayed(classes[d], k)}
  <2>1. /\ Distinct(grown(d))
        /\ ToSet(grown(d)) = {g \in ToSet(classes[d].fields) : g.name # k}
                                \cup {Delayed(classes[d], k)}
    BY <1>2, SetItemRule
  <2> HIDE DEF grown
  <2> QED
    BY <2>1 DEF Distinct
<1>4. classes' = [d \in 1 .. L |-> IF d \in R THEN [classes[d] EXCEPT !.fields = grown(d)]
                                   ELSE classes[d]]
  BY <1>1 DEF AppendField
<1> HIDE DEF grown, R
<1>5. ASSUME NEW d \in 1 .. L
      PROVE  /\ classes'[d] \in Class
             /\ classes'[d].extends = classes[d].extends
             /\ classes'[d].orig = classes[d].orig
             /\ classes'[d].base = classes[d].base
             /\ classes'[d].mixin = classes[d].mixin
             /\ classes'[d].all = classes[d].all
             /\ classes'[d].delayed = classes[d].delayed
             /\ d \notin R => classes'[d] = classes[d]
             /\ d \in R => classes'[d].fields = grown(d)
  BY <1>2, <1>3, <1>4 DEF Class
<1>6. classes' \in Seq(Class) /\ Len(classes') = L
  <2>1. classes' \in [1 .. L -> Class]
    BY <1>4, <1>5
  <2> QED
    BY <1>1, <2>1
<1>7. ASSUME NEW d \in 1 .. L, NEW e \in 1 .. L, d \in R, e \in R,
             SameNames(classes[d].fields, classes[e].fields)
      PROVE  SameNames(classes'[d].fields, classes'[e].fields)
  BY <1>2, <1>5, <1>7, SameNamesSet DEF grown
<1>8. flat' = Empty /\ SetMore(c, k) /\ UNCHANGED <<variants, subclasses, below, asked>>
  BY DEF AppendField
<1> QED
  BY <1>1, <1>3, <1>5, <1>6, <1>7, <1>8, GivenKeeps DEF R

LEMMA InsertKeeps ==
    ASSUME ClassInv, NEW c \in DOMAIN classes, NEW index \in Nat, NEW k \in Field,
           InsertField(c, index, k)
    PROVE  ClassInv'
<1> DEFINE L == Len(classes)
           R == Reached(c)
<1>1. /\ Sound(classes) /\ classes \in Seq(Class) /\ L \in Nat /\ DOMAIN classes = 1 .. L
  BY ClassFacts
<1>2. ASSUME NEW d \in 1 .. L
      PROVE  /\ classes[d] \in Class /\ Distinct(classes[d].fields)
             /\ Delayed(classes[d], k) \in FieldRec /\ Delayed(classes[d], k).name = k
  <2>1. classes[d] \in Class /\ Distinct(classes[d].fields)
    BY <1>1 DEF Sound
  <2> QED
    BY <2>1, DelayedRule
<1> DEFINE grown(d) == Insert(classes[d].fields, index, Delayed(classes[d], k))
           left(d) == [classes[d].delayed EXCEPT ![k] = {}]
<1>3. ASSUME NEW d \in 1 .. L
      PROVE  /\ Distinct(grown(d)) /\ grown(d) \in Seq(FieldRec)
             /\ ToSet(grown(d)) = {g \in ToSet(classes[d].fields) : g.name # k}
                                     \cup {Delayed(classes[d], k)}
  <2>1. /\ Distinct(grown(d))
        /\ ToSet(grown(d)) = {g \in ToSet(classes[d].fields) : g.name # k}
                                \cup {Delayed(classes[d], k)}
    <3> DEFINE F == classes[d].fields
               x == Delayed(classes[d], k)
    <3>1. Distinct(F) /\ x \in FieldRec /\ x.name = k
      BY <1>2
    <3> HIDE DEF F, x
    <3>2. /\ Distinct(Insert(F, index, x))
          /\ ToSet(Insert(F, index, x)) = {g \in ToSet(F) : g.name # k} \cup {x}
      BY <3>1, InsertRule
    <3> QED
      BY <3>2 DEF F, x
  <2> HIDE DEF grown
  <2> QED
    BY <2>1 DEF Distinct
<1>4. ASSUME NEW d \in 1 .. L
      PROVE  /\ left(d) \in [Field -> SUBSET Token]
             /\ \A j \in Field : j # k => left(d)[j] = classes[d].delayed[j]
  BY <1>2 DEF Class
<1>5. classes' = [d \in 1 .. L |-> IF d \in R
                                   THEN [classes[d] EXCEPT !.fields = grown(d),
                                                           !.delayed = left(d)]
                                   ELSE classes[d]]
  BY <1>1 DEF InsertField, Inserted
<1> HIDE DEF grown, R, left
<1>6. ASSUME NEW d \in 1 .. L
      PROVE  /\ classes'[d] \in Class
             /\ classes'[d].extends = classes[d].extends
             /\ classes'[d].orig = classes[d].orig
             /\ classes'[d].base = classes[d].base
             /\ classes'[d].mixin = classes[d].mixin
             /\ classes'[d].all = classes[d].all
             /\ \A j \in Field : j # k => classes'[d].delayed[j] = classes[d].delayed[j]
             /\ d \notin R => classes'[d] = classes[d]
             /\ d \in R => classes'[d].fields = grown(d)
  BY <1>2, <1>3, <1>4, <1>5 DEF Class
<1>7. classes' \in Seq(Class) /\ Len(classes') = L
  <2>1. classes' \in [1 .. L -> Class]
    BY <1>5, <1>6
  <2> QED
    BY <1>1, <2>1
<1>8. ASSUME NEW d \in 1 .. L, NEW e \in 1 .. L, d \in R, e \in R,
             SameNames(classes[d].fields, classes[e].fields)
      PROVE  SameNames(classes'[d].fields, classes'[e].fields)
  BY <1>2, <1>6, <1>8, SameNamesInsert DEF grown
<1>9. flat' = Empty /\ SetMore(c, k) /\ UNCHANGED <<variants, subclasses, below, asked>>
  BY DEF InsertField, Inserted
<1> QED
  BY <1>1, <1>3, <1>6, <1>7, <1>8, <1>9, GivenKeeps DEF R

\* What is memoized is what is computed, of what was memoized.
LEMMA MemoizeKeeps ==
    ASSUME ClassInv, NEW c \in DOMAIN classes, GetFlatTypeInfo(c) \/ GetSubclasses(c)
    PROVE  ClassInv'
<1>1. UNCHANGED <<classes, variants, subclasses, asked, again, direct>>
  BY DEF GetFlatTypeInfo, GetSubclasses
<1>2. DOMAIN classes = 1 .. Len(classes)
  BY ClassFacts
<1>3. VariantsKept' /\ Listed' /\ Follow' /\ AllDue'
  BY <1>1 DEF ClassInv, VariantsKept, Listed, Follow, AllDue
<1>4. CASE GetFlatTypeInfo(c)
  <2>1. /\ DOMAIN flat' = DOMAIN flat \cup {c} /\ below' = below
        /\ \A d \in DOMAIN flat' :
              flat'[d] = IF d \in DOMAIN flat THEN flat[d] ELSE FlatTypeInfo(classes, d)
    BY <1>4 DEF GetFlatTypeInfo, Memoized
  <2>2. ClassTypes'
    BY <1>1, <1>2, <2>1 DEF ClassInv, ClassTypes
  <2>3. NothingStale'
    BY <1>1, <2>1 DEF ClassInv, NothingStale
  <2> QED
    BY <1>3, <2>2, <2>3 DEF ClassInv
<1>5. CASE GetSubclasses(c)
  <2> DEFINE said(d) == Subclasses(classes, subclasses, below, d)
  <2>1. /\ DOMAIN below' = DOMAIN below \cup {c} \cup said(c) /\ flat' = flat
        /\ \A d \in DOMAIN below' : below'[d] = said(d)
    BY <1>5 DEF GetSubclasses
  <2>2. \A d : said(d) \subseteq DOMAIN classes
    BY DEF Subclasses
  <2>3. ASSUME NEW d \in DOMAIN classes
        PROVE  said(d) \subseteq Subclasses(classes, subclasses, Empty, d)
    <3>1. \A x : Said(classes, subclasses, Empty, x) = Found(classes, subclasses, x)
      BY DEF Said, Empty
    <3> SUFFICES ASSUME NEW e \in said(d), NEW S \in SUBSET DOMAIN classes,
                        Found(classes, subclasses, d) \subseteq S,
                        \A x \in S : Found(classes, subclasses, x) \subseteq S
                 PROVE  e \in S
      BY <2>2, <3>1 DEF Subclasses
    <3>2. ASSUME NEW x \in DOMAIN classes, Found(classes, subclasses, x) \subseteq S
          PROVE  Said(classes, subclasses, below, x) \subseteq S
      <4>1. CASE x \in DOMAIN below
        <5>1. below[x] \subseteq Subclasses(classes, subclasses, Empty, x)
          BY <4>1 DEF ClassInv, NothingStale
        <5>2. Subclasses(classes, subclasses, Empty, x) \subseteq S
          BY <3>1, <3>2 DEF Subclasses
        <5> QED
          BY <4>1, <5>1, <5>2 DEF Said
      <4>2. CASE x \notin DOMAIN below
        BY <3>2, <4>2 DEF Said
      <4> QED
        BY <4>1, <4>2
    <3>3. /\ Said(classes, subclasses, below, d) \subseteq S
          /\ \A x \in S : Said(classes, subclasses, below, x) \subseteq S
      BY <3>2
    <3> QED
      BY <3>3 DEF Subclasses
  <2> HIDE DEF said
  <2>4. DOMAIN below' \subseteq DOMAIN classes
    BY <1>2, <2>1, <2>2 DEF ClassInv, ClassTypes
  <2>5. ClassTypes'
    BY <1>1, <1>2, <2>1, <2>4 DEF ClassInv, ClassTypes
  <2>6. NothingStale'
    BY <1>1, <2>1, <2>3, <2>4 DEF ClassInv, NothingStale
  <2> QED
    BY <1>3, <2>5, <2>6 DEF ClassInv
<1> QED
  BY <1>4, <1>5

LEMMA ClassInvStart == ClassesInit => ClassInv
<1> SUFFICES ASSUME ClassesInit PROVE ClassInv
  OBVIOUS
<1>1. /\ classes = <<>> /\ asked = <<>> /\ DOMAIN flat = {} /\ DOMAIN below = {}
      /\ DOMAIN variants = {} /\ DOMAIN subclasses = {}
  BY DEF ClassesInit, Empty
<1>2. Len(classes) = 0 /\ DOMAIN classes = {} /\ 1 .. 0 = {}
  BY <1>1
<1>3. ClassTypes
  BY <1>1, <1>2 DEF ClassTypes, Sound, Ordered, OwnOriginals
<1>4. VariantsKept /\ Listed /\ Follow /\ AllDue /\ NothingStale
  BY <1>1, <1>2 DEF VariantsKept, Listed, Follow, FollowIn, AllDue, NothingStale
<1> QED
  BY <1>3, <1>4 DEF ClassInv

LEMMA ClassInvStep == ClassInv /\ [ClassesNext]_classVars => ClassInv'
<1> SUFFICES ASSUME ClassInv, [ClassesNext]_classVars PROVE ClassInv'
  OBVIOUS
<1>1. CASE UNCHANGED classVars
  BY <1>1 DEF classVars, ClassInv, ClassTypes, VariantsKept, Listed, Follow, AllDue, NothingStale
<1>2. ASSUME NEW base \in {Absent} \cup DOMAIN classes,
             NEW mixin \in {Absent} \cup DOMAIN classes,
             Define(base, mixin, <<>>)
      PROVE  ClassInv'
  <2>1. Distinct(<<>>)
    BY DEF Distinct
  <2> QED
    BY <1>2, <2>1, DefineKeeps
<1>3. ASSUME NEW base \in {Absent} \cup DOMAIN classes,
             NEW mixin \in {Absent} \cup DOMAIN classes, NEW k \in Field,
             Define(base, mixin, <<Plain(k)>>)
      PROVE  ClassInv'
  <2>1. Plain(k) \in FieldRec
    BY DEF Plain, FieldRec
  <2>2. Distinct(<<Plain(k)>>)
    BY <2>1 DEF Distinct
  <2> QED
    BY <1>3, <2>2, DefineKeeps
<1>4. ASSUME NEW c \in DOMAIN classes, NEW k \in Field,
             AppendField(c, k) \/ InsertField(c, 0, k) \/ InsertField(c, 1, k)
      PROVE  ClassInv'
  BY <1>4, AppendKeeps, InsertKeeps
<1> QED
  BY <1>1, <1>2, <1>3, <1>4, CustomizesKeeps, MemoizeKeeps DEF ClassesNext

LEMMA ClassInvKept == ClassesSpec => []ClassInv
  BY ClassInvStart, ClassInvStep, PTL DEF ClassesSpec

\* What get_flat_type_info has memoized is what it would compute now, and whom
\* get_subclasses has memoized it would list now, however many classes were defined,
\* customized and extended, in whatever order.
THEOREM ViewsFresh == ClassesSpec => []NothingStale
<1>1. ClassInv => NothingStale
  BY DEF ClassInv
<1> QED
  BY <1>1, ClassInvKept, PTL

\* The invariant says what variants have, and what is found of what was asked.
LEMMA Kept == ClassInv => CustomizationsKept
<1> SUFFICES ASSUME ClassInv PROVE CustomizationsKept
  OBVIOUS
<1>1. Sound(classes) /\ DOMAIN classes = 1 .. Len(classes)
  BY ClassFacts
<1>2. VariantsFollow
  <2>1. \A o : Shared(o) <=> SharedIn(classes, variants, o)
    BY <1>1 DEF Shared, SharedIn, Variants
  <2> QED
    BY <1>1, <2>1 DEF VariantsFollow, ClassInv, Follow, FollowIn
<1>3. Customized
  <2>1. \A c : Rebased(c) <=> RebasedIn(classes, c)
    BY DEF Rebased, RebasedIn, Line
  <2> SUFFICES ASSUME NEW c \in 1 .. Len(classes), ~RebasedIn(classes, c), NEW a \in asked[c],
                      NEW f \in ToSet(FlatTypeInfo(classes, c)), a[1] \in {f.name, All}
               PROVE  \/ a[2] \in f.cust
                      \/ \E d \in ToSet(Chain(classes, c)) : <<d, f.name>> \in again
    BY <1>1, <2>1 DEF Customized
  <2>2. Due(classes, again, c, a)
    BY DEF ClassInv, AllDue
  <2> QED
    BY <1>1, <2>2, DueIsCustomized DEF Line
<1> QED
  BY <1>2, <1>3 DEF CustomizationsKept

\* Variants have the fields of their class, and only these unless others share them or they
\* were given fields themselves.  The latest customization asked of a field is found on it,
\* whichever of the two came first and wherever the field is, unless the field was set once
\* more or the variant extends what the class does not.
THEOREM CustomizationsSurvive == ClassesSpec => []CustomizationsKept
  BY ClassInvKept, Kept, PTL

-----------------------------------------------------------------------------
(* The WSDL document.                                                       *)

Critical == {"locked", "built", "release"} \cup Building

Types ==
    /\ pc \in [Threads -> Stages]
    /\ seen \in [Threads -> Docs \cup {NoDoc}]
    /\ root \in [Threads -> Nat]
    /\ answer \in [Threads -> Docs \cup {NoDoc}]
    /\ cached \in Docs \cup {NoDoc}
    /\ wsdl \in Docs \cup {NoDoc}
    /\ tree \in Seq([Parts -> Nat])
    /\ current \in 0 .. Len(tree)

\* A build that has made its root element finds one.
Rooted == \A t \in Threads : pc[t] \in Building \ {"schema", "root"} => current > 0

\* The lock is held by the thread that goes through the section it guards.
Guarded == server = "wsgi" =>
    \A t \in Threads : pc[t] \in Critical => lock = t

\* A thread reads wsdl only after it was built, and builds only if there is
\* nothing to read.
OneDocument == server = "wsgi" /\ ~lost =>
    /\ \A t \in Threads : answer[t] \in {NoDoc, wsdl} /\ seen[t] \in {NoDoc, wsdl}
    /\ cached \in {NoDoc, wsdl}
    /\ cached = wsdl \/ \E t \in Threads : pc[t] = "built"
    /\ \A t \in Threads : pc[t] \in Building => wsdl = NoDoc

Inv == Types /\ Rooted /\ Guarded /\ OneDocument

USE DEF Building, Critical, Stages

LEMMA InitInv == Init => Inv
  <1> SUFFICES ASSUME Init PROVE Inv
    OBVIOUS
  <1>1. Types
    BY DEF Init, Types
  <1>2. Rooted /\ Guarded /\ OneDocument
    BY DEF Init, Rooted, Guarded, OneDocument
  <1> QED
    BY <1>1, <1>2 DEF Inv

\* The trees stay a sequence of as many trees when their parts change.
LEMMA TreesOfParts ==
  ASSUME NEW old \in Seq([Parts -> Nat]), NEW f,
         f = [k \in 1 .. Len(old) |-> f[k]],
         \A k \in 1 .. Len(old) : f[k] \in [Parts -> Nat]
  PROVE  f \in Seq([Parts -> Nat]) /\ Len(f) = Len(old)
  <1>1. Len(old) \in Nat
    OBVIOUS
  <1>2. f \in [1 .. Len(old) -> [Parts -> Nat]]
    <2>1. f = [k \in 1 .. Len(old) |-> f[k]]
      OBVIOUS
    <2> QED
      BY <2>1, Zenon
  <1> QED
    BY <1>1, <1>2

LEMMA AddKeepsTrees ==
  ASSUME tree \in Seq([Parts -> Nat]), NEW new, Add(new)
  PROVE  tree' \in Seq([Parts -> Nat]) /\ Len(tree') = Len(tree)
  <1>1. tree' = [k \in 1 .. Len(tree) |-> tree'[k]]
    BY DEF Add
  <1>2. ASSUME NEW k \in 1 .. Len(tree) PROVE tree'[k] \in [Parts -> Nat]
    <2>1. tree[k] \in [Parts -> Nat]
      BY <1>2
    <2> QED
      BY <2>1 DEF Add
  <1> QED
    BY <1>1, <1>2, TreesOfParts

\* Values keep their types.
LEMMA TypesStep ==
  ASSUME Types, Rooted, NEW t \in Threads, Step(t)
  PROVE  Types'
  <1>1. CASE WsgiRequest(t)
    BY <1>1 DEF WsgiRequest, Types, Rooted, GoTo, object
  <1>2. CASE Peek(t)
    BY <1>2 DEF Peek, Types, Rooted, GoTo, object
  <1>3. CASE Store(t)
    BY <1>3 DEF Store, Types, Rooted, GoTo, object
  <1>4. CASE Read(t)
    BY <1>4 DEF Read, Types, Rooted, GoTo, Answer, object
  <1>5. CASE Acquire(t)
    BY <1>5 DEF Acquire, Types, Rooted, GoTo, object
  <1>6. CASE Recheck(t)
    BY <1>6 DEF Recheck, Types, Rooted, GoTo, Answer, object
  <1>7. CASE WsgiBuilt(t)
    BY <1>7 DEF WsgiBuilt, Types, Rooted, GoTo, Answer, object
  <1>8. CASE Release(t)
    BY <1>8 DEF Release, Types, Rooted, GoTo, object
  <1>9. CASE DjangoRequest(t)
    BY <1>9 DEF DjangoRequest, Types, Rooted, GoTo, Answer, object
  <1>10. CASE DjangoBuilt(t)
    BY <1>10 DEF DjangoBuilt, Types, Rooted, GoTo, Answer, object
  <1>11. CASE BuildSchema(t)
    BY <1>11 DEF BuildSchema, Types, Rooted, GoTo, object
  <1>12. CASE NewRoot(t)
    BY <1>12 DEF NewRoot, Types, Rooted, GoTo, object
  <1>13. CASE AddTypes(t)
    <2>1. \A k \in 1 .. Len(tree) : tree[k] \in [Parts -> Nat]
      BY DEF Types
    <2>2. \A k \in 1 .. Len(tree) : tree'[k] \in [Parts -> Nat]
      BY <1>13, <2>1 DEF AddTypes, Parts
    <2>3. tree' = [k \in 1 .. Len(tree) |-> tree'[k]]
      BY <1>13 DEF AddTypes
    <2>4. tree' \in Seq([Parts -> Nat]) /\ Len(tree') = Len(tree)
      BY <2>2, <2>3, TreesOfParts DEF Types
    <2> QED
      BY <1>13, <2>4 DEF AddTypes, Types, GoTo
  <1>14. CASE AddServices(t)
    <2>1. tree' \in Seq([Parts -> Nat]) /\ Len(tree') = Len(tree)
      BY <1>14, AddKeepsTrees DEF AddServices, Types
    <2> QED
      BY <1>14, <2>1 DEF AddServices, Types, GoTo
  <1>15. CASE AddPortTypes(t)
    <2>1. tree' \in Seq([Parts -> Nat]) /\ Len(tree') = Len(tree)
      BY <1>15, AddKeepsTrees DEF AddPortTypes, Types
    <2> QED
      BY <1>15, <2>1 DEF AddPortTypes, Types, GoTo, Fail
  <1>16. CASE AddBindings(t)
    <2>1. tree' \in Seq([Parts -> Nat]) /\ Len(tree') = Len(tree)
      BY <1>16, AddKeepsTrees DEF AddBindings, Types
    <2> QED
      BY <1>16, <2>1 DEF AddBindings, Types, GoTo
  <1>17. CASE Serialize(t)
    <2>1. current \in 1 .. Len(tree)
      BY <1>17 DEF Serialize, Types, Rooted
    <2>2. wsdl' \in Docs
      BY <1>17, <2>1 DEF Serialize, Types, Docs
    <2> QED
      BY <1>17, <2>2 DEF Serialize, Types, GoTo
  <1>18. CASE Raise(t)
    BY <1>18 DEF Raise, Types, Rooted, GoTo, Fail, object, object
  <1> QED
    BY <1>1, <1>2, <1>3, <1>4, <1>5, <1>6, <1>7, <1>8, <1>9, <1>10, <1>11, <1>12, <1>13, <1>14, <1>15, <1>16, <1>17, <1>18 DEF Step, BuildStep

\* A build keeps its root element.
LEMMA RootedStep ==
  ASSUME Types, Rooted, NEW t \in Threads, Step(t)
  PROVE  Rooted'
  <1>1. CASE WsgiRequest(t)
    BY <1>1 DEF WsgiRequest, Types, Rooted, GoTo, object
  <1>2. CASE Peek(t)
    BY <1>2 DEF Peek, Types, Rooted, GoTo, object
  <1>3. CASE Store(t)
    BY <1>3 DEF Store, Types, Rooted, GoTo, object
  <1>4. CASE Read(t)
    BY <1>4 DEF Read, Types, Rooted, GoTo, Answer, object
  <1>5. CASE Acquire(t)
    BY <1>5 DEF Acquire, Types, Rooted, GoTo, object
  <1>6. CASE Recheck(t)
    BY <1>6 DEF Recheck, Types, Rooted, GoTo, Answer, object
  <1>7. CASE WsgiBuilt(t)
    BY <1>7 DEF WsgiBuilt, Types, Rooted, GoTo, Answer, object
  <1>8. CASE Release(t)
    BY <1>8 DEF Release, Types, Rooted, GoTo, object
  <1>9. CASE DjangoRequest(t)
    BY <1>9 DEF DjangoRequest, Types, Rooted, GoTo, Answer, object
  <1>10. CASE DjangoBuilt(t)
    BY <1>10 DEF DjangoBuilt, Types, Rooted, GoTo, Answer, object
  <1>11. CASE BuildSchema(t)
    BY <1>11 DEF BuildSchema, Types, Rooted, GoTo, object
  <1>12. CASE NewRoot(t)
    BY <1>12 DEF NewRoot, Types, Rooted, GoTo, object
  <1>13. CASE AddTypes(t)
    BY <1>13 DEF AddTypes, Types, Rooted, GoTo, object
  <1>14. CASE AddServices(t)
    BY <1>14 DEF AddServices, Types, Rooted, GoTo, Add, object
  <1>15. CASE AddPortTypes(t)
    BY <1>15 DEF AddPortTypes, Types, Rooted, GoTo, Fail, object
  <1>16. CASE AddBindings(t)
    BY <1>16 DEF AddBindings, Types, Rooted, GoTo, Add, object
  <1>17. CASE Serialize(t)
    BY <1>17 DEF Serialize, Types, Rooted, GoTo, object
  <1>18. CASE Raise(t)
    BY <1>18 DEF Raise, Types, Rooted, GoTo, Fail, object, object
  <1> QED
    BY <1>1, <1>2, <1>3, <1>4, <1>5, <1>6, <1>7, <1>8, <1>9, <1>10, <1>11, <1>12, <1>13, <1>14, <1>15, <1>16, <1>17, <1>18 DEF Step, BuildStep

\* Only Acquire and Release touch the lock.
LEMMA GuardedStep ==
  ASSUME Types, Guarded, NEW t \in Threads, Step(t)
  PROVE  Guarded'
  <1>1. CASE WsgiRequest(t)
    BY <1>1 DEF WsgiRequest, Types, Guarded, GoTo, object
  <1>2. CASE Peek(t)
    BY <1>2 DEF Peek, Types, Guarded, GoTo, object
  <1>3. CASE Store(t)
    BY <1>3 DEF Store, Types, Guarded, GoTo, object
  <1>4. CASE Read(t)
    BY <1>4 DEF Read, Types, Guarded, GoTo, Answer, object
  <1>5. CASE Acquire(t)
    BY <1>5, WsdlDocumentAssumption DEF Acquire, Types, Guarded, GoTo, object
  <1>6. CASE Recheck(t)
    BY <1>6 DEF Recheck, Types, Guarded, GoTo, Answer, object
  <1>7. CASE WsgiBuilt(t)
    BY <1>7 DEF WsgiBuilt, Types, Guarded, GoTo, Answer, object
  <1>8. CASE Release(t)
    BY <1>8 DEF Release, Types, Guarded, GoTo, object
  <1>9. CASE DjangoRequest(t)
    BY <1>9 DEF DjangoRequest, Types, Guarded, GoTo, Answer, object
  <1>10. CASE DjangoBuilt(t)
    BY <1>10 DEF DjangoBuilt, Types, Guarded, GoTo, Answer, object
  <1>11. CASE BuildSchema(t)
    BY <1>11 DEF BuildSchema, Types, Guarded, GoTo, object
  <1>12. CASE NewRoot(t)
    BY <1>12 DEF NewRoot, Types, Guarded, GoTo, object
  <1>13. CASE AddTypes(t)
    BY <1>13 DEF AddTypes, Types, Guarded, GoTo, object
  <1>14. CASE AddServices(t)
    BY <1>14 DEF AddServices, Types, Guarded, GoTo, Add, object
  <1>15. CASE AddPortTypes(t)
    BY <1>15 DEF AddPortTypes, Types, Guarded, GoTo, Fail, object
  <1>16. CASE AddBindings(t)
    BY <1>16 DEF AddBindings, Types, Guarded, GoTo, Add, object
  <1>17. CASE Serialize(t)
    BY <1>17 DEF Serialize, Types, Guarded, GoTo, object
  <1>18. CASE Raise(t)
    BY <1>18 DEF Raise, Types, Guarded, GoTo, Fail, object, object
  <1> QED
    BY <1>1, <1>2, <1>3, <1>4, <1>5, <1>6, <1>7, <1>8, <1>9, <1>10, <1>11, <1>12, <1>13, <1>14, <1>15, <1>16, <1>17, <1>18 DEF Step, BuildStep

\* A document, once built, stays the one of all the threads.
LEMMA OneDocumentStep ==
  ASSUME Inv, NEW t \in Threads, Step(t)
  PROVE  OneDocument'
  <1>1. CASE WsgiRequest(t)
    BY <1>1 DEF WsgiRequest, Inv, Types, Rooted, Guarded, OneDocument, GoTo, object
  <1>2. CASE Peek(t)
    BY <1>2 DEF Peek, Inv, Types, Rooted, Guarded, OneDocument, GoTo, object
  <1>3. CASE Store(t)
    BY <1>3 DEF Store, Inv, Types, Rooted, Guarded, OneDocument, GoTo, object
  <1>4. CASE Read(t)
    BY <1>4 DEF Read, Inv, Types, Rooted, Guarded, OneDocument, GoTo, Answer, object
  <1>5. CASE Acquire(t)
    BY <1>5 DEF Acquire, Inv, Types, Rooted, Guarded, OneDocument, GoTo, object
  <1>6. CASE Recheck(t)
    BY <1>6 DEF Recheck, Inv, Types, Rooted, Guarded, OneDocument, GoTo, Answer, object
  <1>7. CASE WsgiBuilt(t)
    BY <1>7 DEF WsgiBuilt, Inv, Types, Rooted, Guarded, OneDocument, GoTo, Answer, object
  <1>8. CASE Release(t)
    BY <1>8 DEF Release, Inv, Types, Rooted, Guarded, OneDocument, GoTo, object
  <1>9. CASE DjangoRequest(t)
    BY <1>9 DEF DjangoRequest, Inv, Types, Rooted, Guarded, OneDocument, GoTo, Answer, object
  <1>10. CASE DjangoBuilt(t)
    BY <1>10 DEF DjangoBuilt, Inv, Types, Rooted, Guarded, OneDocument, GoTo, Answer, object
  <1>11. CASE BuildSchema(t)
    BY <1>11 DEF BuildSchema, Inv, Types, Rooted, Guarded, OneDocument, GoTo, object
  <1>12. CASE NewRoot(t)
    BY <1>12 DEF NewRoot, Inv, Types, Rooted, Guarded, OneDocument, GoTo, object
  <1>13. CASE AddTypes(t)
    BY <1>13 DEF AddTypes, Inv, Types, Rooted, Guarded, OneDocument, GoTo, object
  <1>14. CASE AddServices(t)
    BY <1>14 DEF AddServices, Inv, Types, Rooted, Guarded, OneDocument, GoTo, Add, object
  <1>15. CASE AddPortTypes(t)
    BY <1>15 DEF AddPortTypes, Inv, Types, Rooted, Guarded, OneDocument, GoTo, Fail, object
  <1>16. CASE AddBindings(t)
    BY <1>16 DEF AddBindings, Inv, Types, Rooted, Guarded, OneDocument, GoTo, Add, object
  <1>17. CASE Serialize(t)
    BY <1>17 DEF Serialize, Inv, Types, Rooted, Guarded, OneDocument, GoTo, object
  <1>18. CASE Raise(t)
    BY <1>18 DEF Raise, Inv, Types, Rooted, Guarded, OneDocument, GoTo, Fail, object, object
  <1> QED
    BY <1>1, <1>2, <1>3, <1>4, <1>5, <1>6, <1>7, <1>8, <1>9, <1>10, <1>11, <1>12, <1>13, <1>14, <1>15, <1>16, <1>17, <1>18 DEF Step, BuildStep

LEMMA StepInv == Inv /\ [Next]_vars => Inv'
  <1> SUFFICES ASSUME Inv, [Next]_vars PROVE Inv'
    OBVIOUS
  <1>1. CASE Next
    <2>1. PICK t \in Threads : Step(t)
      BY <1>1 DEF Next
    <2> QED
      BY <2>1, TypesStep, RootedStep, GuardedStep, OneDocumentStep DEF Inv
  <1>2. CASE UNCHANGED vars
    BY <1>2 DEF vars, object, Inv, Types, Rooted, Guarded, OneDocument
  <1> QED
    BY <1>1, <1>2

LEMMA SpecInv == Spec => []Inv
  <1>1. Init => Inv
    BY InitInv
  <1>2. Inv /\ [Next]_vars => Inv'
    BY StepInv
  <1> QED
    BY <1>1, <1>2, PTL DEF Spec

\* WsgiApplication builds in one thread at a time: the lock taken in
\* handle_wsdl_request is held until the finally clause.
THEOREM BuildsExclude == Spec => []Exclusive
  <1>1. Inv => Exclusive
    BY DEF Inv, Guarded, Exclusive, InBuild
  <1> QED
    BY <1>1, SpecInv, PTL

\* All the clients of WsgiApplication get the same document, whatever builds
\* fail, as long as no late store has emptied its cache.
THEOREM AnswersAgree == Spec => []SameAnswer
  <1>1. Inv => SameAnswer
    BY DEF Inv, OneDocument, SameAnswer
  <1> QED
    BY <1>1, SpecInv, PTL
=============================================================================
