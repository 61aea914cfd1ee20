------------------------------- MODULE Memoize -------------------------------
(***************************************************************************)
(* One key of a function decorated with memoize_ignore_none or memoize of    *)
(* spyne/util/memo.py, called by threads while another one changes what the  *)
(* function computes from and then clears the memo, as append_field and      *)
(* customize of spyne/model/complex.py do.  The membership test and the get  *)
(* are outside of the lock, the clear does not take it.                      *)
(***************************************************************************)
EXTENDS FiniteSets, Naturals

CONSTANTS
    Thread,
    MaxChanges  \* bound: how often the source changes

VARIABLES
    source,    \* what the function computes from: a version
    pending,   \* the source has changed, the memo is not cleared yet
    memo,      \* the version the value in the memo was computed from, or NoResult (None)
    holder,    \* the thread that holds the lock, or none, as a set
    place,     \* of each thread: where it is in __call__
    got,       \* the version each thread computes from, or got
    stores,    \* values stored since the last clear
    cleared,   \* threads during whose call the memo was cleared
    late       \* the value in the memo is of a call during which it was cleared

memoVars == <<source, pending, memo, holder, place, got, stores, cleared, late>>

NoResult == 0  \* versions start from 1

MemoInit ==
    /\ source = 1 /\ pending = FALSE
    /\ memo = NoResult /\ holder = {}
    /\ place = [t \in Thread |-> "idle"]
    /\ got = [t \in Thread |-> NoResult]
    /\ stores = 0 /\ cleared = {} /\ late = FALSE

Go(t, from, to) == place[t] = from /\ place' = [place EXCEPT ![t] = to]

\* The membership test is made the other way around.
BadCall(t) ==
    /\ Go(t, "idle", IF memo = NoResult THEN "getting" ELSE "locking")
    /\ cleared' = cleared \ {t}
    /\ UNCHANGED <<source, pending, memo, holder, got, stores, late>>

\* not key in self.memo
Call(t) ==
    /\ Go(t, "idle", IF memo = NoResult THEN "locking" ELSE "getting")
    /\ cleared' = cleared \ {t}
    /\ UNCHANGED <<source, pending, memo, holder, got, stores, late>>

\* The memo is not looked at again.
BadTakeLock(t) ==
    /\ Go(t, "locking", "computing")
    /\ holder = {}
    /\ holder' = {t}
    /\ got' = [got EXCEPT ![t] = source]
    /\ UNCHANGED <<source, pending, memo, stores, cleared, late>>

\* The test is made again with the lock; the function starts to compute.
TakeLock(t) ==
    /\ Go(t, "locking", IF memo = NoResult THEN "computing" ELSE "getting")
    /\ holder = {}
    /\ holder' = IF memo = NoResult THEN {t} ELSE {}
    /\ got' = IF memo = NoResult THEN [got EXCEPT ![t] = source] ELSE got
    /\ UNCHANGED <<source, pending, memo, stores, cleared, late>>

Keep(t) ==
    /\ Go(t, "computing", "returned")
    /\ memo' = got[t]
    /\ holder' = {}
    /\ stores' = stores + 1
    /\ late' = (t \in cleared)
    /\ UNCHANGED <<source, pending, got, cleared>>

\* return self.memo.get(key)
GetMemo(t) ==
    /\ Go(t, "getting", "returned")
    /\ got' = [got EXCEPT ![t] = memo]
    /\ UNCHANGED <<source, pending, memo, holder, stores, cleared, late>>

Return(t) ==
    /\ Go(t, "returned", "idle")
    /\ UNCHANGED <<source, pending, memo, holder, got, stores, cleared, late>>

Change ==
    /\ ~pending
    /\ source <= MaxChanges
    /\ source' = source + 1
    /\ pending' = TRUE
    /\ UNCHANGED <<memo, holder, place, got, stores, cleared, late>>

\* The memo is forgotten.
BadClear ==
    /\ pending
    /\ pending' = FALSE
    /\ stores' = 0
    /\ cleared' = Thread
    /\ UNCHANGED <<source, memo, holder, place, got, late>>

Clear ==
    /\ pending
    /\ pending' = FALSE
    /\ memo' = NoResult /\ late' = FALSE
    /\ stores' = 0
    /\ cleared' = Thread
    /\ UNCHANGED <<source, holder, place, got>>

MemoNext ==
    \/ \E t \in Thread : Call(t) \/ TakeLock(t) \/ Keep(t) \/ GetMemo(t) \/ Return(t)
    \/ Change \/ Clear

MemoSpec == MemoInit /\ [][MemoNext]_memoVars

-----------------------------------------------------------------------------

\* An old value stays in the memo only when the memo was cleared during the call
\* that computed it: the lock does not prevent that.
StaleOnlyIfLate == memo # NoResult /\ ~pending /\ memo # source => late

\* Between two clears the function is computed once, however many threads miss
\* the memo at the same time: the second test, under the lock, sees to it.  This is
\* what the code does and not what memo.py promises, whose docstring (25-26) calls
\* memoizers "NOT thread-safe" and tells those who rely on one execution per key to
\* write their own.  It says no more than the lock gives: a clear, which does not
\* take the lock, starts a new count.
ComputedOnce ==
    /\ stores <= 1
    /\ Cardinality({t \in Thread : place[t] = "computing"}) <= 1

\* A call returns None, for a function that never does, only when the memo was
\* cleared between its membership test and its get.
NoneOnlyIfCleared ==
    \A t \in Thread : place[t] = "returned" /\ got[t] = NoResult => t \in cleared

\* What is left to a caller of a memoized function whose memo is cleared by another
\* thread, and no more: an old value, or none, from calls the clear came into.
MemoContract == StaleOnlyIfLate /\ NoneOnlyIfCleared
=============================================================================
