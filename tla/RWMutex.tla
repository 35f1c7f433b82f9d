------------------------------ MODULE RWMutex -------------------------------
(***************************************************************************)
(* The reader-writer lock of the operating system services: _ossRWMutex of *)
(* ossRWMutex.cpp on the auto-reset event of ossEvent.cpp.                 *)
(*                                                                         *)
(* Readers and writers announce themselves in two atomic counters and look *)
(* at the other one afterwards; each atomic operation is a step.  A thread *)
(* that must wait does so on one event that readers and writers share,     *)
(* that wakes a single thread per signal, and whose every wait is cut into *)
(* slices of at most ReadTimeout or WriteTimeout milliseconds.             *)
(***************************************************************************)
EXTENDS Integers, FiniteSets

CONSTANTS Thread,        \* the callers
          ReadTimeout,   \* OSS_RW_READ_TIMEOUT
          WriteTimeout,  \* OSS_RW_WIRTE_TIMEOUT
          Millisec       \* what callers pass; -1 waits for ever

ASSUME RWMutexAssumption ==
  /\ IsFiniteSet(Thread)
  /\ ReadTimeout \in Nat \ {0} /\ WriteTimeout \in Nat \ {0}
  /\ Millisec \subseteq Nat \cup {-1}

VARIABLES
  shardWrite,\* _type: the mutex was built with RW_SHARDWRITE
  r,         \* _r
  w,         \* _w
  signal,    \* _event._signal
  pc,        \* where a thread is in its call
  left,      \* millisec of its call
  slice,     \* timeout of its call
  sysError   \* a release met a counter that was already zero

vars == <<shardWrite, r, w, signal, pc, left, slice, sysError>>

ReaderPc == {"r_enter", "r_test", "r_back", "r_wait"}
WriterPc == {"w_cas", "w_inc", "w_wait", "w_test", "w_drain", "w_undo"}
Pc == ReaderPc \cup WriterPc
        \cup {"idle", "reading", "writing", "r_leave", "w_leave"}

(* The threads that have announced themselves in a counter. *)
CountedR == {t \in Thread : pc[t] \in {"r_test", "r_back", "reading"}}
CountedW == {t \in Thread : pc[t] \in {"w_test", "w_drain", "writing"}}

Holding(t) == pc[t] \in {"reading", "writing"}

Init ==
  /\ shardWrite \in BOOLEAN
  /\ r = 0 /\ w = 0 /\ signal = FALSE
  /\ pc = [t \in Thread |-> "idle"]
  /\ left = [t \in Thread |-> 0]
  /\ slice = [t \in Thread |-> 0]
  /\ sysError = FALSE

At(t, p)   == pc[t] = p
Goto(t, p) == pc' = [pc EXCEPT ![t] = p]
-----------------------------------------------------------------------------
(***************************************************************************)
(* _makeTimeout: the length of one wait of a call.  A negative millisec    *)
(* becomes 2^31 - 1, some 24 days, which the model takes as for ever: the  *)
(* scoped lock relies on it, for it ignores what lock_r and lock_w return. *)
(***************************************************************************)
MakeLeft(ms) == IF ms = 0 THEN 1 ELSE ms
MakeSlice(ms, cap) == IF ms = -1 \/ cap < MakeLeft(ms) THEN cap ELSE MakeLeft(ms)

Enter(t, p, cap) ==
  /\ At(t, "idle") /\ Goto(t, p)
  /\ \E ms \in Millisec : /\ left' = [left EXCEPT ![t] = MakeLeft(ms)]
                          /\ slice' = [slice EXCEPT ![t] = MakeSlice(ms, cap)]
  /\ UNCHANGED <<r, w, signal, sysError>>

(***************************************************************************)
(* _event.wait.  A wait that finds the signal consumes it (_onWait of the  *)
(* auto event) and the call goes on at `again'.  A wait that runs out, be  *)
(* it while the signal is being raised, costs the call one slice, and ends *)
(* it at `expired' once less than nothing is left.                         *)
(***************************************************************************)
Signalled(t, at, again) ==
  /\ At(t, at) /\ signal
  /\ signal' = FALSE /\ Goto(t, again)
  /\ UNCHANGED <<r, w, left, slice, sysError>>

OutOfTime(t) == left[t] # -1 /\ left[t] < slice[t]

TimedOutNotForEver(t, at, again, expired) ==   \* fault: -1 waits without a slice
  /\ At(t, at) /\ left[t] # -1
  /\ IF OutOfTime(t)
     THEN Goto(t, expired) /\ UNCHANGED left
     ELSE Goto(t, again) /\ left' = [left EXCEPT ![t] = @ - slice[t]]
  /\ UNCHANGED <<r, w, signal, slice, sysError>>

TimedOut(t, at, again, expired) ==
  /\ At(t, at)
  /\ IF OutOfTime(t)
     THEN Goto(t, expired) /\ UNCHANGED left
     ELSE /\ Goto(t, again)
          /\ left' = [left EXCEPT ![t] = IF @ = -1 THEN -1 ELSE @ - slice[t]]
  /\ UNCHANGED <<r, w, signal, slice, sysError>>

SignalAll(t, at) ==
  /\ At(t, at)
  /\ signal' = TRUE /\ Goto(t, "idle")
  /\ UNCHANGED <<r, w, left, slice, sysError>>
-----------------------------------------------------------------------------
(* lock_r: count in, look for writers, and count out again to wait. *)
LockR(t) == Enter(t, "r_enter", ReadTimeout)

CountInR(t) ==
  /\ At(t, "r_enter") /\ Goto(t, "r_test")
  /\ r' = r + 1
  /\ UNCHANGED <<w, signal, left, slice, sysError>>

TestW(t) ==
  /\ At(t, "r_test")
  /\ Goto(t, IF w = 0 THEN "reading" ELSE "r_back")
  /\ UNCHANGED <<r, w, signal, left, slice, sysError>>

CountOutR(t) ==
  /\ At(t, "r_back") /\ Goto(t, "r_wait")
  /\ r' = r - 1
  /\ UNCHANGED <<w, signal, left, slice, sysError>>

WaitR(t) == \/ Signalled(t, "r_wait", "r_enter")
            \/ TimedOut(t, "r_wait", "r_enter", "idle")

(* release_r: a zero counter is SDB_SYS; the event is raised for a writer. *)
ReleaseR(t) ==
  /\ At(t, "reading")
  /\ IF r = 0 THEN sysError' = TRUE /\ Goto(t, "idle") /\ UNCHANGED r
              ELSE r' = r - 1 /\ Goto(t, "r_leave") /\ UNCHANGED sysError
  /\ UNCHANGED <<w, signal, left, slice>>

LeaveR(t) ==
  \/ w # 0 /\ SignalAll(t, "r_leave")
  \/ /\ w = 0 /\ At(t, "r_leave") /\ Goto(t, "idle")
     /\ UNCHANGED <<r, w, signal, left, slice, sysError>>
-----------------------------------------------------------------------------
(* lock_w: take or share the write flag, then wait until the readers drain. *)
LockW(t) == Enter(t, "w_cas", WriteTimeout)

SwapWIncrement(t) ==   \* fault: an increment, not a compare-and-swap
  /\ At(t, "w_cas") /\ Goto(t, "w_test")
  /\ w' = w + 1
  /\ UNCHANGED <<r, signal, left, slice, sysError>>

SwapW(t) ==        \* compareAndSwap( 0, 1 )
  /\ At(t, "w_cas")
  /\ IF w = 0 THEN w' = 1 /\ Goto(t, "w_test")
              ELSE /\ Goto(t, IF shardWrite THEN "w_inc" ELSE "w_wait")
                   /\ UNCHANGED w
  /\ UNCHANGED <<r, signal, left, slice, sysError>>

ShareW(t) ==
  /\ At(t, "w_inc") /\ Goto(t, "w_test")
  /\ w' = w + 1
  /\ UNCHANGED <<r, signal, left, slice, sysError>>

WaitW(t) == \/ Signalled(t, "w_wait", "w_cas")
            \/ TimedOut(t, "w_wait", "w_cas", "idle")

TestR(t) ==
  /\ At(t, "w_test")
  /\ Goto(t, IF r = 0 THEN "writing" ELSE "w_drain")
  /\ UNCHANGED <<r, w, signal, left, slice, sysError>>

(* The last wait that runs out gives the flag back and wakes the others. *)
WaitDrain(t) ==
  \/ Signalled(t, "w_drain", "w_test")
  \/ ~OutOfTime(t) /\ TimedOut(t, "w_drain", "w_test", "w_test")
  \/ /\ OutOfTime(t) /\ At(t, "w_drain") /\ Goto(t, "w_undo")
     /\ w' = w - 1
     /\ UNCHANGED <<r, signal, left, slice, sysError>>

UndoW(t) == SignalAll(t, "w_undo")

ReleaseWReset(t) ==    \* fault: clears the flag of the writers that share it
  /\ At(t, "writing") /\ Goto(t, "w_leave")
  /\ w' = 0
  /\ UNCHANGED <<r, signal, left, slice, sysError>>

(* release_w *)
ReleaseW(t) ==
  /\ At(t, "writing")
  /\ IF w = 0 THEN sysError' = TRUE /\ Goto(t, "idle") /\ UNCHANGED w
              ELSE w' = w - 1 /\ Goto(t, "w_leave") /\ UNCHANGED sysError
  /\ UNCHANGED <<r, signal, left, slice>>

LeaveW(t) == SignalAll(t, "w_leave")
-----------------------------------------------------------------------------
Call(t) == (LockR(t) \/ LockW(t)) /\ UNCHANGED shardWrite

Step(t) ==
  /\ \/ CountInR(t) \/ TestW(t) \/ CountOutR(t) \/ WaitR(t) \/ ReleaseR(t) \/ LeaveR(t)
     \/ SwapW(t) \/ ShareW(t) \/ WaitW(t) \/ TestR(t) \/ WaitDrain(t) \/ UndoW(t)
     \/ ReleaseW(t) \/ LeaveW(t)
  /\ UNCHANGED shardWrite

Next == \E t \in Thread : Call(t) \/ Step(t)

Spec == Init /\ [][Next]_vars

(***************************************************************************)
(* For progress, threads inside a call go on, holders release, and a wait  *)
(* of a hundred milliseconds or more outlasts the few instructions other   *)
(* threads are in the middle of: it runs out only when everybody sleeps,   *)
(* holds the lock or is outside.                                           *)
(***************************************************************************)
Asleep(t) == pc[t] \in {"r_wait", "w_wait", "w_drain"}

Timely == (\E t \in Thread : Asleep(t) /\ pc'[t] # pc[t] /\ signal' = signal)
            => \A t \in Thread : Asleep(t) \/ Holding(t) \/ At(t, "idle")

TimelySpec == /\ Init /\ [][Next /\ Timely]_vars
              /\ \A t \in Thread : SF_vars(Step(t) /\ Timely)
-----------------------------------------------------------------------------
(* The type invariant. *)
TypeOK ==
  /\ shardWrite \in BOOLEAN
  /\ r \in Nat /\ w \in Nat /\ signal \in BOOLEAN /\ sysError \in BOOLEAN
  /\ pc \in [Thread -> Pc]
  /\ left \in [Thread -> Nat \cup {-1}]
  /\ slice \in [Thread -> Nat]

(* Between lock_r and release_r no thread is between lock_w and release_w, *)
(* and without RW_SHARDWRITE only one is: what every caller of             *)
(* ossScopedRWLock relies on, though the two sides only look at each       *)
(* other's counter after they raised their own.                            *)
Exclusion ==
  \A t, u \in Thread :
    /\ ~(At(t, "reading") /\ At(u, "writing"))
    /\ At(t, "writing") /\ At(u, "writing") /\ t # u => shardWrite

(* Every back-out, time-out and release takes back exactly the count its   *)
(* thread had raised, so a release never meets a zero (SDB_SYS) and a      *)
(* mutex nobody uses is open to both sides again.                          *)
CountsExact ==
  /\ r = Cardinality(CountedR) /\ w = Cardinality(CountedW)
  /\ ~sysError

(* _r and _w count the threads that announced themselves, so no release    *)
(* fails with SDB_SYS; and readers exclude writers, which exclude each     *)
(* other unless the mutex was built with RW_SHARDWRITE.                    *)
LockExact == TypeOK /\ CountsExact /\ Exclusion

(* The mutex is a reader-writer lock. *)
Lock == INSTANCE RWLock WITH
          readers <- {t \in Thread : At(t, "reading")},
          writers <- {t \in Thread : At(t, "writing")}
IsRWLock == Lock!Spec

(* Once no new calls arrive, every thread that waits gets the lock or runs *)
(* out of time, and the lock ends up free: nobody is left asleep for a     *)
(* signal that another thread consumed.                                    *)
NoArrival == \A t \in Thread : At(t, "idle") => pc'[t] = "idle"
Drains == <>[][NoArrival]_vars => <>[](r = 0 /\ w = 0 /\ \A t \in Thread : At(t, "idle"))
=============================================================================
