---------------------------- MODULE AtomicProofs -----------------------------
(***************************************************************************)
(* The two structures that are built on atomic instructions: the reader-   *)
(* writer lock and the trace buffer.                                       *)
(*                                                                         *)
(* The reader-writer lock is one, for any number of threads, any time-outs *)
(* and both kinds of mutex.  The inductive invariant is that each counter  *)
(* is the number of threads that have counted themselves and not yet taken *)
(* the count back: a thread that reads zero in the other side's counter    *)
(* then knows that nobody there is past its own count.                     *)
(*                                                                         *)
(* The trace buffer is sound for any number of threads, any chunk size and *)
(* any sizes of records (second half of the module).                       *)
(***************************************************************************)
EXTENDS RWMutex, TraceBuffer, FiniteSetTheorems, TLAPS

(* Nobody reads while somebody writes. *)
NoOverlap == \A t, u \in Thread : ~(At(t, "reading") /\ At(u, "writing"))

(* Without RW_SHARDWRITE the flag is taken by compare-and-swap alone. *)
SoleWriter == ~shardWrite => /\ \A t, u \in CountedW : t = u
                             /\ \A t \in Thread : ~At(t, "w_inc")

IInv == TypeOK /\ CountsExact /\ NoOverlap /\ SoleWriter

USE RWMutexAssumption

(* What counting a thread in or out does to the size of a set of threads. *)
LEMMA Counting ==
  ASSUME NEW S \in SUBSET Thread, NEW t \in Thread
  PROVE  /\ Cardinality(S) \in Nat
         /\ t \notin S => Cardinality(S \cup {t}) = Cardinality(S) + 1
         /\ t \in S => /\ Cardinality(S \ {t}) = Cardinality(S) - 1
                       /\ Cardinality(S) # 0
         /\ Cardinality(S) = 0 => S = {}
<1>1. IsFiniteSet(S)
  BY FS_Subset
<1>2. Cardinality(S) \in Nat
  BY <1>1, FS_CardinalityType
<1>3. t \notin S => Cardinality(S \cup {t}) = Cardinality(S) + 1
  BY <1>1, FS_AddElement
<1>4. t \in S => Cardinality(S \ {t}) = Cardinality(S) - 1
  BY <1>1, FS_RemoveElement
<1>5. Cardinality(S) = 0 => S = {}
  BY <1>1, FS_EmptySet
<1> QED
  BY <1>2, <1>3, <1>4, <1>5

(* Where a thread goes decides the sets of counted threads. *)
LEMMA Moving ==
  ASSUME pc \in [Thread -> Pc], NEW t \in Thread, NEW p \in Pc, Goto(t, p)
  PROVE  /\ pc' \in [Thread -> Pc] /\ pc'[t] = p
         /\ \A u \in Thread \ {t} : pc'[u] = pc[u]
         /\ CountedR' = IF p \in {"r_test", "r_back", "reading"}
                        THEN CountedR \cup {t} ELSE CountedR \ {t}
         /\ CountedW' = IF p \in {"w_test", "w_drain", "writing"}
                        THEN CountedW \cup {t} ELSE CountedW \ {t}
         /\ (t \in CountedR <=> p \in {"r_test", "r_back", "reading"}) => CountedR' = CountedR
         /\ (t \in CountedW <=> p \in {"w_test", "w_drain", "writing"}) => CountedW' = CountedW
<1>1. /\ pc' \in [Thread -> Pc] /\ pc'[t] = p
      /\ \A u \in Thread \ {t} : pc'[u] = pc[u]
  BY DEF Goto
<1>2. CountedR' = IF p \in {"r_test", "r_back", "reading"}
                  THEN CountedR \cup {t} ELSE CountedR \ {t}
  BY <1>1 DEF CountedR
<1>3. CountedW' = IF p \in {"w_test", "w_drain", "writing"}
                  THEN CountedW \cup {t} ELSE CountedW \ {t}
  BY <1>1 DEF CountedW
<1> QED
  BY <1>1, <1>2, <1>3

(* The counters are numbers of counted threads in the initial state. *)
LEMMA InitIInv == Init => IInv
<1> SUFFICES ASSUME Init PROVE IInv
  OBVIOUS
<1>1. TypeOK
  BY DEF Init, TypeOK, Pc
<1>2. CountedR = {} /\ CountedW = {}
  BY DEF Init, CountedR, CountedW
<1>3. CountsExact
  BY <1>2, FS_EmptySet DEF Init, CountsExact
<1>4. NoOverlap /\ SoleWriter
  BY <1>2 DEF Init, NoOverlap, SoleWriter, At
<1> QED
  BY <1>1, <1>3, <1>4 DEF IInv

(* Every atomic step of lock_r, lock_w, release_r and release_w keeps the  *)
(* counters exact, and a thread is let in only while the other side's      *)
(* counter is zero.                                                        *)
LEMMA StepIInv == IInv /\ [Next]_vars => IInv'
<1> SUFFICES ASSUME IInv, [Next]_vars PROVE IInv'
  OBVIOUS
<1> USE DEF IInv
<1>0. /\ CountedR \in SUBSET Thread /\ CountedW \in SUBSET Thread
      /\ r = Cardinality(CountedR) /\ w = Cardinality(CountedW)
      /\ pc \in [Thread -> Pc] /\ ~sysError
  BY DEF CountedR, CountedW, CountsExact, TypeOK
<1>1. CASE UNCHANGED vars
  <2>1. CountedR' = CountedR /\ CountedW' = CountedW
    BY <1>1 DEF vars, CountedR, CountedW
  <2> QED
    BY <1>1, <2>1 DEF vars, TypeOK, CountsExact, NoOverlap, SoleWriter, At
<1>2. ASSUME NEW t \in Thread, Call(t) \/ Step(t)
      PROVE  IInv'
  <2> USE <1>2
  <2>a. /\ t \notin CountedR => Cardinality(CountedR \cup {t}) = r + 1
        /\ t \in CountedR => Cardinality(CountedR \ {t}) = r - 1 /\ r # 0
        /\ r = 0 => CountedR = {}
        /\ t \notin CountedW => Cardinality(CountedW \cup {t}) = w + 1
        /\ t \in CountedW => Cardinality(CountedW \ {t}) = w - 1 /\ w # 0
        /\ w = 0 => CountedW = {}
        /\ r \in Nat /\ w \in Nat
    BY <1>0, Counting
  <2>b. /\ t \in CountedR <=> pc[t] \in {"r_test", "r_back", "reading"}
        /\ t \in CountedW <=> pc[t] \in {"w_test", "w_drain", "writing"}
    BY DEF CountedR, CountedW
  <2>c. /\ left[t] \in Nat \cup {-1} /\ slice[t] \in Nat
        /\ left \in [Thread -> Nat \cup {-1}] /\ slice \in [Thread -> Nat]
        /\ signal \in BOOLEAN /\ sysError \in BOOLEAN
        /\ shardWrite \in BOOLEAN /\ shardWrite' = shardWrite
    BY DEF TypeOK, Call, Step
  (* A thread that is not let in leaves the holders alone. *)
  <2>d. ASSUME NEW p \in Pc \ {"reading", "writing"}, Goto(t, p)
        PROVE  NoOverlap'
    BY <2>d, <1>0, Moving DEF NoOverlap, At
  (* A writer is added only when there is none, or when they may share. *)
  <2>g. ASSUME NEW q \in Pc, Goto(t, q), q = "w_inc" => shardWrite,
               \/ t \in CountedW \/ w = 0 \/ shardWrite
               \/ q \notin {"w_test", "w_drain", "writing"}
        PROVE  SoleWriter'
    <3>1. /\ CountedW' = CountedW \ {t} \/ CountedW' = CountedW \cup {t}
          /\ CountedW' = CountedW \ {t} \/ t \in CountedW \/ w = 0 \/ shardWrite
          /\ pc' \in [Thread -> Pc] /\ pc'[t] = q
          /\ \A u \in Thread \ {t} : pc'[u] = pc[u]
      BY <2>g, <1>0, Moving
    <3>2. ~shardWrite => \A u, v \in CountedW' : u = v
      BY <3>1, <2>a DEF SoleWriter
    <3>3. ~shardWrite => \A u \in Thread : ~At(u, "w_inc")'
      BY <3>1, <2>g DEF SoleWriter, At
    <3> QED
      BY <3>2, <3>3, <2>c DEF SoleWriter
  (* A step that goes from p to q without counting. *)
  <2>e. ASSUME NEW q \in Pc, Goto(t, q), r' = r, w' = w, ~sysError',
               pc[t] \in {"r_test", "r_back", "reading"}
                 <=> q \in {"r_test", "r_back", "reading"},
               pc[t] \in {"w_test", "w_drain", "writing"}
                 <=> q \in {"w_test", "w_drain", "writing"}
        PROVE  CountsExact'
    <3>1. CountedR' = CountedR
      BY <2>e, <1>0 DEF Goto, CountedR
    <3>2. CountedW' = CountedW
      BY <2>e, <1>0 DEF Goto, CountedW
    <3> QED
      BY <3>1, <3>2, <2>e, <1>0 DEF CountsExact
  <2>f. ASSUME NEW q \in Pc, Goto(t, q)
        PROVE  pc' \in [Thread -> Pc]
    BY <2>f, <1>0 DEF Goto
  <2>1. ASSUME NEW p \in {"r_enter", "w_cas"}, NEW cap \in Nat, Enter(t, p, cap)
        PROVE  IInv'
    <3>1. PICK ms \in Millisec : /\ left' = [left EXCEPT ![t] = MakeLeft(ms)]
                                 /\ slice' = [slice EXCEPT ![t] = MakeSlice(ms, cap)]
      BY <2>1 DEF Enter
    <3>2. MakeLeft(ms) \in Nat \cup {-1} /\ MakeSlice(ms, cap) \in Nat
      BY DEF MakeLeft, MakeSlice
    <3>3. p \in Pc \ {"reading", "writing"} /\ Goto(t, p)
      BY <2>1 DEF Enter, Pc, ReaderPc, WriterPc
    <3>4. TypeOK'
      BY <2>1, <3>1, <3>2, <3>3, <2>a, <2>c, <2>f DEF Enter, TypeOK
    <3>5. CountsExact'
      BY <2>1, <3>3, <2>e, <1>0 DEF Enter, At
    <3> QED
      BY <3>3, <3>4, <3>5, <2>d, <2>g, <2>b
  <2>2. ASSUME NEW at \in {"r_wait", "w_wait"}, NEW again \in {"r_enter", "w_cas"},
               Signalled(t, at, again) \/ TimedOut(t, at, again, "idle")
        PROVE  IInv'
    <3>1. PICK q \in {"r_enter", "w_cas", "idle"} : Goto(t, q)
      BY <2>2 DEF Signalled, TimedOut
    <3>2. q \in Pc \ {"reading", "writing"}
      BY DEF Pc, ReaderPc, WriterPc
    <3>a. UNCHANGED <<r, w, slice, sysError>> /\ pc[t] = at
      BY <2>2 DEF Signalled, TimedOut, At
    <3>b. signal' \in BOOLEAN
      BY <2>2, <2>c DEF Signalled, TimedOut
    <3>c. left' \in [Thread -> Nat \cup {-1}]
      <4>1. CASE left' = left
        BY <4>1, <2>c
      <4>2. CASE /\ ~OutOfTime(t)
                 /\ left' = [left EXCEPT ![t] = IF @ = -1 THEN -1 ELSE @ - slice[t]]
        BY <4>2, <2>c DEF OutOfTime
      <4> QED
        BY <2>2, <4>1, <4>2 DEF Signalled, TimedOut
    <3>3. /\ UNCHANGED <<r, w, slice, sysError>> /\ signal' \in BOOLEAN
          /\ left' \in [Thread -> Nat \cup {-1}] /\ pc[t] = at
      BY <3>a, <3>b, <3>c
    <3>4. TypeOK'
      BY <3>1, <3>2, <3>3, <2>a, <2>c, <2>f DEF TypeOK
    <3>5. CountsExact'
      BY <3>1, <3>2, <3>3, <2>e, <1>0
    <3> QED
      BY <3>1, <3>2, <3>4, <3>5, <2>d, <2>g, <2>b
  <2>3. ASSUME NEW at \in {"r_leave", "w_undo", "w_leave"}, SignalAll(t, at)
        PROVE  IInv'
    <3>1. "idle" \in Pc /\ Goto(t, "idle") /\ pc[t] = at
      BY <2>3 DEF Pc, SignalAll, At
    <3>2. TypeOK'
      BY <2>3, <3>1, <2>a, <2>c, <2>f DEF TypeOK, SignalAll
    <3>3. CountsExact'
      BY <2>3, <3>1, <2>e, <1>0 DEF SignalAll
    <3> QED
      BY <3>1, <3>2, <3>3, <2>d, <2>g, <2>b
  <2>4. CASE CountInR(t)
    <3>1. "r_test" \in Pc /\ Goto(t, "r_test") /\ pc[t] = "r_enter"
      BY <2>4 DEF Pc, ReaderPc, CountInR, At
    <3>2. CountedR' = CountedR \cup {t} /\ CountedW' = CountedW
      BY <3>1, <2>b, <1>0, Moving
    <3>3. TypeOK'
      BY <2>4, <3>1, <2>a, <2>c, <2>f DEF TypeOK, CountInR
    <3>4. CountsExact'
      BY <2>4, <3>1, <3>2, <2>a, <2>b, <1>0 DEF CountsExact, CountInR
    <3> QED
      BY <3>1, <3>3, <3>4, <2>d, <2>g, <2>b
  <2>5. CASE TestW(t)
    <3>1. PICK q \in {"reading", "r_back"} : Goto(t, q) /\ (q = "reading" => w = 0)
      BY <2>5 DEF TestW
    <3>2. q \in Pc /\ pc[t] = "r_test"
      BY <2>5 DEF Pc, ReaderPc, TestW, At
    <3>3. TypeOK'
      BY <2>5, <3>1, <3>2, <2>a, <2>c, <2>f DEF TypeOK, TestW
    <3>4. CountsExact'
      BY <2>5, <3>1, <3>2, <2>e, <1>0 DEF TestW
    <3>5. CASE q = "reading"
      <4>1. \A u \in Thread : pc[u] # "writing"
        BY <3>1, <3>5, <2>a DEF CountedW
      <4> QED
        BY <4>1, <3>1, <3>2, <3>3, <3>4, <3>5, <2>g, <1>0, Moving DEF NoOverlap, At
    <3> QED
      BY <3>1, <3>2, <3>3, <3>4, <3>5, <2>d, <2>g, <2>b
  <2>6. CASE CountOutR(t)
    <3>1. "r_wait" \in Pc /\ Goto(t, "r_wait") /\ pc[t] = "r_back"
      BY <2>6 DEF Pc, ReaderPc, CountOutR, At
    <3>2. CountedR' = CountedR \ {t} /\ CountedW' = CountedW
      BY <3>1, <2>b, <1>0, Moving
    <3>3. TypeOK'
      BY <2>6, <3>1, <2>a, <2>b, <2>c, <2>f DEF TypeOK, CountOutR
    <3>4. CountsExact'
      BY <2>6, <3>1, <3>2, <2>a, <2>b, <1>0 DEF CountsExact, CountOutR
    <3> QED
      BY <3>1, <3>3, <3>4, <2>d, <2>g, <2>b
  <2>7. CASE ReleaseR(t)
    <3>1. /\ "r_leave" \in Pc /\ Goto(t, "r_leave") /\ pc[t] = "reading"
          /\ r' = r - 1 /\ UNCHANGED <<w, signal, left, slice, sysError>>
      BY <2>7, <2>a, <2>b DEF Pc, ReleaseR, At
    <3>2. CountedR' = CountedR \ {t} /\ CountedW' = CountedW
      BY <3>1, <2>b, <1>0, Moving
    <3>3. TypeOK'
      BY <3>1, <2>a, <2>b, <2>c, <2>f DEF TypeOK
    <3>4. CountsExact'
      BY <3>1, <3>2, <2>a, <2>b, <1>0 DEF CountsExact
    <3> QED
      BY <3>1, <3>3, <3>4, <2>d, <2>g, <2>b
  <2>8. CASE LeaveR(t)
    <3>1. CASE w # 0 /\ SignalAll(t, "r_leave")
      BY <3>1, <2>3
    <3>2. CASE /\ w = 0 /\ At(t, "r_leave") /\ Goto(t, "idle")
               /\ UNCHANGED <<r, w, signal, left, slice, sysError>>
      <4>1. "idle" \in Pc /\ pc[t] = "r_leave"
        BY <3>2 DEF Pc, At
      <4>2. TypeOK'
        BY <3>2, <4>1, <2>a, <2>c, <2>f DEF TypeOK
      <4>3. CountsExact'
        BY <3>2, <4>1, <2>e, <1>0
      <4> QED
        BY <3>2, <4>1, <4>2, <4>3, <2>d, <2>g, <2>b
    <3> QED
      BY <2>8, <3>1, <3>2 DEF LeaveR
  <2>9. CASE SwapW(t)
    <3>1. CASE w = 0
      <4>1. /\ "w_test" \in Pc /\ Goto(t, "w_test") /\ pc[t] = "w_cas" /\ w' = 1
            /\ UNCHANGED <<r, signal, left, slice, sysError>>
        BY <2>9, <3>1 DEF Pc, WriterPc, SwapW, At
      <4>2. CountedR' = CountedR /\ CountedW' = CountedW \cup {t}
        BY <4>1, <2>b, <1>0, Moving
      <4>3. TypeOK'
        BY <4>1, <2>a, <2>c, <2>f DEF TypeOK
      <4>4. CountsExact'
        BY <4>1, <4>2, <3>1, <2>a, <2>b, <1>0 DEF CountsExact
      <4> QED
        BY <3>1, <4>1, <4>3, <4>4, <2>d, <2>g, <2>b
    <3>2. CASE w # 0
      <4>1. PICK q \in {"w_inc", "w_wait"} : Goto(t, q) /\ (q = "w_inc" => shardWrite)
        BY <2>9, <3>2 DEF SwapW
      <4>2. /\ q \in Pc /\ pc[t] = "w_cas"
            /\ UNCHANGED <<r, w, signal, left, slice, sysError>>
        BY <2>9, <3>2 DEF Pc, WriterPc, SwapW, At
      <4>3. TypeOK'
        BY <4>1, <4>2, <2>a, <2>c, <2>f DEF TypeOK
      <4>4. CountsExact'
        BY <4>1, <4>2, <2>e, <1>0
      <4> QED
        BY <4>1, <4>2, <4>3, <4>4, <2>d, <2>g, <2>b
    <3> QED
      BY <3>1, <3>2
  <2>10. CASE ShareW(t)
    <3>1. "w_test" \in Pc /\ Goto(t, "w_test") /\ pc[t] = "w_inc"
      BY <2>10 DEF Pc, WriterPc, ShareW, At
    <3>2. CountedR' = CountedR /\ CountedW' = CountedW \cup {t}
      BY <3>1, <2>b, <1>0, Moving
    <3>3. TypeOK'
      BY <2>10, <3>1, <2>a, <2>c, <2>f DEF TypeOK, ShareW
    <3>4. CountsExact'
      BY <2>10, <3>1, <3>2, <2>a, <2>b, <1>0 DEF CountsExact, ShareW
    <3>5. shardWrite
      BY <3>1 DEF SoleWriter, At
    <3> QED
      BY <3>1, <3>3, <3>4, <3>5, <2>d, <2>g
  <2>11. CASE TestR(t)
    <3>1. PICK q \in {"writing", "w_drain"} : Goto(t, q) /\ (q = "writing" => r = 0)
      BY <2>11 DEF TestR
    <3>2. /\ q \in Pc /\ pc[t] = "w_test"
          /\ UNCHANGED <<r, w, signal, left, slice, sysError>>
      BY <2>11 DEF Pc, WriterPc, TestR, At
    <3>3. TypeOK'
      BY <3>1, <3>2, <2>a, <2>c, <2>f DEF TypeOK
    <3>4. CountsExact'
      BY <3>1, <3>2, <2>e, <1>0
    <3>5. CASE q = "writing"
      <4>1. \A u \in Thread : pc[u] # "reading"
        BY <3>1, <3>5, <2>a DEF CountedR
      <4> QED
        BY <4>1, <3>1, <3>2, <3>3, <3>4, <3>5, <2>g, <2>b, <1>0, Moving DEF NoOverlap, At
    <3> QED
      BY <3>1, <3>2, <3>3, <3>4, <3>5, <2>d, <2>g, <2>b
  <2>12. CASE WaitDrain(t)
    <3>1. CASE Signalled(t, "w_drain", "w_test") \/ TimedOut(t, "w_drain", "w_test", "w_test")
      <4>1. /\ "w_test" \in Pc /\ Goto(t, "w_test") /\ pc[t] = "w_drain"
            /\ UNCHANGED <<r, w, slice, sysError>>
        BY <3>1 DEF Pc, WriterPc, Signalled, TimedOut, At
      <4>2. signal' \in BOOLEAN
        BY <3>1, <2>c DEF Signalled, TimedOut
      <4>3. left' \in [Thread -> Nat \cup {-1}]
        <5>1. CASE left' = left
          BY <5>1, <2>c
        <5>2. CASE /\ ~OutOfTime(t)
                   /\ left' = [left EXCEPT ![t] = IF @ = -1 THEN -1 ELSE @ - slice[t]]
          BY <5>2, <2>c DEF OutOfTime
        <5> QED
          BY <3>1, <5>1, <5>2 DEF Signalled, TimedOut
      <4>4. TypeOK'
        BY <4>1, <4>2, <4>3, <2>a, <2>c, <2>f DEF TypeOK
      <4>5. CountsExact'
        BY <4>1, <2>e, <1>0
      <4> QED
        BY <4>1, <4>4, <4>5, <2>b, <2>d, <2>g
    <3>2. CASE /\ At(t, "w_drain") /\ Goto(t, "w_undo") /\ w' = w - 1
               /\ UNCHANGED <<r, signal, left, slice, sysError>>
      <4>1. "w_undo" \in Pc /\ pc[t] = "w_drain"
        BY <3>2 DEF Pc, WriterPc, At
      <4>2. CountedR' = CountedR /\ CountedW' = CountedW \ {t}
        BY <3>2, <4>1, <2>b, <1>0, Moving
      <4>3. TypeOK'
        BY <3>2, <4>1, <2>a, <2>b, <2>c, <2>f DEF TypeOK
      <4>4. CountsExact'
        BY <3>2, <4>1, <4>2, <2>a, <2>b, <1>0 DEF CountsExact
      <4> QED
        BY <3>2, <4>1, <4>3, <4>4, <2>d, <2>g
    <3> QED
      BY <2>12, <3>1, <3>2 DEF WaitDrain
  <2>13. CASE ReleaseW(t)
    <3>1. /\ "w_leave" \in Pc /\ Goto(t, "w_leave") /\ pc[t] = "writing"
          /\ w' = w - 1 /\ UNCHANGED <<r, signal, left, slice, sysError>>
      BY <2>13, <2>a, <2>b DEF Pc, ReleaseW, At
    <3>2. CountedR' = CountedR /\ CountedW' = CountedW \ {t}
      BY <3>1, <2>b, <1>0, Moving
    <3>3. TypeOK'
      BY <3>1, <2>a, <2>b, <2>c, <2>f DEF TypeOK
    <3>4. CountsExact'
      BY <3>1, <3>2, <2>a, <2>b, <1>0 DEF CountsExact
    <3> QED
      BY <3>1, <3>3, <3>4, <2>d, <2>g
  <2>14. CASE LockR(t) \/ LockW(t)
    BY <2>14, <2>1 DEF LockR, LockW
  <2>15. CASE WaitR(t) \/ WaitW(t)
    BY <2>15, <2>2 DEF WaitR, WaitW
  <2>16. CASE UndoW(t) \/ LeaveW(t)
    BY <2>16, <2>3 DEF UndoW, LeaveW
  <2> QED
    BY <2>4, <2>5, <2>6, <2>7, <2>8, <2>9, <2>10, <2>11, <2>12, <2>13, <2>14,
       <2>15, <2>16 DEF Call, Step
<1> QED
  BY <1>1, <1>2 DEF Next

(* The counters, and with them the type of every variable, hold in every   *)
(* state the mutex reaches.                                                *)
THEOREM Invariance == Spec => []IInv
BY InitIInv, StepIInv, PTL DEF Spec

(* TypeOK: the counters never go below zero, whatever times out.           *)
THEOREM TypeCorrect == Spec => []TypeOK
<1>1. IInv => TypeOK
  BY DEF IInv
<1> QED
  BY <1>1, Invariance, PTL

(* CountsExact: _r and _w are the numbers of threads that announced        *)
(* themselves, so release_r and release_w never fail with SDB_SYS.         *)
THEOREM CountersAreExact == Spec => []CountsExact
<1>1. IInv => CountsExact
  BY DEF IInv
<1> QED
  BY <1>1, Invariance, PTL

(* Exclusion: lock_w excludes lock_r, and itself unless RW_SHARDWRITE.     *)
THEOREM MutualExclusion == Spec => []Exclusion
<1>1. IInv => Exclusion
  BY DEF IInv, Exclusion, NoOverlap, SoleWriter, CountedW, At
<1> QED
  BY <1>1, Invariance, PTL

(* LockExact: what the run checks of three threads holds of any number.    *)
THEOREM LockIsExact == Spec => []LockExact
BY TypeCorrect, CountersAreExact, MutualExclusion, PTL DEF LockExact

(* IsRWLock: every step of the algorithm is a step of the abstract lock or *)
(* leaves its holders alone.                                               *)
THEOREM Refinement == Spec => IsRWLock
<1> DEFINE R == {t \in Thread : At(t, "reading")}
           W == {t \in Thread : At(t, "writing")}
<1>1. Init => Lock!Init
  BY DEF Init, Lock!Init, At
<1>2. ASSUME IInv, [Next]_vars
      PROVE  [Lock!Next]_(Lock!lock)
  <2>0. pc \in [Thread -> Pc]
    BY <1>2 DEF IInv, TypeOK
  <2>1. CASE UNCHANGED vars
    BY <2>1 DEF vars, Lock!lock, At
  <2>3. (r = 0 => CountedR = {}) /\ (w = 0 => CountedW = {})
    <3>1. /\ CountedR \in SUBSET Thread /\ CountedW \in SUBSET Thread
          /\ r = Cardinality(CountedR) /\ w = Cardinality(CountedW)
      BY <1>2 DEF IInv, CountsExact, CountedR, CountedW
    <3> QED
      BY <3>1, FS_Subset, FS_EmptySet
  <2>2. ASSUME NEW t \in Thread, Call(t) \/ Step(t)
        PROVE  [Lock!Next]_(Lock!lock)
    <3>0. shardWrite' = shardWrite
      BY <2>2 DEF Call, Step
    (* A thread that neither enters nor leaves changes no holder. *)
    <3>1. ASSUME NEW q \in Pc \ {"reading", "writing"}, Goto(t, q),
                 pc[t] \notin {"reading", "writing"}
          PROVE  UNCHANGED Lock!lock
      BY <3>1, <3>0, <2>0 DEF Goto, Lock!lock, At
    <3>2. CASE TestW(t)
      <4>1. pc[t] = "r_test" /\ Goto(t, IF w = 0 THEN "reading" ELSE "r_back")
        BY <3>2 DEF TestW, At
      <4>2. CASE w = 0
        <5>1. \A u \in Thread : pc[u] # "writing"
          BY <4>2, <2>3 DEF CountedW
        <5>2. R' = R \cup {t} /\ W' = W /\ t \notin R \cup W /\ W = {}
          BY <4>1, <4>2, <5>1, <2>0 DEF Goto, At
        <5> QED
          BY <5>2, <3>0 DEF Lock!Next, Lock!GrantRead
      <4>3. CASE w # 0
        BY <4>1, <4>3, <3>1 DEF Pc, ReaderPc
      <4> QED
        BY <4>2, <4>3
    <3>3. CASE TestR(t)
      <4>1. pc[t] = "w_test" /\ Goto(t, IF r = 0 THEN "writing" ELSE "w_drain")
        BY <3>3 DEF TestR, At
      <4>2. CASE r = 0
        <5>1. \A u \in Thread : pc[u] # "reading"
          BY <4>2, <2>3 DEF CountedR
        <5>2. ~shardWrite => \A u \in Thread : pc[u] # "writing"
          BY <4>1, <1>2 DEF IInv, SoleWriter, CountedW
        <5>3. W' = W \cup {t} /\ R' = R /\ t \notin R \cup W /\ R = {}
              /\ (shardWrite \/ W = {})
          BY <4>1, <4>2, <5>1, <5>2, <2>0 DEF Goto, At
        <5> QED
          BY <5>3, <3>0 DEF Lock!Next, Lock!GrantWrite
      <4>3. CASE r # 0
        BY <4>1, <4>3, <3>1 DEF Pc, WriterPc
      <4> QED
        BY <4>2, <4>3
    <3>4. CASE ReleaseR(t)
      <4>1. PICK q \in {"idle", "r_leave"} : Goto(t, q) /\ pc[t] = "reading"
        BY <3>4 DEF ReleaseR, At
      <4>2. R' = R \ {t} /\ W' = W /\ t \in R
        BY <4>1, <2>0 DEF Goto, At
      <4> QED
        BY <4>2, <3>0 DEF Lock!Next, Lock!ReturnRead
    <3>5. CASE ReleaseW(t)
      <4>1. PICK q \in {"idle", "w_leave"} : Goto(t, q) /\ pc[t] = "writing"
        BY <3>5 DEF ReleaseW, At
      <4>2. W' = W \ {t} /\ R' = R /\ t \in W
        BY <4>1, <2>0 DEF Goto, At
      <4> QED
        BY <4>2, <3>0 DEF Lock!Next, Lock!ReturnWrite
    <3>6. CASE \/ LockR(t) \/ CountInR(t) \/ CountOutR(t) \/ WaitR(t) \/ LeaveR(t)
               \/ LockW(t) \/ SwapW(t) \/ ShareW(t) \/ WaitW(t) \/ WaitDrain(t)
               \/ UndoW(t) \/ LeaveW(t)
      <4>1. PICK q \in {"idle", "r_enter", "r_test", "r_wait", "w_cas", "w_inc", "w_wait",
                        "w_test", "w_undo"} : Goto(t, q)
        BY <3>6 DEF LockR, CountInR, CountOutR, WaitR, LeaveR, LockW, SwapW, ShareW, WaitW,
                    WaitDrain, UndoW, LeaveW, Enter, Signalled, TimedOut, SignalAll
      <4>2. pc[t] \notin {"reading", "writing"}
        BY <3>6 DEF LockR, CountInR, CountOutR, WaitR, LeaveR, LockW, SwapW, ShareW, WaitW,
                    WaitDrain, UndoW, LeaveW, Enter, Signalled, TimedOut, SignalAll, At
      <4>3. q \in Pc \ {"reading", "writing"}
        BY DEF Pc, ReaderPc, WriterPc
      <4> QED
        BY <4>1, <4>2, <4>3, <3>1
    <3> QED
      BY <2>2, <3>2, <3>3, <3>4, <3>5, <3>6 DEF Call, Step
  <2> QED
    BY <1>2, <2>1, <2>2 DEF Next
<1> QED
  BY <1>1, <1>2, Invariance, PTL DEF Spec, IsRWLock, Lock!Spec

-----------------------------------------------------------------------------
(***************************************************************************)
(* The trace buffer.  Who stops it waits for the writers, whatever they    *)
(* do (UsersInv); and while no thread sleeps in reserveMemory for as long  *)
(* as it takes to fill a chunk, the records are whole, apart and without a *)
(* gap (BufferInv): the pair that is not the current one is full, so that  *)
(* a late thread finds no room in it, and nobody uses it while it is made  *)
(* ready for the next chunk.                                               *)
(***************************************************************************)

(* The points of a thread: where it uses a pair, holds _alloc, reserves,   *)
(* writes and is counted by _currentWriter.                                *)
InPair == {"end", "add", "mark", "cas", "compare"}
AllocPts == {"compare", "setBegin", "setEnd", "swap", "release"}
ReservePts == {"fetch", "wait"} \cup InPair \cup AllocPts
WritePts == ReservePts \cup {"fill"}
CountPts == WritePts \cup {"check", "finish"}
Points == CountPts \cup {"idle", "start"}
Tracing == [at : Points, buf : Nat, size : Nat, p : 1 .. 2, end : Nat, begin : Nat]
Counted == {t \in Tracer : th[t].at \in {"check", "finish"}} \cup Writing

TraceTypes ==
  /\ started \in BOOLEAN /\ buffer \in 0 .. MaxStart /\ starts \in 0 .. MaxStart
  /\ b \in [1 .. 2 -> Nat] /\ e \in [1 .. 2 -> Nat]
  /\ ptr \in 1 .. 2 /\ ptr2 = 3 - ptr
  /\ alloc \in {0, 1} /\ marks \subseteq Nat
  /\ op \in [Oper -> {"idle", "stop", "destroy"}]
  /\ th \in [Tracer -> Tracing]

(* start, stop and destroy are one at a time, and while somebody writes    *)
(* the trace is started or one of them waits.                              *)
OperInv ==
  /\ \A o, q \in Oper : op[o] # "idle" /\ op[q] # "idle" => o = q
  /\ metaOpr => ~started
  /\ Writing # {} => started \/ metaOpr
  /\ started => buffer # 0
  /\ BufferLive

(* _alloc is held by one thread. *)
AllocInv ==
  /\ \A t, u \in Tracer : th[t].at \in AllocPts /\ th[u].at \in AllocPts => t = u
  /\ alloc = 0 <=> \A t \in Tracer : th[t].at \notin AllocPts

WriterInv == writer = Cardinality(Counted)

UsersInv == TraceTypes /\ OperInv /\ AllocInv /\ WriterInv

-----------------------------------------------------------------------------
(* The step of a thread: it is at l, and the others are where they were. *)
Moves(t, l) ==
  /\ th' \in [Tracer -> Tracing] /\ th'[t].at = l
  /\ \A u \in Tracer \ {t} : th'[u] = th[u]

(* What only the point of the thread changes. *)
SameFields(t) ==
  /\ th'[t].buf = th[t].buf /\ th'[t].size = th[t].size /\ th'[t].p = th[t].p
  /\ th'[t].end = th[t].end /\ th'[t].begin = th[t].begin

(* A step that only moves the thread. *)
LEMMA GoMoves ==
  ASSUME th \in [Tracer -> Tracing], NEW t \in Tracer, NEW l \in Points, Go(t, l)
  PROVE  Moves(t, l) /\ SameFields(t)
BY DEF Go, Moves, SameFields, Tracing

(* The sets of threads, by points. *)
LEMMA PointSets ==
  /\ Reserving = {t \in Tracer : th[t].at \in ReservePts}
  /\ Writing = {t \in Tracer : th[t].at \in WritePts}
  /\ Counted = {t \in Tracer : th[t].at \in CountPts}
<1>1. Reserving = {t \in Tracer : th[t].at \in ReservePts}
  BY DEF Reserving, ReservePts, InPair, AllocPts
<1>2. Writing = {t \in Tracer : th[t].at \in WritePts}
  BY <1>1 DEF Writing, WritePts, Is
<1>3. Counted = {t \in Tracer : th[t].at \in CountPts}
  BY <1>2 DEF Counted, CountPts
<1> QED
  BY <1>1, <1>2, <1>3

(* The same after a step. *)
LEMMA PointSetsNext ==
  /\ Reserving' = {t \in Tracer : th'[t].at \in ReservePts}
  /\ Writing' = {t \in Tracer : th'[t].at \in WritePts}
  /\ Counted' = {t \in Tracer : th'[t].at \in CountPts}
<1>1. Reserving' = {t \in Tracer : th'[t].at \in ReservePts}
  BY DEF Reserving, ReservePts, InPair, AllocPts
<1>2. Writing' = {t \in Tracer : th'[t].at \in WritePts}
  BY <1>1 DEF Writing, WritePts, Is
<1>3. Counted' = {t \in Tracer : th'[t].at \in CountPts}
  BY <1>2 DEF Counted, CountPts
<1> QED
  BY <1>1, <1>2, <1>3

(* What counting a thread in or out does to the number of writers. *)
LEMMA CountingTracers ==
  ASSUME NEW S \in SUBSET Tracer, NEW t \in Tracer
  PROVE  /\ Cardinality(S) \in Nat
         /\ t \notin S => Cardinality(S \cup {t}) = Cardinality(S) + 1
         /\ t \in S => Cardinality(S \ {t}) = Cardinality(S) - 1
         /\ Cardinality(S) = 0 => S = {}
<1>1. IsFiniteSet(S)
  BY TraceAssumption, FS_Subset
<1>2. Cardinality(S) \in Nat
  BY <1>1, FS_CardinalityType
<1>3. t \notin S => Cardinality(S \cup {t}) = Cardinality(S) + 1
  BY <1>1, FS_AddElement
<1>4. t \in S => Cardinality(S \ {t}) = Cardinality(S) - 1
  BY <1>1, FS_RemoveElement
<1>5. Cardinality(S) = 0 => S = {}
  BY <1>1, FS_EmptySet
<1> QED
  BY <1>2, <1>3, <1>4, <1>5

(* A step inside the write, or outside of it, leaves the operators alone. *)
LEMMA OperKeeps ==
  ASSUME OperInv, NEW t \in Tracer, NEW l \in Points, Moves(t, l), UNCHANGED trace,
         th'[t].buf = th[t].buf, l \in WritePts => th[t].at \in WritePts
  PROVE  OperInv'
<1>1. Writing' \subseteq Writing
  BY PointSets, PointSetsNext DEF Moves
<1>2. metaOpr' = metaOpr
  BY DEF metaOpr, trace
<1>3. BufferLive'
  <2> SUFFICES ASSUME NEW u \in Writing' PROVE buffer' # 0 /\ buffer' = th'[u].buf
    BY DEF BufferLive
  <2>1. u \in Writing /\ th'[u].buf = th[u].buf
    BY <1>1, PointSets DEF Moves
  <2> QED
    BY <2>1 DEF OperInv, BufferLive, trace
<1> QED
  BY <1>1, <1>2, <1>3 DEF OperInv, trace

(* A step with _alloc, or without, leaves its holder alone. *)
LEMMA AllocKeeps ==
  ASSUME AllocInv, NEW t \in Tracer, NEW l \in Points, Moves(t, l), alloc' = alloc,
         l \in AllocPts <=> th[t].at \in AllocPts
  PROVE  AllocInv'
<1>1. \A u \in Tracer : th'[u].at \in AllocPts <=> th[u].at \in AllocPts
  BY DEF Moves
<1> QED
  BY <1>1 DEF AllocInv

(* A step of a counted thread, or of one that is not, leaves the count. *)
LEMMA WriterKeeps ==
  ASSUME WriterInv, NEW t \in Tracer, NEW l \in Points, Moves(t, l), writer' = writer,
         l \in CountPts <=> th[t].at \in CountPts
  PROVE  WriterInv'
<1>1. Counted' = Counted
  BY PointSets, PointSetsNext DEF Moves
<1> QED
  BY <1>1 DEF WriterInv

(* Which point is of which kind. *)
LEMMA PointFacts ==
  /\ AllocPts \subseteq WritePts /\ InPair \subseteq WritePts
  /\ WritePts \subseteq CountPts /\ CountPts \subseteq Points
  /\ {"idle", "start", "check", "finish"} \cap WritePts = {}
  /\ {"idle", "start"} \cap CountPts = {}
  /\ {"idle", "start", "check", "finish", "fill", "fetch", "end", "add", "mark", "cas", "wait"} \cap AllocPts = {}
  /\ {"idle", "start"} \subseteq Points /\ {"check", "finish"} \subseteq CountPts
  /\ {"fill", "fetch", "end", "add", "mark", "cas", "wait", "compare", "setBegin", "setEnd", "swap",
      "release"} \subseteq WritePts
  /\ {"compare", "setBegin", "setEnd", "swap", "release"} \subseteq AllocPts
BY DEF AllocPts, InPair, WritePts, ReservePts, CountPts, Points

(* Before the first start nobody writes. *)
LEMMA InitUsers == TraceInit => UsersInv
<1> SUFFICES ASSUME TraceInit PROVE UsersInv
  OBVIOUS
<1> USE DEF TraceInit
<1>1. TraceTypes
  <2>1. idle \in Tracing
    BY PointFacts DEF idle, Tracing
  <2>2. /\ b \in [1 .. 2 -> Nat] /\ e \in [1 .. 2 -> Nat]
        /\ buffer \in 0 .. MaxStart /\ starts \in 0 .. MaxStart
        /\ ptr \in 1 .. 2 /\ ptr2 = 3 - ptr
    BY TraceAssumption
  <2>3. th \in [Tracer -> Tracing] /\ op \in [Oper -> {"idle", "stop", "destroy"}]
    BY <2>1
  <2> QED
    BY <2>2, <2>3 DEF TraceTypes
<1>2. \A t \in Tracer : th[t].at = "idle"
  BY DEF idle
<1>3. Writing = {} /\ Counted = {}
  BY <1>2, PointSets, PointFacts
<1>4. OperInv
  BY <1>3 DEF OperInv, BufferLive, metaOpr
<1>5. AllocInv
  BY <1>2, PointFacts DEF AllocInv
<1>6. WriterInv
  BY <1>3, FS_EmptySet DEF WriterInv
<1> QED
  BY <1>1, <1>4, <1>5, <1>6 DEF UsersInv

(* The steps of the threads. *)
LEMMA ThreadUsers ==
  ASSUME UsersInv, NEW t \in Tracer, EnterTrace(t) \/ TraceStep(t)
  PROVE  UsersInv'
<1> USE DEF UsersInv
<1>1. th \in [Tracer -> Tracing] /\ th[t] \in Tracing
  BY DEF TraceTypes
<1>2. /\ th[t].at \in Points /\ th[t].buf \in Nat /\ th[t].size \in Nat /\ th[t].p \in 1 .. 2
      /\ th[t].end \in Nat /\ th[t].begin \in Nat /\ ptr \in 1 .. 2 /\ ptr2 \in 1 .. 2
      /\ b \in [1 .. 2 -> Nat] /\ e \in [1 .. 2 -> Nat] /\ ptr2 = 3 - ptr
      /\ C \in Nat \ {0} /\ buffer \in Nat
  BY <1>1, TraceAssumption DEF TraceTypes, Tracing
(* Steps to another point of the same kind. *)
<1>a. ASSUME NEW l \in Points, Moves(t, l), UNCHANGED trace, th'[t].buf = th[t].buf,
             l \in WritePts => th[t].at \in WritePts,
             l \in AllocPts <=> th[t].at \in AllocPts, alloc' = alloc,
             l \in CountPts <=> th[t].at \in CountPts, writer' = writer
      PROVE  OperInv' /\ AllocInv' /\ WriterInv'
  BY <1>a, OperKeeps, AllocKeeps, WriterKeeps
<1>b. ASSUME NEW l \in Points, Moves(t, l), UNCHANGED trace, UNCHANGED pairs,
             alloc' \in {0, 1}, marks' \subseteq Nat
      PROVE  TraceTypes'
  BY <1>b DEF TraceTypes, Moves, trace, pairs
<1>3. CASE EnterTrace(t)
  <2>1. Moves(t, "start") /\ SameFields(t)
    BY <1>1, <1>3, GoMoves, PointFacts DEF EnterTrace
  <2>2. TraceTypes'
    BY <1>3, <1>b, <2>1, PointFacts DEF EnterTrace, TraceTypes
  <2> QED
    BY <1>3, <1>a, <2>1, <2>2, PointFacts DEF EnterTrace, SameFields, Is
<1>4. CASE startWrite(t)
  <2>1. Moves(t, "check") /\ SameFields(t)
    BY <1>1, <1>4, GoMoves, PointFacts DEF startWrite
  <2>2. TraceTypes'
    BY <1>4, <1>b, <2>1, PointFacts DEF startWrite, TraceTypes
  <2>3. OperInv' /\ AllocInv'
    BY <1>4, <2>1, OperKeeps, AllocKeeps, PointFacts DEF startWrite, SameFields, Is
  <2>4. t \notin Counted /\ Counted' = Counted \cup {t} /\ Counted \in SUBSET Tracer
    BY <1>4, <2>1, PointFacts, PointSets, PointSetsNext DEF startWrite, Moves, Is
  <2>5. WriterInv'
    BY <1>4, <2>4, CountingTracers DEF startWrite, WriterInv
  <2> QED
    BY <2>2, <2>3, <2>5
<1>5. CASE DoubleCheck(t)
  <2>1. CASE Go(t, "finish")
    <3>1. Moves(t, "finish") /\ SameFields(t)
      BY <1>1, <2>1, GoMoves, PointFacts
    <3>2. TraceTypes'
      BY <1>5, <1>b, <3>1, PointFacts DEF DoubleCheck, TraceTypes
    <3> QED
      BY <1>5, <1>a, <3>1, <3>2, PointFacts DEF DoubleCheck, SameFields, Is
  <2>2. ASSUME started, NEW s \in Sizes,
               th' = [th EXCEPT ![t].at = "fetch", ![t].size = s, ![t].buf = buffer]
        PROVE  UsersInv'
    <3>0. s \in Nat
      BY TraceAssumption
    <3>1. Moves(t, "fetch") /\ th'[t].buf = buffer
      BY <1>1, <1>2, <2>2, <3>0, PointFacts DEF Moves, Tracing
    <3>2. TraceTypes'
      BY <1>5, <1>b, <3>1, PointFacts DEF DoubleCheck, TraceTypes
    <3>3. AllocInv' /\ WriterInv'
      BY <1>5, <3>1, AllocKeeps, WriterKeeps, PointFacts DEF DoubleCheck, Is
    <3>4. /\ started' = started /\ buffer' = buffer /\ op' = op
          /\ \A u \in Writing' : (u \in Writing /\ th'[u].buf = th[u].buf) \/ u = t
      BY <1>5, <3>1, PointSets, PointSetsNext DEF DoubleCheck, Moves, trace
    <3>5. metaOpr' = metaOpr
      BY <3>4 DEF metaOpr
    <3>6. BufferLive'
      BY <2>2, <3>1, <3>4 DEF BufferLive, OperInv
    <3>7. OperInv'
      BY <2>2, <3>4, <3>5, <3>6 DEF OperInv
    <3> QED
      BY <3>2, <3>3, <3>7
  <2> QED
    BY <1>5, <2>1, <2>2 DEF DoubleCheck
<1>6. CASE Fetch(t)
  <2>1. Moves(t, "end") /\ th'[t].buf = th[t].buf
    BY <1>1, <1>2, <1>6, PointFacts DEF Fetch, Moves, Tracing
  <2>2. TraceTypes'
    BY <1>6, <1>b, <2>1, PointFacts DEF Fetch, TraceTypes
  <2> QED
    BY <1>6, <1>a, <2>1, <2>2, PointFacts DEF Fetch, Is
<1>7. CASE ReadEnd(t)
  <2>1. Moves(t, "add") /\ th'[t].buf = th[t].buf
    BY <1>1, <1>2, <1>7, PointFacts DEF ReadEnd, Moves, Tracing
  <2>2. TraceTypes'
    BY <1>7, <1>b, <2>1, PointFacts DEF ReadEnd, TraceTypes
  <2> QED
    BY <1>7, <1>a, <2>1, <2>2, PointFacts DEF ReadEnd, Is
<1>8. CASE Add(t)
  <2>1. \E l \in {"fill", "mark", "cas"} : Moves(t, l) /\ th'[t].buf = th[t].buf
    <3>1. CASE Go(t, "fill")
      BY <1>1, <3>1, GoMoves, PointFacts DEF SameFields
    <3>2. CASE th' = [th EXCEPT ![t].at = IF b[th[t].p] < th[t].end THEN "mark" ELSE "cas", ![t].begin = b[th[t].p]]
      BY <1>1, <1>2, <3>2, PointFacts DEF Moves, Tracing
    <3> QED
      BY <1>8, <3>1, <3>2 DEF Add
  <2>2. b' \in [1 .. 2 -> Nat]
    BY <1>2, <1>8 DEF Add
  <2>3. TraceTypes'
    BY <1>8, <2>1, <2>2 DEF Add, TraceTypes, Moves, trace
  <2>4. OperInv' /\ AllocInv' /\ WriterInv'
    BY <1>8, <1>a, <2>1, PointFacts DEF Add, Is
  <2> QED
    BY <2>3, <2>4
<1>9. CASE Mark(t)
  <2>1. Moves(t, "cas") /\ SameFields(t)
    BY <1>1, <1>9, GoMoves, PointFacts DEF Mark
  <2>2. TraceTypes'
    BY <1>2, <1>9, <1>b, <2>1, PointFacts DEF Mark, TraceTypes
  <2> QED
    BY <1>9, <1>a, <2>1, <2>2, PointFacts DEF Mark, SameFields, Is
<1>10. CASE Cas(t)
  <2>1. CASE alloc = 0 /\ alloc' = 1 /\ Go(t, "compare")
    <3>1. Moves(t, "compare") /\ SameFields(t)
      BY <1>1, <2>1, GoMoves, PointFacts
    <3>2. TraceTypes'
      BY <1>10, <1>b, <2>1, <3>1, PointFacts DEF Cas, TraceTypes
    <3>3. OperInv' /\ WriterInv'
      BY <1>10, <3>1, OperKeeps, WriterKeeps, PointFacts DEF Cas, SameFields, Is
    <3>4. AllocInv'
      BY <2>1, <3>1, PointFacts DEF AllocInv, Moves
    <3> QED
      BY <3>2, <3>3, <3>4
  <2>2. CASE alloc = 1 /\ alloc' = alloc /\ Go(t, "wait")
    <3>1. Moves(t, "wait") /\ SameFields(t)
      BY <1>1, <2>2, GoMoves, PointFacts
    <3>2. TraceTypes'
      BY <1>10, <1>b, <2>2, <3>1, PointFacts DEF Cas, TraceTypes
    <3> QED
      BY <1>10, <1>a, <2>2, <3>1, <3>2, PointFacts DEF Cas, SameFields, Is
  <2> QED
    BY <1>10, <2>1, <2>2 DEF Cas
<1>11. CASE Wait(t)
  <2>1. Moves(t, "fetch") /\ SameFields(t)
    BY <1>1, <1>11, GoMoves, PointFacts DEF Wait
  <2>2. TraceTypes'
    BY <1>11, <1>b, <2>1, PointFacts DEF Wait, TraceTypes
  <2> QED
    BY <1>11, <1>a, <2>1, <2>2, PointFacts DEF Wait, SameFields, Is
<1>12. CASE Compare(t)
  <2>1. PICK l \in {"setBegin", "release"} : Moves(t, l) /\ SameFields(t)
    BY <1>1, <1>12, GoMoves, PointFacts DEF Compare
  <2>2. TraceTypes'
    BY <1>12, <1>b, <2>1, PointFacts DEF Compare, TraceTypes
  <2> QED
    BY <1>12, <1>a, <2>1, <2>2, PointFacts DEF Compare, SameFields, Is
<1>13. CASE SetBegin(t)
  <2>1. Moves(t, "setEnd") /\ SameFields(t)
    BY <1>1, <1>13, GoMoves, PointFacts DEF SetBegin
  <2>2. b' \in [1 .. 2 -> Nat]
    BY <1>2, <1>13 DEF SetBegin
  <2>3. TraceTypes'
    BY <1>13, <2>1, <2>2 DEF SetBegin, TraceTypes, Moves, trace
  <2> QED
    BY <1>13, <1>a, <2>1, <2>3, PointFacts DEF SetBegin, SameFields, Is
<1>14. CASE SetEnd(t)
  <2>1. Moves(t, "swap") /\ SameFields(t)
    BY <1>1, <1>14, GoMoves, PointFacts DEF SetEnd
  <2>2. e' \in [1 .. 2 -> Nat]
    BY <1>2, <1>14 DEF SetEnd
  <2>3. TraceTypes'
    BY <1>14, <2>1, <2>2 DEF SetEnd, TraceTypes, Moves, trace
  <2> QED
    BY <1>14, <1>a, <2>1, <2>3, PointFacts DEF SetEnd, SameFields, Is
<1>15. CASE Swap(t)
  <2>1. Moves(t, "release") /\ SameFields(t)
    BY <1>1, <1>15, GoMoves, PointFacts DEF Swap
  <2>2. ptr' \in 1 .. 2 /\ ptr2' = 3 - ptr'
    BY <1>2, <1>15 DEF Swap
  <2>3. TraceTypes'
    BY <1>15, <2>1, <2>2 DEF Swap, TraceTypes, Moves, trace
  <2> QED
    BY <1>15, <1>a, <2>1, <2>3, PointFacts DEF Swap, SameFields, Is
<1>16. CASE Release(t)
  <2>1. Moves(t, "fetch") /\ SameFields(t)
    BY <1>1, <1>16, GoMoves, PointFacts DEF Release
  <2>2. TraceTypes'
    BY <1>16, <1>b, <2>1, PointFacts DEF Release, TraceTypes
  <2>3. OperInv' /\ WriterInv'
    BY <1>16, <2>1, OperKeeps, WriterKeeps, PointFacts DEF Release, SameFields, Is
  <2>4. AllocInv'
    BY <1>16, <2>1, PointFacts DEF Release, AllocInv, Moves, Is
  <2> QED
    BY <2>2, <2>3, <2>4
<1>17. CASE Fill(t)
  <2>1. Moves(t, "finish") /\ SameFields(t)
    BY <1>1, <1>17, GoMoves, PointFacts DEF Fill
  <2>2. TraceTypes'
    BY <1>17, <1>b, <2>1, PointFacts DEF Fill, TraceTypes
  <2> QED
    BY <1>17, <1>a, <2>1, <2>2, PointFacts DEF Fill, SameFields, Is
<1>18. CASE finishWrite(t)
  <2>1. Moves(t, "idle")
    BY <1>1, <1>18, PointFacts DEF finishWrite, Moves, idle, Tracing
  <2>2. TraceTypes'
    BY <1>18, <1>b, <2>1, PointFacts DEF finishWrite, TraceTypes
  <2>3. Writing' = Writing /\ t \notin Writing
    BY <1>18, <2>1, PointFacts, PointSets, PointSetsNext DEF finishWrite, Moves, Is
  <2>4. OperInv'
    <3>1. metaOpr' = metaOpr /\ started' = started /\ buffer' = buffer /\ op' = op
      BY <1>18 DEF finishWrite, metaOpr, trace
    <3>2. \A u \in Writing : th'[u] = th[u]
      BY <2>1, <2>3, PointSets DEF Moves
    <3>3. BufferLive'
      BY <2>3, <3>1, <3>2 DEF BufferLive, OperInv
    <3> QED
      BY <2>3, <3>1, <3>3 DEF OperInv
  <2>5. AllocInv'
    BY <1>18, <2>1, AllocKeeps, PointFacts DEF finishWrite, Is
  <2>6. t \in Counted /\ Counted' = Counted \ {t} /\ Counted \in SUBSET Tracer
    BY <1>18, <2>1, PointFacts, PointSets, PointSetsNext DEF finishWrite, Moves, Is
  <2>7. WriterInv'
    BY <1>18, <2>6, CountingTracers DEF finishWrite, WriterInv
  <2> QED
    BY <2>2, <2>4, <2>5, <2>7
<1> QED
  BY <1>3, <1>4, <1>5, <1>6, <1>7, <1>8, <1>9, <1>10, <1>11, <1>12, <1>13, <1>14, <1>15, <1>16,
     <1>17, <1>18 DEF TraceStep

(* No thread moves: _alloc and _currentWriter count what they counted. *)
LEMMA ThreadsKeep ==
  ASSUME AllocInv, WriterInv, UNCHANGED <<th, alloc, writer>>
  PROVE  AllocInv' /\ WriterInv' /\ Writing' = Writing /\ Counted' = Counted /\ Reserving' = Reserving
<1>1. Writing' = Writing /\ Counted' = Counted /\ Reserving' = Reserving
  BY PointSets, PointSetsNext
<1> QED
  BY <1>1 DEF AllocInv, WriterInv

(* start, stop and destroy meet no writer when they reset the buffer. *)
LEMMA ResetAtRest ==
  ASSUME UsersInv, NEW o \in Oper, start(o) \/ Stopped(o) \/ destroy(o)
  PROVE  Writing = {}
<1>1. CASE Stopped(o)
  <2>1. Counted \in SUBSET Tracer /\ Cardinality(Counted) = 0
    BY <1>1, PointSets DEF Stopped, UsersInv, WriterInv
  <2>2. Counted = {}
    <3>1. ASSUME NEW t \in Tracer PROVE Counted = {}
      BY <2>1, CountingTracers
    <3> QED
      BY <2>1, <3>1
  <2> QED
    BY <2>2 DEF Counted
<1>2. CASE start(o) \/ destroy(o)
  BY <1>2 DEF start, destroy, UsersInv, OperInv
<1> QED
  BY <1>1, <1>2

(* _reset makes a buffer without records and the first pair current. *)
LEMMA ResetTypes ==
  ASSUME NEW k, Reset(k)
  PROVE  /\ buffer' = k /\ b' \in [1 .. 2 -> Nat] /\ e' \in [1 .. 2 -> Nat]
         /\ ptr' \in 1 .. 2 /\ ptr2' = 3 - ptr' /\ marks' \subseteq Nat
         /\ ptr' = 1 /\ ptr2' = 2 /\ b'[1] = 0 /\ e'[1] = C /\ recs' = {} /\ marks' = {}
BY TraceAssumption DEF Reset

(* The steps of start, stop and destroy. *)
LEMMA OperUsers ==
  ASSUME UsersInv, NEW o \in Oper,
         start(o) \/ stop(o, "stop") \/ stop(o, "destroy") \/ Stopped(o) \/ destroy(o)
  PROVE  UsersInv'
<1> USE DEF UsersInv
<1>1. AllocInv' /\ WriterInv' /\ Writing' = Writing /\ th' = th /\ alloc' = alloc
  BY ThreadsKeep DEF start, stop, Stopped, destroy
<1>2. starts \in 0 .. MaxStart /\ MaxStart \in Nat /\ op \in [Oper -> {"idle", "stop", "destroy"}]
  BY TraceAssumption DEF TraceTypes
<1>3. CASE start(o)
  <2>1. Writing = {} /\ ~metaOpr
    BY <1>3, ResetAtRest DEF start
  <2>2. starts' \in 0 .. MaxStart /\ starts + 1 \in 0 .. MaxStart /\ starts + 1 # 0 /\ 0 \in 0 .. MaxStart
    BY <1>2, <1>3 DEF start
  <2>3. /\ \/ Reset(starts + 1) /\ started' = TRUE
           \/ Reset(0) /\ started' = FALSE
        /\ op' = op
    BY <1>3 DEF start, TraceTypes
  <2>4. /\ buffer' \in 0 .. MaxStart /\ b' \in [1 .. 2 -> Nat] /\ e' \in [1 .. 2 -> Nat]
        /\ ptr' \in 1 .. 2 /\ ptr2' = 3 - ptr' /\ marks' \subseteq Nat
        /\ started' \in BOOLEAN /\ started' => buffer' # 0
    BY <2>2, <2>3, ResetTypes
  <2>5. TraceTypes'
    BY <1>1, <2>2, <2>3, <2>4 DEF TraceTypes
  <2>6. OperInv'
    BY <1>1, <2>1, <2>3, <2>4 DEF OperInv, BufferLive, metaOpr
  <2> QED
    BY <1>1, <2>5, <2>6
<1>4. ASSUME NEW kind \in {"stop", "destroy"}, stop(o, kind)
      PROVE  UsersInv'
  <2>1. /\ \A q \in Oper : op[q] = "idle"
        /\ op' = [op EXCEPT ![o] = kind] /\ started' = FALSE /\ buffer' = buffer /\ th' = th
    BY <1>4 DEF stop, metaOpr
  <2>2. TraceTypes'
    BY <1>2, <1>4, <2>1 DEF stop, TraceTypes, pairs
  <2>3. metaOpr' /\ \A q \in Oper : op'[q] # "idle" => q = o
    BY <1>2, <2>1 DEF metaOpr
  <2>4. BufferLive'
    BY <1>1, <2>1 DEF OperInv, BufferLive
  <2>5. OperInv'
    BY <2>1, <2>3, <2>4 DEF OperInv
  <2> QED
    BY <1>1, <2>2, <2>5
<1>5. CASE Stopped(o)
  <2>1. Writing = {} /\ ~started /\ \A q \in Oper : op[q] # "idle" => q = o
    BY <1>5, ResetAtRest DEF Stopped, OperInv, metaOpr
  <2>2. op' = [op EXCEPT ![o] = "idle"] /\ started' = started /\ starts' = starts
    BY <1>5 DEF Stopped
  <2>3. \/ UNCHANGED <<buffer, pairs, recs, marks>>
        \/ Reset(0)
    BY <1>5 DEF Stopped
  <2>4. /\ buffer' \in 0 .. MaxStart /\ b' \in [1 .. 2 -> Nat] /\ e' \in [1 .. 2 -> Nat]
        /\ ptr' \in 1 .. 2 /\ ptr2' = 3 - ptr' /\ marks' \subseteq Nat
    <3>1. CASE Reset(0)
      BY <1>2, <3>1, ResetTypes
    <3>2. CASE UNCHANGED <<buffer, pairs, recs, marks>>
      BY <3>2 DEF TraceTypes, pairs
    <3> QED
      BY <2>3, <3>1, <3>2
  <2>5. TraceTypes'
    BY <1>1, <1>2, <2>2, <2>4 DEF TraceTypes
  <2>6. \A q \in Oper : op'[q] = "idle"
    BY <1>2, <2>1, <2>2
  <2>7. OperInv'
    BY <1>1, <2>1, <2>2, <2>6 DEF OperInv, BufferLive, metaOpr
  <2> QED
    BY <1>1, <2>5, <2>7
<1>6. CASE destroy(o)
  <2>1. Writing = {} /\ ~metaOpr /\ ~started
    BY <1>6, ResetAtRest DEF destroy
  <2>2. Reset(0) /\ UNCHANGED <<op, started, starts>>
    BY <1>6 DEF destroy
  <2>3. TraceTypes'
    BY <1>1, <1>2, <2>2, ResetTypes DEF TraceTypes
  <2>4. OperInv'
    BY <1>1, <2>1, <2>2 DEF OperInv, BufferLive, metaOpr
  <2> QED
    BY <1>1, <2>3, <2>4
<1> QED
  BY <1>3, <1>4, <1>5, <1>6

(* Every step keeps the count of the writers and the buffer they use. *)
LEMMA StepUsers == UsersInv /\ [TraceNext]_traceVars => UsersInv'
<1> SUFFICES ASSUME UsersInv, [TraceNext]_traceVars PROVE UsersInv'
  OBVIOUS
<1>1. CASE UNCHANGED traceVars
  <2>1. UNCHANGED <<th, alloc, writer, buffer, started, op, starts, b, e, ptr, ptr2, marks>>
    BY <1>1 DEF traceVars, pairs
  <2>2. AllocInv' /\ WriterInv' /\ Writing' = Writing
    BY <2>1, ThreadsKeep DEF UsersInv
  <2>3. TraceTypes'
    BY <2>1 DEF UsersInv, TraceTypes
  <2>4. OperInv'
    BY <2>1, <2>2 DEF UsersInv, OperInv, BufferLive, metaOpr
  <2> QED
    BY <2>2, <2>3, <2>4 DEF UsersInv
<1> QED
  BY <1>1, ThreadUsers, OperUsers DEF TraceNext

(* Variables keep their types: no writer is left out of the count. *)
LEMMA UsersTypeOK == UsersInv => TraceTypeOK
<1> SUFFICES ASSUME UsersInv PROVE TraceTypeOK
  OBVIOUS
<1> USE DEF UsersInv
<1>1. {ptr, ptr2} = 1 .. 2
  BY DEF TraceTypes
<1>2. \A t \in Tracer : th[t].p \in 1 .. 2
  BY DEF TraceTypes, Tracing
<1>3. writer = Cardinality({t \in Tracer : th[t].at \in {"check", "finish"}} \cup Writing)
  BY DEF WriterInv, Counted
<1> QED
  BY <1>1, <1>2, <1>3 DEF TraceTypes, TraceTypeOK

(* A writer keeps start and destroy away from the buffer. *)
LEMMA UsersRest == UsersInv => BufferLive /\ RestAfterStop
<1> SUFFICES ASSUME UsersInv PROVE BufferLive /\ RestAfterStop
  OBVIOUS
<1>1. ~started /\ ~metaOpr => Writing = {} /\ alloc = 0
  BY PointSets, PointFacts DEF UsersInv, OperInv, AllocInv
<1> QED
  BY <1>1 DEF UsersInv, OperInv, RestAfterStop

(* start, stop and destroy: the buffer is not freed, replaced or dumped    *)
(* while a thread that saw it started still writes, even with threads that *)
(* sleep anywhere.                                                         *)
THEOREM WritersAreWaitedFor == TraceSpec => [](TraceTypeOK /\ BufferLive /\ RestAfterStop)
<1>1. TraceSpec => []UsersInv
  BY InitUsers, StepUsers, PTL DEF TraceSpec
<1>2. UsersInv => TraceTypeOK /\ BufferLive /\ RestAfterStop
  BY UsersTypeOK, UsersRest
<1> QED
  BY <1>1, <1>2, PTL

-----------------------------------------------------------------------------
(* Whole records side by side, when no thread sleeps in reserveMemory      *)
(* while a chunk is filled.                                                *)

(* The current pair is in its chunk or behind it. *)
ChunkInv == /\ \E k \in Nat : e[ptr] = k * C + C
            /\ b[ptr] >= e[ptr] - C

(* What a thread in reserveMemory knows of its pair: the end it has read   *)
(* is still the end, a pair that is not the current one is full, and so is *)
(* one that the thread has run behind the end of.                          *)
PairOf(t) ==
  /\ th[t].at \in ReservePts => th[t].size \in Sizes
  /\ th[t].at \in {"end", "add"} /\ th[t].p = ptr2 => b[ptr2] >= e[ptr2]
  /\ th[t].at \in {"add", "mark", "cas", "compare", "setBegin", "setEnd"} => th[t].end = e[th[t].p]
  /\ th[t].at \in {"mark", "cas", "compare", "setBegin", "setEnd", "swap"} => b[th[t].p] >= e[th[t].p]
  /\ th[t].at \in {"setBegin", "setEnd", "swap"} => th[t].p = ptr
  /\ th[t].at \in {"setEnd", "swap"} => b[ptr2] = e[ptr]
  /\ th[t].at = "swap" => e[ptr2] = e[ptr] + C

(* Nobody uses the pair that is made ready for the next chunk. *)
SwapInv == \A t, u \in Tracer :
             th[t].at \in {"setEnd", "swap"} /\ th[u].at \in InPair => th[u].p = ptr

PairInv == ChunkInv /\ SwapInv /\ \A t \in Tracer : PairOf(t)

RecordInv ==
  /\ \A x \in recs : /\ x.pos \in Nat /\ x.size \in Sizes
                     /\ x.pos + x.size <= e[ptr] /\ x.pos + x.size <= b[ptr]
  /\ RecordsApart /\ InChunk

(* A byte of a record, or behind the 0 of its chunk, or of the place where *)
(* a thread is about to write it.                                          *)
Covered(y) ==
  \/ \E x \in recs : y \in Bytes(x)
  \/ \E m \in marks : m <= y /\ m \div C = y \div C
  \/ \E t \in Tracer : th[t].at = "mark" /\ th[t].begin <= y /\ th[t].begin \div C = y \div C

CoverInv == \A y \in Nat : y < b[ptr] /\ y < e[ptr] => Covered(y)

BufferInv == UsersInv /\ PairInv /\ RecordInv /\ CoverInv

(* The number of the chunk a position lies in. *)
LEMMA DivIs == ASSUME NEW k \in Nat, NEW y \in Nat, k * C <= y, y < k * C + C PROVE y \div C = k
BY TraceAssumption

(* A chunk starts at a multiple of its size. *)
LEMMA ChunkNumbers ==
  ASSUME NEW k \in Nat
  PROVE  k * C \in Nat /\ (k + 1) * C = k * C + C /\ (k * C) \div C = k
BY TraceAssumption

(* An earlier chunk ends before a later one starts. *)
LEMMA Multiples == ASSUME NEW k \in Nat, NEW j \in Nat, k < j PROVE k * C + C <= j * C
BY TraceAssumption

(* An empty buffer is sound. *)
LEMMA InitBuffer == TraceInit => BufferInv
<1> SUFFICES ASSUME TraceInit PROVE BufferInv
  OBVIOUS
<1>1. UsersInv /\ C \in Nat
  BY InitUsers, TraceAssumption
<1>2. /\ \A t \in Tracer : th[t].at = "idle"
      /\ e[ptr] = C /\ b[ptr] = 0 /\ recs = {}
  BY DEF TraceInit, idle
<1>3. \A t \in Tracer : PairOf(t)
  BY <1>2 DEF PairOf, ReservePts, InPair, AllocPts
<1>4. SwapInv
  BY <1>2 DEF SwapInv
<1>5. ChunkInv
  <2>1. 0 * C + C = C /\ 0 >= C - C
    BY <1>1
  <2> QED
    BY <1>2, <2>1 DEF ChunkInv
<1>6. RecordInv
  BY <1>2 DEF RecordInv, RecordsApart, InChunk
<1>7. CoverInv
  BY <1>2 DEF CoverInv
<1> QED
  BY <1>1, <1>3, <1>4, <1>5, <1>6, <1>7 DEF BufferInv, PairInv

(* A thread moves and the pairs stay. *)
LEMMA PairKeeps ==
  ASSUME PairInv, NEW t \in Tracer, NEW l \in Points \ {"setEnd", "swap"}, Moves(t, l),
         UNCHANGED pairs, PairOf(t)',
         l \in InPair => th'[t].p = ptr \/ (th[t].at \in InPair /\ th'[t].p = th[t].p)
  PROVE  PairInv'
<1>1. b' = b /\ e' = e /\ ptr' = ptr /\ ptr2' = ptr2
  BY DEF pairs
<1>2. \A u \in Tracer : PairOf(u)'
  <2> SUFFICES ASSUME NEW u \in Tracer, u # t PROVE PairOf(u)'
    OBVIOUS
  <2>1. th'[u] = th[u] /\ PairOf(u)
    BY DEF Moves, PairInv
  <2> QED
    BY <1>1, <2>1 DEF PairOf
<1>3. SwapInv'
  <2> SUFFICES ASSUME NEW v \in Tracer, NEW u \in Tracer, th'[v].at \in {"setEnd", "swap"}, th'[u].at \in InPair
               PROVE  th'[u].p = ptr
    BY <1>1 DEF SwapInv
  <2>1. th[v].at \in {"setEnd", "swap"}
    BY DEF Moves
  <2>2. CASE u = t
    BY <2>1, <2>2 DEF SwapInv, PairInv, Moves
  <2>3. CASE u # t
    BY <2>1, <2>3 DEF SwapInv, PairInv, Moves
  <2> QED
    BY <2>2, <2>3
<1>4. ChunkInv'
  BY <1>1 DEF PairInv, ChunkInv
<1> QED
  BY <1>2, <1>3, <1>4 DEF PairInv

(* The records stay, and so does the current pair. *)
LEMMA RecordKeeps ==
  ASSUME RecordInv, recs' = recs, ptr' = ptr, b'[ptr] = b[ptr], e'[ptr] = e[ptr]
  PROVE  RecordInv'
BY DEF RecordInv, RecordsApart, InChunk, Bytes

(* What is covered stays covered. *)
LEMMA CoveredStays ==
  ASSUME NEW t \in Tracer, NEW l \in Points, Moves(t, l), recs \subseteq recs', marks \subseteq marks',
         th[t].at = "mark" => th[t].begin \in marks',
         NEW y \in Nat, Covered(y)
  PROVE  Covered(y)'
<1>1. CASE \E x \in recs : y \in Bytes(x)
  BY <1>1 DEF Covered, Bytes
<1>2. CASE \E m \in marks : m <= y /\ m \div C = y \div C
  BY <1>2 DEF Covered
<1>3. ASSUME NEW u \in Tracer, th[u].at = "mark", th[u].begin <= y, th[u].begin \div C = y \div C
      PROVE  Covered(y)'
  <2>1. CASE u = t
    BY <1>3, <2>1 DEF Covered
  <2>2. CASE u # t
    <3>1. th'[u] = th[u]
      BY <2>2 DEF Moves
    <3> QED
      BY <1>3, <3>1 DEF Covered
  <2> QED
    BY <2>1, <2>2
<1> QED
  BY <1>1, <1>2, <1>3 DEF Covered

(* What lies before the position stays covered. *)
LEMMA CoverKeeps ==
  ASSUME CoverInv, NEW t \in Tracer, NEW l \in Points, Moves(t, l), recs' = recs, marks \subseteq marks',
         ptr' = ptr, b'[ptr] = b[ptr], e'[ptr] = e[ptr], th[t].at = "mark" => th[t].begin \in marks'
  PROVE  CoverInv'
<1> SUFFICES ASSUME NEW y \in Nat, y < b[ptr], y < e[ptr] PROVE Covered(y)'
  BY DEF CoverInv
<1>1. Covered(y)
  BY DEF CoverInv
<1> QED
  BY <1>1, CoveredStays

(* A thread moves, and neither a pair nor a record changes. *)
LEMMA BufferKeeps ==
  ASSUME BufferInv, UsersInv', NEW t \in Tracer, NEW l \in Points \ {"setEnd", "swap"}, Moves(t, l),
         UNCHANGED pairs, recs' = recs, marks \subseteq marks',
         th[t].at = "mark" => th[t].begin \in marks', PairOf(t)',
         l \in InPair => th'[t].p = ptr \/ (th[t].at \in InPair /\ th'[t].p = th[t].p)
  PROVE  BufferInv'
<1>1. b' = b /\ e' = e /\ ptr' = ptr
  BY DEF pairs
<1>2. PairInv'
  BY PairKeeps DEF BufferInv
<1>3. RecordInv'
  BY <1>1, RecordKeeps DEF BufferInv
<1>4. CoverInv'
  BY <1>1, CoverKeeps DEF BufferInv
<1> QED
  BY <1>2, <1>3, <1>4 DEF BufferInv

(* The ranges of what a thread and the pairs hold. *)
LEMMA Ranges ==
  ASSUME TraceTypes, NEW t \in Tracer
  PROVE  /\ th \in [Tracer -> Tracing]
         /\ th[t].at \in Points /\ th[t].buf \in Nat /\ th[t].size \in Nat /\ th[t].p \in 1 .. 2
         /\ th[t].end \in Nat /\ th[t].begin \in Nat
         /\ ptr \in 1 .. 2 /\ ptr2 \in 1 .. 2 /\ ptr2 = 3 - ptr /\ ptr2 # ptr
         /\ b \in [1 .. 2 -> Nat] /\ e \in [1 .. 2 -> Nat]
         /\ b[ptr] \in Nat /\ e[ptr] \in Nat /\ b[ptr2] \in Nat /\ e[ptr2] \in Nat
         /\ C \in Nat \ {0} /\ \A s \in Sizes : s \in Nat /\ s >= 1
<1>1. th[t] \in Tracing
  BY DEF TraceTypes
<1>2. /\ th[t].at \in Points /\ th[t].buf \in Nat /\ th[t].size \in Nat /\ th[t].p \in 1 .. 2
      /\ th[t].end \in Nat /\ th[t].begin \in Nat
  BY <1>1 DEF Tracing
<1>3. /\ ptr \in 1 .. 2 /\ ptr2 \in 1 .. 2 /\ ptr2 = 3 - ptr /\ ptr2 # ptr
  BY DEF TraceTypes
<1>4. C \in Nat \ {0} /\ \A s \in Sizes : s \in Nat /\ s >= 1
  BY TraceAssumption
<1> QED
  BY <1>2, <1>3, <1>4 DEF TraceTypes

(* The steps that change no pair. *)
LEMMA QuietBuffer ==
  ASSUME BufferInv, UsersInv', NEW t \in Tracer,
         \/ EnterTrace(t) \/ startWrite(t) \/ DoubleCheck(t) \/ Fetch(t) \/ ReadEnd(t) \/ Mark(t)
         \/ Cas(t) \/ Wait(t) \/ Compare(t) \/ Release(t) \/ Fill(t) \/ finishWrite(t)
  PROVE  BufferInv'
<1>0. UsersInv /\ TraceTypes /\ PairOf(t)
  BY DEF BufferInv, UsersInv, PairInv
<1>1. /\ th \in [Tracer -> Tracing] /\ th[t].at \in Points /\ th[t].p \in 1 .. 2 /\ ptr \in 1 .. 2
      /\ ptr # ptr2
  BY <1>0, Ranges
<1>2. ASSUME NEW l, th' = [th EXCEPT ![t].at = l],
             UNCHANGED pairs, recs' = recs, marks \subseteq marks',
             th[t].at = "mark" => th[t].begin \in marks',
             \/ l \in {"start", "check", "finish"}
             \/ l = "fetch" /\ th[t].at \in {"wait", "release"}
             \/ l = "cas" /\ th[t].at = "mark"
             \/ l \in {"compare", "wait"} /\ th[t].at = "cas"
             \/ l = "setBegin" /\ th[t].at = "compare" /\ th[t].p = ptr
             \/ l = "release" /\ th[t].at = "compare"
      PROVE  BufferInv'
  <2>1. l \in Points \ {"setEnd", "swap"} /\ Go(t, l)
    BY <1>2 DEF Points, CountPts, WritePts, ReservePts, InPair, AllocPts, Go
  <2>2. Moves(t, l) /\ SameFields(t)
    BY <1>1, <2>1, GoMoves
  <2>3. b' = b /\ e' = e /\ ptr' = ptr /\ ptr2' = ptr2
    BY <1>2 DEF pairs
  <2>4. PairOf(t)'
    BY <1>0, <1>2, <2>2, <2>3 DEF PairOf, SameFields, Moves, ReservePts, InPair, AllocPts
  <2>5. l \in InPair => th[t].at \in InPair /\ th'[t].p = th[t].p
    BY <1>2, <2>2 DEF SameFields, InPair
  <2> QED
    BY <1>2, <2>1, <2>2, <2>4, <2>5, BufferKeeps
<1>3. CASE EnterTrace(t)
  BY <1>2, <1>3 DEF EnterTrace, Go, Is
<1>4. CASE startWrite(t)
  BY <1>2, <1>4 DEF startWrite, Go, Is
<1>5. CASE DoubleCheck(t)
  <2>1. CASE Go(t, "finish")
    BY <1>2, <1>5, <2>1 DEF DoubleCheck, Go, Is
  <2>2. ASSUME NEW s \in Sizes, th' = [th EXCEPT ![t].at = "fetch", ![t].size = s, ![t].buf = buffer]
        PROVE  BufferInv'
    <3>1. Moves(t, "fetch") /\ th'[t].size = s
      <4>1. s \in Nat /\ buffer \in Nat
        BY <1>0, TraceAssumption DEF TraceTypes
      <4> QED
        BY <1>1, <2>2, <4>1, PointFacts, ZenonT(40) DEF Moves, Tracing
    <3>2. PairOf(t)'
      BY <3>1 DEF PairOf, Moves
    <3> QED
      BY <1>5, <3>1, <3>2, BufferKeeps, PointFacts DEF DoubleCheck, Is, InPair
  <2> QED
    BY <1>5, <2>1, <2>2 DEF DoubleCheck
<1>6. CASE Fetch(t)
  <2>1. Moves(t, "end") /\ th'[t].p = ptr /\ th'[t].size = th[t].size
    BY <1>1, <1>6, PointFacts DEF Fetch, Moves, Tracing
  <2>2. PairOf(t)'
    BY <1>0, <1>1, <1>6, <2>1 DEF PairOf, Moves, Fetch, pairs, Is, ReservePts
  <2> QED
    <3>1. /\ "end" \in Points \ {"setEnd", "swap"} /\ th[t].at = "fetch"
          /\ UNCHANGED pairs /\ recs' = recs /\ marks \subseteq marks'
          /\ (th[t].at = "mark" => th[t].begin \in marks')
      BY <1>6, PointFacts DEF Fetch, Is
    <3> QED
      BY <2>1, <2>2, <3>1, BufferKeeps
<1>7. CASE ReadEnd(t)
  <2>1. /\ Moves(t, "add") /\ th'[t].p = th[t].p /\ th'[t].size = th[t].size
        /\ th'[t].end = e[th[t].p]
    <3>1. e[th[t].p] \in Nat
      BY <1>0, <1>1 DEF TraceTypes
    <3> QED
      BY <1>1, <1>7, <3>1, PointFacts DEF ReadEnd, Moves, Tracing
  <2>2. PairOf(t)'
    BY <1>0, <1>1, <1>7, <2>1 DEF PairOf, Moves, ReadEnd, pairs, Is, ReservePts, InPair
  <2> QED
    BY <1>7, <2>1, <2>2, BufferKeeps, PointFacts DEF ReadEnd, Is, InPair
<1>8. CASE Mark(t)
  BY <1>2, <1>8 DEF Mark, Go, Is
<1>9. CASE Cas(t)
  BY <1>2, <1>9 DEF Cas, Go, Is
<1>10. CASE Wait(t)
  BY <1>2, <1>10 DEF Wait, Go, Is
<1>11. CASE Compare(t)
  BY <1>2, <1>11 DEF Compare, Go, Is
<1>12. CASE Release(t)
  BY <1>2, <1>12 DEF Release, Go, Is
<1>13. CASE Fill(t)
  BY <1>2, <1>13 DEF Fill, Go, Is
<1>14. CASE finishWrite(t)
  <2>1. Moves(t, "idle")
    BY <1>1, <1>14, PointFacts DEF finishWrite, Moves, idle, Tracing
  <2>2. PairOf(t)'
    BY <2>1 DEF PairOf, Moves, ReservePts, InPair, AllocPts
  <2> QED
    BY <1>14, <2>1, <2>2, BufferKeeps, PointFacts DEF finishWrite, Is, InPair
<1> QED
  BY <1>3, <1>4, <1>5, <1>6, <1>7, <1>8, <1>9, <1>10, <1>11, <1>12, <1>13, <1>14

(* Add: a record is added in the current chunk, behind all others, or the  *)
(* thread has run behind the end of the pair.                              *)
LEMMA AddBuffer ==
  ASSUME BufferInv, UsersInv', NEW t \in Tracer, Add(t)
  PROVE  BufferInv'
<1>0. UsersInv /\ TraceTypes /\ PairOf(t) /\ ChunkInv /\ SwapInv /\ PairInv /\ RecordInv /\ CoverInv
  BY DEF BufferInv, UsersInv, PairInv
<1>1. PICK p \in 1 .. 2 : p = th[t].p
  BY <1>0, Ranges
<1>2. PICK s \in Sizes : s = th[t].size
  BY <1>0 DEF PairOf, Add, Is, ReservePts, InPair
<1>3. /\ th[t].at = "add" /\ th[t].end = e[p] /\ (p = ptr2 => b[p] >= e[p])
      /\ b' = [b EXCEPT ![p] = b[p] + s]
      /\ e' = e /\ ptr' = ptr /\ ptr2' = ptr2 /\ marks' = marks
  BY <1>0, <1>1, <1>2 DEF Add, PairOf, Is
<1>4. /\ th \in [Tracer -> Tracing] /\ ptr \in 1 .. 2 /\ ptr2 \in 1 .. 2 /\ ptr2 = 3 - ptr /\ ptr2 # ptr
      /\ b \in [1 .. 2 -> Nat] /\ e \in [1 .. 2 -> Nat] /\ b[p] \in Nat /\ e[p] \in Nat
      /\ b[ptr] \in Nat /\ e[ptr] \in Nat /\ b[ptr2] \in Nat /\ e[ptr2] \in Nat
      /\ s \in Nat /\ s >= 1 /\ C \in Nat \ {0} /\ \A q \in Sizes : q \in Nat
  BY <1>0, Ranges
<1>5. /\ b' \in [1 .. 2 -> Nat] /\ b'[p] = b[p] + s /\ \A q \in 1 .. 2 \ {p} : b'[q] = b[q]
      /\ \A q \in 1 .. 2 : b'[q] >= b[q]
  BY <1>3, <1>4
<1>6. p = ptr \/ p = ptr2
  BY <1>4
(* Fits, or not. *)
<1>7. \/ /\ b[p] + s <= e[p] /\ recs' = recs \cup {[pos |-> b[p], size |-> s, by |-> t]}
         /\ Moves(t, "fill")
      \/ /\ b[p] + s > e[p] /\ recs' = recs /\ th'[t].begin = b[p]
         /\ \/ b[p] < e[p] /\ Moves(t, "mark")
            \/ b[p] >= e[p] /\ Moves(t, "cas")
         /\ th'[t].size = s /\ th'[t].end = e[p] /\ th'[t].p = p
  <2>1. CASE Fits(t, b[p]) /\ Go(t, "fill") /\ recs' = recs \cup {[pos |-> b[p], size |-> s, by |-> t]}
    BY <1>2, <1>3, <1>4, <2>1, GoMoves, PointFacts DEF Fits
  <2>2. CASE /\ ~Fits(t, b[p]) /\ recs' = recs
             /\ th' = [th EXCEPT ![t].at = IF b[p] < e[p] THEN "mark" ELSE "cas", ![t].begin = b[p]]
    <3>1. b[p] + s > e[p]
      BY <1>2, <1>3, <1>4, <2>2 DEF Fits
    <3>2. /\ Moves(t, IF b[p] < e[p] THEN "mark" ELSE "cas") /\ th'[t].begin = b[p]
          /\ th'[t].size = th[t].size /\ th'[t].end = th[t].end /\ th'[t].p = th[t].p
      BY <1>4, <2>2, PointFacts, ZenonT(40) DEF Moves, Tracing
    <3> QED
      BY <1>1, <1>2, <1>3, <1>4, <2>2, <3>1, <3>2
  <2> QED
    BY <1>1, <1>2, <1>3, <2>1, <2>2 DEF Add
<1>8. PICK l \in {"fill", "mark", "cas"} : Moves(t, l)
  BY <1>7
<1>9. l \in Points /\ \A u \in Tracer \ {t} : th'[u] = th[u]
  BY <1>8, PointFacts DEF Moves
(* Nobody makes the other pair ready while a thread adds to it. *)
<1>10. \A u \in Tracer : th[u].at \in {"setEnd", "swap"} => p = ptr
  BY <1>0, <1>1, <1>3 DEF SwapInv, InPair
<1>11. PairInv'
  <2>1. ASSUME NEW u \in Tracer \ {t} PROVE PairOf(u)'
    <3>1. PairOf(u) /\ th'[u] = th[u] /\ th[u].p \in 1 .. 2
      BY <1>0, <1>9, Ranges DEF PairInv
    <3>2. /\ b'[ptr2] >= b[ptr2] /\ b'[th[u].p] >= b[th[u].p] /\ b'[ptr2] \in Nat
          /\ b'[th[u].p] \in Nat /\ b[th[u].p] \in Nat /\ e[th[u].p] \in Nat
          /\ th[u].at \in {"setEnd", "swap"} => b'[ptr2] = b[ptr2]
      BY <1>4, <1>5, <1>10, <3>1
    <3> QED
      BY <1>3, <1>4, <3>1, <3>2 DEF PairOf
  <2>2. PairOf(t)'
    <3>1. CASE b[p] + s > e[p]
      <4>1. th'[t].at \in {"mark", "cas"} /\ th'[t].size = s /\ th'[t].end = e[p] /\ th'[t].p = p /\ b'[p] >= e[p]
        BY <1>4, <1>5, <1>7, <3>1 DEF Moves
      <4> QED
        BY <1>3, <4>1 DEF PairOf
    <3>2. CASE b[p] + s <= e[p]
      <4>1. th'[t].at = "fill"
        BY <1>4, <1>7, <3>2 DEF Moves
      <4> QED
        BY <4>1 DEF PairOf, ReservePts, InPair, AllocPts
    <3> QED
      BY <1>4, <3>1, <3>2
  <2>3. SwapInv'
    <3> SUFFICES ASSUME NEW v \in Tracer, NEW u \in Tracer, th'[v].at \in {"setEnd", "swap"}, th'[u].at \in InPair
                 PROVE  th'[u].p = ptr
      BY <1>3 DEF SwapInv
    <3>1. v # t /\ th[v].at \in {"setEnd", "swap"}
      BY <1>8, <1>9 DEF Moves
    <3>2. CASE u = t
      <4>1. th'[t].at # "fill"
        BY <3>2 DEF InPair
      <4> QED
        BY <1>7, <1>10, <3>1, <3>2, <4>1 DEF Moves
    <3>3. CASE u # t
      BY <1>0, <1>9, <3>1, <3>3 DEF SwapInv
    <3> QED
      BY <3>2, <3>3
  <2>4. ChunkInv'
    BY <1>0, <1>3, <1>4, <1>5 DEF ChunkInv
  <2> QED
    BY <2>1, <2>2, <2>3, <2>4 DEF PairInv
<1>12. CASE b[p] + s <= e[p]
  <2> DEFINE new == [pos |-> b[p], size |-> s, by |-> t]
  <2>1. p = ptr /\ recs' = recs \cup {new} /\ Moves(t, "fill") /\ b'[ptr] = b[ptr] + s
    BY <1>3, <1>4, <1>5, <1>6, <1>7, <1>12
  <2>2. new.pos = b[ptr] /\ new.size = s
    BY <2>1
  <2>3. \A x \in recs : x.pos \in Nat /\ x.size \in Nat /\ x.pos + x.size <= b[ptr]
    BY <1>0, <1>4 DEF RecordInv
  <2> HIDE DEF new
  <2>4. RecordsApart'
    <3> SUFFICES ASSUME NEW x \in recs', NEW y \in recs', x # y PROVE Bytes(x) \cap Bytes(y) = {}
      BY DEF RecordsApart, Bytes
    <3>1. CASE x \in recs /\ y \in recs
      BY <1>0, <3>1 DEF RecordInv, RecordsApart
    <3>2. ASSUME NEW z \in recs PROVE Bytes(z) \cap Bytes(new) = {}
      <4>1. z.pos \in Nat /\ z.size \in Nat /\ z.pos + z.size <= b[ptr]
        BY <2>3
      <4> QED
        BY <1>4, <2>2, <4>1 DEF Bytes
    <3> QED
      BY <2>1, <3>1, <3>2
  <2>5. InChunk'
    <3>1. PICK k \in Nat : e[ptr] = k * C + C
      BY <1>0 DEF ChunkInv
    <3>2. k * C \in Nat /\ b[ptr] >= e[ptr] - C
      BY <1>0, <1>4 DEF ChunkInv
    <3>3. /\ k * C <= b[ptr] /\ b[ptr] < k * C + C
          /\ k * C <= b[ptr] + s - 1 /\ b[ptr] + s - 1 < k * C + C /\ b[ptr] + s - 1 \in Nat
      BY <1>4, <1>12, <2>1, <3>1, <3>2
    <3>4. b[ptr] \div C = k /\ (b[ptr] + s - 1) \div C = k
      BY <1>4, <3>3, DivIs
    <3> QED
      BY <1>0, <2>1, <2>2, <3>4 DEF InChunk, RecordInv
  <2>6. RecordInv'
    <3> SUFFICES ASSUME NEW x \in recs'
                 PROVE  /\ x.pos \in Nat /\ x.size \in Sizes
                        /\ x.pos + x.size <= e[ptr] /\ x.pos + x.size <= b'[ptr]
      BY <1>3, <2>4, <2>5 DEF RecordInv
    <3>1. CASE x = new
      BY <1>4, <1>12, <2>1, <2>2, <3>1
    <3>2. CASE x \in recs
      BY <1>0, <1>4, <2>1, <2>3, <3>2 DEF RecordInv
    <3> QED
      BY <2>1, <3>1, <3>2
  <2>7. CoverInv'
    <3> SUFFICES ASSUME NEW y \in Nat, y < b[ptr] + s, y < e[ptr] PROVE Covered(y)'
      BY <1>3, <2>1 DEF CoverInv
    <3>1. CASE y < b[ptr]
      <4>1. Covered(y)
        BY <1>0, <3>1 DEF CoverInv
      <4> QED
        BY <1>3, <1>9, <1>8, <2>1, <4>1, CoveredStays
    <3>2. CASE y >= b[ptr]
      <4>1. y \in Bytes(new) /\ new \in recs'
        BY <1>4, <2>1, <2>2, <3>2 DEF Bytes
      <4> QED
        BY <4>1 DEF Covered, Bytes
    <3> QED
      BY <1>4, <3>1, <3>2
  <2> QED
    BY <1>11, <2>6, <2>7 DEF BufferInv
<1>13. CASE b[p] + s > e[p]
  <2>1. recs' = recs /\ b'[ptr] >= b[ptr] /\ b'[ptr] \in Nat
    BY <1>4, <1>5, <1>7, <1>13
  <2>2. RecordInv'
    <3>1. RecordsApart' /\ InChunk'
      BY <1>0, <2>1 DEF RecordInv, RecordsApart, InChunk, Bytes
    <3>2. ASSUME NEW x \in recs
          PROVE  /\ x.pos \in Nat /\ x.size \in Sizes
                 /\ x.pos + x.size <= e[ptr] /\ x.pos + x.size <= b'[ptr]
      <4>1. x.pos \in Nat /\ x.size \in Nat
        BY <1>0, <1>4 DEF RecordInv
      <4> QED
        BY <1>0, <1>4, <2>1, <4>1 DEF RecordInv
    <3> QED
      BY <1>3, <2>1, <3>1, <3>2 DEF RecordInv
  <2>3. CoverInv'
    <3> SUFFICES ASSUME NEW y \in Nat, y < b'[ptr], y < e[ptr] PROVE Covered(y)'
      BY <1>3 DEF CoverInv
    <3>1. CASE y < b[ptr]
      <4>1. Covered(y)
        BY <1>0, <3>1 DEF CoverInv
      <4> QED
        BY <1>3, <1>9, <1>8, <2>1, <4>1, CoveredStays
    <3>2. CASE y >= b[ptr]
      <4>1. p = ptr /\ b[ptr] < e[ptr]
        BY <1>4, <1>5, <1>6, <3>2
      <4>2. th'[t].at = "mark" /\ th'[t].begin = b[ptr]
        BY <1>4, <1>7, <1>13, <4>1 DEF Moves
      <4>3. PICK k \in Nat : e[ptr] = k * C + C
        BY <1>0 DEF ChunkInv
      <4>4. k * C \in Nat /\ b[ptr] >= e[ptr] - C
        BY <1>0, <1>4 DEF ChunkInv
      <4>5. k * C <= b[ptr] /\ b[ptr] < k * C + C /\ k * C <= y /\ y < k * C + C
        BY <1>4, <3>2, <4>1, <4>3, <4>4
      <4>6. b[ptr] \div C = k /\ y \div C = k
        BY <1>4, <4>5, DivIs
      <4> QED
        BY <3>2, <4>2, <4>6 DEF Covered
    <3> QED
      BY <1>4, <3>1, <3>2
  <2> QED
    BY <1>11, <2>2, <2>3 DEF BufferInv
<1> QED
  BY <1>4, <1>12, <1>13

(* Who is about to swap is alone with _alloc. *)
LEMMA SoleHolder ==
  ASSUME UsersInv, NEW t \in Tracer, th[t].at \in AllocPts
  PROVE  \A u \in Tracer \ {t} : th[u].at \notin {"compare", "setBegin", "setEnd", "swap", "release"}
BY DEF UsersInv, AllocInv, AllocPts

(* SetBegin: only a pair nobody uses gets a new position. *)
LEMMA SetBeginBuffer ==
  ASSUME Prompt, BufferInv, UsersInv', NEW t \in Tracer, SetBegin(t)
  PROVE  BufferInv'
<1>0. UsersInv /\ TraceTypes /\ PairOf(t) /\ ChunkInv /\ SwapInv /\ PairInv /\ RecordInv /\ CoverInv
  BY DEF BufferInv, UsersInv, PairInv
<1>1. /\ th \in [Tracer -> Tracing] /\ ptr \in 1 .. 2 /\ ptr2 \in 1 .. 2 /\ ptr2 # ptr
      /\ b \in [1 .. 2 -> Nat] /\ e \in [1 .. 2 -> Nat] /\ b[ptr] \in Nat /\ e[ptr] \in Nat
  BY <1>0, Ranges
<1>2. /\ th[t].at = "setBegin" /\ th[t].p = ptr /\ th[t].end = e[ptr] /\ b[ptr] >= e[ptr]
      /\ th[t].size \in Sizes
  BY <1>0 DEF SetBegin, Is, PairOf, ReservePts, AllocPts
<1>3. /\ b' = [b EXCEPT ![ptr2] = e[ptr]] /\ e' = e /\ ptr' = ptr /\ ptr2' = ptr2
      /\ recs' = recs /\ marks' = marks
  BY <1>2 DEF SetBegin
<1>4. Moves(t, "setEnd") /\ SameFields(t) /\ "setEnd" \in Points
  BY <1>1, GoMoves, PointFacts DEF SetBegin
<1>5. b'[ptr2] = e[ptr] /\ b'[ptr] = b[ptr] /\ e'[ptr] = e[ptr]
  BY <1>1, <1>3
<1>6. \A u \in Tracer \ {t} : /\ th[u].at \notin {"setBegin", "setEnd", "swap"} /\ th'[u] = th[u]
                              /\ th[u].at \in InPair => th[u].p = ptr
  <2>1. Behind(t, ptr2) = {}
    BY DEF SetBegin
  <2>2. ASSUME NEW u \in Tracer \ {t}, th[u].at \in InPair PROVE th[u].p = ptr
    <3>1. th[u].p \in 1 .. 2 /\ th[u].p # ptr2
      BY <1>0, <2>1, <2>2, Ranges DEF Behind, InPair
    <3> QED
      BY <1>1, <3>1
  <2>3. \A u \in Tracer \ {t} : th[u].at \notin {"setBegin", "setEnd", "swap"}
    BY <1>0, <1>2, SoleHolder DEF AllocPts
  <2> QED
    BY <1>4, <2>2, <2>3 DEF Moves
<1>7. PairInv'
  <2>1. ASSUME NEW u \in Tracer \ {t} PROVE PairOf(u)'
    <3>1. PairOf(u) /\ th'[u] = th[u]
      BY <1>0, <1>6 DEF PairInv
    <3>2. /\ th[u].at \in {"end", "add", "mark", "cas", "compare"} => th[u].p = ptr
          /\ th[u].at \notin {"setBegin", "setEnd", "swap"}
      BY <1>6 DEF InPair
    <3> QED
      BY <1>1, <1>3, <1>5, <3>1, <3>2 DEF PairOf
  <2>2. PairOf(t)'
    BY <1>2, <1>3, <1>4, <1>5 DEF PairOf, Moves, SameFields
  <2>3. SwapInv'
    BY <1>3, <1>4, <1>6 DEF SwapInv, Moves, InPair
  <2>4. ChunkInv'
    BY <1>0, <1>3, <1>5 DEF ChunkInv
  <2> QED
    BY <2>1, <2>2, <2>3, <2>4 DEF PairInv
<1>8. RecordInv'
  BY <1>0, <1>3, <1>5, RecordKeeps
<1>9. CoverInv'
  BY <1>0, <1>2, <1>3, <1>4, <1>5, CoverKeeps
<1> QED
  BY <1>7, <1>8, <1>9 DEF BufferInv

(* SetEnd: it still is used by nobody when it gets its end. *)
LEMMA SetEndBuffer ==
  ASSUME BufferInv, UsersInv', NEW t \in Tracer, SetEnd(t)
  PROVE  BufferInv'
<1>0. UsersInv /\ TraceTypes /\ PairOf(t) /\ ChunkInv /\ SwapInv /\ PairInv /\ RecordInv /\ CoverInv
  BY DEF BufferInv, UsersInv, PairInv
<1>1. /\ th \in [Tracer -> Tracing] /\ ptr \in 1 .. 2 /\ ptr2 \in 1 .. 2 /\ ptr2 # ptr
      /\ b \in [1 .. 2 -> Nat] /\ e \in [1 .. 2 -> Nat] /\ b[ptr] \in Nat /\ e[ptr] \in Nat
  BY <1>0, Ranges
<1>2. /\ th[t].at = "setEnd" /\ th[t].p = ptr /\ th[t].end = e[ptr] /\ b[ptr] >= e[ptr]
      /\ th[t].size \in Sizes /\ b[ptr2] = e[ptr]
  BY <1>0 DEF SetEnd, Is, PairOf, ReservePts, AllocPts
<1>3. /\ e' = [e EXCEPT ![ptr2] = e[ptr] + C] /\ b' = b /\ ptr' = ptr /\ ptr2' = ptr2
      /\ recs' = recs /\ marks' = marks
  BY <1>2 DEF SetEnd
<1>4. Moves(t, "swap") /\ SameFields(t) /\ "swap" \in Points
  BY <1>1, GoMoves, PointFacts DEF SetEnd
<1>5. e'[ptr2] = e[ptr] + C /\ b'[ptr] = b[ptr] /\ e'[ptr] = e[ptr]
  BY <1>1, <1>3
<1>6. \A u \in Tracer \ {t} : /\ th[u].at \notin {"setBegin", "setEnd", "swap"} /\ th'[u] = th[u]
                              /\ th[u].at \in InPair => th[u].p = ptr
  BY <1>0, <1>2, <1>4, SoleHolder DEF AllocPts, SwapInv, Moves
<1>7. PairInv'
  <2>1. ASSUME NEW u \in Tracer \ {t} PROVE PairOf(u)'
    <3>1. PairOf(u) /\ th'[u] = th[u]
      BY <1>0, <1>6 DEF PairInv
    <3>2. /\ th[u].at \in {"end", "add", "mark", "cas", "compare"} => th[u].p = ptr
          /\ th[u].at \notin {"setBegin", "setEnd", "swap"}
      BY <1>6 DEF InPair
    <3> QED
      BY <1>1, <1>3, <1>5, <3>1, <3>2 DEF PairOf
  <2>2. PairOf(t)'
    BY <1>2, <1>3, <1>4, <1>5 DEF PairOf, Moves, SameFields
  <2>3. SwapInv'
    BY <1>3, <1>4, <1>6 DEF SwapInv, Moves, InPair
  <2>4. ChunkInv'
    BY <1>0, <1>3, <1>5 DEF ChunkInv
  <2> QED
    BY <2>1, <2>2, <2>3, <2>4 DEF PairInv
<1>8. RecordInv'
  BY <1>0, <1>3, <1>5, RecordKeeps
<1>9. CoverInv'
  BY <1>0, <1>2, <1>3, <1>4, <1>5, CoverKeeps
<1> QED
  BY <1>7, <1>8, <1>9 DEF BufferInv

(* Swap: the full chunk is covered, and the next one starts at its end. *)
LEMMA SwapBuffer ==
  ASSUME BufferInv, UsersInv', NEW t \in Tracer, Swap(t)
  PROVE  BufferInv'
<1>0. UsersInv /\ TraceTypes /\ PairOf(t) /\ ChunkInv /\ SwapInv /\ PairInv /\ RecordInv /\ CoverInv
  BY DEF BufferInv, UsersInv, PairInv
<1>1. /\ th \in [Tracer -> Tracing] /\ ptr \in 1 .. 2 /\ ptr2 \in 1 .. 2 /\ ptr2 # ptr
      /\ b[ptr] \in Nat /\ e[ptr] \in Nat /\ C \in Nat /\ \A q \in Sizes : q \in Nat
  BY <1>0, Ranges
<1>2. /\ th[t].at = "swap" /\ th[t].p = ptr /\ b[ptr] >= e[ptr]
      /\ th[t].size \in Sizes /\ b[ptr2] = e[ptr] /\ e[ptr2] = e[ptr] + C
  BY <1>0 DEF Swap, Is, PairOf, ReservePts, AllocPts
<1>3. /\ ptr' = ptr2 /\ ptr2' = ptr /\ b' = b /\ e' = e /\ recs' = recs /\ marks' = marks
  BY DEF Swap
<1>4. Moves(t, "release") /\ SameFields(t) /\ "release" \in Points
  BY <1>1, GoMoves, PointFacts DEF Swap
<1>5. \A u \in Tracer \ {t} : /\ th[u].at \notin {"setBegin", "setEnd", "swap"} /\ th'[u] = th[u]
                              /\ th[u].at \in InPair => th[u].p = ptr
  BY <1>0, <1>2, <1>4, SoleHolder DEF AllocPts, SwapInv, Moves
<1>6. PairInv'
  <2>1. ASSUME NEW u \in Tracer \ {t} PROVE PairOf(u)'
    <3>1. PairOf(u) /\ th'[u] = th[u]
      BY <1>0, <1>5 DEF PairInv
    <3>2. th[u].at \notin {"setBegin", "setEnd", "swap"}
      BY <1>5
    <3> QED
      BY <1>2, <1>3, <3>1, <3>2 DEF PairOf
  <2>2. PairOf(t)'
    BY <1>2, <1>4 DEF PairOf, Moves, SameFields
  <2>3. SwapInv'
    BY <1>4, <1>5 DEF SwapInv, Moves
  <2>4. ChunkInv'
    <3>1. PICK k \in Nat : e[ptr] = k * C + C
      BY <1>0 DEF ChunkInv
    <3>2. e[ptr2] = (k + 1) * C + C /\ k + 1 \in Nat
      BY <1>1, <1>2, <3>1, ChunkNumbers
    <3>3. b[ptr2] >= e[ptr2] - C
      BY <1>1, <1>2
    <3> QED
      BY <1>3, <3>2, <3>3 DEF ChunkInv
  <2> QED
    BY <2>1, <2>2, <2>3, <2>4 DEF PairInv
<1>7. RecordInv'
  <2>1. RecordsApart' /\ InChunk'
    BY <1>0, <1>3 DEF RecordInv, RecordsApart, InChunk, Bytes
  <2>2. ASSUME NEW x \in recs
        PROVE  /\ x.pos \in Nat /\ x.size \in Sizes
               /\ x.pos + x.size <= e[ptr2] /\ x.pos + x.size <= b[ptr2]
    <3>1. x.pos \in Nat /\ x.size \in Sizes /\ x.size \in Nat /\ x.pos + x.size <= e[ptr]
      BY <1>0, <1>1 DEF RecordInv
    <3> QED
      BY <1>1, <1>2, <3>1
  <2> QED
    BY <1>3, <2>1, <2>2 DEF RecordInv
<1>8. CoverInv'
  <2> SUFFICES ASSUME NEW y \in Nat, y < b[ptr2] PROVE Covered(y)'
    BY <1>3 DEF CoverInv
  <2>1. Covered(y)
    BY <1>0, <1>1, <1>2 DEF CoverInv
  <2> QED
    BY <1>2, <1>3, <1>4, <2>1, CoveredStays
<1> QED
  BY <1>6, <1>7, <1>8 DEF BufferInv

(* stop leaves the buffer alone, and who resets it meets no writer. *)
LEMMA OperBuffer ==
  ASSUME BufferInv, UsersInv', NEW o \in Oper,
         start(o) \/ stop(o, "stop") \/ stop(o, "destroy") \/ Stopped(o) \/ destroy(o)
  PROVE  BufferInv'
<1>0. UsersInv /\ PairInv /\ RecordInv /\ CoverInv /\ th' = th
  BY DEF BufferInv, start, stop, Stopped, destroy
<1>1. ASSUME UNCHANGED <<pairs, recs, marks>>
      PROVE  BufferInv'
  <2>1. UNCHANGED <<b, e, ptr, ptr2, recs, marks, th>>
    BY <1>0, <1>1 DEF pairs
  <2>2. PairInv'
    BY <1>0, <2>1 DEF PairInv, ChunkInv, SwapInv, PairOf
  <2>3. RecordInv'
    BY <1>0, <2>1, RecordKeeps
  <2>4. CoverInv'
    BY <1>0, <2>1 DEF CoverInv, Covered, Bytes
  <2> QED
    BY <2>2, <2>3, <2>4 DEF BufferInv
<1>2. ASSUME NEW k, Reset(k), Writing = {}
      PROVE  BufferInv'
  <2>1. ptr' = 1 /\ ptr2' = 2 /\ b'[1] = 0 /\ e'[1] = C /\ recs' = {} /\ C \in Nat
    BY <1>2, ResetTypes, TraceAssumption
  <2>2. \A u \in Tracer : th'[u].at \notin WritePts
    BY <1>0, <1>2, PointSets
  <2>3. SwapInv' /\ \A u \in Tracer : PairOf(u)'
    BY <2>2 DEF SwapInv, PairOf, WritePts, ReservePts, InPair, AllocPts
  <2>4. ChunkInv'
    <3>1. C = 0 * C + C /\ 0 >= C - C
      BY <2>1
    <3> QED
      BY <2>1, <3>1 DEF ChunkInv
  <2>5. RecordInv'
    BY <2>1 DEF RecordInv, RecordsApart, InChunk
  <2>6. CoverInv'
    BY <2>1 DEF CoverInv
  <2> QED
    BY <2>3, <2>4, <2>5, <2>6 DEF BufferInv, PairInv
<1>3. CASE start(o) \/ Stopped(o) \/ destroy(o)
  <2>1. Writing = {}
    BY <1>0, <1>3, ResetAtRest
  <2>2. CASE Stopped(o)
    BY <1>1, <1>2, <2>1, <2>2 DEF Stopped
  <2>3. CASE start(o) \/ destroy(o)
    BY <1>2, <2>1, <2>3 DEF start, destroy
  <2> QED
    BY <1>3, <2>2, <2>3
<1>4. CASE stop(o, "stop") \/ stop(o, "destroy")
  BY <1>1, <1>4 DEF stop
<1> QED
  BY <1>3, <1>4

(* Every step keeps the buffer sound. *)
LEMMA StepBuffer == Prompt /\ BufferInv /\ [TraceNext]_traceVars => BufferInv'
<1> SUFFICES ASSUME Prompt, BufferInv, [TraceNext]_traceVars PROVE BufferInv'
  OBVIOUS
<1>1. UsersInv'
  BY StepUsers DEF BufferInv
<1>2. CASE UNCHANGED traceVars
  <2>1. UNCHANGED <<b, e, ptr, ptr2, recs, marks, th>>
    BY <1>2 DEF traceVars, pairs
  <2>2. PairInv'
    BY <2>1 DEF BufferInv, PairInv, ChunkInv, SwapInv, PairOf
  <2>3. RecordInv'
    BY <2>1, RecordKeeps DEF BufferInv
  <2>4. CoverInv'
    BY <2>1 DEF BufferInv, CoverInv, Covered, Bytes
  <2> QED
    BY <1>1, <2>2, <2>3, <2>4 DEF BufferInv
<1>3. ASSUME NEW t \in Tracer, EnterTrace(t) \/ TraceStep(t)
      PROVE  BufferInv'
  BY <1>1, <1>3, QuietBuffer, AddBuffer, SetBeginBuffer, SetEndBuffer, SwapBuffer DEF TraceStep
<1> QED
  BY <1>1, <1>2, <1>3, OperBuffer DEF TraceNext

(* When nobody writes any more, nobody has a 0 left to write. *)
LEMMA CoverTiles == BufferInv => Tiled
<1> SUFFICES ASSUME BufferInv, ~started, ~metaOpr,
                    NEW k \in 0 .. e[ptr] \div C - 2, NEW y \in k * C .. (k + 1) * C - 1
             PROVE  y \in Known(k)
  BY DEF Tiled
<1>1. \A t \in Tracer : th[t].at # "mark"
  BY UsersRest, PointSets, PointFacts DEF BufferInv, RestAfterStop
<1>2. PICK j \in Nat : e[ptr] = j * C + C
  BY DEF BufferInv, PairInv, ChunkInv
<1>3. /\ j * C \in Nat /\ e[ptr] = (j + 1) * C /\ e[ptr] \div C = j + 1 /\ k \in Nat /\ k < j
      /\ C \in Nat \ {0}
  BY <1>2, ChunkNumbers, TraceAssumption
<1>4. /\ k * C \in Nat /\ (k + 1) * C = k * C + C /\ k * C + C <= j * C
  BY <1>3, ChunkNumbers, Multiples
<1>5. y \in Nat /\ k * C <= y /\ y < k * C + C /\ y < j * C
  BY <1>3, <1>4
<1>6. y \div C = k
  BY <1>3, <1>5, DivIs
<1>7. y < b[ptr] /\ y < e[ptr]
  <2>1. b[ptr] \in Nat /\ b[ptr] >= e[ptr] - C
    BY DEF BufferInv, PairInv, ChunkInv, UsersInv, TraceTypes
  <2> QED
    BY <1>2, <1>3, <1>5, <2>1
<1>8. Covered(y)
  BY <1>5, <1>7 DEF BufferInv, CoverInv
<1>9. CASE \E x \in recs : y \in Bytes(x)
  BY <1>9 DEF Known
<1>10. ASSUME NEW m \in marks, m <= y, m \div C = y \div C
       PROVE  y \in Known(k)
  <2>1. m \in Nat
    BY DEF BufferInv, UsersInv, TraceTypes
  <2>2. y \in m .. (k + 1) * C - 1 /\ m \in {x \in marks : x \div C = k}
    BY <1>3, <1>4, <1>5, <1>6, <1>10, <2>1
  <2> QED
    BY <2>2 DEF Known
<1> QED
  BY <1>1, <1>8, <1>9, <1>10 DEF Covered

(* reserveMemory: records lie in one chunk each, share no byte, and leave  *)
(* no byte between them that the parser would stumble over.                *)
THEOREM BufferIsSound == ASSUME Prompt PROVE TraceSpec => []BufferSound
<1>1. BufferInv /\ [TraceNext]_traceVars => BufferInv'
  BY StepBuffer
<1>2. TraceSpec => []BufferInv
  BY <1>1, InitBuffer, PTL DEF TraceSpec
<1>3. BufferInv => BufferSound
  BY UsersTypeOK, UsersRest, CoverTiles DEF BufferInv, RecordInv, BufferSound
<1> QED
  BY <1>2, <1>3, PTL
=============================================================================
