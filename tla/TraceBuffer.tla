----------------------------- MODULE TraceBuffer -----------------------------
(***************************************************************************)
(* The trace buffer (pd/pdTrace.cpp).  Threads write records into it       *)
(* without a latch: reserveMemory adds to the position of the current pair *)
(* (position, end of chunk) and, behind the end of the chunk, makes the    *)
(* other pair the current one for the next chunk.  start, stop and destroy *)
(* exclude each other by _metaOpr and wait for the writers they meet.      *)
(*                                                                         *)
(* Positions are counted from the start of the trace and not wrapped: what *)
(* becomes of them in the buffer and in the dump is in TraceDump.  Each    *)
(* step is one access to memory that other threads use.                    *)
(***************************************************************************)
EXTENDS Integers, FiniteSets

CONSTANTS Tracer,    \* threads that trace
          Oper,      \* threads that start, stop and destroy the trace
          C,         \* TRACE_CHUNK_SIZE
          Sizes,     \* sizes of records
          Prompt,    \* no thread sleeps in reserveMemory while a chunk is filled
          MaxPos,    \* bound: a call is traced while the position is below
          MaxStart   \* bound: calls of start

ASSUME TraceAssumption ==
  /\ IsFiniteSet(Tracer) /\ C \in Nat \ {0} /\ Sizes \subseteq 1 .. C
  /\ Prompt \in BOOLEAN /\ MaxPos \in Nat /\ MaxStart \in Nat

VARIABLES
  started,   \* _traceStarted
  buffer,    \* _pBuffer: the number of the start that allocated it, 0 is NULL
  b, e,      \* the pairs _info1 and _info2
  ptr, ptr2, \* _ptr and _ptr2, as numbers of pairs
  alloc,     \* _alloc
  writer,    \* _currentWriter
  recs,      \* the records reserved, by position and size
  marks,     \* the positions where a 0 ends a chunk
  th, op,    \* what the threads do
  starts

pairs == <<b, e, ptr, ptr2>>
traceVars == <<started, buffer, pairs, alloc, writer, recs, marks, th, op, starts>>

idle == [at |-> "idle", buf |-> 0, size |-> 0, p |-> 1, end |-> 0, begin |-> 0]

TraceInit ==
  /\ started = FALSE /\ buffer = 0
  /\ b = [p \in 1 .. 2 |-> 0] /\ e = [p \in 1 .. 2 |-> C] /\ ptr = 1 /\ ptr2 = 2
  /\ alloc = 0 /\ writer = 0 /\ recs = {} /\ marks = {}
  /\ th = [t \in Tracer |-> idle] /\ op = [o \in Oper |-> "idle"]
  /\ starts = 0

Is(t, l) == th[t].at = l
Go(t, l) == th' = [th EXCEPT ![t].at = l]
trace == <<started, buffer, op, starts>>

-----------------------------------------------------------------------------
(* pdTraceFunc *)

\* The first look at _traceStarted.
EnterTrace(t) ==
  /\ Is(t, "idle") /\ started /\ b[ptr] < MaxPos
  /\ Go(t, "start")
  /\ UNCHANGED <<trace, pairs, alloc, writer, recs, marks>>

startWrite(t) ==
  /\ Is(t, "start")
  /\ writer' = writer + 1
  /\ Go(t, "check")
  /\ UNCHANGED <<trace, pairs, alloc, recs, marks>>

\* The second look, and the filters by component and thread.
DoubleCheck(t) ==
  /\ Is(t, "check")
  /\ \/ /\ started
        /\ \E s \in Sizes : th' = [th EXCEPT ![t].at = "fetch", ![t].size = s, ![t].buf = buffer]
     \/ Go(t, "finish")
  /\ UNCHANGED <<trace, pairs, alloc, writer, recs, marks>>

\* fillIn of the record and its arguments.
Fill(t) ==
  /\ Is(t, "fill")
  /\ Go(t, "finish")
  /\ UNCHANGED <<trace, pairs, alloc, writer, recs, marks>>

finishWrite(t) ==
  /\ Is(t, "finish")
  /\ writer' = writer - 1
  /\ th' = [th EXCEPT ![t] = idle]
  /\ UNCHANGED <<trace, pairs, alloc, recs, marks>>

-----------------------------------------------------------------------------
(* reserveMemory *)

Fetch(t) ==
  /\ Is(t, "fetch")
  /\ th' = [th EXCEPT ![t].at = "end", ![t].p = ptr]
  /\ UNCHANGED <<trace, pairs, alloc, writer, recs, marks>>

ReadEnd(t) ==
  /\ Is(t, "end")
  /\ th' = [th EXCEPT ![t].at = "add", ![t].end = e[th[t].p]]
  /\ UNCHANGED <<trace, pairs, alloc, writer, recs, marks>>

Fits(t, begin) == begin + th[t].size <= th[t].end

Add(t) ==
  LET p == th[t].p IN
  /\ Is(t, "add")
  /\ b' = [b EXCEPT ![p] = @ + th[t].size]
  /\ \/ /\ Fits(t, b[p])
        /\ recs' = recs \cup {[pos |-> b[p], size |-> th[t].size, by |-> t]}
        /\ Go(t, "fill")
     \/ /\ ~Fits(t, b[p])
        /\ th' = [th EXCEPT ![t].at = IF b[p] < th[t].end THEN "mark" ELSE "cas", ![t].begin = b[p]]
        /\ UNCHANGED recs
  /\ UNCHANGED <<trace, e, ptr, ptr2, alloc, writer, marks>>

Mark(t) ==
  /\ Is(t, "mark")
  /\ marks' = marks \cup {th[t].begin}
  /\ Go(t, "cas")
  /\ UNCHANGED <<trace, pairs, alloc, writer, recs>>

\* compareAndSwap of _alloc; who does not get it waits and tries again.
Cas(t) ==
  /\ Is(t, "cas")
  /\ \/ alloc = 0 /\ alloc' = 1 /\ Go(t, "compare")
     \/ alloc = 1 /\ alloc' = alloc /\ Go(t, "wait")
  /\ UNCHANGED <<trace, pairs, writer, recs, marks>>

Wait(t) ==
  /\ Is(t, "wait") /\ alloc = 0
  /\ Go(t, "fetch")
  /\ UNCHANGED <<trace, pairs, alloc, writer, recs, marks>>

\* fault: the current pair is not compared with the one that is full
CompareNone(t) ==
  /\ Is(t, "compare")
  /\ Go(t, "setBegin")
  /\ UNCHANGED <<trace, pairs, alloc, writer, recs, marks>>

Compare(t) ==
  /\ Is(t, "compare")
  /\ Go(t, IF ptr = th[t].p THEN "setBegin" ELSE "release")
  /\ UNCHANGED <<trace, pairs, alloc, writer, recs, marks>>

\* Threads that still work with pair p.
Behind(t, p) == {u \in Tracer \ {t} : th[u].p = p /\ th[u].at \in {"end", "add", "mark", "cas", "compare"}}

SetBegin(t) ==
  /\ Is(t, "setBegin")
  /\ Prompt => Behind(t, ptr2) = {}
  /\ b' = [b EXCEPT ![ptr2] = th[t].end]
  /\ Go(t, "setEnd")
  /\ UNCHANGED <<trace, e, ptr, ptr2, alloc, writer, recs, marks>>

SetEnd(t) ==
  /\ Is(t, "setEnd")
  /\ e' = [e EXCEPT ![ptr2] = th[t].end + C]
  /\ Go(t, "swap")
  /\ UNCHANGED <<trace, b, ptr, ptr2, alloc, writer, recs, marks>>

Swap(t) ==
  /\ Is(t, "swap")
  /\ ptr' = ptr2 /\ ptr2' = ptr
  /\ Go(t, "release")
  /\ UNCHANGED <<trace, b, e, alloc, writer, recs, marks>>

\* fault: _alloc stays taken when there was nothing to swap
ReleaseKept(t) ==
  /\ Is(t, "release")
  /\ alloc' = IF ptr = th[t].p THEN 0 ELSE alloc
  /\ Go(t, "fetch")
  /\ UNCHANGED <<trace, pairs, writer, recs, marks>>

Release(t) ==
  /\ Is(t, "release")
  /\ alloc' = 0
  /\ Go(t, "fetch")
  /\ UNCHANGED <<trace, pairs, writer, recs, marks>>

-----------------------------------------------------------------------------
(* start, stop, destroy: no step of one runs between two of another. *)

metaOpr == \E o \in Oper : op[o] # "idle"

\* _reset, with a buffer or without.
Reset(buf) ==
  /\ buffer' = buf
  /\ b' = [p \in 1 .. 2 |-> 0] /\ e' = [p \in 1 .. 2 |-> C] /\ ptr' = 1 /\ ptr2' = 2
  /\ recs' = {} /\ marks' = {}

\* start: nothing it does before it sets _traceStarted can be seen.  malloc may fail.
start(o) ==
  /\ ~metaOpr /\ starts < MaxStart /\ starts' = starts + 1
  /\ ~started
  /\ \/ Reset(starts + 1) /\ started' = TRUE
     \/ Reset(0) /\ UNCHANGED started
  /\ UNCHANGED <<alloc, writer, th, op>>

\* stop and destroy up to the wait for the writers.
stop(o, kind) ==
  /\ ~metaOpr /\ started
  /\ started' = FALSE
  /\ op' = [op EXCEPT ![o] = kind]
  /\ UNCHANGED <<buffer, pairs, alloc, writer, recs, marks, th, starts>>

Stopped(o) ==
  /\ op[o] # "idle" /\ writer = 0
  /\ op' = [op EXCEPT ![o] = "idle"]
  /\ \/ op[o] = "stop" /\ UNCHANGED <<buffer, pairs, recs, marks>>
     \/ op[o] = "destroy" /\ Reset(0)
  /\ UNCHANGED <<started, alloc, writer, th, starts>>

\* destroy of a trace that is stopped.
destroy(o) ==
  /\ ~metaOpr /\ ~started /\ buffer # 0
  /\ Reset(0)
  /\ UNCHANGED <<started, alloc, writer, th, op, starts>>

-----------------------------------------------------------------------------
TraceStep(t) == \/ startWrite(t) \/ DoubleCheck(t) \/ Fetch(t) \/ ReadEnd(t) \/ Add(t) \/ Mark(t)
                \/ Cas(t) \/ Wait(t) \/ Compare(t) \/ SetBegin(t) \/ SetEnd(t) \/ Swap(t)
                \/ Release(t) \/ Fill(t) \/ finishWrite(t)

TraceNext == \/ \E t \in Tracer : EnterTrace(t) \/ TraceStep(t)
             \/ \E o \in Oper : start(o) \/ stop(o, "stop") \/ stop(o, "destroy") \/ Stopped(o) \/ destroy(o)

\* The threads go on, and stop looks at _currentWriter every millisecond.
TraceSpec == /\ TraceInit /\ [][TraceNext]_traceVars
             /\ \A t \in Tracer : WF_traceVars(TraceStep(t))
             /\ \A o \in Oper : SF_traceVars(Stopped(o))

-----------------------------------------------------------------------------
(* Properties *)

Reserving == {t \in Tracer : th[t].at \in {"fetch", "end", "add", "mark", "cas", "wait", "compare",
                                           "setBegin", "setEnd", "swap", "release"}}
Writing == Reserving \cup {t \in Tracer : Is(t, "fill")}

\* Variables keep their types, and _currentWriter counts the threads between
\* startWrite and finishWrite.
TraceTypeOK ==
  /\ started \in BOOLEAN /\ buffer \in 0 .. MaxStart
  /\ b \in [1 .. 2 -> Nat] /\ e \in [1 .. 2 -> Nat] /\ {ptr, ptr2} = 1 .. 2
  /\ alloc \in {0, 1}
  /\ writer = Cardinality({t \in Tracer : th[t].at \in {"check", "finish"}} \cup Writing)
  /\ \A t \in Tracer : th[t].p \in 1 .. 2

\* stop, destroy and start: a thread that passed the second look at
\* _traceStarted writes into the buffer of that moment: it is not freed or
\* replaced before the thread is done.
BufferLive == \A t \in Writing : buffer # 0 /\ buffer = th[t].buf

\* stop and destroy: once they are done nobody writes, so that dump and _reset
\* ("Alloc must be zero") see a buffer at rest.
RestAfterStop == ~started /\ ~metaOpr => Writing = {} /\ alloc = 0

Bytes(x) == x.pos .. x.pos + x.size - 1

\* reserveMemory: no two records get the same bytes of the trace ("Each log
\* record start from one slot, and may sit in one slot or cross multiple slots").
RecordsApart == \A x, y \in recs : x # y => Bytes(x) \cap Bytes(y) = {}

\* reserveMemory: a record lies in one chunk, as the parser, which reads chunk
\* by chunk, expects.
InChunk == \A x \in recs : x.pos \div C = (x.pos + x.size - 1) \div C

\* The bytes of records, or behind a 0.
Known(k) == (UNION {Bytes(x) : x \in recs})
              \cup (UNION {m .. (k + 1) * C - 1 : m \in {x \in marks : x \div C = k}})

\* reserveMemory: when the trace has stopped, every chunk but the last is full
\* of records, up to a 0: the parser meets no bytes left over in between.
Tiled == ~started /\ ~metaOpr =>
           \A k \in 0 .. e[ptr] \div C - 2 : k * C .. (k + 1) * C - 1 \subseteq Known(k)

\* The buffer is sound: whole records side by side, written by threads that
\* stop and destroy wait for.
BufferSound == TraceTypeOK /\ BufferLive /\ RestAfterStop /\ RecordsApart /\ InChunk /\ Tiled

\* pdTraceFunc, stop, destroy: tracing a call ends, and so does a stop.
TraceEnds == /\ \A t \in Tracer : ~Is(t, "idle") ~> Is(t, "idle")
             /\ \A o \in Oper : op[o] # "idle" ~> op[o] = "idle"
=============================================================================
