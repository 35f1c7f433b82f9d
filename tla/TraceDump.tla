------------------------------ MODULE TraceDump ------------------------------
(***************************************************************************)
(* What is left of a trace: the records in the buffer, which wraps, the    *)
(* dump of the buffer (pd/pdTrace.cpp, pdTraceHeader) and the parser that  *)
(* reads the dump (pd/pdTraceAnalysis.cpp).                                *)
(*                                                                         *)
(* Positions are given out one after the other here; that threads get them *)
(* without disturbing each other is the subject of TraceBuffer.  A cell of *)
(* the buffer is the start of a record, a byte inside one, or a 0.  The    *)
(* memory of a new trace may hold anything, also an older trace.           *)
(***************************************************************************)
EXTENDS Integers, Sequences, SequencesExt

CONSTANTS C,        \* TRACE_CHUNK_SIZE
          Size,     \* _size, a multiple of C
          Sizes,    \* sizes of records
          MaxPos,   \* bound: records begin below
          MaxTrace  \* bound: traces

DumpAssumption ==
  /\ C \in Nat \ {0} /\ Size \in Nat \ {0} /\ Size % C = 0
  /\ Sizes \subseteq 1 .. C /\ MaxPos \in Nat /\ MaxTrace \in Nat

VARIABLES
  mem,      \* _pBuffer
  b, e,     \* the current pair
  recs,     \* the records of this trace, in order, with their positions
  found,    \* what the parser makes of the dump
  phase,    \* "on", "stopped" or "dumped"
  traces

vars == <<mem, b, e, recs, found, phase, traces>>

Zero == [id |-> 0, size |-> 0]
Body == [id |-> -1, size |-> 0]

Init ==
  /\ mem = [i \in 0 .. Size - 1 |-> Body]
  /\ b = 0 /\ e = C /\ recs = <<>> /\ found = <<>> /\ phase = "on" /\ traces = 1

-----------------------------------------------------------------------------

\* A record of s bytes does not fit: the rest of the chunk is given up.
Padded(s) == IF b + s > e /\ b < e THEN [mem EXCEPT ![b % Size] = Zero] ELSE mem

Position(s) == IF b + s > e THEN e ELSE b

End(s) == IF b + s > e THEN e + C ELSE e

Write(s) ==
  LET pos == Position(s)
      id == 100 * traces + Len(recs) + 1 IN
  /\ phase = "on" /\ b < MaxPos
  /\ mem' = [i \in 0 .. Size - 1 |->
               IF i = pos % Size THEN [id |-> id, size |-> s]
               ELSE IF i \in (pos % Size) + 1 .. (pos % Size) + s - 1 THEN Body
               ELSE Padded(s)[i]]
  /\ recs' = Append(recs, [id |-> id, pos |-> pos])
  /\ b' = pos + s
  /\ e' = End(s)
  /\ UNCHANGED <<found, phase, traces>>

stop ==
  /\ phase = "on"
  /\ phase' = "stopped"
  /\ UNCHANGED <<mem, b, e, recs, found, traces>>

\* start: the buffer of the old trace may come back from malloc.
start ==
  /\ phase # "on" /\ traces < MaxTrace
  /\ \/ UNCHANGED mem
     \/ mem' = [i \in 0 .. Size - 1 |-> Body]
  /\ b' = 0 /\ e' = C /\ recs' = <<>> /\ found' = <<>> /\ phase' = "on"
  /\ traces' = traces + 1

-----------------------------------------------------------------------------
RoundUp(n) == ((n + C - 1) \div C) * C

\* fault: the oldest chunk is the one being written
savePositionDown(current) ==
  IF current > Size
  THEN [size |-> Size, header |-> ((current \div C) * C) % Size, tail |-> current % Size]
  ELSE [size |-> RoundUp(current % Size), header |-> 0, tail |-> current % Size]

savePosition(current) ==
  IF current > Size
  THEN [size |-> Size, header |-> RoundUp(current) % Size, tail |-> current % Size]
  ELSE [size |-> RoundUp(current % Size), header |-> 0, tail |-> current % Size]

\* A 0 behind the last record, in the buffer; the file is the header and the
\* first bytes of the buffer.
Closed(h) == IF h.tail % C # 0 THEN [mem EXCEPT ![h.tail] = Zero] ELSE mem

\* The records of the chunk at position cursor of the file.
ParseChunk(file, h, cursor) ==
  LET walk[o \in 0 .. 2 * C] ==
        IF o >= C \/ cursor + o = h.tail THEN <<>>
        ELSE IF file[cursor + o].id <= 0 THEN <<>>
        ELSE <<file[cursor + o].id>> \o walk[o + file[cursor + o].size]
  IN walk[0]

\* _parseTraceDumpFile: the chunks from the header on, round the end of the file.
Parsed(file, h) ==
  FlattenSeq([i \in 1 .. h.size \div C |-> ParseChunk(file, h, (h.header + (i - 1) * C) % h.size)])

dump ==
  LET h == savePosition(b) IN
  /\ phase # "on"
  /\ phase' = "dumped"
  /\ mem' = Closed(h)
  /\ found' = Parsed(mem', h)
  /\ UNCHANGED <<b, e, recs, traces>>

Next == (\E s \in Sizes : Write(s)) \/ stop \/ start \/ dump

Spec == Init /\ [][Next]_vars

-----------------------------------------------------------------------------
(* Properties *)

\* Variables keep their types; the position is in the current chunk.
TypeOK ==
  /\ mem \in [0 .. Size - 1 -> [id : Int, size : {0} \cup Sizes]]
  /\ b \in Nat /\ e % C = 0 /\ e - C <= b /\ b <= e
  /\ phase \in {"on", "stopped", "dumped"} /\ traces \in 1 .. MaxTrace

\* The records that begin at position from or later, in order.
Since(from) == LET later == SelectSeq(recs, LAMBDA r : r.pos >= from)
               IN [i \in 1 .. Len(later) |-> later[i].id]

\* The oldest position that is still in the buffer, in whole chunks.
Kept == IF b > Size THEN RoundUp(b) - Size ELSE 0

\* dump and _parseTraceDumpFile: what is found are records of this trace, the
\* last ones, none missing between them, none twice, and none of an older trace
\* or an older round of the buffer.
DumpSound == phase = "dumped" => IsSuffix(found, Since(Kept))

\* The same: everything that is still in the buffer is found, unless the last
\* record ended exactly with a chunk of a buffer that is full or has wrapped.
DumpComplete == phase = "dumped" /\ (b % C # 0 \/ b < Size) => found = Since(Kept)
=============================================================================
