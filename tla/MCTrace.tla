------------------------------ MODULE MCTrace -------------------------------
(***************************************************************************)
(* Tracing: the buffer that threads write without a latch, and what the    *)
(* parser finds in its dump.  A behaviour is of one part: starts and stops *)
(* of two threads beside short traces (buffer), a trace long enough that   *)
(* a pair serves a second chunk (long), progress with threads that may     *)
(* sleep anywhere (live), and the dump (dump).                             *)
(***************************************************************************)
EXTENDS TraceBuffer

CONSTANTS t1, t2, o1, o2

VARIABLES part, mem, at, end, written, found, phase, traces

MCTracer == {t1, t2}
MCOper == {o1, o2}
MCSizes == {1, 2}

Long == INSTANCE TraceBuffer WITH MaxPos <- 5, MaxStart <- 1
Live == INSTANCE TraceBuffer WITH MaxPos <- 3, MaxStart <- 1, Prompt <- FALSE

(* Two chunks of four bytes, written almost twice over, and a second trace *)
(* in the memory of the first.                                             *)
Dump == INSTANCE TraceDump WITH
          C <- 4, Size <- 8, Sizes <- {1, 2, 4}, MaxPos <- 15, MaxTrace <- 2,
          b <- at, e <- end, recs <- written

ASSUME Long!TraceAssumption /\ Live!TraceAssumption /\ Dump!DumpAssumption

bufferVars == <<started, buffer, b, e, ptr, ptr2, alloc, writer, recs, marks, th, op, starts>>
dumpVars == <<mem, at, end, written, found, phase, traces>>

MCInit ==
  /\ Dump!Init
  /\ \/ part \in {"buffer", "dump"} /\ TraceInit
     \/ part \in {"long", "live"} /\ Long!TraceInit

MCNext ==
  \/ part = "buffer" /\ TraceNext /\ UNCHANGED <<part, dumpVars>>
  \/ part = "long" /\ Long!TraceNext /\ op'[o2] = "idle" /\ UNCHANGED <<part, dumpVars>>
  \/ part = "live" /\ Live!TraceNext /\ op'[o2] = "idle" /\ UNCHANGED <<part, dumpVars>>
  \/ part = "dump" /\ Dump!Next /\ UNCHANGED <<part, bufferVars>>

(* The threads go on, and stop looks at _currentWriter every millisecond. *)
MCSpec ==
  /\ MCInit /\ [][MCNext]_<<part, bufferVars, dumpVars>>
  /\ \A t \in Tracer : WF_bufferVars(part = "live" /\ Live!TraceStep(t))
  /\ \A o \in Oper : SF_bufferVars(part = "live" /\ Live!Stopped(o))

(* dump and _parseTraceDumpFile: what the parser finds is what is left of  *)
(* the trace.                                                              *)
DumpExact == part = "dump" => Dump!TypeOK /\ Dump!DumpSound /\ Dump!DumpComplete

(* TraceEnds: a traced call and a stop end, whatever the other threads do. *)
CallsEnd == part = "live" => Live!TraceEnds
=============================================================================
