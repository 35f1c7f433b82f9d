----------------------------- MODULE AnswerBuffer -----------------------------
(***************************************************************************)
(* How nova -s prints an answer (enterFrontEndMode, programs/nova/         *)
(* nova.cpp).  The answer comes byte by byte and ends with a blank and the *)
(* error number, which is not to be printed but becomes the exit code.  As *)
(* nobody knows where the end is, two buffers are filled in turn, and one  *)
(* is printed only when the other one is full.                             *)
(***************************************************************************)
EXTENDS Integers, Sequences, FiniteSets, FiniteSetsExt

CONSTANTS Cap,    \* SDB_FRONTEND_RECEIVEBUFFERSIZE - 1
          Char,   \* bytes of an answer
          Space,
          MaxLen  \* bound: the length of an answer

BufferAssumption == Cap \in Nat \ {0} /\ Space \in Char /\ MaxLen \in Nat

VARIABLES buf,     \* receiveBuffer1 and receiveBuffer2
          cur,     \* the one pCurrentReceivePtr points into
          printed,
          got,     \* all bytes that came
          code,    \* the bytes retCode is made of
          done

vars == <<buf, cur, printed, got, code, done>>

Init == /\ buf = [b \in 1 .. 2 |-> <<>>] /\ cur = 1
        /\ printed = <<>> /\ got = <<>> /\ code = <<>> /\ done = FALSE

other == 3 - cur

\* The buffer that is printed to make room.
Dumped == buf[other]

Receive(c) ==
  /\ ~done /\ Len(got) < MaxLen
  /\ got' = Append(got, c)
  /\ \/ /\ Len(buf[cur]) < Cap
        /\ buf' = [buf EXCEPT ![cur] = Append(@, c)]
        /\ UNCHANGED <<cur, printed>>
     \/ /\ Len(buf[cur]) = Cap
        /\ printed' = printed \o Dumped
        /\ buf' = [buf EXCEPT ![other] = <<c>>]
        /\ cur' = other
  /\ UNCHANGED <<code, done>>

\* receiveBufferFinal: the buffer filled before, and the one being filled.
final == buf[other] \o buf[cur]

\* The end of the answer: what stands before the last blank is printed.
Eof ==
  LET blanks == {i \in 1 .. Len(final) : final[i] = Space}
      last == IF blanks = {} THEN 1 ELSE Max(blanks) IN
  /\ ~done /\ done' = TRUE
  /\ printed' = printed \o SubSeq(final, 1, last - 1)
  /\ code' = IF blanks = {} THEN <<>> ELSE SubSeq(final, last + 1, Len(final))
  /\ UNCHANGED <<buf, cur, got>>

Next == (\E c \in Char : Receive(c)) \/ Eof

Spec == Init /\ [][Next]_vars

-----------------------------------------------------------------------------
(* Properties *)

\* Variables keep their types; until the end every byte is printed or held in
\* one of the buffers, in the order the bytes came.
TypeOK ==
  /\ \A b \in 1 .. 2 : Len(buf[b]) <= Cap
  /\ ~done => printed \o buf[other] \o buf[cur] = got

Blanks == {i \in 1 .. Len(got) : got[i] = Space}

\* enterFrontEndMode ("we should NOT dump buffer 1 at the moment since we need to
\* extract the rc at the end"): of an answer that ends with a blank and a number
\* the number becomes the exit code and all before the blank is printed, however
\* the two lie in the buffers.
Split ==
  done /\ Blanks # {} /\ Len(got) - Max(Blanks) <= Cap =>
    /\ printed = SubSeq(got, 1, Max(Blanks) - 1)
    /\ code = SubSeq(got, Max(Blanks) + 1, Len(got))
=============================================================================
