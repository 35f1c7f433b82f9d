------------------------------ MODULE NetReader ------------------------------
(***************************************************************************)
(* The receiving side of _netEventHandler: how the bytes of a TCP stream   *)
(* are cut into messages.  Without a parser a header is read and then the  *)
(* body it announces; with one (stream mode) whatever has come is read     *)
(* into the buffer and the parser says when a message is complete.         *)
(*                                                                         *)
(* A message is its kind and its length; the bytes themselves are only     *)
(* positions in the stream, so that a read that starts in the middle of a  *)
(* message is seen to do so.                                               *)
(***************************************************************************)
EXTENDS Naturals, Sequences

CONSTANTS SysLen,       \* sizeof( MsgSysInfoRequest )
          HeaderLen,    \* sizeof( _MsgHeader )
          MaxLen,       \* SDB_MAX_MSG_LENGTH, and getLen() of the parser
          Peers,        \* the peers, with what they send
          NoMemoryLeft  \* may a buffer be refused?

Kinds == {"sysinfo", "message"}
Illegal(m) == m.kind = "message" /\ (m.len < HeaderLen \/ m.len > MaxLen)

\* A peer that announces an illegal length still sends a header.
Size(m) == CASE m.kind = "sysinfo" -> SysLen
             [] Illegal(m) -> HeaderLen
             [] OTHER -> m.len

\* A peer: its messages, where in the stream each begins and the last one ends,
\* whether it talks to a frame with a parser, and whether it waits for the answer
\* before it sends again.  A request for system information comes first.
IsPeer(p) ==
  /\ p \in [msgs : Seq([kind : Kinds, len : Nat]), begin : Seq(Nat),
            parser : BOOLEAN, waits : BOOLEAN]
  /\ Len(p.begin) = Len(p.msgs) + 1 /\ p.begin[1] = 0
  /\ \A i \in 1..Len(p.msgs) : p.begin[i + 1] = p.begin[i] + Size(p.msgs[i])
  /\ \A i \in 2..Len(p.msgs) : p.msgs[i].kind = "message"

ASSUME ReaderAssumption ==
  /\ SysLen \in Nat /\ HeaderLen \in Nat /\ MaxLen \in Nat
  /\ 0 < SysLen /\ SysLen < HeaderLen /\ HeaderLen <= MaxLen
  /\ \A p \in Peers : IsPeer(p)
  /\ NoMemoryLeft \in BOOLEAN

VARIABLES peer,         \* who is connected
          pos,          \* bytes taken out of the socket
          state,        \* _state
          hasRecvMsg,   \* _hasRecvMsg
          linked,       \* _linked
          reading,      \* bytes the pending read waits for; 0: no read
          headerAt,     \* where in the stream the bytes in _header begin
          bufLen,       \* _bufLen
          dataRecvd,    \* _dataRecvd
          bufAt,        \* where in the stream the bytes in _buf begin
          most,         \* the most _dataRecvd a callback has met
          out,          \* messages handled: where they began, and their length
          timedOut,     \* the connection timed out: no byte comes any more
          ended         \* handleClose was called

readerVars == <<peer, pos, state, hasRecvMsg, linked, reading, headerAt, bufLen,
                dataRecvd, bufAt, most, out, timedOut, ended>>

-----------------------------------------------------------------------------
(* The stream *)

input == peer.msgs

\* Where message i begins.
Begin(i) == peer.begin[i]

Total == Begin(Len(input) + 1)

Boundary(p) == \E i \in DOMAIN input : Begin(i) = p

\* The message that begins at p.
MessageAt(p) == input[CHOOSE i \in DOMAIN input : Begin(i) = p]

\* How far the peer has sent.
Sent == IF peer.waits /\ Len(out) < Len(input) THEN Begin(Len(out) + 2) ELSE Total

-----------------------------------------------------------------------------
(* asyncRead *)

\* What the pending read waits for in state st.
Wanted(st, has, at) == CASE st = "HEADER_LAST" -> HeaderLen - SysLen
                         [] st = "HEADER" /\ ~has -> SysLen
                         [] st = "HEADER" /\ has -> HeaderLen
                         [] st = "BODY" -> MessageAt(at).len - HeaderLen

\* _allocateBuf: the buffer only grows.
Buffer(len) == IF bufLen < len THEN len ELSE bufLen

\* error_close, and the error label of asyncRead.
ErrorEnd == /\ linked' = FALSE /\ ended' = TRUE /\ reading' = 0

\* In state st a read is started, unless the handler was closed.
AsyncRead(st, has, at) == IF linked
                          THEN /\ reading' = Wanted(st, has, at)
                               /\ UNCHANGED <<linked, ended>>
                          ELSE ErrorEnd

ReaderInit ==
  /\ peer \in Peers
  /\ pos = 0 /\ headerAt = 0 /\ bufAt = 0 /\ dataRecvd = 0 /\ most = 0
  /\ state = IF peer.parser THEN "STREAM" ELSE "HEADER"
  /\ hasRecvMsg = FALSE /\ linked = TRUE
  /\ reading = IF peer.parser THEN MaxLen ELSE SysLen
  /\ bufLen = IF peer.parser THEN MaxLen ELSE 0
  /\ out = << >> /\ timedOut = FALSE /\ ended = FALSE

Deliver(p, n) == out' = Append(out, [at |-> p, len |-> n])

-----------------------------------------------------------------------------
(* _readCallback without an error *)

\* The bytes the read waited for have come.
Completes == /\ state # "STREAM" /\ reading > 0 /\ ~timedOut
             /\ pos + reading <= Sent
             /\ pos' = pos + reading
             /\ UNCHANGED <<peer, timedOut, dataRecvd, most>>

NextHeader == state' = "HEADER" /\ headerAt' = pos'

\* A system information request: handled whole, as the first message only.
SysInfo == /\ state = "HEADER" /\ Completes
           /\ Boundary(headerAt) /\ MessageAt(headerAt).kind = "sysinfo"
           /\ bufLen' = Buffer(SysLen) /\ bufAt' = headerAt
           /\ hasRecvMsg' = TRUE
           /\ Deliver(headerAt, pos' - headerAt)
           /\ NextHeader
           /\ AsyncRead("HEADER", TRUE, pos')

\* A length that cannot be, or bytes that are no header.
BadHeader == /\ state = "HEADER" /\ Completes
             /\ ~Boundary(headerAt) \/ Illegal(MessageAt(headerAt))
             /\ ErrorEnd
             /\ UNCHANGED <<state, hasRecvMsg, headerAt, bufLen, bufAt, out>>

GoodHeader == /\ state = "HEADER" /\ Completes
              /\ Boundary(headerAt) /\ MessageAt(headerAt).kind = "message"
              /\ ~Illegal(MessageAt(headerAt))

\* The first 12 bytes are those of a message: the rest of its header is read in
\* state HEADER_LAST, and the state set back before the callback can come.
FirstHeader == /\ GoodHeader /\ ~hasRecvMsg
               /\ hasRecvMsg' = TRUE
               /\ AsyncRead("HEADER_LAST", TRUE, headerAt)
               /\ UNCHANGED <<state, headerAt, bufLen, bufAt, out>>

\* A message that is only a header is handled.
HeaderOnly == /\ GoodHeader /\ hasRecvMsg
              /\ MessageAt(headerAt).len = HeaderLen
              /\ bufLen' = Buffer(HeaderLen) /\ bufAt' = headerAt
              /\ Deliver(headerAt, pos' - headerAt)
              /\ NextHeader
              /\ AsyncRead("HEADER", TRUE, pos')
              /\ UNCHANGED hasRecvMsg

\* A buffer for the message, the header into it, and the body is read.
HeaderThenBody == /\ GoodHeader /\ hasRecvMsg
                  /\ MessageAt(headerAt).len > HeaderLen
                  /\ bufLen' = Buffer(MessageAt(headerAt).len) /\ bufAt' = headerAt
                  /\ state' = "BODY"
                  /\ AsyncRead("BODY", TRUE, headerAt)
                  /\ UNCHANGED <<hasRecvMsg, headerAt, out>>

\* Whatever comes in another state than HEADER is taken for a body.
Body == /\ state # "HEADER" /\ Completes
        /\ Deliver(bufAt, pos' - bufAt)
        /\ NextHeader
        /\ AsyncRead("HEADER", TRUE, pos')
        /\ UNCHANGED <<hasRecvMsg, bufLen, bufAt>>

ReadCallback == SysInfo \/ BadHeader \/ FirstHeader \/ HeaderOnly \/ HeaderThenBody \/ Body

-----------------------------------------------------------------------------
(* _streamReadCallback without an error *)

\* push and get: the buffer holds n bytes, a whole message among them.
MessageEnds(n) == Boundary(bufAt) /\ n >= Size(MessageAt(bufAt))

\* fault: the buffer is not emptied behind the message
AfterChunkKept(n) == /\ IF MessageEnds(n) THEN Deliver(bufAt, Size(MessageAt(bufAt)))
                                          ELSE UNCHANGED out
                     /\ dataRecvd' = n
                     /\ UNCHANGED bufAt

\* A complete message is handled and the buffer emptied, with whatever else is
\* in it.
AfterChunk(n) == IF MessageEnds(n)
                 THEN /\ Deliver(bufAt, Size(MessageAt(bufAt)))
                      /\ dataRecvd' = 0 /\ bufAt' = pos'
                 ELSE dataRecvd' = n /\ UNCHANGED <<bufAt, out>>

StreamReadCallback ==
  /\ state = "STREAM" /\ reading > 0 /\ ~timedOut
  /\ \E n \in 1..reading :
       /\ pos + n <= Sent
       /\ pos' = pos + n
       /\ most' = IF most < dataRecvd + n THEN dataRecvd + n ELSE most
       /\ AfterChunk(dataRecvd + n)
  /\ IF linked THEN /\ reading' = bufLen - dataRecvd'
                    /\ UNCHANGED <<linked, ended>>
               ELSE ErrorEnd
  /\ UNCHANGED <<peer, timedOut, state, hasRecvMsg, headerAt, bufLen>>

-----------------------------------------------------------------------------
(* Errors and other threads *)

\* ETIMEDOUT: the read is started again, and no byte follows.
TimedOut == /\ reading > 0 /\ ~timedOut
            /\ timedOut' = TRUE
            /\ IF state = "STREAM" THEN UNCHANGED <<linked, ended, reading>>
                                   ELSE AsyncRead(state, hasRecvMsg, headerAt)
            /\ UNCHANGED <<peer, pos, state, hasRecvMsg, headerAt, bufLen, dataRecvd,
                           bufAt, most, out>>

\* Any other error of a read.
ReadError == /\ reading > 0
             /\ timedOut \/ ~linked \/ pos + reading > Total
             /\ ErrorEnd
             /\ UNCHANGED <<peer, pos, state, hasRecvMsg, headerAt, bufLen, dataRecvd,
                            bufAt, most, out, timedOut>>

\* A buffer is refused when a header has come, or before the first chunk.
NoBuffer == /\ NoMemoryLeft /\ reading > 0
            /\ state = "HEADER" \/ (state = "STREAM" /\ pos = 0)
            /\ ErrorEnd
            /\ UNCHANGED <<peer, pos, state, hasRecvMsg, headerAt, bufLen, dataRecvd,
                           bufAt, most, out, timedOut>>

\* The application, a failed send or a broken message closes the handler; a
\* read that has its bytes still completes.
CloseLink == /\ linked
             /\ linked' = FALSE
             /\ UNCHANGED <<peer, pos, state, hasRecvMsg, reading, headerAt, bufLen,
                            dataRecvd, bufAt, most, out, timedOut, ended>>

-----------------------------------------------------------------------------
ReaderNext == ReadCallback \/ StreamReadCallback \/ TimedOut \/ ReadError \/ NoBuffer \/ CloseLink

\* The I/O service completes a read whose bytes have come, and reports the error
\* of one whose bytes will not come.
ReaderFairness == /\ WF_readerVars(ReadCallback) /\ WF_readerVars(StreamReadCallback)
                  /\ WF_readerVars(ReadError)

ReaderSpec == ReaderInit /\ [][ReaderNext]_readerVars /\ ReaderFairness

-----------------------------------------------------------------------------
(* Properties *)

\* The reader's fields hold what they may hold.
ReaderTypeOK ==
  /\ peer \in Peers /\ pos \in 0..Total
  /\ state \in {"HEADER", "BODY", "STREAM"}
  /\ hasRecvMsg \in BOOLEAN /\ linked \in BOOLEAN
  /\ reading \in 0..MaxLen /\ bufLen \in 0..MaxLen
  /\ headerAt \in 0..Total /\ bufAt \in 0..Total
  /\ dataRecvd \in 0..MaxLen /\ most \in 0..MaxLen
  /\ out \in Seq([at : 0..Total, len : 0..Total])
  /\ timedOut \in BOOLEAN /\ ended \in BOOLEAN

\* _readCallback and _streamReadCallback: what is handed on are the messages
\* the peer sent, each whole and in their order, however the stream is cut,
\* closed or timed out.
FramesExact == /\ Len(out) <= Len(input)
               /\ \A i \in DOMAIN out : /\ out[i].at = Begin(i)
                                        /\ out[i].len = Size(input[i])
                                        /\ ~Illegal(input[i])

\* _allocateBuf before the body is read: the buffer has room for the header and
\* for every byte the read may bring.
BodyFits == (state = "BODY" /\ reading > 0) => bufLen >= HeaderLen + reading

\* _streamReadCallback: SDB_ASSERT( _dataRecvd < _bufLen, "received msg of unexpected length" ).
LengthExpected == state = "STREAM" => most < bufLen

\* Every byte a read callback hands on is the one the peer sent there, and none
\* was written behind the end of the buffer.
ReaderSound == ReaderTypeOK /\ FramesExact /\ BodyFits /\ LengthExpected

\* _readCallback: everything the peer sent is handled, unless the connection
\* ends.
AllHandled == <>(ended \/ Len(out) = Len(input))

\* close and the error labels: of a connection that is closed, by whoever, the
\* handler is told.
ClosedEnds == ~linked ~> ended
==============================================================================
