------------------------------ MODULE NetHandle ------------------------------
(***************************************************************************)
(* The connections of _netFrame: the maps _opposite and _route, the event  *)
(* handlers in them, and how they come and go.  Sender threads look a      *)
(* handler up or create it (_getHandle), connect it (syncConnect) and send *)
(* (syncSendBuf); the I/O thread accepts, reads and erases; applications   *)
(* close.                                                                  *)
(*                                                                         *)
(* _mtx is held only within a step.  A handler's own mutex is held by a    *)
(* sender across its connect.  The flags of a handler are read and written *)
(* without it by the I/O thread and by close.                              *)
(***************************************************************************)
EXTENDS Naturals, FiniteSets, Sequences, SequencesExt

CONSTANTS Senders,      \* threads that send
          Nodes,        \* route IDs of other nodes
          MaxHandles,   \* bound: event handlers allocated, then memory is out
          CloseNew,     \* may the application close a handler not yet connected?
          OutOfMemory   \* may the stream buffer of a handler be refused?

Handles == 1..MaxHandles
NoHandle == 0
NoNode == "invalid"    \* MSG_INVALID_ROUTEID
Free == "free"

ASSUME HandleAssumption == /\ Free \notin Senders /\ NoNode \notin Nodes
                           /\ MaxHandles \in Nat
                           /\ CloseNew \in BOOLEAN /\ OutOfMemory \in BOOLEAN

VARIABLES opposite,   \* the handles in _opposite
          route,      \* node -> its handles in _route, in the order of insertion
          next,       \* the next handle
          id,         \* handle -> _id
          isConnected, isNew,
          sock,       \* handle -> "none" (not open), "up" or "down" (shut or reset)
          reads,      \* handle -> asynchronous reads that are under way
          mtx,        \* handle -> the sender that holds its mutex, or Free
          dialled,    \* handles that _getHandle created
          closes,     \* handle -> calls of handleClose
          pc, node, eh,  \* of every sender: where it is, its target, its handler
          io          \* of the I/O thread: what it does, and with which handle

flags == <<isConnected, isNew, sock>>
maps == <<opposite, route>>
vars == <<opposite, route, next, id, isConnected, isNew, sock, reads, mtx,
          dialled, closes, pc, node, eh, io>>

IOIdle == [do |-> "idle", h |-> NoHandle]

Init == /\ opposite = {} /\ route = [n \in Nodes |-> << >>]
        /\ next = 1
        /\ id = [h \in Handles |-> NoNode]
        /\ isConnected = [h \in Handles |-> FALSE]
        /\ isNew = [h \in Handles |-> TRUE]
        /\ sock = [h \in Handles |-> "none"]
        /\ reads = [h \in Handles |-> 0]
        /\ mtx = [h \in Handles |-> Free]
        /\ dialled = {}
        /\ closes = [h \in Handles |-> 0]
        /\ pc = [t \in Senders |-> "idle"]
        /\ node = [t \in Senders |-> NoNode]
        /\ eh = [t \in Senders |-> NoHandle]
        /\ io = IOIdle

-----------------------------------------------------------------------------
(* Operations on one handler and on the maps *)

\* netEventHandler::close of every handler in hs: only an open socket can be
\* shut down.
CloseHandlers(hs) ==
  /\ sock' = [h \in Handles |-> IF h \in hs /\ sock[h] = "up" THEN "down" ELSE sock[h]]
  /\ isConnected' = [h \in Handles |-> isConnected[h] /\ h \notin hs]
  /\ isNew' = [h \in Handles |-> isNew[h] /\ h \notin hs]

Erase(h) == /\ opposite' = opposite \ {h}
            /\ route' = IF h \in opposite /\ id[h] \in Nodes
                        THEN [route EXCEPT ![id[h]] = RemoveFirst(@, h)]
                        ELSE route

\* The error label of asyncRead and of the read callbacks.
ErrorClose(h) == /\ CloseHandlers(IF isConnected[h] THEN {h} ELSE {})
                 /\ closes' = [closes EXCEPT ![h] = @ + 1]
                 /\ Erase(h)

Goto(t, l) == pc' = [pc EXCEPT ![t] = l]

-----------------------------------------------------------------------------
(* A sender: syncSendBuf *)

Send(t, n) == /\ pc[t] = "idle"
              /\ node' = [node EXCEPT ![t] = n]
              /\ Goto(t, "shared")
              /\ UNCHANGED <<maps, next, id, flags, reads, mtx, dialled, closes, eh, io>>

\* _getHandle under the shared lock: the first handler of the node.
GetShared(t) ==
  /\ pc[t] = "shared"
  /\ LET r == route[node[t]] IN
       IF r # << >> THEN eh' = [eh EXCEPT ![t] = Head(r)] /\ Goto(t, "check")
                    ELSE UNCHANGED eh /\ Goto(t, "exclusive")
  /\ UNCHANGED <<maps, next, id, flags, reads, mtx, dialled, closes, node, io>>

\* A new handler h, in both maps.
Create(t) ==
  /\ next \in Handles
  /\ next' = next + 1
  /\ id' = [id EXCEPT ![next] = node[t]]
  /\ opposite' = opposite \cup {next}
  /\ route' = [route EXCEPT ![node[t]] = Append(@, next)]
  /\ dialled' = dialled \cup {next}
  /\ eh' = [eh EXCEPT ![t] = next]
  /\ Goto(t, "check")

\* fault: the route table is not looked at again under the exclusive lock
GetExclusiveBlind(t) ==
  /\ pc[t] = "exclusive"
  /\ \/ Create(t)
     \/ /\ next \notin Handles
        /\ Goto(t, "idle")
        /\ UNCHANGED <<maps, next, id, dialled, eh>>
  /\ UNCHANGED <<flags, reads, mtx, closes, node, io>>

\* _getHandle under the exclusive lock; without memory it fails.
GetExclusive(t) ==
  /\ pc[t] = "exclusive"
  /\ LET r == route[node[t]] IN
       \/ /\ r # << >>
          /\ eh' = [eh EXCEPT ![t] = Head(r)] /\ Goto(t, "check")
          /\ UNCHANGED <<maps, next, id, dialled>>
       \/ r = << >> /\ Create(t)
       \/ /\ r = << >> /\ next \notin Handles
          /\ Goto(t, "idle")
          /\ UNCHANGED <<maps, next, id, dialled, eh>>
  /\ UNCHANGED <<flags, reads, mtx, closes, node, io>>

\* syncSendBuf looks at isConnected without a lock.
CheckConnected(t) ==
  /\ pc[t] = "check"
  /\ Goto(t, IF isConnected[eh[t]] THEN "send" ELSE "connect")
  /\ UNCHANGED <<maps, next, id, flags, reads, mtx, dialled, closes, node, eh, io>>

\* syncConnect takes the handler's mutex and looks again: connected meanwhile,
\* new, or closed (SDB_NETWORK).
Connect(t) ==
  /\ pc[t] = "connect" /\ mtx[eh[t]] = Free
  /\ IF isConnected[eh[t]] THEN Goto(t, "send") /\ UNCHANGED mtx
     ELSE IF isNew[eh[t]] THEN Goto(t, "dial") /\ mtx' = [mtx EXCEPT ![eh[t]] = t]
     ELSE Goto(t, "idle") /\ UNCHANGED mtx
  /\ UNCHANGED <<maps, next, id, flags, reads, dialled, closes, node, eh, io>>

\* The route is found and the connection made on a socket of its own, which the
\* handler takes over; or one of these fails.
Dial(t) ==
  /\ pc[t] = "dial"
  /\ \/ sock' = [sock EXCEPT ![eh[t]] = "up"] /\ Goto(t, "setOpt")
     \/ UNCHANGED sock /\ Goto(t, "drop")
  /\ UNCHANGED <<maps, next, id, isConnected, isNew, reads, mtx, dialled, closes, node, eh, io>>

SetOpt(t) ==
  /\ pc[t] = "setOpt"
  /\ isConnected' = [isConnected EXCEPT ![eh[t]] = TRUE]
  /\ isNew' = [isNew EXCEPT ![eh[t]] = FALSE]
  /\ Goto(t, "read")
  /\ UNCHANGED <<maps, next, id, sock, reads, mtx, dialled, closes, node, eh, io>>

\* asyncRead on h: a read, or the error label if the handler was closed or the
\* stream buffer is refused.
StartRead(h) ==
  \/ /\ isConnected[h]
     /\ reads' = [reads EXCEPT ![h] = @ + 1]
     /\ UNCHANGED <<maps, flags, closes>>
  \/ /\ ~isConnected[h] \/ OutOfMemory
     /\ ErrorClose(h)
     /\ UNCHANGED reads

\* The first read, the release of the mutex and handleConnect.
FirstRead(t) ==
  /\ pc[t] = "read"
  /\ StartRead(eh[t])
  /\ mtx' = [mtx EXCEPT ![eh[t]] = Free]
  /\ Goto(t, "send")
  /\ UNCHANGED <<next, id, dialled, node, eh, io>>

\* The connection failed: close, erase, release.
Drop(t) ==
  /\ pc[t] = "drop"
  /\ CloseHandlers({eh[t]})
  /\ Erase(eh[t])
  /\ mtx' = [mtx EXCEPT ![eh[t]] = Free]
  /\ Goto(t, "idle")
  /\ UNCHANGED <<next, id, reads, dialled, closes, node, eh, io>>

\* The message is sent under the handler's mutex, or fails.
SyncSend(t) ==
  /\ pc[t] = "send" /\ mtx[eh[t]] = Free
  /\ \/ sock[eh[t]] = "up" /\ Goto(t, "idle")
     \/ Goto(t, "close")
  /\ UNCHANGED <<maps, next, id, flags, reads, mtx, dialled, closes, node, eh, io>>

\* A failed send closes the handler; its read will erase it.
SendFails(t) ==
  /\ pc[t] = "close"
  /\ CloseHandlers({eh[t]})
  /\ Goto(t, "idle")
  /\ UNCHANGED <<maps, next, id, reads, mtx, dialled, closes, node, eh, io>>

-----------------------------------------------------------------------------
(* The I/O thread *)

\* A connection is accepted: setOpt, asyncRead, and only then the map.
Accept ==
  /\ io = IOIdle /\ next \in Handles
  /\ next' = next + 1
  /\ opposite' = opposite \cup {next}
  /\ isNew' = [isNew EXCEPT ![next] = FALSE]
  /\ \/ /\ sock' = [sock EXCEPT ![next] = "up"]
        /\ isConnected' = [isConnected EXCEPT ![next] = TRUE]
        /\ reads' = [reads EXCEPT ![next] = 1]
        /\ UNCHANGED closes
     \/ /\ OutOfMemory
        /\ sock' = [sock EXCEPT ![next] = "down"]
        /\ closes' = [closes EXCEPT ![next] = 1]
        /\ UNCHANGED <<isConnected, reads>>
  /\ UNCHANGED <<route, id, mtx, dialled, pc, node, eh, io>>

\* A read ends with a message, even one that came before a close, or with a
\* time-out.  The first message tells the node
\* of an accepted handler, which then joins the route table; a message that
\* handleMsg finds broken closes the handler.
ReadDone(h) ==
  /\ io = IOIdle /\ reads[h] > 0
  /\ reads' = [reads EXCEPT ![h] = @ - 1]
  /\ io' = [do |-> "read", h |-> h]
  /\ \/ UNCHANGED <<route, id, flags>>
     \/ \E n \in Nodes : /\ id[h] = NoNode
                         /\ id' = [id EXCEPT ![h] = n]
                         /\ route' = [route EXCEPT ![n] = Append(@, h)]
                         /\ UNCHANGED flags
     \/ CloseHandlers({h}) /\ UNCHANGED <<route, id>>
  /\ UNCHANGED <<opposite, next, mtx, dialled, closes, pc, node, eh>>

ReadAgain ==
  /\ io.do = "read"
  /\ StartRead(io.h)
  /\ io' = IOIdle
  /\ UNCHANGED <<next, id, mtx, dialled, pc, node, eh>>

\* fault: a handler that is closed already is left to the one who closed it
ReadFailsOpen(h) ==
  /\ io = IOIdle /\ reads[h] > 0
  /\ reads' = [reads EXCEPT ![h] = @ - 1]
  /\ IF isConnected[h] THEN ErrorClose(h) ELSE UNCHANGED <<maps, flags, closes>>
  /\ UNCHANGED <<next, id, mtx, dialled, pc, node, eh, io>>

\* A read ends with an error, always so once the socket is down: close,
\* handleClose, _erase.
ReadFails(h) ==
  /\ io = IOIdle /\ reads[h] > 0
  /\ reads' = [reads EXCEPT ![h] = @ - 1]
  /\ ErrorClose(h)
  /\ UNCHANGED <<next, id, mtx, dialled, pc, node, eh, io>>

\* The peer goes away.
PeerCloses(h) == /\ sock[h] = "up"
                 /\ sock' = [sock EXCEPT ![h] = "down"]
                 /\ UNCHANGED <<maps, next, id, isConnected, isNew, reads, mtx,
                                dialled, closes, pc, node, eh, io>>

-----------------------------------------------------------------------------
(* The application closes the connections of a node, or all of them. *)

Established(h) == ~isNew[h] /\ \A t \in Senders : ~(eh[t] = h /\ pc[t] \in {"dial", "setOpt", "read"})

CloseAll(hs) == /\ hs # {}
                /\ CloseNew \/ \A h \in hs : Established(h)
                /\ CloseHandlers(hs)
                /\ UNCHANGED <<maps, next, id, reads, mtx, dialled, closes, pc, node, eh, io>>

Close == CloseAll(opposite) \/ \E n \in Nodes : CloseAll(Range(route[n]))

-----------------------------------------------------------------------------
Sender(t) == \/ GetShared(t) \/ GetExclusive(t) \/ CheckConnected(t) \/ Connect(t)
             \/ Dial(t) \/ SetOpt(t) \/ FirstRead(t) \/ Drop(t)
             \/ SyncSend(t) \/ SendFails(t)

Next == \/ \E t \in Senders : Sender(t) \/ \E n \in Nodes : Send(t, n)
        \/ Accept \/ ReadAgain \/ Close
        \/ \E h \in Handles : ReadDone(h) \/ ReadFails(h) \/ PeerCloses(h)

\* Senders go on, and get a mutex that is free again and again.  The I/O thread
\* goes on, and the I/O service reports the error of a socket that is down.
Fairness == /\ \A t \in Senders : SF_vars(Sender(t))
            /\ WF_vars(ReadAgain)
            /\ \A h \in Handles : SF_vars(sock[h] = "down" /\ ReadFails(h))

Spec == Init /\ [][Next]_vars /\ Fairness

-----------------------------------------------------------------------------
(* Properties *)

\* The maps, the handlers and the threads hold what they may hold.
TypeOK ==
  /\ opposite \subseteq Handles /\ route \in [Nodes -> Seq(Handles)]
  /\ next \in 1..(MaxHandles + 1) /\ id \in [Handles -> Nodes \cup {NoNode}]
  /\ isConnected \in [Handles -> BOOLEAN] /\ isNew \in [Handles -> BOOLEAN]
  /\ sock \in [Handles -> {"none", "up", "down"}] /\ reads \in [Handles -> Nat]
  /\ mtx \in [Handles -> Senders \cup {Free}]
  /\ dialled \subseteq Handles /\ closes \in [Handles -> Nat]
  /\ pc \in [Senders -> {"idle", "shared", "exclusive", "check", "connect", "dial",
                         "setOpt", "read", "drop", "send", "close"}]
  /\ node \in [Senders -> Nodes \cup {NoNode}]
  /\ eh \in [Senders -> Handles \cup {NoHandle}]
  /\ io \in [do : {"idle", "read"}, h : Handles \cup {NoHandle}]

\* _erase, _addRoute and _getHandle: a node's handlers in _route are in
\* _opposite too, under that node's ID, each once, whoever erased or added
\* meanwhile.
MapsAgree == \A n \in Nodes : /\ IsInjective(route[n])
                              /\ \A h \in Range(route[n]) : h \in opposite /\ id[h] = n

\* _getHandle with _maxSockPerNode = 1: senders that race for a node without a
\* handler create one, never two.
OneDialled == \A n \in Nodes : Cardinality(Range(route[n]) \cap dialled) <= 1

\* asyncRead: never two reads on one socket, which would tear its messages, and
\* none before the socket is open.
OneRead == \A h \in Handles : reads[h] <= (IF sock[h] = "none" \/ io.h = h THEN 0 ELSE 1)

\* The error labels: handleClose is called at most once for a handle, and from
\* then on no read and no route leads to it.
ToldOnce == \A h \in Handles :
   /\ closes[h] <= 1
   /\ closes[h] = 1 => reads[h] = 0 /\ \A n \in Nodes : h \notin Range(route[n])

\* The maps and the handlers of _netFrame are sound, whatever senders, readers
\* and closers meet.
HandlesSound == TypeOK /\ MapsAgree /\ OneDialled /\ OneRead /\ ToldOnce

\* "because when close, the net-thread will be in asyncRead code": a closed
\* handler in the maps has a read, or a thread at work on it, that will erase it.
ReaderErases == \A h \in opposite :
   (~isConnected[h] /\ ~isNew[h]) =>
      \/ reads[h] > 0 \/ io.h = h
      \/ \E t \in Senders : eh[t] = h /\ pc[t] \in {"dial", "setOpt", "read", "drop"}

\* close, syncSendBuf and _readCallback: a handler that is closed leaves the
\* maps, so that the next send to its node can connect again.
ClosedLeaves == \A h \in Handles :
   (h \in opposite /\ ~isConnected[h] /\ ~isNew[h]) ~> (h \notin opposite)

==============================================================================
