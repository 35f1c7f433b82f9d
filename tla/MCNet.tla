------------------------------- MODULE MCNet --------------------------------
(***************************************************************************)
(* The network frame: its acceptor, its connections and the reading side   *)
(* of one of them.  They share no state in the code but the handler that   *)
(* one hands to the next, so a behaviour is of one part.  Connections are  *)
(* explored twice: with every fault, and without those from which a frame  *)
(* does not recover; reading is explored without a parser and with one.    *)
(***************************************************************************)
EXTENDS NetListen, NetHandle, NetReader

VARIABLE part

Orderly == INSTANCE NetHandle WITH CloseNew <- FALSE, OutOfMemory <- FALSE

(* Up to three messages, the first one perhaps a system information        *)
(* request.  Without a parser the last one may have an illegal length;     *)
(* with one a message is what the parser takes for one, and the peer       *)
(* waits.                                                                  *)
Messages(S, n) == UNION {[1..k -> {[kind |-> "message", len |-> l] : l \in S}] : k \in 0..n}
Packets(n) == Messages({2, 3, 5}, n)
                \cup {m \o x : m \in Messages({2, 3, 5}, n - 1), x \in Messages({1, 6}, 1)}
AllPackets == Packets(3) \cup {<<[kind |-> "sysinfo", len |-> 1]>> \o m : m \in Packets(2)}

Seqs == INSTANCE SequencesExt
Begins(m) == Seqs!FoldLeft(LAMBDA b, x : Append(b, b[Len(b)] + Size(x)), <<0>>, m)
PeerOf(m, parser) == [msgs |-> m, begin |-> Begins(m), parser |-> parser, waits |-> parser]
MCPeers == {PeerOf(m, FALSE) : m \in AllPackets} \cup {PeerOf(m, TRUE) : m \in Messages(2..4, 3)}

Parts == {"listen", "faulty", "orderly", "read"}

MCInit ==
  /\ ListenInit /\ Init /\ ReaderInit
  /\ part \in Parts
  /\ part = "read" \/ peer = PeerOf(<<[kind |-> "message", len |-> 2]>>, FALSE)

MCNext ==
  \/ part = "listen" /\ ListenNext /\ UNCHANGED <<part, vars, readerVars>>
  \/ part = "faulty" /\ Next /\ UNCHANGED <<part, listenVars, readerVars>>
  \/ part = "orderly" /\ Orderly!Next /\ UNCHANGED <<part, listenVars, readerVars>>
  \/ part = "read" /\ ReaderNext /\ UNCHANGED <<part, listenVars, vars>>

(* The fairness of each part, as the component states it. *)
MCFairness ==
  /\ ListenFairness
  /\ \A t \in Senders : SF_vars(part = "orderly" /\ Orderly!Sender(t))
  /\ WF_vars(part = "orderly" /\ Orderly!ReadAgain)
  /\ \A h \in Handles : SF_vars(/\ part = "orderly" /\ sock[h] = "down"
                                 /\ Orderly!ReadFails(h))
  /\ WF_readerVars(part = "read" /\ ReadCallback)
  /\ WF_readerVars(part = "read" /\ StreamReadCallback)
  /\ WF_readerVars(part = "read" /\ ReadError)

MCSpec == MCInit /\ [][MCNext]_<<part, listenVars, vars, readerVars>> /\ MCFairness

(* A frame that waits for its timer listens again; a closed handler in the *)
(* maps has a read, or a thread at work on it, that will erase it, and     *)
(* leaves them, so that the node can be dialled again; and of a connection *)
(* that is closed, by whoever, the handler is told.                        *)
Recovers == /\ [](part = "orderly" => Orderly!ReaderErases)
            /\ part = "listen" => ListensAgain
            /\ part = "orderly" => Orderly!ClosedLeaves
            /\ part = "read" => ClosedEnds /\ AllHandled
=============================================================================
