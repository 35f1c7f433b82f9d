------------------------------ MODULE NetProofs ------------------------------
(***************************************************************************)
(* The network frame: the acceptor that listens again, the maps of         *)
(* connections, for any senders, nodes and handlers, and the reading side  *)
(* of one of them, for any stream.                                         *)
(***************************************************************************)
EXTENDS NetListen, NetHandle, NetReader, FiniteSetTheorems, SequenceTheorems,
        WellFoundedInduction, TLAPS

-----------------------------------------------------------------------------
(* The acceptor *)

(* One thread of the application calls listen, and not again after it      *)
(* succeeded.                                                              *)
OneListen == ~ListenAgain /\ \A s, t \in Callers : s = t

(* A call of listen has succeeded, whether or not its caller knows. *)
Settled == up \/ \E t \in Callers : at[t] = "listened" /\ rc[t] = "OK"

CallerInv == \A t \in Callers :
  /\ at[t] \in {"idle"} \cup Listening
  /\ up => at[t] = "idle"
  /\ at[t] \in {"check", "open"} => ~opened
  /\ at[t] \in {"open", "accept"} => rc[t] = "OK"
  /\ at[t] = "accept" => opened \/ stopped
  /\ at[t] = "close" => rc[t] # "OK"
  /\ at[t] = "listened" /\ rc[t] # "OK" => ~opened

(* Until then nothing waits, and the acceptor is open only for the caller. *)
QuietInv ==
  ~Settled => /\ pending = 0 /\ ~armed /\ at[IO] = "idle"
              /\ opened => \E t \in Callers : at[t] \in {"accept", "close"}

(* The I/O thread: the timer stays until listen has succeeded again, and   *)
(* while it is there nobody else opens the acceptor.                       *)
TimerInv ==
  /\ at[IO] \in Listening => armed
  /\ armed /\ at[IO] \in {"idle", "reaccept"} => ~opened
  /\ at[IO] \in {"startTimer", "check", "open"} => ~opened
  /\ at[IO] \in {"open", "accept"} => rc[IO] = "OK"
  /\ at[IO] \in {"reaccept", "accept"} => pending = 0 /\ (opened \/ stopped)
  /\ at[IO] = "close" => pending = 0 /\ rc[IO] \notin {"OK", "ALREADY_LISTENED"}
  /\ at[IO] = "listened" => IF rc[IO] = "OK" THEN stopped \/ (opened /\ pending = 1)
                            ELSE rc[IO] # "ALREADY_LISTENED" /\ ~opened

RecoverInv == Settled /\ ~lost /\ IOFree => armed \/ (opened /\ pending = 1)

ListenInv == ListenTypeOK /\ OneAccept /\ CallerInv /\ QuietInv /\ TimerInv /\ RecoverInv

(* One accept at most, and none on a closed acceptor. *)
LEMMA AcceptIs ==
  ASSUME pending \in Nat
  PROVE  OneAccept <=> pending = 0 \/ (opened /\ pending = 1)
  <1>1. CASE opened
    BY <1>1 DEF OneAccept
  <1>2. CASE ~opened
    BY <1>2 DEF OneAccept
  <1> QED
    BY <1>1, <1>2

LEMMA ListenInitial == ASSUME OneListen, ListenInit PROVE ListenInv
  <1>1. /\ opened = FALSE /\ armed = FALSE /\ stale = FALSE /\ up = FALSE /\ lost = FALSE
        /\ stopped = FALSE
    BY DEF ListenInit
  <1>2. /\ pending = 0 /\ at = [t \in Threads |-> "idle"] /\ rc = [t \in Threads |-> "OK"]
        /\ calls = 0
    BY DEF ListenInit
  <1>3. IO \in Threads /\ Callers \subseteq Threads
    BY DEF Threads
  <1>4. \A t \in Threads : at[t] = "idle" /\ rc[t] = "OK"
    BY <1>2
  <1>5. ListenTypeOK
    <2>1. at \in [Threads -> {"idle", "reaccept", "startTimer"} \cup Listening]
      BY <1>2
    <2>2. rc \in [Threads -> Results] /\ pending \in Nat /\ calls \in 0 .. MaxCalls
      BY <1>2, ListenAssumption DEF Results
    <2> QED
      BY <2>1, <2>2, <1>1, Zenon DEF ListenTypeOK
  <1>6. OneAccept
    BY <1>2, AcceptIs
  <1>7. CallerInv
    BY <1>1, <1>3, <1>4 DEF CallerInv
  <1>8. QuietInv
    BY <1>1, <1>2, <1>3, <1>4 DEF QuietInv
  <1>9. TimerInv
    BY <1>1, <1>3, <1>4 DEF TimerInv, Listening
  <1>10. RecoverInv
    <2>1. ~Settled
      BY <1>1, <1>3, <1>4 DEF Settled
    <2> QED
      BY <2>1 DEF RecoverInv
  <1> QED
    BY <1>5, <1>6, <1>7, <1>8, <1>9, <1>10 DEF ListenInv

(* A thread moves, or gets its result. *)
Point == {"idle", "reaccept", "startTimer"} \cup Listening

LEMMA AtSet ==
  ASSUME ListenTypeOK, NEW t \in Threads, NEW p \in Point, at' = [at EXCEPT ![t] = p]
  PROVE  /\ at' \in [Threads -> Point] /\ at'[t] = p
         /\ \A u \in Threads : u # t => at'[u] = at[u]
  BY DEF ListenTypeOK, Point

LEMMA RcSet ==
  ASSUME ListenTypeOK, NEW t \in Threads, NEW r \in Results, rc' = [rc EXCEPT ![t] = r]
  PROVE  /\ rc' \in [Threads -> Results] /\ rc'[t] = r
         /\ \A u \in Threads : u # t => rc'[u] = rc[u]
  BY DEF ListenTypeOK

LEMMA ThreadsAre == /\ IO \in Threads /\ Callers \subseteq Threads /\ IO \notin Callers
                    /\ \A t \in Threads : t = IO \/ t \in Callers
  BY ListenAssumption DEF Threads, IO

(* There is one caller, so what is true of it decides. *)
LEMMA OnlyCaller ==
  ASSUME OneListen, ListenInv, NEW t \in Callers
  PROVE  /\ \A u \in Callers : u = t
         /\ \A u \in Threads : u = t \/ u = IO
         /\ Settled <=> up \/ (at[t] = "listened" /\ rc[t] = "OK")
         /\ Settled' <=> up' \/ (at'[t] = "listened" /\ rc'[t] = "OK")
  BY ThreadsAre DEF OneListen, Settled

LEMMA CallStep == ASSUME OneListen, ListenInv, NEW t \in Callers, CallListen(t) PROVE ListenInv'
  <1>1. at[t] = "idle" /\ at' = [at EXCEPT ![t] = "check"] /\ calls < MaxCalls /\ calls' = calls + 1
    BY DEF CallListen
  <1>2. ~up
    BY DEF CallListen, OneListen
  <1>3. /\ opened' = opened /\ armed' = armed /\ stale' = stale /\ up' = up /\ lost' = lost
        /\ stopped' = stopped
    BY DEF CallListen
  <1>4. pending' = pending /\ rc' = rc
    BY DEF CallListen
  <1>5. t \in Threads /\ IO \in Threads /\ IO # t
    BY ThreadsAre
  <1>6. at' \in [Threads -> Point] /\ at'[t] = "check" /\ at'[IO] = at[IO]
    BY <1>1, <1>5, AtSet DEF Point, Listening, ListenInv
  <1>7. \A u \in Callers : u = t
    BY OnlyCaller
  <1>8. ~Settled /\ ~Settled'
    BY <1>1, <1>2, <1>3, <1>6, OnlyCaller
  <1>9. pending = 0 /\ ~armed /\ at[IO] = "idle" /\ ~opened
    BY <1>1, <1>7, <1>8 DEF ListenInv, QuietInv
  <1>10. ListenTypeOK'
    <2>1. calls' \in 0 .. MaxCalls
      BY <1>1, ListenAssumption DEF ListenInv, ListenTypeOK
    <2> QED
      BY <2>1, <1>3, <1>4, <1>6, Zenon DEF ListenInv, ListenTypeOK, Point
  <1>11. OneAccept'
    BY <1>4, <1>9, <1>3, Zenon DEF OneAccept, ListenInv
  <1>12. CallerInv'
    BY <1>2, <1>3, <1>6, <1>7, <1>9 DEF CallerInv, Listening
  <1>13. QuietInv' /\ RecoverInv'
    BY <1>3, <1>4, <1>6, <1>8, <1>9 DEF QuietInv, RecoverInv
  <1>14. TimerInv'
    BY <1>3, <1>6, <1>9 DEF TimerInv, Listening
  <1> QED
    BY <1>10, <1>11, <1>12, <1>13, <1>14 DEF ListenInv

(* A step of the caller before its listen has succeeded. *)
LEMMA CallerMoves ==
  ASSUME ListenInv, ~Settled, ~Settled', armed' = armed, at'[IO] = at[IO], pending' = 0,
         opened' => \E t \in Callers : at'[t] \in {"accept", "close"}
  PROVE  OneAccept' /\ QuietInv' /\ TimerInv' /\ RecoverInv'
  <1>1. ~armed /\ at[IO] = "idle"
    BY DEF ListenInv, QuietInv
  <1>2. OneAccept'
    BY DEF OneAccept
  <1>3. QuietInv'
    BY <1>1 DEF QuietInv
  <1>4. TimerInv'
    BY <1>1 DEF TimerInv, Listening
  <1> QED
    BY <1>2, <1>3, <1>4 DEF RecoverInv

LEMMA ReturnStep ==
  ASSUME OneListen, ListenInv, NEW t \in Callers, ReturnFromListen(t) PROVE ListenInv'
  <1>1. at[t] = "listened" /\ at' = [at EXCEPT ![t] = "idle"] /\ rc' = rc /\ calls' = calls
    BY DEF ReturnFromListen
  <1>2. up' = (up \/ rc[t] = "OK")
    BY DEF ReturnFromListen
  <1>3. /\ opened' = opened /\ armed' = armed /\ stale' = stale /\ lost' = lost
        /\ stopped' = stopped
    BY DEF ReturnFromListen
  <1>4. pending' = pending
    BY DEF ReturnFromListen
  <1>5. t \in Threads /\ IO \in Threads /\ IO # t
    BY ThreadsAre
  <1>6. at' \in [Threads -> Point] /\ at'[t] = "idle" /\ at'[IO] = at[IO]
    BY <1>1, <1>5, AtSet DEF Point, Listening, ListenInv
  <1>7. \A u \in Callers : u = t
    BY OnlyCaller
  <1>8. Settled' <=> Settled
    BY <1>1, <1>2, <1>6, OnlyCaller
  <1>9. ListenTypeOK'
    <2>1. up' \in BOOLEAN
      BY <1>2, Zenon
    <2> QED
      BY <2>1, <1>1, <1>3, <1>4, <1>6, Zenon DEF ListenInv, ListenTypeOK, Point
  <1>10. OneAccept'
    BY <1>3, <1>4, Zenon DEF OneAccept, ListenInv
  <1>11. CallerInv'
    BY <1>6, <1>7 DEF CallerInv
  <1>12. QuietInv'
    <2>1. ~Settled => rc[t] # "OK"
      BY <1>1, OnlyCaller
    <2>2. ~Settled => ~opened
      BY <2>1, <1>1 DEF ListenInv, CallerInv
    <2> QED
      BY <2>2, <1>3, <1>4, <1>6, <1>8 DEF ListenInv, QuietInv
  <1>13. TimerInv'
    BY <1>1, <1>3, <1>4, <1>6 DEF ListenInv, TimerInv
  <1>14. RecoverInv'
    BY <1>3, <1>4, <1>6, <1>8 DEF ListenInv, RecoverInv, IOFree
  <1> QED
    BY <1>9, <1>10, <1>11, <1>12, <1>13, <1>14 DEF ListenInv

LEMMA CallerCheck ==
  ASSUME OneListen, ListenInv, NEW t \in Callers, Check(t) PROVE ListenInv'
  <1>1. /\ at[t] = "check" /\ at' = [at EXCEPT ![t] = IF opened THEN "close" ELSE "open"]
        /\ rc' = [rc EXCEPT ![t] = IF opened THEN "ALREADY_LISTENED" ELSE "OK"]
        /\ calls' = calls /\ pending' = pending
    BY DEF Check
  <1>2. /\ opened' = opened /\ armed' = armed /\ stale' = stale /\ up' = up /\ lost' = lost
        /\ stopped' = stopped
    BY DEF Check
  <1>3. t \in Threads /\ IO \in Threads /\ IO # t
    BY ThreadsAre
  <1>4. ~opened /\ ~up
    BY <1>1 DEF ListenInv, CallerInv
  <1>5. at' \in [Threads -> Point] /\ at'[t] = "open" /\ at'[IO] = at[IO]
    BY <1>1, <1>3, <1>4, AtSet DEF Point, Listening, ListenInv
  <1>6. rc' \in [Threads -> Results] /\ rc'[t] = "OK" /\ rc'[IO] = rc[IO]
    BY <1>1, <1>3, <1>4, RcSet DEF Results, ListenInv
  <1>7. \A u \in Callers : u = t
    BY OnlyCaller
  <1>8. ~Settled /\ ~Settled'
    BY <1>1, <1>2, <1>4, <1>5, OnlyCaller
  <1>9. ListenTypeOK'
    BY <1>1, <1>2, <1>5, <1>6, Zenon DEF ListenInv, ListenTypeOK, Point
  <1>10. CallerInv'
    BY <1>2, <1>4, <1>5, <1>6, <1>7 DEF CallerInv, Listening
  <1>11. pending' = 0
    BY <1>1, <1>8 DEF ListenInv, QuietInv
  <1>12. OneAccept' /\ QuietInv' /\ TimerInv' /\ RecoverInv'
    BY <1>2, <1>4, <1>5, <1>8, <1>11, CallerMoves
  <1> QED
    BY <1>9, <1>10, <1>12 DEF ListenInv

LEMMA CallerOpen ==
  ASSUME OneListen, ListenInv, NEW t \in Callers, Open(t) PROVE ListenInv'
  <1>1. at[t] = "open" /\ calls' = calls /\ pending' = pending
    BY DEF Open
  <1>2. armed' = armed /\ stale' = stale /\ up' = up /\ lost' = lost /\ stopped' = stopped
    BY DEF Open
  <1>3. t \in Threads /\ IO \in Threads /\ IO # t
    BY ThreadsAre
  <1>4. ~opened /\ ~up /\ rc[t] = "OK"
    BY <1>1 DEF ListenInv, CallerInv
  <1>5. \A u \in Callers : u = t
    BY OnlyCaller
  <1>6. ~Settled
    BY <1>1, <1>4, OnlyCaller
  <1>7. pending' = 0
    BY <1>1, <1>6 DEF ListenInv, QuietInv
  <1>8. CASE opened' = TRUE /\ at' = [at EXCEPT ![t] = "accept"] /\ UNCHANGED rc
    <2>1. at' \in [Threads -> Point] /\ at'[t] = "accept" /\ at'[IO] = at[IO]
      BY <1>8, <1>3, AtSet DEF Point, Listening, ListenInv
    <2>2. ~Settled'
      BY <2>1, <1>2, <1>4, OnlyCaller
    <2>3. opened' \in BOOLEAN
      BY <1>8, Zenon
    <2>4. ListenTypeOK'
      BY <2>1, <2>3, <1>1, <1>2, <1>8, Zenon DEF ListenInv, ListenTypeOK, Point
    <2>5. CallerInv'
      BY <2>1, <1>2, <1>4, <1>5, <1>8 DEF CallerInv, Listening
    <2>6. OneAccept' /\ QuietInv' /\ TimerInv' /\ RecoverInv'
      BY <2>1, <2>2, <1>2, <1>6, <1>7, CallerMoves
    <2> QED
      BY <2>4, <2>5, <2>6 DEF ListenInv
  <1>9. CASE /\ rc' = [rc EXCEPT ![t] = "CANNOT_LISTEN"] /\ at' = [at EXCEPT ![t] = "close"]
             /\ UNCHANGED opened
    <2>1. at' \in [Threads -> Point] /\ at'[t] = "close" /\ at'[IO] = at[IO]
      BY <1>9, <1>3, AtSet DEF Point, Listening, ListenInv
    <2>2. rc' \in [Threads -> Results] /\ rc'[t] = "CANNOT_LISTEN" /\ rc'[IO] = rc[IO]
      BY <1>9, <1>3, RcSet DEF Results, ListenInv
    <2>3. ~Settled'
      BY <2>1, <1>2, <1>4, OnlyCaller
    <2>4. ListenTypeOK'
      BY <2>1, <2>2, <1>1, <1>2, <1>9, Zenon DEF ListenInv, ListenTypeOK, Point
    <2>5. CallerInv'
      BY <2>1, <2>2, <1>2, <1>4, <1>5 DEF CallerInv, Listening
    <2>6. OneAccept' /\ QuietInv' /\ TimerInv' /\ RecoverInv'
      BY <2>1, <2>3, <1>2, <1>6, <1>7, CallerMoves
    <2> QED
      BY <2>4, <2>5, <2>6 DEF ListenInv
  <1> QED
    BY <1>8, <1>9 DEF Open

LEMMA CallerAccept ==
  ASSUME OneListen, ListenInv, NEW t \in Callers, IssueAccept(t) PROVE ListenInv'
  <1>1. at[t] = "accept" /\ calls' = calls
    BY DEF IssueAccept
  <1>2. /\ opened' = opened /\ armed' = armed /\ stale' = stale /\ up' = up /\ lost' = lost
        /\ stopped' = stopped
    BY DEF IssueAccept
  <1>3. t \in Threads /\ IO \in Threads /\ IO # t
    BY ThreadsAre
  <1>4. (opened \/ stopped) /\ ~up /\ rc[t] = "OK"
    BY <1>1 DEF ListenInv, CallerInv
  <1>5. \A u \in Callers : u = t
    BY OnlyCaller
  <1>6. ~Settled
    BY <1>1, <1>4, OnlyCaller
  <1>7. pending = 0 /\ ~armed /\ at[IO] = "idle"
    BY <1>6 DEF ListenInv, QuietInv
  <1>8. CASE asyncAccept /\ at' = [at EXCEPT ![t] = "listened"] /\ UNCHANGED rc
    <2>1. at' \in [Threads -> Point] /\ at'[t] = "listened" /\ at'[IO] = at[IO]
      BY <1>8, <1>3, AtSet DEF Point, Listening, ListenInv
    <2>2. Settled'
      BY <2>1, <1>4, <1>8, OnlyCaller
    <2>3. pending' \in Nat /\ (opened => pending' = 1) /\ (~opened => pending' = 0)
      BY <1>7, <1>8 DEF asyncAccept
    <2>4. ListenTypeOK'
      BY <2>1, <2>3, <1>1, <1>2, <1>8, Zenon DEF ListenInv, ListenTypeOK, Point
    <2>5. OneAccept'
      BY <2>3, <1>2 DEF OneAccept
    <2>6. CallerInv'
      BY <2>1, <1>2, <1>4, <1>5, <1>8 DEF CallerInv, Listening
    <2>7. QuietInv' /\ TimerInv'
      BY <2>1, <2>2, <1>2, <1>7 DEF QuietInv, TimerInv, Listening
    <2>8. RecoverInv'
      BY <2>3, <1>2, <1>4 DEF RecoverInv, IOFree
    <2> QED
      BY <2>4, <2>5, <2>6, <2>7, <2>8 DEF ListenInv
  <1>9. CASE /\ NoMemory /\ rc' = [rc EXCEPT ![t] = "OOM"]
             /\ at' = [at EXCEPT ![t] = "close"] /\ UNCHANGED pending
    <2>1. at' \in [Threads -> Point] /\ at'[t] = "close" /\ at'[IO] = at[IO]
      BY <1>9, <1>3, AtSet DEF Point, Listening, ListenInv
    <2>2. rc' \in [Threads -> Results] /\ rc'[t] = "OOM" /\ rc'[IO] = rc[IO]
      BY <1>9, <1>3, RcSet DEF Results, ListenInv
    <2>3. ~Settled'
      BY <2>1, <1>2, <1>4, OnlyCaller
    <2>4. ListenTypeOK'
      BY <2>1, <2>2, <1>1, <1>2, <1>9, Zenon DEF ListenInv, ListenTypeOK, Point
    <2>5. CallerInv'
      BY <2>1, <2>2, <1>2, <1>4, <1>5 DEF CallerInv, Listening
    <2>6. OneAccept' /\ QuietInv' /\ TimerInv' /\ RecoverInv'
      BY <2>1, <2>3, <1>2, <1>6, <1>7, <1>9, CallerMoves
    <2> QED
      BY <2>4, <2>5, <2>6 DEF ListenInv
  <1> QED
    BY <1>8, <1>9 DEF IssueAccept

LEMMA CallerClose ==
  ASSUME OneListen, ListenInv, NEW t \in Callers, CloseOnError(t) PROVE ListenInv'
  <1>1. /\ at[t] = "close" /\ at' = [at EXCEPT ![t] = "listened"] /\ rc' = rc /\ calls' = calls
        /\ pending' = 0
    BY DEF CloseOnError, closeListen
  <1>2. armed' = armed /\ stale' = stale /\ up' = up /\ lost' = lost /\ stopped' = stopped
    BY DEF CloseOnError
  <1>a. opened' = FALSE
    BY DEF CloseOnError, closeListen
  <1>3. t \in Threads /\ IO \in Threads /\ IO # t
    BY ThreadsAre
  <1>4. ~up /\ rc[t] # "OK"
    BY <1>1 DEF ListenInv, CallerInv
  <1>5. \A u \in Callers : u = t
    BY OnlyCaller
  <1>6. at' \in [Threads -> Point] /\ at'[t] = "listened" /\ at'[IO] = at[IO]
    BY <1>1, <1>3, AtSet DEF Point, Listening, ListenInv
  <1>7. ~Settled /\ ~Settled'
    BY <1>1, <1>2, <1>4, <1>6, OnlyCaller
  <1>8. ListenTypeOK'
    <2>1. pending' \in Nat
      BY <1>1
    <2> QED
      BY <2>1, <1>1, <1>2, <1>a, <1>6, Zenon DEF ListenInv, ListenTypeOK, Point
  <1>9. CallerInv'
    BY <1>1, <1>2, <1>a, <1>4, <1>5, <1>6 DEF CallerInv, Listening
  <1>10. OneAccept' /\ QuietInv' /\ TimerInv' /\ RecoverInv'
    BY <1>1, <1>2, <1>a, <1>6, <1>7, CallerMoves
  <1> QED
    BY <1>8, <1>9, <1>10 DEF ListenInv

(* A step of the I/O thread, which has work only when a listen succeeded:  *)
(* the caller is then done with the acceptor.                              *)
LEMMA IOMoves ==
  ASSUME OneListen, ListenInv, Settled, up' = up,
         \A t \in Callers : at'[t] = at[t] /\ rc'[t] = rc[t]
  PROVE  Settled' /\ CallerInv' /\ QuietInv'
  <1>1. \A t \in Callers : at[t] = "idle" \/ (at[t] = "listened" /\ rc[t] = "OK")
    <2>1. CASE up
      BY <2>1 DEF ListenInv, CallerInv
    <2>2. CASE \E t \in Callers : at[t] = "listened" /\ rc[t] = "OK"
      BY <2>2 DEF OneListen
    <2> QED
      BY <2>1, <2>2 DEF Settled
  <1>2. \A t \in Callers : up => at[t] = "idle"
    BY DEF ListenInv, CallerInv
  <1>3. Settled'
    BY DEF Settled
  <1>4. CallerInv'
    BY <1>1, <1>2 DEF CallerInv, Listening
  <1> QED
    BY <1>3, <1>4 DEF QuietInv

LEMMA HasWork ==
  ASSUME ListenInv, at[IO] # "idle" \/ armed \/ pending # 0
  PROVE  Settled
  BY DEF ListenInv, QuietInv

LEMMA IOSet ==
  ASSUME OneListen, ListenInv, NEW p \in Point, at' = [at EXCEPT ![IO] = p]
  PROVE  at' \in [Threads -> Point] /\ at'[IO] = p /\ \A t \in Callers : at'[t] = at[t]
  <1>1. IO \in Threads /\ \A t \in Callers : t \in Threads /\ t # IO
    BY ThreadsAre
  <1> QED
    BY <1>1, AtSet DEF ListenInv

LEMMA AcceptCallbackStep == ASSUME OneListen, ListenInv, AcceptCallback PROVE ListenInv'
  <1>1. /\ at[IO] = "idle" /\ pending > 0 /\ pending' = pending - 1 /\ rc' = rc /\ calls' = calls
        /\ at' = [at EXCEPT ![IO] = "reaccept"]
    BY DEF AcceptCallback, IOFree
  <1>2. /\ opened' = opened /\ armed' = armed /\ stale' = stale /\ up' = up /\ lost' = lost
        /\ stopped' = stopped
    BY DEF AcceptCallback
  <1>3. pending \in Nat
    BY DEF ListenInv, ListenTypeOK
  <1>4. opened /\ pending = 1
    BY <1>1, <1>3, AcceptIs DEF ListenInv
  <1>a. ~armed
    BY <1>1, <1>4 DEF ListenInv, TimerInv
  <1>5. at' \in [Threads -> Point] /\ at'[IO] = "reaccept" /\ \A t \in Callers : at'[t] = at[t]
    BY <1>1, IOSet DEF Point
  <1>6. Settled' /\ CallerInv' /\ QuietInv'
    BY <1>1, <1>2, <1>4, <1>5, HasWork, IOMoves
  <1>7. pending' = 0 /\ pending' \in Nat
    BY <1>1, <1>4
  <1>8. ListenTypeOK'
    BY <1>1, <1>2, <1>5, <1>7, Zenon DEF ListenInv, ListenTypeOK, Point
  <1>9. OneAccept'
    BY <1>7 DEF OneAccept
  <1>10. TimerInv' /\ RecoverInv'
    BY <1>2, <1>a, <1>4, <1>5, <1>7 DEF TimerInv, RecoverInv, IOFree, Listening
  <1> QED
    BY <1>6, <1>8, <1>9, <1>10 DEF ListenInv

LEMMA ReAcceptStep == ASSUME OneListen, ListenInv, ReAccept PROVE ListenInv'
  <1>1. at[IO] = "reaccept" /\ at' = [at EXCEPT ![IO] = "idle"] /\ rc' = rc /\ calls' = calls
    BY DEF ReAccept
  <1>2. opened' = opened /\ armed' = armed /\ stale' = stale /\ up' = up /\ stopped' = stopped
    BY DEF ReAccept
  <1>3. pending = 0 /\ (opened \/ stopped)
    BY <1>1 DEF ListenInv, TimerInv
  <1>4. at' \in [Threads -> Point] /\ at'[IO] = "idle" /\ \A t \in Callers : at'[t] = at[t]
    BY <1>1, IOSet DEF Point
  <1>5. Settled' /\ CallerInv' /\ QuietInv'
    BY <1>1, <1>2, <1>4, HasWork, IOMoves
  <1>6. /\ pending' \in Nat /\ lost' \in BOOLEAN
        /\ pending' = 0 \/ (opened /\ pending' = 1)
        /\ lost' \/ (opened => pending' = 1)
    <2>1. CASE asyncAccept /\ UNCHANGED lost
      BY <2>1, <1>3 DEF asyncAccept, ListenInv, ListenTypeOK
    <2>2. CASE NoMemory /\ lost' = TRUE /\ UNCHANGED pending
      BY <2>2, <1>3
    <2> QED
      BY <2>1, <2>2 DEF ReAccept
  <1>7. ListenTypeOK'
    BY <1>1, <1>2, <1>4, <1>6, Zenon DEF ListenInv, ListenTypeOK, Point
  <1>8. OneAccept'
    BY <1>2, <1>6 DEF OneAccept
  <1>9. ~armed \/ ~opened
    BY <1>1 DEF ListenInv, TimerInv
  <1>10. TimerInv' /\ RecoverInv'
    BY <1>2, <1>3, <1>4, <1>6, <1>9 DEF TimerInv, RecoverInv, IOFree, Listening
  <1> QED
    BY <1>5, <1>7, <1>8, <1>10 DEF ListenInv

LEMMA TooManyFilesStep == ASSUME OneListen, ListenInv, TooManyFiles PROVE ListenInv'
  <1>1. /\ at[IO] = "idle" /\ pending > 0 /\ pending' = 0 /\ rc' = rc /\ calls' = calls
        /\ at' = [at EXCEPT ![IO] = "startTimer"]
    BY DEF TooManyFiles, IOFree, closeListen
  <1>2. armed' = armed /\ stale' = stale /\ up' = up /\ lost' = lost /\ stopped' = stopped
    BY DEF TooManyFiles
  <1>3. opened' = FALSE
    BY DEF TooManyFiles, closeListen
  <1>4. at' \in [Threads -> Point] /\ at'[IO] = "startTimer" /\ \A t \in Callers : at'[t] = at[t]
    BY <1>1, IOSet DEF Point
  <1>5. Settled' /\ CallerInv' /\ QuietInv'
    BY <1>1, <1>2, <1>4, HasWork, IOMoves
  <1>6. pending' \in Nat
    BY <1>1
  <1>7. ListenTypeOK'
    BY <1>1, <1>2, <1>3, <1>4, <1>6, Zenon DEF ListenInv, ListenTypeOK, Point
  <1>8. OneAccept'
    BY <1>1 DEF OneAccept
  <1>9. TimerInv' /\ RecoverInv'
    BY <1>3, <1>4 DEF TimerInv, RecoverInv, IOFree, Listening
  <1> QED
    BY <1>5, <1>7, <1>8, <1>9 DEF ListenInv

LEMMA StartTimerStep == ASSUME OneListen, ListenInv, StartTimer PROVE ListenInv'
  <1>1. at[IO] = "startTimer" /\ at' = [at EXCEPT ![IO] = "idle"] /\ rc' = rc /\ calls' = calls
    BY DEF StartTimer
  <1>2. up' = up /\ lost' = lost
    BY DEF StartTimer
  <1>3. ~opened
    BY <1>1 DEF ListenInv, TimerInv
  <1>4. pending = 0
    BY <1>3, AcceptIs DEF ListenInv, ListenTypeOK
  <1>5. at' \in [Threads -> Point] /\ at'[IO] = "idle" /\ \A t \in Callers : at'[t] = at[t]
    BY <1>1, IOSet DEF Point
  <1>6. Settled' /\ CallerInv' /\ QuietInv'
    BY <1>1, <1>2, <1>5, HasWork, IOMoves
  <1>7. CASE armed' = TRUE /\ stale' = (stale \/ armed) /\ UNCHANGED <<opened, pending, stopped>>
    <2>1. /\ opened' = opened /\ stopped' = stopped /\ armed' \in BOOLEAN
          /\ stale' \in BOOLEAN
      BY <1>7, Zenon
    <2>2. pending' = 0 /\ pending' \in Nat
      BY <1>4, <1>7
    <2>3. ListenTypeOK'
      BY <2>1, <2>2, <1>1, <1>2, <1>5, Zenon DEF ListenInv, ListenTypeOK, Point
    <2>4. OneAccept'
      BY <2>2 DEF OneAccept
    <2>5. TimerInv' /\ RecoverInv'
      BY <2>1, <1>3, <1>5, <1>7 DEF TimerInv, RecoverInv, IOFree, Listening
    <2> QED
      BY <2>3, <2>4, <2>5, <1>6 DEF ListenInv
  <1>8. CASE NoMemory /\ stopped' = TRUE /\ closeListen /\ UNCHANGED <<armed, stale>>
    <2>1. /\ opened' = FALSE /\ stopped' = TRUE /\ armed' = armed /\ stale' = stale
      BY <1>8 DEF closeListen
    <2>2. pending' = 0 /\ pending' \in Nat
      BY <1>8 DEF closeListen
    <2>3. ListenTypeOK'
      BY <2>1, <2>2, <1>1, <1>2, <1>5, Zenon DEF ListenInv, ListenTypeOK, Point
    <2>4. OneAccept'
      BY <2>2 DEF OneAccept
    <2>5. TimerInv' /\ RecoverInv'
      BY <2>1, <1>5 DEF TimerInv, RecoverInv, IOFree, Listening
    <2> QED
      BY <2>3, <2>4, <2>5, <1>6 DEF ListenInv
  <1> QED
    BY <1>7, <1>8 DEF StartTimer

LEMMA AcceptFailsStep == ASSUME OneListen, ListenInv, AcceptFails PROVE ListenInv'
  <1>1. /\ at[IO] = "idle" /\ pending > 0 /\ pending' = pending - 1 /\ rc' = rc /\ calls' = calls
        /\ at' = at
    BY DEF AcceptFails, IOFree
  <1>2. opened' = opened /\ armed' = armed /\ stale' = stale /\ up' = up /\ stopped' = stopped
    BY DEF AcceptFails
  <1>3. lost' = TRUE
    BY DEF AcceptFails
  <1>4. pending' = 0 /\ pending' \in Nat
    BY <1>1, AcceptIs DEF ListenInv, ListenTypeOK
  <1>5. Settled' /\ CallerInv' /\ QuietInv'
    BY <1>1, <1>2, HasWork, IOMoves
  <1>6. ListenTypeOK'
    BY <1>1, <1>2, <1>3, <1>4, Zenon DEF ListenInv, ListenTypeOK, Point
  <1>7. OneAccept'
    BY <1>4 DEF OneAccept
  <1>8. TimerInv' /\ RecoverInv'
    BY <1>1, <1>2, <1>3 DEF ListenInv, TimerInv, RecoverInv, IOFree, Listening
  <1> QED
    BY <1>5, <1>6, <1>7, <1>8 DEF ListenInv

LEMMA TimeoutStep == ASSUME OneListen, ListenInv, Timeout PROVE ListenInv'
  <1>1. /\ at[IO] = "idle" /\ pending' = pending /\ rc' = rc /\ calls' = calls
        /\ at' = [at EXCEPT ![IO] = "check"]
    BY DEF Timeout, IOFree
  <1>2. /\ opened' = opened /\ armed' = armed /\ stale' = stale /\ up' = up /\ lost' = lost
        /\ stopped' = stopped
    BY DEF Timeout
  <1>3. armed /\ ~opened
    BY <1>1 DEF ListenInv, TimerInv, Timeout
  <1>4. at' \in [Threads -> Point] /\ at'[IO] = "check" /\ \A t \in Callers : at'[t] = at[t]
    BY <1>1, IOSet DEF Point, Listening
  <1>5. Settled' /\ CallerInv' /\ QuietInv'
    BY <1>1, <1>2, <1>3, <1>4, HasWork, IOMoves
  <1>6. ListenTypeOK'
    BY <1>1, <1>2, <1>4, Zenon DEF ListenInv, ListenTypeOK, Point
  <1>7. OneAccept'
    BY <1>1, <1>2, Zenon DEF ListenInv, OneAccept
  <1>8. TimerInv' /\ RecoverInv'
    BY <1>2, <1>3, <1>4 DEF TimerInv, RecoverInv, IOFree, Listening
  <1> QED
    BY <1>5, <1>6, <1>7, <1>8 DEF ListenInv

LEMMA RestartedStep == ASSUME OneListen, ListenInv, Restarted PROVE ListenInv'
  <1>1. /\ at[IO] = "listened" /\ pending' = pending /\ rc' = rc /\ calls' = calls
        /\ at' = [at EXCEPT ![IO] = "idle"]
    BY DEF Restarted
  <1>2. opened' = opened /\ stale' = stale /\ up' = up /\ lost' = lost /\ stopped' = stopped
    BY DEF Restarted
  <1>3. armed' = (armed /\ rc[IO] \notin {"OK", "ALREADY_LISTENED"})
    BY DEF Restarted
  <1>4. at' \in [Threads -> Point] /\ at'[IO] = "idle" /\ \A t \in Callers : at'[t] = at[t]
    BY <1>1, IOSet DEF Point
  <1>5. Settled' /\ CallerInv' /\ QuietInv'
    BY <1>1, <1>2, <1>4, HasWork, IOMoves
  <1>6. ListenTypeOK'
    <2>1. armed' \in BOOLEAN
      BY <1>3, Zenon
    <2> QED
      BY <2>1, <1>1, <1>2, <1>4, Zenon DEF ListenInv, ListenTypeOK, Point
  <1>7. OneAccept'
    BY <1>1, <1>2, Zenon DEF ListenInv, OneAccept
  <1>8. /\ armed /\ (rc[IO] = "OK" => stopped \/ (opened /\ pending = 1))
        /\ rc[IO] # "OK" => rc[IO] # "ALREADY_LISTENED" /\ ~opened
    BY <1>1 DEF ListenInv, TimerInv, Listening
  <1>9. (rc[IO] = "OK" /\ ~armed') \/ (rc[IO] # "OK" /\ armed')
    BY <1>3, <1>8
  <1>10. TimerInv'
    BY <1>2, <1>4, <1>8, <1>9 DEF TimerInv, Listening
  <1>11. RecoverInv'
    BY <1>1, <1>2, <1>4, <1>8, <1>9 DEF RecoverInv, IOFree
  <1> QED
    BY <1>5, <1>6, <1>7, <1>10, <1>11 DEF ListenInv

LEMMA StopStep == ASSUME OneListen, ListenInv, Stop PROVE ListenInv'
  <1>1. pending' = 0 /\ rc' = rc /\ calls' = calls /\ at' = at
    BY DEF Stop, closeListen
  <1>2. armed' = armed /\ stale' = stale /\ up' = up /\ lost' = lost
    BY DEF Stop
  <1>3. opened' = FALSE /\ stopped' = TRUE
    BY DEF Stop, closeListen
  <1>4. Settled' <=> Settled
    BY <1>1, <1>2 DEF Settled
  <1>5. pending' \in Nat
    BY <1>1
  <1>6. ListenTypeOK'
    BY <1>1, <1>2, <1>3, <1>5, Zenon DEF ListenInv, ListenTypeOK, Point
  <1>7. OneAccept'
    BY <1>1 DEF OneAccept
  <1>8. CallerInv'
    BY <1>1, <1>2, <1>3 DEF ListenInv, CallerInv
  <1>9. QuietInv'
    BY <1>1, <1>2, <1>3, <1>4 DEF ListenInv, QuietInv
  <1>10. TimerInv' /\ RecoverInv'
    BY <1>1, <1>2, <1>3 DEF ListenInv, TimerInv, RecoverInv, IOFree
  <1> QED
    BY <1>6, <1>7, <1>8, <1>9, <1>10 DEF ListenInv

(* listen, called by handleTimeout. *)
LEMMA TimerCheck == ASSUME OneListen, ListenInv, Check(IO) PROVE ListenInv'
  <1>1. /\ at[IO] = "check" /\ at' = [at EXCEPT ![IO] = IF opened THEN "close" ELSE "open"]
        /\ rc' = [rc EXCEPT ![IO] = IF opened THEN "ALREADY_LISTENED" ELSE "OK"]
        /\ calls' = calls /\ pending' = pending
    BY DEF Check
  <1>2. /\ opened' = opened /\ armed' = armed /\ stale' = stale /\ up' = up /\ lost' = lost
        /\ stopped' = stopped
    BY DEF Check
  <1>3. ~opened /\ armed
    BY <1>1 DEF ListenInv, TimerInv, Listening
  <1>4. at' \in [Threads -> Point] /\ at'[IO] = "open" /\ \A t \in Callers : at'[t] = at[t]
    BY <1>1, <1>3, IOSet DEF Point, Listening
  <1>5. rc' \in [Threads -> Results] /\ rc'[IO] = "OK" /\ \A t \in Callers : rc'[t] = rc[t]
    BY <1>1, <1>3, RcSet, ThreadsAre DEF Results, ListenInv
  <1>6. Settled' /\ CallerInv' /\ QuietInv'
    BY <1>1, <1>2, <1>4, <1>5, HasWork, IOMoves
  <1>7. ListenTypeOK'
    BY <1>1, <1>2, <1>4, <1>5, Zenon DEF ListenInv, ListenTypeOK, Point
  <1>8. OneAccept'
    BY <1>1, <1>2, Zenon DEF ListenInv, OneAccept
  <1>9. TimerInv' /\ RecoverInv'
    BY <1>2, <1>3, <1>4, <1>5 DEF TimerInv, RecoverInv, IOFree, Listening
  <1> QED
    BY <1>6, <1>7, <1>8, <1>9 DEF ListenInv

LEMMA TimerOpen == ASSUME OneListen, ListenInv, Open(IO) PROVE ListenInv'
  <1>1. at[IO] = "open" /\ calls' = calls /\ pending' = pending
    BY DEF Open
  <1>2. armed' = armed /\ stale' = stale /\ up' = up /\ lost' = lost /\ stopped' = stopped
    BY DEF Open
  <1>3. ~opened /\ armed /\ rc[IO] = "OK"
    BY <1>1 DEF ListenInv, TimerInv, Listening
  <1>4. pending' = 0 /\ pending' \in Nat
    BY <1>1, <1>3, AcceptIs DEF ListenInv, ListenTypeOK
  <1>5. OneAccept'
    BY <1>4 DEF OneAccept
  <1>6. CASE opened' = TRUE /\ at' = [at EXCEPT ![IO] = "accept"] /\ UNCHANGED rc
    <2>1. at' \in [Threads -> Point] /\ at'[IO] = "accept" /\ \A t \in Callers : at'[t] = at[t]
      BY <1>6, IOSet DEF Point, Listening
    <2>2. Settled' /\ CallerInv' /\ QuietInv'
      BY <2>1, <1>1, <1>2, <1>6, HasWork, IOMoves
    <2>3. opened' \in BOOLEAN
      BY <1>6, Zenon
    <2>4. ListenTypeOK'
      BY <2>1, <2>3, <1>1, <1>2, <1>4, <1>6, Zenon DEF ListenInv, ListenTypeOK, Point
    <2>5. TimerInv' /\ RecoverInv'
      BY <2>1, <1>2, <1>3, <1>4, <1>6 DEF TimerInv, RecoverInv, IOFree, Listening
    <2> QED
      BY <2>2, <2>4, <2>5, <1>5 DEF ListenInv
  <1>7. CASE /\ rc' = [rc EXCEPT ![IO] = "CANNOT_LISTEN"] /\ at' = [at EXCEPT ![IO] = "close"]
             /\ UNCHANGED opened
    <2>1. at' \in [Threads -> Point] /\ at'[IO] = "close" /\ \A t \in Callers : at'[t] = at[t]
      BY <1>7, IOSet DEF Point, Listening
    <2>2. /\ rc' \in [Threads -> Results] /\ rc'[IO] = "CANNOT_LISTEN"
          /\ \A t \in Callers : rc'[t] = rc[t]
      BY <1>7, RcSet, ThreadsAre DEF Results, ListenInv
    <2>3. Settled' /\ CallerInv' /\ QuietInv'
      BY <2>1, <2>2, <1>1, <1>2, HasWork, IOMoves
    <2>4. ListenTypeOK'
      BY <2>1, <2>2, <1>1, <1>2, <1>4, <1>7, Zenon DEF ListenInv, ListenTypeOK, Point
    <2>5. TimerInv' /\ RecoverInv'
      BY <2>1, <2>2, <1>2, <1>3, <1>4, <1>7 DEF TimerInv, RecoverInv, IOFree, Listening
    <2> QED
      BY <2>3, <2>4, <2>5, <1>5 DEF ListenInv
  <1> QED
    BY <1>6, <1>7 DEF Open

LEMMA TimerAccept == ASSUME OneListen, ListenInv, IssueAccept(IO) PROVE ListenInv'
  <1>1. at[IO] = "accept" /\ calls' = calls
    BY DEF IssueAccept
  <1>2. /\ opened' = opened /\ armed' = armed /\ stale' = stale /\ up' = up /\ lost' = lost
        /\ stopped' = stopped
    BY DEF IssueAccept
  <1>3. (opened \/ stopped) /\ armed /\ rc[IO] = "OK" /\ pending = 0
    BY <1>1 DEF ListenInv, TimerInv, Listening
  <1>4. CASE asyncAccept /\ at' = [at EXCEPT ![IO] = "listened"] /\ UNCHANGED rc
    <2>1. at' \in [Threads -> Point] /\ at'[IO] = "listened" /\ \A t \in Callers : at'[t] = at[t]
      BY <1>4, IOSet DEF Point, Listening
    <2>2. Settled' /\ CallerInv' /\ QuietInv'
      BY <2>1, <1>1, <1>2, <1>4, HasWork, IOMoves
    <2>3. pending' \in Nat /\ (opened => pending' = 1) /\ (~opened => pending' = 0)
      BY <1>3, <1>4 DEF asyncAccept
    <2>4. ListenTypeOK'
      BY <2>1, <2>3, <1>1, <1>2, <1>4, Zenon DEF ListenInv, ListenTypeOK, Point
    <2>5. OneAccept'
      BY <2>3, <1>2 DEF OneAccept
    <2>6. TimerInv' /\ RecoverInv'
      BY <2>1, <2>3, <1>2, <1>3, <1>4 DEF TimerInv, RecoverInv, IOFree, Listening
    <2> QED
      BY <2>2, <2>4, <2>5, <2>6 DEF ListenInv
  <1>5. CASE /\ NoMemory /\ rc' = [rc EXCEPT ![IO] = "OOM"]
             /\ at' = [at EXCEPT ![IO] = "close"] /\ UNCHANGED pending
    <2>1. at' \in [Threads -> Point] /\ at'[IO] = "close" /\ \A t \in Callers : at'[t] = at[t]
      BY <1>5, IOSet DEF Point, Listening
    <2>2. /\ rc' \in [Threads -> Results] /\ rc'[IO] = "OOM"
          /\ \A t \in Callers : rc'[t] = rc[t]
      BY <1>5, RcSet, ThreadsAre DEF Results, ListenInv
    <2>3. Settled' /\ CallerInv' /\ QuietInv'
      BY <2>1, <2>2, <1>1, <1>2, HasWork, IOMoves
    <2>4. pending' = 0 /\ pending' \in Nat
      BY <1>3, <1>5
    <2>5. ListenTypeOK'
      BY <2>1, <2>2, <2>4, <1>1, <1>2, Zenon DEF ListenInv, ListenTypeOK, Point
    <2>6. OneAccept'
      BY <2>4 DEF OneAccept
    <2>7. TimerInv' /\ RecoverInv'
      BY <2>1, <2>2, <2>4, <1>2, <1>3 DEF TimerInv, RecoverInv, IOFree, Listening
    <2> QED
      BY <2>3, <2>5, <2>6, <2>7 DEF ListenInv
  <1> QED
    BY <1>4, <1>5 DEF IssueAccept

LEMMA TimerClose == ASSUME OneListen, ListenInv, CloseOnError(IO) PROVE ListenInv'
  <1>1. /\ at[IO] = "close" /\ at' = [at EXCEPT ![IO] = "listened"] /\ rc' = rc /\ calls' = calls
        /\ pending' = 0
    BY DEF CloseOnError, closeListen
  <1>2. armed' = armed /\ stale' = stale /\ up' = up /\ lost' = lost /\ stopped' = stopped
    BY DEF CloseOnError
  <1>3. opened' = FALSE
    BY DEF CloseOnError, closeListen
  <1>4. armed /\ rc[IO] \notin {"OK", "ALREADY_LISTENED"}
    BY <1>1 DEF ListenInv, TimerInv, Listening
  <1>5. at' \in [Threads -> Point] /\ at'[IO] = "listened" /\ \A t \in Callers : at'[t] = at[t]
    BY <1>1, IOSet DEF Point, Listening
  <1>6. Settled' /\ CallerInv' /\ QuietInv'
    BY <1>1, <1>2, <1>5, HasWork, IOMoves
  <1>7. ListenTypeOK'
    <2>1. pending' \in Nat
      BY <1>1
    <2> QED
      BY <2>1, <1>1, <1>2, <1>3, <1>5, Zenon DEF ListenInv, ListenTypeOK, Point
  <1>8. OneAccept'
    BY <1>1 DEF OneAccept
  <1>9. TimerInv' /\ RecoverInv'
    BY <1>1, <1>2, <1>3, <1>4, <1>5 DEF TimerInv, RecoverInv, IOFree, Listening
  <1> QED
    BY <1>6, <1>7, <1>8, <1>9 DEF ListenInv

LEMMA ListenStep == ASSUME OneListen PROVE ListenInv /\ [ListenNext]_listenVars => ListenInv'
  <1> SUFFICES ASSUME ListenInv, [ListenNext]_listenVars PROVE ListenInv'
    OBVIOUS
  <1>1. ASSUME NEW t \in Callers, CallListen(t) \/ ReturnFromListen(t) PROVE ListenInv'
    BY <1>1, CallStep, ReturnStep
  <1>2. ASSUME NEW t \in Threads, listen(t) PROVE ListenInv'
    <2>1. CASE t = IO
      BY <2>1, <1>2, TimerCheck, TimerOpen, TimerAccept, TimerClose DEF listen
    <2>2. CASE t \in Callers
      BY <2>2, <1>2, CallerCheck, CallerOpen, CallerAccept, CallerClose DEF listen
    <2> QED
      BY <2>1, <2>2, ThreadsAre
  <1>3. CASE AcceptCallback
    BY <1>3, AcceptCallbackStep
  <1>4. CASE ReAccept
    BY <1>4, ReAcceptStep
  <1>5. CASE TooManyFiles
    BY <1>5, TooManyFilesStep
  <1>6. CASE AcceptFails
    BY <1>6, AcceptFailsStep
  <1>7. CASE Timeout
    BY <1>7, TimeoutStep
  <1>8. CASE StartTimer
    BY <1>8, StartTimerStep
  <1>9. CASE Restarted
    BY <1>9, RestartedStep
  <1>10. CASE Stop
    BY <1>10, StopStep
  <1>11. CASE UNCHANGED listenVars
    <2>1. /\ opened' = opened /\ pending' = pending /\ armed' = armed /\ stale' = stale
          /\ at' = at /\ rc' = rc /\ calls' = calls /\ up' = up /\ lost' = lost
          /\ stopped' = stopped
      BY <1>11 DEF listenVars
    <2> QED
      BY <2>1, Zenon DEF ListenInv, ListenTypeOK, OneAccept, CallerInv, QuietInv, TimerInv,
                         RecoverInv, Settled, IOFree
  <1> QED
    BY <1>1, <1>2, <1>3, <1>4, <1>5, <1>6, <1>7, <1>8, <1>9, <1>10, <1>11 DEF ListenNext

(* listen, _acceptCallback and handleTimeout, when one thread listens once: *)
(* never two accepts wait, none waits on a closed acceptor, and a frame     *)
(* that has listened has an accept waiting or a timer that listens again,   *)
(* however often descriptors and memory run out.                            *)
THEOREM ListenIsSound == ASSUME OneListen PROVE ListenSpec => []ListenSound
  <1>1. ListenInit => ListenInv
    BY ListenInitial
  <1>2. ListenInv => ListenSound
    BY DEF ListenInv, ListenSound, RecoverInv, Recovering, Settled
  <1> QED
    BY <1>1, <1>2, ListenStep, PTL DEF ListenSpec

-----------------------------------------------------------------------------
(* The connections *)

(* A sender between the mutex of its handler and its release. *)
Connecting(t) == pc[t] \in {"dial", "setOpt", "read", "drop"}
HasHandle(t) == Connecting(t) \/ pc[t] \in {"check", "connect", "send", "close"}

(* What a read, or the I/O thread behind one, is about to do. *)
Reading(h) == reads[h] > 0 \/ io.h = h

(* A handle that was not given out. *)
Unused(h) == /\ h \notin opposite /\ h \notin dialled /\ id[h] = NoNode
             /\ isNew[h] /\ sock[h] = "none"

(* What a sender knows of its target and its handler at each point. *)
SenderOK(t) ==
  /\ eh[t] < next
  /\ pc[t] \in {"shared", "exclusive"} => node[t] \in Nodes
  /\ HasHandle(t) => eh[t] \in Handles
  /\ Connecting(t) => /\ mtx[eh[t]] = t /\ eh[t] \in dialled
                      /\ ~Reading(eh[t]) /\ closes[eh[t]] = 0
  /\ pc[t] \in {"setOpt", "read"} => sock[eh[t]] # "none"
  /\ pc[t] \in {"read", "send", "close"} => ~isNew[eh[t]]

HandlerOK(h) ==
  /\ isNew[h] => ~isConnected[h] /\ ~Reading(h) /\ closes[h] = 0
  /\ isConnected[h] => sock[h] # "none"
  /\ h \in dialled => id[h] \in Nodes
  /\ h < next /\ h \notin dialled => ~isNew[h]
  /\ Reading(h) => closes[h] = 0 /\ sock[h] # "none"
  /\ Reading(h) /\ id[h] = NoNode => h \in opposite

UnusedInv == \A h \in Handles : h >= next => Unused(h)
SenderInv == \A t \in Senders : SenderOK(t)
HandlerInv == \A h \in Handles : HandlerOK(h)

IOInv == io = IOIdle \/ (io.do = "read" /\ io.h \in Handles)

(* A handler in the maps that is no longer new, closed or not, has its     *)
(* reader.                                                                 *)
EraserInv == ~CloseNew /\ ~OutOfMemory =>
  \A h \in opposite : ~isNew[h] => Reading(h) \/ \E t \in Senders : eh[t] = h /\ Connecting(t)

OneRoute == \A n \in Nodes : \A h, k \in Range(route[n]) \cap dialled : h = k

HandleInv == /\ TypeOK /\ MapsAgree /\ OneRoute /\ OneRead /\ ToldOnce
             /\ UnusedInv /\ SenderInv /\ HandlerInv /\ IOInv /\ EraserInv


(* Sequences without repetition: what is left when an element is taken out *)
(* and what is there when one is added.                                    *)
LEMMA Removed ==
  ASSUME NEW S, NEW s \in Seq(S), IsInjective(s), NEW e
  PROVE  /\ RemoveFirst(s, e) \in Seq(S) /\ IsInjective(RemoveFirst(s, e))
         /\ Range(RemoveFirst(s, e)) = Range(s) \ {e}
  <1>1. Len(s) \in Nat /\ DOMAIN s = 1 .. Len(s)
    OBVIOUS
  <1>2. CASE ~\E i \in 1 .. Len(s) : s[i] = e
    <2>1. RemoveFirst(s, e) = s
      BY <1>2 DEF RemoveFirst
    <2> QED
      BY <2>1, <1>1, <1>2 DEF Range
  <1>3. CASE \E i \in 1 .. Len(s) : s[i] = e
    <2>1. PICK i \in 1 .. Len(s) : s[i] = e
      BY <1>3
    <2> DEFINE a == SubSeq(s, 1, i - 1)
               b == SubSeq(s, i + 1, Len(s))
               n == Len(s)
    <2>2. SelectInSeq(s, LAMBDA v : v = e) = i
      <3> DEFINE I == {j \in 1 .. Len(s) : s[j] = e}
      <3>1. I = {i}
        BY <2>1, <1>1 DEF IsInjective
      <3>2. Min(I) = i
        BY <3>1 DEF Min
      <3> QED
        BY <3>1, <3>2 DEF SelectInSeq
    <2>3. RemoveFirst(s, e) = a \o b
      BY <2>2, <1>3 DEF RemoveFirst, RemoveAt
    <2>4. a \in Seq(S) /\ Len(a) = i - 1 /\ \A j \in 1 .. i - 1 : a[j] = s[j]
      BY SubSeqProperties, <1>1
    <2>5. b \in Seq(S) /\ Len(b) = n - i /\ \A j \in 1 .. n - i : b[j] = s[i + j]
      <3>1. i + 1 \in 1 .. n + 1 /\ n \in Nat
        BY <1>1
      <3>2. /\ b \in Seq(S)
            /\ Len(b) = IF i + 1 <= n THEN (n - (i + 1)) + 1 ELSE 0
            /\ \A j \in 1 .. (n - (i + 1)) + 1 : b[j] = s[(i + 1) + j - 1]
        BY <3>1, <1>1, SubSeqProperties
      <3> HIDE DEF b
      <3> HIDE DEF n
      <3>3. \A j \in 1 .. n - i : j \in 1 .. (n - (i + 1)) + 1 /\ (i + 1) + j - 1 = i + j
        BY <3>1
      <3>4. Len(b) = n - i
        BY <3>1, <3>2
      <3> QED
        BY <3>2, <3>3, <3>4
    <2> HIDE DEF a, b
    <2>6. /\ a \o b \in Seq(S) /\ Len(a \o b) = n - 1
          /\ \A j \in 1 .. n - 1 : (a \o b)[j] = IF j < i THEN s[j] ELSE s[j + 1]
      <3>1. Len(a) + Len(b) = n - 1 /\ n \in Nat
        BY <2>4, <2>5, <1>1
      <3>2. /\ a \o b \in Seq(S) /\ Len(a \o b) = Len(a) + Len(b)
            /\ \A j \in 1 .. Len(a) + Len(b) :
                  (a \o b)[j] = IF j <= Len(a) THEN a[j] ELSE b[j - Len(a)]
        BY <2>4, <2>5, ConcatProperties
      <3> DEFINE r == a \o b
      <3> HIDE DEF r, n
      <3>3. ASSUME NEW j \in 1 .. n - 1 PROVE r[j] = IF j < i THEN s[j] ELSE s[j + 1]
        <4>1. r[j] = IF j <= i - 1 THEN a[j] ELSE b[j - (i - 1)]
          BY <3>1, <3>2, <2>4 DEF r
        <4>2. CASE j < i
          BY <4>1, <4>2, <2>4, <3>1
        <4>3. CASE ~(j < i)
          <5>1. j - (i - 1) \in 1 .. n - i /\ i + (j - (i - 1)) = j + 1
            BY <4>3, <3>1
          <5> QED
            BY <5>1, <4>1, <4>3, <2>5, <3>1
        <4> QED
          BY <4>2, <4>3
      <3> QED
        BY <3>1, <3>2, <3>3 DEF r
    <2> DEFINE r == a \o b
    <2>7. DOMAIN r = 1 .. n - 1 /\ \A j \in 1 .. n - 1 : r[j] = IF j < i THEN s[j] ELSE s[j + 1]
      BY <2>6, <1>1
    <2> HIDE DEF r
    <2>8. IsInjective(r)
      BY <2>7, <1>1, SMTT(30) DEF IsInjective
    <2>9. Range(r) = Range(s) \ {e}
      <3>1. ASSUME NEW j \in 1 .. n - 1 PROVE r[j] \in Range(s) \ {e}
        <4>1. CASE j < i
          <5>1. r[j] = s[j] /\ j \in 1 .. n /\ j # i
            BY <4>1, <2>7, <1>1
          <5> QED
            BY <5>1, <2>1, <1>1 DEF Range, IsInjective
        <4>2. CASE ~(j < i)
          <5>1. r[j] = s[j + 1] /\ j + 1 \in 1 .. n /\ j + 1 # i
            BY <4>2, <2>7, <1>1
          <5> QED
            BY <5>1, <2>1, <1>1 DEF Range, IsInjective
        <4> QED
          BY <4>1, <4>2
      <3>2. ASSUME NEW k \in 1 .. n, s[k] # e PROVE \E j \in 1 .. n - 1 : r[j] = s[k]
        <4>1. CASE k < i
          <5>1. k \in 1 .. n - 1 /\ r[k] = s[k]
            BY <4>1, <2>7, <1>1
          <5> QED
            BY <5>1
        <4>2. CASE k > i
          <5>1. k - 1 \in 1 .. n - 1 /\ r[k - 1] = s[k]
            BY <4>2, <2>7, <1>1
          <5> QED
            BY <5>1
        <4> QED
          BY <4>1, <4>2, <3>2, <2>1
      <3> HIDE DEF n
      <3>3. Range(r) \subseteq Range(s) \ {e}
        BY <3>1, <2>7 DEF Range
      <3>4. DOMAIN s = 1 .. n
        BY <1>1 DEF n
      <3>5. Range(s) \ {e} \subseteq Range(r)
        BY <3>2, <3>4, <2>7 DEF Range
      <3> QED
        BY <3>3, <3>5
    <2> QED
      BY <2>3, <2>6, <2>8, <2>9 DEF r
  <1> QED
    BY <1>2, <1>3

LEMMA Appended ==
  ASSUME NEW S, NEW s \in Seq(S), IsInjective(s), NEW e \in S, e \notin Range(s)
  PROVE  /\ Append(s, e) \in Seq(S) /\ IsInjective(Append(s, e))
         /\ Range(Append(s, e)) = Range(s) \cup {e}
  <1> DEFINE r == Append(s, e)
             n == Len(s)
  <1>1. n \in Nat /\ DOMAIN s = 1 .. n
    OBVIOUS
  <1>2. r \in Seq(S) /\ DOMAIN r = 1 .. n + 1 /\ r[n + 1] = e /\ \A j \in 1 .. n : r[j] = s[j]
    BY <1>1
  <1>3. \A j \in 1 .. n : s[j] # e
    BY <1>1 DEF Range
  <1> HIDE DEF r
  <1>4. IsInjective(r)
    BY <1>1, <1>2, <1>3 DEF IsInjective
  <1>5. Range(r) = Range(s) \cup {e}
    <2>1. \A j \in 1 .. n + 1 : r[j] \in Range(s) \cup {e}
      BY <1>1, <1>2 DEF Range
    <2>2. \A k \in 1 .. n : k \in 1 .. n + 1
      BY <1>1
    <2>3. n + 1 \in 1 .. n + 1
      BY <1>1
    <2> QED
      BY <2>1, <2>2, <2>3, <1>1, <1>2 DEF Range
  <1> QED
    BY <1>2, <1>4, <1>5 DEF r

LEMMA HandlesAre == /\ MaxHandles \in Nat /\ NoHandle \notin Handles /\ NoHandle = 0
                    /\ Handles \subseteq Nat /\ NoNode \notin Nodes /\ Free \notin Senders
                    /\ \A h \in Nat : h \in Handles <=> 1 <= h /\ h <= MaxHandles
  BY HandleAssumption DEF Handles, NoHandle

LEMMA HandleInit == Init => HandleInv
  <1> SUFFICES ASSUME Init PROVE HandleInv
    OBVIOUS
  <1>1. /\ opposite = {} /\ route = [n \in Nodes |-> << >>] /\ next = 1 /\ dialled = {}
        /\ id = [h \in Handles |-> NoNode] /\ io = IOIdle
    BY DEF Init
  <1>2. /\ isConnected = [h \in Handles |-> FALSE] /\ isNew = [h \in Handles |-> TRUE]
    BY DEF Init
  <1>3. /\ sock = [h \in Handles |-> "none"] /\ reads = [h \in Handles |-> 0]
        /\ mtx = [h \in Handles |-> Free] /\ closes = [h \in Handles |-> 0]
    BY DEF Init
  <1>4. /\ pc = [t \in Senders |-> "idle"] /\ node = [t \in Senders |-> NoNode]
        /\ eh = [t \in Senders |-> NoHandle]
    BY DEF Init
  <1>5. io.h = 0 /\ io \in [do : {"idle", "read"}, h : Handles \cup {NoHandle}]
    BY <1>1 DEF IOIdle, NoHandle
  <1>6. TypeOK
    <2>1. isConnected \in [Handles -> BOOLEAN] /\ isNew \in [Handles -> BOOLEAN]
      BY <1>2
    <2>2. next \in 1 .. MaxHandles + 1
      BY <1>1, HandlesAre
    <2>3. route \in [Nodes -> Seq(Handles)] /\ opposite \subseteq Handles /\ dialled \subseteq Handles
      BY <1>1
    <2>4. /\ sock \in [Handles -> {"none", "up", "down"}] /\ reads \in [Handles -> Nat]
          /\ mtx \in [Handles -> Senders \cup {Free}] /\ closes \in [Handles -> Nat]
      BY <1>3
    <2>5. /\ pc \in [Senders -> {"idle", "shared", "exclusive", "check", "connect", "dial",
                                 "setOpt", "read", "drop", "send", "close"}]
          /\ node \in [Senders -> Nodes \cup {NoNode}] /\ eh \in [Senders -> Handles \cup {NoHandle}]
      BY <1>4
    <2>6. id \in [Handles -> Nodes \cup {NoNode}]
      BY <1>1
    <2> QED
      BY <2>1, <2>2, <2>3, <2>4, <2>5, <2>6, <1>5, Zenon DEF TypeOK
  <1>7. \A n \in Nodes : IsInjective(route[n]) /\ Range(route[n]) = {}
    BY <1>1 DEF IsInjective, Range
  <1>8. \A h \in Handles : /\ ~isConnected[h] /\ isNew[h] /\ sock[h] = "none" /\ ~Reading(h)
                           /\ closes[h] = 0 /\ reads[h] = 0 /\ id[h] = NoNode /\ ~(h < 1)
    BY <1>1, <1>2, <1>3, <1>5, HandlesAre DEF Reading
  <1>9. MapsAgree /\ OneRoute
    BY <1>7 DEF MapsAgree, OneRoute
  <1>10. OneRead /\ ToldOnce
    BY <1>8 DEF OneRead, ToldOnce
  <1>11. UnusedInv /\ HandlerInv
    <2>1. UnusedInv
      BY <1>1, <1>8 DEF UnusedInv, Unused
    <2>2. HandlerInv
      BY <1>1, <1>8 DEF HandlerInv, HandlerOK
    <2> QED
      BY <2>1, <2>2
  <1>12. SenderInv
    BY <1>1, <1>4 DEF SenderInv, SenderOK, HasHandle, Connecting, NoHandle
  <1>13. IOInv /\ EraserInv
    BY <1>1 DEF IOInv, EraserInv
  <1> QED
    BY <1>6, <1>9, <1>10, <1>11, <1>12, <1>13 DEF HandleInv

(* What closing may do to the flags of handlers, and what nothing else that *)
(* a step does to a handler in use comes near to.                           *)
Shut == \A h \in Handles :
  /\ isConnected'[h] => isConnected[h]
  /\ isNew'[h] => isNew[h]
  /\ sock'[h] = "none" <=> sock[h] = "none"
  /\ h >= next => isNew'[h]

(* A new handler is closed only if the application may do so. *)
Aged(h) == ~CloseNew /\ ~isNew'[h] => ~isNew[h]

Lowered == Shut /\ \A h \in Handles : Aged(h)

FlagsType == /\ isConnected \in [Handles -> BOOLEAN] /\ isNew \in [Handles -> BOOLEAN]
             /\ sock \in [Handles -> {"none", "up", "down"}]

(* A sender that does not move, and one that moves without leaving its     *)
(* connection.                                                             *)
Stays(u) == pc'[u] = pc[u] /\ node'[u] = node[u] /\ eh'[u] = eh[u]
Goes(u) == SenderOK(u)' /\ (Connecting(u) => Connecting(u)' /\ eh'[u] = eh[u])

LEMMA SameFlags == ASSUME HandleInv, UNCHANGED flags PROVE Lowered /\ FlagsType'
  <1>1. isConnected' = isConnected /\ isNew' = isNew /\ sock' = sock
    BY DEF flags
  <1>2. \A h \in Handles : h >= next => isNew[h]
    BY DEF HandleInv, UnusedInv, Unused
  <1>3. Lowered
    BY <1>1, <1>2 DEF Lowered, Shut, Aged
  <1>4. FlagsType'
    BY <1>1 DEF HandleInv, TypeOK, FlagsType
  <1> QED
    BY <1>3, <1>4

(* close: an open socket stays open or goes down, and no handler gets new  *)
(* or connected.                                                           *)
LEMMA Shutting ==
  ASSUME HandleInv, NEW hs, CloseHandlers(hs), \A h \in Handles : h \in hs => h < next
  PROVE  /\ Shut /\ FlagsType'
         /\ \A h \in Handles : isNew'[h] <=> isNew[h] /\ h \notin hs
  <1>1. /\ sock' = [h \in Handles |-> IF h \in hs /\ sock[h] = "up" THEN "down" ELSE sock[h]]
        /\ isConnected' = [h \in Handles |-> isConnected[h] /\ h \notin hs]
        /\ isNew' = [h \in Handles |-> isNew[h] /\ h \notin hs]
    BY DEF CloseHandlers
  <1>2. sock \in [Handles -> {"none", "up", "down"}] /\ next \in Nat /\ Handles \subseteq Nat
    BY HandlesAre DEF HandleInv, TypeOK
  <1>3. \A h \in Handles : h >= next => isNew[h]
    BY DEF HandleInv, UnusedInv, Unused
  <1>4. \A h \in Handles : (isConnected'[h] <=> isConnected[h] /\ h \notin hs)
    BY <1>1
  <1>5. \A h \in Handles : (isNew'[h] <=> isNew[h] /\ h \notin hs)
    BY <1>1
  <1>6. \A h \in Handles : (sock'[h] = "none" <=> sock[h] = "none")
    BY <1>1, <1>2
  <1>7. \A h \in Handles : h >= next => h \notin hs
    BY <1>2
  <1>8. Shut
    BY <1>3, <1>4, <1>5, <1>6, <1>7 DEF Shut
  <1>9. isConnected' \in [Handles -> BOOLEAN] /\ isNew' \in [Handles -> BOOLEAN]
    BY <1>1
  <1>10. sock' \in [Handles -> {"none", "up", "down"}]
    BY <1>1, <1>2
  <1> QED
    BY <1>5, <1>8, <1>9, <1>10 DEF FlagsType

LEMMA Closing ==
  ASSUME HandleInv, NEW hs, CloseHandlers(hs),
         \A h \in Handles : h \in hs => h < next /\ (~CloseNew => ~isNew[h])
  PROVE  Lowered /\ FlagsType'
  BY Shutting DEF Lowered, Aged

(* A step that leaves the maps, the reads and what was told alone.         *)
LEMMA Steady ==
  ASSUME HandleInv, TypeOK', UNCHANGED <<maps, next, id, dialled, closes>>, Lowered,
         \A h \in Handles : Reading(h)' <=> Reading(h), OneRead', IOInv',
         \A h \in Handles : mtx'[h] = mtx[h] \/ mtx[h] = Free,
         \A u \in Senders : Stays(u) \/ Goes(u)
  PROVE  HandleInv'
  <1>1. /\ opposite' = opposite /\ route' = route /\ next' = next /\ id' = id
        /\ dialled' = dialled /\ closes' = closes
    BY DEF maps
  <1>2. MapsAgree' /\ OneRoute'
    BY <1>1 DEF HandleInv, MapsAgree, OneRoute
  <1>3. HandlerInv'
    BY <1>1 DEF HandleInv, HandlerInv, HandlerOK, Lowered, Shut, Aged
  <1>4. ToldOnce'
    <2>1. \A h \in Handles : closes[h] = 1 => reads'[h] = 0
      <3> SUFFICES ASSUME NEW h \in Handles, closes[h] = 1 PROVE reads'[h] = 0
        OBVIOUS
      <3>1. ~Reading(h)'
        BY DEF HandleInv, HandlerInv, HandlerOK
      <3> QED
        BY <3>1 DEF Reading, TypeOK
    <2> QED
      BY <2>1, <1>1 DEF HandleInv, ToldOnce
  <1>5. UnusedInv'
    BY <1>1 DEF HandleInv, UnusedInv, Unused, Lowered, Shut, Aged
  <1>6. SenderInv'
    <2> SUFFICES ASSUME NEW u \in Senders PROVE SenderOK(u)'
      BY DEF SenderInv
    <2>1. CASE Goes(u)
      BY <2>1 DEF Goes
    <2>2. CASE Stays(u)
      <3>1. SenderOK(u) /\ pc'[u] = pc[u] /\ node'[u] = node[u] /\ eh'[u] = eh[u]
        BY <2>2 DEF HandleInv, SenderInv, Stays
      <3>2. HasHandle(u) => /\ eh[u] \in Handles /\ (isNew'[eh[u]] => isNew[eh[u]])
                            /\ (sock'[eh[u]] = "none" <=> sock[eh[u]] = "none")
                            /\ (Reading(eh[u])' <=> Reading(eh[u]))
        BY <3>1 DEF SenderOK, Lowered, Shut, Aged
      <3>3. Connecting(u) => mtx'[eh[u]] = u
        BY <3>1, <3>2, HandlesAre DEF SenderOK, HasHandle
      <3>4. (Connecting(u)' <=> Connecting(u)) /\ (HasHandle(u)' <=> HasHandle(u))
        BY <3>1 DEF Connecting, HasHandle
      <3> QED
        BY <1>1, <3>1, <3>2, <3>3, <3>4 DEF SenderOK, HasHandle, Connecting, Reading
    <2> QED
      BY <2>1, <2>2
  <1>7. EraserInv'
    <2> SUFFICES ASSUME ~CloseNew, ~OutOfMemory, NEW h \in opposite, ~isNew'[h]
                 PROVE  Reading(h)' \/ \E t \in Senders : eh'[t] = h /\ Connecting(t)'
      BY <1>1 DEF EraserInv
    <2>1. h \in Handles /\ ~isNew[h]
      BY DEF HandleInv, TypeOK, Lowered, Shut, Aged
    <2>2. Reading(h) \/ \E t \in Senders : eh[t] = h /\ Connecting(t)
      BY <2>1 DEF HandleInv, EraserInv
    <2>3. ASSUME NEW t \in Senders, eh[t] = h, Connecting(t) PROVE eh'[t] = h /\ Connecting(t)'
      BY <2>3 DEF Stays, Goes, Connecting
    <2> QED
      BY <2>1, <2>2, <2>3
  <1> QED
    BY <1>2, <1>3, <1>4, <1>5, <1>6, <1>7 DEF HandleInv

(* The points of syncSendBuf. *)
Steps == {"idle", "shared", "exclusive", "check", "connect", "dial", "setOpt", "read", "drop",
          "send", "close"}

(* Reads and the I/O thread are as they were. *)
LEMMA ReadsKept == ASSUME HandleInv, Lowered, reads' = reads, io' = io
                   PROVE  OneRead' /\ IOInv' /\ \A h \in Handles : Reading(h)' <=> Reading(h)
  <1>1. OneRead'
    BY DEF HandleInv, OneRead, Lowered, Shut, Aged
  <1>2. IOInv'
    BY DEF HandleInv, IOInv
  <1> QED
    BY <1>1, <1>2 DEF Reading

(* A sender t goes on to a point outside its connection. *)
LEMMA SenderMoves ==
  ASSUME HandleInv, NEW t \in Senders, Lowered, FlagsType',
         UNCHANGED <<maps, next, id, reads, dialled, closes, io>>,
         NEW l \in Steps, pc' = [pc EXCEPT ![t] = l],
         NEW n \in Nodes \cup {NoNode}, node' = [node EXCEPT ![t] = n],
         NEW k \in Handles \cup {NoHandle}, eh' = [eh EXCEPT ![t] = k],
         mtx' \in [Handles -> Senders \cup {Free}],
         \A h \in Handles : mtx'[h] = mtx[h] \/ mtx[h] = Free,
         Connecting(t) => l \in {"dial", "setOpt", "read", "drop"} /\ k = eh[t],
         SenderOK(t)'
  PROVE  HandleInv'
  <1>1. /\ opposite' = opposite /\ route' = route /\ next' = next /\ id' = id
        /\ reads' = reads /\ dialled' = dialled /\ closes' = closes /\ io' = io
    BY DEF maps
  <1>2. /\ pc' \in [Senders -> Steps] /\ node' \in [Senders -> Nodes \cup {NoNode}]
        /\ eh' \in [Senders -> Handles \cup {NoHandle}]
    BY DEF HandleInv, TypeOK, Steps
  <1>3. TypeOK'
    BY <1>1, <1>2, ZenonT(40) DEF HandleInv, TypeOK, FlagsType, Steps
  <1>4. ASSUME NEW u \in Senders, u # t PROVE Stays(u)
    BY <1>4 DEF Stays, HandleInv, TypeOK
  <1>5. Goes(t)
    BY DEF Goes, HandleInv, TypeOK, Connecting
  <1>6. OneRead' /\ IOInv' /\ \A h \in Handles : Reading(h)' <=> Reading(h)
    BY <1>1, ReadsKept
  <1> QED
    BY <1>1, <1>3, <1>4, <1>5, <1>6, Steady

(* What is known of a sender and its handler. *)
LEMMA SenderKnows ==
  ASSUME HandleInv, NEW t \in Senders
  PROVE  /\ SenderOK(t) /\ pc[t] \in Steps /\ node[t] \in Nodes \cup {NoNode}
         /\ eh[t] \in Handles \cup {NoHandle} /\ eh[t] \in Nat /\ next \in Nat
         /\ mtx \in [Handles -> Senders \cup {Free}]
         /\ pc \in [Senders -> Steps] /\ node \in [Senders -> Nodes \cup {NoNode}]
         /\ eh \in [Senders -> Handles \cup {NoHandle}]
         /\ node = [node EXCEPT ![t] = node[t]] /\ eh = [eh EXCEPT ![t] = eh[t]]
  <1>1. /\ pc \in [Senders -> Steps] /\ node \in [Senders -> Nodes \cup {NoNode}]
        /\ eh \in [Senders -> Handles \cup {NoHandle}] /\ next \in Nat
        /\ mtx \in [Handles -> Senders \cup {Free}]
    BY HandlesAre DEF HandleInv, TypeOK, Steps
  <1>2. SenderOK(t)
    BY DEF HandleInv, SenderInv
  <1>3. eh[t] \in Nat
    <2>1. Handles \cup {NoHandle} \subseteq Nat
      BY HandlesAre
    <2> QED
      BY <1>1, <2>1
  <1> QED
    BY <1>1, <1>2, <1>3

(* The first handler of a node is in the maps and was given out. *)
LEMMA FirstHandler ==
  ASSUME HandleInv, NEW n \in Nodes, route[n] # << >>
  PROVE  Head(route[n]) \in Range(route[n]) /\ Head(route[n]) \in Handles /\ Head(route[n]) < next
  <1>1. route[n] \in Seq(Handles) /\ Head(route[n]) \in Handles
    BY DEF HandleInv, TypeOK
  <1>2. Head(route[n]) \in Range(route[n])
    BY <1>1 DEF Range
  <1>3. Head(route[n]) \in opposite
    BY <1>2 DEF HandleInv, MapsAgree
  <1>4. next \in Nat
    BY HandlesAre DEF HandleInv, TypeOK
  <1>5. Head(route[n]) \in Nat
    <2> DEFINE h == Head(route[n])
    <2>1. h \in Handles /\ Handles \subseteq Nat
      BY <1>1, HandlesAre
    <2> HIDE DEF h
    <2>2. h \in Nat
      BY <2>1
    <2> QED
      BY <2>2 DEF h
  <1>6. UnusedInv
    BY DEF HandleInv
  <1>7. Head(route[n]) < next
    <2> DEFINE h == Head(route[n])
    <2>1. h \in opposite /\ h \in Handles /\ h \in Nat
      BY <1>1, <1>3, <1>5
    <2> HIDE DEF h
    <2>2. h < next
      BY <2>1, <1>4, <1>6 DEF UnusedInv, Unused
    <2> QED
      BY <2>2 DEF h
  <1> QED
    BY <1>1, <1>2, <1>7

LEMMA SendStep == ASSUME HandleInv, NEW t \in Senders, NEW n \in Nodes, Send(t, n) PROVE HandleInv'
  <1>1. /\ pc[t] = "idle" /\ pc' = [pc EXCEPT ![t] = "shared"] /\ node' = [node EXCEPT ![t] = n]
        /\ eh' = eh /\ mtx' = mtx /\ next' = next /\ UNCHANGED flags
        /\ UNCHANGED <<maps, next, id, reads, dialled, closes, io>>
    BY DEF Send, Goto
  <1>2. Lowered /\ FlagsType'
    BY <1>1, SameFlags
  <1>3. SenderOK(t)'
    <2>1. pc'[t] = "shared" /\ node'[t] = n /\ eh'[t] = eh[t]
      BY <1>1, SenderKnows
    <2> QED
      BY <1>1, <2>1, SenderKnows DEF SenderOK, HasHandle, Connecting
  <1>4. eh' = [eh EXCEPT ![t] = eh[t]] /\ ~Connecting(t)
    BY <1>1, SenderKnows DEF Connecting
  <1>5. "shared" \in Steps
    BY DEF Steps
  <1> QED
    BY <1>1, <1>2, <1>3, <1>4, <1>5, SenderKnows, SenderMoves

(* A lookup that finds a handler, under either lock. *)
LEMMA FoundStep ==
  ASSUME HandleInv, NEW t \in Senders, pc[t] \in {"shared", "exclusive"}, route[node[t]] # << >>,
         eh' = [eh EXCEPT ![t] = Head(route[node[t]])], Goto(t, "check"),
         UNCHANGED <<maps, next, id, flags, reads, mtx, dialled, closes, node, io>>
  PROVE  HandleInv'
  <1> DEFINE k == Head(route[node[t]])
  <1>1. k \in Handles /\ k < next
    BY SenderKnows, FirstHandler DEF SenderOK
  <1> HIDE DEF k
  <1>2. /\ pc' = [pc EXCEPT ![t] = "check"] /\ node' = [node EXCEPT ![t] = node[t]]
        /\ eh' = [eh EXCEPT ![t] = k] /\ mtx' = mtx /\ next' = next /\ UNCHANGED flags
        /\ UNCHANGED <<maps, next, id, reads, dialled, closes, io>>
    BY SenderKnows DEF Goto, k
  <1>3. Lowered /\ FlagsType'
    BY <1>2, SameFlags
  <1>4. SenderOK(t)'
    <2>1. pc'[t] = "check" /\ eh'[t] = k
      BY <1>2, SenderKnows
    <2> QED
      BY <1>1, <1>2, <2>1 DEF SenderOK, HasHandle, Connecting
  <1>5. ~Connecting(t) /\ "check" \in Steps
    BY DEF Connecting, Steps
  <1> QED
    BY <1>1, <1>2, <1>3, <1>4, <1>5, SenderKnows, SenderMoves

(* A step that only moves a sender, without its handler. *)
LEMMA OnlyMoves ==
  ASSUME HandleInv, NEW t \in Senders, NEW l \in Steps, Goto(t, l), ~Connecting(t),
         l \notin {"shared", "exclusive", "dial", "setOpt", "read", "drop"} \/
           (l = "exclusive" /\ pc[t] = "shared"),
         l \in {"check", "connect", "send", "close"} => HasHandle(t),
         l \in {"send", "close"} => ~isNew[eh[t]],
         UNCHANGED <<maps, next, id, flags, reads, mtx, dialled, closes, node, eh, io>>
  PROVE  HandleInv'
  <1>1. /\ pc' = [pc EXCEPT ![t] = l] /\ node' = [node EXCEPT ![t] = node[t]] /\ node' = node
        /\ eh' = [eh EXCEPT ![t] = eh[t]] /\ eh' = eh /\ mtx' = mtx /\ next' = next
        /\ UNCHANGED flags /\ isNew' = isNew
        /\ UNCHANGED <<maps, next, id, reads, dialled, closes, io>>
    BY SenderKnows DEF Goto, flags
  <1>2. Lowered /\ FlagsType'
    BY <1>1, SameFlags
  <1>3. SenderOK(t)'
    <2>1. pc'[t] = l
      BY <1>1, SenderKnows
    <2> QED
      BY <1>1, <2>1, SenderKnows DEF SenderOK, HasHandle, Connecting
  <1> QED
    BY <1>1, <1>2, <1>3, SenderKnows, SenderMoves

LEMMA GetSharedStep == ASSUME HandleInv, NEW t \in Senders, GetShared(t) PROVE HandleInv'
  <1>1. pc[t] = "shared" /\ UNCHANGED <<maps, next, id, flags, reads, mtx, dialled, closes, node, io>>
    BY DEF GetShared
  <1>2. CASE route[node[t]] # << >>
    BY <1>1, <1>2, FoundStep DEF GetShared
  <1>3. CASE ~(route[node[t]] # << >>)
    <2>1. UNCHANGED eh /\ Goto(t, "exclusive")
      BY <1>3 DEF GetShared
    <2>2. "exclusive" \in Steps /\ ~Connecting(t)
      BY <1>1 DEF Steps, Connecting
    <2> QED
      BY <1>1, <2>1, <2>2, OnlyMoves
  <1> QED
    BY <1>2, <1>3

LEMMA CheckConnectedStep == ASSUME HandleInv, NEW t \in Senders, CheckConnected(t) PROVE HandleInv'
  <1>1. /\ pc[t] = "check" /\ Goto(t, IF isConnected[eh[t]] THEN "send" ELSE "connect")
        /\ UNCHANGED <<maps, next, id, flags, reads, mtx, dialled, closes, node, eh, io>>
    BY DEF CheckConnected
  <1>2. "send" \in Steps /\ "connect" \in Steps /\ ~Connecting(t) /\ HasHandle(t)
    BY <1>1 DEF Steps, Connecting, HasHandle
  <1>3. isConnected[eh[t]] => ~isNew[eh[t]]
    BY <1>2, SenderKnows DEF SenderOK, HandleInv, HandlerInv, HandlerOK
  <1>4. CASE isConnected[eh[t]]
    <2>1. Goto(t, "send")
      BY <1>1, <1>4
    <2> QED
      BY <1>1, <1>2, <1>3, <1>4, <2>1, OnlyMoves
  <1>5. CASE ~isConnected[eh[t]]
    <2>1. Goto(t, "connect")
      BY <1>1, <1>5
    <2> QED
      BY <1>1, <1>2, <2>1, OnlyMoves
  <1> QED
    BY <1>4, <1>5

(* syncConnect: a new handler is connected by nobody else, as nobody holds *)
(* its mutex, and is not read.                                             *)
LEMMA ConnectStep == ASSUME HandleInv, NEW t \in Senders, Connect(t) PROVE HandleInv'
  <1>1. /\ pc[t] = "connect" /\ mtx[eh[t]] = Free
        /\ UNCHANGED <<maps, next, id, flags, reads, dialled, closes, node, eh, io>>
    BY DEF Connect
  <1>2. ~Connecting(t) /\ HasHandle(t) /\ eh[t] \in Handles
    BY <1>1, SenderKnows DEF Connecting, HasHandle, SenderOK
  <1>3. HandlerOK(eh[t])
    BY <1>2 DEF HandleInv, HandlerInv
  <1>4. CASE isConnected[eh[t]]
    <2>1. Goto(t, "send") /\ mtx' = mtx /\ ~isNew[eh[t]] /\ "send" \in Steps
      BY <1>3, <1>4 DEF Connect, HandlerOK, Steps
    <2> QED
      BY <1>1, <1>2, <2>1, OnlyMoves
  <1>5. CASE ~isConnected[eh[t]] /\ ~isNew[eh[t]]
    <2>1. Goto(t, "idle") /\ mtx' = mtx /\ "idle" \in Steps
      BY <1>5 DEF Connect, Steps
    <2> QED
      BY <1>1, <1>2, <2>1, OnlyMoves
  <1>6. CASE ~isConnected[eh[t]] /\ isNew[eh[t]]
    <2> DEFINE k == eh[t]
    <2>1. /\ pc' = [pc EXCEPT ![t] = "dial"] /\ mtx' = [mtx EXCEPT ![k] = t] /\ "dial" \in Steps
          /\ node' = [node EXCEPT ![t] = node[t]] /\ eh' = [eh EXCEPT ![t] = k]
          /\ UNCHANGED <<maps, next, id, reads, dialled, closes, io>> /\ UNCHANGED flags
      BY <1>1, <1>6, SenderKnows DEF Connect, Goto, Steps
    <2>2. /\ eh' = eh /\ reads' = reads /\ io' = io /\ closes' = closes /\ dialled' = dialled
          /\ next' = next
      BY <1>1
    <2>3. Lowered /\ FlagsType'
      BY <2>1, SameFlags
    <2>4. k \in dialled /\ ~Reading(k) /\ closes[k] = 0 /\ k < next
      BY <1>2, <1>3, <1>6, SenderKnows DEF HandlerOK, SenderOK
    <2>5. mtx' \in [Handles -> Senders \cup {Free}] /\ mtx'[k] = t
      BY <1>2, <2>1, SenderKnows
    <2>6. \A h \in Handles : mtx'[h] = mtx[h] \/ mtx[h] = Free
      BY <1>1, <1>2, <2>1, SenderKnows
    <2>7. pc'[t] = "dial" /\ eh'[t] = k
      BY <2>1, SenderKnows
    <2>8. ~Reading(eh[t])'
      BY <2>2, <2>4 DEF Reading
    <2>9. SenderOK(t)'
      BY <1>2, <2>2, <2>4, <2>5, <2>7, <2>8 DEF SenderOK, HasHandle, Connecting
    <2> HIDE DEF k
    <2>10. k \in Handles \cup {NoHandle}
      BY <1>2 DEF k
    <2> QED
      BY <1>2, <2>1, <2>3, <2>5, <2>6, <2>9, <2>10, SenderKnows, SenderMoves
  <1> QED
    BY <1>4, <1>5, <1>6

LEMMA SyncSendStep == ASSUME HandleInv, NEW t \in Senders, SyncSend(t) PROVE HandleInv'
  <1>1. /\ pc[t] = "send" /\ (Goto(t, "idle") \/ Goto(t, "close"))
        /\ UNCHANGED <<maps, next, id, flags, reads, mtx, dialled, closes, node, eh, io>>
    BY DEF SyncSend
  <1>2. "idle" \in Steps /\ "close" \in Steps /\ ~Connecting(t) /\ HasHandle(t) /\ ~isNew[eh[t]]
    BY <1>1, SenderKnows DEF Steps, Connecting, HasHandle, SenderOK
  <1>3. CASE Goto(t, "idle")
    BY <1>1, <1>2, <1>3, OnlyMoves
  <1>4. CASE Goto(t, "close")
    BY <1>1, <1>2, <1>4, OnlyMoves
  <1> QED
    BY <1>1, <1>3, <1>4

LEMMA SendFailsStep == ASSUME HandleInv, NEW t \in Senders, SendFails(t) PROVE HandleInv'
  <1>1. /\ pc[t] = "close" /\ CloseHandlers({eh[t]}) /\ pc' = [pc EXCEPT ![t] = "idle"]
        /\ mtx' = mtx /\ node' = [node EXCEPT ![t] = node[t]] /\ eh' = [eh EXCEPT ![t] = eh[t]]
        /\ UNCHANGED <<maps, next, id, reads, dialled, closes, io>> /\ eh' = eh /\ next' = next
    BY SenderKnows DEF SendFails, Goto
  <1>2. ~Connecting(t) /\ eh[t] \in Handles /\ ~isNew[eh[t]] /\ eh[t] < next /\ "idle" \in Steps
    BY <1>1, SenderKnows DEF Connecting, HasHandle, SenderOK, Steps
  <1>3. Lowered /\ FlagsType'
    BY <1>1, <1>2, Closing
  <1>4. SenderOK(t)'
    <2>1. pc'[t] = "idle"
      BY <1>1, SenderKnows
    <2> QED
      BY <1>1, <1>2, <2>1 DEF SenderOK, HasHandle, Connecting
  <1> QED
    BY <1>1, <1>2, <1>3, <1>4, SenderKnows, SenderMoves

(* A step of which no sender knows. *)
LEMMA Outside ==
  ASSUME HandleInv, Lowered, FlagsType',
         UNCHANGED <<maps, next, id, mtx, dialled, closes, pc, node, eh>>,
         reads' \in [Handles -> Nat], io' \in [do : {"idle", "read"}, h : Handles \cup {NoHandle}],
         \A h \in Handles : Reading(h)' <=> Reading(h), OneRead', IOInv'
  PROVE  HandleInv'
  <1>1. /\ opposite' = opposite /\ route' = route /\ next' = next /\ id' = id /\ mtx' = mtx
        /\ dialled' = dialled /\ closes' = closes /\ pc' = pc /\ node' = node /\ eh' = eh
    BY DEF maps
  <1>2. TypeOK'
    BY <1>1, Zenon DEF HandleInv, TypeOK, FlagsType
  <1>3. \A u \in Senders : Stays(u)
    BY <1>1 DEF Stays
  <1> QED
    BY <1>1, <1>2, <1>3, Steady DEF maps

LEMMA OutsideFlags ==
  ASSUME HandleInv, Lowered, FlagsType',
         UNCHANGED <<maps, next, id, reads, mtx, dialled, closes, pc, node, eh, io>>
  PROVE  HandleInv'
  <1>1. reads' = reads /\ io' = io /\ UNCHANGED <<maps, next, id, mtx, dialled, closes, pc, node, eh>>
    OBVIOUS
  <1>2. /\ reads' \in [Handles -> Nat]
        /\ io' \in [do : {"idle", "read"}, h : Handles \cup {NoHandle}]
    BY <1>1 DEF HandleInv, TypeOK
  <1> QED
    BY <1>1, <1>2, ReadsKept, Outside

LEMMA PeerClosesStep == ASSUME HandleInv, NEW h \in Handles, PeerCloses(h) PROVE HandleInv'
  <1>1. /\ sock[h] = "up" /\ sock' = [sock EXCEPT ![h] = "down"]
        /\ isConnected' = isConnected /\ isNew' = isNew
        /\ UNCHANGED <<maps, next, id, reads, mtx, dialled, closes, pc, node, eh, io>>
    BY DEF PeerCloses
  <1>2. /\ sock \in [Handles -> {"none", "up", "down"}] /\ isConnected \in [Handles -> BOOLEAN]
        /\ isNew \in [Handles -> BOOLEAN]
    BY DEF HandleInv, TypeOK
  <1>3. \A k \in Handles : k >= next => isNew[k]
    BY DEF HandleInv, UnusedInv, Unused
  <1>4. \A k \in Handles : (sock'[k] = "none" <=> sock[k] = "none")
    BY <1>1, <1>2
  <1>5. Lowered
    BY <1>1, <1>3, <1>4 DEF Lowered, Shut, Aged
  <1>6. FlagsType'
    BY <1>1, <1>2 DEF FlagsType
  <1> QED
    BY <1>1, <1>5, <1>6, OutsideFlags

(* The handlers in the maps were given out. *)
LEMMA InMaps == ASSUME HandleInv
                PROVE  /\ next \in Nat /\ Handles \subseteq Nat
                       /\ \A h \in opposite : h \in Handles /\ h < next
                       /\ \A n \in Nodes : Range(route[n]) \subseteq opposite
  <1>1. next \in Nat /\ Handles \subseteq Nat /\ opposite \subseteq Handles
    BY HandlesAre DEF HandleInv, TypeOK
  <1>2. \A h \in opposite : h < next
    BY <1>1 DEF HandleInv, UnusedInv, Unused
  <1>3. \A n \in Nodes : Range(route[n]) \subseteq opposite
    BY DEF HandleInv, MapsAgree
  <1> QED
    BY <1>1, <1>2, <1>3

LEMMA CloseStep == ASSUME HandleInv, Close PROVE HandleInv'
  <1>1. ASSUME NEW hs \in SUBSET opposite, CloseAll(hs) PROVE HandleInv'
    <2>1. /\ CloseHandlers(hs)
          /\ CloseNew \/ \A h \in hs : Established(h)
          /\ UNCHANGED <<maps, next, id, reads, mtx, dialled, closes, pc, node, eh, io>>
      BY <1>1 DEF CloseAll
    <2>2. \A h \in Handles : h \in hs => h < next /\ (~CloseNew => ~isNew[h])
      BY <2>1, InMaps DEF Established
    <2>3. Lowered /\ FlagsType'
      BY <2>1, <2>2, Closing
    <2> QED
      BY <2>1, <2>3, OutsideFlags
  <1>2. CASE CloseAll(opposite)
    BY <1>1, <1>2
  <1>3. ASSUME NEW n \in Nodes, CloseAll(Range(route[n])) PROVE HandleInv'
    BY <1>1, <1>3, InMaps
  <1> QED
    BY <1>2, <1>3 DEF Close

-----------------------------------------------------------------------------
(* Reads *)

(* A handler that is read is in use and open, and no sender connects it. *)
LEMMA ReadKnows ==
  ASSUME HandleInv, NEW h \in Handles, Reading(h)
  PROVE  /\ h < next /\ ~isNew[h] /\ closes[h] = 0 /\ sock[h] # "none"
         /\ \A u \in Senders : Connecting(u) => eh[u] # h
         /\ id[h] = NoNode => h \in opposite
  <1>1. HandlerOK(h)
    BY DEF HandleInv, HandlerInv
  <1>2. next \in Nat /\ h \in Nat
    BY InMaps
  <1>3. h < next
    BY <1>1, <1>2 DEF HandlerOK, HandleInv, UnusedInv, Unused
  <1>4. \A u \in Senders : Connecting(u) => eh[u] # h
    BY DEF HandleInv, SenderInv, SenderOK
  <1> QED
    BY <1>1, <1>3, <1>4 DEF HandlerOK

(* A read that ends and is about to be started again. *)
LEMMA ReadPending ==
  ASSUME HandleInv, NEW h \in Handles, io = IOIdle, reads[h] > 0,
         reads' = [reads EXCEPT ![h] = @ - 1], io' = [do |-> "read", h |-> h], Lowered
  PROVE  /\ reads' \in [Handles -> Nat]
         /\ io' \in [do : {"idle", "read"}, h : Handles \cup {NoHandle}]
         /\ OneRead' /\ IOInv' /\ \A k \in Handles : Reading(k)' <=> Reading(k)
  <1>1. /\ reads \in [Handles -> Nat] /\ io.h = 0 /\ io'.h = h /\ io'.do = "read"
        /\ \A k \in Handles : k # 0
    BY HandlesAre DEF HandleInv, TypeOK, IOIdle, NoHandle
  <1>2. /\ \A k \in Handles : reads[k] <= 1 /\ (sock[k] = "none" => reads[k] <= 0)
    BY <1>1 DEF HandleInv, OneRead
  <1>3. /\ reads' \in [Handles -> Nat] /\ reads'[h] = 0 /\ reads[h] = 1
        /\ \A k \in Handles : k # h => reads'[k] = reads[k]
    BY <1>1, <1>2
  <1>4. OneRead'
    BY <1>1, <1>2, <1>3 DEF OneRead, Lowered, Shut, Aged
  <1>5. \A k \in Handles : Reading(k)' <=> Reading(k)
    BY <1>1, <1>3 DEF Reading
  <1> QED
    BY <1>1, <1>3, <1>4, <1>5 DEF IOInv

(* The I/O thread starts the next read. *)
LEMMA ReadStarted ==
  ASSUME HandleInv, NEW h \in Handles, io.h = h, Reading(h),
         reads' = [reads EXCEPT ![h] = @ + 1], io' = IOIdle, Lowered
  PROVE  /\ reads' \in [Handles -> Nat]
         /\ io' \in [do : {"idle", "read"}, h : Handles \cup {NoHandle}]
         /\ OneRead' /\ IOInv' /\ \A k \in Handles : Reading(k)' <=> Reading(k)
  <1>1. /\ reads \in [Handles -> Nat] /\ io'.h = 0 /\ \A k \in Handles : k # 0
    BY HandlesAre DEF HandleInv, TypeOK, IOIdle, NoHandle
  <1>2. reads[h] = 0 /\ \A k \in Handles : reads[k] <= 1 /\ (sock[k] = "none" => reads[k] <= 0)
    BY <1>1 DEF HandleInv, OneRead
  <1>3. /\ reads' \in [Handles -> Nat] /\ reads'[h] = 1
        /\ \A k \in Handles : k # h => reads'[k] = reads[k]
    BY <1>1, <1>2
  <1>4. sock[h] # "none"
    BY ReadKnows
  <1>5. OneRead'
    BY <1>1, <1>2, <1>3, <1>4 DEF OneRead, Lowered, Shut, Aged
  <1>6. \A k \in Handles : Reading(k)' <=> Reading(k)
    BY <1>1, <1>3 DEF Reading
  <1>7. io' \in [do : {"idle", "read"}, h : Handles \cup {NoHandle}]
    BY DEF IOIdle
  <1> QED
    BY <1>3, <1>5, <1>6, <1>7 DEF IOInv

(* The reads of h are over: the last one failed, or the I/O thread, or a   *)
(* sender, gives up before the next.                                       *)
LEMMA ReadsOver ==
  ASSUME HandleInv, NEW h \in Handles, reads' \in [Handles -> Nat], reads'[h] = 0, io'.h # h,
         \A k \in Handles : k # h => reads'[k] = reads[k] /\ (io'.h = k <=> io.h = k), Shut
  PROVE  OneRead' /\ ~Reading(h)' /\ \A k \in Handles : k # h => (Reading(k)' <=> Reading(k))
  <1>1. \A k \in Handles : k # h => reads'[k] <= IF sock[k] = "none" \/ io.h = k THEN 0 ELSE 1
    BY DEF HandleInv, OneRead
  <1>2. OneRead'
    <2> SUFFICES ASSUME NEW k \in Handles
                 PROVE  reads'[k] <= IF sock'[k] = "none" \/ io'.h = k THEN 0 ELSE 1
      BY DEF OneRead
    <2>1. CASE k = h
      BY <2>1
    <2>2. CASE k # h
      BY <2>2, <1>1 DEF Shut
    <2> QED
      BY <2>1, <2>2
  <1>3. ~Reading(h)'
    BY DEF Reading
  <1>4. \A k \in Handles : k # h => (Reading(k)' <=> Reading(k))
    BY DEF Reading
  <1> QED
    BY <1>2, <1>3, <1>4

-----------------------------------------------------------------------------
(* Handlers leave the maps *)

(* _erase: the handle leaves both maps and nothing else does. *)
LEMMA ErasedMaps ==
  ASSUME HandleInv, NEW h \in Handles, Erase(h), id' = id, dialled' = dialled
  PROVE  /\ opposite' = opposite \ {h} /\ route' \in [Nodes -> Seq(Handles)]
         /\ \A n \in Nodes : Range(route'[n]) = Range(route[n]) \ {h}
         /\ MapsAgree' /\ OneRoute'
  <1>1. /\ route \in [Nodes -> Seq(Handles)]
        /\ \A n \in Nodes : route[n] \in Seq(Handles) /\ IsInjective(route[n])
        /\ \A n \in Nodes : \A k \in Range(route[n]) : k \in opposite /\ id[k] = n
    BY DEF HandleInv, TypeOK, MapsAgree
  <1>2. opposite' = opposite \ {h}
    BY DEF Erase
  <1>3. /\ route' \in [Nodes -> Seq(Handles)]
        /\ \A n \in Nodes : IsInjective(route'[n]) /\ Range(route'[n]) = Range(route[n]) \ {h}
    <2>1. CASE h \in opposite /\ id[h] \in Nodes
      <3> DEFINE m == id[h]
                 r == RemoveFirst(route[m], h)
      <3>1. route' = [route EXCEPT ![m] = r]
        BY <2>1 DEF Erase
      <3>2. r \in Seq(Handles) /\ IsInjective(r) /\ Range(r) = Range(route[m]) \ {h}
        BY <1>1, <2>1, Removed
      <3>3. \A n \in Nodes : n # m => h \notin Range(route[n])
        BY <1>1
      <3>4. m \in Nodes
        BY <2>1
      <3> HIDE DEF r, m
      <3>5. route' \in [Nodes -> Seq(Handles)] /\ route'[m] = r
            /\ \A n \in Nodes : n # m => route'[n] = route[n]
        BY <1>1, <3>1, <3>2, <3>4
      <3> QED
        BY <1>1, <3>2, <3>3, <3>5
    <2>2. CASE ~(h \in opposite /\ id[h] \in Nodes)
      <3>1. route' = route
        BY <2>2 DEF Erase
      <3>2. \A n \in Nodes : h \notin Range(route[n])
        BY <1>1, <2>2
      <3> QED
        BY <1>1, <3>1, <3>2
    <2> QED
      BY <2>1, <2>2
  <1>4. MapsAgree'
    BY <1>1, <1>2, <1>3 DEF MapsAgree
  <1>5. OneRoute'
    BY <1>3 DEF HandleInv, OneRoute
  <1> QED
    BY <1>2, <1>3, <1>4, <1>5

(* close, handleClose and _erase of a handler that is nobody's connection *)
(* any more.                                                              *)
LEMMA Erased ==
  ASSUME HandleInv, NEW h \in Handles, Erase(h), UNCHANGED <<next, id, dialled>>,
         Shut, \A k \in Handles : k # h => Aged(k), FlagsType', h < next, ~isNew'[h],
         closes' \in [Handles -> Nat], closes'[h] <= 1,
         reads' \in [Handles -> Nat], reads'[h] = 0, io'.h # h,
         io' \in [do : {"idle", "read"}, h : Handles \cup {NoHandle}], IOInv',
         \A k \in Handles : k # h => /\ closes'[k] = closes[k] /\ reads'[k] = reads[k]
                                     /\ (io'.h = k <=> io.h = k) /\ mtx'[k] = mtx[k],
         mtx' \in [Handles -> Senders \cup {Free}], pc' \in [Senders -> Steps],
         node' \in [Senders -> Nodes \cup {NoNode}], eh' \in [Senders -> Handles \cup {NoHandle}],
         \A u \in Senders : \/ Stays(u) /\ (Connecting(u) => eh[u] # h)
                            \/ SenderOK(u)' /\ eh[u] = h
  PROVE  HandleInv'
  <1>1. /\ opposite' = opposite \ {h} /\ route' \in [Nodes -> Seq(Handles)]
        /\ \A n \in Nodes : Range(route'[n]) = Range(route[n]) \ {h}
    BY ErasedMaps
  <1>2. MapsAgree' /\ OneRoute'
    BY ErasedMaps
  <1>3. OneRead' /\ ~Reading(h)' /\ \A k \in Handles : k # h => (Reading(k)' <=> Reading(k))
    BY ReadsOver
  <1>4. TypeOK'
    <2>1. opposite' \subseteq Handles
      BY <1>1 DEF HandleInv, TypeOK
    <2> QED
      BY <1>1, <2>1, Zenon DEF HandleInv, TypeOK, FlagsType, Steps
  <1>5. ToldOnce'
    <2> SUFFICES ASSUME NEW k \in Handles
                 PROVE  /\ closes'[k] <= 1
                        /\ closes'[k] = 1 => reads'[k] = 0 /\ \A n \in Nodes : k \notin Range(route'[n])
      BY DEF ToldOnce
    <2>1. CASE k = h
      BY <2>1, <1>1
    <2>2. CASE k # h
      <3>1. closes'[k] = closes[k] /\ reads'[k] = reads[k]
        BY <2>2
      <3>2. /\ closes[k] <= 1
            /\ closes[k] = 1 => reads[k] = 0 /\ \A n \in Nodes : k \notin Range(route[n])
        BY DEF HandleInv, ToldOnce
      <3> QED
        BY <3>1, <3>2, <1>1
    <2> QED
      BY <2>1, <2>2
  <1>6. HandlerInv'
    <2> SUFFICES ASSUME NEW k \in Handles PROVE HandlerOK(k)'
      BY DEF HandlerInv
    <2>1. HandlerOK(k)
      BY DEF HandleInv, HandlerInv
    <2>2. CASE k = h
      BY <2>1, <2>2, <1>3 DEF HandlerOK, Shut
    <2>3. CASE k # h
      BY <2>1, <2>3, <1>1, <1>3 DEF HandlerOK, Shut
    <2> QED
      BY <2>2, <2>3
  <1>7. UnusedInv'
    BY <1>1 DEF HandleInv, UnusedInv, Unused, Shut
  <1>8. SenderInv'
    <2> SUFFICES ASSUME NEW u \in Senders PROVE SenderOK(u)'
      BY DEF SenderInv
    <2>1. CASE SenderOK(u)'
      BY <2>1
    <2>2. CASE Stays(u) /\ (Connecting(u) => eh[u] # h)
      <3>1. SenderOK(u) /\ pc'[u] = pc[u] /\ node'[u] = node[u] /\ eh'[u] = eh[u]
        BY <2>2 DEF HandleInv, SenderInv, Stays
      <3>2. HasHandle(u) => /\ eh[u] \in Handles /\ (isNew'[eh[u]] => isNew[eh[u]])
                            /\ (sock'[eh[u]] = "none" <=> sock[eh[u]] = "none")
        BY <3>1 DEF SenderOK, Shut
      <3>3. Connecting(u) => eh[u] \in Handles /\ eh[u] # h
        BY <3>1, <2>2 DEF SenderOK, HasHandle
      <3>4. Connecting(u) => mtx'[eh[u]] = u /\ closes'[eh[u]] = 0
        BY <3>1, <3>3 DEF SenderOK
      <3>5. Connecting(u) => ~Reading(eh[u])'
        BY <3>1, <3>3, <1>3 DEF SenderOK
      <3> QED
        BY <3>1, <3>2, <3>3, <3>4, <3>5 DEF SenderOK, HasHandle, Connecting
    <2> QED
      BY <2>1, <2>2
  <1>9. EraserInv'
    <2> SUFFICES ASSUME ~CloseNew, ~OutOfMemory, NEW k \in opposite', ~isNew'[k]
                 PROVE  Reading(k)' \/ \E t \in Senders : eh'[t] = k /\ Connecting(t)'
      BY DEF EraserInv
    <2>1. k \in Handles /\ ~isNew[k] /\ k \in opposite /\ k # h
      BY <1>1 DEF HandleInv, TypeOK, Aged
    <2>2. Reading(k) \/ \E t \in Senders : eh[t] = k /\ Connecting(t)
      BY <2>1 DEF HandleInv, EraserInv
    <2>3. ASSUME NEW t \in Senders, eh[t] = k, Connecting(t) PROVE eh'[t] = k /\ Connecting(t)'
      BY <2>1, <2>3 DEF Stays, Connecting
    <2> QED
      BY <2>1, <2>2, <2>3, <1>3
  <1> QED
    BY <1>2, <1>3, <1>4, <1>5, <1>6, <1>7, <1>8, <1>9 DEF HandleInv

(* The error label: it closes only what is connected, and what it tells of *)
(* was not told before.                                                    *)
LEMMA ErrorClosed ==
  ASSUME HandleInv, NEW h \in Handles, ErrorClose(h), h < next, ~isNew[h], closes[h] = 0
  PROVE  /\ Erase(h) /\ Lowered /\ FlagsType' /\ ~isNew'[h]
         /\ closes' \in [Handles -> Nat] /\ closes'[h] = 1
         /\ \A k \in Handles : k # h => closes'[k] = closes[k]
  <1> DEFINE hs == IF isConnected[h] THEN {h} ELSE {}
  <1>1. CloseHandlers(hs) /\ Erase(h) /\ closes' = [closes EXCEPT ![h] = @ + 1]
    BY DEF ErrorClose
  <1>2. \A k \in Handles : k \in hs => k < next /\ (~CloseNew => ~isNew[k])
    OBVIOUS
  <1> HIDE DEF hs
  <1>3. Lowered /\ FlagsType'
    BY <1>1, <1>2, Closing
  <1>4. closes \in [Handles -> Nat]
    BY DEF HandleInv, TypeOK
  <1>5. /\ closes' \in [Handles -> Nat] /\ closes'[h] = 1
        /\ \A k \in Handles : k # h => closes'[k] = closes[k]
    BY <1>1, <1>4
  <1> QED
    BY <1>1, <1>3, <1>5 DEF Lowered, Shut, Aged

(* The I/O thread gives up a handler that it was reading. *)
LEMMA ReaderGivesUp ==
  ASSUME HandleInv, NEW h \in Handles, Reading(h), ErrorClose(h),
         reads' \in [Handles -> Nat], reads'[h] = 0, io' = IOIdle,
         \A k \in Handles : k # h => reads'[k] = reads[k] /\ io.h # k,
         UNCHANGED <<next, id, mtx, dialled, pc, node, eh>>
  PROVE  HandleInv'
  <1>1. /\ h < next /\ ~isNew[h] /\ closes[h] = 0
        /\ \A u \in Senders : Connecting(u) => eh[u] # h
    BY ReadKnows
  <1>2. /\ Erase(h) /\ Lowered /\ FlagsType' /\ ~isNew'[h]
        /\ closes' \in [Handles -> Nat] /\ closes'[h] = 1
        /\ \A k \in Handles : k # h => closes'[k] = closes[k]
    BY <1>1, ErrorClosed
  <1>3. io'.h = 0 /\ \A k \in Handles : k # 0
    BY HandlesAre DEF IOIdle, NoHandle
  <1>4. io' \in [do : {"idle", "read"}, h : Handles \cup {NoHandle}] /\ IOInv'
    BY DEF IOIdle, IOInv
  <1>5. /\ mtx' \in [Handles -> Senders \cup {Free}] /\ pc' \in [Senders -> Steps]
        /\ node' \in [Senders -> Nodes \cup {NoNode}] /\ eh' \in [Senders -> Handles \cup {NoHandle}]
    BY DEF HandleInv, TypeOK, Steps
  <1>6. \A u \in Senders : Stays(u) /\ (Connecting(u) => eh[u] # h)
    BY <1>1 DEF Stays
  <1>7. \A k \in Handles : k # h => /\ closes'[k] = closes[k] /\ reads'[k] = reads[k]
                                    /\ (io'.h = k <=> io.h = k) /\ mtx'[k] = mtx[k]
    BY <1>2, <1>3
  <1>8. closes'[h] <= 1 /\ io'.h # h
    BY <1>2, <1>3
  <1>9. Shut /\ \A k \in Handles : k # h => Aged(k)
    BY <1>2 DEF Lowered
  <1> QED
    BY <1>1, <1>2, <1>4, <1>5, <1>6, <1>7, <1>8, <1>9, Erased

LEMMA ReadFailsStep == ASSUME HandleInv, NEW h \in Handles, ReadFails(h) PROVE HandleInv'
  <1>1. /\ io = IOIdle /\ reads[h] > 0 /\ reads' = [reads EXCEPT ![h] = @ - 1] /\ ErrorClose(h)
        /\ io' = IOIdle /\ UNCHANGED <<next, id, mtx, dialled, pc, node, eh>>
    BY DEF ReadFails
  <1>2. reads \in [Handles -> Nat] /\ io.h = 0 /\ \A k \in Handles : k # 0
    BY <1>1, HandlesAre DEF HandleInv, TypeOK, IOIdle, NoHandle
  <1>3. reads[h] <= 1
    BY <1>2 DEF HandleInv, OneRead
  <1>4. /\ reads' \in [Handles -> Nat] /\ reads'[h] = 0
        /\ \A k \in Handles : k # h => reads'[k] = reads[k] /\ io.h # k
    BY <1>1, <1>2, <1>3
  <1>5. Reading(h)
    BY <1>1 DEF Reading
  <1> QED
    BY <1>1, <1>4, <1>5, ReaderGivesUp

LEMMA ReadAgainStep == ASSUME HandleInv, ReadAgain PROVE HandleInv'
  <1> DEFINE h == io.h
  <1>1. io.do = "read" /\ io' = IOIdle /\ UNCHANGED <<next, id, mtx, dialled, pc, node, eh>>
    BY DEF ReadAgain
  <1>2. h \in Handles
    BY <1>1 DEF HandleInv, IOInv, IOIdle
  <1>3. Reading(h)
    BY DEF Reading
  <1> HIDE DEF h
  <1>4. io.h = h /\ StartRead(h)
    BY DEF h, ReadAgain
  <1>5. CASE /\ isConnected[h] /\ reads' = [reads EXCEPT ![h] = @ + 1]
             /\ UNCHANGED <<maps, flags, closes>>
    <2>1. Lowered /\ FlagsType'
      BY <1>5, SameFlags
    <2>2. UNCHANGED <<maps, next, id, mtx, dialled, closes, pc, node, eh>>
      BY <1>1, <1>5
    <2> QED
      BY <1>1, <1>2, <1>3, <1>4, <1>5, <2>1, <2>2, ReadStarted, Outside
  <1>6. CASE ErrorClose(h) /\ UNCHANGED reads
    <2>1. /\ reads' \in [Handles -> Nat] /\ reads'[h] = 0
          /\ \A k \in Handles : k # h => reads'[k] = reads[k] /\ io.h # k
      BY <1>2, <1>4, <1>6 DEF HandleInv, TypeOK, OneRead
    <2> QED
      BY <1>1, <1>2, <1>3, <1>6, <2>1, ReaderGivesUp
  <1> QED
    BY <1>4, <1>5, <1>6 DEF StartRead

(* A sender gives up the connection that it was making, with the error     *)
(* label of the first read or without it.                                  *)
LEMMA SenderGivesUp ==
  ASSUME HandleInv, NEW t \in Senders, Connecting(t), Erase(eh[t]), Shut,
         \A k \in Handles : k # eh[t] => Aged(k), FlagsType',
         ~isNew'[eh[t]], closes' \in [Handles -> Nat], closes'[eh[t]] <= 1,
         \A k \in Handles : k # eh[t] => closes'[k] = closes[k],
         NEW l \in {"idle", "send"}, Goto(t, l), mtx' = [mtx EXCEPT ![eh[t]] = Free],
         UNCHANGED <<next, id, reads, dialled, node, eh, io>>
  PROVE  HandleInv'
  <1> DEFINE h == eh[t]
  <1>1. h \in Handles /\ h < next /\ ~Reading(h) /\ mtx[h] = t
    BY SenderKnows DEF SenderOK, HasHandle
  <1>2. \A u \in Senders : Connecting(u) /\ u # t => eh[u] # h
    BY <1>1 DEF HandleInv, SenderInv, SenderOK
  <1>3. /\ reads' = reads /\ io' = io /\ eh' = eh /\ node' = node /\ next' = next
        /\ pc' = [pc EXCEPT ![t] = l]
    BY DEF Goto
  <1>4. /\ reads \in [Handles -> Nat] /\ io \in [do : {"idle", "read"}, h : Handles \cup {NoHandle}]
        /\ IOInv
    BY DEF HandleInv, TypeOK
  <1>5. IOInv'
    BY <1>3, <1>4 DEF IOInv
  <1>6. reads'[h] = 0 /\ io'.h # h
    BY <1>1, <1>3, <1>4 DEF Reading
  <1>7. mtx' \in [Handles -> Senders \cup {Free}] /\ \A k \in Handles : k # h => mtx'[k] = mtx[k]
    BY <1>1, SenderKnows
  <1>8. pc' \in [Senders -> Steps] /\ pc'[t] = l /\ \A u \in Senders : u # t => pc'[u] = pc[u]
    BY <1>3, SenderKnows DEF Steps
  <1>9. \A u \in Senders : u # t => Stays(u)
    BY <1>3, <1>8 DEF Stays
  <1>10. SenderOK(t)'
    BY <1>1, <1>3, <1>8 DEF SenderOK, HasHandle, Connecting
  <1>11. node' \in [Senders -> Nodes \cup {NoNode}] /\ eh' \in [Senders -> Handles \cup {NoHandle}]
    BY <1>3, SenderKnows
  <1>12. \A k \in Handles : k # h => /\ closes'[k] = closes[k] /\ reads'[k] = reads[k]
                                     /\ (io'.h = k <=> io.h = k) /\ mtx'[k] = mtx[k]
    BY <1>3, <1>7
  <1>13. \A u \in Senders : \/ Stays(u) /\ (Connecting(u) => eh[u] # h)
                            \/ SenderOK(u)' /\ eh[u] = h
    BY <1>2, <1>9, <1>10
  <1>14. Erase(h) /\ ~isNew'[h] /\ closes'[h] <= 1 /\ \A k \in Handles : k # h => Aged(k)
    OBVIOUS
  <1>15. reads' \in [Handles -> Nat] /\ io' \in [do : {"idle", "read"}, h : Handles \cup {NoHandle}]
    BY <1>3, <1>4
  <1>16. UNCHANGED <<next, id, dialled>>
    OBVIOUS
  <1> HIDE DEF h
  <1> QED
    BY <1>1, <1>5, <1>6, <1>7, <1>8, <1>11, <1>12, <1>13, <1>14, <1>15, <1>16, Erased

LEMMA DropStep == ASSUME HandleInv, NEW t \in Senders, Drop(t) PROVE HandleInv'
  <1>1. /\ pc[t] = "drop" /\ CloseHandlers({eh[t]}) /\ Erase(eh[t]) /\ Goto(t, "idle")
        /\ mtx' = [mtx EXCEPT ![eh[t]] = Free] /\ closes' = closes
        /\ UNCHANGED <<next, id, reads, dialled, node, eh, io>>
    BY DEF Drop
  <1>2. Connecting(t) /\ eh[t] \in Handles /\ eh[t] < next /\ closes[eh[t]] = 0
    BY <1>1, SenderKnows DEF Connecting, SenderOK, HasHandle
  <1>3. /\ Shut /\ FlagsType' /\ ~isNew'[eh[t]]
        /\ \A k \in Handles : k # eh[t] => (isNew'[k] <=> isNew[k])
    BY <1>1, <1>2, Shutting
  <1>4. \A k \in Handles : k # eh[t] => Aged(k)
    BY <1>3 DEF Aged
  <1>5. closes' \in [Handles -> Nat] /\ closes'[eh[t]] <= 1
    BY <1>1, <1>2 DEF HandleInv, TypeOK
  <1> QED
    BY <1>1, <1>2, <1>3, <1>4, <1>5, SenderGivesUp

-----------------------------------------------------------------------------
(* Handlers are connected *)

(* The sender t that connects h = eh[t] goes on; nothing but h changes. *)
LEMMA Own ==
  ASSUME HandleInv, NEW t \in Senders, Connecting(t), FlagsType', reads' \in [Handles -> Nat],
         UNCHANGED <<maps, next, id, dialled, closes, node, eh, io>>,
         \A k \in Handles : k # eh[t] => /\ isConnected'[k] = isConnected[k] /\ isNew'[k] = isNew[k]
                                         /\ sock'[k] = sock[k] /\ reads'[k] = reads[k]
                                         /\ mtx'[k] = mtx[k],
         mtx' \in [Handles -> Senders \cup {Free}],
         isNew'[eh[t]] => isNew[eh[t]], HandlerOK(eh[t])',
         reads'[eh[t]] <= IF sock'[eh[t]] = "none" THEN 0 ELSE 1,
         NEW l \in Steps, pc' = [pc EXCEPT ![t] = l], SenderOK(t)',
         isNew'[eh[t]] \/ Reading(eh[t])' \/ Connecting(t)'
  PROVE  HandleInv'
  <1> DEFINE h == eh[t]
  <1>1. /\ opposite' = opposite /\ route' = route /\ next' = next /\ id' = id
        /\ dialled' = dialled /\ closes' = closes /\ node' = node /\ eh' = eh /\ io' = io
    BY DEF maps
  <1>2. h \in Handles /\ h < next /\ ~Reading(h) /\ mtx[h] = t /\ closes[h] = 0 /\ h \in dialled
    BY SenderKnows DEF SenderOK, HasHandle
  <1>3. \A u \in Senders : Connecting(u) /\ u # t => eh[u] # h
    BY <1>2 DEF HandleInv, SenderInv, SenderOK
  <1>4. pc' \in [Senders -> Steps] /\ pc'[t] = l /\ \A u \in Senders : u # t => pc'[u] = pc[u]
    BY SenderKnows
  <1>5. TypeOK'
    BY <1>1, <1>4, Zenon DEF HandleInv, TypeOK, FlagsType, Steps
  <1>6. MapsAgree' /\ OneRoute'
    BY <1>1 DEF HandleInv, MapsAgree, OneRoute
  <1>7. OneRead'
    <2> SUFFICES ASSUME NEW k \in Handles
                 PROVE  reads'[k] <= IF sock'[k] = "none" \/ io'.h = k THEN 0 ELSE 1
      BY DEF OneRead
    <2>1. CASE k = h
      BY <2>1, <1>1, <1>2 DEF Reading
    <2>2. CASE k # h
      BY <2>2, <1>1 DEF HandleInv, OneRead
    <2> QED
      BY <2>1, <2>2
  <1>8. \A k \in Handles : k # h => (Reading(k)' <=> Reading(k))
    BY <1>1 DEF Reading
  <1>9. ToldOnce'
    <2> SUFFICES ASSUME NEW k \in Handles
                 PROVE  /\ closes[k] <= 1
                        /\ closes[k] = 1 => reads'[k] = 0 /\ \A n \in Nodes : k \notin Range(route[n])
      BY <1>1 DEF ToldOnce
    <2>1. CASE k = h
      BY <2>1, <1>2
    <2>2. CASE k # h
      BY <2>2 DEF HandleInv, ToldOnce
    <2> QED
      BY <2>1, <2>2
  <1>10. HandlerInv'
    <2> SUFFICES ASSUME NEW k \in Handles PROVE HandlerOK(k)'
      BY DEF HandlerInv
    <2>1. CASE k = h
      BY <2>1, <1>1
    <2>2. CASE k # h
      <3>1. HandlerOK(k)
        BY DEF HandleInv, HandlerInv
      <3> QED
        BY <3>1, <2>2, <1>1, <1>8 DEF HandlerOK
    <2> QED
      BY <2>1, <2>2
  <1>11. UnusedInv'
    <2>1. \A k \in Handles : k >= next => k # h
      BY <1>2, InMaps
    <2> QED
      BY <2>1, <1>1 DEF HandleInv, UnusedInv, Unused
  <1>12. SenderInv'
    <2> SUFFICES ASSUME NEW u \in Senders, u # t PROVE SenderOK(u)'
      BY DEF SenderInv
    <2>1. SenderOK(u) /\ pc'[u] = pc[u] /\ node'[u] = node[u] /\ eh'[u] = eh[u]
      BY <1>1, <1>4 DEF HandleInv, SenderInv
    <2>2. HasHandle(u) => eh[u] \in Handles /\ (isNew'[eh[u]] => isNew[eh[u]])
      BY <2>1 DEF SenderOK
    <2>3. Connecting(u) => eh[u] \in Handles /\ eh[u] # h
      BY <2>1, <1>3 DEF SenderOK, HasHandle
    <2>4. Connecting(u) => mtx'[eh[u]] = u /\ sock'[eh[u]] = sock[eh[u]]
      BY <2>1, <2>3 DEF SenderOK
    <2>5. Connecting(u) => ~Reading(eh[u])'
      BY <2>1, <2>3, <1>8 DEF SenderOK
    <2> QED
      BY <1>1, <2>1, <2>2, <2>3, <2>4, <2>5 DEF SenderOK, HasHandle, Connecting
  <1>13. IOInv'
    BY <1>1 DEF HandleInv, IOInv
  <1>14. EraserInv'
    <2> SUFFICES ASSUME ~CloseNew, ~OutOfMemory, NEW k \in opposite, ~isNew'[k]
                 PROVE  Reading(k)' \/ \E u \in Senders : eh'[u] = k /\ Connecting(u)'
      BY <1>1 DEF EraserInv
    <2>1. CASE k = h
      BY <2>1, <1>1
    <2>2. CASE k # h
      <3>1. k \in Handles /\ ~isNew[k]
        BY <2>2 DEF HandleInv, TypeOK
      <3>2. Reading(k) \/ \E u \in Senders : eh[u] = k /\ Connecting(u)
        BY <3>1 DEF HandleInv, EraserInv
      <3>3. ASSUME NEW u \in Senders, eh[u] = k, Connecting(u) PROVE eh'[u] = k /\ Connecting(u)'
        BY <3>3, <2>2, <1>1, <1>4 DEF Connecting
      <3> QED
        BY <3>1, <3>2, <3>3, <2>2, <1>8
    <2> QED
      BY <2>1, <2>2
  <1> QED
    BY <1>5, <1>6, <1>7, <1>9, <1>10, <1>11, <1>12, <1>13, <1>14 DEF HandleInv

(* What is known of the handler that a sender connects. *)
LEMMA OwnKnows ==
  ASSUME HandleInv, NEW t \in Senders, Connecting(t)
  PROVE  /\ eh[t] \in Handles /\ eh[t] < next /\ ~Reading(eh[t]) /\ mtx[eh[t]] = t
         /\ closes[eh[t]] = 0 /\ eh[t] \in dialled /\ reads[eh[t]] = 0 /\ io.h # eh[t]
         /\ HandlerOK(eh[t]) /\ reads \in [Handles -> Nat] /\ FlagsType
  <1>1. /\ eh[t] \in Handles /\ eh[t] < next /\ ~Reading(eh[t]) /\ mtx[eh[t]] = t
        /\ closes[eh[t]] = 0 /\ eh[t] \in dialled
    BY SenderKnows DEF SenderOK, HasHandle
  <1>2. reads \in [Handles -> Nat] /\ FlagsType /\ HandlerOK(eh[t])
    BY <1>1 DEF HandleInv, TypeOK, HandlerInv, FlagsType
  <1> QED
    BY <1>1, <1>2 DEF Reading

LEMMA DialStep == ASSUME HandleInv, NEW t \in Senders, Dial(t) PROVE HandleInv'
  <1>1. /\ pc[t] = "dial" /\ isConnected' = isConnected /\ isNew' = isNew /\ reads' = reads
        /\ mtx' = mtx /\ closes' = closes /\ dialled' = dialled /\ next' = next /\ id' = id
        /\ eh' = eh /\ io' = io /\ opposite' = opposite
        /\ UNCHANGED <<maps, next, id, dialled, closes, node, eh, io>>
    BY DEF Dial, maps
  <1>2. Connecting(t)
    BY <1>1 DEF Connecting
  <1> DEFINE h == eh[t]
  <1>3. /\ h \in Handles /\ h < next /\ ~Reading(h) /\ mtx[h] = t /\ closes[h] = 0
        /\ h \in dialled /\ reads[h] = 0 /\ HandlerOK(h) /\ reads \in [Handles -> Nat] /\ FlagsType
    BY <1>2, OwnKnows
  <1>4. PICK l \in {"setOpt", "drop"} :
           /\ pc' = [pc EXCEPT ![t] = l]
           /\ sock' = IF l = "setOpt" THEN [sock EXCEPT ![h] = "up"] ELSE sock
    BY DEF Dial, Goto
  <1>5. /\ sock' \in [Handles -> {"none", "up", "down"}]
        /\ \A k \in Handles : k # h => sock'[k] = sock[k]
        /\ l = "setOpt" => sock'[h] = "up"
        /\ sock[h] # "none" => sock'[h] # "none"
    BY <1>3, <1>4 DEF FlagsType
  <1>6. pc'[t] = l /\ l \in Steps
    BY <1>4, SenderKnows DEF Steps
  <1>7. FlagsType'
    BY <1>1, <1>3, <1>5 DEF FlagsType
  <1>8. ~Reading(h)'
    BY <1>1, <1>3 DEF Reading
  <1>9. HandlerOK(h)'
    BY <1>1, <1>3, <1>5, <1>8 DEF HandlerOK
  <1>10. Connecting(t)'
    BY <1>6 DEF Connecting
  <1>11. SenderOK(t)'
    BY <1>1, <1>3, <1>5, <1>6, <1>8, <1>10 DEF SenderOK, HasHandle
  <1>12. mtx' \in [Handles -> Senders \cup {Free}]
    BY <1>1, SenderKnows
  <1>13. reads'[h] <= IF sock'[h] = "none" THEN 0 ELSE 1
    BY <1>1, <1>3
  <1> QED
    BY <1>1, <1>2, <1>3, <1>4, <1>5, <1>6, <1>7, <1>9, <1>10, <1>11, <1>12, <1>13, Own

LEMMA SetOptStep == ASSUME HandleInv, NEW t \in Senders, SetOpt(t) PROVE HandleInv'
  <1>1. /\ pc[t] = "setOpt" /\ sock' = sock /\ reads' = reads /\ pc' = [pc EXCEPT ![t] = "read"]
        /\ mtx' = mtx /\ closes' = closes /\ dialled' = dialled /\ next' = next /\ id' = id
        /\ eh' = eh /\ io' = io /\ opposite' = opposite
        /\ UNCHANGED <<maps, next, id, dialled, closes, node, eh, io>>
        /\ isConnected' = [isConnected EXCEPT ![eh[t]] = TRUE]
        /\ isNew' = [isNew EXCEPT ![eh[t]] = FALSE]
    BY DEF SetOpt, Goto, maps
  <1>2. Connecting(t)
    BY <1>1 DEF Connecting
  <1> DEFINE h == eh[t]
  <1>3. /\ h \in Handles /\ h < next /\ ~Reading(h) /\ mtx[h] = t /\ closes[h] = 0
        /\ h \in dialled /\ reads[h] = 0 /\ HandlerOK(h) /\ reads \in [Handles -> Nat] /\ FlagsType
    BY <1>2, OwnKnows
  <1>4. sock[h] # "none"
    BY <1>1, SenderKnows DEF SenderOK
  <1>5. /\ isConnected' \in [Handles -> BOOLEAN] /\ isNew' \in [Handles -> BOOLEAN]
        /\ isConnected'[h] /\ ~isNew'[h]
        /\ \A k \in Handles : k # h => isConnected'[k] = isConnected[k] /\ isNew'[k] = isNew[k]
    BY <1>1, <1>3 DEF FlagsType
  <1>6. pc'[t] = "read" /\ "read" \in Steps
    BY <1>1, SenderKnows DEF Steps
  <1>7. FlagsType'
    BY <1>1, <1>3, <1>5 DEF FlagsType
  <1>8. ~Reading(h)'
    BY <1>1, <1>3 DEF Reading
  <1>9. HandlerOK(h)'
    BY <1>1, <1>3, <1>4, <1>5, <1>8 DEF HandlerOK
  <1>10. Connecting(t)'
    BY <1>6 DEF Connecting
  <1>11. SenderOK(t)'
    BY <1>1, <1>3, <1>4, <1>5, <1>6, <1>8, <1>10 DEF SenderOK, HasHandle
  <1>12. mtx' \in [Handles -> Senders \cup {Free}]
    BY <1>1, SenderKnows
  <1>13. reads'[h] <= IF sock'[h] = "none" THEN 0 ELSE 1
    BY <1>1, <1>3
  <1> QED
    BY <1>1, <1>2, <1>3, <1>5, <1>6, <1>7, <1>9, <1>10, <1>11, <1>12, <1>13, Own

LEMMA FirstReadStep == ASSUME HandleInv, NEW t \in Senders, FirstRead(t) PROVE HandleInv'
  <1> DEFINE h == eh[t]
  <1>1. /\ pc[t] = "read" /\ Goto(t, "send") /\ pc' = [pc EXCEPT ![t] = "send"]
        /\ mtx' = [mtx EXCEPT ![h] = Free]
        /\ UNCHANGED <<next, id, dialled, node, eh, io>>
    BY DEF FirstRead, Goto
  <1>2. Connecting(t)
    BY <1>1 DEF Connecting
  <1>3. /\ h \in Handles /\ h < next /\ ~Reading(h) /\ mtx[h] = t /\ closes[h] = 0
        /\ h \in dialled /\ reads[h] = 0 /\ HandlerOK(h) /\ reads \in [Handles -> Nat] /\ FlagsType
        /\ io.h # h
    BY <1>2, OwnKnows
  <1>4. sock[h] # "none" /\ ~isNew[h]
    BY <1>1, SenderKnows DEF SenderOK
  <1>5. CASE /\ isConnected[h] /\ reads' = [reads EXCEPT ![h] = @ + 1]
             /\ UNCHANGED <<maps, flags, closes>>
    <2>1. /\ isConnected' = isConnected /\ isNew' = isNew /\ sock' = sock /\ closes' = closes
          /\ eh' = eh /\ io' = io /\ dialled' = dialled /\ id' = id /\ next' = next
          /\ opposite' = opposite /\ UNCHANGED <<maps, next, id, dialled, closes, node, eh, io>>
      BY <1>1, <1>5 DEF flags, maps
    <2>2. /\ reads' \in [Handles -> Nat] /\ reads'[h] = 1
          /\ \A k \in Handles : k # h => reads'[k] = reads[k]
      BY <1>3, <1>5
    <2>3. /\ mtx' \in [Handles -> Senders \cup {Free}]
          /\ \A k \in Handles : k # h => mtx'[k] = mtx[k]
      BY <1>1, <1>3, SenderKnows
    <2>4. pc'[t] = "send" /\ "send" \in Steps
      BY <1>1, SenderKnows DEF Steps
    <2>5. FlagsType'
      BY <2>1, <1>3 DEF FlagsType
    <2>6. id[h] # NoNode
      BY <1>3, HandlesAre DEF HandlerOK
    <2>7. Reading(h)'
      BY <2>1, <2>2 DEF Reading
    <2>8. HandlerOK(h)'
      BY <1>3, <1>4, <2>1, <2>6, <2>7 DEF HandlerOK
    <2>9. SenderOK(t)'
      BY <1>3, <1>4, <2>1, <2>4 DEF SenderOK, HasHandle, Connecting
    <2>10. reads'[h] <= IF sock'[h] = "none" THEN 0 ELSE 1
      BY <2>1, <2>2, <1>4
    <2> QED
      BY <1>1, <1>2, <1>3, <2>1, <2>2, <2>3, <2>4, <2>5, <2>7, <2>8, <2>9, <2>10, Own
  <1>6. CASE ErrorClose(h) /\ UNCHANGED reads
    <2>1. /\ Erase(h) /\ Lowered /\ FlagsType' /\ ~isNew'[h]
          /\ closes' \in [Handles -> Nat] /\ closes'[h] = 1
          /\ \A k \in Handles : k # h => closes'[k] = closes[k]
      BY <1>3, <1>4, <1>6, ErrorClosed
    <2>2. Shut /\ \A k \in Handles : k # h => Aged(k)
      BY <2>1 DEF Lowered
    <2>3. closes'[h] <= 1 /\ UNCHANGED <<next, id, reads, dialled, node, eh, io>>
      BY <2>1, <1>1, <1>6
    <2> QED
      BY <1>1, <1>2, <2>1, <2>2, <2>3, SenderGivesUp
  <1> QED
    BY <1>5, <1>6 DEF FirstRead, StartRead

-----------------------------------------------------------------------------
(* Handlers are made *)

(* The next handle was never used. *)
LEMMA NextKnows ==
  ASSUME HandleInv, next \in Handles
  PROVE  /\ Unused(next) /\ HandlerOK(next) /\ ~isConnected[next] /\ ~Reading(next)
         /\ closes[next] = 0 /\ next \in Nat /\ Handles \subseteq Nat /\ next + 1 \in 1 .. (MaxHandles + 1)
         /\ \A n \in Nodes : next \notin Range(route[n])
         /\ \A u \in Senders : eh[u] # next
  <1>1. next \in Nat /\ Handles \subseteq Nat /\ MaxHandles \in Nat
    BY InMaps, HandlesAre
  <1>2. Unused(next) /\ HandlerOK(next)
    BY <1>1 DEF HandleInv, UnusedInv, HandlerInv
  <1>3. next + 1 \in 1 .. (MaxHandles + 1)
    BY <1>1, HandlesAre
  <1>4. \A n \in Nodes : next \notin Range(route[n])
    BY <1>2, InMaps DEF Unused
  <1>5. \A u \in Senders : eh[u] # next
    BY <1>1, SenderKnows DEF SenderOK
  <1> QED
    BY <1>1, <1>2, <1>3, <1>4, <1>5 DEF Unused, HandlerOK

LEMMA Given ==
  ASSUME HandleInv, NEW h \in Handles, h = next, next' = next + 1, opposite' = opposite \cup {h}, io' = io,
         TypeOK', MapsAgree', OneRoute', OneRead', ToldOnce', HandlerOK(h)',
         dialled \subseteq dialled', dialled' \subseteq dialled \cup {h},
         \A k \in Handles : k # h => /\ isConnected'[k] = isConnected[k] /\ isNew'[k] = isNew[k]
                                        /\ sock'[k] = sock[k] /\ reads'[k] = reads[k]
                                        /\ mtx'[k] = mtx[k] /\ closes'[k] = closes[k]
                                        /\ id'[k] = id[k],
         \A u \in Senders : Stays(u) \/ (~Connecting(u) /\ SenderOK(u)'),
         isNew'[h] \/ OutOfMemory \/ Reading(h)'
  PROVE  HandleInv'
  <1>1. h \in Nat /\ Handles \subseteq Nat /\ (\A u \in Senders : eh[u] # h) /\ h \in Handles
    BY NextKnows
  <1>2. \A k \in Handles : k # h => (Reading(k)' <=> Reading(k))
    BY DEF Reading
  <1>3. HandlerInv'
    <2> SUFFICES ASSUME NEW k \in Handles, k # h PROVE HandlerOK(k)'
      BY DEF HandlerInv
    <2>1. HandlerOK(k)
      BY DEF HandleInv, HandlerInv
    <2>2. (k < next' <=> k < next) /\ (k \in dialled' <=> k \in dialled)
          /\ (k \in opposite' <=> k \in opposite)
      BY <1>1
    <2>3. /\ isConnected'[k] = isConnected[k] /\ isNew'[k] = isNew[k] /\ sock'[k] = sock[k]
          /\ closes'[k] = closes[k] /\ id'[k] = id[k] /\ (Reading(k)' <=> Reading(k))
      BY <1>2
    <2> QED
      BY <2>1, <2>2, <2>3 DEF HandlerOK
  <1>4. UnusedInv'
    <2> SUFFICES ASSUME NEW k \in Handles, k >= next' PROVE Unused(k)'
      BY DEF UnusedInv
    <2>1. k >= next /\ k # h
      BY <1>1
    <2>2. Unused(k)
      BY <2>1 DEF HandleInv, UnusedInv
    <2> QED
      BY <2>1, <2>2 DEF Unused
  <1>5. SenderInv'
    <2> SUFFICES ASSUME NEW u \in Senders PROVE SenderOK(u)'
      BY DEF SenderInv
    <2>1. CASE SenderOK(u)'
      BY <2>1
    <2>2. CASE Stays(u)
      <3>1. SenderOK(u) /\ pc'[u] = pc[u] /\ node'[u] = node[u] /\ eh'[u] = eh[u]
        BY <2>2 DEF HandleInv, SenderInv, Stays
      <3>2. eh[u] # h /\ eh[u] \in Nat /\ eh[u] < next'
        BY <1>1, <3>1, SenderKnows DEF SenderOK
      <3>3. HasHandle(u) => /\ eh[u] \in Handles /\ isNew'[eh[u]] = isNew[eh[u]]
                            /\ sock'[eh[u]] = sock[eh[u]] /\ mtx'[eh[u]] = mtx[eh[u]]
                            /\ closes'[eh[u]] = closes[eh[u]]
        BY <3>1, <3>2 DEF SenderOK
      <3>4. Connecting(u) => HasHandle(u)
        BY DEF HasHandle
      <3>5. Connecting(u) => ~Reading(eh[u])'
        BY <3>1, <3>2, <3>3, <3>4, <1>2 DEF SenderOK
      <3> QED
        BY <3>1, <3>2, <3>3, <3>4, <3>5 DEF SenderOK, HasHandle, Connecting
    <2> QED
      BY <2>1, <2>2
  <1>6. IOInv'
    BY DEF HandleInv, IOInv
  <1>7. EraserInv'
    <2> SUFFICES ASSUME ~CloseNew, ~OutOfMemory, NEW k \in opposite', ~isNew'[k]
                 PROVE  Reading(k)' \/ \E u \in Senders : eh'[u] = k /\ Connecting(u)'
      BY DEF EraserInv
    <2>1. CASE k = h
      BY <2>1
    <2>2. CASE k # h
      <3>1. k \in opposite /\ k \in Handles /\ ~isNew[k]
        BY <2>2 DEF HandleInv, TypeOK
      <3>2. Reading(k) \/ \E u \in Senders : eh[u] = k /\ Connecting(u)
        BY <3>1 DEF HandleInv, EraserInv
      <3>3. ASSUME NEW u \in Senders, eh[u] = k, Connecting(u) PROVE eh'[u] = k /\ Connecting(u)'
        BY <3>3 DEF Stays, Connecting
      <3> QED
        BY <3>1, <3>2, <3>3, <2>2, <1>2
    <2> QED
      BY <2>1, <2>2
  <1> QED
    BY <1>3, <1>4, <1>5, <1>6, <1>7 DEF HandleInv

(* _getHandle makes a handler for a node that has none. *)
LEMMA CreateStep ==
  ASSUME HandleInv, NEW t \in Senders, pc[t] = "exclusive", route[node[t]] = << >>, Create(t),
         UNCHANGED <<flags, reads, mtx, closes, node, io>>
  PROVE  HandleInv'
  <1>0. PICK h \in Handles, n \in Nodes : h = next /\ n = node[t]
    BY SenderKnows DEF SenderOK, Create
  <1>1. /\ h \in Handles /\ next' = next + 1 /\ id' = [id EXCEPT ![h] = n]
        /\ opposite' = opposite \cup {h} /\ route' = [route EXCEPT ![n] = Append(route[n], h)]
        /\ dialled' = dialled \cup {h} /\ eh' = [eh EXCEPT ![t] = h] /\ pc' = [pc EXCEPT ![t] = "check"]
    BY <1>0 DEF Create, Goto
  <1>2. /\ isConnected' = isConnected /\ isNew' = isNew /\ sock' = sock /\ reads' = reads
        /\ mtx' = mtx /\ closes' = closes /\ node' = node /\ io' = io
    BY DEF flags
  <1>3. n \in Nodes
    OBVIOUS
  <1>4. /\ Unused(h) /\ HandlerOK(h) /\ ~isConnected[h] /\ ~Reading(h) /\ closes[h] = 0
        /\ h \in Nat /\ h + 1 \in 1 .. (MaxHandles + 1)
        /\ \A m \in Nodes : h \notin Range(route[m])
    BY <1>0, <1>1, NextKnows
  <1>5. /\ route \in [Nodes -> Seq(Handles)] /\ id \in [Handles -> Nodes \cup {NoNode}]
        /\ opposite \subseteq Handles /\ dialled \subseteq Handles
    BY DEF HandleInv, TypeOK
  <1>6. Range(route[n]) = {} /\ IsInjective(route[n])
    BY <1>0 DEF Range, HandleInv, MapsAgree
  <1>7. /\ Append(route[n], h) \in Seq(Handles) /\ IsInjective(Append(route[n], h))
        /\ Range(Append(route[n], h)) = {h}
    BY <1>1, <1>3, <1>5, <1>6, Appended
  <1>8. /\ route' \in [Nodes -> Seq(Handles)] /\ Range(route'[n]) = {h} /\ IsInjective(route'[n])
        /\ \A m \in Nodes : m # n => route'[m] = route[m]
    BY <1>1, <1>3, <1>5, <1>7
  <1>9. /\ id' \in [Handles -> Nodes \cup {NoNode}] /\ id'[h] = n
        /\ \A k \in Handles : k # h => id'[k] = id[k]
    BY <1>1, <1>3, <1>5
  <1>10. /\ eh' \in [Senders -> Handles \cup {NoHandle}] /\ eh'[t] = h
         /\ \A u \in Senders : u # t => eh'[u] = eh[u]
    BY <1>1, SenderKnows
  <1>11. /\ pc' \in [Senders -> Steps] /\ pc'[t] = "check"
         /\ \A u \in Senders : u # t => pc'[u] = pc[u]
    BY <1>1, SenderKnows DEF Steps
  <1>12. TypeOK'
    <2>1. opposite' \subseteq Handles /\ dialled' \subseteq Handles
      BY <1>1, <1>5
    <2>2. next' \in 1 .. (MaxHandles + 1)
      BY <1>0, <1>1, <1>4
    <2> QED
      BY <1>2, <1>8, <1>9, <1>10, <1>11, <2>1, <2>2, Zenon DEF HandleInv, TypeOK, Steps
  <1>13. MapsAgree'
    <2> SUFFICES ASSUME NEW m \in Nodes
                 PROVE  /\ IsInjective(route'[m])
                        /\ \A k \in Range(route'[m]) : k \in opposite' /\ id'[k] = m
      BY DEF MapsAgree
    <2>1. CASE m = n
      BY <2>1, <1>1, <1>8, <1>9
    <2>2. CASE m # n
      <3>1. /\ IsInjective(route[m]) /\ route'[m] = route[m]
            /\ \A k \in Range(route[m]) : k \in opposite /\ id[k] = m /\ k # h
        BY <2>2, <1>4, <1>8 DEF HandleInv, MapsAgree
      <3> QED
        BY <3>1, <1>1, <1>5, <1>9
    <2> QED
      BY <2>1, <2>2
  <1>14. OneRoute'
    <2> SUFFICES ASSUME NEW m \in Nodes, NEW j \in Range(route'[m]), NEW k \in Range(route'[m]),
                        j \in dialled', k \in dialled'
                 PROVE  j = k
      BY DEF OneRoute
    <2>1. CASE m = n
      BY <2>1, <1>8
    <2>2. CASE m # n
      <3>1. j \in Range(route[m]) /\ k \in Range(route[m]) /\ j # h /\ k # h
        BY <2>2, <1>4, <1>8
      <3> QED
        BY <3>1, <1>1 DEF HandleInv, OneRoute
    <2> QED
      BY <2>1, <2>2
  <1>15. OneRead'
    BY <1>2 DEF HandleInv, OneRead
  <1>16. ToldOnce'
    <2> SUFFICES ASSUME NEW k \in Handles
                 PROVE  /\ closes[k] <= 1
                        /\ closes[k] = 1 => reads[k] = 0 /\ \A m \in Nodes : k \notin Range(route'[m])
      BY <1>2 DEF ToldOnce
    <2>1. CASE k = h
      BY <2>1, <1>4
    <2>2. CASE k # h
      <3>1. \A m \in Nodes : k \notin Range(route[m]) => k \notin Range(route'[m])
        BY <2>2, <1>8
      <3> QED
        BY <3>1 DEF HandleInv, ToldOnce
    <2> QED
      BY <2>1, <2>2
  <1>17. ~Reading(h)' /\ isNew'[h]
    BY <1>2, <1>4 DEF Reading, Unused
  <1>18. HandlerOK(h)'
    BY <1>1, <1>2, <1>3, <1>4, <1>9, <1>17 DEF HandlerOK
  <1>19. SenderOK(t)' /\ ~Connecting(t)
    BY <1>0, <1>1, <1>4, <1>10, <1>11 DEF SenderOK, HasHandle, Connecting
  <1>20. \A u \in Senders : Stays(u) \/ (~Connecting(u) /\ SenderOK(u)')
    BY <1>2, <1>10, <1>11, <1>19 DEF Stays
  <1> QED
    BY <1>0, <1>1, <1>2, <1>9, <1>12, <1>13, <1>14, <1>15, <1>16, <1>17, <1>18, <1>20, Given

LEMMA GetExclusiveStep == ASSUME HandleInv, NEW t \in Senders, GetExclusive(t) PROVE HandleInv'
  <1>1. pc[t] = "exclusive" /\ UNCHANGED <<flags, reads, mtx, closes, node, io>>
    BY DEF GetExclusive
  <1>2. CASE /\ route[node[t]] # << >> /\ eh' = [eh EXCEPT ![t] = Head(route[node[t]])]
             /\ Goto(t, "check") /\ UNCHANGED <<maps, next, id, dialled>>
    <2>1. UNCHANGED <<maps, next, id, flags, reads, mtx, dialled, closes, node, io>>
      BY <1>1, <1>2
    <2> QED
      BY <1>1, <1>2, <2>1, FoundStep
  <1>3. CASE route[node[t]] = << >> /\ Create(t)
    BY <1>1, <1>3, CreateStep
  <1>4. CASE Goto(t, "idle") /\ UNCHANGED <<maps, next, id, dialled, eh>>
    <2>1. UNCHANGED <<maps, next, id, flags, reads, mtx, dialled, closes, node, eh, io>>
      BY <1>1, <1>4
    <2>2. "idle" \in Steps /\ ~Connecting(t)
      BY <1>1 DEF Steps, Connecting
    <2> QED
      BY <1>1, <1>4, <2>1, <2>2, OnlyMoves
  <1> QED
    BY <1>2, <1>3, <1>4 DEF GetExclusive

(* _acceptCallback: an accepted handler has its read, or was told of. *)
LEMMA AcceptStep == ASSUME HandleInv, Accept PROVE HandleInv'
  <1>1. PICK h \in Handles : h = next
    BY DEF Accept
  <1>2. /\ io = IOIdle /\ next' = next + 1 /\ opposite' = opposite \cup {h}
        /\ isNew' = [isNew EXCEPT ![h] = FALSE]
        /\ route' = route /\ id' = id /\ mtx' = mtx /\ dialled' = dialled /\ pc' = pc
        /\ node' = node /\ eh' = eh /\ io' = io
    BY <1>1 DEF Accept
  <1>3. PICK ok \in BOOLEAN :
          /\ ~ok => OutOfMemory
          /\ sock' = [sock EXCEPT ![h] = IF ok THEN "up" ELSE "down"]
          /\ isConnected' = IF ok THEN [isConnected EXCEPT ![h] = TRUE] ELSE isConnected
          /\ reads' = IF ok THEN [reads EXCEPT ![h] = 1] ELSE reads
          /\ closes' = IF ok THEN closes ELSE [closes EXCEPT ![h] = 1]
    <2>1. CASE /\ sock' = [sock EXCEPT ![h] = "up"] /\ isConnected' = [isConnected EXCEPT ![h] = TRUE]
               /\ reads' = [reads EXCEPT ![h] = 1] /\ UNCHANGED closes
      BY <2>1
    <2>2. CASE /\ OutOfMemory /\ sock' = [sock EXCEPT ![h] = "down"]
               /\ closes' = [closes EXCEPT ![h] = 1] /\ UNCHANGED <<isConnected, reads>>
      BY <2>2
    <2> QED
      BY <1>1, <2>1, <2>2 DEF Accept
  <1>4. /\ Unused(h) /\ HandlerOK(h) /\ ~isConnected[h] /\ ~Reading(h) /\ closes[h] = 0
        /\ h \in Nat /\ h + 1 \in 1 .. (MaxHandles + 1)
        /\ \A m \in Nodes : h \notin Range(route[m])
    BY <1>1, NextKnows
  <1>5. /\ reads \in [Handles -> Nat] /\ closes \in [Handles -> Nat] /\ FlagsType
        /\ opposite \subseteq Handles
    BY DEF HandleInv, TypeOK, FlagsType
  <1>6. reads[h] = 0 /\ io.h # h
    BY <1>4, <1>5 DEF Reading
  <1>7. /\ sock' \in [Handles -> {"none", "up", "down"}] /\ sock'[h] # "none"
        /\ \A k \in Handles : k # h => sock'[k] = sock[k]
    BY <1>3, <1>5 DEF FlagsType
  <1>8. /\ reads' \in [Handles -> Nat] /\ reads'[h] <= 1 /\ (ok => reads'[h] = 1)
        /\ (~ok => reads'[h] = 0) /\ \A k \in Handles : k # h => reads'[k] = reads[k]
    BY <1>3, <1>5, <1>6
  <1>9. /\ closes' \in [Handles -> Nat] /\ (ok => closes'[h] = 0) /\ closes'[h] <= 1
        /\ \A k \in Handles : k # h => closes'[k] = closes[k]
    BY <1>3, <1>4, <1>5
  <1>10. /\ isNew' \in [Handles -> BOOLEAN] /\ ~isNew'[h]
         /\ \A k \in Handles : k # h => isNew'[k] = isNew[k]
    BY <1>2, <1>5 DEF FlagsType
  <1>11. /\ isConnected' \in [Handles -> BOOLEAN]
         /\ \A k \in Handles : k # h => isConnected'[k] = isConnected[k]
    BY <1>3, <1>5 DEF FlagsType
  <1>12. TypeOK'
    <2>1. opposite' \subseteq Handles
      BY <1>2, <1>5
    <2>2. next' \in 1 .. (MaxHandles + 1)
      BY <1>1, <1>2, <1>4
    <2> QED
      BY <1>2, <1>7, <1>8, <1>9, <1>10, <1>11, <2>1, <2>2, Zenon DEF HandleInv, TypeOK
  <1>13. MapsAgree' /\ OneRoute'
    BY <1>2 DEF HandleInv, MapsAgree, OneRoute
  <1>14. OneRead'
    <2> SUFFICES ASSUME NEW k \in Handles
                 PROVE  reads'[k] <= IF sock'[k] = "none" \/ io'.h = k THEN 0 ELSE 1
      BY DEF OneRead
    <2>1. CASE k = h
      BY <2>1, <1>2, <1>6, <1>7, <1>8
    <2>2. CASE k # h
      <3>1. reads[k] <= IF sock[k] = "none" \/ io.h = k THEN 0 ELSE 1
        BY DEF HandleInv, OneRead
      <3> QED
        BY <3>1, <2>2, <1>2, <1>7, <1>8
    <2> QED
      BY <2>1, <2>2
  <1>15. ToldOnce'
    <2> SUFFICES ASSUME NEW k \in Handles
                 PROVE  /\ closes'[k] <= 1
                        /\ closes'[k] = 1 => reads'[k] = 0 /\ \A m \in Nodes : k \notin Range(route[m])
      BY <1>2 DEF ToldOnce
    <2>1. CASE k = h
      BY <2>1, <1>4, <1>8, <1>9
    <2>2. CASE k # h
      <3>1. /\ closes[k] <= 1
            /\ closes[k] = 1 => reads[k] = 0 /\ \A m \in Nodes : k \notin Range(route[m])
        BY DEF HandleInv, ToldOnce
      <3> QED
        BY <3>1, <2>2, <1>8, <1>9
    <2> QED
      BY <2>1, <2>2
  <1>16. Reading(h)' <=> ok
    BY <1>2, <1>6, <1>8 DEF Reading
  <1>17. HandlerOK(h)'
    <2>1. h \in opposite' /\ h \notin dialled'
      BY <1>2, <1>4 DEF Unused
    <2> QED
      BY <2>1, <1>7, <1>9, <1>10, <1>16 DEF HandlerOK
  <1>18. \A u \in Senders : Stays(u)
    BY <1>2 DEF Stays
  <1> QED
    BY <1>1, <1>2, <1>3, <1>7, <1>8, <1>9, <1>10, <1>11, <1>12, <1>13, <1>14, <1>15, <1>16,
       <1>17, <1>18, Given

(* The first message of an accepted handler tells its node: the handler   *)
(* joins the route table, in which it was not.                             *)
LEMMA JoinStep ==
  ASSUME HandleInv, NEW h \in Handles, io = IOIdle, reads[h] > 0,
         reads' = [reads EXCEPT ![h] = @ - 1], io' = [do |-> "read", h |-> h],
         NEW n \in Nodes, id[h] = NoNode, id' = [id EXCEPT ![h] = n],
         route' = [route EXCEPT ![n] = Append(@, h)],
         UNCHANGED flags, UNCHANGED <<opposite, next, mtx, dialled, closes, pc, node, eh>>
  PROVE  HandleInv'
  <1>1. /\ isConnected' = isConnected /\ isNew' = isNew /\ sock' = sock /\ opposite' = opposite
        /\ next' = next /\ mtx' = mtx /\ dialled' = dialled /\ closes' = closes /\ pc' = pc
        /\ node' = node /\ eh' = eh
    BY DEF flags
  <1>2. Reading(h)
    BY DEF Reading
  <1>3. /\ h < next /\ ~isNew[h] /\ closes[h] = 0 /\ sock[h] # "none" /\ h \in opposite
        /\ HandlerOK(h)
    BY <1>2, ReadKnows DEF HandleInv, HandlerInv
  <1>4. Lowered /\ FlagsType'
    BY SameFlags
  <1>5. /\ reads' \in [Handles -> Nat] /\ io' \in [do : {"idle", "read"}, h : Handles \cup {NoHandle}]
        /\ OneRead' /\ IOInv' /\ \A k \in Handles : Reading(k)' <=> Reading(k)
    BY <1>4, ReadPending
  <1>6. h \notin dialled /\ \A m \in Nodes : h \notin Range(route[m])
    BY <1>3, HandlesAre DEF HandlerOK, HandleInv, MapsAgree
  <1>7. /\ route \in [Nodes -> Seq(Handles)] /\ id \in [Handles -> Nodes \cup {NoNode}]
        /\ \A m \in Nodes : IsInjective(route[m])
    BY DEF HandleInv, TypeOK, MapsAgree
  <1>8. /\ Append(route[n], h) \in Seq(Handles) /\ IsInjective(Append(route[n], h))
        /\ Range(Append(route[n], h)) = Range(route[n]) \cup {h}
    BY <1>6, <1>7, Appended
  <1>9. /\ route' \in [Nodes -> Seq(Handles)] /\ IsInjective(route'[n])
        /\ Range(route'[n]) = Range(route[n]) \cup {h}
        /\ \A m \in Nodes : m # n => route'[m] = route[m]
    BY <1>7, <1>8
  <1>10. /\ id' \in [Handles -> Nodes \cup {NoNode}] /\ id'[h] = n
         /\ \A k \in Handles : k # h => id'[k] = id[k]
    BY <1>7
  <1>11. TypeOK'
    BY <1>1, <1>5, <1>9, <1>10, Zenon DEF HandleInv, TypeOK
  <1>12. MapsAgree'
    <2> SUFFICES ASSUME NEW m \in Nodes
                 PROVE  /\ IsInjective(route'[m])
                        /\ \A k \in Range(route'[m]) : k \in opposite /\ id'[k] = m
      BY <1>1 DEF MapsAgree
    <2>1. /\ IsInjective(route[m])
          /\ \A k \in Range(route[m]) : k \in opposite /\ id[k] = m /\ k # h /\ k \in Handles
      BY <1>6 DEF HandleInv, MapsAgree, TypeOK
    <2>2. CASE m = n
      BY <2>1, <2>2, <1>3, <1>9, <1>10
    <2>3. CASE m # n
      BY <2>1, <2>3, <1>9, <1>10
    <2> QED
      BY <2>2, <2>3
  <1>13. OneRoute'
    <2>1. \A m \in Nodes : Range(route'[m]) \cap dialled = Range(route[m]) \cap dialled
      <3> SUFFICES ASSUME NEW m \in Nodes PROVE Range(route'[m]) \cap dialled = Range(route[m]) \cap dialled
        OBVIOUS
      <3>1. CASE m = n
        BY <3>1, <1>6, <1>9
      <3>2. CASE m # n
        BY <3>2, <1>9
      <3> QED
        BY <3>1, <3>2
    <2> QED
      BY <2>1, <1>1 DEF HandleInv, OneRoute
  <1>14. ToldOnce'
    <2> SUFFICES ASSUME NEW k \in Handles
                 PROVE  /\ closes[k] <= 1
                        /\ closes[k] = 1 => reads'[k] = 0 /\ \A m \in Nodes : k \notin Range(route'[m])
      BY <1>1 DEF ToldOnce
    <2>1. CASE k = h
      BY <2>1, <1>3
    <2>2. CASE k # h
      <3>1. /\ closes[k] <= 1
            /\ closes[k] = 1 => reads[k] = 0 /\ \A m \in Nodes : k \notin Range(route[m])
        BY DEF HandleInv, ToldOnce
      <3>2. reads'[k] = reads[k]
        BY <2>2 DEF HandleInv, TypeOK
      <3> QED
        BY <3>1, <3>2, <2>2, <1>9
    <2> QED
      BY <2>1, <2>2
  <1>15. HandlerInv'
    <2> SUFFICES ASSUME NEW k \in Handles PROVE HandlerOK(k)'
      BY DEF HandlerInv
    <2>1. HandlerOK(k)
      BY DEF HandleInv, HandlerInv
    <2>2. CASE k = h
      BY <2>1, <2>2, <1>1, <1>3, <1>5, <1>6 DEF HandlerOK
    <2>3. CASE k # h
      BY <2>1, <2>3, <1>1, <1>5, <1>10 DEF HandlerOK
    <2> QED
      BY <2>2, <2>3
  <1>16. UnusedInv'
    <2>1. \A k \in Handles : k >= next => k # h
      BY <1>3, InMaps
    <2> QED
      BY <2>1, <1>1, <1>10 DEF HandleInv, UnusedInv, Unused
  <1>17. SenderInv'
    <2> SUFFICES ASSUME NEW u \in Senders PROVE SenderOK(u)'
      BY DEF SenderInv
    <2>1. SenderOK(u)
      BY DEF HandleInv, SenderInv
    <2>2. Connecting(u) => ~Reading(eh[u])'
      BY <2>1, <1>1, <1>5 DEF SenderOK, HasHandle
    <2> QED
      BY <2>1, <2>2, <1>1 DEF SenderOK, HasHandle, Connecting
  <1>18. EraserInv'
    <2>1. \A k \in opposite : k \in Handles /\ (Reading(k)' <=> Reading(k))
      BY <1>5 DEF HandleInv, TypeOK
    <2> QED
      BY <2>1, <1>1 DEF HandleInv, EraserInv, Connecting
  <1> QED
    BY <1>5, <1>11, <1>12, <1>13, <1>14, <1>15, <1>16, <1>17, <1>18 DEF HandleInv

LEMMA ReadDoneStep == ASSUME HandleInv, NEW h \in Handles, ReadDone(h) PROVE HandleInv'
  <1>1. /\ io = IOIdle /\ reads[h] > 0 /\ reads' = [reads EXCEPT ![h] = @ - 1]
        /\ io' = [do |-> "read", h |-> h]
        /\ UNCHANGED <<opposite, next, mtx, dialled, closes, pc, node, eh>>
    BY DEF ReadDone
  <1>2. ASSUME Lowered, FlagsType', UNCHANGED <<route, id>> PROVE HandleInv'
    <2>1. UNCHANGED <<maps, next, id, mtx, dialled, closes, pc, node, eh>>
      BY <1>1, <1>2 DEF maps
    <2> QED
      BY <1>1, <1>2, <2>1, ReadPending, Outside
  <1>3. CASE UNCHANGED <<route, id, flags>>
    BY <1>2, <1>3, SameFlags
  <1>4. ASSUME NEW n \in Nodes, id[h] = NoNode, id' = [id EXCEPT ![h] = n],
               route' = [route EXCEPT ![n] = Append(@, h)], UNCHANGED flags
        PROVE  HandleInv'
    BY <1>1, <1>4, JoinStep
  <1>5. CASE CloseHandlers({h}) /\ UNCHANGED <<route, id>>
    <2>1. Reading(h)
      BY <1>1 DEF Reading
    <2>2. h < next /\ ~isNew[h]
      BY <2>1, ReadKnows
    <2>3. Lowered /\ FlagsType'
      BY <1>5, <2>2, Closing
    <2> QED
      BY <1>2, <1>5, <2>3
  <1> QED
    BY <1>3, <1>4, <1>5 DEF ReadDone

LEMMA HandleStep == HandleInv /\ [Next]_vars => HandleInv'
  <1> SUFFICES ASSUME HandleInv, [Next]_vars PROVE HandleInv'
    OBVIOUS
  <1>1. ASSUME NEW t \in Senders, Sender(t) PROVE HandleInv'
    BY <1>1, GetSharedStep, GetExclusiveStep, CheckConnectedStep, ConnectStep, DialStep, SetOptStep,
       FirstReadStep, DropStep, SyncSendStep, SendFailsStep DEF Sender
  <1>2. ASSUME NEW t \in Senders, NEW n \in Nodes, Send(t, n) PROVE HandleInv'
    BY <1>2, SendStep
  <1>3. ASSUME NEW h \in Handles, ReadDone(h) \/ ReadFails(h) \/ PeerCloses(h) PROVE HandleInv'
    BY <1>3, ReadDoneStep, ReadFailsStep, PeerClosesStep
  <1>4. CASE Accept \/ ReadAgain \/ Close
    BY <1>4, AcceptStep, ReadAgainStep, CloseStep
  <1>5. CASE UNCHANGED vars
    <2>1. /\ UNCHANGED flags
          /\ UNCHANGED <<maps, next, id, reads, mtx, dialled, closes, pc, node, eh, io>>
      BY <1>5 DEF vars, flags, maps
    <2> QED
      BY <2>1, SameFlags, OutsideFlags
  <1> QED
    BY <1>1, <1>2, <1>3, <1>4, <1>5 DEF Next

LEMMA HandlesInvariant == Spec => []HandleInv
  BY HandleInit, HandleStep, PTL DEF Spec

(* _getHandle, syncConnect, the callbacks of reads and accepts, close and  *)
(* _erase, in whatever order senders, the I/O thread and applications take *)
(* them, whether or not memory runs out and new handlers are closed: the   *)
(* two maps agree, a node gets one dialled handler, a socket one read, and *)
(* handleClose is called once at most and after the last read.             *)
THEOREM HandlesAreSound == Spec => []HandlesSound
  <1>1. ASSUME HandleInv, NEW n \in Nodes PROVE Cardinality(Range(route[n]) \cap dialled) <= 1
    <2> DEFINE S == Range(route[n]) \cap dialled
    <2>1. CASE S = {}
      BY <2>1, FS_EmptySet
    <2>2. CASE S # {}
      <3>1. PICK x : S = {x}
        BY <1>1, <2>2 DEF HandleInv, OneRoute
      <3> HIDE DEF S
      <3>2. Cardinality(S) = 1
        BY <3>1, FS_Singleton
      <3> QED
        BY <3>2 DEF S
    <2> QED
      BY <2>1, <2>2
  <1>2. HandleInv => HandlesSound
    BY <1>1 DEF HandleInv, HandlesSound, OneDialled
  <1> QED
    BY <1>2, HandlesInvariant, PTL

(* "because when close, the net-thread will be in asyncRead code": true    *)
(* where no application closes a handler that is not connected yet and the *)
(* stream buffer of a handler is never refused.                            *)
THEOREM ReadersErase == ASSUME ~CloseNew, ~OutOfMemory PROVE Spec => []ReaderErases
  <1>1. HandleInv => ReaderErases
    BY DEF HandleInv, EraserInv, ReaderErases, Reading, Connecting
  <1> QED
    BY <1>1, HandlesInvariant, PTL

-----------------------------------------------------------------------------
(* The reading side of a connection, for any lengths, any messages, and    *)
(* any way in which the stream is cut.                                     *)

(* With a parser, a peer sends messages shorter than the buffer, and waits *)
(* for the answer to one before it sends the next.                         *)
ParserFits ==
  \A p \in Peers : p.parser =>
    /\ p.waits
    /\ \A i \in 1..Len(p.msgs) : /\ p.msgs[i].kind = "message"
                                 /\ HeaderLen <= p.msgs[i].len /\ p.msgs[i].len < MaxLen

(* The message that is being read. *)
Cur == Len(out) + 1
Good(m) == m.kind = "message" /\ ~Illegal(m)

(* What a pending read has before it: the first bytes of a header, all of  *)
(* it, the rest of it behind the first bytes, or a body.                   *)
PendingInv ==
  \/ state = "BODY" /\ pos = headerAt + HeaderLen
  \/ state = "HEADER" /\ ~hasRecvMsg /\ pos = headerAt /\ reading = SysLen /\ Cur = 1
  \/ state = "HEADER" /\ hasRecvMsg /\ pos = headerAt /\ reading = HeaderLen /\ Cur > 1
  \/ /\ state = "HEADER" /\ hasRecvMsg /\ pos = headerAt + SysLen /\ reading = HeaderLen - SysLen
     /\ Cur <= Len(input) /\ Good(input[Cur])

PacketInv ==
  /\ headerAt = Begin(Cur)
  /\ state = "BODY" =>
       /\ Cur <= Len(input) /\ Good(input[Cur]) /\ input[Cur].len > HeaderLen
       /\ input[Cur].len <= bufLen /\ bufAt = headerAt /\ hasRecvMsg
       /\ reading > 0 => reading = input[Cur].len - HeaderLen
  /\ reading > 0 /\ ~timedOut => PendingInv

StreamInv ==
  /\ bufLen = MaxLen /\ most < MaxLen
  /\ bufAt = Begin(Cur) /\ pos = bufAt + dataRecvd
  /\ IF Cur <= Len(input) THEN dataRecvd < Size(input[Cur]) ELSE dataRecvd = 0
  /\ reading > 0 => reading = MaxLen - dataRecvd

ReaderInv ==
  /\ ReaderTypeOK /\ FramesExact
  /\ IF peer.parser THEN state = "STREAM" /\ StreamInv
                    ELSE state # "STREAM" /\ PacketInv

LEMMA LengthsAre == /\ SysLen \in Nat /\ HeaderLen \in Nat /\ MaxLen \in Nat
                    /\ 0 < SysLen /\ SysLen < HeaderLen /\ HeaderLen <= MaxLen
  BY ReaderAssumption

LEMMA SizeIs ==
  ASSUME NEW m \in [kind : Kinds, len : Nat]
  PROVE  /\ Size(m) \in Nat /\ Size(m) > 0
         /\ m.kind = "sysinfo" => Size(m) = SysLen /\ ~Illegal(m)
         /\ Good(m) => Size(m) = m.len /\ HeaderLen <= m.len /\ m.len <= MaxLen
  <1>1. /\ m.len \in Nat /\ (m.kind = "sysinfo" \/ m.kind = "message")
    BY DEF Kinds
  <1>2. CASE m.kind = "sysinfo"
    BY <1>2, LengthsAre DEF Size, Illegal, Good
  <1>3. CASE m.kind = "message" /\ Illegal(m)
    <2>1. Size(m) = HeaderLen
      BY <1>3 DEF Size
    <2> QED
      BY <1>3, <2>1, LengthsAre DEF Good
  <1>4. CASE m.kind = "message" /\ ~Illegal(m)
    <2>1. Size(m) = m.len
      BY <1>4 DEF Size
    <2>2. HeaderLen <= m.len /\ m.len <= MaxLen
      BY <1>1, <1>4, LengthsAre DEF Illegal
    <2> QED
      BY <1>1, <1>4, <2>1, <2>2, LengthsAre
  <1> QED
    BY <1>1, <1>2, <1>3, <1>4

LEMMA PeerIs ==
  ASSUME peer \in Peers
  PROVE  /\ input \in Seq([kind : Kinds, len : Nat]) /\ Len(input) \in Nat
         /\ Begin(1) = 0
         /\ \A i \in 1..Len(input) + 1 : Begin(i) \in Nat
         /\ \A i \in 1..Len(input) : /\ input[i] \in [kind : Kinds, len : Nat]
                                     /\ Begin(i + 1) = Begin(i) + Size(input[i])
         /\ \A i \in 2..Len(input) : input[i].kind = "message"
         /\ peer.parser \in BOOLEAN /\ peer.waits \in BOOLEAN
  <1>1. IsPeer(peer)
    BY ReaderAssumption
  <1>2. /\ input \in Seq([kind : Kinds, len : Nat]) /\ peer.begin \in Seq(Nat)
        /\ peer.parser \in BOOLEAN /\ peer.waits \in BOOLEAN
    BY <1>1 DEF IsPeer, input
  <1>3. Len(input) \in Nat /\ Len(peer.begin) = Len(input) + 1
    BY <1>1, <1>2 DEF IsPeer, input
  <1>4. \A i \in 1..Len(input) + 1 : Begin(i) \in Nat
    BY <1>2, <1>3 DEF Begin
  <1>5. \A i \in 1..Len(input) : /\ input[i] \in [kind : Kinds, len : Nat]
                                 /\ Begin(i + 1) = Begin(i) + Size(input[i])
    <2>1. \A i \in 1..Len(input) : input[i] \in [kind : Kinds, len : Nat]
      BY <1>2, ElementOfSeq
    <2>2. \A i \in 1..Len(input) : Begin(i + 1) = Begin(i) + Size(input[i])
      BY <1>1 DEF IsPeer, input, Begin
    <2> QED
      BY <2>1, <2>2
  <1>6. Begin(1) = 0 /\ \A i \in 2..Len(input) : input[i].kind = "message"
    BY <1>1 DEF IsPeer, input, Begin
  <1> QED
    BY <1>2, <1>3, <1>4, <1>5, <1>6

LEMMA LeastNat ==
  ASSUME NEW S \in SUBSET Nat, S # {}
  PROVE  \E x \in S : \A y \in S : x <= y
  <1>1. PICK x \in S : \A y \in S : ~(<<y, x>> \in OpToRel(<, Nat))
    BY NatLessThanWellFounded, WFMin
  <1>2. ASSUME NEW y \in S PROVE x <= y
    <2>1. <<y, x>> \in {ss \in Nat \X Nat : ss[1] < ss[2]} <=> y < x
      OBVIOUS
    <2>2. <<y, x>> \notin {ss \in Nat \X Nat : ss[1] < ss[2]}
      BY <1>1 DEF OpToRel
    <2> QED
      BY <2>1, <2>2
  <1> QED
    BY <1>2

(* Messages begin one behind the other: the first that did not would have  *)
(* to begin before the end of the one before it.                           *)
LEMMA Ascending ==
  ASSUME peer \in Peers, NEW i \in 1..Len(input) + 1, NEW j \in 1..Len(input) + 1, i < j
  PROVE  Begin(i) < Begin(j)
  <1> DEFINE bad == {k \in i + 1..Len(input) + 1 : Begin(k) <= Begin(i)}
  <1>1. Len(input) \in Nat
    BY PeerIs
  <1>2. ASSUME bad # {} PROVE FALSE
    <2>1. bad \in SUBSET Nat
      BY <1>1
    <2>2. PICK k \in bad : \A y \in bad : k <= y
      BY <1>2, <2>1, LeastNat
    <2>3. k \in i + 1..Len(input) + 1 /\ Begin(k) <= Begin(i)
      BY <2>2
    <2>4. k - 1 \in 1..Len(input) /\ k - 1 >= i /\ k = (k - 1) + 1
      BY <1>1, <2>3
    <2>5. Begin(k) = Begin(k - 1) + Size(input[k - 1]) /\ Begin(k - 1) \in Nat /\ Begin(i) \in Nat
      BY <1>1, <2>4, PeerIs
    <2>6. Size(input[k - 1]) \in Nat /\ Size(input[k - 1]) > 0
      BY <2>4, PeerIs, SizeIs
    <2>7. Begin(i) <= Begin(k - 1)
      <3>1. CASE k - 1 = i
        BY <3>1, <2>5
      <3>2. CASE k - 1 # i
        <4>1. k - 1 \in i + 1..Len(input) + 1 /\ ~(k <= k - 1)
          BY <1>1, <2>4, <3>2, <2>3
        <4>2. ~(Begin(k - 1) <= Begin(i))
          BY <4>1, <2>2
        <4> QED
          BY <4>2, <2>5
      <3> QED
        BY <3>1, <3>2
    <2> QED
      BY <2>3, <2>5, <2>6, <2>7
  <1>3. j \notin bad /\ j \in i + 1..Len(input) + 1
    BY <1>1, <1>2
  <1>4. Begin(i) \in Nat /\ Begin(j) \in Nat
    BY PeerIs
  <1> QED
    BY <1>3, <1>4

LEMMA BeginIs ==
  ASSUME peer \in Peers, NEW k \in 1..Len(input) + 1
  PROVE  /\ Total \in Nat /\ Begin(k) \in 0..Total
         /\ Boundary(Begin(k)) <=> k <= Len(input)
         /\ k <= Len(input) => MessageAt(Begin(k)) = input[k]
  <1>1. /\ Len(input) \in Nat /\ Len(input) + 1 \in 1..Len(input) + 1 /\ k \in Nat /\ k >= 1
        /\ DOMAIN input = 1..Len(input)
    <2>1. Len(input) \in Nat /\ input \in Seq([kind : Kinds, len : Nat])
      BY PeerIs
    <2> QED
      BY <2>1
  <1>2. Total \in Nat /\ Begin(k) \in Nat
    BY <1>1, PeerIs DEF Total
  <1>3. Begin(k) <= Total
    <2>1. CASE k = Len(input) + 1
      BY <2>1, <1>2 DEF Total
    <2>2. CASE k < Len(input) + 1
      BY <2>2, <1>1, <1>2, Ascending DEF Total
    <2> QED
      BY <1>1, <2>1, <2>2
  <1>4. ASSUME NEW i \in 1..Len(input), Begin(i) = Begin(k) PROVE i = k
    <2>1. i \in 1..Len(input) + 1 /\ Begin(i) \in Nat
      BY <1>1, PeerIs
    <2>2. ~(i < k) /\ ~(k < i)
      BY <2>1, <1>2, <1>4, Ascending
    <2> QED
      BY <2>1, <2>2, <1>1
  <1>5. Boundary(Begin(k)) <=> k <= Len(input)
    BY <1>1, <1>4 DEF Boundary
  <1>6. ASSUME k <= Len(input) PROVE MessageAt(Begin(k)) = input[k]
    <2>1. k \in DOMAIN input
      BY <1>1, <1>6
    <2>2. \A i \in DOMAIN input : Begin(i) = Begin(k) <=> i = k
      BY <1>1, <1>4
    <2> DEFINE c == CHOOSE i \in DOMAIN input : Begin(i) = Begin(k)
    <2>3. c \in DOMAIN input /\ Begin(c) = Begin(k)
      BY <2>1
    <2>4. c = k
      BY <2>2, <2>3
    <2> QED
      BY <2>4 DEF MessageAt
  <1> QED
    BY <1>2, <1>3, <1>5, <1>6

(* What is known of the message that is being read. *)
LEMMA CurIs ==
  ASSUME ReaderTypeOK, FramesExact
  PROVE  /\ peer \in Peers /\ Len(input) \in Nat /\ Len(out) \in Nat
         /\ Cur \in Nat /\ Cur >= 1 /\ Cur \in 1..Len(input) + 1
         /\ Total \in Nat /\ Begin(Cur) \in 0..Total
         /\ Cur <= Len(input) =>
              /\ input[Cur] \in [kind : Kinds, len : Nat]
              /\ MessageAt(Begin(Cur)) = input[Cur]
              /\ Begin(Cur + 1) = Begin(Cur) + Size(input[Cur])
              /\ Begin(Cur + 1) \in 0..Total
         /\ Boundary(Begin(Cur)) <=> Cur <= Len(input)
  <1>1. peer \in Peers /\ out \in Seq([at : 0..Total, len : 0..Total])
    BY DEF ReaderTypeOK
  <1>2. Len(input) \in Nat /\ Len(out) \in Nat /\ Len(out) <= Len(input)
    BY <1>1, PeerIs DEF FramesExact
  <1>3. Cur \in Nat /\ Cur >= 1 /\ Cur \in 1..Len(input) + 1
    BY <1>2 DEF Cur
  <1>4. /\ Total \in Nat /\ Begin(Cur) \in 0..Total
        /\ Cur <= Len(input) => MessageAt(Begin(Cur)) = input[Cur]
        /\ Boundary(Begin(Cur)) <=> Cur <= Len(input)
    BY <1>1, <1>3, BeginIs
  <1>5. ASSUME Cur <= Len(input)
        PROVE  /\ input[Cur] \in [kind : Kinds, len : Nat]
               /\ Begin(Cur + 1) = Begin(Cur) + Size(input[Cur])
               /\ Begin(Cur + 1) \in 0..Total
    <2>1. Cur \in 1..Len(input) /\ Cur + 1 \in 1..Len(input) + 1
      BY <1>2, <1>3, <1>5
    <2> QED
      BY <1>1, <2>1, PeerIs, BeginIs
  <1> QED
    BY <1>1, <1>2, <1>3, <1>4, <1>5

LEMMA SamePeer ==
  ASSUME peer' = peer
  PROVE  input' = input /\ Total' = Total /\ \A i : Begin(i)' = Begin(i)
  BY DEF input, Total, Begin

(* A whole message is handed on. *)
LEMMA Delivered ==
  ASSUME ReaderTypeOK, FramesExact, peer' = peer, Cur <= Len(input), ~Illegal(input[Cur]),
         Deliver(Begin(Cur), Size(input[Cur]))
  PROVE  /\ FramesExact' /\ out' \in Seq([at : 0..Total, len : 0..Total])'
         /\ Cur' = Cur + 1 /\ Begin(Cur)' = Begin(Cur) + Size(input[Cur])
         /\ Begin(Cur)' \in 0..Total
  <1> DEFINE new == [at |-> Begin(Cur), len |-> Size(input[Cur])]
             T == [at : 0..Total, len : 0..Total]
  <1>1. out' = Append(out, new) /\ out \in Seq(T)
    BY DEF Deliver, ReaderTypeOK
  <1>2. Size(input[Cur]) \in Nat /\ Size(input[Cur]) <= Total
    BY CurIs, SizeIs
  <1>3. new \in T
    BY <1>2, CurIs
  <1>4. /\ out' \in Seq(T) /\ Len(out') = Len(out) + 1 /\ Len(out) \in Nat
        /\ out'[Len(out) + 1] = new
        /\ \A i \in 1..Len(out) : out'[i] = out[i]
    <2> HIDE DEF T, new
    <2> QED
      BY <1>1, <1>3, AppendProperties
  <1>5. input' = input /\ Total' = Total /\ \A i : Begin(i)' = Begin(i)
    BY SamePeer
  <1>6. Cur' = Cur + 1 /\ Cur = Len(out) + 1 /\ Len(out') <= Len(input')
    BY <1>4, <1>5, CurIs DEF Cur
  <1>7. /\ DOMAIN out = 1..Len(out) /\ DOMAIN out' = 1..Len(out')
    BY <1>1, <1>4
  <1>8. ASSUME NEW i \in DOMAIN out'
        PROVE  out'[i].at = Begin(i)' /\ out'[i].len = Size(input'[i]) /\ ~Illegal(input'[i])
    <2>1. CASE i = Len(out) + 1
      BY <2>1, <1>4, <1>5, <1>6
    <2>2. CASE i # Len(out) + 1
      <3>1. i \in DOMAIN out /\ i \in 1..Len(out)
        BY <2>2, <1>4, <1>7
      <3>2. out[i].at = Begin(i) /\ out[i].len = Size(input[i]) /\ ~Illegal(input[i])
        BY <3>1 DEF FramesExact
      <3> QED
        BY <3>1, <3>2, <1>4, <1>5
    <2> QED
      BY <2>1, <2>2
  <1>9. FramesExact'
    BY <1>6, <1>8, <1>5 DEF FramesExact, Size, Illegal
  <1>10. Begin(Cur)' = Begin(Cur + 1)
    BY <1>5, <1>6 DEF Begin
  <1> QED
    BY <1>4, <1>5, <1>6, <1>9, <1>10, CurIs

LEMMA ReaderInitial == ASSUME ReaderInit, ParserFits PROVE ReaderInv
  <1>1. /\ peer \in Peers /\ pos = 0 /\ headerAt = 0 /\ bufAt = 0 /\ dataRecvd = 0 /\ most = 0
        /\ state = (IF peer.parser THEN "STREAM" ELSE "HEADER")
        /\ hasRecvMsg = FALSE /\ linked = TRUE
        /\ reading = (IF peer.parser THEN MaxLen ELSE SysLen)
        /\ bufLen = (IF peer.parser THEN MaxLen ELSE 0)
        /\ out = << >> /\ timedOut = FALSE /\ ended = FALSE
    BY DEF ReaderInit
  <1>2. /\ Len(input) \in Nat /\ Begin(1) = 0 /\ 1 \in 1..Len(input) + 1
        /\ Total \in Nat /\ peer.parser \in BOOLEAN
    <2>1. Len(input) \in Nat /\ Begin(1) = 0 /\ peer.parser \in BOOLEAN
      BY <1>1, PeerIs
    <2>2. 1 \in 1..Len(input) + 1
      BY <2>1
    <2> QED
      BY <1>1, <2>1, <2>2, BeginIs
  <1>3. Len(out) = 0 /\ Cur = 1 /\ out \in Seq([at : 0..Total, len : 0..Total]) /\ DOMAIN out = {}
    BY <1>1 DEF Cur
  <1>4. ReaderTypeOK
    <2>1. /\ reading \in 0..MaxLen /\ bufLen \in 0..MaxLen /\ 0 \in 0..Total /\ 0 \in 0..MaxLen
          /\ state \in {"HEADER", "BODY", "STREAM"}
      BY <1>1, <1>2, LengthsAre
    <2>2. hasRecvMsg \in BOOLEAN /\ linked \in BOOLEAN /\ timedOut \in BOOLEAN /\ ended \in BOOLEAN
      BY <1>1
    <2> QED
      BY <1>1, <1>3, <2>1, <2>2 DEF ReaderTypeOK
  <1>5. FramesExact
    BY <1>2, <1>3 DEF FramesExact
  <1>6. CASE peer.parser
    <2>1. state = "STREAM" /\ reading = MaxLen /\ bufLen = MaxLen
      BY <1>1, <1>6
    <2>2. 1 <= Len(input) => Size(input[1]) > 0 /\ Size(input[1]) \in Nat
      <3>1. 1 <= Len(input) => input[1] \in [kind : Kinds, len : Nat]
        BY <1>1, <1>2, PeerIs
      <3> QED
        BY <3>1, SizeIs
    <2> QED
      BY <1>1, <1>2, <1>3, <1>4, <1>5, <1>6, <2>1, <2>2, LengthsAre DEF ReaderInv, StreamInv
  <1>7. CASE ~peer.parser
    <2>1. state = "HEADER" /\ reading = SysLen
      BY <1>1, <1>7
    <2> QED
      BY <1>1, <1>2, <1>3, <1>4, <1>5, <1>7, <2>1, LengthsAre DEF ReaderInv, PacketInv, PendingInv
  <1> QED
    BY <1>6, <1>7

(* Without a parser a message is handed on when its last byte has come,    *)
(* and the next header is waited for.                                      *)
LEMMA HandedOn ==
  ASSUME ReaderInv, ~peer.parser, UNCHANGED <<peer, timedOut, dataRecvd, most>>,
         Cur <= Len(input), ~Illegal(input[Cur]),
         pos' = headerAt + Size(input[Cur]), Deliver(headerAt, pos' - headerAt), NextHeader,
         AsyncRead("HEADER", TRUE, pos'), hasRecvMsg' = TRUE,
         bufLen' \in 0..MaxLen, bufAt' \in 0..Total
  PROVE  ReaderInv'
  <1>1. ReaderTypeOK /\ FramesExact /\ PacketInv
    BY DEF ReaderInv
  <1>2. headerAt = Begin(Cur) /\ Begin(Cur) \in Nat /\ Size(input[Cur]) \in Nat
    BY <1>1, CurIs, SizeIs DEF PacketInv
  <1>3. pos' - headerAt = Size(input[Cur])
    BY <1>2
  <1>4. /\ FramesExact' /\ out' \in Seq([at : 0..Total, len : 0..Total])'
        /\ Cur' = Cur + 1 /\ Begin(Cur)' = pos' /\ Begin(Cur)' \in 0..Total
    BY <1>1, <1>2, <1>3, Delivered
  <1>5. state' = "HEADER" /\ headerAt' = pos'
    BY DEF NextHeader
  <1>6. /\ linked' \in BOOLEAN /\ ended' \in BOOLEAN
        /\ reading' = 0 \/ reading' = HeaderLen
    <2>1. CASE linked
      <3>1. Wanted("HEADER", TRUE, pos') = HeaderLen
        BY DEF Wanted
      <3> QED
        BY <2>1, <3>1, <1>1 DEF AsyncRead, ReaderTypeOK
    <2>2. CASE ~linked
      BY <2>2 DEF AsyncRead, ErrorEnd
    <2> QED
      BY <2>1, <2>2
  <1>7. input' = input /\ Total' = Total
    BY SamePeer
  <1>8. ReaderTypeOK'
    <2>1. reading' \in 0..MaxLen /\ timedOut' \in BOOLEAN /\ hasRecvMsg' \in BOOLEAN
      BY <1>1, <1>6, LengthsAre DEF ReaderTypeOK
    <2>2. /\ peer' \in Peers /\ dataRecvd' \in 0..MaxLen /\ most' \in 0..MaxLen
      BY <1>1 DEF ReaderTypeOK
    <2>3. pos' \in 0..Total' /\ headerAt' \in 0..Total' /\ bufAt' \in 0..Total'
      BY <1>4, <1>5, <1>7
    <2> QED
      BY <1>4, <1>5, <1>6, <2>1, <2>2, <2>3 DEF ReaderTypeOK
  <1>9. PacketInv'
    <2>1. Cur' > 1
      BY <1>1, <1>4, CurIs
    <2>2. reading' > 0 => reading' = HeaderLen
      BY <1>6
    <2> QED
      BY <1>4, <1>5, <2>1, <2>2 DEF PacketInv, PendingInv
  <1> QED
    BY <1>4, <1>5, <1>8, <1>9 DEF ReaderInv

(* What a callback without a parser finds. *)
LEMMA Completed ==
  ASSUME ReaderInv, Completes
  PROVE  /\ ReaderTypeOK /\ FramesExact /\ ~peer.parser /\ PacketInv /\ PendingInv
         /\ reading \in Nat /\ pos \in Nat /\ pos' = pos + reading /\ pos' \in 0..Total
         /\ UNCHANGED <<peer, timedOut, dataRecvd, most>>
         /\ input' = input /\ Total' = Total /\ (\A i : Begin(i)' = Begin(i))
         /\ hasRecvMsg \in BOOLEAN
  <1>1. ReaderTypeOK /\ FramesExact /\ ~peer.parser /\ PacketInv
    BY DEF ReaderInv, Completes
  <1>2. PendingInv
    BY <1>1 DEF PacketInv, Completes
  <1>3. reading \in Nat /\ pos \in Nat /\ pos' = pos + reading /\ hasRecvMsg \in BOOLEAN
    BY <1>1, CurIs DEF Completes, ReaderTypeOK
  <1>4. Sent <= Total /\ Sent \in Nat
    <2>1. CASE peer.waits /\ Len(out) < Len(input)
      <3>1. Cur <= Len(input) /\ Cur + 1 = Len(out) + 2
        BY <2>1, <1>1, CurIs DEF Cur
      <3>2. Sent = Begin(Cur + 1)
        BY <2>1, <3>1 DEF Sent
      <3> QED
        BY <1>1, <3>1, <3>2, CurIs
    <2>2. CASE ~(peer.waits /\ Len(out) < Len(input))
      BY <2>2, <1>1, CurIs DEF Sent
    <2> QED
      BY <2>1, <2>2
  <1>5. pos' \in 0..Total
    BY <1>1, <1>3, <1>4, CurIs DEF Completes
  <1>6. UNCHANGED <<peer, timedOut, dataRecvd, most>>
    BY DEF Completes
  <1> QED
    BY <1>1, <1>2, <1>3, <1>5, <1>6, SamePeer

LEMMA BufferIs ==
  ASSUME ReaderTypeOK, NEW n \in 0..MaxLen
  PROVE  Buffer(n) \in 0..MaxLen /\ Buffer(n) >= n
  BY LengthsAre DEF Buffer, ReaderTypeOK

LEMMA SysInfoStep == ASSUME ReaderInv, SysInfo PROVE ReaderInv'
  <1>1. Completes /\ state = "HEADER" /\ Boundary(headerAt) /\ MessageAt(headerAt).kind = "sysinfo"
    BY DEF SysInfo
  <1>2. /\ ReaderTypeOK /\ FramesExact /\ ~peer.parser /\ PacketInv /\ PendingInv
        /\ pos' = pos + reading /\ UNCHANGED <<peer, timedOut, dataRecvd, most>>
    BY <1>1, Completed
  <1>3. headerAt = Begin(Cur)
    BY <1>2 DEF PacketInv
  <1>4. Cur <= Len(input) /\ MessageAt(headerAt) = input[Cur] /\ input[Cur] \in [kind : Kinds, len : Nat]
    BY <1>1, <1>2, <1>3, CurIs
  <1>5. input[Cur].kind = "sysinfo" /\ Size(input[Cur]) = SysLen /\ ~Illegal(input[Cur])
    BY <1>1, <1>4, SizeIs
  <1>6. Cur = 1
    <2>1. Cur \in Nat /\ Cur >= 1 /\ Len(input) \in Nat /\ peer \in Peers
      BY <1>2, CurIs
    <2>2. Cur \notin 2..Len(input)
      BY <1>5, <2>1, PeerIs
    <2> QED
      BY <1>4, <2>1, <2>2
  <1>7. pos = headerAt /\ reading = SysLen
    BY <1>1, <1>2, <1>5, <1>6 DEF PendingInv, Good
  <1>8. bufLen' \in 0..MaxLen /\ bufAt' \in 0..Total
    <2>1. SysLen \in 0..MaxLen
      BY LengthsAre
    <2> QED
      BY <1>2, <2>1, BufferIs DEF SysInfo, ReaderTypeOK
  <1> QED
    BY <1>2, <1>4, <1>5, <1>7, <1>8, HandedOn DEF SysInfo

LEMMA HeaderKnows ==
  ASSUME ReaderInv, GoodHeader
  PROVE  /\ Completes /\ state = "HEADER" /\ headerAt = Begin(Cur)
         /\ Cur <= Len(input) /\ MessageAt(headerAt) = input[Cur] /\ Good(input[Cur])
         /\ input[Cur] \in [kind : Kinds, len : Nat]
         /\ Size(input[Cur]) = input[Cur].len
         /\ HeaderLen <= input[Cur].len /\ input[Cur].len <= MaxLen
  <1>1. Completes /\ state = "HEADER" /\ Boundary(headerAt) /\ Good(MessageAt(headerAt))
    BY DEF GoodHeader, Good
  <1>2. ReaderTypeOK /\ FramesExact /\ PacketInv
    BY <1>1, Completed
  <1>3. headerAt = Begin(Cur)
    BY <1>2 DEF PacketInv
  <1>4. Cur <= Len(input) /\ MessageAt(headerAt) = input[Cur] /\ input[Cur] \in [kind : Kinds, len : Nat]
    BY <1>1, <1>2, <1>3, CurIs
  <1> QED
    BY <1>1, <1>3, <1>4, SizeIs

LEMMA HeaderOnlyStep == ASSUME ReaderInv, HeaderOnly PROVE ReaderInv'
  <1>1. GoodHeader /\ hasRecvMsg /\ MessageAt(headerAt).len = HeaderLen
    BY DEF HeaderOnly
  <1>2. /\ Completes /\ state = "HEADER" /\ Cur <= Len(input) /\ Good(input[Cur])
        /\ MessageAt(headerAt) = input[Cur] /\ Size(input[Cur]) = input[Cur].len
    BY <1>1, HeaderKnows
  <1>3. /\ ReaderTypeOK /\ FramesExact /\ ~peer.parser /\ PendingInv
        /\ pos' = pos + reading /\ UNCHANGED <<peer, timedOut, dataRecvd, most>>
    BY <1>2, Completed
  <1>4. pos' = headerAt + Size(input[Cur])
    <2>1. headerAt \in Nat
      BY <1>3, CurIs DEF ReaderTypeOK
    <2>2. \/ pos = headerAt /\ reading = HeaderLen
          \/ pos = headerAt + SysLen /\ reading = HeaderLen - SysLen
      BY <1>1, <1>2, <1>3, Zenon DEF PendingInv
    <2> QED
      BY <1>1, <1>2, <1>3, <2>1, <2>2, LengthsAre
  <1>5. bufLen' \in 0..MaxLen /\ bufAt' \in 0..Total
    <2>1. HeaderLen \in 0..MaxLen
      BY LengthsAre
    <2> QED
      BY <1>3, <2>1, BufferIs DEF HeaderOnly, ReaderTypeOK
  <1>6. hasRecvMsg' = TRUE
    <2>1. hasRecvMsg \in BOOLEAN
      BY <1>3 DEF ReaderTypeOK
    <2> QED
      BY <1>1, <2>1 DEF HeaderOnly
  <1> QED
    BY <1>2, <1>3, <1>4, <1>5, <1>6, HandedOn DEF HeaderOnly, Good

LEMMA BodyStep == ASSUME ReaderInv, Body PROVE ReaderInv'
  <1>1. Completes /\ state # "HEADER"
    BY DEF Body
  <1>2. /\ ReaderTypeOK /\ FramesExact /\ ~peer.parser /\ PacketInv /\ PendingInv
        /\ reading \in Nat /\ pos' = pos + reading /\ UNCHANGED <<peer, timedOut, dataRecvd, most>>
    BY <1>1, Completed
  <1>3. state = "BODY" /\ reading > 0
    BY <1>1, <1>2 DEF ReaderTypeOK, Completes
  <1>4. /\ Cur <= Len(input) /\ Good(input[Cur]) /\ bufAt = headerAt /\ hasRecvMsg
        /\ reading = input[Cur].len - HeaderLen
    BY <1>2, <1>3 DEF PacketInv
  <1>5. input[Cur] \in [kind : Kinds, len : Nat] /\ headerAt \in Nat
    BY <1>2, <1>4, CurIs DEF ReaderTypeOK
  <1>6. Size(input[Cur]) = input[Cur].len /\ input[Cur].len \in Nat
    BY <1>4, <1>5, SizeIs
  <1>7. pos = headerAt + HeaderLen
    BY <1>2, <1>3 DEF PendingInv
  <1>8. pos' = headerAt + Size(input[Cur])
    BY <1>2, <1>4, <1>5, <1>6, <1>7, LengthsAre
  <1>9. bufLen' \in 0..MaxLen /\ bufAt' \in 0..Total /\ hasRecvMsg' = TRUE
    BY <1>2, <1>4 DEF Body, ReaderTypeOK
  <1> QED
    BY <1>2, <1>4, <1>8, <1>9, HandedOn DEF Body, Good

(* The connection ends: nothing is read any more. *)
LEMMA EndStep ==
  ASSUME ReaderInv, ErrorEnd, pos' \in 0..Total,
         pos' = pos \/ ~peer.parser,
         UNCHANGED <<peer, state, hasRecvMsg, headerAt, bufLen, dataRecvd, bufAt, most, out, timedOut>>
  PROVE  ReaderInv'
  <1>1. ReaderTypeOK /\ FramesExact
    BY DEF ReaderInv
  <1>2. input' = input /\ Total' = Total /\ Cur' = Cur /\ (\A i : Begin(i)' = Begin(i))
    BY SamePeer DEF Cur
  <1>3. reading' = 0 /\ linked' = FALSE /\ ended' = TRUE /\ ~(reading' > 0)
    BY DEF ErrorEnd
  <1>4. ReaderTypeOK'
    <2>1. reading' \in 0..MaxLen
      BY <1>3, LengthsAre
    <2>2. linked' \in BOOLEAN /\ ended' \in BOOLEAN
      BY <1>3
    <2> QED
      BY <1>1, <1>2, <2>1, <2>2 DEF ReaderTypeOK
  <1>5. FramesExact'
    BY <1>1, <1>2 DEF FramesExact, Size, Illegal
  <1>6. Begin(Cur)' = Begin(Cur)
    BY <1>2 DEF Begin
  <1>7. CASE peer.parser
    BY <1>2, <1>3, <1>4, <1>5, <1>6, <1>7 DEF ReaderInv, StreamInv, Size, Illegal
  <1>8. CASE ~peer.parser
    <2>1. PacketInv /\ state # "STREAM"
      BY <1>8 DEF ReaderInv
    <2>2. PacketInv'
      BY <2>1, <1>2, <1>3, <1>6 DEF PacketInv, Good, Illegal
    <2> QED
      BY <1>4, <1>5, <1>8, <2>1, <2>2 DEF ReaderInv
  <1> QED
    BY <1>7, <1>8

LEMMA BadHeaderStep == ASSUME ReaderInv, BadHeader PROVE ReaderInv'
  <1>1. Completes /\ ErrorEnd /\ UNCHANGED <<state, hasRecvMsg, headerAt, bufLen, bufAt, out>>
    BY DEF BadHeader
  <1>2. /\ ~peer.parser /\ pos' \in 0..Total /\ UNCHANGED <<peer, timedOut, dataRecvd, most>>
    BY <1>1, Completed
  <1> QED
    BY <1>1, <1>2, EndStep

(* A read is started again, or what is left of a header or a message. *)
LEMMA ReadOnStep ==
  ASSUME ReaderInv, ~peer.parser, pos' \in 0..Total,
         UNCHANGED <<peer, headerAt, dataRecvd, most, out>>,
         timedOut' \in BOOLEAN, hasRecvMsg' \in BOOLEAN, linked' \in BOOLEAN, ended' \in BOOLEAN,
         state' \in {"HEADER", "BODY"}, reading' \in 0..MaxLen, bufLen' \in 0..MaxLen, bufAt' \in 0..Total,
         state' = "BODY" =>
           /\ Cur <= Len(input) /\ Good(input[Cur]) /\ input[Cur].len > HeaderLen
           /\ input[Cur].len <= bufLen' /\ bufAt' = headerAt /\ hasRecvMsg'
           /\ reading' > 0 => reading' = input[Cur].len - HeaderLen,
         reading' > 0 /\ ~timedOut' => PendingInv'
  PROVE  ReaderInv'
  <1>1. ReaderTypeOK /\ FramesExact /\ PacketInv
    BY DEF ReaderInv
  <1>2. input' = input /\ Total' = Total /\ Cur' = Cur /\ (\A i : Begin(i)' = Begin(i))
    BY SamePeer DEF Cur
  <1>3. ReaderTypeOK'
    <2>1. headerAt' \in 0..Total' /\ pos' \in 0..Total' /\ bufAt' \in 0..Total'
      BY <1>1, <1>2 DEF ReaderTypeOK
    <2> QED
      BY <1>1, <1>2, <2>1 DEF ReaderTypeOK
  <1>4. FramesExact'
    BY <1>1, <1>2 DEF FramesExact, Size, Illegal
  <1>5. Begin(Cur)' = Begin(Cur)
    BY <1>2 DEF Begin
  <1>6. PacketInv'
    BY <1>1, <1>2, <1>5, Zenon DEF PacketInv, Good, Illegal
  <1> QED
    BY <1>3, <1>4, <1>6 DEF ReaderInv

LEMMA FirstHeaderStep == ASSUME ReaderInv, FirstHeader PROVE ReaderInv'
  <1>1. GoodHeader /\ ~hasRecvMsg /\ hasRecvMsg' = TRUE /\ AsyncRead("HEADER_LAST", TRUE, headerAt)
        /\ UNCHANGED <<state, headerAt, bufLen, bufAt, out>>
    BY DEF FirstHeader
  <1>2. /\ Completes /\ state = "HEADER" /\ headerAt = Begin(Cur) /\ Cur <= Len(input) /\ Good(input[Cur])
    BY <1>1, HeaderKnows
  <1>3. /\ ReaderTypeOK /\ FramesExact /\ ~peer.parser /\ PendingInv /\ pos' \in 0..Total
        /\ pos' = pos + reading /\ UNCHANGED <<peer, timedOut, dataRecvd, most>> /\ input' = input
    BY <1>2, Completed
  <1>4. pos = headerAt /\ reading = SysLen
    BY <1>1, <1>2, <1>3, Zenon DEF PendingInv
  <1>5. /\ linked' \in BOOLEAN /\ ended' \in BOOLEAN
        /\ reading' = 0 \/ reading' = HeaderLen - SysLen
    <2>1. CASE linked
      <3>1. Wanted("HEADER_LAST", TRUE, headerAt) = HeaderLen - SysLen
        BY DEF Wanted
      <3> QED
        BY <2>1, <3>1, <1>1, <1>3 DEF AsyncRead, ReaderTypeOK
    <2>2. CASE ~linked
      BY <2>2, <1>1 DEF AsyncRead, ErrorEnd
    <2> QED
      BY <2>1, <2>2
  <1>6. reading' \in 0..MaxLen /\ (reading' > 0 => reading' = HeaderLen - SysLen)
    BY <1>5, LengthsAre
  <1>7. Cur' = Cur /\ Good(input'[Cur'])
    <2>1. Cur' = Cur
      BY <1>1 DEF Cur
    <2> QED
      BY <2>1, <1>2, <1>3 DEF Good, Illegal
  <1>8. reading' > 0 => PendingInv'
    BY <1>1, <1>2, <1>3, <1>4, <1>6, <1>7 DEF PendingInv
  <1>9. bufLen' \in 0..MaxLen /\ bufAt' \in 0..Total /\ timedOut' \in BOOLEAN /\ state' = "HEADER"
    BY <1>1, <1>2, <1>3 DEF ReaderTypeOK
  <1> QED
    BY <1>1, <1>3, <1>5, <1>6, <1>8, <1>9, ReadOnStep

LEMMA HeaderThenBodyStep == ASSUME ReaderInv, HeaderThenBody PROVE ReaderInv'
  <1>1. GoodHeader /\ hasRecvMsg /\ MessageAt(headerAt).len > HeaderLen
        /\ bufLen' = Buffer(MessageAt(headerAt).len) /\ bufAt' = headerAt
        /\ state' = "BODY" /\ AsyncRead("BODY", TRUE, headerAt)
        /\ UNCHANGED <<hasRecvMsg, headerAt, out>>
    BY DEF HeaderThenBody
  <1>2. /\ Completes /\ state = "HEADER" /\ headerAt = Begin(Cur) /\ Cur <= Len(input) /\ Good(input[Cur])
        /\ MessageAt(headerAt) = input[Cur] /\ input[Cur] \in [kind : Kinds, len : Nat]
        /\ input[Cur].len <= MaxLen
    BY <1>1, HeaderKnows
  <1>3. /\ ReaderTypeOK /\ FramesExact /\ ~peer.parser /\ PendingInv /\ pos' \in 0..Total
        /\ pos' = pos + reading /\ UNCHANGED <<peer, timedOut, dataRecvd, most>>
    BY <1>2, Completed
  <1> DEFINE n == input[Cur].len
  <1>4. n \in Nat /\ n > HeaderLen /\ n \in 0..MaxLen
    BY <1>1, <1>2, LengthsAre
  <1>5. bufLen' \in 0..MaxLen /\ bufLen' >= n
    BY <1>1, <1>2, <1>3, <1>4, BufferIs
  <1>6. /\ linked' \in BOOLEAN /\ ended' \in BOOLEAN
        /\ reading' = 0 \/ reading' = n - HeaderLen
    <2>1. CASE linked
      <3>1. Wanted("BODY", TRUE, headerAt) = n - HeaderLen
        BY <1>2 DEF Wanted
      <3> QED
        BY <2>1, <3>1, <1>1, <1>3 DEF AsyncRead, ReaderTypeOK
    <2>2. CASE ~linked
      BY <2>2, <1>1 DEF AsyncRead, ErrorEnd
    <2> QED
      BY <2>1, <2>2
  <1>7. reading' \in 0..MaxLen /\ (reading' > 0 => reading' = n - HeaderLen)
    BY <1>4, <1>6, LengthsAre
  <1>8. pos' = headerAt + HeaderLen
    <2>1. headerAt \in Nat
      BY <1>3, CurIs DEF ReaderTypeOK
    <2>2. \/ pos = headerAt /\ reading = HeaderLen
          \/ pos = headerAt + SysLen /\ reading = HeaderLen - SysLen
      BY <1>1, <1>2, <1>3, Zenon DEF PendingInv
    <2> QED
      BY <1>3, <2>1, <2>2, LengthsAre
  <1>9. PendingInv'
    BY <1>1, <1>8 DEF PendingInv
  <1>10. timedOut' \in BOOLEAN /\ hasRecvMsg' \in BOOLEAN /\ hasRecvMsg' /\ bufAt' \in 0..Total
    BY <1>1, <1>3 DEF ReaderTypeOK
  <1>11. n <= bufLen' /\ n > HeaderLen
    BY <1>4, <1>5, LengthsAre
  <1> QED
    BY <1>1, <1>2, <1>3, <1>5, <1>6, <1>7, <1>9, <1>10, <1>11, ReadOnStep

LEMMA TimedOutStep == ASSUME ReaderInv, TimedOut PROVE ReaderInv'
  <1>1. /\ reading > 0 /\ timedOut' = TRUE
        /\ UNCHANGED <<peer, pos, state, hasRecvMsg, headerAt, bufLen, dataRecvd, bufAt, most, out>>
    BY DEF TimedOut
  <1>2. ReaderTypeOK /\ FramesExact
    BY DEF ReaderInv
  <1>3. input' = input /\ Total' = Total /\ Cur' = Cur /\ (\A i : Begin(i)' = Begin(i))
    BY <1>1, SamePeer DEF Cur
  <1>4. CASE peer.parser
    <2>1. state = "STREAM" /\ StreamInv
      BY <1>4 DEF ReaderInv
    <2>2. UNCHANGED <<linked, ended, reading>>
      BY <2>1 DEF TimedOut
    <2>3. ReaderTypeOK'
      BY <1>1, <1>2, <1>3, <2>2 DEF ReaderTypeOK
    <2>4. FramesExact'
      BY <1>1, <1>2, <1>3 DEF FramesExact, Size, Illegal
    <2>5. Begin(Cur)' = Begin(Cur)
      BY <1>3 DEF Begin
    <2>6. StreamInv'
      BY <2>1, <2>2, <2>5, <1>1, <1>3 DEF StreamInv, Size, Illegal
    <2> QED
      BY <1>1, <1>4, <2>1, <2>3, <2>4, <2>6 DEF ReaderInv
  <1>5. CASE ~peer.parser
    <2>1. state # "STREAM" /\ PacketInv /\ state \in {"HEADER", "BODY"}
      BY <1>2, <1>5 DEF ReaderInv, ReaderTypeOK
    <2>2. AsyncRead(state, hasRecvMsg, headerAt)
      BY <2>1 DEF TimedOut
    <2>3. /\ linked' \in BOOLEAN /\ ended' \in BOOLEAN
          /\ reading' = 0 \/ reading' = Wanted(state, hasRecvMsg, headerAt)
      <3>1. CASE linked
        BY <3>1, <2>2, <1>2 DEF AsyncRead, ReaderTypeOK
      <3>2. CASE ~linked
        BY <3>2, <2>2 DEF AsyncRead, ErrorEnd
      <3> QED
        BY <3>1, <3>2
    <2>4. /\ reading' \in 0..MaxLen
          /\ (state = "BODY" /\ reading' > 0) => reading' = input[Cur].len - HeaderLen
      <3>1. CASE state = "HEADER"
        <4>1. hasRecvMsg = TRUE \/ hasRecvMsg = FALSE
          BY <1>2 DEF ReaderTypeOK
        <4>2. CASE hasRecvMsg = TRUE
          <5>1. Wanted(state, hasRecvMsg, headerAt) = HeaderLen
            BY <3>1, <4>2 DEF Wanted
          <5> QED
            BY <3>1, <5>1, <2>3, LengthsAre
        <4>3. CASE hasRecvMsg = FALSE
          <5>1. Wanted(state, hasRecvMsg, headerAt) = SysLen
            BY <3>1, <4>3 DEF Wanted
          <5> QED
            BY <3>1, <5>1, <2>3, LengthsAre
        <4> QED
          BY <4>1, <4>2, <4>3
      <3>2. CASE state = "BODY"
        <4>1. headerAt = Begin(Cur) /\ Cur <= Len(input) /\ Good(input[Cur]) /\ input[Cur].len > HeaderLen
          BY <2>1, <3>2 DEF PacketInv
        <4>2. MessageAt(headerAt) = input[Cur] /\ input[Cur] \in [kind : Kinds, len : Nat]
          BY <4>1, <1>2, CurIs
        <4>3. Wanted(state, hasRecvMsg, headerAt) = input[Cur].len - HeaderLen
          BY <3>2, <4>2 DEF Wanted
        <4>4. input[Cur].len <= MaxLen /\ input[Cur].len \in Nat
          BY <4>1, <4>2, SizeIs
        <4> QED
          BY <2>3, <4>1, <4>3, <4>4, LengthsAre
      <3> QED
        BY <2>1, <3>1, <3>2
    <2>5. /\ bufLen' \in 0..MaxLen /\ bufAt' \in 0..Total /\ hasRecvMsg' \in BOOLEAN /\ pos' \in 0..Total
          /\ timedOut' \in BOOLEAN
      BY <1>1, <1>2 DEF ReaderTypeOK
    <2>6. state' = "BODY" =>
            /\ Cur <= Len(input) /\ Good(input[Cur]) /\ input[Cur].len > HeaderLen
            /\ input[Cur].len <= bufLen' /\ bufAt' = headerAt /\ hasRecvMsg'
            /\ reading' > 0 => reading' = input[Cur].len - HeaderLen
      BY <1>1, <2>1, <2>4, Zenon DEF PacketInv
    <2> QED
      BY <1>1, <1>5, <2>1, <2>3, <2>4, <2>5, <2>6, ReadOnStep
  <1> QED
    BY <1>4, <1>5

LEMMA OtherReads ==
  ASSUME ReaderInv, ReadError \/ NoBuffer \/ CloseLink
  PROVE  ReaderInv'
  <1>1. ReaderTypeOK /\ FramesExact
    BY DEF ReaderInv
  <1>2. CASE ReadError \/ NoBuffer
    <2>1. /\ ErrorEnd
          /\ UNCHANGED <<peer, pos, state, hasRecvMsg, headerAt, bufLen, dataRecvd, bufAt, most, out, timedOut>>
      BY <1>2 DEF ReadError, NoBuffer
    <2>2. pos' = pos /\ pos' \in 0..Total
      BY <1>1, <2>1 DEF ReaderTypeOK
    <2> QED
      BY <2>1, <2>2, EndStep
  <1>3. CASE CloseLink
    <2>1. /\ linked' = FALSE
          /\ UNCHANGED <<peer, pos, state, hasRecvMsg, reading, headerAt, bufLen, dataRecvd, bufAt, most,
                         out, timedOut, ended>>
      BY <1>3 DEF CloseLink
    <2>2. input' = input /\ Total' = Total /\ Cur' = Cur /\ (\A i : Begin(i)' = Begin(i))
      BY <2>1, SamePeer DEF Cur
    <2>3. ReaderTypeOK'
      BY <1>1, <2>1, <2>2 DEF ReaderTypeOK
    <2>4. FramesExact'
      BY <1>1, <2>1, <2>2 DEF FramesExact, Size, Illegal
    <2>5. Begin(Cur)' = Begin(Cur)
      BY <2>2 DEF Begin
    <2>6. StreamInv => StreamInv'
      BY <2>1, <2>2, <2>5 DEF StreamInv, Size, Illegal
    <2>7. PacketInv => PacketInv'
      BY <2>1, <2>2, <2>5, Zenon DEF PacketInv, PendingInv, Good, Illegal
    <2> QED
      BY <2>1, <2>3, <2>4, <2>6, <2>7 DEF ReaderInv
  <1> QED
    BY <1>2, <1>3

LEMMA RestIs == ASSUME NEW d \in 0..MaxLen PROVE MaxLen - d \in 0..MaxLen
  BY LengthsAre

LEMMA StreamStep == ASSUME ParserFits, ReaderInv, StreamReadCallback PROVE ReaderInv'
  <1>1. PICK n \in 1..reading :
          /\ pos + n <= Sent /\ pos' = pos + n
          /\ most' = IF most < dataRecvd + n THEN dataRecvd + n ELSE most
          /\ AfterChunk(dataRecvd + n)
    BY DEF StreamReadCallback
  <1>2. /\ state = "STREAM" /\ reading > 0
        /\ IF linked THEN reading' = bufLen - dataRecvd' /\ UNCHANGED <<linked, ended>> ELSE ErrorEnd
        /\ UNCHANGED <<peer, timedOut, state, hasRecvMsg, headerAt, bufLen>>
    BY DEF StreamReadCallback
  <1>3. ReaderTypeOK /\ FramesExact /\ peer.parser /\ StreamInv
    BY <1>2 DEF ReaderInv
  <1>4. input' = input /\ Total' = Total /\ (\A i : Begin(i)' = Begin(i))
    BY <1>2, SamePeer
  <1>5. /\ peer.waits
        /\ \A i \in 1..Len(input) : /\ input[i].kind = "message"
                                    /\ HeaderLen <= input[i].len /\ input[i].len < MaxLen
    BY <1>3 DEF ParserFits, ReaderTypeOK, input
  <1>6. /\ pos \in Nat /\ dataRecvd \in Nat /\ most \in Nat /\ reading \in Nat /\ n \in Nat /\ n >= 1
        /\ Cur \in Nat /\ Begin(Cur) \in Nat /\ Len(input) \in Nat /\ Len(out) \in Nat /\ Cur >= 1
        /\ Cur <= Len(input) + 1 /\ Total \in Nat
    <2>1. reading \in Nat
      BY <1>3, LengthsAre DEF ReaderTypeOK
    <2> QED
      BY <1>1, <1>3, <2>1, CurIs, LengthsAre DEF ReaderTypeOK
  <1>7. /\ bufLen = MaxLen /\ most < MaxLen /\ bufAt = Begin(Cur) /\ pos = Begin(Cur) + dataRecvd
        /\ Cur <= Len(input) => dataRecvd < Size(input[Cur])
        /\ ~(Cur <= Len(input)) => dataRecvd = 0
    BY <1>3 DEF StreamInv
  <1>8. Cur <= Len(input)
    <2>1. CASE ~(Cur <= Len(input))
      <3>1. Cur = Len(input) + 1 /\ ~(Len(out) < Len(input))
        BY <2>1, <1>6 DEF Cur
      <3>2. Sent = Total /\ Total = Begin(Cur) /\ pos = Begin(Cur)
        BY <3>1, <2>1, <1>6, <1>7 DEF Sent, Total
      <3> QED
        BY <3>2, <1>1, <1>6
    <2> QED
      BY <2>1
  <1>9. /\ input[Cur] \in [kind : Kinds, len : Nat] /\ ~Illegal(input[Cur])
        /\ Size(input[Cur]) = input[Cur].len /\ input[Cur].len \in Nat /\ input[Cur].len < MaxLen
    <2>1. Cur \in 1..Len(input)
      BY <1>6, <1>8
    <2>2. input[Cur] \in [kind : Kinds, len : Nat]
      BY <1>3, <1>8, CurIs
    <2>3. input[Cur].kind = "message" /\ HeaderLen <= input[Cur].len /\ input[Cur].len < MaxLen
      BY <1>5, <2>1
    <2>4. input[Cur].len \in Nat
      BY <2>2
    <2>5. Good(input[Cur])
      BY <2>3, <2>4, LengthsAre DEF Good, Illegal
    <2> QED
      BY <2>2, <2>3, <2>4, <2>5, SizeIs DEF Good
  <1> DEFINE m == dataRecvd + n
             z == Size(input[Cur])
  <1>10. m \in Nat /\ m <= z /\ m < MaxLen /\ z \in Nat
    <2>1. Len(out) + 2 = Cur + 1 /\ Len(out) < Len(input)
      BY <1>6, <1>8 DEF Cur
    <2>2. Sent = Begin(Cur + 1) /\ Begin(Cur + 1) = Begin(Cur) + z
      BY <1>3, <1>5, <1>8, <2>1, CurIs DEF Sent
    <2>3. z \in Nat /\ z < MaxLen
      BY <1>9
    <2>4. pos + n <= Begin(Cur) + z /\ pos = Begin(Cur) + dataRecvd
      BY <1>1, <1>7, <2>2
    <2> HIDE DEF z
    <2> QED
      BY <1>6, <2>3, <2>4, LengthsAre
  <1>11. MessageEnds(m) <=> m = z
    <2>1. Boundary(bufAt) /\ MessageAt(bufAt) = input[Cur]
      BY <1>3, <1>7, <1>8, CurIs
    <2>2. MessageEnds(m) <=> m >= z
      BY <2>1 DEF MessageEnds
    <2> QED
      BY <2>2, <1>10
  <1>12. most' \in 0..MaxLen /\ most' < MaxLen
    BY <1>1, <1>6, <1>7, <1>10, LengthsAre
  <1>13. /\ FramesExact' /\ out' \in Seq([at : 0..Total, len : 0..Total])'
         /\ bufAt' = Begin(Cur)' /\ bufAt' \in 0..Total /\ pos' = bufAt' + dataRecvd' /\ pos' \in 0..Total
         /\ dataRecvd' \in 0..MaxLen /\ dataRecvd' < MaxLen
         /\ IF Cur' <= Len(input') THEN dataRecvd' < Size(input'[Cur']) ELSE dataRecvd' = 0
    <2>1. CASE m = z
      <3>1. Deliver(Begin(Cur), z) /\ dataRecvd' = 0 /\ bufAt' = pos'
        <4>1. MessageAt(bufAt) = input[Cur]
          BY <1>3, <1>7, <1>8, CurIs
        <4> QED
          BY <2>1, <4>1, <1>1, <1>7, <1>11 DEF AfterChunk
      <3>2. /\ FramesExact' /\ out' \in Seq([at : 0..Total, len : 0..Total])'
            /\ Cur' = Cur + 1 /\ Begin(Cur)' = Begin(Cur) + z /\ Begin(Cur)' \in 0..Total
        BY <1>2, <1>3, <1>8, <1>9, <3>1, Delivered
      <3>3. pos' = Begin(Cur) + z
        BY <2>1, <1>1, <1>6, <1>7
      <3>4. Cur' <= Len(input') => Size(input'[Cur']) \in Nat /\ Size(input'[Cur']) > 0
        <4>1. Cur' <= Len(input) => Cur' \in 1..Len(input)
          BY <3>2, <1>6
        <4> QED
          BY <4>1, <1>3, <1>4, PeerIs, SizeIs DEF ReaderTypeOK
      <3>5. pos' = bufAt' + dataRecvd' /\ dataRecvd' \in 0..MaxLen /\ dataRecvd' < MaxLen
        BY <3>1, <3>3, <1>6, <1>10, LengthsAre
      <3> QED
        BY <3>1, <3>2, <3>3, <3>4, <3>5
    <2>2. CASE m # z
      <3>1. dataRecvd' = m /\ UNCHANGED <<bufAt, out>>
        BY <2>2, <1>1, <1>11 DEF AfterChunk
      <3>2. Cur' = Cur /\ Begin(Cur)' = Begin(Cur) /\ out' \in Seq([at : 0..Total, len : 0..Total])'
        BY <3>1, <1>3, <1>4 DEF Cur, Begin, ReaderTypeOK
      <3>3. FramesExact'
        BY <3>1, <1>2, <1>3, <1>4 DEF FramesExact, Size, Illegal
      <3>4. m < z /\ pos' = bufAt' + dataRecvd' /\ bufAt' \in 0..Total
        <4>1. m < z
          <5> HIDE DEF m, z
          <5> QED
            BY <2>2, <1>10
        <4>2. pos' = Begin(Cur) + (dataRecvd + n)
          BY <1>1, <1>6, <1>7
        <4> QED
          BY <4>1, <4>2, <3>1, <1>3, <1>7 DEF ReaderTypeOK
      <3>5. Size(input'[Cur']) = z
        BY <3>2, <1>4
      <3>6. pos' \in 0..Total
        <4>1. Begin(Cur) + z \in 0..Total
          BY <1>3, <1>8, CurIs
        <4>2. pos' = Begin(Cur) + m
          BY <3>1, <3>4, <1>7
        <4> HIDE DEF m, z
        <4> QED
          BY <4>1, <4>2, <3>4, <1>6, <1>10
      <3> QED
        <4>1. dataRecvd' \in 0..MaxLen /\ dataRecvd' < MaxLen /\ dataRecvd' < Size(input'[Cur'])
          <5> HIDE DEF m, z
          <5> QED
            BY <3>1, <3>4, <3>5, <1>10, LengthsAre
        <4>2. bufAt' = Begin(Cur)' /\ Cur' <= Len(input')
          BY <3>1, <3>2, <1>4, <1>7, <1>8
        <4> QED
          BY <4>1, <4>2, <3>2, <3>3, <3>4, <3>6
    <2> QED
      BY <2>1, <2>2
  <1>14. /\ reading' \in 0..MaxLen /\ linked' \in BOOLEAN /\ ended' \in BOOLEAN
         /\ reading' > 0 => reading' = MaxLen - dataRecvd'
    <2>1. CASE linked
      <3>1. reading' = MaxLen - dataRecvd' /\ linked' \in BOOLEAN /\ ended' \in BOOLEAN
        BY <2>1, <1>2, <1>3, <1>7 DEF ReaderTypeOK
      <3>2. dataRecvd' \in 0..MaxLen
        BY <1>13
      <3>3. reading' = MaxLen - dataRecvd'
        BY <3>1
      <3>4. reading' \in 0..MaxLen
        BY <3>2, <3>3, RestIs
      <3> QED
        BY <3>1, <3>4
    <2>2. CASE ~linked
      <3>1. reading' = 0 /\ linked' \in BOOLEAN /\ ended' \in BOOLEAN
        BY <2>2, <1>2 DEF ErrorEnd
      <3> QED
        BY <3>1, LengthsAre
    <2> QED
      BY <2>1, <2>2
  <1>15. ReaderTypeOK'
    BY <1>2, <1>3, <1>4, <1>12, <1>13, <1>14 DEF ReaderTypeOK
  <1>16. StreamInv'
    BY <1>2, <1>7, <1>12, <1>13, <1>14 DEF StreamInv
  <1> QED
    BY <1>2, <1>3, <1>13, <1>15, <1>16 DEF ReaderInv

LEMMA ReaderStep ==
  ASSUME ParserFits, ReaderInv, [ReaderNext]_readerVars
  PROVE  ReaderInv'
  <1>1. CASE ReadCallback
    BY <1>1, SysInfoStep, BadHeaderStep, FirstHeaderStep, HeaderOnlyStep, HeaderThenBodyStep,
       BodyStep DEF ReadCallback
  <1>2. CASE StreamReadCallback \/ TimedOut \/ ReadError \/ NoBuffer \/ CloseLink
    BY <1>2, StreamStep, TimedOutStep, OtherReads
  <1>3. CASE UNCHANGED readerVars
    <2>1. UNCHANGED <<peer, pos, state, hasRecvMsg, linked, reading, headerAt, bufLen, dataRecvd, bufAt,
                      most, out, timedOut, ended>>
      BY <1>3 DEF readerVars
    <2> QED
      BY <2>1 DEF ReaderInv, ReaderTypeOK, FramesExact, StreamInv, PacketInv, PendingInv, Good, Illegal,
                  Size, Cur, Begin, Total, input
  <1> QED
    BY <1>1, <1>2, <1>3 DEF ReaderNext

(* _readCallback, _streamReadCallback and _allocateBuf: whatever lengths a *)
(* peer announces, however the stream is cut, closed or timed out, what is *)
(* handed on are the messages that were sent, whole and in their order,    *)
(* and no read goes beyond the buffer.                                     *)
THEOREM ReaderIsSound ==
  ASSUME ParserFits
  PROVE  ReaderSpec => []ReaderSound
  <1>1. ReaderInit => ReaderInv
    BY ReaderInitial
  <1>2. ReaderInv /\ [ReaderNext]_readerVars => ReaderInv'
    BY ReaderStep
  <1>3. ReaderInv => ReaderSound
    <2> SUFFICES ASSUME ReaderInv PROVE ReaderSound
      OBVIOUS
    <2>1. ReaderTypeOK /\ FramesExact
      BY DEF ReaderInv
    <2>2. BodyFits
      <3> SUFFICES ASSUME state = "BODY", reading > 0 PROVE bufLen >= HeaderLen + reading
        BY DEF BodyFits
      <3>1. PacketInv
        BY DEF ReaderInv
      <3>2. Cur <= Len(input) /\ input[Cur].len <= bufLen /\ reading = input[Cur].len - HeaderLen
        BY <3>1 DEF PacketInv
      <3>3. input[Cur].len \in Nat /\ bufLen \in Nat
        BY <2>1, <3>2, CurIs, LengthsAre DEF ReaderTypeOK
      <3> QED
        BY <3>2, <3>3, LengthsAre
    <2>3. LengthExpected
      BY DEF LengthExpected, ReaderInv, StreamInv
    <2> QED
      BY <2>1, <2>2, <2>3 DEF ReaderSound
  <1> QED
    BY <1>1, <1>2, <1>3, PTL DEF ReaderSpec
=============================================================================
