------------------------------ MODULE NetListen ------------------------------
(***************************************************************************)
(* The acceptor of _netFrame: listen, the chain of asynchronous accepts,   *)
(* and the timer of _netInnerTimeHandle that starts listening again after  *)
(* the process ran out of file descriptors.                                *)
(*                                                                         *)
(* Threads: IO runs every callback of the I/O service, one at a time;      *)
(* Callers are application threads inside listen.  Every access to the     *)
(* acceptor is a step of its own, because nothing locks it.                *)
(***************************************************************************)
EXTENDS Naturals, FiniteSets

CONSTANTS Callers,      \* application threads that call listen
          MaxCalls,     \* bound: calls of listen by the application
          ListenAgain,  \* may it call listen again after a call succeeded?
          NoMemory,     \* may an allocation of the frame fail?
          AcceptErrors  \* may accept fail for another reason than descriptors?

ASSUME ListenAssumption == /\ IsFiniteSet(Callers) /\ "io" \notin Callers
                           /\ MaxCalls \in Nat
                           /\ ListenAgain \in BOOLEAN
                           /\ NoMemory \in BOOLEAN
                           /\ AcceptErrors \in BOOLEAN

IO == "io"
Threads == Callers \cup {IO}

\* Where a thread is.  "check" to "close" are inside listen, "listened" is
\* its return; the others are positions of the I/O thread in its callbacks.
Listening == {"check", "open", "accept", "close", "listened"}

VARIABLES opened,    \* _acceptor.is_open()
          pending,   \* asynchronous accepts that wait on the open acceptor
          armed,     \* the timer _timeID is in _timers
          stale,     \* timers of an earlier _timeID are in _timers
          at, rc,    \* of every thread
          calls,     \* calls of listen by the application so far
          up,        \* some call of listen has returned SDB_OK
          lost,      \* an accept failed and was not issued again
          stopped    \* the frame was stopped

listenVars == <<opened, pending, armed, stale, at, rc, calls, up, lost, stopped>>

Results == {"OK", "ALREADY_LISTENED", "CANNOT_LISTEN", "OOM"}

ListenInit == /\ opened = FALSE /\ pending = 0
              /\ armed = FALSE /\ stale = FALSE
              /\ at = [t \in Threads |-> "idle"]
              /\ rc = [t \in Threads |-> "OK"]
              /\ calls = 0 /\ up = FALSE /\ lost = FALSE /\ stopped = FALSE

-----------------------------------------------------------------------------
(* closeListen: a closed acceptor aborts what waits on it, and the callback *)
(* of an aborted accept only logs. *)

closeListen == opened' = FALSE /\ pending' = 0

-----------------------------------------------------------------------------
(* listen, step by step, in thread t. *)

CallListen(t) == /\ t \in Callers /\ ~stopped
                 /\ at[t] = "idle" /\ calls < MaxCalls
                 /\ ~up \/ ListenAgain
                 /\ calls' = calls + 1
                 /\ at' = [at EXCEPT ![t] = "check"]
                 /\ UNCHANGED <<opened, pending, armed, stale, rc, up, lost, stopped>>

Check(t) ==
  /\ at[t] = "check"
  /\ rc' = [rc EXCEPT ![t] = IF opened THEN "ALREADY_LISTENED" ELSE "OK"]
  /\ at' = [at EXCEPT ![t] = IF opened THEN "close" ELSE "open"]
  /\ UNCHANGED <<opened, pending, armed, stale, calls, up, lost, stopped>>

\* Resolve, open, bind and listen; an acceptor that another thread opened
\* meanwhile makes open() throw, like a port or descriptor that is not free.
Open(t) ==
  /\ at[t] = "open"
  /\ \/ /\ ~opened
        /\ opened' = TRUE
        /\ at' = [at EXCEPT ![t] = "accept"]
        /\ UNCHANGED rc
     \/ /\ rc' = [rc EXCEPT ![t] = "CANNOT_LISTEN"]
        /\ at' = [at EXCEPT ![t] = "close"]
        /\ UNCHANGED opened
  /\ UNCHANGED <<pending, armed, stale, calls, up, lost, stopped>>

\* _asyncAccept: one more accept waits; on a closed acceptor it fails at once,
\* and its callback only logs.
asyncAccept == pending' = IF opened THEN pending + 1 ELSE pending

IssueAccept(t) ==
  /\ at[t] = "accept"
  /\ \/ /\ asyncAccept
        /\ at' = [at EXCEPT ![t] = "listened"]
        /\ UNCHANGED rc
     \/ /\ NoMemory
        /\ rc' = [rc EXCEPT ![t] = "OOM"]
        /\ at' = [at EXCEPT ![t] = "close"]
        /\ UNCHANGED pending
  /\ UNCHANGED <<opened, armed, stale, calls, up, lost, stopped>>

\* The error label of listen.
CloseOnError(t) == /\ at[t] = "close"
                   /\ closeListen
                   /\ at' = [at EXCEPT ![t] = "listened"]
                   /\ UNCHANGED <<armed, stale, rc, calls, up, lost, stopped>>

ReturnFromListen(t) == /\ t \in Callers /\ at[t] = "listened"
                       /\ at' = [at EXCEPT ![t] = "idle"]
                       /\ up' = (up \/ rc[t] = "OK")
                       /\ UNCHANGED <<opened, pending, armed, stale, rc, calls, lost, stopped>>

-----------------------------------------------------------------------------
(* The I/O thread: _acceptCallback and handleTimeout. *)

IOFree == ~stopped /\ at[IO] = "idle"

\* A connection was accepted: the next accept is issued behind handleConnect.
AcceptCallback == /\ IOFree /\ pending > 0
                  /\ pending' = pending - 1
                  /\ at' = [at EXCEPT ![IO] = "reaccept"]
                  /\ UNCHANGED <<opened, armed, stale, rc, calls, up, lost, stopped>>

\* Its result is not looked at: without memory no accept waits any more.
ReAccept == /\ at[IO] = "reaccept"
            /\ \/ asyncAccept /\ UNCHANGED lost
               \/ NoMemory /\ lost' = TRUE /\ UNCHANGED pending
            /\ at' = [at EXCEPT ![IO] = "idle"]
            /\ UNCHANGED <<opened, armed, stale, rc, calls, up, stopped>>

\* fault: the acceptor is closed, but no timer is started
TooManyFilesNoTimer == /\ IOFree /\ pending > 0
                       /\ closeListen
                       /\ UNCHANGED <<armed, stale, at, rc, calls, up, lost, stopped>>

\* Accept met the limit of open files.
TooManyFiles == /\ IOFree /\ pending > 0
                /\ closeListen
                /\ at' = [at EXCEPT ![IO] = "startTimer"]
                /\ UNCHANGED <<armed, stale, rc, calls, up, lost, stopped>>

\* startTimer puts a new timer into _timeID, or stops the frame.
StartTimer ==
  /\ at[IO] = "startTimer"
  /\ at' = [at EXCEPT ![IO] = "idle"]
  /\ \/ /\ armed' = TRUE
        /\ stale' = (stale \/ armed)
        /\ UNCHANGED <<opened, pending, stopped>>
     \/ /\ NoMemory
        /\ stopped' = TRUE
        /\ closeListen
        /\ UNCHANGED <<armed, stale>>
  /\ UNCHANGED <<rc, calls, up, lost>>

\* Any other error ends the callback, and no accept waits any more.
AcceptFails ==
  /\ IOFree /\ pending > 0 /\ AcceptErrors
  /\ pending' = pending - 1
  /\ lost' = TRUE
  /\ UNCHANGED <<opened, armed, stale, at, rc, calls, up, stopped>>

\* handleTimeout of the timer _timeID; a stale timer does nothing here.
Timeout == /\ IOFree /\ armed
           /\ at' = [at EXCEPT ![IO] = "check"]
           /\ UNCHANGED <<opened, pending, armed, stale, rc, calls, up, lost, stopped>>

Restarted ==
  /\ at[IO] = "listened"
  /\ armed' = (armed /\ rc[IO] \notin {"OK", "ALREADY_LISTENED"})
  /\ at' = [at EXCEPT ![IO] = "idle"]
  /\ UNCHANGED <<opened, pending, stale, rc, calls, up, lost, stopped>>

\* stop, called by the application.
Stop == /\ ~stopped
        /\ stopped' = TRUE
        /\ closeListen
        /\ UNCHANGED <<armed, stale, at, rc, calls, up, lost>>

-----------------------------------------------------------------------------
listen(t) == Check(t) \/ Open(t) \/ IssueAccept(t) \/ CloseOnError(t)

ListenNext == \/ \E t \in Callers : CallListen(t) \/ ReturnFromListen(t)
              \/ \E t \in Threads : listen(t)
              \/ AcceptCallback \/ ReAccept \/ TooManyFiles \/ AcceptFails
              \/ Timeout \/ StartTimer \/ Restarted \/ Stop

\* Every thread goes on; the timer is due again and again; and the limit of
\* open files is not reached for ever, so that a listen that is tried for ever
\* works once.
ListenFairness == /\ \A t \in Threads : WF_listenVars(listen(t))
                  /\ WF_listenVars(StartTimer) /\ WF_listenVars(ReAccept) /\ WF_listenVars(Restarted)
                  /\ SF_listenVars(Timeout)
                  /\ SF_listenVars(Open(IO) /\ opened')
                  /\ SF_listenVars(IssueAccept(IO) /\ rc'[IO] = "OK")

ListenSpec == ListenInit /\ [][ListenNext]_listenVars /\ ListenFairness

-----------------------------------------------------------------------------
(* Properties *)

\* The acceptor, its callbacks and the threads hold what they may hold.
ListenTypeOK == /\ opened \in BOOLEAN /\ armed \in BOOLEAN /\ stale \in BOOLEAN
                /\ pending \in Nat
                /\ at \in [Threads -> {"idle", "reaccept", "startTimer"} \cup Listening]
                /\ rc \in [Threads -> Results]
                /\ calls \in 0..MaxCalls
                /\ up \in BOOLEAN /\ lost \in BOOLEAN /\ stopped \in BOOLEAN

\* listen, _acceptCallback and handleTimeout: never two accepts wait on the
\* acceptor, and none waits on a closed one.
OneAccept == pending <= (IF opened THEN 1 ELSE 0)

\* _acceptCallback and handleTimeout: once listen has succeeded, a frame that
\* runs and lost no accept either has an accept waiting or a timer that will
\* listen again, whenever the I/O thread is between two callbacks.
Recovering == (up /\ ~lost /\ IOFree) => (armed \/ (opened /\ pending = 1))

\* The acceptor is sound: one accept, and a way back to listening.
ListenSound == ListenTypeOK /\ OneAccept /\ Recovering

\* handleTimeout: while the limit of open files is not reached for ever, a
\* frame that waits for its timer listens again or is stopped.
ListensAgain == armed ~> (opened \/ stopped)
==============================================================================
