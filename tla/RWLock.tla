------------------------------- MODULE RWLock -------------------------------
(***************************************************************************)
(* What a reader-writer lock promises its callers, whatever the algorithm: *)
(* a thread is given the lock for reading only while nobody holds it for   *)
(* writing, and for writing only while nobody reads and, unless writers    *)
(* may share it, nobody else writes.                                       *)
(***************************************************************************)
CONSTANT Thread         \* the callers

VARIABLES readers,      \* threads that hold the lock SHARED
          writers,      \* threads that hold the lock EXCLUSIVE
          shardWrite    \* RW_SHARDWRITE: writers share the lock

lock == <<readers, writers, shardWrite>>

Init == readers = {} /\ writers = {} /\ shardWrite \in BOOLEAN

GrantRead(t) ==
  /\ t \notin readers \cup writers /\ writers = {}
  /\ readers' = readers \cup {t} /\ UNCHANGED <<writers, shardWrite>>

GrantWrite(t) ==
  /\ t \notin readers \cup writers /\ readers = {}
  /\ shardWrite \/ writers = {}
  /\ writers' = writers \cup {t} /\ UNCHANGED <<readers, shardWrite>>

ReturnRead(t) ==
  /\ t \in readers
  /\ readers' = readers \ {t} /\ UNCHANGED <<writers, shardWrite>>

ReturnWrite(t) ==
  /\ t \in writers
  /\ writers' = writers \ {t} /\ UNCHANGED <<readers, shardWrite>>

Next == \E t \in Thread : \/ GrantRead(t) \/ GrantWrite(t)
                          \/ ReturnRead(t) \/ ReturnWrite(t)

Spec == Init /\ [][Next]_lock
=============================================================================
