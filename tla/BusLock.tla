------------------------------ MODULE BusLock -------------------------------
(***************************************************************************)
(* What a mutex of the kernel promises its users: one holder, and a        *)
(* release that hands the lock to a waiting thread if there is one, so     *)
(* that a thread cannot take it again past those that wait.  ChMutex       *)
(* implements this; SpiFlash is built on it.                               *)
(***************************************************************************)
CONSTANTS Threads, NoThread

ASSUME LockAssumption == NoThread \notin Threads

VARIABLES
  holder,     \* m_owner
  waiting     \* the threads in m_queue

lockVars == <<holder, waiting>>

LockTypeOK == holder \in Threads \cup {NoThread} /\ waiting \subseteq Threads

LockInit == holder = NoThread /\ waiting = {}

Acquire(t) ==
  /\ holder = NoThread
  /\ holder' = t
  /\ UNCHANGED waiting

Wait(t) ==
  /\ holder \notin {t, NoThread}
  /\ waiting' = waiting \cup {t}
  /\ UNCHANGED holder

ReleaseToAll(t) ==                                 \* mutant: waiters must try again
  /\ holder = t
  /\ holder' = NoThread
  /\ UNCHANGED waiting

Release(t) ==
  /\ holder = t
  /\ \/ waiting = {} /\ holder' = NoThread /\ UNCHANGED waiting
     \/ \E w \in waiting : holder' = w /\ waiting' = waiting \ {w}

LockNext == \E t \in Threads : Acquire(t) \/ Wait(t) \/ Release(t)

LockSpec == LockInit /\ [][LockNext]_lockVars

=============================================================================
