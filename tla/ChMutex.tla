------------------------------ MODULE ChMutex -------------------------------
(***************************************************************************)
(* The mutexes of the ChibiOS/RT kernel (chmtx.c) with the scheduler they  *)
(* work on (chschd.c): the ready list ordered by priority, queues ordered  *)
(* by priority, ownership handed over on unlock, and priority inheritance  *)
(* through chains of owners that wait themselves.  spiAcquireBus and       *)
(* spiReleaseBus are chMtxLock and chMtxUnlock on the mutex of SPID1.      *)
(*                                                                         *)
(* Each action is one critical section (chSysLock to chSysUnlock) of the   *)
(* running thread, or one timer interrupt.                                 *)
(***************************************************************************)
EXTENDS Integers, SequencesExt

CONSTANTS
  Threads, NoThread,
  Idle,          \* the idle thread: always ready, uses no mutex
  Mutexes,
  RealPrio,      \* the priority a thread is created with (p_realprio)
  MaxOwned       \* bound: mutexes a thread owns at a time

ASSUME KernelAssumption ==
  /\ IsFiniteSet(Threads) /\ NoThread \notin Threads /\ Idle \in Threads
  /\ RealPrio \in [Threads -> Nat]
  /\ \A t \in Threads \ {Idle} : RealPrio[t] > RealPrio[Idle]
  /\ MaxOwned \in Nat

VARIABLES
  current,       \* currp
  rlist,         \* the ready list, first to run first
  prio,          \* p_prio, by thread
  owner,         \* m_owner, by mutex
  queue,         \* m_queue, by mutex
  mtxlist        \* p_mtxlist, by thread: the owned mutexes, last locked first

schedVars == <<current, rlist, prio>>
mutexVars == <<owner, queue, mtxlist>>
vars == <<schedVars, mutexVars>>

Waiters(m) == ToSet(queue[m])
WaitsFor(t) == {m \in Mutexes : t \in Waiters(m)}
BlockerOf(t) == owner[CHOOSE m \in Mutexes : t \in Waiters(m)]
Sleeping == {t \in Threads \ ({current} \cup ToSet(rlist)) : WaitsFor(t) = {}}
MaxOf(S) == CHOOSE x \in S : \A y \in S : y <= x

Init ==
  /\ current = Idle /\ rlist = << >> /\ prio = RealPrio
  /\ owner = [m \in Mutexes |-> NoThread]
  /\ queue = [m \in Mutexes |-> << >>]
  /\ mtxlist = [t \in Threads |-> << >>]

-----------------------------------------------------------------------------
(* Lists *)

\* t enters list s behind the threads at its front that are in ahead.
InsertPast(s, t, ahead) ==
  LET k == CHOOSE k \in 0..Len(s) : /\ \A i \in 1..k : s[i] \in ahead
                                    /\ k < Len(s) => s[k + 1] \notin ahead
  IN  InsertAt(s, k + 1, t)

\* prio_insert and chSchReadyI: behind the threads of the same priority.
BehindFifo(p, s, t) == Append(s, t)                \* mutant: first come, first served

Behind(p, s, t) == InsertPast(s, t, {x \in Threads : p[x] >= p[t]})

\* chSchDoRescheduleAhead: ahead of the threads of the same priority.
Ahead(p, s, t) == InsertPast(s, t, {x \in Threads : p[x] > p[t]})

Dequeue(s, t) == RemoveAt(s, CHOOSE i \in 1..Len(s) : s[i] = t)

-----------------------------------------------------------------------------
(* Scheduler *)

\* The running thread makes way for the first of the ready list r.
SwitchAhead(p, r) == current' = Head(r) /\ rlist' = Ahead(p, Tail(r), current)

\* chSchRescheduleS, and the end of an interrupt.
Reschedule(p, r) ==
  IF r # << >> /\ p[Head(r)] > p[current] THEN SwitchAhead(p, r)
                                          ELSE rlist' = r /\ UNCHANGED current

\* chThdSleep and every other wait that a timer or an interrupt ends
\* (chSchGoSleepS).
Sleep ==
  /\ current # Idle
  /\ current' = Head(rlist) /\ rlist' = Tail(rlist)
  /\ UNCHANGED <<prio, mutexVars>>

\* wakeup in the timer interrupt, and the preemption at its end.
Wake(t) ==
  /\ t \in Sleeping
  /\ Reschedule(prio, Behind(prio, rlist, t))
  /\ UNCHANGED <<prio, mutexVars>>

\* The time quantum is used up (chSchDoRescheduleBehind).
QuantumEnds ==
  /\ rlist # << >> /\ prio[Head(rlist)] >= prio[current]
  /\ current' = Head(rlist)
  /\ rlist' = Behind(prio, Tail(rlist), current)
  /\ UNCHANGED <<prio, mutexVars>>

-----------------------------------------------------------------------------
(* Locking *)

Take(t, m) ==
  /\ owner' = [owner EXCEPT ![m] = t]
  /\ mtxlist' = [mtxlist EXCEPT ![t] = <<m>> \o @]

\* One turn of the loop in chMtxLockS: thread s.tp gets the priority of the
\* running thread and a new place in the list it is in; the loop goes on with
\* the owner of the mutex s.tp waits for.
BoostOwnerOnly(s) ==                               \* mutant: the chain is not followed
  IF s.tp = NoThread \/ s.prio[s.tp] >= prio[current] THEN s
  ELSE LET p == [s.prio EXCEPT ![s.tp] = prio[current]]
       IN  [s EXCEPT !.prio = p, !.tp = NoThread,
                     !.rlist = IF Contains(@, s.tp) THEN Behind(p, Dequeue(@, s.tp), s.tp) ELSE @]

BoostInPlace(s) ==                                 \* mutant: entered a second time
  IF s.tp = NoThread \/ s.prio[s.tp] >= prio[current] THEN s
  ELSE LET p == [s.prio EXCEPT ![s.tp] = prio[current]]
       IN  [s EXCEPT !.prio = p, !.tp = NoThread, !.rlist = Behind(p, @, s.tp)]

Boost(s) ==
  IF s.tp = NoThread \/ s.prio[s.tp] >= prio[current] THEN s
  ELSE LET p == [s.prio EXCEPT ![s.tp] = prio[current]] IN
    IF WaitsFor(s.tp) # {} THEN
      LET m == CHOOSE m \in Mutexes : m \in WaitsFor(s.tp)
      IN  [s EXCEPT !.prio = p, !.tp = owner[m],
                    !.queue[m] = Behind(p, Dequeue(@, s.tp), s.tp)]
    ELSE [s EXCEPT !.prio = p, !.tp = NoThread,
                   !.rlist = IF Contains(@, s.tp) THEN Behind(p, Dequeue(@, s.tp), s.tp) ELSE @]

\* The loop ends after each thread at most once: none is boosted twice.
Boosted(m) ==
  LET turn[n \in 0..Cardinality(Threads)] ==
        IF n = 0 THEN [tp |-> owner[m], prio |-> prio, rlist |-> rlist, queue |-> queue]
                 ELSE Boost(turn[n - 1])
  IN  turn[Cardinality(Threads)]

MayLock(m) ==
  current # Idle /\ owner[m] # current /\ Len(mtxlist[current]) < MaxOwned

chMtxLock(m) ==
  /\ MayLock(m)
  /\ IF owner[m] = NoThread
       THEN Take(current, m) /\ UNCHANGED <<schedVars, queue>>
       ELSE LET b == Boosted(m) IN
            /\ prio' = b.prio
            /\ queue' = [b.queue EXCEPT ![m] = Behind(b.prio, @, current)]
            /\ current' = Head(b.rlist) /\ rlist' = Tail(b.rlist)
            /\ UNCHANGED <<owner, mtxlist>>

\* chMtxTryLock; nothing happens when the mutex is owned.
TryLockAnyway(m) ==                                \* mutant: no test of the owner
  /\ MayLock(m)
  /\ Take(current, m)
  /\ UNCHANGED <<schedVars, queue>>

chMtxTryLock(m) ==
  /\ MayLock(m)
  /\ owner[m] = NoThread
  /\ Take(current, m)
  /\ UNCHANGED <<schedVars, queue>>

-----------------------------------------------------------------------------
(* Unlocking *)

\* The priority left to the running thread by the waiters of the mutexes ms.
PrioFromReal(ms) == RealPrio[current]              \* mutant: other mutexes forgotten

PrioFrom(ms) ==
  MaxOf({RealPrio[current]} \cup {prio[Head(queue[m])] : m \in {m \in ToSet(ms) : queue[m] # << >>}})

\* The running thread takes the last locked mutex off its list; the first thread
\* that waits for it, if there is one, owns it now and leaves the queue.
HandOver(s) ==
  LET ump  == Head(s.mtxlist[current])
      rest == [s.mtxlist EXCEPT ![current] = Tail(@)]
      tp   == Head(s.queue[ump])
  IN  IF s.queue[ump] = << >>
        THEN [s EXCEPT !.owner[ump] = NoThread, !.mtxlist = rest]
        ELSE [s EXCEPT !.owner[ump] = tp, !.mtxlist = [rest EXCEPT ![tp] = <<ump>> \o @],
                       !.queue[ump] = Tail(@), !.rlist = Behind(prio, @, tp)]

Now == [owner |-> owner, mtxlist |-> mtxlist, queue |-> queue, rlist |-> rlist]

HandedOver(s) == owner' = s.owner /\ mtxlist' = s.mtxlist /\ queue' = s.queue

chMtxUnlock ==
  /\ mtxlist[current] # << >>
  /\ HandedOver(HandOver(Now))
  /\ LET ump == Head(mtxlist[current])
         tp  == Head(queue[ump])
         p   == [prio EXCEPT ![current] = PrioFrom(Tail(mtxlist[current]))]
     IN IF queue[ump] = << >> THEN UNCHANGED schedVars
        ELSE /\ prio' = p
             /\ IF p[tp] <= p[current]                    \* chSchWakeupS
                  THEN rlist' = Behind(p, rlist, tp) /\ UNCHANGED current
                  ELSE current' = tp /\ rlist' = Behind(p, rlist, current)

\* All the mutexes are handed over, one after the other.
chMtxUnlockAll ==
  /\ mtxlist[current] # << >>
  /\ LET turn[n \in 0..Len(mtxlist[current])] == IF n = 0 THEN Now ELSE HandOver(turn[n - 1])
         all == turn[Len(mtxlist[current])]
         p   == [prio EXCEPT ![current] = RealPrio[current]]
     IN HandedOver(all) /\ prio' = p /\ Reschedule(p, all.rlist)

-----------------------------------------------------------------------------
Next ==
  \/ Sleep \/ QuantumEnds \/ chMtxUnlock \/ chMtxUnlockAll
  \/ \E t \in Threads : Wake(t)
  \/ \E m \in Mutexes : chMtxLock(m) \/ chMtxTryLock(m)

Spec == Init /\ [][Next]_vars

-----------------------------------------------------------------------------
(* Properties *)

\* Types, and the lists agree: a mutex is in the list of its owner and of no other
\* thread, only an owned mutex is waited for, and a thread is in one list at most.
TypeOK ==
  /\ current \in Threads /\ rlist \in Seq(Threads)
  /\ prio \in [Threads -> Nat]
  /\ owner \in [Mutexes -> Threads \cup {NoThread}]
  /\ queue \in [Mutexes -> Seq(Threads)]
  /\ mtxlist \in [Threads -> Seq(Mutexes)]
  /\ \A t \in Threads : \A m \in Mutexes : Contains(mtxlist[t], m) <=> owner[m] = t
  /\ \A m \in Mutexes : queue[m] # << >> => owner[m] # NoThread
  /\ IsInjective(<<current>> \o rlist)
  /\ \A t \in {current} \cup ToSet(rlist) : WaitsFor(t) = {}
  /\ \A t \in Threads : Cardinality(WaitsFor(t)) <= 1

\* The priority of a thread is its own or the highest of the threads that wait for
\* a mutex it owns: nothing too low after a lock, directly or through a chain of
\* owners, and nothing left over after an unlock.
InheritanceExact ==
  \A t \in Threads :
    prio[t] = MaxOf({RealPrio[t]} \cup
                    {prio[w] : w \in UNION {Waiters(m) : m \in ToSet(mtxlist[t])}})

\* No priority inversion: while a thread waits for a mutex and the thread that all
\* wait for in the end could run, no thread of lower priority runs.
NoInversion ==
  LET last[n \in 0..Cardinality(Threads)] ==
        [t \in Threads |-> IF n = 0 \/ WaitsFor(t) = {} THEN t ELSE last[n - 1][BlockerOf(t)]]
  IN  \A w \in Threads :
        last[Cardinality(Threads)][w] \in ToSet(rlist) => prio[current] >= prio[w]

\* A mutex that is handed over goes to a waiter of the highest priority.
HighestWaiterNext ==
  [][\A m \in Mutexes :
       owner'[m] \notin {owner[m], NoThread} /\ owner[m] # NoThread
         => /\ owner'[m] \in Waiters(m)
            /\ \A w \in Waiters(m) : prio[w] <= prio[owner'[m]]]_vars

\* Every mutex is the lock its users rely on.
Lock(m) == INSTANCE BusLock WITH holder <- owner[m], waiting <- Waiters(m)

ImplementsLock ==
  /\ \A m \in Mutexes : Lock(m)!LockInit
  /\ [][\A m \in Mutexes : [Lock(m)!LockNext]_(Lock(m)!lockVars)]_vars

=============================================================================
