------------------------------ MODULE OsThread ------------------------------
(***************************************************************************)
(* The guest memory the HLE scheduler works on, and the helpers of         *)
(* runtime/src/hle/os that edit it.  The OSThread structures, the thread   *)
(* queues, the mutexes and the scheduler globals are one record; every     *)
(* helper of the source is an operator from such a record to the next one. *)
(* A queue is identified by what owns it: a run queue by its priority, the *)
(* wait queue of a mutex by the mutex, the join queue of a thread by the   *)
(* thread, and any other OSThreadQueue by a member of WaitQueues.          *)
(***************************************************************************)
EXTENDS Integers, Sequences, SequencesExt, FiniteSetsExt

CONSTANTS
  Threads,      \* the OSThread structures
  Main,         \* the default thread, on the host's scheduler fiber
  Mutexes,      \* the OSMutex structures
  WaitQueues,   \* the other OSThreadQueue structures
  NULL,         \* the null guest pointer
  Idle,         \* kIdleThreadContextAddr, the context of the idle loop
  MaxPrio,      \* the weakest priority of a run queue (31 in the source)
  BasePrio      \* the priority each thread is created with

Prios == 0 .. MaxPrio
SuspendedWaitPriority == MaxPrio + 1
Waitables == WaitQueues \cup Mutexes \cup Threads
Queues == Prios \cup Waitables
ThreadStates == {"NONE", "READY", "RUNNING", "WAITING", "MORIBUND"}

(* The kinds of pointers are distinct, and none of them is a priority.     *)
ASSUME OsConstants ==
  /\ MaxPrio \in Nat
  /\ BasePrio \in [Threads -> Prios]
  /\ Main \in Threads
  /\ \A S \in {Threads, Mutexes, WaitQueues} :
        S \cap (0 .. MaxPrio + 1) = {} /\ NULL \notin S /\ Idle \notin S
  /\ Threads \cap Mutexes = {}
  /\ Threads \cap WaitQueues = {}
  /\ Mutexes \cap WaitQueues = {}
  /\ NULL \notin 0 .. MaxPrio + 1
  /\ Idle # NULL

(* The fields of OSThread, OSMutex and OSThreadQueue that the scheduler    *)
(* reads, its globals, and the host's tables of sleep timers and parks.    *)
OsMemory ==
  [state   : [Threads -> ThreadStates],
   susp    : [Threads -> Nat],
   prio    : [Threads -> Prios \cup {SuspendedWaitPriority}],
   base    : [Threads -> Prios],
   qptr    : [Threads -> Queues \cup {NULL}],
   waitsOn : [Threads -> Mutexes \cup {NULL}],
   held    : [Threads -> Seq(Mutexes)],
   detached : SUBSET Threads,
   listed  : SUBSET Threads,
   owner   : [Mutexes -> Threads \cup {NULL}],
   count   : [Mutexes -> Nat],
   queue   : [Queues -> Seq(Threads)],
   pending : SUBSET Prios,
   resched : BOOLEAN,
   disable : Nat,
   running : Threads \cup {NULL},
   current : Threads \cup {NULL, Idle},
   timers  : SUBSET Threads,
   parks   : SUBSET Threads]

ThreadStateIsTerminated(s) == s \in {"NONE", "MORIBUND"}

-----------------------------------------------------------------------------
(* Queues.                                                                 *)

UnlinkGuestListNode(list, node) ==
  IF \E i \in DOMAIN list : list[i] = node
  THEN RemoveAt(list, CHOOSE i \in DOMAIN list : list[i] = node)
  ELSE list

(* Mutant: the pending bit of an emptied run queue stays set.              *)
RemoveThreadFromQueue_KeepsPending(k, t) ==
  IF k.qptr[t] = NULL THEN k
  ELSE [k EXCEPT !.queue[k.qptr[t]] = UnlinkGuestListNode(@, t), !.qptr[t] = NULL]

(* UpdatePendingMaskForQueue is the last conjunct: the pending bit of a    *)
(* run queue goes with its last thread.                                    *)
RemoveThreadFromQueue(k, t) ==
  LET q    == k.qptr[t]
      rest == UnlinkGuestListNode(k.queue[q], t)
  IN  IF q = NULL THEN k
      ELSE [k EXCEPT !.queue[q] = rest,
                     !.qptr[t]  = NULL,
                     !.pending  = IF q \in Prios /\ rest = << >> THEN @ \ {q} ELSE @]

(* Before the first queued thread of a weaker priority.                    *)
InsertThreadIntoQueueByPriority(k, q, t, p) ==
  LET s  == k.queue[q]
      at == Min({i \in DOMAIN s : k.prio[s[i]] > p} \cup {Len(s) + 1})
  IN  [k EXCEPT !.qptr[t]  = q,
                !.queue[q] = InsertAt(s, at, t),
                !.pending  = IF q \in Prios THEN @ \cup {q} ELSE @]

LinkThreadOnRunQueue(k, t, p) ==
  [k EXCEPT !.queue[p] = Append(@, t), !.qptr[t] = p]

(* Mutant: no reschedule is requested.                                     *)
MarkRunQueuePending_NoRequest(k, p) == [k EXCEPT !.pending = @ \cup {p}]

MarkRunQueuePending(k, p) ==
  [k EXCEPT !.pending = @ \cup {p}, !.resched = TRUE]

-----------------------------------------------------------------------------
(* Priorities.                                                             *)

(* Mutant: an unlock gives up what the other mutexes lend.                 *)
ComputeThreadEffectivePriority_Base(k, t) == k.base[t]

ComputeThreadEffectivePriority(k, t) ==
  Min({k.base[t]} \cup
      {k.prio[Head(k.queue[m])] : m \in {n \in ToSet(k.held[t]) : k.queue[n] # << >>}})

(* Move a waiting thread to its new place in the queue it waits on.        *)
Reposition(k, t, p) ==
  LET out == [RemoveThreadFromQueue(k, t) EXCEPT !.prio[t] = p]
  IN  IF k.qptr[t] = NULL THEN out
      ELSE InsertThreadIntoQueueByPriority(out, k.qptr[t], t, p)

(* Queue a READY thread at priority p and request a reschedule.            *)
Requeue(k, t, p) ==
  InsertThreadIntoQueueByPriority(
    [k EXCEPT !.state[t] = "READY", !.prio[t] = p, !.resched = TRUE], p, t, p)

SetThreadEffectivePriority(k, t, p) ==
  CASE k.state[t] = "READY"   -> Requeue(RemoveThreadFromQueue(k, t), t, p)
    [] k.state[t] = "RUNNING" -> [k EXCEPT !.prio[t] = p, !.resched = TRUE]
    [] k.state[t] = "WAITING" -> Reposition(k, t, p)
    [] OTHER                  -> k

(* Mutant: the chain of owners is not followed.                            *)
NextOwner_Stops(k, t) == NULL

(* What SetThreadEffectivePriority returns: the next owner in the chain.   *)
NextOwner(k, t) ==
  IF k.state[t] = "WAITING" /\ k.waitsOn[t] # NULL THEN k.owner[k.waitsOn[t]] ELSE NULL

(* The owner of the mutex t waits for: where a propagation starts.         *)
MutexOwner(k, t) == IF k.waitsOn[t] = NULL THEN NULL ELSE k.owner[k.waitsOn[t]]

-----------------------------------------------------------------------------
(* Suspension, wake-up and termination of one thread.                      *)

(* OSSuspendThread up to its reschedule: only the first suspension acts.   *)
Suspend(k, t) ==
  LET s == [k EXCEPT !.susp[t] = @ + 1]
  IN  IF k.susp[t] # 0 THEN s
      ELSE CASE k.state[t] = "READY"   -> RemoveThreadFromQueue(s, t)
             [] k.state[t] = "RUNNING" -> [s EXCEPT !.state[t] = "READY", !.resched = TRUE]
             [] k.state[t] = "WAITING" -> Reposition(s, t, SuspendedWaitPriority)
             [] OTHER                  -> s

(* Mutants: a READY thread is not queued; the timer and park stay.         *)
Resume_NotQueued(k, t) ==
  LET r == [k EXCEPT !.susp[t] = @ - 1]
      c == [r EXCEPT !.timers = @ \ {t}, !.parks = @ \ {t}]
      p == ComputeThreadEffectivePriority(c, t)
  IN  IF k.susp[t] = 0 THEN k
      ELSE IF k.susp[t] > 1 THEN r
      ELSE IF k.state[t] = "WAITING" THEN Reposition(c, t, p) ELSE c

Resume_KeepsPark(k, t) ==
  LET r == [k EXCEPT !.susp[t] = @ - 1]
      p == ComputeThreadEffectivePriority(r, t)
  IN  IF k.susp[t] = 0 THEN k
      ELSE IF k.susp[t] > 1 THEN r
      ELSE CASE k.state[t] = "WAITING"             -> Reposition(r, t, p)
             [] k.state[t] \in {"READY", "RUNNING"} -> Requeue(r, t, p)
             [] OTHER                              -> r

(* OSResumeThread up to its reschedule: the last resume cancels the sleep  *)
(* timer and the park and makes the thread eligible again.                 *)
Resume(k, t) ==
  LET r == [k EXCEPT !.susp[t] = @ - 1]
      c == [r EXCEPT !.timers = @ \ {t}, !.parks = @ \ {t}]
      p == ComputeThreadEffectivePriority(c, t)
  IN  IF k.susp[t] = 0 THEN k
      ELSE IF k.susp[t] > 1 THEN r
      ELSE CASE k.state[t] = "WAITING"             -> Reposition(c, t, p)
             [] k.state[t] \in {"READY", "RUNNING"} -> Requeue(c, t, p)
             [] OTHER                              -> c

(* One turn of WakeupThreadQueue: pop the head of q and make it runnable;  *)
(* a suspended thread only becomes READY.                                  *)
WakeHead(k, q) ==
  LET t      == Head(k.queue[q])
      popped == [k EXCEPT !.queue[q] = Tail(@)]
      p      == IF k.prio[t] > MaxPrio THEN MaxPrio ELSE k.prio[t]
      ready  == [popped EXCEPT !.state[t] = "READY"]
  IN  IF ThreadStateIsTerminated(k.state[t]) THEN [popped EXCEPT !.qptr[t] = NULL]
      ELSE IF k.susp[t] < 1 THEN MarkRunQueuePending(LinkThreadOnRunQueue(ready, t, p), p)
      ELSE ready

(* Whether that turn asks for a reschedule.                                *)
WakeReschedules(k, q) ==
  LET t == Head(k.queue[q])
  IN  ~ThreadStateIsTerminated(k.state[t]) /\ k.susp[t] < 1

(* Mutant: a detached thread stays on the thread list.                     *)
Terminate_StaysListed(k, t) ==
  [k EXCEPT !.state[t] = IF t \in k.detached THEN "NONE" ELSE "MORIBUND"]

(* TerminateThreadCommon up to the unlocking of the mutexes.               *)
Terminate(k, t) ==
  IF t \in k.detached
  THEN [k EXCEPT !.state[t] = "NONE", !.listed = @ \ {t}]
  ELSE [k EXCEPT !.state[t] = "MORIBUND"]

(* Taking a dead thread off the thread list (OSJoinThread, OSDetachThread). *)
Reap(k, t) == [k EXCEPT !.state[t] = "NONE", !.listed = @ \ {t}]

(* OSCreateThread: ready, suspended once, its join queue and mutex list    *)
(* empty.  The queue pointer keeps whatever it held.                       *)
Create(k, t, d) ==
  [k EXCEPT !.state[t]   = "READY",
            !.susp[t]    = 1,
            !.base[t]    = BasePrio[t],
            !.prio[t]    = BasePrio[t],
            !.queue[t]   = << >>,
            !.waitsOn[t] = NULL,
            !.held[t]    = << >>,
            !.detached   = IF d THEN @ \cup {t} ELSE @ \ {t},
            !.listed     = @ \cup {t}]

-----------------------------------------------------------------------------
(* Mutexes.                                                                *)

(* OSLockMutex by t when the mutex is free or already its own.             *)
Acquire(k, m, t) ==
  [k EXCEPT !.owner[m] = t,
            !.count[m] = @ + 1,
            !.held[t]  = IF k.owner[m] = NULL THEN Append(@, m) ELSE @]

(* OSUnlockMutex by its owner up to the wake-up of the waiters.            *)
Release(k, m, t) ==
  LET c == [k EXCEPT !.count[m] = @ - 1]
      r == [c EXCEPT !.owner[m] = NULL, !.held[t] = UnlinkGuestListNode(@, m)]
  IN  IF k.count[m] # 1 THEN c
      ELSE IF k.prio[t] < k.base[t]
           THEN [r EXCEPT !.prio[t] = ComputeThreadEffectivePriority(r, t)]
           ELSE r
=============================================================================
