-------------------------- MODULE GuestScheduler_proofs --------------------------
(***************************************************************************)
(* The initial states of GuestScheduler satisfy IInv, and the actions keep *)
(* it; those of the life cycle of threads, and the theorems, are in        *)
(* ThreadLife_proofs.                                                      *)
(* First what the helpers do to the state, for every value of the          *)
(* constants: those of OsThread keep the guest memory consistent, and      *)
(* pushing and popping calls keeps the stacks of the fibers well formed.   *)
(* Then the actions, one by one.                                           *)
(***************************************************************************)
EXTENDS SchedulerInvariant, Lists_proofs, FiniteSetTheorems

-----------------------------------------------------------------------------
(* The guest memory.                                                       *)

LEMMA UnlinkedList ==
  ASSUME NEW T, NEW s \in Seq(T), NEW e
  PROVE  /\ UnlinkGuestListNode(s, e) \in Seq(T)
         /\ IsInjective(s) => /\ IsInjective(UnlinkGuestListNode(s, e))
                              /\ ToSet(UnlinkGuestListNode(s, e)) = ToSet(s) \ {e}
<1>1. CASE ~\E i \in DOMAIN s : s[i] = e
  BY <1>1 DEF UnlinkGuestListNode, ToSet
<1>2. CASE \E i \in DOMAIN s : s[i] = e
  <2> DEFINE i == CHOOSE j \in DOMAIN s : s[j] = e
             u == RemoveAt(s, i)
  <2>1. i \in DOMAIN s /\ s[i] = e
    BY <1>2
  <2>2. UnlinkGuestListNode(s, e) = u
    BY <1>2 DEF UnlinkGuestListNode
  <2> HIDE DEF i
  <2>3. /\ u \in Seq(T)
        /\ Len(u) = Len(s) - 1
        /\ \A j \in 1 .. Len(s) - 1 : u[j] = IF j < i THEN s[j] ELSE s[j + 1]
    BY <2>1, ListWithout
  <2> HIDE DEF u
  <2>4. /\ Len(s) \in Nat /\ DOMAIN s = 1 .. Len(s)
        /\ DOMAIN u = 1 .. Len(s) - 1
    BY <2>3, LenProperties
  <2>5. ASSUME IsInjective(s)
        PROVE  IsInjective(u) /\ ToSet(u) = ToSet(s) \ {e}
    <3>1. \A j \in DOMAIN u : \E m \in DOMAIN s : m # i /\ u[j] = s[m]
      BY <2>1, <2>3, <2>4
    <3>2. \A m \in DOMAIN s : m # i => \E j \in DOMAIN u : u[j] = s[m]
      <4> SUFFICES ASSUME NEW m \in DOMAIN s, m # i
                   PROVE  \E j \in DOMAIN u : u[j] = s[m]
        OBVIOUS
      <4>1. CASE m < i
        <5>1. m \in DOMAIN u /\ u[m] = s[m]
          BY <2>1, <2>3, <2>4, <4>1
        <5> QED BY <5>1
      <4>2. CASE m > i
        <5>1. m - 1 \in DOMAIN u /\ u[m - 1] = s[m]
          BY <2>1, <2>3, <2>4, <4>2
        <5> QED BY <5>1
      <4> QED
        BY <4>1, <4>2, <2>1, <2>4
    <3>3. \A m \in DOMAIN s : s[m] = e => m = i
      BY <2>1, <2>5 DEF IsInjective
    <3>4. ToSet(u) = ToSet(s) \ {e}
      BY <3>1, <3>2, <3>3, <2>1 DEF ToSet
    <3>5. IsInjective(u)
      BY <2>1, <2>3, <2>4, <2>5 DEF IsInjective
    <3> QED
      BY <3>4, <3>5
  <2> QED
    BY <2>2, <2>3, <2>5
<1> QED
  BY <1>1, <1>2

(* What a move between queues leaves alone.                                *)
Unmoved(j, k) ==
  /\ j.state = k.state /\ j.susp = k.susp /\ j.prio = k.prio /\ j.base = k.base
  /\ j.waitsOn = k.waitsOn /\ j.held = k.held /\ j.owner = k.owner /\ j.count = k.count
  /\ j.disable = k.disable /\ j.running = k.running /\ j.current = k.current
  /\ j.resched = k.resched /\ j.timers = k.timers /\ j.parks = k.parks

(* The kinds of pointers do not overlap.                                   *)
LEMMA Pointers ==
  /\ NULL \notin Queues /\ NULL \notin Threads /\ Idle \notin Threads /\ Idle # NULL
  /\ Prios \cap Waitables = {}
  /\ SuspendedWaitPriority \notin Prios /\ SuspendedWaitPriority \in Nat
  /\ Prios \subseteq Nat
BY OsConstants DEF Queues, Prios, Waitables, SuspendedWaitPriority

LEMMA RemoveFields ==
  ASSUME NEW k \in OsMemory, NEW x \in Threads, NEW j, j = RemoveThreadFromQueue(k, x),
         k.qptr[x] # NULL
  PROVE  LET q == k.qptr[x]
             rest == UnlinkGuestListNode(k.queue[q], x)
         IN /\ j \in OsMemory
            /\ Unmoved(j, k)
            /\ q \in Queues
            /\ j.queue = [k.queue EXCEPT ![q] = rest]
            /\ j.qptr = [k.qptr EXCEPT ![x] = NULL]
            /\ j.pending = IF q \in Prios /\ rest = << >> THEN k.pending \ {q} ELSE k.pending
<1> DEFINE q == k.qptr[x]
           rest == UnlinkGuestListNode(k.queue[q], x)
<1>1. q \in Queues
  BY DEF OsMemory
<1>2. k.queue[q] \in Seq(Threads)
  BY <1>1 DEF OsMemory
<1>3. rest \in Seq(Threads)
  BY <1>2, UnlinkedList
<1> HIDE DEF rest
<1>4. j = [k EXCEPT !.queue[q] = rest,
                     !.qptr[x]  = NULL,
                     !.pending  = IF q \in Prios /\ rest = << >> THEN @ \ {q} ELSE @]
  BY DEF RemoveThreadFromQueue, rest
<1> HIDE DEF q
<1>5. /\ j.queue = [k.queue EXCEPT ![q] = rest]
      /\ j.qptr = [k.qptr EXCEPT ![x] = NULL]
      /\ j.pending = IF q \in Prios /\ rest = << >> THEN k.pending \ {q} ELSE k.pending
  BY <1>4 DEF OsMemory
<1>6. Unmoved(j, k)
  BY <1>4 DEF OsMemory, Unmoved
<1>7. j \in OsMemory
  <2>1. /\ [k.queue EXCEPT ![q] = rest] \in [Queues -> Seq(Threads)]
        /\ [k.qptr EXCEPT ![x] = NULL] \in [Threads -> Queues \cup {NULL}]
        /\ (IF q \in Prios /\ rest = << >> THEN k.pending \ {q} ELSE k.pending) \in SUBSET Prios
    BY <1>1, <1>3 DEF OsMemory
  <2>2. j = [k EXCEPT !.queue = [k.queue EXCEPT ![q] = rest],
                      !.qptr = [k.qptr EXCEPT ![x] = NULL],
                      !.pending = IF q \in Prios /\ rest = << >> THEN k.pending \ {q} ELSE k.pending]
    BY <1>4 DEF OsMemory
  <2> QED
    BY <2>1, <2>2 DEF OsMemory
<1> QED
  BY <1>1, <1>5, <1>6, <1>7 DEF q, rest

(* Two memories that agree on a thread and on the queues it is in agree on *)
(* whether that thread is as it should be.                                 *)
LEMMA SameThread ==
  ASSUME NEW k, NEW j, NEW t,
         j.state[t] = k.state[t], j.susp[t] = k.susp[t], j.prio[t] = k.prio[t],
         j.qptr[t] = k.qptr[t],
         \A q \in Queues : In(j, t, q) <=> In(k, t, q),
         ThreadOK(k, t)
  PROVE  ThreadOK(j, t)
BY DEF ThreadOK, Linked, Ended

(* RemoveThreadFromQueue takes a thread out of the only queue it may be in.*)
LEMMA RemoveLoosens ==
  ASSUME NEW k, NEW x \in Threads, Moving(k, x), NEW j, j = RemoveThreadFromQueue(k, x)
  PROVE  /\ Loose(j, x)
         /\ Unmoved(j, k)
         /\ \A t \in Threads \ {x} : j.qptr[t] = k.qptr[t]
<1>1. k \in OsMemory /\ ListsOK(k)
  BY DEF Moving, ListsOK
<1>2. CASE k.qptr[x] = NULL
  <2>1. j = k
    BY <1>2 DEF RemoveThreadFromQueue
  <2>2. \A q \in Queues : ~In(k, x, q)
    BY <1>2, Pointers DEF Moving
  <2> QED
    BY <2>1, <2>2 DEF Loose, Unmoved
<1>3. CASE k.qptr[x] # NULL
  <2> DEFINE q == k.qptr[x]
             rest == UnlinkGuestListNode(k.queue[q], x)
  <2>1. /\ j \in OsMemory
        /\ Unmoved(j, k)
        /\ q \in Queues
        /\ j.queue = [k.queue EXCEPT ![q] = rest]
        /\ j.qptr = [k.qptr EXCEPT ![x] = NULL]
        /\ j.pending = IF q \in Prios /\ rest = << >> THEN k.pending \ {q} ELSE k.pending
    BY <1>1, <1>3, RemoveFields
  <2>2. k.queue[q] \in Seq(Threads) /\ IsInjective(k.queue[q]) /\ k.queue \in [Queues -> Seq(Threads)]
    BY <1>1, <2>1 DEF OsMemory, ListsOK
  <2>3. /\ rest \in Seq(Threads) /\ IsInjective(rest)
        /\ ToSet(rest) = ToSet(k.queue[q]) \ {x}
    BY <2>2, UnlinkedList
  <2> HIDE DEF rest
  <2>4. \A t, p : p \in Queues => (In(j, t, p) <=> In(k, t, p) /\ ~(p = q /\ t = x))
    BY <2>1, <2>2, <2>3 DEF In
  <2>5. ListsOK(j)
    <3>1. \A p \in Queues : IsInjective(j.queue[p])
      BY <1>1, <2>1, <2>2, <2>3 DEF ListsOK
    <3>2. \A p \in Prios : p \in j.pending <=> j.queue[p] # << >>
      <4>1. q \in Prios => (q \in k.pending <=> k.queue[q] # << >>)
        BY <1>1 DEF ListsOK
      <4>2. rest # << >> => k.queue[q] # << >>
        BY <2>2, <2>3, EmptyList
      <4>3. \A p \in Prios : p \in k.pending <=> k.queue[p] # << >>
        BY <1>1 DEF ListsOK
      <4>4. ASSUME NEW p \in Prios, q = p PROVE p \in j.pending <=> j.queue[p] # << >>
        <5>1. j.queue[p] = rest
          BY <4>4, <2>1, <2>2
        <5>2. k.queue[q] = << >> => rest = << >>
          BY <4>2
        <5>3. CASE rest = << >>
          BY <5>1, <5>3, <4>4, <2>1
        <5>4. CASE rest # << >>
          <6>1. j.pending = k.pending /\ k.queue[p] # << >>
            BY <5>2, <5>4, <4>4, <2>1
          <6> QED BY <6>1, <5>1, <5>4, <4>3
        <5> QED BY <5>3, <5>4
      <4>5. ASSUME NEW p \in Prios, q # p PROVE p \in j.pending <=> j.queue[p] # << >>
        <5>1. p \in Queues
          BY DEF Queues
        <5>2. j.queue[p] = k.queue[p]
          BY <4>5, <2>1, <2>2, <5>1
        <5>3. p \in j.pending <=> p \in k.pending
          BY <4>5, <2>1
        <5> QED BY <5>2, <5>3, <4>3
      <4> QED BY <4>4, <4>5
    <3>3. \A m \in Mutexes : j.owner[m] = NULL <=> j.count[m] = 0
      BY <1>1, <2>1 DEF ListsOK, Unmoved
    <3> QED BY <2>1, <3>1, <3>2, <3>3 DEF ListsOK
  <2>6. ASSUME NEW t \in Threads \ {x} PROVE ThreadOK(j, t) /\ j.qptr[t] = k.qptr[t]
    <3>1. ThreadOK(k, t)
      BY DEF Moving
    <3>2. j.qptr[t] = k.qptr[t]
      BY <1>1, <2>1 DEF OsMemory
    <3>3. j.state[t] = k.state[t] /\ j.susp[t] = k.susp[t] /\ j.prio[t] = k.prio[t]
      BY <2>1 DEF Unmoved
    <3>4. \A p \in Queues : In(j, t, p) <=> In(k, t, p)
      BY <2>4
    <3> QED
      BY <3>1, <3>2, <3>3, <3>4, SameThread
  <2>7. \A p \in Queues : ~In(j, x, p)
    BY <2>4 DEF Moving
  <2> QED
    BY <2>1, <2>5, <2>6, <2>7 DEF Loose, Moving
<1> QED
  BY <1>2, <1>3

(* A consistent thread may start to move; one that no queue should hold is *)
(* in none.                                                                *)
LEMMA StartsToMove ==
  ASSUME NEW k, NEW x \in Threads, MemoryOK(k)
  PROVE  /\ Moving(k, x)
         /\ ~Linked(k, x) => Loose(k, x)
<1>1. ThreadOK(k, x)
  BY DEF MemoryOK
<1>2. \A q \in Queues : In(k, x, q) => q = k.qptr[x] /\ Linked(k, x)
  BY <1>1 DEF ThreadOK, Linked, Queues
<1>3. Moving(k, x)
  BY <1>2 DEF Moving, MemoryOK
<1> QED
  BY <1>2, <1>3 DEF Loose

(* A thread that needs no queue may stay out of all of them.               *)
LEMMA StaysLoose ==
  ASSUME NEW k, NEW x \in Threads, Loose(k, x), ~Linked(k, x),
         k.prio[x] = SuspendedWaitPriority => k.susp[x] > 0 \/ (Mortal /\ Ended(k, x)),
         k.state[x] = "RUNNING" => k.susp[x] = 0,
         k.state[x] = "MORIBUND" => Mortal
  PROVE  MemoryOK(k)
<1>1. ThreadOK(k, x)
  BY DEF Loose, ThreadOK
<1> QED
  BY <1>1 DEF Loose, Moving, MemoryOK

(* While x moves, its own fields may change, and so may whatever is not    *)
(* about queues.                                                           *)
OnlyChanges(j, k, x) ==
  /\ j \in OsMemory
  /\ j.queue = k.queue /\ j.pending = k.pending /\ j.qptr = k.qptr
  /\ \A t \in Threads \ {x} : /\ j.state[t] = k.state[t]
                              /\ j.susp[t] = k.susp[t]
                              /\ j.prio[t] = k.prio[t]
  /\ \A m \in Mutexes : j.owner[m] = NULL <=> j.count[m] = 0

LEMMA MovingChanges ==
  ASSUME NEW k, NEW j, NEW x \in Threads, OnlyChanges(j, k, x)
  PROVE  /\ Moving(k, x) => Moving(j, x)
         /\ Loose(k, x) => Loose(j, x)
<1> USE DEF OnlyChanges
<1>1. \A t, q : In(j, t, q) <=> In(k, t, q)
  BY DEF In
<1>2. ListsOK(k) => ListsOK(j)
  BY DEF ListsOK
<1>3. \A t \in Threads \ {x} : ThreadOK(k, t) => ThreadOK(j, t)
  BY <1>1, SameThread
<1> QED
  BY <1>1, <1>2, <1>3 DEF Moving, Loose

(* The same for changes that concern no queue and no thread's eligibility. *)
LEMMA QuietChanges ==
  ASSUME NEW k, NEW j \in OsMemory, MemoryOK(k),
         j.queue = k.queue, j.pending = k.pending, j.qptr = k.qptr,
         j.state = k.state, j.susp = k.susp, j.prio = k.prio,
         \A m \in Mutexes : j.owner[m] = NULL <=> j.count[m] = 0
  PROVE  MemoryOK(j)
<1>1. \A t, q : In(j, t, q) <=> In(k, t, q)
  BY DEF In
<1>2. ListsOK(j)
  BY DEF ListsOK, MemoryOK
<1>3. \A t \in Threads : ThreadOK(j, t)
  BY <1>1, SameThread DEF MemoryOK
<1> QED
  BY <1>2, <1>3 DEF MemoryOK

(* Thread x belongs in queue q.                                            *)
Belongs(k, x, q) ==
  /\ q \in Prios => k.state[x] = "READY" /\ k.susp[x] = 0 /\ k.prio[x] = q
  /\ q \in Waitables => k.state[x] = "WAITING"

(* Linking a loose thread where it belongs.                                *)
LEMMA Joins ==
  ASSUME NEW k, NEW j \in OsMemory, NEW x \in Threads, NEW q \in Queues, NEW s \in Seq(Threads),
         Loose(k, x), Belongs(k, x, q), k.prio[x] = SuspendedWaitPriority => k.susp[x] > 0,
         j.queue = [k.queue EXCEPT ![q] = s],
         ToSet(s) = ToSet(k.queue[q]) \cup {x}, IsInjective(s),
         j.qptr = [k.qptr EXCEPT ![x] = q],
         j.pending = IF q \in Prios THEN k.pending \cup {q} ELSE k.pending,
         j.state = k.state, j.susp = k.susp, j.prio = k.prio, j.owner = k.owner, j.count = k.count
  PROVE  MemoryOK(j)
<1>1. k \in OsMemory /\ ListsOK(k) /\ k.queue \in [Queues -> Seq(Threads)]
  BY DEF Loose, Moving, ListsOK, OsMemory
<1>2. \A t, p : p \in Queues => (In(j, t, p) <=> In(k, t, p) \/ (p = q /\ t = x))
  BY <1>1 DEF In
<1>3. ListsOK(j)
  <2>1. \A p \in Queues : IsInjective(j.queue[p])
    BY <1>1 DEF ListsOK
  <2>2. ASSUME NEW p \in Prios PROVE p \in j.pending <=> j.queue[p] # << >>
    <3>1. p \in Queues
      BY DEF Queues
    <3>2. CASE p = q
      <4>1. j.queue[p] = s /\ s # << >>
        BY <1>1, <3>2, EmptyList
      <4> QED BY <3>2, <4>1
    <3>3. CASE p # q
      <4>1. j.queue[p] = k.queue[p] /\ (p \in j.pending <=> p \in k.pending)
        BY <1>1, <3>1, <3>3
      <4> QED BY <1>1, <4>1 DEF ListsOK
    <3> QED BY <3>2, <3>3
  <2> QED
    BY <1>1, <2>1, <2>2 DEF ListsOK
<1>4. ASSUME NEW t \in Threads \ {x} PROVE ThreadOK(j, t)
  <2>1. ThreadOK(k, t)
    BY DEF Loose, Moving
  <2>2. j.qptr[t] = k.qptr[t]
    BY <1>1 DEF OsMemory
  <2>3. \A p \in Queues : In(j, t, p) <=> In(k, t, p)
    BY <1>2
  <2> QED
    BY <2>1, <2>2, <2>3, SameThread
<1>5. ThreadOK(j, x)
  <2>1. j.qptr[x] = q
    BY <1>1 DEF OsMemory
  <2>2. \A p \in Queues : In(j, x, p) <=> p = q
    BY <1>2 DEF Loose
  <2>3. q \in Prios \/ q \in Waitables
    BY DEF Queues
  <2> QED
    BY <2>1, <2>2, <2>3 DEF ThreadOK, Linked, Belongs
<1> QED
  BY <1>3, <1>4, <1>5 DEF MemoryOK

(* InsertThreadIntoQueueByPriority, whatever the place it finds.           *)
LEMMA InsertJoins ==
  ASSUME NEW k, NEW x \in Threads, NEW q \in Queues, NEW p, NEW j,
         Loose(k, x), Belongs(k, x, q), k.prio[x] = SuspendedWaitPriority => k.susp[x] > 0,
         j = InsertThreadIntoQueueByPriority(k, q, x, p)
  PROVE  MemoryOK(j) /\ Unmoved(j, k)
<1>1. k \in OsMemory /\ ListsOK(k) /\ k.queue \in [Queues -> Seq(Threads)]
  BY DEF Loose, Moving, ListsOK, OsMemory
<1> DEFINE s  == k.queue[q]
           S  == {i \in DOMAIN s : k.prio[s[i]] > p} \cup {Len(s) + 1}
           at == Min(S)
           u  == InsertAt(s, at, x)
           pe == IF q \in Prios THEN k.pending \cup {q} ELSE k.pending
<1>2. s \in Seq(Threads) /\ IsInjective(s) /\ x \notin ToSet(s)
  BY <1>1 DEF ListsOK, Loose, In
<1>3. at \in 1 .. Len(s) + 1
  <2>1. Len(s) \in Nat /\ DOMAIN s = 1 .. Len(s)
    BY <1>2, LenProperties
  <2>2. S \in SUBSET Nat /\ S # {} /\ S \subseteq 1 .. Len(s) + 1
    BY <2>1
  <2> HIDE DEF S
  <2> QED
    BY <2>2, LeastElement
<1>4. u \in Seq(Threads) /\ ToSet(u) = ToSet(s) \cup {x} /\ IsInjective(u)
  <2> HIDE DEF at, s
  <2> QED
    BY <1>2, <1>3, ListWith
<1>5. j = [k EXCEPT !.qptr = [k.qptr EXCEPT ![x] = q],
                    !.queue = [k.queue EXCEPT ![q] = u],
                    !.pending = pe]
  <2>1. j = [k EXCEPT !.qptr[x] = q,
                      !.queue[q] = u,
                      !.pending = IF q \in Prios THEN @ \cup {q} ELSE @]
    BY DEF InsertThreadIntoQueueByPriority
  <2> HIDE DEF u
  <2> QED
    BY <1>1, <2>1 DEF OsMemory
<1> HIDE DEF u
<1>6. /\ [k.qptr EXCEPT ![x] = q] \in [Threads -> Queues \cup {NULL}]
      /\ [k.queue EXCEPT ![q] = u] \in [Queues -> Seq(Threads)]
      /\ pe \in SUBSET Prios
  BY <1>1, <1>4 DEF OsMemory
<1>7. /\ j.qptr = [k.qptr EXCEPT ![x] = q]
      /\ j.queue = [k.queue EXCEPT ![q] = u]
      /\ j.pending = pe
      /\ Unmoved(j, k)
  <2> HIDE DEF pe
  <2> QED
    BY <1>1, <1>5 DEF OsMemory, Unmoved
<1>8. j \in OsMemory
  <2> HIDE DEF pe
  <2> QED
    BY <1>1, <1>5, <1>6 DEF OsMemory
<1>9. MemoryOK(j)
  BY <1>4, <1>7, <1>8, Joins DEF Unmoved
<1> QED
  BY <1>7, <1>9

(* Linking a loose READY thread at the tail of its run queue.              *)
LEMMA LinkJoins ==
  ASSUME NEW k, NEW x \in Threads, NEW p \in Prios, NEW j,
         Loose(k, x), Belongs(k, x, p),
         j = MarkRunQueuePending(LinkThreadOnRunQueue(k, x, p), p)
  PROVE  /\ MemoryOK(j)
         /\ Asked(j)
         /\ Unmoved(j, [k EXCEPT !.resched = TRUE])
         /\ j.pending # {}
<1>1. k \in OsMemory /\ ListsOK(k) /\ k.queue \in [Queues -> Seq(Threads)] /\ p \in Queues
  BY DEF Loose, Moving, ListsOK, OsMemory, Queues
<1> DEFINE s == k.queue[p]
           u == Append(s, x)
<1>2. s \in Seq(Threads) /\ IsInjective(s) /\ x \notin ToSet(s)
  BY <1>1 DEF ListsOK, Loose, In
<1>3. u \in Seq(Threads) /\ ToSet(u) = ToSet(s) \cup {x} /\ IsInjective(u)
  <2> HIDE DEF s
  <2> QED
    BY <1>2, AppendedList
<1>4. j = [k EXCEPT !.qptr = [k.qptr EXCEPT ![x] = p],
                    !.queue = [k.queue EXCEPT ![p] = u],
                    !.pending = k.pending \cup {p},
                    !.resched = TRUE]
  <2>1. j = [[k EXCEPT !.queue[p] = u, !.qptr[x] = p] EXCEPT !.pending = @ \cup {p}, !.resched = TRUE]
    BY DEF MarkRunQueuePending, LinkThreadOnRunQueue
  <2> HIDE DEF u
  <2> QED
    BY <1>1, <2>1 DEF OsMemory
<1> HIDE DEF u
<1>5. /\ [k.qptr EXCEPT ![x] = p] \in [Threads -> Queues \cup {NULL}]
      /\ [k.queue EXCEPT ![p] = u] \in [Queues -> Seq(Threads)]
      /\ k.pending \cup {p} \in SUBSET Prios
  BY <1>1, <1>3 DEF OsMemory
<1>6. /\ j.qptr = [k.qptr EXCEPT ![x] = p]
      /\ j.queue = [k.queue EXCEPT ![p] = u]
      /\ j.pending = k.pending \cup {p}
      /\ Asked(j)
      /\ Unmoved(j, [k EXCEPT !.resched = TRUE])
  BY <1>1, <1>4 DEF OsMemory, Unmoved, Asked
<1>7. j.state = k.state /\ j.susp = k.susp /\ j.prio = k.prio /\ j.owner = k.owner /\ j.count = k.count
  BY <1>1, <1>4 DEF OsMemory
<1>8. j \in OsMemory
  BY <1>1, <1>4, <1>5 DEF OsMemory
<1>9. k.prio[x] # SuspendedWaitPriority
  BY Pointers DEF Belongs
<1>10. MemoryOK(j)
  BY <1>1, <1>3, <1>6, <1>7, <1>8, <1>9, Joins
<1> QED
  BY <1>6, <1>10

-----------------------------------------------------------------------------
(* Priorities.                                                             *)

(* What an operation leaves alone that does not start or stop a thread.    *)
Calm(j, k) ==
  /\ j.disable = k.disable /\ j.running = k.running /\ j.current = k.current
  /\ Asked(k) => Asked(j)
  /\ \A t \in Threads : j.state[t] = "RUNNING" <=> k.state[t] = "RUNNING"

(* The effective priority of a thread is a priority of a run queue.        *)
LEMMA EffectivePriority ==
  ASSUME NEW k \in OsMemory, NEW t \in Threads
  PROVE  ComputeThreadEffectivePriority(k, t) \in Prios
<1> DEFINE M == {n \in ToSet(k.held[t]) : k.queue[n] # << >>}
           S == {k.base[t]} \cup {k.prio[Head(k.queue[m])] : m \in M}
<1>1. k.base[t] \in Prios /\ k.base[t] \in S /\ k.held[t] \in Seq(Mutexes)
  BY DEF OsMemory
<1>2. ToSet(k.held[t]) \subseteq Mutexes
  BY <1>1, LenProperties, ElementOfSeq DEF ToSet
<1>3. ASSUME NEW m \in M PROVE k.prio[Head(k.queue[m])] \in Nat
  <2>1. m \in Queues /\ k.queue[m] # << >>
    BY <1>2 DEF Queues, Waitables
  <2>2. k.queue[m] \in Seq(Threads)
    BY <2>1 DEF OsMemory
  <2>3. Head(k.queue[m]) \in Threads
    BY <2>1, <2>2, PoppedList
  <2>4. k.prio[Head(k.queue[m])] \in Prios \cup {SuspendedWaitPriority}
    BY <2>3 DEF OsMemory
  <2> QED
    BY <2>4, Pointers
<1>4. S \in SUBSET Nat /\ S # {}
  BY <1>1, <1>3, Pointers
<1>5. Min(S) \in Nat /\ Min(S) <= k.base[t]
  <2> HIDE DEF S
  <2> QED
    BY <1>1, <1>4, LeastElement
<1>6. Min(S) \in Prios
  BY <1>1, <1>5, OsConstants DEF Prios
<1> QED
  BY <1>6 DEF ComputeThreadEffectivePriority

(* Queueing a loose thread that is not suspended.                          *)
LEMMA RequeueOK ==
  ASSUME NEW k, NEW x \in Threads, NEW p \in Prios, Loose(k, x), k.susp[x] = 0,
         NEW j, j = Requeue(k, x, p)
  PROVE  /\ MemoryOK(j)
         /\ Asked(j) /\ j.state = [k.state EXCEPT ![x] = "READY"]
         /\ j.disable = k.disable /\ j.running = k.running /\ j.current = k.current
<1> DEFINE r == [k EXCEPT !.state = [k.state EXCEPT ![x] = "READY"],
                          !.prio = [k.prio EXCEPT ![x] = p],
                          !.resched = TRUE]
<1>1. k \in OsMemory /\ ListsOK(k)
  BY DEF Loose, Moving, ListsOK
<1>2. [k EXCEPT !.state[x] = "READY", !.prio[x] = p, !.resched = TRUE] = r
  BY <1>1 DEF OsMemory
<1>3. /\ [k.state EXCEPT ![x] = "READY"] \in [Threads -> ThreadStates]
      /\ [k.prio EXCEPT ![x] = p] \in [Threads -> Prios \cup {SuspendedWaitPriority}]
  BY <1>1 DEF OsMemory, ThreadStates
<1>4. /\ r.state = [k.state EXCEPT ![x] = "READY"] /\ r.prio = [k.prio EXCEPT ![x] = p]
      /\ Asked(r) /\ r.susp = k.susp
      /\ r.queue = k.queue /\ r.pending = k.pending /\ r.qptr = k.qptr
      /\ r.owner = k.owner /\ r.count = k.count
      /\ r.disable = k.disable /\ r.running = k.running /\ r.current = k.current
  BY <1>1 DEF OsMemory, Asked
<1>5. r \in OsMemory
  BY <1>1, <1>3 DEF OsMemory
<1>6. j = InsertThreadIntoQueueByPriority(r, p, x, p)
  BY <1>2 DEF Requeue
<1> HIDE DEF r
<1>7. /\ r.state[x] = "READY" /\ r.prio[x] = p
      /\ \A t \in Threads \ {x} : r.state[t] = k.state[t] /\ r.susp[t] = k.susp[t] /\ r.prio[t] = k.prio[t]
  BY <1>1, <1>4 DEF OsMemory
<1>8. Loose(r, x)
  <2>1. \A m \in Mutexes : r.owner[m] = NULL <=> r.count[m] = 0
    BY <1>1, <1>4 DEF ListsOK
  <2>2. OnlyChanges(r, k, x)
    BY <1>4, <1>5, <1>7, <2>1 DEF OnlyChanges
  <2> QED
    BY <2>2, MovingChanges
<1>9. Belongs(r, x, p) /\ p \in Queues /\ r.prio[x] # SuspendedWaitPriority
  BY <1>4, <1>7, Pointers DEF Belongs, Queues
<1>10. MemoryOK(j) /\ Unmoved(j, r)
  BY <1>6, <1>8, <1>9, InsertJoins
<1> QED
  BY <1>4, <1>10 DEF Unmoved, Asked

(* Repositioning a waiting thread.                                         *)
LEMMA RepositionOK ==
  ASSUME NEW k, NEW x \in Threads, NEW p \in Prios \cup {SuspendedWaitPriority},
         Moving(k, x), k.state[x] = "WAITING", k.qptr[x] \in Waitables,
         p = SuspendedWaitPriority => k.susp[x] > 0,
         NEW j, j = Reposition(k, x, p)
  PROVE  MemoryOK(j) /\ j.state = k.state /\ Calm(j, k)
<1> DEFINE q == k.qptr[x]
           o == RemoveThreadFromQueue(k, x)
           r == [o EXCEPT !.prio = [o.prio EXCEPT ![x] = p]]
<1>1. q \in Queues /\ q # NULL /\ q \notin Prios
  BY Pointers DEF Queues
<1>2. Loose(o, x) /\ Unmoved(o, k)
  BY RemoveLoosens
<1> HIDE DEF o
<1>3. o \in OsMemory /\ ListsOK(o)
  BY <1>2 DEF Loose, Moving, ListsOK
<1>4. [o EXCEPT !.prio[x] = p] = r
  BY <1>3 DEF OsMemory
<1>5. [o.prio EXCEPT ![x] = p] \in [Threads -> Prios \cup {SuspendedWaitPriority}]
  BY <1>3 DEF OsMemory
<1>6. /\ r.prio = [o.prio EXCEPT ![x] = p]
      /\ r.state = k.state /\ r.susp = k.susp /\ r.resched = k.resched
      /\ r.queue = o.queue /\ r.pending = o.pending /\ r.qptr = o.qptr
      /\ r.owner = o.owner /\ r.count = o.count
      /\ r.disable = k.disable /\ r.running = k.running /\ r.current = k.current
      /\ o.state = k.state /\ o.susp = k.susp
  BY <1>2, <1>3 DEF OsMemory, Unmoved
<1>7. r \in OsMemory
  BY <1>3, <1>5 DEF OsMemory
<1>8. j = InsertThreadIntoQueueByPriority(r, q, x, p)
  BY <1>1, <1>4 DEF Reposition, o
<1> HIDE DEF r
<1>9. /\ r.prio[x] = p
      /\ \A t \in Threads \ {x} : r.state[t] = o.state[t] /\ r.susp[t] = o.susp[t] /\ r.prio[t] = o.prio[t]
  BY <1>3, <1>6 DEF OsMemory
<1>10. Loose(r, x)
  <2>1. \A m \in Mutexes : r.owner[m] = NULL <=> r.count[m] = 0
    BY <1>3, <1>6 DEF ListsOK
  <2>2. OnlyChanges(r, o, x)
    BY <1>6, <1>7, <1>9, <2>1 DEF OnlyChanges
  <2> QED
    BY <1>2, <2>2, MovingChanges
<1>11. Belongs(r, x, q) /\ (r.prio[x] = SuspendedWaitPriority => r.susp[x] > 0)
  BY <1>1, <1>6, <1>9 DEF Belongs
<1>12. MemoryOK(j) /\ Unmoved(j, r)
  BY <1>1, <1>8, <1>10, <1>11, InsertJoins
<1> QED
  BY <1>6, <1>12 DEF Unmoved, Calm, Asked

(* A waiting thread points to a wait queue.                                *)
LEMMA WaitersPoint ==
  ASSUME NEW k, NEW t \in Threads, MemoryOK(k), k.state[t] = "WAITING"
  PROVE  k.qptr[t] \in Waitables /\ In(k, t, k.qptr[t])
BY DEF MemoryOK, ThreadOK, Linked, Queues

LEMMA SetPriorityOK ==
  ASSUME NEW k, NEW x \in Threads, NEW p \in Prios, MemoryOK(k), k.susp[x] = 0,
         NEW j, j = SetThreadEffectivePriority(k, x, p)
  PROVE  MemoryOK(j) /\ Calm(j, k)
<1>1. k \in OsMemory /\ ListsOK(k) /\ Moving(k, x)
  BY StartsToMove DEF MemoryOK, ListsOK
<1>2. CASE k.state[x] = "READY"
  <2> DEFINE o == RemoveThreadFromQueue(k, x)
  <2>1. Loose(o, x) /\ Unmoved(o, k)
    BY <1>1, RemoveLoosens
  <2>2. j = Requeue(o, x, p)
    BY <1>2 DEF SetThreadEffectivePriority
  <2> HIDE DEF o
  <2>3. o.susp[x] = 0 /\ o.state = k.state
    BY <2>1 DEF Unmoved
  <2>4. /\ MemoryOK(j)
        /\ Asked(j) /\ j.state = [o.state EXCEPT ![x] = "READY"]
        /\ j.disable = o.disable /\ j.running = o.running /\ j.current = o.current
    <3>1. Loose(o, x) /\ o.susp[x] = 0
      BY <2>1, <2>3
    <3>2. MemoryOK(j)
      BY <2>2, <3>1, RequeueOK
    <3>3. Asked(j)
      BY <2>2, <3>1, RequeueOK
    <3>4. j.state = [o.state EXCEPT ![x] = "READY"]
      BY <2>2, <3>1, RequeueOK
    <3> QED
      BY <2>2, <3>1, <3>2, <3>3, <3>4, RequeueOK
  <2>5. j.state = [k.state EXCEPT ![x] = "READY"] /\ k.state \in [Threads -> ThreadStates]
    BY <2>3, <2>4, <1>1 DEF OsMemory
  <2> QED
    BY <1>2, <2>1, <2>4, <2>5 DEF Calm, Unmoved, Asked
<1>3. CASE k.state[x] = "RUNNING"
  <2> DEFINE r == [k EXCEPT !.prio = [k.prio EXCEPT ![x] = p], !.resched = TRUE]
  <2>1. j = r
    BY <1>1, <1>3 DEF SetThreadEffectivePriority, OsMemory
  <2>2. [k.prio EXCEPT ![x] = p] \in [Threads -> Prios \cup {SuspendedWaitPriority}]
    BY <1>1 DEF OsMemory
  <2>3. /\ j.prio = [k.prio EXCEPT ![x] = p] /\ j.state = k.state /\ j.susp = k.susp
        /\ Asked(j)
        /\ j.queue = k.queue /\ j.pending = k.pending /\ j.qptr = k.qptr
        /\ j.owner = k.owner /\ j.count = k.count
        /\ j.disable = k.disable /\ j.running = k.running /\ j.current = k.current
    BY <1>1, <2>1 DEF OsMemory, Asked
  <2>4. j \in OsMemory
    BY <1>1, <2>1, <2>2 DEF OsMemory
  <2> HIDE DEF r
  <2>5. /\ j.prio[x] = p
        /\ \A t \in Threads \ {x} : j.state[t] = k.state[t] /\ j.susp[t] = k.susp[t] /\ j.prio[t] = k.prio[t]
    BY <1>1, <2>3 DEF OsMemory
  <2>6. Loose(k, x)
    BY <1>3, StartsToMove DEF Linked
  <2>7. Loose(j, x)
    <3>1. \A m \in Mutexes : j.owner[m] = NULL <=> j.count[m] = 0
      BY <1>1, <2>3 DEF ListsOK
    <3>2. OnlyChanges(j, k, x)
      BY <2>3, <2>4, <2>5, <3>1 DEF OnlyChanges
    <3> QED
      BY <2>6, <3>2, MovingChanges
  <2>8. MemoryOK(j)
    <3>1. j.state[x] = "RUNNING" /\ j.susp[x] = 0 /\ j.prio[x] # SuspendedWaitPriority
      BY <1>3, <2>3, <2>5, Pointers
    <3> QED
      BY <2>7, <3>1, StaysLoose DEF Linked
  <2> QED
    BY <2>3, <2>8 DEF Calm, Asked
<1>4. CASE k.state[x] = "WAITING"
  <2>1. k.qptr[x] \in Waitables
    BY <1>4, WaitersPoint
  <2>2. j = Reposition(k, x, p)
    BY <1>4 DEF SetThreadEffectivePriority
  <2>3. p # SuspendedWaitPriority
    BY Pointers
  <2> QED
    BY <1>1, <1>4, <2>1, <2>2, <2>3, RepositionOK
<1>5. CASE k.state[x] \notin {"READY", "RUNNING", "WAITING"}
  BY <1>5 DEF SetThreadEffectivePriority, Calm
<1> QED
  BY <1>2, <1>3, <1>4, <1>5

-----------------------------------------------------------------------------
(* Suspension and wake-up.                                                 *)

(* Raising a suspend count, as a first step.                               *)
LEMMA RaisedCount ==
  ASSUME NEW k, NEW x \in Threads, MemoryOK(k), NEW s, s = [k EXCEPT !.susp[x] = @ + 1]
  PROVE  /\ s \in OsMemory /\ Moving(s, x)
         /\ Loose(k, x) => Loose(s, x)
         /\ s.susp = [k.susp EXCEPT ![x] = k.susp[x] + 1] /\ s.susp[x] > 0
         /\ s.state = k.state /\ s.prio = k.prio /\ s.qptr = k.qptr /\ s.queue = k.queue
         /\ Calm(s, k)
<1>1. k \in OsMemory /\ ListsOK(k) /\ Moving(k, x)
  BY StartsToMove DEF MemoryOK, ListsOK
<1>2. k.susp \in [Threads -> Nat] /\ [k.susp EXCEPT ![x] = k.susp[x] + 1] \in [Threads -> Nat]
  BY <1>1 DEF OsMemory
<1>3. s = [k EXCEPT !.susp = [k.susp EXCEPT ![x] = k.susp[x] + 1]]
  BY <1>1 DEF OsMemory
<1>4. s \in OsMemory
  BY <1>1, <1>2, <1>3 DEF OsMemory
<1>5. /\ s.susp = [k.susp EXCEPT ![x] = k.susp[x] + 1]
      /\ s.state = k.state /\ s.prio = k.prio /\ s.resched = k.resched
      /\ s.queue = k.queue /\ s.pending = k.pending /\ s.qptr = k.qptr
      /\ s.owner = k.owner /\ s.count = k.count
      /\ s.disable = k.disable /\ s.running = k.running /\ s.current = k.current
  BY <1>1, <1>3 DEF OsMemory
<1>6. s.susp[x] > 0 /\ \A t \in Threads \ {x} : s.susp[t] = k.susp[t]
  BY <1>2, <1>5
<1>7. \A m \in Mutexes : s.owner[m] = NULL <=> s.count[m] = 0
  BY <1>1, <1>5 DEF ListsOK
<1>8. Moving(s, x) /\ (Loose(k, x) => Loose(s, x))
  <2>1. OnlyChanges(s, k, x)
    BY <1>4, <1>5, <1>6, <1>7 DEF OnlyChanges
  <2> QED
    BY <1>1, <2>1, MovingChanges
<1> QED
  BY <1>4, <1>5, <1>6, <1>8 DEF Calm, Asked

(* OSSuspendThread keeps the memory consistent; it stops the thread if it  *)
(* was running, and then asks for a reschedule.                            *)
LEMMA SuspendOK ==
  ASSUME NEW k, NEW x \in Threads, MemoryOK(k), NEW j, j = Suspend(k, x)
  PROVE  /\ MemoryOK(j)
         /\ k.state[x] # "RUNNING" => Calm(j, k)
         /\ k.state[x] = "RUNNING" =>
              /\ j.state = [k.state EXCEPT ![x] = "READY"]
              /\ Asked(j)
              /\ j.disable = k.disable /\ j.running = k.running /\ j.current = k.current
<1> DEFINE s == [k EXCEPT !.susp[x] = @ + 1]
<1>1. k \in OsMemory /\ ListsOK(k) /\ Moving(k, x) /\ ThreadOK(k, x)
  BY StartsToMove DEF MemoryOK, ListsOK
<1>2. /\ s \in OsMemory /\ Moving(s, x)
      /\ Loose(k, x) => Loose(s, x)
      /\ s.susp = [k.susp EXCEPT ![x] = k.susp[x] + 1] /\ s.susp[x] > 0
      /\ s.state = k.state /\ s.prio = k.prio /\ s.qptr = k.qptr /\ s.queue = k.queue
      /\ Calm(s, k)
  BY RaisedCount
<1>3. k.state[x] \in ThreadStates /\ k.susp[x] \in Nat
  BY <1>1 DEF OsMemory
<1> HIDE DEF s
<1>4. CASE k.susp[x] # 0
  <2>1. j = s
    BY <1>4 DEF Suspend, s
  <2>2. k.state[x] # "RUNNING"
    BY <1>1, <1>4 DEF ThreadOK
  <2>3. CASE k.state[x] = "WAITING"
    <3>1. ThreadOK(k, x) /\ \A q \in Queues : In(s, x, q) <=> In(k, x, q)
      BY <1>1, <1>2 DEF In
    <3>2. ThreadOK(s, x)
      BY <2>3, <3>1, <1>2, <1>4, Pointers DEF ThreadOK, Linked, Queues
    <3>3. MemoryOK(s)
      BY <1>2, <3>2 DEF Moving, MemoryOK
    <3> QED
      BY <1>2, <2>1, <2>2, <3>3
  <2>4. CASE k.state[x] # "WAITING"
    <3>1. Loose(s, x)
      BY <1>2, <1>4, <2>4, StartsToMove DEF Linked
    <3>2. ~Linked(s, x) /\ s.state[x] # "RUNNING" /\ (s.state[x] = "MORIBUND" => Mortal)
      BY <1>1, <1>2, <2>2, <2>4 DEF Linked, ThreadOK
    <3>3. MemoryOK(s)
      BY <1>2, <3>1, <3>2, StaysLoose
    <3> QED
      BY <1>2, <2>1, <2>2, <3>3
  <2> QED
    BY <2>3, <2>4
<1>5. CASE k.susp[x] = 0 /\ k.state[x] = "READY"
  <2>1. j = RemoveThreadFromQueue(s, x)
    BY <1>5 DEF Suspend, s
  <2>2. Loose(j, x) /\ Unmoved(j, s)
    BY <1>2, <2>1, RemoveLoosens
  <2>3. MemoryOK(j)
    <3>1. j.state[x] = "READY" /\ j.susp[x] > 0
      BY <1>2, <1>5, <2>2 DEF Unmoved
    <3> QED
      BY <2>2, <3>1, StaysLoose DEF Linked
  <2> QED
    BY <1>2, <1>5, <2>2, <2>3 DEF Calm, Unmoved, Asked
<1>6. CASE k.susp[x] = 0 /\ k.state[x] = "RUNNING"
  <2> DEFINE r == [s EXCEPT !.state = [s.state EXCEPT ![x] = "READY"], !.resched = TRUE]
  <2>1. j = r
    BY <1>2, <1>6 DEF Suspend, s, OsMemory
  <2>2. [s.state EXCEPT ![x] = "READY"] \in [Threads -> ThreadStates]
    BY <1>2 DEF OsMemory, ThreadStates
  <2>3. /\ j.state = [k.state EXCEPT ![x] = "READY"] /\ Asked(j)
        /\ j.susp = s.susp /\ j.prio = s.prio
        /\ j.queue = s.queue /\ j.pending = s.pending /\ j.qptr = s.qptr
        /\ j.owner = s.owner /\ j.count = s.count
        /\ j.disable = s.disable /\ j.running = s.running /\ j.current = s.current
    BY <1>2, <2>1 DEF OsMemory, Asked
  <2>4. j \in OsMemory
    BY <1>2, <2>1, <2>2 DEF OsMemory
  <2> HIDE DEF r
  <2>5. /\ j.state[x] = "READY"
        /\ \A t \in Threads \ {x} : j.state[t] = s.state[t] /\ j.susp[t] = s.susp[t] /\ j.prio[t] = s.prio[t]
    BY <1>1, <1>2, <2>3 DEF OsMemory
  <2>6. Loose(s, x)
    BY <1>2, <1>6, StartsToMove DEF Linked
  <2>7. Loose(j, x)
    <3>1. \A m \in Mutexes : j.owner[m] = NULL <=> j.count[m] = 0
      BY <1>2, <2>3 DEF Moving, ListsOK
    <3>2. OnlyChanges(j, s, x)
      BY <2>3, <2>4, <2>5, <3>1 DEF OnlyChanges
    <3> QED
      BY <2>6, <3>2, MovingChanges
  <2>8. MemoryOK(j)
    <3>1. j.state[x] = "READY" /\ j.susp[x] > 0
      BY <1>2, <2>3, <2>5
    <3> QED
      BY <2>7, <3>1, StaysLoose DEF Linked
  <2> QED
    BY <1>2, <1>6, <2>3, <2>8 DEF Calm, Asked
<1>7. CASE k.susp[x] = 0 /\ k.state[x] = "WAITING"
  <2>1. j = Reposition(s, x, SuspendedWaitPriority)
    BY <1>7 DEF Suspend, s
  <2>2. s.qptr[x] \in Waitables
    BY <1>2, <1>7, WaitersPoint
  <2>3. MemoryOK(j) /\ j.state = s.state /\ Calm(j, s)
    BY <1>2, <1>7, <2>1, <2>2, RepositionOK
  <2> QED
    BY <1>2, <1>7, <2>3 DEF Calm, Asked
<1>8. CASE k.susp[x] = 0 /\ k.state[x] \notin {"READY", "RUNNING", "WAITING"}
  <2>1. j = s
    BY <1>8 DEF Suspend, s
  <2>2. Loose(s, x)
    BY <1>2, <1>8, StartsToMove DEF Linked
  <2>3. MemoryOK(s)
    BY <1>1, <1>2, <1>8, <2>2, StaysLoose DEF Linked, ThreadOK, Ended
  <2> QED
    BY <1>2, <1>8, <2>1, <2>3
<1> QED
  BY <1>4, <1>5, <1>6, <1>7, <1>8

(* OSResumeThread keeps the memory consistent and stops no thread.         *)
LEMMA ResumeOK ==
  ASSUME NEW k, NEW x \in Threads, MemoryOK(k), k.state[x] # "NONE",
         NEW j, j = Resume(k, x)
  PROVE  MemoryOK(j) /\ Calm(j, k)
<1> DEFINE r == [k EXCEPT !.susp = [k.susp EXCEPT ![x] = k.susp[x] - 1]]
           c == [r EXCEPT !.timers = r.timers \ {x}, !.parks = r.parks \ {x}]
           p == ComputeThreadEffectivePriority(c, x)
<1>1. /\ k \in OsMemory /\ ListsOK(k) /\ Moving(k, x) /\ ThreadOK(k, x)
      /\ k.susp[x] \in Nat /\ k.state[x] \in {"READY", "RUNNING", "WAITING", "MORIBUND"}
      /\ k.state[x] = "MORIBUND" => Mortal
  <2>1. k \in OsMemory /\ ListsOK(k) /\ Moving(k, x) /\ ThreadOK(k, x)
    BY StartsToMove DEF MemoryOK, ListsOK
  <2>2. k.susp[x] \in Nat /\ k.state[x] \in ThreadStates
    BY <2>1 DEF OsMemory
  <2> QED
    BY <2>1, <2>2 DEF ThreadOK, ThreadStates
<1>2. CASE k.susp[x] = 0
  BY <1>2 DEF Resume, Calm, Asked
<1>3. CASE k.susp[x] > 0
  <2>1. [k.susp EXCEPT ![x] = k.susp[x] - 1] \in [Threads -> Nat]
    BY <1>1, <1>3 DEF OsMemory
  <2>2. r = [k EXCEPT !.susp[x] = @ - 1]
    BY <1>1 DEF OsMemory
  <2>3. /\ r.susp = [k.susp EXCEPT ![x] = k.susp[x] - 1]
        /\ r.state = k.state /\ r.prio = k.prio /\ r.resched = k.resched
        /\ r.queue = k.queue /\ r.pending = k.pending /\ r.qptr = k.qptr
        /\ r.owner = k.owner /\ r.count = k.count
        /\ r.disable = k.disable /\ r.running = k.running /\ r.current = k.current
    BY <1>1 DEF OsMemory
  <2>4. r \in OsMemory
    BY <1>1, <2>1 DEF OsMemory
  <2> HIDE DEF r
  <2>5. c = [r EXCEPT !.timers = @ \ {x}, !.parks = @ \ {x}]
    BY <2>4 DEF OsMemory
  <2>6. c \in OsMemory
    BY <2>4 DEF OsMemory
  <2>7. /\ c.susp = r.susp
        /\ c.state = r.state /\ c.prio = r.prio /\ c.resched = r.resched
        /\ c.queue = r.queue /\ c.pending = r.pending /\ c.qptr = r.qptr
        /\ c.owner = r.owner /\ c.count = r.count
        /\ c.disable = r.disable /\ c.running = r.running /\ c.current = r.current
    BY <2>4 DEF OsMemory
  <2> HIDE DEF c
  <2>8. /\ r.susp[x] = k.susp[x] - 1
        /\ \A t \in Threads \ {x} : r.susp[t] = k.susp[t]
    BY <1>1, <2>3 DEF OsMemory
  <2>9. \A m \in Mutexes : k.owner[m] = NULL <=> k.count[m] = 0
    BY <1>1 DEF ListsOK
  <2>10. OnlyChanges(r, k, x) /\ OnlyChanges(c, k, x)
    BY <2>3, <2>4, <2>6, <2>7, <2>8, <2>9 DEF OnlyChanges
  <2>11. Calm(r, k) /\ Calm(c, k)
    BY <2>3, <2>7 DEF Calm, Asked
  <2>12. Moving(r, x) /\ Moving(c, x)
    BY <1>1, <2>10, MovingChanges
  <2>13. k.state[x] # "RUNNING"
    BY <1>1, <1>3 DEF ThreadOK
  <2>14. p \in Prios
    BY <2>6, EffectivePriority
  <2>15. ASSUME k.state[x] = "MORIBUND"
         PROVE  MemoryOK(r) /\ MemoryOK(c)
    <3>1. Loose(r, x) /\ Loose(c, x)
      BY <2>10, <2>15, MovingChanges, StartsToMove DEF Linked
    <3>2. /\ r.state[x] = "MORIBUND" /\ c.state[x] = "MORIBUND"
          /\ Ended(r, x) /\ Ended(c, x) /\ Mortal
      BY <1>1, <2>3, <2>7, <2>15 DEF Ended, ThreadStateIsTerminated
    <3>3. ~Linked(r, x) /\ ~Linked(c, x)
      BY <3>2 DEF Linked
    <3> QED
      BY <3>1, <3>2, <3>3, StaysLoose
  <2>16. CASE k.susp[x] > 1
    <3>1. j = r
      BY <1>1, <2>2, <2>16 DEF Resume
    <3>2. CASE k.state[x] = "WAITING"
      <4>1. \A q \in Queues : In(r, x, q) <=> In(k, x, q)
        BY <2>3 DEF In
      <4>2. ThreadOK(r, x)
        <5>1. r.state[x] = "WAITING" /\ r.susp[x] > 0 /\ r.qptr[x] = k.qptr[x]
          BY <1>1, <2>3, <2>8, <2>16, <3>2
        <5>2. \A q \in Queues : In(r, x, q) => q = r.qptr[x] /\ q \notin Prios
          BY <1>1, <3>2, <4>1, <5>1 DEF ThreadOK
        <5>3. r.qptr[x] \in Queues /\ In(r, x, r.qptr[x])
          BY <1>1, <3>2, <4>1, <5>1 DEF ThreadOK, Linked
        <5> QED
          BY <5>1, <5>2, <5>3 DEF ThreadOK
      <4>3. MemoryOK(r)
        BY <2>12, <4>2 DEF Moving, MemoryOK
      <4> QED
        BY <2>11, <3>1, <4>3
    <3>3. CASE k.state[x] = "READY"
      <4>1. Loose(k, x)
        BY <1>3, <3>3, StartsToMove DEF Linked
      <4>2. Loose(r, x)
        BY <2>10, <4>1, MovingChanges
      <4>3. r.state[x] = "READY" /\ r.susp[x] > 0
        BY <1>1, <2>3, <2>8, <2>16, <3>3
      <4>4. MemoryOK(r)
        BY <4>2, <4>3, StaysLoose DEF Linked
      <4> QED
        BY <2>11, <3>1, <4>4
    <3>4. CASE k.state[x] = "MORIBUND"
      BY <2>11, <2>15, <3>1, <3>4
    <3> QED
      BY <1>1, <2>13, <3>2, <3>3, <3>4
  <2>17. CASE k.susp[x] = 1 /\ k.state[x] = "WAITING"
    <3>1. j = Reposition(c, x, p)
      BY <1>1, <2>2, <2>5, <2>17 DEF Resume
    <3>2. c.state[x] = "WAITING" /\ c.qptr[x] \in Waitables
      BY <2>3, <2>7, <2>17, WaitersPoint
    <3>3. p # SuspendedWaitPriority
      BY <2>14, Pointers
    <3> HIDE DEF p
    <3>4. MemoryOK(j) /\ j.state = c.state /\ Calm(j, c)
      BY <2>12, <2>14, <3>1, <3>2, <3>3, RepositionOK
    <3> QED
      BY <2>11, <3>4 DEF Calm
  <2>18. CASE k.susp[x] = 1 /\ k.state[x] = "READY"
    <3>1. j = Requeue(c, x, p)
      BY <1>1, <2>2, <2>5, <2>18 DEF Resume
    <3>2. Loose(c, x)
      <4>1. Loose(k, x)
        BY <2>18, StartsToMove DEF Linked
      <4> QED
        BY <2>10, <4>1, MovingChanges
    <3>3. c.susp[x] = 0
      BY <2>7, <2>8, <2>18
    <3> HIDE DEF p
    <3>4. /\ MemoryOK(j)
          /\ Asked(j) /\ j.state = [c.state EXCEPT ![x] = "READY"]
          /\ j.disable = c.disable /\ j.running = c.running /\ j.current = c.current
      BY <2>14, <3>1, <3>2, <3>3, RequeueOK
    <3>5. Calm(j, k)
      <4>1. k.state \in [Threads -> ThreadStates]
        BY <1>1 DEF OsMemory
      <4> QED
        BY <2>3, <2>7, <2>18, <3>4, <4>1 DEF Calm
    <3> QED
      BY <3>4, <3>5
  <2>19. CASE k.susp[x] = 1 /\ k.state[x] = "MORIBUND"
    <3>1. j = c
      BY <1>1, <2>2, <2>5, <2>19 DEF Resume
    <3> QED
      BY <2>11, <2>15, <2>19, <3>1
  <2> QED
    BY <1>1, <1>3, <2>13, <2>16, <2>17, <2>18, <2>19
<1> QED
  BY <1>1, <1>2, <1>3

(* One turn of WakeupThreadQueue keeps the memory consistent.              *)
LEMMA WakeHeadOK ==
  ASSUME NEW k, NEW q \in Waitables, MemoryOK(k), k.queue[q] # << >>,
         NEW j, j = WakeHead(k, q)
  PROVE  MemoryOK(j) /\ Calm(j, k)
<1> DEFINE s == k.queue[q]
           x == Head(s)
           popped == [k EXCEPT !.queue = [k.queue EXCEPT ![q] = Tail(s)]]
           ready == [popped EXCEPT !.state = [popped.state EXCEPT ![x] = "READY"]]
           p == IF k.prio[x] > MaxPrio THEN MaxPrio ELSE k.prio[x]
<1>1. k \in OsMemory /\ ListsOK(k) /\ q \in Queues /\ q \notin Prios
  BY Pointers DEF MemoryOK, ListsOK, Queues
<1>2. s \in Seq(Threads) /\ IsInjective(s) /\ s # << >> /\ k.queue \in [Queues -> Seq(Threads)]
  BY <1>1 DEF ListsOK, OsMemory
<1>3. /\ x \in Threads /\ x \in ToSet(s) /\ Tail(s) \in Seq(Threads)
      /\ IsInjective(Tail(s)) /\ ToSet(Tail(s)) = ToSet(s) \ {x}
  BY <1>2, PoppedList
<1>4. In(k, x, q) /\ ThreadOK(k, x) /\ k.state[x] = "WAITING" /\ k.susp[x] \in Nat
  BY <1>1, <1>3 DEF MemoryOK, ThreadOK, In, OsMemory
<1>5. \A p1 \in Queues : In(k, x, p1) => p1 = q
  BY <1>1, <1>4 DEF ThreadOK
<1>6. [k EXCEPT !.queue[q] = Tail(@)] = popped
  BY <1>1 DEF OsMemory
<1>7. popped \in OsMemory
  <2>1. [k.queue EXCEPT ![q] = Tail(s)] \in [Queues -> Seq(Threads)]
    BY <1>2, <1>3
  <2> QED
    BY <1>1, <2>1 DEF OsMemory
<1>8. /\ popped.queue = [k.queue EXCEPT ![q] = Tail(s)]
      /\ popped.state = k.state /\ popped.susp = k.susp /\ popped.prio = k.prio
      /\ popped.pending = k.pending /\ popped.qptr = k.qptr
      /\ popped.owner = k.owner /\ popped.count = k.count /\ popped.resched = k.resched
      /\ popped.disable = k.disable /\ popped.running = k.running /\ popped.current = k.current
  BY <1>1 DEF OsMemory
<1> HIDE DEF popped
<1>9. [popped EXCEPT !.state[x] = "READY"] = ready
  BY <1>7 DEF OsMemory
<1>10. ready \in OsMemory
  <2>1. [popped.state EXCEPT ![x] = "READY"] \in [Threads -> ThreadStates]
    BY <1>7 DEF OsMemory, ThreadStates
  <2> QED
    BY <1>7, <2>1 DEF OsMemory
<1>11. /\ ready.state = [k.state EXCEPT ![x] = "READY"]
       /\ ready.queue = popped.queue /\ ready.susp = k.susp /\ ready.prio = k.prio
       /\ ready.pending = k.pending /\ ready.qptr = k.qptr
       /\ ready.owner = k.owner /\ ready.count = k.count /\ ready.resched = k.resched
       /\ ready.disable = k.disable /\ ready.running = k.running /\ ready.current = k.current
  BY <1>7, <1>8 DEF OsMemory
<1> HIDE DEF ready
<1>12. j = IF k.susp[x] < 1 THEN MarkRunQueuePending(LinkThreadOnRunQueue(ready, x, p), p) ELSE ready
  <2>1. ~ThreadStateIsTerminated(k.state[x])
    BY <1>4 DEF ThreadStateIsTerminated
  <2> QED
    <3> DEFINE pop == [k EXCEPT !.queue[q] = Tail(@)]
               rdy == [pop EXCEPT !.state[x] = "READY"]
    <3>1. WakeHead(k, q) =
            IF ThreadStateIsTerminated(k.state[x]) THEN [pop EXCEPT !.qptr[x] = NULL]
            ELSE IF k.susp[x] < 1
                 THEN MarkRunQueuePending(LinkThreadOnRunQueue(rdy, x, p), p)
                 ELSE rdy
      BY Zenon DEF WakeHead
    <3>2. rdy = ready
      BY <1>6, <1>9
    <3> HIDE DEF pop, rdy, x, p
    <3> QED
      BY <2>1, <3>1, <3>2
<1> HIDE DEF x
<1>13. \A t, q1 : q1 \in Queues => (In(popped, t, q1) <=> In(k, t, q1) /\ ~(q1 = q /\ t = x))
  BY <1>1, <1>2, <1>3, <1>8 DEF In
<1>14. ListsOK(popped)
  <2>1. \A q1 \in Queues : IsInjective(popped.queue[q1])
    BY <1>1, <1>2, <1>3, <1>8 DEF ListsOK
  <2>2. \A p1 \in Prios : p1 \in popped.pending <=> popped.queue[p1] # << >>
    BY <1>1, <1>2, <1>8 DEF ListsOK, Queues
  <2> QED
    BY <1>1, <1>7, <1>8, <2>1, <2>2 DEF ListsOK
<1>15. Loose(popped, x)
  <2>1. \A t \in Threads \ {x} : ThreadOK(popped, t)
    <3> SUFFICES ASSUME NEW t \in Threads \ {x} PROVE ThreadOK(popped, t)
      OBVIOUS
    <3>1. ThreadOK(k, t) /\ \A q1 \in Queues : In(popped, t, q1) <=> In(k, t, q1)
      BY <1>13 DEF MemoryOK
    <3> QED
      BY <1>8, <3>1, SameThread
  <2>2. \A q1 \in Queues : ~In(popped, x, q1)
    BY <1>5, <1>13
  <2> QED
    BY <1>14, <2>1, <2>2 DEF Loose, Moving
<1>16. /\ ready.state[x] = "READY"
       /\ \A t \in Threads \ {x} : ready.state[t] = k.state[t]
  BY <1>1, <1>3, <1>11 DEF OsMemory
<1>17. Loose(ready, x)
  <2>1. \A m \in Mutexes : ready.owner[m] = NULL <=> ready.count[m] = 0
    BY <1>1, <1>11 DEF ListsOK
  <2>2. OnlyChanges(ready, popped, x)
    BY <1>8, <1>10, <1>11, <1>16, <2>1 DEF OnlyChanges
  <2> QED
    BY <1>3, <1>15, <2>2, MovingChanges
<1>18. Calm(ready, k)
  BY <1>4, <1>11, <1>16 DEF Calm, Asked
<1>19. CASE k.susp[x] < 1
  <2>1. p = k.prio[x] /\ p \in Prios
    <3>1. k.prio[x] \in Prios \cup {SuspendedWaitPriority}
      BY <1>1, <1>3 DEF OsMemory
    <3>2. k.prio[x] # SuspendedWaitPriority
      BY <1>4, <1>19 DEF ThreadOK, Ended, ThreadStateIsTerminated
    <3> QED
      BY <3>1, <3>2, OsConstants DEF Prios
  <2>2. Belongs(ready, x, p)
    BY <1>4, <1>11, <1>16, <1>19, <2>1, Pointers DEF Belongs
  <2>3. j = MarkRunQueuePending(LinkThreadOnRunQueue(ready, x, p), p)
    BY <1>12, <1>19
  <2> HIDE DEF p
  <2>4. /\ MemoryOK(j) /\ Asked(j)
        /\ Unmoved(j, [ready EXCEPT !.resched = TRUE])
    BY <1>3, <1>17, <2>1, <2>2, <2>3, LinkJoins
  <2>5. j.state = ready.state /\ j.disable = ready.disable /\ j.running = ready.running /\ j.current = ready.current
    BY <1>10, <2>4 DEF Unmoved, OsMemory
  <2> QED
    BY <1>18, <2>4, <2>5 DEF Calm
<1>20. CASE ~(k.susp[x] < 1)
  <2>1. ~Linked(ready, x) /\ ready.susp[x] > 0
    BY <1>4, <1>11, <1>16, <1>20 DEF Linked
  <2>2. MemoryOK(ready)
    BY <1>3, <1>16, <1>17, <2>1, StaysLoose
  <2> QED
    BY <1>12, <1>18, <1>20, <2>2
<1> QED
  BY <1>19, <1>20

(* A thread made runnable is a reason to reschedule.                       *)
LEMMA WakeHeadAsks ==
  ASSUME NEW k, NEW q \in Waitables, MemoryOK(k), k.queue[q] # << >>, WakeReschedules(k, q)
  PROVE  Asked(WakeHead(k, q))
<1> DEFINE x == Head(k.queue[q])
           popped == [k EXCEPT !.queue[q] = Tail(@)]
           ready == [popped EXCEPT !.state[x] = "READY"]
           p == IF k.prio[x] > MaxPrio THEN MaxPrio ELSE k.prio[x]
           l == LinkThreadOnRunQueue(ready, x, p)
<1>1. k \in OsMemory
  BY DEF MemoryOK, ListsOK
<1>2. WakeHead(k, q) = [l EXCEPT !.pending = @ \cup {p}, !.resched = TRUE]
  BY DEF WakeHead, WakeReschedules, MarkRunQueuePending
<1>3. "resched" \in DOMAIN l
  BY <1>1 DEF LinkThreadOnRunQueue, OsMemory
<1> HIDE DEF l
<1> QED
  BY <1>2, <1>3 DEF Asked

-----------------------------------------------------------------------------
(* Mutexes.                                                                *)

LEMMA AcquireOK ==
  ASSUME NEW k, NEW m \in Mutexes, NEW x \in Threads, MemoryOK(k), NEW j, j = Acquire(k, m, x)
  PROVE  MemoryOK(j) /\ Calm(j, k)
<1> DEFINE h == IF k.owner[m] = NULL THEN Append(k.held[x], m) ELSE k.held[x]
           o == [k.owner EXCEPT ![m] = x]
           n == [k.count EXCEPT ![m] = k.count[m] + 1]
           l == [k.held EXCEPT ![x] = h]
<1>1. k \in OsMemory /\ ListsOK(k)
  BY DEF MemoryOK, ListsOK
<1>2. h \in Seq(Mutexes)
  BY <1>1, AppendProperties DEF OsMemory
<1>3. /\ o \in [Mutexes -> Threads \cup {NULL}]
      /\ n \in [Mutexes -> Nat]
      /\ l \in [Threads -> Seq(Mutexes)]
  <2> HIDE DEF h
  <2> QED
    BY <1>1, <1>2 DEF OsMemory
<1>4. j = [k EXCEPT !.owner = o, !.count = n, !.held = l]
  BY <1>1 DEF Acquire, OsMemory
<1>5. \A i \in Mutexes : o[i] = NULL <=> n[i] = 0
  <2>1. k.count \in [Mutexes -> Nat] /\ k.owner \in [Mutexes -> Threads \cup {NULL}]
    BY <1>1 DEF OsMemory
  <2> QED
    BY <1>1, <2>1, Pointers DEF ListsOK
<1> HIDE DEF o, n, l
<1>6. j \in OsMemory
  BY <1>1, <1>3, <1>4 DEF OsMemory
<1>7. /\ j.queue = k.queue /\ j.pending = k.pending /\ j.qptr = k.qptr
      /\ j.state = k.state /\ j.susp = k.susp /\ j.prio = k.prio
      /\ j.owner = o /\ j.count = n /\ j.resched = k.resched
      /\ j.disable = k.disable /\ j.running = k.running /\ j.current = k.current
  BY <1>1, <1>4 DEF OsMemory
<1>8. MemoryOK(j)
  BY <1>5, <1>6, <1>7, QuietChanges
<1> QED
  BY <1>7, <1>8 DEF Calm, Asked

LEMMA ReleaseOK ==
  ASSUME NEW k, NEW m \in Mutexes, NEW x \in Threads, MemoryOK(k),
         k.owner[m] = x, k.state[x] = "RUNNING",
         NEW j, j = Release(k, m, x)
  PROVE  MemoryOK(j) /\ Calm(j, k)
<1> DEFINE c == [k EXCEPT !.count = [k.count EXCEPT ![m] = k.count[m] - 1]]
           r == [c EXCEPT !.owner = [c.owner EXCEPT ![m] = NULL],
                          !.held = [c.held EXCEPT ![x] = UnlinkGuestListNode(c.held[x], m)]]
           p == ComputeThreadEffectivePriority(r, x)
<1>1. k \in OsMemory /\ ListsOK(k) /\ ThreadOK(k, x)
  BY DEF MemoryOK, ListsOK
<1>2. /\ k.count \in [Mutexes -> Nat] /\ k.owner \in [Mutexes -> Threads \cup {NULL}]
      /\ \A i \in Mutexes : k.owner[i] = NULL <=> k.count[i] = 0
      /\ k.count[m] > 0
  BY <1>1, Pointers DEF OsMemory, ListsOK
<1>3. c = [k EXCEPT !.count[m] = @ - 1]
  BY <1>1 DEF OsMemory
<1>4. c \in OsMemory
  <2>1. [k.count EXCEPT ![m] = k.count[m] - 1] \in [Mutexes -> Nat]
    BY <1>2
  <2> QED
    BY <1>1, <2>1 DEF OsMemory
<1>5. /\ c.count = [k.count EXCEPT ![m] = k.count[m] - 1] /\ c.owner = k.owner
      /\ c.queue = k.queue /\ c.pending = k.pending /\ c.qptr = k.qptr
      /\ c.state = k.state /\ c.susp = k.susp /\ c.prio = k.prio
      /\ c.resched = k.resched /\ c.held = k.held
      /\ c.disable = k.disable /\ c.running = k.running /\ c.current = k.current
  BY <1>1 DEF OsMemory
<1> HIDE DEF c
<1>6. r = [c EXCEPT !.owner[m] = NULL, !.held[x] = UnlinkGuestListNode(@, m)]
  BY <1>4 DEF OsMemory
<1>7. r \in OsMemory
  <2>1. UnlinkGuestListNode(c.held[x], m) \in Seq(Mutexes)
    <3>1. c.held[x] \in Seq(Mutexes)
      BY <1>4 DEF OsMemory
    <3> QED
      BY <3>1, UnlinkedList
  <2>2. /\ [c.owner EXCEPT ![m] = NULL] \in [Mutexes -> Threads \cup {NULL}]
        /\ [c.held EXCEPT ![x] = UnlinkGuestListNode(c.held[x], m)] \in [Threads -> Seq(Mutexes)]
    BY <1>4, <2>1 DEF OsMemory
  <2> QED
    BY <1>4, <2>2 DEF OsMemory
<1>8. /\ r.count = c.count /\ r.owner = [c.owner EXCEPT ![m] = NULL]
      /\ r.queue = c.queue /\ r.pending = c.pending /\ r.qptr = c.qptr
      /\ r.state = c.state /\ r.susp = c.susp /\ r.prio = c.prio
      /\ r.resched = c.resched
      /\ r.disable = c.disable /\ r.running = c.running /\ r.current = c.current
  BY <1>4 DEF OsMemory
<1> HIDE DEF r
<1>9. CASE k.count[m] # 1
  <2>1. j = c
    BY <1>3, <1>9 DEF Release
  <2>2. \A i \in Mutexes : c.owner[i] = NULL <=> c.count[i] = 0
    BY <1>2, <1>5, <1>9, Pointers
  <2>3. MemoryOK(c)
    BY <1>4, <1>5, <2>2, QuietChanges
  <2> QED
    BY <1>5, <2>1, <2>3 DEF Calm, Asked
<1>10. CASE k.count[m] = 1
  <2>1. \A i \in Mutexes : r.owner[i] = NULL <=> r.count[i] = 0
    BY <1>2, <1>5, <1>8, <1>10
  <2>2. MemoryOK(r) /\ Calm(r, k)
    BY <1>5, <1>7, <1>8, <2>1, QuietChanges DEF Calm, Asked
  <2>3. j = IF k.prio[x] < k.base[x] THEN [r EXCEPT !.prio[x] = p] ELSE r
    BY <1>3, <1>6, <1>10 DEF Release
  <2>4. CASE ~(k.prio[x] < k.base[x])
    BY <2>2, <2>3, <2>4
  <2>5. CASE k.prio[x] < k.base[x]
    <3>1. p \in Prios
      BY <1>7, EffectivePriority
    <3> HIDE DEF p
    <3>2. j = [r EXCEPT !.prio = [r.prio EXCEPT ![x] = p]]
      BY <1>7, <2>3, <2>5 DEF OsMemory
    <3>3. [r.prio EXCEPT ![x] = p] \in [Threads -> Prios \cup {SuspendedWaitPriority}]
      BY <1>7, <3>1 DEF OsMemory
    <3>4. j \in OsMemory
      BY <1>7, <3>2, <3>3 DEF OsMemory
    <3>5. /\ j.prio = [r.prio EXCEPT ![x] = p]
          /\ j.queue = r.queue /\ j.pending = r.pending /\ j.qptr = r.qptr
          /\ j.state = r.state /\ j.susp = r.susp
          /\ j.owner = r.owner /\ j.count = r.count /\ j.resched = r.resched
          /\ j.disable = r.disable /\ j.running = r.running /\ j.current = r.current
      BY <1>7, <3>2 DEF OsMemory
    <3>6. /\ j.prio[x] = p
          /\ \A t \in Threads \ {x} : j.state[t] = r.state[t] /\ j.susp[t] = r.susp[t] /\ j.prio[t] = r.prio[t]
      BY <1>7, <3>5 DEF OsMemory
    <3>7. OnlyChanges(j, r, x)
      BY <2>1, <3>4, <3>5, <3>6 DEF OnlyChanges
    <3>8. r.state[x] = "RUNNING"
      BY <1>5, <1>8
    <3>9. Loose(r, x)
      BY <2>2, <3>8, StartsToMove DEF Linked
    <3>10. Loose(j, x)
      BY <3>7, <3>9, MovingChanges
    <3>11. j.state[x] = "RUNNING" /\ j.susp[x] = 0 /\ j.prio[x] # SuspendedWaitPriority
      BY <1>1, <1>5, <1>8, <3>1, <3>5, <3>6, Pointers DEF ThreadOK
    <3>12. MemoryOK(j)
      BY <3>10, <3>11, StaysLoose DEF Linked
    <3> QED
      BY <2>2, <3>5, <3>12 DEF Calm, Asked
  <2> QED
    BY <2>4, <2>5
<1> QED
  BY <1>9, <1>10

-----------------------------------------------------------------------------
(* Starting and stopping threads.                                          *)

(* The tail of the run queue is the place of a preempted thread.           *)
LEMMA PreemptOK ==
  ASSUME NEW k, NEW x \in Threads, MemoryOK(k), k.state[x] = "RUNNING",
         NEW p, p = k.prio[x], NEW j,
         j = MarkRunQueuePending(LinkThreadOnRunQueue([k EXCEPT !.state[x] = "READY"], x, p), p)
  PROVE  /\ MemoryOK(j) /\ j.pending # {}
         /\ j.state = [k.state EXCEPT ![x] = "READY"]
         /\ j.disable = k.disable
<1> DEFINE r == [k EXCEPT !.state = [k.state EXCEPT ![x] = "READY"]]
<1>1. k \in OsMemory /\ ListsOK(k) /\ ThreadOK(k, x)
  BY DEF MemoryOK, ListsOK
<1>2. [k EXCEPT !.state[x] = "READY"] = r
  BY <1>1 DEF OsMemory
<1>3. r \in OsMemory
  <2>1. [k.state EXCEPT ![x] = "READY"] \in [Threads -> ThreadStates]
    BY <1>1 DEF OsMemory, ThreadStates
  <2> QED
    BY <1>1, <2>1 DEF OsMemory
<1>4. /\ r.state = [k.state EXCEPT ![x] = "READY"]
      /\ r.queue = k.queue /\ r.pending = k.pending /\ r.qptr = k.qptr
      /\ r.susp = k.susp /\ r.prio = k.prio
      /\ r.owner = k.owner /\ r.count = k.count /\ r.disable = k.disable
  BY <1>1 DEF OsMemory
<1> HIDE DEF r
<1>5. /\ r.state[x] = "READY"
      /\ \A t \in Threads \ {x} : r.state[t] = k.state[t] /\ r.susp[t] = k.susp[t] /\ r.prio[t] = k.prio[t]
  BY <1>1, <1>4 DEF OsMemory
<1>6. Loose(r, x)
  <2>1. \A m \in Mutexes : r.owner[m] = NULL <=> r.count[m] = 0
    BY <1>1, <1>4 DEF ListsOK
  <2>2. OnlyChanges(r, k, x)
    BY <1>3, <1>4, <1>5, <2>1 DEF OnlyChanges
  <2>3. Loose(k, x)
    BY StartsToMove DEF Linked
  <2> QED
    BY <2>2, <2>3, MovingChanges
<1>7. p \in Prios
  BY <1>1 DEF ThreadOK, OsMemory, Ended, ThreadStateIsTerminated
<1>8. Belongs(r, x, p)
  BY <1>1, <1>4, <1>5, <1>7, Pointers DEF Belongs, ThreadOK
<1>9. /\ MemoryOK(j) /\ j.pending # {}
      /\ Unmoved(j, [r EXCEPT !.resched = TRUE])
  BY <1>2, <1>6, <1>7, <1>8, LinkJoins
<1>10. j.state = r.state /\ j.disable = r.disable
  BY <1>3, <1>9 DEF Unmoved, OsMemory
<1> QED
  BY <1>4, <1>9, <1>10

(* The memory after the first thread of the strongest pending queue was    *)
(* taken off and started.                                                  *)
Started(k) ==
  LET p    == Min(k.pending)
      t    == Head(k.queue[p])
      rest == Tail(k.queue[p])
  IN  [k EXCEPT !.queue[p] = rest,
                !.pending  = IF rest = << >> THEN @ \ {p} ELSE @,
                !.qptr[t]  = NULL,
                !.state[t] = "RUNNING",
                !.running  = t,
                !.current  = t,
                !.resched  = FALSE]

LEMMA DispatchOK ==
  ASSUME NEW k, MemoryOK(k), k.pending # {}, NEW j, j = Started(k),
         NEW x, x = Head(k.queue[Min(k.pending)])
  PROVE  /\ x \in Threads
         /\ MemoryOK(j)
         /\ j.state = [k.state EXCEPT ![x] = "RUNNING"]
         /\ j.running = x /\ j.current = x /\ j.disable = k.disable
<1> DEFINE p    == Min(k.pending)
           s    == k.queue[p]
           rest == Tail(s)
           qu   == [k.queue EXCEPT ![p] = rest]
           pe   == IF rest = << >> THEN k.pending \ {p} ELSE k.pending
           qp   == [k.qptr EXCEPT ![x] = NULL]
           st   == [k.state EXCEPT ![x] = "RUNNING"]
<1>1. k \in OsMemory /\ ListsOK(k) /\ k.pending \in SUBSET Prios
  BY DEF MemoryOK, ListsOK, OsMemory
<1>2. p \in k.pending /\ p \in Prios /\ p \in Queues /\ s # << >>
  <2>1. k.pending \in SUBSET Nat
    BY <1>1, Pointers
  <2>2. p \in k.pending
    BY <2>1, LeastElement
  <2> HIDE DEF p
  <2> QED
    BY <1>1, <2>2 DEF ListsOK, Queues
<1> HIDE DEF p
<1>3. s \in Seq(Threads) /\ IsInjective(s) /\ k.queue \in [Queues -> Seq(Threads)]
  BY <1>1, <1>2 DEF ListsOK, OsMemory
<1>4. /\ x \in Threads /\ x \in ToSet(s) /\ rest \in Seq(Threads)
      /\ IsInjective(rest) /\ ToSet(rest) = ToSet(s) \ {x}
  BY <1>2, <1>3, PoppedList DEF p
<1>5. j = [k EXCEPT !.queue = qu, !.pending = pe, !.qptr = qp, !.state = st,
                    !.running = x, !.current = x, !.resched = FALSE]
  <2>1. j = [k EXCEPT !.queue[p] = rest,
                      !.pending  = IF rest = << >> THEN @ \ {p} ELSE @,
                      !.qptr[x]  = NULL,
                      !.state[x] = "RUNNING",
                      !.running  = x,
                      !.current  = x,
                      !.resched  = FALSE]
    BY Zenon DEF Started, p
  <2>2. p \in Queues /\ x \in Threads
    BY <1>2, <1>4
  <2> HIDE DEF rest
  <2>3. j = [k EXCEPT !.queue = [k.queue EXCEPT ![p] = rest],
                      !.pending = IF rest = << >> THEN k.pending \ {p} ELSE k.pending,
                      !.qptr = [k.qptr EXCEPT ![x] = NULL],
                      !.state = [k.state EXCEPT ![x] = "RUNNING"],
                      !.running = x, !.current = x, !.resched = FALSE]
    BY <1>1, <2>1, <2>2 DEF OsMemory
  <2> QED
    BY <2>3, Zenon
<1>6. /\ qu \in [Queues -> Seq(Threads)] /\ pe \in SUBSET Prios
      /\ qp \in [Threads -> Queues \cup {NULL}] /\ st \in [Threads -> ThreadStates]
  BY <1>1, <1>2, <1>3, <1>4 DEF OsMemory, ThreadStates
<1>7. ThreadOK(k, x) /\ In(k, x, p)
  BY <1>2, <1>4 DEF MemoryOK, In
<1>8. \A t, q : q \in Queues => ((t \in ToSet(qu[q])) <=> In(k, t, q) /\ ~(q = p /\ t = x))
  BY <1>2, <1>3, <1>4 DEF In
<1>9. \A q \in Queues : IsInjective(qu[q])
  BY <1>1, <1>2, <1>3, <1>4 DEF ListsOK
<1>10. \A q \in Prios : q \in pe <=> qu[q] # << >>
  <2>1. Prios \subseteq Queues
    BY DEF Queues
  <2>2. \A q \in Prios : q \in k.pending <=> k.queue[q] # << >>
    BY <1>1 DEF ListsOK
  <2> HIDE DEF rest, s
  <2>3. ASSUME NEW q \in Prios, q = p PROVE q \in pe <=> qu[q] # << >>
    <3>1. qu[q] = rest
      BY <1>2, <1>3, <2>3
    <3> QED
      BY <1>2, <2>3, <3>1
  <2>4. ASSUME NEW q \in Prios, q # p PROVE q \in pe <=> qu[q] # << >>
    BY <1>2, <1>3, <2>1, <2>2, <2>4
  <2> QED
    BY <2>3, <2>4
<1> HIDE DEF qu, pe, qp, st
<1>11. j \in OsMemory
  <2>1. x \in Threads
    BY <1>4
  <2> DEFINE r == [k EXCEPT !.queue = qu, !.pending = pe, !.qptr = qp, !.state = st]
  <2>2. r \in OsMemory
    BY <1>1, <1>6 DEF OsMemory
  <2>3. j = [r EXCEPT !.running = x, !.current = x, !.resched = FALSE]
    BY <1>1, <1>5 DEF OsMemory
  <2> HIDE DEF r
  <2> QED
    BY <2>1, <2>2, <2>3 DEF OsMemory
<1>12. /\ j.queue = qu /\ j.pending = pe /\ j.qptr = qp /\ j.state = st
       /\ j.running = x /\ j.current = x
       /\ j.susp = k.susp /\ j.prio = k.prio /\ j.owner = k.owner /\ j.count = k.count
       /\ j.disable = k.disable
  BY <1>1, <1>5 DEF OsMemory
<1>13. ListsOK(j)
  BY <1>1, <1>9, <1>10, <1>11, <1>12 DEF ListsOK
<1>14. ASSUME NEW t \in Threads \ {x} PROVE ThreadOK(j, t)
  <2>1. ThreadOK(k, t)
    BY DEF MemoryOK
  <2>2. j.state[t] = k.state[t] /\ j.qptr[t] = k.qptr[t]
    BY <1>1, <1>12 DEF OsMemory, st, qp
  <2>3. \A q \in Queues : In(j, t, q) <=> In(k, t, q)
    BY <1>8, <1>12 DEF In
  <2> QED
    BY <1>12, <2>1, <2>2, <2>3, SameThread
<1>15. ThreadOK(j, x)
  <2>1. \A q \in Queues : ~In(j, x, q)
    <3>1. \A q \in Queues : In(k, x, q) => q = p
      BY <1>2, <1>7 DEF ThreadOK
    <3> QED
      BY <1>8, <1>12, <3>1 DEF In
  <2>2. j.state[x] = "RUNNING"
    BY <1>1, <1>4, <1>12 DEF OsMemory, st
  <2>3. j.susp[x] = 0 /\ j.prio[x] # SuspendedWaitPriority
    BY <1>2, <1>7, <1>12, Pointers DEF ThreadOK
  <2> QED
    BY <2>1, <2>2, <2>3 DEF ThreadOK, Linked
<1>16. MemoryOK(j)
  BY <1>13, <1>14, <1>15 DEF MemoryOK
<1> QED
  BY <1>4, <1>12, <1>16 DEF st

-----------------------------------------------------------------------------
(* The stacks of the fibers: their types, the number of callback batches   *)
(* and the idle loop.                                                      *)

(* The calls that neither idle nor run callbacks.                          *)
PlainCalls == FrameFns \ {"idle", "callback"}

(* The calls of a thread that ends.                                        *)
EndingCalls == {"unlockall", "wake", "exit"}

(* The frames of cs belong on the fiber of t and are of the kinds fns.     *)
OnlyCalls(t, cs, fns) == StackOK(t, cs) /\ \A i \in DOMAIN cs : cs[i].fn \in fns

(* The positions of the callback batches.                                  *)
Batches(s) == {i \in DOMAIN s : s[i].fn = "callback"}

LEMMA BatchesFinite ==
  ASSUME NEW s \in Seq(Frames)
  PROVE  /\ Batches(s) \subseteq 1 .. Len(s)
         /\ IsFiniteSet(Batches(s))
         /\ Depth(s) = Cardinality(Batches(s)) /\ Depth(s) \in Nat
         /\ Depth(s) = 0 <=> HasNo(s, {"callback"})
<1>1. Len(s) \in Nat /\ DOMAIN s = 1 .. Len(s)
  BY LenProperties
<1>2. Batches(s) \subseteq 1 .. Len(s)
  BY <1>1 DEF Batches
<1>3. IsFiniteSet(1 .. Len(s))
  BY <1>1, FS_Interval
<1>4. IsFiniteSet(Batches(s))
  BY <1>2, <1>3, FS_Subset
<1>5. Depth(s) = Cardinality(Batches(s))
  BY DEF Depth, Batches
<1>6. Cardinality(Batches(s)) \in Nat
  BY <1>4, FS_CardinalityType
<1>7. Cardinality(Batches(s)) = 0 <=> Batches(s) = {}
  BY <1>4, FS_EmptySet
<1>8. Batches(s) = {} <=> HasNo(s, {"callback"})
  BY DEF Batches, HasNo
<1> QED
  BY <1>2, <1>4, <1>5, <1>6, <1>7, <1>8

(* The positions in a concatenation.                                       *)
LEMMA Positions ==
  ASSUME NEW cs \in Seq(Frames), NEW r \in Seq(Frames)
  PROVE  /\ cs \o r \in Seq(Frames)
         /\ Len(cs) \in Nat /\ Len(r) \in Nat /\ Len(cs \o r) = Len(cs) + Len(r)
         /\ DOMAIN cs = 1 .. Len(cs) /\ DOMAIN r = 1 .. Len(r)
         /\ DOMAIN (cs \o r) = 1 .. Len(cs) + Len(r)
         /\ \A i \in 1 .. Len(cs) : (cs \o r)[i] = cs[i]
         /\ \A i \in 1 .. Len(r) : (cs \o r)[i + Len(cs)] = r[i]
         /\ \A i \in 1 .. Len(cs) + Len(r) : i > Len(cs) => i - Len(cs) \in 1 .. Len(r)
<1>1. /\ cs \o r \in Seq(Frames)
      /\ Len(cs \o r) = Len(cs) + Len(r)
      /\ \A i \in 1 .. Len(cs) + Len(r) :
            (cs \o r)[i] = IF i <= Len(cs) THEN cs[i] ELSE r[i - Len(cs)]
  BY ConcatProperties
<1>2. Len(cs) \in Nat /\ Len(r) \in Nat /\ DOMAIN cs = 1 .. Len(cs) /\ DOMAIN r = 1 .. Len(r)
  BY LenProperties
<1>3. DOMAIN (cs \o r) = 1 .. Len(cs \o r)
  BY <1>1, LenProperties
<1> DEFINE c == cs \o r
<1> HIDE DEF c
<1>4. /\ c \in Seq(Frames) /\ Len(c) = Len(cs) + Len(r) /\ DOMAIN c = 1 .. Len(cs) + Len(r)
      /\ \A i \in 1 .. Len(cs) + Len(r) : c[i] = IF i <= Len(cs) THEN cs[i] ELSE r[i - Len(cs)]
  BY <1>1, <1>3 DEF c
<1>5. \A i \in 1 .. Len(cs) : c[i] = cs[i]
  BY <1>2, <1>4
<1>6. \A i \in 1 .. Len(r) : c[i + Len(cs)] = r[i]
  BY <1>2, <1>4
<1> QED
  BY <1>2, <1>4, <1>5, <1>6 DEF c

(* Calls that are no callback batches leave their number as it is.         *)
LEMMA SameDepth ==
  ASSUME NEW cs \in Seq(Frames), NEW r \in Seq(Frames), HasNo(cs, {"callback"})
  PROVE  Depth(cs \o r) = Depth(r)
<1> DEFINE c == cs \o r
           n == Len(cs)
           S == Batches(r)
           T == Batches(c)
           f == [i \in S |-> i + n]
<1>1. /\ c \in Seq(Frames)
      /\ n \in Nat /\ Len(r) \in Nat
      /\ DOMAIN cs = 1 .. n /\ DOMAIN r = 1 .. Len(r)
      /\ DOMAIN c = 1 .. n + Len(r)
      /\ \A i \in 1 .. n : c[i] = cs[i]
      /\ \A i \in 1 .. Len(r) : c[i + n] = r[i]
      /\ \A i \in 1 .. n + Len(r) : i > n => i - n \in 1 .. Len(r)
  BY Positions
<1> HIDE DEF c, n
<1>2. S \subseteq 1 .. Len(r) /\ IsFiniteSet(S)
  BY BatchesFinite
<1>3. \A i \in S : i + n \in T
  BY <1>1 DEF Batches
<1>4. \A i \in T : i - n \in S
  BY <1>1 DEF Batches, HasNo
<1> HIDE DEF S, T
<1>5. f \in Bijection(S, T)
  <2>1. f \in [S -> T]
    BY <1>3
  <2>2. \A i, j \in S : f[i] = f[j] => i = j
    BY <1>1, <1>2
  <2>3. \A t \in T : \E i \in S : f[i] = t
    <3>1. T \subseteq Int
      BY <1>1 DEF T, Batches
    <3> QED
      BY <1>1, <1>4, <3>1
  <2> HIDE DEF f
  <2> QED
    BY <2>1, <2>2, <2>3 DEF Bijection, Injection, Surjection, IsInjective
<1>6. Cardinality(T) = Cardinality(S)
  BY <1>2, <1>5, FS_Bijection DEF ExistsBijection
<1>7. Depth(c) = Cardinality(T) /\ Depth(r) = Cardinality(S)
  BY <1>1, BatchesFinite DEF S, T
<1> QED
  BY <1>6, <1>7 DEF c

(* A callback batch adds one.                                              *)
LEMMA OneDeeper ==
  ASSUME NEW f \in Frames, f.fn = "callback", NEW r \in Seq(Frames)
  PROVE  Depth(<< f >> \o r) = Depth(r) + 1
<1> DEFINE c == << f >> \o r
           S == Batches(r)
           T == Batches(c)
           g == [i \in S |-> i + 1]
<1>1. << f >> \in Seq(Frames) /\ Len(<< f >>) = 1 /\ << f >>[1] = f
  OBVIOUS
<1>2. /\ c \in Seq(Frames)
      /\ Len(r) \in Nat /\ DOMAIN r = 1 .. Len(r)
      /\ DOMAIN c = 1 .. 1 + Len(r)
      /\ c[1] = f
      /\ \A i \in 1 .. Len(r) : c[i + 1] = r[i]
      /\ \A i \in 1 .. 1 + Len(r) : i > 1 => i - 1 \in 1 .. Len(r)
  <2> HIDE DEF c
  <2>1. c = << f >> \o r
    BY DEF c
  <2>2. 1 \in 1 .. Len(<< f >>)
    BY <1>1
  <2> DEFINE o == << f >>
  <2>3. o \in Seq(Frames) /\ Len(o) = 1 /\ o[1] = f /\ c = o \o r /\ 1 \in 1 .. Len(o)
    BY <1>1, <2>1, <2>2
  <2> HIDE DEF o
  <2> QED
    BY <2>3, Positions
<1> HIDE DEF c
<1>3. S \subseteq 1 .. Len(r) /\ IsFiniteSet(S)
  BY BatchesFinite
<1>4. IsFiniteSet(T) /\ T \subseteq Int
  BY <1>2, BatchesFinite DEF Batches
<1>5. 1 \in T /\ \A i \in S : i + 1 \in T \ {1}
  BY <1>2 DEF Batches
<1>6. \A i \in T \ {1} : i - 1 \in S
  BY <1>2 DEF Batches
<1> HIDE DEF S, T
<1>7. g \in Bijection(S, T \ {1})
  <2>1. g \in [S -> T \ {1}]
    BY <1>5
  <2>2. \A i, j \in S : g[i] = g[j] => i = j
    BY <1>2, <1>3
  <2>3. \A t \in T \ {1} : \E i \in S : g[i] = t
    BY <1>4, <1>6
  <2> HIDE DEF g
  <2> QED
    BY <2>1, <2>2, <2>3 DEF Bijection, Injection, Surjection, IsInjective
<1>8. Cardinality(T \ {1}) = Cardinality(S)
  BY <1>3, <1>7, FS_Bijection DEF ExistsBijection
<1>9. Cardinality(T \ {1}) = Cardinality(T) - 1 /\ Cardinality(T) \in Nat
  BY <1>4, <1>5, FS_RemoveElement, FS_CardinalityType
<1>10. Depth(c) = Cardinality(T) /\ Depth(r) = Cardinality(S)
  BY <1>2, BatchesFinite DEF S, T
<1> QED
  BY <1>8, <1>9, <1>10 DEF c

(* What holds of every frame of a concatenation.                           *)
LEMMA ConcatFrames ==
  ASSUME NEW t, NEW cs \in Seq(Frames), NEW r \in Seq(Frames)
  PROVE  /\ StackOK(t, cs \o r) <=> StackOK(t, cs) /\ StackOK(t, r)
         /\ \A fns : HasNo(cs \o r, fns) <=> HasNo(cs, fns) /\ HasNo(r, fns)
<1> DEFINE c == cs \o r
           n == Len(cs)
<1>1. /\ c \in Seq(Frames)
      /\ n \in Nat /\ Len(r) \in Nat
      /\ DOMAIN cs = 1 .. n /\ DOMAIN r = 1 .. Len(r)
      /\ DOMAIN c = 1 .. n + Len(r)
      /\ \A i \in 1 .. n : c[i] = cs[i]
      /\ \A i \in 1 .. Len(r) : c[i + n] = r[i]
      /\ \A i \in 1 .. n + Len(r) : i > n => i - n \in 1 .. Len(r)
  BY Positions
<1> HIDE DEF c, n
<1>2. \A i \in DOMAIN cs : i \in DOMAIN c /\ c[i] = cs[i]
  BY <1>1
<1>3. \A i \in DOMAIN r : i + n \in DOMAIN c /\ c[i + n] = r[i]
  BY <1>1
<1>4. \A i \in DOMAIN c : \/ i \in DOMAIN cs /\ c[i] = cs[i]
                          \/ i - n \in DOMAIN r /\ c[i] = r[i - n]
  <2> SUFFICES ASSUME NEW i \in DOMAIN c, i > n PROVE i - n \in DOMAIN r /\ c[i] = r[i - n]
    BY <1>1
  <2>1. i - n \in 1 .. Len(r) /\ (i - n) + n = i
    BY <1>1
  <2> QED
    BY <1>1, <2>1
<1>5. StackOK(t, c) <=> StackOK(t, cs) /\ StackOK(t, r)
  BY <1>1, <1>2, <1>3, <1>4 DEF StackOK
<1>6. \A fns : HasNo(c, fns) <=> HasNo(cs, fns) /\ HasNo(r, fns)
  BY <1>2, <1>3, <1>4 DEF HasNo
<1> QED
  BY <1>5, <1>6 DEF c

(* The calls made from the idle loop leave it where it is.                 *)
LEMMA IdleBelow ==
  ASSUME NEW cs \in Seq(Frames), NEW r \in Seq(Frames),
         \A i \in DOMAIN cs : cs[i].fn \in IdleCalls
  PROVE  IdleAt(cs \o r) <=> IdleAt(r)
<1> DEFINE c == cs \o r
           n == Len(cs)
<1>1. /\ c \in Seq(Frames)
      /\ n \in Nat /\ Len(r) \in Nat
      /\ DOMAIN cs = 1 .. n /\ DOMAIN r = 1 .. Len(r)
      /\ DOMAIN c = 1 .. n + Len(r) /\ Len(c) = n + Len(r)
      /\ \A i \in 1 .. n : c[i] = cs[i]
      /\ \A i \in 1 .. Len(r) : c[i + n] = r[i]
      /\ \A i \in 1 .. n + Len(r) : i > n => i - n \in 1 .. Len(r)
  BY Positions
<1> HIDE DEF c, n
<1>2. \A i \in 1 .. n + Len(r) : i > n => c[i] = r[i - n]
  <2> SUFFICES ASSUME NEW i \in 1 .. n + Len(r), i > n PROVE c[i] = r[i - n]
    OBVIOUS
  <2>1. i - n \in 1 .. Len(r) /\ (i - n) + n = i
    BY <1>1
  <2> QED
    BY <1>1, <2>1
<1>3. "idle" \notin IdleCalls
  BY DEF IdleCalls
<1>4. ASSUME IdleAt(c) PROVE IdleAt(r)
  <2>1. PICK m \in DOMAIN c :
          /\ c[m].fn = "idle"
          /\ \A i \in 1 .. m - 1 : c[i].fn \in IdleCalls
          /\ \A i \in m + 1 .. Len(c) : c[i].fn \notin {"idle", "callback"}
    BY <1>4 DEF IdleAt
  <2>2. m > n /\ m - n \in DOMAIN r /\ r[m - n].fn = "idle"
    BY <1>1, <1>2, <1>3, <2>1
  <2>3. \A i \in 1 .. (m - n) - 1 : r[i].fn \in IdleCalls
    <3> SUFFICES ASSUME NEW i \in 1 .. (m - n) - 1 PROVE r[i].fn \in IdleCalls
      OBVIOUS
    <3>1. i \in 1 .. Len(r) /\ i + n \in 1 .. m - 1
      BY <1>1, <2>2
    <3> QED
      BY <1>1, <2>1, <3>1
  <2>4. \A i \in (m - n) + 1 .. Len(r) : r[i].fn \notin {"idle", "callback"}
    <3> SUFFICES ASSUME NEW i \in (m - n) + 1 .. Len(r) PROVE r[i].fn \notin {"idle", "callback"}
      OBVIOUS
    <3>1. i \in 1 .. Len(r) /\ i + n \in m + 1 .. Len(c)
      BY <1>1, <2>2
    <3> QED
      BY <1>1, <2>1, <3>1
  <2> QED
    BY <2>2, <2>3, <2>4 DEF IdleAt
<1>5. ASSUME IdleAt(r) PROVE IdleAt(c)
  <2>1. PICK m \in DOMAIN r :
          /\ r[m].fn = "idle"
          /\ \A i \in 1 .. m - 1 : r[i].fn \in IdleCalls
          /\ \A i \in m + 1 .. Len(r) : r[i].fn \notin {"idle", "callback"}
    BY <1>5 DEF IdleAt
  <2>2. m + n \in DOMAIN c /\ c[m + n].fn = "idle"
    BY <1>1, <2>1
  <2>3. \A i \in 1 .. (m + n) - 1 : c[i].fn \in IdleCalls
    <3> SUFFICES ASSUME NEW i \in 1 .. (m + n) - 1 PROVE c[i].fn \in IdleCalls
      OBVIOUS
    <3>1. CASE i <= n
      BY <1>1, <3>1
    <3>2. CASE i > n
      <4>1. i \in 1 .. n + Len(r) /\ i - n \in 1 .. m - 1
        BY <1>1, <2>1, <3>2
      <4> QED
        BY <1>2, <2>1, <3>2, <4>1
    <3> QED
      BY <1>1, <3>1, <3>2
  <2>4. \A i \in (m + n) + 1 .. Len(c) : c[i].fn \notin {"idle", "callback"}
    <3> SUFFICES ASSUME NEW i \in (m + n) + 1 .. Len(c) PROVE c[i].fn \notin {"idle", "callback"}
      OBVIOUS
    <3>1. i \in 1 .. n + Len(r) /\ i > n /\ i - n \in m + 1 .. Len(r)
      BY <1>1, <2>1
    <3> QED
      BY <1>2, <2>1, <3>1
  <2> QED
    BY <2>2, <2>3, <2>4 DEF IdleAt
<1> QED
  BY <1>4, <1>5 DEF c

(* The idle loop entered on a stack with neither idle loop nor callbacks.  *)
LEMMA IdleHere ==
  ASSUME NEW f \in Frames, f.fn = "idle", NEW r \in Seq(Frames)
  PROVE  IdleAt(<< f >> \o r) <=> HasNo(r, {"idle", "callback"})
<1> DEFINE o == << f >>
           c == o \o r
<1>1. o \in Seq(Frames) /\ Len(o) = 1 /\ o[1] = f
  OBVIOUS
<1> HIDE DEF o
<1>2. /\ c \in Seq(Frames)
      /\ Len(r) \in Nat /\ DOMAIN r = 1 .. Len(r)
      /\ DOMAIN c = 1 .. 1 + Len(r) /\ Len(c) = 1 + Len(r)
      /\ c[1] = f
      /\ \A i \in 1 .. Len(r) : c[i + 1] = r[i]
      /\ \A i \in 1 .. 1 + Len(r) : i > 1 => i - 1 \in 1 .. Len(r)
  <2> HIDE DEF c
  <2>1. 1 \in 1 .. Len(o) /\ c = o \o r
    BY <1>1 DEF c
  <2>2. /\ c \in Seq(Frames)
        /\ Len(r) \in Nat /\ DOMAIN r = 1 .. Len(r)
        /\ DOMAIN c = 1 .. Len(o) + Len(r) /\ Len(c) = Len(o) + Len(r)
        /\ \A i \in 1 .. Len(o) : c[i] = o[i]
        /\ \A i \in 1 .. Len(r) : c[i + Len(o)] = r[i]
        /\ \A i \in 1 .. Len(o) + Len(r) : i > Len(o) => i - Len(o) \in 1 .. Len(r)
    BY <1>1, <2>1, Positions
  <2> QED
    BY <1>1, <2>1, <2>2
<1> HIDE DEF c
<1>3. "idle" \notin IdleCalls
  BY DEF IdleCalls
<1>4. ASSUME IdleAt(c) PROVE HasNo(r, {"idle", "callback"})
  <2>1. PICK m \in DOMAIN c :
          /\ c[m].fn = "idle"
          /\ \A i \in 1 .. m - 1 : c[i].fn \in IdleCalls
          /\ \A i \in m + 1 .. Len(c) : c[i].fn \notin {"idle", "callback"}
    BY <1>4 DEF IdleAt
  <2>2. m = 1
    BY <1>2, <1>3, <2>1
  <2>3. ASSUME NEW i \in 1 .. Len(r) PROVE r[i].fn \notin {"idle", "callback"}
    <3>1. i + 1 \in m + 1 .. Len(c)
      BY <1>2, <2>2
    <3> QED
      BY <1>2, <2>1, <3>1
  <2> QED
    BY <1>2, <2>3 DEF HasNo
<1>5. ASSUME HasNo(r, {"idle", "callback"}) PROVE IdleAt(c)
  <2>1. \A i \in 1 + 1 .. Len(c) : c[i].fn \notin {"idle", "callback"}
    <3> SUFFICES ASSUME NEW i \in 1 + 1 .. Len(c) PROVE c[i].fn \notin {"idle", "callback"}
      OBVIOUS
    <3>1. i - 1 \in 1 .. Len(r) /\ (i - 1) + 1 = i
      BY <1>2
    <3>2. c[i] = r[i - 1]
      BY <1>2, <3>1
    <3> QED
      BY <1>2, <1>5, <3>1, <3>2 DEF HasNo
  <2>2. 1 \in DOMAIN c /\ c[1].fn = "idle" /\ \A i \in 1 .. 1 - 1 : c[i].fn \in IdleCalls
    BY <1>2
  <2> QED
    BY <2>1, <2>2 DEF IdleAt
<1> QED
  BY <1>4, <1>5 DEF c, o

(* A stack is its innermost call on top of the others.                     *)
LEMMA Uncons ==
  ASSUME NEW s \in Seq(Frames), s # << >>
  PROVE  /\ Head(s) \in Frames /\ << Head(s) >> \in Seq(Frames)
         /\ Tail(s) \in Seq(Frames)
         /\ s = << Head(s) >> \o Tail(s)
<1> DEFINE o == << Head(s) >>
           r == Tail(s)
           c == o \o r
<1>1. /\ Head(s) \in Frames /\ r \in Seq(Frames) /\ Len(r) = Len(s) - 1
      /\ \A i \in 1 .. Len(r) : r[i] = s[i + 1]
  BY HeadTailProperties
<1>2. /\ o \in Seq(Frames) /\ Len(o) = 1 /\ o[1] = Head(s)
  BY <1>1
<1>3. Len(s) \in Nat /\ Len(s) # 0 /\ Head(s) = s[1]
  BY EmptySeq, LenProperties
<1> HIDE DEF o, r
<1>4. /\ c \in Seq(Frames) /\ Len(c) = Len(o) + Len(r)
      /\ \A i \in 1 .. Len(o) + Len(r) : c[i] = IF i <= Len(o) THEN o[i] ELSE r[i - Len(o)]
  <2> HIDE DEF c
  <2>1. c = o \o r
    BY DEF c
  <2> QED
    BY <1>1, <1>2, <2>1, ConcatProperties
<1> HIDE DEF c
<1>5. Len(c) = Len(s)
  BY <1>1, <1>2, <1>3, <1>4
<1>6. ASSUME NEW i \in 1 .. Len(c) PROVE c[i] = s[i]
  <2>1. CASE i = 1
    BY <1>2, <1>3, <1>4, <1>5, <2>1
  <2>2. CASE i # 1
    <3>1. i - 1 \in 1 .. Len(r) /\ (i - 1) + 1 = i /\ i \in 1 .. Len(o) + Len(r) /\ ~(i <= Len(o))
      BY <1>1, <1>2, <1>3, <1>5, <2>2
    <3>2. c[i] = r[i - 1]
      BY <1>2, <1>4, <3>1
    <3> QED
      BY <1>1, <3>1, <3>2
  <2> QED
    BY <2>1, <2>2
<1>7. c = s
  BY <1>4, <1>5, <1>6, SeqEqual
<1> QED
  BY <1>1, <1>2, <1>7 DEF c, o, r

-----------------------------------------------------------------------------
(* Pushing and popping calls.                                              *)

LEMMA Pushed ==
  ASSUME NEW t, NEW cs, NEW r, OnlyCalls(t, cs, PlainCalls), StackOK(t, r)
  PROVE  /\ StackOK(t, cs \o r)
         /\ Depth(cs \o r) = Depth(r)
         /\ HasNo(cs \o r, {"idle"}) <=> HasNo(r, {"idle"})
         /\ cs # << >> => cs \o r # << >> /\ Head(cs \o r) = Head(cs)
         /\ OnlyCalls(t, cs, IdleCalls) => (IdleAt(cs \o r) <=> IdleAt(r))
<1>1. cs \in Seq(Frames) /\ r \in Seq(Frames)
  BY DEF OnlyCalls, StackOK
<1>2. HasNo(cs, {"callback"}) /\ HasNo(cs, {"idle"})
  BY DEF OnlyCalls, HasNo, PlainCalls
<1>3. StackOK(t, cs \o r) /\ (HasNo(cs \o r, {"idle"}) <=> HasNo(r, {"idle"}))
  BY <1>1, <1>2, ConcatFrames DEF OnlyCalls
<1>4. Depth(cs \o r) = Depth(r)
  BY <1>1, <1>2, SameDepth
<1>5. OnlyCalls(t, cs, IdleCalls) => (IdleAt(cs \o r) <=> IdleAt(r))
  BY <1>1, IdleBelow DEF OnlyCalls
<1>6. cs # << >> => cs \o r # << >> /\ Head(cs \o r) = Head(cs)
  BY <1>1
<1> QED
  BY <1>3, <1>4, <1>5, <1>6

LEMMA Popped ==
  ASSUME NEW t, NEW s, StackOK(t, s), s # << >>
  PROVE  /\ FrameOK(t, Head(s)) /\ StackOK(t, Tail(s))
         /\ Head(s).fn # "callback" => Depth(s) = Depth(Tail(s))
         /\ Head(s).fn = "callback" => Depth(s) = Depth(Tail(s)) + 1
         /\ \A fns : HasNo(s, fns) <=> Head(s).fn \notin fns /\ HasNo(Tail(s), fns)
         /\ Head(s).fn \in IdleCalls => (IdleAt(s) <=> IdleAt(Tail(s)))
         /\ Head(s).fn = "idle" => (IdleAt(s) <=> HasNo(Tail(s), {"idle", "callback"}))
         /\ IdleAt(s) => Head(s).fn \in IdleCalls \cup {"idle"}
<1> DEFINE f == Head(s)
           o == << f >>
           r == Tail(s)
<1>1. s \in Seq(Frames)
  BY DEF StackOK
<1>2. f \in Frames /\ o \in Seq(Frames) /\ r \in Seq(Frames) /\ s = o \o r
  BY <1>1, Uncons
<1> HIDE DEF f, r
<1>3. DOMAIN o = {1} /\ o[1] = f
  BY <1>2
<1>4. HasNo(o, {"callback"}) <=> f.fn # "callback"
  BY <1>3 DEF HasNo
<1>5. \A fns : HasNo(o, fns) <=> f.fn \notin fns
  BY <1>3 DEF HasNo
<1>6. StackOK(t, o) <=> FrameOK(t, f)
  BY <1>2, <1>3 DEF StackOK
<1>7. f.fn = "callback" => Depth(s) = Depth(r) + 1
  BY <1>2, OneDeeper
<1>8. f.fn = "idle" => (IdleAt(s) <=> HasNo(r, {"idle", "callback"}))
  BY <1>2, IdleHere
<1> HIDE DEF o
<1>9. FrameOK(t, f) /\ StackOK(t, r)
  BY <1>2, <1>6, ConcatFrames
<1>10. f.fn # "callback" => Depth(s) = Depth(r)
  BY <1>2, <1>4, SameDepth
<1>11. \A fns : HasNo(s, fns) <=> f.fn \notin fns /\ HasNo(r, fns)
  BY <1>2, <1>5, ConcatFrames
<1>12. f.fn \in IdleCalls => (IdleAt(s) <=> IdleAt(r))
  BY <1>2, <1>3, IdleBelow
<1>13. IdleAt(s) => f.fn \in IdleCalls \cup {"idle"}
  <2> SUFFICES ASSUME IdleAt(s) PROVE f.fn \in IdleCalls \cup {"idle"}
    OBVIOUS
  <2>1. PICK n \in DOMAIN s : s[n].fn = "idle" /\ \A i \in 1 .. n - 1 : s[i].fn \in IdleCalls
    BY DEF IdleAt
  <2>2. DOMAIN s = 1 .. Len(s) /\ Len(s) \in Nat
    BY <1>1, LenProperties
  <2>3. f = s[1]
    BY <1>1 DEF f
  <2>4. n = 1 \/ 1 \in 1 .. n - 1
    BY <2>1, <2>2
  <2> QED
    BY <2>1, <2>3, <2>4
<1> QED
  BY <1>7, <1>8, <1>9, <1>10, <1>11, <1>12, <1>13 DEF f, r

LEMMA NoCalls ==
  ASSUME NEW t, NEW fns
  PROVE  OnlyCalls(t, << >>, fns)
BY DEF OnlyCalls, StackOK

LEMMA OneCall ==
  ASSUME NEW t, NEW fns, NEW f, FrameOK(t, f), f.fn \in fns
  PROVE  OnlyCalls(t, << f >>, fns) /\ << f >> # << >> /\ Head(<< f >>) = f
<1>1. f \in Frames
  BY DEF FrameOK
<1>2. << f >> \in Seq(Frames) /\ DOMAIN << f >> = {1} /\ << f >>[1] = f
  BY <1>1
<1> QED
  BY <1>2 DEF OnlyCalls, StackOK

LEMMA TwoCalls ==
  ASSUME NEW t, NEW fns, NEW f, NEW g, FrameOK(t, f), f.fn \in fns, FrameOK(t, g), g.fn \in fns
  PROVE  OnlyCalls(t, << f, g >>, fns) /\ << f, g >> # << >> /\ Head(<< f, g >>) = f
<1>1. f \in Frames /\ g \in Frames
  BY DEF FrameOK
<1> DEFINE o == << f, g >>
<1>2. o \in Seq(Frames) /\ DOMAIN o = {1, 2} /\ o[1] = f /\ o[2] = g /\ Head(o) = f /\ o # << >>
  BY <1>1
<1> HIDE DEF o
<1>3. OnlyCalls(t, o, fns)
  BY <1>2 DEF OnlyCalls, StackOK
<1> QED
  BY <1>2, <1>3 DEF o

LEMMA ThreeCalls ==
  ASSUME NEW t, NEW fns, NEW f, NEW g, NEW h, FrameOK(t, f), f.fn \in fns,
         FrameOK(t, g), g.fn \in fns, FrameOK(t, h), h.fn \in fns
  PROVE  OnlyCalls(t, << f, g, h >>, fns)
<1>1. f \in Frames /\ g \in Frames /\ h \in Frames
  BY DEF FrameOK
<1> DEFINE o == << f, g, h >>
<1>2. o \in Seq(Frames) /\ DOMAIN o = {1, 2, 3} /\ o[1] = f /\ o[2] = g /\ o[3] = h
  BY <1>1
<1> HIDE DEF o
<1>3. OnlyCalls(t, o, fns)
  BY <1>2 DEF OnlyCalls, StackOK
<1> QED
  BY <1>3 DEF o

-----------------------------------------------------------------------------
(* The actions.                                                            *)

(* The calls the scheduler makes are well formed.                          *)
LEMMA FrameTypes ==
  ASSUME NEW fn \in FrameFns, NEW obj \in Waitables \cup {NULL},
         NEW arg \in Threads \cup (0 .. MaxPrio + 1)
  PROVE  /\ Frame(fn, obj, arg) \in Frames
         /\ Frame(fn, obj, arg).fn = fn /\ Frame(fn, obj, arg).obj = obj
         /\ Frame(fn, obj, arg).arg = arg
BY DEF Frame, Frames

LEMMA SmallNumbers == 0 \in 0 .. MaxPrio + 1 /\ 1 \in 0 .. MaxPrio + 1
BY OsConstants

LEMMA KernelCalls ==
  ASSUME NEW t
  PROVE  /\ FrameOK(t, ReschedCall) /\ ReschedCall.fn = "resched"
         /\ FrameOK(t, Callback) /\ Callback.fn = "callback"
         /\ FrameOK(t, Frame("idle", NULL, 0)) /\ Frame("idle", NULL, 0).fn = "idle"
         /\ FrameOK(t, Frame("ticks", NULL, 0)) /\ Frame("ticks", NULL, 0).fn = "ticks"
<1>1. \A fn \in {"resched", "callback", "idle", "ticks"} :
         FrameOK(t, Frame(fn, NULL, 0)) /\ Frame(fn, NULL, 0).fn = fn
  BY FrameTypes, SmallNumbers DEF FrameOK, FrameFns
<1> QED
  BY <1>1 DEF ReschedCall, Callback

LEMMA QueueCalls ==
  ASSUME NEW t \in Threads, NEW q \in Waitables
  PROVE  /\ FrameOK(t, WakeCall(q)) /\ WakeCall(q).fn = "wake"
         /\ FrameOK(t, Frame("sleepcall", q, 0)) /\ Frame("sleepcall", q, 0).fn = "sleepcall"
         /\ FrameOK(t, Frame("sleep", q, t)) /\ Frame("sleep", q, t).fn = "sleep"
         /\ q \in Mutexes => FrameOK(t, Frame("lock", q, 0)) /\ Frame("lock", q, 0).fn = "lock"
<1>1. FrameOK(t, Frame("wake", q, 0)) /\ Frame("wake", q, 0).fn = "wake"
  BY FrameTypes, SmallNumbers DEF FrameOK, FrameFns
<1>2. FrameOK(t, Frame("sleepcall", q, 0)) /\ Frame("sleepcall", q, 0).fn = "sleepcall"
  BY FrameTypes, SmallNumbers DEF FrameOK, FrameFns
<1>3. FrameOK(t, Frame("sleep", q, t)) /\ Frame("sleep", q, t).fn = "sleep"
  BY FrameTypes DEF FrameOK, FrameFns
<1>4. q \in Mutexes => FrameOK(t, Frame("lock", q, 0)) /\ Frame("lock", q, 0).fn = "lock"
  BY FrameTypes, SmallNumbers DEF FrameOK, FrameFns
<1> QED
  BY <1>1, <1>2, <1>3, <1>4 DEF WakeCall

LEMMA OwnerCalls ==
  ASSUME NEW t, NEW x \in Threads \cup {NULL}, NEW p \in 0 .. MaxPrio + 1
  PROVE  /\ FrameOK(t, Frame("promote", x, p)) /\ Frame("promote", x, p).fn = "promote"
         /\ FrameOK(t, Frame("propagate", x, 0)) /\ Frame("propagate", x, 0).fn = "propagate"
<1>1. x \in Waitables \cup {NULL}
  BY DEF Waitables
<1>2. FrameOK(t, Frame("promote", x, p)) /\ Frame("promote", x, p).fn = "promote"
  BY <1>1, FrameTypes DEF FrameOK, FrameFns
<1>3. FrameOK(t, Frame("propagate", x, 0)) /\ Frame("propagate", x, 0).fn = "propagate"
  BY <1>1, FrameTypes, SmallNumbers DEF FrameOK, FrameFns
<1> QED
  BY <1>2, <1>3

LEMMA SelectCalls ==
  ASSUME NEW t, os \in OsMemory, NEW force \in {0, 1}
  PROVE  FrameOK(t, SelectCall(force)) /\ SelectCall(force).fn = "select"
<1>1. os.timers \in SUBSET Threads
  BY DEF OsMemory
<1>2. Frame("select", NULL, force) \in Frames /\ Frame("select", NULL, force).fn = "select"
  BY FrameTypes, SmallNumbers DEF FrameFns
<1> DEFINE f == Frame("select", NULL, force)
<1> HIDE DEF f
<1>3. f \in Frames /\ f.fn = "select" /\ SelectCall(force) = [f EXCEPT !.due = os.timers]
  BY <1>2 DEF f, SelectCall
<1>4. SelectCall(force) \in Frames /\ SelectCall(force).fn = "select"
  BY <1>1, <1>3 DEF Frames
<1> QED
  BY <1>4 DEF FrameOK

-----------------------------------------------------------------------------
(* Steps of the executing fiber.                                           *)

(* What the invariant says of the executing fiber.                         *)
LEMMA TheFiber ==
  ASSUME IInv
  PROVE  /\ LifeInstance
         /\ MemoryOK(os) /\ os \in OsMemory
         /\ exec \in Threads /\ exec # NULL /\ exec # Idle
         /\ StackOK(exec, stack[exec])
         /\ ExecOK(os, exec, stack[exec])
         /\ \A t \in Threads : StackOK(t, stack[t])
         /\ stack \in [Threads -> Seq(Frames)]
<1>1. exec \in Threads /\ MemoryOK(os) /\ os \in OsMemory
  BY DEF IInv, FibersOK, MemoryOK, ListsOK
<1> QED
  BY <1>1, Pointers DEF IInv, FibersOK

(* The fiber goes on with the stack s.                                     *)
LEMMA FiberSteps ==
  ASSUME IInv, NEW s, StackOK(exec, s), MemoryOK(os'), ExecOK(os', exec, s),
         stack' = [stack EXCEPT ![exec] = s], exec' = exec
  PROVE  IInv'
<1>1. exec \in Threads /\ stack \in [Threads -> Seq(Frames)] /\ LifeInstance
  BY TheFiber
<1>2. s \in Seq(Frames)
  BY DEF StackOK
<1>3. stack' \in [Threads -> Seq(Frames)] /\ stack'[exec] = s
  BY <1>1, <1>2
<1>4. \A t \in Threads \ {exec} : stack'[t] = stack[t]
  BY <1>1
<1>5. \A t \in Threads : StackOK(t, stack'[t])
  BY <1>3, <1>4, TheFiber
<1>6. \A t \in Threads \ {exec} : HasNo(stack'[t], {"idle", "callback"})
  BY <1>4 DEF IInv, FibersOK
<1>7. FibersOK'
  BY <1>1, <1>3, <1>5, <1>6 DEF FibersOK
<1>8. ExecOK(os', exec', stack'[exec'])
  BY <1>3
<1> QED
  BY <1>1, <1>7, <1>8 DEF IInv, LifeInstance, Mortal

(* A calm change of memory, with a stack as deep in callbacks.             *)
LEMMA CalmExec ==
  ASSUME NEW k, NEW j, NEW e \in Threads, NEW s, NEW u,
         Calm(j, k), ExecOK(k, e, s), Depth(u) = Depth(s),
         Live(k, e, s) => /\ HasNo(u, {"idle"})
                          /\ k.state[e] = "RUNNING" \/ Leaving(j, u) \/ Exiting(j, u),
         Idling(k, s) => IdleAt(u)
  PROVE  ExecOK(j, e, u)
<1>1. CASE Live(k, e, s)
  <2>1. Live(j, e, u)
    BY <1>1 DEF Live, Calm
  <2> QED
    BY <2>1 DEF ExecOK, Calm
<1>2. CASE Idling(k, s)
  <2>1. Idling(j, u)
    BY <1>2 DEF Idling, Calm
  <2> QED
    BY <2>1 DEF ExecOK, Calm
<1> QED
  BY <1>1, <1>2 DEF ExecOK

(* The innermost call is replaced, or returns.                             *)
LEMMA Replaces ==
  ASSUME IInv, stack[exec] # << >>, Top.fn \in PlainCalls,
         NEW cs, OnlyCalls(exec, cs, PlainCalls), Continue(cs),
         MemoryOK(os'), Calm(os', os),
         Idling(os, stack[exec]) => OnlyCalls(exec, cs, IdleCalls),
         Live(os, exec, stack[exec]) =>
           \/ os.state[exec] = "RUNNING"
           \/ Leaving(os', cs)
           \/ Exiting(os', cs \o Tail(stack[exec]))
  PROVE  IInv'
<1> DEFINE s == stack[exec]
           r == Tail(s)
           u == cs \o r
<1>1. exec \in Threads /\ StackOK(exec, s) /\ ExecOK(os, exec, s) /\ s # << >>
  BY TheFiber
<1>2. stack' = [stack EXCEPT ![exec] = u] /\ exec' = exec
  BY DEF Continue
<1>3. Head(s).fn \in PlainCalls
  BY DEF Top
<1> HIDE DEF s, r
<1>4. /\ StackOK(exec, r) /\ Depth(s) = Depth(r)
      /\ HasNo(s, {"idle"}) => HasNo(r, {"idle"})
      /\ IdleAt(s) => IdleAt(r)
  BY <1>1, <1>3, Popped DEF r, PlainCalls
<1>5. /\ StackOK(exec, u) /\ Depth(u) = Depth(s)
      /\ HasNo(s, {"idle"}) => HasNo(u, {"idle"})
      /\ cs # << >> => u # << >> /\ Head(u) = Head(cs)
      /\ OnlyCalls(exec, cs, IdleCalls) => (IdleAt(s) => IdleAt(u))
  <2> HIDE DEF u
  <2>1. /\ StackOK(exec, u) /\ Depth(u) = Depth(r)
        /\ HasNo(r, {"idle"}) => HasNo(u, {"idle"})
        /\ cs # << >> => u # << >> /\ Head(u) = Head(cs)
        /\ OnlyCalls(exec, cs, IdleCalls) => (IdleAt(r) => IdleAt(u))
    BY <1>4, Pushed DEF u
  <2> QED
    BY <1>4, <2>1
<1>6. Exiting(os', cs \o Tail(stack[exec])) => Exiting(os', u)
  BY DEF r, s
<1> HIDE DEF u
<1>7. Live(os, exec, s) => /\ HasNo(u, {"idle"})
                           /\ os.state[exec] = "RUNNING" \/ Leaving(os', u) \/ Exiting(os', u)
  BY <1>5, <1>6 DEF Live, Leaving, s
<1>8. Idling(os, s) => IdleAt(u)
  BY <1>5 DEF Idling, s
<1>9. ExecOK(os', exec, u)
  BY <1>1, <1>5, <1>7, <1>8, CalmExec
<1> QED
  BY <1>2, <1>5, <1>9, FiberSteps

(* Calls are made by whatever is innermost.                                *)
LEMMA Pushes ==
  ASSUME IInv, NEW cs, OnlyCalls(exec, cs, PlainCalls), Push(cs),
         MemoryOK(os'), Calm(os', os),
         Idling(os, stack[exec]) => OnlyCalls(exec, cs, IdleCalls),
         Live(os, exec, stack[exec]) => os.state[exec] = "RUNNING"
  PROVE  IInv'
<1> DEFINE s == stack[exec]
           u == cs \o s
<1>1. exec \in Threads /\ StackOK(exec, s) /\ ExecOK(os, exec, s)
  BY TheFiber
<1>2. stack' = [stack EXCEPT ![exec] = u] /\ exec' = exec
  BY DEF Push
<1> HIDE DEF s
<1>3. /\ StackOK(exec, u) /\ Depth(u) = Depth(s)
      /\ HasNo(s, {"idle"}) => HasNo(u, {"idle"})
      /\ OnlyCalls(exec, cs, IdleCalls) => (IdleAt(s) => IdleAt(u))
  BY <1>1, Pushed
<1> HIDE DEF u
<1>4. Live(os, exec, s) => HasNo(u, {"idle"}) /\ os.state[exec] = "RUNNING"
  BY <1>3 DEF Live, s
<1>5. Idling(os, s) => IdleAt(u)
  BY <1>3 DEF Idling, s
<1>6. ExecOK(os', exec, u)
  BY <1>1, <1>3, <1>4, <1>5, CalmExec
<1> QED
  BY <1>2, <1>3, <1>6, FiberSteps

(* A thread that ends makes another of its calls.                          *)
LEMMA ExitMakes ==
  ASSUME NEW k, NEW r \in Seq(Frames), Exiting(k, r),
         NEW f \in Frames, f.fn \in {"unlockall", "wake"}, f.fn = "wake" /\ f.arg = 1 => Asked(k)
  PROVE  Exiting(k, << f >> \o r)
<1> DEFINE u == << f >> \o r
<1>1. << f >> \in Seq(Frames) /\ r # << >>
  BY DEF Exiting
<1>2. /\ u # << >> /\ Len(u) = Len(r) + 1 /\ Len(r) > 0
      /\ \A i \in DOMAIN u : u[i] = IF i = 1 THEN f ELSE r[i - 1]
      /\ \A i \in DOMAIN u : i # 1 => i - 1 \in DOMAIN r
      /\ u[Len(u)] = r[Len(r)]
  BY <1>1
<1> HIDE DEF u
<1>3. \A i \in DOMAIN u :
        /\ u[i].fn \in {"unlockall", "wake", "exit"}
        /\ u[i].fn = "wake" /\ u[i].arg = 1 => Asked(k)
  BY <1>2 DEF Exiting
<1> QED
  BY <1>2, <1>3 DEF Exiting

(* The calls of a thread that ends, one by one.                            *)
LEMMA ExitGoesOn ==
  ASSUME NEW k, NEW j, NEW s, s \in Seq(Frames), Exiting(k, s), Calm(j, k)
  PROVE  /\ Head(s).fn \in EndingCalls
         /\ Head(s).fn = "wake" /\ Head(s).arg = 1 => Asked(k)
         /\ Head(s).fn # "exit" => Exiting(j, << >> \o Tail(s))
         /\ \A f \in Frames :
              /\ Head(s).fn # "exit" /\ f.fn \in {"unlockall", "wake"}
              /\ f.fn = "wake" /\ f.arg = 1 => Asked(j)
              => Exiting(j, << f >> \o Tail(s))
<1>1. s # << >> /\ Head(s) = s[1] /\ 1 \in DOMAIN s /\ Len(s) \in Nat /\ Len(s) > 0
  BY DEF Exiting
<1>2. Head(s).fn \in EndingCalls /\ (Head(s).fn = "wake" /\ Head(s).arg = 1 => Asked(k))
  BY <1>1 DEF Exiting, EndingCalls
<1>3. ASSUME Head(s).fn # "exit"
      PROVE  Exiting(j, Tail(s))
  <2>1. Len(s) # 1
    BY <1>1, <1>3 DEF Exiting
  <2> DEFINE r == Tail(s)
  <2>2. /\ Len(r) = Len(s) - 1 /\ r \in Seq(Frames)
        /\ \A i \in 1 .. Len(r) : r[i] = s[i + 1]
    BY <1>1
  <2> HIDE DEF r
  <2>3. /\ \A i \in DOMAIN r : i + 1 \in DOMAIN s /\ r[i] = s[i + 1]
        /\ r # << >> /\ Len(r) \in DOMAIN r
    BY <1>1, <2>1, <2>2
  <2> QED
    BY <1>1, <1>3, <2>2, <2>3 DEF Exiting, Calm, r
<1>4. << >> \o Tail(s) = Tail(s)
  BY <1>1
<1>5. Tail(s) \in Seq(Frames)
  BY <1>1
<1> QED
  BY <1>2, <1>3, <1>4, <1>5, ExitMakes

LEMMA Unchanged ==
  ASSUME IInv, UNCHANGED os
  PROVE  MemoryOK(os') /\ Calm(os', os)
BY TheFiber DEF Calm

(* A fiber that is leaving stays on its way to the switch.                 *)
LEMMA StillLeaving ==
  ASSUME Live(os, exec, stack[exec]), os.state[exec] # "RUNNING",
         Top.fn \notin EndingCalls, Calm(os', os),
         NEW cs, cs # << >>, Head(cs).fn \in {"select", "resched"}
  PROVE  Leaving(os', cs)
<1>1. ~Exiting(os, stack[exec])
  BY DEF Exiting, EndingCalls, Top
<1> QED
  BY <1>1 DEF Live, Leaving, Calm

(* Inside a call other than SelectThread, a reschedule and the calls of a  *)
(* thread that ends, and in guest code, a live thread is RUNNING.          *)
LEMMA LiveRuns ==
  ASSUME Live(os, exec, stack[exec]),
         stack[exec] = << >> \/ Top.fn \notin EndingCalls \cup {"select", "resched"}
  PROVE  os.state[exec] = "RUNNING"
<1>1. ~Exiting(os, stack[exec])
  BY DEF Exiting, EndingCalls, Top
<1> QED
  BY <1>1 DEF Live, Leaving, Top

LEMMA GuestRuns ==
  ASSUME Live(os, exec, stack[exec]), AtGuest
  PROVE  os.state[exec] = "RUNNING"
BY LiveRuns DEF AtGuest, Inside, Top, EndingCalls

(* With a running thread the executing fiber is its fiber.                 *)
LEMMA RunningIsLive ==
  ASSUME IInv, os.running # NULL \/ os.current = exec
  PROVE  Live(os, exec, stack[exec]) /\ ~Idling(os, stack[exec])
BY TheFiber DEF ExecOK, Idling

(* The calls that are never made from the idle loop.                       *)
LEMMA NotFromIdle ==
  ASSUME IInv, stack[exec] # << >>, Top.fn \notin IdleCalls \cup {"idle"}
  PROVE  /\ Live(os, exec, stack[exec]) /\ ~Idling(os, stack[exec])
         /\ os.running = exec /\ os.current = exec
         /\ Top.fn \notin {"unlockall", "exit"} => os.state[exec] = "RUNNING"
         /\ os.state[exec] = "RUNNING" \/ Exiting(os, stack[exec])
<1>1. ~IdleAt(stack[exec])
  BY TheFiber, Popped DEF Top
<1>2. Live(os, exec, stack[exec]) /\ ~Idling(os, stack[exec])
  BY <1>1, TheFiber DEF ExecOK, Idling
<1>3. Top.fn \notin {"select", "resched", "wake"}
  BY DEF IdleCalls
<1> QED
  BY <1>2, <1>3, LiveRuns DEF Live, Leaving, EndingCalls, Top

(* The innermost call is well formed.                                      *)
LEMMA TopOK ==
  ASSUME IInv, stack[exec] # << >>
  PROVE  FrameOK(exec, Top) /\ Top \in Frames
<1>1. FrameOK(exec, Top)
  BY TheFiber, Popped DEF Top
<1> QED
  BY <1>1 DEF FrameOK

LEMMA InsideTop ==
  ASSUME NEW fn, Inside(fn)
  PROVE  stack[exec] # << >> /\ Top.fn = fn
BY DEF Inside, Top

-----------------------------------------------------------------------------
(* SelectThread.                                                           *)

LEMMA SelectReturnsStep ==
  ASSUME IInv, SelectReturns
  PROVE  IInv'
<1>1. stack[exec] # << >> /\ Top.fn = "select" /\ Top.fn \in PlainCalls
  BY InsideTop DEF SelectReturns, PlainCalls, FrameFns
<1>2. Live(os, exec, stack[exec]) => os.state[exec] = "RUNNING"
  <2> SUFFICES ASSUME Live(os, exec, stack[exec]), os.state[exec] # "RUNNING" PROVE FALSE
    OBVIOUS
  <2>1. os.disable = 0 /\ os.running = exec /\ os.current = exec
    BY <1>1 DEF Live, Leaving, Exiting, Top
  <2>2. ~SelectRefused /\ ~SelectKeeps
    BY <2>1, TheFiber DEF SelectRefused, SelectKeeps
  <2> QED
    BY <2>2 DEF SelectReturns
<1>3. MemoryOK(os') /\ Calm(os', os)
  BY Unchanged DEF SelectReturns
<1>4. Continue(<< >>)
  BY DEF SelectReturns
<1> QED
  BY <1>1, <1>2, <1>3, <1>4, NoCalls, Replaces

(* The first thread of the strongest pending priority takes over.          *)
LEMMA Dispatches ==
  ASSUME IInv, NEW k, MemoryOK(k), k.pending # {}, k.disable = 0,
         \A t \in Threads : k.state[t] # "RUNNING",
         stack[exec] # << >>, HasNo(Tail(stack[exec]), {"idle", "callback"}),
         Dispatch(k)
  PROVE  IInv'
<1> DEFINE x == Head(k.queue[Min(k.pending)])
           s == IF ThreadStateIsTerminated(k.state[exec]) THEN << >> ELSE Tail(stack[exec])
<1>1. os' = Started(k) /\ exec' = x
  BY DEF Dispatch, Started
<1>2. stack' = [stack EXCEPT ![exec] = s]
  BY DEF Dispatch
<1> HIDE DEF x
<1>3. /\ x \in Threads
      /\ MemoryOK(os')
      /\ os'.state = [k.state EXCEPT ![x] = "RUNNING"]
      /\ os'.running = x /\ os'.current = x /\ os'.disable = k.disable
  BY <1>1, DispatchOK DEF x
<1>4. StackOK(exec, s) /\ HasNo(s, {"idle", "callback"})
  BY TheFiber, Popped, NoCalls DEF HasNo, OnlyCalls
<1> HIDE DEF s
<1>5. s \in Seq(Frames) /\ exec \in Threads /\ stack \in [Threads -> Seq(Frames)] /\ LifeInstance
  BY <1>4, TheFiber DEF StackOK
<1>6. stack' \in [Threads -> Seq(Frames)]
  BY <1>2, <1>5
<1>7. ASSUME NEW t \in Threads
      PROVE  StackOK(t, stack'[t]) /\ HasNo(stack'[t], {"idle", "callback"})
  <2>1. CASE t = exec
    BY <1>2, <1>4, <1>5, <2>1
  <2>2. CASE t # exec
    BY <1>2, <1>5, <2>2, TheFiber DEF IInv, FibersOK
  <2> QED
    BY <2>1, <2>2
<1>8. FibersOK'
  BY <1>1, <1>3, <1>6, <1>7 DEF FibersOK
<1>9. ExecOK(os', exec', stack'[exec'])
  <2> DEFINE u == stack'[x]
  <2>1. u \in Seq(Frames) /\ HasNo(u, {"callback"}) /\ HasNo(u, {"idle"})
    BY <1>3, <1>6, <1>7 DEF HasNo
  <2> HIDE DEF u
  <2>2. Depth(u) = 0
    BY <2>1, BatchesFinite
  <2>3. k.state \in [Threads -> ThreadStates]
    BY DEF MemoryOK, ListsOK, OsMemory
  <2>4. os'.state[x] = "RUNNING" /\ \A t \in Threads : os'.state[t] = "RUNNING" => t = x
    BY <1>3, <2>3
  <2>5. ExecOK(os', x, u)
    BY <1>3, <2>1, <2>2, <2>4 DEF ExecOK, Live
  <2> QED
    BY <1>1, <2>5 DEF u
<1> QED
  BY <1>3, <1>5, <1>8, <1>9 DEF IInv, LifeInstance, Mortal

(* Where SelectThread gives up the processor: nothing is left RUNNING, and *)
(* no callback batch is on the stack.                                      *)
LEMMA GivesUp ==
  ASSUME IInv, Inside("select"), ~SelectRefused
  PROVE  /\ stack[exec] # << >>
         /\ HasNo(Tail(stack[exec]), {"idle", "callback"})
         /\ MemoryOK(Preempted)
         /\ Preempted.disable = 0
         /\ \A t \in Threads : Preempted.state[t] # "RUNNING"
         /\ Preempted.pending = {} => Preempted = os
<1>1. stack[exec] # << >> /\ Top.fn = "select"
  BY InsideTop
<1>2. os.running # NULL /\ os.current = os.running
  BY DEF SelectRefused
<1>3. Live(os, exec, stack[exec]) /\ os.running = exec
  BY <1>2, RunningIsLive DEF Live
<1>4. os.disable = 0
  <2>1. os.qptr[exec] \in Queues \cup {NULL} /\ os.disable \in Nat
    BY TheFiber DEF OsMemory
  <2>2. RunningQueue # Dwc
    BY <1>2, <1>3, <2>1, SchedulerConstants, TheFiber DEF RunningQueue, LifeInstance
  <2> QED
    BY <2>1, <2>2 DEF SelectRefused
<1>5. HasNo(Tail(stack[exec]), {"idle", "callback"})
  <2>1. HasNo(stack[exec], {"callback"})
    <3>1. Depth(stack[exec]) = 0 /\ stack[exec] \in Seq(Frames)
      BY <1>4, TheFiber DEF ExecOK
    <3> QED
      BY <3>1, BatchesFinite
  <2>2. HasNo(stack[exec], {"idle", "callback"})
    BY <1>3, <2>1 DEF Live, HasNo
  <2> QED
    BY <1>1, <2>2, TheFiber, Popped
<1>6. \A t \in Threads : os.state[t] = "RUNNING" => t = exec
  BY <1>3, TheFiber DEF ExecOK
<1>7. CASE os.state[exec] = "RUNNING"
  <2> DEFINE p == os.prio[exec]
             j == Preempted
  <2>1. j = MarkRunQueuePending(LinkThreadOnRunQueue([os EXCEPT !.state[exec] = "READY"], exec, p), p)
    BY <1>3, <1>7 DEF Preempted
  <2>2. p = os.prio[exec] /\ exec \in Threads /\ MemoryOK(os)
    BY TheFiber
  <2> HIDE DEF p, j
  <2>3. /\ MemoryOK(j) /\ j.pending # {}
        /\ j.state = [os.state EXCEPT ![exec] = "READY"]
        /\ j.disable = os.disable
    BY <1>7, <2>1, <2>2, PreemptOK
  <2>4. os.state \in [Threads -> ThreadStates]
    BY TheFiber DEF OsMemory
  <2>5. \A t \in Threads : j.state[t] # "RUNNING"
    BY <1>6, <2>3, <2>4
  <2> QED
    BY <1>1, <1>4, <1>5, <2>3, <2>5 DEF j
<1>8. CASE os.state[exec] # "RUNNING"
  <2>1. Preempted = os
    BY <1>3, <1>8 DEF Preempted
  <2> QED
    BY <1>1, <1>4, <1>5, <1>6, <1>8, <2>1, TheFiber
<1> QED
  BY <1>7, <1>8

LEMMA SelectSwitchesStep ==
  ASSUME IInv, SelectSwitches
  PROVE  IInv'
<1> DEFINE k == Preempted
<1>1. k.pending # {} /\ Dispatch(k)
  BY DEF SelectSwitches
<1>2. /\ stack[exec] # << >>
      /\ HasNo(Tail(stack[exec]), {"idle", "callback"})
      /\ MemoryOK(k) /\ k.disable = 0
      /\ \A t \in Threads : k.state[t] # "RUNNING"
  BY GivesUp DEF SelectSwitches
<1> HIDE DEF k
<1> QED
  BY <1>1, <1>2, Dispatches

LEMMA SelectIdlesStep ==
  ASSUME IInv, SelectIdles
  PROVE  IInv'
<1> DEFINE f == Frame("idle", NULL, 0)
           r == Tail(stack[exec])
           u == << f >> \o r
<1>1. /\ stack[exec] # << >> /\ HasNo(r, {"idle", "callback"})
      /\ os.disable = 0 /\ \A t \in Threads : os.state[t] # "RUNNING"
      /\ os' = [os EXCEPT !.running = NULL, !.current = Idle]
  BY GivesUp DEF SelectIdles
<1>2. stack' = [stack EXCEPT ![exec] = u] /\ exec' = exec
  BY DEF SelectIdles, Continue
<1>3. FrameOK(exec, f) /\ f.fn = "idle" /\ f \in Frames
  BY KernelCalls DEF FrameOK
<1>4. StackOK(exec, r) /\ r \in Seq(Frames)
  BY <1>1, TheFiber, Popped DEF StackOK
<1> HIDE DEF f, r
<1>5. << f >> \in Seq(Frames) /\ StackOK(exec, << f >>) /\ HasNo(<< f >>, {"callback"})
  BY <1>3 DEF StackOK, HasNo
<1>6. StackOK(exec, u) /\ IdleAt(u) /\ Depth(u) = Depth(r)
  BY <1>1, <1>3, <1>4, <1>5, ConcatFrames, IdleHere, SameDepth
<1>7. HasNo(r, {"callback"})
  BY <1>1 DEF HasNo
<1>8. Depth(u) = 0
  BY <1>4, <1>6, <1>7, BatchesFinite
<1>9. os' \in OsMemory
  BY <1>1, TheFiber DEF OsMemory
<1>10. /\ os'.queue = os.queue /\ os'.pending = os.pending /\ os'.qptr = os.qptr
       /\ os'.state = os.state /\ os'.susp = os.susp /\ os'.prio = os.prio
       /\ os'.owner = os.owner /\ os'.count = os.count /\ os'.disable = os.disable
       /\ os'.running = NULL /\ os'.current = Idle
  BY <1>1, TheFiber DEF OsMemory
<1>11. MemoryOK(os')
  BY <1>9, <1>10, TheFiber, QuietChanges DEF MemoryOK, ListsOK
<1> HIDE DEF u
<1>12. ExecOK(os', exec, u)
  BY <1>1, <1>6, <1>8, <1>10 DEF ExecOK, Idling
<1> QED
  BY <1>2, <1>6, <1>11, <1>12, FiberSteps

(* The timers and parks of a thread may go.                                *)
LEMMA TimerDropped ==
  ASSUME NEW k, NEW t, MemoryOK(k),
         NEW j, j = [k EXCEPT !.timers = @ \ {t}, !.parks = @ \ {t}]
  PROVE  MemoryOK(j) /\ Calm(j, k) /\ j.state = k.state /\ j.susp = k.susp
<1>1. k \in OsMemory /\ \A m \in Mutexes : k.owner[m] = NULL <=> k.count[m] = 0
  BY DEF MemoryOK, ListsOK
<1>2. k.timers \ {t} \in SUBSET Threads /\ k.parks \ {t} \in SUBSET Threads
  BY <1>1 DEF OsMemory
<1>3. j \in OsMemory
  BY <1>1, <1>2 DEF OsMemory
<1>4. /\ j.queue = k.queue /\ j.pending = k.pending /\ j.qptr = k.qptr
      /\ j.state = k.state /\ j.susp = k.susp /\ j.prio = k.prio
      /\ j.owner = k.owner /\ j.count = k.count /\ j.resched = k.resched
      /\ j.disable = k.disable /\ j.running = k.running /\ j.current = k.current
  BY <1>1 DEF OsMemory
<1>5. \A m \in Mutexes : j.owner[m] = NULL <=> j.count[m] = 0
  BY <1>1, <1>4
<1>6. MemoryOK(j)
  BY <1>3, <1>4, <1>5, QuietChanges
<1> QED
  BY <1>4, <1>6 DEF Calm, Asked

LEMMA CalmTransitive ==
  ASSUME NEW i, NEW j, NEW k, Calm(i, j), Calm(j, k)
  PROVE  Calm(i, k)
BY DEF Calm

LEMMA Pair ==
  ASSUME NEW f \in Frames, NEW g \in Frames
  PROVE  << g, f >> = << g >> \o << f >>
<1> DEFINE a == << g >>
           c == << f >>
           b == << g, f >>
           d == a \o c
<1>1. /\ a \in Seq(Frames) /\ Len(a) = 1 /\ a[1] = g
      /\ c \in Seq(Frames) /\ Len(c) = 1 /\ c[1] = f
      /\ b \in Seq(Frames) /\ Len(b) = 2 /\ b[1] = g /\ b[2] = f
  OBVIOUS
<1> HIDE DEF a, b, c
<1>2. /\ d \in Seq(Frames) /\ Len(d) = Len(a) + Len(c)
      /\ \A i \in 1 .. Len(a) + Len(c) : d[i] = IF i <= Len(a) THEN a[i] ELSE c[i - Len(a)]
  BY <1>1, ConcatProperties
<1> HIDE DEF d
<1>3. Len(d) = 2 /\ d[1] = g /\ d[2] = f
  BY <1>1, <1>2
<1>4. \A i \in 1 .. Len(b) : b[i] = d[i]
  BY <1>1, <1>3
<1>5. b = d
  BY <1>1, <1>2, <1>3, <1>4, SeqEqual
<1> QED
  BY <1>5 DEF a, b, c, d

(* The idle loop's frame stays on the stack, perhaps under a reschedule.   *)
LEMMA IdleGoesOn ==
  ASSUME IInv, Inside("idle"), NEW f, FrameOK(exec, f), f.fn = "idle",
         NEW cs, cs = << f >> \/ cs = << ReschedCall, f >>,
         Continue(cs), MemoryOK(os'), Calm(os', os)
  PROVE  IInv'
<1> DEFINE s == stack[exec]
           r == Tail(s)
           g == ReschedCall
           v == << f >> \o r
           w == << g >> \o v
           u == cs \o r
<1>1. exec \in Threads /\ StackOK(exec, s) /\ ExecOK(os, exec, s) /\ s # << >> /\ Head(s).fn = "idle"
  BY TheFiber, InsideTop DEF Top
<1>2. stack' = [stack EXCEPT ![exec] = u] /\ exec' = exec
  BY DEF Continue
<1>3. f \in Frames /\ g \in Frames /\ FrameOK(exec, g) /\ g.fn = "resched"
  BY KernelCalls DEF FrameOK
<1> HIDE DEF s, g
<1>4. /\ StackOK(exec, r) /\ Depth(s) = Depth(r) /\ ~HasNo(s, {"idle"})
      /\ IdleAt(s) => HasNo(r, {"idle", "callback"})
  BY <1>1, Popped DEF r
<1> HIDE DEF r
<1>5. r \in Seq(Frames)
  BY <1>4 DEF StackOK
<1>6. /\ << f >> \in Seq(Frames) /\ StackOK(exec, << f >>) /\ HasNo(<< f >>, {"callback"})
      /\ << g >> \in Seq(Frames) /\ StackOK(exec, << g >>) /\ HasNo(<< g >>, {"callback"})
      /\ \A i \in DOMAIN << g >> : << g >>[i].fn \in IdleCalls
  BY <1>3 DEF StackOK, HasNo, IdleCalls
<1>7. /\ v \in Seq(Frames) /\ StackOK(exec, v) /\ Depth(v) = Depth(s)
      /\ IdleAt(s) => IdleAt(v)
  <2>1. StackOK(exec, v) /\ Depth(v) = Depth(r)
    BY <1>3, <1>4, <1>5, <1>6, ConcatFrames, SameDepth
  <2>2. IdleAt(s) => IdleAt(v)
    BY <1>3, <1>4, <1>5, IdleHere
  <2> QED
    BY <1>4, <2>1, <2>2 DEF StackOK
<1>8. /\ StackOK(exec, w) /\ Depth(w) = Depth(s)
      /\ IdleAt(s) => IdleAt(w)
  <2> HIDE DEF v
  <2>1. StackOK(exec, w) /\ Depth(w) = Depth(v)
    BY <1>6, <1>7, ConcatFrames, SameDepth
  <2>2. IdleAt(w) <=> IdleAt(v)
    BY <1>6, <1>7, IdleBelow
  <2> QED
    BY <1>7, <2>1, <2>2
<1>9. u = v \/ u = w
  <2>1. << g, f >> = << g >> \o << f >>
    BY <1>3, Pair
  <2>2. (<< g >> \o << f >>) \o r = w
    BY <1>5, <1>6, ConcatAssociative
  <2>3. cs = << f >> \/ cs = << g, f >>
    BY DEF g
  <2> QED
    BY <2>1, <2>2, <2>3
<1> HIDE DEF u, v, w
<1>10. StackOK(exec, u) /\ Depth(u) = Depth(s) /\ (IdleAt(s) => IdleAt(u))
  BY <1>7, <1>8, <1>9
<1>11. ExecOK(os', exec, u)
  BY <1>1, <1>4, <1>10, CalmExec DEF Live, Idling
<1> QED
  BY <1>2, <1>10, <1>11, FiberSteps

LEMMA AppendedCalls ==
  ASSUME NEW f \in Frames, NEW g \in Frames
  PROVE  Append(<< >>, f) = << f >> /\ Append(<< g >>, f) = << g, f >>
<1>1. << >> \in Seq(Frames) /\ << f >> \in Seq(Frames) /\ << g >> \in Seq(Frames)
  OBVIOUS
<1>2. Append(<< >>, f) = << >> \o << f >> /\ Append(<< g >>, f) = << g >> \o << f >>
  BY <1>1, AppendIsConcat
<1>3. << >> \o << f >> = << f >>
  BY <1>1, ConcatEmptySeq
<1>4. << g >> \o << f >> = << g, f >>
  BY Pair
<1> QED
  BY <1>2, <1>3, <1>4

LEMMA ProcessSleepTimersStep ==
  ASSUME IInv, NEW t \in Threads, ProcessSleepTimers(t)
  PROVE  IInv'
<1> DEFINE k == [os EXCEPT !.timers = @ \ {t}, !.parks = @ \ {t}]
           f == [Top EXCEPT !.due = @ \ {t}]
<1>1. MemoryOK(k) /\ Calm(k, os) /\ k.state = os.state /\ k.susp = os.susp
  BY TheFiber, TimerDropped
<1>2. stack[exec] # << >> /\ Top.fn \in {"idle", "select"}
  BY InsideTop DEF ProcessSleepTimers
<1>3. FrameOK(exec, f) /\ f.fn = Top.fn
  <2>1. Top \in Frames
    BY <1>2, TopOK
  <2>2. f \in Frames /\ f.fn = Top.fn
    BY <2>1 DEF Frames
  <2> HIDE DEF f
  <2> QED
    BY <1>2, <2>2 DEF FrameOK
<1>4. \E cs : /\ cs = << f >> \/ cs = << ReschedCall, f >>
              /\ Continue(cs)
              /\ MemoryOK(os') /\ Calm(os', os)
  <2>1. CASE os.state[t] = "READY" /\ os.susp[t] >= 1
    <3>1. os' = Resume(k, t) /\ Continue(Append(AfterResume(k, t), f))
      BY <2>1 DEF ProcessSleepTimers
    <3> HIDE DEF k, f
    <3>2. AfterResume(k, t) = << >> \/ AfterResume(k, t) = << ReschedCall >>
      BY <1>1, <2>1 DEF AfterResume
    <3>3. Append(AfterResume(k, t), f) = << f >> \/ Append(AfterResume(k, t), f) = << ReschedCall, f >>
      <4>1. Append(<< >>, f) = << f >> /\ Append(<< ReschedCall >>, f) = << ReschedCall, f >>
        BY <1>3, KernelCalls, AppendedCalls DEF FrameOK
      <4> QED
        BY <3>2, <4>1
    <3>4. MemoryOK(os') /\ Calm(os', k)
      BY <1>1, <2>1, <3>1, ResumeOK
    <3> QED
      BY <1>1, <3>1, <3>3, <3>4, CalmTransitive
  <2>2. CASE ~(os.state[t] = "READY" /\ os.susp[t] >= 1)
    <3>1. os' = k /\ Continue(<< f >>)
      BY <2>2 DEF ProcessSleepTimers
    <3> HIDE DEF k, f
    <3> QED
      BY <1>1, <3>1
  <2> QED
    BY <2>1, <2>2
<1> HIDE DEF f
<1>5. PICK cs : /\ cs = << f >> \/ cs = << ReschedCall, f >>
                /\ Continue(cs)
                /\ MemoryOK(os') /\ Calm(os', os)
  BY <1>4
<1>6. CASE Top.fn = "idle"
  BY <1>2, <1>3, <1>5, <1>6, IdleGoesOn DEF Inside, Top
<1>7. CASE Top.fn = "select"
  <2>1. /\ FrameOK(exec, f) /\ f.fn = "select"
        /\ FrameOK(exec, ReschedCall) /\ ReschedCall.fn = "resched"
    BY <1>3, <1>7, KernelCalls
  <2>2. {"select", "resched"} \subseteq PlainCalls /\ {"select", "resched"} \subseteq IdleCalls
    BY DEF PlainCalls, FrameFns, IdleCalls
  <2>3. /\ OnlyCalls(exec, cs, PlainCalls) /\ OnlyCalls(exec, cs, IdleCalls)
        /\ cs # << >> /\ Head(cs).fn \in {"select", "resched"}
    BY <1>5, <2>1, <2>2, OneCall, TwoCalls
  <2>4. Live(os, exec, stack[exec]) => os.state[exec] = "RUNNING" \/ Leaving(os', cs)
    BY <1>5, <1>7, <2>3, StillLeaving DEF EndingCalls
  <2> QED
    BY <1>2, <1>5, <1>7, <2>2, <2>3, <2>4, Replaces
<1> QED
  BY <1>2, <1>6, <1>7

LEMMA IdleEventStep ==
  ASSUME IInv, NEW q \in HostQueues, IdleEvent(q)
  PROVE  IInv'
<1> DEFINE cs == << WakeCall(q) >>
<1>1. q \in Waitables
  BY SchedulerConstants DEF Waitables
<1>2. FrameOK(exec, WakeCall(q)) /\ WakeCall(q).fn = "wake"
  BY <1>1, TheFiber, QueueCalls
<1>3. OnlyCalls(exec, cs, PlainCalls) /\ OnlyCalls(exec, cs, IdleCalls)
  BY <1>2, OneCall DEF PlainCalls, FrameFns, IdleCalls
<1>4. stack[exec] # << >> /\ Top.fn = "idle" /\ Push(cs) /\ UNCHANGED os
  BY InsideTop DEF IdleEvent
<1>5. ~HasNo(stack[exec], {"idle"})
  BY <1>4, TheFiber, Popped DEF Top
<1> HIDE DEF cs
<1> QED
  BY <1>3, <1>4, <1>5, Unchanged, Pushes DEF Live

LEMMA IdleEndsStep ==
  ASSUME IInv, IdleEnds
  PROVE  IInv'
<1>1. stack[exec] # << >> /\ Top.fn = "idle" /\ os.pending # {} /\ Dispatch(os)
  BY InsideTop DEF IdleEnds
<1>2. ~HasNo(stack[exec], {"idle"})
  BY <1>1, TheFiber, Popped DEF Top
<1>3. Idling(os, stack[exec])
  BY <1>2, TheFiber DEF ExecOK, Live
<1>4. /\ StackOK(exec, Tail(stack[exec]))
      /\ Depth(stack[exec]) = Depth(Tail(stack[exec]))
      /\ HasNo(Tail(stack[exec]), {"idle", "callback"})
  BY <1>1, <1>3, TheFiber, Popped DEF Idling, Top
<1>5. os.disable = 0
  <2>1. HasNo(Tail(stack[exec]), {"callback"}) /\ Tail(stack[exec]) \in Seq(Frames)
    BY <1>4 DEF HasNo, StackOK
  <2>2. Depth(Tail(stack[exec])) = 0
    BY <2>1, BatchesFinite
  <2> QED
    BY <1>4, <2>2, TheFiber DEF ExecOK
<1>6. \A t \in Threads : os.state[t] # "RUNNING"
  BY <1>3, Pointers, TheFiber DEF ExecOK, Idling
<1> QED
  BY <1>1, <1>4, <1>5, <1>6, TheFiber, Dispatches

LEMMA ReschedTailStep ==
  ASSUME IInv, ReschedTail
  PROVE  IInv'
<1> DEFINE f  == SelectCall(0)
           cs == IF os.resched THEN << f >> ELSE << >>
<1>1. stack[exec] # << >> /\ Top.fn = "resched" /\ Continue(cs) /\ UNCHANGED os
  BY InsideTop DEF ReschedTail
<1>2. FrameOK(exec, f) /\ f.fn = "select"
  BY TheFiber, SelectCalls
<1> HIDE DEF f
<1>3. {"select", "resched"} \subseteq PlainCalls /\ {"select", "resched"} \subseteq IdleCalls
  BY DEF PlainCalls, FrameFns, IdleCalls
<1>4. OnlyCalls(exec, cs, PlainCalls) /\ OnlyCalls(exec, cs, IdleCalls)
  BY <1>2, <1>3, OneCall, NoCalls
<1>5. Live(os, exec, stack[exec]) => os.state[exec] = "RUNNING" \/ Leaving(os', cs)
  <2> SUFFICES ASSUME Live(os, exec, stack[exec]), os.state[exec] # "RUNNING"
               PROVE  Leaving(os', cs)
    OBVIOUS
  <2>1. Asked(os)
    BY <1>1 DEF Live, Leaving, Exiting, Top
  <2>2. cs = << f >>
    BY <2>1 DEF Asked
  <2> QED
    BY <1>1, <1>2, <2>2, OneCall, Unchanged, StillLeaving DEF EndingCalls
<1> HIDE DEF cs
<1> QED
  BY <1>1, <1>3, <1>4, <1>5, Unchanged, Replaces

-----------------------------------------------------------------------------
(* Waking and sleeping.                                                    *)

LEMMA WakeupThreadQueueStep ==
  ASSUME IInv, WakeupThreadQueue
  PROVE  IInv'
<1> DEFINE q == Top.obj
<1>1. stack[exec] # << >> /\ Top.fn = "wake" /\ Top \in Frames /\ q \in Waitables
  BY InsideTop, TopOK DEF WakeupThreadQueue, FrameOK
<1>2. {"wake", "select"} \subseteq PlainCalls /\ {"wake", "select"} \subseteq IdleCalls
  BY DEF PlainCalls, FrameFns, IdleCalls
<1>3. Live(os, exec, stack[exec]) => os.state[exec] = "RUNNING" \/ Exiting(os, stack[exec])
  BY <1>1 DEF Live, Leaving, Top
<1>4. \E cs : /\ OnlyCalls(exec, cs, PlainCalls) /\ OnlyCalls(exec, cs, IdleCalls)
              /\ Continue(cs) /\ MemoryOK(os') /\ Calm(os', os)
              /\ Exiting(os, stack[exec]) =>
                   Leaving(os', cs) \/ Exiting(os', cs \o Tail(stack[exec]))
  <2>1. CASE os.queue[q] # << >>
    <3> DEFINE f == [Top EXCEPT !.arg = IF WakeReschedules(os, q) THEN 1 ELSE @]
    <3>1. os' = WakeHead(os, q) /\ Continue(<< f >>)
      BY <2>1 DEF WakeupThreadQueue
    <3>2. f \in Frames /\ f.fn = "wake" /\ f.obj = q
      <4> HIDE DEF q
      <4> QED
        BY <1>1, SmallNumbers DEF Frames, q
    <3>6. f.arg = IF WakeReschedules(os, q) THEN 1 ELSE Top.arg
      BY <1>1 DEF Frames
    <3> HIDE DEF f
    <3>3. FrameOK(exec, f)
      BY <1>1, <3>2 DEF FrameOK
    <3> HIDE DEF q
    <3>4. MemoryOK(os') /\ Calm(os', os)
      BY <1>1, <2>1, <3>1, TheFiber, WakeHeadOK
    <3>5. Exiting(os, stack[exec]) => Exiting(os', << f >> \o Tail(stack[exec]))
      <4> SUFFICES ASSUME Exiting(os, stack[exec]) PROVE Exiting(os', << f >> \o Tail(stack[exec]))
        OBVIOUS
      <4>1. f.arg = 1 => WakeReschedules(os, q) \/ Top.arg = 1
        BY <3>6
      <4>2. WakeReschedules(os, q) => Asked(os')
        BY <1>1, <2>1, <3>1, TheFiber, WakeHeadAsks
      <4>3. Top.arg = 1 => Asked(os)
        BY <1>1, <3>4, TheFiber, ExitGoesOn DEF Top, StackOK
      <4>4. f.fn = "wake" /\ f.arg = 1 => Asked(os')
        BY <3>4, <4>1, <4>2, <4>3 DEF Calm
      <4> QED
        BY <1>1, <3>2, <3>4, <4>4, TheFiber, ExitGoesOn DEF Top, StackOK
    <3> QED
      BY <1>2, <3>1, <3>2, <3>3, <3>4, <3>5, OneCall
  <2>2. CASE os.queue[q] = << >>
    <3> DEFINE f == SelectCall(0)
    <3>1. Continue(IF Top.arg = 1 THEN << f >> ELSE << >>) /\ UNCHANGED os
      BY <2>2 DEF WakeupThreadQueue
    <3>2. FrameOK(exec, f) /\ f.fn = "select"
      BY TheFiber, SelectCalls
    <3> HIDE DEF f
    <3>3. CASE Top.arg = 1
      <4>1. Exiting(os, stack[exec]) => Leaving(os', << f >>)
        <5> SUFFICES ASSUME Exiting(os, stack[exec]) PROVE Leaving(os', << f >>)
          OBVIOUS
        <5>1. Asked(os) /\ os.disable = 0
          BY <1>1, <3>3, TheFiber, Unchanged, <3>1, ExitGoesOn DEF Top, StackOK, Exiting
        <5> QED
          BY <3>1, <3>2, <5>1, OneCall DEF Leaving, Asked
      <4> QED
        BY <1>2, <3>1, <3>2, <3>3, <4>1, OneCall, Unchanged
    <3>4. CASE Top.arg # 1
      <4>1. Exiting(os, stack[exec]) => Exiting(os', << >> \o Tail(stack[exec]))
        BY <1>1, <3>1, TheFiber, Unchanged, ExitGoesOn DEF Top, StackOK
      <4> QED
        BY <3>1, <3>4, <4>1, NoCalls, Unchanged
    <3> QED
      BY <3>3, <3>4
  <2> QED
    BY <2>1, <2>2
<1> QED
  BY <1>1, <1>2, <1>3, <1>4, Replaces

(* A live thread that gives up the processor: its fiber is leaving.        *)
LEMMA Leaves ==
  ASSUME IInv, Live(os, exec, stack[exec]), os.disable = 0,
         MemoryOK(os'), Asked(os'),
         os'.disable = os.disable, os'.running = os.running, os'.current = os.current,
         \A t \in Threads \ {exec} : os'.state[t] = os.state[t],
         NEW u, StackOK(exec, u), Depth(u) = Depth(stack[exec]), HasNo(u, {"idle"}),
         u # << >>, Head(u).fn \in {"select", "resched"},
         stack' = [stack EXCEPT ![exec] = u], exec' = exec
  PROVE  IInv'
<1>1. os.running = exec /\ os.current = exec
  BY DEF Live
<1>2. \A t \in Threads : os'.state[t] = "RUNNING" => t = os'.running
  BY <1>1, TheFiber DEF ExecOK
<1>3. Live(os', exec, u)
  BY <1>1 DEF Live, Leaving
<1>4. ExecOK(os', exec, u)
  BY <1>2, <1>3, TheFiber DEF ExecOK
<1> QED
  BY <1>4, FiberSteps

LEMMA SleepBeginsStep ==
  ASSUME IInv, SleepBegins
  PROVE  IInv'
<1> DEFINE q == Top.obj
           w == [os EXCEPT !.state[exec] = "WAITING", !.resched = TRUE]
           f == SelectCall(0)
           g == Frame("sleep", q, exec)
           s == stack[exec]
           cs == << f, g >>
           u == cs \o Tail(s)
<1>1. stack[exec] # << >> /\ Top.fn = "sleepcall" /\ q \in Waitables /\ q # NULL
  <2>1. stack[exec] # << >> /\ Top.fn = "sleepcall"
    BY InsideTop DEF SleepBegins
  <2>2. q \in Waitables
    BY <2>1, TopOK DEF FrameOK
  <2> QED
    BY <2>1, <2>2, Pointers DEF Queues
<1>2. /\ Live(os, exec, s) /\ ~Idling(os, s)
      /\ os.state[exec] = "RUNNING" /\ os.running = exec /\ exec # NULL
  BY <1>1, NotFromIdle, TheFiber DEF IdleCalls
<1>3. q # Dwc /\ q \in Queues
  BY <1>1, TheFiber DEF LifeInstance, Queues
<1>4. CASE os.disable > 0
  <2>1. UNCHANGED os /\ Continue(<< >>)
    BY <1>2, <1>3, <1>4 DEF SleepBegins
  <2>2. "sleepcall" \in PlainCalls
    BY DEF PlainCalls, FrameFns
  <2> QED
    BY <1>1, <1>2, <2>1, <2>2, NoCalls, Unchanged, Replaces
<1>5. CASE ~(os.disable > 0)
  <2>1. /\ os' = InsertThreadIntoQueueByPriority(w, q, exec, os.prio[exec])
        /\ Continue(cs)
    BY <1>2, <1>5 DEF SleepBegins
  <2>2. os.disable = 0
    BY <1>5, TheFiber DEF OsMemory
  <2>3. /\ OnlyCalls(exec, cs, PlainCalls) /\ cs # << >>
        /\ Head(cs) = f /\ f.fn \in {"select", "resched"}
    <3>1. FrameOK(exec, f) /\ f.fn = "select" /\ FrameOK(exec, g) /\ g.fn = "sleep"
      BY <1>1, TheFiber, SelectCalls, QueueCalls
    <3> HIDE DEF f, g
    <3> QED
      BY <3>1, TwoCalls DEF PlainCalls, FrameFns
  <2>4. w \in OsMemory
    <3>1. [os.state EXCEPT ![exec] = "WAITING"] \in [Threads -> ThreadStates]
      BY TheFiber DEF OsMemory, ThreadStates
    <3>2. w = [os EXCEPT !.state = [os.state EXCEPT ![exec] = "WAITING"], !.resched = TRUE]
      BY TheFiber DEF OsMemory
    <3> QED
      BY <3>1, <3>2, TheFiber DEF OsMemory
  <2>5. /\ w.state = [os.state EXCEPT ![exec] = "WAITING"] /\ Asked(w)
        /\ w.queue = os.queue /\ w.pending = os.pending /\ w.qptr = os.qptr
        /\ w.susp = os.susp /\ w.prio = os.prio /\ w.owner = os.owner /\ w.count = os.count
        /\ w.disable = os.disable /\ w.running = os.running /\ w.current = os.current
    BY TheFiber DEF OsMemory, Asked
  <2> HIDE DEF w, q
  <2>6. w.state[exec] = "WAITING" /\ \A t \in Threads \ {exec} : w.state[t] = os.state[t]
    BY <2>5, TheFiber DEF OsMemory
  <2>7. Loose(w, exec)
    <3>1. Loose(os, exec)
      BY <1>2, TheFiber, StartsToMove DEF Linked
    <3>2. \A m \in Mutexes : w.owner[m] = NULL <=> w.count[m] = 0
      BY <2>5, TheFiber DEF MemoryOK, ListsOK
    <3>3. OnlyChanges(w, os, exec)
      BY <2>4, <2>5, <2>6, <3>2 DEF OnlyChanges
    <3> QED
      BY <3>1, <3>3, TheFiber, MovingChanges
  <2>8. Belongs(w, exec, q) /\ w.prio[exec] # SuspendedWaitPriority
    <3>1. q \notin Prios
      BY <1>1, Pointers
    <3>2. ThreadOK(os, exec)
      BY TheFiber DEF MemoryOK
    <3> QED
      BY <1>2, <2>5, <2>6, <3>1, <3>2 DEF Belongs, ThreadOK, Ended, ThreadStateIsTerminated
  <2>9. MemoryOK(os') /\ Unmoved(os', w)
    BY <1>3, <2>1, <2>7, <2>8, TheFiber, InsertJoins
  <2>10. /\ Asked(os') /\ os'.disable = os.disable
         /\ os'.running = os.running /\ os'.current = os.current
         /\ \A t \in Threads \ {exec} : os'.state[t] = os.state[t]
    BY <2>5, <2>6, <2>9 DEF Unmoved, Asked
  <2> HIDE DEF f, cs
  <2>11. stack' = [stack EXCEPT ![exec] = u] /\ exec' = exec
    BY <2>1 DEF Continue
  <2>12. /\ StackOK(exec, u) /\ Depth(u) = Depth(s) /\ HasNo(u, {"idle"})
         /\ u # << >> /\ Head(u).fn \in {"select", "resched"}
    <3>1. /\ StackOK(exec, Tail(s)) /\ Depth(s) = Depth(Tail(s))
          /\ HasNo(s, {"idle"}) => HasNo(Tail(s), {"idle"})
      BY <1>1, TheFiber, Popped DEF Top
    <3>2. HasNo(s, {"idle"})
      BY <1>2 DEF Live
    <3> QED
      BY <2>3, <3>1, <3>2, Pushed
  <2> HIDE DEF u
  <2> QED
    BY <1>2, <2>2, <2>9, <2>10, <2>11, <2>12, Leaves
<1> QED
  BY <1>4, <1>5

LEMMA SleepReturnsStep ==
  ASSUME IInv, SleepReturns
  PROVE  IInv'
<1>1. stack[exec] # << >> /\ Top.fn = "sleep" /\ Top.arg = exec
  BY InsideTop, TopOK DEF SleepReturns, FrameOK
<1>2. /\ Live(os, exec, stack[exec]) /\ ~Idling(os, stack[exec])
      /\ os.state[exec] = "RUNNING"
  BY <1>1, NotFromIdle DEF IdleCalls
<1>3. UNCHANGED os /\ Continue(<< >>)
  BY <1>1, <1>2 DEF SleepReturns
<1>4. "sleep" \in PlainCalls
  BY DEF PlainCalls, FrameFns
<1> QED
  BY <1>1, <1>2, <1>3, <1>4, NoCalls, Unchanged, Replaces

LEMMA TicksTailStep ==
  ASSUME IInv, TicksTail
  PROVE  IInv'
<1>1. stack[exec] # << >> /\ Top.fn = "ticks"
  BY InsideTop DEF TicksTail
<1>2. /\ Live(os, exec, stack[exec]) /\ ~Idling(os, stack[exec])
      /\ os.state[exec] = "RUNNING"
  BY <1>1, NotFromIdle DEF IdleCalls
<1>3. os.susp[exec] = 0
  BY <1>2, TheFiber DEF MemoryOK, ThreadOK
<1>4. UNCHANGED os /\ Continue(<< >>)
  BY <1>3 DEF TicksTail
<1>5. "ticks" \in PlainCalls
  BY DEF PlainCalls, FrameFns
<1> QED
  BY <1>1, <1>2, <1>4, <1>5, NoCalls, Unchanged, Replaces

-----------------------------------------------------------------------------
(* Mutexes and priorities.                                                 *)

LEMMA WaitsOnChanges ==
  ASSUME NEW k, MemoryOK(k), NEW x \in Threads, NEW v \in Mutexes \cup {NULL},
         NEW j, j = [k EXCEPT !.waitsOn[x] = v]
  PROVE  MemoryOK(j) /\ Calm(j, k)
<1> DEFINE w == [k.waitsOn EXCEPT ![x] = v]
<1>1. k \in OsMemory /\ \A m \in Mutexes : k.owner[m] = NULL <=> k.count[m] = 0
  BY DEF MemoryOK, ListsOK
<1>2. w \in [Threads -> Mutexes \cup {NULL}]
  BY <1>1 DEF OsMemory
<1>3. j = [k EXCEPT !.waitsOn = w]
  BY <1>1 DEF OsMemory
<1> HIDE DEF w
<1>4. j \in OsMemory
  BY <1>1, <1>2, <1>3 DEF OsMemory
<1>5. /\ j.queue = k.queue /\ j.pending = k.pending /\ j.qptr = k.qptr
      /\ j.state = k.state /\ j.susp = k.susp /\ j.prio = k.prio
      /\ j.owner = k.owner /\ j.count = k.count /\ j.resched = k.resched
      /\ j.disable = k.disable /\ j.running = k.running /\ j.current = k.current
  BY <1>1, <1>3 DEF OsMemory
<1>6. \A m \in Mutexes : j.owner[m] = NULL <=> j.count[m] = 0
  BY <1>1, <1>5
<1>7. MemoryOK(j)
  BY <1>4, <1>5, <1>6, QuietChanges
<1> QED
  BY <1>5, <1>7 DEF Calm, Asked

LEMMA LockTurnStep ==
  ASSUME IInv, LockTurn
  PROVE  IInv'
<1> DEFINE m == Top.obj
           o == os.owner[m]
           k == [os EXCEPT !.waitsOn[exec] = NULL]
           a == Frame("promote", o, os.prio[exec])
           b == Frame("sleepcall", m, 0)
           c == Top
<1>1. /\ stack[exec] # << >> /\ c.fn = "lock" /\ m \in Mutexes /\ FrameOK(exec, c)
  BY InsideTop, TopOK DEF LockTurn, FrameOK
<1>2. m \in Waitables
  BY <1>1 DEF Waitables
<1>3. /\ Live(os, exec, stack[exec]) /\ ~Idling(os, stack[exec])
      /\ os.state[exec] = "RUNNING"
  BY <1>1, NotFromIdle DEF IdleCalls
<1>4. MemoryOK(k) /\ Calm(k, os)
  BY TheFiber, WaitsOnChanges
<1>5. \E cs : OnlyCalls(exec, cs, PlainCalls) /\ Continue(cs) /\ MemoryOK(os') /\ Calm(os', os)
  <2>1. CASE o \in {NULL, exec}
    <3>1. os' = Acquire(k, m, exec) /\ Continue(<< >>)
      BY <2>1 DEF LockTurn
    <3> HIDE DEF k, m
    <3>2. MemoryOK(os') /\ Calm(os', k)
      BY <1>1, <1>4, <3>1, TheFiber, AcquireOK
    <3> QED
      BY <1>4, <3>1, <3>2, CalmTransitive, NoCalls
  <2>2. CASE o \notin {NULL, exec}
    <3>1. os' = [k EXCEPT !.waitsOn[exec] = m] /\ Continue(<< a, b, c >>)
      BY <2>2 DEF LockTurn
    <3>2. FrameOK(exec, a) /\ a.fn = "promote"
      <4>1. o \in Threads \cup {NULL} /\ os.prio[exec] \in Prios \cup {SuspendedWaitPriority}
        BY <1>1, TheFiber DEF OsMemory
      <4>2. os.prio[exec] \in 0 .. MaxPrio + 1
        BY <4>1, OsConstants DEF Prios, SuspendedWaitPriority
      <4> HIDE DEF o
      <4> QED
        BY <4>1, <4>2, OwnerCalls
    <3>3. FrameOK(exec, b) /\ b.fn = "sleepcall"
      BY <1>2, TheFiber, QueueCalls
    <3> HIDE DEF a, b, c, k, m
    <3>4. OnlyCalls(exec, << a, b, c >>, PlainCalls)
      BY <1>1, <3>2, <3>3, ThreeCalls DEF PlainCalls, FrameFns
    <3>5. MemoryOK(os') /\ Calm(os', k)
      BY <1>1, <1>4, <3>1, TheFiber, WaitsOnChanges
    <3> QED
      BY <1>4, <3>1, <3>4, <3>5, CalmTransitive
  <2> QED
    BY <2>1, <2>2
<1>6. "lock" \in PlainCalls
  BY DEF PlainCalls, FrameFns
<1> QED
  BY <1>1, <1>3, <1>5, <1>6, Replaces

(* The chain of owners stays among the threads.                            *)
LEMMA Owners ==
  ASSUME NEW t \in Threads, os \in OsMemory
  PROVE  /\ NextOwner(os, t) \in Threads \cup {NULL}
         /\ MutexOwner(os, t) \in Threads \cup {NULL}
BY DEF NextOwner, MutexOwner, OsMemory

LEMMA PromoteTurnStep ==
  ASSUME IInv, PromoteTurn
  PROVE  IInv'
<1> DEFINE t == Top.obj
           p == Top.arg
<1>1. /\ stack[exec] # << >> /\ Top.fn = "promote"
      /\ t \in Threads \cup {NULL} /\ p \in 0 .. MaxPrio + 1
  BY InsideTop, TopOK DEF PromoteTurn, FrameOK
<1>2. /\ Live(os, exec, stack[exec]) /\ ~Idling(os, stack[exec])
      /\ os.state[exec] = "RUNNING"
  BY <1>1, NotFromIdle DEF IdleCalls
<1>3. "promote" \in PlainCalls
  BY DEF PlainCalls, FrameFns
<1>4. CASE t = NULL \/ os.susp[t] > 0 \/ os.prio[t] <= p
  <2>1. UNCHANGED os /\ Continue(<< >>)
    BY <1>4 DEF PromoteTurn
  <2> QED
    BY <1>1, <1>2, <1>3, <2>1, NoCalls, Unchanged, Replaces
<1>5. CASE ~(t = NULL \/ os.susp[t] > 0 \/ os.prio[t] <= p)
  <2> DEFINE f == Frame("promote", NextOwner(os, t), p)
  <2>1. os' = SetThreadEffectivePriority(os, t, p) /\ Continue(<< f >>)
    BY <1>5 DEF PromoteTurn
  <2> HIDE DEF t, p
  <2>2. t \in Threads /\ os.susp[t] \in Nat /\ os.prio[t] \in Prios \cup {SuspendedWaitPriority}
    BY <1>1, <1>5, TheFiber DEF OsMemory
  <2>3. os.susp[t] = 0 /\ p \in Prios
    BY <1>1, <1>5, <2>2, OsConstants DEF Prios, SuspendedWaitPriority
  <2>4. MemoryOK(os') /\ Calm(os', os)
    BY <2>1, <2>2, <2>3, TheFiber, SetPriorityOK
  <2>5. FrameOK(exec, f) /\ f.fn = "promote"
    BY <1>1, <2>2, TheFiber, Owners, OwnerCalls
  <2> HIDE DEF f
  <2> QED
    BY <1>1, <1>2, <1>3, <2>1, <2>4, <2>5, OneCall, Replaces
<1> QED
  BY <1>4, <1>5

LEMMA PropagateTurnStep ==
  ASSUME IInv, PropagateTurn
  PROVE  IInv'
<1> DEFINE t == Top.obj
           p == ComputeThreadEffectivePriority(os, t)
<1>1. /\ stack[exec] # << >> /\ Top.fn = "propagate" /\ t \in Threads \cup {NULL}
  BY InsideTop, TopOK DEF PropagateTurn, FrameOK
<1>2. Live(os, exec, stack[exec]) => os.state[exec] = "RUNNING"
  BY <1>1, LiveRuns DEF EndingCalls
<1>3. "propagate" \in PlainCalls /\ "propagate" \in IdleCalls
  BY DEF PlainCalls, FrameFns, IdleCalls
<1>4. CASE t = NULL \/ os.susp[t] > 0 \/ os.prio[t] = p
  <2>1. UNCHANGED os /\ Continue(<< >>)
    BY <1>4 DEF PropagateTurn
  <2> QED
    BY <1>1, <1>2, <1>3, <2>1, NoCalls, Unchanged, Replaces
<1>5. CASE ~(t = NULL \/ os.susp[t] > 0 \/ os.prio[t] = p)
  <2> DEFINE f == Frame("propagate", NextOwner(os, t), 0)
  <2>1. os' = SetThreadEffectivePriority(os, t, p) /\ Continue(<< f >>)
    BY <1>5 DEF PropagateTurn
  <2>2. t \in Threads
    BY <1>1, <1>5
  <2>3. p \in Prios
    BY <2>2, TheFiber, EffectivePriority
  <2> HIDE DEF p, t
  <2>4. os.susp[t] = 0
    BY <1>5, <2>2, TheFiber DEF OsMemory
  <2>5. MemoryOK(os') /\ Calm(os', os)
    BY <2>1, <2>2, <2>3, <2>4, TheFiber, SetPriorityOK
  <2>6. FrameOK(exec, f) /\ f.fn = "propagate"
    BY <2>2, SmallNumbers, TheFiber, Owners, OwnerCalls
  <2> HIDE DEF f
  <2> QED
    BY <1>1, <1>2, <1>3, <2>1, <2>5, <2>6, OneCall, Replaces
<1> QED
  BY <1>4, <1>5

-----------------------------------------------------------------------------
(* The calls of guest code.                                                *)

(* A single call made by guest code that leaves the memory alone.          *)
LEMMA GuestCalls ==
  ASSUME IInv, AtGuest, UNCHANGED os, NEW f, Push(<< f >>),
         FrameOK(exec, f), f.fn \in PlainCalls, f.fn \in IdleCalls \/ os.running # NULL
  PROVE  IInv'
<1>1. Live(os, exec, stack[exec]) => os.state[exec] = "RUNNING"
  BY GuestRuns
<1>2. f.fn \in IdleCalls => OnlyCalls(exec, << f >>, IdleCalls)
  BY OneCall
<1>3. OnlyCalls(exec, << f >>, PlainCalls)
  BY OneCall
<1>4. os.running # NULL => ~Idling(os, stack[exec])
  BY RunningIsLive
<1> QED
  BY <1>1, <1>2, <1>3, <1>4, Unchanged, Pushes

LEMMA OneCallSteps ==
  ASSUME IInv,
         \/ \E q \in WaitQueues : OSWakeupThread(q) \/ OSSleepThread(q)
         \/ \E m \in Mutexes : OSLockMutex(m)
         \/ OSYieldThread
  PROVE  IInv'
<1>1. WaitQueues \subseteq Waitables /\ Mutexes \subseteq Waitables
  BY DEF Waitables
<1>2. {"wake", "sleepcall", "lock", "select"} \subseteq PlainCalls /\ {"wake", "select"} \subseteq IdleCalls
  BY DEF PlainCalls, FrameFns, IdleCalls
<1>3. ASSUME NEW q \in WaitQueues, OSWakeupThread(q) PROVE IInv'
  <2>1. FrameOK(exec, WakeCall(q)) /\ WakeCall(q).fn = "wake"
    BY <1>1, TheFiber, QueueCalls
  <2> QED
    BY <1>2, <1>3, <2>1, GuestCalls DEF OSWakeupThread, May
<1>4. ASSUME NEW q \in WaitQueues, OSSleepThread(q) PROVE IInv'
  <2> DEFINE f == Frame("sleepcall", q, 0)
  <2>1. FrameOK(exec, f) /\ f.fn = "sleepcall"
    BY <1>1, TheFiber, QueueCalls
  <2>2. AtGuest /\ os.running # NULL /\ Push(<< f >>) /\ UNCHANGED os
    BY <1>4 DEF OSSleepThread, May
  <2> HIDE DEF f
  <2> QED
    BY <1>2, <2>1, <2>2, GuestCalls
<1>5. ASSUME NEW m \in Mutexes, OSLockMutex(m) PROVE IInv'
  <2> DEFINE f == Frame("lock", m, 0)
  <2>1. FrameOK(exec, f) /\ f.fn = "lock"
    BY <1>1, TheFiber, QueueCalls
  <2>2. AtGuest /\ os.running # NULL /\ Push(<< f >>) /\ UNCHANGED os
    BY <1>5 DEF OSLockMutex, May
  <2> HIDE DEF f
  <2> QED
    BY <1>2, <2>1, <2>2, GuestCalls
<1>6. ASSUME OSYieldThread PROVE IInv'
  <2>1. FrameOK(exec, SelectCall(1)) /\ SelectCall(1).fn = "select"
    BY TheFiber, SelectCalls
  <2> QED
    BY <1>2, <1>6, <2>1, GuestCalls DEF OSYieldThread, May
<1> QED
  BY <1>3, <1>4, <1>5, <1>6

LEMMA UnlockMutexStep ==
  ASSUME IInv, NEW m \in Mutexes, OSUnlockMutex(m)
  PROVE  IInv'
<1> DEFINE f  == WakeCall(m)
           cs == IF os.count[m] = 1 THEN << f >> ELSE << >>
<1>1. /\ AtGuest /\ os.running # NULL /\ os.owner[m] = os.running
      /\ os' = Release(os, m, os.running) /\ Push(cs)
  BY DEF OSUnlockMutex, May
<1>2. Live(os, exec, stack[exec]) /\ ~Idling(os, stack[exec])
  BY <1>1, RunningIsLive
<1>3. os.running = exec /\ os.state[exec] = "RUNNING"
  BY <1>1, <1>2, GuestRuns DEF Live
<1>4. MemoryOK(os') /\ Calm(os', os)
  BY <1>1, <1>3, TheFiber, ReleaseOK
<1>5. FrameOK(exec, f) /\ f.fn = "wake"
  <2>1. m \in Waitables
    BY DEF Waitables
  <2> QED
    BY <2>1, TheFiber, QueueCalls
<1> HIDE DEF f
<1>6. OnlyCalls(exec, cs, PlainCalls)
  <2>1. "wake" \in PlainCalls
    BY DEF PlainCalls, FrameFns
  <2> QED
    BY <1>5, <2>1, OneCall, NoCalls
<1> HIDE DEF cs
<1> QED
  BY <1>1, <1>2, <1>3, <1>4, <1>6, Pushes

(* What OSSuspendThread and OSResumeThread still have to do.               *)
LEMMA AfterCalls ==
  ASSUME NEW t \in Threads, os \in OsMemory, NEW cs,
         cs = AfterSuspend(os, t) \/ cs = AfterResume(os, t)
  PROVE  OnlyCalls(exec, cs, PlainCalls) /\ OnlyCalls(exec, cs, IdleCalls)
<1> DEFINE f == Frame("propagate", MutexOwner(os, t), 0)
           g == ReschedCall
<1>1. /\ FrameOK(exec, f) /\ f.fn = "propagate"
      /\ FrameOK(exec, g) /\ g.fn = "resched"
  BY Owners, OwnerCalls, KernelCalls, SmallNumbers
<1>2. cs \in {<< >>, << f, g >>, << g >>}
  BY DEF AfterSuspend, AfterResume
<1> HIDE DEF f, g
<1>3. {"propagate", "resched"} \subseteq PlainCalls /\ {"propagate", "resched"} \subseteq IdleCalls
  BY DEF PlainCalls, FrameFns, IdleCalls
<1> QED
  BY <1>1, <1>2, <1>3, NoCalls, OneCall, TwoCalls

(* A running thread suspends itself, possibly with a call left to make.    *)
LEMMA SuspendsItself ==
  ASSUME IInv, Live(os, exec, stack[exec]), os.state[exec] = "RUNNING",
         Depth(stack[exec]) = 0, NEW k, MemoryOK(k), k.state = os.state,
         k.disable = os.disable, k.running = os.running, k.current = os.current,
         os' = Suspend(k, exec),
         NEW cs, OnlyCalls(exec, cs, PlainCalls), Push(cs),
         cs # << >>, Head(cs).fn \in {"select", "resched"}
  PROVE  IInv'
<1> DEFINE s == stack[exec]
           u == cs \o s
<1>1. k.state[exec] = "RUNNING" /\ exec \in Threads
  BY TheFiber
<1>2. /\ MemoryOK(os') /\ Asked(os')
      /\ os'.state = [k.state EXCEPT ![exec] = "READY"]
      /\ os'.disable = k.disable /\ os'.running = k.running /\ os'.current = k.current
  BY <1>1, SuspendOK
<1>3. \A t \in Threads \ {exec} : os'.state[t] = os.state[t]
  BY <1>2, TheFiber DEF OsMemory
<1>4. stack' = [stack EXCEPT ![exec] = u] /\ exec' = exec
  BY DEF Push
<1>5. StackOK(exec, s) /\ HasNo(s, {"idle"})
  BY TheFiber DEF Live
<1> HIDE DEF s
<1>6. /\ StackOK(exec, u) /\ Depth(u) = Depth(s) /\ HasNo(u, {"idle"})
      /\ u # << >> /\ Head(u).fn \in {"select", "resched"}
  BY <1>5, Pushed
<1> HIDE DEF u
<1>7. os.disable = 0
  BY TheFiber DEF ExecOK
<1> QED
  BY <1>2, <1>3, <1>4, <1>6, <1>7, Leaves DEF s

LEMMA SuspendThreadStep ==
  ASSUME IInv, NEW t \in Threads, OSSuspendThread(t)
  PROVE  IInv'
<1> DEFINE cs == AfterSuspend(os, t)
<1>1. /\ AtGuest /\ os' = Suspend(os, t) /\ Push(cs)
      /\ t = os.running => stack[exec] = << >>
  BY DEF OSSuspendThread, May
<1>2. OnlyCalls(exec, cs, PlainCalls) /\ OnlyCalls(exec, cs, IdleCalls)
  BY TheFiber, AfterCalls
<1>3. CASE t = os.running
  <2>1. os.running # NULL
    BY <1>3, Pointers
  <2>2. Live(os, exec, stack[exec]) /\ t = exec
    BY <1>3, <2>1, RunningIsLive DEF Live
  <2>3. os.state[exec] = "RUNNING"
    BY <1>1, <2>2, GuestRuns
  <2>4. Depth(stack[exec]) = 0
    <3>1. HasNo(stack[exec], {"callback"})
      BY <1>1, <1>3 DEF HasNo
    <3> QED
      BY <3>1, TheFiber, BatchesFinite DEF StackOK
  <2>5. os.susp[exec] = 0
    BY <2>3, TheFiber DEF MemoryOK, ThreadOK
  <2>6. cs = << ReschedCall >>
    BY <2>2, <2>3, <2>5 DEF AfterSuspend
  <2>7. cs # << >> /\ Head(cs).fn \in {"select", "resched"}
    BY <2>6, KernelCalls, OneCall
  <2> HIDE DEF cs
  <2> QED
    BY <1>1, <1>2, <2>2, <2>3, <2>4, <2>7, TheFiber, SuspendsItself
<1>4. CASE t # os.running
  <2>1. os.state[t] # "RUNNING"
    BY <1>4, TheFiber DEF ExecOK
  <2>2. MemoryOK(os') /\ Calm(os', os)
    BY <1>1, <2>1, TheFiber, SuspendOK
  <2>3. Live(os, exec, stack[exec]) => os.state[exec] = "RUNNING"
    BY <1>1, GuestRuns
  <2> HIDE DEF cs
  <2> QED
    BY <1>1, <1>2, <2>2, <2>3, Pushes
<1> QED
  BY <1>3, <1>4

LEMMA ResumeThreadStep ==
  ASSUME IInv, NEW t \in Threads, OSResumeThread(t)
  PROVE  IInv'
<1> DEFINE cs == AfterResume(os, t)
<1>1. AtGuest /\ os.state[t] # "NONE" /\ os' = Resume(os, t) /\ Push(cs)
  BY DEF OSResumeThread, May
<1>2. OnlyCalls(exec, cs, PlainCalls) /\ OnlyCalls(exec, cs, IdleCalls)
  BY TheFiber, AfterCalls
<1>3. MemoryOK(os') /\ Calm(os', os)
  BY <1>1, TheFiber, ResumeOK
<1>4. Live(os, exec, stack[exec]) => os.state[exec] = "RUNNING"
  BY <1>1, GuestRuns
<1> HIDE DEF cs
<1> QED
  BY <1>1, <1>2, <1>3, <1>4, Pushes

LEMMA SleepTicksStep ==
  ASSUME IInv, OSSleepTicks
  PROVE  IInv'
<1> DEFINE k  == [os EXCEPT !.timers = @ \cup {exec}, !.parks = @ \cup {exec}]
           f  == ReschedCall
           g  == Frame("ticks", NULL, 0)
           cs == AfterSuspend(os, exec) \o << g >>
<1>1. /\ AtGuest /\ os.disable = 0 /\ os.current = exec
      /\ os' = Suspend(k, exec) /\ Push(cs)
  BY DEF OSSleepTicks, May
<1>2. Live(os, exec, stack[exec])
  BY <1>1, RunningIsLive
<1>3. os.state[exec] = "RUNNING"
  BY <1>1, <1>2, GuestRuns
<1>4. Depth(stack[exec]) = 0
  BY <1>1, TheFiber DEF ExecOK
<1>5. /\ MemoryOK(k) /\ k.state = os.state
      /\ k.disable = os.disable /\ k.running = os.running /\ k.current = os.current
  <2>1. /\ os.timers \cup {exec} \in SUBSET Threads /\ os.parks \cup {exec} \in SUBSET Threads
        /\ \A m \in Mutexes : os.owner[m] = NULL <=> os.count[m] = 0
    BY TheFiber DEF OsMemory, MemoryOK, ListsOK
  <2>2. k \in OsMemory
    BY <2>1, TheFiber DEF OsMemory
  <2>3. /\ k.queue = os.queue /\ k.pending = os.pending /\ k.qptr = os.qptr
        /\ k.state = os.state /\ k.susp = os.susp /\ k.prio = os.prio
        /\ k.owner = os.owner /\ k.count = os.count
        /\ k.disable = os.disable /\ k.running = os.running /\ k.current = os.current
    BY TheFiber DEF OsMemory
  <2> HIDE DEF k
  <2>4. \A m \in Mutexes : k.owner[m] = NULL <=> k.count[m] = 0
    BY <2>1, <2>3
  <2>5. MemoryOK(k)
    BY <2>2, <2>3, <2>4, TheFiber, QuietChanges
  <2> QED
    BY <2>3, <2>5
<1>6. /\ FrameOK(exec, f) /\ f.fn = "resched"
      /\ FrameOK(exec, g) /\ g.fn = "ticks"
  BY KernelCalls
<1>7. cs = << f, g >>
  <2>1. os.susp[exec] = 0
    BY <1>3, TheFiber DEF MemoryOK, ThreadOK
  <2>2. AfterSuspend(os, exec) = << f >>
    BY <1>3, <2>1 DEF AfterSuspend
  <2>3. f \in Frames /\ g \in Frames
    BY <1>6 DEF FrameOK
  <2> QED
    BY <2>2, <2>3, Pair
<1> HIDE DEF k, f, g, cs
<1>8. /\ OnlyCalls(exec, cs, PlainCalls) /\ cs # << >>
      /\ Head(cs).fn \in {"select", "resched"}
  BY <1>6, <1>7, TwoCalls DEF PlainCalls, FrameFns
<1> QED
  BY <1>1, <1>2, <1>3, <1>4, <1>5, <1>8, SuspendsItself

(* Only the disable count of the memory changes.                           *)
LEMMA DisableChanges ==
  ASSUME NEW k, MemoryOK(k), NEW n \in Nat, NEW j, j = [k EXCEPT !.disable = n]
  PROVE  /\ MemoryOK(j) /\ j.disable = n
         /\ j.state = k.state /\ j.running = k.running /\ j.current = k.current
<1>1. k \in OsMemory /\ \A m \in Mutexes : k.owner[m] = NULL <=> k.count[m] = 0
  BY DEF MemoryOK, ListsOK
<1>2. j \in OsMemory
  BY <1>1 DEF OsMemory
<1>3. /\ j.queue = k.queue /\ j.pending = k.pending /\ j.qptr = k.qptr
      /\ j.state = k.state /\ j.susp = k.susp /\ j.prio = k.prio
      /\ j.owner = k.owner /\ j.count = k.count
      /\ j.disable = n /\ j.running = k.running /\ j.current = k.current
  BY <1>1 DEF OsMemory
<1>4. \A m \in Mutexes : j.owner[m] = NULL <=> j.count[m] = 0
  BY <1>1, <1>3
<1>5. MemoryOK(j)
  BY <1>2, <1>3, <1>4, QuietChanges
<1> QED
  BY <1>3, <1>5

LEMMA BeginCallbacksStep ==
  ASSUME IInv, BeginDeferredGuestCallbacks
  PROVE  IInv'
<1> DEFINE f == Callback
           s == stack[exec]
           u == << f >> \o s
           n == os.disable + 1
<1>1. /\ AtGuest \/ Inside("idle")
      /\ os' = [os EXCEPT !.disable = n]
      /\ stack' = [stack EXCEPT ![exec] = u] /\ exec' = exec
  BY DEF BeginDeferredGuestCallbacks, Push
<1>2. os.disable \in Nat /\ n \in Nat
  BY TheFiber DEF OsMemory
<1>3. /\ MemoryOK(os') /\ os'.disable = n
      /\ os'.state = os.state /\ os'.running = os.running /\ os'.current = os.current
  BY <1>1, <1>2, TheFiber, DisableChanges
<1>4. FrameOK(exec, f) /\ f.fn = "callback" /\ f \in Frames
  BY KernelCalls DEF FrameOK
<1>5. Live(os, exec, s) => os.state[exec] = "RUNNING"
  <2>1. Inside("idle") => ~HasNo(s, {"idle"})
    BY TheFiber, Popped DEF Inside
  <2> QED
    BY <1>1, <2>1, GuestRuns DEF Live
<1>6. StackOK(exec, s) /\ s \in Seq(Frames) /\ ExecOK(os, exec, s)
  BY TheFiber
<1> HIDE DEF f, s
<1>7. /\ << f >> \in Seq(Frames) /\ StackOK(exec, << f >>) /\ HasNo(<< f >>, {"idle"})
      /\ \A i \in DOMAIN << f >> : << f >>[i].fn \in IdleCalls
  BY <1>4 DEF StackOK, HasNo, IdleCalls
<1>8. /\ StackOK(exec, u) /\ Depth(u) = Depth(s) + 1
      /\ HasNo(s, {"idle"}) => HasNo(u, {"idle"})
      /\ IdleAt(s) => IdleAt(u)
  BY <1>4, <1>6, <1>7, ConcatFrames, OneDeeper, IdleBelow
<1> HIDE DEF u
<1>9. ExecOK(os', exec, u)
  <2>1. os'.disable = Depth(u)
    BY <1>3, <1>6, <1>8 DEF ExecOK
  <2>2. \A t \in Threads : os'.state[t] = "RUNNING" => t = os'.running
    BY <1>3, <1>6 DEF ExecOK
  <2>3. Live(os, exec, s) => Live(os', exec, u)
    BY <1>3, <1>5, <1>8 DEF Live
  <2>4. Idling(os, s) => Idling(os', u)
    BY <1>3, <1>8 DEF Idling
  <2> QED
    BY <1>6, <2>1, <2>2, <2>3, <2>4 DEF ExecOK
<1> QED
  BY <1>1, <1>3, <1>8, <1>9, FiberSteps

LEMMA EndCallbacksStep ==
  ASSUME IInv, NEW flush \in BOOLEAN, EndDeferredGuestCallbacks(flush)
  PROVE  IInv'
<1> DEFINE s  == stack[exec]
           r  == Tail(s)
           cs == IF flush THEN << ReschedCall >> ELSE << >>
           u  == cs \o r
           n  == os.disable - 1
<1>1. /\ s # << >> /\ Head(s).fn = "callback"
      /\ os' = [os EXCEPT !.disable = IF @ = 0 THEN 0 ELSE @ - 1]
      /\ stack' = [stack EXCEPT ![exec] = u] /\ exec' = exec
  BY DEF EndDeferredGuestCallbacks, Continue, Inside
<1>2. StackOK(exec, s) /\ s \in Seq(Frames) /\ ExecOK(os, exec, s)
  BY TheFiber
<1>3. Live(os, exec, s) => os.state[exec] = "RUNNING"
  BY GuestRuns DEF EndDeferredGuestCallbacks, AtGuest
<1> HIDE DEF s
<1>4. /\ StackOK(exec, r) /\ Depth(s) = Depth(r) + 1
      /\ HasNo(s, {"idle"}) => HasNo(r, {"idle"})
      /\ IdleAt(s) => IdleAt(r)
  BY <1>1, <1>2, Popped DEF IdleCalls
<1> HIDE DEF r
<1>5. Depth(r) \in Nat
  BY <1>4, BatchesFinite DEF StackOK
<1>6. os.disable = Depth(r) + 1
  BY <1>2, <1>4 DEF ExecOK
<1>7. n \in Nat /\ n = Depth(r) /\ os' = [os EXCEPT !.disable = n]
  BY <1>1, <1>5, <1>6
<1> HIDE DEF n
<1>8. /\ MemoryOK(os') /\ os'.disable = n
      /\ os'.state = os.state /\ os'.running = os.running /\ os'.current = os.current
  BY <1>7, TheFiber, DisableChanges
<1>9. OnlyCalls(exec, cs, PlainCalls) /\ OnlyCalls(exec, cs, IdleCalls)
  <2>1. "resched" \in PlainCalls /\ "resched" \in IdleCalls
    BY DEF PlainCalls, FrameFns, IdleCalls
  <2> QED
    BY <2>1, KernelCalls, OneCall, NoCalls
<1> HIDE DEF cs
<1>10. /\ StackOK(exec, u) /\ Depth(u) = Depth(r)
       /\ HasNo(s, {"idle"}) => HasNo(u, {"idle"})
       /\ IdleAt(s) => IdleAt(u)
  BY <1>4, <1>9, Pushed
<1> HIDE DEF u
<1>11. ExecOK(os', exec, u)
  <2>1. os'.disable = Depth(u)
    BY <1>7, <1>8, <1>10
  <2>2. \A t \in Threads : os'.state[t] = "RUNNING" => t = os'.running
    BY <1>2, <1>8 DEF ExecOK
  <2>3. Live(os, exec, s) => Live(os', exec, u)
    BY <1>3, <1>8, <1>10 DEF Live
  <2>4. Idling(os, s) => Idling(os', u)
    BY <1>8, <1>10 DEF Idling
  <2> QED
    BY <1>2, <2>1, <2>2, <2>3, <2>4 DEF ExecOK
<1> QED
  BY <1>1, <1>8, <1>10, <1>11, FiberSteps

-----------------------------------------------------------------------------
(* The invariant where no thread ends.                                     *)

(* The calls of the life cycle are not among the calls.                    *)
LEMMA NoLifeCycle ==
  ASSUME SyncInstance, IInv
  PROVE  /\ ~UnlockAllTurn /\ ~ExitTail /\ ~JoinTail /\ ~OSExitThread
         /\ \A t \in Threads, d \in BOOLEAN : ~OSCreateThread(t, d)
         /\ \A t \in Threads : ~OSCancelThread(t) /\ ~OSJoinThread(t) /\ ~OSDetachThread(t)
<1>1. \A fn \in {"unlockall", "exit", "join"} : ~Inside(fn)
  BY InsideTop, TopOK DEF FrameOK, SyncInstance
<1>2. \A call \in {"create", "exit", "cancel", "join", "detach"} : call \notin Calls
  BY DEF SyncInstance, Mortal, SyncCalls
<1>3. ~UnlockAllTurn /\ ~ExitTail /\ ~JoinTail
  BY <1>1 DEF UnlockAllTurn, ExitTail, JoinTail
<1> QED
  BY <1>2, <1>3 DEF OSExitThread, OSCreateThread, OSCancelThread, OSJoinThread, OSDetachThread, May

(* A step that changes nothing.                                            *)
LEMMA StutteringStep ==
  ASSUME IInv, UNCHANGED vars
  PROVE  IInv'
<1>1. UNCHANGED os /\ stack' = [stack EXCEPT ![exec] = stack[exec]] /\ exec' = exec
  BY TheFiber DEF vars
<1>2. MemoryOK(os') /\ ExecOK(os', exec, stack[exec])
  BY <1>1, TheFiber
<1> QED
  BY <1>1, <1>2, TheFiber, FiberSteps

(* Every step of an instance in which no thread ends keeps the invariant.  *)
LEMMA SyncInductive == SyncInstance /\ IInv /\ [Next]_vars => IInv'
<1> SUFFICES ASSUME SyncInstance, IInv, [Next]_vars PROVE IInv'
  OBVIOUS
<1>1. CASE UNCHANGED vars
  BY <1>1, StutteringStep
<1>2. CASE KernelStep
  BY <1>2, ProcessSleepTimersStep, SelectReturnsStep, SelectSwitchesStep, SelectIdlesStep,
     IdleEventStep, IdleEndsStep, WakeupThreadQueueStep, SleepBeginsStep, SleepReturnsStep,
     LockTurnStep, PromoteTurnStep, PropagateTurnStep, ReschedTailStep, TicksTailStep,
     NoLifeCycle, Zenon DEF KernelStep
<1>3. CASE GuestStep
  BY <1>3, OneCallSteps, UnlockMutexStep, SuspendThreadStep, ResumeThreadStep,
     SleepTicksStep, BeginCallbacksStep, EndCallbacksStep, NoLifeCycle, Zenon DEF GuestStep
<1> QED
  BY <1>1, <1>2, <1>3 DEF Next

(* The initial state satisfies the inductive invariant.                    *)
LEMMA Initial == LifeInstance /\ Init => IInv
<1> SUFFICES ASSUME LifeInstance, Init PROVE IInv
  OBVIOUS
<1>1. /\ os.state = [t \in Threads |-> CASE t = Main -> "RUNNING"
                                         [] t \in InitLive \ {Main} -> "READY"
                                         [] OTHER -> "NONE"]
      /\ os.susp = [t \in Threads |-> IF t \in InitLive \ {Main} THEN 1 ELSE 0]
      /\ os.prio = BasePrio /\ os.qptr = [t \in Threads |-> NULL]
      /\ os.owner = [m \in Mutexes |-> NULL] /\ os.count = [m \in Mutexes |-> 0]
      /\ os.queue = [q \in Queues |-> << >>] /\ os.pending = {}
      /\ os.disable = 0 /\ os.running = Main /\ os.current = Main
      /\ os.base = BasePrio /\ os.waitsOn = [t \in Threads |-> NULL]
      /\ os.held = [t \in Threads |-> << >>]
      /\ os.detached = {} /\ os.listed = InitLive /\ os.resched = FALSE
      /\ os.timers = {} /\ os.parks = {}
  BY DEF Init
<1>2. exec = Main /\ Main \in Threads /\ stack = [t \in Threads |-> << >>]
  BY OsConstants DEF Init
<1>3. \A t \in Threads : os.state[t] \in {"RUNNING", "READY", "NONE"}
  BY <1>1
<1>4. \A t \in Threads : /\ os.state[t] = "RUNNING" => t = Main
                         /\ os.state[t] = "READY" => os.susp[t] = 1
                         /\ t = Main => os.susp[t] = 0
  BY <1>1
<1>5. os.state[Main] = "RUNNING"
  BY <1>1, <1>2
<1>6. os \in OsMemory
  <2> DEFINE st == [t \in Threads |-> CASE t = Main -> "RUNNING"
                                         [] t \in InitLive \ {Main} -> "READY"
                                         [] OTHER -> "NONE"]
             su == [t \in Threads |-> IF t \in InitLive \ {Main} THEN 1 ELSE 0]
             tn == [t \in Threads |-> NULL]
             th == [t \in Threads |-> << >>]
             mn == [m \in Mutexes |-> NULL]
             mc == [m \in Mutexes |-> 0]
             qs == [q \in Queues |-> << >>]
             no == {}
             re == FALSE
             ze == 0
  <2>1. /\ BasePrio \in [Threads -> Prios]
        /\ BasePrio \in [Threads -> Prios \cup {SuspendedWaitPriority}]
    BY OsConstants
  <2>2. st \in [Threads -> ThreadStates] /\ su \in [Threads -> Nat]
    BY DEF ThreadStates
  <2>3. /\ tn \in [Threads -> Queues \cup {NULL}] /\ tn \in [Threads -> Mutexes \cup {NULL}]
        /\ mn \in [Mutexes -> Threads \cup {NULL}] /\ mc \in [Mutexes -> Nat]
        /\ th \in [Threads -> Seq(Mutexes)] /\ qs \in [Queues -> Seq(Threads)]
    OBVIOUS
  <2>4. InitLive \in SUBSET Threads /\ no \in SUBSET Threads /\ no \in SUBSET Prios
    BY SchedulerConstants
  <2>5. os = [state |-> st, susp |-> su, prio |-> BasePrio, base |-> BasePrio,
              qptr |-> tn, waitsOn |-> tn, held |-> th, detached |-> no, listed |-> InitLive,
              owner |-> mn, count |-> mc, queue |-> qs, pending |-> no, resched |-> re,
              disable |-> ze, running |-> Main, current |-> Main, timers |-> no, parks |-> no]
    BY Zenon DEF Init
  <2>6. /\ ze \in Nat /\ re \in BOOLEAN
        /\ Main \in Threads \cup {NULL} /\ Main \in Threads \cup {NULL, Idle}
    BY <1>2
  <2> HIDE DEF st, su, tn, th, mn, mc, qs, no, re, ze
  <2>7. [state |-> st, susp |-> su, prio |-> BasePrio, base |-> BasePrio,
         qptr |-> tn, waitsOn |-> tn, held |-> th, detached |-> no, listed |-> InitLive,
         owner |-> mn, count |-> mc, queue |-> qs, pending |-> no, resched |-> re,
         disable |-> ze, running |-> Main, current |-> Main, timers |-> no, parks |-> no]
        \in OsMemory
    BY <2>1, <2>2, <2>3, <2>4, <2>6, Zenon DEF OsMemory
  <2> QED
    BY <2>5, <2>7, Zenon
<1>7. MemoryOK(os)
  <2>1. \A t \in Threads, q \in Queues : ~In(os, t, q)
    <3>1. \A q \in Queues : os.queue[q] = << >>
      BY <1>1
    <3>2. ToSet(<< >>) = {}
      BY DEF ToSet
    <3> QED
      BY <3>1, <3>2, Zenon DEF In
  <2>2. ListsOK(os)
    <3>1. \A q \in Queues : IsInjective(os.queue[q])
      BY <1>1 DEF IsInjective
    <3>2. \A p \in Prios : p \in os.pending <=> os.queue[p] # << >>
      BY <1>1 DEF Queues
    <3>3. \A m \in Mutexes : os.owner[m] = NULL <=> os.count[m] = 0
      BY <1>1
    <3> QED
      BY <1>6, <3>1, <3>2, <3>3 DEF ListsOK
  <2>3. \A t \in Threads : os.prio[t] \in Prios
    BY <1>1, OsConstants
  <2>4. ASSUME NEW t \in Threads PROVE ThreadOK(os, t)
    <3>1. ~Linked(os, t) /\ os.state[t] # "MORIBUND"
      BY <1>3, <1>4 DEF Linked
    <3>2. os.state[t] = "RUNNING" => os.susp[t] = 0
      BY <1>4
    <3>3. os.prio[t] # SuspendedWaitPriority
      BY <2>3, Pointers
    <3> QED
      BY <2>1, <3>1, <3>2, <3>3 DEF ThreadOK
  <2> QED
    BY <2>2, <2>4 DEF MemoryOK
<1>8. FibersOK /\ ExecOK(os, exec, stack[exec])
  <2> DEFINE e == << >>
  <2>1. e \in Seq(Frames) /\ \A fns : HasNo(e, fns)
    BY DEF HasNo
  <2>2. Depth(e) = 0 /\ \A t : StackOK(t, e)
    BY <2>1, BatchesFinite, NoCalls DEF OnlyCalls
  <2>3. \A t \in Threads : stack[t] = e
    BY <1>2
  <2> HIDE DEF e
  <2>4. stack \in [Threads -> Seq(Frames)]
    BY <1>2, <2>1 DEF e
  <2>5. FibersOK
    BY <1>2, <2>1, <2>2, <2>3, <2>4 DEF FibersOK
  <2>6. stack[exec] = e
    BY <1>2, <2>3
  <2>7. Live(os, exec, e)
    BY <1>1, <1>2, <1>5, <2>1 DEF Live
  <2>8. ExecOK(os, exec, e)
    BY <1>1, <1>4, <2>2, <2>7 DEF ExecOK
  <2> QED
    BY <2>5, <2>6, <2>8
<1> QED
  BY <1>7, <1>8 DEF IInv

-----------------------------------------------------------------------------
(* What follows from the invariant.                                        *)

LEMMA TypesFollow == IInv => TypeOK
BY TheFiber DEF TypeOK

LEMMA RunQueuesFollow == IInv => RunQueuesOK
<1> SUFFICES ASSUME IInv, NEW p \in Prios
             PROVE  /\ p \in os.pending <=> os.queue[p] # << >>
                    /\ IsInjective(os.queue[p])
                    /\ \A t \in ToSet(os.queue[p]) :
                          /\ os.state[t] = "READY" /\ os.susp[t] = 0
                          /\ os.prio[t] = p /\ os.qptr[t] = p
  BY DEF RunQueuesOK
<1>1. p \in Queues /\ ListsOK(os) /\ os.queue[p] \in Seq(Threads)
  BY TheFiber DEF Queues, MemoryOK, OsMemory
<1>2. ASSUME NEW t \in ToSet(os.queue[p])
      PROVE  os.state[t] = "READY" /\ os.susp[t] = 0 /\ os.prio[t] = p /\ os.qptr[t] = p
  <2>1. t \in Threads
    BY <1>1, LenProperties, ElementOfSeq DEF ToSet
  <2>2. In(os, t, p) /\ ThreadOK(os, t)
    BY <2>1, TheFiber DEF In, MemoryOK
  <2> QED
    BY <1>1, <2>2 DEF ThreadOK
<1> QED
  BY <1>1, <1>2 DEF ListsOK

LEMMA NoneLostFollows == IInv => NoThreadLost
<1> SUFFICES ASSUME IInv, NEW t \in Threads
             PROVE  /\ os.state[t] = "READY" /\ os.susp[t] = 0 =>
                         t \in ToSet(os.queue[os.prio[t]])
                    /\ os.state[t] = "WAITING" =>
                         os.qptr[t] # NULL /\ t \in ToSet(os.queue[os.qptr[t]])
                    /\ os.state[t] = "RUNNING" => t = os.running /\ t = exec
  BY DEF NoThreadLost
<1>1. ThreadOK(os, t)
  BY TheFiber DEF MemoryOK
<1>2. ASSUME os.state[t] = "READY", os.susp[t] = 0
      PROVE  t \in ToSet(os.queue[os.prio[t]])
  <2>1. os.qptr[t] \in Queues /\ In(os, t, os.qptr[t])
    BY <1>1, <1>2 DEF ThreadOK, Linked
  <2>2. os.prio[t] = os.qptr[t]
    BY <1>1, <1>2, <2>1 DEF ThreadOK, Queues
  <2> QED
    BY <2>1, <2>2 DEF In
<1>3. ASSUME os.state[t] = "WAITING"
      PROVE  os.qptr[t] # NULL /\ t \in ToSet(os.queue[os.qptr[t]])
  BY <1>1, <1>3, Pointers DEF ThreadOK, Linked, In
<1>4. ASSUME os.state[t] = "RUNNING"
      PROVE  t = os.running /\ t = exec
  <2>1. t = os.running
    BY <1>4, TheFiber DEF ExecOK
  <2>2. os.running = exec
    BY <2>1, Pointers, RunningIsLive DEF Live
  <2> QED
    BY <2>1, <2>2
<1> QED
  BY <1>2, <1>3, <1>4

(* Where guest code runs outside callbacks, it is the running thread's.    *)
LEMMA GuestIsRunning == IInv => ExecIsRunning
<1> SUFFICES ASSUME IInv, AtGuest, os.disable = 0
             PROVE  os.running = exec /\ os.current = exec /\ os.state[exec] = "RUNNING"
  BY DEF ExecIsRunning
<1> DEFINE s == stack[exec]
<1>1. StackOK(exec, s) /\ s \in Seq(Frames) /\ ExecOK(os, exec, s)
  BY TheFiber
<1>2. HasNo(s, {"callback"})
  BY <1>1, BatchesFinite DEF ExecOK
<1>3. s = << >>
  BY <1>1, <1>2, Popped DEF AtGuest, Inside
<1>4. ~IdleAt(s)
  BY <1>3 DEF IdleAt
<1>5. Live(os, exec, s)
  BY <1>1, <1>4 DEF ExecOK, Idling
<1> QED
  BY <1>5, GuestRuns DEF Live

LEMMA DisableFollows == IInv => DisableBelongsToExec
BY TheFiber DEF ExecOK, DisableBelongsToExec, Callbacks, Depth

LEMMA SleepFollows == IInv => SleepReturnsWoken
<1> SUFFICES ASSUME IInv, Inside("sleep") PROVE os.state[Top.arg] # "WAITING"
  BY DEF SleepReturnsWoken
<1>1. stack[exec] # << >> /\ Top.fn = "sleep" /\ Top.arg = exec
  BY InsideTop, TopOK DEF FrameOK
<1> QED
  BY <1>1, NotFromIdle DEF IdleCalls
=============================================================================
