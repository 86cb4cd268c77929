------------------------ MODULE SchedulerLocks_proofs ------------------------
(***************************************************************************)
(* Proofs about the wait queues and the mutexes of GuestScheduler, in      *)
(* every instance without the life-cycle calls and the DWC queue: LockInv  *)
(* of SchedulerInvariant is inductive.                                     *)
(* First what each helper of OsThread does to the queues, their order and  *)
(* the locks; then the effect of a step on what LockInv says of the guest  *)
(* memory; then the stacks and the actions, one by one.                    *)
(***************************************************************************)
EXTENDS GuestScheduler_proofs

(* Removal keeps the order of the nodes that stay.                         *)
LEMMA UnlinkedOrder ==
  ASSUME NEW T, NEW s \in Seq(T), NEW e, IsInjective(s), NEW u, u = UnlinkGuestListNode(s, e)
  PROVE  \A a, b \in DOMAIN u : a < b =>
           \E c, d \in DOMAIN s : c < d /\ u[a] = s[c] /\ u[b] = s[d] /\ s[c] # e /\ s[d] # e
<1>1. CASE ~\E i \in DOMAIN s : s[i] = e
  BY <1>1 DEF UnlinkGuestListNode
<1>2. CASE \E i \in DOMAIN s : s[i] = e
  <2> DEFINE i == CHOOSE j \in DOMAIN s : s[j] = e
  <2>1. i \in DOMAIN s /\ s[i] = e
    BY <1>2
  <2>2. u = RemoveAt(s, i)
    BY <1>2 DEF UnlinkGuestListNode
  <2> HIDE DEF i
  <2>3. /\ u \in Seq(T)
        /\ Len(u) = Len(s) - 1
        /\ \A j \in 1 .. Len(s) - 1 : u[j] = IF j < i THEN s[j] ELSE s[j + 1]
    BY <2>1, <2>2, ListWithout
  <2>4. /\ Len(s) \in Nat /\ DOMAIN s = 1 .. Len(s)
        /\ DOMAIN u = 1 .. Len(s) - 1
    BY <2>3, LenProperties
  <2>5. \A m \in DOMAIN s : m # i => s[m] # e
    BY <2>1 DEF IsInjective
  <2> DEFINE at(j) == IF j < i THEN j ELSE j + 1
  <2>6. ASSUME NEW j \in DOMAIN u
        PROVE  at(j) \in DOMAIN s /\ u[j] = s[at(j)] /\ s[at(j)] # e
    <3>1. at(j) \in DOMAIN s /\ at(j) # i
      BY <2>1, <2>4
    <3> QED
      BY <2>3, <2>4, <2>5, <3>1
  <2>7. \A a, b \in DOMAIN u : a < b => at(a) < at(b)
    BY <2>1, <2>4
  <2> HIDE DEF at
  <2> QED
    BY <2>6, <2>7
<1> QED
  BY <1>1, <1>2

-----------------------------------------------------------------------------
(* What the helpers do to the order of the wait queues.                    *)

(* The queues are ordered, whatever the priority of x.                     *)
OrderedBut(k, x) ==
  \A q \in Waitables : \A i, j \in DOMAIN k.queue[q] :
    i < j /\ k.queue[q][i] # x /\ k.queue[q][j] # x =>
      k.prio[k.queue[q][i]] <= k.prio[k.queue[q][j]]

LEMMA OrderForgets ==
  ASSUME NEW k, NEW j, NEW x \in Threads, k \in OsMemory, j.queue = k.queue,
         \A t \in Threads \ {x} : j.prio[t] = k.prio[t]
  PROVE  OrderedBut(k, x) => OrderedBut(j, x)
<1>1. ASSUME NEW q \in Waitables, NEW i \in DOMAIN k.queue[q] PROVE k.queue[q][i] \in Threads
  <2>1. k.queue[q] \in Seq(Threads)
    BY DEF OsMemory, Queues
  <2> QED
    BY <2>1, LenProperties, ElementOfSeq
<1> QED
  BY <1>1 DEF OrderedBut

LEMMA OrderWithout ==
  ASSUME NEW k, NEW x \in Threads
  PROVE  /\ QueuesOrdered(k) => OrderedBut(k, x)
         /\ Loose(k, x) /\ OrderedBut(k, x) => QueuesOrdered(k)
<1>1. QueuesOrdered(k) => OrderedBut(k, x)
  BY DEF QueuesOrdered, Sorted, OrderedBut
<1>2. ASSUME Loose(k, x), OrderedBut(k, x) PROVE QueuesOrdered(k)
  <2>1. \A q \in Waitables : \A i \in DOMAIN k.queue[q] : k.queue[q][i] # x
    BY <1>2 DEF Loose, In, ToSet, Queues
  <2> QED
    BY <1>2, <2>1 DEF QueuesOrdered, Sorted, OrderedBut
<1> QED
  BY <1>1, <1>2

(* A move of x from queue to queue keeps the other threads where they are. *)
OthersStay(j, k, x) ==
  \A t \in Threads \ {x}, q \in Queues : In(j, t, q) <=> In(k, t, q)

LEMMA RemoveEffect ==
  ASSUME NEW k, NEW x \in Threads, Moving(k, x), NEW j, j = RemoveThreadFromQueue(k, x)
  PROVE  /\ OthersStay(j, k, x)
         /\ j.pending \subseteq k.pending
         /\ k.qptr[x] \notin Prios => j.pending = k.pending
         /\ OrderedBut(k, x) => QueuesOrdered(j)
<1>1. k \in OsMemory /\ ListsOK(k)
  BY DEF Moving, ListsOK
<1>2. CASE k.qptr[x] = NULL
  <2>1. j = k
    BY <1>2 DEF RemoveThreadFromQueue
  <2>2. Loose(j, x)
    BY RemoveLoosens
  <2> QED
    BY <2>1, <2>2, OrderWithout DEF OthersStay
<1>3. CASE k.qptr[x] # NULL
  <2> DEFINE q == k.qptr[x]
             rest == UnlinkGuestListNode(k.queue[q], x)
  <2>1. /\ j \in OsMemory
        /\ Unmoved(j, k)
        /\ q \in Queues
        /\ j.queue = [k.queue EXCEPT ![q] = rest]
        /\ j.qptr = [k.qptr EXCEPT ![x] = NULL]
        /\ j.pending = IF q \in Prios /\ rest = << >> THEN k.pending \ {q} ELSE k.pending
    BY <1>1, <1>3, RemoveFields
  <2>2. k.queue[q] \in Seq(Threads) /\ IsInjective(k.queue[q]) /\ k.queue \in [Queues -> Seq(Threads)]
    BY <1>1, <2>1 DEF OsMemory, ListsOK
  <2>3. /\ rest \in Seq(Threads)
        /\ ToSet(rest) = ToSet(k.queue[q]) \ {x}
        /\ \A a, b \in DOMAIN rest : a < b =>
             \E c, d \in DOMAIN k.queue[q] :
               /\ c < d /\ rest[a] = k.queue[q][c] /\ rest[b] = k.queue[q][d]
               /\ k.queue[q][c] # x /\ k.queue[q][d] # x
    <3>1. rest \in Seq(Threads) /\ ToSet(rest) = ToSet(k.queue[q]) \ {x}
      BY <2>2, UnlinkedList
    <3> DEFINE s == k.queue[q]
    <3>2. s \in Seq(Threads) /\ IsInjective(s) /\ rest = UnlinkGuestListNode(s, x)
      BY <2>2
    <3> HIDE DEF s, rest
    <3>3. \A a, b \in DOMAIN rest : a < b =>
            \E c, d \in DOMAIN s : c < d /\ rest[a] = s[c] /\ rest[b] = s[d] /\ s[c] # x /\ s[d] # x
      BY <3>2, UnlinkedOrder
    <3> QED
      BY <3>1, <3>3 DEF s
  <2> HIDE DEF rest
  <2>4. OthersStay(j, k, x)
    BY <2>1, <2>2, <2>3 DEF In, OthersStay
  <2>5. ASSUME OrderedBut(k, x) PROVE QueuesOrdered(j)
    <3> SUFFICES ASSUME NEW r \in Waitables PROVE Sorted(j, j.queue[r])
      BY DEF QueuesOrdered
    <3>1. r \in Queues /\ j.prio = k.prio
      BY <2>1 DEF Queues, Unmoved
    <3>2. CASE r = q
      <4>1. j.queue[r] = rest
        BY <2>1, <2>2, <3>1, <3>2
      <4>2. ASSUME NEW a \in DOMAIN rest, NEW b \in DOMAIN rest, a < b
            PROVE  k.prio[rest[a]] <= k.prio[rest[b]]
        BY <2>3, <2>5, <3>2, <4>2 DEF OrderedBut
      <4> QED
        BY <3>1, <4>1, <4>2 DEF Sorted
    <3>3. CASE r # q
      <4>1. j.queue[r] = k.queue[r] /\ \A i \in DOMAIN k.queue[r] : k.queue[r][i] # x
        BY <2>1, <2>2, <3>1, <3>3 DEF Moving, In, ToSet
      <4> QED
        BY <2>5, <3>1, <4>1 DEF Sorted, OrderedBut
    <3> QED
      BY <3>2, <3>3
  <2> QED
    BY <2>1, <2>4, <2>5
<1> QED
  BY <1>2, <1>3

(* The place InsertThreadIntoQueueByPriority finds keeps a queue ordered.  *)
LEMMA InsertedOrder ==
  ASSUME NEW k \in OsMemory, NEW s \in Seq(Threads), NEW x \in Threads, NEW u,
         u = InsertAt(s, Min({i \in DOMAIN s : k.prio[s[i]] > k.prio[x]} \cup {Len(s) + 1}), x),
         Sorted(k, s)
  PROVE  Sorted(k, u)
<1> DEFINE f == k.prio
           p == f[x]
           S == {i \in DOMAIN s : f[s[i]] > p} \cup {Len(s) + 1}
           at == Min(S)
<1>1. Len(s) \in Nat /\ DOMAIN s = 1 .. Len(s) /\ \A i \in DOMAIN s : s[i] \in Threads
  BY LenProperties, ElementOfSeq
<1>2. \A t \in Threads : f[t] \in Nat
  <2>1. f \in [Threads -> Prios \cup {SuspendedWaitPriority}]
    BY DEF OsMemory
  <2> HIDE DEF f
  <2> QED
    BY <2>1, Pointers
<1>3. /\ at \in S /\ at \in 1 .. Len(s) + 1
      /\ \A i \in DOMAIN s : i < at => f[s[i]] <= p
  <2>1. S \in SUBSET Nat /\ S # {} /\ S \subseteq 1 .. Len(s) + 1
    BY <1>1
  <2>2. \A i \in DOMAIN s : f[s[i]] > p => i \in S
    OBVIOUS
  <2> HIDE DEF S
  <2>3. at \in S /\ \A n \in S : at <= n
    BY <2>1, LeastElement
  <2> HIDE DEF at
  <2>4. p \in Nat /\ \A i \in DOMAIN s : f[s[i]] \in Nat
    BY <1>1, <1>2
  <2> HIDE DEF p, f
  <2>5. ASSUME NEW i \in DOMAIN s, i < at PROVE f[s[i]] <= p
    <3>1. ~(at <= i)
      BY <1>1, <2>1, <2>3, <2>5
    <3>2. i \notin S
      BY <2>3, <3>1
    <3>3. ~(f[s[i]] > p)
      BY <2>2, <3>2
    <3> QED
      BY <2>4, <3>3
  <2> QED
    BY <2>1, <2>3, <2>5
<1>4. \A i, j \in DOMAIN s : i < j => f[s[i]] <= f[s[j]]
  BY DEF Sorted
<1>5. ASSUME NEW i \in DOMAIN s, at <= i PROVE p <= f[s[i]]
  <2>1. at \in DOMAIN s /\ f[s[at]] > p
    <3>1. at # Len(s) + 1
      BY <1>1, <1>3, <1>5
    <3> HIDE DEF at
    <3> QED
      BY <1>3, <3>1
  <2> HIDE DEF at
  <2>2. f[s[at]] <= f[s[i]]
    BY <1>1, <1>2, <1>4, <1>5, <2>1
  <2> QED
    BY <1>1, <1>2, <2>1, <2>2
<1>6. u = InsertAt(s, at, x)
  OBVIOUS
<1> HIDE DEF at, S
<1>7. /\ Len(u) = Len(s) + 1 /\ u \in Seq(Threads)
      /\ \A j \in 1 .. Len(s) + 1 :
           u[j] = IF j < at THEN s[j] ELSE IF j = at THEN x ELSE s[j - 1]
  <2>1. at \in 1 .. Len(s) + 1
    BY <1>3
  <2> DEFINE w == InsertAt(s, at, x)
  <2>2. /\ Len(w) = Len(s) + 1 /\ w \in Seq(Threads)
        /\ \A j \in 1 .. Len(s) + 1 :
             w[j] = IF j < at THEN s[j] ELSE IF j = at THEN x ELSE s[j - 1]
    BY <2>1, ListWith
  <2> QED
    BY <1>6, <2>2
<1>8. DOMAIN u = 1 .. Len(s) + 1
  BY <1>7, LenProperties
<1>9. f[x] = p
  OBVIOUS
<1> HIDE DEF p, f
<1>10. SUFFICES ASSUME NEW a \in DOMAIN u, NEW b \in DOMAIN u, a < b
                PROVE  f[u[a]] <= f[u[b]]
  BY DEF Sorted, f
<1>11. a \in 1 .. Len(s) + 1 /\ b \in 1 .. Len(s) + 1
  BY <1>8
<1>12. CASE b < at
  <2>1. a \in DOMAIN s /\ b \in DOMAIN s /\ u[a] = s[a] /\ u[b] = s[b]
    BY <1>1, <1>3, <1>7, <1>10, <1>11, <1>12
  <2> QED
    BY <1>4, <1>10, <2>1
<1>13. CASE b = at
  <2>1. a \in DOMAIN s /\ a < at /\ u[a] = s[a] /\ u[b] = x
    BY <1>1, <1>3, <1>7, <1>10, <1>11, <1>13
  <2> QED
    BY <1>3, <1>9, <2>1
<1>14. CASE b > at /\ a < at
  <2>1. a \in DOMAIN s /\ b - 1 \in DOMAIN s /\ at <= b - 1 /\ u[a] = s[a] /\ u[b] = s[b - 1] /\ a < b - 1
    BY <1>1, <1>3, <1>7, <1>10, <1>11, <1>14
  <2> QED
    BY <1>4, <2>1
<1>15. CASE b > at /\ a = at
  <2>1. b - 1 \in DOMAIN s /\ at <= b - 1 /\ u[a] = x /\ u[b] = s[b - 1]
    BY <1>1, <1>3, <1>7, <1>10, <1>11, <1>15
  <2> QED
    BY <1>5, <1>9, <2>1
<1>16. CASE b > at /\ a > at
  <2>1. a - 1 \in DOMAIN s /\ b - 1 \in DOMAIN s /\ a - 1 < b - 1 /\ u[a] = s[a - 1] /\ u[b] = s[b - 1]
    BY <1>1, <1>3, <1>7, <1>10, <1>11, <1>16
  <2> QED
    BY <1>4, <2>1
<1> QED
  BY <1>3, <1>11, <1>12, <1>13, <1>14, <1>15, <1>16

LEMMA InsertEffect ==
  ASSUME NEW k, NEW x \in Threads, NEW q \in Queues, Loose(k, x),
         NEW j, j = InsertThreadIntoQueueByPriority(k, q, x, k.prio[x])
  PROVE  /\ Unmoved(j, k) /\ OthersStay(j, k, x)
         /\ \A r \in Queues : In(j, x, r) <=> r = q
         /\ q \in Prios => j.pending = k.pending \cup {q}
         /\ q \notin Prios => j.pending = k.pending
         /\ QueuesOrdered(k) => QueuesOrdered(j)
<1>1. k \in OsMemory /\ ListsOK(k) /\ k.queue \in [Queues -> Seq(Threads)]
  BY DEF Loose, Moving, ListsOK, OsMemory
<1> DEFINE s  == k.queue[q]
           p  == k.prio[x]
           S  == {i \in DOMAIN s : k.prio[s[i]] > p} \cup {Len(s) + 1}
           at == Min(S)
           u  == InsertAt(s, at, x)
<1>2. s \in Seq(Threads) /\ IsInjective(s) /\ x \notin ToSet(s)
  BY <1>1 DEF ListsOK, Loose, In
<1>3. at \in 1 .. Len(s) + 1
  <2>1. Len(s) \in Nat /\ DOMAIN s = 1 .. Len(s)
    BY <1>2, LenProperties
  <2>2. S \in SUBSET Nat /\ S # {} /\ S \subseteq 1 .. Len(s) + 1
    BY <2>1
  <2> HIDE DEF S
  <2> QED
    BY <2>2, LeastElement
<1>4. u \in Seq(Threads) /\ ToSet(u) = ToSet(s) \cup {x}
  <2> HIDE DEF at, s
  <2> QED
    BY <1>2, <1>3, ListWith
<1>5. Sorted(k, s) => Sorted(k, u)
  <2>1. u = InsertAt(s, Min({i \in DOMAIN s : k.prio[s[i]] > k.prio[x]} \cup {Len(s) + 1}), x)
    OBVIOUS
  <2> HIDE DEF u, s
  <2> QED
    BY <1>1, <1>2, <2>1, InsertedOrder
<1>6. j = [k EXCEPT !.qptr[x] = q, !.queue[q] = u,
                    !.pending = IF q \in Prios THEN @ \cup {q} ELSE @]
  BY DEF InsertThreadIntoQueueByPriority
<1> HIDE DEF u, s
<1>7. /\ j.queue = [k.queue EXCEPT ![q] = u] /\ j.prio = k.prio
      /\ j.pending = IF q \in Prios THEN k.pending \cup {q} ELSE k.pending
      /\ Unmoved(j, k)
  BY <1>1, <1>6 DEF OsMemory, Unmoved
<1>8. \A t, r : r \in Queues => (In(j, t, r) <=> In(k, t, r) \/ (r = q /\ t = x))
  BY <1>1, <1>4, <1>7 DEF In, s
<1>9. OthersStay(j, k, x) /\ \A r \in Queues : In(j, x, r) <=> r = q
  BY <1>8 DEF OthersStay, Loose
<1>10. ASSUME QueuesOrdered(k) PROVE QueuesOrdered(j)
  <2> SUFFICES ASSUME NEW r \in Waitables PROVE Sorted(j, j.queue[r])
    BY DEF QueuesOrdered
  <2>1. Sorted(k, k.queue[r]) /\ r \in Queues
    BY <1>10 DEF QueuesOrdered, Queues
  <2>2. CASE r = q
    <3>1. j.queue[r] = u /\ Sorted(k, u)
      BY <1>1, <1>5, <1>7, <2>1, <2>2 DEF s
    <3> QED
      BY <1>7, <3>1 DEF Sorted
  <2>3. CASE r # q
    <3>1. j.queue[r] = k.queue[r]
      BY <1>1, <1>7, <2>1, <2>3
    <3> QED
      BY <1>7, <2>1, <3>1 DEF Sorted
  <2> QED
    BY <2>2, <2>3
<1> QED
  BY <1>7, <1>9, <1>10

-----------------------------------------------------------------------------
(* What a change of one thread's priority or suspension leaves alone: the  *)
(* mutexes, and which threads wait where.                                  *)

SameLocks(j, k) ==
  /\ j.base = k.base /\ j.waitsOn = k.waitsOn /\ j.held = k.held /\ j.owner = k.owner
  /\ \A t \in Threads, q \in Waitables : In(j, t, q) <=> In(k, t, q)

SameParks(j, k) == j.timers = k.timers /\ j.parks = k.parks

(* Thread x is made READY and queued at priority p.                        *)
Requeued(j, k, x, p) ==
  /\ SameLocks(j, k) /\ SameParks(j, k) /\ j.susp = k.susp
  /\ j.state = [k.state EXCEPT ![x] = "READY"]
  /\ j.prio = [k.prio EXCEPT ![x] = p]
  /\ j.pending = k.pending \cup {p}
  /\ Asked(j)

LEMMA RequeueEffect ==
  ASSUME NEW k, NEW x \in Threads, NEW p \in Prios, Loose(k, x), OrderedBut(k, x),
         NEW j, j = Requeue(k, x, p)
  PROVE  Requeued(j, k, x, p) /\ QueuesOrdered(j)
<1> DEFINE r == [k EXCEPT !.state[x] = "READY", !.prio[x] = p, !.resched = TRUE]
<1>1. k \in OsMemory /\ ListsOK(k)
  BY DEF Loose, Moving, ListsOK
<1>2. /\ r.state = [k.state EXCEPT ![x] = "READY"] /\ r.prio = [k.prio EXCEPT ![x] = p]
      /\ Asked(r) /\ r.susp = k.susp
      /\ r.queue = k.queue /\ r.pending = k.pending /\ r.qptr = k.qptr
      /\ r.owner = k.owner /\ r.count = k.count
      /\ r.base = k.base /\ r.waitsOn = k.waitsOn /\ r.held = k.held
      /\ r.timers = k.timers /\ r.parks = k.parks
  BY <1>1 DEF OsMemory, Asked
<1>3. r \in OsMemory
  <2>1. /\ [k.state EXCEPT ![x] = "READY"] \in [Threads -> ThreadStates]
        /\ [k.prio EXCEPT ![x] = p] \in [Threads -> Prios \cup {SuspendedWaitPriority}]
    BY <1>1 DEF OsMemory, ThreadStates
  <2>2. r = [k EXCEPT !.state = [k.state EXCEPT ![x] = "READY"],
                      !.prio = [k.prio EXCEPT ![x] = p],
                      !.resched = TRUE]
    BY <1>1 DEF OsMemory
  <2> QED
    BY <1>1, <2>1, <2>2 DEF OsMemory
<1>4. j = InsertThreadIntoQueueByPriority(r, p, x, p)
  BY DEF Requeue
<1> HIDE DEF r
<1>5. /\ r.state[x] = "READY" /\ r.prio[x] = p
      /\ \A t \in Threads \ {x} : r.state[t] = k.state[t] /\ r.susp[t] = k.susp[t] /\ r.prio[t] = k.prio[t]
  BY <1>1, <1>2 DEF OsMemory
<1>6. Loose(r, x)
  <2>1. \A m \in Mutexes : r.owner[m] = NULL <=> r.count[m] = 0
    BY <1>1, <1>2 DEF ListsOK
  <2>2. OnlyChanges(r, k, x)
    BY <1>2, <1>3, <1>5, <2>1 DEF OnlyChanges
  <2> QED
    BY <2>2, MovingChanges
<1>7. QueuesOrdered(r)
  <2>1. r.queue = k.queue /\ \A t \in Threads \ {x} : r.prio[t] = k.prio[t]
    BY <1>2, <1>5
  <2>2. OrderedBut(r, x)
    BY <1>1, <2>1, OrderForgets
  <2> QED
    BY <1>6, <2>2, OrderWithout
<1>8. p \in Queues /\ p \notin Waitables /\ r.prio[x] # SuspendedWaitPriority
  BY <1>5, Pointers DEF Queues
<1>9. /\ Unmoved(j, r) /\ OthersStay(j, r, x)
      /\ \A q \in Queues : In(j, x, q) <=> q = p
      /\ j.pending = r.pending \cup {p}
      /\ QueuesOrdered(j)
  <2>1. p \in Queues /\ Loose(r, x) /\ j = InsertThreadIntoQueueByPriority(r, p, x, r.prio[x])
    BY <1>4, <1>5, <1>6, <1>8
  <2>2. Unmoved(j, r) /\ OthersStay(j, r, x)
    BY <1>4, <2>1, InsertEffect
  <2>3. \A q \in Queues : In(j, x, q) <=> q = p
    BY <1>4, <2>1, InsertEffect
  <2>4. j.pending = r.pending \cup {p}
    BY <1>4, <2>1, InsertEffect
  <2>5. QueuesOrdered(r) => QueuesOrdered(j)
    BY <1>4, <2>1, InsertEffect
  <2> QED
    BY <1>7, <2>2, <2>3, <2>4, <2>5
<1>10. \A t, q : In(r, t, q) <=> In(k, t, q)
  BY <1>2 DEF In
<1>11. \A q \in Waitables : q \in Queues /\ ~In(k, x, q) /\ q # p
  BY <1>8 DEF Loose, Queues
<1>12. \A t \in Threads, q \in Waitables : In(j, t, q) <=> In(k, t, q)
  BY <1>9, <1>10, <1>11 DEF OthersStay
<1> QED
  BY <1>2, <1>9, <1>12 DEF Unmoved, SameLocks, SameParks, Asked, Requeued

(* Thread x gets priority p, and its new place in the queue it waits in.   *)
Repositioned(j, k, x, p) ==
  /\ SameLocks(j, k) /\ SameParks(j, k) /\ j.susp = k.susp
  /\ j.state = k.state
  /\ j.prio = [k.prio EXCEPT ![x] = p]
  /\ j.pending = k.pending
  /\ Asked(j) <=> Asked(k)

LEMMA RepositionEffect ==
  ASSUME NEW k, NEW x \in Threads, NEW p \in Prios \cup {SuspendedWaitPriority},
         Moving(k, x), k.qptr[x] \in Waitables, In(k, x, k.qptr[x]), OrderedBut(k, x),
         NEW j, j = Reposition(k, x, p)
  PROVE  Repositioned(j, k, x, p) /\ QueuesOrdered(j)
<1> DEFINE q == k.qptr[x]
           o == RemoveThreadFromQueue(k, x)
           r == [o EXCEPT !.prio[x] = p]
<1>1. q \in Queues /\ q # NULL /\ q \notin Prios
  BY Pointers DEF Queues
<1>2. Loose(o, x) /\ Unmoved(o, k)
  BY RemoveLoosens
<1>3. OthersStay(o, k, x) /\ o.pending = k.pending /\ QueuesOrdered(o)
  BY <1>1, RemoveEffect
<1> HIDE DEF o
<1>4. o \in OsMemory /\ ListsOK(o)
  BY <1>2 DEF Loose, Moving, ListsOK
<1>5. /\ r.prio = [o.prio EXCEPT ![x] = p]
      /\ r.state = o.state /\ r.susp = o.susp /\ r.resched = o.resched
      /\ r.queue = o.queue /\ r.pending = o.pending /\ r.qptr = o.qptr
      /\ r.owner = o.owner /\ r.count = o.count
      /\ r.base = o.base /\ r.waitsOn = o.waitsOn /\ r.held = o.held
      /\ r.timers = o.timers /\ r.parks = o.parks
  BY <1>4 DEF OsMemory
<1>6. r \in OsMemory
  <2>1. [o.prio EXCEPT ![x] = p] \in [Threads -> Prios \cup {SuspendedWaitPriority}]
    BY <1>4 DEF OsMemory
  <2>2. r = [o EXCEPT !.prio = [o.prio EXCEPT ![x] = p]]
    BY <1>4 DEF OsMemory
  <2> QED
    BY <1>4, <2>1, <2>2 DEF OsMemory
<1>7. j = InsertThreadIntoQueueByPriority(r, q, x, p)
  BY <1>1 DEF Reposition, o
<1> HIDE DEF r
<1>8. /\ r.prio[x] = p
      /\ \A t \in Threads \ {x} : r.state[t] = o.state[t] /\ r.susp[t] = o.susp[t] /\ r.prio[t] = o.prio[t]
  BY <1>4, <1>5 DEF OsMemory
<1>9. Loose(r, x)
  <2>1. \A m \in Mutexes : r.owner[m] = NULL <=> r.count[m] = 0
    BY <1>4, <1>5 DEF ListsOK
  <2>2. OnlyChanges(r, o, x)
    BY <1>5, <1>6, <1>8, <2>1 DEF OnlyChanges
  <2> QED
    BY <1>2, <2>2, MovingChanges
<1>10. QueuesOrdered(r)
  <2>1. OrderedBut(o, x)
    BY <1>3, OrderWithout
  <2>2. r.queue = o.queue /\ \A t \in Threads \ {x} : r.prio[t] = o.prio[t]
    BY <1>5, <1>8
  <2>3. OrderedBut(r, x)
    BY <1>4, <2>1, <2>2, OrderForgets
  <2> QED
    BY <1>9, <2>3, OrderWithout
<1>11. /\ Unmoved(j, r) /\ OthersStay(j, r, x)
       /\ \A s \in Queues : In(j, x, s) <=> s = q
       /\ j.pending = r.pending
       /\ QueuesOrdered(j)
  <2> HIDE DEF q
  <2>1. j = InsertThreadIntoQueueByPriority(r, q, x, r.prio[x])
    BY <1>7, <1>8
  <2>2. Unmoved(j, r) /\ OthersStay(j, r, x)
    BY <1>1, <1>7, <1>9, <2>1, InsertEffect
  <2>3. \A s \in Queues : In(j, x, s) <=> s = q
    BY <1>1, <1>7, <1>9, <2>1, InsertEffect
  <2>4. j.pending = r.pending
    BY <1>1, <1>7, <1>9, <2>1, InsertEffect
  <2>5. QueuesOrdered(r) => QueuesOrdered(j)
    BY <1>1, <1>7, <1>9, <2>1, InsertEffect
  <2> QED
    BY <1>1, <1>10, <2>2, <2>3, <2>4, <2>5
<1>12. \A t, s : In(r, t, s) <=> In(o, t, s)
  BY <1>5 DEF In
<1>13. \A s \in Waitables : s \in Queues
  BY DEF Queues
<1>14. \A s \in Queues : In(k, x, s) <=> s = q
  BY DEF Moving
<1>15. ASSUME NEW t \in Threads, NEW s \in Waitables PROVE In(j, t, s) <=> In(k, t, s)
  <2>1. CASE t = x
    BY <1>11, <1>13, <1>14, <2>1
  <2>2. CASE t # x
    BY <1>3, <1>11, <1>12, <1>13, <2>2 DEF OthersStay
  <2> QED
    BY <2>1, <2>2
<1> QED
  BY <1>2, <1>3, <1>5, <1>11, <1>15 DEF Unmoved, SameLocks, SameParks, Asked, Repositioned

(* A thread that does not wait is in no wait queue.                        *)
LEMMA WaitersOnly ==
  ASSUME NEW k, NEW x \in Threads, MemoryOK(k), k.state[x] # "WAITING"
  PROVE  \A q \in Waitables : ~In(k, x, q)
BY DEF MemoryOK, ThreadOK, Queues

(* Taking such a thread out of its run queue.                              *)
LEMMA RemoveRunnable ==
  ASSUME NEW k, NEW o, NEW x \in Threads, MemoryOK(k), k.state[x] # "WAITING", Moving(o, x),
         o.queue = k.queue, NEW j, j = RemoveThreadFromQueue(o, x)
  PROVE  /\ \A t \in Threads, q \in Waitables : In(j, t, q) <=> In(k, t, q)
         /\ j.pending \subseteq o.pending
         /\ OrderedBut(o, x) => QueuesOrdered(j)
<1>1. Loose(j, x)
  BY RemoveLoosens
<1>2. OthersStay(j, o, x)
  BY RemoveEffect
<1>3. j.pending \subseteq o.pending
  BY RemoveEffect
<1>4. OrderedBut(o, x) => QueuesOrdered(j)
  BY RemoveEffect
<1>5. \A q \in Waitables : ~In(k, x, q)
  BY WaitersOnly
<1>6. \A t, q : In(o, t, q) <=> In(k, t, q)
  BY DEF In
<1>7. ASSUME NEW t \in Threads, NEW q \in Waitables PROVE In(j, t, q) <=> In(k, t, q)
  <2>1. q \in Queues
    BY DEF Queues
  <2>2. CASE t = x
    BY <1>1, <1>5, <2>1, <2>2 DEF Loose
  <2>3. CASE t # x
    BY <1>2, <1>6, <2>1, <2>3 DEF OthersStay
  <2> QED
    BY <2>2, <2>3
<1> QED
  BY <1>3, <1>4, <1>7

(* Thread x gets priority p, unless it does not exist.                     *)
Adjusted(j, k, x, p) ==
  /\ SameLocks(j, k) /\ SameParks(j, k) /\ j.susp = k.susp /\ j.state = k.state
  /\ k.state[x] # "NONE" => j.prio = [k.prio EXCEPT ![x] = p]
  /\ k.state[x] = "NONE" => j.prio = k.prio
  /\ j.pending \subseteq k.pending \cup {p}
  /\ k.state[x] # "READY" => j.pending = k.pending
  /\ k.state[x] \in {"READY", "RUNNING"} => Asked(j)

LEMMA SetPriorityEffect ==
  ASSUME NEW k, NEW x \in Threads, NEW p \in Prios, MemoryOK(k), QueuesOrdered(k),
         ~Mortal, k.susp[x] = 0, NEW j, j = SetThreadEffectivePriority(k, x, p)
  PROVE  Adjusted(j, k, x, p) /\ QueuesOrdered(j)
<1> USE DEF Adjusted
<1>1. k \in OsMemory /\ Moving(k, x) /\ OrderedBut(k, x) /\ ThreadOK(k, x)
  BY StartsToMove, OrderWithout DEF MemoryOK, ListsOK
<1>2. CASE k.state[x] = "READY"
  <2> DEFINE o == RemoveThreadFromQueue(k, x)
  <2>1. Loose(o, x) /\ Unmoved(o, k)
    BY <1>1, RemoveLoosens
  <2>2. j = Requeue(o, x, p)
    BY <1>2 DEF SetThreadEffectivePriority
  <2>3. /\ \A t \in Threads, q \in Waitables : In(o, t, q) <=> In(k, t, q)
        /\ o.pending \subseteq k.pending
        /\ OrderedBut(o, x)
    <3> HIDE DEF o
    <3>1. k.queue = k.queue /\ o = RemoveThreadFromQueue(k, x)
      BY DEF o
    <3>2. \A t \in Threads, q \in Waitables : In(o, t, q) <=> In(k, t, q)
      BY <1>1, <1>2, <3>1, RemoveRunnable
    <3>3. o.pending \subseteq k.pending
      BY <1>1, <1>2, <3>1, RemoveRunnable
    <3>4. QueuesOrdered(o)
      BY <1>1, <1>2, <3>1, RemoveRunnable
    <3> QED
      BY <3>2, <3>3, <3>4, OrderWithout
  <2> HIDE DEF o
  <2>4. Requeued(j, o, x, p)
    BY <2>1, <2>2, <2>3, RequeueEffect
  <2>5. QueuesOrdered(j)
    BY <2>1, <2>2, <2>3, RequeueEffect
  <2>7. j.state = k.state
    BY <1>1, <1>2, <2>1, <2>4 DEF Unmoved, OsMemory, Requeued
  <2> QED
    BY <1>2, <2>1, <2>3, <2>4, <2>5, <2>7 DEF Unmoved, SameLocks, SameParks, Requeued
<1>3. CASE k.state[x] = "RUNNING"
  <2>1. j = [k EXCEPT !.prio[x] = p, !.resched = TRUE]
    BY <1>3 DEF SetThreadEffectivePriority
  <2>2. /\ j.prio = [k.prio EXCEPT ![x] = p] /\ j.state = k.state /\ j.susp = k.susp
        /\ Asked(j) /\ j.queue = k.queue /\ j.pending = k.pending /\ j.owner = k.owner
        /\ j.base = k.base /\ j.waitsOn = k.waitsOn /\ j.held = k.held
        /\ j.timers = k.timers /\ j.parks = k.parks
    BY <1>1, <2>1 DEF OsMemory, Asked
  <2>3. \A t \in Threads, q \in Waitables : In(j, t, q) <=> In(k, t, q)
    BY <2>2 DEF In
  <2>4. QueuesOrdered(j)
    <3>1. \A t \in Threads \ {x} : j.prio[t] = k.prio[t]
      BY <1>1, <2>2 DEF OsMemory
    <3>2. OrderedBut(j, x)
      BY <1>1, <2>2, <3>1, OrderForgets
    <3>3. \A q \in Waitables : ~In(j, x, q)
      BY <1>3, <2>3, WaitersOnly
    <3>4. \A q \in Waitables : \A i \in DOMAIN j.queue[q] : j.queue[q][i] # x
      BY <3>3 DEF In, ToSet
    <3> QED
      BY <3>2, <3>4 DEF QueuesOrdered, Sorted, OrderedBut
  <2> QED
    BY <1>3, <2>2, <2>3, <2>4 DEF SameLocks, SameParks
<1>4. CASE k.state[x] = "WAITING"
  <2>1. k.qptr[x] \in Waitables /\ In(k, x, k.qptr[x])
    BY <1>4, WaitersPoint
  <2>2. j = Reposition(k, x, p)
    BY <1>4 DEF SetThreadEffectivePriority
  <2>3. Repositioned(j, k, x, p)
    BY <1>1, <2>1, <2>2, RepositionEffect
  <2>4. QueuesOrdered(j)
    BY <1>1, <2>1, <2>2, RepositionEffect
  <2> QED
    BY <1>4, <2>3, <2>4 DEF Repositioned
<1>5. CASE k.state[x] \notin {"READY", "RUNNING", "WAITING"}
  <2>1. j = k
    BY <1>5 DEF SetThreadEffectivePriority
  <2>2. k.state[x] = "NONE"
    BY <1>1, <1>5 DEF ThreadOK, OsMemory, ThreadStates
  <2> QED
    BY <2>1, <2>2 DEF SameLocks, SameParks
<1> QED
  BY <1>2, <1>3, <1>4, <1>5

(* OSSuspendThread: a thread that waits goes behind the others.            *)
Suspended(j, k, x) ==
  /\ SameLocks(j, k) /\ SameParks(j, k)
  /\ j.susp = [k.susp EXCEPT ![x] = k.susp[x] + 1]
  /\ k.state[x] = "RUNNING" => j.state = [k.state EXCEPT ![x] = "READY"]
  /\ k.state[x] # "RUNNING" => j.state = k.state
  /\ k.state[x] = "WAITING" /\ k.susp[x] = 0 =>
       j.prio = [k.prio EXCEPT ![x] = SuspendedWaitPriority]
  /\ ~(k.state[x] = "WAITING" /\ k.susp[x] = 0) => j.prio = k.prio
  /\ j.pending \subseteq k.pending

LEMMA SuspendEffect ==
  ASSUME NEW k, NEW x \in Threads, MemoryOK(k), QueuesOrdered(k), NEW j, j = Suspend(k, x)
  PROVE  Suspended(j, k, x) /\ QueuesOrdered(j)
<1> USE DEF Suspended
<1> DEFINE s == [k EXCEPT !.susp[x] = @ + 1]
<1>1. k \in OsMemory /\ ThreadOK(k, x) /\ OrderedBut(k, x)
  BY OrderWithout DEF MemoryOK, ListsOK
<1>2. /\ s.susp = [k.susp EXCEPT ![x] = k.susp[x] + 1]
      /\ s.state = k.state /\ s.prio = k.prio /\ s.qptr = k.qptr
      /\ s.queue = k.queue /\ s.pending = k.pending /\ s.owner = k.owner
      /\ s.base = k.base /\ s.waitsOn = k.waitsOn /\ s.held = k.held
      /\ s.timers = k.timers /\ s.parks = k.parks
  BY <1>1 DEF OsMemory
<1>3. s \in OsMemory /\ Moving(s, x)
  BY RaisedCount
<1> HIDE DEF s
<1>4. SameLocks(s, k) /\ SameParks(s, k)
  BY <1>2 DEF SameLocks, SameParks, In
<1>5. OrderedBut(s, x) /\ QueuesOrdered(s)
  <2>1. s.queue = k.queue /\ \A t \in Threads \ {x} : s.prio[t] = k.prio[t]
    BY <1>2
  <2> QED
    BY <1>1, <1>2, <2>1, OrderForgets DEF QueuesOrdered, Sorted
<1>6. CASE k.susp[x] # 0
  <2>1. j = s
    BY <1>6 DEF Suspend, s
  <2>2. k.state[x] # "RUNNING"
    BY <1>1, <1>6 DEF ThreadOK
  <2> QED
    BY <1>2, <1>4, <1>5, <1>6, <2>1, <2>2
<1>7. CASE k.susp[x] = 0 /\ k.state[x] = "READY"
  <2>1. j = RemoveThreadFromQueue(s, x)
    BY <1>7 DEF Suspend, s
  <2>2. Unmoved(j, s)
    BY <1>3, <2>1, RemoveLoosens
  <2>3. \A t \in Threads, q \in Waitables : In(j, t, q) <=> In(k, t, q)
    BY <1>2, <1>3, <1>7, <2>1, RemoveRunnable
  <2>4. j.pending \subseteq s.pending
    BY <1>2, <1>3, <1>7, <2>1, RemoveRunnable
  <2>5. QueuesOrdered(j)
    BY <1>2, <1>3, <1>5, <1>7, <2>1, RemoveRunnable
  <2> QED
    BY <1>2, <1>7, <2>2, <2>3, <2>4, <2>5 DEF Unmoved, SameLocks, SameParks
<1>8. CASE k.susp[x] = 0 /\ k.state[x] = "RUNNING"
  <2>1. j = [s EXCEPT !.state[x] = "READY", !.resched = TRUE]
    BY <1>8 DEF Suspend, s
  <2>2. /\ j.susp = s.susp /\ j.state = [s.state EXCEPT ![x] = "READY"] /\ j.prio = s.prio
        /\ j.queue = s.queue /\ j.pending = s.pending /\ j.owner = s.owner
        /\ j.base = s.base /\ j.waitsOn = s.waitsOn /\ j.held = s.held
        /\ j.timers = s.timers /\ j.parks = s.parks
    BY <1>3, <2>1 DEF OsMemory
  <2>3. SameLocks(j, k) /\ SameParks(j, k) /\ QueuesOrdered(j)
    BY <1>2, <1>5, <2>2 DEF SameLocks, SameParks, In, QueuesOrdered, Sorted
  <2> QED
    BY <1>2, <1>8, <2>2, <2>3
<1>9. CASE k.susp[x] = 0 /\ k.state[x] = "WAITING"
  <2>1. j = Reposition(s, x, SuspendedWaitPriority)
    BY <1>9 DEF Suspend, s
  <2>2. k.qptr[x] \in Waitables /\ In(k, x, k.qptr[x])
    BY <1>9, WaitersPoint
  <2>3. s.qptr[x] \in Waitables /\ In(s, x, s.qptr[x])
    BY <1>2, <2>2 DEF In
  <2>4. Repositioned(j, s, x, SuspendedWaitPriority)
    BY <1>3, <1>5, <2>1, <2>3, RepositionEffect
  <2>5. QueuesOrdered(j)
    BY <1>3, <1>5, <2>1, <2>3, RepositionEffect
  <2>6. SameLocks(j, k) /\ SameParks(j, k)
    BY <1>4, <2>4 DEF SameLocks, SameParks, Repositioned
  <2> QED
    BY <1>2, <1>9, <2>4, <2>5, <2>6 DEF Repositioned
<1>10. CASE k.susp[x] = 0 /\ k.state[x] \notin {"READY", "RUNNING", "WAITING"}
  <2>1. j = s
    BY <1>10 DEF Suspend, s
  <2> QED
    BY <1>2, <1>4, <1>5, <1>10, <2>1
<1> QED
  BY <1>6, <1>7, <1>8, <1>9, <1>10

(* The effective priority reads only these fields.                         *)
LEMMA SameEffectivePriority ==
  ASSUME NEW k, NEW j, NEW x, j.base = k.base, j.prio = k.prio, j.held = k.held, j.queue = k.queue
  PROVE  ComputeThreadEffectivePriority(j, x) = ComputeThreadEffectivePriority(k, x)
BY DEF ComputeThreadEffectivePriority

(* OSResumeThread: the last resume restores the effective priority.        *)
Resumed(j, k, x) ==
  /\ SameLocks(j, k)
  /\ j.susp = [k.susp EXCEPT ![x] = k.susp[x] - 1]
  /\ j.state = k.state
  /\ k.susp[x] > 1 => SameParks(j, k) /\ j.prio = k.prio /\ j.pending = k.pending
  /\ k.susp[x] = 1 =>
       /\ j.timers = k.timers \ {x} /\ j.parks = k.parks \ {x}
       /\ j.prio = [k.prio EXCEPT ![x] = ComputeThreadEffectivePriority(k, x)]
       /\ k.state[x] = "WAITING" => j.pending = k.pending
       /\ k.state[x] # "WAITING" => Asked(j)

LEMMA ResumeEffect ==
  ASSUME NEW k, NEW x \in Threads, MemoryOK(k), QueuesOrdered(k),
         ~Mortal, k.state[x] # "NONE", k.susp[x] > 0, NEW j, j = Resume(k, x)
  PROVE  Resumed(j, k, x) /\ QueuesOrdered(j)
<1> USE DEF Resumed
<1> DEFINE r == [k EXCEPT !.susp[x] = @ - 1]
           c == [r EXCEPT !.timers = @ \ {x}, !.parks = @ \ {x}]
           p == ComputeThreadEffectivePriority(c, x)
<1>1. /\ k \in OsMemory /\ ListsOK(k) /\ Moving(k, x) /\ ThreadOK(k, x) /\ OrderedBut(k, x)
      /\ k.susp[x] \in Nat
  BY StartsToMove, OrderWithout DEF MemoryOK, ListsOK, OsMemory
<1>2. k.state[x] \in {"READY", "WAITING"}
  BY <1>1 DEF ThreadOK, OsMemory, ThreadStates
<1>3. /\ r.susp = [k.susp EXCEPT ![x] = k.susp[x] - 1]
      /\ r.state = k.state /\ r.prio = k.prio /\ r.qptr = k.qptr /\ r.resched = k.resched
      /\ r.queue = k.queue /\ r.pending = k.pending /\ r.owner = k.owner /\ r.count = k.count
      /\ r.base = k.base /\ r.waitsOn = k.waitsOn /\ r.held = k.held
      /\ r.timers = k.timers /\ r.parks = k.parks
  BY <1>1 DEF OsMemory
<1>4. r \in OsMemory
  <2>1. [k.susp EXCEPT ![x] = k.susp[x] - 1] \in [Threads -> Nat]
    BY <1>1 DEF OsMemory
  <2>2. r = [k EXCEPT !.susp = [k.susp EXCEPT ![x] = k.susp[x] - 1]]
    BY <1>1 DEF OsMemory
  <2> QED
    BY <1>1, <2>1, <2>2 DEF OsMemory
<1> HIDE DEF r
<1>5. /\ c.susp = r.susp /\ c.timers = r.timers \ {x} /\ c.parks = r.parks \ {x}
      /\ c.state = r.state /\ c.prio = r.prio /\ c.qptr = r.qptr /\ c.resched = r.resched
      /\ c.queue = r.queue /\ c.pending = r.pending /\ c.owner = r.owner /\ c.count = r.count
      /\ c.base = r.base /\ c.waitsOn = r.waitsOn /\ c.held = r.held
      /\ c \in OsMemory
  BY <1>4 DEF OsMemory
<1>6. j = IF k.susp[x] > 1 THEN r
          ELSE IF k.state[x] = "WAITING" THEN Reposition(c, x, p) ELSE Requeue(c, x, p)
  BY <1>1, <1>2 DEF Resume, r
<1> HIDE DEF c
<1>7. p = ComputeThreadEffectivePriority(k, x) /\ p \in Prios
  <2>1. c.base = k.base /\ c.prio = k.prio /\ c.held = k.held /\ c.queue = k.queue
    BY <1>3, <1>5
  <2> QED
    BY <1>5, <2>1, SameEffectivePriority, EffectivePriority
<1> HIDE DEF p
<1>8. SameLocks(r, k) /\ SameParks(r, k) /\ SameLocks(c, k)
  BY <1>3, <1>5 DEF SameLocks, SameParks, In
<1>9. OrderedBut(c, x) /\ QueuesOrdered(r)
  <2>1. c.queue = k.queue /\ \A t \in Threads \ {x} : c.prio[t] = k.prio[t]
    BY <1>3, <1>5
  <2> QED
    BY <1>1, <1>3, <2>1, OrderForgets DEF QueuesOrdered, Sorted
<1>10. OnlyChanges(c, k, x)
  <2>1. \A t \in Threads \ {x} : c.susp[t] = k.susp[t]
    BY <1>1, <1>3, <1>5 DEF OsMemory
  <2>2. \A m \in Mutexes : c.owner[m] = NULL <=> c.count[m] = 0
    BY <1>1, <1>3, <1>5 DEF ListsOK
  <2> QED
    BY <1>3, <1>5, <2>1, <2>2 DEF OnlyChanges
<1>11. CASE k.susp[x] > 1
  BY <1>3, <1>6, <1>8, <1>9, <1>11
<1>12. CASE k.susp[x] = 1 /\ k.state[x] = "WAITING"
  <2>1. j = Reposition(c, x, p)
    BY <1>6, <1>12
  <2>2. k.qptr[x] \in Waitables /\ In(k, x, k.qptr[x])
    BY <1>12, WaitersPoint
  <2>3. c.qptr[x] \in Waitables /\ In(c, x, c.qptr[x])
    BY <1>3, <1>5, <2>2 DEF In
  <2>4. Moving(c, x)
    BY <1>1, <1>10, MovingChanges
  <2>5. Repositioned(j, c, x, p)
    BY <1>7, <1>9, <2>1, <2>3, <2>4, RepositionEffect
  <2>6. QueuesOrdered(j)
    BY <1>7, <1>9, <2>1, <2>3, <2>4, RepositionEffect
  <2>7. SameLocks(j, k)
    BY <1>8, <2>5 DEF SameLocks, Repositioned
  <2> QED
    BY <1>3, <1>5, <1>7, <1>12, <2>5, <2>6, <2>7 DEF Repositioned, SameParks
<1>13. CASE k.susp[x] = 1 /\ k.state[x] = "READY"
  <2>1. j = Requeue(c, x, p)
    BY <1>6, <1>13
  <2>2. Loose(k, x)
    BY <1>13, StartsToMove DEF Linked
  <2>3. Loose(c, x)
    BY <1>10, <2>2, MovingChanges
  <2>4. Requeued(j, c, x, p)
    BY <1>7, <1>9, <2>1, <2>3, RequeueEffect
  <2>5. QueuesOrdered(j)
    BY <1>7, <1>9, <2>1, <2>3, RequeueEffect
  <2>6. SameLocks(j, k)
    BY <1>8, <2>4 DEF SameLocks, Requeued
  <2>7. j.state = k.state
    BY <1>1, <1>3, <1>5, <1>13, <2>4 DEF Requeued, OsMemory
  <2> QED
    BY <1>3, <1>5, <1>7, <1>13, <2>4, <2>5, <2>6, <2>7 DEF Requeued, SameParks
<1> QED
  BY <1>1, <1>2, <1>11, <1>12, <1>13

(* Thread x, the first of queue q, is made READY, and queued unless it is  *)
(* suspended.                                                              *)
Woken(j, k, q, x) ==
  /\ j.susp = k.susp /\ j.prio = k.prio /\ j.base = k.base
  /\ j.waitsOn = k.waitsOn /\ j.held = k.held /\ j.owner = k.owner
  /\ SameParks(j, k)
  /\ j.state = [k.state EXCEPT ![x] = "READY"]
  /\ \A t \in Threads, r \in Waitables : In(j, t, r) <=> In(k, t, r) /\ ~(r = q /\ t = x)
  /\ k.susp[x] = 0 => j.pending = k.pending \cup {k.prio[x]} /\ Asked(j)
  /\ k.susp[x] # 0 => j.pending = k.pending /\ (Asked(j) <=> Asked(k))

LEMMA WakeHeadEffect ==
  ASSUME NEW k, NEW q \in Waitables, MemoryOK(k), QueuesOrdered(k), k.queue[q] # << >>,
         NEW j, j = WakeHead(k, q), NEW x, x = Head(k.queue[q])
  PROVE  /\ x \in Threads /\ In(k, x, q) /\ k.state[x] = "WAITING"
         /\ WakeReschedules(k, q) <=> k.susp[x] = 0
         /\ Woken(j, k, q, x)
         /\ QueuesOrdered(j)
<1> DEFINE s == k.queue[q]
           rest == Tail(s)
           popped == [k EXCEPT !.queue[q] = Tail(@)]
           ready == [popped EXCEPT !.state[x] = "READY"]
           p == k.prio[x]
<1>1. k \in OsMemory /\ ListsOK(k) /\ q \in Queues /\ q \notin Prios
  BY Pointers DEF MemoryOK, ListsOK, Queues
<1>2. s \in Seq(Threads) /\ IsInjective(s) /\ s # << >> /\ k.queue \in [Queues -> Seq(Threads)]
  BY <1>1 DEF ListsOK, OsMemory
<1>3. /\ x \in Threads /\ x \in ToSet(s) /\ rest \in Seq(Threads)
      /\ ToSet(rest) = ToSet(s) \ {x}
  BY <1>2, PoppedList
<1>4. /\ In(k, x, q) /\ ThreadOK(k, x) /\ k.state[x] = "WAITING" /\ k.susp[x] \in Nat
      /\ p \in Prios \cup {SuspendedWaitPriority}
  BY <1>1, <1>3 DEF MemoryOK, ThreadOK, In, OsMemory
<1>5. Sorted(k, rest)
  <2>1. Sorted(k, s)
    BY DEF QueuesOrdered
  <2>2. /\ Len(rest) = Len(s) - 1 /\ \A i \in 1 .. Len(rest) : rest[i] = s[i + 1]
    BY <1>2, HeadTailProperties
  <2>3. /\ Len(s) \in Nat /\ DOMAIN s = 1 .. Len(s) /\ DOMAIN rest = 1 .. Len(rest)
    BY <1>2, <1>3, LenProperties
  <2> HIDE DEF rest, s
  <2>4. \A i \in DOMAIN rest : i + 1 \in DOMAIN s /\ rest[i] = s[i + 1]
    BY <2>2, <2>3
  <2>5. \A i, n \in DOMAIN rest : i < n => i + 1 < n + 1
    BY <2>2, <2>3
  <2> QED
    BY <2>1, <2>4, <2>5 DEF Sorted
<1>6. WakeReschedules(k, q) <=> k.susp[x] = 0
  BY <1>4 DEF WakeReschedules, ThreadStateIsTerminated
<1>7. k.susp[x] = 0 => p \in Prios /\ ~(p > MaxPrio)
  BY <1>4, OsConstants DEF ThreadOK, Prios, Ended, ThreadStateIsTerminated
<1>8. j = IF k.susp[x] = 0 THEN MarkRunQueuePending(LinkThreadOnRunQueue(ready, x, p), p) ELSE ready
  <2> DEFINE b == IF k.prio[x] > MaxPrio THEN MaxPrio ELSE k.prio[x]
  <2>1. ~ThreadStateIsTerminated(k.state[x])
    BY <1>4 DEF ThreadStateIsTerminated
  <2>2. j = IF ThreadStateIsTerminated(k.state[x]) THEN [popped EXCEPT !.qptr[x] = NULL]
            ELSE IF k.susp[x] < 1
                 THEN MarkRunQueuePending(LinkThreadOnRunQueue(ready, x, b), b)
                 ELSE ready
    <3> DEFINE turn(t) ==
                 IF ThreadStateIsTerminated(k.state[t]) THEN [popped EXCEPT !.qptr[t] = NULL]
                 ELSE IF k.susp[t] < 1
                      THEN MarkRunQueuePending(
                             LinkThreadOnRunQueue([popped EXCEPT !.state[t] = "READY"], t,
                               IF k.prio[t] > MaxPrio THEN MaxPrio ELSE k.prio[t]),
                             IF k.prio[t] > MaxPrio THEN MaxPrio ELSE k.prio[t])
                      ELSE [popped EXCEPT !.state[t] = "READY"]
    <3>1. j = turn(Head(k.queue[q]))
      BY Zenon DEF WakeHead
    <3> HIDE DEF turn
    <3>2. j = turn(x)
      BY <3>1
    <3> QED
      BY <3>2 DEF turn
  <2>3. k.susp[x] < 1 <=> k.susp[x] = 0
    BY <1>4
  <2>4. k.susp[x] = 0 => b = p
    BY <1>7
  <2> HIDE DEF popped, ready, b, p
  <2> QED
    BY <2>1, <2>2, <2>3, <2>4
<1>9. /\ popped.queue = [k.queue EXCEPT ![q] = rest] /\ popped \in OsMemory
      /\ popped.state = k.state /\ popped.susp = k.susp /\ popped.prio = k.prio
      /\ popped.pending = k.pending /\ popped.owner = k.owner /\ popped.resched = k.resched
      /\ popped.base = k.base /\ popped.waitsOn = k.waitsOn /\ popped.held = k.held
      /\ popped.timers = k.timers /\ popped.parks = k.parks
  <2>1. [k.queue EXCEPT ![q] = rest] \in [Queues -> Seq(Threads)]
    BY <1>2, <1>3
  <2>2. popped = [k EXCEPT !.queue = [k.queue EXCEPT ![q] = rest]]
    BY <1>1 DEF OsMemory
  <2> QED
    BY <1>1, <2>1, <2>2 DEF OsMemory
<1> HIDE DEF popped
<1>10. /\ ready.state = [k.state EXCEPT ![x] = "READY"] /\ ready \in OsMemory
       /\ ready.queue = [k.queue EXCEPT ![q] = rest] /\ ready.susp = k.susp /\ ready.prio = k.prio
       /\ ready.pending = k.pending /\ ready.owner = k.owner /\ ready.resched = k.resched
       /\ ready.base = k.base /\ ready.waitsOn = k.waitsOn /\ ready.held = k.held
       /\ ready.timers = k.timers /\ ready.parks = k.parks
  <2>1. [k.state EXCEPT ![x] = "READY"] \in [Threads -> ThreadStates]
    BY <1>1 DEF OsMemory, ThreadStates
  <2>2. ready = [popped EXCEPT !.state = [k.state EXCEPT ![x] = "READY"]]
    BY <1>9 DEF OsMemory
  <2> QED
    BY <1>9, <2>1, <2>2 DEF OsMemory
<1> HIDE DEF ready
<1>11. /\ j.susp = k.susp /\ j.prio = k.prio /\ j.owner = k.owner
       /\ j.base = k.base /\ j.waitsOn = k.waitsOn /\ j.held = k.held
       /\ j.timers = k.timers /\ j.parks = k.parks
       /\ j.state = [k.state EXCEPT ![x] = "READY"]
       /\ \A r \in Waitables : j.queue[r] = IF r = q THEN rest ELSE k.queue[r]
       /\ k.susp[x] = 0 => j.pending = k.pending \cup {p} /\ Asked(j)
       /\ k.susp[x] # 0 => j.pending = k.pending /\ (Asked(j) <=> Asked(k))
  <2>1. \A r \in Waitables : r \in Queues /\ r \notin Prios
    BY Pointers DEF Queues
  <2>2. \A r \in Waitables : ready.queue[r] = IF r = q THEN rest ELSE k.queue[r]
    BY <1>2, <1>10, <2>1
  <2>3. CASE k.susp[x] = 0
    <3>1. p \in Prios
      BY <1>7, <2>3
    <3>2. j = MarkRunQueuePending(LinkThreadOnRunQueue(ready, x, p), p)
      BY <1>8, <2>3
    <3> HIDE DEF p
    <3>3. /\ j.susp = ready.susp /\ j.prio = ready.prio /\ j.owner = ready.owner
          /\ j.base = ready.base /\ j.waitsOn = ready.waitsOn /\ j.held = ready.held
          /\ j.timers = ready.timers /\ j.parks = ready.parks /\ j.state = ready.state
          /\ j.pending = ready.pending \cup {p} /\ Asked(j)
          /\ j.queue = [ready.queue EXCEPT ![p] = Append(ready.queue[p], x)]
      BY <1>10, <3>2 DEF OsMemory, MarkRunQueuePending, LinkThreadOnRunQueue, Asked
    <3>4. \A r \in Waitables : j.queue[r] = ready.queue[r]
      <4>1. ready.queue \in [Queues -> Seq(Threads)]
        BY <1>10 DEF OsMemory
      <4> QED
        BY <2>1, <3>1, <3>3, <4>1
    <3> QED
      BY <1>10, <2>2, <2>3, <3>3, <3>4
  <2>4. CASE k.susp[x] # 0
    BY <1>8, <1>10, <2>2, <2>4 DEF Asked
  <2> QED
    BY <2>3, <2>4
<1> HIDE DEF rest
<1>12. \A t \in Threads, r \in Waitables : In(j, t, r) <=> In(k, t, r) /\ ~(r = q /\ t = x)
  BY <1>3, <1>11 DEF In
<1>13. QueuesOrdered(j)
  <2> SUFFICES ASSUME NEW r \in Waitables PROVE Sorted(j, j.queue[r])
    BY DEF QueuesOrdered
  <2>1. Sorted(k, k.queue[r])
    BY DEF QueuesOrdered
  <2>2. CASE r = q
    BY <1>5, <1>11, <2>2 DEF Sorted
  <2>3. CASE r # q
    BY <1>11, <2>1, <2>3 DEF Sorted
  <2> QED
    BY <2>2, <2>3
<1> QED
  BY <1>3, <1>4, <1>6, <1>11, <1>12, <1>13 DEF Woken, SameParks

(* OSSleepThread: the running thread x goes to queue q.                    *)
Slept(j, k, q, x) ==
  /\ j.susp = k.susp /\ j.prio = k.prio /\ j.base = k.base
  /\ j.waitsOn = k.waitsOn /\ j.held = k.held /\ j.owner = k.owner
  /\ SameParks(j, k)
  /\ j.state = [k.state EXCEPT ![x] = "WAITING"]
  /\ j.pending = k.pending
  /\ \A t \in Threads, r \in Waitables : In(j, t, r) <=> In(k, t, r) \/ (r = q /\ t = x)

LEMMA SleepEffect ==
  ASSUME NEW k, NEW q \in Waitables, NEW x \in Threads, MemoryOK(k), QueuesOrdered(k),
         k.state[x] = "RUNNING",
         NEW j, j = InsertThreadIntoQueueByPriority(
                      [k EXCEPT !.state[x] = "WAITING", !.resched = TRUE], q, x, k.prio[x])
  PROVE  Slept(j, k, q, x) /\ QueuesOrdered(j)
<1> DEFINE w == [k EXCEPT !.state[x] = "WAITING", !.resched = TRUE]
<1>1. k \in OsMemory /\ ListsOK(k) /\ q \in Queues /\ q \notin Prios
  BY Pointers DEF MemoryOK, ListsOK, Queues
<1>2. /\ w.state = [k.state EXCEPT ![x] = "WAITING"]
      /\ w.queue = k.queue /\ w.pending = k.pending /\ w.qptr = k.qptr
      /\ w.susp = k.susp /\ w.prio = k.prio /\ w.owner = k.owner /\ w.count = k.count
      /\ w.base = k.base /\ w.waitsOn = k.waitsOn /\ w.held = k.held
      /\ w.timers = k.timers /\ w.parks = k.parks
  BY <1>1 DEF OsMemory
<1>3. w \in OsMemory
  <2>1. [k.state EXCEPT ![x] = "WAITING"] \in [Threads -> ThreadStates]
    BY <1>1 DEF OsMemory, ThreadStates
  <2>2. w = [k EXCEPT !.state = [k.state EXCEPT ![x] = "WAITING"], !.resched = TRUE]
    BY <1>1 DEF OsMemory
  <2> QED
    BY <1>1, <2>1, <2>2 DEF OsMemory
<1>4. j = InsertThreadIntoQueueByPriority(w, q, x, w.prio[x])
  BY <1>2
<1> HIDE DEF w
<1>5. Loose(w, x)
  <2>1. Loose(k, x)
    BY StartsToMove DEF Linked
  <2>2. \A t \in Threads \ {x} : w.state[t] = k.state[t]
    BY <1>1, <1>2 DEF OsMemory
  <2>3. \A m \in Mutexes : w.owner[m] = NULL <=> w.count[m] = 0
    BY <1>1, <1>2 DEF ListsOK
  <2>4. OnlyChanges(w, k, x)
    BY <1>2, <1>3, <2>2, <2>3 DEF OnlyChanges
  <2> QED
    BY <2>1, <2>4, MovingChanges
<1>6. QueuesOrdered(w)
  BY <1>2 DEF QueuesOrdered, Sorted
<1>7. Unmoved(j, w) /\ OthersStay(j, w, x)
  BY <1>1, <1>4, <1>5, InsertEffect
<1>8. \A r \in Queues : In(j, x, r) <=> r = q
  BY <1>1, <1>4, <1>5, InsertEffect
<1>9. j.pending = w.pending
  BY <1>1, <1>4, <1>5, InsertEffect
<1>10. QueuesOrdered(w) => QueuesOrdered(j)
  BY <1>1, <1>4, <1>5, InsertEffect
<1>11. ASSUME NEW t \in Threads, NEW r \in Waitables
       PROVE  In(j, t, r) <=> In(k, t, r) \/ (r = q /\ t = x)
  <2>1. r \in Queues /\ (In(w, t, r) <=> In(k, t, r))
    BY <1>2 DEF Queues, In
  <2>2. CASE t = x
    BY <1>5, <1>8, <2>1, <2>2 DEF Loose
  <2>3. CASE t # x
    BY <1>7, <2>1, <2>3 DEF OthersStay
  <2> QED
    BY <2>2, <2>3
<1> QED
  BY <1>2, <1>6, <1>7, <1>9, <1>10, <1>11 DEF Unmoved, Slept, SameParks

(* OSLockMutex takes mutex m for thread x.                                 *)
Acquired(j, k, m, x) ==
  /\ j.queue = k.queue /\ j.state = k.state /\ j.susp = k.susp /\ j.prio = k.prio
  /\ j.base = k.base /\ j.waitsOn = k.waitsOn /\ j.pending = k.pending
  /\ SameParks(j, k) /\ (Asked(j) <=> Asked(k))
  /\ j.owner = [k.owner EXCEPT ![m] = x]

LEMMA AcquireEffect ==
  ASSUME NEW k \in OsMemory, NEW m \in Mutexes, NEW x \in Threads, HoldersOK(k),
         k.owner[m] \in {NULL, x}, k.state[x] # "NONE", NEW j, j = Acquire(k, m, x)
  PROVE  Acquired(j, k, m, x) /\ HoldersOK(j)
<1> DEFINE h == IF k.owner[m] = NULL THEN Append(k.held[x], m) ELSE k.held[x]
<1>1. /\ j.queue = k.queue /\ j.state = k.state /\ j.susp = k.susp /\ j.prio = k.prio
      /\ j.base = k.base /\ j.waitsOn = k.waitsOn /\ j.pending = k.pending
      /\ j.timers = k.timers /\ j.parks = k.parks /\ j.resched = k.resched
      /\ j.owner = [k.owner EXCEPT ![m] = x]
      /\ j.held = [k.held EXCEPT ![x] = h]
  BY DEF Acquire, OsMemory
<1>2. /\ k.owner \in [Mutexes -> Threads \cup {NULL}] /\ k.held \in [Threads -> Seq(Mutexes)]
      /\ x # NULL
  BY Pointers DEF OsMemory
<1>3. ToSet(h) = ToSet(k.held[x]) \cup {m} /\ IsInjective(h)
  <2>1. CASE k.owner[m] = NULL
    <3>1. m \notin ToSet(k.held[x]) /\ IsInjective(k.held[x]) /\ k.held[x] \in Seq(Mutexes)
      BY <1>2, <2>1 DEF HoldersOK
    <3> QED
      BY <2>1, <3>1, AppendedList
  <2>2. CASE k.owner[m] = x
    BY <1>2, <2>2 DEF HoldersOK
  <2> QED
    BY <2>1, <2>2
<1> HIDE DEF h
<1>4. ASSUME NEW t \in Threads PROVE IsInjective(j.held[t])
  BY <1>1, <1>2, <1>3 DEF HoldersOK
<1>5. ASSUME NEW t \in Threads, NEW n \in Mutexes PROVE n \in ToSet(j.held[t]) <=> j.owner[n] = t
  <2>1. n \in ToSet(k.held[t]) <=> k.owner[n] = t
    BY DEF HoldersOK
  <2>2. CASE t = x
    <3>1. j.held[t] = h /\ k.held[t] = k.held[x]
      BY <1>1, <1>2, <2>2
    <3>2. j.owner[n] = IF n = m THEN x ELSE k.owner[n]
      BY <1>1, <1>2
    <3> QED
      BY <1>3, <2>1, <2>2, <3>1, <3>2
  <2>3. CASE t # x
    <3>1. j.held[t] = k.held[t]
      BY <1>1, <1>2, <2>3
    <3>2. j.owner[n] = IF n = m THEN x ELSE k.owner[n]
      BY <1>1, <1>2
    <3>3. t # NULL
      BY Pointers
    <3> QED
      BY <2>1, <2>3, <3>1, <3>2, <3>3
  <2> QED
    BY <2>2, <2>3
<1>6. \A n \in Mutexes : j.owner[n] # NULL => j.state[j.owner[n]] # "NONE"
  BY <1>1, <1>2 DEF HoldersOK
<1>7. HoldersOK(j)
  BY <1>4, <1>5, <1>6 DEF HoldersOK
<1> QED
  BY <1>1, <1>7 DEF Acquired, SameParks, Asked

(* OSUnlockMutex lowers the count of mutex m, and releases m with the last. *)
Released(j, k, m, x) ==
  /\ j.queue = k.queue /\ j.state = k.state /\ j.susp = k.susp
  /\ j.base = k.base /\ j.waitsOn = k.waitsOn /\ j.pending = k.pending
  /\ SameParks(j, k) /\ (Asked(j) <=> Asked(k))
  /\ k.count[m] # 1 => j.owner = k.owner /\ j.prio = k.prio
  /\ k.count[m] = 1 =>
       /\ j.owner = [k.owner EXCEPT ![m] = NULL]
       /\ ~(k.prio[x] < k.base[x]) => j.prio = k.prio
       /\ k.prio[x] < k.base[x] => \E r \in OsMemory :
            /\ r.base = k.base /\ r.prio = k.prio /\ r.queue = k.queue /\ r.held = j.held
            /\ j.prio = [k.prio EXCEPT ![x] = ComputeThreadEffectivePriority(r, x)]

LEMMA ReleaseEffect ==
  ASSUME NEW k \in OsMemory, NEW m \in Mutexes, NEW x \in Threads, HoldersOK(k),
         k.owner[m] = x, NEW j, j = Release(k, m, x)
  PROVE  Released(j, k, m, x) /\ HoldersOK(j)
<1> DEFINE c == [k EXCEPT !.count[m] = @ - 1]
           h == UnlinkGuestListNode(k.held[x], m)
           r == [c EXCEPT !.owner[m] = NULL, !.held[x] = UnlinkGuestListNode(@, m)]
           p == ComputeThreadEffectivePriority(r, x)
<1>1. /\ k.owner \in [Mutexes -> Threads \cup {NULL}] /\ k.held \in [Threads -> Seq(Mutexes)]
      /\ k.count \in [Mutexes -> Nat] /\ x # NULL
  BY Pointers DEF OsMemory
<1>2. /\ c.queue = k.queue /\ c.state = k.state /\ c.susp = k.susp /\ c.prio = k.prio
      /\ c.base = k.base /\ c.waitsOn = k.waitsOn /\ c.pending = k.pending
      /\ c.timers = k.timers /\ c.parks = k.parks /\ c.resched = k.resched
      /\ c.owner = k.owner /\ c.held = k.held
  BY DEF OsMemory
<1>3. k.count[m] # 1 => j = c
  BY DEF Release
<1>4. k.count[m] = 1 => j = IF k.prio[x] < k.base[x] THEN [r EXCEPT !.prio[x] = p] ELSE r
  BY DEF Release
<1>5. ASSUME k.count[m] # 1 PROVE Released(j, k, m, x) /\ HoldersOK(j)
  <2>1. j = c
    BY <1>3, <1>5
  <2> HIDE DEF c
  <2>2. HoldersOK(j)
    BY <1>2, <2>1 DEF HoldersOK
  <2>3. SameParks(j, k) /\ (Asked(j) <=> Asked(k))
    BY <1>2, <2>1 DEF SameParks, Asked
  <2> QED
    BY <1>2, <1>5, <2>1, <2>2, <2>3 DEF Released
<1>6. ASSUME k.count[m] = 1 PROVE Released(j, k, m, x) /\ HoldersOK(j)
  <2>1. h \in Seq(Mutexes) /\ ToSet(h) = ToSet(k.held[x]) \ {m} /\ IsInjective(h)
    BY <1>1, UnlinkedList DEF HoldersOK
  <2>2. r = [k EXCEPT !.count = [k.count EXCEPT ![m] = 0],
                      !.owner = [k.owner EXCEPT ![m] = NULL],
                      !.held = [k.held EXCEPT ![x] = h]]
    BY <1>6 DEF OsMemory
  <2>3. /\ [k.count EXCEPT ![m] = 0] \in [Mutexes -> Nat]
        /\ [k.owner EXCEPT ![m] = NULL] \in [Mutexes -> Threads \cup {NULL}]
        /\ [k.held EXCEPT ![x] = h] \in [Threads -> Seq(Mutexes)]
    <3> HIDE DEF h
    <3> QED
      BY <1>1, <2>1
  <2> HIDE DEF h, r
  <2>4. /\ r \in OsMemory
        /\ r.queue = k.queue /\ r.state = k.state /\ r.susp = k.susp /\ r.prio = k.prio
        /\ r.base = k.base /\ r.waitsOn = k.waitsOn /\ r.pending = k.pending
        /\ r.timers = k.timers /\ r.parks = k.parks /\ r.resched = k.resched
        /\ r.owner = [k.owner EXCEPT ![m] = NULL]
        /\ r.held = [k.held EXCEPT ![x] = h]
    BY <2>2, <2>3 DEF OsMemory
  <2> HIDE DEF p
  <2>5. /\ j.queue = r.queue /\ j.state = r.state /\ j.susp = r.susp
        /\ j.base = r.base /\ j.waitsOn = r.waitsOn /\ j.pending = r.pending
        /\ j.timers = r.timers /\ j.parks = r.parks /\ j.resched = r.resched
        /\ j.owner = r.owner /\ j.held = r.held
        /\ ~(k.prio[x] < k.base[x]) => j.prio = r.prio
        /\ k.prio[x] < k.base[x] => j.prio = [r.prio EXCEPT ![x] = p]
    <3>1. CASE k.prio[x] < k.base[x]
      <4>1. j = [r EXCEPT !.prio[x] = p]
        BY <1>4, <1>6, <3>1
      <4> QED
        BY <2>4, <3>1, <4>1 DEF OsMemory
    <3>2. CASE ~(k.prio[x] < k.base[x])
      BY <1>4, <1>6, <3>2
    <3> QED
      BY <3>1, <3>2
  <2>6. Released(j, k, m, x)
    <3>1. SameParks(j, k) /\ (Asked(j) <=> Asked(k))
      BY <2>4, <2>5 DEF SameParks, Asked
    <3>2. k.prio[x] < k.base[x] => \E i \in OsMemory :
            /\ i.base = k.base /\ i.prio = k.prio /\ i.queue = k.queue /\ i.held = j.held
            /\ j.prio = [k.prio EXCEPT ![x] = ComputeThreadEffectivePriority(i, x)]
      BY <2>4, <2>5 DEF p
    <3> QED
      BY <1>6, <2>4, <2>5, <3>1, <3>2 DEF Released
  <2>7. ASSUME NEW t \in Threads PROVE IsInjective(j.held[t])
    BY <1>1, <2>1, <2>4, <2>5 DEF HoldersOK
  <2>8. ASSUME NEW t \in Threads, NEW n \in Mutexes PROVE n \in ToSet(j.held[t]) <=> j.owner[n] = t
    <3>1. n \in ToSet(k.held[t]) <=> k.owner[n] = t
      BY DEF HoldersOK
    <3>2. j.owner[n] = IF n = m THEN NULL ELSE k.owner[n]
      BY <1>1, <2>4, <2>5
    <3>3. t # NULL
      BY Pointers
    <3>4. CASE t = x
      <4>1. j.held[t] = h
        BY <1>1, <2>4, <2>5, <3>4
      <4> QED
        BY <2>1, <3>1, <3>2, <3>3, <3>4, <4>1
    <3>5. CASE t # x
      <4>1. j.held[t] = k.held[t]
        BY <1>1, <2>4, <2>5, <3>5
      <4> QED
        BY <3>1, <3>2, <3>3, <3>5, <4>1
    <3> QED
      BY <3>4, <3>5
  <2>9. \A n \in Mutexes : j.owner[n] # NULL => j.state[j.owner[n]] # "NONE"
    BY <1>1, <2>4, <2>5 DEF HoldersOK
  <2> QED
    BY <2>6, <2>7, <2>8, <2>9 DEF HoldersOK
<1> QED
  BY <1>5, <1>6

-----------------------------------------------------------------------------
(* The guest memory after each helper.                                     *)

(* A queue has threads in it exactly when its list is not empty.           *)
LEMMA SomeoneIn ==
  ASSUME NEW k \in OsMemory, NEW q \in Queues
  PROVE  k.queue[q] # << >> <=> \E t \in Threads : In(k, t, q)
<1>1. k.queue[q] \in Seq(Threads)
  BY DEF OsMemory
<1>2. \A t \in ToSet(k.queue[q]) : t \in Threads
  BY <1>1, ElementOfSeq DEF ToSet
<1>3. k.queue[q] = << >> <=> ToSet(k.queue[q]) = {}
  BY <1>1, EmptyList
<1> QED
  BY <1>2, <1>3 DEF In

(* The same threads own the same mutexes.                                  *)
LEMMA HoldersStay ==
  ASSUME NEW k \in OsMemory, NEW j, HoldersOK(k), j.held = k.held, j.owner = k.owner,
         \A t \in Threads : k.state[t] # "NONE" => j.state[t] # "NONE"
  PROVE  HoldersOK(j)
<1>1. \A m \in Mutexes : k.owner[m] # NULL => k.owner[m] \in Threads
  BY DEF OsMemory
<1> QED
  BY <1>1 DEF HoldersOK

(* The same threads wait in the same queues for the same mutexes.          *)
WaitersKept(j, k) ==
  /\ j.waitsOn = k.waitsOn
  /\ \A t \in Threads, q \in Waitables : In(j, t, q) <=> In(k, t, q)
  /\ \A t \in Threads : j.state[t] = "WAITING" =>
       k.state[t] = "WAITING" /\ (j.susp[t] > 0 => j.prio[t] = SuspendedWaitPriority)

LEMMA WaitersStay ==
  ASSUME NEW k \in OsMemory, NEW j, \A t \in Threads : WaiterOK(k, t), WaitersKept(j, k)
  PROVE  \A t \in Threads : WaiterOK(j, t)
<1> SUFFICES ASSUME NEW t \in Threads PROVE WaiterOK(j, t)
  OBVIOUS
<1>1. WaiterOK(k, t) /\ k.waitsOn[t] \in Mutexes \cup {NULL} /\ \A m \in Mutexes : m \in Waitables
  BY DEF OsMemory, Waitables
<1> QED
  BY <1>1 DEF WaiterOK, WaitersKept

(* What the calls of a fiber rely on is kept.                              *)
CallsKept(j, k) ==
  /\ j.waitsOn = k.waitsOn
  /\ \A t \in Threads : t \in j.parks =>
       t \in k.parks /\ (t \in k.timers /\ k.susp[t] > 0 => t \in j.timers /\ j.susp[t] > 0)
  /\ \A t \in Threads : k.state[t] # "NONE" => j.state[t] # "NONE"

(* Nobody waits for a mutex without an owner.                              *)
Owned(k) == \A m \in Mutexes : k.queue[m] # << >> => k.owner[m] # NULL

(* A step of the memory that concerns neither the locks nor the calls.     *)
Quiet(j, k) == LocksOK(j) /\ CallsKept(j, k) /\ (Owned(k) => Owned(j))

LEMMA OwnedStays ==
  ASSUME NEW k \in OsMemory, NEW j \in OsMemory, Owned(k),
         \A m \in Mutexes : k.owner[m] # NULL => j.owner[m] # NULL,
         \A t \in Threads, m \in Mutexes : In(j, t, m) => In(k, t, m)
  PROVE  Owned(j)
<1>1. \A m \in Mutexes : m \in Queues
  BY DEF Queues, Waitables
<1> QED
  BY <1>1, SomeoneIn DEF Owned

LEMMA SameLocksOwned ==
  ASSUME NEW k \in OsMemory, NEW j \in OsMemory, SameLocks(j, k)
  PROVE  Owned(k) => Owned(j)
<1>1. /\ \A m \in Mutexes : m \in Waitables
      /\ j.owner = k.owner
      /\ \A t \in Threads, m \in Mutexes : In(j, t, m) => In(k, t, m)
  BY DEF SameLocks, Waitables
<1> QED
  BY <1>1, OwnedStays

(* Putting the parts together.                                             *)
LEMMA QuietParts ==
  ASSUME NEW k, NEW j \in OsMemory, MemoryOK(k), LocksOK(k), SameLocks(j, k),
         QueuesOrdered(j), WaitersKept(j, k), CallsKept(j, k)
  PROVE  Quiet(j, k)
<1>1. k \in OsMemory /\ HoldersOK(k) /\ \A t \in Threads : WaiterOK(k, t)
  BY DEF MemoryOK, ListsOK, LocksOK
<1>2. HoldersOK(j)
  BY <1>1, HoldersStay DEF SameLocks, CallsKept
<1>3. \A t \in Threads : WaiterOK(j, t)
  BY <1>1, WaitersStay
<1>4. Owned(k) => Owned(j)
  BY <1>1, SameLocksOwned
<1> QED
  BY <1>2, <1>3, <1>4 DEF Quiet, LocksOK

LEMMA AdjustedIsQuiet ==
  ASSUME NEW k, NEW j \in OsMemory, NEW x \in Threads, NEW p, MemoryOK(k), LocksOK(k),
         k.susp[x] = 0, Adjusted(j, k, x, p), QueuesOrdered(j)
  PROVE  Quiet(j, k)
<1>1. /\ k.prio \in [Threads -> Prios \cup {SuspendedWaitPriority}]
      /\ k.susp \in [Threads -> Nat]
  BY DEF MemoryOK, ListsOK, OsMemory
<1>2. \A t \in Threads : t # x => j.prio[t] = k.prio[t]
  BY <1>1 DEF Adjusted
<1>3. WaitersKept(j, k)
  BY <1>2 DEF WaitersKept, Adjusted, SameLocks, LocksOK, WaiterOK
<1>4. CallsKept(j, k) /\ SameLocks(j, k)
  BY DEF CallsKept, Adjusted, SameLocks, SameParks
<1> QED
  BY <1>3, <1>4, QuietParts

LEMMA SuspendedIsQuiet ==
  ASSUME NEW k, NEW j \in OsMemory, NEW x \in Threads, MemoryOK(k), LocksOK(k),
         Suspended(j, k, x), QueuesOrdered(j)
  PROVE  Quiet(j, k)
<1>1. /\ k.prio \in [Threads -> Prios \cup {SuspendedWaitPriority}]
      /\ k.susp \in [Threads -> Nat] /\ k.state \in [Threads -> ThreadStates]
  BY DEF MemoryOK, ListsOK, OsMemory
<1>2. \A t \in Threads : /\ j.susp[t] = IF t = x THEN k.susp[t] + 1 ELSE k.susp[t]
                         /\ j.state[t] = "WAITING" => k.state[t] = "WAITING"
                         /\ k.state[t] # "NONE" => j.state[t] # "NONE"
                         /\ t # x => j.prio[t] = k.prio[t]
  BY <1>1 DEF Suspended
<1>3. j.state[x] = "WAITING" => j.prio[x] = SuspendedWaitPriority
  BY <1>1, <1>2 DEF Suspended, LocksOK, WaiterOK
<1>4. WaitersKept(j, k)
  <2>1. ASSUME NEW t \in Threads, j.state[t] = "WAITING", j.susp[t] > 0
        PROVE  j.prio[t] = SuspendedWaitPriority
    <3>1. CASE t = x
      BY <1>3, <2>1, <3>1
    <3>2. CASE t # x
      BY <1>2, <2>1, <3>2 DEF LocksOK, WaiterOK
    <3> QED
      BY <3>1, <3>2
  <2> QED
    BY <1>2, <2>1 DEF WaitersKept, Suspended, SameLocks
<1>5. CallsKept(j, k) /\ SameLocks(j, k)
  <2>1. \A t \in Threads : k.susp[t] > 0 => j.susp[t] > 0
    BY <1>1, <1>2
  <2> QED
    BY <1>2, <2>1 DEF CallsKept, Suspended, SameLocks, SameParks
<1> QED
  BY <1>4, <1>5, QuietParts

LEMMA ResumedIsQuiet ==
  ASSUME NEW k, NEW j \in OsMemory, NEW x \in Threads, MemoryOK(k), LocksOK(k),
         k.susp[x] > 0, Resumed(j, k, x), QueuesOrdered(j)
  PROVE  Quiet(j, k)
<1>1. /\ k.prio \in [Threads -> Prios \cup {SuspendedWaitPriority}]
      /\ k.susp \in [Threads -> Nat] /\ k.susp[x] \in Nat
  BY DEF MemoryOK, ListsOK, OsMemory
<1>2. \A t \in Threads : /\ j.susp[t] = IF t = x THEN k.susp[t] - 1 ELSE k.susp[t]
                         /\ j.state[t] = k.state[t]
  BY <1>1 DEF Resumed
<1>3. CASE k.susp[x] > 1
  <2>1. \A t \in Threads : j.susp[t] > 0 <=> k.susp[t] > 0
    BY <1>1, <1>2, <1>3
  <2>2. j.prio = k.prio /\ SameParks(j, k) /\ SameLocks(j, k)
    BY <1>3 DEF Resumed
  <2>3. WaitersKept(j, k)
    BY <1>2, <2>1, <2>2 DEF WaitersKept, SameLocks, LocksOK, WaiterOK
  <2>4. CallsKept(j, k)
    BY <1>2, <2>1, <2>2 DEF CallsKept, SameLocks, SameParks
  <2> QED
    BY <2>2, <2>3, <2>4, QuietParts
<1>4. CASE k.susp[x] = 1
  <2>1. /\ j.susp[x] = 0 /\ SameLocks(j, k)
        /\ j.timers = k.timers \ {x} /\ j.parks = k.parks \ {x}
        /\ \A t \in Threads : t # x => j.prio[t] = k.prio[t] /\ j.susp[t] = k.susp[t]
    BY <1>1, <1>2, <1>4 DEF Resumed
  <2>2. WaitersKept(j, k)
    BY <1>2, <2>1 DEF WaitersKept, SameLocks, LocksOK, WaiterOK
  <2>3. CallsKept(j, k)
    BY <1>2, <2>1 DEF CallsKept, SameLocks
  <2> QED
    BY <2>1, <2>2, <2>3, QuietParts
<1> QED
  BY <1>1, <1>3, <1>4

(* Only who runs, and what is asked for, changes.                          *)
Steady(j, k) ==
  /\ j.susp = k.susp /\ j.prio = k.prio /\ j.base = k.base
  /\ j.waitsOn = k.waitsOn /\ j.held = k.held /\ j.owner = k.owner
  /\ \A t \in Threads : t \in j.parks => t \in k.parks /\ (t \in k.timers => t \in j.timers)
  /\ \A q \in Waitables : j.queue[q] = k.queue[q]
  /\ \A t \in Threads : \/ j.state[t] = k.state[t]
                        \/ {j.state[t], k.state[t]} \subseteq {"READY", "RUNNING"}

LEMMA SteadyIsQuiet ==
  ASSUME NEW k, NEW j \in OsMemory, MemoryOK(k), LocksOK(k), Steady(j, k)
  PROVE  Quiet(j, k)
<1>1. SameLocks(j, k) /\ QueuesOrdered(j)
  BY DEF Steady, SameLocks, In, LocksOK, QueuesOrdered, Sorted
<1>2. \A t \in Threads : /\ j.state[t] = "WAITING" => k.state[t] = "WAITING"
                         /\ k.state[t] # "NONE" => j.state[t] # "NONE"
  BY DEF Steady
<1>3. WaitersKept(j, k)
  BY <1>1, <1>2 DEF WaitersKept, SameLocks, Steady, LocksOK, WaiterOK
<1>4. CallsKept(j, k)
  BY <1>2 DEF CallsKept, Steady
<1> QED
  BY <1>1, <1>3, <1>4, QuietParts

LEMMA PreemptIsSteady ==
  ASSUME NEW k \in OsMemory, NEW x \in Threads, NEW p \in Prios, k.state[x] = "RUNNING",
         NEW j, j = MarkRunQueuePending(LinkThreadOnRunQueue([k EXCEPT !.state[x] = "READY"], x, p), p)
  PROVE  Steady(j, k)
<1>1. /\ j.susp = k.susp /\ j.prio = k.prio /\ j.base = k.base
      /\ j.waitsOn = k.waitsOn /\ j.held = k.held /\ j.owner = k.owner
      /\ j.timers = k.timers /\ j.parks = k.parks
      /\ j.state = [k.state EXCEPT ![x] = "READY"]
      /\ j.queue = [k.queue EXCEPT ![p] = Append(k.queue[p], x)]
  BY DEF OsMemory, MarkRunQueuePending, LinkThreadOnRunQueue
<1>2. \A q \in Waitables : q \in Queues /\ q # p
  BY Pointers DEF Queues
<1>3. k.queue \in [Queues -> Seq(Threads)] /\ k.state \in [Threads -> ThreadStates]
  BY DEF OsMemory
<1>4. \A q \in Waitables : j.queue[q] = k.queue[q]
  BY <1>1, <1>2, <1>3
<1>5. \A t \in Threads : \/ j.state[t] = k.state[t]
                         \/ {j.state[t], k.state[t]} \subseteq {"READY", "RUNNING"}
  BY <1>1, <1>3
<1> QED
  BY <1>1, <1>4, <1>5 DEF Steady

LEMMA StartIsSteady ==
  ASSUME NEW k, MemoryOK(k), k.pending # {}, NEW j, j = Started(k)
  PROVE  Steady(j, k)
<1> DEFINE p == Min(k.pending)
           x == Head(k.queue[p])
<1>1. k \in OsMemory /\ ListsOK(k) /\ k.queue \in [Queues -> Seq(Threads)]
  BY DEF MemoryOK, ListsOK, OsMemory
<1>2. p \in Prios /\ p \in k.pending
  <2>1. k.pending \in SUBSET Nat /\ k.pending \subseteq Prios
    BY <1>1, Pointers DEF OsMemory
  <2> QED
    BY <2>1, LeastElement
<1>3. x \in Threads /\ k.state[x] = "READY"
  <2>1. p \in Queues /\ k.queue[p] # << >> /\ k.queue[p] \in Seq(Threads)
    BY <1>1, <1>2 DEF ListsOK, Queues
  <2>2. x \in Threads /\ In(k, x, p)
    BY <2>1, PoppedList DEF In
  <2> HIDE DEF x, p
  <2> QED
    BY <1>2, <2>1, <2>2 DEF MemoryOK, ThreadOK
<1>4. /\ j.susp = k.susp /\ j.prio = k.prio /\ j.base = k.base
      /\ j.waitsOn = k.waitsOn /\ j.held = k.held /\ j.owner = k.owner
      /\ j.timers = k.timers /\ j.parks = k.parks
      /\ j.state = [k.state EXCEPT ![x] = "RUNNING"]
      /\ j.queue = [k.queue EXCEPT ![p] = Tail(k.queue[p])]
  BY <1>1 DEF OsMemory, Started
<1> HIDE DEF x, p
<1>5. \A q \in Waitables : q \in Queues /\ q # p
  BY <1>2, Pointers DEF Queues
<1>6. \A q \in Waitables : j.queue[q] = k.queue[q]
  BY <1>1, <1>4, <1>5
<1>7. \A t \in Threads : \/ j.state[t] = k.state[t]
                         \/ {j.state[t], k.state[t]} \subseteq {"READY", "RUNNING"}
  BY <1>1, <1>3, <1>4 DEF OsMemory
<1> QED
  BY <1>4, <1>6, <1>7 DEF Steady

(* A wake-up takes the first thread off queue q.                           *)
LEMMA WokenLocks ==
  ASSUME NEW k, NEW j \in OsMemory, NEW q \in Waitables, NEW x \in Threads, MemoryOK(k), LocksOK(k),
         k.state[x] = "WAITING", Woken(j, k, q, x), QueuesOrdered(j)
  PROVE  /\ LocksOK(j) /\ CallsKept(j, k)
         /\ \A m \in Mutexes : j.queue[m] # << >> => k.queue[m] # << >>
<1>1. k \in OsMemory /\ HoldersOK(k) /\ k.state \in [Threads -> ThreadStates]
  BY DEF MemoryOK, ListsOK, LocksOK, OsMemory
<1>2. \A t \in Threads : j.state[t] = IF t = x THEN "READY" ELSE k.state[t]
  BY <1>1 DEF Woken
<1>3. HoldersOK(j)
  BY <1>1, <1>2, HoldersStay DEF Woken
<1>4. ASSUME NEW t \in Threads PROVE WaiterOK(j, t)
  <2>1. WaiterOK(k, t) /\ k.waitsOn[t] \in Mutexes \cup {NULL} /\ \A m \in Mutexes : m \in Waitables
    BY <1>1 DEF LocksOK, OsMemory, Waitables
  <2>2. CASE t = x
    BY <1>2, <2>1, <2>2 DEF Woken, WaiterOK
  <2>3. CASE t # x
    BY <1>2, <2>1, <2>3 DEF Woken, WaiterOK
  <2> QED
    BY <2>2, <2>3
<1>5. CallsKept(j, k)
  BY <1>2 DEF CallsKept, Woken, SameParks
<1>6. \A m \in Mutexes : j.queue[m] # << >> => k.queue[m] # << >>
  <2>1. \A m \in Mutexes : m \in Queues /\ m \in Waitables
    BY DEF Queues, Waitables
  <2> QED
    BY <1>1, <2>1, SomeoneIn DEF Woken
<1> QED
  BY <1>3, <1>4, <1>5, <1>6 DEF LocksOK

(* The running thread goes to sleep, on the mutex it asked for or on a     *)
(* queue that is no mutex.                                                 *)
LEMMA SleptLocks ==
  ASSUME NEW k, NEW j \in OsMemory, NEW q \in Waitables, NEW x \in Threads, MemoryOK(k), LocksOK(k),
         k.state[x] = "RUNNING", Slept(j, k, q, x), QueuesOrdered(j),
         q \in Mutexes => k.waitsOn[x] = q /\ k.owner[q] # NULL,
         q \notin Mutexes => k.waitsOn[x] = NULL
  PROVE  Quiet(j, k)
<1>1. k \in OsMemory /\ HoldersOK(k) /\ k.state \in [Threads -> ThreadStates] /\ ThreadOK(k, x)
  BY DEF MemoryOK, ListsOK, LocksOK, OsMemory
<1>2. \A t \in Threads : j.state[t] = IF t = x THEN "WAITING" ELSE k.state[t]
  BY <1>1 DEF Slept
<1>3. HoldersOK(j)
  BY <1>1, <1>2, HoldersStay DEF Slept
<1>4. ASSUME NEW t \in Threads PROVE WaiterOK(j, t)
  <2>1. WaiterOK(k, t) /\ k.waitsOn[t] \in Mutexes \cup {NULL} /\ \A m \in Mutexes : m \in Waitables
    BY <1>1 DEF LocksOK, OsMemory, Waitables
  <2>2. CASE t = x
    <3>1. \A r \in Waitables : ~In(k, x, r)
      BY WaitersOnly
    <3>2. \A m \in Mutexes : In(j, t, m) <=> m = q
      BY <2>1, <2>2, <3>1 DEF Slept
    <3>3. NULL \notin Mutexes /\ j.susp[t] = 0 /\ j.waitsOn[t] = k.waitsOn[t]
      BY <1>1, <2>2, OsConstants DEF ThreadOK, Slept
    <3> QED
      BY <2>1, <2>2, <3>2, <3>3 DEF WaiterOK
  <2>3. CASE t # x
    BY <1>2, <2>1, <2>3 DEF Slept, WaiterOK
  <2> QED
    BY <2>2, <2>3
<1>5. CallsKept(j, k)
  BY <1>2 DEF CallsKept, Slept, SameParks
<1>6. ASSUME Owned(k) PROVE Owned(j)
  <2> SUFFICES ASSUME NEW m \in Mutexes, j.queue[m] # << >> PROVE j.owner[m] # NULL
    BY DEF Owned
  <2>1. m \in Queues /\ m \in Waitables
    BY DEF Queues, Waitables
  <2>2. CASE m = q
    BY <2>2 DEF Slept
  <2>3. CASE m # q
    <3>1. k.queue[m] # << >>
      BY <1>1, <2>1, <2>3, SomeoneIn DEF Slept
    <3> QED
      BY <1>6, <3>1 DEF Owned, Slept
  <2> QED
    BY <2>2, <2>3
<1> QED
  BY <1>3, <1>4, <1>5, <1>6 DEF Quiet, LocksOK

(* Locks change hands: no thread moves.                                    *)
LEMMA HandsChanged ==
  ASSUME NEW k \in OsMemory, NEW j \in OsMemory, LocksOK(k), HoldersOK(j), NEW x \in Threads,
         k.state[x] # "WAITING", \A q \in Waitables : ~In(k, x, q),
         j.queue = k.queue, j.state = k.state, j.susp = k.susp,
         \A t \in Threads : t # x => j.prio[t] = k.prio[t] /\ j.waitsOn[t] = k.waitsOn[t]
  PROVE  LocksOK(j)
<1>1. \A t \in Threads, q \in Waitables : In(j, t, q) <=> In(k, t, q)
  BY DEF In
<1>2. \A m \in Mutexes : m \in Waitables
  BY DEF Waitables
<1>3. QueuesOrdered(j)
  <2> SUFFICES ASSUME NEW q \in Waitables PROVE Sorted(j, j.queue[q])
    BY DEF QueuesOrdered
  <2>1. Sorted(k, k.queue[q]) /\ ~In(k, x, q) /\ k.queue[q] \in Seq(Threads)
    BY DEF LocksOK, QueuesOrdered, OsMemory, Queues
  <2>2. \A i \in DOMAIN k.queue[q] : k.queue[q][i] \in Threads /\ k.queue[q][i] # x
    BY <2>1, ElementOfSeq, LenProperties DEF In, ToSet
  <2> QED
    BY <2>1, <2>2 DEF Sorted
<1>4. ASSUME NEW t \in Threads PROVE WaiterOK(j, t)
  <2>1. CASE t = x
    BY <1>1, <1>2, <2>1 DEF WaiterOK
  <2>2. CASE t # x
    <3>1. WaiterOK(k, t) /\ k.waitsOn[t] \in Mutexes \cup {NULL}
      BY DEF LocksOK, OsMemory
    <3>2. /\ j.state[t] = k.state[t] /\ j.susp[t] = k.susp[t]
          /\ j.prio[t] = k.prio[t] /\ j.waitsOn[t] = k.waitsOn[t]
      BY <2>2
    <3> QED
      BY <1>1, <1>2, <3>1, <3>2 DEF WaiterOK
  <2> QED
    BY <2>1, <2>2
<1> QED
  BY <1>3, <1>4 DEF LocksOK

-----------------------------------------------------------------------------
(* The stacks.                                                             *)

LEMMA OneOnTop ==
  ASSUME NEW f \in Frames, NEW r \in Seq(Frames), NEW u, u = << f >> \o r
  PROVE  /\ u \in Seq(Frames) /\ u # << >> /\ Head(u) = f /\ Tail(u) = r
         /\ \A fns : HasNo(u, fns) <=> f.fn \notin fns /\ HasNo(r, fns)
<1> DEFINE o == << f >>
<1>1. o \in Seq(Frames) /\ o # << >> /\ Head(o) = f /\ DOMAIN o = {1} /\ o[1] = f
  OBVIOUS
<1>2. u \in Seq(Frames) /\ u # << >> /\ Head(u) = f /\ Tail(u) = r
  OBVIOUS
<1> HIDE DEF o
<1>3. \A fns : HasNo(o \o r, fns) <=> HasNo(o, fns) /\ HasNo(r, fns)
  BY <1>1, ConcatFrames
<1>4. \A fns : HasNo(o, fns) <=> f.fn \notin fns
  BY <1>1 DEF HasNo
<1>5. u = o \o r
  BY DEF o
<1> QED
  BY <1>2, <1>3, <1>4, <1>5

LEMMA TwoOnTop ==
  ASSUME NEW f \in Frames, NEW g \in Frames, NEW r \in Seq(Frames), NEW u, u = << f, g >> \o r
  PROVE  /\ u \in Seq(Frames) /\ u # << >> /\ Head(u) = f /\ Tail(u) = << g >> \o r
         /\ \A fns : HasNo(u, fns) <=> f.fn \notin fns /\ g.fn \notin fns /\ HasNo(r, fns)
<1> DEFINE v == << g >> \o r
<1>1. v \in Seq(Frames) /\ \A fns : HasNo(v, fns) <=> g.fn \notin fns /\ HasNo(r, fns)
  BY OneOnTop
<1>2. u = << f >> \o v
  <2>1. << f, g >> = << f >> \o << g >>
    BY Pair
  <2>2. << f >> \in Seq(Frames) /\ << g >> \in Seq(Frames)
    OBVIOUS
  <2> QED
    BY <2>1, <2>2, ConcatAssociative
<1> HIDE DEF v
<1>3. u \in Seq(Frames) /\ u # << >> /\ Head(u) = f /\ Tail(u) = v
  BY <1>1, <1>2, OneOnTop
<1>4. \A fns : HasNo(u, fns) <=> f.fn \notin fns /\ HasNo(v, fns)
  BY <1>1, <1>2, OneOnTop
<1> QED
  BY <1>1, <1>2, <1>3, <1>4 DEF v

LEMMA ThreeOnTop ==
  ASSUME NEW f \in Frames, NEW g \in Frames, NEW h \in Frames, NEW r \in Seq(Frames),
         NEW u, u = << f, g, h >> \o r
  PROVE  u = << f >> \o (<< g, h >> \o r) /\ << g, h >> \o r \in Seq(Frames)
<1> DEFINE a == << f >>
           b == << g, h >>
           c == << f, g, h >>
<1>1. /\ a \in Seq(Frames) /\ Len(a) = 1 /\ a[1] = f
      /\ b \in Seq(Frames) /\ Len(b) = 2 /\ b[1] = g /\ b[2] = h
      /\ c \in Seq(Frames) /\ Len(c) = 3 /\ c[1] = f /\ c[2] = g /\ c[3] = h
  OBVIOUS
<1> HIDE DEF a, b, c
<1> DEFINE d == a \o b
<1>2. /\ d \in Seq(Frames) /\ Len(d) = Len(a) + Len(b)
      /\ \A i \in 1 .. Len(a) + Len(b) : d[i] = IF i <= Len(a) THEN a[i] ELSE b[i - Len(a)]
  BY <1>1, ConcatProperties
<1> HIDE DEF d
<1>3. Len(d) = 3 /\ d[1] = f /\ d[2] = g /\ d[3] = h
  BY <1>1, <1>2
<1>4. c = d
  <2>1. \A i \in 1 .. Len(c) : c[i] = d[i]
    BY <1>1, <1>3
  <2> QED
    BY <1>1, <1>2, <1>3, <2>1, SeqEqual
<1>5. (a \o b) \o r = a \o (b \o r)
  <2>1. a \in Seq(Frames) /\ b \in Seq(Frames)
    BY <1>1
  <2> QED
    BY <2>1, ConcatAssociative
<1>6. b \o r \in Seq(Frames)
  BY <1>1
<1> QED
  BY <1>4, <1>5, <1>6 DEF a, b, c, d

LEMMA TopAndRest ==
  ASSUME NEW s \in Seq(Frames), s # << >>
  PROVE  /\ Head(s) \in Frames /\ Tail(s) \in Seq(Frames)
         /\ \A fns : HasNo(s, fns) <=> Head(s).fn \notin fns /\ HasNo(Tail(s), fns)
<1> DEFINE f == Head(s)
           r == Tail(s)
<1>1. f \in Frames /\ r \in Seq(Frames) /\ s = << f >> \o r
  BY Uncons
<1> HIDE DEF f, r
<1> QED
  BY <1>1, OneOnTop DEF f, r

(* The calls of a fiber in the shapes the actions leave it in.             *)
LEMMA CalmCalls ==
  ASSUME NEW k, NEW e, NEW u \in Seq(Frames), HasNo(u, Transient)
  PROVE  CallsOK(k, e, u)
<1> SUFFICES ASSUME u # << >> PROVE CallsOK(k, e, u)
  BY DEF CallsOK
<1>1. Head(u).fn \notin Transient /\ HasNo(Tail(u), Transient)
  BY TopAndRest
<1> QED
  BY <1>1 DEF CallsOK, Transient

LEMMA WakeCalls ==
  ASSUME NEW k, NEW e, NEW f \in Frames, f.fn = "wake", NEW r \in Seq(Frames), HasNo(r, Transient),
         f.obj \in Mutexes => k.owner[f.obj] = NULL,
         NEW u, u = << f >> \o r
  PROVE  CallsOK(k, e, u)
<1>1. Head(u) = f /\ Tail(u) = r
  BY OneOnTop
<1> QED
  BY <1>1 DEF CallsOK

LEMMA SleepCalls ==
  ASSUME NEW k, NEW e, NEW f \in Frames, f.fn = "sleepcall", f.obj \notin Mutexes,
         NEW r \in Seq(Frames), HasNo(r, Transient), k.disable > 0 \/ k.waitsOn[e] = NULL,
         NEW u, u = << f >> \o r
  PROVE  CallsOK(k, e, u)
<1>1. Head(u) = f /\ Tail(u) = r
  BY OneOnTop
<1> QED
  BY <1>1 DEF CallsOK

LEMMA PropagateCalls ==
  ASSUME NEW k, NEW e, NEW f \in Frames, f.fn = "propagate",
         NEW r \in Seq(Frames), HasNo(r, Transient), r # << >>, Head(r).fn = "resched",
         NEW u, u = << f >> \o r
  PROVE  CallsOK(k, e, u)
<1>1. Head(u) = f /\ Tail(u) = r
  BY OneOnTop
<1> QED
  BY <1>1 DEF CallsOK

LEMMA PromoteCalls ==
  ASSUME NEW k, NEW e, NEW f \in Frames, f.fn = "promote", f.arg = k.prio[e],
         NEW r \in Seq(Frames), Requests(k, e, r), HasNo(Tail(r), Transient),
         NEW u, u = << f >> \o r
  PROVE  CallsOK(k, e, u)
<1>1. Head(u) = f /\ Tail(u) = r
  BY OneOnTop
<1> QED
  BY <1>1 DEF CallsOK

-----------------------------------------------------------------------------
(* Steps that keep the second invariant.                                   *)

LEMMA TheLocks ==
  ASSUME LockInv
  PROVE  /\ SyncInstance /\ ~Mortal /\ Dwc \notin Queues
         /\ IInv /\ MemoryOK(os) /\ os \in OsMemory /\ LocksOK(os) /\ HoldersOK(os)
         /\ QueuesOrdered(os)
         /\ exec \in Threads /\ exec # NULL
         /\ stack[exec] \in Seq(Frames) /\ stack \in [Threads -> Seq(Frames)]
         /\ CallsOK(os, exec, stack[exec])
         /\ \A t \in Threads : FiberOK(os, t, stack[t])
         /\ HandedOver(os, stack[exec])
         /\ os.state[exec] # "NONE"
<1>1. IInv
  BY DEF LockInv
<1> QED
  BY <1>1, TheFiber DEF LockInv, LocksOK, SyncInstance

(* Where nothing is half done.                                             *)
LEMMA Untouched ==
  ASSUME LockInv
  PROVE  /\ stack[exec] # << >> /\ Top.fn # "promote" => HasNo(Tail(stack[exec]), Transient)
         /\ stack[exec] = << >> \/ Top.fn \notin Transient => HasNo(stack[exec], Transient)
         /\ stack[exec] = << >> \/ Top.fn # "wake" => Owned(os)
<1> DEFINE s == stack[exec]
<1>1. s \in Seq(Frames) /\ CallsOK(os, exec, s) /\ HandedOver(os, s)
  BY TheLocks
<1>2. Top = Head(s)
  BY DEF Top
<1> HIDE DEF s
<1>3. s # << >> /\ Head(s).fn # "promote" => HasNo(Tail(s), Transient)
  BY <1>1 DEF CallsOK
<1>4. s = << >> => HasNo(s, Transient)
  BY DEF HasNo
<1>5. s # << >> /\ Head(s).fn \notin Transient => HasNo(s, Transient)
  BY <1>1, <1>3, TopAndRest DEF Transient
<1>6. s = << >> \/ Head(s).fn # "wake" => Owned(os)
  BY <1>1 DEF HandedOver, Owned
<1> QED
  BY <1>2, <1>3, <1>4, <1>5, <1>6 DEF s

LEMMA LockSteps ==
  ASSUME LockInv, IInv', NEW u, stack' = [stack EXCEPT ![exec] = u], exec' = exec,
         LocksOK(os'), CallsOK(os', exec, u), HandedOver(os', u), FiberOK(os', exec, u),
         \A t \in Threads \ {exec} : FiberOK(os, t, stack[t]) => FiberOK(os', t, stack[t]),
         os'.state[exec] # "NONE"
  PROVE  LockInv'
<1>1. stack'[exec] = u /\ \A t \in Threads \ {exec} : stack'[t] = stack[t]
  BY TheLocks
<1>2. /\ \A t \in Threads \ {exec} : HasNo(stack[t], Transient)
      /\ \A t \in Threads : FiberOK(os, t, stack[t])
  BY DEF LockInv
<1>3. \A t \in Threads : FiberOK(os', t, stack'[t])
  BY <1>1, <1>2
<1>4. \A t \in Threads \ {exec} : HasNo(stack'[t], Transient)
  BY <1>1, <1>2
<1>5. SyncInstance'
  BY TheLocks DEF SyncInstance, Mortal
<1> QED
  BY <1>1, <1>3, <1>4, <1>5 DEF LockInv

(* The calls that the fiber relies on stay on its stack.                   *)
Remembers(u, s) ==
  /\ HasNo(u, {"lock"}) => HasNo(s, {"lock"})
  /\ HasNo(u, {"ticks"}) => HasNo(s, {"ticks"})

LEMMA CallSteps ==
  ASSUME LockInv, IInv', NEW u, stack' = [stack EXCEPT ![exec] = u], exec' = exec,
         LocksOK(os'), CallsKept(os', os), CallsOK(os', exec, u), HandedOver(os', u),
         Remembers(u, stack[exec])
  PROVE  LockInv'
<1>1. \A t \in Threads : \A s : FiberOK(os, t, s) => FiberOK(os', t, s)
  BY DEF FiberOK, CallsKept
<1>2. FiberOK(os, exec, stack[exec]) /\ exec \in Threads /\ os.state[exec] # "NONE"
  BY TheLocks
<1>3. FiberOK(os', exec, u)
  BY <1>2 DEF FiberOK, CallsKept, Remembers
<1>4. os'.state[exec] # "NONE"
  BY <1>2 DEF CallsKept
<1> QED
  BY <1>1, <1>3, <1>4, LockSteps

(* A step after which nothing is half done.                                *)
LEMMA QuietSteps ==
  ASSUME LockInv, IInv', NEW u \in Seq(Frames), stack' = [stack EXCEPT ![exec] = u], exec' = exec,
         Quiet(os', os), Owned(os), HasNo(u, Transient), Remembers(u, stack[exec])
  PROVE  LockInv'
<1>1. LocksOK(os') /\ CallsKept(os', os) /\ HandedOver(os', u)
  BY DEF Quiet, Owned, HandedOver
<1>2. CallsOK(os', exec, u)
  BY CalmCalls
<1> QED
  BY <1>1, <1>2, CallSteps

LEMMA QuietContinues ==
  ASSUME LockInv, IInv', stack[exec] # << >>, Top.fn \notin {"promote", "lock", "ticks"},
         NEW cs \in Seq(Frames), HasNo(cs, Transient), Continue(cs), Quiet(os', os), Owned(os)
  PROVE  LockInv'
<1> DEFINE s == stack[exec]
           r == Tail(s)
           u == cs \o r
<1>1. s \in Seq(Frames) /\ s # << >> /\ HasNo(r, Transient) /\ Head(s).fn \notin {"lock", "ticks"}
  BY TheLocks, Untouched DEF Top
<1>2. r \in Seq(Frames) /\ \A fns : HasNo(s, fns) <=> Head(s).fn \notin fns /\ HasNo(r, fns)
  BY <1>1, TopAndRest
<1>3. stack' = [stack EXCEPT ![exec] = u] /\ exec' = exec
  BY DEF Continue
<1> HIDE DEF s, r
<1>4. u \in Seq(Frames) /\ \A fns : HasNo(u, fns) <=> HasNo(cs, fns) /\ HasNo(r, fns)
  BY <1>2, ConcatFrames, Positions
<1> HIDE DEF u
<1>5. Remembers(u, s)
  BY <1>1, <1>2, <1>4 DEF Remembers
<1> QED
  BY <1>1, <1>3, <1>4, <1>5, QuietSteps DEF s

LEMMA QuietPushes ==
  ASSUME LockInv, IInv', AtGuest \/ Inside("idle"),
         NEW cs \in Seq(Frames), HasNo(cs, Transient), Push(cs), Quiet(os', os)
  PROVE  LockInv'
<1> DEFINE s == stack[exec]
           u == cs \o s
<1>1. s \in Seq(Frames) /\ HasNo(s, Transient) /\ Owned(os)
  <2>1. s = << >> \/ Top.fn \notin Transient
    BY InsideTop DEF AtGuest, Transient
  <2> QED
    BY <2>1, TheLocks, Untouched DEF Transient
<1>2. stack' = [stack EXCEPT ![exec] = u] /\ exec' = exec
  BY DEF Push
<1> HIDE DEF s
<1>3. u \in Seq(Frames) /\ \A fns : HasNo(u, fns) <=> HasNo(cs, fns) /\ HasNo(s, fns)
  BY <1>1, ConcatFrames, Positions
<1> HIDE DEF u
<1>4. Remembers(u, s)
  BY <1>3 DEF Remembers
<1> QED
  BY <1>1, <1>2, <1>3, <1>4, QuietSteps DEF s

LEMMA NothingChanges ==
  ASSUME LockInv, UNCHANGED os
  PROVE  Quiet(os', os)
<1>1. LocksOK(os) /\ os \in OsMemory
  BY TheLocks
<1>2. LocksOK(os') /\ (Owned(os) => Owned(os'))
  BY <1>1
<1>3. CallsKept(os', os)
  BY DEF CallsKept
<1> QED
  BY <1>2, <1>3 DEF Quiet

-----------------------------------------------------------------------------
(* The actions, one by one.                                                *)

(* The calls an action leaves, none of them half done.                     *)
LEMMA FewCalls ==
  /\ << >> \in Seq(Frames) /\ HasNo(<< >>, Transient)
  /\ \A f \in Frames : f.fn \notin Transient => << f >> \in Seq(Frames) /\ HasNo(<< f >>, Transient)
  /\ \A f, g \in Frames : f.fn \notin Transient /\ g.fn \notin Transient =>
       << f, g >> \in Seq(Frames) /\ HasNo(<< f, g >>, Transient)
<1>1. << >> \in Seq(Frames) /\ HasNo(<< >>, Transient)
  BY DEF HasNo
<1>2. ASSUME NEW f \in Frames, f.fn \notin Transient
      PROVE  << f >> \in Seq(Frames) /\ HasNo(<< f >>, Transient)
  BY <1>2 DEF HasNo
<1>3. ASSUME NEW f \in Frames, NEW g \in Frames, f.fn \notin Transient, g.fn \notin Transient
      PROVE  << f, g >> \in Seq(Frames) /\ HasNo(<< f, g >>, Transient)
  BY <1>3 DEF HasNo
<1> QED
  BY <1>1, <1>2, <1>3

LEMMA SelectReturnsLocks ==
  ASSUME LockInv, SelectReturns
  PROVE  LockInv'
<1>1. IInv' /\ stack[exec] # << >> /\ Top.fn = "select"
  BY TheLocks, SelectReturnsStep, InsideTop DEF SelectReturns
<1>2. Continue(<< >>) /\ UNCHANGED os
  BY DEF SelectReturns
<1>3. Quiet(os', os) /\ Owned(os)
  BY <1>1, <1>2, NothingChanges, Untouched
<1> QED
  BY <1>1, <1>2, <1>3, FewCalls, QuietContinues

LEMMA PreemptedIsSteady ==
  ASSUME LockInv, ~SelectRefused
  PROVE  Steady(Preempted, os)
<1> DEFINE x == os.running
           p == os.prio[x]
<1>1. CASE os.state[x] = "RUNNING" /\ x \in Threads
  <2>1. ThreadOK(os, x) /\ os.prio[x] \in Prios \cup {SuspendedWaitPriority}
    BY <1>1, TheLocks DEF MemoryOK, OsMemory
  <2>2. p \in Prios
    BY <1>1, <2>1, OsConstants DEF ThreadOK, Ended, ThreadStateIsTerminated
  <2>3. Preempted = MarkRunQueuePending(LinkThreadOnRunQueue([os EXCEPT !.state[x] = "READY"], x, p), p)
    BY <1>1 DEF Preempted
  <2> HIDE DEF x, p
  <2> QED
    BY <1>1, <2>2, <2>3, TheLocks, PreemptIsSteady
<1>2. CASE os.state[x] # "RUNNING"
  <2>1. Preempted = os
    BY <1>2 DEF Preempted
  <2> QED
    BY <2>1 DEF Steady
<1>3. x \in Threads
  BY TheLocks DEF SelectRefused, OsMemory
<1> QED
  BY <1>1, <1>2, <1>3

LEMMA SteadyTransitive ==
  ASSUME NEW i, NEW j, NEW k, Steady(i, j), Steady(j, k)
  PROVE  Steady(i, k)
BY DEF Steady

(* Switching to another fiber.                                             *)
LEMMA SwitchLocks ==
  ASSUME LockInv, IInv', stack[exec] # << >>, Top.fn \in {"select", "idle"},
         NEW k, MemoryOK(k), k.pending # {}, Steady(k, os), Dispatch(k)
  PROVE  LockInv'
<1> DEFINE s == stack[exec]
           r == Tail(s)
           x == Head(k.queue[Min(k.pending)])
<1>1. os' = Started(k) /\ exec' = x
  BY DEF Dispatch, Started
<1>2. /\ x \in Threads /\ MemoryOK(os') /\ os'.state = [k.state EXCEPT ![x] = "RUNNING"]
  <2> HIDE DEF x
  <2>1. x = Head(k.queue[Min(k.pending)])
    BY DEF x
  <2> QED
    BY <1>1, <2>1, DispatchOK
<1> HIDE DEF x
<1>3. Steady(os', os)
  BY <1>1, StartIsSteady, SteadyTransitive
<1>4. os' \in OsMemory /\ os'.state[x] = "RUNNING"
  BY <1>2 DEF MemoryOK, ListsOK, OsMemory
<1>5. Quiet(os', os)
  BY <1>3, <1>4, TheLocks, SteadyIsQuiet
<1>6. stack' = [stack EXCEPT ![exec] = r]
  <2>1. k.state[exec] # "NONE" /\ k.state[exec] # "MORIBUND"
    <3>1. k.state[exec] = os.state[exec] \/ k.state[exec] \in {"READY", "RUNNING"}
      BY TheLocks DEF Steady
    <3> QED
      BY <3>1, TheLocks DEF MemoryOK, ThreadOK
  <2> QED
    BY <2>1 DEF Dispatch, ThreadStateIsTerminated
<1>7. /\ s \in Seq(Frames) /\ HasNo(r, Transient) /\ Owned(os)
      /\ Head(s).fn \in {"select", "idle"} /\ s # << >>
  BY TheLocks, Untouched DEF Top
<1>8. /\ \A t \in Threads \ {exec} : stack'[t] = stack[t]
      /\ stack'[exec] = r
  BY <1>6, TheLocks
<1> HIDE DEF r, s
<1>9. \A fns : HasNo(s, fns) <=> Head(s).fn \notin fns /\ HasNo(r, fns)
  BY <1>7, TopAndRest DEF r
<1>10. \A t \in Threads : HasNo(stack'[t], Transient) /\ stack'[t] \in Seq(Frames)
  BY <1>7, <1>8, TheLocks, TopAndRest DEF LockInv, r
<1>11. \A t \in Threads : FiberOK(os', t, stack'[t])
  <2>1. FiberOK(os, exec, s) /\ \A t \in Threads : FiberOK(os, t, stack[t])
    BY TheLocks DEF s
  <2>2. FiberOK(os', exec, r)
    BY <1>5, <1>7, <1>9, <2>1, TheLocks DEF FiberOK, Quiet, CallsKept
  <2> QED
    BY <1>5, <1>8, <2>1, <2>2 DEF FiberOK, Quiet, CallsKept
<1>12. HandedOver(os', stack'[exec'])
  BY <1>5, <1>7 DEF Quiet, Owned, HandedOver
<1>13. CallsOK(os', exec', stack'[exec'])
  BY <1>1, <1>2, <1>10, CalmCalls
<1> QED
  BY <1>1, <1>2, <1>4, <1>5, <1>10, <1>11, <1>12, <1>13 DEF LockInv, Quiet

LEMMA SelectSwitchesLocks ==
  ASSUME LockInv, SelectSwitches
  PROVE  LockInv'
<1> DEFINE k == Preempted
<1>1. IInv' /\ MemoryOK(k)
  BY TheLocks, SelectSwitchesStep, GivesUp DEF SelectSwitches
<1>2. stack[exec] # << >> /\ Top.fn = "select" /\ k.pending # {} /\ Dispatch(k)
  BY InsideTop DEF SelectSwitches
<1>3. Steady(k, os)
  BY PreemptedIsSteady DEF SelectSwitches
<1> HIDE DEF k
<1> QED
  BY <1>1, <1>2, <1>3, SwitchLocks

LEMMA IdleEndsLocks ==
  ASSUME LockInv, IdleEnds
  PROVE  LockInv'
<1>1. IInv' /\ MemoryOK(os)
  BY TheLocks, IdleEndsStep
<1>2. stack[exec] # << >> /\ Top.fn = "idle" /\ os.pending # {} /\ Dispatch(os)
  BY InsideTop DEF IdleEnds
<1>3. Steady(os, os)
  BY DEF Steady
<1> QED
  BY <1>1, <1>2, <1>3, SwitchLocks

LEMMA SelectIdlesLocks ==
  ASSUME LockInv, SelectIdles
  PROVE  LockInv'
<1>1. IInv' /\ Preempted = os
  BY TheLocks, SelectIdlesStep, GivesUp DEF SelectIdles
<1>2. /\ stack[exec] # << >> /\ Top.fn = "select"
      /\ os' = [os EXCEPT !.running = NULL, !.current = Idle]
      /\ Continue(<< Frame("idle", NULL, 0) >>)
  BY <1>1, InsideTop DEF SelectIdles
<1>3. Steady(os', os)
  BY <1>2, TheLocks DEF Steady, OsMemory
<1>4. os' \in OsMemory
  BY <1>1, TheFiber DEF IInv, MemoryOK, ListsOK
<1>5. Quiet(os', os) /\ Owned(os)
  BY <1>2, <1>3, <1>4, TheLocks, Untouched, SteadyIsQuiet
<1>6. Frame("idle", NULL, 0) \in Frames /\ Frame("idle", NULL, 0).fn \notin Transient
  BY KernelCalls DEF FrameOK, Transient
<1> QED
  BY <1>1, <1>2, <1>5, <1>6, FewCalls, QuietContinues

(* A call is made, and nothing else happens.                               *)
LEMMA CallMade ==
  ASSUME LockInv, IInv', AtGuest \/ Inside("idle"), UNCHANGED os,
         NEW f \in Frames, Push(<< f >>), CallsOK(os, exec, << f >> \o stack[exec])
  PROVE  LockInv'
<1> DEFINE s == stack[exec]
           u == << f >> \o s
<1>1. s \in Seq(Frames) /\ Owned(os) /\ CallsOK(os, exec, u)
  <2>1. s = << >> \/ Top.fn # "wake"
    BY InsideTop DEF AtGuest
  <2> QED
    BY <2>1, TheLocks, Untouched
<1>2. stack' = [stack EXCEPT ![exec] = u] /\ exec' = exec
  BY DEF Push
<1> HIDE DEF s
<1>3. \A fns : HasNo(u, fns) <=> f.fn \notin fns /\ HasNo(s, fns)
  BY <1>1, OneOnTop
<1> HIDE DEF u
<1>4. Remembers(u, s)
  BY <1>3 DEF Remembers
<1>5. Quiet(os', os)
  BY NothingChanges
<1>6. LocksOK(os') /\ CallsKept(os', os) /\ HandedOver(os', u)
  BY <1>1, <1>5 DEF Quiet, Owned, HandedOver
<1> QED
  BY <1>1, <1>2, <1>4, <1>6, CallSteps DEF s

(* Guest code, or the idle loop, finds nothing half done.                  *)
LEMMA NothingHalfDone ==
  ASSUME LockInv, AtGuest \/ Inside("idle")
  PROVE  stack[exec] \in Seq(Frames) /\ HasNo(stack[exec], Transient) /\ Owned(os)
<1>1. stack[exec] = << >> \/ Top.fn \notin Transient
  BY InsideTop DEF AtGuest, Transient
<1> QED
  BY <1>1, TheLocks, Untouched DEF Transient

LEMMA WakeMade ==
  ASSUME LockInv, IInv', AtGuest \/ Inside("idle"), UNCHANGED os,
         NEW q \in WaitQueues, Push(<< WakeCall(q) >>)
  PROVE  LockInv'
<1> DEFINE f == WakeCall(q)
<1>1. q \in Waitables /\ q \notin Mutexes
  BY OsConstants DEF Waitables
<1>2. f \in Frames /\ f.fn = "wake" /\ f.obj = q
  BY <1>1, QueueCalls, TheLocks DEF FrameOK, WakeCall, Frame
<1>3. Push(<< f >>)
  OBVIOUS
<1> HIDE DEF f
<1>4. CallsOK(os, exec, << f >> \o stack[exec])
  BY <1>1, <1>2, NothingHalfDone, WakeCalls
<1> QED
  BY <1>2, <1>3, <1>4, CallMade

LEMMA IdleEventLocks ==
  ASSUME LockInv, NEW q \in HostQueues, IdleEvent(q)
  PROVE  LockInv'
<1>1. IInv' /\ q \in WaitQueues
  BY TheLocks, IdleEventStep, SchedulerConstants
<1> QED
  BY <1>1, WakeMade DEF IdleEvent

LEMMA WakeupThreadLocks ==
  ASSUME LockInv, NEW q \in WaitQueues, OSWakeupThread(q)
  PROVE  LockInv'
<1>1. IInv'
  BY TheLocks, OneCallSteps
<1> QED
  BY <1>1, WakeMade DEF OSWakeupThread, May

LEMMA SleepThreadLocks ==
  ASSUME LockInv, NEW q \in WaitQueues, OSSleepThread(q)
  PROVE  LockInv'
<1> DEFINE f == Frame("sleepcall", q, 0)
           s == stack[exec]
<1>1. IInv' /\ AtGuest /\ UNCHANGED os /\ Push(<< f >>)
  BY TheLocks, OneCallSteps DEF OSSleepThread, May
<1>2. q \in Waitables /\ q \notin Mutexes
  BY OsConstants DEF Waitables
<1>3. f \in Frames /\ f.fn = "sleepcall" /\ f.obj = q
  BY <1>2, QueueCalls, TheLocks DEF FrameOK, Frame
<1> HIDE DEF f
<1>4. os.disable > 0 \/ os.waitsOn[exec] = NULL
  <2>1. FiberOK(os, exec, s) /\ s \in Seq(Frames)
    BY TheLocks
  <2>2. CASE s = << >>
    BY <2>1, <2>2 DEF FiberOK, HasNo
  <2>3. CASE Inside("callback")
    <3>1. StackOK(exec, s) /\ s # << >> /\ Head(s).fn = "callback" /\ os.disable = Depth(s)
      BY <2>3, TheLocks, TheFiber DEF Inside, ExecOK
    <3> HIDE DEF s
    <3>2. Depth(s) = Depth(Tail(s)) + 1 /\ StackOK(exec, Tail(s))
      BY <3>1, Popped
    <3>3. Depth(Tail(s)) \in Nat
      BY <3>2, BatchesFinite DEF StackOK
    <3> QED
      BY <3>1, <3>2, <3>3
  <2> QED
    BY <1>1, <2>2, <2>3 DEF AtGuest
<1>5. CallsOK(os, exec, << f >> \o s)
  <2>1. s \in Seq(Frames) /\ HasNo(s, Transient)
    BY <1>1, NothingHalfDone
  <2> HIDE DEF s
  <2> QED
    BY <1>2, <1>3, <1>4, <2>1, SleepCalls
<1> QED
  BY <1>1, <1>3, <1>5, CallMade

(* Calls that are never half done.                                         *)
LEMMA CalmCallMade ==
  ASSUME LockInv, IInv', AtGuest, UNCHANGED os,
         NEW f \in Frames, Push(<< f >>), f.fn \notin Transient
  PROVE  LockInv'
BY FewCalls, NothingChanges, QuietPushes

LEMMA LockMutexLocks ==
  ASSUME LockInv, NEW m \in Mutexes, OSLockMutex(m)
  PROVE  LockInv'
<1> DEFINE f == Frame("lock", m, 0)
<1>1. IInv' /\ AtGuest /\ UNCHANGED os /\ Push(<< f >>)
  BY TheLocks, OneCallSteps DEF OSLockMutex, May
<1>2. m \in Waitables
  BY DEF Waitables
<1>3. f \in Frames /\ f.fn \notin Transient
  BY <1>2, QueueCalls, TheLocks DEF FrameOK, Transient
<1> HIDE DEF f
<1> QED
  BY <1>1, <1>3, CalmCallMade

LEMMA YieldThreadLocks ==
  ASSUME LockInv, OSYieldThread
  PROVE  LockInv'
<1> DEFINE f == SelectCall(1)
<1>1. IInv' /\ AtGuest /\ UNCHANGED os /\ Push(<< f >>)
  BY TheLocks, OneCallSteps DEF OSYieldThread, May
<1>2. f \in Frames /\ f.fn \notin Transient
  BY SelectCalls, TheLocks DEF FrameOK, Transient
<1> HIDE DEF f
<1> QED
  BY <1>1, <1>2, CalmCallMade

LEMMA ReschedTailLocks ==
  ASSUME LockInv, ReschedTail
  PROVE  LockInv'
<1> DEFINE f == SelectCall(0)
           cs == IF os.resched THEN << f >> ELSE << >>
<1>1. IInv' /\ UNCHANGED os /\ Continue(cs) /\ stack[exec] # << >> /\ Top.fn = "resched"
  BY TheLocks, ReschedTailStep, InsideTop DEF ReschedTail
<1>2. f \in Frames /\ f.fn \notin Transient
  BY SelectCalls, TheLocks DEF FrameOK, Transient
<1> HIDE DEF f
<1>3. cs \in Seq(Frames) /\ HasNo(cs, Transient)
  BY <1>2, FewCalls
<1> HIDE DEF cs
<1>4. Quiet(os', os) /\ Owned(os)
  BY <1>1, NothingChanges, Untouched
<1> QED
  BY <1>1, <1>3, <1>4, QuietContinues

(* The tail of OSSleepThread finds its thread awake.                       *)
LEMMA SleepReturnsLocks ==
  ASSUME LockInv, SleepReturns
  PROVE  LockInv'
<1>1. IInv' /\ stack[exec] # << >> /\ Top.fn = "sleep" /\ Continue(<< >>)
  BY TheLocks, SleepReturnsStep, InsideTop DEF SleepReturns
<1>2. Top.arg = exec /\ os.state[exec] = "RUNNING"
  BY <1>1, TheLocks, TopOK, NotFromIdle DEF FrameOK, IdleCalls
<1>3. UNCHANGED os
  BY <1>2 DEF SleepReturns
<1> QED
  BY <1>1, <1>3, FewCalls, NothingChanges, Untouched, QuietContinues

(* The tail of OSSleepTicks finds its thread resumed.                      *)
LEMMA TicksTailLocks ==
  ASSUME LockInv, TicksTail
  PROVE  LockInv'
<1> DEFINE s == stack[exec]
           r == Tail(s)
<1>1. IInv' /\ s # << >> /\ Top.fn = "ticks" /\ Continue(<< >>)
  BY TheLocks, TicksTailStep, InsideTop DEF TicksTail
<1>2. os.susp[exec] = 0
  <2>1. os.state[exec] = "RUNNING" /\ ThreadOK(os, exec)
    BY <1>1, TheLocks, NotFromIdle DEF IdleCalls, MemoryOK
  <2> QED
    BY <2>1 DEF ThreadOK
<1>3. UNCHANGED os
  BY <1>2 DEF TicksTail
<1>4. Quiet(os', os) /\ Owned(os) /\ HasNo(r, Transient)
  BY <1>1, <1>3, NothingChanges, Untouched
<1>5. s \in Seq(Frames) /\ Top = Head(s)
  BY TheLocks DEF Top
<1>6. stack' = [stack EXCEPT ![exec] = << >> \o r] /\ exec' = exec
  BY <1>1 DEF Continue
<1>7. FiberOK(os, exec, s)
  BY TheLocks
<1> HIDE DEF s
<1>8. r \in Seq(Frames) /\ \A fns : HasNo(s, fns) <=> Head(s).fn \notin fns /\ HasNo(r, fns)
  BY <1>1, <1>5, TopAndRest DEF r
<1> HIDE DEF r
<1>9. << >> \o r = r
  BY <1>8, ConcatEmptySeq
<1>10. FiberOK(os', exec, r)
  BY <1>1, <1>2, <1>3, <1>5, <1>7, <1>8 DEF FiberOK
<1>11. LocksOK(os') /\ HandedOver(os', r) /\ CallsOK(os', exec, r)
  BY <1>4, <1>8, CalmCalls DEF Quiet, Owned, HandedOver
<1>12. os'.state[exec] # "NONE"
  BY <1>3, TheLocks
<1> QED
  BY <1>1, <1>3, <1>6, <1>9, <1>10, <1>11, <1>12, LockSteps

(* What OSSuspendThread and OSResumeThread leave to do.                    *)
LEMMA AfterMade ==
  ASSUME LockInv, IInv', AtGuest \/ Inside("idle"), Quiet(os', os), NEW t \in Threads,
         NEW cs, cs = AfterSuspend(os, t) \/ cs = AfterResume(os, t), Push(cs)
  PROVE  LockInv'
<1> DEFINE f == Frame("propagate", MutexOwner(os, t), 0)
           g == ReschedCall
           s == stack[exec]
           r == << g >> \o s
           u == << f, g >> \o s
<1>1. /\ f \in Frames /\ f.fn = "propagate" /\ g \in Frames /\ g.fn = "resched"
  BY TheLocks, Owners, OwnerCalls, KernelCalls, SmallNumbers DEF FrameOK
<1>2. cs \in {<< >>, << f, g >>, << g >>}
  BY DEF AfterSuspend, AfterResume
<1>3. s \in Seq(Frames) /\ HasNo(s, Transient) /\ Owned(os)
  BY NothingHalfDone
<1> HIDE DEF f, g
<1>4. CASE cs \in {<< >>, << g >>}
  <2>1. cs \in Seq(Frames) /\ HasNo(cs, Transient)
    BY <1>1, <1>4, FewCalls DEF Transient
  <2> QED
    BY <2>1, QuietPushes
<1>5. CASE cs = << f, g >>
  <2>1. stack' = [stack EXCEPT ![exec] = u] /\ exec' = exec
    BY <1>5 DEF Push
  <2> HIDE DEF s
  <2>2. /\ r \in Seq(Frames) /\ r # << >> /\ Head(r) = g
        /\ \A fns : HasNo(r, fns) <=> g.fn \notin fns /\ HasNo(s, fns)
    BY <1>1, <1>3, OneOnTop
  <2>3. u = << f >> \o r /\ \A fns : HasNo(u, fns) <=> f.fn \notin fns /\ g.fn \notin fns /\ HasNo(s, fns)
    <3>1. u = << f, g >> \o s
      OBVIOUS
    <3> HIDE DEF u
    <3>2. u = << f >> \o r
      <4> DEFINE a == << f >>
                 b == << g >>
                 c == << f, g >>
      <4>1. a \in Seq(Frames) /\ b \in Seq(Frames) /\ c = a \o b
        <5>1. << f, g >> = << f >> \o << g >>
          BY <1>1, Pair
        <5> QED
          BY <1>1, <5>1
      <4>2. u = c \o s
        BY <3>1
      <4> HIDE DEF a, b, c
      <4>3. (a \o b) \o s = a \o (b \o s)
        BY <1>3, <4>1, ConcatAssociative
      <4> QED
        BY <4>1, <4>2, <4>3 DEF a, b
    <3>3. \A fns : HasNo(u, fns) <=> f.fn \notin fns /\ g.fn \notin fns /\ HasNo(s, fns)
      BY <1>1, <1>3, <3>1, TwoOnTop
    <3> QED
      BY <3>2, <3>3
  <2> HIDE DEF u, r
  <2>4. HasNo(r, Transient)
    BY <1>1, <1>3, <2>2 DEF Transient
  <2>5. CallsOK(os', exec, u)
    BY <1>1, <2>2, <2>3, <2>4, PropagateCalls
  <2>6. LocksOK(os') /\ CallsKept(os', os) /\ HandedOver(os', u) /\ Remembers(u, s)
    BY <1>3, <2>3 DEF Quiet, Owned, HandedOver, Remembers
  <2> QED
    BY <2>1, <2>5, <2>6, CallSteps DEF s
<1> QED
  BY <1>2, <1>4, <1>5

LEMMA SuspendThreadLocks ==
  ASSUME LockInv, NEW t \in Threads, OSSuspendThread(t)
  PROVE  LockInv'
<1>1. IInv' /\ AtGuest /\ os' = Suspend(os, t) /\ Push(AfterSuspend(os, t))
  BY TheLocks, SuspendThreadStep DEF OSSuspendThread, May
<1>2. Suspended(os', os, t)
  BY <1>1, TheLocks, SuspendEffect
<1>3. QueuesOrdered(os')
  BY <1>1, TheLocks, SuspendEffect
<1>4. os' \in OsMemory
  BY <1>1 DEF IInv, MemoryOK, ListsOK
<1>5. Quiet(os', os)
  BY <1>2, <1>3, <1>4, TheLocks, SuspendedIsQuiet
<1> QED
  BY <1>1, <1>5, AfterMade

LEMMA ResumeThreadLocks ==
  ASSUME LockInv, NEW t \in Threads, OSResumeThread(t)
  PROVE  LockInv'
<1>1. /\ IInv' /\ AtGuest /\ os' = Resume(os, t) /\ Push(AfterResume(os, t))
      /\ os.state[t] # "NONE" /\ os.susp[t] > 0
  BY TheLocks, ResumeThreadStep DEF OSResumeThread, May
<1>2. Resumed(os', os, t)
  BY <1>1, TheLocks, ResumeEffect
<1>3. QueuesOrdered(os')
  BY <1>1, TheLocks, ResumeEffect
<1>4. os' \in OsMemory
  BY <1>1 DEF IInv, MemoryOK, ListsOK
<1>5. Quiet(os', os)
  BY <1>1, <1>2, <1>3, <1>4, TheLocks, ResumedIsQuiet
<1> QED
  BY <1>1, <1>5, AfterMade

LEMMA QuietTransitive ==
  ASSUME NEW i, NEW j, NEW k, Quiet(i, j), Quiet(j, k)
  PROVE  Quiet(i, k)
BY DEF Quiet, CallsKept

(* A sleep timer runs out: its thread is resumed if it sleeps.             *)
LEMMA ProcessSleepTimersLocks ==
  ASSUME LockInv, NEW t \in Threads, ProcessSleepTimers(t)
  PROVE  LockInv'
<1> DEFINE k == [os EXCEPT !.timers = @ \ {t}, !.parks = @ \ {t}]
           f == [Top EXCEPT !.due = @ \ {t}]
<1>1. IInv' /\ stack[exec] # << >> /\ Top.fn \in {"idle", "select"}
  BY TheLocks, ProcessSleepTimersStep, InsideTop DEF ProcessSleepTimers
<1>2. f \in Frames /\ f.fn = Top.fn
  BY <1>1, TheLocks, TopOK DEF Frames
<1>3. MemoryOK(k) /\ k.state = os.state /\ k.susp = os.susp
  BY TheLocks, TimerDropped
<1>4. Steady(k, os)
  BY TheLocks DEF Steady, OsMemory
<1> HIDE DEF f
<1>5. Quiet(k, os)
  <2> HIDE DEF k
  <2> QED
    BY <1>3, <1>4, TheLocks, SteadyIsQuiet DEF MemoryOK, ListsOK
<1>6. CASE os.state[t] = "READY" /\ os.susp[t] >= 1
  <2>1. os' = Resume(k, t) /\ Continue(Append(AfterResume(k, t), f))
    BY <1>6 DEF ProcessSleepTimers, f
  <2> HIDE DEF k
  <2>2. QueuesOrdered(k) /\ LocksOK(k) /\ k.susp[t] > 0 /\ k.state[t] # "NONE"
    <3>1. os.susp[t] > 0
      BY <1>6, TheLocks DEF OsMemory
    <3> QED
      BY <1>3, <1>5, <1>6, <3>1 DEF Quiet, LocksOK
  <2>3. Resumed(os', k, t)
    BY <1>3, <2>1, <2>2, TheLocks, ResumeEffect
  <2>4. QueuesOrdered(os')
    BY <1>3, <2>1, <2>2, TheLocks, ResumeEffect
  <2>5. os' \in OsMemory
    BY <1>1 DEF IInv, MemoryOK, ListsOK
  <2>6. Quiet(os', os)
    BY <1>3, <1>5, <2>2, <2>3, <2>4, <2>5, ResumedIsQuiet, QuietTransitive
  <2> DEFINE cs == Append(AfterResume(k, t), f)
  <2>7. cs \in Seq(Frames) /\ HasNo(cs, Transient)
    <3>1. AfterResume(k, t) = << >> \/ AfterResume(k, t) = << ReschedCall >>
      BY <1>3, <1>6 DEF AfterResume
    <3>2. ReschedCall \in Frames /\ ReschedCall.fn = "resched"
      BY KernelCalls DEF FrameOK
    <3>3. cs = << f >> \/ cs = << ReschedCall, f >>
      <4>1. Append(<< >>, f) = << f >> /\ Append(<< ReschedCall >>, f) = << ReschedCall, f >>
        BY <1>2, <3>2, AppendedCalls
      <4> QED
        BY <3>1, <4>1
    <3> HIDE DEF cs
    <3> QED
      BY <1>1, <1>2, <3>2, <3>3, FewCalls DEF Transient
  <2>8. Continue(cs)
    BY <2>1
  <2> HIDE DEF cs
  <2> QED
    BY <1>1, <2>6, <2>7, <2>8, Untouched, QuietContinues
<1>7. CASE ~(os.state[t] = "READY" /\ os.susp[t] >= 1)
  <2>1. os' = k /\ Continue(<< f >>)
    BY <1>7 DEF ProcessSleepTimers, f
  <2>2. Quiet(os', os)
    BY <1>5, <2>1
  <2>3. << f >> \in Seq(Frames) /\ HasNo(<< f >>, Transient)
    BY <1>1, <1>2, FewCalls DEF Transient
  <2> QED
    BY <1>1, <2>1, <2>2, <2>3, Untouched, QuietContinues
<1> QED
  BY <1>6, <1>7

(* The running thread suspends itself with its timer armed.                *)
LEMMA SleepTicksLocks ==
  ASSUME LockInv, OSSleepTicks
  PROVE  LockInv'
<1> DEFINE k  == [os EXCEPT !.timers = @ \cup {exec}, !.parks = @ \cup {exec}]
           f  == ReschedCall
           g  == Frame("ticks", NULL, 0)
           s  == stack[exec]
           cs == AfterSuspend(os, exec) \o << g >>
           u  == cs \o s
<1>1. /\ IInv' /\ AtGuest /\ os.disable = 0 /\ os.current = exec
      /\ os' = Suspend(k, exec) /\ Push(cs)
  BY TheLocks, SleepTicksStep DEF OSSleepTicks, May
<1>2. os.state[exec] = "RUNNING" /\ os.susp[exec] = 0
  <2>1. os.state[exec] = "RUNNING"
    BY <1>1, TheLocks, RunningIsLive, GuestRuns
  <2> QED
    BY <2>1, TheLocks DEF MemoryOK, ThreadOK
<1>3. f \in Frames /\ f.fn = "resched" /\ g \in Frames /\ g.fn = "ticks"
  BY KernelCalls DEF FrameOK
<1>4. cs = << f, g >>
  <2>1. AfterSuspend(os, exec) = << f >>
    BY <1>2 DEF AfterSuspend
  <2> QED
    BY <1>3, <2>1, Pair
<1> HIDE DEF f, g, cs
<1>5. /\ k.queue = os.queue /\ k.pending = os.pending /\ k.qptr = os.qptr
      /\ k.state = os.state /\ k.susp = os.susp /\ k.prio = os.prio /\ k.base = os.base
      /\ k.waitsOn = os.waitsOn /\ k.held = os.held /\ k.owner = os.owner /\ k.count = os.count
      /\ k.timers = os.timers \cup {exec} /\ k.parks = os.parks \cup {exec}
      /\ k \in OsMemory
  <2>1. os.timers \cup {exec} \in SUBSET Threads /\ os.parks \cup {exec} \in SUBSET Threads
    BY TheLocks DEF OsMemory
  <2> QED
    BY <2>1, TheLocks DEF OsMemory
<1> HIDE DEF k
<1>6. MemoryOK(k)
  <2>1. \A m \in Mutexes : k.owner[m] = NULL <=> k.count[m] = 0
    BY <1>5, TheLocks DEF MemoryOK, ListsOK
  <2> QED
    BY <1>5, <2>1, TheLocks, QuietChanges
<1>7. LocksOK(k) /\ Owned(k)
  <2>1. Owned(os)
    BY <1>1, NothingHalfDone
  <2> QED
    BY <1>5, <2>1, TheLocks DEF LocksOK, QueuesOrdered, Sorted, HoldersOK, WaiterOK, In, Owned
<1>8. Suspended(os', k, exec)
  BY <1>1, <1>6, <1>7, TheLocks, SuspendEffect DEF LocksOK
<1>9. QueuesOrdered(os')
  BY <1>1, <1>6, <1>7, TheLocks, SuspendEffect DEF LocksOK
<1>10. os' \in OsMemory
  BY <1>1 DEF IInv, MemoryOK, ListsOK
<1>11. Quiet(os', k)
  BY <1>6, <1>7, <1>8, <1>9, <1>10, TheLocks, SuspendedIsQuiet
<1>12. stack' = [stack EXCEPT ![exec] = u] /\ exec' = exec
  BY <1>1 DEF Push
<1>13. s \in Seq(Frames) /\ HasNo(s, Transient)
  BY <1>1, NothingHalfDone
<1>14. /\ u \in Seq(Frames)
       /\ \A fns : HasNo(u, fns) <=> f.fn \notin fns /\ g.fn \notin fns /\ HasNo(s, fns)
  <2> HIDE DEF s
  <2> QED
    BY <1>3, <1>4, <1>13, TwoOnTop
<1>15. FiberOK(os, exec, s) /\ os.state[exec] # "NONE"
  BY TheLocks
<1> HIDE DEF u, s
<1>16. CallsOK(os', exec, u) /\ HandedOver(os', u)
  <2>1. HasNo(u, Transient)
    BY <1>3, <1>13, <1>14 DEF Transient
  <2>2. HandedOver(os', u)
    BY <1>7, <1>11 DEF Quiet, Owned, HandedOver
  <2> QED
    BY <1>14, <2>1, <2>2, CalmCalls
<1>17. FiberOK(os', exec, u)
  <2>1. os'.susp[exec] > 0 /\ exec \in os'.timers
    BY <1>2, <1>5, <1>8, TheLocks DEF Suspended, SameParks, OsMemory
  <2> QED
    BY <1>3, <1>5, <1>8, <1>14, <1>15, <2>1 DEF FiberOK, Suspended, SameLocks
<1>18. ASSUME NEW t \in Threads \ {exec}, FiberOK(os, t, stack[t]) PROVE FiberOK(os', t, stack[t])
  <2>1. /\ t \in os'.parks => t \in os.parks
        /\ t \in os.timers => t \in os'.timers
        /\ os'.susp[t] = os.susp[t] /\ os'.waitsOn[t] = os.waitsOn[t]
    BY <1>5, <1>8, TheLocks DEF Suspended, SameParks, SameLocks, OsMemory
  <2> QED
    BY <1>18, <2>1 DEF FiberOK
<1>19. os'.state[exec] # "NONE"
  BY <1>5, <1>11, <1>15, TheLocks DEF Quiet, CallsKept
<1> QED
  BY <1>1, <1>11, <1>12, <1>16, <1>17, <1>18, <1>19, LockSteps DEF Quiet

(* One turn of the loop of WakeupThreadQueue.                              *)
LEMMA WakeupQueueLocks ==
  ASSUME LockInv, WakeupThreadQueue
  PROVE  LockInv'
<1> DEFINE s == stack[exec]
           r == Tail(s)
           q == Top.obj
<1>1. IInv' /\ s # << >> /\ Top.fn = "wake" /\ Top \in Frames /\ q \in Waitables
  BY TheLocks, WakeupThreadQueueStep, InsideTop, TopOK DEF WakeupThreadQueue, FrameOK
<1>2. /\ s \in Seq(Frames) /\ Top = Head(s) /\ HasNo(r, Transient)
      /\ CallsOK(os, exec, s) /\ HandedOver(os, s) /\ s # << >> /\ Head(s).fn = "wake"
  BY <1>1, TheLocks, Untouched DEF Top
<1>3. os' \in OsMemory
  BY <1>1 DEF IInv, MemoryOK, ListsOK
<1>4. q \in Mutexes => os.owner[q] = NULL
  BY <1>2 DEF CallsOK
<1>5. CASE os.queue[q] # << >>
  <2> DEFINE f == [Top EXCEPT !.arg = IF WakeReschedules(os, q) THEN 1 ELSE @]
             u == << f >> \o r
             x == Head(os.queue[q])
  <2>1. os' = WakeHead(os, q) /\ stack' = [stack EXCEPT ![exec] = u] /\ exec' = exec
    BY <1>5 DEF WakeupThreadQueue, Continue
  <2>2. f \in Frames /\ f.fn = "wake" /\ f.obj = q
    <3> HIDE DEF q
    <3> QED
      BY <1>1, SmallNumbers DEF Frames, q
  <2> HIDE DEF f, q, x, s
  <2>3. r \in Seq(Frames) /\ \A fns : HasNo(s, fns) <=> Head(s).fn \notin fns /\ HasNo(r, fns)
    BY <1>2, TopAndRest
  <2> HIDE DEF r
  <2>4. /\ u # << >> /\ Head(u) = f
        /\ \A fns : HasNo(u, fns) <=> f.fn \notin fns /\ HasNo(r, fns)
    BY <2>2, <2>3, OneOnTop
  <2>5. x \in Threads /\ os.state[x] = "WAITING" /\ Woken(os', os, q, x) /\ QueuesOrdered(os')
    BY <1>1, <1>5, <2>1, TheLocks, WakeHeadEffect DEF x
  <2>6. /\ LocksOK(os') /\ CallsKept(os', os)
        /\ \A m \in Mutexes : os'.queue[m] # << >> => os.queue[m] # << >>
    BY <1>1, <1>3, <2>5, TheLocks, WokenLocks
  <2>7. os'.owner = os.owner
    BY <2>5 DEF Woken
  <2>8. f.obj \in Mutexes => os'.owner[f.obj] = NULL
    BY <1>4, <2>2, <2>7
  <2>9. CallsOK(os', exec, u)
    BY <1>2, <2>2, <2>3, <2>8, WakeCalls
  <2>10. HandedOver(os', u)
    <3>1. Head(s).obj = q
      BY <1>2 DEF q
    <3> HIDE DEF u
    <3> QED
      BY <1>2, <2>2, <2>4, <2>6, <2>7, <3>1 DEF HandedOver
  <2> HIDE DEF u
  <2>11. Remembers(u, s)
    BY <1>2, <2>2, <2>3, <2>4 DEF Remembers
  <2> QED
    BY <1>1, <2>1, <2>6, <2>9, <2>10, <2>11, CallSteps DEF s
<1>6. CASE os.queue[q] = << >>
  <2> DEFINE f == SelectCall(0)
             cs == IF Top.arg = 1 THEN << f >> ELSE << >>
  <2>1. UNCHANGED os /\ Continue(cs)
    BY <1>6 DEF WakeupThreadQueue
  <2>2. f \in Frames /\ f.fn \notin Transient
    BY SelectCalls, TheLocks DEF FrameOK, Transient
  <2> HIDE DEF f
  <2>3. cs \in Seq(Frames) /\ HasNo(cs, Transient)
    BY <2>2, FewCalls
  <2> HIDE DEF cs
  <2>4. Owned(os)
    <3>1. Head(s).obj = q
      BY <1>2
    <3> HIDE DEF s, q
    <3> QED
      BY <1>2, <1>6, <3>1 DEF HandedOver, Owned
  <2> QED
    BY <1>1, <2>1, <2>3, <2>4, NothingChanges, QuietContinues
<1> QED
  BY <1>5, <1>6

(* The body of OSSleepThread up to the switch.                             *)
LEMMA SleepBeginsLocks ==
  ASSUME LockInv, SleepBegins
  PROVE  LockInv'
<1> DEFINE s == stack[exec]
           q == Top.obj
<1>1. IInv' /\ s # << >> /\ Top.fn = "sleepcall" /\ q \in Waitables
  BY TheLocks, SleepBeginsStep, InsideTop, TopOK DEF SleepBegins, FrameOK
<1>2. /\ s \in Seq(Frames) /\ Top = Head(s) /\ CallsOK(os, exec, s) /\ Owned(os)
      /\ Head(s).fn = "sleepcall"
  BY <1>1, TheLocks, Untouched DEF Top
<1>3. os' \in OsMemory
  BY <1>1 DEF IInv, MemoryOK, ListsOK
<1>4. os.state[exec] = "RUNNING" /\ os.running = exec
  BY <1>1, TheLocks, NotFromIdle DEF IdleCalls
<1>5. q # Dwc
  BY <1>1, TheLocks DEF Queues
<1>6. Top.fn \notin {"promote", "lock", "ticks"}
  BY <1>1
<1>7. CASE os.disable > 0
  <2>1. UNCHANGED os /\ Continue(<< >>)
    BY <1>4, <1>5, <1>7, TheLocks DEF SleepBegins
  <2> QED
    BY <1>1, <1>2, <1>6, <2>1, FewCalls, NothingChanges, QuietContinues
<1>8. CASE ~(os.disable > 0)
  <2> DEFINE f == SelectCall(0)
             g == Frame("sleep", q, exec)
             w == [os EXCEPT !.state[exec] = "WAITING", !.resched = TRUE]
  <2>1. os' = InsertThreadIntoQueueByPriority(w, q, exec, os.prio[exec]) /\ Continue(<< f, g >>)
    BY <1>4, <1>8, TheLocks DEF SleepBegins
  <2>2. f \in Frames /\ f.fn \notin Transient /\ g \in Frames /\ g.fn \notin Transient
    BY <1>1, SelectCalls, QueueCalls, TheLocks DEF FrameOK, Transient
  <2> HIDE DEF f, g
  <2>3. << f, g >> \in Seq(Frames) /\ HasNo(<< f, g >>, Transient)
    BY <2>2, FewCalls
  <2>4. Slept(os', os, q, exec) /\ QueuesOrdered(os')
    <3> HIDE DEF q
    <3> QED
      BY <1>1, <1>4, <2>1, TheLocks, SleepEffect
  <2>5. q \in Mutexes => os.waitsOn[exec] = q /\ os.owner[q] # NULL
    BY <1>1, <1>2 DEF CallsOK, Requests
  <2>6. q \notin Mutexes => os.waitsOn[exec] = NULL
    BY <1>1, <1>2, <1>8 DEF CallsOK
  <2>7. Quiet(os', os)
    <3> HIDE DEF q
    <3> QED
      BY <1>1, <1>3, <1>4, <2>4, <2>5, <2>6, TheLocks, SleptLocks
  <2> QED
    BY <1>1, <1>2, <1>6, <2>1, <2>3, <2>7, QuietContinues
<1> QED
  BY <1>7, <1>8

(* The pointer of the executing thread to the mutex waited for is set to v. *)
Points(j, v) ==
  /\ MemoryOK(j) /\ j \in OsMemory /\ HoldersOK(j) /\ SameParks(j, os)
  /\ j.queue = os.queue /\ j.state = os.state /\ j.susp = os.susp
  /\ j.prio = os.prio /\ j.base = os.base /\ j.owner = os.owner /\ j.held = os.held
  /\ j.pending = os.pending /\ (Asked(j) <=> Asked(os)) /\ j.disable = os.disable
  /\ j.waitsOn[exec] = v
  /\ \A t \in Threads \ {exec} : j.waitsOn[t] = os.waitsOn[t]

LEMMA PointsEffect ==
  ASSUME LockInv, NEW v \in Mutexes \cup {NULL}, NEW j, j = [os EXCEPT !.waitsOn[exec] = v]
  PROVE  Points(j, v)
<1>1. MemoryOK(j)
  BY TheLocks, WaitsOnChanges
<1>2. j \in OsMemory
  BY <1>1 DEF MemoryOK, ListsOK
<1>3. /\ j.queue = os.queue /\ j.state = os.state /\ j.susp = os.susp
      /\ j.prio = os.prio /\ j.base = os.base /\ j.owner = os.owner /\ j.held = os.held
      /\ j.timers = os.timers /\ j.parks = os.parks /\ j.pending = os.pending
      /\ j.resched = os.resched /\ j.disable = os.disable
      /\ j.waitsOn[exec] = v
      /\ \A t \in Threads \ {exec} : j.waitsOn[t] = os.waitsOn[t]
  BY TheLocks DEF OsMemory
<1>4. HoldersOK(j)
  BY <1>3, TheLocks DEF HoldersOK
<1> QED
  BY <1>1, <1>2, <1>3, <1>4 DEF Points, SameParks, Asked

(* One turn of the loop of OSLockMutex.                                    *)
LEMMA LockTurnLocks ==
  ASSUME LockInv, LockTurn
  PROVE  LockInv'
<1> DEFINE s == stack[exec]
           r == Tail(s)
           c == Top
           m == c.obj
           o == os.owner[m]
           k == [os EXCEPT !.waitsOn[exec] = NULL]
<1>1. /\ IInv' /\ s # << >> /\ c.fn = "lock" /\ m \in Mutexes /\ c \in Frames
  BY TheLocks, LockTurnStep, InsideTop, TopOK DEF LockTurn, FrameOK
<1>2. /\ s \in Seq(Frames) /\ c = Head(s) /\ Owned(os) /\ HasNo(r, Transient)
  BY <1>1, TheLocks, Untouched DEF Top
<1>3. os' \in OsMemory
  BY <1>1 DEF IInv, MemoryOK, ListsOK
<1>4. os.state[exec] = "RUNNING"
  BY <1>1, TheLocks, NotFromIdle DEF IdleCalls
<1>5. \A q \in Waitables : ~In(os, exec, q)
  BY <1>4, TheLocks, WaitersOnly
<1>6. FiberOK(os, exec, s) /\ NULL \in Mutexes \cup {NULL}
  BY TheLocks
<1>7. CASE o \in {NULL, exec}
  <2>1. os' = Acquire(k, m, exec) /\ stack' = [stack EXCEPT ![exec] = << >> \o r] /\ exec' = exec
    BY <1>7 DEF LockTurn, Continue
  <2>2. /\ MemoryOK(k) /\ k \in OsMemory /\ HoldersOK(k) /\ SameParks(k, os)
        /\ k.queue = os.queue /\ k.state = os.state /\ k.susp = os.susp
        /\ k.prio = os.prio /\ k.owner = os.owner
        /\ k.waitsOn[exec] = NULL
        /\ \A t \in Threads \ {exec} : k.waitsOn[t] = os.waitsOn[t]
    <3>1. Points(k, NULL)
      BY <1>6, PointsEffect
    <3> HIDE DEF k
    <3> QED
      BY <3>1 DEF Points
  <2> HIDE DEF k, c
  <2>3. r \in Seq(Frames) /\ \A fns : HasNo(s, fns) <=> Head(s).fn \notin fns /\ HasNo(r, fns)
    <3> HIDE DEF s
    <3> QED
      BY <1>1, <1>2, TopAndRest
  <2> HIDE DEF s, r
  <2>4. << >> \o r = r
    BY <2>3, ConcatEmptySeq
  <2>5. Acquired(os', k, m, exec) /\ HoldersOK(os')
    <3>1. k.owner[m] \in {NULL, exec} /\ k.state[exec] # "NONE"
      BY <1>4, <1>7, <2>2
    <3> HIDE DEF m
    <3> QED
      BY <1>1, <2>1, <2>2, <3>1, TheLocks, AcquireEffect
  <2> HIDE DEF m
  <2>6. /\ os'.queue = os.queue /\ os'.state = os.state /\ os'.susp = os.susp
        /\ os'.prio = os.prio /\ os'.timers = os.timers /\ os'.parks = os.parks
        /\ os'.owner = [os.owner EXCEPT ![m] = exec] /\ os'.waitsOn[exec] = NULL
        /\ \A t \in Threads \ {exec} : os'.waitsOn[t] = os.waitsOn[t]
    BY <2>2, <2>5 DEF Acquired, SameParks
  <2>7. LocksOK(os')
    BY <1>3, <1>4, <1>5, <2>5, <2>6, TheLocks, HandsChanged
  <2>8. HandedOver(os', r)
    BY <1>1, <1>2, <2>6, TheLocks DEF HandedOver, Owned, OsMemory
  <2>9. CallsOK(os', exec, r)
    BY <1>2, <2>3, CalmCalls
  <2>10. FiberOK(os', exec, r)
    BY <1>1, <1>2, <1>6, <2>3, <2>6 DEF FiberOK
  <2>11. \A t \in Threads \ {exec} : FiberOK(os, t, stack[t]) => FiberOK(os', t, stack[t])
    BY <2>6 DEF FiberOK
  <2>12. os'.state[exec] # "NONE"
    BY <1>4, <2>6
  <2> QED
    BY <1>1, <2>1, <2>4, <2>7, <2>8, <2>9, <2>10, <2>11, <2>12, LockSteps
<1>8. CASE o \notin {NULL, exec}
  <2> DEFINE a == Frame("promote", o, os.prio[exec])
             b == Frame("sleepcall", m, 0)
             v == << b, c >> \o r
             u == << a, b, c >> \o r
  <2>1. os' = [os EXCEPT !.waitsOn[exec] = m] /\ stack' = [stack EXCEPT ![exec] = u] /\ exec' = exec
    <3>1. os' = [k EXCEPT !.waitsOn[exec] = m]
      BY <1>8 DEF LockTurn
    <3>2. [k EXCEPT !.waitsOn[exec] = m] = [os EXCEPT !.waitsOn[exec] = m]
      BY TheLocks DEF OsMemory
    <3> QED
      BY <1>8, <3>1, <3>2 DEF LockTurn, Continue
  <2>2. /\ SameParks(os', os) /\ HoldersOK(os')
        /\ os'.queue = os.queue /\ os'.state = os.state /\ os'.susp = os.susp
        /\ os'.prio = os.prio /\ os'.owner = os.owner
        /\ os'.waitsOn[exec] = m
        /\ \A t \in Threads \ {exec} : os'.waitsOn[t] = os.waitsOn[t]
    <3> HIDE DEF c, r, o
    <3>1. Points([os EXCEPT !.waitsOn[exec] = m], m)
      BY <1>1, PointsEffect
    <3>2. Points(os', m)
      BY <2>1, <3>1
    <3> QED
      BY <3>2 DEF Points
  <2>3. a \in Frames /\ a.fn = "promote" /\ a.arg = os.prio[exec]
    <3>1. o \in Threads \cup {NULL} /\ os.prio[exec] \in Prios \cup {SuspendedWaitPriority}
      BY <1>1, TheLocks DEF OsMemory
    <3>2. os.prio[exec] \in 0 .. MaxPrio + 1
      BY <3>1, OsConstants DEF Prios, SuspendedWaitPriority
    <3> HIDE DEF o
    <3> QED
      BY <3>1, <3>2, OwnerCalls DEF FrameOK, Frame
  <2>4. b \in Frames /\ b.fn = "sleepcall" /\ b.obj = m
    <3>1. m \in Waitables
      BY <1>1 DEF Waitables
    <3> QED
      BY <3>1, TheLocks, QueueCalls DEF FrameOK, Frame
  <2> HIDE DEF k, c, a, b
  <2>5. r \in Seq(Frames) /\ \A fns : HasNo(s, fns) <=> Head(s).fn \notin fns /\ HasNo(r, fns)
    <3> HIDE DEF s
    <3> QED
      BY <1>1, <1>2, TopAndRest
  <2> HIDE DEF s, r
  <2> DEFINE w == << c >> \o r
  <2>6. /\ w \in Seq(Frames) /\ w # << >> /\ Head(w) = c
        /\ \A fns : HasNo(w, fns) <=> c.fn \notin fns /\ HasNo(r, fns)
    <3> HIDE DEF m
    <3> QED
      BY <1>1, <2>5, OneOnTop
  <2>7. /\ v \in Seq(Frames) /\ v # << >> /\ Head(v) = b
        /\ \A fns : HasNo(v, fns) <=> b.fn \notin fns /\ c.fn \notin fns /\ HasNo(r, fns)
    <3>1. v = << b, c >> \o r
      OBVIOUS
    <3> HIDE DEF m, w, v
    <3>2. b \in Frames /\ c \in Frames /\ r \in Seq(Frames)
      BY <1>1, <2>4, <2>5
    <3>3. v \in Seq(Frames) /\ v # << >>
      BY <3>1, <3>2, TwoOnTop
    <3>4. Head(v) = b
      BY <3>1, <3>2, TwoOnTop
    <3>5. \A fns : HasNo(v, fns) <=> b.fn \notin fns /\ c.fn \notin fns /\ HasNo(r, fns)
      BY <3>1, <3>2, TwoOnTop
    <3> QED
      BY <3>3, <3>4, <3>5
  <2>8. Tail(v) = << c >> \o r
    <3> HIDE DEF m, w
    <3> QED
      BY <1>1, <2>4, <2>5, TwoOnTop
  <2>9. u = << a >> \o (<< b, c >> \o r)
    <3> HIDE DEF m, w
    <3> QED
      BY <1>1, <2>3, <2>4, <2>5, ThreeOnTop
  <2>10. u = << a >> \o v /\ Tail(v) = w
    BY <2>8, <2>9
  <2> HIDE DEF u, v, w
  <2>11. \A fns : HasNo(u, fns) <=> a.fn \notin fns /\ HasNo(v, fns)
    BY <2>3, <2>7, <2>10, OneOnTop
  <2>12. Requests(os', exec, v)
    BY <1>1, <1>8, <2>2, <2>4, <2>6, <2>7, <2>10 DEF Requests
  <2> HIDE DEF m
  <2>13. HasNo(Tail(v), Transient)
    BY <1>1, <1>2, <2>6, <2>10 DEF Transient
  <2>14. CallsOK(os', exec, u)
    <3>1. a.arg = os'.prio[exec]
      BY <2>2, <2>3
    <3> QED
      BY <2>3, <2>7, <2>10, <2>12, <2>13, <3>1, PromoteCalls
  <2>15. LocksOK(os')
    BY <1>3, <1>4, <1>5, <2>2, TheLocks, HandsChanged
  <2>16. HandedOver(os', u)
    BY <1>2, <2>2 DEF HandedOver, Owned
  <2>17. FiberOK(os', exec, u)
    BY <1>1, <1>2, <1>6, <2>2, <2>5, <2>7, <2>11 DEF FiberOK, SameParks
  <2>18. \A t \in Threads \ {exec} : FiberOK(os, t, stack[t]) => FiberOK(os', t, stack[t])
    BY <2>2 DEF FiberOK, SameParks
  <2>19. os'.state[exec] # "NONE"
    BY <1>4, <2>2
  <2> QED
    BY <1>1, <2>1, <2>14, <2>15, <2>16, <2>17, <2>18, <2>19, LockSteps
<1> QED
  BY <1>7, <1>8

(* One turn of the loop of PromoteThreadPriority.                          *)
LEMMA PromoteTurnLocks ==
  ASSUME LockInv, PromoteTurn
  PROVE  LockInv'
<1> DEFINE s == stack[exec]
           r == Tail(s)
           t == Top.obj
           p == Top.arg
<1>1. /\ IInv' /\ s # << >> /\ Top.fn = "promote"
      /\ t \in Threads \cup {NULL} /\ p \in 0 .. MaxPrio + 1
  BY TheLocks, PromoteTurnStep, InsideTop, TopOK DEF PromoteTurn, FrameOK
<1>2. s \in Seq(Frames) /\ Top = Head(s) /\ CallsOK(os, exec, s) /\ Owned(os)
  BY <1>1, TheLocks, Untouched DEF Top
<1>3. os' \in OsMemory
  BY <1>1 DEF IInv, MemoryOK, ListsOK
<1>4. Requests(os, exec, r) /\ HasNo(Tail(r), Transient) /\ p = os.prio[exec]
  BY <1>1, <1>2 DEF CallsOK
<1>5. Head(s).fn = "promote"
  BY <1>1, <1>2
<1>6. CASE t = NULL \/ os.susp[t] > 0 \/ os.prio[t] <= p
  <2>1. UNCHANGED os /\ stack' = [stack EXCEPT ![exec] = << >> \o r] /\ exec' = exec
    BY <1>6 DEF PromoteTurn, Continue
  <2> HIDE DEF s, t, p
  <2>2. r \in Seq(Frames) /\ \A fns : HasNo(s, fns) <=> Head(s).fn \notin fns /\ HasNo(r, fns)
    BY <1>1, <1>2, TopAndRest
  <2> HIDE DEF r
  <2>3. << >> \o r = r
    BY <2>2, ConcatEmptySeq
  <2>4. CallsOK(os, exec, r)
    BY <1>4 DEF CallsOK, Requests
  <2>5. HandedOver(os, r) /\ LocksOK(os)
    BY <1>2, TheLocks DEF HandedOver, Owned
  <2>6. Remembers(r, s)
    BY <1>5, <2>2 DEF Remembers
  <2>7. CallsOK(os', exec, r) /\ HandedOver(os', r) /\ LocksOK(os')
    BY <2>1, <2>4, <2>5
  <2>8. CallsKept(os', os)
    BY <2>1, NothingChanges DEF Quiet
  <2> QED
    BY <1>1, <2>1, <2>3, <2>6, <2>7, <2>8, CallSteps DEF s
<1>7. CASE ~(t = NULL \/ os.susp[t] > 0 \/ os.prio[t] <= p)
  <2> DEFINE f == Frame("promote", NextOwner(os, t), p)
             u == << f >> \o r
  <2>1. /\ os' = SetThreadEffectivePriority(os, t, p)
        /\ stack' = [stack EXCEPT ![exec] = u] /\ exec' = exec
    BY <1>7 DEF PromoteTurn, Continue
  <2> HIDE DEF s, t, p
  <2>2. r \in Seq(Frames) /\ \A fns : HasNo(s, fns) <=> Head(s).fn \notin fns /\ HasNo(r, fns)
    BY <1>1, <1>2, TopAndRest
  <2> HIDE DEF r
  <2>3. t \in Threads /\ os.susp[t] \in Nat /\ os.prio[t] \in Prios \cup {SuspendedWaitPriority}
    BY <1>1, <1>7, TheLocks DEF OsMemory
  <2>4. os.susp[t] = 0 /\ p \in Prios /\ t # exec
    BY <1>1, <1>4, <1>7, <2>3, OsConstants DEF Prios, SuspendedWaitPriority
  <2>5. Adjusted(os', os, t, p) /\ QueuesOrdered(os')
    BY <2>1, <2>3, <2>4, TheLocks, SetPriorityEffect
  <2>6. Quiet(os', os)
    BY <1>3, <2>3, <2>4, <2>5, TheLocks, AdjustedIsQuiet
  <2>7. f \in Frames /\ f.fn = "promote" /\ f.arg = p
    BY <1>1, <2>3, TheLocks, Owners, OwnerCalls DEF FrameOK, Frame
  <2>8. os'.prio[exec] = p /\ os'.waitsOn = os.waitsOn /\ os'.owner = os.owner
    <3>1. os.prio \in [Threads -> Prios \cup {SuspendedWaitPriority}]
      BY TheLocks DEF OsMemory
    <3> QED
      BY <1>4, <2>3, <2>4, <2>5, <3>1, TheLocks DEF Adjusted, SameLocks
  <2> HIDE DEF f
  <2>9. Requests(os', exec, r)
    BY <1>4, <2>8 DEF Requests
  <2>10. CallsOK(os', exec, u)
    BY <1>4, <2>2, <2>7, <2>8, <2>9, PromoteCalls
  <2>11. \A fns : HasNo(u, fns) <=> f.fn \notin fns /\ HasNo(r, fns)
    BY <2>2, <2>7, OneOnTop
  <2> HIDE DEF u
  <2>12. Remembers(u, s) /\ LocksOK(os') /\ CallsKept(os', os) /\ HandedOver(os', u)
    BY <1>2, <1>5, <2>2, <2>6, <2>7, <2>11 DEF Remembers, Quiet, HandedOver, Owned
  <2> QED
    BY <1>1, <2>1, <2>10, <2>12, CallSteps DEF s
<1> QED
  BY <1>6, <1>7

(* One turn of the loop of PropagateMutexOwnerPriority.                    *)
LEMMA PropagateTurnLocks ==
  ASSUME LockInv, PropagateTurn
  PROVE  LockInv'
<1> DEFINE s == stack[exec]
           r == Tail(s)
           t == Top.obj
           p == ComputeThreadEffectivePriority(os, t)
<1>1. /\ IInv' /\ s # << >> /\ Top.fn = "propagate" /\ t \in Threads \cup {NULL}
  BY TheLocks, PropagateTurnStep, InsideTop, TopOK DEF PropagateTurn, FrameOK
<1>2. /\ s \in Seq(Frames) /\ Top = Head(s) /\ CallsOK(os, exec, s) /\ Owned(os)
      /\ HasNo(r, Transient)
  BY <1>1, TheLocks, Untouched DEF Top
<1>3. os' \in OsMemory
  BY <1>1 DEF IInv, MemoryOK, ListsOK
<1>4. CASE t = NULL \/ os.susp[t] > 0 \/ os.prio[t] = p
  <2>1. UNCHANGED os /\ Continue(<< >>)
    BY <1>4 DEF PropagateTurn
  <2> QED
    BY <1>1, <1>2, <2>1, FewCalls, NothingChanges, QuietContinues
<1>5. CASE ~(t = NULL \/ os.susp[t] > 0 \/ os.prio[t] = p)
  <2> DEFINE f == Frame("propagate", NextOwner(os, t), 0)
             u == << f >> \o r
  <2>1. /\ os' = SetThreadEffectivePriority(os, t, p)
        /\ stack' = [stack EXCEPT ![exec] = u] /\ exec' = exec
    BY <1>5 DEF PropagateTurn, Continue
  <2>2. Head(s).fn = "propagate" /\ r # << >> /\ Head(r).fn = "resched"
    BY <1>1, <1>2 DEF CallsOK
  <2>3. t \in Threads
    BY <1>1, <1>5
  <2>4. p \in Prios
    BY <2>3, TheLocks, EffectivePriority
  <2> HIDE DEF s, t, p
  <2>5. r \in Seq(Frames) /\ \A fns : HasNo(s, fns) <=> Head(s).fn \notin fns /\ HasNo(r, fns)
    BY <1>1, <1>2, TopAndRest
  <2> HIDE DEF r
  <2>6. os.susp[t] = 0
    BY <1>5, <2>3, TheLocks DEF OsMemory
  <2>7. Adjusted(os', os, t, p) /\ QueuesOrdered(os')
    BY <2>1, <2>3, <2>4, <2>6, TheLocks, SetPriorityEffect
  <2>8. Quiet(os', os)
    BY <1>3, <2>3, <2>6, <2>7, TheLocks, AdjustedIsQuiet
  <2>9. f \in Frames /\ f.fn = "propagate"
    BY <2>3, SmallNumbers, TheLocks, Owners, OwnerCalls DEF FrameOK
  <2> HIDE DEF f
  <2>10. CallsOK(os', exec, u)
    BY <1>2, <2>2, <2>5, <2>9, PropagateCalls
  <2>11. \A fns : HasNo(u, fns) <=> f.fn \notin fns /\ HasNo(r, fns)
    BY <2>5, <2>9, OneOnTop
  <2> HIDE DEF u
  <2>12. Remembers(u, s) /\ LocksOK(os') /\ CallsKept(os', os) /\ HandedOver(os', u)
    BY <1>2, <2>2, <2>5, <2>8, <2>9, <2>11 DEF Remembers, Quiet, HandedOver, Owned
  <2> QED
    BY <1>1, <2>1, <2>10, <2>12, CallSteps DEF s
<1> QED
  BY <1>4, <1>5

(* A mutex is unlocked: its waiters are going to be woken.                 *)
LEMMA UnlockMutexLocks ==
  ASSUME LockInv, NEW m \in Mutexes, OSUnlockMutex(m)
  PROVE  LockInv'
<1> DEFINE s == stack[exec]
           f == WakeCall(m)
<1>1. /\ IInv' /\ AtGuest /\ os.running # NULL /\ os.owner[m] = os.running
      /\ os' = Release(os, m, os.running)
      /\ Push(IF os.count[m] = 1 THEN << f >> ELSE << >>)
  BY TheLocks, UnlockMutexStep DEF OSUnlockMutex, May
<1>2. os.running = exec /\ os.state[exec] = "RUNNING"
  <2>1. Live(os, exec, s)
    BY <1>1, TheLocks, RunningIsLive
  <2> QED
    BY <1>1, <2>1, GuestRuns DEF Live
<1>3. s \in Seq(Frames) /\ HasNo(s, Transient) /\ Owned(os)
  BY <1>1, NothingHalfDone
<1>4. os' \in OsMemory
  BY <1>1 DEF IInv, MemoryOK, ListsOK
<1>5. Released(os', os, m, exec) /\ HoldersOK(os')
  BY <1>1, <1>2, TheLocks, ReleaseEffect
<1>6. \A q \in Waitables : ~In(os, exec, q)
  BY <1>2, TheLocks, WaitersOnly
<1>7. /\ os'.queue = os.queue /\ os'.state = os.state /\ os'.susp = os.susp
      /\ os'.waitsOn = os.waitsOn
      /\ \A t \in Threads : t # exec => os'.prio[t] = os.prio[t]
  <2>1. os.prio \in [Threads -> Prios \cup {SuspendedWaitPriority}]
    BY TheLocks DEF OsMemory
  <2> QED
    BY <1>5, <2>1 DEF Released
<1>8. LocksOK(os')
  BY <1>2, <1>4, <1>5, <1>6, <1>7, TheLocks, HandsChanged
<1>9. CallsKept(os', os)
  BY <1>5 DEF Released, SameParks, CallsKept
<1>10. CASE os.count[m] = 1
  <2> DEFINE u == << f >> \o s
  <2>1. stack' = [stack EXCEPT ![exec] = u] /\ exec' = exec
    BY <1>1, <1>10 DEF Push
  <2>2. f \in Frames /\ f.fn = "wake" /\ f.obj = m
    <3>1. m \in Waitables
      BY DEF Waitables
    <3> QED
      BY <3>1, QueueCalls, TheLocks DEF FrameOK, WakeCall, Frame
  <2>3. os'.owner = [os.owner EXCEPT ![m] = NULL]
    BY <1>5, <1>10 DEF Released
  <2> HIDE DEF f, s
  <2>4. os'.owner[m] = NULL /\ \A n \in Mutexes : n # m => os'.owner[n] = os.owner[n]
    BY <2>3, TheLocks DEF OsMemory
  <2>5. f.obj \in Mutexes => os'.owner[f.obj] = NULL
    BY <2>2, <2>4
  <2>6. CallsOK(os', exec, u)
    BY <1>3, <2>2, <2>5, WakeCalls
  <2>7. u # << >> /\ Head(u) = f /\ \A fns : HasNo(u, fns) <=> f.fn \notin fns /\ HasNo(s, fns)
    BY <1>3, <2>2, OneOnTop
  <2> HIDE DEF u
  <2>8. HandedOver(os', u) /\ Remembers(u, s)
    BY <1>3, <1>7, <2>2, <2>4, <2>7 DEF HandedOver, Owned, Remembers
  <2> QED
    BY <1>1, <1>8, <1>9, <2>1, <2>6, <2>8, CallSteps DEF s
<1>11. CASE os.count[m] # 1
  <2>1. Push(<< >>) /\ os'.owner = os.owner
    BY <1>1, <1>5, <1>11 DEF Released
  <2>2. Quiet(os', os)
    BY <1>7, <1>8, <1>9, <2>1 DEF Quiet, Owned
  <2> QED
    BY <1>1, <2>1, <2>2, FewCalls, QuietPushes
<1> QED
  BY <1>10, <1>11

(* Raising or lowering the disable count disturbs nothing.                 *)
LEMMA DisableIsQuiet ==
  ASSUME LockInv, IInv', NEW n, os' = [os EXCEPT !.disable = n]
  PROVE  Quiet(os', os)
<1>1. os' \in OsMemory
  BY DEF IInv, MemoryOK, ListsOK
<1>2. Steady(os', os)
  BY TheLocks DEF Steady, OsMemory
<1> QED
  BY <1>1, <1>2, TheLocks, SteadyIsQuiet

LEMMA BeginCallbacksLocks ==
  ASSUME LockInv, BeginDeferredGuestCallbacks
  PROVE  LockInv'
<1> DEFINE f == Callback
           n == os.disable + 1
<1>1. /\ IInv'
      /\ AtGuest \/ Inside("idle")
      /\ os' = [os EXCEPT !.disable = n] /\ Push(<< f >>)
  BY TheLocks, BeginCallbacksStep DEF BeginDeferredGuestCallbacks
<1>2. f \in Frames /\ f.fn \notin Transient
  BY KernelCalls DEF FrameOK, Transient
<1> HIDE DEF f, n
<1>3. Quiet(os', os)
  BY <1>1, DisableIsQuiet
<1> QED
  BY <1>1, <1>2, <1>3, FewCalls, QuietPushes

LEMMA EndCallbacksLocks ==
  ASSUME LockInv, NEW flush \in BOOLEAN, EndDeferredGuestCallbacks(flush)
  PROVE  LockInv'
<1> DEFINE f == ReschedCall
           cs == IF flush THEN << f >> ELSE << >>
           n == IF os.disable = 0 THEN 0 ELSE os.disable - 1
<1>1. /\ IInv' /\ stack[exec] # << >> /\ Top.fn = "callback"
      /\ os' = [os EXCEPT !.disable = n] /\ Continue(cs)
  BY TheLocks, EndCallbacksStep, InsideTop DEF EndDeferredGuestCallbacks
<1>2. f \in Frames /\ f.fn \notin Transient
  BY KernelCalls DEF FrameOK, Transient
<1> HIDE DEF f, n
<1>3. Quiet(os', os)
  BY <1>1, DisableIsQuiet
<1>4. cs \in Seq(Frames) /\ HasNo(cs, Transient)
  BY <1>2, FewCalls
<1> HIDE DEF cs
<1> QED
  BY <1>1, <1>3, <1>4, Untouched, QuietContinues

-----------------------------------------------------------------------------
(* The second inductive invariant.                                         *)

LEMMA LocksLive ==
  ASSUME LockInv
  PROVE  /\ ~UnlockAllTurn /\ ~ExitTail /\ ~JoinTail /\ ~OSExitThread
         /\ \A t \in Threads, d \in BOOLEAN : ~OSCreateThread(t, d)
         /\ \A t \in Threads : ~OSCancelThread(t) /\ ~OSJoinThread(t) /\ ~OSDetachThread(t)
BY TheLocks, NoLifeCycle

LEMMA LocksInductive == LockInv /\ [Next]_vars => LockInv'
<1> SUFFICES ASSUME LockInv, [Next]_vars PROVE LockInv'
  OBVIOUS
<1>1. IInv /\ IInv'
  BY TheLocks, SyncInductive
<1>2. CASE UNCHANGED vars
  <2>1. UNCHANGED os /\ UNCHANGED stack /\ UNCHANGED exec
    BY <1>2 DEF vars
  <2>2. SyncInstance'
    BY TheLocks DEF SyncInstance, Mortal
  <2> QED
    BY <1>1, <2>1, <2>2 DEF LockInv
<1>3. CASE KernelStep
  BY <1>3, ProcessSleepTimersLocks, SelectReturnsLocks, SelectSwitchesLocks,
     SelectIdlesLocks, IdleEventLocks, IdleEndsLocks, WakeupQueueLocks, SleepBeginsLocks,
     SleepReturnsLocks, LockTurnLocks, PromoteTurnLocks, PropagateTurnLocks,
     ReschedTailLocks, TicksTailLocks, LocksLive, Zenon DEF KernelStep
<1>4. CASE GuestStep
  BY <1>4, WakeupThreadLocks, SleepThreadLocks, LockMutexLocks, UnlockMutexLocks,
     SuspendThreadLocks, ResumeThreadLocks, YieldThreadLocks, SleepTicksLocks,
     BeginCallbacksLocks, EndCallbacksLocks, LocksLive, Zenon DEF GuestStep
<1> QED
  BY <1>2, <1>3, <1>4 DEF Next

LEMMA LocksInitial == SyncInstance /\ Init => LockInv
<1> SUFFICES ASSUME SyncInstance, Init PROVE LockInv
  OBVIOUS
<1>1. IInv
  BY Initial DEF SyncInstance, LifeInstance
<1>2. /\ os.state = [t \in Threads |-> CASE t = Main -> "RUNNING"
                                         [] t \in InitLive \ {Main} -> "READY"
                                         [] OTHER -> "NONE"]
      /\ os.owner = [m \in Mutexes |-> NULL] /\ os.waitsOn = [t \in Threads |-> NULL]
      /\ os.held = [t \in Threads |-> << >>] /\ os.queue = [q \in Queues |-> << >>]
      /\ os.parks = {}
      /\ exec = Main /\ Main \in Threads /\ stack = [t \in Threads |-> << >>]
  BY OsConstants DEF Init
<1>3. /\ \A t \in Threads : os.state[t] # "WAITING" /\ os.waitsOn[t] = NULL /\ os.held[t] = << >>
      /\ \A t \in Threads : stack[t] = << >>
      /\ \A m \in Mutexes : os.owner[m] = NULL /\ os.queue[m] = << >>
      /\ \A q \in Waitables : os.queue[q] = << >>
      /\ os.state[exec] = "RUNNING" /\ exec \in Threads
  BY <1>2 DEF Queues, Waitables
<1>4. \A t \in Threads, q \in Waitables : ~In(os, t, q)
  BY <1>3 DEF In, ToSet
<1>5. QueuesOrdered(os)
  BY <1>3 DEF QueuesOrdered, Sorted
<1>6. HoldersOK(os)
  <2>1. \A t \in Threads : IsInjective(os.held[t])
    BY <1>3 DEF IsInjective
  <2>2. \A t \in Threads, m \in Mutexes : m \notin ToSet(os.held[t]) /\ os.owner[m] # t
    BY <1>3, OsConstants DEF ToSet
  <2> QED
    BY <1>3, <2>1, <2>2 DEF HoldersOK
<1>7. \A t \in Threads : WaiterOK(os, t)
  BY <1>3, <1>4 DEF WaiterOK, Waitables
<1>8. \A t \in Threads : FiberOK(os, t, stack[t]) /\ HasNo(stack[t], Transient)
  BY <1>2, <1>3 DEF FiberOK, HasNo
<1>9. HandedOver(os, stack[exec]) /\ CallsOK(os, exec, stack[exec])
  BY <1>3 DEF HandedOver, CallsOK
<1> QED
  BY <1>1, <1>3, <1>5, <1>6, <1>7, <1>8, <1>9 DEF LockInv, LocksOK

(* In every instance without the life-cycle calls the wait queues, the     *)
(* mutexes with their owners and waiters, the parks, and the calls under   *)
(* way that edit them agree, between any two steps of any call.            *)
THEOREM LocksAgree == SyncInstance => (Spec => []LockInv)
BY LocksInitial, LocksInductive, PTL DEF Spec

(* A thread in a wait queue is WAITING there, linked once, strongest       *)
(* priority first, however often waiters are promoted, suspended and       *)
(* resumed in the queue.                                                   *)
THEOREM WaitQueuesInOrder == SyncInstance => (Spec => []WaitQueuesOK)
<1>1. LockInv => WaitQueuesOK
  <2> SUFFICES ASSUME LockInv, NEW q \in Waitables
               PROVE  /\ IsInjective(os.queue[q])
                      /\ \A i \in DOMAIN os.queue[q] :
                            os.state[os.queue[q][i]] = "WAITING" /\ os.qptr[os.queue[q][i]] = q
                      /\ \A i, j \in DOMAIN os.queue[q] :
                            i < j => os.prio[os.queue[q][i]] <= os.prio[os.queue[q][j]]
    BY DEF WaitQueuesOK
  <2> DEFINE s == os.queue[q]
  <2>1. q \in Queues /\ ListsOK(os) /\ s \in Seq(Threads) /\ IsInjective(s)
    BY TheLocks DEF Queues, MemoryOK, ListsOK, OsMemory
  <2>2. ASSUME NEW i \in DOMAIN s PROVE os.state[s[i]] = "WAITING" /\ os.qptr[s[i]] = q
    <3>1. s[i] \in Threads /\ s[i] \in ToSet(s)
      BY <2>1, <2>2, ElementOfSeq, LenProperties DEF ToSet
    <3>2. In(os, s[i], q) /\ ThreadOK(os, s[i])
      BY <3>1, TheLocks DEF In, MemoryOK
    <3> QED
      BY <2>1, <3>2 DEF ThreadOK
  <2>3. Sorted(os, s)
    BY TheLocks DEF QueuesOrdered
  <2> QED
    BY <2>1, <2>2, <2>3 DEF Sorted
<1> QED
  BY <1>1, LocksAgree, PTL

(* A mutex has a count, an owner and a place on that owner's list or none  *)
(* of them, and no unlock forgets the threads that wait for it.            *)
THEOREM MutexesConsistent == SyncInstance => (Spec => []MutexesOK)
<1>1. LockInv => MutexesOK
  <2> SUFFICES ASSUME LockInv, NEW m \in Mutexes
               PROVE  /\ os.owner[m] = NULL <=> os.count[m] = 0
                      /\ \A t \in Threads : m \in ToSet(os.held[t]) <=> os.owner[m] = t
                      /\ os.queue[m] # << >> =>
                           os.owner[m] # NULL \/ (Inside("wake") /\ Top.obj = m)
    BY DEF MutexesOK
  <2>1. os.owner[m] = NULL <=> os.count[m] = 0
    BY TheLocks DEF MemoryOK, ListsOK
  <2>2. \A t \in Threads : m \in ToSet(os.held[t]) <=> os.owner[m] = t
    BY TheLocks DEF HoldersOK
  <2>3. os.queue[m] # << >> => os.owner[m] # NULL \/ (Inside("wake") /\ Top.obj = m)
    BY TheLocks DEF HandedOver, Inside, Top
  <2> QED
    BY <2>1, <2>2, <2>3
<1> QED
  BY <1>1, LocksAgree, PTL

(* Every thread in the table of parks is still inside the OSSleepTicks     *)
(* that put it there, suspended, with its timer armed.                     *)
THEOREM ParksHaveSleepers == SyncInstance => (Spec => []ParksAreSleepers)
<1>1. LockInv => ParksAreSleepers
  <2> SUFFICES ASSUME LockInv, NEW t \in os.parks
               PROVE  /\ \E i \in DOMAIN stack[t] : stack[t][i].fn = "ticks"
                      /\ t \in os.timers /\ os.susp[t] > 0
    BY DEF ParksAreSleepers
  <2>1. t \in Threads
    BY TheLocks DEF OsMemory
  <2> QED
    BY <2>1, TheLocks DEF FiberOK, HasNo
<1> QED
  BY <1>1, LocksAgree, PTL
=============================================================================
