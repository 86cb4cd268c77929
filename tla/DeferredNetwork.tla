-------------------------- MODULE DeferredNetwork --------------------------
(***************************************************************************)
(* Network requests that must not block the emulation thread               *)
(* (hle/net/network_deferred.cpp): a lookup on a host worker, a poll or a  *)
(* connect probed by the completion pump.  The requester waits on a guest  *)
(* queue in its own stack frame, or gives a callback that the callback     *)
(* queue of hle/storage/nand_async.cpp runs later.  Threads are cancelled, *)
(* their structures and stacks reused, sockets closed and their slots      *)
(* reused, all while a request is under way.                               *)
(*                                                                         *)
(* Everything but the worker runs on the emulation thread: a submission,   *)
(* a run of the pump and a callback are steps of their own.                *)
(***************************************************************************)
EXTENDS Naturals, Sequences, FiniteSets

CONSTANTS Threads,         \* guest threads, each with the frame its requests wait in
          Sockets,         \* slots of g_sockets
          MaxRequests,     \* bound: requests issued
          MaxGeneration,   \* bound: sockets opened
          CallbacksPerPump \* maxCallbacksThisPump

ASSUME NetAssumption ==
  MaxRequests \in Nat /\ MaxGeneration \in Nat /\ CallbacksPerPump \in Nat \ {0}

VARIABLES
  state,        \* of a thread; "waits" in its frame, "sleeps" on another queue
  token,        \* StartOutcome::token of the request it waits for
  cookie,       \* the word after the wait queue in its frame
  nextToken,
  work,         \* workers, completed, pendingPolls and pendingConnects
  syncResults,  \* the tokens that have a result
  generation, nextGeneration, \* of the socket in a slot; 0: the slot is free
  peer,         \* generation of the socket a slot's peer address was set for
  callbacks,    \* g_pendingNandCallbacks
  processed,    \* g_nandCallbackDrainDepth: 0, or callbacks run in this drain, and one
  issued,       \* history: the requests made with a callback
  calls         \* history: how often a request's callback ran

threads == <<state, token, cookie>>
sockets == <<generation, nextGeneration, peer>>
callbackQueue == <<callbacks, processed>>
requests == <<nextToken, work, syncResults>>
netHistory == <<issued, calls>>
dvars == <<threads, requests, sockets, callbackQueue, netHistory>>

Tokens == 1..MaxRequests
Generations == 0..MaxGeneration
Kinds == {"dns", "poll", "connect"}
NoSocket == "no socket"
Work == [token : Tokens, kind : Kinds, thread : Threads, sync : BOOLEAN,
         socket : Sockets \cup {NoSocket}, generation : Generations,
         result : {"none", "ok", "error"}, expired : BOOLEAN]

NetInit ==
  /\ state = [t \in Threads |-> "runs"] /\ token = [t \in Threads |-> 0]
  /\ cookie = [t \in Threads |-> 0]
  /\ nextToken = 1 /\ work = {} /\ syncResults = {}
  /\ generation = [s \in Sockets |-> 0] /\ nextGeneration = 1
  /\ peer = [s \in Sockets |-> 0]
  /\ callbacks = <<>> /\ processed = 0
  /\ issued = {} /\ calls = [r \in Tokens |-> 0]

\* Guest code of a thread runs outside callbacks.
Runs(t) == state[t] = "runs" /\ processed = 0

\* SocketIdentityIsCurrent.
SocketIdentityIsCurrent(w) ==
  w.generation # 0 /\ generation[w.socket] = w.generation

-----------------------------------------------------------------------------
(* Submission.                                                             *)

\* StartDeferred, Install: a connect is issued to the host at once, and may have
\* its result at once.
Install(kind, t, s, sync) ==
  /\ kind = "connect" => generation[s] # 0
  /\ \E result \in {"none", "ok", "error"} :
       /\ result # "none" => kind = "connect"
       /\ work' = work \cup
            {[token |-> nextToken, kind |-> kind, thread |-> t, sync |-> sync,
              socket |-> IF kind = "dns" THEN NoSocket ELSE s,
              generation |-> IF kind = "dns" THEN 0 ELSE generation[s],
              result |-> result, expired |-> FALSE]}

\* InitializeDeferredSyncRoute: the token goes into the frame before the request
\* does.  A request that cannot be installed is answered at once.
StartSync(t, kind, s) ==
  /\ Runs(t) /\ nextToken <= MaxRequests
  /\ cookie' = [cookie EXCEPT ![t] = nextToken]
  /\ nextToken' = nextToken + 1
  /\ \/ /\ Install(kind, t, s, TRUE)
        /\ state' = [state EXCEPT ![t] = "waits"]
        /\ token' = [token EXCEPT ![t] = nextToken]
     \/ kind = "dns" /\ UNCHANGED <<work, state, token>>
  /\ UNCHANGED <<syncResults, sockets, callbackQueue, netHistory>>

\* TryDeferredNetworkAsync, of a thread or of a callback.  A request that cannot be
\* prepared or installed has its answer at once: CompleteAsync queues the callback.
StartAsync(t, kind, s) ==
  /\ state[t] = "runs" \/ processed > 0
  /\ nextToken <= MaxRequests
  /\ \/ Install(kind, t, s, FALSE) /\ UNCHANGED callbacks
     \/ callbacks' = Append(callbacks, nextToken) /\ UNCHANGED work
  /\ nextToken' = nextToken + 1 /\ issued' = issued \cup {nextToken}
  /\ UNCHANGED <<threads, syncResults, sockets, processed, calls>>

-----------------------------------------------------------------------------
(* The wait.                                                               *)

\* FinishDeferredIosWait, Network_HLE_TakeSyncResult.
Resume(t) ==
  /\ state[t] = "ready" /\ processed = 0
  /\ syncResults' = syncResults \ {token[t]}
  /\ state' = [state EXCEPT ![t] = "runs"] /\ token' = [token EXCEPT ![t] = 0]
  /\ UNCHANGED <<cookie, nextToken, work, sockets, callbackQueue, netHistory>>

\* A sleep that cannot park takes the thread off the queue again: no result, -101.
GiveUp(t) ==
  /\ state[t] = "waits" /\ processed = 0
  /\ state' = [state EXCEPT ![t] = "runs"] /\ token' = [token EXCEPT ![t] = 0]
  /\ UNCHANGED <<cookie, requests, sockets, callbackQueue, netHistory>>

\* OSCancelThread, and a new thread on the same structure and stack.
CancelAndReuse(t) ==
  /\ state[t] \in {"waits", "ready"} /\ processed = 0
  /\ state' = [state EXCEPT ![t] = "runs"] /\ token' = [token EXCEPT ![t] = 0]
  /\ UNCHANGED <<cookie, requests, sockets, callbackQueue, netHistory>>

\* The thread sleeps for another reason, and wakes.
SleepElsewhere(t) ==
  /\ \/ Runs(t) /\ state' = [state EXCEPT ![t] = "sleeps"]
     \/ state[t] = "sleeps" /\ state' = [state EXCEPT ![t] = "runs"]
  /\ UNCHANGED <<token, cookie, requests, sockets, callbackQueue, netHistory>>

-----------------------------------------------------------------------------
(* Sockets.                                                                *)

\* AddWiiSocket; ReconnectWiiSocket, to the peer the slot knows, under a new host socket.
OpenSocket(s) ==
  /\ nextGeneration <= MaxGeneration
  /\ generation[s] = 0 \/ peer[s] # 0
  /\ generation' = [generation EXCEPT ![s] = nextGeneration]
  /\ nextGeneration' = nextGeneration + 1
  /\ peer' = IF generation[s] = 0 THEN peer ELSE [peer EXCEPT ![s] = nextGeneration]
  /\ UNCHANGED <<threads, requests, callbackQueue, netHistory>>

\* DeleteWiiSocket, AbortPendingDeferredConnects.
CloseSocket(s) ==
  /\ generation[s] # 0
  /\ generation' = [generation EXCEPT ![s] = 0] /\ peer' = [peer EXCEPT ![s] = 0]
  /\ work' = {IF w.kind = "connect" /\ w.socket = s /\ w.result = "none"
                THEN [w EXCEPT !.result = "error"] ELSE w : w \in work}
  /\ UNCHANGED <<threads, nextToken, syncResults, nextGeneration, callbackQueue, netHistory>>

-----------------------------------------------------------------------------
(* Completion.                                                             *)

\* ResolveDeferredDns on its worker, and QueueDeferredDnsCompletion.
Resolve(w) ==
  /\ w.kind = "dns" /\ w.result = "none"
  /\ \E result \in {"ok", "error"} :
       work' = (work \ {w}) \cup {[w EXCEPT !.result = result]}
  /\ UNCHANGED <<threads, nextToken, syncResults, sockets, callbackQueue, netHistory>>

\* The deadline of a poll or a connect passes.
Expire(w) ==
  /\ w.kind # "dns" /\ ~w.expired
  /\ work' = (work \ {w}) \cup {[w EXCEPT !.expired = TRUE]}
  /\ UNCHANGED <<threads, nextToken, syncResults, sockets, callbackQueue, netHistory>>

\* Mutant: the frame's cookie is not compared.
WaiterIsValid_NoCookie(w) == state[w.thread] = "waits"

\* DeferredNetworkWaiterIsValid.
WaiterIsValid(w) == state[w.thread] = "waits" /\ cookie[w.thread] = w.token

\* Mutant: sockets that are gone are passed over.
ProbePoll_SkipsDead(w) ==
  IF SocketIdentityIsCurrent(w) THEN {"ok", "error"} \cup (IF w.expired THEN {} ELSE {"none"})
  ELSE IF w.expired THEN {"ok"} ELSE {"none"}

\* ProbeNow, ShouldRemainPending.  A socket that is gone counts as ready.
ProbePoll(w) ==
  IF SocketIdentityIsCurrent(w) THEN {"ok", "error"} \cup (IF w.expired THEN {} ELSE {"none"})
  ELSE {"ok"}

\* Mutant: a connect that succeeded at once is not checked again.
ProbeConnect_Trusts(w) ==
  IF w.result # "none" THEN {w.result}
  ELSE IF ~SocketIdentityIsCurrent(w) THEN {"error"}
  ELSE {"ok", "error"} \cup (IF w.expired THEN {} ELSE {"none"})

\* ProbeDeferredConnect, ClassifyProbe, and the second look at a success.
ProbeConnect(w) ==
  IF w.result = "error" \/ ~SocketIdentityIsCurrent(w) THEN {"error"}
  ELSE IF w.result = "ok" THEN {"ok"}
  ELSE {"ok", "error"} \cup (IF w.expired THEN {} ELSE {"none"})

Probe(w) ==
  CASE w.kind = "dns" -> {w.result}
    [] w.kind = "poll" -> ProbePoll(w)
    [] w.kind = "connect" -> ProbeConnect(w)

\* The requests left after a run of the pump.
Remaining(answered, dropped) == work \ (answered \cup dropped)

\* Network_HLE_ProcessCompletions.  The callbacks of one run are queued in an
\* order of the lists they come from, here any order.
ProcessCompletions ==
  /\ UNCHANGED <<token, cookie, nextToken, generation, nextGeneration, processed, netHistory>>
  /\ work # {}
  /\ \E answer \in [work -> {"none", "ok", "error"}] :
      LET dropped == {w \in work : /\ w.sync /\ ~WaiterIsValid(w)
                                   /\ w.kind = "dns" => w.result # "none"}
          answered == {w \in work \ dropped : answer[w] # "none"}
          woken == {w.thread : w \in {w \in answered : w.sync}}
          queued == {w.token : w \in {w \in answered : ~w.sync}}
          connected(s) == {w \in answered : w.kind = "connect" /\ w.socket = s /\ answer[w] = "ok"}
      IN  /\ \A w \in work : answer[w] \in Probe(w)
          /\ answered \cup dropped # {}
          /\ work' = Remaining(answered, dropped)
          /\ syncResults' = syncResults \cup {w.token : w \in {w \in answered : w.sync}}
          /\ state' = [t \in Threads |-> IF t \in woken THEN "ready" ELSE state[t]]
          /\ \E order \in [1..Cardinality(queued) -> queued] :
               /\ queued = {order[i] : i \in DOMAIN order}
               /\ callbacks' = callbacks \o order
          /\ peer' = [s \in Sockets |->
                        IF connected(s) = {} THEN peer[s]
                        ELSE (CHOOSE w \in connected(s) : TRUE).generation]

\* NandProcessPendingCallbacks: one callback after the other, none nested.
RunCallback ==
  /\ callbacks # <<>> /\ processed <= CallbacksPerPump
  /\ callbacks' = Tail(callbacks)
  /\ calls' = [calls EXCEPT ![Head(callbacks)] = @ + 1]
  /\ processed' = IF processed = 0 THEN 2 ELSE processed + 1
  /\ UNCHANGED <<threads, requests, sockets, issued>>

\* Mutant: what a drain does not get to is forgotten with it.
DrainEnds_DropsRest ==
  /\ processed > CallbacksPerPump \/ (processed > 0 /\ callbacks = <<>>)
  /\ processed' = 0 /\ callbacks' = <<>>
  /\ UNCHANGED <<threads, requests, sockets, netHistory>>

\* The limit of a drain leaves the rest of the queue to the next one.
DrainEnds ==
  /\ processed > CallbacksPerPump \/ (processed > 0 /\ callbacks = <<>>)
  /\ processed' = 0
  /\ UNCHANGED <<threads, requests, sockets, callbacks, netHistory>>

-----------------------------------------------------------------------------
\* The idle loop runs the pump and then the callbacks, turn after turn; a resolver
\* answers in the end, and a connect has a deadline (a poll may have none).
Pump == RunCallback \/ DrainEnds \/ ProcessCompletions
Elapse == \E w \in work : Resolve(w) \/ (w.kind = "connect" /\ Expire(w))

NetNext ==
  \/ \E t \in Threads :
       \/ \E kind \in Kinds, s \in Sockets : StartSync(t, kind, s) \/ StartAsync(t, kind, s)
       \/ Resume(t) \/ GiveUp(t) \/ CancelAndReuse(t) \/ SleepElsewhere(t)
  \/ \E s \in Sockets : OpenSocket(s) \/ CloseSocket(s)
  \/ \E w \in work : Resolve(w) \/ Expire(w)
  \/ Pump

NetFairness == WF_dvars(Pump) /\ WF_dvars(Elapse)

NetSpec == NetInit /\ [][NetNext]_dvars /\ NetFairness

-----------------------------------------------------------------------------
NetTypeOK ==
  /\ state \in [Threads -> {"runs", "waits", "ready", "sleeps"}]
  /\ token \in [Threads -> 0..MaxRequests] /\ cookie \in [Threads -> 0..MaxRequests]
  /\ nextToken \in 1..(MaxRequests + 1)
  /\ work \subseteq Work /\ syncResults \subseteq Tokens
  /\ generation \in [Sockets -> Generations] /\ peer \in [Sockets -> Generations]
  /\ nextGeneration \in 1..(MaxGeneration + 1)
  /\ callbacks \in Seq(Tokens) /\ processed \in 0..(CallbacksPerPump + 1)
  /\ issued \subseteq Tokens /\ calls \in [Tokens -> Nat]

\* A thread that the pump made ready finds the result of its own request, not of
\* one a former thread on its stack, or it itself, had given up.
OwnAnswer == \A t \in Threads : state[t] = "ready" => token[t] \in syncResults

Queued(r) == Cardinality({i \in DOMAIN callbacks : callbacks[i] = r})
UnderWay(r) == Cardinality({w \in work : w.token = r /\ ~w.sync})

\* A request with a callback is never lost and never answered twice: at any time
\* it is under way, or its callback is queued, or has run, and just one of these.
\* No other request calls back.
CallsBackOnce ==
  \A r \in Tokens :
    UnderWay(r) + Queued(r) + calls[r] = IF r \in issued THEN 1 ELSE 0

\* The peer address of a socket was set by a connect of that socket, not of one
\* that had its slot before.
PeerIsOwn == \A s \in Sockets : peer[s] \in {0, generation[s]}

\* A poll of a live socket may last until its deadline, if it has one.
MayLast(w) == w.kind = "poll" /\ SocketIdentityIsCurrent(w) /\ ~w.expired

\* Again and again all that is owed is answered: what is still under way is a poll
\* of a live socket, no callback is queued, and no thread waits for a request that
\* is gone.
Settles ==
  []<>(/\ callbacks = <<>>
       /\ \A w \in work : MayLast(w)
       /\ \A t \in Threads : state[t] = "waits" => \E w \in work : w.token = token[t])
=============================================================================
