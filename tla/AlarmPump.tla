------------------------------ MODULE AlarmPump ------------------------------
(***************************************************************************)
(* The pump of hle/os/os_alarm.cpp: due alarms, then queued NAND and IOS   *)
(* callbacks; and the retraces of hle/vi.cpp.  Handlers and callbacks are  *)
(* guest code that runs on top of whatever thread called the pump, and     *)
(* makes calls of its own.  Three guards keep the pumps from nesting.      *)
(* They belong to the host thread, which all fibers share, and a handler   *)
(* or callback that wakes a stronger thread makes the pump switch fibers.  *)
(*                                                                         *)
(* The scheduler is reduced to what the pumps see of it (GuestScheduler    *)
(* has the rest): each fiber runs, is ready, or waits for an event or a    *)
(* retrace.  A smaller number is a stronger fiber.  The build is the       *)
(* default one, without new_rfl_pump.flag.                                 *)
(***************************************************************************)
EXTENDS Naturals, Sequences, SequencesExt

CONSTANTS OSAlarms, Fibers,
          MaxTicks,      \* bound on a delay and on a period
          PumpLimit,     \* maxToProcess
          InterruptOps,  \* bound on the calls a handler or callback makes
          MaxNest        \* bound on the calls of pumps inside each other

ASSUME PumpAssumption ==
  /\ Fibers \subseteq Nat
  /\ {MaxTicks, PumpLimit, MaxNest} \subseteq Nat \ {0} /\ InterruptOps \in Nat

VARIABLES
  alarms,           \* the alarm queue
  left,             \* ticks until an alarm fires
  periodic, armed,  \* of an alarm: its period, its handler is not zero
  nandCallbacks,    \* g_pendingNandCallbacks is not empty
  exec, idling,     \* the fiber that executes; it is in the idle loop
  fiber,            \* state of each fiber
  resched, disable, \* the scheduler's reschedule request and disable count
  frames,           \* the pumps each fiber is inside, innermost first
  alarmGuard,       \* g_alarmProcessDepth
  drainGuard,       \* g_nandCallbackDrainDepth
  advancing         \* s_inAdvanceRetrace

alarmVars == <<alarms, left, periodic, armed>>
schedulerVars == <<exec, idling, fiber, resched>>
guards == <<alarmGuard, drainGuard, advancing>>
pumpVars == <<alarmVars, nandCallbacks, schedulerVars, disable, frames, guards>>

\* A pump under way: what it does, how many alarms or callbacks it may still
\* run, whether it holds the scheduler disabled, whether it owes a reschedule;
\* for guest code, the calls it may still make.
Interrupts == {"handler", "callback", "retrace"}
Frames == [at : Interrupts \cup {"alarms", "drain"}, turns : 0..PumpLimit,
           masked : BOOLEAN, done : BOOLEAN, ops : 0..InterruptOps]
Frame(place, masked) ==
  [at |-> place, turns |-> PumpLimit, masked |-> masked, done |-> FALSE,
   ops |-> IF place \in Interrupts THEN InterruptOps ELSE 0]

PumpInit ==
  /\ alarms = <<>> /\ left = [a \in OSAlarms |-> 0]
  /\ periodic = [a \in OSAlarms |-> FALSE] /\ armed = [a \in OSAlarms |-> FALSE]
  /\ nandCallbacks = FALSE
  /\ exec \in Fibers /\ idling = FALSE
  /\ fiber = [f \in Fibers |-> IF f = exec THEN "running" ELSE "event"]
  /\ resched = FALSE /\ disable = 0
  /\ frames = [f \in Fibers |-> <<>>]
  /\ alarmGuard = FALSE /\ drainGuard = FALSE /\ advancing = FALSE

Inside(place) == frames[exec] # <<>> /\ Head(frames[exec]).at = place
Top == Head(frames[exec])
WithTop(frame) == [frames EXCEPT ![exec] = <<frame>> \o Tail(@)]
Popped == [frames EXCEPT ![exec] = Tail(@)]
Masks(frame) == IF frame.masked THEN 1 ELSE 0

-----------------------------------------------------------------------------
(* The scheduler.                                                          *)

Ready(now) == {f \in Fibers : now[f] = "ready"}

\* Fiber f, the strongest one that is ready, runs from now on.
Dispatch(f, now) ==
  /\ f \in Ready(now) /\ \A g \in Ready(now) : f <= g
  /\ exec' = f /\ idling' = FALSE /\ resched' = FALSE
  /\ fiber' = [now EXCEPT ![f] = "running"]

Stay(now, request) == fiber' = now /\ resched' = request /\ UNCHANGED <<exec, idling>>

\* SelectThread(0) by a running thread, with the fibers as in now and that
\* disable count: in the idle loop, or with the scheduler disabled, it refuses.
SelectThread(now, count, request) ==
  IF ~idling /\ count = 0 /\ \E f \in Ready(now) : f < exec
    THEN \E f \in Fibers : Dispatch(f, [now EXCEPT ![exec] = "ready"])
    ELSE Stay(now, request)

\* RunDeferredReschedule.
RunDeferredReschedule(now, count, request) ==
  IF request /\ ~advancing THEN SelectThread(now, count, request)
  ELSE Stay(now, request)

\* Mutant: a switch in the middle of a retrace.
WakeupThread_InRetrace(f) ==
  LET now == [fiber EXCEPT ![f] = "ready"]
  IN  fiber[f] = "event" /\ SelectThread(now, disable, TRUE)

\* OSWakeupThread of the queue fiber f sleeps on.
WakeupThread(f) ==
  LET now == [fiber EXCEPT ![f] = "ready"]
  IN  /\ fiber[f] = "event"
      /\ IF advancing THEN Stay(now, TRUE) ELSE SelectThread(now, disable, TRUE)

\* OSSleepThread by the code of a thread; handlers and callbacks do not sleep.
OSSleepThread(on) ==
  LET now == [fiber EXCEPT ![exec] = on]
  IN  /\ ~idling /\ frames[exec] = <<>>
      /\ IF Ready(now) = {}
           THEN idling' = TRUE /\ fiber' = now /\ resched' = TRUE /\ UNCHANGED exec
           ELSE \E f \in Fibers : Dispatch(f, now)
      /\ UNCHANGED <<alarmVars, nandCallbacks, disable, frames, guards>>

\* The end of the idle loop.
IdleEnds ==
  /\ idling /\ frames[exec] = <<>>
  /\ \E f \in Fibers : Dispatch(f, fiber)
  /\ UNCHANGED <<alarmVars, nandCallbacks, disable, frames, guards>>

-----------------------------------------------------------------------------
(* Calls of guest code: of a thread, or of a handler or callback.          *)

AtThread == ~idling /\ frames[exec] = <<>>
AtInterrupt == frames[exec] # <<>> /\ Top.at \in Interrupts /\ Top.ops > 0

\* The frames of exec once its guest code has made a call.
Called == IF AtThread THEN frames[exec]
          ELSE <<[Top EXCEPT !.ops = @ - 1]>> \o Tail(frames[exec])
Call(pushed) ==
  /\ AtThread \/ AtInterrupt
  /\ pushed # <<>> => Len(frames[exec]) < MaxNest
  /\ frames' = [frames EXCEPT ![exec] = pushed \o Called]

\* InsertAlarm: before the first alarm that is due later, or at the end.
Inserted(a, ticks, queue) ==
  LET later == {i \in DOMAIN queue : ticks < left[queue[i]]}
  IN  InsertAt(queue, Min(later \cup {Len(queue) + 1}), a)

InQueue(a) == \E i \in DOMAIN alarms : alarms[i] = a

Arm(a, ticks, period) ==
  /\ ~InQueue(a)
  /\ alarms' = Inserted(a, ticks, alarms)
  /\ left' = [left EXCEPT ![a] = ticks]
  /\ periodic' = [periodic EXCEPT ![a] = period]
  /\ armed' = [armed EXCEPT ![a] = TRUE]
  /\ UNCHANGED <<nandCallbacks, schedulerVars, disable>>

\* The guest sets an alarm that is not queued: the code does not test it.
OSSetAlarm(a, ticks) ==
  Call(<<>>) /\ Arm(a, ticks, FALSE) /\ UNCHANGED guards

\* PPCMtdec, which InsertAlarm and OSCancelAlarm call when the head of the queue
\* has changed: OS_HLE_ProcessAlarms, refused inside another pump.
PPCMtdec(headChanged) ==
  IF headChanged /\ ~alarmGuard
    THEN Call(<<Frame("alarms", FALSE)>>) /\ alarmGuard' = TRUE /\ UNCHANGED <<drainGuard, advancing>>
    ELSE Call(<<>>) /\ UNCHANGED guards

OSSetPeriodicAlarm(a, ticks) ==
  Arm(a, ticks, TRUE) /\ PPCMtdec(Inserted(a, ticks, alarms)[1] = a)

\* OSCancelAlarm, the guest's own: an alarm without a handler is not queued.  The
\* period of an alarm that is not queued is of no use; it counts as none.
OSCancelAlarm(a) ==
  /\ armed[a]
  /\ \E i \in DOMAIN alarms :
       /\ alarms[i] = a /\ alarms' = RemoveAt(alarms, i)
       /\ PPCMtdec(i = 1 /\ Len(alarms) > 1)
  /\ armed' = [armed EXCEPT ![a] = FALSE] /\ left' = [left EXCEPT ![a] = 0]
  /\ periodic' = [periodic EXCEPT ![a] = FALSE]
  /\ UNCHANGED <<nandCallbacks, schedulerVars, disable>>

\* A NAND or IOS call with a callback.
NandQueueIosCallback ==
  /\ nandCallbacks' = TRUE
  /\ Call(<<>>)
  /\ UNCHANGED <<alarmVars, schedulerVars, disable, guards>>

OSWakeupThread(f) ==
  /\ Call(<<>>) /\ WakeupThread(f)
  /\ UNCHANGED <<alarmVars, nandCallbacks, disable, guards>>

-----------------------------------------------------------------------------
(* The pump.                                                               *)

\* Guest code, or a turn of the idle loop, calls a pump.
CallPump(place, masked) ==
  /\ \/ Call(<<Frame(place, masked)>>)
     \/ /\ idling /\ frames[exec] = <<>>
        /\ frames' = [frames EXCEPT ![exec] = <<Frame(place, masked)>>]
  /\ disable' = disable + Masks(Frame(place, masked))
  /\ UNCHANGED <<alarmVars, nandCallbacks>>

\* ProcessAlarmQueue; masked: OS_HLE_ProcessAlarmsDeferred.
ProcessAlarmQueue(masked) ==
  /\ ~alarmGuard /\ alarmGuard' = TRUE
  /\ CallPump("alarms", masked)
  /\ UNCHANGED <<schedulerVars, drainGuard, advancing>>

HeadIsDue == alarms # <<>> /\ left[Head(alarms)] = 0

\* Mutant: an alarm that is taken off the queue keeps its handler.
FireAlarm_KeepsHandler ==
  /\ Inside("alarms") /\ Top.turns > 0 /\ HeadIsDue
  /\ LET a == Head(alarms)
     IN  \/ /\ periodic[a]
            /\ \E ticks \in 1..MaxTicks :
                 /\ alarms' = Inserted(a, ticks, Tail(alarms))
                 /\ left' = [left EXCEPT ![a] = ticks]
         \/ ~periodic[a] /\ alarms' = Tail(alarms) /\ UNCHANGED left
  /\ disable' = disable + 1
  /\ frames' = [frames EXCEPT ![exec] = <<Frame("handler", FALSE)>> \o @]
  /\ UNCHANGED <<periodic, armed, nandCallbacks, schedulerVars, guards>>

\* The head of the queue is due: it is taken off, put back if it is periodic,
\* at the next point of its period, and its handler is called.
FireAlarm ==
  /\ Inside("alarms") /\ Top.turns > 0 /\ HeadIsDue
  /\ LET a == Head(alarms)
     IN  \/ /\ periodic[a]
            /\ \E ticks \in 1..MaxTicks :
                 /\ alarms' = Inserted(a, ticks, Tail(alarms))
                 /\ left' = [left EXCEPT ![a] = ticks]
            /\ UNCHANGED armed
         \/ /\ ~periodic[a]
            /\ alarms' = Tail(alarms) /\ armed' = [armed EXCEPT ![a] = FALSE]
            /\ UNCHANGED left
  /\ disable' = disable + 1
  /\ frames' = [frames EXCEPT ![exec] = <<Frame("handler", FALSE)>> \o @]
  /\ UNCHANGED <<periodic, nandCallbacks, schedulerVars, guards>>

\* The frames once the innermost guest code has returned to its pump, which
\* has one turn less.
Returned(reschedule) ==
  LET pump == frames[exec][2]
  IN  [frames EXCEPT ![exec] =
         <<[pump EXCEPT !.turns = @ - 1, !.done = @ \/ reschedule]>> \o Tail(Tail(@))]

\* Back from a handler the pump reschedules, its guard still raised.
HandlerReturns ==
  /\ Inside("handler")
  /\ disable' = disable - 1
  /\ frames' = Returned(FALSE)
  /\ RunDeferredReschedule(fiber, disable - 1, resched)
  /\ UNCHANGED <<alarmVars, nandCallbacks, guards>>

\* The pump returns to its caller, with a reschedule if a completion needs it.
Return(now, request, done) ==
  /\ frames' = Popped /\ disable' = disable - Masks(Top)
  /\ IF done THEN RunDeferredReschedule(now, disable, request) ELSE Stay(now, request)

\* No alarm is due any more.  Network completions wake threads without a
\* reschedule of their own; the NAND callbacks are left to an outer drain.
AlarmsDone ==
  /\ Inside("alarms") /\ (Top.turns = 0 \/ ~HeadIsDue)
  /\ alarmGuard' = FALSE
  /\ \E woken \in SUBSET {f \in Fibers : fiber[f] = "event"} :
       LET now == [f \in Fibers |-> IF f \in woken THEN "ready" ELSE fiber[f]]
           request == resched \/ woken # {}
       IN  IF drainGuard
             THEN Return(now, request, woken # {}) /\ UNCHANGED drainGuard
             ELSE /\ drainGuard' = TRUE
                  /\ frames' = WithTop([Frame("drain", Top.masked) EXCEPT !.done = woken # {}])
                  /\ Stay(now, request) /\ UNCHANGED disable
  /\ UNCHANGED <<alarmVars, nandCallbacks, advancing>>

\* NandProcessPendingCallbacks: the next callback.  More may be queued behind it.
DispatchNandCallback ==
  /\ Inside("drain") /\ Top.turns > 0 /\ nandCallbacks
  /\ nandCallbacks' \in BOOLEAN
  /\ frames' = [frames EXCEPT ![exec] = <<Frame("callback", FALSE)>> \o @]
  /\ UNCHANGED <<alarmVars, schedulerVars, disable, guards>>

CallbackReturns ==
  /\ Inside("callback")
  /\ frames' = Returned(TRUE)
  /\ UNCHANGED <<alarmVars, nandCallbacks, schedulerVars, disable, guards>>

\* Mutant: a drain that stops at its limit leaves its guard raised.
EndDrain_AtLimit ==
  /\ Inside("drain") /\ (Top.turns = 0 \/ ~nandCallbacks)
  /\ drainGuard' = (Top.turns = 0)
  /\ Return(fiber, resched, Top.done)
  /\ UNCHANGED <<alarmVars, nandCallbacks, alarmGuard, advancing>>

EndDrain ==
  /\ Inside("drain") /\ (Top.turns = 0 \/ ~nandCallbacks)
  /\ drainGuard' = FALSE
  /\ Return(fiber, resched, Top.done)
  /\ UNCHANGED <<alarmVars, nandCallbacks, alarmGuard, advancing>>

-----------------------------------------------------------------------------
(* Retraces.                                                               *)

\* AdvanceRetrace, for a retrace that is due: the threads that wait for it are
\* made ready, then its callbacks run.  masked: ProcessRetracesDeferred.
AdvanceRetrace(masked) ==
  LET waiting == {f \in Fibers : fiber[f] = "retrace"}
  IN  /\ ~advancing /\ advancing' = TRUE
      /\ CallPump("retrace", masked)
      /\ Stay([f \in Fibers |-> IF f \in waiting THEN "ready" ELSE fiber[f]],
              resched \/ waiting # {})
      /\ UNCHANGED <<alarmGuard, drainGuard>>

\* The retrace is over; a deferred one may flush the reschedule.
RetraceReturns ==
  /\ Inside("retrace")
  /\ advancing' = FALSE
  /\ frames' = Popped /\ disable' = disable - Masks(Top)
  /\ \/ Stay(fiber, resched)
     \/ Top.masked /\ resched /\ SelectThread(fiber, disable - 1, resched)
  /\ UNCHANGED <<alarmVars, nandCallbacks, alarmGuard, drainGuard>>

-----------------------------------------------------------------------------
Tick ==
  /\ \E a \in OSAlarms : left[a] > 0
  /\ left' = [a \in OSAlarms |-> IF left[a] > 0 THEN left[a] - 1 ELSE 0]
  /\ UNCHANGED <<alarms, periodic, armed, nandCallbacks, schedulerVars, disable,
                 frames, guards>>

PumpStep == FireAlarm \/ HandlerReturns \/ AlarmsDone \/ DispatchNandCallback
            \/ CallbackReturns \/ EndDrain \/ RetraceReturns

ThreadBlocks == \E on \in {"event", "retrace"} : OSSleepThread(on)

GuestCall ==
  \/ \E a \in OSAlarms :
       \/ \E ticks \in 0..MaxTicks : OSSetAlarm(a, ticks) \/ OSSetPeriodicAlarm(a, ticks)
       \/ OSCancelAlarm(a)
  \/ NandQueueIosCallback
  \/ \E f \in Fibers : OSWakeupThread(f)

AlarmNext ==
  \/ PumpStep \/ ThreadBlocks \/ IdleEnds \/ GuestCall \/ Tick
  \/ \E masked \in BOOLEAN : ProcessAlarmQueue(masked) \/ AdvanceRetrace(masked)

\* The host runs a pump to its end, and the threads of the game block again and
\* again: without that a thread that computes for ever keeps the processor.
PumpFairness == WF_pumpVars(PumpStep) /\ SF_pumpVars(ThreadBlocks)

PumpSpec == PumpInit /\ [][AlarmNext]_pumpVars /\ PumpFairness

-----------------------------------------------------------------------------
PumpTypeOK ==
  /\ {idling, resched, nandCallbacks, alarmGuard, drainGuard, advancing} \subseteq BOOLEAN
  /\ alarms \in Seq(OSAlarms) /\ left \in [OSAlarms -> 0..MaxTicks]
  /\ {periodic, armed} \subseteq [OSAlarms -> BOOLEAN]
  /\ fiber \in [Fibers -> {"running", "ready", "event", "retrace"}]
  /\ exec \in Fibers /\ disable \in Nat
  /\ frames \in [Fibers -> Seq(Frames)] /\ \A f \in Fibers : Len(frames[f]) <= MaxNest + 1

\* The alarm queue is in the order of the times, holds no alarm twice, and holds
\* just those with a handler, which is what OSCancelAlarm goes by.
AlarmsInOrder ==
  /\ \A i, j \in DOMAIN alarms :
       i < j => alarms[i] # alarms[j] /\ left[alarms[i]] <= left[alarms[j]]
  /\ \A a \in OSAlarms : armed[a] <=> InQueue(a)

\* A handler or a retrace ends on the fiber it interrupted before any other fiber
\* runs, and so does a pump called with the scheduler disabled: the code of no
\* other thread runs inside a retrace or under another fiber's disable count.
InterruptsFinish ==
  \A f \in Fibers \ {exec} : \A i \in DOMAIN frames[f] :
    frames[f][i].at \notin {"handler", "retrace"} /\ ~frames[f][i].masked

\* Again and again none of the guards is raised, also when a pump was left in the
\* middle for a stronger thread: alarms, callbacks and retraces go on.
GuardsAreReleased == []<>~(alarmGuard \/ drainGuard \/ advancing)
=============================================================================
