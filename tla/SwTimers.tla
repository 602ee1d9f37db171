------------------------------ MODULE SwTimers ------------------------------
(***************************************************************************)
(* FreeRTOS/Source/timers.c: software timers.  Tasks and interrupts send   *)
(* commands through a queue to the daemon task, which owns the two timer   *)
(* lists: one for expiry times of this round of the tick count, one for    *)
(* those past its wrap.  The daemon sleeps on the queue until the next     *)
(* expiry time.  What a timer's callback does is the application's.        *)
(***************************************************************************)
EXTENDS KernelSync

CONSTANTS Timers,     \* the timers that exist
          AutoReload, \* those of them that start again when they expire
          Periods,    \* Periods[m]: xTimerPeriodInTicks at creation
          Daemon,     \* prvTimerTask
          TimerQueue  \* xTimerQueue, one of Queues

ASSUME TimersAssumption ==
    /\ AutoReload \subseteq Timers /\ Daemon \in Users /\ TimerQueue \in DOMAIN Queues
    /\ \A m \in Timers : Periods[m] \in 1 .. MaxDelay
VARIABLES
    tm,      \* the timers and the two lists
    d,       \* where the daemon is, and its local variables
    due      \* due[m]: when m expires, counted without wraps: model history

timerVars == <<tm, d, due>>

NotDue == -1
NoMessage == [fn |-> "none"]
DaemonStart == [pc |-> "poll", next |-> 0, empty |-> TRUE, now |-> 0,
                back |-> "none", msg |-> NoMessage]

\* xTimerCreate: a timer is in no list.
TimersInit ==
    /\ SyncInit
    /\ tm = [cur |-> <<>>, over |-> <<>>, last |-> 0, sampled |-> 0,
             expiry |-> [m \in Timers |-> 0], period |-> Periods, freed |-> {}]
    /\ d = DaemonStart
    /\ due = [m \in Timers |-> NotDue]

Listed == ToSet(tm.cur) \cup ToSet(tm.over)

-----------------------------------------------------------------------------
(* Commands.                                                               *)

\* xTimerGenericCommand from a task or an interrupt, xTimerPendFunctionCall:
\* a message is sent to the daemon, its value the tick count of the sender
\* (or the new period).
Stamped(call) ==
    [call EXCEPT !.fn = "back", !.since = Count(k),
                 !.value = IF call.id = "change" THEN @ ELSE k.tick]

xTimerGenericCommand(t) ==
    /\ Going(t, "out") /\ left[t] > 0
    /\ \E call \in {c \in plan[t] : c.fn = "command"} :
        /\ call.timer \notin tm.freed
        /\ Try(t, [NoOp EXCEPT !.call = Stamped(call), !.ticks = call.wait,
                               !.since = Now(k)])
    /\ left' = [left EXCEPT ![t] = @ - 1]
    /\ UNCHANGED <<syncVars, timerVars>> /\ cpuUnchanged

xTimerGenericCommandFromISR ==
    /\ left["isr"] > 0
    /\ left' = [left EXCEPT !["isr"] = @ - 1]
    /\ \E call \in {c \in plan["isr"] : c.fn = "command"} :
        /\ call.timer \notin tm.freed
        /\ xQueueGenericSendFromISR(Stamped(call))
    /\ UNCHANGED <<op, syncVars, timerVars>> /\ cpuUnchanged

\* The daemon's own command for a timer whose next expiry is past already: it
\* does not wait for space in the queue, and asserts that there was some.
Restarts(needed, m, value, since, next) ==
    LET call == [fn |-> "back", q |-> TimerQueue, wait |-> 0, id |-> "start",
                 timer |-> m, value |-> value, since |-> since]
    IN IF ~needed THEN UNCHANGED <<queue, items>> /\ d' = next
       ELSE IF Full(queue, TimerQueue)
       THEN UNCHANGED <<queue, items>> /\ d' = [next EXCEPT !.pc = "assert"]
       ELSE /\ queue' = [queue EXCEPT ![TimerQueue] =
                            CopyItem(queue, TimerQueue, Len(items) + 1, "back")]
            /\ items' = Append(items, call)
            /\ d' = next

-----------------------------------------------------------------------------
(* The lists.                                                              *)

\* Mutant: an expiry time past the wrap is kept with those of this round.
InsertInCurrent(x, m, expiry, now, command) ==
    LET set == [x EXCEPT !.expiry[m] = expiry]
        late == (now + TickModulus - command) % TickModulus >= x.period[m]
    IN IF expiry <= now /\ late THEN [tm |-> set, now |-> TRUE]
       ELSE [tm |-> [set EXCEPT !.cur = vListInsert(@, m, expiry, set.expiry)], now |-> FALSE]

\* Where a timer goes whose period began at "command", or that it expired.
prvInsertTimerInActiveList(x, m, expiry, now, command) ==
    LET set == [x EXCEPT !.expiry[m] = expiry]
        late == (now + TickModulus - command) % TickModulus >= x.period[m]
        wrapped == now < command /\ expiry >= command
    IN IF expiry <= now
       THEN IF late THEN [tm |-> set, now |-> TRUE]
            ELSE [tm |-> [set EXCEPT !.over = vListInsert(@, m, expiry, set.expiry)],
                  now |-> FALSE]
       ELSE IF wrapped THEN [tm |-> set, now |-> TRUE]
            ELSE [tm |-> [set EXCEPT !.cur = vListInsert(@, m, expiry, set.expiry)],
                  now |-> FALSE]

Unlist(x, m) == [x EXCEPT !.cur = uxListRemove(@, m), !.over = uxListRemove(@, m)]

After(time, ticks) == (time + ticks) % TickModulus

-----------------------------------------------------------------------------
(* The daemon.                                                             *)

At(pc) == Runs(Daemon) /\ op[Daemon].pc = "out" /\ d.pc = pc
DaemonAt(pc) == At(pc) /\ UNCHANGED <<left, out, syncVars>> /\ cpuUnchanged
DaemonGoes(pc) == d' = [d EXCEPT !.pc = pc]
Receiving == [DaemonStart EXCEPT !.pc = "receive"]
kernelUnchanged == UNCHANGED <<k, queue, op, items>>

\* The lists are the daemon's own: nobody changes them before the next step.
prvGetNextExpireTime ==
    /\ DaemonAt("poll")
    /\ d' = [d EXCEPT !.pc = "sample", !.empty = tm.cur = <<>>,
                      !.next = IF tm.cur = <<>> THEN 0 ELSE tm.expiry[Head(tm.cur)]]
    /\ kernelUnchanged /\ UNCHANGED <<tm, due>>

Wrapped == k.tick < tm.last

\* prvProcessTimerOrBlockTask: with the scheduler suspended the time is read,
\* and a wrap of it, an expiry or the need to wait is found.
SamplesTime ==
    /\ DaemonAt("sample")
    /\ tm' = [tm EXCEPT !.last = k.tick, !.sampled = Count(k)]
    /\ LET expired == ~d.empty /\ d.next <= k.tick
       IN /\ d' = [d EXCEPT !.now = k.tick, !.back = "resume",
                    !.pc = IF Wrapped THEN "switch" ELSE IF expired THEN "expire" ELSE "wait"]
          /\ k' = IF expired /\ ~Wrapped THEN k ELSE vTaskSuspendAll(k)
    /\ UNCHANGED <<queue, op, items, due>>

\* Mutant: what is in the other list is not waited for.
WaitsForever ==
    /\ DaemonAt("wait")
    /\ queue' = [queue EXCEPT ![TimerQueue] = prvLockQueue(@)]
    /\ d' = [d EXCEPT !.pc = "place"]
    /\ UNCHANGED <<k, op, items, tm, due>>

\* vQueueWaitForMessageRestricted: for ever, if no timer is in either list.
Locks ==
    /\ DaemonAt("wait")
    /\ queue' = [queue EXCEPT ![TimerQueue] = prvLockQueue(@)]
    /\ d' = [d EXCEPT !.pc = "place", !.empty = @ /\ tm.over = <<>>]
    /\ UNCHANGED <<k, op, items, tm, due>>

vQueueWaitForMessageRestricted ==
    /\ DaemonAt("place") /\ d' = Receiving
    /\ k' = IF Empty(queue, TimerQueue)
            THEN vTaskPlaceOnEventListRestricted(
                    k, ReceiveList(TimerQueue), After(d.next, TickModulus - d.now), d.empty)
            ELSE k
    /\ op' = [op EXCEPT ![Daemon] = [NoOp EXCEPT !.pc = "unlockTx", !.next = "delayed",
                  !.call = [Idling EXCEPT !.fn = "receive", !.q = TimerQueue]]]
    /\ UNCHANGED <<queue, items, tm, due>>

\* prvProcessExpiredTimer: the head of the list expires.
prvProcessExpiredTimer ==
    /\ DaemonAt("expire")
    /\ LET m == Head(tm.cur)
           removed == Unlist(tm, m)
           r == IF m \in AutoReload
                THEN prvInsertTimerInActiveList(
                        removed, m, After(d.next, tm.period[m]), d.now, d.next)
                ELSE [tm |-> removed, now |-> FALSE]
       IN /\ Restarts(r.now, m, d.next, due[m], Receiving)
          /\ tm' = r.tm
          /\ due' = [due EXCEPT ![m] = IF m \in AutoReload /\ ~r.now
                                       THEN @ + tm.period[m] ELSE NotDue]
    /\ UNCHANGED <<k, op>>

\* prvSwitchTimerLists, one timer of the round that ended at a time: it
\* expires, and so on as long as its next expiry is in that round too.
SwitchExpires ==
    /\ DaemonAt("switch") /\ tm.cur # <<>>
    /\ LET m == Head(tm.cur)
           removed == Unlist(tm, m)
           again == After(tm.expiry[m], tm.period[m])
           here == again > tm.expiry[m]
           set == [removed EXCEPT !.expiry[m] = again]
       IN /\ tm' = IF m \in AutoReload /\ here
                   THEN [set EXCEPT !.cur = vListInsert(@, m, again, set.expiry)]
                   ELSE removed
          /\ Restarts(m \in AutoReload /\ ~here, m, tm.expiry[m], due[m], d)
          /\ due' = [due EXCEPT ![m] = IF m \in AutoReload /\ here
                                       THEN @ + tm.period[m] ELSE NotDue]
    /\ UNCHANGED <<k, op>>

\* Then the lists change places.
prvSwitchTimerLists ==
    /\ DaemonAt("switch") /\ tm.cur = <<>>
    /\ tm' = [tm EXCEPT !.cur = tm.over, !.over = <<>>]
    /\ k' = IF d.back = "resume" THEN xTaskResumeAll(k) ELSE k
    /\ IF d.back = "resume" THEN d' = Receiving ELSE DaemonGoes(d.back)
    /\ UNCHANGED <<queue, op, items, due>>

\* prvProcessReceivedCommands: until the queue is empty.
ReceivesCommand ==
    /\ DaemonAt("receive")
    /\ IF Empty(queue, TimerQueue)
       THEN d' = DaemonStart /\ UNCHANGED <<k, queue>>
       ELSE LET e == ReceiveEffect(k, queue, TimerQueue)
            IN /\ k' = e.k /\ queue' = e.queue
               /\ d' = [d EXCEPT !.pc = "command",
                                 !.msg = items[Oldest(queue[TimerQueue], TimerQueue)]]
    /\ UNCHANGED <<op, items, tm, due>>

IsCallback(msg) == msg.id = "callback"

\* A pended function: vEventGroupSetBitsCallback.
RunsCallback ==
    /\ At("command") /\ IsCallback(d.msg)
    /\ LET g == d.msg.group
           s == SetBits(vTaskSuspendAll(k), g, group[g] \cup d.msg.bits)
       IN k' = s.k /\ group' = [group EXCEPT ![g] = s.bits]
    /\ op' = [op EXCEPT ![Daemon] = [NoOp EXCEPT !.pc = "setResume"]]
    /\ d' = Receiving
    /\ UNCHANGED <<queue, left, items, out, prev, parked, log, tm, due>> /\ cpuUnchanged

\* The timer leaves its list, and the time is read.
StartsCommand ==
    /\ DaemonAt("command") /\ ~IsCallback(d.msg)
    /\ tm' = [Unlist(tm, d.msg.timer) EXCEPT !.last = k.tick, !.sampled = Count(k)]
    /\ due' = [due EXCEPT ![d.msg.timer] = NotDue]
    /\ d' = [d EXCEPT !.now = k.tick, !.back = "apply",
                      !.pc = IF Wrapped THEN "switch" ELSE "apply"]
    /\ kernelUnchanged

Applies(id) == DaemonAt("apply") /\ d.msg.id = id

\* Start or reset: the period runs from the time of the command.  If it is
\* over, the callback runs now, and the period begins again at its end.
AppliesStart ==
    /\ Applies("start")
    /\ LET m == d.msg.timer
           again == After(d.msg.value, tm.period[m])
           ends == d.msg.since + tm.period[m]
           r == prvInsertTimerInActiveList(tm, m, again, d.now, d.msg.value)
       IN /\ tm' = r.tm
          /\ Restarts(r.now /\ m \in AutoReload, m, again, ends, Receiving)
          /\ due' = [due EXCEPT ![m] = IF r.now THEN NotDue ELSE ends]
    /\ UNCHANGED <<k, op>>

\* The new period runs from now.
AppliesChange ==
    /\ Applies("change") /\ d' = Receiving
    /\ LET m == d.msg.timer
           changed == [tm EXCEPT !.period[m] = d.msg.value]
       IN /\ tm' = prvInsertTimerInActiveList(
                        changed, m, After(d.now, d.msg.value), d.now, d.now).tm
          /\ due' = [due EXCEPT ![m] = tm.sampled + d.msg.value]
    /\ kernelUnchanged

\* It is in no list already.
AppliesStop ==
    /\ Applies("stop") /\ d' = Receiving
    /\ kernelUnchanged /\ UNCHANGED <<tm, due>>

AppliesDelete ==
    /\ Applies("delete") /\ d' = Receiving
    /\ tm' = [tm EXCEPT !.freed = @ \cup {d.msg.timer}]
    /\ kernelUnchanged /\ UNCHANGED due

prvTimerTask ==
    \/ prvGetNextExpireTime \/ SamplesTime \/ Locks \/ vQueueWaitForMessageRestricted
    \/ prvProcessExpiredTimer \/ SwitchExpires \/ prvSwitchTimerLists
    \/ ReceivesCommand \/ RunsCallback \/ StartsCommand
    \/ AppliesStart \/ AppliesChange \/ AppliesStop \/ AppliesDelete

\* The messages in the queue and the one that the daemon has taken.
Messages ==
    {items[i] : i \in ToSet(Contents(TimerQueue))}
        \cup (IF d.msg = NoMessage THEN {} ELSE {d.msg})

\* What the arithmetic on tick counts rests on (a round of the count is 2^32
\* milliseconds): while a timer runs the daemon reads the time once in a round,
\* and neither an expiry nor a command waits for a round.
Punctual ==
    /\ Listed # {} => Now(k) - tm.sampled < TickModulus
    /\ \A m \in Listed : Now(k) - due[m] < TickModulus
    /\ \A msg \in Messages : Now(k) - msg.since < TickModulus

TimersNext ==
    /\ \/ \E t \in Users : Runs(t) /\ xTimerGenericCommand(t)
       \/ xTimerGenericCommandFromISR
       \/ prvTimerTask
       \/ SyncNext /\ UNCHANGED timerVars
    /\ Punctual'

allVars == <<vars, syncVars, timerVars>>

TimersSpec == TimersInit /\ [][TimersNext]_allVars

-----------------------------------------------------------------------------
(* Properties.                                                             *)

\* Between two rounds of the lists, the list a timer is in and its expiry value
\* say when it is due, and a periodic task sleeps exactly until it is due,
\* whatever wrapped since the period began.
ExpiryRight ==
    /\ PeriodKept
    /\ d.pc # "switch" =>
        LET base == tm.sampled - (tm.sampled % TickModulus)
        IN /\ \A m \in ToSet(tm.cur) : due[m] = base + tm.expiry[m]
           /\ \A m \in ToSet(tm.over) : due[m] = base + TickModulus + tm.expiry[m]

\* While the daemon sleeps, every timer that runs is due no earlier than the
\* daemon wakes; it sleeps for ever only if none runs.
DaemonWakesInTime ==
    InEvent(k, Daemon) /\ k.locks = 0 =>
        IF IsSuspendedItem(k, Daemon) THEN Listed = {}
        ELSE \A m \in Listed :
                due[m] >= Count(k) + After(k.wake[Daemon], TickModulus - k.tick)

=============================================================================
