----------------------------- MODULE KernelSync -----------------------------
(***************************************************************************)
(* The other ways FreeRTOS tasks wait and are controlled: periodic delays, *)
(* suspension, changes of priority, deletion and creation while the        *)
(* scheduler runs, direct notifications (tasks.c) and event groups         *)
(* (event_groups.c), over the queues of KernelQueue.                       *)
(*                                                                         *)
(* A call is a record with the function's name in fn and its arguments.    *)
(***************************************************************************)
EXTENDS KernelQueue, Bitwise

CONSTANT Groups           \* event groups; their bits are small numbers

VARIABLES
    group,   \* group[g]: the bits set
    prev,    \* prev[t]: *pxPreviousWakeTime
    parked,  \* suspended by vTaskSuspend and not resumed: model history
    log      \* log[t]: what t was given, and where it was: model history

syncVars == <<group, prev, parked, log>>
queueState == <<queue, left, items, out>>

NoLog == [given |-> 0, taken |-> 0, arrived |-> 0, passed |-> 0, due |-> 0]

SyncInit ==
    /\ QueueInit(Groups)
    /\ group = [g \in Groups |-> {}]
    /\ prev = [t \in Users |-> 0]
    /\ parked = {}
    /\ log = [t \in Users |-> NoLog]

\* t starts a call of its plan to fn.
Enters(t, fn, call) ==
    /\ Going(t, "out") /\ left[t] > 0
    /\ call \in plan[t] /\ call.fn = fn
    /\ left' = [left EXCEPT ![t] = @ - 1]
    /\ UNCHANGED <<queue, items, out>> /\ cpuUnchanged

\* A call that is over within its critical section.
Passes(t, call) ==
    op' = [op EXCEPT ![t] = [NoOp EXCEPT !.call = call, !.result = "pass"]]

\* A later step of a call of t.
Continues(t, pc) == Going(t, pc) /\ UNCHANGED queueState /\ cpuUnchanged

Stays(t, call, pc) ==
    op' = [op EXCEPT ![t] = [NoOp EXCEPT !.call = call, !.pc = pc,
                             !.ticks = call.wait, !.since = Now(k)]]

-----------------------------------------------------------------------------
(* vTaskDelayUntil.                                                        *)

Count(kk) == kk.overflows * TickModulus + kk.tick

\* Mutant: only the two tick values are compared.
ShouldDelayPlain(tick, previous, wake) == wake > tick

\* Is the wake time still to come?  Either count may have wrapped since the
\* previous wake time, the tick's or the wake time's.
ShouldDelay(tick, previous, wake) ==
    IF tick < previous THEN wake < previous /\ wake > tick
    ELSE wake < previous \/ wake > tick

\* The task read the tick count into *pxPreviousWakeTime before its first call.
Previous(t) == IF log[t].due = 0 THEN Count(k) ELSE log[t].due

vTaskDelayUntil(t) ==
    \E call \in plan[t] :
        /\ Enters(t, "delayUntil", call)
        /\ LET previous == IF log[t].due = 0 THEN k.tick ELSE prev[t]
               wake == (previous + call.wait) % TickModulus
               ticks == (wake + TickModulus - k.tick) % TickModulus
               open == vTaskSuspendAll(k)
           IN /\ prev' = [prev EXCEPT ![t] = wake]
              /\ IF ShouldDelay(k.tick, previous, wake)
                 THEN k' = prvAddCurrentTaskToDelayedList(open, ticks, FALSE)
                 ELSE k' = open
        /\ op' = [op EXCEPT ![t] = [NoOp EXCEPT !.call = call, !.pc = "resume",
                                    !.next = "delayed"]]
        /\ log' = [log EXCEPT ![t].due = Previous(t) + call.wait]
    /\ UNCHANGED <<group, parked>>

-----------------------------------------------------------------------------
(* Suspension, priorities, deletion, creation.                             *)

\* Out of every list it waits in; a wait for a notification is forgotten.
Suspended(kk, u) ==
    prvResetNextTaskUnblockTime(
        [RemoveEvent(Unready(kk, u, kk.prio[u]), u) EXCEPT
            !.suspended = Append(@, u),
            !.nstate[u] = IF @ = "waiting" THEN "none" ELSE @])

vTaskSuspend(t) ==
    \E call \in plan[t] :
        /\ Enters(t, "suspend", call)
        /\ eTaskGetState(k, call.task) # "deleted"
        /\ k' = YieldIf(call.task = t, Suspended(k, call.task))
        /\ parked' = parked \cup {call.task}
        /\ Passes(t, call)
    /\ UNCHANGED <<group, prev, log>>

\* A task that merely blocks without a timeout is in the same list: it is told
\* by the event list it waits in.
prvTaskIsTaskSuspended(kk, u) ==
    /\ IsSuspendedItem(kk, u)
    /\ ~InPending(kk, u) /\ ~InEvent(kk, u)

vTaskResume(t) ==
    \E call \in plan[t] :
        /\ Enters(t, "resume", call)
        /\ LET u == call.task
           IN IF prvTaskIsTaskSuspended(k, u)
              THEN k' = YieldIf(k.prio[u] >= k.prio[t],
                                prvAddTaskToReadyList(RemoveState(k, u), u))
              ELSE UNCHANGED k
        /\ parked' = parked \ {call.task}
        /\ Passes(t, call)
    /\ UNCHANGED <<group, prev, log>>

\* A priority that was inherited stays until the mutex is given; a task in a
\* ready list changes to that of the new priority.
vTaskPrioritySet(t) ==
    \E call \in plan[t] :
        /\ Enters(t, "setPriority", call)
        /\ LET u == call.task
               p == Min({call.value, MaxPriorities - 1})
               old == k.prio[u]
               yields == \/ p > k.base[u] /\ u # t /\ p >= k.prio[t]
                         \/ p < k.base[u] /\ u = t
               set == [k EXCEPT !.prio[u] = IF k.base[u] = @ THEN p ELSE @,
                                !.base[u] = p,
                                !.item[u] = IF k.bits[u] = NoBits
                                            THEN MaxPriorities - p ELSE @]
               moved == IF u \in ToSet(k.ready[old])
                        THEN prvAddTaskToReadyList(Unready(set, u, old), u) ELSE set
           IN k' = IF k.base[u] = p THEN k ELSE YieldIf(yields, moved)
        /\ Passes(t, call)
    /\ UNCHANGED syncVars

\* Mutant: the deleted task is not counted out.
DeletedCounted(kk, t, u) ==
    LET gone == RemoveEvent(Unready(kk, u, kk.prio[u]), u)
    IN IF u = t THEN portYIELD([gone EXCEPT !.termination = Append(@, u)])
       ELSE prvResetNextTaskUnblockTime(gone)

\* A task that deletes itself still runs on its stack: the idle task frees it.
Deleted(kk, t, u) ==
    LET gone == RemoveEvent(Unready(kk, u, kk.prio[u]), u)
    IN IF u = t THEN portYIELD([gone EXCEPT !.termination = Append(@, u)])
       ELSE prvResetNextTaskUnblockTime([gone EXCEPT !.tasks = @ - 1])

vTaskDelete(t) ==
    \E call \in plan[t] :
        /\ Enters(t, "delete", call)
        /\ Exists(k, call.task) /\ k.held[call.task] = 0
        /\ k' = Deleted(k, t, call.task)
        /\ op' = [op EXCEPT ![t] = NoOp, ![call.task] = NoOp]
        /\ parked' = parked \ {call.task}
    /\ UNCHANGED <<group, prev, log>>

\* The control block of a task whose memory was freed is used again.
Creates(t) ==
    \E call \in plan[t] :
        /\ Enters(t, "create", call)
        /\ ~Exists(k, call.task) /\ call.task \notin ToSet(k.termination)
        /\ k' = xTaskCreate(k, call.task, Priority[call.task])
        /\ Passes(t, call)
    /\ UNCHANGED syncVars

-----------------------------------------------------------------------------
(* Direct notifications.                                                   *)

\* The value after an action, and whether the call succeeded.
Notified(kk, u, action, value) ==
    LET received == kk.nstate[u] = "received"
        old == kk.nvalue[u]
        new == CASE action = "eSetBits" -> old | value
                 [] action = "eIncrement" -> old + 1
                 [] action = "eSetValueWithOverwrite" -> value
                 [] action = "eSetValueWithoutOverwrite" ->
                        IF received THEN old ELSE value
                 [] action = "eNoAction" -> old
    IN [kk EXCEPT !.nstate[u] = "received", !.nvalue[u] = new]

Gave(call) ==
    log' = [log EXCEPT ![call.task].given =
                IF call.action = "eIncrement" THEN @ + 1 ELSE @]

Woken(kk, u) ==
    prvResetNextTaskUnblockTime(prvAddTaskToReadyList(RemoveState(kk, u), u))

xTaskGenericNotify(t) ==
    \E call \in plan[t] :
        /\ Enters(t, "notify", call)
        /\ LET u == call.task
               told == Notified(k, u, call.action, call.value)
           IN k' = IF k.nstate[u] = "waiting"
                   THEN YieldIf(Outranks(k, u), Woken(told, u)) ELSE told
        /\ Passes(t, call) /\ Gave(call)
    /\ UNCHANGED <<group, prev, parked>>

\* xTaskGenericNotifyFromISR and vTaskNotifyGiveFromISR, whose handlers end
\* with the yield they are told of.
xTaskGenericNotifyFromISR(call) ==
    LET u == call.task
        told == Notified(k, u, call.action, call.value)
    IN k' = IF k.nstate[u] = "waiting"
            THEN YieldIf(Outranks(k, u), MakeReadyOrPend(told, u)) ELSE told

NotifyInterrupt ==
    /\ left["isr"] > 0
    /\ left' = [left EXCEPT !["isr"] = @ - 1]
    /\ \E call \in {c \in plan["isr"] : c.fn = "notify"} :
        xTaskGenericNotifyFromISR(call) /\ Gave(call)
    /\ UNCHANGED <<op, queue, items, out, group, prev, parked>> /\ cpuUnchanged

BlockOnNotification(kk, t, wait) ==
    LET waiting == [kk EXCEPT !.nstate[t] = "waiting"]
    IN IF wait = 0 THEN waiting
       ELSE portYIELD(prvAddCurrentTaskToDelayedList(waiting, wait, TRUE))

\* ulTaskNotifyTake, its first critical section.
ulTaskNotifyTake(t) ==
    \E call \in plan[t] :
        /\ Enters(t, "notifyTake", call)
        /\ k' = IF k.nvalue[t] = 0 THEN BlockOnNotification(k, t, call.wait) ELSE k
        /\ Stays(t, call, "notifyTaken")
    /\ UNCHANGED syncVars

\* Mutant: the value is always cleared.
TakesAll(t) ==
    /\ Continues(t, "notifyTaken")
    /\ k' = [k EXCEPT !.nstate[t] = "none", !.nvalue[t] = 0]
    /\ Returns(t, "pass")
    /\ log' = [log EXCEPT ![t].taken = @ + Min({1, k.nvalue[t]})]
    /\ UNCHANGED <<group, prev, parked>>

\* ... and its second: what was given by then is taken.
NotifyTaken(t) ==
    /\ Continues(t, "notifyTaken")
    /\ LET value == k.nvalue[t]
           takes == IF op[t].call.clear THEN value ELSE Min({1, value})
       IN /\ k' = [k EXCEPT !.nstate[t] = "none", !.nvalue[t] = @ - takes]
          /\ Returns(t, IF value = 0 THEN "fail" ELSE "pass")
          /\ log' = [log EXCEPT ![t].taken = @ + takes]
    /\ UNCHANGED <<group, prev, parked>>

Cleared(value, mask) == value - (value & mask)

xTaskNotifyWait(t) ==
    \E call \in plan[t] :
        /\ Enters(t, "notifyWait", call)
        /\ k' = IF k.nstate[t] = "received" THEN k
                ELSE BlockOnNotification(
                        [k EXCEPT !.nvalue[t] = Cleared(@, call.entry)], t, call.wait)
        /\ Stays(t, call, "notifyWaited")
    /\ UNCHANGED syncVars

NotifyWaited(t) ==
    /\ Continues(t, "notifyWaited")
    /\ LET received == k.nstate[t] = "received"
       IN /\ k' = [k EXCEPT !.nstate[t] = "none",
                            !.nvalue[t] = IF received THEN Cleared(@, op[t].call.exit) ELSE @]
          /\ Returns(t, IF received THEN "pass" ELSE "fail")
    /\ UNCHANGED syncVars

xTaskNotifyStateClear(t) ==
    \E call \in plan[t] :
        /\ Enters(t, "notifyClear", call)
        /\ k' = [k EXCEPT !.nstate[call.task] = IF @ = "received" THEN "none" ELSE @]
        /\ Passes(t, call)
    /\ UNCHANGED syncVars

-----------------------------------------------------------------------------
(* Event groups.  Only tasks use them, with the scheduler suspended or in  *)
(* a critical section.  The item of a waiting task says what it waits for. *)

prvTestWaitCondition(current, wait, all) ==
    IF all THEN wait \subseteq current ELSE wait \cap current # {}

WaitItem(wait, clear, all) ==
    [inuse |-> TRUE, wait |-> wait, clear |-> clear, all |-> all, set |-> FALSE]

\* The item of a task that was unblocked because bits were set.
SetItem(current) ==
    [inuse |-> TRUE, wait |-> current, clear |-> FALSE, all |-> FALSE, set |-> TRUE]

Met(kk, u, current) ==
    prvTestWaitCondition(current, kk.bits[u].wait, kk.bits[u].all)

\* Mutant: the scan ends with the first waiter that is woken.
SetBitsWakesOne(kk, g, current) ==
    LET met == SelectSeq(kk.events[g], LAMBDA u : Met(kk, u, current))
    IN IF met = <<>> THEN [k |-> kk, bits |-> current]
       ELSE [k |-> vTaskRemoveFromUnorderedEventList(kk, Head(met), SetItem(current)),
             bits |-> IF kk.bits[Head(met)].clear
                      THEN current \ kk.bits[Head(met)].wait ELSE current]

\* xEventGroupSetBits, with the scheduler suspended: whoever waits for what is
\* set now is woken; the bits they clear are cleared when all were looked at.
SetBits(kk, g, current) ==
    LET met == SelectSeq(kk.events[g], LAMBDA u : Met(kk, u, current))
        clears == UNION {kk.bits[u].wait : u \in {v \in ToSet(met) : kk.bits[v].clear}}
    IN [k |-> FoldLeft(LAMBDA x, u : vTaskRemoveFromUnorderedEventList(
                                        x, u, SetItem(current)), kk, met),
        bits |-> current \ clears]

xEventGroupSetBits(t) ==
    \E call \in plan[t] :
        /\ Enters(t, "setBits", call)
        /\ LET s == SetBits(vTaskSuspendAll(k), call.group, group[call.group] \cup call.bits)
           IN k' = s.k /\ group' = [group EXCEPT ![call.group] = s.bits]
        /\ op' = [op EXCEPT ![t] = [NoOp EXCEPT !.call = call, !.pc = "setResume"]]
    /\ UNCHANGED <<prev, parked, log>>

\* vEventGroupDelete: every waiter is woken, with no bit set.
vEventGroupDelete(t) ==
    \E call \in plan[t] :
        /\ Enters(t, "deleteGroup", call)
        /\ k' = FoldLeft(LAMBDA x, u : vTaskRemoveFromUnorderedEventList(x, u, SetItem({})),
                         vTaskSuspendAll(k), k.events[call.group])
        /\ op' = [op EXCEPT ![t] = [NoOp EXCEPT !.call = call, !.pc = "setResume"]]
    /\ UNCHANGED syncVars

SetResumes(t) ==
    /\ Continues(t, "setResume")
    /\ k' = xTaskResumeAll(k)
    /\ Returns(t, "pass")
    /\ UNCHANGED syncVars

xEventGroupClearBits(t) ==
    \E call \in plan[t] :
        /\ Enters(t, "clearBits", call)
        /\ group' = [group EXCEPT ![call.group] = @ \ call.bits]
        /\ Passes(t, call)
    /\ UNCHANGED <<k, prev, parked, log>>

\* What a call that need not wait finds, or the place it waits in.  "result"
\* is that of the call if the task does not wait.
Waits(t, call, kk, item, result) ==
    LET placed == result = "fail" /\ call.wait # 0
    IN /\ k' = IF placed
               THEN vTaskPlaceOnUnorderedEventList(kk, call.group, item, call.wait) ELSE kk
       /\ op' = [op EXCEPT ![t] = [NoOp EXCEPT
            !.call = call, !.pc = "groupResume", !.since = Now(k),
            !.next = IF placed THEN "blocked" ELSE result]]

xEventGroupWaitBits(t) ==
    \E call \in plan[t] :
        /\ Enters(t, "waitBits", call)
        /\ LET met == prvTestWaitCondition(group[call.group], call.bits, call.all)
           IN /\ Waits(t, call, vTaskSuspendAll(k), WaitItem(call.bits, call.clear, call.all),
                       IF met THEN "pass" ELSE "fail")
              /\ group' = [group EXCEPT ![call.group] =
                              IF met /\ call.clear THEN @ \ call.bits ELSE @]
    /\ UNCHANGED <<prev, parked, log>>

\* A rendezvous: the bits of the caller are set and all are waited for; the
\* last one to arrive clears them.
xEventGroupSync(t) ==
    \E call \in plan[t] :
        /\ Enters(t, "sync", call)
        /\ LET current == group[call.group] \cup call.set
               s == SetBits(vTaskSuspendAll(k), call.group, current)
               met == call.bits \subseteq current
           IN /\ Waits(t, call, s.k, WaitItem(call.bits, TRUE, TRUE),
                       IF met THEN "pass" ELSE "fail")
              /\ group' = [group EXCEPT ![call.group] =
                              IF met THEN s.bits \ call.bits ELSE s.bits]
        /\ log' = [log EXCEPT ![t].arrived = @ + 1]
    /\ UNCHANGED <<prev, parked>>

Meets(t, result) ==
    /\ Returns(t, result)
    /\ log' = IF op[t].call.fn = "sync" /\ result = "pass"
              THEN [log EXCEPT ![t].passed = @ + 1] ELSE log

GroupResumes(t) ==
    /\ Continues(t, "groupResume")
    /\ IF op[t].next = "blocked"
       THEN k' = ResumeAllAndYield(k) /\ Goto(t, "groupAwake") /\ UNCHANGED log
       ELSE k' = xTaskResumeAll(k) /\ Meets(t, op[t].next)
    /\ UNCHANGED <<group, prev, parked>>

\* Awake again: because of bits that were set, or else the time is over and
\* the bits are tried once more.
GroupAwakes(t) ==
    /\ Continues(t, "groupAwake")
    /\ LET call == op[t].call
           met == prvTestWaitCondition(group[call.group], call.bits,
                                       call.fn = "sync" \/ call.all)
       IN IF k.bits[t].set
          THEN Meets(t, "pass") /\ UNCHANGED group
          ELSE /\ Meets(t, IF met THEN "pass" ELSE "fail")
               /\ group' = [group EXCEPT ![call.group] =
                        IF met /\ (call.fn = "sync" \/ call.clear) THEN @ \ call.bits ELSE @]
    /\ k' = uxTaskResetEventItemValue(k)
    /\ UNCHANGED <<prev, parked>>

-----------------------------------------------------------------------------
SyncTask(t) ==
    \/ vTaskDelayUntil(t) \/ vTaskSuspend(t) \/ vTaskResume(t) \/ vTaskPrioritySet(t)
    \/ vTaskDelete(t) \/ Creates(t)
    \/ xTaskGenericNotify(t) \/ ulTaskNotifyTake(t) \/ NotifyTaken(t)
    \/ xTaskNotifyWait(t) \/ NotifyWaited(t) \/ xTaskNotifyStateClear(t)
    \/ xEventGroupSetBits(t) \/ vEventGroupDelete(t) \/ SetResumes(t)
    \/ xEventGroupClearBits(t) \/ xEventGroupWaitBits(t) \/ xEventGroupSync(t)
    \/ GroupResumes(t) \/ GroupAwakes(t)

SyncNext ==
    \/ \E t \in Users : Runs(t) /\ SyncTask(t)
    \/ NotifyInterrupt
    \/ Next /\ UNCHANGED syncVars

-----------------------------------------------------------------------------
(* Properties.                                                             *)

\* A suspended task does not run before it is resumed, whatever it waited for
\* when it was suspended and whatever is set, given or due meanwhile.
SuspendedStays ==
    \A t \in parked : \/ eTaskGetState(k, t) = "suspended"
                      \/ k.cur = t /\ k.pendsv /\ IsSuspendedItem(k, t)

\* The scheduler's lists, ready bits, wake times and its count of the tasks
\* that are not freed, on which the idle task decides how long to sleep, agree.
KernelConsistent ==
    /\ StatesExclusive /\ WokenInTime /\ SuspendedStays
    /\ k.tasks = Cardinality({t \in Tasks : Exists(k, t)}) + Len(k.termination)

\* t uses its notification value as a counting semaphore.
OnlyCounts(t) ==
    \A u \in DOMAIN plan : \A call \in plan[u] :
        call.fn = "notify" /\ call.task = t => call.action = "eIncrement"

\* A task that sleeps in a notification call has not been notified since, and
\* what was given to a task is what it took and what it still has.
NotificationsKept ==
    \A t \in Users :
        /\ op[t].pc \in {"notifyTaken", "notifyWaited"} /\ ~IsReady(k, t)
                /\ ~InPending(k, t) /\ t \notin parked => k.nstate[t] = "waiting"
        /\ OnlyCounts(t) => log[t].given = log[t].taken + k.nvalue[t]

\* Nobody waits for bits that are set, and nobody passes a rendezvous more
\* often than each of those it meets there arrived.
EventGroupsRight ==
    /\ k.locks = 0 => \A g \in Groups : \A u \in ToSet(k.events[g]) : ~Met(k, u, group[g])
    /\ \A t, u \in {v \in Users : \E c \in plan[v] : c.fn = "sync"} :
            log[t].passed <= log[u].arrived

\* What a task waits for reaches it, whatever runs while it goes to sleep.
WaitsRight == NotificationsKept /\ EventGroupsRight

\* vTaskDelayUntil keeps the period: a task that makes no other calls sleeps
\* exactly while the next multiple of it is to come, across a wrap of the count.
PeriodKept ==
    \A t \in Users : (\A call \in plan[t] : call.fn = "delayUntil") =>
        (op[t].pc = "out" /\ log[t].due > 0 =>
            (IsDelayed(k, t) <=> log[t].due > Count(k)))

=============================================================================
