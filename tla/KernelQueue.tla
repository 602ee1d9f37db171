---------------------------- MODULE KernelQueue ----------------------------
(***************************************************************************)
(* FreeRTOS/Source/queue.c: queues, semaphores and mutexes, called by      *)
(* tasks that may block with a timeout and by interrupt handlers that may  *)
(* not.  A blocking call is a loop of critical sections; between them      *)
(* interrupts change the queue (its locks count what they did), and other  *)
(* tasks do wherever the scheduler is not suspended.                       *)
(***************************************************************************)
EXTENDS KernelCpu, Integers, TLC

CONSTANTS Queues,     \* Queues[q] = [kind, length]; kind "queue", "sem", "mutex"
          Scenarios,  \* each assigns the tasks and "isr" the calls they make
          MaxCalls    \* bound of the model: how many calls each of them makes

ASSUME QueuesAssumption ==
    \A q \in DOMAIN Queues :
        /\ Queues[q].length \in Nat \ {0} /\ Queues[q].kind \in {"queue", "sem", "mutex"}
        /\ Queues[q].kind = "mutex" => Queues[q].length = 1
ASSUME CallsAssumption == MaxCalls \in [(Tasks \ {Idle}) \cup {"isr"} -> Nat]

VARIABLES
    queue,  \* queue[q]: what the structure of q holds
    op,     \* op[t]: the call t is in, and where
    left,   \* left[t]: calls t still makes; left["isr"]: those of interrupts
    plan,   \* the scenario
    items,  \* the calls that sent an item so far: their places number the items
    out     \* out[q]: what was taken from a queue, in order: model history

vars == <<k, idle, expect, queue, op, left, plan, items, out>>

Users == Tasks \ {Idle}
SendList(q) == <<q, "xTasksWaitingToSend">>
ReceiveList(q) == <<q, "xTasksWaitingToReceive">>
EventLists == UNION {{SendList(q), ReceiveList(q)} : q \in DOMAIN Queues}

Unlocked == -1            \* queueUNLOCKED
LockedUnmodified == 0     \* queueLOCKED_UNMODIFIED

xQueueGenericReset(q) ==
    [n |-> 0, buf |-> [i \in 0 .. Queues[q].length - 1 |-> 0],
     write |-> 0, read |-> Queues[q].length - 1, rx |-> Unlocked, tx |-> Unlocked,
     holder |-> NoTask, recursion |-> 0]

\* A mutex is created given.
xQueueGenericCreate(q) ==
    [xQueueGenericReset(q) EXCEPT !.n = IF Queues[q].kind = "mutex" THEN 1 ELSE 0]

Idling == [fn |-> "none", q |-> "none", wait |-> 0]
NoOp == [call |-> Idling, pc |-> "out", ticks |-> 0, timed |-> FALSE,
         entry |-> <<0, 0>>, inherited |-> FALSE, next |-> "retry", since |-> 0, result |-> "none"]

\* "lists" are the event lists of other things than queues.
QueueInit(lists) ==
    /\ CpuInit(SetToSeq(Users), EventLists \cup lists)
    /\ queue = [q \in DOMAIN Queues |-> xQueueGenericCreate(q)]
    /\ op = [t \in Users |-> NoOp]
    /\ plan \in Scenarios
    /\ left = [u \in DOMAIN plan |-> IF plan[u] = {} THEN 0 ELSE MaxCalls[u]]
    /\ items = <<>>
    /\ out = [q \in DOMAIN Queues |-> <<>>]

Init == QueueInit({})

-----------------------------------------------------------------------------
(* The structure of a queue.                                               *)

IsMutex(q) == Queues[q].kind = "mutex"
HoldsData(q) == Queues[q].kind = "queue"
Full(qs, q) == qs[q].n = Queues[q].length
Empty(qs, q) == qs[q].n = 0
NextSlot(q, i) == (i + 1) % Queues[q].length
PreviousSlot(q, i) == (i + Queues[q].length - 1) % Queues[q].length

\* Mutant: the read pointer is where the next item is, not before it.
CopyToFrontAhead(qs, q, item, position) ==
    LET c == qs[q]
    IN IF position = "back"
       THEN [c EXCEPT !.buf[c.write] = item, !.write = NextSlot(q, @), !.n = @ + 1]
       ELSE [c EXCEPT !.buf[NextSlot(q, c.read)] = item, !.read = PreviousSlot(q, @), !.n = @ + 1]

\* The data part of prvCopyDataToQueue; overwriting keeps the count at one.
CopyItem(qs, q, item, position) ==
    LET c == qs[q]
    IN IF ~HoldsData(q) THEN [c EXCEPT !.n = @ + 1]
       ELSE IF position = "back"
       THEN [c EXCEPT !.buf[c.write] = item, !.write = NextSlot(q, @), !.n = @ + 1]
       ELSE [c EXCEPT !.buf[c.read] = item, !.read = PreviousSlot(q, @),
                      !.n = IF position = "overwrite" /\ @ > 0 THEN @ ELSE @ + 1]

\* prvCopyDataFromQueue, which leaves the count to its callers.
Oldest(c, q) == c.buf[NextSlot(q, c.read)]
prvCopyDataFromQueue(c, q) ==
    IF HoldsData(q) THEN [c EXCEPT !.read = NextSlot(q, @)] ELSE c

\* The items of a queue from the next to be received on.
Contents(q) ==
    [i \in 1 .. queue[q].n |-> queue[q].buf[(queue[q].read + i) % Queues[q].length]]

-----------------------------------------------------------------------------
(* Priority inheritance, tasks.c.                                          *)

\* The item value follows the priority, unless it carries event bits.
SetPriority(kk, t, p) ==
    [kk EXCEPT !.prio[t] = p,
               !.item[t] = IF kk.bits[t] = NoBits THEN MaxPriorities - p ELSE @]

\* The holder of the mutex gets the priority of the current task.
xTaskPriorityInherit(kk, holder) ==
    IF holder = NoTask \/ kk.prio[holder] >= kk.prio[kk.cur] THEN kk
    ELSE LET p == kk.prio[holder]
             raised == SetPriority(kk, holder, kk.prio[kk.cur])
         IN IF holder \in ToSet(kk.ready[p])
            THEN prvAddTaskToReadyList(Unready(raised, holder, p), holder)
            ELSE raised

\* What xTaskPriorityInherit returns: the holder now runs, or already ran,
\* above its base priority because of tasks like this one.
InheritanceOccurred(kk, holder) ==
    /\ holder # NoTask
    /\ \/ kk.prio[holder] < kk.prio[kk.cur]
       \/ kk.base[holder] < kk.prio[kk.cur]

\* The last mutex given: back to the base priority.
LosesPriority(kk, t) == kk.prio[t] # kk.base[t] /\ kk.held[t] = 1

xTaskPriorityDisinherit(kk, holder) ==
    IF holder = NoTask THEN kk
    ELSE LET given == [kk EXCEPT !.held[holder] = @ - 1]
         IN IF ~LosesPriority(kk, holder) THEN given
            ELSE prvAddTaskToReadyList(
                    SetPriority(Unready(given, holder, kk.prio[holder]), holder,
                                kk.base[holder]), holder)

prvGetDisinheritPriorityAfterTimeout(kk, q) ==
    IF kk.events[ReceiveList(q)] = <<>> THEN 0
    ELSE MaxPriorities - kk.item[Head(kk.events[ReceiveList(q)])]

\* Mutant: what was lent is not taken back.
DisinheritNever(kk, holder, waiting) == kk

\* A waiter gave up: the holder of one mutex keeps what the others give it.
\* The list whose bit may be reset is the one of the new priority.
vTaskPriorityDisinheritAfterTimeout(kk, holder, waiting) ==
    IF holder = NoTask THEN kk
    ELSE LET p == kk.prio[holder]
             use == Max({kk.base[holder], waiting})
             changed == SetPriority(kk, holder, use)
         IN IF p = use \/ kk.held[holder] # 1 THEN kk
            ELSE IF holder \in ToSet(kk.ready[p])
            THEN prvAddTaskToReadyList(
                    LET removed == RemoveState(changed, holder)
                    IN IF listEMPTY(removed.ready[p])
                       THEN taskRESET_READY_PRIORITY(removed, use) ELSE removed,
                    holder)
            ELSE changed

-----------------------------------------------------------------------------
(* What a call does when it can proceed.                                   *)

\* Mutant: the caller goes on although it woke a higher priority.
WakeNoYield(kk, list, orElse) ==
    IF kk.events[list] = <<>> THEN YieldIf(orElse, kk)
    ELSE xTaskRemoveFromEventList(kk, list)

\* A waiter is woken and preempts if it is of higher priority; otherwise the
\* caller yields if "orElse" (its own priority has just dropped).
Wake(kk, list, orElse) ==
    IF kk.events[list] = <<>> THEN YieldIf(orElse, kk)
    ELSE YieldIf(WakesHigher(kk, list), xTaskRemoveFromEventList(kk, list))

\* Giving a mutex ends the caller's hold before it wakes a waiter.
SendEffect(kk, qs, q, item, position) ==
    LET holder == qs[q].holder
        given == IF IsMutex(q) THEN xTaskPriorityDisinherit(kk, holder) ELSE kk
        drops == IsMutex(q) /\ holder # NoTask /\ LosesPriority(kk, holder)
        copied == [CopyItem(qs, q, item, position) EXCEPT
                      !.holder = IF IsMutex(q) THEN NoTask ELSE @,
                      !.recursion = 0]
    IN [k |-> Wake(given, ReceiveList(q), drops),
        queue |-> [qs EXCEPT ![q] = copied]]

\* Taking a mutex makes the current task its holder.
ReceiveEffect(kk, qs, q) ==
    LET taken == [prvCopyDataFromQueue(qs[q], q) EXCEPT
                     !.n = @ - 1, !.holder = IF IsMutex(q) THEN kk.cur ELSE @,
                     !.recursion = IF IsMutex(q) THEN 1 ELSE @]
        held == IF IsMutex(q) THEN [kk EXCEPT !.held[kk.cur] = @ + 1] ELSE kk
    IN [k |-> Wake(held, SendList(q), FALSE),
        queue |-> [qs EXCEPT ![q] = taken]]

\* The item stays, so that whoever else waits for it is woken.
PeekEffect(kk, qs, q) == [k |-> Wake(kk, ReceiveList(q), FALSE), queue |-> qs]

QueueCalls == {"back", "front", "overwrite", "give", "giveRecursive",
               "receive", "peek", "take", "takeRecursive"}
Gives(call) == call.fn \in {"give", "giveRecursive"}
Takes(call) == call.fn \in {"take", "takeRecursive"}
Sends(call) == call.fn \in {"back", "front", "overwrite"} \/ Gives(call)
Position(call) == IF Gives(call) THEN "back" ELSE call.fn

\* What the configASSERTs of queue.c demand of the calls: what is given and
\* taken without an item is a semaphore or a mutex, and an item replaces another
\* only in a queue of length one, which holds items (queue.h).  A mutex is only
\* given and taken (semphr.h).  The time to wait is a TickType_t.
ASSUME ScenariosAssumption ==
    \A s \in Scenarios :
        /\ DOMAIN s = Users \cup {"isr"}
        /\ \A u \in DOMAIN s : \A call \in s[u] :
            call.fn \in QueueCalls \cup {"delay"} => call.wait \in 0 .. MaxDelay
        /\ \A u \in DOMAIN s : \A call \in s[u] : call.fn \in QueueCalls =>
            /\ call.q \in DOMAIN Queues
            /\ HoldsData(call.q) => ~Gives(call) /\ ~Takes(call)
            /\ IsMutex(call.q) => Gives(call) \/ Takes(call)
            /\ call.fn = "overwrite" => HoldsData(call.q) /\ Queues[call.q].length = 1

\* Can the call proceed on the queue as it is?
CanProceed(qs, call) ==
    IF Sends(call) THEN ~Full(qs, call.q) \/ call.fn = "overwrite"
    ELSE ~Empty(qs, call.q)

Effect(kk, qs, call) ==
    CASE Sends(call) -> SendEffect(kk, qs, call.q, Len(items) + 1, Position(call))
      [] call.fn = "receive" \/ Takes(call) -> ReceiveEffect(kk, qs, call.q)
      [] call.fn = "peek" -> PeekEffect(kk, qs, call.q)

\* The call's part in the histories.
Recorded(call) ==
    /\ items' = IF Sends(call) /\ HoldsData(call.q) THEN Append(items, call) ELSE items
    /\ out' = IF call.fn = "receive"
              THEN [out EXCEPT ![call.q] = Append(@, Oldest(queue[call.q], call.q))]
              ELSE out

-----------------------------------------------------------------------------
(* xQueueGenericSend, xQueueReceive, xQueuePeek, xQueueSemaphoreTake: the  *)
(* same loop in all four.                                                  *)

cpuUnchanged == UNCHANGED <<idle, expect, plan>>
Going(t, pc) == Runs(t) /\ op[t].pc = pc
Goto(t, pc) == op' = [op EXCEPT ![t].pc = pc]
Returns(t, result) ==
    op' = [op EXCEPT ![t] = [NoOp EXCEPT !.result = result]]

\* The first critical section: proceed, fail at once, or start the timeout.
Try(t, o) ==
    \/ /\ CanProceed(queue, o.call)
       /\ LET e == Effect(k, queue, o.call)
          IN k' = e.k /\ queue' = e.queue
       /\ Recorded(o.call)
       /\ Returns(t, "pass")
    \/ /\ ~CanProceed(queue, o.call)
       /\ op' = [op EXCEPT ![t] =
            IF o.ticks = 0
            THEN IF o.inherited THEN [o EXCEPT !.pc = "assert"]
                 ELSE [NoOp EXCEPT !.result = "fail"]
            ELSE [o EXCEPT !.pc = "suspend", !.timed = TRUE,
                    !.entry = IF o.timed THEN @ ELSE <<k.overflows, k.tick>>]]
       /\ UNCHANGED <<k, queue, items, out>>

Suspends(t) ==
    /\ Going(t, "suspend") /\ Goto(t, "lock")
    /\ k' = vTaskSuspendAll(k)
    /\ UNCHANGED <<queue, left, items, out>> /\ cpuUnchanged

prvLockQueue(c) ==
    [c EXCEPT !.rx = IF @ = Unlocked THEN LockedUnmodified ELSE @,
              !.tx = IF @ = Unlocked THEN LockedUnmodified ELSE @]

\* Mutant: a wrap of the tick count always ends the wait.
CheckWrapExpires(kk, entry, ticks) ==
    LET elapsed == (kk.tick + TickModulus - entry[2]) % TickModulus
        expired == ticks # MaxDelay /\ (kk.overflows # entry[1] \/ elapsed >= ticks)
    IN [expired |-> expired, ticks |-> IF expired THEN 0 ELSE ticks - elapsed,
        entry |-> <<kk.overflows, kk.tick>>]

\* Has the time passed?  If not, what is left of it, counted from now on.  A
\* wait of portMAX_DELAY does not end; a wait that a whole round of the tick
\* count outlasted keeps its ticks.
xTaskCheckForTimeOut(kk, entry, ticks) ==
    LET elapsed == (kk.tick + TickModulus - entry[2]) % TickModulus
        wrapped == kk.overflows # entry[1] /\ kk.tick >= entry[2]
        same == [expired |-> wrapped, ticks |-> ticks, entry |-> entry]
    IN IF ticks = MaxDelay THEN [same EXCEPT !.expired = FALSE]
       ELSE IF wrapped THEN same
       ELSE IF elapsed < ticks
       THEN [expired |-> FALSE, ticks |-> ticks - elapsed,
             entry |-> <<kk.overflows, kk.tick>>]
       ELSE [expired |-> TRUE, ticks |-> 0, entry |-> entry]

\* With the scheduler suspended the tick stands still, so the lock and the
\* check of the timeout are one step.
LocksAndChecks(t) ==
    /\ Going(t, "lock")
    /\ queue' = [queue EXCEPT ![op[t].call.q] = prvLockQueue(@)]
    /\ LET r == xTaskCheckForTimeOut(k, op[t].entry, op[t].ticks)
       IN op' = [op EXCEPT ![t].ticks = r.ticks, ![t].entry = r.entry,
                           ![t].pc = IF r.expired THEN "unlockTx" ELSE "test",
                           ![t].next = IF r.expired THEN "expired" ELSE "retry"]
    /\ UNCHANGED <<k, left, items, out>> /\ cpuUnchanged

\* Mutant: what came before the queue was locked is not looked for.
TestsNothing(t) ==
    /\ Going(t, "test") /\ Goto(t, "place")
    /\ UNCHANGED <<k, queue, left, items, out>> /\ cpuUnchanged

\* prvIsQueueFull, prvIsQueueEmpty: an interrupt may have made it possible.
Tests(t) ==
    /\ Going(t, "test")
    /\ Goto(t, IF CanProceed(queue, op[t].call) THEN "unlockTx" ELSE "place")
    /\ UNCHANGED <<k, queue, left, items, out>> /\ cpuUnchanged

\* The task enters the event list and a blocked list; it stays current until
\* the scheduler is resumed.  Who waits for a mutex lends its priority.
Places(t) ==
    /\ Going(t, "place")
    /\ LET q == op[t].call.q
           lends == Takes(op[t].call) /\ IsMutex(q)
           holder == queue[q].holder
           lent == IF lends THEN xTaskPriorityInherit(k, holder) ELSE k
           list == IF Sends(op[t].call) THEN SendList(q) ELSE ReceiveList(q)
       IN /\ k' = vTaskPlaceOnEventList(lent, list, op[t].ticks)
          /\ op' = [op EXCEPT ![t].pc = "unlockTx", ![t].next = "blocked",
                ![t].inherited = IF lends THEN InheritanceOccurred(k, holder) ELSE @]
    /\ UNCHANGED <<queue, left, items, out>> /\ cpuUnchanged

\* As many waiters are woken as interrupts sent, or took, under the lock.
\* vTaskMissedYield is the yield flag, which is set already.
UnlockWakes(kk, list, count) ==
    FoldLeft(LAMBDA x, i : xTaskRemoveFromEventList(x, list), kk,
             [i \in 1 .. Min({Max({count, 0}), Len(kk.events[list])}) |-> i])

\* prvUnlockQueue, its two critical sections.
UnlocksTx(t) ==
    /\ Going(t, "unlockTx") /\ Goto(t, "unlockRx")
    /\ LET q == op[t].call.q
       IN /\ k' = UnlockWakes(k, ReceiveList(q), queue[q].tx)
          /\ queue' = [queue EXCEPT ![q].tx = Unlocked]
    /\ UNCHANGED <<left, items, out>> /\ cpuUnchanged

UnlocksRx(t) ==
    /\ Going(t, "unlockRx") /\ Goto(t, "resume")
    /\ LET q == op[t].call.q
       IN /\ k' = UnlockWakes(k, SendList(q), queue[q].rx)
          /\ queue' = [queue EXCEPT ![q].rx = Unlocked]
    /\ UNCHANGED <<left, items, out>> /\ cpuUnchanged

\* The scheduler resumes.  A task that blocked gives up the core; a sender
\* whose time is over returns, a receiver looks once more.
Resumes(t) ==
    /\ Going(t, "resume")
    /\ k' = IF op[t].next \in {"blocked", "delayed"} THEN ResumeAllAndYield(k) ELSE xTaskResumeAll(k)
    /\ IF op[t].next \in {"retry", "blocked"} THEN Goto(t, "try")
       ELSE IF op[t].next = "delayed" THEN Returns(t, "pass")
       ELSE IF Sends(op[t].call) THEN Returns(t, "fail")
       ELSE Goto(t, "recheck")
    /\ UNCHANGED <<queue, left, items, out>> /\ cpuUnchanged

Retries(t) ==
    /\ Going(t, "try") /\ Try(t, op[t])
    /\ UNCHANGED left /\ cpuUnchanged

\* The time is over: an item that is there all the same is tried for, else
\* the call fails, a mutex call not before it took back the priority it lent.
Rechecks(t) ==
    /\ Going(t, "recheck")
    /\ IF ~Empty(queue, op[t].call.q) THEN Goto(t, "try")
       ELSE IF op[t].inherited THEN Goto(t, "disinherit")
       ELSE Returns(t, "fail")
    /\ UNCHANGED <<k, queue, left, items, out>> /\ cpuUnchanged

Disinherits(t) ==
    /\ Going(t, "disinherit") /\ Returns(t, "fail")
    /\ LET q == op[t].call.q
       IN k' = vTaskPriorityDisinheritAfterTimeout(
                    k, queue[q].holder, prvGetDisinheritPriorityAfterTimeout(k, q))
    /\ UNCHANGED <<queue, left, items, out>> /\ cpuUnchanged

-----------------------------------------------------------------------------
(* The tasks and the interrupts.                                           *)

\* Only its holder gives a mutex; taken again, it must be recursive.
MayCall(t, call) ==
    LET held == queue[call.q].holder = t
    IN IsMutex(call.q) => /\ call.fn \in {"give", "giveRecursive"} => held
                          /\ call.fn = "take" => ~held

\* A call that ends what another began is not counted against the bound.
Counts(call) == ~Gives(call) \/ ~IsMutex(call.q)

\* xQueueTakeMutexRecursive and xQueueGiveMutexRecursive by the holder: only
\* the first taking and the last giving concern the mutex.
HoldsAgain(t, call) ==
    /\ queue[call.q].holder = t
    /\ \/ call.fn = "takeRecursive"
       \/ call.fn = "giveRecursive" /\ queue[call.q].recursion > 1

Recurses(t, call) ==
    /\ queue' = [queue EXCEPT ![call.q].recursion = IF Takes(call) THEN @ + 1 ELSE @ - 1]
    /\ Returns(t, "pass")
    /\ UNCHANGED <<k, items, out>>

\* A task makes a call of its plan, as far as its first critical section.
Calls(t) ==
    /\ Going(t, "out")
    /\ \E call \in {c \in plan[t] : c.fn \in QueueCalls} :
        /\ MayCall(t, call)
        /\ Counts(call) => left[t] > 0
        /\ left' = [left EXCEPT ![t] = IF Counts(call) THEN @ - 1 ELSE @]
        /\ IF HoldsAgain(t, call) THEN Recurses(t, call)
           ELSE Try(t, [NoOp EXCEPT !.call = call, !.ticks = call.wait,
                                    !.since = Now(k)])
    /\ cpuUnchanged

\* vTaskDelay: out of the ready list with the scheduler suspended.
vTaskDelay(t) ==
    /\ Going(t, "out") /\ left[t] > 0
    /\ \E call \in {c \in plan[t] : c.fn = "delay"} :
        /\ k' = prvAddCurrentTaskToDelayedList(vTaskSuspendAll(k), call.wait, FALSE)
        /\ op' = [op EXCEPT ![t] = [NoOp EXCEPT !.call = call, !.pc = "resume",
                                    !.next = "delayed", !.since = Now(k)]]
    /\ left' = [left EXCEPT ![t] = @ - 1]
    /\ UNCHANGED <<queue, items, out>> /\ cpuUnchanged

\* A task that has made its calls suspends itself, holding no mutex.
Finishes(t) ==
    /\ Going(t, "out") /\ left[t] = 0 /\ k.held[t] = 0
    /\ k' = portYIELD(prvResetNextTaskUnblockTime(
            [Unready(k, t, k.prio[t]) EXCEPT !.suspended = Append(@, t)]))
    /\ UNCHANGED <<queue, op, left, items, out>> /\ cpuUnchanged

Task(t) ==
    \/ Calls(t) \/ vTaskDelay(t) \/ Finishes(t) \/ Suspends(t) \/ LocksAndChecks(t)
    \/ Tests(t) \/ Places(t) \/ UnlocksTx(t) \/ UnlocksRx(t) \/ Resumes(t)
    \/ Retries(t) \/ Rechecks(t) \/ Disinherits(t)

\* On a locked queue the item is only counted.  The handler yields if it woke a
\* higher priority.
xQueueGenericSendFromISR(call) ==
    LET q == call.q
        copied == [queue EXCEPT ![q] = CopyItem(queue, q, Len(items) + 1, Position(call))]
    IN /\ CanProceed(queue, call)
       /\ IF queue[q].tx = Unlocked
          THEN queue' = copied /\ k' = Wake(k, ReceiveList(q), FALSE)
          ELSE queue' = [copied EXCEPT ![q].tx = @ + 1] /\ UNCHANGED k
       /\ Recorded(call)

\* The same without data to copy; no mutex is given by an interrupt.
xQueueGiveFromISR(call) ==
    LET q == call.q
        given == [queue EXCEPT ![q].n = @ + 1]
    IN /\ ~Full(queue, q) /\ queue[q].holder = NoTask
       /\ IF queue[q].tx = Unlocked
          THEN queue' = given /\ k' = Wake(k, ReceiveList(q), FALSE)
          ELSE queue' = [given EXCEPT ![q].tx = @ + 1] /\ UNCHANGED k
       /\ UNCHANGED <<items, out>>

xQueueReceiveFromISR(call) ==
    LET q == call.q
        received == [prvCopyDataFromQueue(queue[q], q) EXCEPT !.n = @ - 1]
        taken == [queue EXCEPT ![q] = received]
    IN /\ CanProceed(queue, call)
       /\ IF queue[q].rx = Unlocked
          THEN queue' = taken /\ k' = Wake(k, SendList(q), FALSE)
          ELSE queue' = [taken EXCEPT ![q].rx = @ + 1] /\ UNCHANGED k
       /\ Recorded(call)

Interrupt ==
    /\ left["isr"] > 0
    /\ left' = [left EXCEPT !["isr"] = @ - 1]
    /\ \E call \in {c \in plan["isr"] : c.fn \in QueueCalls} :
        \/ Sends(call) /\ ~Gives(call) /\ xQueueGenericSendFromISR(call)
        \/ Gives(call) /\ xQueueGiveFromISR(call)
        \/ call.fn \in {"receive", "take"} /\ xQueueReceiveFromISR(call)
    /\ UNCHANGED op /\ cpuUnchanged

queueUnchanged == UNCHANGED <<queue, op, left, plan, items, out>>

Next ==
    \/ PendSV /\ queueUnchanged
    \/ xPortSysTickHandler /\ queueUnchanged
    \/ prvIdleTask /\ queueUnchanged
    \/ \E t \in Users : Runs(t) /\ Task(t)
    \/ Interrupt

Spec == Init /\ [][Next]_vars

-----------------------------------------------------------------------------
(* Properties.                                                             *)

\* A task that is in a call on q and not in its event list.
Active(q, list) ==
    {t \in Users : /\ op[t].pc # "out" /\ op[t].call.q = q
                   /\ ~Sends(op[t].call) <=> list = ReceiveList(q)
                   /\ t \notin ToSet(k.events[list])}

\* No wakeup is lost: while the queue is not locked, tasks wait for items only
\* if every item there has a task awake and on its way to it; the same for
\* tasks that wait for space.
NoLostWakeup ==
    \A q \in DOMAIN Queues :
        /\ queue[q].tx = Unlocked /\ k.events[ReceiveList(q)] # <<>> =>
               queue[q].n <= Cardinality(Active(q, ReceiveList(q)))
        /\ queue[q].rx = Unlocked /\ k.events[SendList(q)] # <<>> =>
               Queues[q].length - queue[q].n <= Cardinality(Active(q, SendList(q)))

\* Whoever waits for a mutex, its holder runs at least at that priority.  A
\* priority is inherited only by a task that holds a mutex; one that holds a
\* single mutex inherits only from a task that is in a call for it.
InheritanceRight ==
    /\ \A q \in DOMAIN Queues : \A t \in ToSet(k.events[ReceiveList(q)]) :
        IsMutex(q) /\ queue[q].holder # NoTask => k.prio[queue[q].holder] >= k.prio[t]
    /\ \A t \in Users : k.prio[t] # k.base[t] =>
        /\ k.held[t] > 0
        /\ k.held[t] = 1 => \E q \in DOMAIN Queues, u \in Users :
            /\ IsMutex(q) /\ queue[q].holder = t
            /\ op[u].pc # "out" /\ op[u].call.q = q /\ k.prio[u] >= k.prio[t]

\* What taskSELECT_HIGHEST_PRIORITY_TASK asserts (tasks.c:192): whenever a switch
\* is due, the list of the highest priority whose bit is set holds a task.
SelectsATask == k.pendsv /\ k.locks = 0 => ~listEMPTY(k.ready[HighestReady(k)])

\* What xQueueSemaphoreTake asserts (queue.c:1469): a caller that lent its
\* priority never comes to its first critical section without time left.
AdjustedTimeoutNotZero == \A t \in Users : op[t].pc # "assert"

\* A call fails only after the ticks it was given, even when the tick count
\* wraps meanwhile, and never if it was given portMAX_DELAY.
NoEarlyTimeout ==
    [][\A t \in Users :
        op[t].pc # "out" /\ op'[t].pc = "out" /\ op'[t].result = "fail" =>
            /\ Now(k') >= op[t].since + op[t].call.wait
            /\ op[t].call.wait # MaxDelay]_vars

\* A queue is a bounded sequence.
Data == {q \in DOMAIN Queues : HoldsData(q)}
Bounded == [q \in Data |-> Queues[q].length]
Held == [q \in Data |-> Contents(q)]
Taken == [q \in Data |-> out[q]]
Fifo == INSTANCE BoundedQueue WITH
    Items <- Nat, Length <- Bounded, contents <- Held, taken <- Taken

FifoSpec == Fifo!Spec

=============================================================================
