---------------------------- MODULE KernelTasks ----------------------------
(***************************************************************************)
(* FreeRTOS/Source/tasks.c and list.c: the scheduler's data and the        *)
(* functions on it, as operators from a kernel state k to the next one.    *)
(* An operator is what the C function does inside one critical section (or *)
(* with the scheduler suspended, where only interrupts that respect it may *)
(* run); the modules that extend this one say when each is called.         *)
(*                                                                         *)
(* Configuration modelled: FreeRTOSConfig.h (preemption, time slicing,     *)
(* port optimised selection, tickless idle, mutexes, notifications).       *)
(***************************************************************************)
EXTENDS Naturals, Sequences, FiniteSets, SequencesExt

CONSTANTS Tasks,          \* the task control blocks, the idle task's among them
          Idle,           \* the task vTaskStartScheduler creates
          MaxPriorities,  \* configMAX_PRIORITIES
          TickModulus,    \* TickType_t counts modulo this
          NoTask          \* the NULL handle

End == "END"

ASSUME KernelAssumption ==
    /\ IsFiniteSet(Tasks) /\ Idle \in Tasks /\ {NoTask, End} \cap Tasks = {}
    /\ MaxPriorities \in Nat \ {0}
    /\ TickModulus \in Nat \ {0, 1}

Priorities == 0 .. MaxPriorities - 1
MaxDelay == TickModulus - 1        \* portMAX_DELAY
Never == MaxDelay
\* An event item that carries no event bits.
NoBits == [inuse |-> FALSE, wait |-> {}, clear |-> FALSE, all |-> FALSE, set |-> FALSE]

-----------------------------------------------------------------------------
(* Lists.  A ready list is a ring with its end marker in it and pxIndex at *)
(* its last element; the other lists are plain sequences from their head.  *)

\* Before the first item with a larger value; equal values keep their order.
vListInsert(list, item, value, values) ==
    LET after == {i \in 1 .. Len(list) : values[list[i]] > value}
    IN InsertAt(list, IF after = {} THEN Len(list) + 1 ELSE Min(after), item)

\* Just behind pxIndex, so that it is the last of the ring to have its turn.
vListInsertEnd(ring, item) == InsertAt(ring, Len(ring), item)

\* An item is in a list at most once.
uxListRemove(list, item) ==
    IF item \in ToSet(list)
    THEN RemoveAt(list, CHOOSE i \in 1 .. Len(list) : list[i] = item) ELSE list

Turn(ring) == Tail(ring) \o <<Head(ring)>>

\* pxIndex moves on, over the marker if it is there.
listGET_OWNER_OF_NEXT_ENTRY(ring) ==
    IF Head(ring) = End THEN Turn(Turn(ring)) ELSE Turn(ring)

listEMPTY(ring) == Len(ring) = 1
listLENGTH(ring) == Len(ring) - 1

-----------------------------------------------------------------------------
(* Ready lists and task states.                                            *)

prvInitialiseTaskLists ==
    [cur |-> NoTask, running |-> FALSE, tasks |-> 0,
     ready |-> [p \in Priorities |-> <<End>>], top |-> {},
     delayed |-> <<>>, overflow |-> <<>>, suspended |-> <<>>,
     termination |-> <<>>, pending |-> <<>>, events |-> <<>>,
     tick |-> 0, overflows |-> 0, unblock |-> 0,
     locks |-> 0, pended |-> 0, yield |-> FALSE, pendsv |-> FALSE,
     wake |-> [t \in Tasks |-> 0],
     prio |-> [t \in Tasks |-> 0], base |-> [t \in Tasks |-> 0],
     held |-> [t \in Tasks |-> 0], item |-> [t \in Tasks |-> 0],
     bits |-> [t \in Tasks |-> NoBits],
     nstate |-> [t \in Tasks |-> "none"], nvalue |-> [t \in Tasks |-> 0]]

Now(k) == k.overflows * TickModulus + k.tick + k.pended

IsReady(k, t) == \E p \in Priorities : t \in ToSet(k.ready[p])
InEvent(k, t) == \E e \in DOMAIN k.events : t \in ToSet(k.events[e])
InPending(k, t) == t \in ToSet(k.pending)
IsSuspendedItem(k, t) == t \in ToSet(k.suspended)
IsDelayed(k, t) == t \in ToSet(k.delayed) \cup ToSet(k.overflow)
Exists(k, t) == IsReady(k, t) \/ IsDelayed(k, t) \/ IsSuspendedItem(k, t)

\* The head of a sequence by priority: what portGET_HIGHEST_PRIORITY finds.
HighestReady(k) == CHOOSE p \in k.top : \A q \in k.top : q <= p

portYIELD(k) == [k EXCEPT !.pendsv = TRUE]
YieldIf(cond, k) == IF cond THEN portYIELD(k) ELSE k

prvAddTaskToReadyList(k, t) ==
    [k EXCEPT !.top = @ \cup {k.prio[t]},
              !.ready[k.prio[t]] = vListInsertEnd(@, t)]

\* uxListRemove on xStateListItem, whatever list holds it.
RemoveState(k, t) ==
    [k EXCEPT !.ready = [p \in Priorities |-> uxListRemove(@[p], t)],
              !.delayed = uxListRemove(@, t),
              !.overflow = uxListRemove(@, t),
              !.suspended = uxListRemove(@, t),
              !.termination = uxListRemove(@, t)]

\* uxListRemove on xEventListItem, if a list holds it.
RemoveEvent(k, t) ==
    [k EXCEPT !.events = [e \in DOMAIN @ |-> uxListRemove(@[e], t)],
              !.pending = uxListRemove(@, t)]

taskRESET_READY_PRIORITY(k, p) ==
    IF listEMPTY(k.ready[p]) THEN [k EXCEPT !.top = @ \ {p}] ELSE k

\* Out of the ready list of p, whose bit goes with its last task.
Unready(k, t, p) == taskRESET_READY_PRIORITY(RemoveState(k, t), p)

prvResetNextTaskUnblockTime(k) ==
    [k EXCEPT !.unblock =
        IF k.delayed = <<>> THEN Never ELSE k.wake[Head(k.delayed)]]

\* prvInitialiseNewTask: what a new control block holds.
prvInitialiseNewTask(k, t, priority) ==
    LET p == IF priority < MaxPriorities THEN priority ELSE MaxPriorities - 1
    IN [k EXCEPT !.prio[t] = p, !.base[t] = p, !.held[t] = 0,
                 !.item[t] = MaxPriorities - p, !.bits[t] = NoBits,
                 !.nvalue[t] = 0, !.nstate[t] = "none"]

\* Before the scheduler runs, the last created of the highest priority is
\* current; afterwards a higher priority only asks for a switch.
prvAddNewTaskToReadyList(k, t) ==
    LET first == k.cur = NoTask
        takes == first \/ (~k.running /\ k.prio[k.cur] <= k.prio[t])
        added == prvAddTaskToReadyList([k EXCEPT !.tasks = @ + 1], t)
    IN IF takes THEN [added EXCEPT !.cur = t]
       ELSE YieldIf(k.running /\ k.prio[k.cur] < k.prio[t], added)

xTaskCreate(k, t, priority) ==
    prvAddNewTaskToReadyList(prvInitialiseNewTask(k, t, priority), t)

\* The tick starts at zero with the idle task created and nothing delayed.
vTaskStartScheduler(k) ==
    [xTaskCreate(k, Idle, 0) EXCEPT
        !.unblock = Never, !.running = TRUE, !.tick = 0]

eTaskGetState(k, t) ==
    CASE t = k.cur -> "running"
      [] t # k.cur /\ IsDelayed(k, t) -> "blocked"
      [] t # k.cur /\ IsSuspendedItem(k, t) ->
             IF InEvent(k, t) \/ InPending(k, t) THEN "blocked" ELSE "suspended"
      [] t # k.cur /\ IsReady(k, t) -> "ready"
      [] OTHER -> "deleted"

-----------------------------------------------------------------------------
(* The current task blocks.                                                *)

prvAddCurrentTaskToDelayedList(k, ticks, indefinitely) ==
    LET t == k.cur
        out == Unready(k, t, k.prio[t])
        wake == (k.tick + ticks) % TickModulus
        timed == [out EXCEPT !.wake[t] = wake]
    IN IF ticks = MaxDelay /\ indefinitely
       THEN [out EXCEPT !.suspended = Append(@, t)]
       ELSE IF wake < k.tick
       THEN [timed EXCEPT !.overflow = vListInsert(@, t, wake, timed.wake)]
       ELSE [timed EXCEPT !.delayed = vListInsert(@, t, wake, timed.wake),
                          !.unblock = IF wake < @ THEN wake ELSE @]

\* In the order of priority: item values are MaxPriorities - priority.
vTaskPlaceOnEventList(k, list, ticks) ==
    prvAddCurrentTaskToDelayedList(
        [k EXCEPT !.events[list] = vListInsert(@, k.cur, k.item[k.cur], k.item)],
        ticks, TRUE)

vTaskPlaceOnUnorderedEventList(k, list, bits, ticks) ==
    prvAddCurrentTaskToDelayedList(
        [k EXCEPT !.bits[k.cur] = bits, !.events[list] = Append(@, k.cur)],
        ticks, TRUE)

vTaskPlaceOnEventListRestricted(k, list, ticks, forever) ==
    prvAddCurrentTaskToDelayedList(
        [k EXCEPT !.events[list] = Append(@, k.cur)],
        IF forever THEN MaxDelay ELSE ticks, forever)

-----------------------------------------------------------------------------
(* Tasks leave event lists.                                                *)

\* A task that cannot be made ready yet waits on the pending list.
MakeReadyOrPend(k, t) ==
    IF k.locks = 0 THEN prvAddTaskToReadyList(RemoveState(k, t), t)
    ELSE [k EXCEPT !.pending = Append(@, t)]

Outranks(k, t) == k.prio[t] > k.prio[k.cur]

xTaskRemoveFromEventList(k, list) ==
    LET t == Head(k.events[list])
        woken == MakeReadyOrPend([k EXCEPT !.events[list] = Tail(@)], t)
    IN prvResetNextTaskUnblockTime(
        [woken EXCEPT !.yield = @ \/ Outranks(k, t)])

\* What xTaskRemoveFromEventList returns: the caller should yield.
WakesHigher(k, list) == Outranks(k, Head(k.events[list]))

vTaskRemoveFromUnorderedEventList(k, t, bits) ==
    LET out == RemoveEvent([k EXCEPT !.bits[t] = bits], t)
    IN [prvAddTaskToReadyList(RemoveState(out, t), t)
            EXCEPT !.yield = @ \/ Outranks(k, t)]

uxTaskResetEventItemValue(k) ==
    [k EXCEPT !.bits[k.cur] = NoBits,
              !.item[k.cur] = MaxPriorities - k.prio[k.cur]]

-----------------------------------------------------------------------------
(* The tick.  Wake times are unblocked from the head of the delayed list.  *)

taskSWITCH_DELAYED_LISTS(k) ==
    prvResetNextTaskUnblockTime(
        [k EXCEPT !.delayed = k.overflow, !.overflow = k.delayed,
                  !.overflows = @ + 1])

\* The delayed tasks whose time has come, from the head.
Due(k) ==
    LET late == {i \in 1 .. Len(k.delayed) : k.tick < k.wake[k.delayed[i]]}
    IN SubSeq(k.delayed, 1, IF late = {} THEN Len(k.delayed) ELSE Min(late) - 1)

UnblockDelayed(k, t) ==
    prvAddTaskToReadyList(RemoveEvent(RemoveState(k, t), t), t)

Sliced(k) == listLENGTH(k.ready[k.prio[k.cur]]) > 1

\* The tick is counted later if the scheduler is suspended.  "switch" is the
\* value returned: a switch is wanted.
xTaskIncrementTick(k) ==
    IF k.locks # 0 THEN [k |-> [k EXCEPT !.pended = @ + 1], switch |-> k.yield]
    ELSE LET tick == (k.tick + 1) % TickModulus
             ticked == [k EXCEPT !.tick = tick]
             turned == IF tick = 0 THEN taskSWITCH_DELAYED_LISTS(ticked) ELSE ticked
             due == IF tick >= turned.unblock THEN Due(turned) ELSE <<>>
             woken == FoldLeft(UnblockDelayed, turned, due)
             after == IF tick >= turned.unblock
                      THEN prvResetNextTaskUnblockTime(woken) ELSE woken
         IN [k |-> after,
             switch |-> \/ k.yield \/ Sliced(after)
                        \/ \E t \in ToSet(due) : k.prio[t] >= k.prio[k.cur]]

vTaskStepTick(k, jump) == [k EXCEPT !.tick = @ + jump]

-----------------------------------------------------------------------------
(* Suspending the scheduler, switching context.                            *)

vTaskSuspendAll(k) == [k EXCEPT !.locks = @ + 1]

\* A task that became ready while the scheduler was suspended.
ReadyPended(k, t) ==
    LET r == prvAddTaskToReadyList(RemoveState(RemoveEvent(k, t), t), t)
    IN [r EXCEPT !.yield = @ \/ k.prio[t] >= k.prio[k.cur]]

CountPended(k, i) ==
    LET r == xTaskIncrementTick(k)
    IN [r.k EXCEPT !.yield = @ \/ r.switch]

xTaskResumeAll(k) ==
    LET open == [k EXCEPT !.locks = @ - 1]
        readied == FoldLeft(ReadyPended, open, k.pending)
        reset == IF k.pending = <<>> THEN readied
                 ELSE prvResetNextTaskUnblockTime(readied)
        counted == [FoldLeft(CountPended, reset, [i \in 1 .. k.pended |-> i])
                        EXCEPT !.pended = 0]
    IN IF open.locks # 0 THEN open ELSE YieldIf(counted.yield, counted)

\* A blocking function ends with xTaskResumeAll, and yields itself when that
\* has not: in both cases a switch is pending.
ResumeAllAndYield(k) == portYIELD(xTaskResumeAll(k))

\* taskSELECT_HIGHEST_PRIORITY_TASK, or a note that a switch is wanted.
vTaskSwitchContext(k) ==
    IF k.locks # 0 THEN [k EXCEPT !.yield = TRUE, !.pendsv = FALSE]
    ELSE LET p == HighestReady(k)
             ring == listGET_OWNER_OF_NEXT_ENTRY(k.ready[p])
         IN [k EXCEPT !.yield = FALSE, !.pendsv = FALSE,
                      !.ready[p] = ring, !.cur = Last(ring)]

=============================================================================
