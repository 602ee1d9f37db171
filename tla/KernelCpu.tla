----------------------------- MODULE KernelCpu -----------------------------
(***************************************************************************)
(* One Cortex-M core under the FreeRTOS scheduler: the two exceptions of   *)
(* portable/CCS/ARM_CM4F (PendSV, SysTick) and the idle task with its      *)
(* tickless sleep.  A module that extends this one adds what the other     *)
(* tasks do.                                                               *)
(*                                                                         *)
(* Exceptions may come between any two steps.  A step is one critical      *)
(* section, or a stretch that only its own task and no interrupt reads.    *)
(***************************************************************************)
EXTENDS KernelTasks

CONSTANTS Priority,       \* Priority[t]: the priority t is created with
          Suppressible,   \* xMaximumPossibleSuppressedTicks
          MaxTicks        \* bound of the model: ticks of a run

ASSUME CpuAssumption ==
    /\ Priority \in [Tasks -> Priorities] /\ Priority[Idle] = 0
    /\ Suppressible \in Nat \ {0} /\ MaxTicks \in Nat

VARIABLES
    k,      \* the kernel
    idle,   \* where prvIdleTask is
    expect  \* xExpectedIdleTime

\* main() creates the tasks in some order; then the scheduler starts.
Created(order, lists) ==
    [vTaskStartScheduler(
        FoldLeft(LAMBDA kk, t : xTaskCreate(kk, t, Priority[t]),
                 prvInitialiseTaskLists, order))
        EXCEPT !.events = [l \in lists |-> <<>>]]

\* t executes: it is current and no switch is about to take the core from it.
Runs(t) == k.cur = t /\ ~k.pendsv

PendSV ==
    /\ k.pendsv
    /\ k' = vTaskSwitchContext(k)
    /\ UNCHANGED <<idle, expect>>

xPortSysTickHandler ==
    /\ Now(k) < MaxTicks
    /\ LET r == xTaskIncrementTick(k) IN k' = YieldIf(r.switch, r.k)
    /\ UNCHANGED <<idle, expect>>

-----------------------------------------------------------------------------
(* The idle task.                                                          *)

\* The memory of a task that deleted itself is given back here.
prvCheckTasksWaitingTermination ==
    /\ Runs(Idle) /\ idle = "clean"
    /\ IF k.termination = <<>>
       THEN idle' = "yield" /\ UNCHANGED k
       ELSE /\ k' = [RemoveState(k, Head(k.termination)) EXCEPT !.tasks = @ - 1]
            /\ UNCHANGED idle
    /\ UNCHANGED expect

prvGetExpectedIdleTime ==
    IF \/ k.prio[k.cur] > 0
       \/ listLENGTH(k.ready[0]) > 1
       \/ \E p \in k.top : p > 0
    THEN 0 ELSE k.unblock - k.tick

WorthSleeping(ticks) == ticks >= 2   \* configEXPECTED_IDLE_TIME_BEFORE_SLEEP

\* The idle task shares its priority, or looks whether it may sleep.
IdleChecks ==
    /\ Runs(Idle) /\ idle = "yield"
    /\ \/ /\ listLENGTH(k.ready[0]) > 1
          /\ k' = portYIELD(k) /\ idle' = "clean"
       \/ /\ listLENGTH(k.ready[0]) <= 1
          /\ IF WorthSleeping(prvGetExpectedIdleTime)
             THEN k' = vTaskSuspendAll(k) /\ idle' = "expect"
             ELSE UNCHANGED k /\ idle' = "clean"
    /\ UNCHANGED expect

\* Read again, now that only interrupts can change it.
IdleExpects ==
    /\ Runs(Idle) /\ idle = "expect"
    /\ expect' = prvGetExpectedIdleTime
    /\ idle' = IF WorthSleeping(expect') THEN "sleep" ELSE "wake"
    /\ UNCHANGED k

eTaskConfirmSleepModeStatus ==
    IF k.pending # <<>> \/ k.yield THEN "abort"
    ELSE IF Len(k.suspended) = k.tasks - 1 THEN "noTimeouts" ELSE "standard"

\* With the interrupts masked: either the whole time passes, and the SysTick
\* that ends it counts the last tick, or another interrupt ends it early.
vPortSuppressTicksAndSleep ==
    /\ Runs(Idle) /\ idle = "sleep"
    /\ idle' = "wake"
    /\ IF eTaskConfirmSleepModeStatus = "abort" THEN UNCHANGED k
       ELSE LET asleep == Min({expect, Suppressible})
            IN /\ Now(k) + asleep <= MaxTicks
               /\ \/ k' = xTaskIncrementTick(vTaskStepTick(k, asleep - 1)).k
                  \/ \E slept \in 0 .. asleep - 1 : k' = vTaskStepTick(k, slept)
    /\ UNCHANGED expect

IdleWakes ==
    /\ Runs(Idle) /\ idle = "wake"
    /\ k' = xTaskResumeAll(k)
    /\ idle' = "clean" /\ expect' = 0

prvIdleTask ==
    \/ prvCheckTasksWaitingTermination
    \/ IdleChecks
    \/ IdleExpects
    \/ vPortSuppressTicksAndSleep
    \/ IdleWakes

CpuInit(order, lists) ==
    /\ k = Created(order, lists)
    /\ idle = "clean"
    /\ expect = 0

-----------------------------------------------------------------------------
(* What must hold of the scheduler's data between any two steps.           *)

\* No task is in two state lists, the ready bits are those of the lists that are
\* not empty, and a task in an event list is blocked.  (A task on the pending
\* list may be ready: its wait for a notification was over already.)
StatesExclusive ==
    LET ready(t) == {p \in Priorities : t \in ToSet(k.ready[p])}
        blocked == k.delayed \o k.overflow \o k.suspended \o k.termination
        waiting == UNION {ToSet(k.events[l]) : l \in DOMAIN k.events}
    IN /\ IsInjective(blocked)
       /\ \A t \in Tasks : Cardinality(ready(t)) <= IF t \in ToSet(blocked) THEN 0 ELSE 1
       /\ k.top = {p \in Priorities : ~listEMPTY(k.ready[p])}
       /\ \A p \in k.top : \A t \in ToSet(k.ready[p]) \ {End} : k.prio[t] = p
       /\ \A t \in waiting : IsDelayed(k, t) \/ IsSuspendedItem(k, t)
       /\ \A t \in ToSet(k.pending) : Exists(k, t) /\ t \notin waiting

\* The task that executes has the highest priority of all that are ready,
\* unless it suspended the scheduler.
HighestRuns ==
    ~k.pendsv /\ k.locks = 0 =>
        /\ IsReady(k, k.cur)
        /\ \A t \in Tasks : IsReady(k, t) => k.prio[t] <= k.prio[k.cur]

\* No task sleeps past its wake time, and the tick handler looks at the
\* delayed list no later than its head is due.
WokenInTime ==
    /\ \A t \in ToSet(k.delayed) : k.wake[t] > k.tick /\ k.wake[t] >= k.unblock
    /\ \A t \in ToSet(k.overflow) : k.wake[t] < k.tick
    /\ \A l \in {"delayed", "overflow"} : \A i \in 1 .. Len(k[l]) - 1 :
        k.wake[k[l][i]] <= k.wake[k[l][i + 1]]

=============================================================================
