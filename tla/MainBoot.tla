------------------------------ MODULE MainBoot ------------------------------
(***************************************************************************)
(* The microcontroller from reset to the running scheduler: main() of      *)
(* main.c (USE_UART), the interrupt of port L that it enables on the way,  *)
(* and the heartbeat, a software timer that resumes HBTask.                *)
(*                                                                         *)
(* Where main() ends, TivaPipeline begins: the tasks of the telemetry path *)
(* are created here and run there.                                         *)
(***************************************************************************)
EXTENDS Naturals, Sequences

CONSTANTS MaxEdges,   \* bound of the model: falling edges of pin 3 of port L
          MaxBeats    \* bound of the model: periods of the timer

ASSUME BoundsAssumption == MaxEdges \in Nat /\ MaxBeats \in Nat

VARIABLES
    mpc,       \* main(): which of BootSteps is next
    handles,   \* the kernel objects and tasks that exist
    masked,    \* BASEPRI holds back the interrupts that may call the kernel
    enabled,   \* the interrupt of port L is enabled
    pending,   \* the latched status of pin 3: an edge not cleared yet
    clearing,  \* PortLIntHandler has notified and not called GPIOIntClear yet
    notified,  \* ulNotifiedValue of ZXSensorTask
    halted,    \* an assertion failed: vMainAssertCalled never returns
    hb,        \* HBTask
    led,       \* its led_state
    edges,     \* edges so far: model history
    beats,     \* runs of vTimer2hzCallbackFunction: model history
    missed     \* those that found HBTask not suspended: model history

bootVars == <<mpc, handles, enabled>>
irqVars  == <<pending, clearing, notified, edges>>
hbVars   == <<hb, led, beats, missed>>
bootAll == <<mpc, handles, masked, enabled, pending, clearing, notified, halted, hb,
          led, edges, beats, missed>>

\* What main() calls after GPIOInterruptEnable and what each call makes exist.
\* The first is the heap's xTaskResumeAll inside xTimerCreate, a critical section
\* before any handle is assigned; xTimerStart only queues a command for the timer
\* task.
BootSteps == <<{}, {"Timer2hz"}, {"ZX_sem"}, {"RGB_sem"}, {"COMUARTClientTask"},
               {"HBHandle"}, {"ZXSensorHandle"}, {"RGBSensorTask"}>>

BootInit ==
    /\ mpc = 0
    /\ handles = {}
    /\ masked = FALSE
    /\ enabled = FALSE
    /\ pending = FALSE
    /\ clearing = FALSE
    /\ notified = 0
    /\ halted = FALSE
    /\ hb = "setup"
    /\ led = "off"
    /\ edges = 0
    /\ beats = 0
    /\ missed = 0

Scheduled == mpc = Len(BootSteps) + 2

-----------------------------------------------------------------------------
(* main()                                                                  *)

GPIOInterruptEnable ==
    /\ mpc = 0
    /\ enabled' = TRUE
    /\ mpc' = 1
    /\ UNCHANGED <<handles, masked, irqVars, halted, hbVars>>

\* Mutant: a critical section before the scheduler runs unmasks on its way out.
MaskedAfter(called) == FALSE

\* A kernel call before the scheduler runs leaves the interrupts masked: the
\* critical nesting count starts at 0xaaaaaaaa and never comes down to 0.
MaskedByCall(called) == masked \/ called

\* xTimerCreate, xSemaphoreCreateBinary or xTaskCreate.
Create ==
    /\ mpc \in 1..Len(BootSteps)
    /\ handles' = handles \cup BootSteps[mpc]
    /\ mpc' = mpc + 1
    /\ masked' = MaskedByCall(TRUE)
    /\ UNCHANGED <<enabled, irqVars, halted, hbVars>>

\* Mutant: the first task starts with the interrupts still masked.
StartStaysMasked ==
    /\ mpc = Len(BootSteps) + 1
    /\ mpc' = mpc + 1
    /\ UNCHANGED <<handles, masked, enabled, irqVars, halted, hbVars>>

\* vTaskStartScheduler: the first task starts with interrupts unmasked.
StartScheduler ==
    /\ mpc = Len(BootSteps) + 1
    /\ mpc' = mpc + 1
    /\ masked' = FALSE
    /\ UNCHANGED <<handles, enabled, irqVars, halted, hbVars>>

-----------------------------------------------------------------------------
(* The interrupt                                                           *)

\* Pin 3 of port L falls: a latched status bit, so two edges before the handler
\* clears it are one interrupt.
Edge ==
    /\ enabled
    /\ edges < MaxEdges
    /\ edges' = edges + 1
    /\ pending' = TRUE
    /\ UNCHANGED <<bootVars, masked, clearing, notified, halted, hbVars>>

\* vTaskNotifyGiveFromISR begins with configASSERT(xTaskToNotify).
PortLIntHandler ==
    /\ pending
    /\ ~masked
    /\ ~clearing
    /\ IF "ZXSensorHandle" \in handles
       THEN /\ notified' = notified + 1
            /\ clearing' = TRUE
            /\ UNCHANGED halted
       ELSE halted' = TRUE /\ UNCHANGED <<notified, clearing>>
    /\ UNCHANGED <<bootVars, masked, pending, edges, hbVars>>

\* The end of the handler. An edge since the notification is cleared with it.
GPIOIntClear ==
    /\ clearing
    /\ clearing' = FALSE
    /\ pending' = FALSE
    /\ UNCHANGED <<bootVars, masked, notified, edges, halted, hbVars>>

-----------------------------------------------------------------------------
(* The heartbeat                                                           *)

\* Mutant: a resume is remembered although the task was not suspended.
ResumeAlways ==
    /\ hb' = "ready"
    /\ UNCHANGED missed

\* vTaskResume(HBHandle) does nothing to a task that is not suspended.
Resume ==
    IF hb = "suspended" THEN hb' = "ready" /\ UNCHANGED missed
                        ELSE missed' = missed + 1 /\ UNCHANGED hb

vTimer2hzCallbackFunction ==
    /\ Scheduled
    /\ beats < MaxBeats
    /\ beats' = beats + 1
    /\ IF "HBHandle" \in handles
       THEN Resume /\ UNCHANGED halted
       ELSE halted' = TRUE /\ UNCHANGED <<hb, missed>>
    /\ UNCHANGED <<bootVars, masked, irqVars, led>>

\* vTaskSuspend(HBHandle)
HBSuspend ==
    /\ Scheduled
    /\ hb \in {"setup", "toggled"}
    /\ hb' = "suspended"
    /\ UNCHANGED <<bootVars, masked, irqVars, halted, led, beats, missed>>

HBToggle ==
    /\ hb = "ready"
    /\ hb' = "toggled"
    /\ led' = IF led = "off" THEN "on" ELSE "off"
    /\ UNCHANGED <<bootVars, masked, irqVars, halted, beats, missed>>

-----------------------------------------------------------------------------
\* The handler runs to its end before main() or a task goes on, and once an
\* assertion has failed nothing runs any more.
Running == ~halted /\ ~clearing

Main == Running /\ (GPIOInterruptEnable \/ Create \/ StartScheduler)
TimerTask == Running /\ vTimer2hzCallbackFunction
HBTask == Running /\ (HBSuspend \/ HBToggle)
Interrupt == ~halted /\ (PortLIntHandler \/ GPIOIntClear)
Pin == ~halted /\ Edge

BootNext == Main \/ TimerTask \/ HBTask \/ Interrupt \/ Pin

BootSpec == BootInit /\ [][BootNext]_bootAll

-----------------------------------------------------------------------------
(* Properties                                                              *)

\* The only assertion of the boot that can fail is the handler's, and only in
\* the window between GPIOInterruptEnable and the first kernel call: from there
\* on the interrupt is held back until the scheduler runs, when the task it
\* notifies exists.
HaltsOnlyInWindow == halted => handles = {} /\ ~masked

\* Each period of the timer toggles the LED once, unless it finds HBTask not yet
\* suspended again; a toggle is never owed twice.
BeatsAccounted ==
    LET owed == IF hb = "ready" THEN 1 ELSE 0
    IN  /\ missed + owed <= beats
        /\ (led = "on") <=> (beats - missed - owed) % 2 = 1

\* An edge that falls outside the handler is not lost, masked interrupts or not:
\* one more notification follows it, unless the boot has halted.
EdgeIsNotified ==
    \A n \in 0..MaxEdges :
        (pending /\ ~clearing /\ notified = n) ~> (halted \/ notified > n)

=============================================================================
