--------------------------- MODULE MainBootProofs ---------------------------
(***************************************************************************)
(* The boot and the heartbeat of MainBoot, for any number of edges of the  *)
(* pin and of periods of the timer.                                        *)
(***************************************************************************)
EXTENDS MainBoot, TLAPS

TypeOK ==
    /\ mpc \in 0..10
    /\ masked \in BOOLEAN
    /\ halted \in BOOLEAN
    /\ hb \in {"setup", "suspended", "ready", "toggled"}
    /\ led \in {"off", "on"}
    /\ beats \in Nat
    /\ missed \in Nat

\* What main() has done so far.  Before its first kernel call the interrupts are
\* unmasked and nothing exists; from there to the scheduler they are masked; when
\* the scheduler starts, the tasks that the handler and the timer name exist.
Booted ==
    /\ mpc < 2 => handles = {} /\ ~masked
    /\ mpc \in 2..9 => masked
    /\ mpc > 6 => "HBHandle" \in handles
    /\ mpc > 7 => "ZXSensorHandle" \in handles

Boot == TypeOK /\ Booted /\ HaltsOnlyInWindow

LEMMA Steps ==
    /\ Len(BootSteps) = 8
    /\ BootSteps[6] = {"HBHandle"} /\ BootSteps[7] = {"ZXSensorHandle"}
BY DEF BootSteps

LEMMA BootStarts == BootInit => Boot
<1> SUFFICES ASSUME BootInit PROVE Boot
  OBVIOUS
<1>1. TypeOK
  <2>1. 0 \in 0..10 /\ 0 \in Nat
    OBVIOUS
  <2> QED
    BY <2>1 DEF BootInit, TypeOK
<1>2. Booted /\ HaltsOnlyInWindow
  BY DEF BootInit, Booted, HaltsOnlyInWindow
<1> QED
  BY <1>1, <1>2 DEF Boot

LEMMA BootStep == Boot /\ [BootNext]_bootAll => Boot'
<1> SUFFICES ASSUME Boot, [BootNext]_bootAll PROVE Boot'
  OBVIOUS
<1> USE DEF Boot, TypeOK, Booted, bootVars, irqVars, hbVars
<1>1. ASSUME Main PROVE Boot'
  <2>1. CASE GPIOInterruptEnable
    BY <1>1, <2>1 DEF Main, Running, GPIOInterruptEnable, HaltsOnlyInWindow
  <2>2. CASE Create
    <3>1. mpc \in 1..8 /\ mpc' = mpc + 1 /\ masked' = TRUE /\ ~halted'
      BY <1>1, <2>2, Steps DEF Main, Running, Create, MaskedByCall
    <3>2. handles' = handles \cup BootSteps[mpc]
      BY <2>2 DEF Create
    <3>3. /\ mpc' > 6 => "HBHandle" \in handles'
          /\ mpc' > 7 => "ZXSensorHandle" \in handles'
      BY <3>1, <3>2, Steps
    <3>4. TypeOK'
      <4>1. UNCHANGED <<halted, hb, led, beats, missed>> /\ mpc' \in 0..10
        BY <2>2, <3>1 DEF Create
      <4> QED
        BY <3>1, <4>1
    <3> QED
      BY <3>1, <3>3, <3>4 DEF HaltsOnlyInWindow
  <2>3. CASE StartScheduler
    <3>1. /\ mpc = 9 /\ mpc' = 10 /\ masked' = FALSE /\ ~halted
          /\ UNCHANGED <<handles, halted, hb, led, beats, missed>>
      BY <1>1, <2>3, Steps DEF Main, Running, StartScheduler
    <3>2. 10 \in 0..10 /\ FALSE \in BOOLEAN
      OBVIOUS
    <3>3. TypeOK'
      BY <3>1, <3>2
    <3>4. Booted'
      BY <3>1
    <3> QED
      BY <3>1, <3>3, <3>4 DEF HaltsOnlyInWindow
  <2> QED
    BY <1>1, <2>1, <2>2, <2>3 DEF Main
<1>2. ASSUME TimerTask PROVE Boot'
  BY <1>2, Steps DEF TimerTask, Running, vTimer2hzCallbackFunction, Resume, Scheduled,
     HaltsOnlyInWindow
<1>3. ASSUME HBTask PROVE Boot'
  BY <1>3 DEF HBTask, Running, HBSuspend, HBToggle, HaltsOnlyInWindow
<1>4. ASSUME Interrupt PROVE Boot'
  <2>1. UNCHANGED <<mpc, handles, masked, hb, led, beats, missed>> /\ ~halted
    BY <1>4 DEF Interrupt, PortLIntHandler, GPIOIntClear
  <2>2. TypeOK' /\ Booted'
    BY <1>4, <2>1 DEF Interrupt, PortLIntHandler, GPIOIntClear
  <2>3. CASE PortLIntHandler
    <3>1. halted' => ~masked /\ "ZXSensorHandle" \notin handles
      BY <2>1, <2>3 DEF PortLIntHandler
    <3>2. halted' => mpc < 2
      BY <3>1
    <3> QED
      BY <2>1, <2>2, <3>2 DEF HaltsOnlyInWindow
  <2>4. CASE GPIOIntClear
    BY <2>1, <2>2, <2>4 DEF GPIOIntClear, HaltsOnlyInWindow
  <2> QED
    BY <1>4, <2>3, <2>4 DEF Interrupt
<1>5. ASSUME Pin PROVE Boot'
  BY <1>5 DEF Pin, Edge, HaltsOnlyInWindow
<1>6. CASE UNCHANGED bootAll
  BY <1>6 DEF bootAll, HaltsOnlyInWindow
<1> QED
  BY <1>1, <1>2, <1>3, <1>4, <1>5, <1>6 DEF BootNext

LEMMA BootHolds == BootSpec => []Boot
BY BootStarts, BootStep, PTL DEF BootSpec

\* The only assertion of the boot that can fail is the handler's, and only in the
\* window between GPIOInterruptEnable and the first kernel call.
THEOREM BootHaltsOnlyInWindow == BootSpec => []HaltsOnlyInWindow
BY BootHolds, PTL DEF Boot

-----------------------------------------------------------------------------
(* The heartbeat.                                                          *)

Owed == IF hb = "ready" THEN 1 ELSE 0

LEMMA NextParity ==
    ASSUME NEW n \in Nat
    PROVE  (n + 1) % 2 = 1 <=> n % 2 # 1
OBVIOUS

LEMMA BeatsAre ==
    BeatsAccounted <=>
        /\ missed + Owed <= beats
        /\ (led = "on") <=> (beats - missed - Owed) % 2 = 1
BY DEF BeatsAccounted, Owed

LEMMA BeatsStep == Boot /\ BeatsAccounted /\ [BootNext]_bootAll => BeatsAccounted'
<1> SUFFICES ASSUME Boot, BeatsAccounted, [BootNext]_bootAll PROVE BeatsAccounted'
  OBVIOUS
<1> DEFINE n == beats - missed - Owed
<1>1. /\ beats \in Nat /\ missed \in Nat /\ Owed \in {0, 1}
      /\ missed + Owed <= beats
      /\ led \in {"off", "on"}
      /\ led = "on" <=> n % 2 = 1
  BY BeatsAre DEF Boot, TypeOK, Owed
<1>2. CASE UNCHANGED hbVars
  BY <1>2 DEF hbVars, BeatsAccounted
<1>3. ASSUME vTimer2hzCallbackFunction PROVE BeatsAccounted'
  <2>1. "HBHandle" \in handles
    BY <1>3, Steps DEF vTimer2hzCallbackFunction, Scheduled, Boot, Booted
  <2>2. beats' = beats + 1 /\ led' = led /\ Resume
    BY <1>3, <2>1 DEF vTimer2hzCallbackFunction
  <2>3. \/ missed' = missed /\ Owed = 0 /\ Owed' = 1
        \/ missed' = missed + 1 /\ Owed' = Owed
    BY <2>2 DEF Resume, Owed
  <2>4. missed' + Owed' <= beats' /\ beats' - missed' - Owed' = n
    BY <1>1, <2>2, <2>3
  <2> QED
    BY <1>1, <2>2, <2>4 DEF BeatsAccounted, Owed
<1>4. CASE HBSuspend
  BY <1>4 DEF HBSuspend, BeatsAccounted
<1>5. CASE HBToggle
  <2>1. /\ UNCHANGED <<beats, missed>> /\ Owed = 1 /\ Owed' = 0
        /\ led' = IF led = "off" THEN "on" ELSE "off"
    BY <1>5 DEF HBToggle, Owed
  <2>2. n \in Nat /\ beats' - missed' - Owed' = n + 1 /\ missed' + Owed' <= beats'
    BY <1>1, <2>1
  <2>3. led' = "on" <=> (n + 1) % 2 = 1
    <3>1. (n + 1) % 2 = 1 <=> n % 2 # 1
      BY <2>2, NextParity
    <3> HIDE DEF n
    <3> QED
      BY <1>1, <2>1, <3>1
  <2> QED
    BY <2>2, <2>3 DEF BeatsAccounted, Owed
<1>6. CASE Main \/ Interrupt \/ Pin \/ UNCHANGED bootAll
  BY <1>2, <1>6 DEF Main, GPIOInterruptEnable, Create, StartScheduler, Interrupt,
     PortLIntHandler, GPIOIntClear, Pin, Edge, bootAll, hbVars
<1> QED
  BY <1>3, <1>4, <1>5, <1>6 DEF BootNext, TimerTask, HBTask

LEMMA BeatsInit == BootInit => BeatsAccounted
BY DEF BootInit, BeatsAccounted

\* Each period of the timer toggles the LED once, unless it finds HBTask not yet
\* suspended again; however the two tasks interleave, no toggle is owed twice.
THEOREM EachBeatTogglesOnce == BootSpec => []BeatsAccounted
BY BootHolds, BeatsInit, BeatsStep, PTL DEF BootSpec

=============================================================================
