# A TLA+ model of the APES project 2 telemetry system

The repository is a two-board telemetry system. A Tiva TM4C1294 running FreeRTOS
reads a distance sensor (ZX) and a colour sensor (ISL29125, "RGB") over I2C and
sends 24-byte records to a BeagleBone Green (BBG), which logs them to a file. A
compile-time switch selects a serial line (`USE_UART`, what the repository ships:
`MyIncludes/common.h:14`, `BBG/includes.h:13`) or TCP sockets (`USE_SOCKET`, over
FreeRTOS+TCP and the Ethernet driver of the repository).

This directory holds specifications of that program, translated from its source,
configurations that check them with TLC, and proofs checked by TLAPS.

## 1. The system and its parts

```
 ZX sensor --I2C0--> ZXSensorTask  --ZX_Que-->  ZXTask  --+ back
                                                          +--> COM_que --> COMUARTClientTask
 RGB sensor --I2C0-> RGBSensorTask --RGB_Que--> RGBTask --+ front             |
      |                                                                       | UART6, 9600 baud
      +-- interrupt line --> port L handler --notification--> ZXSensorTask    v
                                                     /dev/ttyO1 --> comTask --/com_MQ2--> taskThread --> logfile.txt

 USE_SOCKET:  ZXTask  --FreeRTOS_send--> TCP connection 1 --> taskThread 1 --+
              RGBTask --FreeRTOS_send--> TCP connection 0 --> taskThread 0 --+--> logfile.txt
              (sockets, TCP, IP task) --> network buffers --> descriptor rings --> Ethernet
```

| Part (source) | State it keeps | Operations | What makes it correct |
|---|---|---|---|
| `main()`, port L handler, timer callback (`main.c`), `HBTask` (`COM/ZXCOMTask.c:74`) | kernel handles, interrupt enable and mask, notification count, HBTask's suspension | boot, `PortLIntHandler`, `vTimer2hzCallbackFunction`, suspend and toggle | no handler runs on a handle that does not exist; an edge becomes a notification; the LED follows the timer |
| `ZXSensorTask`, `RGBSensorTask` | `tx_buf`, `read_val`, position in the loop | wait for the semaphore, configure, read, send, wait | one reading per notification; what is labelled a position is one; nothing is sent twice |
| `ZXTask`, `RGBTask` (`COM/`) | `tx_buf`, `ZX_Que`, `RGB_Que`, the semaphores | create queue, give, receive, forward with a timeout | handles exist before use; distance readings keep their order; a full queue or connection delays and drops, and never wedges |
| `COMUARTClientTask` (`COM/COMTask.c:31`) | `COM_que`, `tx_buf` | create queue and COM tasks, receive, transmit | start-up ends; every message received is sent once |
| `COMSocketClientTask` (`COM/COMTask.c:72`), event hook (`MyCallbacks.c:22`) | the two sockets, `xTasksAlreadyCreated` | connect, create a task per connection | one client however often the network comes up; a failed connect does not stop what runs |
| I2C driver (`MySources/MyI2C.c`) | the controller's registers | `I2C0_Master_Write`, `I2C0_Master_Read` | a call reads or writes the register it was asked for; every call returns |
| BBG `main`, `comTask`, `taskThread` (`BBG/`) | `gclose_app`, `rx_buf`s, descriptors, the POSIX queue, sockets, the log file | read, timed send, timed receive, accept, log, SIGINT, restart | a frame is logged at most once and in order; a crash costs what is in hand; SIGINT ends the process |
| FreeRTOS kernel (`FreeRTOS/Source`) | ready, delayed, pending, suspended and event lists, tick count, queues with their locks, notifications, event groups, timers, stream buffers | the API calls, PendSV, SysTick, the idle task's sleep | the highest ready task runs; no wakeup is lost or early; lists agree with states, across a wrap of the count |
| `heap_4.c` | list of free blocks | allocate, free | blocks do not overlap; nothing leaks |
| Network buffers and Ethernet driver (`BufferAllocation_2.c`, `NetworkInterface.c`) | pool, counting semaphore, two DMA rings with their indices | get, release, receive task, interrupt handler, transmit | a buffer has one owner; frames reach the IP task in order, at most once |
| IP task (`FreeRTOS_IP.c`, `_ARP.c`, `_DHCP.c`, `_DNS.c`, `_UDP_IP.c`) | event queue, timers, ARP and DNS tables, DHCP state, UDP sockets | events, packets, timers, calls of applications | tables tell what their owners said, the DNS table until two tasks are in it at once; the address is leased; buffers and sockets are not lost |
| TCP (`FreeRTOS_TCP_IP.c`, `_TCP_WIN.c`, `_Stream_Buffer.c`, `_Sockets.c`) | socket states, windows, rings, event bits | socket, bind, listen, connect, accept, send, recv, shutdown, close; segments, timers | each direction is a pipe of bytes; a socket has one owner; no application sleeps over an event |
| `uartstdio.c`, `startup_ccs.c`, `MyServer.c`, `Test/` | console, vectors | - | not modelled (section 7) |

How they interact: tasks of the Tiva share the kernel's queues, two binary
semaphores, one task notification and, without any lock, the I2C controller. The IP
task is driven by an event queue that the driver's task, applications and timers
fill; applications wait on the event group of a socket. The two threads of the BBG
share the queue `/com_MQ2` (or the log file) and the flag `gclose_app`. The boards
share the serial line, in one direction, or two TCP connections.

What is hard here:

* *Interleaving.* All application tasks have priority 1 and the kernel preempts and
  time-slices (`MyIncludes/FreeRTOSConfig.h:66-67`); an interrupt can come between any
  two instructions. The kernel's own calls are loops of critical sections.
* *Ordering.* `RGBTask` and the INIT message of `RGBSensorTask` jump their
  queues; start-up is a chain over five tasks; the interrupt is enabled before its
  task exists; segments, replies and commands to the timer daemon come late.
* *Back-pressure.* Queues of ten behind a busy-waiting UART, buffer pools, DMA rings and
  an event queue that run full, with sends that give up.
* *Failures.* On the BBG every failing call but `open`, `malloc` and
  `pthread_create` is printed and its result used all the same; the message queue
  survives the process, the log does not survive its restart.
* *Wrap-around.* The tick count and the sequence numbers.
* *Missing locks.* Both tasks of a look-up write the DNS table, all callers share one static
  socket, and a socket's flags are bits of one word that applications and the IP task write.

## 2. The modules

| Module | Models |
|---|---|
| `TelemetryChannel` | abstract: numbered messages, carried at most once, never invented, some sources in order |
| `TivaPipeline` | the five telemetry tasks and the port L interrupt, from `vTaskStartScheduler` on |
| `I2CMaster`, `MCI2CMaster` | `MyI2C.c` with the controller and the sensors around it |
| `MainBoot` | `main()` from the first interrupt enable to the scheduler, the port L handler, the heartbeat |
| `MCBoard` | `MainBoot` and `I2CMaster`, one at a time |
| `BBGServer` | the server process of the serial build, with failing calls, SIGINT, crashes and restarts |
| `SocketBuild` | the socket build on both boards: hook, client task, COM tasks, accept loop, threads |
| `MCServer` | the two builds side by side |
| `KernelTasks` | `tasks.c`, `list.c`: the scheduler's lists and the functions on them, as operators on a kernel state |
| `KernelCpu` (extends `KernelTasks`) | one core: PendSV, SysTick, the idle task and its tickless sleep |
| `KernelQueue` (extends `KernelCpu`) | `queue.c`: queues, semaphores, mutexes with inheritance, from tasks and interrupts |
| `BoundedQueue` | abstract: what `KernelQueue` refines |
| `KernelSync` (extends `KernelQueue`) | delays, suspension, priorities, creation and deletion, notifications, event groups |
| `SwTimers` (extends `KernelSync`) | `timers.c`: the daemon, its two lists and its command queue |
| `StreamBuffers` (extends `SwTimers`) | `stream_buffer.c`: stream and message buffers |
| `MCKernelQueue`, `MCKernelServices` | three tasks and an interrupt on those |
| `Heap` | `heap_4.c` as operators |
| `NetDriver` | `BufferAllocation_2.c`, `NetworkInterface.c`, over `Heap`; refines `TelemetryChannel` |
| `MCDriver` | `NetDriver` and `MCKernelQueue`, one at a time |
| `IpArp`, `IpDns`, `IpStack`, `IpDhcp` | the handlers of the IP task as operators on the state of the stack |
| `Ip`, `MCIp` | the IP task, one application and the hosts of the link; its scenarios |
| `StreamRing`, `TcpWindow`, `TcpSocket`, `TcpInput` | rings, windows, sockets and incoming segments, as operators on the state of a node |
| `BytePipe` | abstract: one direction of a connection |
| `Tcp`, `MCTcp` | two nodes with this stack, their applications and the network; its scenarios |
| `SequenceFacts` | lemmas about sequences and functions |
| `TivaPipelineProofs`, `MainBootProofs`, `I2CMasterProofs`, `NetDriverProofs`, `KernelQueueProofs`, `IpProofs` | theorems about the module each is named after (section 6) |
| `ServerProofs` | theorems about `BBGServer` and `SocketBuild` |

How the levels rest on each other. `TivaPipeline` and `SocketBuild` use a queue as a
bounded sequence: `KernelQueue` refines `BoundedQueue`, which is that. `NetDriver` uses
queue, semaphore and notification as atomic for the same reason. `SocketBuild` uses
a connection as a bounded pipe of bytes that may end: `Tcp` refines `BytePipe`. `Tcp`
and `Ip` hand frames to a channel that may lose them and keeps their order:
`NetDriver` refines `TelemetryChannel` in order.

### TivaPipeline

One step is the code from one kernel call to the next, because that is where the
tasks affect each other. Blocking is the guard of the action. A timed send has two
actions: the send (`SensorSend`, `RelayForward`) when there is room, and giving up
(`SensorGiveUp`, `RelayGiveUp`) when there is none. Both may happen at any time,
because three seconds are an arbitrary number of steps of the others.

| Code | Model |
|---|---|
| `COM_que`, `ZX_Que`, `RGB_Que` and whether their handle is set | `que`, `created` |
| `ZX_sem`, `RGB_sem` | `sem` |
| the `tx_buf` of each task | `ubuf`, `rbuf`, `sbuf` |
| `read_val` | `readVal`: which register it was read from |
| `ulNotifiedValue` of `ZXSensorTask` | `notified` |
| program counters | `upc`, `rpc`, `spc` |
| the RGB sensor's interrupt line | `armed`: raised by reading STATUS and by the reset in the configuration, lowered by the interrupt |

A message is its source, its label, the register its value came from, and a
number. The code has no such number: it is how the properties tell messages
apart. `wire`, `lost`, `irqs` and `statusReads` are histories.

### I2CMaster

One step is one driverlib call. The two functions are the sequences `WriteSteps`
and `ReadSteps`. The controller latches address and byte when a command is
written; a command written while it executes another is dropped or takes its
place (the hardware's answer is not in the repository: the model allows both).
`SINGLE_RECEIVE` and `SINGLE_SEND` have one command code, so that the direction is
the address register's: a race can turn a read into a write.

### MainBoot

`masked` is BASEPRI. The first critical section before the scheduler runs leaves
interrupts masked, because `uxCriticalNesting` starts at `0xaaaaaaaa`
(`port.c:137`) and does not come back to 0; the port's start of the first task
unmasks. So there is a window, between `GPIOInterruptEnable` (`main.c:98`) and
`xTimerCreate` (`main.c:104`), in which the handler can run with `ZXSensorHandle` still
NULL. `HaltsOnlyInWindow` says that this is the only place.

### BBGServer

Frames are numbered as `comTask` reads them; 0 is a buffer that was never
written. `read()` is taken to return one whole frame or fail. The deadline of the
timed calls is computed from `CLOCK_MONOTONIC` and compared with `CLOCK_REALTIME`, so
it has always passed: a send to a full queue and a receive from an empty one fail at
once. A failing `fopen` is a null `pfd`, and the first `fprintf` ends the process
(`TaskFault`). A crash (`Kill`) can come anywhere. The name of the log file given on
the command line is announced (`BBG/main.c:42`) and never used (`taskThread.c:44`); it
is not in the model.

### SocketBuild

The client task opens, connects, creates a COM task and goes on to the next sensor,
or asserts (`Halted`: the whole board), or spins after a failed connect. A connection
exists for the client as soon as the server listens; the server accepts it later, or
after the client has given up. A record is `RecordLen` parts: `ComSends` puts what
there is room for, `ComSendEnds` is the timeout or an error, and `ThreadReads` takes
any number of parts that are there, at most a record. The server's process ends when
main() returns, when a call before accept fails, or when a thread writes through a
null `pfd`; a failed accept is not noticed (`comTask.c:104` compares the array with 0).
`More` is the condition `gclose_app = 1`, an assignment. A plan says which calls may
fail, what the sensors do, and the client's port: `COM.h:11` says 10000 and
`BBG/includes.h:18` says 1000, and with the two as committed no connection is ever
made; the other plans have 1000 on both sides.

### The kernel

`k` is the state of the scheduler (the lists as sequences, `uxTopReadyPriority`
through them, the tick count modulo `TickModulus`, `xNextTaskUnblockTime`, pended
ticks, suspension count, notification states), `cpu` the running task and pending
exceptions. A blocking call is a small state machine: look, block, wake up, look
again; a step is one critical section, or a stretch under `vTaskSuspendAll`. Each
module keeps the state of the calls in progress and extends `Next` of the one below by
its own steps, so that a run of `StreamBuffers` runs all of them. `log` and the other
histories are what the properties compare with. A plan says which calls each task and
the interrupt make, in any order, up to `MaxCalls`.

### NetDriver

`pc` and `holds` say where the allocator's callers are and which buffer they hold; the
rings are functions from descriptors to their owner and buffer. `data` tells frames
apart. A fixed order of tasks is not assumed.

### Ip and Tcp

The IP task has priority 3 and applications 1, so what it does with one event is one
step: the handlers are operators from the state of the stack to the next, and the
frames they send come out in `out`. An application is interrupted between any two
kernel calls and looks at shared data. Data of a byte or a datagram are numbers in
`Tcp` and kinds in `Ip`. In `Tcp` the network delivers in order, except for the
segments and copies a fault sends astray. Sequence numbers are modulo `SeqMod` (1024); the
initial ones are far from the wrap but in the plan `Turning`, in which both sides pass it.

The DNS table is the one piece of the stack that the application writes itself. Its search,
each write of an insertion (`InsertName`, `InsertAddress`, `MoveIndex`, `TurnIndex`) and the read
of an address (`FreeRTOS_dnslookup`) are steps of their own, and the IP task, which has the
higher priority, can put a late reply into the table between any two of them
(`ulDNSHandlePacket`, one step). `xFreeEntry` is static: at each access the build may read it
again or use what it has read (`Indices`). `names.mixed` records that the IP task has changed the
table within a call of the application. `Kept` maps a name to the 16 characters the table
compares. A DHCP server answers with one of the sets of options that `Options` gives it,
with or without a gateway and a name server; the message type and the server's own
address, without which the client takes no reply, are in every one.

## 3. What the runs check

| Run | Bounds | Shows |
|---|---|---|
| `pipeline_safety` | queues of 2, 4 colour readings, 2 interrupts | `TypeOK`, `HandlesReady`, `OrderKept`, `Accounted`, `SamplePerInterrupt`, `ZXPacedByStatusReads` |
| `pipeline_live` | queues of 1, 3 colour readings, 1 interrupt | `ImplementsChannel`, `StartupCompletes`, `BurstDrains`, `SendsEnd` |
| `board` | boot: 2 edges, 4 timer periods; I2C: 2 tasks, 2 registers, 1 call each | `SoloCallRight`, `CallsReturn`, `HaltsOnlyInWindow`, `BeatsAccounted`, `EdgeIsNotified` |
| `server` | serial: queue of 2, 3 frames, 1 failing read, 2 starts; socket: records of 2 parts, connections of 2, queues of 1, 5 plans of readings and faults | `CrashLoss`, `NeverBackwards`, `SocketsRight`, `ImplementsChannel`, `EndsAfterNextFrame`, `QueueDrains`, `SocketsLive` |
| `kernel_driver` | kernel: 3 tasks of 3 priorities, an interrupt, a queue of 2, a mailbox, a mutex, a semaphore; 4 ticks modulo 4. Driver: 2 buffers, rings of 2, event queue of 1, heap of 8 units, 3 frames | `HighestRuns`, `NoLostWakeup`, `InheritanceRight`, `NoEarlyTimeout`, `FifoSpec`, `BuffersAccounted`, `DriverIsChannel` |
| `kernel_services` | 17 groups of calls by 3 tasks and an interrupt, 2 calls each, 2 timers, 2 stream buffers; 5 ticks modulo 4 | `KernelConsistent`, `WaitsRight`, `ExpiryRight`, `DaemonWakesInTime`, `StreamsRight` |
| `ip` | 5 plans, 3 buffers, 2 sockets, tables of 2 rows, 3 names of which 2 begin alike, 2 servers of which 1 is no gateway, at most 3 frames | `BuffersAndSocketsKept`, `CachesRight`, `LeaseIsOurs` |
| `tcp` | 10 plans, one of them across the wrap of both sides' sequence numbers, 3 sockets a node, up to 3 bytes a call, rings of 3, segments of 2 | `SocketsKept`, `NobodyWaitsInVain`, `PipeSpec` |
| `pipeline_zpos` | queues of 1 | violates `ZPosIsAPosition` |
| `i2c_race` | 2 tasks, 2 registers, 1 call each | violates `CallsRight` |
| `kernel_nested` | 3 tasks, 2 mutexes; 5 ticks modulo 8 | violates `SelectsATask` |
| `kernel_overtaken` | 3 tasks, 1 mutex; 5 ticks modulo 8 | violates `AdjustedTimeoutNotZero` |

`server`, `board` and `kernel_driver` each check two parts that share no state, one of them
at a time: a variable (`build`, `part`) says which, and the other one stands still.

Why the bounds are enough. The behaviour of a queue changes when it is empty, when it
holds one message, when messages of both sources can be in it, and when it is full:
length 2 has them all, length 1 has most and makes it full at once. INIT and the three
readings of a round are enough to fill `RGB_Que`, `rbuf` and `COM_que` and to make a
send give up; the fourth reading starts a second round, whose STATUS read raises the
interrupt line again; two interrupts let a notification arrive while another one is
pending. In the I2C model a second call of the same task starts like the first, from a
controller the other task may have left in any state, and the initial register contents
are all enumerated. In the server the queue of 2 fills with three frames, and a second
start finds a full queue of the first run. Over sockets, two records of two parts are
the least with which a cut send or a short read shifts a later record.

In the kernel, three priorities give a running task, one it preempts and one in between
for inversion; four ticks modulo four wrap every deadline once; two calls of each task
and one interrupt meet in every window of a call. A plan fixes which calls these are: the
plans are the combinations in which calls of this kind affect each other, so that every
branch of the modelled functions is taken in some plan, and TLC tries every
interleaving of each. Of the driver, two buffers and three frames fill the rings, empty the
pool, and find the event queue full with a buffer in hand; the heap runs out when the
application holds its share. In `ip` and `tcp` a plan is a sequence of calls with the kinds and
number of faults allowed; one or two faults (four or five for retries) put a late, lost
or doubled segment at each place of the conversation.

The plans leave out what is known to break a property and is described in section 5:
`kernel_services` never resets a stream buffer that is in use and never lets a writer
preempt the reader of a message too long for it, `tcp` never has an application send
while the peer's FIN arrives after its check of the state, and makes no copies in `Turning`,
the plan in which sequence numbers wrap: a doubled SYN|ACK breaks that connection.

Fairness. `FairSpec` of `TivaPipeline` is weak fairness of each task, which equal
priorities, preemption and time slicing give it; there is none for the interrupt, which
the sensor owes nobody, and none for a transmission, which can busy-wait for ever
(`UartTransmit`): `BurstDrains` has the transmissions' end as its premise,
`StartupCompletes` and `SendsEnd` do without. In `I2CMaster` the controller finishes the
command it executes and both tasks are scheduled; nobody has to start a call. In
`MainBoot` (`MCSpec` of `MCBoard`) the processor executes, an unmasked interrupt is taken, tasks are scheduled;
edges and timer periods are not promised. In `BBGServer` and `SocketBuild` the threads
are scheduled, and on the Tiva the client task and each COM task, which have one priority
(also while the client spins); frames, readings, the network, SIGINT, crashes and starts
are not promised. The kernel and network runs check safety only: "no lost wakeup" and
"nobody waits in vain" are statements about states, which hold without fairness.

Deadlock is not checked: the sensors' work and the plans are bounded and the system then
rests, a halted boot stays halted, a stopped server need not be started, the IP task may
spin for a buffer that an application keeps, and an application may wait for a segment
that was lost for good.

## 4. Refinements

* `TelemetryChannel` is what both halves promise. `TivaPipeline` implements it with the ZX
  source ordered (the RGB source is not: its messages are pushed to the front of
  `COM_que`). `BBGServer` implements it with its single source ordered, and the log of
  all runs (`erased \o file`) as what is delivered, until a read fails. `NetDriver`
  implements it with frames from the wire to the IP task (`DriverIsChannel`).
* `BoundedQueue`: `KernelQueue` with its lock counters, copy in two stages and waiters is a
  bounded sequence (`FifoSpec`).
* `BytePipe`: each direction of each connection in `Tcp` (`PipeSpec`).

## 5. Where the code does not do what it says

Four runs are refuted by TLC:

* `ZPosIsAPosition`: the message "Z Pos" is sent whether or not the status register
  announced a position (`ZXSensorTask.c:117-126`); the first one can carry the
  contents of DRCFG.
* `CallsRight`: two tasks in the I2C driver without a lock read and write registers
  they were not asked for. `SoloCallRight` is the part that does hold.
* `SelectsATask`: `vTaskPriorityDisinheritAfterTimeout` lowers the priority of a mutex's
  holder and then clears the bit of the new priority's ready list where it left the old one
  (`tasks.c:4033-4035`). The task that timed out usually runs at the old priority and hides
  it; if it holds a second mutex and was raised above, the bit stays set over an empty
  list, and the assertion of the next task switch (`tasks.c:192`) fails.
* `AdjustedTimeoutNotZero`: `xQueueSemaphoreTake` asserts that a caller which lent its
  priority never comes round without ticks left (`queue.c:1469`). A caller whose time is
  over and who finds the mutex free goes round once more; when a task of a higher
  priority takes the mutex first, it comes with none.

Seen while modelling; the plans avoid them or the model shows them without a run of
its own:

* The comment at `ZXSensorTask.c:135`, and the architecture document, have the task
  collect distance data periodically; it waits for the colour sensor's interrupt.
* An edge on port L between `main.c:98` and `main.c:104` runs `configASSERT` on a NULL
  handle.
* After a failed read `comTask` sends the old buffer again (`BBG/comTask.c:189-206`).
* The ports of the two boards differ in the socket build (section 2).
* SIGINT during the accept loop is undone by `gclose_app = 1` (`BBG/comTask.c:120`); both
  threads open the same log with "w", and write at their own offsets.
* `prvReadMessageFromBuffer` (`stream_buffer.c:866-880`) moves the tail past the length of a
  message that is too long and restores it: a writer that runs in between uses room that
  is not free. `xStreamBufferReset` (`:368`) checks and clears without a critical section.
* `ulTCPWindowTxAck` (`FreeRTOS_TCP_WIN.c:1949`) compares sequence numbers with `<`: across
  the wrap a duplicate of SYN|ACK confirms data that was not received.
* `FreeRTOS_send` looks at the state (`FreeRTOS_Sockets.c:2470`) before it puts bytes
  (`:2519`): after a FIN in between they are accepted and never delivered. A sender that
  is woken because the connection closed goes back to sleep until its timeout (`:2598`).
  A RST does not wake `FreeRTOS_connect`.
* `prvTCPSetSocketCount` (`FreeRTOS_Sockets.c:1295-1325`) can leave a `pxPeerSocket` that was
  freed; a child in SYN_RECEIVED that gets other flags goes to CLOSE_WAIT with `bPassQueued`
  set and is never freed (`FreeRTOS_TCP_IP.c:2321-2328`).
* The IP task spins in `prvCreatePartDHCPMessage` (`FreeRTOS_DHCP.c:845`) when applications
  hold every buffer; a close that finds the event queue full leaks the socket
  (`FreeRTOS_Sockets.c:1177`, `FreeRTOS_DNS.c:593`).
* `prvProcessDNSCache` (`FreeRTOS_DNS.c:1168-1223`) takes no lock. When the IP task puts the late
  reply of an earlier look-up into the table (`:735`) while an application inserts a name, a name
  gets two rows, or a row the address of another name, and `xFreeEntry`, which is compared
  with the length for equality (`:1212`), gets past the end of the table: the next insertion
  writes behind it. TLC reaches all of these in the plan `Lookups`. The comment at `:434` expects
  callers in different threads.
* The table keeps and compares 16 characters of a name (`:1182`, `:1208`): two longer names that
  begin alike share a row, and a look-up of one returns the address of the other.
* The options of a DHCP reply are stored as they are read (`FreeRTOS_DHCP.c:729-745`), before it is
  known whether the reply counts, and the gateway and the name server are not essential:
  an acknowledgement without them leaves those of another server, whose offer was not taken.
* `prvCreateDNSSocket` has its socket in a static variable (`FreeRTOS_DNS.c:1092`) across
  the blocking bind (`:1103`) to the return (`:1118`): a second caller in between overwrites
  it, and both ask on one socket.
* The flags of a TCP socket are bit-fields of one word. `FreeRTOS_shutdown`
  (`FreeRTOS_Sockets.c:2717`) and `FreeRTOS_recv` (`:2352-2353`) read, change and write it
  without a lock: a flag that the IP task changes in between is put back to what it was.
* `prvTCPReturnPacket` takes a FIN out of a segment while data waits, but not out of a keep-alive
  probe (`FreeRTOS_TCP_IP.c:836-866`), which is built from the peer's last segment and may
  repeat its FIN. No plan reaches that.
* The driver's output function returns a buffer to the pool whose address the DMA still has
  (`NetworkInterface.c:313`).

## 6. What is proved

TLAPS proves the following for every value of the constants that the named assumptions
allow: every length of a queue, ring or record, every number of buffers, tasks, registers
and readings, every set of calls that fail. The theorems are in the modules `*Proofs`;
what they need about sequences is in `SequenceFacts`. No invariant below is inductive by
itself: for each, the strengthening and why it is needed.

`TivaPipelineProofs` (from `QueSizeAssumption`, `PositionStatusAssumption`,
`BoundsAssumption`):

* `TypeCorrect`: `[]TypeOK`; no queue exceeds its length. This one is inductive.
* `HandshakeSafe`: `[]HandlesReady`. That a sensor task past its semaphore finds its queue
  rests on the order of two tasks' steps. `Handshake` adds that a COM task exists only after
  `COM_que` (`SpawnedOnce`), that it creates its queue before it gives (`CreatedFirst`), and
  that a semaphore is given once (`GivenOnce`).
* `OneReadingPerInterrupt`: `[]SamplePerInterrupt`, and `PacedByStatusReads`:
  `[]ZXPacedByStatusReads`. `Readings` adds that nothing was built or taken before the
  semaphore, that the label of the message in hand says whether it is the first, and that
  the line falls at most once for each time it is raised.
* `ReadingsInOrder`: `[]OrderKept`. The order on the wire depends on every place a message
  passes. `Flow` says that the places of the line (`sbuf`, the task's queue, `rbuf`,
  `COM_que`, `ubuf`, `wire`) are ordered: of two messages of a source the one further on
  is older (`InLine`), none is at two places (`Apart`), every one built is at some place
  (`Everywhere`). The INIT message, sent to the front, enters an empty queue (`InitFirst`):
  without that the order would be lost.
* `NothingLostUnseen`: `[]Accounted`, by counting the same places.
* `PipelineIsChannel`: `ImplementsChannel`. Each step moves at most one message one place
  on, which is a step of `TelemetryChannel` or none.

`ServerProofs`, serial build (from `QueueAssumption`, `FailuresAssumption`, `BoundsAssumption`):

* `LogNeverBackwards`: `[]NeverBackwards`. `InOrder` orders the log of all runs,
  `taskThread`'s buffer, the queue and `comTask`'s buffer among each other, and says that
  `rx_buf`, which a failed read leaves as it was, is as new as any of them (`NoneNewer`).
* `CrashCostsTwo`: `[]CrashLoss`. What a crash loses is in the hands of a thread: the set of
  frames that are queued, in hand, logged or dropped grows by what is read and loses only
  the two in hand.
* `ServerIsChannel`: `ImplementsChannel`, while no read has failed.

`ServerProofs`, socket build (from `SocketAssumption`; about the part of the state of `SocketBuild`
alone, whatever is side by side with it):

* `ClientMadeOnce`: `[]ClientRight`. `OneClient` relates the client's place to the
  connections and tasks there are.
* `LoggedAsSent`: `[]SocketsRight`. `Records` follows the parts back from the log to the
  sensor: rows follow each other, the stream follows the rows, what is left of the record
  in hand is its end and follows the stream, and the queue is newer. Two more parts say
  where the records in a stream and in the log begin while no send has ended early and
  no read was short.

`MainBootProofs` (from `BoundsAssumption`):

* `BootHaltsOnlyInWindow`: `[]HaltsOnlyInWindow`; `Booted` says at which step of `main()`
  which handle exists and whether interrupts are masked.
* `EachBeatTogglesOnce`: `[]BeatsAccounted`.

`I2CMasterProofs` (from `ClientsAssumption`, `ContentsAssumption`, `MaxCallsAssumption`):

* `SoloCallsAreRight`: `[]SoloCallRight`. `SoloGuided` says what the registers of the
  controller, the transfer in progress and the slave hold before each step of a call that
  no other task has stepped into, whatever was there before the call.

`NetDriverProofs` (from `DriverAssumption`, `HeapUnitsAssumption`, `NULLAssumption`):

* `NoBufferLost`: `[]BuffersAccounted`. `InHand` says where a task in each place of its code
  has a buffer and whether the buffer has memory (`Hands`), that each buffer is in exactly
  one of free list, hands, event queue and sockets (`OnePlace`), that the semaphore lags the
  list by the tasks between the two (`Counted`), and that the blocks in use are those of
  the buffers and of the application (`Blocks`), on a heap whose blocks fill it without
  overlap and with no two free neighbours (`WholeHeap`, kept by the operators of `Heap`).
* `DriverImplementsChannel`: `DriverIsChannel`. The receive ring holds the newest frames in
  order from the driver's index on (`Ring`), the event queue holds older ones in order, and
  what the driver is about to post is between them (`InLine`); that the driver finds in its
  descriptor the frame it saw needs `InHand`.

`KernelQueueProofs` (from `KernelAssumption`, `CpuAssumption`, `QueuesAssumption`,
`CallsAssumption`, `ScenariosAssumption`; the last is what the `configASSERT`s of `queue.c`
demand of callers: of a mutex that it has one item and is only given and taken, of an
overwrite that it goes to a queue of one):

* `QueuesAreBoundedSequences`: `FifoSpec`. `Stored` says that the items of a queue lie between
  its two pointers, of which the read pointer is one behind (`Rings`), and that every call in
  progress is one of its task's plan (`Calling`), which is what makes an overwrite safe.
  Each step moves at most one item of one queue, whoever makes it, locked or not (`Moved`).
* `NoWakeupIsLost`: `[]NoLostWakeup`. The property speaks of queues that are not locked, but
  wakeups are prepared while they are: a task tests a full or empty queue, is put into the
  event list some steps later, and an interrupt in between only counts in the lock. So
  `Waiting` counts, for every queue in every state, what is there beyond what its lock
  remembers (`Items`, `Spaces`), and says that while somebody is in the list there is a task
  on its way, outside that list, for each of these (`Awake`). A task that tested a locked
  queue still finds it as it was but for what the lock counts (`Tested`); whoever is in an
  event list is in a call on that queue and in the place that tries again (`Placed`); a
  mutex that is held is not there (`Counted`). That a woken task leaves exactly one list, and
  that the scheduler is locked only by the task that runs, needs the shape of the
  scheduler's lists (`Core`: who is in an event list is in that one only and is not ready).
* `NoCallFailsEarly`: `NoEarlyTimeout`, from the same invariant. `InTime` relates the ticks a
  call has left and the tick count and number of overflows at which they were counted to
  the time its call began; `xTaskCheckForTimeOut` may find a count that has wrapped, and
  gives up only if the whole time has gone by.

`IpProofs` (from `StackAssumption`, `ArpAssumption`, `DnsAssumption`, `DhcpAssumption`,
`IpAssumption`, `StartsAssumption`, `PlansAssumption`; the last two say that a run starts
with nothing under way and that a plan calls with arguments of the right kind, the one
before that the port of the other hosts is none of the stack's):

* `BuffersAndSocketsAreKept`: `[]BuffersAndSocketsKept`, `CachesAreRight`: `[]CachesRight`,
  `LeaseIsAlwaysOurs`: `[]LeaseIsOurs`, all from one invariant, `StackRight`. Its parts need
  each other, because a frame that comes in decides what the tables hold and which socket
  has a buffer. It says of what is on its way that a question carries the number and name of
  a lookup the application made (`OutRight`), that an answer answers such a question and an
  acknowledgement such a request (`FrameRight`, for the frames in events, in the hands of
  the IP task and in sockets, `InboxRight`). It says of a socket that it is the
  application's, the DHCP client's or about to be closed, and one of these only (`Owned`),
  and that there is one bind at a time and its application waits for it (`Binding`): without
  that an event that arrives late would bind or close a socket that has a new owner. Of the
  ARP cache and of what the hosts have said it says that they agree, of the DNS table that
  its addresses are ones some name server gave whoever writes it, and, until a late reply
  has changed it within a call of the application (`mixed`), that its rows are filled from
  the first on, because the search stops at the first empty row, and where in its insertion
  the application stands. `CachesRight` promises no more, and `LeaseIsOurs` nothing of the
  gateway and the name server but that they are some server's or none: the code does not
  keep more (section 5). Of the DHCP client it says that it has its socket while it waits
  for a server, and that an address it holds or was offered is one of the chosen server's
  pool (`LeaseKept`). The arithmetic of the buffers is a cardinality over the places of the
  sockets' lists (`Counted`); that a private port is found rests on there being more ports
  than sockets (`PrivatePort`).

`SequenceFacts` also has what FiniteSetTheorems and SequenceTheorems state only with an
operator as parameter, among them that a set of numbers that is not empty has a least
element (`LeastNat`: inclusion of finite sets is well-founded, and `WFMin` gives a minimal
one of the intervals that end in the set).

Model-checked only:

* Liveness, and everything that speaks of fairness or ENABLED (`StartupCompletes`,
  `BurstDrains`, `SendsEnd`, `CallsReturn`, `EdgeIsNotified`, `EndsAfterNextFrame`, `QueueDrains`,
  `SocketsLive`): out of the prover's reach.
* `HighestRuns` and `InheritanceRight`: they hold in the scenarios of `kernel_driver`, with one
  mutex, and not for every set of calls. With two mutexes, the scenario of `kernel_nested`
  leaves a set bit over an empty list; a theorem would need the number of mutexes a task may
  hold as a hypothesis, which the code does not demand.
* `KernelConsistent`, `WaitsRight`, `ExpiryRight`, `DaemonWakesInTime`, `StreamsRight`: event bits
  are numbers whose bits `Bitwise` tests, a module that no theorem can reach.
* `SocketsKept`, `NobodyWaitsInVain`, `PipeSpec`: two nodes of `Tcp` with windows, rings and
  timers. `Tcp` has plans that avoid what section 5 says of it, and which calls a plan may
  make is said by the list of plans; nothing is proved about it.

## 7. What is not modelled

* In the kernel: what the configuration leaves out (`xTaskAbortDelay`, queue sets,
  co-routines, static allocation, MPU), trace and run-time statistics, and the assembly
  of `port.c`.
* A second application that calls the stack of `Ip`, and with it the static socket of
  `prvCreateDNSSocket`.
* Within a step: the search of the DNS table and the copy of a name into it are one step
  each, and so is each read-modify-write of the flags of a TCP socket (`FreeRTOS_recv` puts
  its flags in a step after the one that takes the bytes); section 5 says what may come in
  between.
* The driver's receive task tests a descriptor's owner and copies the frame in one step: only
  this task moves that index.
* In the stack: what is configured out (LLMNR, NBNS, select, signals, callbacks), the
  layout and checksums of packets, TCP options and the estimates of round trips; an
  advertised window, which a sender of this build does not look at.
* The bytes on the serial line: a lost byte shifts all later records (VMIN is 45 for
  records of 24), and nothing in the code could recover.
* The bytes of the log file that two threads of the socket build write at their own
  offsets.
* Heap sizes of the application: the heap itself is modelled and driven by the driver.
* Console output (`uartstdio.c`), start-up code, LED pins, clock and pin setup: no state
  that a property is about.
* `SocketServerTask` (`MySources/MyServer.c`): no code creates it. `Test/UnitTest.c` tests
  the host's socket calls and calls nothing of the program.
* Real time: delays and timeouts of the application are arbitrary numbers of steps of the
  others; the kernel's are in ticks.
