----------------------------- MODULE NetDriver -----------------------------
(***************************************************************************)
(* The network buffers and the Ethernet driver: BufferAllocation_2.c,      *)
(* NetworkInterface.c and the event queue of the IP task.  The wire and    *)
(* the DMA fill and empty two rings of descriptors; the interrupt notifies *)
(* the driver's task, which copies a frame into a buffer and posts it; the *)
(* IP task gives it up, answers in place or leaves it to a socket; an      *)
(* application takes buffers of its own, posts them to be sent, and eats   *)
(* the same heap with allocations of other things.                         *)
(*                                                                         *)
(* A call into the allocator is several steps, and any task may run        *)
(* between them: no priority is assumed, which allows more than the        *)
(* scheduler does.  A semaphore, a queue, the heap and a critical section  *)
(* are atomic: KernelQueue says what the first two promise.  What the      *)
(* stack does with a frame is in the modules that start with Ip.           *)
(***************************************************************************)
EXTENDS Heap, Integers, Sequences, SequencesExt, TLC

CONSTANTS Buffers,       \* xNetworkBufferDescriptors
          RxRing, TxRing, \* NUM_RX_DESCRIPTORS, NUM_TX_DESCRIPTORS
          EventLength,   \* ipconfigEVENT_QUEUE_LENGTH
          Sizes,         \* how much memory the tasks ask for, in units of the heap
          Frames,        \* what may arrive: a size, and whether eConsiderFrameForProcessing keeps it
          MaxFrames, MaxSends, MaxOther \* bounds: frames in, buffers the tasks ask for, other allocations

\* Rings have descriptors; what is asked for and what arrives has a size; a
\* descriptor that is the DMA's holds no frame.
ASSUME DriverAssumption ==
    /\ IsFiniteSet(Buffers) /\ NULL \notin Buffers
    /\ RxRing \in Nat \ {0} /\ TxRing \in Nat \ {0}
    /\ Sizes \subseteq Nat
    /\ Frames \subseteq [size : Nat, keep : BOOLEAN]
    /\ NULL \notin [seq : Nat, size : Nat, keep : BOOLEAN]

VARIABLES heap, freeList, semaphore, \* heap_4.c; xFreeBuffersList, xNetworkBufferSemaphore
          memory,                    \* memory[b]: b's pucEthernetBuffer
          data,                      \* data[b]: the frame the driver's task copied into b
          rx, rxHw, rxIndex,         \* the receive ring, where the DMA and the driver stand in it
          rxStatus, notified,        \* EMAC_INT_RECEIVE raised; the driver task's notifications
          tx, txHw, txIndex,         \* the transmit ring
          events,                    \* xNetworkEventQueue
          pc, holds, size,           \* per task: where it stands, its buffer, the size it asked for
          arrived, processed, asked, \* history: frames in, frames the IP task took; buffers asked for
          sockets, others            \* buffers left to sockets; memory the application allocated

emacVars == <<rx, rxHw, rxIndex, rxStatus, notified>>
txVars == <<tx, txHw, txIndex>>
allocVars == <<heap, freeList, semaphore, memory, data>>
taskVars == <<pc, holds, size>>
driverVars == <<allocVars, emacVars, txVars, taskVars, events, arrived, processed, asked, sockets, others>>

Owned == NULL     \* in a receive descriptor: it is the DMA's
Procs == {"emac", "ip", "app"}

MovesTo(t, label) == pc' = [pc EXCEPT ![t] = label]

xNetworkBuffersInitialise ==
    /\ freeList = SetToSeq(Buffers)
    /\ semaphore = Cardinality(Buffers)
    /\ memory = [b \in Buffers |-> NULL]

InitDescriptors ==
    /\ rx = [i \in 0 .. RxRing - 1 |-> Owned]
    /\ tx = [i \in 0 .. TxRing - 1 |-> NULL]
    /\ rxIndex = 0 /\ rxHw = 0
    /\ txIndex = TxRing - 1 /\ txHw = 0

\* After xNetworkInterfaceInitialise: the link is up and the interrupt enabled.
DriverInit ==
    /\ heap = prvHeapInit
    /\ data = [b \in Buffers |-> 0]
    /\ xNetworkBuffersInitialise
    /\ InitDescriptors
    /\ rxStatus = FALSE /\ notified = 0
    /\ events = <<>> /\ sockets = {} /\ others = {}
    /\ pc = [t \in Procs |-> "idle"]
    /\ holds = [t \in Procs |-> NULL]
    /\ size = [t \in Procs |-> 0]
    /\ arrived = 0 /\ processed = <<>> /\ asked = 0

(***************************************************************************)
(* pxGetNetworkBufferWithDescriptor: one of the semaphore's counts, the    *)
(* head of the list, memory.  Without memory the descriptor goes back.     *)
(***************************************************************************)
\* What a task does with the buffer it got; without one, its callers do nothing.
GetReturns(t) == CASE t = "emac" -> "copy"
                   [] t = "ip" -> "output"
                   [] OTHER -> "post"

TakeSemaphore(t) ==
    /\ pc[t] = "get"
    /\ semaphore > 0
    /\ semaphore' = semaphore - 1
    /\ MovesTo(t, "remove")
    /\ UNCHANGED <<heap, freeList, memory, data, holds, size>>

\* At once without a block time, or after it: tasks other than the application
\* do not block.
GetGivesUp(t) ==
    /\ pc[t] = "get"
    /\ semaphore = 0
    /\ MovesTo(t, "idle")
    /\ size' = [size EXCEPT ![t] = 0]
    /\ UNCHANGED <<allocVars, holds>>

RemoveHead(t) ==
    /\ pc[t] = "remove"
    /\ holds' = [holds EXCEPT ![t] = Head(freeList)]
    /\ freeList' = Tail(freeList)
    /\ MovesTo(t, "malloc")
    /\ UNCHANGED <<heap, semaphore, memory, data, size>>

\* A failed allocation releases the descriptor, which holds no memory.
Allocate(t) ==
    /\ pc[t] = "malloc"
    /\ LET got == pvPortMalloc(heap, size[t])
       IN  /\ heap' = got.heap
           /\ memory' = [memory EXCEPT ![holds[t]] = got.at]
           /\ MovesTo(t, IF got.at = NULL THEN "insert" ELSE GetReturns(t))
    /\ size' = [size EXCEPT ![t] = 0]
    /\ UNCHANGED <<freeList, semaphore, data, holds>>

(***************************************************************************)
(* vReleaseNetworkBufferAndDescriptor: the memory first, then the          *)
(* descriptor, unless it is in the list already, then the semaphore.       *)
(***************************************************************************)
\* The mutant of ReleaseInserts that gives the semaphore before it inserts.
GivesFirst(t) ==
    /\ pc[t] = "insert"
    /\ semaphore' = semaphore + 1
    /\ MovesTo(t, "give")
    /\ UNCHANGED <<heap, freeList, memory, data, holds, size>>

FreeMemory(t) ==
    /\ pc[t] = "free"
    /\ heap' = vPortFree(heap, memory[holds[t]])
    /\ memory' = [memory EXCEPT ![holds[t]] = NULL]
    /\ data' = [data EXCEPT ![holds[t]] = 0]
    /\ MovesTo(t, "insert")
    /\ UNCHANGED <<freeList, semaphore, holds, size>>

ReleaseInserts(t) ==
    /\ pc[t] = "insert"
    /\ IF holds[t] \in ToSet(freeList)
       THEN MovesTo(t, "idle") /\ UNCHANGED freeList
       ELSE MovesTo(t, "give") /\ freeList' = Append(freeList, holds[t])
    /\ holds' = [holds EXCEPT ![t] = NULL]
    /\ UNCHANGED <<heap, semaphore, memory, data, size>>

ReleaseGives(t) ==
    /\ pc[t] = "give"
    /\ semaphore' = semaphore + 1
    /\ MovesTo(t, "idle")
    /\ UNCHANGED <<heap, freeList, memory, data, holds, size>>

Allocator(t) ==
    /\ \/ TakeSemaphore(t) \/ GetGivesUp(t) \/ RemoveHead(t) \/ Allocate(t)
       \/ FreeMemory(t) \/ ReleaseInserts(t) \/ ReleaseGives(t)
    /\ UNCHANGED <<emacVars, txVars, events, arrived, processed, asked, sockets, others>>

(***************************************************************************)
(* The wire, the DMA and the interrupt.                                    *)
(***************************************************************************)
\* A frame that finds no descriptor is missed; frames with errors do not
\* get here, the controller stores before it forwards.
Arrive(f) ==
    /\ arrived < MaxFrames
    /\ rx[rxHw] = Owned
    /\ arrived' = arrived + 1
    /\ rx' = [rx EXCEPT ![rxHw] = [seq |-> arrived + 1, size |-> f.size, keep |-> f.keep]]
    /\ rxHw' = (rxHw + 1) % RxRing
    /\ rxStatus' = TRUE
    /\ UNCHANGED <<rxIndex, notified, allocVars, txVars, taskVars, events, processed, asked,
                   sockets, others>>

\* One interrupt for all the frames since the last: one notification.
EthernetIntHandler ==
    /\ rxStatus /\ rxStatus' = FALSE
    /\ notified' = IF rx[rxIndex] # Owned THEN notified + 1 ELSE notified
    /\ UNCHANGED <<rx, rxHw, rxIndex, allocVars, txVars, taskVars, events, arrived, processed,
                   asked, sockets, others>>

\* The DMA reads what is at the address by now: the buffer has been released
\* (see xNetworkInterfaceOutput).  Then it gives the descriptor back.
DmaSends ==
    /\ tx[txHw] # NULL
    /\ tx' = [tx EXCEPT ![txHw] = NULL]
    /\ txHw' = (txHw + 1) % TxRing
    /\ UNCHANGED <<txIndex, allocVars, emacVars, taskVars, events, arrived, processed, asked,
                   sockets, others>>

(***************************************************************************)
(* prvEMACDeferredInterruptHandlerTask                                     *)
(***************************************************************************)
\* An empty descriptor (length 0) ends the turn, and so does a buffer it cannot
\* get: the frame stays in the ring, the notification is spent.
EmacWakes ==
    /\ pc["emac"] = "idle"
    /\ notified > 0
    /\ notified' = notified - 1
    /\ IF rx[rxIndex] = Owned THEN UNCHANGED <<pc, size>>
       ELSE MovesTo("emac", "get") /\ size' = [size EXCEPT !["emac"] = rx[rxIndex].size]
    /\ UNCHANGED <<rx, rxHw, rxIndex, rxStatus, holds, allocVars, txVars, events, arrived,
                   processed, asked, sockets, others>>

\* The mutant of EmacCopies that does not move past a frame nobody wants.
EmacCopiesStays ==
    /\ pc["emac"] = "copy"
    /\ data' = [data EXCEPT ![holds["emac"]] = rx[rxIndex].seq]
    /\ rx' = [rx EXCEPT ![rxIndex] = Owned]
    /\ rxIndex' = IF rx[rxIndex].keep THEN (rxIndex + 1) % RxRing ELSE rxIndex
    /\ MovesTo("emac", IF rx[rxIndex].keep THEN "send" ELSE "free")
    /\ UNCHANGED <<rxHw, rxStatus, notified, heap, freeList, semaphore, memory, holds, size,
                   txVars, events, arrived, processed, asked, sockets, others>>

\* The frame into the buffer, the descriptor to the DMA, the index one on; a
\* frame nobody wants is released.  Only this task has the index, and the DMA leaves the
\* descriptor alone until it gets it back: the look at its owner and the copy are one step.
EmacCopies ==
    /\ pc["emac"] = "copy"
    /\ data' = [data EXCEPT ![holds["emac"]] = rx[rxIndex].seq]
    /\ rx' = [rx EXCEPT ![rxIndex] = Owned]
    /\ rxIndex' = (rxIndex + 1) % RxRing
    /\ MovesTo("emac", IF rx[rxIndex].keep THEN "send" ELSE "free")
    /\ UNCHANGED <<rxHw, rxStatus, notified, heap, freeList, semaphore, memory, holds, size,
                   txVars, events, arrived, processed, asked, sockets, others>>

\* xSendEventStructToIPTask without a block time: a full queue loses the frame.
EmacPosts ==
    /\ pc["emac"] = "send"
    /\ IF Len(events) < EventLength
       THEN /\ events' = Append(events, [type |-> "eNetworkRxEvent", buffer |-> holds["emac"]])
            /\ holds' = [holds EXCEPT !["emac"] = NULL]
            /\ MovesTo("emac", "idle")
       ELSE MovesTo("emac", "free") /\ UNCHANGED <<events, holds>>
    /\ UNCHANGED <<size, allocVars, emacVars, txVars, arrived, processed, asked, sockets, others>>

(***************************************************************************)
(* The IP task: what prvIPTask and prvProcessEthernetPacket do with a      *)
(* buffer, the protocols left open.                                        *)
(***************************************************************************)
\* A frame is released (eReleaseBuffer), sent back (eReturnEthernetFrame), or
\* left to a socket (eFrameConsumed).
IpReceives ==
    /\ pc["ip"] = "idle"
    /\ events # <<>> /\ Head(events).type = "eNetworkRxEvent"
    /\ LET b == Head(events).buffer
       IN  /\ processed' = Append(processed, data[b])
           /\ \/ holds' = [holds EXCEPT !["ip"] = b] /\ MovesTo("ip", "free") /\ UNCHANGED sockets
              \/ holds' = [holds EXCEPT !["ip"] = b] /\ MovesTo("ip", "output") /\ UNCHANGED sockets
              \/ sockets' = sockets \cup {b} /\ UNCHANGED <<pc, holds>>
    /\ events' = Tail(events)
    /\ UNCHANGED <<size, allocVars, emacVars, txVars, arrived, asked, others>>

IpSends ==
    /\ pc["ip"] = "idle"
    /\ events # <<>> /\ Head(events).type = "eStackTxEvent"
    /\ holds' = [holds EXCEPT !["ip"] = Head(events).buffer]
    /\ events' = Tail(events)
    /\ MovesTo("ip", "output")
    /\ UNCHANGED <<size, allocVars, emacVars, txVars, arrived, processed, asked, sockets, others>>

\* A packet of the stack's own (an ARP request, a segment): a buffer without a
\* block time.
IpAsks(n) ==
    /\ pc["ip"] = "idle"
    /\ asked < MaxSends
    /\ asked' = asked + 1
    /\ size' = [size EXCEPT !["ip"] = n]
    /\ MovesTo("ip", "get")
    /\ UNCHANGED <<holds, allocVars, emacVars, txVars, events, arrived, processed, sockets, others>>

\* PacketTransmit: it spins until the descriptor used last is free again, takes
\* the next one, and gives the DMA the address of the buffer.  Then
\* xNetworkInterfaceOutput releases the buffer.
xNetworkInterfaceOutput ==
    /\ pc["ip"] = "output"
    /\ tx[txIndex] = NULL
    /\ LET next == (txIndex + 1) % TxRing
       IN  /\ txIndex' = next
           /\ tx' = [tx EXCEPT ![next] = memory[holds["ip"]]]
    /\ MovesTo("ip", "free")
    /\ UNCHANGED <<allocVars, holds, size, txHw, emacVars, events, arrived, processed, asked, sockets, others>>

(***************************************************************************)
(* An application: FreeRTOS_GetUDPPayloadBuffer and FreeRTOS_sendto, a     *)
(* reader that gives back what a socket held, and memory for other things. *)
(***************************************************************************)
AppAsks(n) ==
    /\ pc["app"] = "idle"
    /\ asked < MaxSends
    /\ asked' = asked + 1
    /\ size' = [size EXCEPT !["app"] = n]
    /\ MovesTo("app", "get")
    /\ UNCHANGED <<holds, allocVars, emacVars, txVars, events, arrived, processed, sockets, others>>

AppPosts ==
    /\ pc["app"] = "post"
    /\ IF Len(events) < EventLength
       THEN /\ events' = Append(events, [type |-> "eStackTxEvent", buffer |-> holds["app"]])
            /\ holds' = [holds EXCEPT !["app"] = NULL]
            /\ MovesTo("app", "idle")
       ELSE MovesTo("app", "free") /\ UNCHANGED <<events, holds>>
    /\ UNCHANGED <<size, allocVars, emacVars, txVars, arrived, processed, asked, sockets, others>>

AppReads ==
    /\ pc["app"] = "idle"
    /\ \E b \in sockets :
        /\ holds' = [holds EXCEPT !["app"] = b]
        /\ sockets' = sockets \ {b}
    /\ MovesTo("app", "free")
    /\ UNCHANGED <<size, allocVars, emacVars, txVars, events, arrived, processed, asked, others>>

AppAllocates(n) ==
    /\ pc["app"] = "idle"
    /\ Cardinality(others) < MaxOther
    /\ LET got == pvPortMalloc(heap, n)
       IN  /\ got.at # NULL
           /\ heap' = got.heap
           /\ others' = others \cup {got.at}
    /\ UNCHANGED <<freeList, semaphore, memory, data, taskVars, emacVars, txVars, events,
                   arrived, processed, asked, sockets>>

AppFrees ==
    /\ pc["app"] = "idle"
    /\ \E at \in others : heap' = vPortFree(heap, at) /\ others' = others \ {at}
    /\ UNCHANGED <<freeList, semaphore, memory, data, taskVars, emacVars, txVars, events,
                   arrived, processed, asked, sockets>>

DriverNext ==
    \/ \E t \in Procs : Allocator(t)
    \/ \E f \in Frames : Arrive(f)
    \/ EthernetIntHandler \/ DmaSends
    \/ EmacWakes \/ EmacCopies \/ EmacPosts
    \/ IpReceives \/ IpSends \/ xNetworkInterfaceOutput
    \/ \E n \in Sizes : IpAsks(n) \/ AppAsks(n) \/ AppAllocates(n)
    \/ AppPosts \/ AppReads \/ AppFrees

DriverSpec == DriverInit /\ [][DriverNext]_driverVars

(***************************************************************************)
(* Properties                                                              *)
(***************************************************************************)
At(label) == {t \in Procs : pc[t] = label}
HeldBuffers == {holds[t] : t \in Procs} \ {NULL}
Posted == {events[i].buffer : i \in DOMAIN events}

\* Every descriptor is in one place, free descriptors and no others hold no
\* memory, and the semaphore counts the free ones but those a task has taken
\* the count of or not given it back for yet: so the list is never empty where
\* pxGetNetworkBufferWithDescriptor takes its head, and nothing leaks when the
\* heap, the queue or the buffers run out.  The heap is whole, and its blocks
\* are the buffers' and the application's.
BuffersAccounted ==
    /\ Len(freeList) = semaphore + Cardinality(At("remove") \cup At("give"))
    /\ IsInjective(freeList)
    /\ \A t, u \in Procs : holds[t] = holds[u] /\ holds[t] # NULL => t = u
    /\ Cardinality(Buffers) = Len(freeList) + Cardinality(HeldBuffers) + Len(events) + Cardinality(sockets)
    /\ ToSet(freeList) \cup HeldBuffers \cup Posted \cup sockets = Buffers
    /\ \A b \in ToSet(freeList) : memory[b] = NULL
    /\ \A b \in Posted \cup sockets : memory[b] # NULL
    /\ HeapIsWhole(heap)
    /\ LET owned == {b \in Buffers : memory[b] # NULL}
       IN  /\ {b.at + Header : b \in heap.used} = {memory[b] : b \in owned} \cup others
           /\ Cardinality(heap.used) = Cardinality(owned) + Cardinality(others)

\* Frames reach the IP task in the order they arrived, each at most once,
\* whatever the interrupt, the driver's task, the ring and the buffers do to
\* them on the way: the driver is a channel that loses.
InRing == {rx[i].seq : i \in {j \in 0 .. RxRing - 1 : rx[j] # Owned}}
Copied == {data[b] : b \in {events[i].buffer : i \in {j \in DOMAIN events : events[j].type = "eNetworkRxEvent"}}
                         \cup {holds[t] : t \in {u \in {"emac"} : pc[u] = "send"}}}
Eth(n) == [src |-> "eth", seq |-> n]
Channel == INSTANCE TelemetryChannel WITH
               Sources <- {"eth"}, Ordered <- {"eth"},
               produced <- [s \in {"eth"} |-> arrived],
               inflight <- {Eth(n) : n \in InRing \cup Copied},
               delivered <- [i \in DOMAIN processed |-> Eth(processed[i])]
DriverIsChannel == Channel!Spec

=============================================================================
