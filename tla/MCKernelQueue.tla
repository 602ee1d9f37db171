--------------------------- MODULE MCKernelQueue ---------------------------
(***************************************************************************)
(* KernelQueue on three tasks and an interrupt: a queue, a mailbox of one  *)
(* item, a binary semaphore and a mutex.                                   *)
(***************************************************************************)
EXTENDS KernelQueue

CONSTANTS low, mid, high, idler

MCTasks == {low, mid, high, idler}
MCPriority == low :> 1 @@ mid :> 2 @@ high :> 3 @@ idler :> 0

MCQueues == [data |-> [kind |-> "queue", length |-> 2],
             mail |-> [kind |-> "queue", length |-> 1],
             lock |-> [kind |-> "mutex", length |-> 1],
             ready |-> [kind |-> "sem", length |-> 1]]

Call(fn, q, wait) == [fn |-> fn, q |-> q, wait |-> wait]
Delay(wait) == Call("delay", "none", wait)
Back == Call("give", "lock", 0)

\* A queue between tasks of two priorities and an interrupt.
Exchange == low :> {Call("back", "data", 2), Call("overwrite", "mail", 0)}
    @@ mid :> {Call("receive", "data", 1)}
    @@ high :> {Call("receive", "data", MaxDelay), Call("peek", "mail", 2)}
    @@ "isr" :> {Call("front", "data", 0), Call("receive", "data", 0)}

\* A mutex between the lowest and the highest, with a task in between.
Inversion == low :> {Call("takeRecursive", "lock", 2), Call("giveRecursive", "lock", 0), Delay(2)}
    @@ mid :> {Call("take", "ready", 2)}
    @@ high :> {Call("take", "lock", 1), Back, Delay(1)}
    @@ "isr" :> {Call("give", "ready", 0)}

MCScenarios == {Exchange, Inversion}
MCMaxCalls == low :> 2 @@ mid :> 1 @@ high :> 2 @@ "isr" :> 1

\* A mutex asked for by a task that holds another one and is waited for itself.
MCMutexes == [lock |-> [kind |-> "mutex", length |-> 1],
              second |-> [kind |-> "mutex", length |-> 1]]
Nested == low :> {Call("take", "lock", 0), Back}
    @@ mid :> {Delay(1), Call("take", "second", 0), Call("take", "lock", 1),
               Call("give", "second", 0), Back}
    @@ high :> {Delay(2), Call("take", "second", MaxDelay), Call("give", "second", 0)}
    @@ "isr" :> {}
MCNested == {Nested}
MCNestedCalls == low :> 1 @@ mid :> 4 @@ high :> 2 @@ "isr" :> 0

\* A mutex given and taken again while a task whose time is over looks for it.
Overtaken == low :> {Call("take", "lock", 0), Back}
    @@ mid :> {Delay(1), Call("take", "lock", 1), Back}
    @@ high :> {Delay(4), Call("take", "lock", 1)}
    @@ "isr" :> {}
MCOvertaken == {Overtaken}
MCOvertakenCalls == low :> 1 @@ mid :> 2 @@ high :> 3 @@ "isr" :> 0

=============================================================================
