-------------------------- MODULE MCKernelServices --------------------------
(***************************************************************************)
(* KernelSync, SwTimers and StreamBuffers on three tasks, the timer daemon and an         *)
(* interrupt, one group of calls at a time.                                *)
(***************************************************************************)
EXTENDS StreamBuffers

CONSTANTS low, mid, high, daemon, idler,   \* the tasks
          eventGroup,                      \* an event group
          oneShot, autoReload              \* a one-shot timer, one that reloads

MCTasks == {low, mid, high, daemon, idler}
MCPriority == low :> 1 @@ mid :> 2 @@ daemon :> 2 @@ high :> 3 @@ idler :> 0
MCQueues == [data |-> [kind |-> "queue", length |-> 1],
             timers |-> [kind |-> "queue", length |-> 2]]
MCStreams == [bytes |-> [size |-> 3, trigger |-> 2, message |-> FALSE],
              messages |-> [size |-> 4, trigger |-> 0, message |-> TRUE]]
MCPeriods == oneShot :> 3 @@ autoReload :> 2

To(fn, u) == [fn |-> fn, task |-> u]
Delay(fn, wait) == [fn |-> fn, wait |-> wait]
Prio(u, p) == [fn |-> "setPriority", task |-> u, value |-> p]
Queue(fn, wait) == [fn |-> fn, q |-> "data", wait |-> wait]
Notify(u, action, value) ==
    [fn |-> "notify", task |-> u, action |-> action, value |-> value]
NotifyTake(wait, clear) == [fn |-> "notifyTake", wait |-> wait, clear |-> clear]
NotifyWait(wait, entry, exit) ==
    [fn |-> "notifyWait", wait |-> wait, entry |-> entry, exit |-> exit]
Set(bits) == [fn |-> "setBits", group |-> eventGroup, bits |-> bits]
Clear(bits) == [fn |-> "clearBits", group |-> eventGroup, bits |-> bits]
DeleteGroup == [fn |-> "deleteGroup", group |-> eventGroup]
WaitBits(bits, clear, all, wait) ==
    [fn |-> "waitBits", group |-> eventGroup, bits |-> bits, clear |-> clear, all |-> all,
     wait |-> wait]
Meet(set, wait) ==
    [fn |-> "sync", group |-> eventGroup, set |-> set, bits |-> {1, 2, 3}, wait |-> wait]
Command(id, m, value, wait) ==
    [fn |-> "command", q |-> "timers", wait |-> wait, id |-> id, timer |-> m,
     value |-> value, since |-> 0]
Pend(bits) ==
    [fn |-> "command", q |-> "timers", wait |-> 0, id |-> "callback",
     timer |-> "none", value |-> 0, since |-> 0, group |-> eventGroup, bits |-> bits]

\* low, mid, high and the interrupt call; the daemon only serves.
Plan(l, m, h, isr) ==
    low :> l @@ mid :> m @@ high :> h @@ "isr" :> isr @@ daemon :> {[fn |-> "serve"]}

Notifying == Plan({NotifyTake(2, FALSE)},
                  {NotifyWait(2, 2, 1)},
                  {Notify(low, "eIncrement", 0)},
                  {Notify(mid, "eSetBits", 2)})
NotifyingMore == Plan({Notify(mid, "eSetValueWithOverwrite", 1)},
                      {NotifyWait(1, 0, 1), NotifyTake(MaxDelay, TRUE),
                       [fn |-> "notifyClear", task |-> mid]},
                      {},
                      {Notify(mid, "eSetValueWithoutOverwrite", 2)})
Suspending == Plan({To("suspend", high), To("suspend", low)},
                   {To("resume", low), To("resume", high)},
                   {Queue("receive", 2)},
                   {})
Meeting == Plan({Meet({1}, MaxDelay)}, {Meet({2}, 2)},
                {Meet({3}, MaxDelay), Meet({3}, 1)}, {})
Periodic == Plan({Delay("delayUntil", 2)}, {Prio(low, 2)},
                 {Delay("delayUntil", 3)}, {})
Deleting == Plan({To("create", mid), To("delete", high), To("delete", mid)},
                 {To("delete", mid), Queue("receive", MaxDelay)},
                 {WaitBits({2}, TRUE, FALSE, 2)}, {})
Grouping == Plan({Set({1, 2}), Clear({1}), DeleteGroup},
                 {WaitBits({1, 2}, TRUE, TRUE, 1)},
                 {WaitBits({1, 2}, FALSE, FALSE, MaxDelay)}, {})
Timing == Plan({Command("start", oneShot, 0, 0), Command("start", autoReload, 0, 0)}, {},
               {}, {})
Commanding == Plan({Command("start", autoReload, 0, 0), Command("stop", autoReload, 0, 0),
                    Command("change", autoReload, 3, 0)}, {}, {}, {})
Deferring == Plan({}, {}, {WaitBits({1}, TRUE, TRUE, MaxDelay)},
                  {Pend({1}), Command("start", oneShot, 0, 0)})
Freeing == Plan({Command("start", autoReload, 0, 0), Command("delete", autoReload, 0, 1)},
                {}, {}, {})

Send(s, bytes, wait) == [fn |-> "streamSend", s |-> s, bytes |-> bytes, wait |-> wait]
Receive(s, bytes, wait) == [fn |-> "streamReceive", s |-> s, bytes |-> bytes, wait |-> wait]
Stream(fn, s) == [fn |-> fn, s |-> s, level |-> 1, wait |-> 0]

\* The reader preempts the writer, the writer the reader, an interrupt either.
ReaderFirst == Plan({Send("bytes", 2, MaxDelay)}, {},
                    {Receive("bytes", 1, 2), Stream("streamTrigger", "bytes")}, {})
WriterFirst == Plan({Receive("bytes", 2, 1), Stream("streamReset", "bytes")}, {},
                    {Send("bytes", 3, 1), Send("bytes", 2, 1)}, {})
SentFromISR == Plan({Receive("messages", 2, 2)}, {}, {},
                    {Send("messages", 2, 0),
                     Stream("streamSendCompleted", "messages")})
ReceivedFromISR == Plan({Send("messages", 2, MaxDelay)}, {}, {},
                        {Receive("messages", 2, 0), Receive("messages", 1, 0),
                         Stream("streamReceiveCompleted", "messages")})
ReadsMessages == Plan({Send("messages", 2, 0)}, {},
                      {Receive("messages", 1, 1), Receive("messages", 2, 0)}, {})
WritesMessages == Plan({Receive("messages", 2, MaxDelay)}, {},
                       {Send("messages", 2, 2), Send("messages", 1, 0)}, {})
StreamScenarios == {ReaderFirst, WriterFirst, SentFromISR, ReceivedFromISR, ReadsMessages,
                    WritesMessages}

MCScenarios == {Notifying, NotifyingMore, Suspending, Meeting, Periodic, Deleting, Grouping,
                Timing, Commanding, Deferring, Freeing} \cup StreamScenarios

MCMaxCalls == low :> 2 @@ mid :> 2 @@ high :> 2 @@ daemon :> 1 @@ "isr" :> 1
=============================================================================
