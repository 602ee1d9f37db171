-------------------------------- MODULE MCTcp --------------------------------
(***************************************************************************)
(* What the two applications do when Tcp is checked.                       *)
(***************************************************************************)
EXTENDS Tcp, TLC

CONSTANTS s1, s2, s3

MCNodes == {Client, Server}
MCSockets == {s1, s2, s3}

Op(op, slot) == [op |-> op, slot |-> slot, count |-> 0, backlog |-> 0, from |-> 1]
Send(slot, count) == [Op("send", slot) EXCEPT !.count = count]
Listen(backlog) == [Op("listen", 1) EXCEPT !.backlog = backlog]
Connect == Op("connect", 1)
Accept1 == Op("accept", 2)

Scenario(client, server, kinds, number) ==
    [calls |-> (Client :> client) @@ (Server :> server), kinds |-> kinds, faults |-> number,
     isn |-> (Client :> 100) @@ (Server :> 300)]

\* The client sends telemetry, as the tasks of the program do; segments are late,
\* lost or doubled.
Telemetry == Scenario(<<Connect, Send(1, 3)>>, <<Listen(1), Accept1, Op("drain", 2)>>,
                      {"late", "twice", "stray"}, 2)

\* One side says all it has to say, and ends.
Goodbye == Scenario(<<Connect, Send(1, 1), Op("recv", 1), Op("shutdown", 1), Op("drain", 1),
                      Op("close", 1)>>,
                    <<Listen(1), Accept1, Send(2, 1), Op("drain", 2), Op("close", 2)>>,
                    {"late", "stray"}, 1)

\* Both sides end at a time.
Crossing == Scenario(<<Connect, Op("shutdown", 1), Op("close", 1)>>,
                     <<Listen(1), Accept1, Op("shutdown", 2), Op("drain", 2), Op("close", 2)>>,
                     {"late", "stray", "twice", "hung"}, 1)

\* FIN goes with the last data.
Hasty == Scenario(<<Connect, Op("close after send", 1), Send(1, 3), Op("drain", 1), Op("close", 1)>>,
                  <<Listen(1), Accept1, Op("drain", 2), Op("close", 2)>>,
                  {"late", "stray"}, 1)

\* The numbers of both sides start again at 0 within the conversation.  No copy of
\* an acknowledgement is made.
Turning == [Scenario(<<Connect, Op("close after send", 1), Send(1, 3), Op("drain", 1),
                       Op("close", 1)>>,
                     <<Listen(1), Accept1, Op("drain", 2), Op("close", 2)>>,
                     {"stray"}, 1) EXCEPT !.isn = (Client :> 1021) @@ (Server :> 1022)]

\* Two connections at a time.
Crowd == Scenario(<<Connect, Op("connect", 2), Send(2, 1), Send(1, 1)>>,
                  <<Listen(2), Accept1, Op("accept", 3), Op("recv", 2), Op("close", 2), Op("close", 3)>>,
                  {"late", "stray", "twice", "timeout"}, 1)

\* One connection after the other.
Again == Scenario(<<Connect, Send(1, 1), Op("shutdown", 1), Op("drain", 1), Op("close", 1),
                    Connect, Send(1, 1)>>,
                  <<Listen(1), Accept1, Op("drain", 2), Op("close", 2), Accept1, Op("recv", 2)>>,
                  {"stray", "hung", "timeout"}, 1)

\* Nobody listens, or is found.
Refused == Scenario(<<Connect>>, <<>>, {"late", "miss", "timeout"}, 4)

\* A peer that is silent for long, and one side that ends while it is probed.
Silent == Scenario(<<Connect, Op("shutdown", 1)>>, <<Listen(1)>>, {"idle"}, 5)

\* Memory is short, and the callers are impatient.
Poor == Scenario(<<Connect, Send(1, 3)>>, <<Listen(1), Accept1, Op("drain", 2), Op("close", 2)>>,
                 {"poor", "timeout"}, 2)

MCPlans == {Telemetry, Goodbye, Crossing, Hasty, Turning, Crowd, Again, Refused, Silent, Poor}
=============================================================================
