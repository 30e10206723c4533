------------------------------- MODULE MCUdp -------------------------------
(* UdpProtocol on small instances: what the inverter and the network may do *)
(* with one request, and the commands, as values for the configurations.    *)
EXTENDS UdpService, TLC

CONSTANTS readA, readB, readC     \* commands

Nothing == [kind \in Kinds |-> 0]
Once(kind) == [Nothing EXCEPT ![kind] = 1]
Twice(kind) == [Nothing EXCEPT ![kind] = 2]
Fragments == [Nothing EXCEPT !["first"] = 1, !["second"] = 1]

\* Silence, one answer, a duplicated one, a fragmented one and half of it.
Lossy == {Nothing, Once("answer"), Twice("answer"), Fragments, Once("first")}
\* ... and exception responses, single invalid datagrams and ICMP errors.
Faulty == Lossy \cup {Once("reject"), Once("garbage"), Once("refused")}

\* On a kept socket: silence, late duplicates, and the errors.
Late == {Nothing, Twice("answer"), Once("reject"), Once("refused")}
\* At most one kind of datagram per request and no ICMP error.
Reachable == {Nothing, Once("answer"), Twice("answer"), Once("first"), Once("reject"), Once("garbage")}

\* One kind of misbehaviour each, for the disagreements with the documentation.
Silent   == {Nothing}
Doubled  == {Twice("answer")}
Garbled  == {Twice("garbage")}

Symmetry == Permutations(Callers)
TwoCommands == {readA, readB}
ThreeCommands == {readA, readB, readC}
\* readA and readB read as many registers, readC another number of them.
SameShape == readA :> 1 @@ readB :> 1 @@ readC :> 2
=============================================================================
