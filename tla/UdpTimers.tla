------------------------------ MODULE UdpTimers ------------------------------
(***************************************************************************)
(* The timers of UdpProtocol, accounted for.  A history variable counts    *)
(* the events after which the code lets go of a handle without cancelling  *)
(* it; whatever timer fires for a request that is not its own comes from   *)
(* one of them.                                                            *)
(***************************************************************************)
EXTENDS UdpService, FiniteSets

VARIABLE disturbances

\* The events that leave a handle armed which nobody waits for:
\*  - sendto raises, and _send_request arms the timer of a request already failed
\*    (protocol.py:213-214);
\*  - a first fragment comes for an answered request and is waited for (protocol.py:163);
\*  - an ICMP error ends the request in flight and leaves its timer (protocol.py:172-176);
\*  - an invalid answer is treated as the timeout of a request whose timer is
\*    armed, and the timer forgotten (protocol.py:158, 223).
Disturbs ==
    \/ \E c \in Callers : SendFails(c)
    \/ ~InFlight /\ \E d \in Datagrams : ReceivePartial(d)
    \/ InFlight /\ \E d \in Datagrams : ReceiveError(d)
    \/ InFlight /\ armed # {} /\ InvalidHandled

HistoryInit == Init /\ disturbances = 0
HistoryNext == Next /\ disturbances' = disturbances + (IF Disturbs THEN 1 ELSE 0)
HistorySpec == HistoryInit /\ [][HistoryNext]_<<vars, disturbances>>

\* The handles the loop still holds, but for that of the request in flight.
Stray == IF InFlight THEN armed \ {timer} ELSE armed

\* A request that ends takes its timer with it, whichever way it ends
\* (protocol.py:145-147, 214, 217-226): a handle left armed stems from a
\* disturbance, and each disturbance leaves at most one, however often a stray
\* cuts off a later request, whose own timer goes astray in its place.
TimersAccounted == Cardinality(Stray) <= disturbances

\* Until something disturbs them, the timer that fires is the one armed for the
\* request in flight: it neither cuts short the next caller's request nor finds
\* its own answered and resets the count of retries (protocol.py:218-219).
OnlyOwnTimerFires ==
    [][\A t \in TimerIds : TimerExpired(t) /\ disturbances = 0 => InFlight /\ t = timer]_<<vars, disturbances>>
=============================================================================
