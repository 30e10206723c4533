----------------------------- MODULE UdpService -----------------------------
(* UdpProtocol implements RequestService: the coroutine that holds the lock  *)
(* is the active one, a retry queues again, and a call's outcome is read off *)
(* its last future.                                                          *)
EXTENDS UdpProperties

Phase(c) ==
    IF Holds(c) THEN "active"
    ELSE IF pc[c] = "idle" THEN "idle" ELSE "queued"

\* RecursionError leaves the last future cancelled, an OSError as an error.
Outcome(c) ==
    IF pc[c] # "idle" THEN <<>>
    ELSE IF fut[c] = Rejected THEN <<"rejected">>
    ELSE IF \E k \in Commands : fut[c] = Answer(k) THEN fut[c]
    ELSE <<"failed">>

\* One socket per attempt isolates a request from answers to earlier ones; on
\* a kept socket only the validator does.
Admitted ==
    [k \in Commands |-> IF KeepAlive THEN {j \in Commands : Shape[j] = Shape[k]} ELSE {k}]

Service == INSTANCE RequestService WITH
    Accepts <- Admitted,
    phase   <- [c \in Callers |-> Phase(c)],
    outcome <- [c \in Callers |-> Outcome(c)]

\* Requests are served one at a time, each ends, and the result of execute is an
\* acceptable answer or a failure (ProtocolCommand.execute, protocol.py:444-464).
ImplementsService == Service!Spec
=============================================================================
