----------------------------- MODULE TcpService -----------------------------
(* What TcpInverterProtocol must never do to the coroutines that share it, and *)
(* that it implements RequestService.                                          *)
EXTENDS TcpProtocol

TypeOK ==
    /\ pc \in [Callers -> PCs]
    /\ request \in [Callers -> Commands \cup {None}]
    /\ frames \in [Callers -> 0..MaxFrames] /\ calls \in [Callers -> 0..MaxCalls]
    /\ locked \in BOOLEAN /\ waiters \in Seq(Callers)
    /\ retry \in 0..MaxRetries
    /\ transport \in {"none", "open", "closing"} /\ stream \in Seq(Segments)
    /\ command \in Commands \cup {None} /\ owner \in Callers \cup {None}
    /\ partial \in Commands \cup {None} /\ fut \in [Callers -> Futures]
    /\ timer \in TimerIds \cup {None} /\ armed \subseteq TimerIds
    /\ ready \in Seq(Callbacks)

Holds(c) == pc[c] \notin {"idle", "acquire", "waiting", "close", "closing"}

\* When all calls have returned the lock is free and, without keep_alive, the
\* connection is closed, whoever closed it (protocol.py:378-384, 464).
NothingLeftBehind ==
    (\A c \in Callers : pc[c] = "idle") =>
        ~locked /\ waiters = <<>> /\ (KeepAlive \/ transport = "none")

\* connection_lost of a connection that was closed comes late, but never when the
\* next one is open, which it would close (protocol.py:278-284).
LateLossIsHarmless == [][ConnectionLost => transport # "open"]_vars

\* Every call returns, the close() of its finally included, although close()
\* waits for the lock (protocol.py:379).
CallsReturn == \A c \in Callers : pc[c] # "idle" ~> pc[c] = "idle"

-----------------------------------------------------------------------------
(* Why: the invariants every step preserves together.                          *)

Locking == {"waiting", "closing"}

\* One coroutine at most is between acquire and release, and a lock nobody holds
\* is free, although every frame of a retried request releases "if locked".
MutualExclusion ==
    /\ \A c, d \in Callers : Holds(c) /\ Holds(d) => c = d
    /\ locked <=> \E c \in Callers : Holds(c)

\* A pending self.response_future is the one its coroutine awaits.
FutureBelongsToWaiter ==
    \A c \in Callers : fut[c] = Pending => owner = c /\ pc[c] = "awaiting"

\* The queue of the lock holds the requests and the close()s that wait for it.
WaitersWait ==
    \A c \in Callers : (pc[c] \in Locking <=> Occurs(c, waiters)) /\ AtMostOnce(c, waiters)

\* A free lock has woken its first waiter, and no other.
NoLostWakeup == waiters # <<>> /\ ~locked => Queued(Wake(Head(waiters)))
WokenIsHead ==
    \A c \in Callers : pc[c] \in Locking /\ Queued(Wake(c)) => ~locked /\ Head(waiters) = c

\* The loop holds at most one callback for a coroutine, and one it waits for.
StepsOnce ==
    \A c \in Callers :
        /\ \A x \in {Wake(c), Probe(c), Opened(c), Released(c)} : AtMostOnce(x, ready)
        /\ Queued(Wake(c)) => /\ pc[c] \in Locking \cup {"connected", "failed", "awaiting"}
                              /\ fut[c] # Pending
        /\ Queued(Probe(c)) => pc[c] = "probing"
        /\ Queued(Opened(c)) => pc[c] = "connecting"
        /\ Queued(Released(c)) => pc[c] = "connected" /\ ~Queued(Wake(c))

\* The lock, its queue and the loop's callbacks agree.
LockInv ==
    /\ MutualExclusion /\ FutureBelongsToWaiter /\ NoLostWakeup
    /\ WaitersWait /\ WokenIsHead /\ StepsOnce

\* In a queue s of callbacks those of the last connection, late ones included,
\* come before the one that opens the next.
InOrder(s) ==
    \A i, j \in DOMAIN s : \A c \in Callers :
        s[i] \in {Lost, Read} /\ s[j] = Opened(c) => i < j

\* An open connection is not lost nor replaced, and its reader has data to read.
OpenIsUsable ==
    transport = "open" =>
        /\ ~Queued(Lost) /\ \A c \in Callers : pc[c] # "connecting"
        /\ Queued(Read) => stream # <<>>

\* Without keep_alive a call that is under way will close the connection.
WillBeClosed == ~KeepAlive /\ transport # "none" => \E c \in Callers : pc[c] # "idle"

\* The connection and the loop's callbacks agree.
LinkInv == InOrder(ready) /\ AtMostOnce(Read, ready) /\ OpenIsUsable /\ WillBeClosed

\* A coroutine that awaits a task, a wake-up or an answer will be stepped: the loop
\* holds its callback, or the timer that cancels its future is to come.  A
\* connection attempt is ended from outside, by its peer or after 5 s (ConnectEnds).
StepComes ==
    \A c \in Callers :
        /\ pc[c] = "probing" => Queued(Probe(c))
        /\ pc[c] = "connected" => Queued(Released(c)) \/ Queued(Wake(c))
        /\ pc[c] = "failed" => Queued(Wake(c))
        /\ pc[c] = "awaiting" => IF fut[c] = Pending THEN armed # {} ELSE Queued(Wake(c))

\* Who waits for the lock, a request or a close(), waits for a coroutine that
\* holds it, or for the first of the queue to be stepped.
LockComes ==
    \A c \in Callers : pc[c] \in Locking =>
        (\E d \in Callers : Holds(d)) \/ Queued(Wake(Head(waiters)))

\* No coroutine waits for the lock, a task or an answer that nothing will bring
\* (protocol.py:325, 327, 330, 379).
NobodyHangs == StepComes /\ LockComes

CallsHaveCommand == \A c \in Callers : pc[c] # "idle" => request[c] \in Commands

\* self.command is that of the request in flight; an answer, from its arrival
\* until the next call, has the register count its caller asked for.
AnswerInv ==
    /\ CallsHaveCommand
    /\ \A c \in Callers : fut[c] = Pending => command = request[c]
    /\ \A c \in Callers, k \in Commands : fut[c] = Answer(k) => Shape[k] = Shape[request[c]]

-----------------------------------------------------------------------------
\* The holder of the lock is the active one; a retry queues again; a caller
\* that only closes has its outcome.
Phase(c) ==
    IF Holds(c) THEN "active"
    ELSE IF pc[c] \in {"acquire", "waiting"} THEN "queued" ELSE "idle"

Outcome(c) ==
    IF Phase(c) # "idle" THEN <<>>
    ELSE IF fut[c] = Rejected THEN <<"rejected">>
    ELSE IF \E k \in Commands : fut[c] = Answer(k) THEN fut[c]
    ELSE <<"failed">>

Service == INSTANCE RequestService WITH
    Accepts <- [k \in Commands |-> {j \in Commands : Shape[j] = Shape[k]}],
    phase   <- [c \in Callers |-> Phase(c)],
    outcome <- [c \in Callers |-> Outcome(c)]

\* Requests are served one at a time, each ends, and execute answers with an
\* acceptable answer or a failure.  The answer may be a late one to another
\* command, the transaction id is never read (modbus.py:222), but its register
\* count is the one asked for.
ImplementsService == Service!Spec
=============================================================================
