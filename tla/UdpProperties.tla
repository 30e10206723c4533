---------------------------- MODULE UdpProperties ----------------------------
(* What UdpInverterProtocol must never do to the coroutines that share it, and *)
(* the inductive invariant of its lock.                                        *)
EXTENDS UdpProtocol

TypeOK ==
    /\ pc \in [Callers -> PCs]
    /\ request \in [Callers -> Commands \cup {None}]
    /\ frames \in [Callers -> 0..MaxFrames]
    /\ calls \in [Callers -> 0..MaxCalls]
    /\ locked \in BOOLEAN
    /\ waiters \in Seq(Callers)
    /\ retry \in 0..MaxRetries
    /\ transport \in {"none", "open"}
    /\ net \in [Datagrams -> Nat]
    /\ command \in Commands \cup {None}
    /\ owner \in Callers \cup {None}
    /\ fut \in [Callers -> Futures]
    /\ partial \in Commands \cup {None}
    /\ timer \in TimerIds \cup {None}
    /\ armed \subseteq TimerIds
    /\ ready \in Seq(Callbacks)

Holds(c) == pc[c] \in {"connect", "connecting", "send", "awaiting", "resumed"}

\* The lock does what send_request takes it for (protocol.py:180-198): at most
\* one coroutine is between acquire and release, although a release leaves the
\* lock free before the woken waiter runs and every frame of a retried request
\* releases "if locked" whoever holds it; and a lock nobody holds is free.
MutualExclusion ==
    /\ \A c, d \in Callers : Holds(c) /\ Holds(d) => c = d
    /\ locked <=> \E c \in Callers : Holds(c)

\* While a request waits for its answer, self.response_future is its future, so
\* the callbacks complete the right one; a future still pending is awaited.
FutureBelongsToWaiter ==
    \A c \in Callers : fut[c] = Pending => owner = c /\ pc[c] = "awaiting"

\* Who awaits an answer has a timer or an invalid answer to end the wait, or the
\* loop already holds its wake-up.
AnswerComes ==
    \A c \in Callers : pc[c] = "awaiting" =>
        \/ fut[c] = Pending /\ (armed # {} \/ Queued(Invalid))
        \/ fut[c] # Pending /\ Queued(Wake(c))

\* Who awaits its endpoint has connection_made or its wake-up to come.
EndpointComes ==
    \A c \in Callers : pc[c] = "connecting" => Queued(Made(c)) \/ Queued(Wake(c))

\* Who waits for the lock waits for a coroutine that holds it, or for the first
\* of the queue to be stepped.
LockComes ==
    \A c \in Callers : pc[c] = "waiting" =>
        (\E d \in Callers : Holds(d)) \/ Queued(Wake(Head(waiters)))

\* A coroutine never suspends in send_request for something that will not come:
\* the lock, the endpoint or the answer (protocol.py:180, 182, 186).
NobodyHangs == AnswerComes /\ EndpointComes /\ LockComes

\* A request is sent, and its answer awaited, on an open transport: neither the
\* close of an earlier request nor its late connection_lost reaches it.
WaitsOnOpenTransport ==
    \A c \in Callers :
        pc[c] = "send" \/ (pc[c] = "awaiting" /\ fut[c] = Pending) => transport = "open"

\* A waiter of the lock is woken once the lock is free, so no wake-up is lost.
NoLostWakeup ==
    waiters # <<>> /\ ~locked => Queued(Wake(Head(waiters)))

\* execute returns the answer to its own command (inverter.py:157, :165: the
\* value "of specific inverter sensor"), also after retries and duplicates.
AnswersOwnCommand ==
    \A c \in Callers, k \in Commands :
        pc[c] = "idle" /\ fut[c] = Answer(k) => k = request[c]

\* With keep_alive the answer may belong to another command (see README), but
\* never to one the validator of the caller's command tells apart.
AnswersSameShape ==
    \A c \in Callers, k \in Commands :
        pc[c] = "idle" /\ fut[c] = Answer(k) => Shape[k] = Shape[request[c]]

\* When all calls have returned the lock is free and, without keep_alive, the
\* socket is closed, whichever way the calls ended (protocol.py:196-200).
NothingLeftBehind ==
    (\A c \in Callers : pc[c] = "idle") =>
        ~locked /\ waiters = <<>> /\ (KeepAlive \/ transport = "none")

\* A call sends at most retries+1 requests ("re-tried up to retries times",
\* __init__.py:55).
AttemptsBounded == \A c \in Callers : frames[c] <= MaxRetries + 1

\* A call is given up only after retries+1 requests (same sentence).
RetriesGranted ==
    \A c \in Callers : pc[c] = "idle" /\ fut[c] = Exhausted => frames[c] > MaxRetries

\* connection_lost of a transport that was closed comes late, and finds nothing
\* to close or to cancel: the socket and the future of the next request survive.
LateLossIsHarmless == [][ConnectionLost => UNCHANGED <<transport, fut>>]_vars

\* A pending self.response_future is neither replaced nor abandoned: while it is
\* pending no other request takes its place (protocol.py:205), and its coroutine
\* goes on only after it is done.
FutureNeverReplaced == [][InFlight => owner' = owner /\ pc'[owner] = "awaiting"]_vars

-----------------------------------------------------------------------------
(* Why the lock works: the strengthening of MutualExclusion, NoLostWakeup and  *)
(* FutureBelongsToWaiter that every step preserves.                            *)

\* The queue of the lock holds the coroutines that wait for it, each once.
WaitersWait ==
    \A c \in Callers : (pc[c] = "waiting" <=> Occurs(c, waiters)) /\ AtMostOnce(c, waiters)

\* A waiter is woken only at the head of the queue of a free lock.
WokenIsHead ==
    \A c \in Callers : pc[c] = "waiting" /\ Queued(Wake(c)) =>
        ~locked /\ Head(waiters) = c

\* Each suspended coroutine has at most one reason to be stepped, and one that
\* still waits for connection_made or for its future has none.
WakeOnce ==
    \A c \in Callers :
        /\ AtMostOnce(Wake(c), ready) /\ AtMostOnce(Made(c), ready)
        /\ Queued(Wake(c)) => pc[c] \in {"waiting", "connecting", "awaiting"}
        /\ Queued(Made(c)) => pc[c] = "connecting" /\ ~Queued(Wake(c))
        /\ fut[c] = Pending => ~Queued(Wake(c))

LoopPolls == Queued(Poll)

\* The lock, its queue and the callbacks of the loop agree (the inductive
\* invariant behind the lock's properties).
LockInv ==
    /\ MutualExclusion /\ FutureBelongsToWaiter /\ NoLostWakeup
    /\ WaitersWait /\ WokenIsHead /\ WakeOnce /\ LoopPolls
-----------------------------------------------------------------------------
(* Why the exchange works: the strengthenings of WaitsOnOpenTransport,         *)
(* AnswerComes, NothingLeftBehind and AnswersSameShape, on top of LockInv.     *)

\* In a queue s of callbacks every late connection_lost comes before the
\* connection_made of a newer endpoint, and an open transport t waits for none.
InOrder(s, t) ==
    /\ \A i, j \in DOMAIN s : \A c \in Callers : s[i] = Lost /\ s[j] = Made(c) => i < j
    /\ t = "open" => ~Occurs(Lost, s) /\ \A c \in Callers : ~Occurs(Made(c), s)

\* A coroutine that opens an endpoint has one to come, or one nobody has used.
EndpointArrives ==
    \A c \in Callers : pc[c] = "connecting" =>
        Queued(Made(c)) \/ (transport = "open" /\ net = NoDatagrams)

\* Without keep_alive a socket is open only for the coroutine that opened it.
SocketIsUsed ==
    ~KeepAlive /\ transport = "open" =>
        \E c \in Callers : pc[c] \in {"connecting", "send", "awaiting", "resumed"}

\* The socket, the coroutine that uses it and the loop's callbacks agree.
LinkInv == InOrder(ready, transport) /\ EndpointArrives /\ WaitsOnOpenTransport /\ SocketIsUsed

\* A coroutine that executes a command has one, and self.command is that of the
\* request in flight.
AsksItsCommand ==
    /\ \A c \in Callers : pc[c] # "idle" => request[c] \in Commands
    /\ InFlight => command = request[owner]

\* Without keep_alive the socket holds datagrams of the current command only.
FreshSocket ==
    ~KeepAlive =>
        /\ \A c \in Callers : pc[c] = "send" => net = NoDatagrams
        /\ \A d \in Datagrams : net[d] > 0 => d.cmd = command

\* The commands whose answer a call of k may return.
Acceptable(k) == {j \in Commands : Shape[j] = Shape[k] /\ (KeepAlive \/ j = k)}

\* From its arrival on, an answer fits the command it is returned for.
AnswersFit ==
    \A c \in Callers, k \in Commands :
        pc[c] \in {"awaiting", "resumed", "idle"} /\ fut[c] = Answer(k) =>
            k \in Acceptable(request[c])

AnswerInv == AsksItsCommand /\ FreshSocket /\ AnswersFit
-----------------------------------------------------------------------------
(* Why attempts are counted: the strengthening of AttemptsBounded where each   *)
(* attempt has a socket of its own, which never fails, and an invalid answer   *)
(* comes alone.                                                                *)

Orderly ==
    /\ ~KeepAlive /\ ~SendMayFail
    /\ \A r \in Reactions :
          /\ r["second"] = 0 /\ r["refused"] = 0
          /\ r["garbage"] > 0 => r = [kind \in Kinds |-> IF kind = "garbage" THEN 1 ELSE 0]

\* In a queue, nothing that is x comes after something that is y.
Before(x, y, s) == \A i, j \in DOMAIN s : s[i] = x /\ s[j] = y => i < j

\* Either the timer the request armed or the invalid answer ends its wait: neither is
\* left when it has ended.
OneEnding ==
    /\ armed \subseteq {timer}
    /\ armed # {} \/ Queued(Invalid) => InFlight
    /\ Queued(Invalid) => armed = {} /\ net = NoDatagrams /\ ~Queued(Read)
    /\ AtMostOnce(Invalid, ready)

GarbageAlone ==
    \A d \in Datagrams : net[d] > 0 =>
        /\ d.kind \notin {"second", "refused"}
        /\ d.kind = "garbage" => net = [NoDatagrams EXCEPT ![d] = 1]

\* The selector reads before it looks at the timers, and a coroutine whose wait
\* has ended is stepped before the next read.
ReadInTurn ==
    /\ AtMostOnce(Read, ready)
    /\ \A t \in TimerIds : Before(Read, Due(t), ready)
    /\ \A c \in Callers : pc[c] = "awaiting" /\ fut[c] # Pending => Before(Wake(c), Read, ready)

TimerInv == OneEnding /\ GarbageAlone /\ ReadInTurn

\* A coroutine alone on the protocol object has used no more attempts than retries
\* are counted, until its wait has ended with an answer.
Answered(c) == pc[c] \in {"awaiting", "resumed"} /\ fut[c] \notin {Pending, Cancelled}
RetryInv ==
    \A c \in Callers :
        /\ frames[c] <= MaxRetries + 1
        /\ pc[c] # "idle" /\ ~Answered(c) => frames[c] <= retry + 1
=============================================================================
