----------------------------- MODULE UdpProtocol -----------------------------
(***************************************************************************)
(* UdpInverterProtocol (goodwe/protocol.py) shared by several coroutines   *)
(* that execute commands, on one asyncio event loop.                       *)
(*                                                                         *)
(* The loop is modelled as asyncio runs it: "ready" is its FIFO of         *)
(* callbacks, and the entry Poll marks the end of an iteration.  When Poll *)
(* is at the head the selector is asked, the socket's reader and the due   *)
(* timers are queued behind what the last iteration scheduled, and Poll    *)
(* goes back to the end.  A coroutine runs from a callback until it next   *)
(* suspends; the pcs "acquire", "connect", "send" and "resumed" are the    *)
(* points it passes without suspending, so nothing else runs there         *)
(* (Quiet).                                                                *)
(***************************************************************************)
EXTENDS Naturals, Queues

CONSTANTS
    Callers,       \* coroutines that execute commands on this protocol object
    Commands,      \* commands they execute
    Shape,         \* Shape[k]: what the validator of k compares (register count)
    MaxRetries,    \* InverterProtocol.retries
    KeepAlive,     \* InverterProtocol.keep_alive
    Reactions,     \* what one request may trigger: datagrams per kind
    SendMayFail,   \* TRUE when opening a socket or sendto may raise OSError
    MaxFrames,     \* interpreter's recursion limit, in nested send_request calls
    MaxCalls,      \* bound: calls per caller
    MaxTimers,     \* bound: timer handles known to the loop at one time
    None           \* Python's None

Kinds == {"answer", "first", "second", "reject", "garbage", "refused"}

ASSUME ConstantsAssumption ==
    /\ None \notin Callers /\ None \notin Commands
    /\ MaxRetries \in Nat /\ MaxFrames \in Nat \ {0}
    /\ MaxCalls \in Nat /\ MaxTimers \in Nat
    /\ KeepAlive \in BOOLEAN /\ SendMayFail \in BOOLEAN
    /\ Reactions \subseteq [Kinds -> Nat]

VARIABLES
    \* coroutines
    pc, request, frames, calls,
    \* self._lock
    locked, waiters,
    \* self._retry
    retry,
    \* self._transport and what is on its way to that socket
    transport, net,
    \* self.command, the caller that owns self.response_future, the latest
    \* future of each caller, self._partial_data
    command, owner, fut, partial,
    \* self._timer, and the handles the loop has neither run nor cancelled
    timer, armed,
    \* the loop's callbacks
    ready

callerVars == <<pc, request, frames, calls>>
lockVars   == <<locked, waiters>>
linkVars   == <<transport, net>>
exchange   == <<command, owner, fut, partial>>
timerVars  == <<timer, armed>>
vars == <<callerVars, lockVars, retry, linkVars, exchange, timerVars, ready>>

-----------------------------------------------------------------------------
TimerIds  == 1..MaxTimers
Datagrams == [kind : Kinds, cmd : Commands]

Callback(do, of) == [do |-> do, of |-> of]
Poll    == Callback("poll", None)       \* ask the selector
Read    == Callback("read", None)       \* the transport's reader
Lost    == Callback("lost", None)       \* connection_lost
Invalid == Callback("invalid", None)    \* _timeout_mechanism by call_soon
Wake(c) == Callback("wake", c)          \* step the task of c
Made(c) == Callback("made", c)          \* connection_made of c's endpoint
Due(t)  == Callback("timer", t)         \* _timeout_mechanism by call_later
Callbacks == {Poll, Read, Lost, Invalid} \cup {Wake(c) : c \in Callers}
                \cup {Made(c) : c \in Callers} \cup {Due(t) : t \in TimerIds}

\* States of a response future.
NoFuture  == <<"none">>
Pending   == <<"pending">>
Answer(k) == <<"answer", k>>
Rejected  == <<"rejected">>
Error     == <<"error">>
Cancelled == <<"cancelled">>
Exhausted == <<"max_retries">>
Futures == {NoFuture, Pending, Rejected, Error, Cancelled, Exhausted}
                \cup {Answer(k) : k \in Commands}

NoDatagrams == [d \in Datagrams |-> 0]

Synchronous == {"acquire", "connect", "send", "resumed"}
PCs == Synchronous \cup {"idle", "waiting", "connecting", "awaiting"}

\* No coroutine is between two suspension points: the loop may run a callback.
Quiet == \A c \in Callers : pc[c] \notin Synchronous

\* The request in progress on the wire, if any.
InFlight == owner # None /\ fut[owner] = Pending

-----------------------------------------------------------------------------
(* Pieces the handlers share. *)

Queued(callback) == Occurs(callback, ready)

\* Future.set_result, set_exception or cancel on a pending self.response_future.
Settle(value) == IF InFlight THEN [fut EXCEPT ![owner] = value] ELSE fut
WakeOwner     == IF InFlight THEN <<Wake(owner)>> ELSE <<>>

\* transport.close() schedules connection_lost; the socket's queue is gone.
LostIfOpen == IF transport = "open" THEN <<Lost>> ELSE <<>>
HangUp == transport' = "none" /\ net' = NoDatagrams

\* Lock.release wakes the first waiter and leaves the lock free.
WakeNext == IF locked /\ waiters # <<>> THEN <<Wake(Head(waiters))>> ELSE <<>>

\* Mutants of ReleaseAndDrop: the transport is kept; nobody is woken.
ReleaseOnly ==
    /\ locked' = FALSE
    /\ ready' = ready \o WakeNext
    /\ UNCHANGED <<linkVars, fut>>
DropOnly ==
    /\ locked' = FALSE
    /\ ready' = ready \o LostIfOpen \o WakeOwner
    /\ fut' = Settle(Cancelled)
    /\ HangUp

\* The clean-up on the way out of send_request: release, then close the
\* transport unless it is kept alive.
ReleaseAndDrop ==
    /\ locked' = FALSE
    /\ IF KeepAlive
       THEN /\ ready' = ready \o WakeNext
            /\ UNCHANGED <<linkVars, fut>>
       ELSE /\ ready' = ready \o WakeNext \o LostIfOpen \o WakeOwner
            /\ fut' = Settle(Cancelled)
            /\ HangUp

InUse == armed \cup ({timer} \ {None})
            \cup {t \in TimerIds : Queued(Due(t))}
FreeTimers == {t \in TimerIds : \A u \in InUse : u < t}
\* Handles are numbered in the order they are armed; equal delays fall due in
\* that order.
NewTimer == CHOOSE t \in FreeTimers : TRUE

ArmTimer(live) ==
    /\ FreeTimers # {}
    /\ timer' = NewTimer
    /\ armed' = live \cup {NewTimer}

-----------------------------------------------------------------------------
(* The coroutine: send_request, called through ProtocolCommand.execute. *)

\* Timers and readers polled by the current call of the selector.
PolledEvents ==
    {i \in DOMAIN ready : ready[1] = Poll /\ ready[i].do \in {"read", "timer"}}

\* A task of the application starts execute(k): whenever the loop runs tasks,
\* that is, not while the selector's events are being queued.
Call(c, k) ==
    /\ Quiet /\ PolledEvents = {}
    /\ pc[c] = "idle" /\ calls[c] < MaxCalls
    /\ pc' = [pc EXCEPT ![c] = "acquire"]
    /\ request' = [request EXCEPT ![c] = k]
    /\ frames' = [frames EXCEPT ![c] = 1]
    /\ calls' = [calls EXCEPT ![c] = @ + 1]
    /\ UNCHANGED <<lockVars, retry, linkVars, exchange, timerVars, ready>>

TakeLock(c) ==
    /\ pc[c] = "acquire"
    /\ locked' = TRUE
    /\ pc' = [pc EXCEPT ![c] = "connect"]
    /\ UNCHANGED <<request, frames, calls, waiters, retry, linkVars, exchange, timerVars, ready>>

\* Mutants of AcquireFree: past the waiters; without asking the lock.
AcquireBarging(c) == ~locked /\ TakeLock(c)
AcquireUnasked(c) == TakeLock(c)

\* await lock.acquire(): at once only if it is free and nobody waits.
AcquireFree(c) == ~locked /\ waiters = <<>> /\ TakeLock(c)

AcquireWait(c) ==
    /\ pc[c] = "acquire"
    /\ locked \/ waiters # <<>>
    /\ waiters' = Append(waiters, c)
    /\ pc' = [pc EXCEPT ![c] = "waiting"]
    /\ UNCHANGED <<request, frames, calls, locked, retry, linkVars, exchange, timerVars, ready>>

\* Mutants of Connect: any transport is used as it is; the endpoint is open
\* before the loop has run the callbacks it already holds.
ConnectUnchecked(c) ==
    /\ pc[c] = "connect"
    /\ pc' = [pc EXCEPT ![c] = "send"]
    /\ UNCHANGED <<request, frames, calls, lockVars, retry, linkVars, exchange, timerVars, ready>>
ConnectAtOnce(c) ==
    /\ pc[c] = "connect"
    /\ pc' = [pc EXCEPT ![c] = "send"]
    /\ transport' = "open"
    /\ UNCHANGED <<request, frames, calls, lockVars, retry, net, exchange, timerVars, ready>>

\* _connect: an open transport is used as it is, otherwise the endpoint is
\* created and the loop will call connection_made.
Connect(c) ==
    /\ pc[c] = "connect"
    /\ IF transport = "open"
       THEN /\ pc' = [pc EXCEPT ![c] = "send"]
            /\ UNCHANGED ready
       ELSE /\ pc' = [pc EXCEPT ![c] = "connecting"]
            /\ ready' = Append(ready, Made(c))
    /\ UNCHANGED <<request, frames, calls, lockVars, retry, linkVars, exchange, timerVars>>

\* create_datagram_endpoint raises OSError (no such host, no route, no free
\* descriptor): nothing is sent, and the exception leaves send_request.
ConnectFails(c) ==
    /\ SendMayFail
    /\ pc[c] = "connect"
    /\ transport # "open"
    /\ pc' = [pc EXCEPT ![c] = "resumed"]
    /\ fut' = [fut EXCEPT ![c] = Error]
    /\ UNCHANGED <<request, frames, calls, lockVars, retry, linkVars, command, owner, partial,
                   timerVars, ready>>

\* _send_request and the await that follows; reaction is what will come back.
Send(c, reaction) ==
    /\ pc[c] = "send"
    /\ pc' = [pc EXCEPT ![c] = "awaiting"]
    /\ command' = request[c]
    /\ owner' = c
    /\ fut' = [fut EXCEPT ![c] = Pending]
    /\ partial' = None
    /\ net' = [d \in Datagrams |->
                 IF d.cmd = request[c] THEN net[d] + reaction[d.kind] ELSE net[d]]
    /\ ArmTimer(armed)
    /\ UNCHANGED <<request, frames, calls, lockVars, retry, transport, ready>>

\* sendto raises: the transport calls error_received before _send_request arms
\* the timer, so the await finds the future done and does not suspend.
SendFails(c) ==
    /\ SendMayFail
    /\ pc[c] = "send"
    /\ pc' = [pc EXCEPT ![c] = "resumed"]
    /\ command' = request[c]
    /\ owner' = c
    /\ fut' = [fut EXCEPT ![c] = Error]
    /\ partial' = None
    /\ HangUp
    /\ ready' = ready \o LostIfOpen
    /\ ArmTimer(armed)
    /\ UNCHANGED <<request, frames, calls, lockVars, retry>>

\* The attempt has ended, with its future done or with an OSError.  A result or an exception other than
\* CancelledError leaves send_request through its finally, in every frame.
Return(c) ==
    /\ pc[c] = "resumed"
    /\ fut[c] # Cancelled
    /\ pc' = [pc EXCEPT ![c] = "idle"]
    /\ ReleaseAndDrop
    /\ UNCHANGED <<request, frames, calls, waiters, retry, command, owner, partial, timerVars>>

TimedOut(c) == pc[c] = "resumed" /\ fut[c] = Cancelled

\* send_request calls itself, behind whoever waits for the lock.
Nested(c) ==
    /\ frames[c] < MaxFrames
    /\ frames' = [frames EXCEPT ![c] = @ + 1]
    /\ pc' = [pc EXCEPT ![c] = "acquire"]
    /\ ReleaseAndDrop
    /\ UNCHANGED <<request, calls, waiters, command, owner, partial, timerVars>>

\* Mutant of Retry: a retry that is not counted.
RetryUncounted(c) == TimedOut(c) /\ retry < MaxRetries /\ UNCHANGED retry /\ Nested(c)

\* CancelledError is taken for a timeout: release, drop, and start again.
Retry(c) == TimedOut(c) /\ retry < MaxRetries /\ retry' = retry + 1 /\ Nested(c)

\* The nested call exceeds the recursion limit: RecursionError leaves all frames.
RecursionLimit(c) ==
    /\ TimedOut(c)
    /\ retry < MaxRetries
    /\ frames[c] = MaxFrames
    /\ retry' = retry + 1
    /\ pc' = [pc EXCEPT ![c] = "idle"]
    /\ ReleaseAndDrop
    /\ UNCHANGED <<request, frames, calls, waiters, command, owner, partial, timerVars>>

GiveUp(c) ==
    /\ TimedOut(c)
    /\ retry >= MaxRetries
    /\ pc' = [pc EXCEPT ![c] = "idle"]
    /\ HangUp
    /\ owner' = c
    /\ fut' = [Settle(Cancelled) EXCEPT ![c] = Exhausted]
    /\ UNCHANGED <<request, frames, calls, waiters, retry, command, partial, timerVars>>

\* Mutant of MaxRetriesReached: the lock stays taken.
GiveUpHolding(c) ==
    GiveUp(c) /\ UNCHANGED locked /\ ready' = ready \o LostIfOpen \o WakeOwner

\* _max_retries_reached closes the transport whatever keep_alive says, and
\* leaves _retry as it is.
MaxRetriesReached(c) ==
    /\ GiveUp(c)
    /\ locked' = FALSE
    /\ ready' = ready \o LostIfOpen \o WakeOwner \o WakeNext

-----------------------------------------------------------------------------
(* The callbacks the loop runs. *)

Runs(callback) == Quiet /\ Head(ready) = callback

\* A waiter of the lock is stepped: it leaves the queue and owns the lock.
WakeAcquired(c) ==
    /\ Runs(Wake(c))
    /\ pc[c] = "waiting"
    /\ pc' = [pc EXCEPT ![c] = "connect"]
    /\ locked' = TRUE
    /\ waiters' = Tail(waiters)
    /\ ready' = Tail(ready)
    /\ UNCHANGED <<request, frames, calls, retry, linkVars, exchange, timerVars>>

\* The endpoint is ready (_connect stores the transport that connection_made
\* has stored), or the future the coroutine awaits is done.
WakeAwaited(c) ==
    /\ Runs(Wake(c))
    /\ \/ pc[c] = "connecting" /\ pc' = [pc EXCEPT ![c] = "send"]
       \/ pc[c] = "awaiting" /\ pc' = [pc EXCEPT ![c] = "resumed"]
    /\ ready' = Tail(ready)
    /\ UNCHANGED <<request, frames, calls, lockVars, retry, linkVars, exchange, timerVars>>

\* connection_made, then the loop starts reading and completes the endpoint.
ConnectionMade(c) ==
    /\ Runs(Made(c))
    /\ transport' = "open"
    /\ net' = NoDatagrams
    /\ ready' = Append(Tail(ready), Wake(c))
    /\ UNCHANGED <<callerVars, lockVars, retry, exchange, timerVars>>

\* connection_lost closes whatever transport is current and cancels the future.
ConnectionLost ==
    /\ Runs(Lost)
    /\ HangUp
    /\ fut' = Settle(Cancelled)
    /\ ready' = Tail(ready) \o LostIfOpen \o WakeOwner
    /\ UNCHANGED <<callerVars, lockVars, retry, command, owner, partial, timerVars>>

\* _timeout_mechanism.
TimeoutMechanism ==
    /\ ready' = Tail(ready) \o WakeOwner
    /\ fut' = Settle(Cancelled)
    /\ IF owner # None /\ ~InFlight
       THEN retry' = 0 /\ UNCHANGED timer
       ELSE timer' = None /\ UNCHANGED retry
    /\ UNCHANGED <<callerVars, lockVars, linkVars, command, owner, partial>>

TimerExpired(t) ==
    /\ Runs(Due(t))
    /\ t \in armed
    /\ armed' = armed \ {t}
    /\ TimeoutMechanism

InvalidHandled ==
    /\ Runs(Invalid)
    /\ UNCHANGED armed
    /\ TimeoutMechanism

\* A handle cancelled after the selector queued it is skipped, as is the reader
\* of a transport that has been closed.
SkipCancelled ==
    /\ \/ \E t \in TimerIds \ armed : Runs(Due(t))
       \/ Runs(Read) /\ transport # "open"
    /\ ready' = Tail(ready)
    /\ UNCHANGED <<callerVars, lockVars, retry, linkVars, exchange, timerVars>>

-----------------------------------------------------------------------------
(* datagram_received and error_received. *)

\* A second fragment of the missing length completes the first one; pieces of
\* two different answers have a wrong checksum.
Completes(d) == d.kind = "second" /\ partial # None /\ Shape[partial] = Shape[d.cmd]
Composed(d) ==
    IF ~Completes(d) THEN d
    ELSE [kind |-> IF partial = d.cmd THEN "answer" ELSE "garbage", cmd |-> d.cmd]

\* Mutant of Valid: any well-formed answer will do.
AnyAnswer(d) == d.kind = "answer"
\* The validator of the current command: the shape is all it can compare.
Valid(d)   == d.kind = "answer" /\ Shape[d.cmd] = Shape[command]
Partial(d) == d.kind = "first" /\ Shape[d.cmd] = Shape[command]

\* The transport hands one datagram over; every kind but an error first cancels
\* self._timer.
Receive(d) ==
    /\ Runs(Read)
    /\ transport = "open"
    /\ net[d] > 0
    /\ UNCHANGED <<callerVars, lockVars, command, owner>>

\* Mutant of StopTimer: the handle is forgotten and not cancelled.
ForgetTimer == timer' = None /\ UNCHANGED armed
Consume(d) == net' = [net EXCEPT ![d] = @ - 1]
StopTimer == timer' = None /\ armed' = armed \ {timer}
Unpack(d) == partial' = IF Completes(d) THEN None ELSE partial

ReceiveAnswer(d) ==
    /\ Receive(d) /\ Valid(Composed(d))
    /\ Consume(d) /\ StopTimer /\ Unpack(d)
    /\ retry' = 0
    /\ fut' = Settle(Answer(d.cmd))
    /\ ready' = Tail(ready) \o WakeOwner
    /\ UNCHANGED transport

\* Mutant of ReceivePartial: the timer is not armed again.
KeepPieceOnly(d) ==
    /\ Receive(d) /\ Partial(Composed(d))
    /\ Consume(d) /\ StopTimer
    /\ partial' = d.cmd
    /\ ready' = Tail(ready)
    /\ UNCHANGED <<retry, transport, fut>>

\* PartialResponseException: keep the piece and wait once more for the timeout.
ReceivePartial(d) ==
    /\ Receive(d) /\ Partial(Composed(d))
    /\ Consume(d)
    /\ partial' = d.cmd
    /\ ArmTimer(armed \ {timer})
    /\ ready' = Tail(ready)
    /\ UNCHANGED <<retry, transport, fut>>

ReceiveReject(d) ==
    /\ Receive(d) /\ d.kind = "reject"
    /\ StopTimer /\ HangUp
    /\ fut' = Settle(Rejected)
    /\ ready' = Tail(ready) \o WakeOwner \o LostIfOpen
    /\ UNCHANGED <<retry, partial>>

\* Mutant of ReceiveInvalid: the answer is dropped, its timer too.
DropInvalid(d) ==
    /\ Receive(d)
    /\ ~Valid(Composed(d)) /\ ~Partial(Composed(d)) /\ d.kind \notin {"reject", "refused"}
    /\ Consume(d) /\ StopTimer /\ Unpack(d)
    /\ ready' = Tail(ready)
    /\ UNCHANGED <<retry, transport, fut>>

\* An invalid answer is treated like a timeout, in the next loop iteration.
ReceiveInvalid(d) ==
    /\ Receive(d)
    /\ ~Valid(Composed(d)) /\ ~Partial(Composed(d)) /\ d.kind \notin {"reject", "refused"}
    /\ Consume(d) /\ StopTimer /\ Unpack(d)
    /\ ready' = Append(Tail(ready), Invalid)
    /\ UNCHANGED <<retry, transport, fut>>

\* error_received: the timer keeps running; on a future that is done
\* set_exception raises and the transport stays.
ReceiveError(d) ==
    /\ Receive(d) /\ d.kind = "refused"
    /\ IF InFlight
       THEN /\ HangUp
            /\ fut' = Settle(Error)
            /\ ready' = Tail(ready) \o WakeOwner \o LostIfOpen
       ELSE /\ Consume(d)
            /\ ready' = Tail(ready)
            /\ UNCHANGED <<transport, fut>>
    /\ UNCHANGED <<retry, partial, timerVars>>

-----------------------------------------------------------------------------
(* The selector. *)

\* Only while the loop polls: the events go behind the callbacks scheduled in
\* the last iteration, the reader before the timers.
Polls == Quiet /\ Head(ready) = Poll

PollReadable ==
    /\ Polls
    /\ transport = "open"
    /\ \E d \in Datagrams : net[d] > 0
    /\ PolledEvents = {}
    /\ ready' = Append(ready, Read)
    /\ UNCHANGED <<callerVars, lockVars, retry, linkVars, exchange, timerVars>>

PollTimer(t) ==
    /\ Polls
    /\ t \in armed
    /\ \A u \in armed : u < t => \E i \in PolledEvents : ready[i] = Due(u)
    /\ \A i \in PolledEvents : ready[i] # Due(t)
    /\ ready' = Append(ready, Due(t))
    /\ UNCHANGED <<callerVars, lockVars, retry, linkVars, exchange, timerVars>>

\* The selector returns; with nothing to run the loop goes on sleeping in it.
PollEnds ==
    /\ Polls
    /\ Len(ready) > 1
    /\ ready' = Append(Tail(ready), Poll)
    /\ UNCHANGED <<callerVars, lockVars, retry, linkVars, exchange, timerVars>>

-----------------------------------------------------------------------------
Init ==
    /\ pc = [c \in Callers |-> "idle"]
    /\ request = [c \in Callers |-> None]
    /\ frames = [c \in Callers |-> 0]
    /\ calls = [c \in Callers |-> 0]
    /\ locked = FALSE /\ waiters = <<>>
    /\ retry = 0
    /\ transport = "none" /\ net = NoDatagrams
    /\ command = None /\ owner = None /\ partial = None
    /\ fut = [c \in Callers |-> NoFuture]
    /\ timer = None /\ armed = {}
    /\ ready = <<Poll>>

Coroutine(c) ==
    \/ AcquireFree(c) \/ AcquireWait(c) \/ Connect(c) \/ ConnectFails(c)
    \/ \E r \in Reactions : Send(c, r)
    \/ SendFails(c)
    \/ Return(c) \/ Retry(c) \/ RecursionLimit(c) \/ MaxRetriesReached(c)

RunCallback ==
    \/ \E c \in Callers : WakeAcquired(c) \/ WakeAwaited(c) \/ ConnectionMade(c)
    \/ ConnectionLost
    \/ \E t \in TimerIds : TimerExpired(t)
    \/ InvalidHandled
    \/ SkipCancelled
    \/ \E d \in Datagrams :
          \/ ReceiveAnswer(d) \/ ReceivePartial(d) \/ ReceiveReject(d)
          \/ ReceiveInvalid(d) \/ ReceiveError(d)

Select == PollReadable \/ (\E t \in TimerIds : PollTimer(t)) \/ PollEnds

Loop == (\E c \in Callers : Coroutine(c)) \/ RunCallback \/ Select

\* No caller is left and the loop sleeps: the program may stop here.
AllReturned ==
    /\ \A c \in Callers : pc[c] = "idle" /\ calls[c] = MaxCalls
    /\ UNCHANGED vars

Next == (\E c \in Callers, k \in Commands : Call(c, k)) \/ Loop \/ AllReturned

Spec == Init /\ [][Next]_vars

\* The event loop keeps running: asyncio never sleeps while a callback is
\* ready, and a call_later handle falls due.
FairSpec == Spec /\ WF_vars(Loop)
=============================================================================
