----------------------------- MODULE TcpProtocol -----------------------------
(***************************************************************************)
(* TcpInverterProtocol (goodwe/protocol.py) shared by several coroutines   *)
(* on one asyncio event loop.  "ready" is the loop's FIFO of callbacks;    *)
(* what the selector reports is queued behind what the loop already holds. *)
(* The connection is a byte stream: its segments arrive in order, and the  *)
(* end of the stream or a reset is the last of them.  As in UdpProtocol a  *)
(* coroutine runs from a callback to its next suspension (Quiet).          *)
(***************************************************************************)
EXTENDS Naturals, Queues

CONSTANTS
    Callers,       \* coroutines that execute commands on this protocol object
    Commands,      \* commands they execute
    Shape,         \* Shape[k]: what the validator of k compares (register count)
    MaxRetries,    \* InverterProtocol.retries
    KeepAlive,     \* InverterProtocol.keep_alive
    Inline,        \* wait_for runs its awaitable in the caller's task (CPython 3.12+)
    Reactions,     \* what one request may bring: sequences of segment kinds
    MaxFrames,     \* interpreter's recursion limit, in nested send_request calls
    MaxCalls,      \* bound: calls per caller
    MaxTimers,     \* bound: timer handles known to the loop at one time
    None           \* Python's None

Kinds == {"answer", "first", "second", "reject", "garbage", "eof", "reset"}

ASSUME TcpConstants ==
    /\ None \notin Callers /\ None \notin Commands
    /\ MaxRetries \in Nat /\ MaxFrames \in Nat \ {0}
    /\ MaxCalls \in Nat /\ MaxTimers \in Nat
    /\ KeepAlive \in BOOLEAN /\ Inline \in BOOLEAN
    /\ Reactions \subseteq Seq(Kinds)

VARIABLES
    pc, request, frames, calls,       \* coroutines
    locked, waiters,                  \* self._lock
    retry,                            \* self._retry
    transport, stream,                \* self._transport and the segments under way
    command, owner, fut, partial,     \* self.command, response_future, _partial_data
    timer, armed,                     \* self._timer and the handles not yet run
    ready                             \* the loop's callbacks

callerVars == <<request, frames, calls>>
lockVars   == <<locked, waiters>>
linkVars   == <<transport, stream>>
exchange   == <<command, owner, partial>>
timerVars  == <<timer, armed>>
vars == <<pc, callerVars, lockVars, retry, linkVars, exchange, fut, timerVars, ready>>

-----------------------------------------------------------------------------
TimerIds == 1..MaxTimers
Segments == [kind : Kinds, cmd : Commands]

Callback(do, of) == [do |-> do, of |-> of]
Read        == Callback("read", None)      \* the transport's reader
Lost        == Callback("lost", None)      \* connection_lost
Wake(c)     == Callback("wake", c)         \* step the task of c
Probe(c)    == Callback("probe", c)        \* first step of c's _connect
Opened(c)   == Callback("opened", c)       \* create_connection answers c's _connect
Released(c) == Callback("released", c)     \* wait_for learns that _connect is done
Due(t)      == Callback("timer", t)        \* _timeout_mechanism
Callbacks == {Read, Lost} \cup {Due(t) : t \in TimerIds}
    \cup [do : {"wake", "probe", "opened", "released"}, of : Callers]

\* Outcomes of a caller's last attempt.  A stranded future is pending and nobody
\* awaits it: AttributeError has ended the call.
Pending   == <<"pending">>
Answer(k) == <<"answer", k>>
Rejected  == <<"rejected">>
Cancelled == <<"cancelled">>
Exhausted == <<"max_retries">>
Stranded  == <<"stranded">>
Broken    == <<"broken">>
NoFuture  == <<"none">>
Futures == {Pending, Rejected, Cancelled, Exhausted, Stranded, Broken, NoFuture}
    \cup {Answer(k) : k \in Commands}

Synchronous == {"acquire", "connect", "send", "resumed", "refused", "close"}
Suspended == {"waiting", "probing", "connecting", "connected", "failed", "awaiting", "closing"}
PCs == {"idle"} \cup Synchronous \cup Suspended

Quiet == \A c \in Callers : pc[c] \notin Synchronous
Queued(callback) == Occurs(callback, ready)

\* self.response_future exists and is not done.
InFlight == owner # None /\ fut[owner] \in {Pending, Stranded}
Settle(value) ==
    IF ~InFlight THEN fut
    ELSE [fut EXCEPT ![owner] = IF @ = Pending THEN value ELSE Broken]
WakeOwner == IF InFlight /\ fut[owner] = Pending THEN <<Wake(owner)>> ELSE <<>>

\* _close_transport: connection_lost follows from the loop, the future is cancelled.
LostIfOpen == IF transport = "open" THEN <<Lost>> ELSE <<>>
HangUp == transport' = "none" /\ stream' = <<>>
CloseTransport(queue) ==
    /\ HangUp
    /\ fut' = Settle(Cancelled)
    /\ ready' = queue \o LostIfOpen \o WakeOwner

\* Lock.release wakes the first waiter and leaves the lock free.
WakeNext == IF locked /\ waiters # <<>> THEN <<Wake(Head(waiters))>> ELSE <<>>

InUse == armed \cup ({timer} \ {None}) \cup {t \in TimerIds : Queued(Due(t))}
FreeTimers == {t \in TimerIds : \A u \in InUse : u < t}
ArmTimer(live) ==
    /\ FreeTimers # {}
    /\ timer' = CHOOSE t \in FreeTimers : \A u \in FreeTimers : t <= u
    /\ armed' = live \cup {timer'}

Goes(c, where) == pc' = [pc EXCEPT ![c] = where]

-----------------------------------------------------------------------------
(* The coroutine: execute and send_request. *)

\* The outcome of the last call is forgotten; a future it stranded stays in flight.
Call(c, k) ==
    /\ Quiet /\ pc[c] = "idle" /\ calls[c] < MaxCalls
    /\ Goes(c, "acquire")
    /\ request' = [request EXCEPT ![c] = k]
    /\ frames' = [frames EXCEPT ![c] = 1]
    /\ calls' = [calls EXCEPT ![c] = @ + 1]
    /\ fut' = [fut EXCEPT ![c] = IF @ = Stranded THEN @ ELSE NoFuture]
    /\ UNCHANGED <<lockVars, retry, linkVars, exchange, timerVars, ready>>

\* await lock.acquire(): at once only if it is free and nobody waits.
Acquire(c) ==
    /\ pc[c] = "acquire"
    /\ IF ~locked /\ waiters = <<>>
       THEN locked' = TRUE /\ Goes(c, "connect") /\ UNCHANGED waiters
       ELSE waiters' = Append(waiters, c) /\ Goes(c, "waiting") /\ UNCHANGED locked
    /\ UNCHANGED <<callerVars, retry, linkVars, exchange, fut, timerVars, ready>>

\* Mutant of Connect: the connection is there before the loop has run the
\* callbacks it already holds.
ConnectAtOnce(c) ==
    /\ pc[c] = "connect"
    /\ Goes(c, "send")
    /\ transport' = "open"
    /\ UNCHANGED <<callerVars, lockVars, retry, stream, exchange, fut, timerVars, ready>>

\* wait_for(_connect(), 5): before CPython 3.12 _connect is a task of its own.
Connect(c) ==
    /\ pc[c] = "connect"
    /\ IF Inline
       THEN Goes(c, IF transport = "open" THEN "send" ELSE "connecting") /\ UNCHANGED ready
       ELSE Goes(c, "probing") /\ ready' = Append(ready, Probe(c))
    /\ UNCHANGED <<callerVars, lockVars, retry, linkVars, exchange, fut, timerVars>>

\* _send_request; what the request brings is chosen here.  On a transport that
\* is closing write() drops the data.
Send(c, reaction) ==
    /\ pc[c] = "send" /\ transport # "none"
    /\ Goes(c, "awaiting")
    /\ command' = request[c] /\ owner' = c /\ partial' = None
    /\ fut' = [fut EXCEPT ![c] = Pending]
    /\ stream' = IF transport = "open"
                 THEN stream \o [i \in DOMAIN reaction |-> [kind |-> reaction[i], cmd |-> request[c]]]
                 ELSE stream
    /\ ArmTimer(armed)
    /\ UNCHANGED <<callerVars, lockVars, retry, transport, ready>>

\* None has no write(): AttributeError leaves send_request through its finally.
SendBroken(c) ==
    /\ pc[c] = "send" /\ transport = "none"
    /\ Goes(c, "resumed")
    /\ command' = request[c] /\ owner' = c /\ partial' = None
    /\ fut' = [fut EXCEPT ![c] = Stranded]
    /\ UNCHANGED <<callerVars, lockVars, retry, linkVars, timerVars, ready>>

\* The wait has ended and nothing catches the outcome: the finally of every
\* frame releases once at most, then execute closes unless kept alive.
Return(c) ==
    /\ pc[c] = "resumed" /\ fut[c] # Cancelled
    /\ Goes(c, IF KeepAlive THEN "idle" ELSE "close")
    /\ locked' = FALSE
    /\ ready' = ready \o WakeNext
    /\ UNCHANGED <<callerVars, waiters, retry, linkVars, exchange, fut, timerVars>>

TimedOut(c) == pc[c] = "resumed" /\ fut[c] = Cancelled
Failed(c) == TimedOut(c) \/ pc[c] = "refused"

\* Release; a broken wait also closes the transport, a failed connect does not.
ReleaseAndDrop(c) ==
    /\ locked' = FALSE
    /\ IF TimedOut(c)
       THEN CloseTransport(ready \o WakeNext)
       ELSE ready' = ready \o WakeNext /\ UNCHANGED <<linkVars, fut>>

\* Mutant of Retry: one retry too many.
RetryOnceMore(c) ==
    /\ Failed(c) /\ retry <= MaxRetries /\ frames[c] < MaxFrames
    /\ retry' = retry + 1
    /\ frames' = [frames EXCEPT ![c] = @ + 1]
    /\ Goes(c, "acquire")
    /\ ReleaseAndDrop(c)
    /\ UNCHANGED <<request, calls, waiters, exchange, timerVars>>

\* send_request calls itself, behind whoever waits for the lock.
Retry(c) ==
    /\ Failed(c) /\ retry < MaxRetries /\ frames[c] < MaxFrames
    /\ retry' = retry + 1
    /\ frames' = [frames EXCEPT ![c] = @ + 1]
    /\ Goes(c, "acquire")
    /\ ReleaseAndDrop(c)
    /\ UNCHANGED <<request, calls, waiters, exchange, timerVars>>

\* The nested call exceeds the recursion limit: RecursionError leaves all frames.
RecursionLimit(c) ==
    /\ Failed(c) /\ retry < MaxRetries /\ frames[c] = MaxFrames
    /\ retry' = retry + 1
    /\ Goes(c, IF KeepAlive THEN "idle" ELSE "close")
    /\ ReleaseAndDrop(c)
    /\ UNCHANGED <<callerVars, waiters, exchange, timerVars>>

\* _max_retries_reached closes the transport and leaves _retry as it is.
MaxRetriesReached(c) ==
    /\ Failed(c) /\ retry >= MaxRetries
    /\ Goes(c, IF KeepAlive THEN "idle" ELSE "close")
    /\ HangUp
    /\ owner' = c
    /\ fut' = [Settle(Cancelled) EXCEPT ![c] = Exhausted]
    /\ locked' = FALSE
    /\ ready' = ready \o LostIfOpen \o WakeOwner \o WakeNext
    /\ UNCHANGED <<callerVars, waiters, retry, command, partial, timerVars>>

\* Mutant of Close: under a free lock nothing is closed.
CloseNothing(c) ==
    /\ pc[c] = "close"
    /\ IF ~locked /\ waiters = <<>>
       THEN Goes(c, "idle") /\ UNCHANGED waiters
       ELSE Goes(c, "closing") /\ waiters' = Append(waiters, c)
    /\ UNCHANGED <<callerVars, locked, retry, linkVars, exchange, fut, timerVars, ready>>

\* close(): under the lock, behind the requests that wait for it.
Close(c) ==
    /\ pc[c] = "close"
    /\ IF ~locked /\ waiters = <<>>
       THEN Goes(c, "idle") /\ CloseTransport(ready) /\ UNCHANGED waiters
       ELSE /\ Goes(c, "closing") /\ waiters' = Append(waiters, c)
            /\ UNCHANGED <<linkVars, fut, ready>>
    /\ UNCHANGED <<callerVars, locked, retry, exchange, timerVars>>

-----------------------------------------------------------------------------
(* The callbacks. *)

Runs(callback) == Quiet /\ ready # <<>> /\ Head(ready) = callback

WakeAcquired(c) ==
    /\ Runs(Wake(c)) /\ pc[c] = "waiting"
    /\ Goes(c, "connect")
    /\ locked' = TRUE /\ waiters' = Tail(waiters)
    /\ ready' = Tail(ready)
    /\ UNCHANGED <<callerVars, retry, linkVars, exchange, fut, timerVars>>

\* Mutant of WakeClosing: the next waiter is not woken.
WakeClosingOnly(c) ==
    /\ Runs(Wake(c)) /\ pc[c] = "closing"
    /\ Goes(c, "idle")
    /\ waiters' = Tail(waiters)
    /\ CloseTransport(Tail(ready))
    /\ UNCHANGED <<callerVars, locked, retry, exchange, timerVars>>

\* close() has the lock, closes and releases it, without suspending.
WakeClosing(c) ==
    /\ Runs(Wake(c)) /\ pc[c] = "closing"
    /\ Goes(c, "idle")
    /\ waiters' = Tail(waiters)
    /\ HangUp /\ fut' = Settle(Cancelled)
    /\ ready' = Tail(ready) \o LostIfOpen \o WakeOwner
                  \o (IF Len(waiters) > 1 THEN <<Wake(waiters[2])>> ELSE <<>>)
    /\ UNCHANGED <<callerVars, locked, retry, exchange, timerVars>>

\* wait_for returns or raises, or the response future is done.
WakeAwaited(c) ==
    /\ Runs(Wake(c))
    /\ \/ pc[c] = "connected" /\ Goes(c, "send")
       \/ pc[c] = "failed" /\ Goes(c, "refused")
       \/ pc[c] = "awaiting" /\ Goes(c, "resumed")
    /\ ready' = Tail(ready)
    /\ UNCHANGED <<callerVars, lockVars, retry, linkVars, exchange, fut, timerVars>>

\* _connect in its own task: an open transport is used as it is.
ProbeTransport(c) ==
    /\ Runs(Probe(c))
    /\ IF transport = "open"
       THEN Goes(c, "connected") /\ ready' = Append(Tail(ready), Released(c))
       ELSE Goes(c, "connecting") /\ ready' = Tail(ready)
    /\ UNCHANGED <<callerVars, lockVars, retry, linkVars, exchange, fut, timerVars>>

ConnectReleased(c) ==
    /\ Runs(Released(c))
    /\ ready' = Append(Tail(ready), Wake(c))
    /\ UNCHANGED <<pc, callerVars, lockVars, retry, linkVars, exchange, fut, timerVars>>

\* _connect stores the new transport; connection_made does nothing.
ConnectionOpened(c) ==
    /\ Runs(Opened(c))
    /\ transport' = "open" /\ stream' = <<>>
    /\ IF Inline
       THEN Goes(c, "send") /\ ready' = Tail(ready)
       ELSE Goes(c, "connected") /\ ready' = Append(Tail(ready), Released(c))
    /\ UNCHANGED <<callerVars, lockVars, retry, exchange, fut, timerVars>>

\* connection_lost closes whatever transport is current.
ConnectionLost ==
    /\ Runs(Lost)
    /\ CloseTransport(Tail(ready))
    /\ UNCHANGED <<pc, callerVars, lockVars, retry, exchange, timerVars>>

\* _timeout_mechanism: a timer that finds the future done resets the retries.
TimeoutMechanism(t) ==
    /\ Runs(Due(t)) /\ t \in armed
    /\ armed' = armed \ {t}
    /\ IF InFlight
       THEN /\ timer' = None
            /\ CloseTransport(Tail(ready))
            /\ UNCHANGED retry
       ELSE /\ retry' = 0
            /\ ready' = Tail(ready)
            /\ UNCHANGED <<timer, linkVars, fut>>
    /\ UNCHANGED <<pc, callerVars, lockVars, exchange>>

\* A cancelled handle, and the reader of a closed transport, do nothing.
SkipCancelled ==
    /\ \/ \E t \in TimerIds \ armed : Runs(Due(t))
       \/ Runs(Read) /\ transport # "open"
    /\ ready' = Tail(ready)
    /\ UNCHANGED <<pc, callerVars, lockVars, retry, linkVars, exchange, fut, timerVars>>

-----------------------------------------------------------------------------
(* data_received, eof_received. *)

Arrives(kinds) ==
    /\ Runs(Read) /\ transport = "open"
    /\ Head(stream).kind \in kinds
    /\ UNCHANGED <<pc, callerVars, lockVars, command, owner>>
Consume == stream' = Tail(stream) /\ UNCHANGED transport

\* A second fragment of the missing length completes the first one.  Modbus/TCP
\* has no checksum: the header is that of the first, whatever the second was.
Completes == Head(stream).kind = "second" /\ partial # None
                /\ Shape[partial] = Shape[Head(stream).cmd]
Answered == IF Completes THEN partial ELSE Head(stream).cmd
StopTimer == armed' = armed \ {timer} /\ UNCHANGED timer
Unpack == partial' = IF Completes THEN None ELSE partial

Whole == Head(stream).kind = "answer" \/ Completes
\* Mutant of Fits: the count is not compared (the transaction id never is).
FitsAny == TRUE
\* The validator compares the register count of the answer.
Fits == Shape[Answered] = Shape[command]

ReceiveAnswer ==
    /\ Arrives({"answer", "second"}) /\ Whole /\ Fits
    /\ Consume /\ StopTimer /\ Unpack
    /\ retry' = 0
    /\ fut' = Settle(Answer(Answered))
    /\ ready' = Tail(ready) \o WakeOwner

\* An invalid answer rejects the request and closes; on a future that is done
\* set_exception raises and the connection stays.
ReceiveInvalid ==
    /\ Arrives({"answer", "second", "garbage"}) /\ ~(Whole /\ Fits)
    /\ StopTimer /\ Unpack
    /\ IF InFlight
       THEN HangUp /\ fut' = Settle(Rejected) /\ ready' = Tail(ready) \o WakeOwner \o LostIfOpen
       ELSE Consume /\ ready' = Tail(ready) /\ UNCHANGED fut
    /\ UNCHANGED retry

\* The length in the header is not reached: whichever command it answers.
ReceivePartial ==
    /\ Arrives({"first"})
    /\ Consume
    /\ partial' = Head(stream).cmd
    /\ ArmTimer(armed \ {timer})
    /\ ready' = Tail(ready)
    /\ UNCHANGED <<retry, fut>>

\* An exception response, or a stray fragment with some function code.
ReceiveReject ==
    /\ Arrives({"reject", "second"}) /\ ~Whole
    /\ Consume /\ StopTimer
    /\ fut' = Settle(Rejected)
    /\ ready' = Tail(ready) \o WakeOwner
    /\ UNCHANGED <<retry, partial>>

ReceiveEof ==
    /\ Arrives({"eof"})
    /\ CloseTransport(Tail(ready))
    /\ UNCHANGED <<retry, partial, timerVars>>

\* A reset: the transport is closing until its connection_lost runs.
ReceiveReset ==
    /\ Arrives({"reset"})
    /\ transport' = "closing" /\ stream' = <<>>
    /\ ready' = Append(Tail(ready), Lost)
    /\ UNCHANGED <<retry, partial, fut, timerVars>>

-----------------------------------------------------------------------------
(* The selector and the clock. *)

PollReadable ==
    /\ Quiet /\ transport = "open" /\ stream # <<>> /\ ~Queued(Read)
    /\ ready' = Append(ready, Read)
    /\ UNCHANGED <<pc, callerVars, lockVars, retry, linkVars, exchange, fut, timerVars>>

\* Handles of one delay fall due in the order they were armed.
PollTimer(t) ==
    /\ Quiet /\ t \in armed /\ ~Queued(Due(t))
    /\ \A u \in armed : u < t => Queued(Due(u))
    /\ ready' = Append(ready, Due(t))
    /\ UNCHANGED <<pc, callerVars, lockVars, retry, linkVars, exchange, fut, timerVars>>

\* create_connection succeeds; it fails, or wait_for's 5 s are over.
ConnectEnds(c) ==
    /\ Quiet /\ pc[c] = "connecting" /\ ~Queued(Opened(c))
    /\ \/ ready' = Append(ready, Opened(c)) /\ UNCHANGED pc
       \/ ready' = Append(ready, Wake(c)) /\ Goes(c, "failed")
    /\ UNCHANGED <<callerVars, lockVars, retry, linkVars, exchange, fut, timerVars>>

-----------------------------------------------------------------------------
Init ==
    /\ pc = [c \in Callers |-> "idle"]
    /\ request = [c \in Callers |-> None]
    /\ frames = [c \in Callers |-> 0] /\ calls = [c \in Callers |-> 0]
    /\ locked = FALSE /\ waiters = <<>>
    /\ retry = 0
    /\ transport = "none" /\ stream = <<>>
    /\ command = None /\ owner = None /\ partial = None
    /\ fut = [c \in Callers |-> NoFuture]
    /\ timer = None /\ armed = {}
    /\ ready = <<>>

Coroutine(c) ==
    \/ Acquire(c) \/ Connect(c) \/ SendBroken(c)
    \/ \E r \in Reactions : Send(c, r)
    \/ Return(c) \/ Retry(c) \/ RecursionLimit(c) \/ MaxRetriesReached(c) \/ Close(c)

RunCallback ==
    \/ \E c \in Callers :
          \/ WakeAcquired(c) \/ WakeClosing(c) \/ WakeAwaited(c)
          \/ ProbeTransport(c) \/ ConnectReleased(c) \/ ConnectionOpened(c)
    \/ ConnectionLost \/ SkipCancelled
    \/ \E t \in TimerIds : TimeoutMechanism(t)
    \/ ReceiveAnswer \/ ReceiveInvalid \/ ReceivePartial \/ ReceiveReject
    \/ ReceiveEof \/ ReceiveReset

Select ==
    \/ PollReadable
    \/ \E t \in TimerIds : PollTimer(t)
    \/ \E c \in Callers : ConnectEnds(c)

Loop == (\E c \in Callers : Coroutine(c)) \/ RunCallback \/ Select

\* No caller is left and the loop sleeps: the program may stop here.
AllReturned ==
    /\ \A c \in Callers : pc[c] = "idle" /\ calls[c] = MaxCalls
    /\ UNCHANGED vars

Next == (\E c \in Callers, k \in Commands : Call(c, k)) \/ Loop \/ AllReturned

Spec == Init /\ [][Next]_vars

\* The event loop keeps running: it never sleeps while a callback is ready, a
\* handle falls due, and wait_for ends a connection attempt after 5 s.
FairSpec == Spec /\ WF_vars(Loop)
=============================================================================
