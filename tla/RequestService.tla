--------------------------- MODULE RequestService ---------------------------
(***************************************************************************)
(* What an InverterProtocol promises to the coroutines that share it       *)
(* (ProtocolCommand.execute on one protocol object): the inverter is asked *)
(* one question at a time, every question ends, and it ends either with a  *)
(* failure or with an acceptable answer.  Sockets, timers, the event loop  *)
(* and the retries are hidden: an attempt that is given up and queued      *)
(* again is a Requeue.                                                     *)
(***************************************************************************)
CONSTANTS
    Callers,     \* the coroutines that execute commands
    Commands,    \* the commands they execute
    Accepts,     \* Accepts[k]: commands whose answer may be returned for k
    None         \* no command yet

VARIABLES
    phase,       \* phase[c]: "idle", "queued" or "active"
    request,     \* request[c]: the command of c's current or last call
    outcome      \* outcome[c]: how c's last call ended, <<>> while it runs

vars == <<phase, request, outcome>>

Pending == <<>>
Answer(k) == <<"answer", k>>
Failures == {<<"rejected">>, <<"failed">>}
Outcomes == {Pending} \cup Failures \cup {Answer(k) : k \in Commands}

Free == \A c \in Callers : phase[c] # "active"

Init ==
    /\ phase = [c \in Callers |-> "idle"]
    /\ request = [c \in Callers |-> None]
    /\ outcome = [c \in Callers |-> <<"failed">>]

Submit(c, k) ==
    /\ phase[c] = "idle"
    /\ phase' = [phase EXCEPT ![c] = "queued"]
    /\ request' = [request EXCEPT ![c] = k]
    /\ outcome' = [outcome EXCEPT ![c] = Pending]

Dispatch(c) ==
    /\ phase[c] = "queued"
    /\ Free
    /\ phase' = [phase EXCEPT ![c] = "active"]
    /\ UNCHANGED <<request, outcome>>

Requeue(c) ==
    /\ phase[c] = "active"
    /\ phase' = [phase EXCEPT ![c] = "queued"]
    /\ UNCHANGED <<request, outcome>>

Complete(c) ==
    /\ phase[c] = "active"
    /\ phase' = [phase EXCEPT ![c] = "idle"]
    /\ outcome' \in {[outcome EXCEPT ![c] = o] :
                        o \in Failures \cup {Answer(k) : k \in Accepts[request[c]]}}
    /\ UNCHANGED request

Next ==
    \E c \in Callers :
        \/ \E k \in Commands : Submit(c, k)
        \/ Dispatch(c)
        \/ Requeue(c)
        \/ Complete(c)

(* Every question ends. *)
EveryRequestEnds == \A c \in Callers : (phase[c] # "idle") ~> (phase[c] = "idle")

Safety == Init /\ [][Next]_vars
Spec == Safety /\ EveryRequestEnds
=============================================================================
