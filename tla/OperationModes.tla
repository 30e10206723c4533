--------------------------- MODULE OperationModes ---------------------------
(***************************************************************************)
(* Operation modes of the ET and ES families: set_operation_mode changes   *)
(* several registers by several requests, get_operation_mode reads two,    *)
(* and other calls on the same object run between any two of them          *)
(* (goodwe/et.py, goodwe/es.py).                                           *)
(*                                                                         *)
(* A call is the sequence of its requests.  What the protocol layer makes  *)
(* of one request shows here as its outcome: the inverter may carry it out *)
(* without the answer getting through, any number of times, and then the   *)
(* request is answered, refused or given up.  Registers nothing reads back *)
(* (limits, relay, cold start, battery mode parameter) are written and     *)
(* forgotten.                                                              *)
(***************************************************************************)
EXTENDS Integers, Sequences, FiniteSets

CONSTANTS
    Callers,
    Families,     \* of inverters, a subset of {"ET", "ES", "ES arm 7", "ES v2"}
    Asked,        \* modes callers set
    Found,        \* work modes the inverter may be found in
    Days, Week,   \* sets of days a group may be valid on, and the one found
    GroupWrites,  \* requests that write a group of the schedule as a whole
    MaxCalls      \* calls begun, all callers together

\* OperationMode; the two emulated modes are the eco mode with a first group that
\* charges or discharges all the time.
GENERAL == 0
OFF_GRID == 1
BACKUP == 2
ECO == 3
PEAK_SHAVING == 4
SELF_USE == 5
ECO_CHARGE == 98
ECO_DISCHARGE == 99
Real == {GENERAL, OFF_GRID, BACKUP, ECO, PEAK_SHAVING, SELF_USE}
Emulated == {ECO_CHARGE, ECO_DISCHARGE}
Unknown == -1

\* What a call without a mode to set does.
NOTHING == -2
GET == -3
WRITE_GROUP == -4

\* What the first group may hold: charging or discharging all the time, any other
\* schedule, the NOT_SET type, or bytes read_value raises ValueError on.
Written == {"charge", "discharge", "schedule"}
FirstGroups == Written \union {"not set", "unreadable"}
OtherGroups == 2..4

Registers == {"work", "offline", "battery_mode", "charge_limit", "discharge_limit",
              "backup_supply", "cold_start", "relay", "store"}
Requests ==
    [op : {"write"}, register : Registers, value : Int]
    \union [op : {"read work", "read first"}]
    \union [op : {"write first"}, kind : Written]
    \union [op : {"write group"}, n : OtherGroups, days : Days]
    \union [op : {"switch off"}, n : OtherGroups]

ASSUME WritesAssumption == GroupWrites \subseteq {r \in Requests : r.op \in {"write first", "write group"}}

VARIABLES
    family,       \* of the inverter
    inverter,     \* its work mode, off-grid flag, first group and other groups
    call,         \* each caller's latest call
    begun,        \* calls begun
    seen,         \* history: modes in force since the caller's call began
    others,       \* history: how many writing calls of others overlap it
    overtaken     \* history: another caller changed the days of a group meanwhile

vars == <<family, inverter, call, begun, seen, others, overtaken>>

ASSUME CallsAssumption == MaxCalls \in Nat
ASSUME ModesAssumption == Asked \subseteq Real \union Emulated /\ Found \subseteq Real
\* Days of a switch that has not been read.
NotRead == -1
ASSUME DaysAssumption == NotRead \notin Days /\ Week \in Days

Mode(inv) ==
    CASE inv.work # ECO -> inv.work
      [] inv.work = ECO /\ inv.first = "charge" -> ECO_CHARGE
      [] inv.work = ECO /\ inv.first = "discharge" -> ECO_DISCHARGE
      [] inv.work = ECO /\ inv.first = "unreadable" -> Unknown
      [] OTHER -> ECO

-----------------------------------------------------------------------------
(* The requests of a call. *)

Write(register, value) == [op |-> "write", register |-> register, value |-> value]
WorkMode(mode) == Write("work", mode)
Offline(flag) == Write("offline", flag)
ClearBatteryModeParam == Write("battery_mode", 1)
LimitForCharge(limit) == Write("charge_limit", limit)
LimitForDischarge == Write("discharge_limit", 0)
ReadWork == [op |-> "read work"]
ReadFirst == [op |-> "read first"]
WriteFirst(kind) == [op |-> "write first", kind |-> kind]
WriteGroup(n, days) == [op |-> "write group", n |-> n, days |-> days]
\* write_setting of a switch reads its register, then writes it.
SwitchOff(n) == [op |-> "switch off", n |-> n]

\* get_operation_mode
\* Mutant of GetScript: the first group is read before the work mode.
GetScriptReversed == <<ReadFirst, ReadWork>>
GetScript == <<ReadWork, ReadFirst>>

\* set_operation_mode of the ET family
\* Mutant of EtReal: only the off-grid mode sets the flag.
EtRealFlagKept(mode) ==
    CASE mode = ECO -> <<WorkMode(ECO)>>
      [] mode = OFF_GRID -> <<WorkMode(OFF_GRID), Offline(1), ClearBatteryModeParam>>
      [] OTHER -> <<WorkMode(mode), ClearBatteryModeParam>>
EtReal(mode) ==
    CASE mode = ECO -> <<WorkMode(ECO), Offline(0)>>
      [] mode = OFF_GRID -> <<WorkMode(OFF_GRID), Offline(1), Write("backup_supply", 1),
                              Write("cold_start", 4), ClearBatteryModeParam>>
      [] OTHER -> <<WorkMode(mode), Offline(0), ClearBatteryModeParam>>

\* set_operation_mode of the ES family: by the version of its ARM firmware
EsClear(fam, mode) ==
    CASE fam = "ES v2" \/ (fam = "ES arm 7" /\ mode = OFF_GRID) -> <<ClearBatteryModeParam>>
      [] fam = "ES arm 7" /\ mode = GENERAL -> <<LimitForCharge(0), LimitForDischarge, ClearBatteryModeParam>>
      [] fam = "ES arm 7" /\ mode = BACKUP -> <<ClearBatteryModeParam, LimitForCharge(10)>>
      [] OTHER -> <<LimitForCharge(IF mode = BACKUP THEN 10 ELSE 0), LimitForDischarge>>
EsReal(fam, mode) ==
    CASE mode = ECO -> <<Offline(0), WorkMode(ECO)>>
      [] mode = OFF_GRID -> EsClear(fam, mode) \o <<Offline(1), Write("relay", 3), Write("store", 0),
                                                    WorkMode(OFF_GRID)>>
      [] mode \in {GENERAL, BACKUP} -> EsClear(fam, mode) \o <<Offline(0), WorkMode(mode)>>
      [] OTHER -> <<>>     \* SELF_USE: no branch, no request

\* Mutant of SetScript: the eco mode is switched on before its first group is written.
SetScriptWorkFirst(fam, mode, kind) ==
    LET real(m) == IF fam = "ET" THEN EtReal(m) ELSE EsReal(fam, m)
    IN  IF mode \in Real THEN real(mode)
        ELSE real(ECO) \o <<ReadFirst, WriteFirst(kind), SwitchOff(2), SwitchOff(3), SwitchOff(4)>>
SetScript(fam, mode, kind) ==
    LET real(m) == IF fam = "ET" THEN EtReal(m) ELSE EsReal(fam, m)
    IN  IF mode \in Real THEN real(mode)
        ELSE <<ReadFirst, WriteFirst(kind), SwitchOff(2), SwitchOff(3), SwitchOff(4)>> \o real(ECO)

\* encode_charge or encode_discharge; a power of zero makes neither.
Kind(mode, power) ==
    CASE power = 0 -> "schedule" [] mode = ECO_CHARGE -> "charge" [] OTHER -> "discharge"

-----------------------------------------------------------------------------
(* Calls. *)

Nothing == [work |-> Unknown, first |-> "schedule"]
Call(mode, script) ==
    [mode |-> mode, script |-> script, held |-> NotRead, read |-> Nothing, result |-> "running"]
Idle == [mode |-> NOTHING, script |-> <<>>, held |-> NotRead, read |-> Nothing, result |-> "idle"]

Init ==
    /\ family \in Families
    /\ inverter \in [work : Found, offline : {0, 1}, first : FirstGroups,
                     switch : {[n \in OtherGroups |-> [on |-> TRUE, days |-> Week]]}]
    /\ inverter.first = "not set" => family = "ES v2"
    /\ inverter.offline = 1 <=> inverter.work = OFF_GRID
    /\ call = [c \in Callers |-> Idle]
    /\ begun = 0
    /\ seen = [c \in Callers |-> {}]
    /\ others = [c \in Callers |-> 0]
    /\ overtaken = [c \in Callers |-> FALSE]

Running(c) == call[c].result = "running"
Writes(c) == Running(c) /\ call[c].mode # GET

Begin(c, mode, script) ==
    /\ ~Running(c) /\ begun < MaxCalls
    /\ begun' = begun + 1
    /\ call' = [call EXCEPT ![c] = Call(mode, script)]
    /\ seen' = [seen EXCEPT ![c] = {Mode(inverter)}]
    /\ others' = [d \in Callers |->
                    IF d = c THEN Cardinality({e \in Callers \ {c} : Writes(e)})
                    ELSE IF Running(d) /\ mode # GET THEN others[d] + 1 ELSE others[d]]
    /\ overtaken' = [overtaken EXCEPT ![c] = FALSE]
    /\ UNCHANGED <<family, inverter>>

GetOperationMode(c) == Begin(c, GET, GetScript)
\* The ES family raises InverterError for PEAK_SHAVING before any request.
SetOperationMode(c) ==
    \E mode \in Asked, power \in {0, 100} :
        /\ mode \in Real => power = 100
        /\ mode = PEAK_SHAVING => family = "ET"
        /\ SetScript(family, mode, Kind(mode, power)) # <<>>
        /\ Begin(c, mode, SetScript(family, mode, Kind(mode, power)))
\* write_setting of eco_mode_1 to eco_mode_4
WriteEcoMode(c) == \E request \in GroupWrites : Begin(c, WRITE_GROUP, <<request>>)

-----------------------------------------------------------------------------
(* What the inverter does with a request, and the call with the answer.     *)

\* Mutant of SwitchedOff: the days are not kept.
SwitchedOffAlone(days) == [on |-> FALSE, days |-> Week]
SwitchedOff(days) == [on |-> FALSE, days |-> days]

CarriedOut(inv, r, held) ==
    CASE r.op = "write" /\ r.register \in {"work", "offline"} -> [inv EXCEPT ![r.register] = r.value]
      [] r.op = "write first" -> [inv EXCEPT !.first = r.kind]
      [] r.op = "write group" -> [inv EXCEPT !.switch[r.n] = [on |-> TRUE, days |-> r.days]]
      [] r.op = "switch off" /\ held # NotRead -> [inv EXCEPT !.switch[r.n] = SwitchedOff(held)]
      [] OTHER -> inv

\* eco_mode_1 as it was read cannot be written: the reading raises (the ET family
\* goes on), or a type the ES family does not set writes no valid group.
CannotEncode ==
    \/ inverter.first = "unreadable" /\ family # "ET"
    \/ inverter.first = "not set"

\* The call with its request done, and after its request was answered.
Advance(k) == [k EXCEPT !.script = Tail(@), !.held = NotRead,
                        !.result = IF Tail(k.script) = <<>> THEN "done" ELSE "running"]
Failed(k) == [k EXCEPT !.result = "failed"]
After(k) ==
    LET r == Head(k.script) IN
        CASE r.op = "switch off" /\ k.held = NotRead -> [k EXCEPT !.held = inverter.switch[r.n].days]
          [] r.op = "read work" ->
                IF inverter.work = ECO THEN [Advance(k) EXCEPT !.read.work = ECO]
                ELSE [k EXCEPT !.read.work = inverter.work, !.result = "done"]
          [] r.op = "read first" /\ k.mode # GET -> IF CannotEncode THEN Failed(k) ELSE Advance(k)
          [] r.op = "read first" /\ k.mode = GET ->
                IF inverter.first = "unreadable" THEN Failed(k)
                ELSE [Advance(k) EXCEPT !.read.first = inverter.first]
          [] OTHER -> Advance(k)

\* What was answered is all that is left of a call that has ended.
Settle(c, k) ==
    /\ call' = [call EXCEPT ![c] = IF k.result = "running" THEN k
                                  ELSE [Idle EXCEPT !.result = k.result, !.read = k.read]]
    /\ others' = [others EXCEPT ![c] = IF k.result = "running" THEN @ ELSE 0]

DaysOf(inv) == [n \in OtherGroups |-> inv.switch[n].days]
Witness(c, k) ==
    /\ seen' = [d \in Callers |->
                  IF Running(d) /\ (d # c \/ k.result = "running") THEN seen[d] \union {Mode(inverter')} ELSE {}]
    /\ overtaken' = [d \in Callers |->
                       IF d # c THEN overtaken[d] \/ (Running(d) /\ DaysOf(inverter') # DaysOf(inverter))
                       ELSE overtaken[d] /\ k.result = "running"]

Answered(c) ==
    /\ Running(c)
    /\ inverter' = CarriedOut(inverter, Head(call[c].script), call[c].held)
    /\ Settle(c, After(call[c])) /\ Witness(c, After(call[c]))
    /\ UNCHANGED <<family, begun>>
\* Carried out, but the answer did not get through: the request is sent again.
Unanswered(c) ==
    /\ Running(c)
    /\ inverter' = CarriedOut(inverter, Head(call[c].script), call[c].held)
    /\ Witness(c, call[c])
    /\ UNCHANGED <<family, call, begun, others>>

\* RequestRejectedException.  The ET family takes a refused reading for None (or
\* raises ValueError, depending on the code): set_operation_mode ignores both,
\* get_operation_mode has no mode, or cannot ask None what it is.
Refused(c) ==
    LET k == call[c]
        ignored == family = "ET" /\ Head(k.script).op = "read first" /\ k.mode # GET
        none == family = "ET" /\ Head(k.script).op = "read work"
    IN  /\ Running(c)
        /\ UNCHANGED <<family, inverter, begun>>
        /\ \E after \in {IF ignored THEN Advance(k) ELSE Failed(k)}
                       \union (IF none THEN {[k EXCEPT !.result = "done", !.read = Nothing]} ELSE {}) :
              Settle(c, after) /\ Witness(c, after)
\* RequestFailedException after the retries, and every other error.
GivenUp(c) ==
    /\ Running(c)
    /\ UNCHANGED <<family, inverter, begun>>
    /\ Settle(c, Failed(call[c])) /\ Witness(c, Failed(call[c]))

Next == \E c \in Callers :
    \/ GetOperationMode(c) \/ SetOperationMode(c) \/ WriteEcoMode(c)
    \/ Answered(c) \/ Unanswered(c) \/ Refused(c) \/ GivenUp(c)
Spec == Init /\ [][Next]_vars

-----------------------------------------------------------------------------
(* Properties *)

Inverters ==
    [work : Int, offline : Int, first : FirstGroups,
     switch : [OtherGroups -> [on : BOOLEAN, days : Days]]]
Calls ==
    [mode : Int, script : Seq(Requests), held : Days \union {NotRead},
     read : [work : Int, first : FirstGroups], result : {"idle", "running", "done", "failed"}]
TypeOK ==
    /\ inverter \in Inverters
    /\ call \in [Callers -> Calls]
    /\ \A c \in Callers : Running(c) => call[c].script # <<>>
    /\ begun \in 0..MaxCalls
    /\ overtaken \in [Callers -> BOOLEAN]

\* The days a caller has read of the switch it is about to write are still those of
\* the group, or another caller has changed the days meanwhile.
HeldOrOvertaken == \A c \in Callers :
    Running(c) /\ call[c].held # NotRead =>
        /\ Head(call[c].script).op = "switch off"
        /\ overtaken[c] \/ call[c].held = inverter.switch[Head(call[c].script).n].days

\* The inductive invariant behind DaysKept: calls and registers are of their types,
\* and HeldOrOvertaken.
DaysInv == TypeOK /\ HeldOrOvertaken

Ends(c) == Running(c) /\ ~Running(c)'
Succeeds(c) == Ends(c) /\ call'[c].result = "done"
Sets(c) == call[c].mode \in Real \union Emulated

\* A change of mode that no other writing call overlapped and that succeeds leaves
\* work mode, off-grid flag and, in an emulated mode, all groups of the schedule as
\* the mode requires, whatever earlier changes left half done.
SuccessfulChangeHolds == [][\A c \in Callers :
    Succeeds(c) /\ Sets(c) /\ others[c] = 0 =>
        LET mode == call[c].mode IN
            /\ inverter'.work = IF mode \in Emulated THEN ECO ELSE mode
            /\ inverter'.offline = (IF mode = OFF_GRID THEN 1 ELSE 0)
            /\ mode \in Emulated => /\ inverter'.first \in {Kind(mode, 0), Kind(mode, 100)}
                                    /\ \A n \in OtherGroups : ~inverter'.switch[n].on]_vars

\* While a change is under way, however often its requests are repeated and wherever
\* it stops, the mode in force is the old one or the one asked for, never a third;
\* but the eco mode asked for is whichever one the first group makes it.
NeverThirdMode == \A c \in Callers :
    Writes(c) /\ Sets(c) /\ others[c] = 0 =>
        LET asked == CASE call[c].mode = ECO -> Emulated \union {ECO, Unknown}
                       [] call[c].mode \in Emulated -> {ECO, call[c].mode}
                       [] OTHER -> {call[c].mode}
        IN  Cardinality(seen[c] \ asked) <= 1

\* get_operation_mode answers a mode that was in force at some moment of the call, if
\* at most one other call changed modes meanwhile; or None.
AnswersAModeInForce == [][\A c \in Callers :
    Succeeds(c) /\ call[c].mode = GET /\ others[c] <= 1 =>
        Mode(call'[c].read) \in seen[c] \union {Unknown}]_vars

\* The days of a group are changed by writing the group, and otherwise only by a
\* caller that read its switch before another one changed the days: switching
\* the group off then brings the old days back.
DaysKept == [][DaysOf(inverter') # DaysOf(inverter) =>
    \E c \in Callers : Running(c) /\ (Head(call[c].script).op = "write group" \/ overtaken[c])]_vars
=============================================================================
