---------------------------- MODULE ModesProofs ----------------------------
(***************************************************************************)
(* For any callers, calls and families: the state keeps its types, a       *)
(* caller about to write a switch holds the days its group has unless they *)
(* changed meanwhile (DaysInv), and so the days of a group change only by  *)
(* writing it or by such an overtaken caller (DaysKept).                   *)
(*                                                                         *)
(* A change of mode owes what it has not written yet, and each call counts *)
(* the writing calls it overlaps (ModesInv): so a change that nobody       *)
(* overlapped holds once it succeeds, no third mode shows while it is      *)
(* under way, and a reading answers a mode that was in force.              *)
(***************************************************************************)
EXTENDS OperationModes, SequenceTheorems, FiniteSetTheorems, TLAPS

-----------------------------------------------------------------------------
(* Requests and scripts. *)

LEMMA RequestTypes ==
    /\ \A g \in Registers, v \in Int : Write(g, v) \in Requests
    /\ ReadWork \in Requests /\ ReadFirst \in Requests
    /\ \A kind \in Written : WriteFirst(kind) \in Requests
    /\ \A n \in OtherGroups : SwitchOff(n) \in Requests
    /\ GroupWrites \subseteq Requests
  BY WritesAssumption DEF Requests, Write, ReadWork, ReadFirst, WriteFirst, SwitchOff

LEMMA ModeTypes ==
    /\ Real \subseteq Int /\ Emulated \subseteq Int /\ Asked \subseteq Int /\ GET \in Int
    /\ \A mode, power : Kind(mode, power) \in Written
  BY ModesAssumption DEF Real, Emulated, GENERAL, OFF_GRID, BACKUP, ECO, PEAK_SHAVING, SELF_USE,
                         ECO_CHARGE, ECO_DISCHARGE, GET, Kind, Written

LEMMA WriteTypes ==
    /\ \A mode \in Int : WorkMode(mode) \in Requests
    /\ Offline(0) \in Requests /\ Offline(1) \in Requests
    /\ ClearBatteryModeParam \in Requests /\ LimitForDischarge \in Requests
    /\ LimitForCharge(0) \in Requests /\ LimitForCharge(10) \in Requests
    /\ Write("backup_supply", 1) \in Requests /\ Write("cold_start", 4) \in Requests
    /\ Write("relay", 3) \in Requests /\ Write("store", 0) \in Requests
  BY RequestTypes DEF WorkMode, Offline, ClearBatteryModeParam, LimitForDischarge, LimitForCharge, Registers

LEMMA EtScripts == \A mode \in Int : EtReal(mode) \in Seq(Requests)
<1> TAKE mode \in Int
<1>1. CASE mode = ECO
  BY <1>1, WriteTypes DEF EtReal, ECO
<1>2. CASE mode = OFF_GRID
  <2>1. EtReal(mode) = <<WorkMode(OFF_GRID), Offline(1), Write("backup_supply", 1),
                         Write("cold_start", 4), ClearBatteryModeParam>>
    BY <1>2 DEF EtReal, ECO, OFF_GRID
  <2> QED
    BY <2>1, WriteTypes DEF OFF_GRID
<1>3. CASE mode # ECO /\ mode # OFF_GRID
  <2>1. EtReal(mode) = <<WorkMode(mode), Offline(0), ClearBatteryModeParam>>
    BY <1>3 DEF EtReal
  <2> QED
    BY <2>1, WriteTypes
<1> QED
  BY <1>1, <1>2, <1>3

LEMMA EsClearScripts == \A fam, mode : EsClear(fam, mode) \in Seq(Requests)
<1> TAKE fam, mode
<1> DEFINE short == <<ClearBatteryModeParam>>
           general == <<LimitForCharge(0), LimitForDischarge, ClearBatteryModeParam>>
           backup == <<ClearBatteryModeParam, LimitForCharge(10)>>
           old == <<LimitForCharge(IF mode = BACKUP THEN 10 ELSE 0), LimitForDischarge>>
<1>1. short \in Seq(Requests) /\ general \in Seq(Requests) /\ backup \in Seq(Requests) /\ old \in Seq(Requests)
  BY WriteTypes
<1>2. EsClear(fam, mode) \in {short, general, backup, old}
  BY DEF EsClear
<1> QED
  BY <1>1, <1>2

LEMMA EsScripts == \A fam : \A mode \in Int : EsReal(fam, mode) \in Seq(Requests)
<1> TAKE fam
<1> TAKE mode \in Int
<1> DEFINE clear == EsClear(fam, mode)
           eco == <<Offline(0), WorkMode(ECO)>>
           off == <<Offline(1), Write("relay", 3), Write("store", 0), WorkMode(OFF_GRID)>>
           on == <<Offline(0), WorkMode(mode)>>
<1>1. clear \in Seq(Requests)
  BY EsClearScripts
<1>2. eco \in Seq(Requests) /\ off \in Seq(Requests) /\ on \in Seq(Requests) /\ <<>> \in Seq(Requests)
  BY WriteTypes DEF ECO, OFF_GRID
<1>3. EsReal(fam, mode) \in {eco, clear \o off, clear \o on, <<>>}
  BY DEF EsReal
<1> HIDE DEF clear, eco, off, on
<1>4. clear \o off \in Seq(Requests) /\ clear \o on \in Seq(Requests)
  BY <1>1, <1>2, ConcatProperties
<1> QED
  BY <1>2, <1>3, <1>4

LEMMA SetScripts ==
    \A fam : \A mode \in Int, kind \in Written : SetScript(fam, mode, kind) \in Seq(Requests)
<1> TAKE fam
<1> TAKE mode \in Int, kind \in Written
<1> DEFINE real(m) == IF fam = "ET" THEN EtReal(m) ELSE EsReal(fam, m)
           first == <<ReadFirst, WriteFirst(kind), SwitchOff(2), SwitchOff(3), SwitchOff(4)>>
<1>1. real(mode) \in Seq(Requests) /\ real(ECO) \in Seq(Requests)
  BY EtScripts, EsScripts DEF ECO
<1>2. first \in Seq(Requests)
  BY RequestTypes DEF OtherGroups
<1>3. SetScript(fam, mode, kind) \in {real(mode), first \o real(ECO)}
  BY DEF SetScript
<1> HIDE DEF real, first
<1>4. first \o real(ECO) \in Seq(Requests)
  BY <1>1, <1>2, ConcatProperties
<1> QED
  BY <1>1, <1>3, <1>4

LEMMA GetScripts == GetScript \in Seq(Requests) /\ GetScript # <<>>
  BY RequestTypes DEF GetScript

-----------------------------------------------------------------------------
(* One request. *)

LEMMA HeadAndTail ==
    ASSUME NEW s \in Seq(Requests), s # <<>>
    PROVE  Head(s) \in Requests /\ Tail(s) \in Seq(Requests)
  BY HeadTailProperties

LEMMA RequestFields ==
    \A r \in Requests :
        /\ r.op = "write" => r.value \in Int
        /\ r.op = "write first" => r.kind \in FirstGroups
        /\ r.op = "write group" => r.n \in OtherGroups /\ r.days \in Days
        /\ r.op = "switch off" => r.n \in OtherGroups
  BY DEF Requests, FirstGroups

LEMMA CarriedOutType ==
    ASSUME NEW inv \in Inverters, NEW r \in Requests, NEW held \in Days \union {NotRead}
    PROVE  CarriedOut(inv, r, held) \in Inverters
<1>1. CASE r.op = "write"
  BY <1>1, RequestFields DEF CarriedOut, Inverters
<1>2. CASE r.op = "write first"
  BY <1>2, RequestFields DEF CarriedOut, Inverters
<1>3. CASE r.op = "write group"
  BY <1>3, RequestFields DEF CarriedOut, Inverters
<1>4. CASE r.op = "switch off"
  BY <1>4, RequestFields DEF CarriedOut, Inverters, SwitchedOff
<1>5. CASE r.op \in {"read work", "read first"}
  BY <1>5 DEF CarriedOut
<1> QED
  BY <1>1, <1>2, <1>3, <1>4, <1>5 DEF Requests

\* Only writing a group and switching it off touch the days.
LEMMA DaysTouched ==
    ASSUME NEW inv \in Inverters, NEW r \in Requests, NEW held \in Days \union {NotRead}
    PROVE  LET after == CarriedOut(inv, r, held) IN
             /\ r.op \notin {"write group", "switch off"} => DaysOf(after) = DaysOf(inv)
             /\ r.op = "switch off" /\ held = NotRead => after = inv
             /\ r.op = "switch off" /\ held # NotRead =>
                  /\ after.switch[r.n].days = held
                  /\ held = inv.switch[r.n].days => DaysOf(after) = DaysOf(inv)
<1>1. CASE r.op = "write"
  BY <1>1 DEF CarriedOut, Inverters, DaysOf
<1>2. CASE r.op = "write first"
  BY <1>2 DEF CarriedOut, Inverters, DaysOf
<1>3. CASE r.op = "write group"
  BY <1>3
<1>4. CASE r.op = "switch off"
  BY <1>4, RequestFields DEF CarriedOut, Inverters, DaysOf, SwitchedOff
<1>5. CASE r.op \in {"read work", "read first"}
  BY <1>5 DEF CarriedOut
<1> QED
  BY <1>1, <1>2, <1>3, <1>4, <1>5 DEF Requests

LEMMA SameDays ==
    ASSUME NEW inv, NEW jnv, DaysOf(inv) = DaysOf(jnv), NEW n \in OtherGroups
    PROVE  inv.switch[n].days = jnv.switch[n].days
  BY DaysOf(inv)[n] = DaysOf(jnv)[n] DEF DaysOf

LEMMA AdvanceType ==
    ASSUME NEW k \in Calls, k.script # <<>>
    PROVE  /\ Advance(k) \in Calls /\ Advance(k).held = NotRead
           /\ Advance(k).result = "running" => Advance(k).script # <<>>
  BY HeadAndTail DEF Advance, Calls

LEMMA AfterType ==
    ASSUME inverter \in Inverters, NEW k \in Calls, k.script # <<>>, k.result = "running"
    PROVE  /\ After(k) \in Calls
           /\ After(k).result = "running" => After(k).script # <<>>
           /\ After(k).result = "running" /\ After(k).held # NotRead =>
                /\ After(k).script = k.script
                /\ Head(k.script).op = "switch off" /\ k.held = NotRead
                /\ After(k).held = inverter.switch[Head(k.script).n].days
<1> DEFINE r == Head(k.script)
<1>1. r \in Requests
  BY HeadAndTail DEF Calls
<1>2. Failed(k) \in Calls /\ Failed(k).result = "failed"
  BY DEF Failed, Calls
<1>3. CASE r.op = "switch off" /\ k.held = NotRead
  <2>1. After(k) = [k EXCEPT !.held = inverter.switch[r.n].days]
    BY <1>3 DEF After
  <2>2. inverter.switch[r.n].days \in Days
    BY <1>1, <1>3, RequestFields DEF Inverters
  <2> QED
    BY <1>3, <2>1, <2>2 DEF Calls
<1>4. CASE r.op = "read work"
  <2> DEFINE a == [Advance(k) EXCEPT !.read.work = ECO]
             b == [k EXCEPT !.read.work = inverter.work, !.result = "done"]
  <2>1. After(k) \in {a, b}
    BY <1>4 DEF After
  <2>2. inverter.work \in Int /\ ECO \in Int
    BY DEF Inverters, ECO
  <2>3. a \in Calls /\ a.held = NotRead /\ (a.result = "running" => a.script # <<>>)
    BY <2>2, AdvanceType DEF Calls
  <2>4. b \in Calls /\ b.result = "done"
    BY <2>2 DEF Calls
  <2> HIDE DEF a, b
  <2> QED
    BY <2>1, <2>3, <2>4
<1>5. CASE r.op = "read first"
  <2> DEFINE a == [Advance(k) EXCEPT !.read.first = inverter.first]
  <2>1. After(k) \in {Failed(k), Advance(k), a}
    BY <1>5 DEF After
  <2>2. inverter.first \in FirstGroups
    BY DEF Inverters
  <2>3. a \in Calls /\ a.held = NotRead /\ (a.result = "running" => a.script # <<>>)
    BY <2>2, AdvanceType DEF Calls
  <2> HIDE DEF a
  <2> QED
    BY <1>2, <2>1, <2>3, AdvanceType
<1>6. CASE r.op \in {"write", "write first", "write group"} \/ (r.op = "switch off" /\ k.held # NotRead)
  <2>1. After(k) = Advance(k)
    BY <1>6 DEF After
  <2> QED
    BY <2>1, AdvanceType
<1> QED
  BY <1>1, <1>3, <1>4, <1>5, <1>6 DEF Requests

-----------------------------------------------------------------------------
(* DaysInv is inductive. *)

\* What an outcome of a request of c leaves behind: another state k2 of its call, and
\* days that changed for everyone who has read them.
LEMMA StepKeepsInv ==
    ASSUME DaysInv, NEW c \in Callers, NEW k2 \in Calls,
           k2.result = "running" => k2.script # <<>>,
           inverter' \in Inverters,
           call' = [call EXCEPT ![c] = k2],
           begun' = begun,
           NEW b \in BOOLEAN,
           overtaken' = [d \in Callers |->
                          IF d # c THEN overtaken[d] \/ (Running(d) /\ DaysOf(inverter') # DaysOf(inverter))
                          ELSE b],
           k2.result = "running" /\ k2.held # NotRead =>
             /\ Head(k2.script).op = "switch off"
             /\ b \/ k2.held = inverter'.switch[Head(k2.script).n].days
    PROVE  DaysInv'
<1> USE DEF DaysInv
<1>1. TypeOK'
  <2>1. overtaken' \in [Callers -> BOOLEAN]
    BY DEF TypeOK, Running
  <2>2. call' \in [Callers -> Calls]
    BY DEF TypeOK
  <2>3. \A d \in Callers : Running(d)' => call'[d].script # <<>>
    BY DEF TypeOK, Running
  <2> QED
    BY <2>1, <2>2, <2>3 DEF TypeOK
<1>2. HeldOrOvertaken'
  <2> SUFFICES ASSUME NEW d \in Callers, Running(d)', call'[d].held # NotRead
               PROVE  /\ Head(call'[d].script).op = "switch off"
                      /\ overtaken'[d] \/ call'[d].held = inverter'.switch[Head(call'[d].script).n].days
    BY DEF HeldOrOvertaken
  <2>1. CASE d = c
    BY <2>1 DEF TypeOK, Running
  <2>2. CASE d # c
    <3>1. /\ call'[d] = call[d] /\ Running(d)
          /\ overtaken'[d] <=> overtaken[d] \/ DaysOf(inverter') # DaysOf(inverter)
      BY <2>2 DEF TypeOK, Running
    <3>2. /\ Head(call[d].script).op = "switch off"
          /\ overtaken[d] \/ call[d].held = inverter.switch[Head(call[d].script).n].days
      BY <3>1 DEF HeldOrOvertaken
    <3>3. Head(call[d].script).n \in OtherGroups
      <4>1. call[d].script \in Seq(Requests) /\ call[d].script # <<>>
        BY <3>1 DEF TypeOK, Calls
      <4> QED
        BY <3>2, <4>1, HeadAndTail, RequestFields
    <3> DEFINE n == Head(call[d].script).n
    <3>4. DaysOf(inverter') = DaysOf(inverter) => inverter'.switch[n].days = inverter.switch[n].days
      BY <3>3, SameDays
    <3> QED
      BY <3>1, <3>2, <3>4
  <2> QED
    BY <2>1, <2>2
<1> QED
  BY <1>1, <1>2

LEMMA IdleCall == Idle \in Calls /\ Nothing \in [work : Int, first : FirstGroups]
<1>1. <<>> \in Seq(Requests) /\ NOTHING \in Int
  BY DEF NOTHING
<1>2. Nothing \in [work : Int, first : FirstGroups]
  BY DEF Nothing, FirstGroups, Written, Unknown
<1> QED
  BY <1>1, <1>2 DEF Idle, Calls

LEMMA CallFacts ==
    ASSUME DaysInv, NEW c \in Callers, Running(c)
    PROVE  /\ call[c] \in Calls /\ call[c].result = "running" /\ call[c].script # <<>>
           /\ Head(call[c].script) \in Requests
           /\ inverter \in Inverters /\ overtaken[c] \in BOOLEAN
           /\ call[c].held \in Days \union {NotRead}
           /\ call[c].held # NotRead =>
                /\ Head(call[c].script).op = "switch off"
                /\ Head(call[c].script).n \in OtherGroups
                /\ overtaken[c] \/ call[c].held = inverter.switch[Head(call[c].script).n].days
<1>1. /\ call[c] \in Calls /\ call[c].result = "running" /\ call[c].script # <<>>
      /\ inverter \in Inverters /\ overtaken[c] \in BOOLEAN
  BY DEF DaysInv, TypeOK, Running
<1>2. call[c].script \in Seq(Requests) /\ call[c].held \in Days \union {NotRead}
  BY <1>1 DEF Calls
<1>3. Head(call[c].script) \in Requests
  BY <1>1, <1>2, HeadAndTail
<1> QED
  BY <1>1, <1>2, <1>3, RequestFields DEF DaysInv, HeldOrOvertaken

\* An outcome after which the call is k.
LEMMA SettleKeepsInv ==
    ASSUME DaysInv, NEW c \in Callers, Running(c), NEW k \in Calls,
           k.result = "running" => k.script # <<>>,
           inverter' \in Inverters, begun' = begun,
           Settle(c, k), Witness(c, k),
           k.result = "running" /\ k.held # NotRead =>
             /\ Head(k.script).op = "switch off"
             /\ overtaken[c] \/ k.held = inverter'.switch[Head(k.script).n].days
    PROVE  DaysInv'
<1> DEFINE k2 == IF k.result = "running" THEN k ELSE [Idle EXCEPT !.result = k.result, !.read = k.read]
           b == overtaken[c] /\ k.result = "running"
<1>1. k2 \in Calls /\ (k2.result = "running" => k2 = k)
  BY IdleCall DEF Calls
<1>2. call' = [call EXCEPT ![c] = k2]
  BY DEF Settle
<1>3. overtaken' = [d \in Callers |->
                     IF d # c THEN overtaken[d] \/ (Running(d) /\ DaysOf(inverter') # DaysOf(inverter)) ELSE b]
  BY DEF Witness
<1>4. b \in BOOLEAN /\ (k.result = "running" => (b <=> overtaken[c]))
  BY CallFacts
<1>5. k2.result = "running" /\ k2.held # NotRead =>
        /\ Head(k2.script).op = "switch off"
        /\ b \/ k2.held = inverter'.switch[Head(k2.script).n].days
  BY <1>1, <1>4
<1>6. k2.result = "running" => k2.script # <<>>
  BY <1>1
<1> HIDE DEF k2, b
<1> QED
  BY <1>1, <1>2, <1>3, <1>4, <1>5, <1>6, StepKeepsInv

LEMMA InitInv == Init => DaysInv
<1> SUFFICES ASSUME Init PROVE DaysInv
  OBVIOUS
<1>1. inverter \in Inverters
  <2> DEFINE found == [n \in OtherGroups |-> [on |-> TRUE, days |-> Week]]
  <2>1. inverter \in [work : Found, offline : {0, 1}, first : FirstGroups, switch : {found}]
    BY DEF Init
  <2>2. found \in [OtherGroups -> [on : BOOLEAN, days : Days]]
    BY DaysAssumption
  <2>3. Found \subseteq Int
    BY ModesAssumption, ModeTypes
  <2> HIDE DEF found
  <2>4. /\ inverter.work \in Int /\ inverter.offline \in Int /\ inverter.first \in FirstGroups
        /\ inverter.switch \in [OtherGroups -> [on : BOOLEAN, days : Days]]
    <3>1. /\ inverter.work \in Found /\ inverter.offline \in {0, 1} /\ inverter.first \in FirstGroups
          /\ inverter.switch = found
      BY <2>1
    <3>2. {0, 1} \subseteq Int
      OBVIOUS
    <3> QED
      BY <3>1, <3>2, <2>2, <2>3
  <2>5. inverter = [work |-> inverter.work, offline |-> inverter.offline, first |-> inverter.first,
                    switch |-> inverter.switch]
    BY <2>1
  <2> QED
    BY <2>4, <2>5 DEF Inverters
<1>2. \A c \in Callers : ~Running(c)
  BY DEF Init, Running, Idle
<1>3. call \in [Callers -> Calls]
  BY IdleCall DEF Init
<1>4. begun \in 0..MaxCalls /\ overtaken \in [Callers -> BOOLEAN]
  <2>1. begun = 0 /\ overtaken = [c \in Callers |-> FALSE]
    BY DEF Init
  <2> QED
    BY <2>1, CallsAssumption
<1> QED
  BY <1>1, <1>2, <1>3, <1>4 DEF DaysInv, TypeOK, HeldOrOvertaken

LEMMA BeginKeepsInv ==
    ASSUME DaysInv, NEW c \in Callers, NEW mode \in Int, NEW script \in Seq(Requests), script # <<>>,
           Begin(c, mode, script)
    PROVE  DaysInv'
<1>1. Call(mode, script) \in Calls /\ Call(mode, script).held = NotRead
  BY DEF Call, Calls, Nothing, FirstGroups, Written, Unknown
<1>2. /\ call' = [call EXCEPT ![c] = Call(mode, script)]
      /\ inverter' = inverter /\ begun' = begun + 1 /\ begun < MaxCalls
      /\ overtaken' = [overtaken EXCEPT ![c] = FALSE]
  BY DEF Begin
<1>3. TypeOK'
  BY <1>1, <1>2, CallsAssumption DEF DaysInv, TypeOK, Running, Call
<1>4. HeldOrOvertaken'
  BY <1>1, <1>2 DEF DaysInv, TypeOK, HeldOrOvertaken, Running
<1> QED
  BY <1>3, <1>4 DEF DaysInv

LEMMA StepInv == DaysInv /\ [Next]_vars => DaysInv'
<1> SUFFICES ASSUME DaysInv, [Next]_vars PROVE DaysInv'
  OBVIOUS
<1>1. CASE UNCHANGED vars
  BY <1>1 DEF vars, DaysInv, TypeOK, HeldOrOvertaken, Running
<1>2. ASSUME NEW c \in Callers, GetOperationMode(c) PROVE DaysInv'
  BY <1>2, GetScripts, BeginKeepsInv, ModeTypes DEF GetOperationMode
<1>3. ASSUME NEW c \in Callers, SetOperationMode(c) PROVE DaysInv'
  <2>1. PICK mode \in Asked, power \in {0, 100} :
          /\ SetScript(family, mode, Kind(mode, power)) # <<>>
          /\ Begin(c, mode, SetScript(family, mode, Kind(mode, power)))
    BY <1>3 DEF SetOperationMode
  <2>2. mode \in Int /\ Kind(mode, power) \in Written
    BY ModeTypes
  <2> QED
    BY <2>1, <2>2, SetScripts, BeginKeepsInv
<1>4. ASSUME NEW c \in Callers, WriteEcoMode(c) PROVE DaysInv'
  <2>1. PICK request \in GroupWrites : Begin(c, WRITE_GROUP, <<request>>)
    BY <1>4 DEF WriteEcoMode
  <2>2. <<request>> \in Seq(Requests) /\ <<request>> # <<>> /\ WRITE_GROUP \in Int
    BY RequestTypes DEF WRITE_GROUP
  <2> QED
    BY <2>1, <2>2, BeginKeepsInv
<1>5. ASSUME NEW c \in Callers, Answered(c) PROVE DaysInv'
  <2> DEFINE k == call[c]  r == Head(k.script)
  <2>1. Running(c) /\ inverter' = CarriedOut(inverter, r, k.held) /\ begun' = begun
        /\ Settle(c, After(k)) /\ Witness(c, After(k))
    BY <1>5 DEF Answered
  <2>2. inverter' \in Inverters
    BY <2>1, CallFacts, CarriedOutType
  <2>3. /\ After(k) \in Calls
        /\ After(k).result = "running" => After(k).script # <<>>
        /\ After(k).result = "running" /\ After(k).held # NotRead =>
             /\ After(k).script = k.script
             /\ Head(k.script).op = "switch off" /\ k.held = NotRead
             /\ After(k).held = inverter.switch[Head(k.script).n].days
    BY <2>1, CallFacts, AfterType
  <2>4. r.op = "switch off" /\ k.held = NotRead => inverter' = inverter
    BY <2>1, CallFacts, DaysTouched
  <2> HIDE DEF k
  <2> QED
    BY <2>1, <2>2, <2>3, <2>4, SettleKeepsInv
<1>6. ASSUME NEW c \in Callers, Unanswered(c) PROVE DaysInv'
  <2> DEFINE k == call[c]  r == Head(k.script)
  <2>1. /\ Running(c) /\ inverter' = CarriedOut(inverter, r, k.held) /\ begun' = begun
        /\ call' = call /\ Witness(c, k)
    BY <1>6 DEF Unanswered
  <2>2. /\ inverter' \in Inverters /\ k \in Calls /\ k.script # <<>> /\ k.result = "running"
        /\ overtaken[c] \in BOOLEAN
    BY <2>1, CallFacts, CarriedOutType
  <2>3. k.held # NotRead => /\ r.op = "switch off"
                            /\ k.held = inverter'.switch[r.n].days
    BY <2>1, CallFacts, DaysTouched
  <2>4. call' = [call EXCEPT ![c] = k]
    BY <2>1 DEF DaysInv, TypeOK
  <2>5. overtaken' = [d \in Callers |->
                     IF d # c THEN overtaken[d] \/ (Running(d) /\ DaysOf(inverter') # DaysOf(inverter))
                     ELSE overtaken[c]]
    BY <2>1, <2>2 DEF Witness
  <2> HIDE DEF k
  <2> QED
    BY <2>1, <2>2, <2>3, <2>4, <2>5, StepKeepsInv
<1>7. ASSUME NEW c \in Callers, Refused(c) PROVE DaysInv'
  <2> DEFINE k == call[c]
             none == [k EXCEPT !.result = "done", !.read = Nothing]
  <2>1. /\ Running(c) /\ inverter' = inverter /\ begun' = begun
        /\ \E after \in {Advance(k), Failed(k), none} : Settle(c, after) /\ Witness(c, after)
    BY <1>7 DEF Refused
  <2>2. PICK after \in {Advance(k), Failed(k), none} : Settle(c, after) /\ Witness(c, after)
    BY <2>1
  <2>6. k \in Calls /\ k.script # <<>>
    BY <2>1, CallFacts
  <2> HIDE DEF k
  <2>3. /\ Failed(k) \in Calls /\ Failed(k).result = "failed"
        /\ none \in Calls /\ none.result = "done"
    BY <2>6, IdleCall DEF Failed, Calls
  <2> HIDE DEF none
  <2>4. /\ after \in Calls /\ (after.result = "running" => after.script # <<>> /\ after.held = NotRead)
    BY <2>2, <2>3, <2>6, AdvanceType
  <2>5. inverter' \in Inverters
    BY <2>1, CallFacts
  <2> QED
    BY <2>1, <2>2, <2>4, <2>5, SettleKeepsInv
<1>8. ASSUME NEW c \in Callers, GivenUp(c) PROVE DaysInv'
  <2>1. /\ Running(c) /\ inverter' = inverter /\ begun' = begun
        /\ Settle(c, Failed(call[c])) /\ Witness(c, Failed(call[c]))
    BY <1>8 DEF GivenUp
  <2>2. Failed(call[c]) \in Calls /\ Failed(call[c]).result = "failed"
    BY <2>1, CallFacts DEF Failed, Calls
  <2>3. inverter' \in Inverters
    BY <2>1, CallFacts
  <2> QED
    BY <2>1, <2>2, <2>3, SettleKeepsInv
<1> QED
  BY <1>1, <1>2, <1>3, <1>4, <1>5, <1>6, <1>7, <1>8 DEF Next

-----------------------------------------------------------------------------
(* What a change of mode plans, and what it still owes.                       *)

IsWork(r) == r.op = "write" /\ r.register = "work"
IsOffline(r) == r.op = "write" /\ r.register = "offline"
Asks(s, r) == \E i \in DOMAIN s : s[i] = r
WritesFirst(s) == \E i \in DOMAIN s : s[i].op = "write first"

WorkOf(mode) == IF mode \in Emulated THEN ECO ELSE mode
OfflineOf(mode) == IF mode = OFF_GRID THEN 1 ELSE 0
Kinds(mode) == {Kind(mode, 0), Kind(mode, 100)}

\* A request of a call that sets a mode writes nothing else than the mode requires.
FitsMode(r, mode) ==
    /\ IsWork(r) => r.value = WorkOf(mode)
    /\ IsOffline(r) => r.value = OfflineOf(mode)
    /\ r.op = "write first" => mode \in Emulated /\ r.kind \in Kinds(mode)
    /\ r.op # "write group"

\* Only get_operation_mode reads the work mode, and it does nothing but read; no call
\* writes the first group after the work mode.
Plan(s, mode) ==
    /\ \A i \in DOMAIN s :
         /\ mode = GET => s[i].op \in {"read work", "read first"}
         /\ mode # GET => s[i].op # "read work"
         /\ mode \in Real \union Emulated => FitsMode(s[i], mode)
    /\ \A i, j \in DOMAIN s : IsWork(s[i]) /\ i < j => s[j].op # "write first"

\* Each register the mode requires something of has it, or is still to be written.
Owes(s, inv, mode) ==
    /\ Asks(s, WorkMode(WorkOf(mode))) \/ inv.work = WorkOf(mode)
    /\ Asks(s, Offline(OfflineOf(mode))) \/ inv.offline = OfflineOf(mode)
    /\ mode \in Emulated =>
         /\ WritesFirst(s) \/ inv.first \in Kinds(mode)
         /\ \A n \in OtherGroups : Asks(s, SwitchOff(n)) \/ ~inv.switch[n].on

Writers == {c \in Callers : Writes(c)}
AskedFor(mode) ==
    CASE mode = ECO -> Emulated \union {ECO, Unknown}
      [] mode \in Emulated -> {ECO, mode}
      [] OTHER -> {mode}

\* Each caller under way has counted the writing calls it overlaps.
OthersInv ==
    /\ IsFiniteSet(Writers) /\ others \in [Callers -> Nat]
    /\ \A c \in Callers : Running(c) => Cardinality(Writers \ {c}) <= others[c]

\* A change that nobody overlapped owes what it has not written yet, and the modes it
\* has seen are the old one and those asked for.
ChangeInv(c) ==
    Sets(c) /\ others[c] = 0 =>
        /\ Owes(call[c].script, inverter, call[c].mode)
        /\ \E mode : seen[c] \subseteq AskedFor(call[c].mode) \union {mode}

\* A reading that found ECO, and that one other call at most overlapped, finds the
\* inverter still in ECO, or that call has changed the work mode: then it has seen the
\* mode the first group still makes of ECO, and nobody is about to write that group.
EcoOrSeen(c) ==
    \/ inverter.work = ECO
    \/ /\ others[c] = 1 /\ Mode([work |-> ECO, first |-> inverter.first]) \in seen[c]
       /\ \A e \in Writers : ~WritesFirst(call[e].script)
ReadingInv(c) == call[c].mode = GET =>
    \/ call[c].script = GetScript
    \/ /\ call[c].script = <<ReadFirst>> /\ call[c].read.work = ECO
       /\ others[c] <= 1 => EcoOrSeen(c)

ModesInv ==
    /\ DaysInv /\ OthersInv /\ seen \in [Callers -> SUBSET Int]
    /\ \A c \in Callers : Running(c) =>
         /\ Plan(call[c].script, call[c].mode)
         /\ Mode(inverter) \in seen[c]
         /\ ChangeInv(c) /\ ReadingInv(c)

-----------------------------------------------------------------------------
(* What set_operation_mode plans.                                             *)

\* Requests that write registers only, and those as the mode requires.
Straight(s, mode) == \A i \in DOMAIN s : s[i].op = "write" /\ FitsMode(s[i], mode)
RealScript(fam, mode) == IF fam = "ET" THEN EtReal(mode) ELSE EsReal(fam, mode)

LEMMA ModeNumbers ==
    /\ GENERAL = 0 /\ OFF_GRID = 1 /\ BACKUP = 2 /\ ECO = 3 /\ PEAK_SHAVING = 4 /\ SELF_USE = 5
    /\ Real = {0, 1, 2, 3, 4, 5} /\ Emulated = {98, 99} /\ Unknown = -1
    /\ NOTHING = -2 /\ GET = -3 /\ WRITE_GROUP = -4
  BY DEF GENERAL, OFF_GRID, BACKUP, ECO, PEAK_SHAVING, SELF_USE, Real, Emulated, ECO_CHARGE, ECO_DISCHARGE,
         Unknown, NOTHING, GET, WRITE_GROUP

\* Which single writes fit a mode.
LEMMA FittingWrites ==
    ASSUME NEW mode \in Real
    PROVE  /\ WorkMode(mode).op = "write" /\ FitsMode(WorkMode(mode), mode)
           /\ Offline(OfflineOf(mode)).op = "write" /\ FitsMode(Offline(OfflineOf(mode)), mode)
           /\ \A g \in Registers \ {"work", "offline"}, v \in Int :
                Write(g, v).op = "write" /\ FitsMode(Write(g, v), mode)
<1>1. WorkOf(mode) = mode
  BY ModeNumbers DEF WorkOf
<1> QED
  BY <1>1 DEF FitsMode, IsWork, IsOffline, WorkMode, Offline, Write, Registers

LEMMA SideWrites ==
    ASSUME NEW mode \in Real, NEW r \in {ClearBatteryModeParam, LimitForDischarge, LimitForCharge(0),
               LimitForCharge(10), Write("backup_supply", 1), Write("cold_start", 4), Write("relay", 3),
               Write("store", 0)}
    PROVE  r.op = "write" /\ FitsMode(r, mode)
  BY FittingWrites DEF ClearBatteryModeParam, LimitForDischarge, LimitForCharge, Registers

LEMMA EtPlan ==
    ASSUME NEW mode \in Real
    PROVE  LET s == EtReal(mode) IN
             /\ Straight(s, mode) /\ Asks(s, WorkMode(mode)) /\ Asks(s, Offline(OfflineOf(mode)))
<1>1. CASE mode = ECO
  <2> DEFINE a == WorkMode(ECO)  b == Offline(0)
  <2>1. EtReal(mode) = <<a, b>>
    BY <1>1, ModeNumbers DEF EtReal
  <2>2. a = WorkMode(mode) /\ b = Offline(OfflineOf(mode))
    BY <1>1, ModeNumbers DEF OfflineOf
  <2>3. a.op = "write" /\ FitsMode(a, mode) /\ b.op = "write" /\ FitsMode(b, mode)
    BY <2>2, FittingWrites
  <2>4. DOMAIN <<a, b>> = {1, 2} /\ <<a, b>>[1] = a /\ <<a, b>>[2] = b
    OBVIOUS
  <2> HIDE DEF a, b
  <2> QED
    BY <2>1, <2>2, <2>3, <2>4 DEF Straight, Asks
<1>2. CASE mode = OFF_GRID
  <2> DEFINE a == WorkMode(OFF_GRID)  b == Offline(1)  d == Write("backup_supply", 1)
             e == Write("cold_start", 4)  f == ClearBatteryModeParam
             s == <<a, b, d, e, f>>
  <2>1. EtReal(mode) = s
    BY <1>2, ModeNumbers DEF EtReal
  <2>2. a = WorkMode(mode) /\ b = Offline(OfflineOf(mode))
    BY <1>2 DEF OfflineOf
  <2>3. a.op = "write" /\ FitsMode(a, mode) /\ b.op = "write" /\ FitsMode(b, mode)
    BY <2>2, FittingWrites
  <2>4. d.op = "write" /\ FitsMode(d, mode) /\ e.op = "write" /\ FitsMode(e, mode)
        /\ f.op = "write" /\ FitsMode(f, mode)
    BY SideWrites
  <2>5. DOMAIN s = {1, 2, 3, 4, 5} /\ s[1] = a /\ s[2] = b /\ s[3] = d /\ s[4] = e /\ s[5] = f
    OBVIOUS
  <2> HIDE DEF a, b, d, e, f, s
  <2> QED
    BY <2>1, <2>2, <2>3, <2>4, <2>5 DEF Straight, Asks
<1>3. CASE mode # ECO /\ mode # OFF_GRID
  <2> DEFINE a == WorkMode(mode)  b == Offline(0)  d == ClearBatteryModeParam
             s == <<a, b, d>>
  <2>1. EtReal(mode) = s
    BY <1>3 DEF EtReal
  <2>2. b = Offline(OfflineOf(mode))
    BY <1>3 DEF OfflineOf
  <2>3. a.op = "write" /\ FitsMode(a, mode) /\ b.op = "write" /\ FitsMode(b, mode)
        /\ d.op = "write" /\ FitsMode(d, mode)
    BY <2>2, FittingWrites, SideWrites
  <2>4. DOMAIN s = {1, 2, 3} /\ s[1] = a /\ s[2] = b /\ s[3] = d
    OBVIOUS
  <2>5. a = WorkMode(mode)
    OBVIOUS
  <2> HIDE DEF a, b, d, s
  <2> QED
    BY <2>1, <2>2, <2>3, <2>4, <2>5 DEF Straight, Asks
<1> QED
  BY <1>1, <1>2, <1>3

LEMMA EsClearPlan ==
    ASSUME NEW fam, NEW mode \in Real
    PROVE  Straight(EsClear(fam, mode), mode)
<1> DEFINE a == ClearBatteryModeParam  b == LimitForCharge(0)  d == LimitForCharge(10)  e == LimitForDischarge
<1>1. \A r \in {a, b, d, e} : r.op = "write" /\ FitsMode(r, mode)
  BY SideWrites
<1>2. EsClear(fam, mode) \in {<<a>>, <<b, e, a>>, <<a, d>>, <<b, e>>, <<d, e>>}
  BY DEF EsClear
<1> HIDE DEF a, b, d, e
<1> DEFINE Drawn(s) == \A i \in DOMAIN s : s[i] \in {a, b, d, e}
<1>3. Drawn(<<a>>) /\ Drawn(<<b, e, a>>) /\ Drawn(<<a, d>>) /\ Drawn(<<b, e>>) /\ Drawn(<<d, e>>)
  OBVIOUS
<1>4. Drawn(EsClear(fam, mode))
  BY <1>2, <1>3
<1> QED
  BY <1>1, <1>4 DEF Straight

\* The requests of two scripts one after the other.
LEMMA Joined ==
    ASSUME NEW s \in Seq(Requests), NEW t \in Seq(Requests)
    PROVE  /\ \A i \in DOMAIN (s \o t) :
                \/ i \in DOMAIN s /\ (s \o t)[i] = s[i]
                \/ i > Len(s) /\ i - Len(s) \in DOMAIN t /\ (s \o t)[i] = t[i - Len(s)]
           /\ \A i \in DOMAIN s : i \in DOMAIN (s \o t) /\ (s \o t)[i] = s[i]
           /\ \A i \in DOMAIN t : i + Len(s) \in DOMAIN (s \o t) /\ (s \o t)[i + Len(s)] = t[i]
<1>1. /\ Len(s) \in Nat /\ Len(t) \in Nat /\ DOMAIN s = 1..Len(s) /\ DOMAIN t = 1..Len(t)
  BY LenProperties
<1>2. /\ s \o t \in Seq(Requests) /\ Len(s \o t) = Len(s) + Len(t)
      /\ \A i \in 1..(Len(s) + Len(t)) : (s \o t)[i] = IF i <= Len(s) THEN s[i] ELSE t[i - Len(s)]
  BY ConcatProperties
<1>3. DOMAIN (s \o t) = 1..(Len(s) + Len(t))
  BY <1>2, LenProperties
<1> QED
  BY <1>1, <1>2, <1>3

LEMMA JoinedPlan ==
    ASSUME NEW s \in Seq(Requests), NEW t \in Seq(Requests)
    PROVE  /\ \A mode : Straight(s, mode) /\ Straight(t, mode) => Straight(s \o t, mode)
           /\ \A r : Asks(s, r) \/ Asks(t, r) => Asks(s \o t, r)
<1>1. ASSUME NEW mode, Straight(s, mode), Straight(t, mode) PROVE Straight(s \o t, mode)
  <2> SUFFICES ASSUME NEW i \in DOMAIN (s \o t)
               PROVE  (s \o t)[i].op = "write" /\ FitsMode((s \o t)[i], mode)
    BY DEF Straight
  <2> QED
    BY <1>1, Joined DEF Straight
<1>2. ASSUME NEW r, Asks(s, r) \/ Asks(t, r) PROVE Asks(s \o t, r)
  <2>1. CASE Asks(s, r)
    <3> PICK i \in DOMAIN s : s[i] = r
      BY <2>1 DEF Asks
    <3> QED
      BY Joined DEF Asks
  <2>2. CASE Asks(t, r)
    <3> PICK i \in DOMAIN t : t[i] = r
      BY <2>2 DEF Asks
    <3> QED
      BY Joined DEF Asks
  <2> QED
    BY <1>2, <2>1, <2>2
<1> QED
  BY <1>1, <1>2

LEMMA EsPlan ==
    ASSUME NEW fam, NEW mode \in Real, EsReal(fam, mode) # <<>>
    PROVE  LET s == EsReal(fam, mode) IN
             /\ Straight(s, mode) /\ Asks(s, WorkMode(mode)) /\ Asks(s, Offline(OfflineOf(mode)))
<1> DEFINE clear == EsClear(fam, mode)
<1>1. clear \in Seq(Requests) /\ Straight(clear, mode)
  BY EsClearScripts, EsClearPlan
<1>2. ASSUME mode # OFF_GRID PROVE Offline(0) = Offline(OfflineOf(mode))
  BY <1>2 DEF OfflineOf
<1>3. WorkMode(mode) \in Requests /\ Offline(OfflineOf(mode)) \in Requests
  BY ModeTypes, WriteTypes DEF OfflineOf
<1> DEFINE on == <<Offline(OfflineOf(mode)), WorkMode(mode)>>
<1>4. on \in Seq(Requests) /\ Straight(on, mode) /\ Asks(on, WorkMode(mode)) /\ Asks(on, Offline(OfflineOf(mode)))
  <2> DEFINE a == Offline(OfflineOf(mode))  b == WorkMode(mode)
  <2>1. a \in Requests /\ b \in Requests /\ a.op = "write" /\ FitsMode(a, mode) /\ b.op = "write" /\ FitsMode(b, mode)
    BY <1>3, FittingWrites
  <2>2. on = <<a, b>>
    OBVIOUS
  <2> HIDE DEF a, b, on
  <2>3. DOMAIN <<a, b>> = {1, 2} /\ <<a, b>>[1] = a /\ <<a, b>>[2] = b /\ <<a, b>> \in Seq(Requests)
    BY <2>1
  <2>4. Straight(on, mode) /\ Asks(on, a) /\ Asks(on, b) /\ on \in Seq(Requests)
    BY <2>1, <2>2, <2>3 DEF Straight, Asks
  <2> QED
    BY <2>4 DEF a, b
<1>5. CASE mode = ECO
  <2>1. EsReal(fam, mode) = on
    BY <1>2, <1>5, ModeNumbers DEF EsReal
  <2> QED
    BY <1>4, <2>1
<1>6. CASE mode = OFF_GRID
  <2> DEFINE a == Offline(1)  b == Write("relay", 3)  d == Write("store", 0)  e == WorkMode(OFF_GRID)
             off == <<a, b, d, e>>
  <2>1. EsReal(fam, mode) = clear \o off
    BY <1>6, ModeNumbers DEF EsReal
  <2>2. a = Offline(OfflineOf(mode)) /\ e = WorkMode(mode)
    BY <1>6 DEF OfflineOf
  <2>3. \A r \in {a, b, d, e} : r \in Requests /\ r.op = "write" /\ FitsMode(r, mode)
    BY <1>3, <2>2, WriteTypes, FittingWrites, SideWrites
  <2> HIDE DEF a, b, d, e
  <2>4. off \in Seq(Requests) /\ DOMAIN off = {1, 2, 3, 4} /\ off[1] = a /\ off[2] = b /\ off[3] = d /\ off[4] = e
    BY <2>3
  <2> HIDE DEF off
  <2>5. Straight(off, mode) /\ Asks(off, a) /\ Asks(off, e)
    BY <2>3, <2>4 DEF Straight, Asks
  <2> HIDE DEF clear
  <2> QED
    BY <1>1, <2>1, <2>2, <2>4, <2>5, JoinedPlan
<1>7. CASE mode \in {GENERAL, BACKUP}
  <2>1. EsReal(fam, mode) = clear \o on
    BY <1>2, <1>7, ModeNumbers DEF EsReal
  <2> HIDE DEF clear, on
  <2> QED
    BY <1>1, <1>4, <2>1, JoinedPlan
<1>8. CASE mode \notin {ECO, OFF_GRID, GENERAL, BACKUP}
  BY <1>8 DEF EsReal
<1> QED
  BY <1>5, <1>6, <1>7, <1>8

LEMMA RealPlan ==
    ASSUME NEW fam, NEW mode \in Real, RealScript(fam, mode) # <<>>
    PROVE  LET s == RealScript(fam, mode) IN
             /\ s \in Seq(Requests)
             /\ Straight(s, mode) /\ Asks(s, WorkMode(mode)) /\ Asks(s, Offline(OfflineOf(mode)))
<1>1. CASE fam = "ET"
  BY <1>1, EtPlan, EtScripts, ModeTypes DEF RealScript
<1>2. CASE fam # "ET"
  BY <1>2, EsPlan, EsScripts, ModeTypes DEF RealScript
<1> QED
  BY <1>1, <1>2

LEMMA EcoScript == \A fam : RealScript(fam, ECO) # <<>>
  BY ModeNumbers DEF RealScript, EtReal, EsReal

LEMMA StraightPlan ==
    ASSUME NEW mode \in Real, NEW s, Straight(s, mode)
    PROVE  Plan(s, mode)
<1>1. mode # GET
  BY ModeNumbers
<1> QED
  BY <1>1 DEF Straight, Plan

\* What set_operation_mode begins with: it plans nothing else than the mode requires, and
\* owes all of it.
LEMMA SetPlan ==
    ASSUME NEW fam, NEW mode \in Real \union Emulated, NEW power \in {0, 100},
           SetScript(fam, mode, Kind(mode, power)) # <<>>, NEW inv
    PROVE  /\ Plan(SetScript(fam, mode, Kind(mode, power)), mode)
           /\ Owes(SetScript(fam, mode, Kind(mode, power)), inv, mode)
<1> DEFINE s == SetScript(fam, mode, Kind(mode, power))
<1>1. CASE mode \in Real
  <2>1. s = RealScript(fam, mode)
    BY <1>1 DEF SetScript, RealScript
  <2>2. mode \notin Emulated /\ WorkOf(mode) = mode
    BY <1>1, ModeNumbers DEF WorkOf
  <2> HIDE DEF s
  <2>3. RealScript(fam, mode) # <<>>
    BY <2>1 DEF s
  <2>4. Straight(s, mode) /\ Asks(s, WorkMode(mode)) /\ Asks(s, Offline(OfflineOf(mode)))
    BY <1>1, <2>1, <2>3, RealPlan
  <2>5. Plan(s, mode)
    BY <1>1, <2>4, StraightPlan
  <2>6. Owes(s, inv, mode)
    BY <2>2, <2>4 DEF Owes
  <2> QED
    BY <2>5, <2>6 DEF s
<1>2. CASE mode \in Emulated
  <2> DEFINE a == ReadFirst  b == WriteFirst(Kind(mode, power))
             first == <<a, b, SwitchOff(2), SwitchOff(3), SwitchOff(4)>>
             eco == RealScript(fam, ECO)
  <2>1. s = first \o eco
    BY <1>2, ModeNumbers DEF SetScript, RealScript
  <2>2. WorkOf(mode) = ECO /\ OfflineOf(mode) = OfflineOf(ECO) /\ mode \notin Real /\ mode # GET /\ ECO \in Real
    BY <1>2, ModeNumbers DEF WorkOf, OfflineOf
  <2>3. eco \in Seq(Requests) /\ Straight(eco, ECO) /\ Asks(eco, WorkMode(ECO)) /\ Asks(eco, Offline(OfflineOf(ECO)))
    BY <2>2, RealPlan, EcoScript
  <2>4. \A i \in DOMAIN eco : eco[i].op = "write" /\ FitsMode(eco[i], mode)
    <3>1. WorkOf(ECO) = ECO
      BY ModeNumbers DEF WorkOf
    <3> HIDE DEF eco
    <3> QED
      BY <2>2, <2>3, <3>1 DEF Straight, FitsMode
  <2>5. /\ first \in Seq(Requests) /\ Len(first) = 5 /\ DOMAIN first = {1, 2, 3, 4, 5}
        /\ first[1] = a /\ first[2] = b /\ first[3] = SwitchOff(2) /\ first[4] = SwitchOff(3) /\ first[5] = SwitchOff(4)
    <3>1. a \in Requests /\ b \in Requests /\ \A n \in OtherGroups : SwitchOff(n) \in Requests
      BY RequestTypes, ModeTypes
    <3>2. 2 \in OtherGroups /\ 3 \in OtherGroups /\ 4 \in OtherGroups
      BY DEF OtherGroups
    <3> QED
      BY <3>1, <3>2
  <2>6. a.op = "read first" /\ b.op = "write first" /\ b.kind \in Kinds(mode)
    BY DEF ReadFirst, WriteFirst, Kinds
  <2>7. \A n : SwitchOff(n).op = "switch off"
    BY DEF SwitchOff
  <2> HIDE DEF s, first, eco
  <2>8. \A i \in DOMAIN first : FitsMode(first[i], mode) /\ first[i].op \notin {"write", "read work"}
    BY <1>2, <2>5, <2>6, <2>7 DEF FitsMode, IsWork, IsOffline
  <2>9. /\ \A i \in DOMAIN s : FitsMode(s[i], mode) /\ s[i].op # "read work"
        /\ \A i \in DOMAIN s : IsWork(s[i]) => i > 5
        /\ \A i \in DOMAIN s : i > 5 => s[i].op # "write first"
    <3> SUFFICES ASSUME NEW i \in DOMAIN s
                 PROVE  /\ FitsMode(s[i], mode) /\ s[i].op # "read work"
                        /\ IsWork(s[i]) => i > 5
                        /\ i > 5 => s[i].op # "write first"
      OBVIOUS
    <3>1. \/ i \in DOMAIN first /\ s[i] = first[i]
          \/ i > 5 /\ i - 5 \in DOMAIN eco /\ s[i] = eco[i - 5]
      <4>1. \A j \in DOMAIN (first \o eco) :
              \/ j \in DOMAIN first /\ (first \o eco)[j] = first[j]
              \/ j > Len(first) /\ j - Len(first) \in DOMAIN eco /\ (first \o eco)[j] = eco[j - Len(first)]
        BY <2>3, <2>5, Joined
      <4> QED
        BY <2>1, <2>5, <4>1
    <3>2. CASE i \in DOMAIN first /\ s[i] = first[i]
      <4>1. FitsMode(s[i], mode) /\ s[i].op \notin {"write", "read work"}
        BY <3>2, <2>8
      <4>2. ~(i > 5)
        BY <3>2, <2>5
      <4> QED
        BY <4>1, <4>2 DEF IsWork
    <3>3. CASE i > 5 /\ i - 5 \in DOMAIN eco /\ s[i] = eco[i - 5]
      BY <3>3, <2>4
    <3> QED
      BY <3>1, <3>2, <3>3
  <2>10. Plan(s, mode)
    <3>1. DOMAIN s \subseteq Nat
      <4>1. s \in Seq(Requests)
        BY <2>1, <2>3, <2>5, ConcatProperties
      <4> QED
        BY <4>1, LenProperties
    <3>2. \A i, j \in DOMAIN s : IsWork(s[i]) /\ i < j => s[j].op # "write first"
      <4> TAKE i, j \in DOMAIN s
      <4> HAVE IsWork(s[i]) /\ i < j
      <4>1. i > 5
        BY <2>9
      <4>2. i < j /\ i \in Nat /\ j \in Nat
        BY <3>1, <4>1
      <4>3. j > 5
        BY <4>1, <4>2
      <4> QED
        BY <2>9, <4>3
    <3> QED
      BY <2>2, <2>9, <3>2 DEF Plan
  <2>11. Asks(s, WorkMode(WorkOf(mode))) /\ Asks(s, Offline(OfflineOf(mode)))
    BY <2>1, <2>2, <2>3, <2>5, JoinedPlan
  <2>12. \A i \in DOMAIN first : i \in DOMAIN s /\ s[i] = first[i]
    BY <2>1, <2>3, <2>5, Joined
  <2>13. WritesFirst(s)
    <3>1. 2 \in DOMAIN s /\ s[2].op = "write first"
      BY <2>5, <2>6, <2>12
    <3> QED
      BY <3>1 DEF WritesFirst
  <2>14. \A n \in OtherGroups : Asks(s, SwitchOff(n))
    <3>1. Asks(s, SwitchOff(2)) /\ Asks(s, SwitchOff(3)) /\ Asks(s, SwitchOff(4))
      BY <2>5, <2>12 DEF Asks
    <3> QED
      BY <3>1 DEF OtherGroups
  <2> QED
    BY <2>10, <2>11, <2>13, <2>14 DEF Owes, s
<1> QED
  BY <1>1, <1>2

LEMMA GetPlan == Plan(GetScript, GET)
<1>1. GetScript = <<ReadWork, ReadFirst>> /\ ReadWork.op = "read work" /\ ReadFirst.op = "read first"
  BY DEF GetScript, ReadWork, ReadFirst
<1>2. GET \notin Real \union Emulated
  BY ModeNumbers
<1>3. \A i \in DOMAIN GetScript : GetScript[i].op \in {"read work", "read first"}
  <2>1. DOMAIN <<ReadWork, ReadFirst>> = {1, 2}
    OBVIOUS
  <2>2. GetScript[1].op = "read work" /\ GetScript[2].op = "read first" /\ DOMAIN GetScript = {1, 2}
    BY <1>1, <2>1
  <2> QED
    BY <2>2
<1> QED
  BY <1>2, <1>3 DEF Plan, IsWork

LEMMA WriteGroupPlan == \A r \in GroupWrites : Plan(<<r>>, WRITE_GROUP)
<1> TAKE r \in GroupWrites
<1>1. r.op \in {"write first", "write group"}
  BY WritesAssumption
<1>2. WRITE_GROUP \notin Real \union Emulated /\ WRITE_GROUP # GET
  BY ModeNumbers
<1>3. \A i \in DOMAIN <<r>> : <<r>>[i] = r
  OBVIOUS
<1> QED
  BY <1>1, <1>2, <1>3 DEF Plan, IsWork

-----------------------------------------------------------------------------
(* One request of a change of mode.                                           *)

LEMMA TailIndex ==
    ASSUME NEW s \in Seq(Requests), s # <<>>
    PROVE  /\ 1 \in DOMAIN s /\ Head(s) = s[1]
           /\ \A i \in DOMAIN Tail(s) : i \in Nat /\ i + 1 \in DOMAIN s /\ Tail(s)[i] = s[i + 1]
           /\ \A i \in DOMAIN s : i \in Nat /\ (i = 1 \/ (i > 1 /\ i - 1 \in DOMAIN Tail(s) /\ Tail(s)[i - 1] = s[i]))
<1> DEFINE t == Tail(s)
<1>1. /\ Len(s) \in Nat /\ DOMAIN s = 1..Len(s) /\ Head(s) = s[1]
      /\ t \in Seq(Requests) /\ Len(t) = Len(s) - 1 /\ Len(t) \in Nat
      /\ \A i \in 1..Len(t) : t[i] = s[i + 1]
  BY LenProperties, HeadTailProperties, EmptySeq
<1>2. DOMAIN t = 1..Len(t)
  BY <1>1, LenProperties
<1> HIDE DEF t
<1>3. 1 \in DOMAIN s
  BY <1>1
<1>4. ASSUME NEW i \in DOMAIN t PROVE i \in Nat /\ i + 1 \in DOMAIN s /\ t[i] = s[i + 1]
  BY <1>1, <1>2
<1>5. ASSUME NEW i \in DOMAIN s, i # 1 PROVE i > 1 /\ i - 1 \in DOMAIN t /\ t[i - 1] = s[i]
  <2>1. i > 1 /\ i - 1 \in 1..Len(t) /\ (i - 1) + 1 = i
    BY <1>1, <1>5
  <2> QED
    BY <1>1, <1>2, <2>1
<1>6. \A i \in DOMAIN s : i \in Nat
  BY <1>1
<1> QED
  BY <1>1, <1>3, <1>4, <1>5, <1>6 DEF t

LEMMA WriteFields ==
    \A v : /\ IsWork(WorkMode(v)) /\ WorkMode(v).value = v
           /\ IsOffline(Offline(v)) /\ Offline(v).value = v
           /\ SwitchOff(v).op = "switch off" /\ SwitchOff(v).n = v
  BY DEF WorkMode, Offline, SwitchOff, Write, IsWork, IsOffline

LEMMA HeadPlan ==
    ASSUME NEW s \in Seq(Requests), s # <<>>, NEW mode, Plan(s, mode)
    PROVE  LET r == Head(s) IN
             /\ mode = GET => r.op \in {"read work", "read first"}
             /\ mode # GET => r.op # "read work"
             /\ mode \in Real \union Emulated => FitsMode(r, mode)
             /\ IsWork(r) => ~WritesFirst(s)
             /\ r.op = "write first" => WritesFirst(s)
             /\ ~WritesFirst(s) => ~WritesFirst(Tail(s))
<1>1. 1 \in DOMAIN s /\ Head(s) = s[1] /\ \A i \in DOMAIN s : i = 1 \/ (i \in Nat /\ i > 1)
  BY TailIndex
<1>2. IsWork(Head(s)) => ~WritesFirst(s)
  <2> SUFFICES ASSUME IsWork(s[1]), NEW j \in DOMAIN s PROVE s[j].op # "write first"
    BY <1>1 DEF WritesFirst
  <2>1. j = 1 \/ 1 < j
    BY <1>1
  <2> QED
    BY <1>1, <2>1 DEF Plan, IsWork
<1>3. Head(s).op = "write first" => WritesFirst(s)
  BY <1>1 DEF WritesFirst
<1>4. WritesFirst(Tail(s)) => WritesFirst(s)
  <2> SUFFICES ASSUME NEW i \in DOMAIN Tail(s), Tail(s)[i].op = "write first" PROVE WritesFirst(s)
    BY DEF WritesFirst
  <2>1. i + 1 \in DOMAIN s /\ s[i + 1].op = "write first"
    BY TailIndex
  <2> QED
    BY <2>1 DEF WritesFirst
<1>5. /\ mode = GET => s[1].op \in {"read work", "read first"}
      /\ mode # GET => s[1].op # "read work"
      /\ mode \in Real \union Emulated => FitsMode(s[1], mode)
  BY <1>1 DEF Plan
<1> QED
  BY <1>1, <1>2, <1>3, <1>4, <1>5

LEMMA TailPlan ==
    ASSUME NEW s \in Seq(Requests), s # <<>>, NEW mode, Plan(s, mode)
    PROVE  Plan(Tail(s), mode)
<1> DEFINE t == Tail(s)
<1>1. \A i \in DOMAIN t : i \in Nat /\ i + 1 \in DOMAIN s /\ t[i] = s[i + 1]
  BY TailIndex
<1> HIDE DEF t
<1>2. ASSUME NEW i \in DOMAIN t, NEW j \in DOMAIN t, IsWork(t[i]), i < j PROVE t[j].op # "write first"
  <2>1. i + 1 < j + 1 /\ IsWork(s[i + 1]) /\ i + 1 \in DOMAIN s /\ j + 1 \in DOMAIN s /\ t[j] = s[j + 1]
    BY <1>1, <1>2
  <2> QED
    BY <2>1 DEF Plan
<1>3. Plan(t, mode)
  BY <1>1, <1>2 DEF Plan
<1> QED
  BY <1>3 DEF t

\* What a request does to the inverter.
LEMMA Effect ==
    ASSUME NEW inv \in Inverters, NEW r \in Requests, NEW held \in Days \union {NotRead}
    PROVE  LET after == CarriedOut(inv, r, held) IN
             /\ after.work = IF IsWork(r) THEN r.value ELSE inv.work
             /\ after.offline = IF IsOffline(r) THEN r.value ELSE inv.offline
             /\ after.first = IF r.op = "write first" THEN r.kind ELSE inv.first
             /\ r.op # "write group" => \A n \in OtherGroups : after.switch[n].on => inv.switch[n].on
             /\ r.op = "switch off" /\ held # NotRead => ~after.switch[r.n].on
             /\ r.op \in {"read work", "read first"} => after = inv
<1>1. CASE r.op = "write"
  BY <1>1 DEF CarriedOut, Inverters, IsWork, IsOffline
<1>2. CASE r.op = "write first"
  BY <1>2 DEF CarriedOut, Inverters, IsWork, IsOffline
<1>3. CASE r.op = "write group"
  BY <1>3 DEF CarriedOut, Inverters, IsWork, IsOffline
<1>4. CASE r.op = "switch off"
  BY <1>4, RequestFields DEF CarriedOut, Inverters, SwitchedOff, IsWork, IsOffline
<1>5. CASE r.op \in {"read work", "read first"}
  BY <1>5 DEF CarriedOut, IsWork, IsOffline
<1> QED
  BY <1>1, <1>2, <1>3, <1>4, <1>5 DEF Requests

\* A request that is carried out, once more or for the first time, takes back nothing
\* of what the mode requires.
LEMMA RepeatOwes ==
    ASSUME NEW s \in Seq(Requests), s # <<>>, NEW mode \in Real \union Emulated, Plan(s, mode),
           NEW inv \in Inverters, NEW held \in Days \union {NotRead}, Owes(s, inv, mode)
    PROVE  Owes(s, CarriedOut(inv, Head(s), held), mode)
<1> DEFINE r == Head(s)  after == CarriedOut(inv, r, held)
<1>1. r \in Requests /\ FitsMode(r, mode)
  BY HeadAndTail, HeadPlan
<1>2. /\ after.work = IF IsWork(r) THEN r.value ELSE inv.work
      /\ after.offline = IF IsOffline(r) THEN r.value ELSE inv.offline
      /\ after.first = IF r.op = "write first" THEN r.kind ELSE inv.first
      /\ r.op # "write group" => \A n \in OtherGroups : after.switch[n].on => inv.switch[n].on
  BY <1>1, Effect
<1> HIDE DEF r, after
<1>3. Owes(s, after, mode)
  BY <1>1, <1>2 DEF Owes, FitsMode
<1> QED
  BY <1>3 DEF r, after

\* A switch is written only once it was read.
Known(r, held) == r.op = "switch off" => held # NotRead

\* Once answered, what it asked for is in its register.
LEMMA AnswerOwes ==
    ASSUME NEW s \in Seq(Requests), s # <<>>, NEW mode \in Real \union Emulated, Plan(s, mode),
           NEW inv \in Inverters, NEW held \in Days \union {NotRead}, Owes(s, inv, mode),
           Known(Head(s), held)
    PROVE  Owes(Tail(s), CarriedOut(inv, Head(s), held), mode)
<1> DEFINE r == Head(s)  after == CarriedOut(inv, r, held)  t == Tail(s)
<1>1. r \in Requests /\ FitsMode(r, mode)
  BY HeadAndTail, HeadPlan
<1>2. /\ after.work = IF IsWork(r) THEN r.value ELSE inv.work
      /\ after.offline = IF IsOffline(r) THEN r.value ELSE inv.offline
      /\ after.first = IF r.op = "write first" THEN r.kind ELSE inv.first
      /\ r.op = "switch off" => ~after.switch[r.n].on
  <2>1. r.op = "switch off" => held # NotRead
    BY DEF Known
  <2>2. /\ after.work = IF IsWork(r) THEN r.value ELSE inv.work
        /\ after.offline = IF IsOffline(r) THEN r.value ELSE inv.offline
        /\ after.first = IF r.op = "write first" THEN r.kind ELSE inv.first
    BY <1>1, Effect
  <2>3. r.op = "switch off" /\ held # NotRead => ~after.switch[r.n].on
    BY <1>1, Effect
  <2> HIDE DEF r, after
  <2> QED
    BY <2>1, <2>2, <2>3
<1>3. Owes(s, after, mode)
  <2>1. Owes(s, CarriedOut(inv, Head(s), held), mode)
    BY RepeatOwes
  <2> QED
    BY <2>1
<1>4. \A i \in DOMAIN s : i = 1 \/ (i - 1 \in DOMAIN t /\ t[i - 1] = s[i])
  BY TailIndex
<1>5. s[1] = r
  BY TailIndex
<1> HIDE DEF r, after, t
<1>6. ASSUME NEW q, Asks(s, q) PROVE Asks(t, q) \/ r = q
  <2>1. PICK i \in DOMAIN s : s[i] = q
    BY <1>6 DEF Asks
  <2> QED
    BY <1>4, <1>5, <2>1 DEF Asks
<1>7. Asks(t, WorkMode(WorkOf(mode))) \/ after.work = WorkOf(mode)
  <2> DEFINE q == WorkMode(WorkOf(mode))
  <2>1. IsWork(q) /\ q.value = WorkOf(mode)
    BY WriteFields
  <2> HIDE DEF q
  <2>2. Asks(t, q) \/ after.work = WorkOf(mode)
    <3>1. Asks(s, q) \/ after.work = WorkOf(mode)
      BY <1>3 DEF Owes, q
    <3> QED
      BY <1>2, <1>6, <2>1, <3>1
  <2> QED
    BY <2>2 DEF q
<1>8. Asks(t, Offline(OfflineOf(mode))) \/ after.offline = OfflineOf(mode)
  <2> DEFINE q == Offline(OfflineOf(mode))
  <2>1. IsOffline(q) /\ q.value = OfflineOf(mode)
    BY WriteFields
  <2> HIDE DEF q
  <2>2. Asks(t, q) \/ after.offline = OfflineOf(mode)
    <3>1. Asks(s, q) \/ after.offline = OfflineOf(mode)
      BY <1>3 DEF Owes, q
    <3> QED
      BY <1>2, <1>6, <2>1, <3>1
  <2> QED
    BY <2>2 DEF q
<1>9. mode \in Emulated => WritesFirst(t) \/ after.first \in Kinds(mode)
  <2>1. WritesFirst(s) => WritesFirst(t) \/ r.op = "write first"
    BY <1>4, <1>5 DEF WritesFirst
  <2> QED
    BY <1>1, <1>2, <1>3, <2>1 DEF Owes, FitsMode
<1>10. ASSUME mode \in Emulated, NEW n \in OtherGroups PROVE Asks(t, SwitchOff(n)) \/ ~after.switch[n].on
  <2>1. r = SwitchOff(n) => r.op = "switch off" /\ r.n = n
    BY WriteFields
  <2> QED
    BY <1>2, <1>3, <1>6, <1>10, <2>1 DEF Owes
<1>11. Owes(t, after, mode)
  BY <1>7, <1>8, <1>9, <1>10 DEF Owes
<1> QED
  BY <1>11 DEF r, after, t

\* A request of a change of mode leaves the mode in force or makes it one asked for.
LEMMA OwnMode ==
    ASSUME NEW s \in Seq(Requests), s # <<>>, NEW mode \in Real \union Emulated, Plan(s, mode),
           NEW inv \in Inverters, NEW held \in Days \union {NotRead}, Owes(s, inv, mode)
    PROVE  LET after == CarriedOut(inv, Head(s), held) IN
             Mode(after) = Mode(inv) \/ Mode(after) \in AskedFor(mode)
<1> DEFINE r == Head(s)  after == CarriedOut(inv, r, held)
<1>1. r \in Requests /\ FitsMode(r, mode) /\ (IsWork(r) => ~WritesFirst(s))
  BY HeadAndTail, HeadPlan
<1>2. /\ after.work = IF IsWork(r) THEN r.value ELSE inv.work
      /\ after.first = IF r.op = "write first" THEN r.kind ELSE inv.first
  BY <1>1, Effect
<1>3. mode \in Emulated /\ ~WritesFirst(s) => inv.first \in Kinds(mode)
  BY DEF Owes
<1> HIDE DEF r, after
\* A first group of one of the kinds the mode writes makes ECO itself or the mode.
<1>4. mode \in Emulated /\ after.first \in Kinds(mode) /\ after.work = ECO => Mode(after) \in AskedFor(mode)
  BY ModeNumbers DEF Kinds, Kind, Mode, AskedFor, ECO_CHARGE, ECO_DISCHARGE
<1> DEFINE Fits == Mode(after) = Mode(inv) \/ Mode(after) \in AskedFor(mode)
<1>5. ASSUME IsWork(r) PROVE Fits
  <2>1. after.work = WorkOf(mode) /\ after.first = inv.first
    BY <1>1, <1>2, <1>5 DEF FitsMode, IsWork
  <2>2. CASE mode \in Emulated
    <3>1. after.work = ECO /\ after.first \in Kinds(mode)
      BY <1>1, <1>3, <1>5, <2>1, <2>2 DEF WorkOf
    <3> QED
      BY <1>4, <2>2, <3>1
  <2>3. CASE mode = ECO
    <3>1. after.work = ECO /\ AskedFor(mode) = Emulated \union {ECO, Unknown}
      BY <2>1, <2>3, ModeNumbers DEF WorkOf, AskedFor
    <3>2. Mode(after) \in {ECO_CHARGE, ECO_DISCHARGE, Unknown, ECO}
      BY <3>1 DEF Mode
    <3> QED
      BY <3>1, <3>2 DEF Emulated
  <2>4. CASE mode \notin Emulated /\ mode # ECO
    <3>1. after.work = mode /\ AskedFor(mode) = {mode}
      BY <2>1, <2>4 DEF WorkOf, AskedFor
    <3>2. Mode(after) = mode
      BY <2>4, <3>1 DEF Mode
    <3> QED
      BY <3>1, <3>2
  <2> QED
    BY <2>2, <2>3, <2>4
<1>6. ASSUME r.op = "write first" PROVE Fits
  <2>1. after.work = inv.work /\ mode \in Emulated /\ after.first \in Kinds(mode)
    BY <1>1, <1>2, <1>6 DEF FitsMode, IsWork
  <2>2. inv.work # ECO => Mode(after) = Mode(inv)
    BY <2>1 DEF Mode
  <2> QED
    BY <1>4, <2>1, <2>2
<1>7. ASSUME ~IsWork(r), r.op # "write first" PROVE Fits
  BY <1>2, <1>7 DEF Mode
<1> QED
  BY <1>5, <1>6, <1>7 DEF r, after

-----------------------------------------------------------------------------
(* What an outcome of a request of c makes of its call and of the inverter.   *)

Left(k) == IF k.result = "running" THEN k ELSE [Idle EXCEPT !.result = k.result, !.read = k.read]
Outcome(c, k) ==
    LET s == call[c].script  mode == call[c].mode IN
        /\ Running(c) /\ k \in Calls /\ k.result \in {"running", "done", "failed"} /\ k.mode = mode
        /\ inverter' \in {inverter, CarriedOut(inverter, Head(s), call[c].held)}
        /\ call' = [call EXCEPT ![c] = Left(k)]
        /\ others' = [others EXCEPT ![c] = IF k.result = "running" THEN @ ELSE 0]
        /\ seen' = [d \in Callers |->
                      IF Running(d) /\ (d # c \/ k.result = "running") THEN seen[d] \union {Mode(inverter')} ELSE {}]
        /\ begun' = begun
        /\ k.result = "running" => k.script \in {s, Tail(s)} /\ k.script # <<>>
        /\ Sets(c) => /\ k.result = "done" => k.script = <<>>
                      /\ k.result # "failed" /\ Owes(s, inverter, mode) => Owes(k.script, inverter', mode)
        /\ mode = GET =>
             /\ k.result = "running" =>
                  \/ k.script = s /\ k.read = call[c].read
                  \/ k.script = <<ReadFirst>> /\ k.read.work = ECO /\ inverter.work = ECO
             /\ k.result = "done" =>
                  \/ k.read = Nothing
                  \/ inverter.work # ECO /\ k.read.work = inverter.work
                  \/ s = <<ReadFirst>> /\ k.read = [work |-> call[c].read.work, first |-> inverter.first]

\* The call of c that is under way.
LEMMA Underway ==
    ASSUME ModesInv, NEW c \in Callers, Running(c)
    PROVE  /\ call[c] \in Calls /\ call[c].script \in Seq(Requests) /\ call[c].script # <<>>
           /\ call[c].held \in Days \union {NotRead} /\ call[c].result = "running"
           /\ call[c].mode \in Int /\ call[c].read \in [work : Int, first : FirstGroups]
           /\ Plan(call[c].script, call[c].mode) /\ inverter \in Inverters
           /\ Head(call[c].script) \in Requests
           /\ Sets(c) => call[c].mode # GET
           /\ call[c].mode = GET =>
                /\ call[c].script \in {GetScript, <<ReadFirst>>}
                /\ Head(call[c].script).op \in {"read work", "read first"}
                /\ CarriedOut(inverter, Head(call[c].script), call[c].held) = inverter
<1>1. call[c] \in Calls /\ call[c].script # <<>> /\ inverter \in Inverters /\ Head(call[c].script) \in Requests
  BY CallFacts DEF ModesInv
<1>2. /\ call[c].script \in Seq(Requests) /\ call[c].held \in Days \union {NotRead} /\ call[c].mode \in Int
      /\ call[c].read \in [work : Int, first : FirstGroups]
  BY <1>1 DEF Calls
<1>3. Plan(call[c].script, call[c].mode)
  BY DEF ModesInv
<1>4. call[c].mode = GET =>
        /\ call[c].script \in {GetScript, <<ReadFirst>>}
        /\ Head(call[c].script).op \in {"read work", "read first"}
  BY <1>1, <1>2, <1>3, HeadPlan DEF ModesInv, ReadingInv
<1>5. call[c].mode = GET => CarriedOut(inverter, Head(call[c].script), call[c].held) = inverter
  BY <1>4 DEF CarriedOut
<1>6. Sets(c) => call[c].mode # GET
  BY ModeNumbers DEF Sets
<1> QED
  BY <1>1, <1>2, <1>3, <1>4, <1>5, <1>6 DEF Running

LEMMA AdvanceFields ==
    ASSUME NEW k \in Calls
    PROVE  /\ Advance(k).mode = k.mode /\ Advance(k).script = Tail(k.script) /\ Advance(k).read = k.read
           /\ Advance(k).result = IF Tail(k.script) = <<>> THEN "done" ELSE "running"
           /\ Failed(k).mode = k.mode /\ Failed(k).result = "failed"
  BY DEF Advance, Failed, Calls

\* How a request of a call that does not read the work mode is answered.
LEMMA AfterWrite ==
    ASSUME NEW k \in Calls, k.mode # GET, Head(k.script).op # "read work", k.result = "running"
    PROVE  /\ After(k).mode = k.mode
           /\ \/ /\ Head(k.script).op = "switch off" /\ k.held = NotRead
                 /\ After(k).script = k.script /\ After(k).result = "running"
              \/ After(k) = Failed(k)
              \/ After(k) = Advance(k) /\ Known(Head(k.script), k.held)
<1>1. CASE Head(k.script).op = "switch off" /\ k.held = NotRead
  BY <1>1 DEF After, Calls
<1>2. CASE Head(k.script).op = "read first"
  BY <1>2, AdvanceFields DEF After, Known
<1>3. CASE Head(k.script).op # "read first" /\ ~(Head(k.script).op = "switch off" /\ k.held = NotRead)
  <2>1. After(k) = Advance(k)
    BY <1>3 DEF After
  <2> QED
    BY <1>3, <2>1, AdvanceFields DEF Known
<1> QED
  BY <1>1, <1>2, <1>3

LEMMA Single ==
    /\ <<ReadFirst>> \in Seq(Requests) /\ <<ReadFirst>> # <<>> /\ <<ReadFirst>> # GetScript
    /\ Head(<<ReadFirst>>) = ReadFirst /\ Tail(<<ReadFirst>>) = <<>>
    /\ Head(GetScript) = ReadWork /\ Tail(GetScript) = <<ReadFirst>>
    /\ ReadWork.op = "read work" /\ ReadFirst.op = "read first"
<1>1. <<ReadFirst>> \in Seq(Requests) /\ Len(<<ReadFirst>>) = 1 /\ Len(GetScript) = 2
  BY RequestTypes DEF GetScript
<1>2. <<ReadFirst>> # <<>> /\ <<ReadFirst>> # GetScript
  BY <1>1
<1>3. Head(<<ReadFirst>>) = ReadFirst
  OBVIOUS
<1>4. Tail(<<ReadFirst>>) = <<>>
  <2>1. Tail(<<ReadFirst>>) \in Seq(Requests) /\ Len(Tail(<<ReadFirst>>)) = 0
    BY <1>1, <1>2, HeadTailProperties
  <2> QED
    BY <2>1, EmptySeq
<1>5. Head(GetScript) = ReadWork /\ Tail(GetScript) = <<ReadFirst>>
  BY DEF GetScript
<1>6. ReadWork.op = "read work" /\ ReadFirst.op = "read first"
  BY DEF ReadWork, ReadFirst
<1> QED
  BY <1>1, <1>2, <1>3, <1>4, <1>5, <1>6

\* How a reading is answered.
LEMMA AfterReadWork ==
    ASSUME NEW k \in Calls, k.script = GetScript, k.mode = GET, inverter \in Inverters, k.result = "running"
    PROVE  /\ After(k).mode = k.mode
           /\ \/ /\ inverter.work = ECO /\ After(k).result = "running"
                 /\ After(k).script = <<ReadFirst>> /\ After(k).read.work = ECO
              \/ inverter.work # ECO /\ After(k).result = "done" /\ After(k).read.work = inverter.work
<1>1. Head(k.script).op = "read work" /\ Tail(k.script) = <<ReadFirst>> /\ k.script # <<>> /\ <<ReadFirst>> # <<>>
  BY Single, GetScripts
<1>2. After(k) = IF inverter.work = ECO THEN [Advance(k) EXCEPT !.read.work = ECO]
                 ELSE [k EXCEPT !.read.work = inverter.work, !.result = "done"]
  BY <1>1 DEF After
<1>3. Advance(k) \in Calls
  BY <1>1, AdvanceType
<1> DEFINE a == Advance(k)
<1>4. a.mode = k.mode /\ a.script = <<ReadFirst>> /\ a.result = "running" /\ a \in Calls
  BY <1>1, <1>3, AdvanceFields
<1> HIDE DEF a
<1>5. /\ [a EXCEPT !.read.work = ECO].mode = a.mode /\ [a EXCEPT !.read.work = ECO].script = a.script
      /\ [a EXCEPT !.read.work = ECO].result = a.result /\ [a EXCEPT !.read.work = ECO].read.work = ECO
  BY <1>4 DEF Calls
<1>6. LET b == [k EXCEPT !.read.work = inverter.work, !.result = "done"] IN
        b.mode = k.mode /\ b.result = "done" /\ b.read.work = inverter.work
  BY DEF Calls
<1>7. CASE inverter.work = ECO
  BY <1>2, <1>4, <1>5, <1>7 DEF a
<1>8. CASE inverter.work # ECO
  BY <1>2, <1>6, <1>8
<1> QED
  BY <1>7, <1>8

LEMMA AfterReadFirst ==
    ASSUME NEW k \in Calls, k.script = <<ReadFirst>>, k.mode = GET, inverter \in Inverters, k.result = "running"
    PROVE  /\ After(k).mode = k.mode
           /\ \/ After(k).result = "failed"
              \/ /\ After(k).result = "done"
                 /\ After(k).read = [work |-> k.read.work, first |-> inverter.first]
<1>1. Head(k.script).op = "read first" /\ Tail(k.script) = <<>> /\ k.script # <<>>
  BY Single
<1>2. After(k) = IF inverter.first = "unreadable" THEN Failed(k)
                 ELSE [Advance(k) EXCEPT !.read.first = inverter.first]
  BY <1>1 DEF After
<1> DEFINE a == Advance(k)
<1>3. a.mode = k.mode /\ a.result = "done" /\ a \in Calls /\ a.read = k.read
  BY <1>1, AdvanceType, AdvanceFields
<1> HIDE DEF a
<1>4. LET b == [a EXCEPT !.read.first = inverter.first] IN
        /\ b.mode = a.mode /\ b.result = a.result
        /\ b.read = [a.read EXCEPT !.first = inverter.first]
  BY <1>3 DEF Calls
<1>5. a.read \in [work : Int, first : FirstGroups]
  BY <1>3 DEF Calls
<1>6. [a.read EXCEPT !.first = inverter.first] = [work |-> a.read.work, first |-> inverter.first]
  BY <1>5
<1>7. CASE inverter.first = "unreadable"
  BY <1>2, <1>7, AdvanceFields
<1>8. CASE inverter.first # "unreadable"
  BY <1>2, <1>3, <1>4, <1>6, <1>8 DEF a
<1> QED
  BY <1>7, <1>8

\* The part of an outcome that settles the call.
LEMMA Settled ==
    ASSUME NEW c \in Callers, NEW k, Settle(c, k), Witness(c, k)
    PROVE  /\ call' = [call EXCEPT ![c] = Left(k)]
           /\ others' = [others EXCEPT ![c] = IF k.result = "running" THEN @ ELSE 0]
           /\ seen' = [d \in Callers |->
                         IF Running(d) /\ (d # c \/ k.result = "running") THEN seen[d] \union {Mode(inverter')} ELSE {}]
  BY DEF Settle, Witness, Left

LEMMA AnsweredOutcome ==
    ASSUME ModesInv, NEW c \in Callers, Answered(c)
    PROVE  Outcome(c, After(call[c]))
<1> DEFINE k == call[c]  s == k.script  k2 == After(k)
<1>1. /\ Running(c) /\ inverter' = CarriedOut(inverter, Head(s), k.held) /\ begun' = begun
      /\ Settle(c, k2) /\ Witness(c, k2)
  BY DEF Answered
<1>2. /\ k \in Calls /\ s \in Seq(Requests) /\ s # <<>> /\ k.held \in Days \union {NotRead} /\ k.result = "running"
      /\ Plan(s, k.mode) /\ inverter \in Inverters /\ Head(s) \in Requests
      /\ Sets(c) => k.mode # GET
      /\ k.mode = GET => s \in {GetScript, <<ReadFirst>>}
  BY <1>1, Underway
<1>3. k2 \in Calls /\ (k2.result = "running" => k2.script # <<>>)
  BY <1>2, AfterType
<1>4. /\ call' = [call EXCEPT ![c] = Left(k2)]
      /\ others' = [others EXCEPT ![c] = IF k2.result = "running" THEN @ ELSE 0]
      /\ seen' = [d \in Callers |->
                    IF Running(d) /\ (d # c \/ k2.result = "running") THEN seen[d] \union {Mode(inverter')} ELSE {}]
  BY <1>1, Settled
<1>5. CASE k.mode = GET
  <2>1. k2.mode = k.mode /\ k2.result \in {"running", "done", "failed"}
    BY <1>2, <1>5, AfterReadWork, AfterReadFirst
  <2>2. k2.result = "running" => k2.script = <<ReadFirst>> /\ k2.read.work = ECO /\ inverter.work = ECO /\ s = GetScript
    BY <1>2, <1>5, AfterReadWork, AfterReadFirst
  <2>3. k2.result = "done" =>
          \/ inverter.work # ECO /\ k2.read.work = inverter.work
          \/ s = <<ReadFirst>> /\ k2.read = [work |-> k.read.work, first |-> inverter.first]
    BY <1>2, <1>5, AfterReadWork, AfterReadFirst
  <2>4. k2.result = "running" => k2.script = Tail(s)
    BY <2>2, Single
  <2> HIDE DEF k2
  <2>5. Outcome(c, k2)
    BY <1>1, <1>2, <1>3, <1>4, <1>5, <2>1, <2>2, <2>3, <2>4 DEF Outcome
  <2> QED
    BY <2>5 DEF k2
<1>6. CASE k.mode # GET
  <2>1. Head(s).op # "read work"
    BY <1>2, <1>6, HeadPlan
  <2>2. /\ k2.mode = k.mode
        /\ \/ /\ Head(s).op = "switch off" /\ k.held = NotRead
              /\ k2.script = s /\ k2.result = "running"
           \/ k2 = Failed(k)
           \/ k2 = Advance(k) /\ Known(Head(s), k.held)
    BY <1>2, <1>6, <2>1, AfterWrite
  <2> HIDE DEF k2
  <2>3. \/ k2.script = s /\ k2.result = "running"
        \/ k2.result = "failed"
        \/ /\ k2.script = Tail(s) /\ Known(Head(s), k.held)
           /\ k2.result = IF Tail(s) = <<>> THEN "done" ELSE "running"
    BY <1>2, <2>2, AdvanceFields
  <2>4. ASSUME Sets(c), k2.result # "failed", Owes(s, inverter, k.mode) PROVE Owes(k2.script, inverter', k.mode)
    <3>1. k.mode \in Real \union Emulated
      BY <2>4 DEF Sets
    <3>2. CASE k2.script = s
      BY <1>1, <1>2, <2>4, <3>1, <3>2, RepeatOwes
    <3>3. CASE k2.script = Tail(s) /\ Known(Head(s), k.held)
      BY <1>1, <1>2, <2>4, <3>1, <3>3, AnswerOwes
    <3> QED
      BY <2>3, <2>4, <3>2, <3>3
  <2>5. Outcome(c, k2)
    BY <1>1, <1>2, <1>3, <1>4, <1>6, <2>2, <2>3, <2>4 DEF Outcome
  <2> QED
    BY <2>5 DEF k2
<1> QED
  BY <1>5, <1>6

LEMMA UnansweredOutcome ==
    ASSUME ModesInv, NEW c \in Callers, Unanswered(c)
    PROVE  Outcome(c, call[c])
<1> DEFINE k == call[c]  s == k.script
<1>1. /\ Running(c) /\ inverter' = CarriedOut(inverter, Head(s), k.held) /\ begun' = begun
      /\ Witness(c, k) /\ call' = call /\ others' = others
  BY DEF Unanswered
<1>2. /\ k \in Calls /\ s \in Seq(Requests) /\ s # <<>> /\ k.held \in Days \union {NotRead} /\ k.result = "running"
      /\ Plan(s, k.mode) /\ inverter \in Inverters
  BY <1>1, Underway
<1>3. /\ call' = [call EXCEPT ![c] = Left(k)]
      /\ others' = [others EXCEPT ![c] = IF k.result = "running" THEN @ ELSE 0]
  BY <1>1, <1>2 DEF ModesInv, DaysInv, TypeOK, OthersInv, Left
<1>4. seen' = [d \in Callers |->
                 IF Running(d) /\ (d # c \/ k.result = "running") THEN seen[d] \union {Mode(inverter')} ELSE {}]
  BY <1>1 DEF Witness
<1>5. ASSUME Sets(c), Owes(s, inverter, k.mode) PROVE Owes(s, inverter', k.mode)
  BY <1>1, <1>2, <1>5, RepeatOwes DEF Sets
<1> QED
  BY <1>1, <1>2, <1>3, <1>4, <1>5 DEF Outcome

LEMMA RefusedOutcome ==
    ASSUME ModesInv, NEW c \in Callers, Refused(c) \/ GivenUp(c)
    PROVE  \E k : Outcome(c, k)
<1> DEFINE k == call[c]  s == k.script
           none == [k EXCEPT !.result = "done", !.read = Nothing]
<1>1. Running(c) /\ inverter' = inverter /\ begun' = begun
  BY DEF Refused, GivenUp
<1>2. /\ k \in Calls /\ s \in Seq(Requests) /\ s # <<>> /\ k.held \in Days \union {NotRead} /\ k.result = "running"
      /\ Plan(s, k.mode) /\ inverter \in Inverters /\ Head(s) \in Requests
      /\ Sets(c) => k.mode # GET
  BY <1>1, Underway
<1>3. PICK k2 : /\ Settle(c, k2) /\ Witness(c, k2)
                /\ \/ k2 = Failed(k)
                   \/ k2 = Advance(k) /\ Head(s).op = "read first" /\ k.mode # GET
                   \/ k2 = none /\ Head(s).op = "read work"
  <2>1. CASE GivenUp(c)
    BY <2>1 DEF GivenUp
  <2>2. CASE Refused(c)
    BY <2>2 DEF Refused
  <2> QED
    BY <2>1, <2>2
<1>4. /\ call' = [call EXCEPT ![c] = Left(k2)]
      /\ others' = [others EXCEPT ![c] = IF k2.result = "running" THEN @ ELSE 0]
      /\ seen' = [d \in Callers |->
                    IF Running(d) /\ (d # c \/ k2.result = "running") THEN seen[d] \union {Mode(inverter')} ELSE {}]
  BY <1>3, Settled
<1>5. CASE k2 = Failed(k)
  <2>1. k2.mode = k.mode /\ k2.result = "failed" /\ k2 \in Calls
    BY <1>2, <1>5, AdvanceFields DEF Failed, Calls
  <2> QED
    BY <1>1, <1>4, <2>1 DEF Outcome
<1>6. CASE k2 = Advance(k) /\ Head(s).op = "read first" /\ k.mode # GET
  <2>1. /\ k2.mode = k.mode /\ k2.script = Tail(s) /\ k2.result = IF Tail(s) = <<>> THEN "done" ELSE "running"
        /\ k2 \in Calls
    BY <1>2, <1>6, AdvanceFields, AdvanceType
  <2>2. Known(Head(s), k.held) /\ CarriedOut(inverter, Head(s), k.held) = inverter
    BY <1>6 DEF Known, CarriedOut
  <2>3. ASSUME Sets(c), Owes(s, inverter, k.mode) PROVE Owes(Tail(s), inverter, k.mode)
    <3>1. k.mode \in Real \union Emulated
      BY <2>3 DEF Sets
    <3>2. Owes(Tail(s), CarriedOut(inverter, Head(s), k.held), k.mode)
      BY <1>2, <2>2, <2>3, <3>1, AnswerOwes
    <3> QED
      BY <2>2, <3>2
  <2> QED
    BY <1>1, <1>4, <1>6, <2>1, <2>3 DEF Outcome
<1>7. CASE k2 = none /\ Head(s).op = "read work"
  <2>1. k.mode = GET
    BY <1>2, <1>7, HeadPlan
  <2>2. k2.mode = k.mode /\ k2.result = "done" /\ k2.read = Nothing /\ k2 \in Calls
    BY <1>2, <1>7, IdleCall DEF Calls
  <2> QED
    BY <1>1, <1>2, <1>4, <2>1, <2>2 DEF Outcome
<1> QED
  BY <1>3, <1>5, <1>6, <1>7

-----------------------------------------------------------------------------
(* ModesInv is inductive.                                                     *)

\* The calls after an outcome: those of others are as before.
LEMMA OutcomeCalls ==
    ASSUME ModesInv, NEW c \in Callers, NEW k, Outcome(c, k)
    PROVE  /\ call'[c] = Left(k) /\ (Running(c)' <=> k.result = "running") /\ Running(c)
           /\ k.result = "running" => call'[c] = k /\ others'[c] = others[c]
           /\ \A d \in Callers \ {c} : /\ call'[d] = call[d] /\ others'[d] = others[d]
                                       /\ Running(d)' <=> Running(d)
           /\ Writers' \subseteq Writers
           /\ others' \in [Callers -> Nat]
           /\ \A d \in Callers : Running(d)' => Running(d) /\ seen'[d] = seen[d] \union {Mode(inverter')}
<1>1. /\ call \in [Callers -> Calls] /\ others \in [Callers -> Nat]
  BY DEF ModesInv, DaysInv, TypeOK, OthersInv
<1>2. /\ Running(c) /\ k.mode = call[c].mode /\ k.result \in {"running", "done", "failed"}
      /\ call' = [call EXCEPT ![c] = Left(k)]
      /\ others' = [others EXCEPT ![c] = IF k.result = "running" THEN @ ELSE 0]
      /\ seen' = [d \in Callers |->
                    IF Running(d) /\ (d # c \/ k.result = "running") THEN seen[d] \union {Mode(inverter')} ELSE {}]
  BY DEF Outcome
<1>3. Left(k).result = k.result /\ (k.result = "running" => Left(k) = k)
  BY DEF Left, Idle
<1>4. /\ call'[c] = Left(k) /\ (Running(c)' <=> k.result = "running")
      /\ \A d \in Callers \ {c} : /\ call'[d] = call[d] /\ others'[d] = others[d]
                                  /\ Running(d)' <=> Running(d)
      /\ k.result = "running" => others'[c] = others[c]
      /\ others' \in [Callers -> Nat]
  BY <1>1, <1>2, <1>3 DEF Running
<1>5. Writers' \subseteq Writers
  BY <1>2, <1>3, <1>4 DEF Writers, Writes
<1>6. \A d \in Callers : Running(d)' => Running(d) /\ seen'[d] = seen[d] \union {Mode(inverter')}
  BY <1>2, <1>4
<1> QED
  BY <1>2, <1>3, <1>4, <1>5, <1>6

LEMMA OutcomeOthers ==
    ASSUME ModesInv, NEW c \in Callers, NEW k, Outcome(c, k)
    PROVE  OthersInv'
<1>1. IsFiniteSet(Writers) /\ \A d \in Callers : Running(d) => Cardinality(Writers \ {d}) <= others[d]
  BY DEF ModesInv, OthersInv
<1>2. Writers' \subseteq Writers /\ others' \in [Callers -> Nat]
  BY OutcomeCalls
<1>3. IsFiniteSet(Writers')
  BY <1>1, <1>2, FS_Subset
<1>4. ASSUME NEW d \in Callers, Running(d)' PROVE Cardinality(Writers' \ {d}) <= others'[d]
  <2>1. Running(d) /\ others'[d] = others[d]
    BY <1>4, OutcomeCalls
  <2>2. IsFiniteSet(Writers \ {d}) /\ Writers' \ {d} \subseteq Writers \ {d}
    BY <1>1, <1>2, FS_Subset
  <2>3. Cardinality(Writers' \ {d}) <= Cardinality(Writers \ {d})
    BY <2>2, FS_Subset
  <2>4. Cardinality(Writers' \ {d}) \in Nat /\ Cardinality(Writers \ {d}) \in Nat
    BY <2>2, FS_Subset, FS_CardinalityType
  <2>5. others[d] \in Nat
    BY DEF ModesInv, OthersInv
  <2> QED
    BY <1>1, <2>1, <2>3, <2>4, <2>5
<1> QED
  BY <1>2, <1>3, <1>4 DEF OthersInv

\* Whom a caller counts.
LEMMA Counted ==
    ASSUME ModesInv, NEW c \in Callers, Writes(c), NEW d \in Callers, d # c, Running(d)
    PROVE  /\ others[d] # 0
           /\ others[d] <= 1 /\ call[d].mode = GET => others[d] = 1 /\ Writers = {c}
<1>1. /\ IsFiniteSet(Writers) /\ Cardinality(Writers \ {d}) <= others[d] /\ others[d] \in Nat
      /\ c \in Writers \ {d}
  BY DEF ModesInv, OthersInv, Writers
<1> DEFINE W == Writers \ {d}
<1>2. IsFiniteSet(W) /\ c \in W
  BY <1>1, FS_Subset
<1>3. IsFiniteSet(W \ {c}) /\ Cardinality(W) \in Nat /\ Cardinality(W \ {c}) \in Nat
      /\ Cardinality(W \ {c}) = Cardinality(W) - 1
  BY <1>2, FS_RemoveElement, FS_CardinalityType
<1>4. Cardinality(W) >= 1
  BY <1>3
<1>5. Cardinality(W) <= 1 => W = {c}
  <2>1. Cardinality(W) <= 1 => Cardinality(W \ {c}) = 0
    BY <1>3
  <2>2. Cardinality(W \ {c}) = 0 => W \ {c} = {}
    BY <1>3, FS_EmptySet
  <2> QED
    BY <1>2, <2>1, <2>2
<1>6. call[d].mode = GET => d \notin Writers
  BY DEF Writers, Writes
<1>7. call[d].mode = GET => W = Writers
  BY <1>6
<1> HIDE DEF W
<1>8. Cardinality(W) <= others[d]
  BY <1>1 DEF W
<1> QED
  BY <1>1, <1>3, <1>4, <1>5, <1>7, <1>8

LEMMA ModeType == \A inv \in Inverters : Mode(inv) \in Int
  BY ModeNumbers DEF Mode, Inverters, ECO_CHARGE, ECO_DISCHARGE

LEMMA OutcomeInverter ==
    ASSUME ModesInv, NEW c \in Callers, NEW k, Outcome(c, k)
    PROVE  /\ inverter' \in Inverters
           /\ inverter' # inverter =>
                /\ Writes(c) /\ call[c].mode # GET
                /\ inverter' = CarriedOut(inverter, Head(call[c].script), call[c].held)
<1>1. Running(c) /\ inverter' \in {inverter, CarriedOut(inverter, Head(call[c].script), call[c].held)}
  BY DEF Outcome
<1>2. /\ Head(call[c].script) \in Requests /\ call[c].held \in Days \union {NotRead} /\ inverter \in Inverters
      /\ call[c].mode = GET => CarriedOut(inverter, Head(call[c].script), call[c].held) = inverter
  BY <1>1, Underway
<1>3. CarriedOut(inverter, Head(call[c].script), call[c].held) \in Inverters
  BY <1>2, CarriedOutType
<1> QED
  BY <1>1, <1>2, <1>3 DEF Writes

\* Somebody else's change that nobody overlaps: the outcome is that of a reading.
LEMMA OtherChange ==
    ASSUME ModesInv, NEW c \in Callers, NEW k, Outcome(c, k), NEW d \in Callers, d # c, Running(d)'
    PROVE  ChangeInv(d)'
<1>1. Running(d) /\ call'[d] = call[d] /\ others'[d] = others[d] /\ seen'[d] = seen[d] \union {Mode(inverter')}
  BY OutcomeCalls
<1>2. ASSUME Sets(d), others[d] = 0
      PROVE  /\ Owes(call[d].script, inverter', call[d].mode)
             /\ \E mode : seen'[d] \subseteq AskedFor(call[d].mode) \union {mode}
  <2>1. ~Writes(c)
    BY <1>1, <1>2, Counted
  <2>2. inverter' = inverter
    BY <2>1, OutcomeInverter
  <2>3. Mode(inverter) \in seen[d] /\ ChangeInv(d)
    BY <1>1 DEF ModesInv
  <2>4. seen'[d] = seen[d]
    BY <1>1, <2>2, <2>3
  <2> QED
    BY <1>2, <2>2, <2>3, <2>4 DEF ChangeInv
<1> QED
  BY <1>1, <1>2 DEF ChangeInv, Sets

LEMMA OwnChange ==
    ASSUME ModesInv, NEW c \in Callers, NEW k, Outcome(c, k), Running(c)'
    PROVE  ChangeInv(c)'
<1>1. /\ Running(c) /\ call'[c] = k /\ others'[c] = others[c] /\ seen'[c] = seen[c] \union {Mode(inverter')}
      /\ k.result = "running"
  BY OutcomeCalls
<1>2. k.mode = call[c].mode
  BY DEF Outcome
<1>3. ASSUME Sets(c), others[c] = 0
      PROVE  /\ Owes(k.script, inverter', k.mode)
             /\ \E mode : seen'[c] \subseteq AskedFor(k.mode) \union {mode}
  <2>1. Owes(call[c].script, inverter, call[c].mode)
    BY <1>1, <1>3 DEF ModesInv, ChangeInv
  <2>2. PICK mode : seen[c] \subseteq AskedFor(call[c].mode) \union {mode}
    BY <1>1, <1>3 DEF ModesInv, ChangeInv
  <2>3. Mode(inverter) \in seen[c]
    BY <1>1 DEF ModesInv
  <2>4. Owes(k.script, inverter', k.mode)
    BY <1>1, <1>2, <1>3, <2>1 DEF Outcome
  <2>5. Mode(inverter') = Mode(inverter) \/ Mode(inverter') \in AskedFor(call[c].mode)
    <3>1. CASE inverter' = inverter
      BY <3>1
    <3>2. CASE inverter' # inverter
      <4>1. inverter' = CarriedOut(inverter, Head(call[c].script), call[c].held)
        BY <3>2, OutcomeInverter
      <4>2. /\ call[c].script \in Seq(Requests) /\ call[c].script # <<>> /\ Plan(call[c].script, call[c].mode)
            /\ inverter \in Inverters /\ call[c].held \in Days \union {NotRead}
            /\ call[c].mode \in Real \union Emulated
        BY <1>1, <1>3, Underway DEF Sets
      <4> QED
        BY <2>1, <4>1, <4>2, OwnMode
    <3> QED
      BY <3>1, <3>2
  <2>6. seen'[c] \subseteq AskedFor(k.mode) \union {mode}
    BY <1>1, <1>2, <2>2, <2>3, <2>5
  <2> QED
    BY <2>4, <2>6
<1> QED
  BY <1>1, <1>2, <1>3 DEF ChangeInv, Sets

\* A reading that found ECO stays right whatever another call does.
LEMMA EcoOrSeenKept ==
    ASSUME ModesInv, NEW c \in Callers, NEW k, Outcome(c, k), NEW d \in Callers, Running(d)',
           call[d].mode = GET, others[d] <= 1, EcoOrSeen(d)
    PROVE  EcoOrSeen(d)'
<1>1. /\ Running(d) /\ others'[d] = others[d] /\ seen'[d] = seen[d] \union {Mode(inverter')} /\ Running(c)
      /\ Writers' \subseteq Writers /\ inverter \in Inverters /\ inverter' \in Inverters
  BY OutcomeCalls, OutcomeInverter, Underway
<1>2. Mode(inverter) \in seen[d]
  BY <1>1 DEF ModesInv
<1>3. CASE ~Writes(c)
  <2>1. inverter' = inverter
    BY <1>3, OutcomeInverter
  <2>2. \A e \in Writers' : e \in Writers /\ call'[e] = call[e]
    BY <1>1, <1>3, OutcomeCalls DEF Writers
  <2> QED
    BY <1>1, <2>1, <2>2 DEF EcoOrSeen
<1>4. CASE Writes(c)
  <2> DEFINE r == Head(call[c].script)
  <2>1. d # c /\ Writers = {c} /\ others[d] = 1
    BY <1>1, <1>4, Counted DEF Writes
  <2>2. /\ call[c].script \in Seq(Requests) /\ call[c].script # <<>> /\ Plan(call[c].script, call[c].mode)
        /\ r \in Requests /\ call[c].held \in Days \union {NotRead}
    BY <1>1, Underway
  <2>3. /\ IsWork(r) => ~WritesFirst(call[c].script)
        /\ r.op = "write first" => WritesFirst(call[c].script)
        /\ ~WritesFirst(call[c].script) => ~WritesFirst(Tail(call[c].script))
    BY <2>2, HeadPlan
  <2>4. inverter' = inverter \/ /\ inverter'.work = IF IsWork(r) THEN r.value ELSE inverter.work
                                /\ inverter'.first = IF r.op = "write first" THEN r.kind ELSE inverter.first
    <3> DEFINE held == call[c].held  after == CarriedOut(inverter, r, held)
    <3>2. inverter' = inverter \/ inverter' = after
      BY OutcomeInverter
    <3>3. r \in Requests /\ held \in Days \union {NotRead} /\ inverter \in Inverters
      BY <1>1, <2>2
    <3> HIDE DEF r, held
    <3>1. /\ after.work = IF IsWork(r) THEN r.value ELSE inverter.work
          /\ after.first = IF r.op = "write first" THEN r.kind ELSE inverter.first
      BY <3>3, Effect
    <3> HIDE DEF after
    <3> QED
      BY <3>1, <3>2
  <2> HIDE DEF r
  <2>5. ASSUME ~WritesFirst(call[c].script), NEW e \in Writers' PROVE ~WritesFirst(call'[e].script)
    <3>1. e = c /\ Running(c)'
      BY <1>1, <2>1 DEF Writers, Writes
    <3>2. call'[c] = k /\ k.script \in {call[c].script, Tail(call[c].script)}
      BY <3>1, OutcomeCalls DEF Outcome
    <3> QED
      BY <2>3, <2>5, <3>1, <3>2
  <2>6. CASE inverter'.work = ECO
    BY <2>6 DEF EcoOrSeen
  <2>7. CASE inverter'.work # ECO /\ inverter.work = ECO
    <3>1. IsWork(r) /\ inverter'.first = inverter.first
      BY <2>4, <2>7 DEF IsWork
    <3>2. Mode([work |-> ECO, first |-> inverter.first]) = Mode(inverter)
      BY <2>7 DEF Mode
    <3> QED
      BY <1>1, <1>2, <2>1, <2>3, <2>5, <3>1, <3>2 DEF EcoOrSeen
  <2>8. CASE inverter.work # ECO
    <3>1. Mode([work |-> ECO, first |-> inverter.first]) \in seen[d] /\ ~WritesFirst(call[c].script)
      BY <2>1, <2>8 DEF EcoOrSeen
    <3>2. inverter'.first = inverter.first
      BY <2>3, <2>4, <3>1
    <3> QED
      BY <1>1, <2>1, <2>5, <3>1, <3>2 DEF EcoOrSeen
  <2> QED
    BY <2>6, <2>7, <2>8
<1> QED
  BY <1>3, <1>4

LEMMA ReadingKept ==
    ASSUME ModesInv, NEW c \in Callers, NEW k, Outcome(c, k), NEW d \in Callers, Running(d)'
    PROVE  ReadingInv(d)'
<1>1. Running(d) /\ others'[d] = others[d] /\ ReadingInv(d)
  BY OutcomeCalls DEF ModesInv
<1>2. others[d] <= 1 /\ call[d].mode = GET /\ EcoOrSeen(d) => EcoOrSeen(d)'
  BY EcoOrSeenKept
<1>3. CASE call'[d].script = call[d].script /\ call'[d].read = call[d].read /\ call'[d].mode = call[d].mode
  BY <1>1, <1>2, <1>3 DEF ReadingInv
<1>4. CASE d = c
  <2>1. call'[c] = k /\ k.result = "running" /\ k.mode = call[c].mode
    BY <1>4, OutcomeCalls DEF Outcome
  <2>2. call[c].mode = GET =>
          \/ k.script = call[c].script /\ k.read = call[c].read
          \/ k.script = <<ReadFirst>> /\ k.read.work = ECO /\ inverter.work = ECO
    BY <2>1 DEF Outcome
  <2>3. inverter.work = ECO => EcoOrSeen(c)
    BY DEF EcoOrSeen
  <2> QED
    BY <1>1, <1>2, <1>3, <1>4, <2>1, <2>2, <2>3 DEF ReadingInv
<1>5. CASE d # c
  BY <1>3, <1>5, OutcomeCalls
<1> QED
  BY <1>4, <1>5

LEMMA OutcomeKeepsModes ==
    ASSUME ModesInv, DaysInv', NEW c \in Callers, NEW k, Outcome(c, k)
    PROVE  ModesInv'
<1>1. OthersInv'
  BY OutcomeOthers
<1>2. seen' \in [Callers -> SUBSET Int]
  <2>1. Mode(inverter') \in Int
    BY OutcomeInverter, ModeType
  <2>2. seen' = [d \in Callers |->
                   IF Running(d) /\ (d # c \/ k.result = "running") THEN seen[d] \union {Mode(inverter')} ELSE {}]
    BY DEF Outcome
  <2>3. \A d \in Callers : seen[d] \in SUBSET Int
    BY DEF ModesInv
  <2>4. \A d \in Callers :
          (IF Running(d) /\ (d # c \/ k.result = "running") THEN seen[d] \union {Mode(inverter')} ELSE {}) \in SUBSET Int
    BY <2>1, <2>3
  <2> QED
    BY <2>2, <2>4
<1>3. ASSUME NEW d \in Callers, Running(d)'
      PROVE  /\ Plan(call'[d].script, call'[d].mode) /\ Mode(inverter') \in seen'[d]
             /\ ChangeInv(d)' /\ ReadingInv(d)'
  <2>1. Mode(inverter') \in seen'[d]
    BY <1>3, OutcomeCalls
  <2>2. ReadingInv(d)'
    BY <1>3, ReadingKept
  <2>3. ChangeInv(d)'
    BY <1>3, OwnChange, OtherChange
  <2>4. Plan(call'[d].script, call'[d].mode)
    <3>1. CASE d # c
      BY <1>3, <3>1, OutcomeCalls DEF ModesInv
    <3>2. CASE d = c
      <4>1. /\ Running(c) /\ call'[c] = k /\ k.mode = call[c].mode
            /\ k.script \in {call[c].script, Tail(call[c].script)}
        BY <1>3, <3>2, OutcomeCalls DEF Outcome
      <4>2. Plan(call[c].script, call[c].mode) /\ Plan(Tail(call[c].script), call[c].mode)
        BY <4>1, Underway, TailPlan
      <4> QED
        BY <3>2, <4>1, <4>2
    <3> QED
      BY <3>1, <3>2
  <2> QED
    BY <2>1, <2>2, <2>3, <2>4
<1> QED
  BY <1>1, <1>2, <1>3 DEF ModesInv

LEMMA BeginKeepsModes ==
    ASSUME ModesInv, DaysInv', NEW c \in Callers, NEW mode \in Int, NEW script \in Seq(Requests),
           Begin(c, mode, script), Plan(script, mode),
           mode \in Real \union Emulated => Owes(script, inverter, mode),
           mode = GET => script = GetScript
    PROVE  ModesInv'
<1>1. /\ ~Running(c) /\ call' = [call EXCEPT ![c] = Call(mode, script)] /\ inverter' = inverter
      /\ seen' = [seen EXCEPT ![c] = {Mode(inverter)}]
      /\ others' = [d \in Callers |->
                      IF d = c THEN Cardinality({e \in Callers \ {c} : Writes(e)})
                      ELSE IF Running(d) /\ mode # GET THEN others[d] + 1 ELSE others[d]]
  BY DEF Begin
<1>2. /\ call \in [Callers -> Calls] /\ inverter \in Inverters /\ others \in [Callers -> Nat]
      /\ seen \in [Callers -> SUBSET Int] /\ IsFiniteSet(Writers)
      /\ \A d \in Callers : Running(d) => Cardinality(Writers \ {d}) <= others[d]
  BY DEF ModesInv, DaysInv, TypeOK, OthersInv
<1>3. call'[c] = Call(mode, script) /\ \A d \in Callers \ {c} : call'[d] = call[d]
  BY <1>1, <1>2
<1>4. /\ Call(mode, script).mode = mode /\ Call(mode, script).script = script
      /\ Call(mode, script).result = "running"
  BY DEF Call
<1>5. Running(c)' /\ \A d \in Callers \ {c} : Running(d)' <=> Running(d)
  BY <1>3, <1>4 DEF Running
<1>6. c \notin Writers /\ {e \in Callers \ {c} : Writes(e)} = Writers
  BY <1>1 DEF Writers, Writes
<1>7. Writers' = IF mode = GET THEN Writers ELSE Writers \union {c}
  <2>1. \A d \in Callers \ {c} : d \in Writers' <=> d \in Writers
    BY <1>3, <1>5 DEF Writers, Writes
  <2>2. c \in Writers' <=> mode # GET
    BY <1>3, <1>4, <1>5 DEF Writers, Writes
  <2>3. Writers' \subseteq Callers /\ Writers \subseteq Callers
    BY DEF Writers
  <2> QED
    BY <1>6, <2>1, <2>2, <2>3
<1>12. /\ others'[c] = Cardinality(Writers)
       /\ \A d \in Callers \ {c} : others'[d] = IF Running(d) /\ mode # GET THEN others[d] + 1 ELSE others[d]
  <2> DEFINE counted == Cardinality({e \in Callers \ {c} : Writes(e)})
  <2>1. others' = [d \in Callers |->
                    IF d = c THEN counted ELSE IF Running(d) /\ mode # GET THEN others[d] + 1 ELSE others[d]]
    BY <1>1
  <2>2. counted = Cardinality(Writers)
    BY <1>6
  <2> HIDE DEF counted
  <2> QED
    BY <2>1, <2>2
<1>8. OthersInv'
  <2>1. Cardinality(Writers) \in Nat
    BY <1>2, FS_CardinalityType
  <2>2. IsFiniteSet(Writers')
    BY <1>2, <1>7, FS_AddElement
  <2>3. others' \in [Callers -> Nat]
    BY <1>1, <1>2, <1>6, <2>1
  <2>4. ASSUME NEW d \in Callers, Running(d)' PROVE Cardinality(Writers' \ {d}) <= others'[d]
    <3>1. CASE d = c
      <4>1. Writers' \ {d} = Writers
        BY <1>6, <1>7, <3>1
      <4>3. others'[d] = Cardinality(Writers)
        BY <1>12, <3>1
      <4>4. Cardinality(Writers' \ {d}) = Cardinality(Writers)
        BY <4>1
      <4> QED
        BY <2>1, <4>3, <4>4
    <3>2. CASE d # c
      <4> DEFINE W == Writers \ {d}
      <4>1. IsFiniteSet(W) /\ c \notin W /\ Cardinality(W) \in Nat
        BY <1>2, <1>6, FS_Subset, FS_CardinalityType
      <4>2. Cardinality(W) <= others[d] /\ others[d] \in Nat /\ Running(d)
        BY <1>2, <1>5, <2>4, <3>2
      <4>3. Cardinality(W \union {c}) = Cardinality(W) + 1
        BY <4>1, FS_AddElement
      <4>4. Writers' \ {d} = IF mode = GET THEN W ELSE W \union {c}
        BY <1>7, <3>2
      <4>5. others'[d] = IF mode # GET THEN others[d] + 1 ELSE others[d]
        BY <1>12, <3>2, <4>2
      <4> HIDE DEF W
      <4>6. CASE mode = GET
        <5>1. Cardinality(Writers' \ {d}) = Cardinality(W) /\ others'[d] = others[d]
          BY <4>4, <4>5, <4>6
        <5> QED
          BY <4>1, <4>2, <5>1
      <4>7. CASE mode # GET
        <5>1. Cardinality(Writers' \ {d}) = Cardinality(W \union {c}) /\ others'[d] = others[d] + 1
          BY <4>4, <4>5, <4>7
        <5> QED
          BY <4>1, <4>2, <4>3, <5>1
      <4> QED
        BY <4>6, <4>7
    <3> QED
      BY <3>1, <3>2
  <2> QED
    BY <2>2, <2>3, <2>4 DEF OthersInv
<1>9. seen' \in [Callers -> SUBSET Int] /\ seen'[c] = {Mode(inverter)} /\ \A d \in Callers \ {c} : seen'[d] = seen[d]
  BY <1>1, <1>2, ModeType
<1>10. ASSUME NEW d \in Callers, d # c, Running(d)'
       PROVE  /\ Plan(call'[d].script, call'[d].mode) /\ Mode(inverter') \in seen'[d]
              /\ ChangeInv(d)' /\ ReadingInv(d)'
  <2>1. Running(d) /\ call'[d] = call[d] /\ seen'[d] = seen[d] /\ inverter' = inverter
    BY <1>1, <1>3, <1>5, <1>9, <1>10
  <2>2. Plan(call[d].script, call[d].mode) /\ Mode(inverter) \in seen[d] /\ ChangeInv(d) /\ ReadingInv(d)
    BY <2>1 DEF ModesInv
  <2>3. others'[d] = (IF mode # GET THEN others[d] + 1 ELSE others[d]) /\ others[d] \in Nat
    BY <1>1, <1>2, <1>10, <2>1
  <2>4. ChangeInv(d)'
    <3>1. others'[d] = 0 => others[d] = 0
      BY <2>3
    <3> QED
      BY <2>1, <2>2, <3>1 DEF ChangeInv, Sets
  <2>5. others'[d] <= 1 /\ (others[d] <= 1 => EcoOrSeen(d)) => EcoOrSeen(d)'
    <3> SUFFICES ASSUME others'[d] <= 1, others[d] <= 1 => EcoOrSeen(d) PROVE EcoOrSeen(d)'
      OBVIOUS
    <3>1. others[d] <= 1
      BY <2>3
    <3>2. CASE mode = GET
      <4>1. Writers' = Writers /\ others'[d] = others[d] /\ \A e \in Writers : call'[e] = call[e]
        BY <1>3, <1>6, <1>7, <2>3, <3>2 DEF Writers
      <4> QED
        BY <2>1, <3>1, <4>1 DEF EcoOrSeen
    <3>3. CASE mode # GET
      <4>1. others[d] # 1
        BY <2>3, <3>3
      <4> QED
        BY <2>1, <3>1, <4>1 DEF EcoOrSeen
    <3> QED
      BY <3>2, <3>3
  <2>6. ReadingInv(d)'
    BY <2>1, <2>2, <2>5 DEF ReadingInv
  <2> QED
    BY <2>1, <2>2, <2>4, <2>6
<1>11. /\ Plan(call'[c].script, call'[c].mode) /\ Mode(inverter') \in seen'[c]
       /\ ChangeInv(c)' /\ ReadingInv(c)'
  <2>1. call'[c].script = script /\ call'[c].mode = mode /\ inverter' = inverter /\ seen'[c] = {Mode(inverter)}
    BY <1>1, <1>3, <1>4, <1>9
  <2>2. \E m : seen'[c] \subseteq AskedFor(mode) \union {m}
    <3>1. seen'[c] \subseteq AskedFor(mode) \union {Mode(inverter)}
      BY <2>1
    <3> QED
      BY <3>1
  <2>3. ChangeInv(c)'
    BY <2>1, <2>2 DEF ChangeInv, Sets
  <2>4. ReadingInv(c)'
    BY <2>1 DEF ReadingInv
  <2> QED
    BY <2>1, <2>3, <2>4
<1> QED
  BY <1>8, <1>9, <1>10, <1>11 DEF ModesInv

LEMMA InitModes == Init => ModesInv
<1> SUFFICES ASSUME Init PROVE ModesInv
  OBVIOUS
<1>1. DaysInv
  BY InitInv
<1>2. \A c \in Callers : ~Running(c)
  BY DEF Init, Running, Idle
<1>3. Writers = {}
  BY <1>2 DEF Writers, Writes
<1>4. IsFiniteSet(Writers)
  BY <1>3, FS_EmptySet
<1>5. others \in [Callers -> Nat] /\ seen \in [Callers -> SUBSET Int]
  BY DEF Init
<1> QED
  BY <1>1, <1>2, <1>4, <1>5 DEF ModesInv, OthersInv

\* Every step is the beginning of a call or an outcome of a request.
LEMMA Outcomes ==
    ASSUME ModesInv, NEW c \in Callers, Answered(c) \/ Unanswered(c) \/ Refused(c) \/ GivenUp(c)
    PROVE  \E k : Outcome(c, k)
  BY AnsweredOutcome, UnansweredOutcome, RefusedOutcome

LEMMA StepModes == ModesInv /\ [Next]_vars => ModesInv'
<1> SUFFICES ASSUME ModesInv, [Next]_vars PROVE ModesInv'
  OBVIOUS
<1>0. DaysInv'
  BY StepInv DEF ModesInv
<1>1. CASE UNCHANGED vars
  <2>1. UNCHANGED <<inverter, call, seen, others>> /\ Writers' = Writers
    BY <1>1 DEF vars, Writers, Writes, Running
  <2> QED
    BY <1>0, <2>1 DEF ModesInv, OthersInv, ChangeInv, ReadingInv, EcoOrSeen, Running, Sets
<1>2. ASSUME NEW c \in Callers, GetOperationMode(c) PROVE ModesInv'
  <2>1. GET \in Int /\ GET \notin Real \union Emulated
    BY ModeNumbers
  <2> QED
    BY <1>0, <1>2, <2>1, GetScripts, GetPlan, BeginKeepsModes DEF GetOperationMode
<1>3. ASSUME NEW c \in Callers, SetOperationMode(c) PROVE ModesInv'
  <2>1. PICK mode \in Asked, power \in {0, 100} :
          /\ SetScript(family, mode, Kind(mode, power)) # <<>>
          /\ Begin(c, mode, SetScript(family, mode, Kind(mode, power)))
    BY <1>3 DEF SetOperationMode
  <2> DEFINE s == SetScript(family, mode, Kind(mode, power))
  <2>2. mode \in Real \union Emulated /\ mode \in Int /\ mode # GET
    BY ModesAssumption, ModeNumbers, ModeTypes
  <2>3. s \in Seq(Requests) /\ Plan(s, mode) /\ Owes(s, inverter, mode)
    BY <2>1, <2>2, SetPlan, SetScripts, ModeTypes
  <2> HIDE DEF s
  <2>4. Begin(c, mode, s)
    BY <2>1 DEF s
  <2> QED
    BY <1>0, <2>2, <2>3, <2>4, BeginKeepsModes
<1>4. ASSUME NEW c \in Callers, WriteEcoMode(c) PROVE ModesInv'
  <2>1. PICK request \in GroupWrites : Begin(c, WRITE_GROUP, <<request>>)
    BY <1>4 DEF WriteEcoMode
  <2>2. WRITE_GROUP \in Int /\ WRITE_GROUP \notin Real \union Emulated /\ WRITE_GROUP # GET
    BY ModeNumbers
  <2>3. <<request>> \in Seq(Requests) /\ Plan(<<request>>, WRITE_GROUP)
    BY RequestTypes, WriteGroupPlan
  <2> QED
    BY <1>0, <2>1, <2>2, <2>3, BeginKeepsModes
<1>5. ASSUME NEW c \in Callers, Answered(c) \/ Unanswered(c) \/ Refused(c) \/ GivenUp(c) PROVE ModesInv'
  BY <1>0, <1>5, Outcomes, OutcomeKeepsModes
<1> QED
  BY <1>1, <1>2, <1>3, <1>4, <1>5 DEF Next

\* A call ends with an outcome of its own.
LEMMA EndsOutcome ==
    ASSUME ModesInv, Next, NEW c \in Callers, Ends(c)
    PROVE  \E k : /\ Outcome(c, k) /\ Running(c)
                 /\ call'[c].result = k.result /\ call'[c].read = k.read
<1>1. PICK d \in Callers :
        \/ GetOperationMode(d) \/ SetOperationMode(d) \/ WriteEcoMode(d)
        \/ Answered(d) \/ Unanswered(d) \/ Refused(d) \/ GivenUp(d)
  BY DEF Next
<1>2. CASE GetOperationMode(d) \/ SetOperationMode(d) \/ WriteEcoMode(d)
  <2>1. PICK mode, script : Begin(d, mode, script)
    BY <1>2 DEF GetOperationMode, SetOperationMode, WriteEcoMode
  <2>2. ~Running(d) /\ call' = [call EXCEPT ![d] = Call(mode, script)] /\ call \in [Callers -> Calls]
    BY <2>1 DEF Begin, ModesInv, DaysInv, TypeOK
  <2>3. c # d
    BY <2>2 DEF Ends
  <2>4. call'[c] = call[c]
    BY <2>2, <2>3
  <2> QED
    BY <2>4 DEF Ends, Running
<1>3. CASE Answered(d) \/ Unanswered(d) \/ Refused(d) \/ GivenUp(d)
  <2>1. PICK k : Outcome(d, k)
    BY <1>3, Outcomes
  <2>2. c # d => (Running(c)' <=> Running(c))
    BY <2>1, OutcomeCalls
  <2>3. c = d
    BY <2>2 DEF Ends
  <2>4. k.result # "running" /\ call'[c] = Left(k)
    BY <2>1, <2>3, OutcomeCalls DEF Ends
  <2>5. Left(k).result = k.result /\ Left(k).read = k.read
    BY <2>4 DEF Left, Idle
  <2> QED
    BY <2>1, <2>3, <2>4, <2>5 DEF Ends
<1> QED
  BY <1>1, <1>2, <1>3

-----------------------------------------------------------------------------
(* Theorems *)

\* For any callers and calls: registers and calls keep their types, and a caller that
\* is about to write the register of a switch holds the days of its group
\* unless another one changed the days since it read them.
THEOREM DaysInvHolds == Spec => []DaysInv
  BY InitInv, StepInv, PTL DEF Spec

\* For any callers and calls: the days of a group change only by writing the group,
\* or by a caller that read its switch before another one changed the days.
THEOREM DaysAreKept == Spec => DaysKept
<1>1. DaysInv /\ [Next]_vars =>
        [DaysOf(inverter') # DaysOf(inverter) =>
           \E c \in Callers : Running(c) /\ (Head(call[c].script).op = "write group" \/ overtaken[c])]_vars
  <2> SUFFICES ASSUME DaysInv, Next, DaysOf(inverter') # DaysOf(inverter)
               PROVE  \E c \in Callers : Running(c) /\ (Head(call[c].script).op = "write group" \/ overtaken[c])
    OBVIOUS
  <2>1. PICK c \in Callers : Answered(c) \/ Unanswered(c)
    BY DEF Next, GetOperationMode, SetOperationMode, WriteEcoMode, Begin, Refused, GivenUp
  <2>2. Running(c) /\ inverter' = CarriedOut(inverter, Head(call[c].script), call[c].held)
    BY <2>1 DEF Answered, Unanswered
  <2> QED
    BY <2>2, CallFacts, DaysTouched
<1> QED
  BY <1>1, DaysInvHolds, PTL DEF Spec, DaysKept

\* For any callers, calls and families: a change plans nothing else than its mode
\* requires, owes what it has not written yet, and counts the writers it overlaps.
THEOREM ModesInvariance == Spec => []ModesInv
  BY InitModes, StepModes, PTL DEF Spec

\* For any callers, calls and families: a change of mode that no other writing call
\* overlapped and that succeeds leaves the registers as the mode requires, for it
\* then owes nothing.
THEOREM ChangesHold == Spec => SuccessfulChangeHolds
<1> DEFINE Holds(c) ==
      Succeeds(c) /\ Sets(c) /\ others[c] = 0 =>
        LET mode == call[c].mode IN
            /\ inverter'.work = IF mode \in Emulated THEN ECO ELSE mode
            /\ inverter'.offline = (IF mode = OFF_GRID THEN 1 ELSE 0)
            /\ mode \in Emulated => /\ inverter'.first \in {Kind(mode, 0), Kind(mode, 100)}
                                    /\ \A n \in OtherGroups : ~inverter'.switch[n].on
<1>1. ASSUME ModesInv, Next, NEW c \in Callers, Succeeds(c), Sets(c), others[c] = 0
      PROVE  /\ inverter'.work = WorkOf(call[c].mode) /\ inverter'.offline = OfflineOf(call[c].mode)
             /\ call[c].mode \in Emulated => /\ inverter'.first \in Kinds(call[c].mode)
                                             /\ \A n \in OtherGroups : ~inverter'.switch[n].on
  <2>1. PICK k : Outcome(c, k) /\ Running(c) /\ call'[c].result = k.result
    BY <1>1, EndsOutcome DEF Succeeds
  <2>2. Running(c) /\ k.result = "done"
    BY <1>1, <2>1 DEF Succeeds
  <2>3. Owes(call[c].script, inverter, call[c].mode)
    BY <1>1, <2>2 DEF ModesInv, ChangeInv
  <2>4. Owes(<<>>, inverter', call[c].mode)
    BY <1>1, <2>1, <2>2, <2>3 DEF Outcome
  <2> QED
    BY <2>4 DEF Owes, Asks, WritesFirst
<1>2. ModesInv /\ [Next]_vars => [\A c \in Callers : Holds(c)]_vars
  BY <1>1 DEF WorkOf, OfflineOf, Kinds
<1> QED
  BY <1>2, ModesInvariance, PTL DEF Spec, SuccessfulChangeHolds

\* For any callers, calls and families: while a change is under way that no other
\* writing call overlaps, the mode in force is the old one or the one asked for.
THEOREM NoThirdMode == Spec => []NeverThirdMode
<1>1. ModesInv => NeverThirdMode
  <2> SUFFICES ASSUME ModesInv, NEW c \in Callers, Writes(c), Sets(c), others[c] = 0
               PROVE  Cardinality(seen[c] \ AskedFor(call[c].mode)) <= 1
    BY DEF NeverThirdMode, AskedFor
  <2>1. PICK mode : seen[c] \subseteq AskedFor(call[c].mode) \union {mode}
    BY DEF ModesInv, ChangeInv, Writes
  <2>2. seen[c] \ AskedFor(call[c].mode) \subseteq {mode}
    BY <2>1
  <2>3. IsFiniteSet({mode}) /\ Cardinality({mode}) = 1
    BY FS_Singleton
  <2>4. IsFiniteSet(seen[c] \ AskedFor(call[c].mode)) /\ Cardinality(seen[c] \ AskedFor(call[c].mode)) <= 1
    BY <2>2, <2>3, FS_Subset
  <2> QED
    BY <2>4
<1> QED
  BY <1>1, ModesInvariance, PTL

\* For any callers, calls and families: get_operation_mode answers None or a mode in
\* force at some moment of the call, if at most one other call changed modes
\* meanwhile.
THEOREM ModesAnswered == Spec => AnswersAModeInForce
<1> DEFINE Answers(c) ==
      Succeeds(c) /\ call[c].mode = GET /\ others[c] <= 1 => Mode(call'[c].read) \in seen[c] \union {Unknown}
<1>1. ASSUME ModesInv, Next, NEW c \in Callers, Succeeds(c), call[c].mode = GET, others[c] <= 1
      PROVE  Mode(call'[c].read) \in seen[c] \union {Unknown}
  <2>1. PICK k : Outcome(c, k) /\ Running(c) /\ call'[c].result = k.result /\ call'[c].read = k.read
    BY <1>1, EndsOutcome DEF Succeeds
  <2>2. Running(c) /\ k.result = "done" /\ call'[c].read = k.read
    BY <1>1, <2>1 DEF Succeeds
  <2>3. Mode(inverter) \in seen[c] /\ ReadingInv(c)
    BY <1>1, <2>2 DEF ModesInv
  <2>4. \/ k.read = Nothing
        \/ inverter.work # ECO /\ k.read.work = inverter.work
        \/ /\ call[c].script = <<ReadFirst>>
           /\ k.read = [work |-> call[c].read.work, first |-> inverter.first]
    BY <1>1, <2>1, <2>2 DEF Outcome
  <2>5. CASE k.read = Nothing
    BY <2>2, <2>5, ModeNumbers DEF Nothing, Mode
  <2>6. CASE inverter.work # ECO /\ k.read.work = inverter.work
    BY <2>2, <2>3, <2>6 DEF Mode
  <2>7. CASE /\ call[c].script = <<ReadFirst>>
             /\ k.read = [work |-> call[c].read.work, first |-> inverter.first]
    <3>1. call[c].read.work = ECO /\ EcoOrSeen(c)
      BY <1>1, <2>3, <2>7, Single DEF ReadingInv
    <3>2. k.read = [work |-> ECO, first |-> inverter.first]
      BY <2>7, <3>1
    <3>3. inverter.work = ECO => Mode(k.read) = Mode(inverter)
      BY <3>2 DEF Mode
    <3> QED
      BY <2>2, <2>3, <3>1, <3>2, <3>3 DEF EcoOrSeen
  <2> QED
    BY <2>4, <2>5, <2>6, <2>7
<1>2. ModesInv /\ [Next]_vars => [\A c \in Callers : Answers(c)]_vars
  BY <1>1
<1> QED
  BY <1>2, ModesInvariance, PTL DEF Spec, AnswersAModeInForce
=============================================================================
