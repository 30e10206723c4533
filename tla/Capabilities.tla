---------------------------- MODULE Capabilities ----------------------------
(***************************************************************************)
(* What an inverter of the ET or DT family turns out to support:           *)
(* read_device_info probes it, read_runtime_data asks for one block of     *)
(* registers after another and stops asking for those it is refused, and   *)
(* sensors() lists what a reading promises (goodwe/et.py, goodwe/dt.py).   *)
(* Calls on one object run between each other's requests: flags and tables *)
(* are read and changed when an answer has come, and the next request is   *)
(* chosen then.  read_device_info runs once, before any reading; a second  *)
(* one would set flags again that refusals have cleared (et.py:957-967).   *)
(***************************************************************************)
EXTENDS RegisterTables, Sequences, FiniteSetsExt

CONSTANTS
    Callers,
    Features,    \* the settings read_device_info probes for, in their order: of
                 \* "eco_mode_v2", "peak_shaving", "new_features", "neg_price"
    Offered,     \* sets of blocks an inverter may have
    MaxCalls     \* calls of read_runtime_data begun, all callers together

ASSUME CallsAssumption == MaxCalls \in Nat
ASSUME FeaturesAssumption ==
    Features \in Seq({"eco_mode_v2", "peak_shaving", "new_features", "neg_price"})

\* The blocks of registers in the order they are asked for; the meter's is one of three.
Order == <<"running", "battery", "battery2", "backup", "meter", "mppt", "parallel">>
MeterBlocks == {"meter2", "meter1", "meter"}
Blocks == {Order[i] : i \in 1..7} \union MeterBlocks
Registers(b) ==
    CASE b = "meter2" -> EtMeterExtended2Block
      [] b = "meter1" -> EtMeterExtendedBlock
      [] b = "meter" -> EtMeterBlock

VARIABLES
    family,      \* "ET" or "DT"
    inverter,    \* its blocks, whether it is of the 745 platform or from 15 kW up, has two batteries,
                 \* and the number of parallel units, 0 if it refuses to tell
    phase,       \* requests of read_device_info that are through, or Unusable
    flags,       \* the _has_... that are True; meter1 and meter2 are meter_extended and its 2
    settings,    \* features whose settings were added
    narrowed,    \* filters _sensors_meter went through
    topology,    \* _parallel_topology
    call,        \* each caller's call of read_runtime_data
    begun,       \* calls begun
    refused      \* history: blocks refused as an illegal data address

vars == <<family, inverter, phase, flags, settings, narrowed, topology, call, begun, refused>>

Unusable == -1
Ready == phase = Len(Features) + 2
NoCall == [next |-> "none", got |-> {}, known |-> {}, alone |-> TRUE, result |-> "idle"]
Asking(c) == call[c].result = "running"

Init ==
    /\ family \in {"ET", "DT"}
    /\ inverter \in [blocks : Offered, big : BOOLEAN, twoBatteries : BOOLEAN, units : 0..2]
    /\ phase = 0
    /\ flags = IF family = "DT" THEN {"meter"} ELSE {"eco_mode_v2", "peak_shaving", "battery", "meter", "backup"}
    /\ settings = {} /\ narrowed = {} /\ topology = "standalone"
    /\ call = [c \in Callers |-> NoCall]
    /\ begun = 0 /\ refused = {}

-----------------------------------------------------------------------------
(* read_device_info *)

\* Of the ET family: what follows from the model and the rated power.
Recognised ==
    /\ flags' = flags \union (IF inverter.twoBatteries THEN {"battery2"} ELSE {})
                      \union (IF inverter.big THEN {"mppt", "meter1", "meter2"} ELSE {})
    /\ narrowed' = IF inverter.big THEN {"reactive"} ELSE {"extended", "reactive"}

\* The DT family goes on to the meter's version, and ignores any error there.
ReadVersion ==
    /\ phase = 0
    /\ \/ family = "ET" /\ Recognised /\ phase' = 1
       \/ family = "DT" /\ phase' = Len(Features) + 2 /\ UNCHANGED <<flags, narrowed>>
       \/ phase' = Unusable /\ UNCHANGED <<flags, narrowed>>
    /\ UNCHANGED <<family, inverter, settings, topology, call, begun, refused>>

\* A feature's probe is answered, refused as an illegal address or failed, or
\* rejected for another reason, which changes nothing.
ProbeFeature ==
    /\ phase \in 1..Len(Features)
    /\ LET f == Features[phase] IN
        \/ settings' = settings \union {f} /\ flags' = flags \union {f}
        \/ flags' = flags \ {f} /\ UNCHANGED settings
        \/ UNCHANGED <<flags, settings>>
    /\ phase' = phase + 1
    /\ UNCHANGED <<family, inverter, narrowed, topology, call, begun, refused>>

\* The number of units: a refusal means a slave; a failure leaves the topology as it was.
ReadUnits ==
    /\ phase = Len(Features) + 1
    /\ \/ /\ inverter.units > 1 /\ topology' = "master" /\ flags' = flags \union {"parallel"}
          /\ phase' = phase + 1
       \/ /\ inverter.units = 1 /\ topology' = "standalone" /\ flags' = flags \ {"parallel"}
          /\ phase' = phase + 1
       \/ /\ inverter.units = 0 /\ topology' = "slave" /\ flags' = flags \union {"parallel"}
          /\ phase' = phase + 1
       \/ flags' = flags \ {"parallel"} /\ phase' = phase + 1 /\ UNCHANGED topology
       \/ phase' = Unusable /\ UNCHANGED <<flags, topology>>
    /\ UNCHANGED <<family, inverter, settings, narrowed, call, begun, refused>>

-----------------------------------------------------------------------------
(* read_runtime_data *)

\* _sensors_meter, as the filters have left it.
Meter == {s \in EtMeter : /\ "reactive" \in narrowed => NotReactiveEnergy(s)
                          /\ "extended" \in narrowed => NotExtendedMeter(s)
                          /\ "extended2" \in narrowed => NotExtendedMeter2(s)}

Place(b) == IF b \in MeterBlocks THEN 5 ELSE CHOOSE i \in 1..7 : Order[i] = b
MeterBlock(has) == IF "meter2" \in has THEN "meter2" ELSE IF "meter1" \in has THEN "meter1" ELSE "meter"
\* The block asked for after b.
Following(b, has) ==
    LET wanted == {i \in (Place(b) + 1)..7 : Order[i] \in has}
        next == Order[Min(wanted)]
    IN  IF wanted = {} THEN "none" ELSE IF next = "meter" THEN MeterBlock(has) ELSE next
\* Mutant of Fallback: the basic meter is left for the next reading.
FallbackOnce(b, has) == IF b = "meter2" THEN "meter1" ELSE Following(b, has)
\* The block asked for when b is refused.
Fallback(b, has) ==
    CASE b = "meter2" -> "meter1" [] b = "meter1" -> "meter" [] OTHER -> Following(b, has)

\* sensors(), by table.
Listed ==
    IF family = "DT" THEN {"running"} \union (flags \intersect {"meter"})
    ELSE {"running"} \union (flags \intersect {"backup", "mppt", "parallel"})
         \union (IF topology = "slave" THEN {} ELSE {"meter"} \union (flags \intersect {"battery", "battery2"}))
         \union (IF {"backup", "battery2"} \subseteq flags THEN {"battery2_basic"} ELSE {})
Table(b, has) ==
    CASE b \in MeterBlocks -> {"meter"}
      [] b = "backup" /\ "battery2" \in has -> {"backup", "battery2_basic"}
      [] OTHER -> {b}

Begin(c) ==
    /\ Ready /\ ~Asking(c) /\ begun < MaxCalls
    /\ begun' = begun + 1
    /\ call' = [d \in Callers |->
                  IF d = c THEN [next |-> "running", got |-> {}, known |-> refused,
                                 alone |-> \A e \in Callers : ~Asking(e), result |-> "running"]
                  ELSE [call[d] EXCEPT !.alone = @ /\ ~Asking(d)]]
    /\ UNCHANGED <<family, inverter, phase, flags, settings, narrowed, topology, refused>>

\* Whatever is no longer needed of a call that has ended is dropped.
Continue(c, next, got) ==
    call' = [call EXCEPT ![c] = IF next # "none" THEN [@ EXCEPT !.next = next, !.got = got]
                                ELSE [@ EXCEPT !.next = next, !.got = got, !.known = {}, !.result = "done"]]
Fail(c) == call' = [call EXCEPT ![c] = [NoCall EXCEPT !.result = "failed"]]

\* The block is there.  Among the running data is whether there is a battery.
Answered(c) ==
    LET b == call[c].next IN
        /\ Asking(c) /\ (b = "running" \/ b \in inverter.blocks)
        /\ IF b = "running" /\ family = "ET"
           THEN \E present \in BOOLEAN :
                  flags' = IF present THEN flags \union {"battery"} ELSE flags \ {"battery"}
           ELSE UNCHANGED flags
        /\ Continue(c, Following(b, flags'), call[c].got \union Table(b, flags))
        /\ UNCHANGED <<family, inverter, phase, settings, narrowed, topology, begun, refused>>

\* Mutant of Filters: the last extended sensors are left in the table.
FiltersExtended2Only(b) == IF b = "meter2" THEN {"extended2"} ELSE {}
Filters(b) == CASE b = "meter2" -> {"extended2"} [] b = "meter1" -> {"extended"} [] OTHER -> {}

\* ILLEGAL_DATA_ADDRESS: the block is not there.
\* Mutant of WithoutBlock: the extended meter is given up with its second extension.
WithoutBlockNor1(b) == IF b = "meter2" THEN flags \ {"meter1", "meter2"} ELSE flags \ {b}
\* Mutant of WithoutBlock: the first extension of the meter is asked for again.
WithoutBlockBut1(b) == IF b = "meter1" THEN flags ELSE flags \ {b}
WithoutBlock(b) == flags \ {b}
Refused(c) ==
    LET b == call[c].next IN
        /\ Asking(c) /\ b # "running" /\ b \notin inverter.blocks
        /\ flags' = WithoutBlock(b)
        /\ narrowed' = IF family = "ET" THEN narrowed \union Filters(b) ELSE narrowed
        /\ refused' = refused \union {b}
        /\ Continue(c, Fallback(b, flags'), call[c].got)
        /\ UNCHANGED <<family, inverter, phase, settings, topology, begun>>

\* Any other rejection, and a request that fails: the call fails, but the DT family
\* takes either for a missing meter.
Lost(c) ==
    /\ Asking(c)
    /\ IF family = "DT" /\ call[c].next = "meter"
       THEN flags' = flags \ {"meter"} /\ Continue(c, "none", call[c].got)
       ELSE UNCHANGED flags /\ Fail(c)
    /\ UNCHANGED <<family, inverter, phase, settings, narrowed, topology, begun, refused>>

Next ==
    \/ ReadVersion \/ ProbeFeature \/ ReadUnits
    \/ \E c \in Callers : Begin(c) \/ Answered(c) \/ Refused(c) \/ Lost(c)
Spec == Init /\ [][Next]_vars

-----------------------------------------------------------------------------
(* Properties *)

\* Whichever block of the meter's is asked for, by any of several readings, and
\* however the others narrow the table meanwhile, the block holds every sensor
\* that will be filled from it.
MeterSensorsInsideBlock == \A c \in Callers :
    family = "ET" /\ Asking(c) /\ call[c].next \in MeterBlocks =>
        \A s \in Meter : Span(s) \subseteq Registers(call[c].next)

\* What the model or the topology says an ET inverter has is given up, and its meter's
\* sensors are narrowed, only after the inverter refused it: no lost answer and no
\* other rejection costs a feature (et.py:1246, "transient errors shouldn't
\* disable features").
KeptUnlessRefused ==
    Ready /\ family = "ET" =>
        /\ {"meter", "backup"} \subseteq flags \union refused
        /\ inverter.twoBatteries => "battery2" \in flags \union refused
        /\ inverter.big => {"mppt", "meter1", "meter2"} \subseteq flags \union refused
        /\ topology # "standalone" => "parallel" \in flags \union refused
        /\ "extended2" \in narrowed => "meter2" \in refused
        /\ "extended" \in narrowed => ~inverter.big \/ "meter1" \in refused

\* A block refused before a reading began is not asked for in it ("disabling further
\* attempts", et.py:1081 and on), except the battery's, whose flag every
\* reading sets anew; it holds until read_device_info is called again, which sets the
\* flags of what it recognises.
NotAskedAgain == \A c \in Callers :
    Asking(c) => call[c].next \notin call[c].known \ {"battery"}

\* A reading that succeeds has filled every table sensors() lists at its end
\* (inverter.py, read_runtime_data), except the meter's of an ET inverter that
\* refused all its blocks, and the battery's when another reading ran beside it.
ListedSensorsDelivered == [][\A c \in Callers :
    Asking(c) /\ call'[c].result = "done" =>
        Listed' \subseteq call'[c].got
            \union (IF family = "ET" /\ "meter" \notin flags' THEN {"meter"} ELSE {})
            \union (IF call[c].alone THEN {} ELSE {"battery"})]_vars
=============================================================================
