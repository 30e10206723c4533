----------------------------- MODULE Schedules -----------------------------
(***************************************************************************)
(* Groups of the battery schedule: EcoModeV1 in 8 bytes, Schedule (with    *)
(* EcoModeV2 and PeakShavingMode) in 12 bytes (goodwe/sensor.py).  A group *)
(* on the wire is the record of its fields as the reader takes them from   *)
(* the bytes: hours, minutes, on_off and days signed bytes, power, soc and *)
(* months signed words.                                                    *)
(***************************************************************************)
EXTENDS Sensors

\* int(value / 10): towards zero.
Tenth(n) == IF n < 0 THEN -((-n) \div 10) ELSE n \div 10

-----------------------------------------------------------------------------
(* ScheduleType *)

ECO_MODE == 0
PEAK_SHAVING == 3
ECO_MODE_745 == 6
NOT_SET == 85
ScheduleType == 0..6 \union {NOT_SET}

\* detect_schedule_type; no type (ValueError) is -1 here.
DetectType(onOff) ==
    IF onOff \in 0..6 \union {NOT_SET} THEN onOff
    ELSE IF onOff \in -7..-1 THEN -1 - onOff ELSE -1

DecodePower(type, value) ==
    CASE type = PEAK_SHAVING -> value * 10
      [] type = ECO_MODE_745 -> Tenth(value)
      [] type = NOT_SET -> IF value \in -100..100 THEN value ELSE Tenth(value)
      [] OTHER -> value
EncodePower(type, value) ==
    CASE type = PEAK_SHAVING -> Tenth(value)
      [] type = ECO_MODE_745 -> value * 10
      [] OTHER -> value
InRange(type, power) ==
    CASE type = ECO_MODE -> power \in -100..100
      [] type = ECO_MODE_745 -> power \in -1000..1000
      [] OTHER -> TRUE

\* set_schedule_type: ECO_MODE keeps the flavour of eco mode that is there.
SetType(current, type, is745) ==
    IF type # ECO_MODE THEN type
    ELSE IF current \in {ECO_MODE, ECO_MODE_745} THEN current
    ELSE IF is745 THEN ECO_MODE_745 ELSE ECO_MODE

-----------------------------------------------------------------------------
(* Reading: the first field out of its range raises ValueError; the days and *)
(* the months raise IndexError.                                              *)

Group(sh, sm, eh, em, onOff, days, power, soc, months) ==
    [start_h |-> sh, start_m |-> sm, end_h |-> eh, end_m |-> em, on_off |-> onOff,
     day_bits |-> days, power |-> power, soc |-> soc, month_bits |-> months]

HoursOk(g, unset) == {g.start_h, g.end_h} \subseteq 0..23 \union {48} \union unset
MinutesOk(g, unset) == {g.start_m, g.end_m} \subseteq 0..59 \union unset

ReadV1(g) ==
    IF ~(HoursOk(g, {}) /\ MinutesOk(g, {}) /\ g.power \in -100..100 /\ g.on_off \in {0, -1})
    THEN ValueError
    ELSE IF DaysRaise(g.day_bits) THEN IndexError
    ELSE Value(g)

ReadSchedule(g) ==
    IF ~(HoursOk(g, {-1}) /\ MinutesOk(g, {-1})) \/ DetectType(g.on_off) \notin ScheduleType THEN ValueError
    ELSE IF DaysRaise(g.day_bits) THEN IndexError
    ELSE IF ~InRange(DetectType(g.on_off), g.power) \/ g.soc \notin 0..100 THEN ValueError
    ELSE IF MonthsRaise(g.month_bits) THEN IndexError
    ELSE Value(g)

\* encode_value hands the bytes back once they could be read.
EncodeGroup(g, version) == IF version = 1 THEN ReadV1(g) ELSE ReadSchedule(g)

-----------------------------------------------------------------------------
(* The three groups the operation modes write.                              *)

AllDay(onOff, power, soc, months) == Group(0, 0, 23, 59, onOff, 127, power, soc, months)
AllMonths(type) == IF type = ECO_MODE_745 THEN 4095 ELSE 0

ChargeV1(power) == AllDay(-1, -Magnitude(power), 100, 0)
DischargeV1(power) == AllDay(-1, Magnitude(power), 100, 0)
OffV1 == Group(48, 0, 48, 0, 0, 0, 100, 100, 0)

\* Mutant of Charge: the sign is forgotten.
ChargeUnsigned(type, power, soc) ==
    AllDay(Signed8(255 - type), EncodePower(type, power), soc, AllMonths(type))
Charge(type, power, soc) ==
    AllDay(Signed8(255 - type), -Magnitude(EncodePower(type, power)), soc, AllMonths(type))
Discharge(type, power) ==
    AllDay(Signed8(255 - type), Magnitude(EncodePower(type, power)), 100, AllMonths(type))
Off(type) == Group(48, 0, 48, 0, type, 0, EncodePower(type, 100), 100, 0)

\* is_eco_charge_mode and is_eco_discharge_mode of a group that was read.
IsAllDay(g, onOff, months) ==
    /\ <<g.start_h, g.start_m, g.end_h, g.end_m>> = <<0, 0, 23, 59>>
    /\ onOff /\ g.day_bits = 127 /\ g.month_bits \in months
IsChargeV1(g) == IsAllDay(g, g.on_off # 0, {g.month_bits}) /\ g.power < 0
IsDischargeV1(g) == IsAllDay(g, g.on_off # 0, {g.month_bits}) /\ g.power > 0
IsOn(g) == g.on_off = -1 - DetectType(g.on_off)
IsCharge(g) == IsAllDay(g, IsOn(g), {0, 4095}) /\ g.power < 0
IsDischarge(g) == IsAllDay(g, IsOn(g), {0, 4095}) /\ g.power > 0
=============================================================================
