----------------------------- MODULE TimeOfUse -----------------------------
(***************************************************************************)
(* Registers of the time-of-use schedule: a time of day, a mode with days  *)
(* and a set of months (goodwe/tou_helpers.py and the sensors TimeOfDay,   *)
(* WorkWeekV2, MonthMask of goodwe/sensor.py).  Names of days and months   *)
(* are their numbers; all-ones registers reach the decoders as None.       *)
(***************************************************************************)
EXTENDS Words, Sequences, FiniteSetsExt

MaskOf(positions) == SumSet({2^i : i \in positions})

\* Reading through a sensor of these kinds: read_bytes2 first.
Guarded(register, decoded) == IF register = 65535 THEN TypeError ELSE Value(decoded)

-----------------------------------------------------------------------------
\* encode_time and decode_time: only the encoder looks at the ranges.
EncodeTime(hours, minutes) ==
    IF hours \in 0..23 /\ minutes \in 0..59 THEN Value(U16(hours, minutes)) ELSE ValueError
DecodeTime(value) == <<Hi(value), Lo(value)>>
ReadTimeOfDay(register) == Guarded(register, DecodeTime(register))

-----------------------------------------------------------------------------
\* WorkWeekMode, each enabling mode one's complement of its disabling one.
WorkWeekMode == [NOT_SET |-> 85, ECO_ENABLE |-> 255, ECO_DISABLE |-> 0,
                 DRY_CONTACT_LOAD_ENABLE |-> 254, DRY_CONTACT_LOAD_DISABLE |-> 1,
                 DRY_CONTACT_SMART_LOAD_ENABLE |-> 253, DRY_CONTACT_SMART_LOAD_DISABLE |-> 2,
                 PEAK_SHAVING_ENABLE |-> 252, PEAK_SHAVING_DISABLE |-> 3,
                 BACKUP_MODE_ENABLE |-> 251, BACKUP_MODE_DISABLE |-> 4,
                 BATTERY_POWER_PERMILLAGE |-> 249]
ModeBytes == {WorkWeekMode[m] : m \in DOMAIN WorkWeekMode}

\* encode_workweek: the mode as its number, converted as the sensor does.
EncodeWorkWeek(mode, days) ==
    IF mode \notin ModeBytes \/ ~(days \subseteq 0..6) THEN ValueError
    ELSE Value(U16(mode, MaskOf(days)))

\* Mutant of DecodeWorkWeek: six days of the week.
DecodeWorkWeekSixDays(value) ==
    [mode |-> Hi(value), known |-> Hi(value) \in ModeBytes, days |-> Bits(value % 64)]

\* decode_workweek: an unknown mode comes back as its number, bit 7 is dropped.
DecodeWorkWeek(value) ==
    [mode |-> Hi(value), known |-> Hi(value) \in ModeBytes, days |-> Bits(value % 128)]
ReadWorkWeek(register) == Guarded(register, DecodeWorkWeek(register))

-----------------------------------------------------------------------------
\* encode_months: no month at all is zero, which reads as the whole year.
EncodeMonths(months) == IF months \subseteq 0..11 THEN Value(MaskOf(months)) ELSE ValueError
DecodeMonths(value) == Bits(value % 4096)
ReadMonthMask(register) == Guarded(register, DecodeMonths(register))
=============================================================================
