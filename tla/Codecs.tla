------------------------------- MODULE Codecs -------------------------------
(***************************************************************************)
(* The stateless algorithms of the library put to the test: frames and     *)
(* their validators, values of settings, registers of the time-of-use      *)
(* schedule, groups of the battery schedule, labels and tables.  "input"   *)
(* is what an algorithm is given; the properties compare what it does with *)
(* what its inverse, its reference or its neighbour on the same register   *)
(* does.                                                                   *)
(***************************************************************************)
EXTENDS ModbusFrames, Aa55Frames, Schedules, TimeOfUse, RegisterTables, FiniteSets

CONSTANTS
    Commands,     \* Modbus commands, with the answers to them
    Fill,         \* bytes an inverter's registers hold
    Payloads,     \* payloads of AA55 answers
    Aa55Types,    \* types of AA55 answers
    Parts,        \* values of a setting's words
    Registers,    \* contents of a register
    Powers, Socs  \* powers and states of charge the eco modes are set to

\* The commands the library can be asked for: the number of bytes in an answer, and of
\* those in a multiple write, is one byte; a single value may be any number.
Buildable(k) ==
    /\ k.offset \in Word
    /\ \/ k.value \in 0..127 /\ k = ReadCommand(k.offset, k.value)
       \/ k.value \in Int /\ k = WriteCommand(k.offset, k.value)
       \/ k.data \in Seq(Byte) /\ Len(k.data) <= 255 /\ k = WriteMultiCommand(k.offset, k.data)

\* What the wire and the library allow: bytes and registers; the types of AA55 answers,
\* all written down in es.py, have the sign bit clear; powers and states of charge
\* are percentages (set_operation_mode refuses others).
ASSUME FramesAssumption ==
    /\ \A k \in Commands : Buildable(k)
    /\ Fill \subseteq Byte
    /\ \A payload \in Payloads : payload \in Seq(Byte) /\ Len(payload) <= 255
    /\ \A type \in Aa55Types : type \in Nat /\ type < 32768
ASSUME ValuesAssumption ==
    /\ Parts \subseteq Int /\ Registers \subseteq Word
    /\ Powers \subseteq 0..100 /\ Socs \subseteq 0..100

VARIABLE input

Empty == [of |-> "nothing"]
ADDRESS == 247
TX == 1

Readings ==
    UNION {{r[name] : name \in DOMAIN r} : r \in {EtReadings, DtReadings, HcaReadings, EsReadings}}

Init == input = Empty

(***************************************************************************)
(* The answer to one command, or the failure the inverter reports instead, *)
(* comes while another one awaits its own; and it comes in two pieces.     *)
(***************************************************************************)
AnswerArrives ==
    /\ input = Empty
    /\ \E sent \in Commands, awaited \in Commands, fill \in Fill, refused \in BOOLEAN :
         input' = [of |-> "answer", sent |-> sent, awaited |-> awaited, fill |-> fill, refused |-> refused]
PieceArrives ==
    /\ input = Empty
    /\ \E sent \in {k \in Commands : k.cmd = READ}, fill \in Fill :
         \E n \in 0..(2 * sent.value + 9) :
            input' = [of |-> "piece", sent |-> sent, fill |-> fill, n |-> n]
Aa55AnswerArrives ==
    /\ input = Empty
    /\ \E type \in Aa55Types, awaited \in Aa55Types, payload \in Payloads :
         \E n \in 0..(Len(payload) + 9) :
            input' = [of |-> "aa55", type |-> type, awaited |-> awaited, payload |-> payload, n |-> n]
\* A value is in the registers of a sensor, of any kind that is a number; or one is
\* written to a setting of one byte.
ValueHeld ==
    /\ input = Empty
    /\ \E kind \in DOMAIN Kinds : \E value \in [1..Kinds[kind].words -> Parts] :
         input' = [of |-> "number", kind |-> kind, value |-> value]
HalfWritten ==
    /\ input = Empty
    /\ \E half \in {"H", "L"}, value \in -129..128, register \in Registers :
         input' = [of |-> "half", half |-> half, value |-> value, register |-> register]
\* A time-of-use register is written, or found holding something.
TimeWritten ==
    /\ input = Empty
    /\ \E h \in -1..24, m \in -1..60 : input' = [of |-> "time", hours |-> h, minutes |-> m]
WorkWeekWritten ==
    /\ input = Empty
    /\ \E mode \in Byte, days \in SUBSET (0..6) : input' = [of |-> "week", mode |-> mode, days |-> days]
MonthsWritten ==
    /\ input = Empty
    /\ \E months \in SUBSET (0..11) : input' = [of |-> "months", months |-> months]
RegisterFound ==
    /\ input = Empty
    /\ \E register \in Word : input' = [of |-> "register", register |-> register]
\* An eco mode is set on a group last read as "current".
EcoModeSet ==
    /\ input = Empty
    /\ \E current \in ScheduleType, is745 \in BOOLEAN, power \in Powers, soc \in Socs :
         input' = [of |-> "eco", current |-> current, is745 |-> is745, power |-> power, soc |-> soc]
\* Two registers are shown as a label.
LabelShown ==
    /\ input = Empty
    /\ \E high \in Registers, low \in Registers : input' = [of |-> "label", high |-> high, low |-> low]
\* A table is filled from what was read for it.
TableRead ==
    /\ input = Empty
    /\ \E reading \in Readings : input' = [of |-> "table", reading |-> reading]
\* The settings of an inverter are complete.
SettingsKnown ==
    /\ input = Empty
    /\ \E family \in DOMAIN SettingsOf : input' = [of |-> "settings", family |-> family]

Next ==
    \/ AnswerArrives \/ PieceArrives \/ Aa55AnswerArrives
    \/ ValueHeld \/ HalfWritten
    \/ TimeWritten \/ WorkWeekWritten \/ MonthsWritten \/ RegisterFound
    \/ EcoModeSet \/ LabelShown \/ TableRead \/ SettingsKnown
vars == input
Spec == Init /\ [][Next]_vars

-----------------------------------------------------------------------------
(* Frames *)

RtuAnswer(k, fill) == Rtu(ADDRESS, AnswerPdu(RtuRequestPdu(RtuRequest(ADDRESS, k)), fill))
TcpAnswer(k, fill) == Tcp(TX, ADDRESS, AnswerPdu(TcpRequestPdu(TcpRequest(TX, ADDRESS, k)), fill))
RtuFailure(k, code) == Rtu(ADDRESS, ExceptionPdu(RtuRequestPdu(RtuRequest(ADDRESS, k)), code))
TcpFailure(k, code) == Tcp(TX, ADDRESS, ExceptionPdu(TcpRequestPdu(TcpRequest(TX, ADDRESS, k)), code))

\* The answer to a read says how many registers it has, one to a write is an echo.
SameParameters(j, k) ==
    IF j.cmd = READ THEN j.value = k.value ELSE j.value % 65536 = k.value % 65536 /\ j.offset = k.offset
\* The value of an echo is read back as a signed number.
EchoReadable(j, k) == j.cmd # READ => k.value \in -32768..32767

\* The answer to a command is accepted for exactly the commands it cannot be told
\* from: reads of as many registers, writes of the same value to the same register.
\* Values from 0x8000 given as unsigned numbers, or wider than a register, are the
\* exception: their own answer is refused.
AnswersToldApart ==
    input.of = "answer" /\ ~input.refused =>
        LET j == input.sent
            k == input.awaited
            acceptable == j.cmd = k.cmd /\ SameParameters(j, k) /\ EchoReadable(j, k)
        IN  /\ RtuVerdict(RtuAnswer(j, input.fill), k) = Good <=> acceptable
            /\ TcpVerdict(TcpAnswer(j, input.fill), k) = Good <=> acceptable

\* A command is rejected with a failure code only on the inverter's word, except
\* that the late answer to another kind of command with the same parameters
\* passes for one: a read of as many registers as the value awaited, a write of
\* the value to the register awaited.  The inverter's word always reaches the caller.
RejectionsAreTheInverters ==
    input.of = "answer" =>
        LET j == input.sent
            k == input.awaited
            mistaken == j.cmd # k.cmd /\ SameParameters(j, k) /\ EchoReadable(j, k)
        IN  IF input.refused
            THEN /\ RtuVerdict(RtuFailure(j, input.fill), k) = Rejected(input.fill)
                 /\ TcpVerdict(TcpFailure(j, input.fill), k) = Rejected(input.fill)
            ELSE /\ RtuVerdict(RtuAnswer(j, input.fill), k)[1] = "rejected" <=> mistaken
                 /\ TcpVerdict(TcpAnswer(j, input.fill), k)[1] = "rejected" <=> mistaken

\* A piece of the answer to a read is either dropped whole, while too short to tell,
\* or kept with the number of bytes that are missing, which is exactly what is
\* missing; it is never taken for the answer or for a failure.
PiecesAddUp ==
    input.of = "piece" =>
        LET k == input.sent
            rtu == RtuAnswer(k, input.fill)
            tcp == TcpAnswer(k, input.fill)
            Judged(n, whole, tooShort, verdict) ==
                n < whole => verdict = IF n <= tooShort THEN Bad ELSE Partial(whole - n)
        IN  /\ Judged(input.n, Len(rtu.bytes), 4, RtuVerdict(First(input.n, rtu), k))
            /\ Judged(input.n, Len(tcp.bytes), 8, TcpVerdict(First(input.n, tcp), k))

\* An AA55 answer is accepted when it is whole and of the type awaited, its payload
\* is then what was sent, and a piece says what is missing.  The sum is read as
\* a signed number, so that the answer must not add up to 0x8000.
Aa55AnswersJudged ==
    input.of = "aa55" =>
        LET d == Answer(input.type, input.payload)
            verdict == Aa55Verdict(SubSeq(d, 1, input.n), input.awaited)
            addsUp == SumOf(SubSeq(d, 1, Len(d) - 2)) < 32768
        IN  /\ input.n = Len(d) =>
                 verdict = IF input.type = input.awaited /\ addsUp THEN Good ELSE Bad
            /\ verdict = Good => Aa55Payload(SubSeq(d, 1, input.n)) = input.payload
            /\ input.n < Len(d) => verdict = IF input.n <= 8 THEN Bad ELSE Partial(Len(d) - input.n)

\* Every AA55 request the ES family makes of a setting announces as many bytes as
\* it carries: reads, writes of a register, the 8 bytes of a schedule group.
\* A register with the sign bit set, like one with an enabled switch, is
\* never sent: its text has a minus sign.
Aa55RequestsAnnounced ==
    input.of = "half" =>
        LET written == EncodeHalf(input.half, input.value, input.register)
            request == Aa55Write(1800, Signed16(written[2]))
            byte == Lo(input.register)
        IN  /\ AnnouncesItsPayload(Aa55Read(1800, 1)) /\ AnnouncesItsPayload(Aa55Read(1797, 4))
            /\ AnnouncesItsPayload(Aa55WriteMulti(1797, [i \in 1..8 |-> byte]))
            /\ written # OverflowError =>
                 IF written[2] < 32768
                 THEN AnnouncesItsPayload(request[2]) /\ SubSeq(request[2], 11, 12) = <<Hi(written[2]), Lo(written[2])>>
                 ELSE request = ValueError

\* The frames of the ES family agree with what they say of themselves, answers and
\* requests (protocol.py:467-580).
Aa55FramesAgree == Aa55AnswersJudged /\ Aa55RequestsAnnounced

-----------------------------------------------------------------------------
(* Numbers and settings *)

\* A number given to a setting is what is read from its registers then, unless it is
\* the pattern for nothing there, or is counted in hundredths and came out one
\* nearer to zero; what does not fit raises.
ReadAs(k, value) ==
    {value} \union (IF k.scale = 100 THEN {[value EXCEPT ![1] = TowardsZero(@)]} ELSE {})
KeptByWriting(k, value) ==
    LET held == Encode(k, value)
    IN  IF Fits(k, value) \/ (k.scale = 100 /\ held # OverflowError)
        THEN k.signed \/ held[2] # AllOnes(k) => Read(k, held[2]) \in ReadAs(k, value)
        ELSE held = OverflowError

\* Numbers are kept when they are written, boundaries of every kind and whatever was
\* read from a register before: int(float(value) * scale), sensor.py:448, 1038,
\* 1059, 1064, loses no tenth, and of hundredths one at most.  A setting of one byte
\* leaves the other half of its register as it was.  A temperature is a signed
\* number or missing.
NumbersReadBack ==
    /\ input.of = "number" => KeptByWriting(Kinds[input.kind], input.value)
    /\ input.of = "register" =>
         /\ \A kind \in Writable : KeptByWriting(Kinds[kind], Read(Kinds[kind], <<input.register>>))
         /\ ReadTemp(input.register) \in {None, Read(Kinds.IntegerS, <<input.register>>)}
    /\ input.of = "half" =>
         LET written == EncodeHalf(input.half, input.value, input.register)
             other == IF input.half = "H" THEN "L" ELSE "H"
         IN  IF input.value \in -128..127
             THEN /\ ReadHalf(input.half, written[2]) = input.value
                  /\ ReadHalf(other, written[2]) = ReadHalf(other, input.register)
             ELSE written = OverflowError

\* The peak shaving switch of register 47591 (values 0xFC00 and 0x0300) and the work
\* week of slot 8 are two views of one register: the switch is on exactly in
\* the peak shaving mode, whatever the days, switching it makes the work week's
\* mode follow, and both views fail together on an unset register.  But the switch
\* writes the whole register (sensor.py:383): it clears the days of slot 8.
SwitchAgreesWithWorkWeek(r) ==
    LET switch == ReadSwitch(64512, 768, r)
        Switched(on) == DecodeWorkWeek(EncodeSwitch(64512, 768, on))
    IN  /\ switch = TypeError <=> ReadWorkWeek(r) = TypeError
        /\ switch = Value(TRUE) <=> r # 65535 /\ DecodeWorkWeek(r).mode = WorkWeekMode.PEAK_SHAVING_ENABLE
        /\ Switched(TRUE) = [mode |-> WorkWeekMode.PEAK_SHAVING_ENABLE, known |-> TRUE, days |-> {}]
        /\ Switched(FALSE) = [mode |-> WorkWeekMode.PEAK_SHAVING_DISABLE, known |-> TRUE, days |-> {}]

\* What the encoders of the time-of-use registers accept is read back as it was
\* given, and what they refuse is out of range.  Going the other way, a register
\* read as a valid time, mode or set of months is written back as it was found,
\* but for the bits no name stands for.  The days and months of a schedule
\* group (sensor.py) and those of a register (tou_helpers.py) are the same, and
\* the peak shaving switch agrees with the mode of the work week.
TimeOfUseReadsBack ==
    /\ input.of = "time" =>
         LET written == EncodeTime(input.hours, input.minutes)
         IN  IF input.hours \in 0..23 /\ input.minutes \in 0..59
             THEN ReadTimeOfDay(written[2]) = Value(<<input.hours, input.minutes>>)
             ELSE written = ValueError
    /\ input.of = "week" =>
         LET written == EncodeWorkWeek(input.mode, input.days)
         IN  IF input.mode \in ModeBytes
             THEN ReadWorkWeek(written[2]) = Value([mode |-> input.mode, known |-> TRUE, days |-> input.days])
             ELSE written = ValueError
    /\ input.of = "months" => ReadMonthMask(EncodeMonths(input.months)[2]) = Value(input.months)
    /\ input.of = "register" =>
         LET r == input.register
             week == DecodeWorkWeek(r)
         IN  /\ EncodeTime(Hi(r), Lo(r)) # ValueError => EncodeTime(Hi(r), Lo(r))[2] = r
             /\ week.known => EncodeWorkWeek(week.mode, week.days)[2] \in {r, r - 128}
             /\ EncodeMonths(DecodeMonths(r))[2] = r % 4096
             /\ ~DaysRaise(Lo(r) % 128) /\ DaysOfWeek(Lo(r) % 128) = week.days
             /\ ~MonthsRaise(r % 4096)
             /\ r % 4096 # 4095 => Months(r % 4096) = DecodeMonths(r)
             /\ SwitchAgreesWithWorkWeek(r)

-----------------------------------------------------------------------------
(* Groups of the battery schedule *)

\* Whatever kind of group was there before, the group an eco mode writes can be
\* read, is recognised as charging or discharging unless the power is zero, shows
\* the power that was asked for with its sign, and is of a flavour of eco mode;
\* so can the group that switches off.
GroupsReadBack ==
    input.of = "eco" =>
        LET p == input.power
            t == SetType(input.current, ECO_MODE, input.is745)
            charge == Charge(t, p, input.soc)
            discharge == Discharge(t, p)
            Shows(g, power) ==
                /\ EncodeGroup(g, 2) = Value(g)
                /\ DetectType(g.on_off) = t
                /\ DecodePower(t, g.power) = power
            off == Off(t)
        IN  /\ t \in {ECO_MODE, ECO_MODE_745}
            /\ Shows(charge, -p) /\ Shows(discharge, p)
            /\ IsCharge(charge) <=> p # 0
            /\ IsDischarge(discharge) <=> p # 0
            /\ ~IsDischarge(charge) /\ ~IsCharge(discharge)
            /\ EncodeGroup(off, 2) = Value(off) /\ ~IsOn(off) /\ DetectType(off.on_off) = t
            /\ EncodeGroup(ChargeV1(p), 1) = Value(ChargeV1(p)) /\ (IsChargeV1(ChargeV1(p)) <=> p # 0)
            /\ EncodeGroup(DischargeV1(p), 1) = Value(DischargeV1(p)) /\ (IsDischargeV1(DischargeV1(p)) <=> p # 0)
            /\ EncodeGroup(OffV1, 1) = Value(OffV1) /\ ~IsChargeV1(OffV1) /\ ~IsDischargeV1(OffV1)

-----------------------------------------------------------------------------
(* Values of two registers, and tables *)

\* Two values of two registers are put together by hand.  A label made of two registers
\* (sensor.py:548) is that of the four-byte bitmap exactly when the low register is
\* clear, or when both are unset; with any fault of the low register set it is
\* another one.  grid_in_out (et.py:72), which reads the high register only, is
\* right exactly for powers too small to count or beyond 90 * 65536 W.
WideValuesRead ==
    input.of = "label" =>
        LET power == Signed16(input.high) * 65536 + input.low
            unset == input.high = 65535 /\ input.low = 65535
        IN  /\ ReadBitmap22(input.high, input.low) = ReadBitmap4(input.high, input.low) <=>
                  unset \/ (input.low = 0 /\ input.high # 65535)
            /\ GridInOut(input.high, input.low) = GridMode(power) <=>
                  power \in -90..89 \/ Signed16(input.high) \notin -90..89

\* Four tables of the ET family miss their blocks, each with the sensors named here
\* (time-of-use slots, a second battery, parallel units, apparent power); every
\* other sensor of the four families is inside.
OnlyKnownSensorsOutside ==
    input.of = "table" =>
        {s.at : s \in Outside(input.reading)} =
            CASE input.reading = EtReadings.running -> 47547..47594
              [] input.reading = EtReadings.battery2_basic -> {35262, 35263, 35264, 35266}
              [] input.reading = EtReadings.parallel -> 10485..10499
              [] input.reading = EtReadings.mppt -> {35361, 35363}
              [] OTHER -> {}

\* Two settings of one inverter share registers only where a switch shares the
\* register of on_off and days with its schedule group (the last of V1's four,
\* the third of V2's six), and where the peak shaving switch is the work week of
\* slot 8 (et.py:729, 752): a write of no other setting changes another one.
OnlySwitchesShareRegisters ==
    input.of = "settings" =>
        \A s, t \in SettingsOf[input.family] :
            s # t /\ s.words >= t.words /\ Overlap(s, t) =>
                \/ <<s.words, t.words, t.at - s.at>> \in {<<4, 1, 3>>, <<6, 1, 2>>}
                \/ {s, t} = {PeakShavingSwitch, Sensor(47591, 1)}

\* What a slave cannot access is told by the first register of a setting or sensor,
\* which is as good as asking for all of its registers.
RestrictionSplitsNothing ==
    \A s \in (IF input.of = "settings" THEN SettingsOf[input.family] ELSE {})
            \union (IF input.of = "table" THEN input.reading.table ELSE {}) :
        SlaveRestricted(s) <=> Span(s) \intersect RestrictedRegisters # {}

\* The tables at the head of the family modules fit the blocks that fill them, each
\* other and the restrictions of a slave (et.py:882-904).
TablesAgree == OnlyKnownSensorsOutside /\ OnlySwitchesShareRegisters /\ RestrictionSplitsNothing
=============================================================================
