------------------------------ MODULE Sensors ------------------------------
(***************************************************************************)
(* What a sensor reads from its registers and what a setting writes to     *)
(* them (goodwe/sensor.py).  A value is counted in units of its register   *)
(* (a voltage in tenths of a volt): the reader divides by the scale, which *)
(* loses nothing, the writer multiplies and truncates, which may.  A value *)
(* wider than a register is the sequence of its words, the first one       *)
(* signed if the value is.                                                 *)
(***************************************************************************)
EXTENDS Words, Sequences

\* None, of a value that is a sequence of words.
None == <<>>

-----------------------------------------------------------------------------
(* The kinds of numeric sensors: how many registers, read as signed or not, *)
(* what registers of all ones stand for, and the scale of those that are     *)
(* written.                                                                  *)

Kind(words, signed, allOnes, scale) ==
    [words |-> words, signed |-> signed, allOnes |-> allOnes, scale |-> scale]
Unsigned(words, allOnes) == Kind(words, FALSE, allOnes, 1)
Signed(words) == Kind(words, TRUE, "minus one", 1)

Kinds == [Voltage |-> Kind(1, FALSE, "zero", 10), Current |-> Kind(1, FALSE, "zero", 10),
          CurrentS |-> Kind(1, TRUE, "minus one", 10), Frequency |-> Signed(1),
          Power |-> Unsigned(1, "none"), PowerS |-> Signed(1),
          Energy |-> Unsigned(1, "none"), Apparent |-> Signed(1), Reactive |-> Signed(1),
          CellVoltage |-> Unsigned(1, "zero"), Integer |-> Unsigned(1, "zero"), IntegerS |-> Signed(1),
          Decimal10 |-> Kind(1, TRUE, "minus one", 10), Decimal100 |-> Kind(1, TRUE, "minus one", 100),
          Power4 |-> Unsigned(2, "none"), Power4S |-> Signed(2),
          Energy4 |-> Unsigned(2, "none"), Energy4W |-> Unsigned(2, "none"),
          Energy8 |-> Unsigned(4, "none"), Apparent4 |-> Signed(2),
          Reactive4 |-> Signed(2), Long |-> Unsigned(2, "zero"), LongS |-> Signed(2)]
Writable == {"Voltage", "Current", "CurrentS", "Integer", "IntegerS", "Decimal10", "Decimal100"}

\* read_bytes2 .. read_bytes8, signed or not, and the readers built on them.
AllOnes(k) == [i \in 1..k.words |-> 65535]
Read(k, words) ==
    CASE k.signed -> [words EXCEPT ![1] = Signed16(@)]
      [] ~k.signed /\ words # AllOnes(k) -> words
      [] OTHER -> IF k.allOnes = "none" THEN None ELSE [i \in 1..k.words |-> 0]

\* read_temp: two patterns of a missing sensor.
ReadTemp(register) == IF register \in {32767, 65535} THEN None ELSE <<Signed16(register)>>

-----------------------------------------------------------------------------
(* Writing: int(float(value) * scale), of the float v nearest to n / scale.  *)
(* With 2^k the power of two below n and 2^(k - h) the one below v, v is     *)
(* n * 2^p \div scale units of 2^(-p), where p = 52 - k + h.  If the division *)
(* leaves something, and that is more than half a unit in the last place of  *)
(* n, the product comes out below n and int() takes the number before it.    *)

TowardsZero(n) == CASE n > 0 -> n - 1 [] n < 0 -> n + 1 [] OTHER -> 0
Magnitude(n) == IF n < 0 THEN -n ELSE n

\* n * 2^p modulo the scale, in numbers of 32 bits.
Left(n, p, scale) ==
    ((n % scale) * (((2^(p \div 2) % scale) * (2^(p - p \div 2) % scale)) % scale)) % scale
FallsShort(n, scale) ==
    \E k \in 0..16 :
        /\ 2^k <= n /\ n < 2 * 2^k
        /\ \E h \in 0..7 :
              /\ scale * 2^k <= n * 2^h /\ n * 2^h < 2 * scale * 2^k
              /\ 2 * Left(n, 52 - k + h, scale) < scale
              /\ 2 * Left(n, 52 - k + h, scale) > 2^h
Truncated(n, scale) == IF FallsShort(Magnitude(n), scale) THEN TowardsZero(n) ELSE n

\* int.to_bytes raises OverflowError for what does not fit.
SignedWord == -32768..32767
FirstWord(k) == IF k.signed THEN SignedWord ELSE Word
Fits(k, value) ==
    /\ Len(value) = k.words
    /\ value[1] \in FirstWord(k)
    /\ \A i \in 2..k.words : value[i] \in Word
ToBytes(k, value) == IF Fits(k, value) THEN Value([value EXCEPT ![1] = @ % 65536]) ELSE OverflowError
Encode(k, value) == ToBytes(k, [value EXCEPT ![1] = Truncated(@, k.scale)])

\* A setting of one byte gets the register as it was read before and replaces
\* its half; the other half is read by the setting's sibling.
\* Mutant of EncodeHalf: the other half is cleared.
EncodeHalfAlone(half, value, register) ==
    IF value \notin -128..127 THEN OverflowError
    ELSE Value(IF half = "H" THEN U16(value % 256, 0) ELSE value % 256)
EncodeHalf(half, value, register) ==
    IF value \notin -128..127 THEN OverflowError
    ELSE Value(IF half = "H" THEN U16(value % 256, Lo(register)) ELSE U16(Hi(register), value % 256))
ReadHalf(half, register) == Signed8(IF half = "H" THEN Hi(register) ELSE Lo(register))

\* SwitchValue: only the high bytes are compared when neither value has a low
\* one.  All-ones registers are None, which cannot be shifted.
ReadSwitch(on, off, register) ==
    IF Lo(on) = 0 /\ Lo(off) = 0
    THEN IF register = 65535 THEN TypeError ELSE Value(Hi(register) = Hi(on))
    ELSE Value(register = on)
EncodeSwitch(on, off, value) == IF value THEN on ELSE off

-----------------------------------------------------------------------------
(* Labels of bitmaps: the positions decode_bitmap names, at most 32. *)

ShownBits(positions) == positions \intersect 0..31
\* Mutant of ReadBitmap4: unset registers are all faults at once.
ReadBitmap4Unchecked(hi, lo) == ShownBits(Bits(lo) \union {i + 16 : i \in Bits(hi)})
ReadBitmap4(hi, lo) ==
    IF hi = 65535 /\ lo = 65535 THEN {} ELSE ShownBits(Bits(lo) \union {i + 16 : i \in Bits(hi)})

\* EnumBitmap22: "high << 16 + low" shifts by sixteen and the low word.
AllOnesAsZero(w) == IF w = 65535 THEN 0 ELSE w
ReadBitmap22(high, low) ==
    ShownBits({i + 16 + AllOnesAsZero(low) : i \in Bits(AllOnesAsZero(high))})

-----------------------------------------------------------------------------
(* Days of a schedule group, from its signed byte, and months, from a signed *)
(* word: bin() of a negative number has a "b" in the place of a digit, and   *)
(* every digit takes a name away.                                            *)

Digits(n) == {i \in 0..15 : n >= 2^i}
DaysRaise(bits) == bits < -1 /\ 6 \in Digits(-bits)
DaysOfWeek(bits) == IF bits = -1 THEN 0..6 ELSE Bits(Magnitude(bits))
MonthsRaise(bits) == bits > 0 /\ 12 \in Digits(bits)
Months(bits) == IF bits <= 0 \/ bits = 4095 THEN {} ELSE Bits(bits)

\* read_grid_mode
GridMode(power) == IF power < -90 THEN 2 ELSE IF power >= 90 THEN 1 ELSE 0
\* grid_in_out of the ET family reads one register at the address of the
\* active power, which has two.
GridInOut(high, low) == GridMode(Signed16(high))
=============================================================================
