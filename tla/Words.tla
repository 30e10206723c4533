------------------------------- MODULE Words -------------------------------
(***************************************************************************)
(* Bytes and 16-bit registers, as int.from_bytes and int.to_bytes see them *)
(* (goodwe/sensor.py, goodwe/modbus.py).                                   *)
(***************************************************************************)
EXTENDS Integers

Byte == 0..255
Word == 0..65535

Hi(v) == (v \div 256) % 256
Lo(v) == v % 256
U16(hi, lo) == 256 * hi + lo
Signed16(w) == IF w < 32768 THEN w ELSE w - 65536
Signed8(b) == IF b < 128 THEN b ELSE b - 256
S16(hi, lo) == Signed16(U16(hi, lo))

\* What a conversion answers: a value, or the exception it raises.
Value(v) == <<"value", v>>
ValueError == <<"ValueError">>
TypeError == <<"TypeError">>
IndexError == <<"IndexError">>
OverflowError == <<"OverflowError">>

\* What a validator says: True, False, PartialResponseException with the bytes
\* missing, RequestRejectedException with the failure code.
Good == <<"valid">>
Bad == <<"invalid">>
Partial(missing) == <<"partial", missing>>
Rejected(code) == <<"rejected", code>>

\* The positions of the bits set in a word.
Bits(w) == {i \in 0..15 : (w \div 2^i) % 2 = 1}
=============================================================================
