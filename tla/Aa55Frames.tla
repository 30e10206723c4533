----------------------------- MODULE Aa55Frames -----------------------------
(***************************************************************************)
(* The AA55 protocol of the ES family (Aa55ProtocolCommand and its         *)
(* subclasses, goodwe/protocol.py): header, type, length of the payload,   *)
(* payload, and the plain sum of it all in two bytes.                      *)
(***************************************************************************)
EXTENDS Words, Sequences, SequencesExt

\* _checksum
SumOf(bytes) == FoldSeq(+, 0, bytes)
Sealed(bytes) == bytes \o <<Hi(SumOf(bytes)), Lo(SumOf(bytes))>>

-----------------------------------------------------------------------------
(* Requests: the part after the header AA 55 C0 7F is put together from     *)
(* hexadecimal digits, "{value:04x}" for a register's value: a negative one *)
(* has a sign among them, which bytes.fromhex refuses.                      *)

Request(payload) == Sealed(<<170, 85, 192, 127>> \o payload)
Aa55Read(offset, count) == Request(<<1, 26, 3, Hi(offset), Lo(offset), count>>)
Aa55Write(register, value) ==
    IF value < 0 THEN ValueError
    ELSE Value(Request(<<2, 57, 5, Hi(register), Lo(register), 1, Hi(value), Lo(value)>>))
\* The length of the payload is written down as 0B whatever "values" holds.
Aa55WriteMulti(offset, values) ==
    Request(<<2, 57, 11, Hi(offset), Lo(offset), Len(values)>> \o values)

\* What the length byte of a request announces against what follows it.
AnnouncesItsPayload(request) == request[7] = Len(request) - 9

-----------------------------------------------------------------------------
(* Answers. *)

Answer(type, payload) ==
    Sealed(<<170, 85, 127, 192, Hi(type), Lo(type), Len(payload)>> \o payload)

\* Mutant of Whole: the checksum's bytes are not counted.
WholeUnsealed(d) == d[7] + 7
Whole(d) == d[7] + 9

\* _validate_aa55_response: the type and the sum are both read as signed numbers.
Aa55Verdict(d, type) ==
    LET n == Len(d) IN
        CASE n <= 8 -> Bad
          [] n > 8 /\ n < Whole(d) -> Partial(Whole(d) - n)
          [] OTHER -> IF n > Whole(d) \/ S16(d[5], d[6]) # type
                         \/ SumOf(SubSeq(d, 1, n - 2)) # S16(d[n - 1], d[n]) THEN Bad ELSE Good

\* trim_response
Aa55Payload(d) == SubSeq(d, 8, Len(d) - 2)
=============================================================================
