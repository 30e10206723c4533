---------------------------- MODULE ModbusFrames ----------------------------
(***************************************************************************)
(* Requests and the validators of their responses (goodwe/modbus.py and    *)
(* the command classes of goodwe/protocol.py).  A frame is its bytes and   *)
(* the length at which a checksum over what precedes it is right (0 if     *)
(* there is none): what the CRC computes is abstracted, where the code     *)
(* looks for it is not.                                                    *)
(***************************************************************************)
EXTENDS Words, Sequences

READ == 3
WRITE == 6
WRITE_MULTI == 16

Frame(bytes, sealed) == [bytes |-> bytes, sealed |-> sealed]

-----------------------------------------------------------------------------
(* Commands and the requests built from them.  "value" is what the validator *)
(* is given: the register count of a read or a multiple write, the value of  *)
(* a single one.  The RTU request has its checksum where the TCP one has the *)
(* MBAP header before.                                                       *)

ReadCommand(offset, count) == [cmd |-> READ, offset |-> offset, value |-> count, data |-> <<>>]
WriteCommand(register, value) == [cmd |-> WRITE, offset |-> register, value |-> value, data |-> <<>>]
WriteMultiCommand(offset, values) ==
    [cmd |-> WRITE_MULTI, offset |-> offset, value |-> Len(values) \div 2, data |-> values]

Pdu(k) == <<k.cmd, Hi(k.offset), Lo(k.offset), Hi(k.value), Lo(k.value)>>
            \o (IF k.cmd = WRITE_MULTI THEN <<Len(k.data)>> \o k.data ELSE <<>>)

RtuRequest(address, k) == Frame(<<address>> \o Pdu(k) \o <<0, 0>>, Len(Pdu(k)) + 3)
\* request_bytes puts the next transaction identifier in front.
TcpRequest(tx, address, k) ==
    Frame(<<Hi(tx), Lo(tx), 0, 0, 0, Len(Pdu(k)) + 1, address>> \o Pdu(k), 0)
RtuRequestPdu(request) == SubSeq(request.bytes, 2, Len(request.bytes) - 2)
TcpRequestPdu(request) == SubSeq(request.bytes, 8, Len(request.bytes))

-----------------------------------------------------------------------------
(* The validators; k is the command whose answer is expected. *)

\* Mutant of EchoMatches: the address is not compared.
EchoMatchesValue(k, offset, value) == value = k.value
EchoMatches(k, offset, value) == offset = k.offset /\ value = k.value

\* Mutant of Missing: the last byte is not waited for.
MissingButOne(d, whole) == whole - Len(d) - 1
Missing(d, whole) == whole - Len(d)

\* The last check of both: a function code that is not the command's is a
\* failure, the byte after it the failure code.
\* Mutant of Conclude: the function code is taken for the failure code.
ConcludeByFunction(d, at, k) == IF d[at] # k.cmd THEN Rejected(d[at]) ELSE Good
Conclude(d, at, k) == IF d[at] # k.cmd THEN Rejected(d[at + 1]) ELSE Good

\* validate_modbus_rtu_response: the count before the length.
RtuVerdict(f, k) ==
    LET d == f.bytes
        whole == IF d[4] = READ THEN d[5] + 7 ELSE IF d[4] \in {WRITE, WRITE_MULTI} THEN 10 ELSE Len(d)
    IN  CASE Len(d) <= 4 -> Bad
          [] Len(d) > 4 /\ d[4] = READ /\ d[5] = 2 * k.value /\ Missing(d, whole) > 0 ->
                Partial(Missing(d, whole))
          [] OTHER ->
                IF \/ d[4] = READ /\ d[5] # 2 * k.value
                   \/ d[4] \in {WRITE, WRITE_MULTI}
                        /\ (Len(d) < 10 \/ ~EchoMatches(k, U16(d[5], d[6]), S16(d[7], d[8])))
                   \/ f.sealed # whole
                THEN Bad ELSE Conclude(d, 4, k)

\* validate_modbus_tcp_response: the length before the count, no checksum, and
\* neither the transaction identifier nor the length in the header is read.
TcpVerdict(f, k) ==
    LET d == f.bytes
    IN  CASE Len(d) <= 8 -> Bad
          [] Len(d) > 8 /\ d[8] = READ /\ Missing(d, d[9] + 9) > 0 -> Partial(Missing(d, d[9] + 9))
          [] OTHER ->
                IF \/ d[8] = READ /\ d[9] # 2 * k.value
                   \/ d[8] \in {WRITE, WRITE_MULTI}
                        /\ (Len(d) < 12 \/ ~EchoMatches(k, U16(d[9], d[10]), S16(d[11], d[12])))
                THEN Bad ELSE Conclude(d, 8, k)

-----------------------------------------------------------------------------
(* The inverter's side, as the test frames show it: what it answers to the *)
(* bytes of a request, the registers it holds all having the byte "fill".  *)

AnswerPdu(pdu, fill) ==
    IF pdu[1] # READ THEN SubSeq(pdu, 1, 5)
    ELSE LET n == 2 * U16(pdu[4], pdu[5]) IN <<READ, n>> \o [i \in 1..n |-> fill]
ExceptionPdu(pdu, code) == <<pdu[1] + 128, code>>
Rtu(address, pdu) == Frame(<<170, 85, address>> \o pdu \o <<0, 0>>, Len(pdu) + 5)
Tcp(tx, address, pdu) == Frame(<<Hi(tx), Lo(tx), 0, 0, 0, Len(pdu) + 1, address>> \o pdu, 0)
First(n, f) == Frame(SubSeq(f.bytes, 1, n), IF n < f.sealed THEN 0 ELSE f.sealed)
=============================================================================
