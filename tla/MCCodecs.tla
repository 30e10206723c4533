------------------------------ MODULE MCCodecs ------------------------------
(***************************************************************************)
(* Inputs for the algorithms: the commands the library sends and the       *)
(* boundaries of what it encodes.                                          *)
(***************************************************************************)
EXTENDS Codecs

MCCommands ==
    {ReadCommand(offset, count) : offset \in {35100, 47547}, count \in {1, 2, 6, 24, 125}}
    \union {WriteCommand(register, value) :
              register \in {47510, 47511},
              value \in {-65535, -32768, -1, 0, 1, 2, 125, 255, 256, 32767, 32768, 65535, 65537}}
    \union {WriteMultiCommand(offset, [i \in 1..n |-> 1]) : offset \in {47515, 47547}, n \in {4, 8, 12}}
MCFill == {0, 1, 2, 6, 255}
\* With 126 bytes and the last one 5 or 6 the answer of type 697 adds up to 0x7FFF or
\* 0x8000, with 61 or 62 that of type 386; 255 bytes of 255 go far beyond.
Bright(n, last) == [i \in 1..n |-> IF i = n THEN last ELSE 255]
MCPayloads ==
    {<<6>>, <<1, 2, 3>>, Bright(8, 255), [i \in 1..125 |-> 0], Bright(255, 255)}
        \union {Bright(126, last) : last \in {5, 6, 61, 62}}
MCAa55Types == {386, 390, 393, 410, 697}
MCParts == {-32769, -32768, -2, -1, 0, 1, 255, 256, 32767, 32768, 65534, 65535, 65536}
MCRegisters == {0, 1, 3, 16, 127, 255, 256, 511, 32767, 32768, 65280, 65534, 65535}
MCPowers == 0..100
MCSocs == {0, 1, 50, 100}
=============================================================================
