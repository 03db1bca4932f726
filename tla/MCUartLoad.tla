----------------------------- MODULE MCUartLoad -----------------------------
(* UartLoad with words of two bytes: packets for IMEM, for SRAM and with a   *)
(* range that wraps around, and HEX files with an upper address, with two    *)
(* data records and with an entry.                                           *)
EXTENDS UartLoad

Digits == <<48, 49, 50, 51, 52, 53, 54, 55, 56, 57, 65, 66, 67, 68, 69, 70>>
HexText(bytes) ==
    LET t[i \in 0..Len(bytes)] ==
            IF i = 0 THEN <<>>
            ELSE t[i-1] \o <<Digits[(bytes[i] \div 16) + 1], Digits[(bytes[i] % 16) + 1]>>
    IN  t[Len(bytes)]
Line(type, addr, data) ==
    LET r == <<Len(data), addr, type>> \o data
    IN  <<Colon>> \o HexText(Append(r, (256 - (Total(r) % 256)) % 256)) \o <<10>>

HexFile(lines, image, entry) ==
    [data |-> lines \o Line(1, 0, <<>>), image |-> image, entry |-> entry,
     format |-> "ihex"]

MCFiles ==
    {BinFile(<<63, 5, 75>>, 40, 40), BinFile(<<1, 2>>, 512, 512),
     BinFile(<<3, 4>>, 65535, 40),
     HexFile(Line(4, 0, <<2>>) \o Line(0, 2, <<7>>), [a \in {514} |-> 7], 514),
     HexFile(Line(0, 33, <<5>>) \o Line(0, 34, <<6>>), [a \in 33..34 |-> a - 28], 32),
     HexFile(Line(0, 33, <<5>>) \o Line(5, 0, <<0, 34>>), [a \in {33} |-> 5], 34)}
=============================================================================
