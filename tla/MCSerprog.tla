----------------------------- MODULE MCSerprog -----------------------------
(***************************************************************************)
(* Calls for TLC to check Serprog with.                                    *)
(***************************************************************************)
EXTENDS Serprog

CONSTANTS ff, b0, b1, b2
MCValue == {ff, b0, b1, b2}
Byte == <<b0, b1, b2>>

\* With write-n and without it
MCProgrammers == {[writeN |-> 2, readN |-> 2, opbuf |-> 16, serbuf |-> 2],
                  [writeN |-> 0, readN |-> 0, opbuf |-> 13, serbuf |-> 6]}

MCCalls ==
  {[op |-> "writeb", addr |-> a, val |-> Byte[a + 1]] : a \in 0 .. 2}
    \cup {[op |-> "readb", addr |-> 1], [op |-> "readn", addr |-> 0, len |-> 3],
          [op |-> "delay"], [op |-> "spi"], [op |-> "shutdown"]}

=============================================================================
