----------------------------- MODULE MCDediprog -----------------------------
(***************************************************************************)
(* Programmers, chips and calls for TLC to check Dediprog with.            *)
(***************************************************************************)
EXTENDS Dediprog

NewDevice(protocol, modes, fast, page) ==
  [protocol |-> protocol, modes |-> modes, fast |-> fast, page |-> page]

\* An SF100; an SF600 with old and with new firmware; the chip has dual output
MCDevices == {NewDevice(1, FALSE, "none", Page256), NewDevice(1, TRUE, "none", Page256),
              NewDevice(3, TRUE, "1-1-2", Page256)}

Read(start, len) == [op |-> "read", start |-> start, len |-> len]
Write(start, len) == [op |-> "write", start |-> start, len |-> len]
Command == [op |-> "command", start |-> 0, len |-> 1]

MCRequests == {Read(0, 6), Read(1, 7), Read(3, 1), Read(1, 2), Read(2, 2),
               Write(0, 8), Write(2, 2), Write(1, 4), Command}

\* A chip with pages of 512 bytes (S25FL128S), and writes of whole pages
OtherPages == {NewDevice(3, TRUE, "1-1-2", 2 * Page256)}
PageWrites == {Write(0, 4), Write(0, 8), Command}

\* The 25LC1024: pages of 256 bytes, of which any part can be written
Eeprom == {NewDevice(3, TRUE, "none", Page256)}
ByteWrites == {Write(0, 4), Write(1, 2), Write(1, 7), Write(6, 1), Read(1, 7)}

=============================================================================
