------------------------------ MODULE FlashChip -----------------------------
(***************************************************************************)
(* An entry of the chip database (struct flashchip), as identification and *)
(* the choice of erase blocks read it: how the chip is probed, which ID it *)
(* answers with, its size and page size, its voltages, and for each eraser *)
(* its function and its runs of blocks, in bytes.  Names, test states,     *)
(* feature bits that no probe looks at, status register bits and the       *)
(* functions for reading, writing and unlocking are left out.              *)
(***************************************************************************)
EXTENDS Integers, Sequences

PARALLEL == "parallel"
LPC == "lpc"
FWH == "fwh"
SPI == "spi"
PROG == "prog"

\* enum id_type
NONE == "none"
I82802AB == "82802ab"
EDI == "edi"
JEDEC == "jedec"
JEDEC_29GL == "jedec_29gl"
OPAQUE == "opaque"
AT25F == "at25f"
RDID == "rdid"
REMS == "rems"
RES1 == "res1"
RES2 == "res2"
RES3 == "res3"
SFDP == "sfdp"
ST95 == "st95"
W29EE011 == "w29ee011"
IdTypes == {NONE, I82802AB, EDI, JEDEC, JEDEC_29GL, OPAQUE, AT25F, RDID, REMS, RES1, RES2, RES3,
            SFDP, ST95, W29EE011}

\* FEATURE_LONG_RESET to FEATURE_ADDR_SHIFTED; FEATURE_ADDR_FULL is no bit
LONG == "long_reset"
SHORT == "short_reset"
A2AA == "addr_2aa"
AAAA == "addr_aaa"
SHIFTED == "addr_shifted"

\* TIMING_FIXME, TIMING_ZERO
FIXME == -1
ZERO == -2

E(fn, size, count) == [fn |-> fn, blocks |-> <<<<size, count>>>>]
ER(fn, blocks) == [fn |-> fn, blocks |-> blocks]

\* struct flashchip; total_size is in KiB
Memory(buses, type, man, model, kib, page, features, timing, min, max, erasers) ==
  [bustype |-> buses, id |-> [type |-> type, manufacture |-> man, model |-> model],
   total_size |-> kib, page_size |-> page, features |-> features, timing |-> timing,
   min |-> min, max |-> max, erasers |-> erasers]
Spi(type, man, model, kib, page, min, max, erasers) ==
  Memory({SPI}, type, man, model, kib, page, {}, 0, min, max, erasers)
Opaque(type, man, model, page, erasers) ==
  Memory({PROG}, type, man, model, 0, page, {}, 0, 0, 0, erasers)

=============================================================================
