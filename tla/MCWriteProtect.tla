--------------------------- MODULE MCWriteProtect ---------------------------
(***************************************************************************)
(* Chips and calls for TLC to check WriteProtect with.                     *)
(***************************************************************************)
EXTENDS WriteProtect

Layout(places) == [b \in Bits |-> IF b \in DOMAIN places THEN places[b] ELSE INVALID_REG]
Fixed(kinds) == [b \in Bits |-> IF b \in DOMAIN kinds THEN kinds[b] ELSE "RW"]

\* The most common layout, on chips that write STATUS2 together with STATUS1
Common ==
  [home |-> Layout([bp0 |-> STATUS1, bp1 |-> STATUS1, tb |-> STATUS1, sec |-> STATUS1,
                    srp |-> STATUS1, cmp |-> STATUS2, srl |-> STATUS2, qe |-> STATUS2]),
   access |-> [b \in Bits |-> "RW"], long |-> {STATUS2}, enable |-> {"EWSR", "WREN"},
   size |-> 64, decode |-> "spi25",
   bp |-> {"bp0", "bp1"}, lock |-> {"srp"}, wp |-> {}, keep |-> Bits, twoStep |-> FALSE,
   initial |-> {{}, {"bp0", "srp", "qe"}, {"bp0", "bp1", "cmp"}, {"cmp", "qe"},
                {"bp1", "tb", "srl"}}]

\* With three registers, each written on its own, and three BP bits; wps in STATUS3
Three ==
  [Common EXCEPT !.home = Layout([bp0 |-> STATUS1, bp1 |-> STATUS1, bp2 |-> STATUS1,
                                  srp |-> STATUS1, cmp |-> STATUS2, qe |-> STATUS2,
                                  wps |-> STATUS3]),
                 !.long = {}, !.enable = {"WREN"}, !.decode = "bit_cmp",
                 !.bp = {"bp0", "bp1", "bp2"},
                 !.initial = {{"wps", "bp0", "qe"}, {"cmp", "bp2", "srp"}}]

\* A small chip with bits that can be set only once, in registers that are not written
Once ==
  [Common EXCEPT !.home = Layout([bp0 |-> STATUS1, bp1 |-> STATUS1, srp |-> STATUS1,
                                  qe |-> STATUS1, tb |-> CONFIG, cmp |-> CONFIG,
                                  wps |-> SECURITY]),
                 !.access = Fixed([tb |-> "OTP", wps |-> "OTP"]),
                 !.long = {}, !.enable = {}, !.size = 16, !.decode = "64k_block",
                 !.initial = {{"bp1", "tb", "qe"}, {"cmp", "qe"}, {"wps"}}]

\* Global unprotect, with a lock that has to be cleared first; no ranges
Global ==
  [Common EXCEPT !.home = Layout([bp0 |-> STATUS1, bp1 |-> STATUS1, srp |-> STATUS1,
                                  wpp |-> STATUS1, qe |-> STATUS1]),
                 !.access = Fixed([wpp |-> "RO"]), !.long = {},
                 !.decode = "none", !.wp = {"wpp"}, !.keep = {}, !.twoStep = TRUE,
                 !.initial = {{"bp0", "bp1", "srp", "wpp", "qe"}, {"bp0", "srp"}, {"bp1"}}]

\* More BP bits than block sizes, in one register, and the lock is a lock of its own
Twice ==
  [Common EXCEPT !.home = Layout([bp0 |-> STATUS1, bp1 |-> STATUS1, bp2 |-> STATUS1,
                                  srp |-> STATUS1, qe |-> STATUS1]),
                 !.long = {}, !.decode = "2x_block", !.twoStep = TRUE,
                 !.bp = {"bp0", "bp1", "bp2"},
                 !.initial = {{"bp0", "bp2", "srp", "qe"}, {"bp1"}}]

MCChips == {Common, Three, Once, Global, Twice}

Write(start, len, mode, kind) ==
  [op |-> "write", range |-> [start |-> start, len |-> len], mode |-> mode, target |-> kind]
Unlock == [op |-> "unlock", range |-> NoRange, mode |-> "disabled", target |-> "either"]
ReadConfig == [op |-> "read", range |-> NoRange, mode |-> "disabled", target |-> "either"]

MCRequests ==
  {Write(0, 0, "disabled", "nonvolatile"), Write(0, 64, "hardware", "nonvolatile"),
   Write(48, 16, "hardware", "volatile"), Write(0, 16, "power_cycle", "nonvolatile"),
   Write(7, 3, "disabled", "nonvolatile"), Write(0, 16, "hardware", "volatile"),
   Write(0, 0, "disabled", "volatile"), Unlock, ReadConfig}

=============================================================================
