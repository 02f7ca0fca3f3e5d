---------------------------- MODULE WriteProtect ----------------------------
(***************************************************************************)
(* Block protection of SPI NOR chips: reading and writing a protection     *)
(* range and mode (writeprotect.c, writeprotect_ranges.c), unlocking a     *)
(* chip for an operation and locking it again, and the status registers    *)
(* all of that goes through (spi25_statusreg.c).                           *)
(*                                                                         *)
(* Every command is a step of its own: a register is read, changed and     *)
(* written back, some registers only together with others; a write takes   *)
(* effect some time after its command, and a locked chip ignores it.       *)
(*                                                                         *)
(* The contents of registers are sets: the bits that are 1.                *)
(***************************************************************************)
EXTENDS Integers, Sequences, FiniteSets, FiniteSetsExt, SequencesExt

\* enum flash_reg
INVALID_REG == 0
STATUS1 == 1
STATUS2 == 2
STATUS3 == 3
SECURITY == 4
CONFIG == 5
Registers == STATUS1 .. CONFIG

\* struct wp_bits, from the least significant BP bit; a bit of something else
\* ("qe") and a read-only bit that tells the level of WP# ("wpp")
BP == <<"bp0", "bp1", "bp2">>
RangeBits == Range(BP) \cup {"tb", "sec", "cmp"}
ProtectionBits == RangeBits \cup {"srp", "srl", "wps"}
Bits == ProtectionBits \cup {"qe", "wpp"}

Modes == {"disabled", "hardware", "power_cycle", "permanent"}
Targets == {"volatile", "nonvolatile", "either"}

CONSTANTS
  Chips,        \* the chips and what the database says of them
  Requests,     \* the calls
  MaxFaults,    \* bound: commands that go wrong
  MaxCalls      \* bound: calls in one behaviour

\* home and access: reg_bits; long: registers written with all lower ones; enable:
\* FEATURE_WRSR_EWSR and _WREN; size: in units of 4 KiB; decode: decode_range, if the
\* chip has one; bp, lock, wp and keep: the masks of its unlock function; twoStep: a
\* lock bit makes all bits but itself read-only; initial: what the registers may hold
Chip == [home : [Bits -> Registers \cup {INVALID_REG}], access : [Bits -> {"RW", "RO", "OTP"}],
         long : SUBSET {STATUS2, STATUS3, CONFIG}, enable : SUBSET {"EWSR", "WREN"},
         size : Nat \ {0}, decode : {"none", "spi25", "64k_block", "bit_cmp", "2x_block"},
         bp : SUBSET Bits, lock : SUBSET Bits, wp : SUBSET Bits, keep : SUBSET Bits,
         twoStep : BOOLEAN, initial : SUBSET SUBSET Bits]
NoRange == [start |-> 0, len |-> 0]
Request == [op : {"write", "read", "unlock"}, range : [start : Nat, len : Nat],
            mode : Modes, target : Targets]

ASSUME WriteProtectAssumption ==
  /\ \A c \in Chips : c \in Chip
  \* registers hold the bits a chip has, and the level of WP# can only be read
  /\ \A c \in Chips :
       /\ \A s \in c.initial : \A b \in s : c.home[b] # INVALID_REG
       /\ c.home["wpp"] # INVALID_REG => c.access["wpp"] = "RO"
  \* the masks of unlock functions are about the first status register, its bit 7 (the
  \* lock) and the level of WP#
  /\ \A c \in Chips :
       /\ c.lock \subseteq {"srp"} /\ c.wp \subseteq {"wpp"}
       /\ \A b \in c.bp \cup c.lock \cup c.wp : c.home[b] = STATUS1
       /\ \A b \in c.bp \cup c.lock : c.access[b] = "RW"
  /\ Requests \subseteq Request
  /\ MaxFaults \in Nat /\ MaxCalls \in Nat

VARIABLES
  chip,      \* the chip at hand
  pin,       \* its WP# is asserted
  sr,        \* its registers
  pending,   \* what they will hold when the write in progress ends, if there is one
  pc, req, ret,
  phase,     \* what a register is written for
  bits,      \* struct wp_bits: the bits read, then the bits wanted
  todo,      \* bits or registers that a loop has still to visit
  target,    \* spi_write_register(): the register
  value,     \* and its value; in between, the register just read
  back,      \* lower registers read for writeback
  saved,     \* chip_restore_fn: the status to restore, if one is registered
  faults, calls,
  before,    \* history: the registers when the call began
  abandoned  \* history: a write was given up before it had ended

device == <<sr, pending>>
write == <<target, value, back>>
history == <<calls, before>>
vars == <<chip, pin, device, pc, req, ret, phase, bits, todo, write, saved,
          faults, history, abandoned>>

Fault == faults < MaxFaults /\ faults' = faults + 1
NoFault == UNCHANGED faults

Home(b) == chip.home[b]
Present(b) == Home(b) # INVALID_REG
Content(r) == {b \in sr : Home(b) = r}
Writable(b) == Present(b) /\ chip.access[b] = "RW"          \* can_write_bit()

-----------------------------------------------------------------------------
(* Ranges and modes (writeprotect_ranges.c, set_wp_range, set_wp_mode)     *)

BpCount == Cardinality({i \in DOMAIN BP : Present(BP[i])})
BpValue(set) ==
  LET bit(i) == IF BP[i] \in set THEN 2^(i - 1) ELSE 0 IN bit(1) + bit(2) + bit(3)

Clamp(n) == Min({n, chip.size})

\* decode_range_generic(), in units of 4 KiB
DecodeRange(set) ==
  LET cmp   == "cmp" \in set
      max   == 2^BpCount - 1
      bp    == IF cmp /\ chip.decode = "bit_cmp" THEN max - BpValue(set) ELSE BpValue(set)
      skip  == IF chip.decode = "2x_block" THEN 0 ELSE 1
      coeff == 2^(bp - skip)
      block == IF chip.decode = "64k_block" THEN 16
               ELSE Max({16, (chip.size \div 2) \div 2^(max - skip - 1)})
      plain == CASE bp = 0        -> 0
                 [] bp = max      -> chip.size
                 [] "sec" \in set -> Min({coeff, 8})
                 [] OTHER         -> Clamp(block * coeff)
      len   == IF cmp THEN chip.size - plain ELSE plain
      top   == ("tb" \notin set) # cmp
  IN  [start |-> IF top /\ len > 0 THEN chip.size - len ELSE 0, len |-> len]

\* get_ranges_and_wp_bits(): all settings that can be reached from these bits
Settings(set) ==
  LET free == {b \in RangeBits : Writable(b)}
  IN  {(set \ free) \cup s : s \in SUBSET free}

\* compare_ranges(), for settings of the same range
Weight(b) ==
  CASE b = "cmp" -> 2^5 [] b = "sec" -> 2^4 [] b = "tb" -> 2^3
    [] \E i \in DOMAIN BP : BP[i] = b -> 2^((CHOOSE i \in DOMAIN BP : BP[i] = b) - 1)
    [] OTHER -> 0
Precedence(set) == MapThenSumSet(Weight, set)

Matching(set, range) == {s \in Settings(set) : DecodeRange(s) = range}
WithRange(set, range) ==
  {s \in Matching(set, range) :
     \A t \in Matching(set, range) : Precedence(s) <= Precedence(t)}

GetMode(set) ==
  IF "srl" \in set THEN IF "srp" \in set THEN "permanent" ELSE "power_cycle"
  ELSE IF "srp" \in set THEN "hardware" ELSE "disabled"

-----------------------------------------------------------------------------
(* The chip                                                                *)

Frozen == "srl" \in sr \/ ("srp" \in sr /\ pin)

\* What the registers will hold when `cmd' gives some of them a new content
After(cmd) ==
  LET wanted(b) == b \in cmd[Home(b)]
      open(b) == chip.twoStep /\ chip.lock \cap sr # {} => b \in chip.lock
  IN  {b \in Bits :
         IF Home(b) \notin DOMAIN cmd \/ chip.access[b] = "RO" \/ ~open(b) THEN b \in sr
         ELSE wanted(b) \/ (chip.access[b] = "OTP" /\ b \in sr)}

\* Write enable and write commands; a chip that is busy or locked ignores them
Obey(cmd) ==
  pending' = IF pending # {} \/ Frozen THEN pending ELSE {After(cmd)}

Settle ==
  /\ pending # {} /\ sr' \in pending /\ pending' = {}
  /\ UNCHANGED <<chip, pin, pc, req, ret, phase, bits, todo, write, saved, faults, history,
                 abandoned>>

Init ==
  /\ chip \in Chips /\ pin \in BOOLEAN /\ sr \in chip.initial /\ pending = {}
  /\ Present("wpp") => pin = ("wpp" \notin sr)
  /\ pc = "idle" /\ ret = "OK" /\ phase = "range"
  /\ req = [op |-> "read", range |-> NoRange, mode |-> "disabled", target |-> "either"]
  /\ bits = {} /\ todo = <<>> /\ target = STATUS1 /\ value = {} /\ back = <<>>
  /\ saved = {} /\ faults = 0 /\ calls = 0 /\ before = sr /\ abandoned = FALSE

Finish(code) ==
  /\ pc' = "done" /\ ret' = code /\ bits' = {} /\ todo' = <<>>
  /\ UNCHANGED phase

-----------------------------------------------------------------------------
(* Calls                                                                   *)

\* The order of read_wp_bits()
ReadOrder ==
  (IF Present("wps") /\ ~Writable("wps") THEN <<"wps">> ELSE <<>>)
    \o <<"tb", "sec", "cmp", "srp", "srl">> \o BP

\* spi_wp_write_cfg(), spi_wp_read_cfg(); prepare_flash_access() with its unlock
Call(r) ==
  /\ pc \in {"idle", "done"} /\ calls < MaxCalls
  /\ calls' = calls + 1 /\ req' = r /\ before' = sr
  /\ CASE r.op = "unlock" -> /\ pc' = "status" /\ saved' = {}
                             /\ UNCHANGED <<ret, bits, todo, phase>>
       [] r.op # "unlock" /\ chip.decode = "none" -> Finish("CHIP_UNSUPPORTED") /\ UNCHANGED saved
       [] OTHER -> /\ pc' = "bits" /\ bits' = {} /\ todo' = ReadOrder
                   /\ UNCHANGED <<ret, phase, saved>>
  /\ UNCHANGED <<chip, pin, device, write, faults, abandoned>>

\* read_bit(): the register is read again for every bit of it that the chip has
ReadBit ==
  /\ pc = "bits" /\ todo # <<>>
  /\ \/ /\ NoFault
        /\ IF Head(todo) = "wps" /\ "wps" \in sr THEN Finish("UNSUPPORTED_STATE")
           ELSE /\ bits' = bits \cup ({Head(todo)} \cap sr) /\ todo' = Tail(todo)
                /\ UNCHANGED <<pc, ret, phase>>
     \/ Present(Head(todo)) /\ Fault /\ Finish("READ_FAILED")
  /\ UNCHANGED <<chip, pin, device, req, write, saved, history, abandoned>>

\* Registers with a bit that can be written
Written == {r \in Registers : \E b \in ProtectionBits : Home(b) = r /\ Writable(b)}
\* Mutant: only the first status register is verified
VerifiedFirst == {STATUS1}
\* Registers with a bit
Verified == {r \in Registers : \E b \in ProtectionBits : Home(b) = r}
InOrder(regs) ==
  LET one(r) == IF r \in regs THEN <<r>> ELSE <<>>
  IN  one(STATUS1) \o one(STATUS2) \o one(STATUS3) \o one(SECURITY) \o one(CONFIG)

\* set_wp_range(), between reading and writing
SetRange ==
  /\ pc = "bits" /\ todo = <<>>
  /\ CASE req.op = "read" -> Finish("OK")
       [] req.op = "write" /\ Matching(bits, req.range) = {} -> Finish("RANGE_UNSUPPORTED")
       [] OTHER -> /\ bits' \in WithRange(bits, req.range) /\ phase' = "range"
                   /\ pc' = "compare" /\ todo' = InOrder(Written) /\ UNCHANGED ret
  /\ UNCHANGED <<chip, pin, device, req, write, saved, faults, history, abandoned>>

\* Mutant: the masks of the registers are mixed up
MaskAny(r) == {b \in ProtectionBits : Writable(b)}
\* The bits of a register that get written; `wps' is always to be 0
Mask(r) == {b \in ProtectionBits : Home(b) = r /\ Writable(b)}

\* Mutant: the other bits of the register are not kept
MergedZero(r) == bits \cap Mask(r)
Merged(r) == (Content(r) \ Mask(r)) \cup (bits \cap Mask(r))

\* write_wp_bits(): "Skip unnecessary register writes"
Compare ==
  /\ pc = "compare" /\ todo # <<>>
  /\ LET r == Head(todo) IN
     \/ /\ NoFault /\ Content(r) \cap Mask(r) = bits \cap Mask(r)
        /\ todo' = Tail(todo) /\ UNCHANGED <<pc, ret, phase, bits, write>>
     \/ /\ NoFault /\ Content(r) \cap Mask(r) # bits \cap Mask(r)
        /\ target' = r /\ value' = Merged(r) /\ back' = <<>> /\ pc' = "writeback"
        /\ UNCHANGED <<ret, phase, bits, todo>>
     \/ Fault /\ Finish("READ_FAILED") /\ UNCHANGED write
  /\ UNCHANGED <<chip, pin, device, req, saved, history, abandoned>>

StartVerify ==
  /\ pc = "compare" /\ todo = <<>>
  /\ pc' = "verify" /\ todo' = InOrder(Verified) /\ ret' = "OK"
  /\ UNCHANGED <<chip, pin, device, req, phase, bits, write, saved, faults, history, abandoned>>

\* "Verify each register even if write to it was skipped"
Verify ==
  /\ pc = "verify" /\ todo # <<>>
  /\ \/ /\ NoFault /\ todo' = Tail(todo) /\ UNCHANGED <<pc, phase, bits>>
        /\ ret' = IF Content(Head(todo)) \cap ProtectionBits
                       = {b \in bits \ {"wps"} : Home(b) = Head(todo)}
                    THEN ret ELSE "VERIFY_FAILED"
     \/ Fault /\ Finish("READ_FAILED")
  /\ UNCHANGED <<chip, pin, device, req, write, saved, history, abandoned>>

\* Mutant: the mode is set even though the range could not be
ProceedAlways == phase = "range"
Proceed == phase = "range" /\ ret = "OK"

\* set_wp_mode(), once the range is verified; after the mode, the end
SetMode ==
  /\ pc = "verify" /\ todo = <<>>
  /\ IF ~Proceed THEN Finish(ret)
     ELSE CASE req.mode \in {"power_cycle", "permanent"} -> Finish("MODE_UNSUPPORTED")
            [] req.mode = "hardware" /\ ~Present("srp") -> Finish("CHIP_UNSUPPORTED")
            [] OTHER ->
                 /\ bits' = (bits \ {"srp", "srl"})
                              \cup (IF req.mode = "hardware" THEN {"srp"} ELSE {})
                 /\ phase' = "mode" /\ pc' = "compare" /\ todo' = InOrder(Written)
                 /\ UNCHANGED ret
  /\ UNCHANGED <<chip, pin, device, req, write, saved, faults, history, abandoned>>

-----------------------------------------------------------------------------
(* spi_write_register()                                                    *)

Target == IF phase \in {"range", "mode"} THEN req.target ELSE "either"

\* It has failed: what its callers do then
WriteFailed ==
  CASE phase \in {"range", "mode"}     -> Finish("WRITE_FAILED")
    [] phase \in {"lock", "unprotect"} -> /\ pc' = "working" /\ ret' = "ERROR"
                                          /\ UNCHANGED <<phase, bits, todo>>
    [] phase = "restore"               -> Finish(ret)

WriteSucceeded ==
  CASE phase \in {"range", "mode"} -> pc' = "compare" /\ todo' = Tail(todo)
                                      /\ UNCHANGED <<ret, phase, bits>>
    [] phase \in {"lock", "unprotect"} -> pc' = "recheck" /\ UNCHANGED <<ret, phase, bits, todo>>
    [] phase = "restore" -> Finish(ret)

\* Registers that go into the same command
Lower ==
  IF target = CONFIG THEN {STATUS1}
  ELSE IF target \in chip.long THEN STATUS1 .. target - 1 ELSE {}

\* spi_prepare_wrsr_ext(): "just read the lower SRx and write them back"
Writeback ==
  /\ pc = "writeback" /\ Len(back) < Cardinality(Lower)
  /\ \/ /\ NoFault /\ back' = Append(back, Content(Len(back) + 1))
        /\ UNCHANGED <<pc, ret, phase, bits, todo>>
     \/ Fault /\ WriteFailed /\ UNCHANGED back
  /\ UNCHANGED <<chip, pin, device, req, target, value, saved, history, abandoned>>

\* There is no command to write the security register
Supported ==
  /\ target # SECURITY
  /\ \/ Target \in {"volatile", "either"} /\ (chip.enable = {} \/ "EWSR" \in chip.enable)
     \/ Target \in {"nonvolatile", "either"} /\ "WREN" \in chip.enable

\* The bytes of the command are the new contents of STATUS1, and so on
Bytes == [r \in (1 .. Len(back)) \cup {target} |-> IF r = target THEN value ELSE back[r]]

Command ==
  /\ pc = "writeback" /\ Len(back) = Cardinality(Lower)
  /\ \/ Supported /\ NoFault /\ Obey(Bytes) /\ pc' = "poll"
        /\ UNCHANGED <<ret, phase, bits, todo>>
     \/ Supported /\ Fault /\ UNCHANGED pending /\ pc' = "poll"
        /\ UNCHANGED <<ret, phase, bits, todo>>
     \/ Supported /\ Fault /\ (Obey(Bytes) \/ UNCHANGED pending) /\ WriteFailed
     \/ ~Supported /\ NoFault /\ WriteFailed /\ UNCHANGED pending
  /\ UNCHANGED <<chip, pin, sr, req, write, saved, history>>
  /\ abandoned' = (abandoned \/ (pc' # "poll" /\ pending' # {}))

\* Mutant: one look at the status is enough
ReadyAlways == TRUE
Ready == pending = {}

\* Wait for WIP to clear: it does, or the time is up, or the status cannot be read
Poll ==
  /\ pc = "poll"
  /\ \/ Ready /\ NoFault /\ WriteSucceeded /\ UNCHANGED abandoned
     \/ Fault /\ WriteFailed /\ abandoned' = (abandoned \/ pending # {})
  /\ UNCHANGED <<chip, pin, device, req, write, saved, history>>

-----------------------------------------------------------------------------
(* spi_disable_blockprotect_generic() and the way back                     *)

Start(what, content) ==
  /\ phase' = what /\ target' = STATUS1 /\ value' = content /\ back' = <<>> /\ pc' = "writeback"
Unlocked(result) == pc' = "working" /\ ret' = result /\ UNCHANGED <<phase, write>>

Remembered(status) == {status}

HardwareProtected(status) == chip.wp # {} /\ status \cap chip.wp = {}
Unprotected(status) == (status \ (chip.bp \cup chip.lock)) \cap chip.keep

ReadStatus ==
  LET status == Content(STATUS1) IN
  /\ pc = "status"
  /\ \/ Fault /\ Unlocked("ERROR") /\ UNCHANGED saved
     \/ /\ NoFault /\ status \cap chip.bp = {} /\ Unlocked("OK") /\ UNCHANGED saved
     \/ /\ NoFault /\ status \cap chip.bp # {}
        /\ saved' = Remembered(status)
        /\ IF status \cap chip.lock = {} THEN Start("unprotect", Unprotected(status)) /\ UNCHANGED ret
           ELSE IF HardwareProtected(status) THEN Unlocked("ERROR")
           ELSE Start("lock", status \ chip.lock) /\ UNCHANGED ret
  /\ UNCHANGED <<chip, pin, device, req, bits, todo, history, abandoned>>

\* After clearing the lock, and after clearing the protection
Recheck ==
  LET status == Content(STATUS1) IN
  /\ pc = "recheck"
  /\ \/ Fault /\ Unlocked("ERROR")
     \/ /\ NoFault /\ phase = "lock"
        /\ IF status \cap chip.lock # {} THEN Unlocked("ERROR")
           ELSE Start("unprotect", Unprotected(status)) /\ UNCHANGED ret
     \/ /\ NoFault /\ phase = "unprotect"
        /\ Unlocked(IF status \cap chip.bp # {} THEN "ERROR" ELSE "OK")
  /\ UNCHANGED <<chip, pin, device, req, bits, todo, saved, history, abandoned>>

\* The operation is over: finalize_flash_access() restores, spi_restore_status()
Restore ==
  /\ pc = "working" /\ saved' = {}
  /\ IF saved = {} THEN Finish(ret) /\ UNCHANGED write
     ELSE (\E s \in saved : Start("restore", s)) /\ UNCHANGED <<ret, bits, todo>>
  /\ UNCHANGED <<chip, pin, device, req, faults, history, abandoned>>

-----------------------------------------------------------------------------

Next ==
  \/ \E r \in Requests : Call(r)
  \/ ReadBit \/ SetRange \/ Compare \/ StartVerify \/ Verify \/ SetMode
  \/ Writeback \/ Command \/ Poll
  \/ ReadStatus \/ Recheck \/ Restore
  \/ Settle

Spec == Init /\ [][Next]_vars

-----------------------------------------------------------------------------
(* What protection is promised                                             *)

Results == {"OK", "ERROR", "CHIP_UNSUPPORTED", "READ_FAILED", "WRITE_FAILED", "VERIFY_FAILED",
            "RANGE_UNSUPPORTED", "MODE_UNSUPPORTED", "UNSUPPORTED_STATE"}
PCs == {"idle", "bits", "compare", "verify", "writeback", "poll", "status", "recheck",
        "working", "done"}

\* Every variable keeps its type; registers only hold bits that the chip has
TypeOK ==
  /\ sr \subseteq {b \in Bits : Present(b)} /\ Cardinality(pending) <= 1
  /\ pc \in PCs /\ ret \in Results
  /\ phase \in {"range", "mode", "lock", "unprotect", "restore"}
  /\ bits \subseteq ProtectionBits /\ target \in Registers
  /\ value \subseteq {b \in Bits : Home(b) = target} /\ Len(back) <= 2
  /\ faults <= MaxFaults /\ calls <= MaxCalls

\* A write that reports success has put range and mode into effect, whatever went
\* wrong on the way, unless an earlier write was given up while it was in progress
Applied ==
  pc = "done" /\ req.op = "write" /\ ret = "OK" /\ ~abandoned =>
    DecodeRange(sr) = req.range /\ "wps" \notin sr /\ GetMode(sr) = req.mode

\* The registers get locked only when they hold the range that was asked for
LockLast ==
  [][req.op = "write" /\ "srp" \notin sr /\ "srp" \in sr' /\ ~abandoned
       => DecodeRange(sr') = req.range]_sr

\* No call changes a bit that is not its business: no other function's bit in a
\* register that is written back, and none that can be set only once
Business ==
  IF req.op = "write" THEN {b \in ProtectionBits : Writable(b)}
  ELSE IF req.op = "unlock" THEN chip.bp \cup chip.lock \cup (Bits \ chip.keep) ELSE {}
OnlyMeant ==
  [][~abandoned => (sr \ sr') \cup (sr' \ sr) \subseteq Business]_sr

\* An unlock that reports success has unlocked the chip; without faults it succeeds on
\* every chip whose registers are not frozen, and the way out of the operation restores the
\* registers, also when unlocking failed half way
UnlockTells ==
  /\ pc = "working" /\ ~abandoned =>
       /\ ret = "OK" => chip.bp \cap sr = {}
       /\ faults = 0 /\ ret = "ERROR" => Frozen
  /\ pc = "done" /\ req.op = "unlock" /\ faults = 0 => sr = before

=============================================================================
