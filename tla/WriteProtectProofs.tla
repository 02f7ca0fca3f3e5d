------------------------- MODULE WriteProtectProofs -------------------------
(***************************************************************************)
(* Proofs about WriteProtect, for every chip, every call and any number of *)
(* faults: block protection is what was asked for when a call says so, the *)
(* lock comes last, no other bit changes, and unlocking tells the truth    *)
(* and is undone.                                                          *)
(*                                                                         *)
(* The common ground of all of them is Controlled: as long as no write was *)
(* given up while it was in progress, there is one in progress only while  *)
(* spi_write_register() waits for it, so that what was read from a         *)
(* register is still what it holds.                                        *)
(***************************************************************************)
EXTENDS WriteProtect, FiniteSetTheorems, TLAPS

-----------------------------------------------------------------------------
(* The inductive invariant                                                 *)

Delta(s, t) == (s \ t) \cup (t \ s)
PresentBits == {b \in Bits : Present(b)}
StatusBits(s) == {b \in s : Home(b) = STATUS1}
WriteCall == req.op = "write"
Unlocking == req.op = "unlock"
RegisterPhases == {"range", "mode"}

ChipTypes ==
  /\ chip \in Chips /\ pin \in BOOLEAN
  /\ sr \subseteq PresentBits
  /\ pending \subseteq SUBSET PresentBits /\ \A s, t \in pending : s = t
  /\ Present("wpp") => \A s \in {sr} \cup pending : pin = ("wpp" \notin s)

CallTypes ==
  /\ pc \in PCs /\ ret \in Results /\ req \in Request
  /\ phase \in {"range", "mode", "lock", "unprotect", "restore"}
  /\ bits \subseteq ProtectionBits
  /\ target \in Registers
  /\ value \subseteq {b \in Bits : Home(b) = target}
  /\ back \in Seq(SUBSET Bits) /\ Len(back) <= 2
  /\ saved \subseteq SUBSET {b \in Bits : Home(b) = STATUS1}
  /\ faults \in 0 .. MaxFaults /\ calls \in 0 .. MaxCalls
  /\ before \subseteq Bits /\ abandoned \in BOOLEAN

LoopTypes ==
  /\ pc = "bits" => todo \in Seq(ProtectionBits)
  /\ pc \in {"compare", "verify"} \/ (pc \in {"writeback", "poll"} /\ phase \in RegisterPhases) =>
       todo \in Seq(Registers)

Types == ChipTypes /\ CallTypes /\ LoopTypes

\* Which parts of the code which calls reach
Controlled ==
  /\ WriteCall => pc \in {"bits", "compare", "verify", "writeback", "poll", "done"}
  /\ req.op = "read" => pc \in {"idle", "bits", "done"}
  /\ Unlocking => pc \in {"status", "writeback", "poll", "recheck", "working", "done"}
  /\ pc \in {"compare", "verify"} => phase \in RegisterPhases /\ WriteCall
  /\ pc \in {"writeback", "poll"} =>
       IF phase \in RegisterPhases THEN WriteCall /\ todo # <<>> ELSE Unlocking /\ target = STATUS1
  /\ pc \in {"status", "recheck", "working"} => Unlocking
  /\ pc = "recheck" => phase \in {"lock", "unprotect"}
  /\ pending # {} /\ ~abandoned => pc = "poll"
  /\ faults = 0 => ~abandoned

\* What is on its way to the chip differs from what it holds in what is the call's business
Businesslike ==
  ~abandoned =>
    /\ pc = "writeback" => /\ \A i \in 1 .. Len(back) : back[i] = Content(i)
                           /\ Delta(value, Content(target)) \subseteq Business
    /\ \A p \in pending : Delta(p, sr) \subseteq Business
    /\ Unlocking => \A s \in saved : Delta(s, Content(STATUS1)) \subseteq Business

\* The bits that are wanted: of the range, then of the mode with the range already in effect
Wanted ==
  ~abandoned =>
    /\ pc = "bits" => bits \subseteq sr
    /\ pc \in {"compare", "verify", "writeback", "poll"} /\ WriteCall =>
         /\ bits \subseteq PresentBits /\ DecodeRange(bits) = req.range
         /\ phase = "range" => /\ "srp" \in bits => \A s \in {sr} \cup pending : "srp" \in s
                               /\ \A s \in pending : "srp" \in s => "srp" \in sr
         /\ phase = "mode" => /\ \A s \in {sr} \cup pending : s \cap RangeBits = bits \cap RangeBits
                              /\ GetMode(bits) = req.mode
         /\ pc = "writeback" => value = Merged(target)
         /\ pc = "verify" /\ ret = "OK" =>
              \A r \in Verified : r \in Range(todo)
                \/ Content(r) \cap ProtectionBits = {b \in bits \ {"wps"} : Home(b) = r}
    /\ Applied

\* An unlock that nothing went wrong with has changed nothing that it cannot change back
LockedWith(s) == \/ "srl" \in s \/ ("srp" \in s /\ pin)
                 \/ chip.twoStep /\ chip.lock \cap s # {}
Reversible(s) ==
  /\ s \subseteq before
  /\ \A b \in before \ s : Home(b) = STATUS1 /\ chip.access[b] # "RO"
  /\ LockedWith(s) => s = before

\* How far it has come
Progress ==
  /\ pc = "status" => sr = before /\ saved = {}
  /\ pc = "working" => (saved = {} => sr = before) /\ (ret = "ERROR" => Frozen)
  /\ pc = "done" => sr = before
  /\ phase = "lock" =>
       /\ pc = "writeback" => value = Content(STATUS1) \ chip.lock
       /\ pc \in {"poll", "recheck"} =>
            \/ \E p \in pending : chip.lock \cap p = {}
            \/ pending = {} /\ (chip.lock \cap sr = {} \/ Frozen)
  /\ phase = "unprotect" =>
       /\ pc = "writeback" => /\ value = Unprotected(Content(STATUS1))
                              /\ chip.lock \cap sr = {}
       /\ pc \in {"poll", "recheck"} =>
            \/ \E p \in pending : chip.bp \cap p = {}
            \/ pending = {} /\ (chip.bp \cap sr = {} \/ Frozen)
  /\ phase \in {"lock", "unprotect"} /\ pc \in {"writeback", "poll", "recheck"} => saved # {}
  /\ phase = "restore" /\ pc = "writeback" => value = StatusBits(before)
  /\ phase = "restore" /\ pc = "poll" => \A s \in (IF pending = {} THEN {sr} ELSE pending) : s = before

Undoing ==
  /\ Unlocking /\ ~abandoned /\ pc = "working" /\ ret = "OK" => chip.bp \cap sr = {}
  /\ Unlocking /\ faults = 0 =>
       /\ \A s \in {sr} \cup pending : Reversible(s)
       /\ \A s \in saved : s = StatusBits(before)
       /\ Progress

IInv == Types /\ Controlled /\ Businesslike /\ Wanted /\ Undoing

-----------------------------------------------------------------------------
(* Chips, registers and commands                                           *)

\* What the assumption on the constants says of the chip at hand
LEMMA ChipFacts ==
  ASSUME Types
  PROVE  /\ chip \in Chip
         /\ chip.home["wpp"] # INVALID_REG => chip.access["wpp"] = "RO"
         /\ chip.lock \subseteq {"srp"} /\ chip.wp \subseteq {"wpp"}
         /\ \A b \in chip.bp \cup chip.lock \cup chip.wp : chip.home[b] = STATUS1
         /\ \A b \in chip.bp \cup chip.lock : chip.access[b] = "RW"
         /\ \A b \in Bits : Home(b) \in Registers \cup {INVALID_REG}
         /\ chip.bp \cup chip.lock \cup chip.wp \cup chip.keep \subseteq Bits
BY WriteProtectAssumption DEF Types, ChipTypes, Chip, Home

\* A range depends on nothing but the bits of a range
LEMMA DecodeSame ==
  ASSUME NEW s, NEW t, s \cap RangeBits = t \cap RangeBits
  PROVE  DecodeRange(s) = DecodeRange(t)
<1>1. /\ "bp0" \in RangeBits /\ "bp1" \in RangeBits /\ "bp2" \in RangeBits
      /\ "tb" \in RangeBits /\ "sec" \in RangeBits /\ "cmp" \in RangeBits
      /\ BP[1] = "bp0" /\ BP[2] = "bp1" /\ BP[3] = "bp2"
  BY DEF RangeBits, BP, Range
<1>2. \A b \in RangeBits : b \in s <=> b \in t
  OBVIOUS
<1>3. BpValue(s) = BpValue(t)
  BY <1>1, <1>2 DEF BpValue
<1>4. ("cmp" \in s <=> "cmp" \in t) /\ ("sec" \in s <=> "sec" \in t) /\ ("tb" \in s <=> "tb" \in t)
  BY <1>1, <1>2
<1> QED
  BY <1>3, <1>4 DEF DecodeRange

\* The bits of a register that are not there are not set; the register has the rest
LEMMA ContentFacts ==
  ASSUME NEW b \in Bits, NEW r \in Registers
  PROVE  b \in Content(r) <=> b \in sr /\ Home(b) = r
BY DEF Content

\* What a write command does to a bit
LEMMA AfterBit ==
  ASSUME Types, NEW b \in Bits
  PROVE  b \in After(Bytes) <=>
           IF /\ Home(b) = target \/ Home(b) \in 1 .. Len(back)
              /\ chip.access[b] # "RO"
              /\ chip.twoStep /\ chip.lock \cap sr # {} => b \in chip.lock
           THEN \/ b \in (IF Home(b) = target THEN value ELSE back[Home(b)])
                \/ chip.access[b] = "OTP" /\ b \in sr
           ELSE b \in sr
BY DEF Types, CallTypes, After, Bytes

LEMMA AfterTypes ==
  ASSUME Types
  PROVE  /\ After(Bytes) \subseteq PresentBits
         /\ Present("wpp") => pin = ("wpp" \notin After(Bytes))
<1>1. \A b \in Bits : Home(b) \in 1 .. Len(back) \cup {target} => Present(b)
  BY DEF Types, CallTypes, Present, INVALID_REG, Registers, STATUS1, CONFIG
<1>2. ASSUME NEW b \in After(Bytes)
      PROVE  b \in PresentBits
  <2>1. b \in Bits
    BY DEF After
  <2> QED
    BY <1>1, <2>1, AfterBit DEF PresentBits, Types, ChipTypes
<1>3. "wpp" \in Bits
  BY DEF Bits
<1>4. ASSUME Present("wpp")
      PROVE  pin = ("wpp" \notin After(Bytes))
  <2>1. chip.access["wpp"] = "RO"
    BY <1>4, ChipFacts DEF Present, Home
  <2>2. "wpp" \in After(Bytes) <=> "wpp" \in sr
    BY <1>3, <2>1, AfterBit
  <2> QED
    BY <1>4, <2>2 DEF Types, ChipTypes
<1> QED
  BY <1>2, <1>4

\* Few registers go into one command
LEMMA LowerFew ==
  ASSUME Types
  PROVE  IsFiniteSet(Lower) /\ Cardinality(Lower) \in 0 .. 2 /\ Lower = 1 .. Cardinality(Lower)
<1>1. target \in 1 .. 5 /\ chip.long \subseteq {2, 3, 5}
  BY ChipFacts DEF Types, CallTypes, Registers, Chip, STATUS1, STATUS2, STATUS3, CONFIG
<1>2. \E n \in 0 .. 2 : Lower = 1 .. n
  <2>1. CASE Lower = {}
    BY <2>1, 1 .. 0 = {}
  <2>2. CASE Lower = {STATUS1}
    BY <2>2, 1 .. 1 = {1} DEF STATUS1
  <2>3. CASE Lower = STATUS1 .. target - 1 /\ target \in chip.long /\ target # CONFIG
    BY <1>1, <2>3 DEF STATUS1, CONFIG
  <2> QED
    BY <2>1, <2>2, <2>3 DEF Lower
<1>3. PICK n \in 0 .. 2 : Lower = 1 .. n
  BY <1>2
<1>4. Cardinality(1 .. n) = n /\ IsFiniteSet(1 .. n)
  <2>1. n \in Int /\ 1 \in Int
    BY <1>3
  <2>2. Cardinality(1 .. n) = (IF 1 > n THEN 0 ELSE n - 1 + 1)
    BY ONLY <2>1, FS_Interval
  <2>3. IsFiniteSet(1 .. n)
    BY ONLY <2>1, FS_Interval
  <2> QED
    BY <2>2, <2>3, <1>3
<1> QED
  BY <1>3, <1>4

\* What the loops visit
LEMMA ReadOrderType == ReadOrder \in Seq(ProtectionBits)
<1>1. /\ "tb" \in ProtectionBits /\ "sec" \in ProtectionBits /\ "cmp" \in ProtectionBits
      /\ "srp" \in ProtectionBits /\ "srl" \in ProtectionBits /\ "wps" \in ProtectionBits
      /\ "bp0" \in ProtectionBits /\ "bp1" \in ProtectionBits /\ "bp2" \in ProtectionBits
  BY DEF ProtectionBits, RangeBits, BP, Range
<1>2. <<"wps">> \in Seq(ProtectionBits) /\ <<>> \in Seq(ProtectionBits)
  BY <1>1
<1>3. <<"tb", "sec", "cmp", "srp", "srl">> \in Seq(ProtectionBits)
  BY <1>1
<1>4. BP \in Seq(ProtectionBits)
  BY <1>1 DEF BP
<1>5. ASSUME NEW s \in Seq(ProtectionBits), NEW t \in Seq(ProtectionBits)
      PROVE  s \o t \in Seq(ProtectionBits)
  OBVIOUS
<1> DEFINE first == IF Present("wps") /\ ~Writable("wps") THEN <<"wps">> ELSE <<>>
<1>6. first \in Seq(ProtectionBits)
  BY <1>2
<1> HIDE DEF first
<1>7. first \o <<"tb", "sec", "cmp", "srp", "srl">> \in Seq(ProtectionBits)
  BY <1>3, <1>5, <1>6
<1>8. first \o <<"tb", "sec", "cmp", "srp", "srl">> \o BP \in Seq(ProtectionBits)
  BY <1>4, <1>5, <1>7
<1> QED
  BY <1>8 DEF ReadOrder, first

LEMMA InOrderVisits ==
  ASSUME NEW regs
  PROVE  InOrder(regs) \in Seq(Registers) /\ \A r \in regs \cap Registers : r \in Range(InOrder(regs))
<1> DEFINE one(r) == IF r \in regs THEN <<r>> ELSE <<>>
           two == one(STATUS1) \o one(STATUS2)
           three == two \o one(STATUS3)
           four == three \o one(SECURITY)
           five == four \o one(CONFIG)
<1>1. \A r \in Registers : one(r) \in Seq(Registers) /\ (r \in regs => r \in Range(one(r)))
  BY DEF Range
<1>2. ASSUME NEW s \in Seq(Registers), NEW t \in Seq(Registers)
      PROVE  s \o t \in Seq(Registers) /\ Range(s \o t) = Range(s) \cup Range(t)
  <2>1. \A i \in 1 .. Len(s) : (s \o t)[i] = s[i]
    OBVIOUS
  <2>2. \A i \in 1 .. Len(t) : (s \o t)[i + Len(s)] = t[i]
    OBVIOUS
  <2>3. DOMAIN (s \o t) = 1 .. Len(s) + Len(t)
    OBVIOUS
  <2>4. \A i \in DOMAIN (s \o t) : (s \o t)[i] \in Range(s) \cup Range(t)
    <3> TAKE i \in DOMAIN (s \o t)
    <3>1. CASE i <= Len(s)
      BY <2>1, <2>3, <3>1 DEF Range
    <3>2. CASE i > Len(s)
      <4>1. i - Len(s) \in 1 .. Len(t) /\ (s \o t)[i] = t[i - Len(s)]
        BY <2>2, <2>3, <3>2
      <4> QED
        BY <4>1 DEF Range
    <3> QED
      BY <2>3, <3>1, <3>2
  <2>5. \A x \in Range(s) : x \in Range(s \o t)
    BY <2>1, <2>3 DEF Range
  <2>6. \A x \in Range(t) : x \in Range(s \o t)
    <3> TAKE x \in Range(t)
    <3>1. PICK i \in 1 .. Len(t) : t[i] = x
      BY DEF Range
    <3>2. i + Len(s) \in DOMAIN (s \o t)
      BY <2>3
    <3> QED
      BY <2>2, <3>1, <3>2 DEF Range
  <2>7. \A x \in Range(s \o t) : x \in Range(s) \cup Range(t)
    BY <2>4 DEF Range
  <2> QED
    BY <2>5, <2>6, <2>7
<1>3. /\ STATUS1 \in Registers /\ STATUS2 \in Registers /\ STATUS3 \in Registers
      /\ SECURITY \in Registers /\ CONFIG \in Registers
      /\ \A r \in Registers : r \in {STATUS1, STATUS2, STATUS3, SECURITY, CONFIG}
  BY DEF Registers, STATUS1, STATUS2, STATUS3, SECURITY, CONFIG
<1> HIDE DEF one
<1>4. two \in Seq(Registers) /\ Range(two) = Range(one(STATUS1)) \cup Range(one(STATUS2))
  BY <1>1, <1>2, <1>3
<1> HIDE DEF two
<1>5. three \in Seq(Registers) /\ Range(three) = Range(two) \cup Range(one(STATUS3))
  BY <1>1, <1>2, <1>3, <1>4
<1> HIDE DEF three
<1>6. four \in Seq(Registers) /\ Range(four) = Range(three) \cup Range(one(SECURITY))
  BY <1>1, <1>2, <1>3, <1>5
<1> HIDE DEF four
<1>7. five \in Seq(Registers) /\ Range(five) = Range(four) \cup Range(one(CONFIG))
  BY <1>1, <1>2, <1>3, <1>6
<1>8. InOrder(regs) = five
  BY DEF InOrder, five, four, three, two, one
<1> HIDE DEF five
<1>9. \A r \in regs \cap Registers : r \in Range(five)
  BY <1>1, <1>3, <1>4, <1>5, <1>6, <1>7
<1> QED
  BY <1>7, <1>8, <1>9

-----------------------------------------------------------------------------
(* Types                                                                   *)

LEMMA InitTypes == Init => Types
<1> SUFFICES ASSUME Init PROVE Types
  OBVIOUS
<1>1. chip \in Chips /\ sr \in chip.initial
  BY DEF Init
<1>2. sr \subseteq PresentBits
  BY <1>1, WriteProtectAssumption DEF PresentBits, Present, Home, Chip
<1>3. ChipTypes
  BY <1>1, <1>2 DEF Init, ChipTypes
<1>4. MaxFaults \in Nat /\ MaxCalls \in Nat
  BY WriteProtectAssumption
<1>5. req \in Request
  BY DEF Init, Request, NoRange, Modes, Targets
<1>6. CallTypes
  <2>1. faults \in 0 .. MaxFaults /\ calls \in 0 .. MaxCalls
    BY <1>4 DEF Init
  <2>2. back \in Seq(SUBSET Bits) /\ Len(back) <= 2 /\ target \in Registers
    BY DEF Init, Registers, STATUS1, CONFIG
  <2>3. abandoned \in BOOLEAN /\ before \subseteq Bits
    BY <1>2 DEF Init, PresentBits
  <2> QED
    BY <1>5, <2>1, <2>2, <2>3 DEF Init, CallTypes, PCs, Results
<1> QED
  BY <1>3, <1>6 DEF Init, Types, LoopTypes

\* What becomes of a register write that has failed, and of one that has not
LEMMA WriteFailedCases ==
  ASSUME Types, WriteFailed
  PROVE  \/ /\ phase \in RegisterPhases
            /\ pc' = "done" /\ ret' = "WRITE_FAILED" /\ bits' = {} /\ todo' = <<>> /\ phase' = phase
         \/ /\ phase \in {"lock", "unprotect"}
            /\ pc' = "working" /\ ret' = "ERROR" /\ UNCHANGED <<phase, bits, todo>>
         \/ /\ phase = "restore"
            /\ pc' = "done" /\ ret' = ret /\ bits' = {} /\ todo' = <<>> /\ phase' = phase
BY DEF Types, CallTypes, WriteFailed, Finish, RegisterPhases

LEMMA WriteSucceededCases ==
  ASSUME Types, WriteSucceeded
  PROVE  \/ /\ phase \in RegisterPhases
            /\ pc' = "compare" /\ todo' = Tail(todo) /\ UNCHANGED <<ret, phase, bits>>
         \/ /\ phase \in {"lock", "unprotect"}
            /\ pc' = "recheck" /\ UNCHANGED <<ret, phase, bits, todo>>
         \/ /\ phase = "restore"
            /\ pc' = "done" /\ ret' = ret /\ bits' = {} /\ todo' = <<>> /\ phase' = phase
BY DEF Types, CallTypes, WriteSucceeded, Finish, RegisterPhases

\* The steps of unlocking and restoring
LEMMA ReadStatusCases ==
  ASSUME ReadStatus
  PROVE  /\ UNCHANGED <<chip, pin, sr, pending, req, bits, todo, calls, before, abandoned>>
         /\ pc = "status"
         /\ \/ /\ pc' = "working" /\ UNCHANGED <<phase, target, value, back>>
               /\ \/ Fault /\ ret' = "ERROR" /\ saved' = saved
                  \/ /\ UNCHANGED faults /\ Content(STATUS1) \cap chip.bp = {}
                     /\ ret' = "OK" /\ saved' = saved
                  \/ /\ UNCHANGED faults /\ ret' = "ERROR" /\ saved' = {Content(STATUS1)}
                     /\ Content(STATUS1) \cap chip.lock # {} /\ HardwareProtected(Content(STATUS1))
            \/ /\ pc' = "writeback" /\ UNCHANGED <<faults, ret>> /\ saved' = {Content(STATUS1)}
               /\ target' = STATUS1 /\ back' = <<>>
               /\ \/ /\ phase' = "unprotect" /\ value' = Unprotected(Content(STATUS1))
                     /\ Content(STATUS1) \cap chip.lock = {}
                  \/ phase' = "lock" /\ value' = Content(STATUS1) \ chip.lock
BY DEF ReadStatus, Unlocked, Start, Remembered, NoFault, write, device, history

LEMMA RecheckCases ==
  ASSUME Recheck
  PROVE  /\ UNCHANGED <<chip, pin, sr, pending, req, bits, todo, saved, calls, before, abandoned>>
         /\ pc = "recheck"
         /\ \/ /\ pc' = "working" /\ UNCHANGED <<phase, target, value, back>>
               /\ \/ Fault /\ ret' = "ERROR"
                  \/ /\ UNCHANGED faults /\ phase = "lock" /\ ret' = "ERROR"
                     /\ Content(STATUS1) \cap chip.lock # {}
                  \/ /\ UNCHANGED faults /\ phase = "unprotect" /\ ret' = "ERROR"
                     /\ Content(STATUS1) \cap chip.bp # {}
                  \/ /\ UNCHANGED faults /\ phase = "unprotect" /\ ret' = "OK"
                     /\ Content(STATUS1) \cap chip.bp = {}
            \/ /\ pc' = "writeback" /\ UNCHANGED <<faults, ret>>
               /\ target' = STATUS1 /\ back' = <<>> /\ phase = "lock" /\ phase' = "unprotect"
               /\ value' = Unprotected(Content(STATUS1)) /\ Content(STATUS1) \cap chip.lock = {}
BY DEF Recheck, Unlocked, Start, NoFault, write, device, history

LEMMA RestoreCases ==
  ASSUME Restore
  PROVE  /\ UNCHANGED <<chip, pin, sr, pending, req, ret, calls, before, faults, abandoned>>
         /\ pc = "working" /\ saved' = {}
         /\ \/ /\ saved = {} /\ pc' = "done" /\ bits' = {} /\ todo' = <<>>
               /\ UNCHANGED <<phase, target, value, back>>
            \/ /\ pc' = "writeback" /\ UNCHANGED <<bits, todo>>
               /\ phase' = "restore" /\ target' = STATUS1 /\ value' \in saved /\ back' = <<>>
BY DEF Restore, Finish, Start, write, device, history

LEMMA ChipTypesStep == Types /\ [Next]_vars => ChipTypes'
<1> SUFFICES ASSUME Types, [Next]_vars
             PROVE  ChipTypes'
  OBVIOUS
<1>1. chip' = chip /\ pin' = pin
  BY DEF Next, vars, Call, ReadBit, SetRange, Compare, StartVerify, Verify, SetMode, Writeback,
         Command, Poll, ReadStatus, Recheck, Restore, Settle
<1>2. PresentBits' = PresentBits /\ Present("wpp")' = Present("wpp")
  BY <1>1 DEF PresentBits, Present, Home
<1>3. CASE Command
  <2>1. pending' \in {pending, {}, {After(Bytes)}} /\ sr' = sr
    BY <1>3 DEF Command, Obey
  <2> QED
    BY <1>1, <1>2, <2>1, AfterTypes DEF ChipTypes, Types
<1>4. CASE Settle
  BY <1>1, <1>2, <1>4 DEF Settle, ChipTypes, Types
<1>5. CASE sr' = sr /\ pending' = pending
  BY <1>1, <1>2, <1>5 DEF ChipTypes, Types
<1> QED
  BY <1>3, <1>4, <1>5
     DEF Next, vars, device, Call, ReadBit, SetRange, Compare, StartVerify, Verify, SetMode,
         Writeback, Poll, ReadStatus, Recheck, Restore

LEMMA CallTypesStep == Types /\ Controlled /\ [Next]_vars => CallTypes'
<1> SUFFICES ASSUME Types, Controlled, [Next]_vars
             PROVE  CallTypes'
  OBVIOUS
<1>a. \A b : Home(b)' = Home(b)
  BY DEF Home, vars, Next, Call, ReadBit, SetRange, Compare, StartVerify, Verify, SetMode, Writeback,
         Command, Poll, ReadStatus, Recheck, Restore, Settle
<1>b. STATUS1 \in Registers /\ Content(STATUS1) \in SUBSET {b \in Bits : Home(b) = STATUS1}
  BY DEF STATUS1, Registers, CONFIG, Content, Types, ChipTypes, PresentBits
<1>c. MaxFaults \in Nat /\ MaxCalls \in Nat
  BY WriteProtectAssumption
<1> USE <1>a, <1>b, <1>c DEF PCs, Results, Finish, device, write, history, Fault, NoFault, Types, CallTypes
<1>1. ASSUME NEW r \in Requests, Call(r)
      PROVE  CallTypes'
  <2>1. r \in Request
    BY WriteProtectAssumption
  <2>2. sr \subseteq Bits
    BY DEF ChipTypes, PresentBits
  <2> QED
    BY <1>1, <2>1, <2>2 DEF Call
<1>2. CASE ReadBit
  BY <1>2 DEF ReadBit, LoopTypes
<1>3. CASE SetRange
  BY <1>3 DEF SetRange, WithRange, Matching, Settings, ProtectionBits
<1>4. CASE Compare
  <2>1. Head(todo) \in Registers
    BY <1>4 DEF Compare, LoopTypes
  <2>2. Merged(Head(todo)) \subseteq {b \in Bits : Home(b) = Head(todo)}
    BY DEF Merged, Content, Mask, Bits, ChipTypes, PresentBits
  <2>3. \/ UNCHANGED write
        \/ target' = Head(todo) /\ value' = Merged(Head(todo)) /\ back' = <<>>
    BY <1>4 DEF Compare
  <2>4. target' \in Registers /\ value' \subseteq {b \in Bits : Home(b)' = target'}
    <3>1. CASE UNCHANGED write
      BY <3>1
    <3>2. CASE target' = Head(todo) /\ value' = Merged(Head(todo))
      BY <2>1, <2>2, <3>2
    <3> QED
      BY <2>3, <3>1, <3>2
  <2>5. back' \in Seq(SUBSET Bits) /\ Len(back') <= 2
    <3>1. CASE back' = <<>>
      BY <3>1
    <3>2. CASE back' = back
      BY <3>2
    <3> QED
      BY <2>3, <3>1, <3>2
  <2> QED
    BY <1>4, <2>4, <2>5 DEF Compare
<1>5. CASE StartVerify
  BY <1>5 DEF StartVerify
<1>6. CASE Verify
  BY <1>6 DEF Verify
<1>7. CASE SetMode
  BY <1>7 DEF SetMode, ProtectionBits
<1>8. CASE Writeback
  <2>1. Len(back) < 2 /\ Content(Len(back) + 1) \in SUBSET Bits
    BY <1>8, LowerFew DEF Writeback, Content, ChipTypes, PresentBits
  <2>2. back' \in Seq(SUBSET Bits) /\ Len(back') <= 2
    BY <1>8, <2>1 DEF Writeback
  <2> QED
    BY <1>8, <2>2, WriteFailedCases DEF Writeback
<1>9. CASE Command
  BY <1>9, WriteFailedCases DEF Command
<1>10. CASE Poll
  <2>1. abandoned' \in BOOLEAN
    BY <1>10 DEF Poll
  <2>2. CASE WriteFailed
    BY <1>10, <2>1, <2>2, WriteFailedCases DEF Poll
  <2>3. CASE WriteSucceeded
    BY <1>10, <2>1, <2>3, WriteSucceededCases DEF Poll
  <2> QED
    BY <1>10, <2>2, <2>3 DEF Poll
<1>11. CASE ReadStatus
  <2>1. \/ UNCHANGED write
        \/ target' = STATUS1 /\ value' \subseteq Content(STATUS1) /\ back' = <<>>
    BY <1>11 DEF ReadStatus, Unlocked, Start, Unprotected
  <2>2. target' \in Registers /\ value' \subseteq {b \in Bits : Home(b)' = target'}
    <3>1. CASE UNCHANGED write
      BY <3>1
    <3>2. CASE ~UNCHANGED write
      BY <2>1, <3>2
    <3> QED
      BY <3>1, <3>2
  <2>3. back' \in Seq(SUBSET Bits) /\ Len(back') <= 2
    <3>1. CASE back' = <<>>
      BY <3>1
    <3>2. CASE back' = back
      BY <3>2
    <3> QED
      BY <2>1, <3>1, <3>2
  <2>4. saved' \subseteq SUBSET {b \in Bits : Home(b)' = STATUS1}
    BY <1>11 DEF ReadStatus, Remembered
  <2> QED
    BY <1>11, <2>2, <2>3, <2>4 DEF ReadStatus, Unlocked, Start
<1>12. CASE Recheck
  <2>1. \/ UNCHANGED write
        \/ target' = STATUS1 /\ value' \subseteq Content(STATUS1) /\ back' = <<>>
    BY <1>12 DEF Recheck, Unlocked, Start, Unprotected
  <2>2. target' \in Registers /\ value' \subseteq {b \in Bits : Home(b)' = target'}
    <3>1. CASE UNCHANGED write
      BY <3>1
    <3>2. CASE ~UNCHANGED write
      BY <2>1, <3>2
    <3> QED
      BY <3>1, <3>2
  <2>3. back' \in Seq(SUBSET Bits) /\ Len(back') <= 2
    <3>1. CASE back' = <<>>
      BY <3>1
    <3>2. CASE back' = back
      BY <3>2
    <3> QED
      BY <2>1, <3>1, <3>2
  <2> QED
    BY <1>12, <2>2, <2>3 DEF Recheck, Unlocked, Start
<1>13. CASE Restore
  <2>1. \/ UNCHANGED write
        \/ target' = STATUS1 /\ value' \in saved /\ back' = <<>>
    BY <1>13 DEF Restore, Start
  <2>2. target' \in Registers /\ value' \subseteq {b \in Bits : Home(b)' = target'}
    <3>1. CASE UNCHANGED write
      BY <3>1
    <3>2. CASE ~UNCHANGED write
      BY <2>1, <3>2
    <3> QED
      BY <3>1, <3>2
  <2>3. back' \in Seq(SUBSET Bits) /\ Len(back') <= 2
    <3>1. CASE back' = <<>>
      BY <3>1
    <3>2. CASE back' = back
      BY <3>2
    <3> QED
      BY <2>1, <3>1, <3>2
  <2> QED
    BY <1>13, <2>2, <2>3 DEF Restore, Start
<1>14. CASE Settle
  BY <1>14 DEF Settle
<1>15. CASE UNCHANGED vars
  BY <1>15 DEF vars
<1> QED
  BY <1>1, <1>2, <1>3, <1>4, <1>5, <1>6, <1>7, <1>8, <1>9, <1>10, <1>11, <1>12, <1>13, <1>14, <1>15
     DEF Next

LEMMA LoopTypesStep == Types /\ Controlled /\ [Next]_vars => LoopTypes'
<1> SUFFICES ASSUME Types, Controlled, [Next]_vars
             PROVE  LoopTypes'
  OBVIOUS
<1> USE DEF Finish, Types, LoopTypes
<1>1. ASSUME NEW r \in Requests, Call(r)
      PROVE  LoopTypes'
  BY <1>1, ReadOrderType DEF Call
<1>2. CASE ReadBit \/ Compare \/ Verify
  BY <1>2 DEF ReadBit, Compare, Verify
<1>3. CASE SetRange \/ StartVerify \/ SetMode
  BY <1>3, InOrderVisits DEF SetRange, StartVerify, SetMode
<1>4. CASE Writeback \/ Command
  BY <1>4, WriteFailedCases DEF Writeback, Command
<1>7. CASE Poll
  <2>1. todo # <<>> /\ phase \in RegisterPhases /\ pc = "poll" => Tail(todo) \in Seq(Registers)
    BY DEF Controlled
  <2> QED
    BY <1>7, <2>1, WriteFailedCases, WriteSucceededCases DEF Poll, Controlled, RegisterPhases
<1>5. CASE ReadStatus \/ Recheck \/ Restore
  BY <1>5 DEF ReadStatus, Recheck, Restore, Unlocked, Start, RegisterPhases
<1>6. CASE Settle \/ UNCHANGED vars
  BY <1>6 DEF Settle, vars
<1> QED
  BY <1>1, <1>2, <1>3, <1>4, <1>5, <1>6, <1>7 DEF Next

LEMMA TypesStep == Types /\ Controlled /\ [Next]_vars => Types'
BY ChipTypesStep, CallTypesStep, LoopTypesStep DEF Types

-----------------------------------------------------------------------------
(* Control                                                                 *)

LEMMA StepKeeps ==
  ASSUME Types, [Next]_vars
  PROVE  chip' = chip /\ pin' = pin /\ (abandoned => abandoned')
<1>1. chip' = chip /\ pin' = pin
  BY DEF Next, vars, Call, ReadBit, SetRange, Compare, StartVerify, Verify, SetMode, Writeback,
         Command, Poll, ReadStatus, Recheck, Restore, Settle
<1>2. CASE Command \/ Poll
  BY <1>1, <1>2 DEF Command, Poll, Types, CallTypes
<1>3. CASE UNCHANGED abandoned
  BY <1>1, <1>3 DEF Types, CallTypes
<1> QED
  BY <1>1, <1>2, <1>3
     DEF Next, vars, Call, ReadBit, SetRange, Compare, StartVerify, Verify, SetMode, Writeback,
         ReadStatus, Recheck, Restore, Settle

LEMMA InitControlled == Init => Controlled
BY DEF Init, Controlled, WriteCall, Unlocking

LEMMA ControlledStep == Types /\ Controlled /\ [Next]_vars => Controlled'
<1> SUFFICES ASSUME Types, Controlled, [Next]_vars
             PROVE  Controlled'
  OBVIOUS
<1>a. MaxFaults \in Nat /\ faults \in Nat /\ abandoned \in BOOLEAN
  BY WriteProtectAssumption DEF Types, CallTypes
<1>b. Fault => faults' # 0
  BY <1>a DEF Fault
<1> USE <1>a, <1>b DEF Finish, Controlled, WriteCall, Unlocking, RegisterPhases, NoFault, device, history, write
<1>1. ASSUME NEW r \in Requests, Call(r)
      PROVE  Controlled'
  <2>1. r.op \in {"write", "read", "unlock"}
    BY WriteProtectAssumption DEF Request
  <2> QED
    BY <1>1, <2>1 DEF Call
<1>2. CASE ReadBit
  BY <1>2 DEF ReadBit
<1>3. CASE SetRange
  BY <1>3 DEF SetRange, Types, CallTypes, Request
<1>4. CASE Compare
  BY <1>4 DEF Compare
<1>5. CASE StartVerify
  BY <1>5 DEF StartVerify
<1>6. CASE Verify
  BY <1>6 DEF Verify
<1>7. CASE SetMode
  BY <1>7 DEF SetMode
<1>8. CASE Writeback
  BY <1>8, WriteFailedCases DEF Writeback
<1>9. CASE Command
  BY <1>9, WriteFailedCases DEF Command
<1>10. CASE Poll
  <2>1. CASE Ready /\ NoFault /\ WriteSucceeded /\ UNCHANGED abandoned
    BY <1>10, <2>1, WriteSucceededCases DEF Poll, Ready
  <2>2. CASE Fault /\ WriteFailed /\ abandoned' = (abandoned \/ pending # {})
    BY <1>10, <2>2, WriteFailedCases DEF Poll
  <2> QED
    BY <1>10, <2>1, <2>2 DEF Poll
<1>11. CASE ReadStatus
  BY <1>11, ReadStatusCases
<1>12. CASE Recheck
  BY <1>12, RecheckCases
<1>13. CASE Restore
  BY <1>13, RestoreCases
<1>14. CASE Settle
  BY <1>14 DEF Settle
<1>15. CASE UNCHANGED vars
  BY <1>15 DEF vars
<1> QED
  BY <1>1, <1>2, <1>3, <1>4, <1>5, <1>6, <1>7, <1>8, <1>9, <1>10, <1>11, <1>12, <1>13, <1>14, <1>15
     DEF Next

-----------------------------------------------------------------------------
(* Only what is the call's business                                        *)

\* A command changes only what its bytes change, the bytes of lower registers being what
\* these hold already
LEMMA CommandDelta ==
  ASSUME Types, pc = "writeback", \A i \in 1 .. Len(back) : back[i] = Content(i)
  PROVE  Delta(After(Bytes), sr) \subseteq Delta(value, Content(target))
<1> SUFFICES ASSUME NEW b \in Delta(After(Bytes), sr)
             PROVE  b \in Delta(value, Content(target))
  OBVIOUS
<1>1. b \in Bits
  BY DEF Delta, After, Types, ChipTypes, PresentBits
<1>2. Home(b) # target /\ Home(b) \in 1 .. Len(back) => (b \in back[Home(b)] <=> b \in sr)
  BY <1>1 DEF Content
<1>3. Home(b) = target
  BY <1>1, <1>2, AfterBit DEF Delta
<1>4. b \in value <=> b \notin sr
  BY <1>1, <1>3, AfterBit DEF Delta
<1> QED
  BY <1>1, <1>3, <1>4 DEF Delta, Content

\* What write_wp_bits() writes
LEMMA MergedDelta ==
  ASSUME Types, NEW r \in Registers, WriteCall
  PROVE  Delta(Merged(r), Content(r)) \subseteq Business
BY DEF Delta, Merged, Content, Mask, Business, WriteCall

\* What unlocking writes
LEMMA UnlockDelta ==
  ASSUME Types, Unlocking
  PROVE  /\ Delta(Content(STATUS1) \ chip.lock, Content(STATUS1)) \subseteq Business
         /\ Delta(Unprotected(Content(STATUS1)), Content(STATUS1)) \subseteq Business
<1>1. Content(STATUS1) \subseteq Bits
  BY DEF Content, Types, ChipTypes, PresentBits
<1> QED
  BY <1>1 DEF Delta, Unprotected, Business, Unlocking

LEMMA InitBusinesslike == Init => Businesslike
BY DEF Init, Businesslike, Unlocking

LEMMA BusinesslikeStep ==
  Types /\ Controlled /\ Businesslike /\ [Next]_vars => Businesslike'
<1> SUFFICES ASSUME Types, Controlled, Businesslike, [Next]_vars, ~abandoned'
             PROVE  Businesslike'
  BY DEF Businesslike
<1>a. chip' = chip /\ ~abandoned
  BY StepKeeps
<1>b. \A r : sr' = sr => Content(r)' = Content(r)
  BY <1>a DEF Content, Home
<1>c. req' = req => Business' = Business
  BY <1>a DEF Business, Writable, Present, Home
<1>d. Business = IF Unlocking THEN chip.bp \cup chip.lock \cup (Bits \ chip.keep) ELSE Business
  BY DEF Business, Unlocking
<1> USE <1>a, <1>b, <1>c DEF Businesslike, Finish, Controlled, Unlocking, NoFault, device, history, write
<1>1. ASSUME NEW r \in Requests, Call(r)
      PROVE  Businesslike'
  BY <1>1 DEF Call
<1>2. CASE ReadBit \/ SetRange \/ StartVerify \/ Verify \/ SetMode
  BY <1>2 DEF ReadBit, SetRange, StartVerify, Verify, SetMode
<1>4. CASE Compare
  <2>1. Head(todo) \in Registers /\ WriteCall
    BY <1>4 DEF Compare, Types, LoopTypes
  <2>2. Delta(Merged(Head(todo)), Content(Head(todo))) \subseteq Business
    BY <2>1, MergedDelta
  <2>3. pc' = "writeback" => target' = Head(todo) /\ value' = Merged(Head(todo)) /\ back' = <<>>
    BY <1>4 DEF Compare
  <2> QED
    BY <1>4, <2>2, <2>3 DEF Compare, Delta
<1>8. CASE Writeback
  <2>1. CASE back' = Append(back, Content(Len(back) + 1))
    <3>1. \A i \in 1 .. Len(back') : back'[i] = Content(i)
      BY <1>8, <2>1 DEF Writeback, Types, CallTypes
    <3> QED
      BY <1>8, <2>1, <3>1 DEF Writeback, Delta
  <2>2. CASE WriteFailed /\ UNCHANGED back
    BY <1>8, <2>2, WriteFailedCases DEF Writeback, Delta
  <2> QED
    BY <1>8, <2>1, <2>2 DEF Writeback
<1>9. CASE Command
  <2>1. pending = {} /\ sr' = sr /\ saved' = saved /\ req' = req /\ pc' # "writeback"
    BY <1>9, WriteFailedCases DEF Command
  <2>2. pending' \subseteq {After(Bytes)}
    BY <1>9, <2>1 DEF Command, Obey
  <2>3. Delta(After(Bytes), sr) \subseteq Business
    BY <1>9, CommandDelta DEF Command
  <2> QED
    BY <2>1, <2>2, <2>3 DEF Delta
<1>10. CASE Poll
  BY <1>10, WriteFailedCases, WriteSucceededCases DEF Poll, Delta
<1>11. CASE ReadStatus
  <2>1. \A s \in saved' : Delta(s, Content(STATUS1)) \subseteq Business
    BY <1>11, ReadStatusCases DEF Delta
  <2> QED
    BY <1>11, <2>1, ReadStatusCases, UnlockDelta DEF Delta
<1>12. CASE Recheck
  BY <1>12, RecheckCases, UnlockDelta DEF Delta
<1>13. CASE Restore
  <2>1. \A s \in saved : Delta(s, Content(STATUS1)) \subseteq Business
    BY <1>13, RestoreCases
  <2> QED
    BY <1>13, <2>1, RestoreCases DEF Delta
<1>14. CASE Settle
  <2>1. PICK p \in pending : sr' = p /\ pending' = {}
    BY <1>14 DEF Settle
  <2>2. \A s \in saved : Unlocking => Delta(s, Content(STATUS1)) \subseteq Business
    OBVIOUS
  <2>3. Delta(p, sr) \subseteq Business
    OBVIOUS
  <2>4. Delta(Content(STATUS1)', Content(STATUS1)) \subseteq Business
    BY <2>1, <2>3, <1>14 DEF Content, Delta, Settle, Home
  <2>5. \A s \in saved : Unlocking => Delta(s, Content(STATUS1)') \subseteq Business
    BY <2>2, <2>4 DEF Delta
  <2> QED
    BY <1>14, <2>1, <2>5 DEF Settle
<1>15. CASE UNCHANGED vars
  BY <1>15 DEF vars, Delta
<1> QED
  BY <1>1, <1>2, <1>4, <1>8, <1>9, <1>10, <1>11, <1>12, <1>13, <1>14, <1>15
     DEF Next

\* Registers change only when a write that the chip has accepted ends
LEMMA OnlySettle ==
  ASSUME [Next]_vars, sr' # sr
  PROVE  Settle
BY DEF Next, vars, device, Call, ReadBit, SetRange, Compare, StartVerify, Verify, SetMode,
       Writeback, Command, Poll, ReadStatus, Recheck, Restore

LEMMA BusinesslikeMeant ==
  Businesslike /\ [Next]_vars => [~abandoned => (sr \ sr') \cup (sr' \ sr) \subseteq Business]_sr
BY OnlySettle DEF Settle, Businesslike, Delta

\* No call changes a bit that is not its business: of the bits a register shares with other
\* functions, and of those that can be set only once, each keeps its value, in whatever
\* register, phase and order the call writes (spi_write_register(), write_wp_bits(),
\* spi_disable_blockprotect_generic()).
THEOREM OnlyItsBusiness == Spec => OnlyMeant
<1>1. Init => Types /\ Controlled /\ Businesslike
  BY InitTypes, InitControlled, InitBusinesslike
<1>2. Types /\ Controlled /\ Businesslike /\ [Next]_vars => (Types /\ Controlled /\ Businesslike)'
  BY TypesStep, ControlledStep, BusinesslikeStep
<1> QED
  BY <1>1, <1>2, BusinesslikeMeant, PTL DEF Spec, OnlyMeant

-----------------------------------------------------------------------------
(* What is wanted, and when it is in effect                                *)

LEMMA BitSets ==
  /\ RangeBits \subseteq ProtectionBits /\ ProtectionBits \subseteq Bits
  /\ "srp" \in ProtectionBits \ RangeBits /\ "srl" \in ProtectionBits \ RangeBits
  /\ "wps" \in ProtectionBits \ RangeBits
BY DEF Bits, ProtectionBits, RangeBits, BP, Range

\* All registers agree with the bits that are wanted
LEMMA VerifiedAll ==
  ASSUME Types, bits \subseteq PresentBits,
         \A r \in Verified : Content(r) \cap ProtectionBits = {b \in bits \ {"wps"} : Home(b) = r}
  PROVE  \A b \in ProtectionBits : b \in sr <=> b \in bits \ {"wps"}
<1> SUFFICES ASSUME NEW b \in ProtectionBits
             PROVE  b \in sr <=> b \in bits \ {"wps"}
  OBVIOUS
<1>1. b \in Bits
  BY BitSets
<1>2. CASE Present(b)
  <2>1. Home(b) \in Verified
    BY <1>1, <1>2, ChipFacts DEF Verified, Present
  <2>2. b \in Content(Home(b)) <=> b \in sr
    BY DEF Content
  <2> QED
    BY <2>1, <2>2
<1>3. CASE ~Present(b)
  BY <1>3 DEF PresentBits, Types, ChipTypes
<1> QED
  BY <1>2, <1>3

LEMMA InitWanted == Init => Wanted
BY DEF Init, Wanted, Applied

LEMMA WantedStep ==
  Types /\ Controlled /\ Businesslike /\ Wanted /\ [Next]_vars => Wanted'
<1> SUFFICES ASSUME Types, Controlled, Businesslike, Wanted, [Next]_vars, ~abandoned'
             PROVE  Wanted'
  BY DEF Wanted
<1>a. chip' = chip /\ pin' = pin /\ ~abandoned
  BY StepKeeps
<1>b. \A b : Home(b)' = Home(b) /\ Present(b)' = Present(b) /\ Writable(b)' = Writable(b)
  BY <1>a DEF Home, Present, Writable
<1>c. PresentBits' = PresentBits /\ Verified' = Verified /\ Verified \subseteq Registers
  BY <1>b DEF PresentBits, Verified
<1>d. \A s : DecodeRange(s)' = DecodeRange(s)
  <2>1. BpCount' = BpCount
    BY <1>b DEF BpCount
  <2> QED
    BY <1>a, <2>1 DEF DecodeRange, BpValue, Clamp
<1>e. sr' = sr => \A r : Content(r)' = Content(r)
  BY <1>b DEF Content
<1>f. \A r : Mask(r)' = Mask(r)
  BY <1>b DEF Mask
<1>g. pc # "poll" => pending = {}
  BY <1>a DEF Controlled
<1>h. sr' = sr /\ bits' = bits => \A r : Merged(r)' = Merged(r)
  BY <1>e, <1>f DEF Merged
<1>i. WriteCall => pc \notin {"status", "recheck", "working"} /\ (pc \in {"writeback", "poll"} => phase \in RegisterPhases)
  BY DEF Controlled, WriteCall, Unlocking
<1> USE <1>a, <1>c, <1>d, <1>g DEF Wanted, Applied, WriteCall, RegisterPhases, NoFault, device, history, write
<1>1. ASSUME NEW r \in Requests, Call(r)
      PROVE  Wanted'
  BY <1>1 DEF Call, Finish
<1>2. CASE ReadBit
  BY <1>2 DEF ReadBit, Finish
<1>3. CASE SetRange
  <2>1. CASE req.op = "read" /\ Finish("OK")
    BY <1>3, <2>1 DEF SetRange, Finish
  <2>2. CASE Finish("RANGE_UNSUPPORTED")
    BY <1>3, <2>2 DEF SetRange, Finish
  <2>3. CASE bits' \in WithRange(bits, req.range) /\ phase' = "range" /\ pc' = "compare"
    <3>1. DecodeRange(bits') = req.range
      BY <2>3 DEF WithRange, Matching
    <3>2. bits \subseteq sr /\ sr \subseteq PresentBits
      BY <1>3 DEF SetRange, Types, ChipTypes
    <3>3. PICK s \in SUBSET {b \in RangeBits : Writable(b)} :
            bits' = (bits \ {b \in RangeBits : Writable(b)}) \cup s
      BY <2>3 DEF WithRange, Matching, Settings
    <3>4. bits' \subseteq PresentBits
      BY <3>2, <3>3, BitSets DEF PresentBits, Writable
    <3>5. "srp" \in bits' => "srp" \in sr
      BY <3>2, <3>3, BitSets
    <3>6. sr' = sr /\ pending' = {} /\ req' = req
      BY <1>3 DEF SetRange
    <3> QED
      BY <2>3, <3>1, <3>4, <3>5, <3>6
  <2> QED
    BY <1>3, <2>1, <2>2, <2>3 DEF SetRange
<1>4. CASE Compare
  <2>1. /\ UNCHANGED <<sr, pending, req, abandoned>>
        /\ \/ UNCHANGED <<pc, phase, bits, value, target>>
           \/ /\ pc' = "writeback" /\ UNCHANGED <<phase, bits>>
              /\ target' = Head(todo) /\ value' = Merged(target')
           \/ pc' = "done" /\ ret' = "READ_FAILED"
    BY <1>4 DEF Compare, Finish
  <2>2. pc = "compare"
    BY <1>4 DEF Compare
  <2> QED
    BY <2>1, <2>2, <1>h
<1>5. CASE StartVerify
  <2>1. \A r \in Verified : r \in Range(todo')
    BY <1>5, InOrderVisits DEF StartVerify
  <2>2. pc = "compare" /\ pc' = "verify" /\ UNCHANGED <<sr, pending, req, phase, bits, abandoned>>
    BY <1>5 DEF StartVerify
  <2> QED
    BY <2>1, <2>2
<1>6. CASE Verify
  <2>1. pc = "verify" /\ UNCHANGED <<sr, pending, req, abandoned>>
    BY <1>6 DEF Verify
  <2>2. CASE pc' = "done" /\ ret' = "READ_FAILED"
    BY <2>1, <2>2
  <2>3. CASE /\ todo' = Tail(todo) /\ UNCHANGED <<pc, phase, bits>>
             /\ ret' = IF Content(Head(todo)) \cap ProtectionBits
                            = {b \in bits \ {"wps"} : Home(b) = Head(todo)}
                         THEN ret ELSE "VERIFY_FAILED"
    <3>1. todo \in Seq(Registers) /\ todo # <<>>
      BY <1>6 DEF Verify, Types, LoopTypes
    <3>2. \A r \in Range(todo) : r = Head(todo) \/ r \in Range(Tail(todo))
      <4> TAKE r \in Range(todo)
      <4>1. PICK i \in 1 .. Len(todo) : todo[i] = r
        BY <3>1 DEF Range
      <4>2. CASE i = 1
        BY <3>1, <4>1, <4>2
      <4>3. CASE i # 1
        <5>1. i - 1 \in DOMAIN Tail(todo) /\ Tail(todo)[i - 1] = r
          BY <3>1, <4>1, <4>3
        <5> QED
          BY <5>1 DEF Range
      <4> QED
        BY <4>2, <4>3
    <3>3. ASSUME ret' = "OK", NEW r \in Verified, r \notin Range(todo')
          PROVE  Content(r) \cap ProtectionBits = {b \in bits \ {"wps"} : Home(b) = r}
      <4>1. ret = "OK" /\ Content(Head(todo)) \cap ProtectionBits
                            = {b \in bits \ {"wps"} : Home(b) = Head(todo)}
        BY <2>3, <3>3
      <4>2. r = Head(todo) \/ r \notin Range(todo)
        BY <2>3, <3>2, <3>3
      <4>3. WriteCall
        BY <2>1 DEF Controlled
      <4> QED
        BY <2>1, <4>1, <4>2, <4>3
    <3>4. \A r : {b \in bits' \ {"wps"} : Home(b)' = r} = {b \in bits \ {"wps"} : Home(b) = r}
      BY <2>3, <1>b
    <3>5. ret' = "OK" =>
            \A r \in Verified' : r \in Range(todo')
              \/ Content(r)' \cap ProtectionBits = {b \in bits' \ {"wps"} : Home(b)' = r}
      BY <2>1, <3>3, <3>4, <1>e
    <3> HIDE <2>3
    <3>6. pc' = "verify" /\ UNCHANGED <<phase, bits>>
      BY <2>1, <2>3
    <3> QED
      BY <2>1, <3>5, <3>6
  <2> QED
    BY <1>6, <2>2, <2>3 DEF Verify, Finish
<1>7. CASE SetMode
  <2>1. pc = "verify" /\ todo = <<>> /\ UNCHANGED <<sr, pending, req, abandoned>>
    BY <1>7 DEF SetMode
  <2>2. WriteCall /\ phase \in RegisterPhases /\ bits \subseteq PresentBits
        /\ DecodeRange(bits) = req.range
    BY <2>1 DEF Controlled
  <2>3. ret = "OK" => \A b \in ProtectionBits : b \in sr <=> b \in bits \ {"wps"}
    <3>1. Range(todo) = {}
      BY <2>1 DEF Range
    <3> QED
      BY <2>1, <2>2, <3>1, VerifiedAll
  <2>4. CASE Finish(ret) /\ ~Proceed
    <3>1. SUFFICES ASSUME ret = "OK"
                   PROVE  DecodeRange(sr) = req.range /\ "wps" \notin sr /\ GetMode(sr) = req.mode
      BY <2>1, <2>4 DEF Finish
    <3>2. phase = "mode"
      BY <2>2, <2>4, <3>1 DEF Proceed
    <3>3. DecodeRange(sr) = DecodeRange(bits)
      BY <2>1, <2>2, <3>2, DecodeSame
    <3>4. "wps" \notin sr /\ ("srp" \in sr <=> "srp" \in bits) /\ ("srl" \in sr <=> "srl" \in bits)
      BY <2>3, <3>1, BitSets
    <3> QED
      BY <2>1, <2>2, <3>2, <3>3, <3>4 DEF GetMode
  <2>5. CASE Finish("MODE_UNSUPPORTED") \/ Finish("CHIP_UNSUPPORTED")
    BY <2>1, <2>5 DEF Finish
  <2>6. CASE /\ Proceed /\ req.mode \notin {"power_cycle", "permanent"}
             /\ req.mode = "hardware" => Present("srp")
             /\ bits' = (bits \ {"srp", "srl"}) \cup (IF req.mode = "hardware" THEN {"srp"} ELSE {})
             /\ phase' = "mode" /\ pc' = "compare"
    <3>1. \A b \in ProtectionBits : b \in sr <=> b \in bits \ {"wps"}
      BY <2>3, <2>6 DEF Proceed
    <3>2. sr \cap RangeBits = bits' \cap RangeBits /\ bits \cap RangeBits = bits' \cap RangeBits
      BY <2>6, <3>1, BitSets
    <3>3. DecodeRange(bits') = req.range
      BY <2>2, <3>2, DecodeSame
    <3>4. bits' \subseteq PresentBits
      BY <2>2, <2>6, BitSets DEF PresentBits
    <3>5. req.mode \in Modes
      BY DEF Types, CallTypes, Request
    <3>6. GetMode(bits') = req.mode
      BY <2>6, <3>5 DEF GetMode, Modes
    <3> QED
      BY <2>1, <2>6, <3>2, <3>3, <3>4, <3>6
  <2> QED
    BY <1>7, <2>4, <2>5, <2>6 DEF SetMode
<1>8. CASE Writeback
  BY <1>8, <1>h, <1>i, WriteFailedCases DEF Writeback
<1>9. CASE Command
  <2>1. pc = "writeback" /\ UNCHANGED <<sr, req, value, target>> /\ pending = {}
    BY <1>9 DEF Command
  <2>2. pending' \subseteq {After(Bytes)}
    BY <1>9, <2>1 DEF Command, Obey
  <2>3. CASE WriteFailed
    BY <1>i, <2>1, <2>3, WriteFailedCases
  <2>4. CASE pc' = "poll" /\ UNCHANGED <<ret, phase, bits>> /\ WriteCall
    <3>1. \A b \in ProtectionBits :
            IF Home(b) = target /\ Writable(b) THEN b \in After(Bytes) => b \in bits \/ b \in sr
            ELSE b \in After(Bytes) <=> b \in sr
      <4> TAKE b \in ProtectionBits
      <4>1. b \in Bits /\ value = Merged(target)
        BY <2>1, <2>4, BitSets
      <4>2. Home(b) # target /\ Home(b) \in 1 .. Len(back) => (b \in back[Home(b)] <=> b \in sr)
        BY <2>1 DEF Businesslike, Content
      <4>3. Home(b) = target => (b \in value <=> IF Writable(b) THEN b \in bits ELSE b \in sr)
        BY <4>1 DEF Merged, Mask, Content
      <4> QED
        BY <4>1, <4>2, <4>3, AfterBit
    <3>2. \A b \in ProtectionBits : b \in bits /\ b \in sr => b \in After(Bytes)
      <4> TAKE b \in ProtectionBits
      <4>1. b \in Bits /\ value = Merged(target)
        BY <2>1, <2>4, BitSets
      <4>2. Home(b) # target /\ Home(b) \in 1 .. Len(back) => (b \in back[Home(b)] <=> b \in sr)
        BY <2>1 DEF Businesslike, Content
      <4>3. Home(b) = target => (b \in value <=> IF Writable(b) THEN b \in bits ELSE b \in sr)
        BY <4>1 DEF Merged, Mask, Content
      <4> QED
        BY <4>1, <4>2, <4>3, AfterBit
    <3>3. phase = "range" => /\ "srp" \in bits => "srp" \in After(Bytes)
                             /\ "srp" \in After(Bytes) => "srp" \in sr
      BY <2>1, <2>4, <3>1, <3>2, BitSets
    <3>4. phase = "mode" => After(Bytes) \cap RangeBits = bits \cap RangeBits
      BY <2>1, <2>4, <3>1, <3>2, BitSets
    <3> QED
      BY <2>1, <2>2, <2>4, <3>3, <3>4
  <2>5. CASE ~WriteCall /\ pc' = "poll"
    BY <2>1, <2>5
  <2> QED
    BY <1>9, <2>3, <2>4, <2>5 DEF Command
<1>10. CASE Poll
  BY <1>10, <1>i, WriteFailedCases, WriteSucceededCases DEF Poll, Ready
<1>11. CASE ReadStatus
  BY <1>11, <1>i, ReadStatusCases
<1>12. CASE Recheck
  BY <1>12, <1>i, RecheckCases
<1>13. CASE Restore
  BY <1>13, <1>i, RestoreCases
<1>14. CASE Settle
  BY <1>14 DEF Settle
<1>15. CASE UNCHANGED vars
  BY <1>15, <1>b, <1>e, <1>h DEF vars
<1> QED
  BY <1>1, <1>2, <1>3, <1>4, <1>5, <1>6, <1>7, <1>8, <1>9, <1>10, <1>11, <1>12, <1>13, <1>14, <1>15
     DEF Next

LEMMA WantedLockLast ==
  Types /\ Controlled /\ Wanted /\ [Next]_vars
    => [req.op = "write" /\ "srp" \notin sr /\ "srp" \in sr' /\ ~abandoned
          => DecodeRange(sr') = req.range]_sr
<1> SUFFICES ASSUME Types, Controlled, Wanted, [Next]_vars, sr' # sr, WriteCall, ~abandoned,
                    "srp" \notin sr, "srp" \in sr'
             PROVE  DecodeRange(sr') = req.range
  BY DEF WriteCall
<1>1. Settle
  BY OnlySettle
<1>2. sr' \in pending
  BY <1>1 DEF Settle
<1>3. pc = "poll" /\ phase \in RegisterPhases
  BY <1>2 DEF Controlled, WriteCall, Unlocking
<1>4. phase # "range"
  BY <1>2, <1>3 DEF Wanted
<1>5. sr' \cap RangeBits = bits \cap RangeBits
  BY <1>2, <1>3, <1>4 DEF Wanted, RegisterPhases
<1> QED
  BY <1>3, <1>5, DecodeSame DEF Wanted

\* A call that returns success has put the range and the mode it was given into effect, and no
\* individual block protection, whatever went wrong on the way (spi_wp_write_cfg()).
THEOREM SuccessIsApplied == Spec => []Applied
<1>1. Init => Types /\ Controlled /\ Businesslike /\ Wanted
  BY InitTypes, InitControlled, InitBusinesslike, InitWanted
<1>2. Types /\ Controlled /\ Businesslike /\ Wanted /\ [Next]_vars
        => (Types /\ Controlled /\ Businesslike /\ Wanted)'
  BY TypesStep, ControlledStep, BusinesslikeStep, WantedStep
<1>3. Wanted => Applied
  BY DEF Wanted, Applied
<1> QED
  BY <1>1, <1>2, <1>3, PTL DEF Spec

\* A call locks the registers only when they hold the range it was given (spi_wp_write_cfg():
\* the range first, the mode if that was verified).
THEOREM LocksLast == Spec => LockLast
<1>1. Init => Types /\ Controlled /\ Businesslike /\ Wanted
  BY InitTypes, InitControlled, InitBusinesslike, InitWanted
<1>2. Types /\ Controlled /\ Businesslike /\ Wanted /\ [Next]_vars
        => (Types /\ Controlled /\ Businesslike /\ Wanted)'
  BY TypesStep, ControlledStep, BusinesslikeStep, WantedStep
<1> QED
  BY <1>1, <1>2, WantedLockLast, PTL DEF Spec, LockLast

-----------------------------------------------------------------------------
(* Unlocking and the way back                                              *)

\* The lock keeps the chip from obeying, or the level of WP# does
LEMMA HardwareFrozen ==
  ASSUME Types, Content(STATUS1) \cap chip.lock # {}, HardwareProtected(Content(STATUS1))
  PROVE  Frozen
<1>1. "srp" \in sr
  BY ChipFacts DEF Content
<1>2. chip.wp = {"wpp"} /\ Home("wpp") = STATUS1 /\ "wpp" \in Bits
  BY ChipFacts DEF HardwareProtected, Home, Bits
<1>3. "wpp" \notin sr
  BY <1>2 DEF HardwareProtected, Content
<1>4. pin
  BY <1>2, <1>3 DEF Types, ChipTypes, Present, STATUS1, INVALID_REG
<1> QED
  BY <1>1, <1>4 DEF Frozen

\* Unlocking can use either kind of write enable
LEMMA UnlockSupported ==
  ASSUME Types, Controlled, Unlocking, pc = "writeback"
  PROVE  Supported /\ Lower = {}
<1>1. target = STATUS1 /\ phase \notin RegisterPhases
  BY DEF Controlled, Unlocking, WriteCall
<1>2. chip.enable \subseteq {"EWSR", "WREN"} /\ chip.long \subseteq {STATUS2, STATUS3, CONFIG}
  BY ChipFacts DEF Chip
<1>3. target \notin {STATUS2, STATUS3, CONFIG, SECURITY}
  BY <1>1 DEF STATUS1, STATUS2, STATUS3, CONFIG, SECURITY
<1> QED
  BY <1>1, <1>2, <1>3 DEF Supported, Target, Lower, RegisterPhases

\* The masks of the unlock function are about STATUS1
LEMMA MaskContent ==
  ASSUME Types
  PROVE  /\ (Content(STATUS1) \cap chip.bp = {}) <=> (chip.bp \cap sr = {})
         /\ (Content(STATUS1) \cap chip.lock = {}) <=> (chip.lock \cap sr = {})
BY ChipFacts DEF Content, Home

LEMMA InitUndoing == Init => Undoing
BY DEF Init, Undoing, Unlocking

\* One of the writes of unlocking, on a chip that obeys it
LEMMA UnlockAfter ==
  ASSUME Types, Unlocking, Lower = {}, target = STATUS1, Len(back) = 0, Reversible(sr), ~Frozen,
         \/ value = Content(STATUS1) \ chip.lock
         \/ value = Unprotected(Content(STATUS1)) /\ chip.lock \cap sr = {}
  PROVE  /\ Reversible(After(Bytes)) /\ chip.lock \cap After(Bytes) = {}
         /\ value = Unprotected(Content(STATUS1)) /\ chip.lock \cap sr = {} =>
              chip.bp \cap After(Bytes) = {}
<1>1. \A b \in Bits : b \in After(Bytes) <=>
        IF /\ Home(b) = STATUS1 /\ chip.access[b] # "RO"
           /\ chip.twoStep /\ chip.lock \cap sr # {} => b \in chip.lock
        THEN b \in value \/ (chip.access[b] = "OTP" /\ b \in sr)
        ELSE b \in sr
  BY AfterBit
<1>2. value \subseteq sr /\ value \subseteq Bits /\ sr \subseteq Bits /\ After(Bytes) \subseteq Bits
  BY DEF Content, Unprotected, Types, ChipTypes, PresentBits, After
<1>3. After(Bytes) \subseteq sr
  BY <1>1, <1>2
<1>4. \A b \in sr \ After(Bytes) : Home(b) = STATUS1 /\ chip.access[b] # "RO"
  BY <1>1, <1>2
<1>5. chip.lock \cap value = {}
  BY DEF Unprotected
<1>6. chip.lock \cap After(Bytes) = {}
  <2> SUFFICES ASSUME NEW b \in chip.lock, b \in After(Bytes)
               PROVE  FALSE
    OBVIOUS
  <2>1. b \in Bits /\ Home(b) = STATUS1 /\ chip.access[b] = "RW"
    BY <1>2, ChipFacts DEF Home
  <2> QED
    BY <1>1, <1>5, <2>1
<1>7. ~LockedWith(After(Bytes))
  BY <1>3, <1>6 DEF LockedWith, Frozen
<1>8. Reversible(After(Bytes))
  BY <1>3, <1>4, <1>7 DEF Reversible
<1>9. ASSUME value = Unprotected(Content(STATUS1)), chip.lock \cap sr = {}, NEW b \in chip.bp,
             b \in After(Bytes)
      PROVE  FALSE
  <2>1. b \in Bits /\ Home(b) = STATUS1 /\ chip.access[b] = "RW" /\ b \notin value
    BY <1>2, <1>9, ChipFacts DEF Home, Unprotected
  <2> QED
    BY <1>1, <1>9, <2>1
<1> QED
  BY <1>6, <1>8, <1>9

\* Writing the status register back restores it
LEMMA RestoreAfter ==
  ASSUME Types, target = STATUS1, Len(back) = 0, Reversible(sr), value = StatusBits(before)
  PROVE  After(Bytes) = before
<1>1. \A b \in Bits : b \in After(Bytes) <=>
        IF /\ Home(b) = STATUS1 /\ chip.access[b] # "RO"
           /\ chip.twoStep /\ chip.lock \cap sr # {} => b \in chip.lock
        THEN b \in value \/ (chip.access[b] = "OTP" /\ b \in sr)
        ELSE b \in sr
  BY AfterBit
<1>2. After(Bytes) \subseteq Bits /\ before \subseteq Bits
  BY DEF After, Types, CallTypes
<1>3. \A b \in Bits : Home(b) = STATUS1 => (b \in value <=> b \in before)
  BY DEF StatusBits
<1>4. sr \subseteq before /\ \A b \in before \ sr : Home(b) = STATUS1 /\ chip.access[b] # "RO"
  BY DEF Reversible
<1>5. chip.twoStep /\ chip.lock \cap sr # {} => sr = before
  BY DEF Reversible, LockedWith
<1>6. \A b \in Bits : b \in After(Bytes) <=> b \in before
  BY <1>1, <1>3, <1>4, <1>5
<1> QED
  BY <1>2, <1>6

LEMMA UndoingStep ==
  Types /\ Controlled /\ Businesslike /\ Undoing /\ [Next]_vars => Undoing'
<1> DEFINE Tells == Unlocking /\ ~abandoned /\ pc = "working" /\ ret = "OK" => chip.bp \cap sr = {}
           Goal == /\ \A s \in {sr} \cup pending : Reversible(s)
                   /\ \A s \in saved : s = StatusBits(before)
                   /\ Progress
           Reverts == Unlocking /\ faults = 0 => Goal
<1>a. Undoing <=> Tells /\ Reverts
  BY DEF Undoing
<1>b. ASSUME Types, Controlled, Undoing, [Next]_vars
      PROVE  Tells'
  <2> SUFFICES ASSUME (Unlocking /\ ~abandoned /\ pc = "working" /\ ret = "OK")'
               PROVE  (chip.bp \cap sr = {})'
    OBVIOUS
  <2>1. chip' = chip /\ ~abandoned
    BY <1>b, StepKeeps
  <2>2. CASE ReadStatus
    BY <1>b, <2>1, <2>2, ReadStatusCases, MaskContent
  <2>3. CASE Recheck
    BY <1>b, <2>1, <2>3, RecheckCases, MaskContent
  <2>4. CASE Settle
    BY <1>b, <2>1, <2>4 DEF Settle, Controlled
  <2>5. CASE UNCHANGED vars
    BY <1>b, <2>1, <2>5 DEF vars, device, Undoing, Unlocking
  <2>6. ASSUME NEW r \in Requests, Call(r)
        PROVE  FALSE
    BY <2>6 DEF Call, Finish
  <2>7. CASE ReadBit \/ SetRange \/ Compare \/ StartVerify \/ Verify \/ SetMode
    BY <2>7 DEF ReadBit, SetRange, Compare, StartVerify, Verify, SetMode, Finish
  <2>8. CASE Writeback \/ Command \/ Poll
    BY <1>b, <2>8, WriteFailedCases, WriteSucceededCases DEF Writeback, Command, Poll
  <2>9. CASE Restore
    BY <1>b, <2>9, RestoreCases
  <2> QED
    BY <1>b, <2>2, <2>3, <2>4, <2>5, <2>6, <2>7, <2>8, <2>9 DEF Next
<1> HIDE DEF Tells, Reverts
<1>c. ASSUME Types, Controlled, Businesslike, Undoing, [Next]_vars, faults' = 0, Unlocking'
      PROVE  Goal'
  <2>1. chip' = chip /\ pin' = pin
    BY <1>c, StepKeeps
  <2>2. faults = 0 /\ faults' = faults /\ ~Fault /\ ~abandoned
    <3>1. faults \in Nat /\ ~Fault
      BY <1>c DEF Types, CallTypes, Fault
    <3>2. faults' = faults
      BY <1>c, <3>1
         DEF Next, vars, Call, ReadBit, SetRange, Compare, StartVerify, Verify, SetMode,
             Writeback, Command, Poll, ReadStatus, Recheck, Restore, Settle, NoFault
    <3> QED
      BY <1>c, <3>1, <3>2 DEF Controlled
  <2>3. \A s : before' = before => Reversible(s)' = Reversible(s)
    BY <2>1 DEF Reversible, LockedWith, Home
  <2>4. \A s : StatusBits(s)' = StatusBits(s)
    BY <2>1 DEF StatusBits, Home
  <2>5. sr' = sr => Frozen' = Frozen /\ Content(STATUS1)' = Content(STATUS1)
    BY <2>1 DEF Frozen, Content, Home
  <2>6. \A s : Unprotected(s)' = Unprotected(s)
    BY <2>1 DEF Unprotected
  <2>7. pc # "poll" => pending = {}
    BY <1>c, <2>2 DEF Controlled
  <2>8. ASSUME ~ \E r \in Requests : Call(r)
        PROVE  Unlocking /\ Goal /\ before' = before /\ req' = req
    <3>1. req' = req /\ before' = before
      BY <1>c, <2>8
         DEF Next, vars, history, ReadBit, SetRange, Compare, StartVerify, Verify, SetMode,
             Writeback, Command, Poll, ReadStatus, Recheck, Restore, Settle
    <3> QED
      BY <1>c, <2>2, <3>1 DEF Undoing, Unlocking
  <2> HIDE DEF Goal
  <2>9. ASSUME ~ \E r \in Requests : Call(r), UNCHANGED <<sr, saved>>, pending' = pending, Progress'
        PROVE  Goal'
    BY <2>3, <2>4, <2>8, <2>9 DEF Goal
  <2>11. ASSUME NEW r \in Requests, Call(r)
         PROVE  Goal'
    <3>1. /\ pc' = "status" /\ saved' = {} /\ before' = sr /\ sr' = sr /\ pending' = {}
      BY <1>c, <2>7, <2>11 DEF Call, device, Unlocking
    <3>2. Reversible(sr)'
      BY <3>1 DEF Reversible
    <3> QED
      BY <3>1, <3>2 DEF Goal, Progress
  <2> SUFFICES ASSUME ~ \E r \in Requests : Call(r)
               PROVE  Goal'
    BY <2>11
  <2>12. ~(ReadBit \/ SetRange \/ Compare \/ StartVerify \/ Verify \/ SetMode)
    BY <1>c, <2>8 DEF Controlled, ReadBit, SetRange, Compare, StartVerify, Verify, SetMode, Unlocking, WriteCall
  <2>13. ~Writeback
    <3> SUFFICES ASSUME Writeback
                 PROVE  FALSE
      OBVIOUS
    <3>1. Lower = {} /\ Cardinality(Lower) = 0
      BY <1>c, <2>8, UnlockSupported, FS_EmptySet DEF Writeback
    <3> QED
      BY <1>c, <3>1 DEF Writeback, Types, CallTypes
  <2>14. CASE Command
    <3>1. pc = "writeback" /\ Len(back) = Cardinality(Lower) /\ UNCHANGED <<chip, pin, sr, req, write, saved, before>>
      BY <2>14 DEF Command, history
    <3>2. Supported /\ Lower = {} /\ Cardinality({}) = 0 /\ target = STATUS1
      BY <1>c, <2>8, <3>1, UnlockSupported, FS_EmptySet DEF Controlled, WriteCall, Unlocking
    <3>3. Len(back) = 0
      BY <3>1, <3>2
    <3>4. pc' = "poll" /\ Obey(Bytes) /\ UNCHANGED phase
      BY <2>2, <2>14, <3>2 DEF Command
    <3>5. pending' = IF Frozen THEN {} ELSE {After(Bytes)}
      BY <2>7, <3>1, <3>4 DEF Obey
    <3>6. Reversible(sr) /\ phase \in {"lock", "unprotect", "restore"}
      BY <1>c, <2>8, <3>1 DEF Goal, Controlled, RegisterPhases, Types, CallTypes, WriteCall, Unlocking
    <3>7. phase = "lock" => value = Content(STATUS1) \ chip.lock
      BY <2>8, <3>1 DEF Goal, Progress
    <3>8. phase = "unprotect" => value = Unprotected(Content(STATUS1)) /\ chip.lock \cap sr = {}
      BY <2>8, <3>1 DEF Goal, Progress
    <3>9. phase = "restore" => value = StatusBits(before)
      BY <2>8, <3>1 DEF Goal, Progress
    <3>10. saved # {} \/ phase = "restore"
      BY <2>8, <3>1, <3>6 DEF Goal, Progress
    <3>11. CASE Frozen
      <4>1. Frozen' /\ pending' = {} /\ (\A s \in saved : s = StatusBits(before))
        BY <2>5, <2>8, <3>1, <3>5, <3>11 DEF Goal
      <4>2. sr = before
        BY <3>6, <3>11 DEF Frozen, Reversible, LockedWith
      <4>3. Progress'
        BY <3>1, <3>4, <3>6, <3>10, <4>1, <4>2 DEF Progress
      <4> QED
        BY <2>3, <2>4, <3>1, <3>6, <4>1, <4>3 DEF Goal
    <3>12. CASE ~Frozen /\ phase # "restore"
      <4>1. /\ Reversible(After(Bytes)) /\ chip.lock \cap After(Bytes) = {}
            /\ phase = "unprotect" => chip.bp \cap After(Bytes) = {}
        BY <1>c, <2>8, <3>2, <3>3, <3>6, <3>7, <3>8, <3>12, UnlockAfter
      <4>2. pending' = {After(Bytes)} /\ (\A s \in saved : s = StatusBits(before))
        BY <2>8, <3>5, <3>12 DEF Goal
      <4> DEFINE a == After(Bytes)
      <4> HIDE DEF a
      <4>3. a \in pending' /\ chip'.lock \cap a = {} /\ (phase = "unprotect" => chip'.bp \cap a = {})
        BY <2>1, <4>1, <4>2 DEF a
      <4>4. Progress'
        BY <3>1, <3>4, <3>6, <3>10, <3>12, <4>3 DEF Progress
      <4> QED
        BY <2>3, <2>4, <2>8, <3>1, <3>6, <4>1, <4>2, <4>4 DEF Goal
    <3>13. CASE ~Frozen /\ phase = "restore"
      <4>1. After(Bytes) = before
        BY <1>c, <3>2, <3>3, <3>6, <3>9, <3>13, RestoreAfter
      <4>2. pending' = {before} /\ (\A s \in saved : s = StatusBits(before))
        BY <2>8, <3>5, <3>13, <4>1 DEF Goal
      <4>3. Reversible(before)
        BY DEF Reversible
      <4>4. Progress'
        BY <2>8, <3>1, <3>4, <3>13, <4>2 DEF Progress
      <4> QED
        BY <2>3, <2>4, <2>8, <3>1, <3>6, <4>2, <4>3, <4>4 DEF Goal
    <3> QED
      BY <3>11, <3>12, <3>13
  <2>15. CASE Poll
    <3>1. /\ pc = "poll" /\ pending = {} /\ WriteSucceeded
          /\ UNCHANGED <<chip, pin, sr, pending, req, write, saved, before>>
      BY <2>2, <2>15 DEF Poll, Ready, history, device
    <3>2. phase \in {"lock", "unprotect", "restore"}
      BY <1>c, <2>8, <3>1 DEF Controlled, RegisterPhases, Types, CallTypes, WriteCall, Unlocking
    <3>3. \/ phase \in {"lock", "unprotect"} /\ pc' = "recheck" /\ phase' = phase
          \/ phase = "restore" /\ pc' = "done" /\ phase' = phase
      BY <3>1, <3>2 DEF WriteSucceeded, Finish
    <3>4. phase = "restore" => sr = before
      BY <2>8, <3>1 DEF Goal, Progress
    <3>5. phase = "lock" => chip.lock \cap sr = {} \/ Frozen
      BY <2>8, <3>1 DEF Goal, Progress
    <3>6. phase = "unprotect" => chip.bp \cap sr = {} \/ Frozen
      BY <2>8, <3>1 DEF Goal, Progress
    <3>7. phase # "restore" => saved # {}
      BY <2>8, <3>1, <3>2 DEF Goal, Progress
    <3>8. Progress'
      BY <2>5, <2>8, <3>1, <3>3, <3>4, <3>5, <3>6, <3>7 DEF Progress
    <3> QED
      BY <2>9, <3>1, <3>8
  <2>16. CASE ReadStatus
    <3>1. /\ pc = "status" /\ UNCHANGED <<sr, pending>> /\ pending = {}
      BY <2>7, <2>16, ReadStatusCases
    <3>2. /\ Reversible(sr) /\ sr = before /\ saved = {}
      BY <2>8, <3>1 DEF Goal, Progress
    <3>3. Content(STATUS1) = StatusBits(before) /\ Content(STATUS1)' = Content(STATUS1)
      BY <2>5, <3>1, <3>2 DEF Content, StatusBits
    <3>4. \A s \in saved' : s = StatusBits(before)
      BY <2>2, <2>16, <3>2, <3>3, ReadStatusCases
    <3>5. pc' = "working" => (saved' = {} => sr' = before') /\ (ret' = "ERROR" => Frozen')
      BY <1>c, <2>2, <2>5, <2>8, <2>16, <3>1, <3>2, ReadStatusCases, HardwareFrozen
    <3>6. pc' = "writeback" =>
            /\ saved' # {}
            /\ \/ phase' = "lock" /\ value' = Content(STATUS1)' \ chip'.lock
               \/ /\ phase' = "unprotect" /\ value' = Unprotected(Content(STATUS1))'
                  /\ chip'.lock \cap sr' = {}
      <4>1. pc' = "writeback" =>
              /\ saved' = {Content(STATUS1)}
              /\ \/ /\ phase' = "unprotect" /\ value' = Unprotected(Content(STATUS1))
                    /\ Content(STATUS1) \cap chip.lock = {}
                 \/ phase' = "lock" /\ value' = Content(STATUS1) \ chip.lock
        BY <2>16, ReadStatusCases
      <4>2. (Content(STATUS1) \cap chip.lock = {}) <=> (chip.lock \cap sr = {})
        BY <1>c, MaskContent
      <4>3. Unprotected(Content(STATUS1))' = Unprotected(Content(STATUS1))
        BY <2>6, <3>3
      <4>4. CASE pc' = "writeback" /\ phase' = "lock" /\ value' = Content(STATUS1) \ chip.lock
        BY <2>1, <3>3, <4>1, <4>4
      <4>5. CASE pc' = "writeback" /\ phase' = "unprotect"
        BY <2>1, <3>1, <4>1, <4>2, <4>3, <4>5
      <4> QED
        BY <4>1, <4>4, <4>5
    <3>7. pc' \in {"working", "writeback"}
      BY <2>16, ReadStatusCases
    <3>8. Progress'
      BY <3>5, <3>6, <3>7 DEF Progress
    <3> QED
      BY <2>3, <2>4, <2>8, <3>1, <3>2, <3>4, <3>8 DEF Goal
  <2>17. CASE Recheck
    <3>1. /\ pc = "recheck" /\ UNCHANGED <<sr, pending, saved>> /\ pending = {}
      BY <2>7, <2>17, RecheckCases
    <3>2. /\ saved # {} \/ phase \notin {"lock", "unprotect"}
          /\ phase = "lock" => chip.lock \cap sr = {} \/ Frozen
          /\ phase = "unprotect" => chip.bp \cap sr = {} \/ Frozen
      BY <2>8, <3>1 DEF Goal, Progress
    <3>3. Content(STATUS1)' = Content(STATUS1) /\ Frozen' = Frozen
      BY <2>5, <3>1
    <3>4. phase \in {"lock", "unprotect"}
      BY <1>c, <3>1 DEF Controlled
    <3>5. pc' = "working" => (saved' = {} => sr' = before') /\ (ret' = "ERROR" => Frozen')
      BY <1>c, <2>2, <2>17, <3>1, <3>2, <3>3, <3>4, RecheckCases, MaskContent
    <3>6. pc' = "writeback" =>
            /\ saved' # {} /\ phase' = "unprotect"
            /\ value' = Unprotected(Content(STATUS1))' /\ chip'.lock \cap sr' = {}
      BY <1>c, <2>1, <2>6, <2>17, <3>1, <3>2, <3>3, <3>4, RecheckCases, MaskContent
    <3>7. pc' \in {"working", "writeback"}
      BY <2>17, RecheckCases
    <3>8. Progress'
      BY <3>5, <3>6, <3>7 DEF Progress
    <3> QED
      BY <2>9, <3>1, <3>8
  <2>18. CASE Restore
    <3>1. pc = "working" /\ UNCHANGED <<sr, pending>> /\ pending = {} /\ saved' = {}
      BY <2>7, <2>18, RestoreCases
    <3>2. /\ Reversible(sr) /\ (saved = {} => sr = before) /\ \A s \in saved : s = StatusBits(before)
      BY <2>8, <3>1 DEF Goal, Progress
    <3>3. \/ pc' = "done" /\ sr' = before'
          \/ pc' = "writeback" /\ phase' = "restore" /\ value' = StatusBits(before)'
      BY <2>4, <2>8, <2>18, <3>1, <3>2, RestoreCases
    <3>4. Progress'
      BY <3>3 DEF Progress
    <3> QED
      BY <2>3, <2>8, <3>1, <3>2, <3>4 DEF Goal
  <2>19. CASE Settle
    <3>1. /\ sr' \in pending /\ pending' = {} /\ pc = "poll"
          /\ UNCHANGED <<pc, ret, phase, saved>>
      BY <1>c, <2>2, <2>19 DEF Settle, Controlled
    <3>2. \A s \in pending : s = sr' /\ Reversible(s)
      BY <1>c, <2>8, <3>1 DEF Goal, Types, ChipTypes
    <3>3. /\ phase = "lock" => chip.lock \cap sr' = {}
          /\ phase = "unprotect" => chip.bp \cap sr' = {}
          /\ phase \in {"lock", "unprotect"} => saved # {}
          /\ phase = "restore" => sr' = before
      BY <2>8, <3>1, <3>2 DEF Goal, Progress
    <3>4. Progress'
      BY <2>1, <2>8, <3>1, <3>3 DEF Progress
    <3>5. \A s \in saved : s = StatusBits(before)
      BY <2>8 DEF Goal
    <3> QED
      BY <2>3, <2>4, <2>8, <3>1, <3>2, <3>4, <3>5 DEF Goal
  <2>20. CASE UNCHANGED vars
    <3>1. Progress'
      BY <2>1, <2>4, <2>5, <2>6, <2>8, <2>20 DEF vars, device, write, history, Goal, Progress
    <3> QED
      BY <2>8, <2>9, <2>20, <3>1 DEF vars, device
  <2> QED
    BY <1>c, <2>12, <2>13, <2>14, <2>15, <2>16, <2>17, <2>18, <2>19, <2>20 DEF Next
<1>d. ASSUME Types, Controlled, Businesslike, Undoing, [Next]_vars
      PROVE  Reverts'
  BY <1>c, <1>d DEF Reverts
<1>e. (Tells /\ Reverts <=> Undoing)'
  BY DEF Undoing, Tells, Reverts, Goal
<1> QED
  BY <1>b, <1>d, <1>e

\* An unlock says whether the chip is unlocked, without faults it fails only on frozen
\* registers, and the way out restores them (spi_disable_blockprotect_generic(),
\* spi_restore_status()).
THEOREM UnlockingTells == Spec => []UnlockTells
<1>1. Init => Types /\ Controlled /\ Businesslike /\ Undoing
  BY InitTypes, InitControlled, InitBusinesslike, InitUndoing
<1>2. Types /\ Controlled /\ Businesslike /\ Undoing /\ [Next]_vars
        => (Types /\ Controlled /\ Businesslike /\ Undoing)'
  BY TypesStep, ControlledStep, BusinesslikeStep, UndoingStep
<1>3. Types /\ Controlled /\ Undoing => UnlockTells
  BY DEF Types, CallTypes, Controlled, Undoing, Progress, UnlockTells, Unlocking
<1> QED
  BY <1>1, <1>2, <1>3, PTL DEF Spec

\* Every variable keeps its type, registers hold bits that the chip has, and one write at most
\* is in progress.
THEOREM TypesCorrect == Spec => []TypeOK
<1>1. Init => Types /\ Controlled
  BY InitTypes, InitControlled
<1>2. Types /\ Controlled /\ [Next]_vars => (Types /\ Controlled)'
  BY TypesStep, ControlledStep
<1>3. ASSUME Types
      PROVE  TypeOK
  <2>1. Cardinality(pending) <= 1
    <3>1. CASE pending = {}
      BY <3>1, FS_EmptySet
    <3>2. ASSUME NEW s \in pending
          PROVE  Cardinality(pending) = 1
      <4>1. pending = {s}
        BY <1>3 DEF Types, ChipTypes
      <4> QED
        BY <4>1, FS_Singleton
    <3> QED
      BY <3>1, <3>2
  <2> QED
    BY <1>3, <2>1, WriteProtectAssumption DEF Types, ChipTypes, CallTypes, TypeOK, PresentBits
<1> QED
  BY <1>1, <1>2, <1>3, PTL DEF Spec

=============================================================================
