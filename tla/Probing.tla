------------------------------ MODULE Probing ------------------------------
(***************************************************************************)
(* How a flash chip is identified (libflashprog/chips.c, libflashprog.c,   *)
(* and the probe functions of the chip drivers).  Without a name, every    *)
(* bus runs all its probes, from the highest priority down to the first    *)
(* that brings an answer, and whatever was found is matched against the    *)
(* whole database.  With a name, only that chip is looked for, with its    *)
(* own parameters, and a programmer that can adapts its voltage first.     *)
(*                                                                         *)
(* A memory bus cannot ask a chip what it is without knowing how to: the   *)
(* probes without a name go through fixed sets of size, reset sequence,    *)
(* address mask and timing, which have to cover the database.              *)
(*                                                                         *)
(* Left out: how an ID is put together from the bytes that were read, the  *)
(* parity checks, which only warn, chips that share a bus, and the option  *)
(* to ignore the limits of the voltage.                                    *)
(***************************************************************************)
EXTENDS Integers, Sequences, FiniteSets, FiniteSetsExt, Folds, FlashChips

CONSTANT Boards     \* programmers with what is connected to their buses

VARIABLES
  board,     \* its buses; how many calls are made and how much may go wrong
  ioVoltage, \* io_voltage_in_mV: what the driver takes for the voltage of a bus
  voltage,   \* what it really is
  pc, req,   \* the chip asked for, 0 for any
  bus, priority, probe,
  found,     \* found_ids of this bus
  matched,   \* entries, with their bus
  ctx, ret,
  calls, faults,
  unset      \* history: buses whose voltage could not be set the last time

volts == <<ioVoltage, voltage, unset>>
search == <<bus, priority, probe, found>>
vars == <<board, volts, pc, req, search, matched, ctx, ret, calls, faults>>

IdInfo == [type : IdTypes, manufacture : Nat, model : Nat]

\* In mV; a board's buses all start at the same voltage
Voltages == 0 .. 5500
Levels == {1200, 1500, 1800, 2500, 3300}
GENERIC_DEVICE_ID == \hFFFF
GENERIC_MANUF_ID == \hFFFF
SFDP_DEVICE_ID == \hFFFE

Buses == DOMAIN board.buses
Master == board.buses[bus]
NoContext == [chip |-> 0, bus |-> 0]

Init ==
  /\ board \in Boards
  /\ ioVoltage = [b \in Buses |-> board.voltage] /\ voltage = ioVoltage /\ unset = {}
  /\ pc = "idle" /\ req = 0 /\ bus = 0 /\ priority = 0 /\ probe = 0 /\ found = {}
  /\ matched = {} /\ ctx = NoContext /\ ret = 0 /\ calls = 0 /\ faults = 0

Fault == faults < board.faults /\ faults' = faults + 1

-----------------------------------------------------------------------------
(* The chip on a bus, and what the probes read from it                     *)

\* A chip answers with the IDs it has
Read(m, type) == {id \in m.ids : id.type = type}

\* A memory chip answers to a probe with its own parameters; many answer to others, too
Addressing(features) == features \cap {A2AA, AAAA, SHIFTED}
Replies(m, p) ==
  \/ m.eager
  \/ /\ p.size = m.set.size
     /\ Addressing(p.features) = Addressing(m.set.features)
     /\ p.timing \in {0, m.set.timing}

\* No chip was named
NULL == Memory({}, NONE, 0, 0, 0, 0, {}, 0, 0, 0, <<>>)
Set(size, features, timing) == [size |-> size, features |-> features, timing |-> timing]
SetOf(chip) == Set(chip.total_size, chip.features, chip.timing)
KiB(mib) == 1024 * mib

CommonSets ==
  {Set(size, s[1], s[2]) :
     size \in {64, 128, 256, 512, 1024},
     s \in {<<{SHORT, A2AA}, ZERO>>, <<{LONG}, 10000>>, <<{LONG}, 10>>, <<{LONG}, 1>>,
            <<{LONG}, ZERO>>}}
AdditionalSets ==
  {Set(KiB(8), {SHORT, SHIFTED, AAAA}, 10), Set(KiB(2), {SHORT}, ZERO),
   Set(KiB(2), {LONG, SHIFTED}, 10), Set(512, {LONG, SHIFTED}, 10), Set(384, {LONG}, 1),
   Set(256, {LONG, A2AA}, FIXME), Set(256, {LONG, AAAA}, ZERO), Set(128, {SHORT}, ZERO)}

\* The parameters a memory probe is run with; chip is the one that was named, if any
Sets(type, chip) ==
  IF type = W29EE011 THEN {Set(IF chip = NULL THEN 128 ELSE chip.total_size, {}, 0)}
  ELSE IF chip # NULL THEN {[SetOf(chip) EXCEPT !.timing = IF type = JEDEC THEN @ ELSE 0]}
  ELSE CASE type = JEDEC -> CommonSets \cup AdditionalSets
         [] type = JEDEC_29GL -> {Set(KiB(mib), {A2AA}, 0) : mib \in {4, 8, 16}}
         [] type = I82802AB -> {Set(size, f, 0) : size \in {32, 64, 128, 256, 512, 1024, 2048},
                                                  f \in {{}, {SHIFTED}}}

MemoryIds(m, type, chip) ==
  {[id |-> id, set |-> s] :
     id \in Read(m, type), s \in {s \in Sets(type, chip) : Replies(m, s)}}

NoSet == Set(0, {}, 0)
SfdpId == [type |-> SFDP, manufacture |-> GENERIC_MANUF_ID, model |-> SFDP_DEVICE_ID]
ProgrammerId == [type |-> OPAQUE, manufacture |-> \hFFFE, model |-> \h1]
\* Mutant: a one-byte ID counts, whatever else the chip answers to
ResUsableAlways(m) == TRUE
\* We only want one-byte RES if RDID and REMS are unusable.
ResUsable(m) == Read(m, RDID) = {} /\ Read(m, REMS) = {}

SpiIds(m, type) ==
  LET ids == CASE type = RES1 /\ ~ResUsable(m)       -> {}
               [] type = SFDP /\ Read(m, SFDP) # {}  -> {SfdpId}
               [] OTHER                              -> Read(m, type)
  IN  {[id |-> id, set |-> NoSet] : id \in ids}

SpiProbes ==
  <<[priority |-> 0, type |-> RDID], [priority |-> 0, type |-> AT25F],
    [priority |-> 0, type |-> REMS], [priority |-> 0, type |-> RES3],
    [priority |-> 0, type |-> RES2], [priority |-> 0, type |-> RES1],
    [priority |-> 0, type |-> SFDP], [priority |-> 1, type |-> ST95],
    [priority |-> 1, type |-> ST95], [priority |-> 2, type |-> EDI]>>
MemoryProbes ==
  <<[priority |-> 0, type |-> JEDEC], [priority |-> 0, type |-> JEDEC_29GL],
    [priority |-> 0, type |-> I82802AB], [priority |-> 1, type |-> W29EE011]>>
OpaqueProbes == <<[priority |-> 0, type |-> OPAQUE]>>

Probes(m) == CASE m.kind = "spi" -> SpiProbes [] m.kind = "memory" -> MemoryProbes
               [] m.kind = "opaque" -> OpaqueProbes
Ids(m, type, chip) == CASE m.kind = "spi" -> SpiIds(m, type)
                        [] m.kind = "memory" -> MemoryIds(m, type, chip)
                        [] m.kind = "opaque" -> {[id |-> ProgrammerId, set |-> NoSet]}

-----------------------------------------------------------------------------
(* Matching                                                                *)

SpiMatch(chip, f) ==
  LET id == chip.id
  IN  \/ f.id = id
      \/ f.id.manufacture = id.manufacture /\ id.model = GENERIC_DEVICE_ID
      \/ id.manufacture = GENERIC_MANUF_ID /\ f.id.manufacture \notin {\h0, \hFF}
MemoryMatch(chip, f) ==
  /\ f.id = chip.id /\ f.set.size = chip.total_size
  /\ f.set.timing \in {0, chip.timing}
  /\ f.set.features \subseteq chip.features

Match(m, chip) ==
  \E f \in found :
    /\ f.id.type = chip.id.type
    /\ CASE m.kind = "spi" -> SpiMatch(chip, f) [] m.kind = "memory" -> MemoryMatch(chip, f)
         [] m.kind = "opaque" -> f.id = chip.id

Generic(chip) == chip.id.model \in {SFDP_DEVICE_ID, GENERIC_DEVICE_ID}

\* The database is walked once; generic entries are ignored if there is a match already
NewMatches(m) ==
  LET all == {c \in DOMAIN flashchips : Match(m, flashchips[c])}
  IN  {c \in all : Generic(flashchips[c]) => matched = {} /\ \A d \in all : d >= c}

-----------------------------------------------------------------------------
(* Adapting the voltage (ni845x_spi.c)                                     *)

KEEP == 0
REFUSE == -1

\* usb8452_spi_set_io_voltage(): the table of levels is walked from the top
AtMost(mv) == {l \in Levels : l <= mv - (mv % 100)}
Lower(mv) == IF mv > 3300 \/ AtMost(mv) = {} THEN REFUSE ELSE Max(AtMost(mv))
\* Mutant: rounded down, as for a maximum
HigherDown(mv) == Lower(mv)
Higher(mv) ==
  LET above == {l \in Levels : l > mv - (mv % 100)}
  IN  CASE mv > 3300 -> REFUSE
        [] mv <= 3300 /\ AtMost(mv) = {} -> 1200
        [] mv <= 3300 /\ AtMost(mv) # {} -> IF above = {} THEN 3300 ELSE Min(above)

\* ni845x_adapt_voltage()
Wanted(b, chip) ==
  CASE board.buses[b].adapt = "none"  -> KEEP
    [] board.buses[b].adapt = "8451"  ->
         IF chip.min <= ioVoltage[b] /\ ioVoltage[b] <= chip.max
           THEN KEEP ELSE REFUSE
    [] board.buses[b].adapt = "8452"  ->
         IF ioVoltage[b] > chip.max THEN Lower(chip.max)
         ELSE IF ioVoltage[b] < chip.min THEN Higher(chip.min)
         ELSE KEEP

\* The driver notes the voltage before it knows whether it could be set, and does not take
\* that back when the library reports that it could not
Adapt(b, chip, ok) ==
  LET mv == Wanted(b, chip)
  IN  \/ mv = KEEP /\ ok /\ UNCHANGED <<volts, faults>>
      \/ mv = REFUSE /\ ~ok /\ UNCHANGED <<volts, faults>>
      \/ /\ mv \in Levels /\ ioVoltage' = [ioVoltage EXCEPT ![b] = mv]
         /\ \/ /\ ok /\ voltage' = [voltage EXCEPT ![b] = mv] /\ unset' = unset \ {b}
               /\ UNCHANGED faults
            \/ ~ok /\ Fault /\ unset' = unset \cup {b} /\ UNCHANGED voltage

-----------------------------------------------------------------------------
(* The calls                                                               *)

\* Mutant: the context of an earlier call is kept
CallStale(r) ==
  /\ pc = "idle" /\ calls < board.calls /\ calls' = calls + 1
  /\ req' = r /\ bus' = 1 /\ matched' = {} /\ pc' = "bus"
  /\ UNCHANGED <<board, volts, priority, probe, found, ctx, ret, faults>>
\* flashprog_flash_probe(); the caller has released what it got before
Call(r) ==
  /\ pc = "idle" /\ calls < board.calls /\ calls' = calls + 1
  /\ req' = r /\ bus' = 1 /\ matched' = {} /\ ctx' = NoContext /\ pc' = "bus"
  /\ UNCHANGED <<board, volts, priority, probe, found, ret, faults>>

Return(r) == ret' = r /\ pc' = "idle"
\* The chip that was named
Asked == IF req = 0 THEN NULL ELSE flashchips[req]
Wants == req # 0 => Master.buses \cap Asked.bustype # {}

\* The next bus; one that the named chip cannot be on is skipped
SkipBus ==
  /\ pc = "bus" /\ bus \in Buses /\ ~Wants /\ bus' = bus + 1
  /\ UNCHANGED <<board, volts, pc, req, priority, probe, found, matched, ctx, ret, calls, faults>>

\* If it can't be probed, assume it's there.
AssumeThere ==
  /\ pc = "bus" /\ bus \in Buses /\ Wants /\ req # 0 /\ Asked.id.type = NONE
  /\ matched' = {[chip |-> req, bus |-> bus]} /\ pc' = "prepare"
  /\ UNCHANGED <<board, volts, req, search, ctx, ret, calls, faults>>

\* We probe for a specific chip, so we can adapt the voltage early.
EnterBus ==
  /\ pc = "bus" /\ bus \in Buses /\ Wants
  /\ found' = {} /\ priority' = 0 /\ probe' = 1
  /\ \/ req = 0 /\ pc' = "probe" /\ UNCHANGED <<volts, faults, ret>>
     \/ /\ req # 0 /\ Asked.id.type # NONE
        /\ \/ Adapt(bus, Asked, TRUE) /\ pc' = "probe" /\ UNCHANGED ret
           \/ Adapt(bus, Asked, FALSE) /\ Return(2)
  /\ UNCHANGED <<board, req, bus, matched, ctx, calls>>

\* flashprog_bus_probe(): the probes of this priority that are left
Left ==
  {k \in DOMAIN Probes(Master) : /\ k >= probe /\ Probes(Master)[k].priority = priority
                                 /\ req # 0 => Probes(Master)[k].type = Asked.id.type}
LeastPriority == Max({Probes(Master)[k].priority : k \in DOMAIN Probes(Master)})

\* One probe; it may find nothing although there is something, and when it is RDID or REMS
\* that fails, one-byte RES is taken
RunProbe ==
  /\ pc = "probe" /\ Left # {} /\ probe' = Min(Left) + 1
  /\ LET type == Probes(Master)[Min(Left)].type
     IN  \/ found' = found \cup Ids(Master, type, Asked) /\ UNCHANGED faults
         \/ Fault /\ UNCHANGED found
         \/ /\ type = RES1 /\ ~ResUsable(Master) /\ Fault
            /\ found' = found \cup {[id |-> id, set |-> NoSet] : id \in Read(Master, RES1)}
  /\ UNCHANGED <<board, volts, pc, req, bus, priority, matched, ctx, ret, calls>>

\* Skip lower-priority probing if any chip replied.
NextPriority ==
  /\ pc = "probe" /\ Left = {}
  /\ IF found # {} \/ priority = LeastPriority
       THEN pc' = "match" /\ UNCHANGED <<priority, probe>>
       ELSE priority' = priority + 1 /\ probe' = 1 /\ UNCHANGED pc
  /\ UNCHANGED <<board, volts, req, bus, found, matched, ctx, ret, calls, faults>>

\* Mutant: what was matched on other buses is forgotten
MatchAnyLast ==
  /\ pc = "match" /\ req = 0
  /\ matched' = {[chip |-> c, bus |-> bus] : c \in NewMatches(Master)}
  /\ bus' = bus + 1 /\ pc' = "bus"
  /\ UNCHANGED <<board, volts, req, priority, probe, found, ctx, ret, calls, faults>>
\* flashprog_chips_probe_bus()
MatchAny ==
  /\ pc = "match" /\ req = 0
  /\ matched' = matched \cup {[chip |-> c, bus |-> bus] : c \in NewMatches(Master)}
  /\ bus' = bus + 1 /\ pc' = "bus"
  /\ UNCHANGED <<board, volts, req, priority, probe, found, ctx, ret, calls, faults>>

\* flashprog_chip_probe()
MatchNamed ==
  /\ pc = "match" /\ req # 0
  /\ IF Match(Master, Asked)
       THEN matched' = {[chip |-> req, bus |-> bus]} /\ pc' = "prepare" /\ UNCHANGED bus
       ELSE bus' = bus + 1 /\ pc' = "bus" /\ UNCHANGED matched
  /\ UNCHANGED <<board, volts, req, priority, probe, found, ctx, ret, calls, faults>>

\* flashprog_flash_probe_any(): exactly one chip is expected
Count ==
  /\ pc = "bus" /\ bus \notin Buses
  /\ \/ matched = {} /\ Return(2)
     \/ Cardinality(matched) = 1 /\ pc' = "prepare" /\ UNCHANGED ret
     \/ Cardinality(matched) > 1 /\ Return(3)
  /\ UNCHANGED <<board, volts, req, search, matched, ctx, calls, faults>>

Only == CHOOSE x \in matched : TRUE

\* flashprog_flash_prepare_context(); no memory, no mapping, no four-byte mode
PrepareContext ==
  /\ pc = "prepare"
  /\ \/ Adapt(Only.bus, flashchips[Only.chip], TRUE) /\ pc' = "access" /\ UNCHANGED ret
     \/ Adapt(Only.bus, flashchips[Only.chip], FALSE) /\ Return(4)
  /\ UNCHANGED <<board, req, search, matched, ctx, calls>>
PrepareAccess ==
  /\ pc = "access"
  /\ \/ ctx' = Only /\ Return(0) /\ UNCHANGED faults
     \/ \E r \in {1, 4} : Fault /\ Return(r) /\ UNCHANGED ctx
  /\ UNCHANGED <<board, volts, req, search, matched, calls>>

Next ==
  \/ \E r \in {0} \cup board.names : Call(r)
  \/ SkipBus \/ AssumeThere \/ EnterBus \/ RunProbe \/ NextPriority
  \/ MatchAny \/ MatchNamed \/ Count \/ PrepareContext \/ PrepareAccess

Spec == Init /\ [][Next]_vars

-----------------------------------------------------------------------------
(* Properties                                                              *)

TypeOK ==
  /\ unset \subseteq Buses
  /\ ioVoltage \in [Buses -> Voltages] /\ voltage \in [Buses -> Voltages]
  /\ pc \in {"idle", "bus", "probe", "match", "prepare", "access"}
  /\ req \in {0} \cup DOMAIN flashchips /\ bus \in 0 .. Len(board.buses) + 1
  /\ priority \in 0 .. 2 /\ probe \in 0 .. 11
  /\ \A f \in found : f.id \in IdInfo
  /\ matched \subseteq [chip : DOMAIN flashchips, bus : Buses]
  /\ ctx = NoContext \/ ctx \in matched
  /\ ret \in 0 .. 4 /\ calls \in 0 .. board.calls /\ faults \in 0 .. board.faults

Ended == pc = "idle" /\ calls > 0
Attached(b) == board.buses[b].chip
Probed(c) ==
  c # 0 /\ LET chip == flashchips[c] IN ~Generic(chip) /\ chip.id.type # NONE

\* Some parameters that a probe without a name is run with bring a match for a memory chip; a
\* chip without a reset sequence, whose probe is run with one, has none (MCProbing)
Covered(b) ==
  \A k \in DOMAIN b.buses :
    LET m == b.buses[k]
    IN  m.kind = "memory" /\ Probed(m.chip) =>
          \E f \in MemoryIds(m, flashchips[m.chip].id.type, NULL) :
            MemoryMatch(flashchips[m.chip], f)

\* "Name of a chip to probe for, or NULL to probe for all known chips": a chip of the database
\* that is connected is among the matches of a probe for all, and a probe for its name finds it
\* (flashprog_flash_probe(); the parameters of probe_jedec() and its like).
Found ==
  Ended /\ faults = 0 =>
    \A b \in Buses : Probed(Attached(b)) =>
      /\ req = 0 => [chip |-> Attached(b), bus |-> b] \in matched
      /\ req = Attached(b) /\ (\A a \in Buses : board.buses[a].adapt = "none") =>
           ret = 0 /\ ctx.chip = req /\ ctx.bus <= b

\* Nothing is taken for the chip that has another ID than the one on that bus; a generic entry
\* is taken when its name is given, or when nothing else on that bus matched
\* (flashprog_chips_probe_bus(), "We only want one-byte RES if RDID and REMS are unusable").
Genuine ==
  faults = 0 =>
    \A x \in matched :
      \/ flashchips[x.chip].id.type = NONE
      \/ Attached(x.bus) # 0 /\ flashchips[x.chip].id = flashchips[Attached(x.bus)].id
      \/ Generic(flashchips[x.chip]) /\ (req = 0 => \A y \in matched : y.bus = x.bus => y = x)

\* A chip that a programmer has been handed out for that can choose its voltage, and the
\* voltage at which it is operated
HandedOut == Ended /\ ret = 0 /\ board.buses[ctx.bus].adapt # "none"
Stands ==
  flashchips[ctx.chip].min <= voltage[ctx.bus] /\ voltage[ctx.bus] <= flashchips[ctx.chip].max

\* A chip handed to the caller is operated within its limits by a programmer that can choose,
\* whatever was probed before it and whatever voltage that needed, if the last setting of the
\* voltage succeeded (ni845x_adapt_voltage()); settings that failed before that do no harm.
VoltageFits == HandedOut /\ ctx.bus \notin unset => Stands

\* Without that condition it does not hold: after a setting that failed the driver believes in
\* a voltage that nobody has set, so that the next probe may find nothing to change although the
\* "IO voltage which was set in mVolts" is another (ni845x_spi.c, ProbingVoltage.cfg).
VoltageAlwaysFits == HandedOut => Stands

-----------------------------------------------------------------------------
(* What the database has to be like (flashprog.c)                          *)

Before(e, i) == MapThenFoldSet(+, 0, LAMBDA j : e.blocks[j][1] * e.blocks[j][2],
                               LAMBDA s : CHOOSE j \in s : TRUE, 1 .. i - 1)
Bytes(e) == Before(e, Len(e.blocks) + 1)
Blocks(e) == MapThenFoldSet(+, 0, LAMBDA i : e.blocks[i][2],
                            LAMBDA s : CHOOSE i \in s : TRUE, DOMAIN e.blocks)
Implemented(chip) ==
  {k \in DOMAIN chip.erasers : /\ chip.erasers[k].fn # "none"
                                        /\ Bytes(chip.erasers[k]) # 0}

\* selfcheck_eraseblocks(): every eraser covers the chip, no function serves two of them,
\* and they come with ever larger blocks
SelfCheck(chip) ==
  LET ers == chip.erasers
  IN  /\ \A k \in DOMAIN ers :
           /\ \A i \in DOMAIN ers[k].blocks : ers[k].blocks[i][1] > 0 /\ ers[k].blocks[i][2] > 0
           /\ Bytes(ers[k]) \in {0, 1024 * chip.total_size}
      /\ \A j, k \in Implemented(chip) :
           j < k => ers[j].fn # ers[k].fn /\ Blocks(ers[j]) >= Blocks(ers[k])

\* A block of eraser d ends at this offset
EndsIn(d, at) ==
  \E r \in DOMAIN d.blocks :
    LET off == at - Before(d, r)
    IN  /\ 0 < off /\ off <= d.blocks[r][1] * d.blocks[r][2] /\ off % d.blocks[r][1] = 0

\* What the selection of erase blocks takes for granted, and selfcheck_eraseblocks() does not
\* look at: the blocks of an eraser are unions of blocks of the one before
Nested(chip) ==
  LET ers == chip.erasers
  IN  \A j, k \in Implemented(chip) : j < k =>
        \A r \in DOMAIN ers[k].blocks : \A i \in 1 .. ers[k].blocks[r][2] :
          EndsIn(ers[j], Before(ers[k], r) + i * ers[k].blocks[r][1])

ASSUME DatabaseAssumption ==
  \A c \in DOMAIN flashchips : SelfCheck(flashchips[c]) /\ Nested(flashchips[c])

\* What else matching and the choice of a voltage take for granted of the entries: an entry for
\* any vendor is for any model; the generic ones are SPI chips and come after all other chips;
\* W29EE011 and its like are addressed like their probe addresses them; and a level that one of
\* a chip's limits is rounded to does not pass the other
ASSUME EntriesAssumption ==
  /\ DOMAIN flashchips \subseteq Nat \ {0}
  /\ \A c \in DOMAIN flashchips :
       LET chip == flashchips[c]
       IN  /\ chip.id \in IdInfo /\ {chip.min, chip.max} \subseteq Nat
           /\ chip.id.manufacture = GENERIC_MANUF_ID => Generic(chip)
           /\ Generic(chip) => chip.id.type \in {RDID, REMS, SFDP}
           /\ chip.id.type = SFDP => Generic(chip)
           /\ chip.id.type = W29EE011 => Addressing(chip.features) = {}
           /\ Lower(chip.max) # REFUSE => chip.min <= Lower(chip.max)
           /\ 0 < chip.min /\ Higher(chip.min) # REFUSE => Higher(chip.min) <= chip.max
  /\ \A c, d \in DOMAIN flashchips :
       Generic(flashchips[c]) /\ ~Generic(flashchips[d]) /\ flashchips[d].id.type # OPAQUE => d < c

\* What may be connected to a bus: a chip of the database, which answers with its ID, and if that
\* is one of RDID or REMS to one-byte RES with anything; or one that the database lacks
ProbeTypes(m) == {Probes(m)[k].type : k \in DOMAIN Probes(m)}
Wired(m) ==
  /\ m.kind \in {"spi", "memory", "opaque"} /\ m.adapt \in {"none", "8451", "8452"}
  /\ m.ids \subseteq IdInfo /\ m.eager \in BOOLEAN
  /\ \/ /\ m.chip = 0 /\ m.kind # "opaque"
        /\ \A id \in m.ids : \A c \in DOMAIN flashchips :
             flashchips[c].id = id => Generic(flashchips[c])
     \/ /\ m.chip \in DOMAIN flashchips
        /\ LET chip == flashchips[m.chip]
           IN  /\ m.buses \cap chip.bustype # {} /\ chip.id.type \in ProbeTypes(m)
               /\ chip.id \in m.ids
               /\ \A id \in m.ids \ {chip.id} : id.type = RES1 /\ chip.id.type \in {RDID, REMS}
               /\ m.kind = "memory" => m.set = SetOf(chip)
               /\ m.kind = "opaque" => chip.id = ProgrammerId
ASSUME BoardsAssumption ==
  \A b \in Boards :
    /\ Len(b.buses) \in Nat /\ DOMAIN b.buses = 1 .. Len(b.buses)
    /\ \A k \in DOMAIN b.buses : Wired(b.buses[k])
    /\ b.names \subseteq DOMAIN flashchips
    /\ b.voltage \in Voltages /\ b.calls \in Nat /\ b.faults \in Nat

=============================================================================
