--------------------------- MODULE ProbingProofs ---------------------------
(***************************************************************************)
(* What Probing promises, proved for every set of boards, with any number  *)
(* of buses, calls and faults.                                             *)
(***************************************************************************)
EXTENDS Probing, SequenceLemmas, FiniteSetTheorems

-----------------------------------------------------------------------------
(* Boards and probes                                                       *)

LEMMA BoardIs ==
  ASSUME board \in Boards
  PROVE  /\ Len(board.buses) \in Nat /\ Buses = 1 .. Len(board.buses)
         /\ \A b \in Buses : Wired(board.buses[b])
         /\ board.names \subseteq DOMAIN flashchips
         /\ board.voltage \in Voltages /\ board.calls \in Nat /\ board.faults \in Nat
  BY BoardsAssumption DEF Buses

LEMMA KindIs ==
  ASSUME NEW m, Wired(m)
  PROVE  m.kind \in {"spi", "memory", "opaque"} /\ m.adapt \in {"none", "8451", "8452"}
         /\ m.ids \subseteq IdInfo
  BY DEF Wired

\* The probes of a bus, one by one
LEMMA ProbesAre ==
  ASSUME NEW m, Wired(m)
  PROVE  /\ DOMAIN Probes(m) = 1 .. Len(Probes(m)) /\ Len(Probes(m)) \in 1 .. 10
         /\ \A k \in DOMAIN Probes(m) : Probes(m)[k].priority \in 0 .. 2
         /\ \A j, k \in DOMAIN Probes(m) :
              Probes(m)[j].type = Probes(m)[k].type => Probes(m)[j].priority = Probes(m)[k].priority
         /\ \A k \in DOMAIN Probes(m) :
              Probes(m)[k].type \in {RDID, REMS} => Probes(m)[k].priority = 0
<1>1. CASE m.kind = "spi"
  BY <1>1 DEF Probes, SpiProbes, RDID, AT25F, REMS, RES1, RES2, RES3, SFDP, ST95, EDI
<1>2. CASE m.kind = "memory"
  BY <1>2 DEF Probes, MemoryProbes, JEDEC, JEDEC_29GL, I82802AB, W29EE011, RDID, REMS
<1>3. CASE m.kind = "opaque"
  BY <1>3 DEF Probes, OpaqueProbes, OPAQUE, RDID, REMS
<1> QED
  BY <1>1, <1>2, <1>3, KindIs

LEMMA LeastIs ==
  ASSUME bus \in Buses, Wired(Master)
  PROVE  /\ LeastPriority \in 0 .. 2
         /\ \A k \in DOMAIN Probes(Master) : Probes(Master)[k].priority <= LeastPriority
<1> DEFINE T == {Probes(Master)[k].priority : k \in DOMAIN Probes(Master)}
<1>1. /\ DOMAIN Probes(Master) = 1 .. Len(Probes(Master)) /\ Len(Probes(Master)) \in 1 .. 10
      /\ \A k \in DOMAIN Probes(Master) : Probes(Master)[k].priority \in 0 .. 2
  BY ProbesAre
<1>2. T \subseteq 0 .. 2 /\ T # {}
  <2>1. 1 \in DOMAIN Probes(Master)
    BY <1>1
  <2> QED
    BY <1>1, <2>1
<1>3. \A k \in DOMAIN Probes(Master) : Probes(Master)[k].priority \in T
  OBVIOUS
<1>4. LeastPriority = Max(T)
  BY DEF LeastPriority
<1> HIDE DEF T
<1>5. Max(T) \in T /\ \A x \in T : x <= Max(T)
  BY <1>2, MaxIn
<1> QED
  BY <1>2, <1>3, <1>4, <1>5

LEMMA LeftIs ==
  ASSUME bus \in Buses, Wired(Master), probe \in Nat, Left # {}
  PROVE  /\ Min(Left) \in Left /\ \A k \in Left : Min(Left) <= k
         /\ Min(Left) \in DOMAIN Probes(Master) /\ Min(Left) \in 1 .. 10
         /\ Probes(Master)[Min(Left)].priority = priority /\ Min(Left) >= probe
<1>1. DOMAIN Probes(Master) = 1 .. Len(Probes(Master)) /\ Len(Probes(Master)) \in 1 .. 10
  BY ProbesAre
<1>2. Left \subseteq DOMAIN Probes(Master) /\ Left \subseteq 0 .. 10
  BY <1>1 DEF Left
<1>3. Min(Left) \in Left
  BY <1>2, MinIn
<1>4. \A k \in Left : Min(Left) <= k
  BY <1>2, MinIn
<1> QED
  BY <1>1, <1>2, <1>3, <1>4 DEF Left

\* What a probe finds is an ID
LEMMA IdsTyped ==
  ASSUME NEW m, Wired(m), NEW type, NEW chip, NEW f \in Ids(m, type, chip)
  PROVE  f.id \in IdInfo
<1>1. m.ids \subseteq IdInfo
  BY KindIs
<1>2. SfdpId \in IdInfo
  <2>1. SFDP \in IdTypes
    BY DEF IdTypes
  <2> QED
    BY <2>1 DEF SfdpId, IdInfo, GENERIC_MANUF_ID, SFDP_DEVICE_ID
<1>3. ProgrammerId \in IdInfo
  <2>1. OPAQUE \in IdTypes
    BY DEF IdTypes
  <2> QED
    BY <2>1 DEF ProgrammerId, IdInfo
<1>4. \A t : Read(m, t) \subseteq IdInfo
  BY <1>1 DEF Read
<1>5. CASE m.kind = "spi"
  <2>1. f \in SpiIds(m, type)
    BY <1>5 DEF Ids
  <2>2. f.id \in Read(m, type) \cup {SfdpId}
    BY <2>1 DEF SpiIds
  <2> QED
    BY <1>2, <1>4, <2>2
<1>6. CASE m.kind = "memory"
  <2>1. f \in MemoryIds(m, type, chip)
    BY <1>6 DEF Ids
  <2>2. f.id \in Read(m, type)
    BY <2>1 DEF MemoryIds
  <2> QED
    BY <1>4, <2>2
<1>7. CASE m.kind = "opaque"
  <2>1. f.id = ProgrammerId
    BY <1>7 DEF Ids
  <2> QED
    BY <1>3, <2>1
<1> QED
  BY <1>5, <1>6, <1>7, KindIs

LEMMA LevelsAre == Levels \subseteq Voltages
  BY DEF Levels, Voltages

-----------------------------------------------------------------------------
(* Types                                                                   *)

Types ==
  /\ board \in Boards /\ TypeOK
  /\ pc \in {"probe", "match"} => bus \in Buses
  /\ pc = "bus" => bus >= 1
  /\ pc = "probe" => priority <= LeastPriority
  /\ pc \in {"prepare", "access"} => matched # {}
  /\ pc # "idle" => ctx = NoContext

LEMMA CallTypes ==
  ASSUME Types, NEW r \in {0} \cup board.names, Call(r)
  PROVE  Types'
<1>1. /\ board' = board /\ Buses' = Buses /\ bus' = 1 /\ pc' = "bus" /\ req' = r /\ matched' = {}
      /\ ctx' = NoContext /\ calls' = calls + 1 /\ calls < board.calls
      /\ UNCHANGED <<volts, priority, probe, found, ret, faults>>
  BY DEF Call, Buses
<1>2. r \in {0} \cup DOMAIN flashchips /\ Len(board.buses) \in Nat /\ board.calls \in Nat
  BY BoardIs DEF Types
<1>3. calls + 1 \in 0 .. board.calls
  BY <1>1, <1>2 DEF Types, TypeOK
<1>4. TypeOK'
  BY <1>1, <1>2, <1>3 DEF Types, TypeOK, volts
<1> QED
  BY <1>1, <1>4 DEF Types

LEMMA SkipBusTypes ==
  ASSUME Types, SkipBus
  PROVE  Types'
<1>1. /\ board' = board /\ Buses' = Buses /\ bus' = bus + 1 /\ bus \in Buses /\ pc = "bus"
      /\ UNCHANGED <<volts, pc, req, priority, probe, found, matched, ctx, ret, calls, faults>>
  BY DEF SkipBus, Buses
<1>2. Len(board.buses) \in Nat /\ Buses = 1 .. Len(board.buses)
  BY BoardIs DEF Types
<1>3. TypeOK'
  BY <1>1, <1>2 DEF Types, TypeOK, volts
<1> QED
  BY <1>1, <1>2, <1>3 DEF Types

LEMMA AssumeThereTypes ==
  ASSUME Types, AssumeThere
  PROVE  Types'
<1>1. /\ board' = board /\ Buses' = Buses /\ bus \in Buses /\ pc = "bus" /\ req # 0
      /\ matched' = {[chip |-> req, bus |-> bus]} /\ pc' = "prepare"
      /\ UNCHANGED <<volts, req, bus, priority, probe, found, ctx, ret, calls, faults>>
  BY DEF AssumeThere, Buses, search
<1>2. matched' \subseteq [chip : DOMAIN flashchips, bus : Buses] /\ matched' # {}
  BY <1>1 DEF Types, TypeOK
<1>3. ctx = NoContext
  BY <1>1 DEF Types
<1>4. TypeOK'
  BY <1>1, <1>2, <1>3 DEF Types, TypeOK, volts
<1> QED
  BY <1>1, <1>2, <1>3, <1>4 DEF Types

\* What a voltage is set to is one of the levels
LEMMA AdaptTypes ==
  ASSUME Types, NEW b \in Buses, NEW chip, NEW ok, Adapt(b, chip, ok)
  PROVE  /\ ioVoltage' \in [Buses -> Voltages] /\ voltage' \in [Buses -> Voltages]
         /\ unset' \subseteq Buses /\ faults' \in 0 .. board.faults
<1>1. /\ ioVoltage \in [Buses -> Voltages] /\ voltage \in [Buses -> Voltages]
      /\ unset \subseteq Buses /\ faults \in 0 .. board.faults /\ board.faults \in Nat
  BY BoardIs DEF Types, TypeOK
<1>2. CASE UNCHANGED <<volts, faults>>
  BY <1>1, <1>2 DEF volts
<1>3. CASE ~UNCHANGED <<volts, faults>>
  <2>1. PICK mv \in Levels :
          /\ ioVoltage' = [ioVoltage EXCEPT ![b] = mv]
          /\ \/ /\ voltage' = [voltage EXCEPT ![b] = mv] /\ unset' = unset \ {b}
                /\ UNCHANGED faults
             \/ Fault /\ unset' = unset \cup {b} /\ UNCHANGED voltage
    BY <1>3 DEF Adapt
  <2>2. mv \in Voltages
    BY LevelsAre
  <2>3. ioVoltage' \in [Buses -> Voltages]
    BY <1>1, <2>1, <2>2
  <2>4. CASE voltage' = [voltage EXCEPT ![b] = mv] /\ unset' = unset \ {b} /\ UNCHANGED faults
    BY <1>1, <2>2, <2>3, <2>4
  <2>5. CASE Fault /\ unset' = unset \cup {b} /\ UNCHANGED voltage
    BY <1>1, <2>3, <2>5 DEF Fault
  <2> QED
    BY <2>1, <2>4, <2>5
<1> QED
  BY <1>2, <1>3

LEMMA EnterBusTypes ==
  ASSUME Types, EnterBus
  PROVE  Types'
<1>1. /\ board' = board /\ Buses' = Buses /\ Master' = Master /\ bus' = bus /\ bus \in Buses
      /\ pc = "bus" /\ found' = {} /\ priority' = 0 /\ probe' = 1
      /\ UNCHANGED <<req, matched, ctx, calls>>
  BY DEF EnterBus, Buses, Master
<1>2. /\ ioVoltage' \in [Buses -> Voltages] /\ voltage' \in [Buses -> Voltages]
      /\ unset' \subseteq Buses /\ faults' \in 0 .. board.faults
      /\ \/ pc' = "probe" /\ ret' = ret
         \/ pc' = "idle" /\ ret' = 2
  <2>1. CASE pc' = "probe" /\ UNCHANGED <<volts, faults, ret>>
    BY <2>1 DEF Types, TypeOK, volts
  <2>2. CASE Adapt(bus, Asked, TRUE) /\ pc' = "probe" /\ UNCHANGED ret
    BY <1>1, <2>2, AdaptTypes
  <2>3. CASE Adapt(bus, Asked, FALSE) /\ Return(2)
    BY <1>1, <2>3, AdaptTypes DEF Return
  <2> QED
    BY <2>1, <2>2, <2>3 DEF EnterBus
<1>3. LeastPriority' = LeastPriority
  BY <1>1 DEF LeastPriority
<1>4. LeastPriority >= 0
  BY <1>1, LeastIs, BoardIs DEF Types, Master
<1>5. TypeOK'
  BY <1>1, <1>2 DEF Types, TypeOK
<1>6. (pc # "idle" => ctx = NoContext)'
  BY <1>1, <1>2 DEF Types, NoContext
<1> QED
  BY <1>1, <1>2, <1>3, <1>4, <1>5, <1>6 DEF Types

LEMMA RunProbeTypes ==
  ASSUME Types, RunProbe
  PROVE  Types'
<1>1. /\ board' = board /\ Buses' = Buses /\ Master' = Master /\ bus' = bus /\ pc = "probe"
      /\ pc' = pc /\ Left # {} /\ probe' = Min(Left) + 1
      /\ UNCHANGED <<volts, req, priority, matched, ctx, ret, calls>>
  BY DEF RunProbe, Buses, Master
<1>2. bus \in Buses /\ Wired(Master)
  BY <1>1, BoardIs DEF Types, Master
<1>3. probe' \in 0 .. 11
  <2>1. probe \in Nat
    BY DEF Types, TypeOK
  <2> QED
    BY <1>1, <1>2, <2>1, LeftIs
<1>4. faults' \in 0 .. board.faults
  <2>1. faults \in 0 .. board.faults /\ board.faults \in Nat
    BY BoardIs DEF Types, TypeOK
  <2>2. faults' = faults \/ Fault
    BY DEF RunProbe
  <2> QED
    BY <2>1, <2>2 DEF Fault
<1>5. \A f \in found' : f.id \in IdInfo
  <2>1. \A f \in found : f.id \in IdInfo
    BY DEF Types, TypeOK
  <2> DEFINE t == Probes(Master)[Min(Left)].type
  <2>2. CASE found' = found \cup Ids(Master, t, Asked)
    BY <1>2, <2>1, <2>2, IdsTyped
  <2>3. CASE found' = found
    BY <2>1, <2>3
  <2>4. CASE found' = found \cup {[id |-> id, set |-> NoSet] : id \in Read(Master, RES1)}
    <3>1. Read(Master, RES1) \subseteq IdInfo
      BY <1>2, KindIs DEF Read
    <3> QED
      BY <2>1, <2>4, <3>1
  <2> QED
    BY <2>2, <2>3, <2>4 DEF RunProbe
<1>6. LeastPriority' = LeastPriority
  BY <1>1 DEF LeastPriority
<1>7. TypeOK'
  BY <1>1, <1>3, <1>4, <1>5 DEF Types, TypeOK, volts
<1>8. (pc # "idle" => ctx = NoContext)'
  BY <1>1 DEF Types, NoContext
<1> QED
  BY <1>1, <1>6, <1>7, <1>8 DEF Types

LEMMA NextPriorityTypes ==
  ASSUME Types, NextPriority
  PROVE  Types'
<1>1. /\ board' = board /\ Buses' = Buses /\ Master' = Master /\ bus' = bus /\ pc = "probe"
      /\ \/ pc' = "match" /\ UNCHANGED <<priority, probe>>
         \/ priority # LeastPriority /\ priority' = priority + 1 /\ probe' = 1 /\ pc' = pc
      /\ UNCHANGED <<volts, req, found, matched, ctx, ret, calls, faults>>
  BY DEF NextPriority, Buses, Master
<1>2. bus \in Buses /\ Wired(Master)
  BY <1>1, BoardIs DEF Types, Master
<1>3. LeastPriority' = LeastPriority /\ LeastPriority \in 0 .. 2
  <2>1. LeastPriority' = LeastPriority
    BY <1>1 DEF LeastPriority
  <2> QED
    BY <1>2, <2>1, LeastIs
<1>4. /\ priority' \in 0 .. 2 /\ probe' \in 0 .. 11
      /\ pc' = "probe" => priority' <= LeastPriority'
  <2>1. priority \in 0 .. 2 /\ probe \in 0 .. 11 /\ priority <= LeastPriority
    BY <1>1 DEF Types, TypeOK
  <2>2. CASE pc' = "match" /\ UNCHANGED <<priority, probe>>
    BY <2>1, <2>2
  <2>3. CASE priority # LeastPriority /\ priority' = priority + 1 /\ probe' = 1 /\ pc' = pc
    BY <1>3, <2>1, <2>3
  <2> QED
    BY <1>1, <2>2, <2>3
<1>5. TypeOK'
  BY <1>1, <1>4 DEF Types, TypeOK, volts
<1>6. (pc # "idle" => ctx = NoContext)'
  BY <1>1 DEF Types, NoContext
<1> QED
  BY <1>1, <1>2, <1>4, <1>5, <1>6 DEF Types

LEMMA MatchesTyped ==
  ASSUME bus \in Buses
  PROVE  {[chip |-> c, bus |-> bus] : c \in NewMatches(Master)} \subseteq [chip : DOMAIN flashchips, bus : Buses]
  BY DEF NewMatches

LEMMA MatchAnyTypes ==
  ASSUME Types, MatchAny
  PROVE  Types'
<1>1. /\ board' = board /\ Buses' = Buses /\ bus' = bus + 1 /\ pc = "match" /\ pc' = "bus"
      /\ matched' = matched \cup {[chip |-> c, bus |-> bus] : c \in NewMatches(Master)}
      /\ UNCHANGED <<volts, req, priority, probe, found, ctx, ret, calls, faults>>
  BY DEF MatchAny, Buses
<1>2. bus \in Buses /\ Buses = 1 .. Len(board.buses) /\ Len(board.buses) \in Nat
  BY <1>1, BoardIs DEF Types
<1>3. matched' \subseteq [chip : DOMAIN flashchips, bus : Buses]
  <2>1. matched \subseteq [chip : DOMAIN flashchips, bus : Buses]
    BY DEF Types, TypeOK
  <2> QED
    BY <1>1, <1>2, <2>1, MatchesTyped
<1>4. ctx = NoContext
  BY <1>1 DEF Types
<1>5. TypeOK'
  BY <1>1, <1>2, <1>3, <1>4 DEF Types, TypeOK, volts, NoContext
<1>6. (pc # "idle" => ctx = NoContext)'
  BY <1>1, <1>4 DEF NoContext
<1> QED
  BY <1>1, <1>2, <1>5, <1>6 DEF Types

LEMMA MatchNamedTypes ==
  ASSUME Types, MatchNamed
  PROVE  Types'
<1>1. /\ board' = board /\ Buses' = Buses /\ pc = "match" /\ req # 0
      /\ \/ matched' = {[chip |-> req, bus |-> bus]} /\ pc' = "prepare" /\ bus' = bus
         \/ bus' = bus + 1 /\ pc' = "bus" /\ matched' = matched
      /\ UNCHANGED <<volts, req, priority, probe, found, ctx, ret, calls, faults>>
  BY DEF MatchNamed, Buses
<1>2. bus \in Buses /\ Buses = 1 .. Len(board.buses) /\ Len(board.buses) \in Nat
  BY <1>1, BoardIs DEF Types
<1>3. req \in DOMAIN flashchips
  BY <1>1 DEF Types, TypeOK
<1>4. ctx = NoContext
  BY <1>1 DEF Types
<1>5. TypeOK'
  BY <1>1, <1>2, <1>3, <1>4 DEF Types, TypeOK, volts, NoContext
<1>6. (pc # "idle" => ctx = NoContext)'
  BY <1>1, <1>4 DEF NoContext
<1>7. /\ (pc \in {"probe", "match"} => bus \in Buses)'
      /\ (pc = "probe" => priority <= LeastPriority)'
      /\ (pc \in {"prepare", "access"} => matched # {})'
  BY <1>1
<1>8. (pc = "bus" => bus >= 1)'
  BY <1>1, <1>2
<1> QED
  BY <1>1, <1>5, <1>6, <1>7, <1>8 DEF Types

LEMMA CountTypes ==
  ASSUME Types, Count
  PROVE  Types'
<1>1. /\ board' = board /\ Buses' = Buses /\ pc = "bus"
      /\ UNCHANGED <<volts, req, bus, priority, probe, found, matched, ctx, calls, faults>>
  BY DEF Count, Buses, search
<1>2. \/ pc' = "idle" /\ ret' \in {2, 3}
      \/ pc' = "prepare" /\ ret' = ret /\ matched # {}
  <2>1. matched = {} => Cardinality(matched) = 0
    BY FS_EmptySet
  <2>2. \/ Return(2) \/ Return(3)
        \/ matched # {} /\ pc' = "prepare" /\ UNCHANGED ret
    BY <2>1 DEF Count
  <2> QED
    BY <2>2 DEF Return
<1>3. ctx = NoContext
  BY <1>1 DEF Types
<1>5. TypeOK'
  BY <1>1, <1>2, <1>3 DEF Types, TypeOK, volts, NoContext
<1>6. (pc # "idle" => ctx = NoContext)'
  BY <1>1, <1>3 DEF NoContext
<1> QED
  BY <1>1, <1>2, <1>5, <1>6 DEF Types

LEMMA OnlyIs ==
  ASSUME Types, pc \in {"prepare", "access"}
  PROVE  Only \in matched /\ Only.bus \in Buses /\ Only.chip \in DOMAIN flashchips
<1>1. Only \in matched
  BY DEF Types, Only
<1> QED
  BY <1>1 DEF Types, TypeOK

LEMMA PrepareContextTypes ==
  ASSUME Types, PrepareContext
  PROVE  Types'
<1>1. /\ board' = board /\ Buses' = Buses /\ pc = "prepare"
      /\ UNCHANGED <<req, bus, priority, probe, found, matched, ctx, calls>>
  BY DEF PrepareContext, Buses, search
<1>2. /\ ioVoltage' \in [Buses -> Voltages] /\ voltage' \in [Buses -> Voltages]
      /\ unset' \subseteq Buses /\ faults' \in 0 .. board.faults
      /\ \/ pc' = "access" /\ ret' = ret
         \/ pc' = "idle" /\ ret' = 4
  <2>1. Only.bus \in Buses
    BY <1>1, OnlyIs
  <2>2. CASE Adapt(Only.bus, flashchips[Only.chip], TRUE) /\ pc' = "access" /\ UNCHANGED ret
    BY <2>1, <2>2, AdaptTypes
  <2>3. CASE Adapt(Only.bus, flashchips[Only.chip], FALSE) /\ Return(4)
    BY <2>1, <2>3, AdaptTypes DEF Return
  <2> QED
    BY <2>2, <2>3 DEF PrepareContext
<1>3. ctx = NoContext /\ matched # {}
  BY <1>1 DEF Types
<1>5. TypeOK'
  BY <1>1, <1>2, <1>3 DEF Types, TypeOK, NoContext
<1>6. (pc # "idle" => ctx = NoContext)'
  BY <1>1, <1>3 DEF NoContext
<1> QED
  BY <1>1, <1>2, <1>3, <1>5, <1>6 DEF Types

LEMMA PrepareAccessTypes ==
  ASSUME Types, PrepareAccess
  PROVE  Types'
<1>1. /\ board' = board /\ Buses' = Buses /\ pc = "access" /\ pc' = "idle"
      /\ UNCHANGED <<volts, req, bus, priority, probe, found, matched, calls>>
  BY DEF PrepareAccess, Return, Buses, search
<1>2. /\ faults' \in 0 .. board.faults /\ ret' \in 0 .. 4
      /\ ctx' = ctx \/ ctx' = Only
  <2>1. faults \in 0 .. board.faults /\ board.faults \in Nat
    BY BoardIs DEF Types, TypeOK
  <2> QED
    BY <2>1 DEF PrepareAccess, Return, Fault
<1>3. ctx' = NoContext \/ ctx' \in matched
  BY <1>1, <1>2, OnlyIs DEF Types
<1>5. TypeOK'
  BY <1>1, <1>2, <1>3 DEF Types, TypeOK, volts, NoContext
<1> QED
  BY <1>1, <1>5 DEF Types

LEMMA InitTypes == Init => Types
<1> SUFFICES ASSUME Init PROVE Types
  OBVIOUS
<1>1. Len(board.buses) \in Nat /\ board.voltage \in Voltages /\ board.calls \in Nat /\ board.faults \in Nat
  BY BoardIs DEF Init
<1>2. ioVoltage \in [Buses -> Voltages] /\ voltage \in [Buses -> Voltages]
  BY <1>1 DEF Init
<1>3. /\ pc = "idle" /\ req = 0 /\ bus = 0 /\ priority = 0 /\ probe = 0 /\ found = {}
      /\ matched = {} /\ ctx = NoContext /\ ret = 0 /\ calls = 0 /\ faults = 0 /\ unset = {}
  BY DEF Init
<1>4. TypeOK
  <2>1. bus \in 0 .. Len(board.buses) + 1 /\ calls \in 0 .. board.calls /\ faults \in 0 .. board.faults
    BY <1>1, <1>3
  <2>2. matched \subseteq [chip : DOMAIN flashchips, bus : Buses] /\ \A f \in found : f.id \in IdInfo
    BY <1>3
  <2>3. unset \subseteq Buses
    BY <1>3
  <2>4. /\ pc \in {"idle", "bus", "probe", "match", "prepare", "access"}
        /\ req \in {0} \cup DOMAIN flashchips /\ priority \in 0 .. 2 /\ probe \in 0 .. 11
        /\ ret \in 0 .. 4
    BY <1>3
  <2> QED
    BY <1>2, <1>3, <2>1, <2>2, <2>3, <2>4 DEF TypeOK
<1> QED
  BY <1>3, <1>4 DEF Init, Types

LEMMA StepTypes == Types /\ [Next]_vars => Types'
<1> SUFFICES ASSUME Types, [Next]_vars PROVE Types'
  OBVIOUS
<1>1. CASE UNCHANGED vars
  BY <1>1 DEF Types, TypeOK, vars, volts, search, Buses, NoContext, LeastPriority, Master
<1>2. CASE Next
  BY <1>2, CallTypes, SkipBusTypes, AssumeThereTypes, EnterBusTypes, RunProbeTypes,
     NextPriorityTypes, MatchAnyTypes, MatchNamedTypes, CountTypes, PrepareContextTypes,
     PrepareAccessTypes DEF Next
<1> QED
  BY <1>1, <1>2

LEMMA TypesHold == Spec => []Types
  BY InitTypes, StepTypes, PTL DEF Spec

\* Every bus that is probed is one of the programmer's, every probe one of its table, every
\* match an entry of the database on a bus, and the context is one of the matches
\* (flashprog_flash_probe(), flashprog_bus_probe()).
THEOREM TypesCorrect == Spec => []TypeOK
<1>1. Types => TypeOK
  BY DEF Types
<1> QED
  BY <1>1, TypesHold, PTL

-----------------------------------------------------------------------------
(* The voltage a chip is operated with                                     *)

LEMMA LevelOf ==
  ASSUME NEW l \in Levels
  PROVE  l \in 1200 .. 3300 /\ \E k \in Nat : l = 100 * k
<1>1. CASE l = 1200
  BY <1>1
<1>2. CASE l = 1500
  BY <1>2
<1>3. CASE l = 1800
  BY <1>3
<1>4. CASE l = 2500
  BY <1>4
<1>5. CASE l = 3300
  BY <1>5
<1> QED
  BY <1>1, <1>2, <1>3, <1>4, <1>5 DEF Levels

LEMMA LevelsPositive == \A l \in Levels : l > 0
  BY DEF Levels

LEMMA OneOfLevels ==
  ASSUME NEW T \in SUBSET Levels, T # {}
  PROVE  Min(T) \in T /\ Max(T) \in T
<1>1. PICK n \in Nat : Levels \subseteq 0 .. n
  <2> DEFINE top == 3300
  <2>1. Levels \subseteq 0 .. top /\ top \in Nat
    BY LevelOf
  <2> HIDE DEF top
  <2> QED
    BY <2>1
<1>2. T \in SUBSET (0 .. n)
  BY <1>1
<1> QED
  BY <1>2, MinIn, MaxIn

LEMMA Hundreds ==
  ASSUME NEW mv \in Nat
  PROVE  /\ mv - (mv % 100) \in Int /\ mv - (mv % 100) <= mv
         /\ \A k \in Nat : 100 * k > mv - (mv % 100) => 100 * k >= mv
  OBVIOUS

LEMMA LowerIs ==
  ASSUME NEW mv \in Nat
  PROVE  Lower(mv) # REFUSE => Lower(mv) \in Levels /\ Lower(mv) <= mv
<1>1. AtMost(mv) \in SUBSET Levels
  BY DEF AtMost
<1>2. ASSUME AtMost(mv) # {} PROVE Max(AtMost(mv)) \in Levels /\ Max(AtMost(mv)) <= mv
  <2>1. Max(AtMost(mv)) \in AtMost(mv)
    BY <1>1, <1>2, OneOfLevels
  <2>2. Max(AtMost(mv)) \in Levels /\ Max(AtMost(mv)) <= mv - (mv % 100)
    BY <2>1 DEF AtMost
  <2>3. Max(AtMost(mv)) \in Int
    BY <2>2, LevelOf
  <2> QED
    BY <2>2, <2>3, Hundreds
<1>3. Lower(mv) # REFUSE => AtMost(mv) # {} /\ Lower(mv) = Max(AtMost(mv))
  BY DEF Lower
<1> QED
  BY <1>2, <1>3

LEMMA HigherIs ==
  ASSUME NEW mv \in Nat
  PROVE  Higher(mv) # REFUSE => Higher(mv) \in Levels /\ Higher(mv) >= mv
<1> DEFINE above == {l \in Levels : l > mv - (mv % 100)}
<1>1. 1200 \in Levels /\ 3300 \in Levels
  BY DEF Levels
<1>2. CASE mv > 3300
  <2>1. Higher(mv) = REFUSE
    BY <1>2 DEF Higher
  <2> QED
    BY <2>1
<1>3. CASE mv <= 3300 /\ AtMost(mv) = {}
  <2>1. Higher(mv) = 1200
    BY <1>3 DEF Higher
  <2>2. ~(1200 <= mv - (mv % 100))
    BY <1>1, <1>3 DEF AtMost
  <2>3. 1200 >= mv
    BY <2>2, Hundreds, 1200 = 100 * 12
  <2> QED
    BY <1>1, <2>1, <2>3
<1>4. CASE mv <= 3300 /\ AtMost(mv) # {}
  <2>1. Higher(mv) = IF above = {} THEN 3300 ELSE Min(above)
    BY <1>4 DEF Higher
  <2>2. ASSUME above # {} PROVE Min(above) \in Levels /\ Min(above) >= mv
    <3>1. above \in SUBSET Levels
      OBVIOUS
    <3>2. Min(above) \in above
      <4> HIDE DEF above
      <4> QED
        BY <2>2, <3>1, OneOfLevels
    <3>3. Min(above) \in Levels /\ Min(above) > mv - (mv % 100)
      BY <3>2
    <3> QED
      BY <3>3, Hundreds, LevelOf
  <2> QED
    BY <1>1, <1>4, <2>1, <2>2
<1> QED
  BY <1>2, <1>3, <1>4

Fits(mv, c) == flashchips[c].min <= mv /\ mv <= flashchips[c].max

\* A voltage that is chosen for a chip is within its limits
LEMMA WantedFits ==
  ASSUME Types, NEW b \in Buses, NEW c \in DOMAIN flashchips, board.buses[b].adapt # "none",
         Wanted(b, flashchips[c]) # REFUSE
  PROVE  /\ Wanted(b, flashchips[c]) = KEEP => Fits(ioVoltage[b], c)
         /\ Wanted(b, flashchips[c]) # KEEP => Fits(Wanted(b, flashchips[c]), c)
<1> DEFINE chip == flashchips[c]
<1>1. board.buses[b].adapt \in {"8451", "8452"}
  BY BoardIs, KindIs DEF Types
<1>2. ioVoltage[b] \in Nat
  <2>1. ioVoltage[b] \in Voltages
    BY DEF Types, TypeOK
  <2>2. Voltages \subseteq Nat
    BY DEF Voltages
  <2> QED
    BY <2>1, <2>2
<1>3. /\ chip.min \in Nat /\ chip.max \in Nat
      /\ Lower(chip.max) # REFUSE => chip.min <= Lower(chip.max)
      /\ 0 < chip.min /\ Higher(chip.min) # REFUSE => Higher(chip.min) <= chip.max
  BY EntriesAssumption
<1>4. \A l \in Levels : l # KEEP
  BY LevelsPositive DEF KEEP
<1> HIDE DEF chip
<1>5. CASE board.buses[b].adapt = "8451"
  <2>1. Wanted(b, chip) = IF chip.min <= ioVoltage[b] /\ ioVoltage[b] <= chip.max
                            THEN KEEP ELSE REFUSE
    BY <1>5 DEF Wanted
  <2> QED
    BY <2>1 DEF Fits, chip
<1>6. CASE board.buses[b].adapt = "8452"
  <2>1. Wanted(b, chip) = IF ioVoltage[b] > chip.max THEN Lower(chip.max)
                          ELSE IF ioVoltage[b] < chip.min THEN Higher(chip.min)
                          ELSE KEEP
    BY <1>6 DEF Wanted
  <2>2. CASE ioVoltage[b] > chip.max
    BY <1>3, <1>4, <2>1, <2>2, LowerIs DEF Fits, chip
  <2>3. CASE ~(ioVoltage[b] > chip.max) /\ ioVoltage[b] < chip.min
    BY <1>2, <1>3, <1>4, <2>1, <2>3, HigherIs DEF Fits, chip
  <2>4. CASE ~(ioVoltage[b] > chip.max) /\ ~(ioVoltage[b] < chip.min)
    BY <1>2, <1>3, <2>1, <2>4 DEF Fits, chip
  <2> QED
    BY <2>2, <2>3, <2>4
<1> QED
  BY <1>1, <1>5, <1>6

\* Unless it could not be set the last time, the voltage of a bus is the one the driver takes it for
InAgreement == \A a \in Buses \ unset : voltage[a] = ioVoltage[a]

LEMMA AdaptAgrees ==
  ASSUME Types, InAgreement, NEW b \in Buses, NEW chip, NEW ok, Adapt(b, chip, ok),
         board' = board
  PROVE  InAgreement'
<1>0. Buses' = Buses
  BY DEF Buses
<1>1. CASE UNCHANGED <<volts, faults>>
  BY <1>0, <1>1 DEF InAgreement, volts
<1>2. CASE ~UNCHANGED <<volts, faults>>
  <2>1. PICK mv \in Levels :
          /\ ioVoltage' = [ioVoltage EXCEPT ![b] = mv]
          /\ \/ voltage' = [voltage EXCEPT ![b] = mv] /\ unset' = unset \ {b}
             \/ voltage' = voltage /\ unset' = unset \cup {b}
    BY <1>2 DEF Adapt
  <2>2. ioVoltage \in [Buses -> Voltages] /\ voltage \in [Buses -> Voltages]
    BY DEF Types, TypeOK
  <2>3. ASSUME NEW a \in Buses \ unset' PROVE voltage'[a] = ioVoltage'[a]
    <3>1. CASE a = b
      BY <2>1, <2>2, <2>3, <3>1
    <3>2. CASE a # b
      BY <2>1, <2>2, <2>3, <3>2 DEF InAgreement
    <3> QED
      BY <3>1, <3>2
  <2> QED
    BY <1>0, <2>3 DEF InAgreement
<1> QED
  BY <1>1, <1>2

LEMMA AdaptFits ==
  ASSUME Types, InAgreement, NEW b \in Buses, NEW c \in DOMAIN flashchips,
         board.buses[b].adapt # "none", Adapt(b, flashchips[c], TRUE), b \notin unset'
  PROVE  Fits(voltage'[b], c)
<1> DEFINE mv == Wanted(b, flashchips[c])
<1>1. ioVoltage \in [Buses -> Voltages] /\ voltage \in [Buses -> Voltages]
  BY DEF Types, TypeOK
<1>2. REFUSE # KEEP /\ KEEP \notin Levels /\ REFUSE \notin Levels
  <2>1. \A l \in Levels : l > 0
    BY LevelsPositive
  <2> QED
    BY <2>1 DEF KEEP, REFUSE
<1>3. CASE mv = KEEP /\ UNCHANGED volts
  <2>1. voltage'[b] = ioVoltage[b]
    BY <1>3 DEF InAgreement, volts
  <2> QED
    BY <1>2, <1>3, <2>1, WantedFits
<1>4. CASE mv \in Levels /\ voltage' = [voltage EXCEPT ![b] = mv]
  <2>1. voltage'[b] = mv
    BY <1>1, <1>4
  <2> QED
    BY <1>2, <1>4, <2>1, WantedFits
<1> QED
  BY <1>3, <1>4 DEF Adapt

-----------------------------------------------------------------------------
(* Within the limits                                                       *)

Adapts(b) == board.buses[b].adapt # "none"
Fitting ==
  /\ Types /\ InAgreement
  /\ pc = "access" /\ Only.bus \notin unset /\ Adapts(Only.bus) =>
       Fits(voltage[Only.bus], Only.chip)
  /\ Ended /\ ret = 0 /\ ctx.bus \notin unset /\ Adapts(ctx.bus) =>
       Fits(voltage[ctx.bus], ctx.chip)

LEMMA InitFitting == Init => Fitting
<1> SUFFICES ASSUME Init PROVE Fitting
  OBVIOUS
<1>1. Types
  BY InitTypes
<1>2. calls = 0 /\ pc = "idle" /\ voltage = ioVoltage
  BY DEF Init
<1> QED
  BY <1>1, <1>2 DEF Fitting, InAgreement, Ended

\* Only the voltage of a bus that is probed by name, or of the only match, is touched
LEMMA StepAgrees ==
  ASSUME Types, InAgreement, Next
  PROVE  InAgreement'
<1>1. CASE EnterBus
  <2>1. bus \in Buses /\ board' = board
    BY <1>1 DEF EnterBus
  <2>2. \/ UNCHANGED volts
        \/ \E ok \in BOOLEAN : Adapt(bus, Asked, ok)
    BY <1>1 DEF EnterBus
  <2>3. CASE UNCHANGED volts
    BY <2>1, <2>3 DEF InAgreement, volts, Buses
  <2> QED
    BY <2>1, <2>2, <2>3, AdaptAgrees
<1>2. CASE PrepareContext
  <2>1. Only.bus \in Buses /\ board' = board
    BY <1>2, OnlyIs DEF PrepareContext
  <2>2. \E ok \in BOOLEAN : Adapt(Only.bus, flashchips[Only.chip], ok)
    BY <1>2 DEF PrepareContext
  <2> QED
    BY <2>1, <2>2, AdaptAgrees
<1>3. CASE ~EnterBus /\ ~PrepareContext
  <2>1. UNCHANGED volts /\ board' = board
    BY <1>3 DEF Next, Call, SkipBus, AssumeThere, RunProbe, NextPriority, MatchAny, MatchNamed,
       Count, PrepareAccess
  <2> QED
    BY <2>1 DEF InAgreement, volts, Buses
<1> QED
  BY <1>1, <1>2, <1>3

LEMMA StepFitting == Fitting /\ [Next]_vars => Fitting'
<1> SUFFICES ASSUME Fitting, [Next]_vars PROVE Fitting'
  OBVIOUS
<1>1. CASE UNCHANGED vars
  <2>1. Types'
    BY StepTypes DEF Fitting
  <2>2. UNCHANGED <<board, ioVoltage, voltage, unset, pc, matched, ctx, ret, calls>> /\ Only' = Only
    BY <1>1 DEF vars, volts, Only
  <2> QED
    BY <2>1, <2>2 DEF Fitting, InAgreement, Buses, Ended, Adapts, Fits
<1>2. CASE Next
  <2>1. Types'
    BY StepTypes DEF Fitting
  <2>2. InAgreement'
    BY <1>2, StepAgrees DEF Fitting
  <2>3. CASE PrepareContext
    <3>1. pc = "prepare" /\ Only' = Only /\ board' = board
      BY <2>3 DEF PrepareContext, Only
    <3>2. Only.bus \in Buses /\ Only.chip \in DOMAIN flashchips
      BY <3>1, OnlyIs DEF Fitting
    <3>3. CASE Return(4)
      BY <2>1, <2>2, <3>3 DEF Fitting, Return
    <3>4. CASE Adapt(Only.bus, flashchips[Only.chip], TRUE) /\ pc' = "access"
      <4>1. ASSUME Only.bus \notin unset', Adapts(Only.bus) PROVE Fits(voltage'[Only.bus], Only.chip)
        BY <3>2, <3>4, <4>1, AdaptFits DEF Fitting, Adapts
      <4> QED
        BY <2>1, <2>2, <3>1, <3>4, <4>1 DEF Fitting, Ended, Adapts, Fits
    <3> QED
      BY <2>3, <3>3, <3>4 DEF PrepareContext
  <2>4. CASE PrepareAccess
    <3>1. /\ pc = "access" /\ pc' = "idle" /\ board' = board /\ UNCHANGED <<voltage, unset, matched>>
          /\ ret' = 0 => ctx' = Only
      BY <2>4 DEF PrepareAccess, Return, volts
    <3>2. pc = "access" /\ Only.bus \notin unset /\ Adapts(Only.bus) =>
            Fits(voltage[Only.bus], Only.chip)
      BY DEF Fitting
    <3> QED
      BY <2>1, <2>2, <3>1, <3>2 DEF Fitting, Adapts, Fits
  <2>5. CASE ~PrepareContext /\ ~PrepareAccess
    <3>1. pc' # "access" /\ (pc' = "idle" => ret' # 0)
      <4>1. CASE EnterBus
        <5>1. pc' = "probe" \/ Return(2)
          BY <4>1 DEF EnterBus
        <5> QED
          BY <5>1 DEF Return
      <4>2. CASE Count
        BY <4>2 DEF Count, Return
      <4>3. CASE ~EnterBus /\ ~Count
        BY <1>2, <2>5, <4>3 DEF Next, Call, SkipBus, AssumeThere, RunProbe, NextPriority, MatchAny,
           MatchNamed
      <4> QED
        BY <4>1, <4>2, <4>3
    <3> QED
      BY <2>1, <2>2, <3>1 DEF Fitting, Ended
  <2> QED
    BY <2>3, <2>4, <2>5
<1> QED
  BY <1>1, <1>2

\* A chip handed to the caller is operated within its limits by a programmer that can choose,
\* whatever was probed before it, if the last setting of the voltage on its bus succeeded
\* (ni845x_adapt_voltage(), usb8452_spi_set_io_voltage()).
THEOREM WithinLimits == Spec => []VoltageFits
<1>1. Fitting => VoltageFits
  BY DEF Fitting, VoltageFits, HandedOut, Stands, Adapts, Fits
<1> QED
  BY <1>1, InitFitting, StepFitting, PTL DEF Spec

-----------------------------------------------------------------------------
(* Nothing is taken for another chip                                       *)

\* IDs that a probe of the bus brings when nothing goes wrong
Answered(m, id) ==
  /\ id.type \in ProbeTypes(m)
  /\ \/ m.kind = "opaque" /\ id = ProgrammerId
     \/ m.kind # "opaque" /\ id \in m.ids /\ (m.kind = "spi" /\ id.type = RES1 => ResUsable(m))
     \/ m.kind = "spi" /\ id = SfdpId

LEMMA TypesOfProbes ==
  ASSUME NEW m, Wired(m)
  PROVE  /\ m.kind = "opaque" => ProbeTypes(m) = {OPAQUE}
         /\ m.kind = "memory" => ProbeTypes(m) = {JEDEC, JEDEC_29GL, I82802AB, W29EE011}
         /\ m.kind = "spi" =>
              ProbeTypes(m) = {RDID, AT25F, REMS, RES3, RES2, RES1, SFDP, ST95, EDI}
<1>1. CASE m.kind = "opaque"
  <2>1. Probes(m) = OpaqueProbes
    BY <1>1 DEF Probes
  <2>2. DOMAIN OpaqueProbes = {1} /\ OpaqueProbes[1].type = OPAQUE
    BY DEF OpaqueProbes
  <2> QED
    BY <1>1, <2>1, <2>2 DEF ProbeTypes
<1>2. CASE m.kind = "memory"
  <2>1. Probes(m) = MemoryProbes
    BY <1>2 DEF Probes
  <2>2. /\ DOMAIN MemoryProbes = 1 .. 4
        /\ MemoryProbes[1].type = JEDEC /\ MemoryProbes[2].type = JEDEC_29GL
        /\ MemoryProbes[3].type = I82802AB /\ MemoryProbes[4].type = W29EE011
    BY DEF MemoryProbes
  <2> QED
    BY <1>2, <2>1, <2>2 DEF ProbeTypes
<1>3. CASE m.kind = "spi"
  <2>1. Probes(m) = SpiProbes
    BY <1>3 DEF Probes
  <2>2. /\ DOMAIN SpiProbes = 1 .. 10
        /\ SpiProbes[1].type = RDID /\ SpiProbes[2].type = AT25F /\ SpiProbes[3].type = REMS
        /\ SpiProbes[4].type = RES3 /\ SpiProbes[5].type = RES2 /\ SpiProbes[6].type = RES1
        /\ SpiProbes[7].type = SFDP /\ SpiProbes[8].type = ST95 /\ SpiProbes[9].type = ST95
        /\ SpiProbes[10].type = EDI
    BY DEF SpiProbes
  <2> QED
    BY <1>3, <2>1, <2>2 DEF ProbeTypes
<1> QED
  BY <1>1, <1>2, <1>3, KindIs

LEMMA IdsAnswered ==
  ASSUME NEW m, Wired(m), NEW k \in DOMAIN Probes(m), NEW chip,
         NEW f \in Ids(m, Probes(m)[k].type, chip)
  PROVE  Answered(m, f.id)
<1> DEFINE type == Probes(m)[k].type
<1>1. type \in ProbeTypes(m)
  BY DEF ProbeTypes
<1> HIDE DEF type
<1>2. \A id \in Read(m, type) : id \in m.ids /\ id.type = type
  BY DEF Read
<1>3. CASE m.kind = "spi"
  <2>1. f \in SpiIds(m, type)
    BY <1>3 DEF Ids, type
  <2>2. CASE type = RES1 /\ ~ResUsable(m)
    <3>1. SpiIds(m, type) = {}
      BY <2>2 DEF SpiIds, RES1, SFDP
    <3> QED
      BY <2>1, <3>1
  <2>3. CASE type = SFDP /\ Read(m, SFDP) # {}
    <3>1. f.id = SfdpId
      BY <2>1, <2>3 DEF SpiIds, RES1, SFDP
    <3>2. SfdpId.type = SFDP
      BY DEF SfdpId
    <3> QED
      BY <1>1, <1>3, <2>3, <3>1, <3>2 DEF Answered
  <2>4. CASE ~(type = RES1 /\ ~ResUsable(m)) /\ ~(type = SFDP /\ Read(m, SFDP) # {})
    <3>1. f.id \in Read(m, type)
      BY <2>1, <2>4 DEF SpiIds
    <3> QED
      BY <1>1, <1>2, <1>3, <2>4, <3>1 DEF Answered
  <2> QED
    BY <2>2, <2>3, <2>4
<1>4. CASE m.kind = "memory"
  <2>1. f.id \in Read(m, type)
    BY <1>4 DEF Ids, MemoryIds, type
  <2> QED
    BY <1>1, <1>2, <1>4, <2>1 DEF Answered
<1>5. CASE m.kind = "opaque"
  <2>1. f.id = ProgrammerId
    BY <1>5 DEF Ids
  <2>2. ProgrammerId.type = OPAQUE
    BY DEF ProgrammerId
  <2> QED
    BY <1>5, <2>1, <2>2, TypesOfProbes DEF Answered
<1> QED
  BY <1>3, <1>4, <1>5, KindIs

\* An ID that a chip answers with is that of the chip, or of no entry for one chip
LEMMA AnsweredIs ==
  ASSUME NEW m, Wired(m), NEW c \in DOMAIN flashchips, Answered(m, flashchips[c].id)
  PROVE  \/ m.chip # 0 /\ flashchips[c].id = flashchips[m.chip].id
         \/ Generic(flashchips[c])
<1> DEFINE id == flashchips[c].id
<1> HIDE DEF id
<1>1. CASE id = SfdpId
  BY <1>1 DEF id, SfdpId, Generic
<1>2. CASE m.kind = "opaque"
  <2>1. id = ProgrammerId
    BY <1>2 DEF Answered, id
  <2>2. m.chip \in DOMAIN flashchips /\ flashchips[m.chip].id = ProgrammerId
    BY <1>2 DEF Wired
  <2>3. 0 \notin DOMAIN flashchips
    BY EntriesAssumption
  <2> QED
    BY <2>1, <2>2, <2>3 DEF id
<1>3. CASE m.kind # "opaque" /\ id # SfdpId
  <2>1. id \in m.ids /\ (m.kind = "spi" /\ id.type = RES1 => ResUsable(m))
    BY <1>3 DEF Answered, id
  <2>2. CASE m.chip = 0
    <3>1. 0 \notin DOMAIN flashchips
      BY EntriesAssumption
    <3>2. \A i \in m.ids : \A d \in DOMAIN flashchips : flashchips[d].id = i => Generic(flashchips[d])
      BY <2>2, <3>1 DEF Wired
    <3> QED
      BY <2>1, <3>2 DEF id
  <2>3. CASE m.chip # 0
    <3> DEFINE own == flashchips[m.chip].id
    <3>1. /\ own \in m.ids /\ own.type \in ProbeTypes(m)
          /\ \A i \in m.ids \ {own} : i.type = RES1 /\ own.type \in {RDID, REMS}
      BY <2>3 DEF Wired
    <3> HIDE DEF own
    <3>2. ASSUME id # own PROVE FALSE
      <4>1. id.type = RES1 /\ own.type \in {RDID, REMS}
        BY <2>1, <3>1, <3>2
      <4>2. m.kind # "memory"
        <5>1. {RDID, REMS} \cap {JEDEC, JEDEC_29GL, I82802AB, W29EE011} = {}
          BY DEF RDID, REMS, JEDEC, JEDEC_29GL, I82802AB, W29EE011
        <5> QED
          BY <3>1, <4>1, <5>1, TypesOfProbes
      <4>3. ResUsable(m)
        BY <1>3, <2>1, <4>1, <4>2, KindIs
      <4>4. own \in Read(m, RDID) \/ own \in Read(m, REMS)
        BY <3>1, <4>1 DEF Read
      <4> QED
        BY <4>3, <4>4 DEF ResUsable
    <3> QED
      BY <2>3, <3>2 DEF id, own
  <2> QED
    BY <2>2, <2>3
<1> QED
  BY <1>1, <1>2, <1>3

\* What is matched with no fault has the ID of the chip on that bus, or that of no one chip
LEMMA MatchIs ==
  ASSUME NEW m, Wired(m), NEW c \in DOMAIN flashchips, Match(m, flashchips[c]),
         \A f \in found : Answered(m, f.id)
  PROVE  /\ \/ m.chip # 0 /\ flashchips[c].id = flashchips[m.chip].id
            \/ Generic(flashchips[c])
         /\ flashchips[c].id.type \in ProbeTypes(m)
<1> DEFINE id == flashchips[c].id
<1>1. PICK f \in found :
        /\ f.id.type = id.type
        /\ CASE m.kind = "spi" -> SpiMatch(flashchips[c], f)
             [] m.kind = "memory" -> MemoryMatch(flashchips[c], f)
             [] m.kind = "opaque" -> f.id = id
  BY DEF Match
<1>2. \/ f.id = id
      \/ id.model = GENERIC_DEVICE_ID
      \/ id.manufacture = GENERIC_MANUF_ID
  <2>1. CASE m.kind = "spi"
    BY <1>1, <2>1 DEF SpiMatch
  <2>2. CASE m.kind = "memory"
    BY <1>1, <2>2 DEF MemoryMatch
  <2>3. CASE m.kind = "opaque"
    BY <1>1, <2>3
  <2> QED
    BY <2>1, <2>2, <2>3, KindIs
<1>3. id.model = GENERIC_DEVICE_ID \/ id.manufacture = GENERIC_MANUF_ID => Generic(flashchips[c])
  BY EntriesAssumption DEF Generic
<1>4. f.id = id => Answered(m, id)
  OBVIOUS
<1>5. id.type \in ProbeTypes(m)
  BY <1>1 DEF Answered
<1> HIDE DEF id
<1> QED
  BY <1>2, <1>3, <1>4, <1>5, AnsweredIs DEF id

\* A generic entry is taken when it is alone
LEMMA NewAlone ==
  ASSUME NEW m, Wired(m), \A f \in found : Answered(m, f.id),
         NEW c \in NewMatches(m), Generic(flashchips[c])
  PROVE  matched = {} /\ \A d \in NewMatches(m) : d = c
<1> DEFINE all == {d \in DOMAIN flashchips : Match(m, flashchips[d])}
<1>1. NewMatches(m) = {d \in all : Generic(flashchips[d]) => matched = {} /\ \A e \in all : e >= d}
  BY DEF NewMatches
<1>2. \A d \in all : d \in DOMAIN flashchips /\ d \in Nat /\ flashchips[d].id.type \in ProbeTypes(m)
  <2>1. DOMAIN flashchips \subseteq Nat
    BY EntriesAssumption
  <2> QED
    BY <2>1, MatchIs
<1> HIDE DEF all
<1>3. c \in all /\ matched = {} /\ \A e \in all : e >= c
  BY <1>1
<1>4. flashchips[c].id.type \in {RDID, REMS, SFDP}
  BY <1>2, <1>3, EntriesAssumption
<1>5. ASSUME NEW d \in NewMatches(m)
      PROVE  d = c
  <2>1. d \in all /\ d >= c
    BY <1>1, <1>3
  <2>2. CASE Generic(flashchips[d])
    <3>1. c >= d
      BY <1>1, <1>3, <2>2
    <3> QED
      BY <1>2, <1>3, <2>1, <3>1
  <2>3. CASE ~Generic(flashchips[d])
    <3>1. flashchips[d].id.type # OPAQUE
      <4>1. m.kind = "spi"
        <5>1. {RDID, REMS, SFDP} \cap {JEDEC, JEDEC_29GL, I82802AB, W29EE011, OPAQUE} = {}
          BY DEF RDID, REMS, SFDP, JEDEC, JEDEC_29GL, I82802AB, W29EE011, OPAQUE
        <5>2. flashchips[c].id.type \in ProbeTypes(m)
          BY <1>2, <1>3
        <5> QED
          BY <1>4, <5>1, <5>2, KindIs, TypesOfProbes
      <4>2. OPAQUE \notin {RDID, AT25F, REMS, RES3, RES2, RES1, SFDP, ST95, EDI}
        BY DEF RDID, AT25F, REMS, RES3, RES2, RES1, SFDP, ST95, EDI, OPAQUE
      <4> QED
        BY <1>2, <2>1, <4>1, <4>2, TypesOfProbes
    <3>2. d < c
      BY <1>2, <1>3, <2>1, <2>3, <3>1, EntriesAssumption
    <3> QED
      BY <1>2, <1>3, <2>1, <3>2
  <2> QED
    BY <2>2, <2>3
<1> QED
  BY <1>3, <1>5

OfItsBus(x) ==
  \/ flashchips[x.chip].id.type = NONE
  \/ Attached(x.bus) # 0 /\ flashchips[x.chip].id = flashchips[Attached(x.bus)].id
  \/ Generic(flashchips[x.chip])
Alone(x) == \A y \in matched : y.bus = x.bus => y = x

Telling ==
  /\ Types
  /\ req = 0 /\ pc \in {"bus", "probe", "match"} => \A x \in matched : x.bus < bus
  /\ faults = 0 =>
       /\ pc \in {"probe", "match"} => \A f \in found : Answered(Master, f.id)
       /\ \A x \in matched : OfItsBus(x)
       /\ req = 0 => \A x \in matched : Generic(flashchips[x.chip]) => Alone(x)

\* A step that starts a call, or leaves the matches and what was found
LEMMA TellingKept ==
  ASSUME Telling, Types', board' = board, req' = req, matched' = matched, faults' \in Nat,
         faults' = 0 => faults = 0,
         pc' \in {"bus", "probe", "match"} => pc \in {"bus", "probe", "match"} /\ bus' >= bus,
         pc' \in {"probe", "match"} => bus' = bus /\ \A f \in found' : f \in found /\ pc # "bus"
  PROVE  Telling'
<1>1. Master' = board.buses[bus']
  BY DEF Master
<1>2. req' = 0 /\ pc' \in {"bus", "probe", "match"} => \A x \in matched' : x.bus < bus'
  <2>1. \A x \in matched : x.bus \in Nat
    <3>1. Buses \subseteq Nat
      BY BoardIs DEF Telling, Types
    <3> QED
      BY <3>1 DEF Telling, Types, TypeOK
  <2>2. bus \in Int
    BY BoardIs DEF Telling, Types, TypeOK
  <2>3. bus' \in Int
    BY BoardIs DEF Telling, Types, TypeOK
  <2> QED
    BY <2>1, <2>2, <2>3 DEF Telling
<1>3. ASSUME faults' = 0
      PROVE  /\ pc' \in {"probe", "match"} => \A f \in found' : Answered(Master', f.id)
             /\ \A x \in matched' : OfItsBus(x)
             /\ req' = 0 => \A x \in matched' : Generic(flashchips[x.chip]) => Alone(x)
  BY <1>1, <1>3 DEF Telling, Master
<1>4. \A x : OfItsBus(x)' = OfItsBus(x) /\ Alone(x)' = Alone(x)
  BY DEF OfItsBus, Alone, Attached
<1> QED
  BY <1>2, <1>3, <1>4 DEF Telling

LEMMA FaultsCount ==
  ASSUME Types, Types', [Next]_vars
  PROVE  faults \in Nat /\ faults' \in Nat /\ (faults' = 0 => faults = 0)
<1>1. faults \in 0 .. board.faults /\ board.faults \in Nat
  BY BoardIs DEF Types, TypeOK
<1>2. faults' \in Nat
  <2>1. faults' \in 0 .. board'.faults
    BY DEF Types, TypeOK
  <2>2. board' = board
    BY DEF Next, Call, SkipBus, AssumeThere, EnterBus, RunProbe, NextPriority, MatchAny,
       MatchNamed, Count, PrepareContext, PrepareAccess, vars
  <2> QED
    BY <1>1, <2>1, <2>2
<1>3. faults' = faults \/ Fault
  <2>1. ASSUME NEW b, NEW chip, NEW ok, Adapt(b, chip, ok) PROVE faults' = faults \/ Fault
    BY <2>1 DEF Adapt
  <2>2. CASE EnterBus \/ PrepareContext
    BY <2>1, <2>2 DEF EnterBus, PrepareContext
  <2>3. CASE ~(EnterBus \/ PrepareContext)
    BY <2>3 DEF Next, Call, SkipBus, AssumeThere, RunProbe, NextPriority, MatchAny,
       MatchNamed, Count, PrepareAccess, vars
  <2> QED
    BY <2>2, <2>3
<1>4. Fault => faults' = faults + 1
  BY DEF Fault
<1> QED
  BY <1>1, <1>2, <1>3, <1>4

LEMMA CallTelling ==
  ASSUME Telling, Types', NEW r, Call(r)
  PROVE  Telling'
<1>1. pc' = "bus" /\ matched' = {}
  BY DEF Call
<1> QED
  BY <1>1 DEF Telling

LEMMA AssumeThereTelling ==
  ASSUME Telling, Types', AssumeThere
  PROVE  Telling'
<1>1. /\ pc' = "prepare" /\ req' = req /\ req # 0 /\ flashchips[req].id.type = NONE
      /\ matched' = {[chip |-> req, bus |-> bus]}
  BY DEF AssumeThere, Asked
<1>2. \A x \in matched' : OfItsBus(x)'
  BY <1>1 DEF OfItsBus
<1> QED
  BY <1>1, <1>2 DEF Telling

LEMMA RunProbeTelling ==
  ASSUME Telling, Types', faults \in Nat, faults' = 0 => faults = 0, RunProbe
  PROVE  Telling'
<1>1. /\ pc = "probe" /\ Left # {}
      /\ UNCHANGED <<board, pc, req, bus, matched>> /\ Master' = Master
  BY DEF RunProbe, Master
<1>2. bus \in Buses /\ Wired(Master) /\ probe \in Nat
  <2>1. bus \in Buses /\ probe \in Nat
    BY <1>1 DEF Telling, Types, TypeOK
  <2> QED
    BY <2>1, BoardIs DEF Telling, Types, Master
<1>3. Min(Left) \in DOMAIN Probes(Master)
  BY <1>1, <1>2, LeftIs
<1>4. ASSUME faults' = 0
      PROVE  \A f \in found' : Answered(Master, f.id)
  <2>1. \A f \in found : Answered(Master, f.id)
    BY <1>1, <1>4 DEF Telling
  <2>2. ~Fault
    BY <1>4 DEF Fault
  <2>3. \/ found' = found
        \/ found' = found \cup Ids(Master, Probes(Master)[Min(Left)].type, Asked)
    BY <2>2 DEF RunProbe
  <2> QED
    BY <1>2, <1>3, <2>1, <2>3, IdsAnswered
<1>5. \A x : OfItsBus(x)' = OfItsBus(x) /\ Alone(x)' = Alone(x)
  BY <1>1 DEF OfItsBus, Alone, Attached
<1> QED
  BY <1>1, <1>4, <1>5 DEF Telling

LEMMA MatchAnyTelling ==
  ASSUME Telling, Types', MatchAny
  PROVE  Telling'
<1> DEFINE new == {[chip |-> c, bus |-> bus] : c \in NewMatches(Master)}
<1>1. /\ pc = "match" /\ pc' = "bus" /\ req = 0 /\ bus' = bus + 1 /\ matched' = matched \cup new
      /\ UNCHANGED <<board, req, faults>>
  BY DEF MatchAny
<1>2. bus \in Buses /\ bus \in Nat /\ Wired(Master)
  <2>1. bus \in Buses
    BY <1>1 DEF Telling, Types
  <2> QED
    BY <2>1, BoardIs DEF Telling, Types, Master
<1>3. \A x \in matched : x.bus < bus /\ x.bus \in Nat
  <2>1. Buses \subseteq Nat
    BY BoardIs DEF Telling, Types
  <2> QED
    BY <1>1, <2>1 DEF Telling, Types, TypeOK
<1>4. \A x \in matched' : x.bus < bus'
  BY <1>1, <1>2, <1>3
<1>5. ASSUME faults' = 0, NEW x \in matched'
      PROVE  OfItsBus(x) /\ (Generic(flashchips[x.chip]) => \A y \in matched' : y.bus = x.bus => y = x)
  <2>1. \A f \in found : Answered(Master, f.id)
    BY <1>1, <1>5 DEF Telling
  <2>2. CASE x \in matched
    <3>1. OfItsBus(x)
      BY <1>1, <1>5, <2>2 DEF Telling
    <3>2. ASSUME Generic(flashchips[x.chip]), NEW y \in matched', y.bus = x.bus PROVE y = x
      <4>1. y \in matched
        BY <1>1, <1>3, <2>2, <3>2
      <4>2. Alone(x)
        BY <1>1, <1>5, <2>2, <3>2 DEF Telling
      <4> QED
        BY <3>2, <4>1, <4>2 DEF Alone
    <3> QED
      BY <3>1, <3>2
  <2>3. CASE x \in new
    <3>1. PICK c \in NewMatches(Master) : x = [chip |-> c, bus |-> bus]
      BY <2>3
    <3>2. c \in DOMAIN flashchips /\ Match(Master, flashchips[c])
      BY DEF NewMatches
    <3>3. OfItsBus(x)
      <4>1. \/ Master.chip # 0 /\ flashchips[c].id = flashchips[Master.chip].id
            \/ Generic(flashchips[c])
        BY <1>2, <2>1, <3>2, MatchIs
      <4> QED
        BY <3>1, <4>1 DEF OfItsBus, Attached, Master
    <3>4. ASSUME Generic(flashchips[x.chip]), NEW y \in matched', y.bus = x.bus PROVE y = x
      <4>1. matched = {} /\ \A d \in NewMatches(Master) : d = c
        BY <1>2, <2>1, <3>1, <3>4, NewAlone
      <4>2. PICK d \in NewMatches(Master) : y = [chip |-> d, bus |-> bus]
        BY <1>1, <4>1
      <4> QED
        BY <3>1, <4>1, <4>2
    <3> QED
      BY <3>3, <3>4
  <2> HIDE DEF new
  <2> QED
    BY <1>1, <2>2, <2>3
<1>6. \A x : OfItsBus(x)' = OfItsBus(x)
  BY <1>1 DEF OfItsBus, Attached
<1> QED
  BY <1>1, <1>4, <1>5, <1>6 DEF Telling, Alone

LEMMA MatchNamedTelling ==
  ASSUME Telling, Types', faults' \in Nat, MatchNamed
  PROVE  Telling'
<1>1. /\ pc = "match" /\ req # 0 /\ UNCHANGED <<board, req, faults>>
      /\ \/ /\ Match(Master, flashchips[req]) /\ matched' = {[chip |-> req, bus |-> bus]}
            /\ pc' = "prepare"
         \/ bus' = bus + 1 /\ pc' = "bus" /\ matched' = matched
  BY DEF MatchNamed, Asked
<1>2. \A x : OfItsBus(x)' = OfItsBus(x)
  BY <1>1 DEF OfItsBus, Attached
<1>3. CASE /\ Match(Master, flashchips[req]) /\ matched' = {[chip |-> req, bus |-> bus]}
           /\ pc' = "prepare"
  <2>1. bus \in Buses /\ Wired(Master) /\ req \in DOMAIN flashchips
    <3>1. bus \in Buses /\ req \in DOMAIN flashchips
      BY <1>1 DEF Telling, Types, TypeOK
    <3> QED
      BY <3>1, BoardIs DEF Telling, Types, Master
  <2>2. ASSUME faults' = 0 PROVE \A x \in matched' : OfItsBus(x)
    <3>1. \A f \in found : Answered(Master, f.id)
      BY <1>1, <2>2 DEF Telling
    <3>2. \/ Master.chip # 0 /\ flashchips[req].id = flashchips[Master.chip].id
          \/ Generic(flashchips[req])
      BY <1>3, <2>1, <3>1, MatchIs
    <3> QED
      BY <1>3, <3>2 DEF OfItsBus, Attached, Master
  <2> QED
    BY <1>1, <1>2, <1>3, <2>2 DEF Telling
<1>4. CASE bus' = bus + 1 /\ pc' = "bus" /\ matched' = matched
  BY <1>1, <1>2, <1>4 DEF Telling
<1> QED
  BY <1>1, <1>3, <1>4

LEMMA InitTelling == Init => Telling
<1> SUFFICES ASSUME Init PROVE Telling
  OBVIOUS
<1>1. Types
  BY InitTypes
<1> QED
  BY <1>1 DEF Telling, Init

LEMMA StepTelling == Telling /\ [Next]_vars => Telling'
<1> SUFFICES ASSUME Telling, [Next]_vars PROVE Telling'
  OBVIOUS
<1>1. Types /\ Types'
  BY StepTypes DEF Telling
<1>2. faults \in Nat /\ faults' \in Nat /\ (faults' = 0 => faults = 0)
  BY <1>1, FaultsCount
<1>3. bus \in Nat
  BY <1>1, BoardIs DEF Types, TypeOK
<1>4. CASE \E r \in {0} \cup board.names : Call(r)
  BY <1>1, <1>4, CallTelling
<1>5. CASE AssumeThere
  BY <1>1, <1>5, AssumeThereTelling
<1>6. CASE RunProbe
  BY <1>1, <1>2, <1>6, RunProbeTelling
<1>7. CASE MatchAny
  BY <1>1, <1>7, MatchAnyTelling
<1>8. CASE MatchNamed
  BY <1>1, <1>2, <1>8, MatchNamedTelling
<1>9. CASE SkipBus \/ EnterBus \/ NextPriority \/ Count \/ PrepareContext \/ PrepareAccess
           \/ UNCHANGED vars
  <2>1. board' = board /\ req' = req /\ matched' = matched
    BY <1>9 DEF SkipBus, EnterBus, NextPriority, Count, PrepareContext, PrepareAccess, vars
  <2>2. /\ pc' \in {"bus", "probe", "match"} => pc \in {"bus", "probe", "match"} /\ bus' \in {bus, bus + 1}
        /\ pc' \in {"probe", "match"} => bus' = bus /\ \A f \in found' : f \in found /\ pc # "bus"
    <3>1. CASE SkipBus
      BY <3>1 DEF SkipBus
    <3>2. CASE EnterBus
      BY <3>2 DEF EnterBus, Return
    <3>3. CASE NextPriority
      BY <3>3 DEF NextPriority
    <3>4. CASE Count
      BY <3>4 DEF Count, Return
    <3>5. CASE PrepareContext
      BY <3>5 DEF PrepareContext, Return
    <3>6. CASE PrepareAccess
      BY <3>6 DEF PrepareAccess, Return
    <3>7. CASE UNCHANGED vars
      BY <3>7 DEF vars, search
    <3> QED
      BY <1>9, <3>1, <3>2, <3>3, <3>4, <3>5, <3>6, <3>7
  <2>3. pc' \in {"bus", "probe", "match"} => pc \in {"bus", "probe", "match"} /\ bus' >= bus
    BY <1>3, <2>2
  <2> QED
    BY <1>1, <1>2, <2>1, <2>2, <2>3, TellingKept
<1> QED
  BY <1>4, <1>5, <1>6, <1>7, <1>8, <1>9 DEF Next

\* Nothing is taken for the chip that has another ID than the one on that bus; a generic entry
\* is taken when its name is given, or when nothing else on that bus matched
\* (flashprog_chips_probe_bus(), "We only want one-byte RES if RDID and REMS are unusable").
THEOREM NothingMistaken == Spec => []Genuine
<1>1. Telling => Genuine
  BY DEF Telling, Genuine, OfItsBus, Alone
<1> QED
  BY <1>1, InitTelling, StepTelling, PTL DEF Spec

-----------------------------------------------------------------------------
(* What is connected is found                                              *)

\* A chip of the database that answers with its ID is matched by what its own probe brings
LEMMA OwnProbe ==
  ASSUME NEW m, Wired(m), Probed(m.chip)
  PROVE  /\ m.chip \in DOMAIN flashchips /\ flashchips[m.chip].id.type \in ProbeTypes(m)
         /\ flashchips[m.chip].id \in m.ids /\ flashchips[m.chip].id.type # SFDP
         /\ ~Generic(flashchips[m.chip]) /\ flashchips[m.chip].id.type # NONE
         /\ flashchips[m.chip].id.type \notin {RDID, REMS} => m.ids = {flashchips[m.chip].id}
<1> DEFINE own == flashchips[m.chip].id
<1>1. m.chip # 0 /\ ~Generic(flashchips[m.chip]) /\ own.type # NONE
  BY DEF Probed
<1>2. /\ m.chip \in DOMAIN flashchips /\ own.type \in ProbeTypes(m) /\ own \in m.ids
      /\ \A id \in m.ids \ {own} : id.type = RES1 /\ own.type \in {RDID, REMS}
  BY <1>1 DEF Wired
<1>3. own.type # SFDP
  BY <1>1, <1>2, EntriesAssumption
<1> HIDE DEF own
<1>4. own.type \notin {RDID, REMS} => m.ids = {own}
  BY <1>2
<1> QED
  BY <1>1, <1>2, <1>3, <1>4 DEF own

LEMMA SpiCaught ==
  ASSUME NEW m, Wired(m), Probed(m.chip), m.kind = "spi", NEW chip
  PROVE  [id |-> flashchips[m.chip].id, set |-> NoSet] \in Ids(m, flashchips[m.chip].id.type, chip)
<1> DEFINE own == flashchips[m.chip].id
           type == own.type
<1>1. /\ own \in m.ids /\ type # SFDP
      /\ type \notin {RDID, REMS} => m.ids = {own}
  BY OwnProbe
<1> HIDE DEF own
<1>2. own \in Read(m, type)
  BY <1>1 DEF Read
<1>3. ~(type = RES1 /\ ~ResUsable(m))
  <2>1. ASSUME type = RES1 PROVE ResUsable(m)
    BY <1>1, <2>1 DEF ResUsable, Read, RES1, RDID, REMS
  <2> QED
    BY <2>1
<1>4. SpiIds(m, type) = {[id |-> id, set |-> NoSet] : id \in Read(m, type)}
  BY <1>1, <1>3 DEF SpiIds
<1>5. [id |-> own, set |-> NoSet] \in SpiIds(m, type)
  BY <1>2, <1>4
<1>6. Ids(m, type, chip) = SpiIds(m, type)
  BY DEF Ids
<1> QED
  BY <1>5, <1>6 DEF own

\* A memory chip, with parameters of its own or with some of those that are tried
LEMMA MemoryCaught ==
  ASSUME NEW m, Wired(m), Probed(m.chip), m.kind = "memory", NEW chip,
         chip # NULL => chip = flashchips[m.chip],
         chip = NULL => \E f \in MemoryIds(m, flashchips[m.chip].id.type, NULL) :
                          MemoryMatch(flashchips[m.chip], f)
  PROVE  \E f \in Ids(m, flashchips[m.chip].id.type, chip) : MemoryMatch(flashchips[m.chip], f)
<1> DEFINE entry == flashchips[m.chip]
           type == entry.id.type
<1>1. Ids(m, type, chip) = MemoryIds(m, type, chip)
  BY DEF Ids
<1>2. CASE chip = NULL
  BY <1>1, <1>2
<1>3. CASE chip # NULL
  <2>1. /\ entry.id \in m.ids /\ chip = entry /\ m.chip # 0 /\ m.chip \in DOMAIN flashchips
    BY <1>3, OwnProbe DEF Probed
  <2>2. m.set = SetOf(entry)
    BY <2>1 DEF Wired
  <2>3. type = W29EE011 => Addressing(entry.features) = {}
    BY <2>1, EntriesAssumption
  <2> HIDE DEF entry
  <2>4. entry.id \in Read(m, type)
    BY <2>1 DEF Read
  <2>5. \E s \in Sets(type, chip) :
          /\ Replies(m, s)
          /\ s.size = entry.total_size /\ s.timing \in {0, entry.timing}
          /\ s.features \subseteq entry.features
    <3>1. CASE type = W29EE011
      <4>1. Set(entry.total_size, {}, 0) \in Sets(type, chip)
        BY <1>3, <2>1, <3>1 DEF Sets
      <4>2. Addressing({}) = {}
        BY DEF Addressing
      <4> QED
        BY <2>2, <2>3, <3>1, <4>1, <4>2 DEF Replies, Set, SetOf
    <3>2. CASE type # W29EE011
      <4> DEFINE s == [SetOf(chip) EXCEPT !.timing = IF type = JEDEC THEN @ ELSE 0]
      <4>1. s \in Sets(type, chip)
        BY <1>3, <3>2 DEF Sets
      <4>2. /\ s.size = entry.total_size /\ s.features = entry.features
            /\ s.timing \in {0, entry.timing}
        BY <2>1 DEF SetOf, Set
      <4>3. /\ m.set.size = entry.total_size /\ m.set.features = entry.features
            /\ m.set.timing = entry.timing
        BY <2>2 DEF SetOf, Set
      <4> HIDE DEF s
      <4> QED
        BY <4>1, <4>2, <4>3 DEF Replies
    <3> QED
      BY <3>1, <3>2
  <2>6. PICK s \in Sets(type, chip) :
          /\ Replies(m, s)
          /\ s.size = entry.total_size /\ s.timing \in {0, entry.timing}
          /\ s.features \subseteq entry.features
    BY <2>5
  <2> DEFINE f == [id |-> entry.id, set |-> s]
  <2>7. f \in MemoryIds(m, type, chip)
    BY <2>4, <2>6 DEF MemoryIds
  <2>8. MemoryMatch(entry, f)
    BY <2>6 DEF MemoryMatch
  <2> QED
    BY <1>1, <2>7, <2>8 DEF entry
<1> QED
  BY <1>2, <1>3

\* One of what was found is enough
Matches(m, chip, f) ==
  /\ f.id.type = chip.id.type
  /\ CASE m.kind = "spi" -> SpiMatch(chip, f) [] m.kind = "memory" -> MemoryMatch(chip, f)
       [] m.kind = "opaque" -> f.id = chip.id

LEMMA Caught ==
  ASSUME NEW m, Wired(m), Probed(m.chip), NEW chip,
         chip # NULL => chip = flashchips[m.chip],
         m.kind = "memory" /\ chip = NULL =>
           \E f \in MemoryIds(m, flashchips[m.chip].id.type, NULL) :
             MemoryMatch(flashchips[m.chip], f)
  PROVE  \E f \in Ids(m, flashchips[m.chip].id.type, chip) : Matches(m, flashchips[m.chip], f)
<1> DEFINE entry == flashchips[m.chip]
<1>1. CASE m.kind = "spi"
  <2> DEFINE f == [id |-> entry.id, set |-> NoSet]
  <2>1. f \in Ids(m, entry.id.type, chip)
    BY <1>1, SpiCaught
  <2>2. SpiMatch(entry, f)
    BY DEF SpiMatch
  <2> QED
    BY <1>1, <2>1, <2>2 DEF Matches
<1>2. CASE m.kind = "memory"
  <2>1. PICK f \in Ids(m, entry.id.type, chip) : MemoryMatch(entry, f)
    BY <1>2, MemoryCaught
  <2>2. f.id = entry.id
    BY <2>1 DEF MemoryMatch
  <2> QED
    BY <1>2, <2>1, <2>2 DEF Matches
<1>3. CASE m.kind = "opaque"
  <2> DEFINE f == [id |-> ProgrammerId, set |-> NoSet]
  <2>1. f \in Ids(m, entry.id.type, chip)
    BY <1>3 DEF Ids
  <2>2. entry.id = ProgrammerId
    BY <1>3 DEF Wired, Probed
  <2> QED
    BY <1>3, <2>1, <2>2 DEF Matches
<1> QED
  BY <1>1, <1>2, <1>3, KindIs

LEMMA MatchesIs ==
  ASSUME NEW m, NEW chip
  PROVE  /\ Match(m, chip) <=> \E f \in found : Matches(m, chip, f)
         /\ Match(m, chip)' <=> \E f \in found' : Matches(m, chip, f)
  BY DEF Match, Matches

\* The probes before its own bring nothing for a chip that is probed with a low priority
LEMMA NothingBefore ==
  ASSUME NEW m, Wired(m), Probed(m.chip), NEW chip, NEW type,
         type # flashchips[m.chip].id.type, flashchips[m.chip].id.type \notin {RDID, REMS},
         m.kind # "opaque"
  PROVE  Ids(m, type, chip) = {}
<1> DEFINE own == flashchips[m.chip].id
<1>1. m.ids = {own} /\ own.type # SFDP
  BY OwnProbe
<1> HIDE DEF own
<1>2. Read(m, type) = {} /\ Read(m, SFDP) = {}
  BY <1>1 DEF Read, own
<1>3. CASE m.kind = "spi"
  <2>1. SpiIds(m, type) = {}
    BY <1>2 DEF SpiIds
  <2> QED
    BY <1>3, <2>1 DEF Ids
<1>4. CASE m.kind = "memory"
  BY <1>2, <1>4 DEF Ids, MemoryIds
<1> QED
  BY <1>3, <1>4, KindIs

\* The chip on the bus that is probed is looked for
Sought == Probed(Master.chip) /\ req \in {0, Master.chip}
\* Its probe is yet to come, or has brought what it is matched by
Hunting ==
  \E k \in DOMAIN Probes(Master) :
    /\ Probes(Master)[k].type = flashchips[Master.chip].id.type
    /\ \/ priority < Probes(Master)[k].priority /\ found = {}
       \/ priority = Probes(Master)[k].priority /\ k >= probe
       \/ Match(Master, flashchips[Master.chip])

LEMMA AskedIs ==
  ASSUME Sought, bus \in Buses, Wired(Master)
  PROVE  /\ Asked # NULL => Asked = flashchips[Master.chip]
         /\ req # 0 => Asked = flashchips[Master.chip]
  BY DEF Sought, Asked

LEMMA HuntStarts ==
  ASSUME bus \in Buses, Wired(Master), Sought, Master' = Master,
         priority' = 0, probe' = 1, found' = {}
  PROVE  Hunting'
<1>1. PICK k \in DOMAIN Probes(Master) : Probes(Master)[k].type = flashchips[Master.chip].id.type
  BY OwnProbe DEF Sought, ProbeTypes
<1>2. k \in Nat /\ k >= 1 /\ Probes(Master)[k].priority \in 0 .. 2
  BY ProbesAre
<1>3. 0 < Probes(Master)[k].priority \/ 0 = Probes(Master)[k].priority
  BY <1>2
<1> QED
  BY <1>1, <1>2, <1>3 DEF Hunting

LEMMA HuntGoesOn ==
  ASSUME Types, bus \in Buses, Wired(Master), Sought, Covered(board), Hunting,
         RunProbe, ~Fault
  PROVE  Hunting'
<1> DEFINE entry == flashchips[Master.chip]
           j == Min(Left)
           type == Probes(Master)[j].type
<1>1. /\ Master' = Master /\ priority' = priority /\ probe' = j + 1 /\ Left # {}
      /\ found' = found \cup Ids(Master, type, Asked)
  BY DEF RunProbe, Master
<1>2. PICK k \in DOMAIN Probes(Master) :
        /\ Probes(Master)[k].type = entry.id.type
        /\ \/ priority < Probes(Master)[k].priority /\ found = {}
           \/ priority = Probes(Master)[k].priority /\ k >= probe
           \/ Match(Master, entry)
  BY DEF Hunting
<1>3. probe \in Nat
  BY DEF Types, TypeOK
<1>4. /\ j \in Left /\ \A i \in Left : j <= i
      /\ j \in DOMAIN Probes(Master) /\ j \in 1 .. 10
      /\ Probes(Master)[j].priority = priority
  BY <1>1, <1>3, LeftIs
<1>5. k \in Nat /\ Probes(Master)[k].priority \in 0 .. 2
  BY ProbesAre
<1>6. Master.chip \in DOMAIN flashchips /\ entry.id.type \in ProbeTypes(Master)
  BY OwnProbe DEF Sought
<1>7. CASE priority < Probes(Master)[k].priority /\ found = {}
  <2>1. type # entry.id.type
    BY <1>2, <1>4, <1>5, <1>7, ProbesAre
  <2>2. entry.id.type \notin {RDID, REMS}
    <3>1. priority \in 0 .. 2
      BY DEF Types, TypeOK
    <3>2. Probes(Master)[k].priority # 0
      BY <1>5, <1>7, <3>1
    <3> QED
      BY <1>2, <3>2, ProbesAre
  <2>3. Master.kind # "opaque"
    <3>1. type \in ProbeTypes(Master)
      BY <1>4 DEF ProbeTypes
    <3> QED
      BY <1>6, <2>1, <3>1, TypesOfProbes
  <2>4. Ids(Master, type, Asked) = {}
    BY <2>1, <2>2, <2>3, NothingBefore DEF Sought
  <2>5. found' = {}
    BY <1>1, <1>7, <2>4
  <2> HIDE DEF j, type
  <2> QED
    BY <1>1, <1>2, <1>7, <2>5 DEF Hunting
<1>8. CASE priority = Probes(Master)[k].priority /\ k >= probe
  <2>1. k \in Left
    <3>1. req # 0 => Asked = entry
      BY AskedIs
    <3> QED
      BY <1>2, <1>8, <3>1 DEF Left
  <2>2. j <= k
    BY <1>4, <2>1
  <2>3. CASE j = k
    <3>1. type = entry.id.type
      BY <1>2, <2>3
    <3>2. Master.kind = "memory" =>
            \E f \in MemoryIds(Master, entry.id.type, NULL) : MemoryMatch(entry, f)
      BY DEF Sought, Covered, Buses, Master
    <3>3. \E f \in Ids(Master, entry.id.type, Asked) : Matches(Master, entry, f)
      BY <3>2, AskedIs, Caught DEF Sought
    <3>4. Match(Master, entry)'
      BY <1>1, <3>1, <3>3, MatchesIs
    <3> HIDE DEF j, type
    <3> QED
      BY <1>1, <1>2, <3>4 DEF Hunting
  <2>4. CASE j # k
    <3>1. k >= j + 1
      BY <1>4, <1>5, <2>2, <2>4
    <3> HIDE DEF j, type
    <3> QED
      BY <1>1, <1>2, <1>8, <3>1 DEF Hunting
  <2> QED
    BY <2>3, <2>4
<1>9. CASE Match(Master, entry)
  <2>1. Match(Master, entry)'
    BY <1>1, <1>9, MatchesIs
  <2> HIDE DEF j, type
  <2> QED
    BY <1>1, <1>2, <2>1 DEF Hunting
<1> QED
  BY <1>2, <1>7, <1>8, <1>9

LEMMA HuntLower ==
  ASSUME Types, bus \in Buses, Wired(Master), Sought, Hunting, NextPriority
  PROVE  /\ pc' = "match" => Match(Master, flashchips[Master.chip])'
         /\ pc' # "match" => Hunting'
<1> DEFINE entry == flashchips[Master.chip]
<1>1. /\ Master' = Master /\ Left = {} /\ found' = found /\ pc = "probe"
      /\ \/ pc' = "match" /\ (found # {} \/ priority = LeastPriority)
            /\ UNCHANGED <<priority, probe>>
         \/ pc' = pc /\ priority' = priority + 1 /\ probe' = 1
  BY DEF NextPriority, Master
<1>2. PICK k \in DOMAIN Probes(Master) :
        /\ Probes(Master)[k].type = entry.id.type
        /\ \/ priority < Probes(Master)[k].priority /\ found = {}
           \/ priority = Probes(Master)[k].priority /\ k >= probe
           \/ Match(Master, entry)
  BY DEF Hunting
<1>3. k \in Nat /\ k >= 1 /\ Probes(Master)[k].priority \in 0 .. 2
  BY ProbesAre
<1>4. Probes(Master)[k].priority <= LeastPriority /\ LeastPriority \in 0 .. 2
  BY LeastIs
<1>5. priority \in 0 .. 2
  BY DEF Types, TypeOK
<1>6. ~(priority = Probes(Master)[k].priority /\ k >= probe)
  <2>1. req # 0 => Asked = entry
    BY AskedIs
  <2> QED
    BY <1>1, <1>2, <2>1 DEF Left
<1>7. CASE priority < Probes(Master)[k].priority /\ found = {}
  <2>1. priority' = priority + 1 /\ probe' = 1 /\ pc' # "match"
    BY <1>1, <1>3, <1>4, <1>5, <1>7
  <2>2. priority + 1 < Probes(Master)[k].priority \/ priority + 1 = Probes(Master)[k].priority
    BY <1>3, <1>5, <1>7
  <2> QED
    BY <1>1, <1>2, <1>3, <1>7, <2>1, <2>2 DEF Hunting
<1>8. CASE Match(Master, entry)
  <2>1. Match(Master, entry)'
    BY <1>1, <1>8, MatchesIs
  <2> QED
    BY <1>1, <1>2, <2>1 DEF Hunting
<1> QED
  BY <1>2, <1>6, <1>7, <1>8

\* Every chip of the database that is connected, and that the probes can identify, ...
Connected == {b \in Buses : Probed(Attached(b))}
\* ... and no voltage is adapted
NoVoltage == \A b \in Buses : board.buses[b].adapt = "none"

Hunted ==
  /\ pc = "probe" /\ Sought => Hunting
  /\ pc = "match" /\ Sought => Match(Master, flashchips[Master.chip])
\* The buses that are done with, in a probe for all
AllMatched ==
  req = 0 /\ calls > 0 =>
    \A b \in Connected : (pc \in {"bus", "probe", "match"} => b < bus) =>
      [chip |-> Attached(b), bus |-> b] \in matched
\* A probe for one gets no further than the first bus it is on
OneMatched ==
  NoVoltage => \A b \in Connected : req = Attached(b) =>
    /\ pc \in {"bus", "probe", "match"} => bus <= b
    /\ pc \in {"prepare", "access"} =>
         \E a \in Buses : a <= b /\ matched = {[chip |-> req, bus |-> a]}
    /\ Ended => ret = 0 /\ ctx.chip = req /\ ctx.bus <= b

Finding ==
  /\ Types /\ Covered(board)
  /\ faults = 0 => Hunted /\ AllMatched /\ OneMatched

LEMMA ConnectedIs ==
  ASSUME Types, NEW b \in Connected
  PROVE  /\ b \in Buses /\ b \in Nat /\ Wired(board.buses[b]) /\ Probed(board.buses[b].chip)
         /\ Attached(b) = board.buses[b].chip /\ Attached(b) # 0 /\ Attached(b) \in DOMAIN flashchips
<1>1. b \in Buses /\ Probed(Attached(b)) /\ Attached(b) = board.buses[b].chip
  BY DEF Connected, Attached
<1>2. Wired(board.buses[b]) /\ b \in Nat
  BY <1>1, BoardIs DEF Types
<1>3. Attached(b) \in DOMAIN flashchips
  BY <1>1, <1>2, OwnProbe
<1> QED
  BY <1>1, <1>2, <1>3 DEF Probed

LEMMA CallFinding ==
  ASSUME Finding, Types', NEW r \in {0} \cup board.names, Call(r)
  PROVE  Finding'
<1>1. board' = board /\ pc' = "bus" /\ bus' = 1 /\ Buses' = Buses /\ Connected' = Connected
  BY DEF Call, Connected, Buses, Attached
<1>2. \A b \in Connected : b \in Nat /\ b >= 1 /\ ~(b < 1)
  BY BoardIs DEF Finding, Types, Connected
<1>3. Hunted' /\ AllMatched'
  <2>1. Hunted'
    BY <1>1 DEF Hunted
  <2>2. AllMatched'
    BY <1>1, <1>2 DEF AllMatched
  <2> QED
    BY <2>1, <2>2
<1>4. OneMatched'
  BY <1>1, <1>2 DEF OneMatched, Ended
<1> QED
  BY <1>1, <1>3, <1>4 DEF Finding, Covered

\* A step in the middle of a call that leaves the bus and the matches
LEMMA FindingKept ==
  ASSUME Finding, Types', UNCHANGED <<board, req, bus, matched, calls>>,
         pc \in {"bus", "probe", "match"}, pc' \in {"bus", "probe", "match"},
         faults' = 0 => faults = 0 /\ Hunted'
  PROVE  Finding'
<1>1. Connected' = Connected /\ NoVoltage' = NoVoltage /\ Buses' = Buses
      /\ \A b : Attached(b)' = Attached(b)
  BY DEF Connected, NoVoltage, Buses, Attached
<1>2. AllMatched => AllMatched'
  BY <1>1 DEF AllMatched
<1>3. OneMatched => OneMatched'
  BY <1>1 DEF OneMatched, Ended
<1> QED
  BY <1>2, <1>3 DEF Finding, Covered

\* To the next bus, with what was found on this one
LEMMA NextBus ==
  ASSUME Finding, Types', UNCHANGED <<board, req, calls, faults>>, bus \in Buses,
         pc \in {"bus", "probe", "match"}, pc' = "bus", bus' = bus + 1,
         \A x \in matched : x \in matched',
         faults = 0 /\ bus \in Connected /\ req = 0 => [chip |-> Attached(bus), bus |-> bus] \in matched',
         faults = 0 /\ bus \in Connected => req # Attached(bus)
  PROVE  Finding'
<1>1. Connected' = Connected /\ NoVoltage' = NoVoltage /\ Buses' = Buses
      /\ \A b : Attached(b)' = Attached(b)
  BY DEF Connected, NoVoltage, Buses, Attached
<1>2. bus \in Nat /\ \A b \in Connected : b \in Nat
  BY BoardIs DEF Finding, Types, Connected
<1>3. ASSUME faults = 0 PROVE AllMatched'
  <2>1. AllMatched
    BY <1>3 DEF Finding
  <2>2. SUFFICES ASSUME req = 0, calls > 0, NEW b \in Connected, b < bus + 1
                 PROVE  [chip |-> Attached(b), bus |-> b] \in matched'
    BY <1>1 DEF AllMatched
  <2>3. CASE b = bus
    BY <1>3, <2>2, <2>3
  <2>4. CASE b # bus
    <3>1. b < bus
      BY <1>2, <2>2, <2>4
    <3> QED
      BY <2>1, <2>2, <3>1 DEF AllMatched
  <2> QED
    BY <2>3, <2>4
<1>4. ASSUME faults = 0 PROVE OneMatched'
  <2>1. OneMatched
    BY <1>4 DEF Finding
  <2>2. SUFFICES ASSUME NoVoltage, NEW b \in Connected, req = Attached(b)
                 PROVE  bus + 1 <= b
    BY <1>1 DEF OneMatched, Ended
  <2>3. bus <= b
    BY <2>1, <2>2 DEF OneMatched
  <2>4. bus # b
    BY <1>4, <2>2
  <2> QED
    BY <1>2, <2>3, <2>4
<1>5. Hunted'
  BY DEF Hunted
<1> QED
  BY <1>3, <1>4, <1>5 DEF Finding, Covered

LEMMA SkipBusFinding ==
  ASSUME Finding, Types', SkipBus
  PROVE  Finding'
<1>1. /\ UNCHANGED <<board, req, calls, faults, matched>> /\ bus \in Buses /\ pc = "bus" /\ pc' = "bus"
      /\ bus' = bus + 1 /\ req # 0 /\ Master.buses \cap Asked.bustype = {}
  BY DEF SkipBus, Wants
<1>2. ASSUME bus \in Connected PROVE req # Attached(bus)
  <2>1. Wired(Master) /\ Master.chip # 0 /\ Master.chip = Attached(bus)
    BY <1>2, ConnectedIs DEF Finding, Master
  <2>2. Master.buses \cap flashchips[Master.chip].bustype # {}
    BY <2>1 DEF Wired
  <2> QED
    BY <1>1, <2>1, <2>2 DEF Asked
<1> QED
  BY <1>1, <1>2, NextBus

LEMMA MatchAnyFinding ==
  ASSUME Finding, Types', MatchAny
  PROVE  Finding'
<1>1. /\ UNCHANGED <<board, req, calls, faults>> /\ pc = "match" /\ pc' = "bus"
      /\ bus' = bus + 1 /\ req = 0
      /\ matched' = matched \cup {[chip |-> c, bus |-> bus] : c \in NewMatches(Master)}
  BY DEF MatchAny
<1>2. bus \in Buses
  BY <1>1 DEF Finding, Types
<1>3. ASSUME faults = 0, bus \in Connected
      PROVE  [chip |-> Attached(bus), bus |-> bus] \in matched'
  <2>1. /\ Wired(Master) /\ Probed(Master.chip) /\ Master.chip = Attached(bus)
        /\ Master.chip \in DOMAIN flashchips
    BY <1>3, ConnectedIs DEF Finding, Master
  <2>2. Match(Master, flashchips[Master.chip])
    BY <1>1, <1>3, <2>1 DEF Finding, Hunted, Sought
  <2>3. Master.chip \in NewMatches(Master)
    BY <2>1, <2>2 DEF NewMatches, Probed
  <2> QED
    BY <1>1, <2>1, <2>3
<1>4. bus \in Connected => req # Attached(bus)
  BY <1>1, ConnectedIs DEF Finding
<1> QED
  BY <1>1, <1>2, <1>3, <1>4, NextBus

LEMMA MatchNamedFinding ==
  ASSUME Finding, Types', MatchNamed
  PROVE  Finding'
<1>1. /\ UNCHANGED <<board, req, calls, faults>> /\ pc = "match" /\ req # 0 /\ Asked = flashchips[req]
      /\ \/ matched' = {[chip |-> req, bus |-> bus]} /\ pc' = "prepare" /\ UNCHANGED bus
         \/ ~Match(Master, Asked) /\ bus' = bus + 1 /\ pc' = "bus" /\ UNCHANGED matched
  BY DEF MatchNamed, Asked
<1>2. bus \in Buses
  BY <1>1 DEF Finding, Types
<1>3. CASE matched' = {[chip |-> req, bus |-> bus]} /\ pc' = "prepare" /\ UNCHANGED bus
  <2>1. Connected' = Connected /\ NoVoltage' = NoVoltage /\ Buses' = Buses
        /\ \A b : Attached(b)' = Attached(b)
    BY <1>1 DEF Connected, NoVoltage, Buses, Attached
  <2>2. AllMatched' /\ Hunted'
    BY <1>1, <1>3 DEF AllMatched, Hunted
  <2>3. OneMatched => OneMatched'
    BY <1>1, <1>2, <1>3, <2>1 DEF OneMatched, Ended
  <2> QED
    BY <1>1, <2>2, <2>3 DEF Finding, Covered
<1>4. CASE ~Match(Master, Asked) /\ bus' = bus + 1 /\ pc' = "bus" /\ UNCHANGED matched
  <2>1. ASSUME faults = 0, bus \in Connected PROVE req # Attached(bus)
    <3>1. Probed(Master.chip) /\ Master.chip = Attached(bus)
      BY <2>1, ConnectedIs DEF Finding, Master
    <3>2. Sought => Match(Master, flashchips[Master.chip])
      BY <1>1, <2>1 DEF Finding, Hunted
    <3> QED
      BY <1>1, <1>4, <3>1, <3>2 DEF Sought
  <2> QED
    BY <1>1, <1>2, <1>4, <2>1, NextBus
<1> QED
  BY <1>1, <1>3, <1>4

LEMMA AssumeThereFinding ==
  ASSUME Finding, Types', AssumeThere
  PROVE  Finding'
<1>1. /\ board' = board /\ req' = req /\ req # 0 /\ pc' = "prepare" /\ faults' = faults
      /\ flashchips[req].id.type = NONE
  BY DEF AssumeThere, Asked
<1>2. Hunted' /\ AllMatched'
  BY <1>1 DEF Hunted, AllMatched
<1>3. OneMatched'
  <2>1. \A b \in Connected : req # Attached(b)
    BY <1>1 DEF Connected, Probed
  <2>2. Connected' = Connected /\ \A b : Attached(b)' = Attached(b)
    BY <1>1 DEF Connected, Buses, Attached
  <2> QED
    BY <1>1, <2>1, <2>2 DEF OneMatched
<1> QED
  BY <1>1, <1>2, <1>3 DEF Finding, Covered

\* Without a voltage to adapt there is nothing to refuse
LEMMA NotRefused ==
  ASSUME NoVoltage, NEW b \in Buses, NEW chip, NEW ok, Adapt(b, chip, ok)
  PROVE  ok
<1>1. Wanted(b, chip) = KEEP
  BY DEF Wanted, NoVoltage
<1>2. KEEP # REFUSE /\ KEEP \notin Levels
  <2>1. \A l \in Levels : l > 0
    BY LevelsPositive
  <2> QED
    BY <2>1 DEF KEEP, REFUSE
<1> QED
  BY <1>1, <1>2 DEF Adapt

LEMMA EnterBusFinding ==
  ASSUME Finding, Types', faults' = 0 => faults = 0, EnterBus
  PROVE  Finding'
<1>1. /\ UNCHANGED <<board, req, bus, matched, calls>> /\ pc = "bus" /\ bus \in Buses
      /\ found' = {} /\ priority' = 0 /\ probe' = 1 /\ Master' = Master
      /\ \/ pc' = "probe"
         \/ req # 0 /\ pc' = "idle" /\ Asked.id.type # NONE /\ Adapt(bus, Asked, FALSE)
  BY DEF EnterBus, Return, Master
<1>2. CASE pc' = "probe"
  <2>1. Wired(Master)
    BY <1>1, BoardIs DEF Finding, Types, Master
  <2>2. Sought => Hunting'
    BY <1>1, <2>1, HuntStarts
  <2>3. Hunted'
    BY <1>1, <1>2, <2>2 DEF Hunted, Sought
  <2> QED
    BY <1>1, <1>2, <2>3, FindingKept
<1>3. CASE req # 0 /\ pc' = "idle" /\ Adapt(bus, Asked, FALSE)
  <2>1. Hunted' /\ AllMatched'
    BY <1>1, <1>3 DEF Hunted, AllMatched
  <2>2. ~NoVoltage
    BY <1>1, <1>3, NotRefused
  <2>3. NoVoltage' = NoVoltage
    BY <1>1 DEF NoVoltage, Buses
  <2> QED
    BY <1>1, <2>1, <2>2, <2>3 DEF Finding, OneMatched, Covered
<1> QED
  BY <1>1, <1>2, <1>3

LEMMA RunProbeFinding ==
  ASSUME Finding, Types', faults \in Nat, faults' = 0 => faults = 0, RunProbe
  PROVE  Finding'
<1>1. /\ UNCHANGED <<board, req, bus, matched, calls>> /\ pc = "probe" /\ pc' = "probe"
      /\ Master' = Master
  BY DEF RunProbe, Master
<1>2. bus \in Buses /\ Wired(Master)
  BY <1>1, BoardIs DEF Finding, Types, Master
<1>3. ASSUME faults' = 0 PROVE Hunted'
  <2>1. faults = 0 /\ ~Fault
    BY <1>3 DEF Fault
  <2>2. Sought => Hunting
    BY <1>1, <2>1 DEF Finding, Hunted
  <2>3. Sought => Hunting'
    BY <1>2, <2>1, <2>2, HuntGoesOn DEF Finding
  <2> QED
    BY <1>1, <2>3 DEF Hunted, Sought
<1> QED
  BY <1>1, <1>3, FindingKept

LEMMA NextPriorityFinding ==
  ASSUME Finding, Types', NextPriority
  PROVE  Finding'
<1>1. /\ UNCHANGED <<board, req, bus, matched, calls, faults>> /\ pc = "probe"
      /\ pc' \in {"probe", "match"} /\ Master' = Master
  BY DEF NextPriority, Master
<1>2. bus \in Buses /\ Wired(Master)
  BY <1>1, BoardIs DEF Finding, Types, Master
<1>3. ASSUME faults = 0 PROVE Hunted'
  <2>1. Sought => Hunting
    BY <1>1, <1>3 DEF Finding, Hunted
  <2>2. Sought => /\ pc' = "match" => Match(Master, flashchips[Master.chip])'
                  /\ pc' # "match" => Hunting'
    BY <1>2, <2>1, HuntLower DEF Finding
  <2> QED
    BY <1>1, <2>2 DEF Hunted, Sought, Match
<1> QED
  BY <1>1, <1>3, FindingKept

LEMMA CountFinding ==
  ASSUME Finding, Types', Count
  PROVE  Finding'
<1>1. /\ UNCHANGED <<board, req, bus, matched, calls, faults>> /\ pc = "bus" /\ bus \notin Buses
      /\ pc' \in {"idle", "prepare"}
  BY DEF Count, Return, search
<1>2. Connected' = Connected /\ NoVoltage' = NoVoltage /\ \A b : Attached(b)' = Attached(b)
  BY <1>1 DEF Connected, NoVoltage, Buses, Attached
<1>3. \A b \in Connected : b < bus /\ ~(bus <= b)
  <2>1. Len(board.buses) \in Nat /\ Buses = 1 .. Len(board.buses) /\ bus >= 1 /\ bus \in Nat
    BY <1>1, BoardIs DEF Finding, Types, TypeOK
  <2> QED
    BY <1>1, <2>1 DEF Connected
<1>4. ASSUME faults = 0 PROVE Hunted' /\ AllMatched' /\ OneMatched'
  <2>1. AllMatched /\ OneMatched
    BY <1>4 DEF Finding
  <2>2. Hunted'
    BY <1>1 DEF Hunted
  <2>3. AllMatched'
    BY <1>1, <1>2, <1>3, <2>1 DEF AllMatched
  <2>4. OneMatched'
    BY <1>1, <1>2, <1>3, <2>1 DEF OneMatched
  <2> QED
    BY <2>2, <2>3, <2>4
<1> QED
  BY <1>1, <1>4 DEF Finding, Covered

LEMMA PrepareContextFinding ==
  ASSUME Finding, Types', faults' = 0 => faults = 0, PrepareContext
  PROVE  Finding'
<1>1. /\ UNCHANGED <<board, req, bus, matched, calls>> /\ pc = "prepare" /\ pc' \in {"idle", "access"}
      /\ pc' = "idle" => Adapt(Only.bus, flashchips[Only.chip], FALSE)
  BY DEF PrepareContext, Return, search
<1>2. Only.bus \in Buses
  BY <1>1, OnlyIs DEF Finding
<1>3. Connected' = Connected /\ NoVoltage' = NoVoltage /\ Buses' = Buses
      /\ \A b : Attached(b)' = Attached(b)
  BY <1>1 DEF Connected, NoVoltage, Buses, Attached
<1>4. ASSUME faults = 0 PROVE Hunted' /\ AllMatched' /\ OneMatched'
  <2>1. AllMatched /\ OneMatched
    BY <1>4 DEF Finding
  <2>2. Hunted'
    BY <1>1 DEF Hunted
  <2>3. AllMatched'
    BY <1>1, <1>3, <2>1 DEF AllMatched
  <2>4. NoVoltage => pc' = "access"
    BY <1>1, <1>2, NotRefused
  <2>5. OneMatched'
    BY <1>1, <1>3, <2>1, <2>4 DEF OneMatched, Ended
  <2> QED
    BY <2>2, <2>3, <2>5
<1> QED
  BY <1>1, <1>4 DEF Finding, Covered

LEMMA PrepareAccessFinding ==
  ASSUME Finding, Types', faults' = 0 => faults = 0, faults \in Nat, PrepareAccess
  PROVE  Finding'
<1>1. /\ UNCHANGED <<board, req, bus, matched, calls>> /\ pc = "access" /\ pc' = "idle"
      /\ faults' = 0 => ctx' = Only /\ ret' = 0
  <2>1. faults' = 0 => ~Fault
    BY DEF Fault
  <2> QED
    BY <2>1 DEF PrepareAccess, Return, search
<1>2. Connected' = Connected /\ NoVoltage' = NoVoltage /\ Buses' = Buses
      /\ \A b : Attached(b)' = Attached(b)
  BY <1>1 DEF Connected, NoVoltage, Buses, Attached
<1>3. ASSUME faults' = 0 PROVE Hunted' /\ AllMatched' /\ OneMatched'
  <2>1. AllMatched /\ OneMatched
    BY <1>3 DEF Finding
  <2>2. Hunted'
    BY <1>1 DEF Hunted
  <2>3. AllMatched'
    BY <1>1, <1>2, <2>1 DEF AllMatched
  <2>4. SUFFICES ASSUME NoVoltage, NEW b \in Connected, req = Attached(b)
                 PROVE  ret' = 0 /\ ctx'.chip = req /\ ctx'.bus <= b
    BY <1>1, <1>2, <2>2, <2>3 DEF OneMatched
  <2>5. PICK a \in Buses : a <= b /\ matched = {[chip |-> req, bus |-> a]}
    BY <1>1, <2>1, <2>4 DEF OneMatched
  <2>6. Only = [chip |-> req, bus |-> a]
    BY <2>5 DEF Only
  <2> QED
    BY <1>1, <1>3, <2>5, <2>6
<1> QED
  BY <1>1, <1>3 DEF Finding, Covered

LEMMA StepFinding == Finding /\ [Next]_vars => Finding'
<1> SUFFICES ASSUME Finding, [Next]_vars PROVE Finding'
  OBVIOUS
<1>1. Types /\ Types'
  BY StepTypes DEF Finding
<1>2. faults \in Nat /\ (faults' = 0 => faults = 0)
  BY <1>1, FaultsCount
<1>3. CASE UNCHANGED vars
  BY <1>1, <1>3 DEF vars, volts, search, Finding, Covered, Hunted, Sought, Hunting, Master, Match,
     AllMatched, OneMatched, Connected, NoVoltage, Buses, Attached, Ended
<1>4. CASE Next
  BY <1>1, <1>2, <1>4, CallFinding, SkipBusFinding, AssumeThereFinding, EnterBusFinding,
     RunProbeFinding, NextPriorityFinding, MatchAnyFinding, MatchNamedFinding, CountFinding,
     PrepareContextFinding, PrepareAccessFinding DEF Next
<1> QED
  BY <1>3, <1>4

\* "Name of a chip to probe for, or NULL to probe for all known chips": a chip of the database
\* that is connected is among the matches of a probe for all, and a probe for its name finds it,
\* whatever is on the other buses, as long as some of the parameters a memory chip is probed
\* with are its own (flashprog_flash_probe(), probe_jedec() and its like).
THEOREM ListedIsFound == (\A b \in Boards : Covered(b)) => (Spec => []Found)
<1> SUFFICES ASSUME \A b \in Boards : Covered(b) PROVE Spec => []Found
  OBVIOUS
<1>1. Init => Finding
  <2> SUFFICES ASSUME Init PROVE Finding
    OBVIOUS
  <2>1. Types /\ board \in Boards /\ pc = "idle" /\ calls = 0
    BY InitTypes DEF Init
  <2>2. Hunted /\ AllMatched /\ OneMatched
    BY <2>1 DEF Hunted, AllMatched, OneMatched, Ended
  <2> QED
    BY <2>1, <2>2 DEF Finding
<1>2. Finding => Found
  BY DEF Finding, Found, AllMatched, OneMatched, Connected, NoVoltage, Ended
<1> QED
  BY <1>1, <1>2, StepFinding, PTL DEF Spec

=============================================================================
