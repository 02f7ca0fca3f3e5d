---- MODULE MCProbing ----
\* The whole database, every chip of it alone on a programmer that probes without and with its
\* name; two buses; chips that answer to more than one ID, or are not in the database; a
\* programmer that sets its voltage, with probes and accesses that fail.
\* The database is handed down as db, for it is large and TLC is to look at it only once.
EXTENDS Probing

NoneTypes(db) == {c \in DOMAIN db : db[c].id.type = NONE}
Generics(db) == {c \in DOMAIN db : Generic(db[c])}
OnBus(db, types) ==
  {c \in DOMAIN db : /\ db[c].id.type # NONE /\ ~Generic(db[c])
                     /\ db[c].bustype \cap types # {}}
MemoryTypes == {PARALLEL, LPC, FWH}
SpiChips(db) == OnBus(db, {SPI})
MemoryChips(db) == OnBus(db, MemoryTypes)

\* No parameter set of a probe without a name has their reset sequence: they have none
Unprobed(db) == {c \in MemoryChips(db) : /\ db[c].id.type = JEDEC
                                         /\ db[c].features \cap {LONG, SHORT} = {}}

Bus(kind, buses, adapt, c, ids, set, eager) ==
  [kind |-> kind, buses |-> buses, adapt |-> adapt, chip |-> c, ids |-> ids, set |-> set,
   eager |-> eager]
SpiBus(db, c, more) == Bus("spi", {SPI}, "none", c, {db[c].id} \cup more, NoSet, FALSE)
MemoryBus(db, c, eager) ==
  Bus("memory", MemoryTypes, "none", c, {db[c].id}, SetOf(db[c]), eager)
OpaqueBus(db, c) == Bus("opaque", {PROG}, "none", c, {db[c].id}, NoSet, FALSE)
Unknown(ids) == Bus("spi", {SPI}, "none", 0, ids, NoSet, FALSE)

Board(buses, names) ==
  [buses |-> buses, names |-> names, voltage |-> 3300, calls |-> 1, faults |-> 0]

\* A chip alone, asked for without and with its name
SpiBoards(db) == {Board(<<SpiBus(db, c, {})>>, {c}) : c \in SpiChips(db)}
MemoryBoards(db, chips) ==
  {Board(<<MemoryBus(db, c, eager)>>, {c}) : c \in chips, eager \in BOOLEAN}
OpaqueBoards(db) == {Board(<<OpaqueBus(db, c)>>, {c}) : c \in OnBus(db, {PROG})}

Id(type, man, model) == [type |-> type, manufacture |-> man, model |-> model]
\* Chips that answer to RDID, and to an older command with what another chip would say
OfType(db, type) == {c \in SpiChips(db) : db[c].id.type = type}
OldIds(db) == {db[c].id : c \in OfType(db, RES1)}
OneOf(db, type) == CHOOSE c \in OfType(db, type) : TRUE
ManyIds(db) == {Board(<<SpiBus(db, OneOf(db, type), {id})>>, {OneOf(db, type), d}) :
                  type \in {RDID, REMS}, id \in OldIds(db), d \in OfType(db, RES1)}

\* Chips the database lacks: with and without SFDP, of a known and of an unknown vendor
Unlisted(db) ==
  {Board(<<Unknown(ids)>>, NoneTypes(db) \cup Generics(db)) :
     ids \in {{Id(RDID, \hEF, \h1)}, {Id(RDID, \h42, \h1)}, {Id(REMS, \h42, \h1)},
              {Id(RDID, \h42, \h1), SfdpId}, {Id(RDID, 0, \h1)}, {SfdpId}, {}}}

\* Two buses: a chip on each, the same chip on both, and one unknown chip first
TwoBuses(db) ==
  LET m == CHOOSE c \in MemoryChips(db) \ Unprobed(db) : db[c].id.type = JEDEC
      s == OneOf(db, RDID)
      o == CHOOSE c \in OnBus(db, {PROG}) : TRUE
      spi == SpiBus(db, s, {})
  IN  {Board(buses, {m, s, o}) :
         buses \in {<<MemoryBus(db, m, TRUE), spi>>, <<spi, spi>>, <<OpaqueBus(db, o), spi>>,
                    <<Unknown({Id(RDID, \h42, \h1)}), spi>>,
                    <<spi, Unknown({Id(RDID, \h42, \h1)})>>}}

\* USB-8451 and USB-8452: one chip of every range of voltages, and an old one-byte ID, probed
\* twice while something may fail
Ranges(db) == {<<db[c].min, db[c].max>> : c \in OfType(db, RDID)}
OfRange(db, r) == CHOOSE c \in OfType(db, RDID) : <<db[c].min, db[c].max>> = r
Adapting(db) ==
  {[buses |-> <<[SpiBus(db, OfRange(db, p[1]), {CHOOSE id \in OldIds(db) : TRUE})
                   EXCEPT !.adapt = p[2].adapt]>>,
    names |-> {OfRange(db, p[1]), OfRange(db, q)}, voltage |-> p[2].mV, calls |-> 2, faults |-> 2] :
     p \in Ranges(db) \X ([adapt : {"8451"}, mV : {3300}]
                          \cup [adapt : {"8452"}, mV : {1200, 2500, 3300}]),
     q \in Ranges(db)}

BoardsOf(db) ==
  SpiBoards(db) \cup MemoryBoards(db, MemoryChips(db) \ Unprobed(db)) \cup OpaqueBoards(db)
  \cup ManyIds(db) \cup Unlisted(db) \cup TwoBuses(db) \cup Adapting(db)
MCBoards == UNION {BoardsOf(db) : db \in {flashchips}}
ASSUME CoveredAssumption == \A b \in MCBoards : Covered(b)
AdaptingBoards == UNION {Adapting(db) : db \in {flashchips}}
UnprobedBoards == UNION {MemoryBoards(db, MemoryChips(db)) : db \in {flashchips}}
====
