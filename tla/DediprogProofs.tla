--------------------------- MODULE DediprogProofs ---------------------------
(***************************************************************************)
(* Proofs about Dediprog, for rings, blocks and chips of any size, all     *)
(* ranges and any number of faults: the ring of a bulk read leaves nothing *)
(* in flight, and a range that is split is read or written completely,     *)
(* every byte in its place and in the mode its opcode needs.               *)
(***************************************************************************)
EXTENDS Dediprog, SequenceLemmas

-----------------------------------------------------------------------------
(* The inductive invariant                                                 *)

Ring == {"loop", "submit", "poll", "finish", "free"}
AllKinds == {"slow", "bulk_read", "bulk_write", "command"}
Kinds(op) == CASE op = "read"  -> {"slow", "bulk_read"}
               [] op = "write" -> {"slow", "bulk_write"}
               [] OTHER        -> {"command"}
PartRec == [kind : AllKinds, start : Nat, len : Nat]
Transfer == [state : {"none", "flying", "ended"}, block : Nat, ok : BOOLEAN]

CallTypes ==
  /\ dev \in Devices /\ pc \in PCs /\ ret \in {0, 1}
  /\ fastRead \in {"none"} \cup MultiIo
  /\ req \in Requests \cup {NoCall} /\ todo \in Seq(PartRec)
  /\ got \in [1 .. req.len -> Int] /\ chip \in [Addr -> {"old", "new"}]
  /\ faults \in Nat /\ calls \in Nat /\ astray \in BOOLEAN /\ lost \in BOOLEAN
RingTypes ==
  /\ ring \in [queued : Nat, finished : Nat, error : BOOLEAN, count : Nat]
  /\ usb \in [Slot -> Transfer] /\ queue \in Seq(Slot) /\ events \in Seq(Slot)
  /\ stream \in [from : Nat, sent : Nat, count : Nat, right : BOOLEAN]
  /\ stream.sent <= stream.count
Types == CallTypes /\ RingTypes

OneBulkRead(parts) ==
  \A i, j \in 1 .. Len(parts) : i < j /\ parts[i].kind = "bulk_read" => parts[j].kind # "bulk_read"
NoBulkRead(parts) == \A i \in 1 .. Len(parts) : parts[i].kind # "bulk_read"
Ordinary(parts, op) ==
  /\ \A i \in 1 .. Len(parts) : parts[i].kind \in Kinds(op)
  /\ OneBulkRead(parts)

\* The parts that are left; there is no second bulk read in a call
Parted ==
  /\ pc \in {"mode", "command"} \cup Ring => todo # <<>> /\ ~Unsupported
  /\ pc \in Ring => Now.kind = "bulk_read"
  /\ pc = "idle" => todo = <<>>
  /\ todo # <<>> /\ pc # "free" => ret = 0
  /\ Ordinary(todo, req.op)
  /\ lost => pc \notin Ring /\ astray /\ NoBulkRead(todo)

\* The slots from finished up to queued are those that libusb holds, or has done with and
\* not told of, in this order
Holds(s, block, state) == s = block % Slots /\ usb[s].block = block /\ usb[s].state = state
Settled == queue = <<>> /\ events = <<>> /\ ring.queued = ring.finished
Circular ==
  /\ pc \in Ring =>
       /\ ring.finished <= ring.queued /\ ring.queued <= ring.count
       /\ ring.queued - ring.finished <= Slots /\ ring.count = Count
       /\ Len(events) + Len(queue) = ring.queued - ring.finished
       /\ \A i \in 1 .. Len(events) : Holds(events[i], ring.finished + i - 1, "ended")
       /\ \A i \in 1 .. Len(queue) : Holds(queue[i], ring.finished + Len(events) + i - 1, "flying")
       /\ \A s \in Slot : usb[s].state = "flying" => \E i \in 1 .. Len(queue) : queue[i] = s
  /\ pc \notin Ring => \A s \in Slot : usb[s].state = "none"
  /\ pc \notin Ring /\ ~lost => Settled
  /\ IsInjective(queue \o events)

IInv == Types /\ Parted /\ Circular

\* Programmer and driver agree on modes, and the programmer has sent what it was to send
Agreed ==
  /\ fastRead = (IF pc \in {"mode", "command"} /\ Now.kind = "slow" /\ req.op = "read"
                 THEN "none" ELSE dev.fast)
  /\ ~astray =>
       /\ IF dev.modes THEN ioMode = devMode ELSE devMode = SINGLE
       /\ dev.protocol = 1 => devMode = SINGLE
       /\ pc = "command" => devMode = Wanted
       /\ pc \notin Ring => stream.sent = stream.count

\* A write of part of a page goes up to its end: dediprog_spi_write() does not look whether
\* there is less to be written (DediprogEeprom.cfg)
Whole(start, len, d) ==
  d.page = Page256 => \/ start % d.page = 0
                      \/ d.page - (start % d.page) <= len /\ len <= d.page * MaxBlocks
WholePages == \A r \in Requests, d \in Devices : r.op = "write" => Whole(r.start, r.len, d)

\* What is left of the range
End == req.start + req.len
Pos == IF todo = <<>> THEN End ELSE Now.start
Tiled == ret = 0 => req.start <= Pos /\ Tiling(todo, Pos, End)

\* No error in the ring so far
Fine == ~ring.error /\ \A i \in 1 .. Len(events) : usb[events[i]].ok
DoneIn(r, g, c, x) ==
  IF r.op = "write" THEN \A a \in Addr : r.start <= a /\ a < x => c[a] = "new"
  ELSE \A i \in 1 .. r.len : r.start + i - 1 < x => g[i] = r.start + i - 1
DoneTo(x) == DoneIn(req, got, chip, x)
Landed ==
  /\ stream.from = Now.start /\ stream.right /\ stream.count = ring.count
  /\ stream.sent = ring.finished + Len(events)
  /\ DoneTo(Now.start + stream.sent * Block)
Reached ==
  ~astray =>
    /\ ret = 0 => DoneTo(Pos)
    /\ pc \in Ring /\ Fine => Landed
    /\ pc = "free" /\ ret = 0 => ring.finished >= ring.count /\ ~ring.error

DInv == IInv /\ Agreed /\ Tiled /\ InRange /\ Reached

-----------------------------------------------------------------------------
(* How a range is split                                                    *)

LEMMA Constants ==
  /\ Size \in Nat \ {0} /\ Block \in Nat \ {0} /\ Page256 \in Nat \ {0} /\ MaxBlocks \in Nat \ {0}
  /\ Slots \in Nat \ {0} /\ 2^Width \in Int /\ Size < 2^Width
<1>1. Width \in Nat
  BY DediprogAssumption
<1>2. 2^Width \in Int
  BY <1>1
<1> QED
  BY <1>2, DediprogAssumption

LEMMA RequestType ==
  ASSUME NEW r \in Requests \cup {NoCall}
  PROVE  /\ r.start \in Nat /\ r.len \in Nat /\ r.start + r.len <= Size
         /\ r \in Requests => r.op \in {"read", "write", "command"}
<1>1. CASE r \in Requests
  BY <1>1, DediprogAssumption
<1>2. CASE r = NoCall
  <2>1. r.start = 0 /\ r.len = 0 /\ r.op = "none"
    BY <1>2 DEF NoCall
  <2>2. r \notin Requests
    BY <2>1, DediprogAssumption
  <2> QED
    BY <2>1, <2>2, Constants
<1> QED
  BY <1>1, <1>2

LEMMA ProgrammerType ==
  ASSUME NEW d \in Devices
  PROVE  /\ d.protocol \in 1 .. 3 /\ d.modes \in BOOLEAN /\ d.page \in Nat \ {0}
         /\ d.fast \in {"none"} \cup MultiIo
         /\ d.fast # "none" => d.modes /\ d.protocol > 1
BY DediprogAssumption DEF Programmer

\* Of a part that may be empty
LEMMA UnlessIs ==
  ASSUME NEW kind \in AllKinds, NEW start \in Nat, NEW len \in Nat
  PROVE  LET u == Unless(len = 0, Part(kind, start, len))
         IN  /\ u \in Seq({p \in PartRec : p.kind = kind}) /\ Len(u) <= 1
             /\ Tiling(u, start, start + len)
<1> DEFINE p == Part(kind, start, len)
           S == {q \in PartRec : q.kind = kind}
<1>1. p \in S /\ p.start = start /\ p.len = len
  BY DEF Part, PartRec
<1> HIDE DEF p, S
<1>2. CASE len = 0
  <2>1. <<>> \in Seq(S) /\ Len(<<>>) = 0
    OBVIOUS
  <2>2. Tiling(<<>>, start, start + len)
    BY <1>2, <2>1 DEF Tiling
  <2> QED
    BY <1>2, <2>1, <2>2 DEF Unless, S, p
<1>3. CASE len # 0
  <2>1. <<p>> \in Seq(S) /\ Len(<<p>>) = 1 /\ <<p>>[1] = p
    BY <1>1
  <2>2. Tiling(<<p>>, start, start + len)
    BY <1>1, <2>1 DEF Tiling
  <2> QED
    BY <1>3, <2>1, <2>2 DEF Unless, S, p
<1> QED
  BY <1>2, <1>3

\* Three such sequences, one after the other
LEMMA ThreeParts ==
  ASSUME NEW S, NEW s \in Seq(S), NEW t \in Seq(S), NEW u \in Seq(S),
         NEW a \in Nat, NEW b \in Nat, NEW c \in Nat, NEW d \in Nat
  PROVE  /\ s \o t \o u \in Seq(S)
         /\ Tiling(s, a, b) /\ Tiling(t, b, c) /\ Tiling(u, c, d) => Tiling(s \o t \o u, a, d)
<1>1. s \o t \in Seq(S)
  BY ConcatElements
<1>2. s \o t \o u \in Seq(S)
  BY <1>1, ConcatElements
<1>3. ASSUME Tiling(s, a, b), Tiling(t, b, c), Tiling(u, c, d)
      PROVE  Tiling(s \o t \o u, a, d)
  <2>1. Tiling(s \o t, a, c)
    BY <1>3, TilingConcat
  <2> QED
    BY <1>1, <1>3, <2>1, TilingConcat
<1> QED
  BY <1>2, <1>3

LEMMA ReadPartsIs ==
  ASSUME NEW start \in Nat, NEW len \in Nat
  PROVE  LET s == ReadParts(start, len)
         IN  /\ s \in Seq({p \in PartRec : p.kind \in {"slow", "bulk_read"}})
             /\ OneBulkRead(s) /\ Tiling(s, start, start + len)
<1> DEFINE S == {p \in PartRec : p.kind \in {"slow", "bulk_read"}}
           residue == ReadResidue(start, len)
           bulk == ((len - residue) \div Block) * Block
           rest == len - residue - bulk
           u1 == Unless(residue = 0, Part("slow", start, residue))
           u2 == Unless(bulk = 0, Part("bulk_read", start + residue, bulk))
           u3 == Unless(rest = 0, Part("slow", start + residue + bulk, rest))
<1>1. residue \in Nat /\ residue <= len
  <2>1. Block \in Nat \ {0}
    BY Constants
  <2>2. start % Block \in 0 .. Block - 1
    BY <2>1, DivMod
  <2>3. Block - (start % Block) \in Nat
    BY <2>1, <2>2
  <2>4. Min({len, Block - (start % Block)}) \in Nat /\ Min({len, Block - (start % Block)}) <= len
    BY <2>3, MinPair
  <2> QED
    BY <2>4 DEF ReadResidue
<1> HIDE DEF residue
<1>2. bulk \in Nat /\ bulk <= len - residue
  <2> DEFINE n == len - residue
  <2>1. Block \in Nat \ {0} /\ n \in Nat /\ n \in Int
    BY <1>1, Constants
  <2> HIDE DEF n
  <2> DEFINE q == n \div Block
  <2>2. q \in Nat /\ n % Block \in 0 .. Block - 1 /\ n = Block * q + (n % Block)
    BY <2>1, DivMod
  <2> HIDE DEF q
  <2>3. q * Block = Block * q /\ q * Block \in Nat
    BY <2>1, <2>2
  <2>4. q * Block \in Nat /\ q * Block <= n
    BY <2>1, <2>2, <2>3
  <2> QED
    BY <2>4 DEF n, q
<1> HIDE DEF bulk
<1>3. rest \in Nat /\ start + residue \in Nat /\ start + residue + bulk \in Nat
      /\ start + residue + bulk + rest = start + len
  BY <1>1, <1>2
<1> HIDE DEF rest
<1>4. /\ u1 \in Seq({p \in PartRec : p.kind = "slow"}) /\ Len(u1) <= 1
      /\ Tiling(u1, start, start + residue)
  <2>1. "slow" \in AllKinds
    BY DEF AllKinds
  <2> QED
    BY <1>1, <2>1, UnlessIs
<1>5. /\ u2 \in Seq({p \in PartRec : p.kind = "bulk_read"}) /\ Len(u2) <= 1
      /\ Tiling(u2, start + residue, start + residue + bulk)
  <2>1. "bulk_read" \in AllKinds
    BY DEF AllKinds
  <2> QED
    BY <1>2, <1>3, <2>1, UnlessIs
<1>6. /\ u3 \in Seq({p \in PartRec : p.kind = "slow"}) /\ Len(u3) <= 1
      /\ Tiling(u3, start + residue + bulk, start + len)
  <2>1. "slow" \in AllKinds
    BY DEF AllKinds
  <2> DEFINE x == start + residue + bulk
  <2>2. x \in Nat /\ x + rest = start + len /\ u3 = Unless(rest = 0, Part("slow", x, rest))
    BY <1>3
  <2> HIDE DEF x, u3
  <2>3. /\ u3 \in Seq({p \in PartRec : p.kind = "slow"}) /\ Len(u3) <= 1
        /\ Tiling(u3, x, start + len)
    BY <1>3, <2>1, <2>2, UnlessIs
  <2> QED
    BY <2>3 DEF x
<1>7. ReadParts(start, len) = u1 \o u2 \o u3
  BY DEF ReadParts, residue, bulk, rest
<1> HIDE DEF u1, u2, u3
<1>8. u1 \in Seq(S) /\ u2 \in Seq(S) /\ u3 \in Seq(S)
  <2>1. {p \in PartRec : p.kind = "slow"} \subseteq S /\ {p \in PartRec : p.kind = "bulk_read"} \subseteq S
    OBVIOUS
  <2> HIDE DEF S
  <2> QED
    BY <1>4, <1>5, <1>6, <2>1, SeqMonotonic
<1>9. /\ \A i \in 1 .. Len(u1) : u1[i].kind = "slow"
      /\ \A i \in 1 .. Len(u3) : u3[i].kind = "slow"
  <2>1. \A i \in 1 .. Len(u1) : u1[i] \in {p \in PartRec : p.kind = "slow"}
    BY <1>4, ElementOfSeq
  <2>2. \A i \in 1 .. Len(u3) : u3[i] \in {p \in PartRec : p.kind = "slow"}
    BY <1>6, ElementOfSeq
  <2> QED
    BY <2>1, <2>2
<1> HIDE DEF S
<1>10. OneBulkRead(u1 \o u2 \o u3)
  <2> DEFINE v == u1 \o u2
             m == Len(u1)
             n == Len(u2)
             k == Len(u3)
             w == v \o u3
  <2>1. /\ v \in Seq(S) /\ Len(v) = m + n
        /\ \A i \in 1 .. m : v[i] = u1[i]
    BY <1>8, ConcatElements
  <2> HIDE DEF v
  <2>a. /\ Len(w) = Len(v) + k
        /\ \A i \in 1 .. Len(v) : w[i] = v[i]
        /\ \A i \in 1 .. k : w[Len(v) + i] = u3[i]
    <3>1. v \in Seq(S) /\ u3 \in Seq(S)
      BY <1>8, <2>1
    <3> QED
      BY <3>1, ConcatElements
  <2> HIDE DEF w
  <2>2. /\ Len(w) = (m + n) + k
        /\ \A i \in 1 .. m + n : w[i] = v[i]
        /\ \A i \in 1 .. k : w[(m + n) + i] = u3[i]
    BY <2>1, <2>a
  <2>3. m \in Nat /\ n \in Nat /\ n <= 1 /\ k \in Nat
    BY <1>5, <1>8, LenProperties
  <2> HIDE DEF m, n, k
  <2>4. \A i \in 1 .. (m + n) + k : w[i].kind = "bulk_read" => i = m + 1
    <3> SUFFICES ASSUME NEW i \in 1 .. (m + n) + k, i # m + 1
                 PROVE  w[i].kind = "slow"
      OBVIOUS
    <3>1. CASE i <= m
      <4>1. i \in 1 .. m /\ i \in 1 .. m + n
        BY <2>3, <3>1
      <4> QED
        BY <1>9, <2>1, <2>2, <4>1 DEF m
    <3>2. CASE i > m
      <4>1. i - (m + n) \in 1 .. k /\ (m + n) + (i - (m + n)) = i
        BY <2>3, <3>2
      <4> QED
        BY <1>9, <2>2, <4>1 DEF k
    <3> QED
      BY <2>3, <3>1, <3>2
  <2>5. OneBulkRead(w)
    BY <2>2, <2>3, <2>4 DEF OneBulkRead
  <2> QED
    BY <2>5 DEF w, v
<1>11. start + residue \in Nat /\ start + residue + bulk \in Nat /\ start + len \in Nat
  BY <1>3
<1> DEFINE x == start + residue
           y == start + residue + bulk
           z == start + len
<1>12. /\ Tiling(u1, start, x) /\ Tiling(u2, x, y) /\ Tiling(u3, y, z)
       /\ x \in Nat /\ y \in Nat /\ z \in Nat
  BY <1>4, <1>5, <1>6, <1>11
<1> HIDE DEF x, y, z
<1>13. u1 \o u2 \o u3 \in Seq(S) /\ Tiling(u1 \o u2 \o u3, start, z)
  BY <1>8, <1>12, ThreeParts
<1> QED
  BY <1>7, <1>10, <1>13 DEF S, z

LEMMA UnsignedIs ==
  ASSUME NEW n \in Int
  PROVE  Unsigned(n) \in Nat /\ (n \in 0 .. Size => Unsigned(n) = n)
<1> DEFINE w == 2^Width
<1>1. w \in Nat \ {0} /\ Size < w /\ Size \in Nat
  BY Constants
<1>2. Unsigned(n) = n % w
  BY DEF Unsigned
<1> HIDE DEF w
<1>3. n % w \in 0 .. w - 1
  BY <1>1, DivMod
<1>4. n \in 0 .. Size => n % w = n
  BY <1>1, ModSmall
<1> QED
  BY <1>1, <1>2, <1>3, <1>4

WriteKinds == {p \in PartRec : p.kind \in {"slow", "bulk_write"}}

LEMMA WritePartsIs ==
  ASSUME dev \in Devices, NEW start \in Nat, NEW len \in Nat
  PROVE  LET s == WriteParts(start, len)
         IN  /\ s \in Seq(WriteKinds)
             /\ len <= Size /\ WriteResidue(start, len) <= len => Tiling(s, start, start + len)
<1> DEFINE residue == WriteResidue(start, len)
           bulk == (Unsigned(len - residue) \div dev.page) * dev.page
           rest == Unsigned(len - residue - bulk)
           u1 == Unless(residue = 0, Part("slow", start, residue))
           u2 == <<Part("bulk_write", start + residue, bulk)>>
           u3 == Unless(rest = 0, Part("slow", start + residue + bulk, rest))
<1>0. dev.page \in Nat \ {0} /\ Size \in Nat
  BY ProgrammerType, Constants
<1>1. residue \in Nat
  <2>1. start % dev.page \in 0 .. dev.page - 1
    BY <1>0, DivMod
  <2>2. dev.page - (start % dev.page) \in Nat
    BY <1>0, <2>1
  <2> QED
    BY <2>2 DEF WriteResidue
<1>2. WriteParts(start, len) = u1 \o u2 \o u3
  BY DEF WriteParts
<1> HIDE DEF residue
<1> DEFINE n == Unsigned(len - residue)
           q == n \div dev.page
<1>3. n \in Nat /\ (len <= Size /\ residue <= len => n = len - residue)
  <2>1. len - residue \in Int /\ (len <= Size /\ residue <= len => len - residue \in 0 .. Size)
    BY <1>0, <1>1
  <2> QED
    BY <2>1, UnsignedIs
<1> HIDE DEF n
<1>4. q \in Nat /\ n % dev.page \in 0 .. dev.page - 1 /\ n = dev.page * q + (n % dev.page)
  <2>1. n \in Int /\ dev.page \in Nat \ {0}
    BY <1>0, <1>3
  <2>2. /\ n % dev.page \in 0 .. dev.page - 1 /\ n = dev.page * q + (n % dev.page)
        /\ n \in Nat => q \in Nat
    BY <2>1, DivMod
  <2> QED
    BY <1>3, <2>2
<1>5. bulk = q * dev.page
  BY DEF n
<1> HIDE DEF q, bulk
<1>6. bulk \in Nat /\ bulk <= n
  <2>1. q * dev.page = dev.page * q /\ dev.page * q \in Nat
    BY <1>0, <1>4
  <2> QED
    BY <1>0, <1>3, <1>4, <1>5, <2>1
<1>7. rest \in Nat /\ (len <= Size /\ residue <= len => start + residue + bulk + rest = start + len)
  <2>1. len - residue - bulk \in Int
        /\ (len <= Size /\ residue <= len => len - residue - bulk \in 0 .. Size)
    BY <1>0, <1>1, <1>3, <1>6
  <2>2. rest \in Nat /\ (len <= Size /\ residue <= len => rest = len - residue - bulk)
    BY <2>1, UnsignedIs
  <2> HIDE DEF rest
  <2> QED
    BY <1>1, <1>6, <2>2
<1> HIDE DEF rest
<1> DEFINE x == start + residue
           y == start + residue + bulk
           z == start + residue + bulk + rest
<1>8. x \in Nat /\ y \in Nat /\ z \in Nat /\ y = x + bulk /\ z = y + rest
  BY <1>1, <1>6, <1>7
<1>9. u2 = <<Part("bulk_write", x, bulk)>> /\ u3 = Unless(rest = 0, Part("slow", y, rest))
  OBVIOUS
<1>a. x = start + residue /\ (len <= Size /\ residue <= len => z = start + len)
  BY <1>7
<1> HIDE DEF x, y, z, u2, u3
<1>b. {"slow", "bulk_write"} \subseteq AllKinds
  BY DEF AllKinds
<1>10. u1 \in Seq({p \in PartRec : p.kind = "slow"}) /\ Tiling(u1, start, x)
  BY <1>1, <1>a, <1>b, UnlessIs
<1>11. u2 \in Seq(WriteKinds) /\ Tiling(u2, x, y)
  <2> DEFINE p == Part("bulk_write", x, bulk)
  <2>1. p \in WriteKinds /\ p.start = x /\ p.len = bulk
    BY <1>6, <1>8, <1>b DEF Part, PartRec, WriteKinds
  <2> HIDE DEF p
  <2>2. <<p>> \in Seq(WriteKinds) /\ Len(<<p>>) = 1 /\ <<p>>[1] = p
    BY <2>1
  <2>3. Tiling(<<p>>, x, y)
    BY <1>6, <1>8, <2>1, <2>2 DEF Tiling
  <2> QED
    BY <1>9, <2>2, <2>3 DEF p
<1>12. u3 \in Seq({p \in PartRec : p.kind = "slow"}) /\ Tiling(u3, y, z)
  BY <1>7, <1>8, <1>9, <1>b, UnlessIs
<1> HIDE DEF u1
<1>13. u1 \in Seq(WriteKinds) /\ u3 \in Seq(WriteKinds)
  <2>1. {p \in PartRec : p.kind = "slow"} \subseteq WriteKinds
    BY DEF WriteKinds
  <2> QED
    BY <1>10, <1>12, <2>1, SeqMonotonic
<1>14. u1 \o u2 \o u3 \in Seq(WriteKinds) /\ Tiling(u1 \o u2 \o u3, start, z)
  BY <1>8, <1>10, <1>11, <1>12, <1>13, ThreeParts
<1> QED
  BY <1>2, <1>14, <1>a DEF residue

\* The rounds of dediprog_spi_write_chunked()
RoundCount(len, most) == (len + most - 1) \div most
RoundsOf(start, len, most) ==
  [i \in 1 .. RoundCount(len, most) |->
     [start |-> start + (i - 1) * most, len |-> Min({len - (i - 1) * most, most})]]

LEMMA Rounds ==
  ASSUME NEW start \in Nat, NEW len \in Nat, NEW most \in Nat \ {0}
  PROVE  LET n == RoundCount(len, most)
             p == RoundsOf(start, len, most)
         IN  /\ n \in Nat /\ (len <= most => n <= 1) /\ Len(p) = n
             /\ p \in Seq([start : Nat, len : Nat]) /\ Tiling(p, start, start + len)
             /\ \A i \in 1 .. n : /\ p[i].start = start + most * (i - 1) /\ p[i].len <= len
                                  /\ n = 1 => p[i].start = start /\ p[i].len = len
<1> DEFINE t == len + most - 1
           n == t \div most
           L(i) == Min({len - (i - 1) * most, most})
           p == [i \in 1 .. n |-> [start |-> start + (i - 1) * most, len |-> L(i)]]
<1>1. t \in Nat /\ t \in Int
  OBVIOUS
<1> HIDE DEF t
<1>2. n \in Nat /\ (t % most) \in 0 .. most - 1 /\ t = most * n + (t % most)
  BY <1>1, DivMod
<1> HIDE DEF n
<1>3. most * n >= len /\ most * n - most < len
  <2>1. most * n \in Nat
    BY <1>2
  <2> QED
    BY <1>2, <2>1 DEF t
<1>4. len <= most => n <= 1
  <2> SUFFICES ASSUME len <= most, n >= 2
               PROVE  FALSE
    BY <1>2
  <2>1. most * 2 <= most * n
    BY <1>2, TimesMonotonic
  <2> QED
    BY <1>2, <1>3, <2>1
<1>5. ASSUME NEW i \in 1 .. n
      PROVE  /\ (i - 1) * most = most * (i - 1) /\ most * (i - 1) \in Nat /\ most * (i - 1) < len
             /\ L(i) \in Nat /\ L(i) <= len
             /\ i + 1 \in 1 .. n => L(i) = most
             /\ i = n => L(i) = len - most * (i - 1)
             /\ ((i + 1) - 1) * most = most * (i - 1) + most
  <2> DEFINE x == most * (i - 1)
  <2>1. i - 1 \in Nat /\ i \in Int /\ n \in Int
    BY <1>2
  <2>2. (i - 1) * most = x /\ x \in Nat
    BY <2>1
  <2>3. ((i + 1) - 1) * most = x + most
    BY <2>1
  <2>4. x + most <= most * n
    <3>1. most * i <= most * n
      BY <1>2, TimesMonotonic
    <3>2. most * i = x + most
      BY <2>1
    <3> QED
      BY <3>1, <3>2
  <2>5. i + 1 \in 1 .. n => x + most <= most * n - most
    <3> HAVE i + 1 \in 1 .. n
    <3>1. most * (i + 1) <= most * n
      BY <1>2, TimesMonotonic
    <3>2. most * (i + 1) = x + most + most
      BY <2>1
    <3>3. x + most + most <= most * n
      BY <3>1, <3>2
    <3>4. most * n \in Int
      BY <1>2
    <3> HIDE DEF x
    <3> QED
      BY <2>2, <3>3, <3>4
  <2>6. i = n => x = most * n - most
    BY <2>1
  <2>7. L(i) = IF len - x <= most THEN len - x ELSE most
    <3>1. len - (i - 1) * most = len - x /\ len - x \in Int
      BY <2>2
    <3> QED
      BY <3>1, MinPair
  <2>8. most * n \in Int
    BY <1>2
  <2> DEFINE y == most * n
  <2>9. /\ y \in Int /\ y >= len /\ y - most < len /\ x + most <= y
        /\ i + 1 \in 1 .. n => x + most <= y - most
        /\ i = n => x = y - most
    BY <1>3, <2>4, <2>5, <2>6, <2>8
  <2> HIDE DEF x, y
  <2>10. /\ x < len /\ (IF len - x <= most THEN len - x ELSE most) \in Nat
         /\ (IF len - x <= most THEN len - x ELSE most) <= len
         /\ i + 1 \in 1 .. n => ~ (len - x <= most)
         /\ i = n => len - x <= most
    BY <2>2, <2>9
  <2> HIDE DEF L
  <2>11. /\ x < len /\ L(i) \in Nat /\ L(i) <= len
         /\ i + 1 \in 1 .. n => L(i) = most
         /\ i = n => L(i) = len - x
    BY <2>7, <2>10
  <2> QED
    BY <2>2, <2>3, <2>11 DEF x
<1> HIDE DEF L
<1>6. \A i \in 1 .. n : p[i].start = start + most * (i - 1) /\ p[i].len = L(i)
  BY <1>5
<1>7. p \in [1 .. n -> [start : Nat, len : Nat]]
  <2> SUFFICES ASSUME NEW i \in 1 .. n
               PROVE  start + (i - 1) * most \in Nat /\ L(i) \in Nat
    OBVIOUS
  <2> QED
    BY <1>5
<1> HIDE DEF p
<1>8. p \in Seq([start : Nat, len : Nat]) /\ Len(p) = n
  BY <1>2, <1>7, FunSeq
<1>9. Tiling(p, start, start + len)
  <2>1. \A i \in 1 .. n : p[i].start \in Nat /\ p[i].len \in Nat
    BY <1>7
  <2>2. \A i \in 1 .. n : i + 1 \in 1 .. n => p[i + 1].start = p[i].start + p[i].len
    <3> TAKE i \in 1 .. n
    <3> HAVE i + 1 \in 1 .. n
    <3>1. p[i + 1].start = start + most * ((i + 1) - 1) /\ p[i].start = start + most * (i - 1)
          /\ p[i].len = most
      BY <1>5, <1>6
    <3>2. most * ((i + 1) - 1) = most * (i - 1) + most /\ most * (i - 1) \in Nat
      BY <1>2, <1>5
    <3> QED
      BY <3>1, <3>2
  <2>3. n = 0 => start = start + len
    BY <1>3
  <2>4. n # 0 => p[1].start = start /\ p[n].start + p[n].len = start + len
    <3> HAVE n # 0
    <3>1. 1 \in 1 .. n /\ n \in 1 .. n /\ most * (1 - 1) = 0
      BY <1>2
    <3>2. p[1].start = start
      BY <1>6, <3>1
    <3>3. p[n].start = start + most * (n - 1) /\ p[n].len = len - most * (n - 1) /\ most * (n - 1) \in Nat
      BY <1>5, <1>6, <3>1
    <3> QED
      BY <3>2, <3>3
  <2> QED
    BY <1>8, <2>1, <2>2, <2>3, <2>4 DEF Tiling
<1>10. ASSUME NEW i \in 1 .. n
       PROVE  /\ p[i].start = start + most * (i - 1) /\ p[i].len <= len
              /\ n = 1 => p[i].start = start /\ p[i].len = len
  <2>1. p[i].start = start + most * (i - 1) /\ p[i].len <= len
    BY <1>5, <1>6
  <2>2. ASSUME n = 1
        PROVE  p[i].start = start /\ p[i].len = len
    <3>1. i = 1 /\ i = n /\ most * (i - 1) = 0
      BY <2>2
    <3> QED
      BY <1>5, <1>6, <3>1
  <2> QED
    BY <2>1, <2>2
<1> QED
  BY <1>2, <1>4, <1>8, <1>9, <1>10 DEF p, n, t, L, RoundCount, RoundsOf

LEMMA ChunkedIs ==
  ASSUME dev \in Devices, NEW start \in Nat, NEW len \in Nat, start + len <= Size
  PROVE  LET s == Chunked(start, len)
         IN  s \in Seq(WriteKinds) /\ (Whole(start, len, dev) => Tiling(s, start, start + len))
<1> DEFINE page == dev.page
           most == page * MaxBlocks
           n == RoundCount(len, most)
           p == RoundsOf(start, len, most)
           ss == [i \in 1 .. n |-> WriteParts(p[i].start, p[i].len)]
<1>1. /\ page \in Nat \ {0} /\ MaxBlocks \in Nat \ {0}
      /\ start \in Nat /\ len \in Nat /\ start + len <= Size /\ Size \in Nat
  BY ProgrammerType, Constants
<1>2. most \in Nat \ {0}
  BY <1>1
<1>3. Chunked(start, len) = FlattenSeq(ss)
  <2>1. ss = [i \in 1 .. n |-> WriteParts(start + (i - 1) * most, Min({len - (i - 1) * most, most}))]
    BY DEF RoundsOf
  <2> HIDE DEF ss
  <2> QED
    BY <2>1 DEF Chunked, RoundCount
<1>4. /\ n \in Nat /\ (len <= most => n <= 1) /\ Len(p) = n
      /\ p \in Seq([start : Nat, len : Nat]) /\ Tiling(p, start, start + len)
      /\ \A i \in 1 .. n : /\ p[i].start = start + most * (i - 1) /\ p[i].len <= len
                           /\ n = 1 => p[i].start = start /\ p[i].len = len
  <2>1. start \in Nat /\ len \in Nat /\ most \in Nat \ {0}
    BY <1>1, <1>2
  <2> HIDE DEF most
  <2> QED
    BY <2>1, Rounds
<1>5. \A i \in 1 .. n : ss[i] = WriteParts(p[i].start, p[i].len)
  OBVIOUS
<1>6. DOMAIN ss = 1 .. n
  OBVIOUS
<1>h. ss = [i \in 1 .. n |-> ss[i]]
  OBVIOUS
<1> HIDE DEF ss, p, n
<1>7. \A i \in 1 .. n : p[i].start \in Nat /\ p[i].len \in Nat /\ p[i].len <= Size
  <2> TAKE i \in 1 .. n
  <2>1. p[i] \in [start : Nat, len : Nat]
    BY <1>4, ElementOfSeq
  <2>2. p[i].start \in Nat /\ p[i].len \in Nat /\ p[i].len <= len
    BY <1>4, <2>1
  <2> QED
    BY <1>1, <2>2
<1>8. \A i \in 1 .. n : ss[i] \in Seq(WriteKinds)
  BY <1>5, <1>7, WritePartsIs
<1>9. ss \in [1 .. n -> Seq(WriteKinds)]
  BY <1>h, <1>8
<1>10. ss \in Seq(Seq(WriteKinds)) /\ Len(ss) = n
  BY <1>4, <1>9, FunSeq
<1>11. FlattenSeq(ss) \in Seq(WriteKinds)
  <2>1. CASE n = 0
    <3>1. FlattenSeq(ss) = ss /\ ss = <<>>
      BY <1>10, <2>1, EmptySeq DEF FlattenSeq
    <3> QED
      BY <3>1
  <2>2. CASE n # 0
    <3>1. Len(ss) > 0
      BY <1>4, <1>10, <2>2
    <3>2. PICK f \in [1 .. Len(ss) -> Seq(WriteKinds)] : FlattenSeq(ss) = f[Len(ss)]
      BY <1>10, <3>1, FlattenParts
    <3>3. Len(ss) \in 1 .. Len(ss)
      BY <1>4, <1>10, <2>2
    <3> QED
      BY <3>2, <3>3
  <2> QED
    BY <2>1, <2>2
<1>12. ASSUME Whole(start, len, dev), NEW i \in 1 .. n
       PROVE  WriteResidue(p[i].start, p[i].len) <= p[i].len
  <2>1. CASE page # Page256
    BY <1>7, <2>1 DEF WriteResidue
  <2>2. CASE page = Page256
    <3>1. \/ start % page = 0
          \/ page - (start % page) <= len /\ len <= page * MaxBlocks
      BY <1>12, <2>2 DEF Whole
    <3>2. CASE start % page = 0
      <4> DEFINE k == MaxBlocks * (i - 1)
      <4>1. i - 1 \in Nat
        OBVIOUS
      <4>2. k \in Int /\ most * (i - 1) = page * k
        BY <1>1, <4>1
      <4> HIDE DEF k, most, page
      <4>3. p[i].start = start + page * k
        BY <1>4, <4>2
      <4>4. (start + page * k) % page = start % page
        <5>1. start \in Int /\ page \in Nat \ {0} /\ k \in Int
          BY <1>1, <4>2
        <5> QED
          BY <5>1, ModPlus
      <4>5. p[i].start % page = 0
        BY <3>2, <4>3, <4>4
      <4>6. WriteResidue(p[i].start, p[i].len) = 0
        BY <2>2, <4>5 DEF WriteResidue, page
      <4> QED
        BY <1>7, <4>6
    <3>3. CASE start % page # 0 /\ page - (start % page) <= len /\ len <= most
      <4>1. n = 1
        BY <1>4, <3>3
      <4>2. p[i].start = start /\ p[i].len = len
        BY <1>4, <4>1
      <4>3. WriteResidue(p[i].start, p[i].len) = page - (start % page)
        BY <2>2, <3>3, <4>2 DEF WriteResidue
      <4> QED
        BY <3>3, <4>2, <4>3
    <3> QED
      BY <3>1, <3>2, <3>3
  <2> QED
    BY <2>1, <2>2
<1>13. ASSUME Whole(start, len, dev)
       PROVE  Tiling(FlattenSeq(ss), start, start + len)
  <2>1. \A i \in 1 .. n : Tiling(ss[i], p[i].start, p[i].start + p[i].len)
    BY <1>5, <1>7, <1>12, <1>13, WritePartsIs
  <2>2. start \in Nat /\ start + len \in Nat
    BY <1>1
  <2> QED
    BY <1>4, <1>10, <2>1, <2>2, TilingFlatten
<1> QED
  BY <1>3, <1>11, <1>13

\* What a call is split into
LEMMA PartsAre ==
  ASSUME dev \in Devices, NEW r \in Requests
  PROVE  /\ Parts(r) \in Seq(PartRec) /\ Ordinary(Parts(r), r.op)
         /\ WholePages => Tiling(Parts(r), r.start, r.start + r.len)
<1> DEFINE s == Parts(r)
<1>0. r.start \in Nat /\ r.len \in Nat /\ r.op \in {"read", "write", "command"}
  BY RequestType
<1>1. CASE r.op = "read"
  <2>1. s = ReadParts(r.start, r.len) /\ Kinds(r.op) = {"slow", "bulk_read"}
    BY <1>1 DEF Parts, Kinds
  <2> DEFINE S == {p \in PartRec : p.kind \in {"slow", "bulk_read"}}
  <2>2. s \in Seq(S) /\ OneBulkRead(s) /\ Tiling(s, r.start, r.start + r.len)
    BY <1>0, <2>1, ReadPartsIs
  <2>3. S \subseteq PartRec
    OBVIOUS
  <2> HIDE DEF s
  <2>4. \A i \in 1 .. Len(s) : s[i] \in S
    BY <2>2, ElementOfSeq
  <2>5. s \in Seq(PartRec)
    BY <2>2, <2>3, SeqMonotonic
  <2> QED
    BY <2>1, <2>2, <2>4, <2>5 DEF s, Ordinary
<1>2. CASE r.op = "write"
  <2>1. s = Chunked(r.start, r.len) /\ Kinds(r.op) = {"slow", "bulk_write"}
    BY <1>2 DEF Parts, Kinds
  <2>a. r.start + r.len <= Size /\ (WholePages => Whole(r.start, r.len, dev))
    BY <1>2, RequestType DEF WholePages
  <2>2. s \in Seq(WriteKinds) /\ (WholePages => Tiling(s, r.start, r.start + r.len))
    BY <1>0, <2>1, <2>a, ChunkedIs
  <2>3. WriteKinds \subseteq PartRec
    BY DEF WriteKinds
  <2> HIDE DEF s
  <2>4. \A i \in 1 .. Len(s) : s[i] \in WriteKinds
    BY <2>2, ElementOfSeq
  <2>5. s \in Seq(PartRec)
    BY <2>2, <2>3, SeqMonotonic
  <2>6. OneBulkRead(s)
    BY <2>4 DEF OneBulkRead, WriteKinds
  <2> QED
    BY <2>1, <2>2, <2>4, <2>5, <2>6 DEF s, WriteKinds, Ordinary
<1>3. CASE r.op = "command"
  <2> DEFINE p == Part("command", r.start, r.len)
  <2>1. s = <<p>> /\ Kinds(r.op) = {"command"}
    BY <1>3 DEF Parts, Kinds
  <2>2. p \in PartRec /\ p.kind = "command" /\ p.start = r.start /\ p.len = r.len
    BY <1>0 DEF Part, PartRec, AllKinds
  <2> HIDE DEF p
  <2>3. <<p>> \in Seq(PartRec) /\ Len(<<p>>) = 1 /\ <<p>>[1] = p
    BY <2>2
  <2>4. OneBulkRead(<<p>>)
    BY <2>2, <2>3 DEF OneBulkRead
  <2>5. Tiling(<<p>>, r.start, r.start + r.len)
    BY <1>0, <2>2, <2>3 DEF Tiling
  <2> QED
    BY <2>1, <2>2, <2>3, <2>4, <2>5 DEF Ordinary
<1> QED
  BY <1>0, <1>1, <1>2, <1>3

-----------------------------------------------------------------------------
(* The ring                                                                *)

\* Two transfers in a window of as many as there are slots are in different slots
LEMMA Window ==
  ASSUME NEW a \in Nat, NEW b \in Nat, b - a < Slots, a - b < Slots, a % Slots = b % Slots
  PROVE  a = b
<1> DEFINE x == a \div Slots
           y == b \div Slots
<1>1. Slots \in Nat \ {0} /\ a \in Int /\ b \in Int
  BY Constants
<1>2. x \in Int /\ y \in Int /\ a = Slots * x + (a % Slots) /\ b = Slots * y + (b % Slots)
      /\ (a % Slots) \in 0 .. Slots - 1
  BY <1>1, DivMod
<1> HIDE DEF x, y
<1>3. b - a = Slots * y - Slots * x
  <2>1. Slots * x \in Int /\ Slots * y \in Int
    BY <1>1, <1>2
  <2> QED
    BY <1>1, <1>2, <2>1
<1>4. ~(y > x)
  <2> SUFFICES ASSUME y > x PROVE FALSE
    OBVIOUS
  <2>1. Slots * (x + 1) <= Slots * y
    BY <1>1, <1>2, TimesMonotonic
  <2>2. Slots * (x + 1) = Slots * x + Slots /\ Slots * x \in Int /\ Slots * y \in Int
    BY <1>1, <1>2
  <2> QED
    BY <1>1, <1>3, <2>1, <2>2
<1>5. ~(x > y)
  <2> SUFFICES ASSUME x > y PROVE FALSE
    OBVIOUS
  <2>1. Slots * (y + 1) <= Slots * x
    BY <1>1, <1>2, TimesMonotonic
  <2>2. Slots * (y + 1) = Slots * y + Slots /\ Slots * x \in Int /\ Slots * y \in Int
    BY <1>1, <1>2
  <2> QED
    BY <1>1, <1>3, <2>1, <2>2
<1>6. x = y
  BY <1>2, <1>4, <1>5
<1> QED
  BY <1>1, <1>2, <1>6

\* The sequences e and q of slots hold the transfers from f on
InTurn(e, q, f) ==
  /\ \A i \in 1 .. Len(e) : e[i] = (f + i - 1) % Slots
  /\ \A i \in 1 .. Len(q) : q[i] = (f + Len(e) + i - 1) % Slots

LEMMA TurnsDiffer ==
  ASSUME NEW e \in Seq(Slot), NEW q \in Seq(Slot), NEW f \in Nat, InTurn(e, q, f),
         Len(e) + Len(q) <= Slots
  PROVE  /\ \A i, j \in 1 .. Len(e) : e[i] = e[j] => i = j
         /\ \A i, j \in 1 .. Len(q) : q[i] = q[j] => i = j
         /\ \A i \in 1 .. Len(e), j \in 1 .. Len(q) : e[i] # q[j]
         /\ Len(e) + Len(q) < Slots =>
              /\ \A i \in 1 .. Len(e) : e[i] # (f + Len(e) + Len(q)) % Slots
              /\ \A i \in 1 .. Len(q) : q[i] # (f + Len(e) + Len(q)) % Slots
         /\ IsInjective(q \o e)
<1> DEFINE m == Len(e)
           n == Len(q)
<1>1. m \in Nat /\ n \in Nat /\ m + n <= Slots /\ Slots \in Nat
  BY Constants, LenProperties
<1>2. /\ \A i \in 1 .. m : e[i] = (f + i - 1) % Slots
      /\ \A i \in 1 .. n : q[i] = (f + m + i - 1) % Slots
  BY DEF InTurn
<1>3. /\ Len(q \o e) = n + m /\ q \o e \in Seq(Slot)
      /\ \A i \in 1 .. n : (q \o e)[i] = q[i]
      /\ \A i \in 1 .. m : (q \o e)[n + i] = e[i]
  BY ConcatElements
<1> HIDE DEF m, n
<1>4. \A i, j \in 1 .. m : e[i] = e[j] => i = j
  <2> TAKE i, j \in 1 .. m
  <2> HAVE e[i] = e[j]
  <2>1. f + i - 1 \in Nat /\ f + j - 1 \in Nat
        /\ (f + i - 1) - (f + j - 1) < Slots /\ (f + j - 1) - (f + i - 1) < Slots
    BY <1>1
  <2>2. (f + i - 1) % Slots = (f + j - 1) % Slots
    BY <1>2
  <2>3. f + i - 1 = f + j - 1
    BY <2>1, <2>2, Window
  <2> QED
    BY <1>1, <2>3
<1>5. \A i, j \in 1 .. n : q[i] = q[j] => i = j
  <2> TAKE i, j \in 1 .. n
  <2> HAVE q[i] = q[j]
  <2>1. f + m + i - 1 \in Nat /\ f + m + j - 1 \in Nat
        /\ (f + m + i - 1) - (f + m + j - 1) < Slots /\ (f + m + j - 1) - (f + m + i - 1) < Slots
    BY <1>1
  <2>2. (f + m + i - 1) % Slots = (f + m + j - 1) % Slots
    BY <1>2
  <2>3. f + m + i - 1 = f + m + j - 1
    BY <2>1, <2>2, Window
  <2> QED
    BY <1>1, <2>3
<1>6. \A i \in 1 .. m, j \in 1 .. n : e[i] # q[j]
  <2> TAKE i \in 1 .. m, j \in 1 .. n
  <2> SUFFICES ASSUME e[i] = q[j] PROVE FALSE
    OBVIOUS
  <2>1. f + i - 1 \in Nat /\ f + m + j - 1 \in Nat
        /\ (f + i - 1) - (f + m + j - 1) < Slots /\ (f + m + j - 1) - (f + i - 1) < Slots
    BY <1>1
  <2>2. (f + i - 1) % Slots = (f + m + j - 1) % Slots
    BY <1>2
  <2>3. f + i - 1 = f + m + j - 1
    BY <2>1, <2>2, Window
  <2> QED
    BY <1>1, <2>3
<1>7. ASSUME m + n < Slots
      PROVE  /\ \A i \in 1 .. m : e[i] # (f + m + n) % Slots
             /\ \A i \in 1 .. n : q[i] # (f + m + n) % Slots
  <2> DEFINE t == f + m + n
  <2>1. t \in Nat
    BY <1>1
  <2>2. ASSUME NEW i \in 1 .. m, e[i] = t % Slots PROVE FALSE
    <3>1. f + i - 1 \in Nat /\ (f + i - 1) - t < Slots /\ t - (f + i - 1) < Slots /\ f + i - 1 # t
      BY <1>1, <1>7
    <3>2. (f + i - 1) % Slots = t % Slots
      BY <1>2, <2>2
    <3> HIDE DEF t
    <3> QED
      BY <2>1, <3>1, <3>2, Window
  <2>3. ASSUME NEW i \in 1 .. n, q[i] = t % Slots PROVE FALSE
    <3>1. f + m + i - 1 \in Nat /\ (f + m + i - 1) - t < Slots /\ t - (f + m + i - 1) < Slots
          /\ f + m + i - 1 # t
      BY <1>1, <1>7
    <3>2. (f + m + i - 1) % Slots = t % Slots
      BY <1>2, <2>3
    <3> HIDE DEF t
    <3> QED
      BY <2>1, <3>1, <3>2, Window
  <2> QED
    BY <2>2, <2>3
<1>8. IsInjective(q \o e)
  <2> DEFINE w == q \o e
  <2>1. DOMAIN w = 1 .. n + m
    BY <1>3
  <2>a. \A k \in 1 .. m : w[n + k] = e[k]
    BY <1>3
  <2>b. \A k \in 1 .. n : w[k] = q[k]
    BY <1>3
  <2> HIDE DEF w
  <2>2. \A i \in 1 .. n + m : i > n => i - n \in 1 .. m /\ w[i] = e[i - n]
    <3> TAKE i \in 1 .. n + m
    <3> HAVE i > n
    <3> DEFINE k == i - n
    <3>1. k \in 1 .. m /\ n + k = i
      BY <1>1
    <3> HIDE DEF k
    <3>2. w[n + k] = e[k]
      BY <2>a, <3>1
    <3> QED
      BY <3>1, <3>2 DEF k
  <2>3. \A i \in 1 .. n + m : i <= n => i \in 1 .. n /\ w[i] = q[i]
    BY <1>1, <2>b
  <2> SUFFICES ASSUME NEW i \in 1 .. n + m, NEW j \in 1 .. n + m, w[i] = w[j]
               PROVE  i = j
    BY <2>1 DEF IsInjective, w
  <2>4. CASE i <= n /\ j <= n
    BY <1>5, <2>3, <2>4
  <2>5. CASE i > n /\ j > n
    <3>1. i - n = j - n
      BY <1>4, <2>2, <2>5
    <3> QED
      BY <1>1, <3>1
  <2>6. CASE i <= n /\ j > n
    BY <1>6, <2>2, <2>3, <2>6
  <2>7. CASE i > n /\ j <= n
    BY <1>6, <2>2, <2>3, <2>7
  <2> QED
    BY <1>1, <2>4, <2>5, <2>6, <2>7
<1> QED
  BY <1>4, <1>5, <1>6, <1>7, <1>8 DEF m, n

-----------------------------------------------------------------------------
(* The invariant is inductive: the ring                                    *)

LEMMA TodoIs ==
  ASSUME Types, todo # <<>>
  PROVE  /\ Len(todo) \in Nat \ {0} /\ Now = todo[1] /\ Now \in PartRec
         /\ Tail(todo) \in Seq(PartRec) /\ Len(Tail(todo)) = Len(todo) - 1
         /\ \A i \in 1 .. Len(todo) - 1 : Tail(todo)[i] = todo[i + 1]
<1>1. todo \in Seq(PartRec)
  BY DEF Types, CallTypes
<1>2. Len(todo) \in Nat \ {0}
  BY <1>1, EmptySeq, LenProperties
<1>3. todo[1] \in PartRec /\ Now = todo[1]
  BY <1>1, <1>2, ElementOfSeq DEF Now
<1> QED
  BY <1>1, <1>2, <1>3, HeadTailProperties

\* A part is done with, or is the last one
LEMMA NextPart ==
  ASSUME IInv, todo # <<>>, UNCHANGED req, (Proceed /\ ret = 0) \/ Abort(1)
  PROVE  /\ todo' \in Seq(PartRec) /\ ret' \in {0, 1} /\ pc' = "part" /\ pc' \in PCs
         /\ Ordinary(todo, req.op)' /\ (todo' # <<>> => ret' = 0)
         /\ NoBulkRead(todo) \/ Now.kind = "bulk_read" => NoBulkRead(todo)'
<1>1. pc' = "part" /\ pc' \in PCs
  BY DEF Proceed, Abort, PCs
<1>2. CASE Proceed /\ ret = 0
  <2> DEFINE t == Tail(todo)
             n == Len(todo)
  <2>1. /\ n \in Nat \ {0} /\ Now = todo[1] /\ t \in Seq(PartRec) /\ Len(t) = n - 1
        /\ \A i \in 1 .. n - 1 : t[i] = todo[i + 1]
    BY TodoIs DEF IInv
  <2> HIDE DEF t, n
  <2>2. todo' = t /\ ret' = 0
    BY <1>2 DEF Proceed, t
  <2>3. /\ \A i \in 1 .. n : todo[i].kind \in Kinds(req.op)
        /\ \A i, j \in 1 .. n : i < j /\ todo[i].kind = "bulk_read" => todo[j].kind # "bulk_read"
    BY DEF IInv, Parted, Ordinary, OneBulkRead, n
  <2>4. \A i \in 1 .. n - 1 : i + 1 \in 1 .. n /\ 1 < i + 1 /\ 1 \in 1 .. n
    BY <2>1
  <2>5. \A i \in 1 .. n - 1 : t[i].kind \in Kinds(req.op)
    BY <2>1, <2>3, <2>4
  <2>6. OneBulkRead(t)
    <3> SUFFICES ASSUME NEW i \in 1 .. n - 1, NEW j \in 1 .. n - 1, i < j, t[i].kind = "bulk_read"
                 PROVE  t[j].kind # "bulk_read"
      BY <2>1 DEF OneBulkRead
    <3>1. i + 1 < j + 1
      BY <2>1
    <3> QED
      BY <2>1, <2>3, <2>4, <3>1
  <2>7. ASSUME NoBulkRead(todo) \/ Now.kind = "bulk_read"
        PROVE  NoBulkRead(t)
    <3>1. \A i \in 1 .. n - 1 : todo[i + 1].kind # "bulk_read"
      <4>1. CASE NoBulkRead(todo)
        BY <2>4, <4>1 DEF NoBulkRead, n
      <4>2. CASE Now.kind = "bulk_read"
        BY <2>1, <2>3, <2>4, <4>2
      <4> QED
        BY <2>7, <4>1, <4>2
    <3> QED
      BY <2>1, <3>1 DEF NoBulkRead
  <2> QED
    BY <1>1, <2>1, <2>2, <2>5, <2>6, <2>7 DEF Ordinary, NoBulkRead, OneBulkRead
<1>3. CASE Abort(1)
  <2>1. todo' = <<>> /\ ret' = 1
    BY <1>3 DEF Abort
  <2>2. <<>> \in Seq(PartRec) /\ Len(<<>>) = 0
    OBVIOUS
  <2> QED
    BY <1>1, <2>1, <2>2 DEF Ordinary, NoBulkRead, OneBulkRead
<1> QED
  BY <1>2, <1>3

LEMMA IInvInit == Init => IInv
<1> SUFFICES ASSUME Init PROVE IInv
  OBVIOUS
<1>1. dev \in Devices /\ dev.fast \in {"none"} \cup MultiIo
  BY ProgrammerType DEF Init
<1>2. <<>> \in Seq(PartRec) /\ <<>> \in Seq(Slot) /\ Len(<<>>) = 0 /\ <<>> \o <<>> = <<>>
  OBVIOUS
<1>3. got \in [1 .. req.len -> Int]
  <2>1. req.len = 0 /\ got = <<>>
    BY DEF Init, NoCall
  <2>2. \A i \in 1 .. 0 : FALSE
    OBVIOUS
  <2>3. <<>> \in [1 .. 0 -> Int]
    BY <2>2
  <2> QED
    BY <2>1, <2>3
<1>4. Types
  <2>1. CallTypes
    BY <1>1, <1>2, <1>3 DEF Init, CallTypes, PCs
  <2>2. RingTypes
    BY <1>2 DEF Init, RingTypes, Idle, NoTransfer, Transfer
  <2> QED
    BY <2>1, <2>2 DEF Types
<1>5. Parted
  BY <1>2 DEF Init, Parted, Ring, Ordinary, OneBulkRead
<1>6. Circular
  <2>1. IsInjective(queue \o events)
    <3>1. queue \o events = <<>> /\ DOMAIN <<>> = {}
      BY <1>2 DEF Init
    <3> QED
      BY <3>1 DEF IsInjective
  <2> QED
    BY <2>1 DEF Init, Circular, Settled, Idle, Ring, NoTransfer
<1> QED
  BY <1>4, <1>5, <1>6 DEF IInv

\* Where the ring stands, by its counts
LEMMA RingIs ==
  ASSUME IInv, pc \in Ring
  PROVE  /\ ring.finished \in Nat /\ ring.queued \in Nat /\ ring.count \in Nat /\ Slots \in Nat \ {0}
         /\ ring.finished <= ring.queued /\ ring.queued <= ring.count
         /\ ring.queued - ring.finished <= Slots
         /\ Len(events) \in Nat /\ Len(queue) \in Nat
         /\ Len(events) + Len(queue) = ring.queued - ring.finished
         /\ events \in Seq(Slot) /\ queue \in Seq(Slot) /\ InTurn(events, queue, ring.finished)
         /\ \A i \in 1 .. Len(events) : usb[events[i]].state = "ended"
         /\ \A i \in 1 .. Len(queue) : usb[queue[i]].state = "flying"
         /\ todo # <<>> /\ ~lost
<1>1. /\ ring \in [queued : Nat, finished : Nat, error : BOOLEAN, count : Nat]
      /\ events \in Seq(Slot) /\ queue \in Seq(Slot)
  BY DEF IInv, Types, RingTypes
<1>2. Len(events) \in Nat /\ Len(queue) \in Nat /\ Slots \in Nat \ {0}
  BY <1>1, LenProperties, Constants
<1>3. /\ ring.finished <= ring.queued /\ ring.queued <= ring.count
      /\ ring.queued - ring.finished <= Slots
      /\ Len(events) + Len(queue) = ring.queued - ring.finished
      /\ \A i \in 1 .. Len(events) : Holds(events[i], ring.finished + i - 1, "ended")
      /\ \A i \in 1 .. Len(queue) : Holds(queue[i], ring.finished + Len(events) + i - 1, "flying")
  BY DEF IInv, Circular
<1>4. todo # <<>> /\ ~lost
  BY DEF IInv, Parted
<1> QED
  BY <1>1, <1>2, <1>3, <1>4 DEF Holds, InTurn

-----------------------------------------------------------------------------
(* The invariant is inductive: calls and their parts                       *)

Rest == /\ dev \in Devices /\ fastRead \in {"none"} \cup MultiIo
        /\ req \in Requests \cup {NoCall}
        /\ got \in [1 .. req.len -> Int] /\ chip \in [Addr -> {"old", "new"}]
        /\ faults \in Nat /\ calls \in Nat /\ astray \in BOOLEAN /\ lost \in BOOLEAN

LEMMA RestIs ==
  ASSUME IInv
  PROVE  /\ Rest /\ RingTypes /\ (lost => astray) /\ pc \in PCs /\ ret \in {0, 1}
         /\ todo \in Seq(PartRec)
         /\ pc \notin Ring => /\ \A s \in Slot : usb[s].state = "none"
                              /\ ~lost => Settled
         /\ IsInjective(queue \o events)
BY DEF IInv, Types, CallTypes, Parted, Circular, Rest

\* Steps that end a part with no transfer under way
LEMMA PartEnds ==
  ASSUME IInv, pc \notin Ring, todo # <<>>, (Proceed /\ ret = 0) \/ Abort(1),
         UNCHANGED <<req, ring, usb, queue, events, lost>>, Rest', RingTypes', lost' => astray'
  PROVE  IInv'
<1>1. /\ todo' \in Seq(PartRec) /\ ret' \in {0, 1} /\ pc' = "part" /\ pc' \in PCs
      /\ Ordinary(todo, req.op)' /\ (todo' # <<>> => ret' = 0)
      /\ NoBulkRead(todo) => NoBulkRead(todo)'
  BY NextPart
<1>2. Types'
  BY <1>1 DEF Types, CallTypes, Rest
<1>3. pc' \notin Ring /\ pc' # "idle" /\ pc' \notin {"mode", "command"}
  BY <1>1 DEF Ring
<1>4. Parted'
  <2>1. lost => NoBulkRead(todo)
    BY DEF IInv, Parted
  <2> QED
    BY <1>1, <1>3, <2>1 DEF Parted
<1>5. Circular'
  <2>1. /\ \A s \in Slot : usb[s].state = "none"
        /\ ~lost => Settled
        /\ IsInjective(queue \o events)
    BY RestIs
  <2> QED
    BY <1>3, <2>1 DEF Circular, Settled
<1> QED
  BY <1>2, <1>4, <1>5 DEF IInv

LEMMA CallKeeps ==
  ASSUME IInv, NEW r \in Requests, Call(r)
  PROVE  IInv'
<1>1. /\ pc = "idle" /\ ~lost /\ pc' = "part" /\ req' = r /\ todo' = Parts(r) /\ ret' = 0
      /\ got' = [i \in 1 .. r.len |-> NOTHING] /\ chip' = [a \in Addr |-> "old"]
      /\ UNCHANGED <<dev, fastRead, usb, queue, events, ring, stream, faults, astray, lost>>
      /\ calls' = calls + 1
  BY DEF Call, driver, usbVars
<1>2. Rest /\ RingTypes
  BY RestIs
<1>3. dev \in Devices
  BY <1>2 DEF Rest
<1>4. Parts(r) \in Seq(PartRec) /\ Ordinary(Parts(r), r.op)
  BY <1>3, PartsAre
<1>5. Types'
  <2>1. CallTypes'
    BY <1>1, <1>2, <1>4 DEF CallTypes, Rest, PCs, NOTHING
  <2>2. RingTypes'
    BY <1>1, <1>2 DEF RingTypes
  <2> QED
    BY <2>1, <2>2 DEF Types
<1>6. Parted'
  BY <1>1, <1>4 DEF Parted, Ring
<1>7. Circular'
  BY <1>1, RestIs DEF Circular, Settled, Ring
<1> QED
  BY <1>5, <1>6, <1>7 DEF IInv

LEMMA FinishKeeps ==
  ASSUME IInv, Finish
  PROVE  IInv'
<1>1. /\ pc = "part" /\ pc' = "idle" /\ todo = <<>>
      /\ UNCHANGED <<dev, fastRead, req, todo, ret, ring, usb, queue, events, stream, got, chip, faults,
                     calls, astray, lost>>
  BY DEF Finish, driver, usbVars, history
<1>2. Types'
  BY <1>1 DEF IInv, Types, CallTypes, RingTypes, PCs
<1>3. Parted'
  BY <1>1 DEF IInv, Parted, Ring
<1>4. Circular'
  BY <1>1 DEF IInv, Circular, Settled, Ring
<1> QED
  BY <1>2, <1>3, <1>4 DEF IInv

LEMMA BeginKeeps ==
  ASSUME IInv, Begin
  PROVE  IInv'
<1>1. /\ pc = "part" /\ todo # <<>> /\ ret = 0 /\ pc \notin Ring
      /\ UNCHANGED <<dev, req, ring, usb, queue, events, stream, got, chip, faults, calls, astray, lost>>
  BY DEF Begin, usbVars, history, IInv, Parted, Ring
<1>2. Rest /\ RingTypes /\ (lost => astray)
  BY RestIs
<1>3. CASE Abort(1) \/ Proceed
  <2>1. UNCHANGED fastRead
    BY <1>3 DEF Begin, Abort, Proceed
  <2>2. Rest' /\ RingTypes' /\ (lost' => astray')
    BY <1>1, <1>2, <2>1 DEF Rest, RingTypes
  <2> QED
    BY <1>1, <1>3, <2>2, PartEnds
<1>4. CASE /\ ~Unsupported /\ fastRead' = Override(Now.kind) /\ pc' = "mode" /\ UNCHANGED <<todo, ret>>
  <2>1. fastRead' \in {"none"} \cup MultiIo
    BY <1>2, <1>4 DEF Rest, Override
  <2>2. Types'
    BY <1>1, <1>4, <2>1 DEF IInv, Types, CallTypes, RingTypes, PCs
  <2>3. ~Unsupported'
    BY <1>1, <1>4 DEF Unsupported, Unaligned, Now, Count
  <2>4. Parted'
    BY <1>1, <1>4, <2>3 DEF IInv, Parted, Ring
  <2>5. Circular'
    BY <1>1, <1>4 DEF IInv, Circular, Settled, Ring
  <2> QED
    BY <2>2, <2>4, <2>5 DEF IInv
<1> QED
  BY <1>3, <1>4 DEF Begin

LEMMA SetIoModeKeeps ==
  ASSUME IInv, SetIoMode
  PROVE  IInv'
<1>1. /\ pc = "mode" /\ todo # <<>> /\ ret = 0 /\ pc \notin Ring /\ ~Unsupported
      /\ UNCHANGED <<dev, req, ring, usb, queue, events, stream, got, chip, calls, lost>>
  BY DEF SetIoMode, usbVars, IInv, Parted, Ring
<1>2. Rest /\ RingTypes /\ (lost => astray)
  BY RestIs
<1>3. CASE pc' = "command" /\ UNCHANGED <<fastRead, todo, ret, faults, astray>>
  <2>1. Types'
    BY <1>1, <1>3 DEF IInv, Types, CallTypes, RingTypes, PCs
  <2>2. ~Unsupported'
    BY <1>1, <1>3 DEF Unsupported, Unaligned, Now, Count
  <2>3. Parted'
    BY <1>1, <1>3, <2>2 DEF IInv, Parted, Ring
  <2>4. Circular'
    BY <1>1, <1>3 DEF IInv, Circular, Settled, Ring
  <2> QED
    BY <2>1, <2>3, <2>4 DEF IInv
<1>4. CASE /\ Fault /\ Abort(1) /\ Left /\ astray' = (astray \/ devMode' # devMode)
  <2>1. dev.fast \in {"none"} \cup MultiIo
    BY <1>2, ProgrammerType DEF Rest
  <2>2. Rest' /\ RingTypes' /\ (lost' => astray')
    BY <1>1, <1>2, <1>4, <2>1 DEF Rest, RingTypes, Left, Fault
  <2> QED
    BY <1>1, <1>4, <2>2, PartEnds
<1> QED
  BY <1>3, <1>4 DEF SetIoMode, driver

LEMMA ReceivedType ==
  ASSUME IInv, NEW start, NEW n, NEW right
  PROVE  Received(start, n, right) \in [1 .. req.len -> Int]
<1>1. got \in [1 .. req.len -> Int] /\ req \in Requests \cup {NoCall}
  BY RestIs DEF Rest
<1>2. req.start \in Nat
  BY <1>1, RequestType
<1>3. DOMAIN got = 1 .. req.len /\ \A i \in 1 .. req.len : got[i] \in Int /\ i - 1 + req.start \in Int
  BY <1>1, <1>2
<1>4. JUNK \in Int
  BY DEF JUNK
<1> QED
  BY <1>3, <1>4 DEF Received

LEMMA ProgrammedType ==
  ASSUME IInv, NEW start, NEW n
  PROVE  Programmed(start, n) \in [Addr -> {"old", "new"}]
<1>1. chip \in [Addr -> {"old", "new"}]
  BY RestIs DEF Rest
<1> QED
  BY <1>1 DEF Programmed

LEMMA SingleKeeps ==
  ASSUME IInv, Single
  PROVE  IInv'
<1>1. /\ pc = "command" /\ todo # <<>> /\ ret = 0 /\ pc \notin Ring
      /\ UNCHANGED <<dev, req, ring, usb, queue, events, stream, calls, astray, lost>>
  BY DEF Single, usbVars, history, IInv, Parted, Ring
<1>2. Rest /\ RingTypes /\ (lost => astray)
  BY RestIs
<1>3. dev.fast \in {"none"} \cup MultiIo
  BY <1>2, ProgrammerType DEF Rest
<1>4. PICK n \in 0 .. Now.len :
        /\ IF req.op = "write" THEN chip' = Programmed(Now.start, n) /\ UNCHANGED got
           ELSE got' = Received(Now.start, n, Understood) /\ UNCHANGED chip
        /\ \/ n = Now.len /\ Proceed /\ UNCHANGED faults
           \/ Fault /\ Abort(1)
  BY DEF Single
<1>5. got' \in [1 .. req.len -> Int]
  <2>1. Received(Now.start, n, Understood) \in [1 .. req.len -> Int] /\ got \in [1 .. req.len -> Int]
    BY <1>2, ReceivedType DEF Rest
  <2> QED
    BY <1>4, <2>1
<1>6. chip' \in [Addr -> {"old", "new"}]
  <2>1. Programmed(Now.start, n) \in [Addr -> {"old", "new"}] /\ chip \in [Addr -> {"old", "new"}]
    BY <1>2, ProgrammedType DEF Rest
  <2> QED
    BY <1>4, <2>1
<1>7. faults' \in Nat /\ fastRead' = dev.fast /\ (Proceed \/ Abort(1))
  BY <1>2, <1>4 DEF Fault, Rest, Single, Left
<1>8. Rest' /\ RingTypes' /\ (lost' => astray')
  BY <1>1, <1>2, <1>3, <1>5, <1>6, <1>7 DEF Rest, RingTypes
<1> QED
  BY <1>1, <1>7, <1>8, PartEnds

LEMMA BulkWriteKeeps ==
  ASSUME IInv, BulkWrite
  PROVE  IInv'
<1>1. /\ pc = "command" /\ todo # <<>> /\ ret = 0 /\ pc \notin Ring
      /\ UNCHANGED <<dev, fastRead, req, ring, usb, queue, events, stream, got, calls, lost>>
  BY DEF BulkWrite, driver, usbVars, IInv, Parted, Ring
<1>2. Rest /\ RingTypes /\ (lost => astray)
  BY RestIs
<1>3. PICK n \in 0 .. Count :
        /\ chip' = Programmed(Now.start, n * dev.page)
        /\ \/ n = Count /\ Proceed /\ UNCHANGED <<faults, astray>>
           \/ Fault /\ Abort(1) /\ astray' = TRUE
  BY DEF BulkWrite
<1>4. chip' \in [Addr -> {"old", "new"}]
  BY <1>3, ProgrammedType
<1>5. /\ faults' \in Nat /\ astray' \in BOOLEAN /\ (lost' => astray') /\ (Proceed \/ Abort(1))
  <2>1. CASE n = Count /\ Proceed /\ UNCHANGED <<faults, astray>>
    BY <1>1, <1>2, <2>1 DEF Rest
  <2>2. CASE Fault /\ Abort(1) /\ astray' = TRUE
    <3>1. faults' \in Nat
      BY <1>2, <2>2 DEF Fault, Rest
    <3> QED
      BY <2>2, <3>1
  <2> QED
    BY <1>3, <2>1, <2>2
<1>6. Rest' /\ RingTypes'
  BY <1>1, <1>2, <1>4, <1>5 DEF Rest, RingTypes
<1> QED
  BY <1>1, <1>5, <1>6, PartEnds

-----------------------------------------------------------------------------
(* The invariant is inductive: bulk reads                                  *)

\* Steps in the ring that leave what is under way alone
LEMMA RingStays ==
  ASSUME IInv, pc \in Ring, pc' \in Ring, ret' \in {0, 1}, todo # <<>> /\ pc' # "free" => ret' = 0,
         UNCHANGED <<dev, fastRead, req, todo, ring, usb, queue, events, stream, got, chip, calls,
                     astray, lost>>,
         faults' \in Nat
  PROVE  IInv'
<1>1. pc' \in PCs /\ pc' # "idle"
  BY DEF PCs, Ring
<1>2. Types'
  BY <1>1 DEF IInv, Types, CallTypes, RingTypes
<1>3. Parted'
  <2>1. todo # <<>> /\ ~Unsupported /\ Now.kind = "bulk_read" /\ ~lost /\ Ordinary(todo, req.op)
    BY DEF IInv, Parted
  <2>2. ~Unsupported' /\ Now'.kind = "bulk_read"
    BY <2>1 DEF Unsupported, Unaligned, Now, Count
  <2> QED
    BY <1>1, <2>1, <2>2 DEF Parted
<1>4. Circular'
  <2>1. Count' = Count
    BY DEF Count, Now
  <2>2. /\ ring.finished <= ring.queued /\ ring.queued <= ring.count
        /\ ring.queued - ring.finished <= Slots /\ ring.count = Count
        /\ Len(events) + Len(queue) = ring.queued - ring.finished
        /\ \A i \in 1 .. Len(events) : Holds(events[i], ring.finished + i - 1, "ended")
        /\ \A i \in 1 .. Len(queue) : Holds(queue[i], ring.finished + Len(events) + i - 1, "flying")
        /\ \A s \in Slot : usb[s].state = "flying" => \E i \in 1 .. Len(queue) : queue[i] = s
        /\ IsInjective(queue \o events)
    BY DEF IInv, Circular
  <2> QED
    BY <2>1, <2>2 DEF Circular, Holds
<1> QED
  BY <1>2, <1>3, <1>4 DEF IInv

LEMMA LoopKeeps ==
  ASSUME IInv, Loop
  PROVE  IInv'
<1>1. /\ pc = "loop" /\ pc' \in {"submit", "finish"}
      /\ UNCHANGED <<dev, fastRead, req, todo, ret, ring, usb, queue, events, stream, got, chip, faults,
                     calls, astray, lost>>
  BY DEF Loop, driver, usbVars, history
<1>2. pc \in Ring /\ pc' \in Ring /\ (todo # <<>> /\ pc' # "free" => ret' = 0) /\ ret' \in {0, 1}
  BY <1>1 DEF Ring, IInv, Parted, Types, CallTypes
<1>3. faults' \in Nat
  BY <1>1 DEF IInv, Types, CallTypes
<1> QED
  BY <1>1, <1>2, <1>3, RingStays

LEMMA CountIs ==
  ASSUME IInv, todo # <<>>, Now.kind = "bulk_read"
  PROVE  Count \in Nat
<1>1. Now.len \in Nat /\ Now.len \in Int /\ Block \in Nat \ {0}
  BY TodoIs, Constants DEF IInv, PartRec
<1>2. Now.len \div Block \in Nat
  BY <1>1, DivMod
<1> QED
  BY <1>2 DEF Count

LEMMA ReadCommandKeeps ==
  ASSUME IInv, ReadCommand
  PROVE  IInv'
<1>1. /\ pc = "command" /\ todo # <<>> /\ ret = 0 /\ pc \notin Ring /\ ~Unsupported
      /\ Now.kind = "bulk_read"
      /\ UNCHANGED <<dev, fastRead, req, usb, queue, events, got, chip, calls, lost>>
  BY DEF ReadCommand, driver, IInv, Parted, Ring
<1>2. Rest /\ RingTypes /\ (lost => astray) /\ todo \in Seq(PartRec)
  BY RestIs
<1>3. Count \in Nat /\ Now.start \in Nat
  BY <1>1, CountIs, TodoIs DEF IInv, PartRec
<1>4. PICK taken \in BOOLEAN :
       /\ stream' = IF taken THEN [from |-> Now.start, sent |-> 0, count |-> Count,
                                   right |-> devMode = ReadOpMode] ELSE stream
       /\ \/ /\ taken /\ ring' = [Idle EXCEPT !.count = Count] /\ pc' = "loop"
             /\ UNCHANGED <<todo, ret, faults, astray>>
          \/ /\ taken /\ Fault /\ ring' = [Idle EXCEPT !.count = Count]
             /\ ret' = 1 /\ pc' = "free" /\ UNCHANGED <<todo, astray>>
          \/ /\ Fault /\ Abort(1) /\ astray' = (astray \/ taken) /\ UNCHANGED ring
  BY DEF ReadCommand
<1>5. /\ stream' \in [from : Nat, sent : Nat, count : Nat, right : BOOLEAN]
      /\ stream'.sent <= stream'.count
  BY <1>2, <1>3, <1>4 DEF RingTypes
<1>6. faults' \in Nat
  BY <1>2, <1>4 DEF Fault, Rest
<1>7. CASE Fault /\ Abort(1) /\ astray' = (astray \/ taken) /\ UNCHANGED ring
  <2>1. RingTypes'
    BY <1>1, <1>2, <1>5, <1>7 DEF RingTypes
  <2>2. Rest' /\ (lost' => astray')
    BY <1>1, <1>2, <1>6, <1>7 DEF Rest
  <2> QED
    BY <1>1, <1>7, <2>1, <2>2, PartEnds
<1>8. CASE /\ ring' = [Idle EXCEPT !.count = Count] /\ pc' \in {"loop", "free"}
           /\ ret' \in {0, 1} /\ (pc' = "loop" => ret' = 0) /\ UNCHANGED <<todo, astray>>
  <2>1. /\ ring' \in [queued : Nat, finished : Nat, error : BOOLEAN, count : Nat]
        /\ ring'.queued = 0 /\ ring'.finished = 0 /\ ring'.count = Count
    BY <1>3, <1>8 DEF Idle
  <2>2. Types'
    <3>1. CallTypes'
      BY <1>1, <1>2, <1>6, <1>8 DEF CallTypes, Rest, PCs
    <3>2. RingTypes'
      BY <1>1, <1>2, <1>5, <2>1 DEF RingTypes
    <3> QED
      BY <3>1, <3>2 DEF Types
  <2>3. ~lost
    <3>1. todo[1] = Now /\ 1 \in 1 .. Len(todo)
      BY <1>1, TodoIs DEF IInv
    <3> QED
      BY <1>1, <3>1 DEF IInv, Parted, NoBulkRead
  <2>4. Parted'
    <3>1. ~Unsupported' /\ Now'.kind = "bulk_read"
      BY <1>1, <1>8 DEF Unsupported, Unaligned, Now, Count
    <3>2. Ordinary(todo, req.op)
      BY DEF IInv, Parted
    <3> QED
      BY <1>1, <1>8, <2>3, <3>1, <3>2 DEF Parted
  <2>5. Circular'
    <3>1. queue = <<>> /\ events = <<>> /\ \A s \in Slot : usb[s].state = "none"
      BY <1>1, <2>3, RestIs DEF Settled
    <3>2. IsInjective(queue \o events)
      BY RestIs
    <3>3. Count' = Count /\ pc' \in Ring /\ Slots \in Nat
      BY <1>1, <1>8, Constants DEF Count, Now, Ring
    <3> QED
      BY <1>1, <1>3, <2>1, <3>1, <3>2, <3>3 DEF Circular
  <2> QED
    BY <2>2, <2>4, <2>5 DEF IInv
<1> QED
  BY <1>1, <1>4, <1>7, <1>8

LEMMA WindowEnd ==
  ASSUME NEW f \in Nat, NEW q \in Nat, NEW k \in Nat, NEW m \in Nat, NEW n \in Nat,
         q - f < k, m + n = q - f
  PROVE  m + n < k /\ m + n <= k /\ q = f + m + n
OBVIOUS

LEMMA SubmitKeeps ==
  ASSUME IInv, Submit
  PROVE  IInv'
<1>1. /\ pc = "submit" /\ pc \in Ring /\ ret = 0
      /\ UNCHANGED <<dev, fastRead, req, todo, events, stream, got, chip, calls, astray, lost>>
  BY DEF Submit, driver, Ring, history, IInv, Parted
<1>2. Rest /\ RingTypes /\ (lost => astray) /\ todo \in Seq(PartRec)
  BY RestIs
<1>3. CASE /\ More /\ Room
           /\ usb' = [usb EXCEPT ![Next1] = [state |-> "flying", block |-> ring.queued, ok |-> TRUE]]
           /\ queue' = Append(queue, Next1) /\ ring' = [ring EXCEPT !.queued = @ + 1]
           /\ UNCHANGED <<pc, ret, faults>>
  <2> DEFINE m == Len(events)
             n == Len(queue)
             f == ring.finished
             q == ring.queued
             s == Next1
  <2>1. /\ f \in Nat /\ q \in Nat /\ Slots \in Nat \ {0} /\ m \in Nat /\ n \in Nat
        /\ f <= q /\ q < ring.count /\ ring.count \in Nat /\ q - f < Slots /\ m + n = q - f
        /\ events \in Seq(Slot) /\ queue \in Seq(Slot) /\ InTurn(events, queue, f)
        /\ todo # <<>> /\ ~lost
    BY <1>1, <1>3, RingIs DEF More, Room
  <2>2. s = q % Slots /\ s \in Slot
    <3>1. q \in Int /\ Slots \in Nat \ {0}
      BY <2>1
    <3>2. q % Slots \in 0 .. Slots - 1
      BY <3>1, DivMod
    <3> QED
      BY <3>2 DEF Next1, Slot
  <2>3. /\ queue' \in Seq(Slot) /\ Len(queue') = n + 1 /\ queue'[n + 1] = s
        /\ \A i \in 1 .. n : queue'[i] = queue[i]
    BY <1>3, <2>1, <2>2, AppendProperties
  <2>4. /\ ring'.queued = q + 1 /\ ring'.finished = f /\ ring'.count = ring.count
        /\ ring' \in [queued : Nat, finished : Nat, error : BOOLEAN, count : Nat]
    <3>1. ring \in [queued : Nat, finished : Nat, error : BOOLEAN, count : Nat]
      BY <1>2 DEF RingTypes
    <3>2. ring' = [ring EXCEPT !.queued = @ + 1]
      BY <1>3
    <3> QED
      BY <3>1, <3>2
  <2>5. /\ usb' \in [Slot -> Transfer] /\ usb'[s].state = "flying" /\ usb'[s].block = q
        /\ \A t \in Slot : t # s => usb'[t] = usb[t]
    BY <1>2, <1>3, <2>1, <2>2 DEF RingTypes, Transfer
  <2>6. /\ \A i \in 1 .. m : events[i] # s /\ events[i] \in Slot
        /\ \A i \in 1 .. n : queue[i] # s /\ queue[i] \in Slot
    <3>a. /\ f \in Nat /\ q \in Nat /\ Slots \in Nat /\ m \in Nat /\ n \in Nat
          /\ q - f < Slots /\ m + n = q - f
      BY <2>1
    <3>1. m + n < Slots /\ m + n <= Slots /\ q = f + m + n
      BY <3>a, WindowEnd
    <3>2. /\ \A i \in 1 .. m : events[i] # (f + m + n) % Slots
          /\ \A i \in 1 .. n : queue[i] # (f + m + n) % Slots
      BY <2>1, <3>1, TurnsDiffer
    <3>3. /\ \A i \in 1 .. m : events[i] \in Slot
          /\ \A i \in 1 .. n : queue[i] \in Slot
      BY <2>1, ElementOfSeq
    <3> QED
      BY <2>2, <3>1, <3>2, <3>3
  <2>7. /\ \A i \in 1 .. m : Holds(events[i], f + i - 1, "ended")
        /\ \A i \in 1 .. n : Holds(queue[i], f + m + i - 1, "flying")
        /\ \A t \in Slot : usb[t].state = "flying" => \E i \in 1 .. n : queue[i] = t
        /\ ring.count = Count
    BY <1>1 DEF IInv, Circular
  <2> HIDE DEF m, n, f, q, s
  <2>8. \A i \in 1 .. n + 1 : i \in 1 .. n \/ (i = n + 1 /\ f + m + i - 1 = q)
    BY <2>1
  <2>9. /\ \A i \in 1 .. m : /\ events[i] = (f + i - 1) % Slots /\ usb'[events[i]].block = f + i - 1
                             /\ usb'[events[i]].state = "ended"
        /\ \A i \in 1 .. n + 1 : /\ queue'[i] = (f + m + i - 1) % Slots
                                 /\ usb'[queue'[i]].block = f + m + i - 1
                                 /\ usb'[queue'[i]].state = "flying"
    <3>1. ASSUME NEW i \in 1 .. m
          PROVE  /\ events[i] = (f + i - 1) % Slots /\ usb'[events[i]].block = f + i - 1
                 /\ usb'[events[i]].state = "ended"
      <4>1. usb'[events[i]] = usb[events[i]]
        BY <2>5, <2>6
      <4> QED
        BY <2>7, <4>1 DEF Holds
    <3>2. ASSUME NEW i \in 1 .. n
          PROVE  /\ queue'[i] = (f + m + i - 1) % Slots /\ usb'[queue'[i]].block = f + m + i - 1
                 /\ usb'[queue'[i]].state = "flying"
      <4>1. usb'[queue[i]] = usb[queue[i]] /\ queue'[i] = queue[i]
        BY <2>3, <2>5, <2>6
      <4> QED
        BY <2>7, <4>1 DEF Holds
    <3>3. ASSUME NEW i \in 1 .. n + 1, i = n + 1, f + m + i - 1 = q
          PROVE  /\ queue'[i] = (f + m + i - 1) % Slots /\ usb'[queue'[i]].block = f + m + i - 1
                 /\ usb'[queue'[i]].state = "flying"
      BY <2>2, <2>3, <2>5, <3>3
    <3> QED
      BY <2>8, <3>1, <3>2, <3>3
  <2>10. \A t \in Slot : usb'[t].state = "flying" => \E i \in 1 .. n + 1 : queue'[i] = t
    <3> TAKE t \in Slot
    <3>1. CASE t = s
      <4>1. n + 1 \in 1 .. n + 1
        BY <2>1
      <4> QED
        BY <2>3, <3>1, <4>1
    <3>2. CASE t # s
      <4> HAVE usb'[t].state = "flying"
      <4>1. PICK i \in 1 .. n : queue[i] = t
        BY <2>5, <2>7, <3>2
      <4>2. i \in 1 .. n + 1 /\ queue'[i] = t
        BY <2>1, <2>3, <4>1
      <4> QED
        BY <4>2
    <3> QED
      BY <3>1, <3>2
  <2>11. IsInjective(queue' \o events)
    <3>1. InTurn(events, queue', f)
      BY <2>3, <2>9 DEF InTurn, m
    <3>2. Len(events) + Len(queue') <= Slots
      BY <2>1, <2>3 DEF m
    <3> QED
      BY <2>1, <2>3, <3>1, <3>2, TurnsDiffer
  <2>12. Types'
    BY <1>1, <1>3, <2>3, <2>4, <2>5 DEF IInv, Types, CallTypes, RingTypes
  <2>13. Parted'
    <3>1. ~Unsupported' /\ Now'.kind = "bulk_read"
      BY <1>1 DEF Unsupported, Unaligned, Now, Count, IInv, Parted
    <3> QED
      BY <1>1, <1>3, <2>1, <3>1 DEF IInv, Parted, Ring
  <2>14. Circular'
    <3>1. pc' \in Ring /\ Count' = Count
      BY <1>1, <1>3 DEF Count, Now
    <3>2. /\ ring'.finished <= ring'.queued /\ ring'.queued <= ring'.count
          /\ ring'.queued - ring'.finished <= Slots
          /\ Len(events') + Len(queue') = ring'.queued - ring'.finished
      BY <1>1, <2>1, <2>3, <2>4 DEF m
    <3> QED
      BY <1>1, <2>3, <2>4, <2>7, <2>9, <2>10, <2>11, <3>1, <3>2 DEF Circular, Holds, m
  <2> QED
    BY <2>12, <2>13, <2>14 DEF IInv
<1>4. CASE /\ Fault /\ ring' = Refused /\ ret' = 1 /\ pc' = "free" /\ UNCHANGED <<usb, queue>>
  <2>1. faults' \in Nat
    BY <1>2, <1>4 DEF Fault, Rest
  <2> QED
    BY <1>1, <1>4, <2>1, RingStays DEF Refused, Ring
<1>5. CASE pc' = "poll" /\ UNCHANGED <<usb, queue, ring, ret, faults>>
  <2>1. faults' \in Nat
    BY <1>2, <1>5 DEF Rest
  <2> QED
    BY <1>1, <1>5, <2>1, RingStays DEF Ring
<1> QED
  BY <1>3, <1>4, <1>5 DEF Submit

\* What follows a poll, by where it was called
LEMMA PolledIs ==
  ASSUME IInv, NEW r, pc \in {"poll", "finish"}, Polled(r)
  PROVE  /\ ret' \in {0, 1} /\ pc' = (IF pc = "poll" THEN "loop" ELSE "free")
         /\ pc = "poll" => UNCHANGED ret
         /\ pc = "finish" => ret' = IF r.finished < r.count \/ r.error THEN 1 ELSE 0
<1>1. ret \in {0, 1}
  BY RestIs
<1>2. CASE pc = "poll"
  BY <1>1, <1>2 DEF Polled
<1>3. CASE pc = "finish"
  BY <1>3 DEF Polled
<1> QED
  BY <1>2, <1>3

LEMMA HandleEventsKeeps ==
  ASSUME IInv, HandleEvents
  PROVE  IInv'
<1>1. /\ pc \in {"poll", "finish", "free"} /\ pc \in Ring /\ todo # <<>>
      /\ UNCHANGED <<dev, fastRead, req, todo, queue, stream, got, chip, faults, calls, astray, lost>>
  BY DEF HandleEvents, driver, Ring, history, IInv, Parted
<1>2. Rest /\ RingTypes /\ todo \in Seq(PartRec) /\ ret \in {0, 1} /\ (pc # "free" => ret = 0)
  BY <1>1, RestIs DEF IInv, Parted
<1>3. PICK k \in 1 .. Len(events) :
       LET ended == {events[i] : i \in 1 .. k}
           after == [ring EXCEPT !.finished = @ + k,
                                 !.error = @ \/ \E s \in ended : ~usb[s].ok]
       IN  /\ ring' = after /\ events' = SubSeq(events, k + 1, Len(events))
           /\ usb' = [s \in Slot |-> IF s \in ended THEN NoTransfer ELSE usb[s]]
           /\ IF pc = "poll" \/ (pc = "finish" /\ after.finished >= after.queued) THEN Polled(after)
              ELSE UNCHANGED <<pc, ret>>
  BY DEF HandleEvents
<1> DEFINE m == Len(events)
           n == Len(queue)
           f == ring.finished
           q == ring.queued
           ended == {events[i] : i \in 1 .. k}
<1>4. /\ f \in Nat /\ q \in Nat /\ Slots \in Nat \ {0} /\ m \in Nat /\ n \in Nat
      /\ f <= q /\ q <= ring.count /\ ring.count \in Nat /\ q - f <= Slots /\ m + n = q - f
      /\ events \in Seq(Slot) /\ queue \in Seq(Slot) /\ InTurn(events, queue, f) /\ ~lost
  BY <1>1, RingIs
<1>5. /\ pc' \in {"loop", "finish", "free"} /\ pc' \in Ring /\ ret' \in {0, 1}
      /\ pc' # "free" => ret' = 0
  <2>1. CASE pc \in {"poll", "finish"} /\ Polled(ring')
    <3>1. /\ ret' \in {0, 1} /\ pc' = (IF pc = "poll" THEN "loop" ELSE "free")
          /\ pc = "poll" => UNCHANGED ret
      BY <2>1, PolledIs
    <3> QED
      BY <1>1, <1>2, <2>1, <3>1 DEF Ring
  <2>2. CASE pc \in {"finish", "free"} /\ UNCHANGED <<pc, ret>>
    BY <1>1, <1>2, <2>2
  <2> QED
    BY <1>1, <1>3, <2>1, <2>2
<1>6. /\ ring' \in [queued : Nat, finished : Nat, error : BOOLEAN, count : Nat]
      /\ ring'.queued = q /\ ring'.finished = f + k /\ ring'.count = ring.count
      /\ k \in Nat /\ k >= 1 /\ k <= m
  <2>1. ring \in [queued : Nat, finished : Nat, error : BOOLEAN, count : Nat]
    BY <1>2 DEF RingTypes
  <2>2. k \in Nat /\ k >= 1 /\ k <= m
    BY <1>3, <1>4
  <2> DEFINE e == ring.error \/ \E s \in ended : ~usb[s].ok
  <2>3. ring' = [ring EXCEPT !.finished = @ + k, !.error = e]
    BY <1>3
  <2>4. e \in BOOLEAN
    OBVIOUS
  <2> HIDE DEF e
  <2>5. ring' = [queued |-> ring.queued, finished |-> ring.finished + k, error |-> e, count |-> ring.count]
    BY <2>1, <2>3
  <2>6. ring.queued \in Nat /\ ring.finished + k \in Nat /\ ring.count \in Nat
    BY <2>2, <1>4
  <2> QED
    BY <2>2, <2>4, <2>5, <2>6
<1>7. /\ events' \in Seq(Slot) /\ Len(events') = m - k
      /\ \A i \in 1 .. m - k : events'[i] = events[k + i]
  <2>1. events' = SubSeq(events, k + 1, m)
    BY <1>3
  <2>2. k + 1 \in 1 .. m + 1 /\ m \in (k + 1) - 1 .. m
    BY <1>4, <1>6
  <2>3. /\ SubSeq(events, k + 1, m) \in Seq(Slot)
        /\ Len(SubSeq(events, k + 1, m)) = IF k + 1 <= m THEN m - (k + 1) + 1 ELSE 0
        /\ \A i \in 1 .. m - (k + 1) + 1 : SubSeq(events, k + 1, m)[i] = events[(k + 1) + i - 1]
    BY <1>4, <1>6, <2>2, SubSeqProperties
  <2>4. /\ m - (k + 1) + 1 = m - k
        /\ ~(k + 1 <= m) => m - k = 0
        /\ \A i \in 1 .. m - k : i \in 1 .. m - (k + 1) + 1 /\ (k + 1) + i - 1 = k + i
    BY <1>4, <1>6
  <2> DEFINE u == SubSeq(events, k + 1, m)
  <2>5. /\ u \in Seq(Slot) /\ events' = u
        /\ Len(u) = IF k + 1 <= m THEN m - (k + 1) + 1 ELSE 0
        /\ \A i \in 1 .. m - (k + 1) + 1 : u[i] = events[(k + 1) + i - 1]
    BY <2>1, <2>3
  <2> HIDE DEF u, m
  <2>6. Len(u) = m - k
    BY <1>4, <1>6, <2>5
  <2>7. ASSUME NEW i \in 1 .. m - k
        PROVE  u[i] = events[k + i]
    <3>1. u[i] = events[(k + 1) + i - 1]
      BY <2>4, <2>5
    <3> QED
      BY <2>4, <3>1
  <2> QED
    BY <2>5, <2>6, <2>7
<1>8. usb' = [s \in Slot |-> IF s \in ended THEN NoTransfer ELSE usb[s]]
  BY <1>3
<1>9. usb' \in [Slot -> Transfer]
  BY <1>2, <1>8 DEF RingTypes, Transfer, NoTransfer
<1>10. /\ \A i \in 1 .. m - k : k + i \in 1 .. m /\ events[k + i] \in Slot /\ events[k + i] \notin ended
       /\ \A i \in 1 .. n : queue[i] \in Slot /\ queue[i] \notin ended
  <2>1. m + n <= Slots
    BY <1>4
  <2>2. /\ \A i, j \in 1 .. m : events[i] = events[j] => i = j
        /\ \A i \in 1 .. m, j \in 1 .. n : events[i] # queue[j]
    BY <1>4, <2>1, TurnsDiffer
  <2>3. \A i \in 1 .. m - k : k + i \in 1 .. m /\ \A j \in 1 .. k : j \in 1 .. m /\ j # k + i
    BY <1>4, <1>6
  <2>4. \A i \in 1 .. k : i \in 1 .. m
    BY <1>4, <1>6
  <2>5. /\ \A i \in 1 .. m : events[i] \in Slot
        /\ \A i \in 1 .. n : queue[i] \in Slot
    BY <1>4, ElementOfSeq
  <2> QED
    BY <2>2, <2>3, <2>4, <2>5
<1>11. /\ \A i \in 1 .. m : Holds(events[i], f + i - 1, "ended")
       /\ \A i \in 1 .. n : Holds(queue[i], f + m + i - 1, "flying")
       /\ \A t \in Slot : usb[t].state = "flying" => \E i \in 1 .. n : queue[i] = t
       /\ ring.count = Count
  BY <1>1 DEF IInv, Circular
<1> HIDE DEF m, n, f, q, ended
<1>12. ASSUME NEW i \in 1 .. m - k
       PROVE  /\ events'[i] = ((f + k) + i - 1) % Slots
              /\ usb'[events'[i]].block = (f + k) + i - 1 /\ usb'[events'[i]].state = "ended"
  <2> DEFINE j == k + i
  <2>a. j \in 1 .. m /\ f + j - 1 = (f + k) + i - 1
    BY <1>4, <1>6, <1>10
  <2>b. events'[i] = events[j] /\ events[j] \in Slot /\ events[j] \notin ended
    BY <1>7, <1>10
  <2>c. usb'[events[j]] = usb[events[j]]
    BY <1>8, <2>b
  <2>1. /\ j \in 1 .. m /\ events'[i] = events[j] /\ usb'[events[j]] = usb[events[j]]
        /\ f + j - 1 = (f + k) + i - 1
    BY <2>a, <2>b, <2>c
  <2> HIDE DEF j
  <2>2. Holds(events[j], f + j - 1, "ended")
    BY <1>11, <2>1
  <2> QED
    BY <2>1, <2>2 DEF Holds
<1>13. ASSUME NEW i \in 1 .. n
       PROVE  /\ queue[i] = ((f + k) + (m - k) + i - 1) % Slots
              /\ usb'[queue[i]].block = (f + k) + (m - k) + i - 1 /\ usb'[queue[i]].state = "flying"
  <2>1. queue[i] \in Slot /\ queue[i] \notin ended
    BY <1>10
  <2>2. usb'[queue[i]] = usb[queue[i]]
    BY <1>8, <2>1
  <2>3. (f + k) + (m - k) + i - 1 = f + m + i - 1
    BY <1>4, <1>6
  <2>4. Holds(queue[i], f + m + i - 1, "flying")
    BY <1>11
  <2> QED
    BY <2>2, <2>3, <2>4 DEF Holds
<1>14. \A t \in Slot : usb'[t].state = "flying" => \E i \in 1 .. n : queue[i] = t
  BY <1>8, <1>11 DEF NoTransfer
<1>15. IsInjective(queue \o events')
  <2>1. InTurn(events', queue, f + k)
    BY <1>7, <1>12, <1>13 DEF InTurn, n
  <2>a. /\ m \in Nat /\ n \in Nat /\ k \in Nat /\ f \in Nat /\ Slots \in Nat /\ q \in Nat
        /\ m + n = q - f /\ q - f <= Slots /\ Len(events') = m - k
    BY <1>4, <1>6, <1>7
  <2>2. Len(events') + Len(queue) <= Slots /\ f + k \in Nat
    BY <2>a DEF n
  <2> QED
    BY <1>4, <1>7, <2>1, <2>2, TurnsDiffer
<1>16. Types'
  <2>1. pc' \in PCs
    BY <1>5 DEF PCs
  <2> QED
    BY <1>1, <1>5, <1>6, <1>7, <1>9, <2>1 DEF IInv, Types, CallTypes, RingTypes
<1>17. Parted'
  <2>1. ~Unsupported' /\ Now'.kind = "bulk_read"
    BY <1>1 DEF Unsupported, Unaligned, Now, Count, IInv, Parted
  <2> QED
    BY <1>1, <1>4, <1>5, <2>1 DEF IInv, Parted, Ring
<1>18. Circular'
  <2>1. Count' = Count
    BY <1>1 DEF Count, Now
  <2>a. /\ m \in Nat /\ n \in Nat /\ k \in Nat /\ f \in Nat /\ Slots \in Nat /\ q \in Nat
        /\ m + n = q - f /\ q - f <= Slots /\ q <= ring.count
    BY <1>4, <1>6
  <2>b. k <= m /\ f + k <= q /\ q - (f + k) <= Slots /\ (m - k) + n = q - (f + k)
    <3>1. k <= m
      BY <1>6
    <3> QED
      BY <2>a, <3>1
  <2>c. /\ ring'.queued = q /\ ring'.finished = f + k /\ ring'.count = ring.count
        /\ Len(events') = m - k /\ Len(queue') = n
    BY <1>1, <1>6, <1>7 DEF n
  <2>2. /\ ring'.finished <= ring'.queued /\ ring'.queued <= ring'.count
        /\ ring'.queued - ring'.finished <= Slots
        /\ Len(events') + Len(queue') = ring'.queued - ring'.finished
    BY <2>a, <2>b, <2>c
  <2> QED
    BY <1>1, <1>5, <1>6, <1>7, <1>11, <1>12, <1>13, <1>14, <1>15, <2>1, <2>2 DEF Circular, Holds, n
<1> QED
  BY <1>16, <1>17, <1>18 DEF IInv

LEMMA FreeKeeps ==
  ASSUME IInv, pc = "free", Free, Pending => lost', lost' => Pending,
         UNCHANGED <<dev, fastRead, req, ring, queue, events, stream, got, chip, calls>>,
         faults' \in Nat, lost' \in BOOLEAN
  PROVE  IInv'
<1>1. /\ pc \in Ring /\ todo # <<>> /\ Now.kind = "bulk_read" /\ ret \in {0, 1}
  BY RestIs DEF Ring, IInv, Parted
<1>2. /\ usb' = [s \in Slot |-> NoTransfer] /\ (Pending => astray') /\ astray' \in BOOLEAN
      /\ (Proceed /\ ret = 0) \/ Abort(1)
  BY <1>1 DEF Free
<1>3. /\ todo' \in Seq(PartRec) /\ ret' \in {0, 1} /\ pc' = "part" /\ pc' \in PCs
      /\ Ordinary(todo, req.op)' /\ (todo' # <<>> => ret' = 0) /\ NoBulkRead(todo)'
  BY <1>1, <1>2, NextPart
<1>4. Types'
  <2>1. usb' \in [Slot -> Transfer]
    BY <1>2 DEF Transfer, NoTransfer
  <2>2. Types
    BY DEF IInv
  <2> QED
    BY <1>2, <1>3, <2>1, <2>2 DEF Types, CallTypes, RingTypes
<1>5. Parted'
  <2>1. pc' \notin Ring /\ pc' # "idle" /\ pc' \notin {"mode", "command"} /\ (lost' => astray')
    BY <1>2, <1>3 DEF Ring
  <2> QED
    BY <1>3, <2>1 DEF Parted
<1>6. Circular'
  <2>1. pc' \notin Ring /\ \A s \in Slot : usb'[s].state = "none"
    BY <1>2, <1>3 DEF Ring, NoTransfer
  <2>2. ~lost' => Settled'
    <3> HAVE ~lost'
    <3>1. ~Pending
      OBVIOUS
    <3>2. Len(events) = 0 /\ Len(queue) = 0 /\ ring.queued = ring.finished
      BY <1>1, <3>1, RingIs DEF Pending
    <3>3. queue = <<>> /\ events = <<>>
      BY <1>1, <3>2, RingIs, EmptySeq
    <3> QED
      BY <3>2, <3>3 DEF Settled
  <2>3. IsInjective(queue \o events)
    BY RestIs
  <2> QED
    BY <2>1, <2>2, <2>3 DEF Circular
<1> QED
  BY <1>4, <1>5, <1>6 DEF IInv

LEMMA PollDoneKeeps ==
  ASSUME IInv, PollDone
  PROVE  IInv'
<1>1. /\ pc \in {"poll", "finish", "free"} /\ pc \in Ring /\ ~Pending
      /\ UNCHANGED <<dev, fastRead, req, ring, queue, events, stream, got, chip, faults, calls, lost>>
  BY DEF PollDone, driver, Ring, WaitForAll
<1>2. faults' \in Nat /\ ~lost /\ ret \in {0, 1} /\ (pc # "free" => ret = 0)
  BY <1>1, RingIs DEF IInv, Types, CallTypes, Parted
<1>3. CASE pc = "free" /\ Free
  <2>1. (Pending => lost') /\ (lost' => Pending) /\ lost' \in BOOLEAN
    <3>1. lost \in BOOLEAN
      BY RestIs DEF Rest
    <3> QED
      BY <1>1, <1>2, <3>1
  <2> QED
    BY <1>1, <1>2, <1>3, <2>1, FreeKeeps
<1>4. CASE pc # "free" /\ Polled(ring) /\ UNCHANGED <<usb, todo, astray>>
  <2>1. /\ ret' \in {0, 1} /\ pc' = (IF pc = "poll" THEN "loop" ELSE "free")
        /\ pc = "poll" => UNCHANGED ret
    BY <1>1, <1>4, PolledIs
  <2>2. pc' \in Ring /\ (todo # <<>> /\ pc' # "free" => ret' = 0)
    BY <1>1, <1>2, <1>4, <2>1 DEF Ring
  <2> QED
    BY <1>1, <1>2, <1>4, <2>1, <2>2, RingStays
<1> QED
  BY <1>3, <1>4 DEF PollDone

LEMMA PollFailsKeeps ==
  ASSUME IInv, PollFails
  PROVE  IInv'
<1>1. /\ pc \in {"poll", "finish", "free"} /\ pc \in Ring /\ Pending
      /\ UNCHANGED <<dev, fastRead, req, ring, queue, events, stream, got, chip, calls>>
  BY DEF PollFails, driver, Ring
<1>2. faults' \in Nat
  BY DEF PollFails, Fault, IInv, Types, CallTypes
<1>3. CASE pc = "free" /\ Free /\ lost' = TRUE
  <2>1. (Pending => lost') /\ (lost' => Pending) /\ lost' \in BOOLEAN
    BY <1>1, <1>3
  <2> QED
    BY <1>1, <1>2, <1>3, <2>1, FreeKeeps
<1>4. CASE pc # "free" /\ pc' = "free" /\ ret' = 1 /\ UNCHANGED <<usb, todo, astray, lost>>
  BY <1>1, <1>2, <1>4, RingStays DEF Ring
<1> QED
  BY <1>3, <1>4 DEF PollFails

-----------------------------------------------------------------------------
(* The invariant is inductive: the USB                                     *)

LEMMA EndsKeeps ==
  ASSUME IInv, queue # <<>>, ~lost, NEW ok \in BOOLEAN, Ends(ok),
         UNCHANGED <<dev, fastRead, pc, req, todo, ret, ring, chip, calls, astray, lost>>,
         got' \in [1 .. req.len -> Int], faults' \in Nat,
         stream' \in [from : Nat, sent : Nat, count : Nat, right : BOOLEAN],
         stream'.sent <= stream'.count
  PROVE  IInv'
<1>1. pc \in Ring
  BY RestIs DEF Settled
<1> DEFINE m == Len(events)
           n == Len(queue)
           f == ring.finished
           h == Head(queue)
<1>2. /\ f \in Nat /\ ring.queued \in Nat /\ Slots \in Nat \ {0} /\ m \in Nat /\ n \in Nat
      /\ ring.queued - f <= Slots /\ m + n = ring.queued - f
      /\ events \in Seq(Slot) /\ queue \in Seq(Slot) /\ InTurn(events, queue, f)
  BY <1>1, RingIs
<1>3. n >= 1 /\ h = queue[1] /\ 1 \in 1 .. n
  BY <1>2, EmptySeq
<1>4. /\ usb' = [usb EXCEPT ![h] = [@ EXCEPT !.state = "ended", !.ok = ok]]
      /\ queue' = Tail(queue) /\ events' = Append(events, h)
  BY DEF Ends
<1>5. h \in Slot /\ \A i \in 1 .. n : queue[i] \in Slot
  BY <1>2, <1>3, ElementOfSeq
<1>6. /\ queue' \in Seq(Slot) /\ Len(queue') = n - 1
      /\ \A i \in 1 .. n - 1 : queue'[i] = queue[i + 1]
  BY <1>2, <1>4, HeadTailProperties
<1>7. /\ events' \in Seq(Slot) /\ Len(events') = m + 1 /\ events'[m + 1] = h
      /\ \A i \in 1 .. m : events'[i] = events[i]
  BY <1>2, <1>4, <1>5, AppendProperties
<1>8. /\ \A i \in 1 .. m : events[i] # h /\ events[i] \in Slot
      /\ \A i \in 1 .. n - 1 : queue[i + 1] # h /\ queue[i + 1] \in Slot
  <2>1. m + n <= Slots
    BY <1>2
  <2>2. /\ \A i, j \in 1 .. n : queue[i] = queue[j] => i = j
        /\ \A i \in 1 .. m, j \in 1 .. n : events[i] # queue[j]
    BY <1>2, <2>1, TurnsDiffer
  <2>3. \A i \in 1 .. n - 1 : i + 1 \in 1 .. n /\ i + 1 # 1
    BY <1>2
  <2>4. \A i \in 1 .. m : events[i] \in Slot
    BY <1>2, ElementOfSeq
  <2> QED
    BY <1>3, <1>5, <2>2, <2>3, <2>4
<1>9. /\ usb \in [Slot -> Transfer] /\ usb[h] \in Transfer
  BY <1>5, RestIs DEF RingTypes
<1>10. /\ usb' \in [Slot -> Transfer] /\ usb'[h].state = "ended" /\ usb'[h].block = usb[h].block
       /\ \A t \in Slot : t # h => usb'[t] = usb[t]
  BY <1>4, <1>5, <1>9 DEF Transfer
<1>11. /\ \A i \in 1 .. m : Holds(events[i], f + i - 1, "ended")
       /\ \A i \in 1 .. n : Holds(queue[i], f + m + i - 1, "flying")
       /\ \A t \in Slot : usb[t].state = "flying" => \E i \in 1 .. n : queue[i] = t
       /\ ring.finished <= ring.queued /\ ring.queued <= ring.count
       /\ ring.count = Count
  BY <1>1 DEF IInv, Circular
<1> HIDE DEF m, n, f, h
<1>12. ASSUME NEW i \in 1 .. m + 1
       PROVE  /\ events'[i] = (f + i - 1) % Slots
              /\ usb'[events'[i]].block = f + i - 1 /\ usb'[events'[i]].state = "ended"
  <2>1. CASE i \in 1 .. m
    <3>1. Holds(events[i], f + i - 1, "ended") /\ usb'[events[i]] = usb[events[i]]
      BY <1>8, <1>10, <1>11, <2>1
    <3> QED
      BY <1>7, <2>1, <3>1 DEF Holds
  <2>2. CASE i = m + 1
    <3>1. Holds(h, f + m + 1 - 1, "flying") /\ f + m + 1 - 1 = f + i - 1
      BY <1>2, <1>3, <1>11, <2>2
    <3> QED
      BY <1>7, <1>10, <2>2, <3>1 DEF Holds
  <2>3. m \in Nat
    BY <1>2
  <2>4. i \in 1 .. m \/ i = m + 1
    BY <2>3
  <2> QED
    BY <2>1, <2>2, <2>4
<1>13. ASSUME NEW i \in 1 .. n - 1
       PROVE  /\ queue'[i] = (f + (m + 1) + i - 1) % Slots
              /\ usb'[queue'[i]].block = f + (m + 1) + i - 1 /\ usb'[queue'[i]].state = "flying"
  <2> DEFINE j == i + 1
  <2>1. j \in 1 .. n /\ f + m + j - 1 = f + (m + 1) + i - 1
    BY <1>2
  <2>2. queue'[i] = queue[j] /\ usb'[queue[j]] = usb[queue[j]]
    BY <1>6, <1>8, <1>10
  <2> HIDE DEF j
  <2>3. Holds(queue[j], f + m + j - 1, "flying")
    BY <1>11, <2>1
  <2> QED
    BY <2>1, <2>2, <2>3 DEF Holds
<1>14. ASSUME NEW t \in Slot, usb'[t].state = "flying"
       PROVE  \E i \in 1 .. n - 1 : queue'[i] = t
  <2>1. t # h /\ usb[t].state = "flying"
    BY <1>10, <1>14
  <2>2. PICK j \in 1 .. n : queue[j] = t
    BY <1>11, <2>1
  <2>3. j # 1
    BY <1>3, <2>1, <2>2
  <2>4. j - 1 \in 1 .. n - 1 /\ (j - 1) + 1 = j
    BY <1>2, <2>3
  <2>5. queue'[j - 1] = t
    BY <1>6, <2>2, <2>4
  <2> QED
    BY <2>4, <2>5
<1>15. IsInjective(queue' \o events')
  <2>1. InTurn(events', queue', f)
    BY <1>6, <1>7, <1>12, <1>13 DEF InTurn
  <2>a. /\ m \in Nat /\ n \in Nat /\ f \in Nat /\ ring.queued \in Nat /\ Slots \in Nat
        /\ m + n = ring.queued - f /\ ring.queued - f <= Slots
    BY <1>2
  <2>b. Len(events') = m + 1 /\ Len(queue') = n - 1
    BY <1>6, <1>7
  <2>2. Len(events') + Len(queue') <= Slots
    BY <2>a, <2>b
  <2>c. events' \in Seq(Slot) /\ queue' \in Seq(Slot) /\ f \in Nat
    BY <1>6, <1>7, <2>a
  <2> QED
    BY <2>c, <2>1, <2>2, TurnsDiffer
<1>16. Types'
  BY <1>6, <1>7, <1>10 DEF IInv, Types, CallTypes, RingTypes
<1>17. Parted'
  <2>1. ~Unsupported' /\ Now'.kind = "bulk_read"
    BY <1>1 DEF Unsupported, Unaligned, Now, Count, IInv, Parted
  <2> QED
    BY <1>1, <2>1 DEF IInv, Parted, Ring
<1>18. Circular'
  <2>1. Count' = Count /\ pc' \in Ring
    BY <1>1 DEF Count, Now
  <2>2. /\ ring'.finished <= ring'.queued /\ ring'.queued <= ring'.count
        /\ ring'.queued - ring'.finished <= Slots
        /\ Len(events') + Len(queue') = ring'.queued - ring'.finished
        /\ ring'.finished = f
    BY <1>2, <1>6, <1>7, <1>11 DEF f
  <2> QED
    BY <1>6, <1>7, <1>11, <1>12, <1>13, <1>14, <1>15, <2>1, <2>2 DEF Circular, Holds
<1> QED
  BY <1>16, <1>17, <1>18 DEF IInv

LEMMA StreamIs ==
  ASSUME IInv
  PROVE  /\ stream.from \in Nat /\ stream.sent \in Nat /\ stream.count \in Nat
         /\ stream \in [from : Nat, sent : Nat, count : Nat, right : BOOLEAN]
         /\ stream.sent <= stream.count
BY DEF IInv, Types, RingTypes

LEMMA LandsType ==
  ASSUME IInv, queue # <<>>, ~lost
  PROVE  Lands \in [1 .. req.len -> Int]
<1>1. pc \in Ring
  BY RestIs DEF Settled
<1>2. todo # <<>> /\ queue \in Seq(Slot) /\ usb \in [Slot -> Transfer]
  BY <1>1, RingIs DEF IInv, Types, RingTypes
<1>3. Head(queue) \in Slot
  BY <1>2, HeadTailProperties
<1>4. usb[Head(queue)].block \in Nat
  BY <1>2, <1>3 DEF Transfer
<1>5. got \in [1 .. req.len -> Int] /\ req \in Requests \cup {NoCall}
  BY RestIs DEF Rest
<1>6. /\ Block \in Nat /\ stream.from \in Nat /\ stream.sent \in Nat /\ Now.start \in Nat
      /\ req.start \in Nat
  BY <1>2, <1>5, Constants, StreamIs, TodoIs, RequestType DEF IInv, PartRec
<1> DEFINE to == Now.start + usb[Head(queue)].block * Block
           x == stream.from + stream.sent * Block
<1>7. to \in Int /\ x \in Int
  <2>1. \A a, b \in Nat : a * Block \in Int /\ b + a * Block \in Int
    BY <1>6
  <2> QED
    BY <1>4, <1>6, <2>1
<1>8. Lands = [i \in DOMAIN got |-> IF req.start + i - 1 - to \in 0 .. Block - 1
                                    THEN IF stream.right THEN x + (req.start + i - 1 - to) ELSE JUNK
                                    ELSE got[i]]
  BY DEF Lands
<1> HIDE DEF to, x
<1>9. \A i \in 1 .. req.len : /\ (IF req.start + i - 1 - to \in 0 .. Block - 1
                                 THEN IF stream.right THEN x + (req.start + i - 1 - to) ELSE JUNK
                                 ELSE got[i]) \in Int
  BY <1>5, <1>6, <1>7 DEF JUNK
<1> QED
  BY <1>5, <1>8, <1>9

LEMMA ArrivesKeeps ==
  ASSUME IInv, Arrives
  PROVE  IInv'
<1>1. /\ queue # <<>> /\ stream.sent < stream.count /\ ~lost /\ Ends(TRUE) /\ got' = Lands
      /\ stream' = [stream EXCEPT !.sent = @ + 1]
      /\ UNCHANGED <<dev, fastRead, pc, req, todo, ret, ring, chip, faults, calls, astray, lost>>
  BY DEF Arrives, driver, history
<1>2. /\ stream' \in [from : Nat, sent : Nat, count : Nat, right : BOOLEAN]
      /\ stream'.sent <= stream'.count
  BY <1>1, StreamIs
<1>3. got' \in [1 .. req.len -> Int] /\ faults' \in Nat
  BY <1>1, LandsType, RestIs DEF Rest
<1> QED
  BY <1>1, <1>2, <1>3, EndsKeeps

LEMMA BreaksKeeps ==
  ASSUME IInv, Breaks
  PROVE  IInv'
<1>1. /\ queue # <<>> /\ ~lost /\ Ends(FALSE)
      /\ UNCHANGED <<dev, fastRead, pc, req, todo, ret, ring, got, chip, calls, astray, lost>>
  BY DEF Breaks, driver, history
<1>2. /\ stream' \in [from : Nat, sent : Nat, count : Nat, right : BOOLEAN]
      /\ stream'.sent <= stream'.count /\ faults' \in Nat
  <2>1. faults \in Nat
    BY RestIs DEF Rest
  <2>2. CASE UNCHANGED <<stream, faults>>
    BY <2>1, <2>2, StreamIs
  <2>3. CASE Fault /\ \E n \in {0, 1} : /\ stream.sent + n <= stream.count
                                        /\ stream' = [stream EXCEPT !.sent = @ + n]
    BY <2>1, <2>3, StreamIs DEF Fault
  <2> QED
    BY <2>2, <2>3 DEF Breaks
<1>3. got' \in [1 .. req.len -> Int]
  BY <1>1, RestIs DEF Rest
<1> QED
  BY <1>1, <1>2, <1>3, EndsKeeps

-----------------------------------------------------------------------------
(* The ring leaves nothing behind                                          *)

LEMMA IInvNext == IInv /\ [Next]_vars => IInv'
<1> SUFFICES ASSUME IInv, [Next]_vars PROVE IInv'
  OBVIOUS
<1>1. CASE UNCHANGED vars
  <2>1. UNCHANGED <<dev, fastRead, pc, req, todo, ret, ring, usb, queue, events, stream, got, chip, faults,
                    calls, astray, lost>>
    BY <1>1 DEF vars, driver, usbVars, history
  <2>2. Types'
    BY <2>1 DEF IInv, Types, CallTypes, RingTypes
  <2>3. Parted'
    BY <2>1 DEF IInv, Parted, Unsupported, Unaligned, Now, Count
  <2>4. Circular'
    BY <2>1 DEF IInv, Circular, Settled, Holds, Now, Count
  <2> QED
    BY <2>2, <2>3, <2>4 DEF IInv
<1>2. CASE \E r \in Requests : Call(r)
  BY <1>2, CallKeeps
<1>3. CASE Driver
  BY <1>3, FinishKeeps, BeginKeeps, SetIoModeKeeps, SingleKeeps, BulkWriteKeeps, ReadCommandKeeps,
     LoopKeeps, SubmitKeeps, HandleEventsKeeps, PollDoneKeeps, PollFailsKeeps DEF Driver
<1>4. CASE Device
  BY <1>4, ArrivesKeeps, BreaksKeeps DEF Device
<1> QED
  BY <1>1, <1>2, <1>3, <1>4 DEF Next

LEMMA IInvImplies == IInv => TypeOK /\ NothingInFlight
<1> SUFFICES ASSUME IInv PROVE TypeOK /\ NothingInFlight
  OBVIOUS
<1>1. NothingInFlight
  BY DEF NothingInFlight, IInv, Circular, Settled, Ring
<1>2. /\ pc \in PCs /\ ret \in {0, 1} /\ stream.sent <= stream.count /\ IsInjective(queue \o events)
      /\ todo \in Seq(PartRec)
  BY RestIs, StreamIs
<1>3. \A i \in DOMAIN todo : todo[i].start \in Nat /\ todo[i].len \in Nat
  <2>1. \A i \in 1 .. Len(todo) : todo[i] \in PartRec
    BY <1>2, ElementOfSeq
  <2>2. DOMAIN todo = 1 .. Len(todo)
    BY <1>2
  <2> QED
    BY <2>1, <2>2 DEF PartRec
<1>4. CASE pc \in Ring
  <2>1. /\ Len(events) \in Nat /\ Len(queue) \in Nat /\ ~lost
        /\ Len(events) + Len(queue) = ring.queued - ring.finished
        /\ queue \in Seq(Slot) /\ \A i \in 1 .. Len(queue) : usb[queue[i]].state = "flying"
    BY <1>4, RingIs
  <2>2. \A s \in Slot : usb[s].state = "flying" => \E i \in 1 .. Len(queue) : queue[i] = s
    BY <1>4 DEF IInv, Circular
  <2>3. ToSet(queue) = {queue[i] : i \in 1 .. Len(queue)}
    BY <2>1 DEF ToSet
  <2>4. \A s \in Slot : usb[s].state = "flying" <=> s \in ToSet(queue)
    BY <2>1, <2>2, <2>3
  <2> QED
    BY <1>1, <1>2, <1>3, <2>1, <2>4 DEF TypeOK
<1>5. CASE pc \notin Ring /\ ~lost
  <2>1. /\ queue = <<>> /\ events = <<>> /\ ring.queued = ring.finished
        /\ \A s \in Slot : usb[s].state = "none"
    BY <1>5, RestIs DEF Settled
  <2>2. ToSet(queue) = {} /\ Len(queue) + Len(events) = 0
    BY <2>1 DEF ToSet
  <2>3. ring.queued - ring.finished = 0
    <3>1. ring.queued \in Nat
      BY DEF IInv, Types, RingTypes
    <3> QED
      BY <2>1, <3>1
  <2> QED
    BY <1>1, <1>2, <1>3, <2>1, <2>2, <2>3 DEF TypeOK
<1>6. CASE pc \notin Ring /\ lost
  BY <1>1, <1>2, <1>3, <1>6 DEF TypeOK
<1> QED
  BY <1>4, <1>5, <1>6

\* Every variable keeps its type, and no slot of the ring is used twice at a time: whatever
\* libusb holds, or has ended without its callback, is counted as under way
THEOREM TypesCorrect == Spec => []TypeOK
<1>1. IInv /\ [Next]_vars => IInv'
  BY IInvNext
<1>2. IInv => TypeOK
  BY IInvImplies
<1> QED
  BY IInvInit, <1>1, <1>2, PTL DEF Spec

\* No call returns with a transfer that libusb holds, or whose callback has not run, unless
\* the event loop itself failed at the very end
THEOREM NothingStaysInFlight == Spec => []NothingInFlight
<1>1. IInv /\ [Next]_vars => IInv'
  BY IInvNext
<1>2. IInv => NothingInFlight
  BY IInvImplies
<1> QED
  BY IInvInit, <1>1, <1>2, PTL DEF Spec

-----------------------------------------------------------------------------
(* Ranges are done completely: what a step leaves of the range             *)

ReqRec == req.start \in Nat /\ req.len \in Nat /\ End \in Nat /\ End <= Size

LEMMA ReqIs ==
  ASSUME IInv
  PROVE  ReqRec
<1>1. req \in Requests \cup {NoCall}
  BY RestIs DEF Rest
<1> QED
  BY <1>1, RequestType DEF ReqRec, End

LEMMA Places ==
  ASSUME DInv, todo # <<>>, ret = 0
  PROVE  /\ Pos = Now.start /\ Now.start \in Nat /\ Now.len \in Nat
         /\ req.start <= Now.start /\ Now.start + Now.len <= End
         /\ Tiling(Tail(todo), Now.start + Now.len, End)
         /\ Tail(todo) \in Seq(PartRec) /\ ReqRec
<1>1. IInv /\ ReqRec
  BY ReqIs DEF DInv
<1>2. Pos = Now.start
  BY DEF Pos
<1>3. Now \in PartRec /\ Now = todo[1] /\ Tail(todo) \in Seq(PartRec) /\ todo \in Seq(PartRec)
      /\ 1 \in 1 .. Len(todo)
  <2>1. Types /\ todo \in Seq(PartRec)
    BY <1>1, RestIs DEF IInv
  <2>2. Now \in PartRec /\ Now = todo[1] /\ Tail(todo) \in Seq(PartRec) /\ Len(todo) \in Nat \ {0}
    BY <2>1, TodoIs
  <2> QED
    BY <2>1, <2>2
<1>4. Now.start \in Nat /\ Now.len \in Nat
  BY <1>3 DEF PartRec
<1>5. req.start <= Now.start /\ Tiling(todo, Now.start, End) /\ End \in Nat
  BY <1>1, <1>2 DEF DInv, Tiled, ReqRec
<1>6. Now.start + Now.len <= End
  BY <1>3, <1>4, <1>5, TilingBounds
<1>7. Tiling(Tail(todo), Now.start + Now.len, End)
  BY <1>3, <1>4, <1>5, TilingTail
<1> QED
  BY <1>1, <1>2, <1>3, <1>4, <1>5, <1>6, <1>7

\* A part is done with
LEMMA GoesOn ==
  ASSUME DInv, todo # <<>>, ret = 0, Proceed, UNCHANGED <<dev, req>>,
         ~astray' => DoneIn(req, got', chip', Now.start + Now.len)
  PROVE  Tiled' /\ Reached'
<1>1. /\ Now.start \in Nat /\ Now.len \in Nat
      /\ req.start <= Now.start /\ Now.start + Now.len <= End
      /\ Tiling(Tail(todo), Now.start + Now.len, End)
      /\ Tail(todo) \in Seq(PartRec) /\ ReqRec
  BY Places
<1>2. todo' = Tail(todo) /\ pc' = "part" /\ ret' = 0 /\ End' = End
  BY DEF Proceed, End
<1> DEFINE t == Tail(todo)
           x == Now.start + Now.len
<1>3. t \in Seq(PartRec) /\ x \in Nat /\ Tiling(t, x, End) /\ req.start <= x /\ todo' = t
  BY <1>1, <1>2 DEF ReqRec
<1>4. Pos' = IF t = <<>> THEN End ELSE t[1].start
  BY <1>2 DEF Pos, Now
<1> HIDE DEF t, x
<1>5. Pos' = x
  <2>1. CASE t = <<>>
    <3>1. Len(t) = 0
      BY <2>1
    <3>2. x = End
      BY <1>3, <3>1 DEF Tiling
    <3> QED
      BY <1>4, <2>1, <3>2
  <2>2. CASE t # <<>>
    <3>1. t[1].start = x
      BY <1>1, <1>3, <2>2, TilingTail DEF ReqRec
    <3> QED
      BY <1>4, <2>2, <3>1
  <2> QED
    BY <2>1, <2>2
<1>6. Tiled'
  BY <1>2, <1>3, <1>5 DEF Tiled
<1>7. Reached'
  <2>1. pc' \notin Ring /\ pc' # "free"
    BY <1>2 DEF Ring
  <2>2. ~astray' => DoneIn(req', got', chip', Pos')
    BY <1>5 DEF x
  <2> QED
    BY <2>1, <2>2 DEF Reached, DoneTo
<1> QED
  BY <1>6, <1>7

\* A part has failed
LEMMA GivesUp ==
  ASSUME Abort(1)
  PROVE  Tiled' /\ Reached'
<1>1. ret' = 1 /\ pc' = "part"
  BY DEF Abort
<1>2. pc' \notin Ring /\ pc' # "free" /\ ret' # 0
  BY <1>1 DEF Ring
<1> QED
  BY <1>2 DEF Tiled, Reached

\* The part that comes next is the same as before
LEMMA GoesOnLater ==
  ASSUME DInv, UNCHANGED <<req, todo, ret, got, chip, astray>>,
         pc \notin Ring, pc' \notin Ring
  PROVE  Tiled' /\ Reached' /\ InRange'
<1>1. Pos' = Pos /\ End' = End
  BY DEF Pos, End, Now
<1>2. Tiled'
  BY <1>1 DEF DInv, Tiled
<1>3. InRange'
  BY DEF DInv, InRange
<1>4. pc' # "free"
  BY DEF Ring
<1>5. Reached'
  BY <1>1, <1>4 DEF DInv, Reached, DoneTo
<1> QED
  BY <1>2, <1>3, <1>5

\* The multiples of the units of bulk transfers
LEMMA CountTimes ==
  ASSUME IInv, todo # <<>>, ~Unsupported, Now.kind \in {"bulk_read", "bulk_write"}
  PROVE  LET unit == IF Now.kind = "bulk_read" THEN Block ELSE dev.page
         IN  Count \in Nat /\ unit \in Nat \ {0} /\ unit * Count = Now.len
<1> DEFINE unit == IF Now.kind = "bulk_read" THEN Block ELSE dev.page
<1>1. dev \in Devices /\ Now.len \in Nat /\ Now.len \in Int
  BY TodoIs, RestIs DEF IInv, PartRec, Rest
<1>2. unit \in Nat \ {0}
  BY <1>1, ProgrammerType, Constants
<1>3. Now.len % unit = 0 /\ Count = Now.len \div unit
  BY DEF Unsupported, Unaligned, Count
<1> HIDE DEF unit
<1>4. Now.len \div unit \in Nat /\ Now.len = unit * (Now.len \div unit) + (Now.len % unit)
  BY <1>1, <1>2, DivMod
<1>5. unit * (Now.len \div unit) \in Nat
  BY <1>2, <1>4
<1> QED
  BY <1>2, <1>3, <1>4, <1>5 DEF unit

\* Modes: the programmer is in the one that the driver's next command needs
ModesAgree ==
  /\ IF dev.modes THEN ioMode = devMode ELSE devMode = SINGLE
  /\ dev.protocol = 1 => devMode = SINGLE

LEMMA WantedIs ==
  ASSUME DInv, pc \in {"mode", "command"}
  PROVE  /\ ~dev.modes => Wanted = SINGLE
         /\ dev.protocol = 1 => Wanted = SINGLE
         /\ Now.kind # "bulk_read" => Wanted = SINGLE
         /\ Now.kind = "slow" /\ req.op = "read" => ReadOpMode = SINGLE
<1>1. dev \in Devices
  BY RestIs DEF Rest, DInv
<1>2. dev.fast # "none" => dev.modes /\ dev.protocol > 1
  BY <1>1, ProgrammerType
<1>3. fastRead = (IF Now.kind = "slow" /\ req.op = "read" THEN "none" ELSE dev.fast)
  BY DEF DInv, Agreed
<1>4. dev.fast = "none" => ReadOpMode = SINGLE
  BY <1>3 DEF ReadOpMode
<1>5. Now.kind = "slow" /\ req.op = "read" => ReadOpMode = SINGLE
  BY <1>3 DEF ReadOpMode
<1>6. dev.protocol = 1 => dev.fast = "none"
  BY <1>2
<1>7. ~dev.modes => dev.fast = "none"
  BY <1>2
<1> QED
  BY <1>4, <1>5, <1>6, <1>7 DEF Wanted

LEMMA InModeIs ==
  ASSUME DInv, pc = "command", ~astray
  PROVE  /\ Now.kind # "bulk_read" => Understood
         /\ Now.kind = "bulk_read" => devMode = ReadOpMode
<1>1. devMode = Wanted
  BY DEF DInv, Agreed
<1> QED
  BY <1>1, WantedIs DEF Understood, Wanted

-----------------------------------------------------------------------------
(* Ranges are done completely: calls and their parts                       *)

Kept == Agreed /\ Tiled /\ InRange /\ Reached

LEMMA CallDoes ==
  ASSUME WholePages, DInv, NEW r \in Requests, Call(r)
  PROVE  Kept'
<1>1. /\ pc = "idle" /\ pc' = "part" /\ req' = r /\ todo' = Parts(r) /\ ret' = 0
      /\ got' = [i \in 1 .. r.len |-> NOTHING] /\ chip' = [a \in Addr |-> "old"]
      /\ UNCHANGED <<dev, ioMode, devMode, fastRead, stream, astray>>
  BY DEF Call, driver, usbVars
<1>2. dev \in Devices /\ IInv
  BY RestIs DEF Rest, DInv
<1>3. /\ Parts(r) \in Seq(PartRec) /\ Tiling(Parts(r), r.start, r.start + r.len)
      /\ r.start \in Nat /\ r.len \in Nat /\ r.start + r.len \in Nat
  <2>1. r.start \in Nat /\ r.len \in Nat
    BY RequestType
  <2> QED
    BY <1>2, <2>1, PartsAre
<1>4. pc' \notin Ring /\ pc \notin Ring /\ pc' # "free" /\ pc' \notin {"mode", "command"}
      /\ pc \notin {"mode", "command"}
  BY <1>1 DEF Ring
<1>5. Agreed'
  BY <1>1, <1>4 DEF DInv, Agreed
<1>6. InRange'
  BY <1>1 DEF InRange
<1> DEFINE s == Parts(r)
           b == r.start + r.len
<1>7. End' = b /\ todo' = s /\ s \in Seq(PartRec) /\ Tiling(s, r.start, b) /\ b \in Nat
  BY <1>1, <1>3 DEF End
<1>8. Pos' = IF s = <<>> THEN b ELSE s[1].start
  BY <1>7 DEF Pos, Now
<1> HIDE DEF s, b
<1>9. Pos' = r.start
  <2>1. CASE s = <<>>
    <3>1. Len(s) = 0
      BY <2>1
    <3> QED
      BY <1>7, <1>8, <2>1, <3>1 DEF Tiling
  <2>2. CASE s # <<>>
    BY <1>3, <1>7, <1>8, <2>2, TilingTail
  <2> QED
    BY <2>1, <2>2
<1>10. Tiled'
  BY <1>1, <1>3, <1>7, <1>9 DEF Tiled
<1>11. Reached'
  <2>1. DoneIn(req', got', chip', r.start)
    BY <1>1, <1>3, Constants DEF DoneIn, Addr
  <2> QED
    BY <1>4, <1>9, <2>1 DEF Reached, DoneTo
<1> QED
  BY <1>5, <1>6, <1>10, <1>11 DEF Kept

LEMMA FinishDoes ==
  ASSUME DInv, Finish
  PROVE  Kept'
<1>1. /\ pc = "part" /\ pc' = "idle"
      /\ UNCHANGED <<dev, ioMode, devMode, fastRead, req, todo, ret, stream, got, chip, astray>>
  BY DEF Finish, driver, usbVars, history
<1>2. pc' \notin Ring /\ pc \notin Ring /\ pc' \notin {"mode", "command"} /\ pc \notin {"mode", "command"}
  BY <1>1 DEF Ring
<1>3. Agreed'
  BY <1>1, <1>2 DEF DInv, Agreed
<1> QED
  BY <1>1, <1>2, <1>3, GoesOnLater DEF Kept

LEMMA BeginDoes ==
  ASSUME DInv, Begin
  PROVE  Kept'
<1>1. /\ pc = "part" /\ todo # <<>> /\ ret = 0
      /\ UNCHANGED <<dev, ioMode, devMode, req, stream, got, chip, astray>>
  BY DEF Begin, usbVars, history, DInv, IInv, Parted
<1>2. pc \notin Ring /\ pc \notin {"mode", "command"}
  BY <1>1 DEF Ring
<1>3. fastRead = dev.fast
  BY <1>2 DEF DInv, Agreed
<1>4. InRange'
  BY <1>1 DEF DInv, InRange
<1>5. /\ ~astray' => ModesAgree'
      /\ ~astray' => stream'.sent = stream'.count
  BY <1>1, <1>2 DEF DInv, Agreed, ModesAgree
<1>6. ASSUME pc' = "part", UNCHANGED fastRead
      PROVE  Agreed'
  <2>1. pc' \notin Ring /\ pc' \notin {"mode", "command"}
    BY <1>6 DEF Ring
  <2> QED
    BY <1>1, <1>3, <1>5, <1>6, <2>1 DEF Agreed, ModesAgree
<1>7. CASE Abort(1) /\ UNCHANGED fastRead
  BY <1>4, <1>6, <1>7, GivesUp DEF Kept, Abort
<1>8. CASE /\ ~Unsupported /\ Now.kind = "bulk_write" /\ Now.len = 0 /\ Proceed /\ UNCHANGED fastRead
  <2>1. Now.start \in Nat /\ Pos = Now.start
    BY <1>1, Places
  <2>2. Now.start + Now.len = Pos
    BY <1>8, <2>1
  <2>3. ~astray' => DoneIn(req, got', chip', Now.start + Now.len)
    BY <1>1, <2>2 DEF DInv, Reached, DoneTo
  <2>4. Tiled' /\ Reached'
    BY <1>1, <1>8, <2>3, GoesOn
  <2> QED
    BY <1>4, <1>6, <1>8, <2>4 DEF Kept, Proceed
<1>9. CASE /\ ~Unsupported /\ fastRead' = Override(Now.kind) /\ pc' = "mode" /\ UNCHANGED <<todo, ret>>
  <2>1. pc' \notin Ring
    BY <1>9 DEF Ring
  <2>2. Tiled' /\ Reached'
    BY <1>1, <1>2, <1>9, <2>1, GoesOnLater
  <2>3. fastRead' = (IF Now.kind = "slow" /\ req.op = "read" THEN "none" ELSE dev.fast) /\ Now' = Now
    BY <1>3, <1>9 DEF Override, Now
  <2>4. Agreed'
    BY <1>1, <1>5, <1>9, <2>3 DEF Agreed, ModesAgree
  <2> QED
    BY <1>4, <2>2, <2>4 DEF Kept
<1> QED
  BY <1>7, <1>8, <1>9 DEF Begin

LEMMA SetIoModeDoes ==
  ASSUME DInv, SetIoMode
  PROVE  Kept'
<1>1. /\ pc = "mode" /\ UNCHANGED <<dev, req, stream, got, chip>>
  BY DEF SetIoMode, usbVars
<1>2. pc \notin Ring /\ dev \in Devices
  BY <1>1, RestIs DEF Ring, Rest, DInv
<1>3. InRange'
  BY <1>1 DEF DInv, InRange
<1>4. /\ ~astray => ModesAgree /\ stream.sent = stream.count
      /\ fastRead = (IF Now.kind = "slow" /\ req.op = "read" THEN "none" ELSE dev.fast)
  BY <1>1, <1>2 DEF DInv, Agreed, ModesAgree
<1>5. /\ ~dev.modes => Wanted = SINGLE
      /\ dev.protocol = 1 => Wanted = SINGLE
      /\ Now.kind # "bulk_read" => Wanted = SINGLE
  BY <1>1, WantedIs
<1>6. ASSUME pc' = "command", UNCHANGED <<fastRead, todo, ret, astray>>,
             ~astray => ModesAgree' /\ devMode' = Wanted
      PROVE  Kept'
  <2>1. pc' \notin Ring
    BY <1>6 DEF Ring
  <2>2. Tiled' /\ Reached'
    BY <1>1, <1>2, <1>6, <2>1, GoesOnLater
  <2>3. Now' = Now /\ Wanted' = Wanted
    BY <1>6 DEF Now, Wanted, ReadOpMode
  <2>4. Agreed'
    BY <1>1, <1>4, <1>6, <2>3 DEF Agreed, ModesAgree
  <2> QED
    BY <1>3, <2>2, <2>4 DEF Kept
<1>7. CASE ~SetsMode /\ pc' = "command" /\ UNCHANGED <<driver, todo, ret, faults, astray>>
  <2>1. ASSUME ~astray PROVE ModesAgree' /\ devMode' = Wanted
    <3>1. ModesAgree /\ UNCHANGED <<ioMode, devMode, fastRead, dev>>
      BY <1>1, <1>4, <1>7, <2>1 DEF driver
    <3>2. ModesAgree'
      BY <3>1 DEF ModesAgree
    <3>3. devMode = Wanted
      BY <1>5, <1>7, <3>1 DEF SetsMode, ModesAgree
    <3> QED
      BY <3>1, <3>2, <3>3
  <2> QED
    BY <1>6, <1>7, <2>1 DEF driver
<1>8. CASE /\ SetsMode /\ ioMode' = Wanted /\ devMode' = Wanted /\ pc' = "command"
           /\ UNCHANGED <<fastRead, todo, ret, faults, astray>>
  <2>1. ModesAgree'
    BY <1>1, <1>5, <1>8 DEF ModesAgree, SetsMode
  <2> QED
    BY <1>6, <1>8, <2>1
<1>9. CASE /\ SetsMode /\ Fault /\ Abort(1) /\ Left
           /\ devMode' \in {devMode, Wanted} /\ UNCHANGED ioMode
           /\ astray' = (astray \/ devMode' # devMode)
  <2>1. pc' = "part" /\ fastRead' = dev.fast
    BY <1>9 DEF Abort, Left
  <2>2. ASSUME ~astray' PROVE ModesAgree' /\ stream'.sent = stream'.count
    <3>1. ~astray /\ devMode' = devMode
      BY <1>9, <2>2
    <3> QED
      BY <1>1, <1>4, <1>9, <3>1 DEF ModesAgree
  <2>3. Agreed'
    BY <1>1, <2>1, <2>2 DEF Agreed, ModesAgree
  <2> QED
    BY <1>3, <1>9, <2>3, GivesUp DEF Kept
<1> QED
  BY <1>7, <1>8, <1>9 DEF SetIoMode

LEMMA PartKinds ==
  ASSUME IInv, todo # <<>>
  PROVE  /\ Now.kind = "slow" => req.op \in {"read", "write"}
         /\ Now.kind = "bulk_write" => req.op = "write"
         /\ Now.kind = "bulk_read" => req.op = "read"
<1>1. Now = todo[1] /\ 1 \in 1 .. Len(todo)
  BY TodoIs DEF IInv
<1>2. Now.kind \in Kinds(req.op)
  BY <1>1 DEF IInv, Parted, Ordinary
<1> QED
  BY <1>2 DEF Kinds

LEMMA InsideOf ==
  ASSUME NEW start \in Nat, NEW len \in Nat, NEW first \in Nat, NEW most \in Nat, NEW n \in Nat,
         start <= first, first + most <= start + len, n <= most, NEW a \in first .. first + n - 1
  PROVE  a - start \in 0 .. len - 1
OBVIOUS

\* Cells of the part, and no others, become new
LEMMA ProgrammedIs ==
  ASSUME DInv, todo # <<>>, ret = 0, req.op = "write", NEW n \in Nat, n <= Now.len,
         UNCHANGED req, chip' = Programmed(Now.start, n)
  PROVE  /\ InRange'
         /\ Understood /\ DoneTo(Pos) => DoneIn(req, got', chip', Now.start + n)
<1>1. /\ Pos = Now.start /\ Now.start \in Nat /\ Now.len \in Nat
      /\ req.start <= Now.start /\ Now.start + Now.len <= End /\ ReqRec
  BY Places
<1>2. chip' = [a \in Addr |-> IF Understood /\ a \in Now.start .. Now.start + n - 1 THEN "new" ELSE chip[a]]
  BY DEF Programmed
<1>3. Addr \subseteq Int
  BY Constants DEF Addr
<1>4. InRange'
  <2> SUFFICES ASSUME NEW a \in Addr, chip'[a] # "old"
               PROVE  a - req.start \in 0 .. req.len - 1
    BY DEF InRange
  <2>1. CASE chip[a] # "old"
    BY <2>1 DEF DInv, InRange
  <2>2. CASE a \in Now.start .. Now.start + n - 1
    <3>1. /\ a \in Int /\ req.start \in Nat /\ req.len \in Nat /\ n <= Now.len
          /\ Now.start \in Nat /\ Now.len \in Nat /\ req.start <= Now.start
          /\ Now.start + Now.len <= req.start + req.len
      BY <1>1, <1>3 DEF ReqRec, End
    <3> QED
      BY <2>2, <3>1, InsideOf
  <2> QED
    BY <1>2, <2>1, <2>2
<1>5. ASSUME Understood, DoneTo(Pos)
      PROVE  DoneIn(req, got', chip', Now.start + n)
  <2> SUFFICES ASSUME NEW a \in Addr, req.start <= a, a < Now.start + n
               PROVE  chip'[a] = "new"
    BY DEF DoneIn
  <2>1. CASE a < Now.start
    <3>1. chip[a] = "new"
      BY <1>1, <1>5, <2>1 DEF DoneTo, DoneIn
    <3> QED
      BY <1>2, <3>1
  <2>2. CASE a >= Now.start
    <3>1. a \in Now.start .. Now.start + n - 1
      BY <1>1, <1>3, <2>2
    <3> QED
      BY <1>2, <1>5, <3>1
  <2> QED
    BY <1>1, <1>3, <2>1, <2>2
<1> QED
  BY <1>4, <1>5

LEMMA SingleDoes ==
  ASSUME DInv, Single
  PROVE  Kept'
<1>1. /\ pc = "command" /\ todo # <<>> /\ ret = 0 /\ pc \notin Ring /\ IInv
      /\ Now.kind \in {"slow", "command"}
      /\ UNCHANGED <<dev, ioMode, devMode, req, stream, astray>> /\ fastRead' = dev.fast
  BY DEF Single, usbVars, history, DInv, IInv, Parted, Ring, Left
<1>2. PICK n \in 0 .. Now.len :
        /\ IF req.op = "write" THEN chip' = Programmed(Now.start, n) /\ UNCHANGED got
           ELSE got' = Received(Now.start, n, Understood) /\ UNCHANGED chip
        /\ \/ n = Now.len /\ Proceed /\ UNCHANGED faults
           \/ Fault /\ Abort(1)
  BY <1>1 DEF Single
<1>3. /\ Pos = Now.start /\ Now.start \in Nat /\ Now.len \in Nat
      /\ req.start <= Now.start /\ Now.start + Now.len <= End /\ ReqRec
  BY <1>1, Places
<1>4. n \in Nat /\ n <= Now.len
  BY <1>3
<1>5. pc' = "part"
  BY <1>2 DEF Proceed, Abort
<1>6. Agreed'
  <2>1. ~astray => ModesAgree /\ stream.sent = stream.count
    BY <1>1 DEF DInv, Agreed, ModesAgree
  <2> QED
    BY <1>1, <1>5, <2>1 DEF Agreed, ModesAgree
<1>7. ~astray => Understood /\ DoneTo(Pos)
  BY <1>1, InModeIs DEF DInv, Reached
<1>8. /\ InRange'
      /\ ~astray => DoneIn(req, got', chip', Now.start + n)
  <2>1. CASE req.op = "write"
    <3>1. chip' = Programmed(Now.start, n)
      BY <1>2, <2>1
    <3> QED
      BY <1>1, <1>4, <1>7, <2>1, <3>1, ProgrammedIs
  <2>2. CASE req.op # "write"
    <3>1. got' = Received(Now.start, n, Understood) /\ UNCHANGED chip
      BY <1>2, <2>2
    <3>2. InRange'
      BY <1>1, <3>1 DEF DInv, InRange
    <3>3. ASSUME ~astray, NEW i \in 1 .. req.len, req.start + i - 1 < Now.start + n
          PROVE  got'[i] = req.start + i - 1
      <4>1. DOMAIN got = 1 .. req.len
        BY <1>1, RestIs DEF Rest
      <4>2. got'[i] = IF i - 1 + req.start \in Now.start .. Now.start + n - 1
                      THEN i - 1 + req.start ELSE got[i]
        BY <1>7, <3>1, <3>3, <4>1 DEF Received
      <4>3. req.start + i - 1 < Now.start => got[i] = req.start + i - 1
        BY <1>3, <1>7, <2>2, <3>3 DEF DoneTo, DoneIn
      <4>4. i - 1 + req.start = req.start + i - 1
        BY <1>3 DEF ReqRec
      <4> QED
        BY <1>3, <1>4, <3>3, <4>2, <4>3, <4>4 DEF ReqRec
    <3> QED
      BY <2>2, <3>2, <3>3 DEF DoneIn
  <2> QED
    BY <2>1, <2>2
<1>9. CASE n = Now.len /\ Proceed
  BY <1>1, <1>6, <1>8, <1>9, GoesOn DEF Kept
<1>10. CASE Abort(1)
  BY <1>6, <1>8, <1>10, GivesUp DEF Kept
<1> QED
  BY <1>2, <1>9, <1>10

LEMMA BulkWriteDoes ==
  ASSUME DInv, BulkWrite
  PROVE  Kept'
<1>1. /\ pc = "command" /\ todo # <<>> /\ ret = 0 /\ pc \notin Ring /\ IInv /\ ~Unsupported
      /\ Now.kind = "bulk_write"
      /\ UNCHANGED <<dev, ioMode, devMode, fastRead, req, stream, got>>
  BY DEF BulkWrite, driver, usbVars, DInv, IInv, Parted, Ring
<1>2. PICK k \in 0 .. Count :
        /\ chip' = Programmed(Now.start, k * dev.page)
        /\ \/ k = Count /\ Proceed /\ UNCHANGED <<faults, astray>>
           \/ Fault /\ Abort(1) /\ astray' = TRUE
  BY <1>1 DEF BulkWrite
<1>3. req.op = "write"
  BY <1>1, PartKinds
<1>4. Count \in Nat /\ dev.page \in Nat \ {0} /\ dev.page * Count = Now.len
  BY <1>1, CountTimes
<1> DEFINE n == k * dev.page
<1>5. n \in Nat /\ n <= Now.len /\ (k = Count => n = Now.len)
  <2>1. k \in Nat /\ k <= Count /\ k \in Int /\ Count \in Int /\ dev.page \in Nat
    BY <1>4
  <2>2. k * dev.page <= Count * dev.page
    BY <2>1, TimesMonotonic
  <2>3. Count * dev.page = Now.len /\ n \in Nat
    BY <1>4, <2>1
  <2> QED
    BY <2>2, <2>3
<1> HIDE DEF n
<1>6. /\ InRange'
      /\ Understood /\ DoneTo(Pos) => DoneIn(req, got', chip', Now.start + n)
  BY <1>1, <1>2, <1>3, <1>5, ProgrammedIs DEF n
<1>7. ~astray => Understood /\ DoneTo(Pos)
  BY <1>1, InModeIs DEF DInv, Reached
<1>8. fastRead' = dev.fast /\ (~astray => ModesAgree /\ stream.sent = stream.count)
  BY <1>1 DEF DInv, Agreed, ModesAgree
<1>9. pc' = "part"
  BY <1>2 DEF Proceed, Abort
<1>10. CASE k = Count /\ Proceed /\ UNCHANGED <<faults, astray>>
  <2>1. ~astray' => DoneIn(req, got', chip', Now.start + Now.len)
    BY <1>5, <1>6, <1>7, <1>10
  <2>2. Tiled' /\ Reached'
    BY <1>1, <1>10, <2>1, GoesOn
  <2>3. Agreed'
    BY <1>1, <1>8, <1>9, <1>10 DEF Agreed, ModesAgree
  <2> QED
    BY <1>6, <2>2, <2>3 DEF Kept
<1>11. CASE Abort(1) /\ astray' = TRUE
  <2>1. Agreed'
    BY <1>1, <1>8, <1>9, <1>11 DEF Agreed
  <2> QED
    BY <1>6, <1>11, <2>1, GivesUp DEF Kept
<1> QED
  BY <1>2, <1>10, <1>11

LEMMA ReadCommandDoes ==
  ASSUME DInv, ReadCommand
  PROVE  Kept'
<1>1. /\ pc = "command" /\ todo # <<>> /\ ret = 0 /\ pc \notin Ring /\ IInv /\ ~Unsupported
      /\ Now.kind = "bulk_read"
      /\ UNCHANGED <<dev, ioMode, devMode, fastRead, req, usb, queue, events, got, chip, lost>>
  BY DEF ReadCommand, driver, DInv, IInv, Parted, Ring
<1>2. PICK taken \in BOOLEAN :
       /\ stream' = IF taken THEN [from |-> Now.start, sent |-> 0, count |-> Count,
                                   right |-> devMode = ReadOpMode] ELSE stream
       /\ \/ /\ taken /\ ring' = [Idle EXCEPT !.count = Count] /\ pc' = "loop"
             /\ UNCHANGED <<todo, ret, faults, astray>>
          \/ /\ taken /\ Fault /\ ring' = [Idle EXCEPT !.count = Count]
             /\ ret' = 1 /\ pc' = "free" /\ UNCHANGED <<todo, astray>>
          \/ /\ Fault /\ Abort(1) /\ astray' = (astray \/ taken) /\ UNCHANGED ring
  BY <1>1 DEF ReadCommand
<1>3. InRange'
  BY <1>1 DEF DInv, InRange
<1>4. /\ fastRead' = dev.fast
      /\ ~astray => ModesAgree /\ stream.sent = stream.count
  BY <1>1 DEF DInv, Agreed, ModesAgree
<1>5. CASE Abort(1) /\ astray' = (astray \/ taken)
  <2>1. pc' = "part"
    BY <1>5 DEF Abort
  <2>2. ASSUME ~astray' PROVE ModesAgree' /\ stream'.sent = stream'.count
    <3>1. ~astray /\ stream' = stream
      BY <1>2, <1>5, <2>2
    <3> QED
      BY <1>1, <1>4, <3>1 DEF ModesAgree
  <2>3. Agreed'
    BY <1>1, <1>4, <2>1, <2>2 DEF Agreed, ModesAgree
  <2> QED
    BY <1>3, <1>5, <2>3, GivesUp DEF Kept
<1>6. CASE /\ taken /\ ring' = [Idle EXCEPT !.count = Count] /\ pc' \in {"loop", "free"}
           /\ (pc' = "free" => ret' = 1) /\ (pc' = "loop" => ret' = 0) /\ UNCHANGED <<todo, astray>>
  <2>1. /\ Pos = Now.start /\ Now.start \in Nat /\ Tiled /\ DInv
        /\ Pos' = Pos /\ End' = End /\ Now' = Now /\ req' = req
    BY <1>1, <1>6, Places DEF Pos, End, Now, DInv
  <2>2. Tiled'
    BY <1>1, <1>6, <2>1 DEF Tiled
  <2>3. Agreed'
    BY <1>1, <1>4, <1>6 DEF Agreed, Ring, ModesAgree
  <2>4. Reached'
    <3> SUFFICES ASSUME ~astray
                 PROVE  /\ ret' = 0 => DoneTo(Pos)'
                        /\ Landed'
                        /\ ~(pc' = "free" /\ ret' = 0)
      BY <1>6 DEF Reached
    <3>1. DoneTo(Pos) /\ DoneIn(req, got, chip, Now.start)
      BY <1>1, <2>1 DEF DInv, Reached, DoneTo
    <3>2. DoneTo(Pos)'
      BY <1>1, <2>1, <3>1 DEF DoneTo
    <3>3. /\ stream' = [from |-> Now.start, sent |-> 0, count |-> Count, right |-> TRUE]
          /\ ring'.finished = 0 /\ ring'.count = Count
      <4>1. devMode = ReadOpMode
        BY <1>1, InModeIs
      <4> QED
        BY <1>2, <1>6, <4>1 DEF Idle
    <3>4. Len(events') = 0
      <4>1. ~lost
        <5>1. todo[1] = Now /\ 1 \in 1 .. Len(todo)
          BY <1>1, TodoIs DEF IInv
        <5> QED
          BY <1>1, <5>1 DEF IInv, Parted, NoBulkRead
      <4>2. events = <<>>
        BY <1>1, <4>1, RestIs DEF Settled
      <4> QED
        BY <1>1, <4>2
    <3>5. Now.start + 0 * Block = Now.start
      BY <2>1, Constants
    <3>6. Landed'
      BY <1>1, <2>1, <3>1, <3>3, <3>4, <3>5 DEF Landed, DoneTo
    <3> QED
      BY <1>6, <3>2, <3>6
  <2> QED
    BY <1>3, <2>2, <2>3, <2>4 DEF Kept
<1> QED
  BY <1>1, <1>2, <1>5, <1>6

-----------------------------------------------------------------------------
(* Ranges are done completely: bulk reads                                  *)

\* In the ring, what does not touch the buffer
LEMMA RingKeeps ==
  ASSUME DInv, pc \in Ring, pc' \in Ring,
         UNCHANGED <<dev, ioMode, devMode, fastRead, req, todo, got, chip, stream, astray>>,
         ret' = 0 => ret = 0
  PROVE  Agreed' /\ Tiled' /\ InRange' /\ (~astray' => (ret' = 0 => DoneTo(Pos)'))
<1>1. Pos' = Pos /\ End' = End /\ pc \notin {"mode", "command"} /\ pc' \notin {"mode", "command"}
  BY DEF Pos, End, Now, Ring
<1>2. Agreed'
  BY <1>1 DEF DInv, Agreed
<1>3. Tiled'
  BY <1>1 DEF DInv, Tiled
<1>4. InRange'
  BY DEF DInv, InRange
<1>5. ~astray' => (ret' = 0 => DoneTo(Pos)')
  BY <1>1 DEF DInv, Reached, DoneTo
<1> QED
  BY <1>2, <1>3, <1>4, <1>5

\* and nothing of what is under way
LEMMA RingWaits ==
  ASSUME DInv, pc \in Ring, pc' \in Ring,
         UNCHANGED <<dev, ioMode, devMode, fastRead, req, todo, got, chip, stream, astray, ring, usb, events>>,
         ret' = 0 => ret = 0,
         pc' = "free" /\ ret' = 0 => ring.finished >= ring.count /\ ~ring.error
  PROVE  Kept'
<1>1. Agreed' /\ Tiled' /\ InRange' /\ (~astray' => (ret' = 0 => DoneTo(Pos)'))
  BY RingKeeps
<1>2. Fine' = Fine /\ Now' = Now
  BY DEF Fine, Now
<1>3. ~astray /\ Fine => Landed'
  BY <1>2 DEF DInv, Reached, Landed, DoneTo
<1>4. Reached'
  BY <1>1, <1>2, <1>3 DEF Reached
<1> QED
  BY <1>1, <1>4 DEF Kept

LEMMA LoopDoes ==
  ASSUME DInv, Loop
  PROVE  Kept'
<1>1. /\ pc = "loop" /\ pc' \in {"submit", "finish"}
      /\ UNCHANGED <<dev, ioMode, devMode, fastRead, req, todo, ret, ring, usb, events, stream, got, chip,
                     astray>>
  BY DEF Loop, driver, usbVars, history
<1>2. pc \in Ring /\ pc' \in Ring /\ pc' # "free"
  BY <1>1 DEF Ring
<1> QED
  BY <1>1, <1>2, RingWaits

LEMMA SubmitDoes ==
  ASSUME DInv, Submit
  PROVE  Kept'
<1>1. /\ pc = "submit" /\ pc \in Ring /\ IInv
      /\ UNCHANGED <<dev, ioMode, devMode, fastRead, req, todo, events, stream, got, chip, astray>>
  BY DEF Submit, driver, Ring, history, DInv
<1>2. CASE /\ More /\ Room
           /\ usb' = [usb EXCEPT ![Next1] = [state |-> "flying", block |-> ring.queued, ok |-> TRUE]]
           /\ ring' = [ring EXCEPT !.queued = @ + 1] /\ UNCHANGED <<pc, ret>>
  <2>1. Agreed' /\ Tiled' /\ InRange' /\ (~astray' => (ret' = 0 => DoneTo(Pos)'))
    BY <1>1, <1>2, RingKeeps
  <2> DEFINE m == Len(events)
             n == Len(queue)
             f == ring.finished
  <2>2. /\ f \in Nat /\ ring.queued \in Nat /\ Slots \in Nat \ {0} /\ m \in Nat /\ n \in Nat
        /\ ring.queued - f < Slots /\ m + n = ring.queued - f
        /\ events \in Seq(Slot) /\ queue \in Seq(Slot) /\ InTurn(events, queue, f)
    BY <1>1, <1>2, RingIs DEF Room
  <2>3. m + n < Slots /\ m + n <= Slots /\ ring.queued = f + m + n
    <3>1. /\ f \in Nat /\ ring.queued \in Nat /\ Slots \in Nat /\ m \in Nat /\ n \in Nat
          /\ ring.queued - f < Slots /\ m + n = ring.queued - f
      BY <2>2
    <3> HIDE DEF m, n, f
    <3> QED
      BY <3>1
  <2>4. \A i \in 1 .. m : events[i] # Next1
    BY <2>2, <2>3, TurnsDiffer DEF Next1
  <2>5. \A i \in 1 .. m : events[i] \in Slot
    BY <2>2, ElementOfSeq
  <2>6. usb \in [Slot -> Transfer]
    BY <1>1, RestIs DEF RingTypes
  <2>7. \A i \in 1 .. m : usb'[events[i]] = usb[events[i]]
    BY <1>2, <2>4, <2>5, <2>6
  <2>8. ring \in [queued : Nat, finished : Nat, error : BOOLEAN, count : Nat]
    BY <1>1, RestIs DEF RingTypes
  <2>9. ring'.error = ring.error /\ ring'.finished = ring.finished /\ ring'.count = ring.count
    BY <1>2, <2>8
  <2>10. Fine' => Fine
    BY <1>1, <2>7, <2>9 DEF Fine
  <2>11. ~astray /\ Fine => Landed'
    BY <1>1, <2>9 DEF DInv, Reached, Landed, DoneTo, Now
  <2>12. pc' # "free"
    BY <1>1, <1>2
  <2>13. Reached'
    BY <1>1, <2>1, <2>10, <2>11, <2>12 DEF Reached
  <2> QED
    BY <2>1, <2>13 DEF Kept
<1>3. CASE ring' = Refused /\ ret' = 1 /\ pc' = "free" /\ UNCHANGED usb
  BY <1>1, <1>3, RingWaits DEF Refused, Ring
<1>4. CASE pc' = "poll" /\ UNCHANGED <<usb, ring, ret>>
  BY <1>1, <1>4, RingWaits DEF Ring
<1> QED
  BY <1>2, <1>3, <1>4 DEF Submit

LEMMA HandleEventsDoes ==
  ASSUME DInv, HandleEvents
  PROVE  Kept'
<1>1. /\ pc \in {"poll", "finish", "free"} /\ pc \in Ring /\ IInv /\ Pending
      /\ UNCHANGED <<dev, ioMode, devMode, fastRead, req, todo, queue, stream, got, chip, astray>>
  BY DEF HandleEvents, driver, Ring, history, DInv
<1>2. PICK k \in 1 .. Len(events) :
       LET ended == {events[i] : i \in 1 .. k}
           after == [ring EXCEPT !.finished = @ + k,
                                 !.error = @ \/ \E s \in ended : ~usb[s].ok]
       IN  /\ ring' = after /\ events' = SubSeq(events, k + 1, Len(events))
           /\ usb' = [s \in Slot |-> IF s \in ended THEN NoTransfer ELSE usb[s]]
           /\ IF pc = "poll" \/ (pc = "finish" /\ after.finished >= after.queued) THEN Polled(after)
              ELSE UNCHANGED <<pc, ret>>
  BY DEF HandleEvents
<1> DEFINE m == Len(events)
           n == Len(queue)
           f == ring.finished
           ended == {events[i] : i \in 1 .. k}
           e == ring.error \/ \E s \in ended : ~usb[s].ok
<1>3. /\ f \in Nat /\ ring.queued \in Nat /\ ring.count \in Nat /\ Slots \in Nat \ {0}
      /\ ring.queued <= ring.count
      /\ m \in Nat /\ n \in Nat /\ m + n <= Slots
      /\ events \in Seq(Slot) /\ queue \in Seq(Slot) /\ InTurn(events, queue, f)
  BY <1>1, RingIs
<1>4. k \in Nat /\ k >= 1 /\ k <= m
  BY <1>3
<1>5. /\ ring'.finished = f + k /\ ring'.count = ring.count /\ ring'.error = e
      /\ ring'.queued = ring.queued
  <2>1. ring \in [queued : Nat, finished : Nat, error : BOOLEAN, count : Nat]
    BY <1>1, RestIs DEF RingTypes
  <2>2. ring' = [ring EXCEPT !.finished = @ + k, !.error = e]
    BY <1>2
  <2> HIDE DEF e
  <2> QED
    BY <2>1, <2>2
<1>6. /\ \A i \in 1 .. m - k : k + i \in 1 .. m /\ events'[i] = events[k + i]
      /\ Len(events') = m - k
  <2> DEFINE u == SubSeq(events, k + 1, m)
  <2>1. \A i \in (k + 1) .. m : events[i] \in Slot
    <3>1. \A i \in 1 .. m : events[i] \in Slot
      BY <1>3, ElementOfSeq
    <3>2. \A i \in (k + 1) .. m : i \in 1 .. m
      BY <1>3, <1>4
    <3> QED
      BY <3>1, <3>2
  <2>2. k + 1 \in Int /\ m \in Int
    BY <1>3, <1>4
  <2>3. /\ Len(u) = IF k + 1 <= m THEN m - (k + 1) + 1 ELSE 0
        /\ \A i \in 1 .. m - (k + 1) + 1 : u[i] = events[(k + 1) + i - 1]
    BY <2>1, <2>2, SubSeqProperties
  <2>4. events' = u
    BY <1>2
  <2> HIDE DEF u, m
  <2>5. Len(u) = m - k
    BY <1>3, <1>4, <2>3
  <2>6. ASSUME NEW i \in 1 .. m - k
        PROVE  k + i \in 1 .. m /\ u[i] = events[k + i]
    <3>1. /\ i \in 1 .. m - (k + 1) + 1 /\ (k + 1) + i - 1 = k + i /\ k + i \in 1 .. m
      BY <1>3, <1>4
    <3>2. u[i] = events[(k + 1) + i - 1]
      BY <2>3, <3>1
    <3> QED
      BY <3>1, <3>2
  <2> QED
    BY <2>4, <2>5, <2>6
<1>7. ASSUME Fine'
      PROVE  Fine
  <2>1. ~e
    BY <1>5, <1>7 DEF Fine
  <2>2. ~ring.error /\ \A i \in 1 .. k : usb[events[i]].ok
    BY <2>1
  <2>3. ASSUME NEW i \in 1 .. m, i > k
        PROVE  usb[events[i]].ok
    <3> DEFINE j == i - k
    <3>1. j \in 1 .. m - k /\ k + j = i
      BY <1>3, <1>4, <2>3
    <3> HIDE DEF j, m
    <3>2. events'[j] = events[i]
      BY <1>6, <3>1
    <3>3. j \in 1 .. Len(events')
      BY <1>6, <3>1
    <3>4. usb'[events[i]].ok
      BY <1>7, <3>2, <3>3 DEF Fine
    <3>5. events[i] \notin ended /\ events[i] \in Slot
      <4>1. \A x, y \in 1 .. m : events[x] = events[y] => x = y
        BY <1>3, TurnsDiffer DEF m
      <4>2. \A x \in 1 .. k : x \in 1 .. m /\ x # i
        BY <1>3, <1>4, <2>3
      <4>3. events[i] \in Slot
        BY <1>3, ElementOfSeq DEF m
      <4> QED
        BY <4>1, <4>2, <4>3
    <3>6. usb' = [s \in Slot |-> IF s \in ended THEN NoTransfer ELSE usb[s]]
      BY <1>2
    <3> QED
      BY <3>4, <3>5, <3>6
  <2>4. \A i \in 1 .. m : i \in 1 .. k \/ i > k
    BY <1>3, <1>4
  <2> QED
    BY <2>2, <2>3, <2>4 DEF Fine
<1>8. /\ pc' \in {"loop", "finish", "free"} /\ pc' \in Ring /\ (ret' = 0 => ret = 0)
      /\ pc' = "free" /\ ret' = 0 => \/ pc = "finish" /\ ~(ring'.finished < ring'.count \/ ring'.error)
                                     \/ pc = "free" /\ ret = 0
  <2>1. CASE pc \in {"poll", "finish"} /\ Polled(ring')
    <3>1. /\ ret' \in {0, 1} /\ pc' = (IF pc = "poll" THEN "loop" ELSE "free")
          /\ pc = "poll" => UNCHANGED ret
          /\ pc = "finish" => ret' = IF ring'.finished < ring'.count \/ ring'.error THEN 1 ELSE 0
      BY <1>1, <2>1, PolledIs
    <3>2. ret = 0
      BY <1>1, <2>1 DEF IInv, Parted
    <3> QED
      BY <2>1, <3>1, <3>2 DEF Ring
  <2>2. CASE pc \in {"finish", "free"} /\ UNCHANGED <<pc, ret>>
    BY <1>1, <2>2 DEF Ring
  <2> QED
    BY <1>1, <1>2, <2>1, <2>2
<1>9. Agreed' /\ Tiled' /\ InRange' /\ (~astray' => (ret' = 0 => DoneTo(Pos)'))
  BY <1>1, <1>8, RingKeeps
<1>10. ASSUME ~astray, Fine'
       PROVE  Landed'
  <2>1. Landed
    BY <1>1, <1>7, <1>10 DEF DInv, Reached
  <2>2. ring'.finished + Len(events') = ring.finished + Len(events)
    BY <1>3, <1>4, <1>5, <1>6
  <2> QED
    BY <1>1, <1>5, <2>1, <2>2 DEF Landed, DoneTo, Now
<1>11. ASSUME ~astray, pc' = "free", ret' = 0
       PROVE  ring'.finished >= ring'.count /\ ~ring'.error
  <2>1. ~(pc = "free" /\ ret = 0)
    <3> SUFFICES ASSUME pc = "free", ret = 0 PROVE FALSE
      OBVIOUS
    <3>1. ring.finished >= ring.count
      BY <1>11 DEF DInv, Reached
    <3> QED
      BY <1>1, <1>3, <3>1 DEF Pending
  <2>2. ~(ring'.finished < ring'.count) /\ ~ring'.error
    BY <1>8, <1>11, <2>1
  <2>3. ring'.finished \in Nat /\ ring'.count \in Nat
    BY <1>3, <1>4, <1>5
  <2> QED
    BY <2>2, <2>3
<1>12. Reached'
  BY <1>1, <1>9, <1>10, <1>11 DEF Reached
<1> QED
  BY <1>9, <1>12 DEF Kept

LEMMA FreeDoes ==
  ASSUME DInv, pc = "free", Free, UNCHANGED <<dev, ioMode, devMode, fastRead, req, ring, stream, got, chip>>
  PROVE  Kept'
<1>1. /\ pc \in Ring /\ todo # <<>> /\ Now.kind = "bulk_read" /\ ret \in {0, 1} /\ IInv /\ ~Unsupported
  BY RestIs DEF Ring, DInv, IInv, Parted
<1>2. /\ astray' = (astray \/ Pending \/ stream.sent < stream.count)
      /\ (Proceed /\ ret = 0) \/ Abort(1)
  BY <1>1 DEF Free
<1>3. pc' = "part" /\ pc' \notin Ring
  BY <1>2 DEF Proceed, Abort, Ring
<1>4. InRange'
  BY DEF DInv, InRange
<1>5. Agreed'
  <2>1. fastRead = dev.fast
    BY DEF DInv, Agreed
  <2>2. ASSUME ~astray' PROVE ModesAgree' /\ stream'.sent = stream'.count
    <3>1. ~astray /\ ~(stream.sent < stream.count)
      BY <1>2, <2>2
    <3>2. stream.sent = stream.count
      BY <1>1, <3>1, StreamIs
    <3> QED
      BY <3>1, <3>2 DEF DInv, Agreed, ModesAgree
  <2> QED
    BY <1>3, <2>1, <2>2 DEF Agreed, ModesAgree
<1>6. CASE Proceed /\ ret = 0
  <2>1. ASSUME ~astray'
        PROVE  DoneIn(req, got', chip', Now.start + Now.len)
    <3>1. ~astray /\ ~Pending /\ ~(stream.sent < stream.count)
      BY <1>2, <2>1
    <3>2. ~ring.error
      BY <1>6, <3>1 DEF DInv, Reached
    <3>3. Len(events) = 0
      BY <1>1, <3>1, RingIs DEF Pending
    <3>4. Fine
      BY <3>2, <3>3 DEF Fine
    <3>5. Landed
      BY <1>1, <3>1, <3>4 DEF DInv, Reached
    <3>6. stream.sent = Count
      <4>1. ring.count = Count
        BY <1>1 DEF IInv, Circular
      <4>2. stream.count = ring.count
        BY <3>5 DEF Landed
      <4> QED
        BY <1>1, <3>1, <4>1, <4>2, StreamIs
    <3>7. Count \in Nat /\ Block \in Nat /\ Block * Count = Now.len
      BY <1>1, CountTimes
    <3>8. stream.sent * Block = Now.len
      BY <3>6, <3>7
    <3> QED
      BY <3>5, <3>8 DEF Landed, DoneTo
  <2>2. Tiled' /\ Reached'
    BY <1>1, <1>6, <2>1, GoesOn
  <2> QED
    BY <1>4, <1>5, <2>2 DEF Kept
<1>7. CASE Abort(1)
  BY <1>4, <1>5, <1>7, GivesUp DEF Kept
<1> QED
  BY <1>2, <1>6, <1>7

LEMMA PollDoneDoes ==
  ASSUME DInv, PollDone
  PROVE  Kept'
<1>1. /\ pc \in {"poll", "finish", "free"} /\ pc \in Ring /\ IInv
      /\ UNCHANGED <<dev, ioMode, devMode, fastRead, req, ring, events, stream, got, chip>>
  BY DEF PollDone, driver, Ring, DInv
<1>2. CASE pc = "free" /\ Free
  BY <1>1, <1>2, FreeDoes
<1>3. CASE pc # "free" /\ Polled(ring) /\ UNCHANGED <<usb, todo, astray>>
  <2>1. /\ ret' \in {0, 1} /\ pc' = (IF pc = "poll" THEN "loop" ELSE "free")
        /\ pc = "poll" => UNCHANGED ret
        /\ pc = "finish" => ret' = IF ring.finished < ring.count \/ ring.error THEN 1 ELSE 0
    BY <1>1, <1>3, PolledIs
  <2>2. ret = 0
    BY <1>1, <1>3 DEF IInv, Parted
  <2>3. pc' = "free" /\ ret' = 0 => ring.finished >= ring.count /\ ~ring.error
    BY <1>1, <1>3, <2>1, RingIs
  <2>4. pc' \in Ring
    BY <2>1 DEF Ring
  <2> QED
    BY <1>1, <1>3, <2>2, <2>3, <2>4, RingWaits
<1> QED
  BY <1>2, <1>3 DEF PollDone

LEMMA PollFailsDoes ==
  ASSUME DInv, PollFails
  PROVE  Kept'
<1>1. /\ pc \in {"poll", "finish", "free"} /\ pc \in Ring
      /\ UNCHANGED <<dev, ioMode, devMode, fastRead, req, ring, events, stream, got, chip>>
  BY DEF PollFails, driver, Ring
<1>2. CASE pc = "free" /\ Free
  BY <1>1, <1>2, FreeDoes
<1>3. CASE pc' = "free" /\ ret' = 1 /\ UNCHANGED <<usb, todo, astray>>
  BY <1>1, <1>3, RingWaits DEF Ring
<1> QED
  BY <1>2, <1>3 DEF PollFails

\* The next block of the buffer, and no other, is written
LEMMA ArrivesDoes ==
  ASSUME DInv, Arrives
  PROVE  Kept'
<1>1. /\ queue # <<>> /\ stream.sent < stream.count /\ ~lost /\ Ends(TRUE) /\ got' = Lands /\ IInv
      /\ stream' = [stream EXCEPT !.sent = @ + 1]
      /\ UNCHANGED <<dev, ioMode, devMode, fastRead, pc, req, todo, ret, ring, chip, astray>>
  BY DEF Arrives, driver, history, DInv
<1>2. pc \in Ring
  BY <1>1, RestIs DEF Settled
<1> DEFINE m == Len(events)
           n == Len(queue)
           f == ring.finished
           h == Head(queue)
<1>3. /\ f \in Nat /\ m \in Nat /\ n \in Nat /\ m + n <= Slots
      /\ events \in Seq(Slot) /\ queue \in Seq(Slot) /\ InTurn(events, queue, f) /\ todo # <<>>
  BY <1>1, <1>2, RingIs
<1>4. n >= 1 /\ h = queue[1] /\ 1 \in 1 .. n /\ h \in Slot
  BY <1>1, <1>3, EmptySeq, ElementOfSeq
<1>5. usb[h].block = f + m
  <2>1. Holds(queue[1], f + m + 1 - 1, "flying")
    BY <1>1, <1>2, <1>4 DEF IInv, Circular
  <2>2. f + m + 1 - 1 = f + m
    BY <1>3
  <2> QED
    BY <1>4, <2>1, <2>2 DEF Holds
<1>6. /\ Len(events') = m + 1 /\ events'[m + 1] = h
      /\ \A i \in 1 .. m : events'[i] = events[i] /\ events[i] # h /\ events[i] \in Slot
  <2>1. events' = Append(events, h)
    BY <1>1 DEF Ends
  <2>2. \A i \in 1 .. m : events[i] # queue[1] /\ events[i] \in Slot
    <3>1. \A i \in 1 .. m, j \in 1 .. n : events[i] # queue[j]
      BY <1>3, TurnsDiffer
    <3>2. \A i \in 1 .. m : events[i] \in Slot
      BY <1>3, ElementOfSeq
    <3> QED
      BY <1>4, <3>1, <3>2
  <2> QED
    BY <1>3, <1>4, <2>1, <2>2, AppendProperties
<1>7. usb' = [usb EXCEPT ![h] = [@ EXCEPT !.state = "ended", !.ok = TRUE]] /\ usb \in [Slot -> Transfer]
  BY <1>1, RestIs DEF Ends, RingTypes
<1>8. Fine' => Fine
  <2>1. \A i \in 1 .. m : i \in 1 .. Len(events') /\ usb'[events[i]] = usb[events[i]]
    BY <1>3, <1>6, <1>7
  <2> QED
    BY <1>1, <1>6, <2>1 DEF Fine
<1> DEFINE to == Now.start + (f + m) * Block
           x == stream.from + stream.sent * Block
<1>9. /\ Now.start \in Nat /\ stream.from \in Nat /\ stream.sent \in Nat /\ Block \in Nat \ {0}
      /\ ReqRec
  BY <1>1, <1>3, StreamIs, TodoIs, Constants, ReqIs DEF IInv, PartRec
<1>10. to \in Int /\ to >= Now.start /\ x \in Int
  <2>1. f + m \in Nat /\ Block \in Nat
    BY <1>3, <1>9
  <2>2. (f + m) * Block \in Nat /\ stream.sent * Block \in Nat
    BY <1>9, <2>1
  <2> QED
    BY <1>9, <2>2
<1>11. \A i \in 1 .. req.len :
         got'[i] = IF req.start + i - 1 - to \in 0 .. Block - 1
                   THEN IF stream.right THEN x + (req.start + i - 1 - to) ELSE JUNK
                   ELSE got[i]
  <2>1. DOMAIN got = 1 .. req.len
    BY <1>1, RestIs DEF Rest
  <2> QED
    BY <1>1, <1>5, <2>1 DEF Lands
<1>12. req.op = "read"
  <2>1. Now.kind = "bulk_read"
    BY <1>1, <1>2 DEF IInv, Parted
  <2> QED
    BY <1>1, <1>3, <2>1, PartKinds
<1>13. /\ stream'.from = stream.from /\ stream'.sent = stream.sent + 1
       /\ stream'.count = stream.count /\ stream'.right = stream.right
  BY <1>1, StreamIs
<1> HIDE DEF to, x, m, n, f, h
<1>14. Pos' = Pos /\ End' = End /\ Now' = Now /\ pc \notin {"mode", "command"} /\ Pos = Now.start
  BY <1>1, <1>2, <1>3 DEF Pos, End, Now, Ring
<1>15. Agreed'
  BY <1>1, <1>2, <1>14 DEF DInv, Agreed
<1>16. Tiled'
  BY <1>1, <1>14 DEF DInv, Tiled
<1>17. InRange'
  BY <1>1 DEF DInv, InRange
<1>18. ASSUME ~astray, ret = 0
       PROVE  DoneTo(Pos)'
  <2>1. DoneIn(req, got, chip, Now.start)
    BY <1>14, <1>18 DEF DInv, Reached, DoneTo
  <2>2. ASSUME NEW i \in 1 .. req.len, req.start + i - 1 < Now.start
        PROVE  got'[i] = req.start + i - 1
    <3>1. got[i] = req.start + i - 1
      BY <1>12, <2>1, <2>2 DEF DoneIn
    <3>2. ~(req.start + i - 1 - to \in 0 .. Block - 1)
      BY <1>9, <1>10, <2>2 DEF ReqRec
    <3> QED
      BY <1>11, <3>1, <3>2
  <2> QED
    BY <1>1, <1>12, <1>14, <2>2 DEF DoneTo, DoneIn
<1>19. ASSUME ~astray, Fine'
       PROVE  Landed'
  <2>1. /\ stream.from = Now.start /\ stream.right /\ stream.count = ring.count
        /\ stream.sent = f + m
        /\ DoneIn(req, got, chip, Now.start + stream.sent * Block)
    BY <1>2, <1>8, <1>19 DEF DInv, Reached, Landed, DoneTo, f, m
  <2>2. x = to /\ Now.start + stream.sent * Block = to
    BY <2>1 DEF x, to
  <2>3. Now.start + (stream.sent + 1) * Block = to + Block
    <3>1. (stream.sent + 1) * Block = stream.sent * Block + Block /\ stream.sent * Block \in Nat
      BY <1>9
    <3> QED
      BY <1>9, <2>2, <3>1
  <2>4. ASSUME NEW i \in 1 .. req.len, req.start + i - 1 < to + Block
        PROVE  got'[i] = req.start + i - 1
    <3>1. CASE req.start + i - 1 < to
      <4>1. got[i] = req.start + i - 1
        BY <1>12, <2>1, <2>2, <3>1 DEF DoneIn
      <4>2. ~(req.start + i - 1 - to \in 0 .. Block - 1)
        BY <1>9, <1>10, <3>1 DEF ReqRec
      <4> QED
        BY <1>11, <4>1, <4>2
    <3>2. CASE req.start + i - 1 >= to
      <4>1. req.start + i - 1 - to \in 0 .. Block - 1
        BY <1>9, <1>10, <2>4, <3>2 DEF ReqRec
      <4>2. got'[i] = x + (req.start + i - 1 - to)
        BY <1>11, <2>1, <4>1
      <4> QED
        BY <1>9, <1>10, <2>2, <4>2 DEF ReqRec
    <3> QED
      BY <1>9, <1>10, <3>1, <3>2 DEF ReqRec
  <2>5. DoneIn(req, got', chip', Now.start + (stream.sent + 1) * Block)
    BY <1>12, <2>3, <2>4 DEF DoneIn
  <2>6. stream'.sent = ring'.finished + Len(events')
    <3>1. f + m + 1 = f + (m + 1)
      BY <1>3
    <3> QED
      BY <1>1, <1>6, <1>13, <2>1, <3>1 DEF f
  <2> QED
    BY <1>1, <1>13, <1>14, <2>1, <2>5, <2>6 DEF Landed, DoneTo
<1>20. pc = "free" /\ ret = 0 /\ ~astray => ring.finished >= ring.count /\ ~ring.error
  BY DEF DInv, Reached
<1>21. Reached'
  BY <1>1, <1>18, <1>19, <1>20 DEF Reached
<1> QED
  BY <1>15, <1>16, <1>17, <1>21 DEF Kept

LEMMA BreaksDoes ==
  ASSUME DInv, Breaks
  PROVE  Kept'
<1>1. /\ queue # <<>> /\ ~lost /\ Ends(FALSE) /\ IInv
      /\ UNCHANGED <<dev, ioMode, devMode, fastRead, pc, req, todo, ret, ring, got, chip, astray>>
  BY DEF Breaks, driver, history, DInv
<1>2. pc \in Ring
  BY <1>1, RestIs DEF Settled
<1>3. events \in Seq(Slot) /\ queue \in Seq(Slot) /\ usb \in [Slot -> Transfer]
  BY <1>1, RestIs DEF RingTypes
<1>4. Head(queue) \in Slot /\ Len(events) \in Nat
  BY <1>1, <1>3, HeadTailProperties, LenProperties
<1>5. ~Fine'
  <2> DEFINE h == Head(queue)
             m == Len(events)
  <2>1. events' = Append(events, h) /\ usb' = [usb EXCEPT ![h] = [@ EXCEPT !.state = "ended", !.ok = FALSE]]
    BY <1>1 DEF Ends
  <2>2. Len(events') = m + 1 /\ events'[m + 1] = h
    BY <1>3, <1>4, <2>1, AppendProperties
  <2>3. m + 1 \in 1 .. m + 1
    BY <1>4
  <2>4. ~usb'[h].ok
    BY <1>3, <1>4, <2>1 DEF Transfer
  <2> QED
    BY <2>2, <2>3, <2>4 DEF Fine
<1>6. Pos' = Pos /\ End' = End /\ Now' = Now /\ pc \notin {"mode", "command"}
  BY <1>1, <1>2 DEF Pos, End, Now, Ring
<1>7. Agreed'
  BY <1>1, <1>2, <1>6 DEF DInv, Agreed
<1>8. Tiled'
  BY <1>1, <1>6 DEF DInv, Tiled
<1>9. InRange'
  BY <1>1 DEF DInv, InRange
<1>10. Reached'
  BY <1>1, <1>5, <1>6 DEF DInv, Reached, DoneTo
<1> QED
  BY <1>7, <1>8, <1>9, <1>10 DEF Kept

-----------------------------------------------------------------------------
(* Ranges are done completely                                              *)

LEMMA DInvInit == Init => DInv
<1> SUFFICES ASSUME Init PROVE DInv
  OBVIOUS
<1>1. IInv
  BY IInvInit
<1>2. /\ pc = "idle" /\ req.start = 0 /\ req.len = 0 /\ req.op = "none" /\ todo = <<>> /\ ret = 0
      /\ fastRead = dev.fast /\ stream.sent = stream.count /\ chip = [a \in Addr |-> "old"]
      /\ (IF dev.modes THEN ioMode = devMode ELSE devMode = SINGLE) /\ devMode = SINGLE
  BY DEF Init, NoCall
<1>3. Pos = 0 /\ End = 0
  BY <1>2 DEF Pos, End
<1>4. Agreed
  BY <1>2 DEF Agreed
<1>5. Tiled
  <2>1. Len(<<>>) = 0
    OBVIOUS
  <2> QED
    BY <1>2, <1>3, <2>1 DEF Tiled, Tiling
<1>6. InRange
  BY <1>2 DEF InRange
<1>7. Reached
  BY <1>2, <1>3 DEF Reached, DoneTo, DoneIn, Ring
<1> QED
  BY <1>1, <1>4, <1>5, <1>6, <1>7 DEF DInv

LEMMA DInvNext ==
  ASSUME WholePages, DInv, [Next]_vars
  PROVE  DInv'
<1>1. IInv'
  BY IInvNext DEF DInv
<1>2. CASE UNCHANGED vars
  <2>1. UNCHANGED <<dev, ioMode, devMode, fastRead, pc, req, todo, ret, ring, usb, queue, events, stream, got,
                    chip, astray>>
    BY <1>2 DEF vars, driver, usbVars, history
  <2>2. Now' = Now /\ Pos' = Pos /\ End' = End
    BY <2>1 DEF Now, Pos, End
  <2>3. Agreed' /\ Tiled' /\ InRange'
    BY <2>1, <2>2 DEF DInv, Agreed, Tiled, InRange, Wanted, ReadOpMode
  <2>4. Reached'
    BY <2>1, <2>2 DEF DInv, Reached, Fine, Landed, DoneTo
  <2> QED
    BY <1>1, <2>3, <2>4 DEF DInv
<1>3. CASE \E r \in Requests : Call(r)
  BY <1>1, <1>3, CallDoes DEF DInv, Kept
<1>4. CASE Driver
  <2>1. Kept'
    BY <1>4, FinishDoes, BeginDoes, SetIoModeDoes, SingleDoes, BulkWriteDoes, ReadCommandDoes,
       LoopDoes, SubmitDoes, HandleEventsDoes, PollDoneDoes, PollFailsDoes DEF Driver
  <2> QED
    BY <1>1, <2>1 DEF DInv, Kept
<1>5. CASE Device
  BY <1>1, <1>5, ArrivesDoes, BreaksDoes DEF Device, DInv, Kept
<1> QED
  BY <1>2, <1>3, <1>4, <1>5 DEF Next

LEMMA DInvImplies == DInv => Done
<1> SUFFICES ASSUME DInv, pc = "idle", ~astray
             PROVE  /\ ret = 0 /\ req.op \in {"read", "command"} =>
                         \A i \in DOMAIN got : got[i] = req.start + i - 1
                    /\ ret = 0 /\ req.op = "write" =>
                         \A a \in req.start .. req.start + req.len - 1 : chip[a] = "new"
                    /\ fastRead = dev.fast
  BY DEF Done, DInv
<1>1. fastRead = dev.fast /\ IInv
  BY DEF DInv, Agreed
<1>2. ReqRec /\ DOMAIN got = 1 .. req.len
  BY <1>1, ReqIs, RestIs DEF Rest
<1>3. ret = 0 => DoneTo(End)
  <2>1. todo = <<>>
    BY <1>1 DEF IInv, Parted
  <2> QED
    BY <2>1 DEF DInv, Reached, Pos
<1>4. ASSUME ret = 0, req.op \in {"read", "command"}, NEW i \in DOMAIN got
      PROVE  got[i] = req.start + i - 1
  <2>1. i \in 1 .. req.len /\ req.start + i - 1 < End
    BY <1>2 DEF ReqRec, End
  <2> QED
    BY <1>3, <1>4, <2>1 DEF DoneTo, DoneIn
<1>5. ASSUME ret = 0, req.op = "write", NEW a \in req.start .. req.start + req.len - 1
      PROVE  chip[a] = "new"
  <2>1. a \in Addr /\ req.start <= a /\ a < End
    BY <1>2, Constants DEF ReqRec, End, Addr
  <2> QED
    BY <1>3, <1>5, <2>1 DEF DoneTo, DoneIn
<1> QED
  BY <1>1, <1>4, <1>5

\* Where no write of part of a page is asked for, none leaves its range, whatever fails, and a
\* call that returns 0 has done all of its range: every byte read comes from its own address and
\* in the mode of its opcode, every byte to be written is programmed, as long as programmer and
\* driver agree.  Every call gives back the fast read operation.
THEOREM RangesAreDone == WholePages => (Spec => []Done)
<1> SUFFICES ASSUME WholePages PROVE Spec => []Done
  OBVIOUS
<1>1. DInv /\ [Next]_vars => DInv'
  BY DInvNext
<1>2. DInv => Done
  BY DInvImplies
<1> QED
  BY DInvInit, <1>1, <1>2, PTL DEF Spec

=============================================================================
