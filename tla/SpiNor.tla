------------------------------- MODULE SpiNor -------------------------------
(***************************************************************************)
(* SPI flash commands and modes (spi25.c, spi25_prepare.c, spi.c): how a   *)
(* chip is prepared for access, how reads, writes and erases are cut into  *)
(* commands, and how it is left.                                           *)
(*                                                                         *)
(* Chip and host each have an idea of the address mode, the extended       *)
(* address register, the I/O mode and the quad-enable bit.  The chip never *)
(* tells: a command in the wrong mode is taken for another one.  Commands  *)
(* may fail, and a command that is reported to have failed may still have  *)
(* been carried out.                                                       *)
(***************************************************************************)
EXTENDS Integers, Sequences, FiniteSets, FiniteSetsExt, SequencesExt

CONSTANTS
  Devices,      \* chips, as the database describes them, each with a master
  Bank,         \* what three address bytes reach: 16 MiB
  Page,         \* chip.page_size
  Requests,     \* the accesses: operation, first address, length
  MaxFaults,    \* bound: commands and allocations that go wrong
  MaxSessions,  \* bound: how often the chip is prepared
  MaxCalls      \* bound: accesses

IoModes == {"single", "dual_out", "dual_io", "quad_out", "quad_io", "qpi"}
MultiIo == IoModes \ {"single", "qpi"}
QuadIo == {"quad_out", "quad_io", "qpi"}

\* size: total_size.  enter: FEATURE_4BA_ENTER, _WREN or _EAR7.  ear: FEATURE_4BA_EAR_ANY.
\* native: which of FEATURE_4BA_READ, _FAST_READ and _WRITE.  qpi, qpi4b, io: QPI, fast
\* read with four address bytes in it, and the other multi-i/o reads.  qe, ewsr: there is
\* a quad-enable bit, it can be set for the time being.  The rest is the master's:
\* SPI_MASTER_4BA, _NO_4BA_MODES, _TOP_ALIGNED, multi-i/o and QPI, max_data_read and _write.
Device ==
  [size : Nat \ {0}, enter : {"none", "plain", "wren", "ear7"}, ear : BOOLEAN,
   native : SUBSET {"read", "fast", "write"}, qpi : BOOLEAN, qpi4b : BOOLEAN,
   io : SUBSET MultiIo, qe : BOOLEAN, ewsr : BOOLEAN,
   master4ba : BOOLEAN, noModes : BOOLEAN, top : BOOLEAN, masterIo : SUBSET IoModes,
   maxRead : Nat \ {0}, maxWrite : Nat \ {0}]

Ops == {"read", "write", "aai", "erase", "erase4", "wipe"}

ASSUME SpiAssumption ==
  /\ Bank \in Nat \ {0} /\ Page \in Nat \ {0} /\ Bank % Page = 0
  /\ Devices \subseteq Device
  \* Entries of the database: a size is a fraction or a multiple of 16 MiB, far less than
  \* what the seven bits of the register and four address bytes reach; whatever knows four
  \* address bytes can enter and leave that mode
  /\ \A d \in Devices : /\ d.size % Bank = 0 \/ Bank % d.size = 0
                        /\ d.size <= 128 * Bank /\ (256 * Bank) % d.size = 0
                        /\ d.native # {} \/ d.ear => d.enter # "none"
  \* Erasers cover the chip with blocks of their size; default_spi_write_aai() needs even
  \* addresses ("honored outside this function")
  /\ Requests \subseteq [op : Ops, start : Nat, len : Nat \ {0}]
  /\ \A r \in Requests : /\ r.op \in {"erase", "erase4"} => r.start % r.len = 0
                         /\ r.op = "aai" => r.start % 2 = 0 /\ r.len % 2 = 0
  /\ {MaxFaults, MaxSessions, MaxCalls} \subseteq Nat

VARIABLES
  dev,       \* the device of this behaviour
  nor,       \* the chip
  host,      \* struct flashctx: in_4ba_mode, address_high_byte, in_qpi_mode,
             \* volatile_qe_enabled, FEATURE_ANY_QUAD, spi_fast_read
  pc,        \* where the program is
  cmds,      \* what is left of the running (multi)command
  res,       \* result of the last one
  reg,       \* the quad-enable bit as last read
  call,      \* the running access
  todo,      \* its pieces that are still to be done
  ret,       \* its result, or that of the preparation
  got,       \* what a read has returned so far
  faults, sessions, calls,
  found,     \* history: the quad-enable bit when the chip was found
  before,    \* history: contents when the access began
  astray,    \* history: the chip went where the program could not know
  spoilt     \* history: a command failed in this session that a mode or the bit depends on

counts == <<sessions, calls>>
history == <<found, before, spoilt>>
vars == <<dev, nor, host, pc, cmds, res, reg, call, todo, ret, got, faults, counts,
          history, astray>>

PCs == {"closed", "enter4ba", "quad", "qeread", "qewrite", "qecheck", "enterqpi", "select",
        "leaveqpi", "ready", "piece", "ear", "data", "poll", "finishqpi", "finishqe", "finished"}

Fault == faults < MaxFaults /\ faults' = faults + 1
NoFault == UNCHANGED faults

-----------------------------------------------------------------------------
(* Commands and the chip                                                   *)

Cells == 0 .. dev.size - 1
Blank == <<>>
NoAai == -1
Bit7 == 128                  \* of the extended address register: four-byte mode

Io(h) == IF h.qpi THEN "qpi" ELSE "single"                \* spi_current_io_mode()
Simple(op, io) == [op |-> op, io |-> io, alen |-> 0, native |-> FALSE, addr |-> 0,
                   len |-> 0, data |-> <<>>, value |-> 0]
Plain(op) == Simple(op, Io(host))
Wren == Plain("wren")
Value(op, v) == [Plain(op) EXCEPT !.value = v]

Understands(n, c) ==
  /\ (c.io = "qpi") = n.qpi
  /\ c.io \in QuadIo /\ dev.qe => n.qe
  /\ c.alen > 0 => c.alen = IF c.native \/ n.fourba THEN 4 ELSE 3

\* The i-th byte of an access: addresses wrap around in what the mode reaches
Where(n, c, i) ==
  IF c.alen = 4 THEN (c.addr + i) % dev.size
  ELSE ((IF dev.ear THEN n.ear * Bank ELSE 0) + ((c.addr + i) % Bank)) % dev.size
\* Programming wraps around at the end of the page
WhereInPage(n, c, i) ==
  LET a == Where(n, c, 0) IN (a - (a % Page)) + ((a + i) % Page)

\* at[i]: where the i-th byte goes
Written(n, c, at) ==
  [a \in Cells |-> LET hits == {i \in DOMAIN c.data : at[i] = a}
                   IN  IF hits = {} THEN n.cells[a] ELSE c.data[Max(hits)]]
Erased(n, block) == [a \in Cells |-> IF a \in block THEN Blank ELSE n.cells[a]]
BlockAt(a, len) == (a - (a % len)) .. (a - (a % len) + len - 1)

\* What a chip makes of a command.  It is deaf while it is busy, and to almost all while
\* it increments addresses by itself; programs, erases and registers need the write enable.
Obey(n, c) ==
  IF ~Understands(n, c) THEN [n EXCEPT !.garbled = TRUE]
  ELSE IF n.busy \/ (n.aai # NoAai /\ c.op \notin {"cont", "wrdi"}) THEN n
  ELSE CASE c.op = "wren"                    -> [n EXCEPT !.wel = TRUE]
         [] c.op = "wrdi"                    -> [n EXCEPT !.wel = FALSE, !.aai = NoAai]
         [] c.op \in {"enter", "exit"} /\ (dev.enter = "wren" => n.wel)
                                             -> [n EXCEPT !.fourba = (c.op = "enter"), !.wel = FALSE]
         [] c.op = "qpi" /\ (dev.qe => n.qe) -> [n EXCEPT !.qpi = TRUE]
         [] c.op = "unqpi"                   -> [n EXCEPT !.qpi = FALSE]
         [] c.op = "ear" /\ n.wel            ->
              [n EXCEPT !.ear = c.value % Bit7, !.wel = FALSE,
                        !.fourba = IF dev.enter = "ear7" THEN c.value >= Bit7 ELSE n.fourba]
         [] c.op = "wrqe" /\ n.wel           -> [n EXCEPT !.qe = (c.value = 1), !.wel = FALSE]
         [] c.op = "program" /\ n.wel        ->
              [n EXCEPT !.cells = Written(n, c, [i \in DOMAIN c.data |-> WhereInPage(n, c, i - 1)]),
                        !.wel = FALSE, !.busy = TRUE]
         [] c.op = "erase" /\ n.wel          ->
              [n EXCEPT !.cells = Erased(n, BlockAt(Where(n, c, 0), c.len)),
                        !.wel = FALSE, !.busy = TRUE]
         [] c.op = "wipe" /\ n.wel           ->
              [n EXCEPT !.cells = Erased(n, Cells), !.wel = FALSE, !.busy = TRUE]
         [] c.op = "aai" /\ n.wel            ->
              [n EXCEPT !.cells = Written(n, c, [i \in DOMAIN c.data |-> Where(n, c, i - 1)]),
                        !.aai = Where(n, c, 2), !.busy = TRUE]
         [] c.op = "cont" /\ n.aai # NoAai   ->
              [n EXCEPT !.cells = Written(n, c, [i \in DOMAIN c.data |-> (n.aai + i - 1) % dev.size]),
                        !.aai = (n.aai + 2) % dev.size, !.busy = TRUE]
         [] OTHER                            -> n

Deaf(n) == n.busy \/ n.aai # NoAai
Answer(n, c) == [i \in 1 .. c.len |-> IF Deaf(n) THEN Blank ELSE n.cells[Where(n, c, i - 1)]]

\* A command that has been carried out although it is reported to have failed leaves chip
\* and host in different modes; a further AAI word is not even waited for
ModeOps == {"ear", "qpi", "unqpi", "cont"}

\* Where a command that fails leaves the chip in QPI mode, or its quad-enable bit changed: the
\* bit is set, looked at again or given back, or QPI mode is left
Delicate == {"qewrite", "qecheck", "leaveqpi", "finishqpi", "finishqe", "finished"}

\* The master sends one command; the first one that fails ends a multicommand
Send ==
  LET c == Head(cmds) IN
  /\ cmds # <<>>
  /\ \/ /\ NoFault /\ nor' = Obey(nor, c) /\ cmds' = Tail(cmds) /\ res' = 0
        /\ reg' = IF c.op = "rdqe" THEN nor.qe ELSE reg
        /\ got' = IF c.op = "read" THEN got \o Answer(nor, c) ELSE got
        /\ UNCHANGED <<astray, spoilt>>
     \/ /\ Fault /\ cmds' = <<>> /\ res' = 1 /\ spoilt' = (spoilt \/ pc \in Delicate)
        /\ \/ UNCHANGED nor /\ astray' = (astray \/ c.op = "wrdi")
           \/ nor' = Obey(nor, c) /\ astray' = (astray \/ c.op \in ModeOps)
        /\ UNCHANGED <<reg, got>>
  /\ UNCHANGED <<dev, host, pc, call, todo, ret, counts, found, before>>

\* The chip finishes what it is doing
Settle ==
  /\ nor.busy /\ nor' = [nor EXCEPT !.busy = FALSE]
  /\ UNCHANGED <<dev, host, pc, cmds, res, reg, call, todo, ret, got, faults, counts,
                 history, astray>>

-----------------------------------------------------------------------------
(* spi_prepare_io()                                                        *)

NoCall == [op |-> "read", start |-> 0, len |-> 0]

\* Whatever the last program left behind
Init ==
  /\ dev \in Devices
  /\ \E fourba, qe \in BOOLEAN, ear \in 0 .. 1 :
       /\ fourba => dev.enter # "none"
       /\ ear # 0 => dev.ear
       /\ qe => dev.qe
       /\ nor = [cells |-> [a \in Cells |-> <<a, 0>>], fourba |-> fourba, ear |-> ear, qe |-> qe,
                 qpi |-> FALSE, wel |-> FALSE, busy |-> FALSE, aai |-> NoAai, garbled |-> FALSE]
  /\ host = [fourba |-> FALSE, high |-> -1, qpi |-> FALSE, vqe |-> FALSE, quad |-> TRUE,
             fast |-> <<>>]
  /\ pc = "closed" /\ cmds = <<>> /\ res = 0 /\ reg = FALSE
  /\ call = NoCall /\ todo = <<>> /\ ret = 0 /\ got = <<>>
  /\ faults = 0 /\ sessions = 0 /\ calls = 0
  /\ found = nor.qe /\ before = nor.cells /\ astray = FALSE /\ spoilt = FALSE

Goto(p) == pc' = p /\ UNCHANGED cmds
Issue(sequence, p) == cmds' = sequence /\ pc' = p
\* flashprog_flash_prepare_context() frees the context and does not finish the access
GiveUp == Goto("closed") /\ ret' = 4
Idle(p) == pc = p /\ cmds = <<>>

Big == dev.size > Bank
Quad == dev.masterIo \cap QuadIo # {}

\* spi_enter_exit_4ba(), for a context that knows of no other mode yet
Single(op) == Simple(op, "single")
EnterExit(on) ==
  CASE dev.enter = "plain" -> <<Single(IF on THEN "enter" ELSE "exit")>>
    [] dev.enter = "wren"  -> <<Single("wren"), Single(IF on THEN "enter" ELSE "exit")>>
    [] dev.enter = "ear7"  -> <<Single("wren"), [Single("ear") EXCEPT !.value = IF on THEN Bit7 ELSE 0]>>

\* A chip that answers to the probing is prepared: a fresh context, then
\* spi_prepare_4ba(), which refuses large chips on masters that need native commands
Open ==
  /\ pc = "closed" /\ sessions < MaxSessions /\ ~nor.qpi /\ ~Deaf(nor)
  /\ sessions' = sessions + 1 /\ found' = nor.qe /\ spoilt' = FALSE
  /\ IF Big /\ dev.noModes /\ ~(dev.native = {"read", "fast", "write"} /\ dev.master4ba)
       THEN GiveUp
     ELSE /\ UNCHANGED ret
          /\ IF dev.enter = "none" THEN Goto("quad")
             ELSE Issue(EnterExit(dev.master4ba), "enter4ba")
  /\ host' = [fourba |-> FALSE, high |-> -1, qpi |-> FALSE, vqe |-> FALSE, quad |-> TRUE,
              fast |-> <<>>]
  /\ call' = NoCall /\ got' = <<>> /\ before' = nor.cells
  /\ UNCHANGED <<dev, nor, res, reg, todo, faults, calls, astray>>

Entered ==
  /\ Idle("enter4ba")
  /\ IF res = 0
       THEN /\ host' = [host EXCEPT !.fourba = dev.master4ba,
                          !.high = IF dev.enter # "ear7" THEN -1
                                   ELSE IF dev.master4ba THEN Bit7 ELSE 0]
            /\ Goto("quad") /\ UNCHANGED ret
       ELSE GiveUp /\ UNCHANGED host
  /\ UNCHANGED <<dev, nor, res, reg, call, todo, got, faults, counts, history, astray>>

\* The end of spi_prepare_quad_io(): a chip whose quad-enable bit is not known to be set
\* loses FEATURE_ANY_QUAD, which includes QPI
TryQpi(quad) ==
  IF quad /\ dev.qpi /\ "qpi" \in dev.masterIo
    THEN Issue(<<Plain("qpi")>>, "enterqpi") ELSE Goto("select")

PrepareQuad ==
  /\ Idle("quad")
  /\ CASE ~Quad  -> Goto("select")
       [] dev.qe -> IF Quad THEN Issue(<<Plain("rdqe")>>, "qeread") ELSE Goto("select")
       [] OTHER  -> TryQpi(TRUE)
  /\ UNCHANGED <<dev, nor, host, res, reg, call, todo, ret, got, faults, counts, history, astray>>

\* The bit is read; if it is not set, it is set for the time being, and read again
QeRead ==
  /\ Idle("qeread") \/ Idle("qecheck")
  /\ CASE res = 0 /\ reg ->
            TryQpi(TRUE) /\ host' = [host EXCEPT !.vqe = (pc = "qecheck")]
       [] res = 0 /\ ~reg /\ pc = "qeread" /\ dev.ewsr ->
            Issue(<<Wren, Value("wrqe", 1)>>, "qewrite") /\ UNCHANGED host
       [] OTHER -> TryQpi(FALSE) /\ host' = [host EXCEPT !.quad = FALSE]
  /\ UNCHANGED <<dev, nor, res, reg, call, todo, ret, got, faults, counts, history, astray>>

QeWritten ==
  /\ Idle("qewrite")
  /\ IF res = 0 THEN Issue(<<Plain("rdqe")>>, "qecheck") /\ UNCHANGED host
     ELSE TryQpi(FALSE) /\ host' = [host EXCEPT !.quad = FALSE]
  /\ UNCHANGED <<dev, nor, res, reg, call, todo, ret, got, faults, counts, history, astray>>

QpiEntered ==
  /\ Idle("enterqpi") /\ Goto("select")
  /\ host' = [host EXCEPT !.qpi = (res = 0)]
  /\ UNCHANGED <<dev, nor, res, reg, call, todo, ret, got, faults, counts, history, astray>>

ReadOp(io, native) == [io |-> io, native |-> native]

\* select_qpi_fast_read(), select_multi_io_fast_read()
Preferred ==
  [i \in 1 .. 8 |-> ReadOp(<<"quad_io", "quad_out", "dual_io", "dual_out">>[((i - 1) % 4) + 1],
                           i <= 4)]
Fits(h, op) ==
  /\ op.io \in dev.io \cap dev.masterIo
  /\ op.io \in QuadIo => h.quad
  /\ op.native => "fast" \in dev.native /\ dev.master4ba
FastRead(h) ==
  LET fitting == {i \in DOMAIN Preferred : Fits(h, Preferred[i])}
  IN  IF h.qpi THEN <<ReadOp("qpi", dev.qpi4b /\ dev.master4ba)>>
      ELSE IF fitting = {} THEN <<>> ELSE <<Preferred[Min(fitting)]>>

\* select_spi_fast_read(), which allocates its result
Selects(h) ==
  \/ NoFault /\ host' = [h EXCEPT !.fast = FastRead(h)]
  \/ FastRead(h) # <<>> /\ Fault /\ host' = [h EXCEPT !.fast = <<>>]

Ready == Goto("ready") /\ ret' = 0

Select ==
  /\ Idle("select") /\ Selects(host)
  /\ IF host'.fast = <<>> /\ host.qpi
       THEN Issue(<<Plain("unqpi")>>, "leaveqpi") /\ UNCHANGED ret
       ELSE Ready
  /\ UNCHANGED <<dev, nor, res, reg, call, todo, got, counts, history, astray>>

QpiLeft ==
  /\ Idle("leaveqpi")
  /\ IF res = 0 THEN Selects([host EXCEPT !.qpi = FALSE]) /\ Ready
     ELSE GiveUp /\ NoFault /\ UNCHANGED host
  /\ UNCHANGED <<dev, nor, res, reg, call, todo, got, counts, history, astray>>

-----------------------------------------------------------------------------
(* Cutting an access into commands                                         *)

\* "Do not cross 16MiB boundaries in a single transfer" (spi_chip_read, spi_chip_write_256)
BankEnd(a) == (a \div Bank + 1) * Bank
Banks(start, len) ==
  [i \in 1 .. ((start + len - 1) \div Bank - start \div Bank + 1) |->
     LET a == IF i = 1 THEN start ELSE (start \div Bank + i - 1) * Bank
     IN  [start |-> a, len |-> Min({BankEnd(a), start + len}) - a]]

\* Mutant: the last chunk is as long as the others
ChunksWhole(p, size) ==
  [i \in 1 .. ((p.len + size - 1) \div size) |-> [start |-> p.start + (i - 1) * size, len |-> size]]
\* flashprog_read_chunked(), and the inner loop of spi_write_chunked()
Chunks(p, size) ==
  [i \in 1 .. ((p.len + size - 1) \div size) |->
     [start |-> p.start + (i - 1) * size, len |-> Min({size, p.len - (i - 1) * size})]]

\* The outer loop of spi_write_chunked(): one round for each page
PageStart(start, i) == (start \div Page + i) * Page
Pages(p) ==
  [i \in 1 .. ((p.start + p.len - 1) \div Page - p.start \div Page + 1) |->
     LET a == Max({p.start, PageStart(p.start, i - 1)})
     IN  [start |-> a, len |-> Min({p.start + p.len, PageStart(p.start, i)}) - a]]

Cut(pieces, cut(_)) == FlattenSeq([i \in DOMAIN pieces |-> cut(pieces[i])])
Piece(op, parts) == [i \in DOMAIN parts |-> [op |-> op, start |-> parts[i].start, len |-> parts[i].len]]

\* default_spi_write_aai() for an even start and length: one command with an address, one
\* for each further word, and the one that ends it
Words(r) ==
  Piece("aai", <<[start |-> r.start, len |-> 2]>>)
    \o Piece("cont", Tail(Chunks(r, 2)))
    \o Piece("wrdi", <<[start |-> 0, len |-> 0]>>)

Pieces(r) ==
  CASE r.op = "read"  -> Piece("read", Cut(Banks(r.start, r.len), LAMBDA p : Chunks(p, dev.maxRead)))
    [] r.op = "write" -> Piece("write", Cut(Cut(Banks(r.start, r.len), Pages),
                                            LAMBDA p : Chunks(p, dev.maxWrite)))
    [] r.op = "aai"   -> Words(r)
    [] OTHER          -> <<r>>

\* What the access can be: chip.write is spi_chip_write_256 or, for small chips, spi_aai_write;
\* erasers with a native command need a master for them (check_block_eraser); erasing the chip
\* takes no other range (spi_block_erase_c7)
Possible(r) ==
  /\ r.start + r.len <= dev.size
  /\ r.op = "erase4" => "write" \in dev.native /\ dev.master4ba
  /\ r.op = "wipe" => r.start = 0 /\ r.len = dev.size
  /\ r.op = "aai" => ~Big /\ dev.enter = "none" /\ ~Quad

Call(r) ==
  /\ pc = "ready" /\ calls < MaxCalls /\ Possible(r)
  /\ calls' = calls + 1 /\ call' = r /\ todo' = Pieces(r) /\ Goto("piece")
  /\ ret' = 0 /\ got' = <<>> /\ before' = nor.cells
  /\ UNCHANGED <<dev, nor, host, res, reg, faults, sessions, found, spoilt, astray>>

-----------------------------------------------------------------------------
(* One command of an access                                                *)

\* get_spi_read_op(), spi_nbyte_program(), spi_block_erase_dc()
ReadWith ==
  IF host.fast # <<>> THEN Head(host.fast)
  ELSE ReadOp("single", "read" \in dev.native /\ dev.master4ba)
Native(p) ==
  CASE p.op = "read"   -> ReadWith.native
    [] p.op = "write"  -> "write" \in dev.native /\ dev.master4ba
    [] p.op = "erase4" -> TRUE
    [] OTHER           -> FALSE

\* Mutant: the mode is what the master can do, not what the chip was told
AddressLengthMaster(p) == IF Native(p) \/ dev.master4ba THEN 4 ELSE 3
\* spi_address_length()
AddressLength(p) == IF Native(p) \/ host.fourba THEN 4 ELSE 3

\* spi_prepare_address(): some masters see the chip at the top of their address space
Encoded(p) ==
  (IF dev.top THEN p.start - dev.size ELSE p.start) % (IF AddressLength(p) = 4 THEN 256 * Bank ELSE Bank)

Data(p) == [i \in 1 .. p.len |-> <<p.start + i - 1, calls>>]

WithAddress(p) ==
  [op     |-> CASE p.op = "write" -> "program" [] p.op = "erase4" -> "erase" [] OTHER -> p.op,
   io     |-> IF p.op = "read" THEN ReadWith.io ELSE Io(host),
   alen   |-> AddressLength(p), native |-> Native(p), addr |-> Encoded(p),
   len    |-> p.len, data |-> IF p.op \in {"write", "aai"} THEN Data(p) ELSE <<>>, value |-> 0]

\* spi_nbyte_read(), spi_write_cmd(), spi_simple_write_cmd()
Command(p) ==
  CASE p.op = "read" -> <<WithAddress(p)>>
    [] p.op = "cont" -> <<[Plain("cont") EXCEPT !.data = Data(p)]>>
    [] p.op = "wrdi" -> <<Plain("wrdi")>>
    [] p.op = "wipe" -> <<Wren, Plain("wipe")>>
    [] OTHER         -> <<Wren, WithAddress(p)>>

\* An error ends the access; an AAI write still has to end the mode
Fails ==
  /\ ret' = 1
  /\ IF Head(todo).op \in {"aai", "cont"}
       THEN Goto("piece") /\ todo' = <<Last(todo)>>
       ELSE Goto("ready") /\ todo' = <<>>

HasAddress(p) == p.op \notin {"cont", "wrdi", "wipe"}
BankOf(p) == p.start \div Bank
NeedsBank(p) == HasAddress(p) /\ AddressLength(p) = 3

\* The next piece, up to its address: the extended address register follows the bank, and
\* without one what is above the first bank is out of reach
NextPiece ==
  LET p == Head(todo) IN
  /\ Idle("piece")
  /\ IF todo = <<>> THEN Goto("ready") /\ UNCHANGED <<todo, ret>>
     ELSE CASE NeedsBank(p) /\ dev.ear /\ host.high # BankOf(p) ->
                 Issue(<<Wren, Value("ear", BankOf(p))>>, "ear") /\ UNCHANGED <<todo, ret>>
            [] NeedsBank(p) /\ ~dev.ear /\ BankOf(p) > 0 -> Fails
            [] OTHER -> Issue(Command(p), "data") /\ UNCHANGED <<todo, ret>>
  /\ UNCHANGED <<dev, nor, host, res, reg, call, got, faults, counts, history, astray>>

\* Mutant: the register counts as written, whatever came of it
HighByteAlways == BankOf(Head(todo))
HighByte == IF res = 0 THEN BankOf(Head(todo)) ELSE host.high

\* spi_set_extended_address()
EarWritten ==
  /\ Idle("ear")
  /\ host' = [host EXCEPT !.high = HighByte]
  /\ IF res = 0 THEN Issue(Command(Head(todo)), "data") /\ UNCHANGED <<todo, ret>> ELSE Fails
  /\ UNCHANGED <<dev, nor, res, reg, call, got, faults, counts, history, astray>>

Advance == Goto("piece") /\ todo' = Tail(todo) /\ UNCHANGED ret

\* Programs and erases are waited for, whether their command failed or not; a failed AAI
\* word is not
Sent ==
  LET p == Head(todo) IN
  /\ Idle("data")
  /\ CASE p.op \in {"read", "wrdi"} -> IF res = 0 THEN Advance ELSE Fails
       [] p.op = "cont" /\ res # 0  -> Fails
       [] OTHER                     -> Goto("poll") /\ UNCHANGED <<todo, ret>>
  /\ UNCHANGED <<dev, nor, host, res, reg, call, got, faults, counts, history, astray>>

\* Mutant: the chip is waited for until it increments no addresses any more
WipSeenAai == Deaf(nor)
WipSeen == nor.busy

\* spi_poll_wip(): "We don't time out", but the command that reads the status may fail
Poll ==
  /\ Idle("poll")
  /\ \/ /\ ~WipSeen /\ NoFault /\ UNCHANGED astray
        /\ IF res = 0 THEN Advance ELSE Fails
     \/ Fault /\ Fails /\ astray' = (astray \/ nor.busy)
  /\ UNCHANGED <<dev, nor, host, res, reg, call, got, counts, history>>

-----------------------------------------------------------------------------
(* spi_finish_io()                                                         *)

\* Mutant: the bit that was set for the time being stays set
FinishQeNever(h) == Goto("closed")
FinishQe(h) == IF h.vqe THEN Issue(<<Simple("rdqe", Io(h))>>, "finishqe") ELSE Goto("closed")

Release ==
  /\ Idle("ready")
  /\ IF host.qpi THEN Issue(<<Plain("unqpi")>>, "finishqpi") ELSE FinishQe(host)
  /\ UNCHANGED <<dev, nor, host, res, reg, call, todo, ret, got, faults, counts, history, astray>>

FinishQpi ==
  LET h == [host EXCEPT !.qpi = (res # 0)] IN
  /\ Idle("finishqpi")
  /\ host' = h /\ FinishQe(h)
  /\ UNCHANGED <<dev, nor, res, reg, call, todo, ret, got, faults, counts, history, astray>>

QeRestored ==
  /\ Idle("finishqe")
  /\ IF res = 0 THEN Issue(<<Wren, Value("wrqe", 0)>>, "finished") ELSE Goto("closed")
  /\ UNCHANGED <<dev, nor, host, res, reg, call, todo, ret, got, faults, counts, history, astray>>

Finished ==
  /\ Idle("finished") /\ Goto("closed")
  /\ UNCHANGED <<dev, nor, host, res, reg, call, todo, ret, got, faults, counts, history, astray>>

-----------------------------------------------------------------------------

PrepareIo == Entered \/ PrepareQuad \/ QeRead \/ QeWritten \/ QpiEntered \/ Select \/ QpiLeft
Access == NextPiece \/ EarWritten \/ Sent \/ Poll
FinishIo == FinishQpi \/ QeRestored \/ Finished
Program == Send \/ PrepareIo \/ Access \/ FinishIo

Next == Open \/ Program \/ Settle \/ Release \/ \E r \in Requests : Call(r)
Spec == Init /\ [][Next]_vars
\* The program is one thread whose master always answers; a chip gets its work done
FairSpec == Spec /\ WF_vars(Program) /\ WF_vars(Settle)

-----------------------------------------------------------------------------
(* What the commands promise                                               *)

Span(r) == r.start .. r.start + r.len - 1

TypeOK ==
  /\ dev \in Devices /\ pc \in PCs
  /\ DOMAIN nor.cells = Cells
  /\ {nor.fourba, nor.qe, nor.qpi, nor.wel, nor.busy, nor.garbled} \subseteq BOOLEAN
  /\ nor.ear \in Nat /\ nor.aai \in Cells \cup {NoAai}
  /\ host.high \in -1 .. Bit7 /\ {host.fourba, host.qpi, host.vqe, host.quad} \subseteq BOOLEAN
  /\ \A op \in ToSet(host.fast) : op.io \in IoModes
  /\ res \in 0 .. 1 /\ ret \in {0, 1, 4} /\ Len(got) <= call.len
  /\ \A p \in ToSet(todo) : p.op \in Ops \cup {"cont", "wrdi"}

\* Every command finds the chip in the I/O mode and the address mode it was made for, with
\* quad I/O enabled where it is used, whatever mode the chip was found in and whichever
\* commands failed before, unless the chip went astray.
Understood == ~astray => ~nor.garbled

\* An access that returns 0 did what it was asked to: a read returns the cells of its range,
\* a write and an erase change them, in pieces that cross neither a page nor a bank, with the
\* bank that the extended address register selects. Whatever fails, no access touches a cell
\* outside of its range, and a read none at all.
Wanted(a) == IF call.op \in {"write", "aai"} THEN <<a, calls>> ELSE Blank
Done ==
  ~astray =>
    /\ pc = "ready" /\ ret = 0 =>
         IF call.op = "read"
           THEN Len(got) = call.len /\ \A i \in DOMAIN got : got[i] = nor.cells[call.start + i - 1]
           ELSE \A a \in Cells \cap Span(call) : nor.cells[a] = Wanted(a)
    /\ \A a \in Cells : nor.cells[a] # before[a] => a \in Span(call) /\ call.op # "read"

\* A chip that is given back, or whose preparation is given up, is no longer in QPI mode, and
\* its quad-enable bit is as it was found: whichever accesses failed and wherever, also if
\* the bit could not be read, QPI mode not be entered or memory not be allocated.  Unless the
\* setting of the bit or a command of the way back failed, or the chip went astray.
GivenBack == pc = "closed" /\ ~spoilt /\ ~astray => ~nor.qpi /\ nor.qe = found

\* The preparation, every access and the release come to an end
Returns == pc \notin {"ready", "closed"} ~> pc \in {"ready", "closed"}

=============================================================================
