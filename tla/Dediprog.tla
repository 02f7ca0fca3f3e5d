------------------------------ MODULE Dediprog ------------------------------
(***************************************************************************)
(* Reads, writes and commands of the Dediprog driver (dediprog.c).  A read *)
(* or write of any range is split: what fills whole blocks is left to the  *)
(* programmer's firmware (a bulk transfer), the residue before and behind  *)
(* is done with single SPI commands.  Bulk reads run through a ring of     *)
(* asynchronous USB transfers whose callbacks count in a structure on the  *)
(* stack of dediprog_spi_bulk_read().  The programmer has an I/O mode of   *)
(* its own, which the driver remembers and changes only when it has to.    *)
(*                                                                         *)
(* Left out: the LEDs, and what the firmware is told besides the mode      *)
(* (opcode, address length, dummy cycles: prepare_rw_cmd).  The commands   *)
(* that single accesses consist of are the subject of SpiNor.              *)
(***************************************************************************)
EXTENDS Integers, Sequences, SequencesExt, FiniteSetsExt

CONSTANTS
  Size,          \* of the chip
  Block,         \* of a bulk read: 512 bytes
  Page256,       \* of a bulk write: 256 bytes
  MaxBlocks,     \* MAX_BLOCK_COUNT
  Slots,         \* DEDIPROG_ASYNC_TRANSFERS
  Width,         \* of an unsigned int
  Devices,       \* programmers and chips
  Requests,      \* the calls
  MaxFaults, MaxCalls

MultiIo == {"1-1-2", "1-2-2", "1-1-4", "1-4-4"}
Programmer ==
  [protocol : 1 .. 3, modes : BOOLEAN, fast : {"none"} \cup MultiIo, page : Nat \ {0}]

ASSUME DediprogAssumption ==
  /\ {Size, Block, Page256, MaxBlocks, Slots, Width} \subseteq Nat \ {0}
  /\ Size < 2^Width
  /\ MaxFaults \in Nat /\ MaxCalls \in Nat
  \* "Multi i/o is only supported for SF600 and SF700 models w/ protocol v2 or later."
  /\ Devices \subseteq Programmer
  /\ \A d \in Devices : d.fast # "none" => d.modes /\ d.protocol > 1
  \* spi_chip_read() asks for at most 16 MiB, half of what a bulk read can do
  /\ Requests \subseteq [op : {"read", "write", "command"}, start : Nat, len : Nat]
  /\ \A r \in Requests : r.start + r.len <= Size /\ (r.op = "read" => r.len <= Block * (MaxBlocks + 1))

Addr == 0 .. Size - 1
Slot == 0 .. Slots - 1
SINGLE == "1-1-1"
NOTHING == -1     \* in the caller's buffer: not written yet, or not what was asked for
JUNK == -2

VARIABLES
  dev,       \* the programmer and the chip
  ioMode,    \* dp->io_mode
  devMode,   \* the mode the programmer is in
  fastRead,  \* flash->spi_fast_read, by its I/O mode
  pc, req, todo, ret,
  ring,      \* struct dediprog_transfer_status, with the number of blocks
  usb,       \* the transfer in each slot
  queue,     \* transfers libusb holds, in the order of submission
  events,    \* those that have ended and wait for their callback
  stream,    \* blocks the programmer has sent, and will send, for the last command
  got,       \* where the bytes of the caller's buffer come from
  chip,      \* what became of the cells in this call
  faults, calls,
  astray,    \* programmer and driver do not agree any more
  lost       \* transfers have been freed that libusb still holds

driver == <<ioMode, devMode, fastRead>>
usbVars == <<ring, usb, queue, events, stream>>
history == <<calls, astray, lost>>
vars == <<dev, driver, pc, req, todo, ret, usbVars, got, chip, faults, history>>

NoCall == [op |-> "none", start |-> 0, len |-> 0]
NoTransfer == [state |-> "none", block |-> 0, ok |-> TRUE]
Idle == [queued |-> 0, finished |-> 0, error |-> FALSE, count |-> 0]

\* A probed chip: its identification went through dediprog_spi_send_command()
Init ==
  /\ dev \in Devices
  /\ ioMode = (IF dev.modes THEN SINGLE ELSE "unset") /\ devMode = SINGLE
  /\ fastRead = dev.fast
  /\ pc = "idle" /\ req = NoCall /\ todo = <<>> /\ ret = 0
  /\ ring = Idle /\ usb = [s \in Slot |-> NoTransfer] /\ queue = <<>> /\ events = <<>>
  /\ stream = [from |-> 0, sent |-> 0, count |-> 0, right |-> TRUE]
  /\ got = <<>> /\ chip = [a \in Addr |-> "old"]
  /\ faults = 0 /\ calls = 0 /\ astray = FALSE /\ lost = FALSE

Fault == faults < MaxFaults /\ faults' = faults + 1

-----------------------------------------------------------------------------
(* How a range is split (dediprog_spi_read, dediprog_spi_write)            *)

Unsigned(n) == n % 2^Width
Part(kind, start, len) == [kind |-> kind, start |-> start, len |-> len]
Unless(empty, part) == IF empty THEN <<>> ELSE <<part>>

ReadResidue(start, len) == IF start % Block = 0 THEN 0 ELSE Min({len, Block - (start % Block)})

ReadParts(start, len) ==
  LET residue == ReadResidue(start, len)
      bulk    == ((len - residue) \div Block) * Block
      tail    == len - residue - bulk
  IN  Unless(residue = 0, Part("slow", start, residue))
        \o Unless(bulk = 0, Part("bulk_read", start + residue, bulk))
        \o Unless(tail = 0, Part("slow", start + residue + bulk, tail))

\* "Write everything like it was residue", for other page sizes; the bulk write
\* is called in any case
WriteResidue(start, len) ==
  IF dev.page # Page256 THEN len
  ELSE IF start % dev.page = 0 THEN 0 ELSE dev.page - (start % dev.page)

WriteParts(start, len) ==
  LET residue == WriteResidue(start, len)
      bulk    == (Unsigned(len - residue) \div dev.page) * dev.page
      tail    == Unsigned(len - residue - bulk)
  IN  Unless(residue = 0, Part("slow", start, residue))
        \o <<Part("bulk_write", start + residue, bulk)>>
        \o Unless(tail = 0, Part("slow", start + residue + bulk, tail))

\* dediprog_spi_write_chunked()
Chunked(start, len) ==
  LET most == dev.page * MaxBlocks
  IN  FlattenSeq([i \in 1 .. ((len + most - 1) \div most) |->
                    WriteParts(start + (i - 1) * most, Min({len - (i - 1) * most, most}))])

Parts(r) ==
  CASE r.op = "read"  -> ReadParts(r.start, r.len)
    [] r.op = "write" -> Chunked(r.start, r.len)
    [] OTHER          -> <<Part("command", r.start, r.len)>>

Call(r) ==
  /\ pc = "idle" /\ calls < MaxCalls /\ ~lost
  /\ req' = r /\ todo' = Parts(r) /\ ret' = 0 /\ calls' = calls + 1
  /\ got' = [i \in 1 .. r.len |-> NOTHING] /\ chip' = [a \in Addr |-> "old"]
  /\ pc' = "part"
  /\ UNCHANGED <<dev, driver, usbVars, faults, astray, lost>>

-----------------------------------------------------------------------------
(* The parts, one after the other, until one of them fails                 *)

Now == Head(todo)
Count == IF Now.kind = "bulk_read" THEN Now.len \div Block ELSE Now.len \div dev.page

\* What a "Please report a bug" of the bulk functions catches
Unaligned(unit) == Now.start % unit # 0 \/ Now.len % unit # 0
Unsupported ==
  \/ Now.kind = "bulk_read" /\ Unaligned(Block)
  \/ Now.kind = "bulk_write" /\ (dev.page # Page256 \/ Unaligned(dev.page))
  \/ Now.kind \in {"bulk_read", "bulk_write"} /\ Count > MaxBlocks

\* dediprog_slow_read() returns, on success or not, with the fast read back in place
Left == fastRead' = dev.fast
Proceed == todo' = Tail(todo) /\ pc' = "part" /\ UNCHANGED ret
Abort(value) == ret' = value /\ todo' = <<>> /\ pc' = "part"

Finish ==
  /\ pc = "part" /\ todo = <<>> /\ pc' = "idle"
  /\ UNCHANGED <<dev, driver, req, todo, ret, usbVars, got, chip, faults, history>>

\* Mutant: a slow read uses whatever op was chosen for fast reads
OverrideNone(kind) == fastRead
\* "Override fast-read function for a moment"
Override(kind) == IF kind = "slow" /\ req.op = "read" THEN "none" ELSE fastRead

Begin ==
  /\ pc = "part" /\ todo # <<>>
  /\ \/ /\ Unsupported /\ Abort(1) /\ UNCHANGED fastRead
     \/ /\ ~Unsupported /\ Now.kind = "bulk_write" /\ Now.len = 0 /\ Proceed
        /\ UNCHANGED fastRead
     \/ /\ ~Unsupported /\ (Now.kind = "bulk_write" => Now.len # 0)
        /\ fastRead' = Override(Now.kind) /\ pc' = "mode" /\ UNCHANGED <<todo, ret>>
  /\ UNCHANGED <<dev, ioMode, devMode, req, usbVars, got, chip, faults, history>>

\* get_spi_read_op()
ReadOpMode == IF fastRead = "none" THEN SINGLE ELSE fastRead
Wanted == IF Now.kind = "bulk_read" THEN ReadOpMode ELSE SINGLE

\* Old programmers have no modes, and the old protocol's bulk commands set none
SetsMode ==
  /\ dev.modes /\ ioMode # Wanted
  /\ dev.protocol = 1 => Now.kind \in {"slow", "command"}

\* dediprog_set_io_mode(): what is remembered changes only after a success
SetIoMode ==
  /\ pc = "mode"
  /\ \/ ~SetsMode /\ pc' = "command" /\ UNCHANGED <<driver, todo, ret, faults, astray>>
     \/ /\ SetsMode /\ ioMode' = Wanted /\ devMode' = Wanted /\ pc' = "command"
        /\ UNCHANGED <<fastRead, todo, ret, faults, astray>>
     \/ /\ SetsMode /\ Fault /\ Abort(1) /\ Left
        /\ devMode' \in {devMode, Wanted} /\ UNCHANGED ioMode
        /\ astray' = (astray \/ devMode' # devMode)
  /\ UNCHANGED <<dev, req, usbVars, got, chip, calls, lost>>

\* A single access: the chip understands what comes in the mode of the opcode.
\* Only a slow read has an opcode of its own choice.
Understood == devMode = (IF Now.kind = "slow" /\ req.op = "read" THEN ReadOpMode ELSE SINGLE)
Received(at, n, right) ==
  [i \in DOMAIN got |-> IF i - 1 + req.start \in at .. at + n - 1
                        THEN IF right THEN i - 1 + req.start ELSE JUNK ELSE got[i]]
Programmed(at, n) ==
  [a \in Addr |-> IF Understood /\ a \in at .. at + n - 1 THEN "new" ELSE chip[a]]

\* default_spi_read(), default_spi_write_256() or a command of the chip driver
Single ==
  /\ pc = "command" /\ Now.kind \in {"slow", "command"}
  /\ \E n \in 0 .. Now.len :
       /\ IF req.op = "write" THEN chip' = Programmed(Now.start, n) /\ UNCHANGED got
          ELSE got' = Received(Now.start, n, Understood) /\ UNCHANGED chip
       /\ \/ n = Now.len /\ Proceed /\ UNCHANGED faults
          \/ Fault /\ Abort(1)
  /\ Left /\ UNCHANGED <<dev, ioMode, devMode, req, usbVars, history>>

\* The command of a bulk write, and its blocks one by one.  When one fails the
\* programmer is left waiting for the rest.
BulkWrite ==
  /\ pc = "command" /\ Now.kind = "bulk_write"
  /\ \E n \in 0 .. Count :
       /\ chip' = Programmed(Now.start, n * dev.page)
       /\ \/ n = Count /\ Proceed /\ UNCHANGED <<faults, astray>>
          \/ Fault /\ Abort(1) /\ astray' = TRUE
  /\ UNCHANGED <<dev, driver, req, usbVars, got, calls, lost>>

-----------------------------------------------------------------------------
(* The ring of a bulk read (dediprog_spi_bulk_read)                        *)

\* The command; if it fails the programmer may still have got it
ReadCommand ==
  /\ pc = "command" /\ Now.kind = "bulk_read"
  /\ \E taken \in BOOLEAN :
       /\ stream' = IF taken THEN [from |-> Now.start, sent |-> 0, count |-> Count,
                                   right |-> devMode = ReadOpMode] ELSE stream
       /\ \/ /\ taken /\ ring' = [Idle EXCEPT !.count = Count] /\ pc' = "loop"
             /\ UNCHANGED <<todo, ret, faults, astray>>
          \/ /\ taken /\ Fault /\ ring' = [Idle EXCEPT !.count = Count]   \* libusb_alloc_transfer()
             /\ ret' = 1 /\ pc' = "free" /\ UNCHANGED <<todo, astray>>
          \/ /\ Fault /\ Abort(1) /\ astray' = (astray \/ taken) /\ UNCHANGED ring
  /\ UNCHANGED <<dev, driver, req, usb, queue, events, got, chip, calls, lost>>

\* Mutant: one more than there are slots
RoomOneMore == ring.queued - ring.finished <= Slots
Room == ring.queued - ring.finished < Slots
More == ring.queued < ring.count
Next1 == ring.queued % Slots

\* The outer loop looks at the error, the inner one does not
Loop ==
  /\ pc = "loop"
  /\ pc' = (IF ~ring.error /\ More THEN "submit" ELSE "finish")
  /\ UNCHANGED <<dev, driver, req, todo, ret, usbVars, got, chip, faults, history>>

\* Mutant: a transfer that libusb refused is waited for
RefusedCounts == [ring EXCEPT !.queued = @ + 1]
Refused == ring

Submit ==
  /\ pc = "submit"
  /\ \/ /\ More /\ Room
        /\ usb' = [usb EXCEPT ![Next1] = [state |-> "flying", block |-> ring.queued, ok |-> TRUE]]
        /\ queue' = Append(queue, Next1) /\ ring' = [ring EXCEPT !.queued = @ + 1]
        /\ UNCHANGED <<pc, ret, faults>>
     \/ /\ More /\ Room /\ Fault /\ ring' = Refused /\ ret' = 1 /\ pc' = "free"
        /\ UNCHANGED <<usb, queue>>
     \/ /\ ~(More /\ Room) /\ pc' = "poll" /\ UNCHANGED <<usb, queue, ring, ret, faults>>
  /\ UNCHANGED <<dev, driver, req, todo, events, stream, got, chip, history>>

\* What follows a dediprog_bulk_read_poll() that returns 0, and the whole function's
\* end: it polls once more and frees the transfers, whatever poll returns
Pending == ring.finished < ring.queued
Polled(r) ==
  CASE pc = "poll"   -> pc' = "loop" /\ UNCHANGED ret
    [] pc = "finish" -> pc' = "free" /\ ret' = IF r.finished < r.count \/ r.error THEN 1 ELSE 0
Free ==
  /\ usb' = [s \in Slot |-> NoTransfer]
  /\ astray' = (astray \/ Pending \/ stream.sent < stream.count)
  /\ IF ret = 0 THEN Proceed ELSE Abort(ret)

\* Mutant: it does not wait at the end
WaitForNone == pc = "finish"
WaitForAll == pc \in {"finish", "free"}

\* libusb_handle_events_timeout() runs the callbacks of some transfers
HandleEvents ==
  /\ pc \in {"poll", "finish", "free"} /\ Pending /\ events # <<>>
  /\ \E n \in 1 .. Len(events) :
       LET ended == {events[i] : i \in 1 .. n}
           after == [ring EXCEPT !.finished = @ + n,
                                 !.error = @ \/ \E s \in ended : ~usb[s].ok]
       IN  /\ ring' = after /\ events' = SubSeq(events, n + 1, Len(events))
           /\ usb' = [s \in Slot |-> IF s \in ended THEN NoTransfer ELSE usb[s]]
           /\ IF pc = "poll" \/ (pc = "finish" /\ after.finished >= after.queued) THEN Polled(after)
              ELSE UNCHANGED <<pc, ret>>
  /\ UNCHANGED <<dev, driver, req, todo, queue, stream, got, chip, faults, history>>

PollDone ==
  /\ pc \in {"poll", "finish", "free"} /\ (~Pending \/ ~(pc = "poll" \/ WaitForAll))
  /\ IF pc = "free" THEN Free ELSE Polled(ring) /\ UNCHANGED <<usb, todo, astray>>
  /\ UNCHANGED <<dev, driver, req, ring, queue, events, stream, got, chip, faults, calls, lost>>

\* "Polling read events failed": at the end, with transfers still under way
PollFails ==
  /\ pc \in {"poll", "finish", "free"} /\ Pending /\ Fault
  /\ IF pc = "free" THEN Free /\ lost' = TRUE
     ELSE pc' = "free" /\ ret' = 1 /\ UNCHANGED <<usb, todo, astray, lost>>
  /\ UNCHANGED <<dev, driver, req, ring, queue, events, stream, got, chip, calls>>

-----------------------------------------------------------------------------
(* The USB: transfers of one endpoint end in the order of submission       *)

Ends(ok) ==
  /\ usb' = [usb EXCEPT ![Head(queue)] = [@ EXCEPT !.state = "ended", !.ok = ok]]
  /\ queue' = Tail(queue) /\ events' = Append(events, Head(queue))

\* A block lands where the first transfer points to, whichever block that was
\* meant to be
Lands ==
  LET to == Now.start + usb[Head(queue)].block * Block
  IN  [i \in DOMAIN got |->
         LET off == req.start + i - 1 - to IN
         IF off \in 0 .. Block - 1
         THEN IF stream.right THEN stream.from + stream.sent * Block + off ELSE JUNK
         ELSE got[i]]

Arrives ==
  /\ queue # <<>> /\ stream.sent < stream.count /\ ~lost
  /\ got' = Lands /\ stream' = [stream EXCEPT !.sent = @ + 1] /\ Ends(TRUE)
  /\ UNCHANGED <<dev, driver, pc, req, todo, ret, ring, chip, faults, history>>

\* An error, a timeout, or a block that is too short (LIBUSB_TRANSFER_SHORT_NOT_OK);
\* a block may get lost with it.  When nothing is left to come the rest times out.
Breaks ==
  /\ queue # <<>> /\ ~lost
  /\ \/ Fault /\ \E n \in {0, 1} : /\ stream.sent + n <= stream.count
                                   /\ stream' = [stream EXCEPT !.sent = @ + n]
     \/ stream.sent = stream.count /\ UNCHANGED <<stream, faults>>
  /\ Ends(FALSE)
  /\ UNCHANGED <<dev, driver, pc, req, todo, ret, ring, got, chip, history>>

-----------------------------------------------------------------------------

Driver == Finish \/ Begin \/ SetIoMode \/ Single \/ BulkWrite \/ ReadCommand \/ Loop \/ Submit
            \/ HandleEvents \/ PollDone \/ PollFails
Device == Arrives \/ Breaks

Next == (\E r \in Requests : Call(r)) \/ Driver \/ Device
Spec == Init /\ [][Next]_vars
\* The driver runs unless it waits for an event; every transfer ends, at the
\* latest with its timeout
FairSpec == Spec /\ WF_vars(Driver) /\ WF_vars(Device)

-----------------------------------------------------------------------------
(* What the driver promises                                                *)

PCs == {"idle", "part", "mode", "command", "loop", "submit", "poll", "finish", "free"}

\* Every variable keeps its type.  No slot of the ring is used twice at a time:
\* what libusb holds or has ended is what the driver counts as under way.
TypeOK ==
  /\ pc \in PCs /\ ret \in {0, 1}
  /\ \A i \in DOMAIN todo : todo[i].start \in Nat /\ todo[i].len \in Nat
  /\ ~lost => /\ \A s \in Slot : usb[s].state = "flying" <=> s \in ToSet(queue)
              /\ Len(queue) + Len(events) = ring.queued - ring.finished
  /\ IsInjective(queue \o events)
  /\ stream.sent <= stream.count

\* A call programs nothing outside of the range that it was asked to write
InRange == \A a \in Addr : chip[a] # "old" => req.op = "write" /\ a - req.start \in 0 .. req.len - 1

\* No call programs a cell outside of its range ("only read/write image <region> from
\* layout", cli_classic.c), whatever fails.  As long as programmer and driver agree, one that
\* returns 0 has done what it was asked to: every byte of a read comes from its own address, in
\* the mode its opcode needs, however the read was split; a write has programmed every byte of
\* its range.  All give back the fast read operation.
Done ==
  pc = "idle" =>
    /\ InRange
    /\ ~astray =>
         /\ ret = 0 /\ req.op \in {"read", "command"} =>
              \A i \in DOMAIN got : got[i] = req.start + i - 1
         /\ ret = 0 /\ req.op = "write" => \A a \in req.start .. req.start + req.len - 1 : chip[a] = "new"
         /\ fastRead = dev.fast

\* When a call returns libusb holds no transfer of it any more: the callback would
\* count in a stack frame that is gone.  Only an event loop that fails at the very
\* end can leave some.
NothingInFlight == pc = "idle" /\ ~lost => queue = <<>> /\ events = <<>>

\* Every call returns
Returns == pc # "idle" ~> pc = "idle"

\* "Write everything like it was residue", for chips with other page sizes than 256
\* bytes, and "@return 0 on success, 1 on failure" (dediprog.c): a write that
\* nothing went wrong with returns 0
WritesSucceed == pc = "idle" /\ req.op = "write" /\ faults = 0 => ret = 0

=============================================================================
