# flashprog in TLA+

flashprog detects, reads, writes, verifies and erases flash chips, through
many kinds of programmers. These modules model the parts of it where a
mistake costs the contents of a chip, takes one chip for another or leaves
hardware behind in a state nobody wanted: the update of an image on a chip that
may fail at any moment, the commands and modes of SPI chips, block protection,
identification against the whole chip database, the drivers that run ahead of
their programmer, and what every driver acquires and gives back. TLC checks them
on small instances; TLAPS proves what matters most for every chip, layout, image,
access and number of faults.

    tlc -workers 2 -config FlashUpdatePages.cfg MCFlashUpdate
    tlapm FlashUpdateProofs.tla

`PROJECT.json` lists components, runs, theorems and hazards, and maps every
definition to the source lines it stands for.

## 1. The system

| Part | State it keeps | Operations | What makes it hard |
|---|---|---|---|
| image operations, `flashprog.c` | the buffers `curcontents`, `oldcontents`, `newcontents`, `backup_contents`; the selected erase blocks; `all_skipped`; the chip's restore functions | `flashprog_flash_erase`, `_image_read`, `_image_write`, `_image_verify` | erase blocks larger than a region, nested erasers, a mirror of the chip that has to be kept up to date, chip calls that fail half way |
| layouts, `layout.c` | a list of regions, included or not | iteration, sanity checks | regions that overlap, share erase blocks, are unordered or unaligned |
| SPI commands and modes, `spi25.c`, `spi25_prepare.c`, `spi.c` | 4-byte address mode, QPI, quad-enable bit, extended address register, on both sides | prepare, read, program, erase, finish | chip and host must agree; a command in the wrong mode is another command; ranges are cut at pages, banks and the master's limits |
| status registers, `spi25_statusreg.c` | the chip's registers, WIP | read, write, unlock, restore | writes one register and writes another back; timeouts |
| write protection, `writeprotect*.c` | bits spread over several status registers | read and write range and mode | not atomic, partly written when it fails |
| chip database, `flashchips.c` | 694 entries | none | the rest of the program relies on what it says |
| identification, `libflashprog/chips.c`, `libflashprog.c` | IDs found, matches, the voltage of a programmer | probing without and with a name | many probes in an order of priorities, several buses, IDs that are shared or not read |
| serprog driver, `serprog.c`, `serial.c` | write-n buffer, account of the programmer's operation buffer, count of the answers owed | byte writes and reads, delays, SPI commands, shutdown | three buffers between a call and its effect; streaming; answers that come late |
| CH341A driver, `ch341a_spi.c` | one OUT and 32 IN transfers, their states on the stack of `usb_transfer`, two ring indices | `usb_transfer` with callbacks and cancellation | transfers that end at any moment, callbacks that write to a stack frame |
| Dediprog driver, `dediprog.c` | a ring of bulk transfers counted on the stack, the programmer's I/O mode | reads and writes of any range, commands | as above; ranges split into what the firmware can do and a residue |
| lifecycle, `programmer.c`, `libflashprog.c` | registered masters, shutdown functions | init, registration, shutdown | tables of fixed size, cleanup in reverse order, error paths |
| drivers, some forty files | memory, mappings, descriptors, USB handles, privileges, changed registers; some static pointers | init, shutdown | an error path per acquisition, sessions that follow each other |
| everything else | SFDP, command sequences of parallel chips, boards and chipsets, command line, files | | parsers, or register sequences of particular hardware |

They interact by plain calls: the command line initialises a programmer, which
registers its masters, probes for a chip on them, prepares a context (`flash`,
layout, flags) and calls an image operation; that reads, erases and programs
through function pointers of the chip (`spi25.c`, `jedec.c`, ...), which send
commands through the master that the programmer driver registered. There is one
thread. Concurrency is on the other side of the drivers: a programmer that works
through its queue, USB transfers that end in any order with libusb's callbacks,
and a chip whose cells change while a call runs, or do not.

What each part has to guarantee:

* an image operation changes nothing it was not asked to change, programs only
  what is ready to be programmed, reports success only when the image is there,
  gives back the protection that it lifted through the status register, and ends;
* chip and host agree on addressing and I/O mode at every command, and an access
  that reports success is done, wherever it was cut;
* protection is what was asked for or what it was before, also after an error;
* a chip that is connected is found, and nothing is taken for a chip it is not;
  its voltage is one that the chip stands;
* the serprog driver makes the chip see the calls in their order, reads see the
  writes before them, and every answer is taken by the command it belongs to;
* a USB transfer returns its own answer, in order, and leaves no callback behind;
* what an init function acquired or changed is given back once, in reverse order,
  however it ends.

## 2. Modules

    FlashImage         what the image operations promise, abstractly
    FlashUpdate        image operations, layouts and a flash chip; implements FlashImage
      MCFlashUpdate    chips, layouts, images and calls for TLC
      FlashUpdateProofs
                       types, selection, locks; writes and the refinement of FlashImage
    SpiNor             SPI commands, address and I/O modes, and a chip that obeys them
      MCSpiNor         chips, masters and accesses for TLC
      SpiNorProofs     how an access is cut; the invariants
    WriteProtect       ranges and modes, unlocking, status registers, a chip
      MCWriteProtect   chips and calls for TLC
      WriteProtectProofs
    Serprog            driver, serial line, programmer
      MCSerprog        programmers and calls for TLC
      SerprogProofs
    Ch341aUsb          usb_transfer, libusb, device
      MCCh341aUsb      calls for TLC
      Ch341aUsbProofs
    Dediprog           reads and writes of any range, libusb, the programmer
      MCDediprog       programmers, chips and calls for TLC
      DediprogProofs
    FlashChip          what an entry of the chip database is
      FlashChipsAmd, ...GigaDevice, ...Mosel, ...Winbond, FlashChips
                       the 694 entries
    Probing            identification of a chip, matched against FlashChips
      MCProbing        what is connected to which buses, for TLC
      ProbingProofs
    DriverSteps        what init and shutdown functions are made of
      PciDrivers, UsbDrivers, SystemDrivers
                       those of 41 drivers
    Lifecycle          programmer_init() and programmer_shutdown() running them
      MCLifecycle
    SequenceLemmas     sequences that are put together, and division, for the proofs

FlashUpdate has of SpiNor and WriteProtect only what an image operation sees of
them: a chip call works or goes wrong, the protection is in effect or not. The
conditions under which Probing finds a chip's erasers nested are the assumptions
FlashUpdate is proved from.

The MC modules only extend the module they are for and name the values of its
constants; a `.cfg` file asks one question of one instance. The modules contain no
RECURSIVE operators, so that they can be proved about.

Some definitions whose names extend that of another (`GranulesShort` next to
`Granules`) are marked `Mutant` in a comment: the other definition with a
plausible mistake, which some property has to notice. No specification uses them.

### FlashUpdate

A byte is a set of bits and erased when all are set, so programming is
intersection. Offsets are numbers. Constants describe the chip (`Size`,
granularity, nested erasers with their blocks) and the calls. Two assumptions are
about every chip: an eraser tiles the chip (`selfcheck_eraseblocks` in
`flashprog.c`), and the blocks of one eraser are unions of blocks of the one
before (`NestingAssumption`). The second is how `init_eraseblock` builds its tree
but is checked nowhere in the code; `DatabaseAssumption` of Probing, which TLC
evaluates over the transcribed database, says that all entries satisfy both.

| Variables | In the code |
|---|---|
| `flash`, `prot` | the chip: cells, and whether its protection ignores erases and writes |
| `saved` | `flash->chip_restore_fn_count > 0` |
| `cur`, `old`, `new`, `backup` | `curcontents`, `oldcontents`, `newcontents`, `backup_contents` |
| `selected`, `layer` | `eraseblock_data.selected`, and how far `select_erase_functions_rec` has come back up |
| `region`, `blk`, `pos` | the loops of `walk_by_layout`, `walk_eraseblocks` and `write_range` |
| `skipped`, `ret` | `all_skipped`, return value |
| `before`, `faults`, `calls` | history and bounds |

| Actions | In the code |
|---|---|
| `Call`, `Refuse`, `Prepare`, `Unlock`, `Finalize` | entry, refusals, `prepare_flash_access`, `chip.unlock`, `finalize_flash_access` |
| `AssumeReference`, `ReadWhole`, `ReadRegion` | the three ways a write learns the old contents; `read_by_layout` |
| `NextRegion`, `SelectLeaves`, `Promote` | `walk_by_layout`; `select_erase_functions_rec` from the smallest blocks to the largest |
| `NextBlock`, `EraseBlock`, `CheckErased`, `RestoreBlock` | `walk_eraseblocks`, `erase_block`, `check_erased_range`, writing the backup back |
| `WriteRegion` | one round of `write_range` |
| `Diagnose`, `StartVerify`, `VerifyRegion` | emergency look after a failure, `combine_image_by_layout`, `verify_by_layout` |

A chip call does its job or goes wrong. When it goes wrong any part of the job
is done, and it may or may not say so. So one fault stands for an I/O error, a
lost write, a torn erase and a write that reports failure after all of it was
done. A protected chip ignores erases and programs silently. Of the functions that
lift a protection only `spi_disable_blockprotect_generic` registers a restore function;
the constant `Restorable` says whether the chip has one of those that call it, or another,
after which it stays unlocked. `prot` is a protection that the chip's function knows how
to lift; one it has no function for is a chip that ignores everything. `malloc` may fail,
and fresh buffers hold anything, the same everywhere in one buffer.

### Serprog

A call is an agenda (`todo`) of steps, each with the depth of the function it
belongs to. An error at some depth drops the steps that are at least as deep and
goes on with the others, as the code's `return 1` does where callers ignore or
pass on a result. Steps: `StepPass` (`sp_pass_writen`), `StepSend`
(`sp_stream_buffer_op`), `StepFlush` (`sp_flush_stream`), `StepCheck` and
`StepCount` (the account of the operation buffer), `StepTell` and `StepAnswer`
(`sp_docommand`), and the small ones. The programmer takes commands from the
line, queues, executes or answers them, and refuses what its operation buffer
cannot hold. It is not part of the repository and is modelled from
`Documentation/serprog-protocol.txt` only as far as the driver relies on it.

### Ch341aUsb

`pc` walks through `usb_transfer`: submit OUT, submit IN transfers while there is
work and a free slot, handle events, collect, or cancel and wait. `usb` is
libusb's view of each transfer, `state` the integers that the callbacks write.
A transfer ends by completing, failing, timing out or being cancelled, and a
completion may overtake its cancellation. Callbacks run only in
`libusb_handle_events_timeout`, for any number of the ended transfers.
Two things are nondeterministic because the C code leaves them so: when the OUT
submission fails, the jump to `err:` skips the initialisation of `state_in`, which
then holds anything; and the callback of a transfer that could not be cancelled
writes into the stack of whatever call runs then, which may be the place of the
same variable or not.

### WriteProtect

The other side of `saved` in FlashUpdate: how a chip's protection is set, lifted
and given back. A register's contents are the set of its bits that are 1, and a chip
is what the database says of it: where its protection bits are and which of them can
be written, how a range is decoded, which registers are written together, which
masks its unlock function uses. The five chips of `MCWriteProtect` differ in these.

| Actions | In the code |
|---|---|
| `Call` | `spi_wp_write_cfg`, `spi_wp_read_cfg`, the unlock in `prepare_flash_access` |
| `ReadBit` | `read_wp_bits`, which reads the register again for every bit |
| `SetRange`, `SetMode` | `set_wp_range`, `set_wp_mode` |
| `Compare`, `StartVerify`, `Verify` | the two loops of `write_wp_bits` |
| `Writeback`, `Command`, `Poll` | `spi_prepare_wrsr_ext`, the commands and the WIP polling of `spi_write_register` |
| `ReadStatus`, `Recheck`, `Restore` | `spi_disable_blockprotect_generic`, `spi_restore_status` |
| `Settle` | the chip: a write in progress takes effect |

`DecodeRange` is `decode_range_generic` in units of 4 KiB; `WithRange` is the search
with its sorting. A write takes effect at some moment after its command; a chip that
is busy, or whose registers are locked (SRL, or SRP with WP# asserted), ignores it. A
command may get lost, fail, fail after it has been carried out, or polling may give up
while the write goes on. Power is never cycled, so that volatile writes are no
different from others once they are sent.

### FlashImage

The four operations as their callers know them: `Begin`, then `Work`, which may
change any cell near the included regions if the operation is an erase or a write
and none otherwise, then `Finish` with a return value that has to be true of the
chip. `FlashUpdate!Image` instantiates it: the chip is `flash`, a running operation is
any `pc` between `Call` and `done`, the call is the layout's cells and the smallest erase
blocks around them. `ImplementsImage` is checked with faults. A return value of 0
promises the image only if the write was verified; with a reference file that is
wrong it promises it only if something was changed.

### SpiNor

The chip (`nor`) has an address mode, an extended address register, an I/O mode, a
quad-enable bit, a write enable latch and, while it is busy, deaf ears. The host
(`host`) has its own idea of the first four. `Encoded` is `spi_prepare_address`: how many
address bytes are sent and what they hold; `Understands` is the chip taking a command
the way it was meant. A command that it takes for another one sets `garbled`. A
command may fail without an effect, or be carried out and reported as failed; if the
latter changes a mode the two sides cannot know of each other any more (`astray`). `spoilt`
records that one of the commands failed that set and check the quad-enable bit or give the
modes back (`Delicate`), in this session.

| Actions | In the code |
|---|---|
| `Open`, `Entered` | `spi_prepare_4ba` and its three ways into four-byte addressing |
| `PrepareQuad`, `QeRead`, `QeWritten`, `QpiEntered`, `Select`, `QpiLeft` | `spi_prepare_quad_io`, `spi_enter_qpi`, `select_spi_fast_read` |
| `Call`, `NextPiece`, `EarWritten`, `Sent`, `Poll` | `spi_chip_read`, `_write_256`, `_write_aai` and the erase functions with all their cutting; `spi_set_extended_address`; `spi_write_cmd`; `spi_poll_wip` |
| `Release`, `FinishQpi`, `QeRestored`, `Finished` | `spi_finish_io` |
| `Send`, `Settle` | one command of a multicommand reaches the chip; a write or erase ends |

`Pieces` is the arithmetic of the cuts: banks of 16 MiB, then pages, then the master's
limits, and words for AAI.

### Dediprog

`Parts` is how `dediprog_spi_read` and `_write` split a range; a part is a bulk
transfer or a sequence of commands. The ring of `dediprog_spi_bulk_read` is `Loop`,
`Submit`, `HandleEvents`, `PollDone`, `PollFails` and `Free`; libusb and the programmer
are `Arrives` and `Breaks`, in any order with the driver. `SetIoMode` is
`dediprog_set_io_mode` with its cache: `ioMode` is the driver's, `devMode` the programmer's.
Bytes are the addresses they come from. Lengths are unsigned and wrap at `2^Width`.

### FlashChip, FlashChips, Probing

FlashChips holds every entry of `flashchips.c` as a record: bus, ID, sizes, the
features that probes look at, timing, voltages, and the runs of blocks of every eraser.
It is in the source's order, on which matching depends.

| Actions | In the code |
|---|---|
| `Call`, `Return` | `flashprog_flash_probe` |
| `SkipBus`, `AssumeThere`, `EnterBus`, `MatchNamed` | `flashprog_chip_probe`, with adapting the voltage (`Adapt`) |
| `RunProbe`, `NextPriority` | `flashprog_bus_probe` |
| `MatchAny`, `Count` | `flashprog_chips_probe_bus`, `flashprog_flash_probe_any` |
| `PrepareContext`, `PrepareAccess` | `flashprog_flash_prepare_context` |

`SpiIds` and `MemoryIds` are what the probe functions make of a chip's answers:
`probe_jedec` goes through fixed sets of size, reset, address mask and timing
(`CommonSets`, `AdditionalSets`), since without a name it cannot know how to ask, and a
chip answers to a set that fits its entry. `Wired` says what may be connected to a bus: a chip
of the database, which answers with its ID, and if that is one of RDID or REMS to one-byte RES with
anything; or a chip that the database lacks.

### DriverSteps, the drivers, Lifecycle

A driver's init function is a sequence of steps: take a resource, ask for something,
change a register, register a shutdown function or a master, and what to do before
returning if the step fails. `Either` stands for a branch. A resource is anything to be
given back, the former contents of a register included. `via` names the resources a step
needs: a mapped register is restored via its mapping, a PCI register via the
library's context, a USB device is closed before the context it was opened in.
What a driver does with a parameter or an answer besides accepting or refusing it is
left out, so that an init function of three hundred lines has six steps.

Lifecycle executes them. `StepFails` may happen at every step that can fail;
`RegisterShutdown` and `RegisterMaster` know the sizes of their tables and go through
the caller's error path when one is full (which `NothingRefused` shows never to
happen); `CallShutdownFunction` takes the last function first. A function that gives up
half way drops the rest of its steps, also during the shutdown. Sessions are not
counted: only static pointers survive one (`Static`), so that the state is finite.

## 3. Runs

| Run | Instance | Distinct states | Shows |
|---|---|---|---|
| `update_pages` | 16 bytes, pages of 2, two bits, erasers of 4, 8, 16; nine layouts, three contents, two images, all flags, reference files right and wrong; no faults | 90 096 | blocks chosen for erasing are disjoint, regions are ready when they are programmed, the result is right, the rest is preserved |
| `update_faults` | 6 bytes, bit granularity, erasers of 2 and 6; three layouts; two operations in a row, two faults anywhere; a chip unlocked through its status register (`Restorable`, which the other two instances of FlashUpdate are not) | 337 285 | types, touched cells, protection given back, FlashImage implemented, every operation returns |
| `spi_nor` | twelve pairs of chip and master, from a small AAI part to a 32 MiB one with QPI; nine accesses at and over bank and page boundaries; two sessions with two accesses each, two faults | 830 843 | every command finds the chip in the mode it was made for, an access that returns 0 is done and none leaves its range, the chip is given back in its modes whichever accesses failed, everything returns |
| `write_protect` | five chips: 2 or 3 BP bits in one to three registers, each kind of range decoding, OTP bits, a WPS bit, two registers in one command, a lock that has to be cleared first; WP# asserted or not; two calls out of nine, two faults | 215 709 | success means that range and mode are in effect; a range is locked only when it is the one asked for; no other bit changes; unlocking tells the truth and is undone |
| `serprog_order` | five calls; one programmer with write-n, an operation buffer of 16 and a serial buffer of 2 bytes, one without write-n, 13 and 6 | 260 925 | order, reads, shutdown, answers, the account of the operation buffer, every call returns |
| `ch341a_ring` | two calls of three kinds, ring of two, packets of two bytes, an answer that takes three transfers, two faults, short transfers included | 84 533 | data complete and in order, nothing past the buffer, nothing in flight after an error, every call returns unless stranded by a short transfer |
| `dediprog_ring` | three kinds of programmers; reads and writes at every alignment, ring of two, blocks and pages of two bytes, three calls, two faults | 49 209 | every byte comes from its own address in the mode its opcode needs, writes stay in their range, nothing in flight, every call returns |
| `probing` | every chip of the database alone, on slow and eager memory buses, without and with its name; chips with several and with unlisted IDs; two buses; USB-8451 and -8452 with a chip of every range of voltages, two probes, two faults | 350 893 | a connected chip is found, nothing is taken for a chip with another ID, the voltage fits the chip unless it could not be set |
| `lifecycle` | 41 drivers, any number of sessions in any order, every step failing wherever it may | 10 822 | resources are used only while they are there, nothing but what is listed is left behind, no table runs full |
| `update_small_blocks` | erase blocks of half a write granule | violation | see findings |
| `dediprog_pages` | a chip with pages of 512 bytes | violation | see findings |
| `probing_all` | every memory chip, those without a reset sequence included | violation | see findings |

Bounds. Three levels of erasers are the smallest number with a block that is
neither smallest nor largest. Layouts were chosen for the cases that matter:
unaligned at either end, inside one block, spanning several, sharing a block with
another region, overlapping, out of order, leaving the chip. Two bits per
byte give a value between erased and programmed. Two faults allow one in the
operation and one in the recovery. `MaxCalls` is above one where state survives a
call: restore functions, protection and `all_skipped`, the serprog buffers, stale USB
transfers, a status register write that is still going on, modes of a SPI chip and of
the Dediprog, the voltage. The buffers of Serprog are so small that flow control and the
operation buffer are reached within five calls. The rings have two slots so that three
transfers wrap around. In SpiNor a bank is four cells and the largest chip has two, so
that an access can cross a bank, a page and the master's limit at once. Probing and
Lifecycle have no smaller instance: they run over the real database and the real
drivers. The proofs are for every size.

Deadlock is not checked (`CHECK_DEADLOCK FALSE`) where a behaviour ends when its calls
are used up; a serprog driver that waits for an answer that never comes is a
matter of `CallsReturn`. Lifecycle goes on for ever, and is checked.

Fairness. `FairSpec` has weak fairness of the program (`Step`, `Driver`, `Program`): a
single thread that is always scheduled, whose chip calls all return. The programmer is
fair because it works through its line; a USB device because every transfer has
a timeout; a chip (`Settle`) because its writes and erases end, which
`spi_poll_wip` relies on, having no timeout of its own. Nothing is assumed of when a
call is made, nor of faults.

Conditions in the properties. `faults = 0` stands where the code can promise
nothing after a fault. `TrueRef` excludes a wrong reference file, which the user
vouches for. `naks = 0` excludes a programmer that refused an operation: the
driver's count is off from then on. `~failed` in `Filled`: after an
error the device may still send parts of an old answer, and the driver does not
flush them. `~lost`: a transfer could not be cancelled, or libusb's event loop failed at
the very end. `~abandoned`: the driver gave up a status register write that still went
on, so that reads before and after its end differ; the call in which that happens
fails, the next one may be misled. `~astray`: a request that changes a mode was carried
out although it was reported as failed, or the other way round; neither side can know.
`~spoilt`: setting or checking the quad-enable bit, or the way back, failed, and the code
does not try again; each of the six places in `Delicate` is needed, for without it TLC finds
`GivenBack` violated. `Restorable`: the chip's unlock function registers a restore function.
`ctx.bus \notin unset`: the last setting of the voltage did not fail. Here the driver does
know, but keeps the value it noted before (`ni845x_spi.c:293-299`), so that a later probe
may find nothing to change.

`OnlyHeld` and `LeftAsFound` name the drivers that do not have them. The lists are as
short as they can be (each name in them occurs in some behaviour); they are the
result of the run rather than an assumption of it:

| Driver | Uses or leaves |
|---|---|
| nicintel_spi, nicintel_eeprom | test a failed mapping for NULL, while it is `ERROR_PTR`: they go on with no mapping; nicintel_spi leaves EECD changed if the card does not confirm |
| developerbox | leaves libusb although the shutdown function it has registered will do so too |
| serprog | frees the write-n buffer of an earlier session again, if the new one does not get to ask for write-n or need not; the line stays open when a host is given besides the device; pins stay driven if the programmer does not answer at shutdown |
| ni845x_spi | keeps handles that are closed; a device may be open that the library reports as failed |
| jlink_spi, pickit2_spi, dediprog | leave power or voltages on when something fails later |
| digilent_spi | leaves the board in reset if a step after that fails; never leaves libusb |
| ch341a_spi, ch347_spi | do not leave libusb on some error paths; ch347 never frees its configuration descriptor |
| buspirate_spi | keeps the line open without memory for its data; left in SPI mode if it does not answer |
| mstarddc_spi | keeps the file open if the chip does not answer; may leave it in ISP mode by wish |
| ft2232_spi, usbblaster_spi | never undo `ftdi_init`; usbblaster has no shutdown function at all |
| atavia, atapromise, nic3com | leave one register as they set it |

### Findings

* `EraseBeforeProgram` on small blocks: `need_erase` looks at whole granules, so a
  block smaller than a granule never needs an erase. One chip of the database has
  such blocks (SST28SF040A).
* `WritesSucceed`: a Dediprog write to a chip whose pages are not 256 bytes long is done
  as residue and followed by a bulk write of nothing, which fails on the page size.
* `Found` without a name: three chips of the database have no reset sequence, and all
  sets of parameters that a probe for all chips tries have one; such a chip is found by
  its name only.

Behaviour worth knowing that contradicts no documentation, or only a remark in it:

* image operations: a chip whose unlock function does not go through the status register
  (`spi_disable_blockprotect_sst26_global_unprotect`, that of the AT45DB chips, the
  `unlock_regspace2_*` functions, `unlock_sst_fwhub`, `unlock_28f004s5`, `unlock_lh28f008bjt`,
  `unprotect_28sf040`) stays unlocked after the operation, since nothing is registered
  that would protect it again; a write with a wrong reference file may be skipped, is not verified
  then, and returns 0; the result of unlocking is ignored, and the operation is tried on
  a chip that is still locked; a failed write returns 2 (failed, contents changed) also
  when nothing was changed yet, although 3 is documented for that;
* serprog: after a NAK `sp_flush_stream` does not count the answer it has read; the
  stream is flushed only when the bytes in it reach the new command's length plus the
  serial buffer; after a failed `sp_pass_writen` a full write-n buffer grows past the
  maximum with the next byte;
* CH341A: a short IN transfer leaves its missing bytes in `in_active`; nothing is
  submitted for them and the loop never ends (`Stranded`);
* write protection: an empty range that does not start at 0 is refused, although the
  manual page says any will do; a mode that is not supported is refused after the new
  range has been written, and the range stays;
* SPI: the remaining byte of an AAI write is a write of no byte, and unreachable;
  after a failed AAI word WRDI is sent without waiting for WIP; a chip is left in
  four-byte mode when it is released; an extended address register written but reported
  as failed makes the cache stale; QPI entered but reported as failed is never left; a
  quad-enable bit that was set but cannot be read again stays set;
  the next write after an abandoned poll is ignored by the chip and reported as done;
* Dediprog: features found in one session persist in the next; a write that starts within
  a page of 256 bytes and ends before the page does goes on to the page's end, since the residue
  is not limited to the length as it is in a read (`dediprog.c:771` and `:662`), and is then
  reported as failed. Among the chips with such pages only the 25LC1024 is written in
  smaller pieces; for it "only read/write image <region> from layout" (`cli_classic.c:69`) does
  not hold. `tlc -config DediprogEeprom.cfg MCDediprog` shows it: `Done` is
  violated (the instance is not one of the runs above);
* probing: a voltage that the USB-8452 fails to set is taken for set from then on, so that
  the next probe may hand out a chip that is operated below or above its limits, although
  the driver documents the value as "the IO voltage which was set in mVolts"
  (`ni845x_spi.c:220`). `tlc -config ProbingVoltage.cfg MCProbing` shows it:
  `VoltageAlwaysFits` is violated (the instance is not one of the runs above). W39V040B and W39V040FB, and their C versions, are found together because the bus
  type is not compared; a continuation vendor with only three ID bytes gives a model of one
  byte; a failing RDID lets a one-byte ID through; chips without a voltage in the
  database are refused by ni845x; "higher or equal" voltage is strictly higher;
* lifecycle: `flashprog_programmer_shutdown` does not free the parameters, and nothing at all
  if a shutdown function fails.

## 4. Proofs

A theorem holds for every value of the constants that the assumptions allow: every
size of chip, page, bank, block, packet and ring, any number of calls and faults.
Each proof has the same outline: an inductive invariant (`IInv` or `Inv`) of named parts, one
lemma per action (and under it one step per part that the action can disturb), and at
the end `Init => IInv`, `IInv /\ [Next]_vars => IInv'` and what is concluded from it.
The parts were tried with TLC on the runs' instances before they were proved.

| Module | Theorem | Property |
|---|---|---|
| FlashUpdateProofs | `TypeCorrect` | `TypeOK`: the return value is one of 0 to 4 |
| | `SelectionIsDisjoint` | `SelectionDisjoint`: blocks chosen for erasing never overlap |
| | `OnlyTouched` | `TouchedOnly`: whatever fails, nothing changes that shares no smallest block with an included region |
| | `LocksAreRestored` | `LocksRestored`: a protection lifted through the status register is given back on every way out; no chip ends up protected that was not |
| | `OutsideIsPreserved` | `OutsidePreserved`: what shares an erase block with a region survives |
| | `ErasedBeforeProgrammed` | `EraseBeforeProgram`: nothing is programmed that is not ready for it |
| | `WritesAreCorrect` | `WriteCorrect`: a write that returns 0 has written the image |
| | `OperationsImplementImage` | `ImplementsImage`: the refinement of FlashImage, with all faults |
| SpiNorProofs | `TypesCorrect` | `TypeOK` |
| | `CommandsAreUnderstood` | `Understood`: each command finds the chip in the modes it was made for |
| | `ChipIsGivenBack` | `GivenBack`: quad-enable bit and QPI mode as found, whichever accesses failed |
| | `AccessesAreDone` | `Done`: a read returns the chip's bytes, a write or erase has done its range and only that |
| WriteProtectProofs | `TypesCorrect` | `TypeOK` |
| | `OnlyItsBusiness` | `OnlyMeant` (action property): no bit changes that is not the running call's business |
| | `SuccessIsApplied` | `Applied`: success means that range and mode are in effect |
| | `LocksLast` | `LockLast` (action property): a register gets locked only with the range that was asked for |
| | `UnlockingTells` | `UnlockTells`: unlocking tells the truth and is undone |
| SerprogProofs | `TypesCorrect` | `TypeOK`: a write-n stays within its maximum, what is streamed within the flow control |
| | `OrderIsKept` | `InOrder`: the chip sees what the calls ask for, in their order |
| | `ReadsAreLatest` | `ReadsLatest`: a read returns what the calls before it have written |
| | `NothingIsLeft` | `NothingLeft`: after the shutdown everything has been done and nothing is under way |
| | `AccountsAgree` | `InStep`: the driver's counts are the answers to come and the bytes in the operation buffer |
| Ch341aUsbProofs | `TypesCorrect` | `TypeOK` |
| | `NothingStaysInFlight` | `NothingInFlight`: no transfer outlives its call |
| | `BufferFilledInOrder` | `Filled`: a call that returns 0 has its own answer, in order, and nothing past the buffer |
| DediprogProofs | `TypesCorrect` | `TypeOK`: the slots in use are the transfers that are counted, none twice |
| | `NothingStaysInFlight` | `NothingInFlight`: no bulk read leaves a transfer or a callback behind |
| | `RangesAreDone` | `Done`: a call that returns 0 has done its range, however it was split; no write leaves it |
| ProbingProofs | `TypesCorrect` | `TypeOK` |
| | `WithinLimits` | `VoltageFits`: a chip is operated within its limits, if the last setting of the voltage succeeded |
| | `NothingMistaken` | `Genuine`: nothing is taken for a chip with another ID; a generic entry is alone, or was named |
| | `ListedIsFound` | `Found`: a chip of the database that is connected is found, by a probe for all and by its name |

### Image operations

`ChipAssumption`, `EraserAssumption` and `NestingAssumption` are the assumptions; that the
real database meets the latter two is evaluated by TLC (`DatabaseAssumption`). A granule of
more than one byte is always one that is programmed as a whole, as in
`enum write_granularity`.

* `TypeInv` adds to `TypeOK` that while the program works on a region, `region` is an
  included entry of the layout. `SelInv`: selected blocks belong to the layers already
  decided on; a block that is promoted takes out all it contains, and two blocks that
  overlap are nested (`OverlapIsInside`). `TouchInv`: blocks and write positions stay within
  what the included regions touch. `LockInv` relates `prot`, `saved` and the protection at the
  start at each `pc`: neither is true of a chip that was not protected, and without a fault
  `saved` remembers what was lifted if the chip is `Restorable`.
* The write. `Kept(a)` is what a cell is going to hold when the block in progress is
  restored. `KeptInv`: outside the layout that is what it held before. `TreatedInv`: in
  regions behind us it is the image. `MirrorInv`: a page of the mirror is that of the chip,
  or the chip's holds the image already, which is why a mirror that lags behind does no harm.
  `ReadyInv`: what cannot be programmed as it is lies in a selected block. `ProgramInv`: in front
  of the write position is the image, behind it are pages that are ready. This is where
  alignment is needed: `ErasedBeforeProgrammed` and the two theorems beside it have the
  hypothesis `BlocksAligned`, that blocks consist of whole granules. Nothing in the code checks
  it, one chip of the database does not meet it (SST28SF040A), and `update_small_blocks` shows
  what happens then.
* The refinement does without `BlocksAligned`, since FlashImage promises something of a write only
  if it was verified. `EraseInv` does for an explicit erase what `TreatedInv` does for a
  write, under faults: a region behind us is erased and stays so when its neighbour's
  block is erased and restored, torn or not. `VerifyInv` says what has been compared so far,
  `SkipInv` that `all_skipped` is true only while nothing has changed. Each action is then shown
  to be a `Begin`, `Work` or `Finish`, or a stutter. The attempt showed that FlashImage
  was too strict in one point, which no run had reached: the return value
  of an operation is set while it still works, not when it ends.

### SPI commands

`SpiAssumption` says of the devices what the database and the masters guarantee: sizes are
fractions or multiples of a bank and within the reach of the extended address register; a
chip that knows four address bytes can enter that mode; erasers and AAI writes come with
aligned addresses.

`IInv` has what the program knows at each `pc`: `Ordered` (the commands that are left
belong to the place where the program is), `Decided` (what its branches have
established), `Rest` (the pieces that are left are proper ones), and as long as the chip did not go
astray `Modes` (address mode, bank, I/O mode, quad-enable bit of chip and host agree, or how they
differ between a command and its result) and `Idling` (when the chip is busy, increments
addresses by itself, can be written to). `Quiet` is for `GivenBack`: as long as nothing is
`spoilt`, the bit is as it was found or, if the host knows that it has set it, set.
`Understood` is then a matter of one command at a time: where an encoded
address ends up in the chip (`Where`) is its address modulo the chip's size.

`Done` takes more: `Tiled` (the pieces that are left are adjacent and reach from where we are
to the end), `Fetched` (as much has been read), `Stored` (the cells in front of us hold
what was wanted, all others what they held, and an AAI chip points at the next
word). That the cuts tile a range, at banks, pages and the master's limit, is a lemma for each
way of cutting, by induction over the place in the sequence (`UpTo`). The proof needed a
correction of the model: a chip is prepared with a fresh context, so that the first
commands are on a single lane, which the model had taken from the context before.

### Write protection

`WriteProtectAssumption`: bits that a chip has are where its registers are, the masks of an
unlock function are about the first status register.

`Controlled` says which `pc` belongs to which call and, above all, that a register write
in progress is one that `spi_write_register` waits for, unless one was given up: so what was
read is still what the register holds. `Businesslike`: what is on its way differs from the register only
in bits of the running call. `Wanted` follows the two passes over range and mode:
which registers are done with, which bits they hold, and that the lock is not among what is
sent before the range is in place. `Undoing`: an unlock without faults has changed only
what `spi_restore_status` can and does change back.

### Serprog

`SerprogAssumption`: limits, addresses and lengths are natural numbers, zero included, and a byte
is not one of the two answers. Nothing relates the sizes of the buffers to each other, and calls
come in any order.

`Inv` is `Types` and, as long as no operation has been refused, `Good`. The condition is
necessary: what the driver does after an error depends on which function noticed it, and it
goes on with a count that is off.

* `Agenda` says which steps may follow each other in `todo` (`Shape`), and what has to have
  happened before some of them: collected bytes are passed on before anything else is sent
  (`Passes`); the operation buffer is executed before a read, a SPI command or the shutdown, with
  nothing queued in between (`Settles`); the reads that are left start where the data
  received so far ends (`Aims`). It holds for every way calls, checks and flushes nest, since the
  condition on a step only looks at the agenda in front of it or behind it.
* `Wire` accounts for every answer: what has arrived, what is owed for a command on
  the line, and that all of them are before the data of a read. A read is the last
  command on the line, so that nothing overtakes it; its data are what `issued` has written.
* `Account`: `Coming`, what the operation buffer holds and will get from the line until the next
  O_EXEC, is `usage`, plus the operation that is sent and not yet counted.
* `History` is the order of all queues at once: `issued` is `done`, followed by what is
  in the operation buffer and on the line, what is collected, and what the agenda will
  still send. A step moves something from one of these to the one before, which leaves the whole
  sequence as it was. `InOrder` and `NothingLeft` follow at once; for `ReadsLatest` the
  three in the middle are empty of writes when the programmer answers a read.
* `Buffer` and `Closed`: the limits of the two buffers of the driver, and that nothing is left
  after the shutdown.

The proof made `TypeOK` more precise: the bound on `bytes` needs `naks = 0`, as that of
`buf`, since a flush that ends early does not reset the count. It also shows what `naks = 0`
hides. When `serprog_chip_writeb` (`serprog.c:884-893`) starts to collect at a new
address, it asks `sp_check_opbuf_usage` for room only after it has stored the byte, and the
execution that makes room first passes that byte on, into the operation buffer that may have no
room for it (14 of 16 bytes used, five more sent). So the account is right (`AccountsAgree`), but
knowing it does not keep a programmer from refusing an operation.

### CH341A transfers

Bytes are counted by their places in the caller's buffer. A transfer owns its places
from its submission until it is collected; `Accounted` says that no place has two owners
and that `in_done` and the owned places together are at most what has been asked for, so
that nothing is submitted past the end. `Awaited`: a transfer that libusb holds is one that
the function still waits for, until a cancellation fails (`lost`). `Exact` and `Delivered`: as
long as no transfer was short, the place of every transfer in the queue is where the rest of
the answer goes, so that bytes arrive in order however completion, callbacks and
collection interleave.

### Dediprog transfers

`DediprogAssumption`: sizes are positive, a range lies within the chip and can be counted in an
unsigned int, no read is longer than a bulk read, multi I/O takes a programmer that has it.

`Circular` is the ring: `finished` and `queued` bound a window of at most `Slots` blocks,
block `b` is in slot `b % Slots`, and a slot within the window is with libusb or has ended. Two
numbers in a window of `Slots` have different remainders, so a transfer is never submitted to a
slot that is in use. `Settled` (nothing in the window) holds outside of the bulk read: the
function waits for that before `Free`, unless the event loop fails (`lost`).
`Parted` says which kinds of parts are left, among them at most one bulk read, and which
ones belong to which `pc`.

`Done` takes four parts more. `Agreed`: without `astray` the driver's cache is the programmer's
mode, and while a part runs that is the mode its opcode needs. `Tiled`: the parts that are left
are adjacent and reach from where we are to the end of the range. `InRange`: no cell outside
was programmed. `Reached`: what lies before is done; in the ring, as many blocks have landed
as are finished or have ended, and the next to land is the one the programmer sends next.

That the parts of a write tile its range holds only under `WholePages`: a write to a chip with
pages of 256 bytes starts at a page, or does not end before the first page does and fits one bulk
write. The code does not check it; every write of the run `dediprog_ring` is
such a write. Flashprog writes whole granules, which are pages on all
these chips but the 25LC1024, and `DediprogEeprom.cfg` shows what happens there.
`TypesCorrect` and `NothingStaysInFlight` do without it.

### Identification

The database is a constant of the model, and nothing in the proofs looks into it but through
`EntriesAssumption`, which TLC evaluates: an entry for any vendor is for any model; generic entries
are SPI chips and come after all others that a SPI bus could match; W29EE011 and its like are
addressed as their probe does it; a voltage that one limit of a chip is rounded to does not pass
the other. So the theorems hold for any database of which that is true. `BoardsAssumption` is
`Wired` for every bus; the numbers of buses, calls and faults are arbitrary, as are the names
that are asked for.

* `Fitting`: on a bus whose last setting succeeded the driver and the programmer agree on the
  voltage (`InAgreement`), and before a chip is handed out its own voltage has been chosen, after those
  of all chips that were only probed for. `LowerIs` and `HigherIs` are about the table of levels.
* `Telling`: what was found on a bus is what its chip answers to (`Answered`: one-byte RES only if
  nothing better is there), so what matches has the chip's ID or is generic (`MatchIs`). That a
  generic entry stays alone needs the order of the database (`NewAlone`), and that the matches so
  far are on earlier buses.
* `Finding`: while the bus of a connected chip is probed, `Hunting` holds: the chip's own probe is
  yet to come and nothing was found before, or it is among those left of this priority, or what it
  brought matches. A lower priority is reached only if nothing replied, which is where
  `NothingBefore` is needed: a chip whose probe has a low priority answers to no other.
  `AllMatched` and `OneMatched` carry the result over the remaining buses to the end of the call. The
  hypothesis of `ListedIsFound`, `Covered`, is that of the parameters probed without a name some
  suit a memory chip. TLC evaluates it over the boards of the run `probing`; the three chips for
  which it is false are those of the finding above.

### Only model-checked

* Liveness (`Terminates`, `Returns`, `CallsReturn`): fairness and ENABLED are out of
  the proof system's reach.
* Lifecycle: it has no parameter. The run goes through the real drivers, and all of their
  behaviours; there is no larger instance that a proof would be about.

## 5. Not modelled

* mainboards and chipsets (`internal` and what it enables): register sequences that mean
  nothing without the hardware. It is the one driver that may register many masters and
  shutdown functions, so `NothingRefused` says nothing of it.
* The translation of a SPI command into a device's command or packets, in the drivers
  that do it synchronously: nothing is kept between two commands and nothing interleaves.
* The command sequences of parallel chips, their toggle and data polling, and DataFlash.
* SFDP, layout files, descriptors and FMAPs: parsers of data; the command line, messages
  and tables.
* `chip_safety_check` and `cb_check_image` are one refusal. In `malloc` failures inside
  helpers that call `exit` the program ends.
* The synchronisation and queries of serprog, loss or corruption of bytes on a serial
  line, and programmers that lack operations the driver checks for at its start.
* Of write protection, the list of available ranges, chips whose database entry
  has a bit in a register they cannot write, and power cycles. Of SPI, the EEPROMs of
  `spi95.c` with their shorter addresses.
* Of the database, names, test states, feature bits and functions that no probe looks at.

`PROJECT.json` lists all components with the reason, and the hazards no property
covers: the synchronisation of serprog; the account of its answers after a refused operation; a
voltage that could not be set; and the polling loops of `jedec.c`, which return without an
error when they give up. The notes at the other hazards say where a property covers only part.

## 6. Plan

Done: the modules of section 2, the refinement of FlashImage, the theorems of section 4.
What is left: the synchronisation of serprog, polling of parallel chips, the page buffer of
DataFlash.
