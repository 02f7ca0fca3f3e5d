------------------------------ MODULE Serprog ------------------------------
(***************************************************************************)
(* The serprog driver (serprog.c) for chips on a parallel bus, LPC or FWH, *)
(* the serial line and the programmer at its other end.                    *)
(*                                                                         *)
(* The driver does not wait for the answers to most commands: it streams   *)
(* them and counts the answers it is owed, it collects bytes written to    *)
(* consecutive addresses in a buffer of its own, and the programmer        *)
(* collects operations in its operation buffer until it is told to execute *)
(* them.  A read has to push everything through first.                     *)
(*                                                                         *)
(* A call of the driver is an agenda of steps.  A step that fails ends the *)
(* function it belongs to: every following step that is at least as deep.  *)
(***************************************************************************)
EXTENDS Integers, Sequences, FiniteSets, FiniteSetsExt, SequencesExt

CONSTANTS
  Value,       \* bytes of the chip
  Unwritten,   \* what its cells hold at first
  Calls,       \* the calls of the driver: see Call
  Programmers, \* what serprog_init() may learn of the programmer: see Limits
  MaxCalls     \* bound: calls in one behaviour

Addr == Nat
Call == [op : {"writeb"}, addr : Addr, val : Value] \cup [op : {"readb"}, addr : Addr]
          \cup [op : {"readn"}, addr : Addr, len : Nat] \cup [op : {"delay", "spi", "shutdown"}]

\* sp_max_write_n (0: no write-n), sp_max_read_n (0: no limit),
\* sp_device_opbuf_size and sp_device_serbuf_size
Limits == [writeN : Nat, readN : Nat, opbuf : Nat, serbuf : Nat]

ASSUME SerprogAssumption ==
  /\ Unwritten \in Value /\ Value \cap {"ACK", "NAK"} = {}
  /\ Calls \subseteq Call
  /\ Programmers \subseteq Limits /\ MaxCalls \in Nat

VARIABLES
  limits,    \* the programmer at the other end of the line
  todo,      \* the rest of the running call; empty between calls
  open,      \* serprog_shutdown() has not run
  buf,       \* sp_write_n_buf[0 .. sp_write_n_bytes - 1]
  start,     \* sp_write_n_addr
  writing,   \* sp_prev_was_write
  usage,     \* sp_opbuf_usage
  ops,       \* sp_streamed_transmit_ops
  bytes,     \* sp_streamed_transmit_bytes
  line,      \* commands on their way to the programmer
  replies,   \* what the programmer has sent and the driver has not read
  opbuf,     \* the programmer's operation buffer
  issued,    \* history: what the calls so far ask the programmer to do, in order
  done,      \* history: what it has done
  got,       \* history: what the last call has read, and from where
  naks,      \* history: operations the programmer has refused
  calls      \* calls so far

driver == <<todo, open, buf, start, writing, usage, ops, bytes>>
device == <<opbuf, done, naks>>
history == <<issued, got, calls>>
vars == <<limits, driver, line, replies, device, history>>

-----------------------------------------------------------------------------
(* Commands                                                                *)

WriteB(a, v) == [cmd |-> "O_WRITEB", addr |-> a, data |-> <<v>>]
WriteN(a, data) == [cmd |-> "O_WRITEN", addr |-> a, data |-> data]
Delay == [cmd |-> "O_DELAY"]
Exec == [cmd |-> "O_EXEC"]
ReadByte(a) == [cmd |-> "R_BYTE", addr |-> a, len |-> 1]
ReadN(a, n) == [cmd |-> "R_NBYTES", addr |-> a, len |-> n]
SpiOp == [cmd |-> "O_SPIOP"]
PinState == [cmd |-> "S_PIN_STATE"]

\* Bytes of a streamed command: its opcode and its parameters
Length(c) ==
  CASE c.cmd = "O_WRITEB" -> 5
    [] c.cmd = "O_WRITEN" -> 7 + Len(c.data)
    [] c.cmd = "O_DELAY"  -> 5
    [] c.cmd = "O_EXEC"   -> 1
    [] c.cmd = "R_BYTE"   -> 4
    [] c.cmd = "R_NBYTES" -> 7

Did(what) == [did |-> what]
Wrote(a, v) == [did |-> "write", addr |-> a, val |-> v]

\* What an operation in the operation buffer does, byte by byte
Effect(c) ==
  IF c.cmd = "O_DELAY" THEN <<Did("delay")>>
  ELSE [i \in 1 .. Len(c.data) |-> Wrote(c.addr + i - 1, c.data[i])]

\* What a cell holds after these operations
Latest(log, a) ==
  LET writes == {i \in DOMAIN log : log[i].did = "write" /\ log[i].addr = a}
  IN  IF writes = {} THEN Unwritten ELSE log[Max(writes)].val

-----------------------------------------------------------------------------
(* Steps of a call, each with its depth                                    *)

Pass(d) == [step |-> "pass", depth |-> d]                    \* sp_pass_writen()
Send(c, d) == [step |-> "send", depth |-> d, cmd |-> c]      \* sp_stream_buffer_op()
Flush(d) == [step |-> "flush", depth |-> d]                  \* sp_flush_stream()
\* sp_opbuf_usage grows by what the operation takes in the operation buffer
Count(n, delay, d) == [step |-> "count", depth |-> d, size |-> n, delay |-> delay]
Check(n, d) == [step |-> "check", depth |-> d, size |-> n]   \* sp_check_opbuf_usage()
Store(a, v, d) == [step |-> "store", depth |-> d, addr |-> a, val |-> v]
Full(d) == [step |-> "full", depth |-> d]
Rest(a, n, d) == [step |-> "rest", depth |-> d, addr |-> a, len |-> n]
Take(n, d) == [step |-> "take", depth |-> d, len |-> n]      \* serialport_read()
Tell(c, d) == [step |-> "tell", depth |-> d, cmd |-> c]      \* sp_docommand()
Answer(d) == [step |-> "answer", depth |-> d]
Close(d) == [step |-> "close", depth |-> d]

Now == Head(todo)
Later == Tail(todo)
At(step) == todo # <<>> /\ Now.step = step

\* The rest of the agenda once the function at depth d has returned an error
Fallback(d) ==
  LET outer == {i \in DOMAIN Later : Later[i].depth < d}
  IN  IF outer = {} THEN <<>> ELSE SubSeq(Later, Min(outer), Len(Later))

\* sp_execute_opbuf_noflush()
ExecuteNoFlush(d) == <<Pass(d), Send(Exec, d)>>

\* Mutant: write-n data that the programmer has not got yet is overlooked
PendingUsage == usage > 0
Pending == usage > 0 \/ (limits.writeN > 0 /\ Len(buf) > 0)
Drain(d) == IF Pending THEN ExecuteNoFlush(d) ELSE <<>>

-----------------------------------------------------------------------------

Init ==
  /\ limits \in Programmers
  /\ todo = <<>> /\ open = TRUE /\ buf = <<>> /\ start = 0 /\ writing = FALSE
  /\ usage = 0 /\ ops = 0 /\ bytes = 0
  /\ line = <<>> /\ replies = <<>> /\ opbuf = <<>>
  /\ issued = <<>> /\ done = <<>> /\ naks = 0 /\ calls = 0
  /\ got = [addr |-> 0, data |-> <<>>]

Begin(agenda, ask) ==
  /\ open /\ todo = <<>> /\ calls < MaxCalls
  /\ calls' = calls + 1
  /\ todo' = agenda /\ issued' = issued \o ask
  /\ UNCHANGED <<open, start, writing, usage, ops, bytes, line, replies, limits, device>>

Nothing(a) == [addr |-> a, data |-> <<>>]

\* Mutant: any byte is taken for the next one
ContiguousAlways(a) == writing
\* The byte continues the write-n that is being collected
Contiguous(a) == writing /\ a = start + Len(buf)

\* serprog_chip_writeb()
CallWriteByte(a, v) ==
  /\ IF limits.writeN = 0
       THEN Begin(<<Check(6, 1), Send(WriteB(a, v), 2), Count(5, FALSE, 1)>>, <<Wrote(a, v)>>)
            /\ UNCHANGED buf
     ELSE IF Contiguous(a)
       THEN Begin(<<Check(7 + Len(buf) + 1, 1), Full(1)>>, <<Wrote(a, v)>>)
            /\ buf' = Append(buf, v)
     ELSE Begin((IF writing /\ buf # <<>> THEN <<Pass(2)>> ELSE <<>>)
                   \o <<Store(a, v, 1), Check(7 + 1, 1), Full(1)>>, <<Wrote(a, v)>>)
          /\ UNCHANGED buf
  /\ got' = Nothing(a)

\* serprog_chip_readb(): "Will stream the read operation - eg. add it to the
\* stream buffer, then flush the buffer, then read the read answer."
CallReadByte(a) ==
  /\ Begin(Drain(4) \o <<Send(ReadByte(a), 3), Flush(2), Take(1, 1)>>, <<>>)
  /\ got' = Nothing(a) /\ UNCHANGED buf

\* serprog_chip_readn()
CallReadN(a, n) == Begin(<<Rest(a, n, 1)>>, <<>>) /\ got' = Nothing(a) /\ UNCHANGED buf

\* serprog_delay()
CallDelay ==
  /\ Begin((IF limits.writeN > 0 /\ buf # <<>> THEN <<Pass(2)>> ELSE <<>>)
             \o <<Check(5, 1), Send(Delay, 2), Count(5, TRUE, 1)>>, <<Did("delay")>>)
  /\ got' = Nothing(0) /\ UNCHANGED buf

\* serprog_spi_send_command() for a command that reads nothing
CallSpi ==
  /\ Begin((IF Pending THEN ExecuteNoFlush(1) \o <<Flush(1)>> ELSE <<>>)
             \o <<Tell(SpiOp, 1), Answer(1)>>, <<Did("spi")>>)
  /\ got' = Nothing(0) /\ UNCHANGED buf

\* serprog_shutdown()
CallShutdown ==
  /\ Begin((IF Pending THEN ExecuteNoFlush(3) \o <<Flush(3)>> ELSE <<>>)
             \o <<Tell(PinState, 2), Answer(2), Close(1)>>, <<>>)
  /\ got' = Nothing(0) /\ UNCHANGED buf

-----------------------------------------------------------------------------
(* The steps                                                               *)

\* Mutants: write-n is not counted; a single write is counted by the caller, too
StreamUncounted(c) ==
  /\ line' = Append(line, c)
  /\ ops' = ops + (IF c.cmd = "O_WRITEN" THEN 0 ELSE 1) /\ bytes' = bytes + Length(c)
StreamTwice(c) ==
  /\ line' = Append(line, c)
  /\ ops' = ops + (IF c.cmd = "O_WRITEB" THEN 2 ELSE 1) /\ bytes' = bytes + Length(c)

\* A command goes out without waiting for its answer
Stream(c) ==
  /\ line' = Append(line, c)
  /\ ops' = ops + 1 /\ bytes' = bytes + Length(c)
\* Mutant: the stream is never throttled
CrowdedNever(n) == FALSE
Crowded(n) == bytes >= n + limits.serbuf
FlushFirst(d) ==
  /\ todo' = <<Flush(d)>> \o todo
  /\ UNCHANGED <<open, buf, start, writing, usage, ops, bytes, line>>

\* A single byte goes out as a single write, and sp_prev_was_write stays set
StepPass ==
  /\ At("pass")
  /\ \/ buf = <<>> /\ todo' = Later
        /\ UNCHANGED <<open, buf, start, writing, usage, ops, bytes, line>>
     \/ buf # <<>> /\ Crowded(7 + Len(buf)) /\ FlushFirst(Now.depth)
     \/ /\ Len(buf) = 1 /\ ~Crowded(7 + Len(buf))
        /\ buf' = <<>>
        /\ todo' = <<Send(WriteB(start, buf[1]), Now.depth), Count(5, FALSE, Now.depth)>> \o Later
        /\ UNCHANGED <<open, start, writing, usage, ops, bytes, line>>
     \/ /\ Len(buf) > 1 /\ ~Crowded(7 + Len(buf))
        /\ Stream(WriteN(start, buf))
        /\ usage' = usage + 7 + Len(buf) /\ buf' = <<>> /\ writing' = FALSE
        /\ todo' = Later
        /\ UNCHANGED <<open, start>>
  /\ UNCHANGED <<replies, limits, device, history>>

StepSend ==
  /\ At("send")
  /\ \/ Crowded(Length(Now.cmd)) /\ FlushFirst(Now.depth)
     \/ /\ ~Crowded(Length(Now.cmd))
        /\ Stream(Now.cmd) /\ todo' = Later
        /\ IF Now.cmd = Exec THEN usage' = 0 /\ writing' = FALSE
           ELSE UNCHANGED <<usage, writing>>
        /\ UNCHANGED <<open, buf, start>>
  /\ UNCHANGED <<replies, limits, device, history>>

\* The answers to the streamed commands, one by one.  At the first that is no ACK
\* the function returns, without having counted it.
StepFlush ==
  /\ At("flush")
  /\ \/ ops = 0 /\ bytes' = 0 /\ todo' = Later /\ UNCHANGED <<ops, replies>>
     \/ /\ ops > 0 /\ replies # <<>> /\ Head(replies) = "ACK"
        /\ replies' = Tail(replies) /\ ops' = ops - 1
        /\ IF ops = 1 THEN bytes' = 0 /\ todo' = Later ELSE UNCHANGED <<bytes, todo>>
     \/ /\ ops > 0 /\ replies # <<>> /\ Head(replies) # "ACK"
        /\ replies' = Tail(replies) /\ todo' = Fallback(Now.depth)
        /\ UNCHANGED <<ops, bytes>>
  /\ UNCHANGED <<open, buf, start, writing, usage, line, limits, device, history>>

StepCount ==
  /\ At("count") /\ todo' = Later
  /\ usage' = usage + Now.size /\ writing' = (writing /\ ~Now.delay)
  /\ UNCHANGED <<open, buf, start, ops, bytes, line, replies, limits, device, history>>

Overflows(n) == limits.opbuf <= usage + n

\* "executed operation buffer due to size reasons"
StepCheck ==
  /\ At("check")
  /\ todo' = (IF Overflows(Now.size) THEN ExecuteNoFlush(2) \o <<Flush(2)>> ELSE <<>>) \o Later
  /\ UNCHANGED <<open, buf, start, writing, usage, ops, bytes, line, replies, limits, device, history>>

StepStore ==
  /\ At("store") /\ todo' = Later
  /\ writing' = TRUE /\ start' = Now.addr /\ buf' = <<Now.val>>
  /\ UNCHANGED <<open, usage, ops, bytes, line, replies, limits, device, history>>

IsFull == Len(buf) >= limits.writeN
StepFull ==
  /\ At("full") /\ todo' = (IF IsFull THEN <<Pass(2)>> ELSE <<>>) \o Later
  /\ UNCHANGED <<open, buf, start, writing, usage, ops, bytes, line, replies, limits, device, history>>

\* The loop of serprog_chip_readn() around sp_do_read_n(); what a piece does not
\* get is missing, the errors are ignored
StepRest ==
  LET piece == IF limits.readN # 0 /\ Now.len > limits.readN THEN limits.readN ELSE Now.len
  IN  /\ At("rest")
      /\ todo' = IF Now.len = 0 THEN Later
                 ELSE Drain(4) \o <<Send(ReadN(Now.addr, piece), 3), Flush(2), Take(piece, 2),
                                    Rest(Now.addr + piece, Now.len - piece, 1)>> \o Later
      /\ UNCHANGED <<open, buf, start, writing, usage, ops, bytes, line, replies, limits, device, history>>

\* One byte of the data; the driver waits for it
StepTake ==
  /\ At("take") /\ replies # <<>>
  /\ replies' = Tail(replies)
  /\ got' = [got EXCEPT !.data = Append(@, Head(replies))]
  /\ todo' = (IF Now.len = 1 THEN <<>> ELSE <<Take(Now.len - 1, Now.depth)>>) \o Later
  /\ UNCHANGED <<open, buf, start, writing, usage, ops, bytes, line, limits, device, issued, calls>>

\* sp_docommand() sends its command on its own and waits for the answer
StepTell ==
  /\ At("tell") /\ todo' = Later /\ line' = Append(line, Now.cmd)
  /\ UNCHANGED <<open, buf, start, writing, usage, ops, bytes, replies, limits, device, history>>

StepAnswer ==
  /\ At("answer") /\ replies # <<>>
  /\ replies' = Tail(replies)
  /\ todo' = (IF Head(replies) = "ACK" THEN Later ELSE Fallback(Now.depth))
  /\ UNCHANGED <<open, buf, start, writing, usage, ops, bytes, line, limits, device, history>>

StepClose ==
  /\ At("close") /\ todo' = Later /\ open' = FALSE
  /\ UNCHANGED <<buf, start, writing, usage, ops, bytes, line, replies, limits, device, history>>

-----------------------------------------------------------------------------
(* The programmer (serprog-protocol.txt)                                   *)

\* An operation waits in the operation buffer
Queues(c) == c.cmd \in {"O_WRITEB", "O_WRITEN", "O_DELAY"}
SizeInOpbuf(c) == Length(c)
UsedOpbuf == FoldLeft(LAMBDA n, c : n + SizeInOpbuf(c), 0, opbuf)
EffectOf(queue) == FlattenSeq([i \in DOMAIN queue |-> Effect(queue[i])])

DeviceQueues ==
  LET c == Head(line) IN
  /\ line # <<>> /\ Queues(c)
  /\ line' = Tail(line)
  /\ IF UsedOpbuf + SizeInOpbuf(c) <= limits.opbuf
       THEN opbuf' = Append(opbuf, c) /\ replies' = Append(replies, "ACK") /\ UNCHANGED naks
       ELSE UNCHANGED opbuf /\ replies' = Append(replies, "NAK") /\ naks' = naks + 1
  /\ UNCHANGED <<limits, driver, done, history>>

DeviceExecutes ==
  /\ line # <<>> /\ Head(line).cmd = "O_EXEC"
  /\ line' = Tail(line) /\ replies' = Append(replies, "ACK")
  /\ done' = done \o EffectOf(opbuf) /\ opbuf' = <<>>
  /\ UNCHANGED <<limits, driver, naks, history>>

DeviceReads ==
  LET c == Head(line) IN
  /\ line # <<>> /\ c.cmd \in {"R_BYTE", "R_NBYTES"}
  /\ line' = Tail(line)
  /\ replies' = replies \o <<"ACK">> \o [i \in 1 .. c.len |-> Latest(done, c.addr + i - 1)]
  /\ UNCHANGED <<limits, driver, device, history>>

DeviceObeys ==
  LET c == Head(line) IN
  /\ line # <<>> /\ c.cmd \in {"O_SPIOP", "S_PIN_STATE"}
  /\ line' = Tail(line) /\ replies' = Append(replies, "ACK")
  /\ done' = (IF c.cmd = "O_SPIOP" THEN Append(done, Did("spi")) ELSE done)
  /\ UNCHANGED <<limits, driver, opbuf, naks, history>>

-----------------------------------------------------------------------------

Driver == \/ StepPass \/ StepSend \/ StepFlush \/ StepCount \/ StepCheck \/ StepStore
          \/ StepFull \/ StepRest \/ StepTake \/ StepTell \/ StepAnswer \/ StepClose
Programmer == DeviceQueues \/ DeviceExecutes \/ DeviceReads \/ DeviceObeys

Begins ==
  \E c \in Calls :
    \/ c.op = "writeb" /\ CallWriteByte(c.addr, c.val)
    \/ c.op = "readb" /\ CallReadByte(c.addr)
    \/ c.op = "readn" /\ CallReadN(c.addr, c.len)
    \/ c.op = "delay" /\ CallDelay
    \/ c.op = "spi" /\ CallSpi
    \/ c.op = "shutdown" /\ CallShutdown

Next == Begins \/ Driver \/ Programmer
Spec == Init /\ [][Next]_vars
\* The driver runs whenever it is not waiting for a byte, and the programmer
\* takes every command it is sent
FairSpec == Spec /\ WF_vars(Driver) /\ WF_vars(Programmer)

-----------------------------------------------------------------------------
(* What the driver promises                                                *)

Longest == 7 + limits.writeN

\* Every variable keeps its type: the account of the programmer's operation buffer
\* never gets negative, a write-n stays within "the maximum length of an write_n
\* operation", and what the driver has not seen answered stays below the serial
\* buffer and the two longest commands.  The last two only hold until an operation
\* is refused: the driver then keeps what it could not pass on, and adds to it.
TypeOK ==
  /\ open \in BOOLEAN /\ writing \in BOOLEAN /\ start \in Addr
  /\ \A i \in DOMAIN buf : buf[i] \in Value
  /\ {usage, ops, bytes, naks, calls} \subseteq Nat
  /\ \A i \in DOMAIN todo : todo[i].depth \in 1 .. 4
  /\ \A i \in DOMAIN replies : replies[i] \in Value \cup {"ACK", "NAK"}
  /\ naks = 0 /\ limits.writeN > 0 => Len(buf) <= limits.writeN
  /\ naks = 0 => bytes < limits.serbuf + 2 * Longest

\* As long as the programmer refuses nothing it does what it is asked to do in
\* the order of the calls, whatever is buffered on the way
InOrder == naks = 0 => IsPrefix(done, issued)

\* and a read returns what the calls before it have written
ReadsLatest ==
  todo = <<>> /\ naks = 0 =>
    \A i \in DOMAIN got.data : got.data[i] = Latest(issued, got.addr + i - 1)

\* Nothing is left in a buffer when the driver shuts down
NothingLeft == ~open /\ naks = 0 => done = issued /\ line = <<>> /\ opbuf = <<>>

Answers == Len(line) + Cardinality({i \in DOMAIN replies : replies[i] \in {"ACK", "NAK"}})

Total(s) == LET sum[i \in 0 .. Len(s)] == IF i = 0 THEN 0 ELSE sum[i - 1] + s[i] IN sum[Len(s)]

\* What the operation buffer holds and is about to get, until the next O_EXEC
Kept(queue) ==
  [i \in DOMAIN queue |->
     IF Queues(queue[i]) /\ \A j \in DOMAIN queue : j > i => queue[j] # Exec
       THEN Length(queue[i]) ELSE 0]
Coming == Total(Kept(opbuf \o line))

\* "all commands give an answer" (serprog-protocol.txt): until an operation is refused, the
\* driver knows how many answers it is owed (sp_streamed_transmit_ops), and how full the
\* operation buffer is and is about to be (sp_opbuf_usage)
InStep ==
  naks = 0 => /\ Answers = ops + (IF At("answer") THEN 1 ELSE 0)
              /\ ~At("count") => usage = Coming

\* No call waits for an answer that does not come
CallsReturn == (todo # <<>> /\ naks = 0) ~> (todo = <<>> \/ naks > 0)

=============================================================================
