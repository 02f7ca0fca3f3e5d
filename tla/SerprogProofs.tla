--------------------------- MODULE SerprogProofs ---------------------------
(***************************************************************************)
(* What Serprog promises, proved for every programmer, whatever its limits *)
(* are, and for every sequence of calls.                                   *)
(***************************************************************************)
EXTENDS Serprog, SequenceLemmas, FiniteSetTheorems

-----------------------------------------------------------------------------
(* Types                                                                   *)

Writes == [cmd : {"O_WRITEB", "O_WRITEN"}, addr : Addr, data : Seq(Value)]
Reads == [cmd : {"R_BYTE", "R_NBYTES"}, addr : Addr, len : Nat \ {0}]
Operation == Writes \cup {Delay}
Command == Operation \cup Reads \cup {Exec, SpiOp, PinState}

\* sp_pass_writen() sends a write-n itself
Sendable == {c \in Command : c.cmd \in {"O_WRITEB", "O_DELAY", "O_EXEC", "R_BYTE", "R_NBYTES"}}

Steps ==
  [step : {"pass", "flush", "full", "answer", "close"}, depth : 1 .. 4]
    \cup [step : {"send"}, depth : 1 .. 4, cmd : Sendable]
    \cup [step : {"count"}, depth : 1 .. 4, size : Nat \ {0}, delay : BOOLEAN]
    \cup [step : {"check"}, depth : 1 .. 4, size : Nat]
    \cup [step : {"store"}, depth : 1 .. 4, addr : Addr, val : Value]
    \cup [step : {"rest"}, depth : 1 .. 4, addr : Addr, len : Nat]
    \cup [step : {"take"}, depth : 1 .. 4, len : Nat \ {0}]
    \cup [step : {"tell"}, depth : 1 .. 4, cmd : {SpiOp, PinState}]

Act == [did : {"delay", "spi"}] \cup [did : {"write"}, addr : Addr, val : Value]
Reply == Value \cup {"ACK", "NAK"}

Types ==
  /\ limits \in Programmers
  /\ todo \in Seq(Steps) /\ open \in BOOLEAN
  /\ buf \in Seq(Value) /\ start \in Addr /\ writing \in BOOLEAN
  /\ usage \in Nat /\ ops \in Nat /\ bytes \in Nat
  /\ line \in Seq(Command) /\ replies \in Seq(Reply) /\ opbuf \in Seq(Operation)
  /\ issued \in Seq(Act) /\ done \in Seq(Act)
  /\ got \in [addr : Addr, data : Seq(Reply)]
  /\ naks \in Nat /\ calls \in Nat

-----------------------------------------------------------------------------
(* How agendas are put together                                            *)

IsRead(c) == c.cmd \in {"R_BYTE", "R_NBYTES"}
IsTold(c) == c.cmd \in {"O_SPIOP", "S_PIN_STATE"}

SendsOp(x) == x.step = "send" /\ Queues(x.cmd)
SendsRead(x) == x.step = "send" /\ IsRead(x.cmd)
SendsExec(x) == x.step = "send" /\ x.cmd = Exec

\* Bytes that are being collected are passed on before any of these steps
NeedsPass(x) == x.step \in {"send", "store", "tell", "count", "take", "close"}
Passes(t, empty) ==
  \A i \in 1 .. Len(t) : NeedsPass(t[i]) => empty \/ \E j \in 1 .. i - 1 : t[j].step = "pass"

\* The first and the second step of an agenda
Start(t) == IF t = <<>> THEN "none" ELSE t[1].step
Second(t) == IF Len(t) > 1 THEN t[2].step ELSE "none"

\* Step x may stand before the agenda t
Fits(x, t) ==
  /\ SendsOp(x) <=> Start(t) = "count"
  /\ SendsOp(x) => t[1].size = Length(x.cmd)
  /\ SendsRead(x) <=> Second(t) = "take"
  /\ SendsRead(x) => Start(t) = "flush" /\ t[2].len = x.cmd.len
  /\ SendsExec(x) => Start(t) = "flush" \/ (t # <<>> /\ SendsRead(t[1]))
  /\ Start(t) = "take" => x.step = "flush"
  /\ Start(t) = "tell" => x.step = "flush"
  /\ Start(t) = "answer" <=> x.step = "tell"
  /\ Start(t) = "close" => x.step = "answer"
  /\ Start(t) = "rest" => x.step = "take"
  /\ x.step = "take" => t = <<>> \/ (Len(t) = 1 /\ Start(t) = "rest")
  /\ x.step \in {"close", "rest"} => t = <<>>
  /\ x.step = "store" => Passes(t, FALSE) /\ \E i \in 1 .. Len(t) : t[i].step = "full"

After(t, i) == SubSeq(t, i + 1, Len(t))
Shape(t) == \A i \in 1 .. Len(t) : Fits(t[i], After(t, i))

\* These steps find the operation buffer executed, and let nothing into it
Settled(x) == SendsRead(x) \/ x.step \in {"take", "tell", "answer", "close"}
Quiet(x) == Settled(x) \/ x.step = "flush"
Settles(t, unused) ==
  \A i \in 1 .. Len(t) : Settled(t[i]) =>
    \/ unused /\ \A k \in 1 .. i - 1 : Quiet(t[k])
    \/ \E j \in 1 .. i - 1 : SendsExec(t[j]) /\ \A k \in j + 1 .. i - 1 : Quiet(t[k])

\* Reads go on where the data so far end
Aims(t, a) ==
  \A i \in 1 .. Len(t) :
    /\ SendsRead(t[i]) => t[i].cmd.addr = a
    /\ t[i].step = "rest" => t[i].addr = IF i = 1 THEN a ELSE a + t[i - 1].len

Has(t, kinds) == \E i \in 1 .. Len(t) : t[i].step \in kinds

-----------------------------------------------------------------------------
(* What commands and steps do to the chip                                  *)

Does(c) ==
  IF Queues(c) THEN Effect(c)
  ELSE IF c = SpiOp THEN <<Did("spi")>> ELSE <<>>
Plans(x) ==
  IF x.step \in {"send", "tell"} THEN Does(x.cmd)
  ELSE IF x.step = "store" THEN <<Wrote(x.addr, x.val)>> ELSE <<>>

Doings(queue) == FlattenSeq([i \in 1 .. Len(queue) |-> Does(queue[i])])
Plan(t) == FlattenSeq([i \in 1 .. Len(t) |-> Plans(t[i])])
Collected == Effect(WriteN(start, buf))

-----------------------------------------------------------------------------
(* The inductive invariant                                                 *)

\* Where the data that is read next comes from
Place == got.addr + Len(got.data)

\* The answers that have arrived
Owed == ops + (IF Start(todo) = "answer" THEN 1 ELSE 0) - Len(line)

Taking == Start(todo) = "take"
Flushing == Start(todo) = "flush" /\ Second(todo) = "take"
ReadSent == line # <<>> /\ IsRead(line[Len(line)])

\* An agenda that may follow, with the bytes that are being collected gone, the operation
\* buffer unused, and the next read at this place
Ready(t, empty, unused, place) ==
  Shape(t) /\ Passes(t, empty) /\ Settles(t, unused) /\ Aims(t, place)

Agenda ==
  /\ Ready(todo, buf = <<>>, usage = 0, Place)
  /\ Has(todo, {"store"}) => limits.writeN > 0

Buffer ==
  /\ limits.writeN = 0 \/ ~writing => buf = <<>>
  /\ limits.writeN > 0 => Len(buf) <= limits.writeN
  /\ limits.writeN > 0 /\ Len(buf) = limits.writeN => Has(todo, {"full", "pass"})
  /\ bytes < limits.serbuf + 2 * Longest

Wire ==
  /\ Owed \in 0 .. Len(replies)
  /\ \A i \in 1 .. Owed : replies[i] = "ACK"
  /\ \A i \in Owed + 1 .. Len(replies) : replies[i] = Latest(issued, Place + (i - Owed) - 1)
  /\ Start(todo) \in {"take", "tell", "answer", "close"} => ops = 0
  /\ \A i \in 1 .. Len(line) :
       /\ IsTold(line[i]) => Start(todo) = "answer"
       /\ IsRead(line[i]) =>
            Flushing /\ i = Len(line) /\ line[i].addr = Place /\ line[i].len = todo[2].len
  /\ ~Taking /\ ~Flushing => Len(replies) = Owed
  /\ Taking => Len(replies) = Owed + todo[1].len
  /\ Flushing => IF ReadSent THEN Len(replies) = Owed
                 ELSE line = <<>> /\ Len(replies) = Owed + todo[2].len
  /\ ops > 0 => usage > 0 \/ Start(todo) = "count" \/ Has(todo, {"flush"})

Account == Coming = usage + (IF Start(todo) = "count" THEN todo[1].size ELSE 0)

History ==
  /\ issued = done \o (Doings(opbuf \o line) \o (Collected \o Plan(todo)))
  /\ \A i \in 1 .. Len(got.data) : got.data[i] = Latest(issued, got.addr + i - 1)

Closed == ~open => todo = <<>> /\ line = <<>> /\ opbuf = <<>> /\ buf = <<>>

Good == Agenda /\ Buffer /\ Wire /\ Account /\ History /\ Closed

\* Once the programmer has refused an operation the two ends no longer agree
Inv == Types /\ (naks = 0 => Good)


-----------------------------------------------------------------------------
(* Fields                                                                  *)

LEMMA CommandFields ==
  ASSUME NEW c \in Command
  PROVE  /\ c.cmd \in {"O_WRITEB", "O_WRITEN", "O_DELAY", "O_EXEC", "R_BYTE", "R_NBYTES", "O_SPIOP",
                       "S_PIN_STATE"}
         /\ Queues(c) <=> c \in Operation
         /\ c.cmd \in {"O_WRITEB", "O_WRITEN"} => c.addr \in Nat /\ c.data \in Seq(Value)
         /\ IsRead(c) => c.addr \in Nat /\ c.len \in Nat \ {0}
         /\ c.cmd = "O_EXEC" <=> c = Exec
         /\ c.cmd = "O_SPIOP" <=> c = SpiOp
         /\ c.cmd = "S_PIN_STATE" <=> c = PinState
BY DEF Command, Operation, Writes, Reads, Delay, Exec, SpiOp, PinState, Queues, IsRead, Addr

LEMMA LengthType ==
  ASSUME NEW c \in Command, ~IsTold(c)
  PROVE  /\ Length(c) \in Nat \ {0}
         /\ c.cmd # "O_WRITEN" => Length(c) <= 7
         /\ c.cmd = "O_WRITEN" => Length(c) = 7 + Len(c.data)
<1>1. /\ c.cmd \in {"O_WRITEB", "O_WRITEN", "O_DELAY", "O_EXEC", "R_BYTE", "R_NBYTES"}
      /\ c.cmd = "O_WRITEN" => c.data \in Seq(Value)
  BY CommandFields DEF IsTold
<1>2. c.cmd = "O_WRITEN" => Len(c.data) \in Nat
  BY <1>1
<1> QED
  BY <1>1, <1>2 DEF Length

LEMMA StepFields ==
  ASSUME NEW x \in Steps
  PROVE  /\ x.step \in {"pass", "send", "flush", "count", "check", "store", "full", "rest", "take",
                        "tell", "answer", "close"}
         /\ x.depth \in 1 .. 4
         /\ x.step = "send" => x.cmd \in Sendable /\ x.cmd \in Command
         /\ x.step = "count" => x.size \in Nat \ {0} /\ x.delay \in BOOLEAN
         /\ x.step = "check" => x.size \in Nat
         /\ x.step = "store" => x.addr \in Nat /\ x.val \in Value
         /\ x.step = "rest" => x.addr \in Nat /\ x.len \in Nat
         /\ x.step = "take" => x.len \in Nat \ {0}
         /\ x.step = "tell" => x.cmd \in {SpiOp, PinState} /\ x.cmd \in Command
BY DEF Steps, Sendable, Command, Addr

LEMMA StepMakers ==
  ASSUME NEW d \in 1 .. 4
  PROVE  /\ Pass(d) \in Steps /\ Flush(d) \in Steps /\ Full(d) \in Steps /\ Answer(d) \in Steps
         /\ Close(d) \in Steps
         /\ \A c \in Sendable : Send(c, d) \in Steps
         /\ \A n \in Nat \ {0}, b \in BOOLEAN : Count(n, b, d) \in Steps
         /\ \A n \in Nat : Check(n, d) \in Steps
         /\ \A a \in Nat, v \in Value : Store(a, v, d) \in Steps
         /\ \A a \in Nat, n \in Nat : Rest(a, n, d) \in Steps
         /\ \A n \in Nat \ {0} : Take(n, d) \in Steps
         /\ Tell(SpiOp, d) \in Steps /\ Tell(PinState, d) \in Steps
BY DEF Steps, Pass, Flush, Full, Answer, Close, Send, Count, Check, Store, Rest, Take, Tell, Addr

LEMMA Counts ==
  ASSUME NEW d \in 1 .. 4, NEW n \in Nat \ {0}
  PROVE  /\ Count(n, TRUE, d) \in Steps /\ Count(n, FALSE, d) \in Steps
         /\ Count(n, TRUE, d).step = "count" /\ Count(n, FALSE, d).step = "count"
         /\ Count(n, TRUE, d).size = n /\ Count(n, FALSE, d).size = n
BY DEF Steps, Count

LEMMA SendableCommands ==
  /\ Exec \in Sendable /\ Delay \in Sendable
  /\ \A a \in Nat, v \in Value : WriteB(a, v) \in Sendable
  /\ \A a \in Nat : ReadByte(a) \in Sendable
  /\ \A a \in Nat, n \in Nat \ {0} : ReadN(a, n) \in Sendable
  /\ \A a \in Nat, s \in Seq(Value) : WriteN(a, s) \in Command
BY DEF Sendable, Command, Operation, Writes, Reads, Exec, Delay, WriteB, ReadByte, ReadN, WriteN, Addr

LEMMA DidType ==
  /\ Did("delay") \in Act /\ Did("spi") \in Act
  /\ \A a \in Nat, v \in Value : Wrote(a, v) \in Act
BY DEF Did, Wrote, Act, Addr

LEMMA EffectType ==
  ASSUME NEW c \in Operation
  PROVE  Effect(c) \in Seq(Act)
<1>1. CASE c.cmd = "O_DELAY"
  BY <1>1, DidType DEF Effect
<1>2. CASE c.cmd # "O_DELAY"
  <2>1. c.addr \in Nat /\ c.data \in Seq(Value)
    BY <1>2 DEF Operation, Writes, Delay, Addr
  <2>2. Len(c.data) \in Nat /\ \A i \in 1 .. Len(c.data) : c.data[i] \in Value
    BY <2>1
  <2>3. \A i \in 1 .. Len(c.data) : c.addr + i - 1 \in Nat
    BY <2>1, <2>2
  <2>4. [i \in 1 .. Len(c.data) |-> Wrote(c.addr + i - 1, c.data[i])] \in [1 .. Len(c.data) -> Act]
    BY <2>2, <2>3, DidType
  <2>5. [i \in 1 .. Len(c.data) |-> Wrote(c.addr + i - 1, c.data[i])] \in Seq(Act)
    BY <2>2, <2>4, FunSeq
  <2> QED
    BY <1>2, <2>5 DEF Effect
<1> QED
  BY <1>1, <1>2

LEMMA DoesType ==
  ASSUME NEW c \in Command
  PROVE  Does(c) \in Seq(Act)
<1>1. CASE Queues(c)
  <2>1. c \in Operation
    BY <1>1, CommandFields
  <2> QED
    BY <1>1, <2>1, EffectType DEF Does
<1>2. CASE ~Queues(c)
  BY <1>2, DidType DEF Does
<1> QED
  BY <1>1, <1>2

LEMMA PlansType ==
  ASSUME NEW x \in Steps
  PROVE  Plans(x) \in Seq(Act)
<1>1. CASE x.step \in {"send", "tell"}
  BY <1>1, StepFields, DoesType DEF Plans
<1>2. CASE x.step = "store"
  BY <1>2, StepFields, DidType DEF Plans
<1>3. CASE x.step \notin {"send", "tell", "store"}
  BY <1>3 DEF Plans
<1> QED
  BY <1>1, <1>2, <1>3

-----------------------------------------------------------------------------
(* What several commands, and several steps, do                            *)

LEMMA DoingsParts ==
  ASSUME NEW q \in Seq(Command)
  PROVE  /\ [i \in 1 .. Len(q) |-> Does(q[i])] \in Seq(Seq(Act))
         /\ Len([i \in 1 .. Len(q) |-> Does(q[i])]) = Len(q)
         /\ Doings(q) \in Seq(Act)
<1>1. Len(q) \in Nat /\ \A i \in 1 .. Len(q) : q[i] \in Command
  OBVIOUS
<1> DEFINE f == [i \in 1 .. Len(q) |-> Does(q[i])]
<1>2. f \in [1 .. Len(q) -> Seq(Act)]
  BY <1>1, DoesType
<1>3. f \in Seq(Seq(Act)) /\ Len(f) = Len(q)
  <2> HIDE DEF f
  <2> QED
    BY <1>1, <1>2, FunSeq
<1>4. FlattenSeq(f) \in Seq(Act)
  <2> HIDE DEF f
  <2>1. <<>> \in Seq(Act)
    OBVIOUS
  <2> QED
    BY <1>3, <2>1, FlattenAppend
<1> QED
  BY <1>3, <1>4 DEF Doings

LEMMA DoingsConcat ==
  ASSUME NEW q \in Seq(Command), NEW r \in Seq(Command)
  PROVE  /\ Doings(q \o r) = Doings(q) \o Doings(r)
         /\ Doings(q) \in Seq(Act) /\ Doings(r) \in Seq(Act)
<1> DEFINE f == [i \in 1 .. Len(q) |-> Does(q[i])]
           g == [i \in 1 .. Len(r) |-> Does(r[i])]
           u == q \o r
           h == [i \in 1 .. Len(u) |-> Does(u[i])]
           m == Len(q)
           n == Len(r)
<1>1. /\ u \in Seq(Command) /\ Len(u) = m + n /\ m \in Nat /\ n \in Nat
      /\ \A i \in 1 .. m : u[i] = q[i]
      /\ \A i \in 1 .. n : u[m + i] = r[i]
  BY ConcatElements
<1>2. f \in Seq(Seq(Act)) /\ Len(f) = m /\ \A i \in 1 .. m : f[i] = Does(q[i])
  BY DoingsParts
<1>3. g \in Seq(Seq(Act)) /\ Len(g) = n /\ \A i \in 1 .. n : g[i] = Does(r[i])
  BY DoingsParts
<1>4. h \in Seq(Seq(Act)) /\ Len(h) = m + n /\ \A i \in 1 .. m + n : h[i] = Does(u[i])
  <2> HIDE DEF u, m, n
  <2> QED
    BY <1>1, DoingsParts
<1> HIDE DEF f, g, h, u, m, n
<1>5. \A i \in 1 .. m : h[i] = f[i]
  BY <1>1, <1>2, <1>4
<1>6. ASSUME NEW i \in 1 .. n
      PROVE  h[m + i] = g[i]
  <2>1. m + i \in 1 .. m + n
    BY <1>1
  <2> QED
    BY <1>1, <1>3, <1>4, <2>1
<1>7. FlattenSeq(h) = FlattenSeq(f) \o FlattenSeq(g)
  <2>1. Len(h) = Len(f) + Len(g) /\ Len(f) = m
    BY <1>2, <1>3, <1>4
  <2>2. \A i \in 1 .. Len(f) : h[i] = f[i]
    BY <1>5, <2>1
  <2>3. \A i \in 1 .. Len(g) : h[Len(f) + i] = g[i]
    BY <1>3, <1>6, <2>1
  <2>4. f \in Seq(Seq(Act)) /\ g \in Seq(Seq(Act)) /\ h \in Seq(Seq(Act))
    BY <1>2, <1>3, <1>4
  <2> QED
    BY <2>1, <2>2, <2>3, <2>4, FlattenJoin
<1>8. Doings(q) \in Seq(Act) /\ Doings(r) \in Seq(Act)
  BY DoingsParts
<1> QED
  BY <1>7, <1>8 DEF Doings, f, g, h, u

LEMMA DoingsOne ==
  ASSUME NEW c \in Command
  PROVE  Doings(<<c>>) = Does(c) /\ Doings(<<>>) = <<>>
<1>1. [i \in 1 .. Len(<<c>>) |-> Does(<<c>>[i])] = <<Does(c)>>
  <2> DEFINE f == [i \in 1 .. 1 |-> Does(<<c>>[i])]
  <2>1. Does(c) \in Seq(Act) /\ Len(<<c>>) = 1 /\ <<c>>[1] = c
    BY DoesType
  <2>2. f \in [1 .. 1 -> Seq(Act)] /\ f[1] = Does(c)
    BY <2>1
  <2>3. <<Does(c)>> \in Seq(Seq(Act)) /\ Len(<<Does(c)>>) = 1 /\ <<Does(c)>>[1] = Does(c)
    BY <2>1
  <2> HIDE DEF f
  <2>4. f \in Seq(Seq(Act)) /\ Len(f) = 1
    BY <2>2, FunSeq
  <2>5. f = <<Does(c)>>
    BY <2>2, <2>3, <2>4, SeqEqual
  <2> QED
    BY <2>1, <2>5 DEF f
<1>2. FlattenSeq(<<Does(c)>>) = Does(c)
  BY DoesType, FlattenOne
<1>3. [i \in 1 .. Len(<<>>) |-> Does(<<>>[i])] = <<>>
  BY EmptySeq, FunSeq
<1> QED
  BY <1>1, <1>2, <1>3, FlattenEmpty DEF Doings

LEMMA PlanParts ==
  ASSUME NEW q \in Seq(Steps)
  PROVE  /\ [i \in 1 .. Len(q) |-> Plans(q[i])] \in Seq(Seq(Act))
         /\ Len([i \in 1 .. Len(q) |-> Plans(q[i])]) = Len(q)
         /\ Plan(q) \in Seq(Act)
<1>1. Len(q) \in Nat /\ \A i \in 1 .. Len(q) : q[i] \in Steps
  OBVIOUS
<1> DEFINE f == [i \in 1 .. Len(q) |-> Plans(q[i])]
<1>2. f \in [1 .. Len(q) -> Seq(Act)]
  BY <1>1, PlansType
<1>3. f \in Seq(Seq(Act)) /\ Len(f) = Len(q)
  <2> HIDE DEF f
  <2> QED
    BY <1>1, <1>2, FunSeq
<1>4. FlattenSeq(f) \in Seq(Act)
  <2> HIDE DEF f
  <2>1. <<>> \in Seq(Act)
    OBVIOUS
  <2> QED
    BY <1>3, <2>1, FlattenAppend
<1> QED
  BY <1>3, <1>4 DEF Plan

LEMMA PlanConcat ==
  ASSUME NEW q \in Seq(Steps), NEW r \in Seq(Steps)
  PROVE  /\ Plan(q \o r) = Plan(q) \o Plan(r)
         /\ Plan(q) \in Seq(Act) /\ Plan(r) \in Seq(Act)
<1> DEFINE f == [i \in 1 .. Len(q) |-> Plans(q[i])]
           g == [i \in 1 .. Len(r) |-> Plans(r[i])]
           u == q \o r
           h == [i \in 1 .. Len(u) |-> Plans(u[i])]
           m == Len(q)
           n == Len(r)
<1>1. /\ u \in Seq(Steps) /\ Len(u) = m + n /\ m \in Nat /\ n \in Nat
      /\ \A i \in 1 .. m : u[i] = q[i]
      /\ \A i \in 1 .. n : u[m + i] = r[i]
  BY ConcatElements
<1>2. f \in Seq(Seq(Act)) /\ Len(f) = m /\ \A i \in 1 .. m : f[i] = Plans(q[i])
  BY PlanParts
<1>3. g \in Seq(Seq(Act)) /\ Len(g) = n /\ \A i \in 1 .. n : g[i] = Plans(r[i])
  BY PlanParts
<1>4. h \in Seq(Seq(Act)) /\ Len(h) = m + n /\ \A i \in 1 .. m + n : h[i] = Plans(u[i])
  <2> HIDE DEF u, m, n
  <2> QED
    BY <1>1, PlanParts
<1> HIDE DEF f, g, h, u, m, n
<1>5. \A i \in 1 .. m : h[i] = f[i]
  BY <1>1, <1>2, <1>4
<1>6. ASSUME NEW i \in 1 .. n
      PROVE  h[m + i] = g[i]
  <2>1. m + i \in 1 .. m + n
    BY <1>1
  <2> QED
    BY <1>1, <1>3, <1>4, <2>1
<1>7. FlattenSeq(h) = FlattenSeq(f) \o FlattenSeq(g)
  <2>1. Len(h) = Len(f) + Len(g) /\ Len(f) = m
    BY <1>2, <1>3, <1>4
  <2>2. \A i \in 1 .. Len(f) : h[i] = f[i]
    BY <1>5, <2>1
  <2>3. \A i \in 1 .. Len(g) : h[Len(f) + i] = g[i]
    BY <1>3, <1>6, <2>1
  <2>4. f \in Seq(Seq(Act)) /\ g \in Seq(Seq(Act)) /\ h \in Seq(Seq(Act))
    BY <1>2, <1>3, <1>4
  <2> QED
    BY <2>1, <2>2, <2>3, <2>4, FlattenJoin
<1>8. Plan(q) \in Seq(Act) /\ Plan(r) \in Seq(Act)
  BY PlanParts
<1> QED
  BY <1>7, <1>8 DEF Plan, f, g, h, u

LEMMA PlanOne ==
  ASSUME NEW x \in Steps
  PROVE  Plan(<<x>>) = Plans(x) /\ Plan(<<>>) = <<>>
<1>1. [i \in 1 .. Len(<<x>>) |-> Plans(<<x>>[i])] = <<Plans(x)>>
  <2> DEFINE f == [i \in 1 .. 1 |-> Plans(<<x>>[i])]
  <2>1. Plans(x) \in Seq(Act) /\ Len(<<x>>) = 1 /\ <<x>>[1] = x
    BY PlansType
  <2>2. f \in [1 .. 1 -> Seq(Act)] /\ f[1] = Plans(x)
    BY <2>1
  <2>3. <<Plans(x)>> \in Seq(Seq(Act)) /\ Len(<<Plans(x)>>) = 1 /\ <<Plans(x)>>[1] = Plans(x)
    BY <2>1
  <2> HIDE DEF f
  <2>4. f \in Seq(Seq(Act)) /\ Len(f) = 1
    BY <2>2, FunSeq
  <2>5. f = <<Plans(x)>>
    BY <2>2, <2>3, <2>4, SeqEqual
  <2> QED
    BY <2>1, <2>5 DEF f
<1>2. FlattenSeq(<<Plans(x)>>) = Plans(x)
  BY PlansType, FlattenOne
<1>3. [i \in 1 .. Len(<<>>) |-> Plans(<<>>[i])] = <<>>
  BY EmptySeq, FunSeq
<1> QED
  BY <1>1, <1>2, <1>3, FlattenEmpty DEF Plan


-----------------------------------------------------------------------------
(* Totals                                                                  *)

\* f[i] adds up the first i numbers
Sums(f, s, n) == f[0] = 0 /\ \A i \in 1 .. n : f[i] = f[i - 1] + s[i]

LEMMA TotalParts ==
  ASSUME NEW s \in Seq(Nat)
  PROVE  \E f \in [0 .. Len(s) -> Nat] : Sums(f, s, Len(s)) /\ Total(s) = f[Len(s)]
<1> DEFINE n == Len(s)
           T == {k \in 1 .. n + 1 : ~ \E f \in [0 .. k - 1 -> Nat] : Sums(f, s, k - 1)}
<1>0. n \in Nat /\ n + 1 \in Nat /\ \A i \in 1 .. n : s[i] \in Nat
  OBVIOUS
<1> HIDE DEF n
<1>1. 1 \notin T
  <2> DEFINE g == [i \in 0 .. 0 |-> 0]
  <2>1. g \in [0 .. 0 -> Nat] /\ g[0] = 0 /\ 1 .. 0 = {}
    OBVIOUS
  <2> HIDE DEF g
  <2>2. Sums(g, s, 0) /\ 1 - 1 = 0
    BY <2>1 DEF Sums
  <2> QED
    BY <2>1, <2>2
<1>2. ASSUME NEW k \in 1 .. n + 1, k + 1 \in T, k \notin T
      PROVE  FALSE
  <2>1. PICK f \in [0 .. k - 1 -> Nat] : Sums(f, s, k - 1)
    BY <1>2
  <2>2. k \in 1 .. n /\ (k + 1) - 1 = k /\ k - 1 \in 0 .. k - 1
    BY <1>0, <1>2
  <2> DEFINE g == [i \in 0 .. k |-> IF i = k THEN f[k - 1] + s[k] ELSE f[i]]
  <2>3. g \in [0 .. k -> Nat]
    BY <1>0, <2>2
  <2>4. g[k] = f[k - 1] + s[k] /\ \A i \in 0 .. k - 1 : g[i] = f[i]
    BY <2>2
  <2> HIDE DEF g
  <2>5. g[0] = 0
    BY <2>1, <2>2, <2>4 DEF Sums
  <2>6. ASSUME NEW i \in 1 .. k
        PROVE  g[i] = g[i - 1] + s[i]
    <3>1. CASE i = k
      BY <2>2, <2>4, <3>1
    <3>2. CASE i # k
      <4>1. i \in 1 .. k - 1 /\ i \in 0 .. k - 1 /\ i - 1 \in 0 .. k - 1
        BY <2>2, <3>2
      <4>2. f[i] = f[i - 1] + s[i]
        BY <2>1, <4>1 DEF Sums
      <4> QED
        BY <2>4, <4>1, <4>2
    <3> QED
      BY <3>1, <3>2
  <2>7. Sums(g, s, k)
    BY <2>5, <2>6 DEF Sums
  <2> QED
    BY <1>2, <2>2, <2>3, <2>7
<1>3. T = {}
  <2> HIDE DEF T
  <2>1. T \in SUBSET (1 .. n + 1)
    BY DEF T
  <2> QED
    BY <1>0, <1>1, <1>2, <2>1, UpTo
<1>4. PICK f \in [0 .. n -> Nat] : Sums(f, s, n)
  <2>1. n + 1 \in 1 .. n + 1 /\ (n + 1) - 1 = n
    BY <1>0
  <2>2. n + 1 \notin T
    <3> HIDE DEF T
    <3> QED
      BY <1>3
  <2> QED
    BY <2>1, <2>2
<1> DEFINE Body(h, i) == IF i = 0 THEN 0 ELSE h[i - 1] + s[i]
           R(h) == h = [i \in 0 .. n |-> Body(h, i)]
           g == CHOOSE h : R(h)
<1>5. R(f)
  <2>1. \A i \in 0 .. n : f[i] = Body(f, i)
    <3> TAKE i \in 0 .. n
    <3>1. i = 0 \/ i \in 1 .. n
      BY <1>0
    <3> QED
      BY <1>4, <3>1 DEF Sums
  <2> HIDE DEF Body
  <2> QED
    BY <2>1
<1>6. R(g)
  <2> HIDE DEF R
  <2> QED
    BY <1>5
<1>7. Total(s) = g[n]
  BY DEF Total, n
<1> HIDE DEF g
<1>8. \A i \in 0 .. n : g[i] = Body(g, i)
  <2> HIDE DEF Body
  <2> QED
    BY <1>6
<1>9. Sums(g, s, n)
  <2>1. 0 \in 0 .. n /\ \A i \in 1 .. n : i \in 0 .. n /\ i # 0
    BY <1>0
  <2> QED
    BY <1>8, <2>1 DEF Sums
<1>10. \A i \in 0 .. n : g[i] \in Nat
  <2> DEFINE U == {i \in 1 .. n + 1 : g[i - 1] \notin Nat}
  <2>1. 1 \notin U
    BY <1>9 DEF Sums
  <2>2. ASSUME NEW i \in 1 .. n + 1, i + 1 \in U, i \notin U
        PROVE  FALSE
    <3>1. i \in 1 .. n /\ (i + 1) - 1 = i
      BY <1>0, <2>2
    <3>2. g[i] = g[i - 1] + s[i]
      BY <1>9, <3>1 DEF Sums
    <3> QED
      BY SMTT(30), <1>0, <2>2, <3>1, <3>2
  <2> HIDE DEF U
  <2>3. U \in SUBSET (1 .. n + 1)
    BY DEF U
  <2>4. U = {}
    BY <1>0, <2>1, <2>2, <2>3, UpTo
  <2> TAKE i \in 0 .. n
  <2>5. i + 1 \in 1 .. n + 1 /\ (i + 1) - 1 = i
    BY <1>0
  <2> QED
    BY <2>4, <2>5 DEF U
<1>11. g \in [0 .. n -> Nat]
  <2>1. g = [i \in 0 .. n |-> Body(g, i)]
    BY <1>6
  <2> HIDE DEF Body
  <2> QED
    BY <1>10, <2>1
<1> QED
  BY <1>7, <1>9, <1>11 DEF n

LEMMA TotalType ==
  ASSUME NEW s \in Seq(Nat)
  PROVE  Total(s) \in Nat
<1>1. PICK f \in [0 .. Len(s) -> Nat] : Sums(f, s, Len(s)) /\ Total(s) = f[Len(s)]
  BY TotalParts
<1>2. Len(s) \in 0 .. Len(s)
  OBVIOUS
<1> QED
  BY <1>1, <1>2

\* What comes after m zeros is all that counts
LEMMA TotalZeros ==
  ASSUME NEW s \in Seq(Nat), NEW u \in Seq(Nat), NEW m \in Nat, Len(u) = m + Len(s),
         \A i \in 1 .. m : u[i] = 0,
         \A i \in 1 .. Len(s) : u[m + i] = s[i]
  PROVE  Total(u) = Total(s)
<1> DEFINE n == Len(s)
<1>0. n \in Nat /\ Len(u) = m + n /\ \A i \in 1 .. n : u[m + i] = s[i]
  OBVIOUS
<1>1. PICK f \in [0 .. n -> Nat] : Sums(f, s, n) /\ Total(s) = f[n]
  BY TotalParts
<1>2. PICK g \in [0 .. m + n -> Nat] : Sums(g, u, m + n) /\ Total(u) = g[m + n]
  <2>1. \E g \in [0 .. Len(u) -> Nat] : Sums(g, u, Len(u)) /\ Total(u) = g[Len(u)]
    BY TotalParts
  <2> QED
    BY <1>0, <2>1
<1> HIDE DEF n
<1> DEFINE F(k) == IF k <= m THEN 0 ELSE f[k - m]
           T == {k \in 1 .. m + n + 1 : g[k - 1] # F(k - 1)}
<1>3. f[0] = 0 /\ g[0] = 0
  BY <1>1, <1>2 DEF Sums
<1>4. 1 \notin T
  BY <1>3
<1>5. ASSUME NEW k \in 1 .. m + n + 1, k + 1 \in T, k \notin T
      PROVE  FALSE
  <2>1. k \in 1 .. m + n /\ (k + 1) - 1 = k
    BY <1>0, <1>5
  <2>2. g[k] = g[k - 1] + u[k]
    BY <1>2, <2>1 DEF Sums
  <2>3. g[k] # F(k) /\ g[k - 1] = F(k - 1)
    BY <1>5, <2>1
  <2>4. CASE k <= m
    <3>1. u[k] = 0 /\ k - 1 <= m
      BY <2>1, <2>4
    <3> QED
      BY <2>2, <2>3, <2>4, <3>1
  <2>5. CASE k > m
    <3> DEFINE j == k - m
    <3>1. j \in 1 .. n /\ m + j = k /\ j - 1 \in 0 .. n /\ (k - 1) - m = j - 1
      BY <1>0, <2>1, <2>5
    <3> HIDE DEF j
    <3>2. u[k] = s[j]
      BY <1>0, <3>1
    <3>3. f[j] = f[j - 1] + s[j]
      BY <1>1, <3>1 DEF Sums
    <3>4. F(k) = f[j]
      BY <2>5, <3>1 DEF j
    <3>5. F(k - 1) = f[j - 1]
      <4>1. CASE k - 1 <= m
        <5>1. j - 1 = 0
          BY <2>5, <3>1, <4>1
        <5> QED
          BY <1>3, <4>1, <5>1
      <4>2. CASE ~ (k - 1 <= m)
        BY <3>1, <4>2
      <4> QED
        BY <4>1, <4>2
    <3> HIDE DEF F
    <3> QED
      BY <2>2, <2>3, <3>2, <3>3, <3>4, <3>5
  <2> QED
    BY <1>0, <2>1, <2>4, <2>5
<1>6. T = {}
  <2> HIDE DEF T
  <2>1. T \in SUBSET (1 .. m + n + 1) /\ m + n + 1 \in Nat
    BY <1>0 DEF T
  <2> QED
    BY <1>4, <1>5, <2>1, UpTo
<1>7. m + n + 1 \in 1 .. m + n + 1 /\ (m + n + 1) - 1 = m + n
  BY <1>0
<1>8. g[m + n] = F(m + n)
  <2> HIDE DEF F
  <2> QED
    BY <1>6, <1>7
<1>9. F(m + n) = f[n]
  <2>1. CASE n = 0
    BY <1>0, <1>3, <2>1
  <2>2. CASE n # 0
    <3>1. ~ (m + n <= m) /\ (m + n) - m = n
      BY <1>0, <2>2
    <3> QED
      BY <3>1
  <2> QED
    BY <2>1, <2>2
<1> QED
  BY <1>1, <1>2, <1>8, <1>9

\* One more
LEMMA TotalMore ==
  ASSUME NEW s \in Seq(Nat), NEW u \in Seq(Nat), NEW x \in Nat, Len(u) = Len(s) + 1,
         \A i \in 1 .. Len(s) : u[i] = s[i], u[Len(s) + 1] = x
  PROVE  Total(u) = Total(s) + x
<1> DEFINE n == Len(s)
<1>0. n \in Nat /\ Len(u) = n + 1 /\ u[n + 1] = x /\ \A i \in 1 .. n : u[i] = s[i]
  OBVIOUS
<1>1. PICK f \in [0 .. n -> Nat] : Sums(f, s, n) /\ Total(s) = f[n]
  BY TotalParts
<1>2. PICK g \in [0 .. n + 1 -> Nat] : Sums(g, u, n + 1) /\ Total(u) = g[n + 1]
  <2>1. \E g \in [0 .. Len(u) -> Nat] : Sums(g, u, Len(u)) /\ Total(u) = g[Len(u)]
    BY TotalParts
  <2> QED
    BY <1>0, <2>1
<1> HIDE DEF n
<1> DEFINE T == {k \in 1 .. n + 1 : g[k - 1] # f[k - 1]}
<1>3. 1 \notin T
  BY <1>1, <1>2 DEF Sums
<1>4. ASSUME NEW k \in 1 .. n + 1, k + 1 \in T, k \notin T
      PROVE  FALSE
  <2>1. k \in 1 .. n /\ k \in 1 .. n + 1 /\ (k + 1) - 1 = k
    BY <1>0, <1>4
  <2>2. g[k] = g[k - 1] + u[k] /\ f[k] = f[k - 1] + s[k]
    BY <1>1, <1>2, <2>1 DEF Sums
  <2> QED
    BY <1>0, <1>4, <2>1, <2>2
<1>5. T = {}
  <2> HIDE DEF T
  <2>1. T \in SUBSET (1 .. n + 1) /\ n + 1 \in Nat
    BY <1>0 DEF T
  <2> QED
    BY <1>3, <1>4, <2>1, UpTo
<1>6. n + 1 \in 1 .. n + 1 /\ (n + 1) - 1 = n
  BY <1>0
<1>7. g[n] = f[n]
  BY <1>5, <1>6
<1>8. g[n + 1] = g[n] + x
  BY <1>0, <1>2, <1>6 DEF Sums
<1> QED
  BY <1>1, <1>2, <1>7, <1>8

LEMMA TotalNothing ==
  ASSUME NEW s \in Seq(Nat), \A i \in 1 .. Len(s) : s[i] = 0
  PROVE  Total(s) = 0
<1>1. <<>> \in Seq(Nat) /\ Len(<<>>) = 0
  OBVIOUS
<1>2. Total(s) = Total(<<>>)
  <2> DEFINE e == <<>>
             m == Len(s)
  <2>1. /\ e \in Seq(Nat) /\ m \in Nat /\ Len(s) = m + Len(e) /\ 1 .. Len(e) = {}
        /\ \A i \in 1 .. m : s[i] = 0
    OBVIOUS
  <2> HIDE DEF e, m
  <2>2. \A i \in 1 .. Len(e) : s[m + i] = e[i]
    BY <2>1
  <2>3. Total(s) = Total(e)
    BY <2>1, <2>2, TotalZeros
  <2> QED
    BY <2>3 DEF e
<1>3. PICK f \in [0 .. Len(<<>>) -> Nat] : Sums(f, <<>>, Len(<<>>)) /\ Total(<<>>) = f[Len(<<>>)]
  BY <1>1, TotalParts
<1> QED
  BY <1>1, <1>2, <1>3 DEF Sums

LEMMA TotalSomething ==
  ASSUME NEW s \in Seq(Nat), NEW j \in 1 .. Len(s), s[j] # 0
  PROVE  Total(s) > 0
<1> DEFINE n == Len(s)
<1>0. n \in Nat /\ j \in 1 .. n /\ \A i \in 1 .. n : s[i] \in Nat
  OBVIOUS
<1>1. PICK f \in [0 .. n -> Nat] : Sums(f, s, n) /\ Total(s) = f[n]
  BY TotalParts
<1> HIDE DEF n
<1> DEFINE T == {k \in 1 .. n : k >= j /\ ~ (f[k] > 0)}
<1>2. \A k \in 1 .. n : f[k] = f[k - 1] + s[k] /\ f[k - 1] \in Nat /\ f[k] \in Nat
  <2> TAKE k \in 1 .. n
  <2>1. k - 1 \in 0 .. n /\ k \in 0 .. n
    BY <1>0
  <2> QED
    BY <1>1, <2>1 DEF Sums
<1>3. f[j] > 0
  BY SMTT(30), <1>0, <1>2
<1>4. 1 \notin T
  <2>1. 1 >= j => j = 1
    BY <1>0
  <2> QED
    BY <1>3, <2>1
<1>5. ASSUME NEW k \in 1 .. n, k + 1 \in T, k \notin T
      PROVE  FALSE
  <2>1. k + 1 \in 1 .. n /\ (k + 1) - 1 = k /\ k + 1 >= j /\ ~ (f[k + 1] > 0)
    BY <1>0, <1>5
  <2>2. k + 1 # j
    BY <1>3, <2>1
  <2>3. k >= j
    BY <1>0, <2>1, <2>2
  <2>4. f[k] > 0
    BY <1>5, <2>3
  <2>5. f[k + 1] = f[k] + s[k + 1] /\ s[k + 1] \in Nat /\ f[k] \in Nat
    BY <1>0, <1>2, <2>1
  <2> QED
    BY <2>1, <2>4, <2>5
<1>6. T = {}
  <2> HIDE DEF T
  <2>1. T \in SUBSET (1 .. n)
    BY DEF T
  <2> QED
    BY <1>0, <1>4, <1>5, <2>1, UpTo
<1>7. n \in 1 .. n /\ n >= j
  BY <1>0
<1> QED
  BY <1>1, <1>6, <1>7


-----------------------------------------------------------------------------
(* What the operation buffer is about to hold                              *)

Size(c) == IF Queues(c) THEN Length(c) ELSE 0

LEMMA KeptType ==
  ASSUME NEW q \in Seq(Command)
  PROVE  /\ Kept(q) \in Seq(Nat) /\ Len(Kept(q)) = Len(q)
         /\ \A i \in 1 .. Len(q) :
              Kept(q)[i] = IF \A j \in 1 .. Len(q) : j > i => q[j] # Exec THEN Size(q[i]) ELSE 0
         /\ \A i \in 1 .. Len(q) : Size(q[i]) \in Nat /\ (Queues(q[i]) => Size(q[i]) # 0)
<1>1. /\ Len(q) \in Nat /\ DOMAIN q = 1 .. Len(q) /\ \A i \in 1 .. Len(q) : q[i] \in Command
  OBVIOUS
<1>2. \A i \in 1 .. Len(q) : Size(q[i]) \in Nat /\ (Queues(q[i]) => Size(q[i]) # 0)
  <2> TAKE i \in 1 .. Len(q)
  <2>1. Queues(q[i]) => ~IsTold(q[i])
    BY DEF Queues, IsTold
  <2>2. Queues(q[i]) => Length(q[i]) \in Nat \ {0}
    BY <1>1, <2>1, LengthType
  <2> QED
    BY <2>2 DEF Size
<1> DEFINE Last1(i) == \A j \in 1 .. Len(q) : j > i => q[j] # Exec
           f == [i \in 1 .. Len(q) |-> IF Last1(i) THEN Size(q[i]) ELSE 0]
<1>3. Kept(q) = f
  BY <1>1 DEF Kept, Size
<1>4. f \in [1 .. Len(q) -> Nat] /\ \A i \in 1 .. Len(q) : f[i] = IF Last1(i) THEN Size(q[i]) ELSE 0
  <2> HIDE DEF Last1
  <2> QED
    BY <1>2
<1>5. f \in Seq(Nat) /\ Len(f) = Len(q)
  <2> HIDE DEF f
  <2> QED
    BY <1>1, <1>4, FunSeq
<1> QED
  BY <1>2, <1>3, <1>4, <1>5

\* A command that is no O_EXEC
LEMMA KeptMore ==
  ASSUME NEW q \in Seq(Command), NEW c \in Command, c # Exec
  PROVE  Total(Kept(Append(q, c))) = Total(Kept(q)) + Size(c)
<1> DEFINE u == Append(q, c)
           n == Len(q)
<1>1. /\ u \in Seq(Command) /\ Len(u) = n + 1 /\ n \in Nat
      /\ \A i \in 1 .. n : u[i] = q[i]
      /\ u[n + 1] = c
  BY AppendProperties
<1>2. /\ Kept(q) \in Seq(Nat) /\ Len(Kept(q)) = n
      /\ \A i \in 1 .. n :
           Kept(q)[i] = IF \A j \in 1 .. n : j > i => q[j] # Exec THEN Size(q[i]) ELSE 0
  BY KeptType
<1> HIDE DEF u
<1>3. /\ Kept(u) \in Seq(Nat) /\ Len(Kept(u)) = n + 1
      /\ \A i \in 1 .. n + 1 :
           Kept(u)[i] = IF \A j \in 1 .. n + 1 : j > i => u[j] # Exec THEN Size(u[i]) ELSE 0
      /\ \A i \in 1 .. n + 1 : Size(u[i]) \in Nat
  <2>1. /\ Kept(u) \in Seq(Nat) /\ Len(Kept(u)) = Len(u)
        /\ \A i \in 1 .. Len(u) :
             Kept(u)[i] = IF \A j \in 1 .. Len(u) : j > i => u[j] # Exec THEN Size(u[i]) ELSE 0
        /\ \A i \in 1 .. Len(u) : Size(u[i]) \in Nat
    BY <1>1, KeptType
  <2> QED
    BY <1>1, <2>1
<1> HIDE DEF n
<1>4. ASSUME NEW i \in 1 .. n
      PROVE  Kept(u)[i] = Kept(q)[i]
  <2>1. (\A j \in 1 .. n + 1 : j > i => u[j] # Exec) <=> (\A j \in 1 .. n : j > i => q[j] # Exec)
    <3>1. \A j \in 1 .. n + 1 : j = n + 1 \/ j \in 1 .. n
      BY <1>1
    <3>2. \A j \in 1 .. n : j \in 1 .. n + 1
      BY <1>1
    <3> QED
      BY <1>1, <3>1, <3>2
  <2>2. i \in 1 .. n + 1 /\ u[i] = q[i]
    BY <1>1
  <2> QED
    BY <1>2, <1>3, <2>1, <2>2
<1>5. Kept(u)[n + 1] = Size(c) /\ Size(c) \in Nat
  <2>1. n + 1 \in 1 .. n + 1 /\ \A j \in 1 .. n + 1 : ~ (j > n + 1)
    BY <1>1
  <2> QED
    BY <1>1, <1>3, <2>1
<1>6. Total(Kept(u)) = Total(Kept(q)) + Size(c)
  BY <1>2, <1>3, <1>4, <1>5, TotalMore
<1> QED
  BY <1>6 DEF u

\* O_EXEC
LEMMA KeptExec ==
  ASSUME NEW q \in Seq(Command)
  PROVE  Total(Kept(Append(q, Exec))) = 0
<1> DEFINE u == Append(q, Exec)
           n == Len(q)
<1>1. Exec \in Command /\ ~Queues(Exec)
  BY SendableCommands DEF Sendable, Queues, Exec
<1>2. u \in Seq(Command) /\ Len(u) = n + 1 /\ n \in Nat /\ u[n + 1] = Exec
  BY <1>1, AppendProperties
<1> HIDE DEF u, n
<1>3. /\ Kept(u) \in Seq(Nat) /\ Len(Kept(u)) = Len(u)
      /\ \A i \in 1 .. Len(u) :
           Kept(u)[i] = IF \A j \in 1 .. Len(u) : j > i => u[j] # Exec THEN Size(u[i]) ELSE 0
  BY <1>2, KeptType
<1>4. ASSUME NEW i \in 1 .. Len(u)
      PROVE  Kept(u)[i] = 0
  <2>1. n + 1 \in 1 .. Len(u) /\ (i = n + 1 \/ n + 1 > i)
    BY <1>2
  <2>2. CASE i = n + 1
    <3>1. Size(u[i]) = 0
      BY <1>1, <1>2, <2>2 DEF Size
    <3> QED
      BY <1>3, <3>1
  <2>3. CASE n + 1 > i
    BY <1>2, <1>3, <2>1, <2>3
  <2> QED
    BY <2>1, <2>2, <2>3
<1>5. Total(Kept(u)) = 0
  BY <1>3, <1>4, TotalNothing
<1> QED
  BY <1>5 DEF u

\* O_EXEC has been obeyed
LEMMA KeptAfterExec ==
  ASSUME NEW p \in Seq(Command), NEW r \in Seq(Command), r # <<>>, Head(r) = Exec
  PROVE  Total(Kept(p \o r)) = Total(Kept(Tail(r)))
<1> DEFINE u == p \o r
           s == Tail(r)
           m == Len(p) + 1
           n == Len(s)
<1>1. ~Queues(Exec)
  BY DEF Queues, Exec
<1>2. /\ s \in Seq(Command) /\ Len(r) = n + 1 /\ n \in Nat /\ m \in Nat
      /\ r[1] = Exec /\ \A i \in 1 .. n : s[i] = r[i + 1]
  BY HeadTailProperties
<1>3. /\ u \in Seq(Command) /\ Len(u) = m + n /\ u[m] = Exec
      /\ \A i \in 1 .. n : u[m + i] = s[i]
  <2>1. /\ u \in Seq(Command) /\ Len(u) = Len(p) + Len(r) /\ Len(p) \in Nat
        /\ \A i \in 1 .. Len(r) : u[Len(p) + i] = r[i]
    BY ConcatElements
  <2> HIDE DEF u, s, n
  <2>2. 1 \in 1 .. Len(r) /\ \A i \in 1 .. n : i + 1 \in 1 .. Len(r) /\ Len(p) + (i + 1) = m + i
    BY <1>2, <2>1
  <2> QED
    BY <1>2, <2>1, <2>2
<1> HIDE DEF u, s, m, n
<1>4. /\ Kept(u) \in Seq(Nat) /\ Len(Kept(u)) = m + n
      /\ \A i \in 1 .. m + n :
           Kept(u)[i] = IF \A j \in 1 .. m + n : j > i => u[j] # Exec THEN Size(u[i]) ELSE 0
  <2>1. /\ Kept(u) \in Seq(Nat) /\ Len(Kept(u)) = Len(u)
        /\ \A i \in 1 .. Len(u) :
             Kept(u)[i] = IF \A j \in 1 .. Len(u) : j > i => u[j] # Exec THEN Size(u[i]) ELSE 0
    BY <1>3, KeptType
  <2> QED
    BY <1>3, <2>1
<1>5. /\ Kept(s) \in Seq(Nat) /\ Len(Kept(s)) = n
      /\ \A i \in 1 .. n :
           Kept(s)[i] = IF \A j \in 1 .. n : j > i => s[j] # Exec THEN Size(s[i]) ELSE 0
  <2>1. Len(s) = n
    BY DEF n
  <2> QED
    BY <1>2, <2>1, KeptType
<1>m. m \in 1 .. m + n
  BY <1>2 DEF m
<1>6. ASSUME NEW i \in 1 .. m
      PROVE  Kept(u)[i] = 0
  <2>1. m \in 1 .. m + n /\ i \in 1 .. m + n /\ (i = m \/ m > i)
    BY <1>2, <1>m
  <2>2. CASE i = m
    <3>1. Size(u[i]) = 0
      BY <1>1, <1>3, <2>2 DEF Size
    <3> QED
      BY <1>4, <2>1, <3>1
  <2>3. CASE m > i
    BY <1>3, <1>4, <2>1, <2>3
  <2> QED
    BY <2>1, <2>2, <2>3
<1>7. ASSUME NEW i \in 1 .. n
      PROVE  Kept(u)[m + i] = Kept(s)[i]
  <2>1. m + i \in 1 .. m + n
    BY <1>2
  <2>2. (\A j \in 1 .. m + n : j > m + i => u[j] # Exec) <=> (\A j \in 1 .. n : j > i => s[j] # Exec)
    <3>1. ASSUME \A j \in 1 .. n : j > i => s[j] # Exec, NEW j \in 1 .. m + n, j > m + i
          PROVE  u[j] # Exec
      <4> DEFINE k == j - m
      <4>1. k \in 1 .. n /\ m + k = j /\ k > i
        BY <1>2, <3>1
      <4> HIDE DEF k
      <4> QED
        BY <1>3, <3>1, <4>1
    <3>2. ASSUME \A j \in 1 .. m + n : j > m + i => u[j] # Exec, NEW j \in 1 .. n, j > i
          PROVE  s[j] # Exec
      <4>1. m + j \in 1 .. m + n /\ m + j > m + i
        BY <1>2, <3>2
      <4> QED
        BY <1>3, <3>2, <4>1
    <3> QED
      BY <3>1, <3>2
  <2> QED
    <3>1. Kept(u)[m + i] = IF \A j \in 1 .. m + n : j > m + i => u[j] # Exec THEN Size(u[m + i]) ELSE 0
      BY <1>4, <2>1
    <3>2. Kept(s)[i] = IF \A j \in 1 .. n : j > i => s[j] # Exec THEN Size(s[i]) ELSE 0
      BY <1>5
    <3>3. u[m + i] = s[i]
      BY <1>3
    <3> QED
      BY <2>2, <3>1, <3>2, <3>3
<1>8. Total(Kept(u)) = Total(Kept(s))
  BY <1>2, <1>4, <1>5, <1>6, <1>7, TotalZeros
<1> QED
  BY <1>8 DEF u, s

\* Nothing is left
LEMMA KeptNothing ==
  ASSUME NEW q \in Seq(Command), Total(Kept(q)) = 0, \A i \in 1 .. Len(q) : q[i] # Exec
  PROVE  \A i \in 1 .. Len(q) : ~Queues(q[i])
<1> SUFFICES ASSUME NEW i \in 1 .. Len(q), Queues(q[i])
             PROVE  FALSE
  OBVIOUS
<1>1. Kept(q) \in Seq(Nat) /\ Len(Kept(q)) = Len(q) /\ Kept(q)[i] = Size(q[i]) /\ Size(q[i]) # 0
  BY KeptType
<1>2. i \in 1 .. Len(Kept(q)) /\ Kept(q)[i] # 0
  BY <1>1
<1>3. Total(Kept(q)) > 0
  BY <1>1, <1>2, TotalSomething
<1> QED
  BY <1>3


-----------------------------------------------------------------------------
(* A step in front of an agenda                                            *)

LEMMA FrontIs ==
  ASSUME NEW x \in Steps, NEW t \in Seq(Steps), NEW u, u = <<x>> \o t
  PROVE  /\ u \in Seq(Steps) /\ Len(t) \in Nat /\ Len(u) = Len(t) + 1 /\ u # <<>>
         /\ u[1] = x /\ Head(u) = x /\ Tail(u) = t
         /\ \A i \in 1 .. Len(t) : u[i + 1] = t[i]
         /\ \A i \in 1 .. Len(u) : i = 1 \/ (i - 1 \in 1 .. Len(t) /\ u[i] = t[i - 1])
<1>1. /\ u \in Seq(Steps) /\ Len(t) \in Nat /\ Len(u) = Len(t) + 1 /\ u # <<>>
      /\ u[1] = x /\ Head(u) = x /\ Tail(u) = t
      /\ \A i \in 1 .. Len(t) : u[i + 1] = t[i]
  BY ConsIs
<1>2. ASSUME NEW i \in 1 .. Len(u), i # 1
      PROVE  i - 1 \in 1 .. Len(t) /\ u[i] = t[i - 1]
  <2>1. i - 1 \in 1 .. Len(t) /\ (i - 1) + 1 = i
    BY <1>1, <1>2
  <2>2. u[(i - 1) + 1] = t[i - 1]
    BY <1>1, <2>1
  <2> QED
    BY <2>1, <2>2
<1> QED
  BY <1>1, <1>2

LEMMA AfterElements ==
  ASSUME NEW t \in Seq(Steps), NEW m \in Nat \ {0}, m <= Len(t)
  PROVE  /\ After(t, m) \in Seq(Steps) /\ Len(After(t, m)) = Len(t) - m
         /\ \A j \in 1 .. Len(t) - m : After(t, m)[j] = t[m + j]
<1> DEFINE from == m + 1
           to == Len(t)
<1>1. from \in Int /\ to \in Int /\ \A j \in from .. to : t[j] \in Steps
  OBVIOUS
<1>2. from <= to \/ to = m
  OBVIOUS
<1>3. to - from + 1 = to - m /\ \A j \in 1 .. to - m : from + j - 1 = m + j
  OBVIOUS
<1>4. After(t, m) = SubSeq(t, from, to)
  BY DEF After
<1> HIDE DEF from, to
<1>5. /\ SubSeq(t, from, to) \in Seq(Steps)
      /\ Len(SubSeq(t, from, to)) = IF from <= to THEN to - from + 1 ELSE 0
      /\ \A j \in 1 .. to - from + 1 : SubSeq(t, from, to)[j] = t[from + j - 1]
  BY <1>1, SubSeqProperties
<1>6. Len(SubSeq(t, from, to)) = to - m
  <2>1. CASE from <= to
    BY <1>3, <1>5, <2>1
  <2>2. CASE ~ (from <= to)
    <3>1. to = m /\ m - m = 0
      BY <1>2, <2>2
    <3> QED
      BY <1>5, <2>2, <3>1
  <2> QED
    BY <2>1, <2>2
<1> QED
  BY <1>3, <1>4, <1>5, <1>6 DEF to

LEMMA AfterFirst ==
  ASSUME NEW x \in Steps, NEW t \in Seq(Steps), NEW u, u = <<x>> \o t
  PROVE  After(u, 1) = t
<1>1. u \in Seq(Steps) /\ u # <<>> /\ Tail(u) = t
  BY FrontIs
<1>2. Tail(u) = SubSeq(u, 2, Len(u))
  BY <1>1, TailIsSubSeq
<1> QED
  BY <1>1, <1>2 DEF After

LEMMA AfterFront ==
  ASSUME NEW x \in Steps, NEW t \in Seq(Steps), NEW u, u = <<x>> \o t, NEW i \in 1 .. Len(t)
  PROVE  After(u, i + 1) = After(t, i)
<1> DEFINE n == Len(t)
           m == i + 1
           a == After(u, m)
           b == After(t, i)
<1>1. /\ u \in Seq(Steps) /\ n \in Nat /\ Len(u) = n + 1 /\ i \in 1 .. n
      /\ \A j \in 1 .. n : u[j + 1] = t[j]
  BY FrontIs
<1>2. i \in Nat \ {0} /\ i <= Len(t) /\ m \in Nat \ {0} /\ m <= Len(u)
  BY <1>1
<1>3. b \in Seq(Steps) /\ Len(b) = n - i /\ \A j \in 1 .. n - i : b[j] = t[i + j]
  BY <1>2, AfterElements
<1>4. a \in Seq(Steps) /\ Len(a) = Len(u) - m /\ \A j \in 1 .. Len(u) - m : a[j] = u[m + j]
  <2> HIDE DEF m
  <2> QED
    BY <1>1, <1>2, AfterElements
<1>5. Len(u) - m = n - i
  BY <1>1
<1> HIDE DEF a, b
<1>6. ASSUME NEW j \in 1 .. n - i
      PROVE  a[j] = b[j]
  <2>1. m + j = (i + j) + 1 /\ i + j \in 1 .. n
    BY <1>1
  <2> HIDE DEF m, n
  <2>2. a[j] = u[(i + j) + 1] /\ b[j] = t[i + j]
    BY <1>3, <1>4, <1>5, <2>1
  <2> QED
    BY <1>1, <2>1, <2>2
<1>7. a = b
  <2> HIDE DEF m, n
  <2> QED
    BY <1>3, <1>4, <1>5, <1>6, SeqEqual
<1> QED
  BY <1>7 DEF a, b, m

LEMMA ShapeFront ==
  ASSUME NEW x \in Steps, NEW t \in Seq(Steps), NEW u, u = <<x>> \o t
  PROVE  Shape(u) <=> Fits(x, t) /\ Shape(t)
<1>1. /\ Len(t) \in Nat /\ Len(u) = Len(t) + 1 /\ u[1] = x
      /\ \A i \in 1 .. Len(t) : u[i + 1] = t[i]
      /\ \A i \in 1 .. Len(u) : i = 1 \/ (i - 1 \in 1 .. Len(t) /\ u[i] = t[i - 1])
  BY FrontIs
<1>2. After(u, 1) = t /\ \A i \in 1 .. Len(t) : After(u, i + 1) = After(t, i)
  <2>1. After(u, 1) = t
    BY AfterFirst
  <2>2. \A i \in 1 .. Len(t) : After(u, i + 1) = After(t, i)
    BY AfterFront
  <2> QED
    BY <2>1, <2>2
<1>3. ASSUME Shape(u)
      PROVE  Fits(x, t) /\ Shape(t)
  <2>1. \A i \in 1 .. Len(u) : Fits(u[i], After(u, i))
    BY <1>3 DEF Shape
  <2>2. 1 \in 1 .. Len(u) /\ \A i \in 1 .. Len(t) : i + 1 \in 1 .. Len(u)
    BY <1>1
  <2>3. Fits(x, t)
    BY <1>1, <1>2, <2>1, <2>2
  <2>4. \A i \in 1 .. Len(t) : Fits(t[i], After(t, i))
    BY <1>1, <1>2, <2>1, <2>2
  <2> QED
    BY <2>3, <2>4 DEF Shape
<1>4. ASSUME Fits(x, t), Shape(t)
      PROVE  Shape(u)
  <2>1. \A i \in 1 .. Len(t) : Fits(t[i], After(t, i))
    BY <1>4 DEF Shape
  <2>2. ASSUME NEW i \in 1 .. Len(u)
        PROVE  Fits(u[i], After(u, i))
    <3>1. CASE i = 1
      BY <1>1, <1>2, <1>4, <3>1
    <3>2. CASE i # 1
      <4> DEFINE j == i - 1
      <4>1. j \in 1 .. Len(t) /\ u[i] = t[j] /\ j + 1 = i
        BY <1>1, <3>2
      <4> HIDE DEF j
      <4>2. After(u, i) = After(t, j)
        BY <1>2, <4>1
      <4> QED
        BY <2>1, <4>1, <4>2
    <3> QED
      BY <3>1, <3>2
  <2> QED
    BY <2>2 DEF Shape
<1> QED
  BY <1>3, <1>4

LEMMA PassesFront ==
  ASSUME NEW x \in Steps, NEW t \in Seq(Steps), NEW u, u = <<x>> \o t, NEW e \in BOOLEAN,
         NEW f \in BOOLEAN, f => e \/ x.step = "pass", e => f, x.step = "pass" => f
  PROVE  Passes(u, e) <=> (NeedsPass(x) => e) /\ Passes(t, f)
<1>1. /\ Len(t) \in Nat /\ Len(u) = Len(t) + 1 /\ u[1] = x
      /\ \A i \in 1 .. Len(t) : u[i + 1] = t[i]
      /\ \A i \in 1 .. Len(u) : i = 1 \/ (i - 1 \in 1 .. Len(t) /\ u[i] = t[i - 1])
  BY FrontIs
<1>2. ASSUME Passes(u, e)
      PROVE  (NeedsPass(x) => e) /\ Passes(t, f)
  <2>1. \A i \in 1 .. Len(u) : NeedsPass(u[i]) => e \/ \E j \in 1 .. i - 1 : u[j].step = "pass"
    BY <1>2 DEF Passes
  <2>2. NeedsPass(x) => e
    <3>1. 1 \in 1 .. Len(u) /\ 1 .. 1 - 1 = {}
      BY <1>1
    <3> QED
      BY <1>1, <2>1, <3>1
  <2>3. ASSUME NEW i \in 1 .. Len(t), NeedsPass(t[i]), ~e, x.step # "pass"
        PROVE  \E j \in 1 .. i - 1 : t[j].step = "pass"
    <3>1. i + 1 \in 1 .. Len(u) /\ u[i + 1] = t[i] /\ (i + 1) - 1 = i
      BY <1>1
    <3>2. PICK k \in 1 .. i : u[k].step = "pass"
      BY <2>1, <2>3, <3>1
    <3>3. k # 1 /\ k \in 1 .. Len(u)
      BY <1>1, <2>3, <3>2
    <3>4. k - 1 \in 1 .. i - 1 /\ u[k] = t[k - 1]
      BY <1>1, <3>3
    <3> QED
      BY <3>2, <3>4
  <2> QED
    BY <2>2, <2>3 DEF Passes
<1>3. ASSUME NeedsPass(x) => e, Passes(t, f)
      PROVE  Passes(u, e)
  <2>1. \A i \in 1 .. Len(t) :
          NeedsPass(t[i]) => f \/ \E j \in 1 .. i - 1 : t[j].step = "pass"
    BY <1>3 DEF Passes
  <2>2. ASSUME NEW i \in 1 .. Len(u), NeedsPass(u[i]), ~e
        PROVE  \E j \in 1 .. i - 1 : u[j].step = "pass"
    <3>1. i # 1
      BY <1>1, <1>3, <2>2
    <3> DEFINE k == i - 1
    <3>2. k \in 1 .. Len(t) /\ u[i] = t[k] /\ k + 1 = i
      BY <1>1, <3>1
    <3> HIDE DEF k
    <3>3. CASE x.step = "pass"
      <4>1. 1 \in 1 .. i - 1
        BY <1>1, <3>2
      <4> QED
        BY <1>1, <3>3, <4>1
    <3>4. CASE x.step # "pass"
      <4>1. PICK j \in 1 .. k - 1 : t[j].step = "pass"
        BY <2>1, <2>2, <3>2, <3>4
      <4>2. j + 1 \in 1 .. i - 1 /\ j \in 1 .. Len(t)
        BY <1>1, <3>2
      <4>3. u[j + 1] = t[j]
        BY <1>1, <4>2
      <4> QED
        BY <4>1, <4>2, <4>3
    <3> QED
      BY <3>3, <3>4
  <2> QED
    BY <2>2 DEF Passes
<1> QED
  BY <1>2, <1>3

LEMMA SettlesFront ==
  ASSUME NEW x \in Steps, NEW t \in Seq(Steps), NEW u, u = <<x>> \o t, NEW e \in BOOLEAN,
         NEW w1 \in BOOLEAN, w1 => (e /\ Quiet(x)) \/ SendsExec(x), e /\ Quiet(x) => w1,
         SendsExec(x) => w1
  PROVE  Settles(u, e) <=>
           (Settled(x) => e) /\ Settles(t, w1)
<1>1. /\ Len(t) \in Nat /\ Len(u) = Len(t) + 1 /\ u[1] = x
      /\ \A i \in 1 .. Len(t) : u[i + 1] = t[i]
      /\ \A i \in 1 .. Len(u) : i = 1 \/ (i - 1 \in 1 .. Len(t) /\ u[i] = t[i - 1])
  BY FrontIs
<1> DEFINE Way(s, w, i) ==
             \/ w /\ \A k \in 1 .. i - 1 : Quiet(s[k])
             \/ \E j \in 1 .. i - 1 : SendsExec(s[j]) /\ \A k \in j + 1 .. i - 1 : Quiet(s[k])
<1>2. ASSUME NEW i \in 1 .. Len(t)
      PROVE  Way(u, e, i + 1) <=> Way(t, w1, i)
  <2>0. i \in Nat /\ (i + 1) - 1 = i /\ i >= 1
    BY <1>1
  <2>1. \A k \in 1 .. i - 1 : k \in 1 .. Len(t) /\ k + 1 \in 1 .. i /\ u[k + 1] = t[k]
    BY <1>1
  <2>2. \A k \in 1 .. i : k = 1 \/ (k - 1 \in 1 .. i - 1 /\ u[k] = t[k - 1])
    <3> TAKE k \in 1 .. i
    <3>1. k \in 1 .. Len(u)
      BY <1>1
    <3> QED
      BY <1>1, <3>1
  <2>3. (\A k \in 1 .. i : Quiet(u[k])) <=> Quiet(x) /\ \A k \in 1 .. i - 1 : Quiet(t[k])
    <3>1. 1 \in 1 .. i
      BY <2>0
    <3> QED
      BY <1>1, <2>1, <2>2, <3>1
  <2>4. ASSUME NEW j \in 1 .. i - 1
        PROVE  (\A k \in (j + 1) + 1 .. i : Quiet(u[k])) <=> (\A k \in j + 1 .. i - 1 : Quiet(t[k]))
    <3>1. \A k \in (j + 1) + 1 .. i : k - 1 \in j + 1 .. i - 1 /\ k \in 1 .. i /\ k # 1
      BY <2>0
    <3>2. \A k \in j + 1 .. i - 1 : k + 1 \in (j + 1) + 1 .. i /\ k \in 1 .. i - 1
      BY <2>0
    <3> QED
      BY <2>1, <2>2, <3>1, <3>2
  <2>5. (\A k \in 1 + 1 .. i : Quiet(u[k])) <=> (\A k \in 1 .. i - 1 : Quiet(t[k]))
    <3>1. \A k \in 1 + 1 .. i : k - 1 \in 1 .. i - 1 /\ k \in 1 .. i /\ k # 1
      BY <2>0
    <3>2. \A k \in 1 .. i - 1 : k + 1 \in 1 + 1 .. i
      BY <2>0
    <3> QED
      BY <2>1, <2>2, <3>1, <3>2
  <2>6. (\E j \in 1 .. i : SendsExec(u[j]) /\ \A k \in j + 1 .. i : Quiet(u[k]))
          <=> \/ SendsExec(x) /\ \A k \in 1 .. i - 1 : Quiet(t[k])
              \/ \E j \in 1 .. i - 1 : SendsExec(t[j]) /\ \A k \in j + 1 .. i - 1 : Quiet(t[k])
    <3>1. ASSUME NEW j \in 1 .. i, SendsExec(u[j]), \A k \in j + 1 .. i : Quiet(u[k]), j # 1
          PROVE  \E l \in 1 .. i - 1 : SendsExec(t[l]) /\ \A k \in l + 1 .. i - 1 : Quiet(t[k])
      <4> DEFINE l == j - 1
      <4>1. l \in 1 .. i - 1 /\ u[j] = t[l] /\ l + 1 = j
        BY <2>2, <3>1
      <4> HIDE DEF l
      <4>2. \A k \in l + 1 .. i - 1 : Quiet(t[k])
        BY <2>4, <3>1, <4>1
      <4> QED
        BY <3>1, <4>1, <4>2
    <3>2. ASSUME NEW j \in 1 .. i, SendsExec(u[j]), \A k \in j + 1 .. i : Quiet(u[k]), j = 1
          PROVE  SendsExec(x) /\ \A k \in 1 .. i - 1 : Quiet(t[k])
      BY <1>1, <2>5, <3>2
    <3>3. ASSUME SendsExec(x), \A k \in 1 .. i - 1 : Quiet(t[k])
          PROVE  \E j \in 1 .. i : SendsExec(u[j]) /\ \A k \in j + 1 .. i : Quiet(u[k])
      <4>1. 1 \in 1 .. i
        BY <2>0
      <4> QED
        BY <1>1, <2>5, <3>3, <4>1
    <3>4. ASSUME NEW l \in 1 .. i - 1, SendsExec(t[l]), \A k \in l + 1 .. i - 1 : Quiet(t[k])
          PROVE  \E j \in 1 .. i : SendsExec(u[j]) /\ \A k \in j + 1 .. i : Quiet(u[k])
      <4>1. l + 1 \in 1 .. i /\ u[l + 1] = t[l]
        BY <2>1
      <4>2. \A k \in (l + 1) + 1 .. i : Quiet(u[k])
        BY <2>4, <3>4
      <4> QED
        BY <3>4, <4>1, <4>2
    <3> QED
      BY <3>1, <3>2, <3>3, <3>4
  <2> QED
    BY <2>0, <2>3, <2>6
<1>3. Way(u, e, 1) <=> e
  <2>1. 1 .. 1 - 1 = {}
    OBVIOUS
  <2> QED
    BY <2>1
<1>4. Settles(u, e) <=> \A i \in 1 .. Len(u) : Settled(u[i]) => Way(u, e, i)
  BY DEF Settles
<1>5. Settles(t, w1) <=> \A i \in 1 .. Len(t) : Settled(t[i]) => Way(t, w1, i)
  BY DEF Settles
<1> HIDE DEF Way
<1>6. ASSUME Settles(u, e)
      PROVE  (Settled(x) => e) /\ Settles(t, w1)
  <2>1. 1 \in 1 .. Len(u) /\ \A i \in 1 .. Len(t) : i + 1 \in 1 .. Len(u) /\ u[i + 1] = t[i]
    BY <1>1
  <2>2. Settled(x) => e
    BY <1>1, <1>3, <1>4, <1>6, <2>1
  <2>3. \A i \in 1 .. Len(t) : Settled(t[i]) => Way(t, w1, i)
    BY <1>2, <1>4, <1>6, <2>1
  <2> QED
    BY <1>5, <2>2, <2>3
<1>7. ASSUME Settled(x) => e, Settles(t, w1)
      PROVE  Settles(u, e)
  <2>1. ASSUME NEW i \in 1 .. Len(u), Settled(u[i])
        PROVE  Way(u, e, i)
    <3>1. CASE i = 1
      BY <1>1, <1>3, <1>7, <2>1, <3>1
    <3>2. CASE i # 1
      <4> DEFINE j == i - 1
      <4>1. j \in 1 .. Len(t) /\ u[i] = t[j] /\ j + 1 = i
        BY <1>1, <3>2
      <4> HIDE DEF j
      <4>2. Way(t, w1, j)
        BY <1>5, <1>7, <2>1, <4>1
      <4> QED
        BY <1>2, <4>1, <4>2
    <3> QED
      BY <3>1, <3>2
  <2> QED
    BY <1>4, <2>1
<1> QED
  BY <1>6, <1>7

LEMMA AimsFront ==
  ASSUME NEW x \in Steps, NEW t \in Seq(Steps), NEW u, u = <<x>> \o t, NEW a, Fits(x, t)
  PROVE  Aims(u, a) <=>
           /\ SendsRead(x) => x.cmd.addr = a
           /\ x.step = "rest" => x.addr = a
           /\ Aims(t, IF x.step = "take" THEN a + x.len ELSE a)
<1>1. /\ Len(t) \in Nat /\ Len(u) = Len(t) + 1 /\ u[1] = x
      /\ \A i \in 1 .. Len(t) : u[i + 1] = t[i]
      /\ \A i \in 1 .. Len(u) : i = 1 \/ (i - 1 \in 1 .. Len(t) /\ u[i] = t[i - 1])
      /\ t # <<>> => Len(t) # 0
  BY FrontIs, EmptySeq
<1>2. /\ t # <<>> /\ t[1].step = "rest" => x.step = "take"
      /\ x.step = "take" => t = <<>> \/ (Len(t) = 1 /\ t # <<>> /\ t[1].step = "rest")
  BY EmptySeq DEF Fits, Start
<1> DEFINE b == IF x.step = "take" THEN a + x.len ELSE a
<1>3. ASSUME NEW i \in 1 .. Len(t)
      PROVE  /\ SendsRead(u[i + 1]) => (u[i + 1].cmd.addr = a <=> t[i].cmd.addr = b)
             /\ u[i + 1].step = "rest" =>
                  (IF i + 1 = 1 THEN a ELSE a + u[(i + 1) - 1].len)
                     = (IF i = 1 THEN b ELSE b + t[i - 1].len)
  <2>1. u[i + 1] = t[i] /\ i + 1 # 1 /\ (i + 1) - 1 = i /\ t # <<>> /\ Len(t) # 0
    BY <1>1
  <2>2. CASE x.step = "take"
    <3>1. Len(t) = 1 /\ t[1].step = "rest" /\ i = 1
      BY <1>1, <1>2, <2>1, <2>2
    <3>2. ~SendsRead(u[i + 1])
      BY <2>1, <3>1 DEF SendsRead
    <3> QED
      BY <1>1, <2>1, <2>2, <3>1, <3>2
  <2>3. CASE x.step # "take"
    <3>1. t[i].step = "rest" => i # 1
      BY <1>1, <1>2, <2>1, <2>3
    <3>2. i # 1 => i - 1 \in 1 .. Len(t) /\ (i - 1) + 1 = i
      BY <1>1
    <3>3. i # 1 => u[i] = t[i - 1]
      BY <1>1, <3>2
    <3> QED
      BY <2>1, <2>3, <3>1, <3>3
  <2> QED
    BY <2>2, <2>3
<1> HIDE DEF b
<1>4. ASSUME Aims(u, a)
      PROVE  (SendsRead(x) => x.cmd.addr = a) /\ (x.step = "rest" => x.addr = a) /\ Aims(t, b)
  <2>1. 1 \in 1 .. Len(u) /\ \A i \in 1 .. Len(t) : i + 1 \in 1 .. Len(u)
    BY <1>1
  <2>2. (SendsRead(x) => x.cmd.addr = a) /\ (x.step = "rest" => x.addr = a)
    BY <1>1, <1>4, <2>1 DEF Aims
  <2>3. ASSUME NEW i \in 1 .. Len(t)
        PROVE  /\ SendsRead(t[i]) => t[i].cmd.addr = b
               /\ t[i].step = "rest" => t[i].addr = IF i = 1 THEN b ELSE b + t[i - 1].len
    <3>1. /\ SendsRead(u[i + 1]) => u[i + 1].cmd.addr = a
          /\ u[i + 1].step = "rest" =>
               u[i + 1].addr = IF i + 1 = 1 THEN a ELSE a + u[(i + 1) - 1].len
      BY <1>4, <2>1 DEF Aims
    <3>2. u[i + 1] = t[i]
      BY <1>1
    <3> QED
      BY <1>3, <3>1, <3>2
  <2> QED
    BY <2>2, <2>3 DEF Aims
<1>5. ASSUME SendsRead(x) => x.cmd.addr = a, x.step = "rest" => x.addr = a, Aims(t, b)
      PROVE  Aims(u, a)
  <2>1. ASSUME NEW i \in 1 .. Len(u)
        PROVE  /\ SendsRead(u[i]) => u[i].cmd.addr = a
               /\ u[i].step = "rest" => u[i].addr = IF i = 1 THEN a ELSE a + u[i - 1].len
    <3>1. CASE i = 1
      BY <1>1, <1>5, <3>1
    <3>2. CASE i # 1
      <4> DEFINE j == i - 1
      <4>1. j \in 1 .. Len(t) /\ u[i] = t[j] /\ j + 1 = i
        BY <1>1, <3>2
      <4> HIDE DEF j
      <4>2. /\ SendsRead(t[j]) => t[j].cmd.addr = b
            /\ t[j].step = "rest" => t[j].addr = IF j = 1 THEN b ELSE b + t[j - 1].len
        BY <1>5, <4>1 DEF Aims
      <4>3. /\ SendsRead(u[j + 1]) => (u[j + 1].cmd.addr = a <=> t[j].cmd.addr = b)
            /\ u[j + 1].step = "rest" =>
                  (IF j + 1 = 1 THEN a ELSE a + u[(j + 1) - 1].len)
                     = (IF j = 1 THEN b ELSE b + t[j - 1].len)
        BY <1>3, <4>1
      <4> QED
        BY <4>1, <4>2, <4>3
    <3> QED
      BY <3>1, <3>2
  <2> QED
    BY <2>1 DEF Aims
<1> QED
  BY <1>4, <1>5 DEF b

LEMMA HasFront ==
  ASSUME NEW x \in Steps, NEW t \in Seq(Steps), NEW kinds
  PROVE  Has(<<x>> \o t, kinds) <=> x.step \in kinds \/ Has(t, kinds)
<1> DEFINE u == <<x>> \o t
<1> HIDE DEF u
<1>0. u = <<x>> \o t
  BY DEF u
<1>1. /\ Len(t) \in Nat /\ Len(u) = Len(t) + 1 /\ u[1] = x
      /\ \A i \in 1 .. Len(t) : u[i + 1] = t[i]
      /\ \A i \in 1 .. Len(u) : i = 1 \/ (i - 1 \in 1 .. Len(t) /\ u[i] = t[i - 1])
  BY <1>0, FrontIs
<1>2. 1 \in 1 .. Len(u) /\ \A i \in 1 .. Len(t) : i + 1 \in 1 .. Len(u)
  BY <1>1
<1> QED
  BY <1>0, <1>1, <1>2 DEF Has

LEMMA PlanFront ==
  ASSUME NEW x \in Steps, NEW t \in Seq(Steps), NEW u, u = <<x>> \o t
  PROVE  /\ Plan(u) = Plans(x) \o Plan(t)
         /\ Plan(u) \in Seq(Act) /\ Plans(x) \in Seq(Act) /\ Plan(t) \in Seq(Act)
<1>1. <<x>> \in Seq(Steps)
  OBVIOUS
<1>2. Plan(<<x>> \o t) = Plan(<<x>>) \o Plan(t)
  BY <1>1, PlanConcat
<1>3. Plan(<<x>>) = Plans(x)
  BY PlanOne
<1>4. u \in Seq(Steps)
  BY FrontIs
<1> QED
  BY <1>2, <1>3, <1>4, PlanParts, PlansType

LEMMA NoSteps ==
  /\ Shape(<<>>) /\ Plan(<<>>) = <<>>
  /\ \A e, a : Passes(<<>>, e) /\ Settles(<<>>, e) /\ Aims(<<>>, a) /\ ~Has(<<>>, a)
<1>1. Len(<<>>) = 0 /\ 1 .. 0 = {}
  OBVIOUS
<1>2. Plan(<<>>) = <<>>
  <2>1. Pass(1) \in Steps
    BY StepMakers
  <2> QED
    BY <2>1, PlanOne
<1> QED
  BY <1>1, <1>2 DEF Shape, Passes, Settles, Aims, Has


-----------------------------------------------------------------------------
(* The running call                                                        *)

LEMMA LatestType ==
  ASSUME NEW log \in Seq(Act), NEW a
  PROVE  Latest(log, a) \in Value
<1> DEFINE writes == {i \in DOMAIN log : log[i].did = "write" /\ log[i].addr = a}
<1>1. Len(log) \in Nat /\ DOMAIN log = 1 .. Len(log) /\ \A i \in 1 .. Len(log) : log[i] \in Act
  OBVIOUS
<1>2. CASE writes = {}
  <2>1. Latest(log, a) = Unwritten
    BY <1>2 DEF Latest
  <2> QED
    BY <2>1, SerprogAssumption
<1>3. CASE writes # {}
  <2>1. writes \in SUBSET (0 .. Len(log))
    BY <1>1
  <2>2. Max(writes) \in writes
    <3> HIDE DEF writes
    <3> QED
      BY <1>1, <1>3, <2>1, MaxIn
  <2>3. Latest(log, a) = log[Max(writes)].val
    BY <1>3 DEF Latest
  <2>4. \A x \in Act : x.did = "write" => x.val \in Value
    BY DEF Act
  <2>5. \A i \in writes : log[i].did = "write" /\ log[i] \in Act
    BY <1>1
  <2> HIDE DEF writes
  <2>6. log[Max(writes)].val \in Value
    BY <2>2, <2>4, <2>5
  <2> QED
    BY <2>3, <2>6
<1> QED
  BY <1>2, <1>3

LEMMA Running ==
  ASSUME todo \in Seq(Steps), todo # <<>>
  PROVE  /\ Now \in Steps /\ Later \in Seq(Steps) /\ todo = <<Now>> \o Later /\ todo[1] = Now
         /\ Now.depth \in 1 .. 4
<1>1. /\ todo = <<Head(todo)>> \o Tail(todo) /\ Head(todo) = todo[1]
      /\ Head(todo) \in Steps /\ Tail(todo) \in Seq(Steps)
  BY UnconsIs
<1>2. Head(todo).depth \in 1 .. 4
  BY <1>1, StepFields
<1> QED
  BY <1>1, <1>2 DEF Now, Later

LEMMA FallbackType ==
  ASSUME todo \in Seq(Steps), todo # <<>>, NEW d
  PROVE  Fallback(d) \in Seq(Steps)
<1> DEFINE n == Len(Later)
           outer == {i \in DOMAIN Later : Later[i].depth < d}
           m == Min(outer)
<1>1. Later \in Seq(Steps) /\ n \in Nat /\ DOMAIN Later = 1 .. n
  BY Running
<1>2. CASE outer = {}
  <2>1. Fallback(d) = <<>>
    BY <1>2 DEF Fallback
  <2> QED
    BY <2>1
<1>3. CASE outer # {}
  <2>1. outer \in SUBSET (1 .. n) /\ outer \in SUBSET (0 .. n)
    BY <1>1
  <2>2. m \in 1 .. n
    <3> HIDE DEF outer, n
    <3> QED
      BY <1>1, <1>3, <2>1, MinIn
  <2>3. Fallback(d) = SubSeq(Later, m, n)
    BY <1>3 DEF Fallback
  <2> HIDE DEF m
  <2>4. \A i \in m .. n : Later[i] \in Steps
    BY <1>1, <2>2
  <2>5. m \in Int /\ n \in Int
    BY <1>1, <2>2
  <2> HIDE DEF n, outer
  <2>6. SubSeq(Later, m, n) \in Seq(Steps)
    BY <2>4, <2>5, SubSeqProperties
  <2> QED
    BY <2>3, <2>6
<1> QED
  BY <1>2, <1>3

\* What the agendas are made of
LEMMA Agendas ==
  ASSUME NEW t \in Seq(Steps), NEW d \in 1 .. 4
  PROVE  /\ ExecuteNoFlush(d) \in Seq(Steps)
         /\ Drain(d) \in Seq(Steps)
         /\ \A x \in Steps : <<x>> \o t \in Seq(Steps)
         /\ \A s \in Seq(Steps) : s \o t \in Seq(Steps)
<1>1. ExecuteNoFlush(d) \in Seq(Steps)
  BY StepMakers, SendableCommands DEF ExecuteNoFlush
<1>2. Drain(d) \in Seq(Steps)
  BY <1>1 DEF Drain
<1>3. \A x \in Steps : <<x>> \o t \in Seq(Steps)
  BY ConsIs
<1>4. \A s \in Seq(Steps) : s \o t \in Seq(Steps)
  BY ConcatElements
<1> QED
  BY <1>1, <1>2, <1>3, <1>4

LEMMA ThreeSteps ==
  ASSUME NEW x \in Steps, NEW y \in Steps, NEW z \in Steps
  PROVE  <<x, y, z>> \in Seq(Steps)
OBVIOUS

LEMMA LimitsType ==
  ASSUME limits \in Programmers
  PROVE  limits.writeN \in Nat /\ limits.readN \in Nat /\ limits.opbuf \in Nat /\ limits.serbuf \in Nat
BY SerprogAssumption DEF Limits

-----------------------------------------------------------------------------
(* Every step keeps the types                                              *)

LEMMA Lengths ==
  ASSUME Types
  PROVE  Len(line) \in Nat /\ Len(replies) \in Nat /\ Len(buf) \in Nat /\ Len(opbuf) \in Nat
<1>1. Len(line) \in Nat
  BY DEF Types
<1>2. Len(replies) \in Nat
  BY DEF Types
<1>3. Len(buf) \in Nat
  BY DEF Types
<1>4. Len(opbuf) \in Nat
  BY DEF Types
<1> QED
  BY <1>1, <1>2, <1>3, <1>4

LEMMA InitTypes ==
  ASSUME Init
  PROVE  Types
<1>1. /\ <<>> \in Seq(Steps) /\ <<>> \in Seq(Value) /\ <<>> \in Seq(Command) /\ <<>> \in Seq(Reply)
      /\ <<>> \in Seq(Operation) /\ <<>> \in Seq(Act)
  OBVIOUS
<1>2. [addr |-> 0, data |-> <<>>] \in [addr : Addr, data : Seq(Reply)]
  BY <1>1 DEF Addr
<1> QED
  BY <1>1, <1>2 DEF Init, Types, Addr

LEMMA BeginTypes ==
  ASSUME Types, NEW agenda \in Seq(Steps), NEW ask \in Seq(Act), NEW a \in Nat, Begin(agenda, ask),
         buf' \in Seq(Value), got' = Nothing(a)
  PROVE  Types'
<1>1. issued \o ask \in Seq(Act)
  BY ConcatElements DEF Types
<1>2. Nothing(a) \in [addr : Addr, data : Seq(Reply)]
  BY DEF Nothing, Addr
<1> QED
  BY <1>1, <1>2 DEF Types, Begin, device

LEMMA BeginsTypes ==
  ASSUME Types, Begins
  PROVE  Types'
<1> PICK c \in Calls :
      \/ c.op = "writeb" /\ CallWriteByte(c.addr, c.val)
      \/ c.op = "readb" /\ CallReadByte(c.addr)
      \/ c.op = "readn" /\ CallReadN(c.addr, c.len)
      \/ c.op = "delay" /\ CallDelay
      \/ c.op = "spi" /\ CallSpi
      \/ c.op = "shutdown" /\ CallShutdown
  BY DEF Begins
<1>0. /\ c.op = "writeb" => c.addr \in Nat /\ c.val \in Value
      /\ c.op = "readb" => c.addr \in Nat
      /\ c.op = "readn" => c.addr \in Nat /\ c.len \in Nat
  <2>1. c \in Call
    BY SerprogAssumption
  <2> QED
    BY <2>1 DEF Call, Addr
<1>t. /\ buf \in Seq(Value) /\ Len(buf) \in Nat /\ start \in Nat /\ <<>> \in Seq(Act)
      /\ 0 \in Nat /\ 1 \in 1 .. 4 /\ 2 \in 1 .. 4 /\ 3 \in 1 .. 4 /\ 4 \in 1 .. 4
  BY DEF Types, Addr
<1>d. \A d \in 1 .. 4 : ExecuteNoFlush(d) \in Seq(Steps) /\ Drain(d) \in Seq(Steps)
  <2>1. <<>> \in Seq(Steps)
    OBVIOUS
  <2> QED
    BY <2>1, Agendas
<1>1. CASE c.op = "writeb" /\ CallWriteByte(c.addr, c.val)
  <2> DEFINE a == c.addr
             v == c.val
             ask == <<Wrote(a, v)>>
             one == <<Check(6, 1), Send(WriteB(a, v), 2), Count(5, FALSE, 1)>>
             two == <<Check(7 + Len(buf) + 1, 1), Full(1)>>
             three == <<Store(a, v, 1), Check(7 + 1, 1), Full(1)>>
             four == (IF writing /\ buf # <<>> THEN <<Pass(2)>> ELSE <<>>) \o three
  <2>0. a \in Nat /\ v \in Value
    BY <1>0, <1>1
  <2>1. ask \in Seq(Act)
    BY <2>0, DidType
  <2>2. one \in Seq(Steps)
    <3>1. WriteB(a, v) \in Sendable /\ 5 \in Nat \ {0} /\ 6 \in Nat
      BY <2>0, SendableCommands
    <3>2. Check(6, 1) \in Steps /\ Send(WriteB(a, v), 2) \in Steps /\ Count(5, FALSE, 1) \in Steps
      BY <1>t, <3>1, StepMakers
    <3> QED
      BY <3>2, ThreeSteps
  <2>3. two \in Seq(Steps)
    <3>1. 7 + Len(buf) + 1 \in Nat
      BY <1>t
    <3> QED
      BY <1>t, <3>1, StepMakers
  <2>4. three \in Seq(Steps) /\ <<Pass(2)>> \in Seq(Steps) /\ <<>> \in Seq(Steps)
    BY <1>t, <2>0, StepMakers
  <2>5. four \in Seq(Steps)
    <3> HIDE DEF three
    <3> QED
      BY <2>4
  <2>6. /\ \/ Begin(one, ask) /\ buf' = buf
           \/ Begin(two, ask) /\ buf' = Append(buf, v)
           \/ Begin(four, ask) /\ buf' = buf
        /\ got' = Nothing(a)
    BY <1>1 DEF CallWriteByte
  <2>7. Append(buf, v) \in Seq(Value)
    BY <1>t, <2>0
  <2> HIDE DEF a, v, ask, one, two, three, four
  <2> QED
    BY <1>t, <2>0, <2>1, <2>2, <2>3, <2>5, <2>6, <2>7, BeginTypes
<1>2. CASE c.op = "readb" /\ CallReadByte(c.addr)
  <2> DEFINE a == c.addr
             r == <<Send(ReadByte(a), 3), Flush(2), Take(1, 1)>>
             agenda == Drain(4) \o r
  <2>0. a \in Nat
    BY <1>0, <1>2
  <2>1. r \in Seq(Steps)
    BY <1>t, <2>0, StepMakers, SendableCommands
  <2>2. agenda \in Seq(Steps)
    <3> HIDE DEF r
    <3> QED
      BY <1>d, <1>t, <2>1
  <2>3. Begin(agenda, <<>>) /\ got' = Nothing(a) /\ buf' = buf
    BY <1>2 DEF CallReadByte
  <2> HIDE DEF a, agenda
  <2> QED
    BY <1>t, <2>0, <2>2, <2>3, BeginTypes
<1>3. CASE c.op = "readn" /\ CallReadN(c.addr, c.len)
  <2> DEFINE a == c.addr
             agenda == <<Rest(a, c.len, 1)>>
  <2>0. a \in Nat
    BY <1>0, <1>3
  <2>1. agenda \in Seq(Steps)
    BY <1>0, <1>3, <1>t, StepMakers
  <2>3. Begin(agenda, <<>>) /\ got' = Nothing(a) /\ buf' = buf
    BY <1>3 DEF CallReadN
  <2> HIDE DEF a, agenda
  <2> QED
    BY <1>t, <2>0, <2>1, <2>3, BeginTypes
<1>4. CASE CallDelay
  <2> DEFINE r == <<Check(5, 1), Send(Delay, 2), Count(5, TRUE, 1)>>
             agenda == (IF limits.writeN > 0 /\ buf # <<>> THEN <<Pass(2)>> ELSE <<>>) \o r
             ask == <<Did("delay")>>
  <2>1. r \in Seq(Steps) /\ <<Pass(2)>> \in Seq(Steps) /\ <<>> \in Seq(Steps)
    <3>1. Delay \in Sendable /\ 5 \in Nat \ {0}
      BY SendableCommands
    <3>2. /\ Check(5, 1) \in Steps /\ Send(Delay, 2) \in Steps /\ Count(5, TRUE, 1) \in Steps
          /\ Pass(2) \in Steps
      BY <1>t, <3>1, StepMakers
    <3>3. r \in Seq(Steps)
      BY <3>2, ThreeSteps
    <3>4. <<Pass(2)>> \in Seq(Steps) /\ <<>> \in Seq(Steps)
      BY <3>2
    <3> QED
      BY <3>3, <3>4
  <2>2. agenda \in Seq(Steps)
    <3> HIDE DEF r
    <3> QED
      BY <2>1
  <2>3. ask \in Seq(Act)
    BY DidType
  <2>4. Begin(agenda, ask) /\ got' = Nothing(0) /\ buf' = buf
    BY <1>4 DEF CallDelay
  <2> HIDE DEF agenda, ask
  <2> QED
    BY <1>t, <2>2, <2>3, <2>4, BeginTypes
<1>5. CASE CallSpi
  <2> DEFINE p == ExecuteNoFlush(1)
             q == <<Flush(1)>>
             r == <<Tell(SpiOp, 1), Answer(1)>>
             agenda == (IF Pending THEN p \o q ELSE <<>>) \o r
             ask == <<Did("spi")>>
  <2>1. r \in Seq(Steps) /\ q \in Seq(Steps) /\ <<>> \in Seq(Steps) /\ p \in Seq(Steps)
    BY <1>d, <1>t, StepMakers
  <2>2. agenda \in Seq(Steps)
    <3> HIDE DEF r, q, p
    <3> QED
      BY <2>1
  <2>3. ask \in Seq(Act)
    BY DidType
  <2>4. Begin(agenda, ask) /\ got' = Nothing(0) /\ buf' = buf
    BY <1>5 DEF CallSpi
  <2> HIDE DEF agenda, ask
  <2> QED
    BY <1>t, <2>2, <2>3, <2>4, BeginTypes
<1>6. CASE CallShutdown
  <2> DEFINE p == ExecuteNoFlush(3)
             q == <<Flush(3)>>
             r == <<Tell(PinState, 2), Answer(2), Close(1)>>
             agenda == (IF Pending THEN p \o q ELSE <<>>) \o r
  <2>1. r \in Seq(Steps) /\ q \in Seq(Steps) /\ <<>> \in Seq(Steps) /\ p \in Seq(Steps)
    BY <1>d, <1>t, StepMakers
  <2>2. agenda \in Seq(Steps)
    <3> HIDE DEF r, q, p
    <3> QED
      BY <2>1
  <2>4. Begin(agenda, <<>>) /\ got' = Nothing(0) /\ buf' = buf
    BY <1>6 DEF CallShutdown
  <2> HIDE DEF agenda
  <2> QED
    BY <1>t, <2>2, <2>4, BeginTypes
<1> QED
  BY <1>1, <1>2, <1>3, <1>4, <1>5, <1>6


LEMMA DriverTypes ==
  ASSUME Types, Driver
  PROVE  Types'
<1>t. /\ limits \in Programmers /\ todo \in Seq(Steps) /\ open \in BOOLEAN
      /\ buf \in Seq(Value) /\ start \in Addr /\ writing \in BOOLEAN
      /\ usage \in Nat /\ ops \in Nat /\ bytes \in Nat
      /\ line \in Seq(Command) /\ replies \in Seq(Reply) /\ opbuf \in Seq(Operation)
      /\ issued \in Seq(Act) /\ done \in Seq(Act)
      /\ got \in [addr : Addr, data : Seq(Reply)] /\ naks \in Nat /\ calls \in Nat
      /\ Len(buf) \in Nat /\ start \in Nat
  BY DEF Types, Addr
<1>0. todo # <<>>
  BY DEF Driver, StepPass, StepSend, StepFlush, StepCount, StepCheck, StepStore, StepFull, StepRest,
         StepTake, StepTell, StepAnswer, StepClose, At
<1>r. Now \in Steps /\ Later \in Seq(Steps) /\ Now.depth \in 1 .. 4
  BY <1>0, <1>t, Running
<1>c. \A x \in Steps : \A t \in Seq(Steps) : <<x>> \o t \in Seq(Steps)
  BY ConsIs
<1>j. \A s \in Seq(Steps) : \A t \in Seq(Steps) : s \o t \in Seq(Steps)
  BY ConcatElements
<1>1. CASE StepPass
  <2>1. CASE buf # <<>> /\ FlushFirst(Now.depth) /\ UNCHANGED <<replies, limits, device, history>>
    <3>1. <<Flush(Now.depth)>> \o todo \in Seq(Steps)
      BY <1>c, <1>r, <1>t, StepMakers
    <3> QED
      BY <1>t, <2>1, <3>1 DEF FlushFirst, Types, device, history
  <2>2. CASE /\ Len(buf) = 1
             /\ buf' = <<>>
             /\ todo' = <<Send(WriteB(start, buf[1]), Now.depth), Count(5, FALSE, Now.depth)>> \o Later
             /\ UNCHANGED <<open, start, writing, usage, ops, bytes, line>>
             /\ UNCHANGED <<replies, limits, device, history>>
    <3>1. buf[1] \in Value
      <4>1. buf \in Seq(Value) /\ Len(buf) = 1
        BY <1>t, <2>2
      <4>2. \A i \in 1 .. Len(buf) : buf[i] \in Value
        BY <4>1
      <4> QED
        BY <4>1, <4>2
    <3>2. Send(WriteB(start, buf[1]), Now.depth) \in Steps
      BY <1>r, <1>t, <3>1, StepMakers, SendableCommands
    <3>3. Count(5, FALSE, Now.depth) \in Steps
      <4>1. 5 \in Nat \ {0} /\ FALSE \in BOOLEAN
        OBVIOUS
      <4> QED
        BY <1>r, <4>1, StepMakers
    <3> DEFINE x == Send(WriteB(start, buf[1]), Now.depth)
               y == Count(5, FALSE, Now.depth)
    <3>4. todo' = <<x, y>> \o Later /\ x \in Steps /\ y \in Steps
      BY <2>2, <3>2, <3>3
    <3> HIDE DEF x, y
    <3>5. <<x, y>> \in Seq(Steps)
      BY <3>4
    <3>6. todo' \in Seq(Steps)
      BY <1>j, <1>r, <3>4, <3>5
    <3>7. <<>> \in Seq(Value)
      OBVIOUS
    <3> QED
      BY <1>t, <2>2, <3>6, <3>7 DEF Types, device, history
  <2>3. CASE /\ Len(buf) > 1
             /\ Stream(WriteN(start, buf))
             /\ usage' = usage + 7 + Len(buf) /\ buf' = <<>> /\ writing' = FALSE
             /\ todo' = Later
             /\ UNCHANGED <<open, start>>
             /\ UNCHANGED <<replies, limits, device, history>>
    <3> DEFINE c == WriteN(start, buf)
    <3>1. c \in Command
      BY <1>t, SendableCommands
    <3>2. Length(c) \in Nat
      <4>1. ~IsTold(c)
        BY DEF IsTold, WriteN
      <4> HIDE DEF c
      <4> QED
        BY <3>1, <4>1, LengthType
    <3>3. line' = Append(line, c) /\ ops' = ops + 1 /\ bytes' = bytes + Length(c)
      BY <2>3 DEF Stream
    <3> HIDE DEF c
    <3>4. line' \in Seq(Command) /\ ops' \in Nat /\ bytes' \in Nat
      BY <1>t, <3>1, <3>2, <3>3
    <3>5. usage' \in Nat /\ <<>> \in Seq(Value)
      BY <1>t, <2>3
    <3> QED
      BY <1>t, <1>r, <2>3, <3>4, <3>5 DEF Types, device, history
  <2>4. CASE /\ buf = <<>> /\ todo' = Later
             /\ UNCHANGED <<open, buf, start, writing, usage, ops, bytes, line>>
             /\ UNCHANGED <<replies, limits, device, history>>
    BY <1>t, <1>r, <2>4 DEF Types, device, history
  <2> QED
    BY <1>1, <2>1, <2>2, <2>3, <2>4 DEF StepPass
<1>2. CASE StepSend
  <2>1. CASE FlushFirst(Now.depth) /\ UNCHANGED <<replies, limits, device, history>>
    <3>1. <<Flush(Now.depth)>> \o todo \in Seq(Steps)
      BY <1>c, <1>r, <1>t, StepMakers
    <3> QED
      BY <1>t, <2>1, <3>1 DEF FlushFirst, Types, device, history
  <2>2. CASE /\ Stream(Now.cmd) /\ todo' = Later
             /\ IF Now.cmd = Exec THEN usage' = 0 /\ writing' = FALSE ELSE UNCHANGED <<usage, writing>>
             /\ UNCHANGED <<open, buf, start>>
             /\ UNCHANGED <<replies, limits, device, history>>
    <3>1. Now.cmd \in Sendable /\ Now.cmd \in Command
      BY <1>2, <1>r, StepFields DEF StepSend, At
    <3>2. Length(Now.cmd) \in Nat
      <4>1. ~IsTold(Now.cmd)
        BY <3>1 DEF IsTold, Sendable
      <4> QED
        BY <3>1, <4>1, LengthType
    <3>4. line' \in Seq(Command) /\ ops' \in Nat /\ bytes' \in Nat
      BY <1>t, <2>2, <3>1, <3>2 DEF Stream
    <3>5. usage' \in Nat /\ writing' \in BOOLEAN
      <4>1. CASE Now.cmd = Exec
        <5>1. usage' = 0 /\ writing' = FALSE
          BY <2>2, <4>1
        <5> QED
          BY <5>1
      <4>2. CASE Now.cmd # Exec
        <5>1. usage' = usage /\ writing' = writing
          BY <2>2, <4>2
        <5> QED
          BY <1>t, <5>1
      <4> QED
        BY <4>1, <4>2
    <3> QED
      BY <1>t, <1>r, <2>2, <3>4, <3>5 DEF Types, device, history
  <2> QED
    BY <1>2, <2>1, <2>2 DEF StepSend
<1>3. CASE StepFlush
  <2>1. Fallback(Now.depth) \in Seq(Steps)
    BY <1>0, <1>t, FallbackType
  <2>2. replies # <<>> => Tail(replies) \in Seq(Reply)
    BY <1>t, UnconsIs
  <2>3. /\ replies' \in Seq(Reply) /\ ops' \in Nat /\ bytes' \in Nat /\ todo' \in Seq(Steps)
        /\ UNCHANGED <<open, buf, start, writing, usage, line, limits, device, history>>
    <3>1. replies' = replies \/ (replies # <<>> /\ replies' = Tail(replies))
      BY <1>3 DEF StepFlush
    <3>2. todo' \in {todo, Later, Fallback(Now.depth)}
      BY <1>3 DEF StepFlush
    <3>3. ops' \in {ops, ops - 1} /\ (ops' = ops - 1 => ops > 0 \/ ops' = ops) /\ bytes' \in {bytes, 0}
      BY <1>3, <1>t DEF StepFlush
    <3>4. UNCHANGED <<open, buf, start, writing, usage, line, limits, device, history>>
      BY <1>3 DEF StepFlush
    <3>5. ops' \in Nat /\ bytes' \in Nat
      BY <1>t, <3>3
    <3> QED
      BY <1>t, <1>r, <2>1, <2>2, <3>1, <3>2, <3>4, <3>5
  <2> QED
    BY <1>t, <2>3 DEF Types, device, history
<1>4. CASE StepCount
  <2>1. Now.size \in Nat /\ Now.delay \in BOOLEAN
    BY <1>4, <1>r, StepFields DEF StepCount, At
  <2>2. usage' \in Nat /\ writing' \in BOOLEAN /\ todo' \in Seq(Steps)
    BY <1>4, <1>t, <1>r, <2>1 DEF StepCount
  <2> QED
    BY <1>4, <1>t, <2>2 DEF StepCount, Types, device, history
<1>5. CASE StepCheck
  <2> DEFINE p == ExecuteNoFlush(2)
             q == <<Flush(2)>>
  <2>1. p \in Seq(Steps) /\ q \in Seq(Steps) /\ <<>> \in Seq(Steps)
    BY <1>r, Agendas, StepMakers
  <2>2. todo' = (IF Overflows(Now.size) THEN p \o q ELSE <<>>) \o Later
    BY <1>5 DEF StepCheck
  <2> HIDE DEF p, q
  <2>3. todo' \in Seq(Steps)
    <3>1. p \o q \in Seq(Steps)
      BY <1>j, <2>1
    <3> QED
      BY <1>j, <1>r, <2>1, <2>2, <3>1
  <2> QED
    BY <1>5, <1>t, <2>3 DEF StepCheck, Types, device, history
<1>6. CASE StepStore
  <2>1. Now.addr \in Addr /\ Now.val \in Value
    BY <1>6, <1>r, StepFields DEF StepStore, At, Addr
  <2>2. <<Now.val>> \in Seq(Value)
    BY <2>1
  <2> QED
    BY <1>6, <1>t, <1>r, <2>1, <2>2 DEF StepStore, Types, device, history
<1>7. CASE StepFull
  <2>1. <<Pass(2)>> \in Seq(Steps) /\ <<>> \in Seq(Steps)
    BY StepMakers
  <2>2. todo' \in Seq(Steps)
    BY <1>7, <1>j, <1>r, <2>1 DEF StepFull
  <2> QED
    BY <1>7, <1>t, <2>2 DEF StepFull, Types, device, history
<1>8. CASE StepRest
  <2> DEFINE piece == IF limits.readN # 0 /\ Now.len > limits.readN THEN limits.readN ELSE Now.len
             r == <<Send(ReadN(Now.addr, piece), 3), Flush(2), Take(piece, 2),
                    Rest(Now.addr + piece, Now.len - piece, 1)>>
             p == Drain(4)
  <2>1. Now.addr \in Nat /\ Now.len \in Nat
    BY <1>8, <1>r, StepFields DEF StepRest, At
  <2>2. todo' = IF Now.len = 0 THEN Later ELSE p \o r \o Later
    BY <1>8 DEF StepRest
  <2>3. p \in Seq(Steps)
    BY <1>r, Agendas
  <2>4. ASSUME Now.len # 0
        PROVE  r \in Seq(Steps)
    <3>1. limits.readN \in Nat
      BY <1>t, LimitsType
    <3>2. piece \in Nat \ {0} /\ piece <= Now.len
      BY <2>1, <2>4, <3>1
    <3> HIDE DEF piece
    <3>3. Now.addr + piece \in Nat /\ Now.len - piece \in Nat
      BY <2>1, <3>2
    <3>4. Send(ReadN(Now.addr, piece), 3) \in Steps
      BY <2>1, <3>2, StepMakers, SendableCommands
    <3>5. Flush(2) \in Steps /\ Take(piece, 2) \in Steps
      BY <3>2, StepMakers
    <3>6. Rest(Now.addr + piece, Now.len - piece, 1) \in Steps
      BY <3>3, StepMakers
    <3> QED
      BY <3>4, <3>5, <3>6
  <2> HIDE DEF p, r
  <2>5. todo' \in Seq(Steps)
    <3>1. CASE Now.len = 0
      BY <1>r, <2>2, <3>1
    <3>2. CASE Now.len # 0
      <4>1. p \o r \in Seq(Steps)
        BY <1>j, <2>3, <2>4, <3>2
      <4> QED
        BY <1>j, <1>r, <2>2, <3>2, <4>1
    <3> QED
      BY <3>1, <3>2
  <2> QED
    BY <1>8, <1>t, <2>5 DEF StepRest, Types, device, history
<1>9. CASE StepTake
  <2>1. replies # <<>> /\ Now.step = "take" /\ Now.len \in Nat \ {0}
    BY <1>9, <1>r, StepFields DEF StepTake, At
  <2>2. Tail(replies) \in Seq(Reply) /\ Head(replies) \in Reply
    BY <1>t, <2>1, UnconsIs
  <2>3. got' \in [addr : Addr, data : Seq(Reply)]
    <3>1. got.data \in Seq(Reply) /\ got.addr \in Addr
      BY <1>t
    <3>2. Append(got.data, Head(replies)) \in Seq(Reply)
      BY <2>2, <3>1
    <3>3. got' = [addr |-> got.addr, data |-> Append(got.data, Head(replies))]
      BY <1>9, <1>t DEF StepTake
    <3> QED
      BY <3>1, <3>2, <3>3
  <2>4. todo' \in Seq(Steps)
    <3>1. Now.len # 1 => Take(Now.len - 1, Now.depth) \in Steps
      <4>1. Now.len # 1 => Now.len - 1 \in Nat \ {0}
        BY <2>1
      <4> QED
        BY <1>r, <4>1, StepMakers
    <3>2. todo' = (IF Now.len = 1 THEN <<>> ELSE <<Take(Now.len - 1, Now.depth)>>) \o Later
      BY <1>9 DEF StepTake
    <3>3. <<>> \in Seq(Steps)
      OBVIOUS
    <3> QED
      BY <1>c, <1>j, <1>r, <3>1, <3>2, <3>3
  <2> QED
    BY <1>9, <1>t, <2>2, <2>3, <2>4 DEF StepTake, Types, device
<1>10. CASE StepTell
  <2>1. Now.cmd \in Command
    BY <1>10, <1>r, StepFields DEF StepTell, At
  <2>2. line' \in Seq(Command)
    BY <1>10, <1>t, <2>1 DEF StepTell
  <2> QED
    BY <1>10, <1>t, <1>r, <2>2 DEF StepTell, Types, device, history
<1>11. CASE StepAnswer
  <2>1. Fallback(Now.depth) \in Seq(Steps)
    BY <1>0, <1>t, FallbackType
  <2>2. Tail(replies) \in Seq(Reply)
    BY <1>11, <1>t, UnconsIs DEF StepAnswer
  <2>3. todo' \in Seq(Steps)
    BY <1>11, <1>r, <2>1 DEF StepAnswer
  <2> QED
    BY <1>11, <1>t, <2>2, <2>3 DEF StepAnswer, Types, device, history
<1>12. CASE StepClose
  BY <1>12, <1>t, <1>r DEF StepClose, Types, device, history
<1> QED
  BY <1>1, <1>2, <1>3, <1>4, <1>5, <1>6, <1>7, <1>8, <1>9, <1>10, <1>11, <1>12 DEF Driver


LEMMA ProgrammerTypes ==
  ASSUME Types, Programmer
  PROVE  Types'
<1>t. /\ limits \in Programmers /\ todo \in Seq(Steps) /\ open \in BOOLEAN
      /\ buf \in Seq(Value) /\ start \in Addr /\ writing \in BOOLEAN
      /\ usage \in Nat /\ ops \in Nat /\ bytes \in Nat
      /\ line \in Seq(Command) /\ replies \in Seq(Reply) /\ opbuf \in Seq(Operation)
      /\ issued \in Seq(Act) /\ done \in Seq(Act)
      /\ got \in [addr : Addr, data : Seq(Reply)] /\ naks \in Nat /\ calls \in Nat
  BY DEF Types
<1>0. line # <<>>
  BY DEF Programmer, DeviceQueues, DeviceExecutes, DeviceReads, DeviceObeys
<1> DEFINE c == Head(line)
<1>h. c \in Command /\ Tail(line) \in Seq(Command)
  BY <1>0, <1>t, UnconsIs
<1>a. Append(replies, "ACK") \in Seq(Reply) /\ Append(replies, "NAK") \in Seq(Reply)
  <2>1. "ACK" \in Reply /\ "NAK" \in Reply
    BY DEF Reply
  <2> QED
    BY <1>t, <2>1
<1>1. CASE DeviceQueues
  <2>1. c \in Operation
    BY <1>1, <1>h, CommandFields DEF DeviceQueues
  <2>2. Append(opbuf, c) \in Seq(Operation)
    BY <1>t, <2>1
  <2>3. /\ line' = Tail(line)
        /\ \/ opbuf' = Append(opbuf, c) /\ replies' = Append(replies, "ACK") /\ naks' = naks
           \/ opbuf' = opbuf /\ replies' = Append(replies, "NAK") /\ naks' = naks + 1
        /\ UNCHANGED <<limits, driver, done, history>>
    BY <1>1 DEF DeviceQueues
  <2> HIDE DEF c
  <2>4. naks' \in Nat
    BY <1>t, <2>3
  <2>5. replies' \in Seq(Reply) /\ opbuf' \in Seq(Operation) /\ line' \in Seq(Command)
    BY <1>t, <1>h, <1>a, <2>2, <2>3
  <2> QED
    BY <1>t, <2>3, <2>4, <2>5 DEF Types, driver, history
<1>2. CASE DeviceExecutes
  <2>1. EffectOf(opbuf) \in Seq(Act)
    <3> DEFINE f == [i \in 1 .. Len(opbuf) |-> Effect(opbuf[i])]
    <3>1. Len(opbuf) \in Nat /\ DOMAIN opbuf = 1 .. Len(opbuf)
          /\ \A i \in 1 .. Len(opbuf) : opbuf[i] \in Operation
      BY <1>t
    <3>2. f \in [1 .. Len(opbuf) -> Seq(Act)]
      BY <3>1, EffectType
    <3>3. EffectOf(opbuf) = FlattenSeq(f)
      BY <3>1 DEF EffectOf
    <3> HIDE DEF f
    <3>4. f \in Seq(Seq(Act))
      BY <3>1, <3>2, FunSeq
    <3>5. <<>> \in Seq(Act)
      OBVIOUS
    <3>6. FlattenSeq(f) \in Seq(Act)
      BY <3>4, <3>5, FlattenAppend
    <3> QED
      BY <3>3, <3>6
  <2>2. done \o EffectOf(opbuf) \in Seq(Act) /\ <<>> \in Seq(Operation)
    BY <1>t, <2>1, ConcatElements
  <2> QED
    BY <1>2, <1>t, <1>h, <1>a, <2>2 DEF DeviceExecutes, Types, driver, history
<1>3. CASE DeviceReads
  <2>1. IsRead(c)
    BY <1>3 DEF DeviceReads, IsRead
  <2>2. c.addr \in Nat /\ c.len \in Nat
    BY <1>h, <2>1, CommandFields
  <2> DEFINE data == [i \in 1 .. c.len |-> Latest(done, c.addr + i - 1)]
             ack == <<"ACK">>
  <2>3. data \in [1 .. c.len -> Reply]
    BY <1>t, <2>2, LatestType DEF Reply
  <2>4. replies' = replies \o ack \o data
    BY <1>3 DEF DeviceReads
  <2>5. ack \in Seq(Reply)
    BY DEF Reply
  <2> HIDE DEF data, ack, c
  <2>6. data \in Seq(Reply)
    BY <2>2, <2>3, FunSeq
  <2>7. replies' \in Seq(Reply)
    <3>1. replies \o ack \in Seq(Reply)
      BY <1>t, <2>5, ConcatElements
    <3> QED
      BY <2>4, <2>6, <3>1, ConcatElements
  <2>8. line' = Tail(line) /\ UNCHANGED <<limits, driver, device, history>>
    BY <1>3 DEF DeviceReads
  <2> QED
    BY <1>t, <1>h, <2>7, <2>8 DEF Types, driver, device, history
<1>4. CASE DeviceObeys
  <2>1. Append(done, Did("spi")) \in Seq(Act)
    BY <1>t, DidType
  <2>2. /\ line' = Tail(line) /\ replies' = Append(replies, "ACK")
        /\ done' = (IF c.cmd = "O_SPIOP" THEN Append(done, Did("spi")) ELSE done)
        /\ UNCHANGED <<limits, driver, opbuf, naks, history>>
    BY <1>4 DEF DeviceObeys
  <2> HIDE DEF c
  <2> QED
    BY <1>t, <1>h, <1>a, <2>1, <2>2 DEF Types, driver, history
<1> QED
  BY <1>1, <1>2, <1>3, <1>4 DEF Programmer

LEMMA NextTypes ==
  ASSUME Types, [Next]_vars
  PROVE  Types'
<1>1. CASE Next
  BY <1>1, BeginsTypes, DriverTypes, ProgrammerTypes DEF Next
<1>2. CASE UNCHANGED vars
  BY <1>2 DEF vars, driver, device, history, Types
<1> QED
  BY <1>1, <1>2


-----------------------------------------------------------------------------
(* Agendas that may follow                                                 *)

LEMMA StartFront ==
  ASSUME NEW x \in Steps, NEW t \in Seq(Steps), NEW u, u = <<x>> \o t
  PROVE  Start(u) = x.step /\ Second(u) = Start(t)
<1>1. /\ Len(t) \in Nat /\ Len(u) = Len(t) + 1 /\ u # <<>> /\ u[1] = x
      /\ \A i \in 1 .. Len(t) : u[i + 1] = t[i]
  BY FrontIs
<1>2. Start(u) = x.step
  BY <1>1 DEF Start
<1>3. CASE t = <<>>
  <2>1. Len(t) = 0
    BY <1>3
  <2> QED
    BY <1>1, <1>2, <1>3, <2>1 DEF Start, Second
<1>4. CASE t # <<>>
  <2>1. Len(t) # 0
    BY <1>4, EmptySeq
  <2>2. 1 \in 1 .. Len(t) /\ Len(u) > 1
    BY <1>1, <2>1
  <2>3. u[2] = t[1]
    BY <1>1, <2>2
  <2> QED
    BY <1>2, <1>4, <2>2, <2>3 DEF Start, Second
<1> QED
  BY <1>3, <1>4

LEMMA StartNothing == Start(<<>>) = "none" /\ Second(<<>>) = "none"
<1>1. Len(<<>>) = 0
  OBVIOUS
<1> QED
  BY <1>1 DEF Start, Second

\* What the first step needs
LEMMA ReadyFirst ==
  ASSUME NEW x \in Steps, NEW t \in Seq(Steps), NEW e \in BOOLEAN, NEW s \in BOOLEAN, NEW a,
         Ready(<<x>> \o t, e, s, a)
  PROVE  /\ Fits(x, t)
         /\ NeedsPass(x) => e
         /\ Settled(x) => s
         /\ SendsRead(x) => x.cmd.addr = a
         /\ x.step = "rest" => x.addr = a
<1> DEFINE u == <<x>> \o t
           f == e \/ x.step = "pass"
           r == (s /\ Quiet(x)) \/ SendsExec(x)
<1>u. Ready(u, e, s, a)
  OBVIOUS
<1>w. u = <<x>> \o t
  OBVIOUS
<1> HIDE DEF u
<1>0. f \in BOOLEAN /\ r \in BOOLEAN
      /\ (f => e \/ x.step = "pass") /\ (e => f) /\ (x.step = "pass" => f)
      /\ (r => (s /\ Quiet(x)) \/ SendsExec(x)) /\ (s /\ Quiet(x) => r) /\ (SendsExec(x) => r)
  OBVIOUS
<1> HIDE DEF f, r
<1>1. Shape(u) <=> Fits(x, t) /\ Shape(t)
  BY <1>w, ShapeFront
<1>2. Passes(u, e) <=> (NeedsPass(x) => e) /\ Passes(t, f)
  BY <1>w, <1>0, PassesFront
<1>3. Settles(u, s) <=> (Settled(x) => s) /\ Settles(t, r)
  BY <1>w, <1>0, SettlesFront
<1>4. Fits(x, t)
  BY <1>u, <1>1 DEF Ready
<1>5. Aims(u, a) /\ Passes(u, e) /\ Settles(u, s)
  BY <1>u DEF Ready
<1>6. (SendsRead(x) => x.cmd.addr = a) /\ (x.step = "rest" => x.addr = a)
  BY <1>w, <1>4, <1>5, AimsFront
<1> QED
  BY <1>2, <1>3, <1>4, <1>5, <1>6

LEMMA ReadyMore ==
  ASSUME NEW t, NEW e \in BOOLEAN, NEW f \in BOOLEAN, NEW s \in BOOLEAN, NEW r \in BOOLEAN, NEW a,
         Ready(t, e, s, a), e => f, s => r
  PROVE  Ready(t, f, r, a)
<1>1. Passes(t, e) => Passes(t, f)
  BY DEF Passes
<1>2. Settles(t, s) => Settles(t, r)
  BY DEF Settles
<1> QED
  BY <1>1, <1>2 DEF Ready

\* A step is put in front of an agenda
LEMMA Put ==
  ASSUME NEW x \in Steps, NEW t \in Seq(Steps), NEW e \in BOOLEAN, NEW s \in BOOLEAN, NEW a,
         NEW f \in BOOLEAN, NEW r \in BOOLEAN, NEW b, Ready(t, f, r, b), Fits(x, t),
         NeedsPass(x) => e, Settled(x) => s, SendsRead(x) => x.cmd.addr = a,
         x.step = "rest" => x.addr = a,
         f => e \/ x.step = "pass", r => (s /\ Quiet(x)) \/ SendsExec(x),
         x.step = "take" => b = a + x.len, x.step # "take" => b = a
  PROVE  Ready(<<x>> \o t, e, s, a)
<1> DEFINE f1 == e \/ x.step = "pass"
           r1 == (s /\ Quiet(x)) \/ SendsExec(x)
           u == <<x>> \o t
<1>1. /\ f1 \in BOOLEAN /\ r1 \in BOOLEAN /\ (f => f1) /\ (r => r1) /\ u = <<x>> \o t
      /\ (f1 => e \/ x.step = "pass") /\ (e => f1) /\ (x.step = "pass" => f1)
      /\ (r1 => (s /\ Quiet(x)) \/ SendsExec(x)) /\ (s /\ Quiet(x) => r1) /\ (SendsExec(x) => r1)
  OBVIOUS
<1> HIDE DEF f1, r1, u
<1>2. Ready(t, f1, r1, b)
  BY <1>1, ReadyMore
<1>3. Shape(u) <=> Fits(x, t) /\ Shape(t)
  BY <1>1, ShapeFront
<1>4. Passes(u, e) <=> (NeedsPass(x) => e) /\ Passes(t, f1)
  BY ZenonT(30), <1>1, PassesFront
<1>5. Settles(u, s) <=> (Settled(x) => s) /\ Settles(t, r1)
  BY ZenonT(30), <1>1, SettlesFront
<1>6. Aims(u, a)
  <2>1. b = IF x.step = "take" THEN a + x.len ELSE a
    OBVIOUS
  <2>2. Aims(t, b)
    BY DEF Ready
  <2> QED
    BY <1>1, <2>1, <2>2, AimsFront
<1>7. Ready(u, e, s, a)
  BY <1>2, <1>3, <1>4, <1>5, <1>6 DEF Ready
<1> QED
  BY <1>7 DEF u

\* The first step is taken from an agenda
LEMMA Drop ==
  ASSUME NEW x \in Steps, NEW t \in Seq(Steps), NEW e \in BOOLEAN, NEW s \in BOOLEAN, NEW a,
         NEW f \in BOOLEAN, NEW r \in BOOLEAN, NEW b, Ready(<<x>> \o t, e, s, a),
         e => f, x.step = "pass" => f, s /\ Quiet(x) => r, SendsExec(x) => r,
         x.step = "take" => b = a + x.len, x.step # "take" => b = a
  PROVE  Ready(t, f, r, b)
<1> DEFINE u == <<x>> \o t
           e1 == e \/ x.step = "pass"
           s1 == (s /\ Quiet(x)) \/ SendsExec(x)
<1>u. Ready(u, e, s, a)
  OBVIOUS
<1>w. u = <<x>> \o t
  OBVIOUS
<1> HIDE DEF u
<1>1. /\ e1 \in BOOLEAN /\ s1 \in BOOLEAN /\ (e1 => f) /\ (s1 => r)
      /\ (e1 => e \/ x.step = "pass") /\ (e => e1) /\ (x.step = "pass" => e1)
      /\ (s1 => (s /\ Quiet(x)) \/ SendsExec(x)) /\ (s /\ Quiet(x) => s1) /\ (SendsExec(x) => s1)
  OBVIOUS
<1> HIDE DEF e1, s1
<1>2. Shape(u) /\ Passes(u, e) /\ Settles(u, s) /\ Aims(u, a)
  BY <1>u DEF Ready
<1>3. Shape(u) <=> Fits(x, t) /\ Shape(t)
  BY <1>w, ShapeFront
<1>4. Passes(u, e) <=> (NeedsPass(x) => e) /\ Passes(t, e1)
  BY ZenonT(30), <1>w, <1>1, PassesFront
<1>5. Settles(u, s) <=> (Settled(x) => s) /\ Settles(t, s1)
  BY ZenonT(30), <1>w, <1>1, SettlesFront
<1>6. Aims(t, b)
  <2>1. b = IF x.step = "take" THEN a + x.len ELSE a
    OBVIOUS
  <2> QED
    BY <1>2, <1>3, <2>1, <1>w, AimsFront
<1>7. Ready(t, e1, s1, b)
  BY <1>2, <1>3, <1>4, <1>5, <1>6 DEF Ready
<1> QED
  BY <1>1, <1>7, ReadyMore

LEMMA ReadyNothing ==
  ASSUME NEW e, NEW s, NEW a
  PROVE  Ready(<<>>, e, s, a)
BY NoSteps DEF Ready

\* No step that belongs to another one comes first
Loose(t) ==
  Start(t) \notin {"count", "take", "answer", "tell", "close", "rest"} /\ Second(t) # "take"

\* What sets the kinds of steps apart
LEMMA Kinds ==
  ASSUME NEW x \in Steps
  PROVE  /\ x.step \in {"pass", "check", "full", "flush", "count", "store", "rest"} =>
              /\ ~SendsOp(x) /\ ~SendsRead(x) /\ ~SendsExec(x) /\ ~Settled(x)
              /\ Plans(x) = IF x.step = "store" THEN <<Wrote(x.addr, x.val)>> ELSE <<>>
         /\ x.step \in {"take", "answer", "close"} =>
              /\ ~SendsOp(x) /\ ~SendsRead(x) /\ ~SendsExec(x) /\ Settled(x) /\ Plans(x) = <<>>
         /\ x.step = "tell" => ~SendsOp(x) /\ ~SendsRead(x) /\ ~SendsExec(x) /\ Settled(x)
         /\ Quiet(x) <=> Settled(x) \/ x.step = "flush"
         /\ NeedsPass(x) <=> x.step \in {"send", "store", "tell", "count", "take", "close"}
BY DEF SendsOp, SendsRead, SendsExec, Settled, Quiet, Plans, NeedsPass

LEMMA SendKinds ==
  ASSUME NEW x \in Steps, x.step = "send"
  PROVE  /\ SendsOp(x) <=> Queues(x.cmd)
         /\ SendsRead(x) <=> IsRead(x.cmd)
         /\ SendsExec(x) <=> x.cmd = Exec
         /\ Queues(x.cmd) \/ IsRead(x.cmd) \/ x.cmd = Exec
         /\ ~(SendsOp(x) /\ SendsRead(x)) /\ ~(SendsOp(x) /\ SendsExec(x)) /\ ~(SendsRead(x) /\ SendsExec(x))
         /\ Settled(x) <=> SendsRead(x)
         /\ Plans(x) = IF SendsOp(x) THEN Effect(x.cmd) ELSE <<>>
         /\ x.cmd \in Command /\ ~IsTold(x.cmd) /\ x.cmd.cmd # "O_WRITEN" /\ x.cmd # SpiOp
         /\ Does(x.cmd) = Plans(x)
<1>1. x.cmd \in Sendable /\ x.cmd \in Command
  BY StepFields
<1>2. x.cmd.cmd \in {"O_WRITEB", "O_DELAY", "O_EXEC", "R_BYTE", "R_NBYTES"}
  BY <1>1 DEF Sendable
<1>3. x.cmd.cmd = "O_EXEC" <=> x.cmd = Exec
  BY <1>1, CommandFields
<1>4. x.cmd # SpiOp
  BY <1>2 DEF SpiOp
<1> QED
  BY <1>1, <1>2, <1>3, <1>4 DEF SendsOp, SendsRead, SendsExec, Settled, Plans, Does, Queues, IsRead, IsTold

LEMMA FitsPlain ==
  ASSUME NEW x \in Steps, NEW t \in Seq(Steps)
  PROVE  /\ x.step \in {"pass", "check", "full", "count"} => (Fits(x, t) <=> Loose(t))
         /\ x.step = "store" =>
              (Fits(x, t) <=> Loose(t) /\ Passes(t, FALSE) /\ \E i \in 1 .. Len(t) : t[i].step = "full")
         /\ x.step = "flush" =>
              (Fits(x, t) <=> Start(t) \notin {"count", "answer", "close", "rest"} /\ Second(t) # "take")
BY Kinds DEF Fits, Loose

LEMMA Makers ==
  ASSUME NEW d
  PROVE  /\ Pass(d).step = "pass" /\ Flush(d).step = "flush" /\ Full(d).step = "full"
         /\ Answer(d).step = "answer" /\ Close(d).step = "close"
         /\ \A c : Send(c, d).step = "send" /\ Send(c, d).cmd = c
         /\ \A n, b : /\ Count(n, b, d).step = "count" /\ Count(n, b, d).size = n
                      /\ Count(n, b, d).delay = b
         /\ \A n : Check(n, d).step = "check" /\ Check(n, d).size = n
         /\ \A a, v : Store(a, v, d).step = "store" /\ Store(a, v, d).addr = a /\ Store(a, v, d).val = v
         /\ \A a, n : Rest(a, n, d).step = "rest" /\ Rest(a, n, d).addr = a /\ Rest(a, n, d).len = n
         /\ \A n : Take(n, d).step = "take" /\ Take(n, d).len = n
         /\ \A c : Tell(c, d).step = "tell" /\ Tell(c, d).cmd = c
BY DEF Pass, Flush, Full, Answer, Close, Send, Count, Check, Store, Rest, Take, Tell


LEMMA PutPlain ==
  ASSUME NEW x \in Steps, x.step \in {"pass", "check", "full"}, NEW t \in Seq(Steps), Loose(t),
         NEW e \in BOOLEAN, NEW s \in BOOLEAN, NEW a, NEW f \in BOOLEAN, Ready(t, f, FALSE, a),
         f => e \/ x.step = "pass"
  PROVE  Ready(<<x>> \o t, e, s, a)
<1>1. Fits(x, t)
  BY FitsPlain
<1>2. ~NeedsPass(x) /\ ~Settled(x) /\ ~SendsRead(x)
  BY Kinds
<1>3. FALSE \in BOOLEAN
  OBVIOUS
<1> QED
  BY ZenonT(30), <1>1, <1>2, <1>3, Put

LEMMA PutFlush ==
  ASSUME NEW d \in 1 .. 4, NEW t \in Seq(Steps), NEW e \in BOOLEAN, NEW s \in BOOLEAN, NEW a,
         Ready(t, e, s, a), Start(t) \notin {"count", "answer", "close", "rest"}, Second(t) # "take"
  PROVE  Ready(<<Flush(d)>> \o t, e, s, a)
<1> DEFINE x == Flush(d)
<1>1. x \in Steps /\ x.step = "flush"
  BY StepMakers, Makers
<1> HIDE DEF x
<1>2. Fits(x, t)
  BY <1>1, FitsPlain
<1>3. ~NeedsPass(x) /\ ~Settled(x) /\ ~SendsRead(x) /\ Quiet(x)
  BY <1>1, Kinds
<1>4. Ready(<<x>> \o t, e, s, a)
  BY <1>1, <1>2, <1>3, Put
<1> QED
  BY <1>4 DEF x

LEMMA PutExec ==
  ASSUME NEW d \in 1 .. 4, NEW t \in Seq(Steps), NEW a,
         NEW r \in BOOLEAN, Ready(t, TRUE, r, a),
         Start(t) = "flush" \/ (Start(t) = "send" /\ SendsRead(t[1])), Second(t) # "take"
  PROVE  Ready(<<Send(Exec, d)>> \o t, TRUE, FALSE, a)
<1> DEFINE x == Send(Exec, d)
<1>1. x \in Steps /\ x.step = "send" /\ x.cmd = Exec
  BY StepMakers, Makers, SendableCommands
<1> HIDE DEF x
<1>2. ~SendsOp(x) /\ ~SendsRead(x) /\ SendsExec(x) /\ ~Settled(x)
  BY <1>1, SendKinds
<1>3. Fits(x, t)
  BY <1>1, <1>2 DEF Fits, Start
<1>4. TRUE \in BOOLEAN /\ FALSE \in BOOLEAN
  OBVIOUS
<1>5. Ready(<<x>> \o t, TRUE, FALSE, a)
  BY <1>1, <1>2, <1>3, <1>4, Put
<1> QED
  BY <1>5 DEF x

\* sp_execute_opbuf_noflush()
LEMMA PutExecute ==
  ASSUME NEW d \in 1 .. 4, NEW t \in Seq(Steps), NEW a,
         NEW r \in BOOLEAN, Ready(t, TRUE, r, a),
         Start(t) = "flush" \/ (Start(t) = "send" /\ SendsRead(t[1])), Second(t) # "take"
  PROVE  /\ Ready(ExecuteNoFlush(d) \o t, FALSE, FALSE, a)
         /\ ExecuteNoFlush(d) \o t \in Seq(Steps)
         /\ Start(ExecuteNoFlush(d) \o t) = "pass" /\ Second(ExecuteNoFlush(d) \o t) = "send"
         /\ Plan(ExecuteNoFlush(d) \o t) = Plan(t)
         /\ \A kinds : Has(ExecuteNoFlush(d) \o t, kinds) <=>
              "pass" \in kinds \/ "send" \in kinds \/ Has(t, kinds)
<1> DEFINE x == Pass(d)
           y == Send(Exec, d)
           t1 == <<y>> \o t
           t2 == <<x>> \o t1
<1>1. x \in Steps /\ x.step = "pass" /\ y \in Steps /\ y.step = "send" /\ y.cmd = Exec
  BY SMTT(30), StepMakers, Makers, SendableCommands
<1>2. ExecuteNoFlush(d) \o t = <<x, y>> \o t
  BY DEF ExecuteNoFlush
<1>3. Ready(t1, TRUE, FALSE, a)
  BY PutExec
<1> HIDE DEF x, y
<1>4. t1 \in Seq(Steps) /\ t1 = <<y>> \o t
  BY <1>1, ConsIs
<1>5. ExecuteNoFlush(d) \o t = t2
  BY SMTT(30), <1>1, <1>2, ConsTwo
<1> HIDE DEF t1
<1>6. t2 \in Seq(Steps) /\ t2 = <<x>> \o t1
  BY <1>1, <1>4, ConsIs
<1> HIDE DEF t2
<1>7. Start(t1) = "send" /\ Second(t1) = Start(t) /\ Start(t2) = "pass" /\ Second(t2) = "send"
  <2>1. Start(t1) = "send" /\ Second(t1) = Start(t)
    BY <1>1, <1>4, StartFront
  <2>2. Start(t2) = "pass" /\ Second(t2) = Start(t1)
    BY <1>1, <1>4, <1>6, StartFront
  <2> QED
    BY <2>1, <2>2
<1>8. Ready(t2, FALSE, FALSE, a)
  <2>1. Loose(t1)
    BY <1>7 DEF Loose
  <2>2. TRUE \in BOOLEAN /\ FALSE \in BOOLEAN
    OBVIOUS
  <2>3. Ready(<<x>> \o t1, FALSE, FALSE, a)
    BY <1>1, <1>3, <1>4, <2>1, <2>2, PutPlain
  <2> QED
    BY <1>6, <2>3
<1>9. Plan(t2) = Plan(t)
  <2>1. Plans(x) = <<>> /\ Plans(y) = <<>>
    <3>1. ~SendsOp(y)
      BY <1>1, SendKinds
    <3> QED
      BY <1>1, <3>1, Kinds, SendKinds
  <2>2. Plan(t2) = Plans(x) \o Plan(t1) /\ Plan(t1) \in Seq(Act)
    BY <1>1, <1>4, <1>6, PlanFront
  <2>3. Plan(t1) = Plans(y) \o Plan(t) /\ Plan(t) \in Seq(Act)
    BY <1>1, <1>4, PlanFront
  <2>4. \A q \in Seq(Act) : <<>> \o q = q
    OBVIOUS
  <2> QED
    BY <2>1, <2>2, <2>3, <2>4
<1>10. ASSUME NEW kinds
       PROVE  Has(t2, kinds) <=> "pass" \in kinds \/ "send" \in kinds \/ Has(t, kinds)
  <2>1. Has(t1, kinds) <=> "send" \in kinds \/ Has(t, kinds)
    BY <1>1, <1>4, HasFront
  <2>2. Has(t2, kinds) <=> "pass" \in kinds \/ Has(t1, kinds)
    <3>1. x \in Steps /\ t1 \in Seq(Steps) /\ t2 = <<x>> \o t1
      BY <1>1, <1>4, <1>6
    <3>2. Has(<<x>> \o t1, kinds) <=> x.step \in kinds \/ Has(t1, kinds)
      BY <3>1, HasFront
    <3> QED
      BY <1>1, <3>1, <3>2
  <2> QED
    BY <2>1, <2>2
<1> QED
  BY <1>5, <1>6, <1>7, <1>8, <1>9, <1>10

LEMMA PutCount ==
  ASSUME NEW x \in Steps, x.step = "count", NEW t \in Seq(Steps), NEW a,
         Ready(t, TRUE, FALSE, a), Loose(t)
  PROVE  Ready(<<x>> \o t, TRUE, FALSE, a)
<1>1. Fits(x, t) /\ ~Settled(x) /\ ~SendsRead(x) /\ TRUE \in BOOLEAN /\ FALSE \in BOOLEAN
  BY FitsPlain, Kinds
<1> QED
  BY <1>1, Put

\* An operation and what it takes in the operation buffer
LEMMA PutOperation ==
  ASSUME NEW x \in Steps, NEW y \in Steps, x.step = "send", Queues(x.cmd), y.step = "count",
         y.size = Length(x.cmd), NEW t \in Seq(Steps), NEW a, Ready(t, TRUE, FALSE, a), Loose(t)
  PROVE  Ready(<<x, y>> \o t, TRUE, FALSE, a)
<1> DEFINE c == x.cmd
           t1 == <<y>> \o t
           t2 == <<x>> \o t1
           u == <<x, y>> \o t
<1>1. x \in Steps /\ x.step = "send" /\ x.cmd = c /\ y \in Steps /\ y.step = "count" /\ y.size = Length(c)
  OBVIOUS
<1> HIDE DEF c
<1>4. t1 \in Seq(Steps) /\ t1 = <<y>> \o t /\ t1[1] = y
  BY <1>1, ConsIs
<1>5. u = t2
  BY <1>1, ConsTwo
<1>3. Ready(t1, TRUE, FALSE, a)
  BY <1>1, PutCount
<1> HIDE DEF t1
<1>6. t2 \in Seq(Steps) /\ t2 = <<x>> \o t1
  BY <1>1, <1>4, ConsIs
<1> HIDE DEF t2
<1>7. Start(t1) = "count" /\ Second(t1) = Start(t) /\ Start(t2) = "send" /\ Second(t2) = "count"
  <2>1. Start(t1) = "count" /\ Second(t1) = Start(t)
    BY <1>1, <1>4, StartFront
  <2>2. Start(t2) = "send" /\ Second(t2) = Start(t1)
    BY <1>1, <1>4, <1>6, StartFront
  <2> QED
    BY <2>1, <2>2
<1>k. SendsOp(x) /\ ~SendsRead(x) /\ ~SendsExec(x) /\ ~Settled(x)
  BY <1>1, Kinds, SendKinds
<1>8. Ready(t2, TRUE, FALSE, a)
  <2>1. Fits(x, t1)
    BY <1>1, <1>4, <1>7, <1>k DEF Fits, Loose
  <2>2. TRUE \in BOOLEAN /\ FALSE \in BOOLEAN
    OBVIOUS
  <2>3. Ready(<<x>> \o t1, TRUE, FALSE, a)
    BY <1>1, <1>3, <1>4, <1>k, <2>1, <2>2, Put
  <2> QED
    BY <1>6, <2>3
<1>9. Ready(u, TRUE, FALSE, a)
  BY <1>5, <1>8
<1> QED
  BY <1>9 DEF u

LEMMA OperationFirst ==
  ASSUME NEW x \in Steps, NEW y \in Steps, x.step = "send", Queues(x.cmd), y.step = "count",
         NEW t \in Seq(Steps)
  PROVE  /\ <<x, y>> \o t \in Seq(Steps)
         /\ Start(<<x, y>> \o t) = "send" /\ Second(<<x, y>> \o t) = "count"
         /\ Plan(<<x, y>> \o t) = Effect(x.cmd) \o Plan(t)
         /\ \A kinds : Has(<<x, y>> \o t, kinds) <=>
              "send" \in kinds \/ "count" \in kinds \/ Has(t, kinds)
<1> DEFINE c == x.cmd
           t1 == <<y>> \o t
           t2 == <<x>> \o t1
           u == <<x, y>> \o t
<1>1. x \in Steps /\ x.step = "send" /\ x.cmd = c /\ y \in Steps /\ y.step = "count"
  OBVIOUS
<1> HIDE DEF c
<1>4. t1 \in Seq(Steps) /\ t1 = <<y>> \o t /\ t1[1] = y
  BY <1>1, ConsIs
<1>5. u = t2
  BY <1>1, ConsTwo
<1> HIDE DEF t1
<1>6. t2 \in Seq(Steps) /\ t2 = <<x>> \o t1
  BY <1>1, <1>4, ConsIs
<1> HIDE DEF t2
<1>7. Start(t1) = "count" /\ Second(t1) = Start(t) /\ Start(t2) = "send" /\ Second(t2) = "count"
  <2>1. Start(t1) = "count" /\ Second(t1) = Start(t)
    BY <1>1, <1>4, StartFront
  <2>2. Start(t2) = "send" /\ Second(t2) = Start(t1)
    BY <1>1, <1>4, <1>6, StartFront
  <2> QED
    BY <2>1, <2>2
<1>k. Plans(x) = Effect(c) /\ Plans(y) = <<>>
  BY <1>1, Kinds, SendKinds
<1>9. Plan(t2) = Effect(c) \o Plan(t)
  <2>2. Plan(t2) = Plans(x) \o Plan(t1) /\ Plan(t1) \in Seq(Act)
    BY <1>1, <1>4, <1>6, PlanFront
  <2>3. Plan(t1) = Plans(y) \o Plan(t) /\ Plan(t) \in Seq(Act)
    BY <1>1, <1>4, PlanFront
  <2>4. \A q \in Seq(Act) : <<>> \o q = q
    OBVIOUS
  <2> QED
    BY <1>k, <2>2, <2>3, <2>4
<1>10. ASSUME NEW kinds
       PROVE  Has(t2, kinds) <=> "send" \in kinds \/ "count" \in kinds \/ Has(t, kinds)
  <2>1. Has(t1, kinds) <=> "count" \in kinds \/ Has(t, kinds)
    BY <1>1, <1>4, HasFront
  <2>2. Has(t2, kinds) <=> "send" \in kinds \/ Has(t1, kinds)
    <3>1. x \in Steps /\ t1 \in Seq(Steps) /\ t2 = <<x>> \o t1
      BY <1>1, <1>4, <1>6
    <3>2. Has(<<x>> \o t1, kinds) <=> x.step \in kinds \/ Has(t1, kinds)
      BY <3>1, HasFront
    <3> QED
      BY <1>1, <3>1, <3>2
  <2> QED
    BY <2>1, <2>2
<1> HIDE DEF u
<1>11. u \in Seq(Steps) /\ Start(u) = "send" /\ Second(u) = "count"
       /\ Plan(u) = Effect(c) \o Plan(t)
       /\ \A kinds : Has(u, kinds) <=> "send" \in kinds \/ "count" \in kinds \/ Has(t, kinds)
  BY <1>5, <1>6, <1>7, <1>9, <1>10
<1> QED
  BY <1>11 DEF u, c


-----------------------------------------------------------------------------
(* What has been collected                                                 *)

LEMMA CollectedIs ==
  ASSUME NEW a \in Nat, NEW s \in Seq(Value)
  PROVE  /\ Effect(WriteN(a, s)) \in Seq(Act) /\ Len(Effect(WriteN(a, s))) = Len(s)
         /\ \A i \in 1 .. Len(s) : Effect(WriteN(a, s))[i] = Wrote(a + i - 1, s[i])
<1> DEFINE n == Len(s)
           f == [i \in 1 .. n |-> Wrote(a + i - 1, s[i])]
<1>1. n \in Nat /\ \A i \in 1 .. n : s[i] \in Value /\ a + i - 1 \in Nat
  OBVIOUS
<1>2. Effect(WriteN(a, s)) = f
  BY DEF Effect, WriteN
<1>3. f \in [1 .. n -> Act]
  <2> HIDE DEF n
  <2> QED
    BY <1>1, DidType
<1>4. \A i \in 1 .. n : f[i] = Wrote(a + i - 1, s[i])
  OBVIOUS
<1> HIDE DEF f, n
<1>5. f \in Seq(Act) /\ Len(f) = n
  BY <1>1, <1>3, FunSeq
<1> QED
  BY <1>2, <1>4, <1>5 DEF n

LEMMA CollectedNothing ==
  ASSUME NEW a \in Nat
  PROVE  Effect(WriteN(a, <<>>)) = <<>>
<1>1. <<>> \in Seq(Value) /\ Len(<<>>) = 0
  OBVIOUS
<1>2. Effect(WriteN(a, <<>>)) \in Seq(Act) /\ Len(Effect(WriteN(a, <<>>))) = 0
  BY <1>1, CollectedIs
<1> QED
  BY <1>2, EmptySeq

LEMMA CollectedOne ==
  ASSUME NEW a \in Nat, NEW s \in Seq(Value), Len(s) = 1
  PROVE  /\ Effect(WriteN(a, s)) = Effect(WriteB(a, s[1]))
         /\ Effect(WriteB(a, s[1])) = <<Wrote(a, s[1])>>
         /\ <<Wrote(a, s[1])>> \in Seq(Act)
<1> DEFINE v == s[1]
           one == <<v>>
           w == <<Wrote(a, v)>>
<1>1. v \in Value
  <2>1. \A i \in 1 .. Len(s) : s[i] \in Value
    OBVIOUS
  <2> QED
    BY <2>1
<1> HIDE DEF v
<1>2. one \in Seq(Value) /\ Len(one) = 1 /\ one[1] = v
  BY <1>1
<1>3. WriteB(a, v).data = one /\ WriteB(a, v).addr = a /\ WriteB(a, v).cmd = "O_WRITEB"
  BY DEF WriteB
<1>4. Wrote(a, v) \in Act
  BY <1>1, DidType
<1>5. w \in Seq(Act) /\ Len(w) = 1 /\ w[1] = Wrote(a, v)
  BY <1>4
<1> HIDE DEF one, w
<1>6. Effect(WriteB(a, v)) = Effect(WriteN(a, one))
  BY <1>3 DEF Effect, WriteN
<1>7. Effect(WriteN(a, one)) \in Seq(Act) /\ Len(Effect(WriteN(a, one))) = 1
      /\ Effect(WriteN(a, one))[1] = Wrote(a, v)
  <2>1. /\ Effect(WriteN(a, one)) \in Seq(Act) /\ Len(Effect(WriteN(a, one))) = Len(one)
        /\ \A i \in 1 .. Len(one) : Effect(WriteN(a, one))[i] = Wrote(a + i - 1, one[i])
    BY <1>2, CollectedIs
  <2>2. 1 \in 1 .. 1 /\ a + 1 - 1 = a
    OBVIOUS
  <2> QED
    BY <1>2, <2>1, <2>2
<1>8. Effect(WriteN(a, s)) \in Seq(Act) /\ Len(Effect(WriteN(a, s))) = 1
      /\ Effect(WriteN(a, s))[1] = Wrote(a, v)
  <2>1. /\ Effect(WriteN(a, s)) \in Seq(Act) /\ Len(Effect(WriteN(a, s))) = Len(s)
        /\ \A i \in 1 .. Len(s) : Effect(WriteN(a, s))[i] = Wrote(a + i - 1, s[i])
    BY CollectedIs
  <2>2. 1 \in 1 .. 1 /\ a + 1 - 1 = a
    OBVIOUS
  <2> QED
    BY <2>1, <2>2 DEF v
<1>9. Effect(WriteN(a, s)) = w /\ Effect(WriteN(a, one)) = w
  <2>1. \A p, q \in Seq(Act) : Len(p) = 1 /\ Len(q) = 1 /\ p[1] = q[1] => p = q
    <3> TAKE p \in Seq(Act), q \in Seq(Act)
    <3> HAVE Len(p) = 1 /\ Len(q) = 1 /\ p[1] = q[1]
    <3>1. \A i \in 1 .. Len(p) : p[i] = q[i]
      OBVIOUS
    <3> QED
      BY <3>1, SeqEqual
  <2> QED
    BY <1>5, <1>7, <1>8, <2>1
<1> QED
  BY <1>5, <1>6, <1>9 DEF v, w

LEMMA CollectedMore ==
  ASSUME NEW a \in Nat, NEW s \in Seq(Value), NEW v \in Value
  PROVE  Effect(WriteN(a, Append(s, v))) = Effect(WriteN(a, s)) \o <<Wrote(a + Len(s), v)>>
<1> DEFINE n == Len(s)
           t == Append(s, v)
           f == Effect(WriteN(a, t))
           g == Effect(WriteN(a, s))
           w == <<Wrote(a + n, v)>>
<1>1. t \in Seq(Value) /\ Len(t) = n + 1 /\ n \in Nat /\ t[n + 1] = v /\ \A i \in 1 .. n : t[i] = s[i]
  BY AppendProperties
<1>2. g \in Seq(Act) /\ Len(g) = n /\ \A i \in 1 .. n : g[i] = Wrote(a + i - 1, s[i])
  BY CollectedIs
<1>3. w \in Seq(Act) /\ Len(w) = 1 /\ w[1] = Wrote(a + n, v)
  <2>1. Wrote(a + n, v) \in Act
    BY <1>1, DidType
  <2> QED
    BY <2>1
<1> HIDE DEF t
<1>4. f \in Seq(Act) /\ Len(f) = Len(t) /\ \A i \in 1 .. Len(t) : f[i] = Wrote(a + i - 1, t[i])
  BY <1>1, CollectedIs
<1> HIDE DEF f, g, w, n
<1>5. /\ g \o w \in Seq(Act) /\ Len(g \o w) = Len(g) + Len(w)
      /\ \A i \in 1 .. Len(g) : (g \o w)[i] = g[i]
      /\ \A i \in 1 .. Len(w) : (g \o w)[Len(g) + i] = w[i]
  <2>1. g \in Seq(Act) /\ w \in Seq(Act)
    BY <1>2, <1>3
  <2> QED
    BY <2>1, ConcatElements
<1>l. Len(f) = n + 1 /\ n \in Nat
  BY <1>1, <1>4
<1>6. ASSUME NEW i \in 1 .. Len(f)
      PROVE  f[i] = (g \o w)[i]
  <2>1. CASE i \in 1 .. n
    BY <1>1, <1>2, <1>4, <1>5, <2>1
  <2>2. CASE i = n + 1
    <3>1. 1 \in 1 .. Len(w) /\ a + (n + 1) - 1 = a + n
      BY <1>1, <1>3
    <3>2. (g \o w)[n + 1] = Wrote(a + n, v)
      BY <1>2, <1>3, <1>5, <3>1
    <3>3. f[n + 1] = Wrote(a + (n + 1) - 1, v)
      BY <1>1, <1>4, <2>2
    <3> QED
      BY <2>2, <3>1, <3>2, <3>3
  <2>3. i \in 1 .. n \/ i = n + 1
    BY <1>l
  <2> QED
    BY <2>1, <2>2, <2>3
<1>7. f = g \o w
  BY SMTT(30), <1>1, <1>2, <1>3, <1>4, <1>5, <1>6, SeqEqual
<1> QED
  BY <1>7 DEF f, g, w, t, n

-----------------------------------------------------------------------------
(* A command goes out                                                      *)

LEMMA OpbufCommands ==
  ASSUME NEW q \in Seq(Operation)
  PROVE  q \in Seq(Command) /\ \A i \in 1 .. Len(q) : Queues(q[i])
<1>1. \A i \in 1 .. Len(q) : q[i] \in Operation
  OBVIOUS
<1>2. Operation \subseteq Command
  BY DEF Command
<1>3. \A c \in Operation : Queues(c)
  BY <1>2, CommandFields
<1>4. q \in Seq(Command)
  BY <1>2
<1> QED
  BY <1>1, <1>3, <1>4

LEMMA GoesOut ==
  ASSUME Types, NEW c \in Command, line' = Append(line, c), opbuf' = opbuf
  PROVE  /\ Doings(opbuf' \o line') = Doings(opbuf \o line) \o Does(c)
         /\ c # Exec => Coming' = Coming + Size(c)
         /\ c = Exec => Coming' = 0
         /\ Len(line) \in Nat /\ Len(line') = Len(line) + 1 /\ line'[Len(line) + 1] = c
         /\ \A i \in 1 .. Len(line) : line'[i] = line[i]
<1> DEFINE q == opbuf \o line
           one == <<c>>
<1>1. opbuf \in Seq(Command) /\ line \in Seq(Command)
  BY OpbufCommands DEF Types
<1>2. one \in Seq(Command) /\ Append(line, c) = line \o one
  BY <1>1, AppendIsConcat
<1>3. q \in Seq(Command)
  BY <1>1, ConcatElements
<1>4. Doings(one) = Does(c)
  BY DoingsOne
<1> HIDE DEF one
<1>5. opbuf \o (line \o one) = (opbuf \o line) \o one
  BY SMTT(30), <1>1, <1>2, ConcatAssociative
<1>6. opbuf' \o line' = q \o one
  BY <1>2, <1>5
<1> HIDE DEF q
<1>7. Doings(opbuf' \o line') = Doings(q) \o Does(c)
  BY <1>2, <1>3, <1>4, <1>6, DoingsConcat
<1>8. opbuf' \o line' = Append(q, c)
  BY <1>3, <1>6, AppendIsConcat DEF one
<1>9. Coming' = Total(Kept(opbuf' \o line')) /\ Coming = Total(Kept(q))
  BY DEF Coming, q
<1>10. c # Exec => Total(Kept(Append(q, c))) = Total(Kept(q)) + Size(c)
  BY <1>3, KeptMore
<1>11. Total(Kept(Append(q, Exec))) = 0
  BY <1>3, KeptExec
<1>12. /\ Len(line) \in Nat /\ Len(line') = Len(line) + 1 /\ line'[Len(line) + 1] = c
       /\ \A i \in 1 .. Len(line) : line'[i] = line[i]
  BY <1>1, AppendProperties
<1> QED
  BY <1>7, <1>8, <1>9, <1>10, <1>11, <1>12 DEF q

-----------------------------------------------------------------------------
(* The line while the driver waits for nothing                             *)

Idle ==
  /\ Len(replies) = ops - Len(line)
  /\ \A i \in 1 .. Len(replies) : replies[i] = "ACK"
  /\ \A i \in 1 .. Len(line) : ~IsTold(line[i]) /\ ~IsRead(line[i])

Calm(t) == Start(t) \notin {"take", "answer"} /\ ~(Start(t) = "flush" /\ Second(t) = "take")

LEMMA Calms ==
  ASSUME Types, Wire, Calm(todo)
  PROVE  Idle /\ Len(line) \in Nat /\ Len(replies) \in Nat /\ Owed = ops - Len(line)
<1>1. Len(line) \in Nat /\ Len(replies) \in Nat
  BY DEF Types
<1>2. ~Taking /\ ~Flushing /\ Start(todo) # "answer"
  BY DEF Calm, Taking, Flushing
<1>3. Owed = ops - Len(line)
  BY <1>1, <1>2 DEF Owed, Types
<1>4. Len(replies) = Owed
  BY <1>2 DEF Wire
<1>5. \A i \in 1 .. Len(replies) : replies[i] = "ACK"
  BY <1>4 DEF Wire
<1>6. \A i \in 1 .. Len(line) : ~IsTold(line[i]) /\ ~IsRead(line[i])
  BY <1>2 DEF Wire
<1> QED
  BY <1>1, <1>3, <1>4, <1>5, <1>6 DEF Idle

LEMMA CalmAgain ==
  ASSUME Types', Idle', Calm(todo'), Start(todo') \in {"tell", "close"} => ops' = 0,
         ops' > 0 => usage' > 0 \/ Start(todo') = "count" \/ Has(todo', {"flush"})
  PROVE  Wire'
<1>1. Len(line') \in Nat /\ Len(replies') \in Nat /\ ops' \in Nat
  BY DEF Types
<1>2. ~Taking' /\ ~Flushing' /\ Start(todo') # "answer"
  BY DEF Calm, Taking, Flushing
<1>3. Owed' = ops' - Len(line')
  BY <1>1, <1>2 DEF Owed
<1>4. Len(replies') = Owed' /\ Owed' \in 0 .. Len(replies')
  BY <1>1, <1>3 DEF Idle
<1>5. \A i \in 1 .. Owed' : replies'[i] = "ACK"
  BY <1>4 DEF Idle
<1>6. \A i \in Owed' + 1 .. Len(replies') : replies'[i] = Latest(issued', Place' + (i - Owed') - 1)
  <2>1. \A n \in Nat : n + 1 .. n = {}
    OBVIOUS
  <2>2. Owed' + 1 .. Len(replies') = {}
    BY <1>1, <1>4, <2>1
  <2> QED
    BY <2>2
<1>7. \A i \in 1 .. Len(line') : ~IsTold(line'[i]) /\ ~IsRead(line'[i])
  BY DEF Idle
<1>8. Start(todo') \in {"take", "tell", "answer", "close"} => ops' = 0
  BY DEF Calm
<1> HIDE DEF Taking, Flushing
<1> QED
  BY <1>2, <1>4, <1>5, <1>6, <1>7, <1>8 DEF Wire


-----------------------------------------------------------------------------
(* The next step of an agenda                                              *)

LEMMA Takes ==
  ASSUME Types, Good, todo # <<>>
  PROVE  /\ Now \in Steps /\ Later \in Seq(Steps) /\ todo = <<Now>> \o Later /\ todo[1] = Now
         /\ Now.depth \in 1 .. 4
         /\ Start(todo) = Now.step /\ Second(todo) = Start(Later)
         /\ Fits(Now, Later)
         /\ NeedsPass(Now) => buf = <<>>
         /\ Settled(Now) => usage = 0
         /\ SendsRead(Now) => Now.cmd.addr = Place
         /\ Now.step = "rest" => Now.addr = Place
         /\ Plan(todo) = Plans(Now) \o Plan(Later)
         /\ Plan(Later) \in Seq(Act) /\ Plans(Now) \in Seq(Act)
         /\ \A kinds : Has(todo, kinds) <=> Now.step \in kinds \/ Has(Later, kinds)
         /\ open = TRUE
<1>1. /\ Now \in Steps /\ Later \in Seq(Steps) /\ todo = <<Now>> \o Later /\ todo[1] = Now
      /\ Now.depth \in 1 .. 4
  BY Running DEF Types
<1>2. Start(todo) = Now.step /\ Second(todo) = Start(Later)
  BY <1>1, StartFront
<1>3. /\ Fits(Now, Later)
      /\ NeedsPass(Now) => buf = <<>>
      /\ Settled(Now) => usage = 0
      /\ SendsRead(Now) => Now.cmd.addr = Place
      /\ Now.step = "rest" => Now.addr = Place
  <2> DEFINE e == buf = <<>>
             s == usage = 0
  <2>1. e \in BOOLEAN /\ s \in BOOLEAN
    OBVIOUS
  <2>2. Ready(todo, e, s, Place)
    BY DEF Good, Agenda
  <2> HIDE DEF e, s
  <2>r. Ready(<<Now>> \o Later, e, s, Place)
    BY <1>1, <2>2
  <2>3. /\ Fits(Now, Later)
        /\ NeedsPass(Now) => e
        /\ Settled(Now) => s
        /\ SendsRead(Now) => Now.cmd.addr = Place
        /\ Now.step = "rest" => Now.addr = Place
    BY <1>1, <2>1, <2>r, ReadyFirst
  <2> QED
    BY <2>3 DEF e, s
<1>4. Plan(todo) = Plans(Now) \o Plan(Later) /\ Plan(Later) \in Seq(Act) /\ Plans(Now) \in Seq(Act)
  BY <1>1, PlanFront
<1>5. ASSUME NEW kinds
      PROVE  Has(todo, kinds) <=> Now.step \in kinds \/ Has(Later, kinds)
  <2>1. Has(<<Now>> \o Later, kinds) <=> Now.step \in kinds \/ Has(Later, kinds)
    BY <1>1, HasFront
  <2> QED
    BY <1>1, <2>1
<1>6. open = TRUE
  BY DEF Good, Closed, Types
<1> QED
  BY <1>1, <1>2, <1>3, <1>4, <1>5, <1>6

LEMMA LaterReady ==
  ASSUME Types, Good, todo # <<>>, NEW f \in BOOLEAN, NEW r \in BOOLEAN, NEW b,
         buf = <<>> => f, Now.step = "pass" => f, usage = 0 /\ Quiet(Now) => r, SendsExec(Now) => r,
         Now.step = "take" => b = Place + Now.len, Now.step # "take" => b = Place
  PROVE  Ready(Later, f, r, b)
<1> DEFINE e == buf = <<>>
           s == usage = 0
<1>1. e \in BOOLEAN /\ s \in BOOLEAN /\ (e => f) /\ (s /\ Quiet(Now) => r)
  OBVIOUS
<1>2. Ready(todo, e, s, Place)
  BY DEF Good, Agenda
<1>3. Now \in Steps /\ Later \in Seq(Steps) /\ todo = <<Now>> \o Later
  BY Takes
<1> HIDE DEF e, s
<1>4. Ready(<<Now>> \o Later, e, s, Place)
  BY <1>2, <1>3
<1> HIDE DEF Now, Later
<1> QED
  BY <1>1, <1>3, <1>4, Drop

LEMMA AgendaAgain ==
  ASSUME NEW f \in BOOLEAN, NEW r \in BOOLEAN, NEW b, Ready(todo', f, r, b), b = Place',
         f => buf' = <<>>, r => usage' = 0, Has(todo', {"store"}) => limits'.writeN > 0
  PROVE  Agenda'
<1> DEFINE e == buf' = <<>>
           s == usage' = 0
<1>1. e \in BOOLEAN /\ s \in BOOLEAN /\ (f => e) /\ (r => s)
  OBVIOUS
<1> HIDE DEF e, s
<1>2. Ready(todo', e, s, b)
  BY <1>1, ReadyMore
<1> QED
  BY <1>2 DEF e, s, Agenda

\* All that is collected, on the line or in the operation buffer has its type
LEMMA HistoryTypes ==
  ASSUME Types
  PROVE  /\ Doings(opbuf \o line) \in Seq(Act) /\ Collected \in Seq(Act) /\ Plan(todo) \in Seq(Act)
         /\ opbuf \o line \in Seq(Command)
         /\ Coming \in Nat
         /\ buf = <<>> => Collected = <<>>
<1>1. opbuf \o line \in Seq(Command)
  BY OpbufCommands, ConcatElements DEF Types
<1>2. Doings(opbuf \o line) \in Seq(Act)
  BY <1>1, DoingsParts
<1>3. Collected \in Seq(Act)
  BY CollectedIs DEF Types, Collected, Addr
<1>4. Plan(todo) \in Seq(Act)
  BY PlanParts DEF Types
<1>5. Coming \in Nat
  BY <1>1, KeptType, TotalType DEF Coming
<1>6. buf = <<>> => Collected = <<>>
  BY CollectedNothing DEF Types, Collected, Addr
<1> QED
  BY <1>1, <1>2, <1>3, <1>4, <1>5, <1>6

LEMMA Joined ==
  ASSUME NEW p \in Seq(Act), NEW q \in Seq(Act), NEW r \in Seq(Act)
  PROVE  /\ p \o (q \o r) = (p \o q) \o r
         /\ <<>> \o p = p /\ p \o <<>> = p
         /\ p \o q \in Seq(Act)
<1>1. p \o (q \o r) = (p \o q) \o r
  BY SMTT(30), ConcatAssociative
<1>2. p \o q \in Seq(Act)
  BY ConcatElements
<1> QED
  BY <1>1, <1>2

-----------------------------------------------------------------------------
(* Every step keeps the invariant                                          *)

\* sp_flush_stream() is called first
LEMMA FlushFirstKeeps ==
  ASSUME Types, Types', Good, todo # <<>>, Now.step \in {"pass", "send"}, FlushFirst(Now.depth),
         UNCHANGED <<replies, limits, device, history>>
  PROVE  Good'
<1> DEFINE x == Flush(Now.depth)
<1>u. /\ todo' = <<x>> \o todo
      /\ UNCHANGED <<open, buf, start, writing, usage, ops, bytes, line>>
      /\ UNCHANGED <<replies, limits, opbuf, done, naks, issued, got, calls>>
  BY DEF FlushFirst, device, history
<1>n. /\ Now.depth \in 1 .. 4 /\ Start(todo) = Now.step /\ Second(todo) = Start(Later)
      /\ Fits(Now, Later) /\ open = TRUE
  BY Takes
<1>t. todo \in Seq(Steps) /\ ops \in Nat
  BY DEF Types
<1>x. x \in Steps /\ x.step = "flush"
  BY <1>n, StepMakers, Makers
<1>l. Start(Later) # "take"
  BY <1>n DEF Fits
<1>s. Start(todo') = "flush" /\ Second(todo') = Now.step
  BY <1>n, <1>t, <1>u, <1>x, StartFront
<1>p. Place' = Place
  BY <1>u DEF Place
<1>1. Agenda'
  <2> DEFINE e == buf = <<>>
             s == usage = 0
  <2>1. e \in BOOLEAN /\ s \in BOOLEAN
    OBVIOUS
  <2>2. Ready(todo, e, s, Place)
    BY DEF Good, Agenda
  <2>3. (e => buf' = <<>>) /\ (s => usage' = 0)
    BY <1>u
  <2> HIDE DEF e, s
  <2>4. Ready(todo', e, s, Place)
    BY <1>l, <1>n, <1>t, <1>u, <2>1, <2>2, PutFlush
  <2>5. Has(todo', {"store"}) => limits'.writeN > 0
    <3>1. Has(<<x>> \o todo, {"store"}) <=> x.step \in {"store"} \/ Has(todo, {"store"})
      BY <1>t, <1>x, HasFront
    <3>2. Has(todo, {"store"}) => limits.writeN > 0
      BY DEF Good, Agenda
    <3> QED
      BY <1>u, <1>x, <3>1, <3>2
  <2> QED
    BY <1>p, <2>1, <2>3, <2>4, <2>5, AgendaAgain
<1>2. Buffer'
  <2>1. Has(todo, {"full", "pass"}) => Has(todo', {"full", "pass"})
    <3>1. Has(<<x>> \o todo, {"full", "pass"}) <=> x.step \in {"full", "pass"} \/ Has(todo, {"full", "pass"})
      BY <1>t, <1>x, HasFront
    <3> QED
      BY <1>u, <3>1
  <2>2. Longest' = Longest
    BY <1>u DEF Longest
  <2>3. Buffer
    BY DEF Good
  <2> QED
    BY <1>u, <2>1, <2>2, <2>3 DEF Buffer
<1>3. Wire'
  <2>1. Calm(todo) /\ Calm(todo')
    BY <1>l, <1>n, <1>s DEF Calm
  <2>2. Idle
    BY <2>1, Calms DEF Good
  <2>3. Idle'
    BY <1>u, <2>2 DEF Idle
  <2>4. Has(todo', {"flush"})
    <3>1. Has(<<x>> \o todo, {"flush"}) <=> x.step \in {"flush"} \/ Has(todo, {"flush"})
      BY <1>t, <1>x, HasFront
    <3> QED
      BY <1>u, <1>x, <3>1
  <2> QED
    BY <1>s, <2>1, <2>3, <2>4, CalmAgain
<1>4. Account'
  <2>1. Coming' = Coming
    BY <1>u DEF Coming
  <2> QED
    BY <1>n, <1>s, <1>u, <2>1 DEF Good, Account
<1>5. History'
  <2>1. Plan(todo') = Plans(x) \o Plan(todo) /\ Plan(todo) \in Seq(Act)
    BY <1>t, <1>u, <1>x, PlanFront
  <2>2. Plans(x) = <<>>
    BY <1>x, Kinds
  <2>3. Plan(todo') = Plan(todo)
    BY <2>1, <2>2, Joined
  <2>4. Collected' = Collected
    BY <1>u DEF Collected
  <2>5. History
    BY DEF Good
  <2> QED
    BY <1>u, <2>3, <2>4, <2>5 DEF History
<1>6. Closed'
  BY <1>n, <1>u DEF Closed
<1> QED
  BY <1>1, <1>2, <1>3, <1>4, <1>5, <1>6 DEF Good

\* A step that concerns neither the line nor the calls
LEMMA Silent ==
  ASSUME Types, Types', Good, UNCHANGED <<open, ops, line, replies, opbuf, done, issued, got>>,
         open = TRUE, Calm(todo), Calm(todo'), Start(todo') \notin {"tell", "close"},
         ops > 0 => usage' > 0 \/ Start(todo') = "count" \/ Has(todo', {"flush"}),
         Agenda', Buffer',
         usage' + (IF Start(todo') = "count" THEN todo'[1].size ELSE 0)
           = usage + (IF Start(todo) = "count" THEN todo[1].size ELSE 0),
         Collected' \o Plan(todo') = Collected \o Plan(todo)
  PROVE  Good'
<1>1. Wire'
  <2>1. Idle
    BY Calms DEF Good
  <2>2. Idle'
    BY <2>1 DEF Idle
  <2> QED
    BY <2>2, CalmAgain
<1>2. Account'
  <2>1. Coming' = Coming
    BY DEF Coming
  <2> QED
    BY <2>1 DEF Good, Account
<1>3. History'
  BY DEF Good, History
<1>4. Closed'
  BY DEF Closed
<1> QED
  BY <1>1, <1>2, <1>3, <1>4 DEF Good

\* A command goes out, and the driver waits for nothing
LEMMA SentOut ==
  ASSUME Types, Types', Good, NEW c \in Command, Stream(c), ~IsRead(c), ~IsTold(c),
         UNCHANGED <<open, replies, opbuf, done, issued, got>>,
         open = TRUE, Calm(todo), Calm(todo'), Start(todo') \notin {"tell", "close"},
         usage' > 0 \/ Start(todo') = "count" \/ Has(todo', {"flush"}),
         Agenda', Buffer', Account',
         Does(c) \o (Collected' \o Plan(todo')) = Collected \o Plan(todo)
  PROVE  Good'
<1>s. line' = Append(line, c) /\ ops' = ops + 1
  BY DEF Stream
<1>g. /\ Doings(opbuf' \o line') = Doings(opbuf \o line) \o Does(c)
      /\ Len(line) \in Nat /\ Len(line') = Len(line) + 1 /\ line'[Len(line) + 1] = c
      /\ \A i \in 1 .. Len(line) : line'[i] = line[i]
  BY <1>s, GoesOut
<1>1. Wire'
  <2>1. Idle
    BY Calms DEF Good
  <2>2. Idle'
    <3>1. \A i \in 1 .. Len(line') : ~IsTold(line'[i]) /\ ~IsRead(line'[i])
      <4>1. \A i \in 1 .. Len(line') : i \in 1 .. Len(line) \/ i = Len(line) + 1
        BY <1>g
      <4> QED
        BY <1>g, <2>1, <4>1 DEF Idle
    <3>2. Len(replies') = ops' - Len(line')
      BY <1>g, <1>s, <2>1 DEF Idle, Types
    <3> QED
      BY <2>1, <3>1, <3>2 DEF Idle
  <2> QED
    BY <2>2, CalmAgain
<1>2. History'
  <2>1. /\ Doings(opbuf \o line) \in Seq(Act) /\ Collected' \in Seq(Act) /\ Plan(todo') \in Seq(Act)
        /\ Does(c) \in Seq(Act)
    <3>1. Doings(opbuf \o line) \in Seq(Act)
      BY HistoryTypes
    <3>2. Plan(todo') \in Seq(Act)
      BY PlanParts DEF Types
    <3>3. Collected' \in Seq(Act)
      BY CollectedIs DEF Types, Collected, Addr
    <3> QED
      BY <3>1, <3>2, <3>3, DoesType
  <2> DEFINE p == Doings(opbuf \o line)
             q == Collected' \o Plan(todo')
  <2>2. q \in Seq(Act)
    BY <2>1, Joined
  <2>3. issued = done \o (p \o (Does(c) \o q))
    BY DEF Good, History
  <2> HIDE DEF p, q
  <2>4. p \o (Does(c) \o q) = (p \o Does(c)) \o q
    <3> DEFINE d == Does(c)
    <3>1. p \in Seq(Act) /\ d \in Seq(Act)
      BY <2>1 DEF p
    <3> HIDE DEF d
    <3>2. p \o (d \o q) = (p \o d) \o q
      BY SMTT(30), <2>2, <3>1, Joined
    <3> QED
      BY <3>2 DEF d
  <2>5. issued = done \o ((p \o Does(c)) \o q)
    BY <2>3, <2>4
  <2> QED
    BY <1>g, <2>5 DEF Good, History, p, q
<1>3. Closed'
  BY DEF Closed
<1> QED
  BY <1>1, <1>2, <1>3 DEF Good

\* After a step that has no answer to wait for
LEMMA PlainLater ==
  ASSUME Types, Good, todo # <<>>, Now.step \in {"pass", "check", "full", "count", "store"}
  PROVE  /\ Loose(Later) /\ Calm(todo) /\ Calm(Later)
         /\ Start(todo) = Now.step
         /\ Start(Later) \notin {"count", "tell", "close"}
         /\ ~Quiet(Now) /\ ~SendsExec(Now)
         /\ Ready(Later, TRUE, FALSE, Place)
         /\ buf # <<>> => Ready(Later, Now.step = "pass", FALSE, Place)
         /\ ops > 0 => usage > 0 \/ Now.step = "count" \/ Has(Later, {"flush"})
         /\ Has(Later, {"store"}) => limits.writeN > 0
<1>1. /\ Now \in Steps /\ Later \in Seq(Steps) /\ Start(todo) = Now.step /\ Fits(Now, Later)
      /\ \A kinds : Has(todo, kinds) <=> Now.step \in kinds \/ Has(Later, kinds)
  BY Takes
<1>2. Loose(Later)
  BY <1>1, FitsPlain
<1>3. Calm(todo) /\ Calm(Later) /\ Start(Later) \notin {"count", "tell", "close"}
  BY <1>1, <1>2 DEF Loose, Calm
<1>4. ~Quiet(Now) /\ ~SendsExec(Now)
  BY <1>1, Kinds
<1>5. Ready(Later, TRUE, FALSE, Place)
  BY <1>4, LaterReady
<1>6. ASSUME buf # <<>>
      PROVE  Ready(Later, Now.step = "pass", FALSE, Place)
  <2> DEFINE f == Now.step = "pass"
  <2>1. f \in BOOLEAN /\ (buf = <<>> => f) /\ (Now.step = "pass" => f)
    BY <1>6
  <2> HIDE DEF f
  <2>2. Ready(Later, f, FALSE, Place)
    BY <1>1, <1>4, <2>1, LaterReady
  <2> QED
    BY <2>2 DEF f
<1>7. ops > 0 => usage > 0 \/ Now.step = "count" \/ Has(Later, {"flush"})
  <2>1. ops > 0 => usage > 0 \/ Start(todo) = "count" \/ Has(todo, {"flush"})
    BY DEF Good, Wire
  <2> QED
    BY <1>1, <2>1
<1>8. Has(Later, {"store"}) => limits.writeN > 0
  <2>1. Has(todo, {"store"}) => limits.writeN > 0
    BY DEF Good, Agenda
  <2>2. Has(todo, {"store"}) <=> Now.step \in {"store"} \/ Has(Later, {"store"})
    BY <1>1
  <2> QED
    BY <2>1, <2>2
<1> QED
  BY <1>1, <1>2, <1>3, <1>4, <1>5, <1>6, <1>7, <1>8


LEMMA StepPassKeeps ==
  ASSUME Types, Types', Good, StepPass
  PROVE  Good'
<1>0. todo # <<>> /\ Now.step = "pass" /\ UNCHANGED <<replies, limits, opbuf, done, naks, issued, got, calls>>
      /\ UNCHANGED <<replies, limits, device, history>>
  BY DEF StepPass, At, device, history
<1>n. /\ Now \in Steps /\ Later \in Seq(Steps) /\ open = TRUE /\ Now.depth \in 1 .. 4
      /\ Plan(todo) = Plans(Now) \o Plan(Later) /\ Plan(Later) \in Seq(Act)
      /\ Has(todo, {"full", "pass"}) <=> Now.step \in {"full", "pass"} \/ Has(Later, {"full", "pass"})
  BY <1>0, Takes
<1>l. /\ Loose(Later) /\ Calm(todo) /\ Calm(Later) /\ Start(todo) = "pass"
      /\ Start(Later) \notin {"count", "tell", "close"}
      /\ Ready(Later, TRUE, FALSE, Place)
      /\ ops > 0 => usage > 0 \/ Has(Later, {"flush"})
      /\ Has(Later, {"store"}) => limits.writeN > 0
  BY <1>0, PlainLater
<1>p. Plan(todo) = Plan(Later)
  <2>1. Plans(Now) = <<>>
    BY <1>0, <1>n, Kinds
  <2> QED
    BY <1>n, <2>1, Joined
<1>t. /\ buf \in Seq(Value) /\ start \in Nat /\ usage \in Nat /\ ops \in Nat /\ bytes \in Nat
      /\ limits.writeN \in Nat /\ limits.serbuf \in Nat /\ Len(buf) \in Nat
  BY LimitsType DEF Types, Addr
<1>b. Buffer
  BY DEF Good
<1>x. Place' = Place /\ Longest' = Longest
  BY <1>0 DEF Place, Longest
<1>1. CASE buf = <<>> /\ todo' = Later /\ UNCHANGED <<open, buf, start, writing, usage, ops, bytes, line>>
  <2>1. Agenda'
    BY <1>0, <1>1, <1>l, <1>x, AgendaAgain
  <2>2. Buffer'
    <3>1. Len(buf') = 0 /\ buf' = <<>>
      BY <1>1
    <3> QED
      BY <1>0, <1>1, <1>b, <1>t, <1>x, <3>1 DEF Buffer
  <2>3. Collected' \o Plan(todo') = Collected \o Plan(todo)
    BY <1>1, <1>p DEF Collected
  <2> QED
    BY <1>0, <1>1, <1>l, <1>n, <2>1, <2>2, <2>3, Silent
<1>2. CASE FlushFirst(Now.depth)
  BY <1>0, <1>2, FlushFirstKeeps
<1>3. CASE /\ Len(buf) = 1
           /\ buf' = <<>>
           /\ todo' = <<Send(WriteB(start, buf[1]), Now.depth), Count(5, FALSE, Now.depth)>> \o Later
           /\ UNCHANGED <<open, start, writing, usage, ops, bytes, line>>
  <2> DEFINE c == WriteB(start, buf[1])
             d == Now.depth
  <2>1. c \in Sendable /\ Queues(c) /\ Length(c) = 5 /\ d \in 1 .. 4
    <3>1. buf[1] \in Value
      <4>1. Len(buf) = 1
        BY <1>3
      <4> QED
        BY <1>t, <4>1
    <3>2. c \in Sendable
      BY <1>t, <3>1, SendableCommands
    <3> QED
      BY <1>n, <3>2 DEF WriteB, Queues, Length
  <2> DEFINE x == Send(c, d)
             y == Count(5, FALSE, d)
             u == <<x, y>> \o Later
  <2>3. todo' = u
    BY <1>3
  <2> HIDE DEF c, d
  <2>m. x \in Steps /\ y \in Steps /\ x.step = "send" /\ x.cmd = c /\ y.step = "count" /\ y.size = 5
    <3>1. 5 \in Nat \ {0}
      OBVIOUS
    <3>2. y \in Steps /\ y.step = "count" /\ y.size = 5
      BY <2>1, <3>1, Counts
    <3>3. x \in Steps /\ x.step = "send" /\ x.cmd = c
      BY <2>1, StepMakers, Makers
    <3> QED
      BY <3>2, <3>3
  <2> HIDE DEF x, y
  <2>2. /\ Ready(u, TRUE, FALSE, Place)
        /\ Start(u) = "send"
        /\ Plan(u) = Effect(c) \o Plan(Later)
        /\ \A kinds : Has(u, kinds) <=> "send" \in kinds \/ "count" \in kinds \/ Has(Later, kinds)
    <3>1. Ready(u, TRUE, FALSE, Place)
      BY <1>l, <1>n, <2>1, <2>m, PutOperation
    <3>2. Later \in Seq(Steps) /\ Queues(x.cmd)
      BY <1>n, <2>1, <2>m
    <3>3. /\ Start(u) = "send"
          /\ Plan(u) = Effect(x.cmd) \o Plan(Later)
          /\ \A kinds : Has(u, kinds) <=> "send" \in kinds \/ "count" \in kinds \/ Has(Later, kinds)
      <4>1. x \in Steps /\ y \in Steps /\ x.step = "send" /\ y.step = "count"
        BY <2>m
      <4>2. Start(u) = "send"
        BY <3>2, <4>1, OperationFirst
      <4>3. Plan(u) = Effect(x.cmd) \o Plan(Later)
        BY <3>2, <4>1, OperationFirst
      <4>4. \A kinds : Has(u, kinds) <=> "send" \in kinds \/ "count" \in kinds \/ Has(Later, kinds)
        BY <3>2, <4>1, OperationFirst
      <4> QED
        BY <4>2, <4>3, <4>4
    <3> QED
      BY <2>m, <3>1, <3>3
  <2> HIDE DEF u
  <2>4. Has(todo', {"store"}) <=> Has(Later, {"store"})
    BY <2>2, <2>3
  <2>5. Has(todo', {"flush"}) <=> Has(Later, {"flush"})
    BY <2>2, <2>3
  <2>6. Agenda'
    <3>1. Ready(todo', TRUE, FALSE, Place')
      BY <1>x, <2>2, <2>3
    <3> QED
      BY <1>0, <1>3, <1>l, <2>4, <3>1, AgendaAgain
  <2>7. Buffer'
    <3>1. Len(buf') = 0 /\ buf' = <<>>
      BY <1>3
    <3> QED
      BY <1>0, <1>3, <1>b, <1>t, <1>x, <3>1 DEF Buffer
  <2>8. Collected' \o Plan(todo') = Collected \o Plan(todo)
    <3>1. Collected = Effect(c)
      BY <1>3, <1>t, CollectedOne DEF Collected, c
    <3>2. Collected' = <<>>
      BY <1>3, <1>t, CollectedNothing DEF Collected
    <3>3. Effect(c) \in Seq(Act)
      BY <1>3, <1>t, CollectedOne DEF c
    <3>4. Effect(c) \o Plan(Later) \in Seq(Act)
      BY <1>n, <3>3, Joined
    <3> QED
      BY <1>p, <2>2, <2>3, <3>1, <3>2, <3>4, Joined
  <2>9. Calm(todo') /\ Start(todo') = "send"
    BY <2>2, <2>3 DEF Calm
  <2> QED
    BY <1>0, <1>3, <1>l, <1>n, <2>5, <2>6, <2>7, <2>8, <2>9, Silent
<1>4. CASE /\ Len(buf) > 1 /\ ~Crowded(7 + Len(buf))
           /\ Stream(WriteN(start, buf))
           /\ usage' = usage + 7 + Len(buf) /\ buf' = <<>> /\ writing' = FALSE
           /\ todo' = Later
           /\ UNCHANGED <<open, start>>
  <2> DEFINE c == WriteN(start, buf)
  <2>1. /\ c \in Command /\ Queues(c) /\ ~IsRead(c) /\ ~IsTold(c) /\ Does(c) = Collected
        /\ Length(c) = 7 + Len(buf) /\ c # Exec
    <3>1. c \in Command
      BY <1>t, SendableCommands
    <3>2. c.cmd = "O_WRITEN" /\ c.data = buf
      BY DEF WriteN
    <3> QED
      BY <3>1, <3>2 DEF Queues, IsRead, IsTold, Does, Collected, Length, Exec
  <2> HIDE DEF c
  <2>2. /\ line' = Append(line, c) /\ ops' = ops + 1 /\ bytes' = bytes + (7 + Len(buf))
    BY <1>4, <2>1 DEF Stream, c
  <2>3. bytes < 7 + Len(buf) + limits.serbuf /\ limits.writeN > 0 /\ Len(buf) <= limits.writeN
    BY <1>4, <1>b, <1>t DEF Crowded, Buffer
  <2>4. Agenda'
    BY <1>0, <1>4, <1>l, <1>x, AgendaAgain
  <2>5. Buffer'
    <3>1. Len(buf') = 0 /\ buf' = <<>>
      BY <1>4
    <3>2. bytes' < limits.serbuf + 2 * Longest
      BY SMTT(30), <1>t, <2>2, <2>3 DEF Longest
    <3> QED
      BY <1>0, <1>t, <1>x, <3>1, <3>2, <2>3 DEF Buffer
  <2>6. Account'
    <3>1. Coming' = Coming + Size(c)
      BY <1>0, <2>1, <2>2, GoesOut
    <3>2. Coming = usage
      BY <1>l, <1>t DEF Good, Account
    <3>3. Size(c) = 7 + Len(buf)
      BY <2>1 DEF Size
    <3> QED
      BY <1>4, <1>l, <1>t, <3>1, <3>2, <3>3 DEF Account
  <2>7. Does(c) \o (Collected' \o Plan(todo')) = Collected \o Plan(todo)
    <3>1. Collected' = <<>>
      BY <1>4, <1>t, CollectedNothing DEF Collected
    <3>2. Collected' \o Plan(todo') = Plan(Later)
      BY <1>4, <1>n, <3>1, Joined
    <3> QED
      BY <1>p, <2>1, <3>2
  <2>8. usage' > 0
    BY <1>4, <1>t
  <2>9. Stream(c)
    BY <1>4 DEF c
  <2> QED
    BY <1>0, <1>4, <1>l, <1>n, <2>1, <2>4, <2>5, <2>6, <2>7, <2>8, <2>9, SentOut
<1> QED
  BY <1>1, <1>2, <1>3, <1>4 DEF StepPass

LEMMA StepCountKeeps ==
  ASSUME Types, Types', Good, StepCount
  PROVE  Good'
<1>0. /\ todo # <<>> /\ Now.step = "count" /\ todo' = Later /\ usage' = usage + Now.size
      /\ writing' = (writing /\ ~Now.delay)
      /\ UNCHANGED <<open, buf, start, ops, bytes, line, replies, limits, opbuf, done, naks, issued, got, calls>>
  BY DEF StepCount, At, device, history
<1>n. /\ Now \in Steps /\ Later \in Seq(Steps) /\ open = TRUE /\ todo[1] = Now
      /\ Plan(todo) = Plans(Now) \o Plan(Later) /\ Plan(Later) \in Seq(Act)
      /\ NeedsPass(Now) => buf = <<>>
  BY <1>0, Takes
<1>l. /\ Calm(todo) /\ Calm(Later) /\ Start(todo) = "count"
      /\ Start(Later) \notin {"count", "tell", "close"}
      /\ Ready(Later, TRUE, FALSE, Place)
      /\ Has(Later, {"store"}) => limits.writeN > 0
  BY <1>0, PlainLater
<1>b. buf = <<>> /\ Len(buf) = 0
  BY <1>0, <1>n DEF NeedsPass
<1>t. usage \in Nat /\ Now.size \in Nat \ {0} /\ limits.writeN \in Nat
  BY <1>0, <1>n, LimitsType, StepFields DEF Types
<1>x. Place' = Place /\ Longest' = Longest
  BY <1>0 DEF Place, Longest
<1>1. Agenda'
  BY <1>0, <1>b, <1>l, <1>x, AgendaAgain
<1>2. Buffer'
  BY <1>0, <1>b, <1>t, <1>x DEF Good, Buffer
<1>3. Collected' \o Plan(todo') = Collected \o Plan(todo)
  <2>1. Plans(Now) = <<>>
    BY <1>0, <1>n, Kinds
  <2>2. Plan(todo) = Plan(Later)
    BY <1>n, <2>1, Joined
  <2> QED
    BY <1>0, <2>2 DEF Collected
<1>4. usage' > 0
  BY <1>0, <1>t
<1>5. usage' + (IF Start(todo') = "count" THEN todo'[1].size ELSE 0)
        = usage + (IF Start(todo) = "count" THEN todo[1].size ELSE 0)
  BY <1>0, <1>l, <1>n, <1>t
<1> QED
  BY <1>0, <1>l, <1>n, <1>1, <1>2, <1>3, <1>4, <1>5, Silent


\* A read is followed by its flush, and that by its data
LEMMA ReadFollows ==
  ASSUME NEW t \in Seq(Steps), t # <<>>, Shape(t), SendsRead(t[1])
  PROVE  Has(t, {"flush"})
<1>1. Len(t) \in Nat \ {0}
  OBVIOUS
<1>2. Fits(t[1], After(t, 1))
  BY <1>1 DEF Shape
<1>3. Start(After(t, 1)) = "flush"
  BY <1>2 DEF Fits
<1>4. /\ After(t, 1) \in Seq(Steps) /\ Len(After(t, 1)) = Len(t) - 1
      /\ \A j \in 1 .. Len(t) - 1 : After(t, 1)[j] = t[1 + j]
  BY <1>1, AfterElements
<1>5. After(t, 1) # <<>> /\ After(t, 1)[1].step = "flush"
  BY <1>3 DEF Start
<1>6. Len(t) > 1
  BY <1>1, <1>4, <1>5
<1>7. t[2].step = "flush"
  <2>1. 1 \in 1 .. Len(t) - 1 /\ 1 + 1 = 2
    BY <1>1, <1>6
  <2> QED
    BY <1>4, <1>5, <2>1
<1>8. 2 \in 1 .. Len(t)
  BY <1>1, <1>6
<1> QED
  BY <1>7, <1>8 DEF Has

LEMMA StepSendKeeps ==
  ASSUME Types, Types', Good, StepSend
  PROVE  Good'
<1> DEFINE c == Now.cmd
<1>0. /\ todo # <<>> /\ Now.step = "send" /\ UNCHANGED <<replies, limits, opbuf, done, naks, issued, got, calls>>
      /\ UNCHANGED <<replies, limits, device, history>>
  BY DEF StepSend, At, device, history
<1>1. CASE FlushFirst(Now.depth)
  BY <1>0, <1>1, FlushFirstKeeps
<1>2. CASE /\ ~Crowded(Length(Now.cmd))
           /\ Stream(Now.cmd) /\ todo' = Later
           /\ IF Now.cmd = Exec THEN usage' = 0 /\ writing' = FALSE
              ELSE UNCHANGED <<usage, writing>>
           /\ UNCHANGED <<open, buf, start>>
  <2>n. /\ Now \in Steps /\ Later \in Seq(Steps) /\ open = TRUE /\ Start(todo) = "send"
        /\ Plan(todo) = Plans(Now) \o Plan(Later) /\ Plan(Later) \in Seq(Act) /\ Plans(Now) \in Seq(Act)
        /\ Fits(Now, Later)
        /\ SendsRead(Now) => Now.cmd.addr = Place
        /\ Settled(Now) => usage = 0
        /\ NeedsPass(Now) => buf = <<>>
        /\ Has(todo, {"store"}) <=> Now.step \in {"store"} \/ Has(Later, {"store"})
    BY <1>0, Takes
  <2>k. /\ SendsOp(Now) <=> Queues(c)
        /\ SendsRead(Now) <=> IsRead(c)
        /\ SendsExec(Now) <=> c = Exec
        /\ Queues(c) \/ IsRead(c) \/ c = Exec
        /\ ~(SendsOp(Now) /\ SendsRead(Now)) /\ ~(SendsOp(Now) /\ SendsExec(Now))
        /\ ~(SendsRead(Now) /\ SendsExec(Now))
        /\ Settled(Now) <=> SendsRead(Now)
        /\ c \in Command /\ ~IsTold(c) /\ c.cmd # "O_WRITEN"
        /\ Does(c) = Plans(Now)
        /\ ~SendsOp(Now) => Plans(Now) = <<>>
    BY <1>0, <2>n, SendKinds
  <2>t. /\ usage \in Nat /\ ops \in Nat /\ bytes \in Nat /\ Len(line) \in Nat /\ Len(replies) \in Nat
        /\ limits.writeN \in Nat /\ limits.serbuf \in Nat
        /\ Length(c) \in Nat \ {0} /\ Length(c) <= 7
    <3> HIDE DEF c
    <3>1. Length(c) \in Nat \ {0} /\ Length(c) <= 7
      BY <2>k, LengthType
    <3>2. usage \in Nat /\ ops \in Nat /\ bytes \in Nat
      BY DEF Types
    <3>4. Len(line) \in Nat /\ Len(replies) \in Nat
      BY Lengths
    <3>3. limits.writeN \in Nat /\ limits.serbuf \in Nat
      BY LimitsType DEF Types
    <3> QED
      BY <3>1, <3>2, <3>3, <3>4
  <2>s. /\ Stream(c) /\ line' = Append(line, c) /\ ops' = ops + 1 /\ bytes' = bytes + Length(c)
        /\ bytes < Length(c) + limits.serbuf
        /\ todo' = Later /\ UNCHANGED <<open, buf, start>>
        /\ c = Exec => usage' = 0
        /\ c # Exec => usage' = usage /\ writing' = writing
    BY <1>2, <2>t DEF Stream, Crowded
  <2>b. buf = <<>> /\ Len(buf) = 0
    BY <1>0, <2>n DEF NeedsPass
  <2>x. Place' = Place /\ Longest' = Longest
    BY <1>0 DEF Place, Longest
  <2>v. Has(Later, {"store"}) => limits'.writeN > 0
    <3>1. Has(todo, {"store"}) => limits.writeN > 0
      BY DEF Good, Agenda
    <3> QED
      BY <1>0, <2>n, <3>1
  <2>q. ~Quiet(Now) \/ SendsRead(Now)
    BY <1>0, <2>k DEF Quiet
  <2>c. Calm(todo)
    BY <2>n DEF Calm
  <2> HIDE DEF c
  <2>f. Buffer'
    <3>1. bytes' < limits.serbuf + 2 * Longest
      BY SMTT(30), <2>s, <2>t DEF Longest
    <3>2. Len(buf') = 0 /\ buf' = <<>>
      BY <2>b, <2>s
    <3> QED
      BY <1>0, <2>t, <2>x, <3>1, <3>2 DEF Buffer
  <2>g. /\ c # Exec => Coming' = Coming + Size(c)
        /\ c = Exec => Coming' = 0
        /\ Doings(opbuf' \o line') = Doings(opbuf \o line) \o Does(c)
        /\ Len(line') = Len(line) + 1 /\ line'[Len(line) + 1] = c
        /\ \A i \in 1 .. Len(line) : line'[i] = line[i]
    BY <1>0, <2>k, <2>s, GoesOut
  <2>u. Coming = usage
    BY <2>n, <2>t DEF Good, Account
  <2>h. Does(c) \o (Collected' \o Plan(todo')) = Collected \o Plan(todo)
    <3>1. Collected = <<>>
      BY <2>b, HistoryTypes
    <3>2. Collected' = <<>>
      BY <2>s, <3>1 DEF Collected
    <3>3. Plans(Now) \o Plan(Later) \in Seq(Act)
      BY <2>n, Joined
    <3>4. <<>> \o Plan(Later) = Plan(Later) /\ <<>> \o (Plans(Now) \o Plan(Later)) = Plans(Now) \o Plan(Later)
      BY <2>n, <3>3, Joined
    <3> QED
      BY <2>k, <2>n, <2>s, <3>1, <3>2, <3>4
  <2>1. CASE SendsOp(Now)
    <3>0. c # Exec /\ ~IsRead(c) /\ Queues(c) /\ ~Quiet(Now) /\ ~SendsExec(Now)
      BY <2>1, <2>k, <2>q
    <3>1. Start(Later) = "count" /\ Later[1].size = Length(c) /\ Second(Later) # "take"
      BY <2>1, <2>k, <2>n DEF Fits, c
    <3>2. Ready(Later, TRUE, FALSE, Place)
      BY <1>0, <3>0, LaterReady
    <3>3. Agenda'
      BY <2>b, <2>s, <2>v, <2>x, <3>2, AgendaAgain
    <3>4. Account'
      BY <2>g, <2>s, <2>t, <2>u, <3>0, <3>1 DEF Account, Size
    <3>5. Calm(todo') /\ Start(todo') = "count"
      BY <2>s, <3>1 DEF Calm
    <3> QED
      BY <1>0, <2>c, <2>f, <2>h, <2>k, <2>n, <2>s, <3>0, <3>3, <3>4, <3>5, SentOut
  <2>2. CASE SendsExec(Now)
    <3>0. c = Exec /\ ~IsRead(c)
      BY <2>2, <2>k
    <3>1. /\ Start(Later) = "flush" \/ (Later # <<>> /\ SendsRead(Later[1]))
          /\ Start(Later) # "count" /\ Second(Later) # "take"
      BY <2>2, <2>k, <2>n DEF Fits
    <3>2. Ready(Later, TRUE, TRUE, Place)
      BY <1>0, LaterReady
    <3>3. Agenda'
      BY <2>b, <2>s, <2>v, <2>x, <3>0, <3>2, AgendaAgain
    <3>4. Account'
      BY <2>g, <2>s, <3>0, <3>1 DEF Account
    <3>5. Start(Later) \in {"flush", "send"}
      BY <3>1 DEF Start, SendsRead
    <3>6. Calm(todo') /\ Start(todo') \notin {"tell", "close"}
      BY <2>s, <3>1, <3>5 DEF Calm
    <3>7. Has(Later, {"flush"})
      <4>1. CASE Start(Later) = "flush"
        <5>1. Later # <<>> /\ Later[1].step = "flush"
          BY <4>1 DEF Start
        <5>2. 1 \in 1 .. Len(Later)
          BY <2>n, <5>1
        <5> QED
          BY <5>1, <5>2 DEF Has
      <4>2. CASE Later # <<>> /\ SendsRead(Later[1])
        <5>1. Shape(Later)
          BY <3>2 DEF Ready
        <5> QED
          BY <2>n, <4>2, <5>1, ReadFollows
      <4> QED
        BY <3>1, <4>1, <4>2
    <3>8. Has(todo', {"flush"})
      BY <2>s, <3>7
    <3> QED
      BY <1>0, <2>c, <2>f, <2>h, <2>k, <2>n, <2>s, <3>0, <3>3, <3>4, <3>6, <3>8, SentOut
  <2>3. CASE SendsRead(Now)
    <3>0. c # Exec /\ IsRead(c) /\ ~Queues(c) /\ usage = 0 /\ c.addr = Place
      BY <2>3, <2>k, <2>n DEF c
    <3>1. Start(Later) = "flush" /\ Second(Later) = "take" /\ Later[2].len = c.len
      BY <2>3, <2>n DEF Fits, c
    <3>2. Ready(Later, TRUE, TRUE, Place)
      BY <1>0, LaterReady
    <3>3. Agenda'
      BY <2>b, <2>s, <2>v, <2>x, <3>0, <3>2, AgendaAgain
    <3>4. Account'
      BY <2>g, <2>s, <2>t, <2>u, <3>0, <3>1 DEF Account, Size
    <3>5. History'
      <4>1. Doings(opbuf \o line) \in Seq(Act)
        BY HistoryTypes
      <4>2. Does(c) = <<>>
        BY <2>3, <2>k
      <4>3. Doings(opbuf' \o line') = Doings(opbuf \o line)
        BY <2>g, <4>1, <4>2, Joined
      <4>4. Collected' \o Plan(todo') = Collected \o Plan(todo)
        <5>1. Collected = <<>> /\ Collected' = <<>>
          BY <2>b, <2>s, HistoryTypes DEF Collected
        <5>2. Plan(todo) = Plan(todo')
          BY <2>k, <2>n, <2>s, <4>2, Joined
        <5> QED
          BY <5>1, <5>2
      <4> QED
        BY <1>0, <4>3, <4>4 DEF Good, History
    <3>6. Idle
      BY <2>c, Calms DEF Good
    <3>7. Flushing' /\ ~Taking' /\ Start(todo') # "answer" /\ ReadSent'
      <4>1. Flushing' /\ ~Taking' /\ Start(todo') # "answer"
        BY <2>s, <3>1 DEF Flushing, Taking
      <4>2. line' # <<>> /\ line'[Len(line')] = c
        BY <2>g, <2>t
      <4> QED
        BY <3>0, <4>1, <4>2 DEF ReadSent
    <3>8. Owed' = Len(replies') /\ Owed' \in 0 .. Len(replies') /\ Len(replies') \in Nat
      BY <1>0, <2>g, <2>s, <2>t, <3>6, <3>7 DEF Owed, Idle
    <3>9. Wire'
      <4>1. \A i \in 1 .. Owed' : replies'[i] = "ACK"
        BY <1>0, <3>6, <3>8 DEF Idle
      <4>2. \A i \in Owed' + 1 .. Len(replies') :
              replies'[i] = Latest(issued', Place' + (i - Owed') - 1)
        <5>1. \A n \in Nat : n + 1 .. n = {}
          OBVIOUS
        <5>2. Owed' + 1 .. Len(replies') = {}
          BY <3>8, <5>1
        <5> QED
          BY <5>2
      <4>3. Start(todo') = "flush"
        BY <2>s, <3>1
      <4>4. ASSUME NEW i \in 1 .. Len(line')
            PROVE  /\ ~IsTold(line'[i])
                   /\ IsRead(line'[i]) => i = Len(line') /\ line'[i].addr = Place' /\ line'[i].len = todo'[2].len
        <5>1. CASE i \in 1 .. Len(line)
          BY <2>g, <3>6, <5>1 DEF Idle
        <5>2. CASE i = Len(line) + 1
          BY <2>g, <2>k, <2>s, <2>x, <3>0, <3>1, <5>2
        <5> QED
          BY <2>g, <2>t, <5>1, <5>2
      <4>5. ops' > 0 => Has(todo', {"flush"})
        <5>1. Later # <<>> /\ Later[1].step = "flush"
          BY <3>1 DEF Start
        <5>2. 1 \in 1 .. Len(Later)
          BY <2>n, <5>1
        <5> QED
          BY <2>s, <5>1, <5>2 DEF Has
      <4> HIDE DEF Taking, Flushing, ReadSent, Owed
      <4> QED
        BY <3>7, <3>8, <4>1, <4>2, <4>3, <4>4, <4>5 DEF Wire
    <3>10. Closed'
      BY <2>n, <2>s DEF Closed
    <3> QED
      BY <2>f, <3>3, <3>4, <3>5, <3>9, <3>10 DEF Good
  <2> QED
    BY <2>1, <2>2, <2>3, <2>k
<1> QED
  BY <1>1, <1>2 DEF StepSend


\* "executed operation buffer due to size reasons"
LEMMA StepCheckKeeps ==
  ASSUME Types, Types', Good, StepCheck
  PROVE  Good'
<1>0. /\ todo # <<>> /\ Now.step = "check"
      /\ UNCHANGED <<open, buf, start, writing, usage, ops, bytes, line, replies, limits, opbuf, done, naks,
                     issued, got, calls>>
  BY DEF StepCheck, At, device, history
<1>n. /\ Now \in Steps /\ Later \in Seq(Steps) /\ open = TRUE
      /\ Plan(todo) = Plans(Now) \o Plan(Later) /\ Plan(Later) \in Seq(Act)
      /\ Has(todo, {"full", "pass"}) <=> Now.step \in {"full", "pass"} \/ Has(Later, {"full", "pass"})
  BY <1>0, Takes
<1>l. /\ Loose(Later) /\ Calm(todo) /\ Calm(Later) /\ Start(todo) = "check"
      /\ Start(Later) \notin {"count", "tell", "close"}
      /\ ~Quiet(Now) /\ ~SendsExec(Now)
      /\ Ready(Later, TRUE, FALSE, Place)
      /\ ops > 0 => usage > 0 \/ Has(Later, {"flush"})
      /\ Has(Later, {"store"}) => limits.writeN > 0
  BY <1>0, PlainLater
<1>p. Plan(todo) = Plan(Later)
  <2>1. Plans(Now) = <<>>
    BY <1>0, <1>n, Kinds
  <2> QED
    BY <1>n, <2>1, Joined
<1>x. Place' = Place /\ Longest' = Longest /\ Collected' = Collected
  BY <1>0 DEF Place, Longest, Collected
<1>b. Buffer
  BY DEF Good
<1>1. CASE todo' = Later
  <2>1. Agenda'
    <3> DEFINE e == buf = <<>>
    <3>1. e \in BOOLEAN /\ (buf = <<>> => e)
      OBVIOUS
    <3> HIDE DEF e
    <3>2. Ready(Later, e, FALSE, Place)
      BY <1>0, <1>l, <3>1, LaterReady
    <3>3. e => buf' = <<>>
      BY <1>0 DEF e
    <3> QED
      BY <1>0, <1>1, <1>l, <1>x, <3>1, <3>2, <3>3, AgendaAgain
  <2>2. Buffer'
    BY <1>0, <1>1, <1>b, <1>n, <1>x DEF Buffer
  <2> QED
    BY <1>0, <1>1, <1>l, <1>n, <1>p, <1>x, <2>1, <2>2, Silent
<1>2. CASE todo' = (ExecuteNoFlush(2) \o <<Flush(2)>>) \o Later
  <2> DEFINE x == Flush(2)
             t == <<x>> \o Later
             u == ExecuteNoFlush(2) \o t
  <2>0. 2 \in 1 .. 4
    OBVIOUS
  <2>1. x \in Steps /\ x.step = "flush" /\ ExecuteNoFlush(2) \in Seq(Steps)
    BY <1>n, <2>0, StepMakers, Makers, Agendas
  <2>2. Ready(t, TRUE, FALSE, Place)
    <3>1. TRUE \in BOOLEAN /\ FALSE \in BOOLEAN
      OBVIOUS
    <3> QED
      BY <1>l, <1>n, <2>0, <3>1, PutFlush DEF Loose
  <2> HIDE DEF x
  <2>f. t \in Seq(Steps) /\ t = <<x>> \o Later
    BY <1>n, <2>1, ConsIs
  <2>3. t \in Seq(Steps) /\ Start(t) = "flush" /\ Second(t) = Start(Later)
    <3> HIDE DEF t
    <3> QED
      BY <1>n, <2>1, <2>f, StartFront
  <2>4. Plan(t) = Plan(Later)
    <3>1. Plan(t) = Plans(x) \o Plan(Later)
      BY <1>n, <2>1, PlanFront
    <3>2. Plans(x) = <<>>
      BY <2>1, Kinds
    <3> QED
      BY <1>n, <3>1, <3>2, Joined
  <2>5. \A kinds : Has(t, kinds) <=> x.step \in kinds \/ Has(Later, kinds)
    BY <1>n, <2>1, HasFront
  <2>6. todo' = u
    <3> DEFINE p == ExecuteNoFlush(2)
               q == <<x>>
    <3>1. p \in Seq(Steps) /\ q \in Seq(Steps)
      BY <2>1
    <3>2. todo' = (p \o q) \o Later
      BY <1>2 DEF x
    <3> HIDE DEF p, q
    <3>3. (p \o q) \o Later = p \o (q \o Later)
      BY SMTT(30), <1>n, <3>1, ConcatAssociative
    <3> QED
      BY <3>2, <3>3 DEF p, q
  <2> HIDE DEF t
  <2>7. Second(t) # "take"
    BY <1>l, <2>3 DEF Loose
  <2>8. TRUE \in BOOLEAN /\ FALSE \in BOOLEAN
    OBVIOUS
  <2>9. /\ Ready(u, FALSE, FALSE, Place)
        /\ Start(u) = "pass" /\ Second(u) = "send"
        /\ Plan(u) = Plan(t)
    BY <2>0, <2>2, <2>3, <2>7, <2>8, PutExecute
  <2>10. \A kinds : Has(u, kinds) <=> "pass" \in kinds \/ "send" \in kinds \/ Has(t, kinds)
    BY <2>0, <2>2, <2>3, <2>7, <2>8, PutExecute
  <2> HIDE DEF u
  <2>11. Has(todo', {"store"}) <=> Has(Later, {"store"})
    BY <2>1, <2>5, <2>6, <2>10
  <2>12. Has(todo', {"flush"}) /\ Has(todo', {"full", "pass"})
    BY <2>1, <2>5, <2>6, <2>10
  <2>13. Agenda'
    BY <1>0, <1>l, <1>x, <2>6, <2>8, <2>9, <2>11, AgendaAgain
  <2>14. Buffer'
    BY <1>0, <1>b, <1>x, <2>12 DEF Buffer
  <2>15. Calm(todo') /\ Start(todo') = "pass"
    BY <2>6, <2>9 DEF Calm
  <2>16. Collected' \o Plan(todo') = Collected \o Plan(todo)
    BY <1>p, <1>x, <2>4, <2>6, <2>9
  <2> QED
    BY <1>0, <1>l, <1>n, <2>12, <2>13, <2>14, <2>15, <2>16, Silent
<1>3. todo' = Later \/ todo' = (ExecuteNoFlush(2) \o <<Flush(2)>>) \o Later
  <2>1. CASE Overflows(Now.size)
    BY <2>1 DEF StepCheck
  <2>2. CASE ~Overflows(Now.size)
    <3>1. todo' = <<>> \o Later
      BY <2>2 DEF StepCheck
    <3> QED
      BY <1>n, <3>1
  <2> QED
    BY <2>1, <2>2
<1> QED
  BY <1>1, <1>2, <1>3

LEMMA StepStoreKeeps ==
  ASSUME Types, Types', Good, StepStore
  PROVE  Good'
<1>0. /\ todo # <<>> /\ Now.step = "store" /\ todo' = Later
      /\ writing' = TRUE /\ start' = Now.addr /\ buf' = <<Now.val>>
      /\ UNCHANGED <<open, usage, ops, bytes, line, replies, limits, opbuf, done, naks, issued, got, calls>>
  BY DEF StepStore, At, device, history
<1>n. /\ Now \in Steps /\ Later \in Seq(Steps) /\ open = TRUE /\ Fits(Now, Later)
      /\ Plan(todo) = Plans(Now) \o Plan(Later) /\ Plan(Later) \in Seq(Act) /\ Plans(Now) \in Seq(Act)
      /\ NeedsPass(Now) => buf = <<>>
      /\ Has(todo, {"store"}) <=> Now.step \in {"store"} \/ Has(Later, {"store"})
  BY <1>0, Takes
<1>l. /\ Calm(todo) /\ Calm(Later) /\ Start(todo) = "store"
      /\ Start(Later) \notin {"count", "tell", "close"}
      /\ Ready(Later, TRUE, FALSE, Place)
      /\ ops > 0 => usage > 0 \/ Has(Later, {"flush"})
  BY <1>0, PlainLater
<1>b. buf = <<>> /\ limits.writeN > 0
  BY <1>0, <1>n DEF NeedsPass, Good, Agenda
<1>t. Now.addr \in Nat /\ Now.val \in Value /\ limits.writeN \in Nat
  BY <1>0, <1>n, LimitsType, StepFields DEF Types
<1>x. Place' = Place /\ Longest' = Longest
  BY <1>0 DEF Place, Longest
<1>f. Passes(Later, FALSE) /\ Has(Later, {"full", "pass"})
  <2>1. Passes(Later, FALSE) /\ \E i \in 1 .. Len(Later) : Later[i].step = "full"
    BY <1>0, <1>n DEF Fits
  <2> QED
    BY <2>1 DEF Has
<1>1. Agenda'
  <2>1. FALSE \in BOOLEAN /\ Ready(Later, FALSE, FALSE, Place)
    BY <1>f, <1>l DEF Ready
  <2>2. limits'.writeN > 0
    BY <1>0, <1>b
  <2> QED
    BY <1>0, <1>x, <2>1, <2>2, AgendaAgain
<1>2. Buffer'
  <2>1. Len(buf') = 1 /\ writing' /\ limits' = limits /\ bytes' = bytes
    BY <1>0, <1>t
  <2>2. Has(todo', {"full", "pass"})
    BY <1>0, <1>f
  <2> QED
    BY <1>b, <1>t, <1>x, <2>1, <2>2 DEF Good, Buffer
<1>3. Collected' \o Plan(todo') = Collected \o Plan(todo)
  <2> DEFINE s == <<Now.val>>
  <2>1. s \in Seq(Value) /\ Len(s) = 1 /\ s[1] = Now.val
    BY <1>t
  <2>2. Collected' = Effect(WriteN(Now.addr, s))
    BY <1>0 DEF Collected
  <2> HIDE DEF s
  <2>3. Collected' = <<Wrote(Now.addr, Now.val)>>
    BY <1>t, <2>1, <2>2, CollectedOne
  <2>4. Plans(Now) = <<Wrote(Now.addr, Now.val)>>
    BY <1>0, <1>n, Kinds
  <2>5. Collected = <<>>
    BY <1>b, HistoryTypes
  <2>6. Plans(Now) \o Plan(Later) \in Seq(Act)
    BY <1>n, Joined
  <2>7. <<>> \o (Plans(Now) \o Plan(Later)) = Plans(Now) \o Plan(Later)
    BY <2>6, Joined
  <2> QED
    BY <1>0, <1>n, <2>3, <2>4, <2>5, <2>7
<1>4. ops > 0 => usage' > 0 \/ Has(todo', {"flush"})
  BY <1>0, <1>l
<1>5. usage' + (IF Start(todo') = "count" THEN todo'[1].size ELSE 0)
        = usage + (IF Start(todo) = "count" THEN todo[1].size ELSE 0)
  BY <1>0, <1>l
<1> QED
  BY <1>0, <1>l, <1>n, <1>1, <1>2, <1>3, <1>4, <1>5, Silent

LEMMA StepFullKeeps ==
  ASSUME Types, Types', Good, StepFull
  PROVE  Good'
<1>0. /\ todo # <<>> /\ Now.step = "full"
      /\ UNCHANGED <<open, buf, start, writing, usage, ops, bytes, line, replies, limits, opbuf, done, naks,
                     issued, got, calls>>
  BY DEF StepFull, At, device, history
<1>n. /\ Now \in Steps /\ Later \in Seq(Steps) /\ open = TRUE
      /\ Plan(todo) = Plans(Now) \o Plan(Later) /\ Plan(Later) \in Seq(Act)
  BY <1>0, Takes
<1>l. /\ Loose(Later) /\ Calm(todo) /\ Calm(Later) /\ Start(todo) = "full"
      /\ Start(Later) \notin {"count", "tell", "close"}
      /\ ~Quiet(Now) /\ ~SendsExec(Now)
      /\ Ready(Later, TRUE, FALSE, Place)
      /\ ops > 0 => usage > 0 \/ Has(Later, {"flush"})
      /\ Has(Later, {"store"}) => limits.writeN > 0
  BY <1>0, PlainLater
<1>p. Plan(todo) = Plan(Later)
  <2>1. Plans(Now) = <<>>
    BY <1>0, <1>n, Kinds
  <2> QED
    BY <1>n, <2>1, Joined
<1>x. Place' = Place /\ Longest' = Longest /\ Collected' = Collected
  BY <1>0 DEF Place, Longest, Collected
<1>b. Buffer /\ Len(buf) \in Nat /\ limits.writeN \in Nat
  BY LimitsType DEF Good, Types
<1>1. CASE ~IsFull
  <2>0. todo' = Later
    <3>1. todo' = <<>> \o Later
      BY <1>1 DEF StepFull
    <3> QED
      BY <1>n, <3>1
  <2>1. Agenda'
    <3> DEFINE e == buf = <<>>
    <3>1. e \in BOOLEAN /\ (buf = <<>> => e)
      OBVIOUS
    <3> HIDE DEF e
    <3>2. Ready(Later, e, FALSE, Place)
      BY <1>0, <1>l, <3>1, LaterReady
    <3>3. e => buf' = <<>>
      BY <1>0 DEF e
    <3> QED
      BY <1>0, <1>l, <1>x, <2>0, <3>1, <3>2, <3>3, AgendaAgain
  <2>2. Buffer'
    BY <1>0, <1>1, <1>b, <1>x DEF Buffer, IsFull
  <2> QED
    BY <1>0, <1>l, <1>n, <1>p, <1>x, <2>0, <2>1, <2>2, Silent
<1>2. CASE IsFull
  <2> DEFINE x == Pass(2)
  <2>0. x \in Steps /\ x.step = "pass" /\ todo' = <<x>> \o Later
    <3>1. 2 \in 1 .. 4
      OBVIOUS
    <3> QED
      BY <1>2, <3>1, StepMakers, Makers DEF StepFull
  <2> HIDE DEF x
  <2>1. TRUE \in BOOLEAN /\ FALSE \in BOOLEAN
    OBVIOUS
  <2>2. Ready(<<x>> \o Later, FALSE, FALSE, Place)
    BY <1>l, <1>n, <2>0, <2>1, PutPlain
  <2>3. \A kinds : Has(<<x>> \o Later, kinds) <=> x.step \in kinds \/ Has(Later, kinds)
    BY <1>n, <2>0, HasFront
  <2>4. Agenda'
    BY <1>0, <1>l, <1>x, <2>0, <2>1, <2>2, <2>3, AgendaAgain
  <2>5. Buffer'
    <3>1. Has(todo', {"full", "pass"})
      BY <2>0, <2>3
    <3> QED
      BY <1>0, <1>b, <1>x, <3>1 DEF Buffer
  <2>6. Start(todo') = "pass" /\ Calm(todo')
    <3>1. Start(todo') = "pass"
      BY <1>n, <2>0, StartFront
    <3> QED
      BY <3>1 DEF Calm
  <2>7. Plan(todo') = Plan(todo)
    <3>1. Plan(todo') = Plans(x) \o Plan(Later)
      BY <1>n, <2>0, PlanFront
    <3>2. Plans(x) = <<>>
      BY <2>0, Kinds
    <3> QED
      BY <1>n, <1>p, <3>1, <3>2, Joined
  <2>8. ops > 0 => usage' > 0 \/ Has(todo', {"flush"})
    BY <1>0, <1>l, <2>0, <2>3
  <2> QED
    BY <1>0, <1>l, <1>n, <1>x, <2>4, <2>5, <2>6, <2>7, <2>8, Silent
<1> QED
  BY <1>1, <1>2


LEMMA StepTellKeeps ==
  ASSUME Types, Types', Good, StepTell
  PROVE  Good'
<1> DEFINE c == Now.cmd
<1>0. /\ todo # <<>> /\ Now.step = "tell" /\ todo' = Later /\ line' = Append(line, c)
      /\ UNCHANGED <<open, buf, start, writing, usage, ops, bytes, replies, limits, opbuf, done, naks,
                     issued, got, calls>>
  BY DEF StepTell, At, device, history
<1>n. /\ Now \in Steps /\ Later \in Seq(Steps) /\ open = TRUE /\ Fits(Now, Later) /\ Start(todo) = "tell"
      /\ Plan(todo) = Plans(Now) \o Plan(Later) /\ Plan(Later) \in Seq(Act) /\ Plans(Now) \in Seq(Act)
      /\ NeedsPass(Now) => buf = <<>>
      /\ Settled(Now) => usage = 0
      /\ Has(todo, {"store"}) <=> Now.step \in {"store"} \/ Has(Later, {"store"})
  BY <1>0, Takes
<1>k. Settled(Now) /\ Quiet(Now)
  BY <1>0 DEF Settled, Quiet
<1>c. c \in Command /\ c \in {SpiOp, PinState} /\ Does(c) = Plans(Now)
  BY <1>0, <1>n, StepFields DEF Plans
<1> HIDE DEF c
<1>d. IsTold(c) /\ ~IsRead(c) /\ ~Queues(c) /\ c # Exec
  BY <1>c DEF SpiOp, PinState, IsTold, IsRead, Queues, Exec
<1>b. buf = <<>> /\ Len(buf) = 0 /\ usage = 0
  BY <1>0, <1>k, <1>n DEF NeedsPass
<1>x. Place' = Place /\ Longest' = Longest
  BY <1>0 DEF Place, Longest
<1>s. Start(Later) = "answer"
  BY <1>0, <1>n DEF Fits
<1>i. ops = 0 /\ Len(line) = 0 /\ Len(replies) = 0 /\ line = <<>>
  <2>1. ops = 0
    BY <1>n DEF Good, Wire
  <2>2. Calm(todo)
    BY <1>n DEF Calm
  <2>3. Idle /\ Len(line) \in Nat /\ Len(replies) \in Nat
    BY <2>2, Calms DEF Good
  <2>4. Len(replies) = 0 - Len(line)
    BY <2>1, <2>3 DEF Idle
  <2>5. Len(line) = 0 /\ Len(replies) = 0
    BY <2>3, <2>4
  <2> QED
    BY <2>1, <2>5 DEF Types
<1>g. /\ Coming' = Coming + Size(c)
      /\ Doings(opbuf' \o line') = Doings(opbuf \o line) \o Does(c)
      /\ Len(line') = 1 /\ line'[1] = c
  <2>1. /\ Coming' = Coming + Size(c)
        /\ Doings(opbuf' \o line') = Doings(opbuf \o line) \o Does(c)
        /\ Len(line') = Len(line) + 1 /\ line'[Len(line) + 1] = c
    BY <1>0, <1>c, <1>d, GoesOut
  <2> QED
    BY <1>i, <2>1
<1>1. Agenda'
  <2>1. TRUE \in BOOLEAN
    OBVIOUS
  <2>2. Ready(Later, TRUE, TRUE, Place)
    BY <1>0, <2>1, LaterReady
  <2>3. Has(Later, {"store"}) => limits'.writeN > 0
    BY <1>0, <1>n DEF Good, Agenda
  <2> QED
    BY <1>0, <1>b, <1>x, <2>1, <2>2, <2>3, AgendaAgain
<1>2. Buffer'
  BY <1>0, <1>b, <1>x, LimitsType DEF Good, Buffer, Types
<1>3. Wire'
  <2>1. Start(todo') = "answer" /\ ~Taking' /\ ~Flushing'
    BY <1>0, <1>s DEF Taking, Flushing
  <2>2. Owed' = 0 /\ Len(replies') = 0 /\ ops' = 0
    BY <1>0, <1>g, <1>i, <2>1 DEF Owed
  <2>3. \A i \in 1 .. Len(line') : IsTold(line'[i]) /\ ~IsRead(line'[i])
    BY <1>d, <1>g
  <2> HIDE DEF Owed, Taking, Flushing
  <2> QED
    BY <2>1, <2>2, <2>3 DEF Wire
<1>4. Account'
  <2>1. Coming = usage
    BY <1>n, <1>b DEF Good, Account
  <2>2. Size(c) = 0
    BY <1>d DEF Size
  <2>3. Coming' = 0
    BY <1>b, <1>g, <2>1, <2>2
  <2> QED
    BY <1>0, <1>b, <1>s, <2>3 DEF Account
<1>5. History'
  <2>1. Collected = <<>> /\ Collected' = <<>>
    BY <1>0, <1>b, HistoryTypes DEF Collected
  <2>2. Doings(opbuf \o line) \in Seq(Act)
    BY HistoryTypes
  <2> DEFINE p == Doings(opbuf \o line)
             d == Does(c)
             q == Plan(Later)
  <2>3. p \in Seq(Act) /\ d \in Seq(Act) /\ q \in Seq(Act) /\ Plan(todo) = d \o q
    BY <1>c, <1>n, <2>2
  <2>4. issued = done \o (p \o (<<>> \o (d \o q)))
    BY <2>1, <2>3 DEF Good, History
  <2> HIDE DEF p, d, q
  <2>5. <<>> \o (d \o q) = d \o q /\ <<>> \o q = q
    BY <2>3, Joined
  <2>6. p \o (d \o q) = (p \o d) \o q
    BY <2>3, Joined
  <2>7. issued' = done' \o ((p \o d) \o (<<>> \o q))
    BY <1>0, <2>4, <2>5, <2>6
  <2>8. issued' = done' \o (Doings(opbuf' \o line') \o (Collected' \o Plan(todo')))
    BY <1>0, <1>g, <2>1, <2>7 DEF p, d, q
  <2>9. \A i \in 1 .. Len(got'.data) : got'.data[i] = Latest(issued', got'.addr + i - 1)
    BY <1>0 DEF Good, History
  <2> QED
    BY <2>8, <2>9 DEF History
<1>6. Closed'
  BY <1>0, <1>n DEF Closed
<1> QED
  BY <1>1, <1>2, <1>3, <1>4, <1>5, <1>6 DEF Good

LEMMA StepAnswerKeeps ==
  ASSUME Types, Types', Good, StepAnswer
  PROVE  Good'
<1>0. /\ todo # <<>> /\ Now.step = "answer" /\ replies # <<>> /\ replies' = Tail(replies)
      /\ Head(replies) = "ACK" => todo' = Later
      /\ UNCHANGED <<open, buf, start, writing, usage, ops, bytes, line, limits, opbuf, done, naks,
                     issued, got, calls>>
  BY DEF StepAnswer, At, device, history
<1>n. /\ Now \in Steps /\ Later \in Seq(Steps) /\ open = TRUE /\ Fits(Now, Later) /\ Start(todo) = "answer"
      /\ Plan(todo) = Plans(Now) \o Plan(Later) /\ Plan(Later) \in Seq(Act)
      /\ Settled(Now) => usage = 0
      /\ Has(todo, {"store"}) <=> Now.step \in {"store"} \/ Has(Later, {"store"})
      /\ Has(todo, {"full", "pass"}) <=> Now.step \in {"full", "pass"} \/ Has(Later, {"full", "pass"})
  BY <1>0, Takes
<1>k. Settled(Now) /\ Quiet(Now) /\ ~SendsRead(Now) /\ ~SendsOp(Now) /\ ~SendsExec(Now) /\ Plans(Now) = <<>>
  BY <1>0 DEF Settled, Quiet, SendsRead, SendsOp, SendsExec, Plans
<1>i. /\ ops = 0 /\ Len(line) = 0 /\ Len(replies) = 1 /\ replies[1] = "ACK"
      /\ \A i \in 1 .. Len(line) : ~IsTold(line[i]) /\ ~IsRead(line[i])
  <2>1. ops = 0 /\ ~Taking /\ ~Flushing
    BY <1>n DEF Good, Wire, Taking, Flushing
  <2>2. Len(line) \in Nat /\ Len(replies) \in Nat
    BY Lengths
  <2>3. Owed = 1 - Len(line)
    BY <1>n, <2>1, <2>2 DEF Owed
  <2>4. Len(replies) = Owed
    BY <2>1 DEF Good, Wire
  <2>5. Len(replies) > 0
    BY <1>0, <2>2 DEF Types
  <2>6. Owed = 1 /\ Len(line) = 0 /\ Len(replies) = 1
    BY <2>2, <2>3, <2>4, <2>5
  <2>7. \A i \in 1 .. Owed : replies[i] = "ACK"
    BY DEF Good, Wire
  <2> QED
    BY <2>1, <2>6, <2>7
<1>h. todo' = Later /\ Len(replies') = 0
  <2>1. Head(replies) = replies[1] /\ Len(Tail(replies)) = 0
    BY <1>0, <1>i DEF Types
  <2> QED
    BY <1>0, <1>i, <2>1
<1>x. Place' = Place /\ Longest' = Longest /\ Collected' = Collected
  BY <1>0 DEF Place, Longest, Collected
<1>s. Start(Later) \notin {"count", "take", "tell", "answer", "rest"} /\ Second(Later) # "take"
  BY <1>0, <1>k, <1>n DEF Fits
<1>1. Agenda'
  <2> DEFINE e == buf = <<>>
  <2>1. e \in BOOLEAN /\ TRUE \in BOOLEAN /\ (buf = <<>> => e)
    OBVIOUS
  <2> HIDE DEF e
  <2>2. Ready(Later, e, TRUE, Place)
    BY <1>0, <2>1, LaterReady
  <2>3. Has(Later, {"store"}) => limits'.writeN > 0
    BY <1>0, <1>n DEF Good, Agenda
  <2>4. (e => buf' = <<>>) /\ usage' = 0
    BY <1>0, <1>k, <1>n DEF e
  <2> QED
    BY <1>h, <1>x, <2>1, <2>2, <2>3, <2>4, AgendaAgain
<1>2. Buffer'
  BY <1>0, <1>h, <1>n, <1>x DEF Good, Buffer
<1>3. Wire'
  <2>1. Idle'
    <3>1. Len(replies') = ops' - Len(line')
      BY <1>0, <1>h, <1>i
    <3>2. \A i \in 1 .. Len(replies') : replies'[i] = "ACK"
      BY <1>h
    <3>3. \A i \in 1 .. Len(line') : ~IsTold(line'[i]) /\ ~IsRead(line'[i])
      BY <1>0, <1>i
    <3> QED
      BY <3>1, <3>2, <3>3 DEF Idle
  <2>2. Calm(todo')
    BY <1>h, <1>s DEF Calm
  <2>3. ops' = 0
    BY <1>0, <1>i
  <2> QED
    BY <2>1, <2>2, <2>3, CalmAgain
<1>4. Account'
  <2>1. Coming' = Coming
    BY <1>0 DEF Coming
  <2> QED
    BY <1>0, <1>h, <1>n, <1>s, <2>1 DEF Good, Account
<1>5. History'
  <2>1. Plan(todo') = Plan(todo)
    BY <1>h, <1>k, <1>n, Joined
  <2> QED
    BY <1>0, <1>x, <2>1 DEF Good, History
<1>6. Closed'
  BY <1>0, <1>n DEF Closed
<1> QED
  BY <1>1, <1>2, <1>3, <1>4, <1>5, <1>6 DEF Good

\* With nothing counted, nothing on the line and nothing collected, the operation buffer is empty
LEMMA NothingKept ==
  ASSUME Types, Coming = 0, Len(line) = 0
  PROVE  line = <<>> /\ opbuf = <<>>
<1>1. line = <<>> /\ opbuf \in Seq(Command) /\ \A i \in 1 .. Len(opbuf) : Queues(opbuf[i])
  BY OpbufCommands DEF Types
<1>2. opbuf \o line = opbuf
  BY <1>1
<1>3. Total(Kept(opbuf)) = 0
  BY <1>2 DEF Coming
<1>4. \A i \in 1 .. Len(opbuf) : opbuf[i] # Exec
  BY <1>1 DEF Queues, Exec
<1>5. \A i \in 1 .. Len(opbuf) : ~Queues(opbuf[i])
  BY <1>1, <1>3, <1>4, KeptNothing
<1>6. Len(opbuf) = 0
  <2>1. Len(opbuf) \in Nat
    BY <1>1
  <2>2. 1 \notin 1 .. Len(opbuf)
    BY <1>1, <1>5
  <2> QED
    BY <2>1, <2>2
<1> QED
  BY <1>1, <1>6

LEMMA StepCloseKeeps ==
  ASSUME Types, Types', Good, StepClose
  PROVE  Good'
<1>0. /\ todo # <<>> /\ Now.step = "close" /\ todo' = Later
      /\ UNCHANGED <<buf, start, writing, usage, ops, bytes, line, replies, limits, opbuf, done, naks,
                     issued, got, calls>>
  BY DEF StepClose, At, device, history
<1>n. /\ Now \in Steps /\ Later \in Seq(Steps) /\ Fits(Now, Later) /\ Start(todo) = "close"
      /\ Plan(todo) = Plans(Now) \o Plan(Later) /\ Plan(Later) \in Seq(Act)
      /\ NeedsPass(Now) => buf = <<>>
      /\ Settled(Now) => usage = 0
  BY <1>0, Takes
<1>k. Settled(Now) /\ Plans(Now) = <<>>
  BY <1>0 DEF Settled, Plans
<1>l. Later = <<>>
  BY <1>0, <1>n DEF Fits
<1>b. buf = <<>> /\ Len(buf) = 0 /\ usage = 0
  BY <1>0, <1>k, <1>n DEF NeedsPass
<1>i. /\ ops = 0 /\ Len(line) = 0 /\ Idle
  <2>1. ops = 0
    BY <1>n DEF Good, Wire
  <2>2. Calm(todo)
    BY <1>n DEF Calm
  <2>3. Idle /\ Len(line) \in Nat /\ Len(replies) \in Nat
    BY <2>2, Calms DEF Good
  <2>4. Len(replies) = 0 - Len(line)
    BY <2>1, <2>3 DEF Idle
  <2> QED
    BY <2>1, <2>3, <2>4
<1>c. Coming = 0
  BY <1>b, <1>n DEF Good, Account
<1>o. line = <<>> /\ opbuf = <<>>
  BY <1>c, <1>i, NothingKept
<1>x. Place' = Place /\ Longest' = Longest /\ Collected' = Collected /\ Coming' = Coming
  BY <1>0 DEF Place, Longest, Collected, Coming
<1>t. todo' = <<>>
  BY <1>0, <1>l
<1>1. Agenda'
  <2>1. TRUE \in BOOLEAN /\ Ready(<<>>, TRUE, TRUE, Place)
    BY ReadyNothing
  <2>2. ~Has(<<>>, {"store"})
    BY NoSteps
  <2>3. buf' = <<>> /\ usage' = 0
    BY <1>0, <1>b
  <2> QED
    BY <1>t, <1>x, <2>1, <2>2, <2>3, AgendaAgain
<1>2. Buffer'
  BY <1>0, <1>b, <1>x, LimitsType DEF Good, Buffer, Types
<1>3. Wire'
  <2>1. Idle'
    BY <1>0, <1>i DEF Idle
  <2>2. Calm(todo') /\ Start(todo') = "none"
    BY <1>t, StartNothing DEF Calm
  <2>3. ops' = 0
    BY <1>0, <1>i
  <2> QED
    BY <2>1, <2>2, <2>3, CalmAgain
<1>4. Account'
  BY <1>0, <1>b, <1>c, <1>t, <1>x, StartNothing DEF Account
<1>5. History'
  <2>1. Plan(todo') = Plan(todo)
    BY <1>0, <1>k, <1>n, Joined
  <2> QED
    BY <1>0, <1>x, <2>1 DEF Good, History
<1>6. Closed'
  BY <1>0, <1>b, <1>o, <1>t DEF Closed
<1> QED
  BY <1>1, <1>2, <1>3, <1>4, <1>5, <1>6 DEF Good


\* All answers have been counted
LEMMA FlushOver ==
  ASSUME Types, Types', Good, todo # <<>>, Now.step = "flush", line = <<>>, todo' = Later, ops' = 0, bytes' = 0,
         Start(Later) # "take" => Len(replies') = 0,
         Start(Later) = "take" =>
           /\ Len(replies') = Later[1].len
           /\ \A i \in 1 .. Len(replies') : replies'[i] = Latest(issued, Place + i - 1),
         UNCHANGED <<open, buf, start, writing, usage, line, limits, opbuf, done, issued, got>>
  PROVE  Good'
<1>n. /\ Now \in Steps /\ Later \in Seq(Steps) /\ open = TRUE /\ Fits(Now, Later) /\ Start(todo) = "flush"
      /\ Plan(todo) = Plans(Now) \o Plan(Later) /\ Plan(Later) \in Seq(Act)
      /\ Has(todo, {"store"}) <=> Now.step \in {"store"} \/ Has(Later, {"store"})
      /\ Has(todo, {"full", "pass"}) <=> Now.step \in {"full", "pass"} \/ Has(Later, {"full", "pass"})
  BY Takes
<1>k. Quiet(Now) /\ ~SendsExec(Now) /\ Plans(Now) = <<>>
  BY DEF Quiet, SendsExec, Plans
<1>s. Start(Later) \notin {"count", "answer", "close", "rest"} /\ Second(Later) # "take"
  BY <1>n, FitsPlain
<1>x. Place' = Place /\ Longest' = Longest /\ Collected' = Collected
  BY DEF Place, Longest, Collected
<1>t. Len(replies') \in Nat /\ Len(line') = 0
  BY DEF Types
<1>1. Agenda'
  <2> DEFINE e == buf = <<>>
             s == usage = 0
  <2>1. e \in BOOLEAN /\ s \in BOOLEAN /\ (buf = <<>> => e) /\ (usage = 0 /\ Quiet(Now) => s)
        /\ (e => buf' = <<>>) /\ (s => usage' = 0)
    OBVIOUS
  <2> HIDE DEF e, s
  <2>2. Ready(Later, e, s, Place)
    BY <1>k, <2>1, LaterReady
  <2>3. Has(Later, {"store"}) => limits'.writeN > 0
    BY <1>n DEF Good, Agenda
  <2> QED
    BY <1>x, <2>1, <2>2, <2>3, AgendaAgain
<1>2. Buffer'
  <2>1. bytes' < limits'.serbuf + 2 * Longest'
    <3>1. limits.writeN \in Nat /\ limits.serbuf \in Nat
      BY LimitsType DEF Types
    <3> QED
      BY <3>1 DEF Longest
  <2> QED
    BY <1>n, <2>1 DEF Good, Buffer
<1>3. Wire'
  <2>1. CASE Start(Later) = "take"
    <3>1. Start(todo') = "take" /\ Taking' /\ ~Flushing' /\ todo' = Later
      BY <2>1 DEF Taking, Flushing
    <3>2. Owed' = 0
      <4>1. ops' = 0 /\ Len(line') = 0 /\ Start(todo') # "answer"
        BY <1>t, <3>1
      <4> QED
        BY <4>1 DEF Owed
    <3>3. 0 \in 0 .. Len(replies') /\ \A i \in 0 + 1 .. Len(replies') : i \in 1 .. Len(replies') /\ i - 0 = i
      BY <1>t
    <3>4. \A i \in 0 + 1 .. Len(replies') : replies'[i] = Latest(issued', Place' + (i - 0) - 1)
      BY <1>x, <2>1, <3>3
    <3>5. Len(replies') = 0 + todo'[1].len
      BY <1>t, <2>1, <3>1
    <3>6. 1 .. Len(line') = {} /\ 1 .. 0 = {}
      BY <1>t
    <3> HIDE DEF Taking, Flushing, Owed
    <3> QED
      BY <3>1, <3>2, <3>3, <3>4, <3>5, <3>6 DEF Wire
  <2>2. CASE Start(Later) # "take"
    <3>1. Calm(todo')
      BY <1>s, <2>2 DEF Calm
    <3>2. Idle'
      <4>1. 1 .. Len(line') = {} /\ 1 .. Len(replies') = {}
        BY <1>t, <2>2
      <4>2. Len(replies') = ops' - Len(line')
        BY <1>t, <2>2
      <4> QED
        BY <4>1, <4>2 DEF Idle
    <3> QED
      BY <3>1, <3>2, CalmAgain
  <2> QED
    BY <2>1, <2>2
<1>4. Account'
  <2>1. Coming' = Coming
    BY DEF Coming
  <2> QED
    BY <1>n, <1>s, <2>1 DEF Good, Account
<1>5. History'
  <2>1. Plan(todo') = Plan(todo)
    BY <1>k, <1>n, Joined
  <2> QED
    BY <1>x, <2>1 DEF Good, History
<1>6. Closed'
  BY <1>n DEF Closed
<1> QED
  BY <1>1, <1>2, <1>3, <1>4, <1>5, <1>6 DEF Good

LEMMA StepFlushKeeps ==
  ASSUME Types, Types', Good, StepFlush
  PROVE  Good'
<1>0. /\ todo # <<>> /\ Now.step = "flush"
      /\ UNCHANGED <<open, buf, start, writing, usage, line, limits, opbuf, done, naks, issued, got, calls>>
  BY DEF StepFlush, At, device, history
<1>n. /\ Later \in Seq(Steps) /\ open = TRUE /\ Start(todo) = "flush" /\ Second(todo) = Start(Later)
      /\ todo = <<Now>> \o Later /\ Now \in Steps
  BY <1>0, Takes
<1>t. /\ Len(line) \in Nat /\ Len(replies) \in Nat /\ ops \in Nat /\ replies \in Seq(Reply)
  BY Lengths DEF Types
<1>o. Owed = ops - Len(line) /\ Owed \in Nat /\ Owed <= Len(replies)
  <2>1. Owed = ops - Len(line)
    BY <1>n, <1>t DEF Owed
  <2>2. Owed \in 0 .. Len(replies)
    BY DEF Good, Wire
  <2> QED
    BY <1>t, <2>1, <2>2
<1>f. /\ Flushing <=> Start(Later) = "take"
      /\ ~Taking
  BY <1>n DEF Flushing, Taking
<1>l. /\ ~Flushing => Len(replies) = Owed
      /\ Flushing /\ ReadSent => Len(replies) = Owed
      /\ Flushing /\ ~ReadSent => line = <<>> /\ Len(replies) = Owed + todo[2].len
  BY <1>f DEF Good, Wire
<1>2n. Start(Later) = "take" => todo[2] = Later[1]
  <2>1. Start(Later) = "take" => Len(Later) > 0
    BY <1>n DEF Start
  <2>2. \A i \in 1 .. Len(Later) : todo[i + 1] = Later[i]
    BY <1>n, ConsIs
  <2> QED
    BY <1>n, <2>1, <2>2
<1>m. Start(Later) = "take" => Later[1].len \in Nat
  <2>1. ASSUME Start(Later) = "take"
        PROVE  Later[1] \in Steps /\ Later[1].step = "take"
    BY <1>n, <2>1 DEF Start
  <2> QED
    BY <2>1, StepFields
<1>d. /\ \A i \in 1 .. Owed : replies[i] = "ACK"
      /\ \A i \in Owed + 1 .. Len(replies) : replies[i] = Latest(issued, Place + (i - Owed) - 1)
  BY DEF Good, Wire
<1>1. CASE ops = 0 /\ bytes' = 0 /\ todo' = Later /\ UNCHANGED <<ops, replies>>
  <2>1. Len(line) = 0 /\ Owed = 0 /\ line = <<>>
    BY SMTT(30), <1>1, <1>o, <1>t DEF Types
  <2>2. ~ReadSent
    BY <2>1 DEF ReadSent
  <2>3. Start(Later) # "take" => Len(replies') = 0
    BY <1>1, <1>f, <1>l, <2>1
  <2>4. Start(Later) = "take" => Len(replies') = Later[1].len
    BY <1>1, <1>2n, <1>f, <1>l, <1>m, <1>t, <2>1, <2>2
  <2>5. ASSUME NEW i \in 1 .. Len(replies')
        PROVE  replies'[i] = Latest(issued, Place + i - 1)
    <3>1. i \in Owed + 1 .. Len(replies) /\ i - Owed = i
      BY <1>1, <1>t, <2>1
    <3> QED
      BY <1>1, <1>d, <3>1
  <2> QED
    BY <1>0, <1>1, <2>1, <2>3, <2>4, <2>5, FlushOver
<1>2. Len(line) < ops \/ ops = 0 \/ replies = <<>>
  <2>1. SUFFICES ASSUME ops > 0, Len(line) >= ops, replies # <<>>
                 PROVE  FALSE
    BY <1>t
  <2>2. Owed = 0 /\ Len(line) = ops
    BY <1>o, <1>t, <2>1
  <2>3. line # <<>>
    BY <1>t, <2>1
  <2>4. Len(replies) # 0
    BY <1>t, <2>1
  <2> QED
    BY <1>l, <2>2, <2>3, <2>4
<1>3. CASE ops > 0 /\ replies # <<>> /\ Head(replies) # "ACK"
  <2>1. 1 \in 1 .. Owed
    BY <1>2, <1>3, <1>o, <1>t
  <2>2. Head(replies) = replies[1]
    BY <1>3, <1>t
  <2> QED
    BY <1>3, <1>d, <2>1, <2>2
<1>4. CASE /\ ops > 0 /\ replies # <<>> /\ Head(replies) = "ACK"
           /\ replies' = Tail(replies) /\ ops' = ops - 1
           /\ IF ops = 1 THEN bytes' = 0 /\ todo' = Later ELSE UNCHANGED <<bytes, todo>>
  <2>1. Owed >= 1 /\ Len(replies) >= 1
    BY <1>2, <1>4, <1>o, <1>t
  <2>2. Len(replies') = Len(replies) - 1 /\ \A i \in 1 .. Len(replies') : replies'[i] = replies[i + 1]
    BY <1>4, <1>t
  <2>d. ASSUME NEW i \in 1 .. Len(replies')
        PROVE  /\ i <= Owed - 1 => replies'[i] = "ACK"
               /\ i > Owed - 1 => replies'[i] = Latest(issued, Place + (i - (Owed - 1)) - 1)
    <3>1. replies'[i] = replies[i + 1] /\ i + 1 \in 1 .. Len(replies)
      BY <1>t, <2>1, <2>2
    <3>2. i <= Owed - 1 => i + 1 \in 1 .. Owed
      BY <1>o, <1>t
    <3>3. i > Owed - 1 => i + 1 \in Owed + 1 .. Len(replies) /\ (i + 1) - Owed = i - (Owed - 1)
      BY <1>o, <1>t, <3>1
    <3> QED
      BY <1>d, <3>1, <3>2, <3>3
  <2>3. CASE ops = 1
    <3>0. todo' = Later /\ ops' = 0 /\ bytes' = 0
      BY <1>4, <2>3
    <3>1. Owed = 1 /\ Len(line) = 0 /\ line = <<>>
      BY <1>o, <1>t, <2>1, <2>3 DEF Types
    <3>2. ~ReadSent
      BY <3>1 DEF ReadSent
    <3>3. Start(Later) # "take" => Len(replies') = 0
      BY <1>f, <1>l, <2>2, <3>1
    <3>4. Start(Later) = "take" => Len(replies') = Later[1].len
      <4>1. Start(Later) = "take" => Len(replies) = 1 + Later[1].len
        BY <1>2n, <1>f, <1>l, <3>1, <3>2
      <4> QED
        BY <1>m, <1>t, <2>2, <4>1
    <3>5. ASSUME NEW i \in 1 .. Len(replies')
          PROVE  replies'[i] = Latest(issued, Place + i - 1)
      <4>1. i > Owed - 1 /\ i - (Owed - 1) = i
        BY <1>t, <2>2, <3>1
      <4> QED
        BY <2>d, <4>1
    <3> QED
      BY <1>0, <3>0, <3>1, <3>3, <3>4, <3>5, FlushOver
  <2>4. CASE ops # 1
    <3>0. todo' = todo /\ bytes' = bytes
      BY <1>4, <2>4
    <3>x. Place' = Place /\ Longest' = Longest /\ Collected' = Collected /\ Coming' = Coming
      BY <1>0 DEF Place, Longest, Collected, Coming
    <3>1. Agenda' /\ Buffer' /\ Account'
      BY <1>0, <3>0, <3>x DEF Good, Agenda, Buffer, Account
    <3>2. History' /\ Closed'
      BY <1>0, <1>n, <3>0, <3>x DEF Good, History, Closed
    <3>3. Wire'
      <4>1. Owed' = Owed - 1
        BY <1>0, <1>4, <1>n, <1>t, <3>0 DEF Owed
      <4>2. Owed' \in 0 .. Len(replies')
        BY <1>o, <1>t, <2>1, <2>2, <4>1
      <4>3. \A i \in 1 .. Owed' : replies'[i] = "ACK"
        <5>1. \A i \in 1 .. Owed' : i \in 1 .. Len(replies') /\ i <= Owed - 1
          BY <1>o, <1>t, <4>1, <4>2
        <5> QED
          BY <2>d, <5>1
      <4>4. ASSUME NEW i \in Owed' + 1 .. Len(replies')
            PROVE  replies'[i] = Latest(issued', Place' + (i - Owed') - 1)
        <5>1. i \in 1 .. Len(replies') /\ i > Owed - 1
          BY <1>o, <1>t, <2>1, <2>2, <4>1
        <5> QED
          BY <1>0, <2>d, <3>x, <4>1, <5>1
      <4>5. (Taking' <=> Taking) /\ (Flushing' <=> Flushing) /\ (ReadSent' <=> ReadSent)
        BY <1>0, <3>0 DEF Taking, Flushing, ReadSent
      <4>6. /\ ~Flushing' => Len(replies') = Owed'
            /\ Flushing' => IF ReadSent' THEN Len(replies') = Owed'
                            ELSE line' = <<>> /\ Len(replies') = Owed' + todo'[2].len
        <5>1. Flushing => todo[2].len \in Nat
          BY <1>2n, <1>f, <1>m
        <5>2. ~Flushing => Len(replies') = Owed'
          BY <1>l, <2>2, <4>1
        <5>3. Flushing /\ ReadSent => Len(replies') = Owed'
          BY <1>l, <2>2, <4>1
        <5>4. Flushing /\ ~ReadSent => line = <<>> /\ Len(replies') = Owed' + todo[2].len
          BY <1>l, <1>o, <2>2, <4>1, <5>1
        <5> QED
          BY <1>0, <3>0, <4>5, <5>2, <5>3, <5>4
      <4>7. \A i \in 1 .. Len(line') :
              /\ IsTold(line'[i]) => Start(todo') = "answer"
              /\ IsRead(line'[i]) =>
                   Flushing' /\ i = Len(line') /\ line'[i].addr = Place' /\ line'[i].len = todo'[2].len
        BY <1>0, <3>0, <3>x, <4>5 DEF Good, Wire
      <4>8. Has(todo, {"flush"})
        BY <1>0, Takes
      <4>9. Start(todo') = "flush"
        BY <1>n, <3>0
      <4> HIDE DEF Taking, Flushing, ReadSent, Owed
      <4> QED
        BY <1>f, <3>0, <4>2, <4>3, <4>4, <4>5, <4>6, <4>7, <4>8, <4>9 DEF Wire
    <3> QED
      BY <3>1, <3>2, <3>3 DEF Good
  <2> QED
    BY <2>3, <2>4
<1> QED
  BY <1>1, <1>3, <1>4 DEF StepFlush


LEMMA StepTakeKeeps ==
  ASSUME Types, Types', Good, StepTake
  PROVE  Good'
<1>0. /\ todo # <<>> /\ Now.step = "take" /\ replies # <<>> /\ replies' = Tail(replies)
      /\ got' = [got EXCEPT !.data = Append(@, Head(replies))]
      /\ UNCHANGED <<open, buf, start, writing, usage, ops, bytes, line, limits, opbuf, done, naks,
                     issued, calls>>
  BY DEF StepTake, At, device
<1>n. /\ Now \in Steps /\ Later \in Seq(Steps) /\ open = TRUE /\ Fits(Now, Later) /\ Start(todo) = "take"
      /\ todo[1] = Now /\ Now.depth \in 1 .. 4
      /\ Plan(todo) = Plans(Now) \o Plan(Later) /\ Plan(Later) \in Seq(Act)
      /\ NeedsPass(Now) => buf = <<>>
      /\ Settled(Now) => usage = 0
      /\ Has(todo, {"store"}) <=> Now.step \in {"store"} \/ Has(Later, {"store"})
  BY <1>0, Takes
<1>k. Settled(Now) /\ ~SendsExec(Now) /\ Plans(Now) = <<>> /\ NeedsPass(Now)
  BY <1>0 DEF Settled, SendsExec, Plans, NeedsPass
<1>b. buf = <<>> /\ Len(buf) = 0 /\ usage = 0
  BY <1>k, <1>n
<1>m. Now.len \in Nat \ {0}
  BY <1>0, <1>n, StepFields
<1>l. Later = <<>> \/ (Len(Later) = 1 /\ Start(Later) = "rest")
  BY <1>0, <1>n DEF Fits
<1>t. Len(line) \in Nat /\ Len(replies) \in Nat /\ replies \in Seq(Reply)
  BY Lengths DEF Types
<1>g. /\ got.addr \in Nat /\ got.data \in Seq(Reply) /\ Len(got.data) \in Nat /\ Place \in Nat
      /\ Head(replies) \in Reply /\ Head(replies) = replies[1]
      /\ got'.addr = got.addr /\ got'.data = Append(got.data, Head(replies))
  <2>1. got.addr \in Nat /\ got.data \in Seq(Reply)
    BY DEF Types, Addr
  <2>2. Head(replies) \in Reply /\ Head(replies) = replies[1]
    BY <1>0, <1>t
  <2>3. got'.addr = got.addr /\ got'.data = Append(got.data, Head(replies))
    BY <1>0 DEF Types
  <2>4. Len(got.data) \in Nat
    BY <2>1
  <2> QED
    BY <2>1, <2>2, <2>3, <2>4 DEF Place
<1>h. /\ Len(got'.data) = Len(got.data) + 1 /\ got'.data[Len(got.data) + 1] = replies[1]
      /\ \A i \in 1 .. Len(got.data) : got'.data[i] = got.data[i]
  <2> DEFINE s == got.data
             v == Head(replies)
  <2>1. s \in Seq(Reply) /\ v \in Reply /\ got'.data = Append(s, v) /\ v = replies[1]
    BY <1>g
  <2> HIDE DEF s, v
  <2>2. Len(Append(s, v)) = Len(s) + 1 /\ Append(s, v)[Len(s) + 1] = v
        /\ \A i \in 1 .. Len(s) : Append(s, v)[i] = s[i]
    BY <2>1, AppendProperties
  <2> QED
    BY <2>1, <2>2 DEF s
<1>p. Place' = Place + 1 /\ Longest' = Longest /\ Collected' = Collected
  <2>1. Place' = got'.addr + Len(got'.data)
    BY DEF Place
  <2> QED
    BY <1>0, <1>g, <1>h, <2>1 DEF Place, Longest, Collected
<1>i. ops = 0 /\ Owed = 0 /\ Len(line) = 0 /\ line = <<>> /\ Len(replies) = Now.len
  <2>1. ops = 0
    BY <1>n DEF Good, Wire
  <2>2. Owed = 0 - Len(line)
    BY <1>n, <1>t, <2>1 DEF Owed
  <2>3. Owed >= 0
    BY <1>t DEF Good, Wire
  <2>4. Owed = 0 /\ Len(line) = 0
    BY <1>t, <2>2, <2>3
  <2>5. Taking
    BY <1>n DEF Taking
  <2>6. Len(replies) = Owed + Now.len
    BY <1>n, <2>5 DEF Good, Wire
  <2>7. line = <<>>
    BY <2>4 DEF Types
  <2> QED
    BY <1>m, <2>1, <2>4, <2>6, <2>7
<1>d. \A i \in 1 .. Len(replies) : replies[i] = Latest(issued, Place + i - 1)
  <2>1. \A i \in Owed + 1 .. Len(replies) : replies[i] = Latest(issued, Place + (i - Owed) - 1)
    BY DEF Good, Wire
  <2>2. \A i \in 1 .. Len(replies) : i \in Owed + 1 .. Len(replies) /\ i - Owed = i
    BY <1>i, <1>t
  <2> QED
    BY <2>1, <2>2
<1>r. Len(replies') = Len(replies) - 1 /\ \A i \in 1 .. Len(replies') : replies'[i] = replies[i + 1]
  BY <1>0, <1>t
<1>e. \A i \in 1 .. Len(replies') : replies'[i] = Latest(issued', Place' + i - 1)
  <2> TAKE i \in 1 .. Len(replies')
  <2>1. i + 1 \in 1 .. Len(replies) /\ Place + (i + 1) - 1 = Place' + i - 1
    BY <1>g, <1>p, <1>r, <1>t
  <2> QED
    BY <1>0, <1>d, <1>r, <2>1
<1>2. Buffer'
  BY SMTT(30), <1>0, <1>b, <1>p, LimitsType DEF Good, Buffer, Types
<1>o. Plan(todo) = Plan(Later)
  BY <1>k, <1>n, Joined
<1>q. \A i \in 1 .. Len(got'.data) : got'.data[i] = Latest(issued', got'.addr + i - 1)
  <2> TAKE i \in 1 .. Len(got'.data)
  <2>1. CASE i \in 1 .. Len(got.data)
    BY <1>0, <1>g, <1>h, <2>1 DEF Good, History
  <2>2. CASE i = Len(got.data) + 1
    <3>1. 1 \in 1 .. Len(replies) /\ Place + 1 - 1 = got'.addr + i - 1
      BY <1>g, <1>i, <1>m, <2>2 DEF Place
    <3> QED
      BY <1>0, <1>d, <1>h, <2>2, <3>1
  <2> QED
    BY <1>g, <1>h, <2>1, <2>2
<1>a. /\ Coming' = Coming
      /\ Closed'
      /\ Coming = usage
      /\ issued = done \o (Doings(opbuf \o line) \o (Collected \o Plan(Later)))
  BY <1>0, <1>n, <1>b, <1>o DEF Coming, Closed, Good, Account, History
<1>s. TRUE \in BOOLEAN
  OBVIOUS
<1>v. Has(Later, {"store"}) => limits'.writeN > 0
  BY <1>0, <1>n DEF Good, Agenda
<1>3. CASE Now.len = 1
  <2>0. todo' = Later
    <3>1. todo' = <<>> \o Later
      BY <1>3 DEF StepTake
    <3> QED
      BY <1>n, <3>1
  <2>1. Agenda'
    <3> DEFINE b == Place + 1
    <3>1. b = Place + Now.len
      BY <1>3
    <3> HIDE DEF b
    <3>2. Ready(Later, TRUE, TRUE, b)
      BY <1>0, <1>s, <3>1, LaterReady
    <3>3. b = Place'
      BY <1>p DEF b
    <3> QED
      BY <1>0, <1>b, <1>s, <1>v, <2>0, <3>2, <3>3, AgendaAgain
  <2>2. Start(Later) \in {"none", "rest"}
    BY <1>l, StartNothing
  <2>3. Wire'
    <3>1. Calm(todo')
      BY <2>0, <2>2 DEF Calm
    <3>2. Len(replies') = 0 /\ Len(line') = 0 /\ ops' = 0
      BY <1>0, <1>3, <1>i, <1>r
    <3>3. 1 .. Len(line') = {} /\ 1 .. Len(replies') = {}
      BY <3>2
    <3>4. Idle'
      BY <3>2, <3>3 DEF Idle
    <3> QED
      BY <3>1, <3>2, <3>4, CalmAgain
  <2>4. Account' /\ History'
    BY <1>0, <1>a, <1>b, <1>p, <1>q, <2>0, <2>2 DEF Account, History
  <2> QED
    BY <1>2, <1>a, <2>1, <2>3, <2>4 DEF Good
<1>4. CASE Now.len # 1
  <2> DEFINE x == Take(Now.len - 1, Now.depth)
  <2>0. todo' = <<x>> \o Later
    BY <1>4 DEF StepTake
  <2>1. x \in Steps /\ x.step = "take" /\ x.len = Now.len - 1
    <3>1. Now.len - 1 \in Nat \ {0}
      BY <1>4, <1>m
    <3>2. x \in Steps
      BY <1>n, <3>1, StepMakers
    <3> QED
      BY <3>2 DEF Take
  <2> HIDE DEF x
  <2>2. Start(todo') = "take" /\ todo'[1] = x
    <3>1. Start(todo') = "take"
      BY <1>n, <2>0, <2>1, StartFront
    <3>2. (<<x>> \o Later)[1] = x
      BY <1>n, <2>1, ConsIs
    <3> QED
      BY <2>0, <3>1, <3>2
  <2>3. Agenda'
    <3> DEFINE b == Place + Now.len
               a == Place + 1
    <3>1. b = Place + Now.len /\ b = a + x.len
      <4>1. Place \in Nat
        BY <1>g
      <4> QED
        BY <1>m, <2>1, <4>1
    <3> HIDE DEF a, b
    <3>2. Ready(Later, TRUE, TRUE, b)
      BY <1>0, <1>s, <3>1, LaterReady
    <3>3. Fits(x, Later)
      BY <1>0, <1>k, <1>n, <2>1 DEF Fits, SendsOp, SendsRead, SendsExec
    <3>4. ~SendsRead(x)
      BY <2>1 DEF SendsRead
    <3>5. Ready(<<x>> \o Later, TRUE, TRUE, a)
      <4>1. /\ (TRUE => TRUE \/ x.step = "pass") /\ (TRUE => (TRUE /\ Quiet(x)) \/ SendsExec(x))
            /\ x.step # "rest"
        BY <2>1 DEF Quiet, Settled
      <4> QED
        BY <1>n, <1>s, <2>1, <3>1, <3>2, <3>3, <3>4, <4>1, Put
    <3>6. a = Place'
      BY <1>p DEF a
    <3>7. Has(<<x>> \o Later, {"store"}) <=> Has(Later, {"store"})
      BY <1>n, <2>1, HasFront
    <3> QED
      BY <1>0, <1>b, <1>s, <1>v, <2>0, <3>5, <3>6, <3>7, AgendaAgain
  <2>4. Wire'
    <3>1. Taking' /\ ~Flushing'
      BY <2>2 DEF Taking, Flushing
    <3>2. ops' = 0 /\ Len(line') = 0 /\ Len(replies') \in Nat
      BY <1>0, <1>i, <1>m, <1>r
    <3>3. Owed' = 0
      BY <2>2, <3>2 DEF Owed
    <3>4. 0 \in 0 .. Len(replies') /\ \A i \in 0 + 1 .. Len(replies') : i \in 1 .. Len(replies') /\ i - 0 = i
      BY <3>2
    <3>5. \A i \in 0 + 1 .. Len(replies') : replies'[i] = Latest(issued', Place' + (i - 0) - 1)
      BY <1>e, <3>4
    <3>6. Len(replies') = 0 + todo'[1].len
      BY <1>i, <1>m, <1>r, <2>1, <2>2
    <3>7. 1 .. Len(line') = {} /\ 1 .. 0 = {}
      BY <3>2
    <3> HIDE DEF Taking, Flushing, Owed
    <3> QED
      BY <2>2, <3>1, <3>2, <3>3, <3>4, <3>5, <3>6, <3>7 DEF Wire
  <2>5. Account'
    BY <1>0, <1>a, <1>b, <2>2 DEF Account
  <2>6. History'
    <3>1. Plan(todo') = Plans(x) \o Plan(Later)
      BY <1>n, <2>0, <2>1, PlanFront
    <3>2. Plans(x) = <<>>
      BY <2>1 DEF Plans
    <3>3. Plan(todo') = Plan(Later)
      BY <1>n, <3>1, <3>2, Joined
    <3> QED
      BY <1>0, <1>a, <1>p, <1>q, <3>3 DEF History
  <2> QED
    BY <1>2, <1>a, <2>3, <2>4, <2>5, <2>6 DEF Good
<1> QED
  BY <1>3, <1>4

\* A read, its flush and its data
LEMMA PutRead ==
  ASSUME NEW x \in Steps, NEW y \in Steps, NEW z \in Steps, NEW t \in Seq(Steps), NEW a \in Nat, NEW b,
         x.step = "send", IsRead(x.cmd), x.cmd.addr = a, y.step = "flush", z.step = "take",
         z.len = x.cmd.len, b = a + z.len, Ready(t, TRUE, TRUE, b),
         t = <<>> \/ (Len(t) = 1 /\ Start(t) = "rest")
  PROVE  Ready(<<x>> \o (<<y>> \o (<<z>> \o t)), TRUE, TRUE, a)
<1> DEFINE t1 == <<z>> \o t
           t2 == <<y>> \o t1
<1>0. TRUE \in BOOLEAN
  OBVIOUS
<1>1. t1 \in Seq(Steps) /\ t1[1] = z /\ t1 = <<z>> \o t /\ Len(t1) = Len(t) + 1
  BY ConsIs
<1>2. Start(t) \in {"none", "rest"}
  BY StartNothing
<1>3. /\ ~SendsOp(z) /\ ~SendsRead(z) /\ ~SendsExec(z) /\ Quiet(z)
      /\ ~SendsOp(y) /\ ~SendsRead(y) /\ ~SendsExec(y) /\ Quiet(y) /\ ~Settled(y)
  BY DEF SendsOp, SendsRead, SendsExec, Quiet, Settled
<1>4. Fits(z, t)
  <2>1. Second(t) = "none"
    BY StartNothing DEF Second
  <2> QED
    BY <1>2, <1>3, <2>1 DEF Fits
<1>5. Ready(t1, TRUE, TRUE, a)
  BY <1>0, <1>3, <1>4, Put
<1> HIDE DEF t1
<1>6. Start(t1) = "take" /\ Second(t1) \in {"none", "rest"}
  BY <1>1, <1>2, StartFront
<1>7. t2 \in Seq(Steps) /\ t2[1] = y /\ t2[2] = z /\ t2 = <<y>> \o t1
  <2>1. t2 \in Seq(Steps) /\ t2[1] = y /\ \A i \in 1 .. Len(t1) : t2[i + 1] = t1[i]
    BY <1>1, ConsIs
  <2>2. 1 \in 1 .. Len(t1) /\ 1 + 1 = 2
    BY <1>1
  <2> QED
    BY <1>1, <2>1, <2>2
<1>8. Ready(t2, TRUE, TRUE, a)
  <2>1. Fits(y, t1)
    BY <1>1, <1>6, FitsPlain
  <2> QED
    BY <1>0, <1>1, <1>3, <1>5, <2>1, Put
<1> HIDE DEF t2
<1>9. Start(t2) = "flush" /\ Second(t2) = "take"
  BY <1>1, <1>6, <1>7, StartFront
<1>10. SendsRead(x) /\ ~SendsOp(x) /\ ~SendsExec(x) /\ Quiet(x) /\ x.step # "take" /\ x.step # "rest"
  <2>1. SendsRead(x) /\ x.step # "take" /\ x.step # "rest"
    BY DEF SendsRead
  <2>2. ~SendsOp(x) /\ ~SendsExec(x)
    BY <2>1, SendKinds
  <2> QED
    BY <2>1, <2>2 DEF Quiet, Settled
<1>11. Fits(x, t2)
  BY <1>7, <1>9, <1>10 DEF Fits
<1>12. Ready(<<x>> \o t2, TRUE, TRUE, a)
  BY <1>0, <1>7, <1>8, <1>10, <1>11, Put
<1> QED
  BY <1>12 DEF t1, t2


\* "Will stream the read operation": what precedes it pushes everything through
LEMMA DrainRead ==
  ASSUME Types, Buffer, NEW t \in Seq(Steps), NEW a, Ready(t, TRUE, TRUE, a), Start(t) = "send",
         SendsRead(t[1]), Second(t) # "take"
  PROVE  /\ \E f, r \in BOOLEAN :
              Ready(Drain(4) \o t, f, r, a) /\ (f => buf = <<>>) /\ (r => usage = 0)
         /\ Drain(4) \o t \in Seq(Steps)
         /\ Start(Drain(4) \o t) \in {"pass", "send"}
         /\ Plan(Drain(4) \o t) = Plan(t)
         /\ Has(Drain(4) \o t, {"store"}) => Has(t, {"store"})
         /\ Has(t, {"flush"}) => Has(Drain(4) \o t, {"flush"})
         /\ buf # <<>> => Has(Drain(4) \o t, {"full", "pass"})
<1>0. TRUE \in BOOLEAN /\ FALSE \in BOOLEAN /\ 4 \in 1 .. 4
  OBVIOUS
<1>1. CASE Pending
  <2> DEFINE u == ExecuteNoFlush(4) \o t
  <2>1. Drain(4) \o t = u
    BY <1>1 DEF Drain
  <2>2. /\ Ready(u, FALSE, FALSE, a)
        /\ u \in Seq(Steps)
        /\ Start(u) = "pass"
        /\ Plan(u) = Plan(t)
    BY <1>0, PutExecute
  <2>3. \A kinds : Has(u, kinds) <=> "pass" \in kinds \/ "send" \in kinds \/ Has(t, kinds)
    BY <1>0, PutExecute
  <2> HIDE DEF u
  <2>4. /\ Has(u, {"store"}) <=> Has(t, {"store"})
        /\ Has(u, {"flush"}) <=> Has(t, {"flush"})
        /\ Has(u, {"full", "pass"})
    BY <2>3
  <2>5. \E f, r \in BOOLEAN : Ready(u, f, r, a) /\ (f => buf = <<>>) /\ (r => usage = 0)
    <3> WITNESS FALSE \in BOOLEAN, FALSE \in BOOLEAN
    <3> QED
      BY <2>2
  <2> QED
    BY <2>1, <2>2, <2>4, <2>5
<1>2. CASE ~Pending
  <2>1. Drain(4) = <<>>
    BY <1>2 DEF Drain
  <2>2. Drain(4) \o t = t
    BY <2>1
  <2>3. buf = <<>> /\ usage = 0
    <3>1. usage = 0
      BY <1>2 DEF Pending, Types
    <3>2. limits.writeN = 0 \/ Len(buf) = 0
      BY <1>2, Lengths, LimitsType DEF Pending, Types
    <3>3. Len(buf) = 0 => buf = <<>>
      BY DEF Types
    <3> QED
      BY <3>1, <3>2, <3>3 DEF Buffer
  <2>4. \E f, r \in BOOLEAN : Ready(t, f, r, a) /\ (f => buf = <<>>) /\ (r => usage = 0)
    <3> WITNESS TRUE \in BOOLEAN, TRUE \in BOOLEAN
    <3> QED
      BY <2>3
  <2> QED
    BY <2>2, <2>3, <2>4
<1> QED
  BY <1>1, <1>2

\* The agenda of a read
LEMMA ReadFirst ==
  ASSUME NEW x \in Steps, NEW y \in Steps, NEW z \in Steps, NEW t \in Seq(Steps), NEW w,
         w = <<x>> \o (<<y>> \o (<<z>> \o t)),
         x.step = "send", IsRead(x.cmd), y.step = "flush", z.step = "take",
         ~Has(t, {"store"}), Plan(t) = <<>>
  PROVE  /\ w \in Seq(Steps) /\ Start(w) = "send" /\ Second(w) = "flush" /\ SendsRead(w[1])
         /\ Plan(w) = <<>> /\ ~Has(w, {"store"}) /\ Has(w, {"flush"})
<1> DEFINE t1 == <<z>> \o t
           t2 == <<y>> \o t1
<1>1. t1 \in Seq(Steps) /\ t1 = <<z>> \o t
  BY ConsIs
<1> HIDE DEF t1
<1>2. t2 \in Seq(Steps) /\ t2 = <<y>> \o t1
  BY <1>1, ConsIs
<1>w. w = <<x>> \o t2
  BY <1>1
<1> HIDE DEF t2
<1>3. w \in Seq(Steps) /\ w[1] = x
  BY <1>2, <1>w, ConsIs
<1>4. Start(t2) = "flush"
  BY <1>1, <1>2, StartFront
<1>5. Start(w) = "send" /\ Second(w) = "flush"
  BY <1>2, <1>4, <1>w, StartFront
<1>6. Plans(x) = <<>> /\ Plans(y) = <<>> /\ Plans(z) = <<>>
  <2>1. Plans(y) = <<>> /\ Plans(z) = <<>>
    BY DEF Plans
  <2>2. ~SendsOp(x)
    BY DEF SendsOp, Queues, IsRead
  <2> QED
    BY <2>1, <2>2, SendKinds
<1>7. Plan(w) = <<>>
  <2>1. Plan(t1) = Plans(z) \o Plan(t)
    BY <1>1, PlanFront
  <2>2. Plan(t2) = Plans(y) \o Plan(t1)
    BY <1>1, <1>2, PlanFront
  <2>3. Plan(w) = Plans(x) \o Plan(t2)
    BY <1>2, <1>w, PlanFront
  <2>4. <<>> \o <<>> = <<>>
    OBVIOUS
  <2> QED
    BY <1>6, <2>1, <2>2, <2>3, <2>4
<1>8. ASSUME NEW kinds
      PROVE  Has(w, kinds) <=> x.step \in kinds \/ y.step \in kinds \/ z.step \in kinds \/ Has(t, kinds)
  <2>1. Has(<<z>> \o t, kinds) <=> z.step \in kinds \/ Has(t, kinds)
    BY HasFront
  <2>2. Has(<<y>> \o t1, kinds) <=> y.step \in kinds \/ Has(t1, kinds)
    BY <1>1, HasFront
  <2>3. Has(<<x>> \o t2, kinds) <=> x.step \in kinds \/ Has(t2, kinds)
    BY <1>2, HasFront
  <2> QED
    BY <1>1, <1>2, <1>w, <2>1, <2>2, <2>3
<1>9. ~Has(w, {"store"}) /\ Has(w, {"flush"})
  BY <1>8
<1> QED
  BY <1>3, <1>5, <1>7, <1>9 DEF SendsRead

LEMMA StepRestKeeps ==
  ASSUME Types, Types', Good, StepRest
  PROVE  Good'
<1> DEFINE piece == IF limits.readN # 0 /\ Now.len > limits.readN THEN limits.readN ELSE Now.len
<1>0. /\ todo # <<>> /\ Now.step = "rest"
      /\ UNCHANGED <<open, buf, start, writing, usage, ops, bytes, line, replies, limits, opbuf, done, naks,
                     issued, got, calls>>
  BY DEF StepRest, At, device, history
<1>n. /\ Now \in Steps /\ Later \in Seq(Steps) /\ open = TRUE /\ Fits(Now, Later) /\ Start(todo) = "rest"
      /\ Now.addr = Place
      /\ Plan(todo) = Plans(Now) \o Plan(Later) /\ Plan(Later) \in Seq(Act)
      /\ Has(todo, {"full", "pass"}) <=> Now.step \in {"full", "pass"} \/ Has(Later, {"full", "pass"})
      /\ Has(todo, {"flush"}) <=> Now.step \in {"flush"} \/ Has(Later, {"flush"})
  BY <1>0, Takes
<1>l. Later = <<>> /\ Plan(todo) = <<>> /\ ~Has(Later, {"full", "pass"}) /\ ~Has(Later, {"flush"})
  <2>1. Later = <<>>
    BY <1>0, <1>n DEF Fits
  <2>2. Plans(Now) = <<>>
    BY <1>0 DEF Plans
  <2>3. Plan(todo) = Plan(Later)
    BY <1>n, <2>2, Joined
  <2> QED
    BY <2>1, <2>3, NoSteps
<1>c. Calm(todo)
  BY <1>n DEF Calm
<1>m. Now.len \in Nat /\ Now.addr \in Nat /\ limits.readN \in Nat
  BY <1>0, <1>n, StepFields, LimitsType DEF Types
<1>x. Place' = Place /\ Longest' = Longest /\ Collected' = Collected
  BY <1>0 DEF Place, Longest, Collected
<1>b. Buffer
  BY DEF Good
<1>p. ops > 0 => usage > 0
  <2>1. ops > 0 => usage > 0 \/ Start(todo) = "count" \/ Has(todo, {"flush"})
    BY DEF Good, Wire
  <2> QED
    BY <1>0, <1>l, <1>n, <2>1
<1>1. CASE Now.len = 0
  <2>0. todo' = <<>>
    BY <1>1, <1>l DEF StepRest
  <2>1. Agenda'
    <3> DEFINE e == buf = <<>>
               s == usage = 0
    <3>1. e \in BOOLEAN /\ s \in BOOLEAN /\ (e => buf' = <<>>) /\ (s => usage' = 0)
      BY <1>0
    <3> HIDE DEF e, s
    <3>2. Ready(<<>>, e, s, Place)
      BY ReadyNothing
    <3>3. ~Has(<<>>, {"store"})
      BY NoSteps
    <3> QED
      BY <1>x, <2>0, <3>1, <3>2, <3>3, AgendaAgain
  <2>2. Buffer'
    BY <1>0, <1>b, <1>l, <1>n, <1>x DEF Buffer
  <2>3. Plan(todo') = Plan(todo)
    BY <1>l, <2>0, NoSteps
  <2>4. Start(todo') = "none" /\ Calm(todo')
    BY <2>0, StartNothing DEF Calm
  <2> QED
    BY <1>0, <1>c, <1>n, <1>p, <1>x, <2>1, <2>2, <2>3, <2>4, Silent
<1>2. CASE Now.len # 0
  <2> DEFINE a == Now.addr
             c == ReadN(a, piece)
             x == Send(c, 3)
             y == Flush(2)
             z == Take(piece, 2)
             r == Rest(a + piece, Now.len - piece, 1)
             t == <<r>>
             w == <<x>> \o (<<y>> \o (<<z>> \o t))
             u == Drain(4) \o w
  <2>0. /\ piece \in Nat \ {0} /\ piece <= Now.len /\ Now.len - piece \in Nat /\ a + piece \in Nat
        /\ 1 \in 1 .. 4 /\ 2 \in 1 .. 4 /\ 3 \in 1 .. 4 /\ 4 \in 1 .. 4
    BY <1>2, <1>m
  <2>s. todo' = (Drain(4) \o <<x, y, z, r>>) \o Later
    BY <1>2 DEF StepRest
  <2> HIDE DEF piece
  <2>1. c \in Sendable /\ IsRead(c) /\ c.addr = a /\ c.len = piece
    <3>1. c \in Sendable
      BY <1>m, <2>0, SendableCommands
    <3> QED
      BY <3>1 DEF ReadN, IsRead
  <2> HIDE DEF c
  <2>2. x \in Steps /\ y \in Steps /\ z \in Steps /\ r \in Steps
    BY <1>m, <2>0, <2>1, StepMakers
  <2>3. /\ x.step = "send" /\ x.cmd = c /\ y.step = "flush" /\ z.step = "take" /\ z.len = piece
        /\ r.step = "rest" /\ r.addr = a + piece
    BY DEF Send, Flush, Take, Rest
  <2> HIDE DEF x, y, z, r
  <2>4. t \in Seq(Steps) /\ t = <<r>> \o <<>> /\ Len(t) = 1 /\ <<>> \in Seq(Steps)
    BY <2>2
  <2> HIDE DEF t
  <2>5. Start(t) = "rest" /\ Plan(t) = <<>> /\ ~Has(t, {"store"})
    <3>1. Start(t) = "rest"
      BY <2>2, <2>3, <2>4, StartFront
    <3>2. Plan(t) = Plans(r) \o Plan(<<>>) /\ Plan(<<>>) = <<>> /\ Plan(<<>>) \in Seq(Act)
      BY <2>2, <2>4, PlanFront, NoSteps
    <3>3. Plans(r) = <<>>
      BY <2>3 DEF Plans
    <3>4. Plan(t) = <<>>
      BY <3>2, <3>3, Joined
    <3>5. Has(<<r>> \o <<>>, {"store"}) <=> r.step \in {"store"} \/ Has(<<>>, {"store"})
      BY <2>2, <2>4, HasFront
    <3>6. ~Has(<<>>, {"store"})
      BY NoSteps
    <3> QED
      BY <2>3, <2>4, <3>1, <3>4, <3>5, <3>6
  <2>6. Ready(t, TRUE, TRUE, a + piece)
    <3> DEFINE b == a + piece
    <3>1. Ready(<<>>, TRUE, TRUE, b)
      BY ReadyNothing
    <3>2. /\ ~SendsOp(r) /\ ~SendsRead(r) /\ ~SendsExec(r) /\ ~NeedsPass(r) /\ ~Settled(r)
      BY <2>3 DEF SendsOp, SendsRead, SendsExec, NeedsPass, Settled
    <3>3. Fits(r, <<>>)
      BY <2>3, <3>2, StartNothing DEF Fits
    <3>4. TRUE \in BOOLEAN /\ FALSE \in BOOLEAN /\ r.step # "take"
      BY <2>3
    <3>r. Ready(<<>>, TRUE, FALSE, b)
      BY ReadyNothing
    <3>5. Ready(<<r>> \o <<>>, TRUE, TRUE, b)
      <4> HIDE DEF b
      <4>1. r.addr = b
        BY <2>3 DEF b
      <4> QED
        BY <2>2, <2>4, <3>2, <3>3, <3>4, <3>r, <4>1, Put
    <3> QED
      BY <2>4, <3>5
  <2>7. Ready(w, TRUE, TRUE, a)
    <3> DEFINE b == a + piece
    <3>1. b = a + z.len /\ x.cmd.addr = a /\ IsRead(x.cmd) /\ z.len = x.cmd.len /\ a \in Nat
      BY <1>m, <2>1, <2>3
    <3>2. Ready(t, TRUE, TRUE, b)
      BY <2>6
    <3> HIDE DEF b, a
    <3> QED
      BY <2>2, <2>3, <2>4, <2>5, <3>1, <3>2, PutRead
  <2>8. w = <<x>> \o (<<y>> \o (<<z>> \o t))
    OBVIOUS
  <2>9. todo' = u /\ w \in Seq(Steps)
    <3>1. <<x, y, z>> \o t = <<x>> \o (<<y>> \o (<<z>> \o t))
      <4> HIDE DEF w, u, a
      <4>1. x \in Steps /\ y \in Steps /\ z \in Steps /\ t \in Seq(Steps)
        BY <2>2, <2>4
      <4> QED
        BY SMTT(30), <4>1, ConsThree
    <3>2. <<x, y, z, r>> = <<x>> \o (<<y>> \o (<<z>> \o t))
      <4> DEFINE p == <<x, y, z>>
                 v == <<x, y, z, r>>
      <4>1. p \in Seq(Steps) /\ Len(p) = 3
        BY <2>2, ThreeSteps
      <4>2. v \in Seq(Steps) /\ Len(v) = 4 /\ v[1] = p[1] /\ v[2] = p[2] /\ v[3] = p[3]
        BY <2>2
      <4>3. v[4] = t[1]
        BY DEF t
      <4> HIDE DEF p, v, w, u, a
      <4>4. v = p \o t
        BY <2>4, <4>1, <4>2, <4>3, QuadrupleIs
      <4> QED
        BY <3>1, <4>4 DEF p, v
    <3>3. w = <<x, y, z, r>>
      BY <3>2
    <3>4. w \in Seq(Steps) /\ Drain(4) \in Seq(Steps)
      BY <2>0, <2>2, <2>4, <3>3, Agendas
    <3>5. todo' = (Drain(4) \o w) \o <<>>
      BY <1>l, <2>s, <3>3
    <3> HIDE DEF w
    <3> DEFINE d == Drain(4)
    <3> HIDE DEF d
    <3>6. d \o w \in Seq(Steps)
      BY <3>4, ConcatElements DEF d
    <3>7. (d \o w) \o <<>> = d \o w
      BY <3>6
    <3> QED
      BY <3>4, <3>5, <3>7 DEF d
  <2> HIDE DEF w
  <2>10. /\ Start(w) = "send" /\ Second(w) = "flush" /\ SendsRead(w[1])
         /\ Plan(w) = <<>> /\ ~Has(w, {"store"}) /\ Has(w, {"flush"})
    BY <2>1, <2>2, <2>3, <2>4, <2>5, <2>8, ReadFirst
  <2> HIDE DEF a
  <2>11. /\ \E f, s \in BOOLEAN : Ready(u, f, s, a) /\ (f => buf = <<>>) /\ (s => usage = 0)
         /\ Start(u) \in {"pass", "send"}
         /\ Plan(u) = Plan(w)
         /\ Has(u, {"store"}) => Has(w, {"store"})
         /\ Has(w, {"flush"}) => Has(u, {"flush"})
         /\ buf # <<>> => Has(u, {"full", "pass"})
    <3>0. w \in Seq(Steps) /\ Ready(w, TRUE, TRUE, a) /\ Start(w) = "send" /\ SendsRead(w[1])
          /\ Second(w) # "take"
      BY <2>7, <2>9, <2>10
    <3>1. \E f, s \in BOOLEAN : Ready(u, f, s, a) /\ (f => buf = <<>>) /\ (s => usage = 0)
      BY <1>b, <3>0, DrainRead
    <3>2. Start(u) \in {"pass", "send"} /\ Plan(u) = Plan(w)
      BY <1>b, <3>0, DrainRead
    <3>3. /\ Has(u, {"store"}) => Has(w, {"store"})
          /\ Has(w, {"flush"}) => Has(u, {"flush"})
          /\ buf # <<>> => Has(u, {"full", "pass"})
      BY <1>b, <3>0, DrainRead
    <3> QED
      BY <3>1, <3>2, <3>3
  <2> HIDE DEF u
  <2>12. Agenda'
    <3>1. PICK f \in BOOLEAN, s \in BOOLEAN : Ready(u, f, s, a) /\ (f => buf = <<>>) /\ (s => usage = 0)
      BY <2>11
    <3>2. a = Place'
      BY <1>n, <1>x DEF a
    <3> QED
      BY <1>0, <2>9, <2>10, <2>11, <3>1, <3>2, AgendaAgain
  <2>13. Buffer'
    <3>1. limits.writeN > 0 /\ Len(buf) = limits.writeN => buf # <<>>
      <4>1. Len(<<>>) = 0
        OBVIOUS
      <4> QED
        BY <4>1
    <3> QED
      BY <1>0, <1>b, <1>x, <2>9, <2>11, <3>1 DEF Buffer
  <2>14. Calm(todo') /\ Start(todo') \in {"pass", "send"} /\ Has(todo', {"flush"})
    BY <2>9, <2>10, <2>11 DEF Calm
  <2>15. Plan(todo') = Plan(todo)
    BY <1>l, <2>9, <2>10, <2>11
  <2> QED
    BY <1>0, <1>c, <1>n, <1>x, <2>12, <2>13, <2>14, <2>15, Silent
<1> QED
  BY <1>1, <1>2


-----------------------------------------------------------------------------
(* The programmer keeps the invariant                                      *)

LEMMA LineHead ==
  ASSUME Types, line # <<>>
  PROVE  /\ Head(line) \in Command /\ Head(line) = line[1] /\ Tail(line) \in Seq(Command)
         /\ line = <<Head(line)>> \o Tail(line)
         /\ Len(Tail(line)) = Len(line) - 1 /\ Len(line) \in Nat \ {0}
         /\ \A i \in 1 .. Len(Tail(line)) : Tail(line)[i] = line[i + 1]
<1>1. line \in Seq(Command)
  BY DEF Types
<1>2. Head(line) \in Command /\ Head(line) = line[1] /\ Tail(line) \in Seq(Command)
      /\ line = <<Head(line)>> \o Tail(line)
  BY <1>1, UnconsIs
<1>3. /\ Len(Tail(line)) = Len(line) - 1 /\ Len(line) \in Nat \ {0}
      /\ \A i \in 1 .. Len(Tail(line)) : Tail(line)[i] = line[i + 1]
  BY <1>1
<1> QED
  BY <1>2, <1>3

\* While there is a command on the line, all that has arrived are answers
LEMMA Waiting ==
  ASSUME Types, Wire, line # <<>>
  PROVE  /\ ~Taking /\ Len(replies) = Owed /\ (Flushing => ReadSent)
         /\ Owed = ops + (IF Start(todo) = "answer" THEN 1 ELSE 0) - Len(line) /\ Owed \in Nat
<1>1. Len(line) \in Nat \ {0} /\ Len(replies) \in Nat /\ ops \in Nat
  BY LineHead, Lengths DEF Types
<1>2. Owed = ops + (IF Start(todo) = "answer" THEN 1 ELSE 0) - Len(line)
  BY DEF Owed
<1>3. Owed \in 0 .. Len(replies)
  BY DEF Wire
<1>4. Owed \in Nat
  BY <1>1, <1>3
<1>5. ~Taking
  <2>1. SUFFICES ASSUME Start(todo) = "take"
                 PROVE  FALSE
    BY DEF Taking
  <2>2. ops = 0
    BY <2>1 DEF Wire
  <2> QED
    BY <1>1, <1>2, <1>4, <2>1, <2>2
<1>6. Flushing => ReadSent /\ Len(replies) = Owed
  BY DEF Wire
<1>7. ~Flushing => Len(replies) = Owed
  BY <1>5 DEF Wire
<1> QED
  BY <1>2, <1>4, <1>5, <1>6, <1>7

\* A command that reads nothing is answered
LEMMA Answered ==
  ASSUME Types, Types', Wire, line # <<>>, ~IsRead(Head(line)), line' = Tail(line),
         replies' = Append(replies, "ACK"), UNCHANGED <<todo, ops, usage, issued, got>>
  PROVE  Wire'
<1>1. /\ ~Taking /\ Len(replies) = Owed /\ (Flushing => ReadSent)
      /\ Owed = ops + (IF Start(todo) = "answer" THEN 1 ELSE 0) - Len(line) /\ Owed \in Nat
  BY Waiting
<1>2. /\ Head(line) = line[1] /\ Len(line') = Len(line) - 1 /\ Len(line) \in Nat \ {0}
      /\ \A i \in 1 .. Len(line') : line'[i] = line[i + 1]
  BY LineHead
<1>3. Len(replies') = Owed + 1 /\ \A i \in 1 .. Owed + 1 : replies'[i] = "ACK"
  <2>1. replies \in Seq(Reply) /\ "ACK" \in Reply
    BY DEF Types, Reply
  <2>2. /\ Len(replies') = Len(replies) + 1 /\ replies'[Len(replies) + 1] = "ACK"
        /\ \A i \in 1 .. Len(replies) : replies'[i] = replies[i]
    BY <2>1, AppendProperties
  <2>3. \A i \in 1 .. Owed : replies[i] = "ACK"
    BY DEF Wire
  <2>4. \A i \in 1 .. Owed + 1 : i \in 1 .. Owed \/ i = Owed + 1
    BY <1>1
  <2> QED
    BY <1>1, <2>2, <2>3, <2>4
<1>4. Owed' = Owed + 1
  <2>1. ops \in Nat
    BY DEF Types
  <2>2. Owed' = ops' + (IF Start(todo') = "answer" THEN 1 ELSE 0) - Len(line')
    BY DEF Owed
  <2> QED
    BY <1>1, <1>2, <2>1, <2>2
<1>5. (Taking' <=> Taking) /\ (Flushing' <=> Flushing) /\ Place' = Place
  BY DEF Taking, Flushing, Place
<1>6. ASSUME NEW i \in 1 .. Len(line')
      PROVE  /\ IsTold(line'[i]) => Start(todo') = "answer"
             /\ IsRead(line'[i]) =>
                  Flushing' /\ i = Len(line') /\ line'[i].addr = Place' /\ line'[i].len = todo'[2].len
  <2>1. line'[i] = line[i + 1] /\ i + 1 \in 1 .. Len(line) /\ (i + 1 = Len(line) => i = Len(line'))
    <3> DEFINE n == Len(line)
               m == Len(line')
    <3>1. m = n - 1 /\ n \in Nat \ {0} /\ i \in 1 .. m
      BY <1>2
    <3>2. line'[i] = line[i + 1]
      BY <1>2
    <3> HIDE DEF n, m
    <3>3. i + 1 \in 1 .. n /\ (i + 1 = n => i = m)
      BY <3>1
    <3> QED
      BY <3>2, <3>3 DEF n, m
  <2>2. /\ IsTold(line[i + 1]) => Start(todo) = "answer"
        /\ IsRead(line[i + 1]) =>
             Flushing /\ i + 1 = Len(line) /\ line[i + 1].addr = Place /\ line[i + 1].len = todo[2].len
    BY <2>1 DEF Wire
  <2> QED
    BY <1>5, <2>1, <2>2
<1>7. Flushing' => ReadSent'
  <2>1. SUFFICES ASSUME Flushing
                 PROVE  ReadSent'
    BY <1>5
  <2>2. IsRead(line[Len(line)])
    BY <1>1, <2>1 DEF ReadSent
  <2>3. Len(line) # 1
    BY <1>2, <2>2
  <2>4. Len(line') \in 1 .. Len(line') /\ Len(line') + 1 = Len(line)
    BY <1>2, <2>3
  <2>5. line'[Len(line')] = line[Len(line)]
    BY <1>2, <2>4
  <2>6. line' # <<>>
    BY <2>4
  <2> QED
    BY <2>2, <2>5, <2>6 DEF ReadSent
<1>8. \A i \in Owed' + 1 .. Len(replies') : replies'[i] = Latest(issued', Place' + (i - Owed') - 1)
  <2>1. \A n \in Nat : n + 1 .. n = {}
    OBVIOUS
  <2>2. Owed' + 1 .. Len(replies') = {}
    BY <1>1, <1>3, <1>4, <2>1
  <2> QED
    BY <2>2
<1>9. /\ Start(todo') \in {"take", "tell", "answer", "close"} => ops' = 0
      /\ ops' > 0 => usage' > 0 \/ Start(todo') = "count" \/ Has(todo', {"flush"})
  BY DEF Wire
<1>10. Owed' \in 0 .. Len(replies') /\ Len(replies') = Owed' /\ \A i \in 1 .. Owed' : replies'[i] = "ACK"
  BY <1>1, <1>3, <1>4
<1> HIDE DEF Owed, Taking, Flushing, ReadSent
<1> QED
  BY <1>1, <1>5, <1>6, <1>7, <1>8, <1>9, <1>10 DEF Wire

LEMMA DeviceQueuesKeeps ==
  ASSUME Types, Types', Good, naks = 0, naks' = 0, DeviceQueues
  PROVE  Good'
<1>0. /\ line # <<>> /\ Queues(Head(line)) /\ line' = Tail(line)
      /\ opbuf' = Append(opbuf, Head(line)) /\ replies' = Append(replies, "ACK")
      /\ UNCHANGED <<limits, todo, open, buf, start, writing, usage, ops, bytes, done, issued, got, calls>>
  <2>1. naks' # naks + 1
    OBVIOUS
  <2> QED
    BY <2>1 DEF DeviceQueues, driver, history
<1>1. ~IsRead(Head(line))
  BY <1>0 DEF Queues, IsRead
<1>2. Wire'
  BY <1>0, <1>1, Answered DEF Good
<1>3. opbuf' \o line' = opbuf \o line
  <2>1. opbuf \in Seq(Command) /\ line \in Seq(Command)
    BY OpbufCommands DEF Types
  <2>2. Append(opbuf, Head(line)) \o Tail(line) = opbuf \o line
    BY <1>0, <2>1, MoveHead
  <2> QED
    BY <1>0, <2>2
<1>4. Agenda' /\ Buffer'
  BY <1>0 DEF Good, Agenda, Buffer, Place, Longest
<1>5. Account'
  <2>1. Coming' = Coming
    BY <1>3 DEF Coming
  <2> QED
    BY <1>0, <2>1 DEF Good, Account
<1>6. History'
  <2>1. Collected' = Collected
    BY <1>0 DEF Collected
  <2>2. Doings(opbuf' \o line') = Doings(opbuf \o line)
    BY <1>3
  <2> QED
    BY <1>0, <2>1, <2>2 DEF Good, History
<1>7. Closed'
  BY <1>0 DEF Good, Closed
<1> QED
  BY <1>2, <1>4, <1>5, <1>6, <1>7 DEF Good

LEMMA EffectOfOpbuf ==
  ASSUME Types
  PROVE  EffectOf(opbuf) = Doings(opbuf)
<1>1. \A i \in 1 .. Len(opbuf) : Queues(opbuf[i])
  BY OpbufCommands DEF Types
<1>2. DOMAIN opbuf = 1 .. Len(opbuf)
  BY DEF Types
<1>3. [i \in DOMAIN opbuf |-> Effect(opbuf[i])] = [i \in 1 .. Len(opbuf) |-> Does(opbuf[i])]
  BY <1>1, <1>2 DEF Does
<1> QED
  BY <1>3 DEF EffectOf, Doings

LEMMA DeviceExecutesKeeps ==
  ASSUME Types, Types', Good, DeviceExecutes
  PROVE  Good'
<1>0. /\ line # <<>> /\ Head(line).cmd = "O_EXEC" /\ line' = Tail(line) /\ opbuf' = <<>>
      /\ replies' = Append(replies, "ACK") /\ done' = done \o EffectOf(opbuf)
      /\ UNCHANGED <<limits, todo, open, buf, start, writing, usage, ops, bytes, issued, got, calls>>
  BY DEF DeviceExecutes, driver, history
<1>h. /\ Head(line) \in Command /\ Tail(line) \in Seq(Command) /\ line = <<Head(line)>> \o Tail(line)
  BY <1>0, LineHead
<1>c. Head(line) = Exec
  BY <1>0, <1>h, CommandFields
<1>1. ~IsRead(Head(line))
  BY <1>0 DEF IsRead
<1>2. Wire'
  BY <1>0, <1>1, Answered DEF Good
<1>t. opbuf \in Seq(Command) /\ line \in Seq(Command)
  BY OpbufCommands DEF Types
<1>3. opbuf' \o line' = Tail(line)
  BY <1>0, <1>h
<1>4. Agenda' /\ Buffer'
  BY <1>0 DEF Good, Agenda, Buffer, Place, Longest
<1>5. Account'
  <2>1. Total(Kept(opbuf \o line)) = Total(Kept(Tail(line)))
    BY <1>0, <1>c, <1>t, KeptAfterExec
  <2>2. Coming' = Coming
    BY <1>3, <2>1 DEF Coming
  <2> QED
    BY <1>0, <2>2 DEF Good, Account
<1>6. History'
  <2> DEFINE one == <<Exec>>
             r == Tail(line)
             p == Doings(opbuf)
             s == Doings(r)
             q == Collected \o Plan(todo)
  <2>1. Doings(line) = s /\ s \in Seq(Act) /\ p \in Seq(Act) /\ Doings(opbuf \o line) = p \o Doings(line)
    <3>1. Exec \in Command
      BY <1>c, <1>h
    <3>2. one \in Seq(Command) /\ r \in Seq(Command) /\ line = one \o r
      BY <1>c, <1>h
    <3>3. Doings(one) = Does(Exec)
      BY <3>1, DoingsOne
    <3>4. Does(Exec) = <<>>
      BY DEF Does, Queues, Exec, SpiOp
    <3> HIDE DEF one, r
    <3>5. Doings(line) = Doings(one) \o Doings(r) /\ Doings(r) \in Seq(Act)
      BY <3>2, DoingsConcat
    <3>6. Doings(line) = Doings(r)
      BY <3>3, <3>4, <3>5, Joined
    <3>7. Doings(opbuf \o line) = Doings(opbuf) \o Doings(line) /\ Doings(opbuf) \in Seq(Act)
      BY <1>t, DoingsConcat
    <3> QED
      BY <3>5, <3>6, <3>7 DEF r
  <2>2. q \in Seq(Act) /\ done \in Seq(Act)
    BY HistoryTypes, Joined DEF Types
  <2>3. issued = done \o ((p \o s) \o q)
    BY <2>1 DEF Good, History
  <2>4. done' = done \o p
    BY <1>0, EffectOfOpbuf
  <2>5. Doings(opbuf' \o line') = s
    BY <1>3
  <2>6. Collected' \o Plan(todo') = q
    BY <1>0 DEF Collected
  <2> HIDE DEF p, q, s
  <2>7. (p \o s) \o q = p \o (s \o q)
    BY <2>1, <2>2, Joined
  <2>8. s \o q \in Seq(Act)
    BY <2>1, <2>2, Joined
  <2> DEFINE v == s \o q
  <2>9. done \o (p \o v) = (done \o p) \o v
    <3>1. v \in Seq(Act)
      BY <2>8
    <3> HIDE DEF v
    <3> QED
      BY SMTT(30), <2>1, <2>2, <3>1, Joined
  <2>10. issued' = done' \o (Doings(opbuf' \o line') \o (Collected' \o Plan(todo')))
    BY <1>0, <2>3, <2>4, <2>5, <2>6, <2>7, <2>9
  <2>11. \A i \in 1 .. Len(got'.data) : got'.data[i] = Latest(issued', got'.addr + i - 1)
    BY <1>0 DEF Good, History
  <2> QED
    BY <2>10, <2>11 DEF History
<1>7. Closed'
  BY <1>0 DEF Good, Closed
<1> QED
  BY <1>2, <1>4, <1>5, <1>6, <1>7 DEF Good



\* A command that is alone on the line finds the operation buffer as the driver counts it
LEMMA LastCommand ==
  ASSUME Types, line # <<>>, Len(line) = 1, ~Queues(Head(line)), Head(line) # Exec
  PROVE  /\ line = <<Head(line)>> /\ Tail(line) = <<>> /\ Coming = Total(Kept(opbuf))
         /\ Coming = 0 => opbuf = <<>> /\ Doings(opbuf \o line) = Does(Head(line))
<1> DEFINE c == Head(line)
<1>1. /\ c \in Command /\ line = <<c>> \o Tail(line) /\ Len(Tail(line)) = 0
      /\ Tail(line) \in Seq(Command)
  BY LineHead
<1>2. Tail(line) = <<>> /\ line = <<c>>
  BY <1>1
<1>3. opbuf \in Seq(Command) /\ \A i \in 1 .. Len(opbuf) : Queues(opbuf[i])
  BY OpbufCommands DEF Types
<1>q. ~Queues(c) /\ c # Exec
  OBVIOUS
<1> HIDE DEF c
<1>4. Coming = Total(Kept(opbuf))
  <2>1. opbuf \o line = Append(opbuf, c)
    <3>1. opbuf \o <<c>> = Append(opbuf, c)
      BY <1>1, <1>3
    <3> QED
      BY <1>2, <3>1
  <2>2. Total(Kept(Append(opbuf, c))) = Total(Kept(opbuf)) + Size(c)
    BY <1>1, <1>3, <1>q, KeptMore
  <2>3. Size(c) = 0
    BY <1>q DEF Size
  <2>4. Total(Kept(opbuf)) \in Nat
    BY <1>3, KeptType, TotalType
  <2> QED
    BY <2>1, <2>2, <2>3, <2>4 DEF Coming
<1>5. ASSUME Coming = 0
      PROVE  opbuf = <<>> /\ Doings(opbuf \o line) = Does(c)
  <2>1. \A i \in 1 .. Len(opbuf) : opbuf[i] # Exec
    BY <1>3 DEF Queues, Exec
  <2>2. \A i \in 1 .. Len(opbuf) : ~Queues(opbuf[i])
    BY <1>3, <1>4, <1>5, <2>1, KeptNothing
  <2>3. opbuf = <<>>
    <3>1. Len(opbuf) \in Nat
      BY <1>3
    <3>2. 1 \notin 1 .. Len(opbuf)
      BY <1>3, <2>2
    <3> QED
      BY <1>3, <3>1, <3>2
  <2>4. opbuf \o line = <<c>>
    BY <1>1, <1>2, <2>3
  <2>5. Doings(<<c>>) = Does(c)
    BY <1>1, DoingsOne
  <2> QED
    BY <2>3, <2>4, <2>5
<1> QED
  BY <1>2, <1>4, <1>5 DEF c

\* A read finds everything that the calls so far ask for done
LEMMA ReadFinds ==
  ASSUME Types, Good, line # <<>>, IsRead(Head(line))
  PROVE  /\ Flushing /\ Len(line) = 1 /\ Head(line).addr = Place /\ Head(line).len = todo[2].len
         /\ opbuf = <<>> /\ Tail(line) = <<>> /\ done = issued /\ buf = <<>>
         /\ Plan(todo) = <<>> /\ usage = 0
<1> DEFINE c == Head(line)
<1>1. c \in Command /\ c = line[1] /\ Len(line) \in Nat \ {0}
  BY LineHead
<1>2. Flushing /\ Len(line) = 1 /\ c.addr = Place /\ c.len = todo[2].len
  <2>1. 1 \in 1 .. Len(line)
    BY <1>1
  <2> QED
    BY <1>1, <2>1 DEF Good, Wire
<1>3. /\ Len(todo) > 1 /\ todo[1].step = "flush" /\ todo[2].step = "take" /\ todo # <<>>
      /\ todo \in Seq(Steps) /\ Len(todo) \in Nat
  <2>1. todo \in Seq(Steps) /\ Len(todo) \in Nat
    BY DEF Types
  <2> QED
    BY <1>2, <2>1 DEF Flushing, Start, Second
<1>4. 2 \in 1 .. Len(todo) /\ 1 .. 2 - 1 = {1}
  BY <1>3
<1>5. buf = <<>>
  <2>1. Passes(todo, buf = <<>>)
    BY DEF Good, Agenda, Ready
  <2>2. NeedsPass(todo[2])
    BY <1>3 DEF NeedsPass
  <2>3. buf = <<>> \/ \E j \in 1 .. 2 - 1 : todo[j].step = "pass"
    BY <1>4, <2>1, <2>2 DEF Passes
  <2> QED
    BY <1>3, <1>4, <2>3
<1>6. usage = 0
  <2>1. Settles(todo, usage = 0)
    BY DEF Good, Agenda, Ready
  <2>2. Settled(todo[2])
    BY <1>3 DEF Settled
  <2>3. usage = 0 \/ \E j \in 1 .. 2 - 1 : SendsExec(todo[j])
    BY <1>4, <2>1, <2>2 DEF Settles
  <2> QED
    BY <1>3, <1>4, <2>3 DEF SendsExec
<1>7. ~Queues(c) /\ c # Exec /\ Does(c) = <<>>
  BY DEF IsRead, Queues, Exec, Does, SpiOp
<1>8. Coming = 0
  <2>1. Start(todo) # "count"
    BY <1>2 DEF Flushing
  <2> QED
    BY <1>6, <2>1 DEF Good, Account
<1>9. opbuf = <<>> /\ Tail(line) = <<>> /\ Doings(opbuf \o line) = <<>>
  BY <1>2, <1>7, <1>8, LastCommand
<1>10. Plan(todo) = <<>>
  <2>1. /\ Now \in Steps /\ Later \in Seq(Steps) /\ todo[1] = Now
        /\ Plan(todo) = Plans(Now) \o Plan(Later) /\ Plan(Later) \in Seq(Act)
        /\ todo = <<Now>> \o Later /\ Second(todo) = Start(Later)
    BY <1>3, Takes
  <2>2. Plans(Now) = <<>>
    BY <1>3, <2>1 DEF Plans
  <2>3. Later # <<>> /\ Start(Later) = "take"
    BY <1>2, <2>1, StartNothing DEF Flushing
  <2> DEFINE x == Head(Later)
             t == Tail(Later)
  <2>4. x \in Steps /\ t \in Seq(Steps) /\ Later = <<x>> \o t /\ x = Later[1]
    BY <2>1, <2>3, UnconsIs
  <2> HIDE DEF x, t
  <2>5. x.step = "take" /\ Plans(x) = <<>>
    BY <2>3, <2>4 DEF Start, Plans
  <2>6. Shape(<<Now>> \o Later)
    BY <2>1 DEF Good, Agenda, Ready
  <2>7. Shape(Later)
    BY <2>1, <2>6, ShapeFront
  <2>8. Fits(x, t) /\ Shape(t)
    BY <2>4, <2>7, ShapeFront
  <2>9. t = <<>> \/ (Len(t) = 1 /\ Start(t) = "rest")
    BY <2>5, <2>8 DEF Fits
  <2>10. Plan(t) = <<>>
    <3>1. CASE t = <<>>
      BY <3>1, NoSteps
    <3>2. CASE Len(t) = 1 /\ Start(t) = "rest"
      <4>1. t[1] \in Steps /\ t = <<t[1]>> /\ t # <<>>
        BY <2>4, <3>2
      <4>2. Plans(t[1]) = <<>>
        BY <3>2, <4>1 DEF Start, Plans
      <4>3. Plan(<<t[1]>>) = Plans(t[1])
        BY <4>1, PlanOne
      <4> QED
        BY <4>1, <4>2, <4>3
    <3> QED
      BY <2>9, <3>1, <3>2
  <2>11. Plan(Later) = Plans(x) \o Plan(t)
    BY <2>4, PlanFront
  <2> QED
    BY <2>1, <2>2, <2>5, <2>10, <2>11
<1>11. done = issued
  <2>1. issued = done \o (Doings(opbuf \o line) \o (Collected \o Plan(todo)))
    BY DEF Good, History
  <2>2. Collected = <<>> /\ done \in Seq(Act)
    BY <1>5, HistoryTypes DEF Types
  <2> QED
    BY <1>9, <1>10, <2>1, <2>2
<1> QED
  BY <1>2, <1>5, <1>6, <1>9, <1>10, <1>11

LEMMA DeviceReadsKeeps ==
  ASSUME Types, Types', Good, DeviceReads
  PROVE  Good'
<1> DEFINE c == Head(line)
           data == [i \in 1 .. c.len |-> Latest(done, c.addr + i - 1)]
           ack == <<"ACK">>
<1>0. /\ line # <<>> /\ IsRead(Head(line)) /\ line' = Tail(line)
      /\ replies' = replies \o ack \o data
      /\ UNCHANGED <<limits, todo, open, buf, start, writing, usage, ops, bytes, opbuf, done, naks,
                     issued, got, calls>>
  BY DEF DeviceReads, driver, device, history, IsRead
<1>1. /\ Flushing /\ Len(line) = 1 /\ c.addr = Place /\ c.len = todo[2].len
      /\ opbuf = <<>> /\ Tail(line) = <<>> /\ done = issued /\ usage = 0
  BY <1>0, ReadFinds
<1>2. c \in Command /\ c.len \in Nat \ {0} /\ c.addr \in Nat
  BY <1>0, LineHead, CommandFields
<1>3. /\ Len(replies) = Owed /\ Owed \in Nat
      /\ Owed = ops + (IF Start(todo) = "answer" THEN 1 ELSE 0) - Len(line)
  BY <1>0, Waiting DEF Good
<1>f. Start(todo') = "flush" /\ Second(todo') = "take" /\ Flushing' /\ ~Taking' /\ Place' = Place
  BY <1>0, <1>1 DEF Flushing, Taking, Place
<1>4. Owed' = Owed + 1 /\ line' = <<>> /\ Len(line') = 0
  <2>1. ops \in Nat
    BY DEF Types
  <2>2. line' = <<>> /\ Len(line') = 0
    BY <1>0, <1>1
  <2>3. Owed' = ops + 0 - 0
    BY <1>0, <1>f, <2>2 DEF Owed
  <2>4. Owed = ops + 0 - 1
    BY <1>0, <1>1, <1>3, <1>f
  <2> QED
    BY <2>1, <2>2, <2>3, <2>4
<1>5. /\ data \in Seq(Reply) /\ Len(data) = c.len
      /\ \A i \in 1 .. c.len : data[i] = Latest(issued, Place + i - 1)
  <2>1. \A i \in 1 .. c.len : Latest(done, c.addr + i - 1) \in Reply
    BY LatestType DEF Types, Reply
  <2>2. data \in [1 .. c.len -> Reply]
    BY <2>1
  <2>3. \A i \in 1 .. c.len : data[i] = Latest(issued, Place + i - 1)
    BY <1>1
  <2> HIDE DEF data
  <2>4. data \in Seq(Reply) /\ Len(data) = c.len
    BY <1>2, <2>2, FunSeq
  <2> QED
    BY <2>3, <2>4
<1> DEFINE n == Owed
           m == c.len
           p == replies \o ack
<1>n. n \in Nat /\ m \in Nat /\ n = Len(replies) /\ m = Len(data)
  BY <1>2, <1>3, <1>5
<1>6. /\ p \in Seq(Reply) /\ Len(p) = n + 1 /\ \A i \in 1 .. n + 1 : p[i] = "ACK"
  <2>1. replies \in Seq(Reply) /\ ack \in Seq(Reply) /\ Len(ack) = 1 /\ ack[1] = "ACK"
    BY DEF Types, Reply
  <2>2. \A i \in 1 .. n : replies[i] = "ACK"
    BY DEF Good, Wire
  <2> HIDE DEF ack
  <2>3. /\ p \in Seq(Reply) /\ Len(p) = n + 1 /\ \A i \in 1 .. n : p[i] = replies[i]
        /\ \A i \in 1 .. 1 : p[n + i] = ack[i]
    BY <1>n, <2>1, ConcatElements
  <2> HIDE DEF p, n
  <2>4. p[n + 1] = "ACK"
    BY <2>1, <2>3
  <2>5. \A i \in 1 .. n + 1 : i \in 1 .. n \/ i = n + 1
    BY <1>n
  <2> QED
    BY <2>2, <2>3, <2>4, <2>5
<1> HIDE DEF ack, p, data, n, m
<1>7. /\ Len(replies') = (n + 1) + m
      /\ \A i \in 1 .. n + 1 : replies'[i] = "ACK"
      /\ \A k \in 1 .. m : replies'[(n + 1) + k] = data[k]
  <2>1. replies' = p \o data
    BY <1>0 DEF p
  <2>2. /\ Len(p \o data) = Len(p) + Len(data)
        /\ \A i \in 1 .. Len(p) : (p \o data)[i] = p[i]
        /\ \A i \in 1 .. Len(data) : (p \o data)[Len(p) + i] = data[i]
    <3>1. p \in Seq(Reply) /\ data \in Seq(Reply)
      BY <1>5, <1>6
    <3> QED
      BY <3>1, ConcatElements
  <2> QED
    BY <1>6, <1>n, <2>1, <2>2
<1>o. Owed' = n + 1 /\ m = c.len /\ m = todo'[2].len
  BY <1>0, <1>1, <1>4 DEF n, m
<1>8. \A i \in Owed' + 1 .. Len(replies') : replies'[i] = Latest(issued', Place' + (i - Owed') - 1)
  <2> TAKE i \in Owed' + 1 .. Len(replies')
  <2> DEFINE k == i - Owed'
  <2>1. k \in 1 .. m /\ i = (n + 1) + k
    BY <1>7, <1>n, <1>o
  <2>2. data[k] = Latest(issued, Place + k - 1)
    BY <1>5, <1>o, <2>1
  <2> HIDE DEF k
  <2>3. replies'[i] = data[k]
    BY <1>7, <2>1
  <2> QED
    BY <1>0, <1>f, <2>2, <2>3 DEF k
<1>9. Wire'
  <2>1. Owed' \in 0 .. Len(replies') /\ Len(replies') = Owed' + todo'[2].len
    BY <1>7, <1>n, <1>o
  <2>2. \A i \in 1 .. Owed' : replies'[i] = "ACK"
    BY <1>7, <1>o
  <2>3. ~ReadSent' /\ 1 .. Len(line') = {}
    BY <1>4 DEF ReadSent
  <2>4. Has(todo', {"flush"})
    <3>1. todo' # <<>> /\ todo' \in Seq(Steps) /\ todo'[1].step = "flush"
      BY <1>f DEF Start, Types
    <3>2. 1 \in 1 .. Len(todo')
      BY <3>1
    <3> QED
      BY <3>1, <3>2 DEF Has
  <2> HIDE DEF Owed, Taking, Flushing, ReadSent
  <2> QED
    BY <1>4, <1>8, <1>f, <2>1, <2>2, <2>3, <2>4 DEF Wire
<1>10. Agenda' /\ Buffer' /\ Closed'
  BY <1>0, <1>1, <1>4 DEF Good, Agenda, Buffer, Place, Longest, Closed
<1>11. Account'
  <2>1. ~Queues(c) /\ c # Exec
    BY <1>0 DEF IsRead, Queues, Exec
  <2>2. Coming = Total(Kept(opbuf))
    BY <1>0, <1>1, <2>1, LastCommand
  <2>3. opbuf' \o line' = opbuf
    BY <1>0, <1>1, <1>4
  <2>4. Coming' = Coming
    BY <2>2, <2>3 DEF Coming
  <2> QED
    BY <1>0, <2>4 DEF Good, Account
<1>12. History'
  <2>1. opbuf' \o line' = <<>>
    BY <1>0, <1>1, <1>4
  <2>2. Doings(opbuf' \o line') = <<>>
    <3>1. Exec \in Command
      BY SendableCommands DEF Sendable
    <3> QED
      BY <2>1, <3>1, DoingsOne
  <2>3. buf = <<>> /\ Plan(todo) = <<>>
    BY <1>0, ReadFinds
  <2>4. Collected' = <<>>
    <3>1. Collected = <<>>
      BY <2>3, HistoryTypes
    <3> QED
      BY <1>0, <3>1 DEF Collected
  <2>5. Plan(todo') = <<>> /\ done' \in Seq(Act) /\ issued' = done'
    BY <1>0, <1>1, <2>3 DEF Types
  <2> QED
    BY <1>0, <2>2, <2>4, <2>5 DEF Good, History
<1> QED
  BY <1>9, <1>10, <1>11, <1>12 DEF Good

LEMMA DeviceObeysKeeps ==
  ASSUME Types, Types', Good, DeviceObeys
  PROVE  Good'
<1> DEFINE c == Head(line)
<1>0. /\ line # <<>> /\ IsTold(Head(line)) /\ line' = Tail(line) /\ replies' = Append(replies, "ACK")
      /\ done' = (IF Head(line).cmd = "O_SPIOP" THEN Append(done, Did("spi")) ELSE done)
      /\ UNCHANGED <<limits, todo, open, buf, start, writing, usage, ops, bytes, opbuf, naks,
                     issued, got, calls>>
  BY DEF DeviceObeys, driver, history, IsTold
<1>1. c \in Command /\ c = line[1] /\ Len(line) \in Nat \ {0}
  BY <1>0, LineHead
<1>2. Start(todo) = "answer"
  <2>1. 1 \in 1 .. Len(line)
    BY <1>1
  <2> QED
    BY <1>0, <1>1, <2>1 DEF Good, Wire
<1>3. ~IsRead(c) /\ ~Queues(c) /\ c # Exec
  BY <1>0 DEF IsRead, IsTold, Queues, Exec
<1>4. Len(line) = 1
  <2>1. ops = 0
    BY <1>2 DEF Good, Wire
  <2>2. Owed \in Nat /\ Owed = ops + 1 - Len(line)
    BY <1>0, <1>2, Waiting DEF Good
  <2> DEFINE n == Len(line)
             m == Owed
  <2>3. n \in Nat \ {0} /\ m \in Nat /\ m = 0 + 1 - n
    BY <1>1, <2>1, <2>2
  <2> HIDE DEF n, m
  <2>4. n = 1
    BY <2>3
  <2> QED
    BY <2>4 DEF n
<1>5. usage = 0 /\ open = TRUE
  <2>1. todo # <<>>
    BY <1>2 DEF Start
  <2>2. Start(todo) = Now.step /\ (Settled(Now) => usage = 0) /\ open = TRUE
    BY <2>1, Takes
  <2>3. Settled(Now)
    BY <1>2, <2>2 DEF Settled
  <2> QED
    BY <2>2, <2>3
<1>6. Coming = 0
  BY <1>2, <1>5 DEF Good, Account
<1>7. /\ opbuf = <<>> /\ Tail(line) = <<>> /\ Doings(opbuf \o line) = Does(c)
      /\ Coming = Total(Kept(opbuf))
  BY <1>0, <1>3, <1>4, <1>6, LastCommand
<1>8. Wire'
  BY <1>0, <1>3, Answered DEF Good
<1>9. Agenda' /\ Buffer' /\ Closed'
  BY <1>0, <1>5 DEF Good, Agenda, Buffer, Place, Longest, Closed
<1>10. Account'
  <2>1. opbuf' \o line' = opbuf
    BY <1>0, <1>7
  <2>2. Coming' = Coming
    BY <1>7, <2>1 DEF Coming
  <2> QED
    BY <1>0, <2>2 DEF Good, Account
<1>11. History'
  <2> DEFINE d == Does(c)
             q == Collected \o Plan(todo)
  <2>1. q \in Seq(Act) /\ done \in Seq(Act) /\ d \in Seq(Act)
    BY <1>1, HistoryTypes, Joined, DoesType DEF Types
  <2>2. done' = done \o d
    <3>1. CASE c.cmd = "O_SPIOP"
      <4>1. c = SpiOp
        BY <1>1, <3>1, CommandFields
      <4>2. d = <<Did("spi")>>
        BY <1>3, <4>1 DEF Does
      <4> DEFINE v == Did("spi")
      <4>3. done' = Append(done, v) /\ d = <<v>> /\ v \in Act
        BY <1>0, <3>1, <4>2, DidType
      <4> HIDE DEF v, d
      <4>4. Append(done, v) = done \o <<v>>
        BY <2>1, <4>3
      <4> QED
        BY <4>3, <4>4
    <3>2. CASE c.cmd # "O_SPIOP"
      <4>1. c # SpiOp
        BY <3>2 DEF SpiOp
      <4>2. d = <<>>
        BY <1>3, <4>1 DEF Does
      <4> QED
        BY <1>0, <2>1, <3>2, <4>2
    <3> QED
      BY <3>1, <3>2
  <2>3. opbuf' \o line' = <<>>
    BY <1>0, <1>7
  <2>4. Doings(opbuf' \o line') = <<>>
    <3>1. Exec \in Command
      BY SendableCommands DEF Sendable
    <3> QED
      BY <2>3, <3>1, DoingsOne
  <2>5. issued = done \o (d \o q)
    BY <1>7 DEF Good, History
  <2>6. Collected' \o Plan(todo') = q
    BY <1>0 DEF Collected
  <2> HIDE DEF d, q
  <2>7. done \o (d \o q) = (done \o d) \o q
    BY <2>1, Joined
  <2>8. <<>> \o q = q
    BY <2>1
  <2>9. issued' = done' \o (Doings(opbuf' \o line') \o (Collected' \o Plan(todo')))
    BY <1>0, <2>2, <2>4, <2>5, <2>6, <2>7, <2>8
  <2> QED
    BY <1>0, <2>9 DEF Good, History
<1> QED
  BY <1>8, <1>9, <1>10, <1>11 DEF Good


-----------------------------------------------------------------------------
(* A call begins                                                           *)

\* Between calls
LEMMA Between ==
  ASSUME Types, Good, todo = <<>>
  PROVE  /\ Idle
         /\ ops > 0 => usage > 0
         /\ Coming = usage
         /\ issued = done \o (Doings(opbuf \o line) \o Collected)
         /\ limits.writeN > 0 => Len(buf) < limits.writeN
<1>1. Start(todo) = "none" /\ Calm(todo) /\ Plan(todo) = <<>> /\ \A kinds : ~Has(todo, kinds)
  BY StartNothing, NoSteps DEF Calm
<1>2. Idle
  BY <1>1, Calms DEF Good
<1>3. ops > 0 => usage > 0
  BY <1>1 DEF Good, Wire
<1>4. Coming = usage
  <2>1. Coming = usage + 0
    BY <1>1 DEF Good, Account
  <2> QED
    BY <2>1 DEF Types
<1>5. issued = done \o (Doings(opbuf \o line) \o Collected)
  <2>1. issued = done \o (Doings(opbuf \o line) \o (Collected \o <<>>))
    BY <1>1 DEF Good, History
  <2>2. Collected \o <<>> = Collected
    BY HistoryTypes, Joined
  <2> QED
    BY <2>1, <2>2
<1>6. limits.writeN > 0 => Len(buf) < limits.writeN
  <2>1. limits.writeN > 0 => Len(buf) <= limits.writeN /\ Len(buf) # limits.writeN
    BY <1>1 DEF Good, Buffer
  <2>2. limits.writeN \in Nat /\ Len(buf) \in Nat
    BY LimitsType, Lengths DEF Types
  <2> QED
    BY <2>1, <2>2
<1> QED
  BY <1>2, <1>3, <1>4, <1>5, <1>6

\* What a call has to see to
LEMMA Begun ==
  ASSUME Types, Types', Good, NEW agenda \in Seq(Steps), NEW ask \in Seq(Act), NEW a \in Nat,
         Begin(agenda, ask), got' = Nothing(a),
         NEW f \in BOOLEAN, NEW r \in BOOLEAN, Ready(agenda, f, r, a), f => buf' = <<>>, r => usage = 0,
         Has(agenda, {"store"}) => limits.writeN > 0,
         Start(agenda) \in {"pass", "check", "store", "send", "rest", "tell"},
         Start(agenda) = "tell" => ops = 0,
         Buffer', Collected' \o Plan(agenda) = Collected \o ask
  PROVE  Good'
<1>0. /\ todo = <<>> /\ open = TRUE /\ todo' = agenda /\ issued' = issued \o ask
      /\ UNCHANGED <<open, start, writing, usage, ops, bytes, line, replies, limits, opbuf, done, naks>>
  BY DEF Begin, device, Types
<1>1. /\ Idle /\ (ops > 0 => usage > 0) /\ Coming = usage
      /\ issued = done \o (Doings(opbuf \o line) \o Collected)
  BY <1>0, Between
<1>2. got'.addr = a /\ got'.data = <<>> /\ Len(got'.data) = 0 /\ Place' = a
  <2>1. got'.addr = a /\ got'.data = <<>> /\ Len(got'.data) = 0
    BY DEF Nothing
  <2>2. Place' = got'.addr + Len(got'.data)
    BY DEF Place
  <2> QED
    BY <2>1, <2>2
<1>3. Agenda'
  BY <1>0, <1>2, AgendaAgain
<1>4. Calm(todo') /\ Start(todo') \notin {"count", "close"}
  BY <1>0 DEF Calm
<1>5. Wire'
  <2>1. Idle'
    BY <1>0, <1>1 DEF Idle
  <2> QED
    BY <1>0, <1>1, <1>4, <2>1, CalmAgain
<1>6. Account'
  <2>1. Coming' = Coming /\ usage \in Nat
    BY <1>0 DEF Coming, Types
  <2>2. Start(todo') # "count" /\ usage' = usage
    BY <1>0, <1>4
  <2> QED
    BY <1>1, <2>1, <2>2 DEF Account
<1>7. History'
  <2> DEFINE d == Doings(opbuf \o line)
             c == Collected
  <2>1. d \in Seq(Act) /\ c \in Seq(Act) /\ done \in Seq(Act)
    BY HistoryTypes DEF Types
  <2>2. issued' = (done \o (d \o c)) \o ask
    BY <1>0, <1>1
  <2>3. Doings(opbuf' \o line') = d
    BY <1>0
  <2>4. Collected' \o Plan(todo') = c \o ask
    BY <1>0
  <2> HIDE DEF d, c
  <2>5. d \o c \in Seq(Act)
    BY <2>1, Joined
  <2> DEFINE e == d \o c
  <2>6. (done \o e) \o ask = done \o (e \o ask)
    <3>1. e \in Seq(Act) /\ done \in Seq(Act) /\ ask \in Seq(Act)
      BY <2>1, <2>5
    <3> HIDE DEF e
    <3>2. done \o (e \o ask) = (done \o e) \o ask
      BY SMTT(30), <3>1, Joined
    <3> QED
      BY <3>2
  <2>7. e \o ask = d \o (c \o ask)
    BY SMTT(30), <2>1, Joined
  <2>8. issued' = done' \o (Doings(opbuf' \o line') \o (Collected' \o Plan(todo')))
    BY <1>0, <2>2, <2>3, <2>4, <2>6, <2>7
  <2>9. 1 .. Len(got'.data) = {}
    BY <1>2
  <2> QED
    BY <2>8, <2>9 DEF History
<1>8. Closed'
  BY <1>0 DEF Closed
<1> QED
  BY <1>3, <1>5, <1>6, <1>7, <1>8 DEF Good

\* A check of the operation buffer, an operation and its count
LEMMA OperationAgenda ==
  ASSUME NEW x \in Steps, NEW y \in Steps, NEW z \in Steps, NEW w, w = <<x, y, z>>, NEW a,
         x.step = "check", y.step = "send", Queues(y.cmd), z.step = "count", z.size = Length(y.cmd)
  PROVE  /\ w \in Seq(Steps) /\ Ready(w, TRUE, FALSE, a) /\ Loose(w)
         /\ Start(w) = "check" /\ Plan(w) = Effect(y.cmd)
         /\ ~Has(w, {"store"})
<1> DEFINE e == <<>>
           t == <<y, z>> \o e
<1>0. TRUE \in BOOLEAN /\ FALSE \in BOOLEAN
  OBVIOUS
<1>1. e \in Seq(Steps) /\ Ready(e, TRUE, FALSE, a) /\ Loose(e) /\ Plan(e) = <<>>
      /\ (\A kinds : ~Has(e, kinds)) /\ Len(e) = 0
  <2>1. e \in Seq(Steps) /\ Len(e) = 0 /\ Loose(e)
    BY StartNothing DEF Loose
  <2>2. Plan(e) = <<>> /\ \A kinds : ~Has(e, kinds)
    BY NoSteps
  <2>3. Ready(e, TRUE, FALSE, a)
    BY ReadyNothing
  <2> QED
    BY <2>1, <2>2, <2>3
<1>w. w = <<x>> \o t /\ w \in Seq(Steps)
  <2>1. <<y, z>> \o e = <<y, z>>
    OBVIOUS
  <2> DEFINE p == <<x>>
             q == <<y, z>>
             v == <<x, y, z>>
  <2>2. p \in Seq(Steps) /\ q \in Seq(Steps) /\ Len(p) = 1 /\ Len(q) = 2 /\ p[1] = x /\ q[1] = y /\ q[2] = z
    OBVIOUS
  <2>3. v \in Seq(Steps) /\ Len(v) = 3 /\ v[1] = x /\ v[2] = y /\ v[3] = z
    OBVIOUS
  <2> HIDE DEF p, q, v
  <2>4. /\ p \o q \in Seq(Steps) /\ Len(p \o q) = 3
        /\ \A i \in 1 .. 1 : (p \o q)[i] = p[i]
        /\ \A i \in 1 .. 2 : (p \o q)[1 + i] = q[i]
    <3>1. /\ p \o q \in Seq(Steps) /\ Len(p \o q) = Len(p) + Len(q)
          /\ \A i \in 1 .. Len(p) : (p \o q)[i] = p[i]
          /\ \A i \in 1 .. Len(q) : (p \o q)[Len(p) + i] = q[i]
      <4>1. p \in Seq(Steps) /\ q \in Seq(Steps)
        BY <2>2
      <4> QED
        BY <4>1, ConcatElements
    <3> QED
      BY <2>2, <3>1
  <2>5. (p \o q)[1] = x /\ (p \o q)[2] = y /\ (p \o q)[3] = z
    BY <2>2, <2>4
  <2>6. \A i \in 1 .. 3 : i = 1 \/ i = 2 \/ i = 3
    OBVIOUS
  <2>7. \A i \in 1 .. 3 : (p \o q)[i] = v[i]
    BY <2>3, <2>5, <2>6
  <2>8. p \o q = v
    BY <2>3, <2>4, <2>7, SeqEqual
  <2> QED
    BY <2>1, <2>3, <2>8 DEF p, q, v
<1> HIDE DEF e
<1>2. Ready(t, TRUE, FALSE, a)
  BY <1>1, PutOperation
<1>3. t \in Seq(Steps) /\ Start(t) = "send" /\ Second(t) = "count"
  BY ZenonT(30), <1>1, OperationFirst
<1>4. Plan(t) = Effect(y.cmd)
  <2>1. Plan(t) = Effect(y.cmd) \o Plan(e)
    BY <1>1, OperationFirst
  <2>2. Effect(y.cmd) \in Seq(Act)
    BY StepFields, CommandFields, EffectType
  <2> QED
    BY <1>1, <2>1, <2>2, Joined
<1>5. ~Has(t, {"store"})
  <2>1. \A kinds : Has(t, kinds) <=> "send" \in kinds \/ "count" \in kinds \/ Has(e, kinds)
    BY <1>1, OperationFirst
  <2> HIDE DEF t
  <2> QED
    BY <1>1, <2>1
<1> HIDE DEF t
<1>6. Loose(t)
  BY <1>3 DEF Loose
<1>7. Ready(<<x>> \o t, TRUE, FALSE, a)
  BY <1>0, <1>2, <1>3, <1>6, PutPlain
<1>8. Start(w) = "check" /\ Second(w) = "send"
  BY <1>3, <1>w, StartFront
<1>9. Plan(w) = Effect(y.cmd)
  <2>1. Plan(w) = Plans(x) \o Plan(t) /\ Plan(t) \in Seq(Act)
    BY <1>3, <1>w, PlanFront
  <2>2. Plans(x) = <<>>
    BY Kinds
  <2> QED
    BY <1>4, <2>1, <2>2, Joined
<1>10. ~Has(w, {"store"})
  <2>1. Has(<<x>> \o t, {"store"}) <=> x.step \in {"store"} \/ Has(t, {"store"})
    BY <1>3, HasFront
  <2> QED
    BY <1>5, <1>w, <2>1
<1> QED
  BY <1>7, <1>8, <1>9, <1>10, <1>w DEF Loose

\* What is being collected is passed on before an agenda that needs it gone
LEMMA PassBefore ==
  ASSUME Types, NEW p \in BOOLEAN, ~p => buf = <<>>, NEW w \in Seq(Steps), NEW a,
         Ready(w, TRUE, FALSE, a), Loose(w), NEW u, u = (IF p THEN <<Pass(2)>> ELSE <<>>) \o w
  PROVE  /\ u \in Seq(Steps) /\ Plan(u) = Plan(w)
         /\ \E f \in BOOLEAN : Ready(u, f, FALSE, a) /\ (f => buf = <<>>)
         /\ Start(u) \in {"pass", Start(w)}
         /\ Has(u, {"store"}) <=> Has(w, {"store"})
         /\ Has(w, {"full"}) => Has(u, {"full"})
<1>0. TRUE \in BOOLEAN /\ FALSE \in BOOLEAN /\ 2 \in 1 .. 4
  OBVIOUS
<1>1. CASE ~p
  <2>1. u = w /\ buf = <<>>
    BY <1>1
  <2>2. \E f \in BOOLEAN : Ready(w, f, FALSE, a) /\ (f => buf = <<>>)
    <3> WITNESS TRUE \in BOOLEAN
    <3> QED
      BY <2>1
  <2> QED
    BY <2>1, <2>2
<1>2. CASE p
  <2> DEFINE x == Pass(2)
  <2>1. x \in Steps /\ x.step = "pass" /\ u = <<x>> \o w
    BY <1>0, <1>2, StepMakers, Makers
  <2> HIDE DEF x
  <2>2. Ready(<<x>> \o w, FALSE, FALSE, a)
    BY <1>0, <2>1, PutPlain
  <2>3. u \in Seq(Steps) /\ Start(u) = "pass"
    <3>1. <<x>> \o w \in Seq(Steps)
      BY <2>1, ConsIs
    <3> QED
      BY ZenonT(30), <2>1, <3>1, StartFront
  <2>4. Plan(u) = Plan(w)
    <3>1. Plan(u) = Plans(x) \o Plan(w) /\ Plan(w) \in Seq(Act)
      BY <2>1, PlanFront
    <3>2. Plans(x) = <<>>
      BY <2>1, Kinds
    <3> QED
      BY <3>1, <3>2, Joined
  <2>5. \A kinds : Has(<<x>> \o w, kinds) <=> x.step \in kinds \/ Has(w, kinds)
    BY <2>1, HasFront
  <2>6. /\ Has(u, {"store"}) <=> Has(w, {"store"})
        /\ Has(w, {"full"}) => Has(u, {"full"})
    BY <2>1, <2>5
  <2>7. \E f \in BOOLEAN : Ready(u, f, FALSE, a) /\ (f => buf = <<>>)
    <3> WITNESS FALSE \in BOOLEAN
    <3> QED
      BY <2>1, <2>2
  <2> QED
    BY <2>3, <2>4, <2>6, <2>7
<1> QED
  BY <1>1, <1>2

\* The buffer of the driver when a call that leaves it alone begins
LEMMA BufferAgain ==
  ASSUME Types, Good, NEW agenda, NEW ask, Begin(agenda, ask), buf' = buf
  PROVE  Buffer' /\ Collected' = Collected
<1>1. todo = <<>> /\ UNCHANGED <<start, writing, bytes, limits, buf>>
  BY DEF Begin
<1>2. limits.writeN > 0 => Len(buf) < limits.writeN
  BY <1>1, Between
<1>3. limits.writeN \in Nat /\ Len(buf) \in Nat
  BY LimitsType, Lengths DEF Types
<1>4. limits.writeN > 0 => Len(buf) # limits.writeN
  BY <1>2, <1>3
<1>5. Buffer'
  BY <1>1, <1>4 DEF Good, Buffer, Longest
<1> QED
  BY <1>1, <1>5 DEF Collected


\* Without write-n every byte is an operation of its own
LEMMA SingleKeeps ==
  ASSUME Types, Types', Good, NEW a \in Nat, NEW v \in Value, limits.writeN = 0, CallWriteByte(a, v)
  PROVE  Good'
<1> DEFINE c == WriteB(a, v)
           x == Check(6, 1)
           y == Send(c, 2)
           z == Count(5, FALSE, 1)
           w == <<x, y, z>>
           ask == <<Wrote(a, v)>>
<1>0. Begin(w, ask) /\ buf' = buf /\ got' = Nothing(a)
  BY DEF CallWriteByte
<1>1. c \in Sendable /\ Queues(c) /\ Length(c) = 5
  <2>1. c \in Sendable
    BY SendableCommands
  <2> QED
    BY <2>1 DEF WriteB, Queues, Length
<1>2. ask \in Seq(Act) /\ Effect(c) = ask
  <2>1. <<v>> \in Seq(Value) /\ Len(<<v>>) = 1 /\ <<v>>[1] = v
    OBVIOUS
  <2> DEFINE s == <<v>>
  <2> HIDE DEF s
  <2>2. Effect(WriteB(a, s[1])) = <<Wrote(a, s[1])>> /\ <<Wrote(a, s[1])>> \in Seq(Act)
    BY <2>1, CollectedOne DEF s
  <2> QED
    BY <2>1, <2>2 DEF s
<1> HIDE DEF c
<1>3. /\ x \in Steps /\ y \in Steps /\ z \in Steps
      /\ x.step = "check" /\ y.step = "send" /\ y.cmd = c /\ z.step = "count" /\ z.size = Length(y.cmd)
  <2>1. 1 \in 1 .. 4 /\ 2 \in 1 .. 4 /\ 6 \in Nat /\ 5 \in Nat \ {0}
    OBVIOUS
  <2>2. x \in Steps /\ y \in Steps
    BY <1>1, <2>1, StepMakers
  <2>3. z \in Steps
    BY <2>1, Counts
  <2> QED
    BY <1>1, <2>2, <2>3 DEF Check, Send, Count
<1> HIDE DEF x, y, z
<1>4. w = <<x, y, z>> /\ Queues(y.cmd)
  BY <1>1, <1>3
<1> HIDE DEF w
<1>5. w \in Seq(Steps) /\ Ready(w, TRUE, FALSE, a)
  BY <1>3, <1>4, OperationAgenda
<1>6. Start(w) = "check" /\ Plan(w) = Effect(y.cmd) /\ ~Has(w, {"store"})
  BY <1>3, <1>4, OperationAgenda
<1>7. buf' = <<>> /\ Buffer' /\ Collected' = Collected
  <2>1. buf = <<>>
    BY DEF Good, Buffer
  <2>2. Buffer' /\ Collected' = Collected
    BY <1>0, BufferAgain
  <2> QED
    BY <1>0, <2>1, <2>2
<1>8. TRUE \in BOOLEAN /\ FALSE \in BOOLEAN
  OBVIOUS
<1>9. Collected' \o Plan(w) = Collected \o ask
  BY <1>2, <1>3, <1>6, <1>7
<1> HIDE DEF ask
<1> QED
  BY <1>0, <1>2, <1>5, <1>6, <1>7, <1>8, <1>9, Begun

\* A byte that goes on with the write-n
LEMMA CollectingKeeps ==
  ASSUME Types, Types', Good, NEW a \in Nat, NEW v \in Value, limits.writeN # 0, Contiguous(a),
         CallWriteByte(a, v)
  PROVE  Good'
<1> DEFINE x == Check(7 + Len(buf) + 1, 1)
           y == Full(1)
           w == <<x, y>>
           ask == <<Wrote(a, v)>>
<1>0. Begin(w, ask) /\ buf' = Append(buf, v) /\ got' = Nothing(a)
  BY DEF CallWriteByte
<1>b. /\ todo = <<>> /\ UNCHANGED <<start, writing, bytes, limits>> /\ todo' = w
  BY <1>0 DEF Begin
<1>t. Len(buf) \in Nat /\ limits.writeN \in Nat \ {0} /\ Len(buf) < limits.writeN /\ start \in Nat
      /\ buf \in Seq(Value)
  <2>1. Len(buf) \in Nat /\ limits.writeN \in Nat \ {0}
    BY Lengths, LimitsType DEF Types
  <2>2. Len(buf) < limits.writeN
    BY <1>b, <2>1, Between
  <2> QED
    BY <2>1, <2>2 DEF Types, Addr
<1>1. x \in Steps /\ y \in Steps /\ x.step = "check" /\ y.step = "full"
  <2>1. 1 \in 1 .. 4 /\ 7 + Len(buf) + 1 \in Nat
    BY <1>t
  <2>2. x \in Steps /\ y \in Steps
    BY <2>1, StepMakers
  <2> QED
    BY <2>2 DEF Check, Full
<1>2. ask \in Seq(Act)
  BY DidType
<1>3. a = start + Len(buf) /\ writing
  BY DEF Contiguous
<1>c. Collected' = Collected \o ask /\ Collected \in Seq(Act)
  <2>1. Effect(WriteN(start, Append(buf, v))) = Effect(WriteN(start, buf)) \o <<Wrote(start + Len(buf), v)>>
    BY <1>t, CollectedMore
  <2>2. Collected' = Effect(WriteN(start, Append(buf, v)))
    BY <1>0, <1>b DEF Collected
  <2>3. Collected \in Seq(Act)
    BY HistoryTypes
  <2> QED
    BY <1>3, <2>1, <2>2, <2>3 DEF Collected
<1> HIDE DEF x, y
<1> DEFINE e == <<>>
           t == <<y>> \o e
<1>4. e \in Seq(Steps) /\ Loose(e) /\ Ready(e, FALSE, FALSE, a) /\ Plan(e) = <<>>
      /\ (\A kinds : ~Has(e, kinds))
  <2>1. e \in Seq(Steps) /\ Len(e) = 0 /\ Loose(e)
    BY StartNothing DEF Loose
  <2>2. Plan(e) = <<>> /\ \A kinds : ~Has(e, kinds)
    BY NoSteps
  <2>3. Ready(e, FALSE, FALSE, a)
    BY ReadyNothing
  <2> QED
    BY <2>1, <2>2, <2>3
<1>w. w = <<x>> \o t /\ w \in Seq(Steps) /\ t = <<y>> \o e
  <2>1. w \in Seq(Steps) /\ w \o e = w
    BY <1>1
  <2>2. <<x, y>> \o e = <<x>> \o (<<y>> \o e)
    <3>1. x \in Steps /\ y \in Steps /\ e \in Seq(Steps)
      BY <1>1, <1>4
    <3> HIDE DEF e
    <3> QED
      BY <3>1, ConsTwo
  <2> QED
    BY <2>1, <2>2
<1> HIDE DEF e, w
<1>5. FALSE \in BOOLEAN
  OBVIOUS
<1>6. t \in Seq(Steps) /\ Ready(t, FALSE, FALSE, a) /\ Start(t) = "full" /\ Second(t) = "none"
  <2>1. t \in Seq(Steps)
    BY <1>1, <1>4, ConsIs
  <2>2. Ready(<<y>> \o e, FALSE, FALSE, a)
    BY <1>1, <1>4, <1>5, PutPlain
  <2>3. Start(e) = "none"
    BY StartNothing DEF e
  <2>4. Start(t) = y.step /\ Second(t) = Start(e)
    BY <1>1, <1>4, StartFront
  <2> QED
    BY <1>1, <2>1, <2>2, <2>3, <2>4
<1>7. Plan(t) = <<>> /\ (\A kinds : Has(t, kinds) <=> y.step \in kinds)
  <2>1. Plan(t) = Plans(y) \o Plan(e)
    BY <1>1, <1>4, PlanFront
  <2>2. Plans(y) = <<>>
    BY <1>1 DEF Plans
  <2>3. \A kinds : Has(<<y>> \o e, kinds) <=> y.step \in kinds \/ Has(e, kinds)
    BY <1>1, <1>4, HasFront
  <2>4. <<>> \o <<>> = <<>>
    OBVIOUS
  <2> QED
    BY <1>4, <2>1, <2>2, <2>3, <2>4
<1> HIDE DEF t
<1>8. Loose(t)
  BY <1>6 DEF Loose
<1>9. Ready(<<x>> \o t, FALSE, FALSE, a)
  BY <1>1, <1>5, <1>6, <1>8, PutPlain
<1>10. Start(w) = "check"
  BY <1>1, <1>6, <1>w, StartFront
<1>11. Plan(w) = <<>> /\ \A kinds : Has(w, kinds) <=> x.step \in kinds \/ y.step \in kinds
  <2>1. Plan(w) = Plans(x) \o Plan(t)
    BY <1>1, <1>6, <1>w, PlanFront
  <2>2. Plans(x) = <<>>
    BY <1>1 DEF Plans
  <2>3. \A kinds : Has(<<x>> \o t, kinds) <=> x.step \in kinds \/ Has(t, kinds)
    BY <1>1, <1>6, HasFront
  <2>4. <<>> \o <<>> = <<>>
    OBVIOUS
  <2> QED
    BY <1>7, <1>w, <2>1, <2>2, <2>3, <2>4
<1>12. ~Has(w, {"store"}) /\ Has(w, {"full", "pass"})
  BY <1>1, <1>11
<1>13. Buffer'
  <2>1. Len(buf') = Len(buf) + 1
    BY <1>0, <1>t
  <2>2. limits'.writeN > 0 => Len(buf') <= limits'.writeN
    BY <1>b, <1>t, <2>1
  <2>3. ~(limits'.writeN = 0 \/ ~writing')
    BY <1>3, <1>b, <1>t
  <2>4. bytes' < limits'.serbuf + 2 * Longest'
    BY <1>b DEF Good, Buffer, Longest
  <2> QED
    BY <1>b, <1>12, <2>2, <2>3, <2>4 DEF Buffer
<1>14. Collected' \o Plan(w) = Collected \o ask
  <2>1. Collected \o ask \in Seq(Act)
    BY <1>2, <1>c, Joined
  <2>2. (Collected \o ask) \o <<>> = Collected \o ask
    BY <2>1, Joined
  <2> QED
    BY <1>11, <1>c, <2>2
<1> HIDE DEF ask
<1>15. Ready(w, FALSE, FALSE, a)
  BY <1>9, <1>w
<1> QED
  BY <1>0, <1>2, <1>5, <1>10, <1>12, <1>13, <1>14, <1>15, <1>w, Begun

\* A byte that starts a new write-n
LEMMA StoringKeeps ==
  ASSUME Types, Types', Good, NEW a \in Nat, NEW v \in Value, limits.writeN # 0, ~Contiguous(a),
         CallWriteByte(a, v)
  PROVE  Good'
<1> DEFINE x == Store(a, v, 1)
           y == Check(7 + 1, 1)
           z == Full(1)
           w == <<x, y, z>>
           p == writing /\ buf # <<>>
           u == (IF p THEN <<Pass(2)>> ELSE <<>>) \o w
           ask == <<Wrote(a, v)>>
<1>0. Begin(u, ask) /\ buf' = buf /\ got' = Nothing(a)
  BY DEF CallWriteByte
<1>1. x \in Steps /\ y \in Steps /\ z \in Steps /\ x.step = "store" /\ y.step = "check" /\ z.step = "full"
      /\ x.addr = a /\ x.val = v
  <2>1. 1 \in 1 .. 4 /\ 7 + 1 \in Nat
    OBVIOUS
  <2>2. x \in Steps /\ y \in Steps /\ z \in Steps
    BY <2>1, StepMakers
  <2> QED
    BY <2>2 DEF Store, Check, Full
<1>2. ask \in Seq(Act) /\ Plans(x) = ask
  <2>1. ask \in Seq(Act)
    BY DidType
  <2> QED
    BY <1>1, <2>1 DEF Plans
<1>p. p \in BOOLEAN /\ (~p => buf = <<>>)
  BY DEF Good, Buffer, Types
<1> HIDE DEF x, y, z, ask
<1> DEFINE e == <<>>
           t1 == <<z>> \o e
           t2 == <<y>> \o t1
<1>4. e \in Seq(Steps) /\ Loose(e) /\ Ready(e, FALSE, FALSE, a) /\ Plan(e) = <<>>
      /\ (\A kinds : ~Has(e, kinds)) /\ Start(e) = "none"
  <2>1. e \in Seq(Steps) /\ Len(e) = 0 /\ Loose(e) /\ Start(e) = "none"
    BY StartNothing DEF Loose
  <2>2. Plan(e) = <<>> /\ \A kinds : ~Has(e, kinds)
    BY NoSteps
  <2>3. Ready(e, FALSE, FALSE, a)
    BY ReadyNothing
  <2> QED
    BY <2>1, <2>2, <2>3
<1>w. w = <<x>> \o t2 /\ w \in Seq(Steps)
  <2>1. w \in Seq(Steps)
    BY <1>1, ThreeSteps
  <2>2. w \o e = w
    BY <2>1
  <2>3. <<x, y, z>> \o e = <<x>> \o (<<y>> \o (<<z>> \o e))
    <3>1. x \in Steps /\ y \in Steps /\ z \in Steps /\ e \in Seq(Steps)
      BY <1>1, <1>4
    <3> HIDE DEF e
    <3> QED
      BY SMTT(30), <3>1, ConsThree
  <2> QED
    BY <2>1, <2>2, <2>3
<1> HIDE DEF e
<1>5. FALSE \in BOOLEAN /\ TRUE \in BOOLEAN
  OBVIOUS
<1>6. /\ t1 \in Seq(Steps) /\ Ready(t1, FALSE, FALSE, a) /\ Start(t1) = "full" /\ Second(t1) = "none"
      /\ Plan(t1) = <<>>
      /\ \A kinds : Has(t1, kinds) <=> z.step \in kinds
  <2>1. t1 \in Seq(Steps)
    BY <1>1, <1>4, ConsIs
  <2>2. Ready(<<z>> \o e, FALSE, FALSE, a)
    BY <1>1, <1>4, <1>5, PutPlain
  <2>3. Start(t1) = z.step /\ Second(t1) = Start(e)
    BY <1>1, <1>4, StartFront
  <2>4. Plan(t1) = Plans(z) \o Plan(e)
    BY <1>1, <1>4, PlanFront
  <2>5. Plans(z) = <<>>
    BY <1>1 DEF Plans
  <2>6. \A kinds : Has(<<z>> \o e, kinds) <=> z.step \in kinds \/ Has(e, kinds)
    BY <1>1, <1>4, HasFront
  <2>7. <<>> \o <<>> = <<>>
    OBVIOUS
  <2> QED
    BY <1>1, <1>4, <2>1, <2>2, <2>3, <2>4, <2>5, <2>6, <2>7
<1> HIDE DEF t1
<1>7. Loose(t1)
  BY <1>6 DEF Loose
<1>8. /\ t2 \in Seq(Steps) /\ Ready(t2, FALSE, FALSE, a) /\ Start(t2) = "check" /\ Second(t2) = "full"
      /\ Plan(t2) = <<>>
      /\ \A kinds : Has(t2, kinds) <=> y.step \in kinds \/ z.step \in kinds
  <2>1. t2 \in Seq(Steps)
    BY <1>1, <1>6, ConsIs
  <2>2. Ready(<<y>> \o t1, FALSE, FALSE, a)
    BY <1>1, <1>5, <1>6, <1>7, PutPlain
  <2>3. Start(t2) = y.step /\ Second(t2) = Start(t1)
    BY <1>1, <1>6, StartFront
  <2>4. Plan(t2) = Plans(y) \o Plan(t1)
    BY <1>1, <1>6, PlanFront
  <2>5. Plans(y) = <<>>
    BY <1>1 DEF Plans
  <2>6. \A kinds : Has(<<y>> \o t1, kinds) <=> y.step \in kinds \/ Has(t1, kinds)
    BY <1>1, <1>6, HasFront
  <2>7. <<>> \o <<>> = <<>>
    OBVIOUS
  <2> QED
    BY <1>1, <1>6, <2>1, <2>2, <2>3, <2>4, <2>5, <2>6, <2>7
<1> HIDE DEF t2, w
<1>9. Loose(t2)
  BY <1>8 DEF Loose
<1>10. Fits(x, t2)
  <2>1. Passes(t2, FALSE)
    BY <1>8 DEF Ready
  <2>2. Has(t2, {"full"})
    BY <1>1, <1>8
  <2>3. \E i \in 1 .. Len(t2) : t2[i].step = "full"
    BY <2>2 DEF Has
  <2> QED
    BY <1>1, <1>8, <1>9, <2>1, <2>3, FitsPlain
<1>11. Ready(<<x>> \o t2, TRUE, FALSE, a)
  <2>1. ~Settled(x) /\ ~SendsRead(x) /\ x.step # "rest" /\ x.step # "take" /\ x.step # "pass"
    BY <1>1, Kinds
  <2>2. FALSE => (FALSE /\ Quiet(x)) \/ SendsExec(x)
    OBVIOUS
  <2> QED
    BY <1>1, <1>5, <1>8, <1>10, <2>1, <2>2, Put
<1>12. Start(w) = "store" /\ Second(w) = "check" /\ Loose(w)
  <2>1. Start(w) = "store" /\ Second(w) = "check"
    BY <1>1, <1>8, <1>w, StartFront
  <2> QED
    BY <2>1 DEF Loose
<1>13. Plan(w) = ask
  <2>1. Plan(w) = Plans(x) \o Plan(t2)
    BY <1>1, <1>8, <1>w, PlanFront
  <2> QED
    BY <1>2, <1>8, <2>1, Joined
<1>14. Ready(w, TRUE, FALSE, a)
  BY <1>11, <1>w
<1> HIDE DEF p
<1>u. u = (IF p THEN <<Pass(2)>> ELSE <<>>) \o w
  OBVIOUS
<1> HIDE DEF u
<1>v. w \in Seq(Steps) /\ Loose(w)
  BY <1>12, <1>w
<1>15. u \in Seq(Steps) /\ Plan(u) = Plan(w)
  BY <1>p, <1>u, <1>v, <1>14, PassBefore
<1>16. \E f \in BOOLEAN : Ready(u, f, FALSE, a) /\ (f => buf = <<>>)
  BY <1>p, <1>u, <1>v, <1>14, PassBefore
<1>17. Start(u) \in {"pass", Start(w)}
  BY <1>p, <1>u, <1>v, <1>14, PassBefore
<1>18. PICK f \in BOOLEAN : Ready(u, f, FALSE, a) /\ (f => buf' = <<>>)
  BY <1>0, <1>16
<1>19. Buffer' /\ Collected' = Collected
  BY <1>0, BufferAgain
<1>20. limits.writeN > 0
  <2>1. limits.writeN \in Nat
    BY LimitsType DEF Types
  <2> QED
    BY <2>1
<1>21. Collected' \o Plan(u) = Collected \o ask
  BY <1>13, <1>15, <1>19
<1>22. Start(u) \in {"pass", "store"}
  BY <1>12, <1>17
<1> QED
  BY <1>0, <1>2, <1>5, <1>15, <1>18, <1>19, <1>20, <1>21, <1>22, Begun

LEMMA CallWriteByteKeeps ==
  ASSUME Types, Types', Good, NEW a \in Nat, NEW v \in Value, CallWriteByte(a, v)
  PROVE  Good'
BY SingleKeeps, CollectingKeeps, StoringKeeps

LEMMA CallDelayKeeps ==
  ASSUME Types, Types', Good, CallDelay
  PROVE  Good'
<1> DEFINE x == Check(5, 1)
           y == Send(Delay, 2)
           z == Count(5, TRUE, 1)
           w == <<x, y, z>>
           p == limits.writeN > 0 /\ buf # <<>>
           u == (IF p THEN <<Pass(2)>> ELSE <<>>) \o w
           ask == <<Did("delay")>>
<1>0. Begin(u, ask) /\ buf' = buf /\ got' = Nothing(0)
  BY DEF CallDelay
<1>1. Delay \in Sendable /\ Queues(Delay) /\ Length(Delay) = 5 /\ Effect(Delay) = ask /\ ask \in Seq(Act)
  BY SendableCommands, DidType DEF Delay, Queues, Length, Effect
<1>3. /\ x \in Steps /\ y \in Steps /\ z \in Steps
      /\ x.step = "check" /\ y.step = "send" /\ y.cmd = Delay /\ z.step = "count" /\ z.size = Length(y.cmd)
  <2>1. 1 \in 1 .. 4 /\ 2 \in 1 .. 4 /\ 5 \in Nat /\ 5 \in Nat \ {0}
    OBVIOUS
  <2>2. x \in Steps /\ y \in Steps
    BY <1>1, <2>1, StepMakers
  <2>3. z \in Steps
    BY <2>1, Counts
  <2> QED
    BY <1>1, <2>2, <2>3 DEF Check, Send, Count
<1>p. p \in BOOLEAN /\ (~p => buf = <<>>)
  <2>1. limits.writeN \in Nat
    BY LimitsType DEF Types
  <2> QED
    BY <2>1 DEF Good, Buffer
<1> HIDE DEF x, y, z, ask, p
<1>4. w = <<x, y, z>> /\ Queues(y.cmd)
  BY <1>1, <1>3
<1> DEFINE a == 0
<1> HIDE DEF w, a
<1>5. w \in Seq(Steps) /\ Ready(w, TRUE, FALSE, a)
  BY <1>3, <1>4, OperationAgenda
<1>6. Start(w) = "check" /\ Plan(w) = Effect(y.cmd) /\ ~Has(w, {"store"})
  BY <1>3, <1>4, OperationAgenda
<1>7. Loose(w)
  BY <1>3, <1>4, OperationAgenda
<1>u. u = (IF p THEN <<Pass(2)>> ELSE <<>>) \o w
  OBVIOUS
<1> HIDE DEF u
<1>15. u \in Seq(Steps) /\ Plan(u) = Plan(w)
  BY <1>p, <1>u, <1>5, <1>7, PassBefore
<1>16. \E f \in BOOLEAN : Ready(u, f, FALSE, a) /\ (f => buf = <<>>)
  BY <1>p, <1>u, <1>5, <1>7, PassBefore
<1>17. Start(u) \in {"pass", Start(w)}
  BY <1>p, <1>u, <1>5, <1>7, PassBefore
<1>h. Has(u, {"store"}) <=> Has(w, {"store"})
  BY <1>p, <1>u, <1>5, <1>7, PassBefore
<1>18. PICK f \in BOOLEAN : Ready(u, f, FALSE, a) /\ (f => buf' = <<>>)
  BY <1>0, <1>16
<1>19. Buffer' /\ Collected' = Collected
  BY <1>0, BufferAgain
<1>20. FALSE \in BOOLEAN /\ a \in Nat /\ got' = Nothing(a)
  BY <1>0 DEF a
<1>21. Collected' \o Plan(u) = Collected \o ask
  BY <1>1, <1>3, <1>6, <1>15, <1>19
<1>22. Start(u) \in {"pass", "check"} /\ ~Has(u, {"store"})
  BY <1>6, <1>17, <1>h
<1> QED
  BY <1>0, <1>1, <1>15, <1>18, <1>19, <1>20, <1>21, <1>22, Begun


LEMMA CallReadByteKeeps ==
  ASSUME Types, Types', Good, NEW a \in Nat, CallReadByte(a)
  PROVE  Good'
<1> DEFINE c == ReadByte(a)
           x == Send(c, 3)
           y == Flush(2)
           z == Take(1, 1)
           t == <<>>
           w == <<x>> \o (<<y>> \o (<<z>> \o t))
           u == Drain(4) \o w
<1>0. Begin(Drain(4) \o <<x, y, z>>, <<>>) /\ buf' = buf /\ got' = Nothing(a)
  BY DEF CallReadByte
<1>1. c \in Sendable /\ IsRead(c) /\ c.addr = a /\ c.len = 1
  BY SendableCommands DEF ReadByte, IsRead
<1> HIDE DEF c
<1>2. x \in Steps /\ y \in Steps /\ z \in Steps
  <2>1. 1 \in 1 .. 4 /\ 2 \in 1 .. 4 /\ 3 \in 1 .. 4 /\ 1 \in Nat \ {0}
    OBVIOUS
  <2> QED
    BY <1>1, <2>1, StepMakers
<1>3. x.step = "send" /\ x.cmd = c /\ y.step = "flush" /\ z.step = "take" /\ z.len = 1
  BY DEF Send, Flush, Take
<1> HIDE DEF x, y, z
<1>4. w = <<x, y, z>> /\ w \in Seq(Steps) /\ u \in Seq(Steps)
  <2>1. <<x, y, z>> \in Seq(Steps)
    BY <1>2, ThreeSteps
  <2>2. <<x, y, z>> \o t = <<x, y, z>> /\ t \in Seq(Steps)
    BY <2>1
  <2> HIDE DEF t
  <2>3. <<x, y, z>> \o t = <<x>> \o (<<y>> \o (<<z>> \o t))
    <3> HIDE DEF w, u
    <3>1. x \in Steps /\ y \in Steps /\ z \in Steps /\ t \in Seq(Steps)
      BY <1>2, <2>2
    <3> QED
      BY SMTT(30), <3>1, ConsThree
  <2>4. w = <<x, y, z>> /\ w \in Seq(Steps)
    BY <2>1, <2>2, <2>3
  <2> HIDE DEF w
  <2>5. Drain(4) \in Seq(Steps)
    <3>1. 4 \in 1 .. 4
      OBVIOUS
    <3> QED
      BY <2>2, <3>1, Agendas
  <2> DEFINE d == Drain(4)
  <2>6. d \in Seq(Steps)
    BY <2>5
  <2> HIDE DEF d
  <2>7. d \o w \in Seq(Steps)
    BY <2>4, <2>6, ConcatElements
  <2> QED
    BY <2>4, <2>7 DEF d
<1>5. Begin(u, <<>>)
  BY <1>0, <1>4
<1>6. t \in Seq(Steps) /\ Plan(t) = <<>> /\ ~Has(t, {"store"})
  BY NoSteps
<1>7. Ready(w, TRUE, TRUE, a)
  <2> DEFINE b == a + 1
  <2>1. b = a + z.len /\ x.cmd.addr = a /\ IsRead(x.cmd) /\ z.len = x.cmd.len
    BY <1>1, <1>3
  <2>2. Ready(t, TRUE, TRUE, b)
    BY ReadyNothing
  <2>3. t = <<>> \/ (Len(t) = 1 /\ Start(t) = "rest")
    OBVIOUS
  <2> HIDE DEF b, t
  <2> QED
    BY <1>2, <1>3, <1>6, <2>1, <2>2, <2>3, PutRead
<1> HIDE DEF t
<1>8. w = <<x>> \o (<<y>> \o (<<z>> \o t))
  OBVIOUS
<1> HIDE DEF w
<1>9. /\ Start(w) = "send" /\ Second(w) = "flush" /\ SendsRead(w[1])
      /\ Plan(w) = <<>> /\ ~Has(w, {"store"})
  BY <1>1, <1>2, <1>3, <1>6, <1>8, ReadFirst
<1>10. w \in Seq(Steps) /\ Ready(w, TRUE, TRUE, a) /\ Start(w) = "send" /\ SendsRead(w[1])
       /\ Second(w) # "take" /\ Buffer
  BY <1>4, <1>7, <1>9 DEF Good
<1>11. \E f, s \in BOOLEAN : Ready(u, f, s, a) /\ (f => buf = <<>>) /\ (s => usage = 0)
  BY <1>10, DrainRead
<1>12. Start(u) \in {"pass", "send"} /\ Plan(u) = Plan(w)
  BY <1>10, DrainRead
<1>13. Has(u, {"store"}) => Has(w, {"store"})
  BY <1>10, DrainRead
<1> HIDE DEF u
<1>14. PICK f \in BOOLEAN, s \in BOOLEAN : Ready(u, f, s, a) /\ (f => buf' = <<>>) /\ (s => usage = 0)
  BY <1>0, <1>11
<1>15. Buffer' /\ Collected' = Collected
  BY <1>0, <1>5, BufferAgain
<1>16. Collected' \o Plan(u) = Collected \o <<>>
  BY <1>9, <1>12, <1>15
<1> DEFINE ask == <<>>
<1>17. ask \in Seq(Act) /\ Begin(u, ask) /\ Collected' \o Plan(u) = Collected \o ask
  BY <1>5, <1>16
<1> HIDE DEF ask
<1>18. ~Has(u, {"store"}) /\ Start(u) \in {"pass", "send"} /\ u \in Seq(Steps)
  BY <1>4, <1>9, <1>12, <1>13
<1> QED
  BY <1>0, <1>14, <1>15, <1>17, <1>18, Begun

LEMMA CallReadNKeeps ==
  ASSUME Types, Types', Good, NEW a \in Nat, NEW n \in Nat, CallReadN(a, n)
  PROVE  Good'
<1> DEFINE x == Rest(a, n, 1)
           w == <<x>>
           e == <<>>
           ask == <<>>
<1>0. Begin(w, ask) /\ buf' = buf /\ got' = Nothing(a) /\ ask \in Seq(Act)
  BY DEF CallReadN
<1>1. x \in Steps /\ x.step = "rest" /\ x.addr = a
  <2>1. 1 \in 1 .. 4
    OBVIOUS
  <2>2. x \in Steps
    BY <2>1, StepMakers
  <2> QED
    BY <2>2 DEF Rest
<1> HIDE DEF x
<1>2. w = <<x>> \o e /\ w \in Seq(Steps) /\ e \in Seq(Steps)
  BY <1>1
<1>3. /\ Ready(e, TRUE, FALSE, a) /\ Start(e) = "none" /\ Second(e) = "none" /\ Plan(e) = <<>>
      /\ ~Has(e, {"store"})
  <2>1. Start(e) = "none" /\ Second(e) = "none"
    BY StartNothing
  <2>2. Plan(e) = <<>> /\ ~Has(e, {"store"})
    BY NoSteps
  <2>3. Ready(e, TRUE, FALSE, a)
    BY ReadyNothing
  <2> QED
    BY <2>1, <2>2, <2>3
<1>4. Fits(x, e) /\ ~SendsRead(x) /\ ~SendsExec(x) /\ ~NeedsPass(x) /\ ~Settled(x) /\ x.step # "take"
  <2>1. ~SendsOp(x) /\ ~SendsRead(x) /\ ~SendsExec(x) /\ ~NeedsPass(x) /\ ~Settled(x)
    BY <1>1 DEF SendsOp, SendsRead, SendsExec, NeedsPass, Settled
  <2> QED
    BY <1>1, <1>3, <2>1 DEF Fits
<1>6. Plan(w) = <<>> /\ ~Has(w, {"store"}) /\ Start(w) = "rest"
  <2>1. Plan(<<x>>) = Plans(x)
    BY <1>1, PlanOne
  <2>2. Plans(x) = <<>>
    BY <1>1 DEF Plans
  <2> HIDE DEF e, w
  <2>3. Has(<<x>> \o e, {"store"}) <=> x.step \in {"store"} \/ Has(e, {"store"})
    BY <1>1, <1>2, HasFront
  <2>4. ~Has(w, {"store"})
    BY <1>1, <1>2, <1>3, <2>3
  <2>5. Start(w) = x.step
    BY <1>1, <1>2, StartFront
  <2> QED
    BY <1>1, <2>1, <2>2, <2>4, <2>5 DEF w
<1> HIDE DEF e, w
<1>5. Ready(<<x>> \o e, TRUE, FALSE, a)
  <2>1. TRUE \in BOOLEAN /\ FALSE \in BOOLEAN /\ (FALSE => (FALSE /\ Quiet(x)) \/ SendsExec(x))
    OBVIOUS
  <2> QED
    BY <1>1, <1>2, <1>3, <1>4, <2>1, Put
<1>7. Buffer' /\ Collected' = Collected
  BY <1>0, BufferAgain
<1>8. \E f \in BOOLEAN : Ready(w, f, FALSE, a) /\ (f => buf = <<>>)
  <2>1. CASE buf = <<>>
    <3> WITNESS TRUE \in BOOLEAN
    <3> QED
      BY <1>2, <1>5, <2>1
  <2>2. CASE buf # <<>>
    <3>1. Ready(e, FALSE, FALSE, a)
      BY ReadyNothing DEF e
    <3>2. TRUE \in BOOLEAN /\ FALSE \in BOOLEAN /\ (FALSE => (FALSE /\ Quiet(x)) \/ SendsExec(x))
          /\ (FALSE => FALSE \/ x.step = "pass")
      OBVIOUS
    <3>3. Ready(<<x>> \o e, FALSE, FALSE, a)
      BY <1>1, <1>2, <1>4, <3>1, <3>2, Put
    <3> WITNESS FALSE \in BOOLEAN
    <3> QED
      BY <1>2, <3>3
  <2> QED
    BY <2>1, <2>2
<1>9. PICK f \in BOOLEAN : Ready(w, f, FALSE, a) /\ (f => buf' = <<>>)
  BY <1>0, <1>8
<1>10. Collected' \o Plan(w) = Collected \o ask
  BY <1>6, <1>7
<1>11. FALSE \in BOOLEAN
  OBVIOUS
<1> HIDE DEF ask
<1> QED
  BY <1>0, <1>2, <1>6, <1>7, <1>9, <1>10, <1>11, Begun

\* "sp_execute_opbuf" before a command that is answered at once
LEMMA TellBefore ==
  ASSUME Types, Good, todo = <<>>, NEW d \in 1 .. 4, NEW t \in Seq(Steps), Ready(t, TRUE, TRUE, 0),
         Start(t) = "tell", Second(t) = "answer", ~Has(t, {"store"}), NEW u,
         u = (IF Pending THEN ExecuteNoFlush(d) \o <<Flush(d)>> ELSE <<>>) \o t
  PROVE  /\ u \in Seq(Steps) /\ Plan(u) = Plan(t)
         /\ \E f, r \in BOOLEAN : Ready(u, f, r, 0) /\ (f => buf = <<>>) /\ (r => usage = 0)
         /\ Start(u) \in {"pass", "tell"} /\ (Start(u) = "tell" => ops = 0)
         /\ ~Has(u, {"store"})
<1>0. TRUE \in BOOLEAN /\ FALSE \in BOOLEAN
  OBVIOUS
<1>1. CASE Pending
  <2> DEFINE y == Flush(d)
             s == <<y>> \o t
             p == ExecuteNoFlush(d)
             w == p \o s
  <2>1. y \in Steps /\ y.step = "flush" /\ p \in Seq(Steps)
    <3>1. y \in Steps /\ p \in Seq(Steps)
      BY StepMakers, Agendas
    <3> QED
      BY <3>1 DEF Flush
  <2>2. u = w
    <3>1. u = (p \o <<y>>) \o t
      BY <1>1
    <3>2. <<y>> \in Seq(Steps)
      BY <2>1
    <3> HIDE DEF p, y
    <3> DEFINE q == <<y>>
    <3>3. q \in Seq(Steps) /\ u = (p \o q) \o t
      BY <3>1, <3>2
    <3> HIDE DEF q
    <3>4. (p \o q) \o t = p \o (q \o t)
      BY <2>1, <3>3, ConcatAssociative
    <3> QED
      BY <3>3, <3>4 DEF q
  <2>3. Ready(s, TRUE, TRUE, 0)
    BY <1>0, PutFlush
  <2>4. s \in Seq(Steps)
    BY <2>1, ConsIs
  <2>5. Start(s) = "flush" /\ Second(s) = "tell"
    BY <2>1, <2>4, StartFront
  <2>6. Plan(s) = Plan(t)
    <3>1. Plan(s) = Plans(y) \o Plan(t) /\ Plan(t) \in Seq(Act)
      BY <2>1, <2>4, PlanFront
    <3>2. Plans(y) = <<>>
      BY <2>1 DEF Plans
    <3> QED
      BY <3>1, <3>2, Joined
  <2>7. ~Has(s, {"store"})
    <3>1. Has(<<y>> \o t, {"store"}) <=> y.step \in {"store"} \/ Has(t, {"store"})
      BY <2>1, HasFront
    <3> QED
      BY <2>1, <3>1
  <2> HIDE DEF s
  <2>8. Second(s) # "take" /\ (Start(s) = "flush" \/ (Start(s) = "send" /\ SendsRead(s[1])))
    BY <2>5
  <2>9. Ready(w, FALSE, FALSE, 0) /\ w \in Seq(Steps) /\ Start(w) = "pass"
    BY <1>0, <2>3, <2>4, <2>8, PutExecute
  <2>10. Plan(w) = Plan(s)
    BY <1>0, <2>3, <2>4, <2>8, PutExecute
  <2>11. \A kinds : Has(w, kinds) <=> "pass" \in kinds \/ "send" \in kinds \/ Has(s, kinds)
    BY <1>0, <2>3, <2>4, <2>8, PutExecute
  <2> HIDE DEF w
  <2>12. ~Has(w, {"store"})
    BY <2>7, <2>11
  <2>13. \E f, r \in BOOLEAN : Ready(u, f, r, 0) /\ (f => buf = <<>>) /\ (r => usage = 0)
    <3> WITNESS FALSE \in BOOLEAN, FALSE \in BOOLEAN
    <3> QED
      BY <2>2, <2>9
  <2> QED
    BY <2>2, <2>6, <2>9, <2>10, <2>12, <2>13
<1>2. CASE ~Pending
  <2>1. u = t
    BY <1>2
  <2>2. buf = <<>> /\ usage = 0 /\ ops = 0
    <3>1. usage = 0
      BY <1>2 DEF Pending, Types
    <3>2. limits.writeN = 0 \/ Len(buf) = 0
      BY <1>2, Lengths, LimitsType DEF Pending, Types
    <3>3. Len(buf) = 0 => buf = <<>>
      BY DEF Types
    <3>4. ops > 0 => usage > 0
      BY Between
    <3>5. ops \in Nat
      BY DEF Types
    <3>6. ops = 0
      BY <3>1, <3>4, <3>5
    <3> QED
      BY <3>1, <3>2, <3>3, <3>6 DEF Good, Buffer
  <2>3. \E f, r \in BOOLEAN : Ready(u, f, r, 0) /\ (f => buf = <<>>) /\ (r => usage = 0)
    <3> WITNESS TRUE \in BOOLEAN, TRUE \in BOOLEAN
    <3> QED
      BY <2>1, <2>2
  <2> QED
    BY <2>1, <2>2, <2>3
<1> QED
  BY <1>1, <1>2

\* The command and its answer, and what may follow
LEMMA TellFirst ==
  ASSUME NEW x \in Steps, NEW y \in Steps, NEW t \in Seq(Steps), x.step = "tell", y.step = "answer",
         NEW w, w = <<x>> \o (<<y>> \o t), Ready(t, TRUE, TRUE, 0), ~Has(t, {"store"}), Plan(t) = <<>>,
         Start(t) \in {"none", "close"}, Second(t) = "none"
  PROVE  /\ w \in Seq(Steps) /\ Ready(w, TRUE, TRUE, 0) /\ Start(w) = "tell" /\ Second(w) = "answer"
         /\ ~Has(w, {"store"}) /\ Plan(w) = Plans(x)
<1> DEFINE s == <<y>> \o t
<1>0. TRUE \in BOOLEAN
  OBVIOUS
<1>1. /\ ~SendsOp(x) /\ ~SendsRead(x) /\ ~SendsExec(x) /\ Quiet(x)
      /\ ~SendsOp(y) /\ ~SendsRead(y) /\ ~SendsExec(y) /\ Quiet(y) /\ Plans(y) = <<>>
  BY DEF SendsOp, SendsRead, SendsExec, Quiet, Settled, Plans
<1>2. s \in Seq(Steps) /\ s = <<y>> \o t
  BY ConsIs
<1>3. Fits(y, t)
  BY <1>1 DEF Fits
<1>4. Ready(<<y>> \o t, TRUE, TRUE, 0)
  BY <1>0, <1>1, <1>3, Put
<1>5. Ready(s, TRUE, TRUE, 0)
  BY <1>4
<1> HIDE DEF s
<1>6. Start(s) = "answer" /\ Second(s) = Start(t)
  BY <1>2, StartFront
<1>7. Fits(x, s)
  BY <1>1, <1>6 DEF Fits
<1>8. Ready(<<x>> \o s, TRUE, TRUE, 0)
  BY <1>0, <1>1, <1>2, <1>5, <1>7, Put
<1>w. w = <<x>> \o s
  BY <1>2
<1>9. w \in Seq(Steps) /\ Start(w) = "tell" /\ Second(w) = "answer"
  <2>1. w \in Seq(Steps)
    BY <1>2, <1>w, ConsIs
  <2> QED
    BY <1>2, <1>6, <1>w, <2>1, StartFront
<1>10. Plan(w) = Plans(x)
  <2>1. Plan(w) = Plans(x) \o Plan(s) /\ Plans(x) \in Seq(Act)
    BY <1>2, <1>w, PlanFront
  <2>2. Plan(s) = Plans(y) \o Plan(t)
    BY <1>2, PlanFront
  <2>3. <<>> \o <<>> = <<>>
    OBVIOUS
  <2> QED
    BY <1>1, <2>1, <2>2, <2>3, Joined
<1>11. ~Has(w, {"store"})
  <2>1. Has(<<y>> \o t, {"store"}) <=> y.step \in {"store"} \/ Has(t, {"store"})
    BY HasFront
  <2>2. Has(<<x>> \o s, {"store"}) <=> x.step \in {"store"} \/ Has(s, {"store"})
    BY <1>2, HasFront
  <2> QED
    BY <1>2, <1>w, <2>1, <2>2
<1>12. Ready(w, TRUE, TRUE, 0)
  BY <1>8, <1>w
<1> QED
  BY <1>9, <1>10, <1>11, <1>12

\* A call that tells the programmer something
LEMMA TellKeeps ==
  ASSUME Types, Types', Good, NEW d \in 1 .. 4, NEW t \in Seq(Steps), Ready(t, TRUE, TRUE, 0),
         Start(t) = "tell", Second(t) = "answer", ~Has(t, {"store"}), NEW ask \in Seq(Act), Plan(t) = ask,
         Begin((IF Pending THEN ExecuteNoFlush(d) \o <<Flush(d)>> ELSE <<>>) \o t, ask),
         got' = Nothing(0), buf' = buf
  PROVE  Good'
<1> DEFINE u == (IF Pending THEN ExecuteNoFlush(d) \o <<Flush(d)>> ELSE <<>>) \o t
           a == 0
<1>0. todo = <<>> /\ Begin(u, ask) /\ a \in Nat /\ got' = Nothing(a) /\ u = u
  BY DEF Begin
<1>u. u = (IF Pending THEN ExecuteNoFlush(d) \o <<Flush(d)>> ELSE <<>>) \o t
  OBVIOUS
<1> HIDE DEF u
<1>1. u \in Seq(Steps) /\ Plan(u) = Plan(t)
  BY <1>0, <1>u, TellBefore
<1>2. \E f, r \in BOOLEAN : Ready(u, f, r, a) /\ (f => buf = <<>>) /\ (r => usage = 0)
  BY <1>0, <1>u, TellBefore
<1>3. Start(u) \in {"pass", "tell"} /\ (Start(u) = "tell" => ops = 0) /\ ~Has(u, {"store"})
  BY <1>0, <1>u, TellBefore
<1> HIDE DEF a
<1>4. PICK f \in BOOLEAN, r \in BOOLEAN : Ready(u, f, r, a) /\ (f => buf' = <<>>) /\ (r => usage = 0)
  BY <1>2
<1>5. Buffer' /\ Collected' = Collected
  BY <1>0, BufferAgain
<1>6. Collected' \o Plan(u) = Collected \o ask
  BY <1>1, <1>5
<1> QED
  BY <1>0, <1>1, <1>3, <1>4, <1>5, <1>6, Begun

LEMMA CallSpiKeeps ==
  ASSUME Types, Types', Good, CallSpi
  PROVE  Good'
<1> DEFINE x == Tell(SpiOp, 1)
           y == Answer(1)
           e == <<>>
           t == <<x, y>>
           ask == <<Did("spi")>>
<1>0. /\ Begin((IF Pending THEN ExecuteNoFlush(1) \o <<Flush(1)>> ELSE <<>>) \o t, ask)
      /\ got' = Nothing(0) /\ buf' = buf
  BY DEF CallSpi
<1>1. x \in Steps /\ y \in Steps /\ x.step = "tell" /\ x.cmd = SpiOp /\ y.step = "answer"
  <2>1. 1 \in 1 .. 4
    OBVIOUS
  <2>2. x \in Steps /\ y \in Steps
    BY <2>1, StepMakers
  <2> QED
    BY <2>2 DEF Tell, Answer
<1>2. Plans(x) = ask /\ ask \in Seq(Act)
  BY <1>1, DidType DEF Plans, Does, SpiOp, Queues
<1> HIDE DEF x, y, ask
<1>3. e \in Seq(Steps) /\ Ready(e, TRUE, TRUE, 0) /\ ~Has(e, {"store"}) /\ Plan(e) = <<>>
      /\ Start(e) \in {"none", "close"} /\ Second(e) = "none"
  <2>1. e \in Seq(Steps) /\ Start(e) \in {"none", "close"} /\ Second(e) = "none"
    BY StartNothing
  <2>2. Plan(e) = <<>> /\ ~Has(e, {"store"})
    BY NoSteps
  <2>3. Ready(e, TRUE, TRUE, 0)
    BY ReadyNothing
  <2> QED
    BY <2>1, <2>2, <2>3
<1>4. t = <<x>> \o (<<y>> \o e)
  <2>1. t \o e = t
    BY <1>1
  <2>2. <<x, y>> \o e = <<x>> \o (<<y>> \o e)
    <3>1. x \in Steps /\ y \in Steps /\ e \in Seq(Steps)
      BY <1>1, <1>3
    <3> HIDE DEF e
    <3> QED
      BY <3>1, ConsTwo
  <2> QED
    BY <2>1, <2>2
<1> HIDE DEF e, t
<1>5. /\ t \in Seq(Steps) /\ Ready(t, TRUE, TRUE, 0) /\ Start(t) = "tell" /\ Second(t) = "answer"
      /\ ~Has(t, {"store"}) /\ Plan(t) = ask
  BY <1>1, <1>2, <1>3, <1>4, TellFirst
<1> DEFINE d == 1
<1>6. d \in 1 .. 4 /\ Begin((IF Pending THEN ExecuteNoFlush(d) \o <<Flush(d)>> ELSE <<>>) \o t, ask)
  BY <1>0
<1> HIDE DEF d
<1> QED
  BY <1>0, <1>2, <1>5, <1>6, TellKeeps

LEMMA CallShutdownKeeps ==
  ASSUME Types, Types', Good, CallShutdown
  PROVE  Good'
<1> DEFINE x == Tell(PinState, 2)
           y == Answer(2)
           z == Close(1)
           n == <<>>
           e == <<z>>
           t == <<x, y, z>>
           ask == <<>>
<1>0. /\ Begin((IF Pending THEN ExecuteNoFlush(3) \o <<Flush(3)>> ELSE <<>>) \o t, ask)
      /\ got' = Nothing(0) /\ buf' = buf
  BY DEF CallShutdown
<1>1. /\ x \in Steps /\ y \in Steps /\ z \in Steps
      /\ x.step = "tell" /\ x.cmd = PinState /\ y.step = "answer" /\ z.step = "close"
  <2>1. 1 \in 1 .. 4 /\ 2 \in 1 .. 4
    OBVIOUS
  <2>2. x \in Steps /\ y \in Steps /\ z \in Steps
    BY <2>1, StepMakers
  <2> QED
    BY <2>2 DEF Tell, Answer, Close
<1>2. Plans(x) = ask /\ ask \in Seq(Act) /\ Plans(z) = <<>>
  BY <1>1 DEF Plans, Does, SpiOp, PinState, Queues
<1> HIDE DEF x, y, z, ask
<1>3. e \in Seq(Steps) /\ Ready(e, TRUE, TRUE, 0) /\ ~Has(e, {"store"}) /\ Plan(e) = <<>>
      /\ Start(e) \in {"none", "close"} /\ Second(e) = "none"
  <2>1. n \in Seq(Steps) /\ e = <<z>> \o n /\ e \in Seq(Steps)
    BY <1>1
  <2>2. ~Has(n, {"store"}) /\ Start(n) = "none" /\ Second(n) = "none" /\ Ready(n, TRUE, TRUE, 0)
    <3>1. ~Has(n, {"store"})
      BY NoSteps
    <3>2. Start(n) = "none" /\ Second(n) = "none"
      BY StartNothing
    <3>3. Ready(n, TRUE, TRUE, 0)
      BY ReadyNothing
    <3> QED
      BY <3>1, <3>2, <3>3
  <2>3. Plan(e) = <<>>
    BY <1>1, <1>2, PlanOne
  <2> HIDE DEF n, e
  <2>4. Start(e) = z.step /\ Second(e) = Start(n)
    BY <1>1, <2>1, StartFront
  <2>5. Has(<<z>> \o n, {"store"}) <=> z.step \in {"store"} \/ Has(n, {"store"})
    BY <1>1, <2>1, HasFront
  <2>6. ~SendsOp(z) /\ ~SendsRead(z) /\ ~SendsExec(z) /\ Quiet(z)
    BY <1>1 DEF SendsOp, SendsRead, SendsExec, Quiet, Settled
  <2>7. Fits(z, n)
    <3>1. n = <<>>
      BY DEF n
    <3> QED
      BY <1>1, <2>2, <2>6, <3>1 DEF Fits
  <2>8. TRUE \in BOOLEAN /\ z.step # "take" /\ z.step # "rest"
    BY <1>1
  <2>9. Ready(<<z>> \o n, TRUE, TRUE, 0)
    BY <1>1, <2>1, <2>2, <2>6, <2>7, <2>8, Put
  <2> QED
    BY <1>1, <2>1, <2>2, <2>3, <2>4, <2>5, <2>9
<1>4. t = <<x>> \o (<<y>> \o e)
  <2>1. <<x, y, z>> \o n = <<x>> \o (<<y>> \o (<<z>> \o n))
    <3>1. x \in Steps /\ y \in Steps /\ z \in Steps /\ n \in Seq(Steps)
      BY <1>1
    <3> HIDE DEF n
    <3> QED
      BY SMTT(30), <3>1, ConsThree
  <2>2. t \o n = t
    BY <1>1
  <2>3. <<z>> \o n = e
    BY <1>1
  <2> QED
    BY <2>1, <2>2, <2>3
<1> HIDE DEF e, t
<1>5. /\ t \in Seq(Steps) /\ Ready(t, TRUE, TRUE, 0) /\ Start(t) = "tell" /\ Second(t) = "answer"
      /\ ~Has(t, {"store"}) /\ Plan(t) = ask
  BY <1>1, <1>2, <1>3, <1>4, TellFirst
<1> DEFINE d == 3
<1>6. d \in 1 .. 4 /\ Begin((IF Pending THEN ExecuteNoFlush(d) \o <<Flush(d)>> ELSE <<>>) \o t, ask)
  BY <1>0
<1> HIDE DEF d
<1> QED
  BY <1>0, <1>2, <1>5, <1>6, TellKeeps

LEMMA BeginsKeeps ==
  ASSUME Types, Types', Good, Begins
  PROVE  Good'
<1>1. PICK c \in Calls :
        \/ c.op = "writeb" /\ CallWriteByte(c.addr, c.val)
        \/ c.op = "readb" /\ CallReadByte(c.addr)
        \/ c.op = "readn" /\ CallReadN(c.addr, c.len)
        \/ c.op = "delay" /\ CallDelay
        \/ c.op = "spi" /\ CallSpi
        \/ c.op = "shutdown" /\ CallShutdown
  BY DEF Begins
<1>2. /\ c.op = "writeb" => c.addr \in Nat /\ c.val \in Value
      /\ c.op = "readb" => c.addr \in Nat
      /\ c.op = "readn" => c.addr \in Nat /\ c.len \in Nat
  <2>1. c \in Call
    BY SerprogAssumption
  <2> QED
    BY <2>1 DEF Call, Addr
<1>3. CASE c.op = "writeb" /\ CallWriteByte(c.addr, c.val)
  BY <1>2, <1>3, CallWriteByteKeeps
<1>4. CASE c.op = "readb" /\ CallReadByte(c.addr)
  BY <1>2, <1>4, CallReadByteKeeps
<1>5. CASE c.op = "readn" /\ CallReadN(c.addr, c.len)
  BY <1>2, <1>5, CallReadNKeeps
<1>6. CASE c.op = "delay" /\ CallDelay
  BY <1>6, CallDelayKeeps
<1>7. CASE c.op = "spi" /\ CallSpi
  BY <1>7, CallSpiKeeps
<1>8. CASE c.op = "shutdown" /\ CallShutdown
  BY <1>8, CallShutdownKeeps
<1> QED
  BY <1>1, <1>3, <1>4, <1>5, <1>6, <1>7, <1>8


-----------------------------------------------------------------------------
(* The invariant is inductive                                              *)

LEMMA InitGood ==
  ASSUME Init
  PROVE  Good
<1>0. /\ limits \in Programmers /\ todo = <<>> /\ open = TRUE /\ buf = <<>> /\ start = 0
      /\ writing = FALSE /\ usage = 0 /\ ops = 0 /\ bytes = 0
      /\ line = <<>> /\ replies = <<>> /\ opbuf = <<>> /\ issued = <<>> /\ done = <<>>
      /\ got.data = <<>> /\ Len(got.data) = 0
  BY DEF Init
<1>t. Types
  BY InitTypes
<1>s. /\ Start(todo) = "none" /\ Plan(todo) = <<>> /\ ~Has(todo, {"store"})
      /\ Len(line) = 0 /\ Len(replies) = 0 /\ Len(buf) = 0
  BY <1>0, StartNothing, NoSteps
<1>l. limits.writeN \in Nat /\ limits.serbuf \in Nat
  BY <1>0, LimitsType
<1>1. Agenda
  BY <1>0, <1>s, ReadyNothing DEF Agenda
<1>2. Buffer
  BY <1>0, <1>l, <1>s DEF Buffer, Longest
<1>3. Wire
  <2>1. Owed = 0
    BY <1>0, <1>s DEF Owed
  <2>2. ~Taking /\ ~Flushing
    BY <1>s DEF Taking, Flushing
  <2>3. 1 .. Len(line) = {} /\ 1 .. 0 = {} /\ 0 + 1 .. Len(replies) = {} /\ 0 \in 0 .. Len(replies)
    BY <1>s
  <2> HIDE DEF Owed, Taking, Flushing
  <2> QED
    BY <1>0, <1>s, <2>1, <2>2, <2>3 DEF Wire
<1>e. opbuf \o line = <<>>
  BY <1>0
<1>4. Account
  <2>1. <<>> \in Seq(Command) /\ Len(<<>>) = 0
    OBVIOUS
  <2> DEFINE q == <<>>
             s == Kept(q)
  <2>2. q \in Seq(Command) /\ Len(q) = 0
    BY <2>1
  <2> HIDE DEF q
  <2>3. s \in Seq(Nat) /\ Len(s) = Len(q)
    BY <2>2, KeptType
  <2> HIDE DEF s
  <2>4. \A i \in 1 .. Len(s) : s[i] = 0
    BY <2>2, <2>3
  <2>5. Total(s) = 0
    BY <2>3, <2>4, TotalNothing
  <2>6. Coming = 0
    BY <1>e, <2>5 DEF Coming, q, s
  <2> QED
    BY <1>0, <1>s, <2>6 DEF Account
<1>5. History
  <2>1. Doings(opbuf \o line) = <<>>
    <3>1. Exec \in Command
      BY SendableCommands DEF Sendable
    <3> QED
      BY <1>e, <3>1, DoingsOne
  <2>2. Collected = <<>>
    BY <1>0, <1>t, HistoryTypes
  <2>3. <<>> \o (<<>> \o (<<>> \o <<>>)) = <<>>
    OBVIOUS
  <2>4. 1 .. Len(got.data) = {}
    BY <1>0
  <2> QED
    BY <1>0, <1>s, <2>1, <2>2, <2>3, <2>4 DEF History
<1>6. Closed
  BY <1>0 DEF Closed
<1> QED
  BY <1>1, <1>2, <1>3, <1>4, <1>5, <1>6 DEF Good

LEMMA InitInv ==
  ASSUME Init
  PROVE  Inv
BY InitTypes, InitGood DEF Inv

\* Once an operation is refused, that stays so
LEMMA RefusedForGood ==
  ASSUME Types, Next, naks' = 0
  PROVE  naks = 0
<1>0. naks \in Nat
  BY DEF Types
<1>1. CASE Begins
  BY <1>1 DEF Begins, CallWriteByte, CallReadByte, CallReadN, CallDelay, CallSpi, CallShutdown, Begin, device
<1>2. CASE Driver
  BY <1>2 DEF Driver, StepPass, StepSend, StepFlush, StepCount, StepCheck, StepStore, StepFull, StepRest,
              StepTake, StepTell, StepAnswer, StepClose, device
<1>3. CASE Programmer
  <2>1. naks' = naks \/ naks' = naks + 1
    BY <1>3 DEF Programmer, DeviceQueues, DeviceExecutes, DeviceReads, DeviceObeys, device
  <2> QED
    BY <1>0, <2>1
<1> QED
  BY <1>1, <1>2, <1>3 DEF Next

LEMMA NextInv ==
  ASSUME Inv, [Next]_vars
  PROVE  Inv'
<1>1. Types /\ Types'
  BY NextTypes DEF Inv
<1>2. CASE UNCHANGED vars
  <2>1. naks' = naks
    BY <1>2 DEF vars, device
  <2>2. ASSUME Good
        PROVE  Good'
    BY <1>2, <2>2 DEF vars, driver, device, history, Good, Agenda, Buffer, Wire, Account, History, Closed,
                      Place, Owed, Taking, Flushing, ReadSent, Coming, Collected, Longest
  <2> QED
    BY <1>1, <2>1, <2>2 DEF Inv
<1>3. CASE Next
  <2>1. SUFFICES ASSUME naks' = 0
                 PROVE  Good'
    BY <1>1 DEF Inv
  <2>2. naks = 0
    BY <1>1, <1>3, <2>1, RefusedForGood
  <2>3. Good
    BY <2>2 DEF Inv
  <2>4. CASE Begins
    BY <1>1, <2>3, <2>4, BeginsKeeps
  <2>5. CASE Driver
    BY <1>1, <2>3, <2>5, StepPassKeeps, StepSendKeeps, StepFlushKeeps, StepCountKeeps, StepCheckKeeps,
       StepStoreKeeps, StepFullKeeps, StepRestKeeps, StepTakeKeeps, StepTellKeeps, StepAnswerKeeps,
       StepCloseKeeps
       DEF Driver
  <2>6. CASE Programmer
    BY <1>1, <2>1, <2>2, <2>3, <2>6, DeviceQueuesKeeps, DeviceExecutesKeeps, DeviceReadsKeeps,
       DeviceObeysKeeps
       DEF Programmer
  <2> QED
    BY <1>3, <2>4, <2>5, <2>6 DEF Next
<1> QED
  BY <1>2, <1>3

LEMMA Invariance ==
  Spec => []Inv
<1>1. Init => Inv
  BY InitInv
<1>2. Inv /\ [Next]_vars => Inv'
  BY NextInv
<1> QED
  BY <1>1, <1>2, PTL DEF Spec

-----------------------------------------------------------------------------
(* What the driver promises                                                *)

\* For every programmer, every variable keeps its type; and as long as no operation is refused a
\* write-n stays within the length the programmer allows, and what the driver has not seen
\* answered within the serial buffer and the two longest commands
\* (sp_stream_buffer_op(), sp_pass_writen(), serprog_chip_writeb()).
THEOREM TypesCorrect == Spec => []TypeOK
<1>1. Inv => TypeOK
  <2> SUFFICES ASSUME Inv
               PROVE  TypeOK
    OBVIOUS
  <2>1. Types
    BY DEF Inv
  <2>2. open \in BOOLEAN /\ writing \in BOOLEAN /\ start \in Addr
    BY <2>1 DEF Types
  <2>3. {usage, ops, bytes, naks, calls} \subseteq Nat
    BY <2>1 DEF Types
  <2>4. \A i \in DOMAIN buf : buf[i] \in Value
    BY <2>1 DEF Types
  <2>5. \A i \in DOMAIN replies : replies[i] \in Value \cup {"ACK", "NAK"}
    BY <2>1 DEF Types, Reply
  <2>6. \A i \in DOMAIN todo : todo[i].depth \in 1 .. 4
    <3>1. \A i \in DOMAIN todo : todo[i] \in Steps
      BY <2>1 DEF Types
    <3> QED
      BY <3>1, StepFields
  <2>7. naks = 0 /\ limits.writeN > 0 => Len(buf) <= limits.writeN
    BY DEF Inv, Good, Buffer
  <2>8. naks = 0 => bytes < limits.serbuf + 2 * Longest
    BY DEF Inv, Good, Buffer
  <2> QED
    BY <2>2, <2>3, <2>4, <2>5, <2>6, <2>7, <2>8 DEF TypeOK
<1> QED
  BY <1>1, Invariance, PTL

LEMMA PrefixOf ==
  ASSUME NEW S, NEW p \in Seq(S), NEW q \in Seq(S)
  PROVE  IsPrefix(p, p \o q)
<1> DEFINE u == p \o q
           n == Len(p)
<1>1. /\ u \in Seq(S) /\ Len(u) = Len(p) + Len(q) /\ Len(q) \in Nat
      /\ \A i \in 1 .. Len(p) : u[i] = p[i]
  BY ConcatElements
<1>2. n \in Nat
  OBVIOUS
<1> HIDE DEF u, n
<1>3. n <= Len(u) /\ n \in 0 .. Len(p) /\ n \in 0 .. Len(u) /\ n = Len(p)
  <2>1. n = Len(p)
    BY DEF n
  <2> QED
    BY <1>1, <1>2, <2>1
<1>4. /\ SubSeq(p, 1, n) \in Seq(S) /\ Len(SubSeq(p, 1, n)) = n
      /\ \A i \in 1 .. n : SubSeq(p, 1, n)[i] = p[i]
  BY <1>3, PrefixIs
<1>5. /\ SubSeq(u, 1, n) \in Seq(S) /\ Len(SubSeq(u, 1, n)) = n
      /\ \A i \in 1 .. n : SubSeq(u, 1, n)[i] = u[i]
  BY <1>1, <1>3, PrefixIs
<1>6. SubSeq(p, 1, n) = SubSeq(u, 1, n)
  <2>1. \A i \in 1 .. n : SubSeq(p, 1, n)[i] = SubSeq(u, 1, n)[i]
    BY <1>1, <1>3, <1>4, <1>5
  <2> QED
    BY <1>4, <1>5, <2>1, SeqEqual
<1> QED
  BY <1>3, <1>6 DEF IsPrefix, u

\* As long as the programmer refuses nothing it does what the calls ask for, in their order,
\* through the write-n buffer, the stream, the serial line and the operation buffer
\* (serprog_chip_writeb(), serprog_delay(), sp_execute_opbuf(), sp_check_opbuf_usage()).
THEOREM OrderIsKept == Spec => []InOrder
<1>1. Inv => InOrder
  <2> SUFFICES ASSUME Inv, naks = 0
               PROVE  IsPrefix(done, issued)
    BY DEF InOrder
  <2>1. Types /\ Good
    BY DEF Inv
  <2> DEFINE d == Doings(opbuf \o line)
             q == Collected \o Plan(todo)
             r == d \o q
  <2>2. d \in Seq(Act) /\ q \in Seq(Act) /\ done \in Seq(Act)
    BY <2>1, HistoryTypes, Joined DEF Types
  <2>3. issued = done \o r
    BY <2>1 DEF Good, History
  <2> HIDE DEF d, q
  <2>4. r \in Seq(Act)
    BY <2>2, Joined
  <2> HIDE DEF r
  <2> QED
    BY <2>2, <2>3, <2>4, PrefixOf
<1> QED
  BY <1>1, Invariance, PTL

\* A read returns what the calls before it have written, although nobody waits for the writes to
\* be answered: what is collected and what is streamed is pushed through first
\* (serprog_chip_readb(), sp_do_read_n(), sp_flush_stream()).
THEOREM ReadsAreLatest == Spec => []ReadsLatest
<1>1. Inv => ReadsLatest
  <2> SUFFICES ASSUME Inv, naks = 0
               PROVE  \A i \in DOMAIN got.data : got.data[i] = Latest(issued, got.addr + i - 1)
    BY DEF ReadsLatest
  <2>1. Types /\ Good
    BY DEF Inv
  <2>2. DOMAIN got.data = 1 .. Len(got.data)
    BY <2>1 DEF Types
  <2> QED
    BY <2>1, <2>2 DEF Good, History
<1> QED
  BY <1>1, Invariance, PTL

\* When the driver has shut down, everything it was asked for has been done and nothing is left
\* on the line or in the operation buffer (serprog_shutdown(), sp_execute_opbuf()).
THEOREM NothingIsLeft == Spec => []NothingLeft
<1>1. Inv => NothingLeft
  <2> SUFFICES ASSUME Inv, ~open, naks = 0
               PROVE  done = issued /\ line = <<>> /\ opbuf = <<>>
    BY DEF NothingLeft
  <2>1. Types /\ Good
    BY DEF Inv
  <2>2. todo = <<>> /\ line = <<>> /\ opbuf = <<>> /\ buf = <<>>
    BY <2>1 DEF Good, Closed
  <2>3. Doings(opbuf \o line) = <<>>
    <3>1. Exec \in Command
      BY SendableCommands DEF Sendable
    <3>2. opbuf \o line = <<>>
      BY <2>2
    <3> QED
      BY <3>1, <3>2, DoingsOne
  <2>4. Collected = <<>> /\ Plan(todo) = <<>> /\ done \in Seq(Act)
    BY <2>1, <2>2, HistoryTypes, NoSteps DEF Types
  <2>5. issued = done \o (Doings(opbuf \o line) \o (Collected \o Plan(todo)))
    BY <2>1 DEF Good, History
  <2>6. <<>> \o (<<>> \o <<>>) = <<>>
    OBVIOUS
  <2> QED
    BY <2>2, <2>3, <2>4, <2>5, <2>6
<1> QED
  BY <1>1, Invariance, PTL

LEMMA AnswersAreOwed ==
  ASSUME Types, Good
  PROVE  Answers = Len(line) + Owed
<1>1. Len(replies) \in Nat /\ Owed \in 0 .. Len(replies) /\ DOMAIN replies = 1 .. Len(replies)
  BY DEF Types, Good, Wire
<1>2. Owed \in Nat
  BY <1>1
<1> DEFINE A == {i \in DOMAIN replies : replies[i] \in {"ACK", "NAK"}}
<1>3. A = 1 .. Owed
  <2>1. \A i \in 1 .. Owed : replies[i] = "ACK"
    BY DEF Good, Wire
  <2>2. \A i \in Owed + 1 .. Len(replies) : replies[i] \in Value
    <3>1. \A i \in Owed + 1 .. Len(replies) : replies[i] = Latest(issued, Place + (i - Owed) - 1)
      BY DEF Good, Wire
    <3>2. \A a : Latest(issued, a) \in Value
      BY LatestType DEF Types
    <3> QED
      BY <3>1, <3>2
  <2>3. \A i \in 1 .. Len(replies) : i \in 1 .. Owed \/ i \in Owed + 1 .. Len(replies)
    BY <1>1, <1>2
  <2>4. \A i \in Owed + 1 .. Len(replies) : replies[i] \notin {"ACK", "NAK"}
    BY <2>2, SerprogAssumption
  <2>5. \A i \in 1 .. Owed : i \in DOMAIN replies
    BY <1>1, <1>2
  <2> HIDE DEF Owed
  <2> QED
    BY <1>1, <2>1, <2>3, <2>4, <2>5
<1>4. Cardinality(1 .. Owed) = Owed
  <2> DEFINE n == Owed
  <2>1. n \in Nat
    BY <1>2
  <2> HIDE DEF n
  <2>2. 1 \in Int /\ n \in Int
    BY <2>1
  <2>3. Cardinality(1 .. n) = IF 1 > n THEN 0 ELSE n - 1 + 1
    BY <2>2, FS_Interval
  <2>4. Cardinality(1 .. n) = n
    BY <2>1, <2>3
  <2> QED
    BY <2>4 DEF n
<1> QED
  BY <1>3, <1>4 DEF Answers

\* As long as no operation is refused, sp_streamed_transmit_ops is the number of answers that are
\* to come, and sp_opbuf_usage is what the operation buffer holds and is about to get
\* (sp_stream_buffer_op(), sp_flush_stream(), sp_pass_writen(), sp_check_opbuf_usage()).
THEOREM AccountsAgree == Spec => []InStep
<1>1. Inv => InStep
  <2> SUFFICES ASSUME Inv, naks = 0
               PROVE  /\ Answers = ops + (IF At("answer") THEN 1 ELSE 0)
                      /\ ~At("count") => usage = Coming
    BY DEF InStep
  <2>1. Types /\ Good
    BY DEF Inv
  <2>2. ASSUME NEW kind \in {"answer", "count"}
        PROVE  At(kind) <=> Start(todo) = kind
    <3>1. CASE todo = <<>>
      BY <3>1 DEF At, Start
    <3>2. CASE todo # <<>>
      <4>1. Now = todo[1]
        BY <2>1, <3>2, Running DEF Types
      <4> QED
        BY <3>2, <4>1 DEF At, Start
    <3> QED
      BY <3>1, <3>2
  <2>3. Answers = ops + (IF At("answer") THEN 1 ELSE 0)
    <3>1. Answers = Len(line) + Owed
      BY <2>1, AnswersAreOwed
    <3>2. Owed = ops + (IF At("answer") THEN 1 ELSE 0) - Len(line)
      BY <2>2 DEF Owed
    <3>3. ops \in Nat /\ Len(line) \in Nat
      BY <2>1, Lengths DEF Types
    <3> QED
      BY <3>1, <3>2, <3>3
  <2>4. ~At("count") => usage = Coming
    <3>1. Start(todo) # "count" => Coming = usage + 0
      BY <2>1 DEF Good, Account
    <3>2. usage \in Nat
      BY <2>1 DEF Types
    <3> QED
      BY <2>2, <3>1, <3>2
  <2> QED
    BY <2>3, <2>4
<1> QED
  BY <1>1, Invariance, PTL

=============================================================================
