-------------------------- MODULE Ch341aUsbProofs --------------------------
(***************************************************************************)
(* Proofs about Ch341aUsb, for rings and packets of any size: what         *)
(* usb_transfer() leaves behind when it returns, and what it has read when *)
(* it returns success.                                                     *)
(*                                                                         *)
(* Bytes are counted by the places in the buffer: a transfer owns the      *)
(* places its buffer has until the driver has collected it, no place has   *)
(* two owners, and the bytes in in_done and the owned places together are  *)
(* at most as many as there are behind in_buf.                             *)
(***************************************************************************)
EXTENDS Ch341aUsb, SequenceLemmas, FiniteSetTheorems, SequenceTheorems, TLAPS

-----------------------------------------------------------------------------
(* The inductive invariant                                                 *)

UsbStates == {"none", "flying", "canceling", "ended"}
OnBus(t) == usb[t] \in {"flying", "canceling"}
ResultsUpTo(len) == {Cancelled, Failed} \cup {Completed(n) : n \in 0 .. len}
Result == {Cancelled, Failed} \cup {Completed(n) : n \in Nat}
EndOf(t) == xfer[t].pos + xfer[t].len

CallTypes ==
  /\ pc \in PCs /\ ret \in {-1, 0}
  /\ req.write \in Nat \ {0} /\ req.read \in Nat
  /\ faults \in Nat /\ calls \in Nat /\ lost \in BOOLEAN /\ failed \in BOOLEAN

RingTypes ==
  /\ state \in [Transfers -> Int]
  /\ \A t \in Transfers : state[t] \in ACTIVE .. xfer[t].len
  /\ freeIdx \in In /\ inIdx \in In
  /\ inDone \in Nat /\ inActive \in Int /\ outDone \in Nat /\ inBuf \in Nat
  /\ inDone + inActive = inBuf

BusTypes ==
  /\ usb \in [Transfers -> UsbStates]
  /\ xfer \in [Transfers -> [pos : Nat, len : Nat, call : Nat]]
  /\ \A t \in Transfers : xfer[t].call <= calls
  /\ reply \in Seq(Nat \X Nat)
  /\ readarr \in Seq(Nat \X Nat) /\ Len(readarr) = req.read

\* What is on the bus, and what has ended, is there once
QueueTypes ==
  /\ queue \in Seq(In)
  /\ \A t \in In : OnBus(t) <=> \E i \in 1 .. Len(queue) : queue[i] = t
  /\ \A i, j \in 1 .. Len(queue) : queue[i] = queue[j] => i = j

EventTypes ==
  /\ events \in Seq([t : Transfers, result : Result])
  /\ \A i \in 1 .. Len(events) : events[i].result \in ResultsUpTo(xfer[events[i].t].len)
  /\ \A t \in Transfers : usb[t] = "ended" <=> \E i \in 1 .. Len(events) : events[i].t = t
  /\ \A i, j \in 1 .. Len(events) : events[i].t = events[j].t => i = j

Types == CallTypes /\ RingTypes /\ BusTypes /\ QueueTypes /\ EventTypes

\* No transfer of this call reaches past the end of the buffer
Bounded ==
  /\ pc = "out" => \A t \in Transfers : xfer[t].call < calls
  /\ Looping =>
       /\ inBuf <= req.read
       /\ \A t \in In : usb[t] # "none" /\ xfer[t].call = calls => EndOf(t) <= inBuf

\* As long as no transfer was given up, those that libusb holds are waited for
Awaited ==
  ~lost =>
    /\ pc \in {"idle", "out"} => \A t \in Transfers : usb[t] = "none"
    /\ \A t \in Transfers : usb[t] # "none" => state[t] = ACTIVE /\ t \in Pending
    /\ Looping => \A t \in Transfers : usb[t] # "none" => usb[t] # "canceling" /\ xfer[t].call = calls
    /\ pc = "cancel" => \A t \in Transfers : usb[t] # "canceling"
    /\ usb[Out] # "none" /\ Looping => outDone = 0

\* The places in the buffer that are owned by transfers
Uncollected == {t \in In : state[t] # IDLE}
Places(t) == xfer[t].pos + 1 .. EndOf(t)
Owned == UNION {Places(t) : t \in Uncollected}

Accounted ==
  ~lost =>
    /\ inActive >= 0
    /\ Looping =>
         /\ \A t \in Uncollected : xfer[t].len > 0 /\ EndOf(t) <= inBuf
         /\ \A s, t \in Uncollected : s # t => Places(s) \cap Places(t) = {}
         /\ inDone + Cardinality(Owned) <= inBuf

\* Until a transfer ends short, each gets the part of the answer that it is for
Exact ==
  /\ inDone + Cardinality(Owned) = inBuf
  /\ \A t \in Uncollected : state[t] \in {ACTIVE, xfer[t].len}
  /\ \A i \in 1 .. Len(events) : events[i].t # Out => events[i].result = Completed(xfer[events[i].t].len)

Arrived == IF queue = <<>> THEN inBuf ELSE xfer[queue[1]].pos
Delivered ==
  /\ \A i \in 1 .. Len(reply) : reply[i] = <<calls, Arrived + i>>
  /\ Len(reply) + Arrived <= req.read
  /\ \A i \in 1 .. Arrived : readarr[i] = <<calls, i>>
  /\ \A i \in 1 .. Len(queue) :
       EndOf(queue[i]) = IF i = Len(queue) THEN inBuf ELSE xfer[queue[i + 1]].pos

Ordered ==
  ~failed =>
    /\ lost => pc = "wait"
    /\ Looping /\ Exact => Delivered
    /\ pc \in {"idle", "out"} => reply = <<>>
    /\ pc = "idle" /\ calls > 0 => \A i \in 1 .. Len(readarr) : ret = 0 => readarr[i] = <<calls, i>>

IInv == Types /\ Bounded /\ Awaited /\ Accounted /\ Ordered

-----------------------------------------------------------------------------
(* What the operators do                                                   *)

LEMMA MaxWithZero ==
  ASSUME NEW a \in Nat
  PROVE  Max({a, 0}) = a
<1> DEFINE P(m) == m \in {a, 0} /\ \A y \in {a, 0} : m >= y
<1>1. P(a)
  OBVIOUS
<1>2. P(CHOOSE m : P(m))
  BY <1>1
<1>3. Max({a, 0}) = CHOOSE m : P(m)
  BY DEF Max
<1> QED
  BY <1>2, <1>3

LEMMA InFacts ==
  /\ In \subseteq Transfers /\ Out \in Transfers /\ Out \notin In
  /\ Transfers = In \cup {Out} /\ 0 \in In
BY UsbAssumption DEF In, Out, Transfers

LEMMA NextInRing ==
  ASSUME NEW i \in In
  PROVE  NextIdx(i) \in In /\ (i + 1) % Slots \in In
BY UsbAssumption DEF NextIdx, In

\* What callbacks make of results
LEMMA Results ==
  /\ \A n \in Nat : ResultState(Completed(n)) = n
  /\ ResultState(Cancelled) = IDLE /\ ResultState(Failed) = ERR
  /\ Cancelled # Failed /\ \A n : Completed(n) # Cancelled /\ Completed(n) # Failed
  /\ \A m, n : Completed(m) = Completed(n) => m = n
<1>1. /\ Cancelled # Failed /\ \A n : Completed(n) # Cancelled /\ Completed(n) # Failed
  BY DEF Cancelled, Failed, Completed
<1>2. \A m, n : Completed(m) = Completed(n) => m = n
  BY DEF Completed
<1>3. \A n \in Nat : Completed(n).len = n
  BY DEF Completed
<1> QED
  BY <1>1, <1>2, <1>3 DEF ResultState

LEMMA ResultRange ==
  ASSUME BusTypes, NEW t \in Transfers, NEW r \in ResultsUpTo(xfer[t].len)
  PROVE  ResultState(r) \in ERR .. xfer[t].len
<1>1. xfer[t].len \in Nat
  BY DEF BusTypes
<1>2. CASE r \in {Cancelled, Failed}
  BY <1>1, <1>2, Results DEF IDLE, ERR
<1>3. CASE \E n \in 0 .. xfer[t].len : r = Completed(n)
  BY <1>1, <1>3, Results DEF ERR
<1> QED
  BY <1>2, <1>3 DEF ResultsUpTo

\* The end of a transfer
LEMMA EndEffect ==
  ASSUME Types, NEW t \in Transfers, OnBus(t), NEW r \in ResultsUpTo(xfer[t].len), End(t, r), xfer' = xfer
  PROVE  /\ QueueTypes' /\ EventTypes'
         /\ usb' \in [Transfers -> UsbStates]
         /\ \A u \in Transfers : usb'[u] = IF u = t THEN "ended" ELSE usb[u]
         /\ Len(events') = Len(events) + 1 /\ events'[Len(events) + 1] = [t |-> t, result |-> r]
         /\ \A i \in 1 .. Len(events) : events'[i] = events[i]
         /\ t = Out => queue' = queue
         /\ t # Out /\ queue[1] = t =>
              /\ Len(queue') = Len(queue) - 1
              /\ \A i \in 1 .. Len(queue') : queue'[i] = queue[i + 1]
<1> USE DEF Types
<1>1. /\ usb' \in [Transfers -> UsbStates]
      /\ \A u \in Transfers : usb'[u] = IF u = t THEN "ended" ELSE usb[u]
  BY DEF End, BusTypes, UsbStates
<1>3. r \in Result
  BY DEF ResultsUpTo, Result, BusTypes
<1>4. /\ events' \in Seq([t : Transfers, result : Result])
      /\ Len(events') = Len(events) + 1 /\ events'[Len(events) + 1] = [t |-> t, result |-> r]
      /\ \A i \in 1 .. Len(events) : events'[i] = events[i]
  <2>1. events \in Seq([t : Transfers, result : Result]) /\ [t |-> t, result |-> r] \in [t : Transfers, result : Result]
    BY <1>3 DEF EventTypes
  <2> QED
    BY <2>1, AppendProperties DEF End
<1>5. Len(events) \in Nat /\ \A i \in 1 .. Len(events) : events[i].t # t
  BY DEF EventTypes, OnBus
<1>6. EventTypes'
  <2>1. \A i \in 1 .. Len(events') : i \in 1 .. Len(events) \/ i = Len(events) + 1
    BY <1>4, <1>5
  <2>2. \A i \in 1 .. Len(events') : events'[i].result \in ResultsUpTo(xfer'[events'[i].t].len)
    BY <1>4, <1>5, <2>1 DEF EventTypes
  <2>3. \A u \in Transfers : usb'[u] = "ended" <=> \E i \in 1 .. Len(events') : events'[i].t = u
    <3> TAKE u \in Transfers
    <3>1. CASE u = t
      <4>1. Len(events) + 1 \in 1 .. Len(events') /\ events'[Len(events) + 1].t = t
        BY <1>4, <1>5
      <4> QED
        BY <1>1, <3>1, <4>1
    <3>2. CASE u # t
      <4>1. usb'[u] = "ended" <=> \E i \in 1 .. Len(events) : events[i].t = u
        BY <1>1, <3>2 DEF EventTypes
      <4>2. ASSUME NEW i \in 1 .. Len(events), events[i].t = u
            PROVE  i \in 1 .. Len(events') /\ events'[i].t = u
        BY <1>4, <1>5, <4>2
      <4>3. ASSUME NEW i \in 1 .. Len(events'), events'[i].t = u
            PROVE  i \in 1 .. Len(events) /\ events[i].t = u
        BY <1>4, <2>1, <3>2, <4>3
      <4> QED
        BY <4>1, <4>2, <4>3
    <3> QED
      BY <3>1, <3>2
  <2>4. \A i, j \in 1 .. Len(events') : events'[i].t = events'[j].t => i = j
    BY <1>4, <1>5, <2>1 DEF EventTypes
  <2> QED
    BY <1>4, <2>2, <2>3, <2>4 DEF EventTypes
<1>7. CASE t = Out
  <2>1. queue' = queue /\ \A u \in In : OnBus(u)' <=> OnBus(u)
    BY <1>1, <1>7, InFacts DEF End, OnBus
  <2> QED
    BY <1>1, <1>4, <1>6, <1>7, <2>1 DEF QueueTypes
<1>8. CASE t # Out
  <2>1. PICK k \in DOMAIN queue : queue[k] = t /\ queue' = RemoveAt(queue, k)
    BY <1>8 DEF End
  <2> DEFINE a == SubSeq(queue, 1, k - 1)
             b == SubSeq(queue, k + 1, Len(queue))
  <2>2. queue \in Seq(In) /\ Len(queue) \in Nat /\ k \in 1 .. Len(queue)
    BY DEF QueueTypes
  <2>3. \A i \in 1 .. Len(queue) : queue[i] \in In
    BY <2>2
  <2>4. a \in Seq(In) /\ Len(a) = k - 1 /\ \A i \in 1 .. k - 1 : a[i] = queue[i]
    <3>1. 1 \in Int /\ k - 1 \in Int /\ \A i \in 1 .. k - 1 : queue[i] \in In
      BY <2>2, <2>3
    <3> QED
      BY <2>2, <3>1, SubSeqProperties
  <2>5. b \in Seq(In) /\ Len(b) = Len(queue) - k /\ \A i \in 1 .. Len(queue) - k : b[i] = queue[k + i]
    <3>1. k + 1 \in Int /\ Len(queue) \in Int /\ \A i \in k + 1 .. Len(queue) : queue[i] \in In
      BY <2>2, <2>3
    <3>2. /\ b \in Seq(In)
          /\ Len(b) = IF k + 1 <= Len(queue) THEN Len(queue) - (k + 1) + 1 ELSE 0
          /\ \A i \in 1 .. Len(queue) - (k + 1) + 1 : b[i] = queue[k + 1 + i - 1]
      BY <3>1, SubSeqProperties
    <3> QED
      BY <2>2, <3>2
  <2>6. queue' = a \o b
    BY <2>1 DEF RemoveAt
  <2> HIDE DEF a, b
  <2>7. /\ queue' \in Seq(In) /\ Len(queue') = Len(queue) - 1
        /\ \A i \in 1 .. Len(queue) - 1 : queue'[i] = IF i < k THEN queue[i] ELSE queue[i + 1]
    BY SMTT(30), <2>2, <2>4, <2>5, <2>6, ConcatProperties
  <2>8. \A i, j \in 1 .. Len(queue) : queue[i] = queue[j] => i = j
    BY DEF QueueTypes
  <2>9. \A i \in 1 .. Len(queue) - 1 : queue'[i] # t
    BY <2>1, <2>2, <2>7, <2>8
  <2>10. \A j \in 1 .. Len(queue) : j # k => \E i \in 1 .. Len(queue) - 1 : queue'[i] = queue[j]
    <3> TAKE j \in 1 .. Len(queue)
    <3> HAVE j # k
    <3>1. CASE j < k
      BY <2>2, <2>7, <3>1
    <3>2. CASE j > k
      <4>1. j - 1 \in 1 .. Len(queue) - 1 /\ queue'[j - 1] = queue[j]
        BY <2>2, <2>7, <3>2
      <4> QED
        BY <4>1
    <3> QED
      BY <2>2, <3>1, <3>2
  <2>11. \A u \in In : OnBus(u)' <=> OnBus(u) /\ u # t
    BY <1>1, InFacts DEF OnBus
  <2>12. \A u \in In : OnBus(u)' <=> \E i \in 1 .. Len(queue') : queue'[i] = u
    <3> TAKE u \in In
    <3>1. ASSUME NEW i \in 1 .. Len(queue'), queue'[i] = u
          PROVE  OnBus(u)'
      BY <2>2, <2>7, <2>9, <2>11, <3>1 DEF QueueTypes
    <3>2. ASSUME OnBus(u)'
          PROVE  \E i \in 1 .. Len(queue') : queue'[i] = u
      <4>1. PICK j \in 1 .. Len(queue) : queue[j] = u /\ u # t
        BY <2>11, <3>2 DEF QueueTypes
      <4> QED
        BY <2>1, <2>7, <2>10, <4>1
    <3> QED
      BY <3>1, <3>2
  <2>13. \A i, j \in 1 .. Len(queue') : queue'[i] = queue'[j] => i = j
    BY <2>2, <2>7, <2>8
  <2>14. queue[1] = t => k = 1
    BY <2>1, <2>2, <2>8
  <2> QED
    BY <1>1, <1>4, <1>6, <1>8, <2>2, <2>7, <2>12, <2>13, <2>14 DEF QueueTypes
<1> QED
  BY <1>7, <1>8

\* What the callback of an ended transfer does
Ran(j) ==
  /\ usb'[events[j].t] = "none"
  /\ \/ state'[events[j].t] = ResultState(events[j].result)
     \/ xfer[events[j].t].call # calls /\ state'[events[j].t] = state[events[j].t]

\* The callbacks of the first transfers that have ended
LEMMA HandleEffect ==
  ASSUME Types, HandleEvents, xfer' = xfer, queue' = queue
  PROVE  /\ QueueTypes' /\ EventTypes'
         /\ usb' \in [Transfers -> UsbStates] /\ state' \in [Transfers -> Int]
         /\ \E n \in 0 .. Len(events) :
              /\ Len(events') = Len(events) - n
              /\ \A i \in 1 .. Len(events) - n : events'[i] = events[n + i]
              /\ \A j \in 1 .. n : Ran(j)
              /\ \A t \in Transfers : \/ \E j \in 1 .. n : events[j].t = t
                                      \/ usb'[t] = usb[t] /\ state'[t] = state[t]
<1> USE DEF Types
<1>a. events \in Seq([t : Transfers, result : Result]) /\ Len(events) \in Nat
  BY DEF EventTypes
<1>b. \A i \in 1 .. Len(events) : events[i] \in [t : Transfers, result : Result]
  BY <1>a, ElementOfSeq
<1>c. \A i \in 1 .. Len(events) : events[i].t \in Transfers
  BY <1>b
<1>0. /\ events \in Seq([t : Transfers, result : Result]) /\ Len(events) \in Nat
      /\ \A i \in 1 .. Len(events) : events[i] \in [t : Transfers, result : Result]
      /\ \A i \in 1 .. Len(events) :
           events[i].t \in Transfers /\ events[i].result \in ResultsUpTo(xfer[events[i].t].len)
      /\ \A i, j \in 1 .. Len(events) : events[i].t = events[j].t => i = j
  BY <1>a, <1>b, <1>c DEF EventTypes
<1>1. CASE events = <<>>
  <2>1. UNCHANGED <<state, usb, events>> /\ Len(events) = 0
    BY <1>1 DEF HandleEvents
  <2>2. QueueTypes' /\ EventTypes'
    BY <2>1 DEF QueueTypes, EventTypes, OnBus
  <2>3. /\ 0 \in 0 .. Len(events)
        /\ Len(events') = Len(events) - 0
        /\ \A i \in 1 .. Len(events) - 0 : events'[i] = events[0 + i]
        /\ \A j \in 1 .. 0 : Ran(j)
        /\ \A t \in Transfers : usb'[t] = usb[t] /\ state'[t] = state[t]
    BY <2>1
  <2>4. usb' \in [Transfers -> UsbStates] /\ state' \in [Transfers -> Int]
    BY <2>1 DEF BusTypes, RingTypes
  <2> QED
    BY <2>2, <2>3, <2>4
<1>2. CASE events # <<>>
  <2> DEFINE hit(n, t) == {i \in {i \in 1 .. n : TRUE} : events[i].t = t}
             landed(n, t) == ResultState(events[Max(hit(n, t))].result)
  <2>1. PICK n \in 1 .. Len(events) :
          /\ \E stray \in SUBSET {t \in Transfers : xfer[t].call # calls} :
               state' = [t \in Transfers |->
                           IF hit(n, t) # {} /\ t \notin stray THEN landed(n, t) ELSE state[t]]
          /\ usb' = [t \in Transfers |-> IF hit(n, t) # {} THEN "none" ELSE usb[t]]
          /\ events' = SubSeq(events, n + 1, Len(events))
    BY <1>2 DEF HandleEvents
  <2>2. PICK stray \in SUBSET {t \in Transfers : xfer[t].call # calls} :
          state' = [t \in Transfers |->
                      IF hit(n, t) # {} /\ t \notin stray THEN landed(n, t) ELSE state[t]]
    BY <2>1
  <2>3. /\ events' \in Seq([t : Transfers, result : Result]) /\ Len(events') = Len(events) - n
        /\ \A i \in 1 .. Len(events) - n : events'[i] = events[n + i]
    <3>1. n + 1 \in Int /\ Len(events) \in Int
          /\ \A i \in n + 1 .. Len(events) : events[i] \in [t : Transfers, result : Result]
      BY <1>0
    <3>2. /\ events' \in Seq([t : Transfers, result : Result])
          /\ Len(events') = IF n + 1 <= Len(events) THEN Len(events) - (n + 1) + 1 ELSE 0
          /\ \A i \in 1 .. Len(events) - (n + 1) + 1 : events'[i] = events[n + 1 + i - 1]
      BY <2>1, <3>1, SubSeqProperties
    <3> QED
      BY <1>0, <3>2
  <2>4. ASSUME NEW j \in 1 .. n
        PROVE  hit(n, events[j].t) = {j} /\ landed(n, events[j].t) = ResultState(events[j].result)
    <3>1. j \in 1 .. Len(events) /\ \A i \in 1 .. n : i \in 1 .. Len(events)
      BY <1>0
    <3>2. hit(n, events[j].t) = {j}
      BY <1>0, <3>1
    <3>3. Max({j}) = j
      BY MaxOne
    <3> QED
      BY <3>2, <3>3
  <2>5. ASSUME NEW t \in Transfers
        PROVE  hit(n, t) # {} => \E j \in 1 .. n : events[j].t = t
    OBVIOUS
  <2> HIDE DEF hit, landed
  <2>6. \A t \in Transfers : /\ usb'[t] = IF hit(n, t) # {} THEN "none" ELSE usb[t]
                             /\ state'[t] = IF hit(n, t) # {} /\ t \notin stray THEN landed(n, t) ELSE state[t]
    BY <2>1, <2>2
  <2>7. \A j \in 1 .. n : Ran(j)
    <3> TAKE j \in 1 .. n
    <3>1. /\ events[j].t \in Transfers /\ hit(n, events[j].t) # {}
          /\ landed(n, events[j].t) = ResultState(events[j].result)
      <4>1. j \in 1 .. Len(events)
        BY <1>0
      <4>2. hit(n, events[j].t) = {j} /\ landed(n, events[j].t) = ResultState(events[j].result)
        BY <2>4
      <4> QED
        BY <1>0, <4>1, <4>2
    <3> QED
      BY <2>2, <2>6, <3>1 DEF Ran
  <2>8. \A t \in Transfers : \/ \E j \in 1 .. n : events[j].t = t
                             \/ usb'[t] = usb[t] /\ state'[t] = state[t]
    BY <2>5, <2>6
  <2>9. ASSUME NEW t \in Transfers
        PROVE  state'[t] \in Int
    <3>1. CASE \E j \in 1 .. n : events[j].t = t
      <4>1. PICK j \in 1 .. n : events[j].t = t
        BY <3>1
      <4>2. j \in 1 .. Len(events) /\ xfer[t].len \in Nat
        BY <1>0 DEF BusTypes
      <4>3. ResultState(events[j].result) \in ERR .. xfer[t].len
        BY <1>0, <4>1, <4>2, ResultRange
      <4>4. ResultState(events[j].result) \in Int
        BY <4>2, <4>3 DEF ERR
      <4> QED
        BY <2>7, <4>1, <4>4 DEF Ran, RingTypes
    <3> QED
      BY <2>8, <3>1 DEF RingTypes
  <2>10. state' \in [Transfers -> Int]
    BY <2>2, <2>9
  <2>11. usb' \in [Transfers -> UsbStates]
    BY <2>1 DEF BusTypes, UsbStates
  <2>12. \A j \in 1 .. n : usb[events[j].t] = "ended" /\ usb'[events[j].t] = "none"
    BY <1>0, <2>7 DEF Ran, EventTypes
  <2>13. QueueTypes'
    <3>1. \A t \in In : OnBus(t)' <=> OnBus(t)
      BY <2>8, <2>12, InFacts DEF OnBus
    <3> QED
      BY <3>1 DEF QueueTypes
  <2>14. EventTypes'
    <3>1. \A i \in 1 .. Len(events') : n + i \in 1 .. Len(events) /\ events'[i] = events[n + i]
      BY <1>0, <2>3
    <3>2. \A i \in 1 .. Len(events') : events'[i].result \in ResultsUpTo(xfer'[events'[i].t].len)
      BY <1>0, <3>1
    <3>3. \A i, j \in 1 .. Len(events') : events'[i].t = events'[j].t => i = j
      <4> TAKE i, j \in 1 .. Len(events')
      <4>1. events'[i].t = events'[j].t => n + i = n + j
        BY SMTT(30), <1>0, <3>1
      <4> QED
        BY <4>1
    <3>4. ASSUME NEW t \in Transfers
          PROVE  usb'[t] = "ended" <=> \E i \in 1 .. Len(events') : events'[i].t = t
      <4>1. ASSUME NEW i \in 1 .. Len(events'), events'[i].t = t
            PROVE  usb'[t] = "ended"
        <5>1. events[n + i].t = t /\ usb[t] = "ended" /\ n + i \in 1 .. Len(events)
          BY <3>1, <4>1 DEF EventTypes
        <5>2. ~ \E j \in 1 .. n : events[j].t = t
          BY <1>0, <5>1
        <5> QED
          BY <2>8, <5>1, <5>2
      <4>2. ASSUME usb'[t] = "ended"
            PROVE  \E i \in 1 .. Len(events') : events'[i].t = t
        <5>1. usb[t] = "ended" /\ ~ \E j \in 1 .. n : events[j].t = t
          BY <2>8, <2>12, <4>2
        <5>2. PICK k \in 1 .. Len(events) : events[k].t = t
          BY <5>1 DEF EventTypes
        <5>3. k > n
          BY <1>0, <5>1, <5>2
        <5>4. k - n \in 1 .. Len(events') /\ events'[k - n] = events[k]
          BY <1>0, <2>3, <5>2, <5>3
        <5> QED
          BY <5>2, <5>4
      <4> QED
        BY <4>1, <4>2
    <3> QED
      BY <2>3, <3>2, <3>3, <3>4 DEF EventTypes
  <2>15. n \in 0 .. Len(events)
    BY <1>0
  <2> QED
    BY <2>3, <2>7, <2>8, <2>10, <2>11, <2>13, <2>14, <2>15
<1> QED
  BY <1>1, <1>2

\* The two parts of a sequence
LEMMA CutSeq ==
  ASSUME NEW S, NEW s \in Seq(S), NEW m \in 0 .. Len(s)
  PROVE  /\ SubSeq(s, m + 1, Len(s)) \in Seq(S) /\ Len(SubSeq(s, m + 1, Len(s))) = Len(s) - m
         /\ \A i \in 1 .. Len(s) - m : SubSeq(s, m + 1, Len(s))[i] = s[m + i]
         /\ SubSeq(s, 1, m) \in Seq(S) /\ Len(SubSeq(s, 1, m)) = m
         /\ \A i \in 1 .. m : SubSeq(s, 1, m)[i] = s[i]
<1>1. Len(s) \in Nat /\ m \in Int /\ m + 1 \in Int /\ Len(s) \in Int
  BY LenProperties
<1>2. (\A i \in m + 1 .. Len(s) : s[i] \in S) /\ (\A i \in 1 .. m : s[i] \in S)
  BY <1>1, ElementOfSeq
<1> DEFINE a == SubSeq(s, m + 1, Len(s))
           b == SubSeq(s, 1, m)
<1>3. /\ a \in Seq(S) /\ Len(a) = IF m + 1 <= Len(s) THEN Len(s) - (m + 1) + 1 ELSE 0
      /\ \A i \in 1 .. Len(s) - (m + 1) + 1 : a[i] = s[m + 1 + i - 1]
  BY <1>1, <1>2, SubSeqProperties
<1>4. /\ b \in Seq(S) /\ Len(b) = IF 1 <= m THEN m - 1 + 1 ELSE 0
      /\ \A i \in 1 .. m - 1 + 1 : b[i] = s[1 + i - 1]
  BY <1>1, <1>2, SubSeqProperties
<1> HIDE DEF a, b
<1>5. Len(a) = Len(s) - m /\ \A i \in 1 .. Len(s) - m : a[i] = s[m + i]
  BY <1>1, <1>3
<1>6. Len(b) = m /\ \A i \in 1 .. m : b[i] = s[i]
  BY <1>1, <1>4
<1> QED
  BY <1>3, <1>4, <1>5, <1>6 DEF a, b

LEMMA TodoRange ==
  ASSUME CallTypes, RingTypes, inDone + inActive < req.read
  PROVE  Todo \in Nat \ {0} /\ inBuf + Todo <= req.read
<1> DEFINE left == req.read - inDone - inActive
<1>1. left \in Int /\ left >= 1 /\ inBuf + left = req.read
  BY DEF CallTypes, RingTypes
<1> HIDE DEF left
<1>2. Packet \in Int /\ Packet >= 1
  BY UsbAssumption
<1>3. Todo = IF Packet <= left THEN Packet ELSE left
  BY <1>1, <1>2, MinPair DEF Todo, left
<1> QED
  BY <1>1, <1>2, <1>3 DEF RingTypes

\* What ends a transfer
DeviceEnds(t, r) ==
  /\ OnBus(t) /\ r \in ResultsUpTo(xfer[t].len) /\ End(t, r)
  /\ \/ /\ t \in In /\ queue # <<>> /\ queue[1] = t
        /\ \E n \in 0 .. Len(reply) :
             /\ r = Completed(n) /\ reply' = SubSeq(reply, n + 1, Len(reply))
             /\ readarr' = [i \in DOMAIN readarr |->
                  IF i - xfer[t].pos \in 1 .. n /\ xfer[t].call = calls
                    THEN reply[i - xfer[t].pos] ELSE readarr[i]]
     \/ /\ t \in In /\ UNCHANGED <<reply, readarr>>
        /\ \/ r = Failed /\ queue[1] = t
           \/ r = Cancelled /\ usb[t] = "canceling"
     \/ /\ t = Out /\ UNCHANGED readarr
        /\ \E n \in 0 .. Len(reply) : reply' = SubSeq(reply, 1, n)

LEMMA DeviceCases ==
  ASSUME Types, Device
  PROVE  /\ UNCHANGED <<pc, req, state, ring, ret, xfer, history>>
         /\ faults' \in Nat
         /\ \E t \in Transfers : \E r : DeviceEnds(t, r)
<1> USE DEF Types
<1>1. faults' \in Nat
  BY DEF Device, OutEnds, InEnds, Fails, Cancels, Fault, CallTypes
<1>2. UNCHANGED <<pc, req, state, ring, ret, xfer, history>>
  BY DEF Device, OutEnds, InEnds, Fails, Cancels
<1>3. \A t \in Transfers : xfer[t].len \in Nat
  BY DEF BusTypes
<1>4. reply \in Seq(Nat \X Nat) /\ Len(reply) \in Nat /\ reply = SubSeq(reply, 1, Len(reply))
  BY SubSeqFull DEF BusTypes
<1>5. \A t \in Transfers : {Cancelled, Failed, Completed(xfer[t].len)} \subseteq ResultsUpTo(xfer[t].len)
  BY <1>3 DEF ResultsUpTo
<1>6. queue # <<>> => Head(queue) = queue[1] /\ queue[1] \in In /\ OnBus(queue[1])
  <2> SUFFICES ASSUME queue # <<>>
               PROVE  Head(queue) = queue[1] /\ queue[1] \in In /\ OnBus(queue[1])
    OBVIOUS
  <2>1. queue \in Seq(In) /\ Len(queue) \in Nat \ {0}
    BY EmptySeq DEF QueueTypes
  <2>2. 1 \in 1 .. Len(queue) /\ queue[1] \in In
    BY <2>1
  <2> QED
    BY <2>1, <2>2 DEF QueueTypes
<1>7. CASE OutEnds
  <2>1. Out \in Transfers /\ OnBus(Out) /\ End(Out, Completed(xfer[Out].len)) /\ UNCHANGED <<reply, readarr>>
    BY <1>7, InFacts DEF OutEnds, OnBus
  <2>2. Completed(xfer[Out].len) \in ResultsUpTo(xfer[Out].len)
    BY <1>5, InFacts
  <2>3. \E n \in 0 .. Len(reply) : reply' = SubSeq(reply, 1, n)
    <3>1. Len(reply) \in 0 .. Len(reply) /\ reply' = SubSeq(reply, 1, Len(reply))
      BY <1>4, <2>1
    <3> QED
      BY <3>1
  <2>4. DeviceEnds(Out, Completed(xfer[Out].len))
    BY <2>1, <2>2, <2>3 DEF DeviceEnds
  <2> QED
    BY <1>1, <1>2, <2>1, <2>4
<1>8. CASE InEnds
  <2> DEFINE t == Head(queue)
             full == Min({xfer[t].len, Len(reply)})
  <2>1. queue # <<>> /\ t \in In /\ t \in Transfers /\ OnBus(t) /\ queue[1] = t
    BY <1>6, <1>8, InFacts DEF InEnds
  <2>2. full = IF xfer[t].len <= Len(reply) THEN xfer[t].len ELSE Len(reply)
    <3>1. xfer[t].len \in Int /\ Len(reply) \in Int
      BY <1>3, <1>4, <2>1
    <3> HIDE DEF t
    <3> QED
      BY <3>1, MinPair
  <2>3. PICK n \in 0 .. full :
          /\ End(t, Completed(n))
          /\ reply' = SubSeq(reply, n + 1, Len(reply))
          /\ readarr' = [i \in DOMAIN readarr |->
                IF i - xfer[t].pos \in 1 .. n /\ xfer[t].call = calls
                  THEN reply[i - xfer[t].pos] ELSE readarr[i]]
    BY <1>8 DEF InEnds
  <2> HIDE DEF full
  <2>4. n \in 0 .. Len(reply) /\ n \in 0 .. xfer[t].len
    BY <1>3, <1>4, <2>1, <2>2
  <2>5. Completed(n) \in ResultsUpTo(xfer[t].len)
    BY <2>4 DEF ResultsUpTo
  <2> QED
    BY <1>1, <1>2, <2>1, <2>3, <2>4, <2>5 DEF DeviceEnds
<1>9. ASSUME NEW t \in Transfers, Fails(t)
      PROVE  DeviceEnds(t, Failed)
  <2>1. OnBus(t) /\ Failed \in ResultsUpTo(xfer[t].len) /\ End(t, Failed) /\ UNCHANGED readarr
    BY <1>5, <1>9 DEF Fails, OnBus
  <2>2. CASE t = Out
    BY <1>4, <1>9, <2>1, <2>2 DEF Fails, DeviceEnds
  <2>3. CASE t # Out
    <3>1. t \in In /\ Head(queue) = t /\ UNCHANGED reply
      BY <1>9, <2>3, InFacts DEF Fails
    <3>2. queue # <<>>
      BY <2>1, <3>1 DEF QueueTypes
    <3> QED
      BY <1>6, <2>1, <3>1, <3>2 DEF DeviceEnds
  <2> QED
    BY <2>2, <2>3
<1>10. ASSUME NEW t \in Transfers, Cancels(t)
       PROVE  DeviceEnds(t, Cancelled)
  <2>1. /\ OnBus(t) /\ Cancelled \in ResultsUpTo(xfer[t].len) /\ End(t, Cancelled)
        /\ UNCHANGED readarr /\ usb[t] = "canceling"
    BY <1>5, <1>10 DEF Cancels, OnBus
  <2>2. CASE t = Out
    BY <1>4, <1>10, <2>1, <2>2 DEF Cancels, DeviceEnds
  <2>3. CASE t # Out
    BY <1>10, <2>1, <2>3, InFacts DEF Cancels, DeviceEnds
  <2> QED
    BY <2>2, <2>3
<1> QED
  BY <1>1, <1>2, <1>7, <1>8, <1>9, <1>10 DEF Device

-----------------------------------------------------------------------------
(* Types                                                                   *)

LEMMA InitTypes == Init => Types
<1> SUFFICES ASSUME Init
             PROVE  Types
  OBVIOUS
<1>1. CallTypes
  <2>1. req.write = 1 /\ req.read = 0 /\ pc \in PCs /\ ret \in {-1, 0}
    BY DEF Init, PCs
  <2>2. lost \in BOOLEAN /\ failed \in BOOLEAN
    BY DEF Init
  <2> QED
    BY <2>1, <2>2 DEF Init, CallTypes
<1>2. RingTypes
  BY InFacts DEF Init, RingTypes, IDLE, ACTIVE
<1>3. BusTypes
  BY EmptySeq DEF Init, BusTypes, UsbStates
<1>4. QueueTypes /\ EventTypes
  <2>1. queue \in Seq(In) /\ events \in Seq([t : Transfers, result : Result]) /\ Len(queue) = 0 /\ Len(events) = 0
    BY EmptySeq DEF Init
  <2>2. \A t \in Transfers : usb[t] = "none"
    BY DEF Init
  <2> QED
    BY <2>1, <2>2, InFacts DEF QueueTypes, EventTypes, OnBus
<1> QED
  BY <1>1, <1>2, <1>3, <1>4 DEF Types

LEMMA CallTypesStep == Types /\ [Next]_vars => CallTypes'
<1> SUFFICES ASSUME Types, [Next]_vars
             PROVE  CallTypes'
  OBVIOUS
<1> USE DEF Types, CallTypes
<1>1. ASSUME NEW r \in Requests, Call(r)
      PROVE  CallTypes'
  BY <1>1, UsbAssumption DEF Call, PCs
<1>2. CASE SubmitOut
  BY <1>2 DEF SubmitOut, Refused, Fault, history, PCs
<1>3. CASE Schedule
  BY <1>3 DEF Schedule, Refused, Fault, history, PCs
<1>4. CASE Handle
  BY <1>4 DEF Handle, history, PCs
<1>5. CASE CollectOut \/ CollectIn
  BY <1>5 DEF CollectOut, CollectIn, history, PCs
<1>6. CASE Cancel
  <2>1. pc' = "wait" /\ UNCHANGED <<req, ret, calls, failed>>
    BY <1>6 DEF Cancel
  <2>2. UNCHANGED <<faults, lost>> \/ (Fault /\ lost' = TRUE)
    BY <1>6 DEF Cancel
  <2>3. faults' \in Nat
    BY <2>2 DEF Fault
  <2>4. lost' \in BOOLEAN
    BY <2>2
  <2> QED
    BY <2>1, <2>3, <2>4 DEF PCs
<1>7. CASE Wait
  BY <1>7 DEF Wait, PCs
<1>8. CASE Device
  BY <1>8, DeviceCases DEF history
<1>9. CASE UNCHANGED vars
  BY <1>9 DEF vars, history
<1> QED
  BY <1>1, <1>2, <1>3, <1>4, <1>5, <1>6, <1>7, <1>8, <1>9 DEF Next, Driver

\* The effect of callbacks on the driver's variables
LEMMA HandleRing ==
  ASSUME Types, HandleEvents, UNCHANGED <<xfer, queue, ring>>
  PROVE  RingTypes'
<1> USE DEF Types
<1>1. PICK n \in 0 .. Len(events) :
        /\ \A j \in 1 .. n : Ran(j)
        /\ \A t \in Transfers : \/ \E j \in 1 .. n : events[j].t = t
                                \/ usb'[t] = usb[t] /\ state'[t] = state[t]
  BY HandleEffect
<1>2. state' \in [Transfers -> Int]
  BY HandleEffect
<1>3. ASSUME NEW t \in Transfers
      PROVE  state'[t] \in ACTIVE .. xfer[t].len
  <2>1. xfer[t].len \in Nat /\ state[t] \in ACTIVE .. xfer[t].len
    BY DEF BusTypes, RingTypes
  <2>2. CASE \E j \in 1 .. n : events[j].t = t
    <3>1. PICK j \in 1 .. n : events[j].t = t
      BY <2>2
    <3>2. Len(events) \in Nat /\ j \in 1 .. Len(events)
      BY DEF EventTypes
    <3>3. ResultState(events[j].result) \in ERR .. xfer[t].len
      BY <3>1, <3>2, ResultRange DEF EventTypes
    <3>4. \A x \in ERR .. xfer[t].len : x \in ACTIVE .. xfer[t].len
      BY <2>1 DEF ERR, ACTIVE
    <3> QED
      BY <1>1, <2>1, <3>1, <3>3, <3>4 DEF Ran
  <2> QED
    BY <1>1, <2>1, <2>2
<1> QED
  BY <1>2, <1>3 DEF RingTypes, ring

LEMMA RingTypesStep == Types /\ [Next]_vars => RingTypes'
<1> SUFFICES ASSUME Types, [Next]_vars
             PROVE  RingTypes'
  OBVIOUS
<1>a. /\ \A t \in Transfers : state[t] \in ACTIVE .. xfer[t].len
      /\ \A t \in Transfers : xfer[t].len \in Nat
      /\ req.write \in Nat \ {0} /\ req.read \in Nat
  BY DEF Types, CallTypes, RingTypes, BusTypes
<1>b. ACTIVE = -2 /\ ERR = -1 /\ IDLE = 0
  BY DEF ACTIVE, ERR, IDLE
<1>1. ASSUME NEW r \in Requests, Call(r)
      PROVE  RingTypes'
  BY <1>1 DEF Call, ring, Types, RingTypes
<1>2. CASE SubmitOut
  <2>1. CASE Submitted(Out, 0, req.write) /\ state' = [t \in Transfers |-> IF t = Out THEN ACTIVE ELSE IDLE]
             /\ freeIdx' = 0 /\ inIdx' = 0 /\ inDone' = 0 /\ inActive' = 0 /\ outDone' = 0 /\ inBuf' = 0
    <3>1. \A t \in Transfers : xfer'[t].len \in Nat
      BY <1>a, <2>1, InFacts DEF Submitted, Types, BusTypes
    <3>2. state' \in [Transfers -> Int] /\ \A t \in Transfers : state'[t] \in ACTIVE .. xfer'[t].len
      BY <1>b, <2>1, <3>1
    <3> QED
      BY <2>1, <3>2, InFacts DEF RingTypes
  <2>2. CASE \E junk \in {ACTIVE, ERR, IDLE} :
               state' = [t \in Transfers |-> IF t = Out THEN ERR ELSE junk] /\ UNCHANGED <<ring, xfer>>
    BY <1>a, <1>b, <2>2 DEF RingTypes, Types, ring
  <2> QED
    BY <1>2, <2>1, <2>2 DEF SubmitOut
<1>3. CASE Schedule
  <2>1. CASE UNCHANGED <<state, ring, xfer>>
    BY <2>1 DEF ring, Types, RingTypes
  <2>2. CASE /\ inDone + inActive < req.read
             /\ Submitted(freeIdx, inBuf, Todo)
             /\ inBuf' = inBuf + Todo /\ inActive' = inActive + Todo
             /\ state' = [state EXCEPT ![freeIdx] = ACTIVE]
             /\ freeIdx' = (freeIdx + 1) % Slots
             /\ UNCHANGED <<inIdx, inDone, outDone>>
    <3>1. Todo \in Nat \ {0}
      BY <2>2, TodoRange DEF Types
    <3>2. freeIdx \in In /\ freeIdx \in Transfers
      BY InFacts DEF Types, RingTypes
    <3>3. \A t \in Transfers : xfer'[t].len = IF t = freeIdx THEN Todo ELSE xfer[t].len
      BY <2>2, <3>2 DEF Submitted, Types, BusTypes
    <3>4. state' \in [Transfers -> Int] /\ \A t \in Transfers : state'[t] \in ACTIVE .. xfer'[t].len
      BY <1>a, <1>b, <2>2, <3>1, <3>2, <3>3 DEF Types, RingTypes
    <3> QED
      BY <2>2, <3>1, <3>2, <3>4, NextInRing DEF Types, RingTypes
  <2>3. CASE state' = [state EXCEPT ![freeIdx] = ERR] /\ UNCHANGED <<ring, xfer>>
    <3>1. freeIdx \in Transfers /\ state \in [Transfers -> Int]
      BY InFacts DEF Types, RingTypes
    <3>2. state' \in [Transfers -> Int] /\ \A t \in Transfers : state'[t] \in ACTIVE .. xfer'[t].len
      BY <1>a, <1>b, <2>3, <3>1
    <3> QED
      BY <2>3, <3>2 DEF Types, RingTypes, ring
  <2> QED
    BY <1>3, <2>1, <2>2, <2>3 DEF Schedule
<1>4. CASE Handle
  BY <1>4, HandleRing DEF Handle
<1>5. CASE CollectOut
  <2>1. UNCHANGED <<freeIdx, inIdx, inDone, inActive, inBuf, xfer>>
    BY <1>5 DEF CollectOut, bus
  <2>2. \/ UNCHANGED <<outDone, state>>
        \/ state[Out] > 0 /\ outDone' = outDone + state[Out] /\ state' = [state EXCEPT ![Out] = IDLE]
    BY <1>5 DEF CollectOut
  <2> QED
    BY <1>a, <1>b, <2>1, <2>2, InFacts DEF Types, RingTypes
<1>6. CASE CollectIn
  <2>1. UNCHANGED <<freeIdx, outDone, inBuf, xfer>>
    BY <1>6 DEF CollectIn, bus
  <2>2. \/ UNCHANGED <<state, inIdx, inDone, inActive>>
        \/ /\ state[inIdx] \notin {IDLE, ACTIVE, ERR}
           /\ inDone' = inDone + state[inIdx] /\ inActive' = inActive - state[inIdx]
           /\ state' = [state EXCEPT ![inIdx] = IDLE]
           /\ inIdx' = NextIdx(inIdx)
    BY <1>6 DEF CollectIn
  <2>3. inIdx \in In /\ inIdx \in Transfers
    BY InFacts DEF Types, RingTypes
  <2>4. state[inIdx] \notin {IDLE, ACTIVE, ERR} => state[inIdx] \in Nat
    BY <1>a, <1>b, <2>3
  <2> QED
    BY <1>a, <1>b, <2>1, <2>2, <2>3, <2>4, NextInRing DEF Types, RingTypes
<1>7. CASE Cancel
  <2>1. UNCHANGED <<ring, xfer>> /\ \E fails : state' = [t \in Transfers |-> IF t \in fails THEN ERR ELSE state[t]]
    BY <1>7 DEF Cancel
  <2> QED
    BY <1>a, <1>b, <2>1 DEF Types, RingTypes, ring
<1>8. CASE Wait
  <2>1. CASE UNCHANGED <<state, ring, xfer>>
    BY <2>1 DEF ring, Types, RingTypes
  <2> QED
    BY <1>8, <2>1, HandleRing DEF Wait
<1>9. CASE Device
  BY <1>9, DeviceCases DEF Types, RingTypes, ring
<1>10. CASE UNCHANGED vars
  BY <1>10 DEF vars, bus, ring, Types, RingTypes
<1> QED
  BY <1>1, <1>2, <1>3, <1>4, <1>5, <1>6, <1>7, <1>8, <1>9, <1>10 DEF Next, Driver

LEMMA SubmittedFacts ==
  ASSUME Types, NEW t \in Transfers, NEW p \in Nat, NEW n \in Nat, Submitted(t, p, n)
  PROVE  /\ usb' \in [Transfers -> UsbStates]
         /\ xfer' \in [Transfers -> [pos : Nat, len : Nat, call : Nat]]
         /\ \A u \in Transfers : usb'[u] = IF u = t THEN "flying" ELSE usb[u]
         /\ \A u \in Transfers : u # t => xfer'[u] = xfer[u]
         /\ xfer'[t].pos = p /\ xfer'[t].len = n /\ xfer'[t].call = calls
         /\ usb[t] = "none"
BY DEF Submitted, Types, BusTypes, CallTypes, UsbStates

LEMMA BusTypesStep == Types /\ [Next]_vars => BusTypes'
<1> SUFFICES ASSUME Types, [Next]_vars
             PROVE  BusTypes'
  OBVIOUS
<1>0. /\ usb \in [Transfers -> UsbStates]
      /\ xfer \in [Transfers -> [pos : Nat, len : Nat, call : Nat]]
      /\ \A t \in Transfers : xfer[t].call <= calls
      /\ reply \in Seq(Nat \X Nat) /\ Len(reply) \in Nat
      /\ readarr \in Seq(Nat \X Nat) /\ Len(readarr) = req.read
      /\ calls \in Nat /\ req.read \in Nat /\ req.write \in Nat
  BY DEF Types, BusTypes, CallTypes
<1>1. ASSUME NEW r \in Requests, Call(r)
      PROVE  BusTypes'
  <2>1. r.read \in Nat /\ readarr' \in [1 .. r.read -> Nat \X Nat]
    BY <1>1, UsbAssumption DEF Call
  <2>2. readarr' \in Seq(Nat \X Nat) /\ Len(readarr') = r.read
    BY <2>1, FunSeq
  <2>3. calls' = calls + 1 /\ req' = r /\ UNCHANGED <<usb, xfer, reply>>
    BY <1>1 DEF Call
  <2> QED
    BY <1>0, <2>1, <2>2, <2>3 DEF BusTypes
<1>2. CASE SubmitOut
  <2>1. UNCHANGED <<req, calls, readarr>>
    BY <1>2 DEF SubmitOut, history
  <2>2. CASE Submitted(Out, 0, req.write) /\ reply' = reply \o [i \in 1 .. req.read |-> <<calls, i>>]
    <3> DEFINE answer == [i \in 1 .. req.read |-> <<calls, i>>]
    <3>1. answer \in Seq(Nat \X Nat)
      <4>1. answer \in [1 .. req.read -> Nat \X Nat]
        BY <1>0
      <4> QED
        BY <1>0, <4>1, FunSeq
    <3>2. reply' \in Seq(Nat \X Nat)
      BY <1>0, <2>2, <3>1, ConcatProperties
    <3>3. Out \in Transfers /\ 0 \in Nat
      BY InFacts
    <3> QED
      <4>1. \A u \in Transfers : xfer'[u].call <= calls
        <5> TAKE u \in Transfers
        <5>1. xfer'[Out].call = calls /\ (u # Out => xfer'[u] = xfer[u])
          BY <1>0, <2>2, <3>3, SubmittedFacts
        <5> QED
          BY <1>0, <5>1
      <4>2. usb' \in [Transfers -> UsbStates] /\ xfer' \in [Transfers -> [pos : Nat, len : Nat, call : Nat]]
        BY <1>0, <2>2, <3>3, SubmittedFacts
      <4> QED
        BY <1>0, <2>1, <3>2, <4>1, <4>2 DEF BusTypes
  <2>3. CASE UNCHANGED <<usb, xfer, reply>>
    BY <1>0, <2>1, <2>3 DEF BusTypes
  <2> QED
    BY <1>2, <2>2, <2>3 DEF SubmitOut
<1>3. CASE Schedule
  <2>1. UNCHANGED <<req, calls, reply, readarr>>
    BY <1>3 DEF Schedule, history
  <2>2. CASE inDone + inActive < req.read /\ Submitted(freeIdx, inBuf, Todo)
    <3>1. freeIdx \in Transfers /\ inBuf \in Nat /\ Todo \in Nat
      BY <2>2, TodoRange, InFacts DEF Types, RingTypes
    <3> QED
      <4>1. \A u \in Transfers : xfer'[u].call <= calls
        <5> TAKE u \in Transfers
        <5>1. xfer'[freeIdx].call = calls /\ (u # freeIdx => xfer'[u] = xfer[u])
          BY <1>0, <2>2, <3>1, SubmittedFacts
        <5> QED
          BY <1>0, <5>1
      <4>2. usb' \in [Transfers -> UsbStates] /\ xfer' \in [Transfers -> [pos : Nat, len : Nat, call : Nat]]
        BY <2>2, <3>1, SubmittedFacts
      <4> QED
        BY <1>0, <2>1, <4>1, <4>2 DEF BusTypes
  <2>3. CASE UNCHANGED <<usb, xfer>>
    BY <1>0, <2>1, <2>3 DEF BusTypes
  <2> QED
    BY <1>3, <2>2, <2>3 DEF Schedule
<1>4. CASE Handle
  BY <1>0, <1>4, HandleEffect DEF Handle, BusTypes, history
<1>5. CASE CollectOut \/ CollectIn
  BY <1>0, <1>5 DEF CollectOut, CollectIn, BusTypes, history, bus
<1>6. CASE Cancel
  <2>1. UNCHANGED <<req, xfer, reply, readarr, calls>>
    BY <1>6 DEF Cancel
  <2>2. \E asked : usb' = [t \in Transfers |-> IF t \in asked /\ usb[t] = "flying" THEN "canceling" ELSE usb[t]]
    BY <1>6 DEF Cancel
  <2>3. usb' \in [Transfers -> UsbStates]
    BY <1>0, <2>2 DEF UsbStates
  <2> QED
    BY <1>0, <2>1, <2>3 DEF BusTypes
<1>7. CASE Wait
  <2>1. UNCHANGED <<req, xfer, queue, reply, readarr, calls>>
    BY <1>7 DEF Wait
  <2>2. CASE HandleEvents
    BY <1>0, <2>1, <2>2, HandleEffect DEF BusTypes
  <2>3. CASE UNCHANGED usb
    BY <1>0, <2>1, <2>3 DEF BusTypes
  <2> QED
    BY <1>7, <2>2, <2>3 DEF Wait
<1>8. CASE Device
  <2>1. UNCHANGED <<req, xfer, calls>>
    BY <1>8, DeviceCases DEF history
  <2>2. PICK t \in Transfers : \E r : DeviceEnds(t, r)
    BY <1>8, DeviceCases
  <2>3. PICK r : DeviceEnds(t, r)
    BY <2>2
  <2>4. usb' \in [Transfers -> UsbStates]
    BY <2>1, <2>3, EndEffect DEF DeviceEnds
  <2>5. reply' \in Seq(Nat \X Nat)
    <3>1. \A n \in 0 .. Len(reply) : /\ SubSeq(reply, n + 1, Len(reply)) \in Seq(Nat \X Nat)
                                     /\ SubSeq(reply, 1, n) \in Seq(Nat \X Nat)
      BY <1>0, CutSeq
    <3>2. \/ reply' = reply
          \/ \E n \in 0 .. Len(reply) : reply' = SubSeq(reply, n + 1, Len(reply))
          \/ \E n \in 0 .. Len(reply) : reply' = SubSeq(reply, 1, n)
      BY <2>3 DEF DeviceEnds
    <3> QED
      BY <1>0, <3>1, <3>2
  <2>6. readarr' \in Seq(Nat \X Nat) /\ Len(readarr') = req.read
    <3>1. CASE UNCHANGED readarr
      BY <1>0, <3>1
    <3>2. ASSUME NEW n \in 0 .. Len(reply),
                 readarr' = [i \in DOMAIN readarr |->
                   IF i - xfer[t].pos \in 1 .. n /\ xfer[t].call = calls
                     THEN reply[i - xfer[t].pos] ELSE readarr[i]]
          PROVE  readarr' \in Seq(Nat \X Nat) /\ Len(readarr') = req.read
      <4>1. DOMAIN readarr = 1 .. req.read
        BY <1>0, LenProperties
      <4>2. \A k \in 1 .. n : reply[k] \in Nat \X Nat
        <5> TAKE k \in 1 .. n
        <5>1. k \in 1 .. Len(reply)
          BY <1>0
        <5> QED
          BY <1>0, <5>1, ElementOfSeq
      <4>3. \A i \in 1 .. req.read : readarr[i] \in Nat \X Nat
        BY <1>0, ElementOfSeq
      <4>4. readarr' \in [1 .. req.read -> Nat \X Nat]
        BY <3>2, <4>1, <4>2, <4>3
      <4> QED
        BY <1>0, <4>4, FunSeq
    <3> QED
      BY <2>3, <3>1, <3>2 DEF DeviceEnds
  <2> QED
    BY <1>0, <2>1, <2>4, <2>5, <2>6 DEF BusTypes
<1>9. CASE UNCHANGED vars
  BY <1>0, <1>9 DEF vars, bus, history, BusTypes
<1> QED
  BY <1>1, <1>2, <1>3, <1>4, <1>5, <1>6, <1>7, <1>8, <1>9 DEF Next, Driver

LEMMA QueueTypesStep == Types /\ [Next]_vars => QueueTypes' /\ EventTypes'
<1> SUFFICES ASSUME Types, [Next]_vars
             PROVE  QueueTypes' /\ EventTypes'
  OBVIOUS
<1>a. ASSUME UNCHANGED <<usb, xfer, queue, events>>
      PROVE  QueueTypes' /\ EventTypes'
  BY SMTT(30), <1>a DEF Types, QueueTypes, EventTypes, OnBus
<1>b. Len(events) \in Nat /\ Len(queue) \in Nat /\ \A i \in 1 .. Len(events) : events[i].t \in Transfers
  <2>1. events \in Seq([t : Transfers, result : Result])
    BY DEF Types, EventTypes
  <2>2. \A i \in 1 .. Len(events) : events[i] \in [t : Transfers, result : Result]
    BY <2>1, ElementOfSeq
  <2> QED
    BY <2>1, <2>2 DEF Types, QueueTypes
<1>c. ASSUME NEW t \in Transfers, NEW p \in Nat, NEW n \in Nat, Submitted(t, p, n), UNCHANGED events
      PROVE  EventTypes'
  <2>1. \A i \in 1 .. Len(events) : events[i].t # t
    BY <1>c, SubmittedFacts DEF Types, EventTypes
  <2>2. \A i \in 1 .. Len(events) : xfer'[events[i].t] = xfer[events[i].t]
    BY <1>b, <1>c, <2>1, SubmittedFacts
  <2>3. \A i \in 1 .. Len(events) : events[i].result \in ResultsUpTo(xfer'[events[i].t].len)
    BY <2>2 DEF Types, EventTypes
  <2>4. \A u \in Transfers : usb'[u] = "ended" <=> \E i \in 1 .. Len(events) : events[i].t = u
    <3>1. \A u \in Transfers : usb'[u] = IF u = t THEN "flying" ELSE usb[u]
      BY <1>c, SubmittedFacts
    <3> QED
      BY <2>1, <3>1 DEF Types, EventTypes
  <2> QED
    BY <1>c, <2>3, <2>4 DEF Types, EventTypes
<1>1. ASSUME NEW r \in Requests, Call(r)
      PROVE  QueueTypes' /\ EventTypes'
  BY <1>1, <1>a DEF Call
<1>2. CASE SubmitOut
  <2>1. CASE Submitted(Out, 0, req.write) /\ UNCHANGED <<queue, events>>
    <3>1. Out \in Transfers /\ 0 \in Nat /\ req.write \in Nat
      BY InFacts DEF Types, CallTypes
    <3>2. \A u \in In : OnBus(u)' <=> OnBus(u)
      <4>1. \A u \in In : u \in Transfers /\ u # Out
        BY InFacts
      <4>2. \A u \in Transfers : usb'[u] = IF u = Out THEN "flying" ELSE usb[u]
        BY <2>1, <3>1, SubmittedFacts
      <4> QED
        BY <4>1, <4>2 DEF OnBus
    <3> QED
      BY <1>c, <2>1, <3>1, <3>2 DEF Types, QueueTypes
  <2> QED
    BY <1>2, <1>a, <2>1 DEF SubmitOut
<1>3. CASE Schedule
  <2>1. CASE /\ inDone + inActive < req.read /\ Submitted(freeIdx, inBuf, Todo)
             /\ queue' = Append(queue, freeIdx) /\ UNCHANGED events
    <3>1. freeIdx \in In /\ freeIdx \in Transfers /\ inBuf \in Nat /\ Todo \in Nat
      BY <2>1, TodoRange, InFacts DEF Types, RingTypes
    <3>2. EventTypes'
      BY <1>c, <2>1, <3>1
    <3>3. \A u \in In : OnBus(u)' <=> OnBus(u) \/ u = freeIdx
      BY <2>1, <3>1, InFacts, SubmittedFacts DEF OnBus
    <3>4. \A i \in 1 .. Len(queue) : queue[i] # freeIdx
      BY <2>1, <3>1, SubmittedFacts DEF Types, QueueTypes, OnBus
    <3>5. queue \in Seq(In)
      BY DEF Types, QueueTypes
    <3>6. /\ queue' \in Seq(In) /\ Len(queue') = Len(queue) + 1 /\ queue'[Len(queue) + 1] = freeIdx
          /\ \A i \in 1 .. Len(queue) : queue'[i] = queue[i]
      BY <2>1, <3>1, <3>5, AppendProperties
    <3>7. \A i \in 1 .. Len(queue') : i \in 1 .. Len(queue) \/ i = Len(queue) + 1
      BY <1>b, <3>6
    <3>8. Len(queue) + 1 \in 1 .. Len(queue') /\ \A i \in 1 .. Len(queue) : i \in 1 .. Len(queue')
      BY <1>b, <3>6
    <3>9. \A u \in In : OnBus(u)' <=> \E i \in 1 .. Len(queue') : queue'[i] = u
      BY <3>3, <3>6, <3>7, <3>8 DEF Types, QueueTypes
    <3>10. \A i, j \in 1 .. Len(queue') : queue'[i] = queue'[j] => i = j
      BY <3>4, <3>6, <3>7 DEF Types, QueueTypes
    <3> QED
      BY <3>2, <3>6, <3>9, <3>10 DEF QueueTypes
  <2> QED
    BY <1>3, <1>a, <2>1 DEF Schedule
<1>4. CASE Handle
  BY <1>4, HandleEffect DEF Handle
<1>5. CASE CollectOut \/ CollectIn
  BY <1>5, <1>a DEF CollectOut, CollectIn, bus
<1>6. CASE Cancel
  <2>1. UNCHANGED <<xfer, queue, events>>
    BY <1>6 DEF Cancel
  <2>2. PICK asked : usb' = [t \in Transfers |-> IF t \in asked /\ usb[t] = "flying" THEN "canceling" ELSE usb[t]]
    BY <1>6 DEF Cancel
  <2>3. \A t \in Transfers : (OnBus(t)' <=> OnBus(t)) /\ (usb'[t] = "ended" <=> usb[t] = "ended")
    BY <2>2 DEF OnBus
  <2> QED
    BY <2>1, <2>3, InFacts DEF Types, QueueTypes, EventTypes
<1>7. CASE Wait
  BY <1>7, <1>a, HandleEffect DEF Wait
<1>8. CASE Device
  <2>1. PICK t \in Transfers : \E r : DeviceEnds(t, r)
    BY <1>8, DeviceCases
  <2>2. PICK r : DeviceEnds(t, r)
    BY <2>1
  <2>3. xfer' = xfer
    BY <1>8, DeviceCases
  <2> QED
    BY <2>2, <2>3, EndEffect DEF DeviceEnds
<1>9. CASE UNCHANGED vars
  BY <1>9, <1>a DEF vars, bus
<1> QED
  BY <1>1, <1>2, <1>3, <1>4, <1>5, <1>6, <1>7, <1>8, <1>9 DEF Next, Driver

LEMMA TypesStep == Types /\ [Next]_vars => Types'
BY CallTypesStep, RingTypesStep, BusTypesStep, QueueTypesStep DEF Types

-----------------------------------------------------------------------------
(* The end of the buffer, and transfers in flight                          *)

\* Steps that start nothing
LEMMA OtherSteps ==
  ASSUME Types, Handle \/ CollectOut \/ CollectIn \/ Cancel \/ Wait \/ Device \/ UNCHANGED vars
  PROVE  /\ UNCHANGED <<xfer, calls, req, inBuf>>
         /\ \A t \in Transfers : usb'[t] # "none" => usb[t] # "none"
         /\ Looping' => Looping
         /\ pc' # "out"  \/ pc = "out"
<1>a. ASSUME HandleEvents, xfer' = xfer, queue' = queue
      PROVE  \A t \in Transfers : usb'[t] # "none" => usb[t] # "none"
  <2>1. PICK n \in 0 .. Len(events) :
          /\ \A j \in 1 .. n : Ran(j)
          /\ \A t \in Transfers : \/ \E j \in 1 .. n : events[j].t = t
                                  \/ usb'[t] = usb[t] /\ state'[t] = state[t]
    BY <1>a, HandleEffect
  <2> QED
    BY <2>1 DEF Ran
<1>1. CASE Handle
  BY <1>1, <1>a DEF Handle, Looping, ring, history
<1>2. CASE CollectOut \/ CollectIn
  BY <1>2 DEF CollectOut, CollectIn, Looping, bus, history
<1>3. CASE Cancel
  <2>1. UNCHANGED <<xfer, calls, req, inBuf>> /\ pc' = "wait"
    BY <1>3 DEF Cancel, ring
  <2>2. PICK asked : usb' = [t \in Transfers |-> IF t \in asked /\ usb[t] = "flying" THEN "canceling" ELSE usb[t]]
    BY <1>3 DEF Cancel
  <2> QED
    BY <2>1, <2>2 DEF Looping
<1>4. CASE Wait
  BY <1>4, <1>a DEF Wait, Looping, ring
<1>5. CASE Device
  <2>1. UNCHANGED <<pc, req, xfer, calls, inBuf>>
    BY <1>5, DeviceCases DEF ring, history
  <2>2. PICK t \in Transfers : \E r : DeviceEnds(t, r)
    BY <1>5, DeviceCases
  <2>3. PICK r : DeviceEnds(t, r)
    BY <2>2
  <2>4. \A u \in Transfers : usb'[u] = IF u = t THEN "ended" ELSE usb[u]
    BY <2>1, <2>3, EndEffect DEF DeviceEnds
  <2> QED
    BY <2>1, <2>3, <2>4 DEF Looping, DeviceEnds, OnBus
<1>6. CASE UNCHANGED vars
  BY <1>6 DEF vars, bus, ring, history, Looping
<1> QED
  BY <1>1, <1>2, <1>3, <1>4, <1>5, <1>6

LEMMA InitBounded == Init => Bounded
BY DEF Init, Bounded, Looping

LEMMA BoundedStep == Types /\ Bounded /\ [Next]_vars => Bounded'
<1> SUFFICES ASSUME Types, Bounded, [Next]_vars
             PROVE  Bounded'
  OBVIOUS
<1>0. /\ \A t \in Transfers : xfer[t].call <= calls /\ xfer[t].call \in Nat
      /\ calls \in Nat /\ req.read \in Nat /\ inBuf \in Nat
  BY DEF Types, BusTypes, CallTypes, RingTypes
<1>1. ASSUME NEW r \in Requests, Call(r)
      PROVE  Bounded'
  BY <1>0, <1>1 DEF Call, Bounded, Looping
<1>2. CASE SubmitOut
  <2>1. \A t \in Transfers : xfer[t].call < calls
    BY <1>2 DEF SubmitOut, Bounded
  <2>2. pc' = "cancel" => Bounded'
    BY DEF Bounded, Looping
  <2>3. CASE pc' = "schedule" /\ Submitted(Out, 0, req.write) /\ inBuf' = 0 /\ UNCHANGED <<req, calls>>
    <3>1. \A t \in In : xfer'[t] = xfer[t]
      BY <2>3, InFacts, SubmittedFacts DEF Types, CallTypes
    <3> QED
      BY <1>0, <2>1, <2>3, <3>1, InFacts DEF Bounded, Looping
  <2> QED
    BY <1>2, <2>2, <2>3 DEF SubmitOut, history
<1>3. CASE Schedule
  <2>1. UNCHANGED <<req, calls>> /\ pc = "schedule" /\ Looping
    BY <1>3 DEF Schedule, history, Looping
  <2>2. CASE /\ inDone + inActive < req.read /\ Submitted(freeIdx, inBuf, Todo)
             /\ inBuf' = inBuf + Todo
    <3>1. freeIdx \in In /\ freeIdx \in Transfers /\ Todo \in Nat \ {0} /\ inBuf + Todo <= req.read
      BY <2>2, TodoRange, InFacts DEF Types, RingTypes
    <3>2. ASSUME NEW t \in In, usb'[t] # "none", xfer'[t].call = calls
          PROVE  EndOf(t)' <= inBuf'
      <4>1. CASE t = freeIdx
        BY <1>0, <2>2, <3>1, <4>1, SubmittedFacts DEF EndOf
      <4>2. CASE t # freeIdx
        <5>1. usb'[t] = usb[t] /\ xfer'[t] = xfer[t]
          <6>1. t \in Transfers
            BY InFacts
          <6>2. \A u \in Transfers : usb'[u] = IF u = freeIdx THEN "flying" ELSE usb[u]
            BY <1>0, <2>2, <3>1, SubmittedFacts
          <6>3. \A u \in Transfers : u # freeIdx => xfer'[u] = xfer[u]
            BY <1>0, <2>2, <3>1, SubmittedFacts
          <6> QED
            BY <4>2, <6>1, <6>2, <6>3
        <5>2. EndOf(t) <= inBuf /\ EndOf(t) \in Nat
          BY <2>1, <3>2, <5>1, InFacts DEF Bounded, EndOf, Types, BusTypes
        <5> QED
          BY <1>0, <2>2, <3>1, <5>1, <5>2 DEF EndOf
      <4> QED
        BY <4>1, <4>2
    <3> QED
      BY <1>3, <2>1, <2>2, <3>1, <3>2 DEF Bounded, Schedule
  <2>3. CASE pc' = "cancel"
    BY <2>3 DEF Bounded, Looping
  <2>4. CASE UNCHANGED <<inBuf, usb, xfer>> /\ pc' # "out"
    BY <2>1, <2>4 DEF Bounded, EndOf
  <2> QED
    BY <1>3, <2>2, <2>3, <2>4 DEF Schedule, ring
<1>4. CASE Handle \/ CollectOut \/ CollectIn \/ Cancel \/ Wait \/ Device \/ UNCHANGED vars
  BY <1>4, OtherSteps, InFacts DEF Bounded, EndOf
<1> QED
  BY <1>1, <1>2, <1>3, <1>4 DEF Next, Driver

-----------------------------------------------------------------------------
(* The places of the buffer and their owners                               *)

\* Owned places are places in the part of the buffer that is used
LEMMA OwnedFinite ==
  ASSUME Types, \A t \in Uncollected : EndOf(t) <= inBuf
  PROVE  Owned \subseteq 1 .. inBuf /\ IsFiniteSet(Owned) /\ Cardinality(Owned) \in Nat
<1>1. inBuf \in Nat /\ \A t \in Transfers : xfer[t].pos \in Nat /\ xfer[t].len \in Nat
  BY DEF Types, RingTypes, BusTypes
<1>2. ASSUME NEW t \in Uncollected, NEW x \in Places(t)
      PROVE  x \in 1 .. inBuf
  <2>1. t \in Transfers
    BY InFacts DEF Uncollected
  <2> QED
    BY <1>1, <1>2, <2>1 DEF Places, EndOf
<1>3. Owned \subseteq 1 .. inBuf
  BY <1>2 DEF Owned
<1>4. IsFiniteSet(1 .. inBuf)
  <2>1. 1 \in Int /\ inBuf \in Int
    BY <1>1
  <2> QED
    BY <2>1, FS_Interval
<1>5. IsFiniteSet(Owned)
  BY <1>3, <1>4, FS_Subset
<1> QED
  BY <1>3, <1>5, FS_CardinalityType

LEMMA PlacesCount ==
  ASSUME Types, NEW t \in Transfers
  PROVE  IsFiniteSet(Places(t)) /\ Cardinality(Places(t)) = xfer[t].len
<1>1. xfer[t].pos \in Nat /\ xfer[t].len \in Nat
  BY DEF Types, BusTypes
<1> DEFINE a == xfer[t].pos + 1
           b == xfer[t].pos + xfer[t].len
<1>2. a \in Int /\ b \in Int /\ (IF a > b THEN 0 ELSE b - a + 1) = xfer[t].len
  BY <1>1
<1>3. Places(t) = a .. b
  BY DEF Places, EndOf
<1> HIDE DEF a, b
<1>4. IsFiniteSet(a .. b) /\ Cardinality(a .. b) = IF a > b THEN 0 ELSE b - a + 1
  BY ONLY <1>2, FS_Interval
<1> QED
  BY <1>2, <1>3, <1>4

\* A transfer that is collected, or ends with nothing, gives its places up
LEMMA OwnedShrinks ==
  ASSUME Types, xfer' = xfer, Uncollected' \subseteq Uncollected,
         \A t \in Uncollected : EndOf(t) <= inBuf,
         \A s, t \in Uncollected : s # t => Places(s) \cap Places(t) = {}
  PROVE  /\ IsFiniteSet(Owned') /\ Cardinality(Owned') \in Nat
         /\ Cardinality(Owned') <= Cardinality(Owned)
         /\ \A t \in Uncollected : t \notin Uncollected' =>
              Cardinality(Owned') + xfer[t].len <= Cardinality(Owned)
         /\ Uncollected' = Uncollected => Owned' = Owned
<1>1. IsFiniteSet(Owned) /\ Cardinality(Owned) \in Nat
  BY OwnedFinite
<1>2. Owned' = UNION {Places(t) : t \in Uncollected'}
  BY DEF Owned, Places, EndOf
<1>3. Owned' \subseteq Owned
  BY <1>2 DEF Owned
<1>4. IsFiniteSet(Owned') /\ Cardinality(Owned') <= Cardinality(Owned) /\ Cardinality(Owned') \in Nat
  BY <1>1, <1>3, FS_Subset, FS_CardinalityType
<1>5. ASSUME NEW t \in Uncollected, t \notin Uncollected'
      PROVE  Cardinality(Owned') + xfer[t].len <= Cardinality(Owned)
  <2>1. Owned' \subseteq Owned \ Places(t)
    BY <1>2, <1>3, <1>5 DEF Owned
  <2>2. Owned \cap Places(t) = Places(t)
    BY DEF Owned
  <2>3. IsFiniteSet(Places(t)) /\ Cardinality(Places(t)) = xfer[t].len /\ xfer[t].len \in Nat
    <3>1. t \in Transfers
      BY InFacts DEF Uncollected
    <3> QED
      BY <3>1, PlacesCount DEF Types, BusTypes
  <2>4. IsFiniteSet(Owned \ Places(t)) /\ Cardinality(Owned \ Places(t)) = Cardinality(Owned) - Cardinality(Places(t))
    BY ZenonT(30), <1>1, <2>2, FS_Difference
  <2>5. Cardinality(Owned') <= Cardinality(Owned \ Places(t))
    BY <2>1, <2>4, FS_Subset
  <2> QED
    BY <1>1, <1>4, <2>3, <2>4, <2>5
<1>6. Uncollected' = Uncollected => Owned' = Owned
  BY <1>2 DEF Owned
<1> QED
  BY <1>4, <1>5, <1>6

\* A step of the driver that hands over a transfer
ScheduleOne ==
  /\ inDone + inActive < req.read /\ state[freeIdx] = IDLE
  /\ Submitted(freeIdx, inBuf, Todo)
  /\ queue' = Append(queue, freeIdx)
  /\ inBuf' = inBuf + Todo /\ inActive' = inActive + Todo
  /\ state' = [state EXCEPT ![freeIdx] = ACTIVE]
  /\ UNCHANGED <<pc, inIdx, inDone, outDone, req, ret, events, reply, readarr, history>>

LEMMA ScheduleCases ==
  ASSUME Schedule
  PROVE  \/ ScheduleOne
         \/ pc' = "handle" /\ UNCHANGED <<req, state, ring, ret, bus, history>>
         \/ /\ pc' = "cancel" /\ UNCHANGED <<req, ring, ret, bus, history>>
            /\ state[freeIdx] = IDLE /\ state' = [state EXCEPT ![freeIdx] = ERR]
            /\ inDone + inActive < req.read
BY DEF Schedule, ScheduleOne, bus

\* What changes with each kind of ring entry
LEMMA ScheduleOneFacts ==
  ASSUME Types, ScheduleOne
  PROVE  /\ freeIdx \in In /\ freeIdx \in Transfers /\ Todo \in Nat \ {0} /\ inBuf + Todo <= req.read
         /\ usb[freeIdx] = "none" /\ usb'[freeIdx] = "flying" /\ state'[freeIdx] = ACTIVE
         /\ xfer'[freeIdx].pos = inBuf /\ xfer'[freeIdx].len = Todo /\ xfer'[freeIdx].call = calls
         /\ \A t \in Transfers : t # freeIdx => /\ usb'[t] = usb[t] /\ state'[t] = state[t]
                                                /\ xfer'[t] = xfer[t]
<1>1. freeIdx \in In /\ freeIdx \in Transfers /\ Todo \in Nat \ {0} /\ inBuf + Todo <= req.read /\ inBuf \in Nat
  BY TodoRange, InFacts DEF Types, RingTypes, ScheduleOne
<1>2. /\ \A u \in Transfers : usb'[u] = IF u = freeIdx THEN "flying" ELSE usb[u]
      /\ \A u \in Transfers : u # freeIdx => xfer'[u] = xfer[u]
      /\ xfer'[freeIdx].pos = inBuf /\ xfer'[freeIdx].len = Todo /\ xfer'[freeIdx].call = calls
      /\ usb[freeIdx] = "none"
  BY <1>1, SubmittedFacts DEF ScheduleOne
<1>3. \A u \in Transfers : state'[u] = IF u = freeIdx THEN ACTIVE ELSE state[u]
  BY <1>1 DEF ScheduleOne, Types, RingTypes
<1> QED
  BY <1>1, <1>2, <1>3

LEMMA CollectInCases ==
  ASSUME CollectIn
  PROVE  /\ pc = "in_done" /\ UNCHANGED <<req, freeIdx, outDone, inBuf, bus, faults, history>>
         /\ \/ /\ pc' = "in_done" /\ ret' = ret /\ state[inIdx] \notin {IDLE, ACTIVE, ERR}
               /\ inDone' = inDone + state[inIdx] /\ inActive' = inActive - state[inIdx]
               /\ state' = [state EXCEPT ![inIdx] = IDLE] /\ inIdx' = NextIdx(inIdx)
            \/ /\ pc' \in {"cancel", "schedule"} /\ UNCHANGED <<state, inIdx, inDone, inActive, ret>>
            \/ /\ pc' = "idle" /\ ret' = 0 /\ ~Incomplete /\ UNCHANGED <<state, inIdx, inDone, inActive>>
BY DEF CollectIn

LEMMA InitAccounted == Init => Accounted
BY DEF Init, Accounted, Looping

\* A transfer that is handed over owns the next places
LEMMA ScheduleOwned ==
  ASSUME Types, ScheduleOne,
         \A t \in Uncollected : xfer[t].len > 0 /\ EndOf(t) <= inBuf,
         \A s, t \in Uncollected : s # t => Places(s) \cap Places(t) = {}
  PROVE  /\ Uncollected' = Uncollected \cup {freeIdx} /\ freeIdx \notin Uncollected
         /\ Cardinality(Owned) \in Nat /\ Cardinality(Owned') = Cardinality(Owned) + Todo
         /\ (\A t \in Uncollected : xfer[t].len > 0 /\ EndOf(t) <= inBuf)'
         /\ (\A s, t \in Uncollected : s # t => Places(s) \cap Places(t) = {})'
<1>b. inBuf \in Nat /\ \A t \in Transfers : xfer[t].pos \in Nat /\ xfer[t].len \in Nat
  BY DEF Types, RingTypes, BusTypes
<1>a. PICK f : f = freeIdx
  OBVIOUS
<1> DEFINE new == inBuf + 1 .. inBuf + Todo
<1>0. /\ f \in In /\ f \in Transfers /\ Todo \in Nat \ {0} /\ inBuf + Todo <= req.read
      /\ state'[f] = ACTIVE /\ xfer'[f].pos = inBuf /\ xfer'[f].len = Todo
      /\ \A t \in Transfers : t # f => state'[t] = state[t] /\ xfer'[t] = xfer[t]
  BY <1>a, ScheduleOneFacts
<1>1. /\ state[f] = IDLE /\ inBuf' = inBuf + Todo /\ inDone' = inDone
  BY <1>a DEF ScheduleOne
<1>2. Uncollected' = Uncollected \cup {f} /\ f \notin Uncollected
  BY <1>0, <1>1, InFacts DEF Uncollected, ACTIVE, IDLE
<1>3. \A t \in Uncollected : t \in Transfers /\ t # f /\ Places(t)' = Places(t) /\ EndOf(t)' = EndOf(t)
  BY <1>0, <1>2, InFacts DEF Uncollected, Places, EndOf
<1>4. Places(f)' = new /\ EndOf(f)' = inBuf'
  BY <1>0, <1>1 DEF Places, EndOf
<1>5. Owned \subseteq 1 .. inBuf /\ IsFiniteSet(Owned) /\ Cardinality(Owned) \in Nat
  BY OwnedFinite
<1>6. Owned' = Owned \cup new /\ Owned \cap new = {}
  <2>1. Owned' = Owned \cup new
    BY <1>2, <1>3, <1>4 DEF Owned
  <2>2. (1 .. inBuf) \cap new = {}
    BY <1>b
  <2> QED
    BY <1>5, <2>1, <2>2
<1>7. IsFiniteSet(new) /\ Cardinality(new) = Todo
  <2> DEFINE a == inBuf + 1
             b == inBuf + Todo
  <2>1. a \in Int /\ b \in Int /\ (IF a > b THEN 0 ELSE b - a + 1) = Todo
    BY <1>b, <1>0
  <2> HIDE DEF a, b
  <2>2. IsFiniteSet(a .. b) /\ Cardinality(a .. b) = IF a > b THEN 0 ELSE b - a + 1
    BY ONLY <2>1, FS_Interval
  <2> QED
    BY <2>1, <2>2 DEF a, b
<1>8. Cardinality(Owned') = Cardinality(Owned) + Todo
  <2>1. Cardinality(Owned \cap new) = 0
    BY <1>6, FS_EmptySet
  <2> HIDE DEF new
  <2>2. Cardinality(Owned \cup new) = Cardinality(Owned) + Cardinality(new) - Cardinality(Owned \cap new)
    BY <1>5, <1>7, FS_Union
  <2> QED
    BY <1>0, <1>5, <1>6, <1>7, <2>1, <2>2
<1>10. ASSUME NEW t \in Uncollected'
       PROVE  (xfer[t].len > 0 /\ EndOf(t) <= inBuf)'
  <2>1. CASE t = f
    BY <1>b, <1>0, <1>1, <1>4, <2>1
  <2>2. CASE t # f
    <3>1. t \in Uncollected /\ xfer'[t] = xfer[t] /\ EndOf(t)' = EndOf(t) /\ EndOf(t) \in Nat
      BY <1>b, <1>0, <1>2, <1>3, <2>2 DEF EndOf
    <3> QED
      BY <1>b, <1>0, <1>1, <3>1
  <2> QED
    BY <2>1, <2>2
<1>11. ASSUME NEW s \in Uncollected', NEW t \in Uncollected', s # t
       PROVE  Places(s)' \cap Places(t)' = {}
  <2>1. \A u \in Uncollected : Places(u) \cap new = {}
    BY <1>6 DEF Owned
  <2> HIDE DEF new
  <2> QED
    BY <1>2, <1>3, <1>4, <1>11, <2>1
<1> QED
  BY <1>a, <1>2, <1>5, <1>8, <1>10, <1>11

\* Callbacks of transfers that are waited for
LEMMA HandleAwaited ==
  ASSUME Types, Awaited, ~lost, HandleEvents, UNCHANGED <<xfer, queue>>
  PROVE  \A t \in Transfers : \/ usb'[t] = usb[t] /\ state'[t] = state[t]
                              \/ usb[t] = "ended" /\ usb'[t] = "none" /\ state[t] = ACTIVE
<1>1. PICK n \in 0 .. Len(events) :
        /\ \A j \in 1 .. n : Ran(j)
        /\ \A t \in Transfers : \/ \E j \in 1 .. n : events[j].t = t
                                \/ usb'[t] = usb[t] /\ state'[t] = state[t]
  BY HandleEffect
<1>2. ASSUME NEW t \in Transfers, NEW j \in 1 .. n, events[j].t = t
      PROVE  usb[t] = "ended" /\ usb'[t] = "none"
  <2>1. j \in 1 .. Len(events)
    BY DEF Types, EventTypes
  <2> QED
    BY <1>1, <1>2, <2>1 DEF Ran, Types, EventTypes
<1>3. ASSUME NEW t \in Transfers, \E j \in 1 .. n : events[j].t = t
      PROVE  usb[t] = "ended" /\ usb'[t] = "none" /\ state[t] = ACTIVE
  BY <1>2, <1>3 DEF Awaited
<1> TAKE t \in Transfers
<1>4. CASE \E j \in 1 .. n : events[j].t = t
  BY <1>3, <1>4
<1> QED
  BY <1>1, <1>4

LEMMA AccountedStep == Types /\ Awaited /\ Accounted /\ [Next]_vars => Accounted'
<1> SUFFICES ASSUME Types, Awaited, Accounted, [Next]_vars, ~lost'
             PROVE  /\ inActive' >= 0
                    /\ Looping' =>
                         /\ (\A t \in Uncollected : xfer[t].len > 0 /\ EndOf(t) <= inBuf)'
                         /\ (\A s, t \in Uncollected : s # t => Places(s) \cap Places(t) = {})'
                         /\ (inDone + Cardinality(Owned) <= inBuf)'
  BY DEF Accounted
<1> DEFINE Goal == /\ \A t \in Uncollected : xfer[t].len > 0 /\ EndOf(t) <= inBuf
                   /\ \A s, t \in Uncollected : s # t => Places(s) \cap Places(t) = {}
                   /\ inDone + Cardinality(Owned) <= inBuf
<1>a. ~lost
  BY DEF Next, Driver, Call, SubmitOut, Schedule, Handle, CollectOut, CollectIn, Cancel, Wait, Device,
         OutEnds, InEnds, Fails, Cancels, vars, history
<1>b. /\ inActive >= 0 /\ inBuf \in Nat /\ inDone \in Nat /\ inActive \in Int /\ inDone + inActive = inBuf
      /\ req.read \in Nat /\ inIdx \in In /\ inIdx \in Transfers
      /\ \A t \in Transfers : xfer[t].pos \in Nat /\ xfer[t].len \in Nat
      /\ \A t \in Transfers : state[t] \in ACTIVE .. xfer[t].len
      /\ state \in [Transfers -> Int]
  BY <1>a, InFacts DEF Accounted, Types, RingTypes, BusTypes, CallTypes
<1>c. Looping => Goal
  BY <1>a DEF Accounted
<1> SUFFICES inActive' >= 0 /\ (Looping' => Goal')
  BY DEF Goal
<1>d. ASSUME UNCHANGED <<xfer, inDone, inActive, inBuf>>, Looping' => Looping, Uncollected' \subseteq Uncollected
      PROVE  inActive' >= 0 /\ (Looping' => Goal')
  <2>1. inActive' >= 0
    BY <1>b, <1>d
  <2> SUFFICES ASSUME Looping'
               PROVE  Goal'
    BY <2>1
  <2>2. Goal
    BY <1>c, <1>d
  <2>3. (\A t \in Uncollected : xfer[t].len > 0 /\ EndOf(t) <= inBuf)'
    BY <1>d, <2>2 DEF EndOf
  <2>4. (\A s, t \in Uncollected : s # t => Places(s) \cap Places(t) = {})'
    BY <1>d, <2>2 DEF EndOf, Places
  <2>5. Cardinality(Owned') <= Cardinality(Owned) /\ Cardinality(Owned') \in Nat /\ Cardinality(Owned) \in Nat
    BY <1>d, <2>2, OwnedShrinks, OwnedFinite
  <2>6. inDone' + Cardinality(Owned') <= inBuf'
    BY <1>b, <1>d, <2>2, <2>5
  <2> QED
    BY <2>3, <2>4, <2>6
<1>e. ASSUME UNCHANGED <<xfer, state, inDone, inActive, inBuf>>, Looping' => Looping
      PROVE  inActive' >= 0 /\ (Looping' => Goal')
  <2>1. Uncollected' = Uncollected
    BY <1>e DEF Uncollected
  <2> QED
    BY <1>d, <1>e, <2>1
<1>f. ASSUME HandleEvents, UNCHANGED <<xfer, queue, inDone, inActive, inBuf>>, Looping' => Looping
      PROVE  inActive' >= 0 /\ (Looping' => Goal')
  <2>1. Uncollected' \subseteq Uncollected
    BY <1>a, <1>f, HandleAwaited, InFacts DEF Uncollected, ACTIVE, IDLE
  <2> QED
    BY <1>d, <1>f, <2>1
<1>1. ASSUME NEW r \in Requests, Call(r)
      PROVE  inActive' >= 0 /\ (Looping' => Goal')
  BY <1>1, <1>b DEF Call, ring, Looping
<1>2. CASE SubmitOut
  <2>1. CASE pc' = "cancel" /\ UNCHANGED ring
    BY <1>b, <2>1 DEF ring, Looping
  <2>2. CASE inDone' = 0 /\ inActive' = 0 /\ inBuf' = 0 /\ state' = [t \in Transfers |-> IF t = Out THEN ACTIVE ELSE IDLE]
    <3>1. Uncollected' = {}
      BY <2>2, InFacts DEF Uncollected
    <3>2. Owned' = {}
      BY <3>1 DEF Owned
    <3>3. Cardinality(Owned') = 0
      BY <3>2, FS_EmptySet
    <3> QED
      BY <2>2, <3>1, <3>3
  <2> QED
    BY <1>2, <2>1, <2>2 DEF SubmitOut
<1>3. CASE Schedule
  <2>0. Goal
    BY <1>3, <1>c DEF Schedule, Looping
  <2>1. CASE ScheduleOne
    <3>1. /\ Cardinality(Owned) \in Nat /\ Cardinality(Owned') = Cardinality(Owned) + Todo
          /\ (\A t \in Uncollected : xfer[t].len > 0 /\ EndOf(t) <= inBuf)'
          /\ (\A s, t \in Uncollected : s # t => Places(s) \cap Places(t) = {})'
      BY <2>0, <2>1, ScheduleOwned
    <3>2. inBuf' = inBuf + Todo /\ inActive' = inActive + Todo /\ inDone' = inDone /\ Todo \in Nat \ {0}
      BY <2>1, ScheduleOneFacts DEF ScheduleOne
    <3>3. inDone' + Cardinality(Owned') <= inBuf'
      BY <1>b, <2>0, <3>1, <3>2
    <3> QED
      BY <1>b, <3>1, <3>2, <3>3
  <2>2. CASE UNCHANGED <<state, ring, bus>>
    BY <1>3, <1>e, <2>2 DEF ring, bus, Schedule, Looping
  <2>3. CASE pc' = "cancel" /\ UNCHANGED ring
    BY <1>b, <2>3 DEF ring, Looping
  <2> QED
    BY <1>3, <2>1, <2>2, <2>3, ScheduleCases
<1>4. CASE Handle
  BY <1>4, <1>f DEF Handle, ring, Looping
<1>5. CASE CollectOut
  <2>1. UNCHANGED <<xfer, inDone, inActive, inBuf>> /\ (Looping' => Looping)
    BY <1>5 DEF CollectOut, bus, Looping
  <2>2. Uncollected' = Uncollected
    BY <1>b, <1>5, InFacts DEF CollectOut, Uncollected
  <2> QED
    BY <1>d, <2>1, <2>2
<1>6. CASE CollectIn
  <2>0. Goal /\ UNCHANGED <<xfer, inBuf>>
    BY <1>6, <1>c DEF CollectIn, Looping, bus
  <2>1. CASE UNCHANGED <<state, inIdx, inDone, inActive>>
    BY <1>6, <1>e, <2>0, <2>1 DEF CollectIn, Looping
  <2>2. CASE /\ state[inIdx] \notin {IDLE, ACTIVE, ERR}
             /\ inDone' = inDone + state[inIdx] /\ inActive' = inActive - state[inIdx]
             /\ state' = [state EXCEPT ![inIdx] = IDLE]
    <3>1. state[inIdx] \in Nat /\ state[inIdx] <= xfer[inIdx].len
      BY <1>b, <2>2 DEF IDLE, ACTIVE, ERR
    <3>2. Uncollected' = Uncollected \ {inIdx} /\ inIdx \in Uncollected
      BY <1>b, <2>2, InFacts DEF Uncollected
    <3>3. /\ Cardinality(Owned') \in Nat /\ Cardinality(Owned) \in Nat
          /\ Cardinality(Owned') + xfer[inIdx].len <= Cardinality(Owned)
      BY <2>0, <3>2, OwnedShrinks, OwnedFinite
    <3>4. inDone' + Cardinality(Owned') <= inBuf'
      BY <1>b, <2>0, <2>2, <3>1, <3>3
    <3>5. inActive' >= 0
      BY <1>b, <2>0, <2>2, <3>1, <3>3, <3>4
    <3>6. (\A t \in Uncollected : xfer[t].len > 0 /\ EndOf(t) <= inBuf)'
      BY <2>0, <3>2 DEF EndOf
    <3>7. (\A s, t \in Uncollected : s # t => Places(s) \cap Places(t) = {})'
      BY <2>0, <3>2 DEF Places, EndOf
    <3> QED
      BY <3>4, <3>5, <3>6, <3>7
  <2> QED
    BY <1>6, <2>1, <2>2, CollectInCases
<1>7. CASE Cancel
  BY <1>7, <1>b DEF Cancel, ring, Looping
<1>8. CASE Wait
  BY <1>8, <1>b DEF Wait, ring, Looping
<1>9. CASE Device
  BY <1>9, <1>e, DeviceCases DEF ring, Looping
<1>10. CASE UNCHANGED vars
  BY <1>10, <1>e DEF vars, bus, ring, Looping
<1> QED
  BY <1>1, <1>2, <1>3, <1>4, <1>5, <1>6, <1>7, <1>8, <1>9, <1>10 DEF Next, Driver

\* The loop ends with success only when every transfer was collected in full
LEMMA NothingOwned ==
  ASSUME Types, Bounded, Awaited, Accounted, ~lost, Looping, ~Incomplete
  PROVE  /\ inDone = inBuf /\ inBuf = req.read /\ Uncollected = {} /\ Owned = {} /\ Cardinality(Owned) = 0
         /\ \A t \in Transfers : usb[t] = "none"
<1>1. /\ inDone \in Nat /\ inBuf \in Nat /\ req.read \in Nat /\ outDone \in Nat /\ req.write \in Nat \ {0}
      /\ \A t \in Transfers : xfer[t].pos \in Nat /\ xfer[t].len \in Nat
  BY DEF Types, RingTypes, CallTypes, BusTypes
<1>2. inDone >= req.read /\ outDone >= req.write
  BY <1>1 DEF Incomplete
<1>3. inBuf <= req.read /\ inDone + Cardinality(Owned) <= inBuf
  BY DEF Bounded, Accounted
<1>4. IsFiniteSet(Owned) /\ Cardinality(Owned) \in Nat
  BY OwnedFinite DEF Accounted
<1>5. inDone = inBuf /\ inBuf = req.read /\ Cardinality(Owned) = 0
  BY <1>1, <1>2, <1>3, <1>4
<1>6. Owned = {}
  BY <1>4, <1>5, FS_EmptySet
<1>7. Uncollected = {}
  <2> SUFFICES ASSUME NEW t \in Uncollected
               PROVE  FALSE
    OBVIOUS
  <2>1. xfer[t].len > 0 /\ t \in Transfers
    BY InFacts DEF Accounted, Uncollected
  <2>2. xfer[t].pos + 1 \in Places(t)
    BY <1>1, <2>1 DEF Places, EndOf
  <2> QED
    BY <1>6, <2>2 DEF Owned
<1>8. \A t \in In : usb[t] = "none"
  BY <1>7, InFacts DEF Awaited, Uncollected, ACTIVE, IDLE
<1>9. usb[Out] = "none"
  BY <1>1, <1>2 DEF Awaited
<1> QED
  BY <1>5, <1>6, <1>7, <1>8, <1>9, InFacts

LEMMA InitAwaited == Init => Awaited
BY InFacts DEF Init, Awaited, Looping

LEMMA AwaitedStep ==
  Types /\ Bounded /\ Awaited /\ Accounted /\ [Next]_vars => Awaited'
<1> SUFFICES ASSUME Types, Bounded, Awaited, Accounted, [Next]_vars, ~lost'
             PROVE  /\ (pc \in {"idle", "out"} => \A t \in Transfers : usb[t] = "none")'
                    /\ (\A t \in Transfers : usb[t] # "none" => state[t] = ACTIVE /\ t \in Pending)'
                    /\ (Looping => \A t \in Transfers :
                          usb[t] # "none" => usb[t] # "canceling" /\ xfer[t].call = calls)'
                    /\ (pc = "cancel" => \A t \in Transfers : usb[t] # "canceling")'
                    /\ (usb[Out] # "none" /\ Looping => outDone = 0)'
  BY DEF Awaited
<1> DEFINE Goal == /\ pc \in {"idle", "out"} => \A t \in Transfers : usb[t] = "none"
                   /\ \A t \in Transfers : usb[t] # "none" => state[t] = ACTIVE /\ t \in Pending
                   /\ Looping => \A t \in Transfers : usb[t] # "none" => usb[t] # "canceling" /\ xfer[t].call = calls
                   /\ pc = "cancel" => \A t \in Transfers : usb[t] # "canceling"
                   /\ usb[Out] # "none" /\ Looping => outDone = 0
<1>a. ~lost
  BY DEF Next, Driver, Call, SubmitOut, Schedule, Handle, CollectOut, CollectIn, Cancel, Wait, Device,
         OutEnds, InEnds, Fails, Cancels, vars, history
<1>b. Goal
  BY <1>a DEF Awaited
<1>c. /\ req.read \in Nat /\ inDone \in Nat /\ inBuf \in Nat /\ inDone + inActive = inBuf
      /\ state \in [Transfers -> Int] /\ freeIdx \in In /\ freeIdx \in Transfers /\ inIdx \in Transfers /\ inIdx \in In
      /\ Out \in Transfers /\ Out \notin In
      /\ ACTIVE # IDLE /\ ACTIVE # ERR
  BY InFacts DEF Types, CallTypes, RingTypes, ACTIVE, IDLE, ERR
<1> SUFFICES Goal'
  BY DEF Goal
<1>d. ASSUME UNCHANGED <<usb, state, req, xfer, calls>>, pc' \in {"idle", "out"} => pc \in {"idle", "out"},
             Looping' => Looping /\ outDone' = outDone, pc' = "cancel" => Looping \/ pc = "cancel"
      PROVE  Goal'
  BY <1>b, <1>d DEF Pending
<1>1. ASSUME NEW r \in Requests, Call(r)
      PROVE  Goal'
  BY <1>1, <1>b DEF Call, Looping
<1>2. CASE SubmitOut
  <2>0. \A t \in Transfers : usb[t] = "none"
    BY <1>2, <1>b DEF SubmitOut
  <2>1. CASE /\ Submitted(Out, 0, req.write)
             /\ state' = [t \in Transfers |-> IF t = Out THEN ACTIVE ELSE IDLE]
             /\ outDone' = 0 /\ pc' = "schedule" /\ UNCHANGED <<req, calls>>
    <3>1. /\ usb'[Out] = "flying" /\ xfer'[Out].call = calls
          /\ \A t \in Transfers : t # Out => usb'[t] = usb[t]
      BY <1>c, <2>1, SubmittedFacts DEF Types, CallTypes
    <3>2. state'[Out] = ACTIVE /\ Out \in Pending'
      BY <1>c, <2>1 DEF Pending
    <3> QED
      BY <2>0, <2>1, <3>1, <3>2 DEF Looping
  <2>2. CASE pc' = "cancel" /\ UNCHANGED usb
    BY <2>0, <2>2 DEF Looping
  <2> QED
    BY <1>2, <2>1, <2>2 DEF SubmitOut, history
<1>3. CASE Schedule
  <2>0. pc = "schedule" /\ Looping
    BY <1>3 DEF Schedule, Looping
  <2>1. CASE ScheduleOne
    <3>a. PICK f : f = freeIdx
      OBVIOUS
    <3>1. /\ f \in Transfers /\ f # Out /\ usb'[f] = "flying" /\ state'[f] = ACTIVE /\ xfer'[f].call = calls
          /\ \A t \in Transfers : t # f => usb'[t] = usb[t] /\ state'[t] = state[t] /\ xfer'[t] = xfer[t]
      BY <1>c, <2>1, <3>a, ScheduleOneFacts
    <3>2. UNCHANGED <<pc, req, calls, outDone>>
      BY <2>1 DEF ScheduleOne, history
    <3>3. Pending' = Pending /\ Pending = Transfers
      BY <1>c, <2>1, <3>2 DEF Pending, ScheduleOne
    <3>4. Looping' /\ pc' \notin {"idle", "out", "cancel"}
      BY <2>0, <3>2 DEF Looping
    <3> QED
      BY <1>b, <1>c, <2>0, <3>1, <3>2, <3>3, <3>4
  <2>2. CASE pc' = "handle" /\ UNCHANGED <<req, state, ring, ret, bus, history>>
    BY <1>d, <2>0, <2>2 DEF Looping, ring, bus, history
  <2>3. CASE /\ pc' = "cancel" /\ UNCHANGED <<req, ring, ret, bus, history>>
             /\ state[freeIdx] = IDLE /\ state' = [state EXCEPT ![freeIdx] = ERR]
    <3>1. usb[freeIdx] = "none"
      BY <1>b, <1>c, <2>3
    <3>2. \A t \in Transfers : usb[t] # "none" => state'[t] = state[t]
      BY <1>c, <2>3, <3>1
    <3> QED
      BY <1>b, <2>0, <2>3, <3>2 DEF Looping, bus, history, Pending
  <2> QED
    BY <1>3, <2>1, <2>2, <2>3, ScheduleCases
<1>e. ASSUME HandleEvents, UNCHANGED <<xfer, queue, req, calls, outDone>>,
             pc \in {"handle", "wait"}, pc' \in {"out_done", "wait"}, Looping' => Looping
      PROVE  Goal'
  <2>1. \A t \in Transfers : usb'[t] # "none" => usb'[t] = usb[t] /\ state'[t] = state[t]
    BY <1>a, <1>e, HandleAwaited
  <2> QED
    BY <1>b, <1>c, <1>e, <2>1 DEF Pending
<1>4. CASE Handle
  BY <1>4, <1>e DEF Handle, ring, history, Looping
<1>5. CASE CollectOut
  <2>1. UNCHANGED <<usb, xfer, req, calls>> /\ Looping /\ pc' \in {"cancel", "in_done"}
    BY <1>5 DEF CollectOut, bus, history, Looping
  <2>2. CASE UNCHANGED <<outDone, state>>
    BY <1>d, <2>1, <2>2
  <2>3. CASE state[Out] > 0 /\ state' = [state EXCEPT ![Out] = IDLE]
    <3>1. usb[Out] = "none"
      BY <1>b, <1>c, <2>3 DEF ACTIVE
    <3>2. \A t \in Transfers : usb[t] # "none" => state'[t] = state[t]
      BY <1>c, <2>3, <3>1
    <3> QED
      BY <1>b, <2>1, <3>1, <3>2 DEF Pending
  <2> QED
    BY <1>5, <2>2, <2>3 DEF CollectOut
<1>6. CASE CollectIn
  <2>0. UNCHANGED <<usb, xfer, req, calls, outDone>> /\ Looping /\ pc = "in_done"
    BY <1>6 DEF CollectIn, bus, history, Looping
  <2>1. CASE pc' = "in_done" /\ state[inIdx] \notin {IDLE, ACTIVE, ERR} /\ state' = [state EXCEPT ![inIdx] = IDLE]
    <3>1. usb[inIdx] = "none"
      BY <1>b, <1>c, <2>1
    <3>2. \A t \in Transfers : usb[t] # "none" => state'[t] = state[t]
      BY <1>c, <2>1, <3>1
    <3> QED
      BY <1>b, <2>0, <2>1, <3>2 DEF Pending
  <2>2. CASE pc' \in {"cancel", "schedule"} /\ UNCHANGED state
    BY <1>d, <2>0, <2>2
  <2>3. CASE pc' = "idle" /\ ~Incomplete /\ UNCHANGED state
    <3>1. \A t \in Transfers : usb[t] = "none"
      BY <1>a, <2>0, <2>3, NothingOwned
    <3> QED
      BY <2>0, <2>3, <3>1 DEF Looping
  <2> QED
    BY <1>6, <2>1, <2>2, <2>3, CollectInCases
<1>7. CASE Cancel
  <2>1. pc' = "wait" /\ UNCHANGED <<req, xfer, calls>>
    BY <1>7 DEF Cancel
  <2>2. LET asked == {t \in Pending : state[t] = ACTIVE}
            fails == {t \in asked : CancelFails(t)}
        IN  /\ state' = [t \in Transfers |-> IF t \in fails THEN ERR ELSE state[t]]
            /\ usb' = [t \in Transfers |->
                           IF t \in asked \ fails /\ usb[t] = "flying" THEN "canceling"
                           ELSE usb[t]]
    <3>1. PICK refused \in SUBSET {t \in Pending : state[t] = ACTIVE /\ ~CancelFails(t)} :
            /\ IF refused = {} THEN UNCHANGED <<faults, lost>> ELSE Fault /\ lost' = TRUE
            /\ LET asked == {t \in Pending : state[t] = ACTIVE}
                   fails == refused \cup {t \in asked : CancelFails(t)}
               IN  /\ state' = [t \in Transfers |-> IF t \in fails THEN ERR ELSE state[t]]
                   /\ usb' = [t \in Transfers |->
                           IF t \in asked \ fails /\ usb[t] = "flying" THEN "canceling"
                           ELSE usb[t]]
      BY <1>7 DEF Cancel
    <3>2. refused = {}
      BY <3>1
    <3> QED
      BY <3>1, <3>2
  <2>3. \A t \in Transfers : usb'[t] # "none" => usb[t] # "none" /\ state'[t] = state[t]
    BY <2>2 DEF CancelFails
  <2> QED
    BY <1>b, <2>1, <2>3 DEF Pending, Looping
<1>8. CASE Wait
  <2>1. pc = "wait" /\ UNCHANGED <<req, xfer, queue, calls, outDone>>
    BY <1>8 DEF Wait, ring
  <2>2. CASE HandleEvents /\ pc' = pc
    BY <1>e, <2>1, <2>2 DEF Looping
  <2>3. CASE ~Waiting /\ pc' = "idle" /\ UNCHANGED <<state, usb>>
    BY <1>b, <2>1, <2>3 DEF Waiting, Pending, Looping
  <2> QED
    BY <1>8, <2>2, <2>3 DEF Wait
<1>9. CASE Device
  <2>1. UNCHANGED <<pc, req, state, xfer, calls, outDone>>
    BY <1>9, DeviceCases DEF ring, history
  <2>2. PICK t \in Transfers : \E r : DeviceEnds(t, r)
    BY <1>9, DeviceCases
  <2>3. PICK r : DeviceEnds(t, r)
    BY <2>2
  <2>4. /\ usb[t] # "none" /\ usb'[t] = "ended"
        /\ \A u \in Transfers : u # t => usb'[u] = usb[u]
    BY <2>1, <2>3, EndEffect DEF DeviceEnds, OnBus
  <2> QED
    BY <1>b, <1>c, <2>1, <2>4 DEF Pending, Looping
<1>10. CASE UNCHANGED vars
  BY <1>10, <1>d DEF vars, bus, ring, history, Looping
<1> QED
  BY <1>1, <1>2, <1>3, <1>4, <1>5, <1>6, <1>7, <1>8, <1>9, <1>10 DEF Next, Driver

\* Every variable keeps its type; what is on the bus, or has ended, is there once; and in_active
\* never wraps, unless a callback of an earlier call lands (usb_transfer()).
THEOREM TypesCorrect == Spec => []TypeOK
<1>1. Init => Types /\ Bounded /\ Awaited /\ Accounted
  BY InitTypes, InitBounded, InitAwaited, InitAccounted
<1>2. Types /\ Bounded /\ Awaited /\ Accounted /\ [Next]_vars
        => (Types /\ Bounded /\ Awaited /\ Accounted)'
  BY TypesStep, BoundedStep, AwaitedStep, AccountedStep
<1>3. ASSUME Types, Accounted
      PROVE  TypeOK
  <2>1. \A t \in Transfers : state[t] \in -2 .. Max({xfer[t].len, 0})
    <3> TAKE t \in Transfers
    <3>1. xfer[t].len \in Nat /\ state[t] \in ACTIVE .. xfer[t].len
      BY <1>3 DEF Types, BusTypes, RingTypes
    <3>2. Max({xfer[t].len, 0}) = xfer[t].len
      BY <3>1, MaxWithZero
    <3> QED
      BY <3>1, <3>2 DEF ACTIVE
  <2>2. DOMAIN queue = 1 .. Len(queue) /\ DOMAIN events = 1 .. Len(events)
    BY <1>3 DEF Types, QueueTypes, EventTypes
  <2>3. /\ \A t \in In : usb[t] \in {"flying", "canceling"} <=> \E i \in DOMAIN queue : queue[i] = t
        /\ \A t \in Transfers : usb[t] = "ended" <=> \E i \in DOMAIN events : events[i].t = t
    BY <1>3, <2>2 DEF Types, QueueTypes, EventTypes, OnBus
  <2>4. inActive \in Nat \/ lost
    BY <1>3 DEF Types, RingTypes, Accounted
  <2>5. {inDone, inDone + inActive, outDone, inBuf, faults, calls} \subseteq Nat
    BY <1>3 DEF Types, RingTypes, CallTypes
  <2> QED
    BY <1>3, <2>1, <2>3, <2>4, <2>5 DEF Types, CallTypes, RingTypes, TypeOK
<1> QED
  BY <1>1, <1>2, <1>3, PTL DEF Spec

\* When usb_transfer() returns, libusb holds no transfer that would write to its variables later,
\* however the transfers ended, unless one could not be cancelled.
THEOREM NothingStaysInFlight == Spec => []NothingInFlight
<1>1. Init => Types /\ Bounded /\ Awaited /\ Accounted
  BY InitTypes, InitBounded, InitAwaited, InitAccounted
<1>2. Types /\ Bounded /\ Awaited /\ Accounted /\ [Next]_vars
        => (Types /\ Bounded /\ Awaited /\ Accounted)'
  BY TypesStep, BoundedStep, AwaitedStep, AccountedStep
<1>3. Awaited => NothingInFlight
  BY DEF Awaited, NothingInFlight
<1> QED
  BY <1>1, <1>2, <1>3, PTL DEF Spec

-----------------------------------------------------------------------------
(* The answer arrives in order                                             *)

LEMMA InitOrdered == Init => Ordered
<1> SUFFICES ASSUME Init
             PROVE  Ordered
  OBVIOUS
<1> QED
  BY EmptySeq DEF Init, Ordered, Looping

\* With nothing on the bus the queue is empty, and no transfer has ended
LEMMA QuietBus ==
  ASSUME Types, \A t \in Transfers : usb[t] = "none"
  PROVE  queue = <<>> /\ Len(queue) = 0 /\ Len(events) = 0
<1>1. queue \in Seq(In) /\ Len(queue) \in Nat /\ events \in Seq([t : Transfers, result : Result]) /\ Len(events) \in Nat
  BY DEF Types, QueueTypes, EventTypes
<1>2. Len(queue) = 0
  <2> SUFFICES ASSUME Len(queue) # 0
               PROVE  FALSE
    OBVIOUS
  <2>1. 1 \in 1 .. Len(queue) /\ queue[1] \in In
    BY <1>1
  <2> QED
    BY <2>1, InFacts DEF Types, QueueTypes, OnBus
<1>3. Len(events) = 0
  <2> SUFFICES ASSUME Len(events) # 0
               PROVE  FALSE
    OBVIOUS
  <2>1. 1 \in 1 .. Len(events)
    BY <1>1
  <2>2. events[1] \in [t : Transfers, result : Result]
    BY <1>1, <2>1, ElementOfSeq
  <2>3. events[1].t \in Transfers
    BY <2>2
  <2> QED
    BY <2>1, <2>3 DEF Types, EventTypes
<1> QED
  BY <1>1, <1>2, <1>3, EmptySeq

\* Callbacks that leave the accounts exact have found them exact
LEMMA HandleExact ==
  ASSUME Types, Awaited, Accounted, ~lost, Looping, HandleEvents, UNCHANGED <<xfer, queue, inDone, inBuf>>, Exact'
  PROVE  Exact
<1>1. PICK n \in 0 .. Len(events) :
        /\ Len(events') = Len(events) - n
        /\ \A i \in 1 .. Len(events) - n : events'[i] = events[n + i]
        /\ \A j \in 1 .. n : Ran(j)
  BY HandleEffect
<1>2. \A t \in Transfers : \/ usb'[t] = usb[t] /\ state'[t] = state[t]
                           \/ usb[t] = "ended" /\ usb'[t] = "none" /\ state[t] = ACTIVE
  BY HandleAwaited
<1>3. Uncollected' \subseteq Uncollected
  BY <1>2, InFacts DEF Uncollected, ACTIVE, IDLE
<1>4. /\ inDone \in Nat /\ inBuf \in Nat /\ Len(events) \in Nat
      /\ \A t \in Transfers : xfer[t].len \in Nat
      /\ \A i \in 1 .. Len(events) : events[i].t \in Transfers
  <2>1. events \in Seq([t : Transfers, result : Result])
    BY DEF Types, EventTypes
  <2>2. \A i \in 1 .. Len(events) : events[i] \in [t : Transfers, result : Result]
    BY <2>1, ElementOfSeq
  <2> QED
    BY SMTT(30), <2>1, <2>2 DEF Types, RingTypes, BusTypes
<1>5. /\ Cardinality(Owned') \in Nat /\ Cardinality(Owned) \in Nat
      /\ Cardinality(Owned') <= Cardinality(Owned) /\ inDone + Cardinality(Owned) <= inBuf
      /\ \A t \in Uncollected : t \notin Uncollected' => Cardinality(Owned') + xfer[t].len <= Cardinality(Owned)
      /\ \A t \in Uncollected : xfer[t].len > 0 /\ t \in Transfers /\ t \in In
  BY <1>3, OwnedShrinks, OwnedFinite, InFacts DEF Accounted, Uncollected
<1>6. inDone + Cardinality(Owned') = inBuf
  BY DEF Exact
<1>7. Uncollected' = Uncollected
  <2> SUFFICES ASSUME NEW t \in Uncollected, t \notin Uncollected'
               PROVE  FALSE
    BY <1>3
  <2>1. xfer[t].len \in Nat /\ xfer[t].len > 0 /\ Cardinality(Owned') + xfer[t].len <= Cardinality(Owned)
    BY <1>4, <1>5
  <2> QED
    BY <1>4, <1>5, <1>6, <2>1
<1>8. \A t \in Uncollected : state[t] \in {ACTIVE, xfer[t].len}
  <2> TAKE t \in Uncollected
  <2>1. state'[t] \in {ACTIVE, xfer[t].len}
    BY <1>7 DEF Exact
  <2> QED
    BY <1>2, <1>5, <2>1
<1>9. ASSUME NEW j \in 1 .. Len(events), events[j].t # Out
      PROVE  events[j].result = Completed(xfer[events[j].t].len)
  <2> DEFINE t == events[j].t
             r == events[j].result
  <2>1. CASE j \in n + 1 .. Len(events)
    <3>1. j - n \in 1 .. Len(events') /\ events'[j - n] = events[j]
      BY <1>1, <1>4, <2>1
    <3> QED
      BY <1>9, <3>1 DEF Exact
  <2>2. CASE j \in 1 .. n
    <3>1. t \in Transfers /\ t \in In /\ usb[t] = "ended" /\ r \in ResultsUpTo(xfer[t].len)
      BY <1>4, <1>9, InFacts DEF Types, EventTypes
    <3>2. xfer[t].call = calls /\ state[t] = ACTIVE
      BY <3>1 DEF Awaited
    <3>3. state'[t] = ResultState(r)
      BY <1>1, <2>2, <3>2 DEF Ran
    <3>4. t \in Uncollected /\ t \in Uncollected'
      BY <1>7, <3>1, <3>2 DEF Uncollected, ACTIVE, IDLE
    <3>5. ResultState(r) # IDLE /\ ResultState(r) \in {ACTIVE, xfer[t].len} /\ xfer[t].len > 0 /\ xfer[t].len \in Nat
      BY <1>4, <1>5, <3>3, <3>4 DEF Exact, Uncollected
    <3> HIDE DEF t, r
    <3>6. r # Cancelled /\ r # Failed
      BY <3>5, Results DEF ACTIVE, ERR
    <3>7. PICK m \in 0 .. xfer[t].len : r = Completed(m)
      BY <3>1, <3>6 DEF ResultsUpTo
    <3>8. m = xfer[t].len
      BY <3>5, <3>7, Results DEF ACTIVE
    <3> QED
      BY <3>7, <3>8 DEF t, r
  <2> QED
    BY <1>4, <2>1, <2>2
<1>10. inDone + Cardinality(Owned) = inBuf
  BY <1>4, <1>5, <1>6
<1> QED
  BY <1>8, <1>9, <1>10 DEF Exact

\* Collecting a transfer leaves the accounts exact only if it was complete
LEMMA CollectExact ==
  ASSUME Types, Accounted, ~lost, Looping, UNCHANGED <<xfer, events, inBuf>>,
         state[inIdx] \notin {IDLE, ACTIVE, ERR}, inDone' = inDone + state[inIdx],
         state' = [state EXCEPT ![inIdx] = IDLE], Exact'
  PROVE  Exact
<1>1. /\ inIdx \in In /\ inIdx \in Transfers /\ inDone \in Nat /\ inBuf \in Nat
      /\ state \in [Transfers -> Int] /\ state[inIdx] \in ACTIVE .. xfer[inIdx].len /\ xfer[inIdx].len \in Nat
  BY InFacts DEF Types, RingTypes, BusTypes
<1>2. state[inIdx] \in Nat /\ state[inIdx] <= xfer[inIdx].len
  BY <1>1 DEF IDLE, ACTIVE, ERR
<1>3. Uncollected' = Uncollected \ {inIdx} /\ inIdx \in Uncollected
  BY <1>1, InFacts DEF Uncollected
<1>4. /\ Cardinality(Owned') \in Nat /\ Cardinality(Owned) \in Nat
      /\ Cardinality(Owned') + xfer[inIdx].len <= Cardinality(Owned)
      /\ inDone + Cardinality(Owned) <= inBuf
  BY <1>3, OwnedShrinks, OwnedFinite DEF Accounted
<1>5. inDone + state[inIdx] + Cardinality(Owned') = inBuf
  BY DEF Exact
<1>6. state[inIdx] = xfer[inIdx].len /\ inDone + Cardinality(Owned) = inBuf
  BY <1>1, <1>2, <1>4, <1>5
<1>7. ASSUME NEW t \in Uncollected
      PROVE  state[t] \in {ACTIVE, xfer[t].len}
  <2>1. CASE t = inIdx
    BY <1>6, <2>1
  <2>2. CASE t # inIdx
    <3>1. t \in Uncollected' /\ t \in Transfers /\ state'[t] = state[t]
      BY <1>1, <1>3, <2>2, InFacts DEF Uncollected
    <3> QED
      BY <3>1 DEF Exact
  <2> QED
    BY <2>1, <2>2
<1>8. \A i \in 1 .. Len(events) : events[i].t # Out => events[i].result = Completed(xfer[events[i].t].len)
  BY DEF Exact
<1> QED
  BY <1>6, <1>7, <1>8 DEF Exact

\* Handing a transfer over keeps the order
LEMMA ScheduleDelivered ==
  ASSUME Types, Awaited, Accounted, ~lost, Looping, ScheduleOne, Exact => Delivered, Exact'
  PROVE  Delivered'
<1>a. PICK f : f = freeIdx
  OBVIOUS
<1>0. /\ f \in In /\ f \in Transfers /\ f # Out /\ Todo \in Nat \ {0}
      /\ usb[f] = "none" /\ xfer'[f].pos = inBuf /\ xfer'[f].len = Todo
      /\ \A t \in Transfers : t # f => state'[t] = state[t] /\ xfer'[t] = xfer[t]
  BY <1>a, ScheduleOneFacts, InFacts
<1>1. /\ inBuf' = inBuf + Todo /\ inDone' = inDone /\ queue' = Append(queue, f)
      /\ UNCHANGED <<req, events, reply, readarr, calls>>
  BY <1>a DEF ScheduleOne, history
<1>2. /\ Uncollected' = Uncollected \cup {f} /\ f \notin Uncollected
      /\ Cardinality(Owned) \in Nat /\ Cardinality(Owned') = Cardinality(Owned) + Todo
  BY <1>a, ScheduleOwned DEF Accounted
<1>3. /\ inDone \in Nat /\ inBuf \in Nat /\ Len(queue) \in Nat /\ queue \in Seq(In) /\ Len(events) \in Nat
      /\ events \in Seq([t : Transfers, result : Result])
      /\ \A t \in Transfers : xfer[t].pos \in Nat /\ xfer[t].len \in Nat
  BY DEF Types, RingTypes, QueueTypes, EventTypes, BusTypes
<1>4. \A i \in 1 .. Len(events) : events[i].t \in Transfers /\ events[i].t # f
  <2> TAKE i \in 1 .. Len(events)
  <2>1. events[i] \in [t : Transfers, result : Result]
    BY <1>3, ElementOfSeq
  <2>2. events[i].t \in Transfers
    BY <2>1
  <2> QED
    BY <1>0, <2>2 DEF Types, EventTypes
<1>5. \A i \in 1 .. Len(queue) : queue[i] \in Transfers /\ queue[i] # f
  <2> TAKE i \in 1 .. Len(queue)
  <2>1. queue[i] \in In
    BY <1>3, ElementOfSeq
  <2> QED
    BY <1>0, <2>1, InFacts DEF Types, QueueTypes, OnBus
<1>6. Exact
  <2>1. inDone + Cardinality(Owned) = inBuf
    BY <1>0, <1>1, <1>2, <1>3 DEF Exact
  <2>2. \A t \in Uncollected : state[t] \in {ACTIVE, xfer[t].len}
    <3> TAKE t \in Uncollected
    <3>1. t \in Uncollected' /\ t # f /\ t \in Transfers
      BY <1>2, InFacts DEF Uncollected
    <3> QED
      BY <1>0, <3>1 DEF Exact
  <2>3. \A i \in 1 .. Len(events) : events[i].t # Out => events[i].result = Completed(xfer[events[i].t].len)
    BY <1>0, <1>1, <1>4 DEF Exact
  <2> QED
    BY <2>1, <2>2, <2>3 DEF Exact
<1>7. Delivered
  BY <1>6
<1>8. /\ Len(queue') = Len(queue) + 1 /\ queue'[Len(queue) + 1] = f
      /\ \A i \in 1 .. Len(queue) : queue'[i] = queue[i]
  BY <1>0, <1>1, <1>3, AppendProperties
<1>9. Arrived' = Arrived
  <2>1. queue' # <<>>
    BY <1>3, <1>8, EmptySeq
  <2>2. CASE queue = <<>>
    BY <1>0, <1>8, <2>1, <2>2, EmptySeq DEF Arrived
  <2>3. CASE queue # <<>>
    <3>1. 1 \in 1 .. Len(queue)
      BY <1>3, <2>3, EmptySeq
    <3> QED
      BY <1>0, <1>5, <1>8, <2>1, <2>3, <3>1 DEF Arrived
  <2> QED
    BY <2>2, <2>3
<1>10. ASSUME NEW i \in 1 .. Len(queue')
       PROVE  EndOf(queue[i])' = (IF i = Len(queue) THEN inBuf ELSE xfer[queue[i + 1]].pos)'
  <2>1. CASE i = Len(queue) + 1
    BY <1>0, <1>1, <1>8, <2>1 DEF EndOf
  <2>2. CASE i \in 1 .. Len(queue)
    <3>1. queue'[i] = queue[i] /\ xfer'[queue[i]] = xfer[queue[i]]
      BY <1>0, <1>5, <1>8, <2>2
    <3>2. EndOf(queue[i]) = IF i = Len(queue) THEN inBuf ELSE xfer[queue[i + 1]].pos
      BY <1>7, <2>2 DEF Delivered
    <3>3. CASE i = Len(queue)
      BY <1>0, <1>3, <1>8, <3>1, <3>2, <3>3 DEF EndOf
    <3>4. CASE i # Len(queue)
      <4>1. i + 1 \in 1 .. Len(queue) /\ i # Len(queue')
        BY <1>3, <1>8, <2>2, <3>4
      <4>2. queue'[i + 1] = queue[i + 1] /\ xfer'[queue[i + 1]] = xfer[queue[i + 1]]
        BY <1>0, <1>5, <1>8, <4>1
      <4> QED
        BY <3>1, <3>2, <3>4, <4>1, <4>2 DEF EndOf
    <3> QED
      BY <3>3, <3>4
  <2> QED
    BY <1>3, <1>8, <2>1, <2>2
<1> QED
  BY <1>1, <1>7, <1>9, <1>10 DEF Delivered

\* The end of a transfer keeps the order, or leaves the accounts inexact
LEMMA DeviceDelivered ==
  ASSUME Types, Bounded, Awaited, ~lost, Looping, NEW t \in Transfers, NEW r, DeviceEnds(t, r),
         UNCHANGED <<req, state, ring, xfer, calls>>, Exact => Delivered, Exact'
  PROVE  Delivered'
<1>0. /\ inDone \in Nat /\ inBuf \in Nat /\ Len(queue) \in Nat /\ queue \in Seq(In) /\ Len(events) \in Nat
      /\ reply \in Seq(Nat \X Nat) /\ Len(reply) \in Nat /\ req.read \in Nat
      /\ \A u \in Transfers : xfer[u].pos \in Nat /\ xfer[u].len \in Nat
      /\ readarr \in Seq(Nat \X Nat) /\ Len(readarr) = req.read
  BY DEF Types, RingTypes, QueueTypes, EventTypes, BusTypes, CallTypes
<1>1. /\ Len(events') = Len(events) + 1 /\ events'[Len(events) + 1] = [t |-> t, result |-> r]
      /\ \A i \in 1 .. Len(events) : events'[i] = events[i]
      /\ t = Out => queue' = queue
      /\ t # Out /\ queue[1] = t =>
           /\ Len(queue') = Len(queue) - 1
           /\ \A i \in 1 .. Len(queue') : queue'[i] = queue[i + 1]
      /\ QueueTypes'
  BY EndEffect DEF DeviceEnds
<1>2. Exact
  <2>1. Uncollected' = Uncollected /\ Owned' = Owned
    BY DEF Uncollected, Owned, Places, EndOf
  <2>2. inDone + Cardinality(Owned) = inBuf /\ \A u \in Uncollected : state[u] \in {ACTIVE, xfer[u].len}
    BY <2>1 DEF Exact, ring
  <2>3. \A i \in 1 .. Len(events) : i \in 1 .. Len(events')
    BY <1>0, <1>1
  <2>4. \A i \in 1 .. Len(events) : events[i].t # Out => events[i].result = Completed(xfer[events[i].t].len)
    BY <1>1, <2>3 DEF Exact
  <2> QED
    BY <2>2, <2>4 DEF Exact
<1>3. Delivered
  BY <1>2
<1>4. t # Out => r = Completed(xfer[t].len)
  <2>1. Len(events) + 1 \in 1 .. Len(events')
    BY <1>0, <1>1
  <2> QED
    BY <1>1, <2>1 DEF Exact
<1>5. CASE t = Out
  <2>1. queue' = queue /\ readarr' = readarr
    BY <1>1, <1>5, InFacts DEF DeviceEnds
  <2>2. PICK n \in 0 .. Len(reply) : reply' = SubSeq(reply, 1, n)
    BY <1>5, InFacts DEF DeviceEnds
  <2>3. Len(reply') = n /\ \A i \in 1 .. n : reply'[i] = reply[i]
    BY <1>0, <2>2, CutSeq
  <2>4. Arrived' = Arrived /\ Arrived \in Nat
    <3>1. queue # <<>> => queue[1] \in Transfers
      <4>1. queue # <<>> => 1 \in 1 .. Len(queue)
        BY <1>0, EmptySeq
      <4> QED
        BY <1>0, <4>1, ElementOfSeq, InFacts
    <3> QED
      BY <1>0, <2>1, <3>1 DEF Arrived, ring
  <2>5. (\A i \in 1 .. Len(reply) : reply[i] = <<calls, Arrived + i>>)'
    <3>1. \A i \in 1 .. n : i \in 1 .. Len(reply)
      BY <1>0
    <3>2. \A i \in 1 .. n : reply[i] = <<calls, Arrived + i>>
      BY <1>3, <3>1 DEF Delivered
    <3>3. \A i \in 1 .. n : reply'[i] = <<calls', Arrived' + i>>
      BY <2>3, <2>4, <3>2
    <3> QED
      BY <2>3, <3>3
  <2>6. Len(reply') + Arrived' <= req'.read
    <3>1. Len(reply) + Arrived <= req.read /\ req' = req
      BY <1>3 DEF Delivered
    <3>2. Len(reply') \in Nat /\ Len(reply') <= Len(reply)
      BY <1>0, <2>3
    <3> QED
      BY <1>0, <2>4, <3>1, <3>2
  <2>7. (\A i \in 1 .. Len(queue) : EndOf(queue[i]) = IF i = Len(queue) THEN inBuf ELSE xfer[queue[i + 1]].pos)'
    BY <1>3, <2>1 DEF Delivered, EndOf, ring
  <2>8. (\A i \in 1 .. Arrived : readarr[i] = <<calls, i>>)'
    BY <1>3, <2>1, <2>4 DEF Delivered
  <2> QED
    BY <2>5, <2>6, <2>7, <2>8 DEF Delivered
<1>6. CASE t # Out
  <2>1. t \in In /\ r = Completed(xfer[t].len)
    BY <1>4, <1>6, InFacts
  <2>2. queue # <<>> /\ queue[1] = t
        /\ \E n \in 0 .. Len(reply) :
             /\ r = Completed(n) /\ reply' = SubSeq(reply, n + 1, Len(reply))
             /\ readarr' = [i \in DOMAIN readarr |->
                  IF i - xfer[t].pos \in 1 .. n /\ xfer[t].call = calls
                    THEN reply[i - xfer[t].pos] ELSE readarr[i]]
    BY <1>6, <2>1, Results DEF DeviceEnds
  <2> DEFINE n == xfer[t].len
             p == xfer[t].pos
  <2>3. /\ n \in 0 .. Len(reply) /\ reply' = SubSeq(reply, n + 1, Len(reply))
        /\ readarr' = [i \in DOMAIN readarr |->
                  IF i - p \in 1 .. n /\ xfer[t].call = calls THEN reply[i - p] ELSE readarr[i]]
    BY <2>1, <2>2, Results
  <2>4. usb[t] # "none" /\ xfer[t].call = calls /\ EndOf(t) <= inBuf /\ inBuf <= req.read
    BY <2>1, InFacts DEF DeviceEnds, OnBus, Awaited, Bounded
  <2>5. n \in Nat /\ p \in Nat /\ Arrived = p /\ EndOf(t) = p + n
    BY <1>0, <2>2 DEF Arrived, EndOf
  <2>6. /\ Len(queue') = Len(queue) - 1 /\ \A i \in 1 .. Len(queue') : queue'[i] = queue[i + 1]
        /\ Len(queue) \in Nat \ {0} /\ queue' \in Seq(In)
    BY <1>0, <1>1, <1>6, <2>2, EmptySeq DEF QueueTypes
  <2>7. \A i \in 1 .. Len(queue) : EndOf(queue[i]) = IF i = Len(queue) THEN inBuf ELSE xfer[queue[i + 1]].pos
    BY <1>3 DEF Delivered
  <2>8. Arrived' = p + n
    <3>1. EndOf(t) = IF 1 = Len(queue) THEN inBuf ELSE xfer[queue[2]].pos
      BY <2>2, <2>6, <2>7
    <3>2. CASE Len(queue) = 1
      <4>1. queue' = <<>>
        BY <2>6, <3>2, EmptySeq
      <4> QED
        BY <2>5, <3>1, <3>2, <4>1 DEF Arrived, ring
    <3>3. CASE Len(queue) # 1
      <4>1. 1 \in 1 .. Len(queue') /\ Len(queue') # 0
        BY <2>6, <3>3
      <4>2. queue' # <<>> /\ queue'[1] = queue[2]
        BY <2>6, <4>1, EmptySeq
      <4> QED
        BY <2>5, <3>1, <3>3, <4>2 DEF Arrived
    <3> QED
      BY <3>2, <3>3
  <2>9. Len(reply') = Len(reply) - n /\ \A i \in 1 .. Len(reply) - n : reply'[i] = reply[n + i]
    BY ZenonT(30), <1>0, <2>3, CutSeq
  <2> HIDE DEF n, p
  <2>10. ASSUME NEW i \in 1 .. Len(reply')
         PROVE  reply'[i] = <<calls, p + n + i>>
    <3>1. n + i \in 1 .. Len(reply) /\ p + (n + i) = p + n + i
      BY <1>0, <2>3, <2>5, <2>9
    <3>2. reply[n + i] = <<calls, p + (n + i)>>
      BY <1>3, <2>5, <3>1 DEF Delivered
    <3> QED
      BY <2>9, <3>1, <3>2
  <2>11. Len(reply') + Arrived' <= req.read
    BY <1>0, <1>3, <2>3, <2>5, <2>8, <2>9 DEF Delivered
  <2>12. ASSUME NEW i \in 1 .. p + n
         PROVE  readarr'[i] = <<calls, i>>
    <3>1. DOMAIN readarr = 1 .. req.read /\ i \in 1 .. req.read
      <4>1. i \in 1 .. req.read
        BY <1>0, <2>4, <2>5
      <4> QED
        BY <1>0, <4>1, LenProperties
    <3>2. CASE i <= p
      <4>1. ~(i - p \in 1 .. n) /\ i \in 1 .. p
        BY <2>5, <3>2
      <4> QED
        BY <1>3, <2>3, <2>5, <3>1, <4>1 DEF Delivered
    <3>3. CASE i > p
      <4>1. i - p \in 1 .. n /\ i - p \in 1 .. Len(reply) /\ p + (i - p) = i
        BY <1>0, <2>3, <2>5, <3>3
      <4>2. reply[i - p] = <<calls, p + (i - p)>>
        BY <1>3, <2>5, <4>1 DEF Delivered
      <4> QED
        BY <2>3, <2>4, <3>1, <4>1, <4>2
    <3> QED
      BY <2>5, <3>2, <3>3
  <2>13. ASSUME NEW i \in 1 .. Len(queue')
         PROVE  EndOf(queue[i])' = (IF i = Len(queue) THEN inBuf ELSE xfer[queue[i + 1]].pos)'
    <3>1. i + 1 \in 1 .. Len(queue) /\ queue'[i] = queue[i + 1]
      BY <2>6
    <3>2. EndOf(queue[i + 1]) = IF i + 1 = Len(queue) THEN inBuf ELSE xfer[queue[(i + 1) + 1]].pos
      BY <2>7, <3>1
    <3>3. EndOf(queue[i])' = EndOf(queue[i + 1])
      BY <3>1 DEF EndOf
    <3>4. CASE i = Len(queue')
      BY <2>6, <3>2, <3>3, <3>4 DEF ring
    <3>5. CASE i # Len(queue')
      <4>1. i + 1 \in 1 .. Len(queue') /\ i + 1 # Len(queue)
        BY <2>6, <3>5
      <4> QED
        BY <2>6, <3>2, <3>3, <3>5, <4>1
    <3> QED
      BY <3>4, <3>5
  <2> QED
    BY <2>8, <2>10, <2>11, <2>12, <2>13 DEF Delivered
<1> QED
  BY <1>5, <1>6

\* The order of the answer survives every step
LEMMA OrderedStep ==
  Types /\ Bounded /\ Awaited /\ Accounted /\ Ordered /\ [Next]_vars => Ordered'
<1> SUFFICES ASSUME Types, Bounded, Awaited, Accounted, Ordered, [Next]_vars, ~failed'
             PROVE  Ordered'
  BY DEF Ordered
<1> DEFINE Read == pc = "idle" /\ calls > 0 =>
                     \A i \in 1 .. Len(readarr) : ret = 0 => readarr[i] = <<calls, i>>
           Goal == /\ lost => pc = "wait"
                   /\ Looping /\ Exact => Delivered
                   /\ pc \in {"idle", "out"} => reply = <<>>
                   /\ Read
<1>a. ~failed
  BY DEF Next, Driver, Call, SubmitOut, Schedule, Handle, CollectOut, CollectIn, Cancel, Wait, Device,
         OutEnds, InEnds, Fails, Cancels, vars, history
<1>b. Goal
  BY <1>a DEF Ordered
<1>c. pc # "wait" => ~lost
  BY <1>b
<1>d. /\ req.read \in Nat /\ inDone \in Nat /\ inBuf \in Nat /\ calls \in Nat
      /\ reply \in Seq(Nat \X Nat) /\ readarr \in Seq(Nat \X Nat) /\ Len(readarr) = req.read
      /\ Types'
  BY TypesStep DEF Types, CallTypes, RingTypes, BusTypes
<1> SUFFICES Goal'
  BY DEF Ordered
<1>e. ASSUME pc' \in {"cancel", "wait"}, lost' => pc' = "wait"
      PROVE  Goal'
  BY <1>e DEF Looping
<1>f. ASSUME Looping, Looping', ~lost', Exact' => Delivered'
      PROVE  Goal'
  BY <1>f DEF Looping
<1>1. ASSUME NEW r \in Requests, Call(r)
      PROVE  Goal'
  BY <1>1, <1>b DEF Call, Looping
<1>2. CASE SubmitOut
  <2>0. pc = "out" /\ ~lost /\ ~lost' /\ reply = <<>> /\ UNCHANGED <<req, queue, readarr, calls>>
    BY <1>2, <1>b, <1>c DEF SubmitOut, history
  <2>1. CASE /\ reply' = reply \o [i \in 1 .. req.read |-> <<calls, i>>]
             /\ inBuf' = 0 /\ pc' = "schedule"
    <3>1. queue = <<>> /\ Len(queue) = 0 /\ queue' = <<>>
      BY <2>0, QuietBus DEF Awaited
    <3>2. Arrived' = 0
      BY <2>1, <3>1 DEF Arrived
    <3> DEFINE answer == [i \in 1 .. req.read |-> <<calls, i>>]
    <3>3. answer \in Seq(Nat \X Nat) /\ Len(answer) = req.read
      <4>1. answer \in [1 .. req.read -> Nat \X Nat]
        BY <1>d
      <4> HIDE DEF answer
      <4> QED
        BY <1>d, <4>1, FunSeq
    <3>4. \A i \in 1 .. req.read : answer[i] = <<calls, i>>
      OBVIOUS
    <3>5. reply' = <<>> \o answer
      BY <2>0, <2>1
    <3> HIDE DEF answer
    <3>6. reply' = answer
      BY <3>3, <3>5, ConcatEmptySeq
    <3>7. \A i \in 1 .. Len(reply') : reply'[i] = <<calls', Arrived' + i>>
      <4> TAKE i \in 1 .. Len(reply')
      <4>1. i \in 1 .. req.read /\ 0 + i = i
        BY <1>d, <3>3, <3>6
      <4> QED
        BY <2>0, <3>2, <3>4, <3>6, <4>1
    <3>8. Len(reply') + Arrived' <= req'.read
      BY <1>d, <2>0, <3>2, <3>3, <3>6
    <3>9. (\A i \in 1 .. Arrived : readarr[i] = <<calls, i>>)'
      BY <3>2
    <3>10. (\A i \in 1 .. Len(queue) :
              EndOf(queue[i]) = IF i = Len(queue) THEN inBuf ELSE xfer[queue[i + 1]].pos)'
      BY <3>1
    <3>11. Delivered'
      BY <3>7, <3>8, <3>9, <3>10 DEF Delivered
    <3> QED
      BY <2>0, <2>1, <3>11 DEF Looping
  <2>2. CASE pc' = "cancel"
    BY <1>e, <2>0, <2>2
  <2> QED
    BY <1>2, <2>1, <2>2 DEF SubmitOut
<1>3. CASE Schedule
  <2>0. Looping /\ ~lost
    BY <1>3, <1>c DEF Schedule, Looping
  <2>1. CASE ScheduleOne
    <3>1. Looping' /\ ~lost'
      BY <2>0, <2>1 DEF ScheduleOne, history, Looping
    <3>2. Exact' => Delivered'
      BY <1>b, <2>0, <2>1, ScheduleDelivered
    <3> QED
      BY <1>f, <2>0, <3>1, <3>2
  <2>2. CASE pc' = "handle" /\ UNCHANGED <<req, state, ring, ret, bus, history>>
    <3>1. Looping' /\ ~lost'
      BY <2>0, <2>2 DEF history, Looping
    <3>2. (Exact' <=> Exact) /\ (Delivered' <=> Delivered)
      BY <2>2 DEF Exact, Delivered, Uncollected, Owned, Places, EndOf, Arrived, ring, bus, history
    <3> QED
      BY <1>b, <1>f, <2>0, <3>1, <3>2
  <2>3. CASE pc' = "cancel" /\ UNCHANGED history
    BY <1>e, <2>0, <2>3 DEF history
  <2> QED
    BY <1>3, <2>1, <2>2, <2>3, ScheduleCases
<1>4. CASE Handle
  <2>1. /\ Looping /\ ~lost /\ Looping' /\ ~lost' /\ HandleEvents
        /\ UNCHANGED <<req, xfer, queue, inDone, inBuf, reply, readarr, calls>>
    BY <1>4, <1>c DEF Handle, Looping, ring, history
  <2>2. Exact' => Exact
    BY <2>1, HandleExact
  <2>3. Delivered' <=> Delivered
    BY <2>1 DEF Delivered, EndOf, Arrived
  <2> QED
    BY <1>b, <1>f, <2>1, <2>2, <2>3
<1>5. CASE CollectOut
  <2>1. /\ Looping /\ ~lost /\ ~lost' /\ pc' \in {"cancel", "in_done"}
        /\ UNCHANGED <<req, inDone, inBuf, usb, xfer, queue, events, reply, readarr, calls>>
    BY <1>5, <1>c DEF CollectOut, Looping, bus, history
  <2>2. CASE pc' = "cancel"
    BY <1>e, <2>1, <2>2
  <2>3. CASE pc' = "in_done"
    <3>1. \A t \in In : state'[t] = state[t]
      BY <1>5, InFacts DEF CollectOut, Types, RingTypes
    <3>2. Uncollected' = Uncollected /\ \A t \in Uncollected : state'[t] = state[t]
      BY <3>1 DEF Uncollected
    <3>3. (Exact' <=> Exact) /\ (Delivered' <=> Delivered)
      BY <2>1, <3>2 DEF Exact, Delivered, Owned, Places, EndOf, Arrived
    <3> QED
      BY <1>b, <1>f, <2>1, <2>3, <3>3 DEF Looping
  <2> QED
    BY <2>1, <2>2, <2>3
<1>6. CASE CollectIn
  <2>0. /\ Looping /\ ~lost /\ ~lost'
        /\ UNCHANGED <<req, inBuf, usb, xfer, queue, events, reply, readarr, calls>>
    BY <1>6, <1>c DEF CollectIn, Looping, bus, history
  <2>1. CASE /\ pc' = "in_done" /\ state[inIdx] \notin {IDLE, ACTIVE, ERR}
             /\ inDone' = inDone + state[inIdx] /\ state' = [state EXCEPT ![inIdx] = IDLE]
    <3>1. Exact' => Exact
      BY <2>0, <2>1, CollectExact
    <3>2. Delivered' <=> Delivered
      BY <2>0 DEF Delivered, EndOf, Arrived
    <3> QED
      BY <1>b, <1>f, <2>0, <2>1, <3>1, <3>2 DEF Looping
  <2>2. CASE pc' = "cancel"
    BY <1>e, <2>0, <2>2
  <2>3. CASE pc' = "schedule" /\ UNCHANGED <<state, inDone>>
    <3>1. (Exact' <=> Exact) /\ (Delivered' <=> Delivered)
      BY <2>0, <2>3 DEF Exact, Delivered, Uncollected, Owned, Places, EndOf, Arrived
    <3> QED
      BY <1>b, <1>f, <2>0, <2>3, <3>1 DEF Looping
  <2>4. CASE pc' = "idle" /\ ~Incomplete
    <3>1. /\ inDone = inBuf /\ inBuf = req.read /\ Uncollected = {} /\ Cardinality(Owned) = 0
          /\ \A t \in Transfers : usb[t] = "none"
      BY <2>0, <2>4, NothingOwned
    <3>2. queue = <<>> /\ Len(queue) = 0 /\ Len(events) = 0
      BY <3>1, QuietBus
    <3>3. Exact
      BY <1>d, <3>1, <3>2 DEF Exact
    <3>4. Arrived = req.read
      BY <3>1, <3>2 DEF Arrived
    <3>5. Delivered
      BY <1>b, <2>0, <3>3
    <3>6. Len(reply) + req.read <= req.read /\ \A i \in 1 .. req.read : readarr[i] = <<calls, i>>
      BY <3>4, <3>5 DEF Delivered
    <3>7. reply = <<>>
      <4>1. Len(reply) \in Nat
        BY <1>d, LenProperties
      <4>2. Len(reply) = 0
        BY <1>d, <3>6, <4>1
      <4> QED
        BY <1>d, <4>2, EmptySeq
    <3> QED
      BY <1>d, <2>0, <2>4, <3>6, <3>7 DEF Looping
  <2> QED
    BY <1>6, <2>1, <2>2, <2>3, <2>4, CollectInCases
<1>7. CASE Cancel
  BY <1>7, <1>e DEF Cancel
<1>8. CASE Wait
  BY <1>8, <1>e DEF Wait
<1>9. CASE Device
  <2>1. UNCHANGED <<pc, req, state, ring, ret, xfer, calls, lost, failed>>
    BY <1>9, DeviceCases DEF history
  <2>2. PICK t \in Transfers : \E r : DeviceEnds(t, r)
    BY <1>9, DeviceCases
  <2>3. PICK r : DeviceEnds(t, r)
    BY <2>2
  <2>4. usb[t] # "none"
    BY <2>3 DEF DeviceEnds, OnBus
  <2>5. CASE Looping
    <3>1. ~lost /\ ~lost' /\ Looping'
      BY <1>c, <2>1, <2>5 DEF Looping
    <3>2. Exact' => Delivered'
      BY <1>b, <2>1, <2>3, <2>5, <3>1, DeviceDelivered
    <3> QED
      BY <1>f, <2>5, <3>1, <3>2
  <2>6. CASE pc \in {"idle", "out"}
    BY <1>c, <2>4, <2>6 DEF Awaited
  <2>7. CASE pc \in {"cancel", "wait"}
    BY <1>b, <1>e, <2>1, <2>7
  <2> QED
    BY <2>5, <2>6, <2>7 DEF Types, CallTypes, PCs, Looping
<1>10. CASE UNCHANGED vars
  <2>1. Goal' <=> Goal
    BY <1>10 DEF vars, bus, ring, history, Looping, Exact, Delivered, Uncollected, Owned, Places, EndOf, Arrived
  <2> QED
    BY <1>b, <2>1
<1> QED
  BY <1>1, <1>2, <1>3, <1>4, <1>5, <1>6, <1>7, <1>8, <1>9, <1>10 DEF Next, Driver

\* A call that returns success has filled its buffer with the answer to its own commands, in
\* order, whatever the sizes of ring, packets and request; and no transfer of the running call
\* reaches past the end of the buffer (the loop of usb_transfer() over its ring of transfers).
THEOREM BufferFilledInOrder == Spec => []Filled
<1>1. Init => IInv
  BY InitTypes, InitBounded, InitAwaited, InitAccounted, InitOrdered DEF IInv
<1>2. IInv /\ [Next]_vars => IInv'
  BY TypesStep, BoundedStep, AwaitedStep, AccountedStep, OrderedStep DEF IInv
<1>3. ASSUME IInv
      PROVE  Filled
  <2> USE <1>3 DEF IInv
  <2>1. /\ DOMAIN readarr = 1 .. Len(readarr) /\ inBuf \in Nat /\ req.read \in Nat
        /\ \A t \in Transfers : xfer[t].pos \in Nat /\ xfer[t].len \in Nat
    BY DEF Types, BusTypes, RingTypes, CallTypes
  <2>2. pc = "idle" /\ ret = 0 /\ ~failed /\ calls > 0 =>
          \A i \in DOMAIN readarr : readarr[i] = <<calls, i>>
    BY <2>1 DEF Ordered
  <2>3. Looping => \A t \in In :
          usb[t] # "none" /\ xfer[t].call = calls => xfer[t].pos + xfer[t].len <= req.read
    BY <2>1, InFacts DEF Bounded, EndOf
  <2> QED
    BY <2>2, <2>3 DEF Filled
<1> QED
  BY <1>1, <1>2, <1>3, PTL DEF Spec

=============================================================================
