----------------------------- MODULE Ch341aUsb -----------------------------
(***************************************************************************)
(* usb_transfer() of the CH341A driver (ch341a_spi.c): one OUT transfer    *)
(* and a ring of IN transfers, run through libusb's asynchronous interface.*)
(*                                                                         *)
(* Transfers end whenever the device, a timeout or a cancellation ends     *)
(* them; their callbacks run only while the driver handles events, and     *)
(* write to variables on its stack.  The driver submits IN transfers ahead *)
(* of the data and takes them back in the same order.                      *)
(***************************************************************************)
EXTENDS Integers, Sequences, FiniteSets, FiniteSetsExt, SequencesExt

CONSTANTS
  Slots,        \* USB_IN_TRANSFERS
  Packet,       \* CH341_PACKET_LENGTH - 1
  Requests,     \* calls: how many bytes to write and to read
  MaxFaults,    \* bound: transfers and libusb calls that go wrong
  MaxCalls      \* bound: calls in one behaviour

In == 0 .. Slots - 1
Out == Slots                         \* the OUT transfer, with the number after the ring
Transfers == 0 .. Slots

ASSUME UsbAssumption ==
  /\ Slots \in Nat \ {0} /\ Packet \in Nat \ {0}
  /\ Requests \subseteq [write : Nat \ {0}, read : Nat]
  /\ MaxFaults \in Nat /\ MaxCalls \in Nat

\* enum trans_state: anything positive is a number of bytes
ACTIVE == -2
ERR == -1
IDLE == 0

VARIABLES
  pc,        \* where usb_transfer() is; "idle" when it does not run
  req,       \* its parameters
  state,     \* state_in[], and state_out at Out
  freeIdx, inIdx, inDone, inActive, outDone,
  inBuf,     \* offset of in_buf in readarr
  ret,       \* result of the last call
  usb,       \* libusb's view of each transfer: "none", "flying", "canceling", "ended"
  xfer,      \* offset, length and call of what was submitted
  queue,     \* IN transfers on the bus, in the order of submission
  events,    \* ended transfers whose callbacks have not run, with their results
  reply,     \* what the device has to say: <<call, number of the byte>>
  readarr,   \* bytes received by the call
  faults, calls,
  lost,      \* history: a transfer could not be cancelled
  failed     \* history: some call has failed

ring == <<freeIdx, inIdx, inDone, inActive, outDone, inBuf>>
bus == <<usb, xfer, queue, events, reply, readarr>>
history == <<calls, lost, failed>>
vars == <<pc, req, state, ring, ret, bus, faults, history>>

PCs == {"idle", "out", "schedule", "handle", "out_done", "in_done", "cancel", "wait"}
Completed(n) == [status |-> "completed", len |-> n]
Cancelled == [status |-> "cancelled", len |-> 0]
Failed == [status |-> "failed", len |-> 0]

Fault == faults < MaxFaults /\ faults' = faults + 1

Init ==
  /\ pc = "idle" /\ req = [write |-> 1, read |-> 0] /\ ret = 0
  /\ state = [t \in Transfers |-> IDLE]
  /\ freeIdx = 0 /\ inIdx = 0 /\ inDone = 0 /\ inActive = 0 /\ outDone = 0 /\ inBuf = 0
  /\ usb = [t \in Transfers |-> "none"]
  /\ xfer = [t \in Transfers |-> [pos |-> 0, len |-> 0, call |-> 0]]
  /\ queue = <<>> /\ events = <<>> /\ reply = <<>> /\ readarr = <<>>
  /\ faults = 0 /\ calls = 0 /\ lost = FALSE /\ failed = FALSE

-----------------------------------------------------------------------------
(* The call                                                                *)

\* Its variables; those of the IN transfers come later, see SubmitOut
Call(r) ==
  /\ pc = "idle" /\ calls < MaxCalls
  /\ pc' = "out" /\ req' = r /\ calls' = calls + 1
  /\ readarr' = [i \in 1 .. r.read |-> <<0, 0>>]
  /\ UNCHANGED <<state, ring, ret, usb, xfer, queue, events, reply, faults, lost, failed>>

Submitted(t, pos, len) ==
  /\ usb[t] = "none"
  /\ usb' = [usb EXCEPT ![t] = "flying"]
  /\ xfer' = [xfer EXCEPT ![t] = [pos |-> pos, len |-> len, call |-> calls]]

\* libusb_submit_transfer() may fail, and does when the transfer is still in use
Refused(t) == IF usb[t] # "none" THEN UNCHANGED faults ELSE Fault

\* "Schedule write first".  On failure the jump to the end of the function skips
\* the initialisation of state_in[]: it holds whatever the stack held.
SubmitOut ==
  /\ pc = "out"
  /\ \/ /\ Submitted(Out, 0, req.write)
        /\ reply' = reply \o [i \in 1 .. req.read |-> <<calls, i>>]
        /\ state' = [t \in Transfers |-> IF t = Out THEN ACTIVE ELSE IDLE]
        /\ freeIdx' = 0 /\ inIdx' = 0 /\ inDone' = 0 /\ inActive' = 0 /\ outDone' = 0
        /\ inBuf' = 0
        /\ pc' = "schedule" /\ UNCHANGED faults
     \/ /\ Refused(Out) /\ pc' = "cancel"
        /\ \E junk \in {ACTIVE, ERR, IDLE} :
             state' = [t \in Transfers |-> IF t = Out THEN ERR ELSE junk]
        /\ UNCHANGED <<ring, usb, xfer, reply>>
  /\ UNCHANGED <<req, ret, queue, events, readarr, history>>

\* Mutants: the ring never wraps; reading is over when writing is
NextIdxNoWrap(i) == i + 1
IncompleteBoth == outDone < req.write /\ inDone < req.read

Todo == Min({Packet, req.read - inDone - inActive})
NextIdx(i) == (i + 1) % Slots
Incomplete == outDone < req.write \/ inDone < req.read

\* "Schedule new reads as long as there are free transfers and unscheduled bytes"
Schedule ==
  /\ pc = "schedule"
  /\ IF ~(inDone + inActive < req.read /\ state[freeIdx] = IDLE)
       THEN pc' = "handle" /\ UNCHANGED <<state, ring, usb, xfer, queue, faults>>
     ELSE
       \/ /\ Submitted(freeIdx, inBuf, Todo)
          /\ queue' = Append(queue, freeIdx)
          /\ inBuf' = inBuf + Todo /\ inActive' = inActive + Todo
          /\ state' = [state EXCEPT ![freeIdx] = ACTIVE]
          /\ freeIdx' = (freeIdx + 1) % Slots
          /\ UNCHANGED <<pc, inIdx, inDone, outDone, faults>>
       \/ /\ Refused(freeIdx)
          /\ state' = [state EXCEPT ![freeIdx] = ERR] /\ pc' = "cancel"
          /\ UNCHANGED <<ring, usb, xfer, queue>>
  /\ UNCHANGED <<req, ret, events, reply, readarr, history>>

-----------------------------------------------------------------------------
(* Callbacks                                                               *)

\* cb_common(): a length of zero is TRANS_IDLE
ResultState(result) ==
  CASE result = Cancelled -> IDLE [] result = Failed -> ERR [] OTHER -> result.len

\* libusb_handle_events_timeout() runs the callbacks of what has ended, at least
\* one if there is any.  A callback that belongs to an earlier call writes to a
\* stack frame that is gone, which may or may not be where this one is.
HandleEvents ==
  IF events = <<>> THEN UNCHANGED <<state, usb, events>>
  ELSE \E n \in 1 .. Len(events) :
         LET run == {i \in 1 .. n : TRUE}
             hit(t) == {i \in run : events[i].t = t}
             landed(t) == ResultState(events[Max(hit(t))].result)
         IN  /\ \E stray \in SUBSET {t \in Transfers : xfer[t].call # calls} :
                  state' = [t \in Transfers |->
                              IF hit(t) # {} /\ t \notin stray THEN landed(t) ELSE state[t]]
             /\ usb' = [t \in Transfers |-> IF hit(t) # {} THEN "none" ELSE usb[t]]
             /\ events' = SubSeq(events, n + 1, Len(events))

Handle ==
  /\ pc = "handle" /\ HandleEvents /\ pc' = "out_done"
  /\ UNCHANGED <<req, ring, ret, xfer, queue, reply, readarr, faults, history>>

\* "Check for the write"
CollectOut ==
  /\ pc = "out_done"
  /\ IF outDone < req.write /\ state[Out] = ERR
       THEN pc' = "cancel" /\ UNCHANGED <<outDone, state>>
     ELSE /\ pc' = "in_done"
          /\ IF outDone < req.write /\ state[Out] > 0
               THEN outDone' = outDone + state[Out] /\ state' = [state EXCEPT ![Out] = IDLE]
               ELSE UNCHANGED <<outDone, state>>
  /\ UNCHANGED <<req, freeIdx, inIdx, inDone, inActive, inBuf, ret, bus, faults, history>>

\* "If a transfer is done, record the number of bytes read and reuse it later",
\* one transfer at a time; then the condition of the outer loop
CollectIn ==
  /\ pc = "in_done"
  /\ \/ /\ state[inIdx] \notin {IDLE, ACTIVE, ERR}
        /\ inDone' = inDone + state[inIdx] /\ inActive' = inActive - state[inIdx]
        /\ state' = [state EXCEPT ![inIdx] = IDLE]
        /\ inIdx' = NextIdx(inIdx)
        /\ UNCHANGED <<pc, ret>>
     \/ /\ state[inIdx] = ERR /\ pc' = "cancel"
        /\ UNCHANGED <<state, inIdx, inDone, inActive, ret>>
     \/ /\ state[inIdx] \in {IDLE, ACTIVE}
        /\ IF Incomplete
             THEN pc' = "schedule" /\ UNCHANGED ret
             ELSE pc' = "idle" /\ ret' = 0
        /\ UNCHANGED <<state, inIdx, inDone, inActive>>
  /\ UNCHANGED <<req, freeIdx, outDone, inBuf, bus, faults, history>>

-----------------------------------------------------------------------------
(* Clean up on errors                                                      *)

Pending == IF req.read > 0 THEN Transfers ELSE {Out}
\* Mutants: only the OUT transfer is waited for; a failing cancellation is ignored
WaitingOut == state[Out] = ACTIVE
CancelledIgnored(t) == FALSE
Waiting == \E t \in Pending : state[t] = ACTIVE

\* libusb_cancel_transfer() does not find a transfer that is not in flight
CancelFails(t) == usb[t] = "none"

\* "First, we must cancel any ongoing requests and wait for them to be canceled".
\* What cannot be cancelled is given up.
Cancel ==
  /\ pc = "cancel" /\ pc' = "wait"
  /\ \E refused \in SUBSET {t \in Pending : state[t] = ACTIVE /\ ~CancelFails(t)} :
       /\ IF refused = {} THEN UNCHANGED <<faults, lost>> ELSE Fault /\ lost' = TRUE
       /\ LET asked == {t \in Pending : state[t] = ACTIVE}
              fails == refused \cup {t \in asked : CancelFails(t)}
          IN  /\ state' = [t \in Transfers |-> IF t \in fails THEN ERR ELSE state[t]]
              /\ usb' = [t \in Transfers |->
                           IF t \in asked \ fails /\ usb[t] = "flying" THEN "canceling"
                           ELSE usb[t]]
  /\ UNCHANGED <<req, ring, ret, xfer, queue, events, reply, readarr, calls, failed>>

\* "Wait for cancellations to complete"
Wait ==
  /\ pc = "wait"
  /\ IF Waiting THEN HandleEvents /\ UNCHANGED <<pc, ret, failed>>
     ELSE pc' = "idle" /\ ret' = -1 /\ failed' = TRUE /\ UNCHANGED <<state, usb, events>>
  /\ UNCHANGED <<req, ring, xfer, queue, reply, readarr, faults, calls, lost>>

-----------------------------------------------------------------------------
(* The device and libusb                                                   *)

End(t, result) ==
  /\ usb' = [usb EXCEPT ![t] = "ended"]
  /\ events' = Append(events, [t |-> t, result |-> result])
  /\ IF t = Out THEN UNCHANGED queue
     ELSE \E i \in DOMAIN queue : queue[i] = t /\ queue' = RemoveAt(queue, i)

\* The device takes the commands and their data
OutEnds ==
  /\ usb[Out] \in {"flying", "canceling"}
  /\ End(Out, Completed(xfer[Out].len))
  /\ UNCHANGED <<pc, req, state, ring, ret, xfer, reply, readarr, faults, history>>

\* The oldest IN transfer gets the next bytes: all it asks for, unless the device
\* ends it early
InEnds ==
  LET t == Head(queue)
      full == Min({xfer[t].len, Len(reply)})
      cell(i) == i - xfer[t].pos
  IN  /\ queue # <<>> /\ reply # <<>>
      /\ \E n \in 0 .. full :
           /\ IF n = full THEN UNCHANGED faults ELSE Fault
           /\ End(t, Completed(n))
           /\ reply' = SubSeq(reply, n + 1, Len(reply))
           /\ readarr' = [i \in DOMAIN readarr |->
                IF cell(i) \in 1 .. n /\ xfer[t].call = calls THEN reply[cell(i)] ELSE readarr[i]]
      /\ UNCHANGED <<pc, req, state, ring, ret, xfer, history>>

\* An error or a timeout; no IN transfer is served before an older one
Fails(t) ==
  /\ usb[t] \in {"flying", "canceling"} /\ (t # Out => Head(queue) = t)
  /\ IF t # Out /\ reply = <<>> THEN UNCHANGED faults ELSE Fault
  /\ End(t, Failed)
  /\ \/ UNCHANGED reply
     \/ t = Out /\ \E n \in 0 .. Len(reply) : reply' = SubSeq(reply, 1, n)
  /\ UNCHANGED <<pc, req, state, ring, ret, xfer, readarr, history>>

Cancels(t) ==
  /\ usb[t] = "canceling"
  /\ End(t, Cancelled)
  /\ \/ UNCHANGED reply
     \/ t = Out /\ \E n \in 0 .. Len(reply) : reply' = SubSeq(reply, 1, n)
  /\ UNCHANGED <<pc, req, state, ring, ret, xfer, readarr, faults, history>>

-----------------------------------------------------------------------------

Driver == SubmitOut \/ Schedule \/ Handle \/ CollectOut \/ CollectIn \/ Cancel \/ Wait
Device == OutEnds \/ InEnds \/ \E t \in Transfers : Fails(t) \/ Cancels(t)

Next == (\E r \in Requests : Call(r)) \/ Driver \/ Device
Spec == Init /\ [][Next]_vars
\* The driver never blocks, and every transfer ends: it has a timeout
FairSpec == Spec /\ WF_vars(Driver) /\ WF_vars(Device)

-----------------------------------------------------------------------------
(* What usb_transfer() promises                                            *)

Looping == pc \in {"schedule", "handle", "out_done", "in_done"}

\* Every variable keeps its type; a transfer is in one state only
TypeOK ==
  /\ pc \in PCs /\ ret \in {-1, 0}
  /\ \A t \in Transfers : state[t] \in -2 .. Max({xfer[t].len, 0})
  /\ freeIdx \in In /\ inIdx \in In
  /\ {inDone, inDone + inActive, outDone, inBuf, faults, calls} \subseteq Nat
  /\ inActive \in Nat \/ lost     \* unsigned: it wraps when a stray callback lands
  /\ \A t \in In : usb[t] \in {"flying", "canceling"} <=> \E i \in DOMAIN queue : queue[i] = t
  /\ \A t \in Transfers : usb[t] = "ended" <=> \E i \in DOMAIN events : events[i].t = t

\* A call that succeeds has filled its buffer with the answer to its own commands,
\* in order; an earlier failure may leave part of an old answer in the device. On the
\* way there no transfer of this call ever reaches past the end of the buffer.
Filled ==
  /\ pc = "idle" /\ ret = 0 /\ ~failed /\ calls > 0 =>
       \A i \in DOMAIN readarr : readarr[i] = <<calls, i>>
  /\ Looping => \A t \in In :
       usb[t] # "none" /\ xfer[t].call = calls => xfer[t].pos + xfer[t].len <= req.read

\* When the function returns, libusb holds no transfer whose callback would still
\* write to its variables, unless one could not be cancelled
NothingInFlight == pc = "idle" /\ ~lost => \A t \in Transfers : usb[t] = "none"

\* A transfer that ended early leaves its missing bytes in in_active; nothing will bring them
Stranded == pc = "handle" /\ inDone < req.read /\ \A t \in In : state[t] # ACTIVE

\* Every call returns, unless a transfer of an earlier one could not be cancelled, or one
\* ended early
Returns == pc # "idle" ~> pc = "idle" \/ lost \/ Stranded

=============================================================================
