----------------------------- MODULE FlashImage -----------------------------
(***************************************************************************)
(* What the four image operations of libflashprog promise to the program   *)
(* that calls them, whatever goes wrong on the way: which cells an         *)
(* operation may change, and what its return value says about the chip.    *)
(* FlashUpdate is shown to implement it.                                   *)
(*                                                                         *)
(* Nothing is said here of erase blocks, granules, mirrors or retries: a   *)
(* running operation may change any cell that is near what it was asked    *)
(* for, and it is only held to account when it returns.                    *)
(***************************************************************************)
EXTENDS Integers

CONSTANTS
  Addr,      \* the chip's offsets
  Byte,      \* what a cell can hold
  Erased,    \* and holds when it is erased
  NoRef,     \* "no reference file"
  Requests   \* the calls that are made

Buffer == [Addr -> Byte]

\* cells: what the call is about, near: what lies in the smallest erase blocks around it
Request == [op : {"erase", "read", "write", "verify"}, cells : SUBSET Addr,
            near : SUBSET Addr, image : Buffer, fits : BOOLEAN,
            verify : BOOLEAN, verifyAll : BOOLEAN, ref : Buffer \cup {NoRef}]

VARIABLES
  chip,     \* contents of the chip
  phase,    \* the operation: not begun, running or done
  call,     \* what was called for
  result,   \* the return value, once it is done
  data,     \* what was read
  before    \* contents of the chip when the operation began

vars == <<chip, phase, call, result, data, before>>

Init ==
  /\ chip \in Buffer /\ phase = "idle" /\ before = chip
  /\ result = 0 /\ data \in Buffer /\ call \in Request /\ call.op = "read"

\* A caller whose buffer has the wrong size is turned down at once
Begin(r) ==
  /\ phase # "running"
  /\ call' = r /\ before' = chip /\ data' \in Buffer
  /\ IF r.fits \/ r.op = "erase"
       THEN phase' = "running" /\ UNCHANGED result
       ELSE phase' = "done" /\ result' = (IF r.op = "write" THEN 4 ELSE 2)
  /\ UNCHANGED chip

\* Only an erase and a write change the chip, and only near what they are about.  The
\* result of the operation before may be around for a while.
Work ==
  /\ phase = "running" /\ data' \in Buffer /\ result' \in {result} \cup 0 .. 3
  /\ chip' \in Buffer
  /\ \A a \in Addr : chip'[a] # chip[a] => call.op \in {"erase", "write"} /\ a \in call.near
  /\ UNCHANGED <<phase, call, before>>

-----------------------------------------------------------------------------
(* What a return value promises                                            *)

Holds(image, cells) == \A a \in cells : chip[a] = image[a]

EraseReturns(r) ==
  \/ r = 1
  \/ r = 0 /\ Holds([a \in Addr |-> Erased], call.cells)
ReadReturns(r) ==
  \/ r = 1
  \/ r = 0 /\ Holds(data', call.cells)
VerifyReturns(r) ==
  \/ r = 1
  \/ r = 0 /\ Holds(call.image, call.cells)
  \/ r = 3 /\ ~Holds(call.image, call.cells)

\* A write that was verified has written the image, and has kept the rest if all of the
\* chip was verified.  With a wrong reference file it may take the image for written, and
\* does not verify what it did not write.
TrueRef == call.ref \in {NoRef, before}
WriteReturns(r) ==
  \/ r \in 1 .. 3
  \/ /\ r = 0
     /\ call.verify /\ (TrueRef \/ chip # before) =>
          /\ Holds(call.image, call.cells)
          /\ call.verifyAll /\ TrueRef => Holds(before, Addr \ call.cells)

Finish ==
  /\ phase = "running" /\ phase' = "done"
  /\ data' \in Buffer
  /\ CASE call.op = "erase"  -> EraseReturns(result')
       [] call.op = "read"   -> ReadReturns(result')
       [] call.op = "write"  -> WriteReturns(result')
       [] call.op = "verify" -> VerifyReturns(result')
  /\ UNCHANGED <<chip, call, before>>

Next == Work \/ Finish \/ \E r \in Requests : Begin(r)
Spec == Init /\ [][Next]_vars

=============================================================================
