------------------------------ MODULE MCSpiNor ------------------------------
(***************************************************************************)
(* Chips and masters for TLC to check SpiNor with.                         *)
(***************************************************************************)
EXTENDS SpiNor

\* A chip without extras on a master with nothing but single I/O; the others differ from it
Plain25 ==
  [size |-> 2, enter |-> "none", ear |-> FALSE, native |-> {}, qpi |-> FALSE, qpi4b |-> FALSE,
   io |-> {}, qe |-> FALSE, ewsr |-> FALSE, master4ba |-> FALSE, noModes |-> FALSE,
   top |-> FALSE, masterIo |-> {"single"}, maxRead |-> 3, maxWrite |-> 2]

AllNative == {"read", "fast", "write"}

\* A 32 MiB chip with everything on a master with everything
Large == [Plain25 EXCEPT !.size = 8, !.enter = "plain", !.ear = TRUE, !.native = AllNative]
Modern ==
  [Large EXCEPT !.qpi = TRUE, !.io = {"dual_out", "quad_io"}, !.qe = TRUE, !.ewsr = TRUE,
                !.master4ba = TRUE, !.masterIo = IoModes]

MCDevices ==
  { Modern, [Modern EXCEPT !.qpi4b = TRUE, !.ewsr = FALSE],
    [Modern EXCEPT !.masterIo = IoModes \ {"qpi"}, !.native = {}, !.qe = FALSE],
    \* No master for its address mode: by the extended address register
    Large, [Large EXCEPT !.enter = "ear7"], [Large EXCEPT !.enter = "wren", !.maxWrite = 1],
    [Large EXCEPT !.enter = "ear7", !.master4ba = TRUE, !.native = {}],
    \* Nothing to reach the second half with
    [Large EXCEPT !.ear = FALSE, !.native = {}],
    \* A master that must not change the mode, with and without four address bytes
    [Large EXCEPT !.noModes = TRUE], [Large EXCEPT !.noModes = TRUE, !.master4ba = TRUE],
    \* Small chips: at the top of the address space; with AAI programming, on a master that
    \* could send four address bytes
    [Plain25 EXCEPT !.top = TRUE, !.size = 4, !.io = {"dual_io"}, !.masterIo = {"single", "dual_io"}],
    [Plain25 EXCEPT !.size = 4, !.master4ba = TRUE] }

Ask(op, start, len) == [op |-> op, start |-> start, len |-> len]
MCRequests ==
  { Ask("read", 3, 5), Ask("read", 0, 4), Ask("write", 2, 4), Ask("write", 0, 2),
    Ask("aai", 0, 4), Ask("erase", 4, 4), Ask("erase", 0, 2), Ask("erase4", 4, 2),
    Ask("wipe", 0, 8) }

=============================================================================
