---------------------------- MODULE DriverSteps ----------------------------
(***************************************************************************)
(* What the init and shutdown functions of the programmer drivers do to    *)
(* the resources of the program, as sequences of steps. PciDrivers,        *)
(* UsbDrivers and SystemDrivers hold one sequence per driver, Lifecycle    *)
(* executes them.                                                          *)
(*                                                                         *)
(* A resource is anything that has to be given back: memory, a mapping, a  *)
(* descriptor, a USB context or handle, a privilege, and the changed       *)
(* contents of a register of the hardware. A step reaches the hardware     *)
(* via other resources, which have to be there. What a step reads or       *)
(* writes otherwise is left out.                                           *)
(***************************************************************************)

EXTENDS Sequences

Nothing == [op |-> "", on |-> "", via |-> {}, body |-> <<>>, undo |-> <<>>]

\* One of several sequences of steps, which one the hardware or the
\* parameters decide.
Either(alternatives) == [Nothing EXCEPT !.op = "either", !.body = alternatives]

\* A function that is called: a sequence of steps.
Do(steps) == Either(<<steps>>)

\* The resource r is there from now on; this cannot fail, or is not checked.
Get(r, via) == [Nothing EXCEPT !.op = "get", !.on = r, !.via = via]

\* The register r of the hardware does not hold what it did before.
Put(r, via) == Get(r, via)

\* The resource r is asked for, and refused for whatever reason. `undo' is
\* what the function does before it returns an error, here and below.
Take(r, via, undo) ==
  [Nothing EXCEPT !.op = "take", !.on = r, !.via = via, !.undo = undo]

\* Something else is checked that may turn out wrong.
Ask(via, undo) == [Nothing EXCEPT !.op = "ask", !.via = via, !.undo = undo]

\* The hardware is accessed and the result not looked at.
Tell(via) == [Nothing EXCEPT !.op = "tell", !.via = via]

\* The pointer p has to be NULL.
Fresh(p) == [Nothing EXCEPT !.op = "fresh", !.on = p]

\* register_shutdown(): `body' is for programmer_shutdown().
OnExit(body, undo) ==
  [Nothing EXCEPT !.op = "on_exit", !.body = body, !.undo = undo]

\* The same where the init function goes on if it fails, after `undo'.
Note(body, undo) == [OnExit(body, undo) EXCEPT !.op = "note"]

\* register_spi_master(), register_par_master() and register_opaque_master();
\* `body' is the master's shutdown function, <<>> if it has none.
Master(body, undo) ==
  [Nothing EXCEPT !.op = "master", !.body = body, !.undo = undo]

\* The same where the result is ignored.
MasterLax(body) == [Nothing EXCEPT !.op = "master_lax", !.body = body]

\* The resource r is given back; its pointer keeps its value, or not.
Free(r, via) == [Nothing EXCEPT !.op = "free", !.on = r, !.via = via]
Close(r, via) == [Free(r, via) EXCEPT !.op = "close"]

\* The same if the pointer is not NULL.
FreeIf(r, via) == [Free(r, via) EXCEPT !.op = "free_if"]
CloseIf(r, via) == [Free(r, via) EXCEPT !.op = "close_if"]

\* The pointer p is set to NULL.
Clear(p) == [Nothing EXCEPT !.op = "clear", !.on = p]

\* The register r gets its former contents.
Reset(r, via) == [Free(r, via) EXCEPT !.op = "reset"]

---------------------------------------------------------------------------
(* Functions that several drivers call *)

\* extract_programmer_param() and a look at the value.
Param(undo) == Ask({}, undo)

\* A register is changed after its contents were put aside for the shutdown:
\* rpci_write_*() and rmmio_*().
Save(r, via) == Do(<<Note(<<Reset(r, via)>>, <<>>), Put(r, via)>>)

rget_io_perms ==
  Do(<<Take("io", {}, <<>>), Note(<<Free("io", {})>>, <<>>)>>)

pcidev_init ==
  Do(<<Fresh("pacc"), Get("pacc", {}), OnExit(<<CloseIf("pacc", {})>>, <<>>),
       Ask({"pacc"}, <<>>)>>)

pcidev_readbar == Ask({"pacc"}, <<>>)

rpci_write(r) == Save(r, {"pacc"})

rphysmap(r) ==
  Do(<<Take(r, {}, <<>>), OnExit(<<Free(r, {})>>, <<Free(r, {})>>)>>)

\* rphysmap() where the caller takes ERROR_PTR for a mapping.
rphysmap_unchecked(r) ==
  Either(<< <<Get(r, {}), Note(<<Free(r, {})>>, <<Free(r, {})>>)>>, <<>> >>)

register_spi_bitbang_master(via, undo) ==
  Do(<<Take("bitbang", {}, undo), MasterLax(<<Free("bitbang", {})>>),
       Tell({"bitbang"} \union via)>>)

=============================================================================
