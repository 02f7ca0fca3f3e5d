----------------------------- MODULE Lifecycle -----------------------------
(***************************************************************************)
(* The life of a programmer: programmer_init() runs the init function of a *)
(* driver, which acquires resources, changes the hardware and registers    *)
(* shutdown functions and masters; programmer_shutdown() runs the shutdown *)
(* functions, the last one first, after an error or when the user is done. *)
(* Sessions follow each other in one process, and what drivers keep in     *)
(* static variables survives from one to the next.                         *)
(*                                                                         *)
(* A driver is a sequence of steps (see DriverSteps). Wherever a step may  *)
(* fail it may do so here, in any combination.                             *)
(***************************************************************************)
EXTENDS Naturals, SequencesExt, PciDrivers, UsbDrivers, SystemDrivers

VARIABLES
  drv,                      \* the driver of this session
  phase,                    \* what of it is running
  todo,                     \* the steps of that which are to come
  may_register_shutdown,
  shutdown_fn,              \* the registered shutdown functions
  registered_master_count,
  pointers,                 \* the pointers and handles that are not NULL
  held,                     \* the resources that are there
  misuse,                   \* a resource was used or released that was not there
  refused,                  \* a table was full, or closed
  failed                    \* a step of this session failed

vars == <<drv, phase, todo, may_register_shutdown, shutdown_fn,
          registered_master_count, pointers, held, misuse, refused, failed>>

registries == <<may_register_shutdown, shutdown_fn, registered_master_count, refused>>

SHUTDOWN_MAXFN == 32
MASTERS_MAX == 4

Phases == {"idle", "init", "undo", "ready", "down"}

\* All drivers but the one for mainboards, "internal"; linux_gpio_spi in both of its versions, for
\* either version of libgpiod.
programmer_table ==
  [atahpt |-> atahpt_init, atapromise |-> atapromise_init, atavia |-> atavia_init,
   buspirate_spi |-> buspirate_spi_init, ch341a_spi |-> ch341a_spi_init,
   ch347_spi |-> ch347_spi_init, dediprog |-> dediprog_init,
   developerbox |-> developerbox_spi_init, digilent_spi |-> digilent_spi_init,
   dirtyjtag_spi |-> dirtyjtag_spi_init, drkaiser |-> drkaiser_init,
   dummy |-> dummy_init, ft2232_spi |-> ft2232_spi_init, ft4222_spi |-> ft4222_spi_init,
   gfxmatrox |-> gfxmatrox_init, gfxnvidia |-> gfxnvidia_init, it8212 |-> it8212_init,
   jlink_spi |-> jlink_spi_init, linux_gpio_spi |-> linux_gpio_spi_init,
   linux_gpio2_spi |-> linux_gpio2_spi_init, linux_mtd |-> linux_mtd_init,
   linux_spi |-> linux_spi_init, mstarddc_spi |-> mstarddc_spi_init,
   ni845x_spi |-> ni845x_spi_init, nic3com |-> nic3com_init, nicamd |-> nicamd_init,
   nicintel |-> nicintel_init, nicintel_eeprom |-> nicintel_ee_init,
   nicintel_spi |-> nicintel_spi_init, nicnatsemi |-> nicnatsemi_init,
   nicrealtek |-> nicrealtek_init, ogp_spi |-> ogp_spi_init, pickit2_spi |-> pickit2_spi_init,
   pony_spi |-> pony_spi_init, rayer_spi |-> rayer_spi_init, satamv |-> satamv_init,
   satasii |-> satasii_init, scsilsi |-> scsilsi_init, serprog |-> serprog_init,
   stlinkv3_spi |-> stlinkv3_spi_init, usbblaster_spi |-> usbblaster_spi_init]

\* The pointers among static variables; all others are born with a session.
Static == {"pacc", "ch341a", "digilent", "ni_device", "ni_config", "sp_write_n_buf"}

---------------------------------------------------------------------------
Init ==
  /\ drv = "" /\ phase = "idle" /\ todo = <<>>
  /\ may_register_shutdown = FALSE /\ shutdown_fn = <<>> /\ registered_master_count = 0
  /\ pointers = {} /\ held = {}
  /\ misuse = FALSE /\ refused = FALSE /\ failed = FALSE

\* flashprog_programmer_init()
Start ==
  /\ phase = "idle"
  /\ LET table == programmer_table
     IN \E d \in DOMAIN table: drv' = d /\ todo' = table[d]
  /\ phase' = "init"
  /\ may_register_shutdown' = TRUE
  /\ pointers' = pointers \intersect Static
  /\ held' = {} /\ misuse' = FALSE /\ failed' = FALSE
  /\ UNCHANGED <<shutdown_fn, registered_master_count, refused>>

---------------------------------------------------------------------------
(* The steps of a function. A function that fails goes on with what it does*)
(* before it returns; an init function has failed then.                    *)

At(ops) == todo # <<>> /\ Head(todo).op \in ops

Continue == todo' = Tail(todo) /\ UNCHANGED <<phase, failed>>

GiveUp(steps) ==
  /\ todo' = steps
  /\ phase' = IF phase = "init" THEN "undo" ELSE phase
  /\ failed' = TRUE

Using(resources) == misuse' = (misuse \/ ~(resources \subseteq held))

Choose ==
  /\ At({"either"})
  /\ \E i \in DOMAIN Head(todo).body: todo' = Head(todo).body[i] \o Tail(todo)
  /\ UNCHANGED <<drv, phase, pointers, held, misuse, failed, registries>>

Acquire ==
  /\ At({"get", "take"})
  /\ held' = held \union {Head(todo).on}
  /\ pointers' = pointers \union {Head(todo).on}
  /\ Using(Head(todo).via)
  /\ Continue
  /\ UNCHANGED <<drv, registries>>

Access ==
  /\ At({"ask", "tell"})
  /\ Using(Head(todo).via)
  /\ Continue
  /\ UNCHANGED <<drv, pointers, held, registries>>

\* What was asked for is not given, or is not what it should be.
StepFails ==
  /\ At({"take", "ask"})
  /\ pointers' = pointers \ {Head(todo).on}
  /\ Using(Head(todo).via)
  /\ GiveUp(Head(todo).undo)
  /\ UNCHANGED <<drv, held, registries>>

CheckFresh ==
  /\ At({"fresh"})
  /\ IF Head(todo).on \in pointers THEN GiveUp(<<>>) ELSE Continue
  /\ UNCHANGED <<drv, pointers, held, misuse, registries>>

GiveBack ==
  /\ At({"free", "free_if", "close", "close_if", "reset", "clear"})
  /\ LET s == Head(todo)
         done == /\ s.op # "clear"
                 /\ s.op \in {"free_if", "close_if"} => s.on \in pointers
     IN /\ held' = IF done THEN held \ {s.on} ELSE held
        /\ pointers' = IF s.op \in {"close", "close_if", "clear"} THEN pointers \ {s.on}
                       ELSE pointers
        /\ Using(IF ~done THEN {}
                 ELSE IF s.op = "reset" THEN s.via ELSE s.via \union {s.on})
  /\ Continue
  /\ UNCHANGED <<drv, registries>>

\* register_shutdown()
CanRegister == Len(shutdown_fn) < SHUTDOWN_MAXFN /\ may_register_shutdown

RegisterShutdown ==
  /\ At({"on_exit", "note"})
  /\ LET s == Head(todo)
     IN IF CanRegister
        THEN shutdown_fn' = Append(shutdown_fn, s.body) /\ Continue /\ UNCHANGED refused
        ELSE /\ refused' = TRUE
             /\ IF s.op = "on_exit" THEN GiveUp(s.undo)
                ELSE todo' = s.undo \o Tail(todo) /\ UNCHANGED <<phase, failed>>
             /\ UNCHANGED shutdown_fn
  /\ UNCHANGED <<drv, may_register_shutdown, registered_master_count, pointers, held, misuse>>

\* register_master(), and before it register_shutdown() if the master has a
\* function for that; it is called at once if it cannot be registered.
RegisterMaster ==
  /\ At({"master", "master_lax"})
  /\ LET s == Head(todo)
         noted == s.body = <<>> \/ CanRegister
         entered == noted /\ registered_master_count < MASTERS_MAX
         cleanup == IF noted THEN <<>> ELSE s.body
     IN /\ shutdown_fn' = IF s.body # <<>> /\ noted THEN Append(shutdown_fn, s.body)
                          ELSE shutdown_fn
        /\ registered_master_count' = registered_master_count + (IF entered THEN 1 ELSE 0)
        /\ refused' = (refused \/ ~entered)
        /\ IF entered THEN Continue
           ELSE IF s.op = "master" THEN GiveUp(cleanup \o s.undo)
           ELSE todo' = cleanup \o Tail(todo) /\ UNCHANGED <<phase, failed>>
  /\ UNCHANGED <<drv, may_register_shutdown, pointers, held, misuse>>

---------------------------------------------------------------------------
(* Functions return *)

\* The programmer is ready, unless there are parameters nobody asked for.
InitReturns ==
  /\ phase = "init" /\ todo = <<>>
  /\ phase' \in {"ready", "down"}
  /\ may_register_shutdown' = (phase' = "ready")
  /\ UNCHANGED <<drv, todo, shutdown_fn, registered_master_count, pointers, held, misuse,
                 refused, failed>>

\* programmer_shutdown(): after an error, or because the user is done.
BeginShutdown ==
  /\ phase \in {"undo", "ready"} /\ todo = <<>>
  /\ phase' = "down"
  /\ may_register_shutdown' = FALSE
  /\ UNCHANGED <<drv, todo, shutdown_fn, registered_master_count, pointers, held, misuse,
                 refused, failed>>

\* Mutant: the function registered first comes first.
NextFunctionFifo(fns) == [run |-> Head(fns), left |-> Tail(fns)]

NextFunction(fns) == [run |-> Last(fns), left |-> Front(fns)]

CallShutdownFunction ==
  /\ phase = "down" /\ todo = <<>> /\ shutdown_fn # <<>>
  /\ todo' = NextFunction(shutdown_fn).run
  /\ shutdown_fn' = NextFunction(shutdown_fn).left
  /\ UNCHANGED <<drv, phase, may_register_shutdown, registered_master_count, pointers, held,
                 misuse, refused, failed>>

\* Mutant: the masters of a session stay registered.
MastersAfterKept(count) == count

MastersAfter(count) == 0

ShutdownReturns ==
  /\ phase = "down" /\ todo = <<>> /\ shutdown_fn = <<>>
  /\ phase' = "idle"
  /\ registered_master_count' = MastersAfter(registered_master_count)
  /\ UNCHANGED <<drv, todo, may_register_shutdown, shutdown_fn, pointers, held, misuse,
                 refused, failed>>

Next ==
  \/ Start
  \/ Choose \/ Acquire \/ Access \/ StepFails \/ CheckFresh \/ GiveBack
  \/ RegisterShutdown \/ RegisterMaster
  \/ InitReturns \/ BeginShutdown \/ CallShutdownFunction \/ ShutdownReturns

Spec == Init /\ [][Next]_vars

---------------------------------------------------------------------------
(* Properties *)

\* Drivers that use what is not there: a mapping whose failure is mistaken for an address, a
\* context left twice, a buffer or handle kept from an earlier session and released again.
Careless == {"nicintel_spi", "nicintel_eeprom", "developerbox", "serprog",
             "ni845x_spi"}

\* All other drivers use a resource only between getting it and giving it back, and give nothing
\* back twice: on no error path, and not during the shutdown, where a function that restores a
\* register needs the access, the privilege and the mapping whose own functions come later.
OnlyHeld == misuse => drv \in Careless

\* What a driver leaves behind even if all goes well.
AlwaysLeft(d) ==
  LET left == [atapromise |-> {"0x10"}, atavia |-> {"rom_address"}, nic3com |-> {"window"},
               mstarddc_spi |-> {"isp"}, ch347_spi |-> {"config"}, digilent_spi |-> {"ctx"},
               ft2232_spi |-> {"ftdi"}, usbblaster_spi |-> {"device", "ftdi"}]
  IN IF d \in DOMAIN left THEN left[d] ELSE {}

\* What else it may leave behind if a step fails.
LeftByFailure(d) ==
  LET left == [buspirate_spi |-> {"serial", "spi_mode"}, ch341a_spi |-> {"ctx"},
               ch347_spi |-> {"ctx"}, dediprog |-> {"device", "ctx", "voltage"},
               digilent_spi |-> {"reset"}, jlink_spi |-> {"device", "ctx", "power"},
               mstarddc_spi |-> {"fd"}, ni845x_spi |-> {"ni_device"},
               nicintel_spi |-> {"eecd"}, pickit2_spi |-> {"vdd"},
               serprog |-> {"sp_fd", "pins"}]
  IN IF d \in DOMAIN left THEN left[d] ELSE {}

\* After a session, whether its init function succeeded, failed anywhere or was given unknown
\* parameters, and whatever the shutdown functions met, nothing else is still held and no other
\* register of the hardware is still changed.
LeftAsFound ==
  phase = "idle" =>
    held \subseteq AlwaysLeft(drv) \union (IF failed THEN LeftByFailure(drv) ELSE {})

\* However many sessions follow each other, no driver finds the table of shutdown functions or
\* of masters full, or the former closed.
NothingRefused == ~refused

=============================================================================
