---------------------------- MODULE UsbDrivers -----------------------------
(***************************************************************************)
(* The programmers on USB that are reached through libusb, libftdi or      *)
(* libjaylink: what their init and shutdown functions do to the resources  *)
(* of the program (see DriverSteps). A device stands for its open and      *)
(* claimed handle. It must be closed before the context it was opened in.  *)
(***************************************************************************)
EXTENDS DriverSteps

\* Mutant: the context is kept.
ReleaseDevice(device) == <<Free(device, {"ctx"}), Free("data", {})>>

\* Device, context and the driver's memory are given back in that order.
Release(device) == <<Free(device, {"ctx"}), Free("ctx", {}), Free("data", {})>>

---------------------------------------------------------------------------
(* WCH *)

ch341a_spi_shutdown ==
  <<Tell({"ch341a"}), Free("transfers", {}), Close("ch341a", {"ctx"}), Free("ctx", {})>>

\* None of the error paths leaves libusb.
ch341a_spi_init ==
  LET close_handle == <<Close("ch341a", {"ctx"})>>
      dealloc_transfers == <<Free("transfers", {}), Close("ch341a", {"ctx"})>>
  IN <<Fresh("ch341a"), Take("ctx", {}, <<>>), Take("ch341a", {"ctx"}, <<>>),
       Ask({"ch341a"}, close_handle), Take("transfers", {}, close_handle),
       Ask({"ch341a"}, dealloc_transfers), Master(ch341a_spi_shutdown, <<>>)>>

ch347_spi_shutdown == Release("device")

\* The descriptor of the configuration is not freed.
ch347_spi_init ==
  LET free_data == <<Free("data", {})>>
  IN <<Take("data", {}, <<>>), Param(free_data), Take("ctx", {}, free_data),
       Take("device", {"ctx"}, free_data), Take("config", {}, ch347_spi_shutdown),
       Ask({"device"}, ch347_spi_shutdown), Master(ch347_spi_shutdown, <<>>)>>

---------------------------------------------------------------------------
(* FTDI *)

\* ftdi_usb_close(), but no ftdi_deinit().
ft2232_shutdown ==
  <<Tell({"ftdi"}), FreeIf("device", {"ftdi"}), Free("data", {})>>

\* It goes on if the device is there but cannot be claimed.
ft2232_spi_init ==
  LET init_err == <<Free("data", {})>>
      ftdi_err == <<FreeIf("device", {"ftdi"}), Free("data", {})>>
  IN <<Param(<<>>), Take("data", {}, <<>>), Take("ftdi", {}, init_err),
       Ask({"ftdi"}, init_err), Either(<< <<Get("device", {"ftdi"})>>, <<>> >>),
       Ask({"ftdi"}, ftdi_err), Master(ft2232_shutdown, <<>>)>>

\* There is no shutdown function.
usbblaster_spi_init ==
  <<Take("ftdi", {}, <<>>), Take("device", {"ftdi"}, <<>>),
    Ask({"device"}, <<>>), MasterLax(<<>>)>>

ft4222_shutdown == Release("device")

ft4222_spi_init ==
  LET free_config_shutdown == <<Free("config", {})>> \o ft4222_shutdown
  IN <<Param(<<>>), Take("data", {}, <<>>),
       Take("ctx", {}, <<Free("data", {})>>),
       Take("device", {"ctx"}, <<Free("ctx", {}), Free("data", {})>>),
       Take("config", {}, ft4222_shutdown), Ask({"device", "config"}, free_config_shutdown),
       Free("config", {}), Ask({"device"}, ft4222_shutdown),
       Master(ft4222_shutdown, <<>>)>>

---------------------------------------------------------------------------
(* Debug probes *)

jlink_spi_shutdown(powered) ==
  (IF powered THEN <<Ask({"device"}, Release("device")), Reset("power", {"device"})>>
              ELSE <<>>) \o Release("device")

\* Once the target's power is on, no error path turns it off; the error of
\* turning it on returns at once.
jlink_spi_init ==
  LET exit == <<Free("ctx", {})>>
      init_err == <<Free("device", {"ctx"}), Free("ctx", {})>>
      rest(powered) ==
        <<Ask({"device"}, init_err), Take("data", {}, init_err),
          Ask({"device"}, Release("device")), Master(jlink_spi_shutdown(powered), <<>>)>>
  IN <<Param(<<>>), Take("ctx", {}, <<>>), Ask({"ctx"}, exit),
       Take("device", {"ctx"}, exit), Ask({"device"}, init_err),
       Either(<< <<Take("power", {"device"}, <<>>)>> \o rest(TRUE), rest(FALSE) >>)>>

stlinkv3_spi_shutdown ==
  <<Tell({"device"}), Free("device", {"ctx"}), Free("ctx", {})>>

stlinkv3_spi_init ==
  LET init_err_exit == <<Free("device", {"ctx"}), Free("ctx", {})>>
  IN <<Take("ctx", {}, <<>>), Take("device", {"ctx"}, <<Free("ctx", {})>>),
       Param(init_err_exit), Ask({"device"}, init_err_exit),
       Master(stlinkv3_spi_shutdown, <<>>)>>

dirtyjtag_spi_shutdown == Release("device")

dirtyjtag_spi_init ==
  LET cleanup_djtag_struct == <<Free("data", {})>>
      cleanup_libusb_ctx == <<Free("ctx", {})>> \o cleanup_djtag_struct
      cleanup_libusb_handle == <<Free("device", {"ctx"})>> \o cleanup_libusb_ctx
  IN <<Take("data", {}, <<>>), Take("ctx", {}, cleanup_djtag_struct),
       Take("device", {"ctx"}, cleanup_libusb_ctx), Param(cleanup_libusb_handle),
       Ask({"device"}, cleanup_libusb_handle), Master(dirtyjtag_spi_shutdown, <<>>)>>

---------------------------------------------------------------------------
(* Others *)

developerbox_spi_shutdown == <<Free("device", {"ctx"}), Free("ctx", {})>>

\* The error path leaves libusb even if the shutdown function will do so too.
developerbox_spi_init ==
  LET err_exit == <<Free("ctx", {})>>
  IN <<Take("ctx", {}, <<>>), Take("device", {"ctx"}, err_exit),
       OnExit(developerbox_spi_shutdown, err_exit),
       register_spi_bitbang_master({"device"}, err_exit)>>

\* libusb is not left at all.
digilent_spi_shutdown(reset_board) ==
  (IF reset_board THEN <<Reset("reset", {"digilent"})>> ELSE <<>>)
    \o <<Close("digilent", {"ctx"})>>

\* The reset line of the board is driven while the flash chip is used; the
\* error path lets go of the device, not of the line.
digilent_spi_init ==
  LET close_handle == <<Close("digilent", {"ctx"})>>
      rest(reset_board) ==
        <<Ask({"digilent"}, close_handle), Master(digilent_spi_shutdown(reset_board), <<>>)>>
  IN <<Fresh("digilent"), Take("ctx", {}, <<>>), Take("digilent", {"ctx"}, <<>>),
       Ask({"digilent"}, close_handle), Param(close_handle),
       Either(<< <<Ask({"digilent"}, close_handle), Put("reset", {"digilent"}),
                   Ask({"digilent"}, close_handle)>> \o rest(TRUE),
                 rest(FALSE) >>)>>

\* It goes on if the voltages cannot be turned off.
pickit2_shutdown ==
  <<Ask({"device"}, Release("device")), Reset("vdd", {"device"})>> \o Release("device")

pickit2_spi_init ==
  LET exit == <<Free("ctx", {})>>
      close == <<Free("device", {"ctx"}), Free("ctx", {})>>
  IN <<Param(<<>>), Take("ctx", {}, <<>>), Take("device", {"ctx"}, exit),
       Ask({"device"}, close), Take("data", {}, close),
       Ask({"device"}, pickit2_shutdown), Put("vdd", {"device"}),
       Master(pickit2_shutdown, <<>>)>>

\* It gives up when the voltage cannot be turned off or the interface not be
\* released, and frees no more than its memory.
dediprog_shutdown ==
  LET out == <<Free("data", {})>>
  IN <<Tell({"device"}), Ask({"device"}, out), Reset("voltage", {"device"}),
       Ask({"device"}, out)>> \o Release("device")

\* A device that is not there costs the context, one that is busy or unknown
\* does not. Devices skipped in the search for an ID are opened and closed.
dediprog_open ==
  <<Take("device", {"ctx"}, <<Free("ctx", {}), Free("data", {})>>),
    Ask({"device"}, <<Free("device", {"ctx"}), Free("data", {})>>)>>

dediprog_init ==
  <<Param(<<>>), Take("data", {}, <<>>), Take("ctx", {}, <<Free("data", {})>>),
    Do(dediprog_open), Ask({"device"}, dediprog_shutdown),
    Put("voltage", {"device"}), Ask({"device"}, dediprog_shutdown),
    Master(dediprog_shutdown, <<>>)>>

=============================================================================
