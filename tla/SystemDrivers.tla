--------------------------- MODULE SystemDrivers ---------------------------
(***************************************************************************)
(* The programmers reached through serial lines, device files of the       *)
(* operating system or a vendor's library, and the emulation: what their   *)
(* init and shutdown functions do to the resources of the program (see     *)
(* DriverSteps).                                                           *)
(***************************************************************************)
EXTENDS DriverSteps

(* Serial lines *)

\* If the Bus Pirate does not answer, it is left in its SPI mode.
buspirate_spi_shutdown ==
  LET out_shutdown == <<Free("serial", {}), Free("commbuf", {}), Free("data", {})>>
  IN <<Ask({"serial"}, out_shutdown), Reset("spi_mode", {"serial"})>> \o out_shutdown

\* The line stays open when there is no memory for the driver's data.
buspirate_spi_init ==
  LET free_commbuf == <<Free("commbuf", {})>>
  IN <<Param(<<>>), Take("commbuf", {}, <<>>), Take("serial", {}, free_commbuf),
       Take("data", {}, free_commbuf), Ask({"serial"}, buspirate_spi_shutdown),
       Put("spi_mode", {"serial"}), Ask({"serial"}, buspirate_spi_shutdown),
       Master(buspirate_spi_shutdown, <<>>)>>

\* The write-n buffer is freed and its pointer kept; sp_max_write_n tells
\* whether there is one, and is a leftover of an earlier session until this
\* one has asked the programmer.
serprog_shutdown ==
  LET close == <<Free("sp_fd", {}), FreeIf("sp_write_n_buf", {})>>
  IN <<Tell({"sp_fd"}), Ask({"sp_fd"}, close), Reset("pins", {"sp_fd"})>> \o close

\* A device or a host is given; if both are, the device has been opened.
serprog_connect ==
  Either(<< <<Take("sp_fd", {}, <<>>), Param(<<>>)>>,
            <<Param(<<>>), Take("sp_fd", {}, <<>>)>> >>)

\* Write-n is supported, is not, or is not asked for because of the bus.
serprog_write_n ==
  Either(<< <<Take("sp_write_n_buf", {}, serprog_shutdown)>>,
            <<Clear("sp_write_n_buf")>>, <<>> >>)

serprog_init ==
  <<serprog_connect, Ask({"sp_fd"}, serprog_shutdown), serprog_write_n,
    Ask({"sp_fd"}, serprog_shutdown), Put("pins", {"sp_fd"}),
    OnExit(serprog_shutdown, serprog_shutdown),
    Either(<< <<MasterLax(<<>>)>>, <<>> >>), Either(<< <<MasterLax(<<>>)>>, <<>> >>)>>

---------------------------------------------------------------------------
(* Device files *)

\* The chip is left in ISP mode if an error occurred or the user wants so.
mstarddc_spi_shutdown ==
  <<Either(<< <<Ask({"fd"}, <<>>), Reset("isp", {"fd"})>>, <<>> >>), Free("fd", {})>>

\* The file stays open if the chip does not answer.
mstarddc_spi_init ==
  <<Param(<<>>), Take("fd", {}, <<>>), Ask({"fd"}, <<>>), Put("isp", {"fd"}),
    MasterLax(mstarddc_spi_shutdown)>>

linux_spi_shutdown == <<Free("fd", {}), Free("data", {})>>

linux_spi_init ==
  LET init_err == <<Free("fd", {})>>
  IN <<Param(<<>>), Take("fd", {}, <<>>), Ask({"fd"}, init_err),
       Take("data", {}, init_err), Master(linux_spi_shutdown, <<>>)>>

linux_mtd_shutdown == <<FreeIf("dev_fp", {}), Free("data", {})>>

linux_mtd_setup ==
  LET failed_setup == <<Free("data", {})>>
  IN <<Ask({}, failed_setup), Take("dev_fp", {}, failed_setup)>>

linux_mtd_init ==
  <<Param(<<>>), Ask({}, <<>>), Take("data", {}, <<>>), Do(linux_mtd_setup),
    Master(linux_mtd_shutdown, <<>>)>>

linux_gpio_spi_shutdown ==
  <<FreeIf("lines", {"chip"}), FreeIf("chip", {}), Free("data", {})>>

linux_gpio_spi_init ==
  <<Take("data", {}, <<>>), Param(linux_gpio_spi_shutdown),
    Take("chip", {}, linux_gpio_spi_shutdown),
    Take("lines", {"chip"}, linux_gpio_spi_shutdown),
    Ask({"lines"}, linux_gpio_spi_shutdown),
    OnExit(linux_gpio_spi_shutdown, linux_gpio_spi_shutdown),
    register_spi_bitbang_master({"lines"}, <<>>)>>

linux_gpio2_spi_shutdown ==
  <<FreeIf("configs", {}), FreeIf("lines", {"chip"}), FreeIf("chip", {}), Free("data", {})>>

linux_gpio2_spi_init ==
  <<Take("data", {}, <<>>), Param(linux_gpio2_spi_shutdown),
    Take("chip", {}, linux_gpio2_spi_shutdown),
    Take("settings", {}, linux_gpio2_spi_shutdown),
    Take("configs", {}, <<Free("settings", {})>> \o linux_gpio2_spi_shutdown),
    Free("settings", {}), Take("lines", {"chip"}, linux_gpio2_spi_shutdown),
    OnExit(linux_gpio2_spi_shutdown, linux_gpio2_spi_shutdown),
    register_spi_bitbang_master({"lines"}, <<>>)>>

---------------------------------------------------------------------------
(* National Instruments' library *)

ni845x_spi_shutdown == <<FreeIf("ni_config", {}), FreeIf("ni_device", {})>>

\* The device may be open although the library's result is taken for an
\* error. If no configuration is opened, its handle keeps its value.
ni845x_spi_init ==
  <<Param(<<>>), Ask({}, <<>>), Get("ni_device", {}), Ask({}, <<>>),
    Ask({}, ni845x_spi_shutdown), Get("ni_config", {}),
    Ask({"ni_device", "ni_config"}, ni845x_spi_shutdown),
    Master(ni845x_spi_shutdown, <<>>)>>

---------------------------------------------------------------------------
(* The emulation *)

dummy_shutdown ==
  <<FreeIf("image", {}), FreeIf("contents", {}), Free("data", {})>>

\* A chip is emulated, and its contents are kept in a file, or not.
dummy_chip ==
  LET free_data == <<Free("data", {})>>
      image == <<Get("image", {}), Ask({"contents"}, dummy_shutdown)>>
  IN <<Take("contents", {}, free_data), Either(<<image, <<>> >>)>>

dummy_init ==
  <<Take("data", {}, <<>>), Param(<<Free("data", {})>>), Either(<<dummy_chip, <<>> >>),
    OnExit(dummy_shutdown, dummy_shutdown),
    Either(<< <<Master(<<>>, <<>>)>>, <<>> >>), Either(<< <<Master(<<>>, <<>>)>>, <<>> >>)>>

=============================================================================
