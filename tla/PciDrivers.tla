---------------------------- MODULE PciDrivers -----------------------------
(***************************************************************************)
(* The programmers on PCI cards and on the parallel and serial ports that  *)
(* are driven by single pins: what their init and shutdown functions do to *)
(* the resources of the program (see DriverSteps).                         *)
(***************************************************************************)
EXTENDS DriverSteps

(* Cards with memory chips behind registers *)

atahpt_init ==
  <<rget_io_perms, pcidev_init, pcidev_readbar, rpci_write("flash_access"),
    Master(<<>>, <<>>)>>

\* Nobody knows what the register at 0x10 does; it keeps the new value.
atapromise_init ==
  <<rget_io_perms, pcidev_init, pcidev_readbar, Put("0x10", {"io"}), pcidev_readbar,
    rphysmap("bar"), Master(<<>>, <<>>)>>

\* The base address written to look for a ROM is not restored.
atavia_init ==
  <<Param(<<>>), pcidev_init, Put("rom_address", {"pacc"}),
    Ask({"pacc"}, <<>>), Master(<<>>, <<>>)>>

drkaiser_init ==
  <<pcidev_init, pcidev_readbar, rpci_write("magic"), rphysmap("bar"),
    Master(<<>>, <<>>)>>

gfxmatrox_init ==
  <<Param(<<>>), pcidev_init, Ask({"pacc"}, <<>>), rpci_write("option"),
    Ask({"pacc"}, <<>>), rpci_write("rom_address"), Master(<<>>, <<>>)>>

gfxnvidia_init ==
  <<pcidev_init, pcidev_readbar, rphysmap("bar"), rpci_write("0x50"),
    Master(<<>>, <<>>)>>

it8212_init ==
  <<pcidev_init, pcidev_readbar, rphysmap("bar"), rpci_write("rom_address"),
    Master(<<>>, <<>>)>>

nicintel_init ==
  <<pcidev_init, pcidev_readbar, rphysmap("bar"), pcidev_readbar,
    rphysmap("control_bar"), Save("fcr", {"control_bar"}), Master(<<>>, <<>>)>>

nicnatsemi_init ==
  <<rget_io_perms, pcidev_init, pcidev_readbar, Master(<<>>, <<>>)>>

\* Nothing yet: the source says what is missing.
nicrealtek_shutdown == <<Tell({})>>

nicrealtek_init ==
  <<rget_io_perms, pcidev_init, pcidev_readbar, Master(nicrealtek_shutdown, <<>>)>>

satamv_init ==
  <<rget_io_perms, pcidev_init, pcidev_readbar, rphysmap("bar"),
    Save("bar2_control", {"bar"}), Save("gpio_port_control", {"bar"}),
    pcidev_readbar, Master(<<>>, <<>>)>>

satasii_init ==
  <<pcidev_init, pcidev_readbar, rphysmap("bar"), Tell({"bar"}),
    Master(<<>>, <<>>)>>

scsilsi_init ==
  <<pcidev_init, Ask({"pacc"}, <<>>), Ask({"pacc"}, <<>>),
    rpci_write("rom_address"), Master(<<>>, <<>>)>>

\* The cards of the 3C90xB family need another receiver type. The window
\* selected among the registers is not restored.
nic3com_shutdown(is_90xB) ==
  IF is_90xB THEN <<Reset("internal_config", {"io"})>> ELSE <<Tell({})>>

nic3com_init ==
  <<rget_io_perms, pcidev_init, pcidev_readbar,
    Put("window", {"io"}),
    Either(<< <<Put("internal_config", {"io"}), Master(nic3com_shutdown(TRUE), <<>>)>>,
              <<Master(nic3com_shutdown(FALSE), <<>>)>> >>)>>

\* The ROM is mapped, and enabled meanwhile, to find out how large it is.
nicamd_estimate ==
  <<Ask({"pacc"}, <<>>), Ask({"pacc"}, <<>>), Take("rom", {}, <<>>),
    Put("rom_address", {"pacc"}), Tell({"rom"}),
    Reset("rom_address", {"pacc"}), Free("rom", {})>>

\* A reset of the controller restores its bus configuration registers.
nicamd_shutdown == <<Reset("bcr", {"io"})>>

nicamd_init ==
  <<Param(<<>>), rget_io_perms, pcidev_init, pcidev_readbar,
    Either(<<nicamd_estimate, <<>> >>), Put("bcr", {"io"}),
    Master(nicamd_shutdown, <<>>)>>

---------------------------------------------------------------------------
(* Cards with SPI chips *)

ogp_spi_init ==
  <<Param(<<>>), pcidev_init, pcidev_readbar, rphysmap("bar"),
    register_spi_bitbang_master({"bar"}, <<>>)>>

\* The controllers of the 82599 family have to be told that the flash chip
\* may be written.
nicintel_spi_82599_enable_flash ==
  <<Put("eecd", {"bar"}), Ask({"bar"}, <<>>),
    OnExit(<<Reset("eecd", {"bar"})>>, <<>>)>>

nicintel_spi_i210_enable_flash == <<Ask({"bar"}, <<>>)>>

nicintel_spi_init ==
  <<pcidev_init, pcidev_readbar, rphysmap_unchecked("bar"),
    Either(<<nicintel_spi_i210_enable_flash, nicintel_spi_82599_enable_flash>>),
    register_spi_bitbang_master({"bar"}, <<>>)>>

\* Only what was read from the controller at the start can be put back.
nicintel_ee_shutdown_82580(unprogrammed) ==
  IF unprogrammed THEN <<Tell({})>>
  ELSE <<Ask({"bar"}, <<Free("eecp", {})>>), Tell({"bar"}), Free("eecp", {})>>

nicintel_ee_shutdown_i210 ==
  <<Either(<< <<Ask({"bar"}, <<>>)>>, <<>> >>)>>

nicintel_ee_init ==
  <<pcidev_init, pcidev_readbar, rphysmap_unchecked("bar"),
    Either(<< <<Ask({"bar"}, <<>>), Take("eecp", {}, <<>>),
                Master(nicintel_ee_shutdown_82580(FALSE), <<>>)>>,
              <<Master(nicintel_ee_shutdown_82580(TRUE), <<>>)>>,
              <<Master(nicintel_ee_shutdown_i210, <<>>)>> >>)>>

---------------------------------------------------------------------------
(* Pins of the parallel and serial ports *)

\* Some pinouts drive an enable signal.
rayer_spi_init ==
  <<Param(<<>>), Param(<<>>), rget_io_perms, Tell({"io"}),
    Either(<< <<Save("enable", {"io"})>>, <<>> >>),
    register_spi_bitbang_master({"io"}, <<>>)>>

pony_spi_shutdown == <<Free("fd", {})>>

pony_spi_init ==
  <<Param(<<>>), Take("fd", {}, <<>>),
    OnExit(pony_spi_shutdown, pony_spi_shutdown), Param(<<>>),
    Ask({"fd"}, <<>>), register_spi_bitbang_master({"fd"}, <<>>)>>

=============================================================================
