----------------------------- MODULE FlashChips -----------------------------
\* The chip database (flashchips.c), in the order of the source, which matching depends on
EXTENDS FlashChipsAmd, FlashChipsGigaDevice, FlashChipsMosel, FlashChipsWinbond

flashchips == AmdToFujitsu \o GigaDeviceToMicron \o MoselToTi \o WinbondToGeneric

=============================================================================
