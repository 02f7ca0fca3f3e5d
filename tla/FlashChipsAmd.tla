---------------------------- MODULE FlashChipsAmd ---------------------------
\* Entries of the chip database (flashchips.c): AMD to Fujitsu
EXTENDS FlashChip

Am29F002_N_BB == Memory({PARALLEL}, JEDEC, \h1, \h34, 256, 256, {SHORT, A2AA}, ZERO, 4750, 5250,
  <<ER("sector_jedec", <<<<16384, 1>>, <<8192, 2>>, <<32768, 1>>, <<65536, 3>>>>),
    E("chip_block_jedec", 262144, 1)>>)
Am29F002_N_BT == Memory({PARALLEL}, JEDEC, \h1, \hB0, 256, 256, {LONG, SHORT, A2AA}, ZERO, 4750, 5250,
  <<ER("sector_jedec", <<<<65536, 3>>, <<32768, 1>>, <<8192, 2>>, <<16384, 1>>>>),
    E("chip_block_jedec", 262144, 1)>>)
Am29F010 == Memory({PARALLEL}, JEDEC, \h1, \h20, 128, 16384, {SHORT}, ZERO, 4500, 5500,
  <<E("sector_jedec", 16384, 8), E("chip_block_jedec", 131072, 1)>>)
Am29F010_A_B == Memory({PARALLEL}, JEDEC, \h1, \h20, 128, 16384, {LONG, SHORT, A2AA}, ZERO, 4500, 5500,
  <<E("sector_jedec", 16384, 8), E("chip_block_jedec", 131072, 1)>>)
Am29F016D == Memory({PARALLEL}, JEDEC, \h1, \hAD, 2048, 65536, {SHORT}, ZERO, 4500, 5500,
  <<E("sector_jedec", 65536, 32), E("chip_block_jedec", 2097152, 1)>>)
Am29F040 == Memory({PARALLEL}, JEDEC, \h1, \hA4, 512, 65536, {LONG, SHORT}, ZERO, 4500, 5500,
  <<E("sector_jedec", 65536, 8), E("chip_block_jedec", 524288, 1)>>)
Am29F040B == Memory({PARALLEL}, JEDEC, \h1, \hA4, 512, 65536, {SHORT, A2AA}, ZERO, 4500, 5500,
  <<E("sector_jedec", 65536, 8), E("chip_block_jedec", 524288, 1)>>)
Am29F080 == Memory({PARALLEL}, JEDEC, \h1, \hD5, 1024, 65536, {LONG, SHORT}, ZERO, 4500, 5500,
  <<E("sector_jedec", 65536, 16), E("chip_block_jedec", 1048576, 1)>>)
Am29F080B == Memory({PARALLEL}, JEDEC, \h1, \hD5, 1024, 65536, {SHORT, A2AA}, ZERO, 4500, 5500,
  <<E("sector_jedec", 65536, 16), E("chip_block_jedec", 1048576, 1)>>)
Am29LV001BB == Memory({PARALLEL}, JEDEC, \h1, \h6D, 128, 65536, {SHORT, A2AA}, ZERO, 3000, 3600,
  <<ER("sector_jedec", <<<<8192, 1>>, <<4096, 2>>, <<16384, 7>>>>), E("chip_block_jedec", 131072, 1)>>)
Am29LV001BT == Memory({PARALLEL}, JEDEC, \h1, \hED, 128, 65536, {SHORT, A2AA}, ZERO, 3000, 3600,
  <<ER("sector_jedec", <<<<16384, 7>>, <<4096, 2>>, <<8192, 1>>>>), E("chip_block_jedec", 131072, 1)>>)
Am29LV002BB == Memory({PARALLEL}, JEDEC, \h1, \hC2, 256, 65536, {SHORT, A2AA}, ZERO, 3000, 3600,
  <<ER("sector_jedec", <<<<16384, 1>>, <<8192, 2>>, <<32768, 1>>, <<65536, 3>>>>),
    E("chip_block_jedec", 262144, 1)>>)
Am29LV002BT == Memory({PARALLEL}, JEDEC, \h1, \h40, 256, 65536, {SHORT, A2AA}, ZERO, 3000, 3600,
  <<ER("sector_jedec", <<<<65536, 3>>, <<32768, 1>>, <<8192, 2>>, <<16384, 1>>>>),
    E("chip_block_jedec", 262144, 1)>>)
Am29LV004BB == Memory({PARALLEL}, JEDEC, \h1, \hB6, 512, 65536, {SHORT, A2AA}, ZERO, 2700, 3600,
  <<ER("sector_jedec", <<<<16384, 1>>, <<8192, 2>>, <<32768, 1>>, <<65536, 7>>>>),
    E("chip_block_jedec", 524288, 1)>>)
Am29LV004BT == Memory({PARALLEL}, JEDEC, \h1, \hB5, 512, 65536, {SHORT, A2AA}, ZERO, 2700, 3600,
  <<ER("sector_jedec", <<<<65536, 7>>, <<32768, 1>>, <<8192, 2>>, <<16384, 1>>>>),
    E("chip_block_jedec", 524288, 1)>>)
Am29LV008BB == Memory({PARALLEL}, JEDEC, \h1, \h37, 1024, 65536, {SHORT, A2AA}, ZERO, 3000, 3600,
  <<ER("sector_jedec", <<<<16384, 1>>, <<8192, 2>>, <<32768, 1>>, <<65536, 15>>>>),
    E("chip_block_jedec", 1048576, 1)>>)
Am29LV008BT == Memory({PARALLEL}, JEDEC, \h1, \h3E, 1024, 65536, {SHORT, A2AA}, ZERO, 3000, 3600,
  <<ER("sector_jedec", <<<<65536, 15>>, <<32768, 1>>, <<8192, 2>>, <<16384, 1>>>>),
    E("chip_block_jedec", 1048576, 1)>>)
Am29LV040B == Memory({PARALLEL}, JEDEC, \h1, \h4F, 512, 65536, {SHORT, A2AA}, ZERO, 3000, 3600,
  <<E("sector_jedec", 65536, 8), E("chip_block_jedec", 524288, 1)>>)
Am29LV081B == Memory({PARALLEL}, JEDEC, \h1, \h38, 1024, 65536, {SHORT, A2AA}, ZERO, 3000, 3600,
  <<E("sector_jedec", 65536, 16), E("chip_block_jedec", 1048576, 1)>>)
A25L010 == Spi(RDID, \h37, \h3011, 128, 256, 2700, 3600,
  <<E("20", 4096, 32), E("d8", 65536, 2), E("c7", 131072, 1)>>)
A25L016 == Spi(RDID, \h37, \h3015, 2048, 256, 2700, 3600,
  <<E("20", 4096, 512), E("d8", 65536, 32), E("c7", 2097152, 1)>>)
A25L020 == Spi(RDID, \h37, \h3012, 256, 256, 2700, 3600,
  <<E("20", 4096, 64), E("d8", 65536, 4), E("c7", 262144, 1)>>)
A25L032 == Spi(RDID, \h37, \h3016, 4096, 256, 2700, 3600,
  <<E("20", 4096, 1024), E("52", 65536, 64), E("d8", 65536, 64), E("60", 4194304, 1), E("c7", 4194304, 1)>>)
A25L040 == Spi(RDID, \h37, \h3013, 512, 256, 2700, 3600,
  <<E("20", 4096, 128), E("d8", 65536, 8), E("c7", 524288, 1)>>)
A25L05PT == Spi(RDID, \h7F37, \h2020, 64, 256, 2700, 3600,
  <<ER("d8", <<<<32768, 1>>, <<16384, 1>>, <<8192, 1>>, <<4096, 2>>>>), E("c7", 65536, 1)>>)
A25L05PU == Spi(RDID, \h7F37, \h2010, 64, 256, 2700, 3600,
  <<ER("d8", <<<<4096, 2>>, <<8192, 1>>, <<16384, 1>>, <<32768, 1>>>>), E("c7", 65536, 1)>>)
A25L080 == Spi(RDID, \h37, \h3014, 1024, 256, 2700, 3600,
  <<E("20", 4096, 256), E("d8", 65536, 16), E("c7", 1048576, 1)>>)
A25L10PT == Spi(RDID, \h7F37, \h2021, 128, 256, 2700, 3600,
  <<ER("d8", <<<<65536, 1>>, <<32768, 1>>, <<16384, 1>>, <<8192, 1>>, <<4096, 2>>>>), E("c7", 131072, 1)>>)
A25L10PU == Spi(RDID, \h7F37, \h2011, 128, 256, 2700, 3600,
  <<ER("d8", <<<<4096, 2>>, <<8192, 1>>, <<16384, 1>>, <<32768, 1>>, <<65536, 1>>>>), E("c7", 131072, 1)>>)
A25L16PT == Spi(RDID, \h7F37, \h2025, 2048, 256, 2700, 3600,
  <<ER("d8", <<<<65536, 31>>, <<32768, 1>>, <<16384, 1>>, <<8192, 1>>, <<4096, 2>>>>), E("60", 2097152, 1),
    E("c7", 2097152, 1)>>)
A25L16PU == Spi(RDID, \h7F37, \h2015, 2048, 256, 2700, 3600,
  <<ER("d8", <<<<4096, 2>>, <<8192, 1>>, <<16384, 1>>, <<32768, 1>>, <<65536, 31>>>>), E("60", 2097152, 1),
    E("c7", 2097152, 1)>>)
A25L20PT == Spi(RDID, \h7F37, \h2022, 256, 256, 2700, 3600,
  <<ER("d8", <<<<65536, 3>>, <<32768, 1>>, <<16384, 1>>, <<8192, 1>>, <<4096, 2>>>>), E("c7", 262144, 1)>>)
A25L20PU == Spi(RDID, \h7F37, \h2012, 256, 256, 2700, 3600,
  <<ER("d8", <<<<4096, 2>>, <<8192, 1>>, <<16384, 1>>, <<32768, 1>>, <<65536, 3>>>>), E("c7", 262144, 1)>>)
A25L40PT == Spi(RDID, \h7F37, \h2013, 512, 256, 2700, 3600,
  <<ER("d8", <<<<65536, 7>>, <<32768, 1>>, <<16384, 1>>, <<8192, 1>>, <<4096, 2>>>>), E("c7", 524288, 1)>>)
A25L40PU == Spi(RDID, \h7F37, \h2013, 512, 256, 2700, 3600,
  <<ER("d8", <<<<4096, 2>>, <<8192, 1>>, <<16384, 1>>, <<32768, 1>>, <<65536, 7>>>>), E("c7", 524288, 1)>>)
A25L512 == Spi(RDID, \h37, \h3010, 64, 256, 2700, 3600,
  <<E("20", 4096, 16), E("d8", 65536, 1), E("c7", 65536, 1)>>)
A25L80P == Spi(RDID, \h7F37, \h2014, 1024, 256, 2700, 3600,
  <<ER("d8", <<<<4096, 2>>, <<8192, 1>>, <<16384, 1>>, <<32768, 1>>, <<65536, 15>>>>), E("c7", 1048576, 1)>>)
A25LQ032_A25LQ32A == Spi(RDID, \h37, \h4016, 4096, 256, 2700, 3600,
  <<E("20", 4096, 1024), E("52", 65536, 64), E("d8", 65536, 64), E("60", 4194304, 1), E("c7", 4194304, 1)>>)
A25LQ16 == Spi(RDID, \h37, \h4015, 2048, 256, 2700, 3600,
  <<E("20", 4096, 512), E("52", 65536, 32), E("d8", 65536, 32), E("60", 2097152, 1), E("c7", 2097152, 1)>>)
A25LQ64 == Spi(RDID, \h37, \h4017, 8192, 256, 2700, 3600,
  <<E("20", 4096, 2048), E("52", 32768, 256), E("d8", 65536, 128), E("60", 8388608, 1), E("c7", 8388608, 1)>>)
A29002B == Memory({PARALLEL}, JEDEC, \h37, \hD, 256, 65536, {SHORT, A2AA}, ZERO, 4500, 5500,
  <<ER("sector_jedec", <<<<16384, 1>>, <<8192, 2>>, <<32768, 1>>, <<65536, 3>>>>),
    E("chip_block_jedec", 262144, 1)>>)
A29002T == Memory({PARALLEL}, JEDEC, \h37, \h8C, 256, 65536, {SHORT, A2AA}, ZERO, 4500, 5500,
  <<ER("sector_jedec", <<<<65536, 3>>, <<32768, 1>>, <<8192, 2>>, <<16384, 1>>>>),
    E("chip_block_jedec", 262144, 1)>>)
A29040B == Memory({PARALLEL}, JEDEC, \h37, \h86, 512, 65536, {SHORT, A2AA}, ZERO, 4500, 5500,
  <<E("sector_jedec", 65536, 8), E("chip_block_jedec", 524288, 1)>>)
A49LF040A == Memory({LPC}, JEDEC, \h37, \h9D, 512, 65536, {LONG, SHORT}, ZERO, 3000, 3600,
  <<E("block_jedec", 65536, 8), E("chip_block_jedec", 524288, 1)>>)
AT25DF021 == Spi(RDID, \h1F, \h4300, 256, 256, 2700, 3600,
  <<E("20", 4096, 64), E("52", 32768, 8), E("d8", 65536, 4), E("60", 262144, 1), E("c7", 262144, 1)>>)
AT25DF021A == Spi(RDID, \h1F, \h4301, 256, 256, 1650, 3600,
  <<E("20", 4096, 64), E("52", 32768, 8), E("d8", 65536, 4), E("60", 262144, 1), E("c7", 262144, 1)>>)
AT25DF041A == Spi(RDID, \h1F, \h4401, 512, 256, 2700, 3600,
  <<E("20", 4096, 128), E("52", 32768, 16), E("d8", 65536, 8), E("60", 524288, 1), E("c7", 524288, 1)>>)
AT25DF081 == Spi(RDID, \h1F, \h4502, 1024, 256, 1600, 2000,
  <<E("20", 4096, 256), E("52", 32768, 32), E("d8", 65536, 16), E("60", 1048576, 1), E("c7", 1048576, 1)>>)
AT25DF081A == Spi(RDID, \h1F, \h4501, 1024, 256, 2700, 3600,
  <<E("20", 4096, 256), E("52", 32768, 32), E("d8", 65536, 16), E("60", 1048576, 1), E("c7", 1048576, 1)>>)
AT25DF161 == Spi(RDID, \h1F, \h4602, 2048, 256, 2700, 3600,
  <<E("20", 4096, 512), E("52", 32768, 64), E("d8", 65536, 32), E("60", 2097152, 1), E("c7", 2097152, 1)>>)
AT25DF321 == Spi(RDID, \h1F, \h4700, 4096, 256, 2700, 3600,
  <<E("20", 4096, 1024), E("52", 32768, 128), E("d8", 65536, 64), E("60", 4194304, 1), E("c7", 4194304, 1)>>)
AT25DF321A == Spi(RDID, \h1F, \h4701, 4096, 256, 2700, 3600,
  <<E("20", 4096, 1024), E("52", 32768, 128), E("d8", 65536, 64), E("60", 4194304, 1), E("c7", 4194304, 1)>>)
AT25DF641_A == Spi(RDID, \h1F, \h4800, 8192, 256, 2700, 3600,
  <<E("20", 4096, 2048), E("52", 32768, 256), E("d8", 65536, 128), E("60", 8388608, 1), E("c7", 8388608, 1)>>)
AT25DL081 == Spi(RDID, \h1F, \h4502, 1024, 256, 1650, 1950,
  <<E("20", 4096, 256), E("52", 32768, 32), E("d8", 65536, 16), E("60", 1048576, 1), E("c7", 1048576, 1)>>)
AT25DL161 == Spi(RDID, \h1F, \h4603, 2048, 256, 1650, 1950,
  <<E("20", 4096, 512), E("52", 32768, 64), E("d8", 65536, 32), E("60", 2097152, 1), E("c7", 2097152, 1)>>)
AT25DQ161 == Spi(RDID, \h1F, \h8600, 2048, 256, 2700, 3600,
  <<E("20", 4096, 512), E("52", 32768, 64), E("d8", 65536, 32), E("60", 2097152, 1), E("c7", 2097152, 1)>>)
AT25F1024_A == Spi(AT25F, \h1F, \h60, 128, 256, 2700, 3600, <<E("52", 32768, 4), E("62", 131072, 1)>>)
AT25F2048 == Spi(AT25F, \h1F, \h63, 256, 256, 2700, 3600, <<E("52", 65536, 4), E("62", 262144, 1)>>)
AT25F4096 == Spi(AT25F, \h1F, \h64, 512, 256, 2700, 3600, <<E("52", 65536, 8), E("62", 524288, 1)>>)
AT25F512 == Spi(AT25F, \h1F, \h60, 64, 256, 2700, 3600, <<E("52", 32768, 2), E("62", 65536, 1)>>)
AT25F512A == Spi(AT25F, \h1F, \h65, 64, 128, 2700, 3600, <<E("52", 32768, 2), E("62", 65536, 1)>>)
AT25F512B == Spi(RDID, \h1F, \h6500, 64, 256, 2700, 3600,
  <<E("20", 4096, 16), E("52", 32768, 2), E("d8", 32768, 2), E("60", 65536, 1), E("c7", 65536, 1),
    E("62", 65536, 1)>>)
AT25FS010 == Spi(RDID, \h1F, \h6601, 128, 256, 2700, 3600,
  <<E("20", 4096, 32), E("d7", 4096, 32), E("52", 32768, 4), E("d8", 32768, 4), E("60", 131072, 1),
    E("c7", 131072, 1)>>)
AT25FS040 == Spi(RDID, \h1F, \h6604, 512, 256, 2700, 3600,
  <<E("20", 4096, 128), E("52", 65536, 8), E("d8", 65536, 8), E("60", 524288, 1), E("c7", 524288, 1)>>)
AT25SF041 == Spi(RDID, \h1F, \h8401, 512, 256, 2500, 3600,
  <<E("20", 4096, 128), E("52", 32768, 16), E("d8", 65536, 8), E("60", 524288, 1), E("c7", 524288, 1)>>)
AT25SF081 == Spi(RDID, \h1F, \h8501, 1024, 256, 2300, 3600,
  <<E("20", 4096, 256), E("52", 32768, 32), E("d8", 65536, 16), E("60", 1048576, 1), E("c7", 1048576, 1)>>)
AT25SF161 == Spi(RDID, \h1F, \h8601, 2048, 256, 2500, 3600,
  <<E("20", 4096, 512), E("52", 32768, 64), E("d8", 65536, 32), E("60", 2097152, 1), E("c7", 2097152, 1)>>)
AT25SF321 == Spi(RDID, \h1F, \h8701, 4096, 256, 2500, 3600,
  <<E("20", 4096, 1024), E("52", 32768, 128), E("d8", 65536, 64), E("60", 4194304, 1), E("c7", 4194304, 1)>>)
AT25SL128A == Spi(RDID, \h1F, \h4218, 16384, 256, 1700, 2000,
  <<E("20", 4096, 4096), E("52", 32768, 512), E("d8", 65536, 256), E("60", 16777216, 1),
    E("c7", 16777216, 1)>>)
AT26DF041 == Spi(RDID, \h1F, \h4400, 512, 256, 2700, 3600,
  <<E("81", 256, 2048), E("50", 2048, 256), E("20", 4096, 128)>>)
AT26DF081A == Spi(RDID, \h1F, \h4501, 1024, 256, 2700, 3600,
  <<E("20", 4096, 256), E("52", 32768, 32), E("d8", 65536, 16), E("60", 1048576, 1), E("c7", 1048576, 1)>>)
AT26DF161 == Spi(RDID, \h1F, \h4600, 2048, 256, 2700, 3600,
  <<E("20", 4096, 512), E("52", 32768, 64), E("d8", 65536, 32), E("60", 2097152, 1), E("c7", 2097152, 1)>>)
AT26DF161A == Spi(RDID, \h1F, \h4601, 2048, 256, 2700, 3600,
  <<E("20", 4096, 512), E("52", 32768, 64), E("d8", 65536, 32), E("60", 2097152, 1), E("c7", 2097152, 1)>>)
AT26F004 == Spi(RDID, \h1F, \h400, 512, 256, 2700, 3600,
  <<E("20", 4096, 128), E("52", 32768, 16), E("d8", 65536, 8), E("60", 524288, 1), E("c7", 524288, 1)>>)
AT29C010A == Memory({PARALLEL}, JEDEC, \h1F, \hD5, 128, 128, {LONG}, 10000, 4500, 5500,
  <<E("chip_block_jedec", 131072, 1)>>)
AT29C020 == Memory({PARALLEL}, JEDEC, \h1F, \hDA, 256, 256, {LONG}, 10000, 4500, 5500,
  <<E("chip_block_jedec", 262144, 1)>>)
AT29C040A == Memory({PARALLEL}, JEDEC, \h1F, \hA4, 512, 256, {LONG}, 10000, 4500, 5500,
  <<E("chip_block_jedec", 524288, 1)>>)
AT29C512 == Memory({PARALLEL}, JEDEC, \h1F, \h5D, 64, 128, {LONG}, 10000, 4500, 5500,
  <<E("chip_block_jedec", 65536, 1)>>)
AT45CS1282 == Spi(RDID, \h1F, \h2920, 16896, 1056, 2700, 3600,
  <<ER("at45cs_sector", <<<<8448, 1>>, <<261888, 1>>, <<270336, 63>>>>)>>)
AT45DB011D == Spi(RDID, \h1F, \h2200, 128, 256, 2700, 3600,
  <<E("at45db_page", 256, 512), E("at45db_block", 2048, 64),
    ER("at45db_sector", <<<<2048, 1>>, <<30720, 1>>, <<32768, 3>>>>), E("at45db_chip", 131072, 1)>>)
AT45DB021D == Spi(RDID, \h1F, \h2300, 256, 256, 2700, 3600,
  <<E("at45db_page", 256, 1024), E("at45db_block", 2048, 128),
    ER("at45db_sector", <<<<2048, 1>>, <<30720, 1>>, <<32768, 7>>>>), E("at45db_chip", 262144, 1)>>)
AT45DB041D == Spi(RDID, \h1F, \h2400, 512, 256, 2700, 3600,
  <<E("at45db_page", 256, 2048), E("at45db_block", 2048, 256),
    ER("at45db_sector", <<<<2048, 1>>, <<63488, 1>>, <<65536, 7>>>>), E("at45db_chip", 524288, 1)>>)
AT45DB081D == Spi(RDID, \h1F, \h2500, 1024, 256, 2700, 3600,
  <<E("at45db_page", 256, 4096), E("at45db_block", 2048, 512),
    ER("at45db_sector", <<<<2048, 1>>, <<63488, 1>>, <<65536, 15>>>>), E("at45db_chip", 1048576, 1)>>)
AT45DB161D == Spi(RDID, \h1F, \h2600, 2048, 512, 2700, 3600,
  <<E("at45db_page", 512, 4096), E("at45db_block", 4096, 512),
    ER("at45db_sector", <<<<4096, 1>>, <<126976, 1>>, <<131072, 15>>>>), E("at45db_chip", 2097152, 1)>>)
AT45DB321C == Spi(RDID, \h1F, \h2700, 4224, 528, 2700, 3600,
  <<E("at45db_page", 528, 8192), E("at45db_block", 4224, 1024), E("at45db_chip", 4325376, 1)>>)
AT45DB321D == Spi(RDID, \h1F, \h2701, 4096, 512, 2700, 3600,
  <<E("at45db_page", 512, 8192), E("at45db_block", 4096, 1024),
    ER("at45db_sector", <<<<4096, 1>>, <<61440, 1>>, <<65536, 63>>>>), E("at45db_chip", 4194304, 1)>>)
AT45DB321E == Spi(RDID, \h1F, \h2700, 4096, 512, 2500, 3600,
  <<E("at45db_page", 512, 8192), E("at45db_block", 4096, 1024),
    ER("at45db_sector", <<<<4096, 1>>, <<61440, 1>>, <<65536, 63>>>>), E("at45db_chip", 4194304, 1)>>)
AT45DB642D == Spi(RDID, \h1F, \h2800, 8192, 1024, 2700, 3600,
  <<E("at45db_page", 1024, 8192), E("at45db_block", 8192, 1024),
    ER("at45db_sector", <<<<8192, 1>>, <<253952, 1>>, <<262144, 31>>>>), E("at45db_chip", 8388608, 1)>>)
AT49_H_F010 == Memory({PARALLEL}, JEDEC, \h1F, \h17, 128, 0, {LONG, SHORT}, ZERO, 4500, 5500,
  <<E("chip_block_jedec", 131072, 1)>>)
AT49BV512 == Memory({PARALLEL}, JEDEC, \h1F, \h3, 64, 64, {LONG, SHORT}, ZERO, 2700, 3600,
  <<E("chip_block_jedec", 65536, 1)>>)
AT49F511 == Memory({PARALLEL}, JEDEC, \h1F, \h4, 64, 0, {LONG, SHORT}, ZERO, 4500, 5500,
  <<E("sector_jedec", 65536, 1), E("chip_block_jedec", 65536, 1)>>)
AT49F002_N == Memory({PARALLEL}, JEDEC, \h1F, \h7, 256, 256, {LONG, SHORT}, ZERO, 4500, 5500,
  <<ER("sector_jedec", <<<<16384, 1>>, <<8192, 2>>, <<98304, 1>>, <<131072, 1>>>>),
    E("chip_block_jedec", 262144, 1)>>)
AT49F002_N_T == Memory({PARALLEL}, JEDEC, \h1F, \h8, 256, 256, {LONG, SHORT}, ZERO, 4500, 5500,
  <<ER("sector_jedec", <<<<131072, 1>>, <<98304, 1>>, <<8192, 2>>, <<16384, 1>>>>),
    E("chip_block_jedec", 262144, 1)>>)
AT49F020 == Memory({PARALLEL}, JEDEC, \h1F, \hB, 256, 0, {LONG, SHORT}, ZERO, 4500, 5500,
  <<E("chip_block_jedec", 262144, 1)>>)
AT49F040 == Memory({PARALLEL}, JEDEC, \h1F, \h13, 512, 0, {LONG, SHORT}, ZERO, 4500, 5500,
  <<E("chip_block_jedec", 524288, 1)>>)
AT49F080 == Memory({PARALLEL}, JEDEC, \h1F, \h23, 1024, 0, {LONG, SHORT}, ZERO, 4500, 5500,
  <<E("chip_block_jedec", 1048576, 1)>>)
AT49F080T == Memory({PARALLEL}, JEDEC, \h1F, \h27, 1024, 0, {LONG, SHORT}, ZERO, 4500, 5500,
  <<E("chip_block_jedec", 1048576, 1)>>)
AT49LH002 == Memory({LPC, FWH}, I82802AB, \h1F, \hE9, 256, 0, {}, ZERO, 3000, 3600,
  <<ER("none", <<<<65536, 3>>, <<32768, 1>>, <<8192, 2>>, <<16384, 1>>>>), E("block_82802ab", 65536, 4)>>)
AT49LH004 == Memory({LPC, FWH}, I82802AB, \h1F, \hEE, 512, 0, {}, ZERO, 3000, 3600,
  <<ER("block_82802ab", <<<<65536, 7>>, <<32768, 1>>, <<8192, 2>>, <<16384, 1>>>>), E("none", 65536, 8)>>)
AT49LH00B4 == Memory({LPC, FWH}, I82802AB, \h1F, \hED, 512, 0, {}, ZERO, 3000, 3600,
  <<ER("none", <<<<8192, 2>>, <<16384, 1>>, <<32768, 1>>, <<65536, 7>>>>), E("block_82802ab", 65536, 8)>>)
B_25D05AS == Spi(RDID, \h68, \h4010, 64, 256, 2700, 3600,
  <<E("20", 4096, 16), E("52", 32768, 2), E("d8", 65536, 1), E("60", 65536, 1), E("c7", 65536, 1)>>)
B_25D10AS == Spi(RDID, \h68, \h4011, 128, 256, 2700, 3600,
  <<E("20", 4096, 32), E("52", 32768, 4), E("d8", 65536, 2), E("60", 131072, 1), E("c7", 131072, 1)>>)
B_25D20AS == Spi(RDID, \h68, \h4012, 256, 256, 2700, 3600,
  <<E("20", 4096, 64), E("52", 32768, 8), E("d8", 65536, 4), E("60", 262144, 1), E("c7", 262144, 1)>>)
B_25D40AS_BY25D40ES == Spi(RDID, \h68, \h4013, 512, 256, 2700, 3600,
  <<E("20", 4096, 128), E("52", 32768, 16), E("d8", 65536, 8), E("60", 524288, 1), E("c7", 524288, 1)>>)
B_25D80AS_BY25Q80BS_BY25Q80ES == Spi(RDID, \h68, \h4014, 1024, 256, 2700, 3600,
  <<E("20", 4096, 256), E("52", 32768, 32), E("d8", 65536, 16), E("60", 1048576, 1), E("c7", 1048576, 1)>>)
B_25D16AS_BY25Q16BS_BY25Q16ES == Spi(RDID, \h68, \h4015, 2048, 256, 2700, 3600,
  <<E("20", 4096, 512), E("52", 32768, 64), E("d8", 65536, 32), E("60", 2097152, 1), E("c7", 2097152, 1)>>)
B_25Q32BS_BY25Q32CS_BY25Q32ES == Spi(RDID, \h68, \h4016, 4096, 256, 2700, 3600,
  <<E("20", 4096, 1024), E("52", 32768, 128), E("d8", 65536, 64), E("60", 4194304, 1), E("c7", 4194304, 1)>>)
B_25Q64AS_BY25Q64ES == Spi(RDID, \h68, \h4017, 8192, 256, 2700, 3600,
  <<E("20", 4096, 2048), E("52", 32768, 256), E("d8", 65536, 128), E("60", 8388608, 1), E("c7", 8388608, 1)>>)
B_25Q128AS_BY25Q128ES == Spi(RDID, \h68, \h4018, 16384, 256, 2700, 3600,
  <<E("20", 4096, 4096), E("52", 32768, 512), E("d8", 65536, 256), E("60", 16777216, 1),
    E("c7", 16777216, 1)>>)
BY25Q128FS == Spi(RDID, \h68, \h4118, 16384, 256, 2700, 3600,
  <<E("20", 4096, 4096), E("52", 32768, 512), E("d8", 65536, 256), E("60", 16777216, 1),
    E("c7", 16777216, 1)>>)
BM29F040 == Memory({PARALLEL}, JEDEC, \hAD, \h40, 512, 65536, {LONG, SHORT}, ZERO, 4500, 5500,
  <<E("sector_jedec", 65536, 8), E("chip_block_jedec", 524288, 1)>>)
CAT28F512 == Memory({PARALLEL}, I82802AB, \h31, \hB8, 64, 0, {}, 0, 4500, 5500, <<E("m28f", 65536, 1)>>)
CAT28F010 == Memory({PARALLEL}, I82802AB, \h31, \hB4, 128, 0, {}, 0, 4500, 5500, <<E("m28f", 131072, 1)>>)
KB9012_EDI == Spi(EDI, \hC3, \h4, 128, 128, 2700, 3600, <<E("edi_chip_block_erase", 128, 1024)>>)
ES25P16 == Spi(RDID, \h4A, \h2015, 2048, 256, 2700, 3600, <<E("d8", 65536, 32), E("c7", 2097152, 1)>>)
ES25P40 == Spi(RDID, \h4A, \h2013, 512, 256, 2700, 3600, <<E("d8", 65536, 8), E("c7", 524288, 1)>>)
ES25P80 == Spi(RDID, \h4A, \h2014, 1024, 256, 2700, 3600, <<E("d8", 65536, 16), E("c7", 1048576, 1)>>)
F25L008A == Spi(RDID, \h8C, \h2014, 1024, 256, 2700, 3600,
  <<E("20", 4096, 256), E("d8", 65536, 16), E("60", 1048576, 1), E("c7", 1048576, 1)>>)
F25L32PA == Spi(RDID, \h8C, \h2016, 4096, 256, 2700, 3600,
  <<E("20", 4096, 1024), E("d8", 65536, 64), E("60", 4194304, 1), E("c7", 4194304, 1)>>)
F49B002UA == Memory({PARALLEL}, JEDEC, \h8C, \h0, 256, 4096, {LONG, SHORT}, ZERO, 4500, 5500,
  <<ER("sector_jedec", <<<<131072, 1>>, <<98304, 1>>, <<8192, 2>>, <<16384, 1>>>>),
    E("chip_block_jedec", 262144, 1)>>)
EN25B05 == Spi(RDID, \h1C, \h2010, 64, 256, 2700, 3600,
  <<ER("d8", <<<<4096, 2>>, <<8192, 1>>, <<16384, 1>>, <<32768, 1>>>>), E("c7", 65536, 1)>>)
EN25B05T == Spi(RDID, \h1C, \h2010, 64, 256, 2700, 3600,
  <<ER("d8", <<<<32768, 1>>, <<16384, 1>>, <<8192, 1>>, <<4096, 2>>>>), E("c7", 65536, 1)>>)
EN25B10 == Spi(RDID, \h1C, \h2011, 128, 256, 2700, 3600,
  <<ER("d8", <<<<4096, 2>>, <<8192, 1>>, <<16384, 1>>, <<32768, 3>>>>), E("c7", 131072, 1)>>)
EN25B10T == Spi(RDID, \h1C, \h2011, 128, 256, 2700, 3600,
  <<ER("d8", <<<<32768, 3>>, <<16384, 1>>, <<8192, 1>>, <<4096, 2>>>>), E("c7", 131072, 1)>>)
EN25B16 == Spi(RDID, \h1C, \h2015, 2048, 256, 2700, 3600,
  <<ER("d8", <<<<4096, 2>>, <<8192, 1>>, <<16384, 1>>, <<32768, 1>>, <<65536, 31>>>>), E("c7", 2097152, 1)>>)
EN25B16T == Spi(RDID, \h1C, \h2015, 2048, 256, 2700, 3600,
  <<ER("d8", <<<<65536, 31>>, <<32768, 1>>, <<16384, 1>>, <<8192, 1>>, <<4096, 2>>>>), E("c7", 2097152, 1)>>)
EN25B20 == Spi(RDID, \h1C, \h2012, 256, 256, 2700, 3600,
  <<ER("d8", <<<<4096, 2>>, <<8192, 1>>, <<16384, 1>>, <<32768, 1>>, <<65536, 3>>>>), E("c7", 262144, 1)>>)
EN25B20T == Spi(RDID, \h1C, \h2012, 256, 256, 2700, 3600,
  <<ER("d8", <<<<65536, 3>>, <<32768, 1>>, <<16384, 1>>, <<8192, 1>>, <<4096, 2>>>>), E("c7", 262144, 1)>>)
EN25B32 == Spi(RDID, \h1C, \h2016, 4096, 256, 2700, 3600,
  <<ER("d8", <<<<4096, 2>>, <<8192, 1>>, <<16384, 1>>, <<32768, 1>>, <<65536, 63>>>>), E("c7", 4194304, 1)>>)
EN25B32T == Spi(RDID, \h1C, \h2016, 4096, 256, 2700, 3600,
  <<ER("d8", <<<<65536, 63>>, <<32768, 1>>, <<16384, 1>>, <<8192, 1>>, <<4096, 2>>>>), E("c7", 4194304, 1)>>)
EN25B40 == Spi(RDID, \h1C, \h2013, 512, 256, 2700, 3600,
  <<ER("d8", <<<<4096, 2>>, <<8192, 1>>, <<16384, 1>>, <<32768, 1>>, <<65536, 7>>>>), E("c7", 524288, 1)>>)
EN25B40T == Spi(RDID, \h1C, \h2013, 512, 256, 2700, 3600,
  <<ER("d8", <<<<65536, 7>>, <<32768, 1>>, <<16384, 1>>, <<8192, 1>>, <<4096, 2>>>>), E("c7", 524288, 1)>>)
EN25B64 == Spi(RDID, \h1C, \h2017, 8192, 256, 2700, 3600,
  <<ER("d8", <<<<4096, 2>>, <<8192, 1>>, <<16384, 1>>, <<32768, 1>>, <<65536, 127>>>>), E("c7", 8388608, 1)>>)
EN25B64T == Spi(RDID, \h1C, \h2017, 8192, 256, 2700, 3600,
  <<ER("d8", <<<<65536, 127>>, <<32768, 1>>, <<16384, 1>>, <<8192, 1>>, <<4096, 2>>>>), E("c7", 8388608, 1)>>)
EN25B80 == Spi(RDID, \h1C, \h2014, 1024, 256, 2700, 3600,
  <<ER("d8", <<<<4096, 2>>, <<8192, 1>>, <<16384, 1>>, <<32768, 1>>, <<65536, 15>>>>), E("c7", 1048576, 1)>>)
EN25B80T == Spi(RDID, \h1C, \h2014, 1024, 256, 2700, 3600,
  <<ER("d8", <<<<65536, 15>>, <<32768, 1>>, <<16384, 1>>, <<8192, 1>>, <<4096, 2>>>>), E("c7", 1048576, 1)>>)
EN25F05 == Spi(RDID, \h1C, \h3110, 64, 256, 2700, 3600,
  <<E("20", 4096, 16), E("d8", 32768, 2), E("52", 32768, 2), E("60", 65536, 1), E("c7", 65536, 1)>>)
EN25F10 == Spi(RDID, \h1C, \h3111, 128, 256, 2700, 3600,
  <<E("20", 4096, 32), E("d8", 32768, 4), E("52", 32768, 4), E("60", 131072, 1), E("c7", 131072, 1)>>)
EN25F16 == Spi(RDID, \h1C, \h3115, 2048, 256, 2700, 3600,
  <<E("20", 4096, 512), E("d8", 65536, 32), E("60", 2097152, 1), E("c7", 2097152, 1)>>)
EN25F20 == Spi(RDID, \h1C, \h3112, 256, 256, 2700, 3600,
  <<E("20", 4096, 64), E("d8", 65536, 4), E("52", 65536, 4), E("60", 262144, 1), E("c7", 262144, 1)>>)
EN25F32 == Spi(RDID, \h1C, \h3116, 4096, 256, 2700, 3600,
  <<E("20", 4096, 1024), E("d8", 65536, 64), E("60", 4194304, 1), E("c7", 4194304, 1)>>)
EN25F40 == Spi(RDID, \h1C, \h3113, 512, 256, 2700, 3600,
  <<E("20", 4096, 128), E("d8", 65536, 8), E("60", 524288, 1), E("c7", 524288, 1)>>)
EN25F64 == Spi(RDID, \h1C, \h3117, 8192, 256, 2700, 3600,
  <<E("20", 4096, 2048), E("d8", 65536, 128), E("60", 8388608, 1), E("c7", 8388608, 1)>>)
EN25F80 == Spi(RDID, \h1C, \h3114, 1024, 256, 2700, 3600,
  <<E("20", 4096, 256), E("d8", 65536, 16), E("60", 1048576, 1), E("c7", 1048576, 1)>>)
EN25P05 == Spi(RDID, \h1C, \h2010, 64, 256, 2700, 3600, <<E("d8", 32768, 2), E("c7", 65536, 1)>>)
EN25P10 == Spi(RDID, \h1C, \h2011, 128, 256, 2700, 3600, <<E("d8", 32768, 4), E("c7", 131072, 1)>>)
EN25P16 == Spi(RDID, \h1C, \h2015, 2048, 256, 2700, 3600, <<E("d8", 65536, 32), E("c7", 2097152, 1)>>)
EN25P20 == Spi(RDID, \h1C, \h2012, 256, 256, 2700, 3600, <<E("d8", 65536, 4), E("c7", 262144, 1)>>)
EN25P32 == Spi(RDID, \h1C, \h2016, 4096, 256, 2700, 3600, <<E("d8", 65536, 64), E("c7", 4194304, 1)>>)
EN25P40 == Spi(RDID, \h1C, \h2013, 512, 256, 2700, 3600, <<E("d8", 65536, 8), E("c7", 524288, 1)>>)
EN25P64 == Spi(RDID, \h1C, \h2017, 8192, 256, 2700, 3600, <<E("d8", 65536, 128), E("c7", 8388608, 1)>>)
EN25P80 == Spi(RDID, \h1C, \h2014, 1024, 256, 2700, 3600, <<E("d8", 65536, 16), E("c7", 1048576, 1)>>)
EN25Q128 == Spi(RDID, \h1C, \h3018, 16384, 256, 0, 0,
  <<E("20", 4096, 4096), E("d8", 65536, 256), E("60", 16777216, 1), E("c7", 16777216, 1)>>)
EN25Q16 == Spi(RDID, \h1C, \h3015, 2048, 256, 2700, 3600,
  <<E("20", 4096, 512), E("d8", 65536, 32), E("52", 65536, 32), E("60", 2097152, 1), E("c7", 2097152, 1)>>)
EN25Q32_A_B == Spi(RDID, \h1C, \h3016, 4096, 256, 2700, 3600,
  <<E("20", 4096, 1024), E("d8", 65536, 64), E("60", 4194304, 1), E("c7", 4194304, 1)>>)
EN25Q40 == Spi(RDID, \h1C, \h3013, 512, 256, 2700, 3600,
  <<E("20", 4096, 128), E("d8", 65536, 8), E("60", 524288, 1), E("c7", 524288, 1)>>)
EN25Q64 == Spi(RDID, \h1C, \h3017, 8192, 256, 2700, 3600,
  <<E("20", 4096, 2048), E("d8", 65536, 128), E("60", 8388608, 1), E("c7", 8388608, 1)>>)
EN25Q80_A == Spi(RDID, \h1C, \h3014, 1024, 256, 2700, 3600,
  <<E("20", 4096, 256), E("d8", 65536, 16), E("60", 1048576, 1), E("c7", 1048576, 1)>>)
EN25QH128 == Spi(RDID, \h1C, \h7018, 16384, 256, 2700, 3600,
  <<E("20", 4096, 4096), E("d8", 65536, 256), E("60", 16777216, 1), E("c7", 16777216, 1)>>)
EN25QH16 == Spi(RDID, \h1C, \h7015, 2048, 256, 2700, 3600,
  <<E("20", 4096, 512), E("d8", 65536, 32), E("60", 2097152, 1), E("c7", 2097152, 1)>>)
EN25QH32 == Spi(RDID, \h1C, \h7016, 4096, 256, 2700, 3600,
  <<E("20", 4096, 1024), E("d8", 65536, 64), E("60", 4194304, 1), E("c7", 4194304, 1)>>)
EN25QH32B == Spi(RDID, \h1C, \h7016, 4096, 256, 2700, 3600,
  <<E("20", 4096, 1024), E("52", 32768, 128), E("d8", 65536, 64), E("60", 4194304, 1), E("c7", 4194304, 1)>>)
EN25QH64 == Spi(RDID, \h1C, \h7017, 8192, 256, 2700, 3600,
  <<E("20", 4096, 2048), E("d8", 65536, 128), E("60", 8388608, 1), E("c7", 8388608, 1)>>)
EN25QH64A == Spi(RDID, \h1C, \h7017, 8192, 256, 2700, 3600,
  <<E("20", 4096, 2048), E("52", 32768, 256), E("d8", 65536, 128), E("60", 8388608, 1), E("c7", 8388608, 1)>>)
EN25S10 == Spi(RDID, \h1C, \h3811, 128, 256, 1650, 1950,
  <<E("20", 4096, 32), E("52", 32768, 4), E("60", 131072, 1), E("c7", 131072, 1)>>)
EN25S16 == Spi(RDID, \h1C, \h3815, 2048, 256, 1650, 1950,
  <<E("20", 4096, 512), E("d8", 32768, 64), E("52", 65536, 32), E("60", 2097152, 1), E("c7", 2097152, 1)>>)
EN25S20 == Spi(RDID, \h1C, \h3812, 256, 256, 1650, 1950,
  <<E("20", 4096, 64), E("d8", 65536, 4), E("60", 262144, 1), E("c7", 262144, 1)>>)
EN25S32 == Spi(RDID, \h1C, \h3816, 4096, 256, 1650, 1950,
  <<E("20", 4096, 1024), E("52", 32768, 128), E("d8", 65536, 64), E("60", 4194304, 1), E("c7", 4194304, 1)>>)
EN25S40 == Spi(RDID, \h1C, \h3813, 512, 256, 1650, 1950,
  <<E("20", 4096, 128), E("d8", 65536, 8), E("60", 524288, 1), E("c7", 524288, 1)>>)
EN25S64 == Spi(RDID, \h1C, \h3817, 8192, 256, 1650, 1950,
  <<E("20", 4096, 2048), E("d8", 65536, 128), E("60", 8388608, 1), E("c7", 8388608, 1)>>)
EN25S80 == Spi(RDID, \h1C, \h3814, 1024, 256, 1650, 1950,
  <<E("20", 4096, 256), E("d8", 65536, 16), E("60", 1048576, 1), E("c7", 1048576, 1)>>)
EN29F002_A_N_B == Memory({PARALLEL}, JEDEC, \h7F1C, \h7F97, 256, 256, {LONG, SHORT, AAAA}, ZERO, 4500, 5500,
  <<ER("sector_jedec", <<<<16384, 1>>, <<8192, 2>>, <<32768, 1>>, <<65536, 3>>>>),
    E("chip_block_jedec", 262144, 1)>>)
EN29F002_A_N_T == Memory({PARALLEL}, JEDEC, \h7F1C, \h7F92, 256, 256, {LONG, SHORT, AAAA}, ZERO, 4500, 5500,
  <<ER("sector_jedec", <<<<65536, 3>>, <<32768, 1>>, <<8192, 2>>, <<16384, 1>>>>),
    E("chip_block_jedec", 262144, 1)>>)
EN29F010 == Memory({PARALLEL}, JEDEC, \h7F1C, \h20, 128, 128, {LONG, SHORT, A2AA}, ZERO, 4500, 5500,
  <<E("sector_jedec", 16384, 8), E("chip_block_jedec", 131072, 1)>>)
EN29GL064_A_B == Memory({PARALLEL}, JEDEC_29GL, \h7F1C, \h7E1000, 8192, 131072, {SHORT, A2AA}, ZERO, 2700, 3600,
  <<ER("sector_jedec", <<<<8192, 8>>, <<65536, 127>>>>), E("chip_block_jedec", 8388608, 1)>>)
EN29GL064_A_T == Memory({PARALLEL}, JEDEC_29GL, \h7F1C, \h7E1001, 8192, 131072, {SHORT, A2AA}, ZERO, 2700, 3600,
  <<ER("sector_jedec", <<<<65536, 127>>, <<8192, 8>>>>), E("chip_block_jedec", 8388608, 1)>>)
EN29GL064_H_L == Memory({PARALLEL}, JEDEC_29GL, \h7F1C, \h7E0C01, 8192, 131072, {SHORT, A2AA}, ZERO, 2700, 3600,
  <<E("sector_jedec", 65536, 128), E("chip_block_jedec", 8388608, 1)>>)
EN29GL128 == Memory({PARALLEL}, JEDEC_29GL, \h7F1C, \h7F2101, 16384, 131072, {SHORT, A2AA}, ZERO, 2700, 3600,
  <<E("sector_jedec", 131072, 128), E("chip_block_jedec", 16777216, 1)>>)
EN29LV040_A == Memory({PARALLEL}, JEDEC, \h7F1C, \h4F, 512, 4096, {}, ZERO, 3000, 3600,
  <<E("sector_jedec", 65536, 8), E("chip_block_jedec", 524288, 1)>>)
EN29LV640B == Memory({PARALLEL}, JEDEC, \h7F1C, \hCB, 8192, 8192, {SHORT, AAAA, SHIFTED}, 10, 2700, 3600,
  <<ER("block_jedec", <<<<8192, 8>>, <<65536, 127>>>>), E("chip_block_jedec", 8388608, 1)>>)
FM25F005 == Spi(RDID, \hA1, \h3110, 64, 256, 2700, 3600,
  <<E("20", 4096, 16), E("52", 32768, 2), E("d8", 65536, 1), E("60", 65536, 1), E("c7", 65536, 1)>>)
FM25F01 == Spi(RDID, \hA1, \h3111, 128, 256, 2700, 3600,
  <<E("20", 4096, 32), E("52", 32768, 4), E("d8", 65536, 2), E("60", 131072, 1), E("c7", 131072, 1)>>)
FM25F02_A == Spi(RDID, \hA1, \h3112, 256, 256, 2700, 3600,
  <<E("20", 4096, 64), E("52", 32768, 8), E("d8", 65536, 4), E("60", 262144, 1), E("c7", 262144, 1)>>)
FM25F04_A == Spi(RDID, \hA1, \h3113, 512, 256, 2700, 3600,
  <<E("20", 4096, 128), E("52", 32768, 16), E("d8", 65536, 8), E("60", 524288, 1), E("c7", 524288, 1)>>)
FM25Q02 == Spi(RDID, \hA1, \h4012, 256, 256, 2700, 3600,
  <<E("20", 4096, 64), E("52", 32768, 8), E("d8", 65536, 4), E("60", 262144, 1), E("c7", 262144, 1)>>)
FM25Q04 == Spi(RDID, \hA1, \h4013, 512, 256, 2700, 3600,
  <<E("20", 4096, 128), E("52", 32768, 16), E("d8", 65536, 8), E("60", 524288, 1), E("c7", 524288, 1)>>)
FM25Q08 == Spi(RDID, \hA1, \h4014, 1024, 256, 2700, 3600,
  <<E("20", 4096, 256), E("52", 32768, 32), E("d8", 65536, 16), E("60", 1048576, 1), E("c7", 1048576, 1)>>)
FM25Q08A == Spi(RDID, \hA1, \h4014, 1024, 256, 2700, 3600,
  <<E("20", 4096, 256), E("52", 32768, 32), E("d8", 65536, 16), E("60", 1048576, 1), E("c7", 1048576, 1)>>)
FM25Q16 == Spi(RDID, \hA1, \h4015, 2048, 256, 2700, 3600,
  <<E("20", 4096, 512), E("52", 32768, 64), E("d8", 65536, 32), E("60", 2097152, 1), E("c7", 2097152, 1)>>)
FM25Q32 == Spi(RDID, \hA1, \h4016, 4096, 256, 2700, 3600,
  <<E("20", 4096, 1024), E("52", 32768, 128), E("d8", 65536, 64), E("60", 4194304, 1), E("c7", 4194304, 1)>>)
FM25Q64 == Spi(RDID, \hA1, \h4017, 8192, 256, 2700, 3600,
  <<E("20", 4096, 2048), E("52", 32768, 256), E("d8", 65536, 128), E("60", 8388608, 1), E("c7", 8388608, 1)>>)
FM25Q128 == Spi(RDID, \hA1, \h4018, 16384, 256, 2700, 3600,
  <<E("20", 4096, 4096), E("52", 32768, 512), E("d8", 65536, 256), E("60", 16777216, 1),
    E("c7", 16777216, 1)>>)
FM25W128 == Spi(RDID, \hA1, \h2818, 16384, 256, 1650, 3600,
  <<E("20", 4096, 4096), E("52", 32768, 512), E("d8", 65536, 256), E("60", 16777216, 1),
    E("c7", 16777216, 1)>>)
MBM29F004BC == Memory({PARALLEL}, JEDEC, \h4, \h7B, 512, 65536, {LONG, SHORT, A2AA}, ZERO, 4500, 5500,
  <<ER("sector_jedec", <<<<16384, 1>>, <<8192, 2>>, <<32768, 1>>, <<65536, 7>>>>),
    E("chip_block_jedec", 524288, 1)>>)
MBM29F004TC == Memory({PARALLEL}, JEDEC, \h4, \h77, 512, 65536, {LONG, SHORT, A2AA}, ZERO, 4500, 5500,
  <<ER("sector_jedec", <<<<65536, 7>>, <<32768, 1>>, <<8192, 2>>, <<16384, 1>>>>),
    E("chip_block_jedec", 524288, 1)>>)
MBM29F400BC == Memory({PARALLEL}, JEDEC, \h4, \hAB, 512, 65536, {LONG, SHORT, SHIFTED}, 10, 4750, 5250,
  <<ER("sector_jedec", <<<<16384, 1>>, <<8192, 2>>, <<32768, 1>>, <<65536, 7>>>>),
    E("chip_block_jedec", 524288, 1)>>)
MBM29F400TC == Memory({PARALLEL}, JEDEC, \h4, \h23, 512, 65536, {LONG, SHORT, SHIFTED}, 10, 4750, 5250,
  <<ER("sector_jedec", <<<<65536, 7>>, <<32768, 1>>, <<8192, 2>>, <<16384, 1>>>>),
    E("chip_block_jedec", 524288, 1)>>)
MBM29LV160BE == Memory({PARALLEL}, JEDEC, \h4, \h49, 2048, 0, {LONG, SHORT, SHIFTED}, 10, 3000, 3600,
  <<ER("block_jedec", <<<<16384, 1>>, <<8192, 2>>, <<32768, 1>>, <<65536, 31>>>>),
    E("chip_block_jedec", 2097152, 1)>>)
MBM29LV160TE == Memory({PARALLEL}, JEDEC, \h4, \hC4, 2048, 0, {LONG, SHORT, SHIFTED}, 10, 3000, 3600,
  <<ER("block_jedec", <<<<65536, 31>>, <<32768, 1>>, <<8192, 2>>, <<16384, 1>>>>),
    E("chip_block_jedec", 2097152, 1)>>)

AmdToFujitsu == <<
  Am29F002_N_BB, Am29F002_N_BT, Am29F010, Am29F010_A_B, Am29F016D, Am29F040, Am29F040B, Am29F080,
  Am29F080B, Am29LV001BB, Am29LV001BT, Am29LV002BB, Am29LV002BT, Am29LV004BB, Am29LV004BT,
  Am29LV008BB, Am29LV008BT, Am29LV040B, Am29LV081B, A25L010, A25L016, A25L020, A25L032, A25L040,
  A25L05PT, A25L05PU, A25L080, A25L10PT, A25L10PU, A25L16PT, A25L16PU, A25L20PT, A25L20PU, A25L40PT,
  A25L40PU, A25L512, A25L80P, A25LQ032_A25LQ32A, A25LQ16, A25LQ64, A29002B, A29002T, A29040B,
  A49LF040A, AT25DF021, AT25DF021A, AT25DF041A, AT25DF081, AT25DF081A, AT25DF161, AT25DF321,
  AT25DF321A, AT25DF641_A, AT25DL081, AT25DL161, AT25DQ161, AT25F1024_A, AT25F2048, AT25F4096,
  AT25F512, AT25F512A, AT25F512B, AT25FS010, AT25FS040, AT25SF041, AT25SF081, AT25SF161, AT25SF321,
  AT25SL128A, AT26DF041, AT26DF081A, AT26DF161, AT26DF161A, AT26F004, AT29C010A, AT29C020,
  AT29C040A, AT29C512, AT45CS1282, AT45DB011D, AT45DB021D, AT45DB041D, AT45DB081D, AT45DB161D,
  AT45DB321C, AT45DB321D, AT45DB321E, AT45DB642D, AT49_H_F010, AT49BV512, AT49F511, AT49F002_N,
  AT49F002_N_T, AT49F020, AT49F040, AT49F080, AT49F080T, AT49LH002, AT49LH004, AT49LH00B4,
  B_25D05AS, B_25D10AS, B_25D20AS, B_25D40AS_BY25D40ES, B_25D80AS_BY25Q80BS_BY25Q80ES,
  B_25D16AS_BY25Q16BS_BY25Q16ES, B_25Q32BS_BY25Q32CS_BY25Q32ES, B_25Q64AS_BY25Q64ES,
  B_25Q128AS_BY25Q128ES, BY25Q128FS, BM29F040, CAT28F512, CAT28F010, KB9012_EDI, ES25P16, ES25P40,
  ES25P80, F25L008A, F25L32PA, F49B002UA, EN25B05, EN25B05T, EN25B10, EN25B10T, EN25B16, EN25B16T,
  EN25B20, EN25B20T, EN25B32, EN25B32T, EN25B40, EN25B40T, EN25B64, EN25B64T, EN25B80, EN25B80T,
  EN25F05, EN25F10, EN25F16, EN25F20, EN25F32, EN25F40, EN25F64, EN25F80, EN25P05, EN25P10, EN25P16,
  EN25P20, EN25P32, EN25P40, EN25P64, EN25P80, EN25Q128, EN25Q16, EN25Q32_A_B, EN25Q40, EN25Q64,
  EN25Q80_A, EN25QH128, EN25QH16, EN25QH32, EN25QH32B, EN25QH64, EN25QH64A, EN25S10, EN25S16,
  EN25S20, EN25S32, EN25S40, EN25S64, EN25S80, EN29F002_A_N_B, EN29F002_A_N_T, EN29F010,
  EN29GL064_A_B, EN29GL064_A_T, EN29GL064_H_L, EN29GL128, EN29LV040_A, EN29LV640B, FM25F005,
  FM25F01, FM25F02_A, FM25F04_A, FM25Q02, FM25Q04, FM25Q08, FM25Q08A, FM25Q16, FM25Q32, FM25Q64,
  FM25Q128, FM25W128, MBM29F004BC, MBM29F004TC, MBM29F400BC, MBM29F400TC, MBM29LV160BE, MBM29LV160TE>>

=============================================================================
