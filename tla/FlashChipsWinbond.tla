-------------------------- MODULE FlashChipsWinbond -------------------------
\* Entries of the chip database (flashchips.c): Winbond to Zetta Device, and the generic entries
EXTENDS FlashChip

W25P16 == Spi(RDID, \hEF, \h2015, 2048, 256, 2700, 3600, <<E("d8", 65536, 32), E("c7", 2097152, 1)>>)
W25P32 == Spi(RDID, \hEF, \h2016, 4096, 256, 2700, 3600, <<E("d8", 65536, 64), E("c7", 4194304, 1)>>)
W25P80 == Spi(RDID, \hEF, \h2014, 1024, 256, 2700, 3600, <<E("d8", 65536, 16), E("c7", 1048576, 1)>>)
W25Q128_V == Spi(RDID, \hEF, \h4018, 16384, 256, 2700, 3600,
  <<E("20", 4096, 4096), E("52", 32768, 512), E("d8", 65536, 256), E("60", 16777216, 1),
    E("c7", 16777216, 1)>>)
W25Q128_V_M == Spi(RDID, \hEF, \h7018, 16384, 256, 2700, 3600,
  <<E("20", 4096, 4096), E("52", 32768, 512), E("d8", 65536, 256), E("60", 16777216, 1),
    E("c7", 16777216, 1)>>)
W25Q128_W == Spi(RDID, \hEF, \h6018, 16384, 256, 1650, 1950,
  <<E("20", 4096, 4096), E("52", 32768, 512), E("d8", 65536, 256), E("60", 16777216, 1),
    E("c7", 16777216, 1)>>)
W25Q128_JW_DTR == Spi(RDID, \hEF, \h8018, 16384, 256, 1650, 1950,
  <<E("20", 4096, 4096), E("52", 32768, 512), E("d8", 65536, 256), E("60", 16777216, 1),
    E("c7", 16777216, 1)>>)
W25Q16_V == Spi(RDID, \hEF, \h4015, 2048, 256, 2700, 3600,
  <<E("20", 4096, 512), E("52", 32768, 64), E("d8", 65536, 32), E("60", 2097152, 1), E("c7", 2097152, 1)>>)
W25Q16JV_M == Spi(RDID, \hEF, \h7015, 2048, 256, 2700, 3600,
  <<E("20", 4096, 512), E("52", 32768, 64), E("d8", 65536, 32), E("60", 2097152, 1), E("c7", 2097152, 1)>>)
W25Q16_W == Spi(RDID, \hEF, \h6015, 2048, 256, 1700, 1950,
  <<E("20", 4096, 512), E("52", 32768, 64), E("d8", 65536, 32), E("60", 2097152, 1), E("c7", 2097152, 1)>>)
W25Q20_W == Spi(RDID, \hEF, \h5012, 256, 256, 1700, 1950,
  <<E("20", 4096, 64), E("52", 32768, 8), E("d8", 65536, 4), E("60", 262144, 1), E("c7", 262144, 1)>>)
W25Q256FV == Spi(RDID, \hEF, \h4019, 32768, 256, 2700, 3600,
  <<E("20", 4096, 8192), E("52", 32768, 1024), E("d8", 65536, 512), E("60", 33554432, 1),
    E("c7", 33554432, 1)>>)
W25Q256JV_Q == Spi(RDID, \hEF, \h4019, 32768, 256, 2700, 3600,
  <<E("21", 4096, 8192), E("20", 4096, 8192), E("52", 32768, 1024), E("dc", 65536, 512),
    E("d8", 65536, 512), E("60", 33554432, 1), E("c7", 33554432, 1)>>)
W25Q256JV_M == Spi(RDID, \hEF, \h7019, 32768, 256, 2700, 3600,
  <<E("21", 4096, 8192), E("20", 4096, 8192), E("52", 32768, 1024), E("dc", 65536, 512),
    E("d8", 65536, 512), E("60", 33554432, 1), E("c7", 33554432, 1)>>)
W25Q256JW == Spi(RDID, \hEF, \h6019, 32768, 256, 1650, 1950,
  <<E("21", 4096, 8192), E("20", 4096, 8192), E("52", 32768, 1024), E("dc", 65536, 512),
    E("d8", 65536, 512), E("60", 33554432, 1), E("c7", 33554432, 1)>>)
W25Q256JW_DTR == Spi(RDID, \hEF, \h8019, 32768, 256, 1700, 1950,
  <<E("21", 4096, 8192), E("20", 4096, 8192), E("52", 32768, 1024), E("dc", 65536, 512),
    E("d8", 65536, 512), E("60", 33554432, 1), E("c7", 33554432, 1)>>)
W25Q32BV_W25Q32CV_W25Q32DV == Spi(RDID, \hEF, \h4016, 4096, 256, 2700, 3600,
  <<E("20", 4096, 1024), E("52", 32768, 128), E("d8", 65536, 64), E("60", 4194304, 1), E("c7", 4194304, 1)>>)
W25Q32FV == Spi(RDID, \hEF, \h4016, 4096, 256, 2700, 3600,
  <<E("20", 4096, 1024), E("52", 32768, 128), E("d8", 65536, 64), E("60", 4194304, 1), E("c7", 4194304, 1)>>)
W25Q32JV == Spi(RDID, \hEF, \h4016, 4096, 256, 2700, 3600,
  <<E("20", 4096, 1024), E("52", 32768, 128), E("d8", 65536, 64), E("60", 4194304, 1), E("c7", 4194304, 1)>>)
W25Q32JV_M == Spi(RDID, \hEF, \h7016, 4096, 256, 2700, 3600,
  <<E("20", 4096, 1024), E("52", 32768, 128), E("d8", 65536, 64), E("60", 4194304, 1), E("c7", 4194304, 1)>>)
W25Q32BW_W25Q32CW_W25Q32DW == Spi(RDID, \hEF, \h6016, 4096, 256, 1700, 1950,
  <<E("20", 4096, 1024), E("52", 32768, 128), E("d8", 65536, 64), E("60", 4194304, 1), E("c7", 4194304, 1)>>)
W25Q32FW == Spi(RDID, \hEF, \h6016, 4096, 256, 1700, 1950,
  <<E("20", 4096, 1024), E("52", 32768, 128), E("d8", 65536, 64), E("60", 4194304, 1), E("c7", 4194304, 1)>>)
W25Q32JW_Q == Spi(RDID, \hEF, \h6016, 4096, 256, 1700, 1950,
  <<E("20", 4096, 1024), E("52", 32768, 128), E("d8", 65536, 64), E("60", 4194304, 1), E("c7", 4194304, 1)>>)
W25Q32JW_M == Spi(RDID, \hEF, \h8016, 4096, 256, 1700, 1950,
  <<E("20", 4096, 1024), E("52", 32768, 128), E("d8", 65536, 64), E("60", 4194304, 1), E("c7", 4194304, 1)>>)
W25Q40_V == Spi(RDID, \hEF, \h4013, 512, 256, 2700, 3600,
  <<E("20", 4096, 128), E("52", 32768, 16), E("d8", 65536, 8), E("60", 524288, 1), E("c7", 524288, 1)>>)
W25Q40BW == Spi(RDID, \hEF, \h5013, 512, 256, 1700, 1950,
  <<E("20", 4096, 128), E("52", 32768, 16), E("d8", 65536, 8), E("60", 524288, 1), E("c7", 524288, 1)>>)
W25Q40EW == Spi(RDID, \hEF, \h6013, 512, 256, 1650, 1950,
  <<E("20", 4096, 128), E("52", 32768, 16), E("d8", 65536, 8), E("60", 524288, 1), E("c7", 524288, 1)>>)
W25Q512JV == Spi(RDID, \hEF, \h4020, 65536, 256, 2700, 3600,
  <<E("21", 4096, 16384), E("20", 4096, 16384), E("52", 32768, 2048), E("dc", 65536, 1024),
    E("d8", 65536, 1024), E("60", 67108864, 1), E("c7", 67108864, 1)>>)
W25R512NW_W74M51NW == Spi(RDID, \hEF, \h6020, 65536, 256, 1700, 1950,
  <<E("21", 4096, 16384), E("20", 4096, 16384), E("52", 32768, 2048), E("dc", 65536, 1024),
    E("d8", 65536, 1024), E("60", 67108864, 1), E("c7", 67108864, 1)>>)
W25Q512NW_IM == Spi(RDID, \hEF, \h8020, 65536, 256, 1650, 1950,
  <<E("21", 4096, 16384), E("20", 4096, 16384), E("52", 32768, 2048), E("dc", 65536, 1024),
    E("d8", 65536, 1024), E("60", 67108864, 1), E("c7", 67108864, 1)>>)
W25Q64BV_W25Q64CV_W25Q64FV == Spi(RDID, \hEF, \h4017, 8192, 256, 2700, 3600,
  <<E("20", 4096, 2048), E("52", 32768, 256), E("d8", 65536, 128), E("60", 8388608, 1), E("c7", 8388608, 1)>>)
W25Q64JV_Q == Spi(RDID, \hEF, \h4017, 8192, 256, 2700, 3600,
  <<E("20", 4096, 2048), E("52", 32768, 256), E("d8", 65536, 128), E("60", 8388608, 1), E("c7", 8388608, 1)>>)
W25Q64JV_M == Spi(RDID, \hEF, \h7017, 8192, 256, 2700, 3600,
  <<E("20", 4096, 2048), E("52", 32768, 256), E("d8", 65536, 128), E("60", 8388608, 1), E("c7", 8388608, 1)>>)
W25Q64DW == Spi(RDID, \hEF, \h6017, 8192, 256, 1700, 1950,
  <<E("20", 4096, 2048), E("52", 32768, 256), E("d8", 65536, 128), E("60", 8388608, 1), E("c7", 8388608, 1)>>)
W25Q64FW_W25Q64JW_Q == Spi(RDID, \hEF, \h6017, 8192, 256, 1700, 1950,
  <<E("20", 4096, 2048), E("52", 32768, 256), E("d8", 65536, 128), E("60", 8388608, 1), E("c7", 8388608, 1)>>)
W25Q64JW_M == Spi(RDID, \hEF, \h8017, 8192, 256, 1700, 1950,
  <<E("20", 4096, 2048), E("52", 32768, 256), E("d8", 65536, 128), E("60", 8388608, 1), E("c7", 8388608, 1)>>)
W25Q80_V == Spi(RDID, \hEF, \h4014, 1024, 256, 2700, 3600,
  <<E("20", 4096, 256), E("52", 32768, 32), E("d8", 65536, 16), E("60", 1048576, 1), E("c7", 1048576, 1)>>)
W25Q80BW == Spi(RDID, \hEF, \h5014, 1024, 256, 1700, 1950,
  <<E("20", 4096, 256), E("52", 32768, 32), E("d8", 65536, 16), E("60", 1048576, 1), E("c7", 1048576, 1)>>)
W25Q80EW == Spi(RDID, \hEF, \h6014, 1024, 256, 1650, 1950,
  <<E("20", 4096, 256), E("52", 32768, 32), E("d8", 65536, 16), E("60", 1048576, 1), E("c7", 1048576, 1)>>)
W25X05 == Spi(RDID, \hEF, \h3010, 64, 256, 2300, 3600,
  <<E("20", 4096, 16), E("52", 32768, 2), E("d8", 65536, 1)>>)
W25X10 == Spi(RDID, \hEF, \h3011, 128, 256, 2700, 3600,
  <<E("20", 4096, 32), E("d8", 65536, 2), E("c7", 131072, 1)>>)
W25X16 == Spi(RDID, \hEF, \h3015, 2048, 256, 2700, 3600,
  <<E("20", 4096, 512), E("d8", 65536, 32), E("c7", 2097152, 1)>>)
W25X20 == Spi(RDID, \hEF, \h3012, 256, 256, 2700, 3600,
  <<E("20", 4096, 64), E("d8", 65536, 4), E("c7", 262144, 1)>>)
W25X32 == Spi(RDID, \hEF, \h3016, 4096, 256, 2700, 3600,
  <<E("20", 4096, 1024), E("d8", 65536, 64), E("c7", 4194304, 1)>>)
W25X40 == Spi(RDID, \hEF, \h3013, 512, 256, 2700, 3600,
  <<E("20", 4096, 128), E("d8", 65536, 8), E("c7", 524288, 1)>>)
W25X64 == Spi(RDID, \hEF, \h3017, 8192, 256, 2700, 3600,
  <<E("20", 4096, 2048), E("d8", 65536, 128), E("c7", 8388608, 1)>>)
W25X80 == Spi(RDID, \hEF, \h3014, 1024, 256, 2700, 3600,
  <<E("20", 4096, 256), E("d8", 65536, 16), E("c7", 1048576, 1)>>)
W29C010_M_W29C011A_W29EE011_W29EE0 == Memory({PARALLEL}, JEDEC, \hDA, \hC1, 128, 128, {LONG}, 10, 0, 0,
  <<E("chip_block_jedec", 131072, 1)>>)
Winbond_W29C010_M_W29C011A_W29EE011_W29EE0 == Memory({PARALLEL}, W29EE011, \hDA, \hC1, 128, 128, {LONG}, FIXME, 0, 0,
  <<E("chip_block_jedec", 131072, 1)>>)
W29C020_C_W29C022 == Memory({PARALLEL}, JEDEC, \hDA, \h45, 256, 128, {LONG}, 10, 4500, 5500,
  <<E("chip_block_jedec", 262144, 1)>>)
W29C040_P == Memory({PARALLEL}, JEDEC, \hDA, \h46, 512, 256, {LONG}, 10, 4500, 5500,
  <<E("chip_block_jedec", 524288, 1)>>)
W29C512A_W29EE512 == Memory({PARALLEL}, JEDEC, \hDA, \hC8, 64, 128, {LONG}, 10, 4500, 5500,
  <<E("chip_block_jedec", 65536, 1)>>)
W29GL032CB == Memory({PARALLEL}, JEDEC_29GL, \h1, \h7E1A00, 4096, 131072, {SHORT, A2AA}, ZERO, 2700, 3600,
  <<ER("sector_jedec", <<<<8192, 8>>, <<65536, 63>>>>), E("chip_block_jedec", 4194304, 1)>>)
W29GL032C_H_L == Memory({PARALLEL}, JEDEC_29GL, \h1, \h7E1D01, 4096, 131072, {SHORT, A2AA}, ZERO, 2700, 3600,
  <<E("sector_jedec", 65536, 64), E("chip_block_jedec", 4194304, 1)>>)
W29GL032CT == Memory({PARALLEL}, JEDEC_29GL, \h1, \h7E1A01, 4096, 131072, {SHORT, A2AA}, ZERO, 2700, 3600,
  <<ER("sector_jedec", <<<<65536, 63>>, <<8192, 8>>>>), E("chip_block_jedec", 4194304, 1)>>)
W29GL064CB == Memory({PARALLEL}, JEDEC_29GL, \h1, \h7E1000, 8192, 131072, {SHORT, A2AA}, ZERO, 2700, 3600,
  <<ER("sector_jedec", <<<<8192, 8>>, <<65536, 127>>>>), E("chip_block_jedec", 8388608, 1)>>)
W29GL064C_H_L == Memory({PARALLEL}, JEDEC_29GL, \h1, \h7E0C01, 8192, 131072, {SHORT, A2AA}, ZERO, 2700, 3600,
  <<E("sector_jedec", 65536, 128), E("chip_block_jedec", 8388608, 1)>>)
W29GL064CT == Memory({PARALLEL}, JEDEC_29GL, \h1, \h7E1001, 8192, 131072, {SHORT, A2AA}, ZERO, 2700, 3600,
  <<ER("sector_jedec", <<<<65536, 127>>, <<8192, 8>>>>), E("chip_block_jedec", 8388608, 1)>>)
W29GL128C == Memory({PARALLEL}, JEDEC_29GL, \h1, \h7E2101, 16384, 131072, {SHORT, A2AA}, ZERO, 2700, 3600,
  <<E("sector_jedec", 131072, 128), E("chip_block_jedec", 16777216, 1)>>)
W39F010 == Memory({PARALLEL}, JEDEC, \hDA, \hA1, 128, 4096, {LONG, SHORT}, 10, 4500, 5500,
  <<E("block_jedec", 4096, 32), E("chip_block_jedec", 131072, 1)>>)
W39L010 == Memory({PARALLEL}, JEDEC, \hDA, \h31, 128, 4096, {LONG, SHORT}, 10, 3000, 3600,
  <<E("block_jedec", 4096, 32), E("chip_block_jedec", 131072, 1)>>)
W39L020 == Memory({PARALLEL}, JEDEC, \hDA, \hB5, 256, 4096, {LONG, SHORT}, 10, 3000, 3600,
  <<E("block_jedec", 4096, 64), E("sector_jedec", 65536, 4), E("chip_block_jedec", 262144, 1)>>)
W39L040 == Memory({PARALLEL}, JEDEC, \hDA, \hB6, 512, 65536, {LONG, SHORT}, 10, 3000, 3600,
  <<E("block_jedec", 4096, 128), E("sector_jedec", 65536, 8), E("chip_block_jedec", 524288, 1)>>)
W39V040A == Memory({LPC}, JEDEC, \hDA, \h3D, 512, 65536, {LONG, SHORT}, 10, 3000, 3600,
  <<E("sector_jedec", 65536, 8), E("chip_block_jedec", 524288, 1)>>)
W39V040B == Memory({LPC}, JEDEC, \hDA, \h54, 512, 65536, {LONG, SHORT}, 10, 3000, 3600,
  <<E("sector_jedec", 65536, 8), E("chip_block_jedec", 524288, 1)>>)
W39V040C == Memory({LPC}, JEDEC, \hDA, \h50, 512, 65536, {LONG, SHORT}, 10, 3000, 3600,
  <<E("sector_jedec", 65536, 8), E("chip_block_jedec", 524288, 1)>>)
W39V040FA == Memory({FWH}, JEDEC, \hDA, \h34, 512, 65536, {LONG, SHORT}, 10, 3000, 3600,
  <<E("block_jedec", 4096, 128), E("sector_jedec", 65536, 8), E("chip_block_jedec", 524288, 1)>>)
W39V040FB == Memory({FWH}, JEDEC, \hDA, \h54, 512, 65536, {LONG, SHORT}, 10, 3000, 3600,
  <<E("sector_jedec", 65536, 8), E("chip_block_jedec", 524288, 1)>>)
W39V040FC == Memory({FWH}, JEDEC, \hDA, \h50, 512, 65536, {LONG, SHORT}, 10, 3000, 3600,
  <<E("sector_jedec", 65536, 8), E("chip_block_jedec", 524288, 1)>>)
W39V080A == Memory({LPC}, JEDEC, \hDA, \hD0, 1024, 65536, {LONG, SHORT}, 10, 3000, 3600,
  <<E("sector_jedec", 65536, 16), E("chip_block_jedec", 1048576, 1)>>)
W39V080FA == Memory({FWH}, JEDEC, \hDA, \hD3, 1024, 65536, {LONG, SHORT}, 10, 3000, 3600,
  <<E("sector_jedec", 65536, 16), E("chip_block_jedec", 1048576, 1)>>)
W39V080FA_dual_mode == Memory({FWH}, JEDEC, \hDA, \h93, 512, 65536, {LONG, SHORT}, 10, 3000, 3600,
  <<E("sector_jedec", 65536, 8), E("chip_block_jedec", 524288, 1)>>)
W49F002_U_N == Memory({PARALLEL}, JEDEC, \hDA, \hB, 256, 128, {LONG, SHORT}, 10, 4500, 5500,
  <<ER("sector_jedec", <<<<131072, 1>>, <<98304, 1>>, <<8192, 2>>, <<16384, 1>>>>),
    E("chip_block_jedec", 262144, 1)>>)
W49F020 == Memory({PARALLEL}, JEDEC, \hDA, \h8C, 256, 128, {LONG, SHORT}, 10, 4500, 5500,
  <<E("chip_block_jedec", 262144, 1)>>)
W49V002A == Memory({LPC}, JEDEC, \hDA, \hB0, 256, 128, {LONG, SHORT}, 10, 3000, 3600,
  <<ER("sector_jedec", <<<<65536, 3>>, <<32768, 1>>, <<8192, 2>>, <<16384, 1>>>>),
    E("chip_block_jedec", 262144, 1)>>)
W49V002FA == Memory({FWH}, JEDEC, \hDA, \h32, 256, 128, {LONG, SHORT}, 10, 3000, 3600,
  <<ER("sector_jedec", <<<<65536, 3>>, <<32768, 1>>, <<8192, 2>>, <<16384, 1>>>>),
    E("chip_block_jedec", 262144, 1)>>)
XM25QH128C == Spi(RDID, \h20, \h4018, 16384, 256, 2700, 3600,
  <<E("20", 4096, 4096), E("52", 32768, 512), E("d8", 65536, 256), E("60", 16777216, 1),
    E("c7", 16777216, 1)>>)
XM25QH256C == Spi(RDID, \h20, \h4019, 32768, 256, 2700, 3600,
  <<E("21", 4096, 8192), E("20", 4096, 8192), E("52", 32768, 1024), E("dc", 65536, 512),
    E("d8", 65536, 512), E("60", 33554432, 1), E("c7", 33554432, 1)>>)
XM25QH512C == Spi(RDID, \h20, \h4020, 65536, 256, 2700, 3600,
  <<E("21", 4096, 16384), E("20", 4096, 16384), E("52", 32768, 2048), E("dc", 65536, 1024),
    E("d8", 65536, 1024), E("60", 67108864, 1), E("c7", 67108864, 1)>>)
XM25QH64C == Spi(RDID, \h20, \h4017, 8192, 256, 2700, 3600,
  <<E("20", 4096, 2048), E("52", 32768, 256), E("d8", 65536, 128), E("60", 8388608, 1), E("c7", 8388608, 1)>>)
XM25QU128C == Spi(RDID, \h20, \h4118, 16384, 256, 1650, 1950,
  <<E("20", 4096, 4096), E("52", 32768, 512), E("d8", 65536, 256), E("60", 16777216, 1),
    E("c7", 16777216, 1)>>)
XM25QU256C == Spi(RDID, \h20, \h4119, 32768, 256, 1650, 1950,
  <<E("21", 4096, 8192), E("20", 4096, 8192), E("52", 32768, 1024), E("dc", 65536, 512),
    E("d8", 65536, 512), E("60", 33554432, 1), E("c7", 33554432, 1)>>)
XM25QU512C == Spi(RDID, \h20, \h4120, 65536, 256, 1650, 1950,
  <<E("21", 4096, 16384), E("20", 4096, 16384), E("52", 32768, 2048), E("dc", 65536, 1024),
    E("d8", 65536, 1024), E("60", 67108864, 1), E("c7", 67108864, 1)>>)
XM25QU64A == Spi(RDID, \hBF, \h3817, 8192, 256, 1650, 1950,
  <<E("20", 4096, 2048), E("52", 32768, 256), E("d8", 65536, 128), E("60", 8388608, 1), E("c7", 8388608, 1)>>)
XM25QU64C == Spi(RDID, \h20, \h4117, 8192, 256, 1650, 1950,
  <<E("20", 4096, 2048), E("52", 32768, 256), E("d8", 65536, 128), E("60", 8388608, 1), E("c7", 8388608, 1)>>)
XM25RH256C == Spi(RDID, \h20, \h4319, 32768, 256, 2700, 3600,
  <<E("21", 4096, 8192), E("20", 4096, 8192), E("52", 32768, 1024), E("dc", 65536, 512),
    E("d8", 65536, 512), E("60", 33554432, 1), E("c7", 33554432, 1)>>)
XM25RH512C == Spi(RDID, \h20, \h4320, 65536, 256, 2700, 3600,
  <<E("21", 4096, 16384), E("20", 4096, 16384), E("52", 32768, 2048), E("dc", 65536, 1024),
    E("d8", 65536, 1024), E("60", 67108864, 1), E("c7", 67108864, 1)>>)
XT25F02E == Spi(RDID, \hB, \h4012, 256, 256, 2700, 3600,
  <<E("20", 4096, 64), E("d8", 65536, 4), E("60", 262144, 1), E("c7", 262144, 1)>>)
XT25F04D == Spi(RDID, \hB, \h4013, 512, 256, 2700, 3600,
  <<E("20", 4096, 128), E("52", 32768, 16), E("d8", 65536, 8), E("60", 524288, 1), E("c7", 524288, 1)>>)
XT25F08B == Spi(RDID, \hB, \h4014, 1024, 256, 2700, 3600,
  <<E("20", 4096, 256), E("52", 32768, 32), E("d8", 65536, 16), E("60", 1048576, 1), E("c7", 1048576, 1)>>)
XT25F16B == Spi(RDID, \hB, \h4015, 2048, 256, 2700, 3600,
  <<E("20", 4096, 512), E("52", 32768, 64), E("d8", 65536, 32), E("60", 2097152, 1), E("c7", 2097152, 1)>>)
XT25F32B == Spi(RDID, \hB, \h4016, 4096, 256, 2700, 3600,
  <<E("20", 4096, 1024), E("52", 32768, 128), E("d8", 65536, 64), E("60", 4194304, 1), E("c7", 4194304, 1)>>)
XT25F64B == Spi(RDID, \hB, \h4017, 8192, 256, 2700, 3600,
  <<E("20", 4096, 2048), E("52", 32768, 256), E("d8", 65536, 128), E("60", 8388608, 1), E("c7", 8388608, 1)>>)
XT25F128B == Spi(RDID, \hB, \h4018, 16384, 256, 2700, 3600,
  <<E("20", 4096, 4096), E("52", 32768, 512), E("d8", 65536, 256), E("60", 16777216, 1),
    E("c7", 16777216, 1)>>)
XT25F16F == Spi(RDID, \hB, \h4015, 2048, 256, 2700, 3600,
  <<E("20", 4096, 512), E("52", 32768, 64), E("d8", 65536, 32), E("60", 2097152, 1), E("c7", 2097152, 1)>>)
XT25F32F == Spi(RDID, \hB, \h4016, 4096, 256, 2700, 3600,
  <<E("20", 4096, 1024), E("52", 32768, 128), E("d8", 65536, 64), E("60", 4194304, 1), E("c7", 4194304, 1)>>)
XT25F64F == Spi(RDID, \hB, \h4017, 8192, 256, 2700, 3600,
  <<E("20", 4096, 2048), E("52", 32768, 256), E("d8", 65536, 128), E("60", 8388608, 1), E("c7", 8388608, 1)>>)
XT25F128F_XT25BF128F == Spi(RDID, \hB, \h4018, 16384, 256, 2700, 3600,
  <<E("20", 4096, 4096), E("52", 32768, 512), E("d8", 65536, 256), E("60", 16777216, 1),
    E("c7", 16777216, 1)>>)
ZD25D20 == Spi(RDID, \hBA, \h2012, 256, 256, 2700, 3600,
  <<E("20", 4096, 64), E("52", 32768, 8), E("d8", 65536, 4), E("60", 262144, 1), E("c7", 262144, 1)>>)
ZD25D40 == Spi(RDID, \hBA, \h2013, 512, 256, 2700, 3600,
  <<E("20", 4096, 128), E("52", 32768, 16), E("d8", 65536, 8), E("60", 524288, 1), E("c7", 524288, 1)>>)
ZD25LQ64 == Spi(RDID, \hBA, \h4317, 8192, 256, 1650, 1950,
  <<E("20", 4096, 2048), E("52", 32768, 256), E("d8", 65536, 128), E("60", 8388608, 1), E("c7", 8388608, 1)>>)
ZD25LQ128 == Spi(RDID, \hBA, \h4218, 16384, 256, 1650, 1950,
  <<E("20", 4096, 4096), E("52", 32768, 512), E("d8", 65536, 256), E("60", 16777216, 1),
    E("c7", 16777216, 1)>>)
SFDP_capable_chip == Spi(SFDP, \hFFFF, \hFFFE, 0, 0, 0, 0, <<>>)
Opaque_flash_chip == Opaque(OPAQUE, \hFFFE, \h1, 256, <<ER("opaque", <<>>)>>)
unknown_AMIC_SPI_chip == Spi(RDID, \h7F37, \hFFFF, 0, 256, 0, 0, <<>>)
unknown_Atmel_SPI_chip == Spi(RDID, \h1F, \hFFFF, 0, 256, 0, 0, <<>>)
unknown_Eon_SPI_chip == Spi(RDID, \h1C, \hFFFF, 0, 256, 0, 0, <<>>)
unknown_Macronix_SPI_chip == Spi(RDID, \hC2, \hFFFF, 0, 256, 0, 0, <<>>)
unknown_PMC_SPI_chip == Spi(RDID, \h7F9D, \hFFFF, 0, 256, 0, 0, <<>>)
unknown_SST_SPI_chip == Spi(RDID, \hBF, \hFFFF, 0, 256, 0, 0, <<>>)
unknown_ST_SPI_chip == Spi(RDID, \h20, \hFFFF, 0, 256, 0, 0, <<>>)
unknown_Sanyo_SPI_chip == Spi(RDID, \h62, \hFFFF, 0, 256, 0, 0, <<>>)
unknown_Winbond_ex_Nexcom_SPI_chip == Spi(RDID, \hEF, \hFFFF, 0, 256, 0, 0, <<>>)
unknown_SPI_chip_RDID == Spi(RDID, \hFFFF, \hFFFF, 0, 256, 0, 0, <<>>)
unknown_SPI_chip_REMS == Spi(REMS, \hFFFF, \hFFFF, 0, 256, 0, 0, <<>>)

WinbondToGeneric == <<
  W25P16, W25P32, W25P80, W25Q128_V, W25Q128_V_M, W25Q128_W, W25Q128_JW_DTR, W25Q16_V, W25Q16JV_M,
  W25Q16_W, W25Q20_W, W25Q256FV, W25Q256JV_Q, W25Q256JV_M, W25Q256JW, W25Q256JW_DTR,
  W25Q32BV_W25Q32CV_W25Q32DV, W25Q32FV, W25Q32JV, W25Q32JV_M, W25Q32BW_W25Q32CW_W25Q32DW, W25Q32FW,
  W25Q32JW_Q, W25Q32JW_M, W25Q40_V, W25Q40BW, W25Q40EW, W25Q512JV, W25R512NW_W74M51NW, W25Q512NW_IM,
  W25Q64BV_W25Q64CV_W25Q64FV, W25Q64JV_Q, W25Q64JV_M, W25Q64DW, W25Q64FW_W25Q64JW_Q, W25Q64JW_M,
  W25Q80_V, W25Q80BW, W25Q80EW, W25X05, W25X10, W25X16, W25X20, W25X32, W25X40, W25X64, W25X80,
  W29C010_M_W29C011A_W29EE011_W29EE0, Winbond_W29C010_M_W29C011A_W29EE011_W29EE0, W29C020_C_W29C022,
  W29C040_P, W29C512A_W29EE512, W29GL032CB, W29GL032C_H_L, W29GL032CT, W29GL064CB, W29GL064C_H_L,
  W29GL064CT, W29GL128C, W39F010, W39L010, W39L020, W39L040, W39V040A, W39V040B, W39V040C,
  W39V040FA, W39V040FB, W39V040FC, W39V080A, W39V080FA, W39V080FA_dual_mode, W49F002_U_N, W49F020,
  W49V002A, W49V002FA, XM25QH128C, XM25QH256C, XM25QH512C, XM25QH64C, XM25QU128C, XM25QU256C,
  XM25QU512C, XM25QU64A, XM25QU64C, XM25RH256C, XM25RH512C, XT25F02E, XT25F04D, XT25F08B, XT25F16B,
  XT25F32B, XT25F64B, XT25F128B, XT25F16F, XT25F32F, XT25F64F, XT25F128F_XT25BF128F, ZD25D20,
  ZD25D40, ZD25LQ64, ZD25LQ128, SFDP_capable_chip, Opaque_flash_chip, unknown_AMIC_SPI_chip,
  unknown_Atmel_SPI_chip, unknown_Eon_SPI_chip, unknown_Macronix_SPI_chip, unknown_PMC_SPI_chip,
  unknown_SST_SPI_chip, unknown_ST_SPI_chip, unknown_Sanyo_SPI_chip,
  unknown_Winbond_ex_Nexcom_SPI_chip, unknown_SPI_chip_RDID, unknown_SPI_chip_REMS>>

=============================================================================
