--------------------------- MODULE FlashChipsMosel --------------------------
\* Entries of the chip database (flashchips.c): MoselVitelic to TI
EXTENDS FlashChip

V29C51000B == Memory({PARALLEL}, JEDEC, \h40, \hA0, 64, 512, {LONG, SHORT}, ZERO, 4500, 5500,
  <<E("sector_jedec", 512, 128), E("chip_block_jedec", 65536, 1)>>)
V29C51000T == Memory({PARALLEL}, JEDEC, \h40, \h0, 64, 512, {LONG, SHORT}, ZERO, 4500, 5500,
  <<E("sector_jedec", 512, 128), E("chip_block_jedec", 65536, 1)>>)
V29C51400B == Memory({PARALLEL}, JEDEC, \h40, \hB3, 512, 1024, {LONG, SHORT}, ZERO, 4500, 5500,
  <<E("sector_jedec", 1024, 512), E("chip_block_jedec", 524288, 1)>>)
V29C51400T == Memory({PARALLEL}, JEDEC, \h40, \h13, 512, 1024, {LONG, SHORT}, ZERO, 4500, 5500,
  <<E("sector_jedec", 1024, 512), E("chip_block_jedec", 524288, 1)>>)
V29LC51000 == Memory({PARALLEL}, JEDEC, \h40, \h20, 64, 512, {LONG, SHORT}, ZERO, 4500, 5500,
  <<E("sector_jedec", 512, 128), E("chip_block_jedec", 65536, 1)>>)
V29LC51001 == Memory({PARALLEL}, JEDEC, \h40, \h60, 128, 512, {LONG, SHORT}, ZERO, 4500, 5500,
  <<E("sector_jedec", 512, 256), E("chip_block_jedec", 131072, 1)>>)
V29LC51002 == Memory({PARALLEL}, JEDEC, \h40, \h82, 256, 512, {LONG, SHORT}, ZERO, 4500, 5500,
  <<E("sector_jedec", 512, 512), E("chip_block_jedec", 262144, 1)>>)
N25S10 == Spi(RDID, \hD5, \h3011, 128, 256, 2700, 3600,
  <<E("20", 4096, 32), E("d7", 4096, 32), E("52", 32768, 4), E("d8", 65536, 2), E("60", 131072, 1),
    E("c7", 131072, 1)>>)
N25S16 == Spi(RDID, \hD5, \h3015, 2048, 256, 2700, 3600,
  <<E("20", 4096, 512), E("d8", 65536, 32), E("60", 2097152, 1), E("c7", 2097152, 1)>>)
N25S20 == Spi(RDID, \hD5, \h3012, 256, 256, 2700, 3600,
  <<E("20", 4096, 64), E("d7", 4096, 64), E("52", 32768, 8), E("d8", 65536, 4), E("60", 262144, 1),
    E("c7", 262144, 1)>>)
N25S40 == Spi(RDID, \hD5, \h3013, 512, 256, 2700, 3600,
  <<E("20", 4096, 128), E("d7", 4096, 128), E("52", 32768, 16), E("d8", 65536, 8), E("60", 524288, 1),
    E("c7", 524288, 1)>>)
N25S80 == Spi(RDID, \hD5, \h3014, 1024, 256, 2700, 3600,
  <<E("20", 4096, 256), E("52", 32768, 32), E("d8", 65536, 16), E("60", 1048576, 1), E("c7", 1048576, 1)>>)
Pm25LD010_C == Spi(RDID, \h7F9D, \h21, 128, 256, 2700, 3600,
  <<E("20", 4096, 32), E("d7", 4096, 32), E("d8", 32768, 4), E("60", 131072, 1), E("c7", 131072, 1)>>)
Pm25LD020_C == Spi(RDID, \h7F9D, \h22, 256, 256, 2700, 3600,
  <<E("20", 4096, 64), E("d7", 4096, 64), E("d8", 65536, 4), E("60", 262144, 1), E("c7", 262144, 1)>>)
Pm25LD040_C == Spi(RDID, \h7F9D, \h7E, 512, 256, 2700, 3600,
  <<E("20", 4096, 128), E("d7", 4096, 128), E("d8", 65536, 8), E("60", 524288, 1), E("c7", 524288, 1)>>)
Pm25LD256C == Spi(RDID, \h7F9D, \h2F, 32, 256, 2700, 3600,
  <<E("20", 4096, 8), E("d7", 4096, 8), E("d8", 32768, 1), E("60", 32768, 1), E("c7", 32768, 1)>>)
Pm25LD512_C == Spi(RDID, \h7F9D, \h20, 64, 256, 2300, 3600,
  <<E("20", 4096, 16), E("d7", 4096, 16), E("d8", 32768, 2), E("60", 65536, 1), E("c7", 65536, 1)>>)
Pm25LQ016 == Spi(RDID, \h7F9D, \h45, 2048, 256, 2300, 3600,
  <<E("20", 4096, 512), E("d7", 4096, 512), E("d8", 65536, 32), E("60", 2097152, 1), E("c7", 2097152, 1)>>)
Pm25LQ020 == Spi(RDID, \h7F9D, \h42, 256, 256, 2300, 3600,
  <<E("20", 4096, 64), E("d7", 4096, 64), E("d8", 65536, 4), E("60", 262144, 1), E("c7", 262144, 1)>>)
Pm25LQ032C == Spi(RDID, \h7F9D, \h46, 4096, 256, 2700, 3600,
  <<E("20", 4096, 1024), E("d7", 4096, 1024), E("d8", 65536, 64), E("60", 4194304, 1), E("c7", 4194304, 1)>>)
Pm25LQ040 == Spi(RDID, \h7F9D, \h43, 512, 256, 2300, 3600,
  <<E("20", 4096, 128), E("d7", 4096, 128), E("d8", 65536, 8), E("60", 524288, 1), E("c7", 524288, 1)>>)
Pm25LQ080 == Spi(RDID, \h7F9D, \h44, 1024, 256, 2300, 3600,
  <<E("20", 4096, 256), E("d7", 4096, 256), E("d8", 65536, 16), E("60", 1048576, 1), E("c7", 1048576, 1)>>)
Pm25LV010 == Spi(RES2, \h9D, \h7C, 128, 256, 2700, 3600,
  <<E("d7", 4096, 32), E("d8", 32768, 4), E("c7", 131072, 1)>>)
Pm25LV010A == Spi(RDID, \h7F9D, \h7C, 128, 256, 2700, 3600,
  <<E("d7", 4096, 32), E("d8", 32768, 4), E("c7", 131072, 1)>>)
Pm25LV016B == Spi(RDID, \h7F9D, \h14, 2048, 256, 2700, 3600,
  <<E("d7", 4096, 512), E("20", 4096, 512), E("d8", 65536, 32), E("60", 2097152, 1), E("c7", 2097152, 1)>>)
Pm25LV020 == Spi(RDID, \h7F9D, \h7D, 256, 256, 2700, 3600,
  <<E("d7", 4096, 64), E("d8", 65536, 4), E("c7", 262144, 1)>>)
Pm25LV040 == Spi(RDID, \h7F9D, \h7E, 512, 256, 2700, 3600,
  <<E("d7", 4096, 128), E("d8", 65536, 8), E("c7", 524288, 1)>>)
Pm25LV080B == Spi(RDID, \h7F9D, \h13, 1024, 256, 2700, 3600,
  <<E("d7", 4096, 256), E("20", 4096, 256), E("d8", 65536, 16), E("60", 1048576, 1), E("c7", 1048576, 1)>>)
Pm25LV512_A == Spi(RES2, \h9D, \h7B, 64, 256, 2700, 3600,
  <<E("d7", 4096, 16), E("d8", 32768, 2), E("c7", 65536, 1)>>)
Pm29F002B == Memory({PARALLEL}, JEDEC, \h9D, \h2D, 256, 8192, {LONG, SHORT, A2AA}, FIXME, 4500, 5500,
  <<ER("sector_jedec", <<<<16384, 1>>, <<8192, 2>>, <<98304, 1>>, <<131072, 1>>>>),
    E("chip_block_jedec", 262144, 1)>>)
Pm29F002T == Memory({PARALLEL}, JEDEC, \h9D, \h1D, 256, 8192, {LONG, SHORT, A2AA}, FIXME, 4500, 5500,
  <<ER("sector_jedec", <<<<131072, 1>>, <<98304, 1>>, <<8192, 2>>, <<16384, 1>>>>),
    E("chip_block_jedec", 262144, 1)>>)
Pm39LV010 == Memory({PARALLEL}, JEDEC, \h9D, \h1C, 128, 4096, {LONG, SHORT, A2AA}, ZERO, 2700, 3600,
  <<E("sector_jedec", 4096, 32), E("block_jedec", 65536, 2), E("chip_block_jedec", 131072, 1)>>)
Pm39LV020 == Memory({PARALLEL}, JEDEC, \h9D, \h3D, 256, 4096, {LONG, SHORT, A2AA}, ZERO, 2700, 3600,
  <<E("sector_jedec", 4096, 64), E("block_jedec", 65536, 4), E("chip_block_jedec", 262144, 1)>>)
Pm39LV040 == Memory({PARALLEL}, JEDEC, \h9D, \h3E, 512, 4096, {LONG, SHORT, A2AA}, ZERO, 2700, 3600,
  <<E("sector_jedec", 4096, 128), E("block_jedec", 65536, 8), E("chip_block_jedec", 524288, 1)>>)
Pm39LV512 == Memory({PARALLEL}, JEDEC, \h9D, \h1B, 64, 4096, {LONG, SHORT, A2AA}, ZERO, 2700, 3600,
  <<E("sector_jedec", 4096, 16), E("block_jedec", 65536, 1), E("chip_block_jedec", 65536, 1)>>)
Pm49FL002 == Memory({LPC, FWH}, JEDEC, \h9D, \h6D, 256, 16384, {LONG, SHORT}, ZERO, 3000, 3600,
  <<E("sector_jedec", 4096, 64), E("block_jedec", 16384, 16), E("chip_block_jedec", 262144, 1)>>)
Pm49FL004 == Memory({LPC, FWH}, JEDEC, \h9D, \h6E, 512, 65536, {LONG, SHORT}, ZERO, 3000, 3600,
  <<E("sector_jedec", 4096, 128), E("block_jedec", 65536, 8), E("chip_block_jedec", 524288, 1)>>)
P25Q05H == Spi(RDID, \h85, \h6010, 64, 256, 2300, 3600,
  <<E("81", 256, 256), E("20", 4096, 16), E("52", 32768, 2), E("d8", 65536, 1), E("60", 65536, 1),
    E("c7", 65536, 1)>>)
P25Q06H == Spi(RDID, \h85, \h4010, 64, 256, 2300, 3600,
  <<E("81", 256, 256), E("20", 4096, 16), E("52", 32768, 2), E("d8", 65536, 1), E("60", 65536, 1),
    E("c7", 65536, 1)>>)
P25Q10H == Spi(RDID, \h85, \h6011, 128, 256, 2300, 3600,
  <<E("81", 256, 512), E("20", 4096, 32), E("52", 32768, 4), E("d8", 65536, 2), E("60", 131072, 1),
    E("c7", 131072, 1)>>)
P25Q11H == Spi(RDID, \h85, \h4011, 128, 256, 2300, 3600,
  <<E("81", 256, 512), E("20", 4096, 32), E("52", 32768, 4), E("d8", 65536, 2), E("60", 131072, 1),
    E("c7", 131072, 1)>>)
P25Q20H == Spi(RDID, \h85, \h6012, 256, 256, 2300, 3600,
  <<E("81", 256, 1024), E("20", 4096, 64), E("52", 32768, 8), E("d8", 65536, 4), E("60", 262144, 1),
    E("c7", 262144, 1)>>)
P25Q21H == Spi(RDID, \h85, \h4012, 256, 256, 2300, 3600,
  <<E("81", 256, 1024), E("20", 4096, 64), E("52", 32768, 8), E("d8", 65536, 4), E("60", 262144, 1),
    E("c7", 262144, 1)>>)
P25Q40H == Spi(RDID, \h85, \h6013, 512, 256, 2300, 3600,
  <<E("81", 256, 2048), E("20", 4096, 128), E("52", 32768, 16), E("d8", 65536, 8), E("60", 524288, 1),
    E("c7", 524288, 1)>>)
P25Q40SH == Spi(RDID, \h85, \h6013, 512, 256, 2300, 3600,
  <<E("81", 256, 2048), E("20", 4096, 128), E("52", 32768, 16), E("d8", 65536, 8), E("60", 524288, 1),
    E("c7", 524288, 1)>>)
P25Q80H == Spi(RDID, \h85, \h6014, 1024, 256, 2300, 3600,
  <<E("81", 256, 4096), E("20", 4096, 256), E("52", 32768, 32), E("d8", 65536, 16), E("60", 1048576, 1),
    E("c7", 1048576, 1)>>)
P25Q80SH == Spi(RDID, \h85, \h6014, 1024, 256, 2300, 3600,
  <<E("81", 256, 4096), E("20", 4096, 256), E("52", 32768, 32), E("d8", 65536, 16), E("60", 1048576, 1),
    E("c7", 1048576, 1)>>)
P25Q16H == Spi(RDID, \h85, \h6015, 2048, 256, 2300, 3600,
  <<E("81", 256, 8192), E("20", 4096, 512), E("52", 32768, 64), E("d8", 65536, 32), E("60", 2097152, 1),
    E("c7", 2097152, 1)>>)
P25Q16SH == Spi(RDID, \h85, \h6015, 2048, 256, 2300, 3600,
  <<E("81", 256, 8192), E("20", 4096, 512), E("52", 32768, 64), E("d8", 65536, 32), E("60", 2097152, 1),
    E("c7", 2097152, 1)>>)
P25Q32H == Spi(RDID, \h85, \h6016, 4096, 256, 2300, 3600,
  <<E("81", 256, 16384), E("20", 4096, 1024), E("52", 32768, 128), E("d8", 65536, 64), E("60", 4194304, 1),
    E("c7", 4194304, 1)>>)
P25Q32SH == Spi(RDID, \h85, \h6016, 4096, 256, 2300, 3600,
  <<E("81", 256, 16384), E("20", 4096, 1024), E("52", 32768, 128), E("d8", 65536, 64), E("60", 4194304, 1),
    E("c7", 4194304, 1)>>)
P25Q64H == Spi(RDID, \h85, \h6017, 8192, 256, 2300, 3600,
  <<E("81", 256, 32768), E("20", 4096, 2048), E("52", 32768, 256), E("d8", 65536, 128),
    E("60", 8388608, 1), E("c7", 8388608, 1)>>)
P25Q64SH == Spi(RDID, \h85, \h6017, 8192, 256, 2300, 3600,
  <<E("81", 256, 32768), E("20", 4096, 2048), E("52", 32768, 256), E("d8", 65536, 128),
    E("60", 8388608, 1), E("c7", 8388608, 1)>>)
P25Q128H == Spi(RDID, \h85, \h6018, 16384, 256, 2300, 3600,
  <<E("81", 256, 65536), E("20", 4096, 4096), E("52", 32768, 512), E("d8", 65536, 256),
    E("60", 16777216, 1), E("c7", 16777216, 1)>>)
PY25Q40HB == Spi(RDID, \h85, \h2013, 512, 256, 2300, 3600,
  <<E("20", 4096, 128), E("52", 32768, 16), E("d8", 65536, 8), E("60", 524288, 1), E("c7", 524288, 1)>>)
PY25Q80HB == Spi(RDID, \h85, \h2014, 1024, 256, 2300, 3600,
  <<E("20", 4096, 256), E("52", 32768, 32), E("d8", 65536, 16), E("60", 1048576, 1), E("c7", 1048576, 1)>>)
PY25Q16HB == Spi(RDID, \h85, \h2015, 2048, 256, 2300, 3600,
  <<E("20", 4096, 512), E("52", 32768, 64), E("d8", 65536, 32), E("60", 2097152, 1), E("c7", 2097152, 1)>>)
PY25Q32HB == Spi(RDID, \h85, \h2016, 4096, 256, 2300, 3600,
  <<E("20", 4096, 1024), E("52", 32768, 128), E("d8", 65536, 64), E("60", 4194304, 1), E("c7", 4194304, 1)>>)
PY25Q64HA == Spi(RDID, \h85, \h2017, 8192, 256, 2700, 3600,
  <<E("20", 4096, 2048), E("52", 32768, 256), E("d8", 65536, 128), E("60", 8388608, 1), E("c7", 8388608, 1)>>)
PY25F64HA == Spi(RDID, \h85, \h2317, 8192, 256, 2700, 3600,
  <<E("20", 4096, 2048), E("52", 32768, 256), E("d8", 65536, 128), E("60", 8388608, 1), E("c7", 8388608, 1)>>)
PY25Q128HA == Spi(RDID, \h85, \h2018, 16384, 256, 2700, 3600,
  <<E("20", 4096, 4096), E("52", 32768, 512), E("d8", 65536, 256), E("60", 16777216, 1),
    E("c7", 16777216, 1)>>)
PY25F128HA_PY25R128HA == Spi(RDID, \h85, \h2318, 16384, 256, 2700, 3600,
  <<E("20", 4096, 4096), E("52", 32768, 512), E("d8", 65536, 256), E("60", 16777216, 1),
    E("c7", 16777216, 1)>>)
PY25Q256HB == Spi(RDID, \h85, \h2019, 32768, 256, 2700, 3600,
  <<E("21", 4096, 8192), E("20", 4096, 8192), E("5c", 32768, 1024), E("52", 32768, 1024),
    E("dc", 65536, 512), E("d8", 65536, 512), E("60", 33554432, 1), E("c7", 33554432, 1)>>)
PY25F256HB == Spi(RDID, \h85, \h2319, 32768, 256, 2700, 3600,
  <<E("21", 4096, 8192), E("20", 4096, 8192), E("5c", 32768, 1024), E("52", 32768, 1024),
    E("dc", 65536, 512), E("d8", 65536, 512), E("60", 33554432, 1), E("c7", 33554432, 1)>>)
PY25Q512HB == Spi(RDID, \h85, \h201A, 65536, 256, 2700, 3600,
  <<E("21", 4096, 16384), E("20", 4096, 16384), E("5c", 32768, 2048), E("52", 32768, 2048),
    E("dc", 65536, 1024), E("d8", 65536, 1024), E("60", 67108864, 1), E("c7", 67108864, 1)>>)
PY25F512HB == Spi(RDID, \h85, \h231A, 65536, 256, 2700, 3600,
  <<E("21", 4096, 16384), E("20", 4096, 16384), E("5c", 32768, 2048), E("52", 32768, 2048),
    E("dc", 65536, 1024), E("d8", 65536, 1024), E("60", 67108864, 1), E("c7", 67108864, 1)>>)
PY25Q01GHB == Spi(RDID, \h85, \h201B, 131072, 256, 2700, 3600,
  <<E("21", 4096, 32768), E("20", 4096, 32768), E("5c", 32768, 4096), E("52", 32768, 4096),
    E("dc", 65536, 2048), E("d8", 65536, 2048), E("60", 134217728, 1), E("c7", 134217728, 1)>>)
SST25LF020A == Spi(REMS, \hBF, \h43, 256, 256, 2700, 3600,
  <<E("20", 4096, 64), E("52", 32768, 8), E("60", 262144, 1)>>)
SST25LF040A == Spi(RES2, \hBF, \h44, 512, 256, 3000, 3600,
  <<E("20", 4096, 128), E("52", 32768, 16), E("60", 524288, 1)>>)
SST25LF080_A == Spi(RES2, \hBF, \h80, 1024, 256, 3000, 3600,
  <<E("20", 4096, 256), E("52", 32768, 32), E("60", 1048576, 1)>>)
SST25VF010_A == Spi(REMS, \hBF, \h49, 128, 256, 2700, 3600,
  <<E("20", 4096, 32), E("52", 32768, 4), E("d8", 32768, 4), E("60", 131072, 1), E("c7", 131072, 1)>>)
SST25VF016B == Spi(RDID, \hBF, \h2541, 2048, 256, 2700, 3600,
  <<E("20", 4096, 512), E("52", 32768, 64), E("d8", 65536, 32), E("60", 2097152, 1), E("c7", 2097152, 1)>>)
SST25VF020 == Spi(REMS, \hBF, \h43, 256, 256, 2700, 3600,
  <<E("20", 4096, 64), E("52", 32768, 8), E("60", 262144, 1)>>)
SST25VF020B == Spi(RDID, \hBF, \h258C, 256, 256, 2700, 3600,
  <<E("20", 4096, 64), E("52", 32768, 8), E("d8", 65536, 4), E("60", 262144, 1), E("c7", 262144, 1)>>)
SST25VF032B == Spi(RDID, \hBF, \h254A, 4096, 256, 2700, 3600,
  <<E("20", 4096, 1024), E("52", 32768, 128), E("d8", 65536, 64), E("60", 4194304, 1), E("c7", 4194304, 1)>>)
SST25VF040 == Spi(REMS, \hBF, \h44, 512, 256, 2700, 3600,
  <<E("20", 4096, 128), E("52", 32768, 16), E("60", 524288, 1)>>)
SST25VF040B == Spi(RDID, \hBF, \h258D, 512, 256, 2700, 3600,
  <<E("20", 4096, 128), E("52", 32768, 16), E("d8", 65536, 8), E("60", 524288, 1), E("c7", 524288, 1)>>)
SST25VF040B_REMS == Spi(REMS, \hBF, \h8D, 512, 256, 2700, 3600,
  <<E("20", 4096, 128), E("52", 32768, 16), E("d8", 65536, 8), E("60", 524288, 1), E("c7", 524288, 1)>>)
SST25VF064C == Spi(RDID, \hBF, \h254B, 8192, 256, 2700, 3600,
  <<E("20", 4096, 2048), E("52", 32768, 256), E("d8", 65536, 128), E("60", 8388608, 1), E("c7", 8388608, 1)>>)
SST25VF080B == Spi(RDID, \hBF, \h258E, 1024, 256, 2700, 3600,
  <<E("20", 4096, 256), E("52", 32768, 32), E("d8", 65536, 16), E("60", 1048576, 1), E("c7", 1048576, 1)>>)
SST25VF512_A == Spi(REMS, \hBF, \h48, 64, 256, 2700, 3600,
  <<E("20", 4096, 16), E("52", 32768, 2), E("d8", 32768, 2), E("60", 65536, 1), E("c7", 65536, 1)>>)
SST25WF010 == Spi(RDID, \hBF, \h2502, 128, 256, 1650, 1950,
  <<E("20", 4096, 32), E("52", 32768, 4), E("60", 131072, 1), E("c7", 131072, 1)>>)
SST25WF020 == Spi(RDID, \hBF, \h2503, 256, 256, 1650, 1950,
  <<E("20", 4096, 64), E("52", 32768, 8), E("d8", 65536, 4), E("60", 262144, 1), E("c7", 262144, 1)>>)
SST25WF020A == Spi(RDID, \h62, \h1612, 256, 256, 1650, 1950,
  <<E("20", 4096, 64), E("d8", 65536, 4), E("60", 262144, 1), E("c7", 262144, 1)>>)
SST25WF040 == Spi(RDID, \hBF, \h2504, 512, 256, 1650, 1950,
  <<E("20", 4096, 128), E("52", 32768, 16), E("d8", 65536, 8), E("60", 524288, 1), E("c7", 524288, 1)>>)
SST25WF040B == Spi(RDID, \h62, \h1613, 512, 256, 1650, 1950,
  <<E("20", 4096, 128), E("d8", 65536, 8), E("60", 524288, 1), E("c7", 524288, 1)>>)
SST25WF080 == Spi(RDID, \hBF, \h2505, 1024, 256, 1650, 1950,
  <<E("20", 4096, 256), E("52", 32768, 32), E("d8", 65536, 16), E("60", 1048576, 1), E("c7", 1048576, 1)>>)
SST25WF080B == Spi(RDID, \h62, \h1614, 1024, 256, 1650, 1950,
  <<E("20", 4096, 256), E("d8", 65536, 16), E("60", 1048576, 1), E("c7", 1048576, 1)>>)
SST25WF512 == Spi(RDID, \hBF, \h2501, 64, 256, 1650, 1950,
  <<E("20", 4096, 16), E("52", 32768, 2), E("60", 65536, 1), E("c7", 65536, 1)>>)
SST26VF016 == Spi(RDID, \hBF, \h2601, 2048, 256, 2700, 3600,
  <<E("20", 4096, 512), ER("d8", <<<<8192, 4>>, <<32768, 1>>, <<65536, 30>>, <<32768, 1>>, <<8192, 4>>>>),
    E("c7", 2097152, 1)>>)
SST26VF016B_A == Spi(RDID, \hBF, \h2641, 2048, 256, 2700, 3600,
  <<E("20", 4096, 512), ER("d8", <<<<8192, 4>>, <<32768, 1>>, <<65536, 30>>, <<32768, 1>>, <<8192, 4>>>>),
    E("c7", 2097152, 1)>>)
SST26VF032 == Spi(RDID, \hBF, \h2602, 4096, 256, 2700, 3600,
  <<E("20", 4096, 1024), ER("d8", <<<<8192, 4>>, <<32768, 1>>, <<65536, 62>>, <<32768, 1>>, <<8192, 4>>>>),
    E("c7", 4194304, 1)>>)
SST26VF032B_A == Spi(RDID, \hBF, \h2642, 4096, 256, 2700, 3600,
  <<E("20", 4096, 1024), ER("d8", <<<<8192, 4>>, <<32768, 1>>, <<65536, 62>>, <<32768, 1>>, <<8192, 4>>>>),
    E("c7", 4194304, 1)>>)
SST26VF064B_A == Spi(RDID, \hBF, \h2643, 8192, 256, 2700, 3600,
  <<E("20", 4096, 2048),
    ER("d8", <<<<8192, 4>>, <<32768, 1>>, <<65536, 126>>, <<32768, 1>>, <<8192, 4>>>>), E("c7", 8388608, 1)>>)
SST26VF080A == Spi(RDID, \hBF, \h2618, 1024, 256, 2700, 3600,
  <<E("20", 4096, 256), E("52", 32768, 32), E("d8", 65536, 16), E("60", 1048576, 1), E("c7", 1048576, 1)>>)
SST28SF040A == Memory({PARALLEL}, I82802AB, \hBF, \h4, 512, 256, {}, FIXME, 4500, 5500,
  <<E("sector_28sf040", 128, 4096), E("chip_28sf040", 524288, 1)>>)
SST29EE010 == Memory({PARALLEL}, JEDEC, \hBF, \h7, 128, 128, {LONG}, 10, 4500, 5500,
  <<E("chip_block_jedec", 131072, 1)>>)
SST29EE020A == Memory({PARALLEL}, JEDEC, \hBF, \h10, 256, 128, {LONG}, 10, 4500, 5500,
  <<E("chip_block_jedec", 262144, 1)>>)
SST29LE010 == Memory({PARALLEL}, JEDEC, \hBF, \h8, 128, 128, {LONG}, 10, 3000, 3600,
  <<E("chip_block_jedec", 131072, 1)>>)
SST29LE020 == Memory({PARALLEL}, JEDEC, \hBF, \h12, 256, 128, {LONG}, 10, 3000, 3600,
  <<E("chip_block_jedec", 262144, 1)>>)
SST39SF010A == Memory({PARALLEL}, JEDEC, \hBF, \hB5, 128, 4096, {LONG, SHORT}, 1, 4500, 5500,
  <<E("sector_jedec", 4096, 32), E("chip_block_jedec", 131072, 1)>>)
SST39SF020A == Memory({PARALLEL}, JEDEC, \hBF, \hB6, 256, 4096, {LONG, SHORT}, 1, 4500, 5500,
  <<E("sector_jedec", 4096, 64), E("chip_block_jedec", 262144, 1)>>)
SST39SF040 == Memory({PARALLEL}, JEDEC, \hBF, \hB7, 512, 4096, {LONG, SHORT}, 1, 4500, 5500,
  <<E("sector_jedec", 4096, 128), E("chip_block_jedec", 524288, 1)>>)
SST39SF512 == Memory({PARALLEL}, JEDEC, \hBF, \hB4, 64, 4096, {LONG, SHORT}, 1, 4500, 5500,
  <<E("sector_jedec", 4096, 16), E("chip_block_jedec", 65536, 1)>>)
SST39VF010 == Memory({PARALLEL}, JEDEC, \hBF, \hD5, 128, 4096, {LONG, SHORT}, 1, 2700, 3600,
  <<E("sector_jedec", 4096, 32), E("chip_block_jedec", 131072, 1)>>)
SST39VF020 == Memory({PARALLEL}, JEDEC, \hBF, \hD6, 256, 4096, {LONG, SHORT}, 1, 2700, 3600,
  <<E("sector_jedec", 4096, 64), E("chip_block_jedec", 262144, 1)>>)
SST39VF040 == Memory({PARALLEL}, JEDEC, \hBF, \hD7, 512, 4096, {LONG, SHORT}, 1, 2700, 3600,
  <<E("sector_jedec", 4096, 128), E("chip_block_jedec", 524288, 1)>>)
SST39VF080 == Memory({PARALLEL}, JEDEC, \hBF, \hD8, 1024, 4096, {LONG, SHORT}, 1, 2700, 3600,
  <<E("sector_jedec", 4096, 256), E("block_jedec", 65536, 16), E("chip_block_jedec", 1048576, 1)>>)
SST39VF512 == Memory({PARALLEL}, JEDEC, \hBF, \hD4, 64, 4096, {LONG, SHORT}, 1, 2700, 3600,
  <<E("sector_jedec", 4096, 16), E("chip_block_jedec", 65536, 1)>>)
SST49LF002_A_B == Memory({FWH}, JEDEC, \hBF, \h57, 256, 16384, {LONG, SHORT}, 1, 3000, 3600,
  <<E("sector_jedec", 4096, 64), E("block_jedec", 16384, 16), E("none", 262144, 1)>>)
SST49LF003_A_B == Memory({FWH}, JEDEC, \hBF, \h1B, 384, 65536, {LONG, SHORT}, 1, 3000, 3600,
  <<E("sector_jedec", 4096, 96), E("block_jedec", 65536, 6), E("none", 393216, 1)>>)
SST49LF004_A_B == Memory({FWH}, JEDEC, \hBF, \h60, 512, 65536, {LONG, SHORT}, 1, 3000, 3600,
  <<E("sector_jedec", 4096, 128), E("block_jedec", 65536, 8), E("none", 524288, 1)>>)
SST49LF004C == Memory({FWH}, I82802AB, \hBF, \h54, 512, 4096, {}, FIXME, 3000, 3600,
  <<E("sector_49lfxxxc", 4096, 128),
    ER("block_82802ab", <<<<65536, 7>>, <<32768, 1>>, <<8192, 2>>, <<16384, 1>>>>)>>)
SST49LF008A == Memory({FWH}, JEDEC, \hBF, \h5A, 1024, 65536, {LONG, SHORT}, 1, 3000, 3600,
  <<E("sector_jedec", 4096, 256), E("block_jedec", 65536, 16), E("none", 1048576, 1)>>)
SST49LF008C == Memory({FWH}, I82802AB, \hBF, \h59, 1024, 4096, {}, FIXME, 3000, 3600,
  <<E("sector_49lfxxxc", 4096, 256),
    ER("block_82802ab", <<<<65536, 15>>, <<32768, 1>>, <<8192, 2>>, <<16384, 1>>>>)>>)
SST49LF016C == Memory({FWH}, I82802AB, \hBF, \h5C, 2048, 4096, {}, FIXME, 3000, 3600,
  <<E("sector_49lfxxxc", 4096, 512),
    ER("block_82802ab", <<<<65536, 31>>, <<32768, 1>>, <<8192, 2>>, <<16384, 1>>>>)>>)
SST49LF020 == Memory({LPC}, JEDEC, \hBF, \h61, 256, 16384, {LONG, SHORT}, 1, 3000, 3600,
  <<E("sector_jedec", 4096, 64), E("block_jedec", 16384, 16), E("none", 262144, 1)>>)
SST49LF020A == Memory({LPC}, JEDEC, \hBF, \h52, 256, 4096, {LONG, SHORT}, 1, 3000, 3600,
  <<E("sector_jedec", 4096, 64), E("block_jedec", 16384, 16), E("none", 262144, 1)>>)
SST49LF040 == Memory({LPC}, JEDEC, \hBF, \h51, 512, 4096, {LONG, SHORT}, 1, 3000, 3600,
  <<E("sector_jedec", 4096, 128), E("block_jedec", 65536, 8), E("none", 524288, 1)>>)
SST49LF040B == Memory({LPC}, JEDEC, \hBF, \h50, 512, 65536, {LONG, SHORT}, 1, 3000, 3600,
  <<E("sector_jedec", 4096, 128), E("block_jedec", 65536, 8), E("none", 524288, 1)>>)
SST49LF080A == Memory({LPC}, JEDEC, \hBF, \h5B, 1024, 4096, {LONG, SHORT}, 1, 3000, 3600,
  <<E("sector_jedec", 4096, 256), E("block_jedec", 65536, 16), E("none", 1048576, 1)>>)
SST49LF160C == Memory({LPC}, I82802AB, \hBF, \h4C, 2048, 4096, {}, FIXME, 3000, 3600,
  <<E("sector_49lfxxxc", 4096, 512),
    ER("block_82802ab", <<<<65536, 31>>, <<32768, 1>>, <<8192, 2>>, <<16384, 1>>>>)>>)
M28F256 == Memory({PARALLEL}, I82802AB, \h20, \hA8, 32, 0, {}, 0, 4750, 5250, <<E("m28f", 32768, 1)>>)
M29F002B == Memory({PARALLEL}, JEDEC, \h20, \h34, 256, 65536, {LONG, SHORT}, ZERO, 4750, 5250,
  <<ER("sector_jedec", <<<<16384, 1>>, <<8192, 2>>, <<32768, 1>>, <<65536, 3>>>>),
    E("chip_block_jedec", 262144, 1)>>)
M29F002_N_T == Memory({PARALLEL}, JEDEC, \h20, \hB0, 256, 65536, {LONG, SHORT}, ZERO, 4750, 5250,
  <<ER("sector_jedec", <<<<65536, 3>>, <<32768, 1>>, <<8192, 2>>, <<16384, 1>>>>),
    E("chip_block_jedec", 262144, 1)>>)
M29F040B == Memory({PARALLEL}, JEDEC, \h20, \hE2, 512, 65536, {LONG, SHORT, A2AA}, ZERO, 4500, 5500,
  <<E("sector_jedec", 65536, 8), E("chip_block_jedec", 524288, 1)>>)
M29F400BB == Memory({PARALLEL}, JEDEC, \h20, \hD6, 512, 65536, {LONG, SHORT, SHIFTED}, 10, 4500, 5500,
  <<ER("sector_jedec", <<<<16384, 1>>, <<8192, 2>>, <<32768, 1>>, <<65536, 7>>>>),
    E("chip_block_jedec", 524288, 1)>>)
M29F400BT == Memory({PARALLEL}, JEDEC, \h20, \hD5, 512, 65536, {LONG, SHORT, SHIFTED}, 10, 4500, 5500,
  <<ER("sector_jedec", <<<<65536, 7>>, <<32768, 1>>, <<8192, 2>>, <<16384, 1>>>>),
    E("chip_block_jedec", 524288, 1)>>)
M29W010B == Memory({PARALLEL}, JEDEC, \h20, \h23, 128, 16384, {LONG, SHORT, A2AA}, ZERO, 2700, 3600,
  <<E("sector_jedec", 16384, 8), E("chip_block_jedec", 131072, 1)>>)
M29W040B == Memory({PARALLEL}, JEDEC, \h20, \hE3, 512, 65536, {LONG, SHORT, A2AA}, ZERO, 2700, 3600,
  <<E("sector_jedec", 65536, 8), E("chip_block_jedec", 524288, 1)>>)
M29W512B == Memory({PARALLEL}, JEDEC, \h20, \h27, 64, 65536, {LONG, SHORT, A2AA}, ZERO, 2700, 3600,
  <<E("chip_block_jedec", 65536, 1)>>)
M50FLW040A == Memory({LPC, FWH}, I82802AB, \h20, \h8, 512, 0, {}, FIXME, 3000, 3600,
  <<ER("sector_stm50", <<<<4096, 16>>, <<65536, 5>>, <<4096, 16>>, <<4096, 16>>>>),
    E("block_82802ab", 65536, 8)>>)
M50FLW040B == Memory({LPC, FWH}, I82802AB, \h20, \h28, 512, 0, {}, FIXME, 3000, 3600,
  <<ER("sector_stm50", <<<<4096, 16>>, <<4096, 16>>, <<65536, 5>>, <<4096, 16>>>>),
    E("block_82802ab", 65536, 8)>>)
M50FLW080A == Memory({LPC, FWH}, I82802AB, \h20, \h80, 1024, 0, {}, FIXME, 3000, 3600,
  <<ER("sector_stm50", <<<<4096, 16>>, <<65536, 13>>, <<4096, 16>>, <<4096, 16>>>>),
    E("block_82802ab", 65536, 16)>>)
M50FLW080B == Memory({LPC, FWH}, I82802AB, \h20, \h81, 1024, 0, {}, FIXME, 3000, 3600,
  <<ER("sector_stm50", <<<<4096, 16>>, <<4096, 16>>, <<65536, 13>>, <<4096, 16>>>>),
    E("block_82802ab", 65536, 16)>>)
M50FW002 == Memory({FWH}, I82802AB, \h20, \h29, 256, 0, {}, FIXME, 3000, 3600,
  <<ER("block_82802ab", <<<<65536, 3>>, <<32768, 1>>, <<8192, 2>>, <<16384, 1>>>>), E("none", 262144, 1)>>)
M50FW016 == Memory({FWH}, I82802AB, \h20, \h2E, 2048, 0, {}, FIXME, 3000, 3600,
  <<E("block_82802ab", 65536, 32)>>)
M50FW040 == Memory({FWH}, I82802AB, \h20, \h2C, 512, 0, {}, FIXME, 3000, 3600,
  <<E("block_82802ab", 65536, 8)>>)
M50FW080 == Memory({FWH}, I82802AB, \h20, \h2D, 1024, 0, {}, FIXME, 3000, 3600,
  <<E("block_82802ab", 65536, 16)>>)
M50LPW080 == Memory({LPC}, I82802AB, \h20, \h2F, 1024, 0, {}, ZERO, 3000, 3600,
  <<E("block_82802ab", 65536, 16)>>)
M50LPW116 == Memory({LPC}, I82802AB, \h20, \h30, 2048, 0, {}, ZERO, 3000, 3600,
  <<ER("block_82802ab", <<<<4096, 16>>, <<65536, 30>>, <<32768, 1>>, <<8192, 2>>, <<16384, 1>>>>)>>)
M95M02 == Spi(ST95, \h20, \h12, 256, 256, 2500, 5500, <<E("emulation", 262144, 1)>>)
LE25FU106B == Spi(RES2, \h62, \h1D, 128, 256, 2300, 3600, <<E("d8", 32768, 4), E("c7", 131072, 1)>>)
LE25FU206 == Spi(RES2, \h62, \h44, 256, 256, 2300, 3600,
  <<E("d7", 4096, 64), E("d8", 65536, 4), E("c7", 262144, 1)>>)
LE25FU206A == Spi(RDID, \h62, \h612, 256, 256, 2300, 3600,
  <<E("20", 4096, 64), E("d7", 4096, 64), E("d8", 65536, 4), E("60", 262144, 1), E("c7", 262144, 1)>>)
LE25FU406B == Spi(RES2, \h62, \h1E, 512, 256, 2300, 3600,
  <<E("d7", 4096, 128), E("d8", 65536, 8), E("c7", 524288, 1)>>)
LE25FU406C_LE25U40CMC == Spi(RDID, \h62, \h613, 512, 256, 2300, 3600,
  <<E("20", 4096, 128), E("d7", 4096, 128), E("d8", 65536, 8), E("60", 524288, 1), E("c7", 524288, 1)>>)
LE25FW106 == Spi(RES2, \h62, \h15, 128, 256, 2700, 3600,
  <<E("d7", 2048, 64), E("d8", 32768, 4), E("c7", 131072, 1)>>)
LE25FW203A == Spi(RDID, \h62, \h1600, 256, 256, 2700, 3600,
  <<E("db", 256, 1024), E("d8", 65536, 4), E("c7", 262144, 1)>>)
LE25FW403A == Spi(RDID, \h62, \h1100, 512, 256, 2700, 3600,
  <<E("db", 256, 2048), E("d8", 65536, 8), E("c7", 524288, 1)>>)
LE25FW406A == Spi(RES2, \h62, \h1A, 512, 256, 2700, 3600,
  <<E("d7", 4096, 128), E("d8", 65536, 8), E("c7", 524288, 1)>>)
LE25FW418A == Spi(RES2, \h62, \h10, 512, 256, 2700, 3600,
  <<E("d7", 4096, 128), E("d8", 65536, 8), E("c7", 524288, 1)>>)
LE25FW806 == Spi(RES2, \h62, \h26, 1024, 256, 2700, 3600,
  <<E("20", 4096, 256), E("d7", 4096, 256), E("d8", 65536, 16), E("c7", 1048576, 1)>>)
LE25FW808 == Spi(RES2, \h62, \h20, 1024, 256, 2700, 3600,
  <<E("d7", 8192, 128), E("d8", 65536, 16), E("c7", 1048576, 1)>>)
LH28F008BJT_BTLZ1 == Memory({PARALLEL}, I82802AB, \hB0, \hED, 1024, 65536, {}, ZERO, 2700, 3600,
  <<ER("block_82802ab", <<<<8192, 8>>, <<65536, 15>>>>), E("sector_49lfxxxc", 1048576, 1)>>)
LHF00L04 == Memory({FWH}, I82802AB, \hB0, \hCF, 1024, 65536, {LONG, SHORT}, ZERO, 3000, 3600,
  <<ER("block_82802ab", <<<<65536, 15>>, <<8192, 8>>>>), E("none", 1048576, 1)>>)
S25FL004A == Spi(RDID, \h1, \h212, 512, 256, 2700, 3600, <<E("d8", 65536, 8), E("c7", 524288, 1)>>)
S25FL008A == Spi(RDID, \h1, \h213, 1024, 256, 2700, 3600, <<E("d8", 65536, 16), E("c7", 1048576, 1)>>)
S25FL016A == Spi(RDID, \h1, \h214, 2048, 256, 2700, 3600, <<E("d8", 65536, 32), E("c7", 2097152, 1)>>)
S25FL032_A_P == Spi(RDID, \h1, \h215, 4096, 256, 2700, 3600, <<E("d8", 65536, 64), E("c7", 4194304, 1)>>)
S25FL064_A_P == Spi(RDID, \h1, \h216, 8192, 256, 2700, 3600, <<E("d8", 65536, 128), E("c7", 8388608, 1)>>)
S25FL116K_S25FL216K == Spi(RDID, \h1, \h4015, 2048, 256, 2700, 3600,
  <<E("20", 4096, 512), E("d8", 65536, 32), E("60", 2097152, 1), E("c7", 2097152, 1)>>)
S25FL127S_256kB == Spi(RDID, \h1, \h2018, 16384, 512, 2700, 3600,
  <<E("d8", 262144, 64), E("60", 16777216, 1), E("c7", 16777216, 1)>>)
S25FL127S_64kB == Spi(RDID, \h1, \h2018, 16384, 256, 2700, 3600,
  <<E("d8", 65536, 256), E("60", 16777216, 1), E("c7", 16777216, 1)>>)
S25FL128L == Spi(RDID, \h1, \h6018, 16384, 256, 2700, 3600,
  <<E("20", 4096, 4096), E("52", 32768, 512), E("d8", 65536, 256), E("60", 16777216, 1),
    E("c7", 16777216, 1)>>)
S25FL128P_0 == Spi(RDID, \h1, \h2018, 16384, 256, 2700, 3600,
  <<E("20", 65536, 256), E("d8", 65536, 256), E("60", 16777216, 1), E("c7", 16777216, 1)>>)
S25FL128P_1 == Spi(RDID, \h1, \h2018, 16384, 256, 2700, 3600, <<E("d8", 262144, 64), E("c7", 16777216, 1)>>)
S25FL128S_0 == Spi(RDID, \h1, \h2018, 16384, 256, 2700, 3600,
  <<E("d8", 65536, 256), E("60", 16777216, 1), E("c7", 16777216, 1)>>)
S25FL128S_1 == Spi(RDID, \h1, \h2018, 16384, 512, 2700, 3600,
  <<E("d8", 262144, 64), E("60", 16777216, 1), E("c7", 16777216, 1)>>)
S25FL129P_0 == Spi(RDID, \h1, \h2018, 16384, 256, 2700, 3600,
  <<E("d8", 65536, 256), E("60", 16777216, 1), E("c7", 16777216, 1)>>)
S25FL129P_1 == Spi(RDID, \h1, \h2018, 16384, 256, 2700, 3600,
  <<E("d8", 262144, 64), E("60", 16777216, 1), E("c7", 16777216, 1)>>)
S25FL132K == Spi(RDID, \h1, \h4016, 4096, 256, 2700, 3600,
  <<E("20", 4096, 1024), E("d8", 65536, 64), E("60", 4194304, 1), E("c7", 4194304, 1)>>)
S25FL164K == Spi(RDID, \h1, \h4017, 8192, 256, 2700, 3600,
  <<E("20", 4096, 2048), E("d8", 65536, 128), E("60", 8388608, 1), E("c7", 8388608, 1)>>)
S25FL204K == Spi(RDID, \h1, \h4013, 512, 256, 2700, 3600,
  <<E("20", 4096, 128), E("d8", 65536, 8), E("60", 524288, 1), E("c7", 524288, 1)>>)
S25FL208K == Spi(RDID, \h1, \h4014, 1024, 256, 2700, 3600,
  <<E("20", 4096, 256), E("d8", 65536, 16), E("60", 1048576, 1), E("c7", 1048576, 1)>>)
S25FL256L == Spi(RDID, \h1, \h6019, 32768, 256, 2700, 3600,
  <<E("21", 4096, 8192), E("20", 4096, 8192), E("53", 32768, 1024), E("52", 32768, 1024),
    E("dc", 65536, 512), E("d8", 65536, 512), E("60", 33554432, 1), E("c7", 33554432, 1)>>)
S25FL256S_0 == Spi(RDID, \h1, \h219, 32768, 256, 2700, 3600,
  <<E("dc", 65536, 512), E("d8", 65536, 512), E("60", 33554432, 1), E("c7", 33554432, 1)>>)
S25FL512S == Spi(RDID, \h1, \h220, 65536, 256, 2700, 3600,
  <<E("dc", 262144, 256), E("d8", 262144, 256), E("60", 67108864, 1), E("c7", 67108864, 1)>>)
F_S_V_29C51001B == Memory({PARALLEL}, JEDEC, \h40, \hA1, 128, 512, {LONG, SHORT}, ZERO, 4500, 5500,
  <<E("sector_jedec", 512, 256), E("chip_block_jedec", 131072, 1)>>)
F_S_V_29C51001T == Memory({PARALLEL}, JEDEC, \h40, \h1, 128, 512, {LONG, SHORT}, ZERO, 4500, 5500,
  <<E("sector_jedec", 512, 256), E("chip_block_jedec", 131072, 1)>>)
F_S_V_29C51002B == Memory({PARALLEL}, JEDEC, \h40, \hA2, 256, 512, {LONG, SHORT}, ZERO, 0, 0,
  <<E("sector_jedec", 512, 512), E("chip_block_jedec", 262144, 1)>>)
F_S_V_29C51002T == Memory({PARALLEL}, JEDEC, \h40, \h2, 256, 512, {LONG, SHORT}, ZERO, 0, 0,
  <<E("sector_jedec", 512, 512), E("chip_block_jedec", 262144, 1)>>)
F_S_V_29C51004B == Memory({PARALLEL}, JEDEC, \h40, \hA3, 512, 1024, {LONG, SHORT}, ZERO, 4500, 5500,
  <<E("sector_jedec", 1024, 512), E("chip_block_jedec", 524288, 1)>>)
F_S_V_29C51004T == Memory({PARALLEL}, JEDEC, \h40, \h3, 512, 1024, {LONG, SHORT}, ZERO, 4500, 5500,
  <<E("sector_jedec", 1024, 512), E("chip_block_jedec", 524288, 1)>>)
S_V_29C31004B == Memory({PARALLEL}, JEDEC, \h40, \h73, 512, 1024, {LONG, SHORT}, ZERO, 3000, 3600,
  <<E("sector_jedec", 1024, 512), E("chip_block_jedec", 524288, 1)>>)
S_V_29C31004T == Memory({PARALLEL}, JEDEC, \h40, \h63, 512, 1024, {LONG, SHORT}, ZERO, 3000, 3600,
  <<E("sector_jedec", 1024, 512), E("chip_block_jedec", 524288, 1)>>)
TMS29F002RB == Memory({PARALLEL}, JEDEC, \h1, \h34, 256, 16384, {LONG, SHORT, A2AA}, ZERO, 4500, 5500,
  <<ER("sector_jedec", <<<<16384, 1>>, <<8192, 2>>, <<32768, 1>>, <<65536, 3>>>>),
    E("chip_block_jedec", 262144, 1)>>)
TMS29F002RT == Memory({PARALLEL}, JEDEC, \h1, \hB0, 256, 16384, {LONG, SHORT, A2AA}, ZERO, 4500, 5500,
  <<ER("sector_jedec", <<<<65536, 3>>, <<32768, 1>>, <<8192, 2>>, <<16384, 1>>>>),
    E("chip_block_jedec", 262144, 1)>>)

MoselToTi == <<
  V29C51000B, V29C51000T, V29C51400B, V29C51400T, V29LC51000, V29LC51001, V29LC51002, N25S10,
  N25S16, N25S20, N25S40, N25S80, Pm25LD010_C, Pm25LD020_C, Pm25LD040_C, Pm25LD256C, Pm25LD512_C,
  Pm25LQ016, Pm25LQ020, Pm25LQ032C, Pm25LQ040, Pm25LQ080, Pm25LV010, Pm25LV010A, Pm25LV016B,
  Pm25LV020, Pm25LV040, Pm25LV080B, Pm25LV512_A, Pm29F002B, Pm29F002T, Pm39LV010, Pm39LV020,
  Pm39LV040, Pm39LV512, Pm49FL002, Pm49FL004, P25Q05H, P25Q06H, P25Q10H, P25Q11H, P25Q20H, P25Q21H,
  P25Q40H, P25Q40SH, P25Q80H, P25Q80SH, P25Q16H, P25Q16SH, P25Q32H, P25Q32SH, P25Q64H, P25Q64SH,
  P25Q128H, PY25Q40HB, PY25Q80HB, PY25Q16HB, PY25Q32HB, PY25Q64HA, PY25F64HA, PY25Q128HA,
  PY25F128HA_PY25R128HA, PY25Q256HB, PY25F256HB, PY25Q512HB, PY25F512HB, PY25Q01GHB, SST25LF020A,
  SST25LF040A, SST25LF080_A, SST25VF010_A, SST25VF016B, SST25VF020, SST25VF020B, SST25VF032B,
  SST25VF040, SST25VF040B, SST25VF040B_REMS, SST25VF064C, SST25VF080B, SST25VF512_A, SST25WF010,
  SST25WF020, SST25WF020A, SST25WF040, SST25WF040B, SST25WF080, SST25WF080B, SST25WF512, SST26VF016,
  SST26VF016B_A, SST26VF032, SST26VF032B_A, SST26VF064B_A, SST26VF080A, SST28SF040A, SST29EE010,
  SST29EE020A, SST29LE010, SST29LE020, SST39SF010A, SST39SF020A, SST39SF040, SST39SF512, SST39VF010,
  SST39VF020, SST39VF040, SST39VF080, SST39VF512, SST49LF002_A_B, SST49LF003_A_B, SST49LF004_A_B,
  SST49LF004C, SST49LF008A, SST49LF008C, SST49LF016C, SST49LF020, SST49LF020A, SST49LF040,
  SST49LF040B, SST49LF080A, SST49LF160C, M28F256, M29F002B, M29F002_N_T, M29F040B, M29F400BB,
  M29F400BT, M29W010B, M29W040B, M29W512B, M50FLW040A, M50FLW040B, M50FLW080A, M50FLW080B, M50FW002,
  M50FW016, M50FW040, M50FW080, M50LPW080, M50LPW116, M95M02, LE25FU106B, LE25FU206, LE25FU206A,
  LE25FU406B, LE25FU406C_LE25U40CMC, LE25FW106, LE25FW203A, LE25FW403A, LE25FW406A, LE25FW418A,
  LE25FW806, LE25FW808, LH28F008BJT_BTLZ1, LHF00L04, S25FL004A, S25FL008A, S25FL016A, S25FL032_A_P,
  S25FL064_A_P, S25FL116K_S25FL216K, S25FL127S_256kB, S25FL127S_64kB, S25FL128L, S25FL128P_0,
  S25FL128P_1, S25FL128S_0, S25FL128S_1, S25FL129P_0, S25FL129P_1, S25FL132K, S25FL164K, S25FL204K,
  S25FL208K, S25FL256L, S25FL256S_0, S25FL512S, F_S_V_29C51001B, F_S_V_29C51001T, F_S_V_29C51002B,
  F_S_V_29C51002T, F_S_V_29C51004B, F_S_V_29C51004T, S_V_29C31004B, S_V_29C31004T, TMS29F002RB,
  TMS29F002RT>>

=============================================================================
