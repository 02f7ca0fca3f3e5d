------------------------ MODULE FlashChipsGigaDevice ------------------------
\* Entries of the chip database (flashchips.c): GigaDevice to Micron
EXTENDS FlashChip

GD25LF80E == Spi(RDID, \hC8, \h6314, 1024, 256, 1650, 2000,
  <<E("20", 4096, 256), E("52", 32768, 32), E("d8", 65536, 16), E("60", 1048576, 1), E("c7", 1048576, 1)>>)
GD25LF16E == Spi(RDID, \hC8, \h6315, 2048, 256, 1650, 2000,
  <<E("20", 4096, 512), E("52", 32768, 64), E("d8", 65536, 32), E("60", 2097152, 1), E("c7", 2097152, 1)>>)
GD25LF32E == Spi(RDID, \hC8, \h6316, 4096, 256, 1650, 2000,
  <<E("20", 4096, 1024), E("52", 32768, 128), E("d8", 65536, 64), E("60", 4194304, 1), E("c7", 4194304, 1)>>)
GD25LF64E == Spi(RDID, \hC8, \h6317, 8192, 256, 1650, 2000,
  <<E("20", 4096, 2048), E("52", 32768, 256), E("d8", 65536, 128), E("60", 8388608, 1), E("c7", 8388608, 1)>>)
GD25LF128E == Spi(RDID, \hC8, \h6318, 16384, 256, 1650, 2000,
  <<E("20", 4096, 4096), E("52", 32768, 512), E("d8", 65536, 256), E("60", 16777216, 1),
    E("c7", 16777216, 1)>>)
GD25LQ128C_GD25LQ128D_GD25LQ128E == Spi(RDID, \hC8, \h6018, 16384, 256, 1650, 1950,
  <<E("20", 4096, 4096), E("52", 32768, 512), E("d8", 65536, 256), E("60", 16777216, 1),
    E("c7", 16777216, 1)>>)
GD25LQ16 == Spi(RDID, \hC8, \h6015, 2048, 256, 1650, 1950,
  <<E("20", 4096, 512), E("52", 32768, 64), E("d8", 65536, 32), E("60", 2097152, 1), E("c7", 2097152, 1)>>)
GD25LQ20 == Spi(RDID, \hC8, \h6012, 256, 256, 1650, 1950,
  <<E("20", 4096, 64), E("52", 32768, 8), E("d8", 65536, 4), E("60", 262144, 1), E("c7", 262144, 1)>>)
GD25LQ256D_GD25LE256D_GD25LB256D_G == Spi(RDID, \hC8, \h6019, 32768, 256, 1650, 2000,
  <<E("20", 4096, 8192), E("52", 32768, 1024), E("d8", 65536, 512), E("60", 33554432, 1),
    E("c7", 33554432, 1)>>)
GD25LQ256H_GD25LE256H_GD25LB256F == Spi(RDID, \hC8, \h6019, 32768, 256, 1650, 2000,
  <<E("21", 4096, 8192), E("20", 4096, 8192), E("5c", 32768, 1024), E("52", 32768, 1024),
    E("dc", 65536, 512), E("d8", 65536, 512), E("60", 33554432, 1), E("c7", 33554432, 1)>>)
GD25LE255E == Spi(RDID, \hC8, \h6019, 32768, 256, 1650, 2000,
  <<E("21", 4096, 8192), E("20", 4096, 8192), E("5c", 32768, 1024), E("52", 32768, 1024),
    E("dc", 65536, 512), E("d8", 65536, 512), E("60", 33554432, 1), E("c7", 33554432, 1)>>)
GD25LB256E_GD25LR256E == Spi(RDID, \hC8, \h6719, 32768, 256, 1650, 2000,
  <<E("21", 4096, 8192), E("20", 4096, 8192), E("5c", 32768, 1024), E("52", 32768, 1024),
    E("dc", 65536, 512), E("d8", 65536, 512), E("60", 33554432, 1), E("c7", 33554432, 1)>>)
GD25LQ32 == Spi(RDID, \hC8, \h6016, 4096, 256, 1650, 1950,
  <<E("20", 4096, 1024), E("52", 32768, 128), E("d8", 65536, 64), E("60", 4194304, 1), E("c7", 4194304, 1)>>)
GD25LQ40 == Spi(RDID, \hC8, \h6013, 512, 256, 1650, 1950,
  <<E("20", 4096, 128), E("52", 32768, 16), E("d8", 65536, 8), E("60", 524288, 1), E("c7", 524288, 1)>>)
GD25LQ64_B == Spi(RDID, \hC8, \h6017, 8192, 256, 1650, 1950,
  <<E("20", 4096, 2048), E("52", 32768, 256), E("d8", 65536, 128), E("60", 8388608, 1), E("c7", 8388608, 1)>>)
GD25LQ80 == Spi(RDID, \hC8, \h6014, 1024, 256, 1650, 1950,
  <<E("20", 4096, 256), E("52", 32768, 32), E("d8", 65536, 16), E("60", 1048576, 1), E("c7", 1048576, 1)>>)
GD25LB512ME_GD25LR512ME == Spi(RDID, \hC8, \h671A, 65536, 256, 1650, 2000,
  <<E("21", 4096, 16384), E("20", 4096, 16384), E("5c", 32768, 2048), E("52", 32768, 2048),
    E("dc", 65536, 1024), E("d8", 65536, 1024), E("60", 67108864, 1), E("c7", 67108864, 1)>>)
GD25LB512MF_GD25LR512MF == Spi(RDID, \hC8, \h601A, 65536, 256, 1650, 2000,
  <<E("21", 4096, 16384), E("20", 4096, 16384), E("52", 32768, 2048), E("5c", 32768, 2048),
    E("dc", 65536, 1024), E("d8", 65536, 1024), E("60", 67108864, 1), E("c7", 67108864, 1)>>)
GD55LB01GE == Spi(RDID, \hC8, \h671B, 131072, 256, 1650, 2000,
  <<E("21", 4096, 32768), E("20", 4096, 32768), E("5c", 32768, 4096), E("52", 32768, 4096),
    E("dc", 65536, 2048), E("d8", 65536, 2048), E("60", 134217728, 1), E("c7", 134217728, 1)>>)
GD55LB01GF == Spi(RDID, \hC8, \h601B, 131072, 256, 1650, 2000,
  <<E("21", 4096, 32768), E("20", 4096, 32768), E("52", 32768, 4096), E("5c", 32768, 4096),
    E("dc", 65536, 2048), E("d8", 65536, 2048), E("60", 134217728, 1), E("c7", 134217728, 1)>>)
GD55LB02GE == Spi(RDID, \hC8, \h671C, 262144, 256, 1650, 2000,
  <<E("21", 4096, 65536), E("20", 4096, 65536), E("5c", 32768, 8192), E("52", 32768, 8192),
    E("dc", 65536, 4096), E("d8", 65536, 4096), E("60", 268435456, 1), E("c7", 268435456, 1)>>)
GD55LB02GF == Spi(RDID, \hC8, \h601C, 262144, 256, 1650, 2000,
  <<E("21", 4096, 65536), E("20", 4096, 65536), E("52", 32768, 8192), E("5c", 32768, 8192),
    E("dc", 65536, 4096), E("d8", 65536, 4096), E("60", 268435456, 1), E("c7", 268435456, 1)>>)
GD25Q10 == Spi(RDID, \hC8, \h4011, 128, 256, 2700, 3600,
  <<E("20", 4096, 32), E("52", 32768, 4), E("d8", 65536, 2), E("60", 131072, 1), E("c7", 131072, 1)>>)
GD25Q127C_GD25B127D == Spi(RDID, \hC8, \h4018, 16384, 256, 2700, 3600,
  <<E("20", 4096, 4096), E("52", 32768, 512), E("d8", 65536, 256), E("60", 16777216, 1),
    E("c7", 16777216, 1)>>)
GD25Q128B_GD25B128B == Spi(RDID, \hC8, \h4018, 16384, 256, 2700, 3600,
  <<E("20", 4096, 4096), E("52", 32768, 512), E("d8", 65536, 256), E("60", 16777216, 1),
    E("c7", 16777216, 1)>>)
GD25Q128C == Spi(RDID, \hC8, \h4018, 16384, 256, 2700, 3600,
  <<E("20", 4096, 4096), E("52", 32768, 512), E("d8", 65536, 256), E("60", 16777216, 1),
    E("c7", 16777216, 1)>>)
GD25Q128E_GD25B128E_GD25R128E_GD25 == Spi(RDID, \hC8, \h4018, 16384, 256, 2700, 3600,
  <<E("20", 4096, 4096), E("52", 32768, 512), E("d8", 65536, 256), E("60", 16777216, 1),
    E("c7", 16777216, 1)>>)
GD25Q16_B == Spi(RDID, \hC8, \h4015, 2048, 256, 2700, 3600,
  <<E("20", 4096, 512), E("52", 32768, 64), E("d8", 65536, 32), E("60", 2097152, 1), E("c7", 2097152, 1)>>)
GD25Q20_B == Spi(RDID, \hC8, \h4012, 256, 256, 2700, 3600,
  <<E("20", 4096, 64), E("52", 32768, 8), E("d8", 65536, 4), E("60", 262144, 1), E("c7", 262144, 1)>>)
GD25Q256D_GD25B256D_GD25R256D == Spi(RDID, \hC8, \h4019, 32768, 256, 2700, 3600,
  <<E("21", 4096, 8192), E("20", 4096, 8192), E("5c", 32768, 1024), E("52", 32768, 1024),
    E("dc", 65536, 512), E("d8", 65536, 512), E("60", 33554432, 1), E("c7", 33554432, 1)>>)
GD25Q257D_GD25B257D == Spi(RDID, \hC8, \h4019, 32768, 256, 2700, 3600,
  <<E("21", 4096, 8192), E("20", 4096, 8192), E("5c", 32768, 1024), E("52", 32768, 1024),
    E("dc", 65536, 512), E("d8", 65536, 512), E("60", 33554432, 1), E("c7", 33554432, 1)>>)
GD25Q256E_GD25B256E_GD25R256E == Spi(RDID, \hC8, \h4019, 32768, 256, 2700, 3600,
  <<E("21", 4096, 8192), E("20", 4096, 8192), E("5c", 32768, 1024), E("52", 32768, 1024),
    E("dc", 65536, 512), E("d8", 65536, 512), E("60", 33554432, 1), E("c7", 33554432, 1)>>)
GD25Q32_B == Spi(RDID, \hC8, \h4016, 4096, 256, 2700, 3600,
  <<E("20", 4096, 1024), E("52", 32768, 128), E("d8", 65536, 64), E("60", 4194304, 1), E("c7", 4194304, 1)>>)
GD25Q40_B == Spi(RDID, \hC8, \h4013, 512, 256, 2700, 3600,
  <<E("20", 4096, 128), E("52", 32768, 16), E("d8", 65536, 8), E("60", 524288, 1), E("c7", 524288, 1)>>)
GD25Q512 == Spi(RDID, \hC8, \h4010, 64, 256, 2700, 3600,
  <<E("20", 4096, 16), E("52", 32768, 2), E("60", 65536, 1), E("c7", 65536, 1)>>)
GD25Q64_B == Spi(RDID, \hC8, \h4017, 8192, 256, 2700, 3600,
  <<E("20", 4096, 2048), E("52", 32768, 256), E("d8", 65536, 128), E("60", 8388608, 1), E("c7", 8388608, 1)>>)
GD25Q80_B == Spi(RDID, \hC8, \h4014, 1024, 256, 2700, 3600,
  <<E("20", 4096, 256), E("52", 32768, 32), E("d8", 65536, 16), E("60", 1048576, 1), E("c7", 1048576, 1)>>)
GD25B512ME_GD25R512ME == Spi(RDID, \hC8, \h471A, 65536, 256, 2700, 3600,
  <<E("21", 4096, 16384), E("20", 4096, 16384), E("5c", 32768, 2048), E("52", 32768, 2048),
    E("dc", 65536, 1024), E("d8", 65536, 1024), E("60", 67108864, 1), E("c7", 67108864, 1)>>)
GD25B512MF_GD25R512MF == Spi(RDID, \hC8, \h401A, 65536, 256, 2700, 3600,
  <<E("21", 4096, 16384), E("20", 4096, 16384), E("5c", 32768, 2048), E("52", 32768, 2048),
    E("dc", 65536, 1024), E("d8", 65536, 1024), E("60", 67108864, 1), E("c7", 67108864, 1)>>)
GD55B01GE == Spi(RDID, \hC8, \h471B, 131072, 256, 2700, 3600,
  <<E("21", 4096, 32768), E("20", 4096, 32768), E("5c", 32768, 4096), E("52", 32768, 4096),
    E("dc", 65536, 2048), E("d8", 65536, 2048), E("60", 134217728, 1), E("c7", 134217728, 1)>>)
GD55B01GF == Spi(RDID, \hC8, \h401B, 131072, 256, 2700, 3600,
  <<E("21", 4096, 32768), E("20", 4096, 32768), E("5c", 32768, 4096), E("52", 32768, 4096),
    E("dc", 65536, 2048), E("d8", 65536, 2048), E("60", 134217728, 1), E("c7", 134217728, 1)>>)
GD55B02GE == Spi(RDID, \hC8, \h471C, 262144, 256, 2700, 3600,
  <<E("21", 4096, 65536), E("20", 4096, 65536), E("5c", 32768, 8192), E("52", 32768, 8192),
    E("dc", 65536, 4096), E("d8", 65536, 4096), E("60", 268435456, 1), E("c7", 268435456, 1)>>)
GD55B02GF == Spi(RDID, \hC8, \h401C, 262144, 256, 2700, 3600,
  <<E("21", 4096, 65536), E("20", 4096, 65536), E("5c", 32768, 8192), E("52", 32768, 8192),
    E("dc", 65536, 4096), E("d8", 65536, 4096), E("60", 268435456, 1), E("c7", 268435456, 1)>>)
GD25T80 == Spi(RDID, \hC8, \h3114, 1024, 256, 2700, 3600,
  <<E("20", 4096, 256), E("52", 65536, 16), E("d8", 65536, 16), E("60", 1048576, 1), E("c7", 1048576, 1)>>)
GD25VQ16C == Spi(RDID, \hC8, \h4215, 2048, 256, 2300, 3600,
  <<E("20", 4096, 512), E("52", 32768, 64), E("d8", 65536, 32), E("60", 2097152, 1), E("c7", 2097152, 1)>>)
GD25VQ21B == Spi(RDID, \hC8, \h4212, 256, 256, 2300, 3600,
  <<E("20", 4096, 64), E("52", 32768, 8), E("d8", 65536, 4), E("60", 262144, 1), E("c7", 262144, 1)>>)
GD25VQ40C == Spi(RDID, \hC8, \h4213, 512, 256, 2300, 3600,
  <<E("20", 4096, 128), E("52", 32768, 16), E("d8", 65536, 8), E("60", 524288, 1), E("c7", 524288, 1)>>)
GD25VQ41B == Spi(RDID, \hC8, \h4213, 512, 256, 2300, 3600,
  <<E("20", 4096, 128), E("52", 32768, 16), E("d8", 65536, 8), E("60", 524288, 1), E("c7", 524288, 1)>>)
GD25VQ80C == Spi(RDID, \hC8, \h4214, 1024, 256, 2300, 3600,
  <<E("20", 4096, 256), E("52", 32768, 32), E("d8", 65536, 16), E("60", 1048576, 1), E("c7", 1048576, 1)>>)
GD25WQ80E == Spi(RDID, \hC8, \h6514, 1024, 256, 1650, 3600,
  <<E("20", 4096, 256), E("52", 32768, 32), E("d8", 65536, 16), E("60", 1048576, 1), E("c7", 1048576, 1)>>)
HY29F002B == Memory({PARALLEL}, JEDEC, \hAD, \h34, 256, 262144, {LONG, SHORT}, ZERO, 4750, 5250,
  <<ER("sector_jedec", <<<<16384, 1>>, <<8192, 2>>, <<32768, 1>>, <<65536, 3>>>>),
    E("chip_block_jedec", 262144, 1)>>)
HY29F002T == Memory({PARALLEL}, JEDEC, \hAD, \hB0, 256, 262144, {LONG, SHORT}, ZERO, 4750, 5250,
  <<ER("sector_jedec", <<<<65536, 3>>, <<32768, 1>>, <<8192, 2>>, <<16384, 1>>>>),
    E("chip_block_jedec", 262144, 1)>>)
HY29F040A == Memory({PARALLEL}, JEDEC, \hAD, \hA4, 512, 65536, {LONG, SHORT, A2AA}, ZERO, 4500, 5500,
  <<E("sector_jedec", 65536, 8), E("chip_block_jedec", 524288, 1)>>)
IS25LP064 == Spi(RDID, \h9D, \h6017, 8192, 256, 2300, 3600,
  <<E("20", 4096, 2048), E("d7", 4096, 2048), E("52", 32768, 256), E("d8", 65536, 128),
    E("60", 8388608, 1), E("c7", 8388608, 1)>>)
IS25LP128 == Spi(RDID, \h9D, \h6018, 16384, 256, 2300, 3600,
  <<E("20", 4096, 4096), E("d7", 4096, 4096), E("52", 32768, 512), E("d8", 65536, 256),
    E("60", 16777216, 1), E("c7", 16777216, 1)>>)
IS25LP256 == Spi(RDID, \h9D, \h6019, 32768, 256, 2300, 3600,
  <<E("21", 4096, 8192), E("20", 4096, 8192), E("5c", 32768, 1024), E("52", 32768, 1024),
    E("dc", 65536, 512), E("d8", 65536, 512), E("60", 33554432, 1), E("c7", 33554432, 1)>>)
IS25WP032 == Spi(RDID, \h9D, \h7016, 4096, 256, 1650, 1950,
  <<E("20", 4096, 1024), E("d7", 4096, 1024), E("52", 32768, 128), E("d8", 65536, 64), E("60", 4194304, 1),
    E("c7", 4194304, 1)>>)
IS25WP064 == Spi(RDID, \h9D, \h7017, 8192, 256, 1650, 1950,
  <<E("20", 4096, 2048), E("d7", 4096, 2048), E("52", 32768, 256), E("d8", 65536, 128),
    E("60", 8388608, 1), E("c7", 8388608, 1)>>)
IS25WP128 == Spi(RDID, \h9D, \h7018, 16384, 256, 1650, 1950,
  <<E("20", 4096, 4096), E("d7", 4096, 4096), E("52", 32768, 512), E("d8", 65536, 256),
    E("60", 16777216, 1), E("c7", 16777216, 1)>>)
IS25WP256 == Spi(RDID, \h9D, \h7019, 32768, 256, 1650, 1950,
  <<E("21", 4096, 8192), E("20", 4096, 8192), E("5c", 32768, 1024), E("52", 32768, 1024),
    E("dc", 65536, 512), E("d8", 65536, 512), E("60", 33554432, 1), E("c7", 33554432, 1)>>)
IS29GL064B == Memory({PARALLEL}, JEDEC_29GL, \hD5, \h7E1000, 8192, 131072, {SHORT, A2AA}, ZERO, 2700, 3600,
  <<ER("sector_jedec", <<<<8192, 8>>, <<65536, 127>>>>), E("chip_block_jedec", 8388608, 1)>>)
IS29GL064_H_L == Memory({PARALLEL}, JEDEC_29GL, \hD5, \h7E0C01, 8192, 131072, {SHORT, A2AA}, ZERO, 2700, 3600,
  <<E("sector_jedec", 65536, 128), E("chip_block_jedec", 8388608, 1)>>)
IS29GL064T == Memory({PARALLEL}, JEDEC_29GL, \hD5, \h7E1001, 8192, 131072, {SHORT, A2AA}, ZERO, 2700, 3600,
  <<ER("sector_jedec", <<<<65536, 127>>, <<8192, 8>>>>), E("chip_block_jedec", 8388608, 1)>>)
IS29GL128_H_L == Memory({PARALLEL}, JEDEC_29GL, \hD5, \h7E2101, 16384, 131072, {SHORT, A2AA}, ZERO, 2700, 3600,
  <<E("sector_jedec", 131072, 128), E("chip_block_jedec", 16777216, 1)>>)
Intel_25F160S33B8 == Spi(RDID, \h89, \h8911, 2048, 256, 2700, 3600,
  <<E("d8", 65536, 32), E("c7", 2097152, 1)>>)
Intel_25F160S33T8 == Spi(RDID, \h89, \h8915, 2048, 256, 2700, 3600,
  <<E("d8", 65536, 32), E("c7", 2097152, 1)>>)
Intel_25F320S33B8 == Spi(RDID, \h89, \h8912, 4096, 256, 2700, 3600,
  <<E("d8", 65536, 64), E("c7", 4194304, 1)>>)
Intel_25F320S33T8 == Spi(RDID, \h89, \h8916, 4096, 256, 2700, 3600,
  <<E("d8", 65536, 64), E("c7", 4194304, 1)>>)
Intel_25F640S33B8 == Spi(RDID, \h89, \h8913, 8192, 256, 2700, 3600,
  <<E("d8", 65536, 128), E("c7", 8388608, 1)>>)
Intel_25F640S33T8 == Spi(RDID, \h89, \h8917, 8192, 256, 2700, 3600,
  <<E("d8", 65536, 128), E("c7", 8388608, 1)>>)
Intel_28F001_BN_BX_B == Memory({PARALLEL}, JEDEC, \h89, \h95, 128, 131072, {}, ZERO, 4500, 5500,
  <<ER("block_82802ab", <<<<8192, 1>>, <<4096, 2>>, <<114688, 1>>>>)>>)
Intel_28F001_BN_BX_T == Memory({PARALLEL}, JEDEC, \h89, \h94, 128, 131072, {}, ZERO, 4500, 5500,
  <<ER("block_82802ab", <<<<114688, 1>>, <<4096, 2>>, <<8192, 1>>>>)>>)
Intel_28F002_BC_BL_BV_BX_T == Memory({PARALLEL}, I82802AB, \h89, \h7C, 256, 262144, {}, ZERO, 0, 0,
  <<ER("block_82802ab", <<<<131072, 1>>, <<98304, 1>>, <<8192, 2>>, <<16384, 1>>>>)>>)
Intel_28F004_B5_BE_BV_BX_B == Memory({PARALLEL}, I82802AB, \h89, \h79, 512, 131072, {}, ZERO, 0, 0,
  <<ER("block_82802ab", <<<<16384, 1>>, <<8192, 2>>, <<98304, 1>>, <<131072, 3>>>>)>>)
Intel_28F004_B5_BE_BV_BX_T == Memory({PARALLEL}, I82802AB, \h89, \h78, 512, 131072, {}, ZERO, 0, 0,
  <<ER("block_82802ab", <<<<131072, 3>>, <<98304, 1>>, <<8192, 2>>, <<16384, 1>>>>)>>)
Intel_28F008_S3_S5_SC == Memory({PARALLEL}, I82802AB, \h89, \hA7, 512, 256, {}, ZERO, 0, 0,
  <<E("block_82802ab", 65536, 8)>>)
Intel_28F400_BV_BX_CE_CV_B == Memory({PARALLEL}, I82802AB, \h89, \h71, 512, 131072, {SHIFTED}, ZERO, 0, 0,
  <<ER("block_82802ab", <<<<16384, 1>>, <<8192, 2>>, <<98304, 1>>, <<131072, 3>>>>)>>)
Intel_28F400_BV_BX_CE_CV_T == Memory({PARALLEL}, I82802AB, \h89, \h70, 512, 131072, {SHIFTED}, ZERO, 0, 0,
  <<ER("block_82802ab", <<<<131072, 3>>, <<98304, 1>>, <<8192, 2>>, <<16384, 1>>>>)>>)
Intel_82802AB == Memory({FWH}, I82802AB, \h89, \hAD, 512, 65536, {}, FIXME, 3000, 3600,
  <<E("block_82802ab", 65536, 8)>>)
Intel_82802AC == Memory({FWH}, I82802AB, \h89, \hAC, 1024, 65536, {}, FIXME, 3000, 3600,
  <<E("block_82802ab", 65536, 16)>>)
MX23L12854 == Spi(RDID, \hC2, \h518, 16384, 256, 3000, 3600, <<>>)
MX23L1654 == Spi(RDID, \hC2, \h515, 2048, 256, 3000, 3600, <<>>)
MX23L3254 == Spi(RDID, \hC2, \h516, 4096, 256, 3000, 3600, <<>>)
MX23L6454 == Spi(RDID, \hC2, \h517, 8192, 256, 3000, 3600, <<>>)
MX25L1005_C_MX25L1006E == Spi(RDID, \hC2, \h2011, 128, 256, 2700, 3600,
  <<E("20", 4096, 32), E("d8", 65536, 2), E("60", 131072, 1), E("c7", 131072, 1)>>)
MX25L12805D == Spi(RDID, \hC2, \h2018, 16384, 256, 2700, 3600,
  <<E("20", 4096, 4096), E("d8", 65536, 256), E("60", 16777216, 1), E("c7", 16777216, 1)>>)
MX25L12833F_MX25L12835F_MX25L12845 == Spi(RDID, \hC2, \h2018, 16384, 256, 2700, 3600,
  <<E("20", 4096, 4096), E("52", 32768, 512), E("d8", 65536, 256), E("60", 16777216, 1),
    E("c7", 16777216, 1)>>)
MX25L1605 == Spi(RDID, \hC2, \h2015, 2048, 256, 2700, 3600,
  <<E("20", 65536, 32), E("d8", 65536, 32), E("60", 2097152, 1), E("c7", 2097152, 1)>>)
MX25L1605A_MX25L1606E_MX25L1608E == Spi(RDID, \hC2, \h2015, 2048, 256, 2700, 3600,
  <<E("20", 4096, 512), E("52", 65536, 32), E("d8", 65536, 32), E("60", 2097152, 1), E("c7", 2097152, 1)>>)
MX25L1605D_MX25L1608D_MX25L1673E == Spi(RDID, \hC2, \h2015, 2048, 256, 2700, 3600,
  <<E("20", 4096, 512), E("d8", 65536, 32), E("60", 2097152, 1), E("c7", 2097152, 1)>>)
MX25L1635D == Spi(RDID, \hC2, \h2415, 2048, 256, 2700, 3600,
  <<E("20", 4096, 512), E("d8", 65536, 32), E("60", 2097152, 1), E("c7", 2097152, 1)>>)
MX25L1635E == Spi(RDID, \hC2, \h2515, 2048, 256, 2700, 3600,
  <<E("20", 4096, 512), E("d8", 65536, 32), E("60", 2097152, 1), E("c7", 2097152, 1)>>)
MX25L2005_C_MX25L2006E == Spi(RDID, \hC2, \h2012, 256, 256, 2700, 3600,
  <<E("20", 4096, 64), E("52", 65536, 4), E("d8", 65536, 4), E("60", 262144, 1), E("c7", 262144, 1)>>)
MX25L25635F_MX25L25645G == Spi(RDID, \hC2, \h2019, 32768, 256, 2700, 3600,
  <<E("21", 4096, 8192), E("20", 4096, 8192), E("5c", 32768, 1024), E("52", 32768, 1024),
    E("dc", 65536, 512), E("d8", 65536, 512), E("60", 33554432, 1), E("c7", 33554432, 1)>>)
MX25L3205_A == Spi(RDID, \hC2, \h2016, 4096, 256, 2700, 3600,
  <<E("20", 65536, 64), E("d8", 65536, 64), E("60", 4194304, 1), E("c7", 4194304, 1)>>)
MX25L3205D_MX25L3208D == Spi(RDID, \hC2, \h2016, 4096, 256, 2700, 3600,
  <<E("20", 4096, 1024), E("d8", 65536, 64), E("60", 4194304, 1), E("c7", 4194304, 1)>>)
MX25L3206E_MX25L3208E == Spi(RDID, \hC2, \h2016, 4096, 256, 2700, 3600,
  <<E("20", 4096, 1024), E("d8", 65536, 64), E("52", 65536, 64), E("60", 4194304, 1), E("c7", 4194304, 1)>>)
MX25L3235D == Spi(RDID, \hC2, \h5E16, 4096, 256, 2700, 3600,
  <<E("20", 4096, 1024), E("d8", 65536, 64), E("60", 4194304, 1), E("c7", 4194304, 1)>>)
MX25L3233F_MX25L3273E == Spi(RDID, \hC2, \h2016, 4096, 256, 2700, 3600,
  <<E("20", 4096, 1024), E("52", 32768, 128), E("d8", 65536, 64), E("60", 4194304, 1), E("c7", 4194304, 1)>>)
MX25L4005_A_C_MX25L4006E == Spi(RDID, \hC2, \h2013, 512, 256, 2700, 3600,
  <<E("20", 4096, 128), E("52", 65536, 8), E("d8", 65536, 8), E("60", 524288, 1), E("c7", 524288, 1)>>)
MX25L512_E_MX25V512_C == Spi(RDID, \hC2, \h2010, 64, 256, 2700, 3600,
  <<E("20", 4096, 16), E("52", 65536, 1), E("d8", 65536, 1), E("60", 65536, 1), E("c7", 65536, 1)>>)
MX25L5121E == Spi(RDID, \hC2, \h2210, 64, 32, 2700, 3600,
  <<E("20", 4096, 16), E("52", 65536, 1), E("d8", 65536, 1), E("60", 65536, 1), E("c7", 65536, 1)>>)
MX25L6405 == Spi(RDID, \hC2, \h2017, 8192, 256, 2700, 3600,
  <<E("20", 65536, 128), E("d8", 65536, 128), E("60", 8388608, 1), E("c7", 8388608, 1)>>)
MX25L6405D == Spi(RDID, \hC2, \h2017, 8192, 256, 2700, 3600,
  <<E("20", 4096, 2048), E("d8", 65536, 128), E("60", 8388608, 1), E("c7", 8388608, 1)>>)
MX25L6406E_MX25L6408E == Spi(RDID, \hC2, \h2017, 8192, 256, 2700, 3600,
  <<E("20", 4096, 2048), E("52", 65536, 128), E("d8", 65536, 128), E("60", 8388608, 1), E("c7", 8388608, 1)>>)
MX25L6436E_MX25L6445E_MX25L6465E_M == Spi(RDID, \hC2, \h2017, 8192, 256, 2700, 3600,
  <<E("20", 4096, 2048), E("52", 32768, 256), E("d8", 65536, 128), E("60", 8388608, 1), E("c7", 8388608, 1)>>)
MX25L6495F == Spi(RDID, \hC2, \h9517, 8192, 256, 2700, 3600,
  <<E("20", 4096, 2048), E("52", 32768, 256), E("d8", 65536, 128), E("60", 8388608, 1), E("c7", 8388608, 1)>>)
MX25L8005_MX25L8006E_MX25L8008E_MX == Spi(RDID, \hC2, \h2014, 1024, 256, 2700, 3600,
  <<E("20", 4096, 256), E("52", 65536, 16), E("d8", 65536, 16), E("60", 1048576, 1), E("c7", 1048576, 1)>>)
MX25R3235F == Spi(RDID, \hC2, \h2816, 4096, 256, 1650, 3600,
  <<E("20", 4096, 1024), E("52", 32768, 128), E("d8", 65536, 64), E("60", 4194304, 1), E("c7", 4194304, 1)>>)
MX25R6435F == Spi(RDID, \hC2, \h2817, 8192, 256, 1650, 3600,
  <<E("20", 4096, 2048), E("52", 32768, 256), E("d8", 65536, 128), E("60", 8388608, 1), E("c7", 8388608, 1)>>)
MX25U12835F == Spi(RDID, \hC2, \h2538, 16384, 256, 1650, 2000,
  <<E("20", 4096, 4096), E("52", 32768, 512), E("d8", 65536, 256), E("60", 16777216, 1),
    E("c7", 16777216, 1)>>)
MX25U1635E == Spi(RDID, \hC2, \h2535, 2048, 256, 1650, 2000,
  <<E("20", 4096, 512), E("52", 32768, 64), E("d8", 65536, 32), E("60", 2097152, 1), E("c7", 2097152, 1)>>)
MX25U25635F == Spi(RDID, \hC2, \h2539, 32768, 256, 1650, 2000,
  <<E("21", 4096, 8192), E("20", 4096, 8192), E("5c", 32768, 1024), E("52", 32768, 1024),
    E("dc", 65536, 512), E("d8", 65536, 512), E("60", 33554432, 1), E("c7", 33554432, 1)>>)
MX25U3235_E_F == Spi(RDID, \hC2, \h2536, 4096, 256, 1650, 2000,
  <<E("20", 4096, 1024), E("52", 32768, 128), E("d8", 65536, 64), E("60", 4194304, 1), E("c7", 4194304, 1)>>)
MX25U51245G == Spi(RDID, \hC2, \h253A, 65536, 256, 1650, 2000,
  <<E("21", 4096, 16384), E("20", 4096, 16384), E("5c", 32768, 2048), E("52", 32768, 2048),
    E("dc", 65536, 1024), E("d8", 65536, 1024), E("60", 67108864, 1), E("c7", 67108864, 1)>>)
MX25U6435_E_F == Spi(RDID, \hC2, \h2537, 8192, 256, 1650, 2000,
  <<E("20", 4096, 2048), E("52", 32768, 256), E("d8", 65536, 128), E("60", 8388608, 1), E("c7", 8388608, 1)>>)
MX25U8032E == Spi(RDID, \hC2, \h2534, 1024, 256, 1650, 2000,
  <<E("20", 4096, 256), E("52", 32768, 32), E("d8", 65536, 16), E("60", 1048576, 1), E("c7", 1048576, 1)>>)
MX29F001B == Memory({PARALLEL}, JEDEC, \hC2, \h19, 128, 32768, {SHORT, A2AA}, ZERO, 4500, 5500,
  <<ER("sector_jedec", <<<<8192, 1>>, <<4096, 2>>, <<8192, 2>>, <<32768, 1>>, <<65536, 1>>>>),
    E("chip_block_jedec", 131072, 1)>>)
MX29F001T == Memory({PARALLEL}, JEDEC, \hC2, \h18, 128, 32768, {SHORT, A2AA}, ZERO, 4500, 5500,
  <<ER("sector_jedec", <<<<65536, 1>>, <<32768, 1>>, <<8192, 2>>, <<4096, 2>>, <<8192, 1>>>>),
    E("chip_block_jedec", 131072, 1)>>)
MX29F002_N_B == Memory({PARALLEL}, JEDEC, \hC2, \h34, 256, 65536, {SHORT, A2AA}, ZERO, 4500, 5500,
  <<ER("sector_jedec", <<<<16384, 1>>, <<8192, 2>>, <<32768, 1>>, <<65536, 3>>>>),
    E("chip_block_jedec", 262144, 1)>>)
MX29F002_N_T == Memory({PARALLEL}, JEDEC, \hC2, \hB0, 256, 65536, {SHORT, A2AA}, ZERO, 4500, 5500,
  <<ER("sector_jedec", <<<<65536, 3>>, <<32768, 1>>, <<8192, 2>>, <<16384, 1>>>>),
    E("chip_block_jedec", 262144, 1)>>)
MX29F022_N_B == Memory({PARALLEL}, JEDEC, \hC2, \h37, 256, 0, {SHORT, A2AA}, ZERO, 4500, 5500,
  <<ER("sector_jedec", <<<<16384, 1>>, <<8192, 2>>, <<32768, 1>>, <<65536, 3>>>>),
    E("chip_block_jedec", 262144, 1)>>)
MX29F022_N_T == Memory({PARALLEL}, JEDEC, \hC2, \h36, 256, 0, {SHORT, A2AA}, ZERO, 4500, 5500,
  <<ER("sector_jedec", <<<<65536, 3>>, <<32768, 1>>, <<8192, 2>>, <<16384, 1>>>>),
    E("chip_block_jedec", 262144, 1)>>)
MX29F040 == Memory({PARALLEL}, JEDEC, \hC2, \hA4, 512, 65536, {SHORT, A2AA}, ZERO, 4500, 5500,
  <<E("sector_jedec", 65536, 8), E("chip_block_jedec", 524288, 1)>>)
MX29GL128F == Memory({PARALLEL}, JEDEC_29GL, \hC2, \h7E2101, 16384, 131072, {SHORT, A2AA}, ZERO, 2700, 3600,
  <<E("sector_jedec", 131072, 128), E("chip_block_jedec", 16777216, 1)>>)
MX29GL320EB == Memory({PARALLEL}, JEDEC_29GL, \hC2, \h7E1A00, 4096, 131072, {SHORT, A2AA}, ZERO, 2700, 3600,
  <<ER("sector_jedec", <<<<8192, 8>>, <<65536, 63>>>>), E("chip_block_jedec", 4194304, 1)>>)
MX29GL320E_H_L == Memory({PARALLEL}, JEDEC_29GL, \hC2, \h7E1D00, 4096, 131072, {SHORT, A2AA}, ZERO, 2700, 3600,
  <<E("sector_jedec", 65536, 64), E("chip_block_jedec", 4194304, 1)>>)
MX29GL320ET == Memory({PARALLEL}, JEDEC_29GL, \hC2, \h7E1A01, 4096, 131072, {SHORT, A2AA}, ZERO, 2700, 3600,
  <<ER("sector_jedec", <<<<65536, 63>>, <<8192, 8>>>>), E("chip_block_jedec", 4194304, 1)>>)
MX29GL640EB == Memory({PARALLEL}, JEDEC_29GL, \hC2, \h7E1000, 8192, 131072, {SHORT, A2AA}, ZERO, 2700, 3600,
  <<ER("sector_jedec", <<<<8192, 8>>, <<65536, 127>>>>), E("chip_block_jedec", 8388608, 1)>>)
MX29GL640E_H_L == Memory({PARALLEL}, JEDEC_29GL, \hC2, \h7E0C01, 8192, 131072, {SHORT, A2AA}, ZERO, 2700, 3600,
  <<E("sector_jedec", 65536, 128), E("chip_block_jedec", 8388608, 1)>>)
MX29GL640ET == Memory({PARALLEL}, JEDEC_29GL, \hC2, \h7E1001, 8192, 131072, {SHORT, A2AA}, ZERO, 2700, 3600,
  <<ER("sector_jedec", <<<<65536, 127>>, <<8192, 8>>>>), E("chip_block_jedec", 8388608, 1)>>)
MX29LV040 == Memory({PARALLEL}, JEDEC, \hC2, \h4F, 512, 65536, {SHORT, A2AA}, ZERO, 2700, 3600,
  <<E("sector_jedec", 65536, 8), E("chip_block_jedec", 524288, 1)>>)
MX66L51235F_MX25L51245G == Spi(RDID, \hC2, \h201A, 65536, 256, 2700, 3600,
  <<E("21", 4096, 16384), E("20", 4096, 16384), E("5c", 32768, 2048), E("52", 32768, 2048),
    E("dc", 65536, 1024), E("d8", 65536, 1024), E("60", 67108864, 1), E("c7", 67108864, 1)>>)
MX66L1G45G == Spi(RDID, \hC2, \h201B, 131072, 256, 2700, 3600,
  <<E("21", 4096, 32768), E("20", 4096, 32768), E("5c", 32768, 4096), E("52", 32768, 4096),
    E("dc", 65536, 2048), E("d8", 65536, 2048), E("60", 134217728, 1), E("c7", 134217728, 1)>>)
Microchip_25LC080 == Spi(NONE, \h0, \h0, 1, 16, 2500, 5500, <<E("emulation", 1024, 1)>>)
Microchip_25LC016 == Spi(NONE, \h0, \h0, 2, 16, 2500, 5500, <<E("emulation", 2048, 1)>>)
Microchip_25LC032 == Spi(NONE, \h0, \h0, 4, 32, 2500, 5500, <<E("emulation", 4096, 1)>>)
Microchip_25LC064 == Spi(NONE, \h0, \h0, 8, 32, 2500, 5500, <<E("emulation", 8192, 1)>>)
Microchip_25LC128 == Spi(NONE, \h0, \h0, 16, 64, 2500, 5500, <<E("emulation", 16384, 1)>>)
Microchip_25LC256 == Spi(NONE, \h0, \h0, 32, 64, 2500, 5500, <<E("emulation", 32768, 1)>>)
Microchip_25LC512 == Spi(NONE, \h0, \h0, 64, 128, 2500, 5500, <<E("emulation", 65536, 1)>>)
Microchip_25LC1024 == Spi(NONE, \h0, \h0, 128, 256, 2500, 5500, <<E("emulation", 131072, 1)>>)
M25P05 == Spi(RES1, \h0, \h5, 64, 256, 2700, 3600, <<E("d8", 32768, 2), E("c7", 65536, 1)>>)
M25P05_A == Spi(RDID, \h20, \h2010, 64, 256, 2700, 3600, <<E("d8", 32768, 2), E("c7", 65536, 1)>>)
M25P10 == Spi(RES1, \h0, \h10, 128, 256, 2700, 3600, <<E("d8", 32768, 4), E("c7", 131072, 1)>>)
M25P10_A == Spi(RDID, \h20, \h2011, 128, 256, 2700, 3600, <<E("d8", 32768, 4), E("c7", 131072, 1)>>)
M25P128 == Spi(RDID, \h20, \h2018, 16384, 256, 2700, 3600, <<E("d8", 262144, 64), E("c7", 16777216, 1)>>)
M25P16 == Spi(RDID, \h20, \h2015, 2048, 256, 2700, 3600, <<E("d8", 65536, 32), E("c7", 2097152, 1)>>)
M25P20 == Spi(RDID, \h20, \h2012, 256, 256, 2700, 3600, <<E("d8", 65536, 4), E("c7", 262144, 1)>>)
M25P20_old == Spi(RES1, \h0, \h11, 256, 256, 2700, 3600, <<E("d8", 65536, 4), E("c7", 262144, 1)>>)
M25P32 == Spi(RDID, \h20, \h2016, 4096, 256, 2700, 3600, <<E("d8", 65536, 64), E("c7", 4194304, 1)>>)
M25P40 == Spi(RDID, \h20, \h2013, 512, 256, 2700, 3600, <<E("d8", 65536, 8), E("c7", 524288, 1)>>)
M25P40_old == Spi(RES1, \h0, \h12, 512, 256, 0, 0, <<E("d8", 65536, 8), E("c7", 524288, 1)>>)
M25P64 == Spi(RDID, \h20, \h2017, 8192, 256, 2700, 3600, <<E("d8", 65536, 128), E("c7", 8388608, 1)>>)
M25P80 == Spi(RDID, \h20, \h2014, 1024, 256, 2700, 3600, <<E("d8", 65536, 16), E("c7", 1048576, 1)>>)
M25PE10 == Spi(RDID, \h20, \h8011, 128, 256, 2700, 3600,
  <<E("20", 4096, 32), E("d8", 65536, 2), E("c7", 131072, 1)>>)
M25PE16 == Spi(RDID, \h20, \h8015, 2048, 256, 2700, 3600,
  <<E("20", 4096, 512), E("d8", 65536, 32), E("c7", 2097152, 1)>>)
M25PE20 == Spi(RDID, \h20, \h8012, 256, 256, 2700, 3600,
  <<E("20", 4096, 64), E("d8", 65536, 4), E("c7", 262144, 1)>>)
M25PE40 == Spi(RDID, \h20, \h8013, 512, 256, 2700, 3600,
  <<E("20", 4096, 128), E("d8", 65536, 8), E("c7", 524288, 1)>>)
M25PE80 == Spi(RDID, \h20, \h8014, 1024, 256, 2700, 3600,
  <<E("20", 4096, 256), E("d8", 65536, 16), E("c7", 1048576, 1)>>)
M25PX16 == Spi(RDID, \h20, \h7115, 2048, 256, 2300, 3600,
  <<E("20", 4096, 512), E("d8", 65536, 32), E("c7", 2097152, 1)>>)
M25PX32 == Spi(RDID, \h20, \h7116, 4096, 256, 2700, 3600,
  <<E("20", 4096, 1024), E("d8", 65536, 64), E("c7", 4194304, 1)>>)
M25PX64 == Spi(RDID, \h20, \h7117, 8192, 256, 2700, 3600,
  <<E("20", 4096, 2048), E("d8", 65536, 128), E("c7", 8388608, 1)>>)
M25PX80 == Spi(RDID, \h20, \h7114, 1024, 256, 2700, 3600,
  <<E("20", 4096, 256), E("d8", 65536, 16), E("c7", 1048576, 1)>>)
M45PE10 == Spi(RDID, \h20, \h4011, 128, 256, 2700, 3600, <<E("db", 256, 512), E("d8", 65536, 2)>>)
M45PE16 == Spi(RDID, \h20, \h4015, 2048, 256, 2700, 3600, <<E("db", 256, 8192), E("d8", 65536, 32)>>)
M45PE20 == Spi(RDID, \h20, \h4012, 256, 256, 2700, 3600, <<E("db", 256, 1024), E("d8", 65536, 4)>>)
M45PE40 == Spi(RDID, \h20, \h4013, 512, 256, 2700, 3600, <<E("db", 256, 2048), E("d8", 65536, 8)>>)
M45PE80 == Spi(RDID, \h20, \h4014, 1024, 256, 2700, 3600, <<E("db", 256, 4096), E("d8", 65536, 16)>>)
N25Q00A_1G == Spi(RDID, \h20, \hBB21, 131072, 256, 1700, 2000,
  <<E("21", 4096, 32768), E("20", 4096, 32768), E("dc", 65536, 2048), E("d8", 65536, 2048),
    E("c4", 33554432, 4)>>)
N25Q00A_3G == Spi(RDID, \h20, \hBA21, 131072, 256, 2700, 3600,
  <<E("21", 4096, 32768), E("20", 4096, 32768), E("dc", 65536, 2048), E("d8", 65536, 2048),
    E("c4", 33554432, 4)>>)
N25Q016 == Spi(RDID, \h20, \hBB15, 2048, 256, 1700, 2000,
  <<E("20", 4096, 512), E("52", 32768, 64), E("d8", 65536, 32), E("c7", 2097152, 1)>>)
N25Q032_1E == Spi(RDID, \h20, \hBB16, 4096, 256, 1700, 2000,
  <<E("20", 4096, 1024), E("d8", 65536, 64), E("c7", 4194304, 1)>>)
N25Q032_3E == Spi(RDID, \h20, \hBA16, 4096, 256, 2700, 3600,
  <<E("20", 4096, 1024), E("d8", 65536, 64), E("c7", 4194304, 1)>>)
N25Q064_1E == Spi(RDID, \h20, \hBB17, 8192, 256, 1700, 2000,
  <<E("20", 4096, 2048), E("d8", 65536, 128), E("c7", 8388608, 1)>>)
N25Q064_3E == Spi(RDID, \h20, \hBA17, 8192, 256, 2700, 3600,
  <<E("20", 4096, 2048), E("d8", 65536, 128), E("c7", 8388608, 1)>>)
N25Q128_1E == Spi(RDID, \h20, \hBB18, 16384, 256, 1700, 2000,
  <<E("20", 4096, 4096), E("d8", 65536, 256), E("c7", 16777216, 1)>>)
N25Q128_3E == Spi(RDID, \h20, \hBA18, 16384, 256, 2700, 3600,
  <<E("20", 4096, 4096), E("d8", 65536, 256), E("c7", 16777216, 1)>>)
N25Q256_1E == Spi(RDID, \h20, \hBB19, 32768, 256, 1700, 2000,
  <<E("21", 4096, 8192), E("20", 4096, 8192), E("dc", 65536, 512), E("d8", 65536, 512), E("c7", 33554432, 1)>>)
N25Q256_3E == Spi(RDID, \h20, \hBA19, 32768, 256, 2700, 3600,
  <<E("21", 4096, 8192), E("20", 4096, 8192), E("dc", 65536, 512), E("d8", 65536, 512), E("c7", 33554432, 1)>>)
N25Q512_1G == Spi(RDID, \h20, \hBB20, 65536, 256, 1700, 2000,
  <<E("21", 4096, 16384), E("20", 4096, 16384), E("dc", 65536, 1024), E("d8", 65536, 1024),
    E("c4", 33554432, 2)>>)
N25Q512_3G == Spi(RDID, \h20, \hBA20, 65536, 256, 2700, 3600,
  <<E("21", 4096, 16384), E("20", 4096, 16384), E("dc", 65536, 1024), E("d8", 65536, 1024),
    E("c4", 33554432, 2)>>)
MT25QL01G == Spi(RDID, \h20, \hBA21, 131072, 256, 2700, 3600,
  <<E("21", 4096, 32768), E("20", 4096, 32768), E("5c", 32768, 4096), E("52", 32768, 4096),
    E("dc", 65536, 2048), E("d8", 65536, 2048), E("c4", 67108864, 2)>>)
MT25QU01G == Spi(RDID, \h20, \hBB21, 131072, 256, 1700, 2000,
  <<E("21", 4096, 32768), E("20", 4096, 32768), E("5c", 32768, 4096), E("52", 32768, 4096),
    E("dc", 65536, 2048), E("d8", 65536, 2048), E("c4", 67108864, 2)>>)
MT25QL02G == Spi(RDID, \h20, \hBA22, 262144, 256, 2700, 3600,
  <<E("21", 4096, 65536), E("20", 4096, 65536), E("5c", 32768, 8192), E("52", 32768, 8192),
    E("dc", 65536, 4096), E("d8", 65536, 4096), E("c4", 67108864, 4)>>)
MT25QU02G == Spi(RDID, \h20, \hBB22, 262144, 256, 1700, 2000,
  <<E("21", 4096, 65536), E("20", 4096, 65536), E("5c", 32768, 8192), E("52", 32768, 8192),
    E("dc", 65536, 4096), E("d8", 65536, 4096), E("c4", 67108864, 4)>>)
MT25QU128 == Spi(RDID, \h20, \hBB18, 16384, 256, 1700, 2000,
  <<E("20", 4096, 4096), E("52", 32768, 512), E("d8", 65536, 256), E("c7", 16777216, 1),
    E("60", 16777216, 1)>>)
MT25QL128 == Spi(RDID, \h20, \hBA18, 16384, 256, 2700, 3600,
  <<E("20", 4096, 4096), E("52", 32768, 512), E("d8", 65536, 256), E("c7", 16777216, 1),
    E("60", 16777216, 1)>>)
MT25QL256 == Spi(RDID, \h20, \hBA19, 32768, 256, 2700, 3600,
  <<E("21", 4096, 8192), E("20", 4096, 8192), E("5c", 32768, 1024), E("52", 32768, 1024),
    E("dc", 65536, 512), E("d8", 65536, 512), E("c7", 33554432, 1), E("60", 33554432, 1)>>)
MT25QU256 == Spi(RDID, \h20, \hBB19, 32768, 256, 1700, 2000,
  <<E("21", 4096, 8192), E("20", 4096, 8192), E("5c", 32768, 1024), E("52", 32768, 1024),
    E("dc", 65536, 512), E("d8", 65536, 512), E("c7", 33554432, 1), E("60", 33554432, 1)>>)
MT25QL512 == Spi(RDID, \h20, \hBA20, 65536, 256, 2700, 3600,
  <<E("21", 4096, 16384), E("20", 4096, 16384), E("5c", 32768, 2048), E("52", 32768, 2048),
    E("dc", 65536, 1024), E("d8", 65536, 1024), E("c7", 67108864, 1), E("60", 67108864, 1)>>)
MT25QU512 == Spi(RDID, \h20, \hBB20, 65536, 256, 1700, 2000,
  <<E("21", 4096, 16384), E("20", 4096, 16384), E("5c", 32768, 2048), E("52", 32768, 2048),
    E("dc", 65536, 1024), E("d8", 65536, 1024), E("c7", 67108864, 1), E("60", 67108864, 1)>>)

GigaDeviceToMicron == <<
  GD25LF80E, GD25LF16E, GD25LF32E, GD25LF64E, GD25LF128E, GD25LQ128C_GD25LQ128D_GD25LQ128E,
  GD25LQ16, GD25LQ20, GD25LQ256D_GD25LE256D_GD25LB256D_G, GD25LQ256H_GD25LE256H_GD25LB256F,
  GD25LE255E, GD25LB256E_GD25LR256E, GD25LQ32, GD25LQ40, GD25LQ64_B, GD25LQ80,
  GD25LB512ME_GD25LR512ME, GD25LB512MF_GD25LR512MF, GD55LB01GE, GD55LB01GF, GD55LB02GE, GD55LB02GF,
  GD25Q10, GD25Q127C_GD25B127D, GD25Q128B_GD25B128B, GD25Q128C, GD25Q128E_GD25B128E_GD25R128E_GD25,
  GD25Q16_B, GD25Q20_B, GD25Q256D_GD25B256D_GD25R256D, GD25Q257D_GD25B257D,
  GD25Q256E_GD25B256E_GD25R256E, GD25Q32_B, GD25Q40_B, GD25Q512, GD25Q64_B, GD25Q80_B,
  GD25B512ME_GD25R512ME, GD25B512MF_GD25R512MF, GD55B01GE, GD55B01GF, GD55B02GE, GD55B02GF, GD25T80,
  GD25VQ16C, GD25VQ21B, GD25VQ40C, GD25VQ41B, GD25VQ80C, GD25WQ80E, HY29F002B, HY29F002T, HY29F040A,
  IS25LP064, IS25LP128, IS25LP256, IS25WP032, IS25WP064, IS25WP128, IS25WP256, IS29GL064B,
  IS29GL064_H_L, IS29GL064T, IS29GL128_H_L, Intel_25F160S33B8, Intel_25F160S33T8, Intel_25F320S33B8,
  Intel_25F320S33T8, Intel_25F640S33B8, Intel_25F640S33T8, Intel_28F001_BN_BX_B,
  Intel_28F001_BN_BX_T, Intel_28F002_BC_BL_BV_BX_T, Intel_28F004_B5_BE_BV_BX_B,
  Intel_28F004_B5_BE_BV_BX_T, Intel_28F008_S3_S5_SC, Intel_28F400_BV_BX_CE_CV_B,
  Intel_28F400_BV_BX_CE_CV_T, Intel_82802AB, Intel_82802AC, MX23L12854, MX23L1654, MX23L3254,
  MX23L6454, MX25L1005_C_MX25L1006E, MX25L12805D, MX25L12833F_MX25L12835F_MX25L12845, MX25L1605,
  MX25L1605A_MX25L1606E_MX25L1608E, MX25L1605D_MX25L1608D_MX25L1673E, MX25L1635D, MX25L1635E,
  MX25L2005_C_MX25L2006E, MX25L25635F_MX25L25645G, MX25L3205_A, MX25L3205D_MX25L3208D,
  MX25L3206E_MX25L3208E, MX25L3235D, MX25L3233F_MX25L3273E, MX25L4005_A_C_MX25L4006E,
  MX25L512_E_MX25V512_C, MX25L5121E, MX25L6405, MX25L6405D, MX25L6406E_MX25L6408E,
  MX25L6436E_MX25L6445E_MX25L6465E_M, MX25L6495F, MX25L8005_MX25L8006E_MX25L8008E_MX, MX25R3235F,
  MX25R6435F, MX25U12835F, MX25U1635E, MX25U25635F, MX25U3235_E_F, MX25U51245G, MX25U6435_E_F,
  MX25U8032E, MX29F001B, MX29F001T, MX29F002_N_B, MX29F002_N_T, MX29F022_N_B, MX29F022_N_T,
  MX29F040, MX29GL128F, MX29GL320EB, MX29GL320E_H_L, MX29GL320ET, MX29GL640EB, MX29GL640E_H_L,
  MX29GL640ET, MX29LV040, MX66L51235F_MX25L51245G, MX66L1G45G, Microchip_25LC080, Microchip_25LC016,
  Microchip_25LC032, Microchip_25LC064, Microchip_25LC128, Microchip_25LC256, Microchip_25LC512,
  Microchip_25LC1024, M25P05, M25P05_A, M25P10, M25P10_A, M25P128, M25P16, M25P20, M25P20_old,
  M25P32, M25P40, M25P40_old, M25P64, M25P80, M25PE10, M25PE16, M25PE20, M25PE40, M25PE80, M25PX16,
  M25PX32, M25PX64, M25PX80, M45PE10, M45PE16, M45PE20, M45PE40, M45PE80, N25Q00A_1G, N25Q00A_3G,
  N25Q016, N25Q032_1E, N25Q032_3E, N25Q064_1E, N25Q064_3E, N25Q128_1E, N25Q128_3E, N25Q256_1E,
  N25Q256_3E, N25Q512_1G, N25Q512_3G, MT25QL01G, MT25QU01G, MT25QL02G, MT25QU02G, MT25QU128,
  MT25QL128, MT25QL256, MT25QU256, MT25QL512, MT25QU512>>

=============================================================================
