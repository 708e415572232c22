-------------------------------- MODULE Aes ---------------------------------
(***************************************************************************)
(* The AES block cipher of aes/mbedtls/library/aes.c: the tables, made by  *)
(* aes_gen_tables or taken from ROM (MBEDTLS_AES_ROM_TABLES), the key      *)
(* schedules, the rounds by table lookup and mbedtls_aes_crypt_ecb.        *)
(* A context is the record [nr, rk]: the number of rounds and the round    *)
(* keys in ctx->buf (rk always points to its start).  Words are sequences  *)
(* of four bytes, blocks sequences of 16.  The hardware variants (PadLock, *)
(* AES-NI) are not compiled in.                                            *)
(***************************************************************************)
EXTENDS Bytes, CipherReference

\* Tables ------------------------------------------------------------------

XTIME(x) == IF x < 128 THEN 2 * x ELSE Xor(2 * x - 256, 27)

\* pow and log of the field, for the generator 3.  The loop writes log[1] twice; the last value, 255, stays.
pow == LET step(p, i) == Append(p, Xor(p[i], XTIME(p[i]))) IN Loop(step, <<1>>, 255, Seq(Byte))
log == Table([x \in Byte |-> IF x = 0 THEN 0 ELSE CHOOSE i \in 1..255 : Entry(pow, i) = x])
MUL(x, y) == IF x # 0 /\ y # 0 THEN Entry(pow, (Entry(log, x) + Entry(log, y)) % 255) ELSE 0

RCON == LET step(x, i) == Append(x, XTIME(x[i])) IN Loop(step, <<1>>, 9, Seq(Byte))

\* The S-box and its inverse.
SubByte(x) ==
  LET rol(n) == ((x * 2^n) % 256) + (x \div 2^(8 - n)) IN Xor(Xor(Xor(x, rol(1)), Xor(rol(2), rol(3))), Xor(rol(4), 99))
FSb == Table([i \in Byte |-> IF i = 0 THEN 99 ELSE SubByte(Entry(pow, 255 - Entry(log, i)))])
RSb == Table([x \in Byte |-> CHOOSE i \in Byte : Entry(FSb, i) = x])

\* A word rotated by one byte.
ROTL8(w) == <<w[4], w[1], w[2], w[3]>>

\* FT[k + 1] is tables.FTk, RT[k + 1] is tables.RTk.
Rotations(T0) ==
  Loop(LAMBDA ts, k : Append(ts, Table([i \in Byte |-> ROTL8(Entry(ts[k], i))])), <<T0>>, 3, Seq(Seq(Seq(Byte))))
ForwardWord(x) == <<XTIME(x), x, x, Xor(XTIME(x), x)>>
ReverseWord(x) == Buffer(4, [k \in 1..4 |-> MUL(<<14, 9, 13, 11>>[k], x)])
FT == Rotations(Table([i \in Byte |-> ForwardWord(Entry(FSb, i))]))
RT == Rotations(Table([i \in Byte |-> ReverseWord(Entry(RSb, i))]))

\* The tables in ROM, as they are written out in the source.  In RomFT and RomRT, four bytes are the a, b, c, d
\* of one V(a,b,c,d); RomWord is the word 0x##a##b##c##d, and the other three V are that word rotated.
RomWord(bytes, i) == <<bytes[4*i + 4], bytes[4*i + 3], bytes[4*i + 2], bytes[4*i + 1]>>
RomTables(bytes) == Rotations(Table([i \in Byte |-> RomWord(bytes, i)]))
RomRCON == <<\h01,\h02,\h04,\h08,\h10,\h20,\h40,\h80,\h1B,\h36>>
RomFSb == <<
  \h63,\h7C,\h77,\h7B,\hF2,\h6B,\h6F,\hC5,\h30,\h01,\h67,\h2B,\hFE,\hD7,\hAB,\h76,\hCA,\h82,\hC9,\h7D,\hFA,\h59,\h47,\hF0,\hAD,\hD4,\hA2,\hAF,\h9C,\hA4,\h72,\hC0,
  \hB7,\hFD,\h93,\h26,\h36,\h3F,\hF7,\hCC,\h34,\hA5,\hE5,\hF1,\h71,\hD8,\h31,\h15,\h04,\hC7,\h23,\hC3,\h18,\h96,\h05,\h9A,\h07,\h12,\h80,\hE2,\hEB,\h27,\hB2,\h75,
  \h09,\h83,\h2C,\h1A,\h1B,\h6E,\h5A,\hA0,\h52,\h3B,\hD6,\hB3,\h29,\hE3,\h2F,\h84,\h53,\hD1,\h00,\hED,\h20,\hFC,\hB1,\h5B,\h6A,\hCB,\hBE,\h39,\h4A,\h4C,\h58,\hCF,
  \hD0,\hEF,\hAA,\hFB,\h43,\h4D,\h33,\h85,\h45,\hF9,\h02,\h7F,\h50,\h3C,\h9F,\hA8,\h51,\hA3,\h40,\h8F,\h92,\h9D,\h38,\hF5,\hBC,\hB6,\hDA,\h21,\h10,\hFF,\hF3,\hD2,
  \hCD,\h0C,\h13,\hEC,\h5F,\h97,\h44,\h17,\hC4,\hA7,\h7E,\h3D,\h64,\h5D,\h19,\h73,\h60,\h81,\h4F,\hDC,\h22,\h2A,\h90,\h88,\h46,\hEE,\hB8,\h14,\hDE,\h5E,\h0B,\hDB,
  \hE0,\h32,\h3A,\h0A,\h49,\h06,\h24,\h5C,\hC2,\hD3,\hAC,\h62,\h91,\h95,\hE4,\h79,\hE7,\hC8,\h37,\h6D,\h8D,\hD5,\h4E,\hA9,\h6C,\h56,\hF4,\hEA,\h65,\h7A,\hAE,\h08,
  \hBA,\h78,\h25,\h2E,\h1C,\hA6,\hB4,\hC6,\hE8,\hDD,\h74,\h1F,\h4B,\hBD,\h8B,\h8A,\h70,\h3E,\hB5,\h66,\h48,\h03,\hF6,\h0E,\h61,\h35,\h57,\hB9,\h86,\hC1,\h1D,\h9E,
  \hE1,\hF8,\h98,\h11,\h69,\hD9,\h8E,\h94,\h9B,\h1E,\h87,\hE9,\hCE,\h55,\h28,\hDF,\h8C,\hA1,\h89,\h0D,\hBF,\hE6,\h42,\h68,\h41,\h99,\h2D,\h0F,\hB0,\h54,\hBB,\h16>>
RomRSb == <<
  \h52,\h09,\h6A,\hD5,\h30,\h36,\hA5,\h38,\hBF,\h40,\hA3,\h9E,\h81,\hF3,\hD7,\hFB,\h7C,\hE3,\h39,\h82,\h9B,\h2F,\hFF,\h87,\h34,\h8E,\h43,\h44,\hC4,\hDE,\hE9,\hCB,
  \h54,\h7B,\h94,\h32,\hA6,\hC2,\h23,\h3D,\hEE,\h4C,\h95,\h0B,\h42,\hFA,\hC3,\h4E,\h08,\h2E,\hA1,\h66,\h28,\hD9,\h24,\hB2,\h76,\h5B,\hA2,\h49,\h6D,\h8B,\hD1,\h25,
  \h72,\hF8,\hF6,\h64,\h86,\h68,\h98,\h16,\hD4,\hA4,\h5C,\hCC,\h5D,\h65,\hB6,\h92,\h6C,\h70,\h48,\h50,\hFD,\hED,\hB9,\hDA,\h5E,\h15,\h46,\h57,\hA7,\h8D,\h9D,\h84,
  \h90,\hD8,\hAB,\h00,\h8C,\hBC,\hD3,\h0A,\hF7,\hE4,\h58,\h05,\hB8,\hB3,\h45,\h06,\hD0,\h2C,\h1E,\h8F,\hCA,\h3F,\h0F,\h02,\hC1,\hAF,\hBD,\h03,\h01,\h13,\h8A,\h6B,
  \h3A,\h91,\h11,\h41,\h4F,\h67,\hDC,\hEA,\h97,\hF2,\hCF,\hCE,\hF0,\hB4,\hE6,\h73,\h96,\hAC,\h74,\h22,\hE7,\hAD,\h35,\h85,\hE2,\hF9,\h37,\hE8,\h1C,\h75,\hDF,\h6E,
  \h47,\hF1,\h1A,\h71,\h1D,\h29,\hC5,\h89,\h6F,\hB7,\h62,\h0E,\hAA,\h18,\hBE,\h1B,\hFC,\h56,\h3E,\h4B,\hC6,\hD2,\h79,\h20,\h9A,\hDB,\hC0,\hFE,\h78,\hCD,\h5A,\hF4,
  \h1F,\hDD,\hA8,\h33,\h88,\h07,\hC7,\h31,\hB1,\h12,\h10,\h59,\h27,\h80,\hEC,\h5F,\h60,\h51,\h7F,\hA9,\h19,\hB5,\h4A,\h0D,\h2D,\hE5,\h7A,\h9F,\h93,\hC9,\h9C,\hEF,
  \hA0,\hE0,\h3B,\h4D,\hAE,\h2A,\hF5,\hB0,\hC8,\hEB,\hBB,\h3C,\h83,\h53,\h99,\h61,\h17,\h2B,\h04,\h7E,\hBA,\h77,\hD6,\h26,\hE1,\h69,\h14,\h63,\h55,\h21,\h0C,\h7D>>
RomFT == RomTables(<<
  \hA5,\h63,\h63,\hC6,\h84,\h7C,\h7C,\hF8,\h99,\h77,\h77,\hEE,\h8D,\h7B,\h7B,\hF6,\h0D,\hF2,\hF2,\hFF,\hBD,\h6B,\h6B,\hD6,\hB1,\h6F,\h6F,\hDE,\h54,\hC5,\hC5,\h91,
  \h50,\h30,\h30,\h60,\h03,\h01,\h01,\h02,\hA9,\h67,\h67,\hCE,\h7D,\h2B,\h2B,\h56,\h19,\hFE,\hFE,\hE7,\h62,\hD7,\hD7,\hB5,\hE6,\hAB,\hAB,\h4D,\h9A,\h76,\h76,\hEC,
  \h45,\hCA,\hCA,\h8F,\h9D,\h82,\h82,\h1F,\h40,\hC9,\hC9,\h89,\h87,\h7D,\h7D,\hFA,\h15,\hFA,\hFA,\hEF,\hEB,\h59,\h59,\hB2,\hC9,\h47,\h47,\h8E,\h0B,\hF0,\hF0,\hFB,
  \hEC,\hAD,\hAD,\h41,\h67,\hD4,\hD4,\hB3,\hFD,\hA2,\hA2,\h5F,\hEA,\hAF,\hAF,\h45,\hBF,\h9C,\h9C,\h23,\hF7,\hA4,\hA4,\h53,\h96,\h72,\h72,\hE4,\h5B,\hC0,\hC0,\h9B,
  \hC2,\hB7,\hB7,\h75,\h1C,\hFD,\hFD,\hE1,\hAE,\h93,\h93,\h3D,\h6A,\h26,\h26,\h4C,\h5A,\h36,\h36,\h6C,\h41,\h3F,\h3F,\h7E,\h02,\hF7,\hF7,\hF5,\h4F,\hCC,\hCC,\h83,
  \h5C,\h34,\h34,\h68,\hF4,\hA5,\hA5,\h51,\h34,\hE5,\hE5,\hD1,\h08,\hF1,\hF1,\hF9,\h93,\h71,\h71,\hE2,\h73,\hD8,\hD8,\hAB,\h53,\h31,\h31,\h62,\h3F,\h15,\h15,\h2A,
  \h0C,\h04,\h04,\h08,\h52,\hC7,\hC7,\h95,\h65,\h23,\h23,\h46,\h5E,\hC3,\hC3,\h9D,\h28,\h18,\h18,\h30,\hA1,\h96,\h96,\h37,\h0F,\h05,\h05,\h0A,\hB5,\h9A,\h9A,\h2F,
  \h09,\h07,\h07,\h0E,\h36,\h12,\h12,\h24,\h9B,\h80,\h80,\h1B,\h3D,\hE2,\hE2,\hDF,\h26,\hEB,\hEB,\hCD,\h69,\h27,\h27,\h4E,\hCD,\hB2,\hB2,\h7F,\h9F,\h75,\h75,\hEA,
  \h1B,\h09,\h09,\h12,\h9E,\h83,\h83,\h1D,\h74,\h2C,\h2C,\h58,\h2E,\h1A,\h1A,\h34,\h2D,\h1B,\h1B,\h36,\hB2,\h6E,\h6E,\hDC,\hEE,\h5A,\h5A,\hB4,\hFB,\hA0,\hA0,\h5B,
  \hF6,\h52,\h52,\hA4,\h4D,\h3B,\h3B,\h76,\h61,\hD6,\hD6,\hB7,\hCE,\hB3,\hB3,\h7D,\h7B,\h29,\h29,\h52,\h3E,\hE3,\hE3,\hDD,\h71,\h2F,\h2F,\h5E,\h97,\h84,\h84,\h13,
  \hF5,\h53,\h53,\hA6,\h68,\hD1,\hD1,\hB9,\h00,\h00,\h00,\h00,\h2C,\hED,\hED,\hC1,\h60,\h20,\h20,\h40,\h1F,\hFC,\hFC,\hE3,\hC8,\hB1,\hB1,\h79,\hED,\h5B,\h5B,\hB6,
  \hBE,\h6A,\h6A,\hD4,\h46,\hCB,\hCB,\h8D,\hD9,\hBE,\hBE,\h67,\h4B,\h39,\h39,\h72,\hDE,\h4A,\h4A,\h94,\hD4,\h4C,\h4C,\h98,\hE8,\h58,\h58,\hB0,\h4A,\hCF,\hCF,\h85,
  \h6B,\hD0,\hD0,\hBB,\h2A,\hEF,\hEF,\hC5,\hE5,\hAA,\hAA,\h4F,\h16,\hFB,\hFB,\hED,\hC5,\h43,\h43,\h86,\hD7,\h4D,\h4D,\h9A,\h55,\h33,\h33,\h66,\h94,\h85,\h85,\h11,
  \hCF,\h45,\h45,\h8A,\h10,\hF9,\hF9,\hE9,\h06,\h02,\h02,\h04,\h81,\h7F,\h7F,\hFE,\hF0,\h50,\h50,\hA0,\h44,\h3C,\h3C,\h78,\hBA,\h9F,\h9F,\h25,\hE3,\hA8,\hA8,\h4B,
  \hF3,\h51,\h51,\hA2,\hFE,\hA3,\hA3,\h5D,\hC0,\h40,\h40,\h80,\h8A,\h8F,\h8F,\h05,\hAD,\h92,\h92,\h3F,\hBC,\h9D,\h9D,\h21,\h48,\h38,\h38,\h70,\h04,\hF5,\hF5,\hF1,
  \hDF,\hBC,\hBC,\h63,\hC1,\hB6,\hB6,\h77,\h75,\hDA,\hDA,\hAF,\h63,\h21,\h21,\h42,\h30,\h10,\h10,\h20,\h1A,\hFF,\hFF,\hE5,\h0E,\hF3,\hF3,\hFD,\h6D,\hD2,\hD2,\hBF,
  \h4C,\hCD,\hCD,\h81,\h14,\h0C,\h0C,\h18,\h35,\h13,\h13,\h26,\h2F,\hEC,\hEC,\hC3,\hE1,\h5F,\h5F,\hBE,\hA2,\h97,\h97,\h35,\hCC,\h44,\h44,\h88,\h39,\h17,\h17,\h2E,
  \h57,\hC4,\hC4,\h93,\hF2,\hA7,\hA7,\h55,\h82,\h7E,\h7E,\hFC,\h47,\h3D,\h3D,\h7A,\hAC,\h64,\h64,\hC8,\hE7,\h5D,\h5D,\hBA,\h2B,\h19,\h19,\h32,\h95,\h73,\h73,\hE6,
  \hA0,\h60,\h60,\hC0,\h98,\h81,\h81,\h19,\hD1,\h4F,\h4F,\h9E,\h7F,\hDC,\hDC,\hA3,\h66,\h22,\h22,\h44,\h7E,\h2A,\h2A,\h54,\hAB,\h90,\h90,\h3B,\h83,\h88,\h88,\h0B,
  \hCA,\h46,\h46,\h8C,\h29,\hEE,\hEE,\hC7,\hD3,\hB8,\hB8,\h6B,\h3C,\h14,\h14,\h28,\h79,\hDE,\hDE,\hA7,\hE2,\h5E,\h5E,\hBC,\h1D,\h0B,\h0B,\h16,\h76,\hDB,\hDB,\hAD,
  \h3B,\hE0,\hE0,\hDB,\h56,\h32,\h32,\h64,\h4E,\h3A,\h3A,\h74,\h1E,\h0A,\h0A,\h14,\hDB,\h49,\h49,\h92,\h0A,\h06,\h06,\h0C,\h6C,\h24,\h24,\h48,\hE4,\h5C,\h5C,\hB8,
  \h5D,\hC2,\hC2,\h9F,\h6E,\hD3,\hD3,\hBD,\hEF,\hAC,\hAC,\h43,\hA6,\h62,\h62,\hC4,\hA8,\h91,\h91,\h39,\hA4,\h95,\h95,\h31,\h37,\hE4,\hE4,\hD3,\h8B,\h79,\h79,\hF2,
  \h32,\hE7,\hE7,\hD5,\h43,\hC8,\hC8,\h8B,\h59,\h37,\h37,\h6E,\hB7,\h6D,\h6D,\hDA,\h8C,\h8D,\h8D,\h01,\h64,\hD5,\hD5,\hB1,\hD2,\h4E,\h4E,\h9C,\hE0,\hA9,\hA9,\h49,
  \hB4,\h6C,\h6C,\hD8,\hFA,\h56,\h56,\hAC,\h07,\hF4,\hF4,\hF3,\h25,\hEA,\hEA,\hCF,\hAF,\h65,\h65,\hCA,\h8E,\h7A,\h7A,\hF4,\hE9,\hAE,\hAE,\h47,\h18,\h08,\h08,\h10,
  \hD5,\hBA,\hBA,\h6F,\h88,\h78,\h78,\hF0,\h6F,\h25,\h25,\h4A,\h72,\h2E,\h2E,\h5C,\h24,\h1C,\h1C,\h38,\hF1,\hA6,\hA6,\h57,\hC7,\hB4,\hB4,\h73,\h51,\hC6,\hC6,\h97,
  \h23,\hE8,\hE8,\hCB,\h7C,\hDD,\hDD,\hA1,\h9C,\h74,\h74,\hE8,\h21,\h1F,\h1F,\h3E,\hDD,\h4B,\h4B,\h96,\hDC,\hBD,\hBD,\h61,\h86,\h8B,\h8B,\h0D,\h85,\h8A,\h8A,\h0F,
  \h90,\h70,\h70,\hE0,\h42,\h3E,\h3E,\h7C,\hC4,\hB5,\hB5,\h71,\hAA,\h66,\h66,\hCC,\hD8,\h48,\h48,\h90,\h05,\h03,\h03,\h06,\h01,\hF6,\hF6,\hF7,\h12,\h0E,\h0E,\h1C,
  \hA3,\h61,\h61,\hC2,\h5F,\h35,\h35,\h6A,\hF9,\h57,\h57,\hAE,\hD0,\hB9,\hB9,\h69,\h91,\h86,\h86,\h17,\h58,\hC1,\hC1,\h99,\h27,\h1D,\h1D,\h3A,\hB9,\h9E,\h9E,\h27,
  \h38,\hE1,\hE1,\hD9,\h13,\hF8,\hF8,\hEB,\hB3,\h98,\h98,\h2B,\h33,\h11,\h11,\h22,\hBB,\h69,\h69,\hD2,\h70,\hD9,\hD9,\hA9,\h89,\h8E,\h8E,\h07,\hA7,\h94,\h94,\h33,
  \hB6,\h9B,\h9B,\h2D,\h22,\h1E,\h1E,\h3C,\h92,\h87,\h87,\h15,\h20,\hE9,\hE9,\hC9,\h49,\hCE,\hCE,\h87,\hFF,\h55,\h55,\hAA,\h78,\h28,\h28,\h50,\h7A,\hDF,\hDF,\hA5,
  \h8F,\h8C,\h8C,\h03,\hF8,\hA1,\hA1,\h59,\h80,\h89,\h89,\h09,\h17,\h0D,\h0D,\h1A,\hDA,\hBF,\hBF,\h65,\h31,\hE6,\hE6,\hD7,\hC6,\h42,\h42,\h84,\hB8,\h68,\h68,\hD0,
  \hC3,\h41,\h41,\h82,\hB0,\h99,\h99,\h29,\h77,\h2D,\h2D,\h5A,\h11,\h0F,\h0F,\h1E,\hCB,\hB0,\hB0,\h7B,\hFC,\h54,\h54,\hA8,\hD6,\hBB,\hBB,\h6D,\h3A,\h16,\h16,\h2C>>)
RomRT == RomTables(<<
  \h50,\hA7,\hF4,\h51,\h53,\h65,\h41,\h7E,\hC3,\hA4,\h17,\h1A,\h96,\h5E,\h27,\h3A,\hCB,\h6B,\hAB,\h3B,\hF1,\h45,\h9D,\h1F,\hAB,\h58,\hFA,\hAC,\h93,\h03,\hE3,\h4B,
  \h55,\hFA,\h30,\h20,\hF6,\h6D,\h76,\hAD,\h91,\h76,\hCC,\h88,\h25,\h4C,\h02,\hF5,\hFC,\hD7,\hE5,\h4F,\hD7,\hCB,\h2A,\hC5,\h80,\h44,\h35,\h26,\h8F,\hA3,\h62,\hB5,
  \h49,\h5A,\hB1,\hDE,\h67,\h1B,\hBA,\h25,\h98,\h0E,\hEA,\h45,\hE1,\hC0,\hFE,\h5D,\h02,\h75,\h2F,\hC3,\h12,\hF0,\h4C,\h81,\hA3,\h97,\h46,\h8D,\hC6,\hF9,\hD3,\h6B,
  \hE7,\h5F,\h8F,\h03,\h95,\h9C,\h92,\h15,\hEB,\h7A,\h6D,\hBF,\hDA,\h59,\h52,\h95,\h2D,\h83,\hBE,\hD4,\hD3,\h21,\h74,\h58,\h29,\h69,\hE0,\h49,\h44,\hC8,\hC9,\h8E,
  \h6A,\h89,\hC2,\h75,\h78,\h79,\h8E,\hF4,\h6B,\h3E,\h58,\h99,\hDD,\h71,\hB9,\h27,\hB6,\h4F,\hE1,\hBE,\h17,\hAD,\h88,\hF0,\h66,\hAC,\h20,\hC9,\hB4,\h3A,\hCE,\h7D,
  \h18,\h4A,\hDF,\h63,\h82,\h31,\h1A,\hE5,\h60,\h33,\h51,\h97,\h45,\h7F,\h53,\h62,\hE0,\h77,\h64,\hB1,\h84,\hAE,\h6B,\hBB,\h1C,\hA0,\h81,\hFE,\h94,\h2B,\h08,\hF9,
  \h58,\h68,\h48,\h70,\h19,\hFD,\h45,\h8F,\h87,\h6C,\hDE,\h94,\hB7,\hF8,\h7B,\h52,\h23,\hD3,\h73,\hAB,\hE2,\h02,\h4B,\h72,\h57,\h8F,\h1F,\hE3,\h2A,\hAB,\h55,\h66,
  \h07,\h28,\hEB,\hB2,\h03,\hC2,\hB5,\h2F,\h9A,\h7B,\hC5,\h86,\hA5,\h08,\h37,\hD3,\hF2,\h87,\h28,\h30,\hB2,\hA5,\hBF,\h23,\hBA,\h6A,\h03,\h02,\h5C,\h82,\h16,\hED,
  \h2B,\h1C,\hCF,\h8A,\h92,\hB4,\h79,\hA7,\hF0,\hF2,\h07,\hF3,\hA1,\hE2,\h69,\h4E,\hCD,\hF4,\hDA,\h65,\hD5,\hBE,\h05,\h06,\h1F,\h62,\h34,\hD1,\h8A,\hFE,\hA6,\hC4,
  \h9D,\h53,\h2E,\h34,\hA0,\h55,\hF3,\hA2,\h32,\hE1,\h8A,\h05,\h75,\hEB,\hF6,\hA4,\h39,\hEC,\h83,\h0B,\hAA,\hEF,\h60,\h40,\h06,\h9F,\h71,\h5E,\h51,\h10,\h6E,\hBD,
  \hF9,\h8A,\h21,\h3E,\h3D,\h06,\hDD,\h96,\hAE,\h05,\h3E,\hDD,\h46,\hBD,\hE6,\h4D,\hB5,\h8D,\h54,\h91,\h05,\h5D,\hC4,\h71,\h6F,\hD4,\h06,\h04,\hFF,\h15,\h50,\h60,
  \h24,\hFB,\h98,\h19,\h97,\hE9,\hBD,\hD6,\hCC,\h43,\h40,\h89,\h77,\h9E,\hD9,\h67,\hBD,\h42,\hE8,\hB0,\h88,\h8B,\h89,\h07,\h38,\h5B,\h19,\hE7,\hDB,\hEE,\hC8,\h79,
  \h47,\h0A,\h7C,\hA1,\hE9,\h0F,\h42,\h7C,\hC9,\h1E,\h84,\hF8,\h00,\h00,\h00,\h00,\h83,\h86,\h80,\h09,\h48,\hED,\h2B,\h32,\hAC,\h70,\h11,\h1E,\h4E,\h72,\h5A,\h6C,
  \hFB,\hFF,\h0E,\hFD,\h56,\h38,\h85,\h0F,\h1E,\hD5,\hAE,\h3D,\h27,\h39,\h2D,\h36,\h64,\hD9,\h0F,\h0A,\h21,\hA6,\h5C,\h68,\hD1,\h54,\h5B,\h9B,\h3A,\h2E,\h36,\h24,
  \hB1,\h67,\h0A,\h0C,\h0F,\hE7,\h57,\h93,\hD2,\h96,\hEE,\hB4,\h9E,\h91,\h9B,\h1B,\h4F,\hC5,\hC0,\h80,\hA2,\h20,\hDC,\h61,\h69,\h4B,\h77,\h5A,\h16,\h1A,\h12,\h1C,
  \h0A,\hBA,\h93,\hE2,\hE5,\h2A,\hA0,\hC0,\h43,\hE0,\h22,\h3C,\h1D,\h17,\h1B,\h12,\h0B,\h0D,\h09,\h0E,\hAD,\hC7,\h8B,\hF2,\hB9,\hA8,\hB6,\h2D,\hC8,\hA9,\h1E,\h14,
  \h85,\h19,\hF1,\h57,\h4C,\h07,\h75,\hAF,\hBB,\hDD,\h99,\hEE,\hFD,\h60,\h7F,\hA3,\h9F,\h26,\h01,\hF7,\hBC,\hF5,\h72,\h5C,\hC5,\h3B,\h66,\h44,\h34,\h7E,\hFB,\h5B,
  \h76,\h29,\h43,\h8B,\hDC,\hC6,\h23,\hCB,\h68,\hFC,\hED,\hB6,\h63,\hF1,\hE4,\hB8,\hCA,\hDC,\h31,\hD7,\h10,\h85,\h63,\h42,\h40,\h22,\h97,\h13,\h20,\h11,\hC6,\h84,
  \h7D,\h24,\h4A,\h85,\hF8,\h3D,\hBB,\hD2,\h11,\h32,\hF9,\hAE,\h6D,\hA1,\h29,\hC7,\h4B,\h2F,\h9E,\h1D,\hF3,\h30,\hB2,\hDC,\hEC,\h52,\h86,\h0D,\hD0,\hE3,\hC1,\h77,
  \h6C,\h16,\hB3,\h2B,\h99,\hB9,\h70,\hA9,\hFA,\h48,\h94,\h11,\h22,\h64,\hE9,\h47,\hC4,\h8C,\hFC,\hA8,\h1A,\h3F,\hF0,\hA0,\hD8,\h2C,\h7D,\h56,\hEF,\h90,\h33,\h22,
  \hC7,\h4E,\h49,\h87,\hC1,\hD1,\h38,\hD9,\hFE,\hA2,\hCA,\h8C,\h36,\h0B,\hD4,\h98,\hCF,\h81,\hF5,\hA6,\h28,\hDE,\h7A,\hA5,\h26,\h8E,\hB7,\hDA,\hA4,\hBF,\hAD,\h3F,
  \hE4,\h9D,\h3A,\h2C,\h0D,\h92,\h78,\h50,\h9B,\hCC,\h5F,\h6A,\h62,\h46,\h7E,\h54,\hC2,\h13,\h8D,\hF6,\hE8,\hB8,\hD8,\h90,\h5E,\hF7,\h39,\h2E,\hF5,\hAF,\hC3,\h82,
  \hBE,\h80,\h5D,\h9F,\h7C,\h93,\hD0,\h69,\hA9,\h2D,\hD5,\h6F,\hB3,\h12,\h25,\hCF,\h3B,\h99,\hAC,\hC8,\hA7,\h7D,\h18,\h10,\h6E,\h63,\h9C,\hE8,\h7B,\hBB,\h3B,\hDB,
  \h09,\h78,\h26,\hCD,\hF4,\h18,\h59,\h6E,\h01,\hB7,\h9A,\hEC,\hA8,\h9A,\h4F,\h83,\h65,\h6E,\h95,\hE6,\h7E,\hE6,\hFF,\hAA,\h08,\hCF,\hBC,\h21,\hE6,\hE8,\h15,\hEF,
  \hD9,\h9B,\hE7,\hBA,\hCE,\h36,\h6F,\h4A,\hD4,\h09,\h9F,\hEA,\hD6,\h7C,\hB0,\h29,\hAF,\hB2,\hA4,\h31,\h31,\h23,\h3F,\h2A,\h30,\h94,\hA5,\hC6,\hC0,\h66,\hA2,\h35,
  \h37,\hBC,\h4E,\h74,\hA6,\hCA,\h82,\hFC,\hB0,\hD0,\h90,\hE0,\h15,\hD8,\hA7,\h33,\h4A,\h98,\h04,\hF1,\hF7,\hDA,\hEC,\h41,\h0E,\h50,\hCD,\h7F,\h2F,\hF6,\h91,\h17,
  \h8D,\hD6,\h4D,\h76,\h4D,\hB0,\hEF,\h43,\h54,\h4D,\hAA,\hCC,\hDF,\h04,\h96,\hE4,\hE3,\hB5,\hD1,\h9E,\h1B,\h88,\h6A,\h4C,\hB8,\h1F,\h2C,\hC1,\h7F,\h51,\h65,\h46,
  \h04,\hEA,\h5E,\h9D,\h5D,\h35,\h8C,\h01,\h73,\h74,\h87,\hFA,\h2E,\h41,\h0B,\hFB,\h5A,\h1D,\h67,\hB3,\h52,\hD2,\hDB,\h92,\h33,\h56,\h10,\hE9,\h13,\h47,\hD6,\h6D,
  \h8C,\h61,\hD7,\h9A,\h7A,\h0C,\hA1,\h37,\h8E,\h14,\hF8,\h59,\h89,\h3C,\h13,\hEB,\hEE,\h27,\hA9,\hCE,\h35,\hC9,\h61,\hB7,\hED,\hE5,\h1C,\hE1,\h3C,\hB1,\h47,\h7A,
  \h59,\hDF,\hD2,\h9C,\h3F,\h73,\hF2,\h55,\h79,\hCE,\h14,\h18,\hBF,\h37,\hC7,\h73,\hEA,\hCD,\hF7,\h53,\h5B,\hAA,\hFD,\h5F,\h14,\h6F,\h3D,\hDF,\h86,\hDB,\h44,\h78,
  \h81,\hF3,\hAF,\hCA,\h3E,\hC4,\h68,\hB9,\h2C,\h34,\h24,\h38,\h5F,\h40,\hA3,\hC2,\h72,\hC3,\h1D,\h16,\h0C,\h25,\hE2,\hBC,\h8B,\h49,\h3C,\h28,\h41,\h95,\h0D,\hFF,
  \h71,\h01,\hA8,\h39,\hDE,\hB3,\h0C,\h08,\h9C,\hE4,\hB4,\hD8,\h90,\hC1,\h56,\h64,\h61,\h84,\hCB,\h7B,\h70,\hB6,\h32,\hD5,\h74,\h5C,\h6C,\h48,\h42,\h57,\hB8,\hD0>>)

\* Key schedules -----------------------------------------------------------

\* mbedtls_aes_init (and mbedtls_aes_free, mbedtls_zeroize): all of the context is zero.  buf has 68 words.
ZeroCtx == [nr |-> 0, rk |-> Buffer(68, [i \in 1..68 |-> Zeros(4)])]

SubWord(w) == Buffer(4, [k \in 1..4 |-> Entry(FSb, w[k])])

\* One word of one round of the loop, the one after those in RK.
NextWord(RK, k) ==
  LET i == 7 + k
      sub(w) == CASE i % 8 = 0 -> WXor(<<RCON[i \div 8], 0, 0, 0>>, SubWord(Rest(w, 1) \o Prefix(w, 1)))
                  [] i % 8 = 4 -> SubWord(w)
                  [] OTHER -> w
  IN  Append(RK, WXor(RK[i - 7], sub(RK[i])))

\* mbedtls_aes_setkey_enc.  keybits only says how many words of the key are read: the schedule is always
\* that of a 256-bit key, and the words that were not read are those the context held before.
SetkeyEnc(ctx, key, keybits) ==
  LET read == keybits \div 32
      word(i) == IF i <= read /\ 4 * i <= Len(key) THEN SubSeq(key, 4 * i - 3, 4 * i) ELSE ctx.rk[i]
  IN  [nr |-> 14, rk |-> Loop(NextWord, Buffer(8, [k \in 1..8 |-> word(k)]), 56, Seq(Seq(Byte))) \o Rest(ctx.rk, 64)]

\* The word T0[b0] ^ T1[b1] ^ T2[b2] ^ T3[b3].
Lookup(T, b0, b1, b2, b3) == WXor(WXor(Entry(T[1], b0), Entry(T[2], b1)), WXor(Entry(T[3], b2), Entry(T[4], b3)))

\* mbedtls_aes_setkey_dec: the round keys backwards, all but the first and the last mixed.
Mixed(b) == Lookup(RT, b[1], b[2], b[3], b[4])
Inverted(ctx, cty) ==
  LET SK(i) == cty.rk[4 * (cty.nr - ((i - 1) \div 4)) + ((i - 1) % 4) + 1]
      RK(i) == IF i > 4 * cty.nr + 4 THEN ctx.rk[i]
               ELSE IF i \in 5 .. 4 * cty.nr THEN Mixed(SubWord(SK(i)))
               ELSE SK(i)
  IN  [nr |-> cty.nr, rk |-> Buffer(68, [i \in 1..68 |-> RK(i)])]
SetkeyDec(ctx, key, keybits) == Inverted(ctx, SetkeyEnc(ZeroCtx, key, keybits))

\* The rounds ---------------------------------------------------------------

\* The i-th word to the right of word k of X, around.
At(X, k, i) == X[((k + i - 1) % 4) + 1]

\* X is the sequence of the variables X0..X3 (or Y0..Y3), rk that of the four words that RK passes.
\* AES_FROUND and AES_RROUND.
FRound(X, rk) ==
  Buffer(4, [k \in 1..4 |-> WXor(rk[k], Lookup(FT, X[k][1], At(X, k, 1)[2], At(X, k, 2)[3], At(X, k, 3)[4]))])
RRound(X, rk) ==
  Buffer(4, [k \in 1..4 |-> WXor(rk[k], Lookup(RT, X[k][1], At(X, k, 3)[2], At(X, k, 2)[3], At(X, k, 1)[4]))])

\* The last round of mbedtls_aes_encrypt, and that of mbedtls_aes_decrypt: S-box only.
LastF(X, rk) ==
  Buffer(4, [k \in 1..4 |-> WXor(rk[k], Buffer(4, [j \in 1..4 |-> Entry(FSb, At(X, k, j - 1)[j])]))])
LastR(X, rk) ==
  Buffer(4, [k \in 1..4 |-> WXor(rk[k], Buffer(4, [j \in 1..4 |-> Entry(RSb, At(X, k, 5 - j)[j])]))])

\* All rounds, by step: the first key is added, nr - 1 rounds, and the last one.
ENCRYPT == 1
DECRYPT == 0
Joined(X) == X[1] \o X[2] \o X[3] \o X[4]
Rounds(ctx, input, step(_, _)) ==
  Joined(Loop(step, Buffer(4, [k \in 1..4 |-> WXor(SubSeq(input, 4 * k - 3, 4 * k), ctx.rk[k])]), ctx.nr, Seq(Seq(Byte))))
RoundKey(ctx, r) == SubSeq(ctx.rk, 4 * r + 1, 4 * r + 4)
Encrypt(ctx, input) ==
  Rounds(ctx, input, LAMBDA X, r : IF r < ctx.nr THEN FRound(X, RoundKey(ctx, r)) ELSE LastF(X, RoundKey(ctx, r)))
Decrypt(ctx, input) ==
  Rounds(ctx, input, LAMBDA X, r : IF r < ctx.nr THEN RRound(X, RoundKey(ctx, r)) ELSE LastR(X, RoundKey(ctx, r)))

\* mbedtls_aes_crypt_ecb.
CryptEcb(ctx, mode, input) == IF mode = ENCRYPT THEN Encrypt(ctx, input) ELSE Decrypt(ctx, input)

\* Modes --------------------------------------------------------------------
\* What a caller keeps between calls is io = [iv, off, stream]: iv or nonce_counter, iv_off or nc_off, and
\* stream_block.  A call returns it as it leaves it, with its result and its output.

INVALID_INPUT_LENGTH == -34

IoOut == [ret : Int, iv : Seq(Byte), off : Nat, stream : Seq(Byte), out : Seq(Byte)]
Start(io) == [ret |-> 0, iv |-> io.iv, off |-> io.off, stream |-> io.stream, out |-> <<>>]

\* mbedtls_aes_crypt_cbc: whole blocks only.
CbcBlock(ctx, mode, t, block) ==
  LET o == IF mode = DECRYPT THEN WXor(Decrypt(ctx, block), t.iv) ELSE Encrypt(ctx, WXor(block, t.iv))
      with(out) == [t EXCEPT !.iv = IF mode = DECRYPT THEN block ELSE out, !.out = @ \o out]
  IN  with(o)
CryptCbc(ctx, mode, io, input) ==
  IF Len(input) % 16 # 0 THEN [Start(io) EXCEPT !.ret = INVALID_INPUT_LENGTH]
  ELSE Loop(LAMBDA t, i : CbcBlock(ctx, mode, t, SubSeq(input, 16 * i - 15, 16 * i)), Start(io), Len(input) \div 16, IoOut)

\* mbedtls_aes_crypt_cfb128: one byte under the block of key stream in iv, of which the bytes before off are ciphertext.
Cfb128Byte(mode, t, byte, stream) ==
  LET o == Xor(stream[t.off + 1], byte)
  IN  [t EXCEPT !.iv = [stream EXCEPT ![t.off + 1] = IF mode = DECRYPT THEN byte ELSE o],
                !.off = (@ + 1) % 16, !.out = Append(@, o)]
CryptCfb128(ctx, mode, io, input) ==
  Loop(LAMBDA t, i : Cfb128Byte(mode, t, input[i], IF t.off = 0 THEN Encrypt(ctx, t.iv) ELSE t.iv),
       Start(io), Len(input), IoOut)

\* mbedtls_aes_crypt_cfb8: one block operation per byte, iv is shifted by a byte.
Cfb8Byte(mode, t, byte, o) ==
  [t EXCEPT !.iv = Append(Rest(@, 1), IF mode = DECRYPT THEN byte ELSE o), !.out = Append(@, o)]
CryptCfb8(ctx, mode, io, input) ==
  Loop(LAMBDA t, i : Cfb8Byte(mode, t, input[i], Xor(Encrypt(ctx, t.iv)[1], input[i])), Start(io), Len(input), IoOut)

\* A faulty variant: the carry is lost.
NextCounter_NoCarry(nonce) == [nonce EXCEPT ![16] = (@ + 1) % 256]

\* The counter of 16 bytes, most significant first, plus one.
NextCounter(nonce) ==
  LET last == {0} \cup {i \in 1..16 : nonce[i] # 255}       \* the byte at which the carry stops; 0: none
      stop == CHOOSE i \in last : \A j \in last : j <= i
  IN  Buffer(16, [i \in 1..16 |-> IF i < stop THEN nonce[i] ELSE (nonce[i] + 1) % 256])

\* mbedtls_aes_crypt_ctr.
CtrByte(t, byte, stream) ==
  [t EXCEPT !.iv = IF t.off = 0 THEN NextCounter(@) ELSE @, !.stream = stream,
            !.off = (@ + 1) % 16, !.out = Append(@, Xor(byte, stream[t.off + 1]))]
CryptCtr(ctx, io, input) ==
  Loop(LAMBDA t, i : CtrByte(t, input[i], IF t.off = 0 THEN Encrypt(ctx, t.iv) ELSE t.stream), Start(io), Len(input), IoOut)
-----------------------------------------------------------------------------
(* A sender that encrypts a message with aes.c, in as many calls and       *)
(* pieces as it likes, and a receiver that decrypts the ciphertext in      *)
(* pieces of its own.  What a call leaves in its caller's hands (iv,       *)
(* iv_off, nonce_counter, stream_block) is all that connects it to the     *)
(* next one.                                                               *)

CONSTANTS Keys,       \* keys of 32 bytes
          KeyBits,    \* the values of keybits in use
          Message,    \* the message, a sequence of bytes
          IVs,        \* initial values of iv and nonce_counter
          Pieces      \* lengths of the pieces

Modes == {"cbc", "cfb128", "cfb8", "ctr"}

VARIABLES method,       \* the mode in use
          side,       \* ENCRYPT while the sender works, then DECRYPT
          secret, bits, iv0,   \* the key, its length and the initial value that both sides know
          context,        \* the context: encryption keys, but for CBC decryption
          kept,         \* what the calls keep: iv or nonce_counter, offset and stream_block
          sent,       \* the ciphertext so far
          received    \* what the receiver has decrypted so far
aesVars == <<method, side, secret, bits, iv0, context, kept, sent, received>>

FreshIo(iv) == [iv |-> iv, off |-> 0, stream |-> Zeros(16)]

AesInit ==
  /\ method \in Modes /\ side = ENCRYPT
  /\ secret \in Keys /\ bits \in KeyBits /\ iv0 \in IVs
  /\ context = SetkeyEnc(ZeroCtx, secret, bits)
  /\ kept = FreshIo(iv0)
  /\ sent = <<>> /\ received = <<>>

\* The input that is left to the side at work.
Todo == IF side = ENCRYPT THEN Rest(Message, Len(sent)) ELSE Rest(sent, Len(received))

\* One call of the function of the mode with the first n bytes of the input.
Result(input) ==
  CASE method = "cbc"    -> CryptCbc(context, side, kept, input)
    [] method = "cfb128" -> CryptCfb128(context, side, kept, input)
    [] method = "cfb8"   -> CryptCfb8(context, side, kept, input)
    [] method = "ctr"    -> CryptCtr(context, kept, input)

Crypt(n) ==
  /\ n \in 0..Len(Todo)
  /\ \E r \in {Result(Prefix(Todo, n))} :
       /\ kept' = [iv |-> r.iv, off |-> r.off, stream |-> r.stream]
       /\ sent' = IF side = ENCRYPT THEN sent \o r.out ELSE sent
       /\ received' = IF side = DECRYPT THEN received \o r.out ELSE received
  /\ UNCHANGED <<method, side, secret, bits, iv0, context>>

\* The message is sent (CBC: its whole blocks), the receiver starts; it uses the context that was the sender's.
Turn ==
  /\ side = ENCRYPT
  /\ Todo = <<>> \/ (method = "cbc" /\ Len(Todo) < 16)
  /\ side' = DECRYPT
  /\ context' = IF method = "cbc" THEN SetkeyDec(context, secret, bits) ELSE SetkeyEnc(context, secret, bits)
  /\ kept' = FreshIo(iv0)
  /\ UNCHANGED <<method, secret, bits, iv0, sent, received>>

AesNext == Turn \/ \E n \in Pieces : Crypt(n)

-----------------------------------------------------------------------------
\* The tables that are generated are those in ROM (aes_gen_tables, lines 395-466, and FSBOX, RSBOX, RCONS, FT, RT).
TablesAgree == FSb = RomFSb /\ RSb = RomRSb /\ FT = RomFT /\ RT = RomRT /\ RCON = RomRCON

\* The table-driven rounds under either key schedule compute the cipher of the standard and its inverse,
\* on every block the session has seen (mbedtls_aes_setkey_enc, _setkey_dec, _encrypt, _decrypt).
CipherIsStandard ==
  LET w == KeyExpansion(Prefix(secret, bits \div 8))
      dec == SetkeyDec(ZeroCtx, secret, bits)
  IN  /\ side = ENCRYPT => Encrypt(context, kept.iv) = Cipher(w, kept.iv)
      /\ side = ENCRYPT => Decrypt(dec, kept.iv) = InvCipher(w, kept.iv)

\* However the message is cut into calls, the ciphertext is that of the mode's definition: no call
\* forgets or repeats a byte of the key stream, and the counter carries from byte to byte.
CiphertextIsStandard ==
  LET E(b) == Encrypt(context, b)
      m == Prefix(Message, Len(sent))
  IN  side = ENCRYPT =>
        sent = CASE method = "cbc"    -> CbcText(E, iv0, m)
                 [] method = "cfb128" -> Cfb128Text(E, iv0, m)
                 [] method = "cfb8"   -> Cfb8Text(E, iv0, m)
                 [] method = "ctr"    -> CtrText(E, iv0, m)

\* The receiver gets the message back, however either side cuts it.
RoundTrip == received = Prefix(Message, Len(received))
=============================================================================
