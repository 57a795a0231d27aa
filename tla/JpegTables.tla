----------------------------- MODULE JpegTables -----------------------------
(***************************************************************************)
(* The tables of jpegenc.c: the quantisers as they are written to the      *)
(* header and as reciprocals, the zigzag order, the Huffman tables as the  *)
(* header describes them, and the code words the encoder uses.  In the     *)
(* words only the low bits are meant, as many as the length table says.    *)
(* Entries are counted from 0 in the code and from 1 here.                 *)
(***************************************************************************)

qtable_0_lum ==
  <<8, 6, 5, 8, 12, 20, 26, 31, 6, 6, 7, 10, 13, 29, 30, 28,
    7, 7, 8, 12, 20, 29, 35, 28, 7, 9, 11, 15, 26, 44, 40, 31,
    9, 11, 19, 28, 34, 55, 52, 39, 12, 18, 28, 32, 41, 52, 57, 46,
    25, 32, 39, 44, 52, 61, 60, 51, 36, 46, 48, 49, 56, 50, 52, 50>>

qtable_0_chrom ==
  <<9, 9, 12, 24, 50, 50, 50, 50, 9, 11, 13, 33, 50, 50, 50, 50,
    12, 13, 28, 50, 50, 50, 50, 50, 24, 33, 50, 50, 50, 50, 50, 50,
    50, 50, 50, 50, 50, 50, 50, 50, 50, 50, 50, 50, 50, 50, 50, 50,
    50, 50, 50, 50, 50, 50, 50, 50, 50, 50, 50, 50, 50, 50, 50, 50>>

qtable_lum ==
  <<128, 171, 205, 128, 85, 51, 39, 33, 171, 171, 146, 102, 79, 35, 34, 37,
    146, 146, 128, 85, 51, 35, 29, 37, 146, 114, 93, 68, 39, 23, 26, 33,
    114, 93, 54, 37, 30, 19, 20, 26, 85, 57, 37, 32, 25, 20, 18, 22,
    41, 32, 26, 23, 20, 17, 17, 20, 28, 22, 21, 21, 18, 20, 20, 20>>

qtable_chrom ==
  <<114, 114, 85, 43, 20, 20, 20, 20, 114, 93, 79, 31, 20, 20, 20, 20,
    85, 79, 37, 20, 20, 20, 20, 20, 43, 31, 20, 20, 20, 20, 20, 20,
    20, 20, 20, 20, 20, 20, 20, 20, 20, 20, 20, 20, 20, 20, 20, 20,
    20, 20, 20, 20, 20, 20, 20, 20, 20, 20, 20, 20, 20, 20, 20, 20>>

zig ==
  <<0, 1, 8, 16, 9, 2, 3, 10, 17, 24, 32, 25, 18, 11, 4, 5, 12, 19, 26, 33, 40, 48,
    41, 34, 27, 20, 13, 6, 7, 14, 21, 28, 35, 42, 49, 56, 57, 50, 43, 36, 29, 22, 15, 23,
    30, 37, 44, 51, 58, 59, 52, 45, 38, 31, 39, 46, 53, 60, 61, 54, 47, 55, 62, 63>>

\* Number of codes of each length from 1 to 16, and the symbols by rising code.
std_dc_luminance_nrcodes == <<0, 1, 5, 1, 1, 1, 1, 1, 1, 0, 0, 0, 0, 0, 0, 0>>
std_dc_chrominance_nrcodes == <<0, 3, 1, 1, 1, 1, 1, 1, 1, 1, 1, 0, 0, 0, 0, 0>>
std_ac_luminance_nrcodes == <<0, 2, 1, 3, 3, 2, 4, 3, 5, 5, 4, 4, 0, 0, 1, 125>>
std_ac_chrominance_nrcodes == <<0, 2, 1, 2, 4, 4, 3, 4, 7, 5, 4, 4, 0, 1, 2, 119>>
std_dc_values == <<0, 1, 2, 3, 4, 5, 6, 7, 8, 9, 10, 11>>

std_ac_luminance_values ==
  <<1, 2, 3, 0, 4, 17, 5, 18, 33, 49, 65, 6, 19, 81, 97, 7, 34, 113,
    20, 50, 129, 145, 161, 8, 35, 66, 177, 193, 21, 82, 209, 240, 36, 51, 98, 114,
    130, 9, 10, 22, 23, 24, 25, 26, 37, 38, 39, 40, 41, 42, 52, 53, 54, 55,
    56, 57, 58, 67, 68, 69, 70, 71, 72, 73, 74, 83, 84, 85, 86, 87, 88, 89,
    90, 99, 100, 101, 102, 103, 104, 105, 106, 115, 116, 117, 118, 119, 120, 121, 122, 131,
    132, 133, 134, 135, 136, 137, 138, 146, 147, 148, 149, 150, 151, 152, 153, 154, 162, 163,
    164, 165, 166, 167, 168, 169, 170, 178, 179, 180, 181, 182, 183, 184, 185, 186, 194, 195,
    196, 197, 198, 199, 200, 201, 202, 210, 211, 212, 213, 214, 215, 216, 217, 218, 225, 226,
    227, 228, 229, 230, 231, 232, 233, 234, 241, 242, 243, 244, 245, 246, 247, 248, 249, 250>>

std_ac_chrominance_values ==
  <<0, 1, 2, 3, 17, 4, 5, 33, 49, 6, 18, 65, 81, 7, 97, 113, 19, 34,
    50, 129, 8, 20, 66, 145, 161, 177, 193, 9, 35, 51, 82, 240, 21, 98, 114, 209,
    10, 22, 36, 52, 225, 37, 241, 23, 24, 25, 26, 38, 39, 40, 41, 42, 53, 54,
    55, 56, 57, 58, 67, 68, 69, 70, 71, 72, 73, 74, 83, 84, 85, 86, 87, 88,
    89, 90, 99, 100, 101, 102, 103, 104, 105, 106, 115, 116, 117, 118, 119, 120, 121, 122,
    130, 131, 132, 133, 134, 135, 136, 137, 138, 146, 147, 148, 149, 150, 151, 152, 153, 154,
    162, 163, 164, 165, 166, 167, 168, 169, 170, 178, 179, 180, 181, 182, 183, 184, 185, 186,
    194, 195, 196, 197, 198, 199, 200, 201, 202, 210, 211, 212, 213, 214, 215, 216, 217, 218,
    226, 227, 228, 229, 230, 231, 232, 233, 234, 242, 243, 244, 245, 246, 247, 248, 249, 250>>

HYDClen == <<2, 3, 3, 3, 3, 3, 4, 5, 6, 7, 8, 9>>
HCDClen == <<2, 2, 2, 3, 4, 5, 6, 7, 8, 9, 10, 11>>
HYDCbits == <<0, 2, 3, 4, 5, 6, 14, 30, 62, 126, 254, 510>>
HCDCbits == <<0, 1, 2, 6, 14, 30, 62, 126, 254, 510, 1022, 2046>>

HYAClen ==
  <<<<4, 2, 2, 3, 4, 5, 7, 8, 10, 16, 16, 0>>,
    <<0, 4, 5, 7, 9, 11, 16, 16, 16, 16, 16, 0>>,
    <<0, 5, 8, 10, 12, 16, 16, 16, 16, 16, 16, 0>>,
    <<0, 6, 9, 12, 16, 16, 16, 16, 16, 16, 16, 0>>,
    <<0, 6, 10, 16, 16, 16, 16, 16, 16, 16, 16, 0>>,
    <<0, 7, 11, 16, 16, 16, 16, 16, 16, 16, 16, 0>>,
    <<0, 7, 12, 16, 16, 16, 16, 16, 16, 16, 16, 0>>,
    <<0, 8, 12, 16, 16, 16, 16, 16, 16, 16, 16, 0>>,
    <<0, 9, 15, 16, 16, 16, 16, 16, 16, 16, 16, 0>>,
    <<0, 9, 16, 16, 16, 16, 16, 16, 16, 16, 16, 0>>,
    <<0, 9, 16, 16, 16, 16, 16, 16, 16, 16, 16, 0>>,
    <<0, 10, 16, 16, 16, 16, 16, 16, 16, 16, 16, 0>>,
    <<0, 10, 16, 16, 16, 16, 16, 16, 16, 16, 16, 0>>,
    <<0, 11, 16, 16, 16, 16, 16, 16, 16, 16, 16, 0>>,
    <<0, 16, 16, 16, 16, 16, 16, 16, 16, 16, 16, 0>>,
    <<11, 16, 16, 16, 16, 16, 16, 16, 16, 16, 16, 0>>>>

HYACbits ==
  <<<<\hFFFA, \hFFF0, \hFFF1, \hFFF4, \hFFFB, \hFFFA, \hFFF8, \hFFF8, \hFFF6, \hFF82, \hFF83, \h0000>>,
    <<\h0000, \hFFFC, \hFFFB, \hFFF9, \hFFF6, \hFFF6, \hFF84, \hFF85, \hFF86, \hFF87, \hFF88, \h0000>>,
    <<\h0000, \hFFFC, \hFFF9, \hFFF7, \hFFF4, \hFF89, \hFF8A, \hFF8B, \hFF8C, \hFF8D, \hFF8E, \h0000>>,
    <<\h0000, \hFFFA, \hFFF7, \hFFF5, \hFF8F, \hFF90, \hFF91, \hFF92, \hFF93, \hFF94, \hFF95, \h0000>>,
    <<\h0000, \hFFFB, \hFFF8, \hFF96, \hFF97, \hFF98, \hFF99, \hFF9A, \hFF9B, \hFF9C, \hFF9D, \h0000>>,
    <<\h0000, \hFFFA, \hFFF7, \hFF9E, \hFF9F, \hFFA0, \hFFA1, \hFFA2, \hFFA3, \hFFA4, \hFFA5, \h0000>>,
    <<\h0000, \hFFFB, \hFFF6, \hFFA6, \hFFA7, \hFFA8, \hFFA9, \hFFAA, \hFFAB, \hFFAC, \hFFAD, \h0000>>,
    <<\h0000, \hFFFA, \hFFF7, \hFFAE, \hFFAF, \hFFB0, \hFFB1, \hFFB2, \hFFB3, \hFFB4, \hFFB5, \h0000>>,
    <<\h0000, \hFFF8, \hFFC0, \hFFB6, \hFFB7, \hFFB8, \hFFB9, \hFFBA, \hFFBB, \hFFBC, \hFFBD, \h0000>>,
    <<\h0000, \hFFF9, \hFFBE, \hFFBF, \hFFC0, \hFFC1, \hFFC2, \hFFC3, \hFFC4, \hFFC5, \hFFC6, \h0000>>,
    <<\h0000, \hFFFA, \hFFC7, \hFFC8, \hFFC9, \hFFCA, \hFFCB, \hFFCC, \hFFCD, \hFFCE, \hFFCF, \h0000>>,
    <<\h0000, \hFFF9, \hFFD0, \hFFD1, \hFFD2, \hFFD3, \hFFD4, \hFFD5, \hFFD6, \hFFD7, \hFFD8, \h0000>>,
    <<\h0000, \hFFFA, \hFFD9, \hFFDA, \hFFDB, \hFFDC, \hFFDD, \hFFDE, \hFFDF, \hFFE0, \hFFE1, \h0000>>,
    <<\h0000, \hFFF8, \hFFE2, \hFFE3, \hFFE4, \hFFE5, \hFFE6, \hFFE7, \hFFE8, \hFFE9, \hFFEA, \h0000>>,
    <<\h0000, \hFFEB, \hFFEC, \hFFED, \hFFEE, \hFFEF, \hFFF0, \hFFF1, \hFFF2, \hFFF3, \hFFF4, \h0000>>,
    <<\hFFF9, \hFFF5, \hFFF6, \hFFF7, \hFFF8, \hFFF9, \hFFFA, \hFFFB, \hFFFC, \hFFFD, \hFFFE, \h0000>>>>

HCAClen ==
  <<<<2, 2, 3, 4, 5, 5, 6, 7, 9, 10, 12, 0>>,
    <<0, 4, 6, 8, 9, 11, 12, 16, 16, 16, 16, 0>>,
    <<0, 5, 8, 10, 12, 15, 16, 16, 16, 16, 16, 0>>,
    <<0, 5, 8, 10, 12, 16, 16, 16, 16, 16, 16, 0>>,
    <<0, 6, 9, 16, 16, 16, 16, 16, 16, 16, 16, 0>>,
    <<0, 6, 10, 16, 16, 16, 16, 16, 16, 16, 16, 0>>,
    <<0, 7, 11, 16, 16, 16, 16, 16, 16, 16, 16, 0>>,
    <<0, 7, 11, 16, 16, 16, 16, 16, 16, 16, 16, 0>>,
    <<0, 8, 16, 16, 16, 16, 16, 16, 16, 16, 16, 0>>,
    <<0, 9, 16, 16, 16, 16, 16, 16, 16, 16, 16, 0>>,
    <<0, 9, 16, 16, 16, 16, 16, 16, 16, 16, 16, 0>>,
    <<0, 9, 16, 16, 16, 16, 16, 16, 16, 16, 16, 0>>,
    <<0, 9, 16, 16, 16, 16, 16, 16, 16, 16, 16, 0>>,
    <<0, 11, 16, 16, 16, 16, 16, 16, 16, 16, 16, 0>>,
    <<0, 14, 16, 16, 16, 16, 16, 16, 16, 16, 16, 0>>,
    <<10, 15, 16, 16, 16, 16, 16, 16, 16, 16, 16, 0>>>>

HCACbits ==
  <<<<\h0000, \h0001, \h0004, \h000A, \h0018, \h0019, \h0038, \h0078, \h01F4, \h03F6, \h0FF4, \h0000>>,
    <<\h0000, \h000B, \h0039, \h00F6, \h01F5, \h07F6, \h0FF5, \hFF88, \hFF89, \hFF8A, \hFF8B, \h0000>>,
    <<\h0000, \h001A, \h00F7, \h03F7, \h0FF6, \h7FC2, \hFF8C, \hFF8D, \hFF8E, \hFF8F, \hFF90, \h0000>>,
    <<\h0000, \h001B, \h00F8, \h03F8, \h0FF7, \hFF91, \hFF92, \hFF93, \hFF94, \hFF95, \hFF96, \h0000>>,
    <<\h0000, \h003A, \h01F6, \hFF97, \hFF98, \hFF99, \hFF9A, \hFF9B, \hFF9C, \hFF9D, \hFF9E, \h0000>>,
    <<\h0000, \h003B, \h03F9, \hFF9F, \hFFA0, \hFFA1, \hFFA2, \hFFA3, \hFFA4, \hFFA5, \hFFA6, \h0000>>,
    <<\h0000, \h0079, \h07F7, \hFFA7, \hFFA8, \hFFA9, \hFFAA, \hFFAB, \hFFAC, \hFFAF, \hFFAE, \h0000>>,
    <<\h0000, \h007A, \h07F8, \hFFAF, \hFFB0, \hFFB1, \hFFB2, \hFFB3, \hFFB4, \hFFB5, \hFFB6, \h0000>>,
    <<\h0000, \h00F9, \hFFB7, \hFFB8, \hFFB9, \hFFBA, \hFFBB, \hFFBC, \hFFBD, \hFFBE, \hFFBF, \h0000>>,
    <<\h0000, \h01F7, \hFFC0, \hFFC1, \hFFC2, \hFFC3, \hFFC4, \hFFC5, \hFFC6, \hFFC7, \hFFC8, \h0000>>,
    <<\h0000, \h01F8, \hFFC9, \hFFCA, \hFFCB, \hFFCC, \hFFCD, \hFFCE, \hFFCF, \hFFD0, \hFFD1, \h0000>>,
    <<\h0000, \h01F9, \hFFD2, \hFFD3, \hFFD4, \hFFD5, \hFFD6, \hFFD7, \hFFD8, \hFFD9, \hFFDA, \h0000>>,
    <<\h0000, \h01FA, \hFFDB, \hFFDC, \hFFDD, \hFFDE, \hFFDF, \hFFE0, \hFFE1, \hFFE2, \hFFE3, \h0000>>,
    <<\h0000, \h07F9, \hFFE4, \hFFE5, \hFFE6, \hFFE7, \hFFE8, \hFFE9, \hFFEA, \hFFEB, \hFFEC, \h0000>>,
    <<\h0000, \h3FE0, \hFFED, \hFFEE, \hFFEF, \hFFF0, \hFFF1, \hFFF2, \hFFF3, \hFFF4, \hFFF5, \h0000>>,
    <<\h03FA, \h7FC3, \hFFF6, \hFFF7, \hFFF8, \hFFF9, \hFFFA, \hFFFB, \hFFFC, \hFFFD, \hFFFE, \h0000>>>>

=============================================================================
