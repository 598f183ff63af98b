----------------------------- MODULE KeyTables ------------------------------
(***************************************************************************)
(* The key tables: HID usages of the keys that Windows reports (hid/       *)
(* input.rs, input.rs of Windows) and of those of macOS (keys.rs), of the  *)
(* mapping outputs (mapping.rs) and of the media commands (command.rs).    *)
(* The board is a US keyboard, with the codes that both systems give its   *)
(* keys (external).                                                        *)
(***************************************************************************)
EXTENDS Integers, TLC

\* The tables.  A code is the virtual key of Windows.
Absent == -1

\* keyboard_usage, of the scan codes from 1, and of those with an extended prefix
ScanUsages ==
  << \h29, \h1E, \h1F, \h20, \h21, \h22, \h23, \h24, \h25, \h26, \h27, \h2D, \h2E, \h2A, \h2B,
     \h14, \h1A, \h08, \h15, \h17, \h1C, \h18, \h0C, \h12, \h13, \h2F, \h30, \h28, \hE0, \h04,
     \h16, \h07, \h09, \h0A, \h0B, \h0D, \h0E, \h0F, \h33, \h34, \h35, \hE1, \h31, \h1D, \h1B,
     \h06, \h19, \h05, \h11, \h10, \h36, \h37, \h38, \hE5, \h55, \hE2, \h2C, \h39, \h3A, \h3B,
     \h3C, \h3D, \h3E, \h3F, \h40, \h41, \h42, \h43, \h53, \h47, \h5F, \h60, \h61, \h56, \h5C,
     \h5D, \h5E, \h57, \h59, \h5A, \h5B, \h62, \h63, Absent, Absent, \h64, \h44, \h45 >>

ExtendedUsages ==
  (\h1C :> \h58) @@ (\h1D :> \hE4) @@ (\h35 :> \h54) @@ (\h38 :> \hE6) @@ (\h47 :> \h4A) @@ (\h48 :> \h52) @@
  (\h49 :> \h4B) @@ (\h4B :> \h50) @@ (\h4D :> \h4F) @@ (\h4F :> \h4D) @@ (\h50 :> \h51) @@ (\h51 :> \h4E) @@
  (\h52 :> \h49) @@ (\h53 :> \h4C) @@ (\h5B :> \hE3) @@ (\h5C :> \hE7) @@ (\h5D :> \h65)

FarUsages == (\h70 :> \h88) @@ (\h73 :> \h87) @@ (\h79 :> \h8A) @@ (\h7B :> \h8B) @@ (\h7D :> \h89)

\* From \hA6 on
ConsumerUsages ==
  << \h224, \h225, \h227, \h226, \h221, \h22A, \h223, \hE2, \hEA, \hE9, \hB5, \hB6, \hB7, \hCD,
     \h18A, \h183, \h194, \h192 >>

At(table, index) == IF index \in DOMAIN table THEN table[index] ELSE Absent

VirtualUsage(vk) ==
  CASE vk = \h13            -> \h48
    [] vk = \h2C            -> \h46
    [] vk = \h90            -> \h53
    [] vk \in \h70 .. \h7B  -> \h3A + vk - \h70
    [] vk \in \h7C .. \h87  -> \h68 + vk - \h7C
    [] OTHER                -> Absent

\* Pages are those of the descriptors: \h07 for keys, \h0C for consumer controls.
KeyboardUsage(vk, scan, extended) ==
  LET consumer == At(ConsumerUsages, vk - \hA5)
      table == IF extended THEN ExtendedUsages ELSE FarUsages @@ ScanUsages
  IN CASE consumer # Absent         -> <<\h0C, consumer>>
       [] VirtualUsage(vk) # Absent -> <<\h07, VirtualUsage(vk)>>
       [] OTHER                     -> <<\h07, At(table, scan)>>

\* keyboard_code: the code of a key that the hooks of Windows report
KeyboardCode(vk, scan, extended) ==
  CASE vk = \h10 /\ scan = \h2A -> \hA0
    [] vk = \h10 /\ scan = \h36 -> \hA1
    [] vk = \h11                -> IF extended THEN \hA3 ELSE \hA2
    [] vk = \h12                -> IF extended THEN \hA5 ELSE \hA4
    [] vk = \h0D /\ extended    -> \hE0
    [] OTHER                    -> vk

\* keys.rs of macOS: native key code, code, usage
MacKeys ==
  {<<0,\h41,\h04>>, <<1,\h53,\h16>>, <<2,\h44,\h07>>, <<3,\h46,\h09>>, <<4,\h48,\h0B>>,
   <<5,\h47,\h0A>>, <<6,\h5A,\h1D>>, <<7,\h58,\h1B>>, <<8,\h43,\h06>>, <<9,\h56,\h19>>,
   <<10,\hE2,\h64>>, <<11,\h42,\h05>>, <<12,\h51,\h14>>, <<13,\h57,\h1A>>,
   <<14,\h45,\h08>>, <<15,\h52,\h15>>, <<16,\h59,\h1C>>, <<17,\h54,\h17>>,
   <<18,\h31,\h1E>>, <<19,\h32,\h1F>>, <<20,\h33,\h20>>, <<21,\h34,\h21>>,
   <<22,\h36,\h23>>, <<23,\h35,\h22>>, <<24,\hBB,\h2E>>, <<25,\h39,\h26>>,
   <<26,\h37,\h24>>, <<27,\hBD,\h2D>>, <<28,\h38,\h25>>, <<29,\h30,\h27>>,
   <<30,\hDD,\h30>>, <<31,\h4F,\h12>>, <<32,\h55,\h18>>, <<33,\hDB,\h2F>>,
   <<34,\h49,\h0C>>, <<35,\h50,\h13>>, <<36,\h0D,\h28>>, <<37,\h4C,\h0F>>,
   <<38,\h4A,\h0D>>, <<39,\hDE,\h34>>, <<40,\h4B,\h0E>>, <<41,\hBA,\h33>>,
   <<42,\hDC,\h31>>, <<43,\hBC,\h36>>, <<44,\hBF,\h38>>, <<45,\h4E,\h11>>,
   <<46,\h4D,\h10>>, <<47,\hBE,\h37>>, <<48,\h09,\h2B>>, <<49,\h20,\h2C>>,
   <<50,\hC0,\h35>>, <<51,\h08,\h2A>>, <<53,\h1B,\h29>>, <<54,\h5C,\hE7>>,
   <<55,\h5B,\hE3>>, <<56,\hA0,\hE1>>, <<57,\h14,\h39>>, <<58,\hA4,\hE2>>,
   <<59,\hA2,\hE0>>, <<60,\hA1,\hE5>>, <<61,\hA5,\hE6>>, <<62,\hA3,\hE4>>,
   <<64,\h80,\h6C>>, <<65,\h6E,\h63>>, <<67,\h6A,\h55>>, <<69,\h6B,\h57>>,
   <<71,\h90,\h53>>, <<75,\h6F,\h54>>, <<76,\hE0,\h58>>, <<78,\h6D,\h56>>,
   <<79,\h81,\h6D>>, <<80,\h82,\h6E>>, <<81,\h92,\h67>>, <<82,\h60,\h62>>,
   <<83,\h61,\h59>>, <<84,\h62,\h5A>>, <<85,\h63,\h5B>>, <<86,\h64,\h5C>>,
   <<87,\h65,\h5D>>, <<88,\h66,\h5E>>, <<89,\h67,\h5F>>, <<90,\h83,\h6F>>,
   <<91,\h68,\h60>>, <<92,\h69,\h61>>, <<93,\hC1,\h89>>, <<94,\hC2,\h87>>,
   <<95,\h6C,\h85>>, <<96,\h74,\h3E>>, <<97,\h75,\h3F>>, <<98,\h76,\h40>>,
   <<99,\h72,\h3C>>, <<100,\h77,\h41>>, <<101,\h78,\h42>>, <<102,\h1A,\h91>>,
   <<103,\h7A,\h44>>, <<104,\h15,\h90>>, <<105,\h7C,\h68>>, <<106,\h7F,\h6B>>,
   <<107,\h7D,\h69>>, <<109,\h79,\h43>>, <<110,\h5D,\h65>>, <<111,\h7B,\h45>>,
   <<113,\h7E,\h6A>>, <<114,\h2F,\h75>>, <<115,\h24,\h4A>>, <<116,\h21,\h4B>>,
   <<117,\h2E,\h4C>>, <<118,\h73,\h3D>>, <<119,\h23,\h4D>>, <<120,\h71,\h3B>>,
   <<121,\h22,\h4E>>, <<122,\h70,\h3A>>, <<123,\h25,\h50>>, <<124,\h27,\h4F>>,
   <<125,\h28,\h51>>, <<126,\h26,\h52>>}

\* internal and usage
Internal(native) == (CHOOSE k \in MacKeys : k[1] = native)[2]
MacUsage(code)   == (CHOOSE k \in MacKeys : k[2] = code)[3]

NormalizeNative(native, iso) ==
  CASE iso /\ native = 10 -> 50
    [] iso /\ native = 50 -> 10
    [] OTHER              -> native

\* output_keys of mapping.rs
Span(codes, first) == [code \in codes |-> first + code - (CHOOSE c \in codes : \A d \in codes : c <= d)]

OutputKeys ==
  Span(\h41 .. \h5A, \h04) @@ Span(\h31 .. \h39, \h1E) @@ Span(\h70 .. \h7B, \h3A) @@ Span(\h7C .. \h87, \h68) @@
  Span(\h61 .. \h69, \h59) @@ (\h30 :> \h27) @@ (\h60 :> \h62) @@
  (\h08 :> \h2A) @@ (\h09 :> \h2B) @@ (\h0D :> \h28) @@ (\h1B :> \h29) @@ (\h20 :> \h2C) @@ (\h21 :> \h4B) @@
  (\h22 :> \h4E) @@ (\h23 :> \h4D) @@ (\h24 :> \h4A) @@ (\h25 :> \h50) @@ (\h26 :> \h52) @@ (\h27 :> \h4F) @@
  (\h28 :> \h51) @@ (\h2D :> \h49) @@ (\h2E :> \h4C) @@ (\h14 :> \h39) @@ (\h2C :> \h46) @@ (\h90 :> \h53) @@
  (\h91 :> \h47) @@ (\h13 :> \h48) @@ (\hE0 :> \h58) @@ (\hBA :> \h33) @@ (\hBB :> \h2E) @@ (\hBC :> \h36) @@
  (\hBD :> \h2D) @@ (\hBE :> \h37) @@ (\hBF :> \h38) @@ (\hC0 :> \h35) @@ (\hDB :> \h2F) @@ (\hDC :> \h31) @@
  (\hDD :> \h30) @@ (\hDE :> \h34) @@ (\hE2 :> \h64) @@ (\h6A :> \h55) @@ (\h6B :> \h57) @@ (\h6D :> \h56) @@
  (\h6E :> \h63) @@ (\h6F :> \h54)

\* MediaCommand::usage
MediaUsage ==
  [PlayPause |-> \hCD, Previous |-> \hB6, Next |-> \hB5, Mute |-> \hE2,
   VolumeUp |-> \hE9, VolumeDown |-> \hEA, Rewind |-> \hB4, FastForward |-> \hB3]

SeekKeys == {"Rewind", "FastForward"}

-----------------------------------------------------------------------------
\* The board (external): what Windows says of a key, and the native code of the same key on
\* macOS, or Absent if there is none.
Key(scan, vk, extended, native) == [scan |-> scan, vk |-> vk, extended |-> extended, native |-> native]

BoardCodes ==
  << \h1B, \h31, \h32, \h33, \h34, \h35, \h36, \h37, \h38, \h39, \h30, \hBD, \hBB, \h08, \h09,
     \h51, \h57, \h45, \h52, \h54, \h59, \h55, \h49, \h4F, \h50, \hDB, \hDD, \h0D, \h11, \h41,
     \h53, \h44, \h46, \h47, \h48, \h4A, \h4B, \h4C, \hBA, \hDE, \hC0, \h10, \hDC, \h5A, \h58,
     \h43, \h56, \h42, \h4E, \h4D, \hBC, \hBE, \hBF, \h10, \h6A, \h12, \h20, \h14, \h70, \h71,
     \h72, \h73, \h74, \h75, \h76, \h77, \h78, \h79, \h90, \h91, \h67, \h68, \h69, \h6D, \h64,
     \h65, \h66, \h6B, \h61, \h62, \h63, \h60, \h6E, Absent, Absent, \hE2, \h7A, \h7B >>

BoardNatives ==
  << 53, 18, 19, 20, 21, 23, 22, 26, 28, 25, 29, 27, 24, 51, 48, 12, 13, 14, 15, 17, 16, 32,
     34, 31, 35, 33, 30, 36, 59, 0, 1, 2, 3, 5, 4, 38, 40, 37, 41, 39, 50, 56, 42, 6, 7, 8, 9,
     11, 45, 46, 43, 47, 44, 60, 67, 58, 49, 57, 122, 120, 99, 118, 96, 97, 98, 100, 101, 109,
     71, Absent, 89, 91, 92, 78, 86, 87, 88, 69, 83, 84, 85, 82, 65, Absent, Absent, 10, 103,
     111 >>

ExtendedKeys ==
  {<<\h1C,\h0D,76>>, <<\h1D,\h11,62>>, <<\h35,\h6F,75>>, <<\h37,\h2C,Absent>>, <<\h38,\h12,61>>, <<\h47,\h24,115>>,
   <<\h48,\h26,126>>, <<\h49,\h21,116>>, <<\h4B,\h25,123>>, <<\h4D,\h27,124>>, <<\h4F,\h23,119>>,
   <<\h50,\h28,125>>, <<\h51,\h22,121>>, <<\h52,\h2D,Absent>>, <<\h53,\h2E,117>>, <<\h5B,\h5B,55>>, <<\h5C,\h5C,54>>,
   <<\h5D,\h5D,110>>, <<\h30,\hAF,Absent>>, <<\h2E,\hAE,Absent>>, <<\h22,\hB3,Absent>>}

Board ==
  {Key(scan, BoardCodes[scan], FALSE, BoardNatives[scan]) : scan \in {s \in 1 .. 88 : BoardCodes[s] # Absent}}
  \cup {Key(k[1], k[2], TRUE, k[3]) : k \in ExtendedKeys}
  \cup {Key(\h64 + n, \h7C + n, FALSE, <<105, 107, 113, 106, 64, 79, 80, 90>>[n + 1]) : n \in 0 .. 7}

\* The number pad's 7 while Num Lock is off
Home7 == Key(\h47, \h24, FALSE, 89)
=============================================================================
