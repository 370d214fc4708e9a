------------------------------ MODULE CodePage ------------------------------
(***************************************************************************)
(* The text of packets: Windows1251 (the default) and Windows1252, which   *)
(* differ only in their tables.  A string of the server is a sequence of   *)
(* UTF-8 bytes, a string of a packet one of bytes of the code page.        *)
(***************************************************************************)
EXTENDS Integers, Sequences, SequencesExt

CONSTANT UseWindows1252Encoding   \* WormsPacket::useWindows1252Encoding

ASSUME CodePageAssumption == UseWindows1252Encoding \in BOOLEAN

Byte == 0 .. 255
QuestionMark == 63

-----------------------------------------------------------------------------
(* UTF-8, up to three bytes a character. *)

AppendUtf8(cp) ==
  IF cp <= 127 THEN <<cp>>
  ELSE IF cp <= 2047 THEN <<192 + (cp \div 64), 128 + (cp % 64)>>
  ELSE IF cp <= 65535
       THEN <<224 + (cp \div 4096), 128 + ((cp \div 64) % 64), 128 + (cp % 64)>>
  ELSE <<QuestionMark>>

(* The character at a position, and how many bytes it takes: none when it  *)
(* is cut off or no lead byte of this range.  What follows a lead byte is  *)
(* not tested for being a continuation byte.                               *)
Utf8ToCodepoint(input, pos) ==
  LET first == input[pos]
  IN IF first \div 128 = 0
     THEN [len |-> 1, cp |-> first]
     ELSE IF first \div 32 = 6 /\ pos + 1 <= Len(input)
     THEN [len |-> 2, cp |-> ((first % 32) * 64) + (input[pos + 1] % 64)]
     ELSE IF first \div 16 = 14 /\ pos + 2 <= Len(input)
     THEN [len |-> 3, cp |-> ((first % 16) * 4096) + ((input[pos + 1] % 64) * 64)
                             + (input[pos + 2] % 64)]
     ELSE [len |-> 0, cp |-> 0]

-----------------------------------------------------------------------------
(* Windows-1251.  The table has an entry for every byte; the way back      *)
(* knows ASCII, the letters of 16#410 to 16#44F and three more.            *)

Table1251 == <<
  \h0402, \h0403, \h201A, \h0453, \h201E, \h2026, \h2020, \h2021,
  \h20AC, \h2030, \h0409, \h2039, \h040A, \h040C, \h040B, \h040F,
  \h0452, \h2018, \h2019, \h201C, \h201D, \h2022, \h2013, \h2014,
  \h0098, \h2122, \h0459, \h203A, \h045A, \h045C, \h045B, \h045F,
  \h00A0, \h040E, \h045E, \h0408, \h00A4, \h0490, \h00A6, \h00A7,
  \h0401, \h00A9, \h0404, \h00AB, \h00AC, \h00AD, \h00AE, \h0407,
  \h00B0, \h00B1, \h0406, \h0456, \h0491, \h00B5, \h00B6, \h00B7,
  \h0451, \h2116, \h0454, \h00BB, \h0458, \h0405, \h0455, \h0457 >>

Windows1251ToUnicode(c) ==
  IF c < 128 THEN c
  ELSE IF c < 192 THEN Table1251[c - 127]
  ELSE \h410 + (c - 192)

(* A variant whose range of letters ends one too early. *)
UnicodeToWindows1251ShortRange(unicode) ==
  IF unicode < 128 THEN unicode
  ELSE IF unicode >= \h410 /\ unicode < \h44F THEN unicode - \h410 + 192
  ELSE IF unicode = \h2116 THEN 185
  ELSE IF unicode = \h401 THEN 168
  ELSE IF unicode = \h451 THEN 184
  ELSE QuestionMark

UnicodeToWindows1251(unicode) ==
  IF unicode < 128 THEN unicode
  ELSE IF unicode >= \h410 /\ unicode <= \h44F THEN unicode - \h410 + 192
  ELSE IF unicode = \h2116 THEN 185
  ELSE IF unicode = \h401 THEN 168
  ELSE IF unicode = \h451 THEN 184
  ELSE QuestionMark

-----------------------------------------------------------------------------
(* Windows-1252: the bytes 16#80 to 16#9F have a table, which is searched  *)
(* from its start on the way back; the others are their own code points.   *)

Table1252 == <<
  \h20AC, \hFFFD, \h201A, \h0192, \h201E, \h2026, \h2020, \h2021,
  \h02C6, \h2030, \h0160, \h2039, \h0152, \hFFFD, \h017D, \hFFFD,
  \hFFFD, \h2018, \h2019, \h201C, \h201D, \h2022, \h2013, \h2014,
  \h02DC, \h2122, \h0161, \h203A, \h0153, \hFFFD, \h017E, \h0178 >>

Cp1252ToUnicode(c) == IF c < 128 \/ c >= 160 THEN c ELSE Table1252[c - 127]

UnicodeToCp1252(cp) ==
  LET found == SelectInSeq(Table1252, LAMBDA entry : entry = cp)
  IN IF cp < 128 \/ (cp >= 160 /\ cp <= 255) THEN cp
     ELSE IF found > 0 THEN found + 127 ELSE QuestionMark

-----------------------------------------------------------------------------
ToUnicode(c) ==
  IF UseWindows1252Encoding THEN Cp1252ToUnicode(c) ELSE Windows1251ToUnicode(c)

FromUnicode(cp) ==
  IF UseWindows1252Encoding THEN UnicodeToCp1252(cp) ELSE UnicodeToWindows1251(cp)

(* decode, one character after the other. *)
DecodeString(input) ==
  FlattenSeq([i \in DOMAIN input |-> AppendUtf8(ToUnicode(input[i]))])

(* encode, from a position on: a byte that starts no character becomes a   *)
(* question mark and the next byte is tried.                               *)
EncodeString(input) ==
  LET from[pos \in 1 .. Len(input) + 1] ==
        IF pos > Len(input) THEN <<>>
        ELSE LET char == Utf8ToCodepoint(input, pos)
             IN IF char.len = 0
                THEN <<QuestionMark>> \o from[pos + 1]
                ELSE <<FromUnicode(char.cp)>> \o from[pos + char.len]
  IN from[1]

(* Bytes of the code page that come back as they were sent: ASCII, the     *)
(* Russian letters and the numero sign; in the other page all but four of  *)
(* the bytes without a meaning.                                            *)
Supported ==
  IF UseWindows1252Encoding
  THEN Byte \ {141, 143, 144, 157}
  ELSE (0 .. 127) \cup (192 .. 255) \cup {168, 184, 185}

(* What a text looks like once it was decoded and encoded: the other bytes *)
(* are question marks, or the first of the bytes without a meaning.        *)
ComesBackAs(c) ==
  IF c \in Supported THEN c ELSE IF UseWindows1252Encoding THEN 129 ELSE QuestionMark

Shown(text) == [i \in DOMAIN text |-> ComesBackAs(text[i])]

=============================================================================
