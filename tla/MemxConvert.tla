------------------------------ MODULE MemxConvert ------------------------------
(***************************************************************************)
(* The conversions of feature maps (pymodule/convert.h): float32 to and    *)
(* from bf16 and gbf80, a packet of ten bytes in which eight numbers share *)
(* an exponent.                                                            *)
(*                                                                         *)
(* A float32 is its upper 17 bits: sign, exponent, fraction (7 bits), and  *)
(* the bit that decides the rounding.  The 15 bits below decide nothing.   *)
(* A packet is the set of its bits that are 1.                             *)
(***************************************************************************)
EXTENDS Integers, Sequences, FiniteSetsExt, SequencesExt

Words  == 0..2^17 - 1
Lanes  == 0..7
Arches == {"x86", "arm64", "other"}

SignOf(w)   == w \div 2^16
Exponent(w) == (w \div 2^8) % 2^8
Fraction(w) == (w \div 2) % 2^7
Word(sign, exp, frac) == 2^16 * sign + 2^8 * exp + 2 * frac

BitsOf(n, first, width) == {first + i : i \in {j \in 0..width - 1 : (n \div 2^j) % 2 = 1}}
Number(bits, first, width) == SumSet({2^i : i \in {j \in 0..width - 1 : first + j \in bits}})

-----------------------------------------------------------------------------
(* gbf_encode                                                              *)

(* float32 += 0x8000, float32 &= 0xffff0000, in the caller's array.        *)
Added(w)  == (w + 1) % 2^17
Masked(w) == w - (w % 2)

(* A shift by 32 or more is undefined: the machine shifts by n % 32        *)
(* (wrap), or the result is as if all bits were shifted out.               *)
Shifted(v, n, wrap) ==
  LET places == IF wrap THEN n % 32 ELSE n
  IN IF places > 7 THEN 0 ELSE v \div 2^places

(* _SET_MANTISSA_SHIFT_WITH_ROUNDING.  The last bit of w is 1 only if      *)
(* another call has added to it meanwhile.                                 *)
Mantissa(w, shift, wrap) ==
  LET one == 2^7 + Fraction(w)
  IN IF shift = 0 THEN one + (IF Fraction(w) = 2^7 - 1 THEN 0 ELSE w % 2)
                  ELSE Shifted(one, shift, wrap) + (Shifted(Fraction(w), shift - 1, wrap) % 2)

(* Up to eight numbers as one packet's fields.                             *)
Group(words, wrap) ==
  LET exp == Max({Exponent(words[k]) : k \in DOMAIN words})
      man == [k \in Lanes |-> IF k + 1 \in DOMAIN words
                              THEN Mantissa(words[k + 1], exp - Exponent(words[k + 1]), wrap)
                              ELSE 0]
  IN  [man  |-> man,
       sign |-> [k \in Lanes |-> IF man[k] = 0 THEN 0 ELSE SignOf(words[k + 1])],
       exp  |-> exp]

(* Wrong: man_3 is one field, and comes to lie in the next unit.           *)
OneField == <<8, 1, 8, 1, 8, 1, 0, 8, 1, 8, 1, 8, 1, 8, 1, 1, 7, 1, 8>>

(* MemxGbfGbf80Map: the bit fields, of which none crosses a 32 bit unit;   *)
(* so man_3 and man_7 are declared in two parts.                           *)
Widths == <<8, 1, 8, 1, 8, 1, 5, 3, 1, 8, 1, 8, 1, 8, 1, 1, 7, 1, 8>>

Aligned(next, width) ==
  LET last == next + width - 1
  IN IF width > 0 /\ next \div 32 # last \div 32 THEN 32 * (last \div 32) ELSE next
Ends   == FoldLeft(LAMBDA ends, width : Append(ends, Aligned(Last(ends), width) + width), <<0>>, Widths)
Starts == [i \in 1..Len(Widths) |-> Ends[i + 1] - Widths[i]]

Packet(g) ==
  LET low == Widths[7]
      Field(k) == IF k = 3 THEN <<g.man[3] % 2^low, g.man[3] \div 2^low, g.sign[3]>>
                  ELSE IF k = 7 THEN <<g.man[7] % 2, g.man[7] \div 2, g.sign[7]>>
                  ELSE <<g.man[k], g.sign[k]>>
      fields == Field(0) \o Field(1) \o Field(2) \o Field(3) \o Field(4) \o Field(5)
                  \o Field(6) \o Field(7) \o <<g.exp>>
  IN  UNION {BitsOf(fields[i], Starts[i], Widths[i]) : i \in DOMAIN Widths}

gbf_encode(words, wrap) == Packet(Group(words, wrap))

-----------------------------------------------------------------------------
(* gbf_decode                                                              *)

LaneMan(p, k)  == IF k < 7 THEN Number(p, 9 * k, 8) ELSE 2 * Number(p, 64, 7) + Number(p, 63, 1)
LaneSign(p, k) == Number(p, IF k < 7 THEN 9 * k + 8 ELSE 71, 1)
SharedExp(p)   == Number(p, 72, 8)

(* pext: the bits under a mask, moved together.                            *)
MANT_MASK == {9 * k + b : k \in 0..6, b \in 0..7}
SIGN_MASK == {9 * k + 8 : k \in 0..6}
Pext(p, mask) == {Cardinality({j \in mask : j < i}) : i \in p \cap mask}

(* lzcnt_lut, vclz_u8, and the two halves looked up in LZ4.                *)
Repeat(x, n) == [i \in 1..n |-> x]
lzcnt_lut == <<8, 7>> \o Repeat(6, 2) \o Repeat(5, 4) \o Repeat(4, 8) \o Repeat(3, 16)
               \o Repeat(2, 32) \o Repeat(1, 64) \o Repeat(0, 128)
vclz(t) == IF t = 0 THEN 8 ELSE CHOOSE n \in 0..7 : 2^7 <= t * 2^n /\ t * 2^n < 2^8
LZ4 == <<4, 3, 2, 2, 1, 1, 1, 1, 0, 0, 0, 0, 0, 0, 0, 0>>

(* Wrong: the zeros of both halves are added.                              *)
LzBoth(t) == IF t = 0 THEN 8 ELSE LZ4[t \div 16 + 1] + LZ4[(t % 16) + 1]

LzNibbles(t) ==
  IF t = 0 THEN 8 ELSE IF t \div 16 > 0 THEN LZ4[t \div 16 + 1] ELSE 4 + LZ4[(t % 16) + 1]

(* 1 << d by its low and its high byte; 2^7 comes out as 2^8 + 2^7, of     *)
(* which the mask leaves nothing.                                          *)
POW2_LO == <<1, 2, 4, 8, 16, 32, 64, 128, 0>>
POW2_HI == <<0, 0, 0, 0, 0, 0, 0, 1, 0>>

saturated_subtract8(a, b) == LET res == (a - b) % 2^8 IN IF res <= a THEN res ELSE 0

(* A decoded number from its sign, mantissa, the mantissa's leading zeros  *)
(* and the packet's exponent.                                              *)
Portable(s, t, d, exp) ==
  Word(s, IF d < 8 THEN saturated_subtract8(exp, d) ELSE 0, (t * 2^d) % 2^7)

Vector(s, t, d, exp) ==
  Word(s, IF d = 8 \/ exp < d THEN 0 ELSE exp - d,
       (t * (POW2_LO[d + 1] + 2^8 * POW2_HI[d + 1])) % 2^7)

DecodeOther(p) ==
  [k \in Lanes |-> Portable(LaneSign(p, k), LaneMan(p, k), lzcnt_lut[LaneMan(p, k) + 1], SharedExp(p))]

DecodeArm64(p) ==
  [k \in Lanes |-> LET t == LaneMan(p, k) IN
     Word(LaneSign(p, k), IF t = 0 \/ SharedExp(p) < vclz(t) THEN 0 ELSE SharedExp(p) - vclz(t),
          (t * 2^vclz(t)) % 2^7)]

DecodeX86(p) ==
  LET mant56 == Pext(p, MANT_MASK)
      s7bits == Pext(p, SIGN_MASK)
  IN [k \in Lanes |->
        LET t == IF k < 7 THEN Number(mant56, 8 * k, 8) ELSE LaneMan(p, 7)
            s == IF k < 7 THEN Number(s7bits, k, 1) ELSE LaneSign(p, 7)
        IN  Vector(s, t, LzNibbles(t), SharedExp(p))]

gbf_decode(p, arch) ==
  CASE arch = "x86" -> DecodeX86(p) [] arch = "arm64" -> DecodeArm64(p) [] arch = "other" -> DecodeOther(p)

-----------------------------------------------------------------------------
(* Layouts.  A shape has height h, width w, depth z and c channels; pixels *)
(* follow each other, each a whole number of packets.  A formatted buffer  *)
(* maps the addresses of packets to packets.                               *)

GroupsOf(c)  == c \div 8 + (IF c % 8 # 0 THEN 1 ELSE 0)
PixelSize(c) == 10 * GroupsOf(c)
Align4(n)    == n + ((4 - (n % 4)) % 4)
RowSize(s, c, pad) == IF pad THEN Align4(s.w * s.z * PixelSize(c)) ELSE s.w * s.z * PixelSize(c)
Size(s)      == s.h * s.w * s.z * s.c

(* The offsets that the loops over rows and pixels add up.                 *)
Offsets(n, step) == LET at[i \in 0..n] == IF i = 0 THEN 0 ELSE at[i - 1] + step IN at

(* The addresses of the packets of a tensor, group g of pixel i.           *)
(* convert_gbf goes from pixel to pixel, convert_gbf_row_pad from row to   *)
(* row and, within it, from pixel to pixel.                                *)
Packets(s, c) == (0..(s.h * s.w * s.z) - 1) \X (0..GroupsOf(c) - 1)
PlacesFlat(s, c) == [ig \in Packets(s, c) |-> PixelSize(c) * ig[1] + 10 * ig[2]]
PlacesRows(s, c) ==
  LET rows   == Offsets(s.h, RowSize(s, c, TRUE))
      pixels == Offsets(s.w * s.z, PixelSize(c))
  IN [ig \in Packets(s, c) |-> rows[ig[1] \div (s.w * s.z)] + pixels[ig[1] % (s.w * s.z)] + 10 * ig[2]]

Places(s, c, pad) == IF pad THEN PlacesRows(s, c) ELSE PlacesFlat(s, c)

(* The numbers of a tensor that go into a packet.                          *)
Slice(words, s, ig) ==
  LET first == ig[1] * s.c + 8 * ig[2]
  IN SubSeq(words, first + 1, first + (IF s.c - 8 * ig[2] < 8 THEN s.c - 8 * ig[2] ELSE 8))

(* convert_gbf, convert_gbf_row_pad.                                       *)
convert_gbf(words, s, pad, wrap) ==
  LET places == Places(s, s.c, pad)
  IN [a \in Range(places) |->
        gbf_encode(Slice(words, s, CHOOSE ig \in DOMAIN places : places[ig] = a), wrap)]

(* unconvert_gbf, unconvert_gbf_row_pad.                                   *)
unconvert_gbf(buffer, s, pad, arch) ==
  LET places  == Places(s, s.c, pad)
      decoded == [a \in DOMAIN buffer |-> gbf_decode(buffer[a], arch)]
  IN [i \in 1..Size(s) |->
        LET channel == (i - 1) % s.c
        IN  decoded[places[<<(i - 1) \div s.c, channel \div 8>>]][channel % 8]]

(* unconvert_gbf_hpoc: the packets hold dummy channels too.  For each      *)
(* channel of a pixel, how many of the indexes it has passed, and where it *)
(* goes.  The index read last lies behind the array: stray.                *)
Index(hpoc, n, stray) == IF n < Len(hpoc) THEN hpoc[n + 1] ELSE stray

HpocWalk(hpoc, num_gbf_ch, stray) ==
  LET Step(was, ch) ==
        IF was.dummies < num_gbf_ch /\ ch = Index(hpoc, was.dummies, stray)
        THEN [was EXCEPT !.dummies = @ + 1]
        ELSE IF ch < num_gbf_ch THEN [was EXCEPT !.taken = Append(@, ch)]
        ELSE was
  IN FoldLeft(Step, [dummies |-> 0, taken |-> <<>>], [n \in 1..8 * GroupsOf(num_gbf_ch) |-> n - 1]).taken

(* What it leaves unwritten keeps its old value.                           *)
unconvert_gbf_hpoc(buffer, old, s, pad, hpoc, stray, arch) ==
  LET num_gbf_ch == s.c + Len(hpoc)
      places  == Places(s, num_gbf_ch, pad)
      taken   == HpocWalk(hpoc, num_gbf_ch, stray)
      decoded == [a \in DOMAIN buffer |-> gbf_decode(buffer[a], arch)]
  IN  [i \in 1..Size(s) |->
         LET channel == ((i - 1) % s.c) + 1 IN
         IF channel > Len(taken) THEN old[i]
         ELSE decoded[places[<<(i - 1) \div s.c, taken[channel] \div 8>>]][taken[channel] % 8]]

-----------------------------------------------------------------------------
(* bf16.  The x86 code packs two vectors of eight by half vectors and puts *)
(* the four halves in order: 0, 2, 1, 3 (0xD8).                            *)

Rounded(w) == Masked(Added(w)) \div 2

Packus(a, b) == SubSeq(a, 1, 4) \o SubSeq(b, 1, 4) \o SubSeq(a, 5, 8) \o SubSeq(b, 5, 8)
Permute(v, order) == FlattenSeq([q \in 1..4 |-> SubSeq(v, 4 * order[q] + 1, 4 * order[q] + 4)])

ConvertX86(words) ==
  LET n == 16 * (Len(words) \div 16)
      h == [i \in 1..Len(words) |-> Rounded(words[i])]
  IN  FlattenSeq([v \in 1..n \div 16 |->
                    Permute(Packus(SubSeq(h, 16 * v - 15, 16 * v - 8), SubSeq(h, 16 * v - 7, 16 * v)),
                            <<0, 2, 1, 3>>)])
        \o SubSeq(h, n + 1, Len(h))

convert_bf16(words, arch) ==
  IF arch = "x86" THEN ConvertX86(words) ELSE [i \in 1..Len(words) |-> Rounded(words[i])]

unconvert_bf16(halves) == [i \in DOMAIN halves |-> 2 * halves[i]]

-----------------------------------------------------------------------------
(* What the conversions are for.                                           *)

(* A mantissa t with the exponent exp stands for w but for a unit of its   *)
(* last place, and err halves of a unit of w's.                            *)
Within(a, b, err) == a - b <= err /\ b - a <= err
StandsFor(t, exp, w, err) ==
  LET shift == exp - Exponent(w)
      exact == 2^8 + (w % 2^8)
  IN IF shift > 9 THEN t = 0
     ELSE IF shift >= 0 THEN Within(2^(shift + 1) * t, exact, 2^(shift + 1) + err)
     ELSE FALSE

(* The float32 w is t units with the exponent exp, unless that is too      *)
(* small for a float32's exponent.                                         *)
IsNumber(w, sign, t, exp) ==
  /\ SignOf(w) = sign
  /\ IF t = 0 THEN Exponent(w) = 0 /\ Fraction(w) = 0
     ELSE \/ \E d \in 0..7 : 2^7 + Fraction(w) = t * 2^d /\ Exponent(w) + d = exp
          \/ Exponent(w) = 0 /\ \E d \in 0..7 : exp <= d /\ t * 2^d >= 2^7
=============================================================================
