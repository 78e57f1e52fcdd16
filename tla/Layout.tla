--------------------------------- MODULE Layout ---------------------------------
(***************************************************************************)
(* What the bits of a block of the Wiimote's memory mean: DecodeMii and    *)
(* the slots of a Mii block (pkg/eeprom/mii.go), and the calibration of    *)
(* camera and accelerometer (readblock.go).                                *)
(*                                                                         *)
(* A block is the set of its bits that are one, each as its byte and its   *)
(* place in it; a number read from it, the set of its bits.                *)
(***************************************************************************)
EXTENDS Integers, Sequences, FiniteSets, SequencesExt

CONSTANT
  Places   \* BOUND: of the bytes of a whole block, the places looked at

ASSUME PlacesAssumption == Places \subseteq 0 .. 7

VARIABLES
  table,   \* which decoding
  bit      \* a bit of the block

Bit(byte, place) == <<byte, place>>

\* width bits of a big-endian word of so many bytes at offset, from shift on.
Field(offset, bytes, shift, width) ==
  [k \in 0 .. width - 1 |->
     Bit(offset + bytes - 1 - (shift + k) \div 8, (shift + k) % 8)]

Byte(offset) == Field(offset, 1, 0, 8)

-----------------------------------------------------------------------------
(* DecodeMii *)

\* Mutant of EyeFields: one bit too far.
EyeFieldsShifted ==
  [EyeType |-> Field(40, 4, 26, 6), EyeRotation |-> Field(40, 4, 21, 3),
   EyeVertPos |-> Field(40, 4, 17, 5), EyeColor |-> Field(40, 4, 13, 3),
   EyeSize |-> Field(40, 4, 9, 3), EyeHorizSpacing |-> Field(40, 4, 5, 4)]

EyeFields ==
  [EyeType |-> Field(40, 4, 26, 6), EyeRotation |-> Field(40, 4, 21, 3),
   EyeVertPos |-> Field(40, 4, 16, 5), EyeColor |-> Field(40, 4, 13, 3),
   EyeSize |-> Field(40, 4, 9, 3), EyeHorizSpacing |-> Field(40, 4, 5, 4)]

FaceFields ==
  [Invalid |-> Field(0, 2, 15, 1), Female |-> Field(0, 2, 14, 1),
   BirthMonth |-> Field(0, 2, 10, 4), BirthDay |-> Field(0, 2, 5, 5),
   FavColor |-> Field(0, 2, 1, 4), IsFavorite |-> Field(0, 2, 0, 1),
   Height |-> Byte(22), Weight |-> Byte(23), ID |-> Field(24, 4, 0, 32),
   SystemID0 |-> Byte(28), SystemID1 |-> Byte(29), SystemID2 |-> Byte(30), SystemID3 |-> Byte(31),
   FaceShape |-> Field(32, 2, 13, 3), SkinColor |-> Field(32, 2, 10, 3),
   FacialFeature |-> Field(32, 2, 6, 4),
   MingleOff |-> Field(32, 2, 2, 1), Downloaded |-> Field(32, 2, 0, 1),
   HairType |-> Field(34, 2, 9, 7), HairColor |-> Field(34, 2, 6, 3), HairPart |-> Field(34, 2, 5, 1),
   EyebrowType |-> Field(36, 4, 27, 5), EyebrowRotation |-> Field(36, 4, 22, 4),
   EyebrowColor |-> Field(36, 4, 13, 3), EyebrowSize |-> Field(36, 4, 9, 4),
   EyebrowVertPos |-> Field(36, 4, 4, 5), EyebrowHorizSpacing |-> Field(36, 4, 0, 4),
   NoseType |-> Field(44, 2, 12, 4), NoseSize |-> Field(44, 2, 8, 4), NoseVertPos |-> Field(44, 2, 3, 5),
   LipType |-> Field(46, 2, 11, 5), LipColor |-> Field(46, 2, 9, 2),
   LipSize |-> Field(46, 2, 5, 4), LipVertPos |-> Field(46, 2, 0, 5),
   GlassesType |-> Field(48, 2, 12, 4), GlassesColor |-> Field(48, 2, 9, 3),
   GlassesSize |-> Field(48, 2, 5, 3), GlassesVertPos |-> Field(48, 2, 0, 5),
   MustacheType |-> Field(50, 2, 14, 2), BeardType |-> Field(50, 2, 12, 2),
   FacialHairColor |-> Field(50, 2, 9, 3), MustacheSize |-> Field(50, 2, 5, 4),
   MustacheVertPos |-> Field(50, 2, 0, 5),
   MoleOn |-> Field(52, 2, 15, 1), MoleSize |-> Field(52, 2, 11, 4),
   MoleVertPos |-> Field(52, 2, 6, 5), MoleHorizPos |-> Field(52, 2, 1, 5)]

MiiFields == [f \in DOMAIN EyeFields \cup DOMAIN FaceFields |->
               IF f \in DOMAIN EyeFields THEN EyeFields[f] ELSE FaceFields[f]]

\* The bits that the comments of DecodeMii call unknown.
MiiUnknown == UNION {Range(f) : f \in
  {Field(32, 2, 3, 3), Field(32, 2, 1, 1), Field(34, 2, 0, 5), Field(36, 4, 26, 1),
   Field(36, 4, 16, 6), Field(40, 4, 24, 2), Field(40, 4, 12, 1), Field(40, 4, 0, 5),
   Field(44, 2, 0, 3), Field(48, 2, 8, 1), Field(52, 2, 0, 1)}}

\* The ten units of a name, as far as the first that is zero.  Of the creator's
\* name the code slices ten bytes only; the slice goes on to its capacity.
Names == [Name |-> 2, CreatorName |-> 54]
Units(ones, offset) == [u \in 0 .. 9 |-> {k \in 0 .. 15 : Field(offset + 2 * u, 2, 0, 16)[k] \in ones}]
utf16name(ones, offset) ==
  LET units == Units(ones, offset)
      n == CHOOSE m \in 0 .. 10 : (m < 10 => units[m] = {}) /\ \A u \in 0 .. m - 1 : units[u] # {}
  IN [u \in 0 .. n - 1 |-> units[u]]

slotSize == 74
slotOffset == 8

-----------------------------------------------------------------------------
(* The calibration *)

\* Two bits of byte high, from shift on, above the eight of byte low.
IRNumber(low, high, shift) == [k \in 0 .. 9 |-> IF k < 8 THEN Bit(low, k) ELSE Bit(high, shift + k - 8)]

IRFields ==
  [X0 |-> IRNumber(0, 2, 4), Y0 |-> IRNumber(1, 2, 6), X1 |-> IRNumber(3, 2, 0), Y1 |-> IRNumber(4, 2, 2),
   X2 |-> IRNumber(5, 7, 4), Y2 |-> IRNumber(6, 7, 6), X3 |-> IRNumber(8, 7, 0), Y3 |-> IRNumber(9, 7, 2)]

\* Two bits of byte low, from shift on, below the eight of byte high.
AccelNumber(high, low, shift) == [k \in 0 .. 9 |-> IF k < 2 THEN Bit(low, shift + k) ELSE Bit(high, k - 2)]

AccelFields ==
  [X0 |-> AccelNumber(0, 3, 4), Y0 |-> AccelNumber(1, 3, 2), Z0 |-> AccelNumber(2, 3, 0),
   X1 |-> AccelNumber(4, 7, 4), Y1 |-> AccelNumber(5, 7, 2), Z1 |-> AccelNumber(6, 7, 0),
   speaker |-> Field(8, 1, 0, 7), motor |-> Field(8, 1, 7, 1)]

-----------------------------------------------------------------------------
(* Decoding, in general *)

Tables == {"slot", "mii", "ir", "accel"}
Sizes == [slot |-> 752, mii |-> slotSize, ir |-> 10, accel |-> 9]
Unused == [slot |-> {}, mii |-> MiiUnknown, ir |-> {},
           accel |-> Range(Field(3, 1, 6, 2)) \cup Range(Field(7, 1, 6, 2))]

Number(ones, field) == {k \in DOMAIN field : field[k] \in ones}

DecodeWith(ones, fields) == [f \in DOMAIN fields |-> Number(ones, fields[f])]

DecodeMii(ones) ==
  [f \in DOMAIN MiiFields \cup DOMAIN Names |->
     IF f \in DOMAIN Names THEN utf16name(ones, Names[f]) ELSE Number(ones, MiiFields[f])]

\* The slots of a block, and the bit of ParadeMask of each.
MiiSlot(ones, s) ==
  {Bit(b[1] - slotOffset - s * slotSize, b[2]) :
     b \in {c \in ones : c[1] \in slotOffset + s * slotSize .. slotOffset + (s + 1) * slotSize - 1}}
IsParadeMii(ones, s) == s \in Number(ones, Field(4, 2, 0, 16))
MiiSlotSeq(ones) == [s \in 0 .. 9 |-> <<MiiSlot(ones, s), IsParadeMii(ones, s)>>]

Decode(ones) ==
  CASE table = "mii" -> DecodeMii(ones) [] table = "ir" -> DecodeWith(ones, IRFields)
    [] table = "accel" -> DecodeWith(ones, AccelFields) [] table = "slot" -> MiiSlotSeq(ones)

-----------------------------------------------------------------------------
\* The bits of a block; of a whole block those looked at, and the parade bits.
BitsOf(t) ==
  IF t = "slot" THEN ((0 .. Sizes[t] - 1) \X Places) \cup ({4, 5} \X (0 .. 7))
  ELSE (0 .. Sizes[t] - 1) \X (0 .. 7)

\* Bits that no value is made of: the unknown ones, and, of a whole block, the
\* magic, the parade bits of no slot, and what comes after the last slot.
NoValue ==
  IF table = "slot"
  THEN {b \in BitsOf(table) : b[1] \notin {4, 5} \cup 8 .. 747 \/ (b[1] = 4 /\ b[2] > 1)}
  ELSE Unused[table]

layoutVars == <<table, bit>>

LayoutInit == table \in Tables /\ bit \in BitsOf(table)

\* A decoding takes no steps.
LayoutSpec == LayoutInit /\ [][FALSE]_layoutVars

-----------------------------------------------------------------------------
\* Each bit of a block counts in one of the values decoded, and only in that.
BitsOnce ==
  LET all == BitsOf(table)
      full == Decode(all)
      less == Decode(all \ {bit})
  IN Cardinality({f \in DOMAIN full : full[f] # less[f]}) = IF bit \in NoValue THEN 0 ELSE 1
================================================================================
