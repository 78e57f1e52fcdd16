--------------------------------- MODULE Eeprom ---------------------------------
(***************************************************************************)
(* Blocks of the Wiimote's memory, pkg/eeprom, read through either driver: *)
(* the file of the kernel driver (driver/linuxkernel/eeprom.go), or the    *)
(* requests of the raw-HID driver (readMemory).                            *)
(*                                                                         *)
(* A block is kept twice, one copy after the other.  readTwice takes the   *)
(* first that can be read and whose checksum is right.                     *)
(***************************************************************************)
EXTENDS Integers, Sequences, FiniteSets, SequencesExt

CONSTANTS
  Chunk,    \* the most that is read at once (16 in the code)
  Data,     \* bytes of an intact block, without its checksum
  Magic,    \* the bytes that a Mii block begins with
  Bytes,    \* BOUND: values that a damaged byte can have
  Bits      \* of a byte of this model (8 in the code)

ASSUME ChunkAssumption == Chunk \in Nat \ {0} /\ Bits \in Nat \ {0}
ASSUME ByteAssumption ==
  Bytes \subseteq 0 .. 2 ^ Bits - 1 /\ {Data, Magic} \subseteq Seq(0 .. 2 ^ Bits - 1)

VARIABLES
  driver, kind,     \* "kernel" or "hid"; "calibration" or "mii"
  block,            \* the block that was written
  image, faults,    \* the memory, from the block on; addresses not readable
  i,                \* the copy that readTwice is at
  dest, n,          \* the destination, and how much of it is read
  pos,              \* the offset of the kernel's file
  err, last,        \* of the read, and of the copies so far
  outcome,
  \* history
  whole,            \* a copy was read to its end
  skipped           \* in this copy, the kernel driver went on after a failed read

eepromVars == <<driver, kind, block, image, faults, i, dest, n, pos, err, last, outcome, whole, skipped>>
given == <<driver, kind, block, image, faults>>

-----------------------------------------------------------------------------
(* The checksums *)

Low == 2 ^ Bits
Sum(bytes) == FoldLeft(LAMBDA s, b : (s + b) % Low, 85 % Low, bytes)

\* The last byte is the sum of the others, from 0x55 on.
calibCRC(b) == Last(b) = Sum(Front(b))

\* A register of twice the bits of a byte, as the set of those that are one.
Register == 2 * Bits
Xor(a, b) == (a \ b) \cup (b \ a)
Shift(crc, in) ==
  Xor({k + 1 : k \in crc \ {Register - 1}} \cup in,
      IF Register - 1 \in crc THEN {0, 5, 12} \cap 0 .. Register - 1 ELSE {})
IsOne(b, k) == (b \div 2 ^ k) % 2 = 1

\* The bits of a byte go in from the highest, and then as many zeros as the
\* register has.
Enter(crc, b) == FoldLeft(LAMBDA c, k : Shift(c, IF IsOne(b, Bits - k) THEN {0} ELSE {}),
                          crc, [k \in 1 .. Bits |-> k])
CRC(bytes) == FoldLeft(Enter, {}, bytes \o <<0, 0>>)
Value(S) == FoldLeft(LAMBDA s, k : IF k - 1 \in S THEN s + 2 ^ (k - 1) ELSE s, 0,
                      [k \in 1 .. Register |-> k])

miiCRC(b) ==
  LET body == SubSeq(b, 1, Len(b) - 2) IN
  b[Len(b) - 1] * Low + b[Len(b)] = Value(CRC(body))

-----------------------------------------------------------------------------
(* What is in the memory *)

Block(k) ==
  IF k = "calibration" THEN Append(Data, Sum(Data))
  ELSE LET body == Magic \o Data
           crc == Value(CRC(body)) IN body \o <<crc \div Low, crc % Low>>

Size == Len(block)
Copy(c) == SubSeq(image, c * Size + 1, (c + 1) * Size)
Addresses(c) == c * Size .. (c + 1) * Size - 1

\* An intact block, or one with a wrong byte.
Damaged(b) == {b} \cup {[b EXCEPT ![p] = v] : p \in DOMAIN b, v \in Bytes}

EepromInit ==
  /\ driver \in {"kernel", "hid"} /\ kind \in {"calibration", "mii"}
  /\ block = Block(kind)
  /\ \E first, second \in Damaged(block), after \in Bytes : image = first \o second \o <<after, after>>
  /\ \E a \in 0 .. Len(image) : faults \in {{a} \cap 0 .. Len(image) - 1, 0 .. a - 1}
  /\ i = 0 /\ dest = [k \in 1 .. Size |-> 0] /\ n = 0 /\ pos = 0
  /\ err = "nil" /\ last = "nil" /\ outcome = "reading"
  /\ whole = FALSE /\ skipped = FALSE

-----------------------------------------------------------------------------
(* ReadAt *)

Smaller(a, b) == IF a < b THEN a ELSE b
Range0(from, k) == from .. from + k - 1
Reading == outcome = "reading" /\ err = "nil" /\ n < Size

\* k bytes of the memory, from this address on, are read.
Take(address, k) ==
  /\ dest' = [p \in 1 .. Size |-> IF p \in n + 1 .. n + k THEN image[address + p - n] ELSE dest[p]]
  /\ n' = n + k

\* The kernel's file: a read gives what the Wiimote sends at once.
KernelRead ==
  /\ driver = "kernel" /\ Reading /\ n >= 0
  /\ pos < Len(image)
  /\ LET k == Smaller(Smaller(Size - n, Chunk), Len(image) - pos) IN
     /\ Range0(pos, k) \cap faults = {}
     /\ Take(pos, k) /\ pos' = pos + k
  /\ UNCHANGED <<given, i, err, last, outcome, whole, skipped>>

\* EIO: the file is moved on by one, the count, by the -1 that Read returned,
\* back by one.
KernelSkip ==
  /\ driver = "kernel" /\ Reading /\ n >= 0
  /\ Range0(pos, Smaller(Size - n, Chunk)) \cap faults # {}
  /\ n' = n - 1 /\ pos' = pos + 1 /\ skipped' = TRUE
  /\ UNCHANGED <<given, i, dest, err, last, outcome, whole>>

\* The end of the file.
KernelEnd ==
  /\ driver = "kernel" /\ Reading /\ n >= 0 /\ pos >= Len(image)
  /\ err' = "no progress"
  /\ UNCHANGED <<given, i, dest, n, pos, last, outcome, whole, skipped>>

\* A slice that begins at -1: the reading ends here, whatever the other copy is.
KernelPanic ==
  /\ driver = "kernel" /\ Reading /\ n < 0
  /\ outcome' = "panic"
  /\ UNCHANGED <<given, i, dest, n, pos, err, last, whole, skipped>>

\* readMemory: the answer to a request has all bytes, or an error.
HidRead ==
  /\ driver = "hid" /\ Reading
  /\ LET k == Smaller(Size - n, Chunk)
         address == i * Size + n IN
     IF Range0(address, k) \cap faults = {}
     THEN Take(address, k) /\ err' = err
     ELSE err' = "refused" /\ UNCHANGED <<dest, n>>
  /\ UNCHANGED <<given, i, pos, last, outcome, whole, skipped>>

-----------------------------------------------------------------------------
(* readTwice *)

Returned == outcome = "reading" /\ (err # "nil" \/ n >= Size)

\* The next copy, or the end with the last error, which is nil if none was kept.
Continue(e) ==
  /\ last' = e /\ err' = "nil" /\ n' = 0 /\ i' = i + 1 /\ pos' = (i + 1) * Size
  /\ outcome' = IF i = 0 THEN "reading" ELSE IF e = "nil" THEN "ok" ELSE "failed"
  /\ skipped' = FALSE
  /\ UNCHANGED <<given, dest, whole>>

\* A read of nothing is passed over, with its error.
CopyEmpty == Returned /\ n = 0 /\ Continue(last)

CopyShort == Returned /\ n \notin {0, Size} /\ Continue(err)

Right == /\ kind = "mii" => IsPrefix(Magic, dest) /\ miiCRC(dest)
         /\ kind = "calibration" => calibCRC(dest)

\* Mutant of CopyWhole: the checksum of the second copy is not looked at.
CopyTrusted ==
  /\ Returned /\ n = Size
  /\ IF Right \/ i = 1
     THEN outcome' = "ok" /\ whole' = TRUE /\ UNCHANGED <<given, i, dest, n, pos, err, last, skipped>>
     ELSE Continue("mismatch")

\* Mutant of CopyWhole: a wrong checksum ends the reading.
CopyFinal ==
  /\ Returned /\ n = Size
  /\ outcome' = IF Right THEN "ok" ELSE "failed"
  /\ whole' = TRUE
  /\ UNCHANGED <<given, i, dest, n, pos, err, last, skipped>>

CopyWhole ==
  /\ Returned /\ n = Size
  /\ IF Right
     THEN outcome' = "ok" /\ whole' = TRUE /\ UNCHANGED <<given, i, dest, n, pos, err, last, skipped>>
     ELSE Continue("mismatch")

EepromNext ==
  \/ KernelRead \/ KernelSkip \/ KernelEnd \/ KernelPanic \/ HidRead
  \/ CopyEmpty \/ CopyShort \/ CopyWhole

EepromSpec == EepromInit /\ [][EepromNext]_eepromVars

-----------------------------------------------------------------------------
\* A copy from which the block cannot be had.
Lost(c) == Copy(c) # block \/ Addresses(c) \cap faults # {}

\* A block that is returned without an error, from a copy that was read without
\* a skip, is the block that was written: a wrong byte does not get past the
\* checksum.  (When no byte of either copy can be read, the block is returned
\* empty and without an error.)
Undamaged == outcome = "ok" /\ whole /\ ~skipped => dest = block

\* readTwice ends without a block only when the block cannot be had from the
\* first copy, and, unless the file of the kernel driver panics, not from the
\* second either.  (The panic, linuxkernel/eeprom.go:23, takes the second copy
\* away although it may be good.)
OneCopyEnough ==
  outcome \in {"failed", "panic"} =>
    /\ Lost(0)
    /\ outcome = "failed" \/ driver = "hid" => Lost(1)
================================================================================
