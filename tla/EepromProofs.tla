----------------------------- MODULE EepromProofs -----------------------------
(* Proofs about the blocks of the memory: one good copy is enough, and a      *)
(* wrong byte does not get past the checksums; and about their layout: each   *)
(* bit of a block counts in one value.                                        *)
EXTENDS Eeprom, Layout, FoldProofs

\* The values of a byte.
ByteValues == 0 .. Low - 1

\* A byte has a value at least.
LEMMA LowType == Low \in Nat /\ Low > 0
BY PowerOfTwo, ChunkAssumption DEF Low

-----------------------------------------------------------------------------
(* The folds of the checksums, step by step *)

\* Sum adds the bytes up, one after the other.
LEMMA SumSteps ==
  ASSUME NEW b \in Seq(Int)
  PROVE  \E h : /\ h[0] = 85 % Low
                /\ \A k \in 1 .. Len(b) : h[k] = (h[k - 1] + b[k]) % Low
                /\ Sum(b) = h[Len(b)]
<1> DEFINE m == Len(b)
           A == ByteValues
           g == [x \in A \X (1 .. m) |-> (x[1] + b[x[2]]) % Low]
           Is(it) == it = [s \in SUBSET DOMAIN b |->
                             IF s = {} THEN 85 % Low
                             ELSE (it[s \ {Max(s)}] + b[Max(s)]) % Low]
           fold == CHOOSE it : Is(it)
           h == [k \in 0 .. m |-> fold[1 .. k]]
<1>0. m \in Nat /\ DOMAIN b = 1 .. m
  OBVIOUS
<1>1. Sum(b) = fold[1 .. m]
  BY <1>0 DEF Sum, FoldLeft, MapThenFoldSet
<1>2. ASSUME NEW x \in A, NEW k \in 1 .. m
      PROVE  g[x, k] = (x + b[k]) % Low /\ g[x, k] \in A
  <2>1. x + b[k] \in Int
    BY <1>0, ElementOf DEF ByteValues
  <2> HIDE DEF m
  <2>2. (x + b[k]) % Low \in A
    BY <2>1, LowType, Division DEF ByteValues
  <2>3. <<x, k>> \in A \X (1 .. m)
    OBVIOUS
  <2> QED
    BY <2>2, <2>3
<1>3. g \in [A \X (1 .. m) -> A] /\ 85 % Low \in A
  <2> HIDE DEF m
  <2>1. \A x \in A \X (1 .. m) : x = <<x[1], x[2]>> /\ x[1] \in A /\ x[2] \in 1 .. m
    OBVIOUS
  <2>2. \A x \in A \X (1 .. m) : (x[1] + b[x[2]]) % Low \in A
    BY <1>2, <2>1
  <2>3. g \in [A \X (1 .. m) -> A]
    BY <2>2
  <2>4. 85 % Low \in A
    BY LowType, Division DEF ByteValues
  <2> QED
    BY <2>3, <2>4
<1> HIDE DEF m, A, g
<1>4. PICK it : FoldsUp(it, A, 85 % Low, m, g)
  BY <1>0, <1>3, FoldFor
<1>5. Is(it)
  BY <1>0, <1>2, <1>4 DEF FoldsUp
<1>6. Is(fold)
  <2> HIDE DEF Is
  <2> QED
    BY <1>5
<1> HIDE DEF fold
<1>7. h[0] = 85 % Low
  <2>1. 1 .. 0 = {} /\ {} \in SUBSET DOMAIN b /\ 0 \in 0 .. m
    BY <1>0
  <2> QED
    BY <1>6, <2>1
<1>8. ASSUME NEW k \in 1 .. m
      PROVE  h[k] = (h[k - 1] + b[k]) % Low
  <2>1. k - 1 \in 0 .. m /\ k \in 0 .. m
    BY <1>0
  <2>2. /\ 1 .. k \in SUBSET DOMAIN b /\ 1 .. k # {}
        /\ Max(1 .. k) = k /\ (1 .. k) \ {k} = 1 .. k - 1
    BY <1>0, FirstOnes
  <2> QED
    BY <1>6, <2>1, <2>2
<1>9. m \in 0 .. m
  BY <1>0
<1> QED
  BY <1>1, <1>7, <1>8, <1>9 DEF m

\* Value adds up the powers of two of the bits that are one.
LEMMA ValueSteps ==
  ASSUME NEW S
  PROVE  \E h : /\ h[0] = 0
                /\ \A k \in 1 .. Register :
                     h[k] = IF k - 1 \in S THEN h[k - 1] + 2 ^ (k - 1) ELSE h[k - 1]
                /\ Value(S) = h[Register]
<1> DEFINE m == Register
           Add(x, k) == IF k - 1 \in S THEN x + 2 ^ (k - 1) ELSE x
           g == [x \in Nat \X (1 .. m) |-> Add(x[1], x[2])]
           Is(it) == it = [s \in SUBSET (1 .. m) |->
                             IF s = {} THEN 0
                             ELSE Add(it[s \ {Max(s)}], [k \in 1 .. m |-> k][Max(s)])]
           fold == CHOOSE it : Is(it)
           h == [k \in 0 .. m |-> fold[1 .. k]]
<1>0. m \in Nat
  BY ChunkAssumption DEF Register
<1>1. Value(S) = fold[1 .. m]
  BY DEF Value, FoldLeft, MapThenFoldSet
<1>2. ASSUME NEW x \in Nat, NEW k \in 1 .. m
      PROVE  g[x, k] = Add(x, k) /\ g[x, k] \in Nat
  <2>1. k - 1 \in Nat
    BY <1>0
  <2>2. 2 ^ (k - 1) \in Nat
    BY <2>1, PowerOfTwo
  <2>3. Add(x, k) \in Nat
    BY <2>2
  <2> HIDE DEF Add, m
  <2> QED
    BY <2>3
<1>3. g \in [Nat \X (1 .. m) -> Nat]
  <2>1. \A x \in Nat \X (1 .. m) : x = <<x[1], x[2]>> /\ x[1] \in Nat /\ x[2] \in 1 .. m
    OBVIOUS
  <2> HIDE DEF m, Add
  <2>2. \A x \in Nat \X (1 .. m) : Add(x[1], x[2]) \in Nat
    BY <1>2, <2>1
  <2> QED
    BY <2>2
<1> HIDE DEF m, g, Add
<1>4. PICK it : FoldsUp(it, Nat, 0, m, g)
  BY <1>0, <1>3, FoldFor
<1>5. Is(it)
  BY <1>0, <1>2, <1>4 DEF FoldsUp
<1>6. Is(fold)
  <2> HIDE DEF Is
  <2> QED
    BY <1>5
<1> HIDE DEF fold
<1>7. h[0] = 0
  <2>1. 1 .. 0 = {} /\ {} \in SUBSET (1 .. m) /\ 0 \in 0 .. m
    BY <1>0
  <2> QED
    BY <1>6, <2>1
<1>8. ASSUME NEW k \in 1 .. m
      PROVE  h[k] = Add(h[k - 1], k)
  <2>1. k - 1 \in 0 .. m /\ k \in 0 .. m
    BY <1>0
  <2>2. /\ 1 .. k \in SUBSET (1 .. m) /\ 1 .. k # {}
        /\ Max(1 .. k) = k /\ (1 .. k) \ {k} = 1 .. k - 1
    BY <1>0, FirstOnes
  <2> QED
    BY <1>6, <2>1, <2>2
<1>9. m \in 0 .. m
  BY <1>0
<1> QED
  BY <1>1, <1>7, <1>8, <1>9 DEF m, Add

\* Enter shifts the bits of a byte in, one after the other.
LEMMA EnterSteps ==
  ASSUME NEW crc \in SUBSET Int, NEW b
  PROVE  \E h : /\ h[0] = crc
                /\ \A k \in 1 .. Bits :
                     h[k] = Shift(h[k - 1], IF IsOne(b, Bits - k) THEN {0} ELSE {})
                /\ Enter(crc, b) = h[Bits]
<1> DEFINE m == Bits
           A == SUBSET Int
           In(x, k) == Shift(x, IF IsOne(b, Bits - k) THEN {0} ELSE {})
           g == [x \in A \X (1 .. m) |-> In(x[1], x[2])]
           Is(it) == it = [s \in SUBSET (1 .. m) |->
                             IF s = {} THEN crc
                             ELSE In(it[s \ {Max(s)}], [k \in 1 .. m |-> k][Max(s)])]
           fold == CHOOSE it : Is(it)
           h == [k \in 0 .. m |-> fold[1 .. k]]
<1>0. m \in Nat
  BY ChunkAssumption
<1>1. Enter(crc, b) = fold[1 .. m]
  BY DEF Enter, FoldLeft, MapThenFoldSet
<1>2. ASSUME NEW x \in A, NEW k \in 1 .. m
      PROVE  g[x, k] = In(x, k) /\ g[x, k] \in A
  <2>1. Register \in Int
    BY ChunkAssumption DEF Register
  <2>2. Shift(x, {0}) \in A /\ Shift(x, {}) \in A
    <3>1. {j + 1 : j \in x \ {Register - 1}} \in A
      OBVIOUS
    <3>2. {0, 5, 12} \cap 0 .. Register - 1 \in A
      BY <2>1
    <3> QED
      BY <3>1, <3>2 DEF Shift, Xor
  <2>3. In(x, k) \in A
    BY <2>2
  <2> HIDE DEF In, A, m
  <2> QED
    BY <2>3
<1>3. g \in [A \X (1 .. m) -> A]
  <2> HIDE DEF m, In, A
  <2>1. \A x \in A \X (1 .. m) : x = <<x[1], x[2]>> /\ x[1] \in A /\ x[2] \in 1 .. m
    OBVIOUS
  <2>2. \A x \in A \X (1 .. m) : In(x[1], x[2]) \in A
    BY <1>2, <2>1
  <2> QED
    BY <2>2
<1> HIDE DEF m, g, In, A
<1>4. PICK it : FoldsUp(it, A, crc, m, g)
  <2>1. crc \in A
    BY DEF A
  <2> QED
    BY <1>0, <1>3, <2>1, FoldFor
<1>5. Is(it)
  BY <1>0, <1>2, <1>4 DEF FoldsUp
<1>6. Is(fold)
  <2> HIDE DEF Is
  <2> QED
    BY <1>5
<1> HIDE DEF fold
<1>7. h[0] = crc
  <2>1. 1 .. 0 = {} /\ {} \in SUBSET (1 .. m) /\ 0 \in 0 .. m
    BY <1>0
  <2> QED
    BY <1>6, <2>1
<1>8. ASSUME NEW k \in 1 .. m
      PROVE  h[k] = In(h[k - 1], k)
  <2>1. k - 1 \in 0 .. m /\ k \in 0 .. m
    BY <1>0
  <2>2. /\ 1 .. k \in SUBSET (1 .. m) /\ 1 .. k # {}
        /\ Max(1 .. k) = k /\ (1 .. k) \ {k} = 1 .. k - 1
    BY <1>0, FirstOnes
  <2> QED
    BY <1>6, <2>1, <2>2
<1>9. m \in 0 .. m
  BY <1>0
<1> QED
  BY <1>1, <1>7, <1>8, <1>9 DEF m, In

\* The registers of the checksum.
States == SUBSET (0 .. Register - 1)

\* A register stays one; where each bit of it comes from.
LEMMA Shifted ==
  ASSUME NEW crc \in States, NEW in \in {{}, {0}}
  PROVE  /\ Shift(crc, in) \in States
         /\ 0 \in Shift(crc, in) <=> ((0 \in in) # (Register - 1 \in crc))
         /\ \A j \in 1 .. Register - 1 :
              j \in Shift(crc, in) <=> ((j - 1 \in crc) # (Register - 1 \in crc /\ j \in {5, 12}))
<1> DEFINE top == Register - 1
           moved == {k + 1 : k \in crc \ {top}}
           fed == IF top \in crc THEN {0, 5, 12} \cap 0 .. top ELSE {}
<1>0. Register \in Nat /\ top \in Nat /\ top >= 1
  BY ChunkAssumption DEF Register
<1>1. Shift(crc, in) = Xor(moved \cup in, fed)
  BY DEF Shift
<1>2. \A j \in Int : j \in moved <=> (j - 1 \in crc /\ j - 1 # top)
  <2>1. \A k \in crc : k \in Int
    BY <1>0 DEF States
  <2> QED
    BY <2>1
<1>3. moved \subseteq 1 .. top
  BY <1>0 DEF States
<1>4. fed \subseteq 0 .. top /\ \A j \in 0 .. top : j \in fed <=> (top \in crc /\ j \in {0, 5, 12})
  OBVIOUS
<1> HIDE DEF moved, fed
<1>5. Shift(crc, in) \in States
  <2>1. in \subseteq 0 .. top /\ moved \subseteq 0 .. top
    BY <1>0, <1>3
  <2>2. Xor(moved \cup in, fed) \subseteq 0 .. top
    BY <1>4, <2>1 DEF Xor
  <2> QED
    BY <1>1, <2>2 DEF States
<1>6. \A j : j \in Shift(crc, in) <=> ((j \in moved \/ j \in in) # (j \in fed))
  BY <1>1 DEF Xor
<1>7. 0 \notin moved /\ (0 \in fed <=> top \in crc)
  BY <1>0, <1>3, <1>4
<1>8. ASSUME NEW j \in 1 .. top
      PROVE  j \in Shift(crc, in) <=> ((j - 1 \in crc) # (top \in crc /\ j \in {5, 12}))
  <2>1. j \notin in /\ j # 0 /\ j \in 0 .. top /\ j \in Int /\ j - 1 # top
    BY <1>0
  <2>2. j \in moved <=> j - 1 \in crc
    BY <1>2, <2>1
  <2>3. j \in fed <=> (top \in crc /\ j \in {5, 12})
    BY <1>4, <2>1
  <2> QED
    BY <1>6, <2>1, <2>2, <2>3
<1> QED
  BY <1>5, <1>6, <1>7, <1>8

\* A register that has taken in a byte is one.
LEMMA EnterType ==
  ASSUME NEW crc \in States, NEW b
  PROVE  Enter(crc, b) \in States
<1>0. Bits \in Nat /\ Register - 1 \in Int
  BY ChunkAssumption DEF Register
<1>1. crc \in SUBSET Int
  BY <1>0 DEF States
<1>2. PICK h : /\ h[0] = crc
               /\ \A k \in 1 .. Bits :
                    h[k] = Shift(h[k - 1], IF IsOne(b, Bits - k) THEN {0} ELSE {})
               /\ Enter(crc, b) = h[Bits]
  BY <1>1, EnterSteps
<1> DEFINE S == {k \in 0 .. Bits : h[k] \in States}
<1>3. 0 \in S
  BY <1>0, <1>2
<1>4. ASSUME NEW k \in 1 .. Bits, k - 1 \in S
      PROVE  k \in S
  <2>1. h[k - 1] \in States
    BY <1>4
  <2>2. h[k] = Shift(h[k - 1], {0}) \/ h[k] = Shift(h[k - 1], {})
    BY <1>2
  <2>3. h[k] \in States
    BY <2>1, <2>2, Shifted
  <2> QED
    BY <1>0, <2>3
<1> HIDE DEF S
<1>5. Bits \in S
  BY <1>0, <1>3, <1>4, UpTo
<1> QED
  BY <1>2, <1>5 DEF S

\* CRC takes the bytes in, one after the other, and then the zeros.
LEMMA CRCSteps ==
  ASSUME NEW b \in Seq(Int)
  PROVE  \E h : /\ h[0] = {}
                /\ \A k \in 1 .. Len(b) + 2 : h[k] = Enter(h[k - 1], (b \o <<0, 0>>)[k])
                /\ CRC(b) = h[Len(b) + 2]
<1> DEFINE all == b \o <<0, 0>>
           m == Len(b) + 2
           g == [x \in States \X (1 .. m) |-> Enter(x[1], all[x[2]])]
           Is(it) == it = [s \in SUBSET DOMAIN all |->
                             IF s = {} THEN {} ELSE Enter(it[s \ {Max(s)}], all[Max(s)])]
           fold == CHOOSE it : Is(it)
           h == [k \in 0 .. m |-> fold[1 .. k]]
<1>0. m \in Nat /\ DOMAIN all = 1 .. m
  OBVIOUS
<1>1. CRC(b) = fold[1 .. m]
  BY <1>0 DEF CRC, FoldLeft, MapThenFoldSet
<1>2. ASSUME NEW x \in States, NEW k \in 1 .. m
      PROVE  g[x, k] = Enter(x, all[k]) /\ g[x, k] \in States
  <2>1. Enter(x, all[k]) \in States
    BY EnterType
  <2> HIDE DEF all, m
  <2> QED
    BY <2>1
<1>3. g \in [States \X (1 .. m) -> States]
  <2> HIDE DEF m, all
  <2>1. \A x \in States \X (1 .. m) : x = <<x[1], x[2]>> /\ x[1] \in States /\ x[2] \in 1 .. m
    OBVIOUS
  <2>2. \A x \in States \X (1 .. m) : Enter(x[1], all[x[2]]) \in States
    BY <1>2, <2>1
  <2> QED
    BY <2>2
<1> HIDE DEF m, g, all
<1>4. PICK it : FoldsUp(it, States, {}, m, g)
  <2>1. {} \in States
    BY DEF States
  <2> QED
    BY <1>0, <1>3, <2>1, FoldFor
<1>5. Is(it)
  BY <1>0, <1>2, <1>4 DEF FoldsUp
<1>6. Is(fold)
  <2> HIDE DEF Is
  <2> QED
    BY <1>5
<1> HIDE DEF fold
<1>7. h[0] = {}
  <2>1. 1 .. 0 = {} /\ {} \in SUBSET DOMAIN all /\ 0 \in 0 .. m
    BY <1>0
  <2> QED
    BY <1>6, <2>1
<1>8. ASSUME NEW k \in 1 .. m
      PROVE  h[k] = Enter(h[k - 1], all[k])
  <2>1. k - 1 \in 0 .. m /\ k \in 0 .. m
    BY <1>0
  <2>2. /\ 1 .. k \in SUBSET DOMAIN all /\ 1 .. k # {}
        /\ Max(1 .. k) = k /\ (1 .. k) \ {k} = 1 .. k - 1
    BY <1>0, FirstOnes
  <2> QED
    BY <1>6, <2>1, <2>2
<1>9. m \in 0 .. m
  BY <1>0
<1> QED
  BY <1>1, <1>7, <1>8, <1>9 DEF m, all

-----------------------------------------------------------------------------
(* What the checksums tell apart *)

\* Nothing is lost in a shift: the bit that drops out comes back as bit 0.
LEMMA ShiftApart ==
  ASSUME NEW c \in States, NEW d \in States, NEW in \in {{}, {0}}, Shift(c, in) = Shift(d, in)
  PROVE  c = d
<1>0. Register - 1 \in Nat
  BY ChunkAssumption DEF Register
<1>a. \A j \in 1 .. Register - 1 :
        j \in Shift(c, in) <=> ((j - 1 \in c) # (Register - 1 \in c /\ j \in {5, 12}))
  BY Shifted
<1>b. \A j \in 1 .. Register - 1 :
        j \in Shift(d, in) <=> ((j - 1 \in d) # (Register - 1 \in d /\ j \in {5, 12}))
  BY Shifted
<1>c. /\ 0 \in Shift(c, in) <=> ((0 \in in) # (Register - 1 \in c))
      /\ 0 \in Shift(d, in) <=> ((0 \in in) # (Register - 1 \in d))
  BY Shifted
<1>1. Register - 1 \in c <=> Register - 1 \in d
  BY <1>c
<1>2. ASSUME NEW j \in 0 .. Register - 1
      PROVE  j \in c <=> j \in d
  <2>1. CASE j = Register - 1
    BY <1>1, <2>1
  <2>2. CASE j # Register - 1
    <3>1. j + 1 \in 1 .. Register - 1 /\ (j + 1) - 1 = j
      BY <1>0, <2>2
    <3>2. j + 1 \in Shift(c, in) <=> ((j \in c) # (Register - 1 \in c /\ j + 1 \in {5, 12}))
      BY <1>a, <3>1
    <3>3. j + 1 \in Shift(d, in) <=> ((j \in d) # (Register - 1 \in d /\ j + 1 \in {5, 12}))
      BY <1>b, <3>1
    <3> QED
      BY <1>1, <3>2, <3>3
  <2> QED
    BY <2>1, <2>2
<1> QED
  BY <1>2 DEF States

\* Registers that differ still differ when both have taken in the same byte.
LEMMA EnterApart ==
  ASSUME NEW c \in States, NEW d \in States, NEW b, Enter(c, b) = Enter(d, b)
  PROVE  c = d
<1> DEFINE In(k) == IF IsOne(b, Bits - k) THEN {0} ELSE {}
<1>0. Bits \in Nat /\ c \in SUBSET Int /\ d \in SUBSET Int /\ \A k : In(k) \in {{}, {0}}
  BY ChunkAssumption DEF Register, States
<1>1. PICK h : /\ h[0] = c
               /\ \A k \in 1 .. Bits : h[k] = Shift(h[k - 1], In(k))
               /\ Enter(c, b) = h[Bits]
  BY <1>0, EnterSteps
<1>2. PICK e : /\ e[0] = d
               /\ \A k \in 1 .. Bits : e[k] = Shift(e[k - 1], In(k))
               /\ Enter(d, b) = e[Bits]
  BY <1>0, EnterSteps
<1> HIDE DEF In
<1> DEFINE S == {k \in 0 .. Bits : /\ h[k] \in States /\ e[k] \in States
                                   /\ h[k] = e[k] => c = d}
<1>3. 0 \in S
  BY <1>0, <1>1, <1>2
<1>4. ASSUME NEW k \in 1 .. Bits, k - 1 \in S
      PROVE  k \in S
  <2>1. /\ h[k - 1] \in States /\ e[k - 1] \in States
        /\ h[k - 1] = e[k - 1] => c = d
    BY <1>4
  <2>2. /\ h[k] = Shift(h[k - 1], In(k)) /\ e[k] = Shift(e[k - 1], In(k))
        /\ In(k) \in {{}, {0}}
    BY <1>0, <1>1, <1>2
  <2>3. h[k] \in States /\ e[k] \in States
    <3>1. Shift(h[k - 1], In(k)) \in States
      BY <2>1, <2>2, Shifted
    <3>2. Shift(e[k - 1], In(k)) \in States
      BY <2>1, <2>2, Shifted
    <3> QED
      BY <2>2, <3>1, <3>2
  <2>4. h[k] = e[k] => h[k - 1] = e[k - 1]
    BY <2>1, <2>2, ShiftApart
  <2> QED
    BY <1>0, <2>1, <2>3, <2>4
<1> HIDE DEF S
<1>5. Bits \in S
  BY <1>0, <1>3, <1>4, UpTo
<1> QED
  BY <1>1, <1>2, <1>5 DEF S

\* Two registers whose highest difference is among the lowest k bits.
Differ(c, d, k) ==
  \E j \in 0 .. k - 1 : /\ (j \in c) # (j \in d)
                        /\ \A up \in j + 1 .. Register - 1 : up \in c <=> up \in d

\* That difference moves up, whatever bits come in.
LEMMA DifferMoves ==
  ASSUME NEW c \in States, NEW d \in States, NEW k \in 0 .. Register - 1, Differ(c, d, k),
         NEW in \in {{}, {0}}, NEW other \in {{}, {0}}
  PROVE  Differ(Shift(c, in), Shift(d, other), k + 1)
<1>0. Register - 1 \in Nat
  BY ChunkAssumption DEF Register
<1>1. \A j \in 1 .. Register - 1 :
        j \in Shift(c, in) <=> ((j - 1 \in c) # (Register - 1 \in c /\ j \in {5, 12}))
  BY Shifted
<1>2. \A j \in 1 .. Register - 1 :
        j \in Shift(d, other) <=> ((j - 1 \in d) # (Register - 1 \in d /\ j \in {5, 12}))
  BY Shifted
<1>3. PICK j \in 0 .. k - 1 : /\ (j \in c) # (j \in d)
                              /\ \A up \in j + 1 .. Register - 1 : up \in c <=> up \in d
  BY DEF Differ
<1>4. Register - 1 \in c <=> Register - 1 \in d
  BY <1>0, <1>3
<1>5. j + 1 \in 0 .. (k + 1) - 1 /\ j + 1 \in 1 .. Register - 1 /\ (j + 1) - 1 = j
  BY <1>0, <1>3
<1>6. (j + 1 \in Shift(c, in)) # (j + 1 \in Shift(d, other))
  <2>1. j + 1 \in Shift(c, in) <=> ((j \in c) # (Register - 1 \in c /\ j + 1 \in {5, 12}))
    BY <1>1, <1>5
  <2>2. j + 1 \in Shift(d, other) <=> ((j \in d) # (Register - 1 \in d /\ j + 1 \in {5, 12}))
    BY <1>2, <1>5
  <2> QED
    BY <1>3, <1>4, <2>1, <2>2
<1>7. ASSUME NEW up \in (j + 1) + 1 .. Register - 1
      PROVE  up \in Shift(c, in) <=> up \in Shift(d, other)
  <2>1. up \in 1 .. Register - 1 /\ up - 1 \in j + 1 .. Register - 1
    BY <1>0, <1>3
  <2>2. up - 1 \in c <=> up - 1 \in d
    BY <1>3, <2>1
  <2>3. up \in Shift(c, in) <=> ((up - 1 \in c) # (Register - 1 \in c /\ up \in {5, 12}))
    BY <1>1, <2>1
  <2>4. up \in Shift(d, other) <=> ((up - 1 \in d) # (Register - 1 \in d /\ up \in {5, 12}))
    BY <1>2, <2>1
  <2> QED
    BY <1>4, <2>2, <2>3, <2>4
<1> QED
  BY <1>5, <1>6, <1>7 DEF Differ

\* A different bit that comes in makes one.
LEMMA DifferBegins ==
  ASSUME NEW c \in States, NEW k \in Nat
  PROVE  /\ Differ(Shift(c, {0}), Shift(c, {}), k + 1)
         /\ Differ(Shift(c, {}), Shift(c, {0}), k + 1)
<1>0. Register - 1 \in Nat /\ 0 \in 0 .. (k + 1) - 1 /\ 0 \in {0} /\ 0 \notin {}
  BY ChunkAssumption DEF Register
<1>1. /\ 0 \in Shift(c, {0}) <=> ((0 \in {0}) # (Register - 1 \in c))
      /\ 0 \in Shift(c, {}) <=> ((0 \in {}) # (Register - 1 \in c))
  BY Shifted
<1>2. (0 \in Shift(c, {0})) # (0 \in Shift(c, {}))
  BY <1>0, <1>1
<1>3. \A j \in 1 .. Register - 1 :
        j \in Shift(c, {0}) <=> ((j - 1 \in c) # (Register - 1 \in c /\ j \in {5, 12}))
  BY Shifted
<1>4. \A j \in 1 .. Register - 1 :
        j \in Shift(c, {}) <=> ((j - 1 \in c) # (Register - 1 \in c /\ j \in {5, 12}))
  BY Shifted
<1>5. \A up \in 0 + 1 .. Register - 1 : up \in Shift(c, {0}) <=> up \in Shift(c, {})
  BY <1>3, <1>4
<1> QED
  BY <1>0, <1>2, <1>5 DEF Differ

\* A byte is known by its bits.
LEMMA BitsApart ==
  ASSUME NEW b \in ByteValues, NEW c \in ByteValues,
         \A k \in 1 .. Bits : IsOne(b, Bits - k) <=> IsOne(c, Bits - k)
  PROVE  b = c
<1> DEFINE Part(x, k) == x \div 2 ^ (Bits - k)
           S == {k \in 0 .. Bits : Part(b, k) = Part(c, k)}
<1>0. Bits \in Nat /\ b \in Int /\ c \in Int
  BY ChunkAssumption, LowType DEF ByteValues
<1>1. 0 \in S
  <2>1. 2 ^ (Bits - 0) = Low /\ Low \in Nat /\ Low > 0
    BY <1>0, LowType DEF Low
  <2>2. b = Low * 0 + b /\ c = Low * 0 + c /\ 0 <= b /\ 0 <= c /\ b < Low /\ c < Low
    BY <2>1 DEF ByteValues
  <2>3. 0 = b \div Low
    BY <1>0, <2>1, <2>2, Division
  <2>4. 0 = c \div Low
    BY <1>0, <2>1, <2>2, Division
  <2> QED
    BY <1>0, <2>1, <2>3, <2>4
<1>2. ASSUME NEW k \in 1 .. Bits, k - 1 \in S
      PROVE  k \in S
  <2> DEFINE d == 2 ^ (Bits - k)
  <2>1. Bits - k \in Nat /\ Bits - (k - 1) = (Bits - k) + 1
    BY <1>0
  <2>2. d \in Nat /\ d > 0 /\ 2 ^ (Bits - (k - 1)) = d + d
    BY <2>1, PowerOfTwo
  <2>3. b \div (d + d) = c \div (d + d)
    BY <1>2, <2>2
  <2>4. (b \div d) % 2 = 1 <=> (c \div d) % 2 = 1
    BY DEF IsOne
  <2> HIDE DEF d, S
  <2>5. b \div d \in Int /\ c \div d \in Int
    BY <1>0, <2>2, Division
  <2>6. (b \div d) \div 2 = (c \div d) \div 2
    BY <1>0, <2>2, <2>3, DivideTwice
  <2>7. (b \div d) % 2 \in 0 .. 1 /\ (b \div d) = (2 * ((b \div d) \div 2)) + ((b \div d) % 2)
    BY <2>5, Division
  <2>8. (c \div d) % 2 \in 0 .. 1 /\ (c \div d) = (2 * ((c \div d) \div 2)) + ((c \div d) % 2)
    BY <2>5, Division
  <2>9. (b \div d) % 2 = (c \div d) % 2
    BY <2>4, <2>7, <2>8
  <2>10. b \div d = c \div d
    BY <2>6, <2>7, <2>8, <2>9
  <2> QED
    BY <1>0, <2>10 DEF d, S
<1> HIDE DEF S
<1>3. Bits \in S
  BY <1>0, <1>1, <1>2, UpTo
<1>4. b \div 2 ^ (Bits - Bits) = c \div 2 ^ (Bits - Bits)
  BY <1>3 DEF S
<1>5. 2 ^ (Bits - Bits) = 1
  BY <1>0
<1>6. b \div 1 = b /\ c \div 1 = c
  BY <1>0
<1> QED
  BY <1>4, <1>5, <1>6

\* Different bytes leave different registers.
LEMMA EnterByte ==
  ASSUME NEW crc \in States, NEW b \in ByteValues, NEW c \in ByteValues, Enter(crc, b) = Enter(crc, c)
  PROVE  b = c
<1> DEFINE In(x, k) == IF IsOne(x, Bits - k) THEN {0} ELSE {}
<1>0. /\ Bits \in Nat /\ Register - 1 \in Nat /\ Bits <= Register - 1
      /\ crc \in SUBSET Int /\ \A x, k : In(x, k) \in {{}, {0}}
  BY ChunkAssumption DEF Register, States
<1>1. PICK h : /\ h[0] = crc
               /\ \A k \in 1 .. Bits : h[k] = Shift(h[k - 1], In(b, k))
               /\ Enter(crc, b) = h[Bits]
  BY <1>0, EnterSteps
<1>2. PICK e : /\ e[0] = crc
               /\ \A k \in 1 .. Bits : e[k] = Shift(e[k - 1], In(c, k))
               /\ Enter(crc, c) = e[Bits]
  BY <1>0, EnterSteps
<1> DEFINE Alike(k) == IsOne(b, Bits - k) <=> IsOne(c, Bits - k)
           S == {k \in 0 .. Bits : /\ h[k] \in States /\ e[k] \in States
                                   /\ \/ h[k] = e[k] /\ \A q \in 1 .. k : Alike(q)
                                      \/ Differ(h[k], e[k], k)}
<1>3. 0 \in S
  BY <1>0, <1>1, <1>2
<1>4. ASSUME NEW k \in 1 .. Bits, k - 1 \in S
      PROVE  k \in S
  <2>0. k - 1 \in Nat /\ (k - 1) + 1 = k /\ k \in 0 .. Bits /\ k - 1 \in 0 .. Register - 1
    BY <1>0
  <2>1. /\ h[k - 1] \in States /\ e[k - 1] \in States
        /\ \/ h[k - 1] = e[k - 1] /\ \A q \in 1 .. k - 1 : Alike(q)
           \/ Differ(h[k - 1], e[k - 1], k - 1)
    BY <1>4
  <2>2. /\ h[k] = Shift(h[k - 1], In(b, k)) /\ e[k] = Shift(e[k - 1], In(c, k))
        /\ In(b, k) \in {{}, {0}} /\ In(c, k) \in {{}, {0}}
    BY <1>0, <1>1, <1>2
  <2>3. h[k] \in States /\ e[k] \in States
    <3> HIDE DEF In
    <3>1. Shift(h[k - 1], In(b, k)) \in States
      BY <2>1, <2>2, Shifted
    <3>2. Shift(e[k - 1], In(c, k)) \in States
      BY <2>1, <2>2, Shifted
    <3> QED
      BY <2>2, <3>1, <3>2
  <2>4. CASE Differ(h[k - 1], e[k - 1], k - 1)
    <3> HIDE DEF In
    <3>1. Differ(Shift(h[k - 1], In(b, k)), Shift(e[k - 1], In(c, k)), (k - 1) + 1)
      BY <2>0, <2>1, <2>2, <2>4, DifferMoves
    <3>2. Differ(h[k], e[k], k)
      BY <2>0, <2>2, <3>1
    <3> QED
      BY <2>0, <2>3, <3>2
  <2>5. CASE h[k - 1] = e[k - 1] /\ \A q \in 1 .. k - 1 : Alike(q)
    <3>1. CASE Alike(k)
      <4>1. In(b, k) = In(c, k)
        BY <3>1
      <4>2. h[k] = e[k]
        BY <2>2, <2>5, <4>1
      <4>3. \A q \in 1 .. k : Alike(q)
        <5> HIDE DEF Alike
        <5> QED
          BY <2>5, <3>1
      <4> HIDE DEF Alike
      <4> QED
        BY <2>0, <2>3, <4>2, <4>3
    <3>2. CASE ~Alike(k)
      <4>1. \/ In(b, k) = {0} /\ In(c, k) = {}
            \/ In(b, k) = {} /\ In(c, k) = {0}
        BY <3>2
      <4> HIDE DEF In, Alike
      <4>2. /\ Differ(Shift(h[k - 1], {0}), Shift(h[k - 1], {}), (k - 1) + 1)
            /\ Differ(Shift(h[k - 1], {}), Shift(h[k - 1], {0}), (k - 1) + 1)
        BY <2>0, <2>1, DifferBegins
      <4>3. Differ(h[k], e[k], k)
        BY <2>0, <2>2, <2>5, <4>1, <4>2
      <4> QED
        BY <2>0, <2>3, <4>3
    <3> QED
      BY <3>1, <3>2
  <2> QED
    BY <2>1, <2>4, <2>5
<1> HIDE DEF S
<1>5. Bits \in S
  BY <1>0, <1>3, <1>4, UpTo
<1>6. ~Differ(h[Bits], e[Bits], Bits)
  BY <1>1, <1>2 DEF Differ
<1>7. \A q \in 1 .. Bits : Alike(q)
  BY <1>5, <1>6 DEF S
<1> QED
  BY <1>7, BitsApart

\* One wrong byte changes the sum.
LEMMA SumDetects ==
  ASSUME NEW b \in Seq(ByteValues), NEW p \in 1 .. Len(b), NEW v \in ByteValues, v # b[p]
  PROVE  Sum([b EXCEPT ![p] = v]) # Sum(b)
<1> DEFINE c == [b EXCEPT ![p] = v]
           m == Len(b)
<1>0. /\ m \in Nat /\ m = Len(b) /\ b \in Seq(Int) /\ c \in Seq(Int) /\ Len(c) = m /\ c[p] = v
      /\ \A k \in 1 .. m : b[k] \in ByteValues /\ c[k] \in ByteValues /\ (k # p => c[k] = b[k])
  BY LowType DEF ByteValues
<1> HIDE DEF c, m
<1>1. PICK h : /\ h[0] = 85 % Low
               /\ \A k \in 1 .. m : h[k] = (h[k - 1] + b[k]) % Low
               /\ Sum(b) = h[m]
  BY <1>0, SumSteps
<1>2. PICK e : /\ e[0] = 85 % Low
               /\ \A k \in 1 .. m : e[k] = (e[k - 1] + c[k]) % Low
               /\ Sum(c) = e[m]
  BY <1>0, SumSteps
<1> DEFINE S == {k \in 0 .. m : /\ h[k] \in ByteValues /\ e[k] \in ByteValues
                                /\ k < p <=> h[k] = e[k]}
<1>3. 0 \in S
  <2>1. 85 % Low \in ByteValues
    BY LowType, Division DEF ByteValues
  <2> QED
    BY <1>0, <1>1, <1>2, <2>1
<1>4. ASSUME NEW k \in 1 .. m, k - 1 \in S
      PROVE  k \in S
  <2>1. /\ h[k - 1] \in ByteValues /\ e[k - 1] \in ByteValues
        /\ k - 1 < p <=> h[k - 1] = e[k - 1]
        /\ b[k] \in ByteValues /\ c[k] \in ByteValues
    BY <1>0, <1>4
  <2>0. k \in Int /\ p \in Int /\ (k # p => c[k] = b[k]) /\ (k = p => c[k] = v)
    BY <1>0
  <2>2. h[k] = (h[k - 1] + b[k]) % Low /\ e[k] = (e[k - 1] + c[k]) % Low
    BY <1>1, <1>2
  <2>3. /\ h[k - 1] \in Int /\ e[k - 1] \in Int /\ b[k] \in Int /\ c[k] \in Int
        /\ h[k - 1] + b[k] \in Int /\ e[k - 1] + c[k] \in Int
    <3>1. ByteValues \subseteq Int
      BY LowType DEF ByteValues
    <3>2. h[k - 1] \in Int /\ e[k - 1] \in Int /\ b[k] \in Int /\ c[k] \in Int
      BY <2>1, <3>1, Zenon
    <3> QED
      BY <3>2
  <2>4. h[k] \in ByteValues /\ e[k] \in ByteValues
    BY <2>2, <2>3, LowType, Division DEF ByteValues
  <2>5. CASE k < p
    <3>1. h[k - 1] = e[k - 1] /\ b[k] = c[k]
      <4>1. k - 1 < p /\ k # p
        BY <2>0, <2>5
      <4> QED
        BY <2>0, <2>1, <4>1, Zenon
    <3> QED
      BY <1>0, <2>2, <2>4, <2>5, <3>1
  <2>6. CASE k = p
    <3>1. h[k - 1] = e[k - 1] /\ b[k] # c[k]
      <4>1. k - 1 < p /\ b[k] # v
        BY <2>0, <2>6
      <4> QED
        BY <2>0, <2>1, <2>6, <4>1, Zenon
    <3>2. (b[k] + h[k - 1]) % Low # (c[k] + h[k - 1]) % Low
      BY <2>1, <2>3, <3>1, LowType, AddedApart DEF ByteValues
    <3>3. h[k] # e[k]
      BY <2>2, <2>3, <3>1, <3>2
    <3> QED
      BY <1>0, <2>4, <2>6, <3>3
  <2>7. CASE k > p
    <3>1. h[k - 1] # e[k - 1] /\ b[k] = c[k]
      <4>1. ~(k - 1 < p) /\ k # p
        BY <2>0, <2>7
      <4> QED
        BY <2>0, <2>1, <4>1, Zenon
    <3>2. (h[k - 1] + b[k]) % Low # (e[k - 1] + b[k]) % Low
      BY <2>1, <2>3, <3>1, LowType, AddedApart DEF ByteValues
    <3>3. h[k] # e[k]
      BY <2>2, <3>1, <3>2
    <3> QED
      BY <1>0, <2>4, <2>7, <3>3
  <2> QED
    BY <1>0, <2>5, <2>6, <2>7
<1> HIDE DEF S
<1>5. m \in S
  <2>1. m \in Nat /\ m \in 0 .. m
    BY <1>0
  <2>2. \A k \in 0 .. m : k \in S
    BY <2>1, <1>3, <1>4, UpTo
  <2> QED
    BY <2>1, <2>2
<1>6. h[m] # e[m]
  BY <1>0, <1>5 DEF S, m
<1> QED
  BY <1>1, <1>2, <1>6 DEF c

\* One wrong byte changes the register.
LEMMA CRCDetects ==
  ASSUME NEW b \in Seq(ByteValues), NEW p \in 1 .. Len(b), NEW v \in ByteValues, v # b[p]
  PROVE  /\ CRC(b) \in States /\ CRC([b EXCEPT ![p] = v]) \in States
         /\ CRC([b EXCEPT ![p] = v]) # CRC(b)
<1> DEFINE c == [b EXCEPT ![p] = v]
           m == Len(b) + 2
           all == b \o <<0, 0>>
           other == c \o <<0, 0>>
<1>0. b \in Seq(Int) /\ c \in Seq(Int) /\ Len(c) = Len(b) /\ m \in Nat /\ p \in 1 .. m
  BY LowType DEF ByteValues
<1>a. /\ all[p] = b[p] /\ other[p] = v /\ all[p] \in ByteValues
      /\ \A k \in 1 .. m : k # p => other[k] = all[k]
  <2>1. c[p] = v /\ \A k \in 1 .. Len(b) : k # p => c[k] = b[k]
    OBVIOUS
  <2>2. \A k \in 1 .. m : all[k] = IF k <= Len(b) THEN b[k] ELSE 0
    OBVIOUS
  <2>3. \A k \in 1 .. m : other[k] = IF k <= Len(b) THEN c[k] ELSE 0
    BY <1>0
  <2> HIDE DEF c, all, other
  <2> QED
    BY <1>0, <2>1, <2>2, <2>3, ElementOf
<1>1. PICK h : /\ h[0] = {}
               /\ \A k \in 1 .. m : h[k] = Enter(h[k - 1], all[k])
               /\ CRC(b) = h[m]
  BY <1>0, CRCSteps
<1>2. PICK e : /\ e[0] = {}
               /\ \A k \in 1 .. m : e[k] = Enter(e[k - 1], other[k])
               /\ CRC(c) = e[m]
  BY <1>0, CRCSteps
<1> HIDE DEF c, m, all, other
<1> DEFINE S == {k \in 0 .. m : /\ h[k] \in States /\ e[k] \in States
                                /\ k < p <=> h[k] = e[k]}
<1>3. 0 \in S
  <2>1. 0 < p /\ 0 \in 0 .. m
    BY <1>0
  <2>2. h[0] \in States /\ e[0] \in States /\ h[0] = e[0]
    BY <1>1, <1>2 DEF States
  <2> QED
    BY <2>1, <2>2
<1>4. ASSUME NEW k \in 1 .. m, k - 1 \in S
      PROVE  k \in S
  <2>1. /\ h[k - 1] \in States /\ e[k - 1] \in States
        /\ k - 1 < p <=> h[k - 1] = e[k - 1]
    BY <1>4
  <2>2. h[k] = Enter(h[k - 1], all[k]) /\ e[k] = Enter(e[k - 1], other[k])
    BY <1>1, <1>2
  <2>3. h[k] \in States /\ e[k] \in States
    BY <2>1, <2>2, EnterType
  <2>4. CASE k < p
    <3>1. h[k - 1] = e[k - 1] /\ all[k] = other[k]
      BY <1>0, <1>a, <2>1, <2>4
    <3> QED
      BY <1>0, <2>2, <2>3, <2>4, <3>1
  <2>5. CASE k = p
    <3>1. h[k - 1] = e[k - 1]
      BY <1>0, <2>1, <2>5
    <3>2. Enter(h[k - 1], b[p]) # Enter(h[k - 1], v)
      BY <1>a, <2>1, EnterByte
    <3>3. h[k] # e[k]
      BY <1>a, <2>2, <2>5, <3>1, <3>2
    <3> QED
      BY <1>0, <2>3, <2>5, <3>3
  <2>6. CASE k > p
    <3>0. k # p /\ ~(k - 1 < p)
      BY <1>0, <2>6
    <3>1. h[k - 1] # e[k - 1] /\ all[k] = other[k]
      BY <1>a, <2>1, <3>0
    <3>2. Enter(h[k - 1], all[k]) # Enter(e[k - 1], all[k])
      BY <2>1, <3>1, EnterApart
    <3>3. h[k] # e[k]
      BY <2>2, <3>1, <3>2
    <3> QED
      BY <1>0, <2>3, <2>6, <3>3
  <2> QED
    BY <1>0, <2>4, <2>5, <2>6
<1> HIDE DEF S
<1>5. m \in S
  <2>1. m \in Nat /\ m \in 0 .. m
    BY <1>0
  <2>2. \A k \in 0 .. m : k \in S
    BY <2>1, <1>3, <1>4, UpTo
  <2> QED
    BY <2>1, <2>2
<1>6. h[m] \in States /\ e[m] \in States /\ h[m] # e[m]
  BY <1>0, <1>5 DEF S
<1> QED
  BY <1>1, <1>2, <1>6 DEF c

\* The number of a register.
LEMMA ValueType ==
  ASSUME NEW R
  PROVE  Value(R) \in Nat
<1>0. Register \in Nat
  BY ChunkAssumption DEF Register
<1>1. PICK h : /\ h[0] = 0
               /\ \A k \in 1 .. Register :
                    h[k] = IF k - 1 \in R THEN h[k - 1] + 2 ^ (k - 1) ELSE h[k - 1]
               /\ Value(R) = h[Register]
  BY ValueSteps
<1> DEFINE S == {k \in 0 .. Register : h[k] \in Nat}
<1>2. 0 \in S
  BY <1>0, <1>1
<1>3. ASSUME NEW k \in 1 .. Register, k - 1 \in S
      PROVE  k \in S
  <2>1. k - 1 \in Nat /\ h[k - 1] \in Nat /\ k \in 0 .. Register
    BY <1>0, <1>3
  <2>2. 2 ^ (k - 1) \in Nat
    BY <2>1, PowerOfTwo
  <2> QED
    BY <1>1, <2>1, <2>2
<1> HIDE DEF S
<1>4. Register \in S
  <2>1. \A k \in 0 .. Register : k \in S
    BY <1>0, <1>2, <1>3, UpTo
  <2> QED
    BY <1>0, <2>1
<1> QED
  BY <1>1, <1>4 DEF S

\* Different registers have different numbers.
LEMMA ValueApart ==
  ASSUME NEW R \in States, NEW T \in States, Value(R) = Value(T)
  PROVE  R = T
<1>0. Register \in Nat
  BY ChunkAssumption DEF Register
<1>1. PICK h : /\ h[0] = 0
               /\ \A k \in 1 .. Register :
                    h[k] = IF k - 1 \in R THEN h[k - 1] + 2 ^ (k - 1) ELSE h[k - 1]
               /\ Value(R) = h[Register]
  BY ValueSteps
<1>2. PICK e : /\ e[0] = 0
               /\ \A k \in 1 .. Register :
                    e[k] = IF k - 1 \in T THEN e[k - 1] + 2 ^ (k - 1) ELSE e[k - 1]
               /\ Value(T) = e[Register]
  BY ValueSteps
<1> DEFINE Below(k) == \A j \in 0 .. k - 1 : j \in R <=> j \in T
           S == {k \in 0 .. Register : /\ h[k] \in Nat /\ e[k] \in Nat
                                       /\ h[k] < 2 ^ k /\ e[k] < 2 ^ k
                                       /\ h[k] = e[k] => Below(k)}
<1>3. 0 \in S
  <2>1. 2 ^ 0 = 1
    OBVIOUS
  <2> QED
    BY <1>0, <1>1, <1>2, <2>1
<1>4. ASSUME NEW k \in 1 .. Register, k - 1 \in S
      PROVE  k \in S
  <2>1. /\ k - 1 \in Nat /\ k \in 0 .. Register /\ (k - 1) + 1 = k
        /\ h[k - 1] \in Nat /\ e[k - 1] \in Nat
        /\ h[k - 1] < 2 ^ (k - 1) /\ e[k - 1] < 2 ^ (k - 1)
        /\ h[k - 1] = e[k - 1] => Below(k - 1)
    BY <1>0, <1>4
  <2>2. 2 ^ (k - 1) \in Nat /\ 2 ^ k = 2 ^ (k - 1) + 2 ^ (k - 1)
    BY <2>1, PowerOfTwo
  <2>3. /\ h[k] = IF k - 1 \in R THEN h[k - 1] + 2 ^ (k - 1) ELSE h[k - 1]
        /\ e[k] = IF k - 1 \in T THEN e[k - 1] + 2 ^ (k - 1) ELSE e[k - 1]
    BY <1>1, <1>2
  <2>4. h[k] \in Nat /\ e[k] \in Nat /\ h[k] < 2 ^ k /\ e[k] < 2 ^ k
    BY <2>1, <2>2, <2>3
  <2>5. ASSUME h[k] = e[k]
        PROVE  Below(k)
    <3>1. (k - 1 \in R <=> k - 1 \in T) /\ h[k - 1] = e[k - 1]
      BY <2>1, <2>2, <2>3, <2>5
    <3>2. Below(k - 1)
      BY <2>1, <3>1
    <3>3. \A j \in 0 .. k - 1 : j = k - 1 \/ j \in 0 .. (k - 1) - 1
      BY <2>1
    <3> QED
      BY <3>1, <3>2, <3>3
  <2> HIDE DEF Below
  <2> QED
    BY <2>1, <2>4, <2>5
<1> HIDE DEF S
<1>5. Register \in S
  <2>1. \A k \in 0 .. Register : k \in S
    BY <1>0, <1>3, <1>4, UpTo
  <2> QED
    BY <1>0, <2>1
<1>6. Below(Register)
  BY <1>1, <1>2, <1>5 DEF S
<1> QED
  BY <1>6 DEF States

-----------------------------------------------------------------------------
(* A block, intact and damaged *)

Kinds == {"calibration", "mii"}

\* What readTwice asks of a copy of a block of this kind.
Sound(k, b) ==
  /\ k = "mii" => IsPrefix(Magic, b) /\ miiCRC(b)
  /\ k = "calibration" => calibCRC(b)

\* The two last bytes of a Mii block are the register.
LEMMA TwoBytes ==
  ASSUME NEW b \in Seq(Int), NEW x \in Int, NEW y \in Int
  PROVE  LET c == b \o <<x, y>>
             q == Len(b)
         IN /\ c \in Seq(Int) /\ Len(c) = q + 2 /\ c[q + 1] = x /\ c[q + 2] = y
            /\ SubSeq(c, 1, q) = b /\ \A k \in 1 .. q : c[k] = b[k]
<1> DEFINE c == b \o <<x, y>>
           q == Len(b)
<1>1. c \in Seq(Int) /\ Len(c) = q + 2 /\ q \in Nat
  OBVIOUS
<1>2. c[q + 1] = x /\ c[q + 2] = y
  OBVIOUS
<1>3. \A k \in 1 .. q : c[k] = b[k]
  OBVIOUS
<1>4. SubSeq(c, 1, q) = b
  <2>1. SubSeq(c, 1, q) = [k \in 1 .. q |-> c[k]]
    <3> HIDE DEF c, q
    <3>1. SubSeq(c, 1, q) = [k \in 1 .. (1 + q - 1) |-> c[1 + k - 1]]
      BY <1>1 DEF SubSeq
    <3> QED
      BY <1>1, <3>1
  <2>2. b = [k \in 1 .. q |-> b[k]]
    OBVIOUS
  <2> HIDE DEF c, q
  <2> QED
    BY <1>3, <2>1, <2>2
<1> QED
  BY <1>1, <1>2, <1>3, <1>4

\* A sum is a byte.
LEMMA SumType ==
  ASSUME NEW b \in Seq(Int)
  PROVE  Sum(b) \in ByteValues
<1> DEFINE m == Len(b)
<1>0. m \in Nat /\ \A k \in 1 .. m : b[k] \in Int
  BY ElementOf
<1>1. PICK h : /\ h[0] = 85 % Low
               /\ \A k \in 1 .. m : h[k] = (h[k - 1] + b[k]) % Low
               /\ Sum(b) = h[m]
  BY SumSteps
<1> HIDE DEF m
<1> DEFINE S == {k \in 0 .. m : h[k] \in ByteValues}
<1>2. 0 \in S
  BY <1>0, <1>1, LowType, Division DEF ByteValues
<1>3. ASSUME NEW k \in 1 .. m, k - 1 \in S
      PROVE  k \in S
  <2>1. h[k - 1] + b[k] \in Int
    BY <1>0, <1>3 DEF ByteValues
  <2>2. (h[k - 1] + b[k]) % Low \in ByteValues
    BY <2>1, LowType, Division DEF ByteValues
  <2> QED
    BY <1>0, <1>1, <2>2
<1> HIDE DEF S
<1>4. m \in S
  <2>1. \A k \in 0 .. m : k \in S
    BY <1>0, <1>2, <1>3, UpTo
  <2> QED
    BY <1>0, <2>1
<1> QED
  BY <1>1, <1>4 DEF S

\* The bytes before the register, and the register.
Body == Magic \o Data
Checksum == Value(CRC(Body))

\* The two blocks, and what they are made of.
LEMMA Given ==
  /\ Data \in Seq(ByteValues) /\ Data \in Seq(Int) /\ Sum(Data) \in Int
  /\ Magic \in Seq(Int) /\ Body \in Seq(ByteValues) /\ Body \in Seq(Int)
  /\ Block("calibration") = Append(Data, Sum(Data))
  /\ Block("mii") = Body \o <<Checksum \div Low, Checksum % Low>>
  /\ Checksum \in Nat /\ Checksum \div Low \in Int /\ Checksum % Low \in Int
  /\ ((Checksum \div Low) * Low) + (Checksum % Low) = Checksum
<1>1. Data \in Seq(ByteValues) /\ Magic \in Seq(ByteValues)
  BY ByteAssumption DEF ByteValues, Low
<1>2. ByteValues \subseteq Int
  BY LowType DEF ByteValues
<1>3. Data \in Seq(Int) /\ Magic \in Seq(Int)
  BY <1>1, LowType DEF ByteValues
<1>4. Sum(Data) \in Int
  BY <1>2, <1>3, SumType
<1>5. Body \in Seq(ByteValues) /\ Body \in Seq(Int)
  BY <1>1, <1>3 DEF Body
<1>6. /\ Block("calibration") = Append(Data, Sum(Data))
      /\ Block("mii") = Body \o <<Checksum \div Low, Checksum % Low>>
  BY DEF Block, Body, Checksum
<1>7. Checksum \in Nat
  BY ValueType DEF Checksum
<1>8. /\ Checksum \div Low \in Int /\ Checksum % Low \in Int
      /\ Checksum = (Low * (Checksum \div Low)) + (Checksum % Low)
  BY <1>7, LowType, Division
<1>9. ((Checksum \div Low) * Low) = Low * (Checksum \div Low)
  BY <1>8, LowType
<1> QED
  BY <1>1, <1>3, <1>4, <1>5, <1>6, <1>7, <1>8, <1>9

\* What was written passes.
LEMMA BlockSound ==
  ASSUME NEW k \in Kinds
  PROVE  Block(k) \in Seq(Int) /\ Len(Block(k)) >= 1 /\ Sound(k, Block(k))
<1>1. CASE k = "calibration"
  <2>1. Block(k) = Append(Data, Sum(Data)) /\ Data \in Seq(Int) /\ Sum(Data) \in Int
    BY <1>1, Given
  <2>2. /\ Append(Data, Sum(Data)) \in Seq(Int) /\ Len(Append(Data, Sum(Data))) >= 1
        /\ Last(Append(Data, Sum(Data))) = Sum(Data)
    BY <2>1 DEF Last
  <2>3. Front(Append(Data, Sum(Data))) = Data
    BY <2>1 DEF Front
  <2> QED
    BY <1>1, <2>1, <2>2, <2>3 DEF Sound, calibCRC
<1>2. CASE k = "mii"
  <2> DEFINE c == Body \o <<Checksum \div Low, Checksum % Low>>
             q == Len(Body)
  <2>1. Block(k) = c /\ Body \in Seq(Int) /\ q \in Nat
    <3>1. Body \in Seq(Int) /\ Block("mii") = c
      BY Given
    <3>2. q \in Nat
      BY <3>1
    <3> HIDE DEF c, q
    <3> QED
      BY <1>2, <3>1, <3>2
  <2>2. /\ c \in Seq(Int) /\ Len(c) = q + 2
        /\ c[q + 1] = Checksum \div Low /\ c[q + 2] = Checksum % Low
        /\ SubSeq(c, 1, q) = Body /\ \A j \in 1 .. q : c[j] = Body[j]
    BY Given, TwoBytes
  <2>3. Len(Magic) \in 0 .. q /\ \A j \in 1 .. Len(Magic) : Body[j] = Magic[j]
    BY Given DEF Body
  <2> HIDE DEF c, q
  <2>4. IsPrefix(Magic, c)
    <3>1. SubSeq(Magic, 1, Len(Magic)) = [j \in 1 .. Len(Magic) |-> Magic[j]]
      BY Given
    <3>2. SubSeq(c, 1, Len(Magic)) = [j \in 1 .. Len(Magic) |-> c[j]]
      BY <2>1, <2>2, <2>3
    <3>3. \A j \in 1 .. Len(Magic) : c[j] = Magic[j]
      BY <2>1, <2>2, <2>3
    <3> QED
      BY <2>1, <2>2, <2>3, <3>1, <3>2, <3>3 DEF IsPrefix
  <2>5. miiCRC(c)
    <3>1. Len(c) - 2 = q /\ Len(c) - 1 = q + 1
      BY <2>1, <2>2
    <3>2. c[Len(c) - 1] * Low + c[Len(c)] = Checksum
      BY <2>2, <3>1, Given
    <3> QED
      BY <2>2, <3>1, <3>2 DEF miiCRC, Checksum
  <2> QED
    BY <1>2, <2>1, <2>2, <2>4, <2>5 DEF Sound
<1> QED
  BY <1>1, <1>2 DEF Kinds

\* A sequence with one element changed, as a function.
LEMMA ChangedSequence ==
  ASSUME NEW T, NEW s \in Seq(T), NEW p, NEW v
  PROVE  [s EXCEPT ![p] = v] = [j \in 1 .. Len(s) |-> IF j = p THEN v ELSE s[j]]
<1>1. DOMAIN s = 1 .. Len(s)
  OBVIOUS
<1> QED
  BY <1>1

\* A block with a wrong byte does not.
LEMMA DamageShows ==
  ASSUME NEW k \in Kinds, NEW b \in Damaged(Block(k)), Sound(k, b)
  PROVE  b = Block(k)
<1> SUFFICES ASSUME NEW p \in DOMAIN Block(k), NEW v \in Bytes, b = [Block(k) EXCEPT ![p] = v]
             PROVE  v = Block(k)[p]
  <2>1. Block(k) \in Seq(Int)
    BY BlockSound
  <2> QED
    BY <2>1 DEF Damaged
<1>0. v \in ByteValues /\ v \in Int
  BY ByteAssumption, LowType DEF ByteValues, Low
<1>1. CASE k = "calibration"
  <2> DEFINE c == Append(Data, Sum(Data))
             q == Len(Data)
  <2>1. /\ Block(k) = c /\ Data \in Seq(ByteValues) /\ Data \in Seq(Int) /\ Sum(Data) \in Int
    <3>1. Block("calibration") = c /\ Data \in Seq(ByteValues) /\ Data \in Seq(Int) /\ Sum(Data) \in Int
      BY Given
    <3> HIDE DEF c
    <3> QED
      BY <1>1, <3>1, Zenon
  <2>2. /\ q \in Nat /\ DOMAIN c = 1 .. q + 1 /\ c[q + 1] = Sum(Data)
        /\ \A j \in 1 .. q : c[j] = Data[j]
    BY <2>1
  <2>3. b \in Seq(Int) /\ Len(b) = q + 1 /\ b[p] = v /\ \A j \in 1 .. q + 1 : j # p => b[j] = c[j]
    <3>1. c \in Seq(Int) /\ Len(c) = q + 1 /\ p \in 1 .. q + 1 /\ b = [c EXCEPT ![p] = v]
      BY <2>1, <2>2
    <3>2. /\ b \in Seq(Int) /\ Len(b) = Len(c) /\ b[p] = v
          /\ \A j \in 1 .. Len(c) : j # p => b[j] = c[j]
      <4> HIDE DEF c, q
      <4>1. /\ [c EXCEPT ![p] = v] \in Seq(Int) /\ Len([c EXCEPT ![p] = v]) = Len(c)
            /\ [c EXCEPT ![p] = v][p] = v
            /\ \A j \in 1 .. Len(c) : j # p => [c EXCEPT ![p] = v][j] = c[j]
        BY <1>0, <3>1, OneChanged
      <4> QED
        BY <3>1, <4>1
    <3> QED
      BY <3>1, <3>2
  <2>4. b[q + 1] = Sum(SubSeq(b, 1, q))
    BY <1>1, <2>2, <2>3 DEF Sound, calibCRC, Last, Front
  <2>5. p \in 1 .. q + 1
    BY <2>1, <2>2
  <2>6. SubSeq(b, 1, q) = [j \in 1 .. q |-> b[j]] /\ Data = [j \in 1 .. q |-> Data[j]]
    BY <2>1, <2>2, <2>3
  <2> HIDE DEF c, q
  <2>7. CASE p = q + 1
    <3>0. \A j \in 1 .. q : b[j] = Data[j]
      <4> SUFFICES ASSUME NEW j \in 1 .. q
                   PROVE  b[j] = Data[j]
        OBVIOUS
      <4>1. j \in 1 .. q + 1 /\ j # p
        BY <2>2, <2>7
      <4> QED
        BY <2>2, <2>3, <4>1
    <3>1. SubSeq(b, 1, q) = Data
      BY <2>6, <3>0
    <3> QED
      BY <2>1, <2>2, <2>3, <2>4, <2>7, <3>1
  <2>8. CASE p # q + 1
    <3>1. p \in 1 .. q /\ q + 1 # p
      BY <2>2, <2>5, <2>8
    <3>2. [Data EXCEPT ![p] = v] = [j \in 1 .. q |-> IF j = p THEN v ELSE Data[j]]
      BY <2>1, ChangedSequence DEF q
    <3>3. SubSeq(b, 1, q) = [Data EXCEPT ![p] = v]
      BY <2>2, <2>3, <2>6, <3>1, <3>2
    <3>4. Sum([Data EXCEPT ![p] = v]) = Sum(Data)
      <4>1. q + 1 \in 1 .. q + 1
        BY <2>2
      <4>2. b[q + 1] = Sum(Data)
        BY <2>2, <2>3, <3>1, <4>1
      <4> QED
        BY <2>4, <3>3, <4>2
    <3>5. v = Data[p]
      BY <1>0, <2>1, <3>1, <3>4, SumDetects DEF q
    <3> QED
      BY <2>1, <2>2, <3>1, <3>5
  <2> QED
    BY <2>7, <2>8
<1>2. CASE k = "mii"
  <2> DEFINE x == Checksum \div Low
             y == Checksum % Low
             c == Body \o <<x, y>>
             q == Len(Body)
  <2>1. /\ Block(k) = c /\ Body \in Seq(ByteValues) /\ Body \in Seq(Int) /\ q \in Nat
        /\ x \in Int /\ y \in Int /\ (x * Low) + y = Checksum
    <3>1. /\ Block("mii") = c /\ Body \in Seq(ByteValues) /\ Body \in Seq(Int)
          /\ x \in Int /\ y \in Int /\ (x * Low) + y = Checksum
      BY Given
    <3> HIDE DEF c, x, y, q
    <3>2. q \in Nat
      BY <3>1 DEF q
    <3> QED
      BY <1>2, <3>1, <3>2, Zenon
  <2> HIDE DEF x, y
  <2>2. /\ c \in Seq(Int) /\ Len(c) = q + 2 /\ c[q + 1] = x /\ c[q + 2] = y
        /\ \A j \in 1 .. q : c[j] = Body[j]
    BY <2>1, TwoBytes
  <2> HIDE DEF c, q
  <2>3. p \in 1 .. q + 2 /\ b = [c EXCEPT ![p] = v]
    BY <2>1, <2>2
  <2>4. b \in Seq(Int) /\ Len(b) = q + 2 /\ b[p] = v /\ \A j \in 1 .. q + 2 : j # p => b[j] = c[j]
    <3>1. c \in Seq(Int) /\ Len(c) = q + 2 /\ p \in 1 .. Len(c)
      BY <2>2, <2>3
    <3>2. /\ b \in Seq(Int) /\ Len(b) = Len(c) /\ b[p] = v
          /\ \A j \in 1 .. Len(c) : j # p => b[j] = c[j]
      <4>1. /\ [c EXCEPT ![p] = v] \in Seq(Int) /\ Len([c EXCEPT ![p] = v]) = Len(c)
            /\ [c EXCEPT ![p] = v][p] = v
            /\ \A j \in 1 .. Len(c) : j # p => [c EXCEPT ![p] = v][j] = c[j]
        BY <1>0, <3>1, OneChanged
      <4> QED
        BY <2>3, <4>1
    <3> QED
      BY <3>1, <3>2
  <2>5. (b[q + 1] * Low) + b[q + 2] = Value(CRC(SubSeq(b, 1, q)))
    <3>1. Len(b) - 1 = q + 1 /\ Len(b) - 2 = q
      BY <2>1, <2>4
    <3>2. miiCRC(b)
      BY <1>2 DEF Sound
    <3>3. b[Len(b) - 1] * Low + b[Len(b)] = Value(CRC(SubSeq(b, 1, Len(b) - 2)))
      BY <3>2 DEF miiCRC
    <3> QED
      BY <2>4, <3>1, <3>3
  <2>6. SubSeq(b, 1, q) = [j \in 1 .. q |-> b[j]] /\ Body = [j \in 1 .. q |-> Body[j]]
    BY <2>1, <2>4 DEF q
  <2>7. CASE p \notin 1 .. q
    <3>1. /\ p = q + 1 \/ p = q + 2
          /\ \A j \in 1 .. q : j # p /\ j \in 1 .. q + 2
      BY <2>1, <2>3, <2>7
    <3>2. SubSeq(b, 1, q) = Body
      BY <2>2, <2>4, <2>6, <3>1
    <3>3. (b[q + 1] * Low) + b[q + 2] = (x * Low) + y
      BY <2>1, <2>5, <3>2 DEF Checksum
    <3>4. CASE p = q + 1
      <4>1. b[q + 1] = v /\ b[q + 2] = y
        BY <2>1, <2>2, <2>4, <3>4
      <4>2. v * Low = x * Low
        <5>1. v * Low \in Int /\ x * Low \in Int
          BY <1>0, <2>1, LowType
        <5>2. (v * Low) + y = (x * Low) + y
          BY <3>3, <4>1
        <5> HIDE DEF Low
        <5> QED
          BY <2>1, <5>1, <5>2
      <4>3. v = x
        BY <1>0, <2>1, <4>2, LowType, SameFactor
      <4> QED
        BY <2>1, <2>2, <3>4, <4>3
    <3>5. CASE p = q + 2
      <4>1. b[q + 1] = x /\ b[q + 2] = v
        BY <2>1, <2>2, <2>4, <3>5
      <4>2. v = y
        BY <1>0, <2>1, <3>3, <4>1, LowType
      <4> QED
        BY <2>1, <2>2, <3>5, <4>2
    <3> QED
      BY <3>1, <3>4, <3>5
  <2>8. CASE p \in 1 .. q
    <3>1. /\ \A j \in 1 .. q : j # p => b[j] = Body[j]
          /\ q + 1 # p /\ q + 2 # p /\ b[q + 1] = x /\ b[q + 2] = y
      BY <2>1, <2>2, <2>4, <2>8
    <3>2. [Body EXCEPT ![p] = v] = [j \in 1 .. q |-> IF j = p THEN v ELSE Body[j]]
      BY <2>1, ChangedSequence DEF q
    <3>3. SubSeq(b, 1, q) = [Body EXCEPT ![p] = v]
      BY <2>4, <2>6, <3>1, <3>2
    <3>4. Value(CRC([Body EXCEPT ![p] = v])) = Value(CRC(Body))
      BY <2>1, <2>5, <3>1, <3>3 DEF Checksum
    <3>5. v = Body[p]
      <4> SUFFICES ASSUME v # Body[p]
                   PROVE  FALSE
        OBVIOUS
      <4>1. /\ CRC(Body) \in States /\ CRC([Body EXCEPT ![p] = v]) \in States
            /\ CRC([Body EXCEPT ![p] = v]) # CRC(Body)
        BY <1>0, <2>1, <2>8, CRCDetects DEF q
      <4> QED
        BY <3>4, <4>1, ValueApart
    <3> QED
      BY <2>1, <2>2, <2>8, <3>5
  <2> QED
    BY <2>7, <2>8
<1> QED
  BY <1>1, <1>2 DEF Kinds

-----------------------------------------------------------------------------
(* The reading *)

\* What is read so far is the beginning of the copy.
Clean ==
  /\ n \in 0 .. Size /\ (driver = "kernel" => pos = i * Size + n)
  /\ \A p \in 1 .. n : dest[p] = image[i * Size + p]

Memory ==
  /\ kind \in Kinds /\ block = Block(kind)
  /\ Copy(0) \in Damaged(block) /\ Copy(1) \in Damaged(block)
  /\ image \in Seq(Int) /\ Len(image) = 2 * Size + 2

\* The copy that is being read is such a one.
Astray == (i = 0 /\ Lost(0)) \/ (i = 1 /\ Lost(1))

Searching ==
  /\ i \in 0 .. 1 /\ (i = 1 => Lost(0))
  /\ ~skipped \/ ~Astray => Clean
  /\ ~Astray => err = "nil"
  /\ ~whole

\* The inductive invariant: a copy is given up only if it is lost, and what is
\* read without a skip, or from a copy that is not lost, is as it is in the memory.
ReadInv ==
  /\ Memory /\ dest = [p \in 1 .. Size |-> dest[p]]
  /\ outcome = "reading" => Searching
  /\ outcome = "failed" => Lost(0) /\ Lost(1)
  /\ outcome = "panic" => driver = "kernel" /\ Lost(0)
  /\ outcome = "ok" /\ whole /\ ~skipped => dest = block

\* A block has a byte at least: its checksum.
LEMMA SizeType ==
  ASSUME Memory
  PROVE  block \in Seq(Int) /\ Size \in Nat /\ Size >= 1
BY BlockSound DEF Memory, Size

\* The second half of a sequence, but for the last two elements.
LEMMA SecondPart ==
  ASSUME NEW s \in Seq(Int), NEW q \in Nat, Len(s) = 2 * q + 2
  PROVE  SubSeq(s, q + 1, q + q) = [p \in 1 .. q |-> s[q + p]]
OBVIOUS

\* The invariant holds before the first read.
LEMMA ReadStart ==
  ASSUME EepromInit
  PROVE  ReadInv
<1>1. /\ kind \in Kinds /\ block = Block(kind) /\ block \in Seq(Int)
      /\ Size = Len(block) /\ Size \in Nat
  BY BlockSound DEF EepromInit, Kinds, Size
<1>2. PICK first \in Damaged(block), second \in Damaged(block), after \in Bytes :
        image = first \o second \o <<after, after>>
  BY DEF EepromInit
<1>3. \A b \in Damaged(block) : b \in Seq(Int) /\ Len(b) = Size
  <2>1. ASSUME NEW p \in DOMAIN block, NEW v \in Bytes
        PROVE  [block EXCEPT ![p] = v] \in Seq(Int) /\ Len([block EXCEPT ![p] = v]) = Size
    <3>1. v \in Int /\ p \in 1 .. Len(block)
      BY <1>1, ByteAssumption, LowType DEF Low
    <3> QED
      BY <1>1, <3>1, OneChanged
  <2> SUFFICES ASSUME NEW b \in Damaged(block)
               PROVE  b \in Seq(Int) /\ Len(b) = Size
    OBVIOUS
  <2>2. CASE b = block
    BY <1>1, <2>2
  <2>3. CASE b # block
    <3>1. PICK p \in DOMAIN block, v \in Bytes : b = [block EXCEPT ![p] = v]
      BY <2>3 DEF Damaged
    <3> QED
      BY <2>1, <3>1
  <2> QED
    BY <2>2, <2>3
<1>4. after \in Int
  BY ByteAssumption, LowType DEF Low
<1>5. /\ first \in Seq(Int) /\ Len(first) = Size /\ second \in Seq(Int) /\ Len(second) = Size
  BY <1>2, <1>3
<1>6. image \in Seq(Int) /\ Len(image) = 2 * Size + 2
  BY <1>1, <1>2, <1>4, <1>5
<1>7. Copy(0) = first
  <2>1. SubSeq(image, 1, Size) = [p \in 1 .. Size |-> image[p]]
    BY <1>1, <1>2, <1>4, <1>5
  <2>2. \A p \in 1 .. Size : image[p] = first[p]
    BY <1>1, <1>2, <1>4, <1>5
  <2>3. first = [p \in 1 .. Size |-> first[p]]
    BY <1>5
  <2>4. Copy(0) = SubSeq(image, 1, Size)
    BY <1>1 DEF Copy
  <2> QED
    BY <2>1, <2>2, <2>3, <2>4
<1>8. Copy(1) = second
  <2>1. SubSeq(image, Size + 1, Size + Size) = [p \in 1 .. Size |-> image[Size + p]]
    BY <1>1, <1>6, SecondPart
  <2>2. ASSUME NEW p \in 1 .. Size
        PROVE  image[Size + p] = second[p]
    <3> DEFINE both == first \o second
    <3>1. p \in 1 .. Len(second) /\ Size + p = Len(first) + p
      BY <1>5
    <3>2. both \in Seq(Int) /\ Len(both) = Size + Size /\ both[Size + p] = second[p]
      <4>1. both \in Seq(Int) /\ Len(both) = Len(first) + Len(second)
        BY <1>5
      <4>2. both[Len(first) + p] = second[p]
        BY <1>5, <3>1
      <4> HIDE DEF both
      <4> QED
        BY <1>5, <3>1, <4>1, <4>2
    <3>3. Size + p \in 1 .. Len(both) /\ image = both \o <<after, after>>
      BY <1>1, <1>2, <3>2
    <3> HIDE DEF both
    <3>4. image[Size + p] = both[Size + p]
      BY <1>4, <3>2, <3>3
    <3> QED
      BY <3>2, <3>4
  <2>3. second = [p \in 1 .. Size |-> second[p]]
    BY <1>5
  <2>4. Copy(1) = SubSeq(image, Size + 1, Size + Size)
    BY <1>1 DEF Copy
  <2> QED
    BY <2>1, <2>2, <2>3, <2>4
<1>9. Memory
  BY <1>1, <1>2, <1>6, <1>7, <1>8 DEF Memory
<1>10. dest = [p \in 1 .. Size |-> dest[p]]
  BY DEF EepromInit
<1>11. Searching
  BY <1>1 DEF EepromInit, Searching, Clean
<1> QED
  BY <1>9, <1>10, <1>11 DEF ReadInv, EepromInit

\* What does not touch the memory.
LEMMA MemoryStays ==
  ASSUME UNCHANGED given
  PROVE  /\ (Memory => Memory') /\ Size' = Size
         /\ (Lost(0)' <=> Lost(0)) /\ (Lost(1)' <=> Lost(1))
<1>1. UNCHANGED <<driver, kind, block, image, faults>> /\ Size' = Size
  BY DEF given, Size
<1>2. Copy(0)' = Copy(0) /\ Copy(1)' = Copy(1)
  BY <1>1 DEF Copy
<1>3. Addresses(0)' = Addresses(0) /\ Addresses(1)' = Addresses(1)
  BY <1>1 DEF Addresses
<1>4. Memory => Memory'
  BY <1>1, <1>2 DEF Memory
<1>5. Lost(0)' <=> Lost(0)
  BY <1>1, <1>2, <1>3 DEF Lost
<1>6. Lost(1)' <=> Lost(1)
  BY <1>1, <1>2, <1>3 DEF Lost
<1> QED
  BY <1>1, <1>4, <1>5, <1>6

\* The bytes that are read next are in the copy.
LEMMA InCopy ==
  ASSUME Memory, i \in 0 .. 1, Clean, n < Size, NEW k \in Nat, n + k <= Size
  PROVE  /\ Range0(i * Size + n, k) \subseteq Addresses(i)
         /\ i * Size + n < Len(image) /\ k <= Len(image) - (i * Size + n)
<1>1. Size \in Nat /\ Len(image) = 2 * Size + 2 /\ n \in Nat
  BY SizeType DEF Memory, Clean
<1>2. /\ i * Size \in Nat /\ (i + 1) * Size = i * Size + Size /\ i * Size + Size < Len(image)
  <2>1. CASE i = 0
    BY <1>1, <2>1
  <2>2. CASE i = 1
    BY <1>1, <2>2
  <2> QED
    BY <2>1, <2>2
<1> QED
  BY <1>1, <1>2 DEF Range0, Addresses

\* Bytes that are read where the copy goes on.
LEMMA TakeClean ==
  ASSUME Memory, i \in 0 .. 1, Clean, NEW k \in Nat, n + k <= Size, Take(i * Size + n, k)
  PROVE  /\ n' \in 0 .. Size /\ n' = n + k
         /\ \A p \in 1 .. n' : dest'[p] = image[i * Size + p]
<1>1. Size \in Nat /\ n \in 0 .. Size /\ i * Size \in Int
  <2>1. Size \in Nat
    BY SizeType
  <2> QED
    BY <2>1 DEF Clean
<1>2. n' = n + k
  BY DEF Take
<1>3. ASSUME NEW p \in 1 .. n + k
      PROVE  dest'[p] = image[i * Size + p]
  <2>1. p \in 1 .. Size
    BY <1>1
  <2>2. CASE p \in 1 .. n
    <3>1. p \notin n + 1 .. n + k
      BY <1>1, <2>2
    <3>2. dest'[p] = dest[p]
      BY <2>1, <3>1 DEF Take
    <3> QED
      BY <2>2, <3>2 DEF Clean
  <2>3. CASE p \notin 1 .. n
    <3>1. p \in n + 1 .. n + k
      BY <1>1, <2>3
    <3>2. dest'[p] = image[i * Size + n + p - n]
      BY <2>1, <3>1 DEF Take
    <3>3. i * Size + n + p - n = i * Size + p
      BY <1>1
    <3> QED
      BY <3>2, <3>3
  <2> QED
    BY <2>2, <2>3
<1> QED
  BY <1>1, <1>2, <1>3

\* Bytes that are taken leave a destination of the same length.
LEMMA TakeLength ==
  ASSUME NEW a, NEW k, Take(a, k), UNCHANGED given
  PROVE  dest' = [p \in 1 .. Size' |-> dest'[p]]
<1>1. Size' = Size
  BY DEF given, Size
<1> QED
  BY <1>1 DEF Take

\* The kernel reads on.
LEMMA KernelReads ==
  ASSUME ReadInv, KernelRead
  PROVE  ReadInv'
<1>0. /\ Memory /\ Searching /\ outcome = "reading" /\ outcome' = "reading" /\ driver = "kernel"
      /\ UNCHANGED given /\ UNCHANGED <<i, err, skipped, whole>> /\ n < Size
  BY DEF KernelRead, Reading, ReadInv
<1>1. PICK k : /\ k = Smaller(Smaller(Size - n, Chunk), Len(image) - pos)
               /\ Take(pos, k) /\ pos' = pos + k
  BY DEF KernelRead
<1>2. /\ Memory' /\ Size' = Size
      /\ (Lost(0)' <=> Lost(0)) /\ (Lost(1)' <=> Lost(1))
  BY <1>0, MemoryStays
<1>3. dest' = [p \in 1 .. Size' |-> dest'[p]]
  BY <1>0, <1>1, TakeLength
<1>4. ASSUME Clean
      PROVE  Clean'
  <2>1. /\ Size \in Nat /\ n \in 0 .. Size /\ pos = i * Size + n /\ Chunk \in Nat
        /\ i \in 0 .. 1 /\ Len(image) = 2 * Size + 2
    BY <1>0, <1>4, SizeType, ChunkAssumption DEF Clean, Searching, Memory
  <2>2. i * Size + n < Len(image)
    BY <1>0, <1>4, <2>1, InCopy
  <2>3. i * Size \in Nat /\ pos \in Nat
    <3>1. i * Size \in Nat
      <4>1. CASE i = 0
        BY <2>1, <4>1
      <4>2. CASE i = 1
        BY <2>1, <4>2
      <4> QED
        BY <2>1, <4>1, <4>2
    <3> QED
      BY <2>1, <3>1
  <2>4. k \in Nat /\ n + k <= Size
    BY <1>0, <1>1, <2>1, <2>2, <2>3 DEF Smaller
  <2>5. /\ n' \in 0 .. Size /\ n' = n + k
        /\ \A p \in 1 .. n' : dest'[p] = image[i * Size + p]
    BY <1>0, <1>1, <1>4, <2>1, <2>4, TakeClean
  <2>6. pos' = i * Size + n'
    <3>1. n \in Int /\ pos' = (i * Size + n) + k /\ n' = n + k
      BY <1>1, <2>1, <2>5
    <3>2. PICK q \in Nat : q = i * Size
      BY <2>3
    <3> QED
      BY <2>4, <3>1, <3>2
  <2> QED
    BY <1>0, <1>2, <2>5, <2>6 DEF Clean, given
<1>5. Searching'
  <2>1. i \in 0 .. 1
    BY <1>0 DEF Searching
  <2>2. Astray' <=> Astray
    BY <1>0, <1>2 DEF Astray
  <2> QED
    BY <1>0, <1>2, <1>4, <2>1, <2>2 DEF Searching
<1> QED
  BY <1>0, <1>2, <1>3, <1>5 DEF ReadInv

\* The requests of the other driver.
LEMMA HidReads ==
  ASSUME ReadInv, HidRead
  PROVE  ReadInv'
<1>0. /\ Memory /\ Searching /\ outcome = "reading" /\ outcome' = "reading" /\ driver = "hid"
      /\ UNCHANGED given /\ UNCHANGED <<i, skipped, whole>> /\ n < Size
  BY DEF HidRead, Reading, ReadInv
<1>1. /\ Memory' /\ Size' = Size
      /\ (Lost(0)' <=> Lost(0)) /\ (Lost(1)' <=> Lost(1))
  BY <1>0, MemoryStays
<1>2. PICK k : /\ k = Smaller(Size - n, Chunk)
               /\ \/ Range0(i * Size + n, k) \cap faults = {} /\ Take(i * Size + n, k) /\ err' = err
                  \/ /\ Range0(i * Size + n, k) \cap faults # {}
                     /\ err' = "refused" /\ UNCHANGED <<dest, n>>
  BY DEF HidRead
<1>3. dest' = [p \in 1 .. Size' |-> dest'[p]]
  <2>1. dest = [p \in 1 .. Size |-> dest[p]]
    BY DEF ReadInv
  <2>2. dest' = dest \/ Take(i * Size + n, k)
    BY <1>2
  <2>3. CASE dest' = dest
    BY <1>1, <2>1, <2>3
  <2>4. CASE Take(i * Size + n, k)
    BY <1>0, <2>4, TakeLength
  <2> QED
    BY <2>2, <2>3, <2>4
<1>4. i \in 0 .. 1
  BY <1>0 DEF Searching
<1>5. ASSUME Clean
      PROVE  Clean' /\ k \in Nat /\ n + k <= Size
  <2>1. Size \in Nat /\ n \in 0 .. Size /\ Chunk \in Nat
    BY <1>0, <1>5, SizeType, ChunkAssumption DEF Clean
  <2>2. k \in Nat /\ n + k <= Size
    BY <1>0, <1>2, <2>1 DEF Smaller
  <2>3. CASE Take(i * Size + n, k)
    <3>1. /\ n' \in 0 .. Size /\ n' = n + k
          /\ \A p \in 1 .. n' : dest'[p] = image[i * Size + p]
      BY <1>0, <1>4, <1>5, <2>2, <2>3, TakeClean
    <3> QED
      BY <1>0, <1>1, <2>2, <3>1 DEF Clean, given
  <2>4. CASE UNCHANGED <<dest, n>>
    BY <1>0, <1>1, <1>5, <2>2, <2>4 DEF Clean, given
  <2> QED
    BY <1>2, <2>2, <2>3, <2>4
<1>6. Astray' <=> Astray
  BY <1>0, <1>1 DEF Astray
<1>7. ASSUME ~Astray
      PROVE  err' = "nil"
  <2>1. Clean /\ err = "nil" /\ ~Lost(i)
    <3>1. CASE i = 0
      BY <1>0, <1>7, <3>1 DEF Searching, Astray
    <3>2. CASE i = 1
      BY <1>0, <1>7, <3>2 DEF Searching, Astray
    <3> QED
      BY <1>4, <3>1, <3>2
  <2>2. k \in Nat /\ n + k <= Size
    BY <1>5, <2>1
  <2>3. Range0(i * Size + n, k) \subseteq Addresses(i)
    BY <1>0, <1>4, <2>1, <2>2, InCopy
  <2>4. Addresses(i) \cap faults = {}
    BY <2>1 DEF Lost
  <2> QED
    BY <1>2, <2>1, <2>3, <2>4
<1>8. Searching'
  BY <1>0, <1>1, <1>4, <1>5, <1>6, <1>7 DEF Searching
<1> QED
  BY <1>0, <1>1, <1>3, <1>8 DEF ReadInv

\* A skip, or the end of the file, does not happen in a copy that is not lost.
LEMMA KernelStops ==
  ASSUME ReadInv, KernelSkip \/ KernelEnd \/ KernelPanic
  PROVE  ReadInv'
<1>0. /\ Memory /\ Searching /\ outcome = "reading" /\ driver = "kernel"
      /\ UNCHANGED given /\ UNCHANGED <<i, dest, whole>> /\ n < Size
  BY DEF KernelSkip, KernelEnd, KernelPanic, Reading, ReadInv
<1>1. /\ Memory' /\ Size' = Size
      /\ (Lost(0)' <=> Lost(0)) /\ (Lost(1)' <=> Lost(1))
  BY <1>0, MemoryStays
<1>2. dest' = [p \in 1 .. Size' |-> dest'[p]]
  BY <1>0, <1>1 DEF ReadInv
<1>3. i \in 0 .. 1 /\ (Astray' <=> Astray)
  BY <1>0, <1>1 DEF Searching, Astray
<1>4. ASSUME Clean
      PROVE  /\ pos = i * Size + n
             /\ Range0(pos, Smaller(Size - n, Chunk)) \subseteq Addresses(i) /\ pos < Len(image)
  <2>1. Size \in Nat /\ n \in 0 .. Size /\ Chunk \in Nat /\ pos = i * Size + n
    BY <1>0, <1>4, SizeType, ChunkAssumption DEF Clean
  <2>2. Smaller(Size - n, Chunk) \in Nat /\ n + Smaller(Size - n, Chunk) <= Size
    BY <1>0, <2>1 DEF Smaller
  <2>3. Range0(i * Size + n, Smaller(Size - n, Chunk)) \subseteq Addresses(i) /\ i * Size + n < Len(image)
    BY <1>0, <1>3, <1>4, <2>2, InCopy
  <2> QED
    BY <2>1, <2>3
<1>5. ASSUME ~Astray
      PROVE  Clean /\ Addresses(i) \cap faults = {} /\ err = "nil"
  <2>1. CASE i = 0
    BY <1>0, <1>5, <2>1 DEF Searching, Astray, Lost
  <2>2. CASE i = 1
    BY <1>0, <1>5, <2>2 DEF Searching, Astray, Lost
  <2> QED
    BY <1>3, <2>1, <2>2
<1>6. CASE KernelSkip
  <2>1. Astray
    BY <1>4, <1>5, <1>6 DEF KernelSkip
  <2>2. skipped' /\ outcome' = outcome
    BY <1>6 DEF KernelSkip
  <2>3. Searching'
    BY <1>0, <1>1, <1>3, <2>1, <2>2 DEF Searching
  <2> QED
    BY <1>0, <1>1, <1>2, <2>2, <2>3 DEF ReadInv
<1>7. CASE KernelEnd
  <2>1. pos >= Len(image) /\ UNCHANGED <<n, pos, skipped, outcome>>
    BY <1>7 DEF KernelEnd
  <2>2. ~Clean
    <3> SUFFICES ASSUME Clean
                 PROVE  FALSE
      OBVIOUS
    <3>1. pos < Len(image) /\ Len(image) \in Int /\ pos \in Int
      <4>1. Size \in Nat /\ n \in Int /\ i * Size \in Int
        BY <1>0, <1>3, SizeType DEF Clean
      <4> QED
        BY <1>0, <1>4, <4>1 DEF Memory
    <3> QED
      BY <2>1, <3>1
  <2>3. Astray /\ skipped
    BY <1>0, <1>5, <2>2 DEF Searching
  <2>4. Searching'
    BY <1>0, <1>1, <1>3, <2>1, <2>3 DEF Searching
  <2> QED
    BY <1>0, <1>1, <1>2, <2>1, <2>4 DEF ReadInv
<1>8. CASE KernelPanic
  <2>1. n < 0 /\ outcome' = "panic"
    BY <1>8 DEF KernelPanic
  <2>2. ~Clean
    <3>1. Size \in Nat
      BY <1>0, SizeType
    <3> QED
      BY <2>1, <3>1 DEF Clean
  <2>3. Lost(0)
    BY <1>0, <1>5, <2>2 DEF Searching, Astray
  <2> QED
    BY <1>0, <1>1, <1>2, <2>1, <2>3 DEF ReadInv, given
<1> QED
  BY <1>6, <1>7, <1>8

\* A copy that is read to its end is in the destination.
LEMMA CopyRead ==
  ASSUME Memory, i \in 0 .. 1, Clean, n = Size, dest = [p \in 1 .. Size |-> dest[p]]
  PROVE  /\ dest = Copy(i) /\ dest \in Damaged(block)
         /\ ~Lost(i) => dest = block
<1>0. Size \in Nat /\ image \in Seq(Int) /\ Len(image) = 2 * Size + 2
  BY SizeType DEF Memory
<1>1. \A p \in 1 .. Size : dest[p] = image[i * Size + p]
  BY DEF Clean
<1>2. CASE i = 0
  <2>1. Copy(0) = SubSeq(image, 1, Size)
    BY <1>0 DEF Copy
  <2>2. SubSeq(image, 1, Size) = [p \in 1 .. Size |-> image[p]]
    BY <1>0
  <2>3. \A p \in 1 .. Size : dest[p] = image[p]
    BY <1>0, <1>1, <1>2
  <2>4. dest = Copy(0)
    BY <2>1, <2>2, <2>3
  <2> QED
    BY <1>2, <2>4 DEF Memory, Lost
<1>3. CASE i = 1
  <2>0. 1 * Size + 1 = Size + 1 /\ (1 + 1) * Size = Size + Size
    BY <1>0
  <2>1. Copy(1) = SubSeq(image, Size + 1, Size + Size)
    BY <2>0 DEF Copy
  <2>2. SubSeq(image, Size + 1, Size + Size) = [p \in 1 .. Size |-> image[Size + p]]
    BY <1>0, SecondPart
  <2>3. \A p \in 1 .. Size : dest[p] = image[Size + p]
    <3>1. 1 * Size = Size
      BY <1>0
    <3>2. \A p \in 1 .. Size : dest[p] = image[1 * Size + p]
      BY <1>1, <1>3
    <3> QED
      BY <3>1, <3>2
  <2>4. dest = Copy(1)
    BY <2>1, <2>2, <2>3
  <2> QED
    BY <1>3, <2>4 DEF Memory, Lost
<1> QED
  BY <1>2, <1>3

\* Going on to the next copy, when this one is lost.
LEMMA GoesOn ==
  ASSUME ReadInv, outcome = "reading", Astray, NEW e, Continue(e)
  PROVE  ReadInv'
<1>0. /\ Memory /\ Searching /\ i \in 0 .. 1 /\ UNCHANGED given /\ UNCHANGED <<dest, whole>>
  BY DEF ReadInv, Searching, Continue
<1>1. /\ Memory' /\ Size' = Size
      /\ (Lost(0)' <=> Lost(0)) /\ (Lost(1)' <=> Lost(1))
  BY <1>0, MemoryStays
<1>2. dest' = [p \in 1 .. Size' |-> dest'[p]]
  BY <1>0, <1>1 DEF ReadInv
<1>3. CASE i = 0
  <2>1. /\ i' = 1 /\ outcome' = "reading" /\ n' = 0 /\ pos' = Size /\ err' = "nil" /\ Lost(0)
        /\ Size \in Nat
    BY <1>0, <1>3, SizeType DEF Continue, Astray
  <2>2. Clean'
    BY <1>1, <2>1 DEF Clean
  <2>3. Searching'
    BY <1>0, <1>1, <2>1, <2>2 DEF Searching
  <2> QED
    BY <1>1, <1>2, <2>1, <2>3 DEF ReadInv
<1>4. CASE i = 1
  <2>1. Lost(0) /\ Lost(1) /\ ~whole' /\ outcome' \notin {"reading", "panic"}
    BY <1>0, <1>4 DEF Searching, Astray, Continue
  <2> QED
    BY <1>1, <1>2, <2>1 DEF ReadInv
<1> QED
  BY <1>0, <1>3, <1>4

\* A copy that cannot be read to its end is lost.
LEMMA CopyGivenUp ==
  ASSUME ReadInv, CopyEmpty \/ CopyShort
  PROVE  ReadInv'
<1>0. /\ Memory /\ Searching /\ Returned /\ outcome = "reading" /\ n # Size
      /\ \E e : Continue(e)
  <2>1. Memory /\ Size >= 1 /\ Size \in Nat
    BY SizeType DEF ReadInv
  <2>2. Returned /\ n # Size /\ \E e : Continue(e)
    BY <2>1 DEF CopyEmpty, CopyShort
  <2> QED
    BY <2>1, <2>2 DEF ReadInv, Returned
<1>1. Astray
  <2> SUFFICES ASSUME ~Astray
               PROVE  FALSE
    OBVIOUS
  <2>1. Clean /\ err = "nil"
    BY <1>0 DEF Searching
  <2>2. n >= Size /\ n \in 0 .. Size /\ Size \in Nat
    BY <1>0, <2>1, SizeType DEF Returned, Clean
  <2> QED
    BY <1>0, <2>2
<1> QED
  BY <1>0, <1>1, GoesOn

\* A copy that is read to its end is taken if its checksum is right, and then it
\* is the block; if it is wrong, the copy is lost.
LEMMA CopyTried ==
  ASSUME ReadInv, CopyWhole
  PROVE  ReadInv'
<1>0. /\ Memory /\ Searching /\ outcome = "reading" /\ n = Size /\ i \in 0 .. 1
      /\ dest = [p \in 1 .. Size |-> dest[p]] /\ kind \in Kinds /\ block = Block(kind)
  BY DEF ReadInv, CopyWhole, Returned, Searching, Memory
<1>1. Right <=> Sound(kind, dest)
  BY DEF Right, Sound
<1>2. CASE Right
  <2>1. /\ outcome' = "ok" /\ UNCHANGED given /\ UNCHANGED <<dest, skipped>>
    BY <1>2 DEF CopyWhole
  <2>2. /\ Memory' /\ Size' = Size
    BY <1>0, <2>1, MemoryStays
  <2>3. ~skipped => dest = block
    <3> SUFFICES ASSUME ~skipped
                 PROVE  dest = block
      OBVIOUS
    <3>1. Clean
      BY <1>0 DEF Searching
    <3>2. dest \in Damaged(Block(kind))
      BY <1>0, <3>1, CopyRead
    <3> QED
      BY <1>0, <1>1, <1>2, <3>2, DamageShows
  <2>4. dest' = [p \in 1 .. Size' |-> dest'[p]]
    BY <1>0, <2>1, <2>2
  <2>5. skipped' \/ dest' = block'
    BY <2>1, <2>3 DEF given
  <2> QED
    BY <2>1, <2>2, <2>4, <2>5 DEF ReadInv
<1>3. CASE ~Right
  <2>1. Continue("mismatch")
    BY <1>3 DEF CopyWhole
  <2>2. Astray
    <3> SUFFICES ASSUME ~Astray
                 PROVE  FALSE
      OBVIOUS
    <3>1. Clean /\ ~Lost(i)
      <4>1. CASE i = 0
        BY <1>0, <4>1 DEF Searching, Astray
      <4>2. CASE i = 1
        BY <1>0, <4>2 DEF Searching, Astray
      <4> QED
        BY <1>0, <4>1, <4>2
    <3>2. dest = block
      BY <1>0, <3>1, CopyRead
    <3>3. Sound(kind, block)
      BY <1>0, BlockSound
    <3> QED
      BY <1>1, <1>3, <3>2, <3>3
  <2> QED
    BY <1>0, <2>1, <2>2, GoesOn
<1> QED
  BY <1>2, <1>3

\* Every step keeps the invariant.
LEMMA ReadStep ==
  ASSUME ReadInv, [EepromNext]_eepromVars
  PROVE  ReadInv'
<1>1. CASE UNCHANGED eepromVars
  <2>1. UNCHANGED given /\ UNCHANGED <<i, dest, n, pos, err, last, outcome, whole, skipped>>
    BY <1>1 DEF eepromVars, given
  <2>2. /\ (Memory => Memory') /\ Size' = Size
        /\ (Lost(0)' <=> Lost(0)) /\ (Lost(1)' <=> Lost(1))
    BY <2>1, MemoryStays
  <2>3. (Astray' <=> Astray) /\ (Clean' <=> Clean)
    BY <2>1, <2>2 DEF Astray, Clean, given
  <2>4. Searching' <=> Searching
    BY <2>1, <2>2, <2>3 DEF Searching
  <2> QED
    BY <2>1, <2>2, <2>4 DEF ReadInv, given
<1>2. CASE KernelRead
  BY <1>2, KernelReads
<1>3. CASE KernelSkip \/ KernelEnd \/ KernelPanic
  BY <1>3, KernelStops
<1>4. CASE HidRead
  BY <1>4, HidReads
<1>5. CASE CopyEmpty \/ CopyShort
  BY <1>5, CopyGivenUp
<1>6. CASE CopyWhole
  BY <1>6, CopyTried
<1> QED
  BY <1>1, <1>2, <1>3, <1>4, <1>5, <1>6 DEF EepromNext

\* So it always holds.
LEMMA ReadInvariant == EepromSpec => []ReadInv
BY ReadStart, ReadStep, PTL DEF EepromSpec

-----------------------------------------------------------------------------
\* A block that readTwice returns after it read a copy to its end, without a skip,
\* is the block that was written: no wrong byte gets past either checksum.
THEOREM NoDamage == EepromSpec => []Undamaged
<1>1. ReadInv => Undamaged
  BY DEF ReadInv, Undamaged
<1> QED
  BY <1>1, ReadInvariant, PTL

\* The reading ends without a block only when the block cannot be had from the
\* first copy, nor, but for the panic of the kernel driver, from the second.
THEOREM OneCopy == EepromSpec => []OneCopyEnough
<1>1. ReadInv => OneCopyEnough
  BY DEF ReadInv, OneCopyEnough
<1> QED
  BY <1>1, ReadInvariant, PTL

-----------------------------------------------------------------------------
(* The bits of a block in reading order *)

\* The number of a bit when the block is read byte by byte, highest bit first.
At(b) == 8 * b[1] + 7 - b[2]

\* Bytes of eight bits.
LEMMA DividedByEight ==
  \A a \in Int : a \div 8 \in Int /\ a % 8 \in 0 .. 7 /\ a = (8 * (a \div 8)) + (a % 8)
OBVIOUS

\* A field is a run of bits.
LEMMA FieldIsRun ==
  ASSUME NEW o \in Nat, NEW m \in Nat, NEW s \in Nat, NEW w \in Nat, NEW x \in Int, NEW p \in 0 .. 7
  PROVE  Bit(x, p) \in Range(Field(o, m, s, w))
           <=> (8 * (o + m)) - s - w <= At(Bit(x, p)) /\ At(Bit(x, p)) < (8 * (o + m)) - s
<1> DEFINE q == 8 * (o + m - 1 - x) + p
           F == Field(o, m, s, w)
<1>1. At(Bit(x, p)) = 8 * x + 7 - p
  BY DEF At, Bit
<1>2. q \in s .. s + w - 1
        <=> (8 * (o + m)) - s - w <= At(Bit(x, p)) /\ At(Bit(x, p)) < (8 * (o + m)) - s
  BY <1>1
<1>3. ASSUME NEW k \in 0 .. w - 1
      PROVE  F[k] = Bit(x, p) <=> s + k = q
  <2>1. /\ s + k \in Int /\ q \in Int /\ o + m - 1 - x \in Int
        /\ F[k] = <<o + m - 1 - (s + k) \div 8, (s + k) % 8>>
    BY DEF Field, Bit
  <2> DEFINE d == (s + k) \div 8
             r == (s + k) % 8
  <2>2. d \in Int /\ r \in 0 .. 7 /\ s + k = (8 * d) + r
    BY <2>1, DividedByEight
  <2>3. d \in Int /\ r \in 0 .. 7 /\ s + k = (8 * d) + r /\ F[k] = <<o + m - 1 - d, r>>
    BY <2>1, <2>2
  <2> HIDE DEF d, r, F
  <2>4. F[k] = Bit(x, p) <=> o + m - 1 - d = x /\ r = p
    BY <2>3 DEF Bit
  <2> QED
    BY <2>3, <2>4
<1>4. DOMAIN F = 0 .. w - 1
  BY DEF Field
<1>5. q \in s .. s + w - 1 <=> \E k \in 0 .. w - 1 : s + k = q
  <2>1. q \in s .. s + w - 1 => q - s \in 0 .. w - 1 /\ s + (q - s) = q
    OBVIOUS
  <2> HIDE DEF q
  <2> QED
    BY <2>1
<1>6. Bit(x, p) \in Range(F) <=> \E k \in 0 .. w - 1 : F[k] = Bit(x, p)
  <2> HIDE DEF F
  <2> QED
    BY <1>4 DEF Range
<1> HIDE DEF F, q
<1>7. (\E k \in 0 .. w - 1 : F[k] = Bit(x, p)) <=> \E k \in 0 .. w - 1 : s + k = q
  BY <1>3
<1> QED
  BY <1>2, <1>5, <1>6, <1>7 DEF F

\* Without a bit, a number is another one if it is made of the bit.
LEMMA NumberTells ==
  ASSUME NEW ones, NEW b \in ones, NEW f
  PROVE  Number(ones, f) # Number(ones \ {b}, f) <=> b \in Range(f)
<1>1. ASSUME b \in Range(f)
      PROVE  Number(ones, f) # Number(ones \ {b}, f)
  <2>1. PICK k \in DOMAIN f : f[k] = b
    BY <1>1 DEF Range
  <2> QED
    BY <2>1 DEF Number
<1>2. ASSUME b \notin Range(f)
      PROVE  Number(ones, f) = Number(ones \ {b}, f)
  <2>1. \A k \in DOMAIN f : f[k] # b
    BY <1>2 DEF Range
  <2> QED
    BY <2>1 DEF Number
<1> QED
  BY <1>1, <1>2

\* The values in which a bit counts, when these are numbers.
LEMMA DecodeTells ==
  ASSUME NEW ones, NEW b \in ones, NEW fields
  PROVE  /\ DOMAIN DecodeWith(ones, fields) = DOMAIN fields
         /\ {f \in DOMAIN fields : DecodeWith(ones, fields)[f] # DecodeWith(ones \ {b}, fields)[f]}
              = {f \in DOMAIN fields : b \in Range(fields[f])}
<1>1. \A f \in DOMAIN fields : /\ DecodeWith(ones, fields)[f] = Number(ones, fields[f])
                               /\ DecodeWith(ones \ {b}, fields)[f] = Number(ones \ {b}, fields[f])
  BY DEF DecodeWith
<1>2. DOMAIN DecodeWith(ones, fields) = DOMAIN fields
  BY DEF DecodeWith
<1>3. \A f \in DOMAIN fields :
        DecodeWith(ones, fields)[f] # DecodeWith(ones \ {b}, fields)[f] <=> b \in Range(fields[f])
  BY <1>1, NumberTells
<1> QED
  BY <1>2, <1>3, Zenon

\* A set with one member only, and an empty one.
LEMMA Counted ==
  ASSUME NEW S, NEW some \in BOOLEAN,
         some => \E f \in S : \A g \in S : g = f,
         ~some => S = {}
  PROVE  Cardinality(S) = IF some THEN 1 ELSE 0
<1>1. CASE some
  <2>1. PICK f \in S : \A g \in S : g = f
    BY <1>1
  <2>2. S = {f}
    BY <2>1
  <2> QED
    BY <1>1, <2>2, FS_Singleton
<1>2. CASE ~some
  BY <1>2, FS_EmptySet
<1> QED
  BY <1>1, <1>2

-----------------------------------------------------------------------------
(* A Mii *)

\* The bits of the numbers of a Mii in reading order, and the unknown ones.
MadeOf(f, a) ==
  \/ (f = "Invalid" /\ a = 0) \/ (f = "Female" /\ a = 1) \/ (f = "BirthMonth" /\ 2 <= a /\ a <= 5)
  \/ (f = "BirthDay" /\ 6 <= a /\ a <= 10) \/ (f = "FavColor" /\ 11 <= a /\ a <= 14)
  \/ (f = "IsFavorite" /\ a = 15) \/ (f = "Height" /\ 176 <= a /\ a <= 183)
  \/ (f = "Weight" /\ 184 <= a /\ a <= 191) \/ (f = "ID" /\ 192 <= a /\ a <= 223)
  \/ (f = "SystemID0" /\ 224 <= a /\ a <= 231) \/ (f = "SystemID1" /\ 232 <= a /\ a <= 239)
  \/ (f = "SystemID2" /\ 240 <= a /\ a <= 247) \/ (f = "SystemID3" /\ 248 <= a /\ a <= 255)
  \/ (f = "FaceShape" /\ 256 <= a /\ a <= 258) \/ (f = "SkinColor" /\ 259 <= a /\ a <= 261)
  \/ (f = "FacialFeature" /\ 262 <= a /\ a <= 265) \/ (f = "MingleOff" /\ a = 269)
  \/ (f = "Downloaded" /\ a = 271) \/ (f = "HairType" /\ 272 <= a /\ a <= 278)
  \/ (f = "HairColor" /\ 279 <= a /\ a <= 281) \/ (f = "HairPart" /\ a = 282)
  \/ (f = "EyebrowType" /\ 288 <= a /\ a <= 292) \/ (f = "EyebrowRotation" /\ 294 <= a /\ a <= 297)
  \/ (f = "EyebrowColor" /\ 304 <= a /\ a <= 306) \/ (f = "EyebrowSize" /\ 307 <= a /\ a <= 310)
  \/ (f = "EyebrowVertPos" /\ 311 <= a /\ a <= 315)
  \/ (f = "EyebrowHorizSpacing" /\ 316 <= a /\ a <= 319) \/ (f = "EyeType" /\ 320 <= a /\ a <= 325)
  \/ (f = "EyeRotation" /\ 328 <= a /\ a <= 330) \/ (f = "EyeVertPos" /\ 331 <= a /\ a <= 335)
  \/ (f = "EyeColor" /\ 336 <= a /\ a <= 338) \/ (f = "EyeSize" /\ 340 <= a /\ a <= 342)
  \/ (f = "EyeHorizSpacing" /\ 343 <= a /\ a <= 346) \/ (f = "NoseType" /\ 352 <= a /\ a <= 355)
  \/ (f = "NoseSize" /\ 356 <= a /\ a <= 359) \/ (f = "NoseVertPos" /\ 360 <= a /\ a <= 364)
  \/ (f = "LipType" /\ 368 <= a /\ a <= 372) \/ (f = "LipColor" /\ 373 <= a /\ a <= 374)
  \/ (f = "LipSize" /\ 375 <= a /\ a <= 378) \/ (f = "LipVertPos" /\ 379 <= a /\ a <= 383)
  \/ (f = "GlassesType" /\ 384 <= a /\ a <= 387) \/ (f = "GlassesColor" /\ 388 <= a /\ a <= 390)
  \/ (f = "GlassesSize" /\ 392 <= a /\ a <= 394) \/ (f = "GlassesVertPos" /\ 395 <= a /\ a <= 399)
  \/ (f = "MustacheType" /\ 400 <= a /\ a <= 401) \/ (f = "BeardType" /\ 402 <= a /\ a <= 403)
  \/ (f = "FacialHairColor" /\ 404 <= a /\ a <= 406)
  \/ (f = "MustacheSize" /\ 407 <= a /\ a <= 410)
  \/ (f = "MustacheVertPos" /\ 411 <= a /\ a <= 415) \/ (f = "MoleOn" /\ a = 416)
  \/ (f = "MoleSize" /\ 417 <= a /\ a <= 420) \/ (f = "MoleVertPos" /\ 421 <= a /\ a <= 425)
  \/ (f = "MoleHorizPos" /\ 426 <= a /\ a <= 430)
IsUnknown(a) ==
  \/ (266 <= a /\ a <= 268) \/ a = 270 \/ (283 <= a /\ a <= 287) \/ a = 293
  \/ (298 <= a /\ a <= 303) \/ (326 <= a /\ a <= 327) \/ a = 339 \/ (347 <= a /\ a <= 351)
  \/ (365 <= a /\ a <= 367) \/ a = 391 \/ a = 431

\* Bit b, at a in reading order, is in a field if a is in its run.
Runs(b, a, o, m) ==
  \A s, w \in Nat : b \in Range(Field(o, m, s, w))
                      <=> (8 * (o + m)) - s - w <= a /\ a < (8 * (o + m)) - s
AllRuns(b, a) == \A o, m \in Nat : Runs(b, a, o, m)

\* Every bit is in the runs of the fields that it is in.
LEMMA RunsHere ==
  ASSUME NEW x \in Int, NEW p \in 0 .. 7
  PROVE  /\ At(Bit(x, p)) \in Int /\ At(Bit(x, p)) = 8 * x + 7 - p
         /\ AllRuns(Bit(x, p), At(Bit(x, p)))
<1>1. At(Bit(x, p)) \in Int /\ At(Bit(x, p)) = 8 * x + 7 - p
  BY DEF At, Bit
<1>2. \A o, m \in Nat : Runs(Bit(x, p), At(Bit(x, p)), o, m)
  BY FieldIsRun DEF Runs
<1> QED
  BY <1>1, <1>2 DEF AllRuns

\* The eyes are made of these bits.
LEMMA EyeSpans ==
  ASSUME NEW b, NEW a \in Int, AllRuns(b, a), NEW f \in DOMAIN EyeFields
  PROVE  b \in Range(EyeFields[f]) <=> MadeOf(f, a)
<1>1. Runs(b, a, 40, 4)
  BY DEF AllRuns
<1>2. /\ EyeFields["EyeType"] = Field(40, 4, 26, 6) /\ EyeFields["EyeRotation"] = Field(40, 4, 21, 3)
      /\ EyeFields["EyeVertPos"] = Field(40, 4, 16, 5) /\ EyeFields["EyeColor"] = Field(40, 4, 13, 3)
      /\ EyeFields["EyeSize"] = Field(40, 4, 9, 3) /\ EyeFields["EyeHorizSpacing"] = Field(40, 4, 5, 4)
  BY DEF EyeFields
<1>3. f \in {"EyeType", "EyeRotation", "EyeVertPos", "EyeColor", "EyeSize", "EyeHorizSpacing"}
  BY DEF EyeFields
<1> QED
  BY <1>1, <1>2, <1>3 DEF MadeOf, Runs

\* And the other numbers, word by word.
LEMMA FaceSpans ==
  ASSUME NEW b, NEW a \in Int, AllRuns(b, a), NEW f \in DOMAIN FaceFields
  PROVE  b \in Range(FaceFields[f]) <=> MadeOf(f, a)
<1>1. CASE f \in {"Invalid", "Female", "BirthMonth", "BirthDay", "FavColor", "IsFavorite"}
  <2>1. Runs(b, a, 0, 2)
    BY DEF AllRuns
  <2>2. /\ FaceFields["Invalid"] = Field(0, 2, 15, 1) /\ FaceFields["Female"] = Field(0, 2, 14, 1)
        /\ FaceFields["BirthMonth"] = Field(0, 2, 10, 4)
        /\ FaceFields["BirthDay"] = Field(0, 2, 5, 5) /\ FaceFields["FavColor"] = Field(0, 2, 1, 4)
        /\ FaceFields["IsFavorite"] = Field(0, 2, 0, 1)
    BY DEF FaceFields
  <2> QED
    BY <1>1, <2>1, <2>2 DEF MadeOf, Runs
<1>2. CASE f \in {"Height", "Weight", "SystemID0", "SystemID1", "SystemID2", "SystemID3"}
  <2>1. Runs(b, a, 22, 1) /\ Runs(b, a, 23, 1) /\ Runs(b, a, 28, 1)
        /\ Runs(b, a, 29, 1) /\ Runs(b, a, 30, 1) /\ Runs(b, a, 31, 1)
    BY DEF AllRuns
  <2>2. /\ FaceFields["Height"] = Field(22, 1, 0, 8) /\ FaceFields["Weight"] = Field(23, 1, 0, 8)
        /\ FaceFields["SystemID0"] = Field(28, 1, 0, 8) /\ FaceFields["SystemID1"] = Field(29, 1, 0, 8)
        /\ FaceFields["SystemID2"] = Field(30, 1, 0, 8) /\ FaceFields["SystemID3"] = Field(31, 1, 0, 8)
    BY DEF FaceFields, Byte
  <2> QED
    BY <1>2, <2>1, <2>2 DEF MadeOf, Runs
<1>3. CASE f \in {"ID", "FaceShape", "SkinColor", "FacialFeature", "MingleOff", "Downloaded"}
  <2>1. Runs(b, a, 24, 4) /\ Runs(b, a, 32, 2)
    BY DEF AllRuns
  <2>2. /\ FaceFields["ID"] = Field(24, 4, 0, 32) /\ FaceFields["FaceShape"] = Field(32, 2, 13, 3)
        /\ FaceFields["SkinColor"] = Field(32, 2, 10, 3)
        /\ FaceFields["FacialFeature"] = Field(32, 2, 6, 4)
        /\ FaceFields["MingleOff"] = Field(32, 2, 2, 1)
        /\ FaceFields["Downloaded"] = Field(32, 2, 0, 1)
    BY DEF FaceFields
  <2> QED
    BY <1>3, <2>1, <2>2 DEF MadeOf, Runs
<1>4. CASE f \in {"HairType", "HairColor", "HairPart"}
  <2>1. Runs(b, a, 34, 2)
    BY DEF AllRuns
  <2>2. /\ FaceFields["HairType"] = Field(34, 2, 9, 7)
        /\ FaceFields["HairColor"] = Field(34, 2, 6, 3)
        /\ FaceFields["HairPart"] = Field(34, 2, 5, 1)
    BY DEF FaceFields
  <2> QED
    BY <1>4, <2>1, <2>2 DEF MadeOf, Runs
<1>5. CASE f \in {"EyebrowType", "EyebrowRotation", "EyebrowColor", "EyebrowSize", "EyebrowVertPos",
                "EyebrowHorizSpacing"}
  <2>1. Runs(b, a, 36, 4)
    BY DEF AllRuns
  <2>2. /\ FaceFields["EyebrowType"] = Field(36, 4, 27, 5)
        /\ FaceFields["EyebrowRotation"] = Field(36, 4, 22, 4)
        /\ FaceFields["EyebrowColor"] = Field(36, 4, 13, 3)
        /\ FaceFields["EyebrowSize"] = Field(36, 4, 9, 4)
        /\ FaceFields["EyebrowVertPos"] = Field(36, 4, 4, 5)
        /\ FaceFields["EyebrowHorizSpacing"] = Field(36, 4, 0, 4)
    BY DEF FaceFields
  <2> QED
    BY <1>5, <2>1, <2>2 DEF MadeOf, Runs
<1>6. CASE f \in {"NoseType", "NoseSize", "NoseVertPos"}
  <2>1. Runs(b, a, 44, 2)
    BY DEF AllRuns
  <2>2. /\ FaceFields["NoseType"] = Field(44, 2, 12, 4)
        /\ FaceFields["NoseSize"] = Field(44, 2, 8, 4)
        /\ FaceFields["NoseVertPos"] = Field(44, 2, 3, 5)
    BY DEF FaceFields
  <2> QED
    BY <1>6, <2>1, <2>2 DEF MadeOf, Runs
<1>7. CASE f \in {"LipType", "LipColor", "LipSize", "LipVertPos"}
  <2>1. Runs(b, a, 46, 2)
    BY DEF AllRuns
  <2>2. /\ FaceFields["LipType"] = Field(46, 2, 11, 5) /\ FaceFields["LipColor"] = Field(46, 2, 9, 2)
        /\ FaceFields["LipSize"] = Field(46, 2, 5, 4)
        /\ FaceFields["LipVertPos"] = Field(46, 2, 0, 5)
    BY DEF FaceFields
  <2> QED
    BY <1>7, <2>1, <2>2 DEF MadeOf, Runs
<1>8. CASE f \in {"GlassesType", "GlassesColor", "GlassesSize", "GlassesVertPos"}
  <2>1. Runs(b, a, 48, 2)
    BY DEF AllRuns
  <2>2. /\ FaceFields["GlassesType"] = Field(48, 2, 12, 4)
        /\ FaceFields["GlassesColor"] = Field(48, 2, 9, 3)
        /\ FaceFields["GlassesSize"] = Field(48, 2, 5, 3)
        /\ FaceFields["GlassesVertPos"] = Field(48, 2, 0, 5)
    BY DEF FaceFields
  <2> QED
    BY <1>8, <2>1, <2>2 DEF MadeOf, Runs
<1>9. CASE f \in {"MustacheType", "BeardType", "FacialHairColor", "MustacheSize", "MustacheVertPos"}
  <2>1. Runs(b, a, 50, 2)
    BY DEF AllRuns
  <2>2. /\ FaceFields["MustacheType"] = Field(50, 2, 14, 2)
        /\ FaceFields["BeardType"] = Field(50, 2, 12, 2)
        /\ FaceFields["FacialHairColor"] = Field(50, 2, 9, 3)
        /\ FaceFields["MustacheSize"] = Field(50, 2, 5, 4)
        /\ FaceFields["MustacheVertPos"] = Field(50, 2, 0, 5)
    BY DEF FaceFields
  <2> QED
    BY <1>9, <2>1, <2>2 DEF MadeOf, Runs
<1>10. CASE f \in {"MoleOn", "MoleSize", "MoleVertPos", "MoleHorizPos"}
  <2>1. Runs(b, a, 52, 2)
    BY DEF AllRuns
  <2>2. /\ FaceFields["MoleOn"] = Field(52, 2, 15, 1) /\ FaceFields["MoleSize"] = Field(52, 2, 11, 4)
        /\ FaceFields["MoleVertPos"] = Field(52, 2, 6, 5)
        /\ FaceFields["MoleHorizPos"] = Field(52, 2, 1, 5)
    BY DEF FaceFields
  <2> QED
    BY <1>10, <2>1, <2>2 DEF MadeOf, Runs
<1> QED
  BY <1>1, <1>2, <1>3, <1>4, <1>5, <1>6, <1>7, <1>8, <1>9, <1>10, Zenon DEF FaceFields

\* All the numbers.
LEMMA MiiSpans ==
  ASSUME NEW b, NEW a \in Int, AllRuns(b, a), NEW f \in DOMAIN MiiFields
  PROVE  b \in Range(MiiFields[f]) <=> MadeOf(f, a)
BY EyeSpans, FaceSpans DEF MiiFields

\* The unknown bits.
LEMMA UnknownBits ==
  ASSUME NEW b, NEW a \in Int, AllRuns(b, a)
  PROVE  b \in MiiUnknown <=> IsUnknown(a)
<1>1. b \in MiiUnknown <=>
        \E f \in {Field(32, 2, 3, 3), Field(32, 2, 1, 1), Field(34, 2, 0, 5), Field(36, 4, 26, 1),
                  Field(36, 4, 16, 6), Field(40, 4, 24, 2), Field(40, 4, 12, 1), Field(40, 4, 0, 5),
                  Field(44, 2, 0, 3), Field(48, 2, 8, 1), Field(52, 2, 0, 1)} : b \in Range(f)
  BY DEF MiiUnknown
<1>2. /\ Runs(b, a, 32, 2) /\ Runs(b, a, 34, 2) /\ Runs(b, a, 36, 4) /\ Runs(b, a, 40, 4)
      /\ Runs(b, a, 44, 2) /\ Runs(b, a, 48, 2) /\ Runs(b, a, 52, 2)
  BY DEF AllRuns
<1> QED
  BY <1>1, <1>2 DEF Runs, IsUnknown

\* No two numbers share a bit.
LEMMA SpansApart ==
  ASSUME NEW a \in Int, NEW f, NEW g, MadeOf(f, a), MadeOf(g, a)
  PROVE  f = g
BY DEF MadeOf

\* A bit before, between or after the names is of a number or unknown.
LEMMA SpansCover ==
  ASSUME NEW a \in 0 .. 591
  PROVE  /\ a \in (16 .. 175) \cup (432 .. 591) => (\A f : ~MadeOf(f, a)) /\ ~IsUnknown(a)
         /\ a \notin (16 .. 175) \cup (432 .. 591) =>
              ((\E f \in DOMAIN MiiFields : MadeOf(f, a)) <=> ~IsUnknown(a))
<1>1. ASSUME NEW f, MadeOf(f, a)
      PROVE  a \notin (16 .. 175) \cup (432 .. 591) /\ ~IsUnknown(a)
  BY <1>1 DEF MadeOf, IsUnknown
<1>2. a \in (16 .. 175) \cup (432 .. 591) => ~IsUnknown(a)
  BY DEF IsUnknown
<1>3. ASSUME a \notin (16 .. 175) \cup (432 .. 591), ~IsUnknown(a)
      PROVE  \E f \in DOMAIN MiiFields : MadeOf(f, a)
  <2>1. DOMAIN MiiFields =
        {"Invalid", "Female", "BirthMonth", "BirthDay", "FavColor", "IsFavorite", "Height", "Weight",
         "ID", "SystemID0", "SystemID1", "SystemID2", "SystemID3", "FaceShape", "SkinColor",
         "FacialFeature", "MingleOff", "Downloaded", "HairType", "HairColor", "HairPart",
         "EyebrowType", "EyebrowRotation", "EyebrowColor", "EyebrowSize", "EyebrowVertPos",
         "EyebrowHorizSpacing", "EyeType", "EyeRotation", "EyeVertPos", "EyeColor", "EyeSize",
         "EyeHorizSpacing", "NoseType", "NoseSize", "NoseVertPos", "LipType", "LipColor", "LipSize",
         "LipVertPos", "GlassesType", "GlassesColor", "GlassesSize", "GlassesVertPos",
         "MustacheType", "BeardType", "FacialHairColor", "MustacheSize", "MustacheVertPos", "MoleOn",
         "MoleSize", "MoleVertPos", "MoleHorizPos"}
    BY DEF MiiFields, EyeFields, FaceFields
  <2> QED
    BY <1>3, <2>1 DEF MadeOf, IsUnknown
<1> QED
  BY <1>1, <1>2, <1>3

\* The bits of the ten units of a name are ones.
InName(x, o) == x \in o .. o + 19
NameOnes(ones, o) == \A y \in o .. o + 19 : \A q \in 0 .. 7 : Bit(y, q) \in ones

\* The units of a name without a bit: none is empty, so that the name is ten
\* units still, and it is another one if the bit is in its twenty bytes.
LEMMA NameTells ==
  ASSUME NEW ones, NEW o \in Nat, NEW x \in Int, NEW p \in 0 .. 7, Bit(x, p) \in ones,
         NameOnes(ones, o)
  PROVE  utf16name(ones, o) # utf16name(ones \ {Bit(x, p)}, o) <=> InName(x, o)
<1> DEFINE b == Bit(x, p)
           full == Units(ones, o)
           less == Units(ones \ {b}, o)
           F(u) == Field(o + 2 * u, 2, 0, 16)
<1>1. ASSUME NEW u \in 0 .. 9
      PROVE  /\ full[u] = Number(ones, F(u)) /\ less[u] = Number(ones \ {b}, F(u))
             /\ DOMAIN F(u) = 0 .. 15
  BY DEF Units, Number, Field
<1>2. ASSUME NEW u \in 0 .. 9
      PROVE  /\ full[u] # less[u] <=> b \in Range(F(u))
             /\ b \in Range(F(u)) <=> x \in o + 2 * u .. o + 2 * u + 1
  <2>1. full[u] # less[u] <=> b \in Range(F(u))
    BY <1>1, NumberTells
  <2>2. o + 2 * u \in Nat /\ At(b) \in Int /\ At(b) = 8 * x + 7 - p
    <3>1. o + 2 * u \in Nat
      OBVIOUS
    <3> QED
      BY <3>1, RunsHere
  <2>3. b \in Range(F(u)) <=>
          (8 * (o + 2 * u + 2)) - 0 - 16 <= At(b) /\ At(b) < (8 * (o + 2 * u + 2)) - 0
    BY <2>2, FieldIsRun
  <2> HIDE DEF b, F
  <2>4. b \in Range(F(u)) <=> x \in o + 2 * u .. o + 2 * u + 1
    BY <2>2, <2>3
  <2> QED
    BY <2>1, <2>4
<1>3. ASSUME NEW u \in 0 .. 9
      PROVE  full[u] # {} /\ less[u] # {}
  <2>1. /\ F(u)[0] = Bit(o + 2 * u + 1, 0) /\ F(u)[1] = Bit(o + 2 * u + 1, 1)
    <3>1. /\ 0 \in 0 .. 15 /\ 1 \in 0 .. 15 /\ (0 + 0) \div 8 = 0 /\ (0 + 0) % 8 = 0
          /\ (0 + 1) \div 8 = 0 /\ (0 + 1) % 8 = 1
      OBVIOUS
    <3> QED
      BY <3>1 DEF Field
  <2>2. F(u)[0] \in ones /\ F(u)[1] \in ones /\ F(u)[0] # F(u)[1]
    <3>1. o + 2 * u + 1 \in o .. o + 19 /\ 0 \in 0 .. 7 /\ 1 \in 0 .. 7
      OBVIOUS
    <3>2. Bit(o + 2 * u + 1, 0) # Bit(o + 2 * u + 1, 1)
      BY DEF Bit
    <3> HIDE DEF F
    <3> QED
      BY <2>1, <3>1, <3>2 DEF NameOnes
  <2> HIDE DEF F, full, less, b
  <2>3. 0 \in full[u] /\ 1 \in full[u] /\ (0 \in less[u] \/ 1 \in less[u])
    BY <1>1, <2>2 DEF Number
  <2> QED
    BY <2>3
<1>4. full = [u \in 0 .. 9 |-> full[u]] /\ less = [u \in 0 .. 9 |-> less[u]]
  BY DEF Units
<1>5. ASSUME NEW units, units = [u \in 0 .. 9 |-> units[u]], \A u \in 0 .. 9 : units[u] # {}
      PROVE  LET len == CHOOSE m \in 0 .. 10 :
                        (m < 10 => units[m] = {}) /\ \A u \in 0 .. m - 1 : units[u] # {}
             IN [u \in 0 .. len - 1 |-> units[u]] = units
  <2> DEFINE P(m) == (m < 10 => units[m] = {}) /\ \A u \in 0 .. m - 1 : units[u] # {}
             len == CHOOSE m \in 0 .. 10 : P(m)
  <2>1. 10 \in 0 .. 10 /\ P(10)
    BY <1>5
  <2>2. len \in 0 .. 10 /\ P(len)
    <3> HIDE DEF P
    <3> QED
      BY <2>1
  <2>3. len = 10
    <3> HIDE DEF len
    <3>1. ~(len < 10)
      <4> SUFFICES ASSUME len < 10
                   PROVE  FALSE
        OBVIOUS
      <4>1. len \in 0 .. 9
        BY <2>2
      <4>2. units[len] = {}
        BY <2>2
      <4> QED
        BY <1>5, <4>1, <4>2, Zenon
    <3> QED
      BY <2>2, <3>1
  <2> HIDE DEF len
  <2>4. [u \in 0 .. len - 1 |-> units[u]] = units
    BY <1>5, <2>3
  <2> QED
    BY <2>4 DEF len
<1>6. utf16name(ones, o) = full /\ utf16name(ones \ {b}, o) = less
  <2> HIDE DEF full, less, b
  <2> QED
    BY <1>3, <1>4, <1>5 DEF utf16name, full, less
<1>7. full # less <=> \E u \in 0 .. 9 : full[u] # less[u]
  <2> HIDE DEF full, less
  <2> QED
    BY <1>4
<1>8. x \in o .. o + 19 <=> \E u \in 0 .. 9 : x \in o + 2 * u .. o + 2 * u + 1
  <2>1. ASSUME x \in o .. o + 19
        PROVE  \E u \in 0 .. 9 : x \in o + 2 * u .. o + 2 * u + 1
    <3>1. (x - o) \div 2 \in 0 .. 9 /\ x \in o + 2 * ((x - o) \div 2) .. o + 2 * ((x - o) \div 2) + 1
      BY <2>1
    <3> QED
      BY <3>1
  <2> QED
    BY <2>1
<1>9. (\E u \in 0 .. 9 : full[u] # less[u]) <=> \E u \in 0 .. 9 : x \in o + 2 * u .. o + 2 * u + 1
  BY <1>2
<1> QED
  BY <1>6, <1>7, <1>8, <1>9 DEF InName

\* What BitsOnce says of a block, whatever the bit.
Changed(full, less) == {f \in DOMAIN full : full[f] # less[f]}

\* A bit of a Mii counts in one value, unless it is unknown.
LEMMA MiiOnce ==
  ASSUME NEW b \in BitsOf("mii")
  PROVE  Cardinality(Changed(DecodeMii(BitsOf("mii")), DecodeMii(BitsOf("mii") \ {b})))
           = IF b \in MiiUnknown THEN 0 ELSE 1
<1> DEFINE all == BitsOf("mii")
           a == At(b)
           full == DecodeMii(all)
           less == DecodeMii(all \ {b})
           S == Changed(full, less)
<1>1. all = (0 .. 73) \X (0 .. 7)
  BY DEF BitsOf, Sizes, slotSize
<1>2. PICK x \in 0 .. 73, p \in 0 .. 7 : b = Bit(x, p)
  BY <1>1 DEF Bit
<1>3. a \in Int /\ a = 8 * x + 7 - p /\ AllRuns(b, a)
  <2>1. x \in Int
    OBVIOUS
  <2>2. /\ At(Bit(x, p)) \in Int /\ At(Bit(x, p)) = 8 * x + 7 - p
        /\ AllRuns(Bit(x, p), At(Bit(x, p)))
    BY <2>1, RunsHere
  <2> QED
    BY <1>2, <2>2
<1>4. /\ DOMAIN full = DOMAIN MiiFields \cup {"Name", "CreatorName"}
      /\ \A f \in DOMAIN MiiFields \ {"Name", "CreatorName"} :
           full[f] = Number(all, MiiFields[f]) /\ less[f] = Number(all \ {b}, MiiFields[f])
      /\ full["Name"] = utf16name(all, 2) /\ less["Name"] = utf16name(all \ {b}, 2)
      /\ full["CreatorName"] = utf16name(all, 54) /\ less["CreatorName"] = utf16name(all \ {b}, 54)
  <2>1. /\ DOMAIN Names = {"Name", "CreatorName"} /\ Names["Name"] = 2 /\ Names["CreatorName"] = 54
    BY DEF Names
  <2> QED
    BY <2>1 DEF DecodeMii
<1>5. "Name" \notin DOMAIN MiiFields /\ "CreatorName" \notin DOMAIN MiiFields
  BY DEF MiiFields, EyeFields, FaceFields
<1> HIDE DEF all, a, full, less
<1>6. \A f \in DOMAIN MiiFields : full[f] # less[f] <=> MadeOf(f, a)
  BY <1>3, <1>4, <1>5, MiiSpans, NumberTells DEF all
<1>7. /\ full["Name"] # less["Name"] <=> a \in 16 .. 175
      /\ full["CreatorName"] # less["CreatorName"] <=> a \in 432 .. 591
  <2>1. \A o \in {2, 54} : utf16name(all, o) # utf16name(all \ {b}, o) <=> x \in o .. o + 19
    <3> SUFFICES ASSUME NEW o \in {2, 54}
                 PROVE  utf16name(all, o) # utf16name(all \ {b}, o) <=> x \in o .. o + 19
      OBVIOUS
    <3>1. o \in Nat /\ x \in Int /\ \A y \in o .. o + 19 : y \in 0 .. 73
      OBVIOUS
    <3>2. \A y \in 0 .. 73 : \A q \in 0 .. 7 : Bit(y, q) \in all
      BY <1>1 DEF Bit
    <3>3. Bit(x, p) \in all /\ NameOnes(all, o)
      BY <3>1, <3>2 DEF NameOnes
    <3>4. utf16name(all, o) # utf16name(all \ {Bit(x, p)}, o) <=> InName(x, o)
      BY <3>1, <3>3, NameTells
    <3> QED
      BY <1>2, <3>4 DEF InName
  <2>2. x \in 2 .. 2 + 19 <=> a \in 16 .. 175
    BY <1>3
  <2>3. x \in 54 .. 54 + 19 <=> a \in 432 .. 591
    BY <1>3
  <2> QED
    BY <1>4, <2>1, <2>2, <2>3
<1>8. a \in 0 .. 591
  BY <1>3
<1>9. b \in MiiUnknown <=> IsUnknown(a)
  BY <1>3, UnknownBits
<1>10. S = {f \in DOMAIN full : full[f] # less[f]}
  BY DEF Changed
<1> HIDE DEF S
<1>11. ASSUME IsUnknown(a)
       PROVE  S = {}
  BY <1>4, <1>6, <1>7, <1>8, <1>10, <1>11, SpansCover
<1>12. ASSUME ~IsUnknown(a)
       PROVE  \E f \in S : \A g \in S : g = f
  <2>1. CASE a \in 16 .. 175
    <3>1. a \notin 432 .. 591 /\ \A f : ~MadeOf(f, a)
      BY <1>8, <2>1, SpansCover
    <3>2. "Name" \in S /\ \A g \in S : g = "Name"
      BY <1>4, <1>6, <1>7, <1>10, <2>1, <3>1
    <3> QED
      BY <3>2
  <2>2. CASE a \in 432 .. 591
    <3>1. a \notin 16 .. 175 /\ \A f : ~MadeOf(f, a)
      BY <1>8, <2>2, SpansCover
    <3>2. "CreatorName" \in S /\ \A g \in S : g = "CreatorName"
      BY <1>4, <1>6, <1>7, <1>10, <2>2, <3>1
    <3> QED
      BY <3>2
  <2>3. CASE a \notin (16 .. 175) \cup (432 .. 591)
    <3>0. (\E f \in DOMAIN MiiFields : MadeOf(f, a)) <=> ~IsUnknown(a)
      BY <1>8, <2>3, SpansCover
    <3>1. PICK f \in DOMAIN MiiFields : MadeOf(f, a)
      BY <1>12, <3>0
    <3>2. f \in S
      BY <1>4, <1>6, <1>10, <3>1
    <3>3. ASSUME NEW g \in S
          PROVE  g = f
      <4>1. g \in DOMAIN MiiFields /\ MadeOf(g, a)
        BY <1>4, <1>6, <1>7, <1>10, <2>3, <3>3
      <4> QED
        BY <1>3, <3>1, <4>1, SpansApart
    <3> QED
      BY <3>2, <3>3
  <2> QED
    BY <2>1, <2>2, <2>3
<1>13. Cardinality(S) = IF ~IsUnknown(a) THEN 1 ELSE 0
  BY <1>11, <1>12, Counted
<1> QED
  BY <1>9, <1>13 DEF S, full, less, all

-----------------------------------------------------------------------------
(* The calibration *)

\* The numbers of the camera and of the accelerometer.
TwoAbove(x, p, l, h, s) == x = l \/ (x = h /\ s <= p /\ p <= s + 1)

\* A number of the camera's: all of a low byte, and two bits of a high one.
LEMMA IRBits ==
  ASSUME NEW x \in Int, NEW p \in 0 .. 7, NEW l \in Nat, NEW h \in Nat, NEW s \in Nat
  PROVE  Bit(x, p) \in Range(IRNumber(l, h, s)) <=> TwoAbove(x, p, l, h, s)
<1> DEFINE b == Bit(x, p)
           c == IRNumber(l, h, s)
<1>1. /\ DOMAIN c = 0 .. 9 /\ b = <<x, p>>
      /\ \A k \in 0 .. 9 : c[k] = IF k < 8 THEN <<l, k>> ELSE <<h, s + k - 8>>
  BY DEF IRNumber, Bit
<1> HIDE DEF b, c
<1>2. ASSUME NEW k \in 0 .. 9, c[k] = b
      PROVE  x = l \/ (x = h /\ s <= p /\ p <= s + 1)
  BY <1>1, <1>2
<1>3. ASSUME x = l
      PROVE  p \in 0 .. 9 /\ c[p] = b
  BY <1>1, <1>3
<1>4. ASSUME x = h, s <= p, p <= s + 1
      PROVE  p - s + 8 \in 0 .. 9 /\ c[p - s + 8] = b
  BY <1>1, <1>4
<1>5. b \in Range(c) <=> x = l \/ (x = h /\ s <= p /\ p <= s + 1)
  BY <1>1, <1>2, <1>3, <1>4 DEF Range
<1> QED
  BY <1>5 DEF b, c, TwoAbove

\* A number of the accelerometer's: the two bits of a low byte, and all of a high one.
LEMMA AccelBits ==
  ASSUME NEW x \in Int, NEW p \in 0 .. 7, NEW l \in Nat, NEW h \in Nat, NEW s \in Nat
  PROVE  Bit(x, p) \in Range(AccelNumber(h, l, s)) <=> TwoAbove(x, p, h, l, s)
<1> DEFINE b == Bit(x, p)
           d == AccelNumber(h, l, s)
<1>1. /\ DOMAIN d = 0 .. 9 /\ b = <<x, p>>
      /\ \A k \in 0 .. 9 : d[k] = IF k < 2 THEN <<l, s + k>> ELSE <<h, k - 2>>
  BY DEF AccelNumber, Bit
<1> HIDE DEF b, d
<1>2. ASSUME NEW k \in 0 .. 9, d[k] = b
      PROVE  x = h \/ (x = l /\ s <= p /\ p <= s + 1)
  BY <1>1, <1>2
<1>3. ASSUME x = h
      PROVE  p + 2 \in 0 .. 9 /\ d[p + 2] = b
  BY <1>1, <1>3
<1>4. ASSUME x = l, s <= p, p <= s + 1
      PROVE  p - s \in 0 .. 9 /\ d[p - s] = b
  BY <1>1, <1>4
<1>5. b \in Range(d) <=> x = h \/ (x = l /\ s <= p /\ p <= s + 1)
  BY <1>1, <1>2, <1>3, <1>4 DEF Range
<1> QED
  BY <1>5 DEF b, d, TwoAbove

\* Each bit of the camera's calibration is of one number.
LEMMA IROwner ==
  ASSUME NEW b \in BitsOf("ir")
  PROVE  \E f \in DOMAIN IRFields : \A g \in DOMAIN IRFields : b \in Range(IRFields[g]) <=> g = f
<1>1. PICK x \in 0 .. 9, p \in 0 .. 7 : b = Bit(x, p)
  BY DEF BitsOf, Sizes, Bit
<1>2. x \in Int
  OBVIOUS
<1>3. \A l, h, s \in Nat :
        b \in Range(IRNumber(l, h, s)) <=> TwoAbove(x, p, l, h, s)
  <2> SUFFICES ASSUME NEW l \in Nat, NEW h \in Nat, NEW s \in Nat
               PROVE  b \in Range(IRNumber(l, h, s)) <=> TwoAbove(x, p, l, h, s)
    OBVIOUS
  <2>1. Bit(x, p) \in Range(IRNumber(l, h, s)) <=> TwoAbove(x, p, l, h, s)
    BY <1>2, IRBits
  <2> QED
    BY <1>1, <2>1
<1>4. /\ DOMAIN IRFields = {"X0", "Y0", "X1", "Y1", "X2", "Y2", "X3", "Y3"}
      /\ IRFields["X0"] = IRNumber(0, 2, 4) /\ IRFields["Y0"] = IRNumber(1, 2, 6)
      /\ IRFields["X1"] = IRNumber(3, 2, 0) /\ IRFields["Y1"] = IRNumber(4, 2, 2)
      /\ IRFields["X2"] = IRNumber(5, 7, 4) /\ IRFields["Y2"] = IRNumber(6, 7, 6)
      /\ IRFields["X3"] = IRNumber(8, 7, 0) /\ IRFields["Y3"] = IRNumber(9, 7, 2)
  BY DEF IRFields
<1>5. /\ b \in Range(IRFields["X0"]) <=> x = 0 \/ (x = 2 /\ 4 <= p /\ p <= 5)
      /\ b \in Range(IRFields["Y0"]) <=> x = 1 \/ (x = 2 /\ 6 <= p /\ p <= 7)
      /\ b \in Range(IRFields["X1"]) <=> x = 3 \/ (x = 2 /\ 0 <= p /\ p <= 1)
      /\ b \in Range(IRFields["Y1"]) <=> x = 4 \/ (x = 2 /\ 2 <= p /\ p <= 3)
      /\ b \in Range(IRFields["X2"]) <=> x = 5 \/ (x = 7 /\ 4 <= p /\ p <= 5)
      /\ b \in Range(IRFields["Y2"]) <=> x = 6 \/ (x = 7 /\ 6 <= p /\ p <= 7)
      /\ b \in Range(IRFields["X3"]) <=> x = 8 \/ (x = 7 /\ 0 <= p /\ p <= 1)
      /\ b \in Range(IRFields["Y3"]) <=> x = 9 \/ (x = 7 /\ 2 <= p /\ p <= 3)
  BY <1>3, <1>4 DEF TwoAbove
<1> QED
  BY <1>4, <1>5

\* Each bit of the accelerometer's is, too, but for four.
LEMMA AccelOwner ==
  ASSUME NEW b \in BitsOf("accel")
  PROVE  /\ b \in Unused["accel"] => \A g \in DOMAIN AccelFields : b \notin Range(AccelFields[g])
         /\ b \notin Unused["accel"] =>
              \E f \in DOMAIN AccelFields : \A g \in DOMAIN AccelFields :
                b \in Range(AccelFields[g]) <=> g = f
<1>1. PICK x \in 0 .. 8, p \in 0 .. 7 : b = Bit(x, p)
  BY DEF BitsOf, Sizes, Bit
<1>2. x \in Int
  OBVIOUS
<1>3. \A l, h, s \in Nat :
        b \in Range(AccelNumber(h, l, s)) <=> TwoAbove(x, p, h, l, s)
  <2> SUFFICES ASSUME NEW l \in Nat, NEW h \in Nat, NEW s \in Nat
               PROVE  b \in Range(AccelNumber(h, l, s)) <=> TwoAbove(x, p, h, l, s)
    OBVIOUS
  <2>1. Bit(x, p) \in Range(AccelNumber(h, l, s)) <=> TwoAbove(x, p, h, l, s)
    BY <1>2, AccelBits
  <2> QED
    BY <1>1, <2>1
<1>4. /\ DOMAIN AccelFields = {"X0", "Y0", "Z0", "X1", "Y1", "Z1", "speaker", "motor"}
      /\ AccelFields["X0"] = AccelNumber(0, 3, 4) /\ AccelFields["Y0"] = AccelNumber(1, 3, 2)
      /\ AccelFields["Z0"] = AccelNumber(2, 3, 0) /\ AccelFields["X1"] = AccelNumber(4, 7, 4)
      /\ AccelFields["Y1"] = AccelNumber(5, 7, 2) /\ AccelFields["Z1"] = AccelNumber(6, 7, 0)
      /\ AccelFields["speaker"] = Field(8, 1, 0, 7) /\ AccelFields["motor"] = Field(8, 1, 7, 1)
  BY DEF AccelFields
<1>5. /\ b \in Range(AccelFields["X0"]) <=> x = 0 \/ (x = 3 /\ 4 <= p /\ p <= 5)
      /\ b \in Range(AccelFields["Y0"]) <=> x = 1 \/ (x = 3 /\ 2 <= p /\ p <= 3)
      /\ b \in Range(AccelFields["Z0"]) <=> x = 2 \/ (x = 3 /\ 0 <= p /\ p <= 1)
      /\ b \in Range(AccelFields["X1"]) <=> x = 4 \/ (x = 7 /\ 4 <= p /\ p <= 5)
      /\ b \in Range(AccelFields["Y1"]) <=> x = 5 \/ (x = 7 /\ 2 <= p /\ p <= 3)
      /\ b \in Range(AccelFields["Z1"]) <=> x = 6 \/ (x = 7 /\ 0 <= p /\ p <= 1)
  BY <1>3, <1>4 DEF TwoAbove
<1>6. /\ b \in Range(Field(8, 1, 0, 7)) <=> x = 8 /\ p <= 6
      /\ b \in Range(Field(8, 1, 7, 1)) <=> x = 8 /\ p = 7
      /\ b \in Range(Field(3, 1, 6, 2)) <=> x = 3 /\ p >= 6
      /\ b \in Range(Field(7, 1, 6, 2)) <=> x = 7 /\ p >= 6
  <2> DEFINE a == At(b)
  <2>1. a \in Int /\ a = 8 * x + 7 - p /\ AllRuns(b, a)
    <3>1. /\ At(Bit(x, p)) \in Int /\ At(Bit(x, p)) = 8 * x + 7 - p
          /\ AllRuns(Bit(x, p), At(Bit(x, p)))
      BY <1>2, RunsHere
    <3> QED
      BY <1>1, <3>1
  <2> HIDE DEF a
  <2>2. Runs(b, a, 8, 1) /\ Runs(b, a, 3, 1) /\ Runs(b, a, 7, 1)
    BY <2>1 DEF AllRuns
  <2> QED
    BY <2>1, <2>2 DEF Runs
<1>7. b \in Unused["accel"] <=> (x = 3 \/ x = 7) /\ p >= 6
  BY <1>6 DEF Unused
<1>8. /\ b \in Range(AccelFields["speaker"]) <=> x = 8 /\ p <= 6
      /\ b \in Range(AccelFields["motor"]) <=> x = 8 /\ p = 7
  BY <1>4, <1>6
<1> QED
  BY <1>4, <1>5, <1>7, <1>8

-----------------------------------------------------------------------------
(* The slots of a block *)

\* A byte of a slot, and a bit of the parade mask.
InSlot(x, s) == 8 + s * 74 <= x /\ x < 8 + s * 74 + 74
Parades(x, p, s) == At(Bit(x, p)) = 47 - s /\ x \in {4, 5}

\* Without a bit, a slot is another one if the bit is in it.
LEMMA SlotTells ==
  ASSUME NEW ones \in SUBSET (Int \X Int), NEW b \in ones, NEW s \in 0 .. 9
  PROVE  MiiSlot(ones, s) # MiiSlot(ones \ {b}, s) <=> InSlot(b[1], s)
<1> DEFINE shift == 8 + s * 74
           Of(c) == Bit(c[1] - 8 - s * 74, c[2])
           In(T) == {c \in T : InSlot(c[1], s)}
<1>1. shift \in Int /\ \A c \in Int \X Int : c[1] \in Int /\ c[2] \in Int /\ c = <<c[1], c[2]>>
  OBVIOUS
<1>2. ASSUME NEW T \in SUBSET (Int \X Int)
      PROVE  MiiSlot(T, s) = {Of(c) : c \in In(T)}
  <2>1. \A c \in T : c[1] \in 8 + s * 74 .. 8 + (s + 1) * 74 - 1 <=> InSlot(c[1], s)
    BY <1>1 DEF InSlot
  <2>2. {c \in T : c[1] \in 8 + s * 74 .. 8 + (s + 1) * 74 - 1} = In(T)
    BY <2>1
  <2> HIDE DEF In
  <2> QED
    BY <2>2 DEF MiiSlot, slotOffset, slotSize
<1>3. ASSUME ~InSlot(b[1], s)
      PROVE  In(ones) = In(ones \ {b})
  BY <1>3
<1>4. ASSUME NEW c \in Int \X Int, NEW d \in Int \X Int, Of(c) = Of(d)
      PROVE  c = d
  <2>1. c[1] - 8 - s * 74 = d[1] - 8 - s * 74 /\ c[2] = d[2]
    BY <1>4 DEF Bit
  <2>2. c[1] = d[1]
    BY <1>1, <2>1
  <2> QED
    BY <1>1, <2>1, <2>2
<1>5. ASSUME InSlot(b[1], s)
      PROVE  Of(b) \in {Of(c) : c \in In(ones)} /\ Of(b) \notin {Of(c) : c \in In(ones \ {b})}
  <2>1. b \in In(ones) /\ b \notin In(ones \ {b}) /\ In(ones \ {b}) \subseteq Int \X Int
    BY <1>5
  <2> HIDE DEF Of, In
  <2> QED
    BY <1>4, <2>1
<1> HIDE DEF Of, In
<1> QED
  BY <1>2, <1>3, <1>5

\* Without a bit, the parade mask tells another thing of a slot if the bit is its own.
LEMMA ParadeTells ==
  ASSUME NEW ones, NEW x \in Int, NEW p \in 0 .. 7, Bit(x, p) \in ones, NEW s \in 0 .. 9
  PROVE  ~(IsParadeMii(ones, s) <=> IsParadeMii(ones \ {Bit(x, p)}, s)) <=> Parades(x, p, s)
<1> DEFINE b == Bit(x, p)
           f == Field(4, 2, 0, 16)
<1>1. s \in DOMAIN f /\ f[s] = <<5 - (s \div 8), s % 8>>
  <2>1. s \in 0 .. 15 /\ 0 + s = s
    OBVIOUS
  <2> QED
    BY <2>1 DEF Field, Bit
<1>2. /\ IsParadeMii(ones, s) <=> f[s] \in ones
      /\ IsParadeMii(ones \ {b}, s) <=> f[s] \in ones \ {b}
  <2> HIDE DEF f
  <2> QED
    BY <1>1 DEF IsParadeMii, Number, f
<1>3. f[s] = b <=> Parades(x, p, s)
  <2>1. s \div 8 \in Int /\ s % 8 \in 0 .. 7 /\ s = (8 * (s \div 8)) + (s % 8)
    OBVIOUS
  <2>2. At(b) = 8 * x + 7 - p
    BY DEF At, Bit
  <2>3. f[s] = b <=> 5 - (s \div 8) = x /\ s % 8 = p
    BY <1>1 DEF Bit
  <2> HIDE DEF f
  <2> QED
    BY <2>1, <2>2, <2>3 DEF Parades
<1> HIDE DEF f, b
<1>4. b \in ones
  BY DEF b
<1> QED
  BY <1>2, <1>3, <1>4 DEF b

\* A bit of a whole block counts in one slot, or in none.
LEMMA SlotOnce ==
  ASSUME NEW b \in BitsOf("slot")
  PROVE  Cardinality(Changed(MiiSlotSeq(BitsOf("slot")), MiiSlotSeq(BitsOf("slot") \ {b})))
           = IF b[1] \notin {4, 5} \cup 8 .. 747 \/ (b[1] = 4 /\ b[2] > 1) THEN 0 ELSE 1
<1> DEFINE all == BitsOf("slot")
           full == MiiSlotSeq(all)
           less == MiiSlotSeq(all \ {b})
           S == Changed(full, less)
<1>1. all \subseteq (0 .. 751) \X (0 .. 7)
  <2>1. Sizes["slot"] = 752
    BY DEF Sizes
  <2>2. all = ((0 .. 751) \X Places) \cup ({4, 5} \X (0 .. 7))
    BY <2>1 DEF BitsOf
  <2> HIDE DEF all
  <2> SUFFICES ASSUME NEW c \in all
               PROVE  c \in (0 .. 751) \X (0 .. 7)
    OBVIOUS
  <2>3. CASE c \in (0 .. 751) \X Places
    <3>1. c = <<c[1], c[2]>> /\ c[1] \in 0 .. 751 /\ c[2] \in Places
      BY <2>3
    <3>2. c[2] \in 0 .. 7
      BY <3>1, PlacesAssumption
    <3> QED
      BY <3>1, <3>2
  <2>4. CASE c \in {4, 5} \X (0 .. 7)
    BY <2>4
  <2> QED
    BY <2>2, <2>3, <2>4
<1>2. PICK x \in 0 .. 751, p \in 0 .. 7 : b = Bit(x, p)
  BY <1>1 DEF Bit
<1>3. x \in Int /\ b[1] = x /\ b[2] = p /\ At(Bit(x, p)) = 8 * x + 7 - p
  BY <1>2 DEF At, Bit
<1>4. all \in SUBSET (Int \X Int)
  BY <1>1
<1>5. /\ DOMAIN full = 0 .. 9
      /\ \A s \in 0 .. 9 : /\ full[s] = <<MiiSlot(all, s), IsParadeMii(all, s)>>
                           /\ less[s] = <<MiiSlot(all \ {b}, s), IsParadeMii(all \ {b}, s)>>
  BY DEF MiiSlotSeq
<1> HIDE DEF all, full, less
<1>6. \A s \in 0 .. 9 : full[s] # less[s] <=> InSlot(x, s) \/ Parades(x, p, s)
  <2> SUFFICES ASSUME NEW s \in 0 .. 9
               PROVE  full[s] # less[s] <=> InSlot(x, s) \/ Parades(x, p, s)
    OBVIOUS
  <2>1. MiiSlot(all, s) # MiiSlot(all \ {b}, s) <=> InSlot(x, s)
    BY <1>3, <1>4, SlotTells DEF all
  <2>2. ~(IsParadeMii(all, s) <=> IsParadeMii(all \ {b}, s)) <=> Parades(x, p, s)
    BY <1>2, <1>3, ParadeTells DEF all
  <2>3. \A q, r : q \in BOOLEAN /\ r \in BOOLEAN => (q # r <=> ~(q <=> r))
    BY Zenon
  <2>4. IsParadeMii(all, s) \in BOOLEAN /\ IsParadeMii(all \ {b}, s) \in BOOLEAN
    BY DEF IsParadeMii
  <2>5. IsParadeMii(all, s) # IsParadeMii(all \ {b}, s) <=> Parades(x, p, s)
    BY <2>2, <2>3, <2>4, Zenon
  <2>6. \A c, d, q, r : <<c, q>> # <<d, r>> <=> c # d \/ q # r
    OBVIOUS
  <2> QED
    BY <1>5, <2>1, <2>5, <2>6, Zenon
<1>7. S = {s \in 0 .. 9 : InSlot(x, s) \/ Parades(x, p, s)}
  BY <1>5, <1>6 DEF Changed
<1> HIDE DEF S
<1> DEFINE some == x \in 8 .. 747 \/ x = 5 \/ (x = 4 /\ p <= 1)
<1>8. ASSUME some
      PROVE  \E s \in S : \A r \in S : r = s
  <2>1. CASE x \in 8 .. 747
    <3> DEFINE s == (x - 8) \div 74
    <3>1. s \in 0 .. 9 /\ InSlot(x, s)
      BY <2>1 DEF InSlot
    <3> HIDE DEF s
    <3>2. \A r \in S : r = s
      BY <1>7, <2>1, <3>1 DEF InSlot, Parades
    <3> QED
      BY <1>7, <3>1, <3>2
  <2>2. CASE x \in {4, 5}
    <3> DEFINE s == 47 - (8 * x + 7 - p)
    <3>1. s \in 0 .. 9 /\ Parades(x, p, s)
      BY <1>3, <1>8, <2>2 DEF Parades
    <3>2. \A r \in S : r = s
      BY <1>3, <1>7, <2>2 DEF InSlot, Parades
    <3> QED
      BY <1>7, <3>1, <3>2
  <2> QED
    BY <1>8, <2>1, <2>2
<1>9. ASSUME ~some
      PROVE  S = {}
  BY <1>3, <1>7, <1>9 DEF InSlot, Parades
<1>10. b[1] \notin {4, 5} \cup 8 .. 747 \/ (b[1] = 4 /\ b[2] > 1) <=> ~some
  BY <1>3
<1>11. Cardinality(S) = IF some THEN 1 ELSE 0
  <2> HIDE DEF some
  <2> QED
    BY <1>8, <1>9, Counted
<1> QED
  BY <1>10, <1>11 DEF S, full, less, all

-----------------------------------------------------------------------------
(* Every block *)

\* Where each bit has an owner among the fields, it counts in one value.
LEMMA OwnedOnce ==
  ASSUME NEW ones, NEW b \in ones, NEW fields, NEW owned \in BOOLEAN,
         owned => \E f \in DOMAIN fields : \A g \in DOMAIN fields : b \in Range(fields[g]) <=> g = f,
         ~owned => \A g \in DOMAIN fields : b \notin Range(fields[g])
  PROVE  Cardinality(Changed(DecodeWith(ones, fields), DecodeWith(ones \ {b}, fields)))
           = IF owned THEN 1 ELSE 0
<1> DEFINE S == {f \in DOMAIN fields : b \in Range(fields[f])}
<1>1. Changed(DecodeWith(ones, fields), DecodeWith(ones \ {b}, fields)) = S
  <2>1. /\ DOMAIN DecodeWith(ones, fields) = DOMAIN fields
        /\ {f \in DOMAIN fields : DecodeWith(ones, fields)[f] # DecodeWith(ones \ {b}, fields)[f]} = S
    BY DecodeTells
  <2> HIDE DEF S
  <2> QED
    BY <2>1 DEF Changed
<1>2. owned => \E f \in S : \A g \in S : g = f
  OBVIOUS
<1>3. ~owned => S = {}
  OBVIOUS
<1> HIDE DEF S
<1> QED
  BY <1>1, <1>2, <1>3, Counted

\* Each bit of a block counts in one of the values decoded, and only in that.
THEOREM BitsCountOnce == LayoutSpec => []BitsOnce
<1> DEFINE Inv == table \in Tables /\ bit \in BitsOf(table)
<1>1. LayoutInit => Inv
  BY DEF LayoutInit
<1>2. Inv /\ [FALSE]_layoutVars => Inv'
  BY DEF layoutVars, BitsOf
<1>3. Inv => BitsOnce
  <2> SUFFICES ASSUME Inv
               PROVE  Cardinality(Changed(Decode(BitsOf(table)), Decode(BitsOf(table) \ {bit})))
                        = IF bit \in NoValue THEN 0 ELSE 1
    BY DEF BitsOnce, Changed
  <2>1. CASE table = "mii"
    <3>1. /\ Decode(BitsOf("mii")) = DecodeMii(BitsOf("mii"))
          /\ Decode(BitsOf("mii") \ {bit}) = DecodeMii(BitsOf("mii") \ {bit})
          /\ NoValue = MiiUnknown
      BY <2>1 DEF Decode, NoValue, Unused
    <3> QED
      BY <2>1, <3>1, MiiOnce
  <2>2. CASE table = "slot"
    <3>1. /\ Decode(BitsOf("slot")) = MiiSlotSeq(BitsOf("slot"))
          /\ Decode(BitsOf("slot") \ {bit}) = MiiSlotSeq(BitsOf("slot") \ {bit})
      BY <2>2 DEF Decode
    <3>2. bit \in NoValue <=> bit[1] \notin {4, 5} \cup 8 .. 747 \/ (bit[1] = 4 /\ bit[2] > 1)
      BY <2>2 DEF NoValue
    <3> QED
      BY <2>2, <3>1, <3>2, SlotOnce
  <2>3. CASE table = "ir"
    <3>1. /\ Decode(BitsOf("ir")) = DecodeWith(BitsOf("ir"), IRFields)
          /\ Decode(BitsOf("ir") \ {bit}) = DecodeWith(BitsOf("ir") \ {bit}, IRFields)
          /\ NoValue = {} /\ bit \in BitsOf("ir")
      BY <2>3 DEF Decode, NoValue, Unused
    <3>2. Cardinality(Changed(DecodeWith(BitsOf("ir"), IRFields),
                              DecodeWith(BitsOf("ir") \ {bit}, IRFields))) = IF TRUE THEN 1 ELSE 0
      BY <3>1, IROwner, OwnedOnce
    <3> QED
      BY <2>3, <3>1, <3>2
  <2>4. CASE table = "accel"
    <3>1. /\ Decode(BitsOf("accel")) = DecodeWith(BitsOf("accel"), AccelFields)
          /\ Decode(BitsOf("accel") \ {bit}) = DecodeWith(BitsOf("accel") \ {bit}, AccelFields)
          /\ NoValue = Unused["accel"] /\ bit \in BitsOf("accel")
      BY <2>4 DEF Decode, NoValue
    <3> DEFINE owned == bit \notin Unused["accel"]
    <3>2. Cardinality(Changed(DecodeWith(BitsOf("accel"), AccelFields),
                              DecodeWith(BitsOf("accel") \ {bit}, AccelFields)))
            = IF owned THEN 1 ELSE 0
      <4>1. /\ owned \in BOOLEAN
            /\ owned => \E f \in DOMAIN AccelFields : \A g \in DOMAIN AccelFields :
                          bit \in Range(AccelFields[g]) <=> g = f
            /\ ~owned => \A g \in DOMAIN AccelFields : bit \notin Range(AccelFields[g])
        BY <3>1, AccelOwner
      <4> HIDE DEF owned
      <4> QED
        BY <3>1, <4>1, OwnedOnce
    <3> QED
      BY <2>4, <3>1, <3>2
  <2> QED
    BY <2>1, <2>2, <2>3, <2>4 DEF Tables
<1> QED
  BY <1>1, <1>2, <1>3, PTL DEF LayoutSpec
================================================================================
