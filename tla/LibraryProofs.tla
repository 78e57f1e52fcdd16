----------------------------- MODULE LibraryProofs -----------------------------
(***************************************************************************)
(* Proofs about what surrounds the two drivers: what the features of the   *)
(* kernel driver return is what their nodes told, and every appearance of  *)
(* a device is provided once at most.                                      *)
(***************************************************************************)
EXTENDS Features, Discover, FoldProofs

-----------------------------------------------------------------------------
(* Features: what is returned at the end of a report is what the device had *)

\* Entry e of a buffer tells the value of code c.
TellsOf(e, c) == About(e) /\ e.code = c

\* None of the first k entries tells of c.
Silent(q, k, c) == \A j \in 1 .. k : ~TellsOf(q[j], c)

\* The last of them that tells of c tells v.
LastTells(q, k, c, v) ==
  \A j \in 1 .. k : TellsOf(q[j], c) /\ (\A l \in j + 1 .. k : ~TellsOf(q[l], c)) => q[j].value = v

\* What the object makes of a code: its kind, its values, the axes read since
\* the last report ended, the keys that are down.
Object == [kind |-> Kind, fields |-> fields, fresh |-> fresh, down |-> down]

\* The object o has value v for axis c; MotionPlus, until the report ends.
HasAxis(o, c, v) ==
  c \in DOMAIN Axes(o.kind) /\ (o.kind = "MotionPlus" => c \in o.fresh) => o.fields[Axes(o.kind)[c]] = v

\* The events returned say that key c is down exactly if v is 1.
HasKey(o, c, v) ==
  c \in DOMAIN Keys(o.kind) => (Keys(o.kind)[c] \in o.down <=> v = 1)

\* The zero point is not taken off before the first k entries are read.
Whole(o, q, k) == o.kind = "MotionPlus" => \A j \in 1 .. k : q[j].type # "SYN"

\* When the object o has read the first k entries of q, it is at v for c.
Reaches(o, q, k, c, v) ==
  /\ LastTells(q, k, c, v)
  /\ Silent(q, k, c) => HasKey(o, c, v) /\ (Whole(o, q, k) => HasAxis(o, c, v))

\* The codes of axes, also of one that is in no table.
AxisCodes(kind) == DOMAIN Axes(kind) \cup {"ABS_OTHER"}

\* What an entry of a buffer can be, for a device with these codes.
Entries(kind, codes) ==
  [type : {"ABS"}, code : codes \cap AxisCodes(kind), value : Int]
  \cup [type : {"KEY"}, code : codes \ AxisCodes(kind), value : {0, 1, 2}]
  \cup {Sync("DROPPED")}
  \cup [type : {"SYN"}, code : {"REPORT"}, value : {0}, was : [codes -> Int], told : SUBSET codes]

FeaturesTypeOK ==
  /\ device \in [DOMAIN device -> Int] /\ IsFiniteSet(DOMAIN device)
  /\ queue \in Seq(Entries(Kind, DOMAIN device))
  /\ fields \in [Range(Axes(Kind)) -> Int]
  /\ zero \in [Range(Axes(Kind)) -> Int] /\ factor \in Int
  /\ told \in SUBSET DOMAIN device

\* What is told of the device arrives: by the end of the buffer, the values that
\* it has; by the end of each report in it, those it had then.
Arriving(o, q, codes, has) ==
  /\ \A c \in codes : Reaches(o, q, Len(q), c, has[c])
  /\ \A i \in 1 .. Len(q) : q[i].type = "SYN" /\ q[i].code = "REPORT" =>
       \A c \in q[i].told : Reaches(o, q, i - 1, c, q[i].was[c])

FeaturesInv == FeaturesTypeOK /\ Arriving(Object, queue, told, device)

\* The axes of a kind have different values, its keys are different keys, and no
\* code is both.
LEMMA AxesApart ==
  ASSUME NEW kind, NEW c \in DOMAIN Axes(kind), NEW d \in DOMAIN Axes(kind),
         Axes(kind)[c] = Axes(kind)[d]
  PROVE  c = d
<1> USE DEF Axes
<1>1. CASE kind = "Accel"
  BY <1>1 DEF AccelAxes
<1>2. CASE kind = "IR"
  BY <1>2 DEF IRAxes
<1>3. CASE kind = "MotionPlus"
  BY <1>3 DEF MotionPlusAxes
<1>4. CASE kind = "Nunchuck"
  BY <1>4 DEF NunchuckAxes, AccelAxes, ++
<1>5. CASE kind = "ClassicController"
  BY <1>5 DEF ClassicAxes
<1>6. CASE kind = "BalanceBoard"
  BY <1>6 DEF BoardAxes
<1>7. CASE kind = "ProController"
  BY <1>7 DEF ProAxes
<1>8. CASE kind = "Drums"
  BY <1>8 DEF DrumsAxes
<1>9. CASE kind = "Guitar"
  BY <1>9 DEF GuitarAxes
<1> QED
  BY <1>1, <1>2, <1>3, <1>4, <1>5, <1>6, <1>7, <1>8, <1>9 DEF NoCodes

\* The same of the keys.
LEMMA KeysApart ==
  ASSUME NEW kind, NEW c \in DOMAIN Keys(kind), NEW d \in DOMAIN Keys(kind),
         Keys(kind)[c] = Keys(kind)[d]
  PROVE  c = d
<1> USE DEF Keys
<1>1. CASE kind = "Core"
  BY <1>1 DEF CoreKeys, Arrows, PlusMinus, Home, ++
<1>2. CASE kind = "Nunchuck"
  BY <1>2 DEF NunchuckKeys
<1>3. CASE kind = "ClassicController"
  BY <1>3 DEF ClassicKeys, Arrows, PlusMinus, Home, Triggers, ++
<1>4. CASE kind = "ProController"
  BY <1>4 DEF ProKeys, StartSelect, Home, Triggers, ++
<1>5. CASE kind = "Drums"
  BY <1>5 DEF StartSelect
<1>6. CASE kind = "Guitar"
  BY <1>6 DEF GuitarKeys, Home, ++
<1> QED
  BY <1>1, <1>2, <1>3, <1>4, <1>5, <1>6 DEF NoCodes

\* No code is both an axis and a key.
LEMMA AxisOrKey ==
  ASSUME NEW kind, NEW c \in AxisCodes(kind)
  PROVE  c \notin DOMAIN Keys(kind)
<1> USE DEF Axes, Keys, AxisCodes
<1>0. CASE kind = "Core"
  BY <1>0 DEF CoreKeys, Arrows, PlusMinus, Home, ++, NoCodes
<1>1. CASE kind = "Nunchuck"
  BY <1>1 DEF NunchuckAxes, NunchuckKeys, AccelAxes, ++
<1>2. CASE kind = "ClassicController"
  BY <1>2 DEF ClassicAxes, ClassicKeys, Arrows, PlusMinus, Home, Triggers, ++
<1>3. CASE kind = "ProController"
  BY <1>3 DEF ProAxes, ProKeys, StartSelect, Home, Triggers, ++
<1>4. CASE kind = "Drums"
  BY <1>4 DEF DrumsAxes, StartSelect
<1>5. CASE kind = "Guitar"
  BY <1>5 DEF GuitarAxes, GuitarKeys, Home, ++
<1> QED
  BY <1>0, <1>1, <1>2, <1>3, <1>4, <1>5 DEF NoCodes

(* The buffer *)

\* What an entry is, by its type.
LEMMA EntryIs ==
  ASSUME NEW kind, NEW codes, NEW e \in Entries(kind, codes)
  PROVE  /\ e.type \in {"ABS", "KEY", "SYN"}
         /\ e.type = "ABS" => e.code \in codes \cap AxisCodes(kind) /\ e.value \in Int
         /\ e.type = "KEY" => e.code \in codes \ AxisCodes(kind) /\ e.value \in {0, 1, 2}
         /\ e.type = "SYN" /\ e.code = "REPORT" => e.was \in [codes -> Int] /\ e.told \in SUBSET codes
         /\ About(e) => e.code \in codes /\ e.value \in Int
  BY DEF Entries, Sync, About

\* More entries at the end of a buffer change nothing of what comes before.
LEMMA ReachesSame ==
  ASSUME NEW o, NEW q, NEW r, NEW k \in Nat, NEW c, NEW v,
         \A j \in 1 .. k : r[j] = q[j],
         Reaches(o, q, k, c, v)
  PROVE  Reaches(o, r, k, c, v)
<1>1. Silent(r, k, c) = Silent(q, k, c)
  BY DEF Silent
<1>2. Whole(o, r, k) = Whole(o, q, k)
  BY DEF Whole
<1>3. LastTells(r, k, c, v)
  <2> SUFFICES ASSUME NEW j \in 1 .. k, TellsOf(r[j], c), \A l \in j + 1 .. k : ~TellsOf(r[l], c)
               PROVE  r[j].value = v
    BY DEF LastTells
  <2>1. \A l \in j + 1 .. k : l \in 1 .. k
    OBVIOUS
  <2>2. \A l \in j + 1 .. k : ~TellsOf(q[l], c)
    BY <2>1
  <2> QED
    BY <2>2 DEF LastTells, Reaches
<1> QED
  BY <1>1, <1>2, <1>3 DEF Reaches

\* An entry that tells nothing of c, or the value that it has.
LEMMA ReachesMore ==
  ASSUME NEW o, NEW q, NEW k \in Nat, NEW c, NEW v,
         Reaches(o, q, k, c, v), ~TellsOf(q[k + 1], c)
  PROVE  Reaches(o, q, k + 1, c, v)
<1>1. 1 .. k + 1 = (1 .. k) \cup {k + 1}
  OBVIOUS
<1>2. Silent(q, k + 1, c) => Silent(q, k, c)
  BY <1>1 DEF Silent
<1>3. Whole(o, q, k + 1) => Whole(o, q, k)
  BY <1>1 DEF Whole
<1>4. LastTells(q, k + 1, c, v)
  <2> SUFFICES ASSUME NEW j \in 1 .. k + 1, TellsOf(q[j], c), \A l \in j + 1 .. k + 1 : ~TellsOf(q[l], c)
               PROVE  q[j].value = v
    BY DEF LastTells
  <2>1. j \in 1 .. k /\ \A l \in j + 1 .. k : l \in j + 1 .. k + 1
    BY <1>1
  <2> QED
    BY <2>1 DEF LastTells, Reaches
<1> QED
  BY <1>2, <1>3, <1>4 DEF Reaches

\* The first of some positions, and the rest.
LEMMA FirstAndRest ==
  ASSUME NEW k \in Nat
  PROVE  \A j \in 1 .. k + 1 : j = 1 \/ (j - 1 \in 1 .. k /\ j = (j - 1) + 1)
OBVIOUS

\* What the latest entry tells reaches the state.
LEMMA ReachesTold ==
  ASSUME NEW o, NEW q, NEW k \in Nat, NEW c, TellsOf(q[k + 1], c)
  PROVE  Reaches(o, q, k + 1, c, q[k + 1].value)
<1>1. k + 1 \in 1 .. k + 1
  OBVIOUS
<1>2. ~Silent(q, k + 1, c)
  BY <1>1 DEF Silent
<1>3. LastTells(q, k + 1, c, q[k + 1].value)
  <2> SUFFICES ASSUME NEW j \in 1 .. k + 1, j # k + 1, \A l \in j + 1 .. k + 1 : ~TellsOf(q[l], c)
               PROVE  FALSE
    BY DEF LastTells
  <2> QED
    OBVIOUS
<1> QED
  BY <1>2, <1>3 DEF Reaches

\* Reading the first entry.
LEMMA ReachesRead ==
  ASSUME NEW S, NEW q \in Seq(S), q # <<>>, NEW o, NEW p, NEW k \in Nat, k < Len(q), NEW c, NEW v,
         Reaches(o, q, k + 1, c, v),
         TellsOf(q[1], c) => HasAxis(p, c, q[1].value) /\ HasKey(p, c, q[1].value),
         ~TellsOf(q[1], c) =>
           /\ HasKey(o, c, v) => HasKey(p, c, v)
           /\ (p.kind = "MotionPlus" /\ q[1].type = "SYN") \/ HasAxis(o, c, v) => HasAxis(p, c, v),
         p.kind = o.kind
  PROVE  Reaches(p, Tail(q), k, c, v)
<1>1. \A j \in 1 .. k : j + 1 \in 1 .. k + 1 /\ j + 1 \in 2 .. Len(q) /\ Tail(q)[j] = q[j + 1]
  OBVIOUS
<1>2. LastTells(Tail(q), k, c, v)
  <2> SUFFICES ASSUME NEW j \in 1 .. k, TellsOf(Tail(q)[j], c), \A l \in j + 1 .. k : ~TellsOf(Tail(q)[l], c)
               PROVE  Tail(q)[j].value = v
    BY DEF LastTells
  <2>1. ASSUME NEW l \in (j + 1) + 1 .. k + 1
        PROVE  ~TellsOf(q[l], c)
    <3>1. l - 1 \in j + 1 .. k /\ l - 1 \in 1 .. k /\ (l - 1) + 1 = l
      OBVIOUS
    <3> QED
      BY <1>1, <3>1
  <2> QED
    BY <1>1, <2>1 DEF LastTells, Reaches
<1>3. \A j \in 1 .. k + 1 : j = 1 \/ (j - 1 \in 1 .. k /\ j = (j - 1) + 1)
  BY FirstAndRest
<1>4. ASSUME Silent(Tail(q), k, c)
      PROVE  HasKey(p, c, v) /\ (Whole(p, Tail(q), k) => HasAxis(p, c, v))
  <2>1. \A j \in 1 .. k : ~TellsOf(q[j + 1], c)
    BY <1>1, <1>4 DEF Silent
  <2>2. CASE TellsOf(q[1], c)
    <3>1. 1 \in 1 .. k + 1 /\ \A l \in 1 + 1 .. k + 1 : l - 1 \in 1 .. k /\ (l - 1) + 1 = l
      OBVIOUS
    <3>2. q[1].value = v
      BY <2>1, <2>2, <3>1 DEF LastTells, Reaches
    <3> QED
      BY <2>2, <3>2
  <2>3. CASE ~TellsOf(q[1], c)
    <3>1. Silent(q, k + 1, c)
      BY <1>3, <2>1, <2>3 DEF Silent
    <3>2. HasKey(p, c, v)
      BY <2>3, <3>1 DEF Reaches
    <3>3. ASSUME Whole(p, Tail(q), k), ~(p.kind = "MotionPlus" /\ q[1].type = "SYN")
          PROVE  Whole(o, q, k + 1)
      <4> SUFFICES ASSUME o.kind = "MotionPlus"
                   PROVE  \A j \in 1 .. k + 1 : q[j].type # "SYN"
        BY DEF Whole
      <4>1. q[1].type # "SYN" /\ \A j \in 1 .. k : q[j + 1].type # "SYN"
        BY <1>1, <3>3 DEF Whole
      <4> QED
        BY <1>3, <4>1
    <3> QED
      BY <2>3, <3>1, <3>2, <3>3 DEF Reaches
  <2> QED
    BY <2>2, <2>3
<1> QED
  BY <1>2, <1>4 DEF Reaches

\* The codes that one entry tells.
LEMMA TellingOne ==
  ASSUME NEW e
  PROVE  Telling(<<e>>) = IF About(e) THEN {e.code} ELSE {}
<1>1. DOMAIN <<e>> = {1} /\ <<e>>[1] = e
  OBVIOUS
<1> QED
  BY <1>1 DEF Telling

\* A sequence of two.
LEMMA AppendTwo ==
  ASSUME NEW x, NEW y
  PROVE  Append(<<x>>, y) = <<x, y>>
<1> DEFINE s == Append(<<x>>, y)
<1>1. <<x>> \in Seq({x, y}) /\ Len(<<x>>) = 1 /\ <<x>>[1] = x
  OBVIOUS
<1>2. s \in Seq({x, y}) /\ Len(s) = 2 /\ s[1] = x /\ s[2] = y
  BY <1>1
<1>3. DOMAIN s = 1 .. 2 /\ s = [i \in DOMAIN s |-> s[i]]
  BY <1>2
<1> HIDE DEF s
<1>4. s = [i \in 1 .. 2 |-> IF i = 1 THEN x ELSE y]
  BY <1>2, <1>3
<1>5. <<x, y>> = [i \in 1 .. 2 |-> IF i = 1 THEN x ELSE y]
  OBVIOUS
<1> QED
  BY <1>4, <1>5 DEF s

\* One more entry.
LEMMA AddedArrives ==
  ASSUME NEW o, NEW codes, NEW q \in Seq(Entries(o.kind, codes)), NEW t \in SUBSET codes,
         NEW new, NEW e \in Entries(o.kind, codes),
         Arriving(o, q, t, new),
         About(e) => e.value = new[e.code],
         e.type = "SYN" /\ e.code = "REPORT" => e.told \subseteq t /\ e.was = new
  PROVE  /\ Append(q, e) \in Seq(Entries(o.kind, codes))
         /\ t \cup Telling(<<e>>) \in SUBSET codes
         /\ Arriving(o, Append(q, e), t \cup Telling(<<e>>), new)
<1> DEFINE r == Append(q, e)
           k == Len(q)
<1>1. /\ r \in Seq(Entries(o.kind, codes)) /\ k \in Nat /\ Len(r) = k + 1 /\ r[k + 1] = e
      /\ \A j \in 1 .. k : r[j] = q[j]
  OBVIOUS
<1>2. t \cup Telling(<<e>>) \in SUBSET codes
  <2>1. About(e) => e.code \in codes
    BY EntryIs
  <2> QED
    BY <2>1, TellingOne
<1> HIDE DEF r, k
<1>3. ASSUME NEW c \in t \cup Telling(<<e>>)
      PROVE  Reaches(o, r, k + 1, c, new[c])
  <2>1. CASE TellsOf(e, c)
    <3>1. Reaches(o, r, k + 1, c, r[k + 1].value)
      BY <1>1, <2>1, ReachesTold
    <3> QED
      BY <1>1, <2>1, <3>1 DEF TellsOf
  <2>2. CASE ~TellsOf(e, c)
    <3>1. c \in t
      BY <2>2, TellingOne DEF TellsOf
    <3>2. Reaches(o, r, k, c, new[c])
      BY <1>1, <3>1, ReachesSame DEF Arriving, k
    <3> QED
      BY <1>1, <2>2, <3>2, ReachesMore
  <2> QED
    BY <2>1, <2>2
<1>4. ASSUME NEW i \in 1 .. k + 1, r[i].type = "SYN", r[i].code = "REPORT", NEW c \in r[i].told
      PROVE  Reaches(o, r, i - 1, c, r[i].was[c])
  <2>1. CASE i = k + 1
    <3>1. c \in t /\ r[i].was[c] = new[c] /\ i - 1 = k
      BY <1>1, <1>4, <2>1
    <3> QED
      BY <1>1, <3>1, ReachesSame DEF Arriving, k
  <2>2. CASE i # k + 1
    <3>1. i \in 1 .. k /\ i - 1 \in Nat /\ r[i] = q[i] /\ \A j \in 1 .. i - 1 : r[j] = q[j]
      BY <1>1, <2>2
    <3>2. Reaches(o, q, i - 1, c, r[i].was[c])
      BY <1>4, <3>1 DEF Arriving, k
    <3> QED
      BY <3>1, <3>2, ReachesSame
  <2> QED
    BY <2>1, <2>2
<1> QED
  BY <1>1, <1>2, <1>3, <1>4 DEF Arriving, r

\* A new buffer, with the mark of what was dropped: what the old one told is lost.
LEMMA DroppedArrives ==
  ASSUME NEW o, NEW codes, NEW q \in Seq(Entries(o.kind, codes)), NEW t \in SUBSET codes, NEW new,
         Arriving(o, q, t, new)
  PROVE  LET r == <<Sync("DROPPED")>>
         IN  r \in Seq(Entries(o.kind, codes)) /\ Arriving(o, r, t \ Telling(q), new)
<1> DEFINE r == <<Sync("DROPPED")>>
<1>1. r \in Seq(Entries(o.kind, codes)) /\ Len(r) = 1 /\ r[1] = Sync("DROPPED")
  BY DEF Entries
<1>2. r[1].type = "SYN" /\ r[1].code = "DROPPED" /\ \A c : ~TellsOf(r[1], c)
  BY <1>1 DEF Sync, TellsOf, About
<1> HIDE DEF r
<1>3. ASSUME NEW c \in t \ Telling(q)
      PROVE  Reaches(o, r, 1, c, new[c])
  <2>1. Silent(q, Len(q), c)
    <3> SUFFICES ASSUME NEW j \in 1 .. Len(q), TellsOf(q[j], c)
                 PROVE  FALSE
      BY DEF Silent
    <3>1. j \in DOMAIN q
      OBVIOUS
    <3> QED
      BY <1>3, <3>1 DEF Telling, TellsOf
  <2>2. Reaches(o, q, Len(q), c, new[c])
    BY <1>3 DEF Arriving
  <2>3. HasKey(o, c, new[c]) /\ (o.kind # "MotionPlus" => HasAxis(o, c, new[c]))
    BY <2>1, <2>2 DEF Reaches, Whole
  <2>4. LastTells(r, 1, c, new[c])
    BY <1>2 DEF LastTells
  <2>5. Whole(o, r, 1) => o.kind # "MotionPlus"
    <3>1. 1 \in 1 .. 1
      OBVIOUS
    <3> QED
      BY <1>2, <3>1 DEF Whole
  <2> QED
    BY <2>3, <2>4, <2>5 DEF Reaches
<1>4. \A i \in 1 .. 1 : r[i].code # "REPORT"
  BY <1>2
<1>5. Arriving(o, r, t \ Telling(q), new)
  BY <1>1, <1>3, <1>4 DEF Arriving
<1> QED
  BY <1>1, <1>5 DEF r

\* Both cases of Put.
LEMMA PutIs ==
  ASSUME NEW b, NEW e
  PROVE  Put(b, e) = [queue |-> IF Len(b.queue) + 1 >= BufferSize THEN <<Sync("DROPPED"), e>>
                                ELSE Append(b.queue, e),
                      told |-> (IF Len(b.queue) + 1 >= BufferSize THEN b.told \ Telling(b.queue)
                                ELSE b.told) \cup Telling(<<e>>)]
  BY DEF Put

\* The buffer of a reader, and what of the device has been told.
Buffers(kind, codes) == [queue : Seq(Entries(kind, codes)), told : SUBSET codes]

\* An event of the device is put into the buffer.
LEMMA PutArrives ==
  ASSUME NEW o, NEW codes, NEW b \in Buffers(o.kind, codes), NEW new, NEW e \in Entries(o.kind, codes),
         Arriving(o, b.queue, b.told, new),
         About(e) => e.value = new[e.code],
         e.type # "SYN"
  PROVE  /\ Put(b, e) \in Buffers(o.kind, codes)
         /\ Arriving(o, Put(b, e).queue, Put(b, e).told, new)
<1> DEFINE E == Entries(o.kind, codes)
<1>1. b.queue \in Seq(E) /\ b.told \in SUBSET codes
  BY DEF Buffers
<1>2. CASE Len(b.queue) + 1 >= BufferSize
  <2> DEFINE r == <<Sync("DROPPED")>>
             t == b.told \ Telling(b.queue)
  <2>1. r \in Seq(E) /\ Arriving(o, r, t, new) /\ t \in SUBSET codes
    BY <1>1, DroppedArrives
  <2>2. /\ Append(r, e) \in Seq(E) /\ t \cup Telling(<<e>>) \in SUBSET codes
        /\ Arriving(o, Append(r, e), t \cup Telling(<<e>>), new)
    <3> HIDE DEF r, t
    <3> QED
      BY <2>1, AddedArrives
  <2>3. Append(r, e) = <<Sync("DROPPED"), e>>
    BY AppendTwo
  <2>4. Put(b, e) = [queue |-> Append(r, e), told |-> t \cup Telling(<<e>>)]
    BY <1>2, <2>3, PutIs
  <2> HIDE DEF r, t
  <2> QED
    BY <2>2, <2>4 DEF Buffers
<1>3. CASE ~(Len(b.queue) + 1 >= BufferSize)
  <2> DEFINE r == b.queue
             t == b.told
  <2>0. r \in Seq(E) /\ t \in SUBSET codes /\ Arriving(o, r, t, new)
    BY <1>1
  <2>1. /\ Append(r, e) \in Seq(E) /\ t \cup Telling(<<e>>) \in SUBSET codes
        /\ Arriving(o, Append(r, e), t \cup Telling(<<e>>), new)
    <3> HIDE DEF r, t
    <3> QED
      BY <2>0, AddedArrives
  <2>2. Put(b, e) = [queue |-> Append(b.queue, e), told |-> b.told \cup Telling(<<e>>)]
    BY <1>3, PutIs
  <2> QED
    BY <2>1, <2>2 DEF Buffers
<1> QED
  BY <1>2, <1>3

\* The end of a report, with its mark.
LEMMA EndArrives ==
  ASSUME NEW o, NEW codes, NEW b \in Buffers(o.kind, codes), NEW new \in [codes -> Int],
         Arriving(o, b.queue, b.told, new)
  PROVE  LET end == Put(b, Sync("REPORT"))
             q == Front(end.queue) \o <<Mark(new, end.told)>>
         IN  q \in Seq(Entries(o.kind, codes)) /\ end.told \in SUBSET codes /\ Arriving(o, q, end.told, new)
<1> DEFINE E == Entries(o.kind, codes)
           end == Put(b, Sync("REPORT"))
           m == Mark(new, end.told)
<1>1. b.queue \in Seq(E) /\ b.told \in SUBSET codes
  BY DEF Buffers
<1>2. Telling(<<Sync("REPORT")>>) = {}
  BY TellingOne DEF Sync, About
<1>3. ASSUME NEW r \in Seq(E), NEW t \in SUBSET codes, Arriving(o, r, t, new),
             end = [queue |-> Append(r, Sync("REPORT")), told |-> t]
      PROVE  LET q == Front(end.queue) \o <<m>>
             IN  q \in Seq(E) /\ end.told \in SUBSET codes /\ Arriving(o, q, end.told, new)
  <2>1. end.queue = Append(r, Sync("REPORT")) /\ end.told = t
    BY <1>3
  <2>2. m \in E /\ m.type = "SYN" /\ m.told = t /\ m.was = new
    BY <2>1 DEF Mark, Entries
  <2>3. ~About(m) /\ Telling(<<m>>) = {}
    BY <2>2, TellingOne DEF About
  <2> HIDE DEF end, m, E
  <2>4. Front(end.queue) = r
    <3> DEFINE s == Append(r, Sync("REPORT"))
    <3>1. Len(s) = Len(r) + 1 /\ Len(r) \in Nat /\ \A j \in 1 .. Len(r) : s[j] = r[j]
      OBVIOUS
    <3>2. Front(s) = [j \in 1 .. Len(r) |-> s[j]]
      BY <3>1 DEF Front
    <3> HIDE DEF s
    <3>3. Front(s) = [j \in 1 .. Len(r) |-> r[j]]
      BY <3>1, <3>2
    <3> QED
      BY <2>1, <3>3 DEF s
  <2>5. r \o <<m>> = Append(r, m)
    BY <2>2
  <2>6. Append(r, m) \in Seq(E) /\ Arriving(o, Append(r, m), t \cup {}, new)
    <3>1. m.told \subseteq t /\ (About(m) => m.value = new[m.code])
      BY <2>2, <2>3
    <3>2. Append(r, m) \in Seq(E) /\ Arriving(o, Append(r, m), t \cup Telling(<<m>>), new)
      BY <1>3, <2>2, <3>1, AddedArrives DEF E
    <3> QED
      BY <2>3, <3>2
  <2>7. t \cup {} = t
    OBVIOUS
  <2> QED
    BY <2>1, <2>4, <2>5, <2>6, <2>7
<1>4. CASE Len(b.queue) + 1 >= BufferSize
  <2> DEFINE r == <<Sync("DROPPED")>>
             t == b.told \ Telling(b.queue)
  <2>1. r \in Seq(E) /\ Arriving(o, r, t, new) /\ t \in SUBSET codes
    BY <1>1, DroppedArrives
  <2>2. end = [queue |-> Append(r, Sync("REPORT")), told |-> t]
    <3>1. Append(r, Sync("REPORT")) = <<Sync("DROPPED"), Sync("REPORT")>>
      BY AppendTwo
    <3> QED
      BY <1>2, <1>4, <3>1, PutIs
  <2> HIDE DEF r, t, end, m, E
  <2>3. LET q == Front(end.queue) \o <<m>>
        IN  q \in Seq(E) /\ end.told \in SUBSET codes /\ Arriving(o, q, end.told, new)
    BY <1>3, <2>1, <2>2
  <2> QED
    BY <2>3 DEF end, m, E
<1>5. CASE ~(Len(b.queue) + 1 >= BufferSize)
  <2>1. end = [queue |-> Append(b.queue, Sync("REPORT")), told |-> b.told]
    BY <1>2, <1>5, PutIs
  <2> HIDE DEF end, m, E
  <2>2. LET q == Front(end.queue) \o <<m>>
        IN  q \in Seq(E) /\ end.told \in SUBSET codes /\ Arriving(o, q, end.told, new)
    BY <1>1, <1>3, <2>1
  <2> QED
    BY <2>2 DEF end, m, E
<1> QED
  BY <1>4, <1>5

\* An event of the device that tells the values in new.
Event(o, codes, new, e) ==
  e \in Entries(o.kind, codes) /\ e.type # "SYN" /\ (About(e) => e.value = new[e.code])

\* The events of a report are put into the buffer, one after the other.
LEMMA FoldArrives ==
  ASSUME NEW o, NEW codes, NEW new, NEW S, NEW events \in Seq(S),
         \A e \in S : Event(o, codes, new, e),
         NEW b \in Buffers(o.kind, codes), Arriving(o, b.queue, b.told, new)
  PROVE  LET d == FoldLeft(Put, b, events)
         IN  d \in Buffers(o.kind, codes) /\ Arriving(o, d.queue, d.told, new)
<1> DEFINE m == Len(events)
           A == {x \in Buffers(o.kind, codes) : Arriving(o, x.queue, x.told, new)}
           g == [x \in A \X (1 .. m) |-> Put(x[1], events[x[2]])]
           Is(it) == it = [s \in SUBSET DOMAIN events |->
                             IF s = {} THEN b ELSE Put(it[s \ {Max(s)}], events[Max(s)])]
           fold == CHOOSE it : Is(it)
           h == [k \in 0 .. m |-> fold[1 .. k]]
<1>0. m \in Nat /\ DOMAIN events = 1 .. m /\ b \in A
  OBVIOUS
<1>1. FoldLeft(Put, b, events) = fold[1 .. m]
  BY <1>0 DEF FoldLeft, MapThenFoldSet
<1>2. ASSUME NEW x \in A, NEW k \in 1 .. m
      PROVE  g[x, k] = Put(x, events[k]) /\ Put(x, events[k]) \in A
  <2>1. Event(o, codes, new, events[k])
    BY ElementOf
  <2>2. Put(x, events[k]) \in A
    BY <2>1, PutArrives DEF Event
  <2>3. <<x, k>> \in A \X (1 .. m)
    OBVIOUS
  <2> HIDE DEF A, m
  <2> QED
    BY <2>2, <2>3
<1>3. g \in [A \X (1 .. m) -> A]
  <2> HIDE DEF m, A
  <2>1. \A x \in A \X (1 .. m) : x = <<x[1], x[2]>> /\ x[1] \in A /\ x[2] \in 1 .. m
    OBVIOUS
  <2>2. \A x \in A \X (1 .. m) : Put(x[1], events[x[2]]) \in A
    BY <1>2, <2>1
  <2> QED
    BY <2>2
<1> HIDE DEF m, A, g
<1>4. PICK it : FoldsUp(it, A, b, m, g)
  BY <1>0, <1>3, FoldFor
<1>5. Is(it)
  BY <1>0, <1>2, <1>4 DEF FoldsUp
<1>6. Is(fold)
  <2> HIDE DEF Is
  <2> QED
    BY <1>5
<1> HIDE DEF fold
<1>7. h[0] = b
  <2>1. 1 .. 0 = {} /\ {} \in SUBSET DOMAIN events /\ 0 \in 0 .. m
    BY <1>0
  <2> QED
    BY <1>6, <2>1
<1>8. ASSUME NEW k \in 1 .. m
      PROVE  h[k] = Put(h[k - 1], events[k])
  <2>1. k - 1 \in 0 .. m /\ k \in 0 .. m
    BY <1>0
  <2>2. /\ 1 .. k \in SUBSET DOMAIN events /\ 1 .. k # {}
        /\ Max(1 .. k) = k /\ (1 .. k) \ {k} = 1 .. k - 1
    BY <1>0, FirstOnes
  <2> QED
    BY <1>6, <2>1, <2>2
<1> HIDE DEF h
<1> DEFINE T == {k \in 0 .. m : h[k] \in A}
<1>9. 0 \in T /\ \A k \in 1 .. m : k - 1 \in T => k \in T
  <2>1. \A k \in 1 .. m : h[k - 1] \in A => h[k] \in A
    BY <1>2, <1>8
  <2> QED
    BY <1>0, <1>7, <2>1
<1>10. h[m] \in A
  <2> HIDE DEF T
  <2>1. \A k \in 0 .. m : k \in T
    BY <1>0, <1>9, UpTo
  <2>2. m \in T
    BY <1>0, <2>1
  <2> QED
    BY <2>2 DEF T
<1>11. FoldLeft(Put, b, events) \in A
  BY <1>0, <1>1, <1>10 DEF h
<1> QED
  BY <1>11 DEF A

\* The elements of a finite set in some order.
LEMMA SetInOrder ==
  ASSUME NEW S, IsFiniteSet(S)
  PROVE  SetToSeq(S) \in Seq(S)
<1> DEFINE n == Cardinality(S)
           Is(f) == f \in [1 .. n -> S] /\ IsInjective(f)
<1>1. n \in Nat /\ ExistsBijection(1 .. n, S)
  BY FS_CardinalityType
<1>2. PICK f : f \in Bijection(1 .. n, S)
  BY <1>1 DEF ExistsBijection
<1>3. Is(f)
  BY <1>2 DEF Bijection, Injection
<1>4. SetToSeq(S) = CHOOSE x \in [1 .. n -> S] : IsInjective(x)
  BY DEF SetToSeq
<1> HIDE DEF n
<1>5. SetToSeq(S) \in [1 .. n -> S]
  BY <1>3, <1>4
<1> QED
  BY <1>1, <1>5

-----------------------------------------------------------------------------
(* The steps *)

\* A report: of the codes told before, those that it does not change have the
\* value that the device has now.
LEMMA SendArrives ==
  ASSUME FeaturesInv, NEW new \in [DOMAIN device -> Int], NEW S, NEW events \in Seq(S),
         \A e \in S : Event(Object, DOMAIN device, new, e),
         NEW before \in SUBSET told, \A c \in before : new[c] = device[c],
         Send(new, events, before)
  PROVE  FeaturesInv'
<1> DEFINE o == Object
           codes == DOMAIN device
           b == [queue |-> queue, told |-> before]
           d == FoldLeft(Put, b, events)
           end == Put(d, Sync("REPORT"))
           q == Front(end.queue) \o <<Mark(new, end.told)>>
<1>1. o.kind = Kind /\ queue \in Seq(Entries(o.kind, codes)) /\ before \in SUBSET codes
  BY DEF FeaturesInv, FeaturesTypeOK, Object
<1>2. b \in Buffers(o.kind, codes) /\ b.queue = queue /\ b.told = before
  BY <1>1 DEF Buffers
<1>3. Arriving(o, queue, before, new)
  BY DEF FeaturesInv, Arriving
<1> HIDE DEF o, codes, b
<1>4. d \in Buffers(o.kind, codes) /\ Arriving(o, d.queue, d.told, new)
  <2>1. Arriving(o, b.queue, b.told, new)
    BY <1>2, <1>3
  <2> QED
    BY <1>2, <2>1, FoldArrives DEF o, codes
<1> HIDE DEF d
<1>5. q \in Seq(Entries(o.kind, codes)) /\ end.told \in SUBSET codes /\ Arriving(o, q, end.told, new)
  BY <1>4, EndArrives DEF codes
<1>6. device' = new /\ told' = end.told /\ queue' = q
  BY DEF Send, b, d
<1>7. UNCHANGED <<name, fields, zero, factor, fresh, down>> /\ Kind' = Kind
  BY DEF Send, Kind
<1> HIDE DEF end, q
<1>8. Object' = o
  BY <1>7 DEF Object, o
<1>9. DOMAIN device' = codes
  BY <1>6 DEF codes
<1>10. FeaturesTypeOK'
  BY <1>1, <1>5, <1>6, <1>7, <1>9 DEF FeaturesTypeOK, FeaturesInv, codes
<1>11. Arriving(Object, queue, told, device)'
  <2>1. Arriving(Object', queue', told', device')
    BY <1>5, <1>6, <1>8
  <2> QED
    BY <2>1 DEF Arriving, Reaches, LastTells, Silent, Whole, HasAxis, HasKey, TellsOf
<1> QED
  BY <1>10, <1>11 DEF FeaturesInv

\* What reading entry e makes of an object: the code that it tells has that value,
\* the others what they had.  At the end of a report MotionPlus has none.
Follows(o, p, e, codes) ==
  /\ p.kind = o.kind
  /\ \A c \in codes :
       IF TellsOf(e, c) THEN HasAxis(p, c, e.value) /\ HasKey(p, c, e.value)
       ELSE \A v \in Int : /\ HasKey(o, c, v) => HasKey(p, c, v)
                           /\ (p.kind = "MotionPlus" /\ e.type = "SYN") \/ HasAxis(o, c, v) => HasAxis(p, c, v)

\* The first entry is read.
LEMMA ReadArrives ==
  ASSUME NEW o, NEW p, NEW codes, NEW q \in Seq(Entries(o.kind, codes)), q # <<>>,
         NEW t \in SUBSET codes, NEW new \in [codes -> Int],
         Arriving(o, q, t, new), Follows(o, p, q[1], codes)
  PROVE  Tail(q) \in Seq(Entries(p.kind, codes)) /\ Arriving(p, Tail(q), t, new)
<1> DEFINE r == Tail(q)
           n == Len(r)
           E == Entries(o.kind, codes)
<1>1. /\ r \in Seq(E) /\ n \in Nat /\ Len(q) = n + 1
      /\ \A i \in 1 .. n : r[i] = q[i + 1] /\ i + 1 \in 1 .. Len(q)
  OBVIOUS
<1> HIDE DEF r, n, E
<1>2. ASSUME NEW k \in Nat, k <= n, NEW c \in codes, NEW v \in Int, Reaches(o, q, k + 1, c, v)
      PROVE  Reaches(p, r, k, c, v)
  <2>1. k < Len(q)
    BY <1>1, <1>2
  <2>2. TellsOf(q[1], c) => HasAxis(p, c, q[1].value) /\ HasKey(p, c, q[1].value)
    BY DEF Follows
  <2>3. ~TellsOf(q[1], c) =>
          /\ HasKey(o, c, v) => HasKey(p, c, v)
          /\ (p.kind = "MotionPlus" /\ q[1].type = "SYN") \/ HasAxis(o, c, v) => HasAxis(p, c, v)
    BY DEF Follows
  <2>4. p.kind = o.kind
    BY DEF Follows
  <2> QED
    BY <1>2, <2>1, <2>2, <2>3, <2>4, ReachesRead DEF r
<1>3. ASSUME NEW c \in t
      PROVE  Reaches(p, r, n, c, new[c])
  <2>1. Reaches(o, q, n + 1, c, new[c]) /\ new[c] \in Int
    BY <1>1 DEF Arriving
  <2> QED
    BY <1>1, <1>2, <2>1
<1>4. ASSUME NEW i \in 1 .. n, r[i].type = "SYN", r[i].code = "REPORT", NEW c \in r[i].told
      PROVE  Reaches(p, r, i - 1, c, r[i].was[c])
  <2>1. r[i] = q[i + 1] /\ i + 1 \in 1 .. Len(q) /\ (i + 1) - 1 = (i - 1) + 1 /\ i - 1 \in Nat /\ i - 1 <= n
    BY <1>1
  <2>2. Reaches(o, q, (i - 1) + 1, c, r[i].was[c])
    BY <1>4, <2>1 DEF Arriving
  <2>3. r[i] \in E
    BY <1>1, ElementOf DEF n
  <2>4. c \in codes /\ r[i].was[c] \in Int
    BY <1>4, <2>3, EntryIs DEF E
  <2> QED
    BY <1>2, <2>1, <2>2, <2>4
<1>5. Arriving(p, r, t, new)
  BY <1>1, <1>3, <1>4 DEF Arriving, n
<1>6. p.kind = o.kind
  BY DEF Follows
<1> QED
  BY <1>1, <1>5, <1>6 DEF r, E

\* The same as a step of acceptEvent.
LEMMA AcceptArrives ==
  ASSUME FeaturesInv, queue # <<>>, queue' = Tail(queue), UNCHANGED <<name, device, told>>,
         Follows(Object, Object', Head(queue), DOMAIN device)
  PROVE  /\ queue' \in Seq(Entries(Kind', DOMAIN device'))
         /\ Arriving(Object, queue, told, device)'
<1> DEFINE o == Object
           p == Object'
           codes == DOMAIN device
<1>1. /\ queue \in Seq(Entries(o.kind, codes)) /\ told \in SUBSET codes /\ device \in [codes -> Int]
      /\ Arriving(o, queue, told, device)
  BY DEF FeaturesInv, FeaturesTypeOK, Object
<1>2. Follows(o, p, queue[1], codes)
  <2>1. Head(queue) = queue[1]
    BY <1>1
  <2> QED
    BY <2>1
<1>3. p.kind = Kind'
  BY DEF Object
<1> HIDE DEF o, p, codes
<1>4. Tail(queue) \in Seq(Entries(p.kind, codes)) /\ Arriving(p, Tail(queue), told, device)
  BY <1>1, <1>2, ReadArrives
<1>5. Arriving(p, queue', told', device') /\ queue' \in Seq(Entries(p.kind, DOMAIN device'))
  BY <1>4 DEF codes
<1> QED
  BY <1>3, <1>5 DEF p, Arriving, Reaches, LastTells, Silent, Whole, HasAxis, HasKey, TellsOf

\* The start.
LEMMA FeaturesStart ==
  FeaturesInit => FeaturesInv /\ FramesTrue
<1> SUFFICES ASSUME FeaturesInit
             PROVE  FeaturesInv /\ FramesTrue
  OBVIOUS
<1>1. PICK codes \in Changing :
        device \in [codes -> AxisValues \cup {0, 1}]
  BY DEF FeaturesInit
<1>2. DOMAIN device = codes /\ IsFiniteSet(codes) /\ device \in [codes -> Int]
  <2>1. AxisValues \cup {0, 1} \subseteq Int
    BY ValueAssumption
  <2>2. IsFiniteSet(codes)
    BY ChangingAssumption
  <2> QED
    BY <1>1, <2>1, <2>2
<1>3. fields \in [Range(Axes(Kind)) -> Int]
  BY DEF FeaturesInit, featureFromName
<1>4. queue = <<>> /\ told = {} /\ event = <<>> /\ factor = 0 /\ zero = [f \in DOMAIN fields |-> 0]
  BY DEF FeaturesInit
<1>5. zero \in [Range(Axes(Kind)) -> Int]
  BY <1>3, <1>4
<1>6. FeaturesTypeOK
  BY <1>2, <1>3, <1>4, <1>5 DEF FeaturesTypeOK
<1>7. Arriving(Object, queue, told, device)
  BY <1>4 DEF Arriving
<1> QED
  BY <1>4, <1>6, <1>7 DEF FeaturesInv, FramesTrue

\* An event that the device tells, with the value that it has then.
LEMMA TellsEvent ==
  ASSUME NEW new \in [DOMAIN device -> Int], NEW c \in DOMAIN device,
         new[c] \in Values(c), ValueAssumption
  PROVE  Event(Object, DOMAIN device, new, Tells(c, new[c]))
<1> DEFINE e == Tells(c, new[c])
<1>1. e.type = Type(c) /\ e.code = c /\ e.value = new[c] /\ e = [type |-> Type(c), code |-> c, value |-> new[c]]
  BY DEF Tells
<1>2. Object.kind = Kind
  BY DEF Object
<1>3. CASE c \in AxisCodes(Kind)
  <2>1. Type(c) = "ABS"
    BY <1>3 DEF Type, AxisCodes
  <2>2. e \in Entries(Object.kind, DOMAIN device)
    BY <1>1, <1>2, <1>3, <2>1 DEF Entries
  <2> QED
    BY <1>1, <2>1, <2>2 DEF Event
<1>4. CASE c \notin AxisCodes(Kind)
  <2>1. Type(c) = "KEY"
    BY <1>4 DEF Type, AxisCodes
  <2>2. new[c] \in {0, 1, 2}
    BY <2>1 DEF Values
  <2>3. e \in Entries(Object.kind, DOMAIN device)
    BY <1>1, <1>2, <1>4, <2>1, <2>2 DEF Entries
  <2> QED
    BY <1>1, <2>1, <2>3 DEF Event
<1> QED
  BY <1>3, <1>4

\* The driver reports what changed.
LEMMA ReportKeeps ==
  ASSUME FeaturesInv, Report
  PROVE  FeaturesInv' /\ FramesTrue'
<1> DEFINE codes == DOMAIN device
<1>1. PICK changed \in SUBSET codes, new \in [codes -> AxisValues \cup {0, 1}] :
        /\ \A c \in codes : IF c \in changed THEN new[c] \in Values(c) \ {device[c]} ELSE new[c] = device[c]
        /\ Send(new, SetToSeq({Tells(c, new[c]) : c \in changed}), told \ changed)
  BY DEF Report
<1> DEFINE S == {Tells(c, new[c]) : c \in changed}
<1>2. new \in [codes -> Int]
  <2>1. AxisValues \cup {0, 1} \subseteq Int
    BY ValueAssumption
  <2> QED
    BY <2>1
<1>3. \A e \in S : Event(Object, codes, new, e)
  <2>1. \A c \in changed : c \in codes /\ new[c] \in Values(c)
    BY <1>1
  <2> QED
    BY <1>2, <2>1, TellsEvent, ValueAssumption
<1>4. IsFiniteSet(S)
  <2> DEFINE f == [c \in changed |-> Tells(c, new[c])]
  <2>1. IsFiniteSet(changed)
    BY FS_Subset DEF FeaturesInv, FeaturesTypeOK
  <2>2. f \in [changed -> S] /\ \A s \in S : \E c \in changed : f[c] = s
    OBVIOUS
  <2> HIDE DEF S, f
  <2>3. f \in Surjection(changed, S)
    BY <2>2 DEF Surjection
  <2> QED
    BY <2>1, <2>3, FS_Surjection DEF ExistsSurjection
<1> HIDE DEF S
<1>5. SetToSeq(S) \in Seq(S)
  BY <1>4, SetInOrder
<1>6. told \ changed \in SUBSET told /\ \A c \in told \ changed : new[c] = device[c]
  BY <1>1 DEF FeaturesInv, FeaturesTypeOK
<1>7. Send(new, SetToSeq(S), told \ changed)
  BY <1>1 DEF S
<1>8. FeaturesInv'
  BY <1>2, <1>3, <1>5, <1>6, <1>7, SendArrives
<1>9. event' = <<>>
  BY <1>7 DEF Send
<1> QED
  BY <1>8, <1>9 DEF FramesTrue

\* The driver repeats a key held.
LEMMA KeyRepeatKeeps ==
  ASSUME FeaturesInv, KeyRepeat
  PROVE  FeaturesInv' /\ FramesTrue'
<1>1. PICK c \in DOMAIN device : Type(c) = "KEY" /\ Send(device, <<Tells(c, 2)>>, told)
  BY DEF KeyRepeat
<1>2. device \in [DOMAIN device -> Int]
  BY DEF FeaturesInv, FeaturesTypeOK
<1>3. c \notin AxisCodes(Kind)
  BY <1>1 DEF Type, AxisCodes
<1>4. Event(Object, DOMAIN device, device, Tells(c, 2))
  BY <1>1, <1>3 DEF Event, Tells, Entries, About, Object
<1> DEFINE S == {Tells(c, 2)}
<1>5. <<Tells(c, 2)>> \in Seq(S) /\ \A e \in S : Event(Object, DOMAIN device, device, e)
  BY <1>4
<1> HIDE DEF S
<1>6. FeaturesInv'
  <2>1. told \in SUBSET told /\ \A d \in told : device[d] = device[d]
    OBVIOUS
  <2> QED
    BY <1>1, <1>2, <1>5, <2>1, SendArrives
<1>7. event' = <<>>
  BY <1>1 DEF Send
<1> QED
  BY <1>6, <1>7 DEF FramesTrue

\* A feature is opened, anew or for the first time.
LEMMA OpenKeeps ==
  ASSUME FeaturesInv, Open
  PROVE  FeaturesInv' /\ FramesTrue'
<1>1. queue' = <<>> /\ told' = {} /\ event' = <<>> /\ UNCHANGED <<name, device>> /\ Kind' = Kind
  BY DEF Open, Kind
<1>2. fields' \in [Range(Axes(Kind)) -> Int]
  BY DEF Open, featureFromName
<1>3. zero' \in [Range(Axes(Kind)) -> Int] /\ factor' \in Int
  BY DEF Open, FeaturesInv, FeaturesTypeOK
<1>4. FeaturesTypeOK'
  BY <1>1, <1>2, <1>3 DEF FeaturesInv, FeaturesTypeOK
<1>5. Arriving(Object, queue, told, device)'
  BY <1>1 DEF Arriving
<1> QED
  BY <1>1, <1>4, <1>5 DEF FeaturesInv, FramesTrue

\* The gyroscope's zero and factor are set.
LEMMA NormalizeKeeps ==
  ASSUME FeaturesInv, NEW offset \in Offsets, NEW f \in Factors, SetMPNormalization(offset, f)
  PROVE  FeaturesInv' /\ FramesTrue'
<1>1. UNCHANGED <<name, device, queue, fields, told, fresh, down>> /\ Kind' = Kind /\ event' = <<>>
  BY DEF SetMPNormalization, Kind
<1>2. 100 * offset \in Int /\ f \in Int
  BY ZeroAssumption
<1>3. zero' \in [Range(Axes(Kind)) -> Int] /\ factor' \in Int
  BY <1>2 DEF SetMPNormalization, FeaturesInv, FeaturesTypeOK
<1>4. FeaturesTypeOK'
  BY <1>1, <1>3 DEF FeaturesInv, FeaturesTypeOK
<1>5. Object' = Object
  BY <1>1 DEF Object
<1>6. Arriving(Object, queue, told, device)'
  BY <1>1, <1>5 DEF FeaturesInv, Arriving, Reaches, LastTells, Silent, Whole, HasAxis, HasKey, TellsOf
<1> QED
  BY <1>1, <1>4, <1>6 DEF FeaturesInv, FramesTrue

\* The first entry of the buffer.
LEMMA HeadIs ==
  ASSUME FeaturesInv, queue # <<>>
  PROVE  /\ Head(queue) \in Entries(Kind, DOMAIN device)
         /\ Head(queue) = queue[1] /\ 1 \in 1 .. Len(queue)
  BY DEF FeaturesInv, FeaturesTypeOK

\* A feature reads a key.
LEMMA AcceptKeyKeeps ==
  ASSUME FeaturesInv, AcceptKey
  PROVE  FeaturesInv' /\ FramesTrue'
<1> DEFINE e == Head(queue)
           codes == DOMAIN device
<1>1. /\ queue # <<>> /\ queue' = Tail(queue) /\ e.type = "KEY"
      /\ UNCHANGED <<name, device, fields, zero, factor, told, fresh>> /\ Kind' = Kind
  BY DEF AcceptKey, Reads, Kind
<1>2. e.code \in codes \ DOMAIN Axes(Kind) /\ e.value \in {0, 1, 2}
  BY <1>1, HeadIs, EntryIs DEF AxisCodes
<1>3. IF e.value \in {0, 1} /\ e.code \in DOMAIN Keys(Kind)
      THEN LET key == Keys(Kind)[e.code] IN
           /\ event' = [type |-> "key", code |-> key, pressed |-> e.value = 1]
           /\ down' = IF e.value = 1 THEN down \cup {key} ELSE down \ {key}
      ELSE event' = <<>> /\ down' = down
  BY DEF AcceptKey
<1>4. /\ Object.kind = Kind /\ Object'.kind = Kind /\ Object.fields = fields /\ Object'.fields = fields
      /\ Object.fresh = fresh /\ Object'.fresh = fresh /\ Object.down = down /\ Object'.down = down'
  BY <1>1 DEF Object
<1>5. TellsOf(e, e.code) <=> e.value \in {0, 1}
  BY <1>1, <1>2 DEF TellsOf, About
<1> HIDE DEF e
<1>6. ASSUME NEW c \in codes, TellsOf(e, c)
      PROVE  HasAxis(Object', c, e.value) /\ HasKey(Object', c, e.value)
  <2>1. c = e.code /\ e.value \in {0, 1}
    BY <1>5, <1>6 DEF TellsOf
  <2>2. HasAxis(Object', c, e.value)
    BY <1>2, <1>4, <2>1 DEF HasAxis
  <2>3. c \in DOMAIN Keys(Kind) => (Keys(Kind)[c] \in down' <=> e.value = 1)
    BY <1>3, <2>1
  <2> QED
    BY <1>4, <2>2, <2>3 DEF HasKey
<1>7. ASSUME NEW c \in codes, ~TellsOf(e, c), NEW v \in Int
      PROVE  /\ HasKey(Object, c, v) => HasKey(Object', c, v)
             /\ HasAxis(Object, c, v) => HasAxis(Object', c, v)
  <2>1. HasAxis(Object, c, v) => HasAxis(Object', c, v)
    BY <1>4 DEF HasAxis
  <2>2. ASSUME c \in DOMAIN Keys(Kind)
        PROVE  Keys(Kind)[c] \in down' <=> Keys(Kind)[c] \in down
    <3>1. CASE e.value \in {0, 1} /\ e.code \in DOMAIN Keys(Kind)
      <4>1. c # e.code
        BY <1>5, <1>7, <3>1
      <4>2. Keys(Kind)[c] # Keys(Kind)[e.code]
        BY <2>2, <3>1, <4>1, KeysApart
      <4> QED
        BY <1>3, <3>1, <4>2
    <3>2. CASE ~(e.value \in {0, 1} /\ e.code \in DOMAIN Keys(Kind))
      BY <1>3, <3>2
    <3> QED
      BY <3>1, <3>2
  <2>3. HasKey(Object, c, v) => HasKey(Object', c, v)
    BY <1>4, <2>2 DEF HasKey
  <2> QED
    BY <2>1, <2>3
<1>8. Follows(Object, Object', e, codes)
  <2>1. e.type # "SYN"
    BY <1>1 DEF e
  <2> HIDE DEF codes
  <2>2. Object'.kind = Object.kind
    BY <1>4
  <2> QED
    BY <1>6, <1>7, <2>1, <2>2 DEF Follows
<1>9. queue' \in Seq(Entries(Kind', DOMAIN device')) /\ Arriving(Object, queue, told, device)'
  BY <1>1, <1>8, AcceptArrives DEF e
<1>10. FeaturesTypeOK'
  BY <1>1, <1>9 DEF FeaturesInv, FeaturesTypeOK
<1>11. FramesTrue'
  BY <1>3 DEF FramesTrue
<1> QED
  BY <1>9, <1>10, <1>11 DEF FeaturesInv

\* A feature reads an axis into its field.
LEMMA AcceptAxisKeeps ==
  ASSUME FeaturesInv, AcceptAxis
  PROVE  FeaturesInv' /\ FramesTrue'
<1> DEFINE e == Head(queue)
           codes == DOMAIN device
           a == Axes(Kind)
<1>1. /\ queue # <<>> /\ queue' = Tail(queue) /\ e.type = "ABS"
      /\ UNCHANGED <<name, device, zero, factor, told, down>> /\ Kind' = Kind
      /\ event' = <<>>
      /\ IF e.code \in DOMAIN a
         THEN fields' = [fields EXCEPT ![a[e.code]] = e.value] /\ fresh' = fresh \cup {e.code}
         ELSE fields' = fields /\ fresh' = fresh
  BY DEF AcceptAxis, Reads, Kind
<1>2. e.code \in codes \cap AxisCodes(Kind) /\ e.value \in Int
  BY <1>1, HeadIs, EntryIs
<1>3. fields \in [Range(a) -> Int] /\ \A c \in DOMAIN a : a[c] \in Range(a)
  BY DEF FeaturesInv, FeaturesTypeOK, Range
<1>4. /\ Object.kind = Kind /\ Object'.kind = Kind /\ Object.fields = fields /\ Object'.fields = fields'
      /\ Object.fresh = fresh /\ Object'.fresh = fresh' /\ Object.down = down /\ Object'.down = down
  BY <1>1 DEF Object
<1>5. \A c : TellsOf(e, c) <=> c = e.code
  BY <1>1 DEF TellsOf, About
<1> HIDE DEF e, codes
<1>6. ASSUME NEW c \in codes, TellsOf(e, c)
      PROVE  HasAxis(Object', c, e.value) /\ HasKey(Object', c, e.value)
  <2>1. c = e.code /\ c \notin DOMAIN Keys(Kind)
    BY <1>2, <1>5, <1>6, AxisOrKey
  <2>2. c \in DOMAIN a => fields'[a[c]] = e.value
    BY <1>1, <1>3, <2>1
  <2> QED
    BY <1>4, <2>1, <2>2 DEF HasAxis, HasKey
<1>7. ASSUME NEW c \in codes, ~TellsOf(e, c), NEW v \in Int
      PROVE  /\ HasKey(Object, c, v) => HasKey(Object', c, v)
             /\ HasAxis(Object, c, v) => HasAxis(Object', c, v)
  <2>1. HasKey(Object, c, v) => HasKey(Object', c, v)
    BY <1>4 DEF HasKey
  <2>2. c # e.code
    BY <1>5, <1>7
  <2>3. ASSUME c \in DOMAIN a
        PROVE  fields'[a[c]] = fields[a[c]]
    <3>1. e.code \in DOMAIN a => a[c] # a[e.code]
      BY <2>2, <2>3, AxesApart
    <3> HIDE DEF a
    <3> QED
      BY <1>1, <1>3, <2>3, <3>1
  <2>4. c \in fresh' => c \in fresh
    BY <1>1, <2>2
  <2>5. HasAxis(Object, c, v) => HasAxis(Object', c, v)
    BY <1>4, <2>3, <2>4 DEF HasAxis
  <2> QED
    BY <2>1, <2>5
<1>8. Follows(Object, Object', e, codes)
  <2>1. e.type # "SYN"
    BY <1>1 DEF e
  <2>2. Object'.kind = Object.kind
    BY <1>4
  <2> QED
    BY <1>6, <1>7, <2>1, <2>2 DEF Follows
<1>9. queue' \in Seq(Entries(Kind', DOMAIN device')) /\ Arriving(Object, queue, told, device)'
  BY <1>1, <1>8, AcceptArrives DEF e, codes
<1>10. fields' \in [Range(a) -> Int]
  <2> HIDE DEF a
  <2> QED
    BY <1>1, <1>2, <1>3
<1>11. FeaturesTypeOK'
  BY <1>1, <1>9, <1>10 DEF FeaturesInv, FeaturesTypeOK
<1> QED
  BY <1>1, <1>9, <1>11 DEF FeaturesInv, FramesTrue

\* The end of a report is read: the values told by then are there.
LEMMA EndReached ==
  ASSUME FeaturesInv, queue # <<>>, Head(queue).type = "SYN", Head(queue).code = "REPORT",
         NEW c \in Head(queue).told
  PROVE  /\ c \in DOMAIN device
         /\ HasAxis(Object, c, Head(queue).was[c])
<1> DEFINE e == Head(queue)
<1>1. e = queue[1] /\ 1 \in 1 .. Len(queue) /\ e.told \in SUBSET DOMAIN device
  BY HeadIs, EntryIs
<1>2. Reaches(Object, queue, 0, c, e.was[c])
  <2>1. Reaches(Object, queue, 1 - 1, c, queue[1].was[c])
    BY <1>1 DEF FeaturesInv, Arriving
  <2> QED
    BY <1>1, <2>1
<1>3. Silent(queue, 0, c) /\ Whole(Object, queue, 0)
  BY DEF Silent, Whole
<1> QED
  BY <1>1, <1>2, <1>3 DEF Reaches

\* A feature reads the end of a report, and sends its frame.
LEMMA AcceptSyncKeeps ==
  ASSUME FeaturesInv, AcceptSync
  PROVE  FeaturesInv' /\ FramesTrue'
<1> DEFINE e == Head(queue)
           codes == DOMAIN device
<1>1. /\ queue # <<>> /\ queue' = Tail(queue) /\ e.type = "SYN" /\ Kind # "MotionPlus"
      /\ UNCHANGED <<name, device, fields, zero, factor, told, down>> /\ Kind' = Kind
      /\ event' = (IF Kind = "Core" THEN <<>> ELSE Move) /\ fresh' = {}
  BY DEF AcceptSync, Reads, Kind
<1>2. /\ Object.kind = Kind /\ Object'.kind = Kind /\ Object.fields = fields /\ Object'.fields = fields
      /\ Object.down = down /\ Object'.down = down
  BY <1>1 DEF Object
<1>3. \A c : ~TellsOf(e, c)
  BY <1>1 DEF TellsOf, About
<1>4. ASSUME NEW c, NEW v
      PROVE  /\ HasKey(Object, c, v) => HasKey(Object', c, v)
             /\ HasAxis(Object, c, v) => HasAxis(Object', c, v)
  BY <1>1, <1>2 DEF HasKey, HasAxis
<1> HIDE DEF e, codes
<1>5. Follows(Object, Object', e, codes)
  <2>1. Object'.kind = Object.kind /\ Object'.kind # "MotionPlus"
    BY <1>1, <1>2
  <2> QED
    BY <1>3, <1>4, <2>1 DEF Follows
<1>6. queue' \in Seq(Entries(Kind', DOMAIN device')) /\ Arriving(Object, queue, told, device)'
  BY <1>1, <1>5, AcceptArrives DEF e, codes
<1>7. FeaturesTypeOK'
  BY <1>1, <1>6 DEF FeaturesInv, FeaturesTypeOK
<1>8. FramesTrue'
  <2> SUFFICES ASSUME event' # <<>>, event'.sync.code = "REPORT",
                      NEW c \in (event'.sync.told \cap DOMAIN Axes(Kind))
               PROVE  event'.fields[Axes(Kind)[c]] = event'.sync.was[c]
    BY <1>1 DEF FramesTrue, OfAxes
  <2>1. event'.fields = fields /\ event'.sync = e
    BY <1>1 DEF Move, e
  <2>2. HasAxis(Object, c, e.was[c])
    BY <1>1, <2>1, EndReached DEF e
  <2> QED
    BY <1>1, <1>2, <2>1, <2>2 DEF HasAxis
<1> QED
  BY <1>6, <1>7, <1>8 DEF FeaturesInv

\* The gyroscope reads the end of a report, and takes its zero off the fields.
LEMMA AcceptMotionPlusKeeps ==
  ASSUME FeaturesInv, AcceptMotionPlus
  PROVE  FeaturesInv' /\ FramesTrue'
<1> DEFINE e == Head(queue)
           codes == DOMAIN device
           a == Axes(Kind)
<1>1. /\ queue # <<>> /\ queue' = Tail(queue) /\ e.type = "SYN" /\ Kind = "MotionPlus"
      /\ UNCHANGED <<name, device, factor, told, down>> /\ Kind' = Kind /\ fresh' = {}
      /\ fields' = [f \in DOMAIN fields |-> fields[f] - Offset(f)]
      /\ zero' = [f \in DOMAIN fields |-> IF fields'[f] > 0 THEN zero[f] + factor ELSE zero[f] - factor]
      /\ event' = [Move EXCEPT !.fields = fields']
  BY DEF AcceptMotionPlus, Reads, Kind
<1>2. /\ Object.kind = Kind /\ Object'.kind = Kind /\ Object.fields = fields /\ Object.fresh = fresh
      /\ Object'.fresh = {} /\ Object.down = down /\ Object'.down = down
  BY <1>1 DEF Object
<1>3. \A c : ~TellsOf(e, c)
  BY <1>1 DEF TellsOf, About
<1>4. ASSUME NEW c, NEW v
      PROVE  HasAxis(Object', c, v) /\ (HasKey(Object, c, v) => HasKey(Object', c, v))
  BY <1>1, <1>2 DEF HasKey, HasAxis
<1> HIDE DEF e, codes
<1>5. Follows(Object, Object', e, codes)
  <2>1. Object'.kind = Object.kind
    BY <1>2
  <2> QED
    BY <1>3, <1>4, <2>1 DEF Follows
<1>6. queue' \in Seq(Entries(Kind', DOMAIN device')) /\ Arriving(Object, queue, told, device)'
  BY <1>1, <1>5, AcceptArrives DEF e, codes
<1>7. /\ fields \in [Range(a) -> Int] /\ zero \in [Range(a) -> Int] /\ factor \in Int
      /\ \A c \in DOMAIN a : a[c] \in Range(a)
  BY DEF FeaturesInv, FeaturesTypeOK, Range
<1> HIDE DEF a
<1>8. \A f \in Range(a) : Offset(f) \in Int
  <2>1. \A n \in Int : n < 0 => (-n) \div 100 \in Int
    OBVIOUS
  <2>2. \A n \in Int : Quotient(n, 100) \in Int
    BY <2>1 DEF Quotient
  <2> QED
    BY <1>7, <2>2 DEF Offset
<1>9. fields' \in [Range(a) -> Int]
  BY <1>1, <1>7, <1>8
<1>10. zero' \in [Range(a) -> Int]
  BY <1>1, <1>7
<1>11. FeaturesTypeOK'
  BY <1>1, <1>6, <1>7, <1>9, <1>10 DEF FeaturesInv, FeaturesTypeOK, a
<1>12. event'.fields = fields' /\ event'.sync = e /\ event'.zero = zero /\ event'.fresh = fresh
  BY <1>1 DEF Move, e
<1>13. FramesTrue'
  <2> SUFFICES ASSUME event'.sync.code = "REPORT", NEW c \in (event'.sync.told \cap DOMAIN Axes(Kind)),
                      c \in event'.fresh
               PROVE  event'.fields[Axes(Kind)[c]]
                        = event'.sync.was[c] - Quotient(event'.zero[Axes(Kind)[c]], 100)
    BY <1>1 DEF FramesTrue, OfAxes
  <2>1. HasAxis(Object, c, e.was[c])
    BY <1>1, <1>12, EndReached DEF e
  <2>2. fields[a[c]] = e.was[c]
    BY <1>2, <1>12, <2>1 DEF HasAxis, a
  <2>3. a[c] \in DOMAIN fields
    BY <1>7 DEF a
  <2>4. fields'[a[c]] = fields[a[c]] - Quotient(zero[a[c]], 100)
    BY <1>1, <2>3 DEF Offset
  <2> QED
    BY <1>12, <2>2, <2>4 DEF a
<1> QED
  BY <1>6, <1>11, <1>13 DEF FeaturesInv

\* No step does anything.
LEMMA FeaturesStill ==
  ASSUME FeaturesInv, FramesTrue, UNCHANGED featureVars
  PROVE  FeaturesInv' /\ FramesTrue'
<1>1. Object' = Object /\ Kind' = Kind
  BY DEF featureVars, Object, Kind
<1>2. FeaturesTypeOK'
  BY <1>1 DEF featureVars, FeaturesInv, FeaturesTypeOK
<1>3. Arriving(Object, queue, told, device)'
  BY <1>1 DEF featureVars, FeaturesInv, Arriving, Reaches, LastTells, Silent, Whole, HasAxis, HasKey, TellsOf
<1>4. FramesTrue'
  BY <1>1 DEF featureVars, FramesTrue, OfAxes
<1> QED
  BY <1>2, <1>3, <1>4 DEF FeaturesInv

\* The invariant holds, and what is returned at the end of a report is true.
LEMMA FeaturesInvariant ==
  FeaturesSpec => [](FeaturesInv /\ FramesTrue)
<1>1. FeaturesInit => FeaturesInv /\ FramesTrue
  BY FeaturesStart
<1>2. FeaturesInv /\ FramesTrue /\ [FeaturesNext]_featureVars => FeaturesInv' /\ FramesTrue'
  BY ReportKeeps, KeyRepeatKeeps, OpenKeeps, NormalizeKeeps, AcceptKeyKeeps, AcceptAxisKeeps,
     AcceptSyncKeeps, AcceptMotionPlusKeeps, FeaturesStill DEF FeaturesNext
<1> QED
  BY <1>1, <1>2, PTL DEF FeaturesSpec

\* An event with the axes of a feature is a state that the device was in
\* (acceptEvent of the features), for any codes of the device that change, any
\* values of its axes and any buffer, whatever is dropped.
THEOREM FramesAreTrue == FeaturesSpec => []FramesTrue
  BY FeaturesInvariant, PTL

\* When everything is read, the keys that the events say are held are held
\* (acceptEvent of the features), unless what told of them was dropped.
THEOREM KeysAreHeld == FeaturesSpec => []KeysFollow
<1>1. FeaturesInv => KeysFollow
  <2> SUFFICES ASSUME FeaturesInv, queue = <<>>, NEW c \in (told \cap DOMAIN Keys(Kind))
               PROVE  Keys(Kind)[c] \in down <=> device[c] = 1
    BY DEF KeysFollow
  <2>1. Len(queue) = 0
    OBVIOUS
  <2>2. Reaches(Object, queue, 0, c, device[c])
    BY <2>1 DEF FeaturesInv, Arriving
  <2>3. HasKey(Object, c, device[c])
    BY <2>2 DEF Reaches, Silent
  <2> QED
    BY <2>3 DEF HasKey, Object
<1> QED
  BY <1>1, FeaturesInvariant, PTL

-----------------------------------------------------------------------------
(* Discovery: every appearance of a device is provided once at most *)

DiscoverSpec == DiscoverInit /\ [][DiscoverNext]_discoverVars

Actions == {"add", "bind", "remove"}

DiscoverTypeOK ==
  /\ present \in SUBSET Devices /\ bound \in SUBSET Devices
  /\ news \in [Devices -> Seq(Actions)]
  /\ msgs \in Seq(Devices \X Actions)
  /\ scan \in Seq(Devices \cup {NoDevice})
  /\ offer \in Devices \cup {NoDevice}
  /\ count \in [Devices -> Nat]

\* Before the monitor receives, and before the enumeration, there is nothing.
Fresh ==
  /\ ~listening => msgs = <<>>
  /\ pc \in {"new", "enable"} => ~listening
  /\ pc = "new" => /\ scan = <<>> /\ offer = NoDevice /\ known = {}
                   /\ \A d \in Devices : count[d] = 0

\* At most one element of the sequence is x.
One(s, x) == \A i, j \in DOMAIN s : s[i] = x /\ s[j] = x => i = j

Told(d) == <<d, "add">> \in Range(msgs)
Listed(d) == d \in Range(scan) \/ offer = d

\* There is one thing at most that can still provide d, and only if it was not
\* provided: the enumeration of a known device, or the message of another one.
OnceInv(d) ==
  /\ One(news[d], "add") /\ One(msgs, <<d, "add">>) /\ One(scan, d)
  /\ ~(d \in Range(scan) /\ offer = d)
  /\ d \in known => ~Told(d)
  /\ d \notin known => ~Listed(d) /\ ~("add" \in Range(news[d]) /\ Told(d))
  /\ d \notin known /\ "add" \in Range(news[d]) => count[d] = 0
  /\ Told(d) \/ Listed(d) => count[d] = 0
  /\ count[d] <= 1

Inv == DiscoverTypeOK /\ Fresh /\ \A d \in Devices : d \notin again => OnceInv(d)
-----------------------------------------------------------------------------
(* Sequences *)

LEMMA AppendOne ==
  ASSUME NEW S, NEW s \in Seq(S), NEW x \in S
  PROVE  /\ Append(s, x) \in Seq(S)
         /\ Range(Append(s, x)) = Range(s) \cup {x}
         /\ \A y : One(s, y) /\ (x = y => y \notin Range(s)) => One(Append(s, x), y)
<1>1. /\ Append(s, x) \in Seq(S) /\ Len(s) \in Nat
      /\ DOMAIN s = 1 .. Len(s) /\ DOMAIN Append(s, x) = 1 .. Len(s) + 1
      /\ \A i \in 1 .. Len(s) : Append(s, x)[i] = s[i]
      /\ Append(s, x)[Len(s) + 1] = x
  OBVIOUS
<1>2. \A i \in 1 .. Len(s) + 1 : i \in 1 .. Len(s) \/ i = Len(s) + 1
  BY <1>1
<1>3. 1 .. Len(s) \subseteq 1 .. Len(s) + 1 /\ Len(s) + 1 \in 1 .. Len(s) + 1
  BY <1>1
<1>4. Range(Append(s, x)) = Range(s) \cup {x}
  <2>1. ASSUME NEW y \in Range(Append(s, x)) PROVE y \in Range(s) \cup {x}
    BY <1>1, <1>2 DEF Range
  <2>2. ASSUME NEW y \in Range(s) \cup {x} PROVE y \in Range(Append(s, x))
    BY <1>1, <1>3 DEF Range
  <2> QED
    BY <2>1, <2>2
<1>5. ASSUME NEW y, One(s, y), x = y => y \notin Range(s)
      PROVE  One(Append(s, x), y)
  <2> SUFFICES ASSUME NEW i \in 1 .. Len(s) + 1, NEW j \in 1 .. Len(s) + 1,
                      Append(s, x)[i] = y, Append(s, x)[j] = y
               PROVE  i = j
    BY <1>1 DEF One
  <2>1. CASE i \in 1 .. Len(s) /\ j \in 1 .. Len(s)
    BY <1>1, <1>5, <2>1 DEF One
  <2>2. CASE x = y
    <3>1. \A k \in 1 .. Len(s) : s[k] # y
      BY <1>1, <1>5, <2>2 DEF Range
    <3> QED
      BY <1>1, <1>2, <3>1
  <2>3. CASE x # y
    BY <1>1, <1>2, <2>1, <2>3
  <2> QED
    BY <2>2, <2>3
<1> QED
  BY <1>1, <1>4, <1>5

LEMMA TailOne ==
  ASSUME NEW S, NEW s \in Seq(S), s # <<>>
  PROVE  /\ Head(s) \in S /\ Head(s) \in Range(s) /\ Tail(s) \in Seq(S)
         /\ Range(s) = Range(Tail(s)) \cup {Head(s)}
         /\ \A y : One(s, y) => One(Tail(s), y) /\ (Head(s) = y => y \notin Range(Tail(s)))
<1>1. /\ Tail(s) \in Seq(S) /\ Len(s) \in Nat /\ Len(s) >= 1
      /\ DOMAIN s = 1 .. Len(s) /\ DOMAIN Tail(s) = 1 .. Len(s) - 1
      /\ \A i \in 1 .. Len(s) - 1 : Tail(s)[i] = s[i + 1]
      /\ Head(s) = s[1] /\ Head(s) \in S
  OBVIOUS
<1>2. \A i \in 1 .. Len(s) : i = 1 \/ (i - 1 \in 1 .. Len(s) - 1 /\ (i - 1) + 1 = i)
  BY <1>1
<1>3. 1 \in 1 .. Len(s) /\ \A i \in 1 .. Len(s) - 1 : i + 1 \in 1 .. Len(s) /\ i + 1 # 1
  BY <1>1
<1>4. Range(s) = Range(Tail(s)) \cup {Head(s)}
  <2>1. ASSUME NEW y \in Range(s) PROVE y \in Range(Tail(s)) \cup {Head(s)}
    <3>1. PICK i \in 1 .. Len(s) : y = s[i]
      BY <1>1 DEF Range
    <3>2. CASE i = 1
      BY <1>1, <3>1, <3>2
    <3>3. CASE i - 1 \in 1 .. Len(s) - 1 /\ (i - 1) + 1 = i
      <4>1. Tail(s)[i - 1] = y
        BY <1>1, <3>1, <3>3
      <4> QED
        BY <1>1, <3>3, <4>1 DEF Range
    <3> QED
      BY <1>2, <3>2, <3>3
  <2>2. ASSUME NEW y \in Range(Tail(s)) PROVE y \in Range(s)
    <3>1. PICK i \in 1 .. Len(s) - 1 : y = s[i + 1]
      BY <1>1 DEF Range
    <3> QED
      BY <1>1, <1>3, <3>1 DEF Range
  <2>3. Head(s) \in Range(s)
    BY <1>1, <1>3 DEF Range
  <2> QED
    BY <2>1, <2>2, <2>3
<1>5. ASSUME NEW y, One(s, y)
      PROVE  One(Tail(s), y) /\ (Head(s) = y => y \notin Range(Tail(s)))
  <2>1. ASSUME NEW i \in 1 .. Len(s) - 1, NEW j \in 1 .. Len(s) - 1,
               Tail(s)[i] = y, Tail(s)[j] = y
        PROVE  i = j
    <3>1. i + 1 = j + 1
      BY <1>1, <1>3, <1>5, <2>1 DEF One
    <3> QED
      BY <3>1
  <2>2. ASSUME Head(s) = y, NEW i \in 1 .. Len(s) - 1, Tail(s)[i] = y
        PROVE  FALSE
    BY <1>1, <1>3, <1>5, <2>2 DEF One
  <2> QED
    BY <1>1, <2>1, <2>2 DEF One, Range
<1> QED
  BY <1>1, <1>4, <1>5
-----------------------------------------------------------------------------
LEMMA InvInit ==
  ASSUME DiscoverInit
  PROVE  Inv
<1>1. \A d \in Devices : news[d] = <<>>
  BY DEF DiscoverInit
<1>2. Range(<<>>) = {} /\ \A x : One(<<>>, x)
  BY DEF Range, One
<1>3. DiscoverTypeOK
  BY DeviceAssumption DEF DiscoverInit, DiscoverTypeOK
<1>4. Fresh
  BY DEF DiscoverInit, Fresh
<1>5. \A d \in Devices : OnceInv(d)
  BY <1>1, <1>2, DeviceAssumption DEF DiscoverInit, OnceInv, Told, Listed
<1> QED
  BY <1>3, <1>4, <1>5 DEF Inv

\* The invariant of a device depends on these values only.
LEMMA OnceSame ==
  ASSUME NEW d \in Devices, OnceInv(d), news'[d] = news[d], msgs' = msgs, scan' = scan,
         offer' = offer, count'[d] = count[d], d \in known' <=> d \in known
  PROVE  OnceInv(d)'
BY DEF OnceInv, Told, Listed

\* An appearance is told of once.
LEMMA AppearOnce ==
  ASSUME Inv, NEW d \in Devices, Appear(d)
  PROVE  Inv'
<1> USE DEF Inv
<1>1. /\ news' = [news EXCEPT ![d] = Append(@, "add")]
      /\ count' = [count EXCEPT ![d] = 0] /\ known' = known \ {d}
      /\ again' = IF Awaited(d) THEN again \cup {d} ELSE again \ {d}
      /\ UNCHANGED <<msgs, pc, listening, scan, offer>>
      /\ present' = present \cup {d} /\ bound' = bound
  BY DEF Appear, Tell, Kernel, scanVars
<1>2. /\ news[d] \in Seq(Actions) /\ "add" \in Actions
      /\ news'[d] = Append(news[d], "add") /\ count'[d] = 0
      /\ \A e \in Devices : e # d => news'[e] = news[e] /\ count'[e] = count[e]
  BY <1>1 DEF DiscoverTypeOK, Actions
<1>3. Append(news[d], "add") \in Seq(Actions)
  BY <1>2, AppendOne
<1>4. DiscoverTypeOK'
  BY <1>1, <1>3 DEF DiscoverTypeOK
<1>5. Fresh'
  BY <1>1, <1>2 DEF Fresh
<1>6. ASSUME NEW e \in Devices, e \notin again', e # d
      PROVE  OnceInv(e)'
  BY <1>1, <1>2, <1>6, OnceSame
<1>7. ASSUME d \notin again'
      PROVE  OnceInv(d)'
  <2>1. ~Awaited(d)
    BY <1>1, <1>7
  <2>2. "add" \notin Range(news[d]) /\ ~Told(d) /\ ~Listed(d)
    BY <2>1 DEF Awaited, Told, Listed
  <2>3. One(news[d], "add") /\ One(msgs, <<d, "add">>) /\ One(scan, d)
    BY <2>2 DEF One, Range, Told, Listed
  <2>4. One(news'[d], "add")
    BY <1>2, <2>2, <2>3, AppendOne
  <2> QED
    BY <1>1, <1>2, <2>2, <2>3, <2>4 DEF OnceInv, Told, Listed
<1> QED
  BY <1>4, <1>5, <1>6, <1>7

\* The other things that happen to a device are no appearance.
LEMMA ChangeOnce ==
  ASSUME Inv, NEW d \in Devices, Bind(d) \/ Vanish(d)
  PROVE  Inv'
<1> USE DEF Inv
<1>1. PICK a \in {"bind", "remove"} : news' = [news EXCEPT ![d] = Append(@, a)]
  BY DEF Bind, Vanish, Tell
<1>2. /\ UNCHANGED <<count, known, again, msgs, pc, listening, scan, offer>>
      /\ present' \in SUBSET Devices /\ bound' \in SUBSET Devices
  BY DEF Bind, Vanish, Kernel, scanVars, histVars, DiscoverTypeOK
<1>3. /\ news[d] \in Seq(Actions) /\ a \in Actions /\ a # "add"
      /\ news'[d] = Append(news[d], a)
      /\ \A e \in Devices : e # d => news'[e] = news[e]
  BY <1>1 DEF DiscoverTypeOK, Actions
<1>4. /\ Append(news[d], a) \in Seq(Actions)
      /\ Range(news'[d]) = Range(news[d]) \cup {a}
      /\ One(news[d], "add") => One(news'[d], "add")
  BY <1>3, AppendOne
<1>5. DiscoverTypeOK'
  BY <1>1, <1>2, <1>4 DEF DiscoverTypeOK
<1>6. Fresh'
  BY <1>2 DEF Fresh
<1>7. ASSUME NEW e \in Devices, e \notin again', e # d
      PROVE  OnceInv(e)'
  BY <1>2, <1>3, <1>7, OnceSame
<1>8. ASSUME d \notin again'
      PROVE  OnceInv(d)'
  <2>1. OnceInv(d)
    BY <1>2, <1>8
  <2> QED
    BY <1>2, <1>3, <1>4, <2>1 DEF OnceInv, Told, Listed
<1> QED
  BY <1>5, <1>6, <1>7, <1>8

\* What udevd tells moves from its queue to the monitor, or is dropped.
LEMMA BroadcastOnce ==
  ASSUME Inv, NEW d \in Devices, Broadcast(d)
  PROVE  Inv'
<1> USE DEF Inv
<1> DEFINE a == Head(news[d])
<1>1. /\ news[d] \in Seq(Actions) /\ news[d] # <<>> /\ msgs \in Seq(Devices \X Actions)
      /\ news' = [news EXCEPT ![d] = Tail(@)]
      /\ msgs' = IF listening THEN Append(msgs, <<d, a>>) ELSE msgs
      /\ again' = IF a = "add" /\ listening /\ d \in known THEN again \cup {d} ELSE again
      /\ UNCHANGED <<present, bound, count, known, pc, listening, scan, offer>>
  BY DEF Broadcast, scanVars, DiscoverTypeOK
<1>2. /\ news'[d] = Tail(news[d])
      /\ \A e \in Devices : e # d => news'[e] = news[e]
  BY <1>1 DEF DiscoverTypeOK
<1>3. /\ a \in Actions /\ news'[d] \in Seq(Actions)
      /\ Range(news[d]) = Range(news'[d]) \cup {a}
      /\ One(news[d], "add") => One(news'[d], "add") /\ (a = "add" => "add" \notin Range(news'[d]))
  BY <1>1, <1>2, TailOne
<1>4. <<d, a>> \in Devices \X Actions
  BY <1>3
<1>5. \/ msgs' = msgs
      \/ /\ msgs' \in Seq(Devices \X Actions) /\ listening
         /\ Range(msgs') = Range(msgs) \cup {<<d, a>>}
         /\ \A y : One(msgs, y) /\ (<<d, a>> = y => y \notin Range(msgs)) => One(msgs', y)
  BY <1>1, <1>4, AppendOne
<1>6. DiscoverTypeOK'
  BY <1>1, <1>2, <1>3, <1>5 DEF DiscoverTypeOK
<1>7. Fresh'
  BY <1>1, <1>5 DEF Fresh
<1> HIDE DEF a
<1>8. ASSUME NEW e \in Devices, e \notin again', e # d
      PROVE  OnceInv(e)'
  <2>1. OnceInv(e)
    BY <1>1, <1>8
  <2>2. <<d, a>> # <<e, "add">>
    BY <1>8
  <2>3. One(msgs', <<e, "add">>) /\ (Told(e)' <=> Told(e))
    BY <1>5, <2>1, <2>2 DEF OnceInv, Told
  <2> QED
    BY <1>1, <1>2, <1>8, <2>1, <2>3 DEF OnceInv, Listed
<1>9. ASSUME d \notin again'
      PROVE  OnceInv(d)'
  <2>1. d \notin again /\ OnceInv(d)
    BY <1>1, <1>9
  <2>2. CASE msgs' = msgs
    BY <1>1, <1>3, <2>1, <2>2 DEF OnceInv, Told, Listed
  <2>3. CASE msgs' # msgs /\ a # "add"
    <3>1. <<d, a>> # <<d, "add">>
      BY <2>3
    <3>2. One(msgs', <<d, "add">>) /\ (Told(d)' <=> Told(d))
      BY <1>5, <2>1, <2>3, <3>1 DEF OnceInv, Told
    <3> QED
      BY <1>1, <1>3, <2>1, <3>2 DEF OnceInv, Listed
  <2>4. CASE msgs' # msgs /\ a = "add"
    <3>1. d \notin known /\ "add" \in Range(news[d])
      BY <1>1, <1>3, <1>5, <1>9, <2>1, <2>4
    <3>2. ~Told(d) /\ ~Listed(d) /\ count[d] = 0
      BY <2>1, <3>1 DEF OnceInv
    <3>3. One(msgs', <<d, "add">>)
      BY <1>5, <2>1, <2>4, <3>2 DEF OnceInv, Told
    <3>4. One(news'[d], "add") /\ "add" \notin Range(news'[d])
      BY <1>3, <2>1, <2>4 DEF OnceInv
    <3> QED
      BY <1>1, <2>1, <3>1, <3>2, <3>3, <3>4 DEF OnceInv, Listed
  <2> QED
    BY <2>2, <2>3, <2>4
<1> QED
  BY <1>6, <1>7, <1>8, <1>9

\* The enumeration has each device once, and nothing was provided before.
LEMMA IterOnce ==
  ASSUME Inv, IterDevices
  PROVE  Inv'
<1> USE DEF Inv
<1>1. /\ pc = "new" /\ pc' = "enable" /\ scan' \in Orders(present) /\ known' = present
      /\ UNCHANGED <<present, bound, news, msgs, listening, offer, count, again>>
  BY DEF IterDevices, kernelVars
<1>2. msgs = <<>> /\ offer = NoDevice /\ ~listening /\ \A d \in Devices : count[d] = 0
  BY <1>1 DEF Fresh
<1>3. /\ scan' \in Seq(Devices \cup {NoDevice})
      /\ \A d \in Devices : One(scan', d) /\ (d \in Range(scan') => d \in present)
  <2>1. CASE scan' = <<NoDevice>>
    <3>1. DOMAIN scan' = {1} /\ scan'[1] = NoDevice
      BY <2>1
    <3> QED
      BY <2>1, <3>1, DeviceAssumption DEF One, Range
  <2>2. CASE scan' # <<NoDevice>>
    <3>1. /\ scan' \in [1 .. Cardinality(present) -> present]
          /\ \A i, j \in DOMAIN scan' : scan'[i] = scan'[j] => i = j
      BY <1>1, <2>2 DEF Orders
    <3>2. present \subseteq Devices
      BY DEF DiscoverTypeOK
    <3>3. \A d \in Devices : One(scan', d) /\ (d \in Range(scan') => d \in present)
      BY <3>1 DEF One, Range
    <3>4. Cardinality(present) \in Nat
      BY <3>2, DeviceAssumption, FS_Subset, FS_CardinalityType
    <3>5. scan' \in [1 .. Cardinality(present) -> Devices \cup {NoDevice}]
      BY <3>1, <3>2
    <3>6. scan' \in Seq(Devices \cup {NoDevice})
      BY <3>4, <3>5
    <3> QED
      BY <3>3, <3>6
  <2> QED
    BY <2>1, <2>2
<1>4. DiscoverTypeOK'
  BY <1>1, <1>3 DEF DiscoverTypeOK
<1>5. Fresh'
  BY <1>1, <1>2 DEF Fresh
<1>6. ASSUME NEW d \in Devices, d \notin again'
      PROVE  OnceInv(d)'
  <2>1. OnceInv(d)
    BY <1>1, <1>6
  <2>2. ~Told(d)'
    BY <1>1, <1>2 DEF Told, Range
  <2>3. offer' # d
    BY <1>1, <1>2, DeviceAssumption
  <2> QED
    BY <1>1, <1>2, <1>3, <2>1, <2>2, <2>3 DEF OnceInv, Told, Listed
<1> QED
  BY <1>4, <1>5, <1>6

\* The goroutine of the scan offers each entry once.
LEMMA ScanOnce ==
  ASSUME Inv, ScanNext
  PROVE  Inv'
<1> USE DEF Inv
<1> DEFINE h == Head(scan)
<1>1. /\ pc # "new" /\ offer = NoDevice /\ scan # <<>>
      /\ offer' = IF h \in bound THEN h ELSE NoDevice
      /\ scan' = Tail(scan) /\ scan \in Seq(Devices \cup {NoDevice})
      /\ UNCHANGED <<present, bound, news, msgs, pc, listening, count, known, again>>
  BY DEF ScanNext, kernelVars, DiscoverTypeOK
<1>2. /\ h \in Devices \cup {NoDevice} /\ scan' \in Seq(Devices \cup {NoDevice})
      /\ Range(scan) = Range(scan') \cup {h}
      /\ \A y : One(scan, y) => One(scan', y) /\ (h = y => y \notin Range(scan'))
  BY <1>1, TailOne
<1> HIDE DEF h
<1>3. DiscoverTypeOK'
  BY <1>1, <1>2 DEF DiscoverTypeOK
<1>4. Fresh'
  BY <1>1 DEF Fresh
<1>5. ASSUME NEW d \in Devices, d \notin again'
      PROVE  OnceInv(d)'
  <2>1. OnceInv(d)
    BY <1>1, <1>5
  <2>2. Listed(d)' => Listed(d)
    BY <1>1, <1>2, DeviceAssumption DEF Listed
  <2>3. One(scan', d) /\ ~(d \in Range(scan') /\ offer' = d)
    BY <1>1, <1>2, <2>1, DeviceAssumption DEF OnceInv
  <2> QED
    BY <1>1, <2>1, <2>2, <2>3 DEF OnceInv, Told
<1> QED
  BY <1>3, <1>4, <1>5

\* A device that is provided from the scan is in nothing else.
LEMMA PollScanOnce ==
  ASSUME Inv, PollScan
  PROVE  Inv'
<1> USE DEF Inv
<1>1. /\ pc = "poll" /\ offer \in Devices /\ offer' = NoDevice
      /\ count' = [count EXCEPT ![offer] = @ + 1]
      /\ UNCHANGED <<present, bound, news, msgs, listening, scan, known, again>>
  BY DEF PollScan, Provide, kernelVars, DiscoverTypeOK
<1>2. /\ count[offer] \in Nat /\ count'[offer] = count[offer] + 1
      /\ \A d \in Devices : d # offer => count'[d] = count[d]
  BY <1>1 DEF DiscoverTypeOK
<1>3. DiscoverTypeOK'
  BY <1>1, <1>2 DEF DiscoverTypeOK
<1>4. Fresh'
  <2>1. pc' \in {"idle", "poll", "await"}
    BY DEF PollScan, PollReturns
  <2> QED
    BY <1>1, <2>1 DEF Fresh
<1>5. ASSUME NEW d \in Devices, d \notin again', d # offer
      PROVE  OnceInv(d)'
  <2>1. OnceInv(d)
    BY <1>1, <1>5
  <2>2. Listed(d)' <=> Listed(d)
    BY <1>1, <1>5, DeviceAssumption DEF Listed
  <2> QED
    BY <1>1, <1>2, <1>5, <2>1, <2>2, DeviceAssumption DEF OnceInv, Told
<1>6. ASSUME NEW d \in Devices, d \notin again', d = offer
      PROVE  OnceInv(d)'
  <2>1. OnceInv(d)
    BY <1>1, <1>6
  <2>2. Listed(d) /\ d \notin Range(scan)
    BY <1>6, <2>1 DEF Listed, OnceInv
  <2>3. d \in known /\ ~Told(d) /\ count[d] = 0
    BY <2>1, <2>2 DEF OnceInv
  <2>4. ~Told(d)' /\ ~Listed(d)' /\ count'[d] = 1
    BY <1>1, <1>2, <1>6, <2>2, <2>3, DeviceAssumption DEF Told, Listed
  <2> QED
    BY <1>1, <2>1, <2>3, <2>4 DEF OnceInv, Told, Listed
<1> QED
  BY <1>3, <1>4, <1>5, <1>6

\* So is one that is provided by the monitor; other messages provide nothing.
LEMMA PollMonitorOnce ==
  ASSUME Inv, PollMonitor
  PROVE  Inv'
<1> USE DEF Inv
<1>1. /\ msgs # <<>> /\ msgs \in Seq(Devices \X Actions) /\ msgs' = Tail(msgs)
      /\ UNCHANGED <<present, bound, news, listening, scan, offer, known, again>>
  BY DEF PollMonitor, kernelVars, scanVars, DiscoverTypeOK
<1>2. /\ Head(msgs) \in Devices \X Actions /\ msgs' \in Seq(Devices \X Actions)
      /\ Range(msgs) = Range(msgs') \cup {Head(msgs)}
      /\ \A y : One(msgs, y) => One(msgs', y) /\ (Head(msgs) = y => y \notin Range(msgs'))
  BY <1>1, TailOne
<1>3. PICK e \in Devices, a \in Actions : Head(msgs) = <<e, a>>
  BY <1>2
<1>4. /\ pc' \in {"idle", "poll", "await"}
      /\ \/ count' = count
         \/ a = "add" /\ count' = [count EXCEPT ![e] = @ + 1]
  <2>1. Head(msgs)[1] = e /\ Head(msgs)[2] = a
    BY <1>3
  <2>2. IF a = "add" /\ e \in bound
        THEN Provide(e) /\ PollReturns(FALSE) ELSE WouldBlock /\ count' = count
    BY <2>1, Zenon DEF PollMonitor
  <2>3. CASE a = "add" /\ e \in bound
    BY <2>2, <2>3 DEF Provide, PollReturns
  <2>4. CASE ~(a = "add" /\ e \in bound)
    BY <2>2, <2>4 DEF WouldBlock
  <2> QED
    BY <2>3, <2>4
<1>5. /\ count' \in [Devices -> Nat]
      /\ \A d \in Devices : d # e \/ a # "add" => count'[d] = count[d]
      /\ count'[e] \in {count[e], count[e] + 1} /\ count[e] \in Nat
  BY <1>4 DEF DiscoverTypeOK
<1>6. DiscoverTypeOK'
  BY <1>1, <1>2, <1>5 DEF DiscoverTypeOK
<1>7. Fresh'
  <2>1. listening
    BY <1>1 DEF Fresh
  <2> QED
    BY <1>1, <1>4, <2>1 DEF Fresh
<1>8. ASSUME NEW d \in Devices, d \notin again', d # e \/ a # "add"
      PROVE  OnceInv(d)'
  <2>1. OnceInv(d)
    BY <1>1, <1>8
  <2>2. Head(msgs) # <<d, "add">>
    BY <1>3, <1>8
  <2>3. One(msgs', <<d, "add">>) /\ (Told(d)' <=> Told(d))
    BY <1>2, <2>1, <2>2 DEF OnceInv, Told
  <2>4. count'[d] = count[d]
    BY <1>5, <1>8
  <2> QED
    BY <1>1, <2>1, <2>3, <2>4 DEF OnceInv, Listed
<1>9. ASSUME e \notin again', a = "add"
      PROVE  OnceInv(e)'
  <2>1. OnceInv(e)
    BY <1>1, <1>9
  <2>2. Told(e) /\ Head(msgs) = <<e, "add">>
    BY <1>2, <1>3, <1>9 DEF Told
  <2>3. e \notin known /\ ~Listed(e) /\ "add" \notin Range(news[e]) /\ count[e] = 0
    BY <2>1, <2>2 DEF OnceInv
  <2>4. One(msgs', <<e, "add">>) /\ ~Told(e)'
    BY <1>2, <2>1, <2>2 DEF OnceInv, Told
  <2> QED
    BY <1>1, <1>5, <2>1, <2>3, <2>4 DEF OnceInv, Listed
<1> QED
  BY <1>6, <1>7, <1>8, <1>9

\* The other steps of the caller and of the scan move nothing.
LEMMA RestOnce ==
  ASSUME Inv, EnableReceiving \/ ScanDone \/ Call \/ PollEmpty \/ Readable \/ TimeOut
  PROVE  Inv'
<1> USE DEF Inv
<1>1. UNCHANGED <<present, bound, news, msgs, scan, offer, count, known, again>>
  BY DEF EnableReceiving, ScanDone, Call, PollEmpty, Readable, TimeOut, kernelVars, scanVars, histVars
<1>2. DiscoverTypeOK'
  BY <1>1 DEF DiscoverTypeOK
<1>3. Fresh'
  <2>1. \/ pc' = pc /\ listening' = listening
        \/ pc' = "idle" /\ listening' = TRUE
        \/ pc' \in {"poll", "await"} /\ listening' = listening
    BY DEF EnableReceiving, ScanDone, Call, PollEmpty, WouldBlock, Readable, TimeOut
  <2> QED
    BY <1>1, <2>1 DEF Fresh
<1>4. ASSUME NEW d \in Devices, d \notin again'
      PROVE  OnceInv(d)'
  BY <1>1, <1>4, OnceSame
<1> QED
  BY <1>2, <1>3, <1>4

LEMMA InvStep ==
  ASSUME Inv, [DiscoverNext]_discoverVars
  PROVE  Inv'
<1>1. CASE UNCHANGED discoverVars
  <2>1. UNCHANGED <<present, bound, news, msgs, pc, listening, scan, offer, count, known, again>>
    BY <1>1 DEF discoverVars, kernelVars, scanVars, histVars
  <2> QED
    BY <2>1 DEF Inv, DiscoverTypeOK, Fresh, OnceInv, Told, Listed
<1>2. CASE DiscoverNext
  BY <1>2, AppearOnce, ChangeOnce, BroadcastOnce, IterOnce, ScanOnce, PollScanOnce, PollMonitorOnce,
     RestOnce DEF DiscoverNext, Udevd, Scanner, Client
<1> QED
  BY <1>1, <1>2

\* For any devices, appearing and leaving at any time: each appearance is provided once at
\* most, although scan and monitor run side by side, unless udevd tells of a device that
\* was enumerated too, or of several appearances at once.
THEOREM ProvidedOnce == DiscoverSpec => []OnceEach
<1>1. Inv => OnceEach
  <2> SUFFICES ASSUME Inv, NEW d \in Devices, count[d] > 1, d \notin again
               PROVE  FALSE
    BY DEF OnceEach
  <2>1. OnceInv(d) /\ count[d] \in Nat
    BY DEF Inv, DiscoverTypeOK
  <2> QED
    BY <2>1 DEF OnceInv
<1> QED
  BY <1>1, InvInit, InvStep, PTL DEF DiscoverSpec

================================================================================
