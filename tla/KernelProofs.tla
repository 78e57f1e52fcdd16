----------------------------- MODULE KernelProofs -----------------------------
(* Proofs about the kernel driver: types, descriptors, hotplug, the queue. *)
EXTENDS KernelCorrect, FiniteSetTheorems, TLAPS

\* Every step keeps the types.
LEMMA TypeStep ==
  ASSUME TypeOK, [Next]_vars
  PROVE  TypeOK'
<1> USE KindAssumption, NameAssumption, QueueAssumption
    DEF TypeOK, NodeMap, Labels, Results, Polls, Nothing,
        vars, envVars, fdVars, nodeVars, openVars, callVars
<1>1. CASE Remove
  BY <1>1 DEF Remove, Notify, Kill, Nothing
<1>2. ASSUME NEW k \in Kinds, Plug(k)
      PROVE  TypeOK'
  BY <1>2 DEF Plug, Notify
<1>3. ASSUME NEW k \in Kinds, Unplug(k)
      PROVE  TypeOK'
  BY <1>3 DEF Unplug, Notify, Kill
<1>4. ASSUME NEW k \in Kinds, Input(k)
      PROVE  TypeOK'
  BY <1>4 DEF Input
<1>5. ASSUME NEW call \in Polls, StartPoll(call)
      PROVE  TypeOK'
  BY <1>5 DEF StartPoll, Begin
<1>6. ASSUME NEW ifaces \in SUBSET Kinds, OpenFeatures(ifaces)
      PROVE  TypeOK'
  BY <1>6 DEF OpenFeatures, Begin
<1>7. ASSUME NEW f \in Fds, CloseFeature(f)
      PROVE  TypeOK'
  BY <1>7 DEF CloseFeature, Begin, CloseFile, StartScan, Opened
<1>8. CASE ReadFirst
  BY <1>8 DEF ReadFirst, StartScan
<1>9. CASE Announce
  <2> PICK k \in Kinds :
        /\ availIfs' = [availIfs EXCEPT ![k] = left[k]]
        /\ left' = [left EXCEPT ![k] = None]
        /\ moreEvents' = moreEvents + 1 /\ moreEvents < QueueCap
        /\ UNCHANGED <<envVars, fdVars, openVars, callVars, listening, pc>>
    BY <1>9 DEF Announce, First
  <2> QED
    OBVIOUS
<1>10. CASE CloseUnavailable
  BY <1>10 DEF CloseUnavailable, CloseFile, StartScan, Opened
<1>11. CASE NodesRead
  BY <1>11 DEF NodesRead, Return, Opened
<1>12. CASE EnableReceiving
  BY <1>12 DEF EnableReceiving, Return
<1>13. CASE OpenNext
  <2> PICK k \in todo :
        /\ todo' = todo \ {k}
        /\ UNCHANGED <<envVars, nodeVars, op, result, listening, pc>>
        /\ \/ UNCHANGED <<fdVars, openIfs, held>>
           \/ \E j \in Behind(k), f \in Lowest : OpenHalf(k, j, f) \/ OpenWhole(k, j, f)
    BY <1>13 DEF OpenNext, First
  <2>2. CASE UNCHANGED <<fdVars, openIfs, held>>
    BY <2>2
  <2>3. ASSUME NEW j \in Behind(k), NEW f \in Lowest, OpenHalf(k, j, f)
        PROVE  TypeOK'
    BY <2>3 DEF OpenHalf, Lowest, First, Behind
  <2>4. ASSUME NEW j \in Behind(k), NEW f \in Lowest, OpenWhole(k, j, f)
        PROVE  TypeOK'
    BY <2>4 DEF OpenWhole, Lowest, First, Behind, Opened
  <2> QED
    BY <2>2, <2>3, <2>4
<1>14. CASE OpenDone
  BY <1>14 DEF OpenDone, Return
<1>15. CASE Take
  BY <1>15 DEF Take, Return
<1>16. CASE ReadUmon
  BY <1>16 DEF ReadUmon, AtEpoll
<1>17. CASE NothingRead
  BY <1>17 DEF NothingRead, AtEpoll, WouldBlock, Return, Opened
<1>18. CASE Await
  BY <1>18 DEF Await
<1>19. ASSUME NEW k \in Kinds, ReadInput(k)
      PROVE  TypeOK'
  BY <1>19 DEF ReadInput, AtEpoll, Return, Opened
<1>20. ASSUME NEW k \in Kinds, ReadFails(k)
      PROVE  TypeOK'
  BY <1>20 DEF ReadFails, AtEpoll, CloseFile, StartScan, Opened
<1>21. ASSUME NEW k \in Kinds, Ignore(k)
      PROVE  TypeOK'
  BY <1>21 DEF Ignore, AtEpoll, WouldBlock, Return, Opened
<1>22. CASE ReadNodes
  BY <1>22 DEF ReadNodes, StartScan
<1>23. ASSUME NEW k \in Kinds, PlugInput(k)
      PROVE  TypeOK'
  BY <1>23 DEF PlugInput, Notify
<1>24. CASE UNCHANGED vars
  BY <1>24
<1> QED
  BY <1>1, <1>2, <1>3, <1>4, <1>5, <1>6, <1>7, <1>8, <1>9, <1>10, <1>11, <1>12, <1>13,
     <1>14, <1>15, <1>16, <1>17, <1>18, <1>19, <1>20, <1>21, <1>22, <1>23, <1>24
  DEF Next, Kernel, Call, Step, PollStep

\* Every variable of the driver and of the kernel keeps to its values.
THEOREM TypeCorrect == Spec => []TypeOK
<1>1. Init => TypeOK
  <2> SUFFICES ASSUME Init
               PROVE  TypeOK
    OBVIOUS
  <2>1. /\ present \in NodeMap
        /\ \A j, k \in Kinds : present[j] = present[k] => j = k \/ present[j] = None
    BY DEF Init, NodeMap
  <2>2. health \in [Fds -> {"quiet", "input", "dead"}] /\ files \in [Fds -> Kinds \cup {None}]
    BY DEF Init
  <2>3. moreEvents \in 0..QueueCap
    BY QueueAssumption DEF Init
  <2>4. availIfs \in NodeMap /\ left \in NodeMap /\ openIfs \in [Kinds -> Fds \cup {None, Closed}]
    BY DEF Init, NodeMap, Nothing
  <2> QED
    BY <2>1, <2>2, <2>3, <2>4 DEF Init, TypeOK, Labels, Results
<1> QED
  BY <1>1, TypeStep, PTL DEF Spec

-----------------------------------------------------------------------------
\* Every step leaves each open object its own descriptor: a new object gets a free
\* one, and the one that is closed belongs to no other object.
LEMMA OwnedStep ==
  ASSUME TypeOK, DescriptorsOwned, [Next]_vars
  PROVE  DescriptorsOwned'
<1> USE NameAssumption
    DEF TypeOK, DescriptorsOwned, Opened,
        vars, envVars, fdVars, nodeVars, openVars, callVars
<1>1. CASE Remove
  BY <1>1 DEF Remove, Notify, Kill, Nothing
<1>2. ASSUME NEW k \in Kinds, Plug(k)
      PROVE  DescriptorsOwned'
  BY <1>2 DEF Plug, Notify
<1>3. ASSUME NEW k \in Kinds, Unplug(k)
      PROVE  DescriptorsOwned'
  BY <1>3 DEF Unplug, Notify, Kill
<1>4. ASSUME NEW k \in Kinds, Input(k)
      PROVE  DescriptorsOwned'
  BY <1>4 DEF Input
<1>5. ASSUME NEW call \in Polls, StartPoll(call)
      PROVE  DescriptorsOwned'
  BY <1>5 DEF StartPoll, Begin
<1>6. ASSUME NEW ifaces \in SUBSET Kinds, OpenFeatures(ifaces)
      PROVE  DescriptorsOwned'
  BY <1>6 DEF OpenFeatures, Begin
<1>7. ASSUME NEW f \in Fds, CloseFeature(f)
      PROVE  DescriptorsOwned'
  BY <1>7 DEF CloseFeature, Begin, CloseFile, StartScan
<1>8. CASE ReadFirst
  BY <1>8 DEF ReadFirst, StartScan
<1>9. CASE Announce
  BY <1>9 DEF Announce
<1>10. CASE CloseUnavailable
  BY <1>10 DEF CloseUnavailable, CloseFile, StartScan
<1>11. CASE NodesRead
  BY <1>11 DEF NodesRead, Return
<1>12. CASE EnableReceiving
  BY <1>12 DEF EnableReceiving, Return
<1>13. CASE OpenNext
  <2> PICK k \in todo :
        /\ todo' = todo \ {k}
        /\ UNCHANGED <<envVars, nodeVars, op, result, listening, pc>>
        /\ \/ UNCHANGED <<fdVars, openIfs, held>>
           \/ \E j \in Behind(k), f \in Lowest : OpenHalf(k, j, f) \/ OpenWhole(k, j, f)
    BY <1>13 DEF OpenNext, First
  <2>2. CASE UNCHANGED <<fdVars, openIfs, held>>
    BY <2>2
  <2>3. ASSUME NEW j \in Behind(k), NEW f \in Lowest, OpenHalf(k, j, f)
        PROVE  DescriptorsOwned'
    BY <2>3 DEF OpenHalf, Lowest, First, Behind
  <2>4. ASSUME NEW j \in Behind(k), NEW f \in Lowest, OpenWhole(k, j, f)
        PROVE  DescriptorsOwned'
    BY <2>4 DEF OpenWhole, Lowest, First, Behind, Opened
  <2> QED
    BY <2>2, <2>3, <2>4
<1>14. CASE OpenDone
  BY <1>14 DEF OpenDone, Return
<1>15. CASE Take
  BY <1>15 DEF Take, Return
<1>16. CASE ReadUmon
  BY <1>16 DEF ReadUmon, AtEpoll
<1>17. CASE NothingRead
  BY <1>17 DEF NothingRead, AtEpoll, WouldBlock, Return
<1>18. CASE Await
  BY <1>18 DEF Await
<1>19. ASSUME NEW k \in Kinds, ReadInput(k)
      PROVE  DescriptorsOwned'
  BY <1>19 DEF ReadInput, AtEpoll, Return
<1>20. ASSUME NEW k \in Kinds, ReadFails(k)
      PROVE  DescriptorsOwned'
  BY <1>20 DEF ReadFails, AtEpoll, CloseFile, StartScan
<1>21. ASSUME NEW k \in Kinds, Ignore(k)
      PROVE  DescriptorsOwned'
  BY <1>21 DEF Ignore, AtEpoll, WouldBlock, Return
<1>22. CASE ReadNodes
  BY <1>22 DEF ReadNodes, StartScan
<1>23. ASSUME NEW k \in Kinds, PlugInput(k)
      PROVE  DescriptorsOwned'
  BY <1>23 DEF PlugInput, Notify
<1>24. CASE UNCHANGED vars
  BY <1>24
<1> QED
  BY <1>1, <1>2, <1>3, <1>4, <1>5, <1>6, <1>7, <1>8, <1>9, <1>10, <1>11, <1>12, <1>13,
     <1>14, <1>15, <1>16, <1>17, <1>18, <1>19, <1>20, <1>21, <1>22, <1>23, <1>24
  DEF Next, Kernel, Call, Step, PollStep

\* Closing, opening again and failing never make two open objects share a
\* descriptor, nor leave an open object with a closed one.
THEOREM OwnDescriptors == Spec => []DescriptorsOwned
<1>1. Init => DescriptorsOwned
  BY NameAssumption DEF Init, DescriptorsOwned, Opened, Nothing
<1> QED
  BY <1>1, TypeCorrect, OwnedStep, PTL DEF Spec

-----------------------------------------------------------------------------
\* Every step keeps what is known or still to be noted: a change of a node leaves
\* a message or is unheard, and a reading starts with all that is there.
LEMMA KnownStep ==
  ASSUME TypeOK, KnownInv, [Next]_vars
  PROVE  KnownInv'
<1> USE NameAssumption
    DEF TypeOK, NodeMap, KnownInv, Nothing,
        vars, envVars, fdVars, nodeVars, openVars, callVars
<1>1. CASE Remove
  BY <1>1 DEF Remove, Notify, Kill
<1>2. ASSUME NEW k \in Kinds, Plug(k)
      PROVE  KnownInv'
  BY <1>2 DEF Plug, Notify
<1>3. ASSUME NEW k \in Kinds, Unplug(k)
      PROVE  KnownInv'
  BY <1>3 DEF Unplug, Notify, Kill
<1>4. ASSUME NEW k \in Kinds, Input(k)
      PROVE  KnownInv'
  BY <1>4 DEF Input
<1>5. ASSUME NEW call \in Polls, StartPoll(call)
      PROVE  KnownInv'
  BY <1>5 DEF StartPoll, Begin
<1>6. ASSUME NEW ifaces \in SUBSET Kinds, OpenFeatures(ifaces)
      PROVE  KnownInv'
  BY <1>6 DEF OpenFeatures, Begin
<1>7. ASSUME NEW f \in Fds, CloseFeature(f)
      PROVE  KnownInv'
  BY <1>7 DEF CloseFeature, Begin, CloseFile, StartScan, Opened
<1>8. CASE ReadFirst
  BY <1>8 DEF ReadFirst, StartScan
<1>9. CASE Announce
  <2> PICK k \in Kinds :
        /\ availIfs' = [availIfs EXCEPT ![k] = left[k]]
        /\ left[k] # None /\ left' = [left EXCEPT ![k] = None]
        /\ pc = "scan" /\ UNCHANGED <<envVars, pc>>
    BY <1>9 DEF Announce, First
  <2>1. availIfs'[k] = present[k]
    OBVIOUS
  <2>2. \A j \in Kinds \ {k} : availIfs'[j] = availIfs[j] /\ left'[j] = left[j]
    OBVIOUS
  <2> QED
    BY <2>1, <2>2
<1>10. CASE CloseUnavailable
  BY <1>10 DEF CloseUnavailable, CloseFile, StartScan, Opened
<1>11. CASE NodesRead
  BY <1>11 DEF NodesRead, Return, Opened
<1>12. CASE EnableReceiving
  BY <1>12 DEF EnableReceiving, Return
<1>13. CASE OpenNext
  BY <1>13 DEF OpenNext
<1>14. CASE OpenDone
  BY <1>14 DEF OpenDone, Return
<1>15. CASE Take
  BY <1>15 DEF Take, Return
<1>16. CASE ReadUmon
  BY <1>16 DEF ReadUmon, AtEpoll
<1>17. CASE NothingRead
  BY <1>17 DEF NothingRead, AtEpoll, WouldBlock, Return, Opened
<1>18. CASE Await
  BY <1>18 DEF Await
<1>19. ASSUME NEW k \in Kinds, ReadInput(k)
      PROVE  KnownInv'
  BY <1>19 DEF ReadInput, AtEpoll, Return, Opened
<1>20. ASSUME NEW k \in Kinds, ReadFails(k)
      PROVE  KnownInv'
  BY <1>20 DEF ReadFails, AtEpoll, CloseFile, StartScan, Opened
<1>21. ASSUME NEW k \in Kinds, Ignore(k)
      PROVE  KnownInv'
  BY <1>21 DEF Ignore, AtEpoll, WouldBlock, Return, Opened
<1>22. CASE ReadNodes
  BY <1>22 DEF ReadNodes, StartScan
<1>23. ASSUME NEW k \in Kinds, PlugInput(k)
      PROVE  KnownInv'
  BY <1>23 DEF PlugInput, Notify
<1>24. CASE UNCHANGED vars
  BY <1>24
<1> QED
  BY <1>1, <1>2, <1>3, <1>4, <1>5, <1>6, <1>7, <1>8, <1>9, <1>10, <1>11, <1>12, <1>13,
     <1>14, <1>15, <1>16, <1>17, <1>18, <1>19, <1>20, <1>21, <1>22, <1>23, <1>24
  DEF Next, Kernel, Call, Step, PollStep

\* No hotplug that the monitor hears is lost.
THEOREM AllNodesKnown == Spec => []NodesKnown
<1>1. Init => KnownInv
  BY DEF Init, KnownInv, Nothing
<1>2. KnownInv => NodesKnown
  BY NameAssumption DEF KnownInv, NodesKnown, Nothing
<1> QED
  BY <1>1, <1>2, TypeCorrect, KnownStep, PTL DEF Spec
-----------------------------------------------------------------------------
\* The nodes that the reading has still to announce.
Waiting == {k \in Kinds : left[k] # None}

\* Why a Poll never blocks on its own queue: what waits is announced once, and
\* each feature that is open can be closed once and start one more reading, of
\* at most all the nodes.
QueueRoom ==
  /\ pc = "new" => op = "NewDevice"
  /\ pc = "drained" => moreEvents = 0
  /\ pc = "scan" /\ op \in Polls =>
       moreEvents + Cardinality(Waiting) + Cardinality(Opened) * Cardinality(Kinds) <= QueueCap

\* Features that wait or are open are features: their numbers are bounded.
LEMMA FewFeatures ==
  ASSUME NEW S \in SUBSET Kinds
  PROVE  /\ IsFiniteSet(S) /\ Cardinality(S) \in Nat
         /\ Cardinality(Kinds) \in Nat /\ Cardinality(S) <= Cardinality(Kinds)
<1>1. IsFiniteSet(Kinds)
  BY QueueAssumption
<1>2. IsFiniteSet(S) /\ Cardinality(S) <= Cardinality(Kinds)
  BY <1>1, FS_Subset
<1> QED
  BY <1>1, <1>2, FS_CardinalityType

\* One feature fewer, one reading fewer.
LEMMA OneFewer ==
  ASSUME NEW S \in SUBSET Kinds, NEW k \in S
  PROVE  /\ Cardinality(S \ {k}) = Cardinality(S) - 1
         /\ Cardinality(S \ {k}) * Cardinality(Kinds)
              = Cardinality(S) * Cardinality(Kinds) - Cardinality(Kinds)
<1>1. Cardinality(S \ {k}) = Cardinality(S) - 1
  BY FewFeatures, FS_RemoveElement
<1>2. \A n, m \in Nat : (n - 1) * m = n * m - m
  OBVIOUS
<1> QED
  BY <1>1, <1>2, FewFeatures

\* A reading that starts with an empty queue has room for all that follows.
LEMMA RoomAtStart ==
  ASSUME NEW S \in SUBSET Kinds, NEW T \in SUBSET Kinds
  PROVE  Cardinality(S) + Cardinality(T) * Cardinality(Kinds) <= QueueCap
<1> DEFINE n == Cardinality(Kinds)
<1>1. /\ n \in Nat /\ Cardinality(S) \in Nat /\ Cardinality(S) <= n
      /\ Cardinality(T) \in Nat /\ Cardinality(T) <= n
  BY FewFeatures
<1>2. \A a, b, m \in Nat : a <= m /\ b <= m => a + b * m <= m * (m + 1)
  <2>1. \A b, m \in Nat : b <= m => b * m <= m * m
    OBVIOUS
  <2>2. \A m \in Nat : m * (m + 1) = m * m + m /\ m * m \in Nat
    OBVIOUS
  <2>3. \A b, m \in Nat : b * m \in Nat
    OBVIOUS
  <2> SUFFICES ASSUME NEW a \in Nat, NEW b \in Nat, NEW m \in Nat, a <= m, b <= m
               PROVE  a + b * m <= m * (m + 1)
    OBVIOUS
  <2>4. \A x, y \in Nat : x <= y => a + x <= y + m
    OBVIOUS
  <2> QED
    BY <2>1, <2>2, <2>3, <2>4
<1>3. Cardinality(S) + Cardinality(T) * n <= n * (n + 1)
  BY <1>1, <1>2
<1>4. n * (n + 1) <= QueueCap /\ QueueCap \in Int
  BY QueueAssumption
<1>5. Cardinality(T) * n \in Int /\ n * (n + 1) \in Int
  BY <1>1
<1> HIDE DEF n
<1>6. \A x, y \in Int : x <= y /\ y <= QueueCap => x <= QueueCap
  BY <1>4
<1> QED
  BY <1>1, <1>3, <1>4, <1>5, <1>6 DEF n

\* With what is open kept, and no more to announce than before, there is room.
LEMMA RoomKept ==
  ASSUME TypeOK, QueueRoom, TypeOK',
         pc' = pc, op' = op,
         moreEvents' = moreEvents, openIfs' = openIfs, Waiting' \subseteq Waiting
  PROVE  QueueRoom'
<1> DEFINE a == Cardinality(Waiting)
           b == Cardinality(Waiting')
           c == Cardinality(Opened) * Cardinality(Kinds)
<1>1. Opened' = Opened
  BY DEF Opened
<1>2. Waiting \in SUBSET Kinds /\ Opened \in SUBSET Kinds
  BY DEF Waiting, Opened
<1>3. IsFiniteSet(Waiting) /\ a \in Nat /\ Cardinality(Opened) \in Nat /\ Cardinality(Kinds) \in Nat
  BY <1>2, FewFeatures
<1>4. b \in Nat /\ b <= a
  BY <1>3, FS_Subset, FS_CardinalityType
<1>5. c \in Nat
  BY <1>3
<1>6. moreEvents \in Nat /\ QueueCap \in Nat
  BY QueueAssumption DEF TypeOK
<1>7. pc = "scan" /\ op \in Polls => moreEvents + a + c <= QueueCap
  BY DEF QueueRoom
<1> HIDE DEF a, b, c
<1>8. pc = "scan" /\ op \in Polls => moreEvents + b + c <= QueueCap
  BY <1>3, <1>4, <1>5, <1>6, <1>7
<1>9. QueueRoom' = (/\ pc' = "new" => op' = "NewDevice"
                    /\ pc' = "drained" => moreEvents' = 0
                    /\ pc' = "scan" /\ op' \in Polls => moreEvents' + b + c <= QueueCap)
  BY <1>1 DEF QueueRoom, b, c
<1> QED
  BY <1>8, <1>9 DEF QueueRoom

\* Outside a reading by Poll or Wait nothing is asked of the queue.
LEMMA RoomElsewhere ==
  ASSUME pc' \notin {"new", "drained"}, pc' # "scan" \/ op' \notin Polls
  PROVE  QueueRoom'
BY DEF QueueRoom

\* Every step leaves room.
LEMMA RoomStep ==
  ASSUME TypeOK, TypeOK', QueueRoom, [Next]_vars
  PROVE  QueueRoom'
<1> USE DEF vars, envVars, fdVars, nodeVars, openVars, callVars
<1>1. CASE Remove
  BY <1>1, RoomKept DEF Remove, Notify, Kill, Waiting
<1>2. ASSUME NEW k \in Kinds, Plug(k)
      PROVE  QueueRoom'
  BY <1>2, RoomKept DEF Plug, Waiting
<1>3. ASSUME NEW k \in Kinds, Unplug(k)
      PROVE  QueueRoom'
  BY <1>3, RoomKept DEF Unplug, Kill, Waiting
<1>4. ASSUME NEW k \in Kinds, Input(k)
      PROVE  QueueRoom'
  BY <1>4, RoomKept DEF Input, Waiting
<1>5. ASSUME NEW call \in Polls, StartPoll(call)
      PROVE  QueueRoom'
  BY <1>5, RoomElsewhere DEF StartPoll
<1>6. ASSUME NEW ifaces \in SUBSET Kinds, OpenFeatures(ifaces)
      PROVE  QueueRoom'
  BY <1>6, RoomElsewhere DEF OpenFeatures
<1>7. ASSUME NEW f \in Fds, CloseFeature(f)
      PROVE  QueueRoom'
  BY <1>7, RoomElsewhere DEF CloseFeature, Begin, StartScan, Polls
<1>8. CASE ReadFirst
  BY <1>8, RoomElsewhere DEF ReadFirst, StartScan, QueueRoom, Polls
<1>9. CASE Announce
  <2> PICK k \in Kinds :
        /\ left[k] # None /\ left' = [left EXCEPT ![k] = None]
        /\ moreEvents' = moreEvents + 1
        /\ pc = "scan" /\ UNCHANGED <<openVars, callVars, pc>>
    BY <1>9 DEF Announce, First
  <2>1. Waiting' = Waiting \ {k} /\ k \in Waiting /\ Waiting \in SUBSET Kinds
    BY DEF Waiting, TypeOK, NodeMap
  <2>2. Opened' = Opened /\ Opened \in SUBSET Kinds
    BY DEF Opened
  <2>3. Cardinality(Waiting') = Cardinality(Waiting) - 1
    BY <2>1, OneFewer
  <2>4. /\ Cardinality(Waiting) \in Nat /\ moreEvents \in Nat /\ QueueCap \in Nat
        /\ Cardinality(Opened) \in Nat /\ Cardinality(Kinds) \in Nat
    BY <2>1, <2>2, FewFeatures, QueueAssumption DEF TypeOK
  <2> DEFINE c == Cardinality(Opened) * Cardinality(Kinds)
  <2>5. c \in Int
    BY <2>4
  <2>6. op \in Polls => moreEvents + Cardinality(Waiting) + c <= QueueCap
    BY DEF QueueRoom
  <2> HIDE DEF c
  <2>7. op \in Polls => moreEvents' + Cardinality(Waiting') + c <= QueueCap
    BY <2>3, <2>4, <2>5, <2>6
  <2> QED
    BY <2>2, <2>7 DEF QueueRoom, c
<1>10. CASE CloseUnavailable
  <2> PICK k \in Opened : openIfs' = [openIfs EXCEPT ![k] = Closed]
    BY <1>10 DEF CloseUnavailable
  <2>1. Opened' = Opened \ {k} /\ Opened \in SUBSET Kinds /\ Opened' \in SUBSET Kinds
    BY NameAssumption DEF Opened, TypeOK
  <2>2. Waiting = {} /\ Waiting' \in SUBSET Kinds
    BY <1>10 DEF CloseUnavailable, Waiting, Nothing
  <2>3. Cardinality(Waiting) = 0
    BY <2>2, FS_EmptySet
  <2>4. Cardinality(Opened') * Cardinality(Kinds)
          = Cardinality(Opened) * Cardinality(Kinds) - Cardinality(Kinds)
    BY <2>1, OneFewer
  <2>5. /\ Cardinality(Waiting') \in Nat /\ Cardinality(Waiting') <= Cardinality(Kinds)
        /\ Cardinality(Kinds) \in Nat /\ Cardinality(Opened) \in Nat
    BY <2>1, <2>2, FewFeatures
  <2>6. moreEvents \in Nat /\ QueueCap \in Nat
    BY QueueAssumption DEF TypeOK
  <2>7. pc = "scan" /\ pc' = "scan" /\ op' = op /\ moreEvents' = moreEvents
    BY <1>10 DEF CloseUnavailable, StartScan
  <2> DEFINE c == Cardinality(Opened) * Cardinality(Kinds)
             d == Cardinality(Opened') * Cardinality(Kinds)
  <2>8. c \in Int /\ d = c - Cardinality(Kinds)
    BY <2>4, <2>5
  <2>9. op \in Polls => moreEvents + c <= QueueCap
    <3>1. op \in Polls => moreEvents + 0 + c <= QueueCap
      BY <2>3, <2>7 DEF QueueRoom
    <3> HIDE DEF c
    <3> QED
      BY <3>1, <2>6, <2>8
  <2> HIDE DEF c, d
  <2>10. op \in Polls => moreEvents + Cardinality(Waiting') + d <= QueueCap
    BY <2>5, <2>6, <2>8, <2>9
  <2> QED
    BY <2>7, <2>10 DEF QueueRoom, d
<1>11. CASE NodesRead
  BY <1>11, RoomElsewhere DEF NodesRead, Return
<1>12. CASE EnableReceiving
  BY <1>12, RoomElsewhere DEF EnableReceiving, Return
<1>13. CASE OpenNext
  BY <1>13, RoomElsewhere DEF OpenNext
<1>14. CASE OpenDone
  BY <1>14, RoomElsewhere DEF OpenDone, Return
<1>15. CASE Take
  BY <1>15, RoomElsewhere DEF Take, Return
<1>16. ASSUME moreEvents = 0, pc' = "scan", moreEvents' = moreEvents
       PROVE  QueueRoom'
  <2>1. Waiting' \in SUBSET Kinds /\ Opened' \in SUBSET Kinds
    BY DEF Waiting, Opened
  <2>2. Cardinality(Waiting') + Cardinality(Opened') * Cardinality(Kinds) <= QueueCap
    BY <2>1, RoomAtStart
  <2>3. moreEvents' = 0
    BY <1>16
  <2>4. Cardinality(Waiting') \in Nat
    BY <2>1, FewFeatures
  <2>5. 0 + Cardinality(Waiting') = Cardinality(Waiting')
    BY <2>4
  <2> QED
    BY <1>16, <2>2, <2>3, <2>5 DEF QueueRoom
<1>17. CASE NothingRead
  BY <1>17, RoomElsewhere DEF NothingRead, AtEpoll, WouldBlock, Return
<1>18. CASE Await
  BY <1>18, RoomElsewhere DEF Await
<1>19. ASSUME NEW k \in Kinds, ReadInput(k)
      PROVE  QueueRoom'
  BY <1>19, RoomElsewhere DEF ReadInput, Return
<1>20. ASSUME NEW k \in Kinds, ReadFails(k)
      PROVE  QueueRoom'
  BY <1>16, <1>20 DEF ReadFails, AtEpoll, StartScan
<1>21. ASSUME NEW k \in Kinds, Ignore(k)
      PROVE  QueueRoom'
  BY <1>21, RoomElsewhere DEF Ignore, AtEpoll, WouldBlock, Return
<1>22. CASE UNCHANGED vars
  BY <1>22, RoomKept DEF Waiting
<1>23. CASE ReadUmon
  BY <1>23 DEF ReadUmon, AtEpoll, QueueRoom
<1>24. CASE ReadNodes
  BY <1>16, <1>24 DEF ReadNodes, StartScan, QueueRoom
<1>25. ASSUME NEW k \in Kinds, PlugInput(k)
       PROVE  QueueRoom'
  BY <1>25, RoomKept DEF PlugInput, Waiting
<1> QED
  BY <1>1, <1>2, <1>3, <1>4, <1>5, <1>6, <1>7, <1>8, <1>9, <1>10, <1>11, <1>12,
     <1>13, <1>14, <1>15, <1>17, <1>18, <1>19, <1>20, <1>21, <1>22, <1>23, <1>24, <1>25
  DEF Next, Kernel, Call, Step, PollStep

\* Poll and Wait never block on the queue of announcements that only they empty,
\* however the nodes come and go while they read them, if the queue holds the
\* announcements of one hotplug (QueueAssumption; 1024 against 10 features).
THEOREM PollNeverBlocks == Spec => []PollNeverFull
<1>1. Init => QueueRoom
  BY DEF Init, QueueRoom
<1>2. TypeOK /\ QueueRoom => PollNeverFull
  <2> SUFFICES ASSUME TypeOK, QueueRoom, pc = "scan", left # Nothing, op \in Polls
               PROVE  moreEvents < QueueCap
    BY DEF PollNeverFull
  <2>1. PICK k \in Kinds : left[k] # None
    BY DEF TypeOK, NodeMap, Nothing
  <2>2. Waiting \in SUBSET Kinds /\ Waiting # {} /\ Opened \in SUBSET Kinds
    BY <2>1 DEF Waiting, Opened
  <2>3. /\ Cardinality(Waiting) \in Nat /\ Cardinality(Waiting) # 0
        /\ Cardinality(Opened) \in Nat /\ Cardinality(Kinds) \in Nat
    BY <2>2, FewFeatures, FS_EmptySet
  <2> DEFINE c == Cardinality(Opened) * Cardinality(Kinds)
  <2>4. c \in Nat
    BY <2>3
  <2>5. moreEvents + Cardinality(Waiting) + c <= QueueCap
    BY DEF QueueRoom
  <2>6. moreEvents \in Nat /\ QueueCap \in Nat
    BY QueueAssumption DEF TypeOK
  <2> HIDE DEF c
  <2> QED
    BY <2>3, <2>4, <2>5, <2>6
<1>3. TypeOK /\ QueueRoom /\ TypeOK' /\ [Next]_vars => QueueRoom'
  BY RoomStep
<1> QED
  BY <1>1, <1>2, <1>3, TypeCorrect, PTL DEF Spec
=============================================================================
