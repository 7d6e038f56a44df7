--------------------------- MODULE ReliableProofs ---------------------------
(***************************************************************************)
(* What holds of the control channel for buffers and lists of any sizes    *)
(* and every number of ids that ReliableAssumption allows, with any number *)
(* of packets written and under way: it implements Fifo.  The code only    *)
(* compares ids, which come round again; so first what its comparisons say *)
(* of the packets, as long as these are not too far apart; then, as an     *)
(* invariant, that they never are.                                         *)
(***************************************************************************)
EXTENDS Reliable, FiniteSetTheorems, SequenceTheorems, TLAPS

-----------------------------------------------------------------------------
(* Ids. *)

\* There are twice as many ids as Half.
LEMMA IdSpaceIsEven == IdSpace = 2 * Half /\ Half \in Nat \ {0} /\ IdSpace \in Nat \ {0}
  BY ReliableAssumption DEF Half

\* A multiple of m between -m and m is 0.
LEMMA NoMultipleBetween ==
    ASSUME NEW m \in Nat \ {0}, NEW k \in Int, -m < m * k, m * k < m PROVE k = 0
<1>1. CASE k >= 1
  <2>1. m * k >= m  BY <1>1, SMT
  <2> QED  BY <2>1
<1>2. CASE k <= -1
  <2>1. m * k <= -m  BY <1>2, SMT
  <2> QED  BY <2>1
<1> QED  BY <1>1, <1>2

\* The id of a packet is one of the ids.
LEMMA IdRange == \A a \in Int : Id(a) \in 0..(IdSpace - 1)
  BY IdSpaceIsEven DEF Id

\* A packet number is its id and a number of rounds,
LEMMA IdIsRemainder == \A a \in Int : \E k \in Int : a = IdSpace * k + Id(a)
<1> TAKE a \in Int
<1>1. a \div IdSpace \in Int
  BY IdSpaceIsEven, SMT
<1>2. a = IdSpace * (a \div IdSpace) + (a % IdSpace)
  BY IdSpaceIsEven, SMT
<1> QED  BY <1>1, <1>2 DEF Id

\* and has no other such id.
LEMMA IdIsUnique ==
    ASSUME NEW a \in Int, NEW k \in Int, NEW r \in 0..(IdSpace - 1), a = IdSpace * k + r
    PROVE  Id(a) = r
<1>1. PICK j \in Int : a = IdSpace * j + Id(a)
  BY IdIsRemainder
<1>2. Id(a) \in 0..(IdSpace - 1)
  BY IdRange
<1>3. IdSpace * (j - k) = r - Id(a)
  BY <1>1, <1>2, IdSpaceIsEven, SMT
<1>4. j - k = 0
  BY <1>2, <1>3, IdSpaceIsEven, NoMultipleBetween
<1> QED  BY <1>3, <1>4, <1>2, IdSpaceIsEven, SMT

\* Adding to an id is adding to the number, and so is
LEMMA IdOfSum == \A a, b \in Int : Wrapped(Id(a) + b) = Id(a + b)
<1> TAKE a, b \in Int
<1>1. PICK k \in Int : a = IdSpace * k + Id(a)
  BY IdIsRemainder
<1>2. PICK j \in Int : Id(a) + b = IdSpace * j + Id(Id(a) + b)
  BY IdIsRemainder, IdRange
<1>3. a + b = IdSpace * (k + j) + Id(Id(a) + b)
  BY <1>1, <1>2, IdRange, IdSpaceIsEven, SMT
<1>4. Id(Id(a) + b) \in 0..(IdSpace - 1)
  BY IdRange
<1>5. Id(a + b) = Id(Id(a) + b)
  BY <1>3, <1>4, IdIsUnique
<1> QED  BY <1>5 DEF Id, Wrapped

\* taking the difference of two ids.
LEMMA IdOfDifference == \A a, b \in Int : Wrapped(Id(a) - Id(b)) = Id(a - b)
<1> TAKE a, b \in Int
<1>1. PICK k \in Int : b = IdSpace * k + Id(b)
  BY IdIsRemainder
<1>2. PICK j \in Int : a - Id(b) = IdSpace * j + Id(a - Id(b))
  BY IdIsRemainder, IdRange
<1>3. a - b = IdSpace * (j - k) + Id(a - Id(b))
  BY <1>1, <1>2, IdRange, IdSpaceIsEven, SMT
<1>4. Id(a - b) = Id(a - Id(b))
  BY <1>3, IdRange, IdIsUnique
<1>5. Wrapped(Id(a) + (- Id(b))) = Id(a + (- Id(b)))
  BY IdOfSum, IdRange
<1> QED  BY <1>4, <1>5, IdRange

\* Near 0 the id of a number is the number, or the number from one round before.
LEMMA IdNearZero ==
    ASSUME NEW a \in Int
    PROVE  /\ a \in 0..(IdSpace - 1) => Id(a) = a
           /\ a \in (-IdSpace)..(-1) => Id(a) = a + IdSpace
<1>1. CASE a \in 0..(IdSpace - 1)
  <2>1. a = IdSpace * 0 + a
    BY IdSpaceIsEven
  <2>2. Id(a) = a
    BY <1>1, <2>1, IdIsUnique
  <2> QED  BY <1>1, <2>2, IdSpaceIsEven
<1>2. CASE a \in (-IdSpace)..(-1)
  <2>1. a = IdSpace * (-1) + (a + IdSpace) /\ a + IdSpace \in 0..(IdSpace - 1)
    BY <1>2, IdSpaceIsEven
  <2>2. Id(a) = a + IdSpace
    BY <2>1, IdIsUnique
  <2> QED  BY <1>2, <2>2, IdSpaceIsEven
<1> QED  BY <1>1, <1>2

\* Same in the round after the first.
LEMMA IdInNextRound ==
    ASSUME NEW y \in IdSpace..(2 * IdSpace - 1) PROVE Id(y) = y - IdSpace
<1>1. PICK k \in Int : k = 1
  OBVIOUS
<1>2. y = IdSpace * k + (y - IdSpace)
  BY <1>1, IdSpaceIsEven
<1>3. y \in Int /\ y - IdSpace \in 0..(IdSpace - 1)
  BY IdSpaceIsEven
<1> QED  BY <1>2, <1>3, IdIsUnique

\* Within one round no two packets have the same id.
LEMMA IdTellsApart ==
    ASSUME NEW a \in Int, NEW b \in Int, Id(a) = Id(b), a - b < IdSpace, b - a < IdSpace
    PROVE  a = b
<1>1. Id(a - b) = 0
  <2>1. Wrapped(Id(a) - Id(b)) = Id(a - b)
    BY IdOfDifference
  <2>2. Id(a) - Id(b) = 0
    BY IdRange
  <2>3. Id(0) = 0
    BY IdNearZero, IdSpaceIsEven
  <2> QED  BY <2>1, <2>2, <2>3 DEF Wrapped, Id
<1>2. a - b \in 0..(IdSpace - 1) \/ a - b \in (-IdSpace)..(-1)
  BY IdSpaceIsEven
<1> QED  BY <1>1, <1>2, IdNearZero, IdSpaceIsEven

\* reliable_pid_in_range1 measures the distance forward.
LEMMA InRange1IsDistance ==
    ASSUME NEW a \in Int, NEW b \in Int, NEW e \in Int, a - b \in 0..(IdSpace - 1)
    PROVE  InRange1(Id(a), Id(b), e) <=> a - b < e
<1>1. Wrapped(Id(a) - Id(b)) = a - b
  BY IdOfDifference, IdNearZero
<1> QED  BY <1>1 DEF InRange1

\* reliable_pid_min is the order of packets less than half a round apart.
LEMMA PidMinIsOrder ==
    ASSUME NEW a \in Int, NEW b \in Int, -Half <= a - b, a - b < Half
    PROVE  PidMin(Id(a), Id(b)) <=> a < b
<1>1. CASE a >= b
  BY <1>1, InRange1IsDistance, IdSpaceIsEven DEF PidMin
<1>2. CASE a < b
  <2>1. Wrapped(Id(a) - Id(b)) = a - b + IdSpace
    BY <1>2, IdOfDifference, IdNearZero, IdSpaceIsEven
  <2> QED  BY <1>2, <2>1, IdSpaceIsEven DEF PidMin, InRange1
<1> QED  BY <1>1, <1>2

\* reliable_pid_in_range2 takes the ids of a whole window, across the wrap too, ...
LEMMA WindowIsTaken ==
    ASSUME NEW b \in Nat, NEW n \in Nat, b <= n, n < b + NRec
    PROVE  InRange2(Id(n), Id(b), NRec)
<1> DEFINE x == Id(b)
           d == n - b
<1> USE ReliableAssumption, IdSpaceIsEven
<1>1. x \in 0..(IdSpace - 1) /\ d \in 0..(NRec - 1) /\ NRec \in 1..Half
  BY IdRange
<1>2. Id(n) = Wrapped(x + d)
  BY IdOfSum
<1>3. ASSUME NEW y \in 0..(IdSpace - 1) PROVE Wrapped(y) = y
  BY IdNearZero DEF Wrapped, Id
<1>4. ASSUME NEW y \in IdSpace..(2 * IdSpace - 1) PROVE Wrapped(y) = y - IdSpace
  BY IdInNextRound DEF Wrapped, Id
<1>5. CASE x + NRec < IdSpace
  <2>1. Id(n) = x + d /\ Wrapped(x + NRec) = x + NRec
    BY <1>1, <1>2, <1>3, <1>5
  <2> QED  BY <1>1, <2>1 DEF InRange2
<1>6. CASE x + NRec >= IdSpace
  <2>1. Wrapped(x + NRec) = x + NRec - IdSpace
    BY <1>1, <1>4, <1>6
  <2>2. Wrapped(x + Half + NRec) = x + NRec - Half
    BY <1>1, <1>4, <1>6
  <2>3. Wrapped(Id(n) + Half) = x + d - Half
    <3>1. Wrapped(Id(n) + Half) = Id(n + Half)
      BY IdOfSum
    <3>2. Id(n + Half) = Wrapped(x + (d + Half))
      BY IdOfSum, <1>1
    <3>3. x + (d + Half) \in IdSpace..(2 * IdSpace - 1)
      BY <1>1, <1>6
    <3> QED  BY <3>1, <3>2, <3>3, <1>1, <1>4
  <2> QED  BY <1>1, <2>1, <2>2, <2>3 DEF InRange2
<1> QED  BY <1>1, <1>5, <1>6

\* ... and refuses the first one after it.
LEMMA EdgeIsRefused ==
    ASSUME NEW b \in Nat PROVE ~ InRange2(Id(b + NRec), Id(b), NRec)
<1> DEFINE x == Id(b)
<1> USE ReliableAssumption, IdSpaceIsEven
<1>1. x \in 0..(IdSpace - 1) /\ NRec \in 1..Half
  BY IdRange
<1>2. Id(b + NRec) = Wrapped(x + NRec)
  BY IdOfSum
<1>3. CASE Wrapped(x + NRec) >= x
  <2>1. x + NRec < IdSpace
    <3>1. SUFFICES ASSUME x + NRec >= IdSpace PROVE FALSE
      BY <1>1
    <3>2. Id(x + NRec) = x + NRec - IdSpace
      BY <1>1, <3>1, IdInNextRound
    <3> QED  BY <1>1, <1>3, <3>2 DEF Wrapped, Id
  <2>2. Wrapped(x + NRec) = x + NRec
    BY <1>1, <2>1, IdNearZero DEF Wrapped, Id
  <2> QED  BY <1>1, <1>2, <1>3, <2>2 DEF InRange2
<1>4. CASE Wrapped(x + NRec) < x
  <2>1. Wrapped(Id(b + NRec) + Half) = Id(b + NRec + Half)
    BY IdOfSum
  <2>2. Wrapped(Id(b) + (Half + NRec)) = Id(b + (Half + NRec))
    BY IdOfSum
  <2>3. b + NRec + Half = b + (Half + NRec) /\ x + Half + NRec = x + (Half + NRec)
    BY <1>1
  <2> QED  BY <1>1, <1>2, <1>4, <2>1, <2>2, <2>3, IdRange DEF InRange2
<1> QED  BY <1>1, <1>3, <1>4, IdRange DEF Wrapped, Id

-----------------------------------------------------------------------------
(* The invariant. *)

Received(p, n) == n < got[p] \/ n \in recBuf[p]

\* The packet ids of the structures are those of the packets counted.
IdsCount ==
    \A p \in Ends : nextOut[p] = Id(sent[p]) /\ nextIn[p] = Id(got[p])

\* A send buffer reaches back no further than its size, a receive buffer holds what
\* was written and not read.
BuffersFit ==
    \A p \in Ends :
        /\ IsFiniteSet(sendBuf[p]) /\ IsFiniteSet(recBuf[p])
        /\ \A n \in sendBuf[p] : n < sent[p] /\ sent[p] <= n + NSend
        /\ \A n \in recBuf[p] : got[p] <= n /\ n < sent[Other(p)]
        /\ got[p] <= sent[Other(p)]

\* What is in the network is not older than half of the ids.
DataIsRecent ==
    \A k \in net : k.data # NoData =>
        k.data < sent[k.from] /\ sent[k.from] <= k.data + Half

\* What is or will be acknowledged was received, and an acknowledgement under way
\* is not older than all of the ids.
AcksAreTrue ==
    /\ \A p \in Ends : \A i \in DOMAIN ackList[p] : Received(p, ackList[p][i])
    /\ \A k \in net : \A i \in DOMAIN k.acks :
          Received(k.from, k.acks[i]) /\ sent[Other(k.from)] <= k.acks[i] + IdSpace

\* Nothing that was acknowledged, or will be sooner, is half of the ids ahead of what
\* waits to be acknowledged.
AcksInOrder ==
    \A p \in Ends : \A i \in DOMAIN ackList[p] :
        LET late == ackList[p][i] + Half
        IN  /\ \A n \in 0..(sent[Other(p)] - 1) : n \in sendBuf[Other(p)] \/ n < late
            /\ \A k \in net : k.from = p => \A j \in DOMAIN k.acks : k.acks[j] < late
            /\ \A j \in 1..(i - 1) : ackList[p][j] < late

ReliableInv ==
    /\ ReliableTypeOK /\ IdsCount /\ BuffersFit /\ PurgedWasReceived
    /\ DataIsRecent /\ AcksAreTrue /\ AcksInOrder

-----------------------------------------------------------------------------
(* What follows from it in a state. *)

\* There are two ends, each the other of the other.
LEMMA TwoEnds ==
    \A p \in Ends : /\ Other(p) \in Ends /\ Other(p) # p /\ Other(Other(p)) = p
                    /\ \A r \in Ends : r = p \/ r = Other(p)
<1>1. PICK a, b \in Ends : a # b /\ Ends = {a, b}
  BY ReliableAssumption
<1>2. \A p \in Ends : \E q \in Ends : q # p
  BY <1>1
<1>3. \A p \in Ends : Other(p) \in Ends /\ Other(p) # p
  BY <1>2 DEF Other
<1> QED  BY <1>1, <1>3

\* The sizes are numbers, and two windows are no more than the ids.
LEMMA Sizes ==
    /\ NSend \in Nat \ {0} /\ NRec \in Nat /\ NSend <= NRec /\ NRec <= Half
    /\ Half \in Nat \ {0} /\ IdSpace = 2 * Half
    /\ AckMax \in Nat \ {0} /\ AckSize \in Nat /\ AckMax <= AckSize
  BY ReliableAssumption, IdSpaceIsEven

\* The types of the parts, one by one.
LEMMA StateTypes ==
    ASSUME ReliableTypeOK, BuffersFit, NEW p \in Ends
    PROVE  /\ sendBuf[p] \in SUBSET Nat /\ recBuf[p] \in SUBSET Nat
           /\ sent[p] \in Nat /\ got[p] \in Nat
           /\ ackList[p] \in Seq(Nat) /\ Len(ackList[p]) \in 0..AckSize
           /\ Cardinality(sendBuf[p]) \in 0..NSend
           /\ Cardinality(recBuf[p]) \in 0..NRec
<1>1. Cardinality(sendBuf[p]) \in Nat /\ Cardinality(recBuf[p]) \in Nat
  BY FS_CardinalityType DEF BuffersFit
<1>2. sendBuf[p] \in SUBSET Nat /\ recBuf[p] \in SUBSET Nat /\ sent[p] \in Nat /\ got[p] \in Nat
  BY DEF ReliableTypeOK
<1>3. ackList[p] \in Seq(Nat)
  BY DEF ReliableTypeOK
<1>4. Len(ackList[p]) \in Nat
  BY <1>3
<1> QED  BY <1>1, <1>2, <1>3, <1>4, Sizes DEF ReliableTypeOK

\* Whatever is missing is within a send buffer of the end of what was written.
LEMMA SentIsWithinReach ==
    ASSUME ReliableTypeOK, BuffersFit, PurgedWasReceived, NEW p \in Ends
    PROVE  sent[Other(p)] <= got[p] + Cardinality(recBuf[p]) + NSend
<1> DEFINE q == Other(p)
           c == Cardinality(recBuf[p])
           g == got[p]
<1>1. q \in Ends /\ Other(q) = p
  BY TwoEnds
<1>2. c \in Nat /\ g \in Nat /\ sent[q] \in Nat /\ NSend \in Nat
  BY <1>1, StateTypes, Sizes
<1>3. SUFFICES ASSUME sent[q] > g + c + NSend PROVE FALSE
  BY <1>2
<1>4. ASSUME NEW n \in g..(g + c) PROVE n \in recBuf[p]
  <2>1. n \in 0..(sent[q] - 1) /\ ~ (sent[q] <= n + NSend)
    BY <1>2, <1>3
  <2>2. n \notin sendBuf[q]
    BY <1>1, <2>1 DEF BuffersFit
  <2>3. n < got[Other(q)] \/ n \in recBuf[Other(q)]
    BY <1>1, <2>1, <2>2 DEF PurgedWasReceived
  <2> QED  BY <1>1, <1>2, <2>3
<1>5. g..(g + c) \in SUBSET recBuf[p]
  BY <1>4
<1>6. Cardinality(g..(g + c)) <= c
  BY <1>5, FS_Subset DEF BuffersFit
<1>7. Cardinality(g..(g + c)) = c + 1
  <2>1. g \in Int /\ g + c \in Int
    BY <1>2
  <2>2. Cardinality(g..(g + c)) = IF g > g + c THEN 0 ELSE (g + c) - g + 1
    BY <2>1, FS_Interval, Zenon
  <2> QED  BY <1>2, <2>2
<1> QED  BY <1>2, <1>6, <1>7

\* OutputSequenced keeps room for one more within the window of a send buffer.
LEMMA OutputFits ==
    ASSUME ReliableTypeOK, IdsCount, BuffersFit, NEW p \in Ends, OutputSequenced(p),
           NEW n \in sendBuf[p]
    PROVE  sent[p] + 1 <= n + NSend
<1>1. n \in Nat /\ sent[p] \in Nat /\ n < sent[p] /\ sent[p] <= n + NSend
  BY StateTypes DEF BuffersFit
<1>2. SUFFICES ASSUME sent[p] = n + NSend PROVE FALSE
  BY <1>1, Sizes
<1>3. ASSUME NEW m \in sendBuf[p], m # n PROVE PidMin(Id(n), Id(m))
  <2>1. m \in Nat /\ m < sent[p] /\ sent[p] <= m + NSend
    BY StateTypes DEF BuffersFit
  <2>2. n < m /\ -Half <= n - m /\ n - m < Half
    BY <1>1, <1>2, <1>3, <2>1, Sizes
  <2> QED  BY <1>1, <2>1, <2>2, PidMinIsOrder
<1>4. InRange1(Id(sent[p]), Id(n), NSend)
  BY <1>3 DEF OutputSequenced, IdsCount
<1>5. sent[p] - n \in 0..(IdSpace - 1)
  BY <1>1, Sizes
<1>6. sent[p] - n < NSend
  BY <1>1, <1>4, <1>5, Sizes, InRange1IsDistance
<1> QED  BY <1>1, <1>2, <1>6, Sizes

\* The packet whose turn it is by its id is the next that was written.
LEMMA TurnIsNext ==
    ASSUME ReliableTypeOK, IdsCount, BuffersFit, PurgedWasReceived, NEW p \in Ends,
           NEW n \in recBuf[p], Id(n) = nextIn[p]
    PROVE  n = got[p]
<1>1. /\ n \in Nat /\ got[p] \in Nat /\ sent[Other(p)] \in Nat /\ got[p] <= n
      /\ n < sent[Other(p)]
  BY StateTypes, TwoEnds DEF BuffersFit
<1>2. sent[Other(p)] <= got[p] + NRec + NSend
  BY <1>1, SentIsWithinReach, StateTypes, Sizes
<1>3. n - got[p] < IdSpace /\ got[p] - n < IdSpace
  BY <1>1, <1>2, Sizes
<1>4. Id(n) = Id(got[p])
  BY DEF IdsCount
<1> QED  BY <1>1, <1>3, <1>4, IdTellsApart

\* What a packet brings is older than half of the ids at most, so that an end takes
\* for a replay what it had, and for new what it had not.
LEMMA ReplayWasReceived ==
    ASSUME ReliableTypeOK, IdsCount, BuffersFit, PurgedWasReceived, DataIsRecent,
           NEW p \in Ends, NEW k \in net, k.from = Other(p), k.data # NoData,
           CanGet(p), WontBreakSequentiality(p, Id(k.data))
    PROVE  /\ NotReplay(p, Id(k.data)) => got[p] <= k.data
           /\ ~NotReplay(p, Id(k.data)) => Received(p, k.data)
<1> DEFINE n == k.data
           g == got[p]
           top == sent[Other(p)]
<1>1. n \in Nat /\ g \in Nat /\ top \in Nat
  BY StateTypes, TwoEnds DEF ReliableTypeOK
<1>2. n < top /\ top <= n + Half /\ g <= top
  BY DEF DataIsRecent, BuffersFit
<1>3. nextIn[p] = Id(g)
  BY DEF IdsCount
<1>4. top <= g + NRec - 1 + NSend
  BY <1>1, SentIsWithinReach, StateTypes, Sizes DEF CanGet
<1>5. n # g + NRec
  BY <1>1, <1>3, EdgeIsRefused DEF WontBreakSequentiality
<1>6. n - g < Half /\ -Half <= n - g
  BY <1>1, <1>2, <1>4, <1>5, Sizes, ReliableAssumption
<1>7. PidMin(Id(n), nextIn[p]) <=> n < g
  BY <1>1, <1>3, <1>6, PidMinIsOrder
<1>8. ASSUME NEW m \in recBuf[p], Id(m) = Id(n), g <= n PROVE m = n
  <2>1. m \in Nat /\ g <= m /\ m < top
    BY StateTypes DEF BuffersFit
  <2>2. m - n < IdSpace /\ n - m < IdSpace
    BY <1>1, <1>2, <1>4, <2>1, <1>8, Sizes
  <2> QED  BY <1>1, <1>8, <2>1, <2>2, IdTellsApart
<1> QED  BY <1>1, <1>7, <1>8 DEF NotReplay, Received

\* An acknowledgement names the one packet of the send buffer that was received.
LEMMA AckNamesItself ==
    ASSUME ReliableTypeOK, BuffersFit, AcksAreTrue, NEW p \in Ends, NEW k \in net,
           k.from = Other(p), NEW i \in DOMAIN k.acks, NEW m \in sendBuf[p],
           Id(k.acks[i]) = Id(m)
    PROVE  m = k.acks[i] /\ Received(Other(p), m)
<1> DEFINE x == k.acks[i]
           q == Other(p)
<1>1. q \in Ends /\ Other(q) = p
  BY TwoEnds
<1>2. k.acks \in Seq(Nat)
  BY DEF ReliableTypeOK
<1>3. x \in Nat
  BY <1>2
<1>4. Received(q, x) /\ sent[p] <= x + IdSpace
  BY <1>1 DEF AcksAreTrue
<1>5. x < sent[p]
  BY <1>1, <1>3, <1>4, StateTypes DEF Received, BuffersFit
<1>6. m \in Nat /\ sent[p] \in Nat /\ m < sent[p] /\ sent[p] <= m + NSend
  BY StateTypes DEF BuffersFit
<1>7. m - x < IdSpace /\ x - m < IdSpace
  BY <1>3, <1>4, <1>5, <1>6, Sizes
<1>8. m = x
  BY <1>3, <1>6, <1>7, IdTellsApart
<1> QED  BY <1>4, <1>8

\* An acknowledgement goes out before its id is in use again.
LEMMA AckIsRecent ==
    ASSUME ReliableTypeOK, BuffersFit, AcksAreTrue, AcksInOrder, NEW p \in Ends,
           NEW i \in DOMAIN ackList[p]
    PROVE  sent[Other(p)] <= ackList[p][i] + IdSpace
<1> DEFINE q == Other(p)
           x == ackList[p][i]
           n == sent[q] - NSend - 1
<1>1. q \in Ends /\ sent[q] \in Nat /\ x \in Nat
  BY TwoEnds, StateTypes
<1>2. CASE n >= 0
  <2>1. n \in 0..(sent[q] - 1) /\ n \in Int /\ ~ (sent[q] <= n + NSend)
    BY <1>1, <1>2, Sizes
  <2>2. n \notin sendBuf[q]
    BY <1>1, <2>1 DEF BuffersFit
  <2>3. n < x + Half
    BY <2>1, <2>2 DEF AcksInOrder
  <2> QED  BY <1>1, <2>1, <2>3, Sizes
<1>3. CASE n < 0
  BY <1>1, <1>3, Sizes
<1> QED  BY <1>1, <1>2, <1>3, Sizes

\* reliable_ack_write cuts the list in two.
LEMMA AcksSplit ==
    ASSUME ReliableTypeOK, BuffersFit, NEW p \in Ends, NEW max \in Nat
    PROVE  /\ Written(p, max) \in Seq(Nat) /\ Unwritten(p, max) \in Seq(Nat)
           /\ Len(Written(p, max)) \in 0..Len(ackList[p])
           /\ Len(Unwritten(p, max)) = Len(ackList[p]) - Len(Written(p, max))
           /\ \A i \in 1..Len(Written(p, max)) : Written(p, max)[i] = ackList[p][i]
           /\ \A i \in 1..Len(Unwritten(p, max)) :
                 Unwritten(p, max)[i] = ackList[p][i + Len(Written(p, max))]
<1> DEFINE s == ackList[p]
           e == IF Len(s) < max THEN Len(s) ELSE max
           w == Len(Written(p, max))
<1>1. s \in Seq(Nat) /\ Len(s) \in Nat /\ e \in 0..Len(s)
  BY StateTypes
<1>2. \A i \in 1..Len(s) : s[i] \in Nat
  BY <1>1
<1>3. /\ Written(p, max) \in Seq(Nat) /\ w = e
      /\ \A i \in 1..e : Written(p, max)[i] = s[i]
  <2>1. /\ SubSeq(s, 1, e) \in Seq(Nat)
        /\ Len(SubSeq(s, 1, e)) = IF 1 <= e THEN e - 1 + 1 ELSE 0
        /\ \A i \in 1..(e - 1 + 1) : SubSeq(s, 1, e)[i] = s[1 + i - 1]
    <3>1. 1 \in Int /\ e \in Int /\ \A i \in 1..e : s[i] \in Nat
      BY <1>1, <1>2
    <3> HIDE DEF s, e
    <3> QED  BY <3>1, SubSeqProperties
  <2> QED  BY <1>1, <2>1 DEF Written
<1>4. /\ Unwritten(p, max) \in Seq(Nat) /\ Len(Unwritten(p, max)) = Len(s) - e
      /\ \A i \in 1..(Len(s) - e) : Unwritten(p, max)[i] = s[i + e]
  <2> DEFINE l == Len(s)
  <2>1. /\ SubSeq(s, e + 1, l) \in Seq(Nat)
        /\ Len(SubSeq(s, e + 1, l)) = IF e + 1 <= l THEN l - (e + 1) + 1 ELSE 0
        /\ \A i \in 1..(l - (e + 1) + 1) : SubSeq(s, e + 1, l)[i] = s[e + 1 + i - 1]
    <3>1. e + 1 \in Int /\ l \in Int /\ \A i \in (e + 1)..l : s[i] \in Nat
      BY <1>1, <1>2
    <3> HIDE DEF s, e, l
    <3> QED  BY <3>1, SubSeqProperties
  <2>2. Unwritten(p, max) = SubSeq(s, e + 1, l)
    BY <1>3 DEF Unwritten
  <2>3. \A i \in 1..(l - e) : i \in 1..(l - (e + 1) + 1) /\ e + 1 + i - 1 = i + e
    BY <1>1
  <2>4. l \in Nat /\ e \in 0..l
    BY <1>1
  <2> HIDE DEF s, e, l
  <2>5. \A i \in 1..(l - e) : Unwritten(p, max)[i] = s[i + e]
    BY <2>1, <2>2, <2>3
  <2>6. Unwritten(p, max) \in Seq(Nat) /\ Len(Unwritten(p, max)) = l - e
    BY <2>1, <2>2, <2>4
  <2> QED  BY <2>5, <2>6 DEF l
<1> QED  BY <1>1, <1>3, <1>4

-----------------------------------------------------------------------------
(* Every step keeps it. *)

\* Nothing is written or under way at first.
LEMMA ReliableInitInv == ReliableInit => ReliableInv
<1> SUFFICES ASSUME ReliableInit PROVE ReliableInv
  OBVIOUS
<1> USE DEF ReliableInit
<1>1. IsFiniteSet({}) /\ Cardinality({}) = 0
  BY FS_EmptySet
<1>2. ReliableTypeOK
  BY <1>1, Sizes DEF ReliableTypeOK
<1>3. IdsCount
  BY IdNearZero, Sizes DEF IdsCount
<1>4. BuffersFit
  BY <1>1, TwoEnds DEF BuffersFit
<1>5. PurgedWasReceived /\ DataIsRecent /\ AcksAreTrue /\ AcksInOrder
  BY DEF PurgedWasReceived, DataIsRecent, AcksAreTrue, AcksInOrder
<1> QED  BY <1>2, <1>3, <1>4, <1>5 DEF ReliableInv

\* A packet is written: the window of the send buffer moves on.
LEMMA WriteStep ==
    ASSUME ReliableInv, NEW p \in Ends, WriteCiphertext(p) PROVE ReliableInv'
<1> USE DEF ReliableInv
<1> DEFINE s == sent[p]
<1>1. /\ sendBuf' = [sendBuf EXCEPT ![p] = @ \cup {s}]
      /\ nextOut' = [nextOut EXCEPT ![p] = Wrapped(@ + 1)]
      /\ sent' = [sent EXCEPT ![p] = @ + 1]
      /\ net' = Fresh(net, p)
      /\ UNCHANGED <<recBuf, nextIn, ackList, started, heard, got>>
      /\ OutputSequenced(p)
  BY DEF WriteCiphertext
<1>2. /\ sendBuf'[p] = sendBuf[p] \cup {s} /\ sent'[p] = s + 1
      /\ nextOut'[p] = Wrapped(nextOut[p] + 1)
      /\ \A r \in Ends : r # p => /\ sendBuf'[r] = sendBuf[r] /\ sent'[r] = sent[r]
                                  /\ nextOut'[r] = nextOut[r]
  BY <1>1 DEF ReliableTypeOK
<1>3. s \in Nat /\ s + 1 \in Nat
  BY StateTypes
<1>4. /\ net' \in SUBSET net
      /\ \A k \in net' : /\ k.from = p => k.data + Half > s
                         /\ k.from # p => \A i \in DOMAIN k.acks : k.acks[i] + Half > s
  BY <1>1 DEF Fresh
<1>5. \A r \in Ends : sent[r] \in Nat /\ sent'[r] \in Nat /\ sent[r] <= sent'[r]
  BY <1>2, <1>3, StateTypes
<1>6. IsFiniteSet(sendBuf'[p]) /\ Cardinality(sendBuf'[p]) <= NSend
  <2>1. IsFiniteSet(sendBuf[p]) /\ Cardinality(sendBuf[p]) \in Nat
    BY StateTypes DEF BuffersFit
  <2>2. Cardinality(sendBuf[p]) < NSend
    BY <1>1 DEF OutputSequenced
  <2>3. /\ IsFiniteSet(sendBuf[p] \cup {s})
        /\ Cardinality(sendBuf[p] \cup {s})
              = IF s \in sendBuf[p] THEN Cardinality(sendBuf[p]) ELSE Cardinality(sendBuf[p]) + 1
    BY <2>1, FS_AddElement
  <2> QED  BY <1>2, <2>1, <2>2, <2>3, Sizes
<1>7. ReliableTypeOK'
  <2>1. nextOut' \in [Ends -> 0..(IdSpace - 1)]
    <3>1. nextOut[p] + 1 \in Int
      BY Sizes DEF ReliableTypeOK
    <3>2. Wrapped(nextOut[p] + 1) \in 0..(IdSpace - 1)
      BY <3>1, IdRange DEF Wrapped, Id
    <3> QED  BY <1>1, <3>2 DEF ReliableTypeOK
  <2>2. sendBuf' \in [Ends -> SUBSET Nat] /\ sent' \in [Ends -> Nat]
    BY <1>1, <1>3 DEF ReliableTypeOK
  <2>3. \A r \in Ends : Cardinality(sendBuf'[r]) <= NSend
    BY <1>2, <1>6 DEF ReliableTypeOK
  <2> QED  BY <1>1, <1>4, <2>1, <2>2, <2>3 DEF ReliableTypeOK
<1>8. IdsCount'
  <2>1. nextOut'[p] = Id(s + 1)
    <3>1. nextOut'[p] = Wrapped(Id(s) + 1)
      BY <1>2 DEF IdsCount
    <3>2. s \in Int /\ 1 \in Int
      BY <1>3
    <3>3. Wrapped(Id(s) + 1) = Id(s + 1)
      BY <3>2, IdOfSum, Zenon
    <3> QED  BY <3>1, <3>3
  <2> QED  BY <1>1, <1>2, <2>1 DEF IdsCount
<1>9. BuffersFit'
  <2>1. \A n \in sendBuf'[p] : n < sent'[p] /\ sent'[p] <= n + NSend
    <3>1. \A n \in sendBuf[p] : n \in Nat /\ n < s /\ s + 1 <= n + NSend
      BY <1>1, OutputFits, StateTypes DEF BuffersFit
    <3> QED  BY <1>2, <1>3, <3>1, Sizes
  <2>2. \A r \in Ends : \A n \in sendBuf'[r] : n < sent'[r] /\ sent'[r] <= n + NSend
    BY <1>2, <2>1 DEF BuffersFit
  <2>3. \A r \in Ends : IsFiniteSet(sendBuf'[r]) /\ IsFiniteSet(recBuf'[r])
    BY <1>1, <1>2, <1>6 DEF BuffersFit
  <2>4. ASSUME NEW r \in Ends
        PROVE  /\ \A n \in recBuf'[r] : got'[r] <= n /\ n < sent'[Other(r)]
               /\ got'[r] <= sent'[Other(r)]
    <3>1. Other(r) \in Ends /\ sent[Other(r)] <= sent'[Other(r)]
      BY <1>5, TwoEnds
    <3> QED  BY <1>1, <1>5, <3>1, StateTypes DEF BuffersFit
  <2> QED  BY <2>2, <2>3, <2>4 DEF BuffersFit
<1>10. PurgedWasReceived'
  <2> SUFFICES ASSUME NEW r \in Ends, NEW n \in 0..(sent'[r] - 1), n \notin sendBuf'[r]
               PROVE  n < got[Other(r)] \/ n \in recBuf[Other(r)]
    BY <1>1 DEF PurgedWasReceived
  <2>1. n \in 0..(sent[r] - 1) /\ n \notin sendBuf[r]
    BY <1>2, <1>3, <1>5
  <2> QED  BY <2>1 DEF PurgedWasReceived
<1>11. DataIsRecent'
  <2> SUFFICES ASSUME NEW k \in net', k.data # NoData
               PROVE  k.data < sent'[k.from] /\ sent'[k.from] <= k.data + Half
    BY DEF DataIsRecent
  <2>1. k.from \in Ends /\ k.data \in Nat /\ k.data < sent[k.from] /\ sent[k.from] <= k.data + Half
    BY <1>4 DEF DataIsRecent, ReliableTypeOK
  <2> QED  BY <1>2, <1>3, <1>4, <1>5, <2>1, Sizes
<1>12. AcksAreTrue'
  <2>1. \A r, n : Received(r, n)' <=> Received(r, n)
    BY <1>1 DEF Received
  <2>2. ASSUME NEW k \in net', NEW i \in DOMAIN k.acks
        PROVE  sent'[Other(k.from)] <= k.acks[i] + IdSpace
    <3>1. k \in net /\ k.from \in Ends /\ k.acks[i] \in Nat
      BY <1>4, SMTT(30) DEF ReliableTypeOK
    <3>2. sent[Other(k.from)] <= k.acks[i] + IdSpace
      BY <3>1 DEF AcksAreTrue
    <3>3. CASE k.from = p
      BY <1>2, <3>2, <3>3, TwoEnds
    <3>4. CASE k.from # p
      <4>1. Other(k.from) = p /\ k.acks[i] + Half > s
        BY <1>4, <3>1, <3>4, TwoEnds
      <4> QED  BY <1>2, <1>3, <3>1, <4>1, Sizes
    <3> QED  BY <3>3, <3>4
  <2>3. \A r \in Ends : \A i \in DOMAIN ackList'[r] : Received(r, ackList'[r][i])
    BY <1>1 DEF AcksAreTrue
  <2>4. \A k \in net' : \A i \in DOMAIN k.acks : Received(k.from, k.acks[i])
    BY <1>4 DEF AcksAreTrue
  <2> QED  BY <2>1, <2>2, <2>3, <2>4 DEF AcksAreTrue
<1>13. AcksInOrder'
  <2> SUFFICES ASSUME NEW r \in Ends, NEW i \in DOMAIN ackList[r]
               PROVE  LET late == ackList[r][i] + Half
                      IN  /\ \A n \in 0..(sent'[Other(r)] - 1) :
                                n \in sendBuf'[Other(r)] \/ n < late
                          /\ \A k \in net' : k.from = r =>
                                \A j \in DOMAIN k.acks : k.acks[j] < late
                          /\ \A j \in 1..(i - 1) : ackList[r][j] < late
    BY <1>1 DEF AcksInOrder
  <2>1. \A n \in 0..(sent'[Other(r)] - 1) : n \in sendBuf'[Other(r)] \/ n \in 0..(sent[Other(r)] - 1)
    BY <1>2, <1>3, <1>5, TwoEnds
  <2>2. \A n \in sendBuf[Other(r)] : n \in sendBuf'[Other(r)]
    BY <1>2, TwoEnds
  <2> QED  BY <1>4, <2>1, <2>2 DEF AcksInOrder
<1> QED  BY <1>7, <1>8, <1>9, <1>10, <1>11, <1>12, <1>13

\* Both ways of sending: a packet, or none, behind the first ids of the list.
LEMMA SendStep ==
    ASSUME ReliableInv, NEW p \in Ends, NEW max \in Nat, NEW d \in sendBuf[p] \cup {NoData},
           net' = net \cup {Packet(p, d, Written(p, max))},
           ackList' = [ackList EXCEPT ![p] = Unwritten(p, max)],
           UNCHANGED <<sendBuf, nextOut, recBuf, nextIn, started, heard, sent, got>>
    PROVE  ReliableInv'
<1> USE DEF ReliableInv
<1> DEFINE k0 == Packet(p, d, Written(p, max))
           s == ackList[p]
           w == Len(Written(p, max))
           u == Unwritten(p, max)
<1>1. /\ Written(p, max) \in Seq(Nat) /\ u \in Seq(Nat) /\ w \in 0..Len(s)
      /\ Len(u) = Len(s) - w
      /\ \A i \in 1..w : Written(p, max)[i] = s[i]
      /\ \A i \in 1..Len(u) : u[i] = s[i + w]
  BY AcksSplit
<1>2. k0.from = p /\ k0.data = d /\ k0.acks = Written(p, max) /\ DOMAIN k0.acks = 1..w
  BY <1>1 DEF Packet
<1>3. s \in Seq(Nat) /\ Len(s) \in 0..AckSize /\ DOMAIN s = 1..Len(s) /\ DOMAIN u = 1..Len(u)
  BY <1>1, StateTypes
<1>4. ackList'[p] = u /\ \A r \in Ends : r # p => ackList'[r] = ackList[r]
  BY DEF ReliableTypeOK
<1>7. \A r, n : Received(r, n)' <=> Received(r, n)
  BY DEF Received
<1> HIDE DEF k0, s, w, u
<1>14. w \in Nat /\ Len(s) \in Nat /\ Len(u) \in Nat /\ Len(s) = w + Len(u)
  BY <1>1, <1>3
<1>5. \A i \in 1..w : i \in DOMAIN s
  BY <1>3, <1>14
<1>6. \A i \in DOMAIN u : i + w \in DOMAIN s /\ u[i] = s[i + w]
  <2>1. \A i \in 1..Len(u) : i + w \in 1..Len(s)
    BY <1>14
  <2> QED  BY <1>1, <1>3, <2>1
<1>8. net' = net \cup {k0}
  BY DEF k0
<1>9. ReliableTypeOK'
  <2>1. k0.from \in Ends /\ k0.data \in Nat \cup {NoData} /\ k0.acks \in Seq(Nat)
    BY <1>1, <1>2, StateTypes
  <2>2. \A k \in net' : k.from \in Ends /\ k.data \in Nat \cup {NoData} /\ k.acks \in Seq(Nat)
    BY <1>8, <2>1 DEF ReliableTypeOK
  <2>3. ackList' \in [Ends -> Seq(Nat)]
    BY <1>1 DEF ReliableTypeOK, u
  <2>4. \A r \in Ends : Len(ackList'[r]) <= AckSize
    <3>1. Len(u) <= AckSize
      BY <1>1, <1>3, Sizes
    <3> QED  BY <1>4, <3>1 DEF ReliableTypeOK
  <2> QED  BY <2>2, <2>3, <2>4 DEF ReliableTypeOK
<1>10. IdsCount' /\ BuffersFit' /\ PurgedWasReceived'
  BY DEF IdsCount, BuffersFit, PurgedWasReceived
<1>11. DataIsRecent'
  <2>1. d # NoData => d < sent[p] /\ sent[p] <= d + Half
    BY StateTypes, Sizes DEF BuffersFit
  <2> QED  BY <1>2, <1>8, <2>1 DEF DataIsRecent
<1>12. AcksAreTrue'
  <2>1. ASSUME NEW r \in Ends, NEW i \in DOMAIN ackList'[r]
        PROVE  Received(r, ackList'[r][i])
    <3>1. CASE r = p
      BY <1>4, <1>6, <3>1 DEF AcksAreTrue, s
    <3>2. CASE r # p
      BY <1>4, <3>2 DEF AcksAreTrue
    <3> QED  BY <3>1, <3>2
  <2>2. ASSUME NEW i \in DOMAIN k0.acks
        PROVE  Received(p, k0.acks[i]) /\ sent[Other(p)] <= k0.acks[i] + IdSpace
    <3>1. i \in DOMAIN s /\ k0.acks[i] = s[i]
      BY <1>1, <1>2, <1>5
    <3> QED  BY <3>1, AckIsRecent DEF AcksAreTrue, s
  <2>3. \A k \in net' : \A i \in DOMAIN k.acks :
           Received(k.from, k.acks[i]) /\ sent[Other(k.from)] <= k.acks[i] + IdSpace
    BY <1>2, <1>8, <2>2 DEF AcksAreTrue
  <2> QED  BY <1>7, <2>1, <2>3 DEF AcksAreTrue
<1>13. AcksInOrder'
  <2> SUFFICES ASSUME NEW r \in Ends, NEW i \in DOMAIN ackList'[r]
               PROVE  LET late == ackList'[r][i] + Half
                      IN  /\ \A n \in 0..(sent[Other(r)] - 1) :
                                n \in sendBuf[Other(r)] \/ n < late
                          /\ \A k \in net' : k.from = r =>
                                \A j \in DOMAIN k.acks : k.acks[j] < late
                          /\ \A j \in 1..(i - 1) : ackList'[r][j] < late
    BY DEF AcksInOrder
  <2>1. CASE r # p
    BY <1>2, <1>4, <1>8, <2>1 DEF AcksInOrder
  <2>2. CASE r = p
    <3>1. i \in 1..Len(u) /\ i + w \in DOMAIN s /\ ackList'[r][i] = s[i + w]
      BY <1>3, <1>4, <1>6, <2>2
    <3> DEFINE h == i + w
               late == s[h] + Half
    <3> HIDE DEF h
    <3>2. /\ \A n \in 0..(sent[Other(p)] - 1) : n \in sendBuf[Other(p)] \/ n < late
          /\ \A k \in net : k.from = p => \A j \in DOMAIN k.acks : k.acks[j] < late
          /\ \A j \in 1..(h - 1) : s[j] < late
      <4>1. h \in DOMAIN ackList[p]
        BY <3>1 DEF h, s
      <4> QED  BY <4>1 DEF AcksInOrder, s
    <3>5. ackList'[r][i] = s[h] /\ i \in Nat \ {0} /\ i \in 1..Len(u) /\ h = i + w
      BY <1>14, <3>1 DEF h
    <3> HIDE DEF late
    <3>3. \A j \in DOMAIN k0.acks : k0.acks[j] < late
      <4>1. \A j \in 1..w : j \in 1..(h - 1)
        BY <1>14, <3>5
      <4> QED  BY <1>1, <1>2, <3>2, <4>1
    <3>4. \A j \in 1..(i - 1) : ackList'[p][j] < late
      <4>1. \A j \in 1..(i - 1) : j \in 1..Len(u) /\ j + w \in 1..(h - 1)
        BY <1>14, <3>5
      <4> QED  BY <1>3, <1>4, <1>6, <3>2, <4>1
    <3> QED  BY <1>8, <2>2, <3>2, <3>3, <3>4, <3>5 DEF late
  <2> QED  BY <2>1, <2>2
<1> QED  BY <1>9, <1>10, <1>11, <1>12, <1>13

\* A packet is read, and its id becomes one to come.
LEMMA ReadStep ==
    ASSUME ReliableInv, NEW p \in Ends, ReadCiphertext(p) PROVE ReliableInv'
<1> USE DEF ReliableInv
<1>1. PICK n \in recBuf[p] :
          /\ Id(n) = nextIn[p]
          /\ recBuf' = [recBuf EXCEPT ![p] = @ \ {n}]
          /\ nextIn' = [nextIn EXCEPT ![p] = Wrapped(Id(n) + 1)]
          /\ got' = [got EXCEPT ![p] = n + 1]
          /\ UNCHANGED <<sendBuf, nextOut, ackList, started, heard, net, sent>>
  BY DEF ReadCiphertext
<1>2. n = got[p] /\ n \in Nat
  BY <1>1, TurnIsNext, StateTypes
<1>3. /\ recBuf'[p] = recBuf[p] \ {n} /\ got'[p] = n + 1 /\ nextIn'[p] = Id(n + 1)
      /\ \A r \in Ends : r # p => /\ recBuf'[r] = recBuf[r] /\ got'[r] = got[r]
                                  /\ nextIn'[r] = nextIn[r]
  BY <1>1, <1>2, IdOfSum DEF ReliableTypeOK
<1>4. \A r \in Ends : \A m \in Nat : Received(r, m) => Received(r, m)'
  BY <1>2, <1>3, StateTypes DEF Received
<1>5. IsFiniteSet(recBuf'[p]) /\ Cardinality(recBuf'[p]) <= NRec
  <2>1. recBuf'[p] \in SUBSET recBuf[p]
    BY <1>3
  <2>2. IsFiniteSet(recBuf'[p]) /\ Cardinality(recBuf'[p]) <= Cardinality(recBuf[p])
    BY <2>1, FS_Subset DEF BuffersFit
  <2>3. Cardinality(recBuf'[p]) \in Nat
    BY <2>2, FS_CardinalityType
  <2> QED  BY <2>2, <2>3, StateTypes, Sizes
<1>6. ReliableTypeOK'
  <2>1. nextIn' \in [Ends -> 0..(IdSpace - 1)]
    <3>1. Id(n + 1) \in 0..(IdSpace - 1)
      BY <1>2, IdRange
    <3>3. Wrapped(Id(n) + 1) = Id(n + 1)
      <4>1. n \in Int /\ 1 \in Int
        BY <1>2
      <4> QED  BY <4>1, IdOfSum, Zenon
    <3>2. nextIn' = [nextIn EXCEPT ![p] = Id(n + 1)]
      BY <1>1, <3>3
    <3> QED  BY <3>1, <3>2 DEF ReliableTypeOK
  <2>2. recBuf' \in [Ends -> SUBSET Nat] /\ got' \in [Ends -> Nat]
    BY <1>1, <1>2 DEF ReliableTypeOK
  <2>3. \A r \in Ends : Cardinality(recBuf'[r]) <= NRec
    BY <1>3, <1>5 DEF ReliableTypeOK
  <2> QED  BY <1>1, <2>1, <2>2, <2>3 DEF ReliableTypeOK
<1>7. IdsCount'
  BY <1>1, <1>3 DEF IdsCount
<1>8. BuffersFit'
  <2>1. \A r \in Ends : IsFiniteSet(sendBuf'[r]) /\ IsFiniteSet(recBuf'[r])
    BY <1>1, <1>3, <1>5 DEF BuffersFit
  <2>2. \A m \in recBuf'[p] : got'[p] <= m /\ m < sent[Other(p)]
    BY <1>2, <1>3, StateTypes DEF BuffersFit
  <2>3. got'[p] <= sent[Other(p)]
    <3>1. n < sent[Other(p)] /\ sent[Other(p)] \in Nat
      BY <1>1, TwoEnds, StateTypes DEF BuffersFit
    <3> QED  BY <1>2, <1>3, <3>1
  <2> QED  BY <1>1, <1>3, <2>1, <2>2, <2>3 DEF BuffersFit
<1>9. PurgedWasReceived'
  <2> SUFFICES ASSUME NEW r \in Ends, NEW m \in 0..(sent[r] - 1), m \notin sendBuf[r]
               PROVE  Received(Other(r), m)'
    BY <1>1 DEF PurgedWasReceived, Received
  <2>1. Received(Other(r), m) /\ m \in Nat /\ Other(r) \in Ends
    BY TwoEnds DEF PurgedWasReceived, Received
  <2> QED  BY <1>4, <2>1
<1>10. DataIsRecent'
  BY <1>1 DEF DataIsRecent
<1>11. AcksAreTrue'
  <2>1. ASSUME NEW r \in Ends, NEW i \in DOMAIN ackList[r] PROVE Received(r, ackList[r][i])'
    <3>1. ackList[r][i] \in Nat /\ Received(r, ackList[r][i])
      BY StateTypes DEF AcksAreTrue
    <3> QED  BY <1>1, <1>4, <3>1 DEF Received
  <2>2. ASSUME NEW k \in net, NEW i \in DOMAIN k.acks PROVE Received(k.from, k.acks[i])'
    <3>1. k.from \in Ends /\ k.acks[i] \in Nat
      BY SMTT(30) DEF ReliableTypeOK
    <3>2. Received(k.from, k.acks[i])
      BY DEF AcksAreTrue
    <3> QED  BY <1>4, <3>1, <3>2 DEF Received
  <2> QED  BY <1>1, <2>1, <2>2 DEF AcksAreTrue, Received
<1>12. AcksInOrder'
  BY <1>1 DEF AcksInOrder
<1> QED  BY <1>6, <1>7, <1>8, <1>9, <1>10, <1>11, <1>12

\* What is lost was under way.
LEMMA LoseStep ==
    ASSUME ReliableInv, NEW k \in net, Lose(k) PROVE ReliableInv'
<1> USE DEF ReliableInv, Lose
<1>1. ReliableTypeOK'
  BY DEF ReliableTypeOK
<1>2. IdsCount' /\ BuffersFit' /\ PurgedWasReceived'
  BY DEF IdsCount, BuffersFit, PurgedWasReceived
<1>3. DataIsRecent'
  BY DEF DataIsRecent
<1>4. AcksAreTrue'
  BY DEF AcksAreTrue, Received
<1>5. AcksInOrder'
  BY DEF AcksInOrder
<1> QED  BY <1>1, <1>2, <1>3, <1>4, <1>5

\* What a packet brings: ids to purge, and data that is refused, a replay or new.
LEMMA ReceiveStep ==
    ASSUME ReliableInv, NEW p \in Ends, NEW k \in net, Receive(p, k) PROVE ReliableInv'
<1> USE DEF ReliableInv
<1> DEFINE q == Other(p)
           n == k.data
           Has(r, m) == m < got'[r] \/ m \in recBuf'[r]
           taken == n # NoData /\ CanGet(p) /\ WontBreakSequentiality(p, Id(n))
<1>1. /\ k.from = q /\ net' \in SUBSET net
      /\ UNCHANGED <<nextOut, nextIn, started, sent, got>>
      /\ heard' \in [Ends -> BOOLEAN]
  BY DEF Receive, ReliableTypeOK
<1>2. /\ \/ sendBuf' = sendBuf
         \/ sendBuf' = [sendBuf EXCEPT ![p] = Purge(sendBuf[p], k.acks)]
      /\ \/ recBuf' = recBuf
         \/ taken /\ NotReplay(p, Id(n)) /\ recBuf' = [recBuf EXCEPT ![p] = @ \cup {n}]
      /\ \/ ackList' = ackList
         \/ /\ taken /\ Len(ackList[p]) < AckSize
            /\ ackList' = [ackList EXCEPT ![p] = Append(@, n)]
            /\ NotReplay(p, Id(n)) => recBuf' = [recBuf EXCEPT ![p] = @ \cup {n}]
  <2>1. [sendBuf EXCEPT ![p] = sendBuf[p]] = sendBuf
        /\ [recBuf EXCEPT ![p] = recBuf[p]] = recBuf
    BY DEF ReliableTypeOK
  <2> QED  BY <2>1 DEF Receive, AckReceived
<1>3. q \in Ends /\ q # p /\ Other(q) = p /\ \A r \in Ends : r # p => r = q
  BY TwoEnds
<1>4. /\ sendBuf'[q] = sendBuf[q] /\ recBuf'[q] = recBuf[q] /\ ackList'[q] = ackList[q]
      /\ sendBuf'[p] \in SUBSET sendBuf[p]
  BY <1>2, <1>3 DEF ReliableTypeOK, Purge
<1>5. ASSUME taken
      PROVE  /\ n \in Nat /\ n < sent[q] /\ sent[q] <= n + Half /\ Cardinality(recBuf[p]) < NRec
             /\ NotReplay(p, Id(n)) => got[p] <= n
             /\ ~NotReplay(p, Id(n)) => Received(p, n)
  <2>1. n \in Nat /\ n < sent[q] /\ sent[q] <= n + Half
    BY <1>1, <1>5 DEF ReliableTypeOK, DataIsRecent
  <2>2. Cardinality(recBuf[p]) < NRec
    BY <1>5 DEF CanGet
  <2> QED  BY <1>1, <1>5, <2>1, <2>2, ReplayWasReceived
<1>6. ASSUME NEW m \in sendBuf[p], m \notin sendBuf'[p]
      PROVE  \E i \in DOMAIN k.acks : m = k.acks[i] /\ Received(q, m)
  <2>2. sendBuf'[p] = Purge(sendBuf[p], k.acks)
    BY <1>2, <1>6 DEF ReliableTypeOK
  <2>1. PICK i \in DOMAIN k.acks : Id(k.acks[i]) = Id(m)
    BY <1>6, <2>2 DEF Purge
  <2> QED  BY <1>1, <2>1, AckNamesItself
<1>7. \/ recBuf'[p] = recBuf[p]
      \/ /\ recBuf'[p] = recBuf[p] \cup {n} /\ n \in Nat /\ got[p] <= n /\ n < sent[q]
         /\ Cardinality(recBuf[p]) < NRec
  BY <1>2, <1>5 DEF ReliableTypeOK
<1>8. \A r \in Ends : \A m : Received(r, m) => Has(r, m)
  BY <1>1, <1>3, <1>4, <1>7 DEF Received
<1>9. \/ ackList' = ackList
      \/ /\ ackList' = [ackList EXCEPT ![p] = Append(@, n)]
         /\ n \in Nat /\ Len(ackList[p]) < AckSize
         /\ sent[q] <= n + Half /\ Has(p, n)
  <2>1. CASE ackList' = ackList
    BY <2>1
  <2>2. CASE /\ taken /\ Len(ackList[p]) < AckSize
             /\ ackList' = [ackList EXCEPT ![p] = Append(@, n)]
             /\ NotReplay(p, Id(n)) => recBuf' = [recBuf EXCEPT ![p] = @ \cup {n}]
    <3>1. Has(p, n)
      <4>1. CASE NotReplay(p, Id(n))
        BY <2>2, <4>1 DEF Received, ReliableTypeOK
      <4>2. CASE ~NotReplay(p, Id(n))
        BY <1>5, <1>8, <2>2, <4>2
      <4> QED  BY <4>1, <4>2
    <3> QED  BY <1>5, <2>2, <3>1
  <2> QED  BY <1>2, <2>1, <2>2
<1> HIDE DEF taken, n
<1>10. IsFiniteSet(sendBuf'[p]) /\ Cardinality(sendBuf'[p]) <= NSend
  <2>1. IsFiniteSet(sendBuf'[p]) /\ Cardinality(sendBuf'[p]) <= Cardinality(sendBuf[p])
    BY <1>4, FS_Subset DEF BuffersFit
  <2>2. Cardinality(sendBuf'[p]) \in Nat
    BY <2>1, FS_CardinalityType
  <2> QED  BY <2>1, <2>2, StateTypes, Sizes
<1>11. IsFiniteSet(recBuf'[p]) /\ Cardinality(recBuf'[p]) <= NRec
  <2>1. IsFiniteSet(recBuf[p]) /\ Cardinality(recBuf[p]) \in 0..NRec
    BY StateTypes DEF BuffersFit
  <2>2. /\ IsFiniteSet(recBuf[p] \cup {n})
        /\ \/ Cardinality(recBuf[p] \cup {n}) = Cardinality(recBuf[p])
           \/ Cardinality(recBuf[p] \cup {n}) = Cardinality(recBuf[p]) + 1
    BY <2>1, FS_AddElement
  <2>3. CASE recBuf'[p] = recBuf[p]
    BY <2>1, <2>3, Sizes
  <2>4. CASE recBuf'[p] = recBuf[p] \cup {n} /\ Cardinality(recBuf[p]) < NRec
    BY <2>1, <2>2, <2>4, Sizes
  <2> QED  BY <1>7, <2>3, <2>4
<1>12. ReliableTypeOK'
  <2>1. sendBuf' \in [Ends -> SUBSET Nat]
    BY <1>2, <1>4 DEF ReliableTypeOK
  <2>2. recBuf' \in [Ends -> SUBSET Nat]
    <3>1. recBuf'[p] \in SUBSET Nat
      BY <1>7, StateTypes
    <3> QED  BY <1>2, <3>1 DEF ReliableTypeOK
  <2>3. ackList' \in [Ends -> Seq(Nat)] /\ \A r \in Ends : Len(ackList'[r]) <= AckSize
    <3>1. CASE ackList' = ackList
      BY <3>1 DEF ReliableTypeOK
    <3>2. CASE /\ ackList' = [ackList EXCEPT ![p] = Append(@, n)]
               /\ n \in Nat /\ Len(ackList[p]) < AckSize
      <4>1. ackList[p] \in Seq(Nat) /\ Len(ackList[p]) \in Nat
        BY StateTypes
      <4>2. Append(ackList[p], n) \in Seq(Nat) /\ Len(Append(ackList[p], n)) <= AckSize
        BY <3>2, <4>1, Sizes
      <4> QED  BY <3>2, <4>2 DEF ReliableTypeOK
    <3> QED  BY <1>9, <3>1, <3>2
  <2>4. \A r \in Ends : Cardinality(sendBuf'[r]) <= NSend /\ Cardinality(recBuf'[r]) <= NRec
    BY <1>3, <1>4, <1>10, <1>11 DEF ReliableTypeOK
  <2> QED  BY <1>1, <2>1, <2>2, <2>3, <2>4 DEF ReliableTypeOK
<1>13. IdsCount' /\ DataIsRecent'
  BY <1>1 DEF IdsCount, DataIsRecent
<1>14. BuffersFit'
  <2>1. \A m \in recBuf'[p] : got[p] <= m /\ m < sent[q]
    BY <1>7 DEF BuffersFit
  <2> QED  BY <1>1, <1>3, <1>4, <1>10, <1>11, <2>1 DEF BuffersFit
<1>15. PurgedWasReceived'
  <2> SUFFICES ASSUME NEW r \in Ends, NEW m \in 0..(sent[r] - 1), m \notin sendBuf'[r]
               PROVE  Has(Other(r), m)
    BY <1>1 DEF PurgedWasReceived
  <2>1. CASE m \in sendBuf[r]
    BY <1>3, <1>4, <1>6, <1>8, <2>1
  <2>2. CASE m \notin sendBuf[r]
    <3>1. Received(Other(r), m) /\ Other(r) \in Ends
      BY <2>2, TwoEnds DEF PurgedWasReceived, Received
    <3> QED  BY <1>8, <3>1
  <2> QED  BY <2>1, <2>2
<1>16. \A c \in net : \A i \in DOMAIN c.acks :
          Has(c.from, c.acks[i]) /\ sent[Other(c.from)] <= c.acks[i] + IdSpace
  <2> SUFFICES ASSUME NEW c \in net, NEW i \in DOMAIN c.acks
               PROVE  Has(c.from, c.acks[i])
                      /\ sent[Other(c.from)] <= c.acks[i] + IdSpace
    BY DEF Received
  <2>1. c.from \in Ends /\ Received(c.from, c.acks[i])
        /\ sent[Other(c.from)] <= c.acks[i] + IdSpace
    BY DEF AcksAreTrue, ReliableTypeOK
  <2> QED  BY <1>8, <2>1 DEF Received
<1>17. \A r \in Ends : \A i \in DOMAIN ackList[r] : Has(r, ackList[r][i])
  <2> SUFFICES ASSUME NEW r \in Ends, NEW i \in DOMAIN ackList[r]
               PROVE  Has(r, ackList[r][i])
    BY DEF Received
  <2>1. Received(r, ackList[r][i])
    BY DEF AcksAreTrue
  <2> QED  BY <1>8, <2>1 DEF Received
\* What waits in the list still does, in its place; a new id is behind it.
<1>18. ASSUME NEW r \in Ends, NEW i \in DOMAIN ackList'[r]
       PROVE  \/ i \in DOMAIN ackList[r] /\ \A j \in 1..i : ackList'[r][j] = ackList[r][j]
              \/ /\ r = p /\ ackList'[r][i] = n /\ n \in Nat /\ i = Len(ackList[p]) + 1
                 /\ \A j \in 1..(i - 1) : j \in DOMAIN ackList[p] /\ ackList'[r][j] = ackList[p][j]
                 /\ sent[q] <= n + Half /\ Has(p, n)
  <2>1. CASE ackList' = ackList
    BY <2>1
  <2>2. CASE r # p
    BY <1>3, <1>4, <2>2
  <2>3. CASE r = p /\ ackList' # ackList
    <3> DEFINE s == ackList[p]
    <3>1. s \in Seq(Nat) /\ Len(s) \in Nat /\ DOMAIN s = 1..Len(s) /\ n \in Nat
      BY <1>9, <2>3, StateTypes
    <3>2. ackList'[r] = Append(s, n) /\ sent[q] <= n + Half /\ Has(p, n)
      BY <1>9, <2>3 DEF ReliableTypeOK
    <3> HIDE DEF s
    <3>3. /\ Len(Append(s, n)) = Len(s) + 1 /\ DOMAIN Append(s, n) = 1..(Len(s) + 1)
          /\ \A j \in 1..Len(s) : Append(s, n)[j] = s[j]
          /\ Append(s, n)[Len(s) + 1] = n
      BY <3>1, AppendProperties
    <3>4. CASE i = Len(s) + 1
      BY <2>3, <3>1, <3>2, <3>3, <3>4 DEF s
    <3>5. CASE i # Len(s) + 1
      <4>1. i \in 1..Len(s) /\ \A j \in 1..i : j \in 1..Len(s)
        BY <3>1, <3>2, <3>3, <3>5
      <4> QED  BY <2>3, <3>1, <3>2, <3>3, <4>1 DEF s
    <3> QED  BY <3>4, <3>5
  <2> QED  BY <2>1, <2>2, <2>3
<1>19. AcksAreTrue'
  <2>1. ASSUME NEW r \in Ends, NEW i \in DOMAIN ackList'[r] PROVE Has(r, ackList'[r][i])
    <3>1. CASE i \in DOMAIN ackList[r] /\ \A j \in 1..i : ackList'[r][j] = ackList[r][j]
      <4>1. i \in 1..i
        BY <3>1, StateTypes
      <4> QED  BY <1>17, <3>1, <4>1 DEF Received
    <3>2. CASE r = p /\ ackList'[r][i] = n /\ Has(p, n)
      BY <3>2 DEF Received
    <3> QED  BY <1>18, <3>1, <3>2
  <2> QED  BY <1>1, <1>16, <2>1 DEF AcksAreTrue, Received
<1>20. AcksInOrder'
  <2> SUFFICES ASSUME NEW r \in Ends, NEW i \in DOMAIN ackList'[r]
               PROVE  LET late == ackList'[r][i] + Half
                      IN  /\ \A m \in 0..(sent[Other(r)] - 1) :
                                m \in sendBuf'[Other(r)] \/ m < late
                          /\ \A c \in net : c.from = r =>
                                \A j \in DOMAIN c.acks : c.acks[j] < late
                          /\ \A j \in 1..(i - 1) : ackList'[r][j] < late
    BY <1>1 DEF AcksInOrder
  <2>1. CASE i \in DOMAIN ackList[r] /\ \A j \in 1..i : ackList'[r][j] = ackList[r][j]
    <3> DEFINE late == ackList[r][i] + Half
    <3>1. i \in 1..i /\ \A j \in 1..(i - 1) : j \in 1..i
      BY <2>1, StateTypes
    <3>2. /\ \A m \in 0..(sent[Other(r)] - 1) : m \in sendBuf[Other(r)] \/ m < late
          /\ \A c \in net : c.from = r => \A j \in DOMAIN c.acks : c.acks[j] < late
          /\ \A j \in 1..(i - 1) : ackList[r][j] < late
      BY <2>1 DEF AcksInOrder
    <3>3. ackList'[r][i] + Half = late
      BY <2>1, <3>1
    <3> HIDE DEF late
    <3>4. ASSUME NEW m \in 0..(sent[Other(r)] - 1), m \notin sendBuf'[Other(r)] PROVE m < late
      <4>1. CASE m \notin sendBuf[Other(r)]
        BY <3>2, <4>1
      <4>2. CASE m \in sendBuf[Other(r)]
        <5>1. Other(r) = p /\ r = q
          BY <1>3, <1>4, <3>4, <4>2, TwoEnds
        <5> QED  BY <1>1, <1>6, <3>2, <3>4, <4>2, <5>1
      <4> QED  BY <4>1, <4>2
    <3> QED  BY <2>1, <3>1, <3>2, <3>3, <3>4
  <2>2. CASE /\ r = p /\ ackList'[r][i] = n /\ n \in Nat /\ i = Len(ackList[p]) + 1
             /\ \A j \in 1..(i - 1) : j \in DOMAIN ackList[p] /\ ackList'[r][j] = ackList[p][j]
             /\ sent[q] <= n + Half
    <3>1. \A m \in Nat : Received(p, m) => m < n + Half
      <4>1. got[p] <= sent[q] /\ \A m \in recBuf[p] : m < sent[q]
        BY DEF BuffersFit
      <4>2. got[p] \in Nat /\ sent[q] \in Nat /\ recBuf[p] \in SUBSET Nat
        BY <1>3, StateTypes
      <4> QED  BY <2>2, <4>1, <4>2, Sizes DEF Received
    <3>2. \A m \in 0..(sent[q] - 1) : m < n + Half
      BY <1>3, <2>2, StateTypes, Sizes
    <3>3. ASSUME NEW c \in net, c.from = p, NEW j \in DOMAIN c.acks PROVE c.acks[j] < n + Half
      <4>1. c.acks[j] \in Nat
        BY SMTT(30) DEF ReliableTypeOK
      <4>2. Received(p, c.acks[j])
        BY <3>3 DEF AcksAreTrue
      <4> QED  BY <3>1, <4>1, <4>2
    <3>4. ASSUME NEW j \in 1..(i - 1) PROVE ackList'[r][j] < n + Half
      <4>1. j \in DOMAIN ackList[p] /\ ackList'[r][j] = ackList[p][j]
        BY <2>2
      <4>2. ackList[p][j] \in Nat /\ Received(p, ackList[p][j])
        BY <4>1, StateTypes DEF AcksAreTrue
      <4> QED  BY <3>1, <4>1, <4>2
    <3> QED  BY <2>2, <3>2, <3>3, <3>4
  <2> QED  BY <1>18, <2>1, <2>2
<1> QED  BY <1>12, <1>13, <1>14, <1>15, <1>19, <1>20

\* Every step keeps the invariant.
LEMMA ReliableInvStep == ReliableInv /\ [ReliableNext]_vars => ReliableInv'
<1> SUFFICES ASSUME ReliableInv, [ReliableNext]_vars PROVE ReliableInv'
  OBVIOUS
<1>1. ASSUME NEW p \in Ends, WriteCiphertext(p) PROVE ReliableInv'
  BY <1>1, WriteStep
<1>2. ASSUME NEW p \in Ends, SendAck(p) PROVE ReliableInv'
  BY <1>2, SendStep, Sizes DEF SendAck
<1>3. ASSUME NEW p \in Ends, ReadCiphertext(p) PROVE ReliableInv'
  BY <1>3, ReadStep
<1>4. ASSUME NEW p \in Ends, NEW n \in sendBuf[p], SendReliable(p, n) PROVE ReliableInv'
  BY <1>4, SendStep, Sizes DEF SendReliable
<1>5. ASSUME NEW p \in Ends, NEW k \in net, Receive(p, k) PROVE ReliableInv'
  BY <1>5, ReceiveStep
<1>6. ASSUME NEW k \in net, Lose(k) PROVE ReliableInv'
  BY <1>6, LoseStep
<1>7. CASE UNCHANGED vars
  BY <1>7
  DEF vars, ReliableInv, ReliableTypeOK, IdsCount, BuffersFit, PurgedWasReceived, DataIsRecent,
      AcksAreTrue, AcksInOrder, Received
<1>8. ASSUME NEW p \in Ends, Start(p) PROVE ReliableInv'
  <2>1. /\ started' \in [Ends -> BOOLEAN]
        /\ UNCHANGED <<sendBuf, nextOut, recBuf, nextIn, ackList, heard, net, sent, got>>
    BY <1>8 DEF Start, ReliableInv, ReliableTypeOK
  <2> QED
    BY <2>1
    DEF ReliableInv, ReliableTypeOK, IdsCount, BuffersFit, PurgedWasReceived, DataIsRecent,
        AcksAreTrue, AcksInOrder, Received
<1> QED  BY <1>1, <1>2, <1>3, <1>4, <1>5, <1>6, <1>7, <1>8 DEF ReliableNext

-----------------------------------------------------------------------------
(* Theorems. *)

\* The invariant holds at every moment.
LEMMA ReliableIsInv == ReliableSpec => []ReliableInv
  BY ReliableInitInv, ReliableInvStep, PTL DEF ReliableSpec

\* The ids and the three structures of either end have their types, and none is
\* fuller than its array, for buffers of any size and any number of ids that fits them.
THEOREM ReliableTyping == ReliableSpec => []ReliableTypeOK
<1>1. ReliableInv => ReliableTypeOK
  BY DEF ReliableInv
<1> QED  BY <1>1, ReliableIsInv, PTL

\* Whatever is lost, repeated or reordered, and however often the ids wrap around,
\* reliable_send_purge drops only what the other end has.
THEOREM PurgesWhatWasReceived == ReliableSpec => []PurgedWasReceived
<1>1. ReliableInv => PurgedWasReceived
  BY DEF ReliableInv
<1> QED  BY <1>1, ReliableIsInv, PTL

\* What the invariant says of a receiver that waits.
LEMMA BufferTakesNext == ReliableInv => BufferNeverBlocks
<1> USE DEF ReliableInv
<1> SUFFICES ASSUME ReliableInv, NEW p \in Ends, \A m \in recBuf[p] : Id(m) # nextIn[p]
             PROVE  /\ CanGet(p)
                    /\ \A n \in sendBuf[Other(p)] : n >= got[p] /\ n \notin recBuf[p] =>
                          WontBreakSequentiality(p, Id(n)) /\ NotReplay(p, Id(n))
  BY DEF BufferNeverBlocks
<1> DEFINE q == Other(p)
           g == got[p]
           top == sent[q]
<1>1. q \in Ends /\ Other(q) = p
  BY TwoEnds
<1>2. g \in Nat /\ top \in Nat /\ g <= top /\ recBuf[p] \in SUBSET Nat /\ sendBuf[q] \in SUBSET Nat
  BY <1>1, StateTypes DEF BuffersFit
<1>3. nextIn[p] = Id(g) /\ g \notin recBuf[p]
  BY DEF IdsCount
<1>4. top <= g + NSend
  <2>1. CASE g = top
    BY <1>2, <2>1, Sizes
  <2>2. CASE g < top
    <3>1. g \in 0..(sent[q] - 1)
      BY <1>2, <2>2
    <3>2. g \in sendBuf[q]
      BY <1>1, <1>2, <1>3, <3>1 DEF PurgedWasReceived
    <3> QED  BY <1>1, <3>2 DEF BuffersFit
  <2> QED  BY <1>2, <2>1, <2>2
<1>5. \A m \in recBuf[p] : m \in Nat /\ g < m /\ m < top
  BY <1>2, <1>3 DEF BuffersFit
<1>6. CanGet(p)
  <2>1. recBuf[p] \in SUBSET ((g + 1)..(top - 1))
    BY <1>2, <1>5
  <2>2. g + 1 \in Int /\ top - 1 \in Int
    BY <1>2
  <2>3. /\ IsFiniteSet((g + 1)..(top - 1))
        /\ Cardinality((g + 1)..(top - 1))
              = IF g + 1 > top - 1 THEN 0 ELSE (top - 1) - (g + 1) + 1
    BY <2>2, FS_Interval, Zenon
  <2>4. Cardinality(recBuf[p]) <= Cardinality((g + 1)..(top - 1))
    BY <2>1, <2>3, FS_Subset, Zenon
  <2> QED  BY <1>2, <1>4, <2>3, <2>4, StateTypes, Sizes DEF CanGet
<1>7. ASSUME NEW n \in sendBuf[q], n >= g, n \notin recBuf[p]
      PROVE  WontBreakSequentiality(p, Id(n)) /\ NotReplay(p, Id(n))
  <2>1. n \in Nat /\ n < top
    BY <1>1, <1>2 DEF BuffersFit
  <2>2. WontBreakSequentiality(p, Id(n))
    BY <1>2, <1>3, <1>4, <1>7, <2>1, Sizes, WindowIsTaken DEF WontBreakSequentiality
  <2>3. ~PidMin(Id(n), Id(g))
    BY <1>2, <1>4, <1>7, <2>1, Sizes, PidMinIsOrder
  <2>4. ASSUME NEW m \in recBuf[p], Id(m) = Id(n) PROVE FALSE
    <3>1. m \in Int /\ n \in Int /\ m - n < IdSpace /\ n - m < IdSpace
      BY <1>2, <1>4, <1>5, <1>7, <2>1, Sizes
    <3> QED  BY <1>7, <2>4, <3>1, IdTellsApart
  <2> QED  BY <1>3, <2>2, <2>3, <2>4 DEF NotReplay
<1> QED  BY <1>6, <1>7

\* A receiver that waits for a packet has a free buffer, and takes that packet and
\* what else is under way: the receive buffers never deadlock.
THEOREM NeverBlocks == ReliableSpec => []BufferNeverBlocks
  BY BufferTakesNext, ReliableIsInv, PTL

-----------------------------------------------------------------------------
(* The refinement of Fifo. *)

\* The packets written and not yet read, of s written and g read.
Transit(g, s) == [i \in 1..(s - g) |-> g + i]

\* A packet written is added at the end of what is in transit,
LEMMA TransitGrows ==
    ASSUME NEW g \in Nat, NEW s \in Nat, g <= s
    PROVE  Append(Transit(g, s), s + 1) = Transit(g, s + 1)
<1> USE DEF Transit
<1> DEFINE f == [i \in 1..(s - g) |-> g + i]
           h == [i \in 1..(s + 1 - g) |-> g + i]
<1>1. f \in Seq(Nat) /\ Len(f) = s - g /\ s + 1 \in Nat
  OBVIOUS
<1>2. h \in Seq(Nat) /\ Len(h) = s - g + 1
  OBVIOUS
<1>3. /\ Append(f, s + 1) \in Seq(Nat) /\ Len(Append(f, s + 1)) = s - g + 1
      /\ \A i \in 1..(s - g) : Append(f, s + 1)[i] = f[i]
      /\ Append(f, s + 1)[s - g + 1] = s + 1
  BY <1>1, AppendProperties
<1>4. \A i \in 1..(s - g + 1) : Append(f, s + 1)[i] = h[i]
  BY <1>3
<1> HIDE DEF f, h
<1> QED  BY <1>2, <1>3, <1>4, SeqEqual DEF f, h

\* a packet read is taken from its front.
LEMMA TransitShrinks ==
    ASSUME NEW g \in Nat, NEW s \in Nat, g < s
    PROVE  Transit(g, s) # << >> /\ Tail(Transit(g, s)) = Transit(g + 1, s)
<1> USE DEF Transit
<1> DEFINE f == [i \in 1..(s - g) |-> g + i]
           h == [i \in 1..(s - (g + 1)) |-> (g + 1) + i]
<1>1. f \in Seq(Nat) /\ Len(f) = s - g /\ f # << >>
  OBVIOUS
<1>2. h \in Seq(Nat) /\ Len(h) = s - g - 1
  OBVIOUS
<1>3. /\ Tail(f) \in Seq(Nat) /\ Len(Tail(f)) = s - g - 1
      /\ \A i \in 1..Len(Tail(f)) : Tail(f)[i] = f[i + 1]
  BY <1>1, HeadTailProperties
<1>4. \A i \in 1..(s - g - 1) : Tail(f)[i] = h[i]
  BY <1>3
<1> HIDE DEF f, h
<1> QED  BY <1>1, <1>2, <1>3, <1>4, SeqEqual DEF f, h

\* Nothing is in transit at first.
LEMMA FifoInitially == ReliableInit => Channel!FifoInit
<1> SUFFICES ASSUME ReliableInit PROVE Channel!FifoInit
  OBVIOUS
<1>1. \A p \in Ends : sent[p] - got[Other(p)] = 0
  BY TwoEnds DEF ReliableInit
<1>2. \A f : f = [i \in 1..0 |-> f[i]] => f = << >>
  OBVIOUS
<1>3. InTransit = [p \in Ends |-> << >>]
  BY <1>1 DEF InTransit
<1> QED  BY <1>3 DEF Channel!FifoInit, ReliableInit

\* Every step is a step of Fifo or leaves its variables alone.
LEMMA FifoStep ==
    ReliableInv /\ [ReliableNext]_vars => [Channel!FifoNext]_(Channel!fifoVars)
<1> SUFFICES ASSUME ReliableInv, [ReliableNext]_vars
             PROVE  [Channel!FifoNext]_(Channel!fifoVars)
  OBVIOUS
<1>1. \A p \in Ends : sent[p] \in Nat /\ got[p] \in Nat /\ got[p] <= sent[Other(p)]
  BY StateTypes DEF ReliableInv, BuffersFit
<1>2. InTransit = [p \in Ends |-> Transit(got[Other(p)], sent[p])]
      /\ InTransit' = [p \in Ends |-> Transit(got'[Other(p)], sent'[p])]
  BY DEF InTransit, Transit
<1>3. ASSUME NEW p \in Ends, WriteCiphertext(p) PROVE Channel!Put(p)
  <2> DEFINE q == Other(p)
  <2>1. got' = got /\ sent' = [sent EXCEPT ![p] = @ + 1] /\ sent'[p] = sent[p] + 1
    BY <1>3 DEF WriteCiphertext, ReliableInv, ReliableTypeOK
  <2>2. Append(Transit(got[q], sent[p]), sent[p] + 1) = Transit(got[q], sent[p] + 1)
    <3>1. q \in Ends /\ Other(q) = p
      BY TwoEnds
    <3>2. got[q] \in Nat /\ sent[p] \in Nat /\ got[q] <= sent[p]
      BY <1>1, <3>1
    <3> QED  BY <3>2, TransitGrows, Zenon
  <2>3. InTransit' = [InTransit EXCEPT ![p] = Append(@, sent'[p])]
    BY <1>2, <2>1, <2>2 DEF ReliableInv, ReliableTypeOK
  <2> QED  BY <2>1, <2>3 DEF Channel!Put
<1>4. ASSUME NEW p \in Ends, ReadCiphertext(p) PROVE Channel!Take(Other(p))
  <2> DEFINE q == Other(p)
  <2>1. PICK n \in recBuf[p] : Id(n) = nextIn[p] /\ got' = [got EXCEPT ![p] = n + 1]
    BY <1>4 DEF ReadCiphertext
  <2>2. n = got[p] /\ n < sent[q]
    BY <2>1, TurnIsNext DEF ReliableInv, BuffersFit
  <2>3. sent' = sent /\ got'[p] = got[p] + 1 /\ \A r \in Ends : r # p => got'[r] = got[r]
    BY <1>4, <2>1, <2>2 DEF ReadCiphertext, ReliableInv, ReliableTypeOK
  <2>4. q \in Ends /\ Other(q) = p /\ \A r \in Ends : r # q => Other(r) # p
    BY TwoEnds
  <2>5. /\ Transit(got[p], sent[q]) # << >>
        /\ Tail(Transit(got[p], sent[q])) = Transit(got[p] + 1, sent[q])
    BY <1>1, <2>2, <2>4, TransitShrinks
  <2>6. InTransit' = [InTransit EXCEPT ![q] = Tail(@)] /\ InTransit[q] # << >>
    <3>1. /\ got'[Other(q)] = got[p] + 1 /\ sent'[q] = sent[q]
          /\ \A r \in Ends : r # q => got'[Other(r)] = got[Other(r)] /\ sent'[r] = sent[r]
      BY <2>3, <2>4, TwoEnds
    <3>2. InTransit[q] = Transit(got[p], sent[q])
          /\ InTransit' = [InTransit EXCEPT ![q] = Transit(got[p] + 1, sent[q])]
      BY <1>2, <2>4, <3>1
    <3> QED  BY <2>5, <3>2
  <2> QED  BY <2>3, <2>6 DEF Channel!Take
<1>5. CASE UNCHANGED <<sent, got>>
  BY <1>2, <1>5 DEF Channel!fifoVars
<1>6. ASSUME NEW p \in Ends, Start(p) \/ SendAck(p) \/ (\E n \in sendBuf[p] : SendReliable(p, n))
                             \/ (\E k \in net : Receive(p, k))
      PROVE  UNCHANGED <<sent, got>>
  BY <1>6 DEF Start, SendAck, SendReliable, Receive
<1>7. ASSUME NEW k \in net, Lose(k) PROVE UNCHANGED <<sent, got>>
  BY <1>7 DEF Lose
<1>8. UNCHANGED vars => UNCHANGED <<sent, got>>
  BY DEF vars
<1> QED
  BY <1>3, <1>4, <1>5, <1>6, <1>7, <1>8, TwoEnds DEF ReliableNext, Channel!FifoNext

\* In each direction the TLS objects read what was written, once and in order.
THEOREM IsFifo == ReliableSpec => ChannelIsFifo
<1>1. ReliableSpec => Channel!FifoInit /\ [][Channel!FifoNext]_(Channel!fifoVars)
  BY FifoInitially, FifoStep, ReliableIsInv, PTL DEF ReliableSpec
<1> QED  BY <1>1 DEF ChannelIsFifo, Channel!FifoSpec
=============================================================================
