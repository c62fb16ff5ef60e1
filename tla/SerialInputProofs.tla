------------------------- MODULE SerialInputProofs -------------------------
(***************************************************************************)
(* The receive ring is a queue, whatever its size. On that, what the       *)
(* program sends is read in order and handed whole to the link or to a     *)
(* payload, for every size of the ring and of the block, every guard time  *)
(* and every counter of milliseconds.                                      *)
(***************************************************************************)
EXTENDS SerialInput, SequenceTheorems, TLAPS

-----------------------------------------------------------------------------
(* The receive ring.                                                       *)

Queue == INSTANCE BoundedQueue WITH queue <- Contents, Capacity <- Size - 1

LEMMA SizeNat == Size \in Nat /\ Size > 1
BY RingAssumption

\* An index that runs over the end of the ring starts again at 0.
LEMMA Wrapped ==
  \A a \in 0..2 * Size - 1 : Around(a) = IF a < Size THEN a ELSE a - Size
BY SizeNat DEF Around

LEMMA InRange == \A a \in Int : Around(a) \in Indices
BY SizeNat DEF Around, Indices

LEMMA UsedIs ==
  ASSUME RingTypeOK
  PROVE  /\ Used = IF head >= tail THEN head - tail ELSE head - tail + Size
         /\ Used \in Indices
<1>1. head - tail + Size \in 0..2 * Size - 1
  BY SizeNat DEF RingTypeOK, Indices
<1> QED
  BY <1>1, Wrapped, SizeNat DEF Used, RingTypeOK, Indices

\* Where the i-th byte waits.
LEMMA PlaceIs ==
  ASSUME RingTypeOK, NEW i \in 1..Size - 1
  PROVE  Around(tail + i - 1) =
           IF tail + i - 1 < Size THEN tail + i - 1 ELSE tail + i - 1 - Size
<1>1. tail + i - 1 \in 0..2 * Size - 1
  BY SizeNat DEF RingTypeOK, Indices
<1> QED
  BY <1>1, Wrapped, SizeNat DEF RingTypeOK, Indices

LEMMA ContentsIs ==
  ASSUME RingTypeOK
  PROVE  /\ Contents \in Seq(Bytes)
         /\ Len(Contents) = Used
         /\ \A i \in 1..Used : Contents[i] =
              slot[IF tail + i - 1 < Size THEN tail + i - 1 ELSE tail + i - 1 - Size]
<1>1. Used \in Nat /\ Used <= Size - 1
  BY UsedIs, SizeNat DEF Indices
<1>2. ASSUME NEW i \in 1..Used
      PROVE  /\ Contents[i] =
                  slot[IF tail + i - 1 < Size THEN tail + i - 1 ELSE tail + i - 1 - Size]
             /\ Contents[i] \in Bytes
  <2>1. i \in 1..Size - 1
    BY <1>1, SizeNat
  <2>2. Contents[i] = slot[Around(tail + i - 1)]
    BY DEF Contents
  <2>3. (IF tail + i - 1 < Size THEN tail + i - 1 ELSE tail + i - 1 - Size) \in Indices
    BY <2>1, SizeNat DEF RingTypeOK, Indices
  <2> QED
    BY <2>1, <2>2, <2>3, PlaceIs DEF RingTypeOK
<1>3. Contents = [i \in 1..Used |-> Contents[i]]
  BY DEF Contents
<1>4. [i \in 1..Used |-> Contents[i]] \in Seq(Bytes)
  BY <1>1, <1>2
<1>5. Len([i \in 1..Used |-> Contents[i]]) = Used
  BY <1>1
<1> QED
  BY <1>2, <1>3, <1>4, <1>5

\* Each slot index keeps its range.
LEMMA RingTyped ==
  RingTypeOK /\ [RingNext]_ringVars => RingTypeOK'
<1> SUFFICES ASSUME RingTypeOK, [RingNext]_ringVars PROVE RingTypeOK'
  OBVIOUS
<1>0. \A a \in Int : Around(a) \in Indices
  BY InRange
<1>1. CASE UNCHANGED ringVars
  BY <1>1 DEF RingTypeOK, ringVars
<1>2. ASSUME NEW b \in Bytes, PushByte(b) PROVE RingTypeOK'
  <2>1. head + 1 \in Int
    BY SizeNat DEF RingTypeOK, Indices
  <2> QED
    BY <1>0, <1>1, <1>2, <2>1 DEF PushByte, RingTypeOK
<1>3. ASSUME NEW s \in Seq(Bytes), PushBlock(s) PROVE RingTypeOK'
  <2>1. CASE ~Fits(s)
    BY <1>1, <1>3, <2>1 DEF PushBlock
  <2>2. CASE Fits(s)
    <3>1. head' \in Indices /\ tail' \in Indices
      <4>1. head + Len(s) \in Int
        BY DEF RingTypeOK, Indices
      <4> QED
        BY <1>0, <1>3, <2>2, <4>1 DEF PushBlock, RingTypeOK
    <3>2. ASSUME NEW j \in Indices
          PROVE  LET i == Around(j - head + Size)
                 IN  (IF i < Len(s) THEN s[i + 1] ELSE slot[j]) \in Bytes
      <4>1. Around(j - head + Size) \in Indices
        <5>1. j - head + Size \in Int
          BY SizeNat DEF RingTypeOK, Indices
        <5> QED
          BY <1>0, <5>1
      <4> QED
        BY <4>1, SizeNat DEF RingTypeOK, Indices
    <3> QED
      BY <1>3, <2>2, <3>1, <3>2 DEF PushBlock, RingTypeOK
  <2> QED
    BY <2>1, <2>2
<1>4. CASE PopByte
  <2>1. tail + 1 \in Int
    BY DEF RingTypeOK, Indices
  <2> QED
    BY <1>0, <1>4, <2>1 DEF PopByte, RingTypeOK
<1>5. CASE Flush
  BY <1>5 DEF Flush, RingTypeOK
<1> QED
  BY <1>1, <1>2, <1>3, <1>4, <1>5 DEF RingNext

\* The indices and the bytes of a ring stay in range (at_modem.c, main.c).
THEOREM RingTypeCorrect == RingSpec => []RingTypeOK
<1>1. RingInit => RingTypeOK
  BY SizeNat DEF RingInit, RingTypeOK, Indices
<1> QED
  BY <1>1, RingTyped, PTL DEF RingSpec

-----------------------------------------------------------------------------

LEMMA SameSeq ==
  ASSUME NEW S, NEW s \in Seq(S), NEW t \in Seq(S), Len(s) = Len(t),
         \A i \in 1..Len(s) : s[i] = t[i]
  PROVE  s = t
OBVIOUS

\* What the contents are, before a step and after it.
ContentsFacts ==
  /\ Contents \in Seq(Bytes)
  /\ Len(Contents) = Used
  /\ Used = IF head >= tail THEN head - tail ELSE head - tail + Size
  /\ \A i \in 1..Used : Contents[i] =
       slot[IF tail + i - 1 < Size THEN tail + i - 1 ELSE tail + i - 1 - Size]

LEMMA Facts == RingTypeOK => ContentsFacts
BY ContentsIs, UsedIs DEF ContentsFacts

LEMMA FactsNext == RingTypeOK' => ContentsFacts'
BY Facts, PTL

LEMMA ContentsIsNext ==
  ASSUME RingTypeOK'
  PROVE  /\ Contents' \in Seq(Bytes)
         /\ Len(Contents') = Used'
         /\ Used' = IF head' >= tail' THEN head' - tail' ELSE head' - tail' + Size
         /\ \A i \in 1..Used' : Contents'[i] =
              slot'[IF tail' + i - 1 < Size THEN tail' + i - 1 ELSE tail' + i - 1 - Size]
BY FactsNext DEF ContentsFacts

\* One slot stays unused (on_uart_rx).
LEMMA FullIs ==
  ASSUME RingTypeOK
  PROVE  /\ Around(head + 1) = IF head + 1 < Size THEN head + 1 ELSE 0
         /\ Full <=> Used = Size - 1
<1> USE SizeNat
<1>1. Used = IF head >= tail THEN head - tail ELSE head - tail + Size
  BY UsedIs
<1>2. Around(head + 1) = IF head + 1 < Size THEN head + 1 ELSE 0
  <2>1. head + 1 \in 0..2 * Size - 1
    BY DEF RingTypeOK, Indices
  <2>2. head + 1 < Size \/ head + 1 - Size = 0
    BY DEF RingTypeOK, Indices
  <2> QED
    BY <2>1, <2>2, Wrapped DEF RingTypeOK, Indices
<1>3. Full <=> Used = Size - 1
  BY <1>1, <1>2 DEF Full, RingTypeOK, Indices
<1> QED
  BY <1>2, <1>3

\* A byte that arrives is put at the end of the queue, or lost when the ring is full.
LEMMA PushByteQueues ==
  ASSUME RingTypeOK, RingTypeOK', NEW b \in Bytes, PushByte(b)
  PROVE  Queue!Put(b)
<1> USE SizeNat
<1>1. /\ Contents \in Seq(Bytes) /\ Len(Contents) = Used
      /\ Used = IF head >= tail THEN head - tail ELSE head - tail + Size
  BY ContentsIs, UsedIs
<1>2. Around(head + 1) = IF head + 1 < Size THEN head + 1 ELSE 0
  BY FullIs
<1>3. Full <=> Used = Size - 1
  BY FullIs
<1>4. CASE Full
  <2>1. Contents' = Contents
    BY <1>4 DEF PushByte, ringVars, Contents, Used
  <2> QED
    BY <1>1, <1>3, <1>4, <2>1 DEF Queue!Put, RingTypeOK, Indices
<1>5. CASE ~Full
  <2>1. /\ slot' = [slot EXCEPT ![head] = b] /\ tail' = tail
        /\ head' = IF head + 1 < Size THEN head + 1 ELSE 0
    BY <1>2, <1>5 DEF PushByte
  <2>2. Used < Size - 1 /\ Used \in Nat
    BY <1>1, <1>3, <1>5 DEF RingTypeOK, Indices
  <2>3. Used' = Used + 1
    BY <1>1, <2>1, <2>2, ContentsIsNext DEF RingTypeOK, Indices
  <2>4. Append(Contents, b) \in Seq(Bytes) /\ Len(Append(Contents, b)) = Used + 1
    BY <1>1
  <2>5. ASSUME NEW i \in 1..Used + 1
        PROVE  Contents'[i] = Append(Contents, b)[i]
    <3> DEFINE place == IF tail + i - 1 < Size THEN tail + i - 1 ELSE tail + i - 1 - Size
    <3>1. place \in Indices /\ (place = head <=> i = Used + 1)
      BY <1>1, <2>2 DEF RingTypeOK, Indices
    <3>2. Contents'[i] = slot'[place]
      BY <2>1, <2>3, ContentsIsNext
    <3>3. CASE i = Used + 1
      <4>1. slot'[place] = b
        BY <2>1, <3>1, <3>3 DEF RingTypeOK
      <4> QED
        BY <1>1, <2>2, <3>2, <3>3, <4>1
    <3>4. CASE i \in 1..Used
      <4>1. place # head
        BY <2>2, <3>1, <3>4
      <4>2. slot'[place] = slot[place]
        BY <2>1, <3>1, <4>1 DEF RingTypeOK
      <4>3. Contents[i] = slot[place]
        BY <3>4, ContentsIs
      <4> QED
        BY <1>1, <2>2, <3>2, <3>4, <4>2, <4>3
    <3>5. i = Used + 1 \/ i \in 1..Used
      BY <2>2
    <3> HIDE DEF place
    <3> QED
      BY <3>3, <3>4, <3>5
  <2>6. Contents' = Append(Contents, b)
    BY <2>3, <2>4, <2>5, ContentsIsNext, SameSeq
  <2> QED
    BY <1>1, <2>2, <2>6 DEF Queue!Put
<1> QED
  BY <1>4, <1>5

\* A block goes to the end of the queue whole, or not at all (at_modem_rx_push).
LEMMA PushBlockQueues ==
  ASSUME RingTypeOK, RingTypeOK', NEW s \in Seq(Bytes), PushBlock(s)
  PROVE  Queue!PutAll(s)
<1> USE SizeNat
<1>1. /\ Contents \in Seq(Bytes) /\ Len(Contents) = Used
      /\ Used = IF head >= tail THEN head - tail ELSE head - tail + Size
      /\ Used \in 0..Size - 1
  BY ContentsIs, UsedIs DEF Indices
<1>2. Len(s) \in Nat
  OBVIOUS
<1>3. Fits(s) <=> Used + Len(s) <= Size - 1
  BY <1>1, <1>2 DEF Fits, Space
<1>4. CASE ~Fits(s)
  <2>1. Contents' = Contents
    BY <1>4 DEF PushBlock, ringVars, Contents, Used
  <2> QED
    BY <1>1, <1>2, <1>3, <1>4, <2>1 DEF Queue!PutAll
<1>5. CASE Fits(s)
  <2>1. /\ tail' = tail /\ head' = Around(head + Len(s))
        /\ slot' = [ j \in Indices |->
                       IF Around(j - head + Size) < Len(s)
                       THEN s[Around(j - head + Size) + 1] ELSE slot[j] ]
    BY <1>5 DEF PushBlock
  <2>2. Used + Len(s) <= Size - 1
    BY <1>3, <1>5
  <2>3. head' = IF head + Len(s) < Size THEN head + Len(s) ELSE head + Len(s) - Size
    <3>1. head + Len(s) \in 0..2 * Size - 1
      BY <1>1, <1>2, <2>2 DEF RingTypeOK, Indices
    <3>2. Around(head + Len(s)) =
            IF head + Len(s) < Size THEN head + Len(s) ELSE head + Len(s) - Size
      <4> DEFINE a == head + Len(s)
      <4>1. a \in 0..2 * Size - 1
        BY <3>1
      <4> HIDE DEF a
      <4>2. Around(a) = IF a < Size THEN a ELSE a - Size
        BY <4>1, Wrapped
      <4> QED
        BY <1>2, <4>2 DEF a, RingTypeOK, Indices
    <3> QED
      BY <2>1, <3>2
  <2>4. Used' = Used + Len(s)
    <3>1. Used' = IF head' >= tail THEN head' - tail ELSE head' - tail + Size
      BY <2>1, ContentsIsNext
    <3>2. \A u, n, h, t \in Int :
            /\ h \in 0..Size - 1 /\ t \in 0..Size - 1
            /\ u = (IF h >= t THEN h - t ELSE h - t + Size)
            /\ n >= 0 /\ u + n <= Size - 1
            => LET g == IF h + n < Size THEN h + n ELSE h + n - Size
               IN  (IF g >= t THEN g - t ELSE g - t + Size) = u + n
      OBVIOUS
    <3>3. head \in 0..Size - 1 /\ tail \in 0..Size - 1 /\ head \in Int /\ tail \in Int
      BY DEF RingTypeOK, Indices
    <3> QED
      BY <1>1, <1>2, <2>2, <2>3, <3>1, <3>2, <3>3
  <2>5. /\ Contents \o s \in Seq(Bytes) /\ Len(Contents \o s) = Used + Len(s)
        /\ \A i \in 1..Used : (Contents \o s)[i] = Contents[i]
        /\ \A i \in 1..Len(s) : (Contents \o s)[Used + i] = s[i]
    BY <1>1, <1>2
  <2>6. ASSUME NEW i \in 1..Used + Len(s)
        PROVE  Contents'[i] = (Contents \o s)[i]
    <3> DEFINE place == IF tail + i - 1 < Size THEN tail + i - 1 ELSE tail + i - 1 - Size
    <3>1. place \in Indices /\ place \in Int
      BY <1>1, <1>2, <2>2 DEF RingTypeOK, Indices
    <3>2. Contents'[i] = slot'[place]
      BY <2>1, <2>4, ContentsIsNext
    <3>3. place - head + Size \in 0..2 * Size - 1
      BY <3>1 DEF RingTypeOK, Indices
    <3>4. Around(place - head + Size) =
            IF i <= Used THEN i - 1 - Used + Size ELSE i - 1 - Used
      <4>1. Around(place - head + Size) =
              IF place - head + Size < Size THEN place - head + Size ELSE place - head
        BY <3>1, <3>3, Wrapped DEF RingTypeOK, Indices
      <4>2. \A u, n, h, t, j \in Int :
              /\ h \in 0..Size - 1 /\ t \in 0..Size - 1
              /\ u = (IF h >= t THEN h - t ELSE h - t + Size)
              /\ n >= 0 /\ u + n <= Size - 1 /\ j \in 1..u + n
              => LET q == IF t + j - 1 < Size THEN t + j - 1 ELSE t + j - 1 - Size
                 IN  (IF q - h + Size < Size THEN q - h + Size ELSE q - h)
                       = (IF j <= u THEN j - 1 - u + Size ELSE j - 1 - u)
        OBVIOUS
      <4>3. head \in 0..Size - 1 /\ tail \in 0..Size - 1 /\ head \in Int /\ tail \in Int
        BY DEF RingTypeOK, Indices
      <4>4. i \in Int
        OBVIOUS
      <4>5. (IF place - head + Size < Size THEN place - head + Size ELSE place - head)
              = (IF i <= Used THEN i - 1 - Used + Size ELSE i - 1 - Used)
        BY <1>1, <1>2, <2>2, <4>2, <4>3, <4>4
      <4> HIDE DEF place
      <4> QED
        BY <4>1, <4>5
    <3>5. CASE i \in 1..Used
      <4>1. ~(Around(place - head + Size) < Len(s))
        BY <1>1, <1>2, <2>2, <3>4, <3>5
      <4>2. slot'[place] = slot[place]
        BY <2>1, <3>1, <4>1
      <4>3. Contents[i] = slot[place]
        BY <3>5, ContentsIs
      <4> QED
        BY <2>5, <3>2, <3>5, <4>2, <4>3
    <3>6. CASE i \notin 1..Used
      <4>1. i - Used \in 1..Len(s) /\ Used + (i - Used) = i
        BY <1>1, <1>2, <3>6
      <4>2. Around(place - head + Size) = i - Used - 1
        BY <1>1, <3>4, <3>6, <4>1
      <4>3. Around(place - head + Size) < Len(s)
        BY <1>1, <1>2, <4>1, <4>2
      <4>4. slot'[place] = s[i - Used]
        <5>1. slot'[place] = s[Around(place - head + Size) + 1]
          BY <2>1, <3>1, <4>3
        <5>2. Around(place - head + Size) + 1 = i - Used
          BY <1>1, <4>1, <4>2
        <5> QED
          BY <5>1, <5>2
      <4>5. (Contents \o s)[Used + (i - Used)] = s[i - Used]
        BY <2>5, <4>1
      <4> QED
        BY <3>2, <4>1, <4>4, <4>5
    <3> HIDE DEF place
    <3> QED
      BY <3>5, <3>6
  <2>7. Contents' = Contents \o s
    BY <2>4, <2>5, <2>6, ContentsIsNext, SameSeq
  <2> QED
    BY <1>1, <2>2, <2>7 DEF Queue!PutAll
<1> QED
  BY <1>4, <1>5

\* The reader takes the oldest byte (uart_drain, rx_pop).
LEMMA PopByteQueues ==
  ASSUME RingTypeOK, RingTypeOK', PopByte
  PROVE  Queue!Get
<1> USE SizeNat
<1>1. /\ Contents \in Seq(Bytes) /\ Len(Contents) = Used
      /\ Used = IF head >= tail THEN head - tail ELSE head - tail + Size
      /\ Used \in 0..Size - 1 /\ Used > 0
  BY ContentsIs, UsedIs DEF Indices, PopByte
<1>2. slot' = slot /\ head' = head /\ tail' = IF tail + 1 < Size THEN tail + 1 ELSE 0
  <2>1. tail + 1 \in 0..2 * Size - 1
    BY DEF RingTypeOK, Indices
  <2>2. tail + 1 < Size \/ tail + 1 - Size = 0
    BY DEF RingTypeOK, Indices
  <2> QED
    BY <2>1, <2>2, Wrapped DEF PopByte, RingTypeOK, Indices
<1>3. Used' = Used - 1
  BY <1>1, <1>2, ContentsIsNext DEF RingTypeOK, Indices
<1>4. /\ Contents # <<>>
      /\ Tail(Contents) \in Seq(Bytes) /\ Len(Tail(Contents)) = Used - 1
      /\ \A i \in 1..Used - 1 : Tail(Contents)[i] = Contents[i + 1]
  BY <1>1
<1>5. ASSUME NEW i \in 1..Used - 1
      PROVE  Contents'[i] = Tail(Contents)[i]
  <2>1. Contents'[i] =
          slot[IF tail' + i - 1 < Size THEN tail' + i - 1 ELSE tail' + i - 1 - Size]
    BY <1>2, <1>3, ContentsIsNext
  <2>2. i + 1 \in 1..Used
    BY <1>1
  <2>3. Contents[i + 1] =
          slot[IF tail + (i + 1) - 1 < Size THEN tail + (i + 1) - 1 ELSE tail + (i + 1) - 1 - Size]
    BY <2>2, ContentsIs
  <2>4. (IF tail' + i - 1 < Size THEN tail' + i - 1 ELSE tail' + i - 1 - Size)
          = (IF tail + (i + 1) - 1 < Size THEN tail + (i + 1) - 1 ELSE tail + (i + 1) - 1 - Size)
    BY <1>1, <1>2 DEF RingTypeOK, Indices
  <2> QED
    BY <1>4, <2>1, <2>3, <2>4
<1>6. Contents' = Tail(Contents)
  BY <1>3, <1>4, <1>5, ContentsIsNext, SameSeq
<1> QED
  BY <1>4, <1>6 DEF Queue!Get

\* rx_flush empties the queue.
LEMMA FlushClears ==
  ASSUME RingTypeOK, RingTypeOK', Flush
  PROVE  Queue!Clear
<1>1. Used' = 0
  BY SizeNat, ContentsIsNext DEF Flush, RingTypeOK, Indices
<1>2. Contents' = <<>>
  BY <1>1, ContentsIsNext
<1> QED
  BY <1>2 DEF Queue!Clear

\* The rings of the UART (main.c) and of the link (at_modem.c) are bounded queues:
\* for any size, nothing is lost, doubled or reordered but a byte or a block that
\* finds no room.
THEOREM RingIsQueue == RingSpec => Queue!Spec
<1>1. RingInit => Contents = <<>>
  <2>1. RingInit => RingTypeOK
    BY SizeNat DEF RingInit, RingTypeOK, Indices
  <2>2. ASSUME RingInit PROVE Contents = <<>>
    <3>1. Used = 0
      BY <2>1, <2>2, UsedIs, SizeNat DEF RingInit
    <3> QED
      BY <2>1, <2>2, <3>1, ContentsIs
  <2> QED
    BY <2>2
<1>2. RingTypeOK /\ RingTypeOK' /\ [RingNext]_ringVars => [Queue!Next]_Contents
  <2> SUFFICES ASSUME RingTypeOK, RingTypeOK', [RingNext]_ringVars
               PROVE  [Queue!Next]_Contents
    OBVIOUS
  <2>1. CASE UNCHANGED ringVars
    BY <2>1 DEF ringVars, Contents, Used
  <2>2. ASSUME NEW b \in Bytes, PushByte(b) PROVE Queue!Next
    BY <2>2, PushByteQueues DEF Queue!Next
  <2>3. ASSUME NEW s \in Seq(Bytes), PushBlock(s) PROVE Queue!Next
    BY <2>3, PushBlockQueues DEF Queue!Next
  <2>4. CASE PopByte
    BY <2>4, PopByteQueues DEF Queue!Next
  <2>5. CASE Flush
    BY <2>5, FlushClears DEF Queue!Next
  <2> QED
    BY <2>1, <2>2, <2>3, <2>4, <2>5 DEF RingNext
<1> QED
  BY <1>1, <1>2, RingTypeCorrect, PTL DEF RingSpec, Queue!Spec

-----------------------------------------------------------------------------
(* The bytes of the program.                                               *)

Read == [byte : Bytes, gap : 0..Long]

LEMMA Constants ==
  /\ Plus \in Bytes /\ CR \in Bytes /\ LF \in Bytes
  /\ Guard \in Nat /\ Lag \in Nat /\ Wrap \in Nat /\ Wrap > 0
  /\ Long \in Nat /\ 0..Long # {} /\ Lag <= Long /\ Guard < Long /\ Long + Lag = Wrap
  /\ BlockMax \in Nat /\ SendMax \in Nat
<1>1. Guard \in Nat /\ Lag \in Nat /\ Wrap \in Nat /\ Guard + Lag < Wrap /\ 2 * Lag <= Wrap
  BY SerialAssumption
<1>2. Long \in Nat /\ Lag <= Long /\ Guard < Long /\ Long + Lag = Wrap /\ Wrap > 0
  BY <1>1 DEF Long
<1>3. 0 \in 0..Long
  BY <1>2
<1> QED
  BY <1>1, <1>2, <1>3, SerialAssumption

\* Online bytes are handled before they are forgotten, and only there.
HandledOK == mode # "ONLINE" \/ skipLf => handled = 0

PcOK ==
  /\ pc = "taken" => Used > 0
  /\ pc = "input" => block # <<>>

\* The bytes that were read wait in recent before those that were not.
Pending == [i \in 1..Len(recent) - handled |-> recent[handled + i].byte]

\* n bytes were handled by a step.
Moved(n) ==
  /\ recent' \in Seq(Read) /\ handled' \in 0..Len(recent')
  /\ Len(recent') - handled' = Len(recent) - handled - n
  /\ \A i \in 1..Len(recent) - handled - n :
       recent'[handled' + i].byte = recent[handled + n + i].byte

RecentOK == recent \in Seq(Read) /\ handled \in 0..Len(recent) /\ quiet \in 0..Long

WaitedOK == waited \in Seq(0..Lag) /\ Len(waited) = Len(recent) - handled

\* A tick that leaves the oldest byte in time leaves the others in time.
OldestFirst == \A i, j \in 1..Len(waited) : i <= j => waited[j] <= waited[i]

-----------------------------------------------------------------------------
(* Sequences.                                                              *)

LEMMA DropIs ==
  ASSUME NEW S, NEW s \in Seq(S), NEW n \in 0..Len(s)
  PROVE  /\ SubSeq(s, n + 1, Len(s)) \in Seq(S)
         /\ Len(SubSeq(s, n + 1, Len(s))) = Len(s) - n
         /\ \A i \in 1..Len(s) - n : SubSeq(s, n + 1, Len(s))[i] = s[n + i]
<1>1. Len(s) \in Nat /\ n \in Nat /\ n <= Len(s) /\ n + 1 \in Int /\ Len(s) \in Int
  OBVIOUS
<1>2. \A i \in n + 1..Len(s) : s[i] \in S
  BY <1>1
<1>3. /\ SubSeq(s, n + 1, Len(s)) \in Seq(S)
      /\ Len(SubSeq(s, n + 1, Len(s))) = IF n + 1 <= Len(s) THEN Len(s) - (n + 1) + 1 ELSE 0
      /\ \A i \in 1..Len(s) - (n + 1) + 1 : SubSeq(s, n + 1, Len(s))[i] = s[n + 1 + i - 1]
  BY <1>1, <1>2, SubSeqProperties
<1>4. Len(s) - (n + 1) + 1 = Len(s) - n /\ \A i \in Int : n + 1 + i - 1 = n + i
  BY <1>1
<1>5. \A i \in 1..Len(s) - n : SubSeq(s, n + 1, Len(s))[i] = s[n + i]
  BY <1>3, <1>4
<1>6. Len(SubSeq(s, n + 1, Len(s))) = Len(s) - n
  BY <1>1, <1>3
<1> QED
  BY <1>3, <1>5, <1>6

LEMMA EmptyIs ==
  ASSUME NEW S, NEW s \in Seq(S)
  PROVE  Len(s) \in Nat /\ (s = <<>> <=> Len(s) = 0)
OBVIOUS

LEMMA ElementIs ==
  ASSUME NEW S, NEW s \in Seq(S), NEW i \in 1..Len(s)
  PROVE  s[i] \in S
OBVIOUS

LEMMA TailIs ==
  ASSUME NEW S, NEW s \in Seq(S), s # <<>>
  PROVE  /\ Head(s) \in S /\ Head(s) = s[1]
         /\ Tail(s) \in Seq(S) /\ Len(Tail(s)) = Len(s) - 1 /\ Len(s) \in Nat \ {0}
         /\ \A i \in 1..Len(s) - 1 : Tail(s)[i] = s[i + 1]
OBVIOUS

LEMMA AppendIs ==
  ASSUME NEW S, NEW s \in Seq(S), NEW e \in S
  PROVE  /\ Append(s, e) \in Seq(S) /\ Len(Append(s, e)) = Len(s) + 1 /\ Len(s) \in Nat
         /\ \A i \in 1..Len(s) : Append(s, e)[i] = s[i]
         /\ Append(s, e)[Len(s) + 1] = e
OBVIOUS

-----------------------------------------------------------------------------
(* The bytes that wait, and those that were handled.                       *)

LEMMA ForgetIs ==
  ASSUME RecentOK, NEW n \in 0..Len(recent), Forget(n)
  PROVE  /\ recent' \in Seq(Read) /\ Len(recent') = Len(recent) - n
         /\ \A i \in 1..Len(recent) - n : recent'[i] = recent[n + i]
BY DropIs DEF Forget, RecentOK

LEMMA NotOnlineMoves ==
  ASSUME RecentOK, handled = 0, recent # <<>>, NotOnline
  PROVE  Moved(1) /\ quiet' \in 0..Long /\ handled' = 0
<1>1. Len(recent) \in Nat \ {0} /\ 1 \in 0..Len(recent)
  BY DEF RecentOK
<1>2. Forget(1) /\ handled' = 0 /\ quiet' \in 0..Long
  BY Constants DEF NotOnline, RecentOK
<1>3. /\ recent' \in Seq(Read) /\ Len(recent') = Len(recent) - 1
      /\ \A i \in 1..Len(recent) - 1 : recent'[i] = recent[1 + i]
  BY <1>1, <1>2, ForgetIs
<1> QED
  BY <1>1, <1>2, <1>3 DEF Moved

LEMMA OnlineMoves ==
  ASSUME RecentOK, handled < Len(recent), NEW b \in Bytes, KeptOnline(b)
  PROVE  Moved(1)
<1>1. Len(recent) \in Nat /\ handled \in Nat /\ handled + 1 \in 0..Len(recent)
  BY DEF RecentOK
<1>2. CASE Forget(handled + 1) /\ handled' = 0
  <2>1. /\ recent' \in Seq(Read) /\ Len(recent') = Len(recent) - (handled + 1)
        /\ \A i \in 1..Len(recent) - (handled + 1) : recent'[i] = recent[(handled + 1) + i]
    BY <1>1, <1>2, ForgetIs
  <2> QED
    BY <1>1, <1>2, <2>1 DEF Moved
<1>3. CASE Forget(1) /\ handled' = handled
  <2>1. 1 \in 0..Len(recent)
    BY <1>1
  <2>2. /\ recent' \in Seq(Read) /\ Len(recent') = Len(recent) - 1
        /\ \A i \in 1..Len(recent) - 1 : recent'[i] = recent[1 + i]
    BY <1>3, <2>1, ForgetIs
  <2>3. ASSUME NEW i \in 1..Len(recent) - handled - 1
        PROVE  recent'[handled + i] = recent[handled + 1 + i]
    <3>1. handled + i \in 1..Len(recent) - 1 /\ 1 + (handled + i) = handled + 1 + i
      BY <1>1
    <3> QED
      BY <2>2, <3>1
  <2> QED
    BY <1>1, <1>3, <2>2, <2>3 DEF Moved
<1>4. CASE handled' = handled + 1 /\ recent' = recent
  <2>1. \A i \in Int : handled' + i = handled + 1 + i
    BY <1>1, <1>4
  <2> QED
    BY <1>1, <1>4, <2>1 DEF Moved, RecentOK
<1> QED
  BY <1>2, <1>3, <1>4 DEF KeptOnline

LEMMA FirstAfterMoves ==
  ASSUME RecentOK, handled = 0, recent # <<>>,
         NEW silence \in [0..Long -> 0..Long], FirstAfter(silence)
  PROVE  Moved(1) /\ quiet' \in 0..Long /\ handled' = 0
<1>1. Len(recent) \in Nat \ {0}
  BY DEF RecentOK
<1>2. /\ handled' = 0
      /\ recent' = [ i \in 1..Len(recent) - 1 |->
                       IF i = 1 THEN [recent[2] EXCEPT !.gap = silence[@]] ELSE recent[i + 1] ]
  BY DEF FirstAfter
<1>3. quiet' \in 0..Long
  BY DEF FirstAfter, RecentOK
<1>4. ASSUME NEW i \in 1..Len(recent) - 1
      PROVE  /\ (IF i = 1 THEN [recent[2] EXCEPT !.gap = silence[@]] ELSE recent[i + 1]) \in Read
             /\ (IF i = 1 THEN [recent[2] EXCEPT !.gap = silence[@]] ELSE recent[i + 1]).byte
                  = recent[i + 1].byte
  <2>1. recent[i + 1] \in Read
    BY <1>1 DEF RecentOK
  <2>2. CASE i = 1
    BY <2>1, <2>2 DEF Read
  <2> QED
    BY <2>1, <2>2
<1>5. recent' \in Seq(Read) /\ Len(recent') = Len(recent) - 1
  BY <1>1, <1>2, <1>4
<1>6. \A i \in 1..Len(recent) - 1 : recent'[i].byte = recent[i + 1].byte
  BY <1>2, <1>4
<1> QED
  BY <1>1, <1>2, <1>3, <1>5, <1>6 DEF Moved

LEMMA LeaveMoves ==
  ASSUME RecentOK, LeaveOnline
  PROVE  Moved(0) /\ quiet' \in 0..Long /\ handled' = 0
<1>1. Len(recent) \in Nat /\ handled \in 0..Len(recent) /\ handled \in Nat
  BY DEF RecentOK
<1>2. Forget(handled) /\ handled' = 0 /\ quiet' \in 0..Long
  BY Constants DEF LeaveOnline, RecentOK
<1>3. /\ recent' \in Seq(Read) /\ Len(recent') = Len(recent) - handled
      /\ \A i \in 1..Len(recent) - handled : recent'[i] = recent[handled + i]
  BY <1>1, <1>2, ForgetIs
<1> QED
  BY <1>1, <1>2, <1>3 DEF Moved

\* A call that is answered makes nothing of the silence before the first byte.
LEMMA AnswerMoves ==
  ASSUME RecentOK, handled = 0, AutoAnswer
  PROVE  /\ Moved(0) /\ quiet' \in 0..Long /\ handled' = 0
         /\ Len(recent') = Len(recent)
         /\ recent # <<>> => recent'[1].gap = 0
         /\ \A i \in 2..Len(recent) : recent'[i] = recent[i]
<1>1. Len(recent) \in Nat /\ (recent # <<>> <=> Len(recent) > 0)
  BY DEF RecentOK
<1>2. /\ handled' = 0
      /\ recent' = [ i \in 1..Len(recent) |->
                       IF i = 1 THEN [recent[1] EXCEPT !.gap = 0] ELSE recent[i] ]
  BY DEF AutoAnswer
<1>3. quiet' \in 0..Long
  BY Constants DEF AutoAnswer, RecentOK
<1>4. ASSUME NEW i \in 1..Len(recent)
      PROVE  /\ (IF i = 1 THEN [recent[1] EXCEPT !.gap = 0] ELSE recent[i]) \in Read
             /\ (IF i = 1 THEN [recent[1] EXCEPT !.gap = 0] ELSE recent[i]).byte = recent[i].byte
             /\ i = 1 => (IF i = 1 THEN [recent[1] EXCEPT !.gap = 0] ELSE recent[i]).gap = 0
  <2>1. recent[i] \in Read
    BY <1>1 DEF RecentOK
  <2>2. CASE i = 1
    <3> DEFINE e == [recent[1] EXCEPT !.gap = 0]
    <3>1. recent[1] \in [byte : Bytes, gap : 0..Long] /\ 0 \in 0..Long
      BY <2>1, <2>2, Constants DEF Read
    <3>2. e \in [byte : Bytes, gap : 0..Long] /\ e.byte = recent[1].byte /\ e.gap = 0
      BY <3>1
    <3> HIDE DEF e
    <3> QED
      BY <2>2, <3>2 DEF e, Read
  <2> QED
    BY <2>1, <2>2
<1>5. recent' \in Seq(Read) /\ Len(recent') = Len(recent)
  BY <1>1, <1>2, <1>4
<1>6. \A i \in 1..Len(recent) : recent'[i].byte = recent[i].byte
  BY <1>2, <1>4
<1>7. recent # <<>> => recent'[1].gap = 0
  <2> SUFFICES ASSUME recent # <<>> PROVE recent'[1].gap = 0
    OBVIOUS
  <2>1. 1 \in 1..Len(recent)
    BY <1>1
  <2> QED
    BY <1>2, <1>4, <2>1
<1>8. \A i \in 2..Len(recent) : recent'[i] = recent[i]
  BY <1>1, <1>2
<1>9. Moved(0)
  <2>1. /\ recent' \in Seq(Read) /\ handled' \in 0..Len(recent')
        /\ Len(recent') - handled' = Len(recent) - handled - 0
    BY <1>1, <1>2, <1>5
  <2>2. \A i \in 1..Len(recent) - 0 - 0 : recent'[0 + i].byte = recent[0 + 0 + i].byte
    BY <1>1, <1>6
  <2> QED
    BY <1>2, <2>1, <2>2 DEF Moved
<1> QED
  BY <1>2, <1>3, <1>5, <1>7, <1>8, <1>9

LEMMA PendingIs ==
  ASSUME RecentOK
  PROVE  /\ Pending \in Seq(Bytes) /\ Len(Pending) = Len(recent) - handled
         /\ \A i \in 1..Len(recent) - handled : Pending[i] = recent[handled + i].byte
<1>1. Len(recent) - handled \in Nat
  BY DEF RecentOK
<1>2. ASSUME NEW i \in 1..Len(recent) - handled PROVE recent[handled + i].byte \in Bytes
  <2>1. handled + i \in 1..Len(recent)
    BY <1>1 DEF RecentOK
  <2>2. recent[handled + i] \in Read
    BY <2>1 DEF RecentOK
  <2> QED
    BY <2>2 DEF Read
<1> QED
  BY <1>1, <1>2 DEF Pending

LEMMA PendingIsNext ==
  RecentOK' =>
    /\ Pending' \in Seq(Bytes) /\ Len(Pending') = Len(recent') - handled'
    /\ \A i \in 1..Len(recent') - handled' : Pending'[i] = recent'[handled' + i].byte
<1> DEFINE P == /\ Pending \in Seq(Bytes) /\ Len(Pending) = Len(recent) - handled
                /\ \A i \in 1..Len(recent) - handled : Pending[i] = recent[handled + i].byte
<1>1. RecentOK => P
  BY PendingIs
<1> HIDE DEF P
<1>2. RecentOK' => P'
  BY <1>1, PTL
<1> QED
  BY <1>2 DEF P

LEMMA MovedPending ==
  ASSUME RecentOK, RecentOK', NEW n \in {0, 1}, Moved(n)
  PROVE  Pending' = IF n = 0 THEN Pending ELSE Tail(Pending)
<1>1. Len(recent) \in Nat /\ handled \in 0..Len(recent) /\ handled \in Nat
      /\ Len(recent') \in Nat /\ handled' \in 0..Len(recent') /\ handled' \in Nat
  BY DEF RecentOK
<1>2. /\ Pending \in Seq(Bytes) /\ Len(Pending) = Len(recent) - handled
      /\ \A i \in 1..Len(recent) - handled : Pending[i] = recent[handled + i].byte
  BY PendingIs
<1>3. /\ Pending' \in Seq(Bytes) /\ Len(Pending') = Len(recent') - handled'
      /\ \A i \in 1..Len(recent') - handled' : Pending'[i] = recent'[handled' + i].byte
  BY PendingIsNext
<1>4. /\ Len(recent') - handled' = Len(recent) - handled - n
      /\ \A i \in 1..Len(recent) - handled - n :
           recent'[handled' + i].byte = recent[handled + n + i].byte
  BY DEF Moved
<1>5. CASE n = 0
  <2>1. ASSUME NEW i \in 1..Len(Pending) PROVE Pending'[i] = Pending[i]
    <3>1. /\ i \in 1..Len(recent) - handled - n /\ i \in 1..Len(recent) - handled
          /\ i \in 1..Len(recent') - handled' /\ handled + n + i = handled + i
      BY <1>1, <1>2, <1>4, <1>5
    <3> QED
      BY <1>2, <1>3, <1>4, <3>1
  <2>2. Len(Pending') = Len(Pending)
    BY <1>1, <1>2, <1>3, <1>4, <1>5
  <2> QED
    BY <1>2, <1>3, <1>5, <2>1, <2>2, SameSeq
<1>6. CASE n = 1
  <2>1. Len(Pending) > 0
    BY <1>1, <1>2, <1>4, <1>6
  <2>2. Pending # <<>>
    BY <2>1
  <2>3. /\ Tail(Pending) \in Seq(Bytes) /\ Len(Tail(Pending)) = Len(Pending) - 1
        /\ \A i \in 1..Len(Pending) - 1 : Tail(Pending)[i] = Pending[i + 1]
    BY <1>2, <2>2, TailIs
  <2>4. ASSUME NEW i \in 1..Len(Pending')
        PROVE  Pending'[i] = Tail(Pending)[i]
    <3>1. i \in 1..Len(recent) - handled - 1 /\ i \in Int
      BY <1>1, <1>3, <1>4, <1>6
    <3>2. i + 1 \in 1..Len(recent) - handled /\ handled + (i + 1) = handled + 1 + i
      BY <1>1, <3>1
    <3>3. Pending'[i] = recent[handled + 1 + i].byte
      BY <1>3, <1>4, <1>6, <3>1
    <3>4. Pending[i + 1] = recent[handled + 1 + i].byte
      BY <1>2, <3>2
    <3> QED
      BY <1>2, <2>3, <3>1, <3>3, <3>4
  <2>5. Len(Pending') = Len(Pending) - 1
    BY <1>1, <1>2, <1>3, <1>4, <1>6
  <2> QED
    BY <1>3, <1>6, <2>3, <2>4, <2>5, SameSeq
<1> QED
  BY <1>5, <1>6

-----------------------------------------------------------------------------
(* The types.                                                              *)

RestOK ==
  /\ pc \in {"drain", "taken", "input", "poll"} /\ block \in Seq(Bytes)
  /\ mode \in Modes
  /\ expected \in 0..SendMax /\ payload \in Seq(Bytes) /\ Len(payload) < SendMax
  /\ held \in 0..3
  /\ elapsed \in 0..Wrap - 1 /\ sincePoll \in 0..Lag
  /\ owed \in Seq(Bytes) /\ raw \in Seq(Bytes)

FlagsOK ==
  /\ typed \in BOOLEAN /\ skipLf \in BOOLEAN
  /\ garbled \in BOOLEAN /\ endedByCr \in BOOLEAN

\* An escape is pending while three + are held.
PlusOK == escapePending = (held = 3)

LEMMA TypeParts == TypeOK <=> RingTypeOK /\ RestOK /\ FlagsOK /\ PlusOK /\ RecentOK /\ WaitedOK
BY DEF TypeOK, RestOK, FlagsOK, PlusOK, RecentOK, WaitedOK, Read

Waiting == IF pc = "taken" THEN Tail(Contents) ELSE Contents

Known == TypeOK /\ HandledOK /\ PcOK /\ RingInOrder /\ OldestFirst

LEMMA InOrderIs == RingInOrder <=> block \o Waiting = Pending
BY DEF RingInOrder, Waiting, Pending

LEMMA InOrderIsNext == RingInOrder' <=> block' \o Waiting' = Pending'
<1> DEFINE P == block \o Waiting = Pending
<1>1. RingInOrder <=> P
  BY InOrderIs
<1> HIDE DEF P
<1>2. RingInOrder' <=> P'
  BY <1>1, PTL
<1> QED
  BY <1>2 DEF P

LEMMA RingStep == Next => [RingNext]_ringVars
<1>1. ASSUME NEW b \in Bytes, Arrive(b) PROVE RingNext
  BY <1>1 DEF Arrive, RingNext
<1>2. ASSUME Tick PROVE UNCHANGED ringVars
  BY <1>2 DEF Tick
<1>3. ASSUME Loop PROVE PopByte \/ UNCHANGED ringVars
  BY <1>3 DEF Loop, DrainRead, DrainMove, DrainEnd, Input, Escape, GiveUp, PollOther,
              NoCarrier, AutoAnswer, GoOnline, mainVars
<1> QED
  BY <1>1, <1>2, <1>3 DEF Next, RingNext

LEMMA WaitingIs ==
  ASSUME RingTypeOK, PcOK
  PROVE  Waiting \in Seq(Bytes)
<1>1. Contents \in Seq(Bytes) /\ Len(Contents) = Used
  BY ContentsIs
<1>2. CASE pc = "taken"
  <2>1. Contents # <<>>
    BY <1>1, <1>2 DEF PcOK
  <2> QED
    BY <1>1, <1>2, <2>1, TailIs DEF Waiting
<1> QED
  BY <1>1, <1>2 DEF Waiting

\* A byte in the block is one that waits.
LEMMA BlockWaits ==
  ASSUME Known, pc = "input"
  PROVE  handled < Len(recent) /\ recent # <<>> /\ Head(block) \in Bytes
         /\ Tail(block) \in Seq(Bytes) /\ block \in Seq(Bytes) /\ block # <<>>
<1>1. RingTypeOK /\ RestOK /\ RecentOK /\ PcOK
  BY TypeParts DEF Known
<1>2. block \in Seq(Bytes) /\ block # <<>> /\ Waiting \in Seq(Bytes)
  BY <1>1, WaitingIs DEF PcOK, RestOK
<1>3. Len(block \o Waiting) > 0
  BY <1>2
<1>4. Len(Pending) > 0
  BY <1>3, InOrderIs DEF Known
<1>5. Len(recent) - handled > 0
  BY <1>1, <1>4, PendingIs
<1> QED
  BY <1>1, <1>2, <1>5, TailIs DEF RecentOK

\* What a byte that is read does to the history.
LEMMA InputMoves ==
  ASSUME Known, Input
  PROVE  Moved(1) /\ quiet' \in 0..Long /\ HandledOK'
<1>1. RecentOK /\ RestOK /\ HandledOK
  BY TypeParts DEF Known
<1>2. pc = "input" /\ handled < Len(recent) /\ recent # <<>> /\ Head(block) \in Bytes
  BY BlockWaits DEF Input
<1> DEFINE b == Head(block)
<1>3. /\ [after \in 0..Long |-> 0] \in [0..Long -> 0..Long]
      /\ [ after \in 0..Long |-> IF recent[1].gap + after < Long
                                 THEN recent[1].gap + after ELSE Long ]
           \in [0..Long -> 0..Long]
  <2>1. Len(recent) \in Nat \ {0}
    BY <1>1, <1>2 DEF RecentOK
  <2>2. recent[1] \in Read
    BY <1>1, <2>1 DEF RecentOK
  <2>3. recent[1].gap \in 0..Long
    BY <2>2 DEF Read
  <2>4. \A after \in 0..Long : 0 \in 0..Long /\ (IF recent[1].gap + after < Long
                                 THEN recent[1].gap + after ELSE Long) \in 0..Long
    BY <2>3, Constants
  <2> HIDE DEF b
  <2> QED
    BY <2>4
<1>4. ASSUME NotOnline, handled = 0 PROVE Moved(1) /\ quiet' \in 0..Long /\ HandledOK'
  BY <1>1, <1>2, <1>4, NotOnlineMoves DEF HandledOK
<1>5. ASSUME Connected \/ Between, handled = 0
      PROVE  Moved(1) /\ quiet' \in 0..Long /\ HandledOK'
  BY <1>1, <1>2, <1>3, <1>5, FirstAfterMoves DEF HandledOK, Connected, Between
<1>6. CASE Absorbed(b) /\ (IF mode = "ONLINE" THEN Between /\ UNCHANGED elapsed ELSE NotOnline)
  BY <1>1, <1>4, <1>5, <1>6 DEF Absorbed, HandledOK
<1>7. CASE mode = "ONLINE" /\ Online(b) /\ skipLf' = (mode = "COMMAND" /\ b = CR)
  <2>1. KeptOnline(b) /\ quiet' = quiet /\ mode' = mode /\ ~skipLf'
    BY <1>7 DEF Online
  <2>2. Moved(1)
    BY <1>1, <1>2, <2>1, OnlineMoves
  <2> QED
    BY <1>1, <1>7, <2>1, <2>2 DEF HandledOK, RecentOK
<1>8. CASE mode = "CIPSEND" /\ Payload(b)
  BY <1>1, <1>4, <1>8 DEF Payload, HandledOK
<1>9. CASE mode = "COMMAND" /\ CommandByte(b)
  <2>1. handled = 0 /\ (NotOnline \/ Connected)
    BY <1>1, <1>9 DEF CommandByte, GoOnline, HandledOK
  <2> QED
    BY <1>4, <1>5, <2>1
<1> QED
  BY <1>2, <1>6, <1>7, <1>8, <1>9 DEF Input

\* What a turn of at_modem_poll does to it.
Poll == Escape \/ GiveUp \/ NoCarrier \/ AutoAnswer \/ PollOther

LEMMA PollMoves ==
  ASSUME Known, Poll
  PROVE  Moved(0) /\ quiet' \in 0..Long /\ HandledOK'
<1>1. RecentOK /\ HandledOK
  BY TypeParts DEF Known
<1>2. CASE LeaveOnline
  BY <1>1, <1>2, LeaveMoves DEF HandledOK
<1>3. CASE UNCHANGED <<mode, recent, handled, quiet, skipLf>>
  BY <1>1, <1>3 DEF Moved, RecentOK, HandledOK
<1>4. CASE AutoAnswer
  <2>1. handled = 0
    BY <1>1, <1>4 DEF AutoAnswer, HandledOK
  <2> QED
    BY <1>1, <1>4, <2>1, AnswerMoves DEF HandledOK
<1> QED
  BY <1>2, <1>3, <1>4 DEF Poll, Escape, GiveUp, PollOther, NoCarrier, lineVars, recentVars,
                          timeVars

\* A byte that arrives waits behind the others, or is lost.
LEMMA ArriveWaits ==
  ASSUME Known, NEW b \in Bytes, Arrive(b)
  PROVE  /\ RecentOK' /\ HandledOK'
         /\ Pending' = IF Full THEN Pending ELSE Append(Pending, b)
<1>1. RecentOK /\ HandledOK /\ handled' = handled /\ mode' = mode /\ skipLf' = skipLf
  BY TypeParts DEF Known, Arrive, lineVars
<1>2. CASE Full
  BY <1>1, <1>2 DEF Arrive, RecentOK, HandledOK, Pending
<1>3. CASE ~Full
  <2> DEFINE r == [byte |-> b, gap |-> quiet]
  <2>1. recent' = Append(recent, r) /\ quiet' = 0
    BY <1>3 DEF Arrive
  <2>2. r \in Read /\ r.byte = b
    BY <1>1 DEF Read, RecentOK
  <2> HIDE DEF r
  <2>3. /\ recent' \in Seq(Read) /\ Len(recent') = Len(recent) + 1 /\ Len(recent) \in Nat
        /\ \A i \in 1..Len(recent) : recent'[i] = recent[i]
        /\ recent'[Len(recent) + 1] = r
    BY <1>1, <2>1, <2>2, AppendIs DEF RecentOK
  <2>4. RecentOK' /\ HandledOK'
    BY <1>1, <2>1, <2>3, Constants DEF RecentOK, HandledOK
  <2>5. handled \in Nat /\ handled <= Len(recent)
    BY <1>1, <2>3 DEF RecentOK
  <2>6. /\ Pending \in Seq(Bytes) /\ Len(Pending) = Len(recent) - handled
        /\ \A i \in 1..Len(recent) - handled : Pending[i] = recent[handled + i].byte
    BY <1>1, PendingIs
  <2>7. /\ Pending' \in Seq(Bytes) /\ Len(Pending') = Len(recent) + 1 - handled
        /\ \A i \in 1..Len(recent) + 1 - handled : Pending'[i] = recent'[handled + i].byte
    <3>1. Len(recent') - handled' = Len(recent) + 1 - handled
      BY <1>1, <2>3, <2>5
    <3>2. /\ Pending' \in Seq(Bytes) /\ Len(Pending') = Len(recent') - handled'
          /\ \A i \in 1..Len(recent') - handled' : Pending'[i] = recent'[handled' + i].byte
      BY <2>4, PendingIsNext
    <3> QED
      BY <1>1, <3>1, <3>2
  <2>8. /\ Append(Pending, b) \in Seq(Bytes) /\ Len(Append(Pending, b)) = Len(Pending) + 1
        /\ \A i \in 1..Len(Pending) : Append(Pending, b)[i] = Pending[i]
        /\ Append(Pending, b)[Len(Pending) + 1] = b
    BY <2>6, AppendIs
  <2>9. ASSUME NEW i \in 1..Len(Pending') PROVE Pending'[i] = Append(Pending, b)[i]
    <3>1. i \in 1..Len(recent) + 1 - handled /\ Pending'[i] = recent'[handled + i].byte
      BY <2>7
    <3>2. CASE i = Len(recent) + 1 - handled
      <4>1. handled + i = Len(recent) + 1 /\ i = Len(Pending) + 1
        BY <2>3, <2>5, <2>6, <3>2
      <4> QED
        BY <2>2, <2>3, <2>8, <3>1, <4>1
    <3>3. CASE i # Len(recent) + 1 - handled
      <4>1. /\ i \in 1..Len(recent) - handled /\ i \in 1..Len(Pending)
            /\ handled + i \in 1..Len(recent)
        BY <2>3, <2>5, <2>6, <3>1, <3>3
      <4> QED
        BY <2>3, <2>6, <2>8, <3>1, <4>1
    <3> QED
      BY <3>2, <3>3
  <2>10. Len(Pending') = Len(Append(Pending, b))
    BY <2>3, <2>5, <2>6, <2>7, <2>8
  <2>11. Pending' = Append(Pending, b)
    BY <2>7, <2>8, <2>9, <2>10, SameSeq
  <2> QED
    BY <1>3, <2>4, <2>11
<1> QED
  BY <1>2, <1>3

-----------------------------------------------------------------------------
(* Each part of the invariant.                                             *)

LEMMA Steps ==
  ASSUME Next
  PROVE  \/ \E b \in Bytes : Arrive(b)
         \/ Tick \/ DrainRead \/ DrainMove \/ DrainEnd \/ Input \/ Poll
BY DEF Next, Loop, Poll

LEMMA PlusKept ==
  ASSUME Known, Next
  PROVE  PlusOK'
<1>1. PlusOK /\ held \in 0..3
  BY TypeParts DEF Known, RestOK
<1>2. CASE UNCHANGED plusVars
  BY <1>1, <1>2, Zenon DEF PlusOK, plusVars
<1>3. CASE held' = 0 /\ escapePending' = FALSE
  <2>1. ~(held' = 3)
    BY <1>3
  <2> QED
    BY <1>3, <2>1, Zenon DEF PlusOK
<1>4. CASE held' = held + 1 /\ escapePending' = (held = 2)
  <2>1. held = 2 <=> held' = 3
    BY <1>1, <1>4
  <2> QED
    BY <1>4, <2>1, Zenon DEF PlusOK
<1>5. UNCHANGED plusVars \/ (held' = 0 /\ escapePending' = FALSE)
      \/ (held' = held + 1 /\ escapePending' = (held = 2))
  BY DEF Next, Loop, Arrive, Tick, DrainRead, DrainMove, DrainEnd, Escape, GiveUp, PollOther,
         NoCarrier, AutoAnswer, Input, Online, Payload, CommandByte, GoOnline
<1> QED
  BY <1>2, <1>3, <1>4, <1>5

LEMMA FlagsKept ==
  ASSUME Known, Next
  PROVE  FlagsOK'
<1> USE DEF mainVars, lineVars, sendVars, plusVars, sentVars, timeVars
<1> USE DEF Arrive, Tick, DrainRead, DrainMove, DrainEnd, Escape, GiveUp, PollOther, NoCarrier,
            AutoAnswer, LeaveOnline
<1>1. FlagsOK
  BY TypeParts DEF Known
<1>2. typed' \in BOOLEAN
  BY <1>1 DEF Next, Loop, FlagsOK, Input, Online, Payload, CommandByte, GoOnline
<1>3. skipLf' \in BOOLEAN
  BY <1>1 DEF Next, Loop, FlagsOK, Input, Absorbed
<1>4. garbled' \in BOOLEAN
  BY <1>1 DEF Next, Loop, FlagsOK, Input, Online, Payload, CommandByte, GoOnline, Sent
<1>5. endedByCr' \in BOOLEAN
  BY <1>1 DEF Next, Loop, FlagsOK, Input, Online, Payload, CommandByte, GoOnline
<1> QED
  BY <1>2, <1>3, <1>4, <1>5 DEF FlagsOK

\* What was handed over, all or part of it taken, is no longer owed.
LEMMA SentLeaves ==
  ASSUME NEW g \in Seq(Bytes), NEW s \in Seq(Bytes), Sent(s, g)
  PROVE  owed' \in Seq(Bytes)
<1>1. Len(s) \in Nat /\ Len(g) \in Nat /\ owed' = SubSeq(g, Len(s) + 1, Len(g))
  BY DEF Sent
<1>2. CASE Len(s) <= Len(g)
  <2>1. Len(s) \in 0..Len(g)
    BY <1>1, <1>2
  <2> QED
    BY <1>1, <2>1, DropIs
<1>3. CASE Len(s) > Len(g)
  <2>1. SubSeq(g, Len(s) + 1, Len(g)) = <<>>
    BY <1>1, <1>3, SubSeqEmpty
  <2> QED
    BY <1>1, <2>1
<1> QED
  BY <1>1, <1>2, <1>3

LEMMA RestKept ==
  ASSUME Known, Next
  PROVE  RestOK'
<1>1. RingTypeOK /\ RestOK /\ RecentOK
  BY TypeParts DEF Known
<1> USE DEF mainVars, lineVars, sendVars, plusVars, sentVars, timeVars
<1>2. ASSUME NEW b \in Bytes, Arrive(b) PROVE RestOK'
  BY <1>1, <1>2 DEF Arrive, RestOK
<1>3. CASE Tick
  <2>1. elapsed' \in 0..Wrap - 1 /\ sincePoll' \in 0..Lag
    BY <1>1, <1>3, Constants DEF Tick, RestOK
  <2> QED
    BY <1>1, <1>3, <2>1 DEF Tick, RestOK
<1>4. CASE DrainRead
  <2>1. slot[tail] \in Bytes
    BY <1>1 DEF RingTypeOK
  <2>2. Append(block, slot[tail]) \in Seq(Bytes)
    BY <1>1, <2>1 DEF RestOK
  <2> QED
    BY <1>1, <1>4, <2>2 DEF DrainRead, RestOK
<1>5. CASE DrainMove
  BY <1>1, <1>5 DEF DrainMove, RestOK
<1>6. CASE DrainEnd
  BY <1>1, <1>6 DEF DrainEnd, RestOK
<1>7. CASE Poll
  <2>1. CASE Escape
    BY <1>1, <2>1, Constants DEF Escape, LeaveOnline, RestOK, Modes
  <2>2. CASE GiveUp
    <3>1. owed' \in Seq(Bytes)
      <4>1. Released \in Seq(Bytes) /\ Len(Released) \in Nat
        BY <1>1, Constants DEF Released, RestOK
      <4> QED
        BY <1>1, <2>2, <4>1, SentLeaves DEF GiveUp, RestOK
    <3> QED
      BY <1>1, <2>2, <3>1, Constants DEF GiveUp, RestOK
  <2>3. CASE PollOther
    BY <1>1, <2>3, Constants DEF PollOther, PollDone, RestOK
  <2>4. CASE NoCarrier
    BY <1>1, <2>4, Constants DEF NoCarrier, LeaveOnline, RestOK, Modes
  <2>5. CASE AutoAnswer
    <3>1. /\ mode' = "ONLINE" /\ held' = 0 /\ elapsed' = 0 /\ owed' = <<>>
          /\ pc' = "drain" /\ sincePoll' = 0
          /\ UNCHANGED <<block, expected, payload, raw>>
      BY <2>5 DEF AutoAnswer, GoOnline, PollDone
    <3> QED
      BY <1>1, <3>1, Constants DEF RestOK, Modes
  <2> QED
    BY <1>7, <2>1, <2>2, <2>3, <2>4, <2>5 DEF Poll
<1>8. CASE Input
  <2> DEFINE b == Head(block)
  <2>1. b \in Bytes /\ Tail(block) \in Seq(Bytes) /\ pc = "input" /\ handled < Len(recent)
    BY <1>8, BlockWaits DEF Input
  <2> HIDE DEF b
  <2>2. block' \in Seq(Bytes) /\ pc' \in {"drain", "taken", "input", "poll"}
    BY <1>8, <2>1 DEF Input
  <2>3. sincePoll' = sincePoll
    BY <1>8 DEF Input, NotOnline, Between, Connected, FirstAfter, Online, Payload, CommandByte
  <2>4. CASE /\ Absorbed(b)
             /\ (IF mode = "ONLINE" THEN Between /\ UNCHANGED elapsed ELSE NotOnline)
             /\ raw' = IF mode = "CIPSEND" THEN Append(raw, b) ELSE raw
             /\ UNCHANGED << mode, typed, plusVars, sentVars, expected, payload, endedByCr >>
    <3>1. elapsed' = elapsed /\ raw' \in Seq(Bytes)
      BY <1>1, <2>1, <2>4 DEF NotOnline, RestOK
    <3> QED
      BY <1>1, <2>2, <2>3, <2>4, <3>1 DEF RestOK
  <2>5. CASE mode = "ONLINE" /\ Online(b)
    <3>1. /\ elapsed' = 0 /\ mode' = mode /\ raw' = raw
          /\ payload' = payload /\ expected' = expected
      BY <2>5 DEF Online
    <3>2. held' \in 0..3
      BY <1>1, <2>5 DEF Online, Hold, RestOK
    <3>3. owed' \in Seq(Bytes)
      <4>1. Append(owed, b) \in Seq(Bytes)
        BY <1>1, <2>1 DEF RestOK
      <4>2. ASSUME NEW s \in Seq(Bytes), Sent(s, Append(owed, b))
            PROVE  owed' \in Seq(Bytes)
        <5> DEFINE g == Append(owed, b)
        <5> HIDE DEF g
        <5>1. g \in Seq(Bytes) /\ Sent(s, g)
          BY <4>1, <4>2 DEF g
        <5> QED
          BY <5>1, SentLeaves
      <4>3. (IF held > 0 THEN Released ELSE <<>>) \o <<b>> \in Seq(Bytes)
        <5>1. Released \in Seq(Bytes)
          BY <1>1, Constants DEF Released, RestOK
        <5> QED
          BY <2>1, <5>1
      <4> QED
        BY <1>1, <2>5, <4>1, <4>2, <4>3 DEF Online, RestOK
    <3> QED
      BY <1>1, <2>2, <2>3, <3>1, <3>2, <3>3, Constants DEF RestOK
  <2>6. CASE mode = "CIPSEND" /\ Payload(b)
    <3>1. /\ payload' \in Seq(Bytes) /\ Len(payload') < SendMax
          /\ expected' \in 0..SendMax /\ mode' \in Modes
      <4>1. Append(payload, b) \in Seq(Bytes) /\ Len(Append(payload, b)) = Len(payload) + 1
        BY <1>1, <2>1, AppendIs DEF RestOK
      <4>2. Len(payload) \in Nat
        BY <1>1 DEF RestOK
      <4>3. CASE /\ Len(payload) + 1 < expected
                 /\ payload' = Append(payload, b) /\ UNCHANGED <<mode, expected>>
        BY <1>1, <4>1, <4>2, <4>3, Constants DEF RestOK
      <4>4. CASE mode' = "COMMAND" /\ expected' = 0 /\ payload' = <<>>
        <5>1. SendMax > 0 /\ SendMax \in Nat
          BY SerialAssumption
        <5> QED
          BY <4>4, <5>1 DEF Modes
      <4> QED
        BY <2>6, <4>3, <4>4 DEF Payload
    <3>2. raw' \in Seq(Bytes) /\ elapsed' = elapsed
      <4>1. Append(raw, b) \in Seq(Bytes)
        BY <1>1, <2>1, AppendIs DEF RestOK
      <4>2. raw' = (IF mode' = "COMMAND" THEN <<>> ELSE Append(raw, b)) /\ elapsed' = elapsed
        BY <2>6 DEF Payload, NotOnline
      <4> QED
        BY <4>1, <4>2
    <3>3. UNCHANGED <<held, owed>>
      BY <2>6 DEF Payload
    <3> QED
      BY <1>1, <2>2, <2>3, <3>1, <3>2, <3>3 DEF RestOK
  <2>7. CASE mode = "COMMAND" /\ CommandByte(b)
    <3>1. CASE NotOnline /\ UNCHANGED <<mode, held, owed, raw, expected, payload>>
      <4>1. elapsed' = elapsed
        BY <3>1 DEF NotOnline
      <4> QED
        BY <1>1, <2>2, <2>3, <3>1, <4>1 DEF RestOK
    <3>2. CASE GoOnline
      <4>1. /\ mode' = "ONLINE" /\ held' = 0 /\ elapsed' = 0 /\ owed' = <<>>
            /\ expected' = expected /\ payload' = payload /\ raw' = raw
        BY <3>2 DEF GoOnline
      <4> QED
        BY <1>1, <2>2, <2>3, <4>1, Constants DEF RestOK, Modes
    <3>3. CASE /\ mode' = "CIPSEND" /\ expected' \in 1..SendMax /\ payload' = <<>>
               /\ raw' = <<>> /\ NotOnline
               /\ UNCHANGED <<held, owed>>
      <4>1. elapsed' = elapsed
        BY <3>3 DEF NotOnline
      <4>2. SendMax \in Nat /\ SendMax > 0
        BY SerialAssumption
      <4>3. expected' \in 0..SendMax
        BY <3>3, <4>2
      <4> QED
        BY <1>1, <2>2, <2>3, <3>3, <4>1, <4>2, <4>3 DEF RestOK, Modes
    <3> QED
      BY <2>7, <3>1, <3>2, <3>3 DEF CommandByte
  <2> QED
    BY <1>8, <2>4, <2>5, <2>6, <2>7 DEF Input, b
<1> QED
  BY <1>2, <1>3, <1>4, <1>5, <1>6, <1>7, <1>8, Steps

LEMMA RingKept ==
  ASSUME Known, Next
  PROVE  RingTypeOK'
BY RingStep, RingTyped, TypeParts DEF Known

LEMMA RecentKept ==
  ASSUME Known, Next
  PROVE  RecentOK' /\ HandledOK'
<1>1. RecentOK /\ HandledOK
  BY TypeParts DEF Known
<1>2. ASSUME NEW b \in Bytes, Arrive(b) PROVE RecentOK' /\ HandledOK'
  BY <1>2, ArriveWaits
<1>3. CASE Tick
  BY <1>1, <1>3, Constants DEF Tick, Later, RecentOK, HandledOK, lineVars
<1>4. CASE DrainRead \/ DrainMove \/ DrainEnd
  BY <1>1, <1>4 DEF DrainRead, DrainMove, DrainEnd, RecentOK, HandledOK, lineVars, timeVars,
     recentVars
<1>5. CASE Input
  BY <1>5, InputMoves DEF RecentOK, Moved
<1>6. CASE Poll
  BY <1>6, PollMoves DEF RecentOK, Moved
<1> QED
  BY <1>2, <1>3, <1>4, <1>5, <1>6, Steps

\* The bytes that wait are those not read, and none waits longer than Lag.
LEMMA WaitedKept ==
  ASSUME Known, Next
  PROVE  WaitedOK' /\ OldestFirst'
<1>1. RecentOK /\ WaitedOK /\ OldestFirst /\ RecentOK'
  BY TypeParts, RecentKept DEF Known
<1>2. /\ waited \in Seq(0..Lag) /\ Len(waited) = Len(recent) - handled /\ Len(waited) \in Nat
      /\ \A i \in 1..Len(waited) : waited[i] \in 0..Lag
      /\ Lag \in Nat /\ 0 \in 0..Lag
  BY <1>1, Constants DEF WaitedOK
<1>3. CASE waited' = waited /\ Len(recent') - handled' = Len(recent) - handled
  BY <1>1, <1>3 DEF WaitedOK, OldestFirst
<1>4. ASSUME NEW b \in Bytes, Arrive(b) PROVE WaitedOK' /\ OldestFirst'
  <2>1. CASE Full
    BY <1>3, <1>4, <2>1 DEF Arrive
  <2>2. CASE ~Full
    <3>1. waited' = Append(waited, 0) /\ handled' = handled
      BY <1>4, <2>2 DEF Arrive
    <3>2. Len(recent') = Len(recent) + 1
      BY <1>1, <1>4, <2>2 DEF Arrive, RecentOK
    <3>3. /\ waited' \in Seq(0..Lag) /\ Len(waited') = Len(waited) + 1
          /\ \A i \in 1..Len(waited) : waited'[i] = waited[i]
          /\ waited'[Len(waited) + 1] = 0
      <4> DEFINE Times == 0..Lag
      <4>1. waited \in Seq(Times) /\ 0 \in Times
        BY <1>2
      <4> HIDE DEF Times
      <4>2. /\ waited' \in Seq(Times) /\ Len(waited') = Len(waited) + 1
            /\ \A i \in 1..Len(waited) : waited'[i] = waited[i]
            /\ waited'[Len(waited) + 1] = 0
        BY <3>1, <4>1, AppendIs
      <4> QED
        BY <4>2 DEF Times
    <3>4. WaitedOK'
      BY <1>1, <1>2, <3>1, <3>2, <3>3 DEF WaitedOK, RecentOK
    <3>5. ASSUME NEW i \in 1..Len(waited'), NEW j \in 1..Len(waited'), i <= j
          PROVE  waited'[j] <= waited'[i]
      <4>1. CASE j = Len(waited) + 1
        <5>1. waited'[i] \in 0..Lag
          BY <3>3, ElementIs
        <5> QED
          BY <3>3, <4>1, <5>1
      <4>2. CASE j # Len(waited) + 1
        <5>1. i \in 1..Len(waited) /\ j \in 1..Len(waited)
          BY <1>2, <3>3, <3>5, <4>2
        <5> QED
          BY <1>1, <3>3, <3>5, <5>1 DEF OldestFirst
      <4> QED
        BY <4>1, <4>2
    <3> QED
      BY <3>4, <3>5 DEF OldestFirst
  <2> QED
    BY <2>1, <2>2
<1>5. CASE Tick
  <2>1. /\ waited # <<>> => Head(waited) < Lag
        /\ waited' = [i \in 1..Len(waited) |-> waited[i] + 1]
        /\ Len(recent') - handled' = Len(recent) - handled
    BY <1>5 DEF Tick
  <2>2. ASSUME NEW i \in 1..Len(waited) PROVE waited[i] + 1 \in 0..Lag
    <3>1. waited # <<>> /\ 1 \in 1..Len(waited) /\ 1 <= i
      BY <1>2
    <3>2. Head(waited) = waited[1]
      BY <1>2
    <3>3. waited[i] <= waited[1] /\ waited[1] < Lag /\ waited[i] \in 0..Lag /\ waited[1] \in 0..Lag
      BY <1>1, <1>2, <2>1, <3>1, <3>2 DEF OldestFirst
    <3> QED
      BY <1>2, <3>3
  <2>3. /\ waited' \in Seq(0..Lag) /\ Len(waited') = Len(waited)
        /\ \A i \in 1..Len(waited) : waited'[i] = waited[i] + 1
    <3> DEFINE Times == 0..Lag
    <3>1. \A i \in 1..Len(waited) : waited[i] + 1 \in Times
      BY <2>2
    <3> HIDE DEF Times
    <3>2. PICK n \in Nat : n = Len(waited)
      BY <1>2
    <3>3. waited' = [i \in 1..n |-> waited[i] + 1]
      BY <2>1, <3>2
    <3>4. \A i \in 1..n : waited[i] + 1 \in Times
      BY <3>1, <3>2
    <3>5. waited' \in Seq(Times) /\ Len(waited') = n
      BY <3>3, <3>4
    <3> QED
      BY <3>2, <3>3, <3>5 DEF Times
  <2>4. WaitedOK'
    BY <1>2, <2>1, <2>3 DEF WaitedOK
  <2>5. ASSUME NEW i \in 1..Len(waited'), NEW j \in 1..Len(waited'), i <= j
        PROVE  waited'[j] <= waited'[i]
    <3>1. waited[j] <= waited[i] /\ waited[i] \in 0..Lag /\ waited[j] \in 0..Lag
      BY <1>1, <1>2, <2>3, <2>5 DEF OldestFirst
    <3> QED
      BY <1>2, <2>3, <3>1
  <2> QED
    BY <2>4, <2>5 DEF OldestFirst
<1>6. CASE DrainRead \/ DrainMove \/ DrainEnd
  BY <1>3, <1>6 DEF DrainRead, DrainMove, DrainEnd, recentVars
<1>7. CASE Input
  <2>1. waited' = Tail(waited) /\ waited # <<>>
    <3>1. handled < Len(recent)
      BY <1>7, BlockWaits DEF Input
    <3> QED
      BY <1>1, <1>2, <1>7, <3>1 DEF Input, RecentOK
  <2>2. Len(recent') - handled' = Len(recent) - handled - 1
    BY <1>7, InputMoves DEF Moved
  <2>3. /\ waited' \in Seq(0..Lag) /\ Len(waited') = Len(waited) - 1
        /\ \A i \in 1..Len(waited) - 1 : waited'[i] = waited[i + 1]
    BY <1>2, <2>1, TailIs
  <2>4. WaitedOK'
    BY <1>2, <2>2, <2>3 DEF WaitedOK
  <2>5. ASSUME NEW i \in 1..Len(waited'), NEW j \in 1..Len(waited'), i <= j
        PROVE  waited'[j] <= waited'[i]
    <3>1. i + 1 \in 1..Len(waited) /\ j + 1 \in 1..Len(waited) /\ i + 1 <= j + 1
          /\ i \in 1..Len(waited) - 1 /\ j \in 1..Len(waited) - 1
      BY <1>2, <2>3, <2>5
    <3>2. waited[j + 1] <= waited[i + 1]
      BY <1>1, <3>1 DEF OldestFirst
    <3> QED
      BY <2>3, <3>1, <3>2
  <2> QED
    BY <2>4, <2>5 DEF OldestFirst
<1>8. CASE Poll
  <2>1. Len(recent') - handled' = Len(recent) - handled
    BY <1>1, <1>8, PollMoves DEF Moved, RecentOK
  <2>2. waited' = waited
    BY <1>8 DEF Poll, Escape, GiveUp, PollOther, NoCarrier, AutoAnswer, LeaveOnline, recentVars
  <2> QED
    BY <1>3, <2>1, <2>2
<1> QED
  BY <1>4, <1>5, <1>6, <1>7, <1>8, Steps

-----------------------------------------------------------------------------
(* The bytes are read in order.                                            *)

LEMMA AppendConcat ==
  ASSUME NEW S, NEW s \in Seq(S), NEW t \in Seq(S), NEW e \in S
  PROVE  s \o Append(t, e) = Append(s \o t, e)
OBVIOUS

LEMMA TailAppend ==
  ASSUME NEW S, NEW s \in Seq(S), s # <<>>, NEW e \in S
  PROVE  Tail(Append(s, e)) = Append(Tail(s), e) /\ Append(s, e) # <<>>
OBVIOUS

LEMMA TailConcat ==
  ASSUME NEW S, NEW s \in Seq(S), s # <<>>, NEW t \in Seq(S)
  PROVE  Tail(s \o t) = Tail(s) \o t
OBVIOUS

LEMMA HeadMoves ==
  ASSUME NEW S, NEW s \in Seq(S), NEW t \in Seq(S), t # <<>>
  PROVE  Append(s, Head(t)) \o Tail(t) = s \o t
OBVIOUS

\* No byte overtakes another, or is lost once it is in the ring (main.c, uart_drain).
LEMMA OrderKept ==
  ASSUME Known, Next
  PROVE  RingInOrder' /\ PcOK'
<1>1. RingTypeOK /\ RestOK /\ RecentOK /\ PcOK /\ block \o Waiting = Pending
  BY TypeParts, InOrderIs DEF Known
<1>2. RingTypeOK' /\ RecentOK'
  BY RingKept, RecentKept
<1>3. Contents \in Seq(Bytes) /\ Len(Contents) = Used /\ Used \in Nat
  BY <1>1, ContentsIs, UsedIs DEF Indices
<1>4. Contents' \in Seq(Bytes) /\ Len(Contents') = Used'
  BY <1>2, ContentsIsNext
<1>5. Waiting \in Seq(Bytes) /\ block \in Seq(Bytes)
  BY <1>1, WaitingIs DEF RestOK
<1>6. SUFFICES block' \o Waiting' = Pending' /\ PcOK'
  BY InOrderIsNext
<1>7. ASSUME UNCHANGED ringVars PROVE Contents' = Contents /\ Used' = Used
  BY <1>7 DEF ringVars, Contents, Used
<1>8. ASSUME NEW b \in Bytes, Arrive(b) PROVE block' \o Waiting' = Pending' /\ PcOK'
  <2>1. pc' = pc /\ block' = block /\ PushByte(b)
    BY <1>8 DEF Arrive, mainVars
  <2>2. Pending' = IF Full THEN Pending ELSE Append(Pending, b)
    BY <1>8, ArriveWaits
  <2>3. CASE Full
    <3>1. Contents' = Contents /\ Used' = Used
      BY <1>7, <2>1, <2>3 DEF PushByte
    <3> QED
      BY <1>1, <2>1, <2>2, <2>3, <3>1 DEF Waiting, PcOK
  <2>4. CASE ~Full
    <3>1. Used < Size - 1
      BY <1>1, <2>4, FullIs, UsedIs, SizeNat DEF Indices
    <3>2. Contents' = Append(Contents, b)
      BY <1>1, <1>2, <1>3, <2>1, <3>1, PushByteQueues DEF Queue!Put
    <3>3. Used' = Used + 1
      BY <1>3, <1>4, <3>2
    <3>4. Waiting' = Append(Waiting, b)
      <4>1. CASE pc = "taken"
        <5>1. Contents # <<>>
          BY <1>1, <1>3, <4>1 DEF PcOK
        <5> QED
          BY <1>3, <2>1, <3>2, <4>1, <5>1, TailAppend DEF Waiting
      <4> QED
        BY <2>1, <3>2, <4>1 DEF Waiting
    <3>5. PcOK'
      BY <1>1, <1>3, <2>1, <3>3 DEF PcOK
    <3> QED
      BY <1>1, <1>5, <2>1, <2>2, <2>4, <3>4, <3>5, AppendConcat
  <2> QED
    BY <2>3, <2>4
<1>9. CASE Tick
  <2>1. Contents' = Contents /\ Used' = Used
    BY <1>7, <1>9 DEF Tick
  <2> QED
    BY <1>1, <1>9, <2>1 DEF Tick, Waiting, PcOK, Pending, mainVars
<1>10. CASE DrainRead
  <2>1. Contents' = Contents /\ Used' = Used /\ Used > 0 /\ pc = "drain" /\ pc' = "taken"
    BY <1>7, <1>10 DEF DrainRead
  <2>2. Contents # <<>> /\ Head(Contents) = slot[tail]
    <3>1. 1 \in 1..Used
      BY <1>3, <2>1
    <3>2. Contents[1] = slot[IF tail + 1 - 1 < Size THEN tail + 1 - 1 ELSE tail + 1 - 1 - Size]
      BY <1>1, <3>1, ContentsIs
    <3>3. tail + 1 - 1 = tail /\ tail < Size
      BY <1>1, SizeNat DEF RingTypeOK, Indices
    <3> QED
      BY <1>3, <2>1, <3>2, <3>3
  <2>3. block' = Append(block, Head(Contents)) /\ Pending' = Pending
    BY <1>10, <2>2 DEF DrainRead, Pending, recentVars
  <2>4. Waiting = Contents /\ Waiting' = Tail(Contents)
    BY <2>1 DEF Waiting
  <2> QED
    BY <1>1, <1>3, <1>5, <2>1, <2>2, <2>3, <2>4, HeadMoves DEF PcOK
<1>11. CASE DrainMove
  <2>1. Contents' = Tail(Contents)
    BY <1>1, <1>2, <1>11, PopByteQueues DEF DrainMove, Queue!Get
  <2> QED
    BY <1>1, <1>11, <2>1 DEF DrainMove, Waiting, PcOK, Pending, recentVars
<1>12. CASE DrainEnd
  <2>1. Contents' = Contents
    BY <1>7, <1>12 DEF DrainEnd
  <2> QED
    BY <1>1, <1>12, <2>1 DEF DrainEnd, Waiting, PcOK, Pending, recentVars
<1>13. CASE Input
  <2>1. Contents' = Contents /\ pc = "input" /\ block' = Tail(block)
        /\ pc' = IF block' = <<>> THEN "poll" ELSE "input"
    BY <1>7, <1>13 DEF Input
  <2>2. block # <<>> /\ Waiting' = Waiting /\ PcOK'
    BY <1>1, <2>1 DEF Waiting, PcOK
  <2>3. Pending' = Tail(Pending)
    BY <1>1, <1>2, <1>13, InputMoves, MovedPending
  <2> QED
    BY <1>1, <1>5, <2>1, <2>2, <2>3, TailConcat
<1>14. CASE Poll
  <2>1. Contents' = Contents /\ pc = "poll" /\ pc' \in {"drain", "poll"} /\ block' = block
    BY <1>7, <1>14 DEF Poll, Escape, GiveUp, PollOther, NoCarrier, AutoAnswer, PollDone,
                       mainVars
  <2>2. Pending' = Pending
    BY <1>1, <1>2, <1>14, PollMoves, MovedPending
  <2> QED
    BY <1>1, <2>1, <2>2 DEF Waiting, PcOK
<1> QED
  BY <1>8, <1>9, <1>10, <1>11, <1>12, <1>13, <1>14, Steps

-----------------------------------------------------------------------------
(* Data go to the link once and in order.                                  *)

LEMMA AllSent ==
  ASSUME NEW s \in Seq(Bytes), Sent(s, s)
  PROVE  owed' = <<>> /\ (garbled' => garbled)
<1>1. SubSeq(s, Len(s) + 1, Len(s)) = <<>>
  BY SubSeqEmpty
<1>2. ASSUME NEW n \in 0..Len(s) PROVE IsPrefix(SubSeq(s, 1, n), s)
  <2>1. Len(s) \in Nat /\ n \in Nat /\ n <= Len(s)
    OBVIOUS
  <2>2. Len(SubSeq(s, 1, n)) = n /\ SubSeq(SubSeq(s, 1, n), 1, n) = SubSeq(s, 1, n)
    BY <2>1
  <2> QED
    BY <2>1, <2>2 DEF IsPrefix
<1>3. PICK n \in 0..Len(s) : garbled' = (garbled \/ ~IsPrefix(SubSeq(s, 1, n), s))
  BY DEF Sent
<1>4. garbled' => garbled
  BY <1>2, <1>3
<1> QED
  BY <1>1, <1>4 DEF Sent

LEMMA NoneHeld == ASSUME held = 0 PROVE [i \in 1..held |-> Plus] = <<>>
OBVIOUS

LEMMA NoneHeldNext == ASSUME held' = 0 PROVE [i \in 1..held' |-> Plus] = <<>>
OBVIOUS

\* The + that are held leave before the byte that shows they were no escape, and are
\* given back when the silence comes too soon (online_release_plus).
LEMMA OnlineKept ==
  ASSUME Known, OnlineBytes, Next
  PROVE  OnlineBytes'
<1> USE DEF mainVars, lineVars, sendVars, plusVars, sentVars
<1>1. RestOK
  BY TypeParts DEF Known
<1>2. CASE UNCHANGED <<mode, held, owed, garbled>>
  BY <1>2 DEF OnlineBytes
<1>3. CASE mode' # "ONLINE" /\ garbled' = garbled
  BY <1>3 DEF OnlineBytes
<1>4. CASE held' = 0 /\ owed' = <<>> /\ (garbled' => garbled)
  BY <1>4, NoneHeldNext DEF OnlineBytes
<1>5. CASE GiveUp
  <2>1. mode = "ONLINE" /\ held' = 0 /\ Sent(Released, owed)
    BY <1>5 DEF GiveUp, GuardOver
  <2>2. owed = Released
    BY <2>1 DEF OnlineBytes, Released
  <2>3. owed' = <<>> /\ (garbled' => garbled)
    BY <1>1, <2>1, <2>2, AllSent DEF RestOK
  <2> QED
    BY <1>4, <2>1, <2>3
<1>6. ASSUME mode = "ONLINE", NEW b \in Bytes, Online(b) PROVE OnlineBytes'
  <2>1. owed = Released /\ ~garbled
    BY <1>6 DEF OnlineBytes, Released
  <2>2. CASE Hold(b) /\ held' = held + 1 /\ owed' = Append(owed, b) /\ garbled' = garbled
    <3>1. b = Plus
      BY <2>2 DEF Hold
    <3>2. Append([i \in 1..held |-> Plus], Plus) = [i \in 1..held + 1 |-> Plus]
      BY <1>1, Constants DEF RestOK
    <3> QED
      BY <2>1, <2>2, <3>1, <3>2 DEF OnlineBytes, Released
  <2>3. CASE /\ Sent((IF held > 0 THEN Released ELSE <<>>) \o <<b>>, Append(owed, b))
             /\ held' = 0
    <3>1. (IF held > 0 THEN Released ELSE <<>>) = owed
      <4>1. CASE held = 0
        BY <2>1, <4>1, NoneHeld DEF Released
      <4> QED
        BY <1>1, <2>1, <4>1 DEF RestOK
    <3>2. owed \o <<b>> = Append(owed, b) /\ Append(owed, b) \in Seq(Bytes)
      BY <1>1, <1>6 DEF RestOK
    <3>3. owed' = <<>> /\ (garbled' => garbled)
      BY <2>3, <3>1, <3>2, AllSent
    <3> QED
      BY <1>4, <2>3, <3>3
  <2> QED
    BY <1>6, <2>2, <2>3 DEF Online
<1>7. CASE Input
  <2>1. Head(block) \in Bytes
    BY <1>7, BlockWaits DEF Input
  <2>2. CASE mode = "ONLINE" /\ Online(Head(block))
    BY <1>6, <2>1, <2>2
  <2>3. CASE mode = "CIPSEND" /\ Payload(Head(block))
    BY <1>3, <2>3 DEF Payload
  <2>4. CASE mode = "COMMAND" /\ CommandByte(Head(block))
    BY <1>3, <1>4, <2>4 DEF CommandByte, GoOnline
  <2> QED
    BY <1>2, <1>7, <2>2, <2>3, <2>4 DEF Input
<1>8. CASE Poll
  <2>1. CASE AutoAnswer
    BY <1>4, <2>1 DEF AutoAnswer, GoOnline
  <2> QED
    BY <1>2, <1>3, <1>5, <1>8, <2>1 DEF Poll, Escape, PollOther, NoCarrier, LeaveOnline
<1> QED
  BY <1>2, <1>7, <1>8, Steps DEF Arrive, Tick, DrainRead, DrainMove, DrainEnd

-----------------------------------------------------------------------------
(* A payload is what was sent.                                             *)

PayloadKept ==
  mode = "CIPSEND" =>
    IF raw = <<>> THEN payload = <<>> /\ (skipLf <=> endedByCr)
    ELSE ~skipLf /\ payload = IF endedByCr /\ raw[1] = LF THEN Tail(raw) ELSE raw

\* The LF that follows the CR of the command is not part of a payload, and nothing
\* else is left out of it (at_modem_input).
LEMMA PayloadStep ==
  ASSUME Known, PayloadKept, Next
  PROVE  PayloadKept'
<1> USE DEF mainVars, lineVars, sendVars, plusVars, sentVars
<1>1. RestOK
  BY TypeParts DEF Known
<1>2. CASE UNCHANGED <<mode, payload, raw, skipLf, endedByCr>>
  BY <1>2 DEF PayloadKept
<1>3. CASE mode' # "CIPSEND"
  BY <1>3 DEF PayloadKept
<1>4. CASE Input
  <2> DEFINE b == Head(block)
  <2>1. b \in Bytes
    BY <1>4, BlockWaits DEF Input
  <2> HIDE DEF b
  <2>2. raw \in Seq(Bytes) /\ payload \in Seq(Bytes) /\ LF \in Bytes
    BY <1>1, Constants DEF RestOK
  <2>3. CASE mode = "CIPSEND" /\ mode' = "CIPSEND"
    <3>1. raw' = Append(raw, b) /\ raw' # <<>> /\ ~skipLf' /\ endedByCr' = endedByCr
          /\ payload' = IF skipLf /\ b = LF THEN payload ELSE Append(payload, b)
      <4>1. raw' = Append(raw, b) /\ endedByCr' = endedByCr
            /\ payload' = IF skipLf /\ b = LF THEN payload ELSE Append(payload, b)
        BY <1>4, <2>3 DEF Input, Absorbed, Payload, b
      <4>2. ~skipLf'
        BY <1>4, <2>3 DEF Input, Absorbed, b
      <4> QED
        BY <2>1, <2>2, <4>1, <4>2
    <3>2. CASE raw = <<>>
      <4>1. payload = <<>> /\ (skipLf <=> endedByCr)
        BY <2>3, <3>2 DEF PayloadKept
      <4>2. raw' = <<b>> /\ raw'[1] = b /\ Tail(raw') = <<>>
        BY <3>1, <3>2
      <4>3. payload' = IF endedByCr /\ b = LF THEN <<>> ELSE <<b>>
        BY <3>1, <4>1
      <4> QED
        BY <3>1, <4>2, <4>3 DEF PayloadKept
    <3>3. CASE raw # <<>>
      <4>1. ~skipLf /\ payload = IF endedByCr /\ raw[1] = LF THEN Tail(raw) ELSE raw
        BY <2>3, <3>3 DEF PayloadKept
      <4>2. payload' = Append(payload, b)
        BY <3>1, <4>1
      <4>3. raw'[1] = raw[1] /\ Tail(raw') = Append(Tail(raw), b)
        BY <2>1, <2>2, <3>1, <3>3, TailAppend
      <4> QED
        BY <3>1, <4>1, <4>2, <4>3 DEF PayloadKept
    <3> QED
      BY <3>2, <3>3
  <2>4. CASE mode # "CIPSEND" /\ mode' = "CIPSEND"
    <3>1. mode = "COMMAND" /\ CommandByte(b) /\ skipLf' = (mode = "COMMAND" /\ b = CR)
      BY <1>4, <2>4 DEF Input, Online, b
    <3>2. raw' = <<>> /\ payload' = <<>> /\ endedByCr' = (b = CR)
      BY <2>4, <3>1 DEF CommandByte, GoOnline
    <3>3. skipLf' <=> endedByCr'
      BY <3>1, <3>2
    <3> QED
      BY <3>2, <3>3 DEF PayloadKept
  <2> QED
    BY <1>3, <2>3, <2>4
<1>5. CASE Poll
  BY <1>2, <1>3, <1>5 DEF Poll, Escape, GiveUp, PollOther, NoCarrier, AutoAnswer, GoOnline,
                          LeaveOnline
<1> QED
  BY <1>2, <1>4, <1>5, Steps DEF Arrive, Tick, DrainRead, DrainMove, DrainEnd

-----------------------------------------------------------------------------
(* Silences: what is measured of them when bytes are read.                 *)

\* How long ago the byte before the next to be read came, and whether that is too long
\* for the counter.
Since == IF waited # <<>> THEN recent[handled + 1].gap + waited[1] ELSE quiet
Endless == IF waited # <<>> THEN recent[handled + 1].gap = Long ELSE quiet = Long

\* Those that wait came one after the other.
GapsOK ==
  /\ \A i \in 1..Len(waited) - 1 : waited[i] = recent[handled + (i + 1)].gap + waited[i + 1]
  /\ waited # <<>> => waited[Len(waited)] = quiet

LEMMA Times ==
  ASSUME Known
  PROVE  /\ Len(recent) \in Nat /\ handled \in Nat /\ handled <= Len(recent)
         /\ Len(waited) \in Nat /\ Len(waited) = Len(recent) - handled
         /\ (waited # <<>> <=> Len(waited) > 0)
         /\ \A i \in 1..Len(recent) : recent[i].gap \in 0..Long
         /\ \A i \in 1..Len(waited) : waited[i] \in 0..Lag
         /\ quiet \in 0..Long /\ elapsed \in 0..Wrap - 1 /\ sincePoll \in 0..Lag /\ held \in 0..3
         /\ Since \in Nat
<1>1. RecentOK /\ WaitedOK /\ RestOK
  BY TypeParts DEF Known
<1>2. /\ Len(recent) \in Nat /\ handled \in Nat /\ handled <= Len(recent)
      /\ Len(waited) \in Nat /\ Len(waited) = Len(recent) - handled
      /\ (waited # <<>> <=> Len(waited) > 0)
  BY <1>1 DEF RecentOK, WaitedOK
<1>3. ASSUME NEW i \in 1..Len(recent) PROVE recent[i].gap \in 0..Long
  <2>1. recent[i] \in Read
    BY <1>1, ElementIs DEF RecentOK
  <2> QED
    BY <2>1 DEF Read
<1>4. \A i \in 1..Len(waited) : waited[i] \in 0..Lag
  BY <1>1, ElementIs DEF WaitedOK
<1>5. Since \in Nat
  <2>1. CASE waited # <<>>
    <3>1. 1 \in 1..Len(waited) /\ handled + 1 \in 1..Len(recent)
      BY <1>2, <2>1
    <3>2. waited[1] \in Nat /\ recent[handled + 1].gap \in Nat
      BY <1>3, <1>4, <3>1, Constants
    <3> QED
      BY <2>1, <3>2 DEF Since
  <2>2. CASE waited = <<>>
    BY <1>1, <2>2 DEF Since, RecentOK
  <2> QED
    BY <2>1, <2>2
<1> QED
  BY <1>1, <1>2, <1>3, <1>4, <1>5 DEF RecentOK, RestOK

\* After n more bytes, the gaps from the k-th of the others on are as they were.
GapsMoved(n, k) ==
  \A i \in k..Len(recent) - handled - n :
    recent'[handled' + i].gap = recent[handled + n + i].gap

LEMMA OnlineGaps ==
  ASSUME Known, pc = "input", mode = "ONLINE", NEW b \in Bytes, Online(b)
  PROVE  GapsMoved(1, 1) /\ quiet' = quiet
<1>1. RecentOK /\ handled < Len(recent)
  BY TypeParts, BlockWaits DEF Known
<1>2. Len(recent) \in Nat /\ handled \in Nat /\ handled + 1 \in 0..Len(recent) /\ 1 \in 0..Len(recent)
  BY <1>1 DEF RecentOK
<1>3. KeptOnline(b) /\ quiet' = quiet
  BY DEF Online
<1>4. CASE Forget(handled + 1) /\ handled' = 0
  <2>1. \A i \in 1..Len(recent) - (handled + 1) : recent'[i] = recent[(handled + 1) + i]
    BY <1>1, <1>2, <1>4, ForgetIs
  <2>2. \A i \in 1..Len(recent) - handled - 1 : recent'[0 + i] = recent[(handled + 1) + i]
    BY <1>2, <2>1
  <2> QED
    BY <1>3, <1>4, <2>2 DEF GapsMoved
<1>5. CASE Forget(1) /\ handled' = handled
  <2>1. \A i \in 1..Len(recent) - 1 : recent'[i] = recent[1 + i]
    BY <1>1, <1>2, <1>5, ForgetIs
  <2>2. ASSUME NEW i \in 1..Len(recent) - handled - 1
        PROVE  recent'[handled + i] = recent[handled + 1 + i]
    <3>1. handled + i \in 1..Len(recent) - 1 /\ 1 + (handled + i) = handled + 1 + i
      BY <1>2
    <3> QED
      BY <2>1, <3>1
  <2> QED
    BY <1>3, <1>5, <2>2 DEF GapsMoved
<1>6. CASE handled' = handled + 1 /\ recent' = recent
  BY <1>3, <1>6 DEF GapsMoved
<1> QED
  BY <1>3, <1>4, <1>5, <1>6 DEF KeptOnline

LEMMA InputGaps ==
  ASSUME Known, Input
  PROVE  GapsMoved(1, 2) /\ (Len(waited) > 1 => quiet' = quiet)
<1>1. RecentOK /\ HandledOK /\ pc = "input" /\ handled < Len(recent) /\ recent # <<>>
      /\ Head(block) \in Bytes
  BY TypeParts, BlockWaits DEF Known, Input
<1>2. Len(recent) \in Nat /\ handled \in Nat /\ 1 \in 0..Len(recent) /\ Len(waited) = Len(recent) - handled
  BY <1>1, Times DEF RecentOK
<1>3. ASSUME NotOnline, handled = 0 PROVE GapsMoved(1, 2) /\ (Len(waited) > 1 => quiet' = quiet)
  <2>1. handled' = 0 /\ \A i \in 1..Len(recent) - 1 : recent'[i] = recent[1 + i]
    BY <1>1, <1>2, <1>3, ForgetIs DEF NotOnline
  <2>2. \A i \in 2..Len(recent) - 0 - 1 : recent'[0 + i] = recent[0 + 1 + i]
    BY <1>2, <2>1
  <2>3. Len(waited) > 1 => Len(recent) # 1
    BY <1>2, <1>3
  <2> QED
    BY <1>3, <2>1, <2>2, <2>3 DEF GapsMoved, NotOnline
<1>4. ASSUME NEW silence, FirstAfter(silence), handled = 0
      PROVE  GapsMoved(1, 2) /\ (Len(waited) > 1 => quiet' = quiet)
  <2>1. /\ handled' = 0
        /\ recent' = [ i \in 1..Len(recent) - 1 |->
                         IF i = 1 THEN [recent[2] EXCEPT !.gap = silence[@]] ELSE recent[i + 1] ]
    BY <1>4 DEF FirstAfter
  <2>2. \A i \in 2..Len(recent) - 1 : recent'[i] = recent[i + 1]
    BY <1>2, <2>1
  <2>3. \A i \in 2..Len(recent) - 0 - 1 : recent'[0 + i] = recent[0 + 1 + i]
    BY <1>2, <2>2
  <2>4. Len(waited) > 1 => Len(recent) # 1
    BY <1>2, <1>4
  <2> QED
    BY <1>4, <2>1, <2>3, <2>4 DEF GapsMoved, FirstAfter
<1>5. CASE mode = "ONLINE" /\ Online(Head(block))
  BY <1>1, <1>2, <1>5, OnlineGaps DEF GapsMoved
<1>6. CASE handled = 0 /\ (NotOnline \/ Connected \/ Between)
  BY <1>3, <1>4, <1>6 DEF Connected, Between
<1>7. (mode = "ONLINE" /\ Online(Head(block))) \/ (handled = 0 /\ (NotOnline \/ Connected \/ Between))
  BY <1>1 DEF Input, Absorbed, HandledOK, Payload, CommandByte, GoOnline
<1> QED
  BY <1>5, <1>6, <1>7

LEMMA PollGaps ==
  ASSUME Known, Poll
  PROVE  GapsMoved(0, 2) /\ waited' = waited /\ (waited # <<>> => quiet' = quiet)
<1>1. RecentOK /\ Len(recent) \in Nat /\ handled \in Nat /\ handled \in 0..Len(recent)
      /\ (waited # <<>> => Len(recent) # handled)
  BY TypeParts, Times DEF Known
<1>2. CASE LeaveOnline
  <2>1. handled' = 0 /\ \A i \in 1..Len(recent) - handled : recent'[i] = recent[handled + i]
    BY <1>1, <1>2, ForgetIs DEF LeaveOnline
  <2>2. \A i \in 1..Len(recent) - handled - 0 : recent'[0 + i] = recent[handled + 0 + i]
    BY <1>1, <2>1
  <2> QED
    BY <1>1, <1>2, <2>1, <2>2 DEF GapsMoved, LeaveOnline
<1>3. CASE UNCHANGED <<recentVars, quiet>>
  <2>1. \A i \in Int : handled + 0 + i = handled + i
    BY <1>1
  <2> QED
    BY <1>3, <2>1 DEF GapsMoved, recentVars
<1>4. CASE AutoAnswer
  <2>1. handled = 0
    BY <1>4 DEF AutoAnswer, Known, HandledOK
  <2>2. handled' = 0 /\ \A i \in 2..Len(recent) : recent'[i] = recent[i]
    BY <1>1, <1>4, <2>1, AnswerMoves
  <2>3. waited' = waited /\ (waited # <<>> => quiet' = quiet)
    BY <1>1, <1>4, <2>1, EmptyIs DEF AutoAnswer
  <2>4. \A i \in 2..Len(recent) - 0 - 0 : recent'[0 + i] = recent[0 + 0 + i]
    BY <1>1, <2>2
  <2> QED
    BY <2>1, <2>2, <2>3, <2>4 DEF GapsMoved
<1> QED
  BY <1>2, <1>3, <1>4 DEF Poll, Escape, GiveUp, PollOther, NoCarrier, timeVars

\* What came is behind what waits.
LEMMA ArriveGaps ==
  ASSUME Known, NEW b \in Bytes, Arrive(b), ~Full
  PROVE  /\ handled' = handled /\ quiet' = 0 /\ Len(recent') = Len(recent) + 1
         /\ \A i \in 1..Len(recent) : recent'[i] = recent[i]
         /\ recent'[Len(recent) + 1].gap = quiet
         /\ Len(waited') = Len(waited) + 1
         /\ \A i \in 1..Len(waited) : waited'[i] = waited[i]
         /\ waited'[Len(waited) + 1] = 0
<1>1. RecentOK /\ WaitedOK
  BY TypeParts DEF Known
<1> DEFINE r == [byte |-> b, gap |-> quiet]
<1>2. recent' = Append(recent, r) /\ quiet' = 0 /\ handled' = handled /\ waited' = Append(waited, 0)
  BY DEF Arrive
<1>3. r \in Read /\ r.gap = quiet
  BY <1>1 DEF Read, RecentOK
<1> HIDE DEF r
<1>4. /\ Len(recent') = Len(recent) + 1 /\ \A i \in 1..Len(recent) : recent'[i] = recent[i]
      /\ recent'[Len(recent) + 1].gap = quiet
  BY <1>1, <1>2, <1>3, AppendIs DEF RecentOK
<1>5. waited \in Seq(Nat) /\ 0 \in Nat
  BY <1>1, Constants DEF WaitedOK
<1>6. /\ Len(waited') = Len(waited) + 1 /\ \A i \in 1..Len(waited) : waited'[i] = waited[i]
      /\ waited'[Len(waited) + 1] = 0
  BY <1>2, <1>5, AppendIs
<1> QED
  BY <1>2, <1>4, <1>6

LEMMA TickTimes ==
  ASSUME Known, GapsOK, Tick
  PROVE  /\ recent' = recent /\ handled' = handled /\ Len(waited') = Len(waited)
         /\ \A i \in 1..Len(waited) : waited'[i] = waited[i] + 1
         /\ waited # <<>> => waited[1] < Lag /\ quiet' = quiet + 1
<1>1. recent' = recent /\ handled' = handled /\ waited' = [i \in 1..Len(waited) |-> waited[i] + 1]
      /\ (waited # <<>> => Head(waited) < Lag)
      /\ quiet' = (IF mode = "ONLINE" \/ recent # <<>> THEN Later(quiet) ELSE quiet)
  BY DEF Tick
<1>2. PICK n \in Nat : n = Len(waited)
  BY Times
<1>3. waited' = [i \in 1..n |-> waited[i] + 1]
  BY <1>1, <1>2
<1>4. Len(waited') = n /\ \A i \in 1..n : waited'[i] = waited[i] + 1
  BY <1>3
<1>5. ASSUME waited # <<>> PROVE waited[1] < Lag /\ quiet' = quiet + 1
  <2>1. n > 0 /\ 1 \in 1..Len(waited) /\ n \in 1..Len(waited) /\ 1 <= n /\ recent # <<>>
    BY <1>2, <1>5, Times
  <2>2. waited[1] = Head(waited)
    BY <1>2, <1>5
  <2>3. waited[n] <= waited[1] /\ waited[n] = quiet
    BY <1>2, <1>5, <2>1 DEF Known, OldestFirst, GapsOK
  <2>4. waited[1] \in 0..Lag /\ waited[1] < Lag /\ Lag <= Long /\ Long \in Nat /\ Lag \in Nat
    BY <1>1, <1>5, <2>1, <2>2, Times, Constants
  <2>5. quiet < Long
    BY <2>3, <2>4, Times
  <2> QED
    BY <1>1, <2>1, <2>4, <2>5 DEF Later
<1> QED
  BY <1>1, <1>2, <1>4, <1>5

LEMMA GapsStep ==
  ASSUME Known, GapsOK, Next
  PROVE  GapsOK'
<1>1. /\ Len(recent) \in Nat /\ handled \in Nat /\ handled <= Len(recent)
      /\ Len(waited) \in Nat /\ Len(waited) = Len(recent) - handled
      /\ (waited # <<>> <=> Len(waited) > 0) /\ quiet \in Nat
      /\ \A i \in 1..Len(recent) : recent[i].gap \in Nat
      /\ \A i \in 1..Len(waited) : waited[i] \in Nat
  BY Times, Constants
<1>50. /\ Len(recent) \in Nat /\ handled \in Nat /\ Len(waited) \in Nat
      /\ Len(waited) = Len(recent) - handled
  BY <1>1
<1>2. CASE UNCHANGED <<recentVars, quiet>>
  BY <1>2 DEF GapsOK, recentVars
<1>3. ASSUME NEW b \in Bytes, Arrive(b) PROVE GapsOK'
  <2>1. CASE Full
    BY <1>2, <1>3, <2>1 DEF Arrive, recentVars
  <2>2. CASE ~Full
    <3>1. /\ handled' = handled /\ quiet' = 0
          /\ \A i \in 1..Len(recent) : recent'[i] = recent[i]
          /\ recent'[Len(recent) + 1].gap = quiet
          /\ Len(waited') = Len(waited) + 1
          /\ \A i \in 1..Len(waited) : waited'[i] = waited[i]
          /\ waited'[Len(waited) + 1] = 0
      BY <1>3, <2>2, ArriveGaps
    <3>2. ASSUME NEW i \in 1..Len(waited') - 1
          PROVE  waited'[i] = recent'[handled' + (i + 1)].gap + waited'[i + 1]
      <4>4. Len(waited) \in Nat /\ Len(waited') = Len(waited) + 1
        BY <1>1, <3>1
      <4>5. i \in 1..Len(waited)
        BY <4>4
      <4>1. i \in 1..Len(waited) /\ waited'[i] = waited[i]
        BY <3>1, <4>5
      <4>2. CASE i = Len(waited)
        <5>1. handled + (i + 1) = Len(recent) + 1 /\ i + 1 = Len(waited) + 1
          BY <1>1, <4>2
        <5>2. waited[i] = quiet
          BY <1>1, <4>1, <4>2 DEF GapsOK
        <5> QED
          BY <1>1, <3>1, <4>1, <5>1, <5>2
      <4>3. CASE i # Len(waited)
        <5>1. /\ i \in 1..Len(waited) - 1 /\ i + 1 \in 1..Len(waited)
              /\ handled + (i + 1) \in 1..Len(recent)
          BY <1>50, <4>5, <4>3
        <5>2. waited[i] = recent[handled + (i + 1)].gap + waited[i + 1]
          BY <5>1 DEF GapsOK
        <5> QED
          BY <3>1, <4>1, <5>1, <5>2
      <4> QED
        BY <4>2, <4>3
    <3> QED
      BY <3>1, <3>2 DEF GapsOK
  <2> QED
    BY <2>1, <2>2
<1>4. CASE Tick
  <2>1. /\ recent' = recent /\ handled' = handled /\ Len(waited') = Len(waited)
        /\ \A i \in 1..Len(waited) : waited'[i] = waited[i] + 1
        /\ waited # <<>> => quiet' = quiet + 1
    BY <1>4, TickTimes
  <2>2. ASSUME NEW i \in 1..Len(waited') - 1
        PROVE  waited'[i] = recent'[handled' + (i + 1)].gap + waited'[i + 1]
    <3>1. /\ i \in 1..Len(waited) /\ i + 1 \in 1..Len(waited) /\ i \in 1..Len(waited) - 1
          /\ handled + (i + 1) \in 1..Len(recent)
      BY <1>1, <2>1
    <3>2. waited[i] = recent[handled + (i + 1)].gap + waited[i + 1]
      BY <3>1 DEF GapsOK
    <3>3. recent[handled + (i + 1)].gap \in Nat /\ waited[i + 1] \in Nat
      BY <1>1, <3>1
    <3>4. waited'[i] = waited[i] + 1 /\ waited'[i + 1] = waited[i + 1] + 1
      BY <2>1, <3>1
    <3>5. waited'[i] = recent[handled + (i + 1)].gap + waited'[i + 1]
      BY <3>2, <3>3, <3>4
    <3> QED
      BY <2>1, <3>5
  <2>3. waited' # <<>> => waited'[Len(waited')] = quiet'
    <3>1. SUFFICES ASSUME waited' # <<>> PROVE waited'[Len(waited')] = quiet'
      OBVIOUS
    <3>2. waited # <<>>
      <4>1. CASE waited = <<>>
        BY <1>4, <3>1, <4>1 DEF Tick
      <4> QED
        BY <4>1
    <3>3. Len(waited) \in 1..Len(waited) /\ waited[Len(waited)] = quiet
      BY <1>1, <3>2 DEF GapsOK
    <3> QED
      BY <2>1, <3>2, <3>3
  <2> QED
    BY <2>2, <2>3 DEF GapsOK
<1>5. CASE DrainRead \/ DrainMove \/ DrainEnd
  BY <1>2, <1>5 DEF DrainRead, DrainMove, DrainEnd, timeVars
<1>6. CASE Input
  <2>1. waited' = Tail(waited) /\ waited # <<>>
    <3>1. handled < Len(recent)
      BY <1>6, BlockWaits DEF Input
    <3> QED
      BY <1>1, <1>6, <3>1 DEF Input
  <2>2. Len(waited') = Len(waited) - 1 /\ \A i \in 1..Len(waited) - 1 : waited'[i] = waited[i + 1]
    <3>1. waited \in Seq(0..Lag)
      BY TypeParts DEF Known, WaitedOK
    <3> QED
      BY <2>1, <3>1, TailIs
  <2>3. GapsMoved(1, 2) /\ (Len(waited) > 1 => quiet' = quiet)
    BY <1>6, InputGaps
  <2>4. ASSUME NEW i \in 1..Len(waited') - 1
        PROVE  waited'[i] = recent'[handled' + (i + 1)].gap + waited'[i + 1]
    <3>1. /\ i \in 1..Len(waited) - 1 /\ i + 1 \in 1..Len(waited) - 1
          /\ i + 1 \in 2..Len(recent) - handled - 1
          /\ handled + 1 + (i + 1) = handled + ((i + 1) + 1)
      BY <1>1, <2>2
    <3>2. waited[i + 1] = recent[handled + ((i + 1) + 1)].gap + waited[(i + 1) + 1]
      BY <3>1 DEF GapsOK
    <3>3. recent'[handled' + (i + 1)].gap = recent[handled + 1 + (i + 1)].gap
      BY <2>3, <3>1 DEF GapsMoved
    <3> QED
      BY <2>2, <3>1, <3>2, <3>3
  <2>5. waited' # <<>> => waited'[Len(waited')] = quiet'
    <3>1. SUFFICES ASSUME waited' # <<>> PROVE waited'[Len(waited')] = quiet'
      OBVIOUS
    <3>2. Len(waited') > 0
      <4>1. waited' \in Seq(0..Lag)
        BY <1>6, WaitedKept DEF WaitedOK, Next, Loop
      <4> QED
        BY <3>1, <4>1
    <3>3. Len(waited) > 1 /\ Len(waited) - 1 \in 1..Len(waited) - 1 /\ (Len(waited) - 1) + 1 = Len(waited)
      BY <1>1, <2>2, <3>2
    <3>4. waited'[Len(waited')] = waited[Len(waited)]
      BY <2>2, <3>3
    <3> QED
      BY <1>1, <2>1, <2>3, <3>3, <3>4 DEF GapsOK
  <2> QED
    BY <2>4, <2>5 DEF GapsOK
<1>7. CASE Poll
  <2>1. GapsMoved(0, 2) /\ waited' = waited /\ (waited # <<>> => quiet' = quiet)
    BY <1>7, PollGaps
  <2>2. ASSUME NEW i \in 1..Len(waited) - 1
        PROVE  waited[i] = recent'[handled' + (i + 1)].gap + waited[i + 1]
    <3>1. i + 1 \in 1..Len(recent) - handled - 0 /\ handled + 0 + (i + 1) = handled + (i + 1)
      BY <1>1
    <3>2. waited[i] = recent[handled + (i + 1)].gap + waited[i + 1]
      BY DEF GapsOK
    <3>3. recent'[handled' + (i + 1)].gap = recent[handled + 0 + (i + 1)].gap
      BY <2>1, <3>1 DEF GapsMoved
    <3> QED
      BY <3>1, <3>2, <3>3
  <2> QED
    BY <2>1, <2>2 DEF GapsOK
<1> QED
  BY <1>3, <1>4, <1>5, <1>6, <1>7, Steps

-----------------------------------------------------------------------------
(* What elapsed says of the silences.                                      *)

\* elapsed is the silence but for one turn of the loop, unless the silence is longer than
\* the counter; while + are held it cannot be, for the poll ends that.
SilenceOK ==
  mode = "ONLINE" =>
    /\ Endless \/ (elapsed <= Since /\ Since <= elapsed + Lag)
    /\ held > 0 => /\ Since <= elapsed + Lag
                   /\ elapsed <= Guard + sincePoll
                   /\ Guard > 0 => elapsed < Guard + sincePoll

LEMMA ArriveSince ==
  ASSUME Known, NEW b \in Bytes, Arrive(b)
  PROVE  /\ Since' = Since /\ (Endless' <=> Endless) /\ handled' = handled
         /\ \A i \in 1..handled : recent'[i] = recent[i]
<1>1. /\ Len(recent) \in Nat /\ handled \in Nat /\ handled <= Len(recent) /\ quiet \in Nat
      /\ Len(waited) \in Nat /\ Len(waited) = Len(recent) - handled
      /\ (waited # <<>> <=> Len(waited) > 0)
  BY Times, Constants
<1>2. CASE Full
  BY <1>2 DEF Arrive, Since, Endless
<1>3. CASE ~Full
  <2>1. /\ handled' = handled /\ quiet' = 0 /\ Len(recent') = Len(recent) + 1
        /\ \A i \in 1..Len(recent) : recent'[i] = recent[i]
        /\ recent'[Len(recent) + 1].gap = quiet
        /\ Len(waited') = Len(waited) + 1
        /\ \A i \in 1..Len(waited) : waited'[i] = waited[i]
        /\ waited'[Len(waited) + 1] = 0
    BY <1>3, ArriveGaps
  <2>2. waited' # <<>>
    <3> DEFINE T == 0..Lag
    <3>1. waited \in Seq(T) /\ waited' = Append(waited, 0) /\ 0 \in T
      BY <1>3, TypeParts, Constants DEF Known, WaitedOK, Arrive
    <3> HIDE DEF T
    <3> QED
      BY <3>1
  <2>3. CASE waited = <<>>
    <3>1. Len(waited) = 0 /\ handled = Len(recent)
      BY <1>1, <2>3
    <3>2. recent'[handled' + 1].gap = quiet /\ waited'[1] = 0
      BY <1>1, <2>1, <3>1
    <3>3. Since' = quiet + 0 /\ Since = quiet
      BY <2>2, <2>3, <3>2 DEF Since
    <3>4. (Endless' <=> Endless)
      BY <2>2, <2>3, <3>2 DEF Endless
    <3> QED
      BY <1>1, <2>1, <3>3, <3>4
  <2>4. CASE waited # <<>>
    <3>1. 1 \in 1..Len(waited) /\ handled + 1 \in 1..Len(recent)
      BY <1>1, <2>4
    <3>2. recent'[handled' + 1] = recent[handled + 1] /\ waited'[1] = waited[1]
      BY <2>1, <3>1
    <3>3. Since' = Since
      BY <2>2, <2>4, <3>2 DEF Since
    <3>4. (Endless' <=> Endless)
      BY <2>2, <2>4, <3>2 DEF Endless
    <3> QED
      BY <1>1, <2>1, <3>3, <3>4
  <2> QED
    BY <2>3, <2>4
<1> QED
  BY <1>2, <1>3

LEMMA TickSince ==
  ASSUME Known, GapsOK, Tick, mode = "ONLINE"
  PROVE  /\ Endless => Endless'
         /\ Endless' \/ (Since' = Since + 1 /\ Since + 1 < Wrap)
         /\ Since' \in {Since, Since + 1}
<1>1. /\ Len(recent) \in Nat /\ handled \in Nat /\ handled <= Len(recent) /\ quiet \in 0..Long
      /\ Len(waited) \in Nat /\ Len(waited) = Len(recent) - handled
      /\ (waited # <<>> <=> Len(waited) > 0)
      /\ \A i \in 1..Len(recent) : recent[i].gap \in 0..Long
      /\ \A i \in 1..Len(waited) : waited[i] \in 0..Lag
  BY Times
<1>2. /\ recent' = recent /\ handled' = handled /\ Len(waited') = Len(waited)
      /\ \A i \in 1..Len(waited) : waited'[i] = waited[i] + 1
      /\ waited # <<>> => waited[1] < Lag /\ quiet' = quiet + 1
  BY TickTimes
<1>3. Long \in Nat /\ Lag \in Nat /\ Wrap \in Nat /\ Long + Lag = Wrap
  BY Constants
<1>4. CASE waited # <<>>
  <2>1. 1 \in 1..Len(waited) /\ handled + 1 \in 1..Len(recent)
    BY <1>1, <1>4
  <2>2. waited' # <<>>
    <3>1. PICK n \in Nat : n = Len(waited)
      BY <1>1
    <3>2. waited' = [i \in 1..n |-> waited[i] + 1] /\ n > 0
      BY <1>1, <1>4, <3>1 DEF Tick
    <3>3. Len(waited') = n
      BY <3>1, <3>2
    <3>4. Len(waited') # Len(<<>>)
      BY <3>2, <3>3
    <3> QED
      BY <3>4
  <2>3. waited'[1] = waited[1] + 1 /\ waited[1] \in 0..Lag /\ waited[1] < Lag
        /\ recent[handled + 1].gap \in 0..Long /\ recent'[handled' + 1] = recent[handled + 1]
    BY <1>1, <1>2, <1>4, <2>1
  <2>4. Endless' <=> Endless
    BY <1>4, <2>2, <2>3 DEF Endless
  <2>5. Since' = recent[handled + 1].gap + (waited[1] + 1)
        /\ Since = recent[handled + 1].gap + waited[1]
    BY <1>4, <2>2, <2>3 DEF Since
  <2>6. Since' = Since + 1
    BY <1>3, <2>3, <2>5
  <2>7. Endless \/ Since + 1 < Wrap
    <3>1. CASE recent[handled + 1].gap = Long
      BY <1>4, <3>1 DEF Endless
    <3>2. CASE recent[handled + 1].gap < Long
      BY <1>3, <2>3, <2>5, <3>2
    <3> QED
      BY <1>3, <2>3, <3>1, <3>2
  <2> QED
    BY <2>4, <2>6, <2>7
<1>5. CASE waited = <<>>
  <2>1. waited' = <<>>
    BY <1>5 DEF Tick
  <2>2. quiet' = IF quiet < Long THEN quiet + 1 ELSE quiet
    BY DEF Tick, Later
  <2>3. Since = quiet /\ Since' = quiet' /\ (Endless <=> quiet = Long) /\ (Endless' <=> quiet' = Long)
    BY <1>5, <2>1 DEF Since, Endless
  <2>4. CASE quiet < Long
    <3>1. quiet' = quiet + 1 /\ (quiet' = Long \/ quiet + 1 < Wrap) /\ quiet # Long
      BY <1>1, <1>3, <2>2, <2>4
    <3> QED
      BY <2>3, <3>1
  <2>5. CASE quiet = Long
    <3>1. quiet' = quiet
      BY <1>3, <2>2, <2>5
    <3> QED
      BY <2>3, <2>5, <3>1
  <2> QED
    BY <1>1, <1>3, <2>4, <2>5
<1> QED
  BY <1>4, <1>5

LEMMA OnlineSince ==
  ASSUME Known, GapsOK, Input, mode = "ONLINE", NEW b \in Bytes, Online(b)
  PROVE  Since' = waited[1] /\ waited # <<>> /\ waited[1] \in 0..Lag
<1>1. /\ Len(recent) \in Nat /\ handled \in Nat /\ handled <= Len(recent)
      /\ Len(waited) \in Nat /\ Len(waited) = Len(recent) - handled
      /\ (waited # <<>> <=> Len(waited) > 0)
      /\ \A i \in 1..Len(waited) : waited[i] \in 0..Lag
  BY Times
<1>2. pc = "input" /\ waited' = Tail(waited)
  BY DEF Input
<1>3. Len(waited) > 0 /\ waited \in Seq(0..Lag)
  BY <1>1, <1>2, BlockWaits, TypeParts DEF Known, WaitedOK
<1>4. Len(waited') = Len(waited) - 1 /\ waited' \in Seq(0..Lag)
      /\ \A i \in 1..Len(waited) - 1 : waited'[i] = waited[i + 1]
  BY <1>1, <1>2, <1>3, TailIs
<1>5. GapsMoved(1, 1) /\ quiet' = quiet
  BY <1>2, OnlineGaps
<1>6. CASE Len(waited) = 1
  <2>1. waited' = <<>>
    BY <1>4, <1>6, EmptyIs
  <2>2. waited # <<>> /\ waited[1] = quiet
    <3>1. waited # <<>>
      BY <1>3, EmptyIs
    <3>2. waited[Len(waited)] = quiet
      BY <3>1 DEF GapsOK
    <3> QED
      BY <1>6, <3>1, <3>2
  <2>3. Since' = quiet
    BY <1>5, <2>1 DEF Since
  <2> QED
    BY <1>1, <1>6, <2>2, <2>3
<1>7. CASE Len(waited) > 1
  <2>1. 1 \in 1..Len(waited) - 1 /\ 1 \in 1..Len(recent) - handled - 1
        /\ handled + (1 + 1) = handled + 1 + 1
    BY <1>1, <1>7
  <2>2. waited[1] = recent[handled + 1 + 1].gap + waited[1 + 1]
    BY <2>1 DEF GapsOK
  <2>3. recent'[handled' + 1].gap = recent[handled + 1 + 1].gap
    BY <1>5, <2>1 DEF GapsMoved
  <2>4. waited' # <<>> /\ waited'[1] = waited[1 + 1]
    BY <1>4, <1>7, <2>1
  <2>5. Since' = waited[1]
    BY <2>2, <2>3, <2>4 DEF Since
  <2> QED
    BY <1>1, <1>3, <2>5
<1>8. Len(waited) = 1 \/ Len(waited) > 1
  BY <1>1, <1>3
<1> QED
  BY <1>6, <1>7, <1>8

\* What FirstAfter leaves of two silences.
LEMMA FirstSince ==
  ASSUME Known, GapsOK, Input, handled = 0,
         NEW silence \in [0..Long -> 0..Long], FirstAfter(silence)
  PROVE  \E after \in 0..Long, more \in 0..Lag :
           /\ waited # <<>> /\ waited[1] = after + more
           /\ Since' = silence[after] + more
           /\ Endless' <=> silence[after] = Long
<1>1. /\ Len(recent) \in Nat /\ handled \in Nat /\ handled <= Len(recent)
      /\ Len(waited) \in Nat /\ Len(waited) = Len(recent) - handled
      /\ (waited # <<>> <=> Len(waited) > 0) /\ quiet \in 0..Long
      /\ \A i \in 1..Len(waited) : waited[i] \in 0..Lag
      /\ \A i \in 1..Len(recent) : recent[i].gap \in 0..Long
  BY Times
<1>2. pc = "input" /\ waited' = Tail(waited)
  BY DEF Input
<1>3. Len(waited) > 0 /\ waited \in Seq(0..Lag) /\ RecentOK
  BY <1>1, <1>2, BlockWaits, TypeParts DEF Known, WaitedOK
<1>4. Len(waited') = Len(waited) - 1 /\ waited' \in Seq(0..Lag)
      /\ \A i \in 1..Len(waited) - 1 : waited'[i] = waited[i + 1]
  BY <1>1, <1>2, <1>3, TailIs
<1>5. CASE Len(waited) = 1
  <2>1. waited' = <<>> /\ waited[1] = quiet /\ Len(recent) = 1
    <3>1. waited' = <<>>
      BY <1>4, <1>5, EmptyIs
    <3>2. waited # <<>>
      BY <1>3, EmptyIs
    <3>3. waited[Len(waited)] = quiet
      BY <3>2 DEF GapsOK
    <3>4. Len(recent) = 1
      <4>1. Len(recent) \in Nat /\ Len(waited) = Len(recent) - handled
        BY <1>1
      <4> QED
        BY <1>5, <4>1
    <3> QED
      BY <1>5, <3>1, <3>3, <3>4
  <2>2. quiet' = silence[quiet]
    BY <2>1 DEF FirstAfter
  <2>3. Since' = quiet' /\ (Endless' <=> quiet' = Long)
    BY <2>1 DEF Since, Endless
  <2>4. quiet = quiet + 0 /\ silence[quiet] = silence[quiet] + 0
    <3>1. silence[quiet] \in 0..Long
      BY <1>1
    <3> QED
      BY <1>1, <3>1, Constants
  <2> quiet \in 0..Long /\ 0 \in 0..Lag
    BY <1>1, Constants
  <2> WITNESS quiet \in 0..Long, 0 \in 0..Lag
  <2> QED
    BY <1>1, <1>3, <2>1, <2>2, <2>3, <2>4
<1>6. CASE Len(waited) > 1
  <2>1. /\ 1 \in 1..Len(waited) - 1 /\ 2 \in 1..Len(recent) /\ 2 \in 1..Len(waited)
        /\ handled + (1 + 1) = 2 /\ 1 + 1 = 2 /\ 1 \in 1..Len(recent) - 1
    BY <1>1, <1>6
  <2>2. waited[1] = recent[2].gap + waited[2]
    BY <2>1 DEF GapsOK
  <2>3. recent[2] \in Read /\ recent[2].gap \in 0..Long /\ waited[2] \in 0..Lag
    BY <1>1, <1>3, <2>1, ElementIs DEF RecentOK
  <2>4. handled' = 0 /\ recent'[1] = [recent[2] EXCEPT !.gap = silence[@]]
    BY <2>1 DEF FirstAfter
  <2>5. recent'[1].gap = silence[recent[2].gap]
    BY <2>3, <2>4 DEF Read
  <2>6. waited' # <<>> /\ waited'[1] = waited[2]
    BY <1>4, <1>6, <2>1
  <2>7. handled' + 1 = 1
    BY <2>4
  <2>8. Since' = silence[recent[2].gap] + waited[2] /\ (Endless' <=> silence[recent[2].gap] = Long)
    BY <2>5, <2>6, <2>7 DEF Since, Endless
  <2> recent[2].gap \in 0..Long /\ waited[2] \in 0..Lag
    BY <2>3
  <2> WITNESS recent[2].gap \in 0..Long, waited[2] \in 0..Lag
  <2> QED
    BY <1>1, <1>3, <2>2, <2>8
<1>7. Len(waited) = 1 \/ Len(waited) > 1
  BY <1>1, <1>3
<1> QED
  BY <1>5, <1>6, <1>7

LEMMA ConnectedSince ==
  ASSUME Known, GapsOK, Input, handled = 0, Connected
  PROVE  Since' \in 0..Lag
<1> DEFINE silence == [after \in 0..Long |-> 0]
<1>1. silence \in [0..Long -> 0..Long] /\ \A after \in 0..Long : silence[after] = 0
  BY Constants
<1>2. FirstAfter(silence)
  BY DEF Connected
<1> HIDE DEF silence
<1>3. PICK after \in 0..Long, more \in 0..Lag : Since' = silence[after] + more
  BY <1>1, <1>2, FirstSince
<1> QED
  BY <1>1, <1>3, Constants

\* So does the answer to a call.
LEMMA AnsweredSince ==
  ASSUME Known, AutoAnswer
  PROVE  /\ Since' \in 0..Lag /\ handled = 0 /\ handled' = 0
<1>1. RecentOK /\ handled = 0 /\ waited' = waited
  BY TypeParts DEF Known, HandledOK, AutoAnswer
<1>2. handled' = 0 /\ (recent # <<>> => recent'[1].gap = 0)
  BY <1>1, AnswerMoves
<1>3. /\ Len(recent) \in Nat /\ Len(waited) \in Nat /\ Len(waited) = Len(recent)
      /\ (waited # <<>> <=> Len(waited) > 0)
      /\ \A i \in 1..Len(waited) : waited[i] \in 0..Lag
  BY <1>1, Times
<1>4. CASE waited # <<>>
  <2>1. recent # <<>> /\ waited[1] \in 0..Lag /\ handled' + 1 = 1
    BY <1>1, <1>2, <1>3, <1>4, EmptyIs DEF RecentOK
  <2>2. Since' = 0 + waited[1]
    BY <1>1, <1>2, <1>4, <2>1 DEF Since
  <2> QED
    BY <1>1, <1>2, <2>1, <2>2, Constants
<1>5. CASE waited = <<>>
  <2>1. recent = <<>>
    BY <1>1, <1>3, <1>5, EmptyIs DEF RecentOK
  <2>2. quiet' = 0
    BY <2>1 DEF AutoAnswer
  <2> QED
    BY <1>1, <1>2, <1>5, <2>2, Constants DEF Since
<1> QED
  BY <1>4, <1>5

LEMMA BetweenSince ==
  ASSUME Known, GapsOK, Input, handled = 0, Between
  PROVE  (Endless => Endless') /\ (Endless' \/ Since' = Since)
<1> DEFINE before == recent[1].gap
           silence == [ after \in 0..Long |->
             IF before + after < Long THEN before + after ELSE Long ]
<1>1. /\ waited # <<>> /\ before \in 0..Long
  <2>1. Len(waited) > 0 /\ 1 \in 1..Len(recent)
    BY Times, BlockWaits DEF Input
  <2> QED
    BY <2>1, Times
<1>2. FirstAfter(silence)
  BY DEF Between
<1>3. handled + 1 = 1
  OBVIOUS
<1>4. Since = before + waited[1] /\ (Endless <=> before = Long)
  BY <1>1, <1>3 DEF Since, Endless
<1> HIDE DEF before
<1>5. /\ silence \in [0..Long -> 0..Long]
      /\ \A after \in 0..Long :
           silence[after] = IF before + after < Long THEN before + after ELSE Long
  BY <1>1, Constants
<1> HIDE DEF silence
<1>6. PICK after \in 0..Long, more \in 0..Lag :
        /\ waited[1] = after + more
        /\ Since' = silence[after] + more
        /\ Endless' <=> silence[after] = Long
  BY <1>2, <1>5, FirstSince
<1>7. silence[after] = (IF before + after < Long THEN before + after ELSE Long)
      /\ Long \in Nat /\ Lag \in Nat
  BY <1>5, Constants
<1>8. CASE before + after < Long
  <2>1. silence[after] + more = before + (after + more) /\ before # Long
    BY <1>1, <1>7, <1>8
  <2> QED
    BY <1>4, <1>6, <2>1
<1>9. CASE ~(before + after < Long)
  BY <1>6, <1>7, <1>9
<1> QED
  BY <1>8, <1>9

\* The silence before the j-th byte before the last one read.
Back(j) == recent[handled - j].gap

\* The + that are held were read last, the first of them after a silence.
EarnedOK ==
  mode = "ONLINE" =>
    /\ held <= handled /\ handled <= 3
    /\ held > 0 => Back(held - 1) >= Guard - Lag
    /\ \A j \in 0..held - 2 : Back(j) < Guard + Lag

\* From the j-th byte before the last one on, what was read could be an escape.
Begun(j) ==
  /\ Back(j) \in Guard + 2 * Lag..Long - 1
  /\ \A i \in 0..j - 1 : Back(i) < Guard - Lag

\* Then all of it is held, or a silence has already shown that it is too short.
AskedOK ==
  mode = "ONLINE" =>
    \A j \in 0..handled - 1 :
      Begun(j) => held = j + 1 \/ (j < 2 /\ (Endless \/ Since >= Guard))

\* What else can happen online, between two polls.
Idle == DrainRead \/ DrainMove \/ DrainEnd \/ PollOther

\* How a step leaves the program online.
LEMMA OnlineSteps ==
  ASSUME Known, EarnedOK, Next, mode' = "ONLINE"
  PROVE  \/ \E b \in Bytes : Arrive(b)
         \/ Tick
         \/ Idle \/ GiveUp \/ AutoAnswer
         \/ Input /\ handled = 0 /\ held' = 0 /\ elapsed' = 0 /\ Connected
         \/ Input /\ mode = "ONLINE" /\ handled = 0 /\ held = 0 /\ Between
              /\ UNCHANGED <<held, elapsed, sincePoll>>
         \/ Input /\ mode = "ONLINE" /\ Online(Head(block)) /\ Head(block) \in Bytes
<1>1. HandledOK /\ held \in 0..3 /\ handled \in Nat
  BY Times DEF Known
<1>2. CASE Input
  <2>1. Head(block) \in Bytes
    BY <1>2, BlockWaits DEF Input
  <2>2. CASE Absorbed(Head(block)) /\ mode = "ONLINE" /\ Between
    <3>1. handled = 0
      BY <1>1, <2>2 DEF Absorbed, HandledOK
    <3>2. held = 0
      BY <1>1, <2>2, <3>1 DEF EarnedOK
    <3>3. UNCHANGED <<held, elapsed, sincePoll>>
      <4>1. sincePoll' = sincePoll
        BY <2>2 DEF Between, FirstAfter
      <4>2. ~Online(Head(block)) \/ skipLf' = (mode = "COMMAND" /\ Head(block) = CR)
        BY <2>2 DEF Absorbed
      <4> QED
        BY <1>2, <2>2, <4>1 DEF Input, Absorbed, plusVars
    <3> QED
      BY <1>2, <2>2, <3>1, <3>2, <3>3
  <2>3. CASE Absorbed(Head(block)) /\ mode # "ONLINE" /\ mode' = mode
    BY <2>3
  <2>4. CASE mode = "ONLINE" /\ Online(Head(block))
    BY <1>2, <2>1, <2>4
  <2>5. CASE mode = "CIPSEND" /\ Payload(Head(block))
    BY <2>5 DEF Payload
  <2>6. CASE mode = "COMMAND" /\ CommandByte(Head(block))
    <3>1. GoOnline /\ Connected /\ handled = 0
      BY <1>1, <2>6 DEF CommandByte, HandledOK, sendVars
    <3> QED
      BY <1>2, <3>1 DEF GoOnline
  <2> QED
    BY <1>2, <2>2, <2>3, <2>4, <2>5, <2>6 DEF Input
<1>3. CASE Poll
  BY <1>3 DEF Poll, Escape, GiveUp, NoCarrier, LeaveOnline, Idle
<1> QED
  BY <1>2, <1>3, Steps DEF Idle

LEMMA IdleKeeps ==
  ASSUME Known, Idle \/ GiveUp
  PROVE  /\ UNCHANGED <<mode, elapsed, recent, handled>>
         /\ Since' = Since /\ (Endless' <=> Endless)
<1>1. UNCHANGED <<mode, elapsed, quiet, recentVars>>
  BY DEF Idle, DrainRead, DrainMove, DrainEnd, PollOther, GiveUp, timeVars
<1> QED
  BY <1>1 DEF recentVars, Since, Endless

LEMMA SilenceKept ==
  ASSUME Known, GapsOK, SilenceOK, EarnedOK, Next
  PROVE  SilenceOK'
<1> SUFFICES ASSUME mode' = "ONLINE" PROVE SilenceOK'
  BY DEF SilenceOK
<1>1. /\ elapsed \in Nat /\ sincePoll \in Nat /\ sincePoll <= Lag /\ held \in Nat /\ Since \in Nat
      /\ elapsed < Wrap
  BY Times, Constants
<1>2. Guard \in Nat /\ Lag \in Nat /\ Wrap \in Nat /\ Guard + Lag < Wrap
  BY SerialAssumption
<1>3. ASSUME NEW b \in Bytes, Arrive(b) PROVE SilenceOK'
  <2>1. UNCHANGED <<mode, elapsed, held, sincePoll>>
    BY <1>3 DEF Arrive, plusVars
  <2>2. Since' = Since /\ (Endless' <=> Endless)
    BY <1>3, ArriveSince
  <2> QED
    BY <2>1, <2>2 DEF SilenceOK
<1>4. CASE Tick
  <2>1. mode' = mode /\ held' = held /\ sincePoll' = sincePoll + 1 /\ sincePoll < Lag
    BY <1>4 DEF Tick, plusVars
  <2>2. mode = "ONLINE"
    BY <2>1
  <2>3. /\ Endless => Endless'
        /\ Endless' \/ (Since' = Since + 1 /\ Since + 1 < Wrap)
        /\ Since' \in {Since, Since + 1}
    BY <1>4, <2>2, TickSince
  <2>4. elapsed' = (elapsed + 1) % Wrap
    BY <1>4, <2>2 DEF Tick
  <2>5. elapsed + 1 < Wrap => elapsed' = elapsed + 1
    BY <1>1, <1>2, <2>4
  <2>6. Endless' \/ (elapsed' <= Since' /\ Since' <= elapsed' + Lag)
    <3>1. CASE Endless'
      BY <3>1
    <3>2. CASE ~Endless'
      <4>1. elapsed <= Since /\ Since <= elapsed + Lag /\ Since' = Since + 1 /\ Since + 1 < Wrap
        BY <2>2, <2>3, <3>2 DEF SilenceOK
      <4>2. elapsed + 1 < Wrap
        BY <1>1, <1>2, <4>1
      <4> QED
        BY <1>1, <1>2, <2>5, <4>1, <4>2
    <3> QED
      BY <3>1, <3>2
  <2>7. ASSUME held > 0
        PROVE  /\ Since' <= elapsed' + Lag
               /\ elapsed' <= Guard + sincePoll'
               /\ Guard > 0 => elapsed' < Guard + sincePoll'
    <3>1. /\ Since <= elapsed + Lag /\ elapsed <= Guard + sincePoll
          /\ Guard > 0 => elapsed < Guard + sincePoll
      BY <2>2, <2>7 DEF SilenceOK
    <3>2. elapsed + 1 < Wrap
      BY <1>1, <1>2, <2>1, <3>1
    <3>3. elapsed' = elapsed + 1 /\ Since' <= Since + 1 /\ Since' \in Int
      BY <1>1, <2>3, <2>5, <3>2
    <3> QED
      BY <1>1, <1>2, <2>1, <3>1, <3>3
  <2> QED
    BY <2>1, <2>6, <2>7 DEF SilenceOK
<1>5. CASE Idle \/ GiveUp
  <2>1. /\ UNCHANGED <<mode, elapsed>> /\ Since' = Since /\ (Endless' <=> Endless)
    BY <1>5, IdleKeeps
  <2>2. held' = 0 \/ UNCHANGED <<held, sincePoll>>
        \/ (held' = held /\ sincePoll' = 0 /\ (held > 0 => elapsed < Guard))
    <3>1. mode = "ONLINE" /\ elapsed \in Nat /\ Guard \in Nat
      BY <1>1, <1>2, <2>1
    <3> QED
      BY <1>5, <3>1 DEF Idle, DrainRead, DrainMove, DrainEnd, PollOther, PollDone, GuardOver,
                      GiveUp, plusVars, timeVars
  <2>3. CASE held' = 0
    BY <2>1, <2>3 DEF SilenceOK
  <2>4. CASE UNCHANGED <<held, sincePoll>>
    BY <2>1, <2>4 DEF SilenceOK
  <2>5. CASE held' = held /\ sincePoll' = 0 /\ (held > 0 => elapsed < Guard)
    BY <1>1, <1>2, <2>1, <2>5 DEF SilenceOK
  <2> QED
    BY <2>2, <2>3, <2>4, <2>5
<1>6. CASE Input /\ handled = 0 /\ held' = 0 /\ elapsed' = 0 /\ Connected
  <2>1. Since' \in 0..Lag
    BY <1>6, ConnectedSince
  <2> QED
    BY <1>2, <1>6, <2>1 DEF SilenceOK
<1>7. CASE Input /\ mode = "ONLINE" /\ handled = 0 /\ held = 0 /\ Between
             /\ UNCHANGED <<held, elapsed, sincePoll>>
  <2>1. (Endless => Endless') /\ (Endless' \/ Since' = Since)
    BY <1>7, BetweenSince
  <2>2. held' = 0 /\ elapsed' = elapsed
    BY <1>7
  <2> QED
    BY <1>7, <2>1, <2>2 DEF SilenceOK
<1>8. CASE Input /\ mode = "ONLINE" /\ Online(Head(block)) /\ Head(block) \in Bytes
  <2>1. Since' = waited[1] /\ waited[1] \in 0..Lag
    BY <1>8, OnlineSince
  <2>2. elapsed' = 0 /\ sincePoll' = sincePoll
    BY <1>8 DEF Online
  <2>3. Since' \in Nat /\ Since' <= Lag
    BY <1>2, <2>1
  <2>4. elapsed' <= Since' /\ Since' <= elapsed' + Lag /\ elapsed' <= Guard + sincePoll'
        /\ (Guard > 0 => elapsed' < Guard + sincePoll')
    BY <1>1, <1>2, <2>2, <2>3
  <2> QED
    BY <2>4 DEF SilenceOK
<1>9. CASE AutoAnswer
  <2>1. Since' \in 0..Lag /\ held' = 0 /\ elapsed' = 0
    BY <1>9, AnsweredSince DEF AutoAnswer, GoOnline
  <2> QED
    BY <1>2, <2>1 DEF SilenceOK
<1> QED
  BY <1>3, <1>4, <1>5, <1>6, <1>7, <1>8, <1>9, OnlineSteps

\* A + that is read becomes the last one, and at most three count.
LEMMA PlusRead ==
  ASSUME Known, EarnedOK, GapsOK, Input, mode = "ONLINE", Online(Plus)
  PROVE  /\ handled' = IF handled = 3 THEN 3 ELSE handled + 1
         /\ Back(0)' = Since - waited[1] /\ (Endless <=> Back(0)' = Long)
         /\ Back(0)' \in 0..Long /\ waited[1] \in 0..Lag /\ Since = Back(0)' + waited[1]
         /\ \A j \in 1..handled' - 1 : recent'[handled' - j].gap = recent[handled - (j - 1)].gap
<1>1. /\ Len(recent) \in Nat /\ handled \in Nat /\ handled <= 3 /\ handled < Len(recent)
      /\ Len(waited) \in Nat /\ Len(waited) = Len(recent) - handled
      /\ (waited # <<>> <=> Len(waited) > 0)
      /\ \A i \in 1..Len(waited) : waited[i] \in 0..Lag
      /\ \A i \in 1..Len(recent) : recent[i].gap \in 0..Long
  BY Times, BlockWaits DEF Input, EarnedOK
<1>2. /\ waited # <<>> /\ 1 \in 1..Len(waited) /\ handled + 1 \in 1..Len(recent)
  BY <1>1
<1>3. waited[1] \in 0..Lag /\ recent[handled + 1].gap \in 0..Long
  BY <1>1, <1>2
<1>4. Since = recent[handled + 1].gap + waited[1] /\ (Endless <=> recent[handled + 1].gap = Long)
  BY <1>2 DEF Since, Endless
<1>5. RecentOK /\ KeptOnline(Plus)
  BY TypeParts DEF Known, Online
<1>6. CASE handled = 3
  <2>1. Forget(1) /\ handled' = handled /\ 1 \in 0..Len(recent)
    BY <1>1, <1>5, <1>6 DEF KeptOnline
  <2>2. \A i \in 1..Len(recent) - 1 : recent'[i] = recent[1 + i]
    BY <1>5, <2>1, ForgetIs
  <2>3. ASSUME NEW j \in 0..handled' - 1
        PROVE  recent'[handled' - j] = recent[handled + 1 - j]
    <3>1. handled' - j \in 1..Len(recent) - 1 /\ 1 + (handled' - j) = handled + 1 - j
      BY <1>1, <1>6, <2>1
    <3> QED
      BY <2>2, <3>1
  <2>4. Back(0)' = recent[handled + 1].gap
    <3>1. 0 \in 0..handled' - 1 /\ handled' - 0 = handled' /\ handled + 1 - 0 = handled + 1
      BY <1>6, <2>1
    <3>2. recent'[handled' - 0] = recent[handled + 1 - 0]
      BY <2>3, <3>1
    <3> QED
      BY <3>1, <3>2 DEF Back
  <2>5. ASSUME NEW j \in 1..handled' - 1
        PROVE  recent'[handled' - j].gap = recent[handled - (j - 1)].gap
    <3>1. j \in 0..handled' - 1 /\ handled + 1 - j = handled - (j - 1)
      BY <1>6, <2>1
    <3> QED
      BY <2>3, <3>1
  <2> QED
    BY <1>3, <1>4, <1>6, <2>1, <2>4, <2>5, Constants
<1>7. CASE handled # 3
  <2>1. handled' = handled + 1 /\ recent' = recent
    BY <1>5, <1>7 DEF KeptOnline
  <2>2. Back(0)' = recent[handled + 1].gap
    <3>1. handled' - 0 = handled + 1
      BY <1>1, <2>1
    <3> QED
      BY <2>1, <3>1 DEF Back
  <2>3. ASSUME NEW j \in 1..handled' - 1
        PROVE  recent'[handled' - j].gap = recent[handled - (j - 1)].gap
    <3>1. handled' - j = handled - (j - 1)
      BY <1>1, <2>1
    <3> QED
      BY <2>1, <3>1
  <2> QED
    BY <1>3, <1>4, <1>7, <2>1, <2>2, <2>3, Constants
<1> QED
  BY <1>6, <1>7

\* The + that are held by a byte that is read.
LEMMA HeldRead ==
  ASSUME Known, NEW b \in Bytes, Online(b)
  PROVE  IF Hold(b) THEN held' = held + 1 ELSE held' = 0
BY DEF Online

LEMMA OtherRead ==
  ASSUME NEW b \in Bytes, b # Plus, Online(b)
  PROVE  held' = 0 /\ handled' = 0
BY DEF Online, Hold, KeptOnline

LEMMA EarnedKept ==
  ASSUME Known, GapsOK, SilenceOK, EarnedOK, Next
  PROVE  EarnedOK'
<1> SUFFICES ASSUME mode' = "ONLINE" PROVE EarnedOK'
  BY DEF EarnedOK
<1>1. held \in Nat /\ held <= 3 /\ handled \in Nat /\ handled <= Len(recent) /\ Len(recent) \in Nat
      /\ elapsed \in Nat /\ Since \in Nat
  BY Times, Constants
<1>2. Guard \in Nat /\ Lag \in Nat /\ Guard < Long /\ Long \in Nat
  BY Constants
<1>3. ASSUME held' = 0, handled' \in 0..3 PROVE EarnedOK'
  BY <1>3 DEF EarnedOK
<1>4. ASSUME mode = "ONLINE", UNCHANGED <<held, handled>>,
             \A i \in 1..handled : recent'[i] = recent[i]
      PROVE  EarnedOK'
  <2>1. /\ held <= handled /\ handled <= 3
        /\ held > 0 => recent[handled - (held - 1)].gap >= Guard - Lag
        /\ \A j \in 0..held - 2 : recent[handled - j].gap < Guard + Lag
    BY <1>4 DEF EarnedOK, Back
  <2>2. held > 0 => recent'[handled' - (held' - 1)].gap >= Guard - Lag
    <3>1. held > 0 => handled - (held - 1) \in 1..handled
      BY <1>1, <2>1
    <3> QED
      BY <1>4, <2>1, <3>1
  <2>3. ASSUME NEW j \in 0..held' - 2 PROVE recent'[handled' - j].gap < Guard + Lag
    <3>1. j \in 0..held - 2 /\ handled - j \in 1..handled
      BY <1>1, <1>4, <2>1
    <3> QED
      BY <1>4, <2>1, <3>1
  <2> QED
    BY <1>4, <2>1, <2>2, <2>3 DEF EarnedOK, Back
<1>5. ASSUME NEW b \in Bytes, Arrive(b) PROVE EarnedOK'
  <2>1. UNCHANGED <<mode, held>>
    BY <1>5 DEF Arrive, plusVars
  <2> QED
    BY <1>4, <1>5, <2>1, ArriveSince
<1>6. CASE Tick
  BY <1>4, <1>6 DEF Tick, plusVars
<1>7. CASE Idle \/ GiveUp
  <2>1. UNCHANGED <<mode, recent, handled>>
    BY <1>7, IdleKeeps
  <2>2. held' = 0 \/ held' = held
    BY <1>7 DEF Idle, DrainRead, DrainMove, DrainEnd, PollOther, GiveUp, plusVars
  <2>3. handled \in 0..3
    BY <1>1, <2>1 DEF EarnedOK
  <2> QED
    BY <1>3, <1>4, <2>1, <2>2, <2>3
<1>8. CASE handled' = 0 /\ held' = 0
  BY <1>3, <1>8
<1>9. CASE Input /\ mode = "ONLINE" /\ Online(Plus)
  <2>1. /\ handled' = IF handled = 3 THEN 3 ELSE handled + 1
        /\ Back(0)' \in 0..Long /\ waited[1] \in 0..Lag /\ Since = Back(0)' + waited[1]
        /\ (Endless <=> Back(0)' = Long)
        /\ \A j \in 1..handled' - 1 : recent'[handled' - j].gap = recent[handled - (j - 1)].gap
    BY <1>9, PlusRead
  <2>2. /\ held <= handled /\ handled <= 3
        /\ held > 0 => recent[handled - (held - 1)].gap >= Guard - Lag
        /\ \A j \in 0..held - 2 : recent[handled - j].gap < Guard + Lag
    BY <1>9 DEF EarnedOK, Back
  <2>3. IF Hold(Plus) THEN held' = held + 1 ELSE held' = 0
    BY <1>9, HeldRead, Constants
  <2>4. CASE ~Hold(Plus)
    BY <1>1, <1>3, <2>1, <2>2, <2>3, <2>4
  <2>5. CASE Hold(Plus) /\ held = 0
    <3>1. elapsed >= Guard /\ held' = 1
      BY <2>3, <2>5 DEF Hold
    <3>2. Back(0)' >= Guard - Lag
      <4>1. Endless \/ elapsed <= Since
        BY <1>9 DEF SilenceOK
      <4> QED
        BY <1>1, <1>2, <2>1, <3>1, <4>1
    <3>3. recent'[handled' - (held' - 1)].gap >= Guard - Lag
      <4>1. held' - 1 = 0
        BY <3>1
      <4> QED
        BY <3>2, <4>1 DEF Back
    <3>4. 1 <= handled' /\ handled' <= 3 /\ 0..held' - 2 = {}
      BY <1>1, <2>1, <2>2, <3>1
    <3> QED
      BY <3>1, <3>3, <3>4 DEF EarnedOK, Back
  <2>6. CASE Hold(Plus) /\ held # 0
    <3>1. elapsed < Guard /\ held \in {1, 2} /\ held' = held + 1
      BY <2>3, <2>6 DEF Hold
    <3>2. Back(0)' < Guard + Lag
      <4>1. Since <= elapsed + Lag
        BY <1>9, <3>1 DEF SilenceOK
      <4> QED
        BY <1>1, <1>2, <2>1, <3>1, <4>1
    <3>3. held' <= handled' /\ handled' <= 3 /\ handled' \in Nat
      BY <1>1, <2>1, <2>2, <3>1
    <3>6. held' - 1 = held /\ held \in Nat /\ held > 0 /\ held <= handled' - 1
      <4>1. \A h, g, k \in Int : g = h + 1 /\ g <= k => g - 1 = h /\ h <= k - 1
        OBVIOUS
      <4>2. held \in Nat /\ held \in Int /\ held > 0
        BY <1>1, <3>1
      <4>3. held' \in Int /\ held' = held + 1
        BY <3>1, <4>2
      <4>4. handled' \in Int /\ held' <= handled'
        BY <3>3
      <4> QED
        BY <4>1, <4>2, <4>3, <4>4
    <3>7. held \in 1..handled' - 1
      <4>1. \A h, k \in Int : h > 0 /\ h <= k - 1 => h \in 1..k - 1
        OBVIOUS
      <4>2. held \in Int /\ handled' \in Int
        BY <3>3, <3>6
      <4> QED
        BY <3>6, <4>1, <4>2
    <3>4. recent'[handled' - (held' - 1)].gap >= Guard - Lag
      <4>1. recent'[handled' - held].gap = recent[handled - (held - 1)].gap
        BY <2>1, <3>7
      <4> QED
        BY <2>2, <3>6, <4>1
    <3>5. ASSUME NEW j \in 0..held' - 2 PROVE recent'[handled' - j].gap < Guard + Lag
      <4>1. CASE j = 0
        BY <3>2, <4>1 DEF Back
      <4>2. CASE j # 0
        <5>1. j \in 1..held - 1
          BY <1>1, <3>1, <4>2
        <5>2. j \in 1..handled' - 1 /\ j - 1 \in 0..held - 2
          <6>1. \A i, h, k \in Int :
                  i \in 1..h - 1 /\ h <= k - 1 => i \in 1..k - 1 /\ i - 1 \in 0..h - 2
            OBVIOUS
          <6>2. held \in Int /\ handled' \in Int /\ j \in Int
            BY <3>3, <3>6
          <6> QED
            BY <3>6, <5>1, <6>1, <6>2
        <5> QED
          BY <2>1, <2>2, <5>2
      <4> QED
        BY <4>1, <4>2
    <3> QED
      BY <3>1, <3>3, <3>4, <3>5 DEF EarnedOK, Back
  <2> QED
    BY <2>4, <2>5, <2>6
<1>10. CASE Input /\ mode = "ONLINE" /\ Online(Head(block)) /\ Head(block) \in Bytes
  <2>1. Head(block) = Plus \/ (held' = 0 /\ handled' = 0)
    BY <1>10, OtherRead
  <2> QED
    BY <1>8, <1>9, <1>10, <2>1
<1>11. CASE Input /\ handled = 0 /\ (Connected \/ Between) /\ held' = 0
  BY <1>8, <1>11 DEF Connected, Between, FirstAfter
<1>12. CASE AutoAnswer
  BY <1>8, <1>12, AnsweredSince DEF AutoAnswer, GoOnline
<1> QED
  BY <1>5, <1>6, <1>7, <1>10, <1>11, <1>12, OnlineSteps

LEMMA AskedKept ==
  ASSUME Known, GapsOK, SilenceOK, EarnedOK, AskedOK, Next
  PROVE  AskedOK'
<1> SUFFICES ASSUME mode' = "ONLINE", NEW j \in Nat, j \in 0..handled' - 1, Begun(j)'
             PROVE  held' = j + 1 \/ (j < 2 /\ (Endless' \/ Since' >= Guard))
  <2>1. ASSUME mode' = "ONLINE" PROVE handled' \in Nat
    BY RecentKept DEF RecentOK
  <2>2. ASSUME mode' = "ONLINE" PROVE 0..handled' - 1 \subseteq Nat
    BY <2>1, <2>2
  <2> QED
    BY <2>2 DEF AskedOK
<1> DEFINE Goal == held' = j + 1 \/ (j < 2 /\ (Endless' \/ Since' >= Guard))
<1>1. held \in Nat /\ held <= 3 /\ handled \in Nat /\ handled <= Len(recent) /\ Len(recent) \in Nat
      /\ elapsed \in Nat /\ Since \in Nat /\ sincePoll \in Nat /\ sincePoll <= Lag
  BY Times, Constants
<1>2. Guard \in Nat /\ Lag \in Nat /\ Guard < Long /\ Long \in Nat
  BY Constants
<1>3. /\ recent'[handled' - j].gap \in Guard + 2 * Lag..Long - 1
      /\ \A i \in 0..j - 1 : recent'[handled' - i].gap < Guard - Lag
  BY DEF Begun, Back
<1>4. ASSUME mode = "ONLINE", handled' = handled, \A i \in 1..handled : recent'[i] = recent[i],
             Endless => Endless', Since' \in Nat, Endless' \/ Since' >= Since,
             held' = held \/ (held < 3 /\ (Endless \/ Since >= Guard))
      PROVE  Goal
  <2>1. ASSUME NEW i \in 0..j PROVE recent'[handled' - i] = recent[handled - i]
    <3>1. handled - i \in 1..handled
      BY <1>1, <1>4
    <3> QED
      BY <1>4, <3>1
  <2>2. Begun(j)
    <3>1. j \in 0..j /\ \A i \in 0..j - 1 : i \in 0..j
      OBVIOUS
    <3> QED
      BY <1>3, <2>1, <3>1 DEF Begun, Back
  <2>3. held = j + 1 \/ (j < 2 /\ (Endless \/ Since >= Guard))
    BY <1>4, <2>2 DEF AskedOK
  <2>4. CASE held = j + 1
    <3>1. held < 3 => j < 2
      BY <2>4
    <3>2. (Endless \/ Since >= Guard) => (Endless' \/ Since' >= Guard)
      BY <1>1, <1>2, <1>4
    <3> QED
      BY <1>4, <2>4, <3>1, <3>2
  <2>5. CASE j < 2 /\ (Endless \/ Since >= Guard)
    <3>1. Endless' \/ Since' >= Guard
      BY <1>1, <1>2, <1>4, <2>5
    <3> QED
      BY <2>5, <3>1
  <2> QED
    BY <2>3, <2>4, <2>5
<1>5. ASSUME NEW b \in Bytes, Arrive(b) PROVE Goal
  <2>1. UNCHANGED <<mode, held>>
    BY <1>5 DEF Arrive, plusVars
  <2>2. /\ Since' = Since /\ (Endless' <=> Endless) /\ handled' = handled
        /\ \A i \in 1..handled : recent'[i] = recent[i]
    BY <1>5, ArriveSince
  <2>3. Since' \in Nat /\ Since' >= Since
    BY <1>1, <2>2
  <2> QED
    BY <1>4, <2>1, <2>2, <2>3
<1>6. CASE Tick
  <2>1. UNCHANGED <<mode, held, recent, handled>>
    BY <1>6 DEF Tick, plusVars
  <2>2. (Endless => Endless') /\ Since' \in {Since, Since + 1}
    BY <1>6, <2>1, TickSince
  <2>3. Since' \in Nat /\ Since' >= Since
    BY <1>1, <2>2
  <2> QED
    BY <1>4, <2>1, <2>2, <2>3
<1>7. CASE Idle
  <2>1. /\ UNCHANGED <<mode, recent, handled>> /\ Since' = Since /\ (Endless' <=> Endless)
    BY <1>7, IdleKeeps
  <2>2. held' = held
    BY <1>7 DEF Idle, DrainRead, DrainMove, DrainEnd, PollOther, plusVars
  <2>3. Since' \in Nat /\ Since' >= Since
    BY <1>1, <2>1
  <2> QED
    BY <1>4, <2>1, <2>2, <2>3
<1>8. CASE GiveUp
  <2>1. /\ UNCHANGED <<mode, recent, handled>> /\ Since' = Since /\ (Endless' <=> Endless)
    BY <1>8, IdleKeeps
  <2>2. mode = "ONLINE" /\ held # 3 /\ elapsed >= Guard
    <3>1. escapePending <=> held = 3
      BY TypeParts DEF Known, PlusOK
    <3> QED
      BY <1>8, <3>1 DEF GiveUp, GuardOver
  <2>3. Since' \in Nat /\ Since' >= Since
    BY <1>1, <2>1
  <2>4. Endless \/ Since >= Guard
    <3>1. Endless \/ elapsed <= Since
      BY <2>2 DEF SilenceOK
    <3> QED
      BY <1>1, <1>2, <2>2, <3>1
  <2>5. held < 3
    BY <1>1, <2>2
  <2> QED
    BY <1>4, <2>1, <2>2, <2>3, <2>4, <2>5
<1>9. CASE handled' = 0
  <2>1. 0..handled' - 1 = {}
    BY <1>9
  <2> QED
    BY <2>1
<1>10. CASE Input /\ mode = "ONLINE" /\ Online(Plus)
  <2>1. /\ handled' = IF handled = 3 THEN 3 ELSE handled + 1
        /\ Back(0)' \in 0..Long /\ waited[1] \in 0..Lag /\ Since = Back(0)' + waited[1]
        /\ (Endless <=> Back(0)' = Long)
        /\ \A i \in 1..handled' - 1 : recent'[handled' - i].gap = recent[handled - (i - 1)].gap
    BY <1>10, PlusRead
  <2>2. handled <= 3
    BY <1>10 DEF EarnedOK
  <2>3. IF Hold(Plus) THEN held' = held + 1 ELSE held' = 0
    BY <1>10, HeldRead, Constants
  <2>4. /\ Endless \/ (elapsed <= Since /\ Since <= elapsed + Lag)
        /\ held > 0 => /\ elapsed <= Guard + sincePoll
                       /\ Guard > 0 => elapsed < Guard + sincePoll
    BY <1>10 DEF SilenceOK
  <2>5. Since' = waited[1] /\ Since' \in Nat
    BY <1>2, <1>10, <2>1, OnlineSince, Constants
  <2>6. CASE j = 0
    <3>1. Back(0)' >= Guard + 2 * Lag /\ Back(0)' < Long
      <4>1. recent'[handled' - 0].gap = Back(0)'
        BY DEF Back
      <4>2. recent'[handled' - 0].gap \in Guard + 2 * Lag..Long - 1
        BY <1>3, <2>6
      <4> QED
        BY <1>2, <4>1, <4>2
    <3>2. ~Endless
      BY <1>2, <2>1, <3>1
    <3>3. elapsed >= Guard + Lag
      BY <1>1, <1>2, <2>1, <2>4, <3>1, <3>2
    <3>4. CASE Guard = 0
      <4>1. Since' >= Guard
        BY <2>5, <3>4
      <4> QED
        BY <2>6, <4>1
    <3>5. CASE Guard > 0
      <4>1. ~(held > 0)
        BY <1>1, <1>2, <2>4, <3>3, <3>5
      <4>2. held = 0 /\ elapsed >= Guard
        BY <1>1, <1>2, <3>3, <4>1
      <4>3. held' = 1
        BY <2>3, <4>2 DEF Hold
      <4> QED
        BY <2>6, <4>3
    <3> QED
      BY <1>2, <3>4, <3>5
  <2>7. CASE j > 0
    <3> DEFINE i == j - 1
    <3>1. i \in 0..handled - 1 /\ j \in 1..handled' - 1 /\ i < 2 /\ i + 1 = j /\ i \in Nat
      <4>1. \A h, g, k \in Int : g = (IF h = 3 THEN 3 ELSE h + 1) /\ h <= 3 /\ k > 0 /\ k <= g - 1
              => k - 1 \in 0..h - 1 /\ k \in 1..g - 1 /\ k - 1 < 2 /\ k - 1 + 1 = k /\ k - 1 \in Nat
        OBVIOUS
      <4>2. handled \in Int /\ handled' \in Int /\ j \in Int /\ j <= handled' - 1
        BY <1>1, <2>1
      <4> QED
        BY <2>1, <2>2, <2>7, <4>1, <4>2
    <3>2. recent'[handled' - j].gap = recent[handled - i].gap
      BY <2>1, <3>1
    <3>3. ASSUME NEW k \in 0..i - 1 PROVE recent[handled - k].gap < Guard - Lag
      <4>1. k + 1 \in 1..handled' - 1 /\ k + 1 \in 0..j - 1 /\ (k + 1) - 1 = k
        <5>1. \A l, m, n \in Int : l \in 0..(m - 1) - 1 /\ m <= n - 1
                => l + 1 \in 1..n - 1 /\ l + 1 \in 0..m - 1 /\ (l + 1) - 1 = l
          OBVIOUS
        <5>2. handled' \in Int /\ j \in Int /\ j <= handled' - 1
          BY <1>1, <2>1
        <5>3. k \in Int
          OBVIOUS
        <5> QED
          BY <5>1, <5>2, <5>3
      <4>2. recent'[handled' - (k + 1)].gap < Guard - Lag
        BY <1>3, <4>1
      <4>3. recent'[handled' - (k + 1)].gap = recent[handled - ((k + 1) - 1)].gap
        BY <2>1, <4>1
      <4> QED
        BY <4>1, <4>2, <4>3
    <3>4. Back(0)' < Guard - Lag
      <4>1. 0 \in 0..j - 1
        BY <2>7
      <4>2. recent'[handled' - 0].gap < Guard - Lag
        BY <1>3, <4>1
      <4> QED
        BY <4>2 DEF Back
    <3>5. Begun(i)
      BY <1>3, <3>2, <3>3 DEF Begun, Back
    <3>6. ~Endless /\ Since < Guard
      BY <1>2, <2>1, <3>4
    <3>7. held = i + 1 \/ (i < 2 /\ (Endless \/ Since >= Guard))
      BY <1>10, <3>1, <3>5 DEF AskedOK
    <3>8. held = j
      BY <1>1, <1>2, <3>1, <3>6, <3>7
    <3>9. elapsed < Guard
      BY <1>1, <1>2, <2>4, <3>6
    <3>10. held \in {1, 2}
      BY <2>7, <3>1, <3>8
    <3>11. Hold(Plus)
      BY <3>9, <3>10 DEF Hold
    <3> QED
      BY <2>3, <3>8, <3>11
  <2> QED
    BY <2>6, <2>7
<1>11. CASE Input /\ mode = "ONLINE" /\ Online(Head(block)) /\ Head(block) \in Bytes
  <2>1. Head(block) = Plus \/ handled' = 0
    BY <1>11, OtherRead
  <2> QED
    BY <1>9, <1>10, <1>11, <2>1
<1>12. CASE Input /\ handled = 0 /\ (Connected \/ Between)
  BY <1>9, <1>12 DEF Connected, Between, FirstAfter
<1>13. CASE AutoAnswer
  BY <1>9, <1>13, AnsweredSince
<1> QED
  BY <1>5, <1>6, <1>7, <1>8, <1>11, <1>12, <1>13, OnlineSteps

-----------------------------------------------------------------------------
(* The theorems.                                                           *)

IInv ==
  /\ Known /\ OnlineBytes /\ PayloadKept
  /\ GapsOK /\ SilenceOK /\ EarnedOK /\ AskedOK

LEMMA Start == Init => IInv
<1> SUFFICES ASSUME Init PROVE IInv
  OBVIOUS
<1>1. RingTypeOK
  BY Constants, SizeNat DEF Init, RingTypeOK, Indices
<1>2. RestOK
  BY Constants, SerialAssumption DEF Init, RestOK, Modes
<1>3. FlagsOK
  BY DEF Init, FlagsOK
<1>4. PlusOK
  <2>1. ~(held = 3) /\ escapePending = FALSE
    BY DEF Init
  <2> QED
    BY <2>1, Zenon DEF PlusOK
<1>5. RecentOK /\ WaitedOK /\ OldestFirst
  BY Constants DEF Init, RecentOK, WaitedOK, OldestFirst
<1>6. HandledOK /\ PcOK
  BY DEF Init, HandledOK, PcOK
<1>7. RingInOrder
  <2>1. Used = 0 /\ Contents \in Seq(Bytes) /\ Len(Contents) = Used
    BY <1>1, UsedIs, ContentsIs, SizeNat DEF Init
  <2>2. Waiting = <<>>
    BY <2>1 DEF Waiting, Init
  <2>3. Pending \in Seq(Bytes) /\ Len(Pending) = 0
    BY <1>5, PendingIs DEF Init
  <2>4. Pending = <<>> /\ block = <<>>
    BY <2>3 DEF Init
  <2> QED
    BY <2>2, <2>4, InOrderIs
<1>8. OnlineBytes /\ PayloadKept
  BY DEF Init, OnlineBytes, PayloadKept
<1>9. GapsOK
  <2>1. ASSUME NEW i \in 1..Len(waited) - 1 PROVE FALSE
    <3>1. Len(waited) = 0
      BY DEF Init
    <3> QED
      BY <3>1
  <2>2. waited = <<>>
    BY DEF Init
  <2> QED
    BY <2>1, <2>2 DEF GapsOK
<1>10. SilenceOK /\ EarnedOK /\ AskedOK
  BY DEF Init, SilenceOK, EarnedOK, AskedOK
<1> QED
  BY <1>1, <1>2, <1>3, <1>4, <1>5, <1>6, <1>7, <1>8, <1>9, <1>10, TypeParts DEF IInv, Known

LEMMA TypePartsNext ==
  RingTypeOK' /\ RestOK' /\ FlagsOK' /\ PlusOK' /\ RecentOK' /\ WaitedOK' => TypeOK'
BY TypeParts, PTL

LEMMA Kept == IInv /\ [Next]_vars => IInv'
<1> SUFFICES ASSUME IInv, [Next]_vars PROVE IInv'
  OBVIOUS
<1>1. CASE Next
  <2>1. TypeOK'
    BY <1>1, RingKept, RestKept, FlagsKept, PlusKept, RecentKept, WaitedKept, TypePartsNext
       DEF IInv
  <2> QED
    BY <1>1, <2>1, RecentKept, WaitedKept, OrderKept, OnlineKept, PayloadStep, GapsStep,
       SilenceKept, EarnedKept, AskedKept DEF IInv, Known
<1>2. CASE UNCHANGED vars
  <2> USE <1>2 DEF vars, ringVars, mainVars, lineVars, sendVars, plusVars, sentVars, timeVars,
                   recentVars
  <2>1. TypeOK'
    BY DEF IInv, Known, TypeOK, RingTypeOK
  <2>2. HandledOK' /\ PcOK'
    BY DEF IInv, Known, HandledOK, PcOK, Used
  <2>5. OldestFirst'
    BY DEF IInv, Known, OldestFirst
  <2>3. RingInOrder'
    BY DEF IInv, Known, RingInOrder, Contents, Used
  <2>4. OnlineBytes' /\ PayloadKept'
    BY DEF IInv, OnlineBytes, PayloadKept
  <2>6. GapsOK'
    BY DEF IInv, GapsOK
  <2>7. SilenceOK'
    BY DEF IInv, SilenceOK, Since, Endless
  <2>8. EarnedOK'
    BY DEF IInv, EarnedOK, Back
  <2>9. AskedOK'
    BY DEF IInv, AskedOK, Begun, Back, Since, Endless
  <2> QED
    BY <2>1, <2>2, <2>3, <2>4, <2>5, <2>6, <2>7, <2>8, <2>9 DEF IInv, Known
<1> QED
  BY <1>1, <1>2

LEMMA Invariant == Spec => []IInv
BY Start, Kept, PTL DEF Spec

\* The variables of the input keep their types.
THEOREM TypeCorrect == Spec => []TypeOK
<1>1. IInv => TypeOK
  BY DEF IInv, Known
<1> QED
  BY <1>1, Invariant, PTL

\* The ring of the UART and the block of the loop hold the bytes that arrived and were
\* not read, in their order (main.c, at_modem_input).
THEOREM InOrder == Spec => []RingInOrder
<1>1. IInv => RingInOrder
  BY DEF IInv, Known
<1> QED
  BY <1>1, Invariant, PTL

\* Data given online are handed to the link once and in order, the + that were held
\* included, and what leaves is that or the beginning of it (input_online, online_flush,
\* at_modem_poll).
THEOREM DataWhole == Spec => []OnlineBytes
<1>1. IInv => OnlineBytes
  BY DEF IInv
<1> QED
  BY <1>1, Invariant, PTL

\* The payload of AT+CIPSEND or AT+NWRITE is what was sent after the command line
\* (at_modem_input).
THEOREM PayloadWhole == Spec => []PayloadExact
<1>1. IInv => PayloadExact
  BY DEF IInv, PayloadKept, PayloadExact
<1> QED
  BY <1>1, Invariant, PTL

\* +++ between two silences that are longer than the guard time by two turns of the loop
\* has ended the online mode when the second of them has lasted (input_online,
\* at_modem_poll).
THEOREM SilencesHeard == Spec => []EscapeHeard
<1>1. IInv => EscapeHeard
  <2> SUFFICES ASSUME IInv, mode = "ONLINE", Asked PROVE FALSE
    BY DEF EscapeHeard
  <2>1. /\ handled = 3 /\ Len(recent) = 3
        /\ recent[1].gap \in Guard + 2 * Lag..Long - 1
        /\ \A i \in {2, 3} : recent[i].gap < Guard - Lag
        /\ quiet >= Guard + 2 * Lag
    BY DEF Asked, LastThreePlus
  <2>2. Known /\ SilenceOK /\ AskedOK
    BY DEF IInv
  <2>3. waited = <<>> /\ sincePoll \in 0..Lag /\ elapsed \in Nat /\ quiet \in Nat
        /\ recent[2].gap \in Nat
    BY <2>1, <2>2, Times, Constants
  <2>4. Since = quiet
    BY <2>3 DEF Since
  <2>5. Begun(2)
    <3>1. handled - 2 = 1 /\ handled - 1 = 2 /\ handled - 0 = 3 /\ 0..2 - 1 = {0, 1}
      BY <2>1
    <3> QED
      BY <2>1, <3>1 DEF Begun, Back
  <2>6. held = 3
    <3>1. 2 \in 0..handled - 1
      BY <2>1
    <3> QED
      BY <2>2, <2>5, <3>1 DEF AskedOK
  <2>7. Since <= elapsed + Lag /\ (Guard > 0 => elapsed < Guard + sincePoll)
    BY <2>2, <2>6 DEF SilenceOK
  <2>8. Guard > 0
    BY <2>1, <2>3, Constants
  <2> QED
    BY <2>1, <2>3, <2>4, <2>7, <2>8, Constants
<1> QED
  BY <1>1, Invariant, PTL

\* Only +++ between two such silences ends it so (at_modem_poll).
THEOREM SilencesEarned == Spec => EscapeEarned
<1>1. IInv /\ Escape => Earned
  <2> SUFFICES ASSUME IInv, Escape PROVE Earned
    OBVIOUS
  <2>1. Known /\ SilenceOK /\ EarnedOK
    BY DEF IInv
  <2>2. mode = "ONLINE" /\ elapsed >= Guard /\ held = 3
    <3>1. escapePending <=> held = 3
      BY <2>1, TypeParts DEF Known, PlusOK
    <3> QED
      BY <3>1 DEF Escape, GuardOver
  <2>3. /\ handled = 3
        /\ recent[1].gap >= Guard - Lag
        /\ \A i \in {2, 3} : recent[i].gap < Guard + Lag
    <3>1. held <= handled /\ handled <= 3 /\ Back(held - 1) >= Guard - Lag
          /\ \A j \in 0..held - 2 : Back(j) < Guard + Lag
      BY <2>1, <2>2 DEF EarnedOK
    <3>2. handled = 3
      BY <2>1, <2>2, <3>1, Times
    <3>3. handled - (held - 1) = 1 /\ handled - 1 = 2 /\ handled - 0 = 3
          /\ 0 \in 0..held - 2 /\ 1 \in 0..held - 2
      BY <2>2, <3>2
    <3> QED
      BY <3>1, <3>2, <3>3 DEF Back
  <2>4. Endless \/ elapsed <= Since
    BY <2>1, <2>2 DEF SilenceOK
  <2>5. /\ elapsed \in Nat /\ quiet \in Nat /\ Len(recent) \in Nat
        /\ Len(waited) = Len(recent) - handled /\ (waited # <<>> <=> Len(waited) > 0)
        /\ \A i \in 1..Len(waited) : waited[i] \in 0..Lag
        /\ \A i \in 1..Len(recent) : recent[i].gap \in 0..Long
    BY <2>1, Times, Constants
  <2>6. CASE Len(recent) > 3
    <3>1. waited # <<>> /\ handled + 1 = 4 /\ waited[1] \in 0..Lag /\ recent[4].gap \in 0..Long
      BY <2>3, <2>5, <2>6
    <3>2. Since = recent[4].gap + waited[1] /\ (Endless <=> recent[4].gap = Long)
      BY <3>1 DEF Since, Endless
    <3>3. recent[4].gap >= Guard - Lag
      BY <2>2, <2>4, <2>5, <3>1, <3>2, Constants
    <3> QED
      BY <2>3, <2>6, <3>3 DEF Earned, LastThreePlus
  <2>7. CASE ~(Len(recent) > 3)
    <3>1. waited = <<>>
      BY <2>1, <2>3, <2>7, Times
    <3>2. Since = quiet /\ (Endless <=> quiet = Long)
      BY <3>1 DEF Since, Endless
    <3>3. quiet >= Guard
      BY <2>2, <2>4, <2>5, <3>2, Constants
    <3> QED
      BY <2>3, <2>7, <3>3 DEF Earned, LastThreePlus
  <2> QED
    BY <2>6, <2>7
<1>2. IInv /\ [Next]_vars => [Escape => Earned]_vars
  BY <1>1
<1> QED
  BY <1>2, Invariant, PTL DEF Spec, EscapeEarned
=============================================================================
