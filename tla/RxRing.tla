------------------------------- MODULE RxRing -------------------------------
(***************************************************************************)
(* A ring of bytes with one writer in an interrupt and one reader in the   *)
(* main loop: uart_ring (main.c), where a byte that does not fit is lost,  *)
(* and rx_ring (at_modem.c), where a segment or a datagram is taken whole  *)
(* or not at all. The reader runs outside interrupts, so that a step of    *)
(* the writer may fall between its reading a slot and its moving tail; the *)
(* writer is never interrupted by the reader.                              *)
(*                                                                         *)
(* Empty is head = tail: one slot stays unused.                            *)
(***************************************************************************)
EXTENDS Integers, Sequences

CONSTANTS
  Size,    \* UART_RING, AT_RX_RING_SIZE
  Bytes

ASSUME RingAssumption == Size \in Nat \ {0, 1}

VARIABLES slot, head, tail

ringVars == <<slot, head, tail>>

Indices == 0..Size - 1

\* An index that runs over the end starts again at 0.
Around(i) == i % Size

RingTypeOK ==
  /\ slot \in [Indices -> Bytes]
  /\ head \in Indices /\ tail \in Indices

RingInit ==
  /\ slot \in [Indices -> Bytes]
  /\ head = 0 /\ tail = 0

\* at_modem_rx_space and rx_used.
Used == Around(head - tail + Size)
Space == Size - 1 - Used

\* What the reader has still to read, oldest first.
Contents == [i \in 1..Used |-> slot[Around(tail + i - 1)]]

\* on_uart_rx.
NeverFull == FALSE                                                 \* mutant
Full == Around(head + 1) = tail

PushByte(b) ==
  IF Full THEN UNCHANGED ringVars
  ELSE /\ slot' = [slot EXCEPT ![head] = b]
       /\ head' = Around(head + 1)
       /\ UNCHANGED tail

\* at_modem_rx_push, and at_modem_rx_push_dgram with its two bytes of length in s.
Fits(s) == Len(s) <= Space

PushBlock(s) ==
  IF Fits(s)
  THEN /\ slot' = [ j \in Indices |->
                      LET i == Around(j - head + Size)
                      IN  IF i < Len(s) THEN s[i + 1] ELSE slot[j] ]
       /\ head' = Around(head + Len(s))
       /\ UNCHANGED tail
  ELSE UNCHANGED ringVars

\* The reader has copied the oldest byte and moves on: uart_drain, rx_pop.
PopByte ==
  /\ Used > 0
  /\ tail' = Around(tail + 1)
  /\ UNCHANGED <<slot, head>>

\* rx_flush.
Flush == tail' = head /\ UNCHANGED <<slot, head>>

RingNext ==
  \/ \E b \in Bytes : PushByte(b)
  \/ \E s \in Seq(Bytes) : PushBlock(s)
  \/ PopByte \/ Flush

RingSpec == RingInit /\ [][RingNext]_ringVars
=============================================================================
