----------------------------- MODULE SerialInput -----------------------------
(***************************************************************************)
(* What becomes of the bytes the program sends on the UART: the ring the   *)
(* interrupt fills (main.c), and at_modem_input, which reads them as lines *)
(* of commands, as the payload of AT+CIPSEND or AT+NWRITE, or as data of   *)
(* the link, among which it looks for +++ between two silences.            *)
(*                                                                         *)
(* The silences are measured on bytes that are read, not on bytes that     *)
(* arrive, with a counter of milliseconds that wraps: the properties say   *)
(* what that is worth to the program, when the loop is never longer than   *)
(* Lag. One unit of time is what a Guard is counted in.                    *)
(*                                                                         *)
(* The code hands the data of a block to the link in batches of 256 bytes  *)
(* at most, here each byte is handed over as it is read: a batch is what   *)
(* several steps of Online hand over, one after the other.                 *)
(***************************************************************************)
EXTENDS RxRing, SequencesExt

CONSTANTS
  Plus, CR, LF,  \* register S2, and the two ends of line; Bytes has others too
  Guard,         \* register S12
  Wrap,          \* the counter of milliseconds starts again at 0
  Lag,           \* longest time a byte waits to be read, and between two polls
  BlockMax,      \* sizeof buf of main
  SendMax        \* AT_SEND_MAX

ASSUME SerialAssumption ==
  /\ {Plus, CR, LF} \subseteq Bytes
  /\ Guard \in Nat /\ Lag \in Nat /\ Wrap \in Nat
  \* the counter wraps after 49 days; a guard time is 5.1 s at most
  /\ Guard + Lag < Wrap /\ 2 * Lag <= Wrap
  /\ BlockMax \in Nat \ {0} /\ SendMax \in Nat \ {0}

VARIABLES
  pc, block,                       \* main: where it is, and buf
  mode, typed, skipLf,             \* struct at_modem; typed: the line is not empty
  expected, payload,               \* send_expected, send_buf
  held, escapePending,             \* plus_count, escape_pending
  elapsed,                         \* millis - last_rx_ms, which is all that is read of both
  \* history: the + that were read last, online, then the bytes that wait, each with
  \* the time since the one before; how many were read; how long each of the others
  \* has waited; the time since the last byte and since the last poll
  recent, handled, waited, quiet, sincePoll,
  \* history: bytes given online and not handed to the link; some left that were not
  \* the oldest of those; what was read since the command line of a payload, and how
  \* that ended
  owed, garbled, raw, endedByCr

mainVars  == <<pc, block>>
lineVars  == <<typed, skipLf>>
sendVars  == <<expected, payload, raw, endedByCr>>
plusVars  == <<held, escapePending>>
sentVars  == <<owed, garbled>>
timeVars  == <<elapsed, quiet, sincePoll>>
recentVars == <<recent, handled, waited>>
vars == << ringVars, mainVars, mode, lineVars, sendVars, plusVars, sentVars,
           timeVars, recentVars >>

\* A silence of this or more counts as endless.
Long == Wrap - Lag

Modes == {"COMMAND", "CIPSEND", "ONLINE"}

TypeOK ==
  /\ RingTypeOK
  /\ pc \in {"drain", "taken", "input", "poll"} /\ block \in Seq(Bytes)
  /\ mode \in Modes /\ typed \in BOOLEAN /\ skipLf \in BOOLEAN
  /\ expected \in 0..SendMax /\ payload \in Seq(Bytes) /\ Len(payload) < SendMax
  /\ held \in 0..3 /\ escapePending = (held = 3)
  /\ elapsed \in 0..Wrap - 1 /\ quiet \in 0..Long /\ sincePoll \in 0..Lag
  /\ recent \in Seq([byte : Bytes, gap : 0..Long]) /\ handled \in 0..Len(recent)
  /\ waited \in Seq(0..Lag) /\ Len(waited) = Len(recent) - handled
  /\ owed \in Seq(Bytes) /\ garbled \in BOOLEAN
  /\ raw \in Seq(Bytes) /\ endedByCr \in BOOLEAN

Init ==
  /\ head = 0 /\ tail = 0 /\ slot = [i \in Indices |-> LF]
  /\ pc = "drain" /\ block = <<>>
  /\ mode = "COMMAND" /\ typed = FALSE /\ skipLf = FALSE
  /\ expected = 0 /\ payload = <<>> /\ raw = <<>> /\ endedByCr = FALSE
  /\ held = 0 /\ escapePending = FALSE
  /\ elapsed = 0 /\ quiet = 0 /\ sincePoll = 0
  /\ recent = <<>> /\ handled = 0 /\ waited = <<>>
  /\ owed = <<>> /\ garbled = FALSE

-----------------------------------------------------------------------------
(* The interrupt, the clock, and the loop of main.                         *)

Later(t) == IF t < Long THEN t + 1 ELSE t

Arrive(b) ==
  /\ PushByte(b)
  /\ recent' = IF Full THEN recent ELSE Append(recent, [byte |-> b, gap |-> quiet])
  /\ waited' = IF Full THEN waited ELSE Append(waited, 0)
  /\ quiet' = IF Full THEN quiet ELSE 0
  /\ UNCHANGED << mainVars, mode, lineVars, sendVars, plusVars, sentVars,
                  elapsed, sincePoll, handled >>

\* What went before the first byte of a connection does not count.
Tick ==
  /\ sincePoll < Lag
  /\ waited # <<>> => Head(waited) < Lag
  /\ waited' = [i \in 1..Len(waited) |-> waited[i] + 1]
  /\ elapsed' = IF mode = "ONLINE" THEN (elapsed + 1) % Wrap ELSE elapsed
  /\ quiet' = IF mode = "ONLINE" \/ recent # <<>> THEN Later(quiet) ELSE quiet
  /\ sincePoll' = sincePoll + 1
  /\ UNCHANGED << ringVars, mainVars, mode, lineVars, sendVars, plusVars, sentVars,
                  recent, handled >>

\* uart_drain reads a slot, then moves tail.
DrainRead ==
  /\ pc = "drain" /\ Len(block) < BlockMax /\ Used > 0
  /\ pc' = "taken" /\ block' = Append(block, slot[tail])
  /\ UNCHANGED << ringVars, mode, lineVars, sendVars, plusVars, sentVars, timeVars,
                  recentVars >>

DrainMove ==
  /\ pc = "taken"
  /\ PopByte
  /\ pc' = "drain"
  /\ UNCHANGED << block, mode, lineVars, sendVars, plusVars, sentVars, timeVars,
                  recentVars >>

DrainEnd ==
  /\ pc = "drain" /\ (Len(block) = BlockMax \/ Used = 0)
  /\ pc' = IF block = <<>> THEN "poll" ELSE "input"
  /\ UNCHANGED << ringVars, block, mode, lineVars, sendVars, plusVars, sentVars,
                  timeVars, recentVars >>

-----------------------------------------------------------------------------
(* at_modem_input, one byte at a time.                                     *)

\* The byte is read.
Forget(n) == recent' = SubSeq(recent, n + 1, Len(recent))

NotOnline ==
  /\ Forget(1) /\ handled' = 0
  /\ quiet' = IF Len(recent) = 1 THEN 0 ELSE quiet
  /\ UNCHANGED <<elapsed, sincePoll>>

KeptOnline(b) ==
  IF b # Plus THEN Forget(handled + 1) /\ handled' = 0
  ELSE IF handled = 3 THEN Forget(1) /\ UNCHANGED handled
  ELSE handled' = handled + 1 /\ UNCHANGED recent

\* The byte read was not data: of the silence before it and the one after, so much
\* counts as the silence before the first of the data.
FirstAfter(silence) ==
  /\ handled' = 0
  /\ recent' = [ i \in 1..Len(recent) - 1 |->
                   IF i = 1 THEN [recent[2] EXCEPT !.gap = silence[@]] ELSE recent[i + 1] ]
  /\ quiet' = IF Len(recent) = 1 THEN silence[quiet] ELSE quiet
  /\ UNCHANGED sincePoll

\* CONNECT starts the silence, the LF after it does not.
Connected == FirstAfter([after \in 0..Long |-> 0])
Between == FirstAfter([ after \in 0..Long |->
             IF recent[1].gap + after < Long THEN recent[1].gap + after ELSE Long ])

HoldNoGuard(b) == b = Plus /\ held < 3                             \* mutant
HoldNoEnd(b) == b = Plus /\ held < 3 /\ elapsed >= Guard           \* mutant
Hold(b) ==
  /\ b = Plus
  /\ \/ held = 0 /\ elapsed >= Guard
     \/ held \in {1, 2} /\ elapsed < Guard

\* online_flush hands s to the link and is done with it. A link that is down takes
\* nothing, and a sending that fails or takes too long leaves only the beginning: the
\* rest is lost, and nothing tells the program.
Sent(s, given) ==
  /\ owed' = SubSeq(given, Len(s) + 1, Len(given))
  /\ \E n \in 0..Len(s) : garbled' = (garbled \/ ~IsPrefix(SubSeq(s, 1, n), given))

ReleasedLast == <<Plus>>                                           \* mutant
Released == [i \in 1..held |-> Plus]

\* input_online.
Online(b) ==
  /\ \/ /\ Hold(b)
        /\ held' = held + 1 /\ escapePending' = (held = 2)
        /\ owed' = Append(owed, b) /\ UNCHANGED garbled
     \/ /\ ~Hold(b)
        /\ Sent((IF held > 0 THEN Released ELSE <<>>) \o <<b>>, Append(owed, b))
        /\ held' = 0 /\ escapePending' = FALSE
  /\ elapsed' = 0
  /\ KeptOnline(b)
  /\ UNCHANGED <<mode, typed, sendVars, quiet, sincePoll>>

\* AT+CIPSEND and AT+NWRITE: so many bytes, whatever they are.
Payload(b) ==
  /\ \/ /\ Len(payload) + 1 < expected
        /\ payload' = Append(payload, b) /\ UNCHANGED <<mode, typed, expected>>
     \/ /\ Len(payload) + 1 = expected
        /\ mode' = "COMMAND" /\ typed' = FALSE /\ expected' = 0 /\ payload' = <<>>
  /\ raw' = IF mode' = "COMMAND" THEN <<>> ELSE Append(raw, b)
  /\ NotOnline
  /\ UNCHANGED <<plusVars, sentVars, endedByCr>>

GoOnline ==
  /\ mode' = "ONLINE"
  /\ held' = 0 /\ escapePending' = FALSE /\ elapsed' = 0
  /\ owed' = <<>> /\ UNCHANGED garbled
  /\ UNCHANGED sendVars

\* A line that is not empty may be any command: one that goes online (ATDT, ATO,
\* ATA), one that asks for a payload, or another.
CommandByte(b) ==
  \/ /\ b \notin {CR, LF}
     /\ typed' = TRUE /\ UNCHANGED mode
     /\ NotOnline
     /\ UNCHANGED <<plusVars, sentVars, sendVars>>
  \/ /\ b \in {CR, LF}
     /\ typed' = FALSE
     /\ \/ /\ NotOnline
           /\ UNCHANGED <<mode, plusVars, sentVars, sendVars>>
        \/ typed /\ GoOnline /\ Connected
        \/ /\ typed
           /\ mode' = "CIPSEND" /\ expected' \in 1..SendMax /\ payload' = <<>>
           /\ raw' = <<>> /\ endedByCr' = (b = CR)
           /\ NotOnline
           /\ UNCHANGED <<plusVars, sentVars>>

\* The LF of a line that ended with CR and LF.
AbsorbedTwice(b) == skipLf /\ b = LF /\ UNCHANGED skipLf           \* mutant
Absorbed(b) == skipLf /\ b = LF /\ skipLf' = FALSE

Input ==
  /\ pc = "input"
  /\ block' = Tail(block) /\ waited' = Tail(waited)
  /\ LET b == Head(block) IN
     \/ /\ Absorbed(b)
        /\ IF mode = "ONLINE" THEN Between /\ UNCHANGED elapsed ELSE NotOnline
        /\ raw' = IF mode = "CIPSEND" THEN Append(raw, b) ELSE raw
        /\ UNCHANGED << mode, typed, plusVars, sentVars,
                        expected, payload, endedByCr >>
     \/ /\ ~(skipLf /\ b = LF)
        /\ skipLf' = (mode = "COMMAND" /\ b = CR)
        /\ \/ mode = "ONLINE" /\ Online(b)
           \/ mode = "CIPSEND" /\ Payload(b)
           \/ mode = "COMMAND" /\ CommandByte(b)
  /\ pc' = IF block' = <<>> THEN "poll" ELSE "input"
  /\ UNCHANGED ringVars

-----------------------------------------------------------------------------
(* at_modem_poll.                                                          *)

LeaveOnline ==
  /\ mode' = "COMMAND" /\ typed' = FALSE
  /\ Forget(handled) /\ handled' = 0
  /\ elapsed' = 0 /\ quiet' = IF Len(recent) = handled THEN 0 ELSE quiet
  /\ UNCHANGED waited

GuardOver == mode = "ONLINE" /\ held > 0 /\ elapsed >= Guard

\* The silence after the third +. The rest of the poll follows.
Escape ==
  /\ pc = "poll" /\ GuardOver /\ escapePending
  /\ held' = 0 /\ escapePending' = FALSE
  /\ LeaveOnline
  /\ owed' = <<>> /\ UNCHANGED garbled
  /\ UNCHANGED <<ringVars, mainVars, skipLf, sendVars, sincePoll>>

\* Too few + before a silence: they are data.
GiveUp ==
  /\ pc = "poll" /\ GuardOver /\ ~escapePending
  /\ Sent(Released, owed)
  /\ held' = 0 /\ escapePending' = FALSE
  /\ UNCHANGED << ringVars, mainVars, mode, lineVars, sendVars, timeVars, recentVars >>

\* The peer has closed: NO CARRIER. The + that are held stay so, and are forgotten
\* at the next connection.
NoCarrier ==
  /\ pc = "poll" /\ mode = "ONLINE" /\ ~GuardOver
  /\ LeaveOnline
  /\ UNCHANGED <<ringVars, mainVars, skipLf, sendVars, plusVars, sentVars, sincePoll>>

PollDone == pc' = "drain" /\ sincePoll' = 0

\* A call is answered after the rings of register S0, whatever line is being typed.
\* CONNECT starts the silence of a byte that has come and is not read.
AutoAnswer ==
  /\ pc = "poll" /\ mode = "COMMAND"
  /\ GoOnline /\ PollDone
  /\ recent' = [ i \in 1..Len(recent) |->
                   IF i = 1 THEN [recent[1] EXCEPT !.gap = 0] ELSE recent[i] ]
  /\ quiet' = IF recent = <<>> THEN 0 ELSE quiet
  /\ UNCHANGED <<ringVars, block, lineVars, handled, waited>>

PollOther ==
  /\ pc = "poll" /\ ~GuardOver
  /\ PollDone
  /\ UNCHANGED << ringVars, block, mode, lineVars, sendVars, plusVars, sentVars,
                  elapsed, quiet, recentVars >>

Loop ==
  \/ DrainRead \/ DrainMove \/ DrainEnd \/ Input
  \/ Escape \/ GiveUp \/ NoCarrier \/ AutoAnswer \/ PollOther

Next == Loop \/ Tick \/ \E b \in Bytes : Arrive(b)

Spec == Init /\ [][Next]_vars

-----------------------------------------------------------------------------
(* Properties.                                                             *)

\* The ring and the block hold the bytes that arrived and were not read, in their
\* order, whatever slot the interrupt fills while the loop reads another.
RingInOrder ==
  LET waiting == IF pc = "taken" THEN Tail(Contents) ELSE Contents
  IN  block \o waiting = [i \in 1..Len(recent) - handled |-> recent[handled + i].byte]

\* Every byte given online is handed to the link once and in order, but for the + that
\* wait to be told from an escape; what leaves of it, all or less as the link lets it,
\* is never out of order, twice, or what was not given.
OnlineBytes ==
  /\ ~garbled
  /\ mode = "ONLINE" => owed = [i \in 1..held |-> Plus]

\* The payload is what was sent after the command line, of whose end the LF is part
\* when it follows a CR.
PayloadExact ==
  mode = "CIPSEND" =>
    payload = IF endedByCr /\ raw # <<>> /\ raw[1] = LF THEN Tail(raw) ELSE raw

LastThreePlus == handled = 3

\* +++ ends the online mode only between two silences of the program, which are as
\* long as the guard time but for the time the loop may take.
Earned ==
  /\ LastThreePlus
  /\ recent[1].gap >= Guard - Lag
  /\ \A i \in {2, 3} : recent[i].gap < Guard + Lag
  /\ IF Len(recent) > 3 THEN recent[4].gap >= Guard - Lag ELSE quiet >= Guard

EscapeEarned == [][Escape => Earned]_vars

\* Three + close together between silences longer than the guard time by two turns
\* of the loop do end it, unless the first silence is so long that the counter wraps.
Asked ==
  /\ LastThreePlus /\ Len(recent) = 3
  /\ recent[1].gap \in Guard + 2 * Lag..Long - 1
  /\ \A i \in {2, 3} : recent[i].gap < Guard - Lag
  /\ quiet >= Guard + 2 * Lag

EscapeHeard == mode = "ONLINE" => ~Asked
=============================================================================
