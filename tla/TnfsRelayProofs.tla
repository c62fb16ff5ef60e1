-------------------------- MODULE TnfsRelayProofs --------------------------
(* Theorems about the TNFS relay, for any hosts and sizes.                 *)
EXTENDS TnfsRelay, SequenceTheorems, TLAPS

\* No query is newer than resGen, and one with that number asks for the server
\* of the link.
QueriesDated ==
  \A q \in queries : q.gen <= resGen /\ (Current(q) => q.host = curHost)

\* Everything the relay holds is of the server of the link: its address once it
\* is found, the datagram kept and the peer. Addressed needs all of it.
OneServer ==
  /\ res = "ok" => addr = curHost
  /\ pending \in {None, curHost} /\ pcb \in {None, curHost}
  /\ pc = "held" => curHost # None

\* A datagram that the list has come to refuse is kept only as long as none has left:
\* OneStray is not inductive without it.
KeptFirst == pending \notin allowed \cup {None} => strays = 0

RelayInv ==
  /\ TypeOK /\ QueriesDated /\ OneServer /\ KeptFirst /\ OneStray
  /\ Addressed /\ FromServer /\ QuestionOpen

USE RelayAssumption

LEMMA InitInv == Init => RelayInv
  BY DEF Init, RelayInv, TypeOK, QueriesDated, OneServer, KeptFirst, OneStray, Addressed, FromServer, QuestionOpen

\* send_dgram, used as the code uses it: for a datagram of the server of the
\* link, whose address is known.
LEMMA SendInv ==
  ASSUME RelayInv, res = "ok", NEW d \in Hosts, d = curHost, SendDgram(d)
  PROVE  /\ pcb' \in {None, curHost} /\ pcb' \in Hosts \cup {None}
         /\ sent' \in [to : Hosts, at : Hosts \cup {None}] \cup {None}
         /\ Addressed'
         /\ strays' \in {strays, strays + 1} /\ (curHost \in allowed => strays' = strays)
<1>1. pcb \in {None, curHost} /\ addr = curHost /\ curHost # None /\ curHost \in Hosts
  BY DEF RelayInv, TypeOK, OneServer
<1> QED BY <1>1 DEF RelayInv, TypeOK, Addressed, SendDgram, seenVars

LEMMA FrameInv ==
  ASSUME RelayInv, OnFrame
  PROVE  RelayInv'
<1> USE DEF RelayInv, OnFrame, cfgVars, outVars, seenVars, dnsVars, linkVars
<1>1. frames' \in 0..Frames
  BY DEF TypeOK
<1>2. CASE FrameIgnored
  BY <1>1, <1>2 DEF FrameIgnored, TypeOK, QueriesDated, Current, OneServer, KeptFirst, OneStray, Addressed, FromServer, QuestionOpen
<1>3. CASE FrameSent
  <2>1. host \in Hosts /\ host = curHost /\ res = "ok" /\ host \in allowed
    BY <1>3 DEF FrameSent, Accepts, TypeOK
  <2>2. /\ pcb' \in {None, curHost} /\ pcb' \in Hosts \cup {None}
        /\ sent' \in [to : Hosts, at : Hosts \cup {None}] \cup {None}
        /\ Addressed' /\ strays' = strays
    BY <1>3, <2>1, SendInv DEF FrameSent
  <2> QED
    BY <1>1, <1>3, <2>1, <2>2 DEF FrameSent, TypeOK, QueriesDated, Current, OneServer, KeptFirst, OneStray, FromServer, QuestionOpen
<1>4. CASE FrameKept
  BY <1>1, <1>4 DEF FrameKept, Accepts, TypeOK, QueriesDated, Current, OneServer, KeptFirst, OneStray, Addressed, FromServer, QuestionOpen
<1>5. CASE FrameElsewhere
  <2>1. /\ curHost' = host /\ pending' = host /\ host \in Hosts /\ pcb' = None
        /\ res' = "none" /\ resGen' = resGen + 1 /\ queue' = <<>> /\ pc' = "held"
        /\ host \in allowed
        /\ UNCHANGED <<addr, queries, sent, strays, host, allowed, wifi, connected>>
    BY <1>5 DEF FrameElsewhere, Accepts, ForgetQuery, ClearQueue, TypeOK
  <2>2. TypeOK'
    BY <1>1, <2>1 DEF TypeOK
  <2>3. QueriesDated'
    BY <2>1 DEF TypeOK, QueriesDated, Current, Query
  <2> QED
    BY <2>1, <2>2, <2>3 DEF OneServer, KeptFirst, OneStray, Addressed, FromServer, QuestionOpen
<1> QED BY <1>2, <1>3, <1>4, <1>5

LEMMA AskInv ==
  ASSUME RelayInv, Ask
  PROVE  RelayInv'
<1> USE DEF RelayInv, Ask, cfgVars, outVars, seenVars, linkVars
<1>1. curHost \in Hosts
  BY DEF TypeOK, OneServer
<1>2. CASE curHost \in Literals
  <2>1. /\ res' = "ok" /\ addr' = curHost /\ pc' = "usb"
        /\ UNCHANGED <<resGen, queries, cfgVars, outVars, seenVars, curHost, linkVars, frames, sent>>
    BY <1>2
  <2>2. TypeOK' /\ QueriesDated'
    BY <1>1, <2>1 DEF TypeOK, QueriesDated, Current
  <2> QED
    BY <2>1, <2>2 DEF OneServer, KeptFirst, OneStray, Addressed, FromServer, QuestionOpen
<1>3. CASE curHost \notin Literals
  <2>1. resGen' = resGen + 1 /\ resGen \in Nat
    BY <1>3 DEF Asked, TypeOK
  <2>2. CASE res' # "pending"
    <3>0. /\ UNCHANGED queries
          /\ \/ addr' = curHost /\ res' = "ok"
             \/ UNCHANGED addr /\ res' = "fail"
      BY <1>3, <2>2 DEF Asked
    <3>1. TypeOK'
      BY <1>1, <1>3, <2>1, <3>0 DEF TypeOK
    <3>2. QueriesDated'
      BY <2>1, <3>0 DEF TypeOK, QueriesDated, Current, Query
    <3> QED
      BY <2>2, <3>0, <3>1, <3>2 DEF OneServer, KeptFirst, OneStray, Addressed, FromServer, QuestionOpen
  <2>3. CASE res' = "pending"
    <3>0. UNCHANGED addr /\ queries' = queries \cup {[gen |-> resGen', host |-> curHost]}
      BY <1>3, <2>3 DEF Asked
    <3>1. [gen |-> resGen', host |-> curHost] \in Query
      BY <1>1, <2>1 DEF Query
    <3>2. TypeOK'
      BY <1>1, <2>1, <2>3, <3>0, <3>1 DEF TypeOK
    <3>3. QueriesDated'
      BY <2>1, <3>0 DEF TypeOK, QueriesDated, Current, Query
    <3>4. QuestionOpen'
      <4>1. [gen |-> resGen', host |-> curHost] \in queries'
        BY <3>0
      <4>2. \E q \in queries' : q.gen = resGen'
        BY <4>1
      <4> QED
        BY <4>2 DEF QuestionOpen, Current
    <3> QED
      BY <2>3, <3>0, <3>2, <3>3, <3>4 DEF OneServer, KeptFirst, OneStray, Addressed, FromServer
  <2> QED BY <2>2, <2>3
<1> QED BY <1>2, <1>3

LEMMA PollEndInv ==
  ASSUME RelayInv, SendPending \/ PortClosed \/ WriteReply \/ WriteDone
  PROVE  RelayInv'
<1> USE DEF RelayInv, cfgVars, outVars, seenVars, dnsVars, linkVars, loopVars
<1>1. CASE SendPending
  <2>1. CASE res = "ok" /\ pending # None
    <3>1. pending \in Hosts /\ pending = curHost
      BY <2>1 DEF TypeOK, OneServer
    <3>2. /\ pcb' \in {None, curHost} /\ pcb' \in Hosts \cup {None}
          /\ sent' \in [to : Hosts, at : Hosts \cup {None}] \cup {None}
          /\ Addressed'
          /\ strays' \in {strays, strays + 1} /\ (curHost \in allowed => strays' = strays)
      BY <1>1, <2>1, <3>1, SendInv DEF SendPending
    <3>3. strays \in Nat /\ strays <= 1 /\ (curHost \notin allowed => strays = 0)
      BY <3>1 DEF TypeOK, KeptFirst, OneStray
    <3>4. strays' \in Nat /\ OneStray'
      BY <3>2, <3>3 DEF OneStray
    <3>5. KeptFirst'
      BY <1>1, <2>1 DEF SendPending, KeptFirst
    <3> QED
      BY <1>1, <2>1, <3>2, <3>4, <3>5 DEF SendPending, TypeOK, QueriesDated, Current, OneServer, FromServer, QuestionOpen
  <2>2. CASE ~(res = "ok" /\ pending # None)
    BY <1>1, <2>2 DEF SendPending, TypeOK, QueriesDated, Current, OneServer, KeptFirst, OneStray, Addressed, FromServer, QuestionOpen
  <2> QED BY <2>1, <2>2
<1>2. CASE PortClosed
  BY <1>2 DEF PortClosed, ClearQueue, TypeOK, QueriesDated, Current, OneServer, KeptFirst, OneStray, Addressed, FromServer, QuestionOpen
<1>3. CASE WriteReply
  <2>1. queue \in Seq(Hosts) /\ queue # <<>> /\ queue' = Tail(queue)
    BY <1>3 DEF WriteReply, TypeOK
  <2>2. /\ Tail(queue) \in Seq(Hosts) /\ Len(Tail(queue)) = Len(queue) - 1
        /\ \A i \in 1 .. Len(queue) - 1 : Tail(queue)[i] = queue[i + 1]
    BY <2>1, HeadTailProperties
  <2>3. FromServer'
    BY <1>3, <2>1, <2>2 DEF FromServer, WriteReply
  <2> QED
    BY <1>3, <2>1, <2>2, <2>3 DEF WriteReply, TypeOK, QueriesDated, Current, OneServer, KeptFirst, OneStray, Addressed, QuestionOpen
<1>4. CASE WriteDone
  BY <1>4 DEF WriteDone, TypeOK, QueriesDated, Current, OneServer, KeptFirst, OneStray, Addressed, FromServer, QuestionOpen
<1> QED BY <1>1, <1>2, <1>3, <1>4

\* A late answer has another number and changes nothing.
LEMMA AnswerInv ==
  ASSUME RelayInv, OnDnsFound
  PROVE  RelayInv'
<1> USE DEF RelayInv, OnDnsFound, cfgVars, outVars, seenVars, linkVars, loopVars
<1>1. PICK q \in queries :
        /\ queries' = queries \ {q}
        /\ \/ ~Current(q) /\ UNCHANGED <<addr, res>>
           \/ Current(q) /\ addr' = q.host /\ res' = "ok"
           \/ Current(q) /\ NotFound /\ UNCHANGED addr
  OBVIOUS
<1>2. q \in Query
  BY DEF TypeOK
<1>3. TypeOK'
  BY <1>1, <1>2 DEF TypeOK, Query, NotFound
<1>4. QueriesDated' /\ OneServer'
  BY <1>1 DEF QueriesDated, OneServer, Current, NotFound
<1>5. QuestionOpen'
  BY <1>1 DEF QuestionOpen, Current, NotFound
<1> QED BY <1>3, <1>4, <1>5 DEF KeptFirst, OneStray, Addressed, FromServer

LEMMA OutsideInv ==
  ASSUME RelayInv, Outside
  PROVE  RelayInv'
<1> USE DEF RelayInv, cfgVars, outVars, seenVars, dnsVars, linkVars, loopVars
<1>1. CASE OnUdp
  <2>1. pcb = curHost /\ pcb \in Hosts /\ Len(queue) < QueueSize /\ queue \in Seq(Hosts)
    BY <1>1 DEF OnUdp, HasRoom, TypeOK, OneServer
  <2>2. /\ queue' = Append(queue, pcb)
        /\ queue' \in Seq(Hosts) /\ Len(queue') = Len(queue) + 1
        /\ \A i \in 1 .. Len(queue) : queue'[i] = queue[i]
        /\ queue'[Len(queue) + 1] = pcb
    BY <1>1, <2>1, AppendProperties DEF OnUdp
  <2>3. FromServer'
    BY <1>1, <2>1, <2>2 DEF FromServer, OnUdp
  <2> QED
    BY <1>1, <2>1, <2>2, <2>3 DEF OnUdp, TypeOK, QueriesDated, Current, OneServer, KeptFirst, OneStray, Addressed, QuestionOpen
<1>2. CASE AtTnfs \/ SaveHosts \/ WifiChange \/ PortChange
  <2>1. UNCHANGED <<curHost, addr, res, resGen, pending, pcb, queue, queries, pc, frames, sent>>
    BY <1>2 DEF AtTnfs, SaveHosts, WifiChange, PortChange
  <2>2. /\ host' \in Hosts \cup {None} /\ allowed' \subseteq Hosts
        /\ UNCHANGED <<allowed, strays>> \/ strays' = 0
    BY <1>2 DEF AtTnfs, SaveHosts, WifiChange, PortChange, TypeOK
  <2>3. wifi' \in BOOLEAN /\ connected' \in BOOLEAN
    <3>1. CASE AtTnfs \/ SaveHosts
      BY <3>1 DEF AtTnfs, SaveHosts, TypeOK
    <3>2. CASE WifiChange
      BY <3>2 DEF WifiChange, TypeOK
    <3>3. CASE PortChange
      BY <3>3 DEF PortChange, TypeOK
    <3> QED BY <1>2, <3>1, <3>2, <3>3
  <2> QED
    BY <2>1, <2>2, <2>3 DEF TypeOK, QueriesDated, Current, OneServer, KeptFirst, OneStray, Addressed, FromServer, QuestionOpen
<1> QED BY <1>1, <1>2 DEF Outside

LEMMA NextInv == RelayInv /\ [Next]_vars => RelayInv'
<1> SUFFICES ASSUME RelayInv, [Next]_vars PROVE RelayInv'
  OBVIOUS
<1>1. CASE PollBegin \/ Waiting \/ UsbDone
  BY <1>1 DEF PollBegin, Waiting, UsbDone, RelayInv, cfgVars, outVars, seenVars, dnsVars, linkVars,
              TypeOK, QueriesDated, Current, OneServer, KeptFirst, OneStray, Addressed, FromServer, QuestionOpen
<1>2. CASE UNCHANGED vars
  BY <1>2 DEF vars, RelayInv, cfgVars, outVars, seenVars, dnsVars, linkVars, loopVars,
              TypeOK, QueriesDated, Current, OneServer, KeptFirst, OneStray, Addressed, FromServer, QuestionOpen
<1> QED
  BY <1>1, <1>2, FrameInv, AskInv, PollEndInv, AnswerInv, OutsideInv DEF Next, Poll

LEMMA Invariant == Spec => []RelayInv
BY InitInv, NextInv, PTL DEF Spec

\* Whatever answers come late, a datagram goes to the server it was meant for.
THEOREM WellAddressed == Spec => []Addressed
BY Invariant, PTL DEF RelayInv

\* Once the list refuses a server, no more than the one datagram kept for it leaves.
THEOREM StraysOnce == Spec => []OneStray
BY Invariant, PTL DEF RelayInv

\* No reply of a former server reaches the program after AT$TNFS has changed
\* and the program has spoken to the new one.
THEOREM RepliesFromServer == Spec => []FromServer
BY Invariant, PTL DEF RelayInv

\* on_frame never waits for a query that is over, or whose answer it would drop.
THEOREM NeverLeftWaiting == Spec => []QuestionOpen
BY Invariant, PTL DEF RelayInv

\* The types, for any hosts and sizes.
THEOREM TypeCorrect == Spec => []TypeOK
BY Invariant, PTL DEF RelayInv
=============================================================================
