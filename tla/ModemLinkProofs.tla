-------------------------- MODULE ModemLinkProofs --------------------------
(* Proofs about the modem link, for any set of connections, any set of     *)
(* commands the program may use and any bounds.                            *)
EXTENDS ModemLink, TLAPS

USE LinkAssumption

-----------------------------------------------------------------------------
(* Type correctness, one lemma per group of steps of Next.                 *)

\* What is thrown away unread came from known sources.
LEMMA RxFlushTypes ==
  ASSUME TypeOK, RxFlush
  PROVE  rx' \in Seq(Sources) /\ dropped' \subseteq Sources
<1>1. Unread \subseteq Sources
  BY DEF TypeOK, Unread
<1> QED
  BY <1>1 DEF TypeOK, RxFlush

LEMMA ProgramTypes == ASSUME TypeOK, Program PROVE TypeOK'
<1> USE DEF TypeOK, Modes, Jobs, Sources, ToClose, Chunked, ConnStates, MainSteps
<1>1. ASSUME NEW command, NEW j \in {"dial", "tcp", "udp"}, Dial(command, j) PROVE TypeOK'
  BY <1>1 DEF Dial, Goto, Line, TcpConnected, netVars, peerVars, history
<1>2. CASE HttpGet
  BY <1>2 DEF HttpGet, Goto, Line, modemVars, netVars, peerVars, history
<1>3. CASE HttpRead
  <2>1. got' \in BOOLEAN
    BY <1>3 DEF HttpRead, Goto, Line
  <2> QED
    BY <1>3, <2>1 DEF HttpRead, Goto, Line, modemVars, netVars, peerVars, history
<1>4. CASE StartHangup
  BY <1>4 DEF StartHangup, Goto, Line, TcpConnected, modemVars, netVars, peerVars,
       history
<1>5. CASE ATO
  BY <1>5 DEF ATO, GoOnline, Line, TcpConnected, netVars, peerVars, mainVars
<1>6. CASE ATA
  <2>1. ringPending' \in BOOLEAN
    BY <1>6 DEF ATA, ClearRemoteClosed, GoOnline, Line, TcpAccept
  <2>2. remoteClosed' \in BOOLEAN
    BY <1>6 DEF ATA, ClearRemoteClosed, GoOnline, Line, TcpAccept
  <2> QED
    BY <1>6, <2>1, <2>2 DEF ATA, ClearRemoteClosed, GoOnline, Line, TcpAccept, peerVars,
         mainVars
<1>7. CASE CipSend
  BY <1>7 DEF CipSend, Line, TcpConnected, netVars, peerVars, mainVars, history
<1> QED
  BY <1>1, <1>2, <1>3, <1>4, <1>5, <1>6, <1>7 DEF Program

LEMMA MainLoopTypes == ASSUME TypeOK, MainLoop PROVE TypeOK'
<1> USE DEF TypeOK, Modes, Jobs, Sources, ToClose, Chunked, ConnStates, MainSteps
<1>1. CASE CheckRefused
  BY <1>1 DEF CheckRefused, Goto, modemVars, netVars, peerVars, history
<1>2. CASE CheckPassed
  <2>1. rx' \in Seq(Sources) /\ dropped' \subseteq Sources
    BY <1>2, RxFlushTypes DEF CheckPassed, ClearRemoteClosed, FlushesFirst, Goto,
         TcpConnected
  <2>2. remoteClosed' \in BOOLEAN /\ flagFrom' \subseteq Conns
    BY <1>2 DEF CheckPassed, ClearRemoteClosed, FlushesFirst, Goto, RxFlush,
         TcpConnected, Unread
  <2> QED
    BY <1>2, <2>1, <2>2 DEF CheckPassed, ClearRemoteClosed, FlushesFirst, Goto, RxFlush,
         TcpConnected, Unread, netVars, peerVars
<1>3. CASE ResolveFailed
  BY <1>3 DEF ResolveFailed, Goto, modemVars, netVars, peerVars, history
<1>4. CASE UdpConnect
  BY <1>4 DEF UdpConnect, Goto, modemVars, peerVars, history
<1>5. ASSUME NEW c \in Conns, TcpConnect(c) PROVE TypeOK'
  <2>1. pcb' \in Conns \cup {None} /\ conn' \in [Conns -> ConnStates]
    BY <1>5 DEF TcpConnect, Goto
  <2>2. pc' \in MainSteps /\ job' \in Jobs
    BY <1>5 DEF TcpConnect, Goto
  <2>3. dialed' \in Conns \cup {None} /\ httpConn' \in Conns \cup {None}
    BY <1>5 DEF TcpConnect
  <2> QED
    BY <1>5, <2>1, <2>2, <2>3 DEF TcpConnect, modemVars
<1>6. CASE ConnectDone
  BY <1>6 DEF ConnectDone, GoOnline, Goto, netVars, peerVars
<1>7. CASE ConnectFailed
  <2>1. conn' \in [Conns -> ConnStates]
    BY <1>7 DEF ConnectFailed, ClearRemoteClosed, Detach, Goto
  <2>2. remoteClosed' \in BOOLEAN
    BY <1>7 DEF ConnectFailed, ClearRemoteClosed, Detach, Goto
  <2> QED
    BY <1>7, <2>1, <2>2 DEF ConnectFailed, ClearRemoteClosed, Detach, Goto
<1>8. CASE CipstartDone
  <2>1. linkUdp' \in BOOLEAN
    BY <1>8 DEF CipstartDone, ClearRemoteClosed, Goto
  <2>2. remoteClosed' \in BOOLEAN
    BY <1>8 DEF CipstartDone, ClearRemoteClosed, Goto
  <2> QED
    BY <1>8, <2>1, <2>2 DEF CipstartDone, ClearRemoteClosed, Goto, netVars, peerVars
<1>9. CASE HttpRequest
  <2>1. linkUdp' \in BOOLEAN
    BY <1>9 DEF HttpRequest, Goto
  <2> QED
    BY <1>9, <2>1 DEF HttpRequest, Goto, netVars, peerVars, history
<1>10. CASE HttpHeader
  <2>1. rx' \in Seq(Sources)
    BY <1>10 DEF HttpHeader, Goto
  <2>2. http' \in BOOLEAN /\ eof' \in BOOLEAN
    BY <1>10 DEF HttpHeader, Goto
  <2>3. left' \in {ToClose, Chunked} \cup 0..Segments
    BY <1>10 DEF HttpHeader, Goto
  <2>4. pc' \in MainSteps /\ job' \in Jobs
    BY <1>10 DEF HttpHeader, Goto
  <2> QED
    BY <1>10, <2>1, <2>2, <2>3, <2>4 DEF HttpHeader, Goto, netVars, peerVars, history
<1>11. CASE HttpHeaderEmpty
  BY <1>11 DEF HttpHeaderEmpty, Goto, modemVars, netVars, peerVars, history
<1>12. CASE HttpHeaderWait
  BY <1>12 DEF HttpHeaderWait, Goto, modemVars, netVars, peerVars, history
<1>13. CASE HttpHeaderFailed
  BY <1>13 DEF HttpHeaderFailed, Goto, modemVars, netVars, peerVars, history
<1>14. CASE HttpReadSegment
  <2>1. rx' \in Seq(Sources)
    BY <1>14 DEF HttpReadSegment, Goto, LeftAfter
  <2>2. eof' \in BOOLEAN /\ got' \in BOOLEAN
    BY <1>14 DEF HttpReadSegment, Goto, LeftAfter
  <2>3. left' \in {ToClose, Chunked} \cup 0..Segments
    BY <1>14 DEF HttpReadSegment, Goto, LeftAfter
  <2>4. pc' \in MainSteps /\ job' \in Jobs
    BY <1>14 DEF HttpReadSegment, Goto, LeftAfter
  <2> QED
    BY <1>14, <2>1, <2>2, <2>3, <2>4 DEF HttpReadSegment, Goto, LeftAfter, netVars,
         peerVars, history
<1>15. CASE HttpReadEmpty
  BY <1>15 DEF HttpReadEmpty, Goto, modemVars, netVars, peerVars, history
<1>16. CASE HttpReadWait
  BY <1>16 DEF HttpReadWait, Goto, modemVars, netVars, peerVars, history
<1>17. CASE HttpReadStop
  BY <1>17 DEF HttpReadStop, Goto, netVars, peerVars, history
<1>18. CASE HttpReadReply
  <2>1. got' \in BOOLEAN
    BY <1>18 DEF HttpReadReply, ClearRemoteClosed, Detach, Goto, RxFlush, TcpConnected,
         Unread
  <2>2. conn' \in [Conns -> ConnStates] /\ pcb' \in Conns \cup {None} /\ upcb' \in BOOLEAN
    BY <1>18 DEF HttpReadReply, ClearRemoteClosed, Detach, Goto, RxFlush, TcpConnected,
         Unread
  <2>3. rx' \in Seq(Sources) /\ dropped' \subseteq Sources
    BY <1>18, RxFlushTypes DEF HttpReadReply, ClearRemoteClosed, Detach, Goto,
         TcpConnected
  <2>4. remoteClosed' \in BOOLEAN /\ flagFrom' \subseteq Conns
    BY <1>18 DEF HttpReadReply, ClearRemoteClosed, Detach, Goto, RxFlush, TcpConnected,
         Unread
  <2> QED
    BY <1>18, <2>1, <2>2, <2>3, <2>4 DEF HttpReadReply, ClearRemoteClosed, Detach, Goto,
         RxFlush, TcpConnected, Unread
<1>19. CASE HangupClose
  <2>1. http' \in BOOLEAN
    BY <1>19 DEF HangupClose, Detach, Goto, TcpConnected
  <2>2. conn' \in [Conns -> ConnStates] /\ pcb' \in Conns \cup {None} /\ upcb' \in BOOLEAN
    BY <1>19 DEF HangupClose, Detach, Goto, TcpConnected
  <2> QED
    BY <1>19, <2>1, <2>2 DEF HangupClose, Detach, Goto, TcpConnected, history
<1>20. CASE HangupClear
  <2>1. linkUdp' \in BOOLEAN
    BY <1>20 DEF HangupClear, ClearRemoteClosed, Goto, RxFlush, Unread
  <2>2. rx' \in Seq(Sources) /\ dropped' \subseteq Sources
    BY <1>20, RxFlushTypes DEF HangupClear, ClearRemoteClosed, Goto
  <2>3. remoteClosed' \in BOOLEAN /\ flagFrom' \subseteq Conns
    BY <1>20 DEF HangupClear, ClearRemoteClosed, Goto, RxFlush, Unread
  <2>4. pc' \in MainSteps /\ job' \in Jobs
    BY <1>20 DEF HangupClear, ClearRemoteClosed, Goto, RxFlush, Unread
  <2> QED
    BY <1>20, <2>1, <2>2, <2>3, <2>4 DEF HangupClear, ClearRemoteClosed, Goto, RxFlush,
         Unread, netVars, peerVars
<1>21. CASE PollBegin
  BY <1>21 DEF PollBegin, Goto, netVars, peerVars, history
<1>22. CASE PollDeliver
  <2>1. rx' \in Seq(Sources)
    BY <1>22 DEF PollDeliver, PollMayDeliver
  <2> QED
    BY <1>22, <2>1 DEF PollDeliver, PollMayDeliver, netVars, peerVars, mainVars, history
<1>23. CASE PollDataEnd
  BY <1>23 DEF PollDataEnd, Goto, PollMayDeliver, modemVars, netVars, peerVars, history
<1>24. CASE PollClose
  BY <1>24 DEF PollClose, Goto, modemVars, netVars, peerVars, history
<1>25. CASE PollNotice
  <2>1. remoteClosed' \in BOOLEAN /\ flagFrom' \subseteq Conns
    BY <1>25 DEF PollNotice, Announcing, ClearRemoteClosed, Goto
  <2>2. mode' \in Modes /\ told' \in Sources \cup {None}
    BY <1>25 DEF PollNotice, Announcing, ClearRemoteClosed, Goto
  <2> QED
    BY <1>25, <2>1, <2>2 DEF PollNotice, Announcing, ClearRemoteClosed, Goto, netVars,
         peerVars
<1>26. CASE PollRing
  <2>1. ringPending' \in BOOLEAN
    BY <1>26 DEF PollRing, AutoAnswer, ClearRemoteClosed, CountRing, GoOnline, Goto,
         TcpAccept
  <2>2. ringCount' \in 0..S0
    BY <1>26 DEF PollRing, AutoAnswer, ClearRemoteClosed, CountRing, GoOnline, Goto,
         TcpAccept
  <2>3. pcb' \in Conns \cup {None} /\ pendingPcb' \in Conns \cup {None}
    BY <1>26 DEF PollRing, AutoAnswer, ClearRemoteClosed, CountRing, GoOnline, Goto,
         TcpAccept
  <2>4. remoteClosed' \in BOOLEAN /\ flagFrom' \subseteq Conns
    BY <1>26 DEF PollRing, AutoAnswer, ClearRemoteClosed, CountRing, GoOnline, Goto,
         TcpAccept
  <2>5. connectState' \in {"wait", "ok", "failed"} /\ mode' \in Modes /\ told' \in Sources \cup {None}
    BY <1>26 DEF PollRing, AutoAnswer, ClearRemoteClosed, CountRing, GoOnline, Goto,
         TcpAccept
  <2> QED
    BY <1>26, <2>1, <2>2, <2>3, <2>4, <2>5 DEF PollRing, AutoAnswer, ClearRemoteClosed,
         CountRing, GoOnline, Goto, TcpAccept, peerVars
<1>27. CASE NetPoll
  <2>1. ringPending' \in BOOLEAN
    BY <1>27 DEF NetPoll, Goto
  <2> QED
    BY <1>27, <2>1 DEF NetPoll, Goto, netVars, peerVars, history
<1> QED
  BY <1>1, <1>2, <1>3, <1>4, <1>5, <1>6, <1>7, <1>8, <1>9, <1>10, <1>11, <1>12, <1>13,
       <1>14, <1>15, <1>16, <1>17, <1>18, <1>19, <1>20, <1>21, <1>22, <1>23, <1>24,
       <1>25, <1>26, <1>27 DEF MainLoop

LEMMA NetworkTypes == ASSUME TypeOK, Network PROVE TypeOK'
<1> USE DEF TypeOK, Modes, Jobs, Sources, ToClose, Chunked, ConnStates, MainSteps
<1>1. ASSUME NEW c \in Conns, OnConnected(c) PROVE TypeOK'
  BY <1>1 DEF OnConnected, modemVars, mainVars, history
<1>2. ASSUME NEW c \in Conns, OnRecv(c) PROVE TypeOK'
  BY <1>2 DEF OnRecv, Refused, netVars, mainVars, history
<1>3. ASSUME NEW c \in Conns, OnRecvClosed(c) PROVE TypeOK'
  BY <1>3 DEF OnRecvClosed, mainVars
<1>4. ASSUME NEW c \in Conns, OnErr(c) PROVE TypeOK'
  BY <1>4 DEF OnErr, mainVars
<1>5. ASSUME NEW c \in Conns, OnAccept(c) PROVE TypeOK'
  BY <1>5 DEF OnAccept, Busy, mainVars, history
<1>6. CASE OnUdpRecv
  BY <1>6 DEF OnUdpRecv, netVars, mainVars, history
<1> QED
  BY <1>1, <1>2, <1>3, <1>4, <1>5, <1>6 DEF Network
LEMMA TypeStep == ASSUME TypeOK, [Next]_vars PROVE TypeOK'
<1>1. CASE CipSendDone
  BY <1>1 DEF CipSendDone, TypeOK, Modes, netVars, peerVars, mainVars, history
<1>2. CASE UNCHANGED vars
  BY <1>2 DEF TypeOK, vars, modemVars, netVars, peerVars, mainVars, history
<1> QED
  BY <1>1, <1>2, ProgramTypes, MainLoopTypes, NetworkTypes DEF Next

\* The state of the modem, of the network side and of the main loop always has
\* its type: no step of a command, of at_modem_poll or of a callback leaves it.
THEOREM TypeCorrect == Spec => []TypeOK
<1>1. Init => TypeOK
  <2> SUFFICES ASSUME Init PROVE TypeOK
    OBVIOUS
  <2>1. http \in BOOLEAN /\ eof \in BOOLEAN /\ linkUdp \in BOOLEAN /\ remoteClosed \in BOOLEAN
    BY DEF Init
  <2>2. ringPending \in BOOLEAN /\ upcb \in BOOLEAN /\ got \in BOOLEAN
    BY DEF Init
  <2>3. conn \in [Conns -> ConnStates] /\ sent \in [Sources -> 0..Segments]
    BY DEF Init, ConnStates
  <2>4. rx \in Seq(Sources) /\ left \in 0..Segments /\ ringCount \in 0..S0
    BY DEF Init
  <2>5. pc \in MainSteps /\ job \in Jobs /\ mode \in Modes
    BY DEF Init, MainSteps, Jobs, Modes
  <2> QED
    BY <2>1, <2>2, <2>3, <2>4, <2>5 DEF Init, TypeOK
<1> QED
  BY <1>1, TypeStep, PTL DEF Spec

-----------------------------------------------------------------------------
(* One link, and the modem knows it: without incoming calls.               *)

\* SingleLink is not inductive: an opening command looks at tcp_connected once
\* and sets pcb or upcb several steps later. What makes it right is that
\* nothing but the opening command itself can give the modem a link meanwhile,
\* and that a connection whose opening ended is connected or gone.
LinkInv ==
  /\ pendingPcb = None
  /\ \A c \in Conns : Live(c) <=> c = pcb
  /\ pcb = None \/ ~upcb
  /\ pcb # None => connectState = "ok" \/ pc = "connecting"
  /\ pc = "resolve" => pcb = None /\ ~upcb

LEMMA LinkInvGivesSingleLink == ASSUME TypeOK, LinkInv PROVE SingleLink
BY DEF TypeOK, LinkInv, SingleLink, ExclusiveUdp, NoOrphan, NoStalePointer

\* A step that touches no connection keeps the invariant, if it neither gives
\* up a connection half open nor starts to open one.
LEMMA LinkUntouched ==
  ASSUME LinkInv, UNCHANGED <<netVars, conn>>,
         pc' = pc \/ (pc # "connecting" /\ pc' # "resolve")
  PROVE  LinkInv'
BY DEF LinkInv, Live, netVars

\* So does a step that closes the link, whoever closes it.
LEMMA LinkClosed ==
  ASSUME TypeOK, LinkInv, UNCHANGED <<pendingPcb>>, pcb' = None,
         upcb' \in {FALSE, upcb}, pc' # "resolve" \/ pc' = pc,
         \/ pcb = None /\ conn' = conn
         \/ \E s \in Released : conn' = [conn EXCEPT ![pcb] = s]
  PROVE  LinkInv'
<1>1. \A c \in Conns : ~Live(c)'
  BY DEF LinkInv, Live, Released, TypeOK, ConnStates
<1>2. pc' = "resolve" => ~upcb'
  BY DEF LinkInv
<1> QED
  BY <1>1, <1>2 DEF LinkInv, TypeOK

LEMMA LinkStep ==
  ASSUME Incoming = FALSE, TypeOK, LinkInv, [Next]_vars
  PROVE  LinkInv'
<1> USE DEF Goto, netVars, peerVars, mainVars, modemVars
<1>1. CASE Program
  <2>1. ~ATA
    BY DEF ATA
  <2>2. UNCHANGED <<netVars, conn>> /\ pc = "input" /\ pc' # "resolve"
    BY <1>1, <2>1 DEF Program, Dial, HttpGet, HttpRead, StartHangup, ATO, CipSend, Line
  <2> QED
    BY <2>2, LinkUntouched
<1>2. CASE CipSendDone
  BY <1>2, LinkUntouched DEF CipSendDone
<1>3. CASE CheckPassed
  BY <1>3 DEF CheckPassed, LinkInv, Live, TcpConnected
<1>4. CASE UdpConnect
  BY <1>4 DEF UdpConnect, LinkInv, Live
<1>5. ASSUME NEW c \in Conns, TcpConnect(c) PROVE LinkInv'
  <2>1. pc = "resolve" /\ pcb = None /\ ~upcb /\ \A d \in Conns : ~Live(d)
    BY <1>5 DEF TcpConnect, LinkInv, LinkAssumption
  <2>2. CASE pcb' = c /\ conn' = [conn EXCEPT ![c] = "syn"] /\ Goto("connecting", job)
    <3>1. \A d \in Conns : Live(d)' <=> d = pcb'
      BY <2>1, <2>2 DEF Live, TypeOK, ConnStates
    <3> QED
      BY <1>5, <2>1, <2>2, <3>1 DEF TcpConnect, LinkInv
  <2>3. CASE pcb' = None /\ conn' = [conn EXCEPT ![c] = "local"] /\ Goto("input", "none")
    <3>1. \A d \in Conns : ~Live(d)'
      BY <2>1, <2>3 DEF Live, TypeOK, ConnStates
    <3> QED
      BY <1>5, <2>1, <2>3, <3>1 DEF TcpConnect, LinkInv
  <2> QED
    BY <1>5, <2>2, <2>3 DEF TcpConnect
<1>6. CASE ConnectDone
  BY <1>6 DEF ConnectDone, LinkInv, Live
<1>7. CASE ConnectFailed
  BY <1>7, LinkClosed DEF ConnectFailed, Detach, Released
<1>8. CASE HttpReadReply
  <2>1. CASE eof /\ TcpConnected
    BY <1>8, <2>1, LinkClosed DEF HttpReadReply, Detach, Released
  <2>2. CASE ~(eof /\ TcpConnected)
    BY <1>8, <2>2, LinkUntouched DEF HttpReadReply
  <2> QED
    BY <2>1, <2>2
<1>9. CASE HangupClose
  <2>1. CASE TcpConnected
    BY <1>9, <2>1, LinkClosed DEF HangupClose, Detach, Released
  <2>2. CASE ~TcpConnected
    BY <1>9, <2>2, LinkUntouched DEF HangupClose
  <2> QED
    BY <2>1, <2>2
<1>10. CASE PollRing
  <2>1. UNCHANGED <<netVars, conn>> /\ pc = "ring" /\ pc' = "net"
    BY <1>10 DEF PollRing, AutoAnswer
  <2> QED
    BY <2>1, LinkUntouched
<1>11. ASSUME MainLoop,
              ~CheckPassed, ~UdpConnect, ~(\E c \in Conns : TcpConnect(c)), ~ConnectDone,
              ~ConnectFailed, ~HttpReadReply, ~HangupClose, ~PollRing
       PROVE  LinkInv'
  <2>1. UNCHANGED <<netVars, conn>> /\ pc # "connecting" /\ pc' # "resolve"
    BY <1>11 DEF MainLoop, CheckRefused, ResolveFailed, CipstartDone, HttpRequest,
         HttpHeader, HttpHeaderEmpty, HttpHeaderWait, HttpHeaderFailed, HttpReadSegment,
         HttpReadEmpty, HttpReadWait, HttpReadStop, HangupClear, PollBegin, PollDeliver,
         PollDataEnd, PollClose, PollNotice, NetPoll
  <2> QED
    BY <2>1, LinkUntouched
<1>12. ASSUME NEW c \in Conns, OnConnected(c) PROVE LinkInv'
  <2>1. \A d \in Conns : Live(d)' <=> Live(d)
    BY <1>12 DEF OnConnected, Live, TypeOK, ConnStates
  <2> QED
    BY <1>12, <2>1 DEF OnConnected, LinkInv
<1>13. ASSUME NEW c \in Conns, OnRecv(c) PROVE LinkInv'
  BY <1>13, LinkUntouched DEF OnRecv
<1>14. ASSUME NEW c \in Conns, OnRecvClosed(c) PROVE LinkInv'
  <2>1. c = pcb
    BY <1>14 DEF OnRecvClosed, LinkInv, Live
  <2> QED
    BY <1>14, <2>1, LinkClosed DEF OnRecvClosed, Released
<1>15. ASSUME NEW c \in Conns, OnErr(c) PROVE LinkInv'
  <2>1. c = pcb
    BY <1>15 DEF OnErr, LinkInv, Live
  <2> QED
    BY <1>15, <2>1, LinkClosed DEF OnErr, Released
<1>16. ASSUME NEW c \in Conns, OnAccept(c) PROVE LinkInv'
  BY <1>16 DEF OnAccept
<1>17. CASE OnUdpRecv
  BY <1>17, LinkUntouched DEF OnUdpRecv
<1>18. CASE UNCHANGED vars
  BY <1>18, LinkUntouched DEF vars
<1> QED
  BY <1>1, <1>2, <1>3, <1>4, <1>5, <1>6, <1>7, <1>8, <1>9, <1>10, <1>11, <1>12, <1>13,
     <1>14, <1>15, <1>16, <1>17, <1>18 DEF Next, Network

\* Whatever commands the program uses, in whatever order, and whenever the peer
\* closes or resets: as long as no call comes in, the modem has at most one
\* connection and no UDP link with it, none that still feeds it unknown to it,
\* and no pointer to one lwIP has released.
THEOREM OneLink == ASSUME Incoming = FALSE PROVE Spec => []SingleLink
<1>1. Init => LinkInv
  BY DEF Init, LinkInv, Live, LinkAssumption
<1>2. TypeOK /\ LinkInv /\ [Next]_vars => LinkInv'
  BY LinkStep
<1>3. TypeOK /\ LinkInv => SingleLink
  BY LinkInvGivesSingleLink
<1> QED
  BY <1>1, <1>2, <1>3, TypeCorrect, PTL DEF Spec

-----------------------------------------------------------------------------
(* What the ring holds is what link_udp says: without incoming calls and   *)
(* without AT+HTTPGET, which reads and empties the ring by itself.         *)

LEMMA UnreadKept == ASSUME rx' = rx PROVE Unread' = Unread
BY DEF Unread

LEMMA UnreadFlushed == ASSUME RxFlush PROVE Unread' = {}
BY DEF Unread, RxFlush

LEMMA UnreadTail ==
  ASSUME TypeOK, rx # <<>>, rx' = Tail(rx)
  PROVE  Unread' \subseteq Unread
<1>1. Len(rx) \in Nat \ {0} /\ Len(rx') = Len(rx) - 1
  BY DEF TypeOK
<1>2. \A i \in 1..Len(rx') : i + 1 \in 1..Len(rx) /\ rx'[i] = rx[i + 1]
  BY <1>1 DEF TypeOK
<1> QED
  BY <1>1, <1>2 DEF Unread

LEMMA UnreadAppend ==
  ASSUME TypeOK, NEW s \in Sources, rx' = Append(rx, s)
  PROVE  Unread' = Unread \cup {s}
<1>1. Len(rx) \in Nat /\ Len(rx') = Len(rx) + 1 /\ rx'[Len(rx) + 1] = s
  BY DEF TypeOK
<1>2. \A i \in 1..Len(rx) : rx'[i] = rx[i]
  BY <1>1 DEF TypeOK
<1> QED
  BY <1>1, <1>2 DEF Unread

OpeningUdp == pc = "opened" /\ job = "udp"

HttpSteps == {"header", "headerEmpty", "read", "readEmpty", "reply"}

\* link_udp is set a while after the UDP link exists and cleared a while after
\* it is closed: what holds meanwhile.
FramingInv ==
  /\ ~http /\ job \in {"none", "dial", "tcp", "udp"} /\ pc \notin HttpSteps
  /\ linkUdp => upcb \/ pc = "closed"
  /\ upcb => linkUdp \/ OpeningUdp
  /\ pc = "closed" => pcb = None /\ ~upcb
  /\ pc \in {"resolve", "connecting", "opened"} => ~linkUdp
  /\ pc = "resolve" /\ job = "udp" => Unread = {}
  /\ pc = "connecting" => job # "udp"
  /\ OpeningUdp => upcb /\ Unread \subseteq {Udp}
  /\ FramingMatches

LEMMA FramingStep ==
  ASSUME Incoming = FALSE, "HTTPGET" \notin Commands,
         TypeOK, LinkInv, FramingInv, [Next]_vars
  PROVE  FramingInv'
<1> USE DEF FramingInv, FramingMatches, OpeningUdp, HttpSteps, Goto
<1>1. CASE Program
  <2>1. ~ATA /\ ~HttpGet /\ ~HttpRead
    BY DEF ATA, HttpGet, HttpRead, Line
  <2>2. /\ UNCHANGED <<rx, linkUdp, upcb, pcb>> /\ ~http'
        /\ pc = "input" /\ pc' \in {"input", "check", "hangup"}
        /\ job' \in {job, "none", "dial", "tcp", "udp"}
    BY <1>1, <2>1 DEF Program, Dial, StartHangup, ATO, CipSend, Line,
         modemVars, netVars, mainVars
  <2> QED
    BY <2>2, UnreadKept
<1>2. CASE CipSendDone
  BY <1>2, UnreadKept DEF CipSendDone, netVars, mainVars
<1>3. CASE CheckPassed
  <2>1. ~linkUdp /\ ~upcb
    BY <1>3 DEF CheckPassed, TcpConnected
  <2>2. IF job = "udp" THEN Unread' = {} ELSE Unread' = Unread
    BY <1>3, UnreadKept, UnreadFlushed DEF CheckPassed, FlushesFirst
  <2> QED
    BY <1>3, <2>1, <2>2 DEF CheckPassed, netVars
<1>4. CASE UdpConnect
  BY <1>4, UnreadKept DEF UdpConnect, modemVars
<1>5. ASSUME NEW c \in Conns, TcpConnect(c) PROVE FramingInv'
  BY <1>5, UnreadKept DEF TcpConnect, modemVars, LinkInv
<1>6. CASE ConnectDone
  BY <1>6, UnreadKept DEF ConnectDone, netVars
<1>7. CASE ConnectFailed
  BY <1>7, UnreadKept DEF ConnectFailed
<1>8. CASE CipstartDone
  BY <1>8, UnreadKept DEF CipstartDone, netVars, LinkInv
<1>9. CASE HangupClose
  <2>1. pcb' = None /\ ~upcb'
    BY <1>9 DEF HangupClose, TcpConnected, LinkInv
  <2> QED
    BY <1>9, <2>1, UnreadKept DEF HangupClose
<1>10. CASE HangupClear
  <2>1. IF linkUdp THEN Unread' = {} ELSE Unread' = Unread
    BY <1>10, UnreadKept, UnreadFlushed DEF HangupClear
  <2>2. ~upcb' /\ ~linkUdp' /\ ~http' /\ pc = "closed" /\ pc' = "input" /\ job' = "none"
    BY <1>10 DEF HangupClear, netVars
  <2> QED
    BY <2>1, <2>2
<1>11. CASE PollDeliver
  <2>1. Unread' \subseteq Unread
    BY <1>11, UnreadTail DEF PollDeliver, PollMayDeliver
  <2> QED
    BY <1>11, <2>1 DEF PollDeliver, netVars, mainVars
<1>12. CASE PollRing
  BY <1>12, UnreadKept DEF PollRing, AutoAnswer
<1>13. CheckRefused \/ ResolveFailed \/ PollBegin \/ PollDataEnd \/ PollClose
       \/ PollNotice \/ NetPoll => FramingInv'
  <2> SUFFICES ASSUME CheckRefused \/ ResolveFailed \/ PollBegin \/ PollDataEnd
                      \/ PollClose \/ PollNotice \/ NetPoll
               PROVE  FramingInv'
    OBVIOUS
  <2>1. /\ UNCHANGED <<rx, linkUdp, upcb, pcb, http>>
        /\ pc' \in {"input", "data", "close", "notice", "ring"} /\ job' = "none"
        /\ pc \in {"check", "resolve", "input", "data", "close", "notice", "net"}
    BY DEF CheckRefused, ResolveFailed, PollBegin, PollDataEnd, PollClose, PollNotice,
           NetPoll, modemVars, netVars
  <2> QED
    BY <2>1, UnreadKept
<1>14. /\ ~HttpRequest /\ ~HttpHeader /\ ~HttpHeaderEmpty /\ ~HttpHeaderWait
       /\ ~HttpHeaderFailed /\ ~HttpReadSegment /\ ~HttpReadEmpty /\ ~HttpReadWait
       /\ ~HttpReadStop /\ ~HttpReadReply
  BY DEF HttpRequest, HttpHeader, HttpHeaderEmpty, HttpHeaderWait, HttpHeaderFailed,
         HttpReadSegment, HttpReadEmpty, HttpReadWait, HttpReadStop, HttpReadReply
<1>15. ASSUME NEW c \in Conns, OnConnected(c) PROVE FramingInv'
  BY <1>15, UnreadKept DEF OnConnected, modemVars, mainVars
<1>16. ASSUME NEW c \in Conns, OnRecv(c) PROVE FramingInv'
  <2>1. c = pcb /\ ~upcb
    BY <1>16 DEF OnRecv, LinkInv, Live
  <2>2. ~linkUdp /\ ~OpeningUdp
    BY <2>1, LinkAssumption
  <2>3. ~(pc = "resolve") /\ Unread' = Unread \cup {c} /\ c # Udp
    BY <1>16, <2>1, UnreadAppend, LinkAssumption DEF OnRecv, LinkInv, Sources
  <2> QED
    BY <1>16, <2>2, <2>3 DEF OnRecv, netVars, mainVars
<1>17. ASSUME NEW c \in Conns, OnRecvClosed(c) PROVE FramingInv'
  BY <1>17, UnreadKept DEF OnRecvClosed, mainVars
<1>18. ASSUME NEW c \in Conns, OnErr(c) PROVE FramingInv'
  BY <1>18, UnreadKept DEF OnErr, mainVars
<1>19. ASSUME NEW c \in Conns, OnAccept(c) PROVE FramingInv'
  BY <1>19 DEF OnAccept
<1>20. CASE OnUdpRecv
  <2>1. Unread' \subseteq Unread \cup {Udp}
    BY <1>20, UnreadKept, UnreadAppend DEF OnUdpRecv, Sources
  <2>2. linkUdp \/ OpeningUdp
    BY <1>20 DEF OnUdpRecv
  <2>3. pc # "resolve"
    BY <1>20 DEF OnUdpRecv, LinkInv
  <2> QED
    BY <1>20, <2>1, <2>2, <2>3 DEF OnUdpRecv, netVars, mainVars
<1>21. CASE UNCHANGED vars
  BY <1>21, UnreadKept DEF vars, modemVars, netVars, mainVars
<1> QED
  BY <1>1, <1>2, <1>3, <1>4, <1>5, <1>6, <1>7, <1>8, <1>9, <1>10, <1>11, <1>12, <1>13,
     <1>14, <1>15, <1>16, <1>17, <1>18, <1>19, <1>20, <1>21 DEF Next, MainLoop, Network

\* Length-prefixed datagrams and plain stream bytes share the ring, and
\* at_modem_poll tells them apart by link_udp alone: it never takes one for the
\* other, however links are opened, closed and reopened, TCP and UDP in turn.
THEOREM FramingCorrect ==
  ASSUME Incoming = FALSE, "HTTPGET" \notin Commands
  PROVE  Spec => []FramingMatches
<1>1. Init => LinkInv /\ FramingInv
  BY DEF Init, LinkInv, Live, LinkAssumption, FramingInv, FramingMatches, OpeningUdp,
         HttpSteps, Unread
<1>2. TypeOK /\ LinkInv /\ FramingInv /\ [Next]_vars => LinkInv' /\ FramingInv'
  BY LinkStep, FramingStep
<1>3. FramingInv => FramingMatches
  BY DEF FramingInv
<1> QED
  BY <1>1, <1>2, <1>3, TypeCorrect, PTL DEF Spec

-----------------------------------------------------------------------------
(* A call that nobody has answered is not heard.                           *)

\* on_recv refuses the data of a call that waits; what is in the ring came from
\* connections that existed before, so a new caller has nothing in it either.
SilentInv ==
  /\ \A c \in Conns : c \in Unread => conn[c] # "new"
  /\ UnansweredSilent

\* A step that brings no data and no caller.
NothingNew ==
  /\ Unread' \subseteq Unread
  /\ pendingPcb' \in {pendingPcb, None}
  /\ \A c \in Conns : conn[c] # "new" => conn'[c] # "new"

\* The ring is as it was, emptied, or shorter by its first segment.
Shorter == rx' = rx \/ RxFlush \/ (rx # <<>> /\ rx' = Tail(rx))

ConnsOnlyEnd ==
  conn' = conn \/ \E p \in Conns, s \in ConnStates \ {"new"} : conn' = [conn EXCEPT ![p] = s]

LEMMA OtherStepsNothingNew ==
  ASSUME TypeOK, [Next]_vars
  PROVE  \/ \E c \in Conns : OnRecv(c) \/ OnAccept(c)
         \/ OnUdpRecv
         \/ NothingNew
<1> USE DEF Shorter, ConnsOnlyEnd
<1>1. ASSUME Shorter, ConnsOnlyEnd, pendingPcb' \in {pendingPcb, None} PROVE NothingNew
  <2>1. Unread' \subseteq Unread
    BY <1>1, UnreadKept, UnreadFlushed, UnreadTail
  <2>2. \A c \in Conns : conn[c] # "new" => conn'[c] # "new"
    BY <1>1 DEF TypeOK
  <2> QED
    BY <1>1, <2>1, <2>2 DEF NothingNew
<1>2. CASE Program
  BY <1>1, <1>2 DEF Program, Dial, HttpGet, HttpRead, StartHangup, ATO, ATA, TcpAccept,
     CipSend, modemVars, netVars, peerVars
<1>3. CASE CipSendDone
  BY <1>1, <1>3 DEF CipSendDone, netVars, peerVars
<1>4. ASSUME CheckRefused \/ CheckPassed \/ ResolveFailed \/ UdpConnect
             \/ (\E c \in Conns : TcpConnect(c)) \/ ConnectDone \/ ConnectFailed
             \/ CipstartDone \/ HttpRequest
      PROVE  NothingNew
  <2>1. Shorter /\ pendingPcb' = pendingPcb
    BY <1>4 DEF CheckRefused, CheckPassed, ResolveFailed, UdpConnect, TcpConnect,
       ConnectDone, ConnectFailed, CipstartDone, HttpRequest, modemVars, netVars
  <2>2. ConnsOnlyEnd
    BY <1>4 DEF CheckRefused, CheckPassed, ResolveFailed, UdpConnect, TcpConnect,
       ConnectDone, ConnectFailed, Detach, CipstartDone, HttpRequest, peerVars, TypeOK,
       ConnStates
  <2> QED
    BY <1>1, <2>1, <2>2
<1>5. ASSUME HttpHeader \/ HttpHeaderEmpty \/ HttpHeaderWait \/ HttpHeaderFailed
             \/ HttpReadSegment \/ HttpReadEmpty \/ HttpReadWait \/ HttpReadStop
             \/ HttpReadReply \/ HangupClose \/ HangupClear
      PROVE  NothingNew
  <2>1. Shorter /\ pendingPcb' = pendingPcb
    BY <1>5 DEF HttpHeader, HttpHeaderEmpty, HttpHeaderWait, HttpHeaderFailed,
       HttpReadSegment, HttpReadEmpty, HttpReadWait, HttpReadStop, HttpReadReply,
       HangupClose, HangupClear, modemVars, netVars
  <2>2. ConnsOnlyEnd
    BY <1>5 DEF HttpHeader, HttpHeaderEmpty, HttpHeaderWait, HttpHeaderFailed,
       HttpReadSegment, HttpReadEmpty, HttpReadWait, HttpReadStop, HttpReadReply,
       HangupClose, HangupClear, Detach, peerVars, TypeOK, ConnStates
  <2> QED
    BY <1>1, <2>1, <2>2
<1>6. ASSUME PollBegin \/ PollDeliver \/ PollDataEnd \/ PollClose \/ PollNotice
             \/ PollRing \/ NetPoll
      PROVE  NothingNew
  <2>1. Shorter /\ ConnsOnlyEnd
    BY <1>6 DEF PollBegin, PollDeliver, PollMayDeliver, PollDataEnd, PollClose,
       PollNotice, PollRing, NetPoll, modemVars, peerVars
  <2>2. pendingPcb' \in {pendingPcb, None}
    BY <1>6 DEF PollBegin, PollDeliver, PollDataEnd, PollClose, PollNotice, PollRing,
       TcpAccept, NetPoll, netVars
  <2> QED
    BY <1>1, <2>1, <2>2
<1>7. ASSUME NEW c \in Conns, OnConnected(c) \/ OnRecvClosed(c) \/ OnErr(c)
      PROVE  NothingNew
  <2>1. Shorter /\ pendingPcb' = pendingPcb
    BY <1>7 DEF OnConnected, OnRecvClosed, OnErr, modemVars
  <2>2. ConnsOnlyEnd
    BY <1>7 DEF OnConnected, OnRecvClosed, OnErr, ConnStates
  <2> QED
    BY <1>1, <2>1, <2>2
<1>8. CASE UNCHANGED vars
  BY <1>1, <1>8 DEF vars, modemVars, netVars, peerVars
<1> QED
  BY <1>2, <1>3, <1>4, <1>5, <1>6, <1>7, <1>8 DEF Next, MainLoop, Network

LEMMA SilentStep == ASSUME TypeOK, SilentInv, [Next]_vars PROVE SilentInv'
<1> USE DEF SilentInv, UnansweredSilent
<1>1. None \notin Unread'
  <2>1. TypeOK'
    BY TypeStep
  <2>2. rx' \in Seq(Sources)
    BY <2>1 DEF TypeOK
  <2>3. Unread' \subseteq Sources
    BY <2>2 DEF Unread
  <2> QED
    BY <2>3, LinkAssumption DEF Sources
<1>2. ASSUME NEW c \in Conns, OnRecv(c) PROVE SilentInv'
  <2>1. Unread' = Unread \cup {c} /\ c # pendingPcb /\ conn[c] = "open"
    BY <1>2, UnreadAppend DEF OnRecv, Refused, Sources
  <2> QED
    BY <1>2, <2>1 DEF OnRecv, netVars
<1>3. CASE OnUdpRecv
  <2>1. Unread' \subseteq Unread \cup {Udp}
    BY <1>3, UnreadKept, UnreadAppend DEF OnUdpRecv, Sources
  <2> QED
    BY <1>3, <2>1, LinkAssumption DEF OnUdpRecv, netVars, TypeOK
<1>4. ASSUME NEW c \in Conns, OnAccept(c) PROVE SilentInv'
  <2>1. Unread' = Unread /\ c \notin Unread
    BY <1>4, UnreadKept DEF OnAccept
  <2> QED
    BY <1>4, <2>1 DEF OnAccept, TypeOK
<1>5. ASSUME NothingNew PROVE SilentInv'
  BY <1>1, <1>5 DEF NothingNew
<1> QED
  BY <1>2, <1>3, <1>4, <1>5, OtherStepsNothingNew

\* ERR_MEM for the data of a call that waits keeps them out of the ring, whatever
\* the program does meanwhile and however many callers come and go.
THEOREM CallUnheard == Spec => []UnansweredSilent
<1>1. Init => SilentInv
  BY LinkAssumption DEF Init, SilentInv, UnansweredSilent, Unread
<1>2. SilentInv => UnansweredSilent
  BY DEF SilentInv
<1> QED
  BY <1>1, <1>2, SilentStep, TypeCorrect, PTL DEF Spec
-----------------------------------------------------------------------------
(* A modem that only answers keeps no other caller waiting.                *)

Opening == {"ATDT", "CIPSTART", "UDP", "HTTPGET"}
OpeningSteps == {"check", "resolve", "connecting", "opened", "header", "headerEmpty"}

\* on_accept looks at pcb once; what makes it enough is that the main loop is
\* never between a test of tcp_connected and the pcb it makes.
AnsweringInv ==
  /\ job = "none" /\ pc \notin OpeningSteps
  /\ ~upcb
  /\ BusyRefusesCalls

LEMMA AnsweringStep ==
  ASSUME Commands \cap Opening = {}, TypeOK, AnsweringInv, [Next]_vars
  PROVE  AnsweringInv'
<1> USE DEF AnsweringInv, BusyRefusesCalls, OpeningSteps, Goto
<1>1. CASE Program
  <2>1. HttpRead \/ StartHangup \/ ATO \/ ATA \/ CipSend
    BY <1>1 DEF Program, Dial, HttpGet, Line, Opening
  <2> QED
    BY <2>1 DEF HttpRead, StartHangup, ATO, ATA, TcpAccept, CipSend, modemVars, netVars, mainVars
<1>2. CASE CipSendDone
  BY <1>2 DEF CipSendDone, netVars, mainVars
<1>3. /\ ~CheckRefused /\ ~CheckPassed /\ ~ResolveFailed /\ ~UdpConnect
      /\ ~(\E c \in Conns : TcpConnect(c)) /\ ~ConnectDone /\ ~ConnectFailed
      /\ ~CipstartDone /\ ~HttpRequest /\ ~HttpHeader /\ ~HttpHeaderEmpty
      /\ ~HttpHeaderWait /\ ~HttpHeaderFailed
  BY DEF CheckRefused, CheckPassed, ResolveFailed, UdpConnect, TcpConnect, ConnectDone,
     ConnectFailed, CipstartDone, HttpRequest, HttpHeader, HttpHeaderEmpty,
     HttpHeaderWait, HttpHeaderFailed
<1>4. CASE HttpReadReply \/ HangupClose
  BY <1>4 DEF HttpReadReply, HangupClose
<1>5. CASE PollRing
  BY <1>5 DEF PollRing, TcpAccept
<1>6. CASE HttpReadSegment \/ HttpReadEmpty \/ HttpReadWait \/ HttpReadStop \/ HangupClear
           \/ PollBegin \/ PollDeliver \/ PollDataEnd \/ PollClose \/ PollNotice \/ NetPoll
  <2>1. /\ UNCHANGED <<pcb, pendingPcb, upcb>> /\ job' = "none"
        /\ pc' \in {"input", "read", "readEmpty", "reply", "data", "close", "notice", "ring"}
    BY <1>6, Zenon DEF HttpReadSegment, HttpReadEmpty, HttpReadWait, HttpReadStop, HangupClear,
       PollBegin, PollDeliver, PollDataEnd, PollClose, PollNotice, NetPoll, netVars, mainVars
  <2> QED
    BY <2>1
<1>7. CASE Network
  BY <1>7 DEF Network, OnConnected, OnRecv, OnRecvClosed, OnErr, OnAccept, Busy,
     OnUdpRecv, netVars, mainVars
<1>8. CASE UNCHANGED vars
  BY <1>8 DEF vars, netVars, mainVars
<1> QED
  BY <1>1, <1>2, <1>3, <1>4, <1>5, <1>6, <1>7, <1>8 DEF Next, MainLoop

\* Of a program that opens no link itself, with any number of callers at any
\* time: a caller waits only while the modem has no connection.
THEOREM OneCaller ==
  ASSUME Commands \cap Opening = {}
  PROVE  Spec => []BusyRefusesCalls
<1>1. Init => AnsweringInv
  BY DEF Init, AnsweringInv, BusyRefusesCalls, OpeningSteps
<1>2. TypeOK /\ AnsweringInv /\ [Next]_vars => AnsweringInv'
  BY AnsweringStep
<1>3. AnsweringInv => BusyRefusesCalls
  BY DEF AnsweringInv
<1> QED
  BY <1>1, <1>2, <1>3, TypeCorrect, PTL DEF Spec

-----------------------------------------------------------------------------
(* The closing notice: without incoming calls, ATDT and AT+HTTPGET.        *)

\* remote_closed is raised by a callback and lowered by the main loop; between
\* an opening command and its answer it may still be that of the link before.
NoticeInv ==
  /\ job # "dial"
  /\ pc = "notice" => remoteClosed
  /\ pc \in {"connecting", "opened"} /\ job = "tcp" => dialed # None
  /\ pc \notin {"connecting", "opened"} =>
       /\ pcb # None \/ upcb => ~remoteClosed
       /\ pcb # None \/ remoteClosed => told # None

LEMMA NoticeStep ==
  ASSUME Incoming = FALSE, "ATDT" \notin Commands, "HTTPGET" \notin Commands,
         TypeOK, LinkInv, FramingInv, NoticeInv, [Next]_vars
  PROVE  NoticeInv'
<1> USE DEF NoticeInv, Goto, ClearRemoteClosed
<1>1. CASE Program
  <2>1. ~ATA /\ ~HttpGet /\ ~HttpRead /\ ~Dial("ATDT", "dial")
    BY DEF ATA, HttpGet, HttpRead, Dial, Line, FramingInv
  <2>2. CASE ATO
    <3>1. pc = "input" /\ pcb # None
      BY <2>2 DEF ATO, Line, TcpConnected, FramingInv, OpeningUdp
    <3> QED
      BY <2>2, <3>1 DEF ATO, netVars, mainVars
  <2>3. CASE ~ATO
    <3>1. /\ pc = "input" /\ pc' \in {"input", "check", "hangup"}
          /\ job' \in {job, "none", "tcp", "udp"}
          /\ UNCHANGED <<netVars, remoteClosed, told>>
      BY <1>1, <2>1, <2>3 DEF Program, Dial, StartHangup, CipSend, Line, modemVars,
         mainVars, history
    <3> QED
      BY <3>1 DEF netVars
  <2> QED
    BY <2>2, <2>3
<1>2. CASE CipSendDone
  BY <1>2 DEF CipSendDone, netVars, mainVars, history
<1>3. CASE CheckPassed
  BY <1>3 DEF CheckPassed, FramingInv, netVars
<1>4. CASE UdpConnect
  BY <1>4 DEF UdpConnect
<1>5. ASSUME NEW c \in Conns, TcpConnect(c) PROVE NoticeInv'
  <2>1. dialed' # None /\ UNCHANGED <<remoteClosed, told, upcb>> /\ job' \in {job, "none"}
    BY <1>5, LinkAssumption DEF TcpConnect, modemVars
  <2>2. pc = "resolve" /\ pcb = None /\ ~upcb /\ (pc' = "connecting" \/ (pc' = "input" /\ pcb' = None))
    BY <1>5 DEF TcpConnect, LinkInv
  <2> QED
    BY <2>1, <2>2
<1>6. CASE ConnectDone
  BY <1>6 DEF ConnectDone
<1>7. CASE ConnectFailed
  <2>1. ~upcb
    BY <1>7 DEF ConnectFailed, FramingInv, OpeningUdp
  <2> QED
    BY <1>7, <2>1 DEF ConnectFailed
<1>8. CASE CipstartDone
  BY <1>8, LinkAssumption DEF CipstartDone, netVars, LinkInv
<1>9. CASE HangupClose
  BY <1>9 DEF HangupClose, history, LinkInv, TcpConnected
<1>10. CASE HangupClear
  <2>1. pcb' = None /\ ~upcb'
    BY <1>10 DEF HangupClear, FramingInv, netVars
  <2> QED
    BY <1>10, <2>1 DEF HangupClear, FramingInv
<1>11. CASE PollClose
  BY <1>11 DEF PollClose, modemVars, netVars, history
<1>12. CASE PollNotice
  BY <1>12 DEF PollNotice, netVars
<1>13. CASE PollRing
  BY <1>13 DEF PollRing, AutoAnswer, LinkInv
<1>14. CASE CheckRefused \/ ResolveFailed \/ PollBegin \/ PollDataEnd \/ PollDeliver \/ NetPoll
  <2>1. /\ UNCHANGED <<netVars, remoteClosed, told>>
        /\ pc \notin {"connecting", "opened"} /\ pc' \in {"input", "data", "close"}
        /\ job' \in {job, "none"}
    BY <1>14 DEF CheckRefused, ResolveFailed, PollBegin, PollDataEnd, PollDeliver,
         NetPoll, modemVars, mainVars, history
  <2> QED
    BY <2>1 DEF netVars
<1>15. /\ ~HttpRequest /\ ~HttpHeader /\ ~HttpHeaderEmpty /\ ~HttpHeaderWait
       /\ ~HttpHeaderFailed /\ ~HttpReadSegment /\ ~HttpReadEmpty /\ ~HttpReadWait
       /\ ~HttpReadStop /\ ~HttpReadReply
  BY DEF HttpRequest, HttpHeader, HttpHeaderEmpty, HttpHeaderWait, HttpHeaderFailed,
         HttpReadSegment, HttpReadEmpty, HttpReadWait, HttpReadStop, HttpReadReply,
         FramingInv, HttpSteps
<1>16. ASSUME NEW c \in Conns, OnRecvClosed(c) \/ OnErr(c) PROVE NoticeInv'
  <2>1. c = pcb /\ pcb # None /\ ~upcb
    BY <1>16, LinkAssumption DEF OnRecvClosed, OnErr, LinkInv, Live
  <2> QED
    BY <1>16, <2>1 DEF OnRecvClosed, OnErr, mainVars
<1>17. ASSUME NEW c \in Conns, OnConnected(c) \/ OnRecv(c) PROVE NoticeInv'
  BY <1>17 DEF OnConnected, OnRecv, modemVars, netVars, mainVars, history
<1>18. ASSUME NEW c \in Conns, OnAccept(c) PROVE NoticeInv'
  BY <1>18 DEF OnAccept
<1>19. CASE OnUdpRecv
  BY <1>19 DEF OnUdpRecv, netVars, mainVars, history
<1>20. CASE UNCHANGED vars
  BY <1>20 DEF vars, modemVars, netVars, mainVars, history
<1> QED
  BY <1>1, <1>2, <1>3, <1>4, <1>5, <1>6, <1>7, <1>8, <1>9, <1>10, <1>11, <1>12, <1>13,
     <1>14, <1>15, <1>16, <1>17, <1>18, <1>19, <1>20 DEF Next, MainLoop, Network

\* CLOSED and NO CARRIER are the truth: the link is down, and the program knew of
\* it and has not been told before that it is closed, however the closing races
\* the commands that close, open or go back to the link.
THEOREM TrueNotice ==
  ASSUME Incoming = FALSE, "ATDT" \notin Commands, "HTTPGET" \notin Commands
  PROVE  Spec => NoticeIsTrue
<1>1. Init => LinkInv /\ FramingInv /\ NoticeInv
  BY DEF Init, LinkInv, Live, LinkAssumption, FramingInv, FramingMatches, OpeningUdp,
         HttpSteps, Unread, NoticeInv
<1>2. TypeOK /\ LinkInv /\ FramingInv /\ NoticeInv /\ [Next]_vars
        => LinkInv' /\ FramingInv' /\ NoticeInv'
  BY LinkStep, FramingStep, NoticeStep
<1>3. NoticeInv => (Announces => ~TcpConnected /\ told # None)
  BY DEF NoticeInv, Announces, Announcing, TcpConnected
<1>4. NoticeInv /\ [Next]_vars => [Announces => ~TcpConnected /\ told # None]_vars
  BY <1>3
<1> QED
  BY <1>1, <1>2, <1>4, TypeCorrect, PTL DEF Spec, NoticeIsTrue

-----------------------------------------------------------------------------
(* Data before the notice: with incoming calls, without UDP and AT+HTTPGET. *)

\* The ring is emptied for a UDP link and by AT+HTTPGET only: hangup, ATDT, ATA
\* and AT+CIPSTART leave in it what the program has not read.
KeptInv ==
  /\ dropped = {} /\ ~linkUdp /\ ~http
  /\ job \in {"none", "dial", "tcp"} /\ pc \notin HttpSteps

LEMMA KeptStep ==
  ASSUME "UDP" \notin Commands, "HTTPGET" \notin Commands, KeptInv, [Next]_vars
  PROVE  KeptInv'
<1> USE DEF KeptInv, HttpSteps, Goto
<1>1. CASE Program
  <2>1. ~HttpGet /\ ~HttpRead /\ ~Dial("UDP", "udp")
    BY DEF HttpGet, HttpRead, Dial, Line
  <2>2. CASE Dial("ATDT", "dial") \/ Dial("CIPSTART", "tcp")
    <3>1. ~http'
      BY <2>2, Zenon DEF Dial
    <3>2. UNCHANGED <<linkUdp, dropped>> /\ pc' = "check" /\ job' \in {"dial", "tcp"}
      BY <2>2, Zenon DEF Dial, history
    <3> QED
      BY <3>1, <3>2
  <2> QED
    BY <1>1, <2>1, <2>2 DEF Program, StartHangup, ATO, ATA, CipSend, ClearRemoteClosed,
       TcpAccept, modemVars, mainVars, history
<1>2. CASE CipSendDone
  BY <1>2 DEF CipSendDone, mainVars, history
<1>3. CASE CheckRefused \/ CheckPassed \/ ResolveFailed
  BY <1>3 DEF CheckRefused, CheckPassed, FlushesFirst, ResolveFailed, modemVars, history
<1>4. ASSUME NEW c \in Conns, TcpConnect(c) PROVE KeptInv'
  BY <1>4 DEF TcpConnect, modemVars
<1>5. CASE ConnectDone \/ ConnectFailed \/ HangupClose \/ HangupClear
  BY <1>5 DEF ConnectDone, ConnectFailed, HangupClose, HangupClear, history
<1>6. CASE CipstartDone
  BY <1>6 DEF CipstartDone
<1>7. CASE PollBegin \/ PollDeliver \/ PollDataEnd \/ PollClose \/ PollNotice \/ PollRing \/ NetPoll
  BY <1>7 DEF PollBegin, PollDeliver, PollDataEnd, PollClose, PollNotice, PollRing,
     NetPoll, modemVars, mainVars, history
<1>8. /\ ~UdpConnect /\ ~HttpRequest /\ ~HttpHeader /\ ~HttpHeaderEmpty /\ ~HttpHeaderWait
      /\ ~HttpHeaderFailed /\ ~HttpReadSegment /\ ~HttpReadEmpty /\ ~HttpReadWait
      /\ ~HttpReadStop /\ ~HttpReadReply
  BY DEF UdpConnect, HttpRequest, HttpHeader, HttpHeaderEmpty, HttpHeaderWait,
         HttpHeaderFailed, HttpReadSegment, HttpReadEmpty, HttpReadWait, HttpReadStop,
         HttpReadReply
<1>9. CASE Network
  BY <1>9 DEF Network, OnConnected, OnRecv, OnRecvClosed, OnErr, OnAccept, OnUdpRecv,
     modemVars, mainVars, history
<1>10. CASE UNCHANGED vars
  BY <1>10 DEF vars, modemVars, mainVars, history
<1> QED
  BY <1>1, <1>2, <1>3, <1>4, <1>5, <1>6, <1>7, <1>8, <1>9, <1>10 DEF Next, MainLoop

\* The program is told of a closing after the last byte sent before it, with any
\* calls made, answered and hung up before, and data left unread by any of them.
THEOREM DataBeforeNotice ==
  ASSUME "UDP" \notin Commands, "HTTPGET" \notin Commands
  PROVE  Spec => NothingLost
<1>1. Init => KeptInv
  BY DEF Init, KeptInv, HttpSteps
<1>2. KeptInv /\ [Next]_vars => KeptInv'
  BY KeptStep
<1>3. KeptInv => (Announces => told \notin Unread \cup dropped)
  BY DEF KeptInv, Announces, Announcing, Unread
<1>4. KeptInv /\ [Next]_vars => [Announces => told \notin Unread \cup dropped]_vars
  BY <1>3
<1> QED
  BY <1>1, <1>2, <1>4, PTL DEF Spec, NothingLost

-----------------------------------------------------------------------------
(* The body of an HTTP session: links opened by AT+HTTPGET alone.          *)

\* AT+HTTPGET empties the ring long before the session begins; until then no
\* connection but the new one can fill it.
BodyInv ==
  /\ ~upcb /\ ~linkUdp
  /\ pcb \in {None, httpConn}
  /\ job \in {"none", "get", "hop", "fail"}
  /\ pc \in OpeningSteps => job = "get" /\ ~http
  /\ pc = "closed" => ~http
  /\ pc = "resolve" => Unread = {}
  /\ http \/ pc \in OpeningSteps \ {"check", "resolve"} => Unread \subseteq {httpConn}

LEMMA BodyStep ==
  ASSUME Incoming = FALSE, Commands \cap Opening = {"HTTPGET"},
         TypeOK, LinkInv, BodyInv, [Next]_vars
  PROVE  BodyInv'
<1> USE DEF BodyInv, OpeningSteps, Goto
<1>1. CASE Program
  <2>1. ~ATA /\ ~Dial("ATDT", "dial") /\ ~Dial("CIPSTART", "tcp") /\ ~Dial("UDP", "udp")
    BY DEF ATA, Dial, Line, Opening
  <2>2. /\ UNCHANGED <<rx, linkUdp, upcb, pcb, http, httpConn>> /\ pc = "input"
        /\ \/ pc' \in {"input", "hangup", "read", "reply"} /\ job' \in {job, "none", "get"}
           \/ pc' = "check" /\ job' = "get" /\ ~http
    BY <1>1, <2>1 DEF Program, HttpGet, HttpRead, StartHangup, ATO, CipSend, Line,
         modemVars, netVars, mainVars, history
  <2> QED
    BY <2>2, UnreadKept
<1>2. CASE CipSendDone
  BY <1>2, UnreadKept DEF CipSendDone, netVars, mainVars, history
<1>3. CASE CheckPassed
  BY <1>3, UnreadFlushed DEF CheckPassed, FlushesFirst, netVars
<1>4. ~UdpConnect /\ ~CipstartDone
  BY DEF UdpConnect, CipstartDone
<1>5. ASSUME NEW c \in Conns, TcpConnect(c) PROVE BodyInv'
  BY <1>5, UnreadKept DEF TcpConnect, modemVars
<1>6. CASE ConnectDone
  BY <1>6, UnreadKept DEF ConnectDone, netVars
<1>7. CASE ConnectFailed
  BY <1>7, UnreadKept DEF ConnectFailed
<1>8. CASE HttpRequest
  BY <1>8, UnreadKept DEF HttpRequest, netVars, history
<1>9. CASE HttpHeader
  <2>1. Unread' \subseteq Unread
    BY <1>9, UnreadTail DEF HttpHeader
  <2> QED
    BY <1>9, <2>1 DEF HttpHeader, netVars, history
<1>10. CASE HttpReadSegment
  <2>1. Unread' \subseteq Unread
    BY <1>10, UnreadTail DEF HttpReadSegment
  <2> QED
    BY <1>10, <2>1 DEF HttpReadSegment, netVars, history
<1>11. CASE HttpReadReply
  <2>1. Unread' = {} \/ Unread' = Unread
    BY <1>11, UnreadKept, UnreadFlushed DEF HttpReadReply
  <2> QED
    BY <1>11, <2>1 DEF HttpReadReply
<1>12. CASE HangupClose
  BY <1>12, UnreadKept DEF HangupClose, history
<1>13. CASE HangupClear
  <2>1. Unread' = {} \/ Unread' = Unread
    BY <1>13, UnreadKept, UnreadFlushed DEF HangupClear
  <2> QED
    BY <1>13, <2>1 DEF HangupClear, netVars
<1>14. CASE PollDeliver
  <2>1. Unread' \subseteq Unread
    BY <1>14, UnreadTail DEF PollDeliver, PollMayDeliver
  <2> QED
    BY <1>14, <2>1 DEF PollDeliver, netVars, mainVars, history
<1>15. CASE PollRing
  <2>1. UNCHANGED <<rx, linkUdp, upcb, pcb, http, httpConn>> /\ pc' = "net" /\ job' = "none"
    BY <1>15 DEF PollRing, AutoAnswer
  <2> QED
    BY <2>1, UnreadKept
<1>16. CASE HttpHeaderEmpty \/ HttpHeaderWait
  BY <1>16, UnreadKept DEF HttpHeaderEmpty, HttpHeaderWait, modemVars, netVars, history
<1>17. CASE CheckRefused \/ ResolveFailed \/ HttpHeaderFailed \/ HttpReadEmpty
            \/ HttpReadWait \/ HttpReadStop \/ PollBegin \/ PollDataEnd \/ PollClose
            \/ PollNotice \/ NetPoll
  <2>1. /\ UNCHANGED <<rx, linkUdp, upcb, pcb, http, httpConn>>
        /\ pc' \notin OpeningSteps \cup {"closed"} /\ job' \in {"none", "fail"}
    BY <1>17 DEF CheckRefused, ResolveFailed, HttpHeaderFailed, HttpReadEmpty,
         HttpReadWait, HttpReadStop, PollBegin, PollDataEnd, PollClose, PollNotice,
         NetPoll, modemVars, netVars, history
  <2> QED
    BY <2>1, UnreadKept
<1>18. ASSUME NEW c \in Conns, OnRecv(c) PROVE BodyInv'
  <2>1. c = pcb /\ Unread' = Unread \cup {c} /\ pc # "resolve"
    BY <1>18, UnreadAppend, LinkAssumption DEF OnRecv, LinkInv, Live, Sources
  <2>2. c = httpConn
    BY <2>1, LinkAssumption
  <2> QED
    BY <1>18, <2>1, <2>2 DEF OnRecv, netVars, mainVars, history
<1>19. ASSUME NEW c \in Conns, OnConnected(c) \/ OnRecvClosed(c) \/ OnErr(c) PROVE BodyInv'
  BY <1>19, UnreadKept DEF OnConnected, OnRecvClosed, OnErr, modemVars, mainVars, history
<1>20. ASSUME NEW c \in Conns, OnAccept(c) PROVE BodyInv'
  BY <1>20 DEF OnAccept
<1>21. ~OnUdpRecv
  BY DEF OnUdpRecv
<1>22. CASE UNCHANGED vars
  BY <1>22, UnreadKept DEF vars, modemVars, netVars, mainVars, history
<1> QED
  BY <1>1, <1>2, <1>3, <1>4, <1>5, <1>6, <1>7, <1>8, <1>9, <1>10, <1>11, <1>12, <1>13,
     <1>14, <1>15, <1>16, <1>17, <1>18, <1>19, <1>20, <1>21, <1>22
     DEF Next, MainLoop, Network

\* AT+HTTPREAD hands out bytes of its own session: of no earlier session left
\* half read, of no redirection followed on the way, of no connection that
\* failed meanwhile.
THEOREM OwnBody ==
  ASSUME Incoming = FALSE, Commands \cap Opening = {"HTTPGET"}
  PROVE  Spec => []BodyFromSession
<1>1. Init => LinkInv /\ BodyInv
  BY DEF Init, LinkInv, Live, LinkAssumption, BodyInv, OpeningSteps, Unread
<1>2. TypeOK /\ LinkInv /\ BodyInv /\ [Next]_vars => LinkInv' /\ BodyInv'
  BY LinkStep, BodyStep
<1>3. BodyInv => BodyFromSession
  BY DEF BodyInv, BodyFromSession
<1> QED
  BY <1>1, <1>2, <1>3, TypeCorrect, PTL DEF Spec
=============================================================================
