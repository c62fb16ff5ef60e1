----------------------------- MODULE ModemLink -----------------------------
(***************************************************************************)
(* The single network link of the modem: the AT/Hayes command side         *)
(* (at_modem.c, run by the main loop) and the connection side (net_pico.c, *)
(* whose lwIP callbacks run in an interrupt and preempt the main loop      *)
(* everywhere outside cyw43_arch_lwip_begin/end).                          *)
(*                                                                         *)
(* The main loop is a program counter `pc'; each of its steps is one       *)
(* stretch of code between two accesses to state an interrupt may change.  *)
(* Callbacks are single steps, enabled whatever `pc' is.                   *)
(*                                                                         *)
(* Received bytes are abstracted to segments, and a segment to the tag of  *)
(* the connection that sent it: Udp for a datagram of the UDP link.        *)
(***************************************************************************)
EXTENDS Integers, Sequences, FiniteSets

CONSTANTS
  Conns,      \* TCP connection objects (altcp_pcb) lwIP can hand out
  Udp,        \* tag of what the UDP link receives
  None,       \* NULL
  Commands,   \* the AT commands the 6502 program uses
  Incoming,   \* AT+CIPSERVER listens and the host filter is off
  S0,         \* register S0: rings before the automatic answer, 0 = never
  Segments,   \* bound: segments a peer sends on one connection
  RxSize      \* AT_RX_RING_SIZE, in segments

AllCommands ==
  { "ATDT", "ATO", "ATA", "ATH", "+++", "CIPSTART", "UDP", "CIPSEND",
    "CIPCLOSE", "HTTPGET", "HTTPREAD", "HTTPCLOSE" }

ASSUME LinkAssumption ==
  /\ IsFiniteSet(Conns)
  /\ Udp \notin Conns /\ None \notin Conns /\ Udp # None
  /\ Commands \subseteq AllCommands
  /\ Incoming \in BOOLEAN
  /\ S0 \in Nat
  /\ Segments \in Nat \ {0}
  /\ RxSize \in Nat \ {0}

VARIABLES
  \* struct at_modem
  mode, http, left, eof, linkUdp, remoteClosed, ringPending, ringCount, rx,
  \* net_pico.c
  pcb, pendingPcb, upcb, connectState,
  \* lwIP and the peers
  conn, sent,
  \* the main loop: where it is, for which opening command, and k > 0 of HTTPREAD
  pc, job, got,
  \* history: the link the program was told is open, the closures behind
  \* remoteClosed, the last connection we made and the last of AT+HTTPGET, the
  \* sources some of whose segments were thrown away unread
  told, flagFrom, dialed, httpConn, dropped

modemVars == <<mode, http, left, eof, linkUdp, remoteClosed, ringPending, ringCount, rx>>
netVars   == <<pcb, pendingPcb, upcb, connectState>>
peerVars  == <<conn, sent>>
mainVars  == <<pc, job, got>>
history   == <<told, flagFrom, dialed, httpConn, dropped>>
vars      == <<modemVars, netVars, peerVars, mainVars, history>>

Sources == Conns \cup {Udp}

ToClose == -1     \* body length not announced: it ends when the peer closes
Chunked == -2     \* the body carries its own end mark

\* A connection object: not yet made; SYN sent; open with our callbacks on it;
\* open but the peer has sent FIN ("half"); ended by the peer and released
\* ("fin", "reset"); closed by us and released ("local").
ConnStates == {"new", "syn", "open", "half", "fin", "reset", "local"}
Released   == {"fin", "reset", "local"}

MainSteps ==
  { "input", "check", "resolve", "connecting", "opened", "header", "headerEmpty",
    "hangup", "closed", "read", "readEmpty", "reply",
    "data", "close", "notice", "ring", "net" }

Modes == {"COMMAND", "CIPSEND", "ONLINE"}

\* What the main loop is doing: an opening command (ATDT, AT+CIPSTART, AT+HTTPGET,
\* a redirection) or http_fail.
Jobs == {"none", "dial", "tcp", "udp", "get", "hop", "fail"}

TypeOK ==
  /\ mode \in Modes
  /\ http \in BOOLEAN /\ eof \in BOOLEAN /\ left \in {ToClose, Chunked} \cup 0..Segments
  /\ linkUdp \in BOOLEAN /\ remoteClosed \in BOOLEAN
  /\ ringPending \in BOOLEAN /\ ringCount \in 0..S0
  /\ rx \in Seq(Sources)
  /\ pcb \in Conns \cup {None} /\ pendingPcb \in Conns \cup {None} /\ upcb \in BOOLEAN
  /\ connectState \in {"wait", "ok", "failed"}
  /\ conn \in [Conns -> ConnStates]
  /\ sent \in [Sources -> 0..Segments]
  /\ pc \in MainSteps
  /\ job \in Jobs
  /\ got \in BOOLEAN
  /\ told \in Sources \cup {None}
  /\ dialed \in Conns \cup {None} /\ httpConn \in Conns \cup {None}
  /\ flagFrom \subseteq Conns /\ dropped \subseteq Sources

Init ==
  /\ mode = "COMMAND" /\ http = FALSE /\ left = 0 /\ eof = FALSE
  /\ linkUdp = FALSE /\ remoteClosed = FALSE
  /\ ringPending = FALSE /\ ringCount = 0 /\ rx = <<>>
  /\ pcb = None /\ pendingPcb = None /\ upcb = FALSE /\ connectState = "wait"
  /\ conn = [c \in Conns |-> "new"] /\ sent = [s \in Sources |-> 0]
  /\ pc = "input" /\ job = "none" /\ got = FALSE
  /\ told = None /\ flagFrom = {} /\ dialed = None /\ httpConn = None /\ dropped = {}

-----------------------------------------------------------------------------
(* Shared pieces of the handlers.                                          *)

\* What is in the ring and about to be thrown away by rx_flush.
Unread == {rx[i] : i \in 1..Len(rx)}

RxFlush == rx' = <<>> /\ dropped' = dropped \cup Unread

ClearRemoteClosed == remoteClosed' = FALSE /\ flagFrom' = {}

\* tcp_connected: a UDP link, or a connection whose on_connected was called.
UdpForgotten == pcb # None /\ connectState = "ok"                  \* mutant
TcpConnected == upcb \/ (pcb # None /\ connectState = "ok")

\* pcb_detach: callbacks removed, then altcp_close or altcp_abort.
Detach(p) == conn' = IF p = None THEN conn ELSE [conn EXCEPT ![p] = "local"]

GoOnline == mode' = "ONLINE"

Goto(step, j) == pc' = step /\ job' = j

\* The program may send `command' now: the main loop is in at_modem_input and
\* at_modem_input is interpreting lines.
Line(command) == command \in Commands /\ pc = "input" /\ mode = "COMMAND"

-----------------------------------------------------------------------------
(* Opening a link: ATDT, AT+CIPSTART (TCP or SSL, UDP) and AT+HTTPGET.     *)

\* First test of tcp_connected: a finished HTTP session is forgotten.
Dial(command, j) ==
  /\ Line(command)
  /\ http' = (http /\ TcpConnected)
  /\ Goto("check", j)
  /\ UNCHANGED <<mode, left, eof, linkUdp, remoteClosed, ringPending, ringCount, rx,
                 netVars, peerVars, got, history>>

\* AT+HTTPGET ends the previous HTTP session by a hangup of its own.
HttpGet ==
  /\ Line("HTTPGET")
  /\ IF http THEN Goto("hangup", "get") ELSE Goto("check", "get")
  /\ UNCHANGED <<modemVars, netVars, peerVars, got, history>>

\* ALREADY CONNECTED, no Wi-Fi, host refused by the filter: an error, no more.
CheckRefused ==
  /\ pc = "check"
  /\ Goto("input", "none")
  /\ UNCHANGED <<modemVars, netVars, peerVars, got, history>>

\* Only a UDP link and AT+HTTPGET begin with an empty ring.
FlushHttpOnly(j) == j = "get"                                      \* mutant
FlushUdpOnly(j) == j = "udp"                                       \* mutant
FlushesFirst(j) == j \in {"udp", "get"}

\* Second test of tcp_connected, then what each command resets before it opens.
CheckPassed ==
  /\ pc = "check" /\ ~TcpConnected
  /\ Goto("resolve", job)
  /\ IF FlushesFirst(job) THEN RxFlush ELSE UNCHANGED <<rx, dropped>>
  /\ IF job = "get" THEN ClearRemoteClosed ELSE UNCHANGED <<remoteClosed, flagFrom>>
  /\ UNCHANGED <<mode, http, left, eof, linkUdp, ringPending, ringCount,
                 netVars, peerVars, got, told, dialed, httpConn>>

\* DNS failure, no time or no memory for TLS, no pcb.
ResolveFailed ==
  /\ pc = "resolve"
  /\ Goto("input", "none")
  /\ UNCHANGED <<modemVars, netVars, peerVars, got, history>>

\* udp_connect_op.
UdpConnect ==
  /\ pc = "resolve" /\ job = "udp"
  /\ upcb' = TRUE
  /\ Goto("opened", job)
  /\ UNCHANGED <<modemVars, pcb, pendingPcb, connectState, peerVars, got, history>>

\* tcp_connect_op up to the wait loop; altcp_connect may fail at once.
TcpConnect(c) ==
  /\ pc = "resolve" /\ job # "udp" /\ conn[c] = "new"
  /\ connectState' = "wait"
  /\ dialed' = c /\ httpConn' = IF job = "get" THEN c ELSE httpConn
  /\ \/ pcb' = c /\ conn' = [conn EXCEPT ![c] = "syn"] /\ Goto("connecting", job)
     \/ pcb' = None /\ conn' = [conn EXCEPT ![c] = "local"] /\ Goto("input", "none")
  /\ UNCHANGED <<modemVars, pendingPcb, upcb, sent, got, told, flagFrom, dropped>>

\* The wait loop ends well: do_dial goes online at once, the others have more to do.
ConnectDone ==
  /\ pc = "connecting" /\ connectState = "ok"
  /\ IF job = "dial"
       THEN GoOnline /\ Goto("input", "none") /\ told' = dialed
       ELSE Goto("opened", job) /\ UNCHANGED <<mode, told>>
  /\ UNCHANGED <<http, left, eof, linkUdp, remoteClosed, ringPending, ringCount, rx,
                 netVars, peerVars, got, flagFrom, dialed, httpConn, dropped>>

\* on_err or the timeout ended it: the connection is torn down. The failure
\* told to the program answers for the link it had before, too.
ConnectFailed ==
  /\ pc = "connecting" /\ connectState # "ok"
  /\ Detach(pcb) /\ pcb' = None
  /\ ClearRemoteClosed /\ told' = None
  /\ Goto("input", "none")
  /\ UNCHANGED <<mode, http, left, eof, linkUdp, ringPending, ringCount, rx,
                 pendingPcb, upcb, connectState, sent, got, dialed, httpConn, dropped>>

\* AT+CIPSTART, after the connection: the flags, CONNECT and OK.
CipstartStale ==                                                   \* mutant
  /\ pc = "opened" /\ job \in {"tcp", "udp"}
  /\ linkUdp' = (job = "udp")
  /\ told' = IF job = "udp" THEN Udp ELSE dialed
  /\ Goto("input", "none")
  /\ UNCHANGED <<mode, http, left, eof, remoteClosed, ringPending, ringCount, rx,
                 netVars, peerVars, got, flagFrom, dialed, httpConn, dropped>>
CipstartDone ==
  /\ pc = "opened" /\ job \in {"tcp", "udp"}
  /\ ClearRemoteClosed
  /\ linkUdp' = (job = "udp")
  /\ told' = IF job = "udp" THEN Udp ELSE dialed
  /\ Goto("input", "none")
  /\ UNCHANGED <<mode, http, left, eof, ringPending, ringCount, rx,
                 netVars, peerVars, got, dialed, httpConn, dropped>>

\* AT+HTTPGET, after the connection: the request; http_fail if it cannot be sent.
HttpRequest ==
  /\ pc = "opened" /\ job = "get"
  /\ linkUdp' = FALSE
  /\ \/ pcb # None /\ Goto("header", "get")
     \/ Goto("hangup", "fail")
  /\ UNCHANGED <<mode, http, left, eof, remoteClosed, ringPending, ringCount, rx,
                 netVars, peerVars, got, history>>

-----------------------------------------------------------------------------
(* AT+HTTPGET: the response header, popped from the ring by the main loop. *)

\* A segment of the header: more to come, a bad one (http_fail), a redirection
\* (hangup and open again), or the end of the header.
HttpHeader ==
  /\ pc = "header" /\ rx # <<>>
  /\ rx' = Tail(rx)
  /\ \/ Goto("header", job) /\ UNCHANGED <<http, left, eof>>
     \/ Goto("hangup", "fail") /\ UNCHANGED <<http, left, eof>>
     \/ Goto("hangup", "hop") /\ UNCHANGED <<http, left, eof>>
     \/ /\ Goto("input", "none")
        /\ http' = TRUE
        /\ left' \in {ToClose, Chunked} \cup 0..Segments
        /\ eof' = (left' = 0)
  /\ UNCHANGED <<mode, linkUdp, remoteClosed, ringPending, ringCount,
                 netVars, peerVars, got, history>>

\* pop_byte found the ring empty ...
HttpHeaderEmpty ==
  /\ pc = "header" /\ rx = <<>>
  /\ Goto("headerEmpty", job)
  /\ UNCHANGED <<modemVars, netVars, peerVars, got, history>>

\* ... and only then remote_closed and the timeout are looked at.
HttpHeaderWait ==
  /\ pc = "headerEmpty" /\ ~remoteClosed
  /\ Goto("header", job)
  /\ UNCHANGED <<modemVars, netVars, peerVars, got, history>>

HttpHeaderFailed ==    \* "connection closed" or "timeout"
  /\ pc = "headerEmpty"
  /\ Goto("hangup", "fail")
  /\ UNCHANGED <<modemVars, netVars, peerVars, got, history>>

-----------------------------------------------------------------------------
(* AT+HTTPREAD.                                                            *)

HttpRead ==
  /\ Line("HTTPREAD") /\ http
  /\ Goto(IF eof THEN "reply" ELSE "read", "none")
  /\ got' = FALSE
  /\ UNCHANGED <<modemVars, netVars, peerVars, history>>

\* What remains of an announced length.
AlwaysLess == left - 1                                             \* mutant
LeftAfter == IF left > 0 THEN left - 1 ELSE left

\* One segment of the body; n bytes may be reached. The end of the body is
\* known from its length or, in chunks, from its own end mark or a bad frame.
HttpReadSegment ==
  /\ pc = "read" /\ rx # <<>>
  /\ rx' = Tail(rx)
  /\ left' = LeftAfter
  /\ eof' \in IF left = Chunked THEN BOOLEAN ELSE {left = 1}
  /\ got' \in IF left = Chunked THEN {got, TRUE} ELSE {TRUE}
  /\ \/ Goto("reply", "none")
     \/ ~eof' /\ Goto("read", "none")
  /\ UNCHANGED <<mode, http, linkUdp, remoteClosed, ringPending, ringCount,
                 netVars, peerVars, history>>

HttpReadEmpty ==
  /\ pc = "read" /\ rx = <<>>
  /\ Goto("readEmpty", "none")
  /\ UNCHANGED <<modemVars, netVars, peerVars, got, history>>

\* Ring seen empty: end of the body if the peer closed, otherwise wait for a
\* first byte.
HttpReadWait ==
  /\ pc = "readEmpty" /\ ~remoteClosed /\ ~got
  /\ Goto("read", "none")
  /\ UNCHANGED <<modemVars, netVars, peerVars, got, history>>

HttpReadStop ==        \* the peer closed, k > 0, or the timeout
  /\ pc = "readEmpty"
  /\ eof' = (eof \/ remoteClosed)
  /\ Goto("reply", "none")
  /\ UNCHANGED <<mode, http, left, linkUdp, remoteClosed, ringPending, ringCount, rx,
                 netVars, peerVars, got, history>>

\* +HTTPREAD:k,more: and, at the end of the body, the link is closed.
HttpReadReply ==
  /\ pc = "reply"
  /\ Goto("input", "none") /\ got' = FALSE
  /\ IF eof /\ TcpConnected
       THEN /\ Detach(pcb) /\ pcb' = None /\ upcb' = FALSE
            /\ RxFlush /\ ClearRemoteClosed
       ELSE UNCHANGED <<conn, pcb, upcb, rx, dropped, remoteClosed, flagFrom>>
  /\ UNCHANGED <<mode, http, left, eof, linkUdp, ringPending, ringCount,
                 pendingPcb, connectState, sent, told, dialed, httpConn>>

-----------------------------------------------------------------------------
(* hangup: ATH, ATZ, AT+CWQAP, AT+CIPCLOSE, AT+HTTPCLOSE, http_fail, and   *)
(* before or between the connections of AT+HTTPGET.                        *)

StartHangup ==
  /\ \/ Line("ATH")
     \/ Line("CIPCLOSE") /\ TcpConnected
     \/ Line("HTTPCLOSE") /\ http
  /\ Goto("hangup", "none")
  /\ UNCHANGED <<modemVars, netVars, peerVars, got, history>>

\* http.active cleared, then tcp_close_op if the link is up.
HangupClose ==
  /\ pc = "hangup"
  /\ http' = FALSE
  /\ IF TcpConnected
       THEN Detach(pcb) /\ pcb' = None /\ upcb' = FALSE
       ELSE UNCHANGED <<conn, pcb, upcb>>
  /\ Goto("closed", job)
  /\ UNCHANGED <<mode, left, eof, linkUdp, remoteClosed, ringPending, ringCount, rx,
                 pendingPcb, connectState, sent, got, history>>

\* The rest of hangup, and back to its caller; http_fail also empties the ring.
HangupClear ==
  /\ pc = "closed"
  /\ linkUdp' = FALSE
  /\ IF linkUdp \/ job = "fail" THEN RxFlush ELSE UNCHANGED <<rx, dropped>>
  /\ ClearRemoteClosed
  /\ mode' = "COMMAND"
  /\ told' = None
  /\ IF job \in {"get", "hop"} THEN Goto("check", "get") ELSE Goto("input", "none")
  /\ UNCHANGED <<http, left, eof, ringPending, ringCount, netVars, peerVars, got, dialed, httpConn>>

-----------------------------------------------------------------------------
(* Going back online, answering, sending.                                  *)

ATO ==
  /\ Line("ATO") /\ TcpConnected /\ ~linkUdp
  /\ GoOnline /\ told' = pcb
  /\ UNCHANGED <<http, left, eof, linkUdp, remoteClosed, ringPending, ringCount, rx,
                 netVars, peerVars, mainVars, flagFrom, dialed, httpConn, dropped>>

\* tcp_accept_op, in one locked section: the waiting call becomes the link.
TcpAccept ==
  /\ pendingPcb # None
  /\ pcb' = pendingPcb /\ pendingPcb' = None /\ connectState' = "ok"
  /\ ClearRemoteClosed

ATA ==
  /\ Line("ATA") /\ ~linkUdp /\ Incoming
  /\ TcpAccept
  /\ ringPending' = FALSE /\ ringCount' = 0
  /\ GoOnline /\ told' = pendingPcb
  /\ UNCHANGED <<http, left, eof, linkUdp, rx, upcb, peerVars, mainVars, dialed, httpConn, dropped>>

CipSend ==
  /\ Line("CIPSEND") /\ TcpConnected
  /\ mode' = "CIPSEND"
  /\ UNCHANGED <<http, left, eof, linkUdp, remoteClosed, ringPending, ringCount, rx,
                 netVars, peerVars, mainVars, history>>

\* The last of the announced bytes: tcp_send, SEND OK or SEND FAIL.
CipSendDone ==
  /\ pc = "input" /\ mode = "CIPSEND"
  /\ mode' = "COMMAND"
  /\ UNCHANGED <<http, left, eof, linkUdp, remoteClosed, ringPending, ringCount, rx,
                 netVars, peerVars, mainVars, history>>

-----------------------------------------------------------------------------
(* at_modem_poll and net_pico_poll.                                        *)

\* at_modem_input returns. Poll begins with the end of a +++ sequence.
PollBegin ==
  /\ pc = "input"
  /\ Goto("data", "none")
  /\ mode' \in IF mode = "ONLINE" /\ "+++" \in Commands THEN {mode, "COMMAND"} ELSE {mode}
  /\ UNCHANGED <<http, left, eof, linkUdp, remoteClosed, ringPending, ringCount, rx,
                 netVars, peerVars, got, history>>

\* The conditions of the two loops that hand data to the program: datagrams
\* by +IPD, a stream by +IPD or as it is.
OnlineOnly == rx # <<>> /\ IF linkUdp THEN mode = "COMMAND" ELSE ~http /\ mode = "ONLINE"   \* mutant
PollMayDeliver ==
  /\ rx # <<>>
  /\ IF linkUdp THEN mode = "COMMAND" ELSE ~http /\ mode # "CIPSEND"

PollDeliver ==
  /\ pc = "data" /\ PollMayDeliver
  /\ rx' = Tail(rx)
  /\ UNCHANGED <<mode, http, left, eof, linkUdp, remoteClosed, ringPending, ringCount,
                 netVars, peerVars, mainVars, history>>

PollDataEnd ==
  /\ pc = "data" /\ ~PollMayDeliver
  /\ Goto("close", "none")
  /\ UNCHANGED <<modemVars, netVars, peerVars, got, history>>

\* remote_closed is read first, the ring only afterwards.
PollClose ==
  /\ pc = "close"
  /\ Goto(IF remoteClosed /\ ~http THEN "notice" ELSE "ring", "none")
  /\ UNCHANGED <<modemVars, netVars, peerVars, got, history>>

RingUnread == pc = "notice" /\ mode # "CIPSEND"                    \* mutant
OnlineNotice == pc = "notice" /\ rx = <<>> /\ mode = "ONLINE"      \* mutant
Announcing == pc = "notice" /\ rx = <<>> /\ mode # "CIPSEND"

\* CLOSED, or NO CARRIER and back to command mode.
PollNotice ==
  /\ pc = "notice"
  /\ IF Announcing
       THEN ClearRemoteClosed /\ mode' = "COMMAND" /\ told' = None
       ELSE UNCHANGED <<remoteClosed, flagFrom, mode, told>>
  /\ Goto("ring", "none")
  /\ UNCHANGED <<http, left, eof, linkUdp, ringPending, ringCount, rx,
                 netVars, peerVars, got, dialed, httpConn, dropped>>

\* Only ring_count >= S0 is ever tested, so the count stops at S0.
CountRing == IF ringCount < S0 THEN ringCount + 1 ELSE ringCount

AutoAnswer == S0 > 0 /\ CountRing >= S0 /\ Incoming

\* RING, and the automatic answer.
PollRing ==
  /\ pc = "ring"
  /\ Goto("net", "none")
  /\ IF ringPending /\ mode = "COMMAND"
       THEN /\ ringPending' = FALSE
            /\ IF AutoAnswer /\ pendingPcb # None
                 THEN /\ TcpAccept /\ ringCount' = 0
                      /\ GoOnline /\ told' = pendingPcb
                 ELSE /\ ringCount' = CountRing
                      /\ UNCHANGED <<mode, told, pcb, pendingPcb, connectState,
                                     remoteClosed, flagFrom>>
       ELSE UNCHANGED <<ringPending, ringCount, mode, told, pcb, pendingPcb,
                        connectState, remoteClosed, flagFrom>>
  /\ UNCHANGED <<http, left, eof, linkUdp, rx, upcb, peerVars, got, dialed, httpConn, dropped>>

\* The call not answered yet rings again every RING_PERIOD_MS.
NetPoll ==
  /\ pc = "net"
  /\ ringPending' \in {ringPending, ringPending \/ pendingPcb # None}
  /\ Goto("input", "none")
  /\ UNCHANGED <<mode, http, left, eof, linkUdp, remoteClosed, ringCount, rx,
                 netVars, peerVars, got, history>>

-----------------------------------------------------------------------------
(* lwIP callbacks, in an interrupt.                                        *)

OnConnected(c) ==
  /\ conn[c] = "syn"
  /\ conn' = [conn EXCEPT ![c] = "open"]
  /\ connectState' = "ok"
  /\ UNCHANGED <<modemVars, pcb, pendingPcb, upcb, sent, mainVars, history>>

\* ERR_MEM.
NoRoom(c) == Len(rx) = RxSize                                      \* mutant
Refused(c) == c = pendingPcb \/ Len(rx) = RxSize

\* on_recv with data. Refused (ERR_MEM) for a call not answered or a full
\* ring: lwIP keeps the segment and offers it again.
OnRecv(c) ==
  /\ conn[c] = "open" /\ sent[c] < Segments
  /\ ~Refused(c)
  /\ rx' = Append(rx, c)
  /\ sent' = [sent EXCEPT ![c] = @ + 1]
  /\ UNCHANGED <<mode, http, left, eof, linkUdp, remoteClosed, ringPending, ringCount,
                 netVars, conn, mainVars, history>>

\* on_recv without data: the peer closed. Only the active connection is let go.
OnRecvClosed(c) ==
  /\ conn[c] = "open"
  /\ remoteClosed' = TRUE /\ flagFrom' = flagFrom \cup {c}
  /\ IF c = pcb
       THEN pcb' = None /\ conn' = [conn EXCEPT ![c] = "fin"]
       ELSE pcb' = pcb /\ conn' = [conn EXCEPT ![c] = "half"]
  /\ UNCHANGED <<mode, http, left, eof, linkUdp, ringPending, ringCount, rx,
                 pendingPcb, upcb, connectState, sent, mainVars, told, dialed, httpConn, dropped>>

\* on_err: lwIP has already released the connection.
OnErr(c) ==
  /\ conn[c] \in {"syn", "open", "half"}
  /\ conn' = [conn EXCEPT ![c] = "reset"]
  /\ connectState' = IF connectState = "wait" THEN "failed" ELSE connectState
  /\ pcb' = None
  /\ remoteClosed' = TRUE /\ flagFrom' = flagFrom \cup {c}
  /\ UNCHANGED <<mode, http, left, eof, linkUdp, ringPending, ringCount, rx,
                 pendingPcb, upcb, sent, mainVars, told, dialed, httpConn, dropped>>

NoCall == pendingPcb # None \/ upcb                                \* mutant
Busy == pcb # None \/ pendingPcb # None \/ upcb

\* on_accept: a call is parked only when nothing else is there; others are refused.
OnAccept(c) ==
  /\ Incoming /\ conn[c] = "new"
  /\ ~Busy
  /\ pendingPcb' = c
  /\ conn' = [conn EXCEPT ![c] = "open"]
  /\ ringPending' = TRUE
  /\ UNCHANGED <<mode, http, left, eof, linkUdp, remoteClosed, ringCount, rx,
                 pcb, upcb, connectState, sent, mainVars, history>>

\* on_udp_recv: a datagram is lost when the ring has no room for it.
OnUdpRecv ==
  /\ upcb /\ sent[Udp] < Segments
  /\ sent' = [sent EXCEPT ![Udp] = @ + 1]
  /\ rx' = IF Len(rx) < RxSize THEN Append(rx, Udp) ELSE rx
  /\ UNCHANGED <<mode, http, left, eof, linkUdp, remoteClosed, ringPending, ringCount,
                 netVars, conn, mainVars, history>>

-----------------------------------------------------------------------------

\* What the program asks for.
Program ==
  \/ Dial("ATDT", "dial") \/ Dial("CIPSTART", "tcp") \/ Dial("UDP", "udp")
  \/ HttpGet \/ HttpRead \/ StartHangup \/ ATO \/ ATA \/ CipSend

\* What the main loop does by itself, one step after the other.
MainLoop ==
  \/ CheckRefused \/ CheckPassed \/ ResolveFailed \/ UdpConnect
  \/ \E c \in Conns : TcpConnect(c)
  \/ ConnectDone \/ ConnectFailed \/ CipstartDone \/ HttpRequest
  \/ HttpHeader \/ HttpHeaderEmpty \/ HttpHeaderWait \/ HttpHeaderFailed
  \/ HttpReadSegment \/ HttpReadEmpty \/ HttpReadWait \/ HttpReadStop \/ HttpReadReply
  \/ HangupClose \/ HangupClear
  \/ PollBegin \/ PollDeliver \/ PollDataEnd \/ PollClose \/ PollNotice
  \/ PollRing \/ NetPoll

Network ==
  \/ \E c \in Conns : \/ OnConnected(c) \/ OnRecv(c) \/ OnRecvClosed(c)
                      \/ OnErr(c) \/ OnAccept(c)
  \/ OnUdpRecv

Next == Program \/ CipSendDone \/ MainLoop \/ Network

Spec == Init /\ [][Next]_vars

\* The main loop never stops; uart_drain hands at_modem_input 256 bytes at most,
\* so poll comes after a finite number of commands; a wait is cut short by its
\* timeout. Nothing is assumed of the program, of the peers or of the network.
Fairness == /\ WF_vars(MainLoop) /\ SF_vars(PollBegin)
            /\ SF_vars(HttpHeaderFailed) /\ SF_vars(HttpReadStop)

FairSpec == Spec /\ Fairness

-----------------------------------------------------------------------------
(* Safety.                                                                 *)

Live(c) == conn[c] \in {"syn", "open", "half"}

\* Never a TCP connection and a UDP link together (net_pico.c, on upcb:
\* "exclusif de pcb").
ExclusiveUdp == pcb = None \/ ~upcb

\* No connection whose callbacks still feed the ring and the flags without
\* being the link or the call that waits to be answered.
NoOrphan == \A c \in Conns : Live(c) => c \in {pcb, pendingPcb}

\* No pointer to a connection lwIP has released.
NoStalePointer == \A c \in {pcb, pendingPcb} \ {None} : Live(c)

\* The three together: the modem has one link, and knows it.
SingleLink == ExclusiveUdp /\ NoOrphan /\ NoStalePointer

\* The ring holds length-prefixed datagrams and plain stream bytes with nothing
\* to tell them apart but link_udp: what link_udp says of the ring is true
\* whenever at_modem_poll or AT+HTTPREAD may read it.
FramingMatches ==
  /\ linkUdp => Unread \subseteq {Udp}
  /\ ~linkUdp => Udp \notin Unread \/ (pc = "opened" /\ job = "udp")

\* A call not answered sends nothing to the program: none of its data is in
\* the ring.
UnansweredSilent == pendingPcb \notin Unread

\* While the modem has a connection it keeps no other caller waiting.
BusyRefusesCalls == pcb = None \/ pendingPcb = None

\* AT+HTTPREAD returns bytes of its own session only.
BodyFromSession == http => Unread \subseteq {httpConn}

Announces == Announcing /\ pc' # pc

\* CLOSED or NO CARRIER is said of a link that is down, and that the program was
\* told of: it is not said twice, nor of a link the program has closed itself.
NoticeIsTrue == [][Announces => ~TcpConnected /\ told # None]_vars

\* When the program is told that its link is closed, it has had all that the
\* peer sent before closing.
NothingLost == [][Announces => told \notin Unread \cup dropped]_vars

(* Liveness.                                                               *)

\* The closing of a link by the peer is reported, or the program has ended the
\* link itself; only an AT+CIPSEND it does not finish may hold the report back.
CloseReported ==
  \A c \in Conns :
    (told = c /\ conn[c] \in {"fin", "reset", "half"}) ~> (told # c \/ mode = "CIPSEND")

\* Received data reaches the program, but for an HTTP session, which reads it
\* by AT+HTTPREAD, and an AT+CIPSEND that waits for its bytes.
DataDrains == (rx # <<>>) ~> (rx = <<>> \/ http \/ mode = "CIPSEND")
=============================================================================
