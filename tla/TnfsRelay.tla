----------------------------- MODULE TnfsRelay -----------------------------
(***************************************************************************)
(* The relay between the second USB port and a TNFS server (tnfs_pico.c,   *)
(* with the queue of tnfs_link.c): tnfs_pico_poll step by step, and between *)
(* two of its steps the lwIP callbacks that bring the answer of a DNS      *)
(* query or a datagram of the server.                                      *)
(*                                                                         *)
(* A host stands for a name with its port, and for the address the DNS     *)
(* gives for it. A datagram of the program is the host it was meant for, a *)
(* reply the host that sent it. The bytes of a frame and what a wrong      *)
(* length throws away are left out, and so is the log of refusals.         *)
(***************************************************************************)
EXTENDS Naturals, Sequences

CONSTANTS
  Hosts, None,
  Literals,   \* the hosts given as an address
  QueueSize,  \* replies that fit in TNFS_QUEUE_SIZE bytes
  Frames      \* bound: frames of the program

ASSUME RelayAssumption ==
  /\ None \notin Hosts /\ Literals \subseteq Hosts
  /\ QueueSize \in Nat \ {0} /\ Frames \in Nat

VARIABLES
  host, allowed,                \* cfg.tnfs_host; what cfg.hosts and hosts_enforce let through
  wifi, connected,              \* the Wi-Fi link; DTR of the port
  curHost, addr, res, resGen,   \* the server of the link, its address, how it was found
  pending, pcb, queue,          \* the datagram kept during the DNS query, the link's peer, replies
  queries,                      \* lwIP: queries not answered yet
  pc, frames,                   \* the poll; frames so far
  sent, strays                  \* history: the last datagram sent, and how many went to a
                                \* server that the list refused when they left, since it
                                \* last changed

cfgVars  == <<host, allowed>>
outVars  == <<wifi, connected>>
dnsVars  == <<addr, res, resGen>>
linkVars == <<pending, pcb, queue>>
loopVars == <<pc, frames>>
seenVars == <<sent, strays>>
vars == <<cfgVars, outVars, curHost, dnsVars, linkVars, queries, loopVars, seenVars>>

Query == [gen : Nat, host : Hosts]

TypeOK ==
  /\ host \in Hosts \cup {None} /\ allowed \subseteq Hosts
  /\ wifi \in BOOLEAN /\ connected \in BOOLEAN
  /\ curHost \in Hosts \cup {None} /\ addr \in Hosts \cup {None}
  /\ res \in {"none", "pending", "ok", "fail"} /\ resGen \in Nat
  /\ pending \in Hosts \cup {None} /\ pcb \in Hosts \cup {None}
  /\ queue \in Seq(Hosts) /\ Len(queue) <= QueueSize
  /\ queries \subseteq Query
  /\ pc \in {"loop", "usb", "held", "send", "write"} /\ frames \in 0..Frames
  /\ sent \in [to : Hosts, at : Hosts \cup {None}] \cup {None} /\ strays \in Nat

Init ==
  /\ host \in Hosts \cup {None} /\ allowed \in SUBSET Hosts
  /\ wifi \in BOOLEAN /\ connected \in BOOLEAN
  /\ curHost = None /\ addr = None /\ res = "none" /\ resGen = 0
  /\ pending = None /\ pcb = None /\ queue = <<>>
  /\ queries = {}
  /\ pc = "loop" /\ frames = 0 /\ sent = None /\ strays = 0

-----------------------------------------------------------------------------
(* Between two polls: AT$TNFS, and the list of hosts of the page.          *)

\* AT$TNFS="host",port, refused when the list refuses it; AT$TNFS=0.
AtTnfs ==
  /\ pc = "loop" /\ host' \in allowed \cup {None}
  /\ UNCHANGED <<allowed, outVars, curHost, dnsVars, linkVars, queries, loopVars, seenVars>>

SaveHosts ==
  /\ pc = "loop" /\ allowed' \in SUBSET Hosts /\ strays' = 0
  /\ UNCHANGED <<host, outVars, curHost, dnsVars, linkVars, queries, loopVars, sent>>

PollBegin ==
  /\ pc = "loop" /\ pc' = "usb"
  /\ UNCHANGED <<cfgVars, outVars, curHost, dnsVars, linkVars, queries, frames, seenVars>>

-----------------------------------------------------------------------------
(* on_frame, for each frame the port has.                                  *)

AcceptsUnseen == host # None /\ wifi                               \* mutant
Accepts == host # None /\ wifi /\ host \in allowed

\* send_dgram: no memory for the link, or for the datagram, or it is sent.
SendDgram(d) ==
  LET peer == IF pcb = None THEN addr ELSE pcb IN
  \/ UNCHANGED <<pcb, seenVars>>
  \/ pcb' = peer /\ UNCHANGED seenVars
  \/ /\ pcb' = peer /\ sent' = [to |-> d, at |-> peer]
     /\ strays' = IF peer \in allowed THEN strays ELSE strays + 1

\* reset_link: the query in progress is of no use any more.
ForgetQuery == res' = "none" /\ resGen' = resGen + 1
QueueKept == UNCHANGED queue                                       \* mutant
ClearQueue == queue' = <<>>

FrameIgnored ==
  /\ ~Accepts
  /\ UNCHANGED <<pc, curHost, dnsVars, linkVars, queries, seenVars>>

FrameSent ==
  /\ Accepts /\ host = curHost /\ res = "ok"
  /\ SendDgram(host)
  /\ UNCHANGED <<pc, curHost, dnsVars, pending, queue, queries>>

\* The address is not known: the datagram takes the place of the one kept.
FrameKept ==
  /\ Accepts /\ host = curHost /\ res # "ok"
  /\ pending' = host /\ pc' = "held"
  /\ UNCHANGED <<curHost, dnsVars, pcb, queue, queries, seenVars>>

\* AT$TNFS has changed.
FrameElsewhere ==
  /\ Accepts /\ host # curHost
  /\ ForgetQuery /\ ClearQueue /\ pcb' = None
  /\ curHost' = host /\ pending' = host /\ pc' = "held"
  /\ UNCHANGED <<addr, queries, seenVars>>

OnFrame ==
  /\ pc = "usb" /\ frames < Frames /\ frames' = frames + 1
  /\ FrameIgnored \/ FrameSent \/ FrameKept \/ FrameElsewhere
  /\ UNCHANGED <<cfgVars, outVars>>

Waiting ==
  /\ pc = "held" /\ res = "pending" /\ pc' = "usb"
  /\ UNCHANGED <<cfgVars, outVars, curHost, dnsVars, linkVars, queries, frames, seenVars>>

\* A new query, even if the answer has come since res was first looked at:
\* answered at once, refused, or begun.
Asked ==
  /\ resGen' = resGen + 1
  /\ \/ addr' = curHost /\ res' = "ok" /\ UNCHANGED queries
     \/ res' = "fail" /\ UNCHANGED <<addr, queries>>
     \/ /\ res' = "pending" /\ UNCHANGED addr
        /\ queries' = queries \cup {[gen |-> resGen', host |-> curHost]}

Ask ==
  /\ pc = "held" /\ res # "pending" /\ pc' = "usb"
  /\ IF curHost \in Literals
       THEN addr' = curHost /\ res' = "ok" /\ UNCHANGED <<resGen, queries>>
       ELSE Asked
  /\ UNCHANGED <<cfgVars, outVars, curHost, linkVars, frames, seenVars>>

UsbDone ==
  /\ pc = "usb" /\ pc' = "send"
  /\ UNCHANGED <<cfgVars, outVars, curHost, dnsVars, linkVars, queries, frames, seenVars>>

-----------------------------------------------------------------------------
(* The end of the poll.                                                    *)

SendPending ==
  /\ pc = "send" /\ pc' = "write"
  /\ IF res = "ok" /\ pending # None
       THEN SendDgram(pending) /\ pending' = None
       ELSE UNCHANGED <<pending, pcb, seenVars>>
  /\ UNCHANGED <<cfgVars, outVars, curHost, dnsVars, queue, queries, frames>>

\* Nobody to read the replies.
PortClosed ==
  /\ pc = "write" /\ ~connected
  /\ ClearQueue /\ pc' = "loop"
  /\ UNCHANGED <<cfgVars, outVars, curHost, dnsVars, pending, pcb, queries, frames, seenVars>>

WriteReply ==
  /\ pc = "write" /\ connected /\ queue # <<>> /\ queue' = Tail(queue)
  /\ UNCHANGED <<cfgVars, outVars, curHost, dnsVars, pending, pcb, queries, loopVars, seenVars>>

\* No reply, or no room in the port for the next one.
WriteDone ==
  /\ pc = "write" /\ connected /\ pc' = "loop"
  /\ UNCHANGED <<cfgVars, outVars, curHost, dnsVars, linkVars, queries, frames, seenVars>>

-----------------------------------------------------------------------------
(* lwIP callbacks, at any moment; the Wi-Fi link and the port.             *)

AnyAnswer(q) == TRUE                                               \* mutant
Current(q) == q.gen = resGen

NothingFound == UNCHANGED res                                      \* mutant
\* The answer to a query is no address.
NotFound == res' = "fail"

OnDnsFound ==
  /\ \E q \in queries :
       /\ queries' = queries \ {q}
       /\ \/ ~Current(q) /\ UNCHANGED <<addr, res>>
          \/ Current(q) /\ addr' = q.host /\ res' = "ok"
          \/ Current(q) /\ NotFound /\ UNCHANGED addr
  /\ UNCHANGED <<cfgVars, outVars, curHost, resGen, linkVars, loopVars, seenVars>>

HasRoom == Len(queue) < QueueSize

\* tnfs_queue_push: a reply without room is dropped.
OnUdp ==
  /\ pcb # None
  /\ HasRoom /\ queue' = Append(queue, pcb)
  /\ UNCHANGED <<cfgVars, outVars, curHost, dnsVars, pending, pcb, queries, loopVars, seenVars>>

WifiChange ==
  /\ wifi' = ~wifi
  /\ UNCHANGED <<cfgVars, connected, curHost, dnsVars, linkVars, queries, loopVars, seenVars>>

\* tud_task, in the main loop, follows DTR.
PortChange ==
  /\ pc = "loop" /\ connected' = ~connected
  /\ UNCHANGED <<cfgVars, wifi, curHost, dnsVars, linkVars, queries, loopVars, seenVars>>

-----------------------------------------------------------------------------
Poll ==
  \/ PollBegin \/ OnFrame \/ Waiting \/ Ask \/ UsbDone
  \/ SendPending \/ PortClosed \/ WriteReply \/ WriteDone

Outside == AtTnfs \/ SaveHosts \/ OnUdp \/ WifiChange \/ PortChange

Next == Poll \/ OnDnsFound \/ Outside

Spec == Init /\ [][Next]_vars

\* The poll never blocks; the port's buffers are refilled and emptied by
\* tud_task only, between two polls, so neither loop goes on for ever. lwIP
\* answers every query, if only to say that no server did.
Fairness ==
  /\ WF_vars(Poll) /\ SF_vars(UsbDone) /\ SF_vars(WriteDone)
  /\ WF_vars(OnDnsFound)

FairSpec == Spec /\ Fairness

-----------------------------------------------------------------------------
(* Properties.                                                             *)

\* A datagram reaches the server AT$TNFS gave when its frame came, whatever
\* answers of older queries come late (on_frame, on_dns_found, link_up).
Addressed == sent # None => sent.at = sent.to

\* The list is asked for each frame, and not again for the one datagram that was kept
\* during the DNS query: that one, and no other, can still leave for a server which
\* the list has come to refuse (on_frame, tnfs_pico_poll).
OneStray == strays <= 1

\* The replies that wait for the port are of the server the program has last
\* spoken to: none of the one before a change of AT$TNFS (reset_link).
FromServer == \A i \in DOMAIN queue : queue[i] = curHost

\* While on_frame waits for an address, a query whose answer it will take is
\* on its way: the relay is never left waiting for nothing.
QuestionOpen == res = "pending" => \E q \in queries : Current(q)

\* A datagram kept during the DNS query leaves, or its server was not found.
KeptLeaves == pending # None ~> (pending = None \/ res = "fail")
=============================================================================
