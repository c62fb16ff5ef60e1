# Neo6502picowifi: a verification development

TLA+ models, TLC runs and TLAPS proofs for the Wi-Fi modem firmware of this
repository: a Raspberry Pi Pico W that talks AT and Hayes commands to a Neo6502
over a UART or USB, and TCP, UDP, TLS, HTTP and TNFS to the network. Paths below
are relative to the repository (`src/` is the firmware).

## 1. The system

One main loop (`src/main.c:150-178`) and interrupts. Each turn of the loop hands
the input of the 6502 program to `at_modem_input` (at most 256 bytes), then runs
`tnfs_pico_poll`, `at_modem_poll` and `net_pico_poll`. Three kinds of code
preempt it: the UART interrupt, which fills the receive ring of the serial port;
the lwIP callbacks, which run in the background interrupt of
`pico_cyw43_arch_lwip_threadsafe_background` everywhere outside
`cyw43_arch_lwip_begin/end`; and the Wi-Fi driver. There is no operating system
and no second thread: *all* concurrency is callback against loop. A command that
takes long (connection, AT+HTTPGET, AT+CWJAP, TNFS) waits inside the loop.

| component | state | operations | hard part |
|---|---|---|---|
| modem link (`at_modem.c`, `net_pico.c`) | mode, HTTP session, `remote_closed`, `link_udp`, ring of received bytes, `pcb`, `pending_pcb`, `upcb` | ATDT, ATA, ATH, ATO, AT+CIPSTART, CIPSEND, CIPCLOSE, AT+HTTPGET/READ/CLOSE, `at_modem_poll`, lwIP callbacks | flags set by callbacks between a test and its use; one ring for streams and datagrams |
| TNFS client (`tnfs_client.c`, AT+N...) | session, sequence number, a slot for one datagram | `transact` under every command, `tnfs_list` | lost, late, doubled replies; retries of what was already done |
| setup access point (`ap_pico.c`, `web_setup.c`) | open or not, form pending, state of the join, time stamps | page, `ap_pico_poll`, AT+APSETUP | forms that come in the middle of the poll; unsigned differences of times |
| DHCP server (`dhcp_server.c`) | table of leases | DISCOVER, REQUEST, RELEASE, DECLINE | an address given twice, a promise not kept, a pool that leaks |
| background join (`net_pico.c:157-234`) | `joined_ssid`, `bg_enabled`, `bg_was_up` | `bg_poll`, `wifi_join`, `net_pico_join_saved` | the old network still up when the new one is asked for |
| receive rings (`at_modem.c:92-145`, `main.c:45-64`, `tnfs_link.c`) | head, tail | push in an interrupt, pop in the loop | wrapping, one byte lost to tell full from empty |
| bytes of the program (`at_modem.c:1225-1340`, `main.c`) | line, payload, `+` held back, time of the last byte | command lines, payloads, data, `+++` | silences measured when a byte is read, on a counter that wraps; the LF of CR LF |
| host filter and log (`at_modem.c:174-236, 825-836`) | list, enforced or not | checks on each way out | a path that forgets to ask; redirections; a list that changes after the check |
| TNFS relay (`tnfs_link.c`, `tnfs_pico.c`) | frame buffer, UDP link, generation of the DNS query | frames of the USB port | late DNS answers |
| HTTP parser (`http_parse.c`) | position in header or chunk | one byte at a time | chunk sizes, ends of lines |
| configuration (`net_pico.c:108-121`, `at_modem_init`) | one flash sector | save, load, migration | power lost between erasing and programming |
| the rest: SNTP, ping, scan, captive DNS, TLS roots and dates, reset cause, USB descriptors, `pc/pcmodem.c` | little or none | request and answer | see `PROJECT.json`, "components" |

How they meet: the callbacks of `net_pico.c` push bytes into the ring of
`at_modem.c` and set `remote_closed`; `at_modem.c` calls `net_pico.c` through
`struct at_modem_ops`; the TNFS client is called by `at_modem.c` and calls back to
`nfs_xfer_op`; the page of the access point writes a form that `ap_pico_poll` saves
into the same configuration as AT+CWJAP, then drives the background join.

What makes each correct: the program is told the truth about its link (it opens
once, what was received arrives, in the right framing, and then its end, once);
a TNFS request is carried out once and answered by its own reply (a MOUNT, which
the server cannot know again, perhaps twice); the page's last
form is the one applied and its verdict is about the network asked for; two
clients never share an address; what is between two silences is an escape and
everything else is data; the body of an HTTP answer is read without its framing and
to its end; a setting that was saved is there after a power loss, and one that was
cut short never opens the host filter.

## 2. Modules

| module | what it is |
|---|---|
| `ModemLink` | the link: main loop as a program counter, callbacks as steps of their own |
| `ModemLinkProofs` | its theorems |
| `TnfsClient` | the TNFS client with its slot, the network and a server |
| `RemoteCall` | what the TNFS client promises of each request; `TnfsClient` implements it |
| `TnfsClientProofs` | its theorems |
| `SetupAp` | the access point's poll, its page, the background join, the clock |
| `SetupApProofs` | its theorems |
| `DhcpServer` | the leases and what the clients were promised |
| `DhcpServerProofs` | its theorems |
| `TnfsRelay` | the second USB port: frames, DNS query, UDP link, queue of replies |
| `TnfsRelayProofs` | its theorems |
| `HttpSession` | AT+HTTPGET, AT+HTTPREAD, AT+HTTPCLOSE and `http_parse.c`, down to the byte |
| `HttpSessionProofs` | its theorems |
| `RxRing` | a ring with a writer in an interrupt and a reader in the loop |
| `BoundedQueue` | what a ring promises |
| `SerialInput` | the UART ring and `at_modem_input`; extends `RxRing` |
| `SerialInputProofs` | its theorems and the ring's: `RxRing` implements `BoundedQueue` |
| `Settings` | `struct at_config` in RAM and in flash, the commands and forms that change it, the host filter |
| `SettingsProofs` | its theorems |
| `MC...` | the small instances of each for TLC: profiles of use, symmetry, views |

### ModemLink

`pc` is where the main loop is; a step is the code between two accesses to
something a callback may change. So AT+CIPSTART is `Dial` (first test of
`tcp_connected`), `CheckPassed` (second test, and what is reset), `TcpConnect`,
`ConnectDone`, `CipstartDone` (the flags, after the connection is up); AT+HTTPREAD is
`HttpReadSegment` / `HttpReadEmpty` (the ring is looked at) and only then
`HttpReadWait` / `HttpReadStop` (`remote_closed` is looked at). `at_modem_poll` is
`PollBegin`, `PollDeliver`, `PollDataEnd`, `PollClose` (`remote_closed` read),
`PollNotice` (ring read), `PollRing`; `net_pico_poll` is `NetPoll`. The callbacks
`OnConnected`, `OnRecv`, `OnRecvClosed`, `OnErr`, `OnAccept`, `OnUdpRecv` are enabled
whatever `pc` is.

Data: a segment is the tag of the connection that sent it, the ring a sequence of
tags. `conn` is what lwIP knows of each connection, `pcb`, `pendingPcb` and `upcb`
what the firmware points to. `told`, `flagFrom`, `dialed`, `httpConn` and `dropped`
are history: no guard of the code's actions reads them.

A length in the HTTP header, a chunk, a redirection, an answer that is not HTTP are
choices: any parser could give them. A wait may be cut short at any time, which
covers every timeout.

### TnfsClient and RemoteCall

`transact` is `Begin` (sequence number), `Send` (the slot is emptied, 0 to 2 copies
reach the server), `Listen` (a late reply is dropped, 16 times at most), `NoAnswer`
(attempt by attempt, then a timeout), `Again` (EAGAIN, 8 times at most) and `Finish`.
What the callers do with the result is `Caller` and `NextRequest`: AT+NMOUNT leaves
the old session first and begins again with a fresh client; AT+NDIR opens, reads,
closes, and closes whatever the reading gave. One other command of one request stands
for the rest (`OP`). `OnNfsUdp` is the interrupt that overwrites the slot.

The server and the network are external, modelled from what `tnfs_client.c` relies on:
the server keeps its last answer for each session and sends it again to a repeated
sequence number. A MOUNT has no session yet (`conn` is 0), so the server runs it and opens a
session each time it arrives. Replies are lost, late, doubled and overtake each other;
requests are lost, late and doubled, but arrive in the order they were sent: a server that
gets an old request after a newer one has no last answer for it and would run it again,
whatever the client does. Every datagram carries the number of its request (`id`), which only
the properties read. `seq` counts the sequence numbers since `tnfs_init`; `Byte` is what
is sent of it, and all that the client and the server compare.

`RemoteCall` is three actions: issue, execute (once at most, unless the request is one of
those that cannot be known again), return (the outcome names the request, "done" only if it
was executed, "refused" only if it was not). `id` maps to `issued`, `pc # "idle"` to `open`,
`mounts` (the MOUNT requests) to `repeatable`; `runs` and `outcome` are the same.

### SetupAp

`pc` follows `net_pico_poll`: `BgPoll`, `AutoOpen`, `TakeForm` / `NoForm`, `LeaveDone`
(the wait of `net_pico_join_saved`), `PollJoin` and `WriteVerdict` (what `poll_join`
saw, then what it writes), `ReadNow` and `EndOfPoll` (`now`, then the comparisons).
`HttpGet` and `SubmitForm` are `on_http_recv`, possible between any two of them while
the access point is open. A time stamp is kept as its age; `lag` is the age of the
variable `now`, and `Elapsed` the unsigned difference of the code. `Reset` keeps only
what flash keeps.

The driver is external: an association ends at any time, and `cyw43_wifi_leave` ends it
within the 2 s the code waits. A refused password is supposed forgotten by then.

### DhcpServer

One action per message that changes the table, with `lease_for` split into the client's
own lease (`LeasesOf`, by MAC, expired or not) and the first free one. `offered` and
`leased` are what each client was told last and until when, which is what the promises
are about; a client asks for what it was promised, or for anything once it has nothing.

### TnfsRelay

`pc` is where `tnfs_pico_poll` is. `on_frame` is `OnFrame` up to the datagram being kept
or sent (`FrameIgnored`, `FrameSent`, `FrameKept`, `FrameElsewhere` with `reset_link`),
then `Waiting` or `Ask`, since the second test of `res` may see an answer the first did
not; `SendPending`, `PortClosed`, `WriteReply` and `WriteDone` are the end of the poll.
What the code does between `cyw43_arch_lwip_begin` and `_end` is one step.
`OnDnsFound` and `OnUdp` are the callbacks; `AtTnfs` and `SaveHosts` change the
configuration between two polls, as does DTR (`PortChange`), which TinyUSB follows in
`tud_task` only. `queries` is what lwIP has not answered, each with the `res_gen` it was
given. A datagram is the host it is for, a reply the host it is from; `sent` is history.

### HttpSession

`phase` is where the main loop is: `ask` (the list is asked, the connection made, the
request sent), `header` (line by line), `judge` (`http_resp_parse`, then a redirection or
a session), `read` and `empty` (AT+HTTPREAD found the ring empty; what comes after that is
not seen before it has looked at `remote_closed`). A header is a sequence of lines of the
kinds the parser tells apart, a body a sequence of bytes of the kinds the decoder tells
apart: hexadecimal digits, `;`, CR, LF. The code has two notions of a line: `http_get` ends
one at a LF (`at_modem.c:586`), `http_resp_parse` at CR LF (`http_parse.c:93`, 100). So a line
of the model has a `crlf`, and `AsParsed` is what the parser makes of the lines kept: one that
ends with a LF alone is `Joined` to the next, which is not read by itself. `Feed` is `http_chunked_feed`, state by state, with
a size of 32 bits. `hdr` is what `http_get` keeps of a header, `seen` all of it; `wire` is
every byte of the body, `read` every byte the program got. `Decoded` says what `wire`
means from the grammar of RFC 9112, by lines, and shares nothing with `Feed`. What is kept
may fill the buffer (`HeaderMax`: four lines are as long as they may be) or not, as lines
have any length.

`ModemLink` has the same commands with an opaque server and every interleaving of the
link; `HttpSession` has one connection and an articulate server.

### RxRing, BoundedQueue and SerialInput

`RxRing` has the slots and indices of `uart_ring` (`PushByte`) and `rx_ring`
(`PushBlock`: a segment or a datagram with its length, whole or not at all; `Flush`).
Its `Contents` is the queue of `BoundedQueue`.

`SerialInput` puts the UART ring before `at_modem_input`. `pc` follows the loop of
`main`: `DrainRead` reads a slot and `DrainMove` moves `tail` (the interrupt may come
between them), `Input` is one byte of `at_modem_input`; `at_modem_poll` is `Escape` or
`GiveUp` when a silence is over, `NoCarrier`, then `AutoAnswer` or nothing (`PollOther`).
`Sent` is `online_flush`: the link takes what it is given, or its beginning, or nothing when it
is down, and the batch is forgotten in each case. A batch of the code has 256 bytes at most;
here each byte is handed over when it is read. `elapsed` is
`millis - last_rx_ms` modulo `Wrap`; a `Tick` is refused while a byte has waited `Lag` or
the loop has not polled for `Lag`, which is how fast the loop is supposed to be. `recent`,
`waited`, `quiet`, `owed`, `raw` are history: the bytes not yet forgotten with the silence
before each, how long each that is not read has waited, the silence since, what is yet to be
handed to the link, and what came after the command line of a payload.

### Settings

`cfg` is `m->cfg`; `flash` is the record written last and how many of its pages were
programmed. `struct at_config` has 900 bytes, so `config_flash_save` programs four pages of
256: the first ends in `ap_pass`, the second has the start of the list, which is at 380..899,
65 bytes an entry. `EndsIn` says for each place of the list and each entry in which page its
text ends: entries 0 and 1 are whole in the second page, 3 and 4 in the third, 6 and 7 in the
fourth, and 2 and 5 run over the end of a page, before which a short text may end. `SaveTorn` and `SaveWhole` are `config_flash_save`, with power lost between
two pages or not; `AsRead` is what the unprogrammed pages read as (erased bytes), and
`Loaded` is `at_modem_init`: defaults, migration of the two older formats, validation of
each field. A field of the model is one of the code, or one that stands for others that
are read and written alike (see the head of the module). `CwjapDef`, `SetIpDef`,
`SetIpCur`, `Tnfs`, `CipServer`, `SntpCfg`... are the commands with their guards
(`network_locked`, `check_host`), `HostsForm` and `WifiForm` what `ap_pico_poll` does with
the two forms. `net` and `bg` are the link and
`bg_enabled`: `"trying"` is an association that goes on after `wifi_join` has given up;
`joined` is the network the driver was told. `LinkUp` is the driver's link and the poll that
sees it in one step (`bg_was_up`). The ways out that ask the filter for each host are in
`HttpSession` and `TnfsRelay`.

## 3. Runs

`PROJECT.json` has each run's question in a sentence. All passing runs end in less than
5 minutes with two workers.

| run | instance | checked |
|---|---|---|
| `link_esp` | 2 TCP connections and UDP, 2 segments each, ring of 2; AT+CIPSTART, CIPSEND, CIPCLOSE | `SingleLink`, `FramingMatches`, `NoticeIsTrue`, `DataDrains` |
| `link_dialer` | 2 connections, 2 segments, ring of 2; ATDT, ATO, ATH, `+++` | `NothingLost`, `CloseReported` |
| `link_server` | 3 callers, 1 segment, S0 = 2; ATA, ATO, ATH, `+++` | `UnansweredSilent`, `BusyRefusesCalls` |
| `link_http` | 2 connections, 3 segments, ring of 2; AT+HTTPGET (redirected or not), HTTPREAD, HTTPCLOSE | `TypeOK`, `BodyFromSession` |
| `tnfs` | 4 requests, 2 attempts, 1 EAGAIN, 2 sessions, 2 requests and 1 reply on the way | `Implements`, `ListClosed`, `CallReturns` |
| `setup_ap` | 2 networks, 2 ticks of idleness, 1 of success, 1 of join, `now` up to 1 tick old | `OkIsTrue`, `FormSaved`, `JoinEnds`, `IdleCloses` |
| `relay` | 2 names and an address, 3 frames, queue of 2 | `Addressed`, `OneStray`, `FromServer`, `KeptLeaves` |
| `dhcp` | 3 clients, 2 addresses, leases of 3 ticks, offers of 1, 5 ticks | `AddressUnique`, `NoneWithheld`, `PromiseKept` |
| `http` | a host allowed and one not, 1 redirection, headers of 3 lines, room for 2 of any length, chunked bodies of 12 bytes with 2 odd ones, others of 3 | `HeaderMeant`, `BodyDecoded`, `EndOfBody`, `AllowedHosts`, `NothingLeft`, `Returns` |
| `serial` | ring of 3, bytes `+`, CR, LF, guard of 2 ticks, counter of 6, loop late by 1, blocks of 1, payloads of 2 | `RingInOrder`, `OnlineBytes`, `PayloadExact`, `EscapeHeard`, `EscapeEarned` |
| `settings` | a network, 2 names of which one pattern covers one, 3 places in the list, one within a page and two across the end of one, records that differ from the defaults in 3 fields | `IncomingRefused`, `ClockFollows`, `Survives`, `TornStaysShut`, `FilterHolds` |
| `v_cipstart_close` | 1 connection, AT+CIPSTART | `CloseReported`, violated (section 5) |

The other modules' `TypeOK` is not run: `TnfsRelay`'s, `Settings`'s, `RxRing`'s,
`SerialInput`'s, `SetupAp`'s and `TnfsClient`'s are proved; `HttpSession`'s documents the
state.

**Why these bounds.** *Link*: a second connection is enough for the state one leaves to
the next, a third caller for one waiting, one connected and one refused; a ring of 2
fills while a peer still has data, so `on_recv` refuses and delivers again; 3 segments
let a header, a body and its rest be apart. The profiles are how the firmware is used
(ESP clients such as the Neo6502 tools, terminals, BBS servers, HTTP); what goes wrong
when they are mixed is in section 6. *TNFS*: `Stales` is the code's 16, so a server
cannot exhaust it here; one retry and one EAGAIN suffice for a reply to the first try
to arrive during the second, and four requests for AT+NDIR after AT+NMOUNT. Two replies
on the way would only add pairs the slot of one datagram cannot hold. `Lifetime` is
how many requests late a datagram may be: the assumption `TnfsAssumption` says the byte
`seq` does not come round within it (here a byte of 4 values); four requests are too few for
it to come round while the server hears nothing. *Access point*: the three durations are in their
real order of use, not of size; what matters is that each may pass before, between and
after any step. *DHCP*: one client more than addresses. *Relay*: three frames, so that a query
begun for one name is still out when a second name is asked for, answered or given up, and
the first asked for again; a queue of 2 fills. *HTTP*: `SizeMax = 0` makes the size of a
chunk overflow at its second digit, where the code's 0x0fffffff takes eight; 12 bytes are two
chunks, the last one and a trailer, or one chunk with an extension; a header keeps what it
can hold, and `HeaderMeant` is proved for any. *Serial*: a ring of 3 holds 2 bytes, so it
fills, and wraps, at once; `Guard` is the least that is longer than `Lag`, and `Wrap` the
least in which a silence may be longer than the guard and two turns of the loop without
being endless. The view `Seen` forgets where in the ring the bytes lie, which `RingIsQueue`
justifies, and the variables of a mode the modem is not in. *Settings*: two names of which the
list allows one tell an open filter from a shut one; of three places in the list one is whole in the second page, and two run over the ends of the
second and of the third, as the third and the sixth of the code do.

Bounds named in the models: `Conns`, `Segments`, `RxSize`; `Calls`, `Sessions`,
`Outgoing`, `Incoming`, `Lifetime`; `MaxLag`; `MaxTime`; `QueueSize`, `Frames`; `LinesMax`,
`ChunkedMax`, `OddMax`, `PlainMax`; `ChangedMax`. `CHECK_DEADLOCK FALSE` is used
where the bound on `Calls` stops the program (TNFS) and in `SetupAp` and `TnfsRelay`,
where the poll never stops and it only spares work.

**Fairness.** The main loop never blocks: every wait has a timeout and the loop has no
other exit, so `MainLoop`, `Client` and `Loop` are weakly fair. `uart_drain` gives
`at_modem_input` 256 bytes at most, so a program that floods the modem with commands
cannot keep `at_modem_poll` or `bg_poll` away: `PollBegin` and `BgPoll` are strongly
fair. A wait that finds its ring now empty, now not, is still limited by its timeout:
`HttpHeaderFailed` and `HttpReadStop` are strongly fair. In `SetupAp` time passes and an
association that was left ends. In `TnfsRelay` the port's buffers are refilled and
emptied by `tud_task`, outside the poll, so its two loops end (`UsbDone`, `WriteDone` are
strongly fair), and lwIP answers each query, with no address after its own retries if no
server did. In `HttpSession` the loop runs, and both waits have a timeout of ten seconds
(`HeaderStops` weakly, `ReadShort` strongly fair, as the ring may be empty at one look and
not at the next). Nothing is assumed of the program, the peers, the user,
the server or the network.

Two properties leave out a modem in AT+CIPSEND (`CloseReported`, `DataDrains`): the code
waits there for the announced bytes without a timeout. `CallReturns` counts the whole
of a request; `tnfs_list` makes as many as the server says there is more to read.

`OkIsTrue` is about forms the poll has taken, with `CwjapWhileJoining = FALSE`: the
6502 program does not use AT+CWJAP while the page is joining a network.

## 4. Proofs

`tlapm` checks every theorem from nothing, for all values of the constants.

**Link** (`ModemLinkProofs`, assumption `LinkAssumption`).
`TypeCorrect`: `TypeOK` is inductive alone; one lemma per group of steps.
`OneLink`, with `Incoming = FALSE`: `SingleLink` is not inductive, since a step cannot
know from it that no call is waiting or that the connection that connects is the one
`pcb` points to. `LinkInv` adds: no pending call, *exactly* `pcb` is live, and no
`resolve` begins with a link open; each closing step is an instance of `LinkClosed`,
each step that touches no connection of `LinkUntouched`.
`FramingCorrect`, with `Incoming = FALSE` and without AT+HTTPGET: `FramingInv` ties
`link_udp`, `upcb` and the two places between them where they disagree (after the link
opens, before `link_udp` is set, and the reverse when it closes) to what the ring may
hold. `CallUnheard`, without hypotheses: `SilentInv` says a connection not yet made has
no byte in the ring, so a call starts silent, and `on_recv` keeps it so.

`OneCaller` (`BusyRefusesCalls`), of a program that opens no link itself: a call is refused by
one look at `pcb`, long before it is taken; `AnsweringInv` says the main loop is never where a
`pcb` is being made. `TrueNotice` (`NoticeIsTrue`), without incoming calls, ATDT and
AT+HTTPGET: `NoticeInv` says when `remote_closed` may be set with a link up (between an opening
command and the line that clears it) and that the program knows of a link once the command that
opens it has ended. `DataBeforeNotice` (`NothingLost`), without UDP and AT+HTTPGET but with
calls: no other command empties the ring (`KeptInv`). `OwnBody` (`BodyFromSession`), where only
AT+HTTPGET opens links: the ring is emptied long before the session begins, and `BodyInv` says,
step by step of the command, that only the connection being made can fill it meanwhile, however
many redirections it follows. Each hypothesis leaves out a use for which section 6 has a
counterexample, or that belongs to another theorem.

**TNFS client** (`TnfsClientProofs`, assumptions `TnfsAssumption`, `NoneAssumption`).
`TnfsTypeCorrect` is the type, with which request the client is at (`ClientInv`).
`CallsImplemented` is the refinement: `TnfsClient` implements `RemoteCall`. That no request but a MOUNT is
run twice and that no answer is taken for another's are one question, of where the sequence
numbers are, and neither can be shown without the other: `NumbersInv` says of each request on
the way, of each reply, and of the server's last answer in each session how far its number is
from the present one. A number is used by a request or by an EAGAIN, so two datagrams alive
are less than `(Lifetime + 1) * (Agains + 1)` numbers apart (`Spread`, `Room`), and equal bytes
are equal numbers (`SameByte`). `Ahead` tells the requests the server has not come to, which it
has not run (`FirstRun`), from those it will take for repetitions. Requests arrive in order, as said
above; besides, it holds under three hypotheses, each a limit of the code:
- at most 16 datagrams are on the way (`Outgoing + Incoming <= Stales`): after 16 late answers
  `transact` no longer looks at the session (`tnfs_client.c:80-84`); `StaleInv` counts them;
- AT+NMOUNT is not repeated while datagrams of the last are alive (`RetryMount = FALSE`,
  section 6), as in the run;
- `Heard`: the server has answered within the last 254 commands of the session. It keeps its
  last answer however old, so that after 255 commands of which it heard none the next one has
  the number of that answer, and is answered with it. Nothing less will do: no bound on the
  age of datagrams bounds a silence.

`DirectoryClosed` (`ListClosed`), under the same hypotheses, is about one more pair of things,
what the server said of a CLOSEDIR and what it has open since. `ClosedInv` says that the
directory in hand was opened by a request that has been run (`ListingOK`), that the copies of
the request on the way name the same directory (`WayOK`) and that one the server said it closed
is not open (`DoneOK`); a handle is the request that opened it, which is not run again, so
nothing opens it a second time. That the answer taken is the server's last, and not an earlier
one, is what `NumbersInv` is needed for.

**DHCP** (`DhcpServerProofs`, assumption `DhcpAssumption`, which has
`OfferTime <= LeaseTime`; in the code an offer lasts 60 s and a lease 3600 s).
`DhcpInv` is the type, one lease per MAC, and for each promise not yet expired: the
lease has that MAC and lasts at least as long. `Kept` (`PromiseKept`) and `Unique`
(`AddressUnique`) follow: two clients cannot both be on one lease.

**TNFS relay** (`TnfsRelayProofs`, assumption `RelayAssumption`). `Addressed` is not
inductive: what is sent depends on the address found, the peer of the link and the
datagram kept, which came at different times. `RelayInv` says all three are of `curHost`
(`OneServer`), that no query is newer than `resGen` and only one with that number is
listened to (`QueriesDated`). `WellAddressed`, `RepliesFromServer` and `NeverLeftWaiting`
are `Addressed`, `FromServer` and `QuestionOpen`. `StraysOnce` is `OneStray`: as
long as the datagram kept is for a server the list has come to refuse, none has left for it
(`KeptFirst`). `resGen` is a natural number: the code's
comes back to 0 after 2^32 queries, of which lwIP keeps four at most.

**HTTP** (`HttpSessionProofs`, no assumption but those of the module). `HeaderMeant`
compares two meanings, which are made of the last line of each name. Its hypothesis is that
the lines `http_get` keeps end with CR LF; then what the parser reads is what was kept
(`AsParsed`), whatever ends the others. `HeaderInv` says, line by line, that the kept header and the whole one have the same first line, the same last
line of each name that matters, and are honest about the length together. `LastOfAppend` is
the lemma: a line added is the last of its name and leaves the others alone. `LinkInv` ties
the link to the phase and to the host; `AllowedHosts` and `NothingLeft` follow. A host of a
redirection is one by `TargetsAreHosts`, which needs `HeaderInv`.

`BodyExact` (`BodyDecoded`) and `EndKnown` (`EndOfBody`), for bodies of any length: `BodyInv`.
The decoder sees one byte at a time; `Decoded` reads all of them from the grammar, with a
function over the positions (`From`) and one over the digits of a size (`Value`). What such a
function is at all, that it exists and what it returns, is an induction over data; it is done
without an induction theorem, by the least counterexample (`Least`, from `WFMin`). `Decoding`
then says where in the grammar each state of the decoder stands (`InSize`, `InData`,
`InTrailer`, `Past`), with one lemma per state for the next byte; what is before the chunk in
hand does not change with what follows it (`Before`). The two properties are not inductive: they
say neither what the state of the decoder stands for, nor, for a body of known length, how much
is to come (`LengthInv`).

**Rings** (`SerialInputProofs`, assumption: a size of at least 2). `RingIsQueue`: each step of
`RxRing` is one of `BoundedQueue` on `Contents`, or changes nothing; `%` is expanded in one
lemma, and each operation is compared slot by slot.

**Serial input** (`SerialInputProofs`, assumptions: those on the ring, a positive block and
payload, a guard time and a turn of the loop that together are less than a turn of the counter,
and two turns of the loop that are not more; in the code 5.1 s, some seconds and 49.7 days).
`Known` is the type,
`RingInOrder` and where the loop may be; the slots come in through the lemmas on the
ring only. Each step is shown to move the history by one byte or by none (`Moved`),
so that what waits in the block and in the ring stays what was not read (`InOrder`). On that,
`DataWhole` (`OnlineBytes`: what is held back is exactly the `+` that are owed; as all of the
rest is handed over at once, any beginning of it the link takes is a beginning of what was
given) and
`PayloadWhole` (`PayloadExact`, strengthened by `PayloadKept`: before the first byte of a
payload `skip_lf` says how the command line ended, and after it is off).

`SilencesHeard` and `SilencesEarned` (`EscapeHeard`, `EscapeEarned`) compare what a silence is,
between two arrivals, with what the code sees of it, between two readings. `GapsOK` says how long
each byte has waited: as long as the one behind it and the silence between them. From that
`Since` is the silence that counts, and `SilenceOK` bounds it by `elapsed`, with one turn of the
loop on one side only, unless it is too long for the counter; while `+` are held it cannot be, for
each poll gives them back after the guard time. `EarnedOK` says that the `+` held were read last,
after a silence and close together; `AskedOK` that a `+` after a silence is the first of those
held, and each that follows it soon is held too, until a silence shows there are too few. Neither
property is inductive: both look at the end of a sequence of which they say nothing before.

**Setup access point** (`SetupApProofs`, assumption `SetupApAssumption`). `OkTrue` is
`OkIsTrue`, for any networks and durations and under the hypothesis of the runs,
`CwjapWhileJoining = FALSE`. `OnForm` is the invariant: once a form is taken, what is saved
is its network, and when the old association is over the driver is told of no other. The
`joined` of `net_pico.c` is not needed for it: what makes the page right is that the poll
waits for the old link to end (`LinkLeft`) before `bg_poll` may connect again.

**Settings** (`SettingsProofs`, assumption `SettingsAssumption`: what is not a name, a
password or a pattern is not one). First the load alone: `LoadedSound` (any record gives a
sound one), `LoadedWhole` (a whole one comes back), `LoadedShut` (one cut short after any page, wherever the entries
end, allows no more hosts). Then `SettingsInv`: neither `IncomingRefused` nor `ClockFollows` is inductive,
as the form looks at `listen` and not at the socket, and a link that comes up late is not
looked after; it says the socket is open only if `listen` is set and the filter off, that
an association that goes on alone is never a background one, and that a whole record in
flash is the one in RAM but for the address, which `_CUR` commands change (`SavedWhole`).

**DHCP, continued.** `AllUsable` (`NoneWithheld`): the strengthening is `Held`, a lease runs
out exactly when a promise on it does, and `OffersShort`, without which a new offer would
hide the promise that holds the address longer.

**Only model-checked:** all liveness, which is beyond the prover (`DataDrains`,
`CloseReported`, `CallReturns`, `FormSaved`, `JoinEnds`, `IdleCloses`, `KeptLeaves`,
`Returns`); the properties of the link outside the hypotheses above.

## 5. Counterexample

One run is expected to fail: what the manual says, and the code does not.

| run | what happens |
|---|---|
| `v_cipstart_close` | a server that closes at once (`daytime`): the FIN comes between the end of `tcp_connect` and `remote_closed = false` (`at_modem.c:1034`), and CLOSED is never sent |

## 6. Other places where the models and the code made us look twice

Read from the code while modelling and left out of the passing profiles; no run states
them.

*Link*

- AT+HTTPREAD sees the ring empty, the last segment and the FIN arrive, then
  `remote_closed` is read: the end is announced with bytes unread (`at_modem.c:636`).
- A caller resets before ATA: `on_err` clears `pcb`, not `pending_pcb`
  (`net_pico.c:591`), and ATA makes a released connection the link.
- `ring_count` of an abandoned call is kept: the next is answered after fewer rings
  (`at_modem.c:1371`).
- ATDT after an HTTP session that its server ended: `remote_closed` is still set, and
  NO CARRIER is said of the new connection (`at_modem.c:371`; AT+CIPSTART clears it).
- AT+HTTPCLOSE leaves the unread body in the ring; it comes out as `+IPD` (`at_modem.c:1098`).
- ATO or ATA with an HTTP session active goes online, where nothing is delivered
  (`at_modem.c:399`, 1346).
- A call that waits while AT+CIPSTART opens a UDP link is answered automatically and
  becomes `pcb` beside `upcb` (`at_modem.c:1373`); ATA with a TCP link up replaces it
  without closing it (`net_pico.c:807`). Hence `Incoming = FALSE` for `SingleLink`.
- A caller that hangs up before ATA is announced and its end never is (`net_pico.c:807`).

*Access point, Wi-Fi, TNFS*

- `poll_join` may judge a form submitted after the test of `form_pending` by the time and
  the link of the one before (`ap_pico.c:356-371`).
- `now` is read just before `last_http_ms` is set by a request: the unsigned difference
  is near 2^32 and the access point closes under its user (`ap_pico.c:404-406`).
- A form submitted within 15 s of a success: `ok_ms` is kept and the access point closes
  during the new join (`ap_pico.c:405`), although "the page says so and stays available"
  (`src/README.en.md:216`).
- `ap_close` keeps `form_pending`: the form is applied at the next opening.
- After a refused AT+CWJAP the background join stays off until something restarts it.
- `resolve()` has no generation number: it gives up after 10 s, and the late answer to its
  query sets `dns_result` and `dns_done` of the next one (`net_pico.c:354-376`).
- The list is asked when a frame comes. The datagram kept during the DNS query is sent when the
  answer is there (`tnfs_pico.c:141`), also to a server the list has come to refuse meanwhile:
  that one datagram (`OneStray`), not the next.
- The relay sends a frame that finds the address known before the one kept during the
  query (`tnfs_pico.c:113`, 141), and a frame cut short by the closing of the port stays in
  `rx`: the next opening's first bytes complete it (`tnfs_pico.c:145` clears `q` only).
- The comment of `transact` says a UMOUNT reply without status counts as 0; the code
  returns `TNFS_ERR_PROTO` (`tnfs_client.c:68`, 86).
- A MOUNT sent again, or doubled on the way, has no session the server could know it by
  (`tnfs_client.c:76`, 26: `conn` is 0): the server may open two, of which the client leaves
  one behind. `RemoteCall` exempts the MOUNT requests (`repeatable`); no other may run twice.
- AT+NMOUNT times out and is repeated: `tnfs_init` starts the sequence over, so the late
  reply to the first is taken for the second (`tnfs_client.c:26`).
- After 16 late answers to one request the session of an answer is not looked at: one of the
  session before, with the same number and command, is taken (`tnfs_client.c:80-84`).
- A server not heard of for 255 commands answers the next one with its last answer
  (`tnfs_client.c:72`: the number is a byte).
- `tnfs_list` reads as long as the server says there is more (`tnfs_client.c:263`).

*HTTP*

- A chunk size without digits is 0, and so the last chunk (`http_parse.c:144`); a value of
  more than 23 characters is cut, a list of codings before its last word.
- `http_get` ends a line at a LF (`at_modem.c:586`), `http_resp_parse` at CR LF
  (`http_parse.c:93`, 100). A kept line that ends with a LF alone takes in the kept line after
  it, which is not read by itself: so the status line loses that line, a joined Content-Length
  makes the answer malformed, and a joined Location is not followed, unless it has a fragment,
  which cuts off what was joined. A kept line with no CR LF after it is not read at all. RFC 9112
  lets a receiver take a LF alone for the end of a line.
  `HeaderMeant` is about headers whose kept lines end with CR LF, the others and the blank one
  as they please. The model leaves out a coding that goes on into a line ending in "chunked".
- A header line of one character counts as the blank line.
- The ten seconds of a wait are looked at only when the ring is empty (`at_modem.c:598-599`,
  637): a server that sends a header, a chunk extension or a trailer without end, faster than
  it is read, keeps the loop of `http_get` or `http_read` for as long. `LinesMax`, `OddMax` and
  `ChunkedMax` end both in the model: `Returns` is about a server that stops or is slower.
- An answer without body (304) that names a chunked coding waits for chunks.

*Bytes of the program*

- `online_flush` empties its batch whether the link was up or not, and whatever `tcp_send`
  returned (`at_modem.c:1227`; it fails or gives up part way, `net_pico.c:732-754`): the rest is
  lost, and the program is not told. `OnlineBytes` says that each byte is handed over once, and
  that what leaves is in order. AT+CIPSEND says SEND FAIL, not how much has left.
- Silences are measured between readings, not arrivals: `Earned` and `Asked` say what that
  costs, `Lag` on each side. After 49.7 days of silence, modulo that, `+++` needs a longer one.
- The LF after the CR of ATDT is absorbed without counting as the last byte: a silence
  before the first `+` may include it.

*Settings*

- What `_CUR` commands and ATE set in RAM only is saved by the next command that saves
  anything (`at_modem.c:944-969`); ATE0 alone is never saved, though "la configuration est
  déjà enregistrée à chaque commande" (`src/README.md:76`, `at_modem.c:451`).
- Power lost between the erasure and the first page makes the modem new, filter included;
  later, the filter is on with an empty list and a long password of the access point is
  the default one again (`at_modem.c:268-279`). `TornStaysShut` is about the second case.
- AT+RESTORE clears the filter too; an SNTP server set before the filter is kept, looked up and
  asked without a look at the list (`net_pico.c:125-135`).
- A link that comes up after AT+CWJAP has given up gets neither address nor SNTP server.

## 7. Plan

Done: the nine components above. What is left, in this order:

1. `Resolve`: `resolve()` and its late answers, for the link; a guard like the relay's
   `res_gen` would make it a property that holds.
2. The connection log and its page; the parsing of the page's requests (`web_setup.c`).
3. Proofs: every safety property of the runs has its theorem. `SingleLink` with calls needs the
   code to change first.

## 8. Not modelled

Certificates and TLS (mbedTLS), the text of commands, queries and answers, the connection
log, the requests of the setup page but for its two forms, SNTP's own protocol, ping, scan,
captive DNS, the cause of the reset, USB descriptors, the LED and the watchdog (no model has
durations inside a step), and the PC build, whose single thread has none of these
interleavings.
