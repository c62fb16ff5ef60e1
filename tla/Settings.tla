------------------------------ MODULE Settings ------------------------------
(***************************************************************************)
(* The settings of the modem, struct at_config: the copy in RAM, the one   *)
(* in flash, and the host filter they hold. A command that keeps its       *)
(* setting erases the sector and writes it again page by page: when power  *)
(* is lost in between, the next start reads a record whose last pages are  *)
(* erased, and at_modem_init makes the best of it.                         *)
(*                                                                         *)
(* A page is written whole or not at all. Settings that are read and       *)
(* written alike are one field here: ip stands for the address, its DHCP   *)
(* flag and the DNS server. The echo, which ATE changes in RAM only, would *)
(* be one more. A host name is the sequence of its labels.                 *)
(***************************************************************************)
EXTENDS Integers, FiniteSets, Sequences, SequencesExt

CONSTANTS
  Networks, None,    \* names of Wi-Fi networks; None is no name
  Pool, Names,       \* the SNTP server of a new modem; host names
  Garbage,           \* the host name made of erased bytes
  Short, Long,       \* passwords of the access point that end in the first page, or not
  Default, Invalid,  \* AT_AP_PASS_DEFAULT, which is long; what is no password
  Patterns,          \* the entries of the list, as [any : BOOLEAN, name : Names]
  Free, Bad,         \* no entry, and one that at_modem_host_pattern_valid refuses
  HostsMax,          \* AT_HOSTS_MAX
  EndsIn,            \* the page of the record that holds the last byte of an entry at a place
  ChangedMax         \* bound: settings that differ from those of a new modem

ASSUME SettingsAssumption ==
  /\ Pool \in Names /\ Garbage \notin Names /\ None \notin Names /\ None \notin Networks
  /\ Default \in Long /\ Short \intersect Long = {} /\ Invalid \notin Short \union Long
  /\ Free \notin Patterns /\ Bad \notin Patterns /\ Free # Bad
  /\ HostsMax \in Nat \ {0} /\ ChangedMax \in Nat
  /\ EndsIn \in [1..HostsMax -> [Patterns \union {Free} -> 2..4]]

VARIABLES
  cfg,               \* the copy in RAM
  flash,             \* what was written last, and how many pages of it were
  on,                \* the modem runs
  net, bg,           \* the Wi-Fi link; bg_enabled
  joined,            \* the network the driver was last told to join, or None
  listening,         \* the TCP server
  clock              \* the server SNTP asks, or None

netVars == <<net, bg, joined>>
vars == <<cfg, flash, on, netVars, listening, clock>>

\* The record takes four pages of the flash. The first ends in ap_pass; the list
\* begins in the second and takes the rest.
Pages == 4

Passwords == Short \union Long
Entries == Patterns \union {Free, Bad}
Lists == [1..HostsMax -> Entries]

Config ==
  [ magic : {"V1", "V2", "V3"},
    ssid : Networks \union {None}, ip : {"dhcp", "static"},
    sntp : 0..1, server : Names, listen : 0..1, s0 : 0..1, tls : 0..1,
    pass : Passwords \union {Invalid},
    tnfs : Names \union {None, Garbage}, usb : 0..2, enforce : 0..2, hosts : Lists ]

\* What at_modem_init leaves in RAM.
Sound ==
  [ magic : {"V3"},
    ssid : Networks \union {None}, ip : {"dhcp", "static"},
    sntp : 0..1, server : Names, listen : 0..1, s0 : 0..1, tls : 0..1,
    pass : Passwords,
    tnfs : Names \union {None, Garbage}, usb : 0..1, enforce : 0..1,
    hosts : [1..HostsMax -> Patterns \union {Free}] ]

TypeOK ==
  /\ cfg \in Sound
  /\ flash \in [pages : 0..Pages, config : Config]
  /\ on \in BOOLEAN
  /\ net \in {"down", "trying", "up"} /\ bg \in BOOLEAN
  /\ joined \in Networks \union {None}
  /\ listening \in BOOLEAN
  /\ clock \in Names \union {None}

-----------------------------------------------------------------------------
(* The host filter.                                                        *)

Matches(entry, host) ==
  /\ entry \in Patterns
  /\ IF entry.any THEN IsSuffix(entry.name, host) /\ Len(host) > Len(entry.name)
     ELSE host = entry.name

\* at_modem_host_allowed.
Allows(c, host) == c.enforce = 0 \/ \E i \in 1..HostsMax : Matches(c.hosts[i], host)

-----------------------------------------------------------------------------
(* at_modem_init.                                                          *)

Defaults ==
  [ magic |-> "V3", ssid |-> None, ip |-> "dhcp", sntp |-> 0, server |-> Pool,
    listen |-> 0, s0 |-> 0, tls |-> 0, pass |-> Default, tnfs |-> None,
    usb |-> 0, enforce |-> 0, hosts |-> [i \in 1..HostsMax |-> Free] ]

\* An older record has the first fields only; the oldest has no TLS ports either.
Migrated(c) ==
  [ Defaults EXCEPT !.ssid = c.ssid, !.ip = c.ip, !.sntp = c.sntp,
                    !.server = c.server, !.listen = c.listen, !.s0 = c.s0,
                    !.tls = IF c.magic = "V1" THEN 0 ELSE c.tls ]

\* An entry whose last byte is in a page that is erased is no pattern.
Cut(hosts, pages) ==
  [i \in 1..HostsMax |->
     IF hosts[i] # Bad /\ EndsIn[i][hosts[i]] <= pages THEN hosts[i] ELSE Bad]

\* The record as it is read when its last pages are erased.
AsRead(f) ==
  LET c == f.config IN
  CASE f.pages = 1 ->
         [ c EXCEPT !.pass = IF c.pass \in Short THEN c.pass ELSE Invalid,
                    !.tnfs = Garbage, !.usb = 2, !.enforce = 2,
                    !.hosts = Cut(c.hosts, 1) ]
    [] f.pages \in 2..3 -> [c EXCEPT !.hosts = Cut(c.hosts, f.pages)]
    [] OTHER -> c

ValidUsb(v) == IF v > 1 THEN 0 ELSE v
ValidEnforceOpen(v) == IF v > 1 THEN 0 ELSE v                      \* mutant
ValidEnforce(v) == IF v > 1 THEN 1 ELSE v

Validated(c) ==
  [ c EXCEPT !.pass = IF c.pass \in Passwords THEN c.pass ELSE Default,
             !.usb = ValidUsb(c.usb),
             !.enforce = ValidEnforce(c.enforce),
             !.hosts = [i \in 1..HostsMax |-> IF c.hosts[i] = Bad THEN Free ELSE c.hosts[i]] ]

Loaded(f) ==
  IF f.pages = 0 THEN Defaults
  ELSE IF f.config.magic = "V3" THEN Validated(AsRead(f))
  ELSE Migrated(f.config)

\* A new modem, one whose flash an older firmware has written, or one whose record
\* is damaged.
Older(v, s) ==
  [Defaults EXCEPT !.magic = v, !.ssid = s, !.listen = 1, !.s0 = 1, !.tls = 1]

Damaged(s, p) ==
  [ Defaults EXCEPT !.ssid = s, !.listen = 1, !.pass = Invalid, !.enforce = 2,
                    !.hosts = [i \in 1..HostsMax |-> IF i = 1 THEN p ELSE Bad] ]

Found ==
  { Older(v, s) : v \in {"V1", "V2"}, s \in Networks }
  \union { Damaged(s, p) : s \in Networks, p \in Patterns }

Halted ==
  /\ on' = FALSE
  /\ net' = "down" /\ bg' = FALSE /\ joined' = None
  /\ listening' = FALSE /\ clock' = None

Init ==
  /\ flash \in [pages : {0}, config : {Defaults}] \union [pages : {Pages}, config : Found]
  /\ cfg = Loaded(flash)
  /\ on = FALSE
  /\ net = "down" /\ bg = FALSE /\ joined = None
  /\ listening = FALSE /\ clock = None

\* main: the background join and the server start with what was saved.
ListensUnseen(c) == c.listen = 1                                   \* mutant
Listens(c) == c.listen = 1 /\ c.enforce = 0

Boot ==
  /\ ~on /\ on' = TRUE
  /\ cfg' = Loaded(flash)
  /\ bg' = (cfg'.ssid # None)
  /\ listening' \in {FALSE, Listens(cfg')}
  /\ UNCHANGED <<flash, net, joined, clock>>

PowerLoss == on /\ Halted /\ UNCHANGED <<cfg, flash>>

-----------------------------------------------------------------------------
(* Saving: config_flash_save.                                              *)

Wanted(c) == IF c.sntp = 1 THEN c.server ELSE None

\* A new SNTP server is asked at once.
ApplyNever(c) == UNCHANGED clock                                   \* mutant
Apply(c) == clock' = IF net = "up" THEN Wanted(c) ELSE clock

SaveTorn(c) ==
  /\ on /\ cfg' = c
  /\ \E k \in 0..Pages - 1 : flash' = [pages |-> k, config |-> c]
  /\ Halted

SaveWhole(c) ==
  /\ on /\ cfg' = c
  /\ flash' = [pages |-> Pages, config |-> c]
  /\ UNCHANGED on
  /\ Apply(c)

\* A command that saves its setting and does nothing else.
Keep(c) ==
  \/ SaveTorn(c)
  \/ SaveWhole(c) /\ UNCHANGED <<netVars, listening>>

-----------------------------------------------------------------------------
(* Commands. The filter locks those that could lead an allowed host astray *)

LockedFew ==                                                       \* mutant
  IF cfg.enforce = 0 THEN {}
  ELSE {"CWJAP", "CWDHCP", "CWDHCP_CUR", "CIPSTA", "CIPSTA_CUR", "CIPDNS", "CIPDNS_CUR",
        "APSETUPPWD"}

\* network_locked; the forms with _DEF are those without.
Locked ==
  IF cfg.enforce = 0 THEN {}
  ELSE {"CWJAP", "CWJAP_CUR", "CWDHCP", "CWDHCP_CUR", "CIPSTA", "CIPSTA_CUR",
        "CIPDNS", "CIPDNS_CUR", "APSETUPPWD"}

\* wifi_join: the address and SNTP are applied to the link that it sees come up. One
\* that comes up after it has given up is nobody's.
JoinUp(c) == net' = "up" /\ bg' = TRUE /\ clock' = Wanted(c)
JoinFails == net' \in {"down", "trying"} /\ bg' = FALSE

\* do_join saves first, with SNTP applied to the old link.
CwjapDef(s) ==
  /\ on /\ "CWJAP" \notin Locked
  /\ LET c == [cfg EXCEPT !.ssid = s] IN
     \/ SaveTorn(c)
     \/ /\ cfg' = c /\ flash' = [pages |-> Pages, config |-> c]
        /\ JoinUp(c) \/ (JoinFails /\ Apply(c))
        /\ joined' = s
        /\ UNCHANGED <<on, listening>>

CwjapCur(s) ==
  /\ on /\ "CWJAP_CUR" \notin Locked
  /\ JoinUp(cfg) \/ (JoinFails /\ UNCHANGED clock)
  /\ joined' = s
  /\ UNCHANGED <<cfg, flash, on, listening>>

Cwqap ==
  /\ on
  /\ net' = "down" /\ bg' = FALSE /\ joined' = None
  /\ UNCHANGED <<cfg, flash, on, listening, clock>>

\* AT+CWDHCP, AT+CIPSTA and AT+CIPDNS, and what their forms with _CUR do not save.
IpKinds == {"CWDHCP", "CIPSTA", "CIPDNS"}
IpCurKinds == {"CWDHCP_CUR", "CIPSTA_CUR", "CIPDNS_CUR"}

SetIpDef(v) ==
  /\ on /\ IpKinds \ Locked # {}
  /\ Keep([cfg EXCEPT !.ip = v])

SetIpCur(v) ==
  /\ on /\ IpCurKinds \ Locked # {}
  /\ cfg' = [cfg EXCEPT !.ip = v]
  /\ UNCHANGED <<flash, on, netVars, listening, clock>>

SetS0(v) == on /\ Keep([cfg EXCEPT !.s0 = v])

TlsPort(v) == on /\ Keep([cfg EXCEPT !.tls = v])

ApSetupPwd(w) ==
  /\ on /\ "APSETUPPWD" \notin Locked
  /\ Keep([cfg EXCEPT !.pass = w])

TnfsUsb(v) == on /\ Keep([cfg EXCEPT !.usb = v])

\* AT$TNFS, with a host or with 0.
Tnfs(h) ==
  /\ on
  /\ (h # None => Allows(cfg, h))
  /\ Keep([cfg EXCEPT !.tnfs = h])

CipserverUnsaved(v) ==                                             \* mutant
  /\ on /\ (v = 1 => cfg.enforce = 0)
  /\ cfg' = [cfg EXCEPT !.listen = v]
  /\ listening' \in {FALSE, v = 1}
  /\ UNCHANGED <<flash, on, netVars, clock>>
CipServer(v) ==
  /\ on /\ (v = 1 => cfg.enforce = 0)
  /\ LET c == [cfg EXCEPT !.listen = v] IN
     \/ SaveTorn(c)
     \/ /\ SaveWhole(c)
        /\ listening' \in {FALSE, v = 1}
        /\ UNCHANGED netVars

SntpCfg(v, h) ==
  /\ on /\ (h # cfg.server => Allows(cfg, h))
  /\ Keep([cfg EXCEPT !.sntp = v, !.server = h])

Restore ==
  /\ on
  /\ \/ SaveTorn(Defaults)
     \/ /\ cfg' = Defaults
        /\ flash' = [pages |-> Pages, config |-> Defaults]
        /\ Halted

-----------------------------------------------------------------------------
(* The page of the access point, which is the one place where the list is  *)
(* written, and the link.                                                  *)

HostsForm(e, hs) ==
  /\ on
  /\ LET c == [ cfg EXCEPT !.enforce = e, !.hosts = hs,
                           !.listen = IF e = 1 THEN 0 ELSE cfg.listen ] IN
     \/ SaveTorn(c)
     \/ /\ SaveWhole(c)
        /\ listening' = (listening /\ c.listen = cfg.listen)
        /\ UNCHANGED netVars

WifiForm(s) ==
  /\ on
  /\ LET c == [cfg EXCEPT !.ssid = s] IN
     \/ SaveTorn(c)
     \/ /\ SaveWhole(c)
        /\ net' = "down" /\ bg' = TRUE /\ joined' = None
        /\ UNCHANGED listening

\* bg_poll: the network that is saved was joined, and its link has come up.
LinkUp ==
  /\ on /\ bg /\ cfg.ssid # None /\ net = "down"
  /\ net' = "up" /\ joined' = cfg.ssid /\ clock' = Wanted(cfg)
  /\ UNCHANGED <<cfg, flash, on, bg, listening>>

LinkUpLate ==
  /\ on /\ net = "trying"
  /\ net' = "up"
  /\ UNCHANGED <<cfg, flash, on, bg, joined, listening, clock>>

LinkDown ==
  /\ on /\ net # "down"
  /\ net' = "down"
  /\ UNCHANGED <<cfg, flash, on, bg, joined, listening, clock>>

Command ==
  \/ \E s \in Networks \union {None} : CwjapDef(s)
  \/ \E s \in Networks : CwjapCur(s)
  \/ Cwqap
  \/ \E v \in {"dhcp", "static"} : SetIpDef(v) \/ SetIpCur(v)
  \/ \E v \in 0..1 : SetS0(v) \/ TlsPort(v) \/ TnfsUsb(v) \/ CipServer(v)
  \/ \E w \in Passwords : ApSetupPwd(w)
  \/ \E h \in Names \union {None} : Tnfs(h)
  \/ \E v \in 0..1, h \in Names : SntpCfg(v, h)
  \/ Restore

Form ==
  \/ \E e \in 0..1, hs \in [1..HostsMax -> Patterns \union {Free}] : HostsForm(e, hs)
  \/ \E s \in Networks : WifiForm(s)

Near(c) == Cardinality({f \in DOMAIN c : c[f] # Defaults[f]}) <= ChangedMax

Next ==
  \/ (Command \/ Form) /\ Near(cfg')
  \/ Boot \/ PowerLoss \/ LinkUp \/ LinkUpLate \/ LinkDown

Spec == Init /\ [][Next]_vars

-----------------------------------------------------------------------------
(* Properties.                                                             *)

\* With the filter on nobody can call, however it came to be on: by the form, while
\* the server was listening, or by a start that found it in flash, next to a server
\* that was never switched off.
IncomingRefused == cfg.enforce = 1 => ~listening

\* The clock is asked of the server that is set, on each link the modem looks after.
ClockFollows == bg /\ net = "up" => clock = Wanted(cfg)

\* What a command saved is there after any later start. What the commands with _CUR
\* have changed in RAM only is again as it was when something was last saved.
Survives ==
  [][ Boot /\ flash.pages = Pages =>
        /\ \A f \in DOMAIN cfg \ {"ip"} : cfg'[f] = cfg[f]
        /\ cfg'.ip = flash.config.ip ]_vars

\* A save that power cut short after any of its pages, and a record that is damaged,
\* never let the next start talk to a host which the one that was meant refuses;
\* unless nothing at all was written, and the modem is as new.
TornStaysShut ==
  [][ Boot /\ flash.pages > 0 /\ flash.config.magic = "V3" =>
        \A h \in Names \union {Garbage} : Allows(cfg', h) => Allows(flash.config, h) ]_vars

\* While the filter is on the program can change neither the list nor the way to its
\* hosts, in RAM, in flash or on the air, by any command but AT+RESTORE, which forgets
\* everything and starts again: no network is joined but the one that is saved.
FilterHolds ==
  [][ /\ on /\ cfg.enforce = 1
      /\ \/ \E f \in {"ssid", "ip", "pass", "enforce", "hosts"} : cfg'[f] # cfg[f]
         \/ joined' \notin {joined, cfg.ssid, None}
      => Form \/ Restore ]_vars
=============================================================================
