--------------------------- MODULE SettingsProofs ---------------------------
(* Theorems about the settings, for any networks, hosts, patterns and any   *)
(* length of the list.                                                      *)
EXTENDS Settings, TLAPS

Written == [pages : 0..Pages, config : Config]

-----------------------------------------------------------------------------
(* What at_modem_init makes of any record.                                 *)

LEMMA DefaultsSound == Defaults \in Sound
  BY SettingsAssumption DEF Defaults, Sound, Passwords

LEMMA SoundIsConfig == Sound \subseteq Config
  BY DEF Sound, Config, Lists, Entries

\* What is cut off is no pattern, and what is not is as it was written.
LEMMA CutTyped ==
  ASSUME NEW hs \in Lists, NEW k \in 1..3
  PROVE  /\ Cut(hs, k) \in Lists
         /\ \A i \in 1..HostsMax : Cut(hs, k)[i] \in {hs[i], Bad}
  BY DEF Cut, Lists, Entries

LEMMA AsReadTyped ==
  ASSUME NEW f \in Written
  PROVE  AsRead(f) \in Config /\ AsRead(f).magic = f.config.magic
<1> DEFINE c == f.config
<1>0. c \in Config /\ c.hosts \in Lists
  BY DEF Written, Config
<1>1. CASE f.pages = 1
  <2> DEFINE p == IF c.pass \in Short THEN c.pass ELSE Invalid
             h == Cut(c.hosts, 1)
             u == 2
  <2>1. AsRead(f) = [ c EXCEPT !.pass = p, !.tnfs = Garbage, !.usb = u, !.enforce = u,
                               !.hosts = h ]
    BY <1>1 DEF AsRead
  <2>2. h \in Lists
    BY <1>0, CutTyped
  <2>3. p \in Passwords \union {Invalid}
    BY DEF Passwords
  <2>4. u \in 0..2
    OBVIOUS
  <2> HIDE DEF p, h, u, c
  <2> QED BY <1>0, <2>1, <2>2, <2>3, <2>4 DEF Config, c
<1>2. CASE f.pages \in 2..3
  <2> DEFINE h == Cut(c.hosts, f.pages)
  <2>1. AsRead(f) = [c EXCEPT !.hosts = h]
    BY <1>2 DEF AsRead
  <2>2. h \in Lists
    BY <1>0, <1>2, CutTyped
  <2> HIDE DEF h, c
  <2> QED BY <1>0, <2>1, <2>2 DEF Config, c
<1>3. CASE f.pages \notin 1..3
  BY <1>3 DEF AsRead, Written
<1> QED BY <1>1, <1>2, <1>3

LEMMA ValidatedSound ==
  ASSUME NEW c \in Config, c.magic = "V3"
  PROVE  Validated(c) \in Sound
<1>1. ValidUsb(c.usb) \in 0..1 /\ ValidEnforce(c.enforce) \in 0..1
  BY DEF ValidUsb, ValidEnforce, Config
<1>2. [i \in 1..HostsMax |-> IF c.hosts[i] = Bad THEN Free ELSE c.hosts[i]]
        \in [1..HostsMax -> Patterns \union {Free}]
  BY DEF Config, Lists, Entries
<1>3. (IF c.pass \in Passwords THEN c.pass ELSE Default) \in Passwords
  BY SettingsAssumption DEF Passwords
<1> QED BY <1>1, <1>2, <1>3 DEF Validated, Sound, Config

LEMMA MigratedSound ==
  ASSUME NEW c \in Config
  PROVE  Migrated(c) \in Sound
<1>1. ASSUME NEW d \in Sound, NEW p \in 0..1
      PROVE  [ d EXCEPT !.ssid = c.ssid, !.ip = c.ip, !.sntp = c.sntp, !.server = c.server,
                        !.listen = c.listen, !.s0 = c.s0, !.tls = p ] \in Sound
  BY DEF Sound, Config
<1>2. (IF c.magic = "V1" THEN 0 ELSE c.tls) \in 0..1
  BY DEF Config
<1> QED BY <1>1, <1>2, DefaultsSound DEF Migrated

LEMMA LoadedSound == \A f \in Written : Loaded(f) \in Sound
  BY DefaultsSound, AsReadTyped, ValidatedSound, MigratedSound DEF Loaded, Written

\* Nothing is lost between a whole save and the load.
LEMMA LoadedWhole ==
  ASSUME NEW c \in Sound
  PROVE  Loaded([pages |-> Pages, config |-> c]) = c
<1> DEFINE f == [pages |-> Pages, config |-> c]
<1>1. AsRead(f) = c
  BY DEF AsRead, Pages
<1>2. ValidUsb(c.usb) = c.usb /\ ValidEnforce(c.enforce) = c.enforce
  BY DEF ValidUsb, ValidEnforce, Sound
<1>3. [i \in 1..HostsMax |-> IF c.hosts[i] = Bad THEN Free ELSE c.hosts[i]] = c.hosts
  BY SettingsAssumption DEF Sound
<1>4. Validated(c) = c
  BY <1>2, <1>3 DEF Validated, Sound
<1>5. f.pages # 0 /\ f.config.magic = "V3"
  BY DEF Pages, Sound
<1> QED BY <1>1, <1>4, <1>5 DEF Loaded

\* The address is read back from any whole record, older ones included.
LEMMA LoadedIp ==
  ASSUME NEW f \in Written, f.pages = Pages
  PROVE  Loaded(f).ip = f.config.ip
<1> f.config \in Config
  BY DEF Written
<1>1. AsRead(f) = f.config /\ f.pages # 0
  BY DEF AsRead, Pages
<1>2. Validated(f.config).ip = f.config.ip
  BY DEF Validated, Config
<1>3. Migrated(f.config).ip = f.config.ip
  BY DefaultsSound DEF Migrated, Sound
<1> QED BY <1>1, <1>2, <1>3 DEF Loaded

-----------------------------------------------------------------------------
(* The invariant.                                                          *)

\* A record that was written whole is what the RAM holds, but for _CUR settings.
SavedWhole == flash.pages = Pages => Loaded(flash) = [cfg EXCEPT !.ip = Loaded(flash).ip]

\* IncomingRefused is not inductive: the form switches the filter on while the server
\* listens, and is right to look at listen_port alone; nor is ClockFollows: a link
\* that comes up late is not one that the modem looks after.
SettingsInv ==
  /\ TypeOK
  /\ ~on => ~bg /\ ~listening /\ net = "down"
  /\ listening => cfg.listen = 1 /\ cfg.enforce = 0
  /\ net = "trying" => ~bg
  /\ ClockFollows
  /\ SavedWhole

LEMMA Updates ==
  ASSUME NEW c \in Sound
  PROVE  /\ \A s \in Networks \union {None} : [c EXCEPT !.ssid = s] \in Sound
         /\ \A v \in {"dhcp", "static"} : [c EXCEPT !.ip = v] \in Sound
         /\ \A v \in 0..1 : [c EXCEPT !.s0 = v] \in Sound
         /\ \A v \in 0..1 : [c EXCEPT !.tls = v] \in Sound
         /\ \A v \in 0..1 : [c EXCEPT !.usb = v] \in Sound
         /\ \A v \in 0..1 : [c EXCEPT !.listen = v] \in Sound
         /\ \A w \in Passwords : [c EXCEPT !.pass = w] \in Sound
         /\ \A h \in Names \union {None} : [c EXCEPT !.tnfs = h] \in Sound
         /\ \A v \in 0..1, h \in Names : [c EXCEPT !.sntp = v, !.server = h] \in Sound
  BY DEF Sound

\* Parts of the invariant that a whole save gives, and one that is cut short.
LEMMA WrittenWhole ==
  ASSUME NEW c \in Sound, cfg' = c, flash' = [pages |-> Pages, config |-> c]
  PROVE  cfg' \in Sound /\ flash' \in Written /\ SavedWhole'
<1>1. Pages \in 0..Pages /\ c \in Config
  BY SoundIsConfig DEF Pages
<1>2. flash' \in Written
  BY <1>1 DEF Written
<1>3. Loaded(flash') = c
  BY LoadedWhole
<1>4. c = [c EXCEPT !.ip = c.ip]
  BY DEF Sound
<1> QED BY <1>2, <1>3, <1>4 DEF SavedWhole

LEMMA TornInv ==
  ASSUME SettingsInv, NEW c \in Sound, SaveTorn(c)
  PROVE  SettingsInv'
<1>1. PICK k \in 0..Pages - 1 : flash' = [pages |-> k, config |-> c]
  BY DEF SaveTorn
<1>2. k \in 0..Pages /\ k # Pages /\ c \in Config
  BY SoundIsConfig DEF Pages
<1>3. flash' \in [pages : 0..Pages, config : Config] /\ flash'.pages # Pages
  BY <1>1, <1>2
<1> QED BY <1>3 DEF SaveTorn, Halted, SettingsInv, TypeOK, ClockFollows, SavedWhole

LEMMA ApplyTyped ==
  ASSUME TypeOK, NEW c \in Sound, Apply(c)
  PROVE  clock' \in Names \union {None} /\ (net = "up" => clock' = Wanted(c))
  BY DEF Apply, Wanted, TypeOK, Sound

LEMMA KeepInv ==
  ASSUME SettingsInv, NEW c \in Sound, Keep(c),
         listening => c.listen = 1 /\ c.enforce = 0
  PROVE  SettingsInv'
<1>1. CASE SaveTorn(c)
  BY <1>1, TornInv
<1>2. CASE SaveWhole(c) /\ UNCHANGED <<netVars, listening>>
  BY <1>2, WrittenWhole, ApplyTyped DEF SaveWhole, netVars, SettingsInv, TypeOK, ClockFollows, Written
<1> QED BY <1>1, <1>2 DEF Keep

\* What a command that leaves the server and the filter alone makes of the record.
Unfiltered(c) == c \in Sound /\ c.listen = cfg.listen /\ c.enforce = cfg.enforce

LEMMA KeepSame ==
  ASSUME SettingsInv, NEW c, Unfiltered(c), Keep(c)
  PROVE  SettingsInv'
<1>1. c \in Sound /\ (listening => c.listen = 1 /\ c.enforce = 0)
  BY DEF Unfiltered, SettingsInv
<1> QED BY <1>1, KeepInv

LEMMA Unfilters ==
  ASSUME cfg \in Sound
  PROVE  /\ \A v \in {"dhcp", "static"} : Unfiltered([cfg EXCEPT !.ip = v])
         /\ \A v \in 0..1 : Unfiltered([cfg EXCEPT !.s0 = v])
         /\ \A v \in 0..1 : Unfiltered([cfg EXCEPT !.tls = v])
         /\ \A v \in 0..1 : Unfiltered([cfg EXCEPT !.usb = v])
         /\ \A w \in Passwords : Unfiltered([cfg EXCEPT !.pass = w])
         /\ \A h \in Names \union {None} : Unfiltered([cfg EXCEPT !.tnfs = h])
         /\ \A v \in 0..1, h \in Names : Unfiltered([cfg EXCEPT !.sntp = v, !.server = h])
         /\ \A s \in Networks \union {None} : Unfiltered([cfg EXCEPT !.ssid = s])
<1>1. ASSUME NEW c, NEW d \in Sound, d = c, c.listen = cfg.listen, c.enforce = cfg.enforce
      PROVE  Unfiltered(c)
  BY <1>1 DEF Unfiltered
<1>2. /\ \A v : [cfg EXCEPT !.ip = v].listen = cfg.listen
                /\ [cfg EXCEPT !.ip = v].enforce = cfg.enforce
      /\ \A v : [cfg EXCEPT !.s0 = v].listen = cfg.listen
                /\ [cfg EXCEPT !.s0 = v].enforce = cfg.enforce
      /\ \A v : [cfg EXCEPT !.tls = v].listen = cfg.listen
                /\ [cfg EXCEPT !.tls = v].enforce = cfg.enforce
      /\ \A v : [cfg EXCEPT !.usb = v].listen = cfg.listen
                /\ [cfg EXCEPT !.usb = v].enforce = cfg.enforce
      /\ \A v : [cfg EXCEPT !.pass = v].listen = cfg.listen
                /\ [cfg EXCEPT !.pass = v].enforce = cfg.enforce
      /\ \A v : [cfg EXCEPT !.tnfs = v].listen = cfg.listen
                /\ [cfg EXCEPT !.tnfs = v].enforce = cfg.enforce
      /\ \A v, w : [cfg EXCEPT !.sntp = v, !.server = w].listen = cfg.listen
                   /\ [cfg EXCEPT !.sntp = v, !.server = w].enforce = cfg.enforce
      /\ \A v : [cfg EXCEPT !.ssid = v].listen = cfg.listen
                /\ [cfg EXCEPT !.ssid = v].enforce = cfg.enforce
  BY DEF Sound
<1> QED BY <1>1, <1>2, Updates

LEMMA JoinInv ==
  ASSUME SettingsInv, NEW s \in Networks \union {None}, CwjapDef(s)
  PROVE  SettingsInv'
<1> DEFINE c == [cfg EXCEPT !.ssid = s]
<1>1. c \in Sound /\ c.listen = cfg.listen /\ c.enforce = cfg.enforce
  BY Updates DEF SettingsInv, TypeOK, Sound
<1> HIDE DEF c
<1>2. CASE SaveTorn(c)
  BY <1>1, <1>2, TornInv
<1>3. CASE /\ cfg' = c /\ flash' = [pages |-> Pages, config |-> c]
           /\ JoinUp(c) \/ (JoinFails /\ Apply(c))
           /\ joined' = s
           /\ UNCHANGED <<on, listening>>
  <2>1. cfg' \in Sound /\ flash' \in Written /\ SavedWhole'
    BY <1>1, <1>3, WrittenWhole
  <2>2. CASE JoinUp(c)
    <3>1. Wanted(c) \in Names \union {None}
      BY <1>1 DEF Wanted, Sound
    <3> QED BY <1>1, <1>3, <2>1, <2>2, <3>1
           DEF JoinUp, CwjapDef, SettingsInv, TypeOK, ClockFollows, Written
  <2>3. CASE JoinFails /\ Apply(c)
    BY <1>1, <1>3, <2>1, <2>3, ApplyTyped
       DEF JoinFails, CwjapDef, SettingsInv, TypeOK, ClockFollows, Written
  <2> QED BY <1>3, <2>2, <2>3
<1> QED BY <1>2, <1>3 DEF CwjapDef, c

LEMMA CipServerInv ==
  ASSUME SettingsInv, NEW v \in 0..1, CipServer(v)
  PROVE  SettingsInv'
<1> DEFINE c == [cfg EXCEPT !.listen = v]
<1>1. c \in Sound /\ c.listen = v /\ c.enforce = cfg.enforce
  BY Updates DEF SettingsInv, TypeOK, Sound
<1> HIDE DEF c
<1>2. CASE SaveTorn(c)
  BY <1>1, <1>2, TornInv
<1>3. CASE SaveWhole(c) /\ listening' \in {FALSE, v = 1} /\ UNCHANGED netVars
  <2>1. cfg' \in Sound /\ flash' \in Written /\ SavedWhole'
    BY <1>1, <1>3, WrittenWhole DEF SaveWhole
  <2>2. clock' \in Names \union {None} /\ (net = "up" => clock' = Wanted(c))
    BY <1>1, <1>3, ApplyTyped DEF SaveWhole, SettingsInv
  <2>3. listening' \in BOOLEAN /\ (listening' => v = 1 /\ c.enforce = 0)
    BY <1>1, <1>3 DEF CipServer
  <2> QED BY <1>1, <1>3, <2>1, <2>2, <2>3
         DEF CipServer, SaveWhole, netVars, SettingsInv, TypeOK, ClockFollows, Written
<1> QED BY <1>2, <1>3 DEF CipServer, c

LEMMA RestoreInv ==
  ASSUME SettingsInv, Restore
  PROVE  SettingsInv'
<1>1. CASE SaveTorn(Defaults)
  BY <1>1, DefaultsSound, TornInv
<1>2. CASE /\ cfg' = Defaults /\ flash' = [pages |-> Pages, config |-> Defaults]
           /\ Halted
  BY <1>2, DefaultsSound, WrittenWhole
     DEF Halted, SettingsInv, TypeOK, ClockFollows, Written
<1> QED BY <1>1, <1>2 DEF Restore

LEMMA CommandInv == ASSUME SettingsInv, Command PROVE SettingsInv'
<1> cfg \in Sound
  BY DEF SettingsInv, TypeOK
<1>1. ASSUME NEW s \in Networks \union {None}, CwjapDef(s) PROVE SettingsInv'
  BY <1>1, JoinInv
<1>2. ASSUME NEW s \in Networks, CwjapCur(s) PROVE SettingsInv'
  <2>1. Wanted(cfg) \in Names \union {None}
    BY DEF Wanted, Sound
  <2> QED BY <1>2, <2>1
         DEF CwjapCur, JoinUp, JoinFails, SettingsInv, TypeOK, ClockFollows, SavedWhole
<1>3. CASE Cwqap
  BY <1>3 DEF Cwqap, SettingsInv, TypeOK, ClockFollows, SavedWhole
<1>4. ASSUME NEW v \in {"dhcp", "static"}, SetIpDef(v) PROVE SettingsInv'
  BY <1>4, KeepSame, Unfilters DEF SetIpDef
<1>5. ASSUME NEW v \in {"dhcp", "static"}, SetIpCur(v) PROVE SettingsInv'
  <2>1. cfg' \in Sound /\ Wanted(cfg') = Wanted(cfg)
        /\ cfg'.listen = cfg.listen /\ cfg'.enforce = cfg.enforce
    BY <1>5, Updates DEF SetIpCur, Wanted, Sound
  <2>2. \A x : [cfg' EXCEPT !.ip = x] = [cfg EXCEPT !.ip = x]
    BY <1>5 DEF SetIpCur, Sound
  <2> QED BY <1>5, <2>1, <2>2 DEF SetIpCur, netVars, SettingsInv, TypeOK, ClockFollows, SavedWhole
<1>6. ASSUME NEW v \in 0..1, SetS0(v) \/ TlsPort(v) PROVE SettingsInv'
  BY <1>6, KeepSame, Unfilters DEF SetS0, TlsPort
<1>7. ASSUME NEW v \in 0..1, TnfsUsb(v) PROVE SettingsInv'
  BY <1>7, KeepSame, Unfilters DEF TnfsUsb
<1>8. ASSUME NEW v \in 0..1, CipServer(v) PROVE SettingsInv'
  BY <1>8, CipServerInv
<1>9. ASSUME NEW w \in Passwords, ApSetupPwd(w) PROVE SettingsInv'
  BY <1>9, KeepSame, Unfilters DEF ApSetupPwd
<1>10. ASSUME NEW h \in Names \union {None}, Tnfs(h) PROVE SettingsInv'
  BY <1>10, KeepSame, Unfilters DEF Tnfs
<1>11. ASSUME NEW v \in 0..1, NEW h \in Names, SntpCfg(v, h) PROVE SettingsInv'
  BY <1>11, KeepSame, Unfilters DEF SntpCfg
<1>12. CASE Restore
  BY <1>12, RestoreInv
<1> QED
  BY <1>1, <1>2, <1>3, <1>4, <1>5, <1>6, <1>7, <1>8, <1>9, <1>10, <1>11, <1>12
     DEF Command

LEMMA HostsInv ==
  ASSUME SettingsInv, NEW e \in 0..1, NEW hs \in [1..HostsMax -> Patterns \union {Free}],
         HostsForm(e, hs)
  PROVE  SettingsInv'
<1> DEFINE n == IF e = 1 THEN 0 ELSE cfg.listen
           c == [cfg EXCEPT !.enforce = e, !.hosts = hs, !.listen = n]
<1>1. cfg \in Sound
  BY DEF SettingsInv, TypeOK
<1>2. n \in 0..1 /\ (n = cfg.listen /\ n = 1 => e = 0)
  BY <1>1 DEF Sound
<1> HIDE DEF n
<1>3. c \in Sound /\ c.listen = n /\ c.enforce = e
  BY <1>1, <1>2 DEF Sound
<1>4. \/ SaveTorn(c)
      \/ /\ SaveWhole(c)
         /\ listening' = (listening /\ c.listen = cfg.listen)
         /\ UNCHANGED netVars
  BY DEF HostsForm, n
<1> HIDE DEF c
<1>5. CASE SaveTorn(c)
  BY <1>3, <1>5, TornInv
<1>6. CASE /\ SaveWhole(c)
           /\ listening' = (listening /\ c.listen = cfg.listen)
           /\ UNCHANGED netVars
  <2>1. cfg' \in Sound /\ flash' \in Written /\ SavedWhole'
    BY <1>3, <1>6, WrittenWhole DEF SaveWhole
  <2>2. clock' \in Names \union {None} /\ (net = "up" => clock' = Wanted(c))
    BY <1>3, <1>6, ApplyTyped DEF SaveWhole, SettingsInv
  <2>3. listening' \in BOOLEAN /\ (listening' => listening /\ c.listen = 1 /\ c.enforce = 0)
    BY <1>2, <1>3, <1>6 DEF SettingsInv, TypeOK
  <2> QED BY <1>3, <1>6, <2>1, <2>2, <2>3
         DEF SaveWhole, netVars, SettingsInv, TypeOK, ClockFollows, Written
<1> QED BY <1>4, <1>5, <1>6

LEMMA WifiInv ==
  ASSUME SettingsInv, NEW s \in Networks, WifiForm(s)
  PROVE  SettingsInv'
<1> DEFINE c == [cfg EXCEPT !.ssid = s]
<1>1. c \in Sound /\ c.listen = cfg.listen /\ c.enforce = cfg.enforce
  BY Unfilters DEF SettingsInv, TypeOK, Unfiltered
<1> HIDE DEF c
<1>2. CASE SaveTorn(c)
  BY <1>1, <1>2, TornInv
<1>3. CASE /\ SaveWhole(c)
           /\ net' = "down" /\ bg' = TRUE /\ joined' = None
           /\ UNCHANGED listening
  <2>1. cfg' \in Sound /\ flash' \in Written /\ SavedWhole'
    BY <1>1, <1>3, WrittenWhole DEF SaveWhole
  <2>2. clock' \in Names \union {None}
    BY <1>1, <1>3, ApplyTyped DEF SaveWhole, SettingsInv
  <2> QED BY <1>1, <1>3, <2>1, <2>2
         DEF WifiForm, SaveWhole, SettingsInv, TypeOK, ClockFollows, Written
<1> QED BY <1>2, <1>3 DEF WifiForm, c

LEMMA BootInv == ASSUME SettingsInv, Boot PROVE SettingsInv'
<1>1. Loaded(flash) \in Sound
  BY LoadedSound DEF SettingsInv, TypeOK, Written
<1>2. \A v : Loaded(flash) = [Loaded(flash) EXCEPT !.ip = Loaded(flash).ip]
  BY <1>1 DEF Sound
<1> HIDE DEF Loaded
<1> QED BY <1>1, <1>2 DEF Boot, Listens, SettingsInv, TypeOK, ClockFollows, SavedWhole

LEMMA LinkInv ==
  ASSUME SettingsInv, PowerLoss \/ LinkUp \/ LinkUpLate \/ LinkDown
  PROVE  SettingsInv'
<1> cfg \in Sound
  BY DEF SettingsInv, TypeOK
<1>1. CASE PowerLoss
  BY <1>1 DEF PowerLoss, Halted, SettingsInv, TypeOK, ClockFollows, SavedWhole
<1>2. CASE LinkUp
  <2>1. Wanted(cfg) \in Names \union {None} /\ cfg.ssid \in Networks \union {None}
    BY DEF Wanted, Sound
  <2> QED BY <1>2, <2>1 DEF LinkUp, SettingsInv, TypeOK, ClockFollows, SavedWhole
<1>3. CASE LinkUpLate
  BY <1>3 DEF LinkUpLate, SettingsInv, TypeOK, ClockFollows, SavedWhole
<1>4. CASE LinkDown
  BY <1>4 DEF LinkDown, SettingsInv, TypeOK, ClockFollows, SavedWhole
<1> QED BY <1>1, <1>2, <1>3, <1>4

LEMMA FoundTyped ==
  ASSUME Defaults \in Config
  PROVE  Found \subseteq Config
<1>1. ASSUME NEW d \in Config, NEW m \in {"V1", "V2", "V3"}, NEW s \in Networks \union {None},
             NEW l \in 0..1
      PROVE  [d EXCEPT !.magic = m, !.ssid = s, !.listen = l, !.s0 = l, !.tls = l] \in Config
  BY DEF Config
<1>2. ASSUME NEW d \in Config, NEW s \in Networks \union {None}, NEW l \in 0..1,
             NEW w \in Passwords \union {Invalid}, NEW u \in 0..2, NEW h \in Lists
      PROVE  [ d EXCEPT !.ssid = s, !.listen = l, !.pass = w, !.enforce = u, !.hosts = h ]
               \in Config
  BY DEF Config
<1>3. ASSUME NEW s \in Networks, NEW m \in {"V1", "V2"}
      PROVE  Older(m, s) \in Config
  <2> DEFINE o == 1
  <2>1. o \in 0..1
    OBVIOUS
  <2> HIDE DEF o
  <2>2. [Defaults EXCEPT !.magic = m, !.ssid = s, !.listen = o, !.s0 = o, !.tls = o] \in Config
    BY <1>1, <2>1
  <2> QED BY <2>2 DEF o, Older
<1>4. ASSUME NEW s \in Networks, NEW p \in Patterns
      PROVE  Damaged(s, p) \in Config
  <2> DEFINE o == 1
             u == 2
             h == [i \in 1..HostsMax |-> IF i = 1 THEN p ELSE Bad]
  <2>1. o \in 0..1 /\ u \in 0..2
    OBVIOUS
  <2>2. h \in Lists
    BY DEF Lists, Entries
  <2> HIDE DEF o, u, h
  <2>3. [ Defaults EXCEPT !.ssid = s, !.listen = o, !.pass = Invalid, !.enforce = u,
                          !.hosts = h ] \in Config
    BY <1>2, <2>1, <2>2
  <2> QED BY <2>3 DEF o, u, h, Damaged
<1> QED BY <1>3, <1>4 DEF Found

LEMMA InitInv == ASSUME Init PROVE SettingsInv
<1>1. Defaults \in Config
  BY DefaultsSound, SoundIsConfig
<1>2. Found \subseteq Config
  BY <1>1, FoundTyped
<1>3. flash \in Written
  <2>1. CASE flash \in [pages : {0}, config : {Defaults}]
    BY <1>1, <2>1 DEF Written, Pages
  <2>2. CASE flash \in [pages : {Pages}, config : Found]
    <3>1. \A c \in Found : c \in Config
      BY <1>2
    <3>2. Pages \in 0..Pages
      BY DEF Pages
    <3> QED BY <2>2, <3>1, <3>2 DEF Written
  <2> QED BY <2>1, <2>2 DEF Init
<1>4. Loaded(flash) \in Sound
  BY <1>3, LoadedSound
<1>5. Loaded(flash) = [Loaded(flash) EXCEPT !.ip = Loaded(flash).ip]
  BY <1>4 DEF Sound
<1> QED BY <1>3, <1>4, <1>5 DEF Init, Written, SettingsInv, TypeOK, ClockFollows, SavedWhole

LEMMA NextInv == ASSUME SettingsInv, [Next]_vars PROVE SettingsInv'
<1>1. CASE Command
  BY <1>1, CommandInv
<1>2. CASE Form
  BY <1>2, HostsInv, WifiInv DEF Form
<1>3. CASE Boot
  BY <1>3, BootInv
<1>4. CASE PowerLoss \/ LinkUp \/ LinkUpLate \/ LinkDown
  BY <1>4, LinkInv
<1>5. CASE UNCHANGED vars
  BY <1>5 DEF vars, netVars, SettingsInv, TypeOK, ClockFollows, SavedWhole
<1> QED BY <1>1, <1>2, <1>3, <1>4, <1>5 DEF Next

\* The part of the invariant every theorem below rests on.
LEMMA Invariant == Spec => []SettingsInv
<1>1. Init => SettingsInv
  BY InitInv
<1>2. SettingsInv /\ [Next]_vars => SettingsInv'
  BY NextInv
<1> QED BY <1>1, <1>2, PTL DEF Spec

-----------------------------------------------------------------------------
(* Theorems.                                                               *)

\* Whatever the flash holds, what at_modem_init leaves in RAM is a sound record, and
\* every command and form keeps it one.
THEOREM TypeCorrect == Spec => []TypeOK
<1>1. SettingsInv => TypeOK
  BY DEF SettingsInv
<1> QED BY <1>1, Invariant, PTL

\* With the filter on the server does not listen.
THEOREM NoCallers == Spec => []IncomingRefused
<1>1. SettingsInv => IncomingRefused
  BY DEF SettingsInv, IncomingRefused
<1> QED BY <1>1, Invariant, PTL

\* SNTP asks the server that is set.
THEOREM ClockIsSet == Spec => []ClockFollows
<1>1. SettingsInv => ClockFollows
  BY DEF SettingsInv
<1> QED BY <1>1, Invariant, PTL

\* What was saved whole comes back at the next start, and what was only changed in
\* RAM is as it was last saved.
THEOREM SettingsSurvive == Spec => Survives
<1>1. ASSUME SettingsInv, Boot, flash.pages = Pages
      PROVE  /\ \A f \in DOMAIN cfg \ {"ip"} : cfg'[f] = cfg[f]
             /\ cfg'.ip = flash.config.ip
  <2>1. cfg' = [cfg EXCEPT !.ip = Loaded(flash).ip]
    BY <1>1 DEF SettingsInv, SavedWhole, Boot
  <2>2. flash \in Written /\ cfg' = Loaded(flash)
    BY <1>1 DEF SettingsInv, TypeOK, Written, Boot
  <2> QED BY <1>1, <2>1, <2>2, LoadedIp
<1>2. SettingsInv /\ [Next]_vars
        => [ Boot /\ flash.pages = Pages =>
               /\ \A f \in DOMAIN cfg \ {"ip"} : cfg'[f] = cfg[f]
               /\ cfg'.ip = flash.config.ip ]_vars
  BY <1>1
<1> QED BY <1>2, Invariant, PTL DEF Spec, Survives

\* Of a record that is damaged, or written in part, the list allows no host that the
\* record which was meant does not.
LEMMA LoadedShut ==
  ASSUME NEW f \in Written, f.pages > 0, f.config.magic = "V3",
         NEW h, Allows(Loaded(f), h)
  PROVE  Allows(f.config, h)
<1> DEFINE r == AsRead(f)
<1>1. r \in Config /\ Loaded(f) = Validated(r)
  BY AsReadTyped DEF Loaded, Written
<1>2. r.enforce \in {f.config.enforce, 2}
      /\ \A i \in 1..HostsMax : r.hosts[i] \in {f.config.hosts[i], Bad}
  <2> f.config \in Config
    BY DEF Written
  <2>0. f.config.hosts \in Lists
    BY DEF Config
  <2>1. CASE f.pages = 1
    <3> DEFINE b == Cut(f.config.hosts, 1)
               p == IF f.config.pass \in Short THEN f.config.pass ELSE Invalid
               u == 2
    <3>1. r = [ f.config EXCEPT !.pass = p, !.tnfs = Garbage, !.usb = u, !.enforce = u,
                                !.hosts = b ]
      BY <2>1 DEF AsRead
    <3>2. \A i \in 1..HostsMax : b[i] \in {f.config.hosts[i], Bad}
      BY <2>0, CutTyped
    <3>3. u = 2
      OBVIOUS
    <3> HIDE DEF r, b, p, u
    <3>4. r.enforce = u /\ r.hosts = b
      BY <3>1 DEF Config
    <3> QED BY <3>2, <3>3, <3>4
  <2>2. CASE f.pages \in 2..3
    <3> DEFINE b == Cut(f.config.hosts, f.pages)
    <3>1. r = [f.config EXCEPT !.hosts = b]
      BY <2>2 DEF AsRead
    <3>2. \A i \in 1..HostsMax : b[i] \in {f.config.hosts[i], Bad}
      BY <2>0, <2>2, CutTyped
    <3> HIDE DEF r, b
    <3> QED BY <3>1, <3>2 DEF Config
  <2>3. CASE f.pages \notin 1..3
    BY <2>3 DEF AsRead
  <2> QED BY <2>1, <2>2, <2>3
<1> HIDE DEF r
<1>3. CASE ValidEnforce(r.enforce) = 0
  <2>1. r.enforce = 0
    BY <1>1, <1>3 DEF ValidEnforce, Config
  <2> QED BY <1>2, <2>1 DEF Allows
<1>4. CASE \E i \in 1..HostsMax : Matches(Validated(r).hosts[i], h)
  <2>1. PICK i \in 1..HostsMax : Matches(Validated(r).hosts[i], h)
    BY <1>4
  <2>2. Validated(r).hosts[i] = IF r.hosts[i] = Bad THEN Free ELSE r.hosts[i]
    BY <1>1 DEF Validated, Config
  <2>3. r.hosts[i] # Bad /\ Matches(r.hosts[i], h)
    BY <2>1, <2>2, SettingsAssumption DEF Matches
  <2>4. Matches(f.config.hosts[i], h)
    BY <1>2, <2>3
  <2> QED BY <2>4 DEF Allows
<1>5. Validated(r).enforce = ValidEnforce(r.enforce)
  BY <1>1 DEF Validated, Config
<1> QED BY <1>1, <1>3, <1>4, <1>5 DEF Allows

\* A torn save never opens the filter.
THEOREM TornShut == Spec => TornStaysShut
<1>1. ASSUME SettingsInv, Boot, flash.pages > 0, flash.config.magic = "V3"
      PROVE  \A h \in Names \union {Garbage} : Allows(cfg', h) => Allows(flash.config, h)
  <2>1. flash \in Written /\ cfg' = Loaded(flash)
    BY <1>1 DEF SettingsInv, TypeOK, Written, Boot
  <2> QED BY <1>1, <2>1, LoadedShut
<1>2. SettingsInv /\ [Next]_vars
        => [ Boot /\ flash.pages > 0 /\ flash.config.magic = "V3" =>
               \A h \in Names \union {Garbage} : Allows(cfg', h) => Allows(flash.config, h) ]_vars
  BY <1>1
<1> QED BY <1>2, Invariant, PTL DEF Spec, TornStaysShut

\* What the filter locks.
Guarded == {"ssid", "ip", "pass", "enforce", "hosts"}

\* No save, whole or cut short, tells the driver to join a network.
LEMMA KeepGuarded ==
  ASSUME NEW c, Keep(c)
  PROVE  cfg' = c /\ joined' \in {joined, None}
  BY DEF Keep, SaveTorn, SaveWhole, Halted, netVars

\* What the filter locks is as it was, and so is the network.
Unchanged ==
  /\ \A f \in Guarded : cfg'[f] = cfg[f]
  /\ joined' \in {joined, None}

LEMMA Others ==
  ASSUME cfg \in Sound, joined' \in {joined, None}
  PROVE  /\ \A v : cfg' = [cfg EXCEPT !.s0 = v] => Unchanged
         /\ \A v : cfg' = [cfg EXCEPT !.tls = v] => Unchanged
         /\ \A v : cfg' = [cfg EXCEPT !.usb = v] => Unchanged
         /\ \A v : cfg' = [cfg EXCEPT !.listen = v] => Unchanged
         /\ \A v : cfg' = [cfg EXCEPT !.tnfs = v] => Unchanged
         /\ \A v, h : cfg' = [cfg EXCEPT !.sntp = v, !.server = h] => Unchanged
         /\ cfg' = cfg => Unchanged
  BY DEF Sound, Unchanged, Guarded

LEMMA CommandGuarded ==
  ASSUME SettingsInv, cfg.enforce = 1, Command, ~Restore
  PROVE  Unchanged
<1>0. cfg \in Sound
  BY DEF SettingsInv, TypeOK
<1>1. Locked = {"CWJAP", "CWJAP_CUR", "CWDHCP", "CWDHCP_CUR", "CIPSTA", "CIPSTA_CUR",
                "CIPDNS", "CIPDNS_CUR", "APSETUPPWD"}
  BY <1>0 DEF Locked, Sound
<1>2. IpKinds \ Locked = {} /\ IpCurKinds \ Locked = {}
  BY <1>1 DEF IpKinds, IpCurKinds
<1>3. ASSUME NEW s \in Networks \union {None}, CwjapDef(s) PROVE FALSE
  BY <1>1, <1>3 DEF CwjapDef
<1>4. ASSUME NEW v \in {"dhcp", "static"}, SetIpDef(v) \/ SetIpCur(v) PROVE Unchanged
  <2>1. CASE SetIpDef(v)
    BY <1>2, <2>1 DEF SetIpDef
  <2>2. CASE SetIpCur(v)
    BY <1>2, <2>2 DEF SetIpCur
  <2> QED BY <1>4, <2>1, <2>2
<1>5. ASSUME NEW w \in Passwords, ApSetupPwd(w) PROVE FALSE
  BY <1>1, <1>5 DEF ApSetupPwd
<1>6. ASSUME NEW v \in 0..1, SetS0(v) PROVE Unchanged
  <2>1. cfg' = [cfg EXCEPT !.s0 = v] /\ joined' \in {joined, None}
    BY <1>6, KeepGuarded DEF SetS0
  <2> QED BY <1>0, <2>1, Others
<1>7. ASSUME NEW v \in 0..1, TlsPort(v) PROVE Unchanged
  <2>1. cfg' = [cfg EXCEPT !.tls = v] /\ joined' \in {joined, None}
    BY <1>7, KeepGuarded DEF TlsPort
  <2> QED BY <1>0, <2>1, Others
<1>8. ASSUME NEW v \in 0..1, TnfsUsb(v) PROVE Unchanged
  <2>1. cfg' = [cfg EXCEPT !.usb = v] /\ joined' \in {joined, None}
    BY <1>8, KeepGuarded DEF TnfsUsb
  <2> QED BY <1>0, <2>1, Others
<1>9. ASSUME NEW v \in 0..1, CipServer(v) PROVE Unchanged
  <2>1. cfg' = [cfg EXCEPT !.listen = v] /\ joined' \in {joined, None}
    BY <1>9 DEF CipServer, SaveTorn, SaveWhole, Halted, netVars
  <2> QED BY <1>0, <2>1, Others
<1>10. ASSUME NEW h \in Names \union {None}, Tnfs(h) PROVE Unchanged
  <2>1. cfg' = [cfg EXCEPT !.tnfs = h] /\ joined' \in {joined, None}
    BY <1>10, KeepGuarded DEF Tnfs
  <2> QED BY <1>0, <2>1, Others
<1>11. ASSUME NEW v \in 0..1, NEW h \in Names, SntpCfg(v, h) PROVE Unchanged
  <2>1. cfg' = [cfg EXCEPT !.sntp = v, !.server = h] /\ joined' \in {joined, None}
    BY <1>11, KeepGuarded DEF SntpCfg
  <2> QED BY <1>0, <2>1, Others
<1>12. ASSUME NEW s \in Networks, CwjapCur(s) PROVE FALSE
  BY <1>1, <1>12 DEF CwjapCur
<1>13. Cwqap => Unchanged
  BY <1>0, Others DEF Cwqap
<1> QED
  BY <1>3, <1>4, <1>5, <1>6, <1>7, <1>8, <1>9, <1>10, <1>11, <1>12, <1>13
     DEF Command

\* While the filter is on only the page and AT+RESTORE change what it locks, and no
\* network is joined but the one that is saved.
THEOREM FilterLocks == Spec => FilterHolds
<1> DEFINE Astray == \/ \E f \in {"ssid", "ip", "pass", "enforce", "hosts"} : cfg'[f] # cfg[f]
                     \/ joined' \notin {joined, cfg.ssid, None}
<1>1. ASSUME SettingsInv, Next, on, cfg.enforce = 1, Astray
      PROVE  Form \/ Restore
  <2>1. Command => Restore
    BY <1>1, CommandGuarded DEF Unchanged, Guarded
  <2>2. ~Boot /\ ~PowerLoss
    BY <1>1 DEF Boot, PowerLoss, Halted
  <2>3. ~LinkUp /\ ~LinkUpLate /\ ~LinkDown
    BY <1>1 DEF LinkUp, LinkUpLate, LinkDown
  <2> QED BY <1>1, <2>1, <2>2, <2>3 DEF Next
<1>2. SettingsInv /\ [Next]_vars
        => [ /\ on /\ cfg.enforce = 1
             /\ \/ \E f \in {"ssid", "ip", "pass", "enforce", "hosts"} : cfg'[f] # cfg[f]
                \/ joined' \notin {joined, cfg.ssid, None}
             => Form \/ Restore ]_vars
  BY <1>1
<1> QED BY <1>2, Invariant, PTL DEF Spec, FilterHolds
=============================================================================
