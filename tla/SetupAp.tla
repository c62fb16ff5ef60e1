------------------------------- MODULE SetupAp -------------------------------
(***************************************************************************)
(* The setup access point (ap_pico.c) with the background join it drives   *)
(* (net_pico.c): the main loop, ap_pico_poll step by step, and between two *)
(* of its steps the lwIP callbacks that bring the forms of the web page,   *)
(* the Wi-Fi driver and the clock.                                         *)
(*                                                                         *)
(* A time stamp t is kept as the age now - t, which is all the code uses.  *)
(* form stands for form and join_ssid, which on_http_recv writes together; *)
(* a password is part of what the driver answers. What is saved is a       *)
(* network. The reasons of a failure are not told apart; the list of hosts *)
(* and the search for networks are left out.                               *)
(***************************************************************************)
EXTENDS Integers

CONSTANTS
  Networks, None,
  Idle,      \* AP_IDLE_CLOSE_MS
  OkClose,   \* AP_OK_CLOSE_MS
  JoinTime,  \* 30 s
  MaxLag,    \* bound: ticks between the reading of now and its use at the end of the poll
  Width,     \* a duration is unsigned: 2^32
  CwjapWhileJoining  \* the program may use AT+CWJAP while the page joins a network

ASSUME SetupApAssumption ==
  /\ None \notin Networks \cup {"idle", "running", "ok", "failed"}
  /\ Idle \in Nat \ {0} /\ OkClose \in Nat \ {0} /\ JoinTime \in Nat /\ MaxLag \in Nat
  /\ CwjapWhileJoining \in BOOLEAN
  /\ Width \in Nat /\ Width > Idle + OkClose + 2 * MaxLag

VARIABLES
  active, autoChecked,                             \* the access point
  httpAge, okAge,                                  \* last_http_ms, ok_ms
  form, formPending,                               \* from the callbacks to the poll
  joinState, joinAge,                              \* join_state, join_t0
  saved,                                           \* cfg.ssid, in flash too
  joined, bgEnabled, bgWasUp,                      \* net_pico.c
  link, net, leaving,                              \* the driver: status, network, cyw43_wifi_leave begun
  pc, verdict, lag                                 \* the main loop; lag: age of its `now'

apVars   == <<active, autoChecked, httpAge, okAge>>
formVars == <<form, formPending>>
joinVars == <<joinState, joinAge>>
bgVars   == <<joined, bgEnabled, bgWasUp>>
linkVars == <<link, net, leaving>>
loopVars == <<pc, verdict, lag>>
vars == <<apVars, formVars, joinVars, saved, bgVars, linkVars, loopVars>>

Never == -1
JoinStates == {"idle", "running", "ok", "failed"}
Failures == {"down", "badauth"}

TypeOK ==
  /\ active \in BOOLEAN /\ autoChecked \in BOOLEAN
  /\ httpAge \in 0..Idle+MaxLag /\ okAge \in {Never} \cup 0..OkClose+MaxLag
  /\ form \in Networks \cup {None} /\ formPending \in BOOLEAN
  /\ joinState \in JoinStates /\ joinAge \in 0..JoinTime+1
  /\ saved \in Networks \cup {None}
  /\ joined \in Networks \cup {None} /\ bgEnabled \in BOOLEAN /\ bgWasUp \in BOOLEAN
  /\ link \in {"join", "up"} \cup Failures /\ net \in Networks \cup {None} /\ leaving \in BOOLEAN
  /\ pc \in {"loop", "cwjap", "open", "form", "leave", "join", "verdict", "times", "close"}
  /\ verdict \in JoinStates \cup {None} /\ lag \in 0..MaxLag

Init ==
  /\ saved \in Networks \cup {None}
  /\ active = FALSE /\ autoChecked = FALSE /\ httpAge = 0 /\ okAge = Never
  /\ form = None /\ formPending = FALSE
  /\ joinState = "idle" /\ joinAge = 0
  /\ joined = None /\ bgEnabled = (saved # None) /\ bgWasUp = FALSE
  /\ link = "down" /\ net = None /\ leaving = FALSE
  /\ pc = "loop" /\ verdict = None /\ lag = 0


-----------------------------------------------------------------------------
(* The page: lwIP callbacks, at any moment while the access point is open. *)

HttpGet ==
  /\ active /\ httpAge' = 0
  /\ UNCHANGED <<active, autoChecked, okAge, formVars, joinVars, saved, bgVars, linkVars, loopVars>>

SubmitForm ==
  /\ active /\ httpAge' = 0
  /\ form' \in Networks /\ formPending' = TRUE /\ joinState' = "running"
  /\ UNCHANGED <<active, autoChecked, okAge, joinAge,
                 saved, bgVars, linkVars, loopVars>>

Http == HttpGet \/ SubmitForm

-----------------------------------------------------------------------------
(* AT commands, between two polls.                                         *)

ApOpen ==
  /\ active' = TRUE /\ httpAge' = 0 /\ okAge' = Never /\ joinState' = "idle"
  /\ UNCHANGED <<formVars, joinAge>>

ApClose == active' = FALSE /\ UNCHANGED <<autoChecked, httpAge, okAge>>

\* AT+APSETUP=1 (nothing when it is open), AT+APSETUP=0.
ApSetup ==
  /\ pc = "loop"
  /\ \/ ~active /\ ApOpen /\ UNCHANGED autoChecked
     \/ active /\ ApClose /\ UNCHANGED <<formVars, joinVars>>
  /\ UNCHANGED <<saved, bgVars, linkVars, loopVars>>

\* cyw43_arch_wifi_connect_async.
Connect(n) == link' = "join" /\ net' = n /\ leaving' = FALSE

\* AT+CWJAP (keeps the network) and AT+CWJAP_CUR.
Cwjap ==
  /\ pc = "loop" /\ (joinState = "running" => CwjapWhileJoining)
  /\ \E n \in Networks : Connect(n) /\ (saved' = n \/ saved' = saved)
  /\ bgEnabled' = FALSE /\ pc' = "cwjap"
  /\ UNCHANGED <<apVars, formVars, joinVars, joined, bgWasUp,
                 verdict, lag>>

\* wifi_join returns: up, refused, or after 30 s.
CwjapEnd ==
  /\ pc = "cwjap" /\ pc' = "loop"
  /\ IF link = "up"
       THEN joined' = net /\ bgWasUp' = TRUE /\ bgEnabled' = TRUE
       ELSE UNCHANGED bgVars
  /\ UNCHANGED <<apVars, formVars, joinVars, saved, linkVars, verdict, lag>>

\* AT+RST, or the watchdog in the middle of anything: RAM is lost.
Reset ==
  /\ saved' = saved
  /\ active' = FALSE /\ autoChecked' = FALSE /\ httpAge' = 0 /\ okAge' = Never
  /\ form' = None /\ formPending' = FALSE
  /\ joinState' = "idle" /\ joinAge' = 0
  /\ joined' = None /\ bgEnabled' = (saved # None) /\ bgWasUp' = FALSE
  /\ link' = "down" /\ net' = None /\ leaving' = FALSE
  /\ pc' = "loop" /\ verdict' = None /\ lag' = 0

-----------------------------------------------------------------------------
(* net_pico_poll: bg_poll, then ap_pico_poll step by step.                 *)

\* An attempt every BG_RETRY_MS: whether it is time is left open.
BgPoll ==
  /\ pc = "loop" /\ pc' = "open"
  /\ \/ (~bgEnabled \/ saved = None) /\ UNCHANGED <<bgVars, linkVars>>
     \/ /\ bgEnabled /\ saved # None /\ link = "up"
        /\ joined' = IF bgWasUp THEN joined ELSE saved
        /\ bgWasUp' = TRUE
        /\ UNCHANGED <<bgEnabled, linkVars>>
     \/ /\ bgEnabled /\ saved # None /\ link # "up"
        /\ bgWasUp' = FALSE
        /\ UNCHANGED linkVars \/ (link \in Failures /\ Connect(saved))
        /\ UNCHANGED <<joined, bgEnabled>>
  /\ UNCHANGED <<apVars, formVars, joinVars, saved, verdict, lag>>

\* The automatic opening, once: no network saved, or not up after 60 s.
AutoOpen ==
  /\ pc = "open"
  /\ \/ ~autoChecked /\ autoChecked' = TRUE
        /\ IF active \/ (saved # None /\ link = "up")
             THEN UNCHANGED <<active, httpAge, okAge, formVars, joinVars>>
             ELSE ApOpen
     \/ /\ autoChecked \/ saved # None
        /\ UNCHANGED <<apVars, formVars, joinVars>>
  /\ pc' = IF active' THEN "form" ELSE "loop"
  /\ UNCHANGED <<saved, bgVars, linkVars, verdict, lag>>

\* A form is taken, saved, and the present network left (net_pico_join_saved).
TakeForm ==
  /\ pc = "form" /\ formPending
  /\ formPending' = FALSE
  /\ saved' = form /\ joinAge' = 0
  /\ bgEnabled' = FALSE /\ joined' = None
  /\ leaving' = (link = "up") /\ link' = (IF link = "up" THEN "up" ELSE "down")
  /\ pc' = "leave"
  /\ UNCHANGED <<apVars, form, joinState,
                 bgWasUp, net, verdict, lag>>

NoForm ==
  /\ pc = "form" /\ ~formPending /\ pc' = "join"
  /\ UNCHANGED <<apVars, formVars, joinVars, saved, bgVars, linkVars, verdict, lag>>

NotWaited == TRUE                                                  \* mutant
LinkLeft == link # "up"

\* The old association has ended (in less than the 2 s the code allows it).
LeaveDoneLate ==                                                   \* mutant
  /\ pc = "leave" /\ LinkLeft /\ pc' = "join"
  /\ bgEnabled' = TRUE /\ bgWasUp' = FALSE /\ formPending' = FALSE
  /\ UNCHANGED <<apVars, form, joinVars, saved, joined, linkVars, verdict, lag>>
LeaveDone ==
  /\ pc = "leave" /\ LinkLeft /\ pc' = "join"
  /\ bgEnabled' = TRUE /\ bgWasUp' = FALSE
  /\ UNCHANGED <<apVars, formVars, joinVars, saved, joined, linkVars, verdict, lag>>

-----------------------------------------------------------------------------
(* poll_join: what it sees, then what it writes.                           *)

NeverExpired == FALSE                                              \* mutant
Expired == joinAge > JoinTime

Verdict ==
  IF joinState # "running" THEN None
  ELSE IF link = "up" /\ joined = form THEN "ok"
  ELSE IF link = "badauth" \/ Expired THEN "failed"
  ELSE None

PollJoin ==
  /\ pc = "join"
  /\ verdict' = Verdict
  /\ pc' = IF Verdict = None THEN "times" ELSE "verdict"
  /\ UNCHANGED <<apVars, formVars, joinState, joinAge, saved, bgVars, linkVars, lag>>

WriteVerdict ==
  /\ pc = "verdict" /\ pc' = "times" /\ verdict' = None
  /\ joinState' = verdict
  /\ okAge' = IF verdict = "ok" THEN 0 ELSE okAge
  /\ UNCHANGED <<active, autoChecked, httpAge, formVars, joinAge, saved, bgVars,
                 linkVars, lag>>

-----------------------------------------------------------------------------
(* The end of the poll: now is read, then the access point closes or not.  *)

ReadNow ==
  /\ pc = "times" /\ pc' = "close" /\ lag' = 0
  /\ UNCHANGED <<apVars, formVars, joinVars, saved, bgVars, linkVars, verdict>>

\* now - t: unsigned, whatever of the two is the later.
Elapsed(age) == (age - lag) % Width

OkOnly == okAge # Never /\ Elapsed(okAge) >= OkClose               \* mutant
TimeToClose ==
  \/ okAge # Never /\ Elapsed(okAge) >= OkClose
  \/ Elapsed(httpAge) >= Idle

EndOfPoll ==
  /\ pc = "close" /\ pc' = "loop" /\ lag' = 0
  /\ IF TimeToClose THEN ApClose ELSE UNCHANGED apVars
  /\ UNCHANGED <<formVars, joinVars, saved, bgVars, linkVars, verdict>>

-----------------------------------------------------------------------------
(* The driver and the clock.                                               *)

JoinAnswer ==
  /\ link = "join" /\ link' \in {"up", "badauth", "down"}
  /\ UNCHANGED <<apVars, formVars, joinVars, saved, bgVars, net, leaving, loopVars>>

LinkLost ==
  /\ link = "up" /\ link' = "down" /\ leaving' = FALSE
  /\ UNCHANGED <<apVars, formVars, joinVars, saved, bgVars, net, loopVars>>

Left == leaving /\ LinkLost

Aged(age, cap) == IF age < cap THEN age + 1 ELSE age

Tick ==
  /\ active
  /\ pc = "close" => lag < MaxLag
  /\ lag' = IF pc = "close" THEN lag + 1 ELSE lag
  /\ httpAge' = Aged(httpAge, Idle + MaxLag)
  /\ okAge' = IF okAge = Never THEN Never ELSE Aged(okAge, OkClose + MaxLag)
  /\ joinAge' = Aged(joinAge, JoinTime + 1)
  /\ UNCHANGED <<active, autoChecked, formVars, joinState, saved, bgVars, linkVars,
                 pc, verdict>>

-----------------------------------------------------------------------------

Commands == ApSetup \/ Cwjap

Loop ==
  \/ BgPoll \/ AutoOpen \/ TakeForm \/ NoForm \/ LeaveDone
  \/ PollJoin \/ WriteVerdict \/ ReadNow \/ EndOfPoll \/ CwjapEnd

Driver == JoinAnswer \/ LinkLost

Next == Http \/ Commands \/ Reset \/ Loop \/ Driver \/ Tick

Spec == Init /\ [][Next]_vars

\* The main loop never stops, an association left ends, time passes.
FairSpec == Spec /\ WF_vars(Loop) /\ SF_vars(BgPoll) /\ WF_vars(Left) /\ WF_vars(Tick)

-----------------------------------------------------------------------------

\* The page says of the network of a form it has taken that it is joined when the
\* station is on that one, not on the one it is leaving or an earlier one.
OkIsTrue ==
  [][pc = "join" /\ verdict' = "ok" /\ ~formPending => link = "up" /\ net = form]_vars

\* The last form submitted is saved, unless the access point closes first.
FormSaved == (active /\ formPending) ~> (saved = form \/ ~active)

\* The page does not say "connecting" for ever.
JoinEnds == <>[][~SubmitForm]_vars => []<>(joinState # "running" \/ ~active)

\* Without requests any more, the access point closes.
IdleCloses == <>[][~Http]_vars => []<>~active
=============================================================================
