--------------------------- MODULE SetupApProofs ---------------------------
(***************************************************************************)
(* The page does not say of a network it has left, or never joined, that   *)
(* the station is on it, whatever the forms, the driver and the clock do.  *)
(***************************************************************************)
EXTENDS SetupAp, TLAPS

-----------------------------------------------------------------------------
(* The types.                                                              *)

FlagsOK ==
  /\ active \in BOOLEAN /\ autoChecked \in BOOLEAN /\ formPending \in BOOLEAN
  /\ bgEnabled \in BOOLEAN /\ bgWasUp \in BOOLEAN /\ leaving \in BOOLEAN

AgesOK ==
  /\ httpAge \in 0..Idle + MaxLag /\ okAge \in {Never} \cup 0..OkClose + MaxLag
  /\ joinAge \in 0..JoinTime + 1 /\ lag \in 0..MaxLag

NamesOK ==
  /\ form \in Networks \cup {None} /\ saved \in Networks \cup {None}
  /\ joined \in Networks \cup {None} /\ net \in Networks \cup {None}
  /\ link \in {"join", "up"} \cup Failures
  /\ joinState \in JoinStates
  /\ pc \in {"loop", "cwjap", "open", "form", "leave", "join", "verdict", "times", "close"}
  /\ verdict \in JoinStates \cup {None}

LEMMA TypeParts == TypeOK <=> FlagsOK /\ AgesOK /\ NamesOK
BY DEF TypeOK, FlagsOK, AgesOK, NamesOK

LEMMA TypePartsNext == TypeOK' <=> FlagsOK' /\ AgesOK' /\ NamesOK'
BY TypeParts, PTL

\* A verdict is kept from what poll_join sees to what it writes, and no longer.
VerdictOK == IF pc = "verdict" THEN verdict \in {"ok", "failed"} ELSE verdict = None

\* Once a form is taken, the network saved is the one it names, and when the old
\* association is over the driver is told of no other.
OnForm ==
  joinState = "running" /\ ~formPending =>
    /\ saved = form /\ form \in Networks
    /\ pc = "leave" => link # "join"
    /\ pc # "leave" /\ link \in {"join", "up"} => net = form

\* A form that is pending names a network.
FormNamed == formPending => form \in Networks

Steps ==
  \/ HttpGet \/ SubmitForm \/ ApSetup \/ Cwjap \/ Reset
  \/ BgPoll \/ AutoOpen \/ TakeForm \/ NoForm \/ LeaveDone
  \/ PollJoin \/ WriteVerdict \/ ReadNow \/ EndOfPoll \/ CwjapEnd
  \/ JoinAnswer \/ LinkLost \/ Tick

LEMMA NextIsSteps == Next => Steps
BY DEF Next, Http, Commands, Loop, Driver, Steps

LEMMA FlagsKept == FlagsOK /\ Next => FlagsOK'
<1> SUFFICES ASSUME FlagsOK, Steps PROVE FlagsOK'
  BY NextIsSteps
<1> USE DEF FlagsOK, apVars, formVars, joinVars, bgVars, linkVars, loopVars
<1>1. CASE HttpGet \/ SubmitForm \/ ApSetup \/ Cwjap \/ Reset
  BY <1>1 DEF HttpGet, SubmitForm, ApSetup, ApOpen, ApClose, Cwjap, Connect, Reset
<1>2. CASE BgPoll
  BY <1>2 DEF BgPoll, Connect
<1>3. CASE AutoOpen \/ TakeForm \/ NoForm \/ LeaveDone
  BY <1>3 DEF AutoOpen, ApOpen, TakeForm, NoForm, LeaveDone
<1>4. CASE PollJoin \/ WriteVerdict \/ ReadNow \/ EndOfPoll \/ CwjapEnd
  BY <1>4 DEF PollJoin, WriteVerdict, ReadNow, EndOfPoll, ApClose, CwjapEnd
<1>5. CASE JoinAnswer \/ LinkLost \/ Tick
  BY <1>5 DEF JoinAnswer, LinkLost, Tick
<1> QED
  BY <1>1, <1>2, <1>3, <1>4, <1>5 DEF Steps

LEMMA AgesKept == AgesOK /\ Next => AgesOK'
<1> SUFFICES ASSUME AgesOK, Steps PROVE AgesOK'
  BY NextIsSteps
<1> USE SetupApAssumption DEF AgesOK, Never
<1>1. CASE HttpGet \/ SubmitForm \/ ApSetup \/ Cwjap \/ Reset
  BY <1>1 DEF HttpGet, SubmitForm, ApSetup, ApOpen, ApClose, Cwjap, Reset, apVars, joinVars,
              loopVars
<1>2. CASE BgPoll \/ AutoOpen \/ TakeForm \/ NoForm \/ LeaveDone
  BY <1>2 DEF BgPoll, AutoOpen, ApOpen, TakeForm, NoForm, LeaveDone, apVars, joinVars
<1>3. CASE PollJoin \/ WriteVerdict \/ ReadNow \/ EndOfPoll \/ CwjapEnd
  BY <1>3 DEF PollJoin, WriteVerdict, ReadNow, EndOfPoll, ApClose, CwjapEnd, apVars, joinVars
<1>4. CASE JoinAnswer \/ LinkLost
  BY <1>4 DEF JoinAnswer, LinkLost, apVars, joinVars, loopVars
<1>5. CASE Tick
  BY <1>5 DEF Tick, Aged
<1> QED
  BY <1>1, <1>2, <1>3, <1>4, <1>5 DEF Steps

LEMMA NamesKept == NamesOK /\ VerdictOK /\ Next => NamesOK' /\ VerdictOK'
<1> SUFFICES ASSUME NamesOK, VerdictOK, Steps PROVE NamesOK' /\ VerdictOK'
  BY NextIsSteps
<1> USE SetupApAssumption
        DEF NamesOK, VerdictOK, Failures, JoinStates,
            formVars, joinVars, bgVars, linkVars, loopVars
<1>1. CASE HttpGet \/ SubmitForm \/ ApSetup \/ Cwjap \/ Reset
  BY <1>1 DEF HttpGet, SubmitForm, ApSetup, ApOpen, Cwjap, Connect, Reset
<1>2. CASE BgPoll
  BY <1>2 DEF BgPoll, Connect
<1>3. CASE AutoOpen \/ TakeForm \/ NoForm \/ LeaveDone
  BY <1>3 DEF AutoOpen, ApOpen, TakeForm, NoForm, LeaveDone
<1>4. CASE PollJoin
  BY <1>4 DEF PollJoin, Verdict
<1>5. CASE WriteVerdict \/ ReadNow \/ EndOfPoll \/ CwjapEnd
  BY <1>5 DEF WriteVerdict, ReadNow, EndOfPoll, CwjapEnd
<1>6. CASE JoinAnswer \/ LinkLost \/ Tick
  BY <1>6 DEF JoinAnswer, LinkLost, Tick
<1> QED
  BY <1>1, <1>2, <1>3, <1>4, <1>5, <1>6 DEF Steps

-----------------------------------------------------------------------------
(* What the driver is told.                                                *)

\* No step but TakeForm makes a form taken, and from there on only bg_poll connects.
LEMMA OnFormKept ==
  ASSUME CwjapWhileJoining = FALSE, NamesOK, VerdictOK, FormNamed, OnForm, Next
  PROVE  FormNamed' /\ OnForm'
<1> USE SetupApAssumption
        DEF NamesOK, FormNamed, OnForm, Failures, JoinStates,
            formVars, joinVars, bgVars, linkVars, loopVars
<1>1. CASE HttpGet \/ SubmitForm \/ ApSetup \/ Cwjap \/ Reset
  BY <1>1 DEF HttpGet, SubmitForm, ApSetup, ApOpen, Cwjap, Connect, Reset
<1>2. CASE BgPoll
  BY <1>2 DEF BgPoll, Connect
<1>3. CASE AutoOpen
  BY <1>3 DEF AutoOpen, ApOpen
<1>4. CASE TakeForm
  BY <1>4 DEF TakeForm
<1>5. CASE NoForm \/ LeaveDone
  BY <1>5 DEF NoForm, LeaveDone, LinkLeft
<1>6. CASE PollJoin \/ ReadNow \/ EndOfPoll \/ CwjapEnd
  BY <1>6 DEF PollJoin, ReadNow, EndOfPoll, CwjapEnd
<1>7. CASE WriteVerdict
  BY <1>7 DEF WriteVerdict, VerdictOK
<1>8. CASE JoinAnswer \/ LinkLost \/ Tick
  BY <1>8 DEF JoinAnswer, LinkLost, Tick
<1> QED
  BY <1>1, <1>2, <1>3, <1>4, <1>5, <1>6, <1>7, <1>8, NextIsSteps DEF Steps

-----------------------------------------------------------------------------
(* The theorems.                                                           *)

TypeInv == TypeOK /\ VerdictOK

LEMMA TypeStep == TypeInv /\ [Next]_vars => TypeInv'
<1> SUFFICES ASSUME TypeInv, [Next]_vars PROVE TypeInv'
  OBVIOUS
<1>1. CASE Next
  BY <1>1, TypeParts, TypePartsNext, FlagsKept, AgesKept, NamesKept DEF TypeInv
<1>2. CASE UNCHANGED vars
  BY <1>2 DEF vars, apVars, formVars, joinVars, bgVars, linkVars, loopVars, TypeInv, TypeOK,
              VerdictOK
<1> QED
  BY <1>1, <1>2

LEMMA TypeStart == Init => TypeInv
<1> SUFFICES ASSUME Init PROVE TypeInv
  OBVIOUS
<1>1. FlagsOK
  BY DEF Init, FlagsOK
<1>2. AgesOK
  BY SetupApAssumption DEF Init, AgesOK, Never
<1>3. NamesOK /\ VerdictOK
  BY DEF Init, NamesOK, VerdictOK, Failures, JoinStates
<1> QED
  BY <1>1, <1>2, <1>3, TypeParts DEF TypeInv

\* The state of ap_pico.c and of the background join keeps its types.
THEOREM TypeCorrect == Spec => []TypeOK
<1>1. TypeInv => TypeOK
  BY DEF TypeInv
<1> QED
  BY <1>1, TypeStart, TypeStep, PTL DEF Spec

ApInv == TypeInv /\ FormNamed /\ OnForm

LEMMA ApStep ==
  CwjapWhileJoining = FALSE => (ApInv /\ [Next]_vars => ApInv')
<1> SUFFICES ASSUME CwjapWhileJoining = FALSE, ApInv, [Next]_vars PROVE ApInv'
  OBVIOUS
<1>1. TypeInv'
  BY TypeStep DEF ApInv
<1>2. CASE Next
  BY <1>1, <1>2, OnFormKept, TypeParts DEF ApInv, TypeInv
<1>3. CASE UNCHANGED vars
  BY <1>1, <1>3 DEF vars, formVars, joinVars, linkVars, loopVars, ApInv, FormNamed, OnForm
<1> QED
  BY <1>2, <1>3

\* The page says of the network of a form it has taken that it is joined when the
\* station is on that one (poll_join), unless the program uses AT+CWJAP meanwhile.
THEOREM OkTrue == CwjapWhileJoining = FALSE /\ Spec => OkIsTrue
<1> SUFFICES ASSUME CwjapWhileJoining = FALSE PROVE Spec => OkIsTrue
  OBVIOUS
<1>1. Init => ApInv
  BY TypeStart DEF Init, ApInv, FormNamed, OnForm
<1>2. ASSUME ApInv, Next
      PROVE  pc = "join" /\ verdict' = "ok" /\ ~formPending => link = "up" /\ net = form
  <2> SUFFICES ASSUME pc = "join", verdict' = "ok", ~formPending
               PROVE  link = "up" /\ net = form
    OBVIOUS
  <2>1. verdict = None /\ None # "ok"
    BY <1>2, SetupApAssumption DEF ApInv, TypeInv, VerdictOK
  <2>2. CASE PollJoin
    <3>1. Verdict = "ok"
      BY <2>2 DEF PollJoin
    <3>2. joinState = "running" /\ link = "up"
      BY <2>1, <3>1 DEF Verdict
    <3> QED
      BY <1>2, <3>2 DEF ApInv, OnForm
  <2>3. CASE ~PollJoin
    <3>1. verdict' = verdict \/ verdict' = None
      BY <1>2, <2>3, NextIsSteps
         DEF Steps, HttpGet, SubmitForm, ApSetup, Cwjap, Reset, BgPoll, AutoOpen, TakeForm,
             NoForm, LeaveDone, WriteVerdict, ReadNow, EndOfPoll, CwjapEnd, JoinAnswer,
             LinkLost, Tick, loopVars
    <3> QED
      BY <2>1, <3>1
  <2> QED
    BY <2>2, <2>3
<1>3. ApInv /\ [Next]_vars
      => [pc = "join" /\ verdict' = "ok" /\ ~formPending => link = "up" /\ net = form]_vars
  BY <1>2
<1>4. ApInv /\ [Next]_vars => ApInv'
  BY ApStep
<1> QED
  BY <1>1, <1>3, <1>4, PTL DEF Spec, OkIsTrue
=============================================================================
