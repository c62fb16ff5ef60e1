-------------------------- MODULE HttpSessionProofs --------------------------
(* Theorems about AT+HTTPGET and AT+HTTPREAD, for any hosts, any bounds of   *)
(* the code and any answers of the servers.                                *)
EXTENDS HttpSession, SequenceTheorems, WellFoundedInduction, TLAPS

-----------------------------------------------------------------------------
(* Where the link is.                                                      *)

\* NothingLeft and AllowedHosts are not inductive: a new command keeps the link of
\* the last one unless a session is active, and a redirection changes url.
LinkInv ==
  /\ url \in Hosts
  /\ active \in BOOLEAN
  /\ AllowedHosts
  /\ ~active => phase \in {"idle", "ask", "header", "judge"}
  /\ active => phase \in {"idle", "read", "empty"}
  /\ ~active /\ phase \in {"idle", "ask"} => ~link /\ ~closed

LEMMA LinkInvInit == Init => LinkInv
  BY DEF Init, LinkInv, AllowedHosts

LEMMA ResolvedIsHost ==
  ASSUME NEW base \in Hosts, NEW location \in Locations, NEW u \in Resolved(base, location)
  PROVE  u \in Hosts
  BY DEF Resolved, Locations

LEMMA HungUp ==
  ASSUME url' \in Hosts, Hangup, phase' \in {"idle", "ask"}
  PROVE  LinkInv'
  BY DEF Hangup, SessionEnds, LinkInv, AllowedHosts

LEMMA Failed == ASSUME LinkInv, Fail PROVE LinkInv'
  BY HungUp DEF Fail, LeaveGet, LinkInv

LEMMA SessionSame == UNCHANGED sessionVars => UNCHANGED active
  BY DEF sessionVars, httpVars

LEMMA LinkInvGetting ==
  ASSUME LinkInv, Getting, phase = "judge" /\ Followed => Targets(resp) \subseteq Hosts
  PROVE  LinkInv'
<1>1. CASE Refused
  BY <1>1, SessionSame DEF Refused, LeaveGet, linkVars, LinkInv, AllowedHosts
<1>2. CASE ConnectFails
  BY <1>2, SessionSame DEF ConnectFails, LeaveGet, LinkInv, AllowedHosts
<1>3. CASE RequestSent
  BY <1>3, SessionSame DEF RequestSent, MayAsk, LinkInv, AllowedHosts
<1>4. CASE SendFails \/ HeaderStops \/ Malformed
  BY <1>4, Failed DEF SendFails, HeaderStops, Malformed
<1>5. CASE Redirect
  BY <1>5, HungUp DEF Redirect
<1>6. CASE SessionStarts
  BY <1>6 DEF SessionStarts, LeaveGet, linkVars, LinkInv, AllowedHosts
<1>7. ASSUME NEW line, HeaderBlank(line) PROVE LinkInv'
  <2>1. CASE Fail
    BY <2>1, Failed
  <2>2. CASE phase' = "judge" /\ UNCHANGED <<url, hop, first, linkVars, sessionVars, seen>>
    BY <1>7, <2>2, SessionSame DEF HeaderBlank, linkVars, LinkInv, AllowedHosts
  <2> QED BY <1>7, <2>1, <2>2 DEF HeaderBlank
<1>8. ASSUME NEW line, NEW long \in BOOLEAN, HeaderLine(line, long) PROVE LinkInv'
  <2>1. CASE Fail
    BY <2>1, Failed
  <2>2. CASE UNCHANGED <<phase, url, hop, linkVars, sessionVars>>
    BY <2>2, SessionSame DEF linkVars, LinkInv, AllowedHosts
  <2> QED BY <1>8, <2>1, <2>2 DEF HeaderLine
<1> QED
  BY <1>1, <1>2, <1>3, <1>4, <1>5, <1>6, <1>7, <1>8 DEF Getting, Asking, Judging

LEMMA LinkInvServing ==
  ASSUME LinkInv, Serving
  PROVE  LinkInv'
<1> USE DEF LinkInv, AllowedHosts, getVars, linkVars, httpVars
<1>1. CASE Take
  BY <1>1 DEF Take, Reading
<1>2. CASE Nothing \/ Ended \/ Wait
  BY <1>2 DEF Nothing, Ended, Wait, Reading
<1>3. CASE ReadFull \/ ReadShort
  BY <1>3 DEF ReadFull, ReadShort, Answer
<1> QED BY <1>1, <1>2, <1>3 DEF Serving

LEMMA LinkInvRest ==
  ASSUME LinkInv,
         \/ HttpClose \/ PeerCloses
         \/ \E u \in Hosts : HttpGet(u)
         \/ \E n \in 1..ReadMax : HttpRead(n)
         \/ \E b \in Bytes : Arrive(b)
  PROVE  LinkInv'
<1> USE DEF LinkInv, AllowedHosts, getVars, linkVars, httpVars
<1>1. CASE HttpClose
  BY <1>1, HungUp DEF HttpClose
<1>2. CASE PeerCloses
  BY <1>2 DEF PeerCloses
<1>3. ASSUME NEW u \in Hosts, HttpGet(u) PROVE LinkInv'
  <2>1. CASE active
    BY <1>3, <2>1, HungUp DEF HttpGet
  <2>2. CASE ~active
    BY <1>3, <2>2, SessionSame DEF HttpGet
  <2> QED BY <2>1, <2>2 DEF LinkInv
<1>4. ASSUME NEW n \in 1..ReadMax, HttpRead(n) PROVE LinkInv'
  BY <1>4 DEF HttpRead
<1>5. ASSUME NEW b \in Bytes, Arrive(b) PROVE LinkInv'
  BY <1>5 DEF Arrive
<1> QED BY <1>1, <1>3, <1>4, <1>5, <1>2

-----------------------------------------------------------------------------
(* What the header means.                                                  *)

\* A set of natural numbers that is not empty has a least one.
LEMMA Least ==
  ASSUME NEW T \in SUBSET Nat, T # {}
  PROVE  \E n \in T : \A m \in T : n <= m
<1> DEFINE R == {p \in Nat \X Nat : p[1] < p[2]}
<1>1. IsWellFoundedOn(R, Nat)
  <2>1. R = OpToRel(<, Nat)
    BY DEF OpToRel
  <2> QED
    BY <2>1, NatLessThanWellFounded
<1>2. PICK n \in T : \A m \in T : <<m, n>> \notin R
  <2> HIDE DEF R
  <2> QED
    BY <1>1, WFMin
<1>3. \A m \in T : ~(m < n)
  BY <1>2
<1> QED
  BY <1>3

Names == {"length", "coding", "location"}

\* The last line of this name is one and the same in both.
HasLast(h, n) == Having(h, n) # {} => \E i \in Having(h, n) : \A j \in Having(h, n) : j <= i

SameField(n) ==
  /\ HasLast(hdr, n) /\ HasLast(seen, n)
  /\ Having(hdr, n) = {} <=> Having(seen, n) = {}
  /\ Having(hdr, n) # {} => LastOf(hdr, n) = LastOf(seen, n)

Honest(h) == \A i \in 2..Len(h) : h[i].name = "length" => h[i].bytes >= 0

\* HeaderMeant is not inductive: nothing is said of the header while its lines come.
HeaderInv ==
  /\ hdr \in Seq(Lines) /\ seen \in Seq(Lines)
  /\ first \in BOOLEAN
  /\ phase \in {"header", "judge"} =>
       /\ first => seen = <<>>
       /\ first /\ phase = "header" => hdr = <<>>
       /\ first /\ phase = "judge" => hdr # <<>> /\ hdr[1].name = "blank"
       /\ ~first => hdr # <<>> /\ seen # <<>> /\ hdr[1] = seen[1]
       /\ \A i \in 1..Len(hdr) : hdr[i].name = "blank" => phase = "judge" /\ i = Len(hdr)
       /\ Honest(hdr) <=> Honest(seen)
       /\ \A n \in Names : SameField(n)

LEMMA LastOfAppend ==
  ASSUME NEW h \in Seq(Lines), NEW l \in Lines, NEW n, HasLast(h, n)
  PROVE  /\ HasLast(Append(h, l), n)
         /\ l.name = n => /\ Having(Append(h, l), n) # {}
                          /\ LastOf(Append(h, l), n) = l
         /\ l.name # n => /\ Having(Append(h, l), n) = Having(h, n)
                          /\ Having(h, n) # {} => LastOf(Append(h, l), n) = LastOf(h, n)
<1> DEFINE g == Append(h, l)
           k == Len(h) + 1
<1>1. /\ g \in Seq(Lines) /\ Len(g) = k /\ g[k] = l
      /\ \A i \in 1..Len(h) : g[i] = h[i]
      /\ Len(h) \in Nat
  OBVIOUS
<1> HIDE DEF g
<1>2. CASE l.name = n
  <2>1. k \in Having(g, n) /\ \A j \in Having(g, n) : j <= k
    BY <1>1, <1>2 DEF Having
  <2> DEFINE i == CHOOSE i \in Having(g, n) : \A j \in Having(g, n) : j <= i
  <2>2. i \in Having(g, n) /\ \A j \in Having(g, n) : j <= i
    BY <2>1
  <2>3. i = k
    <3> HIDE DEF i
    <3>1. i <= k /\ k <= i
      BY <2>1, <2>2
    <3>2. i \in Int
      BY <2>2 DEF Having
    <3> QED BY <1>1, <3>1, <3>2
  <2>4. LastOf(g, n) = l
    BY <1>1, <2>3 DEF LastOf
  <2> QED BY <1>2, <2>1, <2>4 DEF g, HasLast
<1>3. CASE l.name # n
  <2>1. Having(g, n) = Having(h, n)
    BY <1>1, <1>3 DEF Having
  <2>2. ASSUME Having(h, n) # {} PROVE LastOf(g, n) = LastOf(h, n)
    <3> DEFINE i == CHOOSE i \in Having(h, n) : \A j \in Having(h, n) : j <= i
    <3>1. i \in Having(h, n)
      BY <2>2 DEF HasLast
    <3>2. g[i] = h[i]
      <4> HIDE DEF i
      <4> QED BY <1>1, <3>1 DEF Having
    <3>3. LastOf(g, n) = g[i] /\ LastOf(h, n) = h[i]
      BY <2>1 DEF LastOf
    <3> QED BY <3>2, <3>3
  <2> QED BY <1>3, <2>1, <2>2 DEF g, HasLast
<1> QED BY <1>2, <1>3

LEMMA AppendFirst ==
  ASSUME NEW h \in Seq(Lines), NEW l \in Lines
  PROVE  /\ Append(h, l) \in Seq(Lines) /\ Append(h, l) # <<>>
         /\ h # <<>> => Append(h, l)[1] = h[1]
         /\ h = <<>> => Append(h, l) = <<l>>
<1>1. /\ Append(h, l) \in Seq(Lines) /\ Len(Append(h, l)) = Len(h) + 1 /\ Len(h) \in Nat
      /\ \A i \in 1..Len(h) : Append(h, l)[i] = h[i]
  OBVIOUS
<1>2. Append(h, l) # <<>>
  BY <1>1
<1>3. h # <<>> => 1 \in 1..Len(h)
  OBVIOUS
<1>4. h = <<>> => Append(h, l) = <<l>>
  OBVIOUS
<1> QED BY <1>1, <1>2, <1>3, <1>4

LEMMA HonestAppend ==
  ASSUME NEW h \in Seq(Lines), NEW l \in Lines, h # <<>>
  PROVE  Honest(Append(h, l)) <=> Honest(h) /\ (l.name = "length" => l.bytes >= 0)
  BY DEF Honest

\* A line of this name is the last of them.
LEMMA LastThere ==
  ASSUME NEW h \in Seq(Lines), NEW n
  PROVE  HasLast(h, n)
<1> SUFFICES ASSUME Having(h, n) # {}
             PROVE  \E i \in Having(h, n) : \A j \in Having(h, n) : j <= i
  BY DEF HasLast
<1> DEFINE T == {Len(h) - i : i \in Having(h, n)}
<1>1. \A i \in Having(h, n) : i \in Nat /\ i <= Len(h)
  BY DEF Having
<1>2. T \in SUBSET Nat /\ T # {}
  BY <1>1
<1>3. PICK m \in T : \A k \in T : m <= k
  <2> HIDE DEF T
  <2> QED BY <1>2, Least
<1>4. PICK i \in Having(h, n) : m = Len(h) - i
  BY <1>3
<1>5. ASSUME NEW j \in Having(h, n) PROVE j <= i
  <2>1. Len(h) - i <= Len(h) - j
    BY <1>3, <1>4
  <2> QED BY <2>1, <1>1
<1> QED BY <1>5

LEMMA JoinedTyped == \A l \in Lines : Joined(l) \in Lines
<1> SUFFICES ASSUME NEW l \in Lines PROVE Joined(l) \in Lines
  OBVIOUS
<1>1. CASE l.name = "length"
  <2>1. l \in [name : {"length"}, crlf : BOOLEAN, bytes : {-1, 0, 2}]
    BY <1>1 DEF Lines, StatusLines, FieldLines, BlankLines
  <2>2. Joined(l) = [l EXCEPT !.bytes = -1]
    BY <1>1 DEF Joined
  <2> QED BY <2>1, <2>2 DEF Lines, FieldLines
<1>2. CASE l.name = "coding"
  <2>1. l \in [name : {"coding"}, crlf : BOOLEAN, coding : {"chunked", "other", "many"}]
    BY <1>2 DEF Lines, StatusLines, FieldLines, BlankLines
  <2>2. Joined(l) = [l EXCEPT !.coding = "other"]
    BY <1>2 DEF Joined
  <2> QED BY <2>1, <2>2 DEF Lines, FieldLines
<1>3. CASE l.name = "location" /\ l.location.form # "none" /\ ~l.location.fragment
  <2>1. l \in [name : {"location"}, crlf : BOOLEAN, location : Locations]
    BY <1>3 DEF Lines, StatusLines, FieldLines, BlankLines
  <2>2. Joined(l) = [l EXCEPT !.location = [form |-> "none"]]
    BY <1>3 DEF Joined
  <2>3. [form |-> "none"] \in Locations
    BY DEF Locations
  <2> HIDE DEF Locations
  <2> QED BY <2>1, <2>2, <2>3 DEF Lines, FieldLines
<1>4. CASE /\ l.name # "length" /\ l.name # "coding"
           /\ ~(l.name = "location" /\ l.location.form # "none" /\ ~l.location.fragment)
  BY <1>4 DEF Joined
<1> QED BY <1>1, <1>2, <1>3, <1>4

LEMMA ParsedTyped ==
  ASSUME NEW h \in Seq(Lines)
  PROVE  AsParsed(h) \in Seq(Lines) /\ Len(AsParsed(h)) = Len(h)
<1>1. Unread \in Lines
  BY DEF Unread, Lines, FieldLines
<1>2. \A i \in 1..Len(h) : h[i] \in Lines
  OBVIOUS
<1>3. \A i \in 1..Len(h) : AsParsed(h)[i] \in Lines
  BY <1>1, <1>2, JoinedTyped DEF AsParsed
<1>4. AsParsed(h) = [i \in 1..Len(h) |-> AsParsed(h)[i]]
  BY DEF AsParsed
<1> QED BY <1>3, <1>4

\* Lines that all end with CR LF are read as they are.
LEMMA ParsedWhole ==
  ASSUME NEW h \in Seq(Lines),
         \A i \in 1..Len(h) : h[i].name = "blank" => i = Len(h),
         \A i \in 1..Len(h) : h[i].name = "blank" \/ h[i].crlf
  PROVE  /\ Len(AsParsed(h)) = Len(h)
         /\ \A i \in 1..Len(h) : IF h[i].name = "blank" THEN AsParsed(h)[i].name \in {"blank", "other"}
                                                       ELSE AsParsed(h)[i] = h[i]
<1>1. ASSUME NEW i \in 1..Len(h)
      PROVE  IF h[i].name = "blank" THEN AsParsed(h)[i].name \in {"blank", "other"}
                                    ELSE AsParsed(h)[i] = h[i]
  <2>1. i = 1 \/ h[i - 1].crlf
    <3>1. i # 1 => i - 1 \in 1..Len(h) /\ i - 1 # Len(h)
      OBVIOUS
    <3> QED BY <3>1
  <2>2. CASE h[i].crlf
    <3>1. LineStarts(h, i)
      BY <2>1, <2>2 DEF LineStarts
    <3>2. AsParsed(h)[i] = h[i]
      BY <2>2, <3>1 DEF AsParsed
    <3> QED BY <3>2
  <2>3. CASE ~h[i].crlf
    <3>1. i = Len(h) /\ h[i].name = "blank"
      BY <2>3
    <3>2. ~LineStarts(h, i)
      BY <2>3, <3>1 DEF LineStarts
    <3>3. AsParsed(h)[i] = Unread
      BY <3>2 DEF AsParsed
    <3> QED BY <3>1, <3>3 DEF Unread
  <2> QED BY <2>2, <2>3
<1> QED BY <1>1, ParsedTyped

LEMMA StatusAlone ==
  ASSUME NEW l \in StatusLines
  PROVE  /\ Honest(<<l>>)
         /\ \A n \in Names : Having(<<l>>, n) = {} /\ HasLast(<<l>>, n)
  BY DEF Honest, Having, HasLast, StatusLines, Names

LEMMA NoneYet == Honest(<<>>) /\ \A n : Having(<<>>, n) = {} /\ HasLast(<<>>, n)
  BY DEF Honest, Having, HasLast

\* A line that comes, kept or not.
LEMMA LineKept ==
  ASSUME HeaderInv, phase = "header", NEW line \in LinesAt(Len(seen) + 1),
         seen' = Append(seen, line), first' = FALSE, phase' = "header",
         hdr' = IF first \/ Wanted(line) THEN Append(hdr, line) ELSE hdr
  PROVE  HeaderInv'
<1>1. line \in Lines /\ line.name # "blank"
  BY DEF LinesAt, Lines, StatusLines, FieldLines
<1>4. hdr \in Seq(Lines) /\ \A i \in 1..Len(hdr) : hdr[i].name # "blank"
  BY DEF HeaderInv
<1>5. \A i \in 1..Len(hdr') : hdr'[i].name # "blank"
  <2>1. CASE hdr' = hdr
    BY <1>4, <2>1
  <2>2. CASE hdr' = Append(hdr, line)
    <3>1. Len(hdr') = Len(hdr) + 1 /\ hdr'[Len(hdr) + 1] = line
          /\ \A i \in 1..Len(hdr) : hdr'[i] = hdr[i]
      BY <1>1, <1>4, <2>2
    <3> QED BY <1>1, <1>4, <3>1
  <2> QED BY <2>1, <2>2
<1>2. CASE first
  <2>1. hdr' = <<line>> /\ seen' = <<line>> /\ line \in StatusLines
    BY <1>2 DEF HeaderInv, LinesAt
  <2>2. hdr' \in Seq(Lines) /\ hdr' # <<>> /\ hdr'[1] = seen'[1]
    BY <1>1, <1>2, <2>1, AppendFirst DEF HeaderInv
  <2>3. \A n \in Names : SameField(n)'
    BY <2>1, StatusAlone DEF SameField
  <2> QED BY <1>5, <2>1, <2>2, <2>3, StatusAlone DEF HeaderInv
<1>3. CASE ~first
  <2>1. hdr \in Seq(Lines) /\ hdr # <<>> /\ seen \in Seq(Lines) /\ seen # <<>> /\ hdr[1] = seen[1]
    BY <1>3 DEF HeaderInv
  <2>2. CASE Wanted(line)
    <3>1. hdr' = Append(hdr, line)
      BY <2>2
    <3>2. ASSUME NEW n \in Names PROVE SameField(n)'
      <4>1. SameField(n)
        BY <3>2 DEF HeaderInv
      <4> HIDE DEF HasLast
      <4>2. HasLast(hdr', n) /\ HasLast(seen', n)
        BY <1>1, <2>1, <3>1, <4>1, LastOfAppend DEF SameField
      <4>3. CASE line.name = n
        <5>1. /\ Having(hdr', n) # {} /\ LastOf(hdr', n) = line
              /\ Having(seen', n) # {} /\ LastOf(seen', n) = line
          BY <1>1, <2>1, <3>1, <4>1, <4>3, LastOfAppend DEF SameField
        <5> QED BY <4>2, <5>1 DEF SameField
      <4>4. CASE line.name # n
        <5>1. /\ Having(hdr', n) = Having(hdr, n) /\ Having(seen', n) = Having(seen, n)
              /\ Having(hdr, n) # {} => LastOf(hdr', n) = LastOf(hdr, n)
              /\ Having(seen, n) # {} => LastOf(seen', n) = LastOf(seen, n)
          BY <1>1, <2>1, <3>1, <4>1, <4>4, LastOfAppend DEF SameField
        <5> QED BY <4>1, <4>2, <5>1 DEF SameField
      <4> QED BY <4>3, <4>4
    <3>3. Honest(hdr') <=> Honest(seen')
      BY <1>1, <2>1, <3>1, HonestAppend DEF HeaderInv
    <3> QED BY <1>1, <1>5, <2>1, <3>1, <3>2, <3>3, AppendFirst DEF HeaderInv
  <2>3. CASE ~Wanted(line)
    <3>1. hdr' = hdr /\ line.name \notin Names
      BY <1>3, <2>3 DEF Wanted, Names
    <3>2. ASSUME NEW n \in Names PROVE SameField(n)'
      <4>1. line.name # n /\ SameField(n)
        BY <3>1, <3>2 DEF HeaderInv
      <4>2. HasLast(seen, n)
        BY <4>1 DEF SameField
      <4>3. /\ HasLast(seen', n) /\ Having(seen', n) = Having(seen, n)
            /\ Having(seen, n) # {} => LastOf(seen', n) = LastOf(seen, n)
        <5> HIDE DEF HasLast
        <5> QED BY <1>1, <2>1, <4>1, <4>2, LastOfAppend
      <4> HIDE DEF HasLast
      <4>4. HasLast(hdr', n) /\ Having(hdr', n) = Having(hdr, n) /\ LastOf(hdr', n) = LastOf(hdr, n)
        BY <3>1, <4>1 DEF SameField
      <4> QED BY <4>1, <4>3, <4>4 DEF SameField
    <3>3. Honest(hdr') <=> Honest(seen')
      BY <1>1, <2>1, <3>1, HonestAppend DEF HeaderInv, Names
    <3> QED BY <1>1, <1>5, <2>1, <3>1, <3>2, <3>3, AppendFirst DEF HeaderInv
  <2> QED BY <2>2, <2>3
<1> QED BY <1>2, <1>3 DEF HeaderInv

LEMMA MeaningSame ==
  ASSUME HeaderInv, phase = "judge", KeptWhole
  PROVE  Meaning(resp) = Meaning(seen)
<1>1. /\ Len(resp) = Len(hdr) /\ Len(hdr) \in Nat
      /\ \A i \in 1..Len(hdr) : IF hdr[i].name = "blank" THEN resp[i].name \in {"blank", "other"}
                                                        ELSE resp[i] = hdr[i]
  BY ParsedWhole DEF HeaderInv, KeptWhole, resp
<1>2. hdr # <<>> /\ 1 \in 1..Len(hdr) /\ resp # <<>>
  <2>1. hdr # <<>> /\ hdr \in Seq(Lines)
    BY DEF HeaderInv
  <2> QED BY <2>1, <1>1, ParsedTyped DEF resp
<1>3. CASE first
  <2>1. hdr[1].name = "blank" /\ seen = <<>>
    BY <1>3 DEF HeaderInv
  <2>2. ~WellFormed(resp) /\ ~WellFormed(seen)
    BY <1>1, <1>2, <2>1 DEF WellFormed
  <2> QED BY <2>2 DEF Meaning
<1>4. CASE ~first
  <2>1. hdr[1] = seen[1] /\ seen # <<>> /\ (Honest(hdr) <=> Honest(seen))
        /\ \A n \in Names : SameField(n)
    BY <1>4 DEF HeaderInv
  <2>2. Honest(resp) <=> Honest(hdr)
    BY <1>1 DEF Honest
  <2>3. ASSUME NEW n \in Names
        PROVE  /\ Having(resp, n) = {} <=> Having(seen, n) = {}
               /\ Having(resp, n) # {} => LastOf(resp, n) = LastOf(seen, n)
    <3>1. Having(resp, n) = Having(hdr, n)
      BY <1>1 DEF Having, Names
    <3>2. ASSUME Having(hdr, n) # {} PROVE LastOf(resp, n) = LastOf(hdr, n)
      <4> DEFINE i == CHOOSE i \in Having(hdr, n) : \A j \in Having(hdr, n) : j <= i
      <4>1. i \in Having(hdr, n)
        BY <2>1, <3>2 DEF SameField, HasLast
      <4>2. LastOf(hdr, n) = hdr[i] /\ LastOf(resp, n) = resp[i]
        BY <3>1 DEF LastOf
      <4> HIDE DEF i
      <4>3. i \in 1..Len(hdr) /\ hdr[i].name # "blank"
        BY <4>1 DEF Having, Names
      <4> QED BY <4>2, <4>3, <1>1
    <3> QED BY <3>1, <3>2, <2>1 DEF SameField
  <2>4. WellFormed(resp) <=> WellFormed(seen)
    <3>1. CASE hdr[1].name = "blank"
      <4>1. resp[1].name # "status" /\ seen[1].name # "status"
        BY <1>1, <1>2, <2>1, <3>1
      <4> QED BY <4>1 DEF WellFormed
    <3>2. CASE hdr[1].name # "blank"
      BY <1>1, <1>2, <2>1, <2>2, <3>2 DEF WellFormed, Honest
    <3> QED BY <3>1, <3>2
  <2>5. IsChunked(resp) = IsChunked(seen)
    BY <2>3 DEF IsChunked, Names
  <2>6. LengthOf(resp) = LengthOf(seen)
    BY <2>3, <2>5 DEF LengthOf, Names
  <2>7. LocationOf(resp) = LocationOf(seen)
    BY <2>3 DEF LocationOf, Names
  <2>8. WellFormed(resp) => resp[1].code = seen[1].code
    BY <1>1, <1>2, <2>1 DEF WellFormed
  <2> QED BY <2>4, <2>5, <2>6, <2>7, <2>8 DEF Meaning
<1> QED BY <1>3, <1>4 DEF HeaderInv

LEMMA LocationTyped == \A l \in Lines : l.name = "location" => l.location \in Locations
  BY DEF Lines, StatusLines, FieldLines, BlankLines

LEMMA TargetsAreHosts ==
  ASSUME HeaderInv, url \in Hosts, phase = "judge"
  PROVE  Targets(resp) \subseteq Hosts
<1>2. resp \in Seq(Lines)
  BY ParsedTyped DEF HeaderInv, resp
<1>1. LocationOf(resp) \in Locations
  <2>1. CASE Having(resp, "location") = {}
    BY <2>1 DEF LocationOf, Locations
  <2>2. CASE Having(resp, "location") # {}
    <3> DEFINE i == CHOOSE i \in Having(resp, "location") :
                      \A j \in Having(resp, "location") : j <= i
    <3>1. i \in Having(resp, "location")
      BY <1>2, <2>2, LastThere DEF HasLast
    <3>2. LastOf(resp, "location") = resp[i]
      BY DEF LastOf
    <3> HIDE DEF i
    <3>3. resp[i] \in Lines /\ resp[i].name = "location"
      BY <1>2, <3>1 DEF Having
    <3> QED BY <2>2, <3>2, <3>3, LocationTyped DEF LocationOf
  <2> QED BY <2>1, <2>2
<1> QED BY <1>1, ResolvedIsHost DEF Targets

LEMMA HeaderInvInit == Init => HeaderInv
  BY DEF Init, HeaderInv

\* Steps that leave http_get, or do not touch its header.
LEMMA HeaderLeft ==
  ASSUME HeaderInv, phase' \notin {"header", "judge"},
         LeaveGet \/ UNCHANGED <<hdr, first, seen>>
  PROVE  HeaderInv'
<1>1. hdr' \in Seq(Lines) /\ seen' \in Seq(Lines) /\ first' \in BOOLEAN
  <2>1. CASE LeaveGet
    BY <2>1 DEF LeaveGet
  <2>2. CASE UNCHANGED <<hdr, first, seen>>
    BY <2>2 DEF HeaderInv
  <2> QED BY <2>1, <2>2
<1> QED BY <1>1 DEF HeaderInv

LEMMA HeaderSame ==
  ASSUME HeaderInv, UNCHANGED <<phase, hdr, first, seen>>
  PROVE  HeaderInv'
  BY DEF HeaderInv, SameField, HasLast, Honest

\* The blank line, which is none of the fields.
LEMMA BlankKept ==
  ASSUME HeaderInv, phase = "header", NEW line \in BlankLines,
         phase' = "judge", hdr' = Append(hdr, line), UNCHANGED <<first, seen>>
  PROVE  HeaderInv'
<1>1. line \in Lines /\ line.name = "blank" /\ hdr \in Seq(Lines) /\ seen \in Seq(Lines)
  BY DEF Lines, BlankLines, HeaderInv
<1>2. /\ Len(hdr') = Len(hdr) + 1 /\ Len(hdr) \in Nat /\ hdr'[Len(hdr) + 1] = line
      /\ \A i \in 1..Len(hdr) : hdr'[i] = hdr[i] /\ hdr[i].name # "blank"
  BY <1>1 DEF HeaderInv
<1>3. \A i \in 1..Len(hdr') : hdr'[i].name = "blank" => i = Len(hdr')
  BY <1>2
<1>4. hdr' \in Seq(Lines) /\ hdr' # <<>> /\ (hdr # <<>> => hdr'[1] = hdr[1])
      /\ (hdr = <<>> => hdr'[1] = line)
  BY <1>1, AppendFirst
<1>5. \A n \in Names : SameField(n)'
  <2>1. ASSUME NEW n \in Names PROVE SameField(n)'
    <3>1. line.name # n /\ SameField(n)
      BY <1>1 DEF Names, HeaderInv
    <3> HIDE DEF HasLast
    <3> QED BY <1>1, <3>1, LastOfAppend DEF SameField
  <2> QED BY <2>1
<1>6. Honest(hdr') <=> Honest(seen)
  <2>1. CASE hdr = <<>>
    BY <1>2, <2>1, NoneYet DEF Honest, HeaderInv
  <2>2. CASE hdr # <<>>
    BY <1>1, <2>2, HonestAppend DEF HeaderInv
  <2> QED BY <2>1, <2>2
<1>7. Honest(seen') <=> Honest(seen)
  OBVIOUS
<1> HIDE DEF HeaderInv
<1>8. first' => seen' = <<>> /\ hdr'[1].name = "blank"
  BY <1>1, <1>4 DEF HeaderInv
<1>9. ~first' => seen' # <<>> /\ hdr'[1] = seen'[1]
  BY <1>4 DEF HeaderInv
<1>10. first' \in BOOLEAN /\ seen' \in Seq(Lines)
  BY DEF HeaderInv
<1> QED BY <1>3, <1>4, <1>5, <1>6, <1>7, <1>8, <1>9, <1>10 DEF HeaderInv

LEMMA HeaderInvGetting == ASSUME HeaderInv, Getting PROVE HeaderInv'
<1>1. CASE Fail \/ Refused \/ ConnectFails
  BY <1>1, HeaderLeft DEF Fail, Refused, ConnectFails, LeaveGet
<1>2. CASE RequestSent
  <2>1. phase' = "header" /\ hdr' = <<>> /\ first' = TRUE /\ seen' = <<>>
    BY <1>2 DEF RequestSent
  <2>2. \A n \in Names : SameField(n)'
    BY <2>1, NoneYet DEF SameField
  <2> QED BY <2>1, <2>2 DEF HeaderInv
<1>3. CASE Redirect
  BY <1>3, HeaderLeft DEF Redirect
<1>4. CASE SessionStarts
  BY <1>4, HeaderLeft DEF SessionStarts, LeaveGet
<1>5. ASSUME NEW line \in BlankLines, HeaderBlank(line) PROVE HeaderInv'
  <2>1. CASE Fail
    BY <1>1, <2>1
  <2>2. CASE ~Fail
    BY <1>5, <2>2, BlankKept DEF HeaderBlank
  <2> QED BY <2>1, <2>2
<1>6. ASSUME NEW line \in LinesAt(Len(seen) + 1), NEW long \in BOOLEAN, HeaderLine(line, long)
      PROVE  HeaderInv'
  <2>1. CASE Fail
    BY <1>1, <2>1
  <2>2. CASE ~Fail
    BY <1>6, <2>2, LineKept DEF HeaderLine
  <2> QED BY <2>1, <2>2
<1> QED
  BY <1>1, <1>2, <1>3, <1>4, <1>5, <1>6
     DEF Getting, Asking, Judging, SendFails, Malformed, HeaderStops

LEMMA HeaderInvNext == ASSUME HeaderInv, [Next]_vars PROVE HeaderInv'
<1>1. CASE Getting
  BY <1>1, HeaderInvGetting
<1>2. CASE Serving
  <2>1. phase' \notin {"header", "judge"} /\ UNCHANGED <<hdr, first, seen>>
    BY <1>2 DEF Serving, Take, Reading, Nothing, Ended, Wait, ReadFull, ReadShort, Answer,
                getVars, history
  <2> QED BY <2>1, HeaderLeft
<1>3. CASE HttpClose
  BY <1>3, HeaderSame DEF HttpClose, getVars
<1>4. CASE PeerCloses
  BY <1>4, HeaderSame DEF PeerCloses, getVars, history
<1>5. ASSUME NEW u \in Hosts, HttpGet(u) PROVE HeaderInv'
  BY <1>5, HeaderLeft DEF HttpGet
<1>6. ASSUME NEW n \in 1..ReadMax, HttpRead(n) PROVE HeaderInv'
  BY <1>6, HeaderLeft DEF HttpRead, getVars, history
<1>7. ASSUME NEW b \in Bytes, Arrive(b) PROVE HeaderInv'
  BY <1>7, HeaderSame DEF Arrive, getVars
<1>8. CASE UNCHANGED vars
  BY <1>8, HeaderSame DEF vars, getVars, history
<1> QED BY <1>1, <1>2, <1>3, <1>4, <1>5, <1>6, <1>7, <1>8 DEF Next

LEMMA LinkInvNext == ASSUME HeaderInv, LinkInv, [Next]_vars PROVE LinkInv'
<1>1. CASE Getting
  BY <1>1, LinkInvGetting, TargetsAreHosts DEF LinkInv
<1>2. CASE Serving
  BY <1>2, LinkInvServing
<1>3. CASE UNCHANGED vars
  BY <1>3 DEF vars, getVars, httpVars, linkVars, LinkInv, AllowedHosts
<1> QED BY <1>1, <1>2, <1>3, LinkInvRest DEF Next

LEMMA Invariant == Spec => [](HeaderInv /\ LinkInv)
<1>1. Init => HeaderInv /\ LinkInv
  BY HeaderInvInit, LinkInvInit
<1>2. HeaderInv /\ LinkInv /\ [Next]_vars => HeaderInv' /\ LinkInv'
  BY HeaderInvNext, LinkInvNext
<1> QED BY <1>1, <1>2, PTL DEF Spec

-----------------------------------------------------------------------------
(* The operators of the reference definition.                              *)

\* What Find looks for, as a set.
Places(w, i, S) == {j \in i..Len(w) + 1 : j <= Len(w) => w[j] \in S}

\* Find is the first of these places: there is one, and only one.
LEMMA FindFirst ==
  ASSUME NEW w \in Seq(Bytes), NEW i \in 1..Len(w) + 1, NEW S
  PROVE  /\ Find(w, i, S) \in Places(w, i, S)
         /\ \A l \in i..Find(w, i, S) - 1 : w[l] \notin S
<1>1. Len(w) \in Nat /\ Len(w) + 1 \in Places(w, i, S) /\ Places(w, i, S) \in SUBSET Nat
  BY DEF Places
<1>2. PICK j \in Places(w, i, S) : \A k \in Places(w, i, S) : j <= k
  BY <1>1, Least
<1>3. j \in i..Len(w) + 1 /\ (j <= Len(w) => w[j] \in S)
  BY DEF Places
<1>4. ASSUME NEW l \in i..j - 1 PROVE w[l] \notin S
  <2>1. l \in i..Len(w) + 1 /\ l < j
    BY <1>1, <1>3
  <2> QED
    BY <1>1, <1>2, <2>1 DEF Places
<1> DEFINE Q(k) == /\ k <= Len(w) => w[k] \in S
                   /\ \A l \in i..k - 1 : w[l] \notin S
<1>5. Q(j) /\ j \in i..Len(w) + 1
  BY <1>3, <1>4
<1>6. Find(w, i, S) = CHOOSE k \in i..Len(w) + 1 : Q(k)
  BY DEF Find
<1> HIDE DEF Q
<1>7. Find(w, i, S) \in i..Len(w) + 1 /\ Q(Find(w, i, S))
  BY <1>5, <1>6
<1> QED
  BY <1>7 DEF Q, Places

LEMMA FindIs ==
  ASSUME NEW w \in Seq(Bytes), NEW i \in 1..Len(w) + 1, NEW S,
         NEW j \in i..Len(w) + 1, j <= Len(w) => w[j] \in S,
         \A l \in i..j - 1 : w[l] \notin S
  PROVE  Find(w, i, S) = j
<1> DEFINE f == Find(w, i, S)
<1>1. f \in i..Len(w) + 1 /\ (f <= Len(w) => w[f] \in S) /\ \A l \in i..f - 1 : w[l] \notin S
  BY FindFirst DEF Places
<1> HIDE DEF f
<1>2. Len(w) \in Nat
  OBVIOUS
<1>3. ~(f < j) /\ ~(j < f)
  BY <1>1, <1>2
<1>4. f = j
  BY <1>1, <1>2, <1>3
<1> QED
  BY <1>4 DEF f

\* f holds the values of the first digits of w from i on, up to those before j.
Values(f, w, i, j) == f = [l \in i..j |-> IF l = i THEN 0 ELSE f[l - 1] * 16 + w[l - 1]]

LEMMA ValuesSame ==
  ASSUME NEW f, NEW g, NEW v, NEW w, NEW i \in Nat, NEW j \in Nat, NEW k \in Nat,
         Values(f, v, i, j), Values(g, w, i, k), i <= j, j <= k,
         \A l \in i..j - 1 : v[l] = w[l]
  PROVE  f[j] = g[j]
<1> DEFINE T == {l \in i..j : f[l] # g[l]}
<1>1. SUFFICES ASSUME T # {} PROVE FALSE
  OBVIOUS
<1>2. PICK l \in T : \A m \in T : l <= m
  <2>1. T \in SUBSET Nat
    OBVIOUS
  <2> HIDE DEF T
  <2> QED
    BY <1>1, <2>1, Least
<1>3. l \in i..j /\ l \in i..k /\ f[l] # g[l]
  OBVIOUS
<1>4. l # i
  BY <1>3 DEF Values
<1>5. l - 1 \in i..j /\ l - 1 \notin T
  BY <1>2, <1>3, <1>4
<1>6. f[l - 1] = g[l - 1] /\ v[l - 1] = w[l - 1]
  BY <1>3, <1>5
<1>7. f[l] = f[l - 1] * 16 + v[l - 1] /\ g[l] = g[l - 1] * 16 + w[l - 1]
  BY <1>3, <1>4, Zenon DEF Values
<1> QED
  BY <1>3, <1>6, <1>7

LEMMA ValuesExist ==
  ASSUME NEW w, NEW i \in Nat, NEW j \in Nat, i <= j
  PROVE  \E f : Values(f, w, i, j)
<1> DEFINE T == {k \in Nat : ~\E f : Values(f, w, i, i + k)}
<1>1. SUFFICES ASSUME T # {} PROVE FALSE
  <2>1. SUFFICES ASSUME T = {} PROVE \E f : Values(f, w, i, j)
    OBVIOUS
  <2>2. j - i \in Nat /\ i + (j - i) = j
    OBVIOUS
  <2>3. \E f : Values(f, w, i, i + (j - i))
    BY <2>1, <2>2
  <2> QED
    BY <2>2, <2>3
<1>2. PICK k \in T : \A m \in T : k <= m
  BY <1>1, Least
<1>3. k # 0
  <2> DEFINE f == [l \in i..i |-> 0]
  <2>1. Values(f, w, i, i)
    BY DEF Values
  <2>2. i + 0 = i
    OBVIOUS
  <2> HIDE DEF f
  <2> QED
    BY <2>1, <2>2
<1>4. k - 1 \in Nat /\ k - 1 \notin T
  BY <1>2, <1>3
<1>5. PICK f : Values(f, w, i, i + (k - 1))
  BY <1>4
<1> DEFINE e == i + k
           g == [l \in i..e |-> IF l = e THEN f[e - 1] * 16 + w[e - 1] ELSE f[l]]
<1>6. e \in Nat /\ e > i /\ e - 1 = i + (k - 1) /\ e - 1 >= i
  BY <1>3
<1>7. ASSUME NEW l \in i..e
      PROVE  g[l] = IF l = i THEN 0 ELSE g[l - 1] * 16 + w[l - 1]
  <2>1. CASE l = e
    <3>1. g[l] = f[e - 1] * 16 + w[e - 1] /\ g[e - 1] = f[e - 1] /\ l # i
      BY <1>6, <2>1
    <3> QED
      BY <2>1, <3>1
  <2>2. CASE l # e
    <3>1. l \in i..e - 1
      BY <1>6, <2>2
    <3>2. f[l] = IF l = i THEN 0 ELSE f[l - 1] * 16 + w[l - 1]
      BY <1>5, <1>6, <3>1 DEF Values
    <3>3. g[l] = f[l] /\ (l # i => g[l - 1] = f[l - 1])
      BY <1>6, <2>2, <3>1
    <3> QED
      BY <3>2, <3>3
  <2> QED
    BY <2>1, <2>2
<1>8. Values(g, w, i, e)
  <2>1. g = [l \in i..e |-> g[l]]
    OBVIOUS
  <2> HIDE DEF g
  <2> QED
    BY <1>7, <2>1 DEF Values
<1> QED
  BY <1>8

LEMMA ValueIs ==
  ASSUME NEW w, NEW i \in Nat, NEW j \in Nat, i <= j, NEW f, Values(f, w, i, j)
  PROVE  Value(w, i, j) = f[j]
<1> DEFINE g == CHOOSE h : h = [l \in i..j |-> IF l = i THEN 0 ELSE h[l - 1] * 16 + w[l - 1]]
<1>1. Values(g, w, i, j)
  BY Zenon DEF Values
<1>2. Value(w, i, j) = g[j]
  BY Zenon DEF Value
<1> HIDE DEF g
<1>3. g[j] = f[j]
  <2>1. j <= j /\ \A l \in i..j - 1 : w[l] = w[l]
    OBVIOUS
  <2> QED
    BY <1>1, <2>1, ValuesSame
<1> QED
  BY <1>2, <1>3

\* What Value computes, one digit after the other, and that it looks at no more.
LEMMA ValueNone == ASSUME NEW w, NEW i \in Nat PROVE Value(w, i, i) = 0
<1>1. PICK f : Values(f, w, i, i)
  BY ValuesExist
<1>2. f[i] = 0
  BY <1>1 DEF Values
<1> QED
  BY <1>1, <1>2, ValueIs

LEMMA ValueNext ==
  ASSUME NEW w, NEW i \in Nat, NEW j \in Nat, i <= j
  PROVE  Value(w, i, j + 1) = Value(w, i, j) * 16 + w[j]
<1>1. PICK f : Values(f, w, i, j + 1)
  BY ValuesExist
<1>2. PICK g : Values(g, w, i, j)
  BY ValuesExist
<1>3. f[j + 1] = f[j] * 16 + w[j]
  BY <1>1 DEF Values
<1>4. g[j] = f[j]
  <2>1. j <= j /\ j <= j + 1 /\ j + 1 \in Nat /\ \A l \in i..j - 1 : w[l] = w[l]
    OBVIOUS
  <2> QED
    BY <1>1, <1>2, <2>1, ValuesSame
<1>5. Value(w, i, j + 1) = f[j + 1] /\ Value(w, i, j) = g[j]
  BY <1>1, <1>2, ValueIs
<1> QED
  BY <1>3, <1>4, <1>5

LEMMA ValueSame ==
  ASSUME NEW v, NEW w, NEW i \in Nat, NEW j \in Nat, i <= j,
         \A l \in i..j - 1 : v[l] = w[l]
  PROVE  Value(v, i, j) = Value(w, i, j)
<1>1. PICK f : Values(f, v, i, j)
  BY ValuesExist
<1>2. PICK g : Values(g, w, i, j)
  BY ValuesExist
<1>3. f[j] = g[j]
  BY <1>1, <1>2, ValuesSame
<1> QED
  BY <1>1, <1>2, <1>3, ValueIs

LEMMA ValueNat ==
  ASSUME NEW w, NEW i \in Nat, NEW j \in Nat, i <= j, \A l \in i..j - 1 : w[l] \in Nat
  PROVE  Value(w, i, j) \in Nat
<1>1. PICK f : Values(f, w, i, j)
  BY ValuesExist
<1> DEFINE T == {l \in i..j : f[l] \notin Nat}
<1>2. T = {}
  <2>1. SUFFICES ASSUME T # {} PROVE FALSE
    OBVIOUS
  <2>2. PICK l \in T : \A m \in T : l <= m
    <3>1. T \in SUBSET Nat
      OBVIOUS
    <3> HIDE DEF T
    <3> QED
      BY <2>1, <3>1, Least
  <2>3. l \in i..j /\ f[l] \notin Nat
    OBVIOUS
  <2>4. l # i
    BY <1>1, <2>3 DEF Values
  <2>5. l - 1 \in i..j /\ l - 1 \notin T /\ l - 1 \in i..j - 1
    BY <2>2, <2>3, <2>4
  <2>6. f[l - 1] \in Nat /\ w[l - 1] \in Nat
    BY <2>5
  <2>7. f[l] = f[l - 1] * 16 + w[l - 1]
    BY <1>1, <2>3, <2>4, Zenon DEF Values
  <2> QED
    BY <2>3, <2>6, <2>7
<1>3. f[j] \in Nat
  BY <1>2
<1> QED
  BY <1>1, <1>3, ValueIs

LEMMA ByteKinds ==
  /\ Bytes \subseteq Nat /\ Digits \subseteq Nat
  /\ Semi \in Bytes \ Digits /\ CR \in Bytes \ Digits /\ LF \in Bytes \ Digits
  /\ Semi # CR /\ Semi # LF /\ CR # LF
  /\ \A b \in Bytes : b \in Digits \/ b \in {Semi, CR, LF}
  /\ Word \in Nat
BY HttpAssumption DEF Bytes, Semi, CR, LF, Word

\* The next chunk starts behind this one.
LEMMA PartsTyped ==
  ASSUME NEW w \in Seq(Bytes), NEW i \in 1..Len(w) + 1
  PROVE  /\ DigitsEnd(w, i) \in i..Len(w) + 1
         /\ LineEnd(w, i) \in DigitsEnd(w, i)..Len(w) + 1
         /\ LineEnd(w, i) \in Nat /\ SizeAt(w, i) \in Nat
         /\ DataAt(w, i) \in Nat /\ DataEnd(w, i) \in Nat /\ DataEnd(w, i) > i
         /\ DataAt(w, i) > i /\ DataEnd(w, i) = DataAt(w, i) + SizeAt(w, i)
<1> DEFINE d == DigitsEnd(w, i)
           c == LineEnd(w, i)
<1>1. d \in i..Len(w) + 1 /\ \A l \in i..d - 1 : w[l] \notin Bytes \ Digits
  BY FindFirst DEF DigitsEnd, Places
<1>2. Len(w) \in Nat /\ i \in Nat /\ d \in 1..Len(w) + 1 /\ d \in Nat /\ i <= d
  BY <1>1
<1>3. c \in d..Len(w) + 1
  BY <1>2, FindFirst DEF LineEnd, Places
<1>4. SizeAt(w, i) \in Nat
  <2>1. ASSUME NEW l \in i..d - 1 PROVE w[l] \in Nat
    <3> HIDE DEF d
    <3>1. l \in 1..Len(w)
      BY <1>1, <1>2
    <3>2. w[l] \in Digits
      BY <1>1, <3>1
    <3> QED
      BY <3>2, ByteKinds
  <2> HIDE DEF d
  <2> QED
    BY <1>2, <2>1, ValueNat DEF SizeAt, d
<1> HIDE DEF d, c
<1>5. DataAt(w, i) = c + 2 /\ DataEnd(w, i) = DataAt(w, i) + SizeAt(w, i)
  BY DEF DataAt, DataEnd, c
<1>6. c \in Nat /\ i <= c
  BY <1>2, <1>3
<1>7. DataAt(w, i) \in Nat /\ DataAt(w, i) > i
  BY <1>2, <1>5, <1>6
<1>8. DataEnd(w, i) \in Nat /\ DataEnd(w, i) > i
  BY <1>2, <1>4, <1>5, <1>7
<1> QED
  BY <1>1, <1>3, <1>4, <1>5, <1>6, <1>7, <1>8 DEF d, c

\* The result for the next chunk matters only if there is one.
LEMMA RestUnused ==
  ASSUME NEW w \in Seq(Bytes), NEW i \in 1..Len(w) + 1, NEW r, NEW q,
         DataEnd(w, i) + 2 \notin i + 1..Len(w) + 1
  PROVE  ChunkAt(w, i, r) = ChunkAt(w, i, q)
<1> DEFINE e == DataEnd(w, i)
<1>1. e \in Nat /\ e > i /\ Len(w) \in Nat /\ e + 2 \notin i + 1..Len(w) + 1
  BY PartsTyped
<1>2. e = LineEnd(w, i) + 2 + SizeAt(w, i)
  BY DEF DataEnd, DataAt
<1> HIDE DEF e
<1>3. Len(w) < e + 1 /\ LineEnd(w, i) + 2 + SizeAt(w, i) = e
  BY <1>1, <1>2
<1>4. DataPart(w, DataAt(w, i), SizeAt(w, i), r) = DataPart(w, DataAt(w, i), SizeAt(w, i), q)
  BY <1>3 DEF DataPart, DataAt
<1> QED
  BY <1>4, Zenon DEF ChunkAt

Results == [body : Seq(Bytes), end : {"more", "bad", "end"}]

LEMMA PartTyped ==
  ASSUME NEW w \in Seq(Bytes), NEW m \in Nat \ {0}, NEW n \in Int, n <= Len(w)
  PROVE  SubSeq(w, m, n) \in Seq(Bytes)
<1>1. \A k \in m..n : w[k] \in Bytes
  OBVIOUS
<1> QED
  BY <1>1, SubSeqProperties

LEMMA ChunkTyped ==
  ASSUME NEW w \in Seq(Bytes), NEW i \in 1..Len(w) + 1, NEW r,
         DataEnd(w, i) + 2 \in i + 1..Len(w) + 1 => r \in Results
  PROVE  ChunkAt(w, i, r) \in Results
<1> DEFINE c == LineEnd(w, i)
           n == SizeAt(w, i)
           e == DataEnd(w, i)
<1>1. /\ c \in Nat /\ n \in Nat /\ Len(w) \in Nat /\ i \in Nat
      /\ e = c + 2 + n /\ e \in Nat /\ e > i
  <2>1. Len(w) \in Nat /\ i \in Nat
    OBVIOUS
  <2>2. c \in Nat /\ n \in Nat /\ e \in Nat /\ e > i
    BY PartsTyped
  <2>3. e = c + 2 + n
    BY DEF DataEnd, DataAt
  <2> HIDE DEF c, n, e
  <2> QED
    BY <2>1, <2>2, <2>3
<1>2. SubSeq(w, c + 2, Len(w)) \in Seq(Bytes)
  BY <1>1, PartTyped
<1>3. e - 1 <= Len(w) => SubSeq(w, c + 2, e - 1) \in Seq(Bytes)
  BY <1>1, PartTyped
<1>4. e + 1 <= Len(w) => r \in Results
  BY <1>1
<1>5. e + 1 <= Len(w) => SubSeq(w, c + 2, e - 1) \o r.body \in Seq(Bytes)
  BY <1>1, <1>3, <1>4, ConcatProperties DEF Results
<1> HIDE DEF c, n, e
<1>6. <<>> \in Seq(Bytes)
  OBVIOUS
<1>7. ASSUME NEW b \in Seq(Bytes), NEW x \in {"more", "bad", "end"} PROVE Parsed(b, x) \in Results
  BY DEF Parsed, Results
<1>8. e + 1 <= Len(w) => r.end \in {"more", "bad", "end"}
  BY <1>4 DEF Results
<1>9. DataPart(w, c + 2, n, r) =
        IF n = 0 THEN
          Parsed(<<>>, IF \E s, t \in c + 2..Len(w) : BlankLine(w, c + 2, s, t)
                       THEN "end" ELSE "more")
        ELSE IF Len(w) < e THEN Parsed(SubSeq(w, c + 2, Len(w)), "more")
        ELSE IF ~MayBe(w, e, CR) \/ ~MayBe(w, e + 1, LF) THEN
          Parsed(SubSeq(w, c + 2, e - 1), "bad")
        ELSE IF Len(w) < e + 1 THEN Parsed(SubSeq(w, c + 2, e - 1), "more")
        ELSE Parsed(SubSeq(w, c + 2, e - 1) \o r.body, r.end)
  BY <1>1, Zenon DEF DataPart
<1>10. /\ ~(Len(w) < e) => e - 1 <= Len(w)
       /\ ~(Len(w) < e + 1) => e + 1 <= Len(w)
  BY <1>1
<1>11. DataPart(w, c + 2, n, r) \in Results
  BY <1>2, <1>3, <1>5, <1>6, <1>7, <1>8, <1>9, <1>10
<1>12. DataPart(w, DataAt(w, i), SizeAt(w, i), r) \in Results
  BY <1>11 DEF DataAt, c, n
<1> QED
  BY <1>6, <1>7, <1>12, Zenon DEF ChunkAt

\* f is the function that From defines, from the place a on.
FromTo(f, w, a) == f = [i \in a..Len(w) + 1 |-> ChunkAt(w, i, f[DataEnd(w, i) + 2])]

LEMMA FromExists ==
  ASSUME NEW w \in Seq(Bytes)
  PROVE  \E f : FromTo(f, w, 1)
<1> DEFINE N == Len(w) + 1
           T == {k \in Nat : k < N /\ ~\E f : FromTo(f, w, N - k)}
<1>1. N \in Nat /\ N > 0 /\ Len(w) \in Nat
  OBVIOUS
<1>2. SUFFICES ASSUME T # {} PROVE FALSE
  <2>1. SUFFICES ASSUME T = {} PROVE \E f : FromTo(f, w, 1)
    OBVIOUS
  <2>2. N - 1 \in Nat /\ N - 1 < N /\ N - (N - 1) = 1
    BY <1>1
  <2>3. \E f : FromTo(f, w, N - (N - 1))
    BY <2>1, <2>2
  <2> QED
    BY <2>2, <2>3
<1>3. PICK k \in T : \A m \in T : k <= m
  <2>1. T \in SUBSET Nat
    OBVIOUS
  <2> HIDE DEF T
  <2> QED
    BY <1>2, <2>1, Least
<1>4. k \in Nat /\ k < N /\ ~\E f : FromTo(f, w, N - k)
  OBVIOUS
<1> DEFINE a == N - k
<1>5. a \in 1..N
  BY <1>1, <1>4
<1>6. \E g : \A i \in a + 1..N : g[i] = ChunkAt(w, i, g[DataEnd(w, i) + 2])
  <2>1. CASE k = 0
    <3>1. a + 1..N = {}
      BY <1>1, <2>1
    <3> QED
      BY <3>1
  <2>2. CASE k # 0
    <3>1. k - 1 \in Nat /\ k - 1 < N /\ k - 1 \notin T
      BY <1>3, <1>4, <2>2
    <3>2. PICK g : FromTo(g, w, N - (k - 1))
      BY <3>1
    <3>3. N - (k - 1) = a + 1
      BY <1>1, <1>4
    <3>4. g = [i \in a + 1..N |-> ChunkAt(w, i, g[DataEnd(w, i) + 2])]
      BY <3>2, <3>3 DEF FromTo
    <3>5. \A i \in a + 1..N : g[i] = ChunkAt(w, i, g[DataEnd(w, i) + 2])
      BY <3>4, Zenon
    <3> QED
      BY <3>5
  <2> QED
    BY <2>1, <2>2
<1>7. PICK g : \A i \in a + 1..N : g[i] = ChunkAt(w, i, g[DataEnd(w, i) + 2])
  BY <1>6
<1> DEFINE h == [i \in a..N |-> IF i = a THEN ChunkAt(w, a, g[DataEnd(w, a) + 2]) ELSE g[i]]
<1>8. ASSUME NEW i \in a..N
      PROVE  h[i] = ChunkAt(w, i, h[DataEnd(w, i) + 2])
  <2>1. h[i] = ChunkAt(w, i, g[DataEnd(w, i) + 2])
    <3>1. CASE i = a
      BY <3>1
    <3>2. CASE i # a
      <4>1. i \in a + 1..N
        BY <1>1, <1>5, <3>2
      <4> QED
        BY <1>7, <3>2, <4>1
    <3> QED
      BY <3>1, <3>2
  <2>2. i \in 1..Len(w) + 1
    BY <1>1, <1>5
  <2>3. CASE DataEnd(w, i) + 2 \in i + 1..N
    <3>1. DataEnd(w, i) + 2 \in a..N /\ DataEnd(w, i) + 2 # a
      BY <1>1, <1>5, <2>3
    <3>2. h[DataEnd(w, i) + 2] = g[DataEnd(w, i) + 2]
      BY <3>1
    <3> HIDE DEF h
    <3> QED
      BY <2>1, <3>2
  <2>4. CASE DataEnd(w, i) + 2 \notin i + 1..N
    <3> HIDE DEF h
    <3> QED
      BY <2>1, <2>2, <2>4, RestUnused
  <2> QED
    BY <2>3, <2>4
<1>9. FromTo(h, w, a)
  <2>1. h = [i \in a..N |-> h[i]]
    OBVIOUS
  <2> HIDE DEF h
  <2>2. h = [i \in a..N |-> ChunkAt(w, i, h[DataEnd(w, i) + 2])]
    BY <1>8, <2>1
  <2> QED
    BY <2>2 DEF FromTo
<1> HIDE DEF h, a
<1> QED
  BY <1>4, <1>9 DEF a

LEMMA FromIs ==
  ASSUME NEW w \in Seq(Bytes), NEW i \in 1..Len(w) + 1
  PROVE  From(w)[i] = ChunkAt(w, i, From(w)[DataEnd(w, i) + 2])
<1> DEFINE f == CHOOSE g : g = [k \in 1..Len(w) + 1 |-> ChunkAt(w, k, g[DataEnd(w, k) + 2])]
<1>1. FromTo(f, w, 1)
  BY FromExists, Zenon DEF FromTo
<1>2. From(w) = f
  BY Zenon DEF From
<1> HIDE DEF f
<1>3. f[i] = ChunkAt(w, i, f[DataEnd(w, i) + 2])
  BY <1>1, Zenon DEF FromTo
<1> QED
  BY <1>2, <1>3

LEMMA FromTyped ==
  ASSUME NEW w \in Seq(Bytes), NEW i \in 1..Len(w) + 1
  PROVE  From(w)[i] \in Results
<1> DEFINE N == Len(w) + 1
           T == {k \in Nat : k < N /\ From(w)[N - k] \notin Results}
<1>1. N \in Nat /\ N > 0 /\ Len(w) \in Nat
  OBVIOUS
<1>2. SUFFICES ASSUME T # {} PROVE FALSE
  <2>1. SUFFICES ASSUME T = {} PROVE From(w)[i] \in Results
    OBVIOUS
  <2>2. N - i \in Nat /\ N - i < N /\ N - (N - i) = i
    BY <1>1
  <2>3. From(w)[N - (N - i)] \in Results
    BY <2>1, <2>2
  <2> QED
    BY <2>2, <2>3
<1>3. PICK k \in T : \A m \in T : k <= m
  <2>1. T \in SUBSET Nat
    OBVIOUS
  <2> HIDE DEF T
  <2> QED
    BY <1>2, <2>1, Least
<1> DEFINE a == N - k
           e == DataEnd(w, a) + 2
<1>4. a \in 1..Len(w) + 1 /\ From(w)[a] \notin Results /\ k = N - a
  BY <1>1
<1>5. ASSUME e \in a + 1..Len(w) + 1 PROVE From(w)[e] \in Results
  <2> HIDE DEF e
  <2>1. N - e \in Nat /\ N - e < N /\ N - e < k /\ N - (N - e) = e
    BY <1>1, <1>4, <1>5
  <2>2. N - e \notin T
    BY <1>3, <2>1
  <2> QED
    BY <2>1, <2>2
<1>6. ChunkAt(w, a, From(w)[e]) \in Results
  <2> HIDE DEF a
  <2> QED
    BY <1>4, <1>5, ChunkTyped
<1>7. From(w)[a] = ChunkAt(w, a, From(w)[e])
  <2> HIDE DEF a
  <2> QED
    BY <1>4, FromIs
<1> QED
  BY <1>4, <1>6, <1>7

-----------------------------------------------------------------------------
(* Reading a body as far as it has come.                                   *)

\* The size line of the chunk at i, whose digits end at d and which ends at c, is
\* right as far as it has come.
SizeLine(w, i, d, c) ==
  /\ i \in 1..Len(w) + 1 /\ d \in i..Len(w) + 1 /\ c \in d..Len(w) + 1
  /\ \A k \in i..d - 1 : w[k] \in Digits
  /\ d <= Len(w) => w[d] \in {Semi, CR}
  /\ \A k \in d..c - 1 : w[k] # CR
  /\ c <= Len(w) => w[c] = CR
  /\ Value(w, i, d) < Word

LEMMA SizeLineParts ==
  ASSUME NEW w \in Seq(Bytes), NEW i, NEW d, NEW c, SizeLine(w, i, d, c)
  PROVE  /\ DigitsEnd(w, i) = d /\ LineEnd(w, i) = c /\ SizeAt(w, i) = Value(w, i, d)
         /\ i \in Nat /\ d \in Nat /\ c \in Nat /\ Value(w, i, d) \in Nat
         /\ DataAt(w, i) = c + 2 /\ DataEnd(w, i) = c + 2 + Value(w, i, d)
<1>1. i \in 1..Len(w) + 1 /\ d \in i..Len(w) + 1 /\ c \in d..Len(w) + 1 /\ Len(w) \in Nat
  BY DEF SizeLine
<1>2. i \in Nat /\ d \in Nat /\ c \in Nat /\ i <= d /\ d \in 1..Len(w) + 1
  BY <1>1
<1>3. d <= Len(w) => w[d] \in Bytes \ Digits
  BY ByteKinds DEF SizeLine
<1>4. \A k \in i..d - 1 : w[k] \notin Bytes \ Digits
  BY DEF SizeLine
<1>5. DigitsEnd(w, i) = d
  BY <1>1, <1>3, <1>4, FindIs DEF DigitsEnd
<1>6. (c <= Len(w) => w[c] \in {CR}) /\ \A k \in d..c - 1 : w[k] \notin {CR}
  BY DEF SizeLine
<1>7. LineEnd(w, i) = c
  BY <1>1, <1>2, <1>5, <1>6, FindIs DEF LineEnd
<1>8. SizeAt(w, i) = Value(w, i, d)
  BY <1>5 DEF SizeAt
<1>9. Value(w, i, d) \in Nat
  BY <1>1, <1>8, PartsTyped
<1> QED
  BY <1>2, <1>5, <1>7, <1>8, <1>9 DEF DataAt, DataEnd

LEMMA SizeLineFits ==
  ASSUME NEW w \in Seq(Bytes), NEW i, NEW d, NEW c, SizeLine(w, i, d, c)
  PROVE  /\ ~(Value(w, i, d) >= Word)
         /\ ~(d <= Len(w) /\ w[d] \notin {Semi, CR})
<1>1. Value(w, i, d) \in Nat
  BY SizeLineParts
<1>2. Word \in Nat
  BY ByteKinds
<1>3. Value(w, i, d) < Word
  BY DEF SizeLine
<1>4. ~(Value(w, i, d) >= Word)
  BY <1>1, <1>2, <1>3
<1> QED
  BY <1>4 DEF SizeLine

\* Such a chunk: nothing of its data yet, or what DataPart says of them.
LEMMA ChunkNoData ==
  ASSUME NEW w \in Seq(Bytes), NEW i, NEW d, NEW c, SizeLine(w, i, d, c), Len(w) <= c, NEW r
  PROVE  ChunkAt(w, i, r) = Parsed(<<>>, "more")
<1>1. c \in Nat /\ Len(w) \in Nat
  BY SizeLineParts
<1>2. MayBe(w, c + 1, LF)
  BY <1>1 DEF MayBe
<1>3. ~(Value(w, i, d) >= Word) /\ ~(d <= Len(w) /\ w[d] \notin {Semi, CR})
  BY SizeLineFits
<1>4. DigitsEnd(w, i) = d /\ LineEnd(w, i) = c /\ SizeAt(w, i) = Value(w, i, d)
  BY SizeLineParts
<1> QED
  BY <1>2, <1>3, <1>4, Zenon DEF ChunkAt

LEMMA ChunkData ==
  ASSUME NEW w \in Seq(Bytes), NEW i, NEW d, NEW c, SizeLine(w, i, d, c),
         c < Len(w), w[c + 1] = LF, NEW r
  PROVE  ChunkAt(w, i, r) = DataPart(w, c + 2, Value(w, i, d), r)
<1>1. c \in Nat /\ Len(w) \in Nat
  BY SizeLineParts
<1>2. ~(Len(w) <= c)
  BY <1>1
<1>3. MayBe(w, c + 1, LF)
  BY DEF MayBe
<1>4. ~(Value(w, i, d) >= Word) /\ ~(d <= Len(w) /\ w[d] \notin {Semi, CR})
  BY SizeLineFits
<1>5. /\ DigitsEnd(w, i) = d /\ LineEnd(w, i) = c /\ SizeAt(w, i) = Value(w, i, d)
      /\ DataAt(w, i) = c + 2
  BY SizeLineParts
<1> QED
  BY <1>2, <1>3, <1>4, <1>5, Zenon DEF ChunkAt

\* One more byte.
Grown(v, w, b) ==
  /\ v \in Seq(Bytes) /\ Len(v) = Len(w) + 1
  /\ v[Len(w) + 1] = b /\ \A k \in 1..Len(w) : v[k] = w[k]

\* The first bytes of w are those of v.
Starts(w, n, v) == Len(v) >= n /\ \A k \in 1..n : v[k] = w[k]

\* A size line of which the mark behind the digits has come stays as it is.
LEMMA SizeLineKept ==
  ASSUME NEW w \in Seq(Bytes), NEW v \in Seq(Bytes), NEW i, NEW d, NEW c,
         SizeLine(w, i, d, c), c <= Len(w), Starts(w, Len(w), v)
  PROVE  SizeLine(v, i, d, c) /\ Value(v, i, d) = Value(w, i, d)
<1>1. /\ Len(w) \in Nat /\ Len(v) \in Nat /\ Len(w) <= Len(v)
      /\ i \in Nat /\ d \in Nat /\ c \in Nat /\ 1 <= i /\ i <= d /\ d <= c
  BY SizeLineParts DEF SizeLine, Starts
<1>2. \A k \in i..d - 1 : v[k] = w[k]
  BY <1>1 DEF Starts
<1>3. Value(v, i, d) = Value(w, i, d)
  BY <1>1, <1>2, ValueSame
<1> QED
  BY <1>1, <1>3 DEF SizeLine, Starts

LEMMA SameBytes ==
  ASSUME NEW s \in Seq(Bytes), NEW t \in Seq(Bytes), Len(s) = Len(t),
         \A k \in 1..Len(s) : s[k] = t[k]
  PROVE  s = t
OBVIOUS

LEMMA PieceKept ==
  ASSUME NEW w \in Seq(Bytes), NEW v \in Seq(Bytes), NEW m \in Nat \ {0}, NEW n \in Int,
         n <= Len(w), Starts(w, Len(w), v)
  PROVE  SubSeq(v, m, n) = SubSeq(w, m, n)
<1>1. Len(w) \in Nat /\ Len(v) \in Nat /\ Len(w) <= Len(v)
  BY DEF Starts
<1>2. \A k \in m..n : w[k] \in Bytes /\ v[k] = w[k]
  BY <1>1 DEF Starts
<1>3. CASE n < m
  BY <1>3, SubSeqEmpty
<1>4. CASE m <= n
  <2>1. /\ SubSeq(w, m, n) \in Seq(Bytes) /\ Len(SubSeq(w, m, n)) = n - m + 1
        /\ \A k \in 1..n - m + 1 : SubSeq(w, m, n)[k] = w[m + k - 1]
    BY <1>2, <1>4, SubSeqProperties
  <2>2. /\ SubSeq(v, m, n) \in Seq(Bytes) /\ Len(SubSeq(v, m, n)) = n - m + 1
        /\ \A k \in 1..n - m + 1 : SubSeq(v, m, n)[k] = v[m + k - 1]
    BY <1>2, <1>4, SubSeqProperties
  <2>3. \A k \in 1..n - m + 1 : m + k - 1 \in m..n
    OBVIOUS
  <2>4. \A k \in 1..n - m + 1 : SubSeq(v, m, n)[k] = SubSeq(w, m, n)[k]
    BY <1>2, <2>1, <2>2, <2>3
  <2> QED
    BY <2>1, <2>2, <2>4, SameBytes
<1> QED
  BY <1>3, <1>4

LEMMA PieceGrown ==
  ASSUME NEW w \in Seq(Bytes), NEW b \in Bytes, NEW v, Grown(v, w, b),
         NEW m \in 1..Len(w) + 1
  PROVE  SubSeq(v, m, Len(w) + 1) = SubSeq(w, m, Len(w)) \o <<b>>
<1>1. v \in Seq(Bytes) /\ Len(v) = Len(w) + 1 /\ Len(w) \in Nat /\ v[Len(v)] = b
  BY DEF Grown
<1>2. m \in 1..Len(v) /\ Len(v) \in m..Len(v) /\ Len(v) - 1 = Len(w)
  BY <1>1
<1>3. SubSeq(v, m, Len(v)) = SubSeq(v, m, Len(v) - 1) \o <<v[Len(v)]>>
  BY <1>1, <1>2, SubSeqRecursiveSecond
<1>4. SubSeq(v, m, Len(w)) = SubSeq(w, m, Len(w))
  <2>1. Starts(w, Len(w), v) /\ m \in Nat \ {0} /\ Len(w) \in Int
    BY <1>1 DEF Grown, Starts
  <2> QED
    BY <1>1, <2>1, PieceKept
<1> QED
  BY <1>1, <1>2, <1>3, <1>4

\* The chunks before i are whole and give the body B, whatever follows them.
Before(w, i, B) ==
  \A v \in Seq(Bytes) :
    Starts(w, i - 1, v) => Decoded(v) = Parsed(B \o From(v)[i].body, From(v)[i].end)

LEMMA NothingBefore == Before(<<>>, 1, <<>>)
<1> SUFFICES ASSUME NEW v \in Seq(Bytes)
             PROVE  Decoded(v) = Parsed(<<>> \o From(v)[1].body, From(v)[1].end)
  BY DEF Before
<1>1. From(v)[1] \in Results
  BY FromTyped
<1>2. <<>> \o From(v)[1].body = From(v)[1].body
  BY <1>1, ConcatEmptySeq DEF Results
<1>3. From(v)[1] = [body |-> From(v)[1].body, end |-> From(v)[1].end]
  BY <1>1 DEF Results
<1> QED
  BY <1>2, <1>3 DEF Decoded, Parsed

LEMMA BeforeKept ==
  ASSUME NEW w \in Seq(Bytes), NEW v \in Seq(Bytes), NEW i \in 1..Len(w) + 1, NEW B,
         Starts(w, Len(w), v), Before(w, i, B)
  PROVE  Before(v, i, B)
<1>1. Len(w) \in Nat /\ i - 1 \in Nat /\ i - 1 <= Len(w)
  OBVIOUS
<1>2. ASSUME NEW u \in Seq(Bytes), Starts(v, i - 1, u) PROVE Starts(w, i - 1, u)
  BY <1>1, <1>2 DEF Starts
<1> QED
  BY <1>2 DEF Before

\* What has come of the chunk at i decides.
LEMMA DecodedIs ==
  ASSUME NEW w \in Seq(Bytes), NEW i \in 1..Len(w) + 1, NEW B, Before(w, i, B),
         NEW body, NEW end, \A r : ChunkAt(w, i, r) = Parsed(body, end)
  PROVE  Decoded(w).body = B \o body /\ Decoded(w).end = end
<1>1. Starts(w, i - 1, w)
  BY DEF Starts
<1>2. Decoded(w) = Parsed(B \o From(w)[i].body, From(w)[i].end)
  BY <1>1 DEF Before
<1>3. From(w)[i] = Parsed(body, end)
  BY FromIs
<1> QED
  BY <1>2, <1>3 DEF Parsed

LEMMA Associative ==
  ASSUME NEW s \in Seq(Bytes), NEW t \in Seq(Bytes), NEW u \in Seq(Bytes)
  PROVE  s \o (t \o u) = (s \o t) \o u
  BY ConcatAssociative

\* A chunk that is whole is one of those before the next.
LEMMA BeforeNext ==
  ASSUME NEW w \in Seq(Bytes), NEW i, NEW d, NEW c, NEW B \in Seq(Bytes), NEW n \in Nat \ {0},
         SizeLine(w, i, d, c), Value(w, i, d) = n, Before(w, i, B),
         Len(w) = c + 3 + n, w[c + 1] = LF, w[c + 2 + n] = CR, w[c + 3 + n] = LF
  PROVE  Before(w, Len(w) + 1, B \o SubSeq(w, c + 2, c + 1 + n))
<1> DEFINE N == Len(w)
           X == SubSeq(w, c + 2, c + 1 + n)
<1>1. i \in Nat /\ d \in Nat /\ c \in Nat /\ N \in Nat /\ N = c + 3 + n
  BY SizeLineParts
<1>2. i \in 1..N + 1 /\ i <= c
  <2>1. i \in 1..N + 1 /\ i <= d /\ d <= c
    BY <1>1 DEF SizeLine
  <2> QED
    BY <1>1, <2>1
<1> HIDE DEF N
<1>3. X \in Seq(Bytes)
  <2>1. c + 2 \in Nat \ {0} /\ c + 1 + n \in Int /\ c + 1 + n <= N
    BY <1>1
  <2> QED
    BY <2>1, PartTyped DEF N
<1> SUFFICES ASSUME NEW v \in Seq(Bytes), Starts(w, N, v)
             PROVE  Decoded(v) = Parsed((B \o X) \o From(v)[N + 1].body, From(v)[N + 1].end)
  <2>1. N + 1 - 1 = N
    BY <1>1
  <2> HIDE DEF X
  <2> QED
    BY <2>1 DEF Before, X, N
<1>4. Len(v) \in Nat /\ Len(v) >= N /\ \A k \in 1..N : v[k] = w[k]
  BY <1>1 DEF Starts
<1>5. SizeLine(v, i, d, c) /\ Value(v, i, d) = n
  <2>1. c <= N
    BY <1>1
  <2> QED
    BY <2>1, SizeLineKept DEF N
<1>6. v[c + 1] = LF /\ v[c + 2 + n] = CR /\ v[c + 3 + n] = LF
  <2>1. c + 1 \in 1..N /\ c + 2 + n \in 1..N /\ c + 3 + n \in 1..N
    BY <1>1
  <2> QED
    BY <1>4, <2>1
<1>7. SubSeq(v, c + 2, c + 1 + n) = X
  <2>1. c + 2 \in Nat \ {0} /\ c + 1 + n \in Int /\ c + 1 + n <= N
    BY <1>1
  <2> QED
    BY <2>1, PieceKept DEF N
<1> DEFINE R == From(v)[N + 1]
<1>8. R \in Results
  <2>1. N + 1 \in 1..Len(v) + 1
    BY <1>1, <1>4
  <2> QED
    BY <2>1, FromTyped
<1>9. From(v)[i] = DataPart(v, c + 2, n, R)
  <2>1. i \in 1..Len(v) + 1 /\ c < Len(v)
    BY <1>1, <1>2, <1>4
  <2>2. DataEnd(v, i) + 2 = N + 1
    <3>1. DataEnd(v, i) = c + 2 + n
      BY <1>5, SizeLineParts
    <3> QED
      BY <1>1, <3>1
  <2>3. From(v)[i] = ChunkAt(v, i, R)
    BY <2>1, <2>2, FromIs
  <2> HIDE DEF R
  <2> QED
    BY <1>5, <1>6, <2>1, <2>3, ChunkData
<1>10. DataPart(v, c + 2, n, R) = Parsed(X \o R.body, R.end)
  <2> DEFINE e == c + 2 + n
  <2>1. /\ e - 1 = c + 1 + n /\ e + 1 = c + 3 + n /\ n # 0
        /\ ~(Len(v) < e) /\ ~(Len(v) < e + 1)
    BY <1>1, <1>4
  <2>2. v[e] = CR /\ v[e + 1] = LF
    BY <1>6, <2>1
  <2>3. MayBe(v, e, CR) /\ MayBe(v, e + 1, LF)
    BY <2>2 DEF MayBe
  <2> HIDE DEF R, X
  <2> QED
    BY <1>7, <2>1, <2>3, Zenon DEF DataPart
<1>11. Starts(w, i - 1, v)
  <2>1. i - 1 \in Int /\ i - 1 <= N
    BY <1>1, <1>2
  <2> QED
    BY <1>1, <1>4, <2>1 DEF Starts
<1>12. Decoded(v) = Parsed(B \o From(v)[i].body, From(v)[i].end)
  BY <1>11 DEF Before
<1>13. R.body \in Seq(Bytes)
  BY <1>8 DEF Results
<1> HIDE DEF R, X
<1>14. B \o (X \o R.body) = (B \o X) \o R.body
  BY <1>3, <1>13, Associative
<1>15. From(v)[i].body = X \o R.body /\ From(v)[i].end = R.end
  BY <1>9, <1>10 DEF Parsed
<1> QED
  BY <1>12, <1>14, <1>15 DEF R

-----------------------------------------------------------------------------
(* One more byte.                                                          *)

\* The decoder is at the chunk at i, behind the body B.
OnChunk(w, i, d, c, B) ==
  w \in Seq(Bytes) /\ B \in Seq(Bytes) /\ Before(w, i, B) /\ SizeLine(w, i, d, c)

\* The trailer from m on: it has an empty line, its last line is empty so far, or not.
Blanks(w, m) == \E s, e \in m..Len(w) : BlankLine(w, m, s, e)

EmptyLine(w, m) ==
  \E s \in m..Len(w) + 1 : (s = m \/ w[s - 1] = LF) /\ \A l \in s..Len(w) : w[l] = CR

OtherLine(w, m) ==
  \E l \in m..Len(w) : w[l] \notin {CR, LF} /\ \A k \in l..Len(w) : w[k] # LF

\* Where the decoder is in state s, chLeft = left, after the bytes w that gave `out'.
InSize(s, left, w, out) ==
  \E i, d, c \in Nat : 
    /\ OnChunk(w, i, d, c, out) /\ left = Value(w, i, d)
    /\ \/ s = "SIZE" /\ d = Len(w) + 1 /\ c = Len(w) + 1
       \/ s = "EXT" /\ d <= Len(w) /\ c = Len(w) + 1
       \/ s = "SIZE_LF" /\ c = Len(w)

InData(s, left, w, out) ==
  \E i, d, c \in Nat, B \in Seq(Bytes), m \in Nat \ {0} :
    /\ OnChunk(w, i, d, c, B) /\ c < Len(w) /\ w[c + 1] = LF /\ m = Value(w, i, d)
    /\ \/ /\ s = "DATA" /\ left = c + 1 + m - Len(w) /\ left > 0
          /\ out = B \o SubSeq(w, c + 2, Len(w))
       \/ /\ s = "DATA_CR" /\ Len(w) = c + 1 + m
          /\ out = B \o SubSeq(w, c + 2, Len(w))
       \/ /\ s = "DATA_LF" /\ Len(w) = c + 2 + m /\ w[c + 2 + m] = CR
          /\ out = B \o SubSeq(w, c + 2, c + 1 + m)

InTrailer(s, w, out) ==
  \E i, d, c \in Nat :
    /\ OnChunk(w, i, d, c, out) /\ c < Len(w) /\ w[c + 1] = LF /\ Value(w, i, d) = 0
    /\ ~Blanks(w, c + 2)
    /\ \/ s = "TRAILER" /\ EmptyLine(w, c + 2)
       \/ s = "TRAILER_LINE" /\ OtherLine(w, c + 2)

Past(w, out) == Decoded(w).body = out /\ Decoded(w).end # "more"

LEMMA GrownStarts ==
  ASSUME NEW w \in Seq(Bytes), NEW v, NEW b, Grown(v, w, b)
  PROVE  /\ Starts(w, Len(w), v) /\ v \in Seq(Bytes) /\ Len(v) = Len(w) + 1
         /\ Len(w) \in Nat /\ Len(v) \in Nat /\ v[Len(v)] = b
         /\ \A k \in 1..Len(w) : v[k] = w[k]
<1>1. v \in Seq(Bytes) /\ Len(v) = Len(w) + 1 /\ Len(w) \in Nat
  BY DEF Grown
<1> QED
  BY <1>1 DEF Grown, Starts

LEMMA ChunkFacts ==
  ASSUME NEW w, NEW i, NEW d, NEW c, NEW B, OnChunk(w, i, d, c, B)
  PROVE  /\ w \in Seq(Bytes) /\ Len(w) \in Nat /\ B \in Seq(Bytes)
         /\ i \in Nat /\ d \in Nat /\ c \in Nat /\ 1 <= i /\ i <= d /\ d <= c /\ c <= Len(w) + 1
         /\ i \in 1..Len(w) + 1
         /\ Value(w, i, d) \in Nat
<1>1. w \in Seq(Bytes) /\ B \in Seq(Bytes) /\ SizeLine(w, i, d, c)
  BY DEF OnChunk
<1>2. i \in Nat /\ d \in Nat /\ c \in Nat /\ Value(w, i, d) \in Nat
  BY <1>1, SizeLineParts
<1>3. Len(w) \in Nat /\ i \in 1..Len(w) + 1 /\ d \in i..Len(w) + 1 /\ c \in d..Len(w) + 1
  BY <1>1 DEF SizeLine
<1> QED
  BY <1>1, <1>2, <1>3

\* One more byte behind the size line.
LEMMA ChunkKept ==
  ASSUME NEW w, NEW i, NEW d, NEW c, NEW B, OnChunk(w, i, d, c, B), c <= Len(w),
         NEW v, NEW b, Grown(v, w, b)
  PROVE  OnChunk(v, i, d, c, B) /\ Value(v, i, d) = Value(w, i, d)
<1>1. w \in Seq(Bytes) /\ v \in Seq(Bytes) /\ Starts(w, Len(w), v)
  BY GrownStarts DEF OnChunk
<1>2. SizeLine(v, i, d, c) /\ Value(v, i, d) = Value(w, i, d)
  BY <1>1, SizeLineKept DEF OnChunk
<1>3. Before(v, i, B)
  BY <1>1, ChunkFacts, BeforeKept DEF OnChunk
<1> QED
  BY <1>1, <1>2, <1>3 DEF OnChunk

\* What the chunk decides when its framing is broken or no data have come.
LEMMA PastIs ==
  ASSUME NEW v \in Seq(Bytes), NEW i \in 1..Len(v) + 1, NEW B \in Seq(Bytes), Before(v, i, B),
         NEW body, NEW end \in {"bad", "end"}, \A r : ChunkAt(v, i, r) = Parsed(body, end)
  PROVE  Past(v, B \o body)
<1>1. Decoded(v).body = B \o body /\ Decoded(v).end = end
  BY DecodedIs
<1> QED
  BY <1>1 DEF Past

LEMMA SaysMore ==
  ASSUME NEW w \in Seq(Bytes), NEW i \in 1..Len(w) + 1, NEW B, Before(w, i, B),
         NEW body, NEW out, B \o body = out, \A r : ChunkAt(w, i, r) = Parsed(body, "more")
  PROVE  Decoded(w).body = out /\ Decoded(w).end = "more"
<1>1. Decoded(w).body = B \o body /\ Decoded(w).end = "more"
  BY DecodedIs
<1> QED
  BY <1>1

LEMMA PastBad ==
  ASSUME NEW v \in Seq(Bytes), NEW i \in 1..Len(v) + 1, NEW B \in Seq(Bytes), Before(v, i, B),
         \/ SizeAt(v, i) >= Word
         \/ DigitsEnd(v, i) <= Len(v) /\ v[DigitsEnd(v, i)] \notin {Semi, CR}
         \/ ~MayBe(v, LineEnd(v, i) + 1, LF)
  PROVE  Past(v, B)
<1>1. ASSUME NEW r PROVE ChunkAt(v, i, r) = Parsed(<<>>, "bad")
  BY Zenon DEF ChunkAt
<1>2. B \o <<>> = B
  BY ConcatEmptySeq
<1> QED
  BY <1>1, <1>2, PastIs

-----------------------------------------------------------------------------
(* The size line.                                                          *)

LEMMA ByDigit ==
  ASSUME NEW w, NEW i, NEW c, NEW B, OnChunk(w, i, c, c, B), c = Len(w) + 1,
         NEW b \in Digits, NEW v, Grown(v, w, b)
  PROVE  /\ v \in Seq(Bytes) /\ Before(v, i, B)
         /\ Value(v, i, c + 1) = Value(w, i, c) * 16 + b
         /\ \A k \in i..c : v[k] \in Digits
<1>1. /\ w \in Seq(Bytes) /\ Len(w) \in Nat /\ B \in Seq(Bytes) /\ i \in 1..Len(w) + 1
      /\ i \in Nat /\ c \in Nat /\ 1 <= i /\ i <= c
  BY ChunkFacts
<1>2. /\ v \in Seq(Bytes) /\ Starts(w, Len(w), v) /\ v[c] = b
      /\ \A k \in 1..Len(w) : v[k] = w[k]
  BY <1>1, GrownStarts
<1>3. Before(v, i, B)
  BY <1>1, <1>2, BeforeKept DEF OnChunk
<1>4. \A k \in i..c - 1 : v[k] = w[k] /\ w[k] \in Digits
  BY <1>1, <1>2 DEF OnChunk, SizeLine
<1>5. Value(v, i, c) = Value(w, i, c)
  <2>1. \A k \in i..c - 1 : v[k] = w[k]
    BY <1>4
  <2> QED
    BY <1>1, <2>1, ValueSame
<1>6. Value(v, i, c + 1) = Value(v, i, c) * 16 + v[c]
  BY <1>1, ValueNext
<1>7. \A k \in i..c : v[k] \in Digits
  BY <1>1, <1>2, <1>4
<1> QED
  BY <1>2, <1>3, <1>5, <1>6, <1>7

LEMMA SizeDigit ==
  ASSUME NEW w, NEW i, NEW c, NEW B, OnChunk(w, i, c, c, B), c = Len(w) + 1,
         NEW b \in Digits, NEW v, Grown(v, w, b), Value(w, i, c) <= SizeMax
  PROVE  /\ OnChunk(v, i, c + 1, c + 1, B) /\ c + 1 = Len(v) + 1
         /\ Value(v, i, c + 1) = (Value(w, i, c) * 16 + b) % Word
<1>1. /\ v \in Seq(Bytes) /\ Before(v, i, B)
      /\ Value(v, i, c + 1) = Value(w, i, c) * 16 + b
      /\ \A k \in i..c : v[k] \in Digits
  BY ByDigit
<1>2. /\ w \in Seq(Bytes) /\ Len(w) \in Nat /\ B \in Seq(Bytes) /\ i \in Nat /\ c \in Nat
      /\ 1 <= i /\ i <= c /\ Value(w, i, c) \in Nat
  BY ChunkFacts
<1>3. Len(v) = Len(w) + 1
  BY <1>2, GrownStarts
<1> DEFINE n == Value(w, i, c)
<1>4. n \in Nat /\ n <= SizeMax /\ SizeMax \in Nat /\ b \in 0..15 /\ Word = 16 * (SizeMax + 1)
  BY <1>2, HttpAssumption DEF Word
<1> HIDE DEF n
<1>5. n * 16 + b < Word /\ n * 16 + b \in Nat /\ Word \in Nat \ {0}
  BY <1>4
<1>6. (n * 16 + b) % Word = n * 16 + b
  BY <1>5
<1>7. SizeLine(v, i, c + 1, c + 1)
  <2>1. Value(v, i, c + 1) < Word
    BY <1>1, <1>5 DEF n
  <2>2. /\ i \in 1..Len(v) + 1 /\ c + 1 \in i..Len(v) + 1 /\ c + 1 \in c + 1..Len(v) + 1
        /\ c + 1 - 1 = c /\ ~(c + 1 <= Len(v)) /\ c + 1..c = {}
    BY <1>2, <1>3
  <2> QED
    BY <1>1, <2>1, <2>2 DEF SizeLine
<1> QED
  BY <1>1, <1>2, <1>3, <1>6, <1>7 DEF OnChunk, n

LEMMA SizeTooBig ==
  ASSUME NEW w, NEW i, NEW c, NEW B, OnChunk(w, i, c, c, B), c = Len(w) + 1,
         NEW b \in Digits, NEW v, Grown(v, w, b), Value(w, i, c) > SizeMax
  PROVE  Past(v, B)
<1>1. /\ v \in Seq(Bytes) /\ Before(v, i, B)
      /\ Value(v, i, c + 1) = Value(w, i, c) * 16 + b
      /\ \A k \in i..c : v[k] \in Digits
  BY ByDigit
<1>2. /\ w \in Seq(Bytes) /\ Len(w) \in Nat /\ B \in Seq(Bytes) /\ i \in Nat /\ c \in Nat
      /\ 1 <= i /\ i <= c /\ Value(w, i, c) \in Nat
  BY ChunkFacts
<1>3. Len(v) = Len(w) + 1
  BY <1>2, GrownStarts
<1> DEFINE e == c + 1
<1>4. DigitsEnd(v, i) = e
  <2>1. i \in 1..Len(v) + 1 /\ e \in i..Len(v) + 1 /\ ~(e <= Len(v)) /\ e - 1 = c
    BY <1>2, <1>3
  <2> HIDE DEF e
  <2>2. \A k \in i..e - 1 : v[k] \notin Bytes \ Digits
    BY <1>1, <2>1
  <2>3. e <= Len(v) => v[e] \in Bytes \ Digits
    BY <2>1
  <2> QED
    BY <1>1, <2>1, <2>2, <2>3, FindIs DEF DigitsEnd
<1> DEFINE n == Value(w, i, c)
<1>5. n \in Nat /\ n > SizeMax /\ SizeMax \in Nat /\ b \in 0..15 /\ Word = 16 * (SizeMax + 1)
  BY <1>2, HttpAssumption DEF Word
<1> HIDE DEF n
<1>6. n * 16 + b >= Word
  BY <1>5
<1>7. SizeAt(v, i) >= Word
  BY <1>1, <1>4, <1>6 DEF SizeAt, n
<1>8. i \in 1..Len(v) + 1
  BY <1>2, <1>3
<1> QED
  BY <1>1, <1>2, <1>7, <1>8, PastBad

\* The mark behind the digits.
LEMMA SizeMark ==
  ASSUME NEW w, NEW i, NEW c, NEW B, OnChunk(w, i, c, c, B), c = Len(w) + 1,
         NEW b \in {Semi, CR}, NEW v, Grown(v, w, b)
  PROVE  /\ Value(v, i, c) = Value(w, i, c) /\ c = Len(v)
         /\ b = Semi => OnChunk(v, i, c, c + 1, B)
         /\ b = CR => OnChunk(v, i, c, c, B)
<1>1. /\ w \in Seq(Bytes) /\ Len(w) \in Nat /\ B \in Seq(Bytes) /\ i \in Nat /\ c \in Nat
      /\ 1 <= i /\ i <= c /\ i \in 1..Len(w) + 1
  BY ChunkFacts
<1>2. /\ v \in Seq(Bytes) /\ Starts(w, Len(w), v) /\ v[c] = b /\ Len(v) = c
      /\ \A k \in 1..Len(w) : v[k] = w[k]
  BY <1>1, GrownStarts
<1>3. Before(v, i, B)
  BY <1>1, <1>2, BeforeKept DEF OnChunk
<1>4. \A k \in i..c - 1 : v[k] = w[k] /\ w[k] \in Digits
  BY <1>1, <1>2 DEF OnChunk, SizeLine
<1>5. Value(v, i, c) = Value(w, i, c)
  BY <1>1, <1>4, ValueSame
<1>6. Value(v, i, c) < Word
  BY <1>5 DEF OnChunk, SizeLine
<1>7. ASSUME b = Semi PROVE SizeLine(v, i, c, c + 1)
  <2>1. /\ i \in 1..Len(v) + 1 /\ c \in i..Len(v) + 1 /\ c + 1 \in c..Len(v) + 1
        /\ ~(c + 1 <= Len(v)) /\ \A k \in c..c + 1 - 1 : k = c
    BY <1>1, <1>2
  <2>2. \A k \in c..c + 1 - 1 : v[k] # CR
    BY <1>2, <1>7, <2>1, ByteKinds
  <2> QED
    BY <1>2, <1>4, <1>6, <2>1, <2>2 DEF SizeLine
<1>8. ASSUME b = CR PROVE SizeLine(v, i, c, c)
  <2>1. i \in 1..Len(v) + 1 /\ c \in i..Len(v) + 1 /\ c \in c..Len(v) + 1 /\ c..c - 1 = {}
    BY <1>1, <1>2
  <2> QED
    BY <1>2, <1>4, <1>6, <1>8, <2>1 DEF SizeLine
<1> QED
  BY <1>1, <1>2, <1>3, <1>5, <1>7, <1>8 DEF OnChunk

LEMMA SizeBad ==
  ASSUME NEW w, NEW i, NEW c, NEW B, OnChunk(w, i, c, c, B), c = Len(w) + 1,
         NEW v, Grown(v, w, LF)
  PROVE  Past(v, B)
<1>1. /\ w \in Seq(Bytes) /\ Len(w) \in Nat /\ B \in Seq(Bytes) /\ i \in Nat /\ c \in Nat
      /\ 1 <= i /\ i <= c /\ i \in 1..Len(w) + 1
  BY ChunkFacts
<1>2. /\ v \in Seq(Bytes) /\ Starts(w, Len(w), v) /\ v[c] = LF /\ Len(v) = c
      /\ \A k \in 1..Len(w) : v[k] = w[k]
  BY <1>1, GrownStarts
<1>3. Before(v, i, B)
  BY <1>1, <1>2, BeforeKept DEF OnChunk
<1>4. i \in 1..Len(v) + 1 /\ c \in i..Len(v) + 1 /\ c <= Len(v)
  BY <1>1, <1>2
<1>5. \A k \in i..c - 1 : v[k] \notin Bytes \ Digits
  BY <1>1, <1>2 DEF OnChunk, SizeLine
<1>6. v[c] \in Bytes \ Digits /\ v[c] \notin {Semi, CR}
  BY <1>2, ByteKinds
<1>7. DigitsEnd(v, i) = c
  BY <1>2, <1>4, <1>5, <1>6, FindIs DEF DigitsEnd
<1> QED
  BY <1>1, <1>2, <1>3, <1>4, <1>6, <1>7, PastBad

\* The extension of a size line.
LEMMA Extension ==
  ASSUME NEW w, NEW i, NEW d, NEW c, NEW B, OnChunk(w, i, d, c, B),
         d <= Len(w), c = Len(w) + 1, NEW b \in Bytes, NEW v, Grown(v, w, b)
  PROVE  /\ Value(v, i, d) = Value(w, i, d) /\ c = Len(v) /\ d <= Len(v)
         /\ b # CR => OnChunk(v, i, d, c + 1, B)
         /\ b = CR => OnChunk(v, i, d, c, B)
<1>1. /\ w \in Seq(Bytes) /\ Len(w) \in Nat /\ B \in Seq(Bytes) /\ i \in Nat /\ c \in Nat
      /\ d \in Nat /\ 1 <= i /\ i <= d /\ d <= c /\ i \in 1..Len(w) + 1
  BY ChunkFacts
<1>2. /\ v \in Seq(Bytes) /\ Starts(w, Len(w), v) /\ v[c] = b /\ Len(v) = c
      /\ \A k \in 1..Len(w) : v[k] = w[k]
  BY <1>1, GrownStarts
<1>3. Before(v, i, B)
  BY <1>1, <1>2, BeforeKept DEF OnChunk
<1>4. /\ \A k \in i..d - 1 : v[k] = w[k] /\ w[k] \in Digits
      /\ \A k \in d..c - 1 : v[k] = w[k] /\ w[k] # CR
      /\ v[d] = w[d] /\ w[d] \in {Semi, CR} /\ Value(w, i, d) < Word
  BY <1>1, <1>2 DEF OnChunk, SizeLine
<1>5. Value(v, i, d) = Value(w, i, d)
  BY <1>1, <1>4, ValueSame
<1>6. ASSUME b # CR PROVE SizeLine(v, i, d, c + 1)
  <2>1. /\ i \in 1..Len(v) + 1 /\ d \in i..Len(v) + 1 /\ c + 1 \in d..Len(v) + 1
        /\ ~(c + 1 <= Len(v)) /\ \A k \in d..c + 1 - 1 : k = c \/ k \in d..c - 1
    BY <1>1, <1>2
  <2>2. \A k \in d..c + 1 - 1 : v[k] # CR
    BY <1>2, <1>4, <1>6, <2>1
  <2> QED
    BY <1>4, <1>5, <2>1, <2>2 DEF SizeLine
<1>7. ASSUME b = CR PROVE SizeLine(v, i, d, c)
  <2>1. i \in 1..Len(v) + 1 /\ d \in i..Len(v) + 1 /\ c \in d..Len(v) + 1
    BY <1>1, <1>2
  <2> QED
    BY <1>2, <1>4, <1>5, <1>7, <2>1 DEF SizeLine
<1>8. d <= Len(v)
  BY <1>1, <1>2
<1> QED
  BY <1>1, <1>2, <1>3, <1>5, <1>6, <1>7, <1>8 DEF OnChunk

\* What comes behind the CR of a size line.
LEMMA LineBad ==
  ASSUME NEW w, NEW i, NEW d, NEW c, NEW B, OnChunk(w, i, d, c, B), c = Len(w),
         NEW b \in Bytes \ {LF}, NEW v, Grown(v, w, b)
  PROVE  Past(v, B)
<1>1. /\ w \in Seq(Bytes) /\ Len(w) \in Nat
      /\ v \in Seq(Bytes) /\ v[c + 1] = b /\ Len(v) = c + 1
  BY ChunkFacts, GrownStarts
<1>2. OnChunk(v, i, d, c, B)
  BY <1>1, ChunkKept
<1>3. LineEnd(v, i) = c
  BY <1>2, SizeLineParts DEF OnChunk
<1>4. ~MayBe(v, c + 1, LF)
  BY <1>1 DEF MayBe
<1> QED
  BY <1>2, <1>3, <1>4, ChunkFacts, PastBad DEF OnChunk

-----------------------------------------------------------------------------
(* The data.                                                               *)

LEMMA DataStarts ==
  ASSUME NEW w, NEW i, NEW d, NEW c, NEW B, OnChunk(w, i, d, c, B), c = Len(w),
         NEW v, Grown(v, w, LF)
  PROVE  /\ OnChunk(v, i, d, c, B) /\ Value(v, i, d) = Value(w, i, d) /\ Len(v) = c + 1
         /\ c < Len(v) /\ v[c + 1] = LF /\ c + 1 \in 1..Len(v)
         /\ B \o SubSeq(v, c + 2, Len(v)) = B
<1>1. /\ w \in Seq(Bytes) /\ Len(w) \in Nat /\ c \in Nat /\ B \in Seq(Bytes)
      /\ v \in Seq(Bytes) /\ v[c + 1] = LF /\ Len(v) = c + 1
  BY ChunkFacts, GrownStarts
<1>2. OnChunk(v, i, d, c, B) /\ Value(v, i, d) = Value(w, i, d)
  BY <1>1, ChunkKept
<1>3. SubSeq(v, c + 2, Len(v)) = <<>>
  BY <1>1, SubSeqEmpty
<1>4. B \o <<>> = B
  BY <1>1, ConcatEmptySeq
<1> QED
  BY <1>1, <1>2, <1>3, <1>4

LEMMA LineStays ==
  ASSUME NEW w, NEW i, NEW d, NEW c, NEW B, OnChunk(w, i, d, c, B), c < Len(w), w[c + 1] = LF,
         NEW b \in Bytes, NEW v, Grown(v, w, b)
  PROVE  /\ OnChunk(v, i, d, c, B) /\ Value(v, i, d) = Value(w, i, d)
         /\ Len(v) = Len(w) + 1 /\ v[c + 1] = LF /\ v[Len(v)] = b
         /\ Len(w) \in Nat /\ c \in Nat /\ Value(w, i, d) \in Nat
<1>1. /\ w \in Seq(Bytes) /\ Len(w) \in Nat /\ c \in Nat /\ B \in Seq(Bytes)
      /\ v \in Seq(Bytes) /\ Len(v) = Len(w) + 1 /\ v[Len(v)] = b
      /\ (\A k \in 1..Len(w) : v[k] = w[k]) /\ Value(w, i, d) \in Nat
  BY ChunkFacts, GrownStarts
<1>2. OnChunk(v, i, d, c, B) /\ Value(v, i, d) = Value(w, i, d)
  BY <1>1, ChunkKept
<1>3. c + 1 \in 1..Len(w)
  BY <1>1
<1> QED
  BY <1>1, <1>2, <1>3

\* The body so far and a byte.
With(out, b) == out \o <<b>>
Continues(out, b, B, t) == With(out, b) = B \o t

LEMMA DataByte ==
  ASSUME NEW w, NEW i, NEW d, NEW c, NEW B, OnChunk(w, i, d, c, B), c < Len(w), w[c + 1] = LF,
         NEW b \in Bytes, NEW v, Grown(v, w, b), NEW out, out = B \o SubSeq(w, c + 2, Len(w))
  PROVE  Continues(out, b, B, SubSeq(v, c + 2, Len(v)))
<1>1. /\ w \in Seq(Bytes) /\ Len(w) \in Nat /\ c \in Nat /\ B \in Seq(Bytes)
      /\ v \in Seq(Bytes) /\ Len(v) = Len(w) + 1 /\ v[Len(v)] = b
      /\ (\A k \in 1..Len(w) : v[k] = w[k]) /\ Value(w, i, d) \in Nat
  BY ChunkFacts, GrownStarts
<1>2. c + 2 \in 1..Len(w) + 1 /\ c + 2 \in Nat \ {0} /\ Len(w) <= Len(w)
  BY <1>1
<1>3. SubSeq(v, c + 2, Len(v)) = SubSeq(w, c + 2, Len(w)) \o <<b>>
  <2>1. SubSeq(v, c + 2, Len(w) + 1) = SubSeq(w, c + 2, Len(w)) \o <<b>>
    BY <1>1, <1>2, PieceGrown
  <2> QED
    BY <1>1, <2>1
<1>4. SubSeq(w, c + 2, Len(w)) \in Seq(Bytes)
  BY <1>1, <1>2, PartTyped
<1>5. <<b>> \in Seq(Bytes)
  OBVIOUS
<1>6. ASSUME NEW s, s = SubSeq(w, c + 2, Len(w))
      PROVE  (B \o s) \o <<b>> = B \o (s \o <<b>>)
  BY <1>1, <1>4, <1>5, <1>6, Associative
<1> QED
  BY <1>3, <1>6 DEF Continues, With

\* What the chunk says while its data come.
LEMMA DataMore ==
  ASSUME NEW w, NEW i, NEW d, NEW c, NEW B, OnChunk(w, i, d, c, B), c < Len(w), w[c + 1] = LF,
         NEW m \in Nat \ {0}, m = Value(w, i, d), Len(w) < c + 2 + m, NEW r
  PROVE  ChunkAt(w, i, r) = Parsed(SubSeq(w, c + 2, Len(w)), "more")
<1>1. ChunkAt(w, i, r) = DataPart(w, c + 2, m, r)
  BY ChunkData DEF OnChunk
<1>2. m # 0
  OBVIOUS
<1> QED
  BY <1>1, <1>2, Zenon DEF DataPart

\* All the data have come, and nothing that is wrong behind them.
LEMMA DataWhole ==
  ASSUME NEW w, NEW i, NEW d, NEW c, NEW B, OnChunk(w, i, d, c, B), c < Len(w), w[c + 1] = LF,
         NEW m \in Nat \ {0}, m = Value(w, i, d), Len(w) = c + 2 + m, w[c + 2 + m] = CR,
         NEW out, out = B \o SubSeq(w, c + 2, c + 1 + m)
  PROVE  Decoded(w).body = out /\ Decoded(w).end = "more"
<1> DEFINE e == c + 2 + m
<1>1. /\ m # 0 /\ ~(Len(w) < e) /\ Len(w) < e + 1 /\ e - 1 = c + 1 + m /\ e + 1 > Len(w)
      /\ w[e] = CR
  BY ChunkFacts
<1>2. MayBe(w, e, CR) /\ MayBe(w, e + 1, LF)
  BY <1>1 DEF MayBe
<1>3. ASSUME NEW r PROVE ChunkAt(w, i, r) = Parsed(SubSeq(w, c + 2, c + 1 + m), "more")
  <2>1. ChunkAt(w, i, r) = DataPart(w, c + 2, m, r)
    BY ChunkData DEF OnChunk
  <2> QED
    BY <2>1, <1>1, <1>2, Zenon DEF DataPart
<1>4. /\ w \in Seq(Bytes) /\ i \in 1..Len(w) + 1 /\ Before(w, i, B)
  BY ChunkFacts DEF OnChunk
<1> QED
  BY <1>3, <1>4, SaysMore

\* The bytes behind the data are not CR LF.
LEMMA DataBad ==
  ASSUME NEW w, NEW i, NEW d, NEW c, NEW B, OnChunk(w, i, d, c, B), c < Len(w), w[c + 1] = LF,
         NEW m \in Nat \ {0}, m = Value(w, i, d), Len(w) >= c + 2 + m,
         ~MayBe(w, c + 2 + m, CR) \/ ~MayBe(w, c + 2 + m + 1, LF)
  PROVE  Past(w, B \o SubSeq(w, c + 2, c + 1 + m))
<1> DEFINE e == c + 2 + m
<1>1. /\ m # 0 /\ ~(Len(w) < e) /\ e - 1 = c + 1 + m
  BY ChunkFacts
<1>2. ASSUME NEW r PROVE ChunkAt(w, i, r) = Parsed(SubSeq(w, c + 2, c + 1 + m), "bad")
  <2>1. ChunkAt(w, i, r) = DataPart(w, c + 2, m, r)
    BY ChunkData DEF OnChunk
  <2> QED
    BY <1>1, <2>1, Zenon DEF DataPart
<1>3. /\ w \in Seq(Bytes) /\ i \in 1..Len(w) + 1 /\ B \in Seq(Bytes) /\ Before(w, i, B)
  BY ChunkFacts DEF OnChunk
<1> QED
  BY <1>2, <1>3, PastIs

-----------------------------------------------------------------------------
(* The trailer.                                                            *)

LEMMA TrailerByte ==
  ASSUME NEW w \in Seq(Bytes), NEW m \in 1..Len(w) + 1, ~Blanks(w, m),
         NEW b \in Bytes, NEW v, Grown(v, w, b)
  PROVE  /\ EmptyLine(w, m) /\ b = LF => Blanks(v, m)
         /\ EmptyLine(w, m) /\ b = CR => ~Blanks(v, m) /\ EmptyLine(v, m)
         /\ b \notin {CR, LF} => ~Blanks(v, m) /\ OtherLine(v, m)
         /\ OtherLine(w, m) /\ b = LF => ~Blanks(v, m) /\ EmptyLine(v, m)
         /\ OtherLine(w, m) /\ b # LF => ~Blanks(v, m) /\ OtherLine(v, m)
<1>1. /\ Len(w) \in Nat /\ v \in Seq(Bytes) /\ Len(v) = Len(w) + 1 /\ v[Len(w) + 1] = b
      /\ \A k \in 1..Len(w) : v[k] = w[k]
  BY GrownStarts
<1>2. m \in Nat /\ m >= 1 /\ m <= Len(w) + 1
  BY <1>1
<1> DEFINE N == Len(w) + 1
<1>3. ASSUME NEW s \in m..N, NEW e \in m..N, BlankLine(v, m, s, e)
      PROVE  e = N /\ b = LF /\ (s = m \/ w[s - 1] = LF) /\ \A l \in s..Len(w) : w[l] = CR
  <2>1. s <= e /\ (s = m \/ v[s - 1] = LF) /\ v[e] = LF /\ \A l \in s..e - 1 : v[l] = CR
    BY <1>3 DEF BlankLine
  <2>2. s = m \/ w[s - 1] = LF
    <3>1. s # m => s - 1 \in 1..Len(w)
      BY <1>1, <1>2
    <3> QED
      BY <1>1, <2>1, <3>1
  <2>3. e = N
    <3>1. SUFFICES ASSUME e # N PROVE FALSE
      OBVIOUS
    <3>2. e \in m..Len(w) /\ s \in m..Len(w) /\ e \in 1..Len(w)
      BY <1>1, <1>2, <2>1, <3>1
    <3>3. \A l \in s..e - 1 : l \in 1..Len(w)
      BY <1>1, <1>2, <3>2
    <3>4. w[e] = LF /\ \A l \in s..e - 1 : w[l] = CR
      BY <1>1, <2>1, <3>2, <3>3
    <3>5. BlankLine(w, m, s, e)
      BY <2>1, <2>2, <3>4 DEF BlankLine
    <3> QED
      BY <3>2, <3>5 DEF Blanks
  <2>4. \A l \in s..Len(w) : l \in 1..Len(w) /\ l \in s..e - 1
    BY <1>1, <1>2, <2>3
  <2> QED
    BY <1>1, <2>1, <2>2, <2>3, <2>4
<1>4. Blanks(v, m) => b = LF /\ EmptyLine(w, m)
  BY <1>1, <1>3 DEF Blanks, EmptyLine
<1>5. ~(EmptyLine(w, m) /\ OtherLine(w, m))
  <2>1. SUFFICES ASSUME NEW s \in m..N, s = m \/ w[s - 1] = LF, \A l \in s..Len(w) : w[l] = CR,
                        NEW l \in m..Len(w), w[l] \notin {CR, LF}, \A k \in l..Len(w) : w[k] # LF
                 PROVE  FALSE
    BY DEF EmptyLine, OtherLine
  <2>2. CASE s <= l
    <3>1. l \in s..Len(w)
      BY <1>1, <1>2, <2>2
    <3> QED
      BY <2>1, <3>1
  <2>3. CASE l < s
    <3>1. s # m /\ s - 1 \in l..Len(w)
      BY <1>1, <1>2, <2>3
    <3> QED
      BY <2>1, <3>1
  <2> QED
    BY <1>1, <1>2, <2>2, <2>3
<1>6. ASSUME NEW s \in m..N, s = m \/ w[s - 1] = LF, \A l \in s..Len(w) : w[l] = CR, b \in {CR, LF}
      PROVE  IF b = LF THEN Blanks(v, m) ELSE EmptyLine(v, m)
  <2>1. s = m \/ v[s - 1] = LF
    <3>1. s # m => s - 1 \in 1..Len(w)
      BY <1>1, <1>2
    <3> QED
      BY <1>1, <1>6, <3>1
  <2>2. \A l \in s..Len(w) : v[l] = CR
    BY <1>1, <1>2, <1>6
  <2>3. CASE b = LF
    <3>1. N \in m..Len(v) /\ s \in m..Len(v) /\ s <= N /\ N - 1 = Len(w)
      BY <1>1, <1>2
    <3>2. BlankLine(v, m, s, N)
      BY <1>1, <2>1, <2>2, <2>3, <3>1 DEF BlankLine
    <3> QED
      BY <2>3, <3>1, <3>2 DEF Blanks
  <2>4. CASE b # LF
    <3>1. \A l \in s..Len(v) : l \in s..Len(w) \/ l = Len(w) + 1
      BY <1>1, <1>2
    <3>2. \A l \in s..Len(v) : v[l] = CR
      BY <1>1, <1>6, <2>2, <2>4, <3>1
    <3>3. s \in m..Len(v) + 1
      BY <1>1, <1>2
    <3> QED
      BY <2>1, <2>4, <3>2, <3>3 DEF EmptyLine
  <2> QED
    BY <2>3, <2>4
<1>7. /\ EmptyLine(w, m) /\ b = LF => Blanks(v, m)
      /\ EmptyLine(w, m) /\ b = CR => EmptyLine(v, m)
  BY <1>6, ByteKinds DEF EmptyLine
<1>8. ASSUME b \notin {CR, LF} PROVE OtherLine(v, m)
  <2>1. N \in m..Len(v) /\ \A k \in N..Len(v) : k = N
    BY <1>1, <1>2
  <2> QED
    BY <1>1, <1>8, <2>1 DEF OtherLine
<1>9. ASSUME OtherLine(w, m), b = LF PROVE EmptyLine(v, m)
  <2>1. /\ Len(v) + 1 \in m..Len(v) + 1 /\ Len(v) + 1 - 1 = Len(w) + 1
        /\ Len(v) + 1..Len(v) = {}
    BY <1>1, <1>2
  <2> QED
    BY <1>1, <1>9, <2>1 DEF EmptyLine
<1>10. ASSUME NEW l \in m..Len(w), w[l] \notin {CR, LF}, \A k \in l..Len(w) : w[k] # LF, b # LF
       PROVE  OtherLine(v, m)
  <2>1. l \in m..Len(v) /\ l \in 1..Len(w) /\ \A k \in l..Len(v) : k \in l..Len(w) \/ k = Len(w) + 1
    BY <1>1, <1>2
  <2>2. \A k \in l..Len(w) : k \in 1..Len(w)
    BY <1>1, <1>2
  <2> QED
    BY <1>1, <1>10, <2>1, <2>2 DEF OtherLine
<1>11. OtherLine(w, m) /\ b # LF => OtherLine(v, m)
  BY <1>10 DEF OtherLine
<1>12. CR # LF
  BY ByteKinds
<1> HIDE DEF N
<1> QED
  BY <1>4, <1>5, <1>7, <1>8, <1>9, <1>11, <1>12

-----------------------------------------------------------------------------
(* Byte after byte.                                                        *)

Decoding(s, left, w, out) ==
  \/ s = "DONE" /\ Past(w, out)
  \/ InSize(s, left, w, out) \/ InData(s, left, w, out) \/ InTrailer(s, w, out)

\* As long as the decoder has not stopped, it gave all there is, and more may come.
LEMMA DecodingOpen ==
  ASSUME NEW s, NEW left, NEW w \in Seq(Bytes), NEW out, Decoding(s, left, w, out), s # "DONE"
  PROVE  Decoded(w).body = out /\ Decoded(w).end = "more"
<1>1. ASSUME NEW i, NEW d, NEW c, OnChunk(w, i, d, c, out), Len(w) <= c
      PROVE  Decoded(w).body = out /\ Decoded(w).end = "more"
  <2>1. ASSUME NEW r PROVE ChunkAt(w, i, r) = Parsed(<<>>, "more")
    BY <1>1, ChunkNoData DEF OnChunk
  <2>2. out \in Seq(Bytes) /\ out \o <<>> = out /\ i \in 1..Len(w) + 1 /\ Before(w, i, out)
    BY <1>1, ChunkFacts, ConcatEmptySeq DEF OnChunk
  <2> QED
    BY <2>1, <2>2, SaysMore
<1>2. CASE InSize(s, left, w, out)
  <2>1. PICK i \in Nat, d \in Nat, c \in Nat : OnChunk(w, i, d, c, out) /\ (c = Len(w) + 1 \/ c = Len(w))
    BY <1>2 DEF InSize
  <2>2. Len(w) <= c
    BY <2>1
  <2> QED
    BY <1>1, <2>1, <2>2
<1>3. CASE InData(s, left, w, out)
  <2>1. PICK i \in Nat, d \in Nat, c \in Nat, B \in Seq(Bytes), m \in Nat \ {0} :
    /\ OnChunk(w, i, d, c, B) /\ c < Len(w) /\ w[c + 1] = LF /\ m = Value(w, i, d)
    /\ \/ /\ s = "DATA" /\ left = c + 1 + m - Len(w) /\ left > 0
          /\ out = B \o SubSeq(w, c + 2, Len(w))
       \/ /\ s = "DATA_CR" /\ Len(w) = c + 1 + m
          /\ out = B \o SubSeq(w, c + 2, Len(w))
       \/ /\ s = "DATA_LF" /\ Len(w) = c + 2 + m /\ w[c + 2 + m] = CR
          /\ out = B \o SubSeq(w, c + 2, c + 1 + m)
    BY <1>3 DEF InData
  <2>2. OnChunk(w, i, d, c, B) /\ c < Len(w) /\ w[c + 1] = LF /\ m = Value(w, i, d)
    BY <2>1
  <2>3. Before(w, i, B) /\ i \in 1..Len(w) + 1 /\ Len(w) \in Nat
    BY <2>2, ChunkFacts DEF OnChunk
  <2>4. CASE s # "DATA_LF"
    <3>1. Len(w) < c + 2 + m
      BY <2>1, <2>3, <2>4
    <3>2. \A r : ChunkAt(w, i, r) = Parsed(SubSeq(w, c + 2, Len(w)), "more")
      BY <2>2, <3>1, DataMore
    <3>3. B \o SubSeq(w, c + 2, Len(w)) = out
      BY <2>1, <2>4
    <3> QED
      BY <2>3, <3>2, <3>3, SaysMore
  <2>5. CASE s = "DATA_LF"
    <3>1. Len(w) = c + 2 + m /\ w[c + 2 + m] = CR /\ out = B \o SubSeq(w, c + 2, c + 1 + m)
      BY <2>1, <2>5
    <3> QED
      BY <2>2, <3>1, DataWhole
  <2> QED
    BY <2>4, <2>5
<1>4. CASE InTrailer(s, w, out)
  <2>1. PICK i \in Nat, d \in Nat, c \in Nat :
     OnChunk(w, i, d, c, out) /\ c < Len(w) /\ w[c + 1] = LF /\ Value(w, i, d) = 0
     /\ ~Blanks(w, c + 2)
    BY <1>4 DEF InTrailer
  <2>2. ASSUME NEW r PROVE ChunkAt(w, i, r) = Parsed(<<>>, "more")
    <3>1. ChunkAt(w, i, r) = DataPart(w, c + 2, 0, r)
      BY <2>1, ChunkData DEF OnChunk
    <3>2. ~\E a, e \in c + 2..Len(w) : BlankLine(w, c + 2, a, e)
      BY <2>1 DEF Blanks
    <3> QED
      BY <3>1, <3>2, Zenon DEF DataPart
  <2>3. out \in Seq(Bytes) /\ out \o <<>> = out /\ i \in 1..Len(w) + 1 /\ Before(w, i, out)
    BY <2>1, ChunkFacts, ConcatEmptySeq DEF OnChunk
  <2> QED
    BY <2>2, <2>3, SaysMore
<1> QED
  BY <1>2, <1>3, <1>4 DEF Decoding

\* Each state is one of the three.
LEMMA StateApart ==
  ASSUME NEW s, NEW left, NEW w, NEW out
  PROVE  /\ InSize(s, left, w, out) => s \in {"SIZE", "EXT", "SIZE_LF"}
         /\ InData(s, left, w, out) => s \in {"DATA", "DATA_CR", "DATA_LF"}
         /\ InTrailer(s, w, out) => s \in {"TRAILER", "TRAILER_LINE"}
  BY DEF InSize, InData, InTrailer

LEMMA StepSize ==
  ASSUME NEW w \in Seq(Bytes), NEW out, NEW b \in Bytes, NEW v, Grown(v, w, b),
         InSize("SIZE", chLeft, w, out), chState = "SIZE", FeedSize(b)
  PROVE  Decoding(chState', chLeft', v, out)
<1>1. PICK i \in Nat, c \in Nat :
        /\ OnChunk(w, i, c, c, out) /\ chLeft = Value(w, i, c) /\ c = Len(w) + 1
  BY DEF InSize
<1>2. v \in Seq(Bytes) /\ Len(v) = c /\ Len(v) \in Nat /\ c + 1 \in Nat
  BY <1>1, GrownStarts
<1>3. CASE b \in Digits /\ chLeft <= SizeMax /\ chLeft' = (chLeft * 16 + b) % Word /\ chState' = chState
  <2>1. OnChunk(v, i, c + 1, c + 1, out) /\ Value(v, i, c + 1) = chLeft' /\ c + 1 = Len(v) + 1
    BY <1>1, <1>3, SizeDigit
  <2>2. InSize("SIZE", chLeft', v, out)
    BY <1>2, <2>1 DEF InSize
  <2> QED
    BY <1>3, <2>2 DEF Decoding
<1>4. CASE b \in Digits /\ chLeft > SizeMax /\ chState' = "DONE"
  BY <1>1, <1>4, SizeTooBig DEF Decoding
<1>5. CASE b = Semi /\ chState' = "EXT" /\ chLeft' = chLeft
  <2>1. OnChunk(v, i, c, c + 1, out) /\ Value(v, i, c) = chLeft
    BY <1>1, <1>5, SizeMark
  <2>2. InSize("EXT", chLeft, v, out)
    BY <1>2, <2>1 DEF InSize
  <2> QED
    BY <1>5, <2>2 DEF Decoding
<1>6. CASE b = CR /\ chState' = "SIZE_LF" /\ chLeft' = chLeft
  <2>1. OnChunk(v, i, c, c, out) /\ Value(v, i, c) = chLeft
    BY <1>1, <1>6, SizeMark
  <2>2. InSize("SIZE_LF", chLeft, v, out)
    BY <1>2, <2>1 DEF InSize
  <2> QED
    BY <1>6, <2>2 DEF Decoding
<1>7. CASE b = LF /\ chState' = "DONE"
  BY <1>1, <1>7, SizeBad DEF Decoding
<1> QED
  BY <1>3, <1>4, <1>5, <1>6, <1>7 DEF FeedSize, Chunk, ChunkError

LEMMA StepExtension ==
  ASSUME NEW w \in Seq(Bytes), NEW out, NEW b \in Bytes, NEW v, Grown(v, w, b),
         InSize("EXT", chLeft, w, out), chState = "EXT", FeedSizeEnd(b)
  PROVE  Decoding(chState', chLeft', v, out)
<1>1. PICK i \in Nat, d \in Nat, c \in Nat :
        /\ OnChunk(w, i, d, c, out) /\ chLeft = Value(w, i, d) /\ d <= Len(w) /\ c = Len(w) + 1
  BY DEF InSize
<1>2. v \in Seq(Bytes) /\ Len(v) = c /\ Len(v) \in Nat /\ c + 1 \in Nat
  BY <1>1, GrownStarts
<1>3. Value(v, i, d) = chLeft /\ d <= Len(v)
  BY <1>1, Extension
<1>4. CASE b = CR /\ chState' = "SIZE_LF" /\ chLeft' = chLeft
  <2>1. OnChunk(v, i, d, c, out)
    BY <1>1, <1>4, Extension
  <2>2. InSize("SIZE_LF", chLeft, v, out)
    BY <1>2, <1>3, <2>1 DEF InSize
  <2> QED
    BY <1>4, <2>2 DEF Decoding
<1>5. CASE b # CR /\ chState' = chState /\ chLeft' = chLeft
  <2>1. OnChunk(v, i, d, c + 1, out)
    BY <1>1, <1>5, Extension
  <2>2. InSize("EXT", chLeft, v, out)
    BY <1>2, <1>3, <2>1 DEF InSize
  <2> QED
    BY <1>5, <2>2 DEF Decoding
<1> QED
  BY <1>4, <1>5 DEF FeedSizeEnd, Chunk, chVars

LEMMA StepLine ==
  ASSUME NEW w \in Seq(Bytes), NEW out, NEW b \in Bytes, NEW v, Grown(v, w, b),
         InSize("SIZE_LF", chLeft, w, out), chState = "SIZE_LF", FeedSizeEnd(b)
  PROVE  Decoding(chState', chLeft', v, out)
<1>1. PICK i \in Nat, d \in Nat, c \in Nat :
        /\ OnChunk(w, i, d, c, out) /\ chLeft = Value(w, i, d) /\ c = Len(w)
  BY DEF InSize
<1>2. CASE b # LF /\ chState' = "DONE"
  BY <1>1, <1>2, LineBad DEF Decoding
<1>3. CASE b = LF /\ chState' = (IF chLeft > 0 THEN "DATA" ELSE "TRAILER") /\ chLeft' = chLeft
  <2>1. /\ OnChunk(v, i, d, c, out) /\ Value(v, i, d) = chLeft /\ Len(v) = c + 1
        /\ c < Len(v) /\ v[c + 1] = LF
        /\ out \o SubSeq(v, c + 2, Len(v)) = out
    BY <1>1, <1>3, DataStarts
  <2>2. out \in Seq(Bytes) /\ chLeft \in Nat /\ Len(v) \in Nat
    BY <2>1, ChunkFacts
  <2>3. CASE chLeft > 0
    <3>1. chLeft \in Nat \ {0} /\ chLeft = c + 1 + chLeft - Len(v)
      BY <2>1, <2>2, <2>3
    <3>2. InData("DATA", chLeft, v, out)
      BY <2>1, <2>2, <2>3, <3>1 DEF InData
    <3> QED
      BY <1>3, <2>3, <3>2 DEF Decoding
  <2>4. CASE ~(chLeft > 0)
    <3>1. chLeft = 0
      BY <2>2, <2>4
    <3>2. c + 2..Len(v) = {} /\ c + 2 \in c + 2..Len(v) + 1
      BY <2>1, <2>2
    <3>3. ~Blanks(v, c + 2)
      BY <3>2 DEF Blanks
    <3>4. EmptyLine(v, c + 2)
      BY <3>2 DEF EmptyLine
    <3>5. InTrailer("TRAILER", v, out)
      BY <2>1, <3>1, <3>3, <3>4 DEF InTrailer
    <3> QED
      BY <1>3, <2>4, <3>5 DEF Decoding
  <2> QED
    BY <2>3, <2>4
<1> QED
  BY <1>2, <1>3 DEF FeedSizeEnd, Chunk, ChunkError

LEMMA StepData ==
  ASSUME NEW w \in Seq(Bytes), NEW out, NEW b \in Bytes, NEW v, Grown(v, w, b),
         InData("DATA", chLeft, w, out), chState = "DATA", FeedData(b)
  PROVE  Decoding(chState', chLeft', v, With(out, b))
<1>1. PICK i \in Nat, d \in Nat, c \in Nat, B \in Seq(Bytes), m \in Nat \ {0} :
        /\ OnChunk(w, i, d, c, B) /\ c < Len(w) /\ w[c + 1] = LF /\ m = Value(w, i, d)
        /\ chLeft = c + 1 + m - Len(w) /\ chLeft > 0
        /\ out = B \o SubSeq(w, c + 2, Len(w))
  BY DEF InData
<1>2. chLeft' = chLeft - 1 /\ chState' = IF chLeft = 1 THEN "DATA_CR" ELSE "DATA"
  BY DEF FeedData
<1>3. OnChunk(w, i, d, c, B) /\ c < Len(w) /\ w[c + 1] = LF
  BY <1>1
<1>4. /\ OnChunk(v, i, d, c, B) /\ Value(v, i, d) = Value(w, i, d)
       /\ Len(v) = Len(w) + 1 /\ v[c + 1] = LF /\ Len(w) \in Nat
  BY <1>3, LineStays
<1>5. With(out, b) = B \o SubSeq(v, c + 2, Len(v))
  <2>1. Continues(out, b, B, SubSeq(v, c + 2, Len(v)))
    BY <1>1, DataByte
  <2> QED
    BY <2>1 DEF Continues
<1>6. /\ OnChunk(v, i, d, c, B) /\ m = Value(v, i, d)
      /\ Len(v) = Len(w) + 1 /\ v[c + 1] = LF /\ Len(w) \in Nat
      /\ With(out, b) = B \o SubSeq(v, c + 2, Len(v))
  BY <1>1, <1>4, <1>5
<1>7. /\ m \in Nat /\ c \in Nat /\ Len(w) \in Nat /\ c < Len(w) /\ Len(v) = Len(w) + 1
       /\ chLeft = c + 1 + m - Len(w) /\ chLeft > 0
  BY <1>1, <1>6
<1>8. /\ c < Len(v) /\ chLeft' = c + 1 + m - Len(v)
      /\ chLeft = 1 => Len(v) = c + 1 + m
      /\ chLeft # 1 => chLeft' > 0
  BY <1>2, <1>7
<1>9. CASE chLeft = 1
  <2>1. InData("DATA_CR", chLeft', v, With(out, b))
    BY <1>6, <1>8, <1>9 DEF InData
  <2> QED
    BY <1>2, <1>9, <2>1 DEF Decoding
<1>10. CASE chLeft # 1
  <2>1. InData("DATA", chLeft', v, With(out, b))
    BY <1>6, <1>8, <1>10 DEF InData
  <2> QED
    BY <1>2, <1>10, <2>1 DEF Decoding
<1> QED
  BY <1>9, <1>10

LEMMA StepDataCr ==
  ASSUME NEW w \in Seq(Bytes), NEW out, NEW b \in Bytes, NEW v, Grown(v, w, b),
         InData("DATA_CR", chLeft, w, out), chState = "DATA_CR", FeedData(b)
  PROVE  Decoding(chState', chLeft', v, out)
<1>1. PICK i \in Nat, d \in Nat, c \in Nat, B \in Seq(Bytes), m \in Nat \ {0} :
        /\ OnChunk(w, i, d, c, B) /\ c < Len(w) /\ w[c + 1] = LF /\ m = Value(w, i, d)
        /\ Len(w) = c + 1 + m /\ out = B \o SubSeq(w, c + 2, Len(w))
  BY DEF InData
<1>2. OnChunk(w, i, d, c, B) /\ c < Len(w) /\ w[c + 1] = LF /\ m = Value(w, i, d)
  BY <1>1
<1>3. /\ OnChunk(v, i, d, c, B) /\ m = Value(v, i, d)
      /\ Len(v) = Len(w) + 1 /\ v[c + 1] = LF /\ v[Len(v)] = b /\ Len(w) \in Nat
  BY <1>2, LineStays
<1>4. Len(w) = c + 1 + m /\ c \in Nat /\ m \in Nat
  BY <1>1
<1>5. c < Len(v) /\ Len(v) = c + 2 + m /\ v[c + 2 + m] = b
  <2>1. c < Len(v) /\ Len(v) = c + 2 + m
    BY <1>3, <1>4
  <2> QED
    BY <1>3, <2>1
<1>6. out = B \o SubSeq(v, c + 2, c + 1 + m)
  <2>1. c + 2 \in Nat \ {0} /\ Len(w) \in Int /\ Len(w) <= Len(w) /\ v \in Seq(Bytes)
    BY <1>3 DEF Grown
  <2>2. SubSeq(v, c + 2, Len(w)) = SubSeq(w, c + 2, Len(w))
    BY <2>1, GrownStarts, PieceKept
  <2> QED
    BY <1>1, <2>2
<1>7. CASE b = CR /\ chState' = "DATA_LF"
  <2>1. InData("DATA_LF", chLeft', v, out)
    BY <1>3, <1>5, <1>6, <1>7 DEF InData
  <2> QED
    BY <1>7, <2>1 DEF Decoding
<1>8. CASE b # CR /\ chState' = "DONE"
  <2>1. ~MayBe(v, c + 2 + m, CR) /\ Len(v) >= c + 2 + m
    BY <1>3, <1>5, <1>8 DEF MayBe
  <2>2. Past(v, out)
    BY <1>3, <1>5, <1>6, <2>1, DataBad
  <2> QED
    BY <1>8, <2>2 DEF Decoding
<1> QED
  BY <1>7, <1>8 DEF FeedData, Chunk, ChunkError

LEMMA StepDataLf ==
  ASSUME NEW w \in Seq(Bytes), NEW out, NEW b \in Bytes, NEW v, Grown(v, w, b),
         InData("DATA_LF", chLeft, w, out), chState = "DATA_LF", FeedData(b)
  PROVE  Decoding(chState', chLeft', v, out)
<1>1. PICK i \in Nat, d \in Nat, c \in Nat, B \in Seq(Bytes), m \in Nat \ {0} :
        /\ OnChunk(w, i, d, c, B) /\ c < Len(w) /\ w[c + 1] = LF /\ m = Value(w, i, d)
        /\ \/ /\ "DATA_LF" = "DATA" /\ chLeft = c + 1 + m - Len(w) /\ chLeft > 0
              /\ out = B \o SubSeq(w, c + 2, Len(w))
           \/ /\ "DATA_LF" = "DATA_CR" /\ Len(w) = c + 1 + m
              /\ out = B \o SubSeq(w, c + 2, Len(w))
           \/ /\ "DATA_LF" = "DATA_LF" /\ Len(w) = c + 2 + m /\ w[c + 2 + m] = CR
              /\ out = B \o SubSeq(w, c + 2, c + 1 + m)
  BY Zenon DEF InData
<1>2. /\ OnChunk(w, i, d, c, B) /\ c < Len(w) /\ w[c + 1] = LF /\ m = Value(w, i, d)
      /\ Len(w) = c + 2 + m /\ w[c + 2 + m] = CR /\ out = B \o SubSeq(w, c + 2, c + 1 + m)
  BY <1>1
<1>3. OnChunk(w, i, d, c, B) /\ c < Len(w) /\ w[c + 1] = LF /\ m = Value(w, i, d)
  BY <1>2
<1>4. /\ OnChunk(v, i, d, c, B) /\ m = Value(v, i, d)
      /\ Len(v) = Len(w) + 1 /\ v[c + 1] = LF /\ v[Len(v)] = b /\ Len(w) \in Nat
  BY <1>3, LineStays
<1>5. Len(w) = c + 2 + m /\ c \in Nat /\ m \in Nat
  BY <1>2
<1>6. /\ c < Len(v) /\ Len(v) = c + 3 + m /\ v[c + 3 + m] = b /\ c + 2 + m + 1 = c + 3 + m
      /\ c + 2 + m \in 1..Len(w)
  <2>1. /\ c < Len(v) /\ Len(v) = c + 3 + m /\ c + 2 + m + 1 = c + 3 + m
        /\ c + 2 + m \in 1..Len(w)
    BY <1>4, <1>5
  <2> QED
    BY <1>4, <2>1
<1>7. v \in Seq(Bytes) /\ Starts(w, Len(w), v) /\ v[c + 2 + m] = CR
  BY <1>2, <1>6, GrownStarts
<1>8. out = B \o SubSeq(v, c + 2, c + 1 + m)
  <2>1. c + 2 \in Nat \ {0} /\ c + 1 + m \in Int /\ c + 1 + m <= Len(w)
    BY <1>5
  <2>2. SubSeq(v, c + 2, c + 1 + m) = SubSeq(w, c + 2, c + 1 + m)
    BY <1>7, <2>1, PieceKept
  <2> QED
    BY <1>2, <2>2
<1>9. CASE b = LF /\ chState' = "SIZE" /\ chLeft' = 0
  <2> DEFINE e == Len(v) + 1
  <2>1. Before(v, e, out)
    BY <1>4, <1>6, <1>7, <1>8, <1>9, BeforeNext DEF OnChunk
  <2>2. e \in Nat /\ e = Len(v) + 1
    BY <1>4
  <2>3. out \in Seq(Bytes)
    <3>1. c + 2 \in Nat \ {0} /\ c + 1 + m \in Int /\ c + 1 + m <= Len(v)
      BY <1>6, <1>5
    <3>2. SubSeq(v, c + 2, c + 1 + m) \in Seq(Bytes)
      BY <1>7, <3>1, PartTyped
    <3>3. B \in Seq(Bytes)
      OBVIOUS
    <3> QED
      BY <1>8, <3>2, <3>3, ConcatProperties
  <2>4. Value(v, e, e) = 0
    BY <2>2, ValueNone
  <2>5. SizeLine(v, e, e, e)
    <3>1. e \in 1..Len(v) + 1 /\ e \in e..Len(v) + 1 /\ ~(e <= Len(v)) /\ e..e - 1 = {}
      BY <1>4, <2>2
    <3>2. 0 < Word
      BY HttpAssumption DEF Word
    <3> HIDE DEF e
    <3> QED
      BY <2>4, <3>1, <3>2 DEF SizeLine
  <2>6. InSize("SIZE", 0, v, out)
    <3> HIDE DEF e
    <3> QED
      BY <1>7, <2>1, <2>2, <2>3, <2>4, <2>5 DEF InSize, OnChunk
  <2> QED
    BY <1>9, <2>6 DEF Decoding
<1>10. CASE b # LF /\ chState' = "DONE"
  <2>1. ~MayBe(v, c + 2 + m + 1, LF) /\ Len(v) >= c + 2 + m
    BY <1>4, <1>6, <1>10 DEF MayBe
  <2>2. Past(v, out)
    BY <1>4, <1>6, <1>8, <2>1, DataBad
  <2> QED
    BY <1>10, <2>2 DEF Decoding
<1> QED
  BY <1>9, <1>10 DEF FeedData, ChunkError

LEMMA StepTrailer ==
  ASSUME NEW w \in Seq(Bytes), NEW out, NEW b \in Bytes, NEW v, Grown(v, w, b),
         InTrailer(chState, w, out), FeedTrailer(b)
  PROVE  Decoding(chState', chLeft', v, out)
<1>1. PICK i \in Nat, d \in Nat, c \in Nat :
        /\ OnChunk(w, i, d, c, out) /\ c < Len(w) /\ w[c + 1] = LF /\ Value(w, i, d) = 0
        /\ ~Blanks(w, c + 2)
        /\ \/ chState = "TRAILER" /\ EmptyLine(w, c + 2)
           \/ chState = "TRAILER_LINE" /\ OtherLine(w, c + 2)
  BY DEF InTrailer
<1>2. /\ OnChunk(v, i, d, c, out) /\ Value(v, i, d) = 0
      /\ Len(v) = Len(w) + 1 /\ v[c + 1] = LF /\ Len(w) \in Nat
  BY <1>1, LineStays
<1>3. c < Len(v) /\ c + 2 \in 1..Len(w) + 1
  BY <1>1, <1>2
<1>4. ASSUME EmptyLine(v, c + 2), ~Blanks(v, c + 2), chState' = "TRAILER"
      PROVE  Decoding(chState', chLeft', v, out)
  <2>1. InTrailer("TRAILER", v, out)
    BY <1>2, <1>3, <1>4 DEF InTrailer
  <2> QED
    BY <1>4, <2>1 DEF Decoding
<1>5. ASSUME OtherLine(v, c + 2), ~Blanks(v, c + 2), chState' = "TRAILER_LINE"
       PROVE  Decoding(chState', chLeft', v, out)
  <2>1. InTrailer("TRAILER_LINE", v, out)
    BY <1>2, <1>3, <1>5 DEF InTrailer
  <2> QED
    BY <1>5, <2>1 DEF Decoding
<1>6. CASE chState = "TRAILER" /\ b = CR /\ chState' = chState
  <2>1. ~Blanks(v, c + 2) /\ EmptyLine(v, c + 2)
    BY <1>1, <1>3, <1>6, TrailerByte
  <2>2. chState' = "TRAILER"
    BY <1>6
  <2> QED
    BY <1>4, <1>6, <2>1, <2>2
<1>7. CASE chState = "TRAILER" /\ b = LF /\ chState' = "DONE"
  <2>1. Blanks(v, c + 2)
    BY <1>1, <1>3, <1>7, TrailerByte
  <2>2. ASSUME NEW r PROVE ChunkAt(v, i, r) = Parsed(<<>>, "end")
    <3>1. /\ v \in Seq(Bytes) /\ SizeLine(v, i, d, c) /\ c < Len(v) /\ v[c + 1] = LF
          /\ Value(v, i, d) = 0
      BY <1>2, <1>3 DEF OnChunk
    <3>2. ChunkAt(v, i, r) = DataPart(v, c + 2, Value(v, i, d), r)
      BY <3>1, ChunkData
    <3>3. ChunkAt(v, i, r) = DataPart(v, c + 2, 0, r)
      BY <3>1, <3>2
    <3>4. \E a, e \in c + 2..Len(v) : BlankLine(v, c + 2, a, e)
      BY <2>1 DEF Blanks
    <3> QED
      BY <3>3, <3>4, Zenon DEF DataPart
  <2>3. /\ v \in Seq(Bytes) /\ i \in 1..Len(v) + 1 /\ out \in Seq(Bytes) /\ Before(v, i, out)
        /\ out \o <<>> = out
    BY <1>2, ChunkFacts, ConcatEmptySeq DEF OnChunk
  <2>4. Past(v, out)
    BY <2>2, <2>3, PastIs
  <2> QED
    BY <1>7, <2>4 DEF Decoding
<1>8. CASE chState = "TRAILER" /\ b \notin {CR, LF} /\ chState' = "TRAILER_LINE"
  <2>1. ~Blanks(v, c + 2) /\ OtherLine(v, c + 2)
    BY <1>1, <1>3, <1>8, TrailerByte
  <2> QED
    BY <1>5, <1>8, <2>1
<1>9. CASE chState = "TRAILER_LINE" /\ b = LF /\ chState' = "TRAILER"
  <2>1. ~Blanks(v, c + 2) /\ EmptyLine(v, c + 2)
    BY <1>1, <1>3, <1>9, TrailerByte
  <2> QED
    BY <1>4, <1>9, <2>1
<1>10. CASE chState = "TRAILER_LINE" /\ b # LF /\ chState' = chState
  <2>1. ~Blanks(v, c + 2) /\ OtherLine(v, c + 2)
    BY <1>1, <1>3, <1>10, TrailerByte
  <2>2. chState' = "TRAILER_LINE"
    BY <1>10
  <2> QED
    BY <1>5, <1>10, <2>1, <2>2
<1> QED
  BY <1>6, <1>7, <1>8, <1>9, <1>10 DEF FeedTrailer, Chunk, chVars

\* One byte fed to the decoder.
LEMMA StepDecoding ==
  ASSUME NEW w \in Seq(Bytes), NEW out, NEW b \in Bytes, NEW v, Grown(v, w, b),
         Decoding(chState, chLeft, w, out), Feed(b)
  PROVE  Decoding(chState', chLeft', v, IF IsData THEN With(out, b) ELSE out)
<1>1. /\ FeedSize(b) => chState = "SIZE"
      /\ FeedSizeEnd(b) => chState \in {"EXT", "SIZE_LF"}
      /\ FeedData(b) => chState \in {"DATA", "DATA_CR", "DATA_LF"}
      /\ FeedTrailer(b) => chState \in {"TRAILER", "TRAILER_LINE"}
  BY DEF FeedSize, FeedSizeEnd, FeedData, FeedTrailer
<1>2. /\ InSize(chState, chLeft, w, out) => chState \in {"SIZE", "EXT", "SIZE_LF"}
      /\ InData(chState, chLeft, w, out) => chState \in {"DATA", "DATA_CR", "DATA_LF"}
      /\ InTrailer(chState, w, out) => chState \in {"TRAILER", "TRAILER_LINE"}
  BY StateApart
<1>3. CASE FeedSize(b)
  BY <1>1, <1>2, <1>3, StepSize DEF Decoding, IsData
<1>4. CASE FeedSizeEnd(b)
  BY <1>1, <1>2, <1>4, StepExtension, StepLine DEF Decoding, IsData
<1>5. CASE FeedData(b)
  BY <1>1, <1>2, <1>5, StepData, StepDataCr, StepDataLf DEF Decoding, IsData
<1>6. CASE FeedTrailer(b)
  BY <1>1, <1>2, <1>6, StepTrailer DEF Decoding, IsData
<1> QED
  BY <1>3, <1>4, <1>5, <1>6 DEF Feed

-----------------------------------------------------------------------------
(* The session.                                                            *)

\* What has been given out of the body, by this answer and the ones before it.
Given == read \o buf

BytesTyped == wire \in Seq(Bytes) /\ read \in Seq(Bytes) /\ buf \in Seq(Bytes) /\ ring \in Seq(Bytes)

ChunksInv ==
  /\ Decoding(chState, chLeft, wire, Given)
  /\ chDone \/ chError <=> chState = "DONE"
  /\ chState = "DONE" => eof
  /\ eof => chState = "DONE" \/ closed

LengthInv ==
  /\ Given = wire
  /\ announced = ToClose => remaining = ToClose
  /\ announced # ToClose => announced \in Nat /\ remaining \in Nat /\ remaining = announced - Len(wire)
  /\ remaining = 0 => eof
  /\ eof => remaining = 0 \/ closed

\* BodyDecoded and EndOfBody are not inductive: they say nothing of where the decoder is
\* in its framing, nor of what is still to come of a body without.
BodyInv ==
  /\ BytesTyped
  /\ phase \notin {"read", "empty"} => buf = <<>>
  /\ link => ~closed
  /\ active => IF chunked THEN ChunksInv ELSE LengthInv

LEMMA BodyInvMeans == ASSUME BodyInv PROVE BodyDecoded /\ EndOfBody
<1>1. SUFFICES ASSUME active PROVE Given = BodySoFar /\ (BodyComplete => eof)
                                   /\ (eof => BodyComplete \/ closed)
  BY DEF BodyDecoded, EndOfBody, Given
<1>2. CASE chunked
  <2>1. ChunksInv /\ wire \in Seq(Bytes)
    BY <1>1, <1>2 DEF BodyInv, BytesTyped
  <2>2. BodySoFar = Decoded(wire).body /\ (BodyComplete <=> Decoded(wire).end # "more")
    BY <1>2 DEF BodySoFar, BodyComplete
  <2>3. CASE chState # "DONE"
    <3>1. Decoded(wire).body = Given /\ Decoded(wire).end = "more"
      BY <2>1, <2>3, DecodingOpen DEF ChunksInv
    <3>2. eof => closed
      BY <2>1, <2>3 DEF ChunksInv
    <3> QED
      BY <2>2, <3>1, <3>2
  <2>4. CASE chState = "DONE"
    <3>1. Past(wire, Given)
      BY <2>1, <2>4, StateApart DEF ChunksInv, Decoding
    <3>2. eof
      BY <2>1, <2>4 DEF ChunksInv
    <3> QED
      BY <2>2, <3>1, <3>2 DEF Past
  <2> QED
    BY <2>3, <2>4
<1>3. CASE ~chunked
  <2>1. LengthInv /\ Len(wire) \in Nat
    BY <1>1, <1>3 DEF BodyInv, BytesTyped
  <2>2. BodySoFar = wire /\ (BodyComplete <=> Len(wire) = announced)
    BY <1>3 DEF BodySoFar, BodyComplete
  <2>3. Len(wire) = announced <=> remaining = 0
    BY <2>1 DEF LengthInv, ToClose
  <2> QED
    BY <2>1, <2>2, <2>3 DEF LengthInv
<1> QED
  BY <1>2, <1>3

LEMMA BodyInvInit == Init => BodyInv
  BY DEF Init, BodyInv, BytesTyped

\* Steps that take no byte.
LEMMA BodySame ==
  ASSUME BodyInv, active, active', UNCHANGED <<chunked, remaining, chVars, announced, wire>>,
         Given' = Given, eof' = eof, closed => closed' \/ link
  PROVE  IF chunked' THEN ChunksInv' ELSE LengthInv'
<1>1. CASE chunked
  <2>1. ChunksInv /\ (link => ~closed)
    BY <1>1 DEF BodyInv
  <2>2. /\ chState' = chState /\ chLeft' = chLeft /\ wire' = wire /\ chunked' = chunked
        /\ chDone' = chDone /\ chError' = chError
    BY DEF chVars
  <2>3. Decoding(chState, chLeft, wire, Given)'
    BY <2>1, <2>2 DEF ChunksInv
  <2> QED
    BY <1>1, <2>1, <2>2, <2>3 DEF ChunksInv
<1>2. CASE ~chunked
  BY <1>2 DEF BodyInv, LengthInv, ToClose
<1> QED
  BY <1>1, <1>2

\* A session that is over, or was none.
LEMMA BodyOut ==
  ASSUME BytesTyped', ~active', phase' \notin {"read", "empty"} => buf' = <<>>, link' => ~closed'
  PROVE  BodyInv'
  BY DEF BodyInv

LEMMA SessionEndsTyped ==
  ASSUME BytesTyped, SessionEnds, UNCHANGED buf, ring' = ring \/ ring' = <<>>
  PROVE  BytesTyped' /\ ~active'
<1>1. wire' = <<>> /\ read' = <<>> /\ buf' = buf /\ ~active'
  BY DEF SessionEnds
<1>2. ring' \in Seq(Bytes)
  <2>1. CASE ring' = ring
    BY <2>1 DEF BytesTyped
  <2>2. CASE ring' = <<>>
    BY <2>2
  <2> QED
    BY <2>1, <2>2
<1> QED
  BY <1>1, <1>2 DEF BytesTyped

LEMMA BodyFail == ASSUME BodyInv, Fail, UNCHANGED readVars, phase \notin {"read", "empty"} PROVE BodyInv'
<1>1. SessionEnds /\ ring' = <<>> /\ ~link' /\ phase' = "idle" /\ buf' = buf
  BY DEF Fail, Hangup, LeaveGet, readVars
<1>2. BytesTyped' /\ ~active'
  BY <1>1, SessionEndsTyped DEF BodyInv
<1> QED
  BY <1>1, <1>2, BodyOut DEF BodyInv

LEMMA RemainingTyped ==
  ASSUME HeaderInv, phase = "judge"
  PROVE  Remaining(resp) \in Nat \cup {ToClose} /\ (IsChunked(resp) => Remaining(resp) = ToClose)
<1>2. resp \in Seq(Lines)
  BY ParsedTyped DEF HeaderInv, resp
<1>1. LengthOf(resp) \in Nat \cup {ToClose}
  <2>1. CASE Having(resp, "length") = {}
    BY <2>1 DEF LengthOf
  <2>2. CASE Having(resp, "length") # {}
    <3> DEFINE i == CHOOSE i \in Having(resp, "length") :
                      \A j \in Having(resp, "length") : j <= i
    <3>1. i \in Having(resp, "length")
      BY <1>2, <2>2, LastThere DEF HasLast
    <3>2. LastOf(resp, "length") = resp[i]
      BY DEF LastOf
    <3> HIDE DEF i
    <3>3. resp[i] \in Lines /\ resp[i].name = "length"
      BY <1>2, <3>1 DEF Having
    <3>4. \A l \in Lines : l.name = "length" => l.bytes \in {-1, 0, 2}
      BY DEF Lines, StatusLines, FieldLines, BlankLines
    <3>5. LastOf(resp, "length").bytes \in Nat \cup {ToClose}
      BY <3>2, <3>3, <3>4 DEF ToClose
    <3> QED
      BY <3>5 DEF LengthOf
  <2> QED
    BY <2>1, <2>2
<1> QED
  BY <1>1 DEF Remaining

LEMMA BodyStarts ==
  ASSUME BodyInv, HeaderInv, SessionStarts
  PROVE  BodyInv'
<1>1. /\ phase = "judge" /\ phase' = "idle" /\ active' /\ chunked' = IsChunked(resp)
      /\ remaining' = Remaining(resp) /\ announced' = Remaining(resp)
      /\ eof' = (Remaining(resp) = 0)
      /\ chState' = "SIZE" /\ chLeft' = 0 /\ chDone' = FALSE /\ chError' = FALSE
      /\ wire' = <<>> /\ read' = <<>> /\ buf' = buf /\ UNCHANGED <<link, ring, closed>>
  BY DEF SessionStarts, LeaveGet, readVars, linkVars
<1>2. buf = <<>> /\ Given' = <<>> /\ BytesTyped'
  <2>1. buf = <<>> /\ ring \in Seq(Bytes)
    BY <1>1 DEF BodyInv, BytesTyped
  <2>2. <<>> \o <<>> = <<>>
    OBVIOUS
  <2> QED
    BY <1>1, <2>1, <2>2 DEF Given, BytesTyped
<1>3. Remaining(resp) \in Nat \cup {ToClose} /\ (IsChunked(resp) => Remaining(resp) = ToClose)
  BY <1>1, RemainingTyped
<1>4. CASE chunked'
  <2>1. ~eof'
    <3>1. Remaining(resp) # 0
      BY <1>1, <1>3, <1>4 DEF ToClose
    <3> QED
      BY <1>1, <3>1, Zenon
  <2>2. Decoding("SIZE", 0, <<>>, <<>>)
    <3>1. SizeLine(<<>>, 1, 1, 1)
      <4>1. Value(<<>>, 1, 1) = 0
        BY ValueNone
      <4>2. 0 < Word
        BY HttpAssumption DEF Word
      <4> QED
        BY <4>1, <4>2 DEF SizeLine
    <3>2. OnChunk(<<>>, 1, 1, 1, <<>>)
      BY <3>1, NothingBefore DEF OnChunk
    <3>3. 0 = Value(<<>>, 1, 1) /\ 1 \in Nat /\ Len(<<>>) + 1 = 1
      BY ValueNone
    <3>4. InSize("SIZE", 0, <<>>, <<>>)
      BY <3>2, <3>3 DEF InSize
    <3> QED
      BY <3>4 DEF Decoding
  <2>3. ChunksInv'
    BY <1>1, <1>2, <2>1, <2>2 DEF ChunksInv
  <2> QED
    BY <1>1, <1>2, <1>4, <2>3 DEF BodyInv
<1>5. CASE ~chunked'
  <2>1. Len(wire') = 0 /\ wire' = Given'
    BY <1>1, <1>2
  <2>2. LengthInv'
    <3>1. remaining' = announced' /\ (announced' # ToClose => announced' \in Nat)
      BY <1>1, <1>3
    <3>2. announced' # ToClose => remaining' = announced' - Len(wire')
      BY <2>1, <3>1
    <3>3. eof' <=> remaining' = 0
      BY <1>1
    <3> QED
      BY <2>1, <3>1, <3>2, <3>3 DEF LengthInv
  <2> QED
    BY <1>1, <1>2, <1>5, <2>2 DEF BodyInv
<1> QED
  BY <1>4, <1>5

LEMMA BodyInvGetting ==
  ASSUME BodyInv, HeaderInv, LinkInv, Getting
  PROVE  BodyInv'
<1>1. phase \notin {"read", "empty"} /\ buf = <<>> /\ ~active /\ BytesTyped
  <2>1. phase \in {"ask", "judge", "header"}
    BY DEF Getting, Asking, Judging, Refused, ConnectFails, SendFails, RequestSent, Malformed,
           Redirect, SessionStarts, HeaderBlank, HeaderStops, HeaderLine
  <2> QED
    BY <2>1 DEF BodyInv, LinkInv
<1>2. ASSUME UNCHANGED sessionVars, UNCHANGED readVars, ring' = ring \/ ring' = <<>>,
             phase' \notin {"read", "empty"}, link' => ~closed'
      PROVE  BodyInv'
  <2>1. active' = active /\ wire' = wire /\ read' = read /\ buf' = buf
    BY <1>2 DEF sessionVars, httpVars, readVars
  <2>2. BytesTyped' /\ ~active'
    BY <1>1, <1>2, <2>1 DEF BytesTyped
  <2> QED
    BY <1>1, <1>2, <2>1, <2>2, BodyOut
<1>3. CASE Refused
  BY <1>2, <1>3 DEF Refused, LeaveGet, linkVars, BodyInv
<1>4. CASE ConnectFails
  BY <1>2, <1>4 DEF ConnectFails, LeaveGet
<1>5. CASE RequestSent
  BY <1>2, <1>5 DEF RequestSent
<1>6. CASE SendFails \/ HeaderStops \/ Malformed
  BY <1>1, <1>6, BodyFail DEF SendFails, HeaderStops, Malformed
<1>7. CASE Redirect
  <2>1. SessionEnds /\ ~link' /\ phase' = "ask" /\ buf' = buf /\ ring' = ring
    BY <1>7 DEF Redirect, Hangup, readVars
  <2>2. BytesTyped' /\ ~active'
    BY <1>1, <2>1, SessionEndsTyped
  <2> QED
    BY <1>1, <2>1, <2>2, BodyOut
<1>8. CASE SessionStarts
  BY <1>8, BodyStarts
<1>9. ASSUME NEW line \in BlankLines, HeaderBlank(line) PROVE BodyInv'
  <2>1. CASE Fail
    BY <1>1, <1>9, <2>1, BodyFail DEF HeaderBlank
  <2>2. CASE phase' = "judge" /\ UNCHANGED <<linkVars, sessionVars>>
    BY <1>2, <1>9, <2>2 DEF HeaderBlank, linkVars, BodyInv
  <2> QED
    BY <1>9, <2>1, <2>2 DEF HeaderBlank
<1>10. ASSUME NEW line, NEW long \in BOOLEAN, HeaderLine(line, long) PROVE BodyInv'
  <2>1. CASE Fail
    BY <1>1, <1>10, <2>1, BodyFail DEF HeaderLine
  <2>2. CASE UNCHANGED <<phase, linkVars, sessionVars>>
    BY <1>1, <1>2, <1>10, <2>2 DEF HeaderLine, linkVars, BodyInv
  <2> QED
    BY <1>10, <2>1, <2>2 DEF HeaderLine
<1> QED
  BY <1>3, <1>4, <1>5, <1>6, <1>7, <1>8, <1>9, <1>10 DEF Getting, Asking, Judging

\* Bytes: of a body that is not chunked, and of one that is.
LEMMA TakePlain ==
  ASSUME LengthInv, ~eof, BytesTyped, NEW b \in Bytes, wire' = Append(wire, b),
         Given' = Given \o <<b>>, CountDown(b), announced' = announced, closed' = closed
  PROVE  LengthInv'
<1>1. /\ remaining' = IF remaining > 0 THEN remaining - 1 ELSE remaining
      /\ eof' = (remaining = 1)
  BY DEF CountDown
<1>2. wire' = wire \o <<b>> /\ Len(wire') = Len(wire) + 1 /\ Len(wire) \in Nat
  BY AppendIsConcat DEF BytesTyped
<1>3. Given' = wire'
  BY <1>2 DEF LengthInv
<1>4. remaining # 0
  BY DEF LengthInv
<1>5. announced' = ToClose => remaining' = ToClose
  BY <1>1 DEF LengthInv, ToClose
<1>6. ASSUME announced' # ToClose
      PROVE  announced' \in Nat /\ remaining' \in Nat /\ remaining' = announced' - Len(wire')
  <2>1. announced \in Nat /\ remaining \in Nat /\ remaining = announced - Len(wire)
    BY <1>6 DEF LengthInv
  <2>2. remaining' = remaining - 1
    BY <1>1, <1>4, <2>1
  <2> QED
    BY <1>2, <1>4, <2>1, <2>2
<1>7. remaining' = 0 <=> remaining = 1
  <2>1. remaining \in Nat \cup {-1}
    BY DEF LengthInv, ToClose
  <2> QED
    BY <1>1, <1>4, <2>1
<1>8. eof' <=> remaining' = 0
  BY <1>1, <1>7
<1> QED
  BY <1>3, <1>5, <1>6, <1>8 DEF LengthInv

LEMMA FeedEnds ==
  ASSUME chState # "DONE", ~chDone, ~chError, NEW b, Feed(b)
  PROVE  chDone' \/ chError' <=> chState' = "DONE"
<1>1. CASE FeedSize(b)
  BY <1>1 DEF FeedSize, Chunk, ChunkError
<1>2. CASE FeedSizeEnd(b)
  BY <1>2 DEF FeedSizeEnd, Chunk, ChunkError, chVars
<1>3. CASE FeedData(b)
  BY <1>3 DEF FeedData, Chunk, ChunkError
<1>4. CASE FeedTrailer(b)
  BY <1>4 DEF FeedTrailer, Chunk, ChunkError, chVars
<1> QED
  BY <1>1, <1>2, <1>3, <1>4 DEF Feed

LEMMA TakeChunked ==
  ASSUME ChunksInv, ~eof, BytesTyped, NEW b \in Bytes, wire' = Append(wire, b), Feed(b),
         Given' = IF IsData THEN With(Given, b) ELSE Given, eof' = (chDone' \/ chError')
  PROVE  ChunksInv'
<1>1. chState # "DONE" /\ ~chDone /\ ~chError
  BY DEF ChunksInv
<1>2. chDone' \/ chError' <=> chState' = "DONE"
  BY <1>1, FeedEnds
<1>3. Grown(wire', wire, b) /\ wire \in Seq(Bytes)
  BY AppendProperties DEF BytesTyped, Grown
<1>4. Decoding(chState', chLeft', wire', Given')
  BY <1>3, StepDecoding DEF ChunksInv
<1>5. Decoding(chState, chLeft, wire, Given)'
  BY <1>4
<1>6. eof' <=> chState' = "DONE"
  BY <1>2, Zenon
<1> QED
  BY <1>2, <1>5, <1>6, Zenon DEF ChunksInv

LEMMA BodyTake == ASSUME BodyInv, LinkInv, Take PROVE BodyInv'
<1> DEFINE b == Head(ring)
<1>1. /\ ~eof /\ ring # <<>> /\ ring' = Tail(ring) /\ wire' = Append(wire, b)
      /\ \/ /\ chunked /\ Feed(b)
            /\ buf' = IF IsData THEN Append(buf, b) ELSE buf
            /\ eof' = (chDone' \/ chError')
         \/ /\ ~chunked /\ CountDown(b)
            /\ buf' = Append(buf, b)
      /\ phase' = phase /\ active' = active /\ chunked' = chunked /\ link' = link
      /\ closed' = closed /\ announced' = announced /\ read' = read /\ phase = "read"
  BY DEF Take, Reading
<1>2. BytesTyped /\ (link => ~closed)
  BY DEF BodyInv
<1>3. b \in Bytes /\ ring' \in Seq(Bytes)
  BY <1>1, <1>2 DEF BytesTyped
<1> HIDE DEF b
<1>4. wire' \in Seq(Bytes) /\ read' \in Seq(Bytes)
  BY <1>1, <1>2, <1>3 DEF BytesTyped
<1>5. buf' = Append(buf, b) => buf' \in Seq(Bytes) /\ Given' = With(Given, b)
  <2>1. SUFFICES ASSUME buf' = Append(buf, b) PROVE buf' \in Seq(Bytes) /\ Given' = With(Given, b)
    OBVIOUS
  <2>2. buf \in Seq(Bytes) /\ read \in Seq(Bytes) /\ <<b>> \in Seq(Bytes)
    BY <1>2, <1>3 DEF BytesTyped
  <2>3. Append(buf, b) = buf \o <<b>> /\ Append(buf, b) \in Seq(Bytes)
    BY <1>3, <2>2, AppendIsConcat
  <2>4. ASSUME NEW t, t = <<b>> PROVE read \o (buf \o t) = (read \o buf) \o t
    BY <2>2, <2>4, Associative
  <2>5. read \o (buf \o <<b>>) = (read \o buf) \o <<b>>
    BY <2>4
  <2>6. Given' = read' \o buf'
    BY DEF Given
  <2> QED
    BY <1>1, <2>1, <2>3, <2>5, <2>6 DEF Given, With
<1>6. buf' = buf => buf' \in Seq(Bytes) /\ Given' = Given
  BY <1>1, <1>2 DEF BytesTyped, Given
<1>7. BytesTyped'
  BY <1>1, <1>3, <1>4, <1>5, <1>6 DEF BytesTyped
<1>8. active
  BY <1>1 DEF LinkInv
<1>9. CASE chunked
  <2>1. ChunksInv /\ Feed(b) /\ eof' = (chDone' \/ chError')
    BY <1>1, <1>8, <1>9 DEF BodyInv
  <2>2. Given' = IF IsData THEN With(Given, b) ELSE Given
    BY <1>1, <1>5, <1>6, <1>9
  <2>3. ChunksInv'
    BY <1>1, <1>2, <1>3, <2>1, <2>2, TakeChunked
  <2> QED
    BY <1>1, <1>2, <1>7, <1>9, <2>3 DEF BodyInv
<1>10. CASE ~chunked
  <2>1. LengthInv /\ CountDown(b) /\ buf' = Append(buf, b)
    BY <1>1, <1>8, <1>10 DEF BodyInv
  <2>2. Given' = Given \o <<b>>
    BY <1>5, <2>1 DEF With
  <2>3. LengthInv'
    BY <1>1, <1>2, <1>3, <2>1, <2>2, TakePlain
  <2> QED
    BY <1>1, <1>2, <1>7, <1>10, <2>3 DEF BodyInv
<1> QED
  BY <1>9, <1>10

\* A step of AT+HTTPREAD that takes nothing, and the closure it sees.
LEMMA BodyInvServing == ASSUME BodyInv, LinkInv, Serving PROVE BodyInv'
<1>1. active /\ BytesTyped /\ (link => ~closed)
  BY DEF BodyInv, LinkInv, Serving, Take, Reading, Nothing, Ended, Wait, ReadFull, ReadShort
<1>2. CASE Take
  BY <1>2, BodyTake
<1>3. CASE Nothing \/ Wait
  <2>1. /\ UNCHANGED <<active, chunked, remaining, chVars, announced, wire, read, buf, eof>>
        /\ UNCHANGED <<link, ring, closed>> /\ phase \in {"read", "empty"}
    BY <1>3 DEF Nothing, Wait, Reading, httpVars, bodyVars, readVars, linkVars, history
  <2>2. Given' = Given /\ BytesTyped'
    BY <1>1, <2>1 DEF Given, BytesTyped
  <2>3. phase' \in {"read", "empty"}
    BY <1>3 DEF Nothing, Wait
  <2> QED
    BY <1>1, <2>1, <2>2, <2>3, BodySame DEF BodyInv
<1>4. CASE Ended
  <2>1. /\ UNCHANGED <<active, chunked, remaining, chVars, announced, wire, read, buf>>
        /\ UNCHANGED <<link, ring, closed>> /\ phase' = "read" /\ eof' = TRUE /\ closed
    BY <1>4 DEF Ended, bodyVars, readVars, linkVars, history
  <2>2. Given' = Given /\ BytesTyped'
    BY <1>1, <2>1 DEF Given, BytesTyped
  <2>3. CASE chunked
    <3>1. ChunksInv
      BY <1>1, <2>3 DEF BodyInv
    <3>2. /\ chState' = chState /\ chLeft' = chLeft /\ wire' = wire
          /\ chDone' = chDone /\ chError' = chError
      BY <2>1 DEF chVars
    <3>3. Decoding(chState, chLeft, wire, Given)'
      BY <2>2, <3>1, <3>2 DEF ChunksInv
    <3>4. ChunksInv'
      BY <2>1, <3>1, <3>2, <3>3 DEF ChunksInv
    <3> QED
      BY <1>1, <2>1, <2>2, <2>3, <3>4 DEF BodyInv
  <2>4. CASE ~chunked
    <3>1. LengthInv
      BY <1>1, <2>4 DEF BodyInv
    <3>2. LengthInv'
      BY <2>1, <2>2, <3>1 DEF LengthInv, ToClose
    <3> QED
      BY <1>1, <2>1, <2>2, <2>4, <3>2 DEF BodyInv
  <2> QED
    BY <2>3, <2>4
<1>5. CASE Answer
  <2>1. /\ UNCHANGED <<active, chunked, remaining, chVars, announced, wire, eof>>
        /\ read' = read \o buf /\ buf' = <<>> /\ phase' = "idle"
    BY <1>5 DEF Answer, httpVars, bodyVars
  <2>2. \/ link' = FALSE /\ ring' = <<>> /\ closed' = FALSE /\ link
        \/ UNCHANGED <<link, ring, closed>>
    BY <1>5 DEF Answer, linkVars
  <2>3. read' \in Seq(Bytes) /\ read' \o <<>> = read'
    BY <1>1, <2>1, ConcatProperties, ConcatEmptySeq DEF BytesTyped
  <2>4. Given' = Given
    BY <2>1, <2>3 DEF Given
  <2>5. BytesTyped' /\ (link' => ~closed')
    <3>1. ring' \in Seq(Bytes)
      <4>1. CASE ring' = ring
        BY <1>1, <4>1 DEF BytesTyped
      <4>2. CASE ring' = <<>>
        BY <4>2
      <4> QED
        BY <2>2, <4>1, <4>2
    <3>2. wire' \in Seq(Bytes) /\ buf' \in Seq(Bytes)
      BY <1>1, <2>1 DEF BytesTyped
    <3> QED
      BY <1>1, <2>2, <2>3, <3>1, <3>2 DEF BytesTyped
  <2>6. closed => closed' \/ link
    BY <2>2
  <2> QED
    BY <1>1, <2>1, <2>4, <2>5, <2>6, BodySame DEF BodyInv
<1> QED
  BY <1>2, <1>3, <1>4, <1>5 DEF Serving, ReadFull, ReadShort

LEMMA BodyInvRest ==
  ASSUME BodyInv, LinkInv,
         \/ HttpClose \/ PeerCloses
         \/ \E u \in Hosts : HttpGet(u)
         \/ \E n \in 1..ReadMax : HttpRead(n)
         \/ \E b \in Bytes : Arrive(b)
  PROVE  BodyInv'
<1>1. BytesTyped /\ (link => ~closed)
  BY DEF BodyInv
<1>2. CASE HttpClose
  <2>1. SessionEnds /\ ~link' /\ phase' = phase /\ phase = "idle" /\ buf' = buf /\ ring' = ring
    BY <1>2 DEF HttpClose, Hangup, readVars
  <2>2. BytesTyped' /\ ~active'
    BY <1>1, <2>1, SessionEndsTyped
  <2> QED
    BY <2>1, <2>2, BodyOut DEF BodyInv
<1>3. CASE PeerCloses
  <2>1. /\ UNCHANGED <<active, chunked, remaining, chVars, announced, wire, read, buf, eof>>
        /\ phase' = phase /\ ring' = ring /\ link /\ ~link' /\ closed'
    BY <1>3 DEF PeerCloses, httpVars, bodyVars, readVars, history
  <2>2. Given' = Given /\ BytesTyped'
    BY <1>1, <2>1 DEF Given, BytesTyped
  <2> QED
    BY <1>1, <2>1, <2>2, BodySame DEF BodyInv
<1>4. ASSUME NEW u \in Hosts, HttpGet(u) PROVE BodyInv'
  <2>1. phase = "idle" /\ phase' = "ask" /\ buf' = buf /\ ring' = ring
    BY <1>4 DEF HttpGet, readVars
  <2>2. CASE active
    <3>1. SessionEnds /\ ~link'
      BY <1>4, <2>2 DEF HttpGet, Hangup
    <3>2. BytesTyped' /\ ~active'
      BY <1>1, <2>1, <3>1, SessionEndsTyped
    <3> QED
      BY <2>1, <3>1, <3>2, BodyOut DEF BodyInv
  <2>3. CASE ~active
    <3>1. UNCHANGED <<link, closed, wire, read, active>>
      BY <1>4, <2>3 DEF HttpGet, sessionVars, httpVars
    <3>2. BytesTyped'
      BY <1>1, <2>1, <3>1 DEF BytesTyped
    <3> QED
      BY <1>1, <2>1, <2>3, <3>1, <3>2, BodyOut DEF BodyInv
  <2> QED
    BY <2>2, <2>3
<1>5. ASSUME NEW n \in 1..ReadMax, HttpRead(n) PROVE BodyInv'
  <2>1. /\ UNCHANGED <<active, chunked, remaining, chVars, announced, wire, read, eof>>
        /\ UNCHANGED <<link, ring, closed>> /\ phase = "idle" /\ phase' = "read" /\ buf' = <<>> /\ active
    BY <1>5 DEF HttpRead, httpVars, bodyVars, linkVars, history
  <2>2. buf = <<>>
    BY <2>1 DEF BodyInv
  <2>3. Given' = Given /\ BytesTyped'
    BY <1>1, <2>1, <2>2 DEF Given, BytesTyped
  <2> QED
    BY <1>1, <2>1, <2>3, BodySame DEF BodyInv
<1>6. ASSUME NEW b \in Bytes, Arrive(b) PROVE BodyInv'
  <2>1. /\ UNCHANGED <<active, chunked, remaining, chVars, announced, wire, read, buf, eof>>
        /\ UNCHANGED <<phase, link, closed>> /\ ring' = <<b>> /\ active
    BY <1>6 DEF Arrive, httpVars, bodyVars, readVars
  <2>2. Given' = Given /\ BytesTyped'
    BY <1>1, <2>1 DEF Given, BytesTyped
  <2> QED
    BY <1>1, <2>1, <2>2, BodySame DEF BodyInv
<1> QED
  BY <1>2, <1>3, <1>4, <1>5, <1>6

LEMMA BodyInvNext == ASSUME BodyInv, HeaderInv, LinkInv, [Next]_vars PROVE BodyInv'
<1>1. CASE Getting
  BY <1>1, BodyInvGetting
<1>2. CASE Serving
  BY <1>2, BodyInvServing
<1>3. CASE UNCHANGED vars
  <2>1. /\ UNCHANGED <<active, chunked, remaining, chVars, announced, wire, read, buf, eof>>
        /\ UNCHANGED <<phase, link, ring, closed>>
    BY <1>3 DEF vars, httpVars, bodyVars, readVars, linkVars, history
  <2>2. Given' = Given /\ (BytesTyped => BytesTyped')
    BY <2>1 DEF Given, BytesTyped
  <2> QED
    BY <2>1, <2>2, BodySame DEF BodyInv
<1> QED
  BY <1>1, <1>2, <1>3, BodyInvRest DEF Next

LEMMA BodyInvariant == Spec => []BodyInv
<1>1. Init => BodyInv
  BY BodyInvInit
<1>2. BodyInv /\ HeaderInv /\ LinkInv /\ [Next]_vars => BodyInv'
  BY BodyInvNext
<1> QED
  BY <1>1, <1>2, Invariant, PTL DEF Spec

-----------------------------------------------------------------------------
(* Theorems.                                                               *)

\* The header filter of http_get throws away nothing that counts: what http_resp_parse
\* makes of the lines kept is what the server has sent, if these lines end with CR LF.
\* Of a kept line that ends with a LF alone, HeaderMeant says nothing: http_resp_parse
\* takes it and the next one for a single line.
THEOREM HeaderKeepsMeaning == Spec => []HeaderMeant
<1>1. HeaderInv => HeaderMeant
  BY MeaningSame DEF HeaderMeant
<1> QED BY <1>1, Invariant, PTL

\* The list is asked at every hop.
THEOREM OnlyAllowed == Spec => []AllowedHosts
<1>1. LinkInv => AllowedHosts
  BY DEF LinkInv
<1> QED BY <1>1, Invariant, PTL

\* No exit of http_get and no AT+HTTPCLOSE leaves the link open behind it.
THEOREM Clean == Spec => []NothingLeft
<1>1. LinkInv => NothingLeft
  BY DEF LinkInv, NothingLeft
<1> QED BY <1>1, Invariant, PTL

\* What AT+HTTPREAD has given is the body as the reference definition reads it from the
\* bytes taken: http_chunked_feed, that sees one byte at a time and keeps a state and a
\* count, agrees with a reading of all of them at once, after every byte.
THEOREM BodyExact == Spec => []BodyDecoded
<1>1. BodyInv => BodyDecoded
  BY BodyInvMeans
<1> QED
  BY <1>1, BodyInvariant, PTL

\* The byte that ends the body or breaks its framing sets eof, and no byte before it
\* does; without it, only a closed connection does.
THEOREM EndKnown == Spec => []EndOfBody
<1>1. BodyInv => EndOfBody
  BY BodyInvMeans
<1> QED
  BY <1>1, BodyInvariant, PTL
=============================================================================
