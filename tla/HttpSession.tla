----------------------------- MODULE HttpSession -----------------------------
(***************************************************************************)
(* AT+HTTPGET and AT+HTTPREAD: what the modem makes of the answer of a     *)
(* server (http_parse.c, http_get and http_read of at_modem.c). ModemLink  *)
(* has the same commands as users of the link, whatever the bytes say;     *)
(* here are the header, the redirections and the framing of the body, and  *)
(* the server may send anything.                                           *)
(*                                                                         *)
(* A header is a sequence of lines, a body a sequence of bytes. Digits     *)
(* stand for the hexadecimal digits of a chunk size, ";" for what starts   *)
(* an extension.                                                           *)
(***************************************************************************)
EXTENDS Integers, Sequences

CONSTANTS
  Hosts,        \* hosts the program or a redirection may name
  Allowed,      \* those at_modem_host_allowed accepts
  Redirects,    \* HTTP_REDIRECTS
  HeaderMax,    \* lines as long as they may be that HTTP_HDR_MAX has room for: 4
  ReadMax,      \* AT_SEND_MAX: the most AT+HTTPREAD may ask
  SizeMax,      \* the size of a chunk may grow while it is at most 0x0fffffff
  Digits,       \* the values of the hexadecimal digits a server uses
  LinesMax,     \* bound: lines of a header before its blank line
  ChunkedMax,   \* bound: bytes of a chunked body
  OddMax,       \* bound: bytes of it that a plain chunked body would not have there
  PlainMax      \* bound: bytes of a body that is not

ASSUME HttpAssumption ==
  /\ Allowed \subseteq Hosts
  /\ Redirects \in Nat /\ HeaderMax \in Nat \ {0} /\ ReadMax \in Nat \ {0}
  /\ SizeMax \in Nat /\ Digits \subseteq 0..15
  /\ LinesMax \in Nat /\ ChunkedMax \in Nat /\ OddMax \in Nat /\ PlainMax \in Nat

VARIABLES
  phase, url, hop, hdr, first,        \* http_get
  active, eof, chunked, remaining,    \* m->http
  chState, chLeft, chDone, chError,   \* m->http.ch
  want, buf,                          \* http_read: n, and buf[0..k-1]
  link, ring, closed,                 \* the connection, the bytes received, remote_closed
  seen, announced, wire, odd, read    \* history: every line of the header, the
                                      \* length of the body, every byte of it taken
                                      \* from the ring, every one the program got

getVars  == <<url, hop, hdr, first>>
bodyVars == <<eof, chunked, remaining>>
httpVars == <<active, bodyVars>>
chVars   == <<chState, chLeft, chDone, chError>>
readVars == <<want, buf>>
linkVars == <<link, ring, closed>>
history  == <<seen, announced, wire, odd, read>>
vars     == <<phase, getVars, httpVars, chVars, readVars, linkVars, history>>

Word == 16 * (SizeMax + 1)    \* 2^32: an unsigned long of the card

ToClose == -1                 \* content_length: none announced

Phases == {"idle", "ask", "header", "judge", "read", "empty"}

\* Bytes as integers: 0..15 are the digits, the others what the framing uses.
Semi == 16
CR == 17
LF == 18
Bytes == Digits \cup {Semi, CR, LF}

ChunkStates ==
  { "SIZE", "EXT", "SIZE_LF", "DATA", "DATA_CR", "DATA_LF", "TRAILER", "TRAILER_LINE", "DONE" }

\* Where a Location leads: another host, a path of this one; or nowhere, when it
\* is absent, relative or malformed. What follows a "#" in it is cut off.
Locations ==
  [form : {"host"}, to : Hosts, fragment : BOOLEAN]
    \cup [form : {"path"}, fragment : BOOLEAN] \cup [form : {"none"}]

\* The lines of a header. Codes: "ok", "empty" (1xx, 204, 304), "redirect"
\* (301, 302, 303, 307, 308); "bad" is no status line. Content-Length: -1 is not
\* a number. "many" is a list of codings of more than 23 characters. A line ends
\* with CR LF or with a LF alone.
StatusLines == [name : {"status"}, crlf : BOOLEAN, code : {"ok", "empty", "redirect", "bad"}]
FieldLines ==
  [name : {"length"}, crlf : BOOLEAN, bytes : {-1, 0, 2}]
    \cup [name : {"coding"}, crlf : BOOLEAN, coding : {"chunked", "other", "many"}]
    \cup [name : {"location"}, crlf : BOOLEAN, location : Locations]
    \cup [name : {"type", "other"}, crlf : BOOLEAN]
BlankLines == [name : {"blank"}, crlf : BOOLEAN]
Lines == StatusLines \cup FieldLines \cup BlankLines

\* The first line of an answer, and the next ones.
LinesAt(i) == IF i = 1 THEN StatusLines ELSE FieldLines

TypeOK ==
  /\ phase \in Phases /\ url \in Hosts /\ hop \in 0..Redirects
  /\ hdr \in Seq(Lines) /\ first \in BOOLEAN
  /\ active \in BOOLEAN /\ eof \in BOOLEAN /\ chunked \in BOOLEAN
  /\ remaining \in Nat \cup {ToClose}
  /\ chState \in ChunkStates /\ chLeft \in 0..Word - 1
  /\ chDone \in BOOLEAN /\ chError \in BOOLEAN
  /\ want \in 0..ReadMax /\ buf \in Seq(Bytes)
  /\ link \in BOOLEAN /\ ring \in Seq(Bytes) /\ closed \in BOOLEAN
  /\ seen \in Seq(Lines) /\ announced \in Nat \cup {ToClose}
  /\ wire \in Seq(Bytes) /\ odd \in 0..OddMax /\ read \in Seq(Bytes)

Init ==
  /\ phase = "idle" /\ hop = 0 /\ hdr = <<>> /\ first = TRUE
  /\ url \in Hosts
  /\ active = FALSE /\ eof = FALSE /\ chunked = FALSE /\ remaining = 0
  /\ chState = "SIZE" /\ chLeft = 0 /\ chDone = FALSE /\ chError = FALSE
  /\ want = 0 /\ buf = <<>>
  /\ link = FALSE /\ ring = <<>> /\ closed = FALSE
  /\ seen = <<>> /\ announced = 0 /\ wire = <<>> /\ odd = 0 /\ read = <<>>

-----------------------------------------------------------------------------
(* The header.                                                             *)

WantedFew(line) == line.name \in {"length", "location", "type"}             \* mutant
Wanted(line) == line.name \in {"length", "coding", "location", "type"}

\* The last line of this name, as each one read replaces the one before.
Having(h, name) == {i \in 1..Len(h) : h[i].name = name}
LastOf(h, name) == h[CHOOSE i \in Having(h, name) : \A j \in Having(h, name) : j <= i]

\* http_get ends a line at every LF, http_resp_parse at CR LF only: to it, a kept line
\* that a LF alone ends goes on into the next one, and without a CR LF behind it is
\* not read. A value that goes on is no number and no coding, and no place to go to
\* unless the fragment was cut off; the code of the status line is before its end.
\* (Values of more than 23 characters, which tmp[24] cuts, and a coding that goes on
\* into a line ending in "chunked" are left out.)
Joined(line) ==
  CASE line.name = "length" -> [line EXCEPT !.bytes = -1]
    [] line.name = "coding" -> [line EXCEPT !.coding = "other"]
    [] line.name = "location" /\ line.location.form # "none" /\ ~line.location.fragment ->
         [line EXCEPT !.location = [form |-> "none"]]
    [] OTHER -> line

Unread == [name |-> "other", crlf |-> TRUE]

LineStarts(h, i) == (i = 1 \/ h[i - 1].crlf) /\ \E j \in i..Len(h) : h[j].crlf

AsParsed(h) ==
  [i \in 1..Len(h) |-> IF ~LineStarts(h, i) THEN Unread ELSE IF h[i].crlf THEN h[i] ELSE Joined(h[i])]

\* http_resp_parse; tmp[24] cuts a long list of codings before its last word.
WellFormed(h) ==
  /\ h # <<>> /\ h[1].name = "status" /\ h[1].code # "bad"
  /\ \A i \in 2..Len(h) : h[i].name = "length" => h[i].bytes >= 0

IsChunked(h) == Having(h, "coding") # {} /\ LastOf(h, "coding").coding = "chunked"

LengthOf(h) ==
  IF Having(h, "length") = {} \/ IsChunked(h) THEN ToClose ELSE LastOf(h, "length").bytes

LocationOf(h) ==
  IF Having(h, "location") = {} THEN [form |-> "none"] ELSE LastOf(h, "location").location

\* What a complete header means.
Meaning(h) ==
  IF ~WellFormed(h) THEN <<"malformed">>
  ELSE <<"answer", h[1].code, IsChunked(h), LengthOf(h), LocationOf(h)>>

\* http_url_resolve.
Resolved(base, location) ==
  CASE location.form = "host" -> {location.to}
    [] location.form = "path" -> {base}
    [] location.form = "none" -> {}

\* http_is_redirect, and the target can be followed.
Targets(h) == IF h[1].code = "redirect" THEN Resolved(url, LocationOf(h)) ELSE {}

\* Once chunked, the length is not announced even for an answer without body.
Remaining(h) ==
  IF IsChunked(h) THEN ToClose ELSE IF h[1].code = "empty" THEN 0 ELSE LengthOf(h)

-----------------------------------------------------------------------------
(* The chunks: http_chunked_feed, one byte at a time.                      *)

Chunk(s) == chState' = s /\ UNCHANGED <<chLeft, chDone, chError>>
ChunkError == chState' = "DONE" /\ chError' = TRUE /\ UNCHANGED <<chLeft, chDone>>

\* The byte is one of the body.
IsData == chState = "DATA"

FeedWrapped(b) ==                                                  \* mutant
  /\ chState = "SIZE"
  /\ \/ /\ b \in Digits
        /\ chLeft' = (chLeft * 16 + b) % Word
        /\ UNCHANGED <<chState, chDone, chError>>
     \/ b = Semi /\ Chunk("EXT")
     \/ b = CR /\ Chunk("SIZE_LF")
     \/ b = LF /\ ChunkError
FeedSize(b) ==
  /\ chState = "SIZE"
  /\ \/ /\ b \in Digits /\ chLeft <= SizeMax
        /\ chLeft' = (chLeft * 16 + b) % Word
        /\ UNCHANGED <<chState, chDone, chError>>
     \/ b \in Digits /\ chLeft > SizeMax /\ ChunkError
     \/ b = Semi /\ Chunk("EXT")
     \/ b = CR /\ Chunk("SIZE_LF")
     \/ b = LF /\ ChunkError

\* The size line has ended: the data, or after the last chunk the trailer.
FeedSizeEnd(b) ==
  \/ chState = "EXT" /\ b = CR /\ Chunk("SIZE_LF")
  \/ chState = "EXT" /\ b # CR /\ UNCHANGED chVars
  \/ chState = "SIZE_LF" /\ b # LF /\ ChunkError
  \/ chState = "SIZE_LF" /\ b = LF /\ Chunk(IF chLeft > 0 THEN "DATA" ELSE "TRAILER")

FeedData(b) ==
  \/ /\ chState = "DATA" /\ chLeft' = chLeft - 1
     /\ chState' = IF chLeft = 1 THEN "DATA_CR" ELSE "DATA"
     /\ UNCHANGED <<chDone, chError>>
  \/ chState = "DATA_CR" /\ b # CR /\ ChunkError
  \/ chState = "DATA_CR" /\ b = CR /\ Chunk("DATA_LF")
  \/ chState = "DATA_LF" /\ b # LF /\ ChunkError
  \/ /\ chState = "DATA_LF" /\ b = LF
     /\ chState' = "SIZE" /\ chLeft' = 0 /\ UNCHANGED <<chDone, chError>>

\* The empty line that ends the trailer.
FeedTrailer(b) ==
  \/ chState = "TRAILER" /\ b = CR /\ UNCHANGED chVars
  \/ /\ chState = "TRAILER" /\ b = LF
     /\ chState' = "DONE" /\ chDone' = TRUE /\ UNCHANGED <<chLeft, chError>>
  \/ chState = "TRAILER" /\ b \notin {CR, LF} /\ Chunk("TRAILER_LINE")
  \/ chState = "TRAILER_LINE" /\ b = LF /\ Chunk("TRAILER")
  \/ chState = "TRAILER_LINE" /\ b # LF /\ UNCHANGED chVars

Feed(b) == FeedSize(b) \/ FeedSizeEnd(b) \/ FeedData(b) \/ FeedTrailer(b)

-----------------------------------------------------------------------------
(* AT+HTTPGET.                                                             *)

\* The session is over. The code keeps the rest of m->http as it was, and reads
\* nothing of it before a new session has set it all: it is forgotten here, with
\* the history of the session.
SessionEnds ==
  /\ active' = FALSE
  /\ eof' = FALSE /\ chunked' = FALSE /\ remaining' = 0
  /\ chState' = "SIZE" /\ chLeft' = 0 /\ chDone' = FALSE /\ chError' = FALSE
  /\ announced' = 0 /\ wire' = <<>> /\ odd' = 0 /\ read' = <<>>

sessionVars == <<httpVars, chVars, announced, wire, odd, read>>

\* hangup: the bytes not read stay in the ring.
Hangup == link' = FALSE /\ closed' = FALSE /\ SessionEnds

\* http_get returns: its local variables are gone.
LeaveGet ==
  /\ phase' = "idle"
  /\ hop' = 0 /\ hdr' = <<>> /\ first' = TRUE /\ seen' = <<>>
  /\ UNCHANGED url

FailOpen == ring' = <<>> /\ LeaveGet /\ UNCHANGED <<link, closed, sessionVars>>  \* mutant
\* http_fail.
Fail == ring' = <<>> /\ LeaveGet /\ Hangup

HttpGet(u) ==
  /\ phase = "idle"
  /\ IF active THEN Hangup ELSE UNCHANGED <<link, closed, sessionVars>>
  /\ phase' = "ask" /\ url' = u /\ hop' = 0
  /\ UNCHANGED <<hdr, first, readVars, ring, seen>>

AskedFirst == hop > 0 \/ url \in Allowed                           \* mutant
MayAsk == url \in Allowed

\* check_host, tcp_connect, the request.
Refused ==
  /\ phase = "ask" /\ ~MayAsk
  /\ LeaveGet
  /\ UNCHANGED <<readVars, linkVars, sessionVars>>

ConnectFails ==
  /\ phase = "ask" /\ MayAsk
  /\ LeaveGet /\ ring' = <<>> /\ closed' = FALSE
  /\ UNCHANGED <<readVars, link, sessionVars>>

SendFails ==
  /\ phase = "ask" /\ MayAsk
  /\ Fail
  /\ UNCHANGED readVars

RequestSent ==
  /\ phase = "ask" /\ MayAsk
  /\ ring' = <<>> /\ closed' = FALSE /\ link' = TRUE
  /\ phase' = "header" /\ hdr' = <<>> /\ first' = TRUE /\ seen' = <<>>
  /\ UNCHANGED <<url, hop, readVars, sessionVars>>

\* What has been kept may leave no room for another line.
MayBeFull == Len(hdr) >= HeaderMax

\* A line of the header; one `long' does not fit in the buffer of a line.
HeaderLine(line, long) ==
  /\ phase = "header" /\ Len(seen) < LinesMax
  /\ \/ /\ first \/ Wanted(line)
        /\ long \/ MayBeFull
        /\ Fail
     \/ /\ IF first \/ Wanted(line)
           THEN ~long /\ hdr' = Append(hdr, line)
           ELSE UNCHANGED hdr
        /\ first' = FALSE /\ seen' = Append(seen, line)
        /\ UNCHANGED <<phase, url, hop, linkVars, sessionVars>>
  /\ UNCHANGED readVars

\* The blank line; any line of at most one character counts as blank.
HeaderBlank(line) ==
  /\ phase = "header"
  /\ \/ MayBeFull /\ Fail
     \/ /\ phase' = "judge"
        /\ hdr' = Append(hdr, line)
        /\ UNCHANGED <<url, hop, first, linkVars, sessionVars, seen>>
  /\ UNCHANGED readVars

\* The server closes, or ten seconds pass.
HeaderStops ==
  /\ phase = "header"
  /\ Fail
  /\ UNCHANGED readVars

\* What http_resp_parse makes of the lines kept.
resp == AsParsed(hdr)

Malformed ==
  /\ phase = "judge" /\ ~WellFormed(resp)
  /\ Fail
  /\ UNCHANGED readVars

HopKept == hop' = hop                                              \* mutant
NextHop == hop' = hop + 1

Followed == WellFormed(resp) /\ hop < Redirects /\ Targets(resp) # {}

Redirect ==
  /\ phase = "judge" /\ Followed
  /\ Hangup
  /\ url' \in Targets(resp) /\ NextHop
  /\ phase' = "ask"
  /\ UNCHANGED <<hdr, first, readVars, ring, seen>>

SessionStarts ==
  /\ phase = "judge" /\ WellFormed(resp) /\ ~Followed
  /\ LeaveGet
  /\ active' = TRUE /\ chunked' = IsChunked(resp)
  /\ remaining' = Remaining(resp) /\ eof' = (Remaining(resp) = 0)
  /\ chState' = "SIZE" /\ chLeft' = 0 /\ chDone' = FALSE /\ chError' = FALSE
  /\ announced' = Remaining(resp) /\ wire' = <<>> /\ odd' = 0 /\ read' = <<>>
  /\ UNCHANGED <<readVars, linkVars>>

-----------------------------------------------------------------------------
(* AT+HTTPREAD, and AT+HTTPCLOSE.                                          *)

HttpRead(n) ==
  /\ phase = "idle" /\ active
  /\ phase' = "read" /\ want' = n /\ buf' = <<>>
  /\ UNCHANGED <<getVars, httpVars, chVars, linkVars, history>>

Reading == phase = "read" /\ Len(buf) < want /\ ~eof

CountLate(b) ==                                                    \* mutant
  /\ remaining' = IF remaining > 0 THEN remaining - 1 ELSE remaining
  /\ eof' = (remaining = 0)
CountDown(b) ==
  /\ remaining' = IF remaining > 0 THEN remaining - 1 ELSE remaining
  /\ eof' = (remaining = 1)

Take ==
  /\ Reading /\ ring # <<>>
  /\ LET b == Head(ring) IN
       /\ ring' = Tail(ring) /\ wire' = Append(wire, b)
       /\ \/ /\ chunked /\ Feed(b)
             /\ buf' = IF IsData THEN Append(buf, b) ELSE buf
             /\ eof' = (chDone' \/ chError')
             /\ UNCHANGED remaining
          \/ /\ ~chunked /\ CountDown(b)
             /\ buf' = Append(buf, b)
             /\ UNCHANGED chVars
  /\ UNCHANGED <<phase, getVars, active, chunked, want, link, closed, seen, announced, odd, read>>

\* The ring was empty; what arrives from here on is not seen before the loop
\* comes back to it.
Nothing ==
  /\ Reading /\ ring = <<>>
  /\ phase' = "empty"
  /\ UNCHANGED <<getVars, httpVars, chVars, readVars, linkVars, history>>

Ended ==
  /\ phase = "empty" /\ closed
  /\ eof' = TRUE /\ phase' = "read"
  /\ UNCHANGED <<getVars, active, chunked, remaining, chVars, readVars, linkVars, history>>

Wait ==
  /\ phase = "empty" /\ ~closed /\ buf = <<>>
  /\ phase' = "read"
  /\ UNCHANGED <<getVars, httpVars, chVars, readVars, linkVars, history>>

Answer ==
  /\ phase' = "idle"
  /\ read' = read \o buf /\ buf' = <<>> /\ want' = 0
  /\ IF eof /\ link THEN link' = FALSE /\ ring' = <<>> /\ closed' = FALSE
     ELSE UNCHANGED linkVars
  /\ UNCHANGED <<getVars, httpVars, chVars, seen, announced, wire, odd>>

ReadFull == phase = "read" /\ ~Reading /\ Answer

\* Nothing more for now: some bytes were read, or ten seconds have passed.
ReadShort == phase = "empty" /\ ~closed /\ Answer

HttpClose ==
  /\ phase = "idle" /\ active
  /\ Hangup
  /\ UNCHANGED <<phase, getVars, readVars, ring, seen>>

-----------------------------------------------------------------------------
(* The server, after its header.                                           *)

\* What a chunked body with neither extensions nor trailers has next.
Usual ==
  CASE chState = "SIZE"                     -> Digits \cup {CR}
    [] chState \in {"SIZE_LF", "DATA_LF"}   -> {LF}
    [] chState = "DATA"                     -> {Semi}
    [] chState \in {"DATA_CR", "EXT"}       -> {CR}
    [] chState = "TRAILER"                  -> {CR, LF}
    [] chState = "TRAILER_LINE"             -> {LF}
    [] chState = "DONE"                     -> {}

\* Any byte comes; a chunked body goes on as usual after OddMax odd ones.
Arrive(b) ==
  /\ link /\ active /\ ring = <<>>
  /\ \/ ~chunked /\ Len(wire) < PlainMax /\ UNCHANGED odd
     \/ chunked /\ Len(wire) < ChunkedMax /\ b \in Usual /\ UNCHANGED odd
     \/ chunked /\ Len(wire) < ChunkedMax /\ b \notin Usual /\ odd < OddMax /\ odd' = odd + 1
  /\ ring' = <<b>>
  /\ UNCHANGED <<phase, getVars, httpVars, chVars, readVars, link, closed, seen, announced, wire, read>>

PeerCloses ==
  /\ link /\ phase # "header"
  /\ link' = FALSE /\ closed' = TRUE
  /\ UNCHANGED <<phase, getVars, httpVars, chVars, readVars, ring, history>>

-----------------------------------------------------------------------------

Asking == Refused \/ ConnectFails \/ SendFails \/ RequestSent

Judging == Malformed \/ Redirect \/ SessionStarts

Getting ==
  \/ Asking \/ Judging \/ HeaderStops
  \/ \E line \in BlankLines : HeaderBlank(line)
  \/ \E line \in LinesAt(Len(seen) + 1), long \in BOOLEAN : HeaderLine(line, long)

Serving == Take \/ Nothing \/ Ended \/ Wait \/ ReadFull \/ ReadShort

Next ==
  \/ Getting \/ Serving \/ HttpClose \/ PeerCloses
  \/ \E u \in Hosts : HttpGet(u)
  \/ \E n \in 1..ReadMax : HttpRead(n)
  \/ \E b \in Bytes : Arrive(b)

\* The main loop runs, and both waits have a timeout of ten seconds.
Fairness ==
  /\ WF_vars(Asking) /\ WF_vars(Judging) /\ WF_vars(HeaderStops)
  /\ WF_vars(Take \/ Nothing \/ Ended \/ ReadFull) /\ SF_vars(ReadShort)

Spec == Init /\ [][Next]_vars /\ Fairness

-----------------------------------------------------------------------------
(* What a chunked body says, by lines (RFC 9112, 7.1), except that the     *)
(* digits of a size may be missing, which then is 0.                       *)

\* First place from i on whose byte is in S, and the end of w if there is none.
Find(w, i, S) ==
  CHOOSE j \in i..Len(w) + 1 :
    /\ j <= Len(w) => w[j] \in S
    /\ \A l \in i..j - 1 : w[l] \notin S

Value(w, i, j) ==    \* of the digits i..j-1
  LET value[l \in i..j] == IF l = i THEN 0 ELSE value[l - 1] * 16 + w[l - 1]
  IN  value[j]

\* The byte at i is b if it has come.
MayBe(w, i, b) == i > Len(w) \/ w[i] = b

\* A line of the trailer that starts at s and is empty ends at e.
BlankLine(w, from, s, e) ==
  /\ s <= e
  /\ s = from \/ w[s - 1] = LF
  /\ w[e] = LF /\ \A l \in s..e - 1 : w[l] = CR

\* The chunk whose size starts at i: where its digits end and its size line ends,
\* where its data start, and the byte after them.
DigitsEnd(w, i) == Find(w, i, Bytes \ Digits)
LineEnd(w, i)   == Find(w, DigitsEnd(w, i), {CR})
SizeAt(w, i)    == Value(w, i, DigitsEnd(w, i))
DataAt(w, i)    == LineEnd(w, i) + 2
DataEnd(w, i)   == DataAt(w, i) + SizeAt(w, i)

Parsed(body, end) == [body |-> body, end |-> end]

\* The data of a chunk and what ends them, when `rest' is what comes from the next
\* chunk on; the trailer when the size is 0.
DataPart(w, data, size, rest) ==
  LET last == data + size
  IN  IF size = 0 THEN
        Parsed(<<>>, IF \E s, e \in data..Len(w) : BlankLine(w, data, s, e)
                     THEN "end" ELSE "more")
      ELSE IF Len(w) < last THEN Parsed(SubSeq(w, data, Len(w)), "more")
      ELSE IF ~MayBe(w, last, CR) \/ ~MayBe(w, last + 1, LF) THEN
        Parsed(SubSeq(w, data, last - 1), "bad")
      ELSE IF Len(w) < last + 1 THEN Parsed(SubSeq(w, data, last - 1), "more")
      ELSE Parsed(SubSeq(w, data, last - 1) \o rest.body, rest.end)

ChunkAt(w, i, rest) ==
  LET d  == DigitsEnd(w, i)
      cr == LineEnd(w, i)
  IN  IF \/ SizeAt(w, i) >= Word
         \/ d <= Len(w) /\ w[d] \notin {Semi, CR}
         \/ ~MayBe(w, cr + 1, LF) THEN Parsed(<<>>, "bad")
      ELSE IF Len(w) <= cr THEN Parsed(<<>>, "more")
      ELSE DataPart(w, DataAt(w, i), SizeAt(w, i), rest)

From(w) ==
  LET from[i \in 1..Len(w) + 1] == ChunkAt(w, i, from[DataEnd(w, i) + 2])
  IN  from

Decoded(w) == From(w)[1]

BodySoFar == IF chunked THEN Decoded(wire).body ELSE wire

BodyComplete ==
  IF chunked THEN Decoded(wire).end # "more" ELSE Len(wire) = announced

-----------------------------------------------------------------------------
(* Properties.                                                             *)

\* The lines http_get keeps and http_resp_parse reads mean what the whole header means,
\* whatever was skipped and in whatever order the lines came, when those it keeps end
\* with CR LF; the lines it skips, and the blank one, may end with a LF alone.
KeptWhole == \A i \in 1..Len(hdr) : hdr[i].name = "blank" \/ hdr[i].crlf
HeaderMeant == phase = "judge" /\ KeptWhole => Meaning(resp) = Meaning(seen)

\* The answers to AT+HTTPREAD put end to end are the body, however the bytes
\* arrive and are asked for, with none of its framing.
BodyDecoded == active => read \o buf = BodySoFar

\* The end is reported when the body has its last byte or its framing is broken,
\* not before, unless the server has closed; and it is not missed.
EndOfBody == active => (BodyComplete => eof) /\ (eof => BodyComplete \/ closed)

\* No host is asked, at any hop of a redirection, that the list does not allow.
AllowedHosts == link => url \in Allowed

\* A command that fails leaves no link behind, nor a closure to report later.
NothingLeft == phase = "idle" /\ ~active => ~link /\ ~closed

\* AT+HTTPGET and AT+HTTPREAD end, even if servers send the one from each to the
\* other for ever and nothing comes any more for the other.
Returns == (phase # "idle") ~> (phase = "idle")
=============================================================================
