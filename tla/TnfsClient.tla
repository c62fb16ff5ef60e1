----------------------------- MODULE TnfsClient -----------------------------
(***************************************************************************)
(* The TNFS client of the AT+N... commands: tnfs_client.c, the commands of *)
(* at_modem.c that use it, and its UDP link in net_pico.c, which keeps the *)
(* last datagram received in one place. The server (tnfsd) and the network *)
(* are modelled from what the client expects of them: a repeated request   *)
(* of a session is answered again, not run again; a MOUNT has no session   *)
(* yet, and each that arrives opens one. Datagrams are lost, late and      *)
(* doubled, and replies overtake each other; requests arrive in order.     *)
(*                                                                         *)
(* A request is a session, a sequence number and a command. `id' numbers   *)
(* the requests of the client, repetitions not counted: it is carried by   *)
(* every datagram for the properties only. A directory handle is the id of *)
(* the request that opened it.                                             *)
(*                                                                         *)
(* `seq' counts the sequence numbers since tnfs_init; Byte is what is sent *)
(* of it, and all that the client and the server compare.                  *)
(***************************************************************************)
EXTENDS Integers, Sequences, FiniteSets

CONSTANTS
  None,
  Calls,       \* bound: requests of the client
  Tries,       \* TNFS_TRIES
  Agains,      \* EAGAIN answers a request puts up with (8)
  Stales,      \* late answers listened to before sending again (16)
  SeqMod,      \* sequence numbers: 256
  Sessions,    \* bound: sessions the server opens
  Outgoing,    \* bound: requests on the way
  Incoming,    \* bound: replies on the way
  Lifetime,    \* a datagram is late by this many requests at most
  RetryMount   \* the program may repeat AT+NMOUNT while datagrams of the last are alive

ASSUME TnfsAssumption ==
  /\ Calls \in Nat /\ Sessions \in Nat /\ Outgoing \in Nat /\ Incoming \in Nat /\ Lifetime \in Nat
  /\ Tries \in Nat \ {0} /\ Agains \in Nat /\ Stales \in Nat
  \* sequence numbers do not come round within the life of a datagram; that they do not
  \* while the server waits for a request that reaches it is up to Calls
  /\ SeqMod \in Nat /\ (Lifetime + 1) * (Agains + 1) <= SeqMod
  /\ RetryMount \in BOOLEAN

VARIABLES
  mounted, conn, seq,                 \* struct tnfs_client
  pc, job, req, attempt, again, stale, \* transact and its caller
  dir,                                \* handle of the directory being listed
  rx,                                 \* nfs_rx: the datagram not read yet
  requests, replies,                  \* on the way
  sessions, runs, dirs,               \* the server: sessions, requests run, open directories
  id, mountId, mounts, outcome        \* history: the last MOUNT and all of them

clientVars  == <<mounted, conn, seq, pc, job, req, attempt, again, stale, dir>>
networkVars == <<rx, requests, replies>>
serverVars  == <<sessions, runs, dirs>>
vars == <<clientVars, networkVars, serverVars, id, mountId, mounts, outcome>>

\* "OP" is any command of one request: OPEN, READ, WRITE, CLOSE, LSEEK, STAT, UNLINK...
Commands == {"MOUNT", "UMOUNT", "OP", "OPENDIR", "READDIR", "CLOSEDIR"}

Requests ==
  [conn : 0..Sessions, seq : Nat, cmd : Commands, dir : 0..Calls, id : 1..Calls]

\* "short": a reply that ends before its status; "eof": no more entries.
Statuses == {"ok", "error", "again", "short", "eof"}

Answers == [conn : 1..Sessions, seq : Nat, cmd : Commands, id : 1..Calls, status : Statuses]

ASSUME NoneAssumption == None \notin Requests \cup Answers

Answer(r, c, status) ==
  [conn |-> c, seq |-> r.seq, cmd |-> r.cmd, id |-> r.id, status |-> status]

\* What AT+NMOUNT or AT+NDIR has still to do after the request in hand.
Jobs == {"none", "mount", "read", "close", "closeFailed"}

RC == INSTANCE RemoteCall WITH issued <- id, open <- pc # "idle", repeatable <- mounts

TypeOK ==
  /\ mounted \in BOOLEAN /\ conn \in 0..Sessions /\ seq \in Nat
  /\ pc \in {"idle", "send", "wait"} /\ job \in Jobs
  /\ req \in Requests \cup {None}
  /\ attempt \in 0..Tries-1 /\ again \in 0..Agains /\ stale \in 0..Stales
  /\ dir \in 0..Calls
  /\ rx \in Answers \cup {None}
  /\ requests \in Seq(Requests) /\ replies \subseteq Answers
  /\ sessions \in [1..Sessions -> [state : {"new", "open", "closed"}, last : Answers \cup {None}]]
  /\ runs \in [1..Calls -> Nat] /\ dirs \subseteq 1..Calls
  /\ id \in 0..Calls /\ mountId \in 0..Calls /\ mounts \subseteq 1..Calls
  /\ outcome \in RC!Outcomes

Init ==
  /\ mounted = FALSE /\ conn = 0 /\ seq = 0
  /\ pc = "idle" /\ job = "none" /\ req = None
  /\ attempt = 0 /\ again = 0 /\ stale = 0 /\ dir = 0
  /\ rx = None /\ requests = <<>> /\ replies = {}
  /\ sessions = [s \in 1..Sessions |-> [state |-> "new", last |-> None]]
  /\ runs = [i \in 1..Calls |-> 0] /\ dirs = {}
  /\ id = 0 /\ mountId = 0 /\ mounts = {} /\ outcome = [call |-> 0, result |-> "none"]

-----------------------------------------------------------------------------
(* The requests of the commands.                                           *)

NextSeq(n) == n + 1
Byte(n) == n % SeqMod

\* The network forgets the datagrams that are too late. Requests keep their order, so
\* that those are the first n.
Alive(r) == r.id + Lifetime > id
Dead(n) == \A i \in 1..Len(requests) : i <= n <=> ~Alive(requests[i])

\* transact begins: req_start and a new sequence number.
Begin(cmd, c, s) ==
  /\ id < Calls
  /\ id' = id + 1
  /\ req' = [conn |-> c, seq |-> NextSeq(s), cmd |-> cmd, dir |-> dir, id |-> id + 1]
  /\ seq' = NextSeq(s) /\ conn' = c
  /\ pc' = "send" /\ attempt' = 0 /\ again' = 0 /\ stale' = 0
  /\ \E n \in 0..Len(requests) :
       Dead(n) /\ requests' = SubSeq(requests, n + 1, Len(requests))
  /\ replies' = {r \in replies : Alive(r)}
  /\ UNCHANGED <<rx, serverVars, outcome>>

Idle == pc = "idle" /\ job = "none"

\* tnfs_init, which forgets the sequence number too, and tnfs_mount.
BeginMount ==
  /\ RetryMount \/ mountId = 0 \/ mountId + Lifetime <= id
  /\ Begin("MOUNT", 0, 0)
  /\ mounted' = FALSE /\ mountId' = id + 1 /\ mounts' = mounts \cup {id + 1} /\ job' = "none"
  /\ UNCHANGED dir

\* AT+NMOUNT leaves the session it has before it opens another.
NMount ==
  /\ Idle
  /\ \/ ~mounted /\ BeginMount
     \/ /\ mounted /\ Begin("UMOUNT", conn, seq)
        /\ job' = "mount"
        /\ UNCHANGED <<mounted, mountId, mounts, dir>>

\* AT+NUMOUNT, a command of one request, AT+NDIR; refused without a session.
NCommand(cmd) ==
  /\ Idle /\ mounted
  /\ Begin(cmd, conn, seq)
  /\ UNCHANGED <<mounted, mountId, mounts, job, dir>>

\* The next request of AT+NMOUNT or of tnfs_list.
NextRequest ==
  /\ pc = "idle"
  /\ \/ job = "mount" /\ BeginMount
     \/ /\ job = "read" /\ Begin("READDIR", conn, seq)
        /\ UNCHANGED <<mounted, mountId, mounts, job, dir>>
     \/ /\ job \in {"close", "closeFailed"} /\ Begin("CLOSEDIR", conn, seq)
        /\ UNCHANGED <<mounted, mountId, mounts, job, dir>>

-----------------------------------------------------------------------------
(* transact.                                                               *)

\* nfs_xfer_op: what has not been read is thrown away, then the request is sent;
\* it may be lost, or arrive twice.
Send ==
  /\ pc = "send"
  /\ rx' = None
  /\ \E copies \in 0..2 :
       /\ Len(requests) + copies <= Outgoing
       /\ requests' = requests \o [i \in 1..copies |-> req]
  /\ pc' = "wait" /\ stale' = 0
  /\ UNCHANGED <<mounted, conn, seq, job, req, attempt, again, dir, replies,
                 serverVars, id, mountId, mounts, outcome>>

OutOfSeq(a) == a.cmd # req.cmd                                     \* mutant
OtherRequest(a) == Byte(a.seq) # Byte(req.seq) \/ a.cmd # req.cmd

\* An answer to an earlier request, or of an earlier session.
Late(a) == OtherRequest(a) \/ (req.cmd # "MOUNT" /\ a.conn # conn)

\* One more late answer: listen again without sending.
Listen ==
  /\ pc = "wait" /\ rx # None
  /\ Late(rx) /\ stale < Stales
  /\ rx' = None /\ stale' = stale + 1
  /\ UNCHANGED <<mounted, conn, seq, pc, job, req, attempt, again, dir, requests, replies,
                 serverVars, id, mountId, mounts, outcome>>

\* What the caller does when transact returns: tnfs_mount, tnfs_umount,
\* tnfs_list (a directory opened is closed whatever reading it gave).
StopListing(status) == CASE status = "ok" -> {"read", "none"} [] status = "eof" -> {"none"} [] OTHER -> {"closeFailed"}   \* mutant
AfterRead(status) ==
  CASE status = "ok"  -> {"read", "close"}
    [] status = "eof" -> {"close"}
    [] OTHER          -> {"closeFailed"}

Caller(ok, a) ==
  /\ mounted' = IF req.cmd = "MOUNT" THEN ok ELSE mounted /\ req.cmd # "UMOUNT"
  /\ conn' = IF req.cmd = "MOUNT" /\ ok THEN a.conn ELSE conn
  /\ dir' = IF req.cmd = "OPENDIR" /\ ok THEN a.id ELSE dir
  /\ CASE req.cmd = "UMOUNT"   -> job' = job
       [] req.cmd = "OPENDIR"  -> job' = IF ok THEN "read" ELSE "none"
       [] req.cmd = "READDIR"  -> job' \in AfterRead(IF a = None THEN "none" ELSE a.status)
       [] OTHER                -> job' = "none"

Return(result, ok, a) ==
  /\ pc' = "idle"
  /\ outcome' = [call |-> IF a = None THEN id ELSE a.id, result |-> result]
  /\ Caller(ok, a)

SameAttempt == attempt                                             \* mutant
NextAttempt == attempt + 1

\* No answer in time, or not one after Stales late ones: send again, Tries times.
TryAgain ==
  /\ UNCHANGED <<seq, req>>
  /\ IF NextAttempt < Tries
       THEN /\ attempt' = NextAttempt /\ pc' = "send"
            /\ UNCHANGED <<outcome, mounted, conn, dir, job>>
       ELSE attempt' = attempt /\ Return("unknown", FALSE, None)

NoAnswer ==
  /\ pc = "wait"
  /\ rx = None \/ (stale = Stales /\ OtherRequest(rx))
  /\ rx' = None
  /\ TryAgain
  /\ UNCHANGED <<again, stale, requests, replies, serverVars, id, mountId, mounts>>

Accepted(a) == ~Late(a) \/ (stale = Stales /\ ~OtherRequest(a))

\* EAGAIN: the same request under a new sequence number, after the delay.
Again ==
  /\ pc = "wait" /\ rx # None /\ Accepted(rx)
  /\ rx.status = "again" /\ again < Agains
  /\ again' = again + 1 /\ attempt' = 0
  /\ seq' = NextSeq(seq) /\ req' = [req EXCEPT !.seq = NextSeq(seq)]
  /\ pc' = "send" /\ rx' = None
  /\ UNCHANGED <<mounted, conn, job, stale, dir, requests, replies,
                 serverVars, id, mountId, mounts, outcome>>

ResultOf(a) ==
  CASE a.status = "again" -> "refused" [] a.status = "short" -> "unknown" [] OTHER -> "done"

Finish ==
  /\ pc = "wait" /\ rx # None /\ Accepted(rx)
  /\ ~(rx.status = "again" /\ again < Agains)
  /\ Return(ResultOf(rx), rx.status = "ok", rx)
  /\ rx' = None
  /\ UNCHANGED <<seq, req, attempt, again, stale, requests, replies, serverVars, id, mountId, mounts>>

-----------------------------------------------------------------------------
(* The server and the network.                                             *)

\* A reply; one that comes between two requests is thrown away by Send, which
\* stands for its loss.
Post(a) ==
  replies' = IF Cardinality(replies \cup {a}) <= Incoming THEN replies \cup {a} ELSE replies

\* A MOUNT carries no session by which a repetition could be told: each one opens a session.
ServeMount(r) ==
  /\ \E s \in 1..Sessions :
       /\ sessions[s].state = "new" /\ \A t \in 1..s-1 : sessions[t].state # "new"
       /\ sessions' = [sessions EXCEPT ![s].state = "open"]
       /\ Post(Answer(r, s, "ok"))
  /\ runs' = [runs EXCEPT ![r.id] = @ + 1]
  /\ UNCHANGED dirs

\* An error counts as done; the client only goes on differently after one when
\* it is listing a directory.
StatusesOf(cmd) ==
  {"ok", "again"} \cup CASE cmd = "UMOUNT" -> {"short"}
                         [] cmd = "READDIR" -> {"error", "eof"}
                         [] cmd \in {"OPENDIR", "CLOSEDIR"} -> {"error"}
                         [] OTHER -> {}

\* A request of an open session: asked to wait, or run, unless it is a repetition.
ServeSession(r) ==
  LET s == sessions[r.conn] IN
  IF s.last # None /\ Byte(s.last.seq) = Byte(r.seq)
    THEN Post(s.last) /\ UNCHANGED serverVars
    ELSE \E status \in StatusesOf(r.cmd) :
           LET a == Answer(r, r.conn, status) IN
           /\ Post(a)
           /\ sessions' = [sessions EXCEPT ![r.conn] =
                [state |-> IF r.cmd = "UMOUNT" /\ status # "again" THEN "closed" ELSE "open",
                 last |-> a]]
           /\ runs' = IF status = "again" THEN runs ELSE [runs EXCEPT ![r.id] = @ + 1]
           /\ dirs' = CASE r.cmd = "OPENDIR" /\ status = "ok" -> dirs \cup {r.id}
                        [] r.cmd = "CLOSEDIR" /\ status = "ok" -> dirs \ {r.dir}
                        [] OTHER -> dirs

\* A session the server has closed is not answered.
Serve ==
  /\ requests # <<>>
  /\ requests' = Tail(requests)
  /\ LET r == Head(requests) IN
     \/ r.cmd = "MOUNT" /\ ServeMount(r)
     \/ r.cmd # "MOUNT" /\ sessions[r.conn].state = "open" /\ ServeSession(r)
     \/ /\ r.cmd # "MOUNT" => sessions[r.conn].state # "open"
        /\ UNCHANGED <<replies, serverVars>>
  /\ UNCHANGED <<clientVars, rx, id, mountId, mounts, outcome>>

\* on_nfs_udp: the newest datagram takes the place of the one before.
OnNfsUdp ==
  /\ \E a \in replies : rx' = a /\ replies' = replies \ {a}
  /\ UNCHANGED <<clientVars, requests, serverVars, id, mountId, mounts, outcome>>

-----------------------------------------------------------------------------

Program ==
  \/ NMount
  \/ NCommand("UMOUNT") \/ NCommand("OP") \/ NCommand("OPENDIR")

Client == NextRequest \/ Send \/ Listen \/ NoAnswer \/ Again \/ Finish

Next == Program \/ Client \/ Serve \/ OnNfsUdp

Spec == Init /\ [][Next]_vars

\* The waits of nfs_xfer_op and of EAGAIN have deadlines.
FairSpec == Spec /\ WF_vars(Client)

-----------------------------------------------------------------------------

\* Each request but a MOUNT is run once at most, and what the client reports of a request
\* comes from the server's answer to that same request.
Implements == RC!Spec

\* AT+NDIR that answers OK has left no directory open on the server.
NDirOk ==
  /\ pc = "wait" /\ pc' = "idle" /\ job' = "none" /\ rx # None /\ rx.status \in {"ok", "eof"}
  /\ req.cmd = "READDIR" \/ (req.cmd = "CLOSEDIR" /\ job = "close")
ListClosed == [][NDirOk => dir \notin dirs]_vars

\* The program never waits for ever: a request ends, answered or not.
CallReturns == (pc # "idle") ~> (pc = "idle")
=============================================================================
