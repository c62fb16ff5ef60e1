-------------------------- MODULE TnfsClientProofs --------------------------
(***************************************************************************)
(* The TNFS client keeps the promise of RemoteCall: whatever the network   *)
(* loses, repeats and delays, the server carries each request of a session *)
(* out once at most, and the client reports of it what the server answered *)
(* to that request.                                                        *)
(***************************************************************************)
EXTENDS TnfsClient, SequenceTheorems, FiniteSetTheorems, TLAPS

LEMMA Constants ==
  /\ Calls \in Nat /\ Sessions \in Nat /\ Outgoing \in Nat /\ Incoming \in Nat /\ Lifetime \in Nat
  /\ Tries \in Nat /\ Tries > 0 /\ Agains \in Nat /\ Stales \in Nat /\ SeqMod \in Nat
  /\ (Lifetime + 1) * (Agains + 1) <= SeqMod
BY TnfsAssumption

Mount(x) == x.cmd = "MOUNT"
Asking == pc # "idle"

\* The requests on the way, and which of two was sent last.
Positions == 1..Len(requests)
OnTheWay == {requests[i] : i \in Positions}
Follows(r, q) == \E i, j \in Positions : i < j /\ requests[i] = r /\ requests[j] = q

\* The replies that may still be taken: Send throws away what came before it.
Coming == replies \cup (IF pc = "wait" THEN {rx} \ {None} ELSE {})

\* The last answer of a session, which a repeated request gets again.
Last(s) == sessions[s].last

\* The request in hand is of the session the client has; that of a mount, of none.
ClientInv ==
  /\ Asking =>
       /\ req \in Requests /\ req.id = id /\ req.seq = seq /\ req.conn = conn
       /\ IF Mount(req) THEN ~mounted /\ conn = 0 /\ seq = 1 /\ id = mountId /\ job = "none"
                        ELSE mounted /\ id > mountId
       /\ req.cmd = "UMOUNT" => job \in {"none", "mount"}
  /\ mounted => conn \in 1..Sessions
  /\ mountId <= id /\ (mountId # 0 => mountId \in mounts)
  /\ job \in {"read", "close", "closeFailed"} => mounted

Known ==
  /\ TypeOK
  /\ ClientInv
  /\ \A r \in OnTheWay : Mount(r) \/ r.conn \in 1..Sessions
  /\ \A a \in Coming : Mount(a) => a.status = "ok"
  /\ \A s \in 1..Sessions : Last(s) # None => ~Mount(Last(s)) /\ Last(s).conn = s

-----------------------------------------------------------------------------
(* The queue of requests.                                                  *)

LEMMA FirstOnTheWay ==
  ASSUME requests \in Seq(Requests), requests # <<>>
  PROVE  Head(requests) \in OnTheWay /\ Head(requests) \in Requests
<1>1. 1 \in Positions
  BY DEF Positions
<1>2. Head(requests) = requests[1]
  OBVIOUS
<1> QED
  BY <1>1, <1>2 DEF OnTheWay, Positions

LEMMA Taken ==
  ASSUME requests \in Seq(Requests), requests # <<>>, requests' = Tail(requests)
  PROVE  /\ requests' \in Seq(Requests) /\ Len(requests') = Len(requests) - 1
         /\ \A r \in OnTheWay' : r \in OnTheWay /\ r \in Requests /\ Follows(Head(requests), r)
         /\ \A r, q \in Requests : Follows(r, q)' => Follows(r, q)
<1>1. /\ Len(requests') = Len(requests) - 1 /\ requests' \in Seq(Requests)
      /\ \A i \in 1..Len(requests) - 1 : requests'[i] = requests[i + 1]
  OBVIOUS
<1>2. Positions' = 1..Len(requests) - 1
  BY <1>1 DEF Positions
<1>3. \A i \in Positions' : i + 1 \in Positions /\ 1 \in Positions /\ 1 < i + 1
  BY <1>2 DEF Positions
<1>4. ASSUME NEW r \in OnTheWay'
      PROVE  r \in OnTheWay /\ r \in Requests /\ Follows(Head(requests), r)
  <2>1. PICK i \in Positions' : r = requests'[i]
    BY DEF OnTheWay
  <2>2. r = requests[i + 1] /\ requests[1] = Head(requests)
    BY <2>1, <1>1, <1>2
  <2> QED
    BY <2>2, <1>3 DEF OnTheWay, Follows, Positions
<1>5. ASSUME NEW r \in Requests, NEW q \in Requests, Follows(r, q)'
      PROVE  Follows(r, q)
  <2>1. PICK i \in Positions', j \in Positions' : i < j /\ requests'[i] = r /\ requests'[j] = q
    BY <1>5 DEF Follows
  <2>2. requests[i + 1] = r /\ requests[j + 1] = q /\ i + 1 < j + 1
    BY <2>1, <1>1, <1>2
  <2> QED
    BY <2>2, <1>3 DEF Follows
<1> QED
  BY <1>1, <1>4, <1>5

LEMMA Forgotten ==
  ASSUME requests \in Seq(Requests), NEW n \in 0..Len(requests), Dead(n),
         requests' = SubSeq(requests, n + 1, Len(requests))
  PROVE  /\ requests' \in Seq(Requests) /\ Len(requests') <= Len(requests)
         /\ \A r \in OnTheWay' : r \in OnTheWay /\ r \in Requests /\ Alive(r)
         /\ \A r, q \in Requests : Follows(r, q)' => Follows(r, q)
<1>1. /\ Len(requests') = Len(requests) - n /\ requests' \in Seq(Requests)
      /\ \A i \in 1..Len(requests) - n : requests'[i] = requests[i + n]
  OBVIOUS
<1>2. Positions' = 1..Len(requests) - n
  BY <1>1 DEF Positions
<1>3. \A i \in Positions' : i + n \in Positions /\ ~(i + n <= n)
  BY <1>2 DEF Positions
<1>4. ASSUME NEW r \in OnTheWay' PROVE r \in OnTheWay /\ r \in Requests /\ Alive(r)
  <2>1. PICK i \in Positions' : r = requests'[i]
    BY DEF OnTheWay
  <2>2. r = requests[i + n]
    BY <2>1, <1>1, <1>2
  <2> QED
    BY <2>2, <1>3 DEF OnTheWay, Dead, Positions
<1>5. ASSUME NEW r \in Requests, NEW q \in Requests, Follows(r, q)'
      PROVE  Follows(r, q)
  <2>1. PICK i \in Positions', j \in Positions' : i < j /\ requests'[i] = r /\ requests'[j] = q
    BY <1>5 DEF Follows
  <2>2. requests[i + n] = r /\ requests[j + n] = q /\ i + n < j + n
    BY <2>1, <1>1, <1>2
  <2> QED
    BY <2>2, <1>3 DEF Follows
<1> QED
  BY <1>1, <1>4, <1>5

LEMMA Queued ==
  ASSUME requests \in Seq(Requests), req \in Requests, NEW copies \in 0..2,
         requests' = requests \o [i \in 1..copies |-> req]
  PROVE  /\ requests' \in Seq(Requests) /\ Len(requests') = Len(requests) + copies
         /\ \A r \in OnTheWay' : (r \in OnTheWay /\ r \in Requests) \/ r = req
         /\ \A r, q \in Requests :
              Follows(r, q)' => Follows(r, q) \/ (q = req /\ (r \in OnTheWay \/ r = req))
<1> DEFINE more == [i \in 1..copies |-> req]
<1>1. more \in Seq(Requests) /\ Len(more) = copies
  OBVIOUS
<1>2. /\ Len(requests') = Len(requests) + copies /\ requests' \in Seq(Requests)
      /\ \A i \in 1..Len(requests) : requests'[i] = requests[i]
      /\ \A i \in Len(requests) + 1..Len(requests) + copies : requests'[i] = req
  BY <1>1
<1>3. Positions' = 1..Len(requests) + copies /\ Positions = 1..Len(requests)
  BY <1>2 DEF Positions
<1>4. \A i \in Positions' : (i \in Positions /\ requests'[i] = requests[i])
                              \/ (i > Len(requests) /\ requests'[i] = req)
  BY <1>2, <1>3
<1>5. ASSUME NEW r \in OnTheWay' PROVE (r \in OnTheWay /\ r \in Requests) \/ r = req
  <2>1. PICK i \in Positions' : r = requests'[i]
    BY DEF OnTheWay
  <2> QED
    BY <2>1, <1>4 DEF OnTheWay, Positions
<1>6. ASSUME NEW r \in Requests, NEW q \in Requests, Follows(r, q)'
      PROVE  Follows(r, q) \/ (q = req /\ (r \in OnTheWay \/ r = req))
  <2>1. PICK i \in Positions', j \in Positions' : i < j /\ requests'[i] = r /\ requests'[j] = q
    BY <1>6 DEF Follows
  <2>2. j \in Positions => i \in Positions
    BY <2>1, <1>3
  <2>3. CASE j \in Positions /\ requests'[j] = requests[j]
    <3>1. i \in Positions /\ requests[i] = r /\ requests[j] = q
      BY <2>1, <2>2, <2>3, <1>2, <1>3
    <3> QED
      BY <3>1, <2>1, <2>3 DEF Follows
  <2>4. CASE j > Len(requests) /\ requests'[j] = req
    BY <2>1, <2>4, <1>4 DEF OnTheWay
  <2> QED
    BY <2>1, <2>3, <2>4, <1>4
<1> QED
  BY <1>2, <1>5, <1>6

LEMMA SameQueue ==
  ASSUME UNCHANGED requests
  PROVE  OnTheWay' = OnTheWay /\ \A r, q \in Requests : Follows(r, q)' <=> Follows(r, q)
BY DEF OnTheWay, Follows, Positions

-----------------------------------------------------------------------------
(* The steps, told apart.                                                  *)

Mounting == pc = "idle" /\ BeginMount

Requesting(cmd) ==
  /\ pc = "idle" /\ mounted
  /\ Begin(cmd, conn, seq)
  /\ UNCHANGED <<mounted, mountId, mounts, dir>>
  /\ job' \in Jobs /\ (cmd = "UMOUNT" => job' \in {"none", "mount"})

LEMMA Beginnings ==
  ASSUME Known, Program \/ NextRequest
  PROVE  Mounting \/ \E cmd \in Commands \ {"MOUNT"} : Requesting(cmd)
<1> USE DEF Jobs, Commands
<1>1. CASE NMount
  <2>1. CASE ~mounted /\ BeginMount
    BY <1>1, <2>1 DEF NMount, Idle, Mounting
  <2>2. CASE mounted /\ Begin("UMOUNT", conn, seq) /\ job' = "mount"
                 /\ UNCHANGED <<mounted, mountId, mounts, dir>>
    BY <1>1, <2>2 DEF NMount, Idle, Requesting
  <2> QED
    BY <1>1, <2>1, <2>2 DEF NMount
<1>2. ASSUME NEW cmd \in Commands \ {"MOUNT"}, NCommand(cmd) PROVE Requesting(cmd)
  BY <1>2 DEF NCommand, Idle, Requesting
<1>3. CASE NextRequest
  <2>1. CASE job = "mount" /\ BeginMount
    BY <1>3, <2>1 DEF NextRequest, Mounting
  <2>2. ASSUME NEW cmd \in {"READDIR", "CLOSEDIR"}, job \in {"read", "close", "closeFailed"},
               Begin(cmd, conn, seq), UNCHANGED <<mounted, mountId, mounts, job, dir>>
        PROVE  Requesting(cmd)
    BY <1>3, <2>2 DEF NextRequest, Requesting, Known, ClientInv
  <2> QED
    BY <1>3, <2>1, <2>2 DEF NextRequest
<1> QED
  BY <1>1, <1>2, <1>3 DEF Program

\* What the server does of the request that comes first.
ServedMount(r) ==
  /\ Mount(r)
  /\ \E s \in 1..Sessions :
       /\ sessions[s].state = "new"
       /\ sessions' = [sessions EXCEPT ![s].state = "open"]
       /\ Post(Answer(r, s, "ok"))
  /\ runs' = [runs EXCEPT ![r.id] = @ + 1]
  /\ UNCHANGED dirs

Session(r) == ~Mount(r) /\ sessions[r.conn].state = "open"
Answered(r) == sessions[r.conn].last # None /\ Byte(sessions[r.conn].last.seq) = Byte(r.seq)

Repeated(r) == Session(r) /\ Answered(r) /\ Post(sessions[r.conn].last) /\ UNCHANGED serverVars

\* A request opens one directory at most; one that closes says so or not, and no more.
RanDirs(r, status) ==
  /\ dirs' \subseteq dirs \cup {r.id}
  /\ r.cmd = "CLOSEDIR" => status # "eof" /\ (status = "ok" => dirs' = dirs \ {r.dir})

Ran(r, status) ==
  /\ Session(r) /\ ~Answered(r)
  /\ Post(Answer(r, r.conn, status))
  /\ \E state \in {"open", "closed"} :
       sessions' = [sessions EXCEPT ![r.conn] =
                      [state |-> state, last |-> Answer(r, r.conn, status)]]
  /\ runs' = IF status = "again" THEN runs ELSE [runs EXCEPT ![r.id] = @ + 1]
  /\ dirs' \in {dirs, dirs \cup {r.id}, dirs \ {r.dir}} /\ RanDirs(r, status)

Ignored == UNCHANGED <<replies, serverVars>>

LEMMA SessionServings ==
  ASSUME NEW r, Session(r), ServeSession(r)
  PROVE  Repeated(r) \/ \E status \in Statuses : Ran(r, status)
<1>1. CASE Answered(r)
  BY <1>1, Zenon DEF ServeSession, Answered, Repeated
<1>2. CASE ~Answered(r)
  <2>1. PICK status \in StatusesOf(r.cmd) :
         /\ Post(Answer(r, r.conn, status))
         /\ sessions' = [sessions EXCEPT ![r.conn] =
              [state |-> IF r.cmd = "UMOUNT" /\ status # "again" THEN "closed" ELSE "open",
               last |-> Answer(r, r.conn, status)]]
         /\ runs' = IF status = "again" THEN runs ELSE [runs EXCEPT ![r.id] = @ + 1]
         /\ dirs' = CASE r.cmd = "OPENDIR" /\ status = "ok" -> dirs \cup {r.id}
                      [] r.cmd = "CLOSEDIR" /\ status = "ok" -> dirs \ {r.dir}
                      [] OTHER -> dirs
    BY <1>2, Zenon DEF ServeSession, Answered
  <2>2. status \in Statuses
    BY DEF StatusesOf, Statuses
  <2>3. dirs' \in {dirs, dirs \cup {r.id}, dirs \ {r.dir}}
    BY <2>1
  <2>4. \E state \in {"open", "closed"} :
          sessions' = [sessions EXCEPT ![r.conn] =
                         [state |-> state, last |-> Answer(r, r.conn, status)]]
    BY <2>1
  <2>5. RanDirs(r, status)
    <3>1. dirs' \subseteq dirs \cup {r.id}
      BY <2>1
    <3>2. ASSUME r.cmd = "CLOSEDIR"
          PROVE  status # "eof" /\ (status = "ok" => dirs' = dirs \ {r.dir})
      BY <2>1, <3>2 DEF StatusesOf
    <3> QED
      BY <3>1, <3>2 DEF RanDirs
  <2> QED
    BY <1>2, <2>1, <2>2, <2>3, <2>4, <2>5, Zenon DEF Ran
<1> QED
  BY <1>1, <1>2

LEMMA Servings ==
  ASSUME Serve
  PROVE  \/ ServedMount(Head(requests)) \/ Repeated(Head(requests))
         \/ \E status \in Statuses : Ran(Head(requests), status)
         \/ Ignored
<1>1. \/ Mount(Head(requests)) /\ ServeMount(Head(requests))
      \/ Session(Head(requests)) /\ ServeSession(Head(requests))
      \/ Ignored
  BY Zenon DEF Serve, Ignored, Mount, Session
<1>2. Mount(Head(requests)) /\ ServeMount(Head(requests)) => ServedMount(Head(requests))
  BY Zenon DEF ServeMount, ServedMount
<1> QED
  BY <1>1, <1>2, SessionServings

-----------------------------------------------------------------------------
(* What each step leaves of the types and of the client.                   *)

Results == {"done", "refused", "unknown"}

LEMMA AnswerType ==
  ASSUME NEW r \in Requests, NEW c \in 1..Sessions, NEW status \in Statuses
  PROVE  /\ Answer(r, c, status) \in Answers
         /\ Answer(r, c, status).conn = c /\ Answer(r, c, status).seq = r.seq
         /\ Answer(r, c, status).cmd = r.cmd /\ Answer(r, c, status).id = r.id
         /\ Answer(r, c, status).status = status
BY DEF Answer, Answers, Requests

LEMMA Posted ==
  ASSUME NEW a, Post(a)
  PROVE  \/ replies' = replies
         \/ replies' = replies \cup {a} /\ Cardinality(replies') <= Incoming
BY DEF Post

LEMMA Begun ==
  ASSUME TypeOK, NEW cmd \in Commands, NEW c \in 0..Sessions, NEW s \in Nat, Begin(cmd, c, s)
  PROVE  /\ id' = id + 1 /\ id' \in 1..Calls
         /\ seq' = s + 1 /\ seq' \in Nat /\ conn' = c /\ pc' = "send"
         /\ attempt' = 0 /\ again' = 0 /\ stale' = 0
         /\ req' \in Requests /\ req'.id = id' /\ req'.seq = seq' /\ req'.conn = c /\ req'.cmd = cmd
         /\ requests' \in Seq(Requests) /\ Len(requests') <= Len(requests)
         /\ \A r \in OnTheWay' : r \in OnTheWay /\ r \in Requests /\ Alive(r)
         /\ \A r, q \in Requests : Follows(r, q)' => Follows(r, q)
         /\ replies' \subseteq replies /\ Coming' = replies' /\ \A a \in replies' : Alive(a)
         /\ UNCHANGED <<rx, serverVars, outcome>>
<1>1. id \in Nat /\ id < Calls /\ id' = id + 1 /\ dir \in 0..Calls /\ requests \in Seq(Requests)
  BY DEF TypeOK, Begin
<1>2. id' \in 1..Calls /\ seq' = s + 1 /\ seq' \in Nat /\ conn' = c /\ pc' = "send"
      /\ attempt' = 0 /\ again' = 0 /\ stale' = 0 /\ UNCHANGED <<rx, serverVars, outcome>>
  BY <1>1, Constants DEF Begin, NextSeq
<1>3. req' = [conn |-> c, seq |-> s + 1, cmd |-> cmd, dir |-> dir, id |-> id + 1]
  BY DEF Begin, NextSeq
<1>4. req' \in Requests /\ req'.id = id' /\ req'.seq = seq' /\ req'.conn = c /\ req'.cmd = cmd
  BY <1>1, <1>2, <1>3 DEF Requests
<1>5. PICK n \in 0..Len(requests) : Dead(n) /\ requests' = SubSeq(requests, n + 1, Len(requests))
  BY DEF Begin
<1>6. replies' = {r \in replies : Alive(r)}
  BY DEF Begin
<1>7. Coming' = replies'
  BY <1>2 DEF Coming
<1> QED
  BY <1>1, <1>2, <1>4, <1>5, <1>6, <1>7, Forgotten

LEMMA Returned ==
  ASSUME Known, pc = "wait", NEW result \in Results, NEW ok \in BOOLEAN,
         NEW a \in Answers \cup {None}, ok => a \in Answers, Return(result, ok, a)
  PROVE  /\ pc' = "idle" /\ mounted' \in BOOLEAN /\ conn' \in 0..Sessions /\ dir' \in 0..Calls
         /\ job' \in Jobs /\ outcome' \in RC!Outcomes
         /\ outcome' = [call |-> IF a = None THEN id ELSE a.id, result |-> result]
         /\ mounted' => conn' \in 1..Sessions
         /\ job' \in {"read", "close", "closeFailed"} => mounted'
         /\ conn' = conn \/ (Mount(req) /\ ok /\ conn' = a.conn)
<1>1. /\ pc' = "idle" /\ Caller(ok, a)
      /\ outcome' = [call |-> IF a = None THEN id ELSE a.id, result |-> result]
  BY DEF Return
<1>2. /\ req \in Requests /\ mounted \in BOOLEAN /\ conn \in 0..Sessions /\ dir \in 0..Calls
      /\ job \in Jobs /\ id \in 0..Calls
      /\ Mount(req) \/ mounted
      /\ req.cmd = "UMOUNT" => job \in {"none", "mount"}
      /\ mounted => conn \in 1..Sessions
  BY DEF Known, TypeOK, ClientInv, Asking
<1>3. a # None => a.id \in 0..Calls /\ a.conn \in 1..Sessions
  BY DEF Answers
<1>4. ok => a.id \in 0..Calls /\ a.conn \in 1..Sessions
  BY DEF Answers
<1>5. outcome' \in RC!Outcomes
  BY <1>1, <1>2, <1>3 DEF RC!Outcomes, Results
<1>6. mounted' = IF Mount(req) THEN ok ELSE mounted /\ req.cmd # "UMOUNT"
  BY <1>1, Zenon DEF Caller, Mount
<1>7. /\ conn' = IF Mount(req) /\ ok THEN a.conn ELSE conn
      /\ dir' = IF req.cmd = "OPENDIR" /\ ok THEN a.id ELSE dir
  BY <1>1, Zenon DEF Caller, Mount
<1>8. /\ req.cmd = "UMOUNT" => job' = job
      /\ req.cmd = "OPENDIR" => job' \in {"read", "none"}
      /\ req.cmd = "READDIR" => job' \in {"read", "close", "closeFailed"}
      /\ req.cmd \notin {"UMOUNT", "OPENDIR", "READDIR"} => job' = "none"
  BY <1>1 DEF Caller, AfterRead
<1>9. job' \in Jobs /\ (job' \in {"read", "close", "closeFailed"} => ~Mount(req) /\ req.cmd # "UMOUNT")
  BY <1>8, <1>2 DEF Jobs, Mount
<1>10. mounted' \in BOOLEAN /\ (~Mount(req) /\ req.cmd # "UMOUNT" => mounted')
  BY <1>6, <1>2
<1>11. mounted' => (Mount(req) /\ ok) \/ (~Mount(req) /\ mounted)
  BY <1>6
<1> QED
  BY <1>1, <1>2, <1>4, <1>5, <1>7, <1>9, <1>10, <1>11

LEMMA KnownInit == Init => Known
<1> SUFFICES ASSUME Init PROVE Known
  OBVIOUS
<1> USE Constants DEF Init
<1>1. sessions \in [1..Sessions -> [state : {"new", "open", "closed"}, last : Answers \cup {None}]]
  OBVIOUS
<1>2. outcome \in RC!Outcomes
  BY DEF RC!Outcomes
<1>3. TypeOK
  <2>1. /\ requests \in Seq(Requests) /\ replies \subseteq Answers /\ dirs \subseteq 1..Calls
        /\ runs \in [1..Calls -> Nat]
    OBVIOUS
  <2>2. /\ conn \in 0..Sessions /\ seq \in Nat /\ attempt \in 0..Tries-1 /\ again \in 0..Agains
        /\ stale \in 0..Stales /\ dir \in 0..Calls /\ id \in 0..Calls /\ mountId \in 0..Calls /\ mounts \subseteq 1..Calls
    OBVIOUS
  <2>3. /\ mounted \in BOOLEAN /\ pc \in {"idle", "send", "wait"} /\ job \in Jobs
        /\ req \in Requests \cup {None} /\ rx \in Answers \cup {None}
    BY DEF Jobs
  <2> QED
    BY <1>1, <1>2, <2>1, <2>2, <2>3, Zenon DEF TypeOK
<1>4. OnTheWay = {} /\ Coming = {}
  BY DEF OnTheWay, Positions, Coming
<1>5. \A s \in 1..Sessions : Last(s) = None
  BY DEF Last
<1> QED
  BY <1>3, <1>4, <1>5 DEF Known, ClientInv, Asking

LEMMA KnownMounting ==
  ASSUME Known, Mounting
  PROVE  Known' /\ Mount(req)' /\ mountId' = id'
<1>1. /\ Begin("MOUNT", 0, 0)
      /\ mounted' = FALSE /\ mountId' = id + 1 /\ mounts' = mounts \cup {id + 1} /\ job' = "none" /\ UNCHANGED dir
  BY DEF Mounting, BeginMount
<1>2. TypeOK /\ "MOUNT" \in Commands /\ 0 \in 0..Sessions
  BY Constants DEF Known, Commands
<1>3. /\ id' = id + 1 /\ id' \in 1..Calls
      /\ seq' = 1 /\ seq' \in Nat /\ conn' = 0 /\ pc' = "send"
      /\ attempt' = 0 /\ again' = 0 /\ stale' = 0
      /\ req' \in Requests /\ req'.id = id' /\ req'.seq = seq' /\ req'.conn = 0 /\ req'.cmd = "MOUNT"
      /\ requests' \in Seq(Requests)
      /\ \A r \in OnTheWay' : r \in OnTheWay
      /\ replies' \subseteq replies /\ Coming' = replies'
      /\ UNCHANGED <<rx, serverVars, outcome>>
  BY <1>1, <1>2, Begun
<1>4. TypeOK'
  <2>1. /\ attempt' \in 0..Tries-1 /\ again' \in 0..Agains /\ stale' \in 0..Stales
        /\ id' \in 0..Calls /\ mountId' \in 0..Calls
        /\ mounts' \subseteq 1..Calls
    BY <1>1, <1>2, <1>3, Constants DEF TypeOK
  <2>2. replies' \subseteq Answers
    BY <1>2, <1>3 DEF TypeOK
  <2>3. mounted' \in BOOLEAN /\ pc' \in {"idle", "send", "wait"} /\ job' \in Jobs
    BY <1>1, <1>3 DEF Jobs
  <2> QED
    BY <1>1, <1>2, <1>3, <2>1, <2>2, <2>3 DEF TypeOK, serverVars
<1>5. ClientInv' /\ Mount(req)' /\ mountId' = id'
  BY <1>1, <1>3 DEF ClientInv, Mount, Asking
<1>6. Coming' \subseteq Coming
  BY <1>3 DEF Coming
<1>7. \A s : Last(s)' = Last(s)
  BY <1>3 DEF Last, serverVars
<1> QED
  BY <1>3, <1>4, <1>5, <1>6, <1>7 DEF Known

LEMMA KnownRequesting ==
  ASSUME Known, NEW cmd \in Commands \ {"MOUNT"}, Requesting(cmd)
  PROVE  Known' /\ ~Mount(req)'
<1>1. /\ Begin(cmd, conn, seq) /\ mounted
      /\ UNCHANGED <<mounted, mountId, mounts, dir>>
      /\ job' \in Jobs /\ (cmd = "UMOUNT" => job' \in {"none", "mount"})
  BY DEF Requesting
<1>2. TypeOK /\ cmd \in Commands /\ conn \in 0..Sessions /\ seq \in Nat /\ conn \in 1..Sessions
      /\ mountId <= id /\ id \in Nat /\ mountId \in Nat
  BY <1>1 DEF Known, TypeOK, ClientInv
<1>3. /\ id' = id + 1 /\ id' \in 1..Calls
      /\ seq' \in Nat /\ conn' = conn /\ pc' = "send"
      /\ attempt' = 0 /\ again' = 0 /\ stale' = 0
      /\ req' \in Requests /\ req'.id = id' /\ req'.seq = seq' /\ req'.conn = conn /\ req'.cmd = cmd
      /\ requests' \in Seq(Requests)
      /\ \A r \in OnTheWay' : r \in OnTheWay
      /\ replies' \subseteq replies /\ Coming' = replies'
      /\ UNCHANGED <<rx, serverVars, outcome>>
  BY <1>1, <1>2, Begun
<1>4. TypeOK'
  BY <1>1, <1>2, <1>3, Constants DEF TypeOK, serverVars
<1>8. mountId' # 0 => mountId' \in mounts'
  BY <1>1 DEF Known, ClientInv
<1>5. ClientInv' /\ ~Mount(req)'
  BY <1>1, <1>2, <1>3, <1>8 DEF ClientInv, Mount, Asking
<1>6. Coming' \subseteq Coming
  BY <1>3 DEF Coming
<1>7. \A s : Last(s)' = Last(s)
  BY <1>3 DEF Last, serverVars
<1> QED
  BY <1>3, <1>4, <1>5, <1>6, <1>7 DEF Known

LEMMA KnownSend ==
  ASSUME Known, Send
  PROVE  Known' /\ \A r \in OnTheWay' : (r \in OnTheWay /\ r \in Requests) \/ r = req
<1>1. /\ pc = "send" /\ pc' = "wait" /\ rx' = None /\ stale' = 0
      /\ UNCHANGED <<mounted, conn, seq, job, req, attempt, again, dir, replies,
                     serverVars, id, mountId, mounts, outcome>>
  BY DEF Send
<1>2. PICK copies \in 0..2 : requests' = requests \o [i \in 1..copies |-> req]
  BY DEF Send
<1>3. req \in Requests /\ requests \in Seq(Requests) /\ (Mount(req) \/ req.conn \in 1..Sessions)
  BY <1>1 DEF Known, TypeOK, ClientInv, Asking
<1>4. /\ requests' \in Seq(Requests)
      /\ \A r \in OnTheWay' : (r \in OnTheWay /\ r \in Requests) \/ r = req
  BY <1>2, <1>3, Queued
<1>5. TypeOK'
  BY <1>1, <1>4, Constants DEF Known, TypeOK, serverVars
<1>6. ClientInv'
  BY <1>1 DEF Known, ClientInv, Asking, Mount
<1>7. Coming' \subseteq Coming
  BY <1>1 DEF Coming
<1>8. \A s : Last(s)' = Last(s)
  BY <1>1 DEF Last, serverVars
<1> QED
  BY <1>3, <1>4, <1>5, <1>6, <1>7, <1>8 DEF Known

LEMMA KnownListen ==
  ASSUME Known, Listen
  PROVE  Known'
<1>1. /\ pc = "wait" /\ stale < Stales /\ rx' = None /\ stale' = stale + 1
      /\ UNCHANGED <<mounted, conn, seq, pc, job, req, attempt, again, dir, requests, replies,
                     serverVars, id, mountId, mounts, outcome>>
  BY DEF Listen
<1>2. TypeOK'
  BY <1>1, Constants DEF Known, TypeOK, serverVars
<1>3. ClientInv'
  BY <1>1 DEF Known, ClientInv, Asking, Mount
<1>4. Coming' \subseteq Coming
  BY <1>1 DEF Coming
<1>5. (\A s : Last(s)' = Last(s)) /\ OnTheWay' = OnTheWay
  BY <1>1 DEF Last, serverVars, OnTheWay, Positions
<1> QED
  BY <1>2, <1>3, <1>4, <1>5 DEF Known

LEMMA KnownNoAnswer ==
  ASSUME Known, NoAnswer
  PROVE  Known'
<1>1. /\ pc = "wait" /\ rx' = None /\ TryAgain
      /\ UNCHANGED <<again, stale, requests, replies, serverVars, id, mountId, mounts, seq, req>>
  BY DEF NoAnswer, TryAgain
<1>2. Coming' \subseteq Coming
  BY <1>1 DEF Coming
<1>3. (\A s : Last(s)' = Last(s)) /\ OnTheWay' = OnTheWay
  BY <1>1 DEF Last, serverVars, OnTheWay, Positions
<1>4. CASE attempt + 1 < Tries
  <2>1. attempt' = attempt + 1 /\ pc' = "send" /\ UNCHANGED <<outcome, mounted, conn, dir, job>>
    BY <1>1, <1>4 DEF TryAgain, NextAttempt
  <2>2. TypeOK'
    BY <1>1, <1>4, <2>1, Constants DEF Known, TypeOK, serverVars
  <2>3. ClientInv'
    BY <1>1, <2>1 DEF Known, ClientInv, Asking, Mount
  <2> QED
    BY <2>2, <2>3, <1>2, <1>3 DEF Known
<1>5. CASE ~(attempt + 1 < Tries)
  <2>1. attempt' = attempt /\ Return("unknown", FALSE, None)
    BY <1>1, <1>5 DEF TryAgain, NextAttempt
  <2>2. /\ pc' = "idle" /\ mounted' \in BOOLEAN /\ conn' \in 0..Sessions /\ dir' \in 0..Calls
        /\ job' \in Jobs /\ outcome' \in RC!Outcomes
        /\ mounted' => conn' \in 1..Sessions
        /\ job' \in {"read", "close", "closeFailed"} => mounted'
    BY <1>1, <2>1, Returned DEF Results
  <2>3. TypeOK'
    BY <1>1, <2>1, <2>2, Constants DEF Known, TypeOK, serverVars
  <2>4. ClientInv'
    BY <1>1, <2>2 DEF Known, ClientInv, Asking
  <2> QED
    BY <2>3, <2>4, <1>2, <1>3 DEF Known
<1> QED
  BY <1>4, <1>5

LEMMA AcceptedCommand ==
  ASSUME Known, pc = "wait", rx # None, Accepted(rx)
  PROVE  /\ rx \in Answers /\ rx \in Coming /\ rx.cmd = req.cmd
         /\ Byte(rx.seq) = Byte(req.seq)
         /\ Mount(req) => rx.status = "ok"
<1>1. rx \in Answers /\ rx \in Coming
  BY DEF Known, TypeOK, Coming
<1>2. rx.cmd = req.cmd /\ Byte(rx.seq) = Byte(req.seq)
  BY DEF Accepted, Late, OtherRequest
<1> QED
  BY <1>1, <1>2 DEF Known, Mount

LEMMA KnownAgain ==
  ASSUME Known, Again
  PROVE  Known' /\ ~Mount(req)
<1>1. /\ pc = "wait" /\ rx # None /\ Accepted(rx) /\ rx.status = "again" /\ again < Agains
      /\ again' = again + 1 /\ attempt' = 0 /\ seq' = seq + 1
      /\ req' = [req EXCEPT !.seq = seq + 1]
      /\ pc' = "send" /\ rx' = None
      /\ UNCHANGED <<mounted, conn, job, stale, dir, requests, replies,
                     serverVars, id, mountId, mounts, outcome>>
  BY DEF Again, NextSeq
<1>2. ~Mount(req)
  BY <1>1, AcceptedCommand
<1>3. seq \in Nat /\ req \in Requests
  BY <1>1 DEF Known, TypeOK, ClientInv, Asking
<1>4. /\ req' \in Requests /\ req'.id = req.id /\ req'.conn = req.conn /\ req'.cmd = req.cmd
      /\ req'.seq = seq'
  BY <1>1, <1>3 DEF Requests
<1>5. TypeOK'
  <2>1. /\ again < Agains /\ again' = again + 1 /\ attempt' = 0 /\ seq' = seq + 1
        /\ again \in 0..Agains
    BY <1>1 DEF Known, TypeOK
  <2>1b. attempt' \in 0..Tries-1 /\ again' \in 0..Agains /\ seq' \in Nat
    BY <2>1, <1>3, Constants
  <2>2. req' \in Requests \cup {None} /\ pc' \in {"idle", "send", "wait"}
    BY <1>1, <1>4
  <2>3. rx' \in Answers \cup {None}
    BY <1>1
  <2>4. UNCHANGED <<mounted, conn, job, stale, dir, requests, replies,
                    sessions, runs, dirs, id, mountId, mounts, outcome>>
    BY <1>1 DEF serverVars
  <2> QED
    BY <2>1b, <2>2, <2>3, <2>4 DEF Known, TypeOK
<1>6. ClientInv'
  BY <1>1, <1>2, <1>4 DEF Known, ClientInv, Asking, Mount
<1>7. Coming' \subseteq Coming
  BY <1>1 DEF Coming
<1>8. (\A s : Last(s)' = Last(s)) /\ OnTheWay' = OnTheWay
  BY <1>1 DEF Last, serverVars, OnTheWay, Positions
<1> QED
  BY <1>2, <1>5, <1>6, <1>7, <1>8 DEF Known

LEMMA KnownFinish ==
  ASSUME Known, Finish
  PROVE  Known'
<1>1. /\ pc = "wait" /\ rx # None /\ Accepted(rx) /\ rx' = None
      /\ Return(ResultOf(rx), rx.status = "ok", rx)
      /\ UNCHANGED <<seq, req, attempt, again, stale, requests, replies, serverVars, id, mountId, mounts>>
  BY DEF Finish
<1>2. ResultOf(rx) \in Results /\ rx \in Answers
  BY <1>1 DEF ResultOf, Results, Known, TypeOK
<1>3. /\ pc' = "idle" /\ mounted' \in BOOLEAN /\ conn' \in 0..Sessions /\ dir' \in 0..Calls
      /\ job' \in Jobs /\ outcome' \in RC!Outcomes
      /\ mounted' => conn' \in 1..Sessions
      /\ job' \in {"read", "close", "closeFailed"} => mounted'
  BY <1>1, <1>2, Returned
<1>4. TypeOK'
  BY <1>1, <1>3, Constants DEF Known, TypeOK, serverVars
<1>5. ClientInv'
  BY <1>1, <1>3 DEF Known, ClientInv, Asking
<1>6. Coming' \subseteq Coming
  BY <1>1, <1>3 DEF Coming
<1>7. (\A s : Last(s)' = Last(s)) /\ OnTheWay' = OnTheWay
  BY <1>1 DEF Last, serverVars, OnTheWay, Positions
<1> QED
  BY <1>4, <1>5, <1>6, <1>7 DEF Known

LEMMA KnownOnNfsUdp ==
  ASSUME Known, OnNfsUdp
  PROVE  Known' /\ Coming' \subseteq Coming
<1>1. PICK a \in replies : rx' = a /\ replies' = replies \ {a}
  BY DEF OnNfsUdp
<1>2. UNCHANGED <<mounted, conn, seq, pc, job, req, attempt, again, stale, dir,
                  requests, sessions, runs, dirs, id, mountId, mounts, outcome>>
  BY DEF OnNfsUdp, clientVars, serverVars
<1>3. TypeOK'
  BY <1>1, <1>2 DEF Known, TypeOK
<1>4. ClientInv'
  BY <1>2 DEF Known, ClientInv, Asking, Mount
<1>5. Coming' \subseteq Coming
  BY <1>1, <1>2 DEF Coming
<1>6. (\A s : Last(s)' = Last(s)) /\ OnTheWay' = OnTheWay
  BY <1>2 DEF Last, OnTheWay, Positions
<1> QED
  BY <1>3, <1>4, <1>5, <1>6 DEF Known

\* A request served leaves the client alone.
LEMMA Served ==
  ASSUME Known, Serve
  PROVE  /\ UNCHANGED <<mounted, conn, seq, pc, job, req, attempt, again, stale, dir, rx,
                        id, mountId, mounts, outcome>>
         /\ Head(requests) \in OnTheWay /\ Head(requests) \in Requests
         /\ Mount(Head(requests)) \/ Head(requests).conn \in 1..Sessions
         /\ requests' \in Seq(Requests) /\ Len(requests') = Len(requests) - 1
         /\ \A r \in OnTheWay' : r \in OnTheWay /\ r \in Requests /\ Follows(Head(requests), r)
         /\ \A r, q \in Requests : Follows(r, q)' => Follows(r, q)
<1>1. requests # <<>> /\ requests' = Tail(requests)
      /\ UNCHANGED <<mounted, conn, seq, pc, job, req, attempt, again, stale, dir, rx,
                        id, mountId, mounts, outcome>>
  BY DEF Serve, clientVars
<1>2. requests \in Seq(Requests)
  BY DEF Known, TypeOK
<1> QED
  BY <1>1, <1>2, FirstOnTheWay, Taken DEF Known

LEMMA KnownServe ==
  ASSUME Known, Serve
  PROVE  Known'
<1> DEFINE r == Head(requests)
<1>1. /\ UNCHANGED <<mounted, conn, seq, pc, job, req, attempt, again, stale, dir, rx,
                     id, mountId, mounts, outcome>>
      /\ r \in OnTheWay /\ r \in Requests
      /\ Mount(r) \/ r.conn \in 1..Sessions
      /\ requests' \in Seq(Requests)
      /\ \A q \in OnTheWay' : q \in OnTheWay
  BY Served
<1>2. ServedMount(r) \/ Repeated(r) \/ (\E status \in Statuses : Ran(r, status)) \/ Ignored
  BY Servings
<1> HIDE DEF r
<1>3. /\ replies \subseteq Answers /\ runs \in [1..Calls -> Nat] /\ dirs \subseteq 1..Calls
      /\ sessions \in [1..Sessions -> [state : {"new", "open", "closed"}, last : Answers \cup {None}]]
      /\ r.id \in 1..Calls /\ \A i \in 1..Calls : runs[i] \in Nat
      /\ \A s \in 1..Sessions : sessions[s] \in [state : {"new", "open", "closed"}, last : Answers \cup {None}]
  BY <1>1 DEF Known, TypeOK, Requests
<1> DEFINE Typed == /\ replies' \subseteq Answers /\ runs' \in [1..Calls -> Nat] /\ dirs' \subseteq 1..Calls
                    /\ sessions' \in [1..Sessions ->
                         [state : {"new", "open", "closed"}, last : Answers \cup {None}]]
           Good == /\ \A a \in replies' : a \in replies \/ (Mount(a) => a.status = "ok")
                   /\ \A s \in 1..Sessions :
                        Last(s)' = Last(s) \/ (~Mount(Last(s)') /\ Last(s)'.conn = s)
<1>4. ASSUME ServedMount(r) PROVE Typed /\ Good
  <2>1. PICK s \in 1..Sessions :
               /\ sessions' = [sessions EXCEPT ![s].state = "open"]
               /\ Post(Answer(r, s, "ok"))
    BY <1>4 DEF ServedMount
  <2>2. runs' = [runs EXCEPT ![r.id] = @ + 1] /\ dirs' = dirs
    BY <1>4 DEF ServedMount
  <2>3. Answer(r, s, "ok") \in Answers /\ Answer(r, s, "ok").status = "ok"
    BY <1>1, AnswerType DEF Statuses
  <2>4. \A a \in replies' : a \in replies \/ a = Answer(r, s, "ok")
    BY <2>1, Posted
  <2>5. \A t \in 1..Sessions : Last(t)' = Last(t)
    BY <2>1, <1>3 DEF Last
  <2>6. Good
    BY <2>3, <2>4, <2>5
  <2>7. sessions' \in [1..Sessions -> [state : {"new", "open", "closed"}, last : Answers \cup {None}]]
    BY <2>1, <1>3
  <2>8. runs' \in [1..Calls -> Nat]
    BY <2>2, <1>3
  <2>9. replies' \subseteq Answers
    BY <2>3, <2>4, <1>3
  <2> QED
    BY <2>2, <2>6, <2>7, <2>8, <2>9, <1>3
<1>5. ASSUME Repeated(r) PROVE Typed /\ Good
  <2>1. /\ Post(Last(r.conn)) /\ UNCHANGED <<sessions, runs, dirs>> /\ Last(r.conn) # None
        /\ r.conn \in 1..Sessions
    BY <1>5, <1>1 DEF Repeated, Session, Answered, serverVars, Last
  <2>2. ~Mount(Last(r.conn)) /\ Last(r.conn) \in Answers
    BY <2>1, <1>3 DEF Known, Last
  <2>3. \A a \in replies' : a \in replies \/ a = Last(r.conn)
    BY <2>1, Posted
  <2> QED
    BY <2>1, <2>2, <2>3, <1>3 DEF Last
<1>6. ASSUME NEW status \in Statuses, Ran(r, status)
      PROVE  Typed /\ Good
  <2>1. PICK state \in {"open", "closed"} :
          sessions' = [sessions EXCEPT ![r.conn] =
                         [state |-> state, last |-> Answer(r, r.conn, status)]]
    BY <1>6 DEF Ran
  <2>2. /\ Post(Answer(r, r.conn, status)) /\ ~Mount(r)
        /\ runs' = IF status = "again" THEN runs ELSE [runs EXCEPT ![r.id] = @ + 1]
        /\ dirs' \in {dirs, dirs \cup {r.id}, dirs \ {r.dir}}
    BY <1>6 DEF Ran, Session
  <2>3. r.conn \in 1..Sessions
    BY <1>1, <2>2
  <2>4. PICK a \in Answers : /\ a = Answer(r, r.conn, status) /\ a.conn = r.conn /\ a.cmd = r.cmd
    BY <1>1, <2>3, AnswerType
  <2>5. ~Mount(a)
    BY <2>2, <2>4 DEF Mount
  <2>6. \A b \in replies' : b \in replies \/ b = a
    BY <2>2, <2>4, Posted
  <2>7. sessions' = [sessions EXCEPT ![r.conn] = [state |-> state, last |-> a]]
    BY <2>1, <2>4
  <2>8. sessions' \in [1..Sessions -> [state : {"new", "open", "closed"}, last : Answers \cup {None}]]
    BY <2>7, <1>3, <2>3
  <2>9. \A s \in 1..Sessions : Last(s)' = IF s = r.conn THEN a ELSE Last(s)
    BY <2>7, <1>3, <2>3 DEF Last
  <2>10. Good
    BY <2>4, <2>5, <2>6, <2>9
  <2>11. runs' \in [1..Calls -> Nat]
    BY <2>2, <1>3
  <2>12. dirs' \subseteq 1..Calls
    BY <2>2, <1>3
  <2>13. replies' \subseteq Answers
    BY <2>4, <2>6, <1>3
  <2> QED
    BY <2>8, <2>10, <2>11, <2>12, <2>13
<1>7. ASSUME Ignored PROVE Typed /\ Good
  BY <1>7, <1>3 DEF Ignored, serverVars, Last
<1>8. Typed /\ Good
  BY <1>2, <1>4, <1>5, <1>6, <1>7
<1>9. TypeOK'
  BY <1>1, <1>8 DEF Known, TypeOK
<1>10. ClientInv'
  BY <1>1 DEF Known, ClientInv, Asking, Mount
<1>11. \A a \in Coming' : a \in Coming \/ (Mount(a) => a.status = "ok")
  BY <1>1, <1>8 DEF Coming
<1> HIDE DEF Typed
<1> QED
  BY <1>1, <1>8, <1>9, <1>10, <1>11 DEF Known

LEMMA KnownStep ==
  ASSUME Known, [Next]_vars
  PROVE  Known'
<1>1. CASE Program \/ NextRequest
  BY <1>1, Beginnings, KnownMounting, KnownRequesting
<1>2. CASE UNCHANGED vars
  BY <1>2 DEF vars, clientVars, networkVars, serverVars, Known, TypeOK, ClientInv, Asking, Mount,
     OnTheWay, Positions, Coming, Last
<1> QED
  BY <1>1, <1>2, KnownSend, KnownListen, KnownNoAnswer, KnownAgain, KnownFinish, KnownServe,
     KnownOnNfsUdp DEF Next, Client

\* The types, and which request the client is at.
THEOREM TnfsTypeCorrect == Spec => []TypeOK
<1>1. Known => TypeOK
  BY DEF Known
<1>2. Spec => []Known
  BY KnownInit, KnownStep, PTL DEF Spec
<1> QED
  BY <1>1, <1>2, PTL

-----------------------------------------------------------------------------
(* Where the sequence numbers are.                                         *)

\* So many sequence numbers are used by k requests, asked to wait as often as can be.
Room(k) == k * (Agains + 1)
Spread(x) == seq - x.seq <= Room(id - x.id) + again

\* The server has not come to this request yet.
Ahead(r) == Last(r.conn) = None \/ Last(r.conn).seq < r.seq

\* A request of the session in use, on the way.
CurrentOK(r) ==
  /\ r.seq <= seq /\ Spread(r)
  /\ Asking /\ r.seq = seq => r.id = id
  /\ Ahead(r) => seq - r.seq = id - r.id

\* Its number is not that of the last answer but by being the same request.
UnheardOK(r) ==
  /\ Last(r.conn) # None =>
       /\ Last(r.conn).seq <= r.seq /\ r.seq < Last(r.conn).seq + SeqMod
       /\ Last(r.conn).seq = r.seq => Last(r.conn).id = r.id /\ Last(r.conn).cmd = r.cmd
  /\ Ahead(r) => runs[r.id] = 0

RequestOK(r) ==
  /\ r.id <= id /\ id <= r.id + Lifetime
  /\ Asking /\ r.id = id => r.cmd = req.cmd /\ r.conn = req.conn
  /\ Mount(r) => r.seq = 1 /\ r.id = mountId
  /\ ~Mount(r) =>
       /\ sessions[r.conn].state # "new"
       /\ r.conn = conn <=> r.id > mountId
       /\ r.conn = conn => CurrentOK(r)
       /\ UnheardOK(r)

OrderOK(r, q) ==
  /\ r.id <= q.id
  /\ r.id = q.id => r.cmd = q.cmd /\ r.conn = q.conn
  /\ r.conn = q.conn /\ ~Mount(r) =>
       /\ ~Mount(q) /\ r.seq <= q.seq
       /\ r.seq = q.seq => r.id = q.id
       /\ Ahead(r) => q.seq - r.seq = q.id - r.id

QueueInv ==
  /\ \A r \in OnTheWay : RequestOK(r)
  /\ \A r, q \in Requests : Follows(r, q) => OrderOK(r, q)

\* The last answer of the session in use.
LastOK(a) ==
  /\ a.id > mountId /\ a.seq <= seq /\ seq - a.seq <= id - a.id + 1
  /\ a.status = "again" => runs[a.id] = 0
  /\ Asking /\ a.seq = seq => a.id = id /\ a.cmd = req.cmd

SessionInv ==
  /\ \A s \in 1..Sessions :
       /\ sessions[s].state = "new" => Last(s) = None
       /\ Last(s) # None =>
            /\ Last(s).id <= id
            /\ Last(s).status # "again" => runs[Last(s).id] # 0
            /\ s = conn => LastOK(Last(s))
  /\ conn # 0 => sessions[conn].state # "new"

RunsInv ==
  /\ \A i \in 1..Calls : runs[i] \in Nat /\ (i > id => runs[i] = 0)
  /\ Asking /\ ~Mount(req) /\ Ahead(req) => runs[id] = 0

ReplyOK(a) ==
  /\ a.id <= id /\ id <= a.id + Lifetime
  /\ sessions[a.conn].state # "new"
  /\ a.status # "again" => runs[a.id] # 0
  /\ Mount(a) =>
       /\ a.id = mountId
       /\ Asking /\ Mount(req) =>
            /\ Last(a.conn) = None
            /\ \A r \in OnTheWay : Mount(r) \/ r.conn # a.conn
  /\ ~Mount(a) =>
       /\ Last(a.conn) # None /\ a.seq <= Last(a.conn).seq
       /\ a.seq = Last(a.conn).seq => a = Last(a.conn)
       /\ a.conn = conn => Spread(a)

NumbersInv ==
  /\ QueueInv
  /\ SessionInv
  /\ RunsInv
  /\ \A a \in Coming : ReplyOK(a)

LEMMA RoomGrows ==
  /\ \A k \in Int : Room(k) \in Int /\ Room(k + 1) = Room(k) + Agains + 1
  /\ Room(0) = 0
BY Constants DEF Room

LEMMA RoomEnough ==
  ASSUME NEW k \in 0..Lifetime
  PROVE  Room(k) + Agains < SeqMod
<1>1. Lifetime - k \in Nat /\ Agains + 1 \in Nat
  BY Constants
<1>2. (Lifetime - k) * (Agains + 1) >= 0
  BY <1>1
<1>3. (Lifetime + 1) * (Agains + 1) = (Lifetime - k) * (Agains + 1) + k * (Agains + 1) + Agains + 1
  BY Constants
<1>4. k * (Agains + 1) \in Int /\ (Lifetime - k) * (Agains + 1) \in Int
  BY Constants
<1> QED
  BY <1>2, <1>3, <1>4, Constants DEF Room

\* Two numbers less than SeqMod apart that are sent as one byte are the same.
LEMMA SameByte ==
  ASSUME NEW m \in Nat, NEW n \in Nat, m <= n, n < m + SeqMod, Byte(m) = Byte(n)
  PROVE  m = n
<1>1. SeqMod \in Nat /\ SeqMod > 0
  BY Constants
<1>2. /\ m = SeqMod * (m \div SeqMod) + (m % SeqMod)
      /\ n = SeqMod * (n \div SeqMod) + (n % SeqMod)
      /\ m \div SeqMod \in Int /\ n \div SeqMod \in Int
      /\ m % SeqMod \in Int /\ n % SeqMod \in Int
  BY <1>1
<1>3. PICK d \in Int : d = (n \div SeqMod) - (m \div SeqMod)
  BY <1>2
<1>4. n - m = SeqMod * d
  BY <1>1, <1>2, <1>3 DEF Byte
<1>5. CASE d >= 1
  <2>1. SeqMod * d >= SeqMod
    BY <1>1, <1>5
  <2> QED
    BY <1>4, <2>1, <1>1
<1>6. CASE d <= 0
  <2>1. SeqMod * d <= 0
    BY <1>1, <1>6
  <2> QED
    BY <1>4, <2>1, <1>1
<1> QED
  BY <1>5, <1>6

-----------------------------------------------------------------------------
(* What each step leaves of the numbers.                                   *)

\* The next proofs are about one datagram at a time, of which the type is known.
LEMMA Typed ==
  ASSUME Known
  PROVE  /\ id \in Nat /\ id <= Calls /\ mountId \in Nat /\ seq \in Nat /\ again \in 0..Agains
         /\ conn \in 0..Sessions
         /\ \A r \in Requests : r.id \in 1..Calls /\ r.seq \in Nat /\ r.conn \in 0..Sessions
         /\ \A a \in Answers : a.id \in 1..Calls /\ a.seq \in Nat /\ a.conn \in 1..Sessions
         /\ OnTheWay \subseteq Requests /\ Coming \subseteq Answers
         /\ \A s \in 1..Sessions : Last(s) # None => Last(s) \in Answers
         /\ \A r \in OnTheWay : ~Mount(r) => r.conn \in 1..Sessions
         /\ Asking => req \in Requests /\ req.id = id /\ req.seq = seq /\ req.conn = conn
         /\ \A i \in 1..Calls : runs[i] \in Nat
<1>1. OnTheWay \subseteq Requests
  BY DEF Known, TypeOK, OnTheWay, Positions
<1>2. Coming \subseteq Answers
  BY DEF Known, TypeOK, Coming
<1>3. /\ id \in Nat /\ id <= Calls /\ mountId \in Nat /\ seq \in Nat /\ again \in 0..Agains
      /\ conn \in 0..Sessions
  BY Constants DEF Known, TypeOK
<1>4. \A r \in Requests : r.id \in 1..Calls /\ r.seq \in Nat /\ r.conn \in 0..Sessions
  BY DEF Requests
<1>5. \A a \in Answers : a.id \in 1..Calls /\ a.seq \in Nat /\ a.conn \in 1..Sessions
  BY DEF Answers
<1>6. \A s \in 1..Sessions : Last(s) # None => Last(s) \in Answers
  BY DEF Known, TypeOK, Last
<1>7. \A r \in OnTheWay : ~Mount(r) => r.conn \in 1..Sessions
  BY DEF Known
<1>8. Asking => req \in Requests /\ req.id = id /\ req.seq = seq /\ req.conn = conn
  BY DEF Known, ClientInv
<1>9. \A i \in 1..Calls : runs[i] \in Nat
  BY DEF Known, TypeOK
<1> QED
  BY <1>1, <1>2, <1>3, <1>4, <1>5, <1>6, <1>7, <1>8, <1>9

LEMMA NumbersKept ==
  ASSUME Known, NumbersInv,
         UNCHANGED <<seq, id, mountId, mounts, again, sessions, runs, conn>>,
         OnTheWay' \subseteq OnTheWay,
         \A r, q \in Requests : Follows(r, q)' => Follows(r, q),
         \A a \in Coming' : a \in Coming \/ ReplyOK(a),
         Asking' => Asking /\ req' = req
  PROVE  NumbersInv'
<1> USE DEF Mount
<1>1. \A s : Last(s)' = Last(s)
  BY DEF Last
<1>2. \A r : (Ahead(r)' <=> Ahead(r)) /\ (Spread(r)' <=> Spread(r))
  BY <1>1 DEF Ahead, Spread
<1>3. ASSUME NEW r, RequestOK(r) PROVE RequestOK(r)'
  <2>1. CurrentOK(r) => CurrentOK(r)'
    BY <1>2 DEF CurrentOK
  <2>2. UnheardOK(r) => UnheardOK(r)'
    BY <1>1, <1>2 DEF UnheardOK
  <2> QED
    BY <1>3, <2>1, <2>2 DEF RequestOK
<1>4. ASSUME NEW r, NEW q, OrderOK(r, q) PROVE OrderOK(r, q)'
  BY <1>4, <1>2 DEF OrderOK
<1>5. QueueInv'
  BY <1>3, <1>4 DEF NumbersInv, QueueInv
<1>6. ASSUME NEW a, LastOK(a) PROVE LastOK(a)'
  BY <1>6 DEF LastOK
<1>7. SessionInv'
  BY <1>1, <1>6 DEF NumbersInv, SessionInv
<1>8. RunsInv'
  BY <1>2 DEF NumbersInv, RunsInv
<1>9. ASSUME NEW a, ReplyOK(a) PROVE ReplyOK(a)'
  BY <1>1, <1>2, <1>9 DEF ReplyOK
<1> QED
  BY <1>5, <1>7, <1>8, <1>9 DEF NumbersInv

LEMMA NumbersInit == Init => NumbersInv
<1> SUFFICES ASSUME Init PROVE NumbersInv
  OBVIOUS
<1>1. OnTheWay = {} /\ Coming = {} /\ \A r, q : ~Follows(r, q)
  BY DEF Init, OnTheWay, Follows, Positions, Coming
<1>2. \A s \in 1..Sessions : Last(s) = None
  BY DEF Init, Last
<1>3. SessionInv
  BY <1>2 DEF Init, SessionInv
<1>4. RunsInv
  BY DEF Init, RunsInv, Asking
<1> QED
  BY <1>1, <1>3, <1>4 DEF NumbersInv, QueueInv

\* AT+NMOUNT waits until no datagram of the last one is left.
LEMMA NumbersMounting ==
  ASSUME RetryMount = FALSE, Known, NumbersInv, Mounting
  PROVE  NumbersInv'
<1>1. /\ Begin("MOUNT", 0, 0) /\ mountId' = id + 1
      /\ mountId = 0 \/ mountId + Lifetime <= id
  BY DEF Mounting, BeginMount
<1>2. TypeOK /\ "MOUNT" \in Commands /\ 0 \in 0..Sessions
  BY Constants DEF Known, Commands
<1>3. /\ id' = id + 1 /\ conn' = 0 /\ req'.cmd = "MOUNT"
      /\ \A r \in OnTheWay' : r \in OnTheWay /\ r \in Requests /\ Alive(r)
      /\ \A r, q \in Requests : Follows(r, q)' => Follows(r, q)
      /\ replies' \subseteq replies /\ Coming' = replies' /\ \A a \in replies' : Alive(a)
      /\ sessions' = sessions /\ runs' = runs
  BY <1>1, <1>2, Begun DEF serverVars
<1>4. /\ id \in Nat /\ mountId \in Nat
      /\ \A r \in Requests : r.id \in 1..Calls /\ r.seq \in Nat
      /\ \A a \in Answers : a.id \in 1..Calls /\ a.conn \in 1..Sessions
      /\ \A r \in OnTheWay : ~Mount(r) => r.conn \in 1..Sessions
      /\ Coming \subseteq Answers /\ replies \subseteq Coming
      /\ \A s \in 1..Sessions : Last(s) # None => Last(s) \in Answers
      /\ Lifetime \in Nat
  BY Typed, Constants DEF Coming
<1>5. \A s : Last(s)' = Last(s)
  BY <1>3 DEF Last
<1>6. \A r : Ahead(r)' <=> Ahead(r)
  BY <1>5 DEF Ahead
<1>7. ASSUME NEW r \in OnTheWay' PROVE RequestOK(r)'
  <2>1. r \in Requests /\ r.id + Lifetime > id /\ RequestOK(r) /\ (~Mount(r) => r.conn \in 1..Sessions)
    BY <1>3, <1>4 DEF Alive, NumbersInv, QueueInv
  <2>2. r.id <= id /\ ~Mount(r)
    BY <2>1, <1>1, <1>4 DEF RequestOK
  <2>3. UnheardOK(r)'
    BY <2>1, <2>2, <1>3, <1>5, <1>6 DEF RequestOK, UnheardOK
  <2>4. sessions'[r.conn].state # "new" /\ r.conn # conn' /\ ~(r.id > mountId')
    BY <2>1, <2>2, <1>1, <1>3, <1>4 DEF RequestOK
  <2>5. r.id <= id' /\ id' <= r.id + Lifetime /\ r.id # id'
    BY <2>1, <2>2, <1>3, <1>4
  <2> QED
    BY <2>2, <2>3, <2>4, <2>5 DEF RequestOK, Mount
<1>8. ASSUME NEW r, NEW q, OrderOK(r, q) PROVE OrderOK(r, q)'
  BY <1>8, <1>6 DEF OrderOK, Mount
<1>9. QueueInv'
  BY <1>3, <1>7, <1>8 DEF NumbersInv, QueueInv
<1>10. SessionInv'
  BY <1>3, <1>4, <1>5 DEF NumbersInv, SessionInv
<1>11. RunsInv'
  BY <1>3, <1>4 DEF NumbersInv, RunsInv, Mount
<1>12. ASSUME NEW a \in Coming' PROVE ReplyOK(a)'
  <2>1. a \in Answers /\ a.id + Lifetime > id /\ ReplyOK(a)
    BY <1>3, <1>4 DEF Alive, NumbersInv
  <2>2. a.id <= id /\ ~Mount(a)
    BY <2>1, <1>1, <1>4 DEF ReplyOK
  <2>3. a.id <= id' /\ id' <= a.id + Lifetime /\ a.conn # conn'
    BY <2>1, <2>2, <1>3, <1>4
  <2> QED
    BY <2>1, <2>2, <2>3, <1>3, <1>5 DEF ReplyOK, Mount
<1> QED
  BY <1>9, <1>10, <1>11, <1>12 DEF NumbersInv

LEMMA NumbersRequesting ==
  ASSUME Known, NumbersInv, NEW cmd \in Commands \ {"MOUNT"}, Requesting(cmd)
  PROVE  NumbersInv'
<1>1. Begin(cmd, conn, seq) /\ mountId' = mountId /\ mounted
  BY DEF Requesting
<1>2. TypeOK /\ cmd \in Commands /\ conn \in 0..Sessions /\ seq \in Nat
  BY DEF Known, TypeOK
<1>3. /\ id' = id + 1 /\ id' \in 1..Calls /\ seq' = seq + 1 /\ conn' = conn /\ again' = 0
      /\ req'.id = id' /\ req'.seq = seq' /\ req'.cmd = cmd /\ req'.conn = conn
      /\ \A r \in OnTheWay' : r \in OnTheWay /\ r \in Requests /\ Alive(r)
      /\ \A r, q \in Requests : Follows(r, q)' => Follows(r, q)
      /\ replies' \subseteq replies /\ Coming' = replies' /\ \A a \in replies' : Alive(a)
      /\ sessions' = sessions /\ runs' = runs
  BY <1>1, <1>2, Begun DEF serverVars
<1>4. /\ id \in Nat /\ mountId \in Nat /\ again \in 0..Agains
      /\ \A r \in Requests : r.id \in 1..Calls /\ r.seq \in Nat
      /\ \A a \in Answers : a.id \in 1..Calls /\ a.seq \in Nat
      /\ Coming \subseteq Answers /\ replies \subseteq Coming
      /\ \A s \in 1..Sessions : Last(s) # None => Last(s) \in Answers
      /\ Lifetime \in Nat /\ Agains \in Nat
  BY Typed, Constants DEF Coming
<1>5. \A s : Last(s)' = Last(s)
  BY <1>3 DEF Last
<1>6. \A r : Ahead(r)' <=> Ahead(r)
  BY <1>5 DEF Ahead
<1>7. ASSUME NEW x, x.id \in Nat, x.seq \in Nat, Spread(x) PROVE Spread(x)'
  <2>1. PICK k \in Int : k = id - x.id
    BY <1>4, <1>7
  <2>2. id' - x.id = k + 1
    BY <2>1, <1>3, <1>4, <1>7
  <2>3. seq - x.seq <= Room(k) + again
    BY <2>1, <1>7 DEF Spread
  <2>4. Room(k + 1) = Room(k) + Agains + 1 /\ Room(k) \in Int
    BY RoomGrows
  <2>5. seq' - x.seq <= Room(k + 1) + again'
    BY <2>3, <2>4, <1>2, <1>3, <1>4, <1>7
  <2> QED
    BY <2>2, <2>5 DEF Spread
<1>8. ASSUME NEW r \in OnTheWay' PROVE RequestOK(r)'
  <2>1. r \in Requests /\ r.id + Lifetime > id /\ RequestOK(r) /\ r.id \in Nat /\ r.seq \in Nat
    BY <1>3, <1>4 DEF Alive, NumbersInv, QueueInv
  <2>2. r.id <= id' /\ id' <= r.id + Lifetime /\ r.id # id'
    BY <2>1, <1>3, <1>4 DEF RequestOK
  <2>3. UnheardOK(r) => UnheardOK(r)'
    BY <1>3, <1>5, <1>6 DEF UnheardOK
  <2>4. CurrentOK(r) => CurrentOK(r)'
    <3>1. SUFFICES ASSUME CurrentOK(r) PROVE CurrentOK(r)'
      OBVIOUS
    <3>2. Spread(r)'
      BY <3>1, <2>1, <1>7 DEF CurrentOK
    <3>3. r.seq <= seq /\ (Ahead(r) => seq - r.seq = id - r.id)
      BY <3>1 DEF CurrentOK
    <3>4. r.seq <= seq' /\ r.seq # seq' /\ (Ahead(r) => seq' - r.seq = id' - r.id)
      BY <3>3, <2>1, <1>2, <1>3, <1>4
    <3> QED
      BY <3>2, <3>4, <1>6 DEF CurrentOK
  <2> QED
    BY <2>1, <2>2, <2>3, <2>4, <1>1, <1>3 DEF RequestOK, Mount
<1>9. ASSUME NEW r, NEW q, OrderOK(r, q) PROVE OrderOK(r, q)'
  BY <1>9, <1>6 DEF OrderOK, Mount
<1>10. QueueInv'
  BY <1>3, <1>8, <1>9 DEF NumbersInv, QueueInv
<1>11. ASSUME NEW a \in Answers, LastOK(a) PROVE LastOK(a)'
  <2>1. a.id \in Nat /\ a.seq \in Nat
    BY <1>4
  <2> QED
    BY <2>1, <1>1, <1>2, <1>3, <1>4, <1>11 DEF LastOK
<1>12. SessionInv'
  BY <1>3, <1>4, <1>5, <1>11 DEF NumbersInv, SessionInv
<1>13. RunsInv'
  BY <1>3, <1>4 DEF NumbersInv, RunsInv
<1>14. ASSUME NEW a \in Coming' PROVE ReplyOK(a)'
  <2>1. a \in Answers /\ a.id + Lifetime > id /\ ReplyOK(a) /\ a.id \in Nat /\ a.seq \in Nat
    BY <1>3, <1>4 DEF Alive, NumbersInv
  <2>2. a.id <= id' /\ id' <= a.id + Lifetime
    BY <2>1, <1>3, <1>4 DEF ReplyOK
  <2>3. Spread(a) => Spread(a)'
    BY <2>1, <1>7
  <2> QED
    BY <2>1, <2>2, <2>3, <1>1, <1>3, <1>5 DEF ReplyOK, Mount
<1> QED
  BY <1>10, <1>12, <1>13, <1>14 DEF NumbersInv

\* The server has answered fewer than a turn of the byte ago: it is what the code takes
\* for granted of a session in use.
Heard ==
  conn # 0 /\ Last(conn) # None => id < Last(conn).id + SeqMod - 1

LEMMA NumbersSend ==
  ASSUME Known, NumbersInv, Heard, Send
  PROVE  NumbersInv'
<1>1. /\ pc = "send" /\ pc' = "wait" /\ rx' = None
      /\ seq' = seq /\ id' = id /\ mountId' = mountId /\ again' = again /\ conn' = conn
      /\ sessions' = sessions /\ runs' = runs /\ req' = req /\ replies' = replies
  BY DEF Send, serverVars
<1>2. PICK copies \in 0..2 : requests' = requests \o [i \in 1..copies |-> req]
  BY DEF Send
<1>3. /\ id \in Nat /\ mountId \in Nat /\ again \in 0..Agains /\ conn \in 0..Sessions /\ seq \in Nat
      /\ req \in Requests /\ req.id = id /\ req.seq = seq /\ req.conn = conn
      /\ \A r \in Requests : r.id \in 1..Calls /\ r.seq \in Nat
      /\ \A r \in OnTheWay : ~Mount(r) => r.conn \in 1..Sessions
      /\ OnTheWay \subseteq Requests
      /\ Lifetime \in Nat /\ Agains \in Nat /\ SeqMod \in Nat
  BY <1>1, Typed, Constants DEF Asking
<1>4. /\ Mount(req) => conn = 0 /\ seq = 1 /\ id = mountId
      /\ ~Mount(req) => conn \in 1..Sessions /\ id > mountId
  BY <1>1 DEF Known, ClientInv, Asking
<1>5. /\ \A r \in OnTheWay' : (r \in OnTheWay /\ r \in Requests) \/ r = req
      /\ \A r, q \in Requests :
           Follows(r, q)' => Follows(r, q) \/ (q = req /\ (r \in OnTheWay \/ r = req))
  BY <1>2, <1>3, Queued DEF Known, TypeOK
<1>6. (\A s : Last(s)' = Last(s)) /\ Coming' = replies /\ Asking /\ Asking'
  BY <1>1 DEF Last, Coming, Asking
<1>7. \A r : (Ahead(r)' <=> Ahead(r)) /\ (Spread(r)' <=> Spread(r))
  BY <1>1, <1>6 DEF Ahead, Spread
<1>8. ASSUME NEW r, RequestOK(r) PROVE RequestOK(r)'
  <2>1. CurrentOK(r) => CurrentOK(r)'
    BY <1>1, <1>6, <1>7 DEF CurrentOK
  <2>2. UnheardOK(r) => UnheardOK(r)'
    BY <1>1, <1>6, <1>7 DEF UnheardOK
  <2> QED
    BY <1>1, <1>6, <1>8, <2>1, <2>2 DEF RequestOK, Mount
<1>9. RequestOK(req)
  <2>1. Spread(req)
    <3>1. id - req.id = 0 /\ seq - req.seq = 0
      BY <1>3
    <3> QED
      BY <3>1, <1>3, RoomGrows DEF Spread
  <2>2. CurrentOK(req)
    BY <2>1, <1>3 DEF CurrentOK
  <2>3. ~Mount(req) => sessions[req.conn].state # "new"
    BY <1>3, <1>4 DEF NumbersInv, SessionInv
  <2>4. ~Mount(req) => UnheardOK(req)
    <3>1. SUFFICES ASSUME ~Mount(req) PROVE UnheardOK(req)
      OBVIOUS
    <3>2. Ahead(req) => runs[req.id] = 0
      BY <3>1, <1>3, <1>6 DEF NumbersInv, RunsInv
    <3>3. CASE Last(conn) = None
      BY <3>2, <3>3, <1>3 DEF UnheardOK
    <3>4. ASSUME NEW a \in Answers, a = Last(conn), a # None PROVE UnheardOK(req)
      <4>1. LastOK(a)
        BY <3>1, <3>4, <1>4 DEF NumbersInv, SessionInv
      <4>2. id < a.id + SeqMod - 1
        BY <3>1, <3>4, <1>4, <1>3 DEF Heard
      <4>3. a.id \in Nat /\ a.seq \in Nat
        BY DEF Answers
      <4>4. a.seq <= seq /\ seq < a.seq + SeqMod
        BY <4>1, <4>2, <4>3, <1>3 DEF LastOK
      <4>5. a.seq = seq => a.id = id /\ a.cmd = req.cmd
        BY <4>1, <1>6 DEF LastOK
      <4> QED
        BY <3>2, <3>4, <4>4, <4>5, <1>3 DEF UnheardOK
    <3>5. Last(conn) # None => Last(conn) \in Answers
      BY <3>1, <1>4, Typed
    <3> QED
      BY <3>3, <3>4, <3>5
  <2> QED
    BY <1>3, <1>4, <2>2, <2>3, <2>4 DEF RequestOK
<1>10. ASSUME NEW r, NEW q, OrderOK(r, q) PROVE OrderOK(r, q)'
  BY <1>10, <1>7 DEF OrderOK, Mount
<1>11. ASSUME NEW r \in OnTheWay PROVE OrderOK(r, req)
  <2>1. r \in Requests /\ RequestOK(r) /\ r.id \in Nat /\ r.seq \in Nat
    BY <1>3 DEF NumbersInv, QueueInv
  <2>2. r.id <= req.id /\ (r.id = req.id => r.cmd = req.cmd /\ r.conn = req.conn)
    BY <2>1, <1>3, <1>6 DEF RequestOK
  <2>3. ASSUME ~Mount(r), r.conn = conn
        PROVE  ~Mount(req) /\ CurrentOK(r)
    BY <2>1, <2>3, <1>3, <1>4 DEF RequestOK
  <2> QED
    BY <2>2, <2>3, <1>3, <1>6 DEF OrderOK, CurrentOK
<1>12. OrderOK(req, req)
  BY <1>3 DEF OrderOK
<1>13. QueueInv'
  BY <1>3, <1>5, <1>8, <1>9, <1>10, <1>11, <1>12 DEF NumbersInv, QueueInv
<1>14. ASSUME NEW a, LastOK(a) PROVE LastOK(a)'
  BY <1>1, <1>6, <1>14 DEF LastOK
<1>15. SessionInv'
  BY <1>1, <1>6, <1>14 DEF NumbersInv, SessionInv
<1>16. RunsInv'
  BY <1>1, <1>6, <1>7 DEF NumbersInv, RunsInv, Mount
<1>17. ASSUME NEW a \in Coming' PROVE ReplyOK(a)'
  <2>1. ReplyOK(a)
    BY <1>6 DEF NumbersInv, Coming
  <2>2. Mount(req) => \A r \in OnTheWay' : r \in OnTheWay \/ Mount(r)
    BY <1>5
  <2> QED
    BY <2>1, <2>2, <1>1, <1>6, <1>7 DEF ReplyOK, Mount
<1> QED
  BY <1>13, <1>15, <1>16, <1>17 DEF NumbersInv

-----------------------------------------------------------------------------
(* How many late answers one wait can hear.                                *)

StaleInv ==
  /\ Len(requests) <= Outgoing
  /\ IsFiniteSet(replies) /\ Cardinality(replies) <= Incoming
  /\ pc = "wait" =>
       stale + Len(requests) + Cardinality(replies) + (IF rx = None THEN 0 ELSE 1)
         <= Outgoing + Incoming

LEMMA StaleInit == Init => StaleInv
BY FS_EmptySet, Constants DEF Init, StaleInv

LEMMA StaleStep ==
  ASSUME Known, StaleInv, [Next]_vars
  PROVE  StaleInv'
<1>1. /\ Len(requests) \in Nat /\ Cardinality(replies) \in Nat /\ stale \in Nat
      /\ Outgoing \in Nat /\ Incoming \in Nat
  BY FS_CardinalityType, Constants DEF Known, TypeOK, StaleInv
<1>2. ASSUME pc' # "wait", Len(requests') <= Len(requests), Len(requests') \in Nat,
             replies' \subseteq replies
      PROVE  StaleInv'
  <2>1. replies' \in SUBSET replies
    BY <1>2
  <2>2. IsFiniteSet(replies') /\ Cardinality(replies') <= Cardinality(replies)
    BY <2>1, FS_Subset DEF StaleInv
  <2>3. Cardinality(replies') \in Nat
    BY <2>2, FS_CardinalityType
  <2> QED
    BY <1>1, <1>2, <2>2, <2>3 DEF StaleInv
<1>3. CASE Program \/ NextRequest
  <2>1. PICK cmd \in Commands, c \in 0..Sessions, s \in Nat : Begin(cmd, c, s)
    <3>1. Mounting => Begin("MOUNT", 0, 0)
      BY DEF Mounting, BeginMount
    <3>2. "MOUNT" \in Commands /\ 0 \in 0..Sessions /\ conn \in 0..Sessions /\ seq \in Nat
      BY Constants DEF Commands, Known, TypeOK
    <3> QED
      BY <1>3, <3>1, <3>2, Beginnings DEF Requesting
  <2>2. /\ pc' = "send" /\ requests' \in Seq(Requests) /\ Len(requests') <= Len(requests)
        /\ replies' \subseteq replies
    BY <2>1, Begun DEF Known
  <2> QED
    BY <2>2, <1>2
<1>4. CASE Send
  <2>1. /\ pc' = "wait" /\ stale' = 0 /\ rx' = None /\ replies' = replies
    BY <1>4 DEF Send
  <2>2. PICK copies \in 0..2 : Len(requests) + copies <= Outgoing
                               /\ requests' = requests \o [i \in 1..copies |-> req]
    BY <1>4 DEF Send
  <2>3. req \in Requests /\ requests \in Seq(Requests)
    BY <1>4 DEF Known, TypeOK, ClientInv, Asking, Send
  <2>4. Len(requests') = Len(requests) + copies
    BY <2>2, <2>3, Queued
  <2> QED
    BY <1>1, <2>1, <2>2, <2>4 DEF StaleInv
<1>5. CASE Listen
  <2>1. /\ pc = "wait" /\ rx # None /\ rx' = None /\ stale' = stale + 1
        /\ requests' = requests /\ replies' = replies
    BY <1>5 DEF Listen
  <2> QED
    BY <1>1, <2>1 DEF StaleInv
<1>6. CASE NoAnswer \/ Again \/ Finish
  <2>1. requests' = requests /\ replies' = replies /\ pc' # "wait"
    BY <1>6 DEF NoAnswer, TryAgain, Again, Finish, Return
  <2> QED
    BY <1>1, <1>2, <2>1
<1>7. CASE Serve
  <2>1. Len(requests') = Len(requests) - 1 /\ rx' = rx /\ stale' = stale /\ pc' = pc
    BY <1>7, Served
  <2>2. \E a : replies' = replies \/ (replies' = replies \cup {a} /\ Cardinality(replies') <= Incoming)
    <3>1. (\E a : Post(a)) \/ replies' = replies
      BY <1>7, Servings DEF ServedMount, Repeated, Ran, Ignored
    <3> QED
      BY <3>1, Posted
  <2>3. PICK a : replies' = replies \/ (replies' = replies \cup {a} /\ Cardinality(replies') <= Incoming)
    BY <2>2
  <2>4. /\ IsFiniteSet(replies') /\ Cardinality(replies') <= Incoming
        /\ Cardinality(replies') \in Nat /\ Cardinality(replies') <= Cardinality(replies) + 1
    <3>1. CASE replies' = replies
      BY <3>1, <1>1 DEF StaleInv
    <3>2. CASE replies' = replies \cup {a} /\ Cardinality(replies') <= Incoming
      <4>1. IsFiniteSet(replies \cup {a}) /\ Cardinality(replies \cup {a}) \in
              {Cardinality(replies), Cardinality(replies) + 1}
        BY FS_AddElement DEF StaleInv
      <4> QED
        BY <4>1, <3>2, <1>1
    <3> QED
      BY <2>3, <3>1, <3>2
  <2> QED
    BY <1>1, <2>1, <2>4 DEF StaleInv
<1>8. CASE OnNfsUdp
  <2>1. PICK a \in replies : rx' = a /\ replies' = replies \ {a}
    BY <1>8 DEF OnNfsUdp
  <2>2. pc' = pc /\ stale' = stale /\ requests' = requests
    BY <1>8 DEF OnNfsUdp, clientVars
  <2>3. IsFiniteSet(replies') /\ Cardinality(replies') = Cardinality(replies) - 1
    BY <2>1, FS_RemoveElement DEF StaleInv
  <2> QED
    BY <1>1, <2>2, <2>3 DEF StaleInv
<1>9. CASE UNCHANGED vars
  BY <1>9 DEF vars, clientVars, networkVars, StaleInv
<1> QED
  BY <1>3, <1>4, <1>5, <1>6, <1>7, <1>8, <1>9 DEF Next, Client

-----------------------------------------------------------------------------
(* The answer taken is the server's to the request in hand.                *)

LEMMA AcceptedMount ==
  ASSUME Known, NumbersInv, pc = "wait", rx # None, Accepted(rx), Mount(req)
  PROVE  ReplyOK(rx) /\ rx.id = id /\ rx.status = "ok" /\ runs[id] # 0
<1>1. rx \in Coming /\ rx.status = "ok" /\ Mount(rx)
  BY AcceptedCommand DEF Mount
<1>2. ReplyOK(rx)
  BY <1>1 DEF NumbersInv
<1>3. mountId = id
  BY DEF Known, ClientInv, Asking
<1> QED
  BY <1>1, <1>2, <1>3 DEF ReplyOK

LEMMA AcceptedAnswer ==
  ASSUME Outgoing + Incoming <= Stales,
         Known, NumbersInv, StaleInv, pc = "wait", rx # None, Accepted(rx), ~Mount(req)
  PROVE  /\ rx = Last(conn) /\ conn \in 1..Sessions /\ rx.id = id /\ rx.seq = seq
         /\ LastOK(rx)
         /\ rx.status # "again" => runs[id] # 0
         /\ rx.status = "again" => runs[id] = 0
<1>1. rx \in Answers /\ rx \in Coming /\ rx.cmd = req.cmd /\ Byte(rx.seq) = Byte(req.seq)
  BY AcceptedCommand
<1>2. stale # Stales
  <2>1. /\ Len(requests) \in Nat /\ Cardinality(replies) \in Nat /\ stale \in Nat
        /\ stale + Len(requests) + Cardinality(replies) + 1 <= Outgoing + Incoming
    BY FS_CardinalityType DEF Known, TypeOK, StaleInv
  <2> QED
    BY <2>1, Constants
<1>3. rx.conn = conn
  BY <1>2 DEF Accepted, Late, Mount
<1>4. /\ ReplyOK(rx) /\ ~Mount(rx)
  BY <1>1 DEF NumbersInv, Mount
<1>5. /\ id \in Nat /\ seq \in Nat /\ again \in 0..Agains /\ rx.id \in Nat /\ rx.seq \in Nat
      /\ req.seq = seq /\ conn \in 1..Sessions /\ Lifetime \in Nat /\ SeqMod \in Nat /\ Agains \in Nat
  BY <1>1, <1>3, Typed, Constants DEF Asking
<1>6. PICK a \in Answers : a = Last(conn) /\ a # None
  BY <1>3, <1>4, <1>5, Typed DEF ReplyOK
<1>7. LastOK(a) /\ (a.status # "again" => runs[a.id] # 0)
  BY <1>5, <1>6 DEF NumbersInv, SessionInv
<1>8. rx.seq <= a.seq /\ a.seq <= seq /\ a.seq \in Nat
  BY <1>3, <1>4, <1>6, <1>7 DEF ReplyOK, LastOK, Answers
<1>9. PICK k \in 0..Lifetime : k = id - rx.id
  BY <1>4, <1>5 DEF ReplyOK
<1>10. seq - rx.seq <= Room(k) + again
  BY <1>3, <1>4, <1>9 DEF ReplyOK, Spread
<1>11. Room(k) + Agains < SeqMod /\ Room(k) \in Int
  BY RoomEnough, RoomGrows
<1>12. seq < rx.seq + SeqMod /\ rx.seq <= seq
  BY <1>5, <1>8, <1>10, <1>11
<1>13. rx.seq = seq
  BY <1>1, <1>5, <1>12, SameByte
<1>14. a.seq = seq
  BY <1>5, <1>8, <1>13
<1>15. rx = a
  BY <1>3, <1>4, <1>6, <1>13, <1>14 DEF ReplyOK
<1>16. a.id = id
  BY <1>7, <1>14 DEF LastOK, Asking
<1> QED
  BY <1>5, <1>6, <1>7, <1>13, <1>15, <1>16 DEF LastOK

LEMMA NumbersAgain ==
  ASSUME Outgoing + Incoming <= Stales, Known, NumbersInv, StaleInv, Again
  PROVE  NumbersInv'
<1>1. /\ pc = "wait" /\ rx # None /\ Accepted(rx) /\ rx.status = "again"
      /\ again' = again + 1 /\ seq' = seq + 1 /\ pc' = "send"
      /\ conn' = conn /\ id' = id /\ mountId' = mountId
      /\ requests' = requests /\ replies' = replies /\ sessions' = sessions /\ runs' = runs
  BY DEF Again, NextSeq, serverVars
<1>2. ~Mount(req)
  BY KnownAgain
<1>3. /\ req' = [req EXCEPT !.seq = seq + 1] /\ req \in Requests
  BY <1>1, Typed DEF Again, NextSeq, Asking
<1>4. req'.seq = seq' /\ req'.cmd = req.cmd /\ req'.conn = req.conn /\ req'.id = req.id
  BY <1>1, <1>3 DEF Requests
<1>5. /\ rx = Last(conn) /\ conn \in 1..Sessions /\ rx.id = id /\ rx.seq = seq
      /\ runs[id] = 0 /\ LastOK(rx)
  BY <1>1, <1>2, AcceptedAnswer
<1>6. /\ id \in Nat /\ mountId \in Nat /\ seq \in Nat /\ again \in 0..Agains /\ again \in Nat
      /\ \A r \in Requests : r.id \in Nat /\ r.seq \in Nat
      /\ \A a \in Answers : a.id \in Nat /\ a.seq \in Nat
      /\ OnTheWay \subseteq Requests /\ Coming \subseteq Answers /\ replies \subseteq Coming
      /\ Asking /\ req.conn = conn
  BY <1>1, Typed, Constants DEF Coming, Asking
<1>7. /\ \A s : Last(s)' = Last(s)
      /\ OnTheWay' = OnTheWay /\ \A r, q \in Requests : Follows(r, q)' <=> Follows(r, q)
      /\ Coming' = replies
  BY <1>1, SameQueue DEF Last, Coming
<1>8. \A r : Ahead(r)' <=> Ahead(r)
  BY <1>7 DEF Ahead
<1>9. ASSUME NEW x, x.id \in Nat, x.seq \in Nat, Spread(x) PROVE Spread(x)'
  <2>1. id - x.id \in Int /\ Room(id - x.id) \in Int
    BY <1>6, <1>9, RoomGrows
  <2> QED
    BY <2>1, <1>1, <1>6, <1>9 DEF Spread
<1>10. ASSUME NEW r \in OnTheWay PROVE RequestOK(r)'
  <2>1. RequestOK(r) /\ r.id \in Nat /\ r.seq \in Nat
    BY <1>6 DEF NumbersInv, QueueInv
  <2>2. UnheardOK(r) => UnheardOK(r)'
    BY <1>1, <1>7, <1>8 DEF UnheardOK
  <2>3. ASSUME CurrentOK(r), r.conn = conn PROVE CurrentOK(r)'
    <3>1. r.seq <= seq /\ Spread(r)
      BY <2>3 DEF CurrentOK
    <3>2. ~Ahead(r)
      BY <3>1, <2>1, <2>3, <1>1, <1>5, <1>6 DEF Ahead
    <3>3. r.seq <= seq' /\ r.seq # seq'
      BY <3>1, <2>1, <1>1, <1>6
    <3> QED
      BY <3>1, <3>2, <3>3, <2>1, <1>8, <1>9 DEF CurrentOK
  <2> QED
    BY <2>1, <2>2, <2>3, <1>1, <1>4, <1>6 DEF RequestOK, Mount
<1>11. ASSUME NEW r, NEW q, OrderOK(r, q) PROVE OrderOK(r, q)'
  BY <1>11, <1>8 DEF OrderOK, Mount
<1>12. QueueInv'
  BY <1>7, <1>10, <1>11 DEF NumbersInv, QueueInv
<1>13. ASSUME NEW a \in Answers, a = rx PROVE LastOK(a)'
  <2>1. /\ a.id > mountId /\ a.id = id /\ a.seq = seq /\ runs[a.id] = 0
    BY <1>5, <1>13 DEF LastOK
  <2> QED
    BY <1>1, <2>1, <1>6 DEF LastOK
<1>14. SessionInv'
  <2>1. rx \in Answers
    BY <1>1 DEF Known, TypeOK
  <2>2. PICK a \in Answers : a = rx
    BY <2>1
  <2>3. LastOK(a)' /\ Last(conn) = a
    BY <1>5, <1>13, <2>2
  <2> QED
    BY <1>1, <1>7, <2>3 DEF NumbersInv, SessionInv
<1>15. RunsInv'
  BY <1>1, <1>5 DEF NumbersInv, RunsInv
<1>16. ASSUME NEW a \in Coming' PROVE ReplyOK(a)'
  <2>1. ReplyOK(a) /\ a.id \in Nat /\ a.seq \in Nat
    BY <1>6, <1>7 DEF NumbersInv
  <2>2. Spread(a) => Spread(a)'
    BY <2>1, <1>9
  <2>3. ~Mount(req)'
    BY <1>2, <1>4 DEF Mount
  <2> QED
    BY <2>1, <2>2, <2>3, <1>1, <1>7 DEF ReplyOK, Mount
<1> QED
  BY <1>12, <1>14, <1>15, <1>16 DEF NumbersInv

LEMMA NumbersFinish ==
  ASSUME Known, NumbersInv, Finish
  PROVE  NumbersInv'
<1>1. /\ pc = "wait" /\ rx # None /\ Accepted(rx) /\ rx' = None
      /\ Return(ResultOf(rx), rx.status = "ok", rx)
      /\ UNCHANGED <<seq, req, attempt, again, stale, requests, replies, serverVars, id, mountId, mounts>>
  BY DEF Finish
<1>2. ResultOf(rx) \in Results /\ rx \in Answers
  BY <1>1 DEF ResultOf, Results, Known, TypeOK
<1>3. pc' = "idle" /\ (conn' = conn \/ (Mount(req) /\ conn' = rx.conn))
  BY <1>1, <1>2, Returned
<1>4. /\ OnTheWay' = OnTheWay /\ (\A r, q \in Requests : Follows(r, q)' <=> Follows(r, q))
      /\ Coming' \subseteq Coming /\ ~Asking' /\ sessions' = sessions /\ runs' = runs
  BY <1>1, <1>3, SameQueue DEF Coming, Asking, serverVars
<1>5. CASE conn' = conn
  BY <1>1, <1>4, <1>5, NumbersKept
<1>6. CASE Mount(req) /\ conn' = rx.conn
  <2>1. ReplyOK(rx) /\ Mount(rx)
    BY <1>1, <1>6, AcceptedMount, AcceptedCommand DEF Mount
  <2>2. /\ Last(conn') = None /\ sessions[conn'].state # "new"
        /\ \A r \in OnTheWay : Mount(r) \/ r.conn # conn'
    BY <1>1, <1>6, <2>1 DEF ReplyOK, Asking
  <2>3. mountId = id
    BY <1>1, <1>6 DEF Known, ClientInv, Asking
  <2>4. /\ \A s : Last(s)' = Last(s)
        /\ id' = id /\ mountId' = mountId /\ seq' = seq /\ again' = again
    BY <1>1, <1>4 DEF Last
  <2>5. \A r : (Ahead(r)' <=> Ahead(r)) /\ (Spread(r)' <=> Spread(r))
    BY <2>4 DEF Ahead, Spread
  <2>6. ASSUME NEW r \in OnTheWay PROVE RequestOK(r)'
    <3>1. RequestOK(r) /\ r.id \in Nat /\ id \in Nat
      BY Typed DEF NumbersInv, QueueInv
    <3>2. UnheardOK(r) => UnheardOK(r)'
      BY <1>4, <2>4, <2>5 DEF UnheardOK
    <3>3. ~(r.id > mountId)
      BY <3>1, <2>3 DEF RequestOK
    <3> QED
      BY <3>1, <3>2, <3>3, <1>4, <2>2, <2>4 DEF RequestOK, Mount
  <2>7. ASSUME NEW r, NEW q, OrderOK(r, q) PROVE OrderOK(r, q)'
    BY <2>7, <2>5 DEF OrderOK, Mount
  <2>8. QueueInv'
    BY <1>4, <2>6, <2>7 DEF NumbersInv, QueueInv
  <2>9. SessionInv'
    BY <1>4, <2>2, <2>4 DEF NumbersInv, SessionInv
  <2>10. RunsInv'
    BY <1>4, <2>4 DEF NumbersInv, RunsInv
  <2>11. ASSUME NEW a \in Coming' PROVE ReplyOK(a)'
    <3>1. ReplyOK(a)
      BY <1>4 DEF NumbersInv
    <3>2. ~Mount(a) => a.conn # conn'
      BY <3>1, <2>2 DEF ReplyOK
    <3> QED
      BY <3>1, <3>2, <1>4, <2>4 DEF ReplyOK, Mount
  <2> QED
    BY <2>8, <2>9, <2>10, <2>11 DEF NumbersInv
<1> QED
  BY <1>3, <1>5, <1>6

LEMMA NumbersQuiet ==
  ASSUME Known, NumbersInv, Listen \/ NoAnswer \/ OnNfsUdp \/ UNCHANGED vars
  PROVE  NumbersInv'
<1>1. /\ UNCHANGED <<seq, req, again, requests, sessions, runs, id, mountId, mounts>>
      /\ pc' = pc \/ (pc = "wait" /\ rx' = None)
  <2>1. CASE Listen
    BY <2>1 DEF Listen, serverVars
  <2>2. CASE NoAnswer
    BY <2>2 DEF NoAnswer, TryAgain, serverVars
  <2>3. CASE OnNfsUdp
    BY <2>3 DEF OnNfsUdp, clientVars, serverVars
  <2>4. CASE UNCHANGED vars
    BY <2>4 DEF vars, clientVars, networkVars, serverVars
  <2> QED
    BY <2>1, <2>2, <2>3, <2>4
<1>2. conn' = conn
  <2>1. CASE NoAnswer
    <3>1. pc = "wait" /\ (conn' = conn \/ Return("unknown", FALSE, None))
      BY <2>1 DEF NoAnswer, TryAgain
    <3> QED
      BY <3>1, Returned DEF Results
  <2>2. CASE Listen \/ OnNfsUdp \/ UNCHANGED vars
    BY <2>2 DEF Listen, OnNfsUdp, clientVars, vars
  <2> QED
    BY <2>1, <2>2
<1>3. Coming' \subseteq Coming
  <2>1. CASE OnNfsUdp
    BY <2>1, KnownOnNfsUdp
  <2>2. CASE Listen \/ NoAnswer
    BY <2>2 DEF Listen, NoAnswer, Coming
  <2>3. CASE UNCHANGED vars
    BY <2>3 DEF vars, clientVars, networkVars, Coming
  <2> QED
    BY <2>1, <2>2, <2>3
<1>4. Asking' => Asking
  BY <1>1 DEF Asking
<1> QED
  BY <1>1, <1>2, <1>3, <1>4, SameQueue, NumbersKept

-----------------------------------------------------------------------------
(* The server.                                                             *)

LEMMA NumbersIgnored ==
  ASSUME Known, NumbersInv, Serve, Ignored
  PROVE  NumbersInv'
<1>1. /\ UNCHANGED <<seq, req, again, sessions, runs, id, mountId, mounts, conn, pc>>
      /\ \A r \in OnTheWay' : r \in OnTheWay
      /\ \A r, q \in Requests : Follows(r, q)' => Follows(r, q)
  BY Served DEF Ignored, serverVars
<1>2. Coming' = Coming /\ Asking' = Asking
  BY Served DEF Ignored, Coming, Asking
<1> QED
  BY <1>1, <1>2, NumbersKept

LEMMA NumbersRepeated ==
  ASSUME Known, NumbersInv, Serve, NEW r, r = Head(requests), Repeated(r)
  PROVE  NumbersInv'
<1>1. /\ UNCHANGED <<seq, req, again, sessions, runs, id, mountId, mounts, conn, pc, rx>>
      /\ \A q \in OnTheWay' : q \in OnTheWay
      /\ \A p, q \in Requests : Follows(p, q)' => Follows(p, q)
  BY Served DEF Repeated, serverVars
<1>2. r \in OnTheWay /\ r \in Requests /\ ~Mount(r) /\ r.conn \in 1..Sessions
  BY Served DEF Repeated, Session
<1>3. Post(Last(r.conn)) /\ Last(r.conn) # None /\ Byte(Last(r.conn).seq) = Byte(r.seq)
  BY DEF Repeated, Answered, Last
<1>4. PICK a \in Answers : a = Last(r.conn)
  BY <1>2, <1>3, Typed
<1>5. /\ RequestOK(r) /\ UnheardOK(r) /\ r.seq \in Nat /\ a.seq \in Nat
      /\ r.id \in Nat /\ id \in Nat
  BY <1>2, <1>4, Typed DEF NumbersInv, QueueInv, RequestOK
<1>6. a.seq <= r.seq /\ r.seq < a.seq + SeqMod
  BY <1>3, <1>4, <1>5 DEF UnheardOK
<1>7. a.seq = r.seq
  BY <1>3, <1>4, <1>5, <1>6, SameByte
<1>8. a.id = r.id /\ a.conn = r.conn /\ ~Mount(a)
  BY <1>2, <1>3, <1>4, <1>5, <1>7 DEF UnheardOK, Known
<1>9. ReplyOK(a)
  <2>1. a.id <= id /\ id <= a.id + Lifetime /\ sessions[a.conn].state # "new"
    BY <1>2, <1>5, <1>8 DEF RequestOK
  <2>2. a.status # "again" => runs[a.id] # 0
    BY <1>2, <1>3, <1>4 DEF NumbersInv, SessionInv
  <2>3. a.conn = conn => Spread(a)
    <3>1. a.conn = conn => Spread(r)
      BY <1>2, <1>5, <1>8 DEF RequestOK, CurrentOK
    <3> QED
      BY <3>1, <1>7, <1>8 DEF Spread
  <2> QED
    BY <2>1, <2>2, <2>3, <1>3, <1>4, <1>5, <1>8 DEF ReplyOK
<1>10. \A b \in Coming' : b \in Coming \/ ReplyOK(b)
  <2>1. \A b \in replies' : b \in replies \/ b = a
    BY <1>3, <1>4, Posted
  <2> QED
    BY <2>1, <1>1, <1>9 DEF Coming
<1>11. Asking' = Asking
  BY <1>1 DEF Asking
<1> QED
  BY <1>1, <1>10, <1>11, NumbersKept

LEMMA NumbersServedMount ==
  ASSUME Known, NumbersInv, Serve, NEW r, r = Head(requests), ServedMount(r)
  PROVE  NumbersInv'
<1>1. /\ UNCHANGED <<seq, req, again, id, mountId, mounts, conn, pc, rx>>
      /\ \A q \in OnTheWay' : q \in OnTheWay /\ q \in Requests /\ Follows(r, q)
      /\ \A p, q \in Requests : Follows(p, q)' => Follows(p, q)
  BY Served
<1>2. r \in OnTheWay /\ r \in Requests /\ Mount(r)
  BY Served DEF ServedMount
<1>3. PICK s \in 1..Sessions :
             /\ sessions[s].state = "new"
             /\ sessions' = [sessions EXCEPT ![s].state = "open"]
             /\ Post(Answer(r, s, "ok"))
  BY DEF ServedMount
<1>4. PICK a \in Answers : /\ a = Answer(r, s, "ok") /\ a.conn = s /\ a.id = r.id
                           /\ a.cmd = r.cmd /\ a.status = "ok"
  BY <1>2, AnswerType DEF Statuses
<1>5. /\ id \in Nat /\ mountId \in Nat /\ r.id \in 1..Calls /\ id <= Calls
      /\ r.id = mountId /\ r.id <= id /\ id <= r.id + Lifetime
      /\ \A b \in Answers : b.id \in 1..Calls /\ b.conn \in 1..Sessions
      /\ \A q \in Requests : q.id \in 1..Calls
      /\ \A q \in OnTheWay : Mount(q) \/ q.conn \in 1..Sessions
      /\ Coming \subseteq Answers
      /\ conn \in 0..Sessions
  BY <1>2, Typed DEF NumbersInv, QueueInv, RequestOK
<1>6. runs \in [1..Calls -> Nat] /\ runs' = [runs EXCEPT ![r.id] = @ + 1]
  BY DEF Known, TypeOK, ServedMount
<1>7. \A i \in 1..Calls : runs'[i] = IF i = mountId THEN runs[i] + 1 ELSE runs[i]
  BY <1>5, <1>6
<1>20. \A i \in 1..Calls : runs[i] \in Nat /\ (runs[i] # 0 => runs'[i] # 0)
  BY <1>6, <1>7
<1>21. runs'[r.id] # 0
  BY <1>5, <1>7, <1>20
<1>8. /\ sessions \in [1..Sessions -> [state : {"new", "open", "closed"}, last : Answers \cup {None}]]
      /\ \A t \in 1..Sessions : sessions[t] \in [state : {"new", "open", "closed"}, last : Answers \cup {None}]
  BY DEF Known, TypeOK
<1>9. \A t \in 1..Sessions :
        /\ sessions'[t].state = IF t = s THEN "open" ELSE sessions[t].state
        /\ sessions'[t].last = sessions[t].last
  BY <1>3, <1>8
<1>10. \A t \in 1..Sessions : Last(t)' = Last(t)
  BY <1>9 DEF Last
<1>11. \A x : x.conn \in 1..Sessions => (Ahead(x)' <=> Ahead(x))
  BY <1>10 DEF Ahead
<1>12. \A x : Spread(x)' <=> Spread(x)
  BY <1>1 DEF Spread
<1>13. Asking' = Asking
  BY <1>1 DEF Asking
<1>14. ASSUME NEW q \in OnTheWay' PROVE RequestOK(q)'
  <2>1. RequestOK(q) /\ q \in Requests /\ Follows(r, q) /\ (Mount(q) \/ q.conn \in 1..Sessions)
    BY <1>1, <1>5 DEF NumbersInv, QueueInv
  <2>2. ~Mount(q) => q.id # mountId
    BY <2>1, <1>2, <1>5 DEF NumbersInv, QueueInv, OrderOK, Mount
  <2>3. ASSUME ~Mount(q), UnheardOK(q) PROVE UnheardOK(q)'
    <3>1. q.conn \in 1..Sessions /\ q.id \in 1..Calls /\ q.id # mountId
      BY <2>1, <2>2, <2>3, <1>5
    <3>2. runs'[q.id] = runs[q.id] /\ (Ahead(q)' <=> Ahead(q)) /\ Last(q.conn)' = Last(q.conn)
      BY <3>1, <1>7, <1>10, <1>11
    <3> QED
      BY <2>3, <3>2 DEF UnheardOK
  <2>4. ASSUME ~Mount(q), CurrentOK(q) PROVE CurrentOK(q)'
    BY <2>1, <2>4, <1>1, <1>11, <1>12, <1>13 DEF CurrentOK
  <2>5. ~Mount(q) /\ sessions[q.conn].state # "new" => sessions'[q.conn].state # "new"
    BY <2>1, <1>9
  <2> QED
    BY <2>1, <2>3, <2>4, <2>5, <1>1, <1>13 DEF RequestOK, Mount
<1>15. ASSUME NEW p \in Requests, NEW q \in Requests, Follows(p, q)' PROVE OrderOK(p, q)'
  <2>1. OrderOK(p, q) /\ (Mount(p) \/ p.conn \in 1..Sessions)
    <3>1. p \in OnTheWay
      BY <1>15, <1>1 DEF Follows, OnTheWay
    <3> QED
      BY <3>1, <1>15, <1>1, <1>5 DEF NumbersInv, QueueInv
  <2> QED
    BY <2>1, <1>11 DEF OrderOK, Mount
<1>16. QueueInv'
  BY <1>1, <1>14, <1>15 DEF QueueInv
<1>17. SessionInv'
  <2>1. ASSUME NEW t \in 1..Sessions
        PROVE  /\ sessions'[t].state = "new" => Last(t)' = None
               /\ Last(t)' # None =>
                    /\ Last(t)'.id <= id'
                    /\ Last(t)'.status # "again" => runs'[Last(t)'.id] # 0
                    /\ t = conn' => LastOK(Last(t))'
    <3>1. CASE Last(t) = None
      BY <3>1, <1>10
    <3>2. ASSUME NEW b \in Answers, b = Last(t), b # None PROVE LastOK(b) => LastOK(b)'
      <4>1. b.id \in 1..Calls
        BY <1>5
      <4>2. b.id > mountId => runs'[b.id] = runs[b.id]
        BY <4>1, <1>5, <1>7
      <4> QED
        BY <4>2, <1>1, <1>13 DEF LastOK
    <3>3. Last(t) # None => Last(t) \in Answers
      BY Typed
    <3>4. ASSUME NEW b \in Answers, b = Last(t), b # None
          PROVE  /\ b.id <= id' /\ (b.status # "again" => runs'[b.id] # 0)
                 /\ (t = conn' => LastOK(b)') /\ sessions'[t].state # "new"
      <4>1. /\ b.id <= id /\ (b.status # "again" => runs[b.id] # 0)
            /\ (t = conn => LastOK(b)) /\ sessions[t].state # "new"
        BY <3>4 DEF NumbersInv, SessionInv
      <4> QED
        BY <3>2, <3>4, <4>1, <1>1, <1>5, <1>20, <1>9
    <3> QED
      BY <3>1, <3>3, <3>4, <1>10
  <2>2. conn' # 0 => sessions'[conn'].state # "new"
    BY <1>1, <1>5, <1>9 DEF NumbersInv, SessionInv
  <2> QED
    BY <2>1, <2>2 DEF SessionInv
<1>18. RunsInv'
  <2>1. \A i \in 1..Calls : runs'[i] \in Nat /\ (i > id' => runs'[i] = 0)
    BY <1>1, <1>5, <1>7 DEF NumbersInv, RunsInv
  <2>2. ASSUME Asking, ~Mount(req), Ahead(req)' PROVE runs'[id'] = 0
    <3>1. id > mountId /\ req.conn \in 1..Sessions /\ id \in 1..Calls
      BY <2>2, <1>5, Typed DEF Known, ClientInv
    <3>2. Ahead(req)
      BY <2>2, <3>1, <1>1, <1>10 DEF Ahead
    <3> QED
      BY <2>2, <3>1, <3>2, <1>1, <1>5, <1>7 DEF NumbersInv, RunsInv
  <2> QED
    BY <2>1, <2>2, <1>1, <1>13 DEF RunsInv, Mount
<1>19. ASSUME NEW b \in Coming' PROVE ReplyOK(b)'
  <2>1. b \in Coming \/ b = a
    <3>1. \A c \in replies' : c \in replies \/ c = a
      BY <1>3, <1>4, Posted
    <3> QED
      BY <3>1, <1>1 DEF Coming
  <2>2. CASE b \in Coming
    <3>1. ReplyOK(b) /\ b.conn \in 1..Sessions /\ b.id \in 1..Calls
      BY <2>2, <1>5 DEF NumbersInv
    <3>2. runs[b.id] # 0 => runs'[b.id] # 0
      BY <3>1, <1>20
    <3>3. sessions'[b.conn].state # "new" /\ Last(b.conn)' = Last(b.conn)
      BY <3>1, <1>9, <1>10 DEF ReplyOK
    <3> QED
      BY <3>1, <3>2, <3>3, <1>1, <1>12, <1>13 DEF ReplyOK, Mount
  <2>3. CASE b = a
    <3>1. /\ b.id <= id' /\ id' <= b.id + Lifetime /\ sessions'[b.conn].state # "new"
          /\ runs'[b.id] # 0 /\ Mount(b) /\ b.id = mountId'
      BY <2>3, <1>1, <1>2, <1>4, <1>5, <1>21, <1>9 DEF Mount
    <3>2. Last(b.conn)' = None
      BY <2>3, <1>3, <1>4, <1>10 DEF NumbersInv, SessionInv
    <3>3. \A q \in OnTheWay' : Mount(q) \/ q.conn # b.conn
      BY <2>3, <1>1, <1>3, <1>4 DEF NumbersInv, QueueInv, RequestOK
    <3> QED
      BY <3>1, <3>2, <3>3 DEF ReplyOK, Mount
  <2> QED
    BY <2>1, <2>2, <2>3
<1> QED
  BY <1>16, <1>17, <1>18, <1>19 DEF NumbersInv

LEMMA LifeShort == Lifetime < SeqMod
<1>1. Lifetime \in 0..Lifetime /\ 0 \in 0..Lifetime
  BY Constants
<1>2. (Lifetime + 1) * (Agains + 1) = (Lifetime + 1) * Agains + Lifetime + 1
  BY Constants
<1>3. (Lifetime + 1) * Agains >= 0 /\ (Lifetime + 1) * Agains \in Int
  BY Constants
<1> QED
  BY <1>2, <1>3, Constants

\* A request the server runs was not the last one answered, which has not been passed
\* either: it has not been run.
LEMMA FirstRun ==
  ASSUME Known, NumbersInv, Serve, NEW r, r = Head(requests), NEW status \in Statuses, Ran(r, status)
  PROVE  Ahead(r) /\ runs[r.id] = 0
<1>1. r \in OnTheWay /\ r \in Requests /\ ~Mount(r) /\ r.conn \in 1..Sessions
  BY Served DEF Ran, Session
<1>2. PICK c \in 1..Sessions : c = r.conn
  BY <1>1
<1>3. r.seq \in Nat /\ (Last(c) # None => Last(c) \in Answers) /\ \A b \in Answers : b.seq \in Nat
  BY <1>1, Typed
<1>4. UnheardOK(r)
  BY <1>1 DEF NumbersInv, QueueInv, RequestOK
<1>5. ~(Last(c) # None /\ Byte(Last(c).seq) = Byte(r.seq))
  BY <1>2 DEF Ran, Answered, Last
<1>6. CASE Last(c) # None
  <2>1. Last(c).seq \in Nat /\ Last(c).seq <= r.seq /\ Last(c).seq # r.seq
    BY <1>2, <1>3, <1>4, <1>5, <1>6 DEF UnheardOK
  <2>2. Ahead(r)
    BY <2>1, <1>2, <1>3 DEF Ahead
  <2> QED
    BY <2>2, <1>4 DEF UnheardOK
<1>7. CASE Last(c) = None
  <2>1. Ahead(r)
    BY <1>2, <1>7 DEF Ahead
  <2> QED
    BY <2>1, <1>4 DEF UnheardOK
<1> QED
  BY <1>6, <1>7

LEMMA NumbersRan ==
  ASSUME Known, NumbersInv, Serve, NEW r, r = Head(requests), NEW status \in Statuses, Ran(r, status)
  PROVE  NumbersInv'
<1>1. /\ UNCHANGED <<seq, req, again, id, mountId, mounts, conn, pc, rx>>
      /\ \A q \in OnTheWay' : q \in OnTheWay /\ q \in Requests /\ Follows(r, q)
      /\ \A p, q \in Requests : Follows(p, q)' => Follows(p, q)
  BY Served
<1>2. r \in OnTheWay /\ r \in Requests /\ ~Mount(r) /\ r.conn \in 1..Sessions
  BY Served DEF Ran, Session
<1>3. PICK c \in 1..Sessions : c = r.conn
  BY <1>2
<1>4. PICK a \in Answers : /\ a = Answer(r, c, status) /\ a.conn = c /\ a.id = r.id
                           /\ a.cmd = r.cmd /\ a.status = status /\ a.seq = r.seq
  BY <1>2, AnswerType
<1>5. PICK state \in {"open", "closed"} :
        sessions' = [sessions EXCEPT ![c] = [state |-> state, last |-> a]]
  BY <1>3, <1>4 DEF Ran
<1>6. Post(a) /\ runs' = IF status = "again" THEN runs ELSE [runs EXCEPT ![r.id] = @ + 1]
  BY <1>3, <1>4 DEF Ran
<1>7. /\ id \in Nat /\ mountId \in Nat /\ seq \in Nat /\ r.id \in 1..Calls /\ r.seq \in Nat /\ id <= Calls
      /\ \A b \in Answers : b.id \in 1..Calls /\ b.conn \in 1..Sessions /\ b.seq \in Nat
      /\ \A q \in Requests : q.id \in 1..Calls /\ q.seq \in Nat
      /\ \A q \in OnTheWay : Mount(q) \/ q.conn \in 1..Sessions
      /\ Coming \subseteq Answers
      /\ conn \in 0..Sessions /\ SeqMod \in Nat /\ Lifetime \in Nat
      /\ \A t \in 1..Sessions : Last(t) # None => Last(t) \in Answers
      /\ Asking => req.id = id /\ req.seq = seq /\ req.conn = conn
  BY <1>2, Typed, Constants
<1>8. /\ RequestOK(r) /\ UnheardOK(r) /\ sessions[c].state # "new"
      /\ r.id <= id /\ id <= r.id + Lifetime
      /\ Asking /\ r.id = id => r.cmd = req.cmd /\ r.conn = req.conn
      /\ c = conn <=> r.id > mountId
      /\ c = conn => CurrentOK(r)
  BY <1>2, <1>3 DEF NumbersInv, QueueInv, RequestOK
<1>9. Ahead(r)
  BY FirstRun
<1>10. runs[r.id] = 0
  BY FirstRun
<1>11. \A i \in 1..Calls :
         runs'[i] = IF i = r.id THEN (IF status = "again" THEN 0 ELSE 1) ELSE runs[i]
  <2>1. runs \in [1..Calls -> Nat]
    BY DEF Known, TypeOK
  <2> QED
    BY <2>1, <1>6, <1>7, <1>10
<1>12. \A t \in 1..Sessions :
         /\ Last(t)' = IF t = c THEN a ELSE Last(t)
         /\ sessions[t].state # "new" => sessions'[t].state # "new"
         /\ t # c => sessions'[t].state = sessions[t].state
         /\ sessions'[c].state # "new"
  <2>1. sessions \in [1..Sessions -> [state : {"new", "open", "closed"}, last : Answers \cup {None}]]
    BY DEF Known, TypeOK
  <2> QED
    BY <2>1, <1>5 DEF Last
<1>13. \A x : Spread(x)' <=> Spread(x)
  BY <1>1 DEF Spread
<1>14. Asking' = Asking
  BY <1>1 DEF Asking
<1>15. a # None
  BY NoneAssumption
<1>16. \A x : x.conn = c => (Ahead(x)' => r.seq < x.seq)
  BY <1>4, <1>12, <1>15 DEF Ahead
<1>17. ASSUME NEW x, x.conn \in 1..Sessions, x.seq \in Nat, Ahead(x)' PROVE Ahead(x)
  <2>1. CASE x.conn # c
    BY <2>1, <1>12, <1>17 DEF Ahead
  <2>2. CASE x.conn = c /\ Last(c) # None
    <3>1. r.seq < x.seq /\ Last(c).seq < r.seq /\ Last(c).seq \in Nat
      BY <2>2, <1>3, <1>7, <1>9, <1>16, <1>17 DEF Ahead
    <3> QED
      BY <3>1, <2>2, <1>7, <1>17 DEF Ahead
  <2>3. CASE x.conn = c /\ Last(c) = None
    BY <2>3 DEF Ahead
  <2> QED
    BY <2>1, <2>2, <2>3
<1>18. ASSUME NEW q \in OnTheWay' PROVE RequestOK(q)'
  <2>1. /\ RequestOK(q) /\ q \in Requests /\ OrderOK(r, q) /\ (Mount(q) \/ q.conn \in 1..Sessions)
        /\ q.id \in 1..Calls /\ q.seq \in Nat
    BY <1>1, <1>2, <1>7 DEF NumbersInv, QueueInv
  <2>2. ASSUME ~Mount(q), UnheardOK(q) PROVE UnheardOK(q)'
    <3>1. q.conn \in 1..Sessions
      BY <2>1, <2>2
    <3>2. CASE q.conn = c
      <4>1. /\ r.seq <= q.seq /\ (r.seq = q.seq => r.id = q.id /\ r.cmd = q.cmd)
            /\ q.seq - r.seq = q.id - r.id
        BY <2>1, <3>2, <1>2, <1>3, <1>9 DEF OrderOK
      <4>2. q.seq < r.seq + SeqMod
        <5>1. CASE Last(c) = None
          <6>1. q.id <= id
            BY <2>1 DEF RequestOK
          <6> QED
            BY <4>1, <6>1, <2>1, <1>7, <1>8, LifeShort
        <5>2. CASE Last(c) # None
          <6>1. q.seq < Last(c).seq + SeqMod /\ Last(c).seq < r.seq /\ Last(c).seq \in Nat
            BY <5>2, <3>2, <2>2, <1>3, <1>7, <1>9 DEF UnheardOK, Ahead
          <6> QED
            BY <6>1, <2>1, <1>7
        <5> QED
          BY <5>1, <5>2
      <4>3. Ahead(q)' => runs'[q.id] = 0
        <5>1. SUFFICES ASSUME Ahead(q)' PROVE runs'[q.id] = 0
          OBVIOUS
        <5>2. q.id # r.id
          BY <5>1, <4>1, <3>2, <2>1, <1>7, <1>16
        <5>3. runs[q.id] = 0
          BY <5>1, <3>1, <2>1, <2>2, <1>17 DEF UnheardOK
        <5> QED
          BY <5>2, <5>3, <2>1, <1>11
      <4>4. Last(q.conn)' = a
        BY <3>2, <1>12
      <4> QED
        BY <4>1, <4>2, <4>3, <4>4, <1>4 DEF UnheardOK
    <3>3. CASE q.conn # c
      <4>1. q.id # r.id
        BY <2>1, <3>3, <1>3 DEF OrderOK
      <4>2. runs'[q.id] = runs[q.id] /\ Last(q.conn)' = Last(q.conn)
        BY <4>1, <3>1, <3>3, <2>1, <1>11, <1>12
      <4> QED
        BY <4>2, <3>1, <2>1, <2>2, <1>17 DEF UnheardOK
    <3> QED
      BY <3>2, <3>3
  <2>3. ASSUME ~Mount(q), CurrentOK(q) PROVE CurrentOK(q)'
    BY <2>1, <2>3, <1>1, <1>13, <1>14, <1>17 DEF CurrentOK
  <2>4. ~Mount(q) /\ sessions[q.conn].state # "new" => sessions'[q.conn].state # "new"
    BY <2>1, <1>12
  <2> QED
    BY <2>1, <2>2, <2>3, <2>4, <1>1, <1>14 DEF RequestOK, Mount
<1>19. ASSUME NEW p \in Requests, NEW q \in Requests, Follows(p, q)' PROVE OrderOK(p, q)'
  <2>1. OrderOK(p, q) /\ (Mount(p) \/ p.conn \in 1..Sessions) /\ p.seq \in Nat
    <3>1. p \in OnTheWay
      BY <1>19, <1>1 DEF Follows, OnTheWay
    <3> QED
      BY <3>1, <1>19, <1>1, <1>7 DEF NumbersInv, QueueInv
  <2>2. ~Mount(p) /\ Ahead(p)' => Ahead(p)
    BY <2>1, <1>17
  <2> QED
    BY <2>1, <2>2 DEF OrderOK, Mount
<1>20. QueueInv'
  BY <1>1, <1>18, <1>19 DEF QueueInv
<1>21. ASSUME NEW t \in 1..Sessions, Last(t)' # None
       PROVE  /\ Last(t)'.id <= id'
              /\ Last(t)'.status # "again" => runs'[Last(t)'.id] # 0
              /\ t = conn' => LastOK(Last(t))'
  <2>1. CASE t = c
    <3>1. c = conn => LastOK(a)'
      <4>1. SUFFICES ASSUME c = conn PROVE LastOK(a)'
        OBVIOUS
      <4>2. /\ r.seq <= seq /\ seq - r.seq = id - r.id /\ r.id > mountId
            /\ (Asking /\ r.seq = seq => r.id = id)
        BY <4>1, <1>8, <1>9 DEF CurrentOK
      <4>3. Asking /\ r.seq = seq => r.cmd = req.cmd
        BY <4>2, <1>8
      <4>4. status = "again" => runs'[r.id] = 0
        BY <1>7, <1>11
      <4>5. seq - r.seq <= id - r.id + 1
        BY <4>2, <1>7
      <4> QED
        BY <4>2, <4>3, <4>4, <4>5, <1>1, <1>4, <1>14 DEF LastOK
    <3> QED
      BY <2>1, <3>1, <1>1, <1>4, <1>7, <1>8, <1>11, <1>12
  <2>2. CASE t # c
    <3>1. PICK b \in Answers : b = Last(t) /\ b # None /\ Last(t)' = b
      BY <1>21, <2>2, <1>7, <1>12
    <3>2. b.id <= id /\ (b.status # "again" => runs[b.id] # 0) /\ (t = conn => LastOK(b))
      BY <3>1 DEF NumbersInv, SessionInv
    <3>3. b.id \in 1..Calls
      BY <1>7
    <3>4. b.status # "again" => runs'[b.id] # 0
      BY <3>2, <3>3, <1>10, <1>11
    <3>5. t = conn => LastOK(b)'
      <4>1. SUFFICES ASSUME t = conn PROVE LastOK(b)'
        OBVIOUS
      <4>2. b.id # r.id
        BY <4>1, <3>2, <2>2, <1>8 DEF LastOK
      <4>3. runs'[b.id] = runs[b.id]
        BY <4>2, <3>3, <1>11
      <4> QED
        BY <4>1, <4>3, <3>2, <1>1, <1>14 DEF LastOK
    <3> QED
      BY <3>1, <3>2, <3>4, <3>5, <1>1
  <2> QED
    BY <2>1, <2>2
<1>22. SessionInv'
  <2>1. \A t \in 1..Sessions : sessions'[t].state = "new" => Last(t)' = None
    BY <1>12 DEF NumbersInv, SessionInv
  <2>2. conn' # 0 => sessions'[conn'].state # "new"
    BY <1>1, <1>7, <1>12 DEF NumbersInv, SessionInv
  <2> QED
    BY <2>1, <2>2, <1>21 DEF SessionInv
<1>23. RunsInv'
  <2>1. \A i \in 1..Calls : runs'[i] \in Nat /\ (i > id' => runs'[i] = 0)
    BY <1>1, <1>7, <1>8, <1>11 DEF NumbersInv, RunsInv
  <2>2. ASSUME Asking, ~Mount(req), Ahead(req)' PROVE runs'[id'] = 0
    <3>1. req.conn \in 1..Sessions /\ id \in 1..Calls /\ req.seq = seq /\ req.conn = conn
      BY <2>2, <1>7, Typed DEF Known, ClientInv
    <3>2. PICK q \in Requests : q = req
      BY <2>2, Typed
    <3>3. Ahead(q)' /\ q.conn \in 1..Sessions /\ q.seq \in Nat
      BY <2>2, <3>1, <3>2, <1>1, <1>7 DEF Ahead
    <3>4. Ahead(req)
      BY <3>2, <3>3, <1>17
    <3>5. runs[id] = 0
      BY <2>2, <3>4 DEF NumbersInv, RunsInv
    <3>6. id # r.id
      <4>1. SUFFICES ASSUME id = r.id PROVE FALSE
        OBVIOUS
      <4>2. c = conn
        BY <4>1, <2>2, <3>1, <1>3, <1>8
      <4>3. seq - r.seq = 0
        BY <4>1, <4>2, <1>7, <1>8, <1>9 DEF CurrentOK
      <4>4. r.seq < q.seq
        BY <3>1, <3>2, <3>3, <4>2, <1>16
      <4> QED
        BY <3>1, <3>2, <4>3, <4>4, <1>7
    <3> QED
      BY <3>1, <3>5, <3>6, <1>1, <1>11
  <2> QED
    BY <2>1, <2>2, <1>1, <1>14 DEF RunsInv, Mount
<1>24. ASSUME NEW b \in Coming' PROVE ReplyOK(b)'
  <2>1. b \in Coming \/ b = a
    <3>1. \A d \in replies' : d \in replies \/ d = a
      BY <1>6, Posted
    <3> QED
      BY <3>1, <1>1 DEF Coming
  <2>2. CASE b \in Coming
    <3>1. ReplyOK(b) /\ b.conn \in 1..Sessions /\ b.id \in 1..Calls /\ b.seq \in Nat
      BY <2>2, <1>7 DEF NumbersInv
    <3>2. runs[b.id] # 0 => runs'[b.id] # 0
      BY <3>1, <1>10, <1>11
    <3>3. sessions'[b.conn].state # "new"
      BY <3>1, <1>12 DEF ReplyOK
    <3>4. ASSUME Asking, Mount(b), Mount(req) PROVE b.conn # c
      BY <3>1, <3>4, <1>2, <1>3 DEF ReplyOK
    <3>5. CASE b.conn # c
      <4>1. Last(b.conn)' = Last(b.conn)
        BY <3>1, <3>5, <1>12
      <4> QED
        BY <3>1, <3>2, <3>3, <4>1, <1>1, <1>13, <1>14 DEF ReplyOK, Mount
    <3>6. CASE b.conn = c
      <4>1. Last(b.conn)' = a
        BY <3>6, <1>12
      <4>2. ~Mount(b) => b.seq < a.seq
        <5>1. SUFFICES ASSUME ~Mount(b) PROVE b.seq < a.seq
          OBVIOUS
        <5>2. Last(c) # None /\ b.seq <= Last(c).seq
          BY <5>1, <3>1, <3>6 DEF ReplyOK
        <5>3. Last(c).seq < r.seq /\ Last(c).seq \in Nat
          BY <5>2, <1>3, <1>7, <1>9 DEF Ahead
        <5> QED
          BY <5>2, <5>3, <3>1, <1>4, <1>7
      <4>3. ~Mount(b) => b.seq <= a.seq /\ b.seq # a.seq
        BY <4>2, <3>1, <1>4, <1>7
      <4>4. /\ b.id <= id /\ id <= b.id + Lifetime /\ (b.status # "again" => runs[b.id] # 0)
            /\ (Mount(b) => b.id = mountId) /\ (~Mount(b) /\ b.conn = conn => Spread(b))
        BY <3>1 DEF ReplyOK
      <4>5. ~(Asking /\ Mount(b) /\ Mount(req))
        BY <3>4, <3>6
      <4> QED
        BY <3>2, <3>3, <4>1, <4>3, <4>4, <4>5, <1>1, <1>13, <1>14, <1>15 DEF ReplyOK, Mount
    <3> QED
      BY <3>5, <3>6
  <2>3. CASE b = a
    <3>1. /\ b.id <= id' /\ id' <= b.id + Lifetime /\ sessions'[b.conn].state # "new"
          /\ (b.status # "again" => runs'[b.id] # 0) /\ ~Mount(b)
      BY <2>3, <1>1, <1>2, <1>4, <1>7, <1>8, <1>11, <1>12 DEF Mount
    <3>2. Last(b.conn)' = a /\ a # None
      BY <2>3, <1>4, <1>12, <1>15
    <3>3. b.conn = conn => Spread(b)
      <4>1. b.conn = conn => Spread(r)
        BY <2>3, <1>4, <1>8 DEF CurrentOK
      <4> QED
        BY <4>1, <2>3, <1>4 DEF Spread
    <3>4. b.seq <= a.seq
      BY <2>3, <1>7
    <3> QED
      BY <3>1, <3>2, <3>3, <3>4, <2>3, <1>1, <1>13 DEF ReplyOK, Mount
  <2> QED
    BY <2>1, <2>2, <2>3
<1> QED
  BY <1>20, <1>22, <1>23, <1>24 DEF NumbersInv

LEMMA NumbersStep ==
  ASSUME RetryMount = FALSE, Outgoing + Incoming <= Stales,
         Known, NumbersInv, StaleInv, Heard, [Next]_vars
  PROVE  NumbersInv'
<1>1. CASE Program \/ NextRequest
  BY <1>1, Beginnings, NumbersMounting, NumbersRequesting
<1>2. CASE Serve
  BY <1>2, Servings, NumbersServedMount, NumbersRepeated, NumbersRan, NumbersIgnored
<1> QED
  BY <1>1, <1>2, NumbersSend, NumbersAgain, NumbersFinish, NumbersQuiet DEF Next, Client

-----------------------------------------------------------------------------
(* Directories that are listed.                                            *)

Listing == {"read", "close", "closeFailed"}

\* The directory in hand was opened, and the requests of tnfs_list are about it.
ListingOK == job \in Listing => dir \in 1..Calls /\ runs[dir] # 0

AskedListOK ==
  Asking =>
    /\ req.cmd = "READDIR" => job = "read"
    /\ req.cmd = "CLOSEDIR" => job \in {"close", "closeFailed"} /\ req.dir = dir

WayOK == \A r \in OnTheWay : Asking /\ r.id = id => r.dir = req.dir

\* A directory the server said it closed is closed while the client listens.
DoneOK(s) ==
  Last(s) # None =>
    /\ Last(s).cmd = "CLOSEDIR" => Last(s).status # "eof"
    /\ Asking /\ req.cmd = "CLOSEDIR" /\ Last(s).id = id /\ Last(s).status = "ok" =>
         req.dir \notin dirs

ClosedInv ==
  ListingOK /\ AskedListOK /\ WayOK /\ \A s \in 1..Sessions : DoneOK(s)

LEMMA ClosedInit == Init => ClosedInv
<1> SUFFICES ASSUME Init PROVE ClosedInv
  OBVIOUS
<1>1. ListingOK /\ AskedListOK
  BY DEF Init, ListingOK, AskedListOK, Listing, Asking
<1>2. WayOK
  BY DEF Init, WayOK, Asking
<1>3. ASSUME NEW s \in 1..Sessions PROVE DoneOK(s)
  BY DEF Init, DoneOK, Last
<1> QED
  BY <1>1, <1>2, <1>3 DEF ClosedInv

\* A new request: nothing on the way, and no answer, is of it yet.
LEMMA ClosedBegin ==
  ASSUME Known, NumbersInv, ClosedInv, Program \/ NextRequest
  PROVE  ClosedInv'
<1>1. PICK cmd \in Commands, c \in 0..Sessions, s \in Nat :
        /\ Begin(cmd, c, s) /\ dir' = dir
        /\ job' \in Listing => job' = job
        /\ cmd = "READDIR" => job' = "read"
        /\ cmd = "CLOSEDIR" => job' \in {"close", "closeFailed"}
  <2>1. "MOUNT" \in Commands /\ 0 \in 0..Sessions /\ conn \in 0..Sessions /\ seq \in Nat
        /\ 0 \in Nat
    BY Constants DEF Commands, Known, TypeOK
  <2>2. CASE BeginMount /\ dir' = dir
    <3>1. Begin("MOUNT", 0, 0) /\ job' = "none"
      BY <2>2 DEF BeginMount
    <3> QED
      BY <2>1, <2>2, <3>1 DEF Listing
  <2>3. ASSUME NEW cmd \in Commands \ {"MOUNT"}, Begin(cmd, conn, seq), dir' = dir,
               job' \in Listing => job' = job,
               cmd = "READDIR" => job' = "read",
               cmd = "CLOSEDIR" => job' \in {"close", "closeFailed"}
        PROVE  \E d \in Commands, c \in 0..Sessions, s \in Nat :
                 /\ Begin(d, c, s) /\ dir' = dir
                 /\ job' \in Listing => job' = job
                 /\ d = "READDIR" => job' = "read"
                 /\ d = "CLOSEDIR" => job' \in {"close", "closeFailed"}
    BY <2>1, <2>3
  <2>4. CASE NMount
    <3>1. CASE mounted /\ Begin("UMOUNT", conn, seq) /\ job' = "mount" /\ dir' = dir
      BY <2>3, <3>1 DEF Listing, Commands
    <3> QED
      BY <2>2, <2>4, <3>1 DEF NMount, BeginMount
  <2>5. ASSUME NEW d \in {"UMOUNT", "OP", "OPENDIR"}, NCommand(d)
        PROVE  Begin(d, conn, seq) /\ dir' = dir /\ job' = job
    BY <2>5 DEF NCommand
  <2>6. CASE \E d \in {"UMOUNT", "OP", "OPENDIR"} : NCommand(d)
    <3>1. PICK d \in {"UMOUNT", "OP", "OPENDIR"} : Begin(d, conn, seq) /\ dir' = dir /\ job' = job
      BY <2>5, <2>6
    <3> QED
      BY <2>3, <3>1 DEF Commands
  <2>7. CASE NextRequest
    <3>1. CASE job = "read" /\ Begin("READDIR", conn, seq) /\ job' = job /\ dir' = dir
      BY <2>3, <3>1 DEF Commands
    <3>2. CASE /\ job \in {"close", "closeFailed"} /\ Begin("CLOSEDIR", conn, seq)
               /\ job' = job /\ dir' = dir
      BY <2>3, <3>2 DEF Commands
    <3> QED
      BY <2>2, <2>7, <3>1, <3>2 DEF NextRequest, BeginMount
  <2> QED
    BY <2>4, <2>6, <2>7 DEF Program
<1>2. /\ id' = id + 1 /\ id \in Nat
      /\ req'.cmd = cmd /\ \A r \in OnTheWay' : r \in OnTheWay
      /\ UNCHANGED <<sessions, runs, dirs>>
  BY <1>1, Begun, Typed DEF Known, serverVars
<1>3. req'.dir = dir
  BY <1>1 DEF Begin
<1>4. ListingOK' /\ AskedListOK'
  BY <1>1, <1>2, <1>3 DEF ClosedInv, ListingOK, AskedListOK
<1>5. WayOK'
  <2>1. ASSUME NEW r \in OnTheWay' PROVE r.id # id'
    <3>1. r \in OnTheWay /\ r.id <= id /\ r.id \in Nat
      BY <1>2, <2>1, Typed DEF NumbersInv, QueueInv, RequestOK
    <3> QED
      BY <1>2, <3>1
  <2> QED
    BY <2>1 DEF WayOK
<1>6. ASSUME NEW t \in 1..Sessions PROVE DoneOK(t)'
  <2>1. Last(t)' = Last(t)
    BY <1>2 DEF Last
  <2>2. CASE Last(t) # None
    <3>1. Last(t).id \in Nat /\ Last(t).id <= id
      BY <2>2, Typed DEF NumbersInv, SessionInv
    <3>2. Last(t).id # id'
      BY <1>2, <3>1
    <3>3. Last(t).cmd = "CLOSEDIR" => Last(t).status # "eof"
      BY <2>2 DEF ClosedInv, DoneOK
    <3> QED
      BY <2>1, <3>2, <3>3 DEF DoneOK
  <2> QED
    BY <2>1, <2>2 DEF DoneOK
<1> QED
  BY <1>4, <1>5, <1>6 DEF ClosedInv

\* What is on the way, and the server, change in other steps.
LEMMA ClosedQuiet ==
  ASSUME Known, ClosedInv, Listen \/ OnNfsUdp \/ Send \/ UNCHANGED vars
  PROVE  ClosedInv'
<1>1. UNCHANGED <<id, dir, job, req, sessions, runs, dirs>> /\ Asking' = Asking
  BY DEF Listen, OnNfsUdp, Send, vars, clientVars, serverVars, Asking
<1>2. ListingOK' /\ AskedListOK'
  BY <1>1 DEF ClosedInv, ListingOK, AskedListOK
<1>3. \A r \in OnTheWay' : r \in OnTheWay \/ r = req
  <2>1. CASE Send
    <3>1. PICK copies \in 0..2 : requests' = requests \o [i \in 1..copies |-> req]
      BY <2>1 DEF Send
    <3>2. requests \in Seq(Requests) /\ req \in Requests
      BY <2>1, Typed DEF Known, TypeOK, Send, Asking
    <3> QED
      BY <3>1, <3>2, Queued
  <2>2. CASE UNCHANGED requests
    BY <2>2, SameQueue
  <2> QED
    BY <2>1, <2>2 DEF Listen, OnNfsUdp, vars, networkVars
<1>4. WayOK'
  BY <1>1, <1>3 DEF ClosedInv, WayOK
<1>5. ASSUME NEW s \in 1..Sessions PROVE DoneOK(s)'
  BY <1>1 DEF ClosedInv, DoneOK, Last
<1> QED
  BY <1>2, <1>4, <1>5 DEF ClosedInv

\* The same request under another number.
LEMMA ClosedAgain ==
  ASSUME Known, ClosedInv, Again
  PROVE  ClosedInv'
<1>1. UNCHANGED <<id, dir, job, sessions, runs, dirs, requests>> /\ pc = "wait" /\ pc' = "send"
  BY DEF Again, serverVars
<1>2. req'.cmd = req.cmd /\ req'.dir = req.dir
  <2>1. req \in Requests
    BY <1>1, Typed DEF Asking
  <2>2. req' = [req EXCEPT !.seq = NextSeq(seq)]
    BY DEF Again
  <2> QED
    BY <2>1, <2>2 DEF Requests
<1>3. ListingOK' /\ AskedListOK'
  BY <1>1, <1>2 DEF ClosedInv, ListingOK, AskedListOK, Asking
<1>4. WayOK'
  BY <1>1, <1>2, SameQueue DEF ClosedInv, WayOK, Asking
<1>5. ASSUME NEW s \in 1..Sessions PROVE DoneOK(s)'
  BY <1>1, <1>2 DEF ClosedInv, DoneOK, Last, Asking
<1> QED
  BY <1>3, <1>4, <1>5 DEF ClosedInv

\* tnfs_list goes on with the directory it has, or has just opened.
LEMMA ClosedReturn ==
  ASSUME Outgoing + Incoming <= Stales, Known, NumbersInv, StaleInv, ClosedInv, Finish \/ NoAnswer
  PROVE  ClosedInv'
<1>1. UNCHANGED <<id, req, sessions, runs, dirs, requests>> /\ pc = "wait"
  BY DEF Finish, NoAnswer, TryAgain, serverVars
<1>2. WayOK'
  BY <1>1, SameQueue DEF ClosedInv, WayOK, Asking
<1>3. ASSUME NEW s \in 1..Sessions PROVE DoneOK(s)'
  BY <1>1 DEF ClosedInv, DoneOK, Last, Asking
<1>4. ASSUME NEW ok \in BOOLEAN, NEW a, Caller(ok, a), pc' = "idle",
             ok /\ req.cmd = "OPENDIR" => a.id \in 1..Calls /\ runs[a.id] # 0
      PROVE  ListingOK' /\ AskedListOK'
  <2>1. AskedListOK'
    BY <1>4 DEF AskedListOK, Asking
  <2>2. ListingOK /\ (req.cmd = "READDIR" => job = "read")
        /\ (req.cmd = "UMOUNT" => job \notin Listing)
    BY <1>1 DEF ClosedInv, AskedListOK, Asking, Known, ClientInv, Listing
  <2>3. CASE req.cmd = "OPENDIR"
    <3>1. (job' \in Listing => ok) /\ (ok => dir' = a.id)
      BY <1>4, <2>3 DEF Caller, Listing
    <3> QED
      BY <1>1, <1>4, <2>1, <2>3, <3>1 DEF ListingOK
  <2>4. CASE req.cmd # "OPENDIR"
    <3>1. dir' = dir
      BY <1>4, <2>4 DEF Caller
    <3>2. job' \in Listing => job \in Listing
      BY <1>4, <2>2, <2>4 DEF Caller, Listing
    <3> QED
      BY <1>1, <2>1, <2>2, <3>1, <3>2 DEF ListingOK
  <2> QED
    BY <2>3, <2>4
<1>5. CASE UNCHANGED <<dir, job>> /\ pc' = "send"
  BY <1>1, <1>2, <1>3, <1>5 DEF ClosedInv, ListingOK, AskedListOK, Asking
<1>6. CASE NoAnswer
  <2>1. CASE Return("unknown", FALSE, None)
    BY <1>2, <1>3, <1>4, <2>1 DEF Return, ClosedInv
  <2> QED
    BY <1>5, <1>6, <2>1 DEF NoAnswer, TryAgain
<1>7. CASE Finish
  <2>1. /\ rx # None /\ Accepted(rx) /\ Caller(rx.status = "ok", rx) /\ pc' = "idle"
    BY <1>7 DEF Finish, Return
  <2>2. ASSUME req.cmd = "OPENDIR", rx.status = "ok" PROVE rx.id \in 1..Calls /\ runs[rx.id] # 0
    <3>1. rx.id = id /\ runs[id] # 0
      BY <1>1, <2>1, <2>2, AcceptedAnswer DEF Mount
    <3>2. req.id = id /\ req.id \in 1..Calls
      BY <1>1, Typed DEF Asking
    <3> QED
      BY <3>1, <3>2
  <2>3. (rx.status = "ok") \in BOOLEAN
    OBVIOUS
  <2>4. ListingOK' /\ AskedListOK'
    BY <1>4, <2>1, <2>2, <2>3
  <2> QED
    BY <1>2, <1>3, <2>4 DEF ClosedInv
<1> QED
  BY <1>6, <1>7

\* The server opens no directory again that it has closed, as it runs no request again.
LEMMA ClosedServe ==
  ASSUME Known, NumbersInv, ClosedInv, Serve
  PROVE  ClosedInv'
<1>1. /\ UNCHANGED <<id, dir, job, req>> /\ Asking' = Asking
      /\ \A q \in OnTheWay' : q \in OnTheWay
  BY Served DEF Asking
<1>2. PICK r \in Requests : r = Head(requests) /\ r \in OnTheWay
  BY Served
<1>3. r.id \in 1..Calls /\ r.id <= id /\ runs \in [1..Calls -> Nat]
      /\ (Asking /\ r.id = id => r.cmd = req.cmd)
  BY <1>2, Typed DEF NumbersInv, QueueInv, RequestOK, Known, TypeOK
<1>4. AskedListOK' /\ WayOK'
  BY <1>1 DEF ClosedInv, AskedListOK, WayOK
<1>5. ListingOK /\ AskedListOK /\ WayOK /\ \A s \in 1..Sessions : DoneOK(s)
  BY DEF ClosedInv
<1>6. CASE ServedMount(r)
  <2>1. dirs' = dirs /\ runs' = [runs EXCEPT ![r.id] = @ + 1]
    BY <1>6 DEF ServedMount
  <2>2. \A s \in 1..Sessions : Last(s)' = Last(s)
    <3>1. PICK c \in 1..Sessions : sessions' = [sessions EXCEPT ![c].state = "open"]
      BY <1>6 DEF ServedMount
    <3> QED
      BY <3>1 DEF Last, Known, TypeOK
  <2>3. ListingOK'
    BY <1>1, <1>3, <1>5, <2>1 DEF ListingOK
  <2>4. ASSUME NEW s \in 1..Sessions PROVE DoneOK(s)'
    BY <1>1, <1>5, <2>1, <2>2 DEF DoneOK
  <2> QED
    BY <1>4, <2>3, <2>4 DEF ClosedInv
<1>7. CASE Repeated(r) \/ Ignored
  <2>1. UNCHANGED <<sessions, runs, dirs>>
    BY <1>7 DEF Repeated, Ignored, serverVars
  <2>2. ListingOK'
    BY <1>1, <1>5, <2>1 DEF ListingOK
  <2>3. ASSUME NEW s \in 1..Sessions PROVE DoneOK(s)'
    BY <1>1, <1>5, <2>1 DEF DoneOK, Last
  <2> QED
    BY <1>4, <2>2, <2>3 DEF ClosedInv
<1>8. ASSUME NEW status \in Statuses, Ran(r, status) PROVE ClosedInv'
  <2>1. runs[r.id] = 0 /\ ~Mount(r) /\ r.conn \in 1..Sessions
    BY <1>2, <1>8, FirstRun, Served DEF Ran, Session
  <2>2. PICK c \in 1..Sessions : c = r.conn
    BY <2>1
  <2>3. PICK a \in Answers : /\ a = Answer(r, c, status) /\ a.id = r.id
                             /\ a.cmd = r.cmd /\ a.status = status
    BY <2>2, AnswerType
  <2>4. PICK state \in {"open", "closed"} :
          sessions' = [sessions EXCEPT ![c] = [state |-> state, last |-> a]]
    BY <1>8, <2>2, <2>3 DEF Ran
  <2>5. /\ runs' = IF status = "again" THEN runs ELSE [runs EXCEPT ![r.id] = @ + 1]
        /\ RanDirs(r, status)
    BY <1>8 DEF Ran
  <2>6. ASSUME NEW i \in 1..Calls, runs[i] # 0 PROVE runs'[i] # 0 /\ i # r.id
    BY <1>3, <2>1, <2>5, <2>6
  <2>7. ListingOK'
    BY <1>1, <1>5, <2>6 DEF ListingOK
  <2>8. ASSUME Asking, req.cmd = "CLOSEDIR" PROVE req.dir # r.id
    <3>1. dir \in 1..Calls /\ runs[dir] # 0 /\ req.dir = dir
      BY <1>5, <2>8 DEF AskedListOK, ListingOK, Listing
    <3> QED
      BY <2>6, <3>1
  <2>9. Last(c)' = a /\ \A s \in 1..Sessions : s # c => Last(s)' = Last(s)
    BY <2>4 DEF Last, Known, TypeOK
  <2>10. ASSUME NEW s \in 1..Sessions, s # c PROVE DoneOK(s)'
    <3>1. Asking /\ req.cmd = "CLOSEDIR" /\ req.dir \notin dirs => req.dir \notin dirs'
      BY <2>5, <2>8 DEF RanDirs
    <3> QED
      BY <1>1, <1>5, <2>9, <2>10, <3>1 DEF DoneOK
  <2>11. DoneOK(c)'
    <3>1. a.cmd = "CLOSEDIR" => a.status # "eof"
      BY <2>3, <2>5 DEF RanDirs
    <3>2. ASSUME Asking, req.cmd = "CLOSEDIR", a.id = id, a.status = "ok"
          PROVE  req.dir \notin dirs'
      <4>1. r.cmd = "CLOSEDIR" /\ r.dir = req.dir
        BY <1>2, <1>3, <1>5, <2>3, <3>2 DEF WayOK
      <4>2. dirs' = dirs \ {r.dir}
        BY <2>3, <2>5, <3>2, <4>1 DEF RanDirs
      <4> QED
        BY <4>1, <4>2
    <3> QED
      BY <1>1, <2>9, <3>1, <3>2 DEF DoneOK
  <2> QED
    BY <1>4, <2>7, <2>10, <2>11 DEF ClosedInv
<1> QED
  BY <1>2, <1>6, <1>7, <1>8, Servings

LEMMA ClosedStep ==
  ASSUME Outgoing + Incoming <= Stales, Known, NumbersInv, StaleInv, ClosedInv, [Next]_vars
  PROVE  ClosedInv'
BY ClosedBegin, ClosedQuiet, ClosedAgain, ClosedReturn, ClosedServe DEF Next, Client

LEMMA ClosedSays ==
  ASSUME Outgoing + Incoming <= Stales, Known, NumbersInv, StaleInv, ClosedInv, [Next]_vars, NDirOk
  PROVE  dir \notin dirs
<1>1. pc = "wait" /\ pc' = "idle" /\ rx # None /\ job' = "none"
  BY DEF NDirOk
<1>2. stale # Stales
  <2>1. /\ Len(requests) \in Nat /\ Cardinality(replies) \in Nat /\ stale \in Nat
        /\ stale + Len(requests) + Cardinality(replies) + 1 <= Outgoing + Incoming
    BY <1>1, FS_CardinalityType DEF Known, TypeOK, StaleInv
  <2> QED
    BY <2>1, Constants
<1>3. ~NoAnswer
  BY <1>1, <1>2 DEF NoAnswer
<1>4. Finish
  <2>1. ~(Program \/ NextRequest)
    BY <1>1, Beginnings DEF Mounting, Requesting
  <2>2. ~Serve
    BY <1>1, Served
  <2> QED
    BY <1>1, <1>3, <2>1, <2>2
       DEF Next, Client, Send, Listen, Again, OnNfsUdp, vars, clientVars
<1>5. Accepted(rx) /\ Caller(rx.status = "ok", rx)
  BY <1>4 DEF Finish, Return
<1>6. req.cmd # "READDIR"
  BY <1>1, <1>5 DEF Caller, AfterRead, NDirOk
<1>7. req.cmd = "CLOSEDIR" /\ req.dir = dir
  BY <1>1, <1>6 DEF NDirOk, ClosedInv, AskedListOK, Asking
<1>8. rx = Last(conn) /\ conn \in 1..Sessions /\ rx.id = id /\ rx.cmd = req.cmd
  BY <1>1, <1>5, <1>7, AcceptedAnswer, AcceptedCommand DEF Mount
<1>9. DoneOK(conn)
  BY <1>8 DEF ClosedInv
<1>10. rx.status = "ok"
  BY <1>1, <1>7, <1>8, <1>9 DEF DoneOK, NDirOk
<1> QED
  BY <1>1, <1>7, <1>8, <1>9, <1>10 DEF DoneOK, Asking

-----------------------------------------------------------------------------
(* The refinement.                                                         *)

LEMMA CallInit == Init => RC!Init
BY DEF Init, RC!Init

LEMMA CallStep ==
  ASSUME RetryMount = FALSE, Outgoing + Incoming <= Stales,
         Known, NumbersInv, StaleInv, [Next]_vars
  PROVE  [RC!Next]_(RC!vars)
<1> DEFINE Stutters == UNCHANGED <<id, mounts, runs, outcome>> /\ Asking' = Asking
<1>1. Stutters => UNCHANGED RC!vars
  BY DEF RC!vars, Asking
<1>2. id \in Nat /\ id <= Calls /\ runs \in [1..Calls -> Nat]
  BY Typed DEF Known, TypeOK
<1>3. CASE Program \/ NextRequest
  <2>1. pc = "idle"
    BY <1>3, Beginnings DEF Mounting, Requesting
  <2>2. PICK cmd \in Commands, c \in 0..Sessions, s \in Nat : Begin(cmd, c, s)
    <3>1. Mounting => Begin("MOUNT", 0, 0)
      BY DEF Mounting, BeginMount
    <3>2. "MOUNT" \in Commands /\ 0 \in 0..Sessions /\ conn \in 0..Sessions /\ seq \in Nat
      BY Constants DEF Commands, Known, TypeOK
    <3> QED
      BY <1>3, <3>1, <3>2, Beginnings DEF Requesting
  <2>3. id < Calls /\ id' = id + 1 /\ pc' = "send" /\ runs' = runs /\ outcome' = outcome
    BY <2>2 DEF Begin, serverVars
  <2>4. mounts' \in {mounts, mounts \cup {id + 1}}
    BY <1>3, Beginnings DEF Mounting, BeginMount, Requesting
  <2>5. RC!Issue
    BY <2>1, <2>3, <2>4 DEF RC!Issue
  <2> QED
    BY <2>5 DEF RC!Next
<1>4. CASE Send \/ Listen \/ Again \/ OnNfsUdp \/ UNCHANGED vars
  <2>1. Stutters
    BY <1>4 DEF Send, Listen, Again, OnNfsUdp, vars, clientVars, networkVars, serverVars, Asking
  <2> QED
    BY <1>1, <2>1
\* Given up: what became of the request is not known.
<1>5. CASE NoAnswer
  <2>1. pc = "wait" /\ id' = id /\ mounts' = mounts /\ runs' = runs /\ TryAgain
    BY <1>5 DEF NoAnswer, serverVars
  <2>2. CASE attempt + 1 < Tries
    <3>1. outcome' = outcome /\ pc' = "send"
      BY <2>1, <2>2 DEF TryAgain, NextAttempt
    <3> QED
      BY <1>1, <2>1, <3>1 DEF Asking
  <2>3. CASE ~(attempt + 1 < Tries)
    <3>1. Return("unknown", FALSE, None)
      BY <2>1, <2>3 DEF TryAgain, NextAttempt
    <3>2. pc' = "idle" /\ outcome' = [call |-> id, result |-> "unknown"]
      BY <3>1 DEF Return
    <3>3. RC!Return("unknown")
      BY <2>1, <3>2 DEF RC!Return
    <3> QED
      BY <3>3 DEF RC!Next
  <2> QED
    BY <2>2, <2>3
<1>6. CASE Finish
  <2>1. /\ pc = "wait" /\ rx # None /\ Accepted(rx) /\ id' = id /\ mounts' = mounts /\ runs' = runs
        /\ Return(ResultOf(rx), rx.status = "ok", rx)
    BY <1>6 DEF Finish, serverVars
  <2>2. rx.id = id /\ (rx.status # "again" => runs[id] # 0) /\ (rx.status = "again" => runs[id] = 0)
    BY <2>1, AcceptedMount, AcceptedAnswer
  <2>3. PICK result \in Results : result = ResultOf(rx)
    BY DEF ResultOf, Results
  <2>4. pc' = "idle" /\ outcome' = [call |-> id, result |-> result]
    BY <2>1, <2>2, <2>3 DEF Return
  <2>5. (result = "done" => runs[id] # 0) /\ (result = "refused" => runs[id] = 0)
    BY <2>2, <2>3 DEF ResultOf
  <2>6. RC!Return(result)
    BY <2>1, <2>4, <2>5 DEF RC!Return
  <2> QED
    BY <2>3, <2>6 DEF RC!Next, Results
<1>7. CASE Serve
  <2>1. id' = id /\ mounts' = mounts /\ pc' = pc /\ outcome' = outcome /\ Asking' = Asking
    BY <1>7, Served DEF Asking, Serve
  <2>2. PICK r \in Requests : r = Head(requests) /\ r \in OnTheWay
    BY <1>7, Served
  <2>3. r.id \in 1..Calls /\ r.id <= id
    BY <2>2, Typed DEF NumbersInv, QueueInv, RequestOK
  <2>4. runs[r.id] \in Nat
    BY <2>3 DEF NumbersInv, RunsInv
  <2>5. runs' = runs \/ (runs' = [runs EXCEPT ![r.id] = @ + 1] /\ (runs[r.id] = 0 \/ r.id \in mounts))
    <3>1. CASE ServedMount(r)
      <4>1. runs' = [runs EXCEPT ![r.id] = @ + 1]
        BY <3>1 DEF ServedMount
      <4>2. r.id \in mounts
        <5>1. r.id = mountId /\ r.id # 0
          BY <3>1, <2>2, <2>3, Typed DEF ServedMount, NumbersInv, QueueInv, RequestOK
        <5> QED
          BY <5>1 DEF Known, ClientInv
      <4> QED
        BY <4>1, <4>2
    <3>2. CASE Repeated(r) \/ Ignored
      BY <3>2 DEF Repeated, Ignored, serverVars
    <3>3. ASSUME NEW status \in Statuses, Ran(r, status)
          PROVE  runs' = runs \/ (runs' = [runs EXCEPT ![r.id] = @ + 1] /\ (runs[r.id] = 0 \/ r.id \in mounts))
      <4>1. runs' = IF status = "again" THEN runs ELSE [runs EXCEPT ![r.id] = runs[r.id] + 1]
        BY <3>3 DEF Ran
      <4>2. runs[r.id] = 0
        BY <3>3, <1>7, <2>2, FirstRun
      <4> QED
        BY <4>1, <4>2, <2>3, <1>2
    <3> QED
      BY <1>7, <2>2, <3>1, <3>2, <3>3, Servings
  <2>6. CASE runs' = runs
    BY <1>1, <2>1, <2>6
  <2>7. CASE runs' = [runs EXCEPT ![r.id] = @ + 1] /\ (runs[r.id] = 0 \/ r.id \in mounts)
    <3>1. RC!Execute(r.id)
      BY <2>1, <2>3, <2>7 DEF RC!Execute, Asking
    <3> QED
      BY <3>1, <2>3 DEF RC!Next
  <2> QED
    BY <2>5, <2>6, <2>7
<1> QED
  BY <1>3, <1>4, <1>5, <1>6, <1>7 DEF Next, Client

(***************************************************************************)
(* AT+N...: every request of a session is run once at most, a MOUNT each   *)
(* time it arrives, and the result given of a request is what the server   *)
(* answered to that very request (the abstract calls of RemoteCall), for   *)
(* every number of tries, late answers and requests of the program,        *)
(* whatever is lost, late or repeated. It holds while                      *)
(*   - requests arrive in the order they are sent;                         *)
(*   - at most TNFS stale answers (16) can be on the way: after that many  *)
(*     transact no longer looks at the session of an answer;               *)
(*   - AT+NMOUNT is not repeated while datagrams of the last are alive:    *)
(*     tnfs_init restarts the sequence numbers, without a session to tell  *)
(*     the answers apart;                                                  *)
(*   - the server has answered in the session within a turn of the byte:   *)
(*     a number comes back after 256 commands the server never heard of.   *)
(***************************************************************************)
THEOREM CallsImplemented ==
  ASSUME RetryMount = FALSE, Outgoing + Incoming <= Stales
  PROVE  Spec /\ []Heard => Implements
<1>1. Init => Known /\ NumbersInv /\ StaleInv /\ RC!Init
  BY KnownInit, NumbersInit, StaleInit, CallInit
<1>2. Known /\ [Next]_vars => Known'
  BY KnownStep
<1>3. Known /\ StaleInv /\ [Next]_vars => StaleInv'
  BY StaleStep
<1>4. Known /\ NumbersInv /\ StaleInv /\ Heard /\ [Next]_vars => NumbersInv'
  BY NumbersStep
<1>5. Known /\ NumbersInv /\ StaleInv /\ [Next]_vars => [RC!Next]_(RC!vars)
  BY CallStep
<1> QED
  BY <1>1, <1>2, <1>3, <1>4, <1>5, PTL DEF Spec, Implements, RC!Spec

\* AT+NDIR that answers OK has left no directory open on the server (tnfs_list), under
\* the same hypotheses.
THEOREM DirectoryClosed ==
  ASSUME RetryMount = FALSE, Outgoing + Incoming <= Stales
  PROVE  Spec /\ []Heard => ListClosed
<1>1. Init => Known /\ NumbersInv /\ StaleInv /\ ClosedInv
  BY KnownInit, NumbersInit, StaleInit, ClosedInit
<1>2. Known /\ [Next]_vars => Known'
  BY KnownStep
<1>3. Known /\ StaleInv /\ [Next]_vars => StaleInv'
  BY StaleStep
<1>4. Known /\ NumbersInv /\ StaleInv /\ Heard /\ [Next]_vars => NumbersInv'
  BY NumbersStep
<1>5. Known /\ NumbersInv /\ StaleInv /\ ClosedInv /\ [Next]_vars => ClosedInv'
  BY ClosedStep
<1>6. Known /\ NumbersInv /\ StaleInv /\ ClosedInv /\ [Next]_vars
        => [NDirOk => dir \notin dirs]_vars
  BY ClosedSays
<1> QED
  BY <1>1, <1>2, <1>3, <1>4, <1>5, <1>6, PTL DEF Spec, ListClosed
=============================================================================
