-------------------------- MODULE DhcpServerProofs --------------------------
(* Theorems about the DHCP server, for any pool, clients and durations.    *)
EXTENDS DhcpServer, TLAPS

\* A MAC address is on one lease at most.
OneLeaseEach ==
  \A i, j \in Pool : mac[i] = mac[j] /\ mac[i] # None => i = j

\* What a client may still rely on is the lease with its MAC, which does not
\* run out earlier.
Backed(c, p) ==
  Live(p) => p.ip \in Pool /\ mac[p.ip] = c /\ expiry[p.ip] >= p.until

\* No promise reaches beyond a lease granted now, which replaces it.
Short(p) == p.until <= now + LeaseTime

\* PromiseKept is not inductive: a lease with the right MAC could be given away
\* at its expiry, or a second one found first.
DhcpInv ==
  /\ TypeOK
  /\ OneLeaseEach
  /\ \A c \in Clients : Backed(c, offered[c]) /\ Backed(c, leased[c])
  /\ \A c \in Clients : Short(offered[c]) /\ Short(leased[c])

USE DhcpAssumption DEF Pool

LEMMA InitInv == Init => DhcpInv
  BY DEF Init, DhcpInv, TypeOK, OneLeaseEach, Backed, Live, Nothing, Promises, Short

\* A lease taken by DISCOVER is the client's own, or one that backs no promise.
LEMMA DiscoverInv ==
  ASSUME DhcpInv, NEW c \in Clients, Discover(c)
  PROVE  DhcpInv'
<1> USE DEF DhcpInv
<1>1. CASE UNCHANGED vars
  BY <1>1 DEF vars, TypeOK, OneLeaseEach, Backed, Live, Short
<1>2. CASE \E i \in Pool :
             /\ IsFirst(i, Candidates(c))
             /\ mac' = [mac EXCEPT ![i] = c]
             /\ expiry' = [expiry EXCEPT ![i] = OfferUntil(i)]
             /\ offered' = [offered EXCEPT ![c] = [ip |-> i, until |-> now + OfferTime]]
             /\ UNCHANGED <<now, leased>>
  <2>1. PICK i \in Pool :
          /\ IsFirst(i, Candidates(c))
          /\ mac' = [mac EXCEPT ![i] = c]
          /\ expiry' = [expiry EXCEPT ![i] = OfferUntil(i)]
          /\ offered' = [offered EXCEPT ![c] = [ip |-> i, until |-> now + OfferTime]]
          /\ UNCHANGED <<now, leased>>
    BY <1>2
  <2>2. OfferUntil(i) \in Nat /\ OfferUntil(i) >= expiry[i] /\ OfferUntil(i) >= now + OfferTime
    BY DEF OfferUntil, TypeOK
  <2>3. mac[i] = c \/ (LeasesOf(c) = {} /\ expiry[i] <= now)
    BY <2>1 DEF IsFirst, Candidates, LeasesOf, Free
  <2>4. TypeOK'
    BY <2>1, <2>2 DEF TypeOK, Promises
  <2>5. OneLeaseEach'
    BY <2>1, <2>3 DEF OneLeaseEach, TypeOK, LeasesOf
  <2>6. ASSUME NEW d \in Clients, NEW p \in Promises, Backed(d, p)
        PROVE  Backed(d, p)'
    <3>1. CASE mac[i] = c
      BY <2>1, <2>2, <2>6, <3>1 DEF Backed, Live, TypeOK, Promises
    <3>2. CASE expiry[i] <= now
      BY <2>1, <2>2, <2>6, <3>2 DEF Backed, Live, TypeOK, Promises
    <3> QED BY <2>3, <3>1, <3>2
  <2>7. Backed(c, [ip |-> i, until |-> now + OfferTime])'
    BY <2>1, <2>2 DEF Backed, Live, TypeOK
  <2>8. \A d \in Clients : Backed(d, offered[d])' /\ Backed(d, leased[d])'
    BY <2>1, <2>6, <2>7 DEF TypeOK, Backed, Live
  <2>9. \A d \in Clients : Short(offered[d])' /\ Short(leased[d])'
    BY <2>1 DEF TypeOK, Short
  <2> QED BY <2>4, <2>5, <2>8, <2>9
<1> QED BY <1>1, <1>2 DEF Discover

LEMMA RequestInv ==
  ASSUME DhcpInv, NEW c \in Clients, NEW want \in Wanted(c), Request(c, want)
  PROVE  DhcpInv'
<1> USE DEF DhcpInv
<1>1. CASE Granted(c, want)
  <2>1. want \in Pool /\ mac[want] = c
    BY <1>1 DEF Granted, IsFirst, LeasesOf
  <2>2. /\ expiry' = [expiry EXCEPT ![want] = now + LeaseTime]
        /\ leased' = [leased EXCEPT ![c] = [ip |-> want, until |-> now + LeaseTime]]
        /\ UNCHANGED <<mac, now, offered>>
    BY <1>1 DEF Request
  <2>3. TypeOK'
    BY <2>1, <2>2 DEF TypeOK, Promises
  <2>4. OneLeaseEach'
    BY <2>2 DEF OneLeaseEach
  <2>5. ASSUME NEW d \in Clients, NEW p \in Promises, Backed(d, p), Short(p)
        PROVE  Backed(d, p)'
    BY <2>1, <2>2, <2>5 DEF Backed, Live, Short, TypeOK, Promises
  <2>6. Backed(c, [ip |-> want, until |-> now + LeaseTime])'
    BY <2>1, <2>2 DEF Backed, Live, TypeOK
  <2>7. \A d \in Clients : Backed(d, offered[d])' /\ Backed(d, leased[d])'
    BY <2>2, <2>5, <2>6 DEF TypeOK, Backed, Live
  <2>8. \A d \in Clients : Short(offered[d])' /\ Short(leased[d])'
    BY <2>2 DEF TypeOK, Short
  <2> QED BY <2>3, <2>4, <2>7, <2>8
<1>2. CASE ~Granted(c, want)
  <2>1. /\ leased' = [leased EXCEPT ![c] = Nothing]
        /\ UNCHANGED <<mac, expiry, now, offered>>
    BY <1>2 DEF Request
  <2>2. TypeOK' /\ OneLeaseEach'
    BY <2>1 DEF TypeOK, OneLeaseEach, Nothing, Promises
  <2>3. \A d \in Clients : Backed(d, offered[d])' /\ Backed(d, leased[d])'
    BY <2>1 DEF Backed, Live, TypeOK, Nothing
  <2>4. \A d \in Clients : Short(offered[d])' /\ Short(leased[d])'
    BY <2>1 DEF Short, TypeOK, Nothing
  <2> QED BY <2>2, <2>3, <2>4
<1> QED BY <1>1, <1>2

LEMMA ReleaseInv ==
  ASSUME DhcpInv, NEW c \in Clients, Release(c)
  PROVE  DhcpInv'
<1> USE DEF DhcpInv
<1>1. /\ offered' = [offered EXCEPT ![c] = Nothing]
      /\ leased' = [leased EXCEPT ![c] = Nothing]
      /\ now' = now
  BY DEF Release
<1>2. CASE UNCHANGED <<mac, expiry>>
  BY <1>1, <1>2 DEF TypeOK, OneLeaseEach, Backed, Live, Nothing, Promises, Short
<1>3. CASE \E i \in Pool : IsFirst(i, LeasesOf(c)) /\ Forget(i)
  <2>1. PICK i \in Pool : mac[i] = c /\ Forget(i)
    BY <1>3 DEF IsFirst, LeasesOf
  <2>2. mac' = [mac EXCEPT ![i] = None] /\ expiry' = [expiry EXCEPT ![i] = 0]
    BY <2>1 DEF Forget
  <2>3. TypeOK'
    BY <1>1, <2>2 DEF TypeOK, Nothing, Promises
  <2>4. OneLeaseEach'
    BY <2>2 DEF OneLeaseEach, TypeOK
  <2>5. \A d \in Clients : Backed(d, offered[d])' /\ Backed(d, leased[d])'
    BY <1>1, <2>1, <2>2 DEF Backed, Live, TypeOK, Nothing
  <2>6. \A d \in Clients : Short(offered[d])' /\ Short(leased[d])'
    BY <1>1 DEF Short, TypeOK, Nothing
  <2> QED BY <2>3, <2>4, <2>5, <2>6
<1> QED BY <1>2, <1>3 DEF Release

LEMMA StepInv == DhcpInv /\ [Next]_vars => DhcpInv'
<1> SUFFICES ASSUME DhcpInv, [Next]_vars PROVE DhcpInv'
  OBVIOUS
<1>1. CASE \E c \in Clients : Discover(c)
  BY <1>1, DiscoverInv
<1>2. CASE \E c \in Clients : \E want \in Wanted(c) : Request(c, want)
  BY <1>2, RequestInv
<1>3. CASE \E c \in Clients : Release(c)
  BY <1>3, ReleaseInv
<1>4. CASE Reopen
  BY <1>4 DEF Reopen, DhcpInv, TypeOK, OneLeaseEach, Backed, Live, Nothing, Promises, Short
<1>5. CASE Tick
  BY <1>5 DEF Tick, DhcpInv, TypeOK, OneLeaseEach, Backed, Live, Promises, Short
<1>6. CASE UNCHANGED vars
  BY <1>6 DEF vars, DhcpInv, TypeOK, OneLeaseEach, Backed, Live, Short
<1> QED BY <1>1, <1>2, <1>3, <1>4, <1>5, <1>6 DEF Next

\* Whatever other clients do, an address offered or leased is granted to the client
\* that asks for it in time (dhcps_handle, REQUEST).
THEOREM Kept == Spec => []PromiseKept
<1>1. DhcpInv => PromiseKept
  BY DEF DhcpInv, PromiseKept, Backed, Granted, IsFirst, LeasesOf, OneLeaseEach, TypeOK
<1> QED BY InitInv, StepInv, <1>1, PTL DEF Spec

\* No two clients hold the same address (lease_for and the expiry of leases).
THEOREM Unique == Spec => []AddressUnique
<1>1. DhcpInv => AddressUnique
  BY DEF DhcpInv, AddressUnique, Backed, TypeOK
<1> QED BY InitInv, StepInv, <1>1, PTL DEF Spec

-----------------------------------------------------------------------------
(* No address is withheld.                                                 *)

\* NoneWithheld says that an address not free is promised; what keeps it so is
\* that a lease runs out exactly when some promise on it does, which needs offers
\* never to outlast the lease they are given on.
Holds(i, p) == p.ip = i /\ p.until = expiry[i]

Held ==
  \A i \in Pool : expiry[i] > now =>
    \E d \in Clients : Holds(i, offered[d]) \/ Holds(i, leased[d])

OffersShort == \A c \in Clients : offered[c].until <= now + OfferTime

HeldInv == DhcpInv /\ Held /\ OffersShort

LEMMA HeldInit == Init => HeldInv
  BY InitInv DEF Init, HeldInv, Held, OffersShort, Nothing

\* A promise that holds an address is that of the client whose lease it is.
LEMMA HolderIsOwner ==
  ASSUME DhcpInv, NEW i \in Pool, NEW d \in Clients, NEW p \in {offered[d], leased[d]},
         Holds(i, p), expiry[i] > now
  PROVE  mac[i] = d
  BY DEF DhcpInv, Holds, Backed, Live

LEMMA DiscoverHeld ==
  ASSUME HeldInv, DhcpInv', NEW c \in Clients, Discover(c)
  PROVE  HeldInv'
<1>1. CASE UNCHANGED vars
  BY <1>1 DEF vars, HeldInv, Held, Holds, OffersShort
<1>2. CASE \E i \in Pool :
             /\ IsFirst(i, Candidates(c))
             /\ mac' = [mac EXCEPT ![i] = c]
             /\ expiry' = [expiry EXCEPT ![i] = OfferUntil(i)]
             /\ offered' = [offered EXCEPT ![c] = [ip |-> i, until |-> now + OfferTime]]
             /\ UNCHANGED <<now, leased>>
  <2>1. PICK i \in Pool :
          /\ IsFirst(i, Candidates(c))
          /\ mac' = [mac EXCEPT ![i] = c]
          /\ expiry' = [expiry EXCEPT ![i] = OfferUntil(i)]
          /\ offered' = [offered EXCEPT ![c] = [ip |-> i, until |-> now + OfferTime]]
          /\ UNCHANGED <<now, leased>>
    BY <1>2
  <2>2. TypeOK /\ Held /\ OffersShort
    BY DEF HeldInv, DhcpInv
  <2>3. OffersShort'
    BY <2>1, <2>2 DEF OffersShort, TypeOK
  <2>4. ASSUME NEW j \in Pool, j # i, expiry'[j] > now'
        PROVE  \E d \in Clients : Holds(j, offered[d])' \/ Holds(j, leased[d])'
    <3>1. expiry'[j] = expiry[j] /\ expiry[j] > now
      BY <2>1, <2>2, <2>4 DEF TypeOK
    <3>2. PICK d \in Clients : Holds(j, offered[d]) \/ Holds(j, leased[d])
      BY <2>2, <3>1 DEF Held
    <3>3. mac[j] = d
      BY <3>1, <3>2, HolderIsOwner DEF HeldInv
    <3>4. d # c
      BY <2>1, <2>4, <3>3 DEF HeldInv, DhcpInv, OneLeaseEach, IsFirst, Candidates, LeasesOf
    <3> QED BY <2>1, <2>2, <3>1, <3>2, <3>4 DEF Holds, TypeOK
  <2>5. ASSUME expiry'[i] > now'
        PROVE  \E d \in Clients : Holds(i, offered[d])' \/ Holds(i, leased[d])'
    <3>1. expiry'[i] = OfferUntil(i) /\ offered'[c] = [ip |-> i, until |-> now + OfferTime]
      BY <2>1, <2>2 DEF TypeOK
    <3>2. CASE expiry'[i] = now + OfferTime
      BY <3>1, <3>2 DEF Holds
    <3>3. CASE expiry'[i] # now + OfferTime
      <4>1. expiry'[i] = expiry[i] /\ expiry[i] > now + OfferTime /\ expiry[i] > now
        <5>1. now \in Nat /\ OfferTime \in Nat /\ expiry[i] \in Nat
          BY <2>2 DEF TypeOK
        <5>2. OfferUntil(i) # now + OfferTime
          BY <3>1, <3>3
        <5>3. OfferUntil(i) = expiry[i] /\ ~(expiry[i] < now + OfferTime)
          BY <5>2 DEF OfferUntil
        <5> HIDE DEF OfferUntil
        <5> QED BY <3>1, <3>3, <5>1, <5>3
      <4>2. PICK d \in Clients : Holds(i, offered[d]) \/ Holds(i, leased[d])
        BY <2>2, <4>1 DEF Held
      <4>3. Holds(i, leased[d])
        BY <2>2, <4>1, <4>2 DEF OffersShort, Holds, TypeOK, Promises
      <4> QED BY <2>1, <4>1, <4>3 DEF Holds
    <3> QED BY <3>2, <3>3
  <2> QED BY <2>3, <2>4, <2>5 DEF HeldInv, Held
<1> QED BY <1>1, <1>2 DEF Discover

LEMMA RequestHeld ==
  ASSUME HeldInv, DhcpInv', NEW c \in Clients, NEW want \in Wanted(c), Request(c, want)
  PROVE  HeldInv'
<1>0. TypeOK /\ Held /\ OffersShort
  BY DEF HeldInv, DhcpInv
<1>1. OffersShort'
  BY <1>0 DEF Request, OffersShort
<1>2. CASE Granted(c, want)
  <2>1. want \in Pool /\ mac[want] = c
    BY <1>2 DEF Granted, IsFirst, LeasesOf
  <2>2. /\ expiry' = [expiry EXCEPT ![want] = now + LeaseTime]
        /\ leased' = [leased EXCEPT ![c] = [ip |-> want, until |-> now + LeaseTime]]
        /\ UNCHANGED <<mac, now, offered>>
    BY <1>2 DEF Request
  <2>3. Holds(want, leased[c])'
    BY <1>0, <2>1, <2>2 DEF Holds, TypeOK
  <2>4. ASSUME NEW j \in Pool, j # want, expiry'[j] > now'
        PROVE  \E d \in Clients : Holds(j, offered[d])' \/ Holds(j, leased[d])'
    <3>1. expiry'[j] = expiry[j] /\ expiry[j] > now
      BY <1>0, <2>1, <2>2, <2>4 DEF TypeOK
    <3>2. PICK d \in Clients : Holds(j, offered[d]) \/ Holds(j, leased[d])
      BY <1>0, <3>1 DEF Held
    <3>3. mac[j] = d
      BY <3>1, <3>2, HolderIsOwner DEF HeldInv
    <3>4. d # c
      BY <1>0, <2>1, <2>4, <3>3 DEF HeldInv, DhcpInv, OneLeaseEach, TypeOK
    <3> QED BY <1>0, <2>2, <3>1, <3>2, <3>4 DEF Holds, TypeOK
  <2> QED BY <1>1, <2>1, <2>3, <2>4 DEF HeldInv, Held
<1>3. CASE ~Granted(c, want)
  <2>1. /\ leased' = [leased EXCEPT ![c] = Nothing]
        /\ UNCHANGED <<mac, expiry, now, offered>>
    BY <1>3 DEF Request
  <2>2. ~Live(leased[c])
    <3>1. ASSUME NEW p \in {offered[c], leased[c]}, Live(p) PROVE Granted(c, p.ip)
      BY <3>1 DEF HeldInv, DhcpInv, Backed, Granted, IsFirst, LeasesOf, OneLeaseEach, TypeOK
    <3>2. ASSUME Live(leased[c]) PROVE \E p \in {offered[c], leased[c]} : Live(p) /\ want = p.ip
      <4> DEFINE told == {p \in {offered[c], leased[c]} : Live(p)}
      <4>1. told # {}
        BY <3>2
      <4>2. Wanted(c) = {p.ip : p \in told}
        BY <4>1 DEF Wanted
      <4> QED BY <4>2
    <3> QED BY <1>3, <3>1, <3>2
  <2>3. ASSUME NEW j \in Pool, expiry'[j] > now'
        PROVE  \E d \in Clients : Holds(j, offered[d])' \/ Holds(j, leased[d])'
    <3>1. PICK d \in Clients : Holds(j, offered[d]) \/ Holds(j, leased[d])
      BY <1>0, <2>1, <2>3 DEF Held
    <3>2. Holds(j, leased[d]) => d # c
      BY <2>1, <2>2, <2>3 DEF Holds, Live
    <3> QED BY <1>0, <2>1, <3>1, <3>2 DEF Holds, TypeOK
  <2> QED BY <1>1, <2>3 DEF HeldInv, Held
<1> QED BY <1>2, <1>3

LEMMA ReleaseHeld ==
  ASSUME HeldInv, DhcpInv', NEW c \in Clients, Release(c)
  PROVE  HeldInv'
<1>0. TypeOK /\ Held /\ OffersShort
  BY DEF HeldInv, DhcpInv
<1>1. /\ offered' = [offered EXCEPT ![c] = Nothing]
      /\ leased' = [leased EXCEPT ![c] = Nothing]
      /\ now' = now
  BY DEF Release
<1>2. OffersShort'
  BY <1>0, <1>1 DEF OffersShort, TypeOK, Nothing
<1>3. \A j \in Pool : expiry'[j] = expiry[j] \/ expiry'[j] = 0
  BY <1>0 DEF Release, Forget, TypeOK
<1>4. \A j \in Pool : mac[j] = c => expiry'[j] = 0
  <2>1. CASE LeasesOf(c) = {}
    BY <2>1 DEF LeasesOf
  <2>2. CASE \E i \in Pool : IsFirst(i, LeasesOf(c)) /\ Forget(i)
    BY <1>0, <2>2 DEF IsFirst, LeasesOf, Forget, HeldInv, DhcpInv, OneLeaseEach, TypeOK
  <2> QED BY <2>1, <2>2 DEF Release
<1>5. ASSUME NEW j \in Pool, expiry'[j] > now'
      PROVE  \E d \in Clients : Holds(j, offered[d])' \/ Holds(j, leased[d])'
  <2>1. expiry'[j] = expiry[j] /\ expiry[j] > now /\ mac[j] # c
    BY <1>0, <1>1, <1>3, <1>4, <1>5 DEF TypeOK
  <2>2. PICK d \in Clients : Holds(j, offered[d]) \/ Holds(j, leased[d])
    BY <1>0, <2>1 DEF Held
  <2>3. mac[j] = d
    BY <2>1, <2>2, HolderIsOwner DEF HeldInv
  <2> QED BY <1>0, <1>1, <2>1, <2>2, <2>3 DEF Holds, TypeOK
<1> QED BY <1>2, <1>5 DEF HeldInv, Held

LEMMA StepHeld == HeldInv /\ [Next]_vars => HeldInv'
<1> SUFFICES ASSUME HeldInv, [Next]_vars PROVE HeldInv'
  OBVIOUS
<1>0. DhcpInv'
  BY StepInv DEF HeldInv
<1>1. CASE \E c \in Clients : Discover(c)
  BY <1>0, <1>1, DiscoverHeld
<1>2. CASE \E c \in Clients : \E want \in Wanted(c) : Request(c, want)
  BY <1>0, <1>2, RequestHeld
<1>3. CASE \E c \in Clients : Release(c)
  BY <1>0, <1>3, ReleaseHeld
<1>4. CASE Reopen
  BY <1>0, <1>4 DEF Reopen, HeldInv, DhcpInv, TypeOK, Held, OffersShort, Nothing
<1>5. CASE Tick
  <2>1. TypeOK /\ Held /\ OffersShort
    BY DEF HeldInv, DhcpInv
  <2>2. now' = now + 1 /\ UNCHANGED <<expiry, offered, leased>>
    BY <1>5 DEF Tick
  <2>3. Held'
    <3> SUFFICES ASSUME NEW i \in Pool, expiry'[i] > now'
                 PROVE  \E d \in Clients : Holds(i, offered[d])' \/ Holds(i, leased[d])'
      BY DEF Held
    <3>1. expiry[i] > now
      BY <2>1, <2>2 DEF TypeOK
    <3>2. PICK d \in Clients : Holds(i, offered[d]) \/ Holds(i, leased[d])
      BY <2>1, <3>1 DEF Held
    <3> QED BY <2>2, <3>2 DEF Holds
  <2>4. OffersShort'
    BY <2>1, <2>2 DEF OffersShort, TypeOK, Promises
  <2> QED BY <1>0, <2>3, <2>4 DEF HeldInv
<1>6. CASE UNCHANGED vars
  BY <1>0, <1>6 DEF vars, HeldInv, Held, Holds, OffersShort
<1> QED BY <1>1, <1>2, <1>3, <1>4, <1>5, <1>6 DEF Next

\* A client that gets no address comes when each one is promised to another: the
\* leases of clients that left (RELEASE, DECLINE, expiry) are given away again.
THEOREM AllUsable == Spec => []NoneWithheld
<1>1. HeldInv => NoneWithheld
  <2> SUFFICES ASSUME HeldInv, NEW c \in Clients, Candidates(c) = {}, NEW i \in Pool
               PROVE  \E d \in Clients : (Live(offered[d]) /\ offered[d].ip = i)
                                        \/ (Live(leased[d]) /\ leased[d].ip = i)
    BY DEF NoneWithheld
  <2>1. expiry[i] > now
    <3>1. i \notin Free
      BY DEF Candidates
    <3>2. now \in Nat /\ expiry[i] \in Nat
      BY DEF HeldInv, DhcpInv, TypeOK
    <3> QED BY <3>1, <3>2 DEF Free
  <2> QED BY <2>1 DEF HeldInv, Held, Holds, Live
<1> QED BY HeldInit, StepHeld, <1>1, PTL DEF Spec
=============================================================================
