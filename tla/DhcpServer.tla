----------------------------- MODULE DhcpServer -----------------------------
(***************************************************************************)
(* The DHCP server of the setup access point (dhcp_server.c): a table of   *)
(* leases handed out to the Wi-Fi clients of the access point, rebuilt     *)
(* empty each time the access point opens.                                 *)
(*                                                                         *)
(* Each step is one message handled by dhcps_handle. Messages may be lost  *)
(* or sent again; one hop of Wi-Fi does not reorder those of one client.   *)
(***************************************************************************)
EXTENDS Integers

CONSTANTS
  Clients,    \* MAC addresses
  None,       \* the MAC of an empty lease, or no address
  Elsewhere,  \* any address that is not of the pool
  Leases,     \* DHCPS_LEASES: the pool is 1..Leases
  LeaseTime,  \* DHCPS_LEASE_S
  OfferTime,  \* DHCPS_OFFER_S
  MaxTime     \* bound on the clock

Pool == 1..Leases

ASSUME DhcpAssumption ==
  /\ None \notin Clients /\ None \notin Pool /\ Elsewhere \notin Pool
  /\ Leases \in Nat \ {0}
  /\ LeaseTime \in Nat /\ OfferTime \in 0..LeaseTime
  /\ MaxTime \in Nat

VARIABLES
  mac, expiry,      \* struct dhcps
  now,              \* seconds
  offered, leased   \* what each client was last told, and until when it may rely on it

vars == <<mac, expiry, now, offered, leased>>

Nothing == [ip |-> None, until |-> 0]

Promises == [ip : Pool \cup {None}, until : Nat]

TypeOK ==
  /\ mac \in [Pool -> Clients \cup {None}]
  /\ expiry \in [Pool -> Nat]
  /\ now \in Nat
  /\ offered \in [Clients -> Promises]
  /\ leased \in [Clients -> Promises]

Init ==
  /\ mac = [i \in Pool |-> None] /\ expiry = [i \in Pool |-> 0]
  /\ now = 0
  /\ offered = [c \in Clients |-> Nothing] /\ leased = [c \in Clients |-> Nothing]

-----------------------------------------------------------------------------

IsFirst(i, S) == i \in S /\ \A j \in S : i <= j

\* lease_for without alloc.
LeasesOf(c) == {i \in Pool : mac[i] = c}

\* A lease to give away, even with its former MAC still on it.
FreeLate == {i \in Pool : expiry[i] <= now + 1}                    \* mutant
Free == {i \in Pool : expiry[i] <= now}

\* lease_for with alloc: its own, even expired, or else the first free one.
Candidates(c) == IF LeasesOf(c) # {} THEN LeasesOf(c) ELSE Free

OfferOver(i) == now + OfferTime                                    \* mutant
OfferUntil(i) == IF expiry[i] < now + OfferTime THEN now + OfferTime ELSE expiry[i]

Discover(c) ==
  \/ /\ Candidates(c) = {}
     /\ UNCHANGED vars
  \/ \E i \in Pool :
       /\ IsFirst(i, Candidates(c))
       /\ mac' = [mac EXCEPT ![i] = c]
       /\ expiry' = [expiry EXCEPT ![i] = OfferUntil(i)]
       /\ offered' = [offered EXCEPT ![c] = [ip |-> i, until |-> now + OfferTime]]
       /\ UNCHANGED <<now, leased>>

\* A REQUEST of this address is acknowledged, not refused (NAK).
Granted(c, want) == IsFirst(want, LeasesOf(c))

\* REQUEST of an address. One addressed to another server is not answered, and
\* changes nothing.
Request(c, want) ==
  /\ \/ /\ Granted(c, want)
        /\ expiry' = [expiry EXCEPT ![want] = now + LeaseTime]
        /\ leased' = [leased EXCEPT ![c] = [ip |-> want, until |-> now + LeaseTime]]
     \/ /\ ~Granted(c, want)
        /\ leased' = [leased EXCEPT ![c] = Nothing]
        /\ UNCHANGED expiry
  /\ UNCHANGED <<mac, now, offered>>

\* RELEASE and DECLINE: the client gives up what it was told.
MacOnly(i) == mac' = [mac EXCEPT ![i] = None] /\ UNCHANGED expiry  \* mutant
Forget(i) == mac' = [mac EXCEPT ![i] = None] /\ expiry' = [expiry EXCEPT ![i] = 0]

Release(c) ==
  /\ \/ LeasesOf(c) = {} /\ UNCHANGED <<mac, expiry>>
     \/ \E i \in Pool : IsFirst(i, LeasesOf(c)) /\ Forget(i)
  /\ offered' = [offered EXCEPT ![c] = Nothing] /\ leased' = [leased EXCEPT ![c] = Nothing]
  /\ UNCHANGED now

\* dhcps_init, when the access point opens: it had no client left.
Reopen ==
  /\ mac' = [i \in Pool |-> None] /\ expiry' = [i \in Pool |-> 0]
  /\ offered' = [c \in Clients |-> Nothing] /\ leased' = [c \in Clients |-> Nothing]
  /\ UNCHANGED now

Tick ==
  /\ now < MaxTime
  /\ now' = now + 1
  /\ UNCHANGED <<mac, expiry, offered, leased>>

-----------------------------------------------------------------------------
(* The clients.                                                            *)

Live(promise) == promise.until > now

\* A client asks for an address it may rely on, or, having none, for any it
\* remembers from another day or another network.
Wanted(c) ==
  LET told == {p \in {offered[c], leased[c]} : Live(p)}
  IN  IF told # {} THEN {p.ip : p \in told} ELSE Pool \cup {Elsewhere}

Next ==
  \/ \E c \in Clients : \/ Discover(c)
                        \/ \E want \in Wanted(c) : Request(c, want)
                        \/ Release(c)
  \/ Reopen
  \/ Tick

Spec == Init /\ [][Next]_vars

-----------------------------------------------------------------------------

\* No address is in use by two clients: the leases they were granted and that
\* have not run out are of different addresses.
AddressUnique ==
  \A c, d \in Clients :
    Live(leased[c]) /\ Live(leased[d]) /\ leased[c].ip = leased[d].ip => c = d

\* An offer holds for OfferTime and a lease for LeaseTime: whoever else asks
\* meanwhile, the client that requests that address is not refused.
PromiseKept ==
  \A c \in Clients : \A p \in {offered[c], leased[c]} : Live(p) => Granted(c, p.ip)

\* Unanswered is the client that comes when every address is promised to another:
\* none is lost to clients that came and went.
NoneWithheld ==
  (\E c \in Clients : Candidates(c) = {}) =>
    \A i \in Pool : \E d \in Clients :
      (Live(offered[d]) /\ offered[d].ip = i) \/ (Live(leased[d]) /\ leased[d].ip = i)
=============================================================================
