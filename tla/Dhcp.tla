-------------------------------- MODULE Dhcp --------------------------------
(* The dhcp application: clients that obtain an address in two calls,        *)
(* discover and request (client.c), from one server (server.c).  The server  *)
(* has a thread per client interface; the threads share next_offer_octet and *)
(* routing_table under one mutex.                                            *)
(*                                                                           *)
(* An address is its last octet: the subnet is always the server's.  Zero is *)
(* the code's "unassigned"; the subnet's octet 0 is never offered, so the    *)
(* two do not meet.  siaddr always carries my_ip, which discover wrote.      *)
EXTENDS Integers, FiniteSets

CONSTANTS DhcpClients,
          OCTETS,      \* values of next_offer_octet: 2^8 in the code
          my_ip,       \* the server's own octet
          Free         \* the mutex is held by nobody

ASSUME AddressAssumption ==
  /\ OCTETS \in Nat \ {0, 1} /\ my_ip \in 1..(OCTETS - 1)
  /\ Free \notin DhcpClients

VARIABLES
  dhcpPc,                  \* where each client's call is, in client and server
  dhcpLock,            \* the client whose thread holds the mutex, or Free
  next_offer_octet,
  routing_table,       \* address of each client as the server knows it
  offer,               \* what discover returned, or is about to
  ip                   \* address of each client as the client knows it

dhcpVars == <<dhcpPc, dhcpLock, next_offer_octet, routing_table, offer, ip>>

Octets == 0..(OCTETS - 1)
Unassigned == 0

DhcpInit ==
  /\ dhcpPc = [c \in DhcpClients |-> "discover"]
  /\ dhcpLock = Free
  /\ next_offer_octet = 0
  /\ routing_table = [c \in DhcpClients |-> Unassigned]
  /\ offer = [c \in DhcpClients |-> Unassigned]
  /\ ip = [c \in DhcpClients |-> Unassigned]

Goto(c, label) == dhcpPc' = [dhcpPc EXCEPT ![c] = label]
-----------------------------------------------------------------------------
(* discover                                                                  *)

DiscoverLock(c) ==
  /\ dhcpPc[c] = "discover" /\ dhcpLock = Free
  /\ dhcpLock' = c /\ Goto(c, "offer")
  /\ UNCHANGED <<next_offer_octet, routing_table, offer, ip>>

NextOctet(o) == (o + 1) % OCTETS

\* Mutant: the server's own address is offered.
Suitable_own(o) == o # 0 /\ \A c \in DhcpClients : routing_table[c] # o
Suitable(o) == o # 0 /\ o # my_ip /\ \A c \in DhcpClients : routing_table[c] # o

\* One round of the do-while loop.
Offer(c) ==
  /\ dhcpPc[c] = "offer"
  /\ offer' = [offer EXCEPT ![c] = next_offer_octet]
  /\ next_offer_octet' = NextOctet(next_offer_octet)
  /\ IF Suitable(next_offer_octet) THEN Goto(c, "offered") ELSE UNCHANGED dhcpPc
  /\ UNCHANGED <<dhcpLock, routing_table, ip>>

DiscoverUnlock(c) ==
  /\ dhcpPc[c] = "offered"
  /\ dhcpLock' = Free /\ Goto(c, "request")
  /\ UNCHANGED <<next_offer_octet, routing_table, offer, ip>>
-----------------------------------------------------------------------------
(* request                                                                   *)

\* Mutant: the table is tested outside the lock.
RequestLock_not(c) ==
  /\ dhcpPc[c] = "request"
  /\ dhcpLock' = c /\ Goto(c, "check")
  /\ UNCHANGED <<next_offer_octet, routing_table, offer, ip>>
RequestLock(c) ==
  /\ dhcpPc[c] = "request" /\ dhcpLock = Free
  /\ dhcpLock' = c /\ Goto(c, "check")
  /\ UNCHANGED <<next_offer_octet, routing_table, offer, ip>>

Granted(c) ==
  \/ routing_table[c] = offer[c]
  \/ /\ offer[c] # my_ip /\ offer[c] # Unassigned
     /\ \A d \in DhcpClients : routing_table[d] # offer[c]

Check(c) ==
  /\ dhcpPc[c] = "check"
  /\ Goto(c, IF Granted(c) THEN "assign" ELSE "refuse")
  /\ UNCHANGED <<dhcpLock, next_offer_octet, routing_table, offer, ip>>

Assigned(c) == [routing_table EXCEPT ![c] = offer[c]]

\* DHCPACK.
Assign(c) ==
  /\ dhcpPc[c] = "assign"
  /\ routing_table' = Assigned(c)
  /\ ip' = [ip EXCEPT ![c] = offer[c]]
  /\ dhcpLock' = Free /\ Goto(c, "done")
  /\ UNCHANGED <<next_offer_octet, offer>>

\* DHCPNAK: the client goes round its loop again.
Refuse(c) ==
  /\ dhcpPc[c] = "refuse"
  /\ dhcpLock' = Free /\ Goto(c, "discover")
  /\ UNCHANGED <<next_offer_octet, routing_table, offer, ip>>
-----------------------------------------------------------------------------
DhcpStep(c) == \/ DiscoverLock(c) \/ Offer(c) \/ DiscoverUnlock(c)
           \/ RequestLock(c) \/ Check(c) \/ Assign(c) \/ Refuse(c)

DhcpNext == \E c \in DhcpClients : DhcpStep(c)
-----------------------------------------------------------------------------
(* Properties                                                                *)

Labels == {"discover", "offer", "offered", "request", "check", "assign",
           "refuse", "done"}

DhcpTypeOK ==
  /\ dhcpPc \in [DhcpClients -> Labels]
  /\ dhcpLock \in DhcpClients \cup {Free}
  /\ next_offer_octet \in Octets
  /\ routing_table \in [DhcpClients -> Octets]
  /\ offer \in [DhcpClients -> Octets]
  /\ ip \in [DhcpClients -> Octets]

\* No two clients hold one address, none holds the server's, and the server's
\* table says so, although an address is offered in one critical section and
\* assigned in another.
UniqueAddresses ==
  \A c \in DhcpClients :
    ip[c] # Unassigned =>
      /\ ip[c] # my_ip /\ ip[c] = routing_table[c]
      /\ \A d \in DhcpClients \ {c} : ip[d] # ip[c]

\* A request for an offered address fails only because another client was
\* given it in the meantime (server.c:94).
RefusedOnlyIfTaken ==
  \A c \in DhcpClients :
    dhcpPc[c] = "refuse" => \E d \in DhcpClients \ {c} : routing_table[d] = offer[c]

\* As many clients as there are addresses for have one.
Usable == Octets \ {0, my_ip}
DhcpDone == LET served == {c \in DhcpClients : ip[c] # Unassigned}
            IN  served = DhcpClients \/ Cardinality(served) = Cardinality(Usable)
=============================================================================
