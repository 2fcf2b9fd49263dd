----------------------------- MODULE DhcpClient -----------------------------
(***************************************************************************)
(* The poll-driven DHCP client of components/w5500_eth/w5500_dhcp.c, with  *)
(* its lease cached in flash, and the server and the network it talks to.  *)
(* The actions here are parts of the steps of EthLink, which calls them:   *)
(* DhcpInit is w5500_dhcp_init, DhcpRun is one call of w5500_dhcp_run after *)
(* one of w5500_dhcp_tick_1s.                                              *)
(*                                                                         *)
(* Times are ages in seconds.  A reply counts only when it carries the     *)
(* client's transaction id, so a step that changes the id empties the sets *)
(* of messages on their way; a DECLINE is the server's business whatever   *)
(* the id.  Messages may be lost, delayed and reordered.                   *)
(*                                                                         *)
(* The server is external: it reserves one address for the device, grants  *)
(* that one and refuses others, and takes the hint of a DECLINE.           *)
(***************************************************************************)
EXTENDS Naturals, FiniteSets

CONSTANTS
  Addr,           \* the addresses the server may reserve for the device
  None,           \* 0.0.0.0
  StrangerAddr,   \* what the server grants to a hardware address it does not know
  T1, T2, LeaseEnd,   \* ages of a lease at renewal, rebinding and expiry
  Resend              \* seconds between two renewals (8)

ASSUME AddrAssumption == None \notin Addr /\ StrangerAddr \notin Addr \cup {None}
ASSUME LeaseAssumption ==
  /\ {T1, T2, LeaseEnd, Resend} \subseteq Nat \ {0}
  /\ T1 <= T2 /\ T2 <= LeaseEnd

VARIABLES
  phase,       \* s_phase
  retries,     \* s_retries
  sentAgo,     \* s_ticks - s_phase_sent_at
  leaseAge,    \* s_ticks - s_bound_at, while a lease is held
  offered,     \* s_offered_ip
  leaseIp,     \* s_lease_ip
  mac,         \* s_mac: is it the device's own?
  cache,       \* the address of the lease cached in flash
  sipr,        \* the address programmed into the chip
  toServer,    \* the device's messages on their way
  inbox,       \* replies in the socket
  reserved,    \* the server's reservation for the device
  taken        \* addresses that other hosts answer for

clientVars == <<phase, retries, sentAgo, leaseAge, offered, leaseIp, mac>>
flashVars  == <<cache>>
netVars    == <<toServer, inbox>>
serverVars == <<reserved, taken>>
dhcpVars   == <<clientVars, flashVars, sipr, netVars, serverVars>>

Retries   == 3                                  \* PHASE_RETRIES
MaxWait   == 4                                  \* PHASE_TIMEOUT_S
Timeout   == IF retries < 2 THEN retries + 1 ELSE MaxWait    \* phase_timeout
WaitBound == IF Resend > MaxWait THEN Resend ELSE MaxWait

Phases == {"init", "selecting", "requesting", "rebooting", "leased", "renewing", "rebinding"}

Message(type, ip) == [type |-> type, ip |-> ip, own |-> mac]

Declines == {m \in toServer : m.type = "decline"}

DhcpStart ==
  /\ phase = "init" /\ retries = 0 /\ sentAgo = 0 /\ leaseAge = 0
  /\ offered = None /\ leaseIp = None /\ mac = TRUE
  /\ toServer = {} /\ inbox = {}

-----------------------------------------------------------------------------
(* The client.                                                             *)

\* w5500_dhcp_init: the cached lease is programmed before the server confirms
\* it; without one the address is cleared and the next run discovers.  s_mac is
\* read from the chip, whose registers may have been lost.
DhcpInit(macIntact) ==
  /\ retries' = 0 /\ sentAgo' = 0 /\ leaseAge' = 0
  /\ mac' = macIntact /\ leaseIp' = cache /\ sipr' = cache
  /\ inbox' = {}
  /\ IF cache # None
     THEN /\ phase' = "rebooting"
          /\ toServer' = Declines \cup {[type |-> "request", ip |-> cache, own |-> macIntact]}
     ELSE phase' = "init" /\ toServer' = Declines
  /\ UNCHANGED <<offered, flashVars, serverVars>>

Got(type) == {m \in inbox : m.type = type}

\* The tick that precedes every run, and how long the last frame has waited.
Waited == sentAgo + 1
Age == leaseAge + 1

\* restart_discovery: a new transaction.
RestartDiscovery ==
  /\ phase' = "init" /\ retries' = 0 /\ leaseAge' = 0 /\ sentAgo' = 0
  /\ toServer' = Declines

\* drop_lease.
DropLease == sipr' = None /\ leaseIp' = None

\* bind_lease: program, date and cache the lease.
BindLease(ip) ==
  /\ leaseIp' = ip /\ sipr' = ip /\ cache' = ip
  /\ phase' = "leased" /\ retries' = 0 /\ leaseAge' = 0 /\ sentAgo' = 0

Send(m) == toServer' = toServer \cup {m} /\ sentAgo' = 0

Discover ==
  /\ phase = "init"
  /\ phase' = "selecting" /\ Send(Message("discover", None))
  /\ UNCHANGED <<retries, leaseAge, offered, leaseIp, cache, sipr>>

TakeOfferUnread ==
  /\ phase = "selecting" /\ Got("offer") # {}
  /\ Send(Message("request", offered))
  /\ phase' = "requesting" /\ retries' = 0
  /\ UNCHANGED <<leaseAge, offered, leaseIp, cache, sipr>>

\* An OFFER is taken up; of several in the socket the last one read counts.
TakeOffer ==
  /\ phase = "selecting"
  /\ \E o \in Got("offer") :
       offered' = o.ip /\ Send(Message("request", o.ip))
  /\ phase' = "requesting" /\ retries' = 0
  /\ UNCHANGED <<leaseAge, leaseIp, cache, sipr>>

NeverInUse(ip) == FALSE

\* lease_ip_in_use: does another host answer the ARP probe?
InUse(ip) == ip \in taken

\* An ACK while requesting is probed unless it is for the address held.
ProbeAndBind ==
  /\ phase = "requesting"
  /\ \E a \in Got("ack") :
       IF a.ip # leaseIp /\ InUse(a.ip)
       THEN /\ phase' = "init" /\ retries' = 0 /\ leaseAge' = 0 /\ sentAgo' = 0
            /\ toServer' = Declines \cup {Message("decline", a.ip)}
            /\ UNCHANGED <<leaseIp, cache, sipr>>
       ELSE BindLease(a.ip) /\ UNCHANGED toServer
  /\ UNCHANGED offered

\* An ACK for the address the client asked to keep.
Confirmed ==
  /\ phase \in {"rebooting", "renewing", "rebinding"}
  /\ \E a \in Got("ack") : BindLease(a.ip)
  /\ UNCHANGED <<toServer, offered>>

\* A NAK hands the address back; only a rejected cached lease is forgotten.
Refused ==
  /\ phase \in {"requesting", "rebooting", "renewing", "rebinding"}
  /\ Got("ack") = {} /\ Got("nak") # {}
  /\ cache' = IF phase = "rebooting" THEN None ELSE cache
  /\ DropLease /\ RestartDiscovery
  /\ UNCHANGED offered

\* No reply this run to what the phase waits for.
Unanswered ==
  CASE phase = "selecting" -> Got("offer") = {}
    [] phase \in {"requesting", "rebooting", "renewing", "rebinding"} ->
         Got("ack") = {} /\ Got("nak") = {}
    [] OTHER -> FALSE

Asking == phase \in {"selecting", "requesting", "rebooting"}

\* What the phase sends again.
Question ==
  CASE phase = "selecting"  -> Message("discover", None)
    [] phase = "requesting" -> Message("request", offered)
    [] OTHER                -> Message("request", leaseIp)

AskForever ==
  /\ Asking /\ Unanswered /\ Waited >= Timeout
  /\ retries' = retries + 1 /\ Send(Question)
  /\ UNCHANGED <<phase, leaseAge, offered, leaseIp, cache, sipr>>

Ask ==
  /\ Asking /\ Unanswered
  /\ Waited >= Timeout /\ retries + 1 < Retries
  /\ retries' = retries + 1 /\ Send(Question)
  /\ UNCHANGED <<phase, leaseAge, offered, leaseIp, cache, sipr>>

GiveUpDropping ==
  /\ Asking /\ Unanswered
  /\ Waited >= Timeout /\ retries + 1 >= Retries
  /\ RestartDiscovery /\ DropLease
  /\ UNCHANGED <<offered, cache>>

\* Out of retries: discover anew, and keep whatever address is programmed.
GiveUp ==
  /\ Asking /\ Unanswered
  /\ Waited >= Timeout /\ retries + 1 >= Retries
  /\ RestartDiscovery
  /\ UNCHANGED <<offered, leaseIp, cache, sipr>>

\* T1 and T2: a new transaction asks to keep the lease.
Renew ==
  /\ phase = "leased" /\ Age >= T1
  /\ phase' = IF Age >= T2 THEN "rebinding" ELSE "renewing"
  /\ toServer' = Declines \cup {Message("request", leaseIp)}
  /\ sentAgo' = 0 /\ leaseAge' = Age
  /\ UNCHANGED <<retries, offered, leaseIp, cache, sipr>>

Expire ==
  /\ phase \in {"renewing", "rebinding"} /\ Unanswered
  /\ Age >= LeaseEnd
  /\ RestartDiscovery
  /\ UNCHANGED <<offered, leaseIp, cache, sipr>>

\* Past T2 any server may answer; otherwise the request is repeated.
RenewAgain ==
  /\ phase \in {"renewing", "rebinding"} /\ Unanswered /\ Age < LeaseEnd
  /\ \/ phase = "renewing" /\ Age >= T2 /\ phase' = "rebinding"
     \/ ~(phase = "renewing" /\ Age >= T2) /\ Waited >= Resend /\ phase' = phase
  /\ Send(Question) /\ leaseAge' = Age
  /\ UNCHANGED <<retries, offered, leaseIp, cache, sipr>>

\* Nothing is due.
Wait ==
  /\ \/ phase = "leased" /\ Age < T1
     \/ Asking /\ Unanswered /\ Waited < Timeout
     \/ /\ phase \in {"renewing", "rebinding"} /\ Unanswered /\ Age < LeaseEnd
        /\ ~(phase = "renewing" /\ Age >= T2) /\ Waited < Resend
  /\ sentAgo' = IF phase = "leased" THEN 0 ELSE Waited
  /\ leaseAge' = IF Asking THEN 0 ELSE Age
  /\ UNCHANGED <<phase, retries, offered, leaseIp, cache, sipr, toServer>>

\* w5500_dhcp_run: the socket is drained, then the phase takes its step.
\* Only GiveUp of a fresh lease reports failure.
Binds == ProbeAndBind \/ Confirmed
Proceeds == Discover \/ TakeOffer \/ Refused \/ Ask \/ Renew \/ Expire \/ RenewAgain \/ Wait

DhcpRun ==
  /\ Binds \/ Proceeds \/ GiveUp
  /\ inbox' = {}
  /\ UNCHANGED <<mac, serverVars>>

-----------------------------------------------------------------------------
(* The network and the server.                                             *)

Lost(m) ==
  /\ toServer' = toServer \ {m}
  /\ UNCHANGED <<clientVars, flashVars, sipr, inbox, serverVars>>

Assigned(m) == IF m.own THEN reserved ELSE StrangerAddr

Reply(m) ==
  IF m.type = "discover" THEN [type |-> "offer", ip |-> Assigned(m)]
  ELSE [type |-> IF m.ip = Assigned(m) THEN "ack" ELSE "nak", ip |-> m.ip]

Answer(m) ==
  /\ m.type # "decline"
  /\ toServer' = toServer \ {m} /\ inbox' = inbox \cup {Reply(m)}
  /\ UNCHANGED <<clientVars, flashVars, sipr, serverVars>>

\* A declined reservation is replaced.
HeedDecline(m) ==
  /\ m.type = "decline" /\ toServer' = toServer \ {m}
  /\ IF m.ip = reserved THEN reserved' \in Addr \ {m.ip} ELSE reserved' = reserved
  /\ UNCHANGED <<clientVars, flashVars, sipr, inbox, taken>>

\* The network's owner moves the reservation, or another host takes or leaves an
\* address.
Reconfigure ==
  /\ reserved' \in Addr \ {reserved}
  /\ UNCHANGED <<clientVars, flashVars, sipr, netVars, taken>>

OtherHost ==
  /\ \E ip \in Addr : taken' = IF ip \in taken THEN taken \ {ip} ELSE taken \cup {ip}
  /\ UNCHANGED <<clientVars, flashVars, sipr, netVars, reserved>>

-----------------------------------------------------------------------------
DhcpTypeOK ==
  /\ phase \in Phases /\ retries \in 0..(Retries - 1)
  /\ sentAgo \in 0..WaitBound /\ leaseAge \in 0..LeaseEnd
  /\ {offered, leaseIp, cache} \subseteq Addr \cup {None, StrangerAddr}
  /\ mac \in BOOLEAN
  /\ \A m \in toServer : m.type \in {"discover", "request", "decline"}
  /\ \A m \in inbox : m.type \in {"offer", "ack", "nak"}
  /\ reserved \in Addr /\ taken \subseteq Addr
=============================================================================
