------------------------------ MODULE EthLink ------------------------------
(***************************************************************************)
(* W5500Eth (components/w5500_eth/w5500_eth.cpp): bringing the interface   *)
(* up at boot, and the health watchdog that loop() runs once a second: it  *)
(* rebuilds a chip that lost its registers, restarts DHCP when the link    *)
(* returns, serves the DHCP client and restarts the device when the chip   *)
(* stays dead.  The callback that a rebuild triggers reopens the NTP       *)
(* socket (NtpServer::reopenSocket).                                       *)
(*                                                                         *)
(* Between any two steps the cable may be pulled, the chip may stop        *)
(* answering on SPI or lose its registers, and the power may fail.  A      *)
(* chip that stops answering stays so until a pass has seen it.            *)
(***************************************************************************)
EXTENDS DhcpClient

CONSTANTS
  StaticAddr,    \* the configured static address
  FallbackAddr,  \* 192.168.1.2
  Wedge,         \* seconds a chip may be dead before the restart (60)
  StartLimit,    \* seconds start() waits for a lease (30)
  MaxFaults      \* bound on faults

ASSUME StaticAssumption ==
  {StaticAddr, FallbackAddr} \cap (Addr \cup {None, StrangerAddr}) = {}
ASSUME LimitAssumption ==
  {Wedge, MaxFaults} \subseteq Nat /\ StartLimit \in Nat \ {0}

VARIABLES
  pc,            \* where start() or loop() is
  useDhcp,
  linkUp,
  chipOk, phyOk, \* what the pass has read; chipOk is TRUE before the first
  unhealthy,     \* seconds since unhealthySinceUs, plus one; 0 when it is 0
  elapsed,       \* elapsedMs of start(), in seconds
  ntp,           \* the NTP socket: "open", "closed", or "never" when begin() failed
  chip,          \* does the chip answer on SPI?
  regs,          \* are its registers as programmed?
  cable,
  faults

passVars == <<linkUp, chipOk, phyOk, unhealthy, elapsed>>
chipVars == <<chip, regs>>
vars == <<dhcpVars, pc, useDhcp, passVars, ntp, chipVars, cable, faults>>

Init ==
  /\ DhcpStart /\ cache = None /\ sipr = None /\ reserved \in Addr /\ taken = {}
  /\ pc = "boot" /\ useDhcp \in BOOLEAN
  /\ linkUp = FALSE /\ chipOk = TRUE /\ phyOk = FALSE /\ unhealthy = 0 /\ elapsed = 0
  /\ ntp = "never" /\ chip = "ok" /\ regs = "lost" /\ cable \in BOOLEAN
  /\ faults = 0

-----------------------------------------------------------------------------
(* Boot: begin(), start() and the NTP server's begin().                    *)

\* begin(): a chip that does not answer leaves the device without network.  The
\* reset line may bring a dead one back.
Begin ==
  /\ pc = "boot"
  /\ \/ /\ chip' = "ok" /\ regs' = "set" /\ pc' = "start"
        /\ sipr' = IF useDhcp THEN None ELSE StaticAddr
     \/ (chip = "dead" /\ pc' = "gone" /\ UNCHANGED <<chipVars, sipr>>)
  /\ UNCHANGED <<clientVars, cache, netVars, serverVars, useDhcp, passVars, ntp, cable, faults>>

\* start(): a link within 5 s starts DHCP; without one loop() will.
AwaitLink ==
  /\ pc = "start"
  /\ IF chip = "ok" /\ cable
     THEN /\ linkUp' = TRUE
          /\ IF useDhcp THEN DhcpInit(regs = "set") /\ pc' = "acquire"
             ELSE UNCHANGED dhcpVars /\ pc' = "serve"
     ELSE UNCHANGED <<dhcpVars, linkUp>> /\ pc' = "serve"
  /\ elapsed' = 0
  /\ UNCHANGED <<useDhcp, chipOk, phyOk, unhealthy, ntp, chipVars, cable, faults>>

Late == elapsed + 1 >= StartLimit

\* A second of start()'s wait for a lease.
Acquire ==
  /\ pc = "acquire" /\ chip = "ok"
  /\ \/ /\ Binds \/ Proceeds
        /\ pc' = IF phase' = "leased" THEN "serve" ELSE IF Late THEN "fallback" ELSE pc
     \/ /\ GiveUp
        /\ pc' = IF Late \/ phase # "rebooting" THEN "fallback" ELSE pc
  /\ inbox' = {} /\ elapsed' = elapsed + 1
  /\ UNCHANGED <<mac, serverVars, useDhcp, linkUp, chipOk, phyOk, unhealthy, ntp, chipVars,
                 cable, faults>>

\* A run that cannot open its socket only lets the tick pass.
TickOnly ==
  /\ sentAgo' = IF sentAgo < WaitBound THEN Waited ELSE sentAgo
  /\ leaseAge' = IF phase \in {"leased", "renewing", "rebinding"} /\ leaseAge < LeaseEnd
                 THEN Age ELSE leaseAge
  /\ UNCHANGED <<phase, retries, offered, leaseIp, mac, cache, sipr, netVars, serverVars>>

AcquireDead ==
  /\ pc = "acquire" /\ chip = "dead"
  /\ TickOnly /\ elapsed' = elapsed + 1
  /\ pc' = IF Late THEN "fallback" ELSE pc
  /\ UNCHANGED <<useDhcp, linkUp, chipOk, phyOk, unhealthy, ntp, chipVars, cable, faults>>

\* No lease: 192.168.1.2, while DHCP goes on in loop().
Fallback ==
  /\ pc = "fallback" /\ pc' = "serve"
  /\ sipr' = IF chip = "ok" THEN FallbackAddr ELSE sipr
  /\ UNCHANGED <<clientVars, cache, netVars, serverVars, useDhcp, passVars, ntp, chipVars,
                 cable, faults>>

\* NtpServer::begin: without its socket the server never opens one.
Serve ==
  /\ pc = "serve" /\ pc' = "idle"
  /\ ntp' = IF chip = "ok" THEN "open" ELSE "never"
  /\ chipOk' = TRUE /\ elapsed' = 0
  /\ UNCHANGED <<dhcpVars, useDhcp, linkUp, phyOk, unhealthy, chipVars, cable, faults>>

-----------------------------------------------------------------------------
(* loop(): one pass a second.                                              *)

SharIgnored == FALSE

\* VERSIONR is right and SHAR is not, read twice.
SharLost == chip = "ok" /\ regs = "lost"

Aged == IF unhealthy \in 1..(Wedge + 1) THEN unhealthy + 1 ELSE unhealthy

\* reinitChip: a fresh register file with the MAC and the static address.
ReinitChip ==
  /\ regs' = "set" /\ sipr' = IF useDhcp THEN None ELSE StaticAddr
  /\ inbox' = {} /\ ntp' = IF ntp = "open" THEN "closed" ELSE ntp

\* The pass ends early; the link transition of a later one restarts DHCP.
Rebuild ==
  /\ pc = "idle" /\ SharLost
  /\ ReinitChip
  /\ unhealthy' = Aged /\ linkUp' = FALSE /\ chipOk' = TRUE
  /\ pc' = "reopen"
  /\ UNCHANGED <<clientVars, cache, toServer, serverVars, useDhcp, phyOk, elapsed, chip, cable,
                 faults>>

\* The callback's reopenSocket.
Reopen ==
  /\ pc = "reopen" /\ pc' = "idle"
  /\ ntp' = IF ntp = "never" THEN ntp ELSE IF chip = "ok" THEN "open" ELSE "closed"
  /\ UNCHANGED <<dhcpVars, useDhcp, passVars, chipVars, cable, faults>>

CheckHealth ==
  /\ pc = "idle" /\ ~SharLost
  /\ chipOk' = (chip = "ok") /\ phyOk' = (chip = "ok" /\ cable)
  /\ unhealthy' = Aged
  /\ pc' = "link"
  /\ UNCHANGED <<dhcpVars, useDhcp, linkUp, elapsed, ntp, chipVars, cable, faults>>

\* A link that returns restarts DHCP.
FollowLink ==
  /\ pc = "link" /\ pc' = "dhcp"
  /\ IF phyOk /\ ~linkUp /\ useDhcp /\ chip = "ok"
     THEN DhcpInit(regs = "set") ELSE UNCHANGED dhcpVars
  /\ linkUp' = phyOk
  /\ UNCHANGED <<useDhcp, chipOk, phyOk, unhealthy, elapsed, ntp, chipVars, cable, faults>>

\* Only a dead chip restarts the device, an unplugged cable does not.
Watch ==
  IF ~chipOk /\ unhealthy > Wedge + 1
  THEN pc' = "boot" /\ unhealthy' = 0 /\ linkUp' = FALSE /\ ntp' = "never"
  ELSE /\ pc' = "idle" /\ UNCHANGED <<linkUp, ntp>>
       /\ unhealthy' = IF chipOk THEN 0 ELSE IF unhealthy = 0 THEN 1 ELSE unhealthy

ServeDhcp ==
  /\ pc = "dhcp"
  /\ IF useDhcp /\ linkUp THEN IF chip = "ok" THEN DhcpRun ELSE TickOnly
     ELSE UNCHANGED dhcpVars
  /\ Watch /\ phyOk' = FALSE
  /\ UNCHANGED <<useDhcp, chipOk, elapsed, chipVars, cable, faults>>

Loop == Rebuild \/ Reopen \/ CheckHealth \/ FollowLink \/ ServeDhcp

-----------------------------------------------------------------------------
(* The world.                                                              *)

Fault == faults < MaxFaults /\ faults' = faults + 1

Network ==
  /\ \E m \in toServer :
       \/ Lost(m)
       \/ chip = "ok" /\ cable /\ (Answer(m) \/ HeedDecline(m))
  /\ UNCHANGED <<pc, useDhcp, passVars, ntp, chipVars, cable, faults>>

Admin ==
  /\ Fault /\ (Reconfigure \/ OtherHost)
  /\ UNCHANGED <<pc, useDhcp, passVars, ntp, chipVars, cable>>

Cable ==
  /\ cable' = ~cable /\ IF cable THEN Fault ELSE UNCHANGED faults
  /\ UNCHANGED <<dhcpVars, pc, useDhcp, passVars, ntp, chipVars>>

ChipDies ==
  /\ Fault /\ chip = "ok" /\ chip' = "dead"
  /\ UNCHANGED <<dhcpVars, pc, useDhcp, passVars, ntp, regs, cable>>

\* What a register loss does: addresses and sockets are gone.
Blank ==
  /\ regs' = "lost" /\ sipr' = None /\ inbox' = {}
  /\ ntp' = IF ntp = "open" THEN "closed" ELSE ntp

LoseRegisters ==
  /\ Fault /\ chip = "ok" /\ regs = "set" /\ pc # "boot" /\ Blank
  /\ UNCHANGED <<clientVars, cache, toServer, serverVars, pc, useDhcp, passVars, chip, cable>>

\* A dead chip answers again, with its registers or without.
ChipRevives ==
  /\ chip = "dead" /\ chip' = "ok"
  /\ (pc = "idle" /\ ~chipOk) \/ pc \in {"acquire", "boot", "gone"}
  /\ Blank \/ UNCHANGED <<regs, sipr, inbox, ntp>>
  /\ UNCHANGED <<clientVars, cache, toServer, serverVars, pc, useDhcp, passVars, cable, faults>>

\* Power fails and returns; the chip starts blank and answering.
PowerCycle ==
  /\ Fault /\ pc # "boot" /\ pc' = "boot" /\ chip' = "ok"
  /\ regs' = "lost" /\ sipr' = None /\ inbox' = {} /\ ntp' = "never"
  /\ linkUp' = FALSE /\ chipOk' = TRUE /\ phyOk' = FALSE /\ unhealthy' = 0 /\ elapsed' = 0
  /\ UNCHANGED <<clientVars, cache, toServer, serverVars, useDhcp, cable>>

World == Network \/ Admin \/ Cable \/ ChipDies \/ LoseRegisters \/ ChipRevives \/ PowerCycle

Device == Begin \/ AwaitLink \/ Acquire \/ AcquireDead \/ Fallback \/ Serve \/ Loop

Next == Device \/ World

Answers(type) ==
  /\ chip = "ok" /\ cable
  /\ \E m \in toServer : m.type = type /\ (Answer(m) \/ HeedDecline(m))
  /\ UNCHANGED <<pc, useDhcp, passVars, ntp, chipVars, cable, faults>>

\* The tasks run; the network, asked again and again, answers.
Fairness ==
  /\ WF_vars(Device)
  /\ \A type \in {"discover", "request"} : SF_vars(Answers(type))

Spec == Init /\ [][Next]_vars /\ Fairness

-----------------------------------------------------------------------------
Places == {"boot", "start", "acquire", "fallback", "serve", "idle", "reopen", "link", "dhcp",
           "gone"}

TypeOK ==
  /\ DhcpTypeOK
  /\ sipr \in Addr \cup {None, StrangerAddr, StaticAddr, FallbackAddr}
  /\ pc \in Places /\ {useDhcp, linkUp, chipOk, phyOk, cable} \subseteq BOOLEAN
  /\ unhealthy \in 0..(Wedge + 2) /\ elapsed \in 0..StartLimit
  /\ ntp \in {"open", "closed", "never"} /\ chip \in {"ok", "dead"} /\ regs \in {"set", "lost"}

\* "The server must keep serving": an address of a lease, once programmed, is
\* given up only when the server refuses it, the chip loses it or the device
\* restarts, never for want of an answer.
KeepsServing ==
  [][(sipr \in Addr /\ sipr' = None) =>
       \/ \E m \in inbox : m.type = "nak"
       \/ regs' = "lost" \/ pc' = "reopen"
       \/ pc' \in {"boot", "start"}]_vars

\* A new lease never puts the device on an address another host answers for,
\* except the one the device already holds as its lease.
NeverDuplicates ==
  [][(phase # "leased" /\ phase' = "leased" /\ sipr' \in taken) => sipr' = leaseIp]_vars

\* A chip that lost its registers never moves the device: loop() takes no new
\* lease as a stranger (the server would hand one to a lost MAC), and no pass
\* ends with the link up and an address other than the lease or the static one.
ServesAsItself ==
  [][pc = "dhcp" /\ pc' = "idle" /\ linkUp' /\ chip = "ok" =>
       IF useDhcp
       THEN /\ phase' = "leased" /\ sipr' # None => sipr' = leaseIp'
            /\ phase = "requesting" /\ phase' = "leased" => sipr' # StrangerAddr
       ELSE regs = "set" => sipr = StaticAddr]_vars

\* Once cable, chip, power and network hold, DHCP settles on the address the
\* server reserves, whatever lease, cache, refusal or outage came before.
Good ==
  /\ useDhcp /\ cable /\ chip = "ok" /\ regs = "set" /\ pc \notin {"boot", "gone"}
  /\ reserved \notin taken

EventuallyBound ==
  \A a \in Addr : <>[](Good /\ reserved = a) => <>[](sipr = a)

=============================================================================
