---------------------------- MODULE EthLinkProofs ----------------------------
(***************************************************************************)
(* Proofs about the link and its DHCP client, for any addresses, any times *)
(* of a lease, any limits and any faults.                                  *)
(***************************************************************************)
EXTENDS EthLink, TLAPS

-----------------------------------------------------------------------------
(* The inductive invariant.                                                *)

Ips == Addr \cup {None, StrangerAddr}

\* What the server grants to the client as it announces itself.
Granted == IF mac THEN Addr ELSE {StrangerAddr}

\* Only a DECLINE outlives the transaction it belongs to, and nobody is granted
\* an address that is not his.
MsgInv ==
  /\ \A m \in toServer :
       /\ m.type \in {"discover", "request", "decline"}
       /\ m.type # "decline" => m.own = mac
  /\ \A m \in inbox :
       m.type \in {"offer", "ack", "nak"} /\ (m.type # "nak" => m.ip \in Granted)

\* A client that asks to keep an address asks for nothing else.
Confirming == phase \in {"rebooting", "renewing", "rebinding"}

RequestInv ==
  Confirming =>
    /\ \A m \in toServer : m.type # "decline" => m.type = "request" /\ m.ip = leaseIp
    /\ \A m \in inbox : m.type # "offer" /\ m.ip = leaseIp

\* An address of a lease is programmed only as long as it is cached.
CacheInv ==
  /\ sipr \in {None, StaticAddr, FallbackAddr, cache}
  /\ pc = "start" => sipr \in {None, StaticAddr}

\* A lease is programmed, unless the chip has lost it, and ends the start.
LeasedInv ==
  /\ useDhcp /\ phase = "leased" => sipr \in {None, leaseIp}
  /\ pc \in {"acquire", "fallback"} => phase # "leased"

\* Without DHCP a chip with its registers has the static address.
StaticInv ==
  ~useDhcp =>
    /\ pc \notin {"acquire", "fallback"} /\ phase = "init"
    /\ regs = "set" => sipr = StaticAddr

\* Where a pass, or the start, can be with a link and with a chip that answered.
LinkInv ==
  /\ pc \in {"boot", "start", "gone", "reopen"} => ~linkUp
  /\ pc = "link" => (phyOk => chipOk)
  /\ pc \in {"dhcp", "idle"} => (linkUp => chipOk)
  /\ pc = "acquire" => elapsed < StartLimit

\* A client with a lost MAC has a chip with lost registers, which the next pass
\* rebuilds before the client is granted anything.
MacInv ==
  useDhcp /\ ~mac /\ linkUp =>
    /\ pc \in {"acquire", "fallback", "serve"} => regs = "lost"
    /\ pc = "idle" /\ chip = "ok" => regs = "lost"
    /\ pc = "link" => ~phyOk
    /\ pc = "dhcp" => chip = "dead" \/ (regs = "lost" /\ phase \in {"init", "rebooting"})

\* A lease runs past its renewal only behind a chip that is dead, and the link
\* is down before the client runs again.
AgeInv ==
  useDhcp /\ phase = "leased" =>
    \/ leaseAge < T1 \/ ~linkUp
    \/ pc = "link" /\ ~phyOk
    \/ pc \in {"idle", "dhcp"} /\ chip = "dead"

IInv ==
  /\ TypeOK /\ MsgInv /\ RequestInv /\ CacheInv /\ LeasedInv /\ StaticInv
  /\ LinkInv /\ MacInv /\ AgeInv

-----------------------------------------------------------------------------
(* Types.                                                                  *)

ClientWords ==
  /\ phase \in Phases /\ retries \in 0..2
  /\ sentAgo \in 0..WaitBound /\ leaseAge \in 0..LeaseEnd
  /\ offered \in Ips /\ leaseIp \in Ips /\ cache \in Ips

LinkWords ==
  /\ sipr \in Ips \cup {StaticAddr, FallbackAddr}
  /\ pc \in Places
  /\ unhealthy \in 0..(Wedge + 2) /\ elapsed \in 0..StartLimit
  /\ ntp \in {"open", "closed", "never"} /\ chip \in {"ok", "dead"} /\ regs \in {"set", "lost"}
  /\ reserved \in Addr /\ taken \subseteq Addr

Flags ==
  /\ mac \in BOOLEAN /\ useDhcp \in BOOLEAN /\ linkUp \in BOOLEAN
  /\ chipOk \in BOOLEAN /\ phyOk \in BOOLEAN /\ cable \in BOOLEAN

\* The constants.
LEMMA Numbers ==
  /\ T1 \in Nat \ {0} /\ T2 \in Nat \ {0} /\ LeaseEnd \in Nat \ {0} /\ Resend \in Nat \ {0}
  /\ T1 <= T2 /\ T2 <= LeaseEnd
  /\ WaitBound \in Nat /\ WaitBound >= 4 /\ WaitBound >= Resend
  /\ Wedge \in Nat /\ StartLimit \in Nat \ {0}
BY LeaseAssumption, LimitAssumption DEF WaitBound, MaxWait

LEMMA Addresses ==
  /\ None \notin Addr /\ StrangerAddr \notin Addr /\ None # StrangerAddr
  /\ StaticAddr \notin Ips /\ FallbackAddr \notin Ips
BY AddrAssumption, StaticAssumption DEF Ips

\* The type invariant, by the kind of variable.
LEMMA TypeParts ==
  TypeOK /\ MsgInv <=> ClientWords /\ LinkWords /\ Flags /\ MsgInv
<1>1. DhcpTypeOK /\ MsgInv <=>
        ClientWords /\ mac \in BOOLEAN /\ reserved \in Addr /\ taken \subseteq Addr /\ MsgInv
  BY DEF DhcpTypeOK, ClientWords, MsgInv, Retries, Ips
<1>2. {useDhcp, linkUp, chipOk, phyOk, cable} \subseteq BOOLEAN
        <=> /\ useDhcp \in BOOLEAN /\ linkUp \in BOOLEAN
            /\ chipOk \in BOOLEAN /\ phyOk \in BOOLEAN /\ cable \in BOOLEAN
  OBVIOUS
<1>3. TypeOK <=>
        /\ DhcpTypeOK
        /\ sipr \in Ips \cup {StaticAddr, FallbackAddr}
        /\ pc \in Places /\ {useDhcp, linkUp, chipOk, phyOk, cable} \subseteq BOOLEAN
        /\ unhealthy \in 0..(Wedge + 2) /\ elapsed \in 0..StartLimit
        /\ ntp \in {"open", "closed", "never"}
        /\ chip \in {"ok", "dead"} /\ regs \in {"set", "lost"}
  BY DEF TypeOK, Ips
<1>4. QED
  BY <1>1, <1>2, <1>3, Zenon DEF LinkWords, Flags

-----------------------------------------------------------------------------
(* What a run of the client leaves.                                        *)

\* The wait for an answer.
LEMMA TimeoutRange == ASSUME ClientWords PROVE Timeout \in 1..4
BY DEF ClientWords, Timeout, MaxWait

\* A start of the client asks for the cached address, if there is one.
LEMMA InitLeaves ==
  ASSUME NEW intact \in BOOLEAN, DhcpInit(intact)
  PROVE  /\ retries' = 0 /\ sentAgo' = 0 /\ leaseAge' = 0 /\ mac' = intact
         /\ leaseIp' = cache /\ sipr' = cache /\ cache' = cache /\ offered' = offered
         /\ inbox' = {} /\ UNCHANGED serverVars
         /\ phase' = IF cache # None THEN "rebooting" ELSE "init"
         /\ \A m \in toServer' :
              \/ m \in toServer /\ m.type = "decline"
              \/ m.type = "request" /\ m.ip = cache /\ m.own = intact /\ cache # None
BY DEF DhcpInit, Declines, flashVars

\* A run keeps the client's words in their ranges, unless the lease it holds has
\* run past its renewal.
LEMMA RunWords ==
  ASSUME ClientWords, mac \in BOOLEAN, MsgInv, DhcpRun, phase = "leased" => leaseAge < T1
  PROVE  ClientWords'
<1> USE Numbers DEF ClientWords, Waited, Age
<1>g. Granted \subseteq Ips /\ None \in Ips
  BY DEF Granted, Ips
<1>m. \A m \in inbox : m.type # "nak" => m.ip \in Ips
  BY <1>g DEF MsgInv
<1>t. Timeout \in 1..4
  BY TimeoutRange
<1>1. CASE ProbeAndBind
  <2>1. PICK k \in Got("ack") :
          IF k.ip # leaseIp /\ InUse(k.ip)
          THEN /\ phase' = "init" /\ retries' = 0 /\ leaseAge' = 0 /\ sentAgo' = 0
               /\ UNCHANGED <<leaseIp, cache>>
          ELSE BindLease(k.ip)
    BY <1>1 DEF ProbeAndBind
  <2>2. k.ip \in Ips /\ offered' = offered
    BY <1>1, <1>m DEF Got, ProbeAndBind
  <2>3. QED
    BY <2>1, <2>2 DEF BindLease, Phases
<1>2. CASE Confirmed
  <2>1. PICK k \in Got("ack") : BindLease(k.ip)
    BY <1>2 DEF Confirmed
  <2>2. k.ip \in Ips /\ offered' = offered
    BY <1>2, <1>m DEF Got, Confirmed
  <2>3. QED
    BY <2>1, <2>2 DEF BindLease, Phases
<1>3. CASE Discover
  BY <1>3 DEF Discover, Send, Phases
<1>4. CASE TakeOffer
  <2>1. PICK o \in Got("offer") : offered' = o.ip
    BY <1>4 DEF TakeOffer
  <2>2. o.ip \in Ips
    BY <2>1, <1>m DEF Got
  <2>3. sentAgo' = 0
    BY <1>4 DEF TakeOffer, Send
  <2>4. QED
    BY <1>4, <2>1, <2>2, <2>3 DEF TakeOffer, Phases
<1>5. CASE Refused
  BY <1>5, <1>g DEF Refused, DropLease, RestartDiscovery, Phases
<1>6. CASE Ask
  BY <1>6 DEF Ask, Send, Retries
<1>7. CASE Renew
  BY <1>7 DEF Renew, Phases
<1>8. CASE Expire
  BY <1>8 DEF Expire, RestartDiscovery, Phases
<1>9. CASE RenewAgain
  BY <1>9 DEF RenewAgain, Send, Phases
<1>10. CASE Wait
  <2>1. sentAgo' \in 0..WaitBound
    BY <1>10, <1>t DEF Wait
  <2>2. leaseAge' \in 0..LeaseEnd
    BY <1>10 DEF Wait, Asking
  <2>3. QED
    BY <1>10, <2>1, <2>2 DEF Wait
<1>11. CASE GiveUp
  BY <1>11 DEF GiveUp, RestartDiscovery, Phases
<1>12. QED
  BY <1>1, <1>2, <1>3, <1>4, <1>5, <1>6, <1>7, <1>8, <1>9, <1>10, <1>11
     DEF DhcpRun, Binds, Proceeds

\* A run reads the socket empty and asks for what its phase wants.
LEMMA RunMessages ==
  ASSUME ClientWords, MsgInv, RequestInv, DhcpRun
  PROVE  MsgInv' /\ RequestInv'
<1>i. inbox' = {} /\ mac' = mac
  BY DEF DhcpRun
<1>d. \A m \in Declines : m \in toServer /\ m.type = "decline"
  BY DEF Declines
<1>1. ASSUME \A m \in toServer' :
               \/ m \in toServer
               \/ m.type \in {"discover", "request", "decline"} /\ m.own = mac
      PROVE  MsgInv'
  BY <1>1, <1>i DEF MsgInv
<1>2. \A m \in toServer' :
               \/ m \in toServer
               \/ m.type \in {"discover", "request", "decline"} /\ m.own = mac
  <2> USE <1>d DEF Send, Message
  <2>1. CASE ProbeAndBind
    BY <2>1 DEF ProbeAndBind
  <2>2. CASE Confirmed \/ Wait
    BY <2>2 DEF Confirmed, Wait
  <2>3. CASE Discover \/ TakeOffer
    BY <2>3 DEF Discover, TakeOffer
  <2>4. CASE Refused \/ Expire \/ GiveUp
    BY <2>4 DEF Refused, Expire, GiveUp, RestartDiscovery
  <2>5. CASE Renew
    BY <2>5 DEF Renew
  <2>6. CASE Ask \/ RenewAgain
    <3>1. Question.type \in {"discover", "request"} /\ Question.own = mac
      BY DEF Question
    <3>2. toServer' = toServer \cup {Question}
      BY <2>6 DEF Ask, RenewAgain
    <3>3. QED
      BY <3>1, <3>2
  <2>7. QED
    BY <2>1, <2>2, <2>3, <2>4, <2>5, <2>6 DEF DhcpRun, Binds, Proceeds
<1>3. RequestInv'
  <2> SUFFICES ASSUME Confirming', NEW m \in toServer', m.type # "decline"
               PROVE  m.type = "request" /\ m.ip = leaseIp'
    BY <1>i DEF RequestInv
  <2> USE DEF Confirming
  <2>1. CASE ProbeAndBind \/ Confirmed \/ Discover \/ TakeOffer
    BY <2>1 DEF ProbeAndBind, Confirmed, BindLease, Discover, TakeOffer
  <2>2. CASE Refused \/ Expire \/ GiveUp
    BY <2>2 DEF Refused, Expire, GiveUp, RestartDiscovery
  <2>3. CASE Renew
    BY <2>3, <1>d DEF Renew, Message
  <2>4. CASE Ask \/ RenewAgain
    <3>1. leaseIp' = leaseIp /\ Confirming /\ toServer' = toServer \cup {Question}
      BY <2>4 DEF Ask, RenewAgain, Send
    <3>2. Question.type = "request" /\ Question.ip = leaseIp
      BY <3>1 DEF Question, Message
    <3>3. QED
      BY <3>1, <3>2 DEF RequestInv
  <2>5. CASE Wait
    BY <2>5 DEF Wait, RequestInv
  <2>6. QED
    BY <2>1, <2>2, <2>3, <2>4, <2>5 DEF DhcpRun, Binds, Proceeds
<1>4. QED
  BY <1>1, <1>2, <1>3

\* A run binds what it was granted, hands back what was refused, or leaves the
\* address alone.
LEMMA RunAddress ==
  ASSUME ClientWords, MsgInv, DhcpRun
  PROVE  \/ /\ phase' = "leased" /\ phase \notin {"leased", "init"} /\ leaseAge' = 0
            /\ sipr' = leaseIp' /\ cache' = leaseIp' /\ leaseIp' \in Granted
         \/ /\ phase' = "init" /\ sipr' = None /\ cache' \in {cache, None}
            /\ \E m \in inbox : m.type = "nak"
         \/ /\ UNCHANGED <<sipr, cache>>
            /\ phase' = "leased" => phase = "leased" /\ leaseIp' = leaseIp /\ leaseAge' < T1
<1>1. CASE ProbeAndBind
  <2>1. PICK k \in Got("ack") :
          IF k.ip # leaseIp /\ InUse(k.ip)
          THEN phase' = "init" /\ UNCHANGED <<leaseIp, cache, sipr>>
          ELSE BindLease(k.ip)
    BY <1>1 DEF ProbeAndBind
  <2>2. k.ip \in Granted /\ phase = "requesting"
    BY <1>1 DEF Got, MsgInv, ProbeAndBind
  <2>3. QED
    BY <2>1, <2>2 DEF BindLease
<1>2. CASE Confirmed
  <2>1. PICK k \in Got("ack") : BindLease(k.ip)
    BY <1>2 DEF Confirmed
  <2>2. k.ip \in Granted /\ phase \in {"rebooting", "renewing", "rebinding"}
    BY <1>2 DEF Got, MsgInv, Confirmed
  <2>3. QED
    BY <2>1, <2>2 DEF BindLease
<1>3. CASE Refused
  BY <1>3 DEF Refused, DropLease, RestartDiscovery, Got
<1>4. CASE Discover \/ TakeOffer \/ Ask \/ Renew \/ Expire \/ RenewAgain \/ GiveUp
  BY <1>4 DEF Discover, TakeOffer, Ask, Asking, Renew, Expire, RestartDiscovery, RenewAgain,
              GiveUp
<1>5. CASE Wait
  BY <1>5 DEF Wait, Asking
<1>6. QED
  BY <1>1, <1>2, <1>3, <1>4, <1>5 DEF DhcpRun, Binds, Proceeds

\* A new lease is probed, or was the client's before.
LEMMA RunProbes ==
  ASSUME RequestInv, DhcpRun, phase # "leased", phase' = "leased", sipr' \in taken
  PROVE  sipr' = leaseIp
<1>1. ProbeAndBind \/ Confirmed
  BY DEF DhcpRun, Binds, Proceeds, Discover, TakeOffer, Refused, Ask, Renew, Expire, RenewAgain,
         Wait, GiveUp, RestartDiscovery
<1>2. CASE ProbeAndBind
  BY <1>2 DEF ProbeAndBind, BindLease, InUse
<1>3. CASE Confirmed
  <2>1. PICK k \in Got("ack") : BindLease(k.ip)
    BY <1>3 DEF Confirmed
  <2>2. k.ip = leaseIp
    BY <1>3, <2>1 DEF Confirmed, Got, RequestInv, Confirming
  <2>3. QED
    BY <2>1, <2>2 DEF BindLease
<1>4. QED
  BY <1>1, <1>2, <1>3

\* A run without its socket lets the lease grow older, no further than its end.
LEMMA TickLeaves ==
  ASSUME ClientWords, TickOnly
  PROVE  /\ sentAgo' \in 0..WaitBound /\ leaseAge' \in 0..LeaseEnd
         /\ UNCHANGED <<phase, retries, offered, leaseIp, mac, cache, sipr, netVars, serverVars>>
BY Numbers DEF ClientWords, TickOnly, Waited, Age

-----------------------------------------------------------------------------
(* What the steps of the device and of the world leave.                    *)

\* The client is driven from four places, and rests otherwise.
ClientRests == UNCHANGED clientVars /\ UNCHANGED cache

LEMMA ClientMoves ==
  ASSUME [Next]_vars
  PROVE  \/ AwaitLink \/ Acquire \/ AcquireDead \/ FollowLink \/ ServeDhcp
         \/ ClientRests
<1> USE DEF ClientRests, flashVars
<1>1. CASE Begin \/ Fallback
  BY <1>1 DEF Begin, Fallback
<1>2. CASE Serve \/ Reopen \/ CheckHealth \/ Cable \/ ChipDies
  BY <1>2 DEF Serve, Reopen, CheckHealth, Cable, ChipDies, dhcpVars
<1>3. CASE Rebuild \/ LoseRegisters \/ ChipRevives \/ PowerCycle
  BY <1>3 DEF Rebuild, LoseRegisters, ChipRevives, PowerCycle
<1>4. CASE Network
  BY <1>4 DEF Network, Lost, Answer, HeedDecline
<1>5. CASE Admin
  BY <1>5 DEF Admin, Reconfigure, OtherHost
<1>6. CASE UNCHANGED vars
  BY <1>6 DEF vars, dhcpVars
<1>7. QED
  BY <1>1, <1>2, <1>3, <1>4, <1>5, <1>6 DEF Next, Device, Loop, World

\* What a driven client does: it starts, runs, or lets the tick pass.
LEMMA ClientDriven ==
  ASSUME AwaitLink \/ Acquire \/ AcquireDead \/ FollowLink \/ ServeDhcp
  PROVE  \/ DhcpInit(regs = "set") /\ useDhcp /\ pc \in {"start", "link"}
         \/ DhcpRun /\ chip = "ok" /\ (pc = "acquire" \/ (pc = "dhcp" /\ useDhcp /\ linkUp))
         \/ TickOnly /\ pc \in {"acquire", "dhcp"} /\ chip # "ok"
         \/ UNCHANGED dhcpVars /\ pc \in {"start", "link", "dhcp"}
<1>1. CASE AwaitLink
  BY <1>1, Zenon DEF AwaitLink
<1>2. CASE Acquire
  <2>1. DhcpRun
    BY <1>2, Zenon DEF Acquire, DhcpRun
  <2>2. QED
    BY <1>2, <2>1 DEF Acquire
<1>3. CASE AcquireDead
  BY <1>3 DEF AcquireDead
<1>4. CASE FollowLink
  BY <1>4, Zenon DEF FollowLink
<1>5. CASE ServeDhcp
  BY <1>5, Zenon DEF ServeDhcp
<1>6. QED
  BY <1>1, <1>2, <1>3, <1>4, <1>5

-----------------------------------------------------------------------------
(* Type correctness, and what the messages say.                            *)

\* The client's words stay in their ranges.
LEMMA ClientWordsStep ==
  ASSUME IInv, [Next]_vars PROVE ClientWords'
<1>w. ClientWords /\ Flags /\ MsgInv
  BY TypeParts, Zenon DEF IInv
<1>1. CASE ClientRests
  BY <1>w, <1>1 DEF ClientWords, ClientRests, clientVars
<1>2. ASSUME DhcpInit(regs = "set") PROVE ClientWords'
  BY <1>2, <1>w, Numbers DEF DhcpInit, ClientWords, Phases, flashVars
<1>3. ASSUME DhcpRun, chip = "ok", pc = "acquire" \/ (pc = "dhcp" /\ useDhcp /\ linkUp)
      PROVE  ClientWords'
  <2>1. phase = "leased" => leaseAge < T1
    BY <1>3 DEF IInv, LeasedInv, AgeInv
  <2>2. mac \in BOOLEAN
    BY <1>w DEF Flags
  <2>3. QED
    BY <1>w, <1>3, <2>1, <2>2, RunWords
<1>4. ASSUME TickOnly PROVE ClientWords'
  BY <1>4, <1>w, TickLeaves DEF ClientWords
<1>5. ASSUME UNCHANGED dhcpVars PROVE ClientWords'
  BY <1>5, <1>w DEF ClientWords, dhcpVars, clientVars, flashVars
<1>6. QED
  BY <1>1, <1>2, <1>3, <1>4, <1>5, ClientMoves, ClientDriven

\* The Boolean variables stay Boolean.
LEMMA FlagsStep ==
  ASSUME Flags, [Next]_vars PROVE Flags'
<1> USE DEF Flags, passVars
<1>1. CASE Begin \/ Fallback \/ Rebuild \/ LoseRegisters \/ ChipRevives \/ PowerCycle
  BY <1>1, Zenon DEF Begin, Fallback, Rebuild, LoseRegisters, ChipRevives, PowerCycle, clientVars
<1>2. CASE AwaitLink
  <2>1. mac' \in BOOLEAN
    BY <1>2, Zenon DEF AwaitLink, DhcpInit, dhcpVars, clientVars
  <2>2. QED
    BY <1>2, <2>1, Zenon DEF AwaitLink
<1>3. CASE Acquire \/ AcquireDead
  BY <1>3, Zenon DEF Acquire, AcquireDead, TickOnly
<1>4. CASE Serve \/ Reopen \/ CheckHealth
  BY <1>4, Zenon DEF Serve, Reopen, CheckHealth, dhcpVars, clientVars
<1>5. CASE FollowLink
  <2>1. mac' \in BOOLEAN
    BY <1>5, Zenon DEF FollowLink, DhcpInit, dhcpVars, clientVars
  <2>2. QED
    BY <1>5, <2>1, Zenon DEF FollowLink
<1>6. CASE ServeDhcp
  <2>1. mac' = mac
    BY <1>6, Zenon DEF ServeDhcp, DhcpRun, TickOnly, dhcpVars, clientVars
  <2>2. linkUp' \in BOOLEAN
    BY <1>6, Zenon DEF ServeDhcp, Watch
  <2>3. QED
    BY <1>6, <2>1, <2>2, Zenon DEF ServeDhcp
<1>7. CASE Cable \/ ChipDies
  BY <1>7, Zenon DEF Cable, ChipDies, dhcpVars, clientVars
<1>8. CASE Network \/ Admin
  BY <1>8, Zenon DEF Network, Lost, Answer, HeedDecline, Admin, Reconfigure, OtherHost, clientVars
<1>9. CASE UNCHANGED vars
  BY <1>9, Zenon DEF vars, dhcpVars, clientVars
<1>10. QED
  BY <1>1, <1>2, <1>3, <1>4, <1>5, <1>6, <1>7, <1>8, <1>9, Zenon DEF Next, Device, Loop, World

\* The words of the link stay in their ranges: the start does not wait longer
\* than its limit.
LEMMA LinkWordsStep ==
  ASSUME IInv, [Next]_vars PROVE LinkWords'
<1>w. ClientWords /\ LinkWords /\ Flags /\ MsgInv
  BY TypeParts, Zenon DEF IInv
<1> USE Numbers DEF LinkWords, Places, passVars, chipVars, serverVars, Ips
<1>1. CASE Begin
  BY <1>w, <1>1 DEF Begin
<1>2. CASE Fallback
  BY <1>w, <1>2 DEF Fallback
<1>3. CASE Serve
  BY <1>w, <1>3 DEF Serve, dhcpVars
<1>4. CASE Rebuild
  BY <1>w, <1>4 DEF Rebuild, ReinitChip, Aged
<1>5. CASE Reopen \/ CheckHealth
  BY <1>w, <1>5 DEF Reopen, CheckHealth, Aged, dhcpVars
<1>6. CASE LoseRegisters \/ ChipRevives \/ PowerCycle
  BY <1>w, <1>6 DEF LoseRegisters, ChipRevives, PowerCycle, Blank
<1>7. CASE Cable \/ ChipDies
  BY <1>w, <1>7 DEF Cable, ChipDies, dhcpVars
<1>8. CASE Network
  BY <1>w, <1>8 DEF Network, Lost, Answer, HeedDecline
<1>9. CASE Admin
  BY <1>w, <1>9 DEF Admin, Reconfigure, OtherHost
<1>10. CASE UNCHANGED vars
  BY <1>w, <1>10 DEF vars, dhcpVars
<1>a. ASSUME AwaitLink \/ Acquire \/ AcquireDead \/ FollowLink \/ ServeDhcp
      PROVE  sipr' \in Ips \cup {sipr} /\ UNCHANGED serverVars
  <2>1. CASE DhcpInit(regs = "set")
    BY <1>w, <2>1 DEF DhcpInit, ClientWords
  <2>2. CASE DhcpRun
    <3>1. Granted \subseteq Ips
      BY DEF Granted
    <3>2. QED
      BY <1>w, <2>2, <3>1, RunAddress DEF DhcpRun
  <2>3. CASE TickOnly \/ UNCHANGED dhcpVars
    BY <2>3 DEF TickOnly, dhcpVars
  <2>4. QED
    BY <1>a, <2>1, <2>2, <2>3, ClientDriven
<1>11. CASE AwaitLink
  <2>1. pc' \in {"acquire", "serve"} /\ elapsed' = 0 /\ UNCHANGED <<unhealthy, ntp, chip, regs>>
    BY <1>11 DEF AwaitLink
  <2>2. QED
    BY <1>w, <1>11, <1>a, <2>1
<1>12. CASE Acquire
  <2>1. elapsed < StartLimit
    BY <1>12 DEF Acquire, IInv, LinkInv
  <2>2. pc' \in {"serve", "fallback", "acquire"}
    BY <1>12 DEF Acquire
  <2>3. elapsed' = elapsed + 1 /\ UNCHANGED <<unhealthy, ntp, chip, regs>>
    BY <1>12 DEF Acquire
  <2>4. QED
    BY <1>w, <1>12, <1>a, <2>1, <2>2, <2>3
<1>13. CASE AcquireDead
  <2>1. elapsed < StartLimit
    BY <1>13 DEF AcquireDead, IInv, LinkInv
  <2>2. QED
    BY <1>w, <1>13, <1>a, <2>1 DEF AcquireDead
<1>14. CASE FollowLink
  <2>1. pc' = "dhcp" /\ UNCHANGED <<unhealthy, elapsed, ntp, chip, regs>>
    BY <1>14 DEF FollowLink
  <2>2. QED
    BY <1>w, <1>14, <1>a, <2>1
<1>15. CASE ServeDhcp
  <2>1. /\ pc' \in {"boot", "idle"} /\ unhealthy' \in {0, 1, unhealthy}
        /\ ntp' \in {ntp, "never"}
        /\ UNCHANGED <<elapsed, chip, regs>>
    BY <1>15 DEF ServeDhcp, Watch
  <2>2. QED
    BY <1>w, <1>15, <1>a, <2>1
<1>16. QED
  BY <1>1, <1>2, <1>3, <1>4, <1>5, <1>6, <1>7, <1>8, <1>9, <1>10, <1>11, <1>12, <1>13, <1>14,
     <1>15 DEF Next, Device, Loop, World

\* Only a DECLINE outlives its transaction, and nobody is granted an address
\* that is not his.
LEMMA MessagesStep ==
  ASSUME IInv, [Next]_vars PROVE MsgInv' /\ RequestInv'
<1>w. ClientWords /\ LinkWords /\ Flags /\ MsgInv /\ RequestInv
  BY TypeParts, Zenon DEF IInv
<1>1. CASE DhcpInit(regs = "set")
  <2>1. PICK intact \in BOOLEAN : intact = (regs = "set")
    OBVIOUS
  <2>2. DhcpInit(intact)
    BY <1>1, <2>1, Zenon
  <2>3. /\ mac' = intact /\ leaseIp' = cache /\ inbox' = {}
        /\ phase' = IF cache # None THEN "rebooting" ELSE "init"
        /\ \A m \in toServer' :
             \/ m.type = "decline"
             \/ m.type = "request" /\ m.ip = cache /\ m.own = intact
    BY <2>2, InitLeaves
  <2>4. QED
    BY <2>3 DEF MsgInv, RequestInv, Confirming
<1>2. CASE DhcpRun
  BY <1>w, <1>2, RunMessages
<1>3. ASSUME UNCHANGED <<phase, leaseIp, mac>>, toServer' \subseteq toServer,
             inbox' \subseteq inbox
      PROVE  MsgInv' /\ RequestInv'
  BY <1>w, <1>3 DEF MsgInv, RequestInv, Confirming, Granted
<1>4. ASSUME NEW m \in toServer, Answer(m) PROVE MsgInv' /\ RequestInv'
  <2>1. UNCHANGED <<phase, leaseIp, mac, reserved>> /\ toServer' \subseteq toServer
    BY <1>4 DEF Answer, clientVars, serverVars
  <2>2. inbox' = inbox \cup {Reply(m)} /\ m.type \in {"discover", "request"} /\ m.own = mac
    BY <1>w, <1>4 DEF Answer, MsgInv
  <2>3. Assigned(m) \in Granted
    BY <1>w, <2>2 DEF Assigned, Granted, LinkWords
  <2>4. /\ Reply(m).type \in {"offer", "ack", "nak"}
        /\ Reply(m).type # "nak" => Reply(m).ip \in Granted
    BY <2>2, <2>3 DEF Reply
  <2>5. Confirming => Reply(m).type # "offer" /\ Reply(m).ip = leaseIp
    BY <1>w, <2>2 DEF RequestInv, Reply
  <2>6. Granted' = Granted
    BY <2>1 DEF Granted
  <2>7. MsgInv'
    BY <1>w, <2>1, <2>2, <2>4, <2>6 DEF MsgInv
  <2>8. RequestInv'
    BY <1>w, <2>1, <2>2, <2>5 DEF RequestInv, Confirming
  <2>9. QED
    BY <2>7, <2>8
<1>5. CASE AwaitLink \/ Acquire \/ AcquireDead \/ FollowLink \/ ServeDhcp
  <2>1. CASE TickOnly \/ UNCHANGED dhcpVars
    BY <1>3, <2>1 DEF TickOnly, dhcpVars, clientVars, netVars
  <2>2. QED
    BY <1>1, <1>2, <1>5, <2>1, ClientDriven
<1>6. CASE Network
  <2>1. PICK m \in toServer : Lost(m) \/ Answer(m) \/ HeedDecline(m)
    BY <1>6 DEF Network
  <2>2. CASE Lost(m) \/ HeedDecline(m)
    BY <1>3, <2>2 DEF Lost, HeedDecline, clientVars
  <2>3. QED
    BY <1>4, <2>1, <2>2
<1>7. CASE Admin
  BY <1>3, <1>7 DEF Admin, Reconfigure, OtherHost, clientVars, netVars
<1>8. CASE Begin \/ Fallback \/ Serve \/ Reopen \/ CheckHealth \/ Cable \/ ChipDies
           \/ UNCHANGED vars
  BY <1>3, <1>8 DEF Begin, Fallback, Serve, Reopen, CheckHealth, Cable, ChipDies, vars,
                    dhcpVars, clientVars, netVars
<1>9. CASE Rebuild \/ LoseRegisters \/ ChipRevives \/ PowerCycle
  BY <1>3, <1>9 DEF Rebuild, ReinitChip, LoseRegisters, ChipRevives, Blank, PowerCycle, clientVars
<1>10. QED
  BY <1>5, <1>6, <1>7, <1>8, <1>9 DEF Next, Device, Loop, World

-----------------------------------------------------------------------------
(* The pass and the start.                                                 *)

\* A link is taken for up only by a pass whose chip answered.
LEMMA LinkStep ==
  ASSUME IInv, [Next]_vars PROVE LinkInv'
<1>w. ClientWords /\ LinkWords /\ Flags /\ MsgInv
  BY TypeParts, Zenon DEF IInv
<1>l. LinkInv
  BY DEF IInv
<1> USE DEF LinkInv, passVars
<1>1. CASE Begin \/ Fallback \/ Serve \/ Reopen
  BY <1>1, <1>l DEF Begin, Fallback, Serve, Reopen
<1>2. CASE AwaitLink
  <2>1. elapsed' = 0 /\ elapsed' < StartLimit
    BY <1>2, Numbers DEF AwaitLink
  <2>2. pc' \in {"acquire", "serve"}
    BY <1>2 DEF AwaitLink
  <2>3. QED
    BY <2>1, <2>2
<1>3. CASE Acquire \/ AcquireDead
  <2>1. pc' \in {"acquire", "serve", "fallback"} /\ elapsed' = elapsed + 1
    BY <1>3 DEF Acquire, AcquireDead
  <2>2. pc' = "acquire" => ~Late
    BY <1>3 DEF Acquire, AcquireDead
  <2>3. QED
    BY <1>w, <2>1, <2>2, Numbers DEF Late, LinkWords
<1>4. CASE Rebuild
  BY <1>4, <1>l DEF Rebuild
<1>5. CASE CheckHealth
  <2>1. pc' = "link" /\ (phyOk' => chipOk')
    BY <1>5 DEF CheckHealth
  <2>2. QED
    BY <2>1
<1>6. CASE FollowLink
  <2>1. pc = "link" /\ pc' = "dhcp" /\ (linkUp' => phyOk) /\ (chipOk => chipOk')
    BY <1>6, Zenon DEF FollowLink
  <2>2. QED
    BY <1>l, <2>1
<1>7. CASE ServeDhcp
  <2>1. pc = "dhcp" /\ pc' \in {"idle", "boot"} /\ (chipOk => chipOk')
    BY <1>7 DEF ServeDhcp, Watch
  <2>2. (linkUp' => linkUp) /\ (pc' = "boot" => ~linkUp')
    BY <1>7 DEF ServeDhcp, Watch
  <2>3. QED
    BY <1>l, <2>1, <2>2
<1>8. CASE Network \/ Admin \/ Cable \/ ChipDies \/ LoseRegisters \/ ChipRevives
  BY <1>8, <1>l DEF Network, Admin, Cable, ChipDies, LoseRegisters, ChipRevives
<1>9. CASE PowerCycle \/ UNCHANGED vars
  BY <1>9, <1>l DEF PowerCycle, vars
<1>10. QED
  BY <1>1, <1>2, <1>3, <1>4, <1>5, <1>6, <1>7, <1>8, <1>9 DEF Next, Device, Loop, World

\* What DHCP programs it has cached, and forgets only with the address.
LEMMA CacheStep ==
  ASSUME IInv, [Next]_vars PROVE CacheInv'
<1>w. ClientWords /\ LinkWords /\ MsgInv /\ CacheInv
  BY TypeParts, Zenon DEF IInv
<1> USE DEF CacheInv, flashVars
<1>1. CASE Begin
  BY <1>w, <1>1 DEF Begin
<1>2. CASE Fallback
  BY <1>w, <1>2 DEF Fallback
<1>3. CASE Rebuild \/ LoseRegisters \/ ChipRevives \/ PowerCycle
  BY <1>w, <1>3 DEF Rebuild, ReinitChip, LoseRegisters, ChipRevives, Blank, PowerCycle
<1>4. CASE Serve \/ Reopen \/ CheckHealth \/ Cable \/ ChipDies \/ UNCHANGED vars
  BY <1>w, <1>4 DEF Serve, Reopen, CheckHealth, Cable, ChipDies, vars, dhcpVars
<1>5. CASE Network
  BY <1>w, <1>5 DEF Network, Lost, Answer, HeedDecline
<1>6. CASE Admin
  BY <1>w, <1>6 DEF Admin, Reconfigure, OtherHost
<1>7. CASE AwaitLink \/ Acquire \/ AcquireDead \/ FollowLink \/ ServeDhcp
  <2>1. pc' # "start"
    BY <1>7 DEF AwaitLink, Acquire, AcquireDead, FollowLink, ServeDhcp, Watch
  <2>2. CASE DhcpInit(regs = "set")
    BY <2>1, <2>2 DEF DhcpInit
  <2>3. CASE DhcpRun
    BY <1>w, <2>1, <2>3, RunAddress
  <2>4. CASE TickOnly \/ UNCHANGED dhcpVars
    BY <1>w, <2>1, <2>4 DEF TickOnly, dhcpVars
  <2>5. QED
    BY <1>7, <2>2, <2>3, <2>4, ClientDriven
<1>8. QED
  BY <1>1, <1>2, <1>3, <1>4, <1>5, <1>6, <1>7 DEF Next, Device, Loop, World

\* A lease is programmed, unless the chip has lost it, and ends the start.
LEMMA LeasedStep ==
  ASSUME IInv, [Next]_vars PROVE LeasedInv'
<1>w. ClientWords /\ LinkWords /\ MsgInv /\ LeasedInv /\ StaticInv
  BY TypeParts, Zenon DEF IInv
<1> USE DEF LeasedInv, clientVars
<1>1. CASE Begin
  <2>1. phase' = phase /\ leaseIp' = leaseIp /\ useDhcp' = useDhcp /\ pc' \in {"start", "gone"}
    BY <1>1 DEF Begin
  <2>2. useDhcp => sipr' \in {sipr, None}
    BY <1>1 DEF Begin
  <2>3. QED
    BY <1>w, <2>1, <2>2
<1>2. CASE Fallback
  BY <1>w, <1>2 DEF Fallback
<1>3. CASE Rebuild
  BY <1>w, <1>3 DEF Rebuild, ReinitChip
<1>4. CASE LoseRegisters \/ ChipRevives \/ PowerCycle
  BY <1>w, <1>4 DEF LoseRegisters, ChipRevives, Blank, PowerCycle
<1>5. CASE Serve \/ Reopen \/ CheckHealth \/ Cable \/ ChipDies \/ UNCHANGED vars
  BY <1>w, <1>5 DEF Serve, Reopen, CheckHealth, Cable, ChipDies, vars, dhcpVars
<1>6. CASE Network
  BY <1>w, <1>6 DEF Network, Lost, Answer, HeedDecline
<1>7. CASE Admin
  BY <1>w, <1>7 DEF Admin, Reconfigure, OtherHost
<1>8. CASE AwaitLink \/ Acquire \/ AcquireDead \/ FollowLink \/ ServeDhcp
  <2>u. useDhcp' = useDhcp
    BY <1>8, Zenon DEF AwaitLink, Acquire, AcquireDead, FollowLink, ServeDhcp
  <2>p. pc' \in {"acquire", "fallback"} =>
          phase' # "leased" \/ (pc \in {"acquire", "fallback"} /\ phase' = phase)
    <3>1. CASE AwaitLink
      BY <3>1 DEF AwaitLink, DhcpInit
    <3>2. CASE Acquire
      <4>1. ASSUME GiveUp PROVE phase' = "init"
        BY <4>1 DEF GiveUp, RestartDiscovery
      <4>2. QED
        BY <3>2, <4>1 DEF Acquire
    <3>3. CASE AcquireDead
      BY <3>3 DEF AcquireDead, TickOnly
    <3>4. CASE FollowLink \/ ServeDhcp
      BY <3>4 DEF FollowLink, ServeDhcp, Watch
    <3>5. QED
      BY <1>8, <3>1, <3>2, <3>3, <3>4
  <2>1. CASE DhcpInit(regs = "set")
    <3>1. phase' # "leased"
      BY <2>1 DEF DhcpInit
    <3>2. QED
      BY <3>1
  <2>2. CASE DhcpRun
    BY <1>w, <2>2, <2>u, <2>p, RunAddress
  <2>3. CASE TickOnly \/ UNCHANGED dhcpVars
    BY <1>w, <2>3, <2>u, <2>p DEF TickOnly, dhcpVars
  <2>4. QED
    BY <1>8, <2>1, <2>2, <2>3, ClientDriven
<1>9. QED
  BY <1>1, <1>2, <1>3, <1>4, <1>5, <1>6, <1>7, <1>8 DEF Next, Device, Loop, World

\* Without DHCP every set of registers is programmed with the static address.
LEMMA StaticStep ==
  ASSUME IInv, [Next]_vars PROVE StaticInv'
<1>w. LinkWords /\ StaticInv
  BY TypeParts, Zenon DEF IInv
<1> USE DEF StaticInv, clientVars, chipVars
<1>1. CASE Begin
  <2>1. phase' = phase /\ useDhcp' = useDhcp /\ pc' \in {"start", "gone"}
    BY <1>1 DEF Begin
  <2>2. ~useDhcp => (UNCHANGED <<regs, sipr>> \/ sipr' = StaticAddr)
    BY <1>1 DEF Begin
  <2>3. QED
    BY <1>w, <2>1, <2>2
<1>2. CASE Fallback
  BY <1>w, <1>2 DEF Fallback
<1>3. CASE Rebuild
  BY <1>w, <1>3 DEF Rebuild, ReinitChip
<1>4. CASE LoseRegisters \/ ChipRevives \/ PowerCycle
  BY <1>w, <1>4 DEF LoseRegisters, ChipRevives, Blank, PowerCycle
<1>5. CASE Serve \/ Reopen \/ CheckHealth \/ Cable \/ ChipDies \/ UNCHANGED vars
  BY <1>w, <1>5 DEF Serve, Reopen, CheckHealth, Cable, ChipDies, vars, dhcpVars
<1>6. CASE Network
  BY <1>w, <1>6 DEF Network, Lost, Answer, HeedDecline
<1>7. CASE Admin
  BY <1>w, <1>7 DEF Admin, Reconfigure, OtherHost
<1>8. CASE AwaitLink
  BY <1>w, <1>8 DEF AwaitLink, dhcpVars
<1>9. CASE Acquire
  BY <1>w, <1>9 DEF Acquire
<1>10. CASE AcquireDead
  BY <1>w, <1>10 DEF AcquireDead
<1>11. CASE FollowLink
  BY <1>w, <1>11 DEF FollowLink, dhcpVars
<1>12. CASE ServeDhcp
  BY <1>w, <1>12 DEF ServeDhcp, Watch, dhcpVars
<1>13. QED
  BY <1>1, <1>2, <1>3, <1>4, <1>5, <1>6, <1>7, <1>8, <1>9, <1>10, <1>11, <1>12
     DEF Next, Device, Loop, World

\* A client that has read a lost MAC is not granted anything before the chip is
\* rebuilt.
LEMMA MacStep ==
  ASSUME IInv, [Next]_vars PROVE MacInv'
<1>w. LinkWords /\ Flags /\ LinkInv /\ MacInv
  BY TypeParts, Zenon DEF IInv
<1> USE DEF MacInv, LinkInv, clientVars, passVars, chipVars
<1>1. ASSUME ~linkUp' PROVE MacInv'
  BY <1>1
<1>2. CASE Begin \/ Rebuild \/ PowerCycle
  <2>1. ~linkUp'
    BY <1>w, <1>2 DEF Begin, Rebuild, PowerCycle
  <2>2. QED
    BY <1>1, <2>1
<1>3. CASE Fallback \/ Serve \/ Reopen
  BY <1>w, <1>3 DEF Fallback, Serve, Reopen, dhcpVars
<1>4. CASE AwaitLink
  <2>1. CASE DhcpInit(regs = "set") /\ pc' = "acquire"
    <3>1. (mac' <=> regs = "set") /\ regs' = regs
      BY <1>4, <2>1, Zenon DEF AwaitLink, DhcpInit
    <3>2. QED
      BY <1>w, <2>1, <3>1 DEF LinkWords
  <2>2. CASE ~useDhcp'
    BY <2>2
  <2>3. CASE ~linkUp'
    BY <1>1, <2>3
  <2>4. \/ DhcpInit(regs = "set") /\ pc' = "acquire"
        \/ ~useDhcp'
        \/ linkUp' = linkUp /\ pc = "start"
    BY <1>4, Zenon DEF AwaitLink
  <2>5. QED
    BY <1>w, <2>1, <2>2, <2>3, <2>4
<1>5. CASE Acquire \/ AcquireDead
  <2>1. /\ UNCHANGED <<mac, useDhcp, linkUp, chip, regs>>
        /\ pc = "acquire" /\ pc' \in {"acquire", "fallback", "serve"}
    BY <1>5 DEF Acquire, AcquireDead, TickOnly
  <2>2. QED
    BY <1>w, <2>1
<1>6. CASE CheckHealth
  <2>1. /\ UNCHANGED <<mac, useDhcp, linkUp, chip, regs>>
        /\ pc = "idle" /\ pc' = "link" /\ (phyOk' => chip = "ok") /\ ~SharLost
    BY <1>6 DEF CheckHealth, dhcpVars
  <2>2. QED
    BY <1>w, <2>1 DEF SharLost
<1>7. CASE FollowLink
  <2>1. /\ UNCHANGED <<useDhcp, chip, regs>>
        /\ pc = "link" /\ pc' = "dhcp" /\ (linkUp' <=> phyOk)
    BY <1>7, Zenon DEF FollowLink
  <2>2. CASE DhcpInit(regs = "set")
    <3>1. (mac' <=> regs = "set") /\ phase' \in {"init", "rebooting"}
      BY <2>2 DEF DhcpInit
    <3>2. QED
      BY <1>w, <2>1, <3>1 DEF LinkWords
  <2>3. CASE UNCHANGED dhcpVars /\ ~(phyOk /\ ~linkUp /\ useDhcp /\ chip = "ok")
    <3>1. mac' = mac /\ phase' = phase
      BY <2>3 DEF dhcpVars
    <3>2. QED
      BY <1>w, <2>1, <2>3, <3>1 DEF LinkWords
  <2>4. QED
    BY <1>7, <2>2, <2>3, Zenon DEF FollowLink
<1>8. CASE ServeDhcp
  <2>1. /\ UNCHANGED <<useDhcp, chip, regs>> /\ mac' = mac
        /\ pc = "dhcp" /\ pc' \in {"idle", "boot"}
    BY <1>8 DEF ServeDhcp, Watch, DhcpRun, TickOnly, dhcpVars
  <2>2. linkUp' => linkUp
    BY <1>8 DEF ServeDhcp, Watch
  <2>3. QED
    BY <1>w, <2>1, <2>2 DEF LinkWords
<1>9. CASE Network
  BY <1>w, <1>9 DEF Network, Lost, Answer, HeedDecline
<1>10. CASE Admin
  BY <1>w, <1>10 DEF Admin, Reconfigure, OtherHost
<1>11. CASE Cable \/ ChipDies \/ UNCHANGED vars
  BY <1>w, <1>11 DEF Cable, ChipDies, vars, dhcpVars
<1>12. CASE LoseRegisters
  BY <1>w, <1>12 DEF LoseRegisters, Blank
<1>13. CASE ChipRevives
  <2>1. /\ UNCHANGED <<mac, useDhcp, linkUp, phyOk, phase, pc>> /\ regs' \in {regs, "lost"}
        /\ (pc = "idle" /\ ~chipOk) \/ pc \in {"acquire", "boot", "gone"}
    BY <1>13 DEF ChipRevives, Blank
  <2>2. QED
    BY <1>w, <2>1 DEF LinkWords
<1>14. QED
  BY <1>2, <1>3, <1>4, <1>5, <1>6, <1>7, <1>8, <1>9, <1>10, <1>11, <1>12, <1>13
     DEF Next, Device, Loop, World

\* A lease that has run past its renewal is behind a dead chip, until the link is
\* down.
LEMMA AgeStep ==
  ASSUME IInv, [Next]_vars PROVE AgeInv'
<1>w. ClientWords /\ LinkWords /\ Flags /\ MsgInv /\ LinkInv /\ AgeInv /\ LeasedInv
  BY TypeParts, Zenon DEF IInv
<1> USE DEF AgeInv, LinkInv, clientVars, passVars, chipVars
<1>1. CASE Begin \/ Rebuild \/ PowerCycle
  <2>1. ~linkUp'
    BY <1>w, <1>1 DEF Begin, Rebuild, PowerCycle
  <2>2. QED
    BY <2>1
<1>2. CASE Fallback \/ Serve \/ Reopen
  BY <1>w, <1>2 DEF Fallback, Serve, Reopen, dhcpVars
<1>3. CASE CheckHealth
  <2>1. /\ UNCHANGED <<phase, leaseAge, useDhcp, linkUp, chip>>
        /\ pc = "idle" /\ pc' = "link" /\ (phyOk' => chip = "ok")
    BY <1>3 DEF CheckHealth, dhcpVars
  <2>2. QED
    BY <1>w, <2>1
<1>4. CASE Network
  BY <1>w, <1>4 DEF Network, Lost, Answer, HeedDecline
<1>5. CASE Admin
  BY <1>w, <1>5 DEF Admin, Reconfigure, OtherHost
<1>6. CASE Cable \/ ChipDies \/ UNCHANGED vars
  BY <1>w, <1>6 DEF Cable, ChipDies, vars, dhcpVars
<1>7. CASE LoseRegisters
  BY <1>w, <1>7 DEF LoseRegisters
<1>8. CASE ChipRevives
  <2>1. /\ UNCHANGED <<phase, leaseAge, useDhcp, linkUp, phyOk, pc>>
        /\ (pc = "idle" /\ ~chipOk) \/ pc \in {"acquire", "boot", "gone"}
    BY <1>8 DEF ChipRevives
  <2>2. QED
    BY <1>w, <2>1
<1>9. ASSUME phase' # "leased" PROVE AgeInv'
  BY <1>9
<1>10. ASSUME DhcpRun PROVE phase' = "leased" => leaseAge' < T1
  BY <1>w, <1>10, Numbers, RunAddress
<1>11. CASE AwaitLink
  <2>1. CASE DhcpInit(regs = "set")
    BY <1>9, <2>1 DEF DhcpInit
  <2>2. CASE ~useDhcp' \/ ~linkUp'
    BY <2>2
  <2>3. DhcpInit(regs = "set") \/ ~useDhcp' \/ (linkUp' = linkUp /\ pc = "start")
    BY <1>11, Zenon DEF AwaitLink
  <2>4. QED
    BY <1>w, <2>1, <2>2, <2>3
<1>12. CASE Acquire
  <2>1. DhcpRun
    BY <1>12, Zenon DEF Acquire, DhcpRun
  <2>2. QED
    BY <1>10, <2>1
<1>13. CASE AcquireDead
  <2>1. phase' # "leased"
    BY <1>w, <1>13 DEF AcquireDead, TickOnly, LeasedInv
  <2>2. QED
    BY <1>9, <2>1
<1>14. CASE FollowLink
  <2>1. UNCHANGED <<useDhcp, chip>> /\ pc = "link" /\ pc' = "dhcp" /\ (linkUp' <=> phyOk)
    BY <1>14, Zenon DEF FollowLink
  <2>2. CASE DhcpInit(regs = "set")
    BY <1>9, <2>2 DEF DhcpInit
  <2>3. CASE UNCHANGED dhcpVars /\ ~(phyOk /\ ~linkUp /\ useDhcp /\ chip = "ok")
    <3>1. leaseAge' = leaseAge /\ phase' = phase
      BY <2>3 DEF dhcpVars
    <3>2. QED
      BY <1>w, <2>1, <2>3, <3>1 DEF LinkWords
  <2>4. QED
    BY <1>14, <2>2, <2>3, Zenon DEF FollowLink
<1>15. CASE ServeDhcp
  <2>1. UNCHANGED <<useDhcp, chip>> /\ pc = "dhcp" /\ pc' \in {"idle", "boot"}
    BY <1>15 DEF ServeDhcp, Watch
  <2>2. (linkUp' => linkUp) /\ (pc' = "boot" => ~linkUp')
    BY <1>15 DEF ServeDhcp, Watch
  <2>3. CASE DhcpRun
    BY <1>10, <2>3
  <2>4. CASE TickOnly /\ chip # "ok"
    BY <1>w, <2>1, <2>2, <2>4 DEF LinkWords
  <2>5. CASE UNCHANGED dhcpVars
    BY <1>w, <2>1, <2>2, <2>5 DEF dhcpVars
  <2>6. QED
    BY <1>15, <2>3, <2>4, <2>5, Zenon DEF ServeDhcp
<1>16. QED
  BY <1>1, <1>2, <1>3, <1>4, <1>5, <1>6, <1>7, <1>8, <1>11, <1>12, <1>13, <1>14, <1>15
     DEF Next, Device, Loop, World

-----------------------------------------------------------------------------
(* The theorems.                                                           *)

\* The invariant holds of a device that is switched on for the first time.
LEMMA InitInvariant == Init => IInv
<1> SUFFICES ASSUME Init PROVE IInv
  OBVIOUS
<1>1. ClientWords
  BY Numbers DEF Init, DhcpStart, ClientWords, Phases, Ips
<1>2. LinkWords
  BY Numbers DEF Init, LinkWords, Places, Ips
<1>3. Flags
  BY Zenon DEF Init, DhcpStart, Flags
<1>4. MsgInv /\ RequestInv
  BY DEF Init, DhcpStart, MsgInv, RequestInv, Confirming
<1>5. CacheInv /\ LeasedInv /\ StaticInv /\ AgeInv
  BY DEF Init, DhcpStart, CacheInv, LeasedInv, StaticInv, AgeInv
<1>6. LinkInv /\ MacInv
  BY DEF Init, DhcpStart, LinkInv, MacInv
<1>7. QED
  BY <1>1, <1>2, <1>3, <1>4, <1>5, <1>6, TypeParts, Zenon DEF IInv

\* Every step keeps the invariant.
LEMMA InvariantStep ==
  ASSUME IInv, [Next]_vars PROVE IInv'
<1>1. Flags'
  BY TypeParts, FlagsStep, Zenon DEF IInv
<1>2. ClientWords' /\ LinkWords' /\ MsgInv' /\ RequestInv'
  BY ClientWordsStep, LinkWordsStep, MessagesStep, Zenon
<1>3. TypeOK'
  <2>1. (TypeOK /\ MsgInv <=> ClientWords /\ LinkWords /\ Flags /\ MsgInv)'
    BY TypeParts, PTL
  <2>2. QED
    BY <1>1, <1>2, <2>1, Zenon
<1>4. CacheInv' /\ LeasedInv' /\ StaticInv' /\ LinkInv' /\ MacInv' /\ AgeInv'
  BY CacheStep, LeasedStep, StaticStep, LinkStep, MacStep, AgeStep, Zenon
<1>5. QED
  BY <1>2, <1>3, <1>4, Zenon DEF IInv

\* The inductive invariant holds in every reachable state.
THEOREM Inductive == Spec => []IInv
<1>1. IInv /\ [Next]_vars => IInv'
  BY InvariantStep
<1>2. QED
  BY <1>1, InitInvariant, PTL DEF Spec

\* Every variable of link and client stays in its range: no phase asks more often
\* than it may, no lease outlives its end, and the start does not outlast its limit.
THEOREM TypeCorrect == Spec => []TypeOK
<1>1. IInv => TypeOK
  BY DEF IInv
<1>2. QED
  BY <1>1, Inductive, PTL

\* A leased address, once programmed, is given up only when the server refuses it,
\* the chip loses it or the device restarts.
THEOREM NeverWithoutCause == Spec => KeepsServing
<1>1. IInv /\ [Next]_vars =>
        [(sipr \in Addr /\ sipr' = None) =>
            \/ \E m \in inbox : m.type = "nak"
            \/ regs' = "lost" \/ pc' = "reopen"
            \/ pc' \in {"boot", "start"}]_vars
  <2> SUFFICES ASSUME IInv, Next, sipr \in Addr, sipr' = None,
                      regs' # "lost", pc' # "reopen", pc' \notin {"boot", "start"}
               PROVE  \E m \in inbox : m.type = "nak"
    BY DEF vars
  <2>w. ClientWords /\ LinkWords /\ MsgInv /\ CacheInv
    BY TypeParts, Zenon DEF IInv
  <2>a. sipr' # sipr /\ None \notin Addr
    BY Addresses
  <2>1. CASE Begin \/ Rebuild \/ PowerCycle
    BY <2>1, <2>a DEF Begin, Rebuild, PowerCycle
  <2>2. CASE Fallback
    BY <2>2, <2>a, Addresses DEF Fallback, Ips
  <2>3. CASE Serve \/ Reopen \/ CheckHealth \/ Cable \/ ChipDies
    BY <2>3, <2>a DEF Serve, Reopen, CheckHealth, Cable, ChipDies, dhcpVars
  <2>4. CASE LoseRegisters \/ ChipRevives
    BY <2>4, <2>a DEF LoseRegisters, ChipRevives, Blank
  <2>5. CASE Network \/ Admin
    BY <2>5, <2>a DEF Network, Lost, Answer, HeedDecline, Admin, Reconfigure, OtherHost
  <2>6. CASE AwaitLink \/ Acquire \/ AcquireDead \/ FollowLink \/ ServeDhcp
    <3>1. CASE DhcpInit(regs = "set") /\ pc \in {"start", "link"}
      <4>1. sipr \in {cache, None}
        BY <2>w, Addresses DEF CacheInv, Ips
      <4>2. QED
        BY <3>1, <4>1, <2>a DEF DhcpInit
    <3>2. CASE DhcpRun
      <4>1. Granted \subseteq Addr \cup {StrangerAddr}
        BY DEF Granted
      <4>2. QED
        BY <2>w, <2>a, <3>2, <4>1, RunAddress, Addresses
    <3>3. CASE TickOnly \/ UNCHANGED dhcpVars
      BY <2>a, <3>3 DEF TickOnly, dhcpVars
    <3>4. QED
      BY <2>6, <3>1, <3>2, <3>3, ClientDriven
  <2>7. QED
    BY <2>1, <2>2, <2>3, <2>4, <2>5, <2>6 DEF Next, Device, Loop, World
<1>2. QED
  BY <1>1, Inductive, PTL DEF Spec, KeepsServing

\* A new lease is not on an address another host answers for, unless the client
\* had it as its lease.
THEOREM ProbedBefore == Spec => NeverDuplicates
<1>1. IInv /\ [Next]_vars =>
        [(phase # "leased" /\ phase' = "leased" /\ sipr' \in taken) => sipr' = leaseIp]_vars
  <2> SUFFICES ASSUME IInv, Next, phase # "leased", phase' = "leased", sipr' \in taken
               PROVE  sipr' = leaseIp
    BY DEF vars
  <2>1. ~ClientRests
    BY DEF ClientRests, clientVars
  <2>2. AwaitLink \/ Acquire \/ AcquireDead \/ FollowLink \/ ServeDhcp
    BY <2>1, ClientMoves
  <2>3. DhcpRun
    BY <2>2, ClientDriven DEF DhcpInit, TickOnly, dhcpVars, clientVars
  <2>4. QED
    BY <2>3, RunProbes DEF IInv
<1>2. QED
  BY <1>1, Inductive, PTL DEF Spec, NeverDuplicates

\* No pass ends with the link up and an address other than the lease or the static
\* one, and none takes a lease under a lost MAC.
THEOREM OwnAddress == Spec => ServesAsItself
<1>1. IInv /\ [Next]_vars =>
        [pc = "dhcp" /\ pc' = "idle" /\ linkUp' /\ chip = "ok" =>
           IF useDhcp
           THEN /\ phase' = "leased" /\ sipr' # None => sipr' = leaseIp'
                /\ phase = "requesting" /\ phase' = "leased" => sipr' # StrangerAddr
           ELSE regs = "set" => sipr = StaticAddr]_vars
  <2> SUFFICES ASSUME IInv, Next, pc = "dhcp", pc' = "idle", linkUp', chip = "ok"
               PROVE  IF useDhcp
                      THEN /\ phase' = "leased" /\ sipr' # None => sipr' = leaseIp'
                           /\ phase = "requesting" /\ phase' = "leased" => sipr' # StrangerAddr
                      ELSE regs = "set" => sipr = StaticAddr
    BY DEF vars
  <2>w. ClientWords /\ MsgInv /\ StaticInv /\ MacInv
    BY TypeParts, Zenon DEF IInv
  <2>1. ServeDhcp
    BY DEF Next, Device, Loop, World, Begin, AwaitLink, Acquire, AcquireDead, Fallback, Serve,
           Rebuild, Reopen, CheckHealth, FollowLink, Network, Admin, Cable, ChipDies,
           LoseRegisters, ChipRevives, PowerCycle
  <2>2. useDhcp' = useDhcp
    BY <2>1 DEF ServeDhcp
  <2>3. LeasedInv'
    BY LeasedStep
  <2>4. ASSUME useDhcp, phase = "requesting", phase' = "leased" PROVE sipr' # StrangerAddr
    <3>1. linkUp
      BY <2>1 DEF ServeDhcp, Watch
    <3>2. mac
      BY <2>w, <2>4, <3>1 DEF MacInv
    <3>3. DhcpRun
      BY <2>1, <2>4, <3>1 DEF ServeDhcp
    <3>4. sipr' \in Addr
      BY <2>w, <2>4, <3>2, <3>3, RunAddress DEF Granted
    <3>5. QED
      BY <3>4, Addresses
  <2>5. QED
    BY <2>w, <2>2, <2>3, <2>4 DEF LeasedInv, StaticInv
<1>2. QED
  BY <1>1, Inductive, PTL DEF Spec, ServesAsItself
=============================================================================
