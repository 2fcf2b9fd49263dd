--------------------------- MODULE MqttPublisher ---------------------------
(***************************************************************************)
(* The MQTT publisher (components/mqtt_publish/mqtt_publish.cpp), over one *)
(* W5500 TCP socket that it polls every 20 ms from the NTP task.           *)
(*                                                                         *)
(* A packet is staged whole, and the chip takes it whole or not at all;    *)
(* the one before must have been acknowledged.  Packets read are complete: *)
(* one that has arrived in part is one that has not arrived.  Closing the  *)
(* socket tells the broker nothing: its session lives on until the same    *)
(* client connects again or the broker hears nothing for too long, and its *)
(* will is then published.                                                 *)
(*                                                                         *)
(* Times are ages in units.  Broker, network and chip are external.        *)
(***************************************************************************)
EXTENDS Naturals, Sequences

CONSTANTS
  EntityCount,      \* kEntityCount
  StageTimeout, ReconnectBack, Keepalive, PublishInterval,   \* in units
  KeepaliveTold,    \* the keep-alive the broker is told
  MaxFaults         \* bound on faults

ASSUME MqttAssumption ==
  {EntityCount, StageTimeout, ReconnectBack, Keepalive, PublishInterval, MaxFaults}
    \subseteq Nat
ASSUME KeepaliveAssumption == KeepaliveTold \in Nat /\ Keepalive < KeepaliveTold

Packet(kind, i) == [kind |-> kind, i |-> i]
Connect    == Packet("connect", 0)
Entity(i)  == Packet("entity", i)
Online     == Packet("online", 0)
Status     == Packet("state", 0)
PingReq    == Packet("ping", 0)
Nothing    == Packet("none", 0)

VARIABLES
  state, discoveryIndex,
  tx,            \* the packet staged and not yet written, Nothing otherwise
  stageAge,      \* since stateEnterUs, while a stage can time out
  backoff,       \* until nextReconnectUs
  publishAge, pingAge,   \* since lastPublishUs and lastPingUs
  fits,          \* does CONNECT with the configured credentials fit txBuf?
  status,        \* Sn_SR
  sending,       \* the socket's bit of s_sending_mask
  flight,        \* what the chip has sent and the broker not acknowledged
  rx,            \* packets in the receive buffer
  room,          \* does the chip report room for a packet?
  net, ip,       \* is the broker reachable, has the device an address?
  link,          \* the broker's side of the socket: "none", "tcp" or "open"
  client,        \* client identifier of the connection
  sessions,      \* client identifiers with a session, each with its will
  silent,        \* since the broker heard from the open link
  retained,      \* the retained availability message
  faults, polled,
  steady,        \* history: this connection always had a broker and room
  sent           \* history: what this connection was given, up to Online

timerVars  == <<stageAge, backoff, publishAge, pingAge>>
publisherVars == <<state, discoveryIndex, tx, timerVars>>
socketVars == <<status, sending, flight, rx>>
brokerVars == <<link, client, sessions, silent, retained>>
worldVars  == <<room, net, ip, fits>>
vars == <<state, discoveryIndex, tx, timerVars, socketVars, worldVars, brokerVars,
          faults, polled, steady, sent>>

\* All connections use one identifier, "esp32-ntp" or the configured one.
ClientIdFresh(c) == 1 - c
ClientId(c) == c

Init ==
  /\ state = "DISCONNECTED" /\ discoveryIndex = 0 /\ tx = Nothing
  /\ stageAge = 0 /\ backoff = 0 /\ publishAge = 0 /\ pingAge = 0
  /\ status = "CLOSED" /\ sending = FALSE /\ flight = Nothing /\ rx = <<>>
  /\ room = TRUE /\ net \in BOOLEAN /\ ip = FALSE /\ fits \in BOOLEAN
  /\ link = "none" /\ client = 0 /\ sessions = {} /\ silent = 0 /\ retained = "none"
  /\ faults = 0 /\ polled = FALSE /\ steady = FALSE /\ sent = <<>>

Fault == faults < MaxFaults /\ faults' = faults + 1

-----------------------------------------------------------------------------
(* The socket.                                                             *)

\* w5500_sock_close: the CLOSE command, not a disconnect.
CloseSocket ==
  /\ status' = "CLOSED" /\ sending' = FALSE /\ flight' = Nothing /\ rx' = <<>>
  /\ link' = "none" /\ silent' = 0
  /\ UNCHANGED <<client, sessions, retained>>

CanSend == status \in {"ESTABLISHED", "CLOSE_WAIT"}

\* w5500_tcp_send takes the packet once the one before is acknowledged and
\* there is room.
SendTakes == CanSend /\ (sending => flight = Nothing) /\ room

Recorded(p) ==
  IF p.kind \in {"state", "ping"} /\ Online \in {sent[i] : i \in 1..Len(sent)}
  THEN sent ELSE Append(sent, p)

Write(p) ==
  /\ sending' = TRUE /\ flight' = p /\ sent' = Recorded(p)
  /\ UNCHANGED <<status, rx>>

-----------------------------------------------------------------------------
(* The publisher.                                                          *)

\* The fields resetToDisconnected sets, but for the state and the index, which
\* two callers set again, and the timer of the stage.
Reset ==
  /\ CloseSocket
  /\ tx' = Nothing /\ backoff' = ReconnectBack
  /\ publishAge' = 0 /\ pingAge' = 0
  /\ UNCHANGED sent

ResetToDisconnected ==
  /\ Reset
  /\ state' = "DISCONNECTED" /\ discoveryIndex' = 0 /\ stageAge' = 0

\* pumpSend with p staged: it is taken, or stays staged, or the send fails
\* and the connection with it.  A send can fail though the socket was open
\* when the handler looked: the peer's reset, or a command the chip does not
\* take.
Taken(p) ==
  /\ SendTakes /\ Write(p) /\ tx' = Nothing
  /\ UNCHANGED <<backoff, brokerVars, faults>>

Stays(p) ==
  /\ CanSend /\ ~SendTakes /\ tx' = p
  /\ UNCHANGED <<backoff, socketVars, brokerVars, faults, sent>>

Pumped(p) == Taken(p) \/ Stays(p)

SendFails == (~CanSend /\ UNCHANGED faults) \/ (CanSend /\ Fault)

DroppedUnnoticed(p, i) ==
  /\ SendFails /\ tx' = p /\ discoveryIndex' = discoveryIndex + i
  /\ UNCHANGED <<state, timerVars, socketVars, brokerVars, sent>>

\* The send fails; the index is i afterwards.
Dropped(p, i) ==
  /\ SendFails /\ Reset
  /\ state' = "DISCONNECTED" /\ discoveryIndex' = i /\ stageAge' = 0

\* stageConnectPacket: a CONNECT that does not fit is not staged at all.
ConnectPacket == IF fits THEN Connect ELSE Nothing

ConnectTo ==
  /\ status' = "SYNSENT" /\ sending' = FALSE /\ flight' = Nothing /\ rx' = <<>>
  /\ link' = "none" /\ silent' = 0 /\ client' = ClientId(client)
  /\ sent' = <<>> /\ steady' = (net /\ room)
  /\ UNCHANGED <<sessions, retained>>

\* The socket does not open, or the chip does not take the command.
HandleDisconnected ==
  /\ state = "DISCONNECTED"
  /\ IF backoff = 0 /\ ip
     THEN \/ /\ ConnectTo
             /\ state' = "TCP_CONNECTING" /\ stageAge' = 0
             /\ UNCHANGED <<backoff, faults>>
          \/ /\ Fault /\ CloseSocket
             /\ backoff' = ReconnectBack
             /\ UNCHANGED <<state, stageAge, sent, steady>>
     ELSE UNCHANGED <<state, stageAge, backoff, socketVars, brokerVars, faults,
                      sent, steady>>
  /\ UNCHANGED <<discoveryIndex, tx, publishAge, pingAge>>

\* Whatever becomes of the send, the state is SENDING_CONNECT afterwards.
HandleTcpConnecting ==
  /\ state = "TCP_CONNECTING" /\ UNCHANGED steady
  /\ \/ /\ status = "ESTABLISHED"
        /\ state' = "SENDING_CONNECT" /\ stageAge' = 0
        /\ \/ /\ ConnectPacket = Nothing
              /\ tx' = Nothing
              /\ UNCHANGED <<backoff, socketVars, brokerVars, faults, sent>>
              /\ UNCHANGED <<discoveryIndex, publishAge, pingAge>>
           \/ /\ ConnectPacket # Nothing /\ Pumped(ConnectPacket)
              /\ UNCHANGED <<discoveryIndex, publishAge, pingAge>>
           \/ /\ ConnectPacket # Nothing /\ SendFails /\ Reset
              /\ discoveryIndex' = 0
     \/ /\ status # "ESTABLISHED"
        /\ IF status = "CLOSED" \/ stageAge > StageTimeout
           THEN ResetToDisconnected
           ELSE UNCHANGED <<state, discoveryIndex, tx, timerVars, socketVars,
                            brokerVars, sent>>
        /\ UNCHANGED faults

HandleSendingConnect ==
  /\ state = "SENDING_CONNECT" /\ UNCHANGED steady
  /\ \/ /\ tx = Nothing
        /\ state' = "AWAITING_CONNACK" /\ stageAge' = 0
        /\ UNCHANGED <<discoveryIndex, tx, backoff, publishAge, pingAge,
                       socketVars, brokerVars, faults, sent>>
     \/ /\ tx # Nothing /\ Taken(tx)
        /\ state' = "AWAITING_CONNACK" /\ stageAge' = 0
        /\ UNCHANGED <<discoveryIndex, publishAge, pingAge>>
     \/ /\ tx # Nothing /\ stageAge <= StageTimeout /\ Stays(tx)
        /\ UNCHANGED <<state, discoveryIndex, stageAge, publishAge, pingAge>>
     \/ /\ tx # Nothing /\ stageAge > StageTimeout /\ CanSend /\ ~SendTakes
        /\ ResetToDisconnected /\ UNCHANGED faults
     \/ tx # Nothing /\ Dropped(tx, 0)

\* MQTTPacket_readnb: what arrived is read before the status is looked at.
ReadPacket == IF rx # <<>> THEN Head(rx) ELSE IF CanSend THEN "none" ELSE "error"

KeepIndex == UNCHANGED discoveryIndex
StartIndex == discoveryIndex' = 0

HandleAwaitingConnack ==
  /\ state = "AWAITING_CONNACK" /\ UNCHANGED <<steady, faults>>
  /\ IF stageAge > StageTimeout
     THEN ResetToDisconnected
     ELSE CASE ReadPacket = "none" ->
                 UNCHANGED <<state, discoveryIndex, tx, timerVars, socketVars,
                             brokerVars, sent>>
            [] ReadPacket = "accepted" ->
                 /\ rx' = Tail(rx)
                 /\ state' = "PUBLISHING_DISCOVERY" /\ StartIndex /\ stageAge' = 0
                 /\ UNCHANGED <<tx, backoff, publishAge, pingAge, status, sending,
                                flight, brokerVars, sent>>
            [] OTHER -> ResetToDisconnected

\* Past the last entity and the availability.
AnnouncedLate(i) == i > EntityCount + 1
Announced(i) == i > EntityCount

\* After a failed send the index moves on all the same.
HandlePublishingDiscovery ==
  /\ state = "PUBLISHING_DISCOVERY" /\ UNCHANGED steady
  /\ \/ /\ tx # Nothing
        /\ \/ /\ Pumped(tx)
              /\ UNCHANGED <<state, discoveryIndex, stageAge, publishAge, pingAge>>
           \/ Dropped(tx, 0)
     \/ /\ tx = Nothing /\ ~Announced(discoveryIndex)
        /\ LET p == IF discoveryIndex < EntityCount THEN Entity(discoveryIndex) ELSE Online
           IN  \/ /\ Pumped(p) /\ discoveryIndex' = discoveryIndex + 1
                  /\ UNCHANGED <<state, stageAge, publishAge, pingAge>>
               \/ Dropped(p, 1)
     \/ /\ tx = Nothing /\ Announced(discoveryIndex)
        /\ state' = "CONNECTED" /\ publishAge' = 0 /\ pingAge' = 0
        /\ UNCHANGED <<discoveryIndex, tx, stageAge, backoff, socketVars, brokerVars,
                       faults, sent>>

PublishDue == publishAge >= PublishInterval

PingDueWithState == PublishDue /\ pingAge >= Keepalive
PingDue == pingAge >= Keepalive

\* handleConnected with an open socket: the packet that waits, the state, the
\* ping, or something to read, in this order.
Converse ==
  \/ /\ tx # Nothing
     /\ \/ Pumped(tx) /\ UNCHANGED <<state, discoveryIndex, stageAge, publishAge, pingAge>>
        \/ Dropped(tx, 0)
  \/ /\ tx = Nothing /\ PublishDue
     /\ \/ /\ Pumped(Status) /\ publishAge' = 0
           /\ UNCHANGED <<state, discoveryIndex, stageAge, pingAge>>
        \/ Dropped(Status, 0)
  \/ /\ tx = Nothing /\ ~PublishDue /\ PingDue
     /\ \/ /\ Pumped(PingReq) /\ pingAge' = 0
           /\ UNCHANGED <<state, discoveryIndex, stageAge, publishAge>>
        \/ Dropped(PingReq, 0)
  \/ /\ tx = Nothing /\ ~PublishDue /\ ~PingDue
     /\ \/ /\ rx' = IF rx = <<>> THEN rx ELSE Tail(rx)
           /\ UNCHANGED <<publisherVars, status, sending, flight, brokerVars, faults, sent>>
        \/ rx = <<>> /\ Fault /\ ResetToDisconnected

HandleConnected ==
  /\ state = "CONNECTED" /\ UNCHANGED steady
  /\ IF status \in {"CLOSED", "CLOSE_WAIT"}
     THEN ResetToDisconnected /\ UNCHANGED faults
     ELSE Converse

\* One of the many passes of a unit; polled when it found nothing to do.
Loop ==
  /\ \/ HandleDisconnected \/ HandleTcpConnecting \/ HandleSendingConnect
     \/ HandleAwaitingConnack \/ HandlePublishingDiscovery \/ HandleConnected
  /\ polled' = (UNCHANGED <<publisherVars, socketVars>>)
  /\ UNCHANGED worldVars

\* onChipReset's callback.
ChipRebuilt ==
  /\ Fault /\ ResetToDisconnected
  /\ UNCHANGED <<worldVars, polled, steady>>

\* Sockets do not outlive a restart, sessions at the broker do.
Restart ==
  /\ Fault /\ CloseSocket
  /\ state' = "DISCONNECTED" /\ discoveryIndex' = 0 /\ tx' = Nothing
  /\ stageAge' = 0 /\ backoff' = 0 /\ publishAge' = 0 /\ pingAge' = 0
  /\ UNCHANGED <<worldVars, polled, steady, sent>>

-----------------------------------------------------------------------------
(* The chip, the network and the broker.                                   *)

\* The chip forgets its sockets; the driver has not noticed.
ChipLost ==
  /\ Fault /\ status # "CLOSED"
  /\ status' = "CLOSED" /\ flight' = Nothing /\ rx' = <<>> /\ link' = "none" /\ silent' = 0
  /\ UNCHANGED <<publisherVars, sending, worldVars, client, sessions, retained, polled,
                 steady, sent>>

\* Nothing acknowledges: the retransmissions run out.
ChipGivesUp ==
  /\ ~net /\ (status = "SYNSENT" \/ (CanSend /\ flight # Nothing))
  /\ status' = "CLOSED" /\ flight' = Nothing /\ link' = "none" /\ silent' = 0
  /\ UNCHANGED <<publisherVars, sending, rx, worldVars, client, sessions, retained, faults,
                 polled, steady, sent>>

BrokerAccepts ==
  /\ net /\ status = "SYNSENT"
  /\ \/ status' = "ESTABLISHED" /\ link' = "tcp" /\ UNCHANGED faults
     \/ status' = "CLOSED" /\ Fault /\ UNCHANGED link
  /\ UNCHANGED <<publisherVars, sending, flight, rx, worldVars, client, sessions, silent,
                 retained, polled, steady, sent>>

\* A client that connects again takes its session over: its old will is out.
Accepts ==
  /\ link' = "open" /\ sessions' = sessions \cup {client}
  /\ retained' = IF client \in sessions THEN "offline" ELSE retained
  /\ rx' = Append(rx, "accepted") /\ UNCHANGED <<status, faults>>

Refuses ==
  /\ Fault /\ link' = "none" /\ rx' = Append(rx, "refused") /\ status' = "CLOSE_WAIT"
  /\ UNCHANGED <<sessions, retained>>

\* What is sent over a connection the broker no longer has is answered by a
\* reset.
BrokerReceives ==
  /\ net /\ CanSend /\ flight # Nothing
  /\ flight' = Nothing /\ silent' = 0
  /\ CASE link = "none" ->
            status' = "CLOSED" /\ UNCHANGED <<rx, link, sessions, retained, faults>>
       [] link # "none" /\ flight = Connect -> Accepts \/ Refuses
       [] link # "none" /\ flight # Connect ->
            /\ retained' = IF flight = Online THEN "online" ELSE retained
            /\ rx' = IF flight = PingReq THEN Append(rx, "pong") ELSE rx
            /\ UNCHANGED <<status, link, sessions, faults>>
  /\ UNCHANGED <<publisherVars, sending, worldVars, client, polled, steady, sent>>

\* The broker gives up a session it has not heard from, and publishes its will.
BrokerExpires ==
  /\ \E c \in sessions :
       /\ (c = client /\ link = "open") => silent > KeepaliveTold
       /\ sessions' = sessions \ {c} /\ retained' = "offline"
       /\ IF c = client /\ link = "open"
          THEN /\ link' = "none" /\ silent' = 0
               /\ status' = IF net THEN "CLOSE_WAIT" ELSE status
          ELSE UNCHANGED <<link, silent, status>>
  /\ UNCHANGED <<publisherVars, sending, flight, rx, worldVars, client, faults, polled,
                 steady, sent>>

\* The broker closes the connection, or dies and forgets its sessions.
BrokerCloses ==
  /\ Fault /\ net /\ link # "none"
  /\ link' = "none" /\ silent' = 0
  /\ \/ /\ status' = "CLOSE_WAIT"
        /\ sessions' = sessions \ {client}
        /\ retained' = IF client \in sessions THEN "offline" ELSE retained
     \/ sessions' = {} /\ UNCHANGED <<status, retained>>
  /\ UNCHANGED <<publisherVars, sending, flight, rx, worldVars, client, polled, steady, sent>>

\* The broker comes and goes, the address too, and the chip is late to free
\* its ring.
World ==
  /\ \/ net /\ Fault /\ net' = FALSE /\ steady' = FALSE /\ UNCHANGED <<room, ip>>
     \/ ~net /\ net' = TRUE /\ UNCHANGED <<room, ip, faults, steady>>
     \/ ip /\ Fault /\ ip' = FALSE /\ UNCHANGED <<room, net, steady>>
     \/ ~ip /\ ip' = TRUE /\ UNCHANGED <<room, net, faults, steady>>
     \/ room /\ Fault /\ room' = FALSE /\ steady' = FALSE /\ UNCHANGED <<net, ip>>
  /\ UNCHANGED <<publisherVars, socketVars, fits, brokerVars, polled, sent>>

RoomAgain ==
  /\ ~room /\ room' = TRUE
  /\ UNCHANGED <<publisherVars, socketVars, net, ip, fits, brokerVars, faults, polled,
                 steady, sent>>

\* A unit passes: not before a pass found nothing to do, nor before the broker
\* has what a working network delivers at once.
Grown(age, limit) == IF age < limit THEN age + 1 ELSE age

Tick ==
  /\ polled /\ ~(net /\ (status = "SYNSENT" \/ (CanSend /\ flight # Nothing)))
  /\ polled' = FALSE
  /\ stageAge' = IF state \in {"TCP_CONNECTING", "SENDING_CONNECT", "AWAITING_CONNACK"}
                 THEN Grown(stageAge, StageTimeout + 1) ELSE stageAge
  /\ backoff' = IF backoff = 0 THEN 0 ELSE backoff - 1
  /\ publishAge' = IF state = "CONNECTED" THEN Grown(publishAge, PublishInterval) ELSE 0
  /\ pingAge' = IF state = "CONNECTED" THEN Grown(pingAge, Keepalive) ELSE 0
  /\ silent' = IF link = "open" THEN Grown(silent, KeepaliveTold + 1) ELSE silent
  /\ UNCHANGED <<state, discoveryIndex, tx, socketVars, worldVars, link, client, sessions,
                 retained, faults, steady, sent>>

-----------------------------------------------------------------------------
Next ==
  \/ Loop \/ ChipRebuilt \/ Restart \/ ChipLost \/ ChipGivesUp \/ BrokerAccepts
  \/ BrokerReceives \/ BrokerExpires \/ BrokerCloses \/ World \/ RoomAgain \/ Tick

Fairness ==
  /\ WF_vars(Loop) /\ WF_vars(Tick) /\ WF_vars(ChipGivesUp) /\ WF_vars(RoomAgain)
  /\ WF_vars(BrokerAccepts) /\ WF_vars(BrokerReceives) /\ WF_vars(BrokerExpires)

Spec == Init /\ [][Next]_vars /\ Fairness

-----------------------------------------------------------------------------
States == {"DISCONNECTED", "TCP_CONNECTING", "SENDING_CONNECT", "AWAITING_CONNACK",
           "PUBLISHING_DISCOVERY", "CONNECTED"}
Packets == {Connect, Online, Status, PingReq} \cup {Entity(i) : i \in 0..(EntityCount - 1)}

PublisherOK ==
  /\ state \in States /\ discoveryIndex \in 0..(EntityCount + 1)
  /\ tx \in Packets \cup {Nothing}
  /\ stageAge \in 0..(StageTimeout + 1) /\ backoff \in 0..ReconnectBack
  /\ publishAge \in 0..PublishInterval /\ pingAge \in 0..Keepalive

SocketOK ==
  /\ status \in {"CLOSED", "SYNSENT", "ESTABLISHED", "CLOSE_WAIT"}
  /\ flight \in Packets \cup {Nothing} /\ rx \in Seq({"accepted", "refused", "pong"})
  /\ link \in {"none", "tcp", "open"} /\ (link # "none" => CanSend)
  /\ silent \in 0..(KeepaliveTold + 1)
  /\ sent \in Seq(Packets)

BrokerOK ==
  /\ client \in 0..1 /\ sessions \subseteq 0..1 /\ retained \in {"none", "online", "offline"}
  /\ faults \in 0..MaxFaults

FlagsOK ==
  /\ sending \in BOOLEAN /\ room \in BOOLEAN /\ net \in BOOLEAN /\ ip \in BOOLEAN
  /\ fits \in BOOLEAN /\ polled \in BOOLEAN /\ steady \in BOOLEAN

TypeOK == PublisherOK /\ SocketOK /\ BrokerOK /\ FlagsOK

\* What a connection announces before it counts as connected.
Announcement ==
  [i \in 1..(EntityCount + 2) |->
     IF i = 1 THEN Connect ELSE IF i = EntityCount + 2 THEN Online ELSE Entity(i - 2)]

\* A connection that counts as connected has announced every entity once, in
\* order, and then itself, whatever failed on the connections before it and
\* however often a packet had to wait for the chip (discoveryIndex survives a
\* reset in handlePublishingDiscovery).
AnnouncedWhole == state = "CONNECTED" => sent = Announcement

\* "45s (< the 60s told to the broker)": whatever is published and whatever
\* has to wait, a broker that was reachable throughout is never without a
\* packet for longer than it was told.
KeepaliveKept == steady /\ link = "open" => silent <= KeepaliveTold

\* A broker that vanishes without a word is noticed in every state, also in
\* the two that have no timeout of their own.
VanishedNoticed == (~net /\ state # "DISCONNECTED") ~> (net \/ state = "DISCONNECTED")

\* Once broker and address stay, the device ends up connected and the broker's
\* retained availability is "online", though the sessions of connections that
\* were closed without a word still publish their "offline".
AvailabilityTrue ==
  fits /\ <>[](net /\ ip) => <>[](state = "CONNECTED" /\ retained = "online")
=============================================================================
