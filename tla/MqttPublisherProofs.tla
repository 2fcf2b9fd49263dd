------------------------ MODULE MqttPublisherProofs ------------------------
(***************************************************************************)
(* Proofs about the MQTT publisher, for any number of entities, any times  *)
(* and any number of faults.                                               *)
(***************************************************************************)
EXTENDS MqttPublisher, TLAPS

-----------------------------------------------------------------------------
(* The inductive invariant.                                                *)

\* The connection has been given nothing, and cannot be answered.
Unsent == sent = <<>> /\ flight = Nothing /\ rx = <<>> /\ link # "open"

\* It has been given the first n packets of the announcement.
Given(n) == Len(sent) = n /\ \A j \in 1..n : sent[j] = Announcement[j]

\* How far the announcement is, in every state.
ProgressInv ==
  /\ state = "DISCONNECTED" => tx = Nothing /\ flight = Nothing /\ link # "open"
  /\ state = "TCP_CONNECTING" => tx = Nothing /\ Unsent
  /\ state = "SENDING_CONNECT" =>
       (tx \in {Connect, Nothing} /\ Unsent) \/ (tx = Nothing /\ Given(1))
  /\ state = "AWAITING_CONNACK" => tx = Nothing /\ (Unsent \/ Given(1))
  /\ state = "PUBLISHING_DISCOVERY" =>
       \/ tx = Nothing /\ Given(discoveryIndex + 1)
       \/ discoveryIndex > 0 /\ tx = Announcement[discoveryIndex + 1] /\ Given(discoveryIndex)
  /\ state = "CONNECTED" => tx \in {Nothing, Status, PingReq} /\ Given(EntityCount + 2)

\* The chip takes a packet from a connection that always had a broker and room
\* as soon as the last is acknowledged.
RoomInv == (steady => net /\ room) /\ (~sending => flight = Nothing)

\* An open link whose acceptance is unread has it in the buffer.
AcceptedInv ==
  steady /\ link = "open" /\ state \in {"SENDING_CONNECT", "AWAITING_CONNACK"} => rx # <<>>

\* The broker's silence is at most a unit until the publisher is connected, and
\* then follows the age of the last ping, unless something is on its way.  A
\* unit passes only after a pass found nothing to do.
SilentInv ==
  steady /\ link = "open" =>
    /\ state # "CONNECTED" => silent <= 1 /\ (polled /\ flight = Nothing => silent = 0)
    /\ state = "CONNECTED" =>
         /\ silent <= Keepalive + 1
         /\ tx = Nothing /\ flight = Nothing => silent <= pingAge + 1
         /\ polled /\ flight = Nothing => silent = 0 \/ (tx = Nothing /\ pingAge < Keepalive)

IInv == TypeOK /\ ProgressInv /\ RoomInv /\ AcceptedInv /\ SilentInv

-----------------------------------------------------------------------------
(* Types.                                                                  *)

\* The constants are numbers, and the broker is told more than the publisher
\* keeps.
LEMMA Numbers ==
  /\ EntityCount \in Nat /\ StageTimeout \in Nat /\ ReconnectBack \in Nat /\ Keepalive \in Nat
  /\ PublishInterval \in Nat /\ MaxFaults \in Nat /\ KeepaliveTold \in Nat
  /\ Keepalive < KeepaliveTold
BY MqttAssumption, KeepaliveAssumption

\* Every packet differs from none.
LEMMA PacketKinds ==
  /\ Connect \in Packets /\ Online \in Packets /\ Status \in Packets /\ PingReq \in Packets
  /\ \A i \in 0..(EntityCount - 1) : Entity(i) \in Packets
  /\ Nothing \notin Packets
BY DEF Packets, Connect, Online, Status, PingReq, Entity, Nothing, Packet

\* What each handler leaves of the publisher's own words.
LEMMA PublisherStays ==
  ASSUME TypeOK, [Next]_vars PROVE PublisherOK'
<1> USE Numbers, PacketKinds DEF PublisherOK, timerVars, publisherVars, States
<1>p. PublisherOK
  BY DEF TypeOK
<1>1. Reset => /\ tx' = Nothing /\ backoff' \in 0..ReconnectBack
               /\ publishAge' \in 0..PublishInterval /\ pingAge' \in 0..Keepalive
  BY DEF Reset
<1>2. ResetToDisconnected => PublisherOK'
  BY <1>1 DEF ResetToDisconnected
<1>3. ASSUME NEW p, NEW i \in {0, 1}, Dropped(p, i) PROVE PublisherOK'
  BY <1>1, <1>3 DEF Dropped
<1>4. ASSUME NEW p \in Packets, Pumped(p)
      PROVE  tx' \in Packets \cup {Nothing} /\ backoff' = backoff
  BY <1>4 DEF Pumped, Taken, Stays
<1>5. CASE HandleDisconnected
  BY <1>p, <1>5 DEF HandleDisconnected
<1>6. CASE HandleTcpConnecting
  <2>1. ConnectPacket \in Packets \/ ConnectPacket = Nothing
    BY DEF ConnectPacket
  <2>2. QED
    BY <1>p, <1>1, <1>2, <1>4, <1>6, <2>1 DEF HandleTcpConnecting
<1>7. CASE HandleSendingConnect
  BY <1>p, <1>2, <1>3, <1>7 DEF HandleSendingConnect, Taken, Stays
<1>8. CASE HandleAwaitingConnack
  BY <1>p, <1>2, <1>8 DEF HandleAwaitingConnack, StartIndex
<1>9. CASE HandlePublishingDiscovery
  <2>1. CASE tx # Nothing
    BY <1>p, <1>3, <1>4, <1>9, <2>1 DEF HandlePublishingDiscovery
  <2>2. CASE tx = Nothing /\ ~Announced(discoveryIndex)
    <3> DEFINE p == IF discoveryIndex < EntityCount THEN Entity(discoveryIndex) ELSE Online
    <3>1. p \in Packets
      BY <1>p
    <3>2. \/ Pumped(p) /\ discoveryIndex' = discoveryIndex + 1
             /\ UNCHANGED <<state, stageAge, publishAge, pingAge>>
          \/ Dropped(p, 1)
      BY <1>9, <2>2 DEF HandlePublishingDiscovery
    <3> HIDE DEF p
    <3>3. QED
      BY <1>p, <1>3, <1>4, <2>2, <3>1, <3>2 DEF Announced
  <2>3. CASE tx = Nothing /\ Announced(discoveryIndex)
    BY <1>p, <1>9, <2>3 DEF HandlePublishingDiscovery
  <2>4. QED
    BY <2>1, <2>2, <2>3
<1>10. CASE HandleConnected
  <2>1. CASE Converse
    BY <1>p, <1>2, <1>3, <1>4, <2>1 DEF Converse
  <2>2. QED
    BY <1>2, <1>10, <2>1 DEF HandleConnected
<1>11. CASE ChipRebuilt \/ Restart
  BY <1>2, <1>11 DEF ChipRebuilt, Restart
<1>12. CASE Tick
  BY <1>p, <1>12 DEF Tick, Grown
<1>13. CASE ChipLost \/ ChipGivesUp \/ BrokerAccepts \/ BrokerReceives
  BY <1>p, <1>13 DEF ChipLost, ChipGivesUp, BrokerAccepts, BrokerReceives
<1>14. CASE BrokerExpires \/ BrokerCloses \/ World \/ RoomAgain
  BY <1>p, <1>14 DEF BrokerExpires, BrokerCloses, World, RoomAgain
<1>15. CASE UNCHANGED vars
  BY <1>p, <1>15 DEF vars
<1>16. QED
  BY <1>5, <1>6, <1>7, <1>8, <1>9, <1>10, <1>11, <1>12, <1>13, <1>14, <1>15 DEF Next, Loop

\* A socket that is closed has nothing.
LEMMA CloseSocketTypes ==
  CloseSocket => /\ status' = "CLOSED" /\ flight' = Nothing /\ rx' = <<>> /\ link' = "none"
                 /\ silent' = 0 /\ sending' = FALSE /\ UNCHANGED <<client, sessions, retained>>
BY DEF CloseSocket

\* What is recorded is a packet.
LEMMA RecordedTypes ==
  ASSUME sent \in Seq(Packets), NEW p \in Packets
  PROVE  Recorded(p) \in Seq(Packets)
BY DEF Recorded

\* What a pumped packet does to the socket.
LEMMA PumpedSocket ==
  ASSUME NEW p \in Packets, Pumped(p), SocketOK
  PROVE  SocketOK' /\ UNCHANGED <<status, rx, brokerVars, faults>>
<1>1. UNCHANGED <<status, rx, link, client, sessions, silent, retained, faults>>
  BY DEF Pumped, Taken, Stays, Write, socketVars, brokerVars
<1>2. flight' \in {flight, p} /\ sent' \in {sent, Recorded(p)}
  BY DEF Pumped, Taken, Stays, Write, socketVars
<1>3. sent' \in Seq(Packets)
  BY <1>2, RecordedTypes DEF SocketOK
<1>4. QED
  BY <1>1, <1>2, <1>3 DEF SocketOK, CanSend, brokerVars

\* The socket's registers and rings keep their ranges, and a link has a socket.
LEMMA SocketStays ==
  ASSUME TypeOK, [Next]_vars PROVE SocketOK'
<1> USE Numbers, PacketKinds DEF socketVars, brokerVars
<1>s. SocketOK
  BY DEF TypeOK
<1>0. <<>> \in Seq({"accepted", "refused", "pong"}) /\ <<>> \in Seq(Packets)
  OBVIOUS
<1>1. ASSUME CloseSocket, sent' = sent PROVE SocketOK'
  BY <1>s, <1>0, <1>1, CloseSocketTypes DEF SocketOK
<1>2. Reset => SocketOK'
  BY <1>1 DEF Reset
<1>3. ResetToDisconnected => SocketOK'
  BY <1>2 DEF ResetToDisconnected
<1>4. ASSUME NEW p, NEW i, Dropped(p, i) PROVE SocketOK'
  BY <1>2, <1>4 DEF Dropped
<1>5. UNCHANGED <<socketVars, brokerVars, sent>> => SocketOK'
  BY <1>s DEF SocketOK, CanSend
<1>6. CASE HandleDisconnected
  <2>1. ConnectTo => SocketOK'
    BY <1>0 DEF ConnectTo, SocketOK
  <2>2. QED
    BY <1>1, <1>5, <1>6, <2>1 DEF HandleDisconnected
<1>7. CASE HandleTcpConnecting
  <2>1. ConnectPacket \in Packets \/ ConnectPacket = Nothing
    BY DEF ConnectPacket
  <2>2. \/ UNCHANGED <<socketVars, brokerVars, sent>>
        \/ ConnectPacket # Nothing /\ Pumped(ConnectPacket)
        \/ Reset \/ ResetToDisconnected
    BY <1>7 DEF HandleTcpConnecting
  <2>3. QED
    BY <1>s, <1>2, <1>3, <1>5, <2>1, <2>2, PumpedSocket
<1>8. CASE HandleSendingConnect
  <2>1. tx # Nothing => tx \in Packets
    BY DEF TypeOK, PublisherOK
  <2>2. \/ UNCHANGED <<socketVars, brokerVars, sent>>
        \/ tx # Nothing /\ Pumped(tx)
        \/ ResetToDisconnected \/ Dropped(tx, 0)
    BY <1>8 DEF HandleSendingConnect, Pumped
  <2>3. QED
    BY <1>s, <1>3, <1>4, <1>5, <2>1, <2>2, PumpedSocket
<1>9. CASE HandleAwaitingConnack
  <2>1. CASE rx' = Tail(rx) /\ ReadPacket = "accepted"
             /\ UNCHANGED <<status, sending, flight, brokerVars, sent>>
    <3>1. rx # <<>>
      BY <2>1 DEF ReadPacket
    <3>2. rx' \in Seq({"accepted", "refused", "pong"})
      BY <1>s, <2>1, <3>1 DEF SocketOK
    <3>3. QED
      BY <1>s, <2>1, <3>2 DEF SocketOK, CanSend
  <2>2. QED
    BY <1>3, <1>5, <1>9, <2>1 DEF HandleAwaitingConnack
<1>10. CASE HandlePublishingDiscovery
  <2> DEFINE p == IF discoveryIndex < EntityCount THEN Entity(discoveryIndex) ELSE Online
  <2>1. p \in Packets /\ (tx # Nothing => tx \in Packets)
    BY DEF TypeOK, PublisherOK
  <2>2. \/ UNCHANGED <<socketVars, brokerVars, sent>>
        \/ tx # Nothing /\ Pumped(tx)
        \/ Pumped(p) \/ Dropped(tx, 0) \/ Dropped(p, 1)
    BY <1>10 DEF HandlePublishingDiscovery
  <2> HIDE DEF p
  <2>3. QED
    BY <1>s, <1>4, <1>5, <2>1, <2>2, PumpedSocket
<1>11. CASE HandleConnected
  <2>1. tx # Nothing => tx \in Packets
    BY DEF TypeOK, PublisherOK
  <2>2. CASE /\ rx' = IF rx = <<>> THEN rx ELSE Tail(rx)
             /\ UNCHANGED <<publisherVars, status, sending, flight, brokerVars, faults, sent>>
    <3>1. rx' \in Seq({"accepted", "refused", "pong"})
      BY <1>s, <2>2 DEF SocketOK
    <3>2. QED
      BY <1>s, <2>2, <3>1 DEF SocketOK, CanSend
  <2>3. CASE Converse
    <3>1. \/ tx # Nothing /\ Pumped(tx)
          \/ Pumped(Status) \/ Pumped(PingReq)
          \/ Dropped(tx, 0) \/ Dropped(Status, 0) \/ Dropped(PingReq, 0)
          \/ ResetToDisconnected
          \/ /\ rx' = IF rx = <<>> THEN rx ELSE Tail(rx)
             /\ UNCHANGED <<publisherVars, status, sending, flight, brokerVars, faults, sent>>
      BY <2>3 DEF Converse
    <3>2. QED
      BY <1>s, <1>3, <1>4, <2>1, <2>2, <3>1, PumpedSocket
  <2>4. QED
    BY <1>3, <1>11, <2>3 DEF HandleConnected
<1>12. CASE ChipRebuilt \/ Restart
  BY <1>1, <1>3, <1>12 DEF ChipRebuilt, Restart
<1>13. CASE ChipLost \/ ChipGivesUp
  <2>1. rx' \in {rx, <<>>} /\ status' = "CLOSED" /\ flight' = Nothing /\ link' = "none"
        /\ silent' = 0 /\ sent' = sent
    BY <1>13 DEF ChipLost, ChipGivesUp
  <2>2. rx' \in Seq({"accepted", "refused", "pong"})
    BY <1>s, <1>0, <2>1 DEF SocketOK
  <2>3. QED
    BY <1>s, <2>1, <2>2 DEF SocketOK
<1>14. CASE BrokerAccepts
  BY <1>s, <1>14 DEF BrokerAccepts, SocketOK, CanSend
<1>15. CASE BrokerReceives
  <2>1. rx' \in {rx, Append(rx, "accepted"), Append(rx, "refused"), Append(rx, "pong")}
        /\ flight' = Nothing /\ silent' = 0 /\ sent' = sent
    BY <1>15 DEF BrokerReceives, Accepts, Refuses
  <2>2. rx' \in Seq({"accepted", "refused", "pong"})
    <3>1. \A e \in {"accepted", "refused", "pong"} :
            Append(rx, e) \in Seq({"accepted", "refused", "pong"})
      BY <1>s DEF SocketOK
    <3>2. QED
      BY <1>s, <2>1, <3>1 DEF SocketOK
  <2>3. \/ link' \in {link, "open"} /\ status' = status
        \/ link' = "none" /\ status' = "CLOSE_WAIT"
        \/ link' = link /\ link = "none" /\ status' = "CLOSED"
    BY <1>15 DEF BrokerReceives, Accepts, Refuses
  <2>4. CanSend
    BY <1>15 DEF BrokerReceives
  <2>5. QED
    BY <1>s, <2>1, <2>2, <2>3, <2>4 DEF SocketOK, CanSend
<1>16. CASE BrokerExpires \/ BrokerCloses
  <2>1. UNCHANGED <<flight, rx, sent>>
    BY <1>16 DEF BrokerExpires, BrokerCloses
  <2>2. /\ status' \in {status, "CLOSE_WAIT"} /\ silent' \in {silent, 0}
        /\ link' = "none" \/ (link' = link /\ status' = status)
    BY <1>16 DEF BrokerExpires, BrokerCloses
  <2>3. QED
    BY <1>s, <2>1, <2>2 DEF SocketOK, CanSend
<1>17. CASE World \/ RoomAgain
  BY <1>5, <1>17 DEF World, RoomAgain
<1>18. CASE Tick
  <2>1. UNCHANGED <<status, flight, rx, link, sent>>
    BY <1>18 DEF Tick
  <2>2. silent' \in 0..(KeepaliveTold + 1)
    BY <1>s, <1>18 DEF Tick, SocketOK, Grown
  <2>3. QED
    BY <1>s, <2>1, <2>2 DEF SocketOK, CanSend
<1>19. CASE UNCHANGED vars
  BY <1>5, <1>19 DEF vars
<1>20. QED
  BY <1>6, <1>7, <1>8, <1>9, <1>10, <1>11, <1>12, <1>13, <1>14, <1>15, <1>16, <1>17, <1>18,
     <1>19 DEF Next, Loop

\* So do the broker's sessions and the count of faults.
LEMMA BrokerStays ==
  ASSUME TypeOK, [Next]_vars PROVE BrokerOK'
<1> USE Numbers DEF BrokerOK, brokerVars
<1>b. BrokerOK
  BY DEF TypeOK
<1>f. Fault => faults' \in 0..MaxFaults
  BY <1>b DEF Fault
<1>c. CloseSocket => UNCHANGED <<client, sessions, retained>>
  BY CloseSocketTypes
<1>1. ASSUME ResetToDisconnected \/ Reset PROVE UNCHANGED <<client, sessions, retained>>
  BY <1>1, <1>c DEF ResetToDisconnected, Reset
<1>2. ASSUME NEW p, Pumped(p) PROVE UNCHANGED <<client, sessions, retained, faults>>
  BY <1>2 DEF Pumped, Taken, Stays
<1>3. ASSUME NEW p, NEW i, Dropped(p, i) PROVE BrokerOK'
  BY <1>b, <1>f, <1>1, <1>3 DEF Dropped, SendFails
<1>4. CASE HandleDisconnected
  BY <1>b, <1>f, <1>c, <1>4 DEF HandleDisconnected, ConnectTo, ClientId
<1>5. CASE HandleTcpConnecting
  BY <1>b, <1>f, <1>1, <1>2, <1>5 DEF HandleTcpConnecting, SendFails
<1>6. CASE HandleSendingConnect
  BY <1>b, <1>1, <1>2, <1>3, <1>6 DEF HandleSendingConnect, Pumped
<1>7. CASE HandleAwaitingConnack
  BY <1>b, <1>1, <1>7 DEF HandleAwaitingConnack
<1>8. CASE HandlePublishingDiscovery
  BY <1>b, <1>2, <1>3, <1>8 DEF HandlePublishingDiscovery
<1>9. CASE HandleConnected
  <2>1. Converse => BrokerOK'
    BY <1>b, <1>f, <1>1, <1>2, <1>3 DEF Converse
  <2>2. QED
    BY <1>b, <1>1, <1>9, <2>1 DEF HandleConnected
<1>10. CASE ChipRebuilt \/ Restart
  BY <1>b, <1>f, <1>c, <1>1, <1>10 DEF ChipRebuilt, Restart
<1>11. CASE ChipLost \/ ChipGivesUp \/ BrokerAccepts
  BY <1>b, <1>f, <1>11 DEF ChipLost, ChipGivesUp, BrokerAccepts
<1>12. CASE BrokerReceives
  BY <1>b, <1>f, <1>12 DEF BrokerReceives, Accepts, Refuses
<1>13. CASE BrokerExpires \/ BrokerCloses
  BY <1>b, <1>f, <1>13 DEF BrokerExpires, BrokerCloses
<1>14. CASE World \/ RoomAgain \/ Tick
  BY <1>b, <1>f, <1>14 DEF World, RoomAgain, Tick
<1>15. CASE UNCHANGED vars
  BY <1>b, <1>15 DEF vars
<1>16. QED
  BY <1>4, <1>5, <1>6, <1>7, <1>8, <1>9, <1>10, <1>11, <1>12, <1>13, <1>14, <1>15 DEF Next, Loop

\* And every flag is one.
LEMMA FlagsStay ==
  ASSUME FlagsOK, [Next]_vars PROVE FlagsOK'
<1> USE DEF FlagsOK, worldVars, socketVars
<1>1. CASE Loop
  <2>1. polled' \in BOOLEAN /\ UNCHANGED worldVars
    BY <1>1 DEF Loop
  <2>2. steady' \in {steady, net /\ room}
    BY <1>1 DEF Loop, HandleDisconnected, ConnectTo, HandleTcpConnecting, HandleSendingConnect,
                HandleAwaitingConnack, HandlePublishingDiscovery, HandleConnected
  <2>3. CloseSocket => sending' = FALSE
    BY DEF CloseSocket
  <2>4. Reset \/ ResetToDisconnected => sending' = FALSE
    BY <2>3 DEF Reset, ResetToDisconnected
  <2>5. ASSUME NEW p, NEW i, Dropped(p, i) PROVE sending' = FALSE
    BY <2>4, <2>5 DEF Dropped
  <2>6. ASSUME NEW p, Pumped(p) PROVE sending' \in {sending, TRUE}
    BY <2>6 DEF Pumped, Taken, Stays, Write
  <2>7. HandleDisconnected => sending' \in {sending, FALSE}
    BY <2>3 DEF HandleDisconnected, ConnectTo
  <2>8. HandleTcpConnecting => sending' \in {sending, TRUE, FALSE}
    BY <2>4, <2>6 DEF HandleTcpConnecting
  <2>9. HandleSendingConnect => sending' \in {sending, TRUE, FALSE}
    BY <2>4, <2>5, <2>6 DEF HandleSendingConnect, Pumped
  <2>10. HandleAwaitingConnack => sending' \in {sending, FALSE}
    BY <2>4 DEF HandleAwaitingConnack
  <2>11. HandlePublishingDiscovery => sending' \in {sending, TRUE, FALSE}
    BY <2>5, <2>6 DEF HandlePublishingDiscovery
  <2>12. HandleConnected => sending' \in {sending, TRUE, FALSE}
    BY <2>4, <2>5, <2>6 DEF HandleConnected, Converse
  <2>13. sending' \in {sending, TRUE, FALSE}
    BY <1>1, <2>7, <2>8, <2>9, <2>10, <2>11, <2>12 DEF Loop
  <2>14. QED
    BY <2>1, <2>2, <2>13
<1>2. CASE ChipRebuilt \/ Restart
  BY <1>2 DEF ChipRebuilt, Restart, ResetToDisconnected, Reset, CloseSocket
<1>3. CASE ChipLost \/ ChipGivesUp \/ BrokerAccepts \/ BrokerReceives
  BY <1>3 DEF ChipLost, ChipGivesUp, BrokerAccepts, BrokerReceives
<1>4. CASE BrokerExpires \/ BrokerCloses
  BY <1>4 DEF BrokerExpires, BrokerCloses
<1>5. CASE World
  BY <1>5 DEF World
<1>6. CASE RoomAgain \/ Tick
  BY <1>6 DEF RoomAgain, Tick
<1>7. CASE UNCHANGED vars
  BY <1>7 DEF vars
<1>8. QED
  BY <1>1, <1>2, <1>3, <1>4, <1>5, <1>6, <1>7 DEF Next

\* Every word keeps its range, every flag is one, and a link has an open socket.
THEOREM TypeCorrect == Spec => []TypeOK
<1>1. Init => TypeOK
  <2>1. Init => PublisherOK /\ BrokerOK
    BY Numbers, PacketKinds DEF Init, PublisherOK, BrokerOK, States
  <2>2. Init => SocketOK
    BY Numbers, PacketKinds DEF Init, SocketOK
  <2>3. Init => FlagsOK
    BY DEF Init, FlagsOK
  <2>4. QED
    BY <2>1, <2>2, <2>3 DEF TypeOK
<1>2. TypeOK /\ [Next]_vars => TypeOK'
  BY PublisherStays, SocketStays, BrokerStays, FlagsStay DEF TypeOK
<1>3. QED
  BY <1>1, <1>2, PTL DEF Spec

-----------------------------------------------------------------------------
(* The announcement.                                                       *)

\* What the announcement holds: packets, and none that is repeated while
\* connected.
LEMMA AnnouncementIs ==
  /\ \A n \in 1..(EntityCount + 2) : Announcement[n] \in Packets
  /\ \A n \in 1..(EntityCount + 2) : Announcement[n].kind \in {"connect", "entity", "online"}
  /\ Announcement[1] = Connect /\ Announcement[EntityCount + 2] = Online
  /\ \A i \in 0..(EntityCount - 1) : Announcement[i + 2] = Entity(i)
BY Numbers, PacketKinds DEF Announcement, Connect, Online, Entity, Packet

\* The next packet makes the prefix longer by one.
LEMMA GivenNext ==
  ASSUME sent \in Seq(Packets), NEW n \in 0..(EntityCount + 1), Given(n),
         sent' = Recorded(Announcement[n + 1])
  PROVE  Len(sent') = n + 1 /\ \A j \in 1..(n + 1) : sent'[j] = Announcement[j]
<1>1. n + 1 \in 1..(EntityCount + 2)
  BY Numbers
<1>2. Announcement[n + 1] \in Packets
      /\ Announcement[n + 1].kind \notin {"state", "ping"}
  BY <1>1, AnnouncementIs
<1>3. sent' = Append(sent, Announcement[n + 1])
  BY <1>2 DEF Recorded
<1>4. Len(sent) = n /\ \A j \in 1..n : sent[j] = Announcement[j]
  BY DEF Given
<1>5. Len(sent') = n + 1 /\ sent'[n + 1] = Announcement[n + 1]
      /\ \A j \in 1..n : sent'[j] = sent[j]
  BY <1>2, <1>3, <1>4
<1>6. QED
  BY <1>4, <1>5

\* The first is the CONNECT.
LEMMA GivenFirst ==
  ASSUME sent \in Seq(Packets), sent = <<>>, sent' = Recorded(Connect) PROVE Given(1)'
<1>1. Connect = Announcement[1] /\ Connect \in Packets /\ Connect.kind = "connect"
  BY AnnouncementIs, PacketKinds DEF Connect, Packet
<1>2. sent' = Append(sent, Connect)
  BY <1>1 DEF Recorded
<1>3. Len(sent') = 1 /\ sent'[1] = Connect
  BY <1>1, <1>2
<1>4. QED
  BY <1>1, <1>3 DEF Given

\* The whole announcement ends in the availability, and is not added to.
LEMMA GivenWhole ==
  ASSUME sent \in Seq(Packets), Given(EntityCount + 2)
  PROVE  /\ sent = Announcement
         /\ Recorded(Status) = sent /\ Recorded(PingReq) = sent
<1>1. sent = Announcement
  <2>1. DOMAIN sent = 1..(EntityCount + 2) /\ DOMAIN Announcement = 1..(EntityCount + 2)
    BY Numbers DEF Given, Announcement
  <2>2. \A j \in 1..(EntityCount + 2) : sent[j] = Announcement[j]
    BY DEF Given
  <2>3. sent = [j \in DOMAIN sent |-> sent[j]]
        /\ Announcement = [j \in DOMAIN Announcement |-> Announcement[j]]
    BY DEF Announcement
  <2>4. QED
    BY <2>1, <2>2, <2>3
<1>2. EntityCount + 2 \in 1..Len(sent) /\ sent[EntityCount + 2] = Online
  BY <1>1, Numbers, AnnouncementIs DEF Given
<1>3. Online \in {sent[i] : i \in 1..Len(sent)}
  BY <1>2
<1>4. QED
  BY <1>1, <1>3 DEF Recorded, Status, PingReq, Packet

\* A packet that is pumped is recorded and gone, or waits.
LEMMA PumpedWaits ==
  ASSUME NEW p, Pumped(p)
  PROVE  /\ UNCHANGED <<rx, link>>
         /\ \/ sent' = Recorded(p) /\ tx' = Nothing /\ flight' = p
            \/ sent' = sent /\ tx' = p /\ flight' = flight
BY DEF Pumped, Taken, Stays, Write, socketVars, brokerVars

\* However a connection is given up, nothing of it is left.
LEMMA GivenUp ==
  ASSUME ResetToDisconnected \/ Restart \/ (\E p : \E i : Dropped(p, i))
  PROVE  state' = "DISCONNECTED" /\ tx' = Nothing /\ flight' = Nothing /\ link' = "none"
BY DEF ResetToDisconnected, Restart, Dropped, Reset, CloseSocket

\* The chip, the network and the broker give the connection nothing, and answer
\* only what it was given.
LEMMA WorldGivesNothing ==
  ASSUME \/ ChipLost \/ ChipGivesUp \/ BrokerAccepts \/ BrokerReceives \/ BrokerExpires
         \/ BrokerCloses \/ World \/ RoomAgain \/ Tick \/ UNCHANGED vars
  PROVE  /\ UNCHANGED <<state, discoveryIndex, tx, sent>> /\ flight' \in {flight, Nothing}
         /\ flight = Nothing => rx' \in {rx, <<>>} /\ (link' = link \/ link' # "open")
<1> USE DEF publisherVars, socketVars, brokerVars
<1>1. CASE ChipLost \/ ChipGivesUp \/ BrokerAccepts
  BY <1>1 DEF ChipLost, ChipGivesUp, BrokerAccepts
<1>2. CASE BrokerReceives
  BY <1>2 DEF BrokerReceives
<1>3. CASE BrokerExpires \/ BrokerCloses
  BY <1>3 DEF BrokerExpires, BrokerCloses
<1>4. CASE World \/ RoomAgain \/ Tick
  BY <1>4 DEF World, RoomAgain, Tick
<1>5. CASE UNCHANGED vars
  BY <1>5 DEF vars
<1>6. QED
  BY <1>1, <1>2, <1>3, <1>4, <1>5

\* Each handler gives the connection the next packet of its announcement, or
\* gives it up.
LEMMA ProgressStays ==
  ASSUME TypeOK, ProgressInv, [Next]_vars PROVE ProgressInv'
<1>t. /\ sent \in Seq(Packets) /\ discoveryIndex \in 0..(EntityCount + 1)
      /\ tx \in Packets \cup {Nothing}
  BY DEF TypeOK, PublisherOK, SocketOK
<1>1. CASE \/ ChipLost \/ ChipGivesUp \/ BrokerAccepts \/ BrokerReceives \/ BrokerExpires
           \/ BrokerCloses \/ World \/ RoomAgain \/ Tick \/ UNCHANGED vars
  <2>1. UNCHANGED <<state, discoveryIndex, tx, sent>> /\ flight' \in {flight, Nothing}
        /\ (flight = Nothing => rx' \in {rx, <<>>} /\ (link' = link \/ link' # "open"))
    BY <1>1, WorldGivesNothing
  <2>2. Unsent => Unsent'
    BY <2>1 DEF Unsent
  <2>3. QED
    BY <2>1, <2>2 DEF ProgressInv, Given
<1>2. ASSUME ResetToDisconnected \/ Restart \/ (\E p : \E i : Dropped(p, i)) PROVE ProgressInv'
  <2>1. state' = "DISCONNECTED" /\ tx' = Nothing /\ flight' = Nothing /\ link' = "none"
    BY <1>2, GivenUp
  <2>2. QED
    BY <2>1 DEF ProgressInv
<1>3. UNCHANGED <<state, discoveryIndex, tx, socketVars, brokerVars, sent>> => ProgressInv'
  BY DEF ProgressInv, Unsent, Given, socketVars, brokerVars
<1>4. CASE ChipRebuilt \/ Restart
  BY <1>2, <1>4 DEF ChipRebuilt
<1>5. CASE HandleDisconnected
  <2>1. CASE ConnectTo /\ state' = "TCP_CONNECTING" /\ tx' = tx
    BY <1>5, <2>1 DEF HandleDisconnected, ConnectTo, ProgressInv, Unsent
  <2>2. CASE CloseSocket /\ UNCHANGED <<state, tx>>
    BY <1>5, <2>2 DEF HandleDisconnected, CloseSocket, ProgressInv
  <2>3. QED
    BY <1>3, <1>5, <2>1, <2>2 DEF HandleDisconnected
<1>6. CASE HandleTcpConnecting
  <2>1. state = "TCP_CONNECTING" /\ tx = Nothing /\ Unsent
    BY <1>6 DEF HandleTcpConnecting, ProgressInv
  <2>2. CASE /\ state' = "SENDING_CONNECT" /\ tx' = Nothing
             /\ UNCHANGED <<socketVars, brokerVars, sent>>
    BY <2>1, <2>2 DEF ProgressInv, Unsent, socketVars, brokerVars
  <2>3. CASE state' = "SENDING_CONNECT" /\ Pumped(Connect)
    <3>1. sent = <<>>
      BY <2>1 DEF Unsent
    <3>2. CASE sent' = Recorded(Connect) /\ tx' = Nothing
      <4>1. Given(1)'
        BY <1>t, <3>1, <3>2, GivenFirst
      <4>2. QED
        BY <2>3, <3>2, <4>1 DEF ProgressInv
    <3>3. CASE sent' = sent /\ tx' = Connect /\ flight' = flight
      BY <2>1, <2>3, <3>3, PumpedWaits DEF ProgressInv, Unsent
    <3>4. QED
      BY <2>3, <3>2, <3>3, PumpedWaits
  <2>4. CASE state' = "SENDING_CONNECT" /\ Reset
    BY <2>1, <2>4 DEF ProgressInv, Unsent, Reset, CloseSocket
  <2>5. ConnectPacket \in {Connect, Nothing}
    BY DEF ConnectPacket
  <2>6. QED
    BY <1>2, <1>3, <1>6, <2>2, <2>3, <2>4, <2>5 DEF HandleTcpConnecting
<1>7. CASE HandleSendingConnect
  <2>0. state = "SENDING_CONNECT"
        /\ ((tx \in {Connect, Nothing} /\ Unsent) \/ (tx = Nothing /\ Given(1)))
    BY <1>7 DEF HandleSendingConnect, ProgressInv
  <2>1. CASE /\ tx = Nothing /\ state' = "AWAITING_CONNACK"
             /\ UNCHANGED <<tx, socketVars, brokerVars, sent>>
    BY <2>0, <2>1 DEF ProgressInv, Unsent, Given, socketVars, brokerVars
  <2>2. CASE tx # Nothing /\ Taken(tx) /\ state' = "AWAITING_CONNACK"
    <3>1. tx = Connect /\ sent = <<>>
      BY <2>0, <2>2 DEF Unsent
    <3>2. sent' = Recorded(tx) /\ tx' = Nothing
      BY <2>2 DEF Taken, Write
    <3>3. Given(1)'
      BY <1>t, <2>0, <2>2, <3>1, <3>2, GivenFirst
    <3>4. QED
      BY <2>2, <3>2, <3>3 DEF ProgressInv
  <2>3. CASE tx # Nothing /\ Stays(tx) /\ state' = state
    BY <2>0, <2>3 DEF ProgressInv, Unsent, Given, Stays, socketVars, brokerVars
  <2>4. QED
    BY <1>2, <1>7, <2>1, <2>2, <2>3 DEF HandleSendingConnect
<1>8. CASE HandleAwaitingConnack
  <2>1. CASE /\ ReadPacket = "accepted" /\ state' = "PUBLISHING_DISCOVERY" /\ discoveryIndex' = 0
             /\ UNCHANGED <<tx, sent>>
    <3>1. rx # <<>>
      BY <2>1 DEF ReadPacket
    <3>2. tx = Nothing /\ Given(1)
      BY <1>8, <3>1 DEF HandleAwaitingConnack, ProgressInv, Unsent
    <3>3. QED
      BY <2>1, <3>2 DEF ProgressInv, Given
  <2>2. QED
    BY <1>2, <1>3, <1>8, <2>1 DEF HandleAwaitingConnack, StartIndex
<1>9. CASE HandlePublishingDiscovery
  <2> DEFINE i == discoveryIndex
             p == IF i < EntityCount THEN Entity(i) ELSE Online
  <2>0. /\ state = "PUBLISHING_DISCOVERY"
        /\ \/ tx = Nothing /\ Given(i + 1)
           \/ i > 0 /\ tx = Announcement[i + 1] /\ Given(i)
        /\ Announcement[i + 1] # Nothing
    BY <1>9, <1>t, Numbers, PacketKinds, AnnouncementIs
       DEF HandlePublishingDiscovery, ProgressInv
  <2>1. CASE tx # Nothing /\ Pumped(tx) /\ UNCHANGED <<state, discoveryIndex>>
    <3>1. i > 0 /\ tx = Announcement[i + 1] /\ Given(i)
      BY <2>0, <2>1
    <3>2. CASE sent' = Recorded(tx) /\ tx' = Nothing
      <4>1. Given(i + 1)'
        BY <1>t, <2>1, <3>1, <3>2, GivenNext DEF Given
      <4>2. QED
        BY <2>0, <2>1, <3>2, <4>1 DEF ProgressInv
    <3>3. CASE sent' = sent /\ tx' = tx
      BY <2>0, <2>1, <3>1, <3>3 DEF ProgressInv, Given
    <3>4. QED
      BY <2>1, <3>2, <3>3, PumpedWaits
  <2>2. CASE tx = Nothing /\ ~Announced(i) /\ Pumped(p) /\ state' = state /\ i' = i + 1
    <3>1. Given(i + 1) /\ i + 1 \in 0..(EntityCount + 1)
      BY <1>t, <2>0, <2>2, Numbers DEF Announced
    <3>2. p = Announcement[(i + 1) + 1]
      BY <1>t, <2>2, Numbers, AnnouncementIs DEF Announced
    <3> HIDE DEF p
    <3>3. CASE sent' = Recorded(p) /\ tx' = Nothing
      <4>1. Given(i + 1)'
        BY <1>t, <2>2, <3>1, <3>2, <3>3, GivenNext DEF Given
      <4>2. QED
        BY <2>0, <2>2, <3>3, <4>1 DEF ProgressInv
    <3>4. CASE sent' = sent /\ tx' = p
      <4>1. Given(i)' /\ i' > 0 /\ tx' = Announcement[i' + 1]
        BY <1>t, <2>2, <3>1, <3>2, <3>4 DEF Given
      <4>2. QED
        BY <2>0, <2>2, <4>1 DEF ProgressInv
    <3>5. QED
      BY <2>2, <3>3, <3>4, PumpedWaits
  <2>3. CASE /\ tx = Nothing /\ Announced(i) /\ state' = "CONNECTED"
             /\ UNCHANGED <<tx, sent>>
    <3>1. Given(EntityCount + 2)
      BY <1>t, <2>0, <2>3, Numbers DEF Announced
    <3>2. QED
      BY <2>3, <3>1 DEF ProgressInv, Given
  <2>4. \/ tx # Nothing /\ Pumped(tx) /\ UNCHANGED <<state, discoveryIndex>>
        \/ tx = Nothing /\ ~Announced(i) /\ Pumped(p) /\ state' = state /\ i' = i + 1
        \/ tx = Nothing /\ Announced(i) /\ state' = "CONNECTED" /\ UNCHANGED <<tx, sent>>
        \/ \E q : \E k : Dropped(q, k)
    BY <1>9 DEF HandlePublishingDiscovery
  <2> HIDE DEF i, p
  <2>5. QED
    BY <1>2, <2>1, <2>2, <2>3, <2>4
<1>10. CASE HandleConnected
  <2>1. state = "CONNECTED" /\ tx \in {Nothing, Status, PingReq} /\ Given(EntityCount + 2)
    BY <1>10 DEF HandleConnected, ProgressInv
  <2>2. ASSUME NEW p \in {Status, PingReq}, Pumped(p), state' = state PROVE ProgressInv'
    <3>1. Recorded(p) = sent
      BY <1>t, <2>1, <2>2, GivenWhole
    <3>2. sent' = sent /\ tx' \in {Nothing, Status, PingReq}
      BY <2>2, <3>1, PumpedWaits
    <3>3. QED
      BY <2>1, <2>2, <3>2 DEF ProgressInv, Given
  <2>3. \/ \E p \in {Status, PingReq} : Pumped(p) /\ state' = state
        \/ ResetToDisconnected \/ (\E q : \E k : Dropped(q, k))
        \/ UNCHANGED <<state, tx, sent>>
    BY <1>10, <2>1 DEF HandleConnected, Converse, publisherVars
  <2>4. CASE UNCHANGED <<state, tx, sent>>
    BY <2>1, <2>4 DEF ProgressInv, Given
  <2>5. QED
    BY <1>2, <2>2, <2>3, <2>4
<1>11. QED
  BY <1>1, <1>4, <1>5, <1>6, <1>7, <1>8, <1>9, <1>10 DEF Next, Loop

\* At every moment a connection has been given the beginning of its announcement.
LEMMA ProgressInvariant == Spec => []ProgressInv
<1>1. Init => ProgressInv
  BY DEF Init, ProgressInv
<1>2. TypeOK /\ ProgressInv /\ [Next]_vars => ProgressInv'
  BY ProgressStays
<1>3. QED
  BY <1>1, <1>2, TypeCorrect, PTL DEF Spec

\* A connection that counts as connected has announced every entity once, in
\* order, and then itself, whatever failed before and however often the chip
\* was busy.
THEOREM AnnouncesWhole == Spec => []AnnouncedWhole
<1>1. TypeOK /\ ProgressInv => AnnouncedWhole
  BY GivenWhole DEF TypeOK, SocketOK, ProgressInv, AnnouncedWhole
<1>2. QED
  BY <1>1, TypeCorrect, ProgressInvariant, PTL

-----------------------------------------------------------------------------
(* The broker's patience.                                                  *)

\* A steady connection has its broker and its room, and a packet on its way was
\* sent.
LEMMA RoomInvariant == Spec => []RoomInv
<1> USE DEF RoomInv, socketVars, worldVars
<1>1. Init => RoomInv
  BY DEF Init
<1>2. RoomInv /\ [Next]_vars => RoomInv'
  <2> SUFFICES ASSUME RoomInv, [Next]_vars PROVE RoomInv'
    OBVIOUS
  <2>1. CASE Loop
    <3>1. UNCHANGED <<net, room>>
      BY <2>1 DEF Loop
    <3>2. steady' = steady \/ steady' = (net /\ room)
      BY <2>1 DEF Loop, HandleDisconnected, ConnectTo, HandleTcpConnecting, HandleSendingConnect,
                  HandleAwaitingConnack, HandlePublishingDiscovery, HandleConnected
    <3>3. ResetToDisconnected \/ Reset \/ CloseSocket \/ ConnectTo \/ (\E p : \E i : Dropped(p, i))
            => flight' = Nothing
      BY DEF ResetToDisconnected, Reset, CloseSocket, ConnectTo, Dropped
    <3>4. (\E p : Pumped(p)) => (sending' = sending /\ flight' = flight) \/ sending' = TRUE
      BY DEF Pumped, Taken, Stays, Write
    <3>5. \/ sending' = sending /\ flight' = flight
          \/ flight' = Nothing
          \/ sending' = TRUE
      <4>1. CASE HandleDisconnected
        BY <3>3, <4>1 DEF HandleDisconnected
      <4>2. CASE HandleTcpConnecting
        BY <3>3, <3>4, <4>2 DEF HandleTcpConnecting
      <4>3. CASE HandleSendingConnect
        BY <3>3, <3>4, <4>3 DEF HandleSendingConnect, Pumped
      <4>4. CASE HandleAwaitingConnack
        BY <3>3, <4>4 DEF HandleAwaitingConnack
      <4>5. CASE HandlePublishingDiscovery
        BY <3>3, <3>4, <4>5 DEF HandlePublishingDiscovery
      <4>6. CASE HandleConnected
        BY <3>3, <3>4, <4>6 DEF HandleConnected, Converse
      <4>7. QED
        BY <2>1, <4>1, <4>2, <4>3, <4>4, <4>5, <4>6 DEF Loop
    <3>6. steady' => net' /\ room'
      BY <3>1, <3>2
    <3>7. ~sending' => flight' = Nothing
      BY <3>5
    <3>8. QED
      BY <3>6, <3>7
  <2>2. CASE ChipRebuilt \/ Restart
    BY <2>2 DEF ChipRebuilt, Restart, ResetToDisconnected, Reset, CloseSocket
  <2>3. CASE ChipLost \/ ChipGivesUp \/ BrokerAccepts \/ BrokerReceives
    <3>1. UNCHANGED <<steady, net, room, sending>>
      BY <2>3 DEF ChipLost, ChipGivesUp, BrokerAccepts, BrokerReceives
    <3>2. flight' \in {flight, Nothing}
      BY <2>3 DEF ChipLost, ChipGivesUp, BrokerAccepts, BrokerReceives
    <3>3. QED
      BY <3>1, <3>2
  <2>4. CASE BrokerExpires \/ BrokerCloses
    BY <2>4 DEF BrokerExpires, BrokerCloses
  <2>5. CASE World
    BY <2>5 DEF World
  <2>6. CASE RoomAgain \/ Tick
    BY <2>6 DEF RoomAgain, Tick
  <2>7. CASE UNCHANGED vars
    BY <2>7 DEF vars
  <2>8. QED
    BY <2>1, <2>2, <2>3, <2>4, <2>5, <2>6, <2>7 DEF Next
<1>3. QED
  BY <1>1, <1>2, PTL DEF Spec

\* With a broker and room, a packet that is pumped leaves one on its way.
LEMMA PumpedFlies ==
  ASSUME NEW p \in Packets, Pumped(p), steady, RoomInv
  PROVE  flight' # Nothing /\ UNCHANGED <<link, silent>>
<1>1. CASE Taken(p)
  BY <1>1, PacketKinds DEF Taken, Write, brokerVars
<1>2. CASE Stays(p)
  <2>1. CanSend /\ ~SendTakes /\ room
    BY <1>2 DEF Stays, RoomInv
  <2>2. flight # Nothing
    BY <2>1 DEF SendTakes
  <2>3. QED
    BY <1>2, <2>2 DEF Stays, socketVars, brokerVars
<1>3. QED
  BY <1>1, <1>2 DEF Pumped

\* A pass over an open link that is not given up brings the publisher on, or leaves
\* something on its way, or found nothing due.
LEMMA PassOfOpenLink ==
  ASSUME TypeOK, ProgressInv, RoomInv, AcceptedInv, Loop, steady', link' = "open"
  PROVE  /\ steady /\ link = "open" /\ silent' = silent
         /\ \/ state = "SENDING_CONNECT" /\ state' = "AWAITING_CONNACK" /\ rx' = rx
            \/ state = "AWAITING_CONNACK" /\ state' = "PUBLISHING_DISCOVERY"
            \/ state = "PUBLISHING_DISCOVERY" /\ state' = state /\ flight' # Nothing
            \/ state = "PUBLISHING_DISCOVERY" /\ state' = "CONNECTED" /\ pingAge' = 0
            \/ state = "CONNECTED" /\ state' = state /\ flight' # Nothing
            \/ state = "CONNECTED" /\ UNCHANGED <<state, tx, flight, pingAge>>
                 /\ tx = Nothing /\ ~PingDue
<1>t. tx \in Packets \cup {Nothing} /\ discoveryIndex \in 0..(EntityCount + 1)
  BY DEF TypeOK, PublisherOK
<1>g. ~ResetToDisconnected /\ ~Reset /\ ~CloseSocket /\ ~ConnectTo /\ (\A p : \A i : ~Dropped(p, i))
  BY DEF ResetToDisconnected, Reset, Dropped, CloseSocket, ConnectTo
<1>u. UNCHANGED <<socketVars, brokerVars>> => UNCHANGED <<link, silent, rx, flight>>
  BY DEF socketVars, brokerVars
<1>p. ASSUME NEW p, Pumped(p) PROVE link' = link
  BY <1>p, PumpedWaits
<1>1. CASE HandleDisconnected
  <2>1. link' = link
    BY <1>1, <1>g, <1>u DEF HandleDisconnected
  <2>2. QED
    BY <1>1, <2>1 DEF HandleDisconnected, ProgressInv
<1>2. CASE HandleTcpConnecting
  <2>1. link' = link
    BY <1>2, <1>g, <1>u, <1>p DEF HandleTcpConnecting
  <2>2. QED
    BY <1>2, <2>1 DEF HandleTcpConnecting, ProgressInv, Unsent
<1>3. CASE HandleSendingConnect
  <2>1. link' = link
    BY <1>3, <1>g, <1>u, <1>p DEF HandleSendingConnect, Pumped
  <2>2. tx = Nothing
    BY <1>3, <2>1 DEF HandleSendingConnect, ProgressInv, Unsent
  <2>3. QED
    BY <1>3, <1>u, <2>1, <2>2 DEF HandleSendingConnect
<1>4. CASE HandleAwaitingConnack
  <2>1. link' = link
    BY <1>4, <1>g, <1>u DEF HandleAwaitingConnack, brokerVars
  <2>2. rx # <<>>
    BY <1>4, <2>1 DEF HandleAwaitingConnack, AcceptedInv
  <2>3. Head(rx) # "none"
    BY <2>2 DEF TypeOK, SocketOK
  <2>4. ReadPacket # "none"
    BY <2>2, <2>3 DEF ReadPacket
  <2>5. QED
    BY <1>4, <1>g, <2>1, <2>4 DEF HandleAwaitingConnack, brokerVars
<1>5. CASE HandlePublishingDiscovery
  <2> DEFINE p == IF discoveryIndex < EntityCount THEN Entity(discoveryIndex) ELSE Online
  <2>1. p \in Packets
    BY <1>t, Numbers, PacketKinds
  <2>2. \/ tx # Nothing /\ Pumped(tx) /\ state' = state
        \/ Pumped(p) /\ state' = state
        \/ state' = "CONNECTED" /\ pingAge' = 0 /\ UNCHANGED <<socketVars, brokerVars>>
    BY <1>5, <1>g DEF HandlePublishingDiscovery
  <2>3. state = "PUBLISHING_DISCOVERY" /\ steady
    BY <1>5 DEF HandlePublishingDiscovery
  <2> HIDE DEF p
  <2>4. QED
    BY <1>t, <1>u, <2>1, <2>2, <2>3, PumpedFlies
<1>6. CASE HandleConnected
  <2>1. state = "CONNECTED" /\ steady /\ Converse
    BY <1>6, <1>g DEF HandleConnected
  <2>2. \/ tx # Nothing /\ Pumped(tx) /\ state' = state
        \/ \E p \in {Status, PingReq} : Pumped(p) /\ state' = state
        \/ /\ tx = Nothing /\ ~PingDue
           /\ UNCHANGED <<publisherVars, flight, brokerVars>>
    BY <1>g, <2>1 DEF Converse
  <2>3. QED
    BY <1>t, <2>1, <2>2, PumpedFlies, PacketKinds DEF publisherVars, timerVars, brokerVars
<1>7. QED
  BY <1>1, <1>2, <1>3, <1>4, <1>5, <1>6 DEF Loop

\* What the broker, the network and the chip do to an open link: a packet ends the
\* silence, and nothing else touches it.
LEMMA WorldOfOpenLink ==
  ASSUME TypeOK,
         \/ ChipLost \/ ChipGivesUp \/ BrokerAccepts \/ BrokerReceives \/ BrokerExpires
         \/ BrokerCloses \/ World \/ RoomAgain \/ UNCHANGED vars,
         steady', link' = "open"
  PROVE  /\ steady /\ UNCHANGED <<state, tx, pingAge>>
         /\ \/ silent' = 0 /\ rx' # <<>>
            \/ silent' = 0 /\ link = "open" /\ rx' = rx
            \/ link = "open" /\ UNCHANGED <<silent, flight, polled, rx>>
<1>r. rx \in Seq({"accepted", "refused", "pong"})
  BY DEF TypeOK, SocketOK
<1> USE DEF publisherVars, timerVars, socketVars, brokerVars
<1>1. CASE ChipLost \/ ChipGivesUp \/ BrokerAccepts
  BY <1>1 DEF ChipLost, ChipGivesUp, BrokerAccepts
<1>2. CASE BrokerReceives
  <2>1. steady' = steady /\ UNCHANGED <<state, tx, pingAge>> /\ silent' = 0
    BY <1>2 DEF BrokerReceives
  <2>2. \/ rx' \in {Append(rx, "accepted"), Append(rx, "pong")}
        \/ rx' = rx /\ link' = link
    BY <1>2 DEF BrokerReceives, Accepts, Refuses
  <2>3. Append(rx, "accepted") # <<>> /\ Append(rx, "pong") # <<>>
    BY <1>r
  <2>4. QED
    BY <2>1, <2>2, <2>3
<1>3. CASE BrokerExpires \/ BrokerCloses
  BY <1>3 DEF BrokerExpires, BrokerCloses
<1>4. CASE World
  BY <1>4 DEF World
<1>5. CASE RoomAgain
  BY <1>5 DEF RoomAgain
<1>6. CASE UNCHANGED vars
  BY <1>6 DEF vars
<1>7. QED
  BY <1>1, <1>2, <1>3, <1>4, <1>5, <1>6

\* A unit that passes finds nothing on its way.
LEMMA TickOfOpenLink ==
  ASSUME TypeOK, RoomInv, SilentInv, Tick, steady', link' = "open"
  PROVE  /\ steady /\ link = "open" /\ polled /\ flight = Nothing /\ ~polled'
         /\ UNCHANGED <<state, tx, flight, rx>>
         /\ silent' = silent \/ silent' = silent + 1
         /\ state = "CONNECTED" /\ pingAge < Keepalive => pingAge' = pingAge + 1
<1>1. steady /\ link = "open" /\ polled /\ polled' = FALSE /\ UNCHANGED <<state, tx, flight, rx>>
  BY DEF Tick, socketVars
<1>2. flight = Nothing
  <2>1. net /\ CanSend
    BY <1>1 DEF RoomInv, TypeOK, SocketOK
  <2>2. QED
    BY <2>1 DEF Tick
<1>3. silent' = Grown(silent, KeepaliveTold + 1)
      /\ (state = "CONNECTED" => pingAge' = Grown(pingAge, Keepalive))
  BY <1>1 DEF Tick
<1>4. QED
  BY <1>1, <1>2, <1>3 DEF Grown

\* The broker's silence does not outgrow the ping's age, nor the ping's age its
\* interval.
LEMMA SilenceStays ==
  ASSUME TypeOK, ProgressInv, RoomInv, AcceptedInv, SilentInv, PublisherOK', [Next]_vars
  PROVE  AcceptedInv' /\ SilentInv'
<1>t. silent \in Nat /\ pingAge \in Nat /\ pingAge' \in Nat /\ Keepalive \in Nat
  BY Numbers DEF TypeOK, PublisherOK, SocketOK
<1>z. 0 <= Keepalive + 1 /\ 0 <= pingAge' + 1
  <2>1. \A n \in Nat : 0 <= n + 1
    OBVIOUS
  <2>2. QED
    BY <1>t, <2>1, Zenon
<1> SUFFICES ASSUME steady', link' = "open" PROVE AcceptedInv' /\ SilentInv'
  BY DEF AcceptedInv, SilentInv
<1>1. CASE Loop
  <2>1. state' # state => ~polled'
    BY <1>1 DEF Loop, publisherVars
  <2>2. /\ steady /\ link = "open" /\ silent' = silent
        /\ \/ state = "SENDING_CONNECT" /\ state' = "AWAITING_CONNACK" /\ rx' = rx
           \/ state = "AWAITING_CONNACK" /\ state' = "PUBLISHING_DISCOVERY"
           \/ state = "PUBLISHING_DISCOVERY" /\ state' = state /\ flight' # Nothing
           \/ state = "PUBLISHING_DISCOVERY" /\ state' = "CONNECTED" /\ pingAge' = 0
           \/ state = "CONNECTED" /\ state' = state /\ flight' # Nothing
           \/ state = "CONNECTED" /\ UNCHANGED <<state, tx, flight, pingAge>>
                /\ tx = Nothing /\ ~PingDue
    BY <1>1, PassOfOpenLink
  <2>3. AcceptedInv'
    BY <2>2 DEF AcceptedInv
  <2>4. state' # "CONNECTED" => silent' <= 1 /\ (polled' => state' = state)
    BY <2>1, <2>2 DEF SilentInv
  <2>5. state' # "CONNECTED" => silent' <= 1 /\ (polled' /\ flight' = Nothing => silent' = 0)
    BY <2>2, <2>4
  <2>6. CASE state = "PUBLISHING_DISCOVERY" /\ state' = "CONNECTED" /\ pingAge' = 0
    BY <1>t, <2>1, <2>2, <2>3, <2>6 DEF SilentInv
  <2>7. CASE state = "CONNECTED" /\ state' = state /\ flight' # Nothing
    BY <2>2, <2>3, <2>7 DEF SilentInv
  <2>8. CASE /\ state = "CONNECTED" /\ UNCHANGED <<state, tx, flight, pingAge>>
             /\ tx = Nothing /\ ~PingDue
    BY <1>t, <2>2, <2>3, <2>8 DEF SilentInv, PingDue
  <2>9. QED
    BY <2>2, <2>3, <2>5, <2>6, <2>7, <2>8 DEF SilentInv
<1>2. CASE ChipRebuilt \/ Restart
  <2>1. link' = "none"
    BY <1>2, GivenUp DEF ChipRebuilt
  <2>2. QED
    BY <2>1
<1>3. CASE Tick
  <2>1. /\ steady /\ link = "open" /\ polled /\ flight = Nothing /\ ~polled'
        /\ UNCHANGED <<state, tx, flight, rx>>
        /\ silent' = silent \/ silent' = silent + 1
        /\ state = "CONNECTED" /\ pingAge < Keepalive => pingAge' = pingAge + 1
    BY <1>3, TickOfOpenLink
  <2>2. AcceptedInv'
    BY <2>1 DEF AcceptedInv
  <2>3. CASE state # "CONNECTED"
    BY <2>1, <2>2, <2>3 DEF SilentInv
  <2>4. CASE state = "CONNECTED"
    BY <1>t, <2>1, <2>2, <2>4 DEF SilentInv
  <2>5. QED
    BY <2>3, <2>4
<1>4. CASE \/ ChipLost \/ ChipGivesUp \/ BrokerAccepts \/ BrokerReceives \/ BrokerExpires
           \/ BrokerCloses \/ World \/ RoomAgain \/ UNCHANGED vars
  <2>1. steady /\ UNCHANGED <<state, tx, pingAge>>
    BY <1>4, WorldOfOpenLink
  <2>2. \/ silent' = 0 /\ rx' # <<>>
        \/ silent' = 0 /\ link = "open" /\ rx' = rx
        \/ link = "open" /\ UNCHANGED <<silent, flight, polled, rx>>
    BY <1>4, WorldOfOpenLink
  <2>3. AcceptedInv'
    BY <2>1, <2>2 DEF AcceptedInv
  <2>4. CASE silent' = 0
    <3>1. silent' <= 1
      BY <2>4
    <3>2. silent' <= Keepalive + 1
      BY <1>z, <2>4
    <3>3. silent' <= pingAge' + 1
      BY <1>z, <2>4
    <3>4. QED
      BY <2>3, <2>4, <3>1, <3>2, <3>3 DEF SilentInv
  <2>5. CASE link = "open" /\ UNCHANGED <<silent, flight, polled>>
    <3>1. (state' = "CONNECTED" <=> state = "CONNECTED") /\ (polled' => polled)
      BY <2>1, <2>5
    <3>2. state # "CONNECTED" => silent <= 1 /\ (polled' /\ flight' = Nothing => silent = 0)
      BY <2>1, <2>5, <3>1 DEF SilentInv
    <3>3. state = "CONNECTED" =>
            /\ silent <= Keepalive + 1
            /\ tx = Nothing /\ flight = Nothing => silent <= pingAge + 1
            /\ polled' /\ flight = Nothing => silent = 0 \/ (tx = Nothing /\ pingAge < Keepalive)
      BY <2>1, <2>5, <3>1 DEF SilentInv
    <3>4. QED
      BY <2>1, <2>3, <2>5, <3>2, <3>3 DEF SilentInv
  <2>6. QED
    BY <2>2, <2>3, <2>4, <2>5
<1>5. QED
  BY <1>1, <1>2, <1>3, <1>4 DEF Next

\* A ping is on its way before the broker's silence is longer than the ping's
\* interval and a unit.
LEMMA SilenceInvariant == Spec => [](AcceptedInv /\ SilentInv)
<1>1. Init => AcceptedInv /\ SilentInv
  BY DEF Init, AcceptedInv, SilentInv
<1>2. TypeOK /\ TypeOK' /\ ProgressInv /\ RoomInv /\ AcceptedInv /\ SilentInv /\ [Next]_vars
        => AcceptedInv' /\ SilentInv'
  BY SilenceStays DEF TypeOK
<1>3. QED
  BY <1>1, <1>2, TypeCorrect, ProgressInvariant, RoomInvariant, PTL DEF Spec

\* A broker that was reachable throughout is never without a packet for longer
\* than it was told, whatever is published, whatever has to wait, and whatever the
\* intervals are: the ping's has to be the shorter one, and no more.
THEOREM KeepsBroker == Spec => []KeepaliveKept
<1>1. TypeOK /\ SilentInv => KeepaliveKept
  BY Numbers DEF TypeOK, SocketOK, SilentInv, KeepaliveKept
<1>2. QED
  BY <1>1, TypeCorrect, SilenceInvariant, PTL

\* All of it, as one inductive invariant.
THEOREM Inductive == Spec => []IInv
<1>1. TypeOK /\ ProgressInv /\ RoomInv /\ AcceptedInv /\ SilentInv => IInv
  BY DEF IInv
<1>2. QED
  BY <1>1, TypeCorrect, ProgressInvariant, RoomInvariant, SilenceInvariant, PTL
=============================================================================
