--------------------------- MODULE WebServerProofs ---------------------------
(***************************************************************************)
(* Proofs about the management page's connection, for any requests, any    *)
(* size of buffer, any patience and any number of connections.             *)
(***************************************************************************)
EXTENDS WebServer, TLAPS

-----------------------------------------------------------------------------
(* What a pass makes of the buffer.                                        *)

\* A listening socket starts with a clean request.
ListenClean == status = "listen" => reqLen = 0 /\ hdrEnd = 0 /\ contentLen = 0

\* A header found in a connection that was not looked at too early is its own.
OwnHeader ==
  Pumping /\ ~blind /\ hdrEnd # 0 => hdrEnd = req.hdr /\ contentLen = req.body

IInv == TypeOK /\ ListenClean /\ OneConnection /\ OwnHeader

\* A pass never holds more than the buffer, nor reads what has not come.
LEMMA ArrivedBounds ==
  ASSUME BufferTypes
  PROVE  Arrived \in 0..Cap /\ Arrived <= reqLen + rx /\ Arrived >= reqLen
BY CapAssumption DEF BufferTypes, Arrived

LEMMA TextNowType ==
  ASSUME BufferTypes
  PROVE  TextNow \in [conn : 0..MaxConns, req : Requests \cup {NoText.req}, len : 0..Cap]
<1>1. Arrived \in 0..Cap
  BY ArrivedBounds
<1>2. QED
  BY <1>1 DEF BufferTypes, TextNow

\* The lengths of a text's request are numbers.
LEMMA LengthsOfText ==
  ASSUME BufferTypes
  PROVE  /\ TextNow.len \in 0..Cap
         /\ TextNow.req.hdr \in Nat \ {0} /\ TextNow.req.body \in Nat
<1>1. TextNow.len \in 0..Cap /\ TextNow.req \in Requests \cup {NoText.req}
  BY TextNowType
<1>2. NoText.req.hdr = 1 /\ NoText.req.body = 0
  BY DEF NoText
<1>3. ASSUME NEW r \in Requests PROVE r.hdr \in Nat \ {0} /\ r.body \in Nat
  BY RequestAssumption
<1>4. CASE TextNow.req \in Requests
  BY <1>1, <1>3, <1>4
<1>5. CASE TextNow.req = NoText.req
  BY <1>1, <1>2, <1>5
<1>6. QED
  BY <1>1, <1>4, <1>5

LEMMA ParseType ==
  ASSUME BufferTypes PROVE HeaderNow \in Nat /\ LengthNow \in Nat
<1>1. hdrEnd \in Nat /\ contentLen \in Nat
  BY DEF BufferTypes
<1>2. HeaderEnd(TextNow) \in Nat
  BY LengthsOfText DEF HeaderEnd
<1>3. QED
  BY <1>1, <1>2, LengthsOfText DEF HeaderNow, LengthNow
-----------------------------------------------------------------------------
(* Type correctness.                                                       *)

\* Every variable stays in the range its declaration gives it: no request
\* outgrows the buffer.
THEOREM TypeCorrect == Spec => []TypeOK
<1>1. Init => TypeOK
  <2> SUFFICES ASSUME Init PROVE TypeOK
    OBVIOUS
  <2>1. text \in [conn : 0..MaxConns, req : Requests \cup {NoText.req}, len : 0..Cap]
    BY CapAssumption DEF Init, NoText
  <2>2. BufferTypes
    BY <2>1, CapAssumption, SMT DEF Init, BufferTypes
  <2>3. FlagTypes
    BY Zenon DEF Init, FlagTypes
  <2>4. QED
    BY <2>2, <2>3 DEF TypeOK
<1>2. FlagTypes /\ [Next]_vars => FlagTypes'
  <2> SUFFICES ASSUME FlagTypes, [Next]_vars PROVE FlagTypes'
    OBVIOUS
  <2> USE DEF flagVars, requestVars, peerVars, FlagTypes
  <2>1. CASE Listen
    BY <2>1, Zenon DEF Listen, TryStart
  <2>2. CASE Finish
    BY <2>2, Zenon DEF Finish, TryStart
  <2>3. CASE ClientLeft
    BY <2>3, Zenon DEF ClientLeft
  <2>4. CASE Answer \/ GiveUp
    BY <2>4, Zenon DEF Answer, GiveUp, CloseConn
  <2>5. CASE Restart
    BY <2>5, Zenon DEF Restart
  <2>6. CASE Wait
    BY <2>6, Zenon DEF Wait
  <2>7. CASE Connect
    BY <2>7, Zenon DEF Connect
  <2>8. CASE Deliver
    BY <2>8, Zenon DEF Deliver
  <2>9. CASE Leave \/ Closed \/ ChipRebuilt \/ Address
    BY <2>9, Zenon DEF Leave, Closed, ChipRebuilt, Address
  <2>10. CASE UNCHANGED vars
    BY <2>10, Zenon DEF vars
  <2>11. QED
    BY <2>1, <2>2, <2>3, <2>4, <2>5, <2>6, <2>7, <2>8, <2>9, <2>10
       DEF Next, Pass, Handled, World
<1>3. BufferTypes /\ [Next]_vars => BufferTypes'
  <2> SUFFICES ASSUME BufferTypes, [Next]_vars PROVE BufferTypes'
    OBVIOUS
  <2> USE CapAssumption DEF flagVars, requestVars, peerVars
  <2>1. CASE Listen
    BY <2>1 DEF Listen, TryStart, ResetRequest, BufferTypes
  <2>2. CASE Finish
    <3>1. status' \in {"closed", "listen", "established", "close_wait", "closing"}
      BY <2>2 DEF Finish, Disconnect, TryStart, BufferTypes
    <3>2. rx' \in {rx, 0}
      BY <2>2 DEF Finish, TryStart
    <3>3. ResetRequest \/ UNCHANGED requestVars
      BY <2>2 DEF Finish, TryStart
    <3>4. UNCHANGED <<peerVars, text>>
      BY <2>2 DEF Finish
    <3>5. QED
      BY <3>1, <3>2, <3>3, <3>4 DEF ResetRequest, BufferTypes
  <2>3. CASE ClientLeft
    BY <2>3 DEF ClientLeft, Disconnect, BufferTypes
  <2>4. CASE Answer
    <3>1. rx' \in Nat
      BY <2>4, ArrivedBounds DEF Answer, Read, BufferTypes
    <3>2. text' \in [conn : 0..MaxConns, req : Requests \cup {NoText.req}, len : 0..Cap]
      <4>1. CASE req.post
        <5>1. PICK cut \in HeaderNow..Arrived : text' = [TextNow EXCEPT !.len = cut]
          BY <2>4, <4>1 DEF Answer
        <5>2. cut \in 0..Cap
          BY <5>1, ArrivedBounds, ParseType
        <5>3. QED
          BY <5>1, <5>2, TextNowType
      <4>2. CASE ~req.post
        BY <2>4, <4>2, TextNowType DEF Answer
      <4>3. QED
        BY <4>1, <4>2
    <3>3. status' \in {"closing", "established"} /\ ResetRequest
      BY <2>4 DEF Answer, Pumping, CloseConn, Disconnect
    <3>4. UNCHANGED peerVars
      BY <2>4 DEF Answer
    <3>5. QED
      BY <3>1, <3>2, <3>3, <3>4 DEF ResetRequest, BufferTypes
  <2>5. CASE Restart
    <3>1. text' \in [conn : 0..MaxConns, req : Requests \cup {NoText.req}, len : 0..Cap]
      BY <2>5 DEF Restart, NoText
    <3>2. QED
      BY <2>5, <3>1 DEF Restart, ResetRequest, BufferTypes
  <2>6. CASE GiveUp
    <3>1. rx' \in Nat
      BY <2>6, ArrivedBounds DEF GiveUp, Read, BufferTypes
    <3>2. text' \in [conn : 0..MaxConns, req : Requests \cup {NoText.req}, len : 0..Cap]
      BY <2>6, TextNowType DEF GiveUp
    <3>3. status' \in {"closing", "established"} /\ ResetRequest
      BY <2>6 DEF GiveUp, Pumping, CloseConn, Disconnect
    <3>4. UNCHANGED peerVars
      BY <2>6 DEF GiveUp
    <3>5. QED
      BY <3>1, <3>2, <3>3, <3>4 DEF ResetRequest, BufferTypes
  <2>7. CASE Wait
    <3>1. rx' \in Nat /\ reqLen' \in 0..Cap
      BY <2>7, ArrivedBounds DEF Wait, Read, BufferTypes
    <3>2. text' \in [conn : 0..MaxConns, req : Requests \cup {NoText.req}, len : 0..Cap]
      BY <2>7, TextNowType DEF Wait
    <3>3. hdrEnd' \in Nat /\ contentLen' \in Nat
      BY <2>7, ParseType DEF Wait
    <3>4. age' \in 0..Patience
      BY <2>7 DEF Wait, BufferTypes
    <3>5. UNCHANGED <<status, peerVars>>
      BY <2>7 DEF Wait
    <3>6. QED
      BY <3>1, <3>2, <3>3, <3>4, <3>5 DEF BufferTypes
  <2>8. CASE Connect
    <3>1. conn' \in 0..MaxConns /\ req' \in Requests /\ sent' \in Nat
      BY <2>8 DEF Connect, BufferTypes
    <3>2. status' = "established" /\ UNCHANGED <<requestVars, text, rx>>
      BY <2>8 DEF Connect
    <3>3. QED
      BY <3>1, <3>2 DEF BufferTypes
  <2>9. CASE Deliver
    BY <2>9, RequestAssumption DEF Deliver, BufferTypes
  <2>10. CASE Leave \/ Closed
    BY <2>10 DEF Leave, Closed, BufferTypes
  <2>11. CASE ChipRebuilt
    BY <2>11 DEF ChipRebuilt, BufferTypes
  <2>12. CASE UNCHANGED vars
    BY <2>12 DEF vars, BufferTypes
  <2>13. CASE Address
    BY <2>13 DEF Address, BufferTypes
  <2>14. QED
    BY <2>1, <2>2, <2>3, <2>4, <2>5, <2>6, <2>7, <2>8, <2>9, <2>10, <2>11, <2>12, <2>13
       DEF Next, Pass, Handled, World
<1>4. TypeOK /\ [Next]_vars => TypeOK'
  BY <1>2, <1>3 DEF TypeOK
<1>5. QED
  BY <1>1, <1>4, PTL DEF Spec
-----------------------------------------------------------------------------
(* One connection's text is never taken for another's.                     *)

\* What a pass parses once something of the connection has come: its own
\* header, and nothing that is not all there.
LEMMA OwnNow ==
  ASSUME TypeOK, OneConnection, OwnHeader, Pumping, ~blind, Arrived > 0
  PROVE  /\ HeaderNow # 0 => HeaderNow = req.hdr /\ LengthNow = req.body
         /\ Arrived >= req.hdr => HeaderNow # 0
<1>1. reqLen \in 0..Cap /\ rx \in Nat /\ hdrEnd \in Nat
  BY DEF TypeOK, BufferTypes
<1>2. req.hdr \in Nat \ {0}
  BY RequestAssumption DEF TypeOK, BufferTypes
<1>3. TextNow.req = req /\ TextNow.len = Arrived
  <2>1. CASE rx = 0
    <3>1. Arrived = reqLen
      BY <1>1, <2>1, CapAssumption DEF Arrived
    <3>2. reqLen > 0
      BY <3>1
    <3>3. QED
      BY <2>1, <3>1, <3>2 DEF OneConnection, TextNow
  <2>2. CASE rx # 0
    BY <2>2 DEF TextNow
  <2>3. QED
    BY <2>1, <2>2
<1>4. Arrived \in Nat
  BY ArrivedBounds, CapAssumption DEF TypeOK
<1>5. HeaderEnd(TextNow) = IF Arrived >= req.hdr THEN req.hdr ELSE 0
  BY <1>3 DEF HeaderEnd
<1>6. CASE hdrEnd = 0
  BY <1>2, <1>3, <1>4, <1>5, <1>6 DEF HeaderNow, LengthNow
<1>7. CASE hdrEnd # 0
  BY <1>7 DEF HeaderNow, LengthNow, OwnHeader
<1>8. QED
  BY <1>6, <1>7

LEMMA InvInit == Init => ListenClean /\ OneConnection /\ OwnHeader
BY DEF Init, ListenClean, OneConnection, OwnHeader, Pumping

\* Only a socket that is opened listens, and that forgets the request.
LEMMA ListenStep == ListenClean /\ [Next]_vars => ListenClean'
<1> SUFFICES ASSUME ListenClean, [Next]_vars PROVE ListenClean'
  OBVIOUS
<1> USE DEF ListenClean, requestVars
<1>1. CASE Listen \/ Finish
  BY <1>1 DEF Listen, Finish, TryStart, ResetRequest, Disconnect
<1>2. CASE ClientLeft
  BY <1>2 DEF ClientLeft, Disconnect
<1>3. CASE Answer \/ GiveUp
  BY <1>3 DEF Answer, GiveUp, CloseConn, ResetRequest
<1>4. CASE Restart
  BY <1>4 DEF Restart
<1>5. CASE Wait
  BY <1>5 DEF Wait, Pumping
<1>6. CASE Connect \/ Deliver
  BY <1>6 DEF Connect, Deliver
<1>7. CASE Leave \/ Closed \/ ChipRebuilt \/ Address
  BY <1>7 DEF Leave, Closed, ChipRebuilt, Address
<1>8. CASE UNCHANGED vars
  BY <1>8 DEF vars
<1>9. QED
  BY <1>1, <1>2, <1>3, <1>4, <1>5, <1>6, <1>7, <1>8 DEF Next, Pass, Handled, World

\* The steps after which nobody is reading, and those that touch nothing a
\* request in the making consists of.
LEMMA QuietStep ==
  ASSUME [Next]_vars, ~Wait, ~Connect
  PROVE  \/ ~Pumping'
         \/ Pumping /\ UNCHANGED <<reqLen, hdrEnd, contentLen, text, req, conn, blind>>
<1> USE DEF Pumping, requestVars, flagVars, peerVars
<1>1. CASE Listen
  BY <1>1 DEF Listen, TryStart
<1>2. CASE Finish
  BY <1>2 DEF Finish, TryStart, Disconnect
<1>3. CASE ClientLeft
  BY <1>3 DEF ClientLeft
<1>4. CASE Answer \/ GiveUp
  BY <1>4 DEF Answer, GiveUp, CloseConn
<1>5. CASE Restart
  BY <1>5 DEF Restart
<1>6. CASE Deliver
  BY <1>6 DEF Deliver
<1>7. CASE Leave
  BY <1>7 DEF Leave
<1>8. CASE Closed \/ ChipRebuilt
  BY <1>8 DEF Closed, ChipRebuilt
<1>9. CASE Address \/ UNCHANGED vars
  BY <1>9 DEF Address, vars
<1>10. QED
  BY <1>1, <1>2, <1>3, <1>4, <1>5, <1>6, <1>7, <1>8, <1>9 DEF Next, Pass, Handled, World

\* A connection begins with nothing read and no header found.
LEMMA ConnectClean == ListenClean /\ Connect => reqLen' = 0 /\ hdrEnd' = 0
BY DEF ListenClean, Connect, requestVars

LEMMA OneConnectionStep == IInv /\ [Next]_vars => OneConnection'
<1> SUFFICES ASSUME IInv, [Next]_vars PROVE OneConnection'
  OBVIOUS
<1>1. CASE Wait
  <2>1. /\ Pumping /\ reqLen' = Arrived /\ text' = TextNow
        /\ UNCHANGED <<conn, req>>
    BY <1>1 DEF Wait, peerVars
  <2>2. CASE rx = 0
    <3>1. Arrived = reqLen
      BY <2>2, CapAssumption DEF IInv, TypeOK, BufferTypes, Arrived
    <3>2. QED
      BY <2>1, <2>2, <3>1 DEF IInv, OneConnection, TextNow
  <2>3. CASE rx # 0
    BY <2>1, <2>3 DEF OneConnection, TextNow
  <2>4. QED
    BY <2>2, <2>3
<1>2. CASE Connect
  <2>1. reqLen' = 0
    BY <1>2, ConnectClean DEF IInv
  <2>2. QED
    BY <2>1 DEF OneConnection
<1>3. CASE ~Wait /\ ~Connect
  BY <1>3, QuietStep DEF IInv, OneConnection
<1>4. QED
  BY <1>1, <1>2, <1>3

LEMMA OwnHeaderStep == IInv /\ [Next]_vars => OwnHeader'
<1> SUFFICES ASSUME IInv, [Next]_vars PROVE OwnHeader'
  OBVIOUS
<1>1. CASE Wait
  <2>1. /\ Pumping /\ hdrEnd' = HeaderNow /\ contentLen' = LengthNow
        /\ req' = req /\ blind' = (blind \/ Arrived = 0)
    BY <1>1 DEF Wait, peerVars
  <2>2. CASE ~blind /\ Arrived # 0
    <3>1. Arrived > 0
      BY <2>2, ArrivedBounds DEF IInv, TypeOK
    <3>2. HeaderNow # 0 => HeaderNow = req.hdr /\ LengthNow = req.body
      BY <2>1, <2>2, <3>1, OwnNow DEF IInv
    <3>3. QED
      BY <2>1, <3>2 DEF OwnHeader
  <2>3. CASE blind \/ Arrived = 0
    BY <2>1, <2>3, Zenon DEF OwnHeader
  <2>4. QED
    BY <2>2, <2>3
<1>2. CASE Connect
  <2>1. hdrEnd' = 0
    BY <1>2, ConnectClean DEF IInv
  <2>2. QED
    BY <2>1 DEF OwnHeader
<1>3. CASE ~Wait /\ ~Connect
  BY <1>3, QuietStep DEF IInv, OwnHeader
<1>4. QED
  BY <1>1, <1>2, <1>3

\* The inductive invariant.
LEMMA Invariant == Spec => []IInv
<1>1. Init => ListenClean /\ OneConnection /\ OwnHeader
  BY InvInit
<1>2. IInv /\ [Next]_vars => ListenClean' /\ OneConnection' /\ OwnHeader'
  BY ListenStep, OneConnectionStep, OwnHeaderStep DEF IInv
<1>3. QED
  BY <1>1, <1>2, TypeCorrect, PTL DEF Spec, IInv

\* The text of a request in the making is what has come over its own
\* connection, whatever ended the ones before.
THEOREM NoMixedRequests == Spec => []OneConnection
BY Invariant, PTL DEF IInv

\* A request looked at only once it had begun to arrive is handled when all of
\* it is there, measured by its own header.
THEOREM HandledWhole == Spec => PromptHandledWhole
<1>1. IInv /\ [Next]_vars => [Handled /\ ~blind => Whole]_vars
  <2> SUFFICES ASSUME IInv, Handled, ~blind PROVE Whole
    OBVIOUS
  <2>1. Pumping /\ Complete
    BY DEF Handled, Answer, Restart
  <2>2. HeaderNow # 0 /\ Arrived >= HeaderNow + LengthNow
    BY <2>1 DEF Complete
  <2>3. /\ HeaderNow \in Nat /\ LengthNow \in Nat /\ Arrived \in 0..Cap
        /\ Cap \in Nat
    BY ParseType, ArrivedBounds, CapAssumption DEF IInv, TypeOK
  <2>4. Arrived > 0
    BY <2>2, <2>3
  <2>5. HeaderNow = req.hdr /\ LengthNow = req.body
    BY <2>1, <2>2, <2>4, OwnNow DEF IInv
  <2>6. QED
    BY <2>2, <2>5 DEF Whole
<1>2. QED
  BY <1>1, Invariant, PTL DEF Spec, PromptHandledWhole

\* And it is never closed unanswered while all of it is there.
THEOREM NotGivenUp == Spec => PromptNotGivenUp
<1>1. IInv /\ [Next]_vars => [GiveUp /\ ~blind => Arrived < req.hdr + req.body]_vars
  <2> SUFFICES ASSUME IInv, GiveUp, ~blind, ~(Arrived < req.hdr + req.body)
               PROVE  FALSE
    OBVIOUS
  <2>1. Pumping /\ ~Complete
    BY DEF GiveUp
  <2>2. req.hdr \in Nat \ {0} /\ req.body \in Nat
    BY RequestAssumption DEF IInv, TypeOK, BufferTypes
  <2>3. Arrived \in 0..Cap /\ Cap \in Nat
    BY ArrivedBounds, CapAssumption DEF IInv, TypeOK
  <2>4. Arrived > 0 /\ Arrived >= req.hdr /\ Arrived >= req.hdr + req.body
    BY <2>2, <2>3
  <2>5. HeaderNow = req.hdr /\ LengthNow = req.body /\ HeaderNow # 0
    BY <2>1, <2>4, OwnNow DEF IInv
  <2>6. QED
    BY <2>1, <2>4, <2>5 DEF Complete
<1>2. QED
  BY <1>1, Invariant, PTL DEF Spec, PromptNotGivenUp
=============================================================================
