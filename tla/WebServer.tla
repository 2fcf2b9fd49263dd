----------------------------- MODULE WebServer -----------------------------
(***************************************************************************)
(* The management page's TCP connection on the W5500                       *)
(* (WebServer::loop, pumpRequest and handleConnection of                   *)
(* components/webui/web_server.cpp).  The Wi-Fi build's sockets are left   *)
(* out.                                                                    *)
(*                                                                         *)
(* A request is hdr units of header and body units of form; only the       *)
(* lengths matter, and the buffer's text is a prefix of some request.      *)
(* pumpRequest ends the text at what it has received, when it has received *)
(* anything: until then the buffer holds the text of an earlier request.   *)
(***************************************************************************)
EXTENDS Naturals

CONSTANTS
  Requests,   \* what clients send: records with hdr, body and post
  Cap,        \* what g_req holds (sizeof(g_req) - 1)
  Patience,   \* passes in the five seconds a request may take
  MaxConns    \* bound on connections

ASSUME RequestAssumption ==
  \A r \in Requests : r.hdr \in Nat \ {0} /\ r.body \in Nat /\ r.post \in BOOLEAN
ASSUME CapAssumption == Cap \in Nat \ {0} /\ Patience \in Nat \ {0} /\ MaxConns \in Nat

VARIABLES
  listening, disconnecting,
  reqLen, hdrEnd, contentLen,   \* hdrEnd is 0 for not found (-1)
  age,       \* passes since reqStartUs; 0 when it is 0
  text,      \* g_req up to its NUL: which connection's request, how much of it
  status,    \* Sn_SR
  rx,        \* units in the chip's receive buffer
  sent,      \* units of its request the client has sent
  req,       \* the request of the connection
  conn,      \* connections so far
  up,        \* would tryStartListener succeed (an address, a chip that opens)?
  blind      \* history: did a pass of this connection parse before any unit came?

requestVars == <<reqLen, hdrEnd, contentLen, age>>
flagVars    == <<listening, disconnecting>>
peerVars    == <<sent, req, conn>>
vars == <<requestVars, flagVars, peerVars, blind, text, status, rx, up>>

NoText == [conn |-> 0, req |-> [hdr |-> 1, body |-> 0, post |-> FALSE], len |-> 0]

Init ==
  /\ listening = FALSE /\ disconnecting = FALSE
  /\ reqLen = 0 /\ hdrEnd = 0 /\ contentLen = 0 /\ age = 0 /\ text = NoText
  /\ status = "closed" /\ rx = 0 /\ sent = 0 /\ req \in Requests /\ conn = 0
  /\ up = FALSE /\ blind = FALSE

ResetRequest == reqLen' = 0 /\ hdrEnd' = 0 /\ contentLen' = 0 /\ age' = 0

-----------------------------------------------------------------------------
(* Listening and closing.                                                  *)

TryStartKeeping ==
  IF up THEN status' = "listen" /\ rx' = 0 /\ listening' = TRUE /\ UNCHANGED requestVars
  ELSE listening' = FALSE /\ UNCHANGED <<status, rx, requestVars>>

\* tryStartListener; opening the socket empties its buffers.
TryStart ==
  IF up THEN status' = "listen" /\ rx' = 0 /\ listening' = TRUE /\ ResetRequest
  ELSE listening' = FALSE /\ UNCHANGED <<status, rx, requestVars>>

\* loop() without a listener, or with one whose socket is found closed.
Listen ==
  /\ ~disconnecting /\ (listening => status = "closed")
  /\ TryStart
  /\ UNCHANGED <<disconnecting, peerVars, blind, text, up>>

\* w5500_tcp_discon: whether the chip took the command is not looked at.
Disconnect == status' \in {"closing", status}

FinishPassive ==
  /\ disconnecting /\ status = "closed"
  /\ disconnecting' = FALSE /\ TryStart
  /\ UNCHANGED <<peerVars, blind, text, up>>

\* loop() while a connection is being closed.
Finish ==
  /\ disconnecting
  /\ \/ status = "closed" /\ disconnecting' = FALSE /\ TryStart
     \/ /\ status \in {"established", "close_wait"} /\ Disconnect
        /\ UNCHANGED <<flagVars, rx, requestVars>>
  /\ UNCHANGED <<peerVars, blind, text, up>>

\* loop() with a client that has closed its side, whatever it sent before.
ClientLeft ==
  /\ listening /\ ~disconnecting /\ status = "close_wait"
  /\ Disconnect /\ disconnecting' = TRUE
  /\ UNCHANGED <<listening, rx, requestVars, peerVars, blind, text, up>>

CloseConn ==
  Disconnect /\ disconnecting' = TRUE /\ ResetRequest

-----------------------------------------------------------------------------
(* pumpRequest and handleConnection.                                       *)

HeaderEnd(t) == IF t.len >= t.req.hdr THEN t.req.hdr ELSE 0

ArrivedUncapped == reqLen + rx

\* What the buffer holds once the pass has read what the chip has.
Arrived == IF reqLen + rx > Cap THEN Cap ELSE reqLen + rx

TextNow == IF rx = 0 THEN text ELSE [conn |-> conn, req |-> req, len |-> Arrived]

\* hdrEnd and contentLen after the pass: parsed once, from whatever the text is.
HeaderNow == IF hdrEnd # 0 THEN hdrEnd ELSE HeaderEnd(TextNow)
LengthNow ==
  IF hdrEnd # 0 THEN contentLen
  ELSE IF HeaderEnd(TextNow) # 0 THEN TextNow.req.body ELSE contentLen

CompleteHeader == HeaderNow # 0 /\ Arrived >= HeaderNow
CompleteAndMore == HeaderNow # 0 /\ Arrived > HeaderNow + LengthNow
Complete == HeaderNow # 0 /\ Arrived >= HeaderNow + LengthNow

Pumping == listening /\ ~disconnecting /\ status = "established"

Read == rx' = reqLen + rx - Arrived

\* An answer and the end of the connection.  A form is taken apart in place.
Answer ==
  /\ Pumping /\ Complete
  /\ Read /\ CloseConn
  /\ IF req.post THEN \E cut \in HeaderNow..Arrived : text' = [TextNow EXCEPT !.len = cut]
     ELSE text' = TextNow
  /\ UNCHANGED <<listening, peerVars, blind, up>>

\* Saved settings and a factory reset restart the device.
Restart ==
  /\ Pumping /\ Complete /\ req.post
  /\ listening' = FALSE /\ disconnecting' = FALSE /\ ResetRequest /\ text' = NoText
  /\ status' = "closed" /\ rx' = 0
  /\ UNCHANGED <<peerVars, blind, up>>

GiveUp ==
  /\ Pumping /\ ~Complete /\ age = Patience
  /\ Read /\ text' = TextNow /\ CloseConn
  /\ UNCHANGED <<listening, peerVars, blind, up>>

Wait ==
  /\ Pumping /\ ~Complete /\ age < Patience
  /\ Read /\ text' = TextNow
  /\ reqLen' = Arrived /\ hdrEnd' = HeaderNow /\ contentLen' = LengthNow /\ age' = age + 1
  /\ blind' = (blind \/ Arrived = 0)
  /\ UNCHANGED <<flagVars, status, peerVars, up>>

Handled == Answer \/ Restart

Pass == Listen \/ Finish \/ ClientLeft \/ Handled \/ GiveUp \/ Wait

-----------------------------------------------------------------------------
(* The client, the chip and the network.                                   *)

Connect ==
  /\ status = "listen" /\ conn < MaxConns
  /\ status' = "established" /\ conn' = conn + 1 /\ req' \in Requests /\ sent' = 0
  /\ blind' = FALSE
  /\ UNCHANGED <<flagVars, requestVars, text, rx, up>>

\* Some more of the request arrives.
Deliver ==
  /\ status = "established" /\ sent < req.hdr + req.body
  /\ \E n \in 1..(req.hdr + req.body - sent) : sent' = sent + n /\ rx' = rx + n
  /\ UNCHANGED <<flagVars, requestVars, req, conn, blind, text, status, up>>

\* The client closes its side, or either side's chip gives the connection up.
Leave ==
  /\ \/ status = "established" /\ status' \in {"close_wait", "closed"}
     \/ status = "close_wait" /\ status' = "closed"
  /\ UNCHANGED <<flagVars, requestVars, peerVars, blind, text, rx, up>>

Closed ==
  /\ status = "closing" /\ status' = "closed"
  /\ UNCHANGED <<flagVars, requestVars, peerVars, blind, text, rx, up>>

\* The link watchdog rebuilds the chip: the socket is gone, and nobody tells.
ChipRebuilt ==
  /\ status \in {"listen", "established", "close_wait"} /\ status' = "closed" /\ rx' = 0
  /\ UNCHANGED <<flagVars, requestVars, peerVars, blind, text, up>>

Address ==
  /\ up' = ~up
  /\ UNCHANGED <<flagVars, requestVars, peerVars, blind, text, status, rx>>

World == Connect \/ Deliver \/ Leave \/ Closed \/ ChipRebuilt \/ Address

Next == Pass \/ World

\* The housekeeping task runs, and the chip takes a close that is repeated and
\* brings it to its end.
Fairness ==
  /\ WF_vars(Pass) /\ WF_vars(Closed)
  /\ SF_vars(Finish /\ status' = "closing")

Spec == Init /\ [][Next]_vars /\ Fairness

-----------------------------------------------------------------------------
FlagTypes == {listening, disconnecting, up, blind} \subseteq BOOLEAN

BufferTypes ==
  /\ reqLen \in 0..Cap /\ hdrEnd \in Nat /\ contentLen \in Nat /\ age \in 0..Patience
  /\ text \in [conn : 0..MaxConns, req : Requests \cup {NoText.req}, len : 0..Cap]
  /\ status \in {"closed", "listen", "established", "close_wait", "closing"}
  /\ rx \in Nat /\ sent \in Nat /\ req \in Requests /\ conn \in 0..MaxConns

TypeOK == FlagTypes /\ BufferTypes

\* The text of a request in the making is what has come over its own connection
\* and nothing else, however the one before ended.
OneConnection ==
  Pumping /\ reqLen > 0 => text = [conn |-> conn, req |-> req, len |-> reqLen]

Whole == Arrived >= req.hdr + req.body /\ HeaderNow = req.hdr

\* A request whose first bytes are there when the connection is first looked at
\* is handled when all of it is there, with its own header.
PromptHandledWhole == [][Handled /\ ~blind => Whole]_vars

\* No such request is given up that is all there and fits.
PromptNotGivenUp == [][GiveUp /\ ~blind => Arrived < req.hdr + req.body]_vars

\* Clients that stall, leave or reset, and rebuilt chips, never leave the page
\* without a listener for good.
ListensAgain == <>[]up => []<>(status = "listen" /\ listening /\ ~disconnecting)

-----------------------------------------------------------------------------
(* What a comment of the code says, and the code does not do.              *)

\* "Stage every field the form sent, then commit once": a form is handled when
\* all of it has arrived, from where it begins.
FormHandledWhole == [][Handled /\ req.post => Whole]_vars
=============================================================================
