---------------------------- MODULE BrowserSocket ----------------------------
(***************************************************************************)
(* node/public/javascripts/lib: the socket.io client (0.5.3) of the build  *)
(* page, a Socket on top of one Transport.                                 *)
(*                                                                         *)
(* The first message that the server sends is the session id; it makes the *)
(* transport connected, the queue of the socket go out and "connect" fire. *)
(* The websocket transports keep one stream in each direction.  The XHR    *)
(* transports get messages over a GET (a stream, or one request after the  *)
(* other) and send them by POST, one at a time.  There are no timers.      *)
(*                                                                         *)
(* index.html asks the server for /socket.io/socket.io.js, which a         *)
(* deployment may answer with a newer client; these are the files that the *)
(* repository holds.                                                       *)
(***************************************************************************)
EXTENDS Integers, Sequences, SequencesExt

CONSTANTS
  Browsers,  \* where the page may be loaded, each as a record:
             \*   options      options.transports
             \*   available    the transports whose check() holds
             \*   crossDomain  those whose xdomainCheck() holds
             \*   isXDomain    _isXDomain(): the host is not the page's
             \*   remembered   the transport in the cookie, or NoTransport
             \*   onload       its requests have an onload
             \*   faults       connections may break and requests fail
  MaxSent, MaxTold, MaxBeats  \* bounds: messages up, messages down, heartbeats

WebSockets == {"websocket", "flashsocket"}
XHRs == {"htmlfile", "xhr-multipart", "xhr-polling"}
Kinds == WebSockets \cup XHRs
NoTransport == "none"

(* "jsonp-polling" is asked for by the page and unknown to this client. *)
ASSUME BrowsersAssumption ==
  \A b \in Browsers :
    /\ b.options \in Seq(Kinds \cup {"jsonp-polling"})
    /\ b.available \subseteq Kinds /\ b.crossDomain \subseteq Kinds
    /\ {b.isXDomain, b.onload, b.faults} \subseteq BOOLEAN
    /\ b.remembered \in Kinds \cup {NoTransport}
ASSUME BoundsAssumption == MaxSent \in Nat /\ MaxTold \in Nat /\ MaxBeats \in Nat

VARIABLES
  browser,                \* where the page is loaded
  transports,             \* base.options.transports
  transport,              \* base.transport, by its type
  connected, connecting,  \* of the base
  queue,                  \* base._queueStack
  tconnected, session,    \* of the transport: connected; has it a sessionid?
  buffer, posting,        \* of an XHR transport: _sendBuffer, _posting
  link,                   \* the WebSocket, or the GET
  post,                   \* the POST: none, on its way there, on its way back
  up, down,               \* what is under way on either
  sent, arrived,          \* history: messages given to send; got by the server
  told, got,              \* history: messages of the server; "message" fired
  beats,                  \* how many heartbeats the server has sent
  fired,                  \* history: "connect" and "disconnect" fired
  response,               \* xhr-multipart: the frames in responseText
  begun,                  \* ... and whether one that is not whole is behind them
  msgs,                   \* what _decode has found and _onMessage not had yet
  cutId                   \* the sessionid was read before it was whole

base == <<browser, transports, transport, connected, connecting, queue>>
wires == <<link, post, up, down>>
server == <<arrived, told, beats>>
reading == <<response, begun, msgs, cutId>>
vars == <<base, tconnected, session, buffer, posting, wires, server, sent, got, fired, reading>>

(* What is no message of the program: the session id, a heartbeat, its echo. *)
Session == 0
Beat == -1
(* The text that is read of a frame that is not whole: of no message. *)
Piece == -2
IsWebSocket == transport \in WebSockets
IsMultipart == transport = "xhr-multipart"

(* getTransport: the first of the list that this browser can use. *)
Usable(b, kind) == kind \in b.available /\ (b.isXDomain => kind \in b.crossDomain)
GetTransport(b, list) ==
  LET asked == IF b.remembered # NoTransport THEN <<b.remembered>> ELSE list
      place == SelectInSeq(asked, LAMBDA kind : Usable(b, kind))
  IN IF place = 0 THEN NoTransport ELSE asked[place]

Init ==
  /\ browser \in Browsers
  /\ transports = browser.options /\ transport = GetTransport(browser, browser.options)
  /\ connected = FALSE /\ connecting = FALSE /\ queue = <<>>
  /\ tconnected = FALSE /\ session = FALSE /\ buffer = <<>> /\ posting = FALSE
  /\ link = "closed" /\ post = "none" /\ up = <<>> /\ down = <<>>
  /\ sent = <<>> /\ arrived = <<>> /\ told = <<>> /\ got = <<>> /\ beats = 0
  /\ fired = <<>>
  /\ response = <<>> /\ begun = FALSE /\ msgs = <<>> /\ cutId = FALSE

-----------------------------------------------------------------------------
(* Socket.connect: nothing when the base takes itself for connected. *)
Connect ==
  /\ transport # NoTransport /\ ~connected /\ ~connecting
  /\ connecting' = TRUE
  /\ link' = "opening"
  /\ UNCHANGED <<browser, transports, transport, connected, queue, tconnected, session, buffer, posting,
                 post, up, down, server, sent, got, fired, reading>>

(* Transport.send; _checkSend and _send of an XHR.  A WebSocket that is not  *)
(* open any more drops what it is given.                                     *)
Transmit(messages) ==
  IF IsWebSocket
  THEN /\ up' = IF link = "open" THEN up \o messages ELSE up
       /\ UNCHANGED <<buffer, posting, post>>
  ELSE IF posting \/ buffer \o messages = <<>>
       THEN buffer' = buffer \o messages /\ UNCHANGED <<up, posting, post>>
       ELSE /\ up' = buffer \o messages /\ posting' = TRUE /\ post' = "going"
            /\ buffer' = <<>>

(* Socket.send *)
Send ==
  /\ Len(sent) < MaxSent
  /\ sent' = Append(sent, Len(sent) + 1)
  /\ IF transport = NoTransport \/ ~tconnected
     THEN queue' = Append(queue, Len(sent) + 1) /\ UNCHANGED <<buffer, posting, post, up>>
     ELSE Transmit(<<Len(sent) + 1>>) /\ UNCHANGED queue
  /\ UNCHANGED <<browser, transports, transport, connected, connecting, tconnected, session, link, down,
                 server, got, fired, reading>>

(* Mutant of OnSession: "connect" fires, the queue stays for a later one. *)
OnSessionKeepsQueue ==
  /\ session' = TRUE /\ tconnected' = TRUE
  /\ connected' = TRUE /\ connecting' = FALSE
  /\ fired' = Append(fired, "connect")
  /\ UNCHANGED <<queue, buffer, posting, post, up, got>>

(* _onConnect of the transport and of the base, with _doQueue. *)
OnSession ==
  /\ session' = TRUE /\ tconnected' = TRUE
  /\ connected' = TRUE /\ connecting' = FALSE
  /\ Transmit(queue) /\ queue' = <<>>
  /\ fired' = Append(fired, "connect")
  /\ UNCHANGED got

(* _onMessage: the first text is the session id, heartbeats are echoed. *)
OnMessage(frame) ==
  IF ~session THEN OnSession
  ELSE /\ IF frame = Beat
          THEN Transmit(<<Beat>>) /\ UNCHANGED got
          ELSE got' = Append(got, frame) /\ UNCHANGED <<buffer, posting, post, up>>
       /\ UNCHANGED <<connected, connecting, queue, tconnected, session, fired>>

(* _onData, a frame at a time, where what has come is read once. *)
OnData ==
  /\ ~IsMultipart
  /\ link = "open" /\ down # <<>>
  /\ down' = Tail(down)
  /\ OnMessage(Head(down))
  /\ UNCHANGED <<browser, transports, transport, link, server, sent, reading>>

(* What _decode reads of a frame that is cut short: nothing, or a text that  *)
(* may look like a heartbeat if it is the beginning of one.                  *)
Pieces(frame) == {<<>>, <<Piece>>} \cup (IF frame = Beat THEN {<<Beat>>} ELSE {})

(* Mutant of OnResponse: only what is new in responseText is read; the rest  *)
(* of a frame that was read before it was whole is no frame.                 *)
OnResponseNew ==
  /\ IsMultipart /\ link = "open" /\ msgs = <<>>
  /\ \E n \in 0..Len(down) :
       /\ response' = response \o SubSeq(down, 1, n)
       /\ down' = SubSeq(down, n + 1, Len(down))
       /\ \/ n > 0 /\ begun' = FALSE
             /\ msgs' = IF begun THEN <<>> ELSE SubSeq(down, 1, n)
          \/ /\ n < Len(down) /\ (begun => n > 0) /\ begun' = TRUE
             /\ \E piece \in Pieces(down[n + 1]) :
                  msgs' = IF begun THEN <<>> ELSE SubSeq(down, 1, n) \o piece
  /\ UNCHANGED <<base, tconnected, session, buffer, posting, link, post, up, server, sent, got, fired,
                 cutId>>

(* onreadystatechange of xhr-multipart at readyState 3, whenever more of the *)
(* response has come: all of responseText is decoded anew, a frame that is   *)
(* not whole included.  That a frame is seen unfinished once is a bound.     *)
OnResponse ==
  /\ IsMultipart /\ link = "open" /\ msgs = <<>>
  /\ \E n \in 0..Len(down) :
       /\ response' = response \o SubSeq(down, 1, n)
       /\ down' = SubSeq(down, n + 1, Len(down))
       /\ \/ n > 0 /\ msgs' = response' /\ begun' = FALSE
          \/ /\ n < Len(down) /\ (begun => n > 0) /\ begun' = TRUE
             /\ \E piece \in Pieces(down[n + 1]) : msgs' = response' \o piece
  /\ UNCHANGED <<base, tconnected, session, buffer, posting, link, post, up, server, sent, got, fired,
                 cutId>>

(* Mutant of OnDecoded: the loop ends with its first message. *)
OnDecodedFirst ==
  /\ msgs # <<>>
  /\ msgs' = <<>>
  /\ OnMessage(Head(msgs))
  /\ cutId' = (cutId \/ (~session /\ Head(msgs) # Session))
  /\ UNCHANGED <<browser, transports, transport, link, down, server, sent, response, begun>>

(* The loop of _onData over what was decoded.  The program may call send or  *)
(* disconnect between two messages; no event of the network comes between.   *)
OnDecoded ==
  /\ msgs # <<>>
  /\ msgs' = Tail(msgs)
  /\ OnMessage(Head(msgs))
  /\ cutId' = (cutId \/ (~session /\ Head(msgs) # Session))
  /\ UNCHANGED <<browser, transports, transport, link, down, server, sent, response, begun>>

(* The response is in parts, and the next part begins with an empty text. *)
PartEnds ==
  /\ IsMultipart /\ link = "open" /\ msgs = <<>> /\ ~begun /\ response # <<>>
  /\ response' = <<>>
  /\ UNCHANGED <<base, tconnected, session, buffer, posting, wires, server, sent, got, fired,
                 begun, msgs, cutId>>

(* Transport._onDisconnect: the base is told, and stays connected = TRUE. *)
OnDisconnect ==
  IF tconnected
  THEN tconnected' = FALSE /\ fired' = Append(fired, "disconnect")
  ELSE UNCHANGED <<tconnected, fired>>

(* Flashsocket._onClose before the base was connected: another transport is  *)
(* made, and base.connect() called while the base is still connecting.  The  *)
(* splice takes the last of the list where "flashsocket" is not in it.       *)
FallBack ==
  LET place == SelectInSeq(transports, LAMBDA kind : kind = "flashsocket")
      left == RemoveAt(transports, IF place = 0 THEN Len(transports) ELSE place) IN
  /\ transports' = left /\ transport' = GetTransport(browser, left)
  /\ link' = IF ~connecting /\ transport' # NoTransport THEN "opening" ELSE "closed"
  /\ connecting' = (connecting \/ transport' # NoTransport)
  /\ tconnected' = FALSE /\ session' = FALSE /\ buffer' = <<>> /\ posting' = FALSE
  /\ UNCHANGED <<browser, connected, queue, post, up, down, server, sent, got, fired, reading>>

(* Mutant of OnClose: the transport does not tell the base. *)
OnCloseQuiet ==
  /\ IsWebSocket /\ link = "broken"
  /\ link' = "closed"
  /\ UNCHANGED <<browser, transports, transport, connected, connecting, queue, tconnected, session,
                 buffer, posting, post, up, down, server, sent, got, fired, reading>>

(* onclose of a WebSocket.  No other transport hears of a lost connection. *)
OnClose ==
  /\ IsWebSocket /\ link = "broken"
  /\ IF transport = "flashsocket" /\ ~connected
     THEN FallBack
     ELSE /\ link' = "closed" /\ OnDisconnect
          /\ UNCHANGED <<browser, transports, transport, connected, connecting, queue, session, buffer,
                         posting, post, up, down, server, sent, got, reading>>

(* Socket.disconnect.  An XHR transport calls an _onClose that it has not:   *)
(* the requests are aborted, the exception comes before _onDisconnect.       *)
Disconnect ==
  /\ browser.faults /\ link \in {"opening", "open"}
  /\ link' = "broken" /\ up' = <<>> /\ down' = <<>>
  /\ post' = "none"
  /\ UNCHANGED <<base, tconnected, session, buffer, posting, server, sent, got, fired, reading>>

-----------------------------------------------------------------------------
(* The network and the server. *)
Opened ==
  /\ link = "opening"
  /\ link' = "open" /\ down' = <<Session>>
  /\ UNCHANGED <<base, tconnected, session, buffer, posting, post, up, server, sent, got, fired, reading>>

(* A connection or a stream that breaks takes along what is under way on it. *)
Break ==
  /\ browser.faults /\ transport # "xhr-polling" /\ link \in {"opening", "open"}
  /\ link' = "broken" /\ down' = <<>>
  /\ up' = IF IsWebSocket THEN <<>> ELSE up
  /\ UNCHANGED <<base, tconnected, session, buffer, posting, post, server, sent, got, fired, reading>>

(* A GET of the polling that fails does the same.  Where there is no onload  *)
(* a status other than 200 ends the polling; an onload has no look at it and *)
(* sends the next GET.  A request without an answer ends both.               *)
PollFails ==
  /\ browser.faults /\ transport = "xhr-polling" /\ link \in {"opening", "open"}
  /\ \/ link' = "broken"
     \/ browser.onload /\ link' = IF session THEN link ELSE "opening"
  /\ down' = <<>>
  /\ UNCHANGED <<base, tconnected, session, buffer, posting, post, up, server, sent, got, fired, reading>>

Tell ==
  /\ link = "open"
  /\ \/ /\ Len(told) < MaxTold /\ told' = Append(told, Len(told) + 1)
        /\ down' = Append(down, Len(told) + 1) /\ UNCHANGED beats
     \/ /\ beats < MaxBeats /\ beats' = beats + 1
        /\ down' = Append(down, Beat) /\ UNCHANGED told
  /\ UNCHANGED <<base, tconnected, session, buffer, posting, link, post, up, arrived, sent,
                 got, fired, reading>>

(* The messages among the frames are taken in their order, an echo is none. *)
Messages(frames) ==
  LET places == {i \in DOMAIN frames : frames[i] # Beat} IN
  \E turn \in [1..Cardinality(places) -> places] :
    /\ ToSet(turn) = places
    /\ \A j, k \in DOMAIN turn : j < k => turn[j] < turn[k]
    /\ arrived' = arrived \o [k \in DOMAIN turn |-> frames[turn[k]]]

(* The next frame of a WebSocket, or all the frames of a POST; nothing of a   *)
(* POST for a session that the server does not know.                         *)
Arrive ==
  /\ up # <<>>
  /\ \/ /\ IsWebSocket /\ link = "open"
        /\ Messages(<<Head(up)>>) /\ up' = Tail(up)
        /\ UNCHANGED post
     \/ /\ post = "going" /\ ~cutId
        /\ Messages(up) /\ up' = <<>>
        /\ post' = "coming"
  /\ UNCHANGED <<base, tconnected, session, buffer, posting, link, down, told, beats, sent,
                 got, fired, reading>>

(* A POST fails with the connection, or for its session. *)
MayFail == browser.faults \/ cutId

(* Mutant of Posted: a POST that failed is as good as one that did not. *)
PostedAnyway(status) ==
  /\ post = "coming" \/ (MayFail /\ post = "going" /\ status # 200)
  /\ posting' = (buffer # <<>>)
  /\ post' = IF buffer # <<>> THEN "going" ELSE "none"
  /\ up' = buffer /\ buffer' = <<>>
  /\ UNCHANGED <<base, tconnected, session, link, down, server, sent, got, fired, reading>>

(* Mutant of Posted: the buffer waits for the next send. *)
PostedOnce(status) ==
  /\ post = "coming" \/ (MayFail /\ post = "going" /\ status # 200)
  /\ posting' = (status # 200) /\ post' = "none" /\ up' = <<>>
  /\ UNCHANGED <<base, tconnected, session, buffer, link, down, server, sent, got, fired, reading>>

(* onreadystatechange of the POST: only a 200 lets the next one go. *)
Posted(status) ==
  /\ post = "coming" \/ (MayFail /\ post = "going" /\ status # 200)
  /\ IF status = 200
     THEN /\ posting' = (buffer # <<>>)
          /\ post' = IF buffer # <<>> THEN "going" ELSE "none"
          /\ up' = buffer /\ buffer' = <<>>
     ELSE post' = "none" /\ up' = <<>> /\ UNCHANGED <<buffer, posting>>
  /\ UNCHANGED <<base, tconnected, session, link, down, server, sent, got, fired, reading>>

PostEnds == msgs = <<>> /\ (Posted(200) \/ (MayFail /\ Posted(500)))

Next ==
  \/ Connect \/ Send \/ OnData \/ OnResponse \/ OnDecoded \/ PartEnds \/ OnClose \/ Disconnect
  \/ Opened \/ Break \/ PollFails \/ Tell \/ Arrive \/ PostEnds

Spec == Init /\ [][Next]_vars

(* The page connects when it is loaded; the browser and the network go on.   *)
Fairness ==
  /\ WF_vars(Connect) /\ WF_vars(OnClose)
  /\ WF_vars(OnData) /\ WF_vars(OnResponse) /\ WF_vars(OnDecoded)
  /\ WF_vars(Opened) /\ WF_vars(Arrive) /\ WF_vars(PostEnds)

-----------------------------------------------------------------------------
(* The state is well formed, and nothing is left behind in it: the queue is  *)
(* empty while the transport is connected, and the buffer holds something    *)
(* only when a POST is out that will, or would, let it go.  "connect" fires  *)
(* once in the life of a page and "disconnect" only after it: a socket that  *)
(* was lost is not used again.                                               *)
(* (socket.js:47-53 and 90-121, transport.js:88-97, xhr.js:42-76.)           *)
Ups == {Beat} \cup 1..MaxSent
Downs == {Session, Beat} \cup 1..MaxTold
TypeOK ==
  /\ browser \in Browsers /\ transports \in Seq(Kinds \cup {"jsonp-polling"})
  /\ transport \in Kinds \cup {NoTransport}
  /\ connected \in BOOLEAN /\ connecting \in BOOLEAN
  /\ tconnected \in BOOLEAN /\ session \in BOOLEAN /\ posting \in BOOLEAN
  /\ queue \in Seq(1..MaxSent) /\ (tconnected => queue = <<>>)
  /\ buffer \in Seq(Ups) /\ up \in Seq(Ups) /\ (buffer # <<>> => posting)
  /\ down \in Seq(Downs)
  /\ link \in {"closed", "opening", "open", "broken"}
  /\ post \in {"none", "going", "coming"} /\ (post # "none" => posting)
  /\ sent \in Seq(1..MaxSent) /\ arrived \in Seq(1..MaxSent)
  /\ told \in Seq(1..MaxTold) /\ beats \in 0..MaxBeats
  /\ got \in Seq({Session, Piece} \cup 1..MaxTold) /\ response \in Seq(Downs)
  /\ msgs \in Seq(Downs \cup {Piece})
  /\ begun \in BOOLEAN /\ cutId \in BOOLEAN
  /\ fired \in {<<>>, <<"connect">>, <<"connect", "disconnect">>}

(* What a program sends, and what arrives of it.  Nothing is left out: after *)
(* a failure nothing follows that would pass over what was lost.             *)
Upwards == INSTANCE EventChannel WITH
  lossy <- FALSE, sent <- sent, next <- Len(arrived) + 1, got <- arrived

(* What the server tells, and what "message" fires with.  The session id and *)
(* the heartbeats are none of it.  Polling by onload goes on after a failure *)
(* and passes over what was lost; nothing else does.  xhr-multipart, which   *)
(* fires again with what has come before, is no such channel.                *)
Downwards == INSTANCE EventChannel WITH
  lossy <- transport = "xhr-polling" /\ browser.onload /\ browser.faults, sent <- told,
  next <- IF got = <<>> \/ IsMultipart THEN 1 ELSE Last(got) + 1,
  got <- IF IsMultipart THEN <<>> ELSE got

(* In both directions messages come in order, none twice and with no gap,    *)
(* over the queue, a buffer and the requests, or over the one stream; only   *)
(* polling by onload may leave some out on their way down, and what comes    *)
(* down over xhr-multipart is not spoken of here.                            *)
(* (socket.js:55-59 and 90-113, xhr.js:42-76; transport.js:64-86,            *)
(* xhr-polling.js:24-40.)                                                    *)
MessagesInOrder == Upwards!ChannelSpec /\ Downwards!ChannelSpec

(* Over xhr-multipart "message" fires with texts that are not whole, with the *)
(* session id, and again with what it has fired with before.  But it comes   *)
(* to a message for the first time only when the one before it has come,     *)
(* and to none that was not sent.                                            *)
(* (xhr-multipart.js:22-24, transport.js:42-82.)                             *)
RereadsInOrder ==
  IsMultipart =>
    \A i \in DOMAIN got :
      /\ got[i] <= Len(told)
      /\ got[i] > 1 => \E j \in 1..(i - 1) : got[j] = got[i] - 1

(* Without failures every message that is sent arrives, unless it is sent    *)
(* for a session id that was read too early.                                 *)
(* (socket.js:55-59 and 90-113, xhr.js:42-76, xhr-multipart.js:22-24.)       *)
SentArrives ==
  \A m \in 1..MaxSent :
    (Len(sent) >= m /\ ~browser.faults /\ transport # NoTransport)
      ~> (cutId \/ Len(arrived) >= m)

(* Without failures "message" fires with every message that the server       *)
(* tells, and it is whole at least once.                                     *)
(* (transport.js:64-82, xhr-multipart.js:22-24, xhr-polling.js:24-40.)       *)
ToldArrives ==
  \A m \in 1..MaxTold : (Len(told) >= m /\ ~browser.faults) ~> Contains(got, m)

(* The end of a connection is told to the program, over a WebSocket: the     *)
(* other transports do not hear of it.  (websocket.js:37-40.)                *)
CloseIsTold ==
  (link = "broken" /\ tconnected /\ IsWebSocket) ~> (Contains(fired, "disconnect"))
=============================================================================
