--------------------------- MODULE MCBrowserSocket ---------------------------
(***************************************************************************)
(* Instances of BrowserSocket for TLC, and the texts its frames carry.     *)
(***************************************************************************)
EXTENDS BrowserSocket, FrameCodec

(* The transports the page asks for, and those a Socket has by default. *)
PageTransports == <<"websocket", "htmlfile", "xhr-polling", "jsonp-polling">>
AllTransports == <<"websocket", "flashsocket", "htmlfile", "xhr-multipart", "xhr-polling">>

(* The host of the socket is another one than the page's. *)
Loaded(options, available, faults) ==
  [options |-> options, available |-> available,
   crossDomain |-> {"websocket", "flashsocket", "xhr-multipart", "xhr-polling"},
   isXDomain |-> TRUE, remembered |-> "none", onload |-> TRUE, faults |-> faults]

(* A WebSocket and polling, with failures and without, the polling with an    *)
(* onload or not; Flash, which gives way to polling or to a stream in parts;  *)
(* a browser that can do none of it; one that remembers a stream, and one the *)
(* Flash the page does not ask for; a stream in parts, with failures or not.  *)
SomeBrowsers ==
  { Loaded(PageTransports, {"websocket", "xhr-polling"}, TRUE),
    Loaded(PageTransports, {"htmlfile", "xhr-polling"}, TRUE),
    [Loaded(PageTransports, {"xhr-polling"}, TRUE) EXCEPT !.onload = FALSE],
    Loaded(PageTransports, {"htmlfile", "xhr-polling"}, FALSE),
    Loaded(AllTransports, {"flashsocket", "xhr-polling"}, TRUE),
    Loaded(PageTransports, {"htmlfile"}, FALSE),
    [Loaded(AllTransports, {"websocket", "htmlfile"}, TRUE)
       EXCEPT !.isXDomain = FALSE, !.remembered = "htmlfile"],
    [Loaded(PageTransports, {"flashsocket", "xhr-polling"}, TRUE)
       EXCEPT !.remembered = "flashsocket"],
    Loaded(PageTransports, {"websocket"}, FALSE),
    Loaded(AllTransports, {"flashsocket", "xhr-multipart"}, TRUE),
    Loaded(AllTransports, {"xhr-multipart"}, FALSE) }

(* Where all is read again and again less is sent. *)
Fewer == IsMultipart => Len(sent) <= 2

SomeCharacters == {"~", "m", "x", "0", "1", "2", "3", "4", "5", "6", "7", "8", "9"}

(* Nothing, a letter, digits, a frame, half of one, and a length of two digits. *)
SomeTexts ==
  {<<>>, <<"x">>, <<"1", "2">>, <<"~", "m", "~", "1", "~", "m", "~", "x">>, <<"~", "m">>,
   <<"0", "1", "2", "3", "4", "5", "6", "7", "8", "9", "x">>}

(* The frames are looked at by themselves, where there is no transport. *)
MCInit == Init /\ SomeMessages /\ (messages # <<>> => transport = NoTransport)

MCSpec == MCInit /\ [][Next /\ Fewer' /\ UNCHANGED messages]_<<vars, messages>> /\ Fairness
=============================================================================
