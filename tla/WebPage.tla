------------------------------- MODULE WebPage -------------------------------
(***************************************************************************)
(* The aquarium's local web page kept fresh: the browser's connectWS() of  *)
(* data/shared/websocket.js, which tries a WebSocket on port 81, then on   *)
(* port 80, then polls /json, and the board's RealtimeWebSocket, which     *)
(* wants each socket to authenticate with the session's token.             *)
(*                                                                         *)
(* Every call of connectWS() is a chain of attempts with its own port      *)
(* index and timers, but the page's flags and its variable `ws`, the last  *)
(* socket made, are shared by all chains: a handler of one chain acts on   *)
(* the socket of another.  The board closes sockets before it sleeps, with *)
(* two messages that each start a timer for one more connectWS().          *)
(***************************************************************************)
EXTENDS Naturals, FiniteSets

CONSTANTS MaxChains,    \* calls of connectWS() explored
          MaxSessions,  \* tokens the board issues
          MaxOutages    \* times the board sleeps, resets or loses its link

VARIABLES
    page,   \* polling, pending (wifiChangePending), connected, token (of the tab), check
    chain,  \* per call of connectWS(): its port index, armed limit, planned retries
    sock,   \* per chain and port: the socket's state as the page sees it
    ws,     \* the page's variable `ws`: the last socket made
    resume, \* timers of server_closing messages, each to call connectWS()
    srv     \* the board: up, session (its token, 0 if none), live, asked, authed, outages

pvars == <<page, chain, sock, ws, resume, srv>>

Chains == 1..MaxChains
Ports == {81, 80}
Sockets == Chains \X Ports
End == 3  \* a port index past the list

\* Chains called so far are 1..Called.
Called == Cardinality({c \in Chains : chain[c].idx > 0})

Unused == [idx |-> 0, limit |-> FALSE, retries |-> 0]
Trying(i) == [idx |-> i, limit |-> TRUE, retries |-> 0]

Init ==
    /\ page \in {[polling |-> TRUE, pending |-> FALSE, connected |-> FALSE,
                  token |-> t, check |-> TRUE] : t \in {0, 1}}
    /\ chain = [c \in Chains |-> IF c = 1 THEN Trying(1) ELSE Unused]
    /\ sock = [s \in Sockets |-> IF s = <<1, 81>> THEN "opening" ELSE "no"]
    /\ ws = <<1, 81>>
    /\ resume = 0
    /\ srv = [up |-> TRUE, session |-> 1, live |-> {}, asked |-> {}, authed |-> {}, outages |-> 0]
-----------------------------------------------------------------------------
(* The page.                                                               *)

\* tryConnect() of chain c at port index i, on the page and sockets given: the
\* next port's socket, or polling once the list is exhausted.
tryConnect(c, i, pg, so, retries) ==
    IF i >= End
    THEN /\ page' = [pg EXCEPT !.polling = TRUE]
         /\ chain' = [chain EXCEPT ![c] = [idx |-> End, limit |-> FALSE, retries |-> retries]]
         /\ sock' = so
         /\ ws' = ws
    ELSE /\ page' = pg
         /\ chain' = [chain EXCEPT ![c] = [idx |-> i, limit |-> TRUE, retries |-> retries]]
         /\ sock' = [so EXCEPT ![<<c, 80>>] = "opening"]
         /\ ws' = <<c, 80>>

(* Mutant: a close is only noted, and no further attempt planned. *)
oncloseNoted(c, normal) ==
    /\ page' = [page EXCEPT !.connected = FALSE]
    /\ chain' = [chain EXCEPT ![c].limit = FALSE]

\* onclose() of a socket of chain c: its timer goes, and unless a change is
\* pending or the close was a normal one, a retry on the next port is planned.
onclose(c, normal) ==
    /\ page' = [page EXCEPT !.connected = FALSE]
    /\ chain' = [chain EXCEPT ![c].limit = FALSE,
                              ![c].retries = IF page.pending \/ normal THEN @ ELSE @ + 1]

\* The auth message a page sends: none without a token.
Auth(c) == IF page.token > 0 THEN {<<c, page.token>>} ELSE {}

\* onopen(): polling stops, and the tab's token is sent over `ws`, if that
\* socket is open, which need not be the one that opened.
Open(c) ==
    /\ sock[<<c, 81>>] = "opening" /\ srv.up
    /\ sock' = [sock EXCEPT ![<<c, 81>>] = "open"]
    /\ page' = [page EXCEPT !.polling = FALSE, !.connected = TRUE]
    /\ chain' = [chain EXCEPT ![c].limit = FALSE, ![c].idx = End]
    /\ srv' = [srv EXCEPT !.live = @ \union {c},
                          !.asked = @ \union (IF sock'[ws] = "open" THEN Auth(ws[1]) ELSE {})]
    /\ UNCHANGED <<ws, resume>>

\* The attempt fails: nothing answers, or port 80, which serves no WebSocket.
Fail(s) ==
    /\ sock[s] = "opening"
    /\ s[2] = 80 \/ ~srv.up
    /\ sock' = [sock EXCEPT ![s] = "closed"]
    /\ onclose(s[1], FALSE)
    /\ UNCHANGED <<ws, resume, srv>>

\* The 10 s limit of chain c looks at `ws`, whichever chain's socket that is.
Limit(c) ==
    /\ chain[c].limit
    /\ IF sock[ws] = "open"
       THEN /\ chain' = [chain EXCEPT ![c].limit = FALSE]
            /\ UNCHANGED <<page, sock, ws>>
       ELSE tryConnect(c, chain[c].idx + 1, page,
                       IF sock[ws] = "opening" THEN [sock EXCEPT ![ws] = "closing"] ELSE sock,
                       chain[c].retries)
    /\ UNCHANGED <<resume, srv>>

\* The close of a socket given up reaches its handler.
Closed(s) ==
    /\ sock[s] = "closing"
    /\ sock' = [sock EXCEPT ![s] = "closed"]
    /\ onclose(s[1], FALSE)
    /\ UNCHANGED <<ws, resume, srv>>

Retry(c) ==
    /\ chain[c].retries > 0
    /\ tryConnect(c, chain[c].idx + 1, page, sock, chain[c].retries - 1)
    /\ UNCHANGED <<resume, srv>>

\* The timer of a server_closing message: connectWS() anew.
Resume ==
    /\ resume > 0 /\ Called < MaxChains
    /\ LET c == Called + 1
       IN /\ chain' = [chain EXCEPT ![c] = Trying(1)]
          /\ sock' = [sock EXCEPT ![<<c, 81>>] = "opening"]
          /\ ws' = <<c, 81>>
    /\ resume' = resume - 1
    /\ page' = [page EXCEPT !.pending = FALSE]
    /\ UNCHANGED srv

\* Three seconds after the load: polling if no socket is open.
FallbackCheck ==
    /\ page.check
    /\ page' = [page EXCEPT !.check = FALSE, !.polling = @ \/ ~page.connected]
    /\ UNCHANGED <<chain, sock, ws, resume, srv>>

\* The session this tab holds the token of is the board's.
LoggedIn == page.token > 0 /\ page.token = srv.session

\* The user logs in on this page: a new token, which no open socket is told.
Login ==
    /\ srv.up /\ ~LoggedIn /\ srv.session < MaxSessions
    /\ srv' = [srv EXCEPT !.session = @ + 1]
    /\ page' = [page EXCEPT !.token = srv.session + 1]
    /\ UNCHANGED <<chain, sock, ws, resume>>
-----------------------------------------------------------------------------
(* The board.                                                              *)

\* disconnect(num): a close frame, code 1000, the page takes for a normal end.
Dropped(c) ==
    /\ srv' = [srv EXCEPT !.live = @ \ {c}, !.authed = @ \ {c},
                          !.asked = {a \in @ : a[1] # c}]
    /\ sock' = [sock EXCEPT ![<<c, 81>>] = "closed"]
    /\ onclose(c, TRUE)
    /\ UNCHANGED <<ws, resume>>

\* handleClientMessage() of an auth message.
Authenticate(a) ==
    /\ a \in srv.asked /\ a[1] \in srv.live
    /\ IF a[2] = srv.session
       THEN /\ srv' = [srv EXCEPT !.asked = @ \ {a}, !.authed = @ \union {a[1]}]
            /\ UNCHANGED <<page, chain, sock, ws, resume>>
       ELSE Dropped(a[1])

\* enforceAuthGrace(): a socket that has sent no token in 5 s.
Grace(c) ==
    /\ c \in srv.live \ srv.authed
    /\ ~\E a \in srv.asked : a[1] = c
    /\ Dropped(c)

\* Before a light sleep: notifyWifiChange("... sleep ...") then
\* closeAllConnections(), two messages to every socket and a normal close.
Sleep ==
    /\ srv.up /\ srv.live # {} /\ srv.outages < MaxOutages
    /\ Called + resume + 2 * Cardinality(srv.live) <= MaxChains
    /\ resume' = resume + 2 * Cardinality(srv.live)
    /\ page' = [page EXCEPT !.pending = TRUE, !.connected = FALSE]
    /\ sock' = [s \in Sockets |-> IF s[2] = 81 /\ s[1] \in srv.live THEN "closed" ELSE sock[s]]
    /\ chain' = [c \in Chains |-> IF c \in srv.live THEN [chain[c] EXCEPT !.limit = FALSE]
                                  ELSE chain[c]]
    /\ srv' = [srv EXCEPT !.up = FALSE, !.live = {}, !.asked = {}, !.authed = {}, !.outages = @ + 1]
    /\ UNCHANGED ws

\* The link is lost, or the board resets and forgets its session.
Outage ==
    /\ srv.up /\ srv.outages < MaxOutages
    /\ \E s \in {srv.session, 0} :
         srv' = [srv EXCEPT !.up = FALSE, !.live = {}, !.asked = {}, !.authed = {},
                            !.session = s, !.outages = @ + 1]
    /\ UNCHANGED <<page, chain, sock, ws, resume>>

Back ==
    /\ ~srv.up
    /\ srv' = [srv EXCEPT !.up = TRUE]
    /\ UNCHANGED <<page, chain, sock, ws, resume>>

\* The browser finds an open socket dead (its pings, the TCP keep-alive).
Lost(c) ==
    /\ sock[<<c, 81>>] = "open" /\ c \notin srv.live
    /\ sock' = [sock EXCEPT ![<<c, 81>>] = "closed"]
    /\ onclose(c, FALSE)
    /\ UNCHANGED <<ws, resume, srv>>

\* The sockets broadcastSensorData() reaches.
Served == {c \in srv.authed : sock[<<c, 81>>] = "open"}

Asked == Chains \X (1..MaxSessions)

Timers == Resume \/ FallbackCheck \/ \E c \in Chains : Limit(c) \/ Retry(c)

Network ==
    \/ \E c \in Chains : Open(c) \/ Lost(c)
    \/ \E s \in Sockets : Fail(s) \/ Closed(s)

Board == (\E a \in Asked : Authenticate(a)) \/ (\E c \in Chains : Grace(c))

Next == Timers \/ Network \/ Board \/ Login \/ Sleep \/ Outage \/ Back

\* Timers fire, sockets open or fail, the board answers; nothing makes the user
\* log in, nor the board come back.
Spec ==
    /\ Init /\ [][Next]_pvars
    /\ WF_pvars(Resume) /\ WF_pvars(FallbackCheck)
    /\ \A c \in Chains : WF_pvars(Limit(c)) /\ WF_pvars(Retry(c)) /\ WF_pvars(Open(c))
                         /\ WF_pvars(Lost(c)) /\ WF_pvars(Grace(c))
    /\ \A s \in Sockets : WF_pvars(Fail(s)) /\ WF_pvars(Closed(s))
    /\ \A a \in Asked : WF_pvars(Authenticate(a))
-----------------------------------------------------------------------------
(* Properties.                                                             *)

\* What refreshes the page: polling, or a socket the board sends data to.
Fresh == page.polling \/ Served # {}

\* Attempts of two chains under way at once, whose limits then act on the
\* sockets of each other.
Crossed == Cardinality({s \in Sockets : sock[s] = "opening"}) > 1

(* A page of a user whose session stays valid is refreshed for ever once the *)
(* board is back for good, whatever sleeps, losses and retries came before,  *)
(* unless two attempts were under way at once.                               *)
StaysFresh == ([](LoggedIn /\ ~Crossed) /\ <>[]srv.up) => <>[]Fresh

=============================================================================
