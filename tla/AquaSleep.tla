------------------------------ MODULE AquaSleep ------------------------------
(***************************************************************************)
(* Parts of the aquarium board (ffp5cs) checked in one run: its sleep      *)
(* (SleepCycle), the clock that a sleep sets back (Clock) and the page     *)
(* that loses the board while it sleeps (WebPage).  What each takes from   *)
(* the others, how long a sleep lasts or when it comes, is free in its     *)
(* module: a behaviour follows one part and leaves the others as they      *)
(* start.                                                                  *)
(***************************************************************************)
EXTENDS Integers

CONSTANTS Acts, Delay, WebTimeout, WsTimeout, Window, Retries, MaxVisits,  \* SleepCycle
          MinDelta, Apply, Hmac, TrustAge, Far,                            \* Clock
          MaxChains, MaxSessions, MaxOutages,                              \* WebPage
          Restarts                                                         \* resets

(* A clock that is right is among the differences told apart and within    *)
(* the server's window.                                                    *)
ASSUME ClockAssumption == {Hmac, Far} \subseteq Nat

VARIABLES aspect,                                       \* the part that moves
          pc, sl, local, acts, snap, env, http, seen,   \* SleepCycle
          off, before, trust, due, ntpNet, sntp,        \* Clock
          page, chain, sock, ws, resume, board          \* WebPage

Rest == INSTANCE SleepCycle WITH MaxResets <- Restarts
Time == INSTANCE Clock WITH net <- ntpNet, MaxResets <- Restarts
Page == INSTANCE WebPage WITH srv <- board

restVars == <<pc, sl, local, acts, snap, env, http, seen>>
timeVars == <<off, before, trust, due, ntpNet, sntp>>
pageVars == <<page, chain, sock, ws, resume, board>>
dvars == <<aspect, restVars, timeVars, pageVars>>

(* Of the parts that are left alone, one initial state is enough. *)
DInit ==
    /\ aspect \in {"rest", "time", "page"}
    /\ Rest!Init /\ Time!Init /\ Page!Init
    /\ aspect = "rest" \/ acts = {}
    /\ aspect = "time" \/ (off = 0 /\ ~ntpNet.ntp /\ ~ntpNet.near)
    /\ aspect = "page" \/ page.token = 0

DNext ==
    /\ UNCHANGED aspect
    /\ \/ aspect = "rest" /\ Rest!Next /\ UNCHANGED <<timeVars, pageVars>>
       \/ aspect = "time" /\ Time!Next /\ UNCHANGED <<restVars, pageVars>>
       \/ aspect = "page" /\ Page!Next /\ UNCHANGED <<restVars, timeVars>>

(* The fairness of each part. *)
Of(p, A) == aspect = p /\ A
DFairness ==
    /\ WF_restVars(Of("rest", Rest!Cycle)) /\ WF_restVars(Of("rest", Rest!SendPost))
    /\ WF_restVars(Of("rest", Rest!Tick)) /\ WF_restVars(Of("rest", Rest!EndWork))
    /\ WF_timeVars(Of("time", Time!Settled))
    /\ WF_pageVars(Of("page", Page!Resume)) /\ WF_pageVars(Of("page", Page!FallbackCheck))
    /\ \A c \in 1..MaxChains :
          /\ WF_pageVars(Of("page", Page!Limit(c))) /\ WF_pageVars(Of("page", Page!Retry(c)))
          /\ WF_pageVars(Of("page", Page!Open(c))) /\ WF_pageVars(Of("page", Page!Lost(c)))
          /\ WF_pageVars(Of("page", Page!Grace(c)))
    /\ \A s \in Page!Sockets :
          WF_pageVars(Of("page", Page!Fail(s))) /\ WF_pageVars(Of("page", Page!Closed(s)))
    /\ \A a \in Page!Asked : WF_pageVars(Of("page", Page!Authenticate(a)))

DSpec == DInit /\ [][DNext]_dvars /\ DFairness
-----------------------------------------------------------------------------
(* The board sleeps again and again, and wakes with its own actuators      *)
(* (automatism_sleep.cpp, automatism.cpp).                                 *)
SleepServes ==
    /\ [](aspect = "rest" => Rest!RestoredOwn)
    /\ aspect = "rest" => Rest!SleepsAgain

(* NTP's trust covers a clock in the server's window only, and comes back  *)
(* when the NTP server answers (power.cpp).                                *)
ClockTrusted ==
    /\ [](aspect = "time" => Time!NtpTrustClose)
    /\ aspect = "time" => Time!TrustReturns

(* The page is refreshed again whatever sleeps, losses and retries came    *)
(* before, unless two attempts were under way at once (websocket.js).      *)
PageFresh == aspect = "page" => Page!StaysFresh
=============================================================================
