--------------------------- MODULE BrowserProofs ---------------------------
(***************************************************************************)
(* What holds of the session, the panels, the logs, the history, the feeds *)
(* and the counts of module Browser, for any number of tabs, items,        *)
(* queries, chunks, revisions and requests: for each an inductive          *)
(* invariant, and the promises that follow from it.                        *)
(***************************************************************************)
EXTENDS Browser, FiniteSetTheorems, SequenceTheorems, WellFoundedInduction, TLAPS

\* The instances count as the library does.
LEMMA LogsCardinality == \A S : Lo!Cardinality(S) = Cardinality(S)
  BY DEF Lo!Cardinality, Cardinality

\* The instances count as the library does.
LEMMA PanelsCardinality == \A S : Pa!Cardinality(S) = Cardinality(S)
  BY DEF Pa!Cardinality, Cardinality

-----------------------------------------------------------------------------
(***************************************************************************)
(* The session of a browser.  While its uses do not overlap, at most one   *)
(* tab is busy (OneTabBusy), what that tab has sent is the pair the API    *)
(* still has, or its answer brings the one that took its place             *)
(* (CallCurrent), and at rest the cookie is that pair, and the storage too *)
(* unless a page is being loaded, which reads the cookie (SignedInside).   *)
(***************************************************************************)

TabPlaces == {"closed", "load", "boot", "ready"}
TabDoing == [at : TabPlaces, user : BOOLEAN]
RefreshAnswers == {"none", "pair", "refused"}
RefreshCall == [pair : Nat, answer : RefreshAnswers, new : Nat]
PageCall == [pair : Nat, answer : RefreshAnswers, new : Nat, soft : BOOLEAN]

SessionTypeOK ==
  /\ last \in Nat /\ live \in SUBSET (1..last)
  /\ storage \in Nat /\ cookie \in Nat
  /\ tab \in [Tabs -> TabDoing]
  /\ flight \in [Tabs -> RefreshCall]
  /\ visit \in [Tabs -> PageCall]
  /\ signedIn \in BOOLEAN /\ raced \in BOOLEAN /\ behind \in BOOLEAN

\* Nothing but what the tab does itself.
TabStage(t) ==
  /\ visit[t].pair = We!None => visit[t].answer = "none"
  /\ We!At(t, "boot") => We!Refreshing(t)
  /\ We!At(t, "load") => ~We!Refreshing(t)
  /\ visit[t].pair # We!None => ~We!Refreshing(t) /\ (We!At(t, "load") \/ visit[t].soft)
  /\ visit[t].pair # We!None /\ visit[t].soft /\ visit[t].answer # "none" => behind
  /\ flight[t].answer # "pair" => flight[t].new = We!None

OneTabBusy == \A t, u \in Tabs : We!Busy(t) /\ We!Busy(u) => t = u

\* What a call brings, or will bring, is the pair the API has.
CallCurrent(use) ==
  use.pair # We!None => \/ use.answer = "none" /\ use.pair \in live
                        \/ use.answer = "pair" /\ use.new \in live

\* A tab may send a pair that the middleware has changed since.
FlightCurrent(use) == CallCurrent(use) \/ (behind /\ use.answer # "pair")

\* What the browser holds when nothing is under way.
Held(loading) ==
  \/ cookie \in live /\ (storage = cookie \/ behind \/ loading)
  \/ behind /\ storage = We!None /\ cookie = We!None

NoCalls == \A t \in Tabs : visit[t].pair = We!None /\ flight[t].pair = We!None

SignedInside ==
  /\ \A t \in Tabs : CallCurrent(visit[t]) /\ FlightCurrent(flight[t])
  /\ NoCalls => Held(\E t \in Tabs : We!At(t, "load"))

SignedOutside == storage = We!None /\ cookie = We!None /\ NoCalls

Undisturbed == OneTabBusy /\ (\A t \in Tabs : TabStage(t)) /\ (IF signedIn THEN SignedInside ELSE SignedOutside)

\* What Undisturbed says where no tab but t is busy.
OwnCalls(t) ==
  IF signedIn
  THEN /\ CallCurrent(visit[t]) /\ FlightCurrent(flight[t])
       /\ visit[t].pair = We!None /\ flight[t].pair = We!None => Held(We!At(t, "load"))
  ELSE storage = We!None /\ cookie = We!None /\ visit[t].pair = We!None /\ flight[t].pair = We!None

OthersRest(t) == \A u \in Tabs : u # t => ~We!Busy(u)
OthersStay(t) ==
  \A u \in Tabs : u # t => tab'[u] = tab[u] /\ flight'[u] = flight[u] /\ visit'[u] = visit[u]

SessionInv == SessionTypeOK /\ (~raced => Undisturbed)

-----------------------------------------------------------------------------

\* The calls that are made, and what the API makes of them.
LEMMA CallsMade ==
  /\ We!Quiet \in RefreshCall /\ We!Quiet.pair = 0 /\ We!Quiet.answer = "none" /\ We!Quiet.new = 0
  /\ We!Home \in PageCall /\ We!Home.pair = 0 /\ We!Home.answer = "none"
  /\ \A p \in Nat : /\ [We!Quiet EXCEPT !.pair = p] \in RefreshCall
                    /\ [We!Quiet EXCEPT !.pair = p].pair = p /\ [We!Quiet EXCEPT !.pair = p].answer = "none"
                    /\ [We!Quiet EXCEPT !.pair = p].new = 0
  /\ \A p \in Nat, s \in BOOLEAN : /\ [We!Home EXCEPT !.pair = p, !.soft = s] \in PageCall
                                   /\ [We!Home EXCEPT !.pair = p, !.soft = s].pair = p
                                   /\ [We!Home EXCEPT !.pair = p, !.soft = s].answer = "none"
                                   /\ [We!Home EXCEPT !.pair = p, !.soft = s].soft = s
  BY DEF We!Quiet, We!Home, We!None, RefreshCall, PageCall, RefreshAnswers

\* What is answered is the pair just issued, or a refusal.
LEMMA AnsweredCall ==
  ASSUME last \in Nat, NEW use \in RefreshCall
  PROVE  /\ We!Answered(use) \in RefreshCall /\ We!Answered(use).pair = use.pair
         /\ We!Answered(use).answer # "none"
         /\ IF use.pair \in live THEN We!Answered(use).answer = "pair" /\ We!Answered(use).new = last + 1
            ELSE We!Answered(use).answer = "refused" /\ We!Answered(use).new = use.new
<1>1. CASE use.pair \in live
  <2>1. We!Answered(use) = [use EXCEPT !.answer = "pair", !.new = last + 1]
    BY <1>1 DEF We!Answered
  <2>2. We!Answered(use) = [pair |-> use.pair, answer |-> "pair", new |-> last + 1]
    BY <2>1 DEF RefreshCall
  <2>3. last + 1 \in Nat /\ use.pair \in Nat
    BY DEF RefreshCall
  <2> QED BY <1>1, <2>2, <2>3 DEF RefreshCall, RefreshAnswers
<1>2. CASE use.pair \notin live
  <2>1. We!Answered(use) = [use EXCEPT !.answer = "refused"]
    BY <1>2 DEF We!Answered
  <2> QED BY <1>2, <2>1 DEF RefreshCall, RefreshAnswers
<1> QED BY <1>1, <1>2

\* The same of the middleware.
LEMMA AnsweredPage ==
  ASSUME last \in Nat, NEW use \in PageCall
  PROVE  /\ We!Answered(use) \in PageCall /\ We!Answered(use).pair = use.pair /\ We!Answered(use).soft = use.soft
         /\ We!Answered(use).answer # "none"
         /\ use.pair \in live => We!Answered(use).answer = "pair" /\ We!Answered(use).new = last + 1
<1>1. CASE use.pair \in live
  <2>1. We!Answered(use) = [use EXCEPT !.answer = "pair", !.new = last + 1]
    BY <1>1 DEF We!Answered
  <2>2. We!Answered(use) = [pair |-> use.pair, answer |-> "pair", new |-> last + 1, soft |-> use.soft]
    BY <2>1 DEF PageCall
  <2>3. last + 1 \in Nat /\ use.pair \in Nat /\ use.soft \in BOOLEAN
    BY DEF PageCall
  <2> QED BY <2>2, <2>3 DEF PageCall, RefreshAnswers
<1>2. CASE use.pair \notin live
  <2>1. We!Answered(use) = [use EXCEPT !.answer = "refused"]
    BY <1>2 DEF We!Answered
  <2> QED BY <1>2, <2>1 DEF PageCall, RefreshAnswers
<1> QED BY <1>1, <1>2

\* The pairs are those issued so far, and a pair that is alive is used up for the next one.
LEMMA RotateLive ==
  ASSUME last \in Nat, live \in SUBSET (1..last), NEW use, We!Rotate(use)
  PROVE  /\ last' \in Nat /\ live' \in SUBSET (1..last')
         /\ use.pair \in live => last + 1 \in live'
<1>1. CASE use.pair \in live
  <2>1. last' = last + 1 /\ live' = (live \ {use.pair}) \cup {last'}
    BY <1>1 DEF We!Rotate
  <2>2. 1..last \in SUBSET (1..(last + 1)) /\ last + 1 \in 1..(last + 1)
    OBVIOUS
  <2>3. live' = (live \ {use.pair}) \cup {last + 1}
    BY <2>1
  <2>4. live' \in SUBSET (1..(last + 1)) /\ last + 1 \in live'
    BY <2>2, <2>3
  <2> QED BY <2>1, <2>4
<1>2. CASE use.pair \notin live
  <2>1. last' = last /\ live' = live
    BY <1>2 DEF We!Rotate
  <2> QED BY <1>2, <2>1
<1> QED BY <1>1, <1>2

\* The initial values have their types.
LEMMA SessionTypeInit == We!Init => SessionTypeOK
<1> SUFFICES ASSUME We!Init PROVE SessionTypeOK
  OBVIOUS
<1>1. [at |-> "closed", user |-> FALSE] \in TabDoing
  BY DEF TabDoing, TabPlaces
<1>2. last = 0 /\ live = {} /\ storage = 0 /\ cookie = 0 /\ signedIn = FALSE /\ raced = FALSE /\ behind = FALSE
  BY DEF We!Init, We!None
<1>3. flight \in [Tabs -> RefreshCall] /\ visit \in [Tabs -> PageCall] /\ tab \in [Tabs -> TabDoing]
  BY <1>1, CallsMade DEF We!Init
<1> QED BY <1>2, <1>3 DEF SessionTypeOK

\* No tab is open at the start, and nobody is signed in.
LEMMA SessionInit == We!Init => SessionInv
<1> SUFFICES ASSUME We!Init PROVE Undisturbed
  BY SessionTypeInit DEF SessionInv
<1>1. \A t \in Tabs : /\ visit[t] = We!Home /\ flight[t] = We!Quiet /\ tab[t].at = "closed"
  BY DEF We!Init
<1>2. \A t \in Tabs : /\ visit[t].pair = We!None /\ visit[t].answer = "none"
                     /\ flight[t].pair = We!None /\ flight[t].new = We!None
  BY <1>1, CallsMade DEF We!None
<1>3. OneTabBusy /\ \A t \in Tabs : TabStage(t)
  BY <1>1, <1>2 DEF OneTabBusy, TabStage, We!Busy, We!Refreshing, We!Visiting, We!At
<1>4. SignedOutside /\ ~signedIn
  BY <1>2 DEF SignedOutside, NoCalls, We!Init
<1> QED BY <1>3, <1>4 DEF Undisturbed


-----------------------------------------------------------------------------

\* Every step keeps the types.
LEMMA SessionTypeStep == SessionTypeOK /\ [We!Next]_(We!vars) => SessionTypeOK'
<1> SUFFICES ASSUME SessionTypeOK, [We!Next]_(We!vars) PROVE SessionTypeOK'
  OBVIOUS
<1> USE DEF SessionTypeOK
<1>1. CASE UNCHANGED We!vars
  BY <1>1 DEF We!vars, We!history
<1>2. CASE We!Expire
  BY <1>2 DEF We!Expire, We!history
<1>3. \A b \in BOOLEAN, at \in TabPlaces : [at |-> at, user |-> b] \in TabDoing
  BY DEF TabDoing
<1>4. \A t \in Tabs : tab[t] \in TabDoing /\ flight[t] \in RefreshCall /\ visit[t] \in PageCall
  OBVIOUS
<1>5. \A d \in TabDoing : /\ \A at \in TabPlaces : [d EXCEPT !.at = at] \in TabDoing
                          /\ \A b \in BOOLEAN : [d EXCEPT !.user = b] \in TabDoing
  BY DEF TabDoing
<1>6. \A t \in Tabs : tab[t].user \in BOOLEAN /\ flight[t].pair \in Nat /\ flight[t].new \in Nat /\ visit[t].new \in Nat /\ visit[t].pair \in Nat
  BY <1>4 DEF TabDoing, RefreshCall, PageCall
<1>7. ASSUME NEW t \in Tabs, NEW soft \in BOOLEAN, We!Visit(t, soft) PROVE SessionTypeOK'
  <2>1. tab' \in [Tabs -> TabDoing]
    BY <1>7, <1>3 DEF We!Visit, TabPlaces
  <2>2. visit' \in [Tabs -> PageCall]
    <3> DEFINE use == [We!Home EXCEPT !.pair = cookie, !.soft = soft]
    <3>1. use \in PageCall
      BY CallsMade
    <3>2. visit' = visit \/ visit' = [visit EXCEPT ![t] = use]
      BY <1>7 DEF We!Visit
    <3> HIDE DEF use
    <3> QED BY <3>1, <3>2
  <2>3. raced' \in BOOLEAN /\ signedIn' \in BOOLEAN /\ behind' \in BOOLEAN
    BY <1>7 DEF We!Visit, We!Begin, We!history
  <2> QED BY <1>7, <2>1, <2>2, <2>3 DEF We!Visit
<1>8. ASSUME NEW t \in Tabs, We!MiddlewareRefresh(t) PROVE SessionTypeOK'
  <2>1. last' \in Nat /\ live' \in SUBSET (1..last')
    BY <1>8, RotateLive DEF We!MiddlewareRefresh
  <2>2. We!Answered(visit[t]) \in PageCall
    BY <1>4, AnsweredPage
  <2>3. visit' \in [Tabs -> PageCall]
    BY <1>8, <2>2 DEF We!MiddlewareRefresh
  <2>4. behind' \in BOOLEAN
    BY <1>8 DEF We!MiddlewareRefresh
  <2> QED BY <1>8, <2>1, <2>3, <2>4 DEF We!MiddlewareRefresh
<1>9. ASSUME NEW t \in Tabs, We!MiddlewareFails(t) PROVE SessionTypeOK'
  BY <1>9, CallsMade DEF We!MiddlewareFails
<1>10. ASSUME NEW t \in Tabs, We!SetCookies(t) PROVE SessionTypeOK'
  BY <1>10, <1>6, CallsMade DEF We!SetCookies, We!history
<1>11. ASSUME NEW t \in Tabs, NEW p \in Nat, storage' = p, We!RefreshSession(t) PROVE flight' \in [Tabs -> RefreshCall]
  <2> DEFINE use == [We!Quiet EXCEPT !.pair = p]
  <2>1. use \in RefreshCall
    BY CallsMade
  <2>2. flight' = flight \/ flight' = [flight EXCEPT ![t] = use]
    BY <1>11 DEF We!RefreshSession
  <2> HIDE DEF use
  <2> QED BY <2>1, <2>2
<1>12. ASSUME NEW t \in Tabs, We!Boot(t) PROVE SessionTypeOK'
  <2>1. storage' = We!Synced /\ cookie' = We!Synced /\ We!Synced \in Nat
    BY <1>12 DEF We!Boot, We!Persist, We!Synced
  <2>2. flight' \in [Tabs -> RefreshCall]
    BY <1>12, <1>11, <2>1 DEF We!Boot
  <2>3. tab' \in [Tabs -> TabDoing]
    BY ZenonT(60), <1>12, <1>3, <1>4, <1>5 DEF We!Boot, TabPlaces
  <2>4. raced' \in BOOLEAN /\ signedIn' = signedIn /\ behind' \in BOOLEAN
    BY <1>12 DEF We!Boot, We!Begin
  <2> QED BY <1>12, <2>1, <2>2, <2>3, <2>4 DEF We!Boot
<1>13. ASSUME NEW t \in Tabs, We!NeedsRefresh(t) PROVE SessionTypeOK'
  <2>1. flight' \in [Tabs -> RefreshCall]
    BY <1>13, <1>11 DEF We!NeedsRefresh
  <2>2. raced' \in BOOLEAN /\ signedIn' = signedIn
    BY <1>13 DEF We!NeedsRefresh, We!Begin
  <2> QED BY <1>13, <2>1, <2>2 DEF We!NeedsRefresh
<1>14. ASSUME NEW t \in Tabs, We!RefreshReaches(t) PROVE SessionTypeOK'
  <2>1. last' \in Nat /\ live' \in SUBSET (1..last')
    BY <1>14, RotateLive DEF We!RefreshReaches
  <2>2. We!Answered(flight[t]) \in RefreshCall
    BY <1>4, AnsweredCall
  <2>3. flight' \in [Tabs -> RefreshCall]
    BY <1>14, <2>2 DEF We!RefreshReaches
  <2> QED BY <1>14, <2>1, <2>3 DEF We!RefreshReaches, We!history
<1>15. ASSUME NEW t \in Tabs, We!RefreshAnswered(t) PROVE SessionTypeOK'
  <2>1. storage' \in Nat /\ cookie' \in Nat
    BY <1>15, <1>6 DEF We!RefreshAnswered, We!Persist
  <2>2. flight' \in [Tabs -> RefreshCall]
    BY <1>15, CallsMade DEF We!RefreshAnswered
  <2>3. tab' \in [Tabs -> TabDoing]
    BY <1>15, <1>3, <1>6 DEF We!RefreshAnswered, TabPlaces
  <2> QED BY <1>15, <2>1, <2>2, <2>3 DEF We!RefreshAnswered, We!history
<1>16. ASSUME NEW t \in Tabs, We!RefreshLost(t) PROVE SessionTypeOK'
  <2>1. flight' \in [Tabs -> RefreshCall]
    BY <1>16, CallsMade DEF We!RefreshLost
  <2>2. tab' \in [Tabs -> TabDoing]
    BY <1>16, <1>4, <1>5 DEF We!RefreshLost, TabPlaces
  <2> QED BY <1>16, <2>1, <2>2 DEF We!RefreshLost
<1>17. ASSUME NEW t \in Tabs, We!Login(t) PROVE SessionTypeOK'
  <2>1. last' = last + 1 /\ live' = live \cup {last + 1}
    BY <1>17 DEF We!Login
  <2>2. 1..last \in SUBSET (1..(last + 1)) /\ last + 1 \in 1..(last + 1)
    OBVIOUS
  <2>3. live' \in SUBSET (1..(last + 1))
    BY <2>1, <2>2
  <2>4. tab' \in [Tabs -> TabDoing]
    BY <1>17, <1>4, <1>5 DEF We!Login
  <2>5. raced' \in BOOLEAN
    BY <1>17 DEF We!Login
  <2>6. /\ storage' = last + 1 /\ cookie' = last + 1 /\ signedIn' = TRUE /\ behind' = FALSE
        /\ UNCHANGED <<flight, visit>>
    BY <1>17, <2>1 DEF We!Login, We!Persist
  <2>7. last' \in Nat /\ live' \in SUBSET (1..last') /\ storage' \in Nat /\ cookie' \in Nat
    BY <2>1, <2>3, <2>6
  <2> QED BY <2>4, <2>5, <2>6, <2>7
<1>18. ASSUME NEW t \in Tabs, We!Logout(t) PROVE SessionTypeOK'
  <2>1. tab' \in [Tabs -> TabDoing]
    BY <1>18, <1>4, <1>5 DEF We!Logout
  <2>2. raced' \in BOOLEAN
    BY <1>18 DEF We!Logout
  <2> QED BY <1>18, <2>1, <2>2 DEF We!Logout, We!Clear, We!Persist, We!None
<1>19. ASSUME NEW t \in Tabs, We!CloseTab(t) PROVE SessionTypeOK'
  <2>1. tab' \in [Tabs -> TabDoing]
    BY <1>19, <1>3 DEF We!CloseTab, TabPlaces
  <2>2. flight' \in [Tabs -> RefreshCall] /\ visit' \in [Tabs -> PageCall]
    BY <1>19, CallsMade DEF We!CloseTab
  <2>3. raced' \in BOOLEAN
    BY <1>19 DEF We!CloseTab, We!Busy, We!Refreshing, We!Visiting
  <2> QED BY <1>19, <2>1, <2>2, <2>3 DEF We!CloseTab
<1> QED
  BY <1>1, <1>2, <1>7, <1>8, <1>9, <1>10, <1>12, <1>13, <1>14, <1>15, <1>16, <1>17, <1>18, <1>19 DEF We!Next


-----------------------------------------------------------------------------

\* What holds of the session holds of the one tab that may be busy.
LEMMA OwnNow ==
  ASSUME Undisturbed, NEW t \in Tabs, OthersRest(t)
  PROVE  OwnCalls(t)
<1>1. \A u \in Tabs : u # t => visit[u].pair = We!None /\ flight[u].pair = We!None /\ ~We!At(u, "load")
  BY DEF OthersRest, We!Busy, We!Refreshing, We!Visiting
<1>2. NoCalls <=> visit[t].pair = We!None /\ flight[t].pair = We!None
  BY <1>1 DEF NoCalls
<1>3. (\E u \in Tabs : We!At(u, "load")) => We!At(t, "load")
  BY <1>1
<1> QED BY <1>2, <1>3 DEF Undisturbed, OwnCalls, SignedInside, SignedOutside, Held

\* A busy tab is the only one.
LEMMA BusyAlone == ASSUME Undisturbed, NEW t \in Tabs, We!Busy(t) PROVE OthersRest(t)
  BY DEF Undisturbed, OneTabBusy, OthersRest

\* A step of one tab keeps the session, if what the tab has then is right.
LEMMA OneTabMoves ==
  ASSUME Undisturbed, NEW t \in Tabs, OthersRest(t), OthersStay(t), TabStage(t)', OwnCalls(t)'
  PROVE  Undisturbed'
<1>1. \A u \in Tabs : u # t => /\ visit'[u].pair = We!None /\ flight'[u].pair = We!None /\ tab'[u].at \notin {"load", "boot"}
                               /\ ~We!Busy(u)' /\ TabStage(u)'
  <2> SUFFICES ASSUME NEW u \in Tabs, u # t
               PROVE  /\ visit'[u].pair = We!None /\ flight'[u].pair = We!None /\ tab'[u].at \notin {"load", "boot"}
                      /\ ~We!Busy(u)' /\ TabStage(u)'
    OBVIOUS
  <2>1. ~We!Busy(u) /\ TabStage(u)
    BY DEF OthersRest, Undisturbed
  <2>2. tab'[u] = tab[u] /\ flight'[u] = flight[u] /\ visit'[u] = visit[u]
    BY DEF OthersStay
  <2> QED BY <2>1, <2>2 DEF We!Busy, We!Refreshing, We!Visiting, TabStage, We!At
<1>2. OneTabBusy' /\ \A u \in Tabs : TabStage(u)'
  BY <1>1 DEF OneTabBusy
<1>3. NoCalls' <=> visit'[t].pair = We!None /\ flight'[t].pair = We!None
  BY <1>1 DEF NoCalls
<1>4. \A u \in Tabs : u # t => CallCurrent(visit[u])' /\ CallCurrent(flight[u])'
  BY <1>1 DEF CallCurrent
<1>5. CASE signedIn'
  BY <1>2, <1>3, <1>4, <1>5 DEF OwnCalls, Undisturbed, SignedInside, FlightCurrent, Held, We!At
<1>6. CASE ~signedIn'
  BY <1>2, <1>3, <1>6 DEF OwnCalls, Undisturbed, SignedOutside
<1> QED BY <1>5, <1>6

\* What the history says of a step that begins something.
LEMMA UseBegun ==
  ASSUME raced \in BOOLEAN, NEW S, We!Begin(S), ~raced'
  PROVE  ~raced /\ signedIn' = signedIn /\ \A u \in S : ~We!Busy(u)
  BY DEF We!Begin

\* A page is asked for.
LEMMA VisitStep ==
  ASSUME SessionInv, NEW t \in Tabs, NEW soft \in BOOLEAN, We!Visit(t, soft), ~raced'
  PROVE  Undisturbed'
<1>1. CASE visit' = visit /\ soft
  <2>1. UNCHANGED <<live, storage, cookie, tab, flight, visit, signedIn, raced, behind>>
    BY <1>1 DEF We!Visit, We!history
  <2>2. Undisturbed
    BY <2>1 DEF SessionInv
  <2> QED BY <2>1, <2>2 DEF Undisturbed, OneTabBusy, TabStage, SignedInside, SignedOutside, NoCalls, CallCurrent, FlightCurrent, Held, We!Busy, We!Refreshing, We!Visiting, We!At
<1>2. CASE ~(visit' = visit /\ soft)
  <2>1. ~raced /\ signedIn' = signedIn /\ \A u \in Tabs : ~We!Busy(u)
    BY <1>2, UseBegun DEF We!Visit, SessionInv, SessionTypeOK
  <2>2. Undisturbed /\ OthersRest(t) /\ visit[t].pair = We!None /\ flight[t].pair = We!None /\ ~We!At(t, "load") /\ TabStage(t)
    BY <2>1 DEF SessionInv, OthersRest, We!Busy, We!Refreshing, We!Visiting, Undisturbed
  <2>3. OwnCalls(t)
    BY <2>2, OwnNow
  <2>4. UNCHANGED <<live, storage, cookie, flight, behind>>
    BY <1>2 DEF We!Visit
  <2> DEFINE use == [We!Home EXCEPT !.pair = cookie, !.soft = soft]
  <2>5. use.pair = cookie /\ use.answer = "none" /\ use.soft = soft
    BY ZenonT(60), CallsMade DEF SessionInv, SessionTypeOK
  <2>6. visit' = visit \/ (cookie # We!None /\ visit' = [visit EXCEPT ![t] = use])
    BY DEF We!Visit
  <2> HIDE DEF use
  <2>7. visit \in [Tabs -> PageCall] /\ tab \in [Tabs -> TabDoing]
    BY DEF SessionInv, SessionTypeOK
  <2>8. /\ visit'[t] = visit[t] \/ (cookie # We!None /\ visit'[t] = use)
        /\ \A u \in Tabs : u # t => visit'[u] = visit[u]
    BY <2>6, <2>7
  <2>9. IF soft THEN We!At(t, "ready") /\ tab' = tab ELSE tab' = [tab EXCEPT ![t] = [at |-> "load", user |-> FALSE]]
    BY DEF We!Visit
  <2>10. /\ IF soft THEN tab'[t].at = "ready" ELSE tab'[t].at = "load"
         /\ \A u \in Tabs : u # t => tab'[u] = tab[u]
    BY <2>7, <2>9 DEF We!At
  <2>11. OthersStay(t)
    BY <2>4, <2>8, <2>10 DEF OthersStay
  <2>12. TabStage(t)'
    BY <2>2, <2>4, <2>5, <2>8, <2>10 DEF TabStage, We!At, We!Refreshing
  <2>13. OwnCalls(t)'
    <3>1. signedIn /\ visit'[t] # visit[t] => cookie \in live
      BY <2>2, <2>3, <2>8 DEF OwnCalls, Held
    <3>2. We!At(t, "load") => We!At(t, "load")'
      BY <2>2
    <3>3. signedIn => CallCurrent(visit[t])' /\ FlightCurrent(flight[t])'
      BY <2>2, <2>3, <2>4, <2>5, <2>8, <3>1 DEF OwnCalls, CallCurrent, FlightCurrent
    <3>4. signedIn => Held(We!At(t, "load"))'
      BY <2>2, <2>3, <2>4, <3>2 DEF OwnCalls, Held
    <3>5. ~signedIn => cookie = We!None /\ visit'[t] = visit[t]
      BY <2>2, <2>3, <2>8 DEF OwnCalls
    <3> QED BY <2>1, <2>2, <2>3, <2>4, <3>3, <3>4, <3>5 DEF OwnCalls
  <2> QED BY <2>2, <2>11, <2>12, <2>13, OneTabMoves
<1> QED BY <1>1, <1>2

\* A step of a tab that is busy.
LEMMA BusyNow ==
  ASSUME SessionInv, ~raced, NEW t \in Tabs, We!Busy(t)
  PROVE  Undisturbed /\ OthersRest(t) /\ OwnCalls(t) /\ TabStage(t)
<1>1. Undisturbed
  BY DEF SessionInv
<1> QED BY <1>1, BusyAlone, OwnNow DEF Undisturbed

\* and when all rest, any tab is.
LEMMA RestNow ==
  ASSUME SessionInv, ~raced, NEW t \in Tabs, \A u \in Tabs : ~We!Busy(u)
  PROVE  /\ Undisturbed /\ OthersRest(t) /\ OwnCalls(t) /\ TabStage(t)
         /\ visit[t].pair = We!None /\ flight[t].pair = We!None /\ ~We!At(t, "load") /\ ~We!At(t, "boot")
<1>1. Undisturbed /\ OthersRest(t)
  BY DEF SessionInv, OthersRest
<1>2. visit[t].pair = We!None /\ flight[t].pair = We!None /\ ~We!At(t, "load") /\ ~We!At(t, "boot")
  BY DEF We!Busy, We!Visiting, We!Refreshing
<1> QED BY <1>1, <1>2, OwnNow DEF Undisturbed

\* The middleware refreshes.
LEMMA MiddlewareStep ==
  ASSUME SessionInv, NEW t \in Tabs, We!MiddlewareRefresh(t), ~raced'
  PROVE  Undisturbed'
<1>1. ~raced /\ visit[t].pair # We!None /\ visit[t].answer = "none" /\ (visit[t].soft => behind')
  BY DEF We!MiddlewareRefresh, SessionInv, SessionTypeOK
<1>2. Undisturbed /\ OthersRest(t) /\ OwnCalls(t) /\ TabStage(t)
  BY <1>1, BusyNow DEF We!Busy, We!Visiting
<1>3. flight[t].pair = We!None /\ signedIn /\ visit[t].pair \in live
  BY <1>1, <1>2 DEF TabStage, OwnCalls, CallCurrent, We!Refreshing
<1>4. visit[t] \in PageCall /\ last \in Nat /\ live \in SUBSET (1..last) /\ visit \in [Tabs -> PageCall]
  BY DEF SessionInv, SessionTypeOK
<1>5. last + 1 \in live'
  BY <1>3, <1>4, RotateLive DEF We!MiddlewareRefresh
<1> DEFINE use == We!Answered(visit[t])
<1>6. use.pair = visit[t].pair /\ use.soft = visit[t].soft /\ use.answer = "pair" /\ use.new = last + 1
  BY <1>3, <1>4, AnsweredPage
<1>7. visit' = [visit EXCEPT ![t] = use] /\ UNCHANGED <<tab, flight, signedIn>>
  BY DEF We!MiddlewareRefresh
<1> HIDE DEF use
<1>8. visit'[t] = use /\ OthersStay(t)
  BY <1>4, <1>7 DEF OthersStay
<1>9. TabStage(t)' /\ OwnCalls(t)'
  BY <1>1, <1>2, <1>3, <1>5, <1>6, <1>7, <1>8 DEF TabStage, OwnCalls, CallCurrent, FlightCurrent, We!At, We!Refreshing
<1> QED BY <1>2, <1>8, <1>9, OneTabMoves

\* The answer of the web server.
LEMMA CookieStep ==
  ASSUME SessionInv, NEW t \in Tabs, We!SetCookies(t), ~raced'
  PROVE  Undisturbed'
<1>1. ~raced /\ visit[t].answer # "none"
  BY DEF We!SetCookies, We!history
<1>2. visit[t].pair # We!None
  BY <1>1 DEF SessionInv, Undisturbed, TabStage
<1>3. Undisturbed /\ OthersRest(t) /\ OwnCalls(t) /\ TabStage(t)
  BY <1>1, <1>2, BusyNow DEF We!Busy, We!Visiting
<1>4. (We!At(t, "load") \/ behind) /\ flight[t].pair = We!None /\ signedIn /\ visit[t].new \in live
  BY <1>1, <1>2, <1>3 DEF TabStage, OwnCalls, CallCurrent, We!Refreshing
<1>5. visit' = [visit EXCEPT ![t] = We!Home] /\ UNCHANGED <<tab, flight, live, signedIn, behind>> /\ cookie' = visit[t].new
  BY DEF We!SetCookies, We!history
<1>6. visit'[t] = We!Home /\ OthersStay(t)
  BY <1>5 DEF OthersStay, SessionInv, SessionTypeOK
<1>7. TabStage(t)' /\ OwnCalls(t)'
  BY <1>3, <1>4, <1>5, <1>6, CallsMade DEF TabStage, OwnCalls, CallCurrent, FlightCurrent, Held, We!At, We!Refreshing, We!None
<1> QED BY <1>3, <1>6, <1>7, OneTabMoves

\* The page is there, and takes the pair of the cookies for the one in the storage.
LEMMA BootStep ==
  ASSUME SessionInv, NEW t \in Tabs, We!Boot(t), ~raced'
  PROVE  Undisturbed'
<1>1. ~raced /\ signedIn' = signedIn /\ We!At(t, "load") /\ visit[t] = We!Home
  BY UseBegun DEF We!Boot, SessionInv, SessionTypeOK
<1>2. Undisturbed /\ OthersRest(t) /\ OwnCalls(t) /\ TabStage(t)
  BY <1>1, BusyNow DEF We!Busy, We!Visiting
<1>3. visit[t].pair = We!None /\ visit[t].answer = "none" /\ flight[t].pair = We!None /\ ~We!Refreshing(t)
  BY <1>1, <1>2, CallsMade DEF TabStage, We!Refreshing, We!None
<1>4. storage' = We!Synced /\ cookie' = We!Synced /\ live' = live /\ visit' = visit
  BY DEF We!Boot, We!Persist
<1>5. We!None \notin live /\ storage \in Nat /\ cookie \in Nat
  BY DEF SessionInv, SessionTypeOK, We!None
<1>6. IF signedIn THEN We!Synced \in live \/ (We!Synced = We!None /\ behind') ELSE We!Synced = We!None
  <2>1. behind /\ cookie = We!None => behind'
    BY DEF We!Boot, SessionInv, SessionTypeOK
  <2> QED BY <1>1, <1>2, <1>3, <1>5, <2>1 DEF OwnCalls, Held, We!Synced
<1>7. We!Synced \in Nat /\ tab \in [Tabs -> TabDoing] /\ flight \in [Tabs -> RefreshCall]
  BY DEF We!Synced, SessionInv, SessionTypeOK
<1> DEFINE use == [We!Quiet EXCEPT !.pair = We!Synced]
<1>8. use.pair = We!Synced /\ use.answer = "none" /\ use.new = We!None
  BY <1>7, CallsMade DEF We!None
<1>9. \/ /\ tab' = [tab EXCEPT ![t] = [at |-> "ready", user |-> We!Synced # We!None]]
         /\ flight' = flight
      \/ /\ We!Synced # We!None
         /\ tab' = [tab EXCEPT ![t].at = "boot"]
         /\ flight' = [flight EXCEPT ![t] = use]
  BY <1>3, <1>4 DEF We!Boot, We!RefreshSession
<1> HIDE DEF use
<1>10. CASE tab' = [tab EXCEPT ![t] = [at |-> "ready", user |-> We!Synced # We!None]] /\ flight' = flight
  <2>1. tab'[t].at = "ready" /\ OthersStay(t)
    BY <1>4, <1>7, <1>10 DEF OthersStay
  <2>2. TabStage(t)' /\ OwnCalls(t)'
    BY <1>1, <1>2, <1>3, <1>4, <1>6, <1>10, <2>1 DEF TabStage, OwnCalls, CallCurrent, FlightCurrent, Held, We!At, We!Refreshing
  <2> QED BY <1>2, <2>1, <2>2, OneTabMoves
<1>11. CASE We!Synced # We!None /\ tab' = [tab EXCEPT ![t].at = "boot"] /\ flight' = [flight EXCEPT ![t] = use]
  <2>1. tab[t] \in TabDoing
    BY <1>7
  <2>2. tab'[t].at = "boot" /\ flight'[t] = use /\ OthersStay(t)
    BY <1>4, <1>7, <1>11, <2>1 DEF OthersStay, TabDoing
  <2>3. TabStage(t)' /\ OwnCalls(t)'
    BY <1>1, <1>3, <1>4, <1>6, <1>8, <1>11, <2>2 DEF TabStage, OwnCalls, CallCurrent, FlightCurrent, We!At, We!Refreshing
  <2> QED BY <1>2, <2>2, <2>3, OneTabMoves
<1> QED BY <1>9, <1>10, <1>11

\* A tab refreshes.
LEMMA NeedsStep ==
  ASSUME SessionInv, NEW t \in Tabs, We!NeedsRefresh(t), ~raced'
  PROVE  Undisturbed'
<1>1. ~raced /\ signedIn' = signedIn /\ We!At(t, "ready")
  BY UseBegun DEF We!NeedsRefresh, SessionInv, SessionTypeOK
<1>2. UNCHANGED <<live, storage, cookie, tab, visit, behind>> /\ storage # We!None
  BY DEF We!NeedsRefresh
<1>3. CASE We!Refreshing(t)
  <2>1. flight' = flight /\ Undisturbed
    BY <1>1, <1>3 DEF We!NeedsRefresh, We!RefreshSession, SessionInv
  <2> QED BY <1>1, <1>2, <2>1 DEF Undisturbed, OneTabBusy, TabStage, SignedInside, SignedOutside, NoCalls, CallCurrent, FlightCurrent, Held, We!Busy, We!Refreshing, We!Visiting, We!At
<1>4. CASE ~We!Refreshing(t)
  <2>1. \A u \in Tabs : ~We!Busy(u)
    BY <1>4, UseBegun DEF We!NeedsRefresh, SessionInv, SessionTypeOK
  <2>2. /\ Undisturbed /\ OthersRest(t) /\ OwnCalls(t) /\ TabStage(t)
        /\ visit[t].pair = We!None /\ flight[t].pair = We!None /\ ~We!At(t, "load") /\ ~We!At(t, "boot")
    BY <1>1, <2>1, RestNow
  <2>3. signedIn /\ (storage \in live \/ behind)
    BY <1>2, <2>2 DEF OwnCalls, Held
  <2> DEFINE use == [We!Quiet EXCEPT !.pair = storage]
  <2>4. use.pair = storage /\ use.answer = "none" /\ use.new = We!None
    BY CallsMade DEF SessionInv, SessionTypeOK, We!None
  <2>5. flight' = [flight EXCEPT ![t] = use]
    BY <1>2, <1>4 DEF We!NeedsRefresh, We!RefreshSession
  <2> HIDE DEF use
  <2>6. flight'[t] = use /\ OthersStay(t)
    BY <1>2, <2>5 DEF OthersStay, SessionInv, SessionTypeOK
  <2>7. TabStage(t)' /\ OwnCalls(t)'
    BY <1>1, <1>2, <2>2, <2>3, <2>4, <2>6 DEF TabStage, OwnCalls, CallCurrent, FlightCurrent, We!At, We!Refreshing
  <2> QED BY <2>2, <2>6, <2>7, OneTabMoves
<1> QED BY <1>3, <1>4

\* The refresh of a tab reaches the API.
LEMMA RefreshStep ==
  ASSUME SessionInv, NEW t \in Tabs, We!RefreshReaches(t), ~raced'
  PROVE  Undisturbed'
<1>1. ~raced /\ We!Refreshing(t) /\ flight[t].pair # We!None /\ flight[t].answer = "none"
  BY DEF We!RefreshReaches, We!history, We!Refreshing
<1>2. Undisturbed /\ OthersRest(t) /\ OwnCalls(t) /\ TabStage(t)
  BY <1>1, BusyNow DEF We!Busy
<1>3. visit[t].pair = We!None /\ signedIn /\ (flight[t].pair \in live \/ behind) /\ ~We!At(t, "load")
  BY <1>1, <1>2 DEF TabStage, OwnCalls, CallCurrent, FlightCurrent
<1>4. flight[t] \in RefreshCall /\ last \in Nat /\ live \in SUBSET (1..last) /\ flight \in [Tabs -> RefreshCall]
  BY DEF SessionInv, SessionTypeOK
<1>5. flight[t].pair \in live => last + 1 \in live'
  BY <1>3, <1>4, RotateLive DEF We!RefreshReaches
<1> DEFINE use == We!Answered(flight[t])
<1>6. /\ use.pair = flight[t].pair /\ use.answer # "none"
      /\ IF flight[t].pair \in live THEN use.answer = "pair" /\ use.new = last + 1
         ELSE use.answer = "refused" /\ use.new = flight[t].new
  BY <1>4, AnsweredCall
<1>7. flight' = [flight EXCEPT ![t] = use] /\ UNCHANGED <<tab, visit, signedIn, behind>>
  BY DEF We!RefreshReaches, We!history
<1> HIDE DEF use
<1>8. flight'[t] = use /\ OthersStay(t)
  BY <1>4, <1>7 DEF OthersStay
<1>9. TabStage(t)' /\ OwnCalls(t)'
  BY <1>1, <1>2, <1>3, <1>5, <1>6, <1>7, <1>8 DEF TabStage, OwnCalls, CallCurrent, FlightCurrent, We!At, We!Refreshing
<1> QED BY <1>2, <1>8, <1>9, OneTabMoves

\* Its answer.
LEMMA RefreshAnswerStep ==
  ASSUME SessionInv, NEW t \in Tabs, We!RefreshAnswered(t), ~raced'
  PROVE  Undisturbed'
<1>1. ~raced /\ We!Refreshing(t) /\ flight[t].pair # We!None /\ flight[t].answer # "none"
  BY DEF We!RefreshAnswered, We!history, We!Refreshing
<1>2. Undisturbed /\ OthersRest(t) /\ OwnCalls(t) /\ TabStage(t)
  BY <1>1, BusyNow DEF We!Busy
<1>3. visit[t].pair = We!None /\ signedIn /\ (flight[t].new \in live \/ (behind /\ flight[t].new = We!None))
  BY <1>1, <1>2 DEF TabStage, OwnCalls, CallCurrent, FlightCurrent
<1>4. /\ flight' = [flight EXCEPT ![t] = We!Quiet] /\ UNCHANGED <<visit, live, signedIn, behind>>
      /\ storage' = flight[t].new /\ cookie' = flight[t].new
  BY DEF We!RefreshAnswered, We!history, We!Persist
<1>5. tab'[t].at = "ready" /\ \A u \in Tabs : u # t => tab'[u] = tab[u]
  BY DEF We!RefreshAnswered, SessionInv, SessionTypeOK
<1>6. flight'[t] = We!Quiet /\ OthersStay(t)
  BY <1>4, <1>5 DEF OthersStay, SessionInv, SessionTypeOK
<1>7. TabStage(t)' /\ OwnCalls(t)'
  BY <1>2, <1>3, <1>4, <1>5, <1>6, CallsMade DEF TabStage, OwnCalls, CallCurrent, FlightCurrent, Held, We!At, We!Refreshing, We!None
<1> QED BY <1>2, <1>6, <1>7, OneTabMoves

\* Login and logout.
LEMMA LoginStep ==
  ASSUME SessionInv, NEW t \in Tabs, We!Login(t) \/ We!Logout(t), ~raced'
  PROVE  Undisturbed'
<1>1. ~raced /\ (\A u \in Tabs : ~We!Busy(u)) /\ We!At(t, "ready")
  BY DEF We!Login, We!Logout, SessionInv, SessionTypeOK
<1>2. /\ Undisturbed /\ OthersRest(t) /\ OwnCalls(t) /\ TabStage(t)
      /\ visit[t].pair = We!None /\ flight[t].pair = We!None /\ ~We!At(t, "load") /\ ~We!At(t, "boot")
  BY <1>1, RestNow
<1>3. UNCHANGED <<flight, visit>>
  BY DEF We!Login, We!Logout
<1>4. \E b \in BOOLEAN : tab' = [tab EXCEPT ![t].user = b]
  BY DEF We!Login, We!Logout
<1>5. tab'[t].at = tab[t].at /\ \A u \in Tabs : u # t => tab'[u] = tab[u]
  BY <1>4 DEF SessionInv, SessionTypeOK, TabDoing
<1>6. \/ signedIn' = TRUE /\ storage' \in live' /\ cookie' = storage'
      \/ signedIn' = FALSE /\ storage' = We!None /\ cookie' = We!None
  BY DEF We!Login, We!Logout, We!Clear, We!Persist
<1>7. OthersStay(t)
  BY <1>3, <1>5 DEF OthersStay
<1>8. TabStage(t)' /\ OwnCalls(t)'
  BY <1>2, <1>3, <1>5, <1>6 DEF TabStage, OwnCalls, CallCurrent, FlightCurrent, Held, We!At, We!Refreshing
<1> QED BY <1>2, <1>7, <1>8, OneTabMoves

\* A tab that is closed had nothing under way: nothing of it was counted on.
LEMMA CloseStep ==
  ASSUME SessionInv, NEW t \in Tabs, We!CloseTab(t), ~raced'
  PROVE  Undisturbed'
<1>1. ~raced /\ ~We!Busy(t) /\ UNCHANGED <<live, storage, cookie, signedIn, behind>>
  BY DEF We!CloseTab, SessionInv, SessionTypeOK
<1>2. visit[t].pair = We!None /\ flight[t].pair = We!None /\ tab[t].at \notin {"load", "boot"}
  BY <1>1 DEF We!Busy, We!Refreshing, We!Visiting, We!At
<1>3. visit'[t] = We!Home /\ flight'[t] = We!Quiet /\ tab'[t].at = "closed" /\ OthersStay(t)
  BY DEF We!CloseTab, SessionInv, SessionTypeOK, OthersStay
<1>4. visit'[t].pair = We!None /\ visit'[t].answer = "none" /\ flight'[t].pair = We!None /\ flight'[t].new = We!None
  BY <1>3, CallsMade DEF We!None
<1>5. Undisturbed
  BY <1>1 DEF SessionInv
<1>6. ~We!Busy(t)' /\ TabStage(t)' /\ CallCurrent(visit[t])' /\ FlightCurrent(flight[t])'
  BY <1>3, <1>4 DEF We!Busy, We!Refreshing, We!Visiting, We!At, TabStage, CallCurrent, FlightCurrent
<1>7. \A u \in Tabs : u # t => tab'[u] = tab[u] /\ flight'[u] = flight[u] /\ visit'[u] = visit[u]
  BY <1>3 DEF OthersStay
<1>8. OneTabBusy' /\ \A u \in Tabs : TabStage(u)'
  <2>1. \A u \in Tabs : u # t => TabStage(u)' /\ (We!Busy(u)' <=> We!Busy(u))
    BY <1>1, <1>5, <1>7 DEF Undisturbed, TabStage, We!Busy, We!Refreshing, We!Visiting, We!At
  <2> QED BY <1>5, <1>6, <2>1 DEF Undisturbed, OneTabBusy
<1>9. NoCalls' <=> NoCalls
  BY <1>2, <1>4, <1>7 DEF NoCalls
<1>10. (\E u \in Tabs : We!At(u, "load")) => \E u \in Tabs : We!At(u, "load")'
  BY <1>2, <1>7 DEF We!At
<1>11. \A u \in Tabs : (CallCurrent(visit[u]) => CallCurrent(visit[u])') /\ (FlightCurrent(flight[u]) => FlightCurrent(flight[u])')
  BY <1>1, <1>6, <1>7 DEF CallCurrent, FlightCurrent
<1> QED BY <1>1, <1>5, <1>8, <1>9, <1>10, <1>11 DEF Undisturbed, SignedInside, SignedOutside, Held

\* Every step keeps the invariant.
LEMMA SessionStep == SessionInv /\ [We!Next]_(We!vars) => SessionInv'
<1> SUFFICES ASSUME SessionInv, [We!Next]_(We!vars), ~raced' PROVE Undisturbed'
  BY SessionTypeStep DEF SessionInv
<1>1. CASE We!Expire \/ UNCHANGED We!vars
  <2>1. UNCHANGED <<live, storage, cookie, tab, flight, visit, signedIn, raced, behind>>
    BY <1>1 DEF We!Expire, We!vars, We!history
  <2>2. Undisturbed
    BY <2>1 DEF SessionInv
  <2> QED BY <2>1, <2>2 DEF Undisturbed, OneTabBusy, TabStage, SignedInside, SignedOutside, NoCalls, CallCurrent, FlightCurrent, Held, We!Busy, We!Refreshing, We!Visiting, We!At
<1>2. ASSUME NEW t \in Tabs, We!MiddlewareFails(t) \/ We!RefreshLost(t) PROVE FALSE
  BY <1>2 DEF We!MiddlewareFails, We!RefreshLost
<1> QED BY <1>1, <1>2, VisitStep, MiddlewareStep, CookieStep, BootStep, NeedsStep, RefreshStep, RefreshAnswerStep, LoginStep, CloseStep DEF We!Next

\* The invariant of the session.
LEMMA SessionInductive == We!Spec => []SessionInv
  BY SessionInit, SessionStep, PTL DEF We!Spec

\* For any number of tabs: unless uses of the session overlapped or an answer was lost, who has
\* logged out has no pair, and who has logged in has the one that the API would refresh in both
\* places, or, once a link followed inside a page has changed it, in the cookies alone or not
\* at all.
THEOREM SessionStaysKept == We!Spec => []We!SessionKept
<1>1. SessionInv => We!SessionKept
  <2> SUFFICES ASSUME SessionInv, ~raced, \A t \in Tabs : ~We!Busy(t)
               PROVE  IF signedIn THEN Held(FALSE) ELSE storage = We!None /\ cookie = We!None
    BY DEF We!SessionKept, Held
  <2>1. NoCalls /\ \A t \in Tabs : ~We!At(t, "load")
    BY DEF NoCalls, We!Busy, We!Refreshing, We!Visiting
  <2> QED BY <2>1 DEF SessionInv, Undisturbed, SignedInside, SignedOutside, Held
<1> QED BY <1>1, SessionInductive, PTL

-----------------------------------------------------------------------------
(***************************************************************************)
(* The logs of jobs.  A chunk's sequence is its place (ChunksPlaced), and  *)
(* no chunk is lost before its row is there (RowsWhole): once no post is   *)
(* under way the rows are all there, and in order they are the log.        *)
(***************************************************************************)

JobRuns == {"ready", "first", "running", "left", "over"}
LogPost == [chunk : Nat, seq : Nat, stored : BOOLEAN]
LogPage == [at : {"closed", "read", "joining", "open", "deaf"}, shown : {page.shown},
         status : {"QUEUED", "RUNNING", "SUCCESS", "FAILURE"}, late : BOOLEAN]

LogsTypeOK ==
  /\ run \in JobRuns
  /\ written \in Nat /\ next = written
  /\ posts \in SUBSET LogPost
  /\ DOMAIN rows \in SUBSET Nat /\ rows \in [DOMAIN rows -> Nat]
  /\ status \in {"QUEUED", "RUNNING", "SUCCESS", "FAILURE"}
  /\ page \in LogPage
  /\ lost \in BOOLEAN

\* Every chunk has its own place, on its way and in the rows.
ChunksPlaced ==
  /\ \A p \in posts : p.chunk = p.seq /\ p.seq < written /\ (p.stored <=> p.seq \in DOMAIN rows)
  /\ \A p, q \in posts : p.seq = q.seq => p = q
  /\ \A s \in DOMAIN rows : s < written /\ rows[s] = s

\* What was written is stored or on its way.
ChunkArriving(s) == s \in DOMAIN rows \/ \E p \in posts : p.seq = s /\ ~p.stored
RowsWhole == \A s \in 0..(written - 1) : ChunkArriving(s)

LogsInv ==
  /\ LogsTypeOK /\ ChunksPlaced
  /\ ~lost => RowsWhole
  /\ page.late => Lo!Complete /\ page.shown = Lo!InOrder

-----------------------------------------------------------------------------

\* Nothing is written at the start.
LEMMA LogsInit == Lo!Init => LogsInv
<1> SUFFICES ASSUME Lo!Init PROVE LogsInv
  OBVIOUS
<1>1. DOMAIN rows = {} /\ rows \in [DOMAIN rows -> Nat]
  BY DEF Lo!Init
<1>2. page \in LogPage /\ ~page.late
  BY DEF Lo!Init, Lo!Closed, LogPage
<1>3. /\ run = "ready" /\ written = 0 /\ next = 0 /\ posts = {} /\ status = "QUEUED" /\ lost = FALSE
  BY DEF Lo!Init
<1>4. LogsTypeOK
  BY <1>1, <1>2, <1>3 DEF LogsTypeOK, JobRuns
<1>5. ChunksPlaced
  BY <1>1, <1>3 DEF ChunksPlaced
<1>6. 0..(0 - 1) = {}
  OBVIOUS
<1>7. RowsWhole
  BY <1>3, <1>6 DEF RowsWhole
<1> QED BY <1>2, <1>4, <1>5, <1>7 DEF LogsInv

\* The log that is whole.
LEMMA CompleteRows ==
  ASSUME LogsTypeOK, ChunksPlaced, ~lost => RowsWhole, Lo!Complete
  PROVE  rows = [s \in 0..(written - 1) |-> s]
<1>1. DOMAIN rows = 0..(written - 1)
  <2>1. \A s \in 0..(written - 1) : s \in DOMAIN rows
    BY DEF Lo!Complete, RowsWhole, ChunkArriving
  <2>2. \A s \in DOMAIN rows : s \in Nat /\ s < written
    BY DEF ChunksPlaced, LogsTypeOK
  <2>3. written \in Nat
    BY DEF LogsTypeOK
  <2>4. \A s : s \in DOMAIN rows <=> s \in 0..(written - 1)
    BY <2>1, <2>2, <2>3
  <2> QED BY <2>4
<1>2. \A s \in 0..(written - 1) : rows[s] = s
  BY <1>1 DEF ChunksPlaced
<1>3. rows = [s \in DOMAIN rows |-> rows[s]]
  BY DEF LogsTypeOK
<1> QED BY <1>1, <1>2, <1>3

\* And the rows in their order.
LEMMA InOrderRead ==
  ASSUME written \in Nat, rows = [s \in 0..(written - 1) |-> s]
  PROVE  [i \in 1..Lo!Cardinality(DOMAIN rows) |-> rows[Lo!RowAt(i)]] = Lo!InOrder
<1>1. DOMAIN rows = 0..(written - 1) /\ \A s \in 0..(written - 1) : rows[s] = s
  OBVIOUS
<1>2. Lo!Cardinality(DOMAIN rows) = written
  <2>1. CASE written = 0
    <3>1. DOMAIN rows = {}
      BY <1>1, <2>1
    <3> QED BY <2>1, <3>1, FS_EmptySet, LogsCardinality
  <2>2. CASE written # 0
    BY <1>1, <2>2, FS_Interval, LogsCardinality
  <2> QED BY <2>1, <2>2
<1>3. ASSUME NEW s \in 0..(written - 1) PROVE Lo!Cardinality({k \in DOMAIN rows : k < s}) = s
  <2>1. CASE s = 0
    <3>1. {k \in DOMAIN rows : k < s} = {}
      BY <1>1, <2>1
    <3> QED BY <2>1, <3>1, FS_EmptySet, LogsCardinality
  <2>2. CASE s # 0
    <3>1. {k \in DOMAIN rows : k < s} = 0..(s - 1)
      BY <1>1
    <3>2. Lo!Cardinality(0..(s - 1)) = s
      BY <2>2, FS_Interval, LogsCardinality
    <3> QED BY <3>1, <3>2
  <2> QED BY <2>1, <2>2
<1>4. ASSUME NEW i \in 1..written PROVE Lo!RowAt(i) = i - 1
  <2>1. i - 1 \in DOMAIN rows /\ Lo!Cardinality({k \in DOMAIN rows : k < i - 1}) = i - 1
    BY <1>1, <1>3
  <2>2. \A s \in DOMAIN rows : Lo!Cardinality({k \in DOMAIN rows : k < s}) = i - 1 => s = i - 1
    BY <1>1, <1>3
  <2> QED BY <2>1, <2>2 DEF Lo!RowAt
<1>5. \A i \in 1..written : rows[Lo!RowAt(i)] = i - 1
  BY <1>1, <1>4
<1> QED BY <1>2, <1>5 DEF Lo!InOrder

\* One more chunk is on its way.
LEMMA ChunkAppended ==
  ASSUME LogsTypeOK, ChunksPlaced, Lo!AppendLog, rows' = rows
  PROVE  /\ written' \in Nat /\ next' = written' /\ posts' \in SUBSET LogPost
         /\ ChunksPlaced' /\ (RowsWhole => RowsWhole')
<1> DEFINE new == [chunk |-> written, seq |-> next, stored |-> FALSE]
<1>1. written' = written + 1 /\ next' = written + 1 /\ posts' = posts \cup {new}
  BY DEF Lo!AppendLog, LogsTypeOK
<1>2. new \in LogPost /\ new.chunk = written /\ new.seq = written /\ ~new.stored
  BY DEF LogsTypeOK, LogPost
<1> HIDE DEF new
<1>3. written \in Nat /\ next = written /\ posts \in SUBSET LogPost /\ DOMAIN rows \in SUBSET Nat
  BY DEF LogsTypeOK
<1>4. \A p \in posts : p.seq \in Nat
  BY <1>3 DEF LogPost
<1>5. \A s \in DOMAIN rows : s \in Nat /\ s < written
  BY <1>3 DEF ChunksPlaced
<1>6. ChunksPlaced'
  <2>1. \A p \in posts' : p.chunk = p.seq /\ p.seq < written' /\ (p.stored <=> p.seq \in DOMAIN rows')
    BY <1>1, <1>2, <1>3, <1>4, <1>5 DEF ChunksPlaced
  <2>2. \A p, q \in posts' : p.seq = q.seq => p = q
    BY <1>1, <1>2, <1>3, <1>4 DEF ChunksPlaced
  <2>3. \A s \in DOMAIN rows' : s < written' /\ rows'[s] = s
    BY <1>1, <1>3, <1>5 DEF ChunksPlaced
  <2> QED BY <2>1, <2>2, <2>3 DEF ChunksPlaced
<1>7. ASSUME RowsWhole, NEW s \in 0..(written' - 1) PROVE ChunkArriving(s)'
  <2>1. CASE s = written
    BY <1>1, <1>2, <2>1 DEF ChunkArriving
  <2>2. CASE s # written
    <3>1. ChunkArriving(s)
      BY <1>1, <1>3, <1>7, <2>2 DEF RowsWhole
    <3> QED BY <1>1, <3>1 DEF ChunkArriving
  <2> QED BY <2>1, <2>2
<1> QED BY <1>1, <1>2, <1>3, <1>6, <1>7 DEF RowsWhole

\* The page only changes where it is; a page that has read the log late keeps it.
LEMMA PageSame ==
  ASSUME page \in LogPage, NEW c,
         \/ Lo!ShowChunk(c)
         \/ c \in {"RUNNING", "SUCCESS", "FAILURE"} /\ Lo!ShowStatus(c)
         \/ page' = page
  PROVE  page' \in LogPage' /\ page'.late = page.late
  BY DEF LogPage, Lo!ShowChunk, Lo!ShowStatus

\* No post is under way and none can come: the log stays as it is.
LEMMA LateStays ==
  ASSUME page.late => Lo!Complete /\ page.shown = Lo!InOrder,
         page'.late => page.late /\ page'.shown = page.shown, UNCHANGED <<run, written, posts, lost>>
  PROVE  page'.late => Lo!Complete' /\ page'.shown = Lo!InOrder'
  BY DEF Lo!Complete, Lo!InOrder

\* Every step of the runner that writes or changes the status.
LEMMA RunnerStep ==
  ASSUME LogsInv, Lo!StartJob \/ Lo!Output \/ Lo!EndJob
  PROVE  LogsInv'
<1>1. run # "over" /\ ~page.late
  BY DEF LogsInv, Lo!Complete, Lo!StartJob, Lo!Output, Lo!EndJob
<1>2. rows' = rows /\ lost' = lost /\ run' \in JobRuns
  BY DEF Lo!StartJob, Lo!Output, Lo!EndJob, JobRuns, LogsInv, LogsTypeOK
<1>3. \/ Lo!AppendLog
      \/ UNCHANGED <<posts, written, next>>
  BY DEF Lo!StartJob, Lo!Output, Lo!EndJob
<1>4. \/ status' \in {"RUNNING", "SUCCESS", "FAILURE"} /\ Lo!ShowStatus(status')
      \/ status' = status /\ page' = page
  BY DEF Lo!StartJob, Lo!Output, Lo!EndJob
<1>5. status' \in {"QUEUED", "RUNNING", "SUCCESS", "FAILURE"}
  BY <1>4 DEF LogsInv, LogsTypeOK
<1>6. page' \in LogPage' /\ page'.late = page.late
  BY <1>4, PageSame DEF LogsInv, LogsTypeOK
<1>7. /\ written' \in Nat /\ next' = written' /\ posts' \in SUBSET LogPost
      /\ ChunksPlaced' /\ (RowsWhole => RowsWhole')
  <2>1. CASE Lo!AppendLog
    BY <1>2, <2>1, ChunkAppended DEF LogsInv
  <2>2. CASE UNCHANGED <<posts, written, next>>
    BY <1>2, <2>2 DEF LogsInv, LogsTypeOK, ChunksPlaced, RowsWhole, ChunkArriving
  <2> QED BY <1>3, <2>1, <2>2
<1>8. LogsTypeOK'
  BY <1>2, <1>5, <1>6, <1>7 DEF LogsInv, LogsTypeOK
<1> QED BY <1>1, <1>2, <1>6, <1>7, <1>8 DEF LogsInv

\* Every step of a post.
LEMMA PostStep ==
  ASSUME LogsInv, NEW p \in posts, Lo!PostFails(p) \/ Lo!StoreChunk(p) \/ Lo!PublishChunk(p)
  PROVE  LogsInv'
<1>1. ~page.late
  BY DEF LogsInv, Lo!Complete
<1>2. UNCHANGED <<written, next, status>> /\ run' \in JobRuns
  BY DEF Lo!PostFails, Lo!StoreChunk, Lo!PublishChunk, Lo!Rejects, JobRuns, LogsInv, LogsTypeOK
<1>3. page' \in LogPage' /\ page'.late = page.late
  <2>1. Lo!ShowChunk(p.chunk) \/ page' = page
    BY DEF Lo!PostFails, Lo!StoreChunk, Lo!PublishChunk
  <2> QED BY <2>1, PageSame DEF LogsInv, LogsTypeOK
<1>4. posts \in SUBSET LogPost /\ p \in LogPost /\ DOMAIN rows \in SUBSET Nat /\ rows \in [DOMAIN rows -> Nat] /\ lost \in BOOLEAN
  BY DEF LogsInv, LogsTypeOK
<1>5. ChunksPlaced /\ (~lost => RowsWhole)
  BY DEF LogsInv
<1> DEFINE kept == [p EXCEPT !.stored = TRUE]
<1>6. kept \in LogPost /\ kept.seq = p.seq /\ kept.chunk = p.chunk /\ kept.stored
  BY <1>4 DEF LogPost
<1>7. \/ /\ rows' = rows /\ posts' \subseteq posts \ {p}
         /\ lost' = TRUE \/ (lost' = lost /\ p.seq \in DOMAIN rows /\ posts' = posts \ {p})
      \/ /\ p.seq \notin DOMAIN rows /\ ~p.stored /\ lost' = lost
         /\ rows' = [s \in DOMAIN rows \cup {p.seq} |-> IF s = p.seq THEN p.chunk ELSE rows[s]]
         /\ posts' = (posts \ {p}) \cup {kept}
  <2>1. CASE Lo!PostFails(p) \/ (Lo!PublishChunk(p) /\ Lo!Rejects(p))
    <3>1. rows' = rows /\ (p.stored => p.seq \in DOMAIN rows)
      BY <1>5, <2>1 DEF Lo!PostFails, Lo!PublishChunk, ChunksPlaced
    <3>2. Lo!Rejects(p)
      BY <2>1 DEF Lo!PostFails
    <3> QED BY <1>4, <3>1, <3>2 DEF Lo!Rejects
  <2>2. CASE Lo!PublishChunk(p) /\ ~Lo!Rejects(p)
    BY <1>5, <2>2 DEF Lo!PublishChunk, ChunksPlaced
  <2>3. CASE Lo!StoreChunk(p)
    BY <1>5, <2>3 DEF Lo!StoreChunk, ChunksPlaced
  <2> QED BY <2>1, <2>2, <2>3
<1> HIDE DEF kept
<1>8. CASE /\ rows' = rows /\ posts' \subseteq posts \ {p}
           /\ lost' = TRUE \/ (lost' = lost /\ p.seq \in DOMAIN rows /\ posts' = posts \ {p})
  <2>1. LogsTypeOK'
    BY <1>2, <1>3, <1>4, <1>8 DEF LogsInv, LogsTypeOK
  <2>2. ChunksPlaced'
    BY <1>2, <1>5, <1>8 DEF ChunksPlaced
  <2>3. ASSUME ~lost' PROVE RowsWhole'
    <3>1. RowsWhole /\ p.seq \in DOMAIN rows /\ posts' = posts \ {p}
      BY <1>5, <1>8, <2>3
    <3>2. \A s \in 0..(written - 1) : ChunkArriving(s)'
      BY <1>8, <3>1 DEF RowsWhole, ChunkArriving
    <3> QED BY <1>2, <3>2 DEF RowsWhole
  <2> QED BY <1>1, <1>3, <2>1, <2>2, <2>3 DEF LogsInv
<1>9. CASE /\ p.seq \notin DOMAIN rows /\ ~p.stored /\ lost' = lost
           /\ rows' = [s \in DOMAIN rows \cup {p.seq} |-> IF s = p.seq THEN p.chunk ELSE rows[s]]
           /\ posts' = (posts \ {p}) \cup {kept}
  <2>1. /\ DOMAIN rows' = DOMAIN rows \cup {p.seq}
        /\ \A s \in DOMAIN rows : rows'[s] = rows[s]
        /\ rows'[p.seq] = p.chunk
    BY <1>9
  <2>2. p.seq \in Nat /\ p.chunk \in Nat /\ p.chunk = p.seq /\ p.seq < written
    BY <1>4, <1>5 DEF LogPost, ChunksPlaced
  <2>3. rows' \in [DOMAIN rows' -> Nat] /\ DOMAIN rows' \in SUBSET Nat
    BY <1>4, <1>9, <2>1, <2>2
  <2>4. posts' \in SUBSET LogPost
    BY <1>4, <1>6, <1>9
  <2>5. LogsTypeOK'
    BY <1>2, <1>3, <1>9, <2>3, <2>4 DEF LogsInv, LogsTypeOK
  <2>6. \A q \in posts \ {p} : q.seq # p.seq
    BY <1>5 DEF ChunksPlaced
  <2>7. ChunksPlaced'
    <3>1. \A q \in posts' : q.chunk = q.seq /\ q.seq < written /\ (q.stored <=> q.seq \in DOMAIN rows')
      BY <1>5, <1>6, <1>9, <2>1, <2>2, <2>6 DEF ChunksPlaced
    <3>2. \A q, r \in posts' : q.seq = r.seq => q = r
      BY <1>5, <1>6, <1>9, <2>6 DEF ChunksPlaced
    <3>3. \A s \in DOMAIN rows' : s < written /\ rows'[s] = s
      BY <1>5, <2>1, <2>2 DEF ChunksPlaced
    <3> QED BY <1>2, <3>1, <3>2, <3>3 DEF ChunksPlaced
  <2>8. ASSUME ~lost' PROVE RowsWhole'
    <3>1. RowsWhole
      BY <1>5, <1>9, <2>8
    <3>2. \A s \in 0..(written - 1) : ChunkArriving(s)'
      BY <1>9, <2>1, <3>1 DEF RowsWhole, ChunkArriving
    <3> QED BY <1>2, <3>2 DEF RowsWhole
  <2> QED BY <1>1, <1>3, <2>5, <2>7, <2>8 DEF LogsInv
<1> QED BY <1>7, <1>8, <1>9

\* Every step of the page.
LEMMA PageStep ==
  ASSUME LogsInv, Lo!OpenPage \/ Lo!GetJobLogs \/ Lo!Subscribe \/ Lo!Disconnect \/ Lo!ClosePage
  PROVE  LogsInv'
<1>1. UNCHANGED <<run, next, written, posts, rows, status, lost>>
  BY DEF Lo!OpenPage, Lo!GetJobLogs, Lo!Subscribe, Lo!Disconnect, Lo!ClosePage
<1>2. Lo!Complete \in BOOLEAN /\ status \in {"QUEUED", "RUNNING", "SUCCESS", "FAILURE"} /\ page \in LogPage
  BY DEF Lo!Complete, LogsInv, LogsTypeOK
<1>3. /\ page' \in LogPage'
      /\ Lo!GetJobLogs \/ (page'.late => page.late /\ page'.shown = page.shown)
  <2>1. CASE Lo!OpenPage
    <3>1. page' = [at |-> "read", shown |-> <<>>, status |-> status, late |-> FALSE]
      BY <2>1 DEF Lo!OpenPage, Lo!Closed
    <3> QED BY <1>2, <3>1 DEF LogPage
  <2>2. CASE Lo!GetJobLogs
    <3> DEFINE list == [i \in 1..Lo!Cardinality(DOMAIN rows) |-> rows[Lo!RowAt(i)]]
    <3>1. page' = [page EXCEPT !.at = "joining", !.late = Lo!Complete, !.shown = list]
      BY <2>2 DEF Lo!GetJobLogs
    <3> HIDE DEF list
    <3>2. page' = [at |-> "joining", shown |-> list, status |-> page.status, late |-> Lo!Complete]
      BY <1>2, <3>1 DEF LogPage
    <3>3. page.status \in {"QUEUED", "RUNNING", "SUCCESS", "FAILURE"}
      BY <1>2 DEF LogPage
    <3> QED BY <1>2, <2>2, <3>2, <3>3 DEF LogPage
  <2>3. CASE Lo!Subscribe \/ Lo!Disconnect
    <3>1. \E at \in {"open", "deaf"} : page' = [page EXCEPT !.at = at]
      BY <2>3 DEF Lo!Subscribe, Lo!Disconnect
    <3> QED BY <1>2, <3>1 DEF LogPage
  <2>4. CASE Lo!ClosePage
    <3>1. page' = [at |-> "closed", shown |-> <<>>, status |-> "QUEUED", late |-> FALSE]
      BY <2>4 DEF Lo!ClosePage, Lo!Closed
    <3> QED BY <3>1 DEF LogPage
  <2> QED BY <2>1, <2>2, <2>3, <2>4
<1>4. ChunksPlaced' /\ (~lost' => RowsWhole')
  BY <1>1 DEF LogsInv, ChunksPlaced, RowsWhole, ChunkArriving
<1>5. LogsTypeOK'
  BY <1>1, <1>3 DEF LogsInv, LogsTypeOK
<1>6. page'.late => Lo!Complete' /\ page'.shown = Lo!InOrder'
  <2>1. CASE Lo!GetJobLogs
    <3>1. page'.late = Lo!Complete /\ page'.shown = [i \in 1..Lo!Cardinality(DOMAIN rows) |-> rows[Lo!RowAt(i)]]
      BY <1>2, <2>1 DEF Lo!GetJobLogs, LogPage
    <3>2. Lo!Complete => page'.shown = Lo!InOrder
      BY <3>1, CompleteRows, InOrderRead DEF LogsInv, LogsTypeOK
    <3> QED BY <1>1, <3>1, <3>2 DEF Lo!Complete, Lo!InOrder
  <2> QED BY <1>1, <1>3, <2>1, LateStays DEF LogsInv
<1> QED BY <1>4, <1>5, <1>6 DEF LogsInv

\* Every step keeps the invariant.
LEMMA LogsStep == LogsInv /\ [Lo!Next]_(Lo!vars) => LogsInv'
<1> SUFFICES ASSUME LogsInv, [Lo!Next]_(Lo!vars) PROVE LogsInv'
  OBVIOUS
<1>1. CASE UNCHANGED Lo!vars
  BY <1>1 DEF Lo!vars, LogsInv, LogsTypeOK, LogPage, ChunksPlaced, RowsWhole, ChunkArriving, Lo!Complete, Lo!InOrder
<1>2. CASE Lo!Execute \/ Lo!NextStep \/ Lo!LastProcess
  <2>1. UNCHANGED <<next, written, posts, rows, status, page, lost>> /\ run' \in JobRuns /\ run # "over"
    BY <1>2 DEF Lo!Execute, Lo!NextStep, Lo!LastProcess, JobRuns, LogsInv, LogsTypeOK
  <2>2. ~page.late
    BY <2>1 DEF LogsInv, Lo!Complete
  <2> QED BY <2>1, <2>2 DEF LogsInv, LogsTypeOK, LogPage, ChunksPlaced, RowsWhole, ChunkArriving
<1> QED BY <1>1, <1>2, RunnerStep, PostStep, PageStep DEF Lo!Next

\* The invariant of the logs.
LEMMA LogsInductive == Lo!Spec => []LogsInv
  BY LogsInit, LogsStep, PTL DEF Lo!Spec

\* However the posts overtake each other and are answered, and for any number of chunks: unless one
\* was lost on its way, what is stored in the end is what the job wrote, each chunk at its place, and
\* a page opened then shows just that.
THEOREM LogsWhole == Lo!Spec => []Lo!LogWhole
<1>1. LogsInv => Lo!LogWhole
  BY CompleteRows DEF LogsInv, Lo!LogWhole
<1> QED BY <1>1, LogsInductive, PTL

-----------------------------------------------------------------------------
(***************************************************************************)
(* The panels, whatever the component.  What a panel has asked for last is *)
(* shown, or comes with the newest load, or that load is still to be sent  *)
(* (Coming); a list edited in place has one call for what it adds          *)
(* (EditOK); and a panel that sends the whole list waits for the answer,   *)
(* so its one call carries all presses (PressInTurn, PressOK).             *)
(***************************************************************************)

\* Without a filter there is one query.
QueriesAsked == Queries \cup {CHOOSE q \in Queries : TRUE}
LoadAnswer == [n : 1..sent, query : QueriesAsked, read : BOOLEAN, data : SUBSET Items, ends : BOOLEAN]
Press == [n : 1..clicks, item : Items, wanted : SUBSET Items, done : BOOLEAN]

PanelsTypeOK ==
  /\ panel \in Pa!Components
  /\ server \in SUBSET Items /\ shown \in SUBSET Items /\ meant \in SUBSET Items /\ mine \in SUBSET Items
  /\ query \in QueriesAsked /\ answers \in QueriesAsked
  /\ sent \in Nat /\ clicks \in Nat /\ faults \in Nat
  /\ loads \in SUBSET LoadAnswer /\ calls \in SUBSET Press
  /\ busy \in BOOLEAN /\ hasty \in BOOLEAN /\ crossed \in BOOLEAN

\* The load that was sent last, while it is on its way.
Newest(l) == l \in loads /\ l.n = sent
NewestArrived == \A l \in loads : l.n # sent

LoadsOK ==
  /\ \A l, k \in loads : l.n = k.n => l = k
  /\ \A l \in loads : Newest(l) => l.query = query
  /\ NewestArrived /\ ~crossed => answers = query

SearchOK == panel = Pa!GlobalSearch => ~crossed /\ calls = {} /\ \A l \in loads : l.n = sent

Alike(i, S) == i \in S <=> i \in server

\* What the panel has asked for last is shown, or comes with the newest load, or that
\* load is still to be sent.
Coming(i) ==
  \/ \E c \in calls : c.done /\ (panel.body = "item" => c.item = i)
  \/ \E l \in loads : Newest(l) /\ (~l.read \/ Alike(i, l.data))
  \/ NewestArrived /\ Alike(i, shown)

\* A panel that sends the whole list waits for the answer.
WholeList == panel.body \in {"all", "form"}
PressInTurn ==
  WholeList => /\ \A c, d \in calls : c = d
               /\ calls # {} => busy
               /\ \A l \in loads : ~l.ends

FormOK ==
  panel.body = "form" /\ ~crossed =>
    /\ \A c \in calls : c.wanted = shown
    /\ \A i \in mine : Alike(i, shown) \/ \E c \in calls : ~c.done

\* A list that is edited in place has one call for what it adds.
PressAdds(c) == c.item \in c.wanted
EditedInPlace == panel.after = "edit" /\ panel.body = "item"
EditOK ==
  EditedInPlace => /\ loads = {} /\ sent = 0
                   /\ \A c, d \in calls : c.item = d.item /\ PressAdds(c) => c = d
                   /\ \A c \in calls : PressAdds(c) => c.item \notin shown
                   /\ \A c \in calls : c.done /\ c.item \in mine => (PressAdds(c) <=> c.item \in server)
                   /\ \A i \in mine : Alike(i, shown) \/ \E c \in calls : c.done /\ c.item = i

PressOK ==
  WholeList /\ ~hasty =>
    \/ \E c \in calls : ~c.done /\ c.wanted = meant
    \/ (\A c \in calls : c.done) /\ server = meant

ListOK == panel.after # "edit" /\ ~crossed => \A i \in mine : Coming(i)

PanelSound == LoadsOK /\ SearchOK /\ PressInTurn /\ FormOK /\ EditOK /\ PressOK /\ ListOK

PanelsInv == PanelsTypeOK /\ (faults = 0 => PanelSound)


-----------------------------------------------------------------------------

\* What holds of every component.
ComponentSuits(p) ==
  /\ p.body \in {"item", "all", "form", "none"} /\ p.after \in {"reload", "page", "edit"}
  /\ p.body = "all" => p.guarded /\ p.after = "page"
  /\ p.body = "form" => p.guarded /\ p.after = "edit"
  /\ p.after = "edit" => p.query = "none" /\ ~p.polls /\ (p.body = "form" \/ (p.body = "item" /\ p.only = "new" /\ ~p.mounts))
  /\ p.query = "abort" => p = Pa!GlobalSearch
  /\ p.empty => p.body = "item"

\* The search of the header only loads.
LEMMA GlobalSearchIs == Pa!GlobalSearch.body = "none" /\ Pa!GlobalSearch.query = "abort" /\ ~Pa!GlobalSearch.polls
  BY DEF Pa!GlobalSearch, Pa!Component

\* Every component is of one of these kinds.
LEMMA ComponentsSuit == \A p \in Pa!Components : ComponentSuits(p)
<1> USE DEF ComponentSuits, Pa!Component
<1>1. ComponentSuits(Pa!WebhooksPanel) /\ ComponentSuits(Pa!BackupsPanel) /\ ComponentSuits(Pa!AdminUsersPanel) /\ ComponentSuits(Pa!AdminAuditLogPanel)
  BY DEF Pa!WebhooksPanel, Pa!BackupsPanel, Pa!AdminUsersPanel, Pa!AdminAuditLogPanel
<1>2. ComponentSuits(Pa!NotificationsBell) /\ ComponentSuits(Pa!TeamDetailPanel) /\ ComponentSuits(Pa!AccessTokensPanel)
  BY DEF Pa!NotificationsBell, Pa!TeamDetailPanel, Pa!AccessTokensPanel
<1>3. ComponentSuits(Pa!GlobalSearch)
  BY DEF Pa!GlobalSearch
<1> USE DEF Pa!PagePanel
<1>4. ComponentSuits(Pa!DeleteRefButton) /\ ComponentSuits(Pa!PagePanel) /\ ComponentSuits(Pa!MemberManager) /\ ComponentSuits(Pa!IssueDetailPanel)
  BY DEF Pa!DeleteRefButton, Pa!MemberManager, Pa!IssueDetailPanel
<1>5. ComponentSuits(Pa!PolicyForm) /\ ComponentSuits(Pa!AdminBackupsPage)
  BY DEF Pa!PolicyForm, Pa!AdminBackupsPage
<1>6. ComponentSuits(Pa!CreateRepositoryForm) /\ ComponentSuits(Pa!TeamsListPanel)
  BY DEF Pa!CreateRepositoryForm, Pa!TeamsListPanel
<1>7. /\ Pa!RepositoryListLoader = Pa!GlobalSearch
      /\ Pa!PullRequestDetailPanel = Pa!PagePanel /\ Pa!RefManager = Pa!PagePanel
      /\ Pa!PathPermissionManager = Pa!MemberManager /\ Pa!RepoTeamManager = Pa!MemberManager
      /\ Pa!ProfileSettingsForm = Pa!PolicyForm
      /\ Pa!CreatePullRequestForm = Pa!CreateRepositoryForm /\ Pa!IssueNewForm = Pa!CreateRepositoryForm
      /\ Pa!PipelinesPanel = Pa!CreateRepositoryForm /\ Pa!RepoDangerZone = Pa!CreateRepositoryForm
  BY DEF Pa!RepositoryListLoader, Pa!PullRequestDetailPanel, Pa!RefManager, Pa!PathPermissionManager, Pa!MemberManager, Pa!RepoTeamManager,
         Pa!ProfileSettingsForm, Pa!CreatePullRequestForm, Pa!IssueNewForm, Pa!PipelinesPanel, Pa!RepoDangerZone
<1> HIDE DEF ComponentSuits, Pa!Component, Pa!PagePanel
<1> QED BY <1>1, <1>2, <1>3, <1>4, <1>5, <1>6, <1>7 DEF Pa!Components

\* More loads and presses have been numbered.
LEMMA NumbersGrow ==
  ASSUME PanelsTypeOK, sent' \in Nat, sent <= sent', clicks' \in Nat, clicks <= clicks'
  PROVE  loads \in SUBSET LoadAnswer' /\ calls \in SUBSET Press'
<1>1. 1..sent \in SUBSET (1..sent') /\ 1..clicks \in SUBSET (1..clicks')
  BY DEF PanelsTypeOK
<1>2. LoadAnswer \in SUBSET LoadAnswer' /\ Press \in SUBSET Press'
  BY <1>1 DEF LoadAnswer, Press
<1> QED BY <1>2 DEF PanelsTypeOK

\* One more load.
LEMMA OneMore ==
  ASSUME PanelsTypeOK, NEW q \in QueriesAsked, NEW b \in BOOLEAN, Pa!SendLoad(q, b)
  PROVE  /\ sent' = sent + 1 /\ sent' \in Nat
         /\ \E l : /\ loads' = loads \cup {l}
                   /\ l.n = sent + 1 /\ l.query = q /\ l.read = FALSE /\ l.ends = b
                   /\ l \in LoadAnswer'
<1> DEFINE l == [n |-> sent + 1, query |-> q, read |-> FALSE, data |-> {}, ends |-> b]
<1>1. sent' = sent + 1 /\ sent' \in Nat /\ sent <= sent'
  BY DEF PanelsTypeOK, Pa!SendLoad
<1>2. loads' = loads \cup {l}
  BY <1>1 DEF Pa!SendLoad, Pa!Load
<1>3. l \in LoadAnswer'
  <2>1. sent + 1 \in 1..sent' /\ {} \in SUBSET Items /\ QueriesAsked' = QueriesAsked
    BY <1>1 DEF PanelsTypeOK, QueriesAsked
  <2> QED BY <2>1 DEF LoadAnswer
<1>4. l.n = sent + 1 /\ l.query = q /\ l.read = FALSE /\ l.ends = b
  OBVIOUS
<1> HIDE DEF l
<1> QED BY <1>1, <1>2, <1>3, <1>4

\* One more load keeps the types.
LEMMA LoadSent ==
  ASSUME PanelsTypeOK, NEW q \in QueriesAsked, NEW b \in BOOLEAN, Pa!SendLoad(q, b), clicks' = clicks
  PROVE  sent' = sent + 1 /\ sent' \in Nat /\ loads' \in SUBSET LoadAnswer' /\ calls \in SUBSET Press'
<1>1. sent' = sent + 1 /\ sent' \in Nat
  BY OneMore
<1>2. clicks' \in Nat /\ clicks <= clicks' /\ sent <= sent'
  BY <1>1 DEF PanelsTypeOK
<1>3. loads \in SUBSET LoadAnswer' /\ calls \in SUBSET Press'
  BY <1>1, <1>2, NumbersGrow
<1>4. PICK l : loads' = loads \cup {l} /\ l \in LoadAnswer'
  BY OneMore
<1> QED BY <1>1, <1>3, <1>4

\* What loads and presses are made of.
LEMMA PanelFields ==
  ASSUME PanelsTypeOK
  PROVE  /\ \A l \in loads : l \in LoadAnswer /\ l.n \in 1..sent /\ l.n \in Nat /\ l.query \in QueriesAsked
                             /\ l.read \in BOOLEAN /\ l.data \in SUBSET Items /\ l.ends \in BOOLEAN
         /\ \A c \in calls : c \in Press /\ c.n \in 1..clicks /\ c.item \in Items
                             /\ c.wanted \in SUBSET Items /\ c.done \in BOOLEAN
  BY DEF PanelsTypeOK, LoadAnswer, Press

\* A toggled set of items is one.
LEMMA ToggleType ==
  /\ \A S \in SUBSET Items, i \in Items : Pa!Toggle(S, i) \in SUBSET Items
  BY DEF Pa!Toggle

\* The initial values have their types.
LEMMA PanelsTypeInit == Pa!Init => PanelsTypeOK
<1> SUFFICES ASSUME Pa!Init PROVE PanelsTypeOK
  OBVIOUS
<1>1. server \in SUBSET Items /\ shown \in SUBSET Items /\ meant \in SUBSET Items /\ mine \in SUBSET Items
  <2>1. server \in SUBSET Items /\ meant = server /\ mine = {} /\ (shown = {} \/ shown = server)
    BY DEF Pa!Init
  <2> QED BY <2>1
<1>2. clicks = 0 /\ faults = 0 /\ calls = {} /\ busy = FALSE /\ hasty = FALSE /\ crossed = FALSE /\ panel \in Pa!Components
  BY DEF Pa!Init
<1>3. query \in QueriesAsked /\ answers \in QueriesAsked
  <2>1. answers = query /\ query \in (IF panel.query = "none" THEN {CHOOSE q \in Queries : TRUE} ELSE Queries)
    BY DEF Pa!Init
  <2> QED BY <2>1 DEF QueriesAsked
<1>4. CASE panel.mounts
  <2> DEFINE l == [n |-> 1, query |-> query, read |-> FALSE, data |-> {}, ends |-> FALSE]
  <2>1. loads = {l} /\ sent = Pa!Cardinality(loads)
    BY <1>4 DEF Pa!Init, Pa!Load
  <2>2. sent = 1
    <3> HIDE DEF l
    <3> QED BY <2>1, FS_Singleton, PanelsCardinality
  <2>3. l \in LoadAnswer
    <3>1. 1 \in 1..sent /\ {} \in SUBSET Items
      BY <2>2
    <3> QED BY <1>3, <3>1 DEF LoadAnswer
  <2> HIDE DEF l
  <2>4. loads \in SUBSET LoadAnswer /\ sent \in Nat
    BY <2>1, <2>2, <2>3
  <2> QED BY <1>1, <1>2, <1>3, <2>4 DEF PanelsTypeOK
<1>5. CASE ~panel.mounts
  <2>1. loads = {} /\ sent = 0
    BY <1>5, FS_EmptySet, PanelsCardinality DEF Pa!Init
  <2> QED BY <1>1, <1>2, <1>3, <2>1 DEF PanelsTypeOK
<1> QED BY <1>4, <1>5

\* What is shown at the start is what the API has, or a load is on its way.
LEMMA PanelsInit == Pa!Init => PanelsInv
<1> SUFFICES ASSUME Pa!Init PROVE PanelSound
  BY PanelsTypeInit DEF PanelsInv
<1>1. /\ calls = {} /\ mine = {} /\ meant = server /\ answers = query /\ crossed = FALSE
      /\ panel \in Pa!Components
  BY DEF Pa!Init
<1>2. ComponentSuits(panel)
  BY <1>1, ComponentsSuit
<1>3. \A l, k \in loads : l = k
  BY DEF Pa!Init
<1>4. \A l \in loads : l.query = query /\ ~l.ends /\ l.n = 1
  BY DEF Pa!Init, Pa!Load
<1>5. IF panel.mounts THEN sent = 1 ELSE sent = 0 /\ loads = {}
  BY FS_EmptySet, FS_Singleton, PanelsCardinality DEF Pa!Init
<1>6. loads # {} => sent = 1
  BY <1>5
<1>7. EditOK
  BY <1>1, <1>2, <1>5 DEF EditOK, EditedInPlace, ComponentSuits
<1> QED
  BY <1>1, <1>3, <1>4, <1>6, <1>7
  DEF PanelSound, LoadsOK, SearchOK, PressInTurn, FormOK, PressOK, ListOK

-----------------------------------------------------------------------------

\* Every step keeps the types.
LEMMA PanelsTypeStep == PanelsTypeOK /\ [Pa!Next]_(Pa!vars) => PanelsTypeOK'
<1> SUFFICES ASSUME PanelsTypeOK, [Pa!Next]_(Pa!vars) PROVE PanelsTypeOK'
  OBVIOUS
<1>1. CASE UNCHANGED Pa!vars
  BY <1>1 DEF Pa!vars, PanelsTypeOK, LoadAnswer, Press, QueriesAsked
<1>2. /\ sent \in Nat /\ clicks \in Nat /\ faults \in Nat /\ panel \in Pa!Components
      /\ server \in SUBSET Items /\ shown \in SUBSET Items /\ meant \in SUBSET Items /\ mine \in SUBSET Items
      /\ query \in QueriesAsked /\ answers \in QueriesAsked
      /\ busy \in BOOLEAN /\ hasty \in BOOLEAN /\ crossed \in BOOLEAN
      /\ loads \in SUBSET LoadAnswer /\ calls \in SUBSET Press
  BY DEF PanelsTypeOK
<1>3. ASSUME UNCHANGED <<sent, clicks>> PROVE LoadAnswer' = LoadAnswer /\ Press' = Press
  BY <1>3 DEF LoadAnswer, Press
<1>4. ASSUME NEW l \in loads, Pa!ReadLoad(l) PROVE PanelsTypeOK'
  <2> DEFINE k == [l EXCEPT !.read = TRUE, !.data = server]
  <2>1. k \in LoadAnswer
    <3>1. l \in LoadAnswer /\ server \in SUBSET Items
      BY <1>2
    <3> QED BY <3>1 DEF LoadAnswer
  <2>2. loads' = (loads \ {l}) \cup {k} /\ LoadAnswer' = LoadAnswer /\ Press' = Press
    BY <1>3, <1>4 DEF Pa!ReadLoad
  <2> HIDE DEF k
  <2>3. loads' \in SUBSET LoadAnswer'
    BY <1>2, <2>1, <2>2
  <2> QED BY <1>2, <1>4, <2>2, <2>3 DEF Pa!ReadLoad, PanelsTypeOK
<1>5. ASSUME NEW l \in loads, Pa!LoadAnswered(l) PROVE PanelsTypeOK'
  <2>1. LoadAnswer' = LoadAnswer /\ Press' = Press /\ loads' \in SUBSET LoadAnswer
    BY <1>2, <1>3, <1>5 DEF Pa!LoadAnswered
  <2>2. shown' \in SUBSET Items /\ answers' \in QueriesAsked
    BY <1>5, PanelFields DEF Pa!LoadAnswered
  <2>3. busy' \in BOOLEAN /\ crossed' \in BOOLEAN
    BY <1>5 DEF Pa!LoadAnswered
  <2> QED BY <1>2, <1>5, <2>1, <2>2, <2>3 DEF Pa!LoadAnswered, PanelsTypeOK
<1>6. ASSUME NEW l \in loads, Pa!LoadFails(l) PROVE PanelsTypeOK'
  <2>1. LoadAnswer' = LoadAnswer /\ Press' = Press /\ loads' \in SUBSET LoadAnswer
    BY <1>2, <1>3, <1>6 DEF Pa!LoadFails
  <2>2. shown' \in SUBSET Items /\ busy' \in BOOLEAN /\ faults' \in Nat
    BY <1>2, <1>6 DEF Pa!LoadFails, Pa!Fault
  <2> QED BY <1>2, <1>6, <2>1, <2>2 DEF Pa!LoadFails, PanelsTypeOK
<1>7. ASSUME NEW q \in Queries, Pa!SetQuery(q) PROVE PanelsTypeOK'
  <2>1. clicks' = clicks /\ q \in QueriesAsked /\ sent' = sent + 1
    BY <1>7 DEF Pa!SetQuery, Pa!SendLoad, QueriesAsked
  <2>2. calls \in SUBSET Press'
    BY <1>2, <2>1, NumbersGrow
  <2>3. loads' \in SUBSET LoadAnswer'
    <3>1. CASE Pa!SendLoad(q, FALSE)
      <4>1. FALSE \in BOOLEAN
        OBVIOUS
      <4> QED BY <2>1, <3>1, <4>1, LoadSent
    <3>2. CASE loads' = {Pa!Load(sent', q, FALSE)}
      <4> DEFINE l == [n |-> sent + 1, query |-> q, read |-> FALSE, data |-> {}, ends |-> FALSE]
      <4>1. sent + 1 \in 1..sent' /\ {} \in SUBSET Items /\ q \in QueriesAsked'
        BY <1>2, <2>1 DEF QueriesAsked
      <4>2. l \in LoadAnswer'
        BY <4>1 DEF LoadAnswer
      <4>3. loads' = {l}
        BY <2>1, <3>2 DEF Pa!Load
      <4> HIDE DEF l
      <4> QED BY <4>2, <4>3
    <3> QED BY <1>7, <3>1, <3>2 DEF Pa!SetQuery
  <2> QED BY <1>2, <1>7, <2>1, <2>2, <2>3 DEF Pa!SetQuery, PanelsTypeOK
<1>8. CASE Pa!Poll
  <2>1. clicks' = clicks /\ sent' = sent + 1
    BY <1>8 DEF Pa!Poll, Pa!SendLoad
  <2>2. Pa!SendLoad(query, FALSE) /\ FALSE \in BOOLEAN /\ query \in QueriesAsked
    BY <1>2, <1>8 DEF Pa!Poll
  <2>3. calls \in SUBSET Press' /\ loads' \in SUBSET LoadAnswer'
    BY <2>1, <2>2, LoadSent
  <2> QED BY <1>2, <1>8, <2>1, <2>3 DEF Pa!Poll, PanelsTypeOK
<1>9. ASSUME NEW i \in Items, Pa!Click(i) PROVE PanelsTypeOK'
  <2> DEFINE c == [n |-> clicks + 1, item |-> i, wanted |-> Pa!Toggle(shown, i), done |-> FALSE]
  <2>1. clicks' = clicks + 1 /\ sent' = sent
    BY <1>9 DEF Pa!Click
  <2>2. loads \in SUBSET LoadAnswer' /\ calls \in SUBSET Press'
    BY <1>2, <2>1, NumbersGrow
  <2>3. Pa!Toggle(shown, i) \in SUBSET Items /\ Pa!Toggle(meant, i) \in SUBSET Items /\ clicks + 1 \in 1..clicks'
    BY <1>2, <2>1, ToggleType
  <2>4. c \in Press'
    BY <2>3 DEF Press
  <2>5. calls' = calls \cup {c}
    BY <1>9, <2>1 DEF Pa!Click
  <2> HIDE DEF c
  <2>6. calls' \in SUBSET Press'
    BY <2>2, <2>4, <2>5
  <2>7. hasty' \in BOOLEAN
    BY <1>9 DEF Pa!Click
  <2> QED BY <1>2, <1>9, <2>1, <2>2, <2>3, <2>6, <2>7 DEF Pa!Click, PanelsTypeOK
<1>10. ASSUME NEW c \in calls, Pa!CallReaches(c) PROVE PanelsTypeOK'
  <2> DEFINE d == [c EXCEPT !.done = TRUE]
  <2>1. d \in Press
    BY <1>2 DEF Press
  <2>2. calls' = (calls \ {c}) \cup {d} /\ LoadAnswer' = LoadAnswer /\ Press' = Press
    BY <1>3, <1>10 DEF Pa!CallReaches
  <2> HIDE DEF d
  <2>3. calls' \in SUBSET Press'
    BY <1>2, <2>1, <2>2
  <2>4. server' \in SUBSET Items /\ mine' \in SUBSET Items
    BY <1>2, <1>10, PanelFields DEF Pa!CallReaches
  <2> QED BY <1>2, <1>10, <2>2, <2>3, <2>4 DEF Pa!CallReaches, PanelsTypeOK
<1>11. ASSUME NEW c \in calls, Pa!CallAnswered(c) PROVE PanelsTypeOK'
  <2>1. UNCHANGED <<panel, server, query, answers, clicks, faults, mine, meant, hasty, crossed>> /\ calls' = calls \ {c}
    BY <1>11 DEF Pa!CallAnswered
  <2>2. shown' \in SUBSET Items /\ busy' \in BOOLEAN
    BY <1>2, <1>11, PanelFields DEF Pa!CallAnswered
  <2>3. sent' \in Nat /\ sent <= sent' /\ loads' \in SUBSET LoadAnswer'
    <3>1. CASE \E b \in BOOLEAN : Pa!SendLoad(query, b)
      <4>1. PICK b \in BOOLEAN : Pa!SendLoad(query, b)
        BY <3>1
      <4>2. query \in QueriesAsked /\ sent' = sent + 1
        BY <1>2, <4>1 DEF Pa!SendLoad
      <4> QED BY <1>2, <2>1, <4>1, <4>2, LoadSent
    <3>2. CASE UNCHANGED <<loads, sent>>
      BY <1>2, <1>3, <2>1, <3>2
    <3> QED BY <1>11, <3>1, <3>2 DEF Pa!CallAnswered
  <2>4. calls' \in SUBSET Press'
    BY <1>2, <2>1, <2>3, NumbersGrow
  <2> QED BY <1>2, <2>1, <2>2, <2>3, <2>4 DEF PanelsTypeOK
<1>14. ASSUME NEW c \in calls, Pa!EmptyAnswer(c) PROVE PanelsTypeOK'
  <2>1. LoadAnswer' = LoadAnswer /\ Press' = Press /\ calls' \in SUBSET Press /\ mine' \in SUBSET Items
    BY <1>2, <1>3, <1>14 DEF Pa!EmptyAnswer
  <2> QED BY <1>2, <1>14, <2>1 DEF Pa!EmptyAnswer, PanelsTypeOK
<1>12. ASSUME NEW c \in calls, Pa!CallFails(c) PROVE PanelsTypeOK'
  <2>1. LoadAnswer' = LoadAnswer /\ Press' = Press /\ calls' \in SUBSET Press
    BY <1>2, <1>3, <1>12 DEF Pa!CallFails
  <2>2. faults' \in Nat
    BY <1>2, <1>12 DEF Pa!CallFails, Pa!Fault
  <2> QED BY <1>2, <1>12, <2>1, <2>2 DEF Pa!CallFails, PanelsTypeOK
<1>13. ASSUME NEW i \in Items, Pa!ChangeElsewhere(i) PROVE PanelsTypeOK'
  <2>1. clicks' = clicks + 1 /\ sent' = sent
    BY <1>13 DEF Pa!ChangeElsewhere
  <2>2. loads \in SUBSET LoadAnswer' /\ calls \in SUBSET Press'
    BY <1>2, <2>1, NumbersGrow
  <2>3. server' \in SUBSET Items /\ meant' \in SUBSET Items /\ mine' \in SUBSET Items
    BY <1>2, <1>13, ToggleType DEF Pa!ChangeElsewhere
  <2>4. hasty' \in BOOLEAN
    BY <1>13 DEF Pa!ChangeElsewhere
  <2> QED BY <1>2, <1>13, <2>1, <2>2, <2>3, <2>4 DEF Pa!ChangeElsewhere, PanelsTypeOK
<1> QED BY <1>1, <1>4, <1>5, <1>6, <1>7, <1>8, <1>9, <1>10, <1>11, <1>12, <1>13, <1>14 DEF Pa!Next

-----------------------------------------------------------------------------

\* The component of a behaviour is one of these.
LEMMA PanelSuits == ASSUME PanelsTypeOK PROVE ComponentSuits(panel)
  BY ComponentsSuit DEF PanelsTypeOK

\* What toggling does.
LEMMA Toggled ==
  ASSUME NEW S, NEW i, NEW j
  PROVE  j \in Pa!Toggle(S, i) <=> IF j = i THEN j \notin S ELSE j \in S
  BY DEF Pa!Toggle

\* After one more load everything asked for is on its way.
LEMMA NewLoad ==
  ASSUME PanelsTypeOK, LoadsOK, NEW l, l \in loads', \A k \in loads' : k \in loads \/ k = l,
         sent' = sent + 1, l.n = sent + 1, l.query = query', l.read = FALSE
  PROVE  LoadsOK' /\ \A i : Coming(i)'
<1>1. \A k \in loads : k.n \in Nat /\ k.n <= sent
  BY PanelFields DEF PanelsTypeOK
<1>2. sent \in Nat
  BY DEF PanelsTypeOK
<1>3. \A k \in loads' : k.n = sent' => k = l
  BY <1>1, <1>2
<1>4. Newest(l)' /\ ~NewestArrived'
  BY DEF Newest, NewestArrived
<1>5. \A j, k \in loads' : j.n = k.n => j = k
  BY <1>1, <1>2 DEF LoadsOK
<1>6. LoadsOK'
  BY <1>3, <1>4, <1>5 DEF LoadsOK, Newest
<1>7. \A i : Coming(i)'
  BY <1>4 DEF Coming
<1> QED BY <1>6, <1>7

\* The API reads a list.
LEMMA ReadStep ==
  ASSUME PanelsTypeOK, PanelSound, NEW l \in loads, Pa!ReadLoad(l)
  PROVE  PanelSound'
<1> DEFINE k == [l EXCEPT !.read = TRUE, !.data = server]
<1>1. k.n = l.n /\ k.query = l.query /\ k.read = TRUE /\ k.data = server /\ k.ends = l.ends
  <2>1. l \in LoadAnswer
    BY PanelFields
  <2> QED BY <2>1 DEF LoadAnswer
<1>2. /\ loads' = (loads \ {l}) \cup {k}
      /\ UNCHANGED <<panel, server, shown, query, answers, sent, calls, busy, clicks, faults, mine, meant, hasty, crossed>>
  BY DEF Pa!ReadLoad
<1> HIDE DEF k
<1>3. NewestArrived' <=> NewestArrived
  BY <1>1, <1>2 DEF NewestArrived
<1>4. LoadsOK'
  BY <1>1, <1>2, <1>3 DEF PanelSound, LoadsOK, Newest
<1>5. SearchOK' /\ PressInTurn' /\ FormOK' /\ PressOK'
  BY <1>1, <1>2 DEF PanelSound, SearchOK, PressInTurn, WholeList, FormOK, Alike, PressOK
<1>6. EditOK'
  BY <1>2 DEF PanelSound, EditOK, EditedInPlace
<1>7. ASSUME NEW i, Coming(i) PROVE Coming(i)'
  <2>1. CASE \E m \in loads : Newest(m) /\ (~m.read \/ Alike(i, m.data))
    <3>1. PICK m \in loads : Newest(m) /\ (~m.read \/ Alike(i, m.data))
      BY <2>1
    <3>2. CASE m = l
      BY <1>1, <1>2, <3>1, <3>2 DEF Coming, Newest, Alike
    <3>3. CASE m # l
      BY <1>2, <3>1, <3>3 DEF Coming, Newest, Alike
    <3> QED BY <3>2, <3>3
  <2>2. CASE \E c \in calls : c.done /\ (panel.body = "item" => c.item = i)
    BY <1>2, <2>2 DEF Coming
  <2>3. CASE NewestArrived /\ Alike(i, shown)
    BY <1>2, <1>3, <2>3 DEF Coming, Alike
  <2> QED BY <1>7, <2>1, <2>2, <2>3 DEF Coming
<1>8. ListOK'
  BY <1>2, <1>7 DEF PanelSound, ListOK
<1> QED BY <1>4, <1>5, <1>6, <1>8 DEF PanelSound

\* A list arrives: it is the newest, or crossed, or the newest is on its way.
LEMMA LoadAnswerStep ==
  ASSUME PanelsTypeOK, PanelSound, NEW l \in loads, Pa!LoadAnswered(l)
  PROVE  PanelSound'
<1>1. /\ loads' = loads \ {l} /\ shown' = l.data /\ answers' = l.query /\ busy' = (busy /\ ~l.ends)
      /\ UNCHANGED <<panel, server, query, sent, calls, clicks, faults, mine, meant, hasty>>
      /\ l.read
  BY DEF Pa!LoadAnswered
<1>2. /\ crossed' = (\/ crossed
                     \/ \E n \in 1..sent : n > l.n /\ \A k \in loads : k.n # n
                     \/ panel.body = "form" /\ (calls # {} \/ mine # {}))
  BY DEF Pa!LoadAnswered
<1>3. l.n \in 1..sent /\ sent \in Nat /\ l.n \in Nat
  BY PanelFields DEF PanelsTypeOK
<1>4. CASE l.n = sent
  <2>1. Newest(l) /\ NewestArrived'
    BY <1>1, <1>4 DEF Newest, NewestArrived, PanelSound, LoadsOK
  <2>2. LoadsOK'
    BY <1>1, <2>1 DEF PanelSound, LoadsOK, Newest, NewestArrived
  <2>3. ~crossed' => ~crossed
    BY <1>2
  <2>4. SearchOK'
    <3> SUFFICES ASSUME panel = Pa!GlobalSearch PROVE ~crossed' /\ calls' = {} /\ \A k \in loads' : k.n = sent'
      BY <1>1 DEF SearchOK
    <3>1. panel.body = "none" /\ ~crossed
      BY GlobalSearchIs DEF PanelSound, SearchOK
    <3>2. ~ \E n \in 1..sent : n > l.n
      BY <1>3, <1>4
    <3>3. ~crossed'
      BY <1>2, <3>1, <3>2
    <3> QED BY <1>1, <3>3 DEF PanelSound, SearchOK
  <2>5. ASSUME ~crossed', panel.after # "edit", NEW i \in mine PROVE Coming(i)'
    <3>1. Coming(i)
      BY <2>3, <2>5 DEF PanelSound, ListOK
    <3>2. CASE \E m \in loads : Newest(m) /\ (~m.read \/ Alike(i, m.data))
      <4>1. Alike(i, l.data)
        BY <1>1, <2>1, <3>2 DEF Newest, PanelSound, LoadsOK
      <4> QED BY <1>1, <2>1, <4>1 DEF Coming, Alike
    <3>3. CASE \E c \in calls : c.done /\ (panel.body = "item" => c.item = i)
      BY <1>1, <3>3 DEF Coming
    <3>4. CASE NewestArrived /\ Alike(i, shown)
      BY <2>1, <3>4 DEF NewestArrived, Newest
    <3> QED BY <3>1, <3>2, <3>3, <3>4 DEF Coming
  <2>6. ListOK'
    BY <1>1, <2>5 DEF ListOK
  <2>7. PressInTurn' /\ FormOK' /\ EditOK' /\ PressOK'
    <3>1. PressInTurn'
      BY <1>1 DEF PanelSound, PressInTurn, WholeList
    <3>2. FormOK'
      BY <1>1, <1>2 DEF FormOK
    <3>3. EditOK'
      BY <1>1 DEF PanelSound, EditOK, EditedInPlace
    <3>4. PressOK'
      BY <1>1 DEF PanelSound, PressOK, WholeList
    <3> QED BY <3>1, <3>2, <3>3, <3>4
  <2> QED BY <2>2, <2>4, <2>6, <2>7 DEF PanelSound
<1>5. CASE l.n # sent
  <2>1. NewestArrived => crossed'
    <3> SUFFICES ASSUME NewestArrived PROVE crossed'
      OBVIOUS
    <3>1. sent \in 1..sent /\ sent > l.n
      BY <1>3, <1>5
    <3>2. \A k \in loads : k.n # sent
      BY DEF NewestArrived
    <3> QED BY <1>2, <3>1, <3>2
  <2>2. NewestArrived' <=> NewestArrived
    BY <1>1, <1>5 DEF NewestArrived
  <2>3. LoadsOK'
    BY <1>1, <2>1, <2>2 DEF PanelSound, LoadsOK, Newest
  <2>4. SearchOK'
    BY <1>1, <1>5 DEF PanelSound, SearchOK
  <2>5. ASSUME ~crossed', panel.after # "edit", NEW i \in mine PROVE Coming(i)'
    <3>1. Coming(i) /\ ~NewestArrived
      BY <1>2, <2>1, <2>5 DEF PanelSound, ListOK
    <3>2. CASE \E m \in loads : Newest(m) /\ (~m.read \/ Alike(i, m.data))
      BY <1>1, <1>5, <3>2 DEF Coming, Newest, Alike
    <3>3. CASE \E c \in calls : c.done /\ (panel.body = "item" => c.item = i)
      BY <1>1, <3>3 DEF Coming
    <3> QED BY <3>1, <3>2, <3>3 DEF Coming
  <2>6. ListOK'
    BY <1>1, <2>5 DEF ListOK
  <2>7. PressInTurn' /\ FormOK' /\ EditOK' /\ PressOK'
    <3>1. PressInTurn'
      BY <1>1 DEF PanelSound, PressInTurn, WholeList
    <3>2. FormOK'
      BY <1>1, <1>2 DEF FormOK
    <3>3. EditOK'
      BY <1>1 DEF PanelSound, EditOK, EditedInPlace
    <3>4. PressOK'
      BY <1>1 DEF PanelSound, PressOK, WholeList
    <3> QED BY <3>1, <3>2, <3>3, <3>4
  <2> QED BY <2>3, <2>4, <2>6, <2>7 DEF PanelSound
<1> QED BY <1>4, <1>5

\* The filter, and the timer.
LEMMA QueryStep ==
  ASSUME PanelsTypeOK, PanelSound, Pa!Poll \/ \E q \in Queries : Pa!SetQuery(q)
  PROVE  PanelSound'
<1>1. UNCHANGED <<panel, server, shown, answers, calls, busy, clicks, faults, mine, meant, hasty, crossed>>
  BY DEF Pa!Poll, Pa!SetQuery
<1>2. ComponentSuits(panel)
  BY PanelSuits
<1>3. panel.query # "none" \/ panel.polls
  BY DEF Pa!Poll, Pa!SetQuery
<1>4. panel.after # "edit" /\ panel.body # "form"
  BY <1>2, <1>3 DEF ComponentSuits
<1> DEFINE l == Pa!Load(sent', query', FALSE)
<1>5. /\ sent' = sent + 1
      /\ IF panel.query = "abort" /\ ~Pa!Poll THEN loads' = {l} ELSE loads' = loads \cup {l}
      /\ Pa!Poll => panel.polls
  BY DEF Pa!Poll, Pa!SetQuery, Pa!SendLoad
<1>6. l.n = sent + 1 /\ l.query = query' /\ l.read = FALSE /\ l.ends = FALSE
  BY <1>5 DEF Pa!Load
<1> HIDE DEF l
<1>7. l \in loads' /\ \A k \in loads' : k \in loads \/ k = l
  BY <1>5
<1>8. LoadsOK' /\ \A i : Coming(i)'
  BY <1>5, <1>6, <1>7, NewLoad DEF PanelSound
<1>9. SearchOK'
  <2>1. panel = Pa!GlobalSearch => ~panel.polls /\ panel.query = "abort"
    BY GlobalSearchIs
  <2> QED BY <1>1, <1>5, <1>6, <2>1 DEF PanelSound, SearchOK
<1>10. PressInTurn'
  BY <1>1, <1>6, <1>7 DEF PanelSound, PressInTurn, WholeList
<1>11. FormOK' /\ EditOK' /\ PressOK'
  BY <1>1, <1>4 DEF PanelSound, FormOK, EditOK, EditedInPlace, PressOK, WholeList
<1> QED BY <1>8, <1>9, <1>10, <1>11 DEF PanelSound, ListOK

\* A button is pressed.
LEMMA ClickStep ==
  ASSUME PanelsTypeOK, PanelSound, NEW i \in Items, Pa!Click(i)
  PROVE  PanelSound'
<1> DEFINE c == [n |-> clicks', item |-> i, wanted |-> Pa!Toggle(shown, i), done |-> FALSE]
<1>1. c.item = i /\ c.wanted = Pa!Toggle(shown, i) /\ c.done = FALSE
  OBVIOUS
<1>2. /\ calls' = calls \cup {c}
      /\ UNCHANGED <<panel, server, query, answers, loads, sent, faults, mine, crossed>>
      /\ panel.body # "none" /\ (panel.guarded => ~busy)
      /\ panel.only = "new" => i \in shown \/ \A d \in calls : d.item # i
      /\ shown' = IF panel.body = "form" THEN Pa!Toggle(shown, i) ELSE shown
      /\ busy' = TRUE
      /\ meant' = Pa!Toggle(meant, i)
      /\ hasty' = (hasty \/ shown # server)
  BY DEF Pa!Click
<1> HIDE DEF c
<1>3. ComponentSuits(panel)
  BY PanelSuits
<1>4. LoadsOK'
  BY <1>2 DEF PanelSound, LoadsOK, Newest, NewestArrived
<1>5. SearchOK'
  BY <1>2, GlobalSearchIs DEF SearchOK
<1>6. ASSUME WholeList PROVE calls = {}
  BY <1>2, <1>3, <1>6 DEF PanelSound, PressInTurn, WholeList, ComponentSuits
<1>7. PressInTurn'
  BY <1>2, <1>6 DEF PanelSound, PressInTurn, WholeList
<1>8. FormOK'
  <2> SUFFICES ASSUME panel.body = "form" PROVE (\A d \in calls' : d.wanted = shown') /\ \E d \in calls' : ~d.done
    BY <1>2 DEF FormOK
  <2>1. calls' = {c}
    BY <1>2, <1>6 DEF WholeList
  <2> QED BY <1>1, <1>2, <2>1
<1>9. EditOK'
  <2> SUFFICES ASSUME EditedInPlace PROVE EditOK'
    BY <1>2 DEF EditOK, EditedInPlace
  <2>1. panel.only = "new" /\ shown' = shown
    BY <1>2, <1>3 DEF ComponentSuits, EditedInPlace
  <2>2. EditOK
    BY DEF PanelSound
  <2>3. PressAdds(c) <=> i \notin shown
    BY <1>1, Toggled DEF PressAdds
  <2>4. i \notin shown => \A d \in calls : d.item # i
    BY <1>2, <2>1
  <2>5. \A d, e \in calls' : d.item = e.item /\ PressAdds(d) => d = e
    <3> SUFFICES ASSUME NEW d \in calls', NEW e \in calls', d.item = e.item, PressAdds(d), d # e PROVE FALSE
      OBVIOUS
    <3>1. CASE d \in calls /\ e \in calls
      BY <2>2, <3>1 DEF EditOK
    <3>2. CASE d = c /\ e \in calls
      BY <1>1, <2>3, <2>4, <3>2
    <3>3. CASE d \in calls /\ e = c
      <4>1. d.item \notin shown
        BY <2>2, <3>3 DEF EditOK
      <4> QED BY <1>1, <2>4, <3>3, <4>1
    <3> QED BY <1>2, <3>1, <3>2, <3>3
  <2>6. \A d \in calls' : PressAdds(d) => d.item \notin shown'
    BY <1>1, <1>2, <2>1, <2>2, <2>3 DEF EditOK
  <2>7. \A d \in calls' : d.done /\ d.item \in mine' => (PressAdds(d) <=> d.item \in server')
    BY <1>1, <1>2, <2>2 DEF EditOK
  <2>8. \A j \in mine' : Alike(j, shown)' \/ \E d \in calls' : d.done /\ d.item = j
    BY <1>2, <2>1, <2>2 DEF EditOK, Alike
  <2>9. loads' = {} /\ sent' = 0
    BY <1>2, <2>2 DEF EditOK
  <2> QED BY <2>5, <2>6, <2>7, <2>8, <2>9 DEF EditOK, PressAdds
<1>10. PressOK'
  <2> SUFFICES ASSUME WholeList, ~hasty' PROVE \E d \in calls' : ~d.done /\ d.wanted = meant'
    BY <1>2 DEF PressOK, WholeList
  <2>1. shown = server /\ ~hasty
    BY <1>2
  <2>2. server = meant
    BY <1>6, <2>1 DEF PanelSound, PressOK
  <2> QED BY <1>1, <1>2, <2>1, <2>2
<1>11. ASSUME panel.after # "edit", NEW j, Coming(j) PROVE Coming(j)'
  <2>1. shown' = shown
    BY <1>2, <1>3, <1>11 DEF ComponentSuits
  <2> QED BY <1>2, <1>11, <2>1 DEF Coming, Newest, NewestArrived, Alike
<1>12. ListOK'
  BY <1>2, <1>11 DEF PanelSound, ListOK
<1> QED BY <1>4, <1>5, <1>7, <1>8, <1>9, <1>10, <1>12 DEF PanelSound

\* The API carries a request out.
LEMMA PressReaches ==
  ASSUME PanelsTypeOK, PanelSound, NEW c \in calls, Pa!CallReaches(c)
  PROVE  PanelSound'
<1> DEFINE d == [c EXCEPT !.done = TRUE]
<1>1. d.item = c.item /\ d.wanted = c.wanted /\ d.done = TRUE
  <2>1. c \in Press
    BY PanelFields
  <2> QED BY <2>1 DEF Press
<1>2. /\ calls' = (calls \ {c}) \cup {d} /\ ~c.done
      /\ UNCHANGED <<panel, shown, query, answers, loads, sent, busy, clicks, faults, meant, hasty, crossed>>
      /\ IF WholeList
         THEN server' = c.wanted /\ mine' = Items
         ELSE /\ server' = IF c.item \in c.wanted THEN server \cup {c.item} ELSE server \ {c.item}
              /\ mine' = mine \cup {c.item}
  BY DEF Pa!CallReaches, WholeList
<1> HIDE DEF d
<1>3. ComponentSuits(panel)
  BY PanelSuits
<1>4. LoadsOK'
  BY <1>2 DEF PanelSound, LoadsOK, Newest, NewestArrived
<1>5. SearchOK'
  BY <1>2 DEF PanelSound, SearchOK
<1>6. ASSUME WholeList PROVE calls = {c} /\ calls' = {d}
  BY <1>2, <1>6 DEF PanelSound, PressInTurn
<1>7. PressInTurn'
  <2> SUFFICES ASSUME WholeList PROVE PressInTurn'
    BY <1>2 DEF PressInTurn, WholeList
  <2>1. busy /\ \A l \in loads : ~l.ends
    BY DEF PanelSound, PressInTurn
  <2> QED BY <1>2, <1>6, <2>1 DEF PressInTurn
<1>8. FormOK'
  <2> SUFFICES ASSUME panel.body = "form", ~crossed PROVE FormOK'
    BY <1>2 DEF FormOK
  <2>1. c.wanted = shown
    BY DEF PanelSound, FormOK
  <2>2. calls' = {d} /\ server' = shown'
    BY <1>2, <1>6, <2>1 DEF WholeList
  <2> QED BY <1>1, <1>2, <2>1, <2>2 DEF FormOK, Alike
<1>9. PressOK'
  <2> SUFFICES ASSUME WholeList, ~hasty PROVE (\A e \in calls' : e.done) /\ server' = meant'
    BY <1>2 DEF PressOK, WholeList
  <2>1. calls = {c} /\ calls' = {d}
    BY <1>6
  <2>2. c.wanted = meant
    BY <1>2, <2>1 DEF PanelSound, PressOK
  <2> QED BY <1>1, <1>2, <2>1, <2>2
<1>10. ASSUME ~WholeList, NEW j, j # c.item PROVE j \in server' <=> j \in server
  BY <1>2, <1>10
<1>11. ASSUME ~WholeList PROVE c.item \in server' <=> PressAdds(c)
  BY <1>2, <1>11 DEF PressAdds
<1>12. EditOK'
  <2> SUFFICES ASSUME EditedInPlace PROVE EditOK'
    BY <1>2 DEF EditOK, EditedInPlace
  <2>1. ~WholeList /\ EditOK
    BY DEF EditedInPlace, WholeList, PanelSound
  <2>2. PressAdds(d) <=> PressAdds(c)
    BY <1>1 DEF PressAdds
  <2>3. \A e, f \in calls : e.item = f.item /\ PressAdds(e) => e = f
    BY <2>1 DEF EditOK
  <2>4. \A e, f \in calls' : e.item = f.item /\ PressAdds(e) => e = f
    BY <1>1, <1>2, <2>2, <2>3
  <2>5. \A e \in calls' : PressAdds(e) => e.item \notin shown'
    BY <1>1, <1>2, <2>1, <2>2 DEF EditOK
  <2>6. ASSUME NEW e \in calls', e.done, e.item \in mine' PROVE PressAdds(e) <=> e.item \in server'
    <3>1. CASE e = d
      BY <1>1, <1>11, <2>1, <2>2, <3>1
    <3>2. CASE e # d /\ e.item = c.item
      <4>1. e \in calls /\ e # c
        BY <1>2, <3>2
      <4>2. ~PressAdds(e) /\ ~PressAdds(c)
        BY <2>3, <3>2, <4>1
      <4> QED BY <1>11, <2>1, <3>2, <4>2
    <3>3. CASE e # d /\ e.item # c.item
      <4>1. e \in calls /\ e.item \in mine
        BY <1>2, <2>1, <2>6, <3>3
      <4>2. PressAdds(e) <=> e.item \in server
        BY <2>1, <2>6, <4>1 DEF EditOK
      <4> QED BY <1>10, <2>1, <3>3, <4>2
    <3> QED BY <3>1, <3>2, <3>3
  <2>7. ASSUME NEW j \in mine' PROVE Alike(j, shown)' \/ \E e \in calls' : e.done /\ e.item = j
    <3>1. CASE j = c.item
      BY <1>1, <1>2, <3>1
    <3>2. CASE j # c.item
      <4>1. j \in mine /\ (j \in server' <=> j \in server)
        BY <1>2, <1>10, <2>1, <3>2
      <4>2. Alike(j, shown) \/ \E e \in calls : e.done /\ e.item = j
        BY <2>1, <4>1 DEF EditOK
      <4> QED BY <1>2, <4>1, <4>2 DEF Alike
    <3> QED BY <3>1, <3>2
  <2>8. loads' = {} /\ sent' = 0
    BY <1>2, <2>1 DEF EditOK
  <2> QED BY <2>4, <2>5, <2>6, <2>7, <2>8 DEF EditOK, PressAdds
<1>13. ASSUME ~crossed, panel.after # "edit", NEW j \in mine' PROVE Coming(j)'
  <2>1. CASE WholeList \/ j = c.item
    <3>1. d \in calls' /\ d.done /\ (panel.body = "item" => d.item = j)
      BY <1>1, <1>2, <2>1 DEF WholeList
    <3> QED BY <1>2, <3>1 DEF Coming
  <2>2. CASE ~WholeList /\ j # c.item
    <3>1. j \in mine /\ (j \in server' <=> j \in server)
      BY <1>2, <1>10, <1>13, <2>2
    <3>2. Coming(j)
      BY <1>13, <3>1 DEF PanelSound, ListOK
    <3>3. CASE \E e \in calls : e.done /\ (panel.body = "item" => e.item = j)
      BY <1>2, <3>3 DEF Coming
    <3>4. CASE \E m \in loads : Newest(m) /\ (~m.read \/ Alike(j, m.data))
      BY <1>2, <3>1, <3>4 DEF Coming, Newest, Alike
    <3>5. CASE NewestArrived /\ Alike(j, shown)
      BY <1>2, <3>1, <3>5 DEF Coming, NewestArrived, Alike
    <3> QED BY <3>2, <3>3, <3>4, <3>5 DEF Coming
  <2> QED BY <2>1, <2>2
<1>14. ListOK'
  BY <1>2, <1>13 DEF ListOK
<1> QED BY <1>4, <1>5, <1>7, <1>8, <1>9, <1>12, <1>14 DEF PanelSound

\* The answer to a request.
LEMMA PressAnswered ==
  ASSUME PanelsTypeOK, PanelSound, NEW c \in calls, Pa!CallAnswered(c)
  PROVE  PanelSound'
<1>1. /\ calls' = calls \ {c} /\ c.done
      /\ UNCHANGED <<panel, server, query, answers, clicks, faults, mine, meant, hasty, crossed>>
  BY DEF Pa!CallAnswered
<1>2. ComponentSuits(panel)
  BY PanelSuits
<1>3. panel # Pa!GlobalSearch
  BY DEF PanelSound, SearchOK
<1>4. ASSUME WholeList PROVE calls = {c} /\ calls' = {}
  BY <1>1, <1>4 DEF PanelSound, PressInTurn
<1>5. PressOK'
  <2> SUFFICES ASSUME WholeList, ~hasty PROVE (\A e \in calls' : e.done) /\ server = meant
    BY <1>1 DEF PressOK, WholeList
  <2> QED BY <1>1, <1>4 DEF PanelSound, PressOK
<1>6. CASE panel.after # "edit"
  <2>1. \/ panel.after = "reload" /\ Pa!SendLoad(query, TRUE)
        \/ panel.after = "page" /\ Pa!SendLoad(query, FALSE)
    BY <1>6 DEF Pa!CallAnswered
  <2>2. PICK b \in BOOLEAN : Pa!SendLoad(query, b) /\ (panel.after = "page" => b = FALSE)
    BY <2>1
  <2>3. query \in QueriesAsked
    BY DEF PanelsTypeOK
  <2>4. /\ sent' = sent + 1
        /\ \E l : /\ loads' = loads \cup {l}
                  /\ l.n = sent + 1 /\ l.query = query /\ l.read = FALSE /\ l.ends = b
                  /\ l \in LoadAnswer'
    BY <2>2, <2>3, OneMore
  <2>5. PICK l : /\ loads' = loads \cup {l}
                 /\ l.n = sent + 1 /\ l.query = query /\ l.read = FALSE /\ l.ends = b
    BY <2>4
  <2>6. l \in loads' /\ (\A k \in loads' : k \in loads \/ k = l) /\ l.query = query'
    BY <1>1, <2>5
  <2>7. LoadsOK' /\ \A i : Coming(i)'
    BY <2>4, <2>5, <2>6, NewLoad DEF PanelSound
  <2>8. PressInTurn'
    <3> SUFFICES ASSUME WholeList PROVE calls' = {} /\ \A k \in loads' : ~k.ends
      BY <1>1 DEF PressInTurn, WholeList
    <3>1. panel.after = "page"
      BY <1>2, <1>6 DEF ComponentSuits, WholeList
    <3>2. \A k \in loads : ~k.ends
      BY DEF PanelSound, PressInTurn
    <3> QED BY <1>4, <2>2, <2>5, <3>1, <3>2
  <2>9. SearchOK' /\ FormOK' /\ EditOK'
    BY <1>1, <1>2, <1>3, <1>6 DEF SearchOK, FormOK, EditOK, EditedInPlace, ComponentSuits
  <2> QED BY <1>5, <2>7, <2>8, <2>9 DEF PanelSound, ListOK
<1>7. CASE panel.after = "edit"
  <2>1. /\ UNCHANGED <<loads, sent>>
        /\ shown' = IF panel.body = "form" THEN shown
                    ELSE IF PressAdds(c) THEN shown \cup {c.item} ELSE shown \ {c.item}
    BY <1>7 DEF Pa!CallAnswered, PressAdds
  <2>2. LoadsOK' /\ SearchOK' /\ ListOK'
    BY <1>1, <1>3, <1>7, <2>1 DEF PanelSound, LoadsOK, Newest, NewestArrived, SearchOK, ListOK
  <2>3. PressInTurn'
    <3> SUFFICES ASSUME WholeList PROVE calls' = {} /\ \A k \in loads' : ~k.ends
      BY <1>1 DEF PressInTurn, WholeList
    <3> QED BY <1>4, <2>1 DEF PanelSound, PressInTurn
  <2>4. FormOK'
    <3> SUFFICES ASSUME panel.body = "form", ~crossed PROVE FormOK'
      BY <1>1 DEF FormOK
    <3>1. calls = {c} /\ calls' = {} /\ shown' = shown
      BY <1>4, <2>1 DEF WholeList
    <3>2. \A i \in mine : Alike(i, shown)
      BY <1>1, <3>1 DEF PanelSound, FormOK
    <3> QED BY <1>1, <3>1, <3>2 DEF FormOK, Alike
  <2>5. EditOK'
    <3> SUFFICES ASSUME EditedInPlace PROVE EditOK'
      BY <1>1 DEF EditOK, EditedInPlace
    <3>1. EditOK /\ shown' = IF PressAdds(c) THEN shown \cup {c.item} ELSE shown \ {c.item}
      BY <2>1 DEF EditedInPlace, PanelSound
    <3>2. \A d, e \in calls : d.item = e.item /\ PressAdds(d) => d = e
      BY <3>1 DEF EditOK
    <3>3. ASSUME NEW d \in calls', PressAdds(d) PROVE d.item \notin shown'
      <4>1. d \in calls /\ d # c
        BY <1>1
      <4>2. d.item # c.item /\ d.item \notin shown
        BY <3>1, <3>2, <3>3, <4>1 DEF EditOK
      <4> QED BY <3>1, <4>2
    <3>4. ASSUME NEW i \in mine PROVE Alike(i, shown)' \/ \E d \in calls' : d.done /\ d.item = i
      <4>1. CASE i = c.item
        <5>1. PressAdds(c) <=> i \in server
          BY <1>1, <3>1, <3>4, <4>1 DEF EditOK
        <5> QED BY <1>1, <3>1, <4>1, <5>1 DEF Alike
      <4>2. CASE i # c.item
        <5>1. Alike(i, shown) \/ \E d \in calls : d.done /\ d.item = i
          BY <3>1, <3>4 DEF EditOK
        <5> QED BY <1>1, <3>1, <4>2, <5>1 DEF Alike
      <4> QED BY <4>1, <4>2
    <3>5. \A d \in calls' : d.done /\ d.item \in mine' => (PressAdds(d) <=> d.item \in server')
      BY <1>1, <3>1 DEF EditOK
    <3>6. loads' = {} /\ sent' = 0
      BY <2>1, <3>1 DEF EditOK
    <3>7. \A d, e \in calls' : d.item = e.item /\ PressAdds(d) => d = e
      BY <1>1, <3>2
    <3> QED BY <1>1, <3>3, <3>4, <3>5, <3>6, <3>7 DEF EditOK, PressAdds
  <2> QED BY <1>5, <2>2, <2>3, <2>4, <2>5 DEF PanelSound
<1> QED BY <1>6, <1>7

\* The answer to a removal without a body: the item is no longer this panel's.
LEMMA EmptyAnswered ==
  ASSUME PanelsTypeOK, PanelSound, NEW c \in calls, Pa!EmptyAnswer(c)
  PROVE  PanelSound'
<1>1. /\ calls' = calls \ {c} /\ c.done /\ mine' = mine \ {c.item} /\ panel.empty
      /\ UNCHANGED <<panel, server, shown, query, answers, loads, sent, clicks, faults, meant, hasty, crossed>>
  BY DEF Pa!EmptyAnswer, Pa!AnswersEmpty
<1>2. panel.body = "item" /\ ~WholeList
  BY <1>1, PanelSuits DEF ComponentSuits, WholeList
<1>3. LoadsOK' /\ SearchOK'
  BY <1>1 DEF PanelSound, LoadsOK, Newest, NewestArrived, SearchOK
<1>4. PressInTurn' /\ FormOK' /\ PressOK'
  BY <1>1, <1>2 DEF PressInTurn, WholeList, FormOK, PressOK
<1>5. EditOK'
  <2> SUFFICES ASSUME EditedInPlace PROVE EditOK'
    BY <1>1 DEF EditOK, EditedInPlace
  <2>1. EditOK
    BY DEF PanelSound
  <2>2. ASSUME NEW j \in mine' PROVE Alike(j, shown)' \/ \E d \in calls' : d.done /\ d.item = j
    <3>1. j \in mine /\ j # c.item
      BY <1>1, <2>2
    <3>2. Alike(j, shown) \/ \E d \in calls : d.done /\ d.item = j
      BY <2>1, <3>1 DEF EditOK
    <3> QED BY <1>1, <3>1, <3>2 DEF Alike
  <2>3. \A d \in calls' : d.done /\ d.item \in mine' => (PressAdds(d) <=> d.item \in server')
    BY <1>1, <2>1 DEF EditOK
  <2> QED BY <1>1, <2>1, <2>2, <2>3 DEF EditOK, PressAdds
<1>6. ASSUME ~crossed, panel.after # "edit", NEW j \in mine' PROVE Coming(j)'
  <2>1. Coming(j) /\ j # c.item
    BY <1>1, <1>6 DEF PanelSound, ListOK
  <2>2. CASE \E d \in calls : d.done /\ (panel.body = "item" => d.item = j)
    BY <1>1, <1>2, <2>1, <2>2 DEF Coming
  <2>3. CASE \E l \in loads : Newest(l) /\ (~l.read \/ Alike(j, l.data))
    BY <1>1, <2>3 DEF Coming, Newest, Alike
  <2>4. CASE NewestArrived /\ Alike(j, shown)
    BY <1>1, <2>4 DEF Coming, NewestArrived, Alike
  <2> QED BY <2>1, <2>2, <2>3, <2>4 DEF Coming
<1>7. ListOK'
  BY <1>1, <1>6 DEF ListOK
<1> QED BY <1>3, <1>4, <1>5, <1>7 DEF PanelSound

\* Another browser changes an item: it is no longer this panel's.
LEMMA ElsewhereStep ==
  ASSUME PanelsTypeOK, PanelSound, NEW i \in Items, Pa!ChangeElsewhere(i)
  PROVE  PanelSound'
<1>1. /\ server' = Pa!Toggle(server, i) /\ mine' = mine \ {i} /\ meant' = Pa!Toggle(meant, i)
      /\ hasty' = (hasty \/ \E c \in calls : ~c.done)
      /\ UNCHANGED <<panel, shown, query, answers, loads, sent, calls, busy, faults, crossed>>
  BY DEF Pa!ChangeElsewhere
<1>2. ASSUME NEW j \in mine' PROVE j \in mine /\ (j \in server' <=> j \in server)
  BY <1>1, Toggled
<1>3. LoadsOK' /\ SearchOK' /\ PressInTurn'
  BY <1>1 DEF PanelSound, LoadsOK, Newest, NewestArrived, SearchOK, PressInTurn, WholeList
<1>4. FormOK'
  BY <1>1, <1>2 DEF PanelSound, FormOK, Alike
<1>5. EditOK'
  <2> SUFFICES ASSUME EditedInPlace PROVE EditOK'
    BY <1>1 DEF EditOK, EditedInPlace
  <2>1. EditOK
    BY DEF PanelSound
  <2>2. \A c \in calls : c.done /\ c.item \in mine' => (PressAdds(c) <=> c.item \in server')
    BY <1>2, <2>1 DEF EditOK
  <2>3. \A j \in mine' : Alike(j, shown)' \/ \E c \in calls : c.done /\ c.item = j
    BY <1>1, <1>2, <2>1 DEF EditOK, Alike
  <2> QED BY <1>1, <2>1, <2>2, <2>3 DEF EditOK, PressAdds
<1>6. PressOK'
  <2> SUFFICES ASSUME WholeList, ~hasty' PROVE (\A c \in calls : c.done) /\ server' = meant'
    BY <1>1 DEF PressOK, WholeList
  <2>1. ~hasty /\ \A c \in calls : c.done
    BY <1>1
  <2>2. server = meant
    BY <2>1 DEF PanelSound, PressOK
  <2> QED BY <1>1, <2>1, <2>2
<1>7. ASSUME ~crossed, panel.after # "edit", NEW j \in mine' PROVE Coming(j)'
  <2>1. Coming(j) /\ (j \in server' <=> j \in server)
    BY <1>2, <1>7 DEF PanelSound, ListOK
  <2> QED BY <1>1, <2>1 DEF Coming, Newest, NewestArrived, Alike
<1>8. ListOK'
  BY <1>1, <1>7 DEF ListOK
<1> QED BY <1>3, <1>4, <1>5, <1>6, <1>8 DEF PanelSound

\* Every step keeps the invariant; a failed call ends what is promised.
LEMMA PanelsStep == PanelsInv /\ [Pa!Next]_(Pa!vars) => PanelsInv'
<1> SUFFICES ASSUME PanelsInv, [Pa!Next]_(Pa!vars) PROVE PanelsInv'
  OBVIOUS
<1>1. PanelsTypeOK /\ PanelsTypeOK'
  BY PanelsTypeStep DEF PanelsInv
<1>2. CASE UNCHANGED Pa!vars
  BY <1>1, <1>2 DEF Pa!vars, PanelsInv, PanelSound, LoadsOK, SearchOK, PressInTurn, FormOK, EditOK, PressOK, ListOK, Coming, Newest,
                    NewestArrived, Alike, WholeList, EditedInPlace, PressAdds
<1>3. CASE (\E l \in loads : Pa!LoadFails(l)) \/ \E c \in calls : Pa!CallFails(c)
  <2>1. faults' = faults + 1
    BY <1>3 DEF Pa!LoadFails, Pa!CallFails, Pa!Fault
  <2>2. faults' # 0
    BY <1>1, <2>1 DEF PanelsTypeOK
  <2> QED BY <1>1, <2>2 DEF PanelsInv
<1>4. CASE \/ \E l \in loads : Pa!ReadLoad(l) \/ Pa!LoadAnswered(l)
           \/ \E q \in Queries : Pa!SetQuery(q)
           \/ Pa!Poll
           \/ \E i \in Items : Pa!Click(i) \/ Pa!ChangeElsewhere(i)
           \/ \E c \in calls : Pa!CallReaches(c) \/ Pa!CallAnswered(c) \/ Pa!EmptyAnswer(c)
  <2>1. faults' = faults
    BY <1>4 DEF Pa!ReadLoad, Pa!LoadAnswered, Pa!SetQuery, Pa!Poll, Pa!Click, Pa!ChangeElsewhere, Pa!CallReaches, Pa!CallAnswered,
               Pa!EmptyAnswer
  <2> SUFFICES ASSUME PanelSound PROVE PanelSound'
    BY <1>1, <2>1 DEF PanelsInv
  <2> QED BY <1>1, <1>4, ReadStep, LoadAnswerStep, QueryStep, ClickStep, ElsewhereStep, PressReaches, PressAnswered, EmptyAnswered
<1> QED BY <1>2, <1>3, <1>4 DEF Pa!Next

\* The invariant of the panels.
LEMMA PanelsInductive == Pa!Spec => []PanelsInv
  BY PanelsInit, PanelsStep, PTL DEF Pa!Spec

\* A panel that has come to rest shows what its user has asked for.
THEOREM PanelsSettle == Pa!Spec => []Pa!PanelSettles
<1>1. PanelsInv => Pa!PanelSettles
  <2> SUFFICES ASSUME PanelsTypeOK, PanelSound, loads = {}, calls = {}
               PROVE  /\ ~crossed => (\A i \in mine : i \in shown <=> i \in server) /\ answers = query
                      /\ panel = Pa!GlobalSearch => ~crossed /\ answers = query
    BY DEF PanelsInv, Pa!PanelSettles
  <2>1. NewestArrived
    BY DEF NewestArrived
  <2>2. ComponentSuits(panel)
    BY PanelSuits
  <2>3. ASSUME ~crossed PROVE answers = query
    BY <2>1, <2>3 DEF PanelSound, LoadsOK
  <2>4. ASSUME ~crossed, NEW i \in mine PROVE Alike(i, shown)
    <3>1. CASE panel.after # "edit"
      BY <2>4, <3>1 DEF PanelSound, ListOK, Coming
    <3>2. CASE panel.after = "edit" /\ panel.body = "form"
      BY <2>4, <3>2 DEF PanelSound, FormOK
    <3>3. CASE panel.after = "edit" /\ panel.body # "form"
      BY <2>2, <2>4, <3>3 DEF PanelSound, EditOK, EditedInPlace, ComponentSuits
    <3> QED BY <3>1, <3>2, <3>3
  <2> QED BY <2>3, <2>4 DEF Alike, PanelSound, SearchOK
<1> QED BY <1>1, PanelsInductive, PTL

\* A panel that sends its whole list loses no press that was made from a list of today.
THEOREM PressesKept == Pa!Spec => []Pa!NoPressLost
<1>1. PanelsInv => Pa!NoPressLost
  BY DEF PanelsInv, Pa!NoPressLost, PanelSound, PressOK, WholeList
<1> QED BY <1>1, PanelsInductive, PTL

-----------------------------------------------------------------------------
(***************************************************************************)
(* The history. Lists are numbered by rank: the i-th of a list of numbers  *)
(* in descending order is the one that i - 1 others exceed (Ranks,         *)
(* Descends), so a page has what so many exceed (PageFollows), and what    *)
(* comes to the index later only raises the ranks of what was there        *)
(* (PagesOK). A changelog has listed just what is newer than the tags to   *)
(* come (SectionsOK).                                                      *)
(***************************************************************************)

\* The instance counts as the library does.
LEMMA HistoryCardinality == \A S : Hi!Cardinality(S) = Cardinality(S)
  BY DEF Hi!Cardinality, Cardinality

\* How many elements of S have a greater number than x.
RankOf(S, key, x) == Cardinality({z \in S : key[z] > key[x]})

\* For every i below the size of S just one element has i others with a greater number.
Ranked(S, key) ==
  /\ Cardinality(S) \in Nat
  /\ \A x \in S : RankOf(S, key, x) \in 0..(Cardinality(S) - 1)
  /\ \A x, y \in S : RankOf(S, key, x) = RankOf(S, key, y) => x = y
  /\ \A i \in 0..(Cardinality(S) - 1) : \E x \in S : RankOf(S, key, x) = i

\* So it is if the set is finite and its elements have different numbers.
LEMMA Ranks ==
  ASSUME NEW S, IsFiniteSet(S), NEW key \in [S -> Nat], \A x, y \in S : key[x] = key[y] => x = y
  PROVE  Ranked(S, key)
<1> DEFINE Over(x) == {z \in S : key[z] > key[x]}
           n == Cardinality(S)
           rank == [x \in S |-> Cardinality(Over(x))]
<1>0. \A x \in S : rank[x] = Cardinality(Over(x)) /\ rank[x] = RankOf(S, key, x)
  BY DEF RankOf
<1>1. n \in Nat
  BY FS_CardinalityType
<1>2. \A x \in S : IsFiniteSet(Over(x)) /\ rank[x] \in Nat
  <2>1. \A x \in S : Over(x) \in SUBSET S
    OBVIOUS
  <2> QED BY <2>1, FS_Subset, FS_CardinalityType
<1>3. ASSUME NEW x \in S, NEW y \in S, key[y] > key[x] PROVE rank[y] < rank[x]
  <2>1. Over(y) \in SUBSET Over(x) /\ y \in Over(x) /\ y \notin Over(y)
    BY <1>3
  <2>2. Cardinality(Over(y)) <= Cardinality(Over(x)) /\ (Cardinality(Over(x)) = Cardinality(Over(y)) => Over(x) = Over(y))
    BY <2>1, <1>2, FS_Subset
  <2> QED BY <2>1, <2>2, <1>2
<1>4. \A x \in S : rank[x] \in 0..(n - 1)
  <2> SUFFICES ASSUME NEW x \in S PROVE rank[x] \in 0..(n - 1)
    OBVIOUS
  <2>1. Over(x) \in SUBSET (S \ {x})
    OBVIOUS
  <2>2. IsFiniteSet(S \ {x}) /\ Cardinality(S \ {x}) = n - 1
    BY FS_RemoveElement
  <2>3. Cardinality(Over(x)) <= n - 1
    BY <2>1, <2>2, FS_Subset
  <2> HIDE DEF Over, rank, n
  <2>4. rank[x] \in Nat /\ rank[x] <= n - 1
    BY <2>3, <1>0, <1>2 DEF n
  <2> QED BY <2>4, <1>1
<1>5. \A x, y \in S : rank[x] = rank[y] => x = y
  <2>1. \A x, y \in S : x # y => key[x] > key[y] \/ key[y] > key[x]
    OBVIOUS
  <2> HIDE DEF Over, rank, n
  <2> QED BY <2>1, <1>2, <1>3
<1>6. rank \in Injection(S, 0..(n - 1))
  BY <1>4, <1>5 DEF Injection, IsInjective
<1>7. IsFiniteSet(0..(n - 1)) /\ Cardinality(0..(n - 1)) = n
  BY <1>1, FS_Interval
<1>8. rank \in Surjection(S, 0..(n - 1))
  BY <1>6, <1>7, FS_Injection
<1>9. \A i \in 0..(n - 1) : \E x \in S : rank[x] = i
  BY <1>8 DEF Surjection
<1> HIDE DEF Over, rank
<1> QED BY <1>0, <1>1, <1>4, <1>5, <1>9 DEF Ranked

Above(S, r) == Cardinality({q \in S : q > r})

\* The numbers of a set, the greatest first.
LEMMA Descends ==
  ASSUME NEW S \in SUBSET Nat, IsFiniteSet(S)
  PROVE  /\ Hi!Descending(S) \in [1..Cardinality(S) -> S] /\ Cardinality(S) \in Nat
         /\ \A r \in S : Above(S, r) \in 0..(Cardinality(S) - 1)
         /\ \A r \in S : Hi!Descending(S)[Above(S, r) + 1] = r
<1> DEFINE key == [r \in S |-> r]
           n == Cardinality(S)
<1>1. key \in [S -> Nat] /\ \A x, y \in S : key[x] = key[y] => x = y
  OBVIOUS
<1>2. \A x \in S : RankOf(S, key, x) = Above(S, x)
  <2>1. \A x \in S : {z \in S : key[z] > key[x]} = {z \in S : z > x}
    OBVIOUS
  <2> HIDE DEF key
  <2> QED BY <2>1 DEF RankOf, Above
<1> HIDE DEF key
<1>3. /\ n \in Nat
      /\ \A x \in S : Above(S, x) \in 0..(n - 1)
      /\ \A x, y \in S : Above(S, x) = Above(S, y) => x = y
      /\ \A i \in 0..(n - 1) : \E x \in S : Above(S, x) = i
  <2>1. Ranked(S, key)
    BY <1>1, Ranks, Zenon
  <2> QED BY <2>1, <1>2 DEF Ranked
<1>4. \A r \in S : Hi!Cardinality({q \in S : q > r}) = Above(S, r)
  BY HistoryCardinality DEF Above
<1>5. \A i \in 1..n : \E r \in S : Hi!Cardinality({q \in S : q > r}) = i - 1
  <2>1. \A i \in 1..n : i - 1 \in 0..(n - 1)
    BY <1>3
  <2> QED BY <2>1, <1>3, <1>4
<1>8. Hi!Descending(S) = [i \in 1..n |-> CHOOSE r \in S : Hi!Cardinality({q \in S : q > r}) = i - 1]
  BY HistoryCardinality DEF Hi!Descending
<1>6. \A i \in 1..n : Hi!Descending(S)[i] \in S /\ Above(S, Hi!Descending(S)[i]) = i - 1
  BY <1>4, <1>5, <1>8
<1>7. \A r \in S : Hi!Descending(S)[Above(S, r) + 1] = r
  <2> SUFFICES ASSUME NEW r \in S PROVE Hi!Descending(S)[Above(S, r) + 1] = r
    OBVIOUS
  <2>1. Above(S, r) + 1 \in 1..n /\ (Above(S, r) + 1) - 1 = Above(S, r)
    BY <1>3
  <2> HIDE DEF n
  <2> QED BY <2>1, <1>6, <1>3
<1> QED BY <1>3, <1>6, <1>7, <1>8

\* The lesser of two numbers.
LEMMA LeastOfTwo ==
  ASSUME NEW a \in Int, NEW b \in Int
  PROVE  Hi!Min({a, b}) = IF a <= b THEN a ELSE b
  BY DEF Hi!Min

\* The greatest of a set of numbers that are at most n.
LEMMA GreatestOf ==
  ASSUME NEW n \in Nat, NEW S \in SUBSET (0..n), S # {}
  PROVE  Hi!Max(S) \in S /\ \A x \in S : x <= Hi!Max(S)
<1> DEFINE over == {m \in Nat : \A x \in S : x <= m}
<1>1. n \in over
  OBVIOUS
<1>2. PICK m \in over : \A k \in over : ~(<<k, m>> \in OpToRel(<, Nat))
  <2>1. over \in SUBSET Nat /\ over # {}
    BY <1>1
  <2> HIDE DEF over
  <2> QED BY <2>1, NatLessThanWellFounded, WFMin
<1>3. \A k \in over : m <= k
  <2> SUFFICES ASSUME NEW k \in over PROVE m <= k
    OBVIOUS
  <2>1. k \in Nat /\ m \in Nat
    OBVIOUS
  <2>2. ~(k < m)
    <3> HIDE DEF over
    <3> QED BY <1>2, <2>1 DEF OpToRel
  <2> QED BY <2>1, <2>2
<1>4. m \in S
  <2> SUFFICES ASSUME m \notin S PROVE FALSE
    OBVIOUS
  <2>1. \A x \in S : x <= m - 1
    OBVIOUS
  <2>2. m - 1 \in over
    <3>1. m # 0
      <4>1. PICK x \in S : TRUE
        OBVIOUS
      <4>2. x \in Nat /\ x <= m - 1 /\ m \in Nat
        BY <2>1
      <4> QED BY <4>2
    <3> QED BY <2>1, <3>1
  <2> QED BY <1>3, <2>2
<1>5. \E x \in S : \A y \in S : x >= y
  BY <1>4
<1> QED BY <1>5 DEF Hi!Max

\* One sequence after another.
Joined(u, S, s, t) ==
  /\ Len(t) \in Nat /\ Len(s) \in Nat
  /\ u \in Seq(S) /\ Len(u) = Len(s) + Len(t)
  /\ \A i \in 1..Len(s) : i \in 1..Len(u) /\ u[i] = s[i]
  /\ \A i \in 1..Len(t) : Len(s) + i \in 1..Len(u) /\ u[Len(s) + i] = t[i]

\* A concatenation joins.
LEMMA Joins ==
  ASSUME NEW S, NEW s \in Seq(S), NEW t \in Seq(S)
  PROVE  Joined(s \o t, S, s, t)
  BY DEF Joined

\* The elements of both.
LEMMA JoinedSet ==
  ASSUME NEW S, NEW s \in Seq(S), NEW t \in Seq(S)
  PROVE  Hi!ToSet(s \o t) = Hi!ToSet(s) \cup Hi!ToSet(t)
<1> DEFINE u == s \o t
<1>0. Joined(u, S, s, t)
  BY Joins, Zenon
<1>1. /\ Len(t) \in Nat /\ Len(s) \in Nat
      /\ u \in Seq(S) /\ Len(u) = Len(s) + Len(t)
      /\ \A i \in 1..Len(s) : i \in 1..Len(u) /\ u[i] = s[i]
      /\ \A i \in 1..Len(t) : Len(s) + i \in 1..Len(u) /\ u[Len(s) + i] = t[i]
  BY <1>0, Zenon DEF Joined
<1>2. DOMAIN u = 1..Len(u) /\ DOMAIN s = 1..Len(s) /\ DOMAIN t = 1..Len(t)
  BY <1>1
<1> HIDE DEF u
<1>3. \A i \in 1..Len(u) : i \in 1..Len(s) \/ (i - Len(s) \in 1..Len(t) /\ Len(s) + (i - Len(s)) = i)
  BY <1>1
<1>4. \A i \in 1..Len(u) : u[i] \in Hi!ToSet(s) \cup Hi!ToSet(t)
  BY <1>1, <1>2, <1>3 DEF Hi!ToSet
<1>5. \A x \in Hi!ToSet(s) \cup Hi!ToSet(t) : x \in Hi!ToSet(u)
  BY <1>1, <1>2 DEF Hi!ToSet
<1>6. \A x \in Hi!ToSet(u) : x \in Hi!ToSet(s) \cup Hi!ToSet(t)
  BY <1>2, <1>4 DEF Hi!ToSet
<1> QED BY <1>5, <1>6 DEF u

\* A stretch of a sequence: as long as it can be.
Stretch(part, S, s, start, to) ==
  /\ part \in Seq(S) /\ Len(part) \in Nat
  /\ Len(part) = 0 \/ (start + Len(part) <= Len(s) + 1 /\ start + Len(part) <= to + 1)
  /\ start + Len(part) > Len(s) \/ start + Len(part) > to
  /\ \A i \in 1..Len(part) : part[i] = s[start + i - 1]

\* A slice is such a stretch.
LEMMA SliceOf ==
  ASSUME NEW S, NEW s \in Seq(S), NEW start \in Nat \ {0}, NEW to \in Nat
  PROVE  Stretch(Hi!Slice(s, start, to), S, s, start, to)
<1> DEFINE m == IF to <= Len(s) THEN to ELSE Len(s)
           part == SubSeq(s, start, m)
<1>1. Hi!Slice(s, start, to) = part
  BY LeastOfTwo DEF Hi!Slice
<1>2. \A i \in start..m : s[i] \in S
  OBVIOUS
<1>3. m \in Int /\ m <= to /\ m <= Len(s) /\ (m = to \/ m = Len(s)) /\ Len(s) \in Nat
  OBVIOUS
<1> HIDE DEF m
<1>4. /\ part \in Seq(S)
      /\ Len(part) = IF start <= m THEN m - start + 1 ELSE 0
      /\ \A i \in 1..(m - start + 1) : part[i] = s[start + i - 1]
  BY <1>2, <1>3, SubSeqProperties
<1> HIDE DEF part
<1>5. \A i \in 1..Len(part) : part[i] = s[start + i - 1]
  BY <1>3, <1>4
<1>6. Len(part) \in Nat /\ (Len(part) = 0 \/ start + Len(part) = m + 1) /\ start + Len(part) > m
  BY <1>3, <1>4
<1> QED BY <1>1, <1>3, <1>4, <1>5, <1>6 DEF Stretch

\* The numbers of a set, the greatest first, are as many as the set has.
LEMMA DescendingSeq ==
  ASSUME NEW S \in SUBSET Nat, IsFiniteSet(S)
  PROVE  Hi!Descending(S) \in Seq(S) /\ Len(Hi!Descending(S)) = Cardinality(S)
  BY Descends

\* A page has what comes after the first offset numbers, up to its limit; and if there
\* is no more, all of it.
PageFollows(S, skip, got) ==
  /\ got.entries \in Seq(Nat)
  /\ got.hasMore \in BOOLEAN
  /\ \A r \in S : /\ Above(S, r) \in Nat
                  /\ \/ Above(S, r) < skip
                     \/ Above(S, r) >= skip + Len(got.entries) /\ got.hasMore
                     \/ \E i \in 1..Len(got.entries) : got.entries[i] = r

\* A page that the index answers.
LEMMA IndexedPages ==
  ASSUME NEW skip \in Nat, Hi!Indexed \in SUBSET Nat, IsFiniteSet(Hi!Indexed)
  PROVE  PageFollows(Hi!Indexed, skip, Hi!IndexedPage(skip))
<1> DEFINE S == Hi!Indexed
           all == Hi!Descending(S)
           several == Hi!Slice(all, skip + 1, skip + PageSize + 1)
           entries == Hi!Slice(several, 1, PageSize)
           got == Hi!IndexedPage(skip)
<1>1. /\ all \in Seq(S) /\ Len(all) \in Nat
      /\ \A r \in S : Above(S, r) \in Nat /\ Above(S, r) < Len(all) /\ all[Above(S, r) + 1] = r
  BY Descends, DescendingSeq
<1>2. skip + 1 \in Nat \ {0} /\ skip + PageSize + 1 \in Nat /\ PageSize \in Nat /\ 1 \in Nat \ {0}
  BY HistoryAssumption
<1>5. got = [entries |-> entries, hasMore |-> Len(several) > PageSize]
  BY DEF Hi!IndexedPage
<1>6. got.entries = entries /\ got.hasMore = (Len(several) > PageSize)
  BY <1>5
<1> HIDE DEF all, got
<1>3. Stretch(several, S, all, skip + 1, skip + PageSize + 1)
  <2> HIDE DEF S
  <2> QED BY <1>1, <1>2, SliceOf, Zenon
<1> HIDE DEF several
<1>4. Stretch(entries, S, several, 1, PageSize)
  <2> HIDE DEF S
  <2>1. several \in Seq(S)
    BY <1>3 DEF Stretch
  <2> QED BY <1>2, <2>1, SliceOf, Zenon
<1> HIDE DEF entries
<1>7. entries \in Seq(Nat)
  <2>1. entries \in Seq(S) /\ \A x \in S : x \in Nat
    BY <1>4 DEF Stretch
  <2> HIDE DEF S
  <2> QED BY <2>1
<1> HIDE DEF S
<1>8. \A i \in 1..Len(entries) : entries[i] = all[skip + i] /\ skip + i \in Nat
  <2> SUFFICES ASSUME NEW i \in 1..Len(entries) PROVE entries[i] = all[skip + i] /\ skip + i \in Nat
    OBVIOUS
  <2>1. Len(entries) \in Nat /\ Len(several) \in Nat /\ (Len(entries) = 0 \/ Len(entries) <= Len(several)) /\ entries[i] = several[1 + i - 1]
    BY <1>2, <1>3, <1>4 DEF Stretch
  <2>2. i \in Nat /\ 1 + i - 1 = i /\ i \in 1..Len(several) /\ (skip + 1) + i - 1 = skip + i
    BY <2>1
  <2>3. several[i] = all[(skip + 1) + i - 1]
    BY <1>3, <2>2 DEF Stretch
  <2> QED BY <2>1, <2>2, <2>3
<1>9. ASSUME NEW r \in S PROVE
        \/ Above(S, r) < skip
        \/ Above(S, r) >= skip + Len(entries) /\ Len(several) > PageSize
        \/ \E i \in 1..Len(entries) : entries[i] = r
  <2> DEFINE a == Above(S, r)
  <2>1. Len(entries) \in Nat /\ Len(several) \in Nat /\ Len(all) \in Nat /\ a \in Nat /\ a < Len(all) /\ all[a + 1] = r
    BY <1>1, <1>3, <1>4 DEF Stretch
  <2> HIDE DEF a
  <2>2. CASE a >= skip /\ a < skip + Len(entries)
    <3>1. (a - skip) + 1 \in 1..Len(entries) /\ skip + ((a - skip) + 1) = a + 1
      BY <2>1, <2>2
    <3>2. entries[(a - skip) + 1] = r
      BY <1>8, <2>1, <3>1
    <3> QED BY <3>1, <3>2
  <2>3. CASE a >= skip + Len(entries) /\ Len(several) <= PageSize
    <3>1. 1 + Len(entries) > Len(several)
      BY <1>2, <1>4, <2>1, <2>3 DEF Stretch
    <3>2. (skip + 1) + Len(several) > Len(all)
      BY <1>2, <1>3, <2>1, <2>3 DEF Stretch
    <3> QED BY <2>1, <2>3, <3>1, <3>2
  <2> QED BY <1>2, <2>1, <2>2, <2>3 DEF a
<1>10. (Len(several) > PageSize) \in BOOLEAN
  OBVIOUS
<1> QED BY <1>1, <1>6, <1>7, <1>9, <1>10 DEF PageFollows, S, got

Revision == [path : Hi!Paths, how : {"add", "edit", "delete"}, author : {"api", "dev"}]
NumberedTag == [name : Tags, created : 1..Hi!Youngest]
ReadRequest ==
  [step : {"idle", "page", "changelog", "sections", "list", "readme"}, at : 0..Hi!Youngest,
   part : Hi!Paths \cup {Hi!Nothing}, todo : SUBSET NumberedTag, want : SUBSET Hi!Indexed, seen : Seq(Nat)]

HistoryTypeOK ==
  /\ log \in Seq(Revision) /\ Hi!Youngest \in 1..MaxRev
  /\ hook \in SUBSET (1..Hi!Youngest)
  /\ Hi!Indexed \in SUBSET (1..Hi!Youngest)
  /\ call \in [Clients -> Refs \cup {Hi!Nothing}]
  /\ reader \in ReadRequest

\* Of the revisions that were indexed when the first page was read, those are read that
\* are now among the first so many: what is indexed since only moves them further back.
PagesOK ==
  reader.step = "page" =>
    \A r \in reader.want : Above(Hi!Indexed, r) < Len(reader.seen) => r \in Hi!ToSet(reader.seen)

\* No two tags are of one revision.
TagsApart == \A t, u \in reader.todo : t.created = u.created => t = u

\* What is newer than every tag to come is listed, and nothing else.
SectionsOK ==
  reader.step = "sections" =>
    /\ \A r \in reader.want : (\A t \in reader.todo : t.created < r) => r \in Hi!ToSet(reader.seen)
    /\ \A r \in Hi!ToSet(reader.seen), t \in reader.todo : t.created < r

ReadmeOK == reader.step = "readme" => reader.seen[1] = Hi!LastChange(reader.part, reader.at)

HistoryInv ==
  HistoryTypeOK /\ PagesOK /\ TagsApart /\ SectionsOK /\ ReadmeOK /\ Hi!ReadersConsistent

\* The reader between two requests.
LEMMA AwayOK ==
  ASSUME Hi!Youngest \in Nat
  PROVE  Hi!Away \in ReadRequest /\ Hi!Away.step = "idle" /\ Hi!Away.todo = {}
<1>1. 0 \in 0..Hi!Youngest /\ <<>> \in Seq(Nat)
  OBVIOUS
<1> QED BY <1>1 DEF Hi!Away, ReadRequest

\* The invariant holds at the start.
LEMMA HistoryStarts == Hi!Init => HistoryInv
<1> SUFFICES ASSUME Hi!Init PROVE HistoryInv
  OBVIOUS
<1> DEFINE first == [path |-> Hi!Trunk, how |-> "add", author |-> "api"]
<1>1. first \in Revision /\ log = <<first>>
  BY DEF Hi!Init, Revision, Hi!Paths
<1> HIDE DEF first
<1>2. log \in Seq(Revision) /\ Hi!Youngest = 1 /\ 1 \in 1..MaxRev
  BY <1>1, HistoryAssumption DEF Hi!Youngest
<1>3. Hi!Indexed \in SUBSET (1..1)
  <2>1. \A x : DOMAIN <<x>> = 1..1 /\ DOMAIN <<>> = {}
    OBVIOUS
  <2> QED BY <2>1 DEF Hi!Init, Hi!Indexed
<1>4. call \in [Clients -> Refs \cup {Hi!Nothing}] /\ hook = {} /\ reader = Hi!Away /\ missed = FALSE
  BY DEF Hi!Init
<1> QED BY <1>2, <1>3, <1>4, AwayOK
        DEF HistoryInv, HistoryTypeOK, PagesOK, TagsApart, SectionsOK, ReadmeOK, Hi!ReadersConsistent

\* The last change of a path is a revision that touches it, or 0.
LEMMA LastChanges ==
  ASSUME NEW p, NEW r \in Nat
  PROVE  Hi!LastChange(p, r) \in 0..r /\ (Hi!LastChange(p, r) # 0 => log[Hi!LastChange(p, r)].path = p)
<1> DEFINE S == Hi!Touching(p, r) \cup {0}
<1>1. S \in SUBSET (0..r) /\ S # {} /\ \A q \in S : q = 0 \/ log[q].path = p
  BY DEF Hi!Touching
<1> HIDE DEF S
<1>2. Hi!Max(S) \in S
  BY <1>1, GreatestOf
<1> QED BY <1>1, <1>2 DEF Hi!LastChange, S

\* The revision after the newest.
LEMMA Records ==
  ASSUME HistoryTypeOK, NEW p \in Hi!Paths, NEW how \in {"add", "edit", "delete"}, NEW author \in {"api", "dev"},
         Hi!Record(p, how, author)
  PROVE  /\ log' \in Seq(Revision) /\ Hi!Youngest' = Hi!Youngest + 1 /\ Hi!Youngest' \in 1..MaxRev
         /\ hook' \in SUBSET (1..Hi!Youngest')
         /\ \A r \in 0..Hi!Youngest, q \in Hi!Paths \cup {Hi!Nothing} : Hi!LastChange(q, r)' = Hi!LastChange(q, r)
<1> DEFINE x == [path |-> p, how |-> how, author |-> author]
<1>1. x \in Revision
  BY DEF Revision
<1>2. log' = Append(log, x) /\ hook' = hook \cup {Hi!Youngest + 1} /\ Hi!Youngest < MaxRev
  BY DEF Hi!Record
<1> HIDE DEF x
<1>3. log' \in Seq(Revision) /\ Hi!Youngest' = Hi!Youngest + 1 /\ \A q \in 1..Hi!Youngest : log'[q] = log[q]
  BY <1>1, <1>2, AppendProperties DEF HistoryTypeOK, Hi!Youngest
<1>4. Hi!Youngest' \in 1..MaxRev /\ hook' \in SUBSET (1..Hi!Youngest')
  <2> DEFINE n == Hi!Youngest
  <2>1. n \in Nat /\ n' = n + 1 /\ n < MaxRev /\ MaxRev \in Nat /\ hook' = hook \cup {n + 1} /\ hook \in SUBSET (1..n)
    BY <1>2, <1>3, HistoryAssumption DEF HistoryTypeOK
  <2> HIDE DEF n
  <2>2. n' \in 1..MaxRev /\ hook' \in SUBSET (1..n')
    BY <2>1
  <2> QED BY <2>2 DEF n
<1>5. ASSUME NEW r \in 0..Hi!Youngest, NEW q \in Hi!Paths \cup {Hi!Nothing}
      PROVE  Hi!LastChange(q, r)' = Hi!LastChange(q, r)
  <2>1. \A k \in 1..r : k \in 1..Hi!Youngest
    BY DEF HistoryTypeOK
  <2>2. Hi!Touching(q, r)' = Hi!Touching(q, r)
    BY <1>3, <2>1 DEF Hi!Touching
  <2> QED BY <2>2 DEF Hi!LastChange
<1> QED BY <1>3, <1>4, <1>5

\* A revision disturbs no reader.
LEMMA RecordStep ==
  ASSUME HistoryInv, NEW p \in Hi!Paths, NEW how \in {"add", "edit", "delete"}, NEW author \in {"api", "dev"},
         Hi!Record(p, how, author), UNCHANGED <<index, reader, missed>>, call' \in [Clients -> Refs \cup {Hi!Nothing}]
  PROVE  HistoryInv'
<1>1. /\ log' \in Seq(Revision) /\ Hi!Youngest' = Hi!Youngest + 1 /\ Hi!Youngest' \in 1..MaxRev
      /\ hook' \in SUBSET (1..Hi!Youngest')
      /\ \A r \in 0..Hi!Youngest, q \in Hi!Paths \cup {Hi!Nothing} : Hi!LastChange(q, r)' = Hi!LastChange(q, r)
  BY Records DEF HistoryInv
<1>2. Hi!Indexed' = Hi!Indexed /\ Hi!Indexed \in SUBSET (1..Hi!Youngest) /\ reader' = reader /\ missed' = missed
      /\ reader \in ReadRequest /\ Hi!Youngest \in Nat
  BY DEF HistoryInv, HistoryTypeOK, Hi!Indexed
<1>3. Hi!Indexed' \in SUBSET (1..Hi!Youngest')
  BY <1>1, <1>2
<1>4. reader' \in ReadRequest'
  <2>1. 0..Hi!Youngest \subseteq 0..Hi!Youngest' /\ 1..Hi!Youngest \subseteq 1..Hi!Youngest'
    BY <1>1, <1>2
  <2>2. reader.todo \in SUBSET NumberedTag'
    BY <1>2, <2>1 DEF ReadRequest, NumberedTag
  <2> QED BY <1>2, <2>1, <2>2 DEF ReadRequest
<1>5. HistoryTypeOK'
  BY <1>1, <1>3, <1>4 DEF HistoryTypeOK
<1>6. ReadmeOK'
  <2>1. reader.part \in Hi!Paths \cup {Hi!Nothing} /\ reader.at \in 0..Hi!Youngest
    BY <1>2 DEF ReadRequest
  <2>2. Hi!LastChange(reader.part, reader.at)' = Hi!LastChange(reader.part, reader.at)
    BY <1>1, <1>2, <2>1
  <2> QED BY <1>2, <2>2 DEF HistoryInv, ReadmeOK
<1>7. PagesOK' /\ TagsApart' /\ SectionsOK' /\ Hi!ReadersConsistent'
  BY <1>2 DEF HistoryInv, PagesOK, TagsApart, SectionsOK, Hi!ReadersConsistent
<1> QED BY <1>5, <1>6, <1>7 DEF HistoryInv

\* What the hook indexes, or fails to.
LEMMA IndexStep ==
  ASSUME HistoryInv, NEW r \in Hi!Revisions, Hi!IndexRevision(r) \/ Hi!LoseCall(r)
  PROVE  HistoryInv'
<1>1. /\ r \in hook /\ hook' = hook \ {r} /\ UNCHANGED <<log, call, reader, missed>>
      /\ Hi!Indexed' = Hi!Indexed \/ Hi!Indexed' = Hi!Indexed \cup {r}
  BY DEF Hi!IndexRevision, Hi!LoseCall, Hi!Indexed
<1>2. Hi!Youngest' = Hi!Youngest /\ r \in 1..Hi!Youngest
  BY <1>1 DEF Hi!Youngest, HistoryInv, HistoryTypeOK
<1>3. Hi!Indexed' \in SUBSET (1..Hi!Youngest) /\ Hi!Indexed \in SUBSET Hi!Indexed' /\ hook' \in SUBSET (1..Hi!Youngest)
      /\ Hi!Youngest \in Nat
  <2> DEFINE n == Hi!Youngest
             old == Hi!Indexed
  <2>1. n \in Nat /\ old \in SUBSET (1..n) /\ hook \in SUBSET (1..n)
    BY DEF HistoryInv, HistoryTypeOK
  <2> HIDE DEF n, old
  <2>2. old \cup {r} \in SUBSET (1..n) /\ hook \ {r} \in SUBSET (1..n) /\ old \in SUBSET (old \cup {r})
    BY <1>2, <2>1 DEF n
  <2> QED BY <1>1, <2>1, <2>2 DEF n, old
<1>4. NumberedTag' = NumberedTag
  BY <1>2 DEF NumberedTag
<1>5. reader' \in ReadRequest'
  BY <1>1, <1>2, <1>3, <1>4 DEF HistoryInv, HistoryTypeOK, ReadRequest
<1>6. HistoryTypeOK'
  BY <1>1, <1>2, <1>3, <1>5 DEF HistoryInv, HistoryTypeOK, Revision
<1>7. \A x \in Hi!Indexed : Above(Hi!Indexed, x) <= Above(Hi!Indexed', x) /\ Above(Hi!Indexed, x) \in Nat /\ Above(Hi!Indexed', x) \in Nat
  <2> SUFFICES ASSUME NEW x \in Hi!Indexed
               PROVE  Above(Hi!Indexed, x) <= Above(Hi!Indexed', x) /\ Above(Hi!Indexed, x) \in Nat /\ Above(Hi!Indexed', x) \in Nat
    OBVIOUS
  <2> DEFINE A == {q \in Hi!Indexed : q > x}
             B == {q \in Hi!Indexed' : q > x}
  <2>1. A \in SUBSET B /\ B \in SUBSET (1..Hi!Youngest)
    BY <1>3
  <2>2. IsFiniteSet(1..Hi!Youngest)
    BY <1>3, FS_Interval
  <2>3. IsFiniteSet(B) /\ IsFiniteSet(A) /\ Cardinality(A) <= Cardinality(B)
    <3> HIDE DEF A, B
    <3> QED BY <2>1, <2>2, FS_Subset
  <2> QED BY <2>3, FS_CardinalityType DEF Above
<1>8. PagesOK'
  <2> SUFFICES ASSUME reader.step = "page", NEW x \in reader.want, Above(Hi!Indexed', x) < Len(reader.seen)
               PROVE  x \in Hi!ToSet(reader.seen)
    BY <1>1 DEF PagesOK
  <2>1. x \in Hi!Indexed /\ Len(reader.seen) \in Nat
    BY DEF HistoryInv, HistoryTypeOK, ReadRequest
  <2>2. Above(Hi!Indexed, x) < Len(reader.seen)
    BY <1>7, <2>1
  <2> QED BY <2>2 DEF HistoryInv, PagesOK
<1>9. TagsApart' /\ SectionsOK' /\ ReadmeOK' /\ Hi!ReadersConsistent'
  BY <1>1 DEF HistoryInv, TagsApart, SectionsOK, ReadmeOK, Hi!ReadersConsistent, Hi!LastChange, Hi!Touching
<1> QED BY <1>6, <1>8, <1>9 DEF HistoryInv

\* The reader goes away, having got what it should.
LEMMA ReaderLeaves ==
  ASSUME HistoryInv, reader' = Hi!Away, missed' = FALSE, UNCHANGED <<log, hook, index, call>>
  PROVE  HistoryInv'
<1>1. Hi!Youngest \in Nat /\ Hi!Youngest' = Hi!Youngest /\ Hi!Indexed' = Hi!Indexed
  BY DEF HistoryInv, HistoryTypeOK, Hi!Youngest, Hi!Indexed
<1>2. Hi!Away \in ReadRequest /\ Hi!Away.step = "idle" /\ Hi!Away.todo = {}
  BY <1>1, AwayOK
<1>3. ReadRequest' = ReadRequest
  BY <1>1 DEF ReadRequest, NumberedTag
<1>4. HistoryTypeOK'
  BY <1>1, <1>2, <1>3 DEF HistoryInv, HistoryTypeOK, Revision
<1>5. PagesOK' /\ TagsApart' /\ SectionsOK' /\ ReadmeOK' /\ Hi!ReadersConsistent'
  BY <1>2 DEF PagesOK, TagsApart, SectionsOK, ReadmeOK, Hi!ReadersConsistent
<1> QED BY <1>4, <1>5 DEF HistoryInv

\* It goes on.
LEMMA ReaderGoes ==
  ASSUME HistoryInv, reader' \in ReadRequest, missed' = FALSE, UNCHANGED <<log, hook, index, call>>
  PROVE  HistoryTypeOK' /\ Hi!ReadersConsistent' /\ Hi!Indexed' = Hi!Indexed
<1>1. Hi!Youngest' = Hi!Youngest /\ Hi!Indexed' = Hi!Indexed
  BY DEF Hi!Youngest, Hi!Indexed
<1>3. ReadRequest' = ReadRequest
  BY <1>1 DEF ReadRequest, NumberedTag
<1> QED BY <1>1, <1>3 DEF HistoryInv, HistoryTypeOK, Hi!ReadersConsistent, Revision

\* What is indexed is finite.
LEMMA IndexedFinite ==
  ASSUME HistoryTypeOK
  PROVE  Hi!Indexed \in SUBSET Nat /\ IsFiniteSet(Hi!Indexed)
<1>1. Hi!Youngest \in Nat /\ Hi!Indexed \in SUBSET (1..Hi!Youngest)
  BY DEF HistoryTypeOK
<1>2. IsFiniteSet(1..Hi!Youngest)
  BY <1>1, FS_Interval
<1>3. IsFiniteSet(Hi!Indexed)
  BY <1>1, <1>2, FS_Subset
<1>4. 1..Hi!Youngest \subseteq Nat
  BY <1>1
<1> QED BY <1>1, <1>3, <1>4

\* Where nothing is indexed, a page is some of the log.
LEMMA LivePages ==
  ASSUME NEW skip \in Nat, Hi!Youngest \in Nat
  PROVE  Hi!LivePage(skip).entries \in Seq(Nat) /\ Hi!LivePage(skip).hasMore \in BOOLEAN
<1> DEFINE all == Hi!Descending(1..Hi!Youngest)
           printed == Hi!Slice(all, 1, PageSize)
           entries == Hi!Slice(printed, skip + 1, PageSize)
           slice == Hi!Slice(entries, skip + 1, skip + PageSize + 1)
           got == Hi!Slice(slice, 1, PageSize)
<1>1. all \in Seq(Nat)
  <2>1. 1..Hi!Youngest \in SUBSET Nat /\ IsFiniteSet(1..Hi!Youngest)
    BY FS_Interval
  <2>2. all \in Seq(1..Hi!Youngest)
    BY <2>1, DescendingSeq
  <2> HIDE DEF all
  <2> QED BY <2>2
<1>2. skip + 1 \in Nat \ {0} /\ skip + PageSize + 1 \in Nat /\ PageSize \in Nat /\ 1 \in Nat \ {0}
  BY HistoryAssumption
<1>3. \A s \in Seq(Nat), start \in Nat \ {0}, to \in Nat : Hi!Slice(s, start, to) \in Seq(Nat)
  BY SliceOf DEF Stretch
<1>4. Hi!LivePage(skip) = [entries |-> got, hasMore |-> Len(slice) > PageSize]
  BY DEF Hi!LivePage
<1> HIDE DEF all
<1>5. got \in Seq(Nat) /\ slice \in Seq(Nat)
  BY <1>1, <1>2, <1>3
<1> HIDE DEF got, slice
<1>6. (Len(slice) > PageSize) \in BOOLEAN
  OBVIOUS
<1> QED BY <1>4, <1>5, <1>6

\* A page of the log, whether the index answers or Subversion does.
LEMMA Pages ==
  ASSUME HistoryTypeOK, NEW skip \in Nat
  PROVE  PageFollows(Hi!Indexed, skip, Hi!GetLog(skip))
<1>1. CASE Hi!Indexed = {}
  <2>1. Hi!GetLog(skip) = Hi!LivePage(skip) /\ Hi!Youngest \in Nat
    BY <1>1 DEF Hi!GetLog, HistoryTypeOK
  <2> QED BY <1>1, <2>1, LivePages DEF PageFollows
<1>2. CASE Hi!Indexed # {}
  <2>1. Hi!GetLog(skip) = Hi!IndexedPage(skip)
    BY <1>2 DEF Hi!GetLog
  <2> QED BY <2>1, IndexedFinite, IndexedPages
<1> QED BY <1>1, <1>2

\* Page after page.
LEMMA PageReadStep ==
  ASSUME HistoryInv, Hi!StartPaging \/ Hi!ReadPage
  PROVE  HistoryInv'
<1>1. CASE Hi!StartPaging
  <2>1. /\ reader' = [Hi!Away EXCEPT !.step = "page", !.want = Hi!Indexed] /\ UNCHANGED <<log, hook, index, call, missed>>
        /\ Hi!Youngest \in Nat
    BY <1>1 DEF Hi!StartPaging, HistoryInv, HistoryTypeOK
  <2>2. reader' \in ReadRequest /\ reader'.step = "page" /\ reader'.todo = {} /\ reader'.want = Hi!Indexed /\ reader'.seen = <<>>
    BY <2>1, AwayOK DEF Hi!Away, ReadRequest
  <2>3. HistoryTypeOK' /\ Hi!ReadersConsistent' /\ Hi!Indexed' = Hi!Indexed
    <3>1. missed' = FALSE
      BY <2>1 DEF HistoryInv, Hi!ReadersConsistent
    <3> QED BY <2>1, <2>2, <3>1, ReaderGoes
  <2>4. PagesOK'
    <3>1. \A r \in Hi!Indexed : Above(Hi!Indexed, r) \in Nat
      <4>1. \A r \in Hi!Indexed : Above(Hi!Indexed, r) \in 0..(Cardinality(Hi!Indexed) - 1)
        BY IndexedFinite, Descends DEF HistoryInv
      <4> QED BY <4>1
    <3>2. Len(<<>>) = 0
      OBVIOUS
    <3> QED BY <2>2, <2>3, <3>1, <3>2 DEF PagesOK
  <2> QED BY <2>2, <2>3, <2>4 DEF HistoryInv, TagsApart, SectionsOK, ReadmeOK
<1>2. CASE Hi!ReadPage
  <2> DEFINE skip == Len(reader.seen)
             got == Hi!GetLog(skip)
             seen == reader.seen \o got.entries
  <2>1. /\ reader.step = "page" /\ UNCHANGED <<log, hook, index, call>>
        /\ reader' = IF got.hasMore THEN [reader EXCEPT !.seen = seen] ELSE Hi!Away
        /\ missed' = (missed \/ (~got.hasMore /\ ~(reader.want \subseteq Hi!ToSet(seen))))
    BY <1>2 DEF Hi!ReadPage
  <2>2. reader \in ReadRequest /\ reader.seen \in Seq(Nat) /\ skip \in Nat /\ reader.want \in SUBSET Hi!Indexed /\ missed = FALSE
    BY DEF HistoryInv, HistoryTypeOK, ReadRequest, Hi!ReadersConsistent
  <2>3. PageFollows(Hi!Indexed, skip, got)
    BY <2>2, Pages DEF HistoryInv
  <2> HIDE DEF got, skip
  <2>4. /\ seen \in Seq(Nat) /\ Len(seen) = skip + Len(got.entries) /\ Len(got.entries) \in Nat
        /\ \A i \in 1..skip : i \in 1..Len(seen) /\ seen[i] = reader.seen[i]
        /\ \A i \in 1..Len(got.entries) : skip + i \in 1..Len(seen) /\ seen[skip + i] = got.entries[i]
    <3>1. got.entries \in Seq(Nat)
      BY <2>3 DEF PageFollows
    <3>2. Joined(seen, Nat, reader.seen, got.entries)
      BY <2>2, <3>1, Joins, Zenon
    <3> HIDE DEF seen
    <3> QED BY <3>2 DEF skip, Joined
  <2>5. Hi!ToSet(reader.seen) \subseteq Hi!ToSet(seen) /\ \A i \in 1..Len(got.entries) : got.entries[i] \in Hi!ToSet(seen)
    <3>1. DOMAIN seen = 1..Len(seen) /\ DOMAIN reader.seen = 1..skip
      BY <2>2, <2>4 DEF skip
    <3> HIDE DEF seen
    <3> QED BY <2>4, <3>1 DEF Hi!ToSet
  <2>6. \A r \in reader.want : \/ r \in Hi!ToSet(seen)
                               \/ Above(Hi!Indexed, r) \in Nat /\ Above(Hi!Indexed, r) >= Len(seen) /\ got.hasMore
    <3> SUFFICES ASSUME NEW r \in reader.want, r \notin Hi!ToSet(seen)
                 PROVE  Above(Hi!Indexed, r) \in Nat /\ Above(Hi!Indexed, r) >= Len(seen) /\ got.hasMore
      OBVIOUS
    <3>1. Above(Hi!Indexed, r) < skip => r \in Hi!ToSet(reader.seen)
      BY <2>1 DEF HistoryInv, PagesOK, skip
    <3> QED BY <2>2, <2>3, <2>4, <2>5, <3>1 DEF PageFollows
  <2> HIDE DEF seen
  <2>7. CASE got.hasMore
    <3>1. reader' = [reader EXCEPT !.seen = seen] /\ missed' = FALSE
      BY <2>1, <2>2, <2>7
    <3>2. reader' \in ReadRequest /\ reader'.seen = seen /\ reader'.want = reader.want /\ reader'.todo = reader.todo /\ reader'.step = "page"
      BY <2>1, <2>2, <2>4, <3>1 DEF ReadRequest
    <3>3. HistoryTypeOK' /\ Hi!ReadersConsistent' /\ Hi!Indexed' = Hi!Indexed
      BY <2>1, <3>1, <3>2, ReaderGoes
    <3>4. \A r \in reader.want : Above(Hi!Indexed, r) < Len(seen) => r \in Hi!ToSet(seen)
      BY <2>4, <2>6
    <3>5. PagesOK'
      BY <3>2, <3>3, <3>4 DEF PagesOK
    <3>6. TagsApart' /\ SectionsOK' /\ ReadmeOK'
      BY <3>2 DEF HistoryInv, TagsApart, SectionsOK, ReadmeOK
    <3> QED BY <3>3, <3>5, <3>6 DEF HistoryInv
  <2>8. CASE ~got.hasMore
    BY <2>1, <2>2, <2>6, <2>8, ReaderLeaves
  <2> QED BY <2>7, <2>8
<1> QED BY <1>1, <1>2

\* A finite set in some order.
LEMMA Listing ==
  ASSUME NEW S \in SUBSET Nat, IsFiniteSet(S)
  PROVE  Hi!SetToSeq(S) \in Seq(Nat) /\ Hi!ToSet(Hi!SetToSeq(S)) = S
<1> DEFINE n == Cardinality(S)
           f == Hi!SetToSeq(S)

<1>1. n \in Nat
  BY FS_CardinalityType
<1>2. \E g \in [1..n -> S] : Hi!IsInjective(g)
  <2>1. PICK g : ExistsBijection(1..n, S) /\ g \in Bijection(1..n, S)
    BY FS_CardinalityType DEF ExistsBijection
  <2> QED BY <2>1 DEF Bijection, Injection, IsInjective, Hi!IsInjective
<1>3. f = CHOOSE g \in [1..n -> S] : Hi!IsInjective(g)
  BY HistoryCardinality DEF Hi!SetToSeq
<1>4. f \in [1..n -> S] /\ Hi!IsInjective(f)
  <2> HIDE DEF f
  <2> QED BY <1>2, <1>3
<1>5. f \in Injection(1..n, S)
  BY <1>4 DEF Hi!IsInjective, Injection, IsInjective
<1>6. IsFiniteSet(1..n) /\ Cardinality(1..n) = n
  BY <1>1, FS_Interval
<1>7. f \in Surjection(1..n, S)
  BY <1>5, <1>6, FS_Injection
<1> HIDE DEF f
<1>8. f \in Seq(Nat) /\ DOMAIN f = 1..n
  <2> HIDE DEF n
  <2>1. f \in [1..n -> Nat]
    BY <1>4
  <2> QED BY <1>1, <2>1
<1>9. {f[i] : i \in DOMAIN f} = S
  BY <1>4, <1>7, <1>8 DEF Surjection
<1> QED BY <1>8, <1>9 DEF Hi!ToSet, f

\* The newest of the tags that are older than a revision.
LEMMA NextTag ==
  ASSUME HistoryTypeOK, NEW todo \in SUBSET NumberedTag, NEW r
  PROVE  /\ Hi!Below(todo, r) \in 0..Hi!Youngest
         /\ \A t \in todo : t.created < r => t.created <= Hi!Below(todo, r)
         /\ Hi!Below(todo, r) = 0 \/ \E t \in todo : t.created < r /\ t.created = Hi!Below(todo, r)
<1> DEFINE S == {t.created : t \in {u \in todo : u.created < r}} \cup {0}
<1>1. Hi!Youngest \in Nat
  BY DEF HistoryTypeOK
<1>2. S \in SUBSET (0..Hi!Youngest) /\ S # {}
  BY <1>1 DEF NumberedTag
<1>3. \A x \in S : x = 0 \/ \E t \in todo : t.created < r /\ t.created = x
  OBVIOUS
<1>4. \A t \in todo : t.created < r => t.created \in S
  OBVIOUS
<1> HIDE DEF S
<1>5. Hi!Max(S) \in S /\ \A x \in S : x <= Hi!Max(S)
  BY <1>1, <1>2, GreatestOf
<1> QED BY <1>2, <1>3, <1>4, <1>5 DEF Hi!Below, S

\* No two tags have one last change.
LEMMA TagsListed ==
  ASSUME HistoryTypeOK
  PROVE  /\ Hi!ListTags \in SUBSET NumberedTag
         /\ \A t, u \in Hi!ListTags : t.created = u.created => t = u
<1> DEFINE Tagged == {q \in Tags : Hi!There(q, Hi!Youngest)}
           tag(p) == [name |-> p, created |-> Hi!LastChange(p, Hi!Youngest)]
<1>1. Hi!Youngest \in Nat
  BY DEF HistoryTypeOK
<1>2. \A p \in Tagged : /\ Hi!LastChange(p, Hi!Youngest) \in 1..Hi!Youngest
                        /\ log[Hi!LastChange(p, Hi!Youngest)].path = p
  <2> SUFFICES ASSUME NEW p \in Tagged
               PROVE  Hi!LastChange(p, Hi!Youngest) \in 1..Hi!Youngest /\ log[Hi!LastChange(p, Hi!Youngest)].path = p
    OBVIOUS
  <2>1. Hi!LastChange(p, Hi!Youngest) # 0
    BY DEF Hi!There
  <2> QED BY <1>1, <2>1, LastChanges
<1>3. Hi!ListTags = {tag(p) : p \in Tagged}
  BY DEF Hi!ListTags, Hi!CreatedRevision
<1>4. \A p \in Tagged : tag(p) \in NumberedTag
  BY <1>2 DEF NumberedTag
<1>5. \A p, q \in Tagged : tag(p).created = tag(q).created => p = q
  BY <1>2
<1> QED BY <1>3, <1>4, <1>5

\* A changelog starts with the tags as they are.
LEMMA ChangelogStarts ==
  ASSUME HistoryInv, Hi!StartChangelog
  PROVE  HistoryInv'
<1>1. /\ reader' = [Hi!Away EXCEPT !.step = "changelog", !.todo = Hi!ListTags, !.want = Hi!Indexed]
      /\ missed' = FALSE /\ UNCHANGED <<log, hook, index, call>> /\ Hi!Youngest \in Nat
  BY DEF Hi!StartChangelog, HistoryInv, HistoryTypeOK, Hi!ReadersConsistent
<1>2. Hi!ListTags \in SUBSET NumberedTag /\ \A t, u \in Hi!ListTags : t.created = u.created => t = u
  BY TagsListed DEF HistoryInv
<1>3. reader' \in ReadRequest /\ reader'.step = "changelog" /\ reader'.todo = Hi!ListTags
  BY <1>1, <1>2, AwayOK DEF Hi!Away, ReadRequest
<1>4. HistoryTypeOK' /\ Hi!ReadersConsistent'
  BY <1>1, <1>3, ReaderGoes
<1> QED BY <1>2, <1>3, <1>4 DEF HistoryInv, PagesOK, TagsApart, SectionsOK, ReadmeOK

\* The section of what is newer than every tag.
LEMMA UnreleasedStep ==
  ASSUME HistoryInv, Hi!ReadUnreleased
  PROVE  HistoryInv'
<1> DEFINE newest == Hi!Below(reader.todo, MaxRev + 1)
           section == IF Hi!Youngest > newest THEN Hi!InRange(newest, Hi!Youngest) ELSE {}
<1>1. /\ reader' = [reader EXCEPT !.step = "sections", !.at = Hi!Youngest, !.seen = Hi!SetToSeq(section)]
      /\ missed' = FALSE /\ UNCHANGED <<log, hook, index, call>>
  BY DEF Hi!ReadUnreleased, HistoryInv, Hi!ReadersConsistent
<1>2. /\ reader \in ReadRequest /\ reader.todo \in SUBSET NumberedTag /\ Hi!Youngest \in 1..MaxRev /\ MaxRev \in Nat
      /\ reader.want \in SUBSET Hi!Indexed /\ Hi!Indexed \in SUBSET (1..Hi!Youngest)
  BY HistoryAssumption DEF HistoryInv, HistoryTypeOK, ReadRequest
<1>3. newest \in 0..Hi!Youngest /\ \A t \in reader.todo : t.created \in Nat /\ t.created <= newest
  <2>1. \A t \in reader.todo : t.created \in Nat /\ t.created < MaxRev + 1
    BY <1>2 DEF NumberedTag
  <2> QED BY <1>2, <2>1, NextTag DEF HistoryInv
<1>4. newest = 0 \/ \E t \in reader.todo : t.created = newest
  BY <1>2, NextTag DEF HistoryInv
<1> HIDE DEF newest
<1>5. section = {r \in Hi!Indexed : newest < r}
  <2> DEFINE n == Hi!Youngest
             all == Hi!Indexed
  <2>1. section = IF n > newest THEN {r \in all : newest < r /\ r <= n} ELSE {}
    BY DEF Hi!InRange
  <2>2. n \in Nat /\ newest \in 0..n /\ all \in SUBSET (1..n)
    BY <1>2, <1>3
  <2> HIDE DEF n, all, section
  <2>3. section = {r \in all : newest < r}
    <3>1. \A r \in all : r \in Nat /\ r <= n
      BY <2>2
    <3>2. CASE n > newest
      BY <2>1, <3>1, <3>2
    <3>3. CASE ~(n > newest)
      <4>1. \A r \in all : ~(newest < r)
        BY <2>2, <3>1, <3>3
      <4> QED BY <2>1, <3>3, <4>1
    <3> QED BY <3>2, <3>3
  <2> QED BY <2>3 DEF all
<1> HIDE DEF section
<1>6. Hi!SetToSeq(section) \in Seq(Nat) /\ Hi!ToSet(Hi!SetToSeq(section)) = section
  <2>1. IsFiniteSet(Hi!Indexed) /\ section \in SUBSET Hi!Indexed /\ section \in SUBSET Nat
    BY <1>5, IndexedFinite DEF HistoryInv
  <2>2. IsFiniteSet(section)
    BY <2>1, FS_Subset
  <2> QED BY <2>1, <2>2, Listing
<1>7. /\ reader' \in ReadRequest /\ reader'.step = "sections" /\ reader'.todo = reader.todo
      /\ reader'.want = reader.want /\ Hi!ToSet(reader'.seen) = section
  <2>1. Hi!Youngest \in 0..Hi!Youngest
    BY <1>2
  <2> QED BY <1>1, <1>2, <1>6, <2>1 DEF ReadRequest
<1>8. HistoryTypeOK' /\ Hi!ReadersConsistent'
  BY <1>1, <1>7, ReaderGoes
<1>9. SectionsOK'
  <2>1. \A r \in reader.want : (\A t \in reader.todo : t.created < r) => r \in section
    <3> SUFFICES ASSUME NEW r \in reader.want, \A t \in reader.todo : t.created < r PROVE r \in section
      OBVIOUS
    <3>1. r \in Hi!Indexed /\ r \in 1..Hi!Youngest
      BY <1>2
    <3>2. newest < r
      BY <1>4, <3>1
    <3> QED BY <1>5, <3>1, <3>2
  <2>2. \A r \in section, t \in reader.todo : t.created < r
    BY <1>2, <1>3, <1>5
  <2> QED BY <1>7, <2>1, <2>2 DEF SectionsOK
<1> QED BY <1>7, <1>8, <1>9 DEF HistoryInv, PagesOK, TagsApart, ReadmeOK

\* The section of the newest tag to come ends where that of the next one begins.
LEMMA SectionStep ==
  ASSUME HistoryInv, Hi!ReadSection
  PROVE  HistoryInv'
<1> DEFINE tags == reader.todo
           tag == CHOOSE t \in tags : \A u \in tags : u.created <= t.created
           older == Hi!Below(tags, tag.created)
           section == Hi!InRange(older, tag.created)
<1>1. /\ reader.step = "sections" /\ tags # {} /\ UNCHANGED <<log, hook, index, call>>
      /\ reader' = [reader EXCEPT !.todo = tags \ {tag}, !.seen = reader.seen \o Hi!SetToSeq(section)]
      /\ missed' = (missed \/ section \cap Hi!ToSet(reader.seen) # {})
  BY DEF Hi!ReadSection
<1>2. /\ reader \in ReadRequest /\ tags \in SUBSET NumberedTag /\ Hi!Youngest \in Nat /\ reader.seen \in Seq(Nat)
      /\ reader.want \in SUBSET Hi!Indexed /\ Hi!Indexed \in SUBSET (1..Hi!Youngest) /\ missed = FALSE
  BY DEF HistoryInv, HistoryTypeOK, ReadRequest, Hi!ReadersConsistent
<1>3. tag \in tags /\ \A u \in tags : u.created <= tag.created
  <2> DEFINE S == {t.created : t \in tags}
  <2>1. S \in SUBSET (0..Hi!Youngest) /\ S # {}
    BY <1>1, <1>2 DEF NumberedTag
  <2>2. \A t \in tags : t.created \in S
    OBVIOUS
  <2>3. \A x \in S : \E t \in tags : t.created = x
    OBVIOUS
  <2> HIDE DEF S
  <2>4. \E x \in S : \A y \in S : y <= x
    BY <1>2, <2>1, GreatestOf
  <2>5. \E t \in tags : \A u \in tags : u.created <= t.created
    BY <2>2, <2>3, <2>4
  <2> QED BY <2>5
<1> HIDE DEF tag
<1> DEFINE top == tag.created
<1>4. /\ top \in 1..Hi!Youngest /\ older \in 0..Hi!Youngest
      /\ \A t \in tags : t.created \in Nat /\ (t.created < top => t.created <= older)
      /\ older = 0 \/ \E t \in tags : t.created < top /\ t.created = older
  <2>1. Hi!Youngest \in Nat /\ \A t \in tags : t.created \in 1..Hi!Youngest
    BY <1>2 DEF NumberedTag, HistoryInv, HistoryTypeOK
  <2>2. top \in 1..Hi!Youngest /\ \A t \in tags : t.created \in Nat
    BY <1>3, <2>1
  <2>3. /\ older \in 0..Hi!Youngest
        /\ \A t \in tags : t.created < top => t.created <= older
        /\ older = 0 \/ \E t \in tags : t.created < top /\ t.created = older
    <3>1. HistoryTypeOK /\ tags \in SUBSET NumberedTag
      BY <1>2 DEF HistoryInv
    <3> HIDE DEF tags
    <3> QED BY <3>1, NextTag, Zenon
  <2> HIDE DEF top, older
  <2> QED BY <2>2, <2>3
<1>5. \A t \in tags : t = tag \/ t.created <= older
  <2>1. \A t \in tags : t.created = top => t = tag
    BY <1>3 DEF HistoryInv, TagsApart
  <2> QED BY <1>3, <1>4, <2>1
<1>6. section = {r \in Hi!Indexed : older < r /\ r <= top}
  BY DEF Hi!InRange
<1>7. older < top
  BY <1>4
<1> HIDE DEF older, section
<1>8. Hi!SetToSeq(section) \in Seq(Nat) /\ Hi!ToSet(Hi!SetToSeq(section)) = section
  <2>1. IsFiniteSet(Hi!Indexed) /\ section \in SUBSET Hi!Indexed /\ section \in SUBSET Nat
    BY <1>6, IndexedFinite DEF HistoryInv
  <2>2. IsFiniteSet(section)
    BY <2>1, FS_Subset
  <2> QED BY <2>1, <2>2, Listing
<1> DEFINE seen == reader.seen \o Hi!SetToSeq(section)
<1>9. seen \in Seq(Nat) /\ Hi!ToSet(seen) = Hi!ToSet(reader.seen) \cup section
  BY <1>2, <1>8, Joins, JoinedSet DEF Joined
<1> HIDE DEF seen
<1>10. /\ \A r \in reader.want : (\A t \in tags : t.created < r) => r \in Hi!ToSet(reader.seen)
       /\ \A r \in Hi!ToSet(reader.seen), t \in tags : t.created < r
       /\ \A r \in Hi!ToSet(reader.seen) : r \in Nat
  <2>1. \A r \in Hi!ToSet(reader.seen) : r \in Nat
    BY <1>2 DEF Hi!ToSet
  <2> QED BY <1>1, <2>1 DEF HistoryInv, SectionsOK
<1>11. missed' = FALSE
  <2>1. \A r \in section : ~(top < r)
    BY <1>2, <1>4, <1>6
  <2> QED BY <1>1, <1>2, <1>3, <1>10, <2>1
<1>12. /\ reader' \in ReadRequest /\ reader'.step = "sections" /\ reader'.todo = tags \ {tag}
       /\ reader'.want = reader.want /\ reader'.seen = seen
  BY <1>1, <1>2, <1>9 DEF ReadRequest, seen
<1>13. HistoryTypeOK' /\ Hi!ReadersConsistent'
  BY <1>1, <1>11, <1>12, ReaderGoes
<1>14. SectionsOK'
  <2>1. ASSUME NEW r \in reader.want, \A t \in tags \ {tag} : t.created < r
        PROVE  r \in Hi!ToSet(seen)
    <3>1. r \in Hi!Indexed /\ r \in 1..Hi!Youngest
      BY <1>2
    <3>2. older < r
      BY <1>4, <2>1, <3>1
    <3>3. CASE r <= top
      BY <1>6, <1>9, <3>1, <3>2, <3>3
    <3>4. CASE ~(r <= top)
      <4>1. \A t \in tags : t.created < r
        BY <1>3, <1>4, <3>1, <3>4
      <4> QED BY <1>9, <1>10, <4>1
    <3> QED BY <3>3, <3>4
  <2>2. ASSUME NEW r \in Hi!ToSet(seen), NEW t \in tags \ {tag}
        PROVE  t.created < r
    <3>1. CASE r \in Hi!ToSet(reader.seen)
      BY <1>10, <3>1
    <3>2. CASE r \in section
      <4>1. r \in Nat /\ older < r /\ t.created <= older /\ t.created \in Nat
        BY <1>2, <1>4, <1>5, <1>6, <3>2
      <4> QED BY <1>4, <4>1
    <3> QED BY <1>9, <3>1, <3>2
  <2> QED BY <1>12, <2>1, <2>2 DEF SectionsOK
<1>15. TagsApart'
  BY <1>12 DEF HistoryInv, TagsApart
<1> QED BY <1>12, <1>13, <1>14, <1>15 DEF HistoryInv, PagesOK, ReadmeOK

\* With the last section the changelog has every revision that was indexed when it began.
LEMMA ChangelogEnds ==
  ASSUME HistoryInv, Hi!EndChangelog
  PROVE  HistoryInv'
<1>1. /\ reader.step = "sections" /\ reader.todo = {} /\ reader' = Hi!Away /\ UNCHANGED <<log, hook, index, call>>
      /\ missed' = (missed \/ ~(reader.want \subseteq Hi!ToSet(reader.seen))) /\ missed = FALSE
  BY DEF Hi!EndChangelog, HistoryInv, Hi!ReadersConsistent, HistoryTypeOK
<1>2. reader.want \subseteq Hi!ToSet(reader.seen)
  BY <1>1 DEF HistoryInv, SectionsOK
<1> QED BY <1>1, <1>2, ReaderLeaves

\* A tree and its README.
LEMMA TreeReadStep ==
  ASSUME HistoryInv, (\E p \in Hi!Paths : Hi!StartRead(p)) \/ Hi!ReadList \/ Hi!ReadReadme
  PROVE  HistoryInv'
<1>0. HistoryTypeOK /\ reader \in ReadRequest /\ missed = FALSE /\ Hi!Youngest \in Nat
  BY DEF HistoryInv, HistoryTypeOK, Hi!ReadersConsistent
<1>1. ASSUME NEW p \in Hi!Paths, Hi!StartRead(p) PROVE HistoryInv'
  <2>1. /\ reader' = [Hi!Away EXCEPT !.step = "list", !.at = Hi!Youngest, !.part = p]
        /\ missed' = FALSE /\ UNCHANGED <<log, hook, index, call>>
    BY <1>0, <1>1 DEF Hi!StartRead
  <2>2. reader' \in ReadRequest /\ reader'.step = "list" /\ reader'.todo = {}
    <3>1. Hi!Youngest \in 0..Hi!Youngest /\ Hi!Away \in ReadRequest
      BY <1>0, AwayOK
    <3>2. reader' = [step |-> "list", at |-> Hi!Youngest, part |-> p, todo |-> {}, want |-> {}, seen |-> <<>>]
      BY <2>1 DEF Hi!Away
    <3>3. <<>> \in Seq(Nat)
      OBVIOUS
    <3> QED BY <3>1, <3>2, <3>3 DEF ReadRequest
  <2>3. HistoryTypeOK' /\ Hi!ReadersConsistent'
    BY <2>1, <2>2, ReaderGoes
  <2> QED BY <2>2, <2>3 DEF HistoryInv, PagesOK, TagsApart, SectionsOK, ReadmeOK
<1> DEFINE content == Hi!PrintAt(reader.part, reader.at)
           change == Hi!LastChange(reader.part, reader.at)
<1>2. reader.at \in Nat /\ content \in {0, change} /\ change \in Nat
  <2>1. reader.at \in Nat
    BY <1>0 DEF ReadRequest
  <2> QED BY <2>1, LastChanges DEF Hi!PrintAt
<1>3. ASSUME Hi!ReadList PROVE HistoryInv'
  <2>1. /\ reader' = (IF content = 0 THEN Hi!Away ELSE [reader EXCEPT !.step = "readme", !.seen = <<content>>])
        /\ missed' = FALSE /\ UNCHANGED <<log, hook, index, call>>
    BY <1>0, <1>3 DEF Hi!ReadList
  <2> HIDE DEF content
  <2>2. CASE content = 0
    BY <2>1, <2>2, ReaderLeaves
  <2>3. CASE content # 0
    <3> HIDE DEF change
    <3>1. content = change /\ <<content>> \in Seq(Nat) /\ <<content>>[1] = content
      BY <1>2, <2>3
    <3>2. /\ reader' \in ReadRequest /\ reader'.step = "readme" /\ reader'.todo = reader.todo
          /\ reader'.part = reader.part /\ reader'.at = reader.at /\ reader'.seen = <<content>>
      BY <1>0, <2>1, <2>3, <3>1 DEF ReadRequest
    <3>3. HistoryTypeOK' /\ Hi!ReadersConsistent'
      BY <2>1, <3>2, ReaderGoes
    <3>4. ReadmeOK'
      <4>1. Hi!LastChange(reader.part, reader.at)' = change
        BY <2>1, <3>2 DEF Hi!LastChange, Hi!Touching, change
      <4> QED BY <3>1, <3>2, <4>1 DEF ReadmeOK
    <3> QED BY <3>2, <3>3, <3>4 DEF HistoryInv, PagesOK, TagsApart, SectionsOK
  <2> QED BY <2>2, <2>3
<1>4. ASSUME Hi!ReadReadme PROVE HistoryInv'
  <2>1. /\ reader.step = "readme" /\ reader' = Hi!Away /\ UNCHANGED <<log, hook, index, call>>
        /\ missed' = (missed \/ content \notin {0, reader.seen[1]})
    BY <1>4 DEF Hi!ReadReadme
  <2>2. reader.seen[1] = change
    BY <2>1 DEF HistoryInv, ReadmeOK
  <2> HIDE DEF content, change
  <2> QED BY <1>0, <1>2, <2>1, <2>2, ReaderLeaves
<1> QED BY <1>1, <1>3, <1>4

\* Commits, branches and tags.
LEMMA RepositoryStep ==
  ASSUME HistoryInv, \/ \E p \in Hi!Paths : Hi!Commit(p) \/ Hi!DeleteRef(p)
                     \/ \E c \in Clients : (\E p \in Refs : Hi!CheckRef(c, p)) \/ Hi!CopyRef(c) \/ Hi!CopyRefused(c)
  PROVE  HistoryInv'
<1>0. HistoryTypeOK /\ call \in [Clients -> Refs \cup {Hi!Nothing}]
  BY DEF HistoryInv, HistoryTypeOK
<1>1. ASSUME NEW p \in Hi!Paths, Hi!Commit(p) \/ Hi!DeleteRef(p) PROVE HistoryInv'
  <2>1. (Hi!Record(p, "edit", "dev") \/ Hi!Record(p, "delete", "api")) /\ UNCHANGED <<index, call, reader, missed>>
    BY <1>1 DEF Hi!Commit, Hi!DeleteRef
  <2> QED BY <1>0, <2>1, RecordStep
<1>2. ASSUME NEW c \in Clients, Hi!CopyRef(c) PROVE HistoryInv'
  <2> DEFINE p == call[c]
             how == IF Hi!There(p, Hi!Youngest) THEN "edit" ELSE "add"
  <2>1. /\ p # Hi!Nothing /\ Hi!Record(p, how, "api") /\ call' = [call EXCEPT ![c] = Hi!Nothing]
        /\ UNCHANGED <<index, reader, missed>>
    BY <1>2 DEF Hi!CopyRef
  <2>2. p \in Hi!Paths /\ how \in {"add", "edit", "delete"} /\ call' \in [Clients -> Refs \cup {Hi!Nothing}]
    BY <1>0, <2>1 DEF Hi!Paths
  <2> HIDE DEF p, how
  <2> QED BY <2>1, <2>2, RecordStep
<1>3. ASSUME NEW c \in Clients, (\E p \in Refs : Hi!CheckRef(c, p)) \/ Hi!CopyRefused(c) PROVE HistoryInv'
  <2>1. call' \in [Clients -> Refs \cup {Hi!Nothing}] /\ UNCHANGED <<log, hook, index, reader, missed>>
    BY <1>0, <1>3 DEF Hi!CheckRef, Hi!CopyRefused
  <2>2. Hi!Youngest' = Hi!Youngest /\ Hi!Indexed' = Hi!Indexed
    BY <2>1 DEF Hi!Youngest, Hi!Indexed
  <2>3. ReadRequest' = ReadRequest
    BY <2>2 DEF ReadRequest, NumberedTag
  <2> QED BY <2>1, <2>2, <2>3
          DEF HistoryInv, HistoryTypeOK, Revision, PagesOK, TagsApart, SectionsOK, ReadmeOK, Hi!ReadersConsistent,
              Hi!LastChange, Hi!Touching
<1> QED BY <1>1, <1>2, <1>3

\* Every step keeps the invariant.
LEMMA HistoryStep == HistoryInv /\ [Hi!Next]_(Hi!vars) => HistoryInv'
<1> SUFFICES ASSUME HistoryInv, [Hi!Next]_(Hi!vars) PROVE HistoryInv'
  OBVIOUS
<1>1. CASE UNCHANGED Hi!vars
  BY <1>1 DEF HistoryInv, HistoryTypeOK, Revision, ReadRequest, NumberedTag, PagesOK, TagsApart, SectionsOK, ReadmeOK,
              Hi!ReadersConsistent, Hi!LastChange, Hi!Touching, Hi!Youngest, Hi!Indexed, Hi!vars
<1>2. CASE \E r \in Hi!Revisions : Hi!IndexRevision(r) \/ Hi!LoseCall(r)
  BY <1>2, IndexStep
<1>3. CASE \E p \in Hi!Paths : Hi!StartRead(p)
  BY <1>3, TreeReadStep
<1>4. CASE \/ \E p \in Hi!Paths : Hi!Commit(p) \/ Hi!DeleteRef(p)
           \/ \E c \in Clients : (\E p \in Refs : Hi!CheckRef(c, p)) \/ Hi!CopyRef(c) \/ Hi!CopyRefused(c)
  BY <1>4, RepositoryStep
<1> QED BY <1>1, <1>2, <1>3, <1>4, PageReadStep, ChangelogStarts, UnreleasedStep, SectionStep, ChangelogEnds, TreeReadStep
        DEF Hi!Next

\* The invariant of the history.
LEMMA HistoryInductive == Hi!Spec => []HistoryInv
<1> QED BY HistoryStarts, HistoryStep, PTL DEF Hi!Spec

\* Whoever reads in several steps gets one consistent answer, whatever is committed,
\* indexed late or out of order, or deleted between the steps: for any branches, tags and
\* requests, any limit of a page and any number of revisions.
THEOREM ReadersStayConsistent == Hi!Spec => []Hi!ReadersConsistent
<1>1. HistoryInv => Hi!ReadersConsistent
  BY DEF HistoryInv
<1> QED BY <1>1, HistoryInductive, PTL

-----------------------------------------------------------------------------
(***************************************************************************)
(* The feeds. No two rows have a date in common (RowsDated), so a set of   *)
(* entries has one order (NewestListed). While nothing changes and one     *)
(* request is under way, a page that has been read is still the one at its *)
(* offset, and goes where the list ends (CalmOK). While rows change, an    *)
(* entry that was there at the start only moves further back, so that one  *)
(* that is not in the list yet is in none of the places the list has had   *)
(* (GrowOK). The feed of a profile is cut above the dates that a kind with *)
(* more rows has not told (ProfileTells).                                  *)
(***************************************************************************)

\* The instance counts as the library does.
LEMMA FeedsCardinality == \A S : Fe!Cardinality(S) = Cardinality(S)
  BY DEF Fe!Cardinality, Cardinality

\* All of a set, each element once.
OnceEach(s, S) ==
  /\ Cardinality(S) \in Nat /\ s \in Seq(S) /\ Len(s) = Cardinality(S)
  /\ \A e \in S : \E i \in 1..Len(s) : s[i] = e
  /\ \A i, j \in 1..Len(s) : s[i] = s[j] => i = j

Dated(S) == IsFiniteSet(S) /\ (\A e \in S : e.date \in Nat) /\ \A e, f \in S : e.date = f.date => e = f

\* How many entries are newer than e, which is the place of e in the list.
Ahead(S, e) == Cardinality({f \in S : f.date > e.date})

Descending(s, S) ==
  /\ \A i \in 1..Len(s) : Ahead(S, s[i]) = i - 1
  /\ \A i, j \in 1..Len(s) : i < j => s[i].date > s[j].date

\* Entries of different dates can be put in order.
LEMMA NewestListed ==
  ASSUME NEW S, Dated(S)
  PROVE  OnceEach(Fe!NewestFirst(S), S) /\ Descending(Fe!NewestFirst(S), S)
<1> DEFINE key == [e \in S |-> e.date]
           n == Cardinality(S)
           s == Fe!NewestFirst(S)
<1>1. key \in [S -> Nat] /\ \A x, y \in S : key[x] = key[y] => x = y
  BY DEF Dated
<1>2. \A e \in S : RankOf(S, key, e) = Fe!Cardinality({f \in S : f.date > e.date})
  <2>1. \A e \in S : {f \in S : key[f] > key[e]} = {f \in S : f.date > e.date}
    OBVIOUS
  <2> HIDE DEF key
  <2> QED BY <2>1, FeedsCardinality DEF RankOf
<1>3. IsFiniteSet(S)
  BY DEF Dated
<1> HIDE DEF key
<1>4. Ranked(S, key)
  BY <1>1, <1>3, Ranks, Zenon
<1>5. /\ n \in Nat
      /\ \A x \in S : RankOf(S, key, x) \in 0..(n - 1)
      /\ \A x, y \in S : RankOf(S, key, x) = RankOf(S, key, y) => x = y
      /\ \A i \in 0..(n - 1) : \E x \in S : RankOf(S, key, x) = i
  BY <1>4, Zenon DEF Ranked
<1>6. s = [i \in 1..n |-> CHOOSE e \in S : Fe!Cardinality({f \in S : f.date > e.date}) = i - 1]
  BY FeedsCardinality DEF Fe!NewestFirst
<1> HIDE DEF s, n
<1>7. \A i \in 1..n : s[i] \in S /\ RankOf(S, key, s[i]) = i - 1
  <2> SUFFICES ASSUME NEW i \in 1..n PROVE s[i] \in S /\ RankOf(S, key, s[i]) = i - 1
    OBVIOUS
  <2>1. i - 1 \in 0..(n - 1)
    BY <1>5
  <2>2. \E e \in S : Fe!Cardinality({f \in S : f.date > e.date}) = i - 1
    BY <1>2, <1>5, <2>1
  <2>3. s[i] = CHOOSE e \in S : Fe!Cardinality({f \in S : f.date > e.date}) = i - 1
    BY <1>6
  <2>4. s[i] \in S /\ Fe!Cardinality({f \in S : f.date > s[i].date}) = i - 1
    BY <2>2, <2>3
  <2> QED BY <1>2, <2>4
<1>8. s \in Seq(S) /\ Len(s) = n
  <2>1. s \in [1..n -> S]
    BY <1>6, <1>7
  <2> QED BY <1>5, <2>1
<1>9. \A e \in S : \E i \in 1..n : s[i] = e
  <2> SUFFICES ASSUME NEW e \in S PROVE \E i \in 1..n : s[i] = e
    OBVIOUS
  <2>1. RankOf(S, key, e) \in 0..(n - 1)
    BY <1>5
  <2>2. RankOf(S, key, e) + 1 \in 1..n /\ (RankOf(S, key, e) + 1) - 1 = RankOf(S, key, e)
    BY <1>5, <2>1
  <2>3. s[RankOf(S, key, e) + 1] = e
    BY <1>5, <1>7, <2>2
  <2> QED BY <2>2, <2>3
<1>10. \A i, j \in 1..n : s[i] = s[j] => i = j
  <2> SUFFICES ASSUME NEW i \in 1..n, NEW j \in 1..n, s[i] = s[j] PROVE i = j
    OBVIOUS
  <2>1. i - 1 = j - 1
    BY <1>7
  <2> QED BY <2>1
<1>11. \A i \in 1..n : Ahead(S, s[i]) = i - 1
  BY <1>2, <1>7, FeedsCardinality DEF Ahead
<1>12. \A i, j \in 1..n : i < j => s[i].date > s[j].date
  <2> SUFFICES ASSUME NEW i \in 1..n, NEW j \in 1..n, i < j, ~(s[i].date > s[j].date) PROVE FALSE
    OBVIOUS
  <2>1. s[i] \in S /\ s[j] \in S /\ s[i].date \in Nat /\ s[j].date \in Nat
    BY <1>7 DEF Dated
  <2> DEFINE x == s[i]
             y == s[j]
             over(e) == {f \in S : f.date > e.date}
  <2>2. over(y) \subseteq over(x) /\ over(x) \subseteq S
    BY <2>1 DEF Dated
  <2>3. Cardinality(over(y)) <= Cardinality(over(x))
    <3> HIDE DEF over
    <3> QED BY <1>3, <2>2, FS_Subset
  <2>4. Cardinality(over(y)) = j - 1 /\ Cardinality(over(x)) = i - 1
    BY <1>11 DEF Ahead
  <2> QED BY <1>5, <2>3, <2>4
<1> QED BY <1>5, <1>8, <1>9, <1>10, <1>11, <1>12 DEF OnceEach, Descending, n, s

\* If fewer than n rows are read of those there are, all of them are.
LEMMA AllFetched ==
  ASSUME NEW S, IsFiniteSet(S), \A r \in S : r.touched \in Nat,
         \A r, q \in S : r.touched = q.touched => r = q,
         NEW n \in Nat, ~(Cardinality(Fe!Latest(S, n)) >= n)
  PROVE  Fe!Latest(S, n) = S
<1> DEFINE key == [r \in S |-> r.touched]
           L == Fe!Latest(S, n)
           m == Cardinality(S)
<1>1. key \in [S -> Nat] /\ \A x, y \in S : key[x] = key[y] => x = y
  OBVIOUS
<1>2. \A r \in S : RankOf(S, key, r) = Fe!Cardinality({q \in S : q.touched > r.touched})
  <2>1. \A r \in S : {q \in S : key[q] > key[r]} = {q \in S : q.touched > r.touched}
    OBVIOUS
  <2> HIDE DEF key
  <2> QED BY <2>1, FeedsCardinality DEF RankOf
<1> HIDE DEF key
<1>4. Ranked(S, key)
  BY <1>1, Ranks, Zenon
<1>5. /\ m \in Nat
      /\ \A x \in S : RankOf(S, key, x) \in 0..(m - 1)
      /\ \A i \in 0..(m - 1) : \E x \in S : RankOf(S, key, x) = i
  BY <1>4, Zenon DEF Ranked
<1>6. L = {r \in S : RankOf(S, key, r) < n}
  BY <1>2 DEF Fe!Latest
<1> HIDE DEF L, m
<1> SUFFICES ASSUME NEW x \in S, ~(RankOf(S, key, x) < n) PROVE FALSE
  BY <1>6 DEF L
<1>7. n < m
  BY <1>5
<1> DEFINE rank == [r \in L |-> RankOf(S, key, r)]
<1>8. rank \in Surjection(L, 0..(n - 1))
  <2>1. \A r \in L : rank[r] = RankOf(S, key, r)
    OBVIOUS
  <2>2. rank \in [L -> 0..(n - 1)]
    BY <1>5, <1>6, <2>1
  <2>3. ASSUME NEW i \in 0..(n - 1) PROVE \E r \in L : rank[r] = i
    <3>1. i \in 0..(m - 1) /\ i < n
      BY <1>5, <1>7
    <3> HIDE DEF rank
    <3> QED BY <1>5, <1>6, <2>1, <3>1
  <2> QED BY <2>2, <2>3 DEF Surjection
<1>9. IsFiniteSet(L) /\ Cardinality(L) \in Nat
  <2>1. L \subseteq S
    BY <1>6
  <2> QED BY <2>1, FS_Subset, FS_CardinalityType
<1>10. Cardinality(0..(n - 1)) <= Cardinality(L) /\ Cardinality(0..(n - 1)) = n
  <2>1. Cardinality(0..(n - 1)) <= Cardinality(L)
    BY <1>8, <1>9, FS_Surjection
  <2>2. Cardinality(0..(n - 1)) = n
    BY FS_Interval
  <2> QED BY <2>1, <2>2
<1> QED BY <1>9, <1>10 DEF L

FeedKinds == {"revision", "pull", "pipeline"}
FeedRow == [kind : FeedKinds, at : Nat, touched : Nat, status : {"OPEN", "MERGED", "CLOSED"}, ended : Nat]
FeedEntry == [kind : FeedKinds \cup {"MERGED", "CLOSED"}, date : Nat]
DashboardLoad ==
  [n : Nat, offset : Nat, append : BOOLEAN, read : BOOLEAN, items : Seq(FeedEntry), hasMore : BOOLEAN]

\* No two rows have a date in common.
RowsDated ==
  /\ now \in Nat /\ rows \in SUBSET FeedRow /\ IsFiniteSet(rows)
  /\ \A r \in rows : /\ r.at \in 1..now /\ r.touched \in 1..now /\ r.ended \in 0..now
                     /\ (r.ended = 0) <=> (r.status = "OPEN")
  /\ \A r, q \in rows : /\ r.at = q.at \/ r.touched = q.touched \/ (r.ended # 0 /\ r.ended = q.ended) => r = q
                        /\ r.at # q.ended

FeedsTypeOK ==
  /\ RowsDated /\ offset \in Nat /\ sent \in Nat /\ loads \in SUBSET DashboardLoad
  /\ feed \in Seq(FeedEntry) /\ since \in 0..now

\* Without changes and with one request at a time, a page that has been read is still
\* the page at its offset, and one that is to be appended goes where the list ends.
PageInPlace(l) ==
  /\ l.read => l.items = Fe!Cut(l.offset) /\ l.hasMore = Fe!ActivityFeed(l.offset).hasMore
  /\ IF l.append
     THEN loaded /\ ~error /\ l.offset = offset + Page /\ feed = Fe!Upto(Fe!Merged, offset + Page)
     ELSE l.offset = 0

\* One request at a time, and no row has changed since the first of them.
Calm == alone /\ now = since

\* The list is what the API would cut out now.
ListInPlace ==
  /\ feed = Fe!Upto(Fe!Merged, offset + Page)
  /\ more = (offset + Page < Len(Fe!Merged) \/ Fe!HitFetchLimit)

CalmOK ==
  Calm => /\ \A l \in loads : PageInPlace(l)
          /\ loads = {} /\ loaded /\ ~error => ListInPlace

\* No kind has more rows than a request reads.
Few == \A k \in FeedKinds : Cardinality({r \in rows : r.kind = k}) <= Batch

Within(list, e) == \E i \in 1..Len(list) : list[i] = e

\* What of E was there at s and is not in the list is at place n or further back, is older
\* than all of the list, and there is more to ask for.
Covers(E, s, list, n, left) ==
  \A e \in E :
    e.date <= s /\ ~Within(list, e) =>
      left /\ Ahead(E, e) >= n /\ \A i \in 1..Len(list) : list[i].date > e.date

PageGrows(E, s, list, end, l) ==
  IF l.append
  THEN /\ l.offset = end /\ Covers(E, s, list, l.offset, TRUE)
       /\ l.read => Covers(E, s, list \o l.items, l.offset + Page, l.hasMore)
  ELSE /\ l.offset = 0
       /\ l.read => Covers(E, s, l.items, l.offset + Page, l.hasMore)

GrowOK ==
  alone /\ Few =>
    /\ \A l \in loads : (l.append => loaded) /\ PageGrows(Fe!Entries(rows), since, feed, offset + Page, l)
    /\ loads = {} /\ loaded /\ ~error => Covers(Fe!Entries(rows), since, feed, offset + Page, more)

AloneOK == alone => \A l, m \in loads : l = m

FeedsInv == FeedsTypeOK /\ AloneOK /\ CalmOK /\ GrowOK

\* The entries of any of the rows are of different dates.
LEMMA EntriesDated ==
  ASSUME RowsDated, NEW S \in SUBSET rows
  PROVE  /\ Dated(Fe!Entries(S)) /\ Fe!Entries(S) \in SUBSET FeedEntry
         /\ \A r \in S : /\ [kind |-> r.kind, date |-> r.at] \in Fe!Entries(S)
                         /\ r.ended # 0 => [kind |-> r.status, date |-> r.ended] \in Fe!Entries(S)
         /\ \A e \in Fe!Entries(S) : \E r \in S : \/ e = [kind |-> r.kind, date |-> r.at]
                                                  \/ e = [kind |-> r.status, date |-> r.ended] /\ r.ended # 0
<1> DEFINE E == Fe!Entries(S)
<1>1. \A e : e \in E <=> \E r \in S : \/ e = [kind |-> r.kind, date |-> r.at]
                                      \/ e = [kind |-> r.status, date |-> r.ended] /\ r.ended # 0
  <2>1. \A e, r : e \in Fe!EntriesOf(r) <=> \/ e = [kind |-> r.kind, date |-> r.at]
                                            \/ e = [kind |-> r.status, date |-> r.ended] /\ r.ended # 0
    BY DEF Fe!EntriesOf
  <2>2. \A e : e \in E <=> \E r \in S : e \in Fe!EntriesOf(r)
    BY DEF Fe!Entries
  <2> QED BY <2>1, <2>2
<1> HIDE DEF E
<1>2. \A r \in S : /\ r \in rows /\ r.kind \in FeedKinds /\ r.status \in {"OPEN", "MERGED", "CLOSED"}
                   /\ r.at \in Nat /\ r.ended \in Nat /\ r.at <= now /\ r.ended <= now
                   /\ (r.ended = 0 <=> r.status = "OPEN")
  BY DEF RowsDated, FeedRow
<1>3. E \in SUBSET FeedEntry /\ \A e \in E : e.date \in 0..now
  <2>1. ASSUME NEW e \in E PROVE e \in FeedEntry /\ e.date \in 0..now
    <3>1. PICK r \in S : \/ e = [kind |-> r.kind, date |-> r.at]
                         \/ e = [kind |-> r.status, date |-> r.ended] /\ r.ended # 0
      BY <1>1
    <3>2. CASE e = [kind |-> r.kind, date |-> r.at]
      BY <1>2, <3>2 DEF FeedEntry, RowsDated
    <3>3. CASE e = [kind |-> r.status, date |-> r.ended] /\ r.ended # 0
      BY <1>2, <3>3 DEF FeedEntry, RowsDated
    <3> QED BY <3>1, <3>2, <3>3
  <2> QED BY <2>1
<1>4. ASSUME NEW e \in E, NEW f \in E, e.date = f.date PROVE e = f
  <2>1. PICK r \in S : \/ e = [kind |-> r.kind, date |-> r.at]
                       \/ e = [kind |-> r.status, date |-> r.ended] /\ r.ended # 0
    BY <1>1
  <2>2. PICK q \in S : \/ f = [kind |-> q.kind, date |-> q.at]
                       \/ f = [kind |-> q.status, date |-> q.ended] /\ q.ended # 0
    BY <1>1
  <2>3. /\ r.at = q.at \/ (r.ended # 0 /\ r.ended = q.ended) => r = q
        /\ r.at # q.ended /\ q.at # r.ended
    BY DEF RowsDated
  <2> QED BY <1>4, <2>1, <2>2, <2>3
<1>5. IsFiniteSet(E)
  <2> DEFINE date == [e \in E |-> e.date]
  <2>1. date \in Injection(E, 0..now)
    BY <1>3, <1>4 DEF Injection, IsInjective
  <2>2. IsFiniteSet(0..now)
    BY FS_Interval DEF RowsDated
  <2> HIDE DEF date
  <2> QED BY <2>1, <2>2, FS_Injection
<1> QED BY <1>1, <1>3, <1>4, <1>5 DEF E, Dated

\* What a request reads is some of the rows, and all of them unless it hits a limit.
LEMMA RowsFetched ==
  ASSUME RowsDated
  PROVE  LET some == UNION {Fe!Fetched(k, Batch) : k \in {"revision", "pull", "pipeline"}}
         IN  some \in SUBSET rows /\ (~Fe!HitFetchLimit => some = rows)
<1> DEFINE some == UNION {Fe!Fetched(k, Batch) : k \in {"revision", "pull", "pipeline"}}
           own(k) == {r \in rows : r.kind = k}
<1>1. some \in SUBSET rows
  BY DEF Fe!Fetched, Fe!Latest
<1>2. ASSUME ~Fe!HitFetchLimit, NEW k \in {"revision", "pull", "pipeline"} PROVE Fe!Fetched(k, Batch) = own(k)
  <2>1. ~(Cardinality(Fe!Fetched(k, Batch)) >= Batch)
    BY <1>2, FeedsCardinality DEF Fe!HitFetchLimit
  <2>2. IsFiniteSet(own(k)) /\ (\A r \in own(k) : r.touched \in Nat) /\ \A r, q \in own(k) : r.touched = q.touched => r = q
    BY FS_Subset DEF RowsDated
  <2>3. Fe!Fetched(k, Batch) = Fe!Latest(own(k), Batch)
    BY DEF Fe!Fetched
  <2> HIDE DEF own
  <2> QED BY <2>1, <2>2, <2>3, AllFetched, FeedsAssumption
<1>3. ASSUME ~Fe!HitFetchLimit PROVE some = rows
  <2>1. \A r \in rows : r.kind \in {"revision", "pull", "pipeline"}
    BY DEF RowsDated, FeedRow, FeedKinds
  <2>2. \A r \in rows : r \in own(r.kind)
    OBVIOUS
  <2>3. \A r \in rows : r \in Fe!Fetched(r.kind, Batch)
    BY <1>2, <1>3, <2>1, <2>2
  <2>4. rows \subseteq some
    BY <2>1, <2>3
  <2> QED BY <1>1, <2>4
<1> QED BY <1>1, <1>3

\* The feed of the dashboard has all entries, the newest first, if no kind has more rows
\* than are fetched.
LEMMA MergedListed ==
  ASSUME RowsDated
  PROVE  /\ Fe!Merged \in Seq(FeedEntry) /\ Len(Fe!Merged) \in Nat
         /\ ~Fe!HitFetchLimit => Fe!Merged = Fe!NewestFirst(Fe!Entries(rows))
<1> DEFINE some == UNION {Fe!Fetched(k, Batch) : k \in {"revision", "pull", "pipeline"}}
<1>1. some \in SUBSET rows /\ (~Fe!HitFetchLimit => some = rows)
  BY RowsFetched
<1>2. Fe!Merged = Fe!NewestFirst(Fe!Entries(some))
  BY DEF Fe!Merged
<1> HIDE DEF some
<1>3. Dated(Fe!Entries(some)) /\ Fe!Entries(some) \in SUBSET FeedEntry
  BY <1>1, EntriesDated
<1>4. OnceEach(Fe!Merged, Fe!Entries(some))
  BY <1>2, <1>3, NewestListed
<1>5. Fe!Merged \in Seq(Fe!Entries(some)) /\ Fe!Entries(some) \subseteq FeedEntry
  BY <1>3, <1>4, Zenon DEF OnceEach
<1>6. Fe!Merged \in Seq(FeedEntry)
  BY <1>5
<1> QED BY <1>1, <1>2, <1>6

\* What the feed is made of: entries of the rows, those of all rows that are not crowded out.
MadeOf(E) ==
  /\ E \subseteq Fe!Entries(rows) /\ Dated(E)
  /\ OnceEach(Fe!Merged, E) /\ Descending(Fe!Merged, E)
  /\ \A r \in rows : ~Fe!Crowded(r) => Fe!EntriesOf(r) \subseteq E

LEMMA MergedMadeOf ==
  ASSUME RowsDated
  PROVE  \E E : MadeOf(E)
<1> DEFINE some == UNION {Fe!Fetched(k, Batch) : k \in {"revision", "pull", "pipeline"}}
           E == Fe!Entries(some)
<1>1. some \in SUBSET rows
  BY RowsFetched
<1>2. ASSUME NEW r \in rows, ~Fe!Crowded(r) PROVE r \in some
  <2> DEFINE newer == {q \in rows : q.kind = r.kind /\ q.touched > r.touched}
  <2>1. newer \subseteq rows /\ IsFiniteSet(rows)
    BY DEF RowsDated
  <2>2. Cardinality(newer) \in Nat
    <3> HIDE DEF newer
    <3> QED BY <2>1, FS_Subset, FS_CardinalityType
  <2>3. ~(Cardinality(newer) >= Batch)
    BY <1>2, FeedsCardinality DEF Fe!Crowded
  <2>4. newer = {q \in {p \in rows : p.kind = r.kind} : q.touched > r.touched}
    OBVIOUS
  <2>5. Cardinality(newer) < Batch
    <3> HIDE DEF newer
    <3> QED BY <2>2, <2>3, FeedsAssumption
  <2>6. Fe!Cardinality({q \in {p \in rows : p.kind = r.kind} : q.touched > r.touched}) < Batch
    <3> HIDE DEF newer
    <3> QED BY <2>4, <2>5, FeedsCardinality
  <2>7. r \in Fe!Fetched(r.kind, Batch)
    BY <2>6 DEF Fe!Fetched, Fe!Latest
  <2>8. r.kind \in {"revision", "pull", "pipeline"}
    BY DEF RowsDated, FeedRow, FeedKinds
  <2> QED BY <2>7, <2>8
<1>3. Fe!Merged = Fe!NewestFirst(E)
  BY DEF Fe!Merged
<1> HIDE DEF some
<1>4. Dated(E)
  BY <1>1, EntriesDated
<1>5. OnceEach(Fe!Merged, E) /\ Descending(Fe!Merged, E)
  BY <1>3, <1>4, NewestListed
<1>6. E \subseteq Fe!Entries(rows)
  BY <1>1 DEF Fe!Entries
<1>7. \A r \in rows : ~Fe!Crowded(r) => Fe!EntriesOf(r) \subseteq E
  BY <1>2 DEF Fe!Entries
<1> QED BY <1>4, <1>5, <1>6, <1>7 DEF MadeOf

\* All of them if no kind has more rows than are read.
LEMMA FewMakeAll ==
  ASSUME RowsDated, Few, NEW E, MadeOf(E)
  PROVE  E = Fe!Entries(rows)
<1>1. ASSUME NEW r \in rows PROVE ~Fe!Crowded(r)
  <2> DEFINE own == {q \in rows : q.kind = r.kind}
             newer == {q \in rows : q.kind = r.kind /\ q.touched > r.touched}
  <2>1. newer \subseteq own \ {r} /\ own \subseteq rows /\ r \in own
    BY DEF RowsDated
  <2>2. r.kind \in FeedKinds /\ IsFiniteSet(rows)
    BY DEF RowsDated, FeedRow
  <2>3. Cardinality(own) <= Batch
    BY <2>2 DEF Few
  <2> HIDE DEF own, newer
  <2>4. IsFiniteSet(own) /\ IsFiniteSet(own \ {r}) /\ Cardinality(own) \in Nat
    BY <2>1, <2>2, FS_Subset, FS_RemoveElement, FS_CardinalityType
  <2>5. Cardinality(own \ {r}) = Cardinality(own) - 1
    BY <2>1, <2>4, FS_RemoveElement
  <2>6. Cardinality(newer) <= Cardinality(own \ {r}) /\ Cardinality(newer) \in Nat
    BY <2>1, <2>4, FS_Subset, FS_CardinalityType
  <2>7. ~(Cardinality(newer) >= Batch)
    BY <2>3, <2>4, <2>5, <2>6, FeedsAssumption
  <2> QED BY <2>7, FeedsCardinality DEF Fe!Crowded, newer
<1> QED BY <1>1 DEF MadeOf, Fe!Entries

\* The beginning of a sequence.
LEMMA UptoOf ==
  ASSUME NEW S, NEW s \in Seq(S), NEW n \in Nat
  PROVE  /\ Fe!Upto(s, n) \in Seq(S)
         /\ Len(Fe!Upto(s, n)) = IF n < Len(s) THEN n ELSE Len(s)
         /\ \A i \in 1..Len(Fe!Upto(s, n)) : i \in 1..Len(s) /\ Fe!Upto(s, n)[i] = s[i]
         /\ n >= Len(s) => Fe!Upto(s, n) = s
<1> DEFINE m == IF n < Len(s) THEN n ELSE Len(s)
           part == SubSeq(s, 1, m)
<1>1. Len(s) \in Nat /\ m \in Nat /\ m <= Len(s) /\ (n >= Len(s) => m = Len(s))
  OBVIOUS
<1>2. Fe!Upto(s, n) = part
  BY DEF Fe!Upto
<1>3. \A i \in 1..m : s[i] \in S
  BY <1>1
<1>m. m = IF n < Len(s) THEN n ELSE Len(s)
  OBVIOUS
<1> HIDE DEF m
<1>4. /\ part \in Seq(S)
      /\ Len(part) = IF 1 <= m THEN m - 1 + 1 ELSE 0
      /\ \A i \in 1..(m - 1 + 1) : part[i] = s[1 + i - 1]
  BY <1>1, <1>3, SubSeqProperties
<1> HIDE DEF part
<1>5. Len(part) = m /\ \A i \in 1..m : i \in 1..Len(s) /\ part[i] = s[i]
  BY <1>1, <1>4
<1>6. n >= Len(s) => part = s
  BY <1>1, <1>4, <1>5, SeqEqual
<1> QED BY <1>2, <1>4, <1>5, <1>6, <1>m

\* A page of the list.
LEMMA CutOf ==
  ASSUME RowsDated, NEW start \in Nat
  PROVE  Stretch(Fe!Cut(start), FeedEntry, Fe!Merged, start + 1, start + Page)
<1> DEFINE s == Fe!Merged
           m == IF start + Page < Len(s) THEN start + Page ELSE Len(s)
           part == SubSeq(s, start + 1, m)
<1>1. s \in Seq(FeedEntry) /\ Len(s) \in Nat /\ start + 1 \in Nat /\ start + Page \in Nat
  BY MergedListed, FeedsAssumption
<1>2. Fe!Cut(start) = part
  BY DEF Fe!Cut
<1> HIDE DEF s
<1>3. m \in Int /\ m <= start + Page /\ m <= Len(s) /\ (m = start + Page \/ m = Len(s))
  BY <1>1
<1> HIDE DEF m
<1>4. \A i \in (start + 1)..m : s[i] \in FeedEntry
  BY <1>1, <1>3
<1>5. /\ part \in Seq(FeedEntry)
      /\ Len(part) = IF start + 1 <= m THEN m - (start + 1) + 1 ELSE 0
      /\ \A i \in 1..(m - (start + 1) + 1) : part[i] = s[(start + 1) + i - 1]
  BY <1>1, <1>3, <1>4, SubSeqProperties
<1> HIDE DEF part
<1>6. Len(part) = (IF start + 1 <= m THEN m - (start + 1) + 1 ELSE 0) /\ Len(s) \in Nat /\ m \in Int
  BY <1>1, <1>3, <1>5
<1>7. Len(part) \in Nat /\ (Len(part) = 0 \/ (start + 1) + Len(part) = m + 1) /\ (start + 1) + Len(part) > m
  BY <1>6
<1>8. \A i \in 1..Len(part) : i \in 1..(m - (start + 1) + 1)
  BY <1>6
<1>9. \A i \in 1..Len(part) : part[i] = s[(start + 1) + i - 1]
  BY <1>5, <1>8
<1>10. Len(part) = 0 \/ ((start + 1) + Len(part) <= Len(s) + 1 /\ (start + 1) + Len(part) <= (start + Page) + 1)
  BY <1>1, <1>3, <1>7
<1>11. (start + 1) + Len(part) > Len(s) \/ (start + 1) + Len(part) > start + Page
  BY <1>3, <1>7
<1> QED BY <1>2, <1>5, <1>7, <1>9, <1>10, <1>11 DEF Stretch, s

\* The page that comes next is the next of the list.
LEMMA PageAppended ==
  ASSUME RowsDated, NEW start \in Nat
  PROVE  Fe!Upto(Fe!Merged, start) \o Fe!Cut(start) = Fe!Upto(Fe!Merged, start + Page)
<1> DEFINE s == Fe!Merged
           a == Fe!Upto(s, start)
           b == Fe!Cut(start)
           c == Fe!Upto(s, start + Page)
<1>1. s \in Seq(FeedEntry) /\ Len(s) \in Nat /\ start + Page \in Nat /\ Page \in Nat
  BY MergedListed, FeedsAssumption
<1>2. Stretch(b, FeedEntry, s, start + 1, start + Page)
  BY CutOf
<1> HIDE DEF s, b
<1>3. /\ a \in Seq(FeedEntry) /\ c \in Seq(FeedEntry)
      /\ Len(a) = IF start < Len(s) THEN start ELSE Len(s)
      /\ Len(c) = IF start + Page < Len(s) THEN start + Page ELSE Len(s)
      /\ \A i \in 1..Len(a) : a[i] = s[i]
      /\ \A i \in 1..Len(c) : c[i] = s[i]
  BY <1>1, UptoOf
<1> HIDE DEF a, c
<1> DEFINE u == a \o b
<1>4. Joined(u, FeedEntry, a, b)
  BY <1>2, <1>3, Joins DEF Stretch
<1> HIDE DEF u
<1>5. /\ Len(a) \in Nat /\ Len(b) \in Nat /\ u \in Seq(FeedEntry) /\ Len(u) = Len(a) + Len(b)
      /\ \A i \in 1..Len(a) : u[i] = a[i]
      /\ \A i \in 1..Len(b) : u[Len(a) + i] = b[i]
      /\ Len(b) = 0 \/ ((start + 1) + Len(b) <= Len(s) + 1 /\ (start + 1) + Len(b) <= start + Page + 1)
      /\ (start + 1) + Len(b) > Len(s) \/ (start + 1) + Len(b) > start + Page
      /\ \A i \in 1..Len(b) : b[i] = s[(start + 1) + i - 1]
  BY <1>2, <1>4, Zenon DEF Joined, Stretch
<1>n. /\ Len(a) \in Nat /\ Len(b) \in Nat /\ Len(s) \in Nat /\ Page \in Nat /\ Len(u) = Len(a) + Len(b)
      /\ Len(a) = (IF start < Len(s) THEN start ELSE Len(s))
      /\ Len(c) = (IF start + Page < Len(s) THEN start + Page ELSE Len(s))
      /\ Len(b) = 0 \/ ((start + 1) + Len(b) <= Len(s) + 1 /\ (start + 1) + Len(b) <= start + Page + 1)
      /\ (start + 1) + Len(b) > Len(s) \/ (start + 1) + Len(b) > start + Page
  BY <1>1, <1>3, <1>5
<1>6. Len(u) = Len(c)
  BY <1>n
<1>7. \A i \in 1..Len(u) : u[i] = c[i]
  <2> SUFFICES ASSUME NEW i \in 1..Len(u) PROVE u[i] = c[i]
    OBVIOUS
  <2>1. c[i] = s[i]
    BY <1>3, <1>6
  <2>2. CASE i <= Len(a)
    BY <1>3, <1>5, <2>1, <2>2
  <2>3. CASE i > Len(a)
    <3> DEFINE j == i - start
    <3>1. j \in 1..Len(b) /\ Len(a) + j = i /\ (start + 1) + j - 1 = i
      <4>1. i \in Nat /\ i <= Len(a) + Len(b) /\ i > Len(a)
        BY <1>n, <2>3
      <4>2. Len(b) # 0 /\ Len(a) = start
        BY <1>n, <4>1
      <4>3. Len(b) \in Nat
        BY <1>n
      <4> QED BY <4>1, <4>2, <4>3
    <3> HIDE DEF j
    <3>2. u[i] = b[j] /\ b[j] = s[i]
      BY <1>5, <3>1
    <3> QED BY <2>1, <3>2
  <2> QED BY <1>5, <2>2, <2>3
<1>8. u = c
  BY <1>3, <1>5, <1>6, <1>7, SeqEqual
<1> QED BY <1>8 DEF u, a, b, c, s

\* What is new comes before what was there.
LEMMA CoversGrow ==
  ASSUME NEW E, NEW F, IsFiniteSet(F), E \subseteq F, NEW s, \A e \in F \ E : ~(e.date <= s),
         NEW list, NEW n \in Nat, NEW left, Covers(E, s, list, n, left)
  PROVE  Covers(F, s, list, n, left)
<1> SUFFICES ASSUME NEW e \in F, e.date <= s, ~Within(list, e)
             PROVE  left /\ Ahead(F, e) >= n /\ \A i \in 1..Len(list) : list[i].date > e.date
  BY DEF Covers
<1>1. e \in E
  OBVIOUS
<1>2. left /\ Ahead(E, e) >= n /\ \A i \in 1..Len(list) : list[i].date > e.date
  BY <1>1 DEF Covers
<1> DEFINE A == {f \in E : f.date > e.date}
           B == {f \in F : f.date > e.date}
<1>3. A \subseteq B /\ B \subseteq F
  OBVIOUS
<1>4. Cardinality(A) >= n
  BY <1>2 DEF Ahead
<1> HIDE DEF A, B
<1>5. IsFiniteSet(B)
  BY <1>3, FS_Subset
<1>6. IsFiniteSet(A) /\ Cardinality(A) <= Cardinality(B)
  BY <1>3, <1>5, FS_Subset
<1>7. Cardinality(A) \in Nat /\ Cardinality(B) \in Nat
  BY <1>5, <1>6, FS_CardinalityType
<1>8. Cardinality(B) >= n
  BY <1>4, <1>6, <1>7
<1> QED BY <1>2, <1>8 DEF Ahead, B

\* The page at the place up to which a list covers makes it cover one page more.
LEMMA PageCovers ==
  ASSUME RowsDated, Few, NEW list, NEW start \in Nat, NEW s, NEW u,
         Joined(u, FeedEntry, list, Fe!Cut(start)), Covers(Fe!Entries(rows), s, list, start, TRUE)
  PROVE  Covers(Fe!Entries(rows), s, u, start + Page, Fe!ActivityFeed(start).hasMore)
<1> DEFINE E == Fe!Entries(rows)
           m == Fe!Merged
           b == Fe!Cut(start)
           left == Fe!ActivityFeed(start).hasMore
<1>1. OnceEach(m, E) /\ Descending(m, E)
  <2>1. PICK X : MadeOf(X)
    BY MergedMadeOf
  <2>2. X = E
    BY <2>1, FewMakeAll
  <2> QED BY <2>1, <2>2 DEF MadeOf
<1>2. Stretch(b, FeedEntry, m, start + 1, start + Page)
  BY CutOf
<1>3. start + Page < Len(m) => left
  BY DEF Fe!ActivityFeed
<1>4. Joined(u, FeedEntry, list, b) /\ Covers(E, s, list, start, TRUE) /\ Page \in Nat
  BY FeedsAssumption
<1> HIDE DEF E, m, b, left
<1> SUFFICES ASSUME NEW e \in E, e.date <= s, ~Within(u, e)
             PROVE  left /\ Ahead(E, e) >= start + Page /\ \A i \in 1..Len(u) : u[i].date > e.date
  BY DEF Covers, E, left
<1>5. /\ Len(list) \in Nat /\ Len(b) \in Nat /\ Len(u) = Len(list) + Len(b)
      /\ \A i \in 1..Len(list) : i \in 1..Len(u) /\ u[i] = list[i]
      /\ \A i \in 1..Len(b) : Len(list) + i \in 1..Len(u) /\ u[Len(list) + i] = b[i]
  BY <1>4 DEF Joined
<1>6. ~Within(list, e)
  BY <1>5 DEF Within
<1>7. Ahead(E, e) >= start /\ \A i \in 1..Len(list) : list[i].date > e.date
  BY <1>4, <1>6 DEF Covers
<1>8. PICK j \in 1..Len(m) : m[j] = e
  BY <1>1 DEF OnceEach
<1>9. Ahead(E, e) = j - 1 /\ Len(m) \in Nat /\ \A i \in 1..Len(m) : i < j => m[i].date > e.date
  BY <1>1, <1>8 DEF Descending, OnceEach
<1>10. /\ Len(b) = 0 \/ ((start + 1) + Len(b) <= Len(m) + 1 /\ (start + 1) + Len(b) <= (start + Page) + 1)
       /\ (start + 1) + Len(b) > Len(m) \/ (start + 1) + Len(b) > start + Page
       /\ \A i \in 1..Len(b) : b[i] = m[(start + 1) + i - 1]
  BY <1>2 DEF Stretch
<1>11. j > start + Page
  <2> SUFFICES ASSUME ~(j > start + Page) PROVE FALSE
    OBVIOUS
  <2> DEFINE i == j - start
  <2>1. i \in 1..Len(b) /\ (start + 1) + i - 1 = j
    BY <1>4, <1>5, <1>7, <1>9, <1>10
  <2> HIDE DEF i
  <2>2. u[Len(list) + i] = e /\ Len(list) + i \in 1..Len(u)
    BY <1>5, <1>8, <1>10, <2>1
  <2> QED BY <2>2 DEF Within
<1>12. left /\ Ahead(E, e) >= start + Page
  BY <1>3, <1>4, <1>9, <1>11
<1>13. ASSUME NEW i \in 1..Len(u) PROVE u[i].date > e.date
  <2>1. CASE i <= Len(list)
    <3>1. i \in 1..Len(list)
      BY <1>5, <2>1
    <3> QED BY <1>5, <1>7, <3>1
  <2>2. CASE ~(i <= Len(list))
    <3> DEFINE k == i - Len(list)
               p == (start + 1) + k - 1
    <3>1. k \in 1..Len(b) /\ Len(list) + k = i
      BY <1>5, <2>2
    <3>2. p \in 1..Len(m) /\ p < j
      BY <1>4, <1>5, <1>9, <1>10, <1>11, <3>1
    <3>3. u[i] = b[k] /\ b[k] = m[p]
      BY <1>5, <1>10, <3>1
    <3> HIDE DEF k, p
    <3> QED BY <1>9, <3>2, <3>3
  <2> QED BY <2>1, <2>2
<1> QED BY <1>12, <1>13

\* A profile that tells how a pull request ended tells its opening too.
LEMMA ProfileTells == RowsDated => Fe!ProfileTellsBoth
<1> SUFFICES ASSUME RowsDated, NEW r \in rows
             PROVE  LET dates == {Fe!ProfileFeed[i].date : i \in DOMAIN Fe!ProfileFeed}
                    IN  r.ended \in dates => r.at \in dates \/ Fe!Cardinality(dates) = (3 * ProfileTake) \div 2
  BY DEF Fe!ProfileTellsBoth
<1> DEFINE own == Fe!Latest({q \in rows : q.kind = "revision"}, ProfileTake)
                  \cup Fe!Latest({q \in rows : q.kind = "pull" /\ q.status # "CLOSED"}, ProfileTake)
           E == Fe!Entries(own)
           all == Fe!NewestFirst(E)
           c == (3 * ProfileTake) \div 2
           list == Fe!ProfileFeed
           dates == {list[i].date : i \in DOMAIN list}
<1>1. own \in SUBSET rows
  BY DEF Fe!Latest
<1>2. list = Fe!Upto(all, c)
  BY DEF Fe!ProfileFeed
<1>3. c \in Nat
  <2>1. 3 * ProfileTake \in Nat
    BY FeedsAssumption
  <2>2. \A n \in Nat : n \div 2 \in Nat
    OBVIOUS
  <2> QED BY <2>1, <2>2
<1> HIDE DEF own, c
<1>4. /\ Dated(E)
      /\ \A q \in own : /\ [kind |-> q.kind, date |-> q.at] \in E
                        /\ q.ended # 0 => [kind |-> q.status, date |-> q.ended] \in E
      /\ \A e \in E : \E q \in own : \/ e = [kind |-> q.kind, date |-> q.at]
                                     \/ e = [kind |-> q.status, date |-> q.ended] /\ q.ended # 0
  BY <1>1, EntriesDated
<1> HIDE DEF E
<1>5. OnceEach(all, E)
  BY <1>4, NewestListed
<1> HIDE DEF all
<1>6. /\ all \in Seq(E) /\ Len(all) \in Nat
      /\ \A e \in E : \E i \in 1..Len(all) : all[i] = e
      /\ \A i, j \in 1..Len(all) : all[i] = all[j] => i = j
  BY <1>5 DEF OnceEach
<1>7. /\ list \in Seq(E) /\ Len(list) = IF c < Len(all) THEN c ELSE Len(all)
      /\ \A i \in 1..Len(list) : i \in 1..Len(all) /\ list[i] = all[i]
      /\ c >= Len(all) => list = all
  BY <1>2, <1>3, <1>6, UptoOf
<1> HIDE DEF list
<1>8. DOMAIN list = 1..Len(list) /\ \A i \in 1..Len(list) : list[i] \in E
  BY <1>7
<1> SUFFICES ASSUME r.ended \in dates, ~(c >= Len(all)) \/ r.at \notin dates
             PROVE  r.at \in dates \/ Cardinality(dates) = c
  BY FeedsCardinality DEF list, c
<1>9. CASE c >= Len(all)
  <2>1. PICK i \in 1..Len(list) : list[i].date = r.ended /\ list[i] \in E
    BY <1>8
  <2>2. PICK q \in own : \/ list[i] = [kind |-> q.kind, date |-> q.at]
                         \/ list[i] = [kind |-> q.status, date |-> q.ended] /\ q.ended # 0
    BY <1>4, <2>1
  <2>3. r = q
    <3>1. q \in rows /\ q.at # r.ended /\ (q.ended # 0 /\ q.ended = r.ended => q = r)
      BY <1>1 DEF RowsDated
    <3> QED BY <2>1, <2>2, <3>1
  <2>4. [kind |-> r.kind, date |-> r.at] \in E
    BY <1>4, <2>3
  <2>5. PICK j \in 1..Len(all) : all[j] = [kind |-> r.kind, date |-> r.at]
    BY <1>6, <2>4
  <2>6. j \in DOMAIN list /\ list[j].date = r.at
    BY <1>7, <1>8, <1>9, <2>5
  <2> QED BY <2>6
<1>10. CASE ~(c >= Len(all))
  <2>1. Len(list) = c
    BY <1>3, <1>6, <1>7, <1>10
  <2> DEFINE f == [i \in 1..c |-> list[i].date]
  <2>2. \A i \in 1..c : f[i] = list[i].date
    OBVIOUS
  <2>3. f \in Surjection(1..c, dates)
    <3>1. f \in [1..c -> dates]
      BY <1>8, <2>1
    <3>2. \A d \in dates : \E i \in 1..c : list[i].date = d
      BY <1>8, <2>1
    <3> HIDE DEF f, dates
    <3> QED BY <2>2, <3>1, <3>2 DEF Surjection
  <2>4. ASSUME NEW i \in 1..c, NEW j \in 1..c, f[i] = f[j] PROVE i = j
    <3>1. i \in 1..Len(all) /\ j \in 1..Len(all) /\ list[i] = all[i] /\ list[j] = all[j] /\ list[i] \in E /\ list[j] \in E
      BY <1>7, <1>8, <2>1
    <3>2. list[i].date = list[j].date
      BY <2>2, <2>4
    <3>3. list[i] = list[j]
      BY <1>4, <3>1, <3>2 DEF Dated
    <3> QED BY <1>6, <3>1, <3>3
  <2> HIDE DEF f, dates
  <2>5. f \in Injection(1..c, dates)
    BY <2>3, <2>4 DEF Injection, IsInjective, Surjection
  <2>6. IsFiniteSet(1..c) /\ Cardinality(1..c) = c
    BY <1>3, FS_Interval
  <2>7. Cardinality(dates) = Cardinality(1..c)
    BY <2>3, <2>5, <2>6, FS_Surjection
  <2> QED BY <2>6, <2>7
<1> QED BY <1>9, <1>10

\* The invariant holds at the start.
LEMMA FeedsStart == Fe!Init => FeedsInv
<1> SUFFICES ASSUME Fe!Init PROVE FeedsInv
  OBVIOUS
<1>1. RowsDated
  BY FS_EmptySet DEF Fe!Init, RowsDated
<1>2. <<>> \in Seq(FeedEntry) /\ 0 \in 0..0
  OBVIOUS
<1> QED BY <1>1, <1>2 DEF Fe!Init, FeedsInv, FeedsTypeOK, AloneOK, CalmOK, GrowOK

\* The row x is new, or takes the place of what it was.
RowChanges(S, x) ==
  /\ S \in SUBSET rows /\ x \in FeedRow /\ rows' = S \cup {x}
  /\ x.touched = now + 1 /\ x.at \in 1..(now + 1) /\ x.ended \in {0, now + 1}
  /\ x.ended # 0 => x.at # now + 1
  /\ (x.ended = 0) <=> (x.status = "OPEN")
  /\ \A q \in S : q.at # x.at /\ q.ended # x.at
  /\ \/ S = rows /\ x.at = now + 1
     \/ \E r \in rows : S = rows \ {r} /\ r.status = "OPEN" /\ x.kind = r.kind /\ x.at = r.at

\* No entry goes; those that come are the newest; and no kind gets fewer rows.
LEMMA RowsGrow ==
  ASSUME RowsDated, RowsDated', now' = now + 1, since \in 0..now, NEW S, NEW x, RowChanges(S, x)
  PROVE  /\ Fe!Entries(rows) \subseteq Fe!Entries(rows')
         /\ \A e \in Fe!Entries(rows') \ Fe!Entries(rows) : ~(e.date <= since)
         /\ Few' => Few
         /\ IsFiniteSet(Fe!Entries(rows'))
<1>1. /\ S \subseteq rows /\ rows' = S \cup {x} /\ x.touched = now + 1 /\ x.ended \in {0, now + 1}
      /\ now \in Nat /\ \A r \in rows : r.touched \in Nat /\ r.touched <= now /\ (r.status = "OPEN" => r.ended = 0)
  BY DEF RowChanges, RowsDated
<1>2. \A r \in S : Fe!EntriesOf(r) \subseteq Fe!Entries(rows) /\ Fe!EntriesOf(r) \subseteq Fe!Entries(rows')
  BY <1>1 DEF Fe!Entries
<1>3. Fe!EntriesOf(x) \subseteq Fe!Entries(rows')
  BY <1>1 DEF Fe!Entries
<1>4. \A e \in Fe!EntriesOf(x) : e = [kind |-> x.kind, date |-> x.at] \/ (e.date = x.ended /\ x.ended # 0)
  BY DEF Fe!EntriesOf
<1>5. [kind |-> x.kind, date |-> x.at] \in Fe!EntriesOf(x)
  BY DEF Fe!EntriesOf
<1>6. ~(now + 1 <= since)
  BY <1>1
<1>7. \A e \in Fe!Entries(rows') : (\E q \in S : e \in Fe!EntriesOf(q)) \/ e \in Fe!EntriesOf(x)
  BY <1>1 DEF Fe!Entries
<1>8. \A e \in Fe!Entries(rows') \ Fe!Entries(rows) : e \in Fe!EntriesOf(x)
  BY <1>2, <1>7
<1>f. IsFiniteSet(Fe!Entries(rows'))
  <2> DEFINE E == Fe!Entries(rows)
             F == Fe!Entries(rows')
             a == [kind |-> x.kind, date |-> x.at]
             b == [kind |-> x.status, date |-> x.ended]
  <2>1. IsFiniteSet(E)
    BY EntriesDated DEF Dated
  <2>2. F \subseteq (E \cup {a}) \cup {b}
    BY <1>8 DEF Fe!EntriesOf
  <2> HIDE DEF E, F, a, b
  <2>3. IsFiniteSet((E \cup {a}) \cup {b})
    BY <2>1, FS_AddElement
  <2>4. IsFiniteSet(F)
    BY <2>2, <2>3, FS_Subset
  <2> QED BY <2>4 DEF F
<1>9. CASE S = rows /\ x.at = now + 1
  <2>1. Fe!Entries(rows) \subseteq Fe!Entries(rows')
    BY <1>1, <1>9 DEF Fe!Entries
  <2>2. \A e \in Fe!EntriesOf(x) : e.date = now + 1
    BY <1>1, <1>4, <1>9
  <2>3. ASSUME Few' PROVE Few
    <3> SUFFICES ASSUME NEW k \in FeedKinds PROVE Cardinality({r \in rows : r.kind = k}) <= Batch
      BY DEF Few
    <3> DEFINE A == {r \in rows : r.kind = k}
               B == {r \in rows' : r.kind = k}
    <3>1. A \subseteq B /\ B \subseteq rows' /\ IsFiniteSet(rows')
      BY <1>1, <1>9 DEF RowsDated
    <3>2. Cardinality(B) <= Batch
      BY <2>3 DEF Few
    <3> HIDE DEF A, B
    <3>3. IsFiniteSet(B) /\ Cardinality(A) <= Cardinality(B) /\ IsFiniteSet(A)
      BY <3>1, FS_Subset
    <3>4. Cardinality(A) \in Nat /\ Cardinality(B) \in Nat
      BY <3>3, FS_CardinalityType
    <3>5. Cardinality(A) <= Batch
      BY <3>2, <3>3, <3>4, FeedsAssumption
    <3> QED BY <3>5 DEF A
  <2> QED BY <1>6, <1>8, <1>f, <2>1, <2>2, <2>3
<1>10. ASSUME NEW r \in rows, S = rows \ {r}, r.status = "OPEN", x.kind = r.kind, x.at = r.at
       PROVE  /\ Fe!Entries(rows) \subseteq Fe!Entries(rows')
              /\ \A e \in Fe!Entries(rows') \ Fe!Entries(rows) : ~(e.date <= since)
              /\ Few' => Few
  <2> DEFINE open == [kind |-> r.kind, date |-> r.at]
  <2>1. Fe!EntriesOf(r) = {open}
    BY <1>1, <1>10 DEF Fe!EntriesOf
  <2>2. open \in Fe!Entries(rows) /\ open \in Fe!EntriesOf(x)
    BY <1>5, <1>10, <2>1 DEF Fe!Entries
  <2>3. Fe!Entries(rows) \subseteq Fe!Entries(rows')
    <3>1. \A e \in Fe!Entries(rows) : \E q \in rows : e \in Fe!EntriesOf(q)
      BY DEF Fe!Entries
    <3>2. \A q \in rows : q = r \/ q \in S
      BY <1>10
    <3> HIDE DEF open
    <3> QED BY <1>2, <1>3, <2>1, <2>2, <3>1, <3>2
  <2>4. \A e \in Fe!Entries(rows') \ Fe!Entries(rows) : e.date = now + 1
    <3>1. [kind |-> x.kind, date |-> x.at] = open
      BY <1>10
    <3> HIDE DEF open
    <3> QED BY <1>1, <1>4, <1>8, <2>2, <3>1
  <2>5. ASSUME Few' PROVE Few
    <3> SUFFICES ASSUME NEW k \in FeedKinds PROVE Cardinality({q \in rows : q.kind = k}) <= Batch
      BY DEF Few
    <3> DEFINE A == {q \in rows : q.kind = k}
               B == {q \in rows' : q.kind = k}
    <3>1. A \subseteq rows /\ B \subseteq rows' /\ IsFiniteSet(rows') /\ IsFiniteSet(rows)
      BY DEF RowsDated
    <3>2. Cardinality(B) <= Batch
      BY <2>5 DEF Few
    <3>3. k # r.kind => A \subseteq B
      BY <1>1, <1>10
    <3>4. k = r.kind => r \in A /\ B = (A \ {r}) \cup {x} /\ x \notin A \ {r}
      <4>1. x \notin rows
        BY <1>1
      <4> QED BY <1>1, <1>10, <4>1
    <3> HIDE DEF A, B
    <3>5. IsFiniteSet(A) /\ IsFiniteSet(B) /\ Cardinality(A) \in Nat /\ Cardinality(B) \in Nat
      BY <3>1, FS_Subset, FS_CardinalityType
    <3>6. ASSUME k # r.kind PROVE Cardinality(A) <= Batch
      <4>1. Cardinality(A) <= Cardinality(B)
        BY <3>3, <3>5, <3>6, FS_Subset
      <4> QED BY <3>2, <3>5, <4>1, FeedsAssumption
    <3>7. ASSUME k = r.kind PROVE Cardinality(A) <= Batch
      <4>1. IsFiniteSet(A \ {r}) /\ Cardinality(A \ {r}) = Cardinality(A) - 1
        BY <3>4, <3>5, <3>7, FS_RemoveElement
      <4>2. Cardinality(B) = Cardinality(A \ {r}) + 1
        BY <3>4, <3>7, <4>1, FS_AddElement
      <4> QED BY <3>2, <3>5, <4>1, <4>2, FeedsAssumption
    <3> QED BY <3>6, <3>7 DEF A
  <2> QED BY <1>6, <2>3, <2>4, <2>5
<1> QED BY <1>f, <1>9, <1>10 DEF RowChanges

\* The rows change: a new row, or a pull request touched.
LEMMA RowsChange ==
  ASSUME FeedsInv, \/ \E k \in {"revision", "pull", "pipeline"} : Fe!Add(k)
                   \/ \E r \in rows, outcome \in {"OPEN", "MERGED", "CLOSED"} : Fe!Touch(r, outcome)
  PROVE  FeedsInv'
<1>1. RowsDated
  BY DEF FeedsInv, FeedsTypeOK
<1>0. \E S, x : RowChanges(S, x)
  <2>1. ASSUME NEW k \in {"revision", "pull", "pipeline"}, Fe!Add(k) PROVE \E S, x : RowChanges(S, x)
    <3> DEFINE x == Fe!Row(k, now + 1)
    <3>1. x = [kind |-> k, at |-> now + 1, touched |-> now + 1, status |-> "OPEN", ended |-> 0] /\ rows' = rows \cup {x}
      BY <2>1 DEF Fe!Add, Fe!Changes, Fe!Row
    <3>2. x \in FeedRow
      BY <1>1, <3>1 DEF FeedRow, FeedKinds, RowsDated
    <3>3. \A q \in rows : q.at # now + 1 /\ q.ended # now + 1
      BY <1>1 DEF RowsDated
    <3>4. now + 1 \in 1..(now + 1)
      BY <1>1 DEF RowsDated
    <3>5. x.at = now + 1 /\ x.touched = now + 1 /\ x.status = "OPEN" /\ x.ended = 0
      BY <3>1
    <3> HIDE DEF x
    <3>6. rows \in SUBSET rows /\ rows' = rows \cup {x}
      BY <3>1
    <3>7. RowChanges(rows, x)
      BY <3>2, <3>3, <3>4, <3>5, <3>6 DEF RowChanges
    <3> QED BY <3>7
  <2>2. ASSUME NEW r \in rows, NEW outcome \in {"OPEN", "MERGED", "CLOSED"}, Fe!Touch(r, outcome) PROVE \E S, x : RowChanges(S, x)
    <3> DEFINE t == now + 1
               x == [r EXCEPT !.touched = t, !.status = outcome, !.ended = IF outcome = "OPEN" THEN 0 ELSE t]
    <3>1. r.status = "OPEN" /\ rows' = (rows \ {r}) \cup {x}
      BY <2>2 DEF Fe!Touch, Fe!Changes
    <3>2. t \in Nat /\ t # 0 /\ r \in FeedRow /\ r.at \in 1..now /\ r.at # t /\ r.at \in 1..t
      BY <1>1 DEF RowsDated
    <3> HIDE DEF t
    <3>3. x \in FeedRow /\ x.touched = t /\ x.at = r.at /\ x.status = outcome /\ x.ended = IF outcome = "OPEN" THEN 0 ELSE t
      BY <3>2 DEF FeedRow
    <3>4. \A q \in rows \ {r} : q.at # r.at /\ q.ended # r.at
      BY <1>1 DEF RowsDated
    <3> HIDE DEF x
    <3>5. /\ x.ended \in {0, t} /\ (x.ended # 0 => x.at # t) /\ ((x.ended = 0) <=> (x.status = "OPEN"))
          /\ x.at \in 1..t /\ \A q \in rows \ {r} : q.at # x.at /\ q.ended # x.at
      BY <3>2, <3>3, <3>4
    <3>6. x.kind = r.kind
      BY <3>2 DEF FeedRow, x
    <3> QED BY <3>1, <3>3, <3>5, <3>6 DEF t, RowChanges
  <2> QED BY <2>1, <2>2
<1>p. PICK S, x : RowChanges(S, x)
  BY <1>0
<1>2. /\ S \in SUBSET rows /\ x \in FeedRow /\ rows' = S \cup {x}
      /\ x.touched = now + 1 /\ x.at \in 1..(now + 1) /\ x.ended \in {0, now + 1}
      /\ x.ended # 0 => x.at # now + 1
      /\ (x.ended = 0) <=> (x.status = "OPEN")
      /\ \A q \in S : q.at # x.at /\ q.ended # x.at
  BY <1>p DEF RowChanges
<1>3. /\ now' = now + 1
      /\ UNCHANGED <<loaded, feed, more, offset, error, sent, loads, since, alone>>
  BY DEF Fe!Add, Fe!Touch, Fe!Changes, Fe!history
<1>4. RowsDated'
  <2>1. now' \in Nat /\ rows' \in SUBSET FeedRow
    BY <1>1, <1>2, <1>3 DEF RowsDated
  <2>2. IsFiniteSet(rows')
    <3>1. IsFiniteSet(S)
      BY <1>1, <1>2, FS_Subset DEF RowsDated
    <3> QED BY <1>2, <3>1, FS_AddElement
  <2>3. \A q \in S : /\ q.at \in Nat /\ q.at >= 1 /\ q.at <= now /\ q.touched \in Nat /\ q.touched >= 1 /\ q.touched <= now
                     /\ q.ended \in Nat /\ q.ended <= now /\ ((q.ended = 0) <=> (q.status = "OPEN"))
    BY <1>1, <1>2 DEF RowsDated
  <2>4. now \in Nat
    BY <1>1 DEF RowsDated
  <2>5. \A r \in rows' : /\ r.at \in 1..now' /\ r.touched \in 1..now' /\ r.ended \in 0..now'
                         /\ (r.ended = 0) <=> (r.status = "OPEN")
    <3> SUFFICES ASSUME NEW r \in rows'
                 PROVE  /\ r.at \in 1..now' /\ r.touched \in 1..now' /\ r.ended \in 0..now'
                        /\ (r.ended = 0) <=> (r.status = "OPEN")
      OBVIOUS
    <3>1. CASE r \in S
      BY <1>3, <2>3, <2>4, <3>1
    <3>2. CASE r = x
      BY <1>2, <1>3, <2>4, <3>2
    <3> QED BY <1>2, <3>1, <3>2
  <2>6. ASSUME NEW r \in rows', NEW q \in rows'
        PROVE  /\ r.at = q.at \/ r.touched = q.touched \/ (r.ended # 0 /\ r.ended = q.ended) => r = q
               /\ r.at # q.ended
    <3>1. CASE r \in S /\ q \in S
      BY <1>1, <1>2, <3>1 DEF RowsDated
    <3>2. CASE r \in S /\ q = x
      BY <1>2, <2>3, <2>4, <3>2
    <3>3. CASE r = x /\ q \in S
      BY <1>2, <2>3, <2>4, <3>3
    <3>4. CASE r = x /\ q = x
      BY <1>2, <2>4, <3>4
    <3> QED BY <1>2, <3>1, <3>2, <3>3, <3>4
  <2> QED BY <2>1, <2>2, <2>5, <2>6 DEF RowsDated
<1>5. now \in Nat /\ since \in 0..now /\ loads \in SUBSET DashboardLoad
  BY DEF FeedsInv, FeedsTypeOK, RowsDated
<1>6. FeedsTypeOK'
  <2>1. since' \in 0..now'
    BY <1>3, <1>5
  <2> QED BY <1>3, <1>4, <2>1 DEF FeedsInv, FeedsTypeOK, DashboardLoad, FeedEntry, FeedKinds
<1>7. CalmOK'
  <2>1. ~(now' = since')
    BY <1>3, <1>5
  <2> QED BY <2>1 DEF CalmOK, Calm
<1>8. AloneOK'
  BY <1>3 DEF FeedsInv, AloneOK
<1>9. GrowOK'
  <2> DEFINE E == Fe!Entries(rows)
             F == Fe!Entries(rows')
  <2> SUFFICES ASSUME alone, Few'
               PROVE  /\ \A l \in loads : (l.append => loaded) /\ PageGrows(F, since, feed, offset + Page, l)
                      /\ loads = {} /\ loaded /\ ~error => Covers(F, since, feed, offset + Page, more)
    <3>1. Fe!Entries(rows)' = F /\ (offset + Page)' = offset + Page
      BY <1>3 DEF Fe!Entries
    <3> HIDE DEF F
    <3> QED BY <1>3, <3>1 DEF GrowOK
  <2>1. E \subseteq F /\ (\A e \in F \ E : ~(e.date <= since)) /\ Few /\ IsFiniteSet(F)
    BY <1>1, <1>3, <1>4, <1>5, <1>p, RowsGrow
  <2>3. /\ \A l \in loads : PageGrows(E, since, feed, offset + Page, l)
        /\ loads = {} /\ loaded /\ ~error => Covers(E, since, feed, offset + Page, more)
        /\ \A l \in loads : l.append => loaded
    BY <2>1 DEF FeedsInv, GrowOK
  <2> HIDE DEF E, F
  <2>4. ASSUME NEW list, NEW n \in Nat, NEW left, Covers(E, since, list, n, left) PROVE Covers(F, since, list, n, left)
    BY <2>1, <2>4, CoversGrow
  <2>5. offset + Page \in Nat /\ \A l \in loads : l.offset \in Nat /\ l.offset + Page \in Nat
    BY <1>5, FeedsAssumption DEF FeedsInv, FeedsTypeOK, DashboardLoad
  <2>6. \A l \in loads : PageGrows(F, since, feed, offset + Page, l)
    BY <2>3, <2>4, <2>5 DEF PageGrows
  <2> QED BY <2>3, <2>4, <2>5, <2>6
<1> QED BY <1>6, <1>7, <1>8, <1>9 DEF FeedsInv

\* What the API answers depends on the rows.
LEMMA SameRows ==
  ASSUME UNCHANGED <<rows, now>>
  PROVE  /\ RowsDated' = RowsDated /\ Few' = Few
         /\ Fe!Merged' = Fe!Merged /\ Fe!HitFetchLimit' = Fe!HitFetchLimit
         /\ \A start : Fe!Cut(start)' = Fe!Cut(start) /\ Fe!ActivityFeed(start)' = Fe!ActivityFeed(start)
         /\ Fe!NewestFirst(Fe!Entries(rows))' = Fe!NewestFirst(Fe!Entries(rows))
<1>1. \A k : Fe!Fetched(k, Batch)' = Fe!Fetched(k, Batch)
  BY DEF Fe!Fetched
<1>2. Fe!Merged' = Fe!Merged
  BY <1>1 DEF Fe!Merged
<1>3. Fe!HitFetchLimit' = Fe!HitFetchLimit
  BY <1>1 DEF Fe!HitFetchLimit
<1>4. \A start : Fe!Cut(start)' = Fe!Cut(start)
  BY <1>2 DEF Fe!Cut
<1>5. \A start : Fe!ActivityFeed(start)' = Fe!ActivityFeed(start)
  BY <1>2, <1>3, <1>4 DEF Fe!ActivityFeed
<1>6. RowsDated' = RowsDated
  BY DEF RowsDated, FeedRow, FeedKinds
<1>7. Few' = Few
  BY DEF Few
<1> QED BY <1>2, <1>3, <1>4, <1>5, <1>6, <1>7

\* A request of the page.
LEMMA RequestSent ==
  ASSUME FeedsTypeOK, NEW start \in Nat, NEW append \in BOOLEAN, Fe!Send(start, append), UNCHANGED <<rows, now, offset, feed>>,
         since' \in 0..now
  PROVE  /\ FeedsTypeOK'
         /\ \E l : loads' = loads \cup {l} /\ l.offset = start /\ l.append = append /\ l.read = FALSE
<1> DEFINE l == [n |-> sent', offset |-> start, append |-> append, read |-> FALSE, items |-> <<>>, hasMore |-> FALSE]
<1>1. sent' \in Nat /\ loads' = loads \cup {l}
  BY DEF Fe!Send, FeedsTypeOK
<1>2. <<>> \in Seq(FeedEntry)
  OBVIOUS
<1>3. l \in DashboardLoad /\ l.offset = start /\ l.append = append /\ l.read = FALSE
  BY <1>1, <1>2 DEF DashboardLoad
<1> HIDE DEF l
<1>4. DashboardLoad' = DashboardLoad
  BY DEF DashboardLoad, FeedEntry, FeedKinds
<1>5. FeedsTypeOK'
  BY <1>1, <1>3, <1>4, SameRows DEF FeedsTypeOK
<1> QED BY <1>1, <1>3, <1>5

\* The first page is asked for.
LEMMA ReloadStep == FeedsInv /\ Fe!Reload => FeedsInv'
<1> SUFFICES ASSUME FeedsInv, Fe!Reload PROVE FeedsInv'
  OBVIOUS
<1>1. /\ Fe!Send(0, FALSE) /\ since' = now /\ alone' = (loads = {})
      /\ UNCHANGED <<rows, now, loaded, feed, more, offset, loadingMore, faults>>
  BY DEF Fe!Reload
<1>0. now \in 0..now
  BY DEF FeedsInv, FeedsTypeOK, RowsDated
<1>2. FeedsTypeOK' /\ \E l : loads' = loads \cup {l} /\ l.offset = 0 /\ l.append = FALSE /\ l.read = FALSE
  BY <1>0, <1>1, RequestSent DEF FeedsInv
<1>3. CalmOK' /\ AloneOK'
  BY <1>1, <1>2 DEF CalmOK, Calm, PageInPlace, AloneOK
<1>4. GrowOK'
  BY <1>1, <1>2 DEF GrowOK, PageGrows
<1> QED BY <1>2, <1>3, <1>4 DEF FeedsInv

\* The next page is asked for where the list ends.
LEMMA LoadMoreStep == FeedsInv /\ Fe!LoadMore => FeedsInv'
<1> SUFFICES ASSUME FeedsInv, Fe!LoadMore PROVE FeedsInv'
  OBVIOUS
<1>1. /\ loaded /\ ~error /\ more /\ Fe!Send(offset + Page, TRUE) /\ alone' = (alone /\ loads = {})
      /\ UNCHANGED <<rows, now, loaded, feed, more, offset, error, faults, since>>
  BY DEF Fe!LoadMore
<1>2. offset + Page \in Nat
  BY FeedsAssumption DEF FeedsInv, FeedsTypeOK
<1>0. since' \in 0..now
  BY <1>1 DEF FeedsInv, FeedsTypeOK
<1>3. FeedsTypeOK' /\ \E l : loads' = loads \cup {l} /\ l.offset = offset + Page /\ l.append = TRUE /\ l.read = FALSE
  BY <1>0, <1>1, <1>2, RequestSent DEF FeedsInv
<1>4. Calm' => feed = Fe!Upto(Fe!Merged, offset + Page)
  BY <1>1 DEF FeedsInv, CalmOK, Calm, ListInPlace
<1>5. Fe!Upto(Fe!Merged, offset + Page)' = Fe!Upto(Fe!Merged, offset + Page)
  BY <1>1, SameRows DEF Fe!Upto
<1>6. CalmOK' /\ AloneOK'
  BY <1>1, <1>3, <1>4, <1>5 DEF CalmOK, Calm, PageInPlace, AloneOK
<1>7. GrowOK'
  <2> SUFFICES ASSUME alone', Few' PROVE GrowOK'
    BY DEF GrowOK
  <2>1. Few /\ alone /\ loads = {}
    BY <1>1, SameRows
  <2>2. Covers(Fe!Entries(rows), since, feed, offset + Page, TRUE)
    BY <1>1, <2>1 DEF FeedsInv, GrowOK, Covers
  <2> QED BY <1>1, <1>3, <2>1, <2>2 DEF GrowOK, PageGrows
<1> QED BY <1>3, <1>6, <1>7 DEF FeedsInv

\* The API reads the rows as they are.
LEMMA PageReadHere ==
  ASSUME FeedsInv, NEW l \in loads, Fe!Read(l)
  PROVE  FeedsInv'
<1>0. RowsDated /\ l \in DashboardLoad /\ l.offset \in Nat
  BY DEF FeedsInv, FeedsTypeOK, DashboardLoad
<1>1. PICK items, hasMore : items = Fe!Cut(l.offset) /\ hasMore = Fe!ActivityFeed(l.offset).hasMore
  OBVIOUS
<1> DEFINE m == [l EXCEPT !.read = TRUE, !.items = items, !.hasMore = hasMore]
<1>2. /\ loads' = (loads \ {l}) \cup {m}
      /\ UNCHANGED <<rows, now, loaded, feed, more, offset, loadingMore, error, sent, faults, since, alone>>
  BY <1>1 DEF Fe!Read, Fe!ActivityFeed, Fe!history
<1>3. hasMore \in BOOLEAN /\ items \in Seq(FeedEntry)
  <2>1. hasMore \in BOOLEAN
    BY <1>1 DEF Fe!ActivityFeed
  <2> QED BY <1>0, <1>1, <2>1, CutOf DEF Stretch
<1>5. m \in DashboardLoad /\ m.offset = l.offset /\ m.append = l.append /\ m.items = items /\ m.hasMore = hasMore
  BY <1>0, <1>3 DEF DashboardLoad
<1> HIDE DEF m
<1>6. DashboardLoad' = DashboardLoad
  BY DEF DashboardLoad, FeedEntry, FeedKinds
<1>7. FeedsTypeOK'
  BY <1>2, <1>5, <1>6, SameRows DEF FeedsInv, FeedsTypeOK
<1>8. CalmOK'
  <2> SUFFICES ASSUME Calm PROVE CalmOK'
    BY <1>2 DEF CalmOK, Calm
  <2>1. PageInPlace(l) /\ \A k \in loads : k = l
    BY DEF FeedsInv, CalmOK, Calm, AloneOK
  <2>2. loads' = {m}
    BY <1>2, <2>1
  <2>3. Fe!Upto(Fe!Merged, offset + Page)' = Fe!Upto(Fe!Merged, offset + Page)
    BY <1>2, SameRows DEF Fe!Upto
  <2>4. \A start : Fe!Cut(start)' = Fe!Cut(start) /\ Fe!ActivityFeed(start)' = Fe!ActivityFeed(start)
    BY <1>2, SameRows
  <2>5. PageInPlace(m)'
    <3>1. m.items = Fe!Cut(m.offset)' /\ m.hasMore = (Fe!ActivityFeed(m.offset)').hasMore
      BY <1>1, <1>5, <2>4
    <3> QED BY <1>2, <1>5, <2>1, <2>3, <3>1 DEF PageInPlace
  <2>7. loads' # {} /\ \A k \in loads' : PageInPlace(k)'
    BY <2>2, <2>5
  <2> QED BY <2>7 DEF CalmOK
<1>9. alone => loads' = {m}
  BY <1>2 DEF FeedsInv, AloneOK
<1>10. AloneOK'
  BY <1>2, <1>9 DEF AloneOK
<1>11. GrowOK'
  <2> DEFINE E == Fe!Entries(rows)
  <2> SUFFICES ASSUME alone, Few PROVE (m.append => loaded) /\ PageGrows(E, since, feed, offset + Page, m)'
    BY <1>2, <1>9, SameRows DEF GrowOK
  <2>1. (l.append => loaded) /\ PageGrows(E, since, feed, offset + Page, l)
    BY DEF FeedsInv, GrowOK
  <2>2. ASSUME NEW list, NEW u, Joined(u, FeedEntry, list, items), Covers(E, since, list, l.offset, TRUE)
        PROVE  Covers(E, since, u, l.offset + Page, hasMore)
    BY <1>0, <1>1, <2>2, PageCovers
  <2>3. CASE l.append
    <3>1. feed \in Seq(FeedEntry)
      BY DEF FeedsInv, FeedsTypeOK
    <3>2. Joined(feed \o items, FeedEntry, feed, items)
      BY <1>3, <3>1, Joins
    <3>3. l.offset = offset + Page /\ Covers(E, since, feed, l.offset, TRUE)
      BY <2>1, <2>3 DEF PageGrows
    <3>4. Covers(E, since, feed \o items, l.offset + Page, hasMore)
      BY <2>2, <3>2, <3>3
    <3> HIDE DEF E
    <3>5. E' = E
      BY <1>2 DEF E
    <3> QED BY <1>2, <1>5, <2>1, <2>3, <3>3, <3>4, <3>5 DEF PageGrows
  <2>4. CASE ~l.append
    <3>1. l.offset = 0
      BY <2>1, <2>4 DEF PageGrows
    <3>2. Joined(items, FeedEntry, <<>>, items)
      BY <1>3 DEF Joined
    <3>3. Covers(E, since, <<>>, 0, TRUE)
      <4>1. \A e \in E : Ahead(E, e) >= 0
        <5>1. IsFiniteSet(E)
          BY <1>0, EntriesDated DEF Dated
        <5> HIDE DEF E
        <5>2. \A e \in E : Cardinality({f \in E : f.date > e.date}) \in Nat
          BY <5>1, FS_Subset, FS_CardinalityType
        <5> QED BY <5>2 DEF Ahead
      <4> QED BY <4>1 DEF Covers
    <3>4. Covers(E, since, items, l.offset + Page, hasMore)
      BY <2>2, <3>1, <3>2, <3>3
    <3> HIDE DEF E
    <3>5. E' = E
      BY <1>2 DEF E
    <3> QED BY <1>2, <1>5, <2>4, <3>1, <3>4, <3>5 DEF PageGrows
  <2> QED BY <2>3, <2>4
<1> QED BY <1>7, <1>8, <1>10, <1>11 DEF FeedsInv

\* The first page, or the next one, put where it belongs.
LEMMA PagePlaced ==
  ASSUME FeedsTypeOK, NEW l \in DashboardLoad, PageInPlace(l), l.read, UNCHANGED <<rows, now>>,
         feed' = (IF l.append /\ loaded THEN feed \o l.items ELSE l.items), more' = l.hasMore, offset' = l.offset
  PROVE  ListInPlace'
<1> DEFINE s == Fe!Merged
           start == l.offset
           hit == Fe!HitFetchLimit
<1>1. RowsDated /\ start \in Nat /\ Page \in Nat /\ s \in Seq(FeedEntry) /\ Len(s) \in Nat
  BY MergedListed, FeedsAssumption DEF FeedsTypeOK, DashboardLoad
<1>2. l.items = Fe!Cut(start) /\ l.hasMore = (start + Page < Len(s) \/ hit)
  BY DEF PageInPlace, Fe!ActivityFeed
<1>3. feed' = Fe!Upto(s, start + Page)
  <2>1. CASE l.append
    <3>1. start = offset + Page /\ loaded /\ feed = Fe!Upto(s, start)
      BY <2>1 DEF PageInPlace
    <3>2. feed' = Fe!Upto(s, start) \o Fe!Cut(start)
      BY <1>2, <2>1, <3>1
    <3> QED BY <1>1, <3>2, PageAppended
  <2>2. CASE ~l.append
    <3>1. start = 0 /\ feed' = Fe!Cut(start)
      BY <1>2, <2>2 DEF PageInPlace
    <3>2. 0 + Page = Page /\ 0 + 1 = 1
      BY <1>1
    <3>3. Fe!Cut(0) = Fe!Upto(s, 0 + Page)
      BY <3>2 DEF Fe!Cut, Fe!Upto
    <3> QED BY <3>1, <3>3
  <2> QED BY <2>1, <2>2
<1>4. more' = (start + Page < Len(s) \/ hit)
  BY <1>2
<1> HIDE DEF s, start, hit
<1>5. s' = s /\ hit' = hit /\ offset' = start
  BY SameRows DEF s, hit, start
<1>6. Fe!Upto(Fe!Merged, offset + Page)' = Fe!Upto(s, start + Page)
  <2>1. Fe!Merged' = s
    BY <1>5 DEF s
  <2> QED BY <1>5, <2>1 DEF Fe!Upto
<1>7. (offset + Page < Len(Fe!Merged) \/ Fe!HitFetchLimit)' = (start + Page < Len(s) \/ hit)
  BY <1>5 DEF s, hit
<1> QED BY <1>3, <1>4, <1>6, <1>7 DEF ListInPlace

\* The answer to a request that is the only one takes its place in the list.
LEMMA AnswerPlaced ==
  ASSUME FeedsInv, NEW l \in loads, Fe!Answered(l)
  PROVE  FeedsInv'
<1>1. /\ l.read /\ loads' = loads \ {l} /\ loaded' = TRUE /\ UNCHANGED <<rows, now, error, sent, since, alone>>
      /\ feed' = (IF l.append /\ loaded THEN feed \o l.items ELSE l.items) /\ more' = l.hasMore /\ offset' = l.offset
  BY DEF Fe!Answered, Fe!history
<1>2. FeedsTypeOK /\ l \in DashboardLoad /\ l.offset \in Nat
  BY DEF FeedsInv, FeedsTypeOK, DashboardLoad
<1>3. DashboardLoad' = DashboardLoad
  BY DEF DashboardLoad, FeedEntry, FeedKinds
<1>4. FeedsTypeOK'
  <2>1. feed' \in Seq(FeedEntry)
    <3>1. l.items \in Seq(FeedEntry) /\ feed \in Seq(FeedEntry)
      BY <1>2 DEF FeedsTypeOK, DashboardLoad
    <3>2. feed \o l.items \in Seq(FeedEntry)
      BY <3>1
    <3> QED BY <1>1, <3>1, <3>2
  <2>2. FeedEntry' = FeedEntry
    BY DEF FeedEntry, FeedKinds
  <2> QED BY <1>1, <1>2, <1>3, <2>1, <2>2, SameRows DEF FeedsTypeOK
<1>5. alone => loads' = {}
  BY <1>1 DEF FeedsInv, AloneOK
<1>6. AloneOK'
  BY <1>1, <1>5 DEF AloneOK
<1>7. CalmOK'
  <2> SUFFICES ASSUME Calm PROVE CalmOK'
    BY <1>1 DEF CalmOK, Calm
  <2>1. PageInPlace(l)
    BY DEF FeedsInv, CalmOK
  <2>2. loads' = {}
    BY <1>5 DEF Calm
  <2>3. ListInPlace'
    BY <1>1, <1>2, <2>1, PagePlaced
  <2> QED BY <2>2, <2>3 DEF CalmOK
<1>8. GrowOK'
  <2> DEFINE E == Fe!Entries(rows)
  <2> SUFFICES ASSUME alone, Few PROVE Covers(E, since, feed, offset + Page, more)'
    BY <1>1, <1>5, SameRows DEF GrowOK
  <2>1. (l.append => loaded) /\ PageGrows(E, since, feed, offset + Page, l)
    BY DEF FeedsInv, GrowOK
  <2>2. E' = E
    BY <1>1
  <2> HIDE DEF E
  <2>3. Covers(E, since, feed', l.offset + Page, l.hasMore)
    BY <1>1, <2>1 DEF PageGrows
  <2> QED BY <1>1, <2>2, <2>3
<1> QED BY <1>4, <1>6, <1>7, <1>8 DEF FeedsInv

\* A request fails: the page says so, and asks for nothing more until it is loaded again.
LEMMA RequestFails ==
  ASSUME FeedsInv, NEW l \in loads, Fe!Fails(l)
  PROVE  FeedsInv'
<1>1. loads' = loads \ {l} /\ error' = TRUE /\ UNCHANGED <<rows, now, loaded, feed, more, offset, sent, since, alone>>
  BY DEF Fe!Fails, Fe!history
<1>2. DashboardLoad' = DashboardLoad
  BY DEF DashboardLoad, FeedEntry, FeedKinds
<1>3. FeedsTypeOK'
  BY <1>1, <1>2, SameRows DEF FeedsInv, FeedsTypeOK
<1>4. alone => loads' = {}
  BY <1>1 DEF FeedsInv, AloneOK
<1>5. AloneOK' /\ CalmOK' /\ GrowOK'
  BY <1>1, <1>4 DEF AloneOK, CalmOK, Calm, GrowOK
<1> QED BY <1>3, <1>5 DEF FeedsInv

\* Every step keeps the invariant.
LEMMA FeedsStep == FeedsInv /\ [Fe!Next]_(Fe!vars) => FeedsInv'
<1> SUFFICES ASSUME FeedsInv, [Fe!Next]_(Fe!vars) PROVE FeedsInv'
  OBVIOUS
<1>1. CASE UNCHANGED Fe!vars
  <2>1. UNCHANGED <<rows, now, loaded, feed, more, offset, error, loads, sent, since, alone>>
    BY <1>1 DEF Fe!vars, Fe!history
  <2>2. DashboardLoad' = DashboardLoad
    BY DEF DashboardLoad, FeedEntry, FeedKinds
  <2>3. ListInPlace' = ListInPlace
    BY <2>1, SameRows DEF ListInPlace, Fe!Upto
  <2>4. \A l : PageInPlace(l)' = PageInPlace(l)
    BY <2>1, SameRows DEF PageInPlace, Fe!Upto
  <2>5. FeedsTypeOK'
    <3>1. FeedEntry' = FeedEntry
      BY DEF FeedEntry, FeedKinds
    <3> QED BY <2>1, <2>2, <3>1, SameRows DEF FeedsInv, FeedsTypeOK
  <2>6. CalmOK' /\ AloneOK'
    BY <2>1, <2>3, <2>4 DEF FeedsInv, CalmOK, Calm, AloneOK
  <2>7. GrowOK'
    BY <2>1, SameRows DEF FeedsInv, GrowOK, PageGrows
  <2> QED BY <2>5, <2>6, <2>7 DEF FeedsInv
<1> QED BY <1>1, RowsChange, ReloadStep, LoadMoreStep, PageReadHere, AnswerPlaced, RequestFails DEF Fe!Next

\* What the invariant says of a list while no row changes,
LEMMA InPlaceInOrder == FeedsTypeOK /\ ListInPlace => Fe!PagesInOrder
<1> SUFFICES ASSUME FeedsTypeOK, ListInPlace PROVE Fe!PagesInOrder
  OBVIOUS
<1> DEFINE s == Fe!Merged
           n == offset + Page
<1>0. RowsDated /\ n \in Nat
  BY FeedsAssumption DEF FeedsTypeOK
<1>1. PICK E : MadeOf(E)
  BY <1>0, MergedMadeOf
<1>2. /\ s \in Seq(E) /\ Len(s) \in Nat /\ E \subseteq Fe!Entries(rows)
      /\ \A e \in E : \E i \in 1..Len(s) : s[i] = e
      /\ \A i, j \in 1..Len(s) : s[i] = s[j] => i = j
      /\ \A i, j \in 1..Len(s) : i < j => s[i].date > s[j].date
  BY <1>1 DEF MadeOf, OnceEach, Descending
<1>3. more = (n < Len(s) \/ Fe!HitFetchLimit)
  BY DEF ListInPlace
<1>4. /\ feed \in Seq(E) /\ Len(feed) = (IF n < Len(s) THEN n ELSE Len(s))
      /\ \A i \in 1..Len(feed) : i \in 1..Len(s) /\ feed[i] = s[i]
  BY <1>0, <1>2, UptoOf DEF ListInPlace
<1> HIDE DEF s, n
<1>5. DOMAIN feed = 1..Len(feed) /\ \A i \in 1..Len(feed) : feed[i] \in E
  BY <1>4
<1>6. Fe!Shown \subseteq Fe!Entries(rows)
  BY <1>2, <1>5 DEF Fe!Shown
<1>7. \A i, j \in DOMAIN feed : i < j => feed[i].date > feed[j].date
  BY <1>2, <1>4, <1>5
<1>8. ASSUME NEW j \in 1..Len(s), s[j] \notin Fe!Shown
      PROVE  n < Len(s) /\ Fe!Older(s[j])
  <2>1. ~(j <= Len(feed))
    <3> SUFFICES ASSUME j <= Len(feed) PROVE FALSE
      OBVIOUS
    <3>1. j \in 1..Len(feed)
      BY <1>2, <1>4
    <3>2. feed[j] = s[j] /\ j \in DOMAIN feed
      BY <1>4, <1>5, <3>1
    <3> QED BY <1>8, <3>2 DEF Fe!Shown
  <2>2. n < Len(s) /\ Len(feed) = n
    BY <1>0, <1>2, <1>4, <2>1
  <2>3. \A i \in 1..Len(feed) : feed[i].date > s[j].date
    <3> SUFFICES ASSUME NEW i \in 1..Len(feed) PROVE feed[i].date > s[j].date
      OBVIOUS
    <3>1. i \in 1..Len(s) /\ feed[i] = s[i]
      BY <1>4
    <3>2. i < j
      BY <1>0, <1>2, <2>1, <2>2
    <3> QED BY <1>2, <3>1, <3>2
  <2> QED BY <1>5, <2>2, <2>3 DEF Fe!Older, Fe!Shown
<1>9. \A r \in rows : \A e \in Fe!EntriesOf(r) \ Fe!Shown : Fe!Crowded(r) \/ (more /\ Fe!Older(e))
  <2> SUFFICES ASSUME NEW r \in rows, NEW e \in Fe!EntriesOf(r), e \notin Fe!Shown, ~Fe!Crowded(r)
               PROVE  more /\ Fe!Older(e)
    OBVIOUS
  <2>1. e \in E
    BY <1>1 DEF MadeOf
  <2>2. PICK j \in 1..Len(s) : s[j] = e
    BY <1>2, <2>1
  <2> QED BY <1>3, <1>8, <2>2
<1>10. more => Fe!HitFetchLimit \/ Fe!Entries(rows) \ Fe!Shown # {}
  <2> SUFFICES ASSUME n < Len(s) PROVE Fe!Entries(rows) \ Fe!Shown # {}
    BY <1>3
  <2>1. n + 1 \in 1..Len(s)
    BY <1>0, <1>2
  <2>2. s[n + 1] \in Fe!Entries(rows)
    BY <1>2, <2>1
  <2>3. ASSUME s[n + 1] \in Fe!Shown PROVE FALSE
    <3>1. PICK i \in 1..Len(feed) : feed[i] = s[n + 1]
      BY <1>5, <2>3 DEF Fe!Shown
    <3>2. i \in 1..Len(s) /\ s[i] = s[n + 1] /\ i <= n
      BY <1>0, <1>4, <3>1
    <3>3. i = n + 1
      BY <1>2, <2>1, <3>2
    <3> QED BY <1>0, <3>2, <3>3
  <2> QED BY <2>2, <2>3
<1> QED BY <1>6, <1>7, <1>9, <1>10 DEF Fe!PagesInOrder

\* and while they do.
LEMMA CoversNoneSkipped ==
  ASSUME FeedsTypeOK, NEW n, Few => Covers(Fe!Entries(rows), since, feed, n, more)
  PROVE  Fe!NoneSkipped
<1> SUFFICES ASSUME \A k \in FeedKinds : Fe!Cardinality({r \in rows : r.kind = k}) <= Batch,
                    NEW e \in Fe!Entries(rows), e \notin Fe!Shown, e.date <= since
             PROVE  more /\ Fe!Older(e)
  BY DEF Fe!NoneSkipped, FeedKinds
<1>1. Few
  BY FeedsCardinality DEF Few
<1>2. DOMAIN feed = 1..Len(feed)
  BY DEF FeedsTypeOK
<1>3. ~Within(feed, e)
  BY <1>2 DEF Within, Fe!Shown
<1>4. more /\ \A i \in 1..Len(feed) : feed[i].date > e.date
  BY <1>1, <1>3 DEF Covers
<1> QED BY <1>2, <1>4 DEF Fe!Older, Fe!Shown

\* The invariant of the feeds.
LEMMA FeedsInductive == Fe!Spec => []FeedsInv
<1> QED BY FeedsStart, FeedsStep, PTL DEF Fe!Spec

\* While the requests of the page come one after the other and until a row changes, its
\* pages, put together, are entries of the rows, each once and the newest first, and leave
\* out only older ones, which the button is there for, and those of rows that newer ones
\* of the kind crowd out of what a request reads. When rows do change they skip nothing
\* that was there at the start, as long as no kind has more rows than a request reads. A
\* profile that tells how a pull request ended tells its opening too. All this for any
\* sizes of a page and of what is read.
THEOREM FeedsStayTruthful == Fe!Spec => []Fe!FeedsTruthful
<1>1. FeedsInv => Fe!FeedsTruthful
  <2> SUFFICES ASSUME FeedsInv PROVE Fe!FeedsTruthful
    OBVIOUS
  <2>1. FeedsTypeOK /\ RowsDated
    BY DEF FeedsInv, FeedsTypeOK
  <2>2. Fe!ProfileTellsBoth
    BY <2>1, ProfileTells
  <2>3. ASSUME alone, loads = {}, loaded, ~error PROVE Fe!NoneSkipped /\ (now = since => Fe!PagesInOrder)
    <3>1. now = since => Fe!PagesInOrder
      BY <2>1, <2>3, InPlaceInOrder DEF FeedsInv, CalmOK, Calm
    <3>2. Few => Covers(Fe!Entries(rows), since, feed, offset + Page, more)
      BY <2>3 DEF FeedsInv, GrowOK
    <3>3. Fe!NoneSkipped
      BY <2>1, <3>2, CoversNoneSkipped
    <3> QED BY <3>1, <3>3
  <2> QED BY <2>2, <2>3 DEF Fe!FeedsTruthful
<1> QED BY <1>1, FeedsInductive, PTL

-----------------------------------------------------------------------------
(***************************************************************************)
(* The counts of commits. A week or month is known by the day it starts    *)
(* on, and of these a range has as many as asked for (WeeksLaid,           *)
(* MonthsLaid, DaysLaid); what the database has counted is in one of them  *)
(* (GroupedOK), as long as the week and the month do not change (RangeOK). *)
(* Totals are compared as sets: what is counted in one place is what is    *)
(* counted in the other, moved (TotalMoves).                               *)
(***************************************************************************)

\* The instance counts as the library does.
LEMMA StatsCardinality == \A S : St!Cardinality(S) = Cardinality(S)
  BY DEF St!Cardinality, Cardinality

\* What division leaves.
LEMMA DivMod ==
  ASSUME NEW d \in Int, NEW w \in Nat, w > 0
  PROVE  /\ d = (w * (d \div w)) + (d % w) /\ 0 <= d % w /\ d % w < w
         /\ d \div w \in Int /\ d % w \in Int
  OBVIOUS

\* Multiples of a number.
LEMMA Product ==
  ASSUME NEW w \in Nat, NEW a \in Int
  PROVE  a * w \in Int /\ w * a = a * w /\ (a - 1) * w = (a * w) - w /\ (a + 1) * w = (a * w) + w
  OBVIOUS

\* Multiples of a number add up.
LEMMA ProductSum ==
  ASSUME NEW w \in Nat, NEW a \in Int, NEW b \in Int
  PROVE  (a + b) * w = (a * w) + (b * w) /\ (a - b) * w = (a * w) - (b * w)
  OBVIOUS

\* Different multiples are that number apart, or more.
LEMMA ProductGrows ==
  ASSUME NEW w \in Nat, w > 0, NEW a \in Int, NEW b \in Int, a < b
  PROVE  (a * w) + w <= b * w
  OBVIOUS

\* d is the day a week starts on.
StartsWeek(d) == \E k \in Int : d = (k * WeekDays) + 1

\* The week of a day starts on it or less than a week before.
LEMMA WeekStart ==
  ASSUME NEW d \in Int
  PROVE  /\ St!StartOfWeek(d) \in Int /\ StartsWeek(St!StartOfWeek(d))
         /\ St!StartOfWeek(d) <= d /\ d < St!StartOfWeek(d) + WeekDays
<1> DEFINE W == WeekDays
           q == d \div W
           r == d % W
<1>0. W \in Nat /\ W > 1
  BY StatsAssumption
<1>1. d = (W * q) + r /\ 0 <= r /\ r < W /\ q \in Int /\ r \in Int
  BY <1>0, DivMod
<1>2. q * W \in Int /\ W * q = q * W /\ (q - 1) * W = (q * W) - W
  BY <1>0, <1>1, Product
<1>3. St!StartOfWeek(d) = d + (IF r = 0 THEN 1 - W ELSE 1 - r)
  BY DEF St!StartOfWeek, St!GetDay
<1> HIDE DEF q, r, W
<1>4. CASE r = 0
  <2>1. St!StartOfWeek(d) = ((q - 1) * W) + 1
    BY <1>0, <1>1, <1>2, <1>3, <1>4
  <2>2. q - 1 \in Int
    BY <1>1
  <2>3. StartsWeek(St!StartOfWeek(d))
    BY <2>1, <2>2 DEF StartsWeek, W
  <2>4. /\ St!StartOfWeek(d) \in Int
        /\ St!StartOfWeek(d) <= d /\ d < St!StartOfWeek(d) + W
    BY <1>0, <1>1, <1>2, <1>3, <1>4
  <2> QED BY <2>3, <2>4 DEF W
<1>5. CASE r # 0
  <2>1. St!StartOfWeek(d) = (q * W) + 1
    BY <1>0, <1>1, <1>2, <1>3, <1>5
  <2>2. StartsWeek(St!StartOfWeek(d))
    BY <2>1, <1>1 DEF StartsWeek, W
  <2>3. /\ St!StartOfWeek(d) \in Int
        /\ St!StartOfWeek(d) <= d /\ d < St!StartOfWeek(d) + W
    BY <1>0, <1>1, <1>2, <1>3, <1>5
  <2> QED BY <2>2, <2>3 DEF W
<1> QED BY <1>4, <1>5

\* A day is in one week.
LEMMA OneWeek ==
  ASSUME NEW d \in Int, NEW s \in Int, NEW t \in Int, StartsWeek(s), StartsWeek(t),
         s <= d, d < s + WeekDays, t <= d, d < t + WeekDays
  PROVE  s = t
<1> DEFINE W == WeekDays
<1>0. W \in Nat /\ W > 0
  BY StatsAssumption
<1>1. PICK k \in Int : s = (k * W) + 1
  BY DEF StartsWeek
<1>2. PICK l \in Int : t = (l * W) + 1
  BY DEF StartsWeek
<1>3. k * W \in Int /\ l * W \in Int
  BY <1>0, Product
<1>4. ~(k < l)
  <2> SUFFICES ASSUME k < l PROVE FALSE
    OBVIOUS
  <2>1. (k * W) + W <= l * W
    BY <1>0, ProductGrows
  <2> HIDE DEF W
  <2> QED BY <2>1, <1>0, <1>1, <1>2, <1>3 DEF W
<1>5. ~(l < k)
  <2> SUFFICES ASSUME l < k PROVE FALSE
    OBVIOUS
  <2>1. (l * W) + W <= k * W
    BY <1>0, ProductGrows
  <2> QED BY <2>1, <1>0, <1>1, <1>2, <1>3
<1> QED BY <1>1, <1>2, <1>4, <1>5

\* The days that weeks start on are those that are their own bucket.
LEMMA WeekStartIs ==
  ASSUME NEW d \in Int
  PROVE  St!StartOfWeek(d) = d <=> StartsWeek(d)
<1>1. /\ St!StartOfWeek(d) \in Int /\ StartsWeek(St!StartOfWeek(d))
      /\ St!StartOfWeek(d) <= d /\ d < St!StartOfWeek(d) + WeekDays
  BY WeekStart
<1>2. WeekDays \in Nat /\ WeekDays > 1 /\ d < d + WeekDays
  BY StatsAssumption
<1> QED BY <1>1, <1>2, OneWeek

\* A week after or before starts as many days later or earlier.
LEMMA WeeksBefore ==
  ASSUME NEW d \in Int, NEW n \in Nat
  PROVE  /\ n * WeekDays \in Int
         /\ St!StartOfWeek(d - (n * WeekDays)) = St!StartOfWeek(d) - (n * WeekDays)
<1> DEFINE W == WeekDays
           s == St!StartOfWeek(d)
           e == d - (n * W)
<1>0. W \in Nat /\ W > 1
  BY StatsAssumption
<1>1. s \in Int /\ StartsWeek(s) /\ s <= d /\ d < s + W
  BY WeekStart
<1>2. n * W \in Int
  BY <1>0, Product
<1>3. e \in Int
  BY <1>2
<1>4. /\ St!StartOfWeek(e) \in Int /\ StartsWeek(St!StartOfWeek(e))
      /\ St!StartOfWeek(e) <= e /\ e < St!StartOfWeek(e) + W
  BY <1>3, WeekStart
<1>5. StartsWeek(s - (n * W))
  <2>1. PICK k \in Int : s = (k * W) + 1
    BY <1>1 DEF StartsWeek
  <2>2. (k - n) * W = (k * W) - (n * W) /\ k * W \in Int /\ k - n \in Int
    BY <1>0, ProductSum, Product
  <2> HIDE DEF s, e
  <2>3. s - (n * W) = ((k - n) * W) + 1
    BY <2>1, <2>2, <1>2
  <2> QED BY <2>2, <2>3 DEF StartsWeek
<1> HIDE DEF s
<1>6. s - (n * W) \in Int /\ s - (n * W) <= e /\ e < (s - (n * W)) + W
  <2> HIDE DEF W
  <2> QED BY <1>0, <1>1, <1>2
<1>7. St!StartOfWeek(e) = s - (n * W)
  <2> HIDE DEF e
  <2> QED BY <1>3, <1>4, <1>5, <1>6, OneWeek
<1> QED BY <1>2, <1>7 DEF s

\* As many starts as asked for, or fewer, are all taken.
Taken(starts, most) == {d \in starts : Cardinality({e \in starts : e < d}) < most}
\* So it is.
LEMMA AllTaken ==
  ASSUME NEW starts \in SUBSET Int, IsFiniteSet(starts), NEW most \in Nat, Cardinality(starts) <= most
  PROVE  Taken(starts, most) = starts
<1> SUFFICES ASSUME NEW d \in starts PROVE Cardinality({e \in starts : e < d}) < most
  BY DEF Taken
<1> DEFINE before == {e \in starts : e < d}
<1>1. before \in SUBSET starts /\ d \notin before
  OBVIOUS
<1>2. IsFiniteSet(before) /\ Cardinality(before) <= Cardinality(starts) /\ before # starts
  BY <1>1, FS_Subset
<1>3. Cardinality(starts) # Cardinality(before)
  BY <1>1, <1>2, FS_Subset
<1>4. Cardinality(before) \in Nat /\ Cardinality(starts) \in Nat
  BY <1>2, FS_CardinalityType
<1> HIDE DEF before
<1>5. Cardinality(before) < most
  BY <1>2, <1>3, <1>4
<1> QED BY <1>5 DEF before

\* Starts(kind, a, b): the buckets that start from a to b.
Starts(kind, a, b) == {d \in a..b : St!Key(kind, d) = d}
Laid(kind) == IF kind = "week" THEN Weeks + 1 ELSE IF kind = "month" THEN Months ELSE Span + 1
Most(kind) == IF kind = "week" THEN Weeks + 1 ELSE IF kind = "month" THEN Months + 1 ELSE Span + 1
Last(kind) == IF kind = "day" THEN from + Span ELSE St!Key(kind, today)

\* No bucket is cut off where there are as many as laid out.
LEMMA BucketsTaken ==
  ASSUME NEW kind \in {"week", "month", "day"}, from \in Int, Last(kind) \in Int,
         IsFiniteSet(Starts(kind, from, Last(kind))), Cardinality(Starts(kind, from, Last(kind))) = Laid(kind)
  PROVE  St!Buckets(kind) = Starts(kind, from, Last(kind)) /\ Cardinality(St!Buckets(kind)) = Laid(kind)
<1> DEFINE starts == Starts(kind, from, Last(kind))
<1>1. Laid(kind) <= Most(kind) /\ Most(kind) \in Nat /\ Laid(kind) \in Nat
  <2>1. Weeks \in Nat /\ Span \in Nat /\ Months \in Nat
    BY StatsAssumption
  <2> QED BY <2>1 DEF Laid, Most
<1>2. St!Buckets(kind) = Taken(starts, Most(kind))
  BY StatsCardinality DEF St!Buckets, Taken, Starts, Last, Most
<1>3. starts \in SUBSET Int
  BY DEF Starts
<1>4. Taken(starts, Most(kind)) = starts
  <2> HIDE DEF starts
  <2>1. IsFiniteSet(starts) /\ Cardinality(starts) <= Most(kind)
    BY <1>1 DEF starts
  <2> QED BY <1>1, <1>3, <2>1, AllTaken
<1> QED BY <1>2, <1>4

\* The weeks that are laid out: one more than asked for, and with the week of every day
\* since the first.
LEMMA WeeksLaid ==
  ASSUME today \in Int, from = St!StartOfWeek(today) - (Weeks * WeekDays)
  PROVE  /\ IsFiniteSet(St!Buckets("week")) /\ Cardinality(St!Buckets("week")) = Weeks + 1
         /\ \A d \in Int : from <= d /\ d <= today => St!Key("week", d) \in St!Buckets("week")
<1> DEFINE W == WeekDays
           end == St!StartOfWeek(today)
           starts == Starts("week", from, end)
           to == [j \in 0..Weeks |-> from + (j * W)]
<1>0. W \in Nat /\ W > 0 /\ Weeks \in Nat
  BY StatsAssumption
<1>1. end \in Int /\ StartsWeek(end) /\ end <= today /\ today < end + W
  BY WeekStart
<1>2. PICK k \in Int : end = (k * W) + 1
  BY <1>1 DEF StartsWeek
<1>3. /\ k * W \in Int /\ Weeks * W \in Int /\ k - Weeks \in Int
      /\ (k - Weeks) * W = (k * W) - (Weeks * W)
  BY <1>0, Product, ProductSum
<1>4. from \in Int /\ from = ((k - Weeks) * W) + 1
  BY <1>1, <1>2, <1>3
<1>5. \A d : d \in starts <=> d \in from..end /\ StartsWeek(d)
  BY <1>1, <1>4, WeekStartIs DEF Starts, St!Key
<1> HIDE DEF starts, end, W
<1>6. ASSUME NEW j \in 0..Weeks PROVE to[j] = (((k - Weeks) + j) * W) + 1 /\ to[j] \in starts
  <2>1. /\ j \in Int /\ j * W \in Int /\ ((k - Weeks) + j) * W = ((k - Weeks) * W) + (j * W)
        /\ (k - Weeks) * W \in Int /\ (k - Weeks) + j \in Int
    BY <1>0, <1>3, Product, ProductSum
  <2>2. to[j] = from + (j * W)
    OBVIOUS
  <2> HIDE DEF to
  <2>3. to[j] = (((k - Weeks) + j) * W) + 1
    BY <2>1, <2>2, <1>4
  <2>4. 0 <= j * W /\ j * W <= Weeks * W
    <3>1. 0 * W = 0 /\ (j = 0 \/ 0 < j) /\ (j = Weeks \/ j < Weeks)
      BY <1>0
    <3>2. 0 < j => (0 * W) + W <= j * W
      BY <1>0, ProductGrows
    <3>3. j < Weeks => (j * W) + W <= Weeks * W
      BY <1>0, ProductGrows
    <3> QED BY <1>0, <1>3, <2>1, <3>1, <3>2, <3>3
  <2>5. to[j] \in from..end
    BY <2>1, <2>2, <2>4, <1>2, <1>3, <1>4
  <2>6. StartsWeek(to[j])
    BY <2>1, <2>3 DEF StartsWeek, W
  <2> QED BY <2>3, <2>5, <2>6, <1>5
<1>7. ASSUME NEW i \in 0..Weeks, NEW j \in 0..Weeks, to[i] = to[j] PROVE i = j
  <2>1. i * W \in Int /\ j * W \in Int /\ i * W = j * W
    <3>1. i * W \in Int /\ j * W \in Int
      BY <1>0, Product
    <3>2. from + (i * W) = from + (j * W)
      BY <1>7
    <3>3. \A x, y \in Int : from + x = from + y => x = y
      BY <1>4
    <3> HIDE DEF to
    <3> QED BY <3>1, <3>2, <3>3, Zenon
  <2>2. i < j => (i * W) + W <= j * W
    BY <1>0, ProductGrows
  <2>3. j < i => (j * W) + W <= i * W
    BY <1>0, ProductGrows
  <2> HIDE DEF to
  <2> QED BY <1>0, <2>1, <2>2, <2>3
<1>8. ASSUME NEW d \in starts PROVE \E j \in 0..Weeks : to[j] = d
  <2>1. d \in from..end /\ StartsWeek(d)
    BY <1>5
  <2>2. PICK l \in Int : d = (l * W) + 1
    BY <2>1 DEF StartsWeek, W
  <2>3. l * W \in Int /\ l - (k - Weeks) \in Int
    BY <1>0, <1>3, Product
  <2>4. ~(l < k - Weeks)
    <3> SUFFICES ASSUME l < k - Weeks PROVE FALSE
      OBVIOUS
    <3>1. (l * W) + W <= (k - Weeks) * W
      BY <1>0, <1>3, ProductGrows
    <3>2. (k - Weeks) * W \in Int
      BY <1>0, <1>3, Product
    <3> QED BY <3>1, <3>2, <2>1, <2>2, <2>3, <1>0, <1>4
  <2>5. ~(k < l)
    <3> SUFFICES ASSUME k < l PROVE FALSE
      OBVIOUS
    <3>1. (k * W) + W <= l * W
      BY <1>0, ProductGrows
    <3> QED BY <3>1, <2>1, <2>2, <2>3, <1>0, <1>1, <1>2, <1>3
  <2>6. l - (k - Weeks) \in 0..Weeks
    BY <2>3, <2>4, <2>5, <1>0, <1>3
  <2>7. to[l - (k - Weeks)] = (((k - Weeks) + (l - (k - Weeks))) * W) + 1
    BY <2>6, <1>6
  <2>8. (k - Weeks) + (l - (k - Weeks)) = l
    BY <1>3
  <2> QED BY <2>2, <2>6, <2>7, <2>8
<1>9. to \in Bijection(0..Weeks, starts)
  <2>1. to \in [0..Weeks -> starts]
    BY <1>6
  <2> HIDE DEF to
  <2>2. to \in Injection(0..Weeks, starts)
    BY <2>1, <1>7 DEF Injection, IsInjective
  <2>3. to \in Surjection(0..Weeks, starts)
    BY <2>1, <1>8 DEF Surjection
  <2> QED BY <2>2, <2>3 DEF Bijection
<1>10. IsFiniteSet(starts) /\ Cardinality(starts) = Weeks + 1
  <2>1. IsFiniteSet(0..Weeks) /\ Cardinality(0..Weeks) = Weeks + 1
    BY <1>0, FS_Interval
  <2> HIDE DEF to
  <2>2. ExistsBijection(0..Weeks, starts)
    BY <1>9 DEF ExistsBijection
  <2> QED BY <2>1, <2>2, FS_Bijection
<1>11. St!Buckets("week") = starts
  <2>1. Last("week") = end /\ Laid("week") = Weeks + 1
    BY DEF Last, Laid, St!Key, end
  <2> QED BY <2>1, <1>1, <1>4, <1>10, BucketsTaken DEF starts
<1>12. ASSUME NEW d \in Int, from <= d, d <= today PROVE St!Key("week", d) \in starts
  <2> DEFINE s == St!StartOfWeek(d)
  <2>0. St!Key("week", d) = s
    BY DEF St!Key
  <2>1. s \in Int /\ StartsWeek(s) /\ s <= d /\ d < s + W
    BY WeekStart DEF W
  <2> HIDE DEF s
  <2>2. PICK l \in Int : s = (l * W) + 1
    BY <2>1 DEF StartsWeek, W
  <2>3. l * W \in Int /\ (k - Weeks) * W \in Int
    BY <1>0, <1>3, Product
  <2>4. ~(l < k - Weeks)
    <3> SUFFICES ASSUME l < k - Weeks PROVE FALSE
      OBVIOUS
    <3>1. (l * W) + W <= (k - Weeks) * W
      BY <1>0, <1>3, ProductGrows
    <3> QED BY <3>1, <2>1, <2>2, <2>3, <1>0, <1>4, <1>12
  <2>5. ~(k < l)
    <3> SUFFICES ASSUME k < l PROVE FALSE
      OBVIOUS
    <3>1. (k * W) + W <= l * W
      BY <1>0, ProductGrows
    <3> QED BY <3>1, <2>1, <2>2, <2>3, <1>0, <1>1, <1>2, <1>3, <1>12
  <2>6. l = k \/ l < k
    BY <2>5
  <2>7. l < k => (l * W) + W <= k * W
    BY <1>0, ProductGrows
  <2>8. l = k - Weeks \/ k - Weeks < l
    BY <2>4, <1>3
  <2>9. k - Weeks < l => ((k - Weeks) * W) + W <= l * W
    BY <1>0, <1>3, ProductGrows
  <2>10. s \in from..end
    BY <2>1, <2>2, <2>3, <2>6, <2>7, <2>8, <2>9, <1>0, <1>1, <1>2, <1>3, <1>4
  <2> QED BY <2>0, <2>1, <2>10, <1>5
<1> QED BY <1>10, <1>11, <1>12

\* Of some numbers, one is the least.
LEMMA LeastOf ==
  ASSUME NEW S \in SUBSET Nat, S # {}
  PROVE  \E m \in S : \A n \in S : m <= n
<1>1. PICK m \in S : \A n \in S : ~(<<n, m>> \in OpToRel(<, Nat))
  BY NatLessThanWellFounded, WFMin
<1>2. \A n \in S : m <= n
  <2> SUFFICES ASSUME NEW n \in S PROVE m <= n
    OBVIOUS
  <2>1. ~(n < m)
    BY <1>1 DEF OpToRel
  <2> QED BY <2>1
<1> QED BY <1>2

\* A day of the calendar has a month.
LEMMA MonthHas ==
  ASSUME NEW d \in Int, MonthStart[1] <= d, d < MonthStart[Len(MonthStart)]
  PROVE  /\ St!MonthOf(d) \in 1..(Len(MonthStart) - 1)
         /\ MonthStart[St!MonthOf(d)] <= d /\ d < MonthStart[St!MonthOf(d) + 1]
<1> DEFINE later == {m \in 1..Len(MonthStart) : d < MonthStart[m]}
<1>0. /\ Len(MonthStart) \in Nat /\ DOMAIN MonthStart = 1..Len(MonthStart)
      /\ \A m \in 1..Len(MonthStart) : MonthStart[m] \in Nat
      /\ Len(MonthStart) \in 1..Len(MonthStart)
  BY StatsAssumption
<1>1. later \in SUBSET Nat /\ Len(MonthStart) \in later
  BY <1>0
<1>2. PICK m \in later : \A n \in later : m <= n
  <2> HIDE DEF later
  <2> QED BY <1>1, LeastOf
<1>3. m \in 1..Len(MonthStart) /\ d < MonthStart[m] /\ m # 1
  BY <1>0
<1>4. m - 1 \in 1..(Len(MonthStart) - 1) /\ (m - 1) + 1 = m /\ m - 1 \notin later
  <2> HIDE DEF later
  <2> QED BY <1>0, <1>2, <1>3
<1>5. MonthStart[m - 1] <= d
  BY <1>0, <1>4
<1>6. \E l \in 1..(Len(MonthStart) - 1) : MonthStart[l] <= d /\ d < MonthStart[l + 1]
  BY <1>3, <1>4, <1>5
<1> QED BY <1>6 DEF St!MonthOf

\* A month starts after those before it.
LEMMA MonthsRise ==
  /\ Len(MonthStart) \in Nat /\ Len(MonthStart) >= 1 /\ DOMAIN MonthStart = 1..Len(MonthStart)
  /\ \A m \in 1..Len(MonthStart) : MonthStart[m] \in Nat
  /\ \A m, n \in 1..Len(MonthStart) : m < n => MonthStart[m] < MonthStart[n]
  /\ \A m, n \in 1..Len(MonthStart) : m <= n => MonthStart[m] <= MonthStart[n]
<1>1. /\ Len(MonthStart) \in Nat /\ DOMAIN MonthStart = 1..Len(MonthStart)
      /\ \A m \in 1..Len(MonthStart) : MonthStart[m] \in Nat
  BY StatsAssumption
<1>2. \A m, n \in 1..Len(MonthStart) : m < n => MonthStart[m] < MonthStart[n]
  BY <1>1, StatsAssumption
<1>3. \A m, n \in 1..Len(MonthStart) : m <= n => MonthStart[m] <= MonthStart[n]
  <2> SUFFICES ASSUME NEW m \in 1..Len(MonthStart), NEW n \in 1..Len(MonthStart), m <= n
               PROVE  MonthStart[m] <= MonthStart[n]
    OBVIOUS
  <2>1. CASE m = n
    BY <2>1, <1>1
  <2>2. CASE m < n
    BY <2>2, <1>1, <1>2
  <2> QED BY <2>1, <2>2, <1>1
<1> QED BY <1>1, <1>2, <1>3, StatsAssumption

\* A day is in one month.
LEMMA MonthIs ==
  ASSUME NEW d \in Int, NEW m \in 1..(Len(MonthStart) - 1), MonthStart[m] <= d, d < MonthStart[m + 1]
  PROVE  St!MonthOf(d) = m
<1>0. /\ Len(MonthStart) \in Nat /\ DOMAIN MonthStart = 1..Len(MonthStart)
      /\ \A l \in 1..Len(MonthStart) : MonthStart[l] \in Nat
  BY StatsAssumption
<1>1. ASSUME NEW l \in 1..(Len(MonthStart) - 1), MonthStart[l] <= d, d < MonthStart[l + 1] PROVE l = m
  <2>1. ~(l < m)
    <3> SUFFICES ASSUME l < m PROVE FALSE
      OBVIOUS
    <3>1. l + 1 \in 1..Len(MonthStart) /\ m \in 1..Len(MonthStart) /\ l + 1 <= m
      BY <1>0
    <3>2. MonthStart[l + 1] <= MonthStart[m]
      BY <3>1, MonthsRise
    <3> QED BY <1>0, <1>1, <3>1, <3>2
  <2>2. ~(m < l)
    <3> SUFFICES ASSUME m < l PROVE FALSE
      OBVIOUS
    <3>1. m + 1 \in 1..Len(MonthStart) /\ l \in 1..Len(MonthStart) /\ m + 1 <= l
      BY <1>0
    <3>2. MonthStart[m + 1] <= MonthStart[l]
      BY <3>1, MonthsRise
    <3> QED BY <1>0, <1>1, <3>1, <3>2
  <2> QED BY <2>1, <2>2, <1>0
<1> QED BY <1>1 DEF St!MonthOf

\* There are enough months before today.
LEMMA MonthToday ==
  ASSUME today \in FirstDay..LastDay
  PROVE  /\ St!MonthOf(today) \in Months..(Len(MonthStart) - 1) /\ Months \in 1..Len(MonthStart)
         /\ MonthStart[St!MonthOf(today)] <= today /\ today < MonthStart[St!MonthOf(today) + 1]
         /\ MonthStart[1] <= today /\ today < MonthStart[Len(MonthStart)]
<1> DEFINE M == St!MonthOf(today)
<1>1. MonthStart[1] <= today /\ today < MonthStart[Len(MonthStart)] /\ Months \in 1..Len(MonthStart)
  <2>1. Months \in 1..Len(MonthStart) /\ MonthStart[Months] <= FirstDay /\ FirstDay \in Nat /\ LastDay \in Nat
        /\ LastDay < MonthStart[Len(MonthStart)]
    BY StatsAssumption, MonthsRise
  <2>2. MonthStart[1] <= MonthStart[Months] /\ MonthStart[1] \in Nat /\ MonthStart[Months] \in Nat
        /\ MonthStart[Len(MonthStart)] \in Nat
    BY <2>1, MonthsRise
  <2> QED BY <2>1, <2>2
<1>2. today \in Int /\ FirstDay \in Nat
  BY StatsAssumption
<1>3. M \in 1..(Len(MonthStart) - 1) /\ MonthStart[M] <= today /\ today < MonthStart[M + 1]
  BY <1>1, <1>2, MonthHas
<1> HIDE DEF M
<1>4. ~(M < Months)
  <2> SUFFICES ASSUME M < Months PROVE FALSE
    OBVIOUS
  <2>1. M + 1 <= Months /\ M + 1 \in 1..Len(MonthStart)
    BY <1>1, <1>3, MonthsRise
  <2>2. MonthStart[M + 1] <= MonthStart[Months] /\ MonthStart[M + 1] \in Nat /\ MonthStart[Months] \in Nat
    BY <1>1, <2>1, MonthsRise
  <2>3. MonthStart[Months] <= FirstDay
    BY StatsAssumption
  <2> QED BY <1>2, <1>3, <2>2, <2>3
<1> QED BY <1>1, <1>3, <1>4, MonthsRise DEF M

\* The months that are laid out: as many as asked for, and with the month of every day
\* since the first.
LEMMA MonthsLaid ==
  ASSUME today \in FirstDay..LastDay, from = MonthStart[(St!MonthOf(today) - Months) + 1]
  PROVE  /\ IsFiniteSet(St!Buckets("month")) /\ Cardinality(St!Buckets("month")) = Months
         /\ \A d \in Int : from <= d /\ d <= today => St!Key("month", d) \in St!Buckets("month")
<1> DEFINE M == St!MonthOf(today)
           first == (M - Months) + 1
           end == MonthStart[M]
           starts == Starts("month", from, end)
           to == [m \in first..M |-> MonthStart[m]]
<1>1. /\ M \in Months..(Len(MonthStart) - 1) /\ Months \in 1..Len(MonthStart)
      /\ end <= today /\ today < MonthStart[M + 1]
      /\ MonthStart[1] <= today /\ today < MonthStart[Len(MonthStart)]
  BY MonthToday
<1> HIDE DEF M
<1>2. M \in 1..Len(MonthStart) /\ M \in Int /\ first \in 1..M /\ M + 1 \in 1..Len(MonthStart)
  BY <1>1, MonthsRise
<1>3. from = MonthStart[first] /\ from \in Nat /\ end \in Nat /\ from <= end /\ today \in Int
  <2>1. from = MonthStart[first]
    BY DEF M
  <2>2. first \in 1..Len(MonthStart) /\ first <= M
    BY <1>1, <1>2, MonthsRise
  <2> HIDE DEF first
  <2>3. MonthStart[first] \in Nat /\ MonthStart[M] \in Nat /\ MonthStart[first] <= MonthStart[M]
    BY <2>2, <1>2, MonthsRise
  <2> QED BY <2>1, <2>3, StatsAssumption
<1> HIDE DEF first
\* The month of a day of the range.
<1>4. ASSUME NEW d \in Int, from <= d, d <= today
      PROVE  /\ St!MonthOf(d) \in first..M /\ MonthStart[St!MonthOf(d)] <= d
             /\ MonthStart[St!MonthOf(d)] = to[St!MonthOf(d)]
  <2> DEFINE m == St!MonthOf(d)
  <2>0. MonthStart[1] <= d /\ d < MonthStart[Len(MonthStart)]
    <3>1. MonthStart[1] <= MonthStart[first] /\ MonthStart[1] \in Nat /\ MonthStart[Len(MonthStart)] \in Nat
      BY <1>2, MonthsRise
    <3> QED BY <3>1, <1>1, <1>3, <1>4
  <2>1. m \in 1..(Len(MonthStart) - 1) /\ MonthStart[m] <= d /\ d < MonthStart[m + 1]
    BY <2>0, MonthHas
  <2> HIDE DEF m
  <2>2. m \in 1..Len(MonthStart) /\ m + 1 \in 1..Len(MonthStart)
    BY <2>1, MonthsRise
  <2>3. ~(m < first)
    <3> SUFFICES ASSUME m < first PROVE FALSE
      OBVIOUS
    <3>1. MonthStart[m + 1] <= MonthStart[first]
      BY <2>2, <1>2, MonthsRise
    <3>2. MonthStart[m + 1] \in Nat
      BY <2>2, MonthsRise
    <3> QED BY <3>1, <3>2, <1>3, <1>4, <2>1
  <2>4. ~(M < m)
    <3> SUFFICES ASSUME M < m PROVE FALSE
      OBVIOUS
    <3>1. MonthStart[M + 1] <= MonthStart[m]
      BY <2>2, <1>2, MonthsRise
    <3>2. MonthStart[M + 1] \in Nat /\ MonthStart[m] \in Nat
      BY <2>2, <1>2, MonthsRise
    <3> QED BY <3>1, <3>2, <1>1, <1>3, <1>4, <2>1
  <2>5. m \in first..M
    BY <2>2, <2>3, <2>4, <1>2
  <2> QED BY <2>1, <2>5 DEF m
<1>5. ASSUME NEW m \in first..M PROVE to[m] = MonthStart[m] /\ to[m] \in from..end /\ St!MonthOf(to[m]) = m
  <2>1. to[m] = MonthStart[m]
    OBVIOUS
  <2> HIDE DEF to
  <2>2. m \in 1..Len(MonthStart) /\ m \in 1..(Len(MonthStart) - 1) /\ m + 1 \in 1..Len(MonthStart)
        /\ first <= m /\ m <= M /\ first \in 1..Len(MonthStart) /\ m < m + 1
    BY <1>1, <1>2, MonthsRise
  <2>3. /\ MonthStart[m] \in Nat /\ MonthStart[first] <= MonthStart[m] /\ MonthStart[m] <= MonthStart[M]
        /\ MonthStart[m] < MonthStart[m + 1]
    BY <2>2, <1>2, MonthsRise
  <2>4. MonthStart[m] \in Int /\ MonthStart[m] <= MonthStart[m]
    BY <2>3
  <2>5. St!MonthOf(MonthStart[m]) = m
    BY <2>2, <2>3, <2>4, MonthIs
  <2> QED BY <2>1, <2>3, <2>5, <1>3
<1>6. \A d : d \in starts <=> d \in from..end /\ d = MonthStart[St!MonthOf(d)]
  BY DEF Starts, St!Key, St!StartOfMonth
<1> HIDE DEF starts, end
<1>7. \A m \in first..M : to[m] \in starts
  BY <1>5, <1>6
<1>8. ASSUME NEW d \in starts PROVE \E m \in first..M : to[m] = d
  <2>1. d \in from..end /\ d = MonthStart[St!MonthOf(d)]
    BY <1>6
  <2>2. d \in Int /\ from <= d /\ d <= today
    BY <2>1, <1>1, <1>3 DEF end
  <2> QED BY <1>4, <2>1, <2>2
<1>9. IsFiniteSet(starts) /\ Cardinality(starts) = Months
  <2>1. IsFiniteSet(first..M) /\ Cardinality(first..M) = Months
    <3>1. first \in Int /\ M \in Int /\ ~(first > M) /\ (M - first) + 1 = Months
      BY <1>1, <1>2, MonthsRise DEF first
    <3> QED BY <3>1, FS_Interval
  <2>2. to \in [first..M -> starts]
    BY <1>7
  <2> HIDE DEF to
  <2>3. to \in Injection(first..M, starts)
    <3>1. \A m, n \in first..M : to[m] = to[n] => m = n
      BY <1>5
    <3> QED BY <3>1, <2>2 DEF Injection, IsInjective
  <2>4. to \in Surjection(first..M, starts)
    BY <2>2, <1>8 DEF Surjection
  <2>5. ExistsBijection(first..M, starts)
    BY <2>3, <2>4 DEF ExistsBijection, Bijection
  <2> QED BY <2>1, <2>5, FS_Bijection
<1>10. St!Buckets("month") = starts
  <2>1. Last("month") = end /\ Laid("month") = Months
    BY DEF Last, Laid, St!Key, St!StartOfMonth, end, M
  <2> QED BY <2>1, <1>3, <1>9, BucketsTaken DEF starts
<1>11. ASSUME NEW d \in Int, from <= d, d <= today PROVE St!Key("month", d) \in starts
  <2>1. St!Key("month", d) = to[St!MonthOf(d)] /\ St!MonthOf(d) \in first..M
    BY <1>4, <1>11 DEF St!Key, St!StartOfMonth
  <2> QED BY <2>1, <1>7
<1> QED BY <1>9, <1>10, <1>11

\* The days that are laid out.
LEMMA DaysLaid ==
  ASSUME from \in Int
  PROVE  /\ St!Buckets("day") = from..(from + Span)
         /\ IsFiniteSet(St!Buckets("day")) /\ Cardinality(St!Buckets("day")) = Span + 1
<1>1. Span \in Nat
  BY StatsAssumption
<1>2. Starts("day", from, Last("day")) = from..(from + Span) /\ Last("day") \in Int /\ Laid("day") = Span + 1
  BY <1>1 DEF Starts, Last, Laid, St!Key
<1>3. IsFiniteSet(from..(from + Span)) /\ Cardinality(from..(from + Span)) = Span + 1
  BY <1>1, FS_Interval
<1> QED BY <1>2, <1>3, BucketsTaken

\* What is counted: a pair of an x of S and a number up to f[x].
Units(f, S) == UNION {{x} \X (1..f[x]) : x \in S}
\* The total counts them.
LEMMA UnitsOf ==
  ASSUME NEW f, NEW S
  PROVE  /\ St!Total(f, S) = Cardinality(Units(f, S))
         /\ \A p : p \in Units(f, S) <=> \E x \in S : \E i \in 1..f[x] : p = <<x, i>>
  BY StatsCardinality DEF St!Total, Units

\* The total is a number if finitely many x have a number each.
LEMMA UnitsFinite ==
  ASSUME NEW S, IsFiniteSet(S), NEW f, \A x \in S : f[x] \in Nat
  PROVE  IsFiniteSet(Units(f, S)) /\ St!Total(f, S) \in Nat
<1> DEFINE T == {{x} \X (1..f[x]) : x \in S}
           g == [x \in S |-> {x} \X (1..f[x])]
<1>1. IsFiniteSet(T)
  <2>1. g \in Surjection(S, T)
    BY DEF Surjection
  <2> HIDE DEF g, T
  <2> QED BY <2>1, FS_Surjection
<1>2. \A t \in T : IsFiniteSet(t)
  <2> SUFFICES ASSUME NEW x \in S PROVE IsFiniteSet({x} \X (1..f[x]))
    OBVIOUS
  <2>1. IsFiniteSet({x})
    BY FS_Singleton
  <2>2. 1 \in Int /\ f[x] \in Int
    OBVIOUS
  <2>3. IsFiniteSet(1..f[x])
    BY <2>2, FS_Interval
  <2> QED BY <2>1, <2>3, FS_Product
<1>3. IsFiniteSet(Units(f, S))
  BY <1>1, <1>2, FS_UNION DEF Units
<1> QED BY <1>3, FS_CardinalityType, UnitsOf

\* g has in C what f has in D, each number at the place that `to' gives its x.
Moved(f, D, g, C, to) ==
  /\ to \in [D -> C] /\ \A x, y \in D : to[x] = to[y] => x = y
  /\ \A x \in D : f[x] \in Nat /\ g[to[x]] = f[x]
  /\ \A c \in C : (\A x \in D : to[x] # c) => g[c] = 0

\* The total stays when things are put elsewhere, those of each x in a place of its own.
LEMMA TotalMoves ==
  ASSUME NEW D, IsFiniteSet(D), NEW f, NEW C, NEW g, NEW to, Moved(f, D, g, C, to)
  PROVE  St!Total(g, C) = St!Total(f, D)
<1> USE DEF Moved
<1> DEFINE P == Units(f, D)
           Q == Units(g, C)
           h == [p \in P |-> <<to[p[1]], p[2]>>]
<1>1. \A p : p \in P <=> \E x \in D : \E i \in 1..f[x] : p = <<x, i>>
  BY UnitsOf
<1>2. \A p : p \in Q <=> \E c \in C : \E i \in 1..g[c] : p = <<c, i>>
  BY UnitsOf
<1> HIDE DEF P, Q
<1>3. ASSUME NEW x \in D, NEW i \in 1..f[x] PROVE <<x, i>> \in P /\ h[<<x, i>>] = <<to[x], i>> /\ h[<<x, i>>] \in Q
  <2>1. <<x, i>> \in P
    BY <1>1
  <2>2. h[<<x, i>>] = <<to[x], i>>
    BY <2>1
  <2> HIDE DEF h
  <2>3. to[x] \in C /\ i \in 1..g[to[x]]
    OBVIOUS
  <2> QED BY <2>1, <2>2, <2>3, <1>2
<1>4. h \in [P -> Q]
  <2>1. \A p \in P : h[p] \in Q
    <3> SUFFICES ASSUME NEW p \in P PROVE h[p] \in Q
      OBVIOUS
    <3>1. PICK x \in D : \E i \in 1..f[x] : p = <<x, i>>
      BY <1>1
    <3>2. PICK i \in 1..f[x] : p = <<x, i>>
      BY <3>1
    <3> HIDE DEF h
    <3> QED BY <1>3, <3>2
  <2> QED BY <2>1
<1>5. h \in Injection(P, Q)
  <2>1. ASSUME NEW p \in P, NEW q \in P, h[p] = h[q] PROVE p = q
    <3>1. PICK x \in D : \E i \in 1..f[x] : p = <<x, i>>
      BY <1>1
    <3>2. PICK i \in 1..f[x] : p = <<x, i>>
      BY <3>1
    <3>3. PICK y \in D : \E j \in 1..f[y] : q = <<y, j>>
      BY <1>1
    <3>4. PICK j \in 1..f[y] : q = <<y, j>>
      BY <3>3
    <3>5. h[p] = <<to[x], i>> /\ h[q] = <<to[y], j>>
      BY <1>3, <3>2, <3>4
    <3> HIDE DEF h
    <3>6. <<to[x], i>> = <<to[y], j>>
      BY <2>1, <3>5
    <3>7. to[x] = to[y] /\ i = j
      BY <3>6
    <3> QED BY <3>2, <3>4, <3>7
  <2> HIDE DEF h
  <2> QED BY <2>1, <1>4 DEF Injection, IsInjective
<1>6. h \in Surjection(P, Q)
  <2>1. ASSUME NEW q \in Q PROVE \E p \in P : h[p] = q
    <3>1. PICK c \in C : \E i \in 1..g[c] : q = <<c, i>>
      BY <1>2
    <3>2. PICK i \in 1..g[c] : q = <<c, i>>
      BY <3>1
    <3>3. g[c] # 0
      BY <3>2
    <3>4. PICK x \in D : to[x] = c
      BY <3>3
    <3>5. i \in 1..f[x]
      BY <3>2, <3>4
    <3> HIDE DEF h
    <3> QED BY <1>3, <3>2, <3>4, <3>5
  <2> HIDE DEF h
  <2> QED BY <2>1, <1>4 DEF Surjection
<1>7. IsFiniteSet(P)
  BY UnitsFinite DEF P
<1> HIDE DEF h
<1>8. Cardinality(Q) = Cardinality(P)
  BY <1>5, <1>6, <1>7, FS_Bijection DEF ExistsBijection, Bijection
<1> QED BY <1>8, UnitsOf DEF P, Q

\* The days that the heatmap draws.
GridDays == St!GridStart..(from + Span)

\* The grid of the heatmap has room for the days.
LEMMA GridHolds ==
  ASSUME from \in Int
  PROVE  /\ St!GridStart \in Int /\ from + Span \in Int /\ Span \in Nat
         /\ (from..(from + Span)) \in SUBSET GridDays
<1>1. Span \in Nat /\ Grid \in Nat /\ WeekDays \in Nat /\ Span < Grid * WeekDays
  BY StatsAssumption
<1>2. Grid * WeekDays \in Int
  BY <1>1, Product
<1>3. St!GridStart = from + Span - (Grid * WeekDays - 1)
  BY DEF St!GridStart
<1>4. St!GridStart \in Int /\ St!GridStart <= from
  BY <1>1, <1>2, <1>3
<1> HIDE DEF St!GridStart
<1> QED BY <1>1, <1>4 DEF GridDays

\* No two days are drawn in one cell.
LEMMA CellsApart ==
  ASSUME from \in Int, NEW d \in GridDays, NEW e \in GridDays, St!CellOf(d) = St!CellOf(e)
  PROVE  d = e
<1> DEFINE W == WeekDays
           g == St!GridStart
<1>0. W \in Nat /\ W > 0 /\ g \in Int /\ d \in Int /\ e \in Int
  BY GridHolds, StatsAssumption DEF GridDays
<1>1. (d - g) \div W = (e - g) \div W /\ d % W = e % W
  BY DEF St!CellOf, St!GetDay
<1> HIDE DEF g, W
<1>2. d - g \in Int /\ e - g \in Int
  BY <1>0
<1>3. /\ d - g = (W * ((d - g) \div W)) + ((d - g) % W)
      /\ 0 <= (d - g) % W /\ (d - g) % W < W /\ (d - g) \div W \in Int /\ (d - g) % W \in Int
  BY <1>0, <1>2, DivMod
<1>4. /\ e - g = (W * ((e - g) \div W)) + ((e - g) % W)
      /\ 0 <= (e - g) % W /\ (e - g) % W < W /\ (e - g) % W \in Int
  BY <1>0, <1>2, DivMod
<1>5. PICK k \in Int : k = (d - g) \div W /\ k = (e - g) \div W
  BY <1>1, <1>3
<1>6. W * k \in Int
  BY <1>0, Product
<1>7. d - e < W /\ e - d < W
  BY <1>0, <1>3, <1>4, <1>5, <1>6
<1>8. /\ d = (W * (d \div W)) + (d % W) /\ d \div W \in Int /\ d % W \in Int
      /\ e = (W * (e \div W)) + (e % W) /\ e \div W \in Int
  BY <1>0, DivMod
<1>9. PICK a \in Int, b \in Int, r \in Int : d = (W * a) + r /\ e = (W * b) + r
  BY <1>1, <1>8
<1>10. W * a = a * W /\ W * b = b * W /\ a * W \in Int /\ b * W \in Int
  BY <1>0, Product
<1>11. ~(a < b)
  <2> SUFFICES ASSUME a < b PROVE FALSE
    OBVIOUS
  <2>1. (a * W) + W <= b * W
    BY <1>0, ProductGrows
  <2> QED BY <2>1, <1>0, <1>7, <1>9, <1>10
<1>12. ~(b < a)
  <2> SUFFICES ASSUME b < a PROVE FALSE
    OBVIOUS
  <2>1. (b * W) + W <= a * W
    BY <1>0, ProductGrows
  <2> QED BY <2>1, <1>0, <1>7, <1>9, <1>10
<1>13. a = b
  BY <1>11, <1>12
<1> QED BY <1>9, <1>13

\* The cells show as many commits as the days have.
LEMMA CellsShow ==
  ASSUME from \in Int, DOMAIN answer = from..(from + Span), \A d \in DOMAIN answer : answer[d] \in Nat
  PROVE  St!Sum(St!Cells) = St!Sum(answer)
<1> DEFINE D == from..(from + Span)
           C == {St!CellOf(d) : d \in GridDays}
           to == [d \in D |-> St!CellOf(d)]
           g == St!Cells
<1>0. D \in SUBSET GridDays /\ IsFiniteSet(D)
  BY GridHolds, FS_Interval
<1>1. DOMAIN g = C
  BY DEF St!Cells, GridDays
<1>2. ASSUME NEW d \in GridDays PROVE g[St!CellOf(d)] = IF d \in D THEN answer[d] ELSE 0
  <2> DEFINE end == CHOOSE l \in GridDays : St!CellOf(l) = St!CellOf(d) /\ \A e \in GridDays : St!CellOf(e) = St!CellOf(d) => e <= l
  <2>1. St!CellOf(d) \in C
    OBVIOUS
  <2>2. g[St!CellOf(d)] = IF end \in DOMAIN answer THEN answer[end] ELSE 0
    BY <2>1 DEF St!Cells, GridDays
  <2>3. end = d
    <3>1. \A e \in GridDays : St!CellOf(e) = St!CellOf(d) => e = d
      BY CellsApart
    <3>2. d <= d
      BY DEF GridDays
    <3> HIDE DEF GridDays
    <3> QED BY <3>1, <3>2
  <2> HIDE DEF end
  <2> QED BY <2>2, <2>3
<1> HIDE DEF g, GridDays
<1>3. to \in [D -> C]
  BY <1>0
<1>4. \A x, y \in D : to[x] = to[y] => x = y
  BY <1>0, CellsApart
<1>5. \A x \in D : g[to[x]] = answer[x]
  BY <1>0, <1>2
<1>6. \A c \in C : (\A x \in D : to[x] # c) => g[c] = 0
  <2> SUFFICES ASSUME NEW d \in GridDays, \A x \in D : to[x] # St!CellOf(d) PROVE g[St!CellOf(d)] = 0
    OBVIOUS
  <2>1. d \notin D
    OBVIOUS
  <2> QED BY <2>1, <1>2
<1> HIDE DEF to, C, D
<1>7. \A x \in D : answer[x] \in Nat
  BY DEF D
<1>8. Moved(answer, D, g, C, to)
  BY <1>3, <1>4, <1>5, <1>6, <1>7 DEF Moved
<1>9. St!Total(g, C) = St!Total(answer, D)
  BY <1>0, <1>8, TotalMoves
<1> QED BY <1>1, <1>9 DEF St!Sum, g, D

Kinds == {"week", "month", "day"}

StatsTypeOK ==
  /\ today \in FirstDay..LastDay
  /\ commits \in [St!Days -> Nat]
  /\ request \in Kinds /\ phase \in {"idle", "asked", "grouped", "answered"}
  /\ from \in Int
  /\ turned \in BOOLEAN

\* No commit is of a day to come.
NoneAhead == \A d \in St!Days : d > today => commits[d] = 0

\* A request whose week and month have not changed.
Settled == phase # "idle" /\ ~turned

\* The range starts as many weeks or months before that of today as asked for.
RangeOK ==
  Settled =>
    /\ request = "week" => from = St!StartOfWeek(today) - (Weeks * WeekDays)
    /\ request = "month" => from = MonthStart[(St!MonthOf(today) - Months) + 1]

\* What the database has counted is in buckets that are laid out.
GroupedOK ==
  Settled /\ phase # "asked" => \A k \in DOMAIN grouped : k \in St!Buckets(request) /\ grouped[k] \in Nat

Filled == [d \in St!Buckets(request) |-> IF d \in DOMAIN grouped THEN grouped[d] ELSE 0]

AnswerOK == Settled /\ phase = "answered" => answer = Filled

StatsInv == StatsTypeOK /\ NoneAhead /\ RangeOK /\ GroupedOK /\ AnswerOK

\* As many buckets as the page says, and one for the day of every commit since the first.
RangeLaid ==
  /\ IsFiniteSet(St!Buckets(request)) /\ Cardinality(St!Buckets(request)) = Laid(request)
  /\ \A d \in Int : from <= d /\ (request = "day" => d <= from + Span) /\ (request # "day" => d <= today) =>
       St!Key(request, d) \in St!Buckets(request)

\* So it is while neither the week nor the month has changed.
LEMMA Ranges == StatsTypeOK /\ RangeOK /\ Settled => RangeLaid
<1> SUFFICES ASSUME StatsTypeOK, RangeOK, Settled PROVE RangeLaid
  OBVIOUS
<1>0. today \in FirstDay..LastDay /\ today \in Int /\ from \in Int /\ request \in Kinds
  BY StatsAssumption DEF StatsTypeOK
<1>1. CASE request = "week"
  <2>1. from = St!StartOfWeek(today) - (Weeks * WeekDays)
    BY <1>1 DEF RangeOK
  <2>2. /\ IsFiniteSet(St!Buckets("week")) /\ Cardinality(St!Buckets("week")) = Weeks + 1
        /\ \A d \in Int : from <= d /\ d <= today => St!Key("week", d) \in St!Buckets("week")
    BY <1>0, <2>1, WeeksLaid
  <2> QED BY <1>1, <2>2 DEF RangeLaid, Laid
<1>2. CASE request = "month"
  <2>1. from = MonthStart[(St!MonthOf(today) - Months) + 1]
    BY <1>2 DEF RangeOK
  <2>2. /\ IsFiniteSet(St!Buckets("month")) /\ Cardinality(St!Buckets("month")) = Months
        /\ \A d \in Int : from <= d /\ d <= today => St!Key("month", d) \in St!Buckets("month")
    BY <1>0, <2>1, MonthsLaid
  <2> QED BY <1>2, <2>2 DEF RangeLaid, Laid
<1>3. CASE request = "day"
  <2>1. /\ St!Buckets("day") = from..(from + Span)
        /\ IsFiniteSet(St!Buckets("day")) /\ Cardinality(St!Buckets("day")) = Span + 1
    BY <1>0, DaysLaid
  <2>2. Span \in Nat
    BY StatsAssumption
  <2>3. \A d \in Int : from <= d /\ d <= from + Span => St!Key("day", d) \in St!Buckets("day")
    BY <1>0, <2>1, <2>2 DEF St!Key
  <2> QED BY <1>3, <2>1, <2>3 DEF RangeLaid, Laid
<1> QED BY <1>0, <1>1, <1>2, <1>3 DEF Kinds

\* The invariant holds at the start.
LEMMA StatsStart == St!Init => StatsInv
<1> SUFFICES ASSUME St!Init PROVE StatsInv
  OBVIOUS
<1>1. FirstDay \in Nat /\ LastDay \in Nat /\ FirstDay <= LastDay
  BY StatsAssumption
<1>2. today = FirstDay /\ request = "week" /\ phase = "idle" /\ from = 0 /\ turned = FALSE
  BY DEF St!Init
<1>3. commits \in [St!Days -> Nat] /\ NoneAhead
  <2>1. PICK n \in {1, 2} : commits = [d \in St!Days |-> IF d <= today /\ d % n = 0 THEN 1 ELSE 0]
    BY DEF St!Init
  <2>2. \A d \in St!Days : d \in Int /\ (d > today => ~(d <= today))
    BY <1>1, <1>2 DEF St!Days
  <2> QED BY <2>1, <2>2 DEF NoneAhead
<1>4. StatsTypeOK
  <2>1. today \in FirstDay..LastDay
    BY <1>1, <1>2
  <2>2. from \in Int /\ request \in Kinds /\ phase \in {"idle", "asked", "grouped", "answered"}
    BY <1>2 DEF Kinds
  <2>3. turned \in BOOLEAN
    BY <1>2, Zenon
  <2> QED BY <1>3, <2>1, <2>2, <2>3, Zenon DEF StatsTypeOK
<1>5. ~Settled
  BY <1>2 DEF Settled
<1> QED BY <1>3, <1>4, <1>5, Zenon DEF StatsInv, RangeOK, GroupedOK, AnswerOK

\* A request fixes the first day.
LEMMA Asked ==
  ASSUME StatsInv, NEW k \in Kinds, St!Ask(k)
  PROVE  StatsInv'
<1>0. /\ today' = today /\ commits' = commits /\ turned' = turned /\ phase' = "asked" /\ request' = k
      /\ from' = IF k = "week" THEN St!WeeksAgo ELSE IF k = "month" THEN St!MonthsAgo ELSE today - Span
  BY DEF St!Ask
<1>1. today \in FirstDay..LastDay /\ today \in Int /\ Span \in Nat /\ Weeks \in Nat
  BY StatsAssumption DEF StatsInv, StatsTypeOK
<1>2. /\ St!WeeksAgo = St!StartOfWeek(today) - (Weeks * WeekDays) /\ St!WeeksAgo \in Int
  <2>1. /\ Weeks * WeekDays \in Int
        /\ St!StartOfWeek(today - (Weeks * WeekDays)) = St!StartOfWeek(today) - (Weeks * WeekDays)
    BY <1>1, WeeksBefore
  <2>2. St!StartOfWeek(today) \in Int
    BY <1>1, WeekStart
  <2> QED BY <2>1, <2>2 DEF St!WeeksAgo
<1>3. /\ St!MonthsAgo = MonthStart[(St!MonthOf(today) - Months) + 1] /\ St!MonthsAgo \in Int
  <2> DEFINE M == St!MonthOf(today)
  <2>1. /\ M \in Months..(Len(MonthStart) - 1) /\ Months \in 1..Len(MonthStart)
    BY <1>1, MonthToday
  <2> HIDE DEF M
  <2>2. /\ M \in 1..Len(MonthStart) /\ M + 1 \in 1..Len(MonthStart) /\ M \in 1..(Len(MonthStart) - 1)
        /\ (M - Months) + 1 \in 1..Len(MonthStart) /\ (M - Months) + 1 = M - Months + 1 /\ M < M + 1
    BY <2>1, MonthsRise
  <2>3. /\ MonthStart[M] \in Nat /\ MonthStart[(M - Months) + 1] \in Nat /\ MonthStart[M] < MonthStart[M + 1]
        /\ MonthStart[M] <= MonthStart[M]
    BY <2>2, MonthsRise
  <2>4. St!MonthOf(MonthStart[M]) = M
    <3>1. MonthStart[M] \in Int
      BY <2>3
    <3> QED BY <3>1, <2>2, <2>3, MonthIs
  <2>5. St!MonthsAgo = MonthStart[(M - Months) + 1] + (MonthStart[M] - MonthStart[St!MonthOf(MonthStart[M])])
    BY <2>2 DEF St!MonthsAgo, St!SetMonth, St!StartOfMonth, M
  <2> QED BY <2>3, <2>4, <2>5 DEF M
<1>4. from' \in Int
  BY <1>0, <1>1, <1>2, <1>3
<1>5. StatsTypeOK'
  BY <1>0, <1>4 DEF StatsInv, StatsTypeOK, St!Days
<1>6. NoneAhead'
  BY <1>0 DEF StatsInv, NoneAhead, St!Days
<1>7. RangeOK'
  <2>1. St!StartOfWeek(today)' = St!StartOfWeek(today) /\ St!MonthOf(today)' = St!MonthOf(today)
    BY <1>0 DEF St!StartOfWeek, St!GetDay, St!MonthOf
  <2> QED BY <1>0, <1>2, <1>3, <2>1 DEF RangeOK
<1> QED BY <1>0, <1>5, <1>6, <1>7 DEF StatsInv, GroupedOK, AnswerOK

\* What is laid out and which days count does not change with the commits.
LEMMA SameRange ==
  ASSUME today' = today, from' = from, request' = request
  PROVE  /\ St!Buckets(request)' = St!Buckets(request)
         /\ St!StartOfWeek(today)' = St!StartOfWeek(today) /\ St!MonthOf(today)' = St!MonthOf(today)
<1>1. St!StartOfWeek(today)' = St!StartOfWeek(today) /\ St!MonthOf(today)' = St!MonthOf(today)
  BY DEF St!StartOfWeek, St!GetDay, St!MonthOf
<1>2. St!Buckets(request)' = St!Buckets(request)
  BY DEF St!Buckets, St!Key, St!StartOfWeek, St!GetDay, St!MonthOf, St!StartOfMonth, St!Cardinality
<1> QED BY <1>1, <1>2

\* The database counts.
LEMMA Grouped ==
  ASSUME StatsInv, St!Group
  PROVE  StatsInv'
<1>0. /\ phase = "asked" /\ phase' = "grouped" /\ today' = today /\ commits' = commits /\ request' = request
      /\ from' = from /\ turned' = turned
  BY DEF St!Group
<1>1. StatsTypeOK' /\ NoneAhead'
  BY <1>0 DEF StatsInv, StatsTypeOK, NoneAhead, St!Days
<1>2. /\ St!Buckets(request)' = St!Buckets(request)
      /\ St!StartOfWeek(today)' = St!StartOfWeek(today) /\ St!MonthOf(today)' = St!MonthOf(today)
  BY <1>0, SameRange
<1>3. RangeOK'
  BY <1>0, <1>2 DEF StatsInv, RangeOK, Settled
<1>4. ASSUME Settled PROVE \A k \in DOMAIN grouped' : k \in St!Buckets(request) /\ grouped'[k] \in Nat
  <2> DEFINE days == {d \in St!Days : d >= from /\ commits[d] > 0 /\ (request = "day" => d <= from + Span)}
             of(k) == {d \in days : St!Key(request, d) = k}
  <2>1. grouped' = [k \in {St!Key(request, d) : d \in days} |-> St!Total(commits, of(k))]
    BY DEF St!Group
  <2>2. RangeLaid
    BY <1>4, Ranges DEF StatsInv
  <2>3. \A d \in days : St!Key(request, d) \in St!Buckets(request)
    <3> SUFFICES ASSUME NEW d \in days PROVE St!Key(request, d) \in St!Buckets(request)
      OBVIOUS
    <3>1. d \in St!Days /\ d \in Int /\ from \in Int /\ from <= d /\ today \in Int
      BY StatsAssumption DEF StatsInv, StatsTypeOK, St!Days
    <3>2. d <= today
      BY <3>1 DEF StatsInv, NoneAhead
    <3> HIDE DEF days
    <3>3. request = "day" => d <= from + Span
      BY DEF days
    <3> QED BY <2>2, <3>1, <3>2, <3>3, Zenon DEF RangeLaid
  <2>4. \A k : of(k) \in SUBSET St!Days
    OBVIOUS
  <2>5. IsFiniteSet(St!Days) /\ \A d \in St!Days : commits[d] \in Nat
    <3>1. LastDay \in Int /\ 0 \in Int
      BY StatsAssumption
    <3>2. IsFiniteSet(0..LastDay)
      BY <3>1, FS_Interval
    <3> QED BY <3>2 DEF St!Days, StatsInv, StatsTypeOK
  <2> HIDE DEF of, days
  <2>6. \A k : St!Total(commits, of(k)) \in Nat
    <3> SUFFICES ASSUME NEW k PROVE St!Total(commits, of(k)) \in Nat
      OBVIOUS
    <3>1. IsFiniteSet(of(k)) /\ \A d \in of(k) : commits[d] \in Nat
      BY <2>4, <2>5, FS_Subset
    <3> QED BY <3>1, UnitsFinite
  <2> QED BY <2>1, <2>3, <2>6
<1>5. Settled' => Settled
  BY <1>0 DEF Settled
<1>6. GroupedOK'
  <2>1. Settled' => \A k \in DOMAIN grouped' : k \in St!Buckets(request)' /\ grouped'[k] \in Nat
    BY <1>2, <1>4, <1>5
  <2> QED BY <2>1 DEF GroupedOK
<1> QED BY <1>0, <1>1, <1>3, <1>6 DEF StatsInv, AnswerOK

\* The buckets are filled.
LEMMA Answered ==
  ASSUME StatsInv, St!Answer
  PROVE  StatsInv'
<1>0. /\ phase = "grouped" /\ phase' = "answered" /\ today' = today /\ commits' = commits /\ request' = request
      /\ from' = from /\ turned' = turned /\ grouped' = grouped /\ answer' = Filled
  BY DEF St!Answer, Filled
<1>1. StatsTypeOK' /\ NoneAhead'
  BY <1>0 DEF StatsInv, StatsTypeOK, NoneAhead, St!Days
<1>2. /\ St!Buckets(request)' = St!Buckets(request)
      /\ St!StartOfWeek(today)' = St!StartOfWeek(today) /\ St!MonthOf(today)' = St!MonthOf(today)
  BY <1>0, SameRange
<1>3. RangeOK'
  BY <1>0, <1>2 DEF StatsInv, RangeOK, Settled
<1>4. GroupedOK'
  BY <1>0, <1>2 DEF StatsInv, GroupedOK, Settled
<1>5. Filled' = Filled
  BY <1>0, <1>2 DEF Filled
<1> QED BY <1>0, <1>1, <1>3, <1>4, <1>5 DEF StatsInv, AnswerOK

\* A request is done.
LEMMA DoneAsking ==
  ASSUME StatsInv, St!Done
  PROVE  StatsInv'
<1>0. /\ phase' = "idle" /\ today' = today /\ commits' = commits /\ request' = request
      /\ from' = from /\ turned' = FALSE
  BY DEF St!Done
<1>1. StatsTypeOK' /\ NoneAhead'
  BY <1>0 DEF StatsInv, StatsTypeOK, NoneAhead, St!Days
<1>2. ~Settled'
  BY <1>0 DEF Settled
<1> QED BY <1>1, <1>2, Zenon DEF StatsInv, RangeOK, GroupedOK, AnswerOK

\* A commit is indexed.
LEMMA Committed ==
  ASSUME StatsInv, St!Commit
  PROVE  StatsInv'
<1>0. /\ commits' = [commits EXCEPT ![today] = @ + 1] /\ phase' = phase /\ today' = today /\ request' = request
      /\ from' = from /\ turned' = turned /\ grouped' = grouped /\ answer' = answer
  BY DEF St!Commit
<1>1. StatsTypeOK' /\ NoneAhead'
  <2>1. commits \in [St!Days -> Nat] /\ today \in Int /\ today \in St!Days
    BY StatsAssumption DEF StatsInv, StatsTypeOK, St!Days
  <2>2. commits' \in [St!Days -> Nat] /\ \A d \in St!Days : d # today => commits'[d] = commits[d]
    BY <1>0, <2>1
  <2>3. \A d \in St!Days : d > today => d # today
    BY <2>1 DEF St!Days
  <2>4. St!Days' = St!Days
    BY DEF St!Days
  <2>5. NoneAhead'
    BY <1>0, <2>2, <2>3, <2>4 DEF StatsInv, NoneAhead
  <2>6. StatsTypeOK'
    BY <1>0, <2>2, <2>4 DEF StatsInv, StatsTypeOK
  <2> QED BY <2>5, <2>6
<1>2. /\ St!Buckets(request)' = St!Buckets(request)
      /\ St!StartOfWeek(today)' = St!StartOfWeek(today) /\ St!MonthOf(today)' = St!MonthOf(today)
  BY <1>0, SameRange
<1>3. RangeOK'
  BY <1>0, <1>2 DEF StatsInv, RangeOK, Settled
<1>4. GroupedOK'
  BY <1>0, <1>2 DEF StatsInv, GroupedOK, Settled
<1>5. Filled' = Filled /\ (Settled' <=> Settled)
  BY <1>0, <1>2 DEF Filled, Settled
<1> QED BY <1>0, <1>1, <1>3, <1>4, <1>5 DEF StatsInv, AnswerOK

\* Midnight: the range stays where it is, or the week or month has changed.
LEMMA DayEnds ==
  ASSUME StatsInv, St!NextDay
  PROVE  StatsInv'
<1>0. /\ today < LastDay /\ today' = today + 1 /\ commits' = commits /\ phase' = phase /\ request' = request
      /\ from' = from /\ grouped' = grouped /\ answer' = answer
      /\ turned' = (turned \/ (phase # "idle" /\ request # "day" /\ St!Key(request, today') # St!Key(request, today)))
  BY DEF St!NextDay
<1>1. /\ today \in FirstDay..LastDay /\ today \in Int /\ today' \in FirstDay..LastDay /\ today' \in Int
      /\ commits \in [St!Days -> Nat] /\ St!Days' = St!Days /\ request \in Kinds
  BY <1>0, StatsAssumption DEF StatsInv, StatsTypeOK, St!Days
<1>2. StatsTypeOK'
  <2>1. turned \in BOOLEAN /\ turned' \in BOOLEAN
    BY <1>0 DEF StatsInv, StatsTypeOK
  <2> QED BY <1>0, <1>1, <2>1 DEF StatsInv, StatsTypeOK
<1>3. NoneAhead'
  <2>1. \A d \in St!Days : d > today' => d > today
    BY <1>0, <1>1 DEF St!Days
  <2> QED BY <1>0, <1>1, <2>1 DEF StatsInv, NoneAhead
<1>4. ASSUME Settled'
      PROVE  /\ Settled /\ St!Buckets(request)' = St!Buckets(request)
             /\ request = "week" => St!StartOfWeek(today)' = St!StartOfWeek(today)
             /\ request = "month" => St!MonthOf(today)' = St!MonthOf(today)
  <2>1. Settled /\ (request = "day" \/ St!Key(request, today') = St!Key(request, today))
    BY <1>0, <1>4 DEF Settled
  <2>2. St!Key(request, today)' = St!Key(request, today')
    BY <1>0 DEF St!Key, St!StartOfWeek, St!GetDay, St!StartOfMonth, St!MonthOf
  <2>3. \A d : St!Key(request, d)' = St!Key(request, d)
    BY <1>0 DEF St!Key, St!StartOfWeek, St!GetDay, St!StartOfMonth, St!MonthOf
  <2>4. St!Buckets(request)' = St!Buckets(request)
    <3>1. \A k : Most(k)' = Most(k) /\ Last(request)' = Last(request)
      BY <1>0, <2>1, <2>2 DEF Most, Last
    <3>2. St!Buckets(request)' = Taken(Starts(request', from', Last(request)'), Most(request)')
      BY StatsCardinality DEF St!Buckets, Taken, Starts, Last, Most, St!Key, St!StartOfWeek, St!GetDay,
         St!StartOfMonth, St!MonthOf, St!Cardinality, Cardinality
    <3>3. St!Buckets(request) = Taken(Starts(request, from, Last(request)), Most(request))
      BY StatsCardinality DEF St!Buckets, Taken, Starts, Last, Most
    <3> QED BY <1>0, <3>1, <3>2, <3>3
  <2>5. request = "week" => St!StartOfWeek(today)' = St!StartOfWeek(today)
    BY <2>1, <2>2 DEF St!Key
  <2>6. ASSUME request = "month" PROVE St!MonthOf(today)' = St!MonthOf(today)
    <3> DEFINE M == St!MonthOf(today)
               N == St!MonthOf(today')
    <3>1. M \in Months..(Len(MonthStart) - 1) /\ Months \in 1..Len(MonthStart)
      BY <1>1, MonthToday
    <3>2. N \in 1..(Len(MonthStart) - 1)
      <4>1. MonthStart[1] <= today /\ today < MonthStart[Len(MonthStart)]
        BY <1>1, MonthToday
      <4>2. MonthStart[1] <= today' /\ today' < MonthStart[Len(MonthStart)]
        <5>1. LastDay < MonthStart[Len(MonthStart)] /\ LastDay \in Nat
          BY StatsAssumption
        <5>2. MonthStart[1] \in Nat /\ MonthStart[Len(MonthStart)] \in Nat
          BY MonthsRise
        <5> QED BY <1>0, <1>1, <4>1, <5>1, <5>2
      <4> QED BY <1>1, <4>2, MonthHas
    <3>3. MonthStart[M] = MonthStart[N]
      BY <2>1, <2>6 DEF St!Key, St!StartOfMonth
    <3> HIDE DEF M, N
    <3>4. M \in 1..Len(MonthStart) /\ N \in 1..Len(MonthStart)
      BY <3>1, <3>2, MonthsRise
    <3>5. MonthStart[M] \in Nat /\ MonthStart[N] \in Nat /\ (M < N => MonthStart[M] < MonthStart[N]) /\ (N < M => MonthStart[N] < MonthStart[M])
      BY <3>4, MonthsRise
    <3>6. M = N
      BY <3>3, <3>4, <3>5
    <3>7. St!MonthOf(today)' = N
      BY DEF St!MonthOf, N
    <3> QED BY <3>6, <3>7 DEF M
  <2> QED BY <2>1, <2>4, <2>5, <2>6
<1>5. RangeOK'
  BY <1>0, <1>4 DEF StatsInv, RangeOK
<1>6. GroupedOK'
  BY <1>0, <1>4 DEF StatsInv, GroupedOK
<1>7. AnswerOK'
  BY <1>0, <1>4 DEF StatsInv, AnswerOK, Filled
<1> QED BY <1>2, <1>3, <1>5, <1>6, <1>7 DEF StatsInv

\* Every step keeps the invariant.
LEMMA StatsStep == StatsInv /\ [St!Next]_(St!vars) => StatsInv'
<1> SUFFICES ASSUME StatsInv, [St!Next]_(St!vars) PROVE StatsInv'
  OBVIOUS
<1>1. ASSUME NEW k \in {"week", "month", "day"}, St!Ask(k) PROVE StatsInv'
  BY <1>1, Asked DEF Kinds
<1>2. CASE St!Group
  BY <1>2, Grouped
<1>3. CASE St!Answer
  BY <1>3, Answered
<1>4. CASE St!Done
  BY <1>4, DoneAsking
<1>5. CASE St!Commit
  BY <1>5, Committed
<1>6. CASE St!NextDay
  BY <1>6, DayEnds
<1>7. CASE UNCHANGED St!vars
  <2>0. /\ commits' = commits /\ phase' = phase /\ today' = today /\ request' = request
        /\ from' = from /\ turned' = turned /\ grouped' = grouped /\ answer' = answer
    BY <1>7 DEF St!vars
  <2>1. StatsTypeOK' /\ NoneAhead'
    BY <2>0 DEF StatsInv, StatsTypeOK, NoneAhead, St!Days
  <2>2. /\ St!Buckets(request)' = St!Buckets(request)
        /\ St!StartOfWeek(today)' = St!StartOfWeek(today) /\ St!MonthOf(today)' = St!MonthOf(today)
    BY <2>0, SameRange
  <2>3. RangeOK' /\ GroupedOK'
    BY <2>0, <2>2 DEF StatsInv, RangeOK, GroupedOK, Settled
  <2>4. AnswerOK'
    BY <2>0, <2>2 DEF StatsInv, AnswerOK, Settled, Filled
  <2> QED BY <2>1, <2>3, <2>4 DEF StatsInv
<1> QED BY <1>1, <1>2, <1>3, <1>4, <1>5, <1>6, <1>7 DEF St!Next

\* What the invariant says of an answer.
LEMMA TotalsKept == StatsInv => St!TotalsWhole
<1> SUFFICES ASSUME StatsInv, phase = "answered", ~turned
             PROVE  /\ St!Sum(answer) = St!Sum(grouped)
                    /\ Cardinality(DOMAIN answer) = Laid(request)
                    /\ request = "day" => St!Sum(St!Cells) = St!Sum(answer)
  BY StatsCardinality DEF St!TotalsWhole, Laid
<1>1. /\ Settled /\ answer = Filled
      /\ \A k \in DOMAIN grouped : k \in St!Buckets(request) /\ grouped[k] \in Nat
  BY DEF StatsInv, Settled, AnswerOK, GroupedOK
<1>2. RangeLaid
  BY <1>1, Ranges DEF StatsInv
<1>3. /\ DOMAIN answer = St!Buckets(request)
      /\ \A k \in St!Buckets(request) : answer[k] = IF k \in DOMAIN grouped THEN grouped[k] ELSE 0
  BY <1>1 DEF Filled
<1>4. \A k \in St!Buckets(request) : answer[k] \in Nat
  BY <1>1, <1>3
<1>5. St!Sum(answer) = St!Sum(grouped)
  <2> DEFINE B == St!Buckets(request)
  <2>1. \A p : p \in Units(answer, B) <=> \E x \in B : \E i \in 1..answer[x] : p = <<x, i>>
    BY UnitsOf
  <2>2. \A p : p \in Units(grouped, DOMAIN grouped) <=> \E x \in DOMAIN grouped : \E i \in 1..grouped[x] : p = <<x, i>>
    BY UnitsOf
  <2> HIDE DEF B
  <2>3. \A x \in B : \A i \in 1..answer[x] : x \in DOMAIN grouped /\ i \in 1..grouped[x]
    BY <1>3 DEF B
  <2>4. \A x \in DOMAIN grouped : x \in B /\ answer[x] = grouped[x]
    BY <1>1, <1>3 DEF B
  <2>5. Units(answer, B) = Units(grouped, DOMAIN grouped)
    BY <2>1, <2>2, <2>3, <2>4
  <2> QED BY <1>3, <2>5, UnitsOf DEF St!Sum, B
<1>6. Cardinality(DOMAIN answer) = Laid(request)
  BY <1>2, <1>3 DEF RangeLaid
<1>7. ASSUME request = "day" PROVE St!Sum(St!Cells) = St!Sum(answer)
  <2>1. from \in Int
    BY DEF StatsInv, StatsTypeOK
  <2>2. DOMAIN answer = from..(from + Span)
    BY <1>3, <1>7, <2>1, DaysLaid
  <2>3. \A d \in DOMAIN answer : answer[d] \in Nat
    BY <1>3, <1>4
  <2> QED BY <2>1, <2>2, <2>3, CellsShow
<1> QED BY <1>5, <1>6, <1>7

\* The invariant of the counts.
LEMMA StatsInductive == St!Spec => []StatsInv
<1>1. St!Init => StatsInv
  BY StatsStart
<1>2. StatsInv /\ [St!Next]_(St!vars) => StatsInv'
  BY StatsStep
<1> QED BY <1>1, <1>2, PTL DEF St!Spec

\* Every commit the database has counted since the first day is in a bucket that is shown,
\* there are as many buckets as the page says, and the cells of the heatmap show as many
\* commits as the days have: for weeks and months of any length.
THEOREM TotalsStayWhole == St!Spec => []St!TotalsWhole
BY StatsInductive, TotalsKept, PTL

=============================================================================
