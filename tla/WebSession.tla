------------------------------ MODULE WebSession ------------------------------
(***************************************************************************)
(* The session of one browser: the pair of tokens in localStorage and the  *)
(* copy in the cookies, the tabs that refresh it (AuthProvider,            *)
(* refreshAuthSession, apiFetch) and the middleware of the web server,     *)
(* which refreshes it too when a page is asked for.                        *)
(*                                                                         *)
(* A refresh token works once: POST /auth/refresh deletes it and answers   *)
(* with a new pair, and a refused refresh makes the browser throw away     *)
(* whatever pair it has.  Pairs are numbered in the order they are issued. *)
(***************************************************************************)
EXTENDS Naturals, FiniteSets

CONSTANTS
  Tabs,
  MaxPairs,  \* bound: pairs issued
  MaxFaults  \* bound: lost calls

None == 0

VARIABLES
  live,     \* pairs whose refresh token the API still has
  last,     \* pairs issued
  expired,  \* pairs whose access token is (within a minute of being) expired
  storage,  \* the pair in localStorage
  cookie,   \* the pair in the cookies; an expired access token has no cookie any more
  tab,      \* tab[t]: what the tab does, and whether it shows a user
  flight,   \* flight[t]: the refresh the tab has under way
  visit,    \* visit[t]: the page the tab has asked the web server for
  faults,
  signedIn, \* history: the last of login and logout was a login
  raced,    \* history: two uses of the session overlapped, or an answer was lost
  behind    \* history: the middleware has changed the pair for a link followed inside a
            \* page, and no page, login or logout has brought it to localStorage since

history == <<signedIn, raced, behind>>
vars == <<live, last, expired, storage, cookie, tab, flight, visit, faults, history>>

\* pair: the token sent; answer: "none" before the API has it, then the pair or "refused".
Quiet == [pair |-> None, answer |-> "none", new |-> None]
Home == [pair |-> None, answer |-> "none", new |-> None, soft |-> FALSE]

Init ==
  /\ live = {} /\ last = 0 /\ expired = {}
  /\ storage = None /\ cookie = None
  /\ tab = [t \in Tabs |-> [at |-> "closed", user |-> FALSE]]
  /\ flight = [t \in Tabs |-> Quiet]
  /\ visit = [t \in Tabs |-> Home]
  /\ faults = 0
  /\ signedIn = FALSE /\ raced = FALSE /\ behind = FALSE

At(t, s) == tab[t].at = s
Fresh(p) == p # None /\ p \notin expired
Refreshing(t) == flight[t].pair # None
Visiting(t) == visit[t].pair # None \/ At(t, "load") \/ At(t, "boot")
Busy(t) == Refreshing(t) \/ Visiting(t)

\* Something with the session begins; a race, if anything else is under way.
Begin(others) == raced' = (raced \/ \E t \in others : Busy(t)) /\ UNCHANGED signedIn

Persist(p) == storage' = p /\ cookie' = p
Clear == Persist(None)

-----------------------------------------------------------------------------
(***************************************************************************)
(* The API: AuthService.refresh and the expiry of access tokens.           *)
(***************************************************************************)

Rotate(call) ==
  IF call.pair \in live
  THEN /\ last < MaxPairs
       /\ last' = last + 1
       /\ live' = (live \ {call.pair}) \cup {last'}
  ELSE UNCHANGED <<live, last>>

Answered(call) ==
  IF call.pair \in live THEN [call EXCEPT !.answer = "pair", !.new = last + 1]
  ELSE [call EXCEPT !.answer = "refused"]

\* Access tokens live equally long: they expire in the order they were issued.
Expire ==
  /\ Cardinality(expired) < last
  /\ expired' = 1..(Cardinality(expired) + 1)
  /\ UNCHANGED <<live, last, storage, cookie, tab, flight, visit, faults, history>>

-----------------------------------------------------------------------------
(***************************************************************************)
(* middleware: every page, and every navigation within a page.             *)
(***************************************************************************)

\* A tab is opened or reloaded (its script, and what it awaited, is gone), or a link is
\* followed inside it (soft).
Visit(t, soft) ==
  /\ IF soft THEN At(t, "ready") /\ visit[t] = Home ELSE ~Busy(t)
  /\ tab' = IF soft THEN tab ELSE [tab EXCEPT ![t] = [at |-> "load", user |-> FALSE]]
  /\ visit' = IF cookie # None /\ ~Fresh(cookie)
              THEN [visit EXCEPT ![t] = [Home EXCEPT !.pair = cookie, !.soft = soft]] ELSE visit
  /\ IF visit' = visit /\ soft THEN UNCHANGED history ELSE Begin(Tabs) /\ UNCHANGED behind
  /\ UNCHANGED <<live, last, expired, storage, cookie, flight, faults>>

MiddlewareRefresh(t) ==
  /\ visit[t].pair # None /\ visit[t].answer = "none"
  /\ Rotate(visit[t])
  /\ visit' = [visit EXCEPT ![t] = Answered(@)]
  /\ behind' = (behind \/ visit[t].soft)
  /\ UNCHANGED <<expired, storage, cookie, tab, flight, faults, signedIn, raced>>

\* fetch throws: the page is served with the cookies as they are.
MiddlewareFails(t) ==
  /\ visit[t].pair # None
  /\ faults < MaxFaults /\ faults' = faults + 1
  /\ visit' = [visit EXCEPT ![t] = Home]
  /\ raced' = TRUE
  /\ UNCHANGED <<live, last, expired, storage, cookie, tab, flight, signedIn, behind>>

\* The response: new cookies, or the old ones deleted.
SetCookies(t) ==
  /\ visit[t].answer # "none"
  /\ cookie' = visit[t].new
  /\ visit' = [visit EXCEPT ![t] = Home]
  /\ UNCHANGED <<live, last, expired, storage, tab, flight, faults, history>>

-----------------------------------------------------------------------------
(***************************************************************************)
(* AuthProvider in a tab.                                                  *)
(***************************************************************************)

\* A plausible slip: the cookies are written from the storage before they are read.
StoredFirst == IF storage # None THEN storage ELSE cookie

\* syncTokensFromDocumentCookies, and then ensureAuthCookiesFromStorage.
Synced == IF cookie # None THEN cookie ELSE storage

\* refreshAuthSession: whoever calls while one is under way waits for that one.
RefreshSession(t) ==
  IF Refreshing(t) THEN UNCHANGED flight
  ELSE flight' = [flight EXCEPT ![t] = [Quiet EXCEPT !.pair = storage']]

\* refreshUser, when the page is there: the pair, and the refresh if it is too old;
\* otherwise GET /auth/me.
Boot(t) ==
  /\ At(t, "load") /\ visit[t] = Home
  /\ Persist(Synced)
  /\ IF storage' = None \/ Fresh(storage')
     THEN /\ tab' = [tab EXCEPT ![t] = [at |-> "ready", user |-> storage' # None]]
          /\ UNCHANGED flight
     ELSE /\ tab' = [tab EXCEPT ![t].at = "boot"]
          /\ RefreshSession(t)
  /\ Begin(Tabs \ {t})
  /\ behind' = (behind /\ cookie = None)
  /\ UNCHANGED <<live, last, expired, visit, faults>>

\* The timer, and any call of apiFetch that is answered with 401.
NeedsRefresh(t) ==
  /\ At(t, "ready")
  /\ storage # None /\ ~Fresh(storage)
  /\ UNCHANGED <<live, last, expired, storage, cookie, tab, visit, faults, behind>>
  /\ RefreshSession(t)
  /\ Begin(Tabs \ (IF Refreshing(t) THEN {t} ELSE {}))

RefreshReaches(t) ==
  /\ Refreshing(t) /\ flight[t].answer = "none"
  /\ Rotate(flight[t])
  /\ flight' = [flight EXCEPT ![t] = Answered(@)]
  /\ UNCHANGED <<expired, storage, cookie, tab, visit, faults, history>>

\* performRefresh goes on: the new pair, or none.
RefreshAnswered(t) ==
  /\ Refreshing(t) /\ flight[t].answer # "none"
  /\ Persist(flight[t].new)
  /\ flight' = [flight EXCEPT ![t] = Quiet]
  /\ tab' = [tab EXCEPT ![t] = [at |-> "ready",
               user |-> (flight[t].new # None) \/ (tab[t].user /\ At(t, "ready"))]]
  /\ UNCHANGED <<live, last, expired, visit, faults, history>>

\* fetch throws: nothing is cleared.
RefreshLost(t) ==
  /\ Refreshing(t)
  /\ faults < MaxFaults /\ faults' = faults + 1
  /\ flight' = [flight EXCEPT ![t] = Quiet]
  /\ tab' = [tab EXCEPT ![t].at = "ready"]
  /\ raced' = TRUE
  /\ UNCHANGED <<live, last, expired, storage, cookie, visit, signedIn, behind>>

Login(t) ==
  /\ At(t, "ready") /\ ~tab[t].user
  /\ last < MaxPairs
  /\ last' = last + 1
  /\ live' = live \cup {last'}
  /\ Persist(last')
  /\ tab' = [tab EXCEPT ![t].user = TRUE]
  /\ signedIn' = TRUE /\ behind' = FALSE
  /\ raced' = (raced \/ \E u \in Tabs : Busy(u))
  /\ UNCHANGED <<expired, flight, visit, faults>>

\* logout: errors are ignored.
Logout(t) ==
  /\ At(t, "ready") /\ tab[t].user
  /\ live' = live \ {storage}
  /\ Clear
  /\ tab' = [tab EXCEPT ![t].user = FALSE]
  /\ signedIn' = FALSE /\ behind' = FALSE
  /\ raced' = (raced \/ \E u \in Tabs : Busy(u))
  /\ UNCHANGED <<last, expired, flight, visit, faults>>

CloseTab(t) ==
  /\ ~At(t, "closed")
  /\ tab' = [tab EXCEPT ![t] = [at |-> "closed", user |-> FALSE]]
  /\ flight' = [flight EXCEPT ![t] = Quiet]
  /\ visit' = [visit EXCEPT ![t] = Home]
  /\ raced' = (raced \/ Busy(t))
  /\ UNCHANGED <<live, last, expired, storage, cookie, faults, signedIn, behind>>

Next ==
  \/ Expire
  \/ \E t \in Tabs :
       \/ \E soft \in BOOLEAN : Visit(t, soft)
       \/ MiddlewareRefresh(t) \/ MiddlewareFails(t) \/ SetCookies(t)
       \/ Boot(t) \/ NeedsRefresh(t)
       \/ RefreshReaches(t) \/ RefreshAnswered(t) \/ RefreshLost(t)
       \/ Login(t) \/ Logout(t) \/ CloseTab(t)

Spec == Init /\ [][Next]_vars

-----------------------------------------------------------------------------

\* As long as no two tabs or pages use the session at the same moment and no answer is
\* lost, nobody stays signed in after a logout, and who is signed in is kept so: at rest
\* the browser holds the pair the API would refresh, in both places.  The exception needs
\* one tab only: once the middleware has refreshed for a link followed inside a page, the
\* new pair is in the cookies alone (a page that loads then takes it from there), and a
\* refresh of the tab itself, which sends the old one, is refused and clears everything.
SessionKept ==
  ~raced /\ (\A t \in Tabs : ~Busy(t)) =>
    IF signedIn
    THEN \/ cookie \in live /\ (storage = cookie \/ behind)
         \/ behind /\ storage = None /\ cookie = None
    ELSE storage = None /\ cookie = None

=============================================================================
