------------------------------ MODULE Sessions ------------------------------
(***************************************************************************)
(* Refresh tokens of one user: sign in, rotation, reuse detection, sign    *)
(* out, revocation and password change, asked for by the tabs of several   *)
(* browsers.  The tabs of a browser share one cookie; a tab holds its      *)
(* access token in memory and collapses its refreshes into one.  A request *)
(* reads its token's row in one transaction and acts on it in another.     *)
(* A family is named by the token its sign in issued.                      *)
(***************************************************************************)
EXTENDS Naturals, FiniteSets

CONSTANTS
    Tokens,         \* refresh tokens that may ever be issued (bound)
    Tabs,           \* open tabs
    Browsers,       \* cookie jars
    JarOf,          \* the browser of each tab
    Requests,       \* requests in flight at once (bound)
    NoToken,        \* an empty cookie jar
    NoTab,          \* the tab of a free request slot
    MaxLost         \* answers that may be lost (bound)

ASSUME SessionsAssumption ==
    /\ JarOf \in [Tabs -> Browsers]
    /\ IsFiniteSet(Tokens)
    /\ NoToken \notin Tokens
    /\ NoTab \notin Tabs
    /\ MaxLost \in Nat

VARIABLES
    token,      \* refresh_tokens
    jar,        \* the refresh cookie of each browser
    tab,        \* what each tab has in memory
    request,    \* requests under way
    ended,      \* history: families a sign out, a revocation or a reuse ended
    raced,      \* history: families that ended under a refresh already let in
    forked,     \* history: families of which one token was let in twice
    accused,    \* history: families ended by reuse detection and nothing else
    crossed,    \* history: families whose token two tabs sent at once, or a
                \* new one of which was lost on its way back
    lost        \* answers lost so far

sessionsHistory == <<ended, raced, forked, accused, crossed>>
sessionsVars == <<token, jar, tab, request, sessionsHistory, lost>>

\* revoked_at, rotated_to and expires_at of a row: rotated implies revoked, and
\* the expiry of a revoked token no longer matters.  family is NoToken until
\* the token is issued.
Token == [family : Tokens \union {NoToken},
          state : {"unissued", "live", "expired", "revoked", "rotated"}]

\* loading: the page has no access token yet; stale: it has expired.
TabState == {"loading", "in", "stale", "out"}

SessionRequest ==
    [pc : {"free", "sent", "live", "dead", "answered"},
     kind : {"none", "login", "refresh", "logout"},
     tab : Tabs \union {NoTab},
     tok : Tokens \union {NoToken},       \* the cookie it carries
     new : Tokens \union {NoToken}]       \* the cookie its answer sets, if any

FreeRequest == [pc |-> "free", kind |-> "none", tab |-> NoTab,
                tok |-> NoToken, new |-> NoToken]
Unissued == [family |-> NoToken, state |-> "unissued"]
Fresh(f) == [family |-> f, state |-> "live"]

Issued == {t \in Tokens : token[t].family # NoToken}
Family(f) == {t \in Issued : token[t].family = f}
FamilyOf(t) == IF t = NoToken THEN {} ELSE {token[t].family}

\* revoked_at IS NULL.
LiveTokens == {t \in Issued : token[t].state \in {"live", "expired"}}

SessionsTypeOK ==
    /\ token \in [Tokens -> Token]
    /\ jar \in [Browsers -> Tokens \union {NoToken}]
    /\ tab \in [Tabs -> TabState]
    /\ request \in [Requests -> SessionRequest]
    /\ \A h \in {ended, raced, forked, accused, crossed} : h \subseteq Tokens
    /\ lost \in 0..MaxLost
    \* Whatever a browser or a request holds was issued.
    /\ \A b \in Browsers : jar[b] # NoToken => jar[b] \in Issued
    /\ \A r \in Requests : {request[r].tok, request[r].new} \ {NoToken} \subseteq Issued
    /\ \A t \in Tokens : token[t].state = "unissued" <=> t \notin Issued
    /\ \A t \in Issued : token[t].family \in Issued

SessionsInit ==
    /\ token = [t \in Tokens |-> Unissued]
    /\ jar = [b \in Browsers |-> NoToken]
    /\ tab = [t \in Tabs |-> "out"]
    /\ request = [r \in Requests |-> FreeRequest]
    /\ ended = {} /\ raced = {} /\ forked = {} /\ accused = {} /\ crossed = {}
    /\ lost = 0

-----------------------------------------------------------------------------
(* The browser *)

Jar(t) == jar[JarOf[t]]

InFlight(t, kind) == \E r \in Requests : request[r].tab = t /\ request[r].kind = kind

\* A refresh of another tab carries the same cookie.
Beside(t) == \E r \in Requests : /\ request[r].kind = "refresh" /\ request[r].tab # t
                                 /\ request[r].tok = Jar(t) /\ Jar(t) # NoToken

Send(r, t, kind) ==
    /\ request[r] = FreeRequest
    /\ request' = [request EXCEPT ![r] = [FreeRequest EXCEPT !.pc = "sent", !.kind = kind,
                                                             !.tab = t, !.tok = Jar(t)]]

SendLogin(r, t) ==
    /\ tab[t] = "out" /\ ~InFlight(t, "login")
    /\ Send(r, t, "login")
    /\ UNCHANGED <<token, jar, tab, sessionsHistory, lost>>

\* Mutant: every 401 asks for a refresh of its own.
SendRefreshEach(r, t) ==
    /\ tab[t] \in {"loading", "stale"}
    /\ Send(r, t, "refresh")
    /\ crossed' = crossed \union (IF Beside(t) THEN FamilyOf(Jar(t)) ELSE {})
    /\ UNCHANGED <<token, jar, tab, ended, raced, forked, accused, lost>>

\* bootstrap when a page loads, refreshAccessToken at a 401: nothing else asks
\* while the page loads, and the 401s of a tab share one refresh.
SendRefresh(r, t) ==
    /\ tab[t] \in {"loading", "stale"} /\ ~InFlight(t, "refresh")
    /\ Send(r, t, "refresh")
    /\ crossed' = crossed \union (IF Beside(t) THEN FamilyOf(Jar(t)) ELSE {})
    /\ UNCHANGED <<token, jar, tab, ended, raced, forked, accused, lost>>

SendLogout(r, t) ==
    /\ tab[t] \in {"in", "stale"} /\ ~InFlight(t, "logout")
    /\ Send(r, t, "logout")
    /\ UNCHANGED <<token, jar, tab, sessionsHistory, lost>>

\* The page is opened anew; the memory of the old one is gone.
Reload(t) ==
    /\ tab[t] # "loading"
    /\ \A r \in Requests : request[r].tab # t
    /\ tab' = [tab EXCEPT ![t] = "loading"]
    /\ UNCHANGED <<token, jar, request, sessionsHistory, lost>>

\* ACCESS_TOKEN_TTL_MINUTES pass.
AccessExpires(t) ==
    /\ tab[t] = "in"
    /\ tab' = [tab EXCEPT ![t] = "stale"]
    /\ UNCHANGED <<token, jar, request, sessionsHistory, lost>>

\* REFRESH_TOKEN_TTL_DAYS pass for a token that was never rotated.
TokenExpires(t) ==
    /\ token[t].state = "live"
    /\ token' = [token EXCEPT ![t].state = "expired"]
    /\ UNCHANGED <<jar, tab, request, sessionsHistory, lost>>

\* The answer sets the cookie of the browser, or clears it at a sign out. A
\* refusal means to clear it too, but the error handler answers with a response
\* of its own: the dead cookie stays.
Answer(r) ==
    LET q == request[r] IN
    /\ q.pc = "answered"
    /\ jar' = IF q.kind = "refresh" /\ q.new = NoToken THEN jar
              ELSE [jar EXCEPT ![JarOf[q.tab]] = q.new]
    /\ tab' = [tab EXCEPT ![q.tab] = IF q.new = NoToken THEN "out" ELSE "in"]
    /\ request' = [request EXCEPT ![r] = FreeRequest]
    /\ UNCHANGED <<token, sessionsHistory, lost>>

\* The answer is lost: the tab gives up, the cookie stays what it was.
LoseAnswer(r) ==
    LET q == request[r] IN
    /\ q.pc = "answered" /\ lost < MaxLost
    /\ lost' = lost + 1
    /\ tab' = [tab EXCEPT ![q.tab] = "out"]
    /\ request' = [request EXCEPT ![r] = FreeRequest]
    /\ crossed' = crossed \union FamilyOf(q.new)
    /\ UNCHANGED <<token, jar, ended, raced, forked, accused>>

-----------------------------------------------------------------------------
(* The server *)

\* Mutant: the answer does not wait for the row.
IssueToUnsaved(r, n, family) ==
    /\ n \notin Issued
    /\ request' = [request EXCEPT ![r].pc = "answered", ![r].new = n]
    /\ token' = token

\* _issue_tokens: a row, and the cookie of the answer.
IssueTo(r, n, family) ==
    /\ n \notin Issued
    /\ request' = [request EXCEPT ![r].pc = "answered", ![r].new = n]
    /\ token' = [token EXCEPT ![n] = Fresh(family)]

\* The answer carries no cookie.
Refuse(r) == request' = [request EXCEPT ![r].pc = "answered", ![r].new = NoToken]

\* UPDATE refresh_tokens SET revoked_at WHERE family_id = :family.
Revoked(ts) == [t \in Tokens |-> IF t \in ts \intersect LiveTokens
                                 THEN [token[t] EXCEPT !.state = "revoked"] ELSE token[t]]

\* A session ends; refreshes of it that were let in go on.
End(f) ==
    /\ ended' = ended \union {f}
    /\ raced' = raced \union
         (IF \E r \in Requests : request[r].pc = "live" /\ request[r].kind = "refresh"
                                 /\ token[request[r].tok].family = f
          THEN {f} ELSE {})

Login(r, n) ==
    /\ request[r].kind = "login" /\ request[r].pc = "sent"
    /\ IssueTo(r, n, n)
    /\ UNCHANGED <<jar, tab, sessionsHistory, lost>>

\* Without a cookie there is no active session.
RefuseMissing(r) ==
    /\ request[r].kind \in {"refresh", "logout"} /\ request[r].pc = "sent"
    /\ request[r].tok = NoToken
    /\ Refuse(r)
    /\ UNCHANGED <<token, jar, tab, sessionsHistory, lost>>

\* Mutant: only a token that was rotated counts as used.
SpentRotatedOnly(t) == token[t].state = "rotated"

\* refresh 442: rotated or revoked.
Spent(t) == t \notin LiveTokens

\* auth_lookup_refresh_token, in a transaction of its own.
RefreshLookup(r) ==
    LET t == request[r].tok IN
    /\ request[r].kind = "refresh" /\ request[r].pc = "sent" /\ t # NoToken
    /\ request' = [request EXCEPT ![r].pc = IF Spent(t) THEN "dead" ELSE "live"]
    /\ forked' = forked \union
         (IF ~Spent(t) /\ \E q \in Requests : /\ request[q].kind = "refresh"
                                              /\ request[q].pc = "live" /\ request[q].tok = t
          THEN FamilyOf(t) ELSE {})
    /\ UNCHANGED <<token, jar, tab, ended, raced, accused, crossed, lost>>

\* Reuse detection, committed before the refusal.
RefreshReuse(r) ==
    LET f == token[request[r].tok].family IN
    /\ request[r].kind = "refresh" /\ request[r].pc = "dead"
    /\ token' = Revoked(Family(f))
    /\ End(f)
    /\ accused' = IF f \in ended THEN accused ELSE accused \union {f}
    /\ Refuse(r)
    /\ UNCHANGED <<jar, tab, forked, crossed, lost>>

RefreshExpired(r) ==
    /\ request[r].kind = "refresh" /\ request[r].pc = "live"
    /\ token[request[r].tok].state = "expired"
    /\ Refuse(r)
    /\ UNCHANGED <<token, jar, tab, sessionsHistory, lost>>

\* Mutant: the old token is linked to its successor and stays live.
RotatedKept(t, n) == [token EXCEPT ![n] = Fresh(token[t].family)]

\* The token presented gets a successor in its family and is revoked.
Rotated(t, n) == [token EXCEPT ![t].state = "rotated", ![n] = Fresh(token[t].family)]

RefreshRotate(r, n) ==
    LET t == request[r].tok IN
    /\ request[r].kind = "refresh" /\ request[r].pc = "live"
    /\ token[t].state # "expired" /\ n \notin Issued
    /\ token' = Rotated(t, n)
    /\ request' = [request EXCEPT ![r].pc = "answered", ![r].new = n]
    /\ UNCHANGED <<jar, tab, sessionsHistory, lost>>

\* Mutant: only the token that was presented.
SignedOutTokenOnly(t) == Revoked({t})

\* logout revokes the family, not just the token it was given.
SignedOut(t) == Revoked(Family(token[t].family))

\* The lookup reads only the family, which never changes.
Logout(r) ==
    LET t == request[r].tok IN
    /\ request[r].kind = "logout" /\ request[r].pc = "sent" /\ t # NoToken
    /\ token' = SignedOut(t)
    /\ End(token[t].family)
    /\ Refuse(r)
    /\ UNCHANGED <<jar, tab, forked, accused, crossed, lost>>

\* DELETE /auth/sessions/{family} from a signed-in tab.
RevokeSession(t, f) ==
    /\ tab[t] = "in" /\ Family(f) \intersect LiveTokens # {}
    /\ token' = Revoked(Family(f))
    /\ End(f)
    /\ UNCHANGED <<jar, tab, request, forked, accused, crossed, lost>>

\* change_password revokes every token of the user, the caller's included.
ChangePassword(t) ==
    /\ tab[t] = "in"
    /\ token' = Revoked(Issued)
    /\ ended' = ended \union {token[u].family : u \in Issued}
    /\ raced' = raced \union {token[request[r].tok].family : r \in
                   {q \in Requests : request[q].pc = "live" /\ request[q].kind = "refresh"}}
    /\ UNCHANGED <<jar, tab, request, forked, accused, crossed, lost>>

-----------------------------------------------------------------------------

SessionsNext ==
    \/ \E t \in Tabs : Reload(t) \/ AccessExpires(t) \/ ChangePassword(t)
    \/ \E t \in Tabs, f \in Tokens : RevokeSession(t, f)
    \/ \E t \in Tokens : TokenExpires(t)
    \/ \E r \in Requests, t \in Tabs : SendLogin(r, t) \/ SendRefresh(r, t) \/ SendLogout(r, t)
    \/ \E r \in Requests : \/ RefuseMissing(r) \/ RefreshLookup(r) \/ RefreshReuse(r)
                           \/ RefreshExpired(r) \/ Logout(r) \/ Answer(r) \/ LoseAnswer(r)
    \/ \E r \in Requests, n \in Tokens : Login(r, n) \/ RefreshRotate(r, n)

SessionsSpec == SessionsInit /\ [][SessionsNext]_sessionsVars

-----------------------------------------------------------------------------
(* Properties *)

\* A session that was signed out, revoked or ended by reuse stays ended: none
\* of its tokens can be refreshed, unless a refresh had been let in before
\* (auth.py 436-470, 502-556).
EndedStaysEnded ==
    \A f \in ended \ raced : Family(f) \intersect LiveTokens = {}

\* A session is a chain: one of its tokens is live at a time, unless one token
\* was let in twice (auth.py 478-498).
SessionIsAChain ==
    \A f \in Issued \ forked : Cardinality(Family(f) \intersect LiveTokens) <= 1

\* Reuse detection never ends the session of a tab for its own requests: it
\* takes a second tab that sends the same cookie, or an answer that is lost
\* (api.ts 11-15).
AccusedForAReason == accused \subseteq crossed

\* auth.py 516-518: signing out should end the session, and a session is the
\* family; 566: a password change ends every session of the user.
SignOutEnds == \A f \in ended : Family(f) \intersect LiveTokens = {}

=============================================================================
