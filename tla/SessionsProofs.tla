--------------------------- MODULE SessionsProofs ---------------------------
(***************************************************************************)
(* For any number of tokens, tabs, browsers and requests in flight: a      *)
(* session that ended stays ended, a session is a chain of tokens, and     *)
(* reuse detection accuses nobody for the requests of one tab.             *)
(***************************************************************************)
EXTENDS Sessions, FiniteSetTheorems, TLAPS

Refreshes(r) == request[r].kind = "refresh" /\ request[r].tok # NoToken

\* SessionsTypeOK, one variable at a time.
ShapeInv ==
    /\ token \in [Tokens -> Token]
    /\ jar \in [Browsers -> Tokens \union {NoToken}]
    /\ tab \in [Tabs -> TabState]
    /\ request \in [Requests -> SessionRequest]
    /\ ended \subseteq Tokens /\ raced \subseteq Tokens /\ forked \subseteq Tokens
    /\ accused \subseteq Tokens /\ crossed \subseteq Tokens
    /\ lost \in 0..MaxLost

\* Whatever a jar, a request or a row names was issued.
IssuedInv ==
    /\ \A b \in Browsers : jar[b] # NoToken => jar[b] \in Issued
    /\ \A r \in Requests : request[r].tok # NoToken => request[r].tok \in Issued
    /\ \A r \in Requests : request[r].new # NoToken => request[r].new \in Issued
    /\ \A r \in Requests : request[r].pc # "free" => request[r].tab \in Tabs
    /\ \A t \in Tokens : token[t].state = "unissued" <=> t \notin Issued
    /\ \A t \in Issued : token[t].family \in Issued

TypeInv == ShapeInv /\ IssuedInv

\* A cookie is in one jar, where a request took it from; one that an answer
\* still carries is nowhere else.
HolderInv ==
    /\ \A b, c \in Browsers : jar[b] = jar[c] /\ jar[b] # NoToken => b = c
    /\ \A r \in Requests, b \in Browsers :
         Refreshes(r) /\ jar[b] = request[r].tok => b = JarOf[request[r].tab]
    /\ \A r \in Requests : request[r].new # NoToken =>
         /\ \A b \in Browsers : jar[b] # request[r].new
         /\ \A q \in Requests : /\ request[q].tok # request[r].new
                                /\ request[q].new = request[r].new => q = r

\* A refresh that is let in goes on after its session has ended; then it has
\* been noted.
EndInv ==
    /\ ended \subseteq Issued
    /\ \A r \in Requests : request[r].pc \in {"live", "dead"} => request[r].tok # NoToken
    /\ \A r \in Requests : request[r].kind = "refresh" /\ request[r].pc = "live" =>
         (token[request[r].tok].family \in ended => token[request[r].tok].family \in raced)
    /\ \A t \in LiveTokens : token[t].family \in ended => token[t].family \in raced

\* The refresh that is let in holds the one token of its session that is live,
\* and is the only one, until a token is let in twice.
ChainInv ==
    /\ \A t, u \in LiveTokens :
         token[t].family = token[u].family /\ token[t].family \notin forked => t = u
    /\ \A r \in Requests, t \in LiveTokens :
         /\ request[r].kind = "refresh" /\ request[r].pc = "live"
         /\ token[request[r].tok].family = token[t].family /\ token[t].family \notin forked
         => t = request[r].tok
    /\ \A r, q \in Requests :
         /\ request[r].kind = "refresh" /\ request[r].pc = "live"
         /\ request[q].kind = "refresh" /\ request[q].pc = "live"
         /\ token[request[r].tok].family = token[request[q].tok].family
         /\ token[request[r].tok].family \notin forked
         => r = q

\* A session that nobody ended and that no request crossed.
Quiet(t) == token[t].family \notin ended \union crossed

\* A quiet session is refreshed by one request at a time, with a live token ...
QuietRequests ==
    \A r \in Requests : Refreshes(r) /\ Quiet(request[r].tok) =>
        /\ request[r].pc \in {"sent", "live"} => request[r].tok \in LiveTokens
        /\ request[r].pc # "dead"
        /\ \A q \in Requests : Refreshes(q) /\ request[q].tok = request[r].tok => q = r

\* ... its answer brings a live one ...
QuietAnswers ==
    \A r \in Requests : request[r].new # NoToken /\ Quiet(request[r].new) =>
        request[r].new \in LiveTokens

\* ... and a jar keeps a spent one only while its successor is on its way.
QuietJars ==
    \A b \in Browsers : jar[b] # NoToken /\ Quiet(jar[b]) /\ jar[b] \notin LiveTokens =>
        \E r \in Requests : /\ Refreshes(r) /\ request[r].pc = "answered"
                            /\ request[r].tok = jar[b] /\ request[r].new # NoToken
                            /\ token[request[r].new].family = token[jar[b]].family

ReuseInv == accused \subseteq crossed /\ QuietRequests /\ QuietAnswers /\ QuietJars

SessInv == TypeInv /\ HolderInv /\ EndInv /\ ChainInv /\ ReuseInv

\* At the start every browser is signed out and no token is issued.
LEMMA SessInit == SessionsInit => SessInv
  BY SessionsAssumption
  DEF SessionsInit, SessInv, TypeInv, ShapeInv, IssuedInv, HolderInv, EndInv, ChainInv,
      ReuseInv, QuietRequests, QuietAnswers, QuietJars, Refreshes,
      Issued, LiveTokens, Unissued, FreeRequest, Token, TabState, SessionRequest

\* UPDATE ... SET revoked_at takes tokens out of the live ones and changes no
\* family.
LEMMA RevokedEffect ==
  ASSUME TypeInv, NEW ts, token' = Revoked(ts)
  PROVE  /\ token' \in [Tokens -> Token]
         /\ \A t \in Tokens : token'[t].family = token[t].family
         /\ \A t \in Tokens : token'[t].state = "unissued" <=> token[t].state = "unissued"
         /\ Issued' = Issued
         /\ LiveTokens' = LiveTokens \ ts
<1>1. \A t \in Tokens :
         /\ token'[t].family = token[t].family
         /\ t \in ts \intersect LiveTokens => token'[t].state = "revoked"
         /\ t \notin ts \intersect LiveTokens => token'[t].state = token[t].state
  BY DEF Revoked, TypeInv, ShapeInv, IssuedInv, Token
<1>2. token' \in [Tokens -> Token]
  BY DEF Revoked, TypeInv, ShapeInv, IssuedInv, Token
<1>3. Issued' = Issued
  BY <1>1 DEF Issued
<1>4. \A t \in LiveTokens : t \in Tokens /\ token[t].state \in {"live", "expired"}
  BY DEF LiveTokens, Issued
<1>5. \A t \in Tokens : token'[t].state = "unissued" <=> token[t].state = "unissued"
  BY <1>1, <1>4
<1>6. LiveTokens' = LiveTokens \ ts
  <2>1. \A t \in Issued : t \in LiveTokens <=> token[t].state \in {"live", "expired"}
    BY DEF LiveTokens
  <2>2. \A t \in Issued : token'[t].state \in {"live", "expired"}
                         <=> t \in LiveTokens /\ t \notin ts
    BY <1>1, <2>1 DEF Issued
  <2>3. LiveTokens' = {t \in Issued : token'[t].state \in {"live", "expired"}}
    BY <1>3 DEF LiveTokens
  <2>. QED  BY <2>2, <2>3 DEF LiveTokens
<1>. QED  BY <1>1, <1>2, <1>3, <1>5, <1>6

\* A refusal answers one request without a cookie.
LEMMA RefuseEffect ==
  ASSUME TypeInv, NEW r \in Requests, request[r].pc # "free", Refuse(r)
  PROVE  /\ request' \in [Requests -> SessionRequest]
         /\ \A q \in Requests : q # r => request'[q] = request[q]
         /\ request'[r].pc = "answered" /\ request'[r].new = NoToken
         /\ request'[r].kind = request[r].kind /\ request'[r].tok = request[r].tok
         /\ request'[r].tab = request[r].tab
<1>1. request \in [Requests -> SessionRequest] /\ request[r] \in SessionRequest
  BY DEF TypeInv, ShapeInv
<1>. DEFINE q == [request[r] EXCEPT !.pc = "answered", !.new = NoToken]
<1>2. /\ q \in SessionRequest /\ q.pc = "answered" /\ q.new = NoToken
      /\ q.kind = request[r].kind /\ q.tok = request[r].tok /\ q.tab = request[r].tab
  BY <1>1 DEF SessionRequest
<1>3. request' = [request EXCEPT ![r] = q]
  BY <1>1 DEF Refuse
<1>. HIDE DEF q
<1>. QED  BY <1>1, <1>2, <1>3

\* A request leaves with the cookie of its tab's browser.
LEMMA SendEffect ==
  ASSUME TypeInv, NEW r \in Requests, NEW t \in Tabs,
         NEW kind \in {"login", "refresh", "logout"}, Send(r, t, kind)
  PROVE  /\ request' \in [Requests -> SessionRequest]
         /\ \A q \in Requests : q # r => request'[q] = request[q]
         /\ request[r] = FreeRequest
         /\ request'[r].pc = "sent" /\ request'[r].kind = kind /\ request'[r].tab = t
         /\ request'[r].tok = jar[JarOf[t]] /\ request'[r].new = NoToken
         /\ jar[JarOf[t]] \in Tokens \union {NoToken}
<1>1. jar[JarOf[t]] \in Tokens \union {NoToken}
  BY SessionsAssumption DEF TypeInv, ShapeInv, IssuedInv
<1>. DEFINE q == [FreeRequest EXCEPT !.pc = "sent", !.kind = kind, !.tab = t, !.tok = Jar(t)]
<1>2. /\ q.pc = "sent" /\ q.kind = kind /\ q.tab = t /\ q.tok = jar[JarOf[t]]
      /\ q.new = NoToken /\ q \in SessionRequest
  BY <1>1 DEF FreeRequest, Jar, SessionRequest
<1>3. request[r] = FreeRequest /\ request' = [request EXCEPT ![r] = q]
  BY DEF Send
<1>. HIDE DEF q
<1>. QED  BY <1>1, <1>2, <1>3 DEF TypeInv, ShapeInv, IssuedInv

\* A rotation replaces a token by a new one of its family.
LEMMA RotateEffect ==
  ASSUME TypeInv, NEW r \in Requests, NEW n \in Tokens, RefreshRotate(r, n),
         request[r].tok \in Issued
  PROVE  LET t == request[r].tok IN
         /\ token' \in [Tokens -> Token]
         /\ n \notin Issued /\ n # t
         /\ Issued' = Issued \union {n}
         /\ LiveTokens' = (LiveTokens \ {t}) \union {n}
         /\ token'[n].family = token[t].family /\ token'[n].state = "live"
         /\ \A u \in Tokens : u # n => token'[u].family = token[u].family
         /\ \A u \in Tokens : u # n =>
                (token'[u].state = "unissued" <=> token[u].state = "unissued")
         /\ request' \in [Requests -> SessionRequest]
         /\ \A q \in Requests : q # r => request'[q] = request[q]
         /\ request'[r].pc = "answered" /\ request'[r].new = n
         /\ request'[r].kind = request[r].kind /\ request'[r].tok = request[r].tok
         /\ request'[r].tab = request[r].tab
<1>. DEFINE t == request[r].tok
<1>1. t \in Tokens /\ n # t /\ n \notin Issued /\ token[t].family \in Tokens
      /\ token[t].state # "unissued"
  BY DEF RefreshRotate, TypeInv, ShapeInv, IssuedInv, Issued, Token
<1>2. /\ token'[t].family = token[t].family /\ token'[t].state = "rotated"
      /\ token'[n].family = token[t].family /\ token'[n].state = "live"
      /\ \A u \in Tokens \ {t, n} : token'[u] = token[u]
  BY <1>1 DEF RefreshRotate, Rotated, Fresh, TypeInv, ShapeInv, IssuedInv, Token
<1>3. token' \in [Tokens -> Token]
  BY <1>1 DEF RefreshRotate, Rotated, Fresh, TypeInv, ShapeInv, IssuedInv, Token
<1>4. /\ Issued' = Issued \union {n}
      /\ \A u \in Tokens : u # n => token'[u].family = token[u].family
  BY <1>1, <1>2, SessionsAssumption DEF Issued
<1>5. LiveTokens' = (LiveTokens \ {t}) \union {n}
  BY <1>1, <1>2, <1>4 DEF LiveTokens, Issued
<1>6. \A u \in Tokens : u # n => (token'[u].state = "unissued" <=> token[u].state = "unissued")
  BY <1>1, <1>2
<1>7. /\ request' \in [Requests -> SessionRequest]
      /\ \A q \in Requests : q # r => request'[q] = request[q]
      /\ request'[r].pc = "answered" /\ request'[r].new = n
      /\ request'[r].kind = request[r].kind /\ request'[r].tok = request[r].tok
      /\ request'[r].tab = request[r].tab
  <2>1. request \in [Requests -> SessionRequest] /\ request[r] \in SessionRequest
    BY DEF TypeInv, ShapeInv
  <2>. DEFINE q == [request[r] EXCEPT !.pc = "answered", !.new = n]
  <2>2. /\ q \in SessionRequest /\ q.pc = "answered" /\ q.new = n
        /\ q.kind = request[r].kind /\ q.tok = request[r].tok /\ q.tab = request[r].tab
    BY <2>1 DEF SessionRequest
  <2>3. request' = [request EXCEPT ![r] = q]
    BY <2>1 DEF RefreshRotate
  <2>. HIDE DEF q
  <2>. QED  BY <2>1, <2>2, <2>3
<1>. QED  BY <1>1, <1>2, <1>3, <1>4, <1>5, <1>6, <1>7

\* An answer, or its loss, frees its slot.
LEMMA FreedEffect ==
  ASSUME TypeInv, NEW r \in Requests, Answer(r) \/ LoseAnswer(r)
  PROVE  /\ request' \in [Requests -> SessionRequest]
         /\ \A q \in Requests : q # r => request'[q] = request[q]
         /\ request'[r] = [pc |-> "free", kind |-> "none", tab |-> NoTab, tok |-> NoToken,
                           new |-> NoToken]
         /\ request[r].pc = "answered" /\ request[r].tab \in Tabs
         /\ request[r].new \in Tokens \union {NoToken}
  BY DEF Answer, LoseAnswer, FreeRequest, TypeInv, ShapeInv, IssuedInv, SessionRequest

\* Every step keeps the types, and names only tokens that were issued.
LEMMA TypeKept == SessInv /\ [SessionsNext]_sessionsVars => TypeInv'
<1>. SUFFICES ASSUME SessInv, [SessionsNext]_sessionsVars PROVE TypeInv'
  OBVIOUS
<1>1. ASSUME NEW t \in Tabs, Reload(t) PROVE TypeInv'
  BY <1>1, SessionsAssumption
  DEF Reload, sessionsHistory, SessInv, TypeInv, ShapeInv, IssuedInv, Token, TabState,
      SessionRequest, Issued, Family, LiveTokens
<1>2. ASSUME NEW t \in Tabs, AccessExpires(t) PROVE TypeInv'
  BY <1>2, SessionsAssumption
  DEF AccessExpires, sessionsHistory, SessInv, TypeInv, ShapeInv, IssuedInv, Token,
      TabState, SessionRequest, Issued, Family, LiveTokens
<1>3. ASSUME NEW t \in Tabs, ChangePassword(t) PROVE TypeInv'
  <2>1. TypeInv
    BY DEF SessInv
  <2>2. token' = Revoked(Issued)
    BY <1>3 DEF ChangePassword
  <2>3. /\ token' \in [Tokens -> Token] /\ Issued' = Issued
        /\ \A u \in Tokens : token'[u].family = token[u].family
        /\ \A u \in Tokens : token'[u].state = "unissued" <=> token[u].state = "unissued"
    BY <2>1, <2>2, RevokedEffect
  <2>4. /\ UNCHANGED <<jar, tab, request, forked, accused, crossed, lost>>
        /\ ended' \subseteq ended \union Issued
        /\ raced' \subseteq raced \union Issued
    <3>1. \A q \in Requests : request[q].pc = "live" => request[q].tok \in Issued
      BY <2>1 DEF SessInv, EndInv, TypeInv, ShapeInv, IssuedInv
    <3>2. \A u \in Issued : token[u].family \in Issued
      BY <2>1 DEF TypeInv, ShapeInv, IssuedInv
    <3>. QED  BY <1>3, <3>1, <3>2 DEF ChangePassword
  <2>5. Issued \subseteq Tokens
    BY DEF Issued
  <2>20. ShapeInv'
    BY <2>1, <2>3, <2>4, <2>5 DEF TypeInv, ShapeInv
  <2>21. IssuedInv'
    BY <2>1, <2>3, <2>4, <2>5 DEF TypeInv, IssuedInv
  <2>. QED  BY <2>20, <2>21 DEF TypeInv
<1>4. ASSUME NEW t \in Tabs, NEW f \in Tokens, RevokeSession(t, f) PROVE TypeInv'
  BY <1>4, SessionsAssumption
  DEF RevokeSession, sessionsHistory, Revoked, End, SessInv, TypeInv, ShapeInv,
      IssuedInv, Token, TabState, SessionRequest, Issued, Family, LiveTokens
<1>5. ASSUME NEW t \in Tokens, TokenExpires(t) PROVE TypeInv'
  BY <1>5, SessionsAssumption
  DEF TokenExpires, sessionsHistory, SessInv, TypeInv, ShapeInv, IssuedInv, Token,
      TabState, SessionRequest, Issued, Family, LiveTokens
<1>6. ASSUME NEW r \in Requests, NEW t \in Tabs, SendLogin(r, t) PROVE TypeInv'
  <2>1. TypeInv /\ Send(r, t, "login")
    BY <1>6 DEF SessInv, SendLogin
  <2>2. /\ request' \in [Requests -> SessionRequest]
        /\ \A q \in Requests : q # r => request'[q] = request[q]
        /\ request'[r].tab = t /\ request'[r].tok = jar[JarOf[t]] /\ request'[r].new = NoToken
    BY <2>1, SendEffect
  <2>3. jar[JarOf[t]] # NoToken => jar[JarOf[t]] \in Issued
    BY <2>1, SessionsAssumption DEF TypeInv, ShapeInv, IssuedInv
  <2>4. \A q \in Requests : /\ request'[q].tok # NoToken => request'[q].tok \in Issued
                            /\ request'[q].new # NoToken => request'[q].new \in Issued
                            /\ request'[q].pc # "free" => request'[q].tab \in Tabs
    BY <2>1, <2>2, <2>3 DEF TypeInv, ShapeInv, IssuedInv
  <2>5. /\ token' = token /\ jar' = jar /\ tab' = tab /\ lost' = lost /\ ended' = ended
        /\ raced' = raced /\ forked' = forked /\ accused' = accused
        /\ crossed' \subseteq Tokens
    BY <1>6, <2>1, <2>3 DEF SendLogin, sessionsHistory, TypeInv, ShapeInv, IssuedInv
  <2>6. Issued' = Issued
    BY <2>5 DEF Issued
  <2>20. ShapeInv'
    BY <2>1, <2>2, <2>4, <2>5, <2>6 DEF TypeInv, ShapeInv
  <2>21. IssuedInv'
    BY <2>1, <2>2, <2>4, <2>5, <2>6 DEF TypeInv, IssuedInv
  <2>. QED  BY <2>20, <2>21 DEF TypeInv
<1>7. ASSUME NEW r \in Requests, NEW t \in Tabs, SendRefresh(r, t) PROVE TypeInv'
  <2>1. TypeInv /\ Send(r, t, "refresh")
    BY <1>7 DEF SessInv, SendRefresh
  <2>2. /\ request' \in [Requests -> SessionRequest]
        /\ \A q \in Requests : q # r => request'[q] = request[q]
        /\ request'[r].tab = t /\ request'[r].tok = jar[JarOf[t]] /\ request'[r].new = NoToken
    BY <2>1, SendEffect
  <2>3. jar[JarOf[t]] # NoToken => jar[JarOf[t]] \in Issued
    BY <2>1, SessionsAssumption DEF TypeInv, ShapeInv, IssuedInv
  <2>4. \A q \in Requests : /\ request'[q].tok # NoToken => request'[q].tok \in Issued
                            /\ request'[q].new # NoToken => request'[q].new \in Issued
                            /\ request'[q].pc # "free" => request'[q].tab \in Tabs
    BY <2>1, <2>2, <2>3 DEF TypeInv, ShapeInv, IssuedInv
  <2>5. /\ token' = token /\ jar' = jar /\ tab' = tab /\ lost' = lost /\ ended' = ended
        /\ raced' = raced /\ forked' = forked /\ accused' = accused
        /\ crossed' \subseteq Tokens
    BY <1>7, <2>1, <2>3
    DEF SendRefresh, sessionsHistory, TypeInv, ShapeInv, IssuedInv, FamilyOf, Jar,
        Issued, Token
  <2>6. Issued' = Issued
    BY <2>5 DEF Issued
  <2>20. ShapeInv'
    BY <2>1, <2>2, <2>4, <2>5, <2>6 DEF TypeInv, ShapeInv
  <2>21. IssuedInv'
    BY <2>1, <2>2, <2>4, <2>5, <2>6 DEF TypeInv, IssuedInv
  <2>. QED  BY <2>20, <2>21 DEF TypeInv
<1>8. ASSUME NEW r \in Requests, NEW t \in Tabs, SendLogout(r, t) PROVE TypeInv'
  <2>1. TypeInv /\ Send(r, t, "logout")
    BY <1>8 DEF SessInv, SendLogout
  <2>2. /\ request' \in [Requests -> SessionRequest]
        /\ \A q \in Requests : q # r => request'[q] = request[q]
        /\ request'[r].tab = t /\ request'[r].tok = jar[JarOf[t]] /\ request'[r].new = NoToken
    BY <2>1, SendEffect
  <2>3. jar[JarOf[t]] # NoToken => jar[JarOf[t]] \in Issued
    BY <2>1, SessionsAssumption DEF TypeInv, ShapeInv, IssuedInv
  <2>4. \A q \in Requests : /\ request'[q].tok # NoToken => request'[q].tok \in Issued
                            /\ request'[q].new # NoToken => request'[q].new \in Issued
                            /\ request'[q].pc # "free" => request'[q].tab \in Tabs
    BY <2>1, <2>2, <2>3 DEF TypeInv, ShapeInv, IssuedInv
  <2>5. /\ token' = token /\ jar' = jar /\ tab' = tab /\ lost' = lost /\ ended' = ended
        /\ raced' = raced /\ forked' = forked /\ accused' = accused
        /\ crossed' \subseteq Tokens
    BY <1>8, <2>1, <2>3 DEF SendLogout, sessionsHistory, TypeInv, ShapeInv, IssuedInv
  <2>6. Issued' = Issued
    BY <2>5 DEF Issued
  <2>20. ShapeInv'
    BY <2>1, <2>2, <2>4, <2>5, <2>6 DEF TypeInv, ShapeInv
  <2>21. IssuedInv'
    BY <2>1, <2>2, <2>4, <2>5, <2>6 DEF TypeInv, IssuedInv
  <2>. QED  BY <2>20, <2>21 DEF TypeInv
<1>9. ASSUME NEW r \in Requests, RefuseMissing(r) PROVE TypeInv'
  <2>1. TypeInv /\ request[r].pc # "free" /\ Refuse(r)
    BY <1>9 DEF SessInv, RefuseMissing
  <2>2. /\ request' \in [Requests -> SessionRequest]
        /\ \A q \in Requests : /\ request'[q].tok = request[q].tok
                               /\ request'[q].tab = request[q].tab
                               /\ request'[q].new \in {request[q].new, NoToken}
                               /\ request[q].pc = "free" => request'[q].pc = "free"
    BY <2>1, RefuseEffect DEF TypeInv, ShapeInv, IssuedInv
  <2>3. UNCHANGED <<token, jar, tab, ended, raced, forked, accused, crossed, lost>>
    BY <1>9 DEF RefuseMissing, sessionsHistory
  <2>4. Issued' = Issued
    BY <2>3 DEF Issued
  <2>5. \A q \in Requests : request'[q].pc # "free" => request'[q].tab \in Tabs
    BY <2>1, <2>2 DEF TypeInv, ShapeInv, IssuedInv
  <2>20. ShapeInv'
    BY <2>1, <2>2, <2>3, <2>4, <2>5 DEF TypeInv, ShapeInv
  <2>21. IssuedInv'
    BY <2>1, <2>2, <2>3, <2>4, <2>5 DEF TypeInv, IssuedInv
  <2>. QED  BY <2>20, <2>21 DEF TypeInv
<1>10. ASSUME NEW r \in Requests, RefreshLookup(r) PROVE TypeInv'
  BY <1>10, SessionsAssumption
  DEF RefreshLookup, sessionsHistory, Spent, FamilyOf, SessInv, TypeInv, ShapeInv,
      IssuedInv, Token, TabState, SessionRequest, Issued, Family, LiveTokens
<1>11. ASSUME NEW r \in Requests, RefreshReuse(r) PROVE TypeInv'
  <2>1. TypeInv /\ request[r].pc # "free" /\ request[r].tok # NoToken
    BY <1>11 DEF SessInv, EndInv, RefreshReuse
  <2>2. token' = Revoked(Family(token[request[r].tok].family)) /\ Refuse(r)
    BY <1>11 DEF RefreshReuse
  <2>3. /\ token' \in [Tokens -> Token] /\ Issued' = Issued
        /\ \A t \in Tokens : token'[t].family = token[t].family
        /\ \A t \in Tokens : token'[t].state = "unissued" <=> token[t].state = "unissued"
    BY <2>1, <2>2, RevokedEffect
  <2>4. /\ request' \in [Requests -> SessionRequest]
        /\ \A q \in Requests : /\ request'[q].tok = request[q].tok
                               /\ request'[q].tab = request[q].tab
                               /\ request'[q].new \in {request[q].new, NoToken}
                               /\ request[q].pc = "free" => request'[q].pc = "free"
    BY <2>1, <2>2, RefuseEffect DEF TypeInv, ShapeInv, IssuedInv
  <2>5. token[request[r].tok].family \in Tokens
    BY <2>1 DEF TypeInv, ShapeInv, IssuedInv, Issued
  <2>6. /\ UNCHANGED <<jar, tab, forked, crossed, lost>>
        /\ ended' \subseteq Tokens /\ raced' \subseteq Tokens /\ accused' \subseteq Tokens
    BY <1>11, <2>1, <2>5 DEF RefreshReuse, End, TypeInv, ShapeInv, IssuedInv
  <2>7. Issued \subseteq Tokens
    BY DEF Issued
  <2>8. \A q \in Requests : request'[q].pc # "free" => request'[q].tab \in Tabs
    BY <2>1, <2>4 DEF TypeInv, ShapeInv, IssuedInv
  <2>20. ShapeInv'
    BY <2>1, <2>3, <2>4, <2>6, <2>7 DEF TypeInv, ShapeInv
  <2>21. IssuedInv'
    BY <2>1, <2>3, <2>4, <2>6, <2>7, <2>8 DEF TypeInv, IssuedInv
  <2>. QED  BY <2>20, <2>21 DEF TypeInv
<1>12. ASSUME NEW r \in Requests, RefreshExpired(r) PROVE TypeInv'
  <2>1. TypeInv /\ request[r].pc # "free" /\ Refuse(r)
    BY <1>12 DEF SessInv, RefreshExpired
  <2>2. /\ request' \in [Requests -> SessionRequest]
        /\ \A q \in Requests : /\ request'[q].tok = request[q].tok
                               /\ request'[q].tab = request[q].tab
                               /\ request'[q].new \in {request[q].new, NoToken}
                               /\ request[q].pc = "free" => request'[q].pc = "free"
    BY <2>1, RefuseEffect DEF TypeInv, ShapeInv, IssuedInv
  <2>3. UNCHANGED <<token, jar, tab, ended, raced, forked, accused, crossed, lost>>
    BY <1>12 DEF RefreshExpired, sessionsHistory
  <2>4. Issued' = Issued
    BY <2>3 DEF Issued
  <2>5. \A q \in Requests : request'[q].pc # "free" => request'[q].tab \in Tabs
    BY <2>1, <2>2 DEF TypeInv, ShapeInv, IssuedInv
  <2>20. ShapeInv'
    BY <2>1, <2>2, <2>3, <2>4, <2>5 DEF TypeInv, ShapeInv
  <2>21. IssuedInv'
    BY <2>1, <2>2, <2>3, <2>4, <2>5 DEF TypeInv, IssuedInv
  <2>. QED  BY <2>20, <2>21 DEF TypeInv
<1>13. ASSUME NEW r \in Requests, Logout(r) PROVE TypeInv'
  <2>1. TypeInv /\ request[r].pc # "free" /\ request[r].tok # NoToken
    BY <1>13 DEF SessInv, EndInv, Logout
  <2>2. token' = Revoked(Family(token[request[r].tok].family)) /\ Refuse(r)
    BY <1>13 DEF Logout, SignedOut
  <2>3. /\ token' \in [Tokens -> Token] /\ Issued' = Issued
        /\ \A t \in Tokens : token'[t].family = token[t].family
        /\ \A t \in Tokens : token'[t].state = "unissued" <=> token[t].state = "unissued"
    BY <2>1, <2>2, RevokedEffect
  <2>4. /\ request' \in [Requests -> SessionRequest]
        /\ \A q \in Requests : /\ request'[q].tok = request[q].tok
                               /\ request'[q].tab = request[q].tab
                               /\ request'[q].new \in {request[q].new, NoToken}
                               /\ request[q].pc = "free" => request'[q].pc = "free"
    BY <2>1, <2>2, RefuseEffect DEF TypeInv, ShapeInv, IssuedInv
  <2>5. token[request[r].tok].family \in Tokens
    BY <2>1 DEF TypeInv, ShapeInv, IssuedInv, Issued
  <2>6. /\ UNCHANGED <<jar, tab, forked, crossed, lost>>
        /\ ended' \subseteq Tokens /\ raced' \subseteq Tokens /\ accused' \subseteq Tokens
    BY <1>13, <2>1, <2>5 DEF Logout, End, TypeInv, ShapeInv, IssuedInv
  <2>7. Issued \subseteq Tokens
    BY DEF Issued
  <2>8. \A q \in Requests : request'[q].pc # "free" => request'[q].tab \in Tabs
    BY <2>1, <2>4 DEF TypeInv, ShapeInv, IssuedInv
  <2>20. ShapeInv'
    BY <2>1, <2>3, <2>4, <2>6, <2>7 DEF TypeInv, ShapeInv
  <2>21. IssuedInv'
    BY <2>1, <2>3, <2>4, <2>6, <2>7, <2>8 DEF TypeInv, IssuedInv
  <2>. QED  BY <2>20, <2>21 DEF TypeInv
<1>14. ASSUME NEW r \in Requests, Answer(r) PROVE TypeInv'
  <2>1. TypeInv /\ (Answer(r) \/ LoseAnswer(r))
    BY <1>14 DEF SessInv
  <2>2. /\ request' \in [Requests -> SessionRequest]
        /\ \A q \in Requests : q # r => request'[q] = request[q]
        /\ request'[r] = [pc |-> "free", kind |-> "none", tab |-> NoTab, tok |-> NoToken,
                          new |-> NoToken]
        /\ request[r].tab \in Tabs /\ request[r].new \in Tokens \union {NoToken}
    BY <2>1, FreedEffect
  <2>3. \A q \in Requests : /\ request'[q].tok # NoToken => request'[q].tok \in Issued
                            /\ request'[q].new # NoToken => request'[q].new \in Issued
                            /\ request'[q].pc # "free" => request'[q].tab \in Tabs
    BY <2>1, <2>2 DEF TypeInv, ShapeInv, IssuedInv
  <2>4. /\ UNCHANGED <<token, ended, raced, forked, accused, crossed, lost>>
        /\ jar' = IF request[r].kind = "refresh" /\ request[r].new = NoToken THEN jar
                   ELSE [jar EXCEPT ![JarOf[request[r].tab]] = request[r].new]
        /\ tab' \in [Tabs -> TabState]
    BY <1>14, <2>1 DEF Answer, sessionsHistory, TypeInv, ShapeInv, IssuedInv, TabState
  <2>5. /\ jar' \in [Browsers -> Tokens \union {NoToken}]
        /\ \A b \in Browsers : jar'[b] # NoToken => jar'[b] \in Issued
    BY <2>1, <2>2, <2>4 DEF TypeInv, ShapeInv, IssuedInv
  <2>6. Issued' = Issued
    BY <2>4 DEF Issued
  <2>20. ShapeInv'
    BY <2>1, <2>2, <2>3, <2>4, <2>5, <2>6 DEF TypeInv, ShapeInv
  <2>21. IssuedInv'
    BY <2>1, <2>2, <2>3, <2>4, <2>5, <2>6 DEF TypeInv, IssuedInv
  <2>. QED  BY <2>20, <2>21 DEF TypeInv
<1>15. ASSUME NEW r \in Requests, LoseAnswer(r) PROVE TypeInv'
  BY <1>15, SessionsAssumption
  DEF LoseAnswer, sessionsHistory, FreeRequest, FamilyOf, SessInv, TypeInv, ShapeInv,
      IssuedInv, Token, TabState, SessionRequest, Issued, Family, LiveTokens
<1>16. ASSUME NEW r \in Requests, NEW n \in Tokens, Login(r, n) PROVE TypeInv'
  BY <1>16, SessionsAssumption
  DEF Login, sessionsHistory, IssueTo, Fresh, SessInv, TypeInv, ShapeInv, IssuedInv,
      Token, TabState, SessionRequest, Issued, Family, LiveTokens
<1>17. ASSUME NEW r \in Requests, NEW n \in Tokens, RefreshRotate(r, n) PROVE TypeInv'
  <2>. DEFINE t == request[r].tok
  <2>1. TypeInv /\ t \in Issued
    BY <1>17 DEF SessInv, EndInv, TypeInv, ShapeInv, IssuedInv, RefreshRotate
  <2>2. /\ token' \in [Tokens -> Token]
        /\ n \notin Issued /\ n # t
        /\ Issued' = Issued \union {n}
        /\ LiveTokens' = (LiveTokens \ {t}) \union {n}
        /\ token'[n].family = token[t].family /\ token'[n].state = "live"
        /\ \A u \in Tokens : u # n => token'[u].family = token[u].family
        /\ \A u \in Tokens : u # n =>
               (token'[u].state = "unissued" <=> token[u].state = "unissued")
        /\ request' \in [Requests -> SessionRequest]
        /\ \A q \in Requests : q # r => request'[q] = request[q]
        /\ request'[r].pc = "answered" /\ request'[r].new = n
        /\ request'[r].kind = request[r].kind /\ request'[r].tok = request[r].tok
        /\ request'[r].tab = request[r].tab
    BY <1>17, <2>1, RotateEffect
  <2>3. /\ UNCHANGED <<jar, tab, ended, raced, forked, accused, crossed, lost>>
        /\ request[r].kind = "refresh" /\ request[r].pc = "live"
    BY <1>17 DEF RefreshRotate, sessionsHistory
  <2>4. \A q \in Requests : /\ request'[q].tok # NoToken => request'[q].tok \in Issued
                            /\ request'[q].new # NoToken => request'[q].new \in Issued \union {n}
                            /\ request'[q].pc # "free" => request'[q].tab \in Tabs
    BY <2>1, <2>2, <2>3 DEF TypeInv, ShapeInv, IssuedInv
  <2>5. \A u \in Issued \union {n} : token'[u].family \in Issued
    BY <2>1, <2>2 DEF TypeInv, ShapeInv, IssuedInv, Issued
  <2>6. \A u \in Tokens : token'[u].state = "unissued" <=> u \notin Issued \union {n}
    BY <2>1, <2>2 DEF TypeInv, ShapeInv, IssuedInv
  <2>20. ShapeInv'
    BY <2>1, <2>2, <2>3, <2>4, <2>5, <2>6 DEF TypeInv, ShapeInv
  <2>21. IssuedInv'
    BY <2>1, <2>2, <2>3, <2>4, <2>5, <2>6 DEF TypeInv, IssuedInv
  <2>. QED  BY <2>20, <2>21 DEF TypeInv
<1>18. CASE UNCHANGED sessionsVars
  BY <1>18
  DEF sessionsVars, sessionsHistory, SessInv, TypeInv, ShapeInv, IssuedInv, Token,
      TabState, SessionRequest, Issued, Family, LiveTokens
<1>. QED
  BY <1>1, <1>2, <1>3, <1>4, <1>5, <1>6, <1>7, <1>8, <1>9, <1>10, <1>11, <1>12, <1>13,
     <1>14, <1>15, <1>16, <1>17, <1>18
  DEF SessionsNext

\* Every step keeps each cookie in one place.
LEMMA HolderKept == SessInv /\ [SessionsNext]_sessionsVars => HolderInv'
<1>. SUFFICES ASSUME SessInv, [SessionsNext]_sessionsVars PROVE HolderInv'
  OBVIOUS
<1>1. ASSUME NEW t \in Tabs, Reload(t) PROVE HolderInv'
  BY <1>1, SessionsAssumption
  DEF Reload, sessionsHistory, SessInv, HolderInv, Refreshes, TypeInv, ShapeInv,
      IssuedInv, Token, SessionRequest, Issued, Family, LiveTokens
<1>2. ASSUME NEW t \in Tabs, AccessExpires(t) PROVE HolderInv'
  BY <1>2, SessionsAssumption
  DEF AccessExpires, sessionsHistory, SessInv, HolderInv, Refreshes, TypeInv, ShapeInv,
      IssuedInv, Token, SessionRequest, Issued, Family, LiveTokens
<1>3. ASSUME NEW t \in Tabs, ChangePassword(t) PROVE HolderInv'
  BY <1>3, SessionsAssumption
  DEF ChangePassword, sessionsHistory, Revoked, SessInv, HolderInv, Refreshes, TypeInv,
      ShapeInv, IssuedInv, Token, SessionRequest, Issued, Family, LiveTokens
<1>4. ASSUME NEW t \in Tabs, NEW f \in Tokens, RevokeSession(t, f) PROVE HolderInv'
  BY <1>4, SessionsAssumption
  DEF RevokeSession, sessionsHistory, Revoked, End, SessInv, HolderInv, Refreshes,
      TypeInv, ShapeInv, IssuedInv, Token, SessionRequest, Issued, Family, LiveTokens
<1>5. ASSUME NEW t \in Tokens, TokenExpires(t) PROVE HolderInv'
  BY <1>5, SessionsAssumption
  DEF TokenExpires, sessionsHistory, SessInv, HolderInv, Refreshes, TypeInv, ShapeInv,
      IssuedInv, Token, SessionRequest, Issued, Family, LiveTokens
<1>6. ASSUME NEW r \in Requests, NEW t \in Tabs, SendLogin(r, t) PROVE HolderInv'
  BY <1>6, SessionsAssumption
  DEF SendLogin, sessionsHistory, Send, Jar, InFlight, FreeRequest, SessInv, HolderInv,
      Refreshes, TypeInv, ShapeInv, IssuedInv, Token, SessionRequest, Issued, Family,
      LiveTokens
<1>7. ASSUME NEW r \in Requests, NEW t \in Tabs, SendRefresh(r, t) PROVE HolderInv'
  BY <1>7, SessionsAssumption
  DEF SendRefresh, sessionsHistory, Send, Jar, InFlight, FreeRequest, Beside, FamilyOf,
      SessInv, HolderInv, Refreshes, TypeInv, ShapeInv, IssuedInv, Token,
      SessionRequest, Issued, Family, LiveTokens
<1>8. ASSUME NEW r \in Requests, NEW t \in Tabs, SendLogout(r, t) PROVE HolderInv'
  BY <1>8, SessionsAssumption
  DEF SendLogout, sessionsHistory, Send, Jar, InFlight, FreeRequest, SessInv,
      HolderInv, Refreshes, TypeInv, ShapeInv, IssuedInv, Token, SessionRequest,
      Issued, Family, LiveTokens
<1>9. ASSUME NEW r \in Requests, RefuseMissing(r) PROVE HolderInv'
  BY <1>9, SessionsAssumption
  DEF RefuseMissing, sessionsHistory, Refuse, SessInv, HolderInv, Refreshes, TypeInv,
      ShapeInv, IssuedInv, Token, SessionRequest, Issued, Family, LiveTokens
<1>10. ASSUME NEW r \in Requests, RefreshLookup(r) PROVE HolderInv'
  BY <1>10, SessionsAssumption
  DEF RefreshLookup, sessionsHistory, Spent, FamilyOf, SessInv, HolderInv, Refreshes,
      TypeInv, ShapeInv, IssuedInv, Token, SessionRequest, Issued, Family, LiveTokens
<1>11. ASSUME NEW r \in Requests, RefreshReuse(r) PROVE HolderInv'
  BY <1>11, SessionsAssumption
  DEF RefreshReuse, sessionsHistory, Revoked, End, Refuse, SessInv, HolderInv,
      Refreshes, TypeInv, ShapeInv, IssuedInv, Token, SessionRequest, Issued, Family,
      LiveTokens
<1>12. ASSUME NEW r \in Requests, RefreshExpired(r) PROVE HolderInv'
  BY <1>12, SessionsAssumption
  DEF RefreshExpired, sessionsHistory, Refuse, SessInv, HolderInv, Refreshes, TypeInv,
      ShapeInv, IssuedInv, Token, SessionRequest, Issued, Family, LiveTokens
<1>13. ASSUME NEW r \in Requests, Logout(r) PROVE HolderInv'
  BY <1>13, SessionsAssumption
  DEF Logout, sessionsHistory, SignedOut, Revoked, End, Refuse, SessInv, HolderInv,
      Refreshes, TypeInv, ShapeInv, IssuedInv, Token, SessionRequest, Issued, Family,
      LiveTokens
<1>14. ASSUME NEW r \in Requests, Answer(r) PROVE HolderInv'
  BY <1>14, SessionsAssumption
  DEF Answer, sessionsHistory, FreeRequest, SessInv, HolderInv, Refreshes, TypeInv,
      ShapeInv, IssuedInv, Token, SessionRequest, Issued, Family, LiveTokens
<1>15. ASSUME NEW r \in Requests, LoseAnswer(r) PROVE HolderInv'
  BY <1>15, SessionsAssumption
  DEF LoseAnswer, sessionsHistory, FreeRequest, FamilyOf, SessInv, HolderInv,
      Refreshes, TypeInv, ShapeInv, IssuedInv, Token, SessionRequest, Issued, Family,
      LiveTokens
<1>16. ASSUME NEW r \in Requests, NEW n \in Tokens, Login(r, n) PROVE HolderInv'
  BY <1>16, SessionsAssumption
  DEF Login, sessionsHistory, IssueTo, Fresh, SessInv, HolderInv, Refreshes, TypeInv,
      ShapeInv, IssuedInv, Token, SessionRequest, Issued, Family, LiveTokens
<1>17. ASSUME NEW r \in Requests, NEW n \in Tokens, RefreshRotate(r, n) PROVE HolderInv'
  BY <1>17, SessionsAssumption
  DEF RefreshRotate, sessionsHistory, Rotated, Fresh, SessInv, HolderInv, Refreshes,
      TypeInv, ShapeInv, IssuedInv, Token, SessionRequest, Issued, Family, LiveTokens
<1>18. CASE UNCHANGED sessionsVars
  BY <1>18
  DEF sessionsVars, sessionsHistory, SessInv, HolderInv, Refreshes, TypeInv, ShapeInv,
      IssuedInv, Token, SessionRequest, Issued, Family, LiveTokens
<1>. QED
  BY <1>1, <1>2, <1>3, <1>4, <1>5, <1>6, <1>7, <1>8, <1>9, <1>10, <1>11, <1>12, <1>13,
     <1>14, <1>15, <1>16, <1>17, <1>18
  DEF SessionsNext

\* A family that a request has ended: the refreshes of it that go on are noted.
LEMMA EndEffect ==
  ASSUME SessInv, NEW r \in Requests, request[r].pc # "free", NEW f \in Issued,
         token' = Revoked(Family(f)), End(f), Refuse(r)
  PROVE  EndInv'
<1>1. TypeInv
  BY DEF SessInv
<1>2. /\ \A u \in Tokens : token'[u].family = token[u].family
      /\ LiveTokens' = LiveTokens \ Family(f)
      /\ Issued' = Issued
  BY <1>1, RevokedEffect
<1>3. /\ \A q \in Requests : q # r => request'[q] = request[q]
      /\ request'[r].pc = "answered"
  BY <1>1, RefuseEffect
<1>4. /\ ended' = ended \union {f} /\ raced \subseteq raced'
      /\ \A q \in Requests : /\ request[q].pc = "live" /\ request[q].kind = "refresh"
                             /\ token[request[q].tok].family = f
                            => f \in raced'
  BY DEF End
<1>5. /\ \A q \in Requests : request[q].pc \in {"live", "dead"} => request[q].tok \in Issued
      /\ Issued \subseteq Tokens /\ LiveTokens \subseteq Issued
  BY <1>1 DEF SessInv, EndInv, TypeInv, IssuedInv, Issued, LiveTokens
<1>6. \A u \in LiveTokens' : u \in LiveTokens /\ token[u].family # f
  BY <1>2, <1>5 DEF Family
<1>7. ended' \subseteq Issued'
  BY <1>2, <1>4 DEF SessInv, EndInv
<1>8. \A q \in Requests : request'[q].pc \in {"live", "dead"} => request'[q].tok # NoToken
  BY <1>3 DEF SessInv, EndInv
<1>9. ASSUME NEW q \in Requests, request'[q].kind = "refresh", request'[q].pc = "live",
             token'[request'[q].tok].family \in ended'
      PROVE  token'[request'[q].tok].family \in raced'
  <2>1. /\ request'[q] = request[q] /\ request[q].tok \in Tokens
        /\ token'[request'[q].tok].family = token[request[q].tok].family
    BY <1>2, <1>3, <1>5, <1>9
  <2>. QED  BY <1>4, <1>9, <2>1 DEF SessInv, EndInv
<1>10. ASSUME NEW u \in LiveTokens', token'[u].family \in ended'
       PROVE  token'[u].family \in raced'
  BY <1>2, <1>4, <1>5, <1>6, <1>10 DEF SessInv, EndInv
<1>. QED  BY <1>7, <1>8, <1>9, <1>10 DEF EndInv

\* Every step notes the sessions refreshed after their end.
LEMMA EndKept == SessInv /\ [SessionsNext]_sessionsVars => EndInv'
<1>. SUFFICES ASSUME SessInv, [SessionsNext]_sessionsVars PROVE EndInv'
  OBVIOUS
<1>1. ASSUME NEW t \in Tabs, Reload(t) PROVE EndInv'
  BY <1>1, SessionsAssumption
  DEF Reload, sessionsHistory, SessInv, EndInv, TypeInv, ShapeInv, IssuedInv, Token,
      SessionRequest, Issued, Family, LiveTokens
<1>2. ASSUME NEW t \in Tabs, AccessExpires(t) PROVE EndInv'
  BY <1>2, SessionsAssumption
  DEF AccessExpires, sessionsHistory, SessInv, EndInv, TypeInv, ShapeInv, IssuedInv,
      Token, SessionRequest, Issued, Family, LiveTokens
<1>3. ASSUME NEW t \in Tabs, ChangePassword(t) PROVE EndInv'
  <2>1. TypeInv /\ token' = Revoked(Issued) /\ request' = request
    BY <1>3 DEF SessInv, ChangePassword
  <2>2. /\ \A u \in Tokens : token'[u].family = token[u].family
        /\ LiveTokens' = LiveTokens \ Issued /\ Issued' = Issued
    BY <2>1, RevokedEffect
  <2>3. LiveTokens' = {}
    BY <2>2 DEF LiveTokens
  <2>4. ended' = ended \union {token[u].family : u \in Issued}
    BY <1>3 DEF ChangePassword
  <2>5. \A q \in Requests : request[q].pc = "live" /\ request[q].kind = "refresh" =>
          token[request[q].tok].family \in raced'
    BY <1>3 DEF ChangePassword
  <2>6. ended' \subseteq Issued'
    BY <2>1, <2>2, <2>4 DEF SessInv, EndInv, TypeInv, IssuedInv
  <2>7. \A q \in Requests : request[q].pc \in {"live", "dead"} =>
          request[q].tok # NoToken /\ request[q].tok \in Tokens
    BY <2>1 DEF SessInv, EndInv, TypeInv, IssuedInv, Issued
  <2>. QED  BY <2>1, <2>2, <2>3, <2>5, <2>6, <2>7 DEF EndInv
<1>4. ASSUME NEW t \in Tabs, NEW f \in Tokens, RevokeSession(t, f) PROVE EndInv'
  BY <1>4, SessionsAssumption
  DEF RevokeSession, sessionsHistory, Revoked, End, SessInv, EndInv, TypeInv, ShapeInv,
      IssuedInv, Token, SessionRequest, Issued, Family, LiveTokens
<1>5. ASSUME NEW t \in Tokens, TokenExpires(t) PROVE EndInv'
  BY <1>5, SessionsAssumption
  DEF TokenExpires, sessionsHistory, SessInv, EndInv, TypeInv, ShapeInv, IssuedInv,
      Token, SessionRequest, Issued, Family, LiveTokens
<1>6. ASSUME NEW r \in Requests, NEW t \in Tabs, SendLogin(r, t) PROVE EndInv'
  BY <1>6, SessionsAssumption
  DEF SendLogin, sessionsHistory, Send, Jar, InFlight, FreeRequest, SessInv, EndInv,
      TypeInv, ShapeInv, IssuedInv, Token, SessionRequest, Issued, Family, LiveTokens
<1>7. ASSUME NEW r \in Requests, NEW t \in Tabs, SendRefresh(r, t) PROVE EndInv'
  BY <1>7, SessionsAssumption
  DEF SendRefresh, sessionsHistory, Send, Jar, InFlight, FreeRequest, Beside, FamilyOf,
      SessInv, EndInv, TypeInv, ShapeInv, IssuedInv, Token, SessionRequest, Issued,
      Family, LiveTokens
<1>8. ASSUME NEW r \in Requests, NEW t \in Tabs, SendLogout(r, t) PROVE EndInv'
  BY <1>8, SessionsAssumption
  DEF SendLogout, sessionsHistory, Send, Jar, InFlight, FreeRequest, SessInv, EndInv,
      TypeInv, ShapeInv, IssuedInv, Token, SessionRequest, Issued, Family, LiveTokens
<1>9. ASSUME NEW r \in Requests, RefuseMissing(r) PROVE EndInv'
  BY <1>9, SessionsAssumption
  DEF RefuseMissing, sessionsHistory, Refuse, SessInv, EndInv, TypeInv, ShapeInv,
      IssuedInv, Token, SessionRequest, Issued, Family, LiveTokens
<1>10. ASSUME NEW r \in Requests, RefreshLookup(r) PROVE EndInv'
  BY <1>10, SessionsAssumption
  DEF RefreshLookup, sessionsHistory, Spent, FamilyOf, SessInv, EndInv, TypeInv,
      ShapeInv, IssuedInv, Token, SessionRequest, Issued, Family, LiveTokens
<1>11. ASSUME NEW r \in Requests, RefreshReuse(r) PROVE EndInv'
  <2>1. /\ request[r].pc # "free" /\ token[request[r].tok].family \in Issued
        /\ token' = Revoked(Family(token[request[r].tok].family))
        /\ End(token[request[r].tok].family) /\ Refuse(r)
    BY <1>11 DEF SessInv, EndInv, RefreshReuse, TypeInv, IssuedInv
  <2>. QED  BY <2>1, EndEffect
<1>12. ASSUME NEW r \in Requests, RefreshExpired(r) PROVE EndInv'
  BY <1>12, SessionsAssumption
  DEF RefreshExpired, sessionsHistory, Refuse, SessInv, EndInv, TypeInv, ShapeInv,
      IssuedInv, Token, SessionRequest, Issued, Family, LiveTokens
<1>13. ASSUME NEW r \in Requests, Logout(r) PROVE EndInv'
  <2>1. /\ request[r].pc # "free" /\ token[request[r].tok].family \in Issued
        /\ token' = Revoked(Family(token[request[r].tok].family))
        /\ End(token[request[r].tok].family) /\ Refuse(r)
    BY <1>13 DEF SessInv, Logout, SignedOut, TypeInv, IssuedInv
  <2>. QED  BY <2>1, EndEffect
<1>14. ASSUME NEW r \in Requests, Answer(r) PROVE EndInv'
  BY <1>14, SessionsAssumption
  DEF Answer, sessionsHistory, FreeRequest, SessInv, EndInv, TypeInv, ShapeInv,
      IssuedInv, Token, SessionRequest, Issued, Family, LiveTokens
<1>15. ASSUME NEW r \in Requests, LoseAnswer(r) PROVE EndInv'
  BY <1>15, SessionsAssumption
  DEF LoseAnswer, sessionsHistory, FreeRequest, FamilyOf, SessInv, EndInv, TypeInv,
      ShapeInv, IssuedInv, Token, SessionRequest, Issued, Family, LiveTokens
<1>16. ASSUME NEW r \in Requests, NEW n \in Tokens, Login(r, n) PROVE EndInv'
  BY <1>16, SessionsAssumption
  DEF Login, sessionsHistory, IssueTo, Fresh, SessInv, EndInv, TypeInv, ShapeInv,
      IssuedInv, Token, SessionRequest, Issued, Family, LiveTokens
<1>17. ASSUME NEW r \in Requests, NEW n \in Tokens, RefreshRotate(r, n) PROVE EndInv'
  <2>. DEFINE t == request[r].tok
  <2>1. TypeInv /\ t \in Issued /\ request[r].kind = "refresh" /\ request[r].pc = "live"
    BY <1>17 DEF SessInv, EndInv, TypeInv, IssuedInv, RefreshRotate
  <2>2. /\ Issued' = Issued \union {n} /\ n \notin Issued
        /\ LiveTokens' = (LiveTokens \ {t}) \union {n}
        /\ token'[n].family = token[t].family
        /\ \A u \in Tokens : u # n => token'[u].family = token[u].family
        /\ \A q \in Requests : q # r => request'[q] = request[q]
        /\ request'[r].pc = "answered"
    BY <1>17, <2>1, RotateEffect
  <2>3. ended' = ended /\ raced' = raced
    BY <1>17 DEF RefreshRotate, sessionsHistory
  <2>4. /\ \A q \in Requests : request[q].pc \in {"live", "dead"} =>
             request[q].tok \in Issued /\ request[q].tok \in Tokens /\ request[q].tok # NoToken
        /\ LiveTokens \subseteq Issued /\ LiveTokens \subseteq Tokens
    BY <2>1 DEF SessInv, EndInv, TypeInv, IssuedInv, Issued, LiveTokens
  <2>5. \A q \in Requests : request'[q].pc \in {"live", "dead"} =>
          /\ request'[q] = request[q]
          /\ token'[request'[q].tok].family = token[request[q].tok].family
    BY <2>2, <2>4
  <2>6. \A u \in LiveTokens' \ {n} : u \in LiveTokens /\ token'[u].family = token[u].family
    BY <2>2, <2>4
  <2>7. token'[n].family \in ended => token'[n].family \in raced
    BY <2>1, <2>2 DEF SessInv, EndInv
  <2>8. ended' \subseteq Issued'
    BY <2>2, <2>3 DEF SessInv, EndInv
  <2>9. \A u \in LiveTokens' : token'[u].family \in ended' => token'[u].family \in raced'
    BY <2>3, <2>6, <2>7 DEF SessInv, EndInv
  <2>10. \A q \in Requests : request'[q].kind = "refresh" /\ request'[q].pc = "live" =>
           (token'[request'[q].tok].family \in ended' => token'[request'[q].tok].family \in raced')
    BY <2>3, <2>5 DEF SessInv, EndInv
  <2>. QED  BY <2>4, <2>5, <2>8, <2>9, <2>10 DEF EndInv
<1>18. CASE UNCHANGED sessionsVars
  BY <1>18
  DEF sessionsVars, sessionsHistory, SessInv, EndInv, TypeInv, ShapeInv, IssuedInv,
      Token, SessionRequest, Issued, Family, LiveTokens
<1>. QED
  BY <1>1, <1>2, <1>3, <1>4, <1>5, <1>6, <1>7, <1>8, <1>9, <1>10, <1>11, <1>12, <1>13,
     <1>14, <1>15, <1>16, <1>17, <1>18
  DEF SessionsNext

\* Revoking a family takes tokens and refreshes away, and brings none.
LEMMA ChainEffect ==
  ASSUME SessInv, NEW r \in Requests, request[r].pc # "free", NEW ts,
         token' = Revoked(ts), Refuse(r), forked' = forked
  PROVE  ChainInv'
<1>1. TypeInv
  BY DEF SessInv
<1>2. /\ \A t \in Tokens : token'[t].family = token[t].family
      /\ LiveTokens' \subseteq LiveTokens
  BY <1>1, RevokedEffect
<1>3. \A q \in Requests : request'[q].kind = "refresh" /\ request'[q].pc = "live" =>
        request'[q] = request[q]
  BY <1>1, RefuseEffect
<1>4. LiveTokens \subseteq Tokens
  BY DEF LiveTokens, Issued
<1>5. \A q \in Requests : request[q].pc = "live" => request[q].tok \in Tokens
  BY <1>1 DEF SessInv, EndInv, TypeInv, IssuedInv, Issued
<1>6. \A q \in Requests : request'[q].kind = "refresh" /\ request'[q].pc = "live" =>
        token'[request'[q].tok].family = token[request[q].tok].family
  BY <1>2, <1>3, <1>5
<1>7. \A t, u \in LiveTokens' :
        token'[t].family = token'[u].family /\ token'[t].family \notin forked' => t = u
  BY <1>2, <1>4 DEF SessInv, ChainInv
<1>8. \A q \in Requests, t \in LiveTokens' :
        /\ request'[q].kind = "refresh" /\ request'[q].pc = "live"
        /\ token'[request'[q].tok].family = token'[t].family /\ token'[t].family \notin forked'
        => t = request'[q].tok
  BY <1>2, <1>3, <1>4, <1>6 DEF SessInv, ChainInv
<1>9. \A q, p \in Requests :
        /\ request'[q].kind = "refresh" /\ request'[q].pc = "live"
        /\ request'[p].kind = "refresh" /\ request'[p].pc = "live"
        /\ token'[request'[q].tok].family = token'[request'[p].tok].family
        /\ token'[request'[q].tok].family \notin forked'
        => q = p
  BY <1>3, <1>6 DEF SessInv, ChainInv
<1>. QED  BY <1>7, <1>8, <1>9 DEF ChainInv

\* Every step keeps the tokens of a session in one chain.
LEMMA ChainKept == SessInv /\ [SessionsNext]_sessionsVars => ChainInv'
<1>. SUFFICES ASSUME SessInv, [SessionsNext]_sessionsVars PROVE ChainInv'
  OBVIOUS
<1>1. ASSUME NEW t \in Tabs, Reload(t) PROVE ChainInv'
  BY <1>1, SessionsAssumption
  DEF Reload, sessionsHistory, SessInv, ChainInv, TypeInv, ShapeInv, IssuedInv, Token,
      SessionRequest, EndInv, Issued, Family, LiveTokens
<1>2. ASSUME NEW t \in Tabs, AccessExpires(t) PROVE ChainInv'
  BY <1>2, SessionsAssumption
  DEF AccessExpires, sessionsHistory, SessInv, ChainInv, TypeInv, ShapeInv, IssuedInv,
      Token, SessionRequest, EndInv, Issued, Family, LiveTokens
<1>3. ASSUME NEW t \in Tabs, ChangePassword(t) PROVE ChainInv'
  BY <1>3, SessionsAssumption
  DEF ChangePassword, sessionsHistory, Revoked, SessInv, ChainInv, TypeInv, ShapeInv,
      IssuedInv, Token, SessionRequest, EndInv, Issued, Family, LiveTokens
<1>4. ASSUME NEW t \in Tabs, NEW f \in Tokens, RevokeSession(t, f) PROVE ChainInv'
  BY <1>4, SessionsAssumption
  DEF RevokeSession, sessionsHistory, Revoked, End, SessInv, ChainInv, TypeInv,
      ShapeInv, IssuedInv, Token, SessionRequest, EndInv, Issued, Family, LiveTokens
<1>5. ASSUME NEW t \in Tokens, TokenExpires(t) PROVE ChainInv'
  BY <1>5, SessionsAssumption
  DEF TokenExpires, sessionsHistory, SessInv, ChainInv, TypeInv, ShapeInv, IssuedInv,
      Token, SessionRequest, EndInv, Issued, Family, LiveTokens
<1>6. ASSUME NEW r \in Requests, NEW t \in Tabs, SendLogin(r, t) PROVE ChainInv'
  BY <1>6, SessionsAssumption
  DEF SendLogin, sessionsHistory, Send, Jar, InFlight, FreeRequest, SessInv, ChainInv,
      TypeInv, ShapeInv, IssuedInv, Token, SessionRequest, EndInv, Issued, Family,
      LiveTokens
<1>7. ASSUME NEW r \in Requests, NEW t \in Tabs, SendRefresh(r, t) PROVE ChainInv'
  BY <1>7, SessionsAssumption
  DEF SendRefresh, sessionsHistory, Send, Jar, InFlight, FreeRequest, Beside, FamilyOf,
      SessInv, ChainInv, TypeInv, ShapeInv, IssuedInv, Token, SessionRequest, EndInv,
      Issued, Family, LiveTokens
<1>8. ASSUME NEW r \in Requests, NEW t \in Tabs, SendLogout(r, t) PROVE ChainInv'
  BY <1>8, SessionsAssumption
  DEF SendLogout, sessionsHistory, Send, Jar, InFlight, FreeRequest, SessInv, ChainInv,
      TypeInv, ShapeInv, IssuedInv, Token, SessionRequest, EndInv, Issued, Family,
      LiveTokens
<1>9. ASSUME NEW r \in Requests, RefuseMissing(r) PROVE ChainInv'
  BY <1>9, SessionsAssumption
  DEF RefuseMissing, sessionsHistory, Refuse, SessInv, ChainInv, TypeInv, ShapeInv,
      IssuedInv, Token, SessionRequest, EndInv, Issued, Family, LiveTokens
<1>10. ASSUME NEW r \in Requests, RefreshLookup(r) PROVE ChainInv'
  <2>. DEFINE t == request[r].tok
  <2>1. /\ request[r].kind = "refresh" /\ request[r].pc = "sent" /\ t # NoToken
        /\ token' = token /\ forked \subseteq forked'
    BY <1>10 DEF RefreshLookup
  <2>2. /\ \A q \in Requests : q # r => request'[q] = request[q]
        /\ request'[r].kind = "refresh" /\ request'[r].tok = t
        /\ request'[r].pc = "live" => t \in LiveTokens
    BY <1>10 DEF RefreshLookup, Spent, SessInv, TypeInv, ShapeInv, SessionRequest
  <2>3. LiveTokens' = LiveTokens
    BY <2>1 DEF LiveTokens, Issued
  <2>4. ASSUME t \in LiveTokens, NEW q \in Requests, request[q].kind = "refresh",
               request[q].pc = "live", request[q].tok = t
        PROVE  token[t].family \in forked'
    BY <1>10, <2>1, <2>4 DEF RefreshLookup, Spent, FamilyOf
  <2>5. ASSUME NEW q \in Requests, q # r, request'[q].kind = "refresh", request'[q].pc = "live",
               request'[r].pc = "live", token[request[q].tok].family = token[t].family
        PROVE  token[t].family \in forked'
    <3>1. t \in LiveTokens /\ request[q].kind = "refresh" /\ request[q].pc = "live"
      BY <2>2, <2>5
    <3>2. token[t].family \notin forked => request[q].tok = t
      BY <3>1, <2>5 DEF SessInv, ChainInv
    <3>. QED  BY <2>1, <2>4, <3>1, <3>2
  <2>6. \A u, v \in LiveTokens' :
          token'[u].family = token'[v].family /\ token'[u].family \notin forked' => u = v
    BY <2>1, <2>3 DEF SessInv, ChainInv
  <2>7. ASSUME NEW q \in Requests, NEW u \in LiveTokens', request'[q].kind = "refresh",
               request'[q].pc = "live", token'[request'[q].tok].family = token'[u].family,
               token'[u].family \notin forked'
        PROVE  u = request'[q].tok
    <3>1. CASE q = r
      BY <2>1, <2>2, <2>3, <2>7, <3>1 DEF SessInv, ChainInv
    <3>2. CASE q # r
      BY <2>1, <2>2, <2>3, <2>7, <3>2 DEF SessInv, ChainInv
    <3>. QED  BY <3>1, <3>2
  <2>8. ASSUME NEW q \in Requests, NEW p \in Requests,
               request'[q].kind = "refresh", request'[q].pc = "live",
               request'[p].kind = "refresh", request'[p].pc = "live",
               token'[request'[q].tok].family = token'[request'[p].tok].family,
               token'[request'[q].tok].family \notin forked'
        PROVE  q = p
    <3>1. CASE q # r /\ p # r
      BY <2>1, <2>2, <2>8, <3>1 DEF SessInv, ChainInv
    <3>2. CASE q = r /\ p # r
      BY <2>1, <2>2, <2>5, <2>8, <3>2
    <3>3. CASE q # r /\ p = r
      BY <2>1, <2>2, <2>5, <2>8, <3>3
    <3>. QED  BY <3>1, <3>2, <3>3
  <2>. QED  BY <2>6, <2>7, <2>8 DEF ChainInv
<1>11. ASSUME NEW r \in Requests, RefreshReuse(r) PROVE ChainInv'
  <2>1. /\ request[r].pc # "free" /\ Refuse(r) /\ forked' = forked
        /\ token' = Revoked(Family(token[request[r].tok].family))
    BY <1>11 DEF RefreshReuse
  <2>. QED  BY <2>1, ChainEffect
<1>12. ASSUME NEW r \in Requests, RefreshExpired(r) PROVE ChainInv'
  BY <1>12, SessionsAssumption
  DEF RefreshExpired, sessionsHistory, Refuse, SessInv, ChainInv, TypeInv, ShapeInv,
      IssuedInv, Token, SessionRequest, EndInv, Issued, Family, LiveTokens
<1>13. ASSUME NEW r \in Requests, Logout(r) PROVE ChainInv'
  <2>1. /\ request[r].pc # "free" /\ Refuse(r) /\ forked' = forked
        /\ token' = Revoked(Family(token[request[r].tok].family))
    BY <1>13 DEF Logout, SignedOut
  <2>. QED  BY <2>1, ChainEffect
<1>14. ASSUME NEW r \in Requests, Answer(r) PROVE ChainInv'
  BY <1>14, SessionsAssumption
  DEF Answer, sessionsHistory, FreeRequest, SessInv, ChainInv, TypeInv, ShapeInv,
      IssuedInv, Token, SessionRequest, EndInv, Issued, Family, LiveTokens
<1>15. ASSUME NEW r \in Requests, LoseAnswer(r) PROVE ChainInv'
  BY <1>15, SessionsAssumption
  DEF LoseAnswer, sessionsHistory, FreeRequest, FamilyOf, SessInv, ChainInv, TypeInv,
      ShapeInv, IssuedInv, Token, SessionRequest, EndInv, Issued, Family, LiveTokens
<1>16. ASSUME NEW r \in Requests, NEW n \in Tokens, Login(r, n) PROVE ChainInv'
  BY <1>16, SessionsAssumption
  DEF Login, sessionsHistory, IssueTo, Fresh, SessInv, ChainInv, TypeInv, ShapeInv,
      IssuedInv, Token, SessionRequest, EndInv, Issued, Family, LiveTokens
<1>17. ASSUME NEW r \in Requests, NEW n \in Tokens, RefreshRotate(r, n) PROVE ChainInv'
  <2>. DEFINE t == request[r].tok
  <2>1. TypeInv /\ t \in Issued
    BY <1>17 DEF SessInv, EndInv, TypeInv, ShapeInv, IssuedInv, RefreshRotate
  <2>2. /\ token' \in [Tokens -> Token]
        /\ n \notin Issued /\ n # t
        /\ Issued' = Issued \union {n}
        /\ LiveTokens' = (LiveTokens \ {t}) \union {n}
        /\ token'[n].family = token[t].family /\ token'[n].state = "live"
        /\ \A u \in Tokens : u # n => token'[u].family = token[u].family
        /\ \A u \in Tokens : u # n =>
               (token'[u].state = "unissued" <=> token[u].state = "unissued")
        /\ request' \in [Requests -> SessionRequest]
        /\ \A q \in Requests : q # r => request'[q] = request[q]
        /\ request'[r].pc = "answered" /\ request'[r].new = n
        /\ request'[r].kind = request[r].kind /\ request'[r].tok = request[r].tok
        /\ request'[r].tab = request[r].tab
    BY <1>17, <2>1, RotateEffect
  <2>3. /\ UNCHANGED <<jar, tab, ended, raced, forked, accused, crossed, lost>>
        /\ request[r].kind = "refresh" /\ request[r].pc = "live"
    BY <1>17 DEF RefreshRotate, sessionsHistory
  <2>4. \A u \in LiveTokens' : u \in Issued'
    BY <2>2 DEF LiveTokens
  <2>5. \A q \in Requests : /\ request'[q].kind = "refresh" /\ request'[q].pc = "live"
                           => /\ q # r /\ request[q] = request'[q]
                              /\ request[q].tok \in Issued /\ request[q].tok # n
                              /\ token'[request[q].tok].family = token[request[q].tok].family
    BY <2>1, <2>2 DEF SessInv, EndInv, TypeInv, ShapeInv, IssuedInv, Issued
  <2>6. t \in Tokens /\ LiveTokens \subseteq Tokens /\ n \notin LiveTokens
    BY <2>1, <2>2 DEF Issued, LiveTokens
  <2>7. \A u, w \in LiveTokens' :
          token'[u].family = token'[w].family /\ token'[u].family \notin forked' => u = w
    BY <2>2, <2>3, <2>6 DEF SessInv, ChainInv
  <2>8. \A q \in Requests, u \in LiveTokens' :
          /\ request'[q].kind = "refresh" /\ request'[q].pc = "live"
          /\ token'[request'[q].tok].family = token'[u].family /\ token'[u].family \notin forked'
          => u = request'[q].tok
    BY <2>2, <2>3, <2>5, <2>6 DEF SessInv, ChainInv
  <2>9. \A p, q \in Requests :
          /\ request'[p].kind = "refresh" /\ request'[p].pc = "live"
          /\ request'[q].kind = "refresh" /\ request'[q].pc = "live"
          /\ token'[request'[p].tok].family = token'[request'[q].tok].family
          /\ token'[request'[p].tok].family \notin forked'
          => p = q
    BY <2>2, <2>3, <2>5 DEF SessInv, ChainInv
  <2>. QED  BY <2>7, <2>8, <2>9 DEF ChainInv
<1>18. CASE UNCHANGED sessionsVars
  BY <1>18
  DEF sessionsVars, sessionsHistory, SessInv, ChainInv, TypeInv, ShapeInv, IssuedInv,
      Token, SessionRequest, EndInv, Issued, Family, LiveTokens
<1>. QED
  BY <1>1, <1>2, <1>3, <1>4, <1>5, <1>6, <1>7, <1>8, <1>9, <1>10, <1>11, <1>12, <1>13,
     <1>14, <1>15, <1>16, <1>17, <1>18
  DEF SessionsNext

\* Every step keeps the quiet sessions refreshed by one request at a time.
LEMMA ReuseKept == SessInv /\ [SessionsNext]_sessionsVars => ReuseInv'
<1>. SUFFICES ASSUME SessInv, [SessionsNext]_sessionsVars PROVE ReuseInv'
  OBVIOUS
<1>1. ASSUME NEW t \in Tabs, Reload(t) PROVE ReuseInv'
  BY <1>1, SessionsAssumption
  DEF Reload, sessionsHistory, SessInv, ReuseInv, QuietRequests, QuietAnswers,
      QuietJars, Quiet, Refreshes, TypeInv, ShapeInv, IssuedInv, Token, SessionRequest,
      HolderInv, EndInv, Issued, Family, LiveTokens
<1>2. ASSUME NEW t \in Tabs, AccessExpires(t) PROVE ReuseInv'
  BY <1>2, SessionsAssumption
  DEF AccessExpires, sessionsHistory, SessInv, ReuseInv, QuietRequests, QuietAnswers,
      QuietJars, Quiet, Refreshes, TypeInv, ShapeInv, IssuedInv, Token, SessionRequest,
      HolderInv, EndInv, Issued, Family, LiveTokens
<1>3. ASSUME NEW t \in Tabs, ChangePassword(t) PROVE ReuseInv'
  <2>1. TypeInv
    BY DEF SessInv
  <2>2. token' = Revoked(Issued)
    BY <1>3 DEF ChangePassword
  <2>3. /\ \A u \in Tokens : token'[u].family = token[u].family
        /\ Issued' = Issued /\ LiveTokens' \subseteq LiveTokens
    BY <2>1, <2>2, RevokedEffect
  <2>4. \A u \in Issued : Quiet(u)' => Quiet(u) /\ (u \in LiveTokens => u \in LiveTokens')
    BY <1>3, <2>1, <2>2, <2>3, RevokedEffect
    DEF ChangePassword, End, Quiet, Family, Issued
  <2>5. /\ UNCHANGED <<jar, request, accused, crossed>>
    BY <1>3 DEF ChangePassword
  <2>6. \A q \in Requests : /\ request[q].tok # NoToken => request[q].tok \in Issued
                            /\ request[q].new # NoToken => request[q].new \in Issued
    BY <2>1 DEF TypeInv, ShapeInv, IssuedInv
  <2>7. \A b \in Browsers : jar[b] # NoToken => jar[b] \in Issued
    BY <2>1 DEF TypeInv, ShapeInv, IssuedInv
  <2>. QED  BY <2>3, <2>4, <2>5, <2>6, <2>7
  DEF SessInv, ReuseInv, QuietRequests, QuietAnswers, QuietJars, Refreshes, Quiet,
      Issued
<1>4. ASSUME NEW t \in Tabs, NEW f \in Tokens, RevokeSession(t, f) PROVE ReuseInv'
  <2>1. TypeInv
    BY DEF SessInv
  <2>2. token' = Revoked(Family(f))
    BY <1>4 DEF RevokeSession
  <2>3. /\ \A u \in Tokens : token'[u].family = token[u].family
        /\ Issued' = Issued /\ LiveTokens' \subseteq LiveTokens
    BY <2>1, <2>2, RevokedEffect
  <2>4. \A u \in Issued : Quiet(u)' => Quiet(u) /\ (u \in LiveTokens => u \in LiveTokens')
    BY <1>4, <2>1, <2>2, <2>3, RevokedEffect
    DEF RevokeSession, End, Quiet, Family, Issued
  <2>5. /\ UNCHANGED <<jar, request, accused, crossed>>
    BY <1>4 DEF RevokeSession
  <2>6. \A q \in Requests : /\ request[q].tok # NoToken => request[q].tok \in Issued
                            /\ request[q].new # NoToken => request[q].new \in Issued
    BY <2>1 DEF TypeInv, ShapeInv, IssuedInv
  <2>7. \A b \in Browsers : jar[b] # NoToken => jar[b] \in Issued
    BY <2>1 DEF TypeInv, ShapeInv, IssuedInv
  <2>. QED  BY <2>3, <2>4, <2>5, <2>6, <2>7
  DEF SessInv, ReuseInv, QuietRequests, QuietAnswers, QuietJars, Refreshes, Quiet,
      Issued
<1>5. ASSUME NEW t \in Tokens, TokenExpires(t) PROVE ReuseInv'
  BY <1>5, SessionsAssumption
  DEF TokenExpires, sessionsHistory, SessInv, ReuseInv, QuietRequests, QuietAnswers,
      QuietJars, Quiet, Refreshes, TypeInv, ShapeInv, IssuedInv, Token, SessionRequest,
      HolderInv, EndInv, Issued, Family, LiveTokens
<1>6. ASSUME NEW r \in Requests, NEW t \in Tabs, SendLogin(r, t) PROVE ReuseInv'
  <2>1. TypeInv /\ Send(r, t, "login")
    BY <1>6 DEF SessInv, SendLogin
  <2>2. /\ \A q \in Requests : q # r => request'[q] = request[q]
        /\ request[r] = FreeRequest
        /\ request'[r].kind = "login" /\ request'[r].new = NoToken
    BY <2>1, SendEffect DEF Send
  <2>3. UNCHANGED <<token, jar, ended, accused, crossed>>
    BY <1>6 DEF SendLogin, sessionsHistory
  <2>4. LiveTokens' = LiveTokens
    BY <2>3 DEF LiveTokens, Issued
  <2>5. request[r].pc = "free"
    BY <2>2 DEF FreeRequest
  <2>6. QuietRequests'
    BY <2>2, <2>3, <2>4 DEF SessInv, ReuseInv, QuietRequests, Refreshes, Quiet
  <2>7. QuietAnswers'
    BY <2>2, <2>3, <2>4 DEF SessInv, ReuseInv, QuietAnswers, Quiet
  <2>8. QuietJars'
    BY <2>2, <2>3, <2>4, <2>5 DEF SessInv, ReuseInv, QuietJars, Refreshes, Quiet
  <2>. QED  BY <2>3, <2>6, <2>7, <2>8 DEF SessInv, ReuseInv
<1>7. ASSUME NEW r \in Requests, NEW t \in Tabs, SendRefresh(r, t) PROVE ReuseInv'
  <2>. DEFINE c == jar[JarOf[t]]
  <2>1. TypeInv /\ Send(r, t, "refresh") /\ ~InFlight(t, "refresh")
    BY <1>7 DEF SessInv, SendRefresh
  <2>2. /\ \A q \in Requests : q # r => request'[q] = request[q]
        /\ request[r] = FreeRequest
        /\ request'[r].pc = "sent" /\ request'[r].kind = "refresh"
        /\ request'[r].tok = c /\ request'[r].new = NoToken
    BY <2>1, SendEffect
  <2>3. /\ UNCHANGED <<token, jar, ended, accused>> /\ crossed \subseteq crossed'
        /\ Beside(t) /\ c # NoToken => token[c].family \in crossed'
    BY <1>7 DEF SendRefresh, Jar, FamilyOf
  <2>4. LiveTokens' = LiveTokens
    BY <2>3 DEF LiveTokens, Issued
  <2>5. request[r].pc = "free" /\ request[r].kind = "none"
    BY <2>2 DEF FreeRequest
  <2>7. ASSUME c # NoToken, Quiet(c)', NEW q \in Requests, Refreshes(q), request[q].tok = c
        PROVE  FALSE
    <3>1. request[q].tab # t
      BY <2>1, <2>7 DEF InFlight, Refreshes
    <3>2. Beside(t)
      BY <2>7, <3>1 DEF Beside, Jar, Refreshes
    <3>. QED  BY <2>3, <2>7, <3>2 DEF Quiet
  <2>8. c # NoToken /\ Quiet(c)' => c \in LiveTokens
    <3>1. JarOf[t] \in Browsers
      BY SessionsAssumption
    <3>2. Quiet(c)' => Quiet(c)
      BY <2>3 DEF Quiet
    <3>. QED  BY <2>7, <3>1, <3>2 DEF SessInv, ReuseInv, QuietJars
  <2>9. \A q \in Requests : q # r => Refreshes(q)' = Refreshes(q)
    BY <2>2 DEF Refreshes
  <2>10. QuietRequests'
    <3>. SUFFICES ASSUME NEW q \in Requests, Refreshes(q)', Quiet(request[q].tok)'
                  PROVE  /\ request'[q].pc \in {"sent", "live"} => request'[q].tok \in LiveTokens'
                         /\ request'[q].pc # "dead"
                         /\ \A p \in Requests : Refreshes(p)' /\ request'[p].tok = request'[q].tok
                                                => p = q
      BY DEF QuietRequests
    <3>1. CASE q = r
      <4>1. c # NoToken /\ Quiet(c)'
        BY <2>2, <2>3, <3>1 DEF Refreshes, Quiet
      <4>. QED  BY <2>2, <2>4, <2>7, <2>8, <2>9, <3>1, <4>1
    <3>2. CASE q # r
      <4>1. Refreshes(q) /\ Quiet(request[q].tok) /\ request'[q] = request[q]
        BY <2>2, <2>3, <2>9, <3>2 DEF Quiet
      <4>2. request[q].tok # c
        <5>1. request[q].tok # NoToken
          BY <4>1 DEF Refreshes
        <5>2. Quiet(request[q].tok)' => token[request[q].tok].family \notin crossed'
          BY <2>3, <4>1 DEF Quiet
        <5>. QED  BY <2>3, <2>7, <3>2, <4>1, <5>1, <5>2 DEF Quiet
      <4>. QED  BY <2>2, <2>4, <2>9, <4>1, <4>2 DEF SessInv, ReuseInv, QuietRequests
    <3>. QED  BY <3>1, <3>2
  <2>11. QuietAnswers'
    BY <2>2, <2>3, <2>4 DEF SessInv, ReuseInv, QuietAnswers, Quiet
  <2>12. QuietJars'
    BY <2>2, <2>3, <2>4, <2>5, <2>9 DEF SessInv, ReuseInv, QuietJars, Quiet
  <2>. QED  BY <2>3, <2>10, <2>11, <2>12 DEF SessInv, ReuseInv
<1>8. ASSUME NEW r \in Requests, NEW t \in Tabs, SendLogout(r, t) PROVE ReuseInv'
  <2>1. TypeInv /\ Send(r, t, "logout")
    BY <1>8 DEF SessInv, SendLogout
  <2>2. /\ \A q \in Requests : q # r => request'[q] = request[q]
        /\ request[r] = FreeRequest
        /\ request'[r].kind = "logout" /\ request'[r].new = NoToken
    BY <2>1, SendEffect DEF Send
  <2>3. UNCHANGED <<token, jar, ended, accused, crossed>>
    BY <1>8 DEF SendLogout, sessionsHistory
  <2>4. LiveTokens' = LiveTokens
    BY <2>3 DEF LiveTokens, Issued
  <2>5. request[r].pc = "free"
    BY <2>2 DEF FreeRequest
  <2>6. QuietRequests'
    BY <2>2, <2>3, <2>4 DEF SessInv, ReuseInv, QuietRequests, Refreshes, Quiet
  <2>7. QuietAnswers'
    BY <2>2, <2>3, <2>4 DEF SessInv, ReuseInv, QuietAnswers, Quiet
  <2>8. QuietJars'
    BY <2>2, <2>3, <2>4, <2>5 DEF SessInv, ReuseInv, QuietJars, Refreshes, Quiet
  <2>. QED  BY <2>3, <2>6, <2>7, <2>8 DEF SessInv, ReuseInv
<1>9. ASSUME NEW r \in Requests, RefuseMissing(r) PROVE ReuseInv'
  <2>1. TypeInv /\ request[r].pc \in {"sent", "live"} /\ Refuse(r)
    BY <1>9 DEF SessInv, RefuseMissing
  <2>2. /\ \A q \in Requests : q # r => request'[q] = request[q]
        /\ request'[r].pc = "answered" /\ request'[r].new = NoToken
        /\ request'[r].kind = request[r].kind /\ request'[r].tok = request[r].tok
    BY <2>1, RefuseEffect
  <2>3. UNCHANGED <<token, jar, ended, accused, crossed>>
    BY <1>9 DEF RefuseMissing, sessionsHistory
  <2>4. LiveTokens' = LiveTokens
    BY <2>3 DEF LiveTokens, Issued
  <2>5. QuietRequests'
    BY <2>1, <2>2, <2>3, <2>4 DEF SessInv, ReuseInv, QuietRequests, Refreshes, Quiet
  <2>6. QuietAnswers'
    BY <2>2, <2>3, <2>4 DEF SessInv, ReuseInv, QuietAnswers, Quiet
  <2>7. QuietJars'
    BY <2>1, <2>2, <2>3, <2>4 DEF SessInv, ReuseInv, QuietJars, Refreshes, Quiet
  <2>. QED  BY <2>3, <2>5, <2>6, <2>7 DEF SessInv, ReuseInv
<1>10. ASSUME NEW r \in Requests, RefreshLookup(r) PROVE ReuseInv'
  <2>. DEFINE t == request[r].tok
  <2>1. /\ request[r].kind = "refresh" /\ request[r].pc = "sent" /\ t # NoToken
        /\ UNCHANGED <<token, jar, ended, accused, crossed>>
    BY <1>10 DEF RefreshLookup
  <2>2. /\ \A q \in Requests : q # r => request'[q] = request[q]
        /\ request'[r].kind = "refresh" /\ request'[r].tok = t /\ request'[r].new = request[r].new
        /\ request'[r].pc \in {"live", "dead"}
        /\ t \in LiveTokens => request'[r].pc = "live"
    BY <1>10 DEF RefreshLookup, Spent, SessInv, TypeInv, ShapeInv, SessionRequest
  <2>3. LiveTokens' = LiveTokens
    BY <2>1 DEF LiveTokens, Issued
  <2>4. \A q \in Requests : Refreshes(q)' = Refreshes(q) /\ request'[q].tok = request[q].tok
    BY <2>1, <2>2 DEF Refreshes
  <2>5. Refreshes(r) /\ (Quiet(t) => t \in LiveTokens)
    BY <2>1 DEF Refreshes, SessInv, ReuseInv, QuietRequests
  <2>6. QuietRequests'
    BY <2>1, <2>2, <2>3, <2>4, <2>5 DEF SessInv, ReuseInv, QuietRequests, Quiet
  <2>7. QuietAnswers'
    BY <2>1, <2>2, <2>3 DEF SessInv, ReuseInv, QuietAnswers, Quiet
  <2>8. QuietJars'
    BY <2>1, <2>2, <2>3, <2>4 DEF SessInv, ReuseInv, QuietJars, Quiet
  <2>. QED  BY <2>1, <2>6, <2>7, <2>8 DEF SessInv, ReuseInv
<1>11. ASSUME NEW r \in Requests, RefreshReuse(r) PROVE ReuseInv'
  <2>1. TypeInv /\ request[r].pc \in {"sent", "dead"} /\ Refuse(r) /\ request[r].tok # NoToken
    BY <1>11 DEF SessInv, EndInv, RefreshReuse
  <2>2. token' = Revoked(Family(token[request[r].tok].family))
    BY <1>11 DEF RefreshReuse
  <2>3. /\ \A u \in Tokens : token'[u].family = token[u].family
        /\ LiveTokens' = LiveTokens \ Family(token[request[r].tok].family)
    BY <2>1, <2>2, RevokedEffect
  <2>4. /\ \A q \in Requests : q # r => request'[q] = request[q]
        /\ request'[r].pc = "answered" /\ request'[r].new = NoToken
        /\ request'[r].kind = request[r].kind /\ request'[r].tok = request[r].tok
    BY <2>1, RefuseEffect
  <2>5. /\ jar' = jar /\ crossed' = crossed
        /\ ended' = ended \union {token[request[r].tok].family}
    BY <1>11 DEF RefreshReuse, End
  <2>6. accused' \subseteq crossed'
    BY <1>11, <2>1, <2>5
    DEF RefreshReuse, sessionsHistory, SessInv, ReuseInv, QuietRequests, Refreshes,
        Quiet
  <2>7. \A u \in Issued : Quiet(u)' => Quiet(u) /\ (u \in LiveTokens => u \in LiveTokens')
    BY <2>3, <2>5 DEF Quiet, Family, Issued
  <2>8. /\ \A q \in Requests : /\ request[q].tok # NoToken => request[q].tok \in Issued
                               /\ request[q].new # NoToken => request[q].new \in Issued
        /\ \A b \in Browsers : jar[b] # NoToken => jar[b] \in Issued
        /\ LiveTokens' \subseteq LiveTokens /\ Issued \subseteq Tokens
    BY <2>1, <2>3 DEF TypeInv, IssuedInv, Issued
  <2>9. QuietRequests'
    BY <2>1, <2>4, <2>7, <2>8 DEF SessInv, ReuseInv, QuietRequests, Refreshes, Quiet
  <2>10. QuietAnswers'
    BY <2>4, <2>7, <2>8 DEF SessInv, ReuseInv, QuietAnswers, Quiet
  <2>11. QuietJars'
    <3>1. \A u \in LiveTokens : u \in Issued
      BY DEF LiveTokens
    <3>. SUFFICES ASSUME NEW b \in Browsers, jar'[b] # NoToken, Quiet(jar[b])',
                         jar'[b] \notin LiveTokens'
                  PROVE  \E q \in Requests :
                           /\ Refreshes(q)' /\ request'[q].pc = "answered"
                           /\ request'[q].tok = jar'[b] /\ request'[q].new # NoToken
                           /\ token'[request'[q].new].family = token'[jar'[b]].family
      BY DEF QuietJars, Quiet
    <3>2. jar[b] # NoToken /\ jar[b] \in Issued /\ Quiet(jar[b]) /\ jar[b] \notin LiveTokens
      BY <2>5, <2>7, <2>8, <3>1 DEF Quiet
    <3>3. PICK q \in Requests : /\ Refreshes(q) /\ request[q].pc = "answered"
                                /\ request[q].tok = jar[b] /\ request[q].new # NoToken
                                /\ token[request[q].new].family = token[jar[b]].family
      BY <3>2 DEF SessInv, ReuseInv, QuietJars
    <3>4. q # r
      BY <2>1, <3>3
    <3>. QED  BY <2>3, <2>4, <2>5, <2>8, <3>2, <3>3, <3>4 DEF Refreshes
  <2>. QED  BY <2>6, <2>9, <2>10, <2>11 DEF ReuseInv
<1>12. ASSUME NEW r \in Requests, RefreshExpired(r) PROVE ReuseInv'
  <2>1. TypeInv /\ request[r].pc \in {"sent", "live"} /\ Refuse(r)
    BY <1>12 DEF SessInv, RefreshExpired
  <2>2. /\ \A q \in Requests : q # r => request'[q] = request[q]
        /\ request'[r].pc = "answered" /\ request'[r].new = NoToken
        /\ request'[r].kind = request[r].kind /\ request'[r].tok = request[r].tok
    BY <2>1, RefuseEffect
  <2>3. UNCHANGED <<token, jar, ended, accused, crossed>>
    BY <1>12 DEF RefreshExpired, sessionsHistory
  <2>4. LiveTokens' = LiveTokens
    BY <2>3 DEF LiveTokens, Issued
  <2>5. QuietRequests'
    BY <2>1, <2>2, <2>3, <2>4 DEF SessInv, ReuseInv, QuietRequests, Refreshes, Quiet
  <2>6. QuietAnswers'
    BY <2>2, <2>3, <2>4 DEF SessInv, ReuseInv, QuietAnswers, Quiet
  <2>7. QuietJars'
    BY <2>1, <2>2, <2>3, <2>4 DEF SessInv, ReuseInv, QuietJars, Refreshes, Quiet
  <2>. QED  BY <2>3, <2>5, <2>6, <2>7 DEF SessInv, ReuseInv
<1>13. ASSUME NEW r \in Requests, Logout(r) PROVE ReuseInv'
  <2>1. TypeInv /\ request[r].pc \in {"sent", "dead"} /\ Refuse(r) /\ request[r].tok # NoToken
    BY <1>13 DEF SessInv, EndInv, Logout
  <2>2. token' = Revoked(Family(token[request[r].tok].family))
    BY <1>13 DEF Logout, SignedOut
  <2>3. /\ \A u \in Tokens : token'[u].family = token[u].family
        /\ LiveTokens' = LiveTokens \ Family(token[request[r].tok].family)
    BY <2>1, <2>2, RevokedEffect
  <2>4. /\ \A q \in Requests : q # r => request'[q] = request[q]
        /\ request'[r].pc = "answered" /\ request'[r].new = NoToken
        /\ request'[r].kind = request[r].kind /\ request'[r].tok = request[r].tok
    BY <2>1, RefuseEffect
  <2>5. /\ jar' = jar /\ crossed' = crossed
        /\ ended' = ended \union {token[request[r].tok].family}
    BY <1>13 DEF Logout, End
  <2>6. accused' \subseteq crossed'
    BY <1>13, <2>1, <2>5
    DEF Logout, sessionsHistory, SessInv, ReuseInv, QuietRequests, Refreshes, Quiet
  <2>7. \A u \in Issued : Quiet(u)' => Quiet(u) /\ (u \in LiveTokens => u \in LiveTokens')
    BY <2>3, <2>5 DEF Quiet, Family, Issued
  <2>8. /\ \A q \in Requests : /\ request[q].tok # NoToken => request[q].tok \in Issued
                               /\ request[q].new # NoToken => request[q].new \in Issued
        /\ \A b \in Browsers : jar[b] # NoToken => jar[b] \in Issued
        /\ LiveTokens' \subseteq LiveTokens /\ Issued \subseteq Tokens
    BY <2>1, <2>3 DEF TypeInv, IssuedInv, Issued
  <2>9. QuietRequests'
    BY <2>1, <2>4, <2>7, <2>8 DEF SessInv, ReuseInv, QuietRequests, Refreshes, Quiet
  <2>10. QuietAnswers'
    BY <2>4, <2>7, <2>8 DEF SessInv, ReuseInv, QuietAnswers, Quiet
  <2>11. QuietJars'
    <3>1. \A u \in LiveTokens : u \in Issued
      BY DEF LiveTokens
    <3>. SUFFICES ASSUME NEW b \in Browsers, jar'[b] # NoToken, Quiet(jar[b])',
                         jar'[b] \notin LiveTokens'
                  PROVE  \E q \in Requests :
                           /\ Refreshes(q)' /\ request'[q].pc = "answered"
                           /\ request'[q].tok = jar'[b] /\ request'[q].new # NoToken
                           /\ token'[request'[q].new].family = token'[jar'[b]].family
      BY DEF QuietJars, Quiet
    <3>2. jar[b] # NoToken /\ jar[b] \in Issued /\ Quiet(jar[b]) /\ jar[b] \notin LiveTokens
      BY <2>5, <2>7, <2>8, <3>1 DEF Quiet
    <3>3. PICK q \in Requests : /\ Refreshes(q) /\ request[q].pc = "answered"
                                /\ request[q].tok = jar[b] /\ request[q].new # NoToken
                                /\ token[request[q].new].family = token[jar[b]].family
      BY <3>2 DEF SessInv, ReuseInv, QuietJars
    <3>4. q # r
      BY <2>1, <3>3
    <3>. QED  BY <2>3, <2>4, <2>5, <2>8, <3>2, <3>3, <3>4 DEF Refreshes
  <2>. QED  BY <2>6, <2>9, <2>10, <2>11 DEF ReuseInv
<1>14. ASSUME NEW r \in Requests, Answer(r) PROVE ReuseInv'
  <2>1. TypeInv /\ Answer(r)
    BY <1>14 DEF SessInv
  <2>2. /\ \A q \in Requests : q # r => request'[q] = request[q]
        /\ request'[r].tok = NoToken /\ request'[r].new = NoToken
        /\ request[r].tab \in Tabs
    BY <2>1, FreedEffect
  <2>3. /\ UNCHANGED <<token, ended, accused, crossed>>
        /\ \/ jar' = jar /\ request[r].new = NoToken
           \/ jar' = [jar EXCEPT ![JarOf[request[r].tab]] = request[r].new]
    BY <1>14 DEF Answer, sessionsHistory
  <2>4. LiveTokens' = LiveTokens
    BY <2>3 DEF LiveTokens, Issued
  <2>5. QuietRequests'
    BY <2>2, <2>3, <2>4 DEF SessInv, ReuseInv, QuietRequests, Refreshes, Quiet
  <2>6. QuietAnswers'
    BY <2>2, <2>3, <2>4 DEF SessInv, ReuseInv, QuietAnswers, Quiet
  <2>7. QuietJars'
    <3>. SUFFICES ASSUME NEW b \in Browsers, jar'[b] # NoToken, Quiet(jar[b])',
                         jar'[b] \notin LiveTokens'
                  PROVE  \E q \in Requests :
                           /\ Refreshes(q)' /\ request'[q].pc = "answered"
                           /\ request'[q].tok = jar'[b] /\ request'[q].new # NoToken
                           /\ token'[request'[q].new].family = token'[jar'[b]].family
      BY DEF QuietJars, Quiet
    <3>1. CASE jar'[b] # jar[b] /\ b = JarOf[request[r].tab]
      <4>1. jar'[b] = request[r].new
        BY <2>1, <2>3, <3>1 DEF TypeInv, ShapeInv
      <4>2. request[r].new \in LiveTokens
        BY <2>3, <4>1 DEF Quiet, SessInv, ReuseInv, QuietAnswers
      <4>. QED  BY <2>4, <4>1, <4>2
    <3>2. CASE jar'[b] = jar[b] \/ b # JarOf[request[r].tab]
      <4>1. jar'[b] = jar[b]
        BY <2>1, <2>3, <3>2 DEF TypeInv, ShapeInv
      <4>2. jar[b] # NoToken /\ Quiet(jar[b]) /\ jar[b] \notin LiveTokens
        BY <2>3, <2>4, <4>1 DEF Quiet
      <4>3. PICK q \in Requests : /\ Refreshes(q) /\ request[q].pc = "answered"
                                  /\ request[q].tok = jar[b] /\ request[q].new # NoToken
                                  /\ token[request[q].new].family = token[jar[b]].family
        BY <4>2 DEF SessInv, ReuseInv, QuietJars
      <4>4. q # r
        <5>1. CASE jar' = jar /\ request[r].new = NoToken
          BY <4>3, <5>1
        <5>2. CASE jar' = [jar EXCEPT ![JarOf[request[r].tab]] = request[r].new]
          <6>1. b = JarOf[request[r].tab] => jar[b] = request[r].new
            BY <2>1, <4>1, <5>2 DEF TypeInv, ShapeInv
          <6>. QED  BY <4>2, <4>3, <6>1 DEF SessInv, HolderInv
        <5>. QED  BY <2>3, <5>1, <5>2
      <4>. QED  BY <2>2, <2>3, <4>1, <4>3, <4>4 DEF Refreshes
    <3>. QED  BY <3>1, <3>2
  <2>. QED  BY <2>3, <2>5, <2>6, <2>7 DEF SessInv, ReuseInv
<1>15. ASSUME NEW r \in Requests, LoseAnswer(r) PROVE ReuseInv'
  <2>1. TypeInv
    BY DEF SessInv
  <2>2. /\ \A q \in Requests : q # r => request'[q] = request[q]
        /\ request'[r].kind = "none" /\ request'[r].new = NoToken
    BY <1>15, <2>1, FreedEffect
  <2>3. /\ UNCHANGED <<token, jar, ended, accused>> /\ crossed \subseteq crossed'
        /\ request[r].new # NoToken => token[request[r].new].family \in crossed'
    BY <1>15 DEF LoseAnswer, FamilyOf
  <2>4. LiveTokens' = LiveTokens
    BY <2>3 DEF LiveTokens, Issued
  <2>5. \A q \in Requests : Refreshes(q)' => q # r /\ Refreshes(q)
    BY <2>2 DEF Refreshes
  <2>6. QuietRequests'
    BY <2>2, <2>3, <2>4, <2>5 DEF SessInv, ReuseInv, QuietRequests, Quiet
  <2>7. QuietAnswers'
    BY <2>2, <2>3, <2>4 DEF SessInv, ReuseInv, QuietAnswers, Quiet
  <2>8. QuietJars'
    <3>. SUFFICES ASSUME NEW b \in Browsers, jar'[b] # NoToken, Quiet(jar[b])',
                         jar'[b] \notin LiveTokens'
                  PROVE  \E q \in Requests :
                           /\ Refreshes(q)' /\ request'[q].pc = "answered"
                           /\ request'[q].tok = jar'[b] /\ request'[q].new # NoToken
                           /\ token'[request'[q].new].family = token'[jar'[b]].family
      BY DEF QuietJars, Quiet
    <3>1. jar[b] # NoToken /\ Quiet(jar[b]) /\ jar[b] \notin LiveTokens
          /\ token[jar[b]].family \notin crossed'
      BY <2>3, <2>4 DEF Quiet
    <3>2. PICK q \in Requests : /\ Refreshes(q) /\ request[q].pc = "answered"
                                /\ request[q].tok = jar[b] /\ request[q].new # NoToken
                                /\ token[request[q].new].family = token[jar[b]].family
      BY <3>1 DEF SessInv, ReuseInv, QuietJars
    <3>3. q # r
      BY <2>3, <3>1, <3>2
    <3>. QED  BY <2>2, <2>3, <3>2, <3>3 DEF Refreshes
  <2>. QED  BY <2>3, <2>6, <2>7, <2>8 DEF SessInv, ReuseInv
<1>16. ASSUME NEW r \in Requests, NEW n \in Tokens, Login(r, n) PROVE ReuseInv'
  <2>1. /\ request[r].kind = "login" /\ n \notin Issued
        /\ UNCHANGED <<jar, ended, accused, crossed>>
        /\ token' = [token EXCEPT ![n] = Fresh(n)]
    BY <1>16 DEF Login, IssueTo, sessionsHistory
  <2>2. /\ \A q \in Requests : q # r => request'[q] = request[q]
        /\ request'[r].kind = "login" /\ request'[r].new = n
    BY <1>16 DEF Login, IssueTo, SessInv, TypeInv, ShapeInv, SessionRequest
  <2>3. /\ token'[n].family = n /\ token'[n].state = "live"
        /\ \A u \in Tokens : u # n => token'[u] = token[u]
    BY <2>1 DEF Fresh, SessInv, TypeInv, ShapeInv
  <2>4. n # NoToken
    BY SessionsAssumption
  <2>5. /\ Issued \subseteq Tokens /\ LiveTokens \subseteq Issued
        /\ \A u \in Issued : u # n
    BY <2>1 DEF Issued, LiveTokens
  <2>6. LiveTokens' = LiveTokens \union {n}
    <3>1. Issued' = Issued \union {n}
      BY <2>3, <2>4 DEF Issued
    <3>. QED  BY <2>3, <2>5, <3>1 DEF LiveTokens
  <2>7. \A q \in Requests : Refreshes(q)' => /\ q # r /\ Refreshes(q)
                                             /\ request'[q] = request[q] /\ request[q].tok \in Issued
    BY <2>2 DEF Refreshes, SessInv, TypeInv, IssuedInv
  <2>8. \A u \in Issued : /\ token'[u] = token[u] /\ (u \in LiveTokens' <=> u \in LiveTokens)
                          /\ (Quiet(u)' <=> Quiet(u))
    BY <2>1, <2>3, <2>5, <2>6 DEF Quiet
  <2>9. QuietRequests'
    BY <2>1, <2>7, <2>8 DEF SessInv, ReuseInv, QuietRequests, Quiet
  <2>10. QuietAnswers'
    <3>1. \A q \in Requests : request[q].new # NoToken => request[q].new \in Issued
      BY DEF SessInv, TypeInv, IssuedInv
    <3>. QED  BY <2>1, <2>2, <2>6, <2>8, <3>1 DEF SessInv, ReuseInv, QuietAnswers, Quiet
  <2>11. QuietJars'
    <3>. SUFFICES ASSUME NEW b \in Browsers, jar'[b] # NoToken, Quiet(jar[b])',
                         jar'[b] \notin LiveTokens'
                  PROVE  \E q \in Requests :
                           /\ Refreshes(q)' /\ request'[q].pc = "answered"
                           /\ request'[q].tok = jar'[b] /\ request'[q].new # NoToken
                           /\ token'[request'[q].new].family = token'[jar'[b]].family
      BY DEF QuietJars, Quiet
    <3>1. jar[b] \in Issued /\ jar'[b] = jar[b]
      BY <2>1 DEF SessInv, TypeInv, IssuedInv
    <3>2. Quiet(jar[b]) /\ jar[b] # NoToken /\ jar[b] \notin LiveTokens
      BY <2>1, <2>8, <3>1 DEF Quiet
    <3>3. PICK q \in Requests : /\ Refreshes(q) /\ request[q].pc = "answered"
                                /\ request[q].tok = jar[b] /\ request[q].new # NoToken
                                /\ token[request[q].new].family = token[jar[b]].family
      BY <3>2 DEF SessInv, ReuseInv, QuietJars
    <3>4. q # r /\ request[q].new \in Issued
      BY <2>1, <3>3 DEF Refreshes, SessInv, TypeInv, IssuedInv
    <3>. QED  BY <2>2, <2>8, <3>1, <3>3, <3>4 DEF Refreshes
  <2>. QED  BY <2>1, <2>9, <2>10, <2>11 DEF SessInv, ReuseInv
<1>17. ASSUME NEW r \in Requests, NEW n \in Tokens, RefreshRotate(r, n) PROVE ReuseInv'
  <2>. DEFINE t == request[r].tok
  <2>1. TypeInv /\ t \in Issued
    BY <1>17 DEF SessInv, EndInv, TypeInv, ShapeInv, IssuedInv, RefreshRotate
  <2>2. /\ token' \in [Tokens -> Token]
        /\ n \notin Issued /\ n # t
        /\ Issued' = Issued \union {n}
        /\ LiveTokens' = (LiveTokens \ {t}) \union {n}
        /\ token'[n].family = token[t].family /\ token'[n].state = "live"
        /\ \A u \in Tokens : u # n => token'[u].family = token[u].family
        /\ \A u \in Tokens : u # n =>
               (token'[u].state = "unissued" <=> token[u].state = "unissued")
        /\ request' \in [Requests -> SessionRequest]
        /\ \A q \in Requests : q # r => request'[q] = request[q]
        /\ request'[r].pc = "answered" /\ request'[r].new = n
        /\ request'[r].kind = request[r].kind /\ request'[r].tok = request[r].tok
        /\ request'[r].tab = request[r].tab
    BY <1>17, <2>1, RotateEffect
  <2>3. /\ UNCHANGED <<jar, tab, ended, raced, forked, accused, crossed, lost>>
        /\ request[r].kind = "refresh" /\ request[r].pc = "live"
    BY <1>17 DEF RefreshRotate, sessionsHistory
  <2>4. /\ \A q \in Requests : /\ request[q].tok # NoToken => request[q].tok \in Issued
                               /\ request[q].new # NoToken => request[q].new \in Issued
        /\ \A b \in Browsers : jar[b] # NoToken => jar[b] \in Issued
        /\ Issued \subseteq Tokens
    BY <2>1 DEF TypeInv, IssuedInv, Issued
  <2>5. Refreshes(r)
    BY <1>17 DEF SessInv, EndInv, RefreshRotate, Refreshes
  <2>6. \A u \in Issued : Quiet(u)' <=> Quiet(u)
    BY <2>2, <2>3, <2>4 DEF Quiet
  <2>7. QuietRequests'
    <3>1. \A q \in Requests : /\ Refreshes(q)' => Refreshes(q)
                              /\ request'[q].tok = request[q].tok
                              /\ request'[q].pc \in {request[q].pc, "answered"}
      BY <2>2 DEF Refreshes
    <3>2. \A q \in Requests : Refreshes(q) => request[q].tok \in Issued
      BY <2>4 DEF Refreshes
    <3>3. ASSUME NEW q \in Requests, Refreshes(q)', Quiet(request[q].tok)'
          PROVE  /\ request'[q].pc \in {"sent", "live"} => request[q].tok \in LiveTokens'
                 /\ request'[q].pc # "dead"
                 /\ \A p \in Requests : Refreshes(p)' /\ request[p].tok = request[q].tok => p = q
      <4>1. Refreshes(q) /\ request[q].tok \in Issued /\ Quiet(request[q].tok)
        BY <2>6, <3>1, <3>2, <3>3 DEF Quiet
      <4>2. /\ request[q].pc \in {"sent", "live"} => request[q].tok \in LiveTokens
            /\ request[q].pc # "dead"
            /\ \A p \in Requests : Refreshes(p) /\ request[p].tok = request[q].tok => p = q
        BY <4>1 DEF SessInv, ReuseInv, QuietRequests
      <4>3. request'[q].pc \in {"sent", "live"} => q # r /\ request[q].tok # t
        BY <2>2, <2>5, <4>2
      <4>4. request'[q].pc \in {"sent", "live"} => request[q].tok \in LiveTokens'
        BY <2>2, <3>1, <4>2, <4>3
      <4>. QED  BY <3>1, <4>2, <4>4
    <3>. QED  BY <3>1, <3>3 DEF QuietRequests, Quiet
  <2>8. QuietAnswers'
    <3>1. \A q \in Requests : request[q].new # t
      BY <2>1, <2>4, <2>5 DEF SessInv, HolderInv, Refreshes
    <3>. QED  BY <2>2, <2>4, <2>6, <3>1 DEF SessInv, ReuseInv, QuietAnswers, Quiet
  <2>9. QuietJars'
    <3>. SUFFICES ASSUME NEW b \in Browsers, jar[b] # NoToken, Quiet(jar[b])',
                         jar[b] \notin LiveTokens'
                  PROVE  \E q \in Requests :
                           /\ Refreshes(q)' /\ request'[q].pc = "answered"
                           /\ request'[q].tok = jar[b] /\ request'[q].new # NoToken
                           /\ token'[request'[q].new].family = token'[jar[b]].family
      BY <2>3 DEF QuietJars, Quiet
    <3>1. jar[b] \in Issued /\ Quiet(jar[b])
      BY <2>3, <2>4, <2>6 DEF Quiet
    <3>2. CASE jar[b] = t
      <4>1. /\ Refreshes(r)' /\ request'[r].pc = "answered" /\ request'[r].tok = jar[b]
            /\ request'[r].new # NoToken
            /\ token'[request'[r].new].family = token'[jar[b]].family
        BY <2>1, <2>2, <2>4, <2>5, <3>2, SessionsAssumption DEF Refreshes
      <4>. QED  BY <4>1
    <3>3. CASE jar[b] # t
      <4>1. jar[b] \notin LiveTokens
        BY <2>2, <3>3
      <4>2. PICK q \in Requests : /\ Refreshes(q) /\ request[q].pc = "answered"
                                  /\ request[q].tok = jar[b] /\ request[q].new # NoToken
                                  /\ token[request[q].new].family = token[jar[b]].family
        BY <3>1, <4>1 DEF SessInv, ReuseInv, QuietJars
      <4>3. q # r
        BY <2>3, <4>2
      <4>4. request[q].new \in Issued
        BY <2>4, <4>2
      <4>. QED  BY <2>2, <2>4, <3>1, <4>2, <4>3, <4>4 DEF Refreshes
    <3>. QED  BY <3>2, <3>3
  <2>. QED  BY <2>3, <2>7, <2>8, <2>9 DEF SessInv, ReuseInv
<1>18. CASE UNCHANGED sessionsVars
  BY <1>18
  DEF sessionsVars, sessionsHistory, SessInv, ReuseInv, QuietRequests, QuietAnswers,
      QuietJars, Quiet, Refreshes, TypeInv, ShapeInv, IssuedInv, Token, SessionRequest,
      HolderInv, EndInv, Issued, Family, LiveTokens
<1>. QED
  BY <1>1, <1>2, <1>3, <1>4, <1>5, <1>6, <1>7, <1>8, <1>9, <1>10, <1>11, <1>12, <1>13,
     <1>14, <1>15, <1>16, <1>17, <1>18
  DEF SessionsNext

\* Every step keeps the invariant of the sessions.
LEMMA SessStep == SessInv /\ [SessionsNext]_sessionsVars => SessInv'
  BY TypeKept, HolderKept, EndKept, ChainKept, ReuseKept DEF SessInv

\* The invariant of the sessions holds in every behaviour.
LEMMA AlwaysSess == SessionsSpec => []SessInv
<1>1. SessionsInit => SessInv
  BY SessInit
<1>2. SessInv /\ [SessionsNext]_sessionsVars => SessInv'
  BY SessStep
<1>. QED  BY <1>1, <1>2, PTL DEF SessionsSpec

\* Every variable keeps its type, and whatever a browser holds was issued.
THEOREM SessionsTypeCorrect == SessionsSpec => []SessionsTypeOK
<1>1. SessInv => SessionsTypeOK
  BY DEF SessInv, TypeInv, ShapeInv, IssuedInv, SessionsTypeOK
<1>. QED  BY <1>1, AlwaysSess, PTL

\* After a sign out, a revocation, a password change or a reuse, no token of
\* the session can be refreshed, unless a refresh had been let in before.
THEOREM EndsForGood == SessionsSpec => []EndedStaysEnded
<1>1. SessInv => EndedStaysEnded
  BY DEF SessInv, EndInv, EndedStaysEnded, Family, LiveTokens
<1>. QED  BY <1>1, AlwaysSess, PTL

\* One token of a session is live at a time, unless one was let in twice.
THEOREM OneTokenAtATime == SessionsSpec => []SessionIsAChain
<1>1. ASSUME SessInv PROVE SessionIsAChain
  <2>1. ASSUME NEW f \in Issued \ forked
        PROVE  Cardinality(Family(f) \intersect LiveTokens) <= 1
    <3>. DEFINE S == Family(f) \intersect LiveTokens
    <3>1. \A t, u \in S : t = u
      BY <1>1, <2>1 DEF SessInv, ChainInv, Family
    <3>2. CASE S = {}
      BY <3>2, FS_EmptySet
    <3>3. CASE S # {}
      <4>1. PICK t \in S : TRUE
        BY <3>3
      <4>2. S = {t}
        BY <3>1, <4>1
      <4>3. Cardinality({t}) = 1
        BY FS_Singleton
      <4>. QED  BY <4>2, <4>3
    <3>. QED  BY <3>2, <3>3
  <2>. QED  BY <2>1 DEF SessionIsAChain
<1>. QED  BY <1>1, AlwaysSess, PTL

\* It takes a second tab with the same cookie, or an answer that is lost, for
\* reuse detection to end the session of an honest browser.
THEOREM NobodyAccusedAlone == SessionsSpec => []AccusedForAReason
<1>1. SessInv => AccusedForAReason
  BY DEF SessInv, ReuseInv, AccusedForAReason
<1>. QED  BY <1>1, AlwaysSess, PTL
=============================================================================
