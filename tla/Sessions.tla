------------------------------ MODULE Sessions ------------------------------
(***************************************************************************)
(* Who is signed in: the accounts and sessions tables, the two cookies     *)
(* that all tabs of a browser share, the CSRF token and user that each tab *)
(* keeps in memory, and the requests between them.  A request is handled   *)
(* one SQL statement at a time, so that checks, slides and logouts of one  *)
(* session interleave, and its answer may arrive late or not at all.       *)
(*                                                                         *)
(* Passwords, token strings and cookie attributes are left out: a session  *)
(* and a token are numbers in the order they are minted, and no two equal. *)
(***************************************************************************)
EXTENDS Naturals, FiniteSets

CONSTANTS
    Users,
    Tabs,
    Requests,    \* requests in flight at a time
    MaxMinted,   \* bound on the sessions and tokens ever minted
    MaxNow,      \* bound on time
    Ttl,         \* SESSION_TTL
    Cap,         \* ABSOLUTE_SESSION_TTL
    None

ASSUME SessionsAssumption ==
    /\ MaxMinted \in Nat /\ MaxNow \in Nat
    /\ Ttl \in Nat /\ Cap \in Nat
    /\ None \notin Users \cup Tabs \cup Nat

VARIABLES
    now,
    minted,   \* sessions and CSRF tokens minted so far
    accounts, \* users with a row in users
    row,      \* the sessions table, by session
    jar,      \* the browser's cookies
    tab,      \* each tab's memory
    req,      \* requests in flight
    signedIn, \* the tab that last took a login's answer (history)
    overtaken \* a login's cookies came while a me() was under way (history)

server == <<minted, accounts, row>>
client == <<jar, tab, signedIn, overtaken>>
vars == <<now, server, client, req>>

Minted == 1..MaxMinted
Token == Minted \cup {None}

\* "used" is when a session was last created or touched (history).
Row == [user : Users, created : 0..MaxNow, used : 0..MaxNow, expires : 0..(MaxNow + Ttl)]
Kinds == {"register", "login", "logout", "me", "ask"}
Steps == {"sent", "row", "purge", "touch", "slide", "handle", "ok", "acted", "failed"}

\* A request, with what the browser attached that its handler reads, and at last
\* its answer: cookies to set (None leaves a cookie alone, 0 clears it) and the
\* user it names.
Request == [kind : Kinds, at : Steps, tab : Tabs \cup {None}, user : Users \cup {None},
            session : Token, cookie : Token, header : Token, shown : Users \cup {None},
            upto : 0..(MaxNow + Ttl), setSession : Token \cup {0}, setCsrf : Token]

TypeOK ==
    /\ now \in 0..MaxNow
    /\ minted \in 0..MaxMinted
    /\ accounts \subseteq Users
    /\ row \in [Minted -> Row \cup {None}]
    /\ jar \in [session : Token, csrf : Token]
    /\ tab \in [Tabs -> [user : Users \cup {None}, csrf : Token]]
    /\ req \in [Requests -> Request \cup {None}]
    /\ signedIn \in Tabs \cup {None}
    /\ overtaken \in BOOLEAN

Blank == [user |-> None, csrf |-> None]

Init ==
    /\ now = 0 /\ minted = 0 /\ accounts = {}
    /\ row = [s \in Minted |-> None]
    /\ jar = [session |-> None, csrf |-> None]
    /\ tab = [t \in Tabs |-> Blank]
    /\ req = [r \in Requests |-> None]
    /\ signedIn = None /\ overtaken = FALSE

Tick == now < MaxNow /\ now' = now + 1 /\ UNCHANGED <<server, client, req>>

(***************************************************************************)
(* The browser sends: cookies as they are now, the token of the tab        *)
(***************************************************************************)
SignIn == {"register", "login"}
InFlight(kinds) == {r \in Requests : req[r] # None /\ req[r].kind \in kinds}

Sent(kind, t, u, memory) ==
    [kind |-> kind, at |-> "sent", tab |-> t, user |-> u,
     session |-> IF kind \in SignIn THEN None ELSE jar.session,
     cookie |-> IF kind \in {"me", "ask"} THEN jar.csrf ELSE None,
     header |-> IF kind = "ask" THEN memory.csrf ELSE None,
     shown |-> IF kind = "ask" THEN memory.user ELSE None, upto |-> 0, setSession |-> None, setCsrf |-> None]

Send(r, kind, t, u) ==
    /\ req[r] = None
    /\ req' = [req EXCEPT ![r] = Sent(kind, t, u, tab[t])]

\* A page load: the tab's memory starts empty, it abandons its requests, and
\* me() asks who is signed in.
Boot(r, t) ==
    /\ req[r] = None
    /\ tab' = [tab EXCEPT ![t] = Blank]
    /\ req' = [q \in Requests |->
         IF q = r THEN Sent("me", t, None, Blank)
         ELSE IF req[q] # None /\ req[q].tab = t THEN [req[q] EXCEPT !.tab = None]
         ELSE req[q]]
    /\ UNCHANGED <<now, server, jar, signedIn, overtaken>>

AskSignIn(r, t) ==
    /\ tab[t].user = None
    /\ \E kind \in SignIn, u \in Users : Send(r, kind, t, u)
    /\ UNCHANGED <<now, server, client>>

AskAsUser(r, t) ==
    /\ tab[t].user # None
    /\ \E kind \in {"ask", "logout"} : Send(r, kind, t, None)
    /\ UNCHANGED <<now, server, client>>

(***************************************************************************)
(* The server                                                              *)
(***************************************************************************)
At(r, step) == req[r] # None /\ req[r].at = step
Goes(r, step) == req' = [req EXCEPT ![r].at = step]
\* What the request brought is of no use once it is answered.
Answered(q, step) ==
    [q EXCEPT !.at = step, !.session = None, !.cookie = None, !.header = None]
Answers(r, session, csrf) ==
    req' = [req EXCEPT ![r] =
      [Answered(@, "ok") EXCEPT !.setSession = session, !.setCsrf = csrf]]
Fails(r) ==
    req' = [req EXCEPT ![r] = [Answered(@, "failed") EXCEPT !.user = None, !.shown = None]]

Handles(r, kinds, step) == At(r, step) /\ req[r].kind \in kinds

\* create_user: the e-mail is unique.
Register(r) ==
    /\ Handles(r, {"register"}, "sent")
    /\ accounts' = accounts \cup {req[r].user}
    /\ IF req[r].user \in accounts THEN Fails(r) ELSE Goes(r, "row")
    /\ UNCHANGED <<now, minted, row, client>>

Login(r) ==
    /\ Handles(r, {"login"}, "sent")
    /\ \/ req[r].user \in accounts /\ Goes(r, "row")
       \/ Fails(r)
    /\ UNCHANGED <<now, server, client>>

\* create_session, and both cookies of the answer.
CreateSession(r) ==
    /\ At(r, "row") /\ minted < MaxMinted
    /\ LET s == minted + 1 IN
       /\ minted' = s
       /\ row' = [row EXCEPT ![s] =
            [user |-> req[r].user, created |-> now, used |-> now, expires |-> now + Ttl]]
       /\ Answers(r, s, s)
    /\ UNCHANGED <<now, accounts, client>>

\* delete_session, without a CSRF check; the csrf cookie is left alone.
Logout(r) ==
    /\ Handles(r, {"logout"}, "sent")
    /\ row' = [s \in Minted |-> IF s = req[r].session THEN None ELSE row[s]]
    /\ Answers(r, 0, None)
    /\ UNCHANGED <<now, minted, accounts, client>>

Guarded == {"me", "ask"}

\* Mutant: the idle timeout is not looked at.
DeadOnlyByCap(s) == row[s].created + Cap < now

Dead(s) == row[s].expires < now \/ row[s].created + Cap < now

\* get_session_user: one SELECT, and a DELETE if the session is over.
Check(r) ==
    /\ Handles(r, Guarded, "sent")
    /\ LET s == req[r].session IN
       IF s = None \/ row[s] = None THEN Fails(r)
       ELSE req' = [req EXCEPT ![r].at = IF Dead(s) THEN "purge" ELSE "touch",
                               ![r].user = row[s].user]
    /\ UNCHANGED <<now, server, client>>

Purge(r) ==
    /\ At(r, "purge")
    /\ row' = [row EXCEPT ![req[r].session] = None]
    /\ Fails(r)
    /\ UNCHANGED <<now, minted, accounts, client>>

\* The new expiry never passes the absolute cap.
Slide(s) == IF now + Ttl < row[s].created + Cap THEN now + Ttl ELSE row[s].created + Cap

\* touch_session is a SELECT and a later UPDATE; a row that is gone in between
\* is not touched, and the request goes on.
TouchRead(r) ==
    /\ At(r, "touch")
    /\ LET s == req[r].session IN
       IF row[s] = None
       THEN Goes(r, "handle") /\ UNCHANGED row
       ELSE /\ req' = [req EXCEPT ![r].at = "slide", ![r].upto = Slide(s)]
            /\ row' = [row EXCEPT ![s].used = now]
    /\ UNCHANGED <<now, minted, accounts, client>>

\* Mutant: the touch is an upsert.
TouchUpsert(r) ==
    /\ At(r, "slide")
    /\ LET s == req[r].session IN
       row' = [row EXCEPT ![s] =
         IF row[s] # None THEN [row[s] EXCEPT !.expires = req[r].upto]
         ELSE [user |-> CHOOSE u \in Users : TRUE, created |-> now, used |-> now, expires |-> req[r].upto]]
    /\ req' = [req EXCEPT ![r].at = "handle", ![r].upto = 0]
    /\ UNCHANGED <<now, minted, accounts, client>>

TouchWrite(r) ==
    /\ At(r, "slide")
    /\ LET s == req[r].session IN
       row' = IF row[s] = None THEN row
              ELSE [row EXCEPT ![s].expires = req[r].upto]
    /\ req' = [req EXCEPT ![r].at = "handle", ![r].upto = 0]
    /\ UNCHANGED <<now, minted, accounts, client>>

\* Mutant: me() mints a new token.
MeRotates(r) ==
    /\ Handles(r, {"me"}, "handle") /\ minted < MaxMinted
    /\ minted' = minted + 1
    /\ Answers(r, None, minted')
    /\ UNCHANGED <<now, accounts, row, client>>

\* me() hands the request's own token back, or mints one if it had none.
Me(r) ==
    /\ Handles(r, {"me"}, "handle")
    /\ \/ req[r].cookie # None /\ UNCHANGED minted
       \/ req[r].cookie = None /\ minted < MaxMinted /\ minted' = minted + 1
    /\ Answers(r, None, IF req[r].cookie # None THEN req[r].cookie ELSE minted')
    /\ UNCHANGED <<now, accounts, row, client>>

\* Handlers that only read: list, get, file.
Read(r) == Handles(r, {"ask"}, "handle") /\ Answers(r, None, None) /\ UNCHANGED <<now, server, client>>

\* verify_csrf; mutant: a request that has a cookie and a header passes.
VerifyLoosely(q) == q.cookie # None /\ q.header # None
Verify(q) == q.cookie # None /\ q.header # None /\ q.cookie = q.header

\* Upload, delete and query act for the session's user.
Mutate(r) ==
    /\ Handles(r, {"ask"}, "handle")
    /\ IF Verify(req[r]) THEN req' = [req EXCEPT ![r] = Answered(@, "acted")] ELSE Fails(r)
    /\ UNCHANGED <<now, server, client>>

(***************************************************************************)
(* The browser receives                                                    *)
(***************************************************************************)
\* Mutant: clearing a cookie leaves an empty one behind.
SetCookiesEmpty(q) ==
    jar' = [session |-> IF q.setSession = None THEN jar.session ELSE q.setSession,
            csrf |-> IF q.setCsrf = None THEN jar.csrf ELSE q.setCsrf]

SetCookies(q) ==
    jar' = [session |-> CASE q.setSession = None -> jar.session
                          [] q.setSession = 0 -> None
                          [] OTHER -> q.setSession,
            csrf |-> IF q.setCsrf = None THEN jar.csrf ELSE q.setCsrf]

\* captureCsrfToken, then what the page does with the answer.
Shows(q, ok) ==
    LET t == q.tab
        token == IF ok /\ q.setCsrf # None THEN q.setCsrf ELSE tab[t].csrf
    IN tab' = [tab EXCEPT ![t] =
         CASE q.kind = "logout" -> Blank
           [] q.kind = "me" -> [user |-> IF ok THEN q.user ELSE None, csrf |-> token]
           [] q.kind \in SignIn /\ ok -> [user |-> q.user, csrf |-> token]
           [] OTHER -> tab[t]]

\* The me() requests under way when a login's cookies come were sent with others.
Overtakes(q) ==
    overtaken' = (overtaken \/ (q.kind \in SignIn /\ jar' # jar /\ InFlight({"me"}) # {}))

HasAnswer(r) == At(r, "ok") \/ At(r, "acted") \/ At(r, "failed")

Drop(r) == req' = [req EXCEPT ![r] = None]

Receive(r) ==
    /\ HasAnswer(r)
    /\ LET q == req[r]
           ok == q.at = "ok"
       IN /\ q.tab # None
          /\ SetCookies(q) /\ Overtakes(q) /\ Shows(q, ok)
          /\ signedIn' = IF ok /\ q.kind \in SignIn THEN q.tab ELSE signedIn
    /\ Drop(r)
    /\ UNCHANGED <<now, server>>

\* The answer of a closed page: its cookies may still be kept.
ReceiveAbandoned(r) ==
    /\ HasAnswer(r)
    /\ req[r].tab = None
    /\ SetCookies(req[r]) \/ UNCHANGED jar
    /\ Overtakes(req[r])
    /\ signedIn' = IF jar' # jar THEN None ELSE signedIn
    /\ Drop(r)
    /\ UNCHANGED <<now, server, tab>>

\* The answer is lost: the page sees a network error.
Lose(r) ==
    /\ HasAnswer(r)
    /\ req[r].tab # None
    /\ Shows(req[r], FALSE)
    /\ Drop(r)
    /\ UNCHANGED <<now, server, jar, signedIn, overtaken>>

\* Both cookies end with the browser; no request outlives it.
CloseBrowser ==
    /\ InFlight(Kinds) = {}
    /\ jar' = [session |-> None, csrf |-> None]
    /\ tab' = [t \in Tabs |-> Blank]
    /\ signedIn' = None /\ overtaken' = FALSE
    /\ UNCHANGED <<now, server, req>>

(***************************************************************************)
(* The specification                                                       *)
(***************************************************************************)
ServerStep(r) ==
    \/ Register(r) \/ Login(r) \/ CreateSession(r) \/ Logout(r)
    \/ Check(r) \/ Purge(r) \/ TouchRead(r) \/ TouchWrite(r)
    \/ Me(r) \/ Read(r) \/ Mutate(r)

ClientStep(r) ==
    \/ \E t \in Tabs : Boot(r, t) \/ AskSignIn(r, t) \/ AskAsUser(r, t)
    \/ Receive(r) \/ ReceiveAbandoned(r) \/ Lose(r)

Next == Tick \/ CloseBrowser \/ \E r \in Requests : ServerStep(r) \/ ClientStep(r)

Spec == Init /\ [][Next]_vars

(***************************************************************************)
(* Properties                                                              *)
(***************************************************************************)
\* A session that was logged out, or purged, never works again, whichever
\* requests that had passed get_session_user are still about to touch it.
RevokedStaysRevoked ==
    [][\A s \in 1..minted : row[s] = None => row'[s] = None]_vars

\* No request is let through later than Ttl after the session's last use, nor
\* later than Cap after the login, however long requests take between check and
\* touch, and though touches land out of order (get_session_user, touch_session).
ServedWhileAlive ==
    [][\A r \in Requests : At(r, "sent") /\ req'[r] # None /\ req'[r].at = "touch" =>
         LET s == req[r].session IN
         now <= row[s].used + Ttl /\ now <= row[s].created + Cap]_vars

\* Nothing is uploaded, deleted or asked for another account than the one the
\* tab shows: when another tab signs in, the stale token in this tab's memory
\* stops it (verify_csrf, csrfToken).  Provided that no login's cookies came while
\* a me() was under way: otherwise that me() puts the old token back under the new
\* session, and its tab, which shows the old account, acts for the new one.
ActsAsShown ==
    ~ overtaken => \A r \in Requests : At(r, "acted") => req[r].user = req[r].shown

\* What api/csrf.py says of the token: it "must stay in sync with whatever value
\* the cookie above carries, since verify_csrf compares them".  A late me() breaks
\* it: the next mutation of the tab that signed in is refused.
StaysInSync ==
    signedIn # None /\ tab[signedIn].user # None => tab[signedIn].csrf = jar.csrf

\* The tab that signed in last has the token of the csrf cookie, which its next
\* mutation needs, whatever logouts, reloads and requests of other tabs come in
\* between, answered or lost; again as long as no me() was under way when a
\* login's cookies came (me() resends the cookie it was sent with).
TokenInSync == ~ overtaken => StaysInSync
=============================================================================
