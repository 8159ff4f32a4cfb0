--------------------------- MODULE SessionsProofs ---------------------------
(***************************************************************************)
(* Sessions: a revoked session stays revoked and nothing is served past    *)
(* its time, for any number of tabs and requests; and, as long as no me()  *)
(* is under way when a login's cookies come, tokens stay in step with the  *)
(* cookie and nothing is done for an account that the tab does not show.   *)
(***************************************************************************)
EXTENDS Sessions, TLAPS

Live(r) == req[r] # None

\* What a request has been through by each step of its handler.
Staged(q) ==
    /\ q.at = "row" => q.kind \in SignIn
    /\ q.at \in {"sent", "row"} /\ q.kind \in SignIn => q.user # None
    /\ q.at \in {"purge", "touch", "slide", "handle"} => q.kind \in Guarded
    /\ q.at \in {"purge", "touch", "slide"} => q.session # None
    /\ q.at = "acted" => q.kind = "ask"

StageInv == \A r \in Requests : Live(r) => Staged(req[r])

\* Nobody holds a number that was not minted yet.
Known(n) == n = None \/ n <= minted
Knows(q) == Known(q.session) /\ Known(q.cookie) /\ Known(q.header) /\ Known(q.setSession) /\ Known(q.setCsrf)

FreshInv ==
    /\ \A s \in Minted : ~ s <= minted => row[s] = None
    /\ Known(jar.session) /\ Known(jar.csrf)
    /\ \A t \in Tabs : Known(tab[t].csrf)
    /\ \A r \in Requests : Live(r) => Knows(req[r])

\* No expiry, written or about to be written, is further than Ttl from the last use.
AgeInv ==
    /\ \A s \in Minted : row[s] # None =>
         row[s].used <= now /\ row[s].expires <= row[s].used + Ttl
    /\ \A r \in Requests : At(r, "slide") /\ row[req[r].session] # None =>
         req[r].upto <= row[req[r].session].used + Ttl

SessionInv == TypeOK /\ StageInv /\ FreshInv /\ AgeInv

(***************************************************************************)
(* Types and stages                                                        *)
(***************************************************************************)
LEMMA SentTyped ==
    ASSUME TypeOK, FreshInv, NEW kind \in Kinds, NEW t \in Tabs, NEW u \in Users \cup {None},
           NEW memory \in [user : Users \cup {None}, csrf : Token], Known(memory.csrf),
           kind \in SignIn => u # None
    PROVE  LET q == Sent(kind, t, u, memory) IN
           /\ q \in Request /\ Staged(q) /\ q.at = "sent"
           /\ Knows(q)
  BY SessionsAssumption, SMTT(30)
     DEF TypeOK, FreshInv, Sent, Request, Staged, Steps, Kinds, Known, Knows, Token, SignIn, Guarded

LEMMA TypeStart == Init => SessionInv
  <1> SUFFICES ASSUME Init PROVE SessionInv
    OBVIOUS
  <1>1. TypeOK
    <2>1. now \in 0..MaxNow /\ minted \in 0..MaxMinted /\ accounts \subseteq Users
      BY SessionsAssumption DEF Init
    <2>2. row \in [Minted -> Row \cup {None}] /\ req \in [Requests -> Request \cup {None}]
      BY DEF Init
    <2>3. /\ jar \in [session : Token, csrf : Token]
          /\ tab \in [Tabs -> [user : Users \cup {None}, csrf : Token]]
          /\ signedIn \in Tabs \cup {None} /\ overtaken \in BOOLEAN
      BY DEF Init, Blank, Token
    <2> QED BY <2>1, <2>2, <2>3 DEF TypeOK
  <1>2. StageInv /\ FreshInv /\ AgeInv
    BY SessionsAssumption DEF Init, StageInv, FreshInv, AgeInv, Live, Known, Knows, Blank, At
  <1> QED BY <1>1, <1>2 DEF SessionInv

\* What becomes of a request in a step of its handler is a request again.
AnswerTo(q, step, session, csrf) ==
    [Answered(q, step) EXCEPT !.setSession = session, !.setCsrf = csrf]
Failure(q) == [Answered(q, "failed") EXCEPT !.user = None, !.shown = None]

LEMMA StepTyped ==
    ASSUME NEW q \in Request
    PROVE  /\ \A step \in Steps : [q EXCEPT !.at = step] \in Request
           /\ \A step \in Steps : Answered(q, step) \in Request
           /\ \A s \in Token \cup {0}, c \in Token : AnswerTo(q, "ok", s, c) \in Request
           /\ Failure(q) \in Request
  <1>1. \A step \in Steps : [q EXCEPT !.at = step] \in Request
    BY DEF Request
  <1>2. \A step \in Steps : Answered(q, step) \in Request
    BY DEF Request, Answered, Token
  <1>3. \A s \in Token \cup {0}, c \in Token : AnswerTo(q, "ok", s, c) \in Request
    BY DEF Request, Answered, AnswerTo, Token, Steps
  <1>4. Failure(q) \in Request
    BY DEF Request, Answered, Failure, Token, Steps
  <1> QED BY <1>1, <1>2, <1>3, <1>4

\* A step of a handler leaves a request of the right shape, and the rest alone.
Becomes(r) == \E q \in Request : Staged(q) /\ req' = [req EXCEPT ![r] = q]

LEMMA HandlerTyped ==
    ASSUME SessionInv, NEW r \in Requests, ServerStep(r)
    PROVE  req[r] # None /\ req[r] \in Request /\ Staged(req[r]) /\ Becomes(r)
  <1> USE SessionsAssumption
  <1>0. /\ req[r] # None /\ req[r] \in Request /\ Staged(req[r])
        /\ req \in [Requests -> Request \cup {None}] /\ minted \in 0..MaxMinted
        /\ accounts \subseteq Users /\ row \in [Minted -> Row \cup {None}] /\ now \in 0..MaxNow
    BY DEF SessionInv, TypeOK, StageInv, Live, ServerStep, Register, Login, CreateSession, Logout,
           Check, Purge, TouchRead, TouchWrite, Me, Read, Mutate, Handles, At
  <1>1. CASE Register(r) \/ Login(r)
    <2>1. req' = [req EXCEPT ![r] = [req[r] EXCEPT !.at = "row"]] \/ req' = [req EXCEPT ![r] = Failure(req[r])]
      BY <1>1 DEF Register, Login, Goes, Fails, Failure
    <2>2. Staged([req[r] EXCEPT !.at = "row"]) /\ Staged(Failure(req[r]))
      BY <1>1, <1>0 DEF Register, Login, Handles, At, Staged, Failure, Answered, Request, SignIn
    <2> QED BY <1>0, <2>1, <2>2, StepTyped DEF Becomes, Steps
  <1>2. CASE CreateSession(r)
    <2>1. minted + 1 \in Minted /\ minted' = minted + 1 /\ req[r].at = "row"
      BY <1>2, <1>0 DEF CreateSession, Minted, At
    <2>2. req' = [req EXCEPT ![r] = AnswerTo(req[r], "ok", minted + 1, minted + 1)]
      BY <1>2 DEF CreateSession, Answers, AnswerTo
    <2>3. Staged(AnswerTo(req[r], "ok", minted + 1, minted + 1))
      BY <2>1, <1>0 DEF Staged, AnswerTo, Answered, Request
    <2>4. AnswerTo(req[r], "ok", minted + 1, minted + 1) \in Request
      BY <2>1, <1>0, StepTyped DEF Token
    <2> QED BY <1>0, <2>1, <2>2, <2>3, <2>4 DEF Becomes
  <1>3. CASE Logout(r)
    <2>1. req' = [req EXCEPT ![r] = AnswerTo(req[r], "ok", 0, None)]
      BY <1>3 DEF Logout, Answers, AnswerTo
    <2>2. Staged(AnswerTo(req[r], "ok", 0, None))
      BY <1>3, <1>0 DEF Logout, Handles, At, Staged, AnswerTo, Answered, Request
    <2> QED BY <1>0, <2>1, <2>2, StepTyped DEF Becomes, Token
  <1>4. CASE Check(r)
    <2> DEFINE s == req[r].session
               passed == [req[r] EXCEPT !.at = IF Dead(s) THEN "purge" ELSE "touch", !.user = row[s].user]
    <2>1. CASE s = None \/ row[s] = None
      <3>1. req' = [req EXCEPT ![r] = Failure(req[r])]
        BY <1>4, <2>1 DEF Check, Fails, Failure
      <3>2. Staged(Failure(req[r]))
        BY <1>0 DEF Staged, Failure, Answered, Request
      <3> QED BY <1>0, <3>1, <3>2, StepTyped DEF Becomes
    <2>2. CASE ~ (s = None \/ row[s] = None)
      <3>1. s \in Minted /\ row[s] \in Row
        BY <1>0, <2>2 DEF Request, Token
      <3>2. req' = [req EXCEPT ![r] = passed]
        BY <1>4, <1>0, <2>2 DEF Check
      <3>3. Staged(passed) /\ passed \in Request
        BY <1>4, <1>0, <2>2, <3>1 DEF Check, Handles, At, Staged, Request, Row, Steps, Guarded
      <3> HIDE DEF passed
      <3> QED BY <1>0, <3>2, <3>3 DEF Becomes
    <2> QED BY <2>1, <2>2
  <1>5. CASE Purge(r)
    <2>1. req' = [req EXCEPT ![r] = Failure(req[r])]
      BY <1>5 DEF Purge, Fails, Failure
    <2>2. Staged(Failure(req[r]))
      BY <1>0 DEF Staged, Failure, Answered, Request
    <2> QED BY <1>0, <2>1, <2>2, StepTyped DEF Becomes
  <1>6. CASE TouchRead(r)
    <2> DEFINE slid == [req[r] EXCEPT !.at = "slide", !.upto = Slide(req[r].session)]
    <2>1. req[r].at = "touch" /\ req[r].session \in Minted /\ req[r].kind \in Guarded
      BY <1>6, <1>0 DEF TouchRead, At, Staged, Request, Token
    <2>2. CASE row[req[r].session] = None
      <3>1. req' = [req EXCEPT ![r] = [req[r] EXCEPT !.at = "handle"]]
        BY <1>6, <2>2 DEF TouchRead, Goes
      <3>2. Staged([req[r] EXCEPT !.at = "handle"])
        BY <1>0, <2>1 DEF Staged, Request
      <3> QED BY <1>0, <3>1, <3>2, StepTyped DEF Becomes, Steps
    <2>3. CASE row[req[r].session] # None
      <3>1. row[req[r].session] \in Row
        BY <1>0, <2>1, <2>3
      <3>2. Slide(req[r].session) \in 0..(MaxNow + Ttl)
        BY <1>0, <3>1 DEF Slide, Row
      <3>3. req' = [req EXCEPT ![r] = slid]
        BY <1>6, <1>0, <2>3 DEF TouchRead
      <3>4. Staged(slid) /\ slid \in Request
        BY <1>0, <2>1, <3>2 DEF Staged, Request, Steps
      <3> HIDE DEF slid
      <3> QED BY <1>0, <3>3, <3>4 DEF Becomes
    <2> QED BY <2>2, <2>3
  <1>7. CASE TouchWrite(r)
    <2> DEFINE done == [req[r] EXCEPT !.at = "handle", !.upto = 0]
    <2>1. req[r].kind \in Guarded /\ req' = [req EXCEPT ![r] = done]
      BY <1>7, <1>0 DEF TouchWrite, At, Staged
    <2>2. Staged(done)
      BY <1>0, <2>1 DEF Staged, Request
    <2>3. done \in Request
      <3>1. 0 \in 0..(MaxNow + Ttl)
        OBVIOUS
      <3> QED BY <1>0, <3>1 DEF Request, Steps
    <2> HIDE DEF done
    <2> QED BY <1>0, <2>1, <2>2, <2>3 DEF Becomes
  <1>8. CASE Me(r)
    <2> DEFINE token == IF req[r].cookie # None THEN req[r].cookie ELSE minted'
    <2>1. minted' \in 0..MaxMinted /\ minted <= minted' /\ token \in Token
      BY <1>8, <1>0 DEF Me, Request, Token, Minted
    <2>2. req' = [req EXCEPT ![r] = AnswerTo(req[r], "ok", None, token)]
      BY <1>8 DEF Me, Answers, AnswerTo
    <2> HIDE DEF token
    <2>3. Staged(AnswerTo(req[r], "ok", None, token))
      BY <1>0 DEF Staged, AnswerTo, Answered, Request
    <2> QED BY <1>0, <2>1, <2>2, <2>3, StepTyped DEF Becomes, Token
  <1>9. CASE Read(r) \/ Mutate(r)
    <2>1. \/ req' = [req EXCEPT ![r] = AnswerTo(req[r], "ok", None, None)]
          \/ req' = [req EXCEPT ![r] = Answered(req[r], "acted")]
          \/ req' = [req EXCEPT ![r] = Failure(req[r])]
      BY <1>9 DEF Read, Mutate, Answers, Fails, AnswerTo, Failure
    <2>2. Staged(AnswerTo(req[r], "ok", None, None)) /\ Staged(Answered(req[r], "acted")) /\ Staged(Failure(req[r]))
      BY <1>9, <1>0 DEF Read, Mutate, Handles, Staged, AnswerTo, Failure, Answered, Request
    <2> QED BY <1>0, <2>1, <2>2, StepTyped DEF Becomes, Steps, Token
  <1> QED BY <1>0, <1>1, <1>2, <1>3, <1>4, <1>5, <1>6, <1>7, <1>8, <1>9 DEF ServerStep

LEMMA HandlerFrame ==
    ASSUME SessionInv, NEW r \in Requests, ServerStep(r)
    PROVE  /\ now' = now /\ client' = client
           /\ minted' \in 0..MaxMinted /\ minted <= minted'
           /\ accounts' \subseteq Users
  <1>1. now' = now /\ client' = client
    BY DEF ServerStep, Register, Login, CreateSession, Logout, Check, Purge, TouchRead, TouchWrite, Me, Read, Mutate
  <1>2. minted' = minted \/ (minted < MaxMinted /\ minted' = minted + 1)
    BY DEF server, ServerStep, Register, Login, CreateSession, Logout, Check, Purge, TouchRead,
           TouchWrite, Me, Read, Mutate
  <1>3. minted' \in 0..MaxMinted /\ minted <= minted'
    BY <1>2, SessionsAssumption DEF SessionInv, TypeOK
  <1>4. req[r].user # None => req[r].user \in Users
    BY HandlerTyped DEF Request
  <1>5. accounts' = accounts \/ (accounts' = accounts \cup {req[r].user} /\ req[r].user # None)
    BY HandlerTyped DEF server, ServerStep, Register, Login, CreateSession, Logout, Check, Purge, TouchRead,
           TouchWrite, Me, Read, Mutate, Handles, At, Staged, SignIn
  <1> QED BY <1>1, <1>3, <1>4, <1>5 DEF SessionInv, TypeOK

(***************************************************************************)
(* The sessions table                                                      *)
(***************************************************************************)
\* A minted session keeps its user and its login time until its row goes, and
\* its row never comes back.
Kept ==
    \A s \in Minted : s <= minted /\ row'[s] # None =>
      /\ row[s] # None
      /\ row'[s].user = row[s].user /\ row[s].used <= row'[s].used

RowsTyped == row' \in [Minted -> Row \cup {None}]
RowsAged == \A s \in Minted : row'[s] # None =>
    row'[s].used <= now /\ row'[s].expires <= row'[s].used + Ttl
RowsFresh == \A s \in Minted : ~ s <= minted' => row'[s] = None

LEMMA RowsStep ==
    ASSUME SessionInv, NEW r \in Requests, ServerStep(r)
    PROVE  RowsTyped /\ Kept /\ RowsAged /\ RowsFresh
  <1> USE SessionsAssumption
  <1>0. /\ req[r] # None /\ req[r] \in Request /\ Staged(req[r])
        /\ minted \in 0..MaxMinted /\ now \in 0..MaxNow
        /\ row \in [Minted -> Row \cup {None}]
        /\ \A s \in Minted : ~ s <= minted => row[s] = None
        /\ \A s \in Minted : row[s] # None =>
              row[s].used <= now /\ row[s].expires <= row[s].used + Ttl
    BY HandlerTyped DEF SessionInv, TypeOK, FreshInv, AgeInv
  <1>a. \A s \in Minted : row[s] # None => row[s] \in Row /\ row[s].used \in Nat
    BY <1>0 DEF Row
  <1>1. CASE CreateSession(r)
    <2> DEFINE new == [user |-> req[r].user, created |-> now, used |-> now, expires |-> now + Ttl]
    <2>1. req[r].at = "row" /\ minted + 1 \in Minted /\ minted' = minted + 1
      BY <1>1, <1>0 DEF CreateSession, At, Minted
    <2>2. req[r].user \in Users
      BY <2>1, <1>0 DEF Staged, Request
    <2>3. now + Ttl \in 0..(MaxNow + Ttl) /\ now <= now
      BY <1>0
    <2>4. new \in Row /\ new.used = now /\ new.expires = now + Ttl
      BY <2>2, <2>3, <1>0 DEF Row
    <2>5. row' = [row EXCEPT ![minted + 1] = new]
      BY <1>1 DEF CreateSession
    <2> HIDE DEF new
    <2>6. RowsTyped
      BY <2>1, <2>4, <2>5, <1>0 DEF RowsTyped
    <2>7. ~ minted + 1 <= minted
      BY <1>0
    <2>8. \A s \in Minted : row'[s] = IF s = minted + 1 THEN new ELSE row[s]
      BY <2>5, <1>0
    <2>9. Kept
      BY <2>7, <2>8, <1>a DEF Kept
    <2>10. RowsAged
      BY <2>3, <2>4, <2>8, <1>0 DEF RowsAged
    <2>11. RowsFresh
      <3>1. \A s \in Minted : ~ s <= minted + 1 => ~ s <= minted /\ s # minted + 1
        BY <1>0 DEF Minted
      <3> QED BY <2>1, <2>8, <3>1, <1>0 DEF RowsFresh
    <2> QED BY <2>6, <2>9, <2>10, <2>11
  <1>2. CASE Logout(r) \/ Purge(r)
    <2>1. row' \in [Minted -> Row \cup {None}] /\ minted' = minted
          /\ \A s \in Minted : row'[s] \in {None, row[s]}
      BY <1>2, <1>0 DEF Logout, Purge
    <2> QED BY <2>1, <1>0, <1>a DEF RowsTyped, Kept, RowsAged, RowsFresh
  <1>3. CASE TouchRead(r)
    <2> DEFINE s == req[r].session
    <2>1. minted' = minted /\ s \in Minted
      BY <1>3, <1>0 DEF TouchRead, At, Staged, Request, Token
    <2>2. CASE row[s] = None
      BY <1>3, <2>1, <2>2, <1>0, <1>a DEF TouchRead, RowsTyped, Kept, RowsAged, RowsFresh
    <2>3. CASE row[s] # None
      <3> DEFINE touched == [row[s] EXCEPT !.used = now]
      <3>1. row' = [row EXCEPT ![s] = touched]
        BY <1>3, <2>3 DEF TouchRead
      <3>2. touched \in Row /\ touched.used = now /\ touched.user = row[s].user
            /\ touched.expires = row[s].expires
        BY <2>1, <2>3, <1>0, <1>a DEF Row
      <3>3. row[s].used <= now /\ row[s].expires <= now + Ttl /\ now <= now
        <4>1. row[s].used \in Nat /\ row[s].expires \in Nat
          BY <2>1, <2>3, <1>a DEF Row
        <4> QED BY <2>1, <2>3, <4>1, <1>0
      <3> HIDE DEF touched, s
      <3>4. \A t \in Minted : row'[t] = IF t = s THEN touched ELSE row[t]
        BY <3>1, <1>0
      <3>5. RowsTyped
        BY <3>1, <3>2, <1>0, <2>1 DEF RowsTyped
      <3>6. Kept
        BY <3>2, <3>3, <3>4, <2>3, <1>a DEF Kept
      <3>7. RowsAged
        BY <3>2, <3>3, <3>4, <1>0 DEF RowsAged
      <3>8. RowsFresh
        BY <3>4, <2>1, <2>3, <1>0 DEF RowsFresh
      <3> QED BY <3>5, <3>6, <3>7, <3>8
    <2> QED BY <2>2, <2>3
  <1>4. CASE TouchWrite(r)
    <2> DEFINE s == req[r].session
    <2>1. minted' = minted /\ s \in Minted /\ req[r].upto \in 0..(MaxNow + Ttl)
      BY <1>4, <1>0 DEF TouchWrite, At, Staged, Request, Token
    <2>2. CASE row[s] = None
      BY <1>4, <2>1, <2>2, <1>0, <1>a DEF TouchWrite, RowsTyped, Kept, RowsAged, RowsFresh
    <2>3. CASE row[s] # None
      <3> DEFINE slid == [row[s] EXCEPT !.expires = req[r].upto]
      <3>1. row' = [row EXCEPT ![s] = slid]
        BY <1>4, <2>3 DEF TouchWrite
      <3>2. slid \in Row /\ slid.used = row[s].used /\ slid.user = row[s].user
            /\ slid.expires = req[r].upto
        BY <2>1, <2>3, <1>a DEF Row
      <3>3. req[r].upto <= row[s].used + Ttl /\ row[s].used <= row[s].used
        BY <1>4, <2>1, <2>3, <1>a DEF TouchWrite, SessionInv, AgeInv
      <3> HIDE DEF slid, s
      <3>4. \A t \in Minted : row'[t] = IF t = s THEN slid ELSE row[t]
        BY <3>1, <1>0
      <3>5. RowsTyped
        BY <3>1, <3>2, <1>0, <2>1 DEF RowsTyped
      <3>6. Kept
        BY <3>2, <3>3, <3>4, <2>3, <1>a DEF Kept
      <3>7. RowsAged
        BY <2>1, <2>3, <3>2, <3>3, <3>4, <1>0 DEF RowsAged
      <3>8. RowsFresh
        BY <3>4, <2>1, <2>3, <1>0 DEF RowsFresh
      <3> QED BY <3>5, <3>6, <3>7, <3>8
    <2> QED BY <2>2, <2>3
  <1>5. CASE Register(r) \/ Login(r) \/ Check(r) \/ Me(r) \/ Read(r) \/ Mutate(r)
    <2>1. row' = row
      BY <1>5 DEF server, Register, Login, Check, Me, Read, Mutate
    <2>2. minted' \in Nat /\ minted <= minted' /\ minted \in Nat
      BY HandlerFrame, <1>0
    <2>3. \A s \in Minted : ~ s <= minted' => ~ s <= minted
      BY <2>2 DEF Minted
    <2> QED BY <2>1, <2>3, <1>0, <1>a DEF RowsTyped, Kept, RowsAged, RowsFresh
  <1> QED BY <1>1, <1>2, <1>3, <1>4, <1>5 DEF ServerStep

\* The next form of a request, handler by handler.
Passed(r) == [req[r] EXCEPT !.at = IF Dead(req[r].session) THEN "purge" ELSE "touch",
                            !.user = row[req[r].session].user]
Slid(r) == [req[r] EXCEPT !.at = "slide", !.upto = Slide(req[r].session)]
MeToken(q) == IF q.cookie # None THEN q.cookie ELSE minted'

LEMMA HandlerForms ==
    ASSUME SessionInv, NEW r \in Requests, req[r] # None
    PROVE  /\ Register(r) \/ Login(r) => (req'[r] = [req[r] EXCEPT !.at = "row"] \/ req'[r] = Failure(req[r]))
           /\ CreateSession(r) => req'[r] = AnswerTo(req[r], "ok", minted', minted')
           /\ Logout(r) => req'[r] = AnswerTo(req[r], "ok", 0, None)
           /\ Check(r) => (req'[r] = Failure(req[r]) \/ req'[r] = Passed(r))
           /\ Purge(r) => req'[r] = Failure(req[r])
           /\ TouchRead(r) => (req'[r] = [req[r] EXCEPT !.at = "handle"] \/ req'[r] = Slid(r))
           /\ TouchWrite(r) => req'[r] = [req[r] EXCEPT !.at = "handle", !.upto = 0]
           /\ Me(r) => req'[r] = AnswerTo(req[r], "ok", None, MeToken(req[r]))
           /\ Read(r) => req'[r] = AnswerTo(req[r], "ok", None, None)
           /\ Mutate(r) => (req'[r] = Answered(req[r], "acted") \/ req'[r] = Failure(req[r]))
  <1>0. req \in [Requests -> Request \cup {None}]
    BY DEF SessionInv, TypeOK
  <1>1. Register(r) \/ Login(r) => (req'[r] = [req[r] EXCEPT !.at = "row"] \/ req'[r] = Failure(req[r]))
    BY <1>0 DEF Register, Login, Goes, Fails, Failure
  <1>2. CreateSession(r) => req'[r] = AnswerTo(req[r], "ok", minted', minted')
    BY <1>0 DEF CreateSession, Answers, AnswerTo
  <1>3. Logout(r) => req'[r] = AnswerTo(req[r], "ok", 0, None)
    BY <1>0 DEF Logout, Answers, AnswerTo
  <1>4. Check(r) => (req'[r] = Failure(req[r]) \/ req'[r] = Passed(r))
    BY <1>0 DEF Check, Fails, Failure, Passed
  <1>5. Purge(r) => req'[r] = Failure(req[r])
    BY <1>0 DEF Purge, Fails, Failure
  <1>6. TouchRead(r) => (req'[r] = [req[r] EXCEPT !.at = "handle"] \/ req'[r] = Slid(r))
    BY <1>0 DEF TouchRead, Goes, Slid
  <1>7. TouchWrite(r) => req'[r] = [req[r] EXCEPT !.at = "handle", !.upto = 0]
    BY <1>0 DEF TouchWrite
  <1>8. Me(r) => req'[r] = AnswerTo(req[r], "ok", None, MeToken(req[r]))
    BY <1>0 DEF Me, Answers, AnswerTo, MeToken
  <1>9. Read(r) => req'[r] = AnswerTo(req[r], "ok", None, None)
    BY <1>0 DEF Read, Answers, AnswerTo
  <1>10. Mutate(r) => (req'[r] = Answered(req[r], "acted") \/ req'[r] = Failure(req[r]))
    BY <1>0 DEF Mutate, Fails, Failure
  <1> QED BY <1>1, <1>2, <1>3, <1>4, <1>5, <1>6, <1>7, <1>8, <1>9, <1>10

\* What a handler puts in an answer was brought by the request or is just minted.
LEMMA NumbersStep ==
    ASSUME SessionInv, NEW r \in Requests, ServerStep(r), NEW q \in Requests, Live(q)'
    PROVE  Knows(req[q])'
  <1> USE SessionsAssumption
  <1>0. /\ req[r] # None /\ req[r] \in Request /\ Staged(req[r]) /\ Knows(req[r])
        /\ req \in [Requests -> Request \cup {None}]
        /\ minted \in Nat /\ minted' \in Nat /\ minted <= minted'
    BY HandlerTyped, HandlerFrame DEF SessionInv, TypeOK, FreshInv, Live
  <1> DEFINE K(n) == n = None \/ n <= minted'
             KAll(x) == K(x.session) /\ K(x.cookie) /\ K(x.header) /\ K(x.setSession) /\ K(x.setCsrf)
  <1>1. \A n \in Token \cup {0} : Known(n) => K(n)
    BY <1>0 DEF Known, Token, Minted
  <1>2. SUFFICES KAll(req'[q])
    BY DEF Knows, Known
  <1>3. CASE q # r
    <2>1. req'[q] = req[q] /\ req[q] # None /\ req[q] \in Request
      BY <1>3, <1>0, HandlerTyped DEF Becomes, Live
    <2>2. Knows(req[q])
      BY <2>1 DEF SessionInv, FreshInv, Live
    <2> QED BY <1>1, <2>1, <2>2 DEF Knows, Request
  <1>4. CASE q = r
    <2>1. K(None) /\ K(0) /\ K(minted')
      BY <1>0
    <2>2. KAll(req[r])
      BY <1>0, <1>1 DEF Knows, Request
    <2> HIDE DEF K
    <2>4. KAll(Failure(req[r])) /\ KAll(Answered(req[r], "acted"))
      BY <2>1, <2>2, <1>0 DEF Request, Failure, Answered
    <2>5. \A s, c : K(s) /\ K(c) => KAll(AnswerTo(req[r], "ok", s, c))
      BY <2>1, <1>0 DEF Request, AnswerTo, Answered
    <2>6. KAll(req[r]) /\ \A step : KAll([req[r] EXCEPT !.at = step])
      BY <2>2, <1>0 DEF Request
    <2> HIDE DEF KAll
    <2>7. CASE Register(r) \/ Login(r) \/ Purge(r)
      <3>1. req'[r] = [req[r] EXCEPT !.at = "row"] \/ req'[r] = Failure(req[r])
        BY <2>7, <1>0, HandlerForms
      <3> QED BY <3>1, <2>4, <2>6, <1>4
    <2>8. CASE CreateSession(r) \/ Logout(r) \/ Read(r) \/ Mutate(r)
      <3>1. \/ req'[r] = AnswerTo(req[r], "ok", minted', minted')
            \/ req'[r] = AnswerTo(req[r], "ok", 0, None) \/ req'[r] = AnswerTo(req[r], "ok", None, None)
            \/ req'[r] = Answered(req[r], "acted") \/ req'[r] = Failure(req[r])
        BY <2>8, <1>0, HandlerForms
      <3> QED BY <3>1, <2>1, <2>4, <2>5, <1>4
    <2>9. CASE Check(r)
      <3>1. KAll(Passed(r))
        BY <2>2, <1>0 DEF KAll, Request, Passed
      <3> QED BY <2>9, <3>1, <2>4, <1>4, <1>0, HandlerForms
    <2>10. CASE TouchRead(r) \/ TouchWrite(r)
      <3>1. KAll(Slid(r)) /\ KAll([req[r] EXCEPT !.at = "handle", !.upto = 0])
        BY <2>2, <1>0 DEF KAll, Request, Slid
      <3>2. \/ req'[r] = [req[r] EXCEPT !.at = "handle"] \/ req'[r] = Slid(r)
            \/ req'[r] = [req[r] EXCEPT !.at = "handle", !.upto = 0]
        BY <2>10, <1>0, HandlerForms
      <3> QED BY <3>1, <3>2, <2>6, <1>4
    <2>11. CASE Me(r)
      <3>1. K(MeToken(req[r]))
        BY <2>1, <2>2 DEF KAll, MeToken
      <3>2. req'[r] = AnswerTo(req[r], "ok", None, MeToken(req[r]))
        BY <2>11, <1>0, HandlerForms
      <3> QED BY <3>1, <3>2, <2>1, <2>5, <1>4
    <2> QED BY <2>7, <2>8, <2>9, <2>10, <2>11 DEF ServerStep
  <1> QED BY <1>3, <1>4

\* The expiry that a touch is about to write was computed by that touch.
LEMMA SlidesStep ==
    ASSUME SessionInv, NEW r \in Requests, ServerStep(r), NEW q \in Requests,
           At(q, "slide")', row'[req'[q].session] # None
    PROVE  req'[q].upto <= row'[req'[q].session].used + Ttl
  <1> USE SessionsAssumption
  <1>0. /\ req[r] # None /\ req[r] \in Request /\ Staged(req[r])
        /\ req \in [Requests -> Request \cup {None}] /\ now \in 0..MaxNow
        /\ row \in [Minted -> Row \cup {None}] /\ minted \in 0..MaxMinted
    BY HandlerTyped DEF SessionInv, TypeOK
  <1>1. CASE q # r
    <2>1. req'[q] = req[q] /\ req[q] # None /\ req[q] \in Request /\ req[q].at = "slide"
      BY <1>1, <1>0, HandlerTyped DEF Becomes, At
    <2> DEFINE s == req[q].session
    <2>2. s \in Minted /\ s <= minted
      BY <2>1, SessionsAssumption DEF SessionInv, StageInv, Staged, FreshInv, Knows, Known, Live, Request, Token
    <2>3. row[s] # None /\ row[s].used <= row'[s].used
      BY <2>1, <2>2, RowsStep DEF Kept
    <2>4. req[q].upto <= row[s].used + Ttl
      BY <2>1, <2>3 DEF SessionInv, AgeInv, At
    <2>5. row[s].used \in Nat /\ row'[s].used \in Nat /\ req[q].upto \in Nat
      BY <2>1, <2>2, <2>3, <1>0, RowsStep DEF RowsTyped, Row, Request
    <2> QED BY <2>1, <2>3, <2>4, <2>5
  <1>2. CASE q = r
    <2>1. CASE TouchRead(r)
      <3> DEFINE s == req[r].session
      <3>1. s \in Minted /\ req[r].at = "touch"
        BY <2>1, <1>0 DEF TouchRead, At, Staged, Request, Token
      <3>2. row[s] # None
        <4> SUFFICES ASSUME row[s] = None PROVE FALSE OBVIOUS
        <4>1. req'[r] = [req[r] EXCEPT !.at = "handle"]
          BY <2>1, <1>0 DEF TouchRead, Goes
        <4> QED BY <1>0, <1>2, <4>1 DEF At, Request
      <3>3. row[s].created \in Nat /\ row[s] \in Row
        BY <3>1, <3>2, <1>0 DEF Row
      <3>4. req'[r] = [req[r] EXCEPT !.at = "slide", !.upto = Slide(s)]
        BY <2>1, <1>0, <3>2 DEF TouchRead
      <3>5. req'[r].upto = Slide(s) /\ req'[r].session = s
        BY <3>4, <1>0 DEF Request
      <3>6. row'[s].used = now
        BY <2>1, <1>0, <3>1, <3>2, <3>3 DEF TouchRead, Row
      <3>7. Slide(s) <= now + Ttl
        BY <1>0, <3>3 DEF Slide
      <3> QED BY <1>2, <3>5, <3>6, <3>7
    <2>2. CASE ~ TouchRead(r)
      <3>1. req'[r].at # "slide"
        <4>1. CASE Register(r) \/ Login(r) \/ Purge(r) \/ Mutate(r)
          <5>1. \/ req'[r] = [req[r] EXCEPT !.at = "row"] \/ req'[r] = Failure(req[r])
                \/ req'[r] = Answered(req[r], "acted")
            BY <4>1, <1>0, HandlerForms
          <5> QED BY <5>1, <1>0 DEF Failure, Answered, Request
        <4>2. CASE CreateSession(r) \/ Logout(r) \/ Me(r) \/ Read(r)
          <5>1. \A x, y : AnswerTo(req[r], "ok", x, y).at = "ok"
            BY <1>0 DEF AnswerTo, Answered, Request
          <5>2. \/ req'[r] = AnswerTo(req[r], "ok", minted', minted')
                \/ req'[r] = AnswerTo(req[r], "ok", 0, None) \/ req'[r] = AnswerTo(req[r], "ok", None, None)
                \/ req'[r] = AnswerTo(req[r], "ok", None, MeToken(req[r]))
            BY <4>2, <1>0, HandlerForms
          <5> QED BY <5>1, <5>2
        <4>3. CASE Check(r)
          <5>1. req'[r] = Failure(req[r]) \/ req'[r] = Passed(r)
            BY <4>3, <1>0, HandlerForms
          <5> QED BY <5>1, <1>0 DEF Failure, Answered, Passed, Request
        <4>4. CASE TouchWrite(r)
          <5>1. req'[r] = [req[r] EXCEPT !.at = "handle", !.upto = 0]
            BY <4>4, <1>0, HandlerForms
          <5> QED BY <5>1, <1>0 DEF Request
        <4> QED BY <4>1, <4>2, <4>3, <4>4, <2>2 DEF ServerStep
      <3> QED BY <2>2, <1>2, <3>1 DEF At
    <2> QED BY <2>1, <2>2
  <1> QED BY <1>1, <1>2

LEMMA ServerKeeps ==
    ASSUME SessionInv, NEW r \in Requests, ServerStep(r)
    PROVE  SessionInv'
  <1> USE SessionsAssumption
  <1>0. /\ req[r] # None /\ req[r] \in Request /\ Staged(req[r]) /\ Becomes(r)
        /\ req \in [Requests -> Request \cup {None}]
    BY HandlerTyped DEF SessionInv, TypeOK
  <1>1. TypeOK'
    <2>1. req' \in [Requests -> Request \cup {None}]
      BY <1>0 DEF Becomes
    <2>2. row' \in [Minted -> Row \cup {None}]
      BY RowsStep DEF RowsTyped
    <2>3. jar' = jar /\ tab' = tab /\ signedIn' = signedIn /\ overtaken' = overtaken /\ now' = now
      BY HandlerFrame DEF client
    <2> QED BY <2>1, <2>2, <2>3, HandlerFrame DEF SessionInv, TypeOK
  <1>2. StageInv'
    <2>1. ASSUME NEW q \in Requests, req'[q] # None PROVE Staged(req'[q])
      BY <1>0, <2>1 DEF Becomes, SessionInv, StageInv, Live
    <2> QED BY <2>1 DEF StageInv, Live, Staged, SignIn, Guarded
  <1>3. FreshInv'
    <2>1. jar' = jar /\ tab' = tab /\ minted <= minted' /\ minted' \in Nat /\ minted \in Nat
      BY HandlerFrame DEF client, SessionInv, TypeOK
    <2>2. \A n \in Token : n = None \/ n <= minted => n = None \/ n <= minted'
      BY <2>1 DEF Token, Minted
    <2>3. jar.session \in Token /\ jar.csrf \in Token /\ \A t \in Tabs : tab[t].csrf \in Token
      BY DEF SessionInv, TypeOK
    <2>4. Known(jar.session)' /\ Known(jar.csrf)' /\ \A t \in Tabs : Known(tab[t].csrf)'
      BY <2>1, <2>2, <2>3 DEF Known, SessionInv, FreshInv
    <2>5. \A s \in Minted : ~ s <= minted' => row'[s] = None
      BY RowsStep DEF RowsFresh
    <2>6. \A q \in Requests : Live(q)' => Knows(req[q])'
      BY NumbersStep
    <2> QED BY <2>4, <2>5, <2>6 DEF FreshInv
  <1>4. AgeInv'
    <2>1. now' = now
      BY HandlerFrame
    <2>2. \A s \in Minted : row'[s] # None =>
            row'[s].used <= now' /\ row'[s].expires <= row'[s].used + Ttl
      BY <2>1, RowsStep DEF RowsAged
    <2> QED BY <2>2, SlidesStep DEF AgeInv
  <1> QED BY <1>1, <1>2, <1>3, <1>4 DEF SessionInv

(***************************************************************************)
(* The browser's steps, and time                                           *)
(***************************************************************************)
Memory == [user : Users \cup {None}, csrf : Token]

\* What the browser sends, and that the rest is as it was but for its page.
LEMMA Sending ==
    ASSUME SessionInv, NEW r \in Requests, NEW t \in Tabs, Boot(r, t) \/ AskSignIn(r, t) \/ AskAsUser(r, t)
    PROVE  /\ \/ Boot(r, t) /\ req'[r] = Sent("me", t, None, Blank)
              \/ \E kind \in SignIn, u \in Users : AskSignIn(r, t) /\ req'[r] = Sent(kind, t, u, tab[t])
              \/ \E kind \in {"ask", "logout"} : AskAsUser(r, t) /\ req'[r] = Sent(kind, t, None, tab[t])
           /\ \A q \in Requests : q # r =>
                req'[q] = req[q] \/ (req[q] # None /\ req'[q] = [req[q] EXCEPT !.tab = None])
           /\ DOMAIN req' = Requests /\ req' = [q \in Requests |-> req'[q]]
  <1>0. req \in [Requests -> Request \cup {None}]
    BY DEF SessionInv, TypeOK
  <1>1. CASE Boot(r, t)
    BY <1>1 DEF Boot
  <1>2. CASE AskSignIn(r, t)
    BY <1>2, <1>0 DEF AskSignIn, Send
  <1>3. CASE AskAsUser(r, t)
    BY <1>3, <1>0 DEF AskAsUser, Send
  <1> QED BY <1>1, <1>2, <1>3

\* A request as good as the one it was: of the right shape, with known numbers.
Sound(q) == q = None \/ (q \in Request /\ Staged(q) /\ Knows(q))
SameSlide(r) == req'[r] # None /\ req'[r].at \in {"touch", "slide"} =>
    /\ req[r] # None /\ req[r].at = req'[r].at
    /\ req'[r].upto = req[r].upto /\ req'[r].session = req[r].session

LEMMA SentSound ==
    ASSUME SessionInv, NEW r \in Requests, NEW t \in Tabs, Boot(r, t) \/ AskSignIn(r, t) \/ AskAsUser(r, t)
    PROVE  \A q \in Requests : Sound(req'[q]) /\ SameSlide(q)
  <1> USE SessionsAssumption
  <1>0. /\ req \in [Requests -> Request \cup {None}]
        /\ \A q \in Requests : Sound(req[q])
        /\ tab[t] \in Memory /\ Known(tab[t].csrf) /\ Blank \in Memory /\ Known(Blank.csrf)
        /\ \A u \in Users : u # None
    BY DEF SessionInv, TypeOK, StageInv, FreshInv, Live, Sound, Memory, Blank, Known, Token
  <1>1. ASSUME NEW q \in Requests, q # r PROVE Sound(req'[q]) /\ SameSlide(q)
    <2>1. CASE req'[q] = req[q]
      BY <2>1, <1>0 DEF SameSlide
    <2>2. CASE req[q] # None /\ req'[q] = [req[q] EXCEPT !.tab = None]
      <3>1. req[q] \in Request /\ Staged(req[q]) /\ Knows(req[q])
        BY <2>2, <1>0 DEF Sound
      <3>2. req'[q] \in Request
        BY <2>2, <3>1 DEF Request
      <3>3. Staged(req'[q]) /\ Knows(req'[q])
        BY <2>2, <3>1 DEF Staged, Knows, Request
      <3>4. SameSlide(q)
        BY <2>2, <3>1 DEF SameSlide, Request
      <3> QED BY <3>2, <3>3, <3>4 DEF Sound
    <2> QED BY <1>1, <2>1, <2>2, Sending
  <1>2. Sound(req'[r]) /\ SameSlide(r)
    <2>1. ASSUME NEW kind \in Kinds, NEW u \in Users \cup {None}, NEW memory \in Memory, Known(memory.csrf),
                 kind \in SignIn => u # None
          PROVE  Sound(Sent(kind, t, u, memory)) /\ Sent(kind, t, u, memory).at = "sent"
      BY <2>1, SentTyped DEF SessionInv, Sound, Memory
    <2>2. \/ req'[r] = Sent("me", t, None, Blank)
          \/ \E kind \in SignIn, u \in Users : req'[r] = Sent(kind, t, u, tab[t])
          \/ \E kind \in {"ask", "logout"} : req'[r] = Sent(kind, t, None, tab[t])
      BY Sending
    <2>3. Sound(req'[r]) /\ req'[r].at = "sent"
      <3>1. CASE req'[r] = Sent("me", t, None, Blank)
        BY <3>1, <2>1, <1>0 DEF Kinds, SignIn
      <3>2. ASSUME NEW kind \in SignIn, NEW u \in Users, req'[r] = Sent(kind, t, u, tab[t])
            PROVE  Sound(req'[r]) /\ req'[r].at = "sent"
        BY <3>2, <2>1, <1>0 DEF Kinds, SignIn
      <3>3. ASSUME NEW kind \in {"ask", "logout"}, req'[r] = Sent(kind, t, None, tab[t])
            PROVE  Sound(req'[r]) /\ req'[r].at = "sent"
        BY <3>3, <2>1, <1>0 DEF Kinds, SignIn
      <3> QED BY <2>2, <3>1, <3>2, <3>3
    <2> QED BY <2>3 DEF SameSlide
  <1> QED BY <1>1, <1>2

\* The cookies and the tabs' memory stay typed, and know only minted tokens.
ClientTyped ==
    /\ jar' \in [session : Token, csrf : Token] /\ tab' \in [Tabs -> Memory]
    /\ signedIn' \in Tabs \cup {None} /\ overtaken' \in BOOLEAN
    /\ Known(jar'.session) /\ Known(jar'.csrf) /\ \A t \in Tabs : Known(tab'[t].csrf)

LEMMA CookiesTyped ==
    ASSUME SessionInv, NEW q \in Request, Knows(q), SetCookies(q)
    PROVE  jar' \in [session : Token, csrf : Token] /\ Known(jar'.session) /\ Known(jar'.csrf)
  <1> USE SessionsAssumption
  <1>1. jar \in [session : Token, csrf : Token] /\ Known(jar.session) /\ Known(jar.csrf) /\ Known(None)
    BY DEF SessionInv, TypeOK, FreshInv, Known
  <1> DEFINE s == CASE q.setSession = None -> jar.session
                    [] q.setSession = 0 -> None
                    [] OTHER -> q.setSession
             c == IF q.setCsrf = None THEN jar.csrf ELSE q.setCsrf
  <1>2. s \in Token /\ Known(s)
    BY <1>1 DEF Request, Token, Knows
  <1>3. c \in Token /\ Known(c)
    BY <1>1 DEF Request, Knows
  <1>4. jar' = [session |-> s, csrf |-> c]
    BY DEF SetCookies
  <1> QED BY <1>2, <1>3, <1>4

LEMMA ShowsTyped ==
    ASSUME SessionInv, NEW q \in Request, Knows(q), NEW ok \in BOOLEAN, q.tab # None, Shows(q, ok)
    PROVE  tab' \in [Tabs -> Memory] /\ \A t \in Tabs : Known(tab'[t].csrf)
  <1> USE SessionsAssumption
  <1>1. tab \in [Tabs -> Memory] /\ (\A t \in Tabs : Known(tab[t].csrf)) /\ Known(None)
        /\ q.tab \in Tabs
    BY DEF SessionInv, TypeOK, FreshInv, Known, Memory, Request
  <1> DEFINE token == IF ok /\ q.setCsrf # None THEN q.setCsrf ELSE tab[q.tab].csrf
             shown == CASE q.kind = "logout" -> Blank
                        [] q.kind = "me" -> [user |-> IF ok THEN q.user ELSE None, csrf |-> token]
                        [] q.kind \in SignIn /\ ok -> [user |-> q.user, csrf |-> token]
                        [] OTHER -> tab[q.tab]
  <1>2. token \in Token /\ Known(token)
    BY <1>1 DEF Request, Knows, Memory
  <1>3. tab' = [tab EXCEPT ![q.tab] = shown]
    BY DEF Shows
  <1>4. shown \in Memory /\ Known(shown.csrf)
    <2> HIDE DEF token
    <2>1. Blank \in Memory /\ Blank.csrf = None
      BY DEF Blank, Memory, Token
    <2>2. \A u \in Users \cup {None} : [user |-> u, csrf |-> token] \in Memory
      BY <1>2 DEF Memory
    <2>3. q.user \in Users \cup {None} /\ (IF ok THEN q.user ELSE None) \in Users \cup {None}
      BY DEF Request
    <2>4. \A u : [user |-> u, csrf |-> token].csrf = token
      OBVIOUS
    <2>5. shown \in {Blank, [user |-> IF ok THEN q.user ELSE None, csrf |-> token],
                     [user |-> q.user, csrf |-> token], tab[q.tab]}
      OBVIOUS
    <2> HIDE DEF shown
    <2> QED BY <1>1, <1>2, <2>1, <2>2, <2>3, <2>4, <2>5
  <1> HIDE DEF shown
  <1> QED BY <1>1, <1>3, <1>4

ClientShape ==
    /\ ClientTyped /\ now' = now /\ server' = server
    /\ req' \in [Requests -> Request \cup {None}]
    /\ \A q \in Requests : Sound(req'[q]) /\ SameSlide(q)

LEMMA ClientStepTyped ==
    ASSUME SessionInv, NEW r \in Requests, ClientStep(r)
    PROVE  ClientShape
  <1>0. /\ req \in [Requests -> Request \cup {None}]
        /\ \A q \in Requests : Sound(req[q])
        /\ jar \in [session : Token, csrf : Token] /\ tab \in [Tabs -> Memory]
        /\ Known(jar.session) /\ Known(jar.csrf) /\ (\A t \in Tabs : Known(tab[t].csrf))
        /\ signedIn \in Tabs \cup {None} /\ overtaken \in BOOLEAN /\ Blank \in Memory /\ Known(Blank.csrf)
    BY DEF SessionInv, TypeOK, StageInv, FreshInv, Live, Sound, Memory, Blank, Known, Token
  <1>1. ASSUME NEW t \in Tabs, Boot(r, t) \/ AskSignIn(r, t) \/ AskAsUser(r, t)
        PROVE  ClientShape
    <2>1. \A q \in Requests : Sound(req'[q]) /\ SameSlide(q)
      BY <1>1, SentSound
    <2>2. req' = [q \in Requests |-> req'[q]]
      BY <1>1, Sending
    <2>3. req' \in [Requests -> Request \cup {None}]
      BY <2>1, <2>2 DEF Sound
    <2>4. now' = now /\ server' = server /\ jar' = jar /\ signedIn' = signedIn /\ overtaken' = overtaken
          /\ (tab' = tab \/ tab' = [tab EXCEPT ![t] = Blank])
      BY <1>1 DEF Boot, AskSignIn, AskAsUser, client
    <2>5. ClientTyped
      BY <1>0, <2>4 DEF ClientTyped
    <2> QED BY <2>1, <2>3, <2>4, <2>5 DEF ClientShape
  <1>2. CASE Receive(r) \/ ReceiveAbandoned(r) \/ Lose(r)
    <2>1. req[r] \in Request /\ Knows(req[r])
      BY <1>2, <1>0 DEF Receive, ReceiveAbandoned, Lose, HasAnswer, At, Sound
    <2>2. req' = [req EXCEPT ![r] = None]
      BY <1>2 DEF Receive, ReceiveAbandoned, Lose, Drop
    <2>3. \A q \in Requests : Sound(req'[q]) /\ SameSlide(q)
      BY <1>0, <2>2 DEF Sound, SameSlide
    <2>4. req' \in [Requests -> Request \cup {None}]
      BY <1>0, <2>2
    <2>5. now' = now /\ server' = server
      BY <1>2 DEF Receive, ReceiveAbandoned, Lose
    <2>6. jar' \in [session : Token, csrf : Token] /\ Known(jar'.session) /\ Known(jar'.csrf)
      <3>1. SetCookies(req[r]) \/ jar' = jar
        BY <1>2 DEF Receive, ReceiveAbandoned, Lose
      <3> QED BY <3>1, <1>0, <2>1, CookiesTyped
    <2>7. tab' \in [Tabs -> Memory] /\ \A t \in Tabs : Known(tab'[t].csrf)
      <3>1. \/ \E ok \in BOOLEAN : req[r].tab # None /\ Shows(req[r], ok)
            \/ tab' = tab
        BY <1>2 DEF Receive, ReceiveAbandoned, Lose
      <3> QED BY <3>1, <1>0, <2>1, ShowsTyped
    <2>8. signedIn' \in Tabs \cup {None} /\ overtaken' \in BOOLEAN
      BY <1>2, <1>0, <2>1 DEF Receive, ReceiveAbandoned, Lose, Overtakes, Request
    <2> QED BY <2>3, <2>4, <2>5, <2>6, <2>7, <2>8 DEF ClientShape, ClientTyped
  <1> QED BY <1>1, <1>2 DEF ClientStep

\* A step outside the server changes no row: ages and numbers stay in bounds.
LEMMA ClientKeeps ==
    ASSUME SessionInv, ClientShape
    PROVE  SessionInv'
  <1>1. minted' = minted /\ accounts' = accounts /\ row' = row /\ now' = now
    BY DEF ClientShape, server
  <1>2. TypeOK'
    BY <1>1 DEF SessionInv, TypeOK, ClientShape, ClientTyped, Memory
  <1>3. StageInv'
    BY DEF StageInv, Live, ClientShape, Sound, Staged, SignIn, Guarded
  <1>4. FreshInv'
    BY <1>1 DEF SessionInv, FreshInv, ClientShape, ClientTyped, Sound, Known, Knows, Live
  <1>5. AgeInv'
    BY <1>1 DEF SessionInv, AgeInv, ClientShape, SameSlide, At
  <1> QED BY <1>2, <1>3, <1>4, <1>5 DEF SessionInv

LEMMA SessionStep == SessionInv /\ [Next]_vars => SessionInv'
  <1> SUFFICES ASSUME SessionInv, [Next]_vars PROVE SessionInv'
    OBVIOUS
  <1> USE SessionsAssumption
  <1>1. CASE Tick
    <2>1. now \in Nat /\ now' = now + 1 /\ now' \in 0..MaxNow
      BY <1>1 DEF Tick, SessionInv, TypeOK
    <2>2. UNCHANGED <<minted, accounts, row, jar, tab, signedIn, overtaken, req>>
      BY <1>1 DEF Tick, server, client
    <2>3. \A s \in Minted : row[s] # None => row[s].used \in Nat
      BY DEF SessionInv, TypeOK, Row
    <2>4. \A n \in Nat : n <= now => n <= now'
      BY <2>1
    <2>5. AgeInv'
      BY <2>2, <2>3, <2>4 DEF SessionInv, AgeInv, At
    <2> QED BY <2>1, <2>2, <2>5 DEF SessionInv, TypeOK, StageInv, FreshInv, Live, Staged, Known, Knows
  <1>2. CASE CloseBrowser
    <2>1. jar' = [session |-> None, csrf |-> None] /\ tab' = [t \in Tabs |-> Blank] /\ signedIn' = None
          /\ overtaken' = FALSE /\ now' = now /\ server' = server /\ req' = req
      BY <1>2 DEF CloseBrowser
    <2>2. ClientTyped
      BY <2>1 DEF ClientTyped, Memory, Blank, Token, Known
    <2> QED BY <2>1, <2>2, ClientKeeps DEF ClientShape, SessionInv, TypeOK, StageInv, FreshInv, Live, Sound, SameSlide
  <1>3. ASSUME NEW r \in Requests, ServerStep(r) PROVE SessionInv'
    BY <1>3, ServerKeeps
  <1>4. ASSUME NEW r \in Requests, ClientStep(r) PROVE SessionInv'
    BY <1>4, ClientStepTyped, ClientKeeps
  <1>5. CASE UNCHANGED vars
    BY <1>5 DEF vars, server, client, SessionInv, TypeOK, StageInv, FreshInv, AgeInv, Live, Staged, Known, Knows, At
  <1> QED BY <1>1, <1>2, <1>3, <1>4, <1>5 DEF Next

LEMMA SessionInvariant == Spec => []SessionInv
  BY TypeStart, SessionStep, PTL DEF Spec

LEMMA RowsKept == SessionInv /\ [Next]_vars => Kept
  <1> SUFFICES ASSUME SessionInv, [Next]_vars PROVE Kept
    OBVIOUS
  <1>1. CASE row' = row
    <2>1. \A s \in Minted : row[s] # None => row[s].used \in Nat
      BY SessionsAssumption DEF SessionInv, TypeOK, Row
    <2> QED BY <1>1, <2>1 DEF Kept
  <1>2. row' = row \/ \E r \in Requests : ServerStep(r)
    BY ClientStepTyped DEF Next, Tick, CloseBrowser, vars, server, ClientShape
  <1> QED BY <1>1, <1>2, RowsStep

(***************************************************************************)
(* What is proved for any Users, Tabs, Requests, Ttl and Cap               *)
(***************************************************************************)
\* Every value of the model has its type, in particular no session row without
\* a user is ever written (CreateSession, TouchWrite).
THEOREM SessionsTypeCorrect == Spec => []TypeOK
  <1>1. SessionInv => TypeOK
    BY DEF SessionInv
  <1> QED BY <1>1, SessionInvariant, PTL

\* A session that was logged out or purged never works again, though requests
\* that had passed get_session_user are still about to touch it.
THEOREM RevokedForGood == Spec => RevokedStaysRevoked
  <1>1. SessionInv /\ [Next]_vars => [\A s \in 1..minted : row[s] = None => row'[s] = None]_vars
    <2> SUFFICES ASSUME SessionInv, [Next]_vars, NEW s \in 1..minted, row[s] = None
                 PROVE  row'[s] = None
      OBVIOUS
    <2>1. s \in Minted /\ s <= minted
      BY SessionsAssumption DEF SessionInv, TypeOK, Minted
    <2> QED BY <2>1, RowsKept DEF Kept
  <1> QED BY <1>1, SessionInvariant, PTL DEF Spec, RevokedStaysRevoked

\* Nothing is served later than SESSION_TTL after the session's last use, nor later
\* than ABSOLUTE_SESSION_TTL after the login (get_session_user, touch_session).
THEOREM NeverServedLate == Spec => ServedWhileAlive
  <1> DEFINE Alive == \A r \in Requests : At(r, "sent") /\ req'[r] # None /\ req'[r].at = "touch" =>
                        LET s == req[r].session IN
                        now <= row[s].used + Ttl /\ now <= row[s].created + Cap
  <1>1. SessionInv /\ [Next]_vars => Alive
    <2> SUFFICES ASSUME SessionInv, [Next]_vars, NEW r \in Requests,
                        At(r, "sent"), req'[r] # None, req'[r].at = "touch"
                 PROVE  LET s == req[r].session IN
                        now <= row[s].used + Ttl /\ now <= row[s].created + Cap
      OBVIOUS
    <2> DEFINE s == req[r].session
    <2>1. req[r] # None /\ req[r] \in Request /\ req[r].at = "sent"
      BY DEF SessionInv, TypeOK, At
    <2>2. Check(r)
      <3>1. ~ ClientShape /\ req'[r] # req[r]
        BY <2>1 DEF ClientShape, SameSlide
      <3>2. PICK q \in Requests : ServerStep(q)
        BY <3>1, ClientStepTyped DEF Next, Tick, CloseBrowser, vars
      <3>3. q = r
        BY <3>1, <3>2, HandlerTyped DEF Becomes, SessionInv, TypeOK
      <3>4. CASE Register(r) \/ Login(r) \/ Logout(r) \/ Mutate(r)
        <4>1. \/ req'[r] = [req[r] EXCEPT !.at = "row"] \/ req'[r] = Failure(req[r])
              \/ req'[r] = AnswerTo(req[r], "ok", 0, None) \/ req'[r] = Answered(req[r], "acted")
          BY <3>4, <2>1, HandlerForms
        <4> QED BY <4>1, <2>1 DEF Failure, AnswerTo, Answered, Request
      <3> QED BY <2>1, <3>2, <3>3, <3>4 DEF ServerStep, CreateSession, Purge, TouchRead, TouchWrite,
              Me, Read, Handles, At
    <2>3. s \in Minted /\ row[s] # None /\ row[s] \in Row /\ ~ Dead(s)
      <3>1. req'[r] = Failure(req[r]) \/ req'[r] = Passed(r)
        BY <2>1, <2>2, HandlerForms
      <3>2. s # None /\ row[s] # None
        <4> SUFFICES ASSUME s = None \/ row[s] = None PROVE FALSE
          OBVIOUS
        <4>1. req'[r] = Failure(req[r])
          BY <2>2 DEF Check, Fails, Failure, SessionInv, TypeOK
        <4> QED BY <2>1, <4>1 DEF Failure, Answered, Request
      <3>3. ~ Dead(s)
        BY <2>1, <3>1 DEF Failure, Answered, Passed, Request
      <3> QED BY <2>1, <3>2, <3>3 DEF Request, Token, SessionInv, TypeOK
    <2>4. row[s].expires <= row[s].used + Ttl /\ row[s].used \in Nat /\ row[s].expires \in Nat /\ row[s].created \in Nat
      BY <2>3 DEF SessionInv, AgeInv, Row
    <2>5. now \in Nat
      BY DEF SessionInv, TypeOK
    <2> QED BY <2>3, <2>4, <2>5, SessionsAssumption DEF Dead
  <1> QED BY <1>1, SessionInvariant, PTL DEF Spec, ServedWhileAlive

(***************************************************************************)
(* Tokens, as long as no me() is under way when a login's cookies come     *)
(***************************************************************************)
\* If the session minted with this token is still there, it is the user's.
Owner(n, u) == n # None /\ (row[n] # None => row[n].user = u)

\* The two cookies are those of one login, and a tab's token is its user's.
CookiesPaired == jar.session # None => jar.session = jar.csrf
TabsPaired == \A t \in Tabs : tab[t].user # None => Owner(tab[t].csrf, tab[t].user)

Checked == {"purge", "touch", "slide", "handle"}

\* What a me() in flight will put in the jar is there already.
LoadPaired(q) == q.kind = "me" =>
    /\ q.setSession = None
    /\ q.at \in Checked \cup {"sent"} => q.cookie = jar.csrf
    /\ q.at \in Checked => Owner(q.cookie, q.user)
    /\ q.at = "ok" => q.setCsrf = jar.csrf /\ Owner(q.setCsrf, q.user)

LoginPaired(q) == q.kind \in SignIn =>
    /\ q.at = "ok" => q.setSession = q.setCsrf /\ Owner(q.setCsrf, q.user)
    /\ q.at # "ok" => q.setSession = None

\* A call whose token is the cookie's comes from the tab of the session's user.
CallPaired(q) == q.kind = "ask" =>
    /\ q.at = "sent" /\ q.header # None => Owner(q.header, q.shown)
    /\ q.at \in Checked /\ q.cookie # None /\ q.cookie = q.header => q.user = q.shown
    /\ q.at = "acted" => q.user = q.shown

Paired(q) ==
    /\ LoadPaired(q) /\ LoginPaired(q) /\ CallPaired(q)
    /\ q.kind \in Guarded /\ q.at = "sent" /\ q.session # None => q.session = q.cookie
    /\ q.kind \in {"logout", "ask"} => q.setSession \in {None, 0} /\ q.setCsrf = None
    /\ q.at # "ok" => q.setCsrf = None

TokenInv ==
    /\ CookiesPaired /\ TabsPaired
    /\ \A r \in Requests : Live(r) => Paired(req[r])
    /\ StaysInSync

LEMMA OwnerKept ==
    ASSUME SessionInv, Kept, NEW n \in Token, Known(n), NEW u, Owner(n, u)
    PROVE  Owner(n, u)'
  BY DEF Kept, Owner, Known, Token

LEMMA PairedKept ==
    ASSUME SessionInv, Kept, NEW q \in Request, Knows(q), Paired(q),
           q.kind = "me" => jar'.csrf = jar.csrf
    PROVE  Paired(q)'
  <1>1. /\ q.cookie \in Token /\ q.header \in Token /\ q.setCsrf \in Token
        /\ Known(q.cookie) /\ Known(q.header) /\ Known(q.setCsrf)
    BY DEF Request, Knows
  <1>2. \A u : /\ Owner(q.cookie, u) => Owner(q.cookie, u)'
               /\ Owner(q.header, u) => Owner(q.header, u)'
               /\ Owner(q.setCsrf, u) => Owner(q.setCsrf, u)'
    BY <1>1, OwnerKept
  <1>3. LoadPaired(q)'
    BY <1>2 DEF Paired, LoadPaired, Checked
  <1>4. LoginPaired(q)'
    BY <1>2 DEF Paired, LoginPaired, SignIn
  <1>5. CallPaired(q)'
    BY <1>2 DEF Paired, CallPaired, Checked
  <1> QED BY <1>3, <1>4, <1>5 DEF Paired, Guarded

\* What a handler makes of a request is paired again.
LEMMA ReplyPaired ==
    ASSUME SessionInv, TokenInv, NEW r \in Requests, ServerStep(r)
    PROVE  \E q \in Request : q = req'[r] /\ Paired(q)'
  <1> USE SessionsAssumption
  <1>0. /\ req[r] # None /\ req[r] \in Request /\ Staged(req[r]) /\ Knows(req[r]) /\ Paired(req[r])
        /\ req \in [Requests -> Request \cup {None}] /\ row \in [Minted -> Row \cup {None}]
        /\ req'[r] \in Request /\ jar' = jar /\ Kept
    BY HandlerTyped, HandlerFrame, RowsStep DEF SessionInv, TypeOK, FreshInv, TokenInv, Live, Becomes, client
  <1> SUFFICES ASSUME NEW p \in Request, p = req[r], NEW q \in Request, q = req'[r] PROVE Paired(q)'
    BY <1>0
  <1>a. Paired(p)'
    BY <1>0, PairedKept
  <1>b. Paired(p) /\ Staged(p) /\ Kept /\ jar' = jar
    BY <1>0
  <1> USE DEF Paired, LoadPaired, LoginPaired, CallPaired, Checked, SignIn, Guarded
  <1>c. p.at # "ok"
    BY DEF ServerStep, Register, Login, CreateSession, Logout, Check, Purge, TouchRead, TouchWrite,
           Me, Read, Mutate, Handles, At
  <1>1. Paired(Failure(p))'
    <2>1. /\ Failure(p).at = "failed" /\ Failure(p).kind = p.kind
          /\ Failure(p).setSession = p.setSession /\ Failure(p).setCsrf = p.setCsrf
      BY DEF Failure, Answered, Request
    <2> QED BY <1>b, <1>c, <2>1
  <1>2. CASE Register(r) \/ Login(r) \/ Purge(r)
    <2>1. (q = [p EXCEPT !.at = "row"] /\ p.kind \in SignIn /\ p.at = "sent") \/ q = Failure(p)
      <3>1. CASE Purge(r)
        BY <3>1, <1>0, HandlerForms
      <3>2. CASE Register(r) \/ Login(r)
        <4>1. p.kind \in SignIn /\ p.at = "sent"
          BY <3>2 DEF Register, Login, Handles, At
        <4>2. q = [p EXCEPT !.at = "row"] \/ q = Failure(p)
          BY <3>2, <1>0, HandlerForms
        <4> QED BY <4>1, <4>2
      <3> QED BY <1>2, <3>1, <3>2
    <2>2. CASE q = [p EXCEPT !.at = "row"] /\ p.kind \in SignIn /\ p.at = "sent"
      BY <2>2, <1>b DEF Request
    <2> QED BY <2>1, <2>2, <1>1
  <1>3. CASE CreateSession(r)
    <2>0. PICK s \in Minted : s = minted + 1
      BY <1>3 DEF CreateSession, Minted, SessionInv, TypeOK
    <2>1. minted' = s /\ p.at = "row" /\ p.kind \in SignIn
      BY <1>3, <1>0, <2>0 DEF CreateSession, At, Staged
    <2>2. row'[s] # None => row'[s].user = p.user
      BY <1>3, <1>0, <2>0, <2>1 DEF CreateSession
    <2>3. q = AnswerTo(p, "ok", s, s)
      BY <1>3, <1>0, <2>1, HandlerForms
    <2>4. Owner(s, p.user)'
      <3>1. s # None
        BY <2>1 DEF Minted
      <3> QED BY <2>2, <2>1, <3>1 DEF Owner
    <2>5. q.at = "ok" /\ q.kind = p.kind /\ q.user = p.user /\ q.setSession = s /\ q.setCsrf = s
      BY <2>3 DEF AnswerTo, Answered, Request
    <2> QED BY <2>1, <2>4, <2>5
  <1>4. CASE Logout(r)
    <2>1. q = AnswerTo(p, "ok", 0, None) /\ p.kind = "logout"
      BY <1>4, <1>0, HandlerForms DEF Logout, Handles
    <2> QED BY <2>1 DEF AnswerTo, Answered, Request
  <1>5. CASE Check(r)
    <2>1. q = Failure(p) \/ (q = Passed(r) /\ p.session # None /\ row[p.session] # None)
      <3>1. CASE p.session = None \/ row[p.session] = None
        BY <1>5, <1>0, <3>1 DEF Check, Fails, Failure
      <3>2. CASE p.session # None /\ row[p.session] # None
        BY <1>5, <1>0, <3>2, HandlerForms
      <3> QED BY <3>1, <3>2
    <2>2. p.at = "sent" /\ p.kind \in Guarded /\ row' = row
      BY <1>5 DEF Check, Handles, At, server
    <2>3. CASE q = Passed(r) /\ p.session # None /\ row[p.session] # None
      <3>1. p.session = p.cookie
        BY <2>2, <2>3, <1>b
      <3>2. /\ q.at \in {"purge", "touch"} /\ q.user = row[p.session].user /\ q.kind = p.kind
            /\ q.cookie = p.cookie /\ q.header = p.header /\ q.setSession = p.setSession
            /\ q.setCsrf = p.setCsrf /\ q.shown = p.shown
        BY <2>3 DEF Passed, Request
      <3>3. p.cookie # None
        BY <2>3, <3>1
      <3>4. Owner(q.cookie, q.user)'
        BY <2>2, <3>1, <3>2, <3>3 DEF Owner
      <3> QED BY <1>b, <2>2, <2>3, <3>1, <3>2, <3>3, <3>4 DEF Owner
    <2> QED BY <2>1, <2>3, <1>1
  <1>6. CASE TouchRead(r) \/ TouchWrite(r)
    <2>1. \/ q = [p EXCEPT !.at = "handle"] \/ q = Slid(r)
          \/ q = [p EXCEPT !.at = "handle", !.upto = 0]
      BY <1>6, <1>0, HandlerForms
    <2>2. p.at \in {"touch", "slide"}
      BY <1>6 DEF TouchRead, TouchWrite, At
    <2>3. /\ q.at \in {"handle", "slide"} /\ q.user = p.user /\ q.kind = p.kind
          /\ q.cookie = p.cookie /\ q.header = p.header /\ q.setSession = p.setSession
          /\ q.setCsrf = p.setCsrf /\ q.shown = p.shown
      BY <2>1 DEF Slid, Request
    <2>4. p.kind \in Guarded
      BY <1>b, <2>2 DEF Staged
    <2> QED BY <1>a, <2>2, <2>3, <2>4
  <1>7. CASE Me(r)
    <2>1. q = AnswerTo(p, "ok", None, MeToken(p)) /\ p.kind = "me" /\ p.at = "handle"
      BY <1>7, <1>0, HandlerForms DEF Me, Handles, At
    <2>2. p.cookie = jar'.csrf /\ Owner(p.cookie, p.user)' /\ p.cookie # None
      BY <1>a, <2>1 DEF Owner
    <2>3. q.at = "ok" /\ q.kind = p.kind /\ q.user = p.user /\ q.setSession = None /\ q.setCsrf = p.cookie
      BY <2>1, <2>2 DEF AnswerTo, Answered, Request, MeToken
    <2> QED BY <2>1, <2>2, <2>3
  <1>8. CASE Read(r)
    <2>1. q = AnswerTo(p, "ok", None, None) /\ p.kind = "ask"
      BY <1>8, <1>0, HandlerForms DEF Read, Handles
    <2> QED BY <2>1 DEF AnswerTo, Answered, Request
  <1>9. CASE Mutate(r)
    <2>1. p.kind = "ask" /\ p.at = "handle"
      BY <1>9 DEF Mutate, Handles, At
    <2>2. q = Failure(p) \/ (q = Answered(p, "acted") /\ p.cookie # None /\ p.cookie = p.header)
      BY <1>9, <1>0 DEF Mutate, Fails, Failure, Verify
    <2>3. CASE q = Answered(p, "acted") /\ p.cookie # None /\ p.cookie = p.header
      BY <1>b, <2>1, <2>3 DEF Answered, Request
    <2> QED BY <2>2, <2>3, <1>1
  <1> QED BY <1>2, <1>3, <1>4, <1>5, <1>6, <1>7, <1>8, <1>9 DEF ServerStep

LEMMA ServerTokens ==
    ASSUME SessionInv, TokenInv, NEW r \in Requests, ServerStep(r)
    PROVE  TokenInv'
  <1>0. /\ jar' = jar /\ tab' = tab /\ signedIn' = signedIn /\ Kept
        /\ req[r] # None /\ Becomes(r) /\ req \in [Requests -> Request \cup {None}]
    BY HandlerFrame, HandlerTyped, RowsStep DEF client, SessionInv, TypeOK
  <1>1. CookiesPaired' /\ StaysInSync'
    BY <1>0 DEF TokenInv, CookiesPaired, StaysInSync
  <1>2. TabsPaired'
    <2>1. \A t \in Tabs : tab[t].csrf \in Token /\ Known(tab[t].csrf)
      BY DEF SessionInv, TypeOK, FreshInv
    <2>2. ASSUME NEW t \in Tabs, tab[t].user # None PROVE (Owner(tab[t].csrf, tab[t].user))'
      <3>1. Owner(tab[t].csrf, tab[t].user)
        BY <2>2 DEF TokenInv, TabsPaired
      <3>2. PICK n \in Token, u \in {tab[t].user} : n = tab[t].csrf /\ u = tab[t].user
        BY <2>1
      <3>3. Owner(n, u)'
        BY <2>1, <3>1, <3>2, <1>0, OwnerKept
      <3> QED BY <1>0, <3>2, <3>3 DEF Owner
    <2> QED BY <1>0, <2>2 DEF TabsPaired
  <1>3. \A q \in Requests : q # r => req'[q] = req[q]
    BY <1>0 DEF Becomes
  <1>4. ASSUME NEW q \in Requests, req'[q] # None PROVE Paired(req[q])'
    <2>1. PICK p \in Request : p = req'[q] /\ Paired(p)'
      <3>1. CASE q = r
        BY <3>1, ReplyPaired
      <3>2. CASE q # r
        <4>1. req[q] = req'[q] /\ req[q] \in Request /\ Knows(req[q]) /\ Paired(req[q])
          BY <1>0, <1>3, <1>4, <3>2 DEF SessionInv, FreshInv, TokenInv, Live
        <4>2. PICK p \in Request : p = req[q]
          BY <4>1
        <4> QED BY <1>0, <4>1, <4>2, PairedKept
      <3> QED BY <3>1, <3>2
    <2> QED BY <2>1 DEF Paired, LoadPaired, LoginPaired, CallPaired, Owner, SignIn, Guarded, Checked
  <1> QED BY <1>1, <1>2, <1>4 DEF TokenInv, Live

\* The browser's steps leave the rows alone, so what is paired stays paired as
\* long as a page load finds the csrf cookie it started with.
LEMMA OthersPaired ==
    ASSUME SessionInv, TokenInv, row' = row, NEW q \in Requests, req[q] # None,
           req[q].kind = "me" => jar'.csrf = jar.csrf, NEW p \in Request,
           p = req[q] \/ p = [req[q] EXCEPT !.tab = None]
    PROVE  Paired(p)'
  <1>1. req[q] \in Request /\ Knows(req[q]) /\ Paired(req[q])
    BY DEF SessionInv, TypeOK, FreshInv, TokenInv, Live
  <1>2. Kept
    <2>1. \A s \in Minted : row[s] # None => row[s].used \in Nat
      BY SessionsAssumption DEF SessionInv, TypeOK, Row
    <2> QED BY <2>1 DEF Kept
  <1>3. Knows(p) /\ p.kind = req[q].kind
    BY <1>1 DEF Knows, Request
  <1>4. Paired(p)
    BY <1>1 DEF Paired, LoadPaired, LoginPaired, CallPaired, Request
  <1> QED BY <1>2, <1>3, <1>4, PairedKept

\* What the browser sends is paired.
LEMMA SentPaired ==
    ASSUME SessionInv, TokenInv, NEW r \in Requests, NEW t \in Tabs,
           Boot(r, t) \/ AskSignIn(r, t) \/ AskAsUser(r, t), NEW p \in Request, p = req'[r]
    PROVE  Paired(p)'
  <1> USE DEF Sent, Paired, LoadPaired, LoginPaired, CallPaired, SignIn, Guarded, Checked
  <1>0. row' = row /\ jar' = jar /\ CookiesPaired /\ TabsPaired
    BY DEF Boot, AskSignIn, AskAsUser, server, client, TokenInv
  <1>1. CASE Boot(r, t)
    <2>1. p = Sent("me", t, None, Blank)
      BY <1>1 DEF Boot
    <2> QED BY <1>0, <2>1 DEF CookiesPaired
  <1>2. CASE AskSignIn(r, t)
    <2>1. PICK kind \in SignIn, u \in Users : p = Sent(kind, t, u, tab[t])
      BY <1>2 DEF AskSignIn, Send, SessionInv, TypeOK
    <2> QED BY <2>1
  <1>3. CASE AskAsUser(r, t)
    <2>1. PICK kind \in {"ask", "logout"} : p = Sent(kind, t, None, tab[t])
      BY <1>3 DEF AskAsUser, Send, SessionInv, TypeOK
    <2>2. Owner(tab[t].csrf, tab[t].user)
      BY <1>3, <1>0 DEF AskAsUser, TabsPaired
    <2>3. PICK n, u : n = tab[t].csrf /\ u = tab[t].user
      OBVIOUS
    <2>4. Owner(n, u)'
      BY <1>0, <2>2, <2>3 DEF Owner
    <2>5. /\ p.at = "sent" /\ p.kind = kind /\ p.setSession = None /\ p.setCsrf = None
          /\ p.session = jar.session
          /\ kind = "ask" => p.header = n /\ p.shown = u /\ p.cookie = jar.csrf
      BY <2>1, <2>3
    <2> QED BY <1>0, <2>4, <2>5 DEF CookiesPaired
  <1> QED BY <1>1, <1>2, <1>3

LEMMA SendTokens ==
    ASSUME SessionInv, TokenInv, NEW r \in Requests, NEW t \in Tabs,
           Boot(r, t) \/ AskSignIn(r, t) \/ AskAsUser(r, t)
    PROVE  TokenInv'
  <1>0. /\ row' = row /\ jar' = jar /\ signedIn' = signedIn
        /\ tab' = tab \/ tab' = [tab EXCEPT ![t] = Blank]
        /\ tab \in [Tabs -> Memory] /\ req \in [Requests -> Request \cup {None}]
        /\ signedIn \in Tabs \cup {None}
    BY DEF Boot, AskSignIn, AskAsUser, server, client, SessionInv, TypeOK, Memory
  <1>1. CookiesPaired' /\ StaysInSync'
    BY <1>0 DEF TokenInv, CookiesPaired, StaysInSync, Blank
  <1>2. TabsPaired'
    BY <1>0 DEF TokenInv, TabsPaired, Owner, Blank
  <1>3. ClientShape
    BY ClientStepTyped DEF ClientStep
  <1>4. ASSUME NEW q \in Requests, q # r, req'[q] # None
        PROVE  req[q] # None /\ req'[q] \in Request /\ req'[q].kind = req[q].kind
               /\ (req'[q] = req[q] \/ req'[q] = [req[q] EXCEPT !.tab = None])
    <2>1. req'[q] = req[q] \/ (req[q] # None /\ req'[q] = [req[q] EXCEPT !.tab = None])
      BY <1>4, Sending
    <2>2. req[q] # None /\ req[q] \in Request /\ req'[q] \in Request
      BY <1>0, <1>3, <1>4, <2>1 DEF ClientShape, Sound
    <2> QED BY <2>1, <2>2 DEF Request
  <1>5. ASSUME NEW q \in Requests, req'[q] # None PROVE Paired(req[q])'
    <2>1. PICK p \in Request : p = req'[q]
      BY <1>3, <1>5 DEF ClientShape, Sound
    <2>2. Paired(p)'
      BY <1>0, <1>4, <1>5, <2>1, SentPaired, OthersPaired
    <2> QED BY <2>1, <2>2 DEF Paired, LoadPaired, LoginPaired, CallPaired, Owner, SignIn, Guarded, Checked
  <1> QED BY <1>1, <1>2, <1>5 DEF TokenInv, Live

\* An answer changes the csrf cookie only if it is a login's, and then both
\* cookies are its own.
LEMMA ReceivedCookies ==
    ASSUME SessionInv, TokenInv, NEW r \in Requests, HasAnswer(r), NEW q \in Request, q = req[r],
           SetCookies(q)
    PROVE  /\ CookiesPaired'
           /\ \/ jar'.csrf = jar.csrf
              \/ q.kind \in SignIn /\ q.at = "ok" /\ jar'.csrf = q.setCsrf
  <1>1. req[r] # None /\ Paired(q) /\ CookiesPaired /\ jar \in [session : Token, csrf : Token]
    BY DEF HasAnswer, At, TokenInv, Live, SessionInv, TypeOK
  <1>2. q.at \in {"ok", "acted", "failed"} /\ q.kind \in {"register", "login", "logout", "me", "ask"}
    BY DEF HasAnswer, At, Request, Kinds
  <1> DEFINE s == CASE q.setSession = None -> jar.session
                    [] q.setSession = 0 -> None
                    [] OTHER -> q.setSession
             c == IF q.setCsrf = None THEN jar.csrf ELSE q.setCsrf
  <1>3. jar'.session = s /\ jar'.csrf = c
    BY DEF SetCookies
  <1> USE SessionsAssumption DEF Paired, LoadPaired, LoginPaired, CallPaired, SignIn
  <1>4. CASE q.kind \in SignIn /\ q.at = "ok"
    <2>1. q.setSession = q.setCsrf /\ q.setCsrf # None /\ q.setSession \in Minted
      BY <1>1, <1>4 DEF Owner, Request, Token
    <2>2. q.setSession # 0
      BY <2>1 DEF Minted
    <2> QED BY <1>3, <1>4, <2>1, <2>2 DEF CookiesPaired
  <1>5. CASE ~ (q.kind \in SignIn /\ q.at = "ok")
    <2>1. q.setSession \in {None, 0} /\ q.setCsrf \in {None, jar.csrf}
      BY <1>1, <1>2, <1>5
    <2>2. c = jar.csrf /\ s \in {jar.session, None}
      BY <2>1
    <2> QED BY <1>1, <1>3, <2>2 DEF CookiesPaired
  <1> QED BY <1>4, <1>5

\* A tab that shows a user after an answer holds that user's token; if the tab
\* took the answer, it is the answer's token.
LEMMA ReceivedTabs ==
    ASSUME SessionInv, TokenInv, row' = row, NEW r \in Requests, HasAnswer(r), NEW q \in Request, q = req[r],
           q.tab # None, NEW ok \in BOOLEAN, ok => q.at = "ok", Shows(q, ok)
    PROVE  /\ TabsPaired'
           /\ \A t \in Tabs : t # q.tab => tab'[t] = tab[t]
           /\ \/ tab'[q.tab] = tab[q.tab] /\ ~ (q.kind \in SignIn /\ ok)
              \/ tab'[q.tab].user = None
              \/ ok /\ q.kind \in SignIn \cup {"me"} /\ tab'[q.tab].csrf = q.setCsrf
  <1>1. /\ req[r] # None /\ Paired(q) /\ TabsPaired /\ tab \in [Tabs -> Memory]
        /\ q.tab \in Tabs
    BY DEF HasAnswer, At, TokenInv, Live, SessionInv, TypeOK, Memory, Request
  <1> DEFINE token == IF ok /\ q.setCsrf # None THEN q.setCsrf ELSE tab[q.tab].csrf
             shown == CASE q.kind = "logout" -> Blank
                        [] q.kind = "me" -> [user |-> IF ok THEN q.user ELSE None, csrf |-> token]
                        [] q.kind \in SignIn /\ ok -> [user |-> q.user, csrf |-> token]
                        [] OTHER -> tab[q.tab]
  <1>2. tab' = [tab EXCEPT ![q.tab] = shown]
    BY DEF Shows
  <1>3. tab'[q.tab] = shown /\ \A t \in Tabs : t # q.tab => tab'[t] = tab[t]
    BY <1>1, <1>2
  <1>4. /\ \/ tab'[q.tab] = tab[q.tab] /\ ~ (q.kind \in SignIn /\ ok)
           \/ tab'[q.tab].user = None
           \/ ok /\ q.kind \in SignIn \cup {"me"} /\ tab'[q.tab].csrf = q.setCsrf
        /\ tab'[q.tab].user # None => Owner(tab'[q.tab].csrf, tab'[q.tab].user)
    <2>1. CASE q.kind = "logout"
      BY <1>3, <2>1 DEF Blank, SignIn
    <2>2. CASE q.kind \in SignIn \cup {"me"} /\ ok
      <3>1. Owner(q.setCsrf, q.user)
        BY <1>1, <2>2 DEF Paired, LoadPaired, LoginPaired
      <3>2. token = q.setCsrf
        BY <2>2, <3>1 DEF Owner
      <3> HIDE DEF token
      <3>3. shown = [user |-> q.user, csrf |-> token]
        BY <2>2 DEF SignIn
      <3> QED BY <1>3, <2>2, <3>1, <3>2, <3>3
    <2>3. CASE q.kind = "me" /\ ~ ok
      BY <1>3, <2>3
    <2>4. CASE q.kind # "logout" /\ q.kind # "me" /\ ~ (q.kind \in SignIn /\ ok)
      <3>1. tab'[q.tab] = tab[q.tab]
        BY <1>3, <2>4
      <3> QED BY <1>1, <2>4, <3>1 DEF TabsPaired
    <2> QED BY <2>1, <2>2, <2>3, <2>4
  <1>5. TabsPaired'
    BY <1>1, <1>3, <1>4 DEF TabsPaired, Owner
  <1> QED BY <1>3, <1>4, <1>5

LEMMA ReceiveTokens ==
    ASSUME SessionInv, TokenInv, NEW r \in Requests, Receive(r) \/ ReceiveAbandoned(r) \/ Lose(r),
           ~ overtaken'
    PROVE  TokenInv'
  <1>0. /\ row' = row /\ req' = [req EXCEPT ![r] = None] /\ HasAnswer(r) /\ req[r] # None
        /\ req \in [Requests -> Request \cup {None}] /\ req[r] \in Request
        /\ jar \in [session : Token, csrf : Token] /\ signedIn \in Tabs \cup {None}
        /\ tab \in [Tabs -> Memory]
    BY DEF Receive, ReceiveAbandoned, Lose, Drop, HasAnswer, At, server, SessionInv, TypeOK, Memory
  <1>1. PICK q \in Request : q = req[r]
    BY <1>0
  <1>2. /\ CookiesPaired'
        /\ \/ jar'.csrf = jar.csrf
           \/ q.kind \in SignIn /\ q.at = "ok" /\ jar'.csrf = q.setCsrf
    <2>1. SetCookies(q) \/ jar' = jar
      BY <1>1 DEF Receive, ReceiveAbandoned, Lose
    <2>2. CASE jar' = jar
      BY <2>2 DEF TokenInv, CookiesPaired
    <2>3. CASE SetCookies(q)
      BY <1>0, <1>1, <2>3, ReceivedCookies
    <2> QED BY <2>1, <2>2, <2>3
  <1>3. \A p \in Requests : req'[p] # None => p # r /\ req'[p] = req[p]
    BY <1>0
  <1>4. q.kind \in SignIn /\ jar' # jar => InFlight({"me"}) = {}
    BY <1>1 DEF Receive, ReceiveAbandoned, Lose, Overtakes
  <1>5. ASSUME NEW p \in Requests, req'[p] # None PROVE Paired(req[p])'
    <2>1. req[p].kind = "me" => jar'.csrf = jar.csrf
      BY <1>2, <1>3, <1>4, <1>5 DEF InFlight
    <2>2. PICK x \in Request : x = req[p]
      BY <1>0, <1>3, <1>5
    <2>3. Paired(x)'
      BY <1>0, <1>3, <1>5, <2>1, <2>2, OthersPaired
    <2>4. x = req'[p]
      BY <1>3, <1>5, <2>2
    <2> QED BY <2>3, <2>4 DEF Paired, LoadPaired, LoginPaired, CallPaired, Owner, SignIn, Guarded, Checked
  <1>6. TabsPaired' /\ StaysInSync'
    <2>1. CASE ReceiveAbandoned(r)
      <3>1. tab' = tab /\ signedIn' = (IF jar' # jar THEN None ELSE signedIn)
        BY <2>1 DEF ReceiveAbandoned
      <3> QED BY <1>0, <3>1 DEF TokenInv, TabsPaired, StaysInSync, Owner
    <2>2. CASE Receive(r)
      <3>1. PICK ok \in BOOLEAN : ok = (q.at = "ok")
        OBVIOUS
      <3>2. /\ q.tab # None /\ Shows(q, ok)
            /\ signedIn' = IF ok /\ q.kind \in SignIn THEN q.tab ELSE signedIn
        BY <1>1, <2>2, <3>1 DEF Receive
      <3>3. /\ TabsPaired'
            /\ \A t \in Tabs : t # q.tab => tab'[t] = tab[t]
            /\ \/ tab'[q.tab] = tab[q.tab] /\ ~ (q.kind \in SignIn /\ ok)
               \/ tab'[q.tab].user = None
               \/ ok /\ q.kind \in SignIn \cup {"me"} /\ tab'[q.tab].csrf = q.setCsrf
        BY <1>0, <1>1, <3>1, <3>2, ReceivedTabs
      <3>4. q.kind = "me" /\ ok => q.setCsrf = jar.csrf
        BY <1>0, <1>1, <3>1 DEF TokenInv, Paired, LoadPaired, Live
      <3>5. q.kind = "me" => q.kind \notin SignIn
        BY DEF SignIn
      <3>6. q.kind \in SignIn /\ ok => jar'.csrf = q.setCsrf
        <4>1. q.kind \in SignIn /\ ok => q.setCsrf # None
          BY <1>0, <1>1, <3>1 DEF TokenInv, Paired, LoginPaired, Live, Owner
        <4> QED BY <1>1, <2>2, <4>1 DEF Receive, SetCookies
      <3>7. StaysInSync'
        BY <1>0, <1>2, <3>1, <3>2, <3>3, <3>4, <3>5, <3>6 DEF TokenInv, StaysInSync
      <3> QED BY <3>3, <3>7
    <2>3. CASE Lose(r)
      <3>1. q.tab # None /\ Shows(q, FALSE) /\ jar' = jar /\ signedIn' = signedIn
        BY <1>1, <2>3 DEF Lose
      <3>2. /\ TabsPaired'
            /\ \A t \in Tabs : t # q.tab => tab'[t] = tab[t]
            /\ tab'[q.tab] = tab[q.tab] \/ tab'[q.tab].user = None
        BY <1>0, <1>1, <3>1, ReceivedTabs
      <3> QED BY <1>0, <3>1, <3>2 DEF TokenInv, StaysInSync
    <2> QED BY <2>1, <2>2, <2>3
  <1> QED BY <1>2, <1>5, <1>6 DEF TokenInv, Live

LEMMA TokenStep ==
    SessionInv /\ (~ overtaken => TokenInv) /\ [Next]_vars => (~ overtaken => TokenInv)'
  <1> SUFFICES ASSUME SessionInv, ~ overtaken => TokenInv, [Next]_vars, ~ overtaken' PROVE TokenInv'
    OBVIOUS
  <1>1. CASE Tick \/ UNCHANGED vars
    <2>1. UNCHANGED <<row, jar, tab, req, signedIn, overtaken>>
      BY <1>1 DEF Tick, vars, server, client
    <2> QED BY <2>1 DEF TokenInv, CookiesPaired, TabsPaired, Paired, LoadPaired, LoginPaired,
            CallPaired, Owner, StaysInSync, Live, SignIn, Guarded, Checked
  <1>2. CASE CloseBrowser
    <2>1. /\ jar'.session = None /\ tab' = [t \in Tabs |-> Blank] /\ signedIn' = None /\ req' = req
      BY <1>2 DEF CloseBrowser
    <2>2. \A r \in Requests : ~ Live(r)
      <3>1. \A r \in Requests : Live(r) => req[r].kind \in Kinds
        BY DEF SessionInv, TypeOK, Live, Request
      <3> QED BY <1>2, <3>1 DEF CloseBrowser, InFlight, Live
    <2>3. \A r \in Requests : ~ Live(r)'
      BY <2>1, <2>2 DEF Live
    <2> QED BY <2>1, <2>3 DEF TokenInv, CookiesPaired, TabsPaired, StaysInSync, Blank
  <1>3. ASSUME NEW r \in Requests, ServerStep(r) PROVE TokenInv'
    <2>1. overtaken' = overtaken
      BY <1>3, HandlerFrame DEF client
    <2> QED BY <1>3, <2>1, ServerTokens
  <1>4. ASSUME NEW r \in Requests, ClientStep(r) PROVE TokenInv'
    <2>1. CASE Receive(r) \/ ReceiveAbandoned(r) \/ Lose(r)
      <3>1. ~ overtaken
        BY <2>1 DEF Receive, ReceiveAbandoned, Lose, Overtakes
      <3> QED BY <2>1, <3>1, ReceiveTokens
    <2>2. ASSUME NEW t \in Tabs, Boot(r, t) \/ AskSignIn(r, t) \/ AskAsUser(r, t) PROVE TokenInv'
      <3>1. ~ overtaken
        BY <2>2 DEF Boot, AskSignIn, AskAsUser, client
      <3> QED BY <2>2, <3>1, SendTokens
    <2> QED BY <1>4, <2>1, <2>2 DEF ClientStep
  <1> QED BY <1>1, <1>2, <1>3, <1>4 DEF Next

LEMMA TokenInvariant == Spec => [](~ overtaken => TokenInv)
  <1>1. Init => TokenInv
    BY DEF Init, TokenInv, CookiesPaired, TabsPaired, StaysInSync, Blank, Live
  <1> QED BY <1>1, TokenStep, SessionInvariant, PTL DEF Spec

\* Until a login's cookies come while a me() is under way, nothing is uploaded,
\* deleted or asked for another account than the one the tab shows (verify_csrf).
THEOREM ActsOnlyAsShown == Spec => []ActsAsShown
  <1>1. SessionInv /\ (~ overtaken => TokenInv) => ActsAsShown
    <2> SUFFICES ASSUME SessionInv, TokenInv, NEW r \in Requests, At(r, "acted")
                 PROVE  req[r].user = req[r].shown
      BY DEF ActsAsShown
    <2> QED BY DEF At, SessionInv, StageInv, Staged, TokenInv, Paired, CallPaired, Live
  <1> QED BY <1>1, SessionInvariant, TokenInvariant, PTL

\* Until then the tab that signed in last also holds the token of the csrf cookie,
\* whatever other tabs and page loads send and receive (api/csrf.py).
THEOREM TokensStayInSync == Spec => []TokenInSync
  <1>1. (~ overtaken => TokenInv) => TokenInSync
    BY DEF TokenInv, TokenInSync
  <1> QED BY <1>1, TokenInvariant, PTL
=============================================================================
