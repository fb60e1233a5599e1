---------------------------- MODULE ConsoleProofs ----------------------------
(***************************************************************************)
(* Proofs about the pages of the console, for any users, campaigns and     *)
(* bounds: what is on screen belongs together, what was confirmed is what  *)
(* happened, and a form takes effect once.  Only one page is mounted       *)
(* (OnePageRuns), so each page's invariant is carried over its own         *)
(* variables.                                                              *)
(***************************************************************************)
EXTENDS MCConsole, SetLemmas

-----------------------------------------------------------------------------
\* Signing in.

\* The fields of a request.
SessionFields(q) ==
    q = [n |-> q.n, kind |-> q.kind, who |-> q.who, as |-> q.as, then |-> q.then, mount |-> q.mount, answer |-> q.answer]

\* An answer of /auth/me names an organization, one of os, of the user it names.
OrgTold(q, os) ==
    q.kind = "me" /\ q.answer \notin {Session!Sent, Session!Refused} /\ q.answer.org # Session!NoOrg =>
        q.answer.org \in os /\ q.answer.org.of = q.answer.user

\* The only request under way, when k is the cookie and ss the live sessions:
\* /auth/me was asked with the cookie, and answered for it; a sign-in that was
\* accepted made a live session; an organization sets no cookie.
AloneTells(q, k, ss) ==
    /\ q.kind \in {"me", "login", "signup", "logout", "orgs"}
    /\ q.kind = "me" /\ q.answer = Session!Sent => q.as = k
    /\ q.kind = "me" /\ q.answer = Session!Refused => k = Session!Nobody
    /\ q.kind = "me" /\ q.answer \notin {Session!Sent, Session!Refused} => k # Session!Nobody /\ q.answer.user = k.user
    /\ q.kind \in {"login", "signup"} /\ q.answer \notin {Session!Sent, Session!Refused} =>
          "set" \in DOMAIN q.answer /\ q.answer.set \in ss
    /\ q.kind = "logout" => q.answer = Session!Sent \/ q.answer = [ok |-> TRUE, set |-> Session!Nobody]
    /\ q.kind = "orgs" => "set" \notin DOMAIN q.answer

\* The user on screen is the one of the cookie k.
OwnerShown(k, u) == IF k = Session!Nobody THEN u = Session!NoUser ELSE u = k.user

\* While nothing was lost, expired or sent at the same time: the page shows who
\* is signed in, or is asking; and the cookie is of a live session unless it is
\* about to be cleared.
InAgreement(C, k, u, ss) ==
    /\ (\A q \in C : q.kind # "me") => OwnerShown(k, u)
    /\ \A q \in C : AloneTells(q, k, ss)
    /\ k # Session!Nobody => k \in ss \/ \E q \in C : q.kind = "logout" /\ q.answer # Session!Sent

SessionInv ==
    /\ \A q \in sessionCalls : SessionFields(q)
    /\ \A q \in sessionCalls : OrgTold(q, orgs)
    /\ Session!OrgIsUsers
    /\ Session!Nobody \notin sessions
    /\ ~ raced => \A p, q \in sessionCalls : p = q
    /\ ~ raced /\ ~ disturbed => InAgreement(sessionCalls, cookie, user, sessions)

\* A request keeps its fields when it is answered, and when it asks again.
LEMMA RequestAnswered ==
    ASSUME NEW q, SessionFields(q), NEW a
    PROVE  LET r == [q EXCEPT !.answer = a]
           IN  /\ SessionFields(r) /\ r.kind = q.kind /\ r.as = q.as /\ r.answer = a
BY SMTT(30) DEF SessionFields

LEMMA RequestAgain ==
    ASSUME NEW q, SessionFields(q), NEW k
    PROVE  LET r == [q EXCEPT !.kind = "me", !.as = k, !.answer = Session!Sent]
           IN  /\ SessionFields(r) /\ r.kind = "me" /\ r.as = k /\ r.answer = Session!Sent
<1>. DEFINE s == Session!Sent
            x == [q EXCEPT !.kind = "me"]
            y == [x EXCEPT !.as = k]
            z == [y EXCEPT !.answer = s]
<1>. HIDE DEF s
<1>1. SessionFields(x) /\ x.kind = "me"
  BY SMTT(30) DEF SessionFields
<1>. HIDE DEF x
<1>2. SessionFields(y) /\ y.kind = "me" /\ y.as = k
  BY <1>1, SMTT(30) DEF SessionFields
<1>. HIDE DEF y
<1>3. SessionFields(z) /\ z.kind = "me" /\ z.as = k /\ z.answer = s
  BY <1>2, SMTT(30) DEF SessionFields
<1>. HIDE DEF z
<1>4. [q EXCEPT !.kind = "me", !.as = k, !.answer = s] = z
  BY SMT DEF x, y, z
<1>. QED
  BY <1>3, <1>4, Zenon DEF s

LEMMA RepliesDiffer ==
    /\ Session!Sent # Session!Refused /\ Session!Sent # Session!Checked /\ Session!Checked # Session!Refused
    /\ \A s : [ok |-> TRUE, set |-> s] \notin {Session!Sent, Session!Refused, Session!Checked}
    /\ \A u, o : [ok |-> TRUE, user |-> u, org |-> o] \notin {Session!Sent, Session!Refused, Session!Checked}
    /\ \A t, u : [tok |-> t, user |-> u] # Session!Nobody
    /\ "set" \notin DOMAIN Session!Sent /\ "set" \notin DOMAIN Session!Refused /\ "set" \notin DOMAIN Session!Checked
    /\ "set" \notin DOMAIN [ok |-> TRUE]
    /\ Session!Sent # [ok |-> TRUE] /\ [ok |-> TRUE] # Session!Refused
<1>1. /\ DOMAIN Session!Sent = {"at"} /\ DOMAIN Session!Refused = {"ok"} /\ DOMAIN Session!Checked = {"at"}
      /\ DOMAIN Session!Nobody = {"tok"} /\ DOMAIN [ok |-> TRUE] = {"ok"}
      /\ Session!Sent.at = "sent" /\ Session!Checked.at = "checked"
      /\ "set" # "at" /\ "set" # "ok" /\ "at" # "ok" /\ "tok" # "user" /\ "sent" # "checked"
      /\ "user" # "ok" /\ "user" # "at" /\ "user" # "tok"
  BY SMT DEF Session!Sent, Session!Refused, Session!Checked, Session!Nobody
<1>2. ASSUME NEW s PROVE "set" \in DOMAIN [ok |-> TRUE, set |-> s]
  BY SMT
<1>3. ASSUME NEW u, NEW o PROVE "user" \in DOMAIN [ok |-> TRUE, user |-> u, org |-> o]
  BY SMT
<1>4. ASSUME NEW t, NEW u PROVE "user" \in DOMAIN [tok |-> t, user |-> u]
  BY SMT
<1>5. \A s : [ok |-> TRUE, set |-> s] \notin {Session!Sent, Session!Refused, Session!Checked}
  BY <1>1, <1>2, Zenon
<1>6. \A u, o : [ok |-> TRUE, user |-> u, org |-> o] \notin {Session!Sent, Session!Refused, Session!Checked}
  BY <1>1, <1>3, Zenon
<1>7. \A t, u : [tok |-> t, user |-> u] # Session!Nobody
  BY <1>1, <1>4, Zenon
<1>8. Session!Refused # [ok |-> TRUE]
  BY SMT DEF Session!Refused
<1>9. "set" \notin {"at"} /\ "set" \notin {"ok"} /\ Session!Sent # Session!Refused /\ Session!Checked # Session!Refused
  <2>1. "at" \in DOMAIN Session!Sent /\ "at" \in DOMAIN Session!Checked /\ "at" \notin DOMAIN Session!Refused
    BY <1>1, Zenon
  <2>. QED
    BY <1>1, <2>1, Zenon
<1>10. Session!Sent # [ok |-> TRUE]
  <2>1. "at" \in DOMAIN Session!Sent /\ "at" \notin DOMAIN [ok |-> TRUE]
    BY <1>1, Zenon
  <2>. QED
    BY <2>1, Zenon
<1>. QED
  BY <1>1, <1>5, <1>6, <1>7, <1>8, <1>9, <1>10, Zenon

LEMMA SessionBegin == Session!Init => SessionInv
<1>. SUFFICES ASSUME Session!Init PROVE SessionInv
  OBVIOUS
<1>. DEFINE q == [n |-> 0, kind |-> "me", who |-> Session!NoUser, as |-> cookie, then |-> "boot",
                  mount |-> sessionMount, answer |-> Session!Sent]
<1>1. sessionCalls = {q} /\ cookie = Session!Nobody /\ sessions = {} /\ org = Session!NoOrg
  BY Zenon DEF Session!Init, Session!Call
<1>2. SessionFields(q) /\ q.kind = "me" /\ q.answer = Session!Sent /\ q.as = cookie
  BY SMT DEF SessionFields
<1>. HIDE DEF q
<1>3. OrgTold(q, orgs)
  BY <1>2, Zenon DEF OrgTold
<1>4. AloneTells(q, cookie, sessions)
  <2>1. "me" \notin {"login", "signup"} /\ "me" # "logout" /\ "me" # "orgs" /\ "me" \in {"me", "login", "signup", "logout", "orgs"}
    BY SMT
  <2>. QED
    BY <1>1, <1>2, <2>1, RepliesDiffer, Zenon DEF AloneTells
<1>5. InAgreement(sessionCalls, cookie, user, sessions)
  BY <1>1, <1>2, <1>4, Zenon DEF InAgreement
<1>. QED
  BY <1>1, <1>2, <1>3, <1>5, Zenon DEF SessionInv, Session!OrgIsUsers

\* What the invariant speaks of does not change.
LEMMA SessionSame ==
    ASSUME SessionInv, UNCHANGED <<sessions, orgs, cookie, sessionCalls, raced, disturbed, user, org>>
    PROVE  SessionInv'
BY Zenon DEF SessionInv, Session!OrgIsUsers, InAgreement, AloneTells, OwnerShown, OrgTold, SessionFields

\* A form is submitted, or the user signs out.
LEMMA MadeKeeps ==
    ASSUME SessionInv, NEW sort \in {"login", "signup", "logout", "orgs"}, NEW who, NEW then,
           Session!Made(sort, who, then)
    PROVE  SessionInv'
<1>. DEFINE r == [n |-> made + 1, kind |-> sort, who |-> who, as |-> cookie, then |-> then,
                  mount |-> sessionMount, answer |-> Session!Sent]
<1>1. /\ sessionCalls' = sessionCalls \cup {r} /\ raced' = (raced \/ sessionCalls # {})
      /\ UNCHANGED <<sessions, orgs, cookie, disturbed, user, org>>
  BY Zenon DEF Session!Made, Session!Call, Session!server, Session!app
<1>2. SessionFields(r) /\ r.kind = sort /\ r.answer = Session!Sent
  BY SMT DEF SessionFields
<1>. HIDE DEF r
<1>3. sort # "me" /\ (sort \in {"login", "signup"} \/ sort = "logout" \/ sort = "orgs")
  BY SMT
<1>4. OrgTold(r, orgs)
  BY <1>2, <1>3, Zenon DEF OrgTold
<1>5. ASSUME NEW q \in sessionCalls' PROVE SessionFields(q) /\ OrgTold(q, orgs')
  BY <1>1, <1>2, <1>4, <1>5, Zenon DEF SessionInv
<1>6. ASSUME ~ raced' PROVE ~ raced /\ sessionCalls = {} /\ sessionCalls' = {r}
  <2>1. ~ raced /\ sessionCalls = {}
    BY <1>1, <1>6, Zenon
  <2>. QED
    BY <1>1, <2>1
<1>7. AloneTells(r, cookie, sessions)
  BY <1>2, <1>3, RepliesDiffer, Zenon DEF AloneTells
<1>8. ASSUME ~ raced', ~ disturbed' PROVE InAgreement(sessionCalls', cookie', user', sessions')
  <2>1. ~ raced /\ ~ disturbed /\ sessionCalls = {} /\ sessionCalls' = {r}
    BY <1>1, <1>6, <1>8, Zenon
  <2>2. InAgreement(sessionCalls, cookie, user, sessions)
    BY <2>1, Zenon DEF SessionInv
  <2>3. OwnerShown(cookie, user) /\ (cookie # Session!Nobody => cookie \in sessions)
    BY <2>1, <2>2, Zenon DEF InAgreement
  <2>. QED
    BY <1>1, <1>7, <2>1, <2>3, Zenon DEF InAgreement
<1>9. Session!OrgIsUsers' /\ Session!Nobody \notin sessions'
  BY <1>1, Zenon DEF SessionInv, Session!OrgIsUsers
<1>. QED
  BY <1>5, <1>6, <1>8, <1>9, Zenon DEF SessionInv

\* The API's step for request d, which becomes r; what it answered holds.
LEMMA ServedKeeps ==
    ASSUME SessionInv, NEW d \in sessionCalls, NEW r,
           sessionCalls' = (sessionCalls \ {d}) \cup {r},
           SessionFields(r), OrgTold(r, orgs'), orgs \subseteq orgs', Session!Nobody \notin sessions',
           UNCHANGED <<cookie, raced, disturbed, user, org>>,
           r.kind = d.kind, r.answer # Session!Sent,
           d.kind = "logout" \/ sessions \subseteq sessions',
           \* what the request says if it is the only one
           (AloneTells(d, cookie, sessions) /\ (cookie # Session!Nobody => cookie \in sessions)) =>
              AloneTells(r, cookie, sessions'),
           d.kind = "logout" => d.answer = Session!Sent
    PROVE  SessionInv'
<1>1. ASSUME NEW q \in sessionCalls' PROVE SessionFields(q) /\ OrgTold(q, orgs')
  <2>1. q = r \/ q \in sessionCalls
    BY <1>1, Zenon
  <2>2. CASE q \in sessionCalls
    BY <2>2, Zenon DEF SessionInv, OrgTold
  <2>. QED
    BY <2>1, <2>2, Zenon
<1>2. ASSUME ~ raced' PROVE ~ raced /\ sessionCalls = {d} /\ sessionCalls' = {r}
  <2>1. ~ raced
    BY <1>2, Zenon
  <2>2. sessionCalls = {d}
    BY <2>1, Zenon DEF SessionInv
  <2>. QED
    BY <2>1, <2>2
<1>3. ASSUME ~ raced', ~ disturbed' PROVE InAgreement(sessionCalls', cookie', user', sessions')
  <2>1. ~ raced /\ ~ disturbed /\ sessionCalls = {d} /\ sessionCalls' = {r}
    BY <1>2, <1>3, Zenon
  <2>2. InAgreement(sessionCalls, cookie, user, sessions)
    BY <2>1, Zenon DEF SessionInv
  <2>3. AloneTells(d, cookie, sessions)
    BY <2>2, Zenon DEF InAgreement
  <2>4. d.kind # "me" => OwnerShown(cookie, user)
    BY <2>1, <2>2, Zenon DEF InAgreement
  <2>5. cookie # Session!Nobody => cookie \in sessions \/ (d.kind = "logout" /\ d.answer # Session!Sent)
    BY <2>1, <2>2, Zenon DEF InAgreement
  <2>6. cookie # Session!Nobody => cookie \in sessions
    BY <2>5, Zenon
  <2>7. AloneTells(r, cookie, sessions')
    BY <2>3, <2>6, Zenon
  <2>8. cookie # Session!Nobody => cookie \in sessions' \/ (r.kind = "logout" /\ r.answer # Session!Sent)
    BY <2>6, Zenon
  <2>. QED
    BY <2>1, <2>4, <2>7, <2>8, Zenon DEF InAgreement
<1>4. Session!OrgIsUsers' /\ Session!Nobody \notin sessions'
  BY Zenon DEF SessionInv, Session!OrgIsUsers
<1>. QED
  BY <1>1, <1>2, <1>3, <1>4, Zenon DEF SessionInv

\* Requests that are answered by hand: all but /auth/me.
LEMMA AnsweredByHand ==
    ASSUME SessionInv, NEW d \in sessionCalls, NEW a, Session!Answered(d, a),
           d.kind # "me", a # Session!Sent,
           orgs \subseteq orgs', Session!Nobody \notin sessions',
           UNCHANGED <<cookie, raced, disturbed, user, org>>,
           d.kind = "logout" \/ sessions \subseteq sessions',
           d.kind \in {"login", "signup"} => a = Session!Refused \/ ("set" \in DOMAIN a /\ a.set \in sessions'),
           d.kind = "logout" => d.answer = Session!Sent /\ a = [ok |-> TRUE, set |-> Session!Nobody],
           d.kind = "orgs" => "set" \notin DOMAIN a
    PROVE  SessionInv'
<1>. DEFINE r == [d EXCEPT !.answer = a]
<1>1. SessionFields(d)
  BY Zenon DEF SessionInv
<1>2. SessionFields(r) /\ r.kind = d.kind /\ r.as = d.as /\ r.answer = a
  BY <1>1, RequestAnswered, Zenon
<1>3. sessionCalls' = (sessionCalls \ {d}) \cup {r}
  BY Zenon DEF Session!Answered
<1>. HIDE DEF r
<1>4. OrgTold(r, orgs')
  BY <1>2, Zenon DEF OrgTold
<1>5. AloneTells(d, cookie, sessions) => AloneTells(r, cookie, sessions')
  BY <1>2, Zenon DEF AloneTells
<1>. QED
  BY <1>2, <1>3, <1>4, <1>5, ServedKeeps, Zenon

LEMMA MeServedKeeps ==
    ASSUME SessionInv, NEW d \in sessionCalls, Session!ServeMe(d),
           UNCHANGED <<cookie, raced, disturbed, user, org>>
    PROVE  SessionInv'
<1>. DEFINE r(a) == [d EXCEPT !.answer = a]
            Welcome(o) == [ok |-> TRUE, user |-> d.as.user, org |-> o]
<1>1. SessionFields(d) /\ d.kind = "me" /\ d.answer = Session!Sent /\ sessions' = sessions /\ orgs' = orgs
  BY Zenon DEF SessionInv, Session!ServeMe, Session!server
<1>2. ASSUME NEW a PROVE SessionFields(r(a)) /\ r(a).kind = "me" /\ r(a).as = d.as /\ r(a).answer = a
  BY <1>1, RequestAnswered, Zenon
<1>3. ASSUME NEW o PROVE Welcome(o).user = d.as.user /\ Welcome(o).org = o
  BY SMT
<1>4. ASSUME NEW o PROVE Welcome(o) \notin {Session!Sent, Session!Refused}
  BY RepliesDiffer, Zenon
<1>5. "me" \notin {"login", "signup"} /\ "me" # "logout" /\ "me" # "orgs" /\ "me" \in {"me", "login", "signup", "logout", "orgs"}
  BY SMT
<1>6. ASSUME NEW a, Session!Answered(d, a), a # Session!Sent, OrgTold(r(a), orgs),
             AloneTells(d, cookie, sessions) /\ (cookie # Session!Nobody => cookie \in sessions) =>
                AloneTells(r(a), cookie, sessions)
      PROVE  SessionInv'
  <2>. DEFINE q == r(a)
  <2>1. sessionCalls' = (sessionCalls \ {d}) \cup {q}
    BY <1>6, Zenon DEF Session!Answered
  <2>2. SessionFields(q) /\ q.kind = d.kind /\ q.answer # Session!Sent
    BY <1>1, <1>2, <1>6, Zenon
  <2>3. OrgTold(q, orgs') /\ (AloneTells(d, cookie, sessions) /\ (cookie # Session!Nobody => cookie \in sessions) =>
                AloneTells(q, cookie, sessions'))
    BY <1>1, <1>6, Zenon
  <2>. HIDE DEF q
  <2>4. Session!Nobody \notin sessions' /\ orgs \subseteq orgs' /\ sessions \subseteq sessions' /\ d.kind # "logout"
    BY <1>1, <1>5, Zenon DEF SessionInv
  <2>. QED
    BY <2>1, <2>2, <2>3, <2>4, ServedKeeps, Zenon
<1>7. CASE ~ Session!Live(d.as) /\ Session!Answered(d, Session!Refused)
  <2>1. OrgTold(r(Session!Refused), orgs)
    BY <1>2, Zenon DEF OrgTold
  <2>2. AloneTells(d, cookie, sessions) /\ (cookie # Session!Nobody => cookie \in sessions) =>
                AloneTells(r(Session!Refused), cookie, sessions)
    BY <1>1, <1>2, <1>5, <1>7, RepliesDiffer, Zenon DEF AloneTells, Session!Live
  <2>. QED
    BY <1>6, <1>7, <2>1, <2>2, RepliesDiffer, Zenon
<1>8. ASSUME NEW o \in (IF Session!OrgsOf(d.as.user) = {} THEN {Session!NoOrg} ELSE Session!OrgsOf(d.as.user)),
             Session!Live(d.as), Session!Answered(d, Welcome(o))
      PROVE  SessionInv'
  <2>1. o = Session!NoOrg \/ (o \in orgs /\ o.of = d.as.user)
    BY <1>8 DEF Session!OrgsOf
  <2>2. OrgTold(r(Welcome(o)), orgs)
    BY <1>2, <1>3, <2>1, Zenon DEF OrgTold
  <2>3. AloneTells(d, cookie, sessions) => AloneTells(r(Welcome(o)), cookie, sessions)
    <3>1. d.as # Session!Nobody
      BY <1>8, Zenon DEF Session!Live, SessionInv
    <3>2. PICK w : w = Welcome(o)
      BY Zenon
    <3>3. PICK q : q = r(w)
      BY Zenon
    <3>4. w.user = d.as.user /\ w \notin {Session!Sent, Session!Refused}
      BY <1>3, <1>4, <3>2, Zenon
    <3>5. q.kind = "me" /\ q.answer = w
      BY <1>2, <3>3, Zenon
    <3>6. ASSUME AloneTells(d, cookie, sessions) PROVE d.as = cookie
      BY <1>1, <3>6, Zenon DEF AloneTells
    <3>7. AloneTells(d, cookie, sessions) => AloneTells(q, cookie, sessions)
      BY <1>5, <3>1, <3>4, <3>5, <3>6, Zenon DEF AloneTells
    <3>. QED
      BY <3>2, <3>3, <3>7, Zenon
  <2>. QED
    BY <1>4, <1>6, <1>8, <2>2, <2>3, Zenon
<1>. QED
  BY <1>7, <1>8, Zenon DEF Session!ServeMe

LEMMA ServeKeeps ==
    ASSUME SessionInv, NEW d \in sessionCalls, Session!Serve(d)
    PROVE  SessionInv'
<1>1. UNCHANGED <<cookie, raced, disturbed, user, org>>
  BY Zenon DEF Session!Serve, Session!app
<1>2. /\ "login" # "me" /\ "signup" # "me" /\ "logout" # "me" /\ "orgs" # "me"
      /\ "login" # "logout" /\ "signup" # "logout" /\ "orgs" # "logout"
      /\ "login" # "orgs" /\ "signup" # "orgs" /\ "logout" \notin {"login", "signup"} /\ "orgs" \notin {"login", "signup"}
  BY SMT
<1>3. Session!Nobody \notin sessions
  BY Zenon DEF SessionInv
<1>. DEFINE s == [tok |-> d.n, user |-> d.who]
<1>4. s # Session!Nobody
  BY RepliesDiffer, Zenon
<1>5. ASSUME d.kind \in {"login", "signup"}, sessions' = sessions \cup {s}, orgs' = orgs,
             Session!Answered(d, [ok |-> TRUE, set |-> s])
      PROVE  SessionInv'
  <2>. DEFINE a == [ok |-> TRUE, set |-> s]
  <2>1. "set" \in DOMAIN a /\ a.set = s
    BY SMT
  <2>2. a # Session!Sent
    BY RepliesDiffer, Zenon
  <2>3. s \in sessions' /\ Session!Nobody \notin sessions'
    BY <1>3, <1>4, <1>5, Zenon
  <2>. HIDE DEF s
  <2>4. sessions \subseteq sessions' /\ orgs \subseteq orgs' /\ d.kind # "me" /\ d.kind # "logout" /\ d.kind # "orgs"
    BY <1>2, <1>5, Zenon
  <2>. HIDE DEF a
  <2>5. Session!Answered(d, a)
    BY <1>5, Zenon DEF a
  <2>. QED
    BY <1>1, <1>5, <2>1, <2>2, <2>3, <2>4, <2>5, AnsweredByHand, Zenon
<1>6. ASSUME d.kind \in {"login", "signup"}, sessions' = sessions, orgs' = orgs,
             Session!Answered(d, Session!Refused)
      PROVE  SessionInv'
  <2>1. sessions \subseteq sessions' /\ orgs \subseteq orgs' /\ d.kind # "me" /\ d.kind # "logout" /\ d.kind # "orgs"
    BY <1>2, <1>6, Zenon
  <2>. QED
    BY <1>1, <1>3, <1>6, <2>1, AnsweredByHand, RepliesDiffer, Zenon
<1>7. ASSUME Session!ServeLogout(d) PROVE SessionInv'
  <2>. DEFINE a == [ok |-> TRUE, set |-> Session!Nobody]
  <2>1. d.kind = "logout" /\ d.answer = Session!Sent /\ sessions' = sessions \ {d.as} /\ orgs' = orgs /\ Session!Answered(d, a)
    BY <1>7, Zenon DEF Session!ServeLogout
  <2>2. a # Session!Sent
    BY RepliesDiffer, Zenon
  <2>3. Session!Nobody \notin sessions' /\ orgs \subseteq orgs'
    BY <1>3, <2>1, Zenon
  <2>. QED
    BY <1>1, <1>2, <2>1, <2>2, <2>3, AnsweredByHand, Zenon
<1>8. ASSUME NEW a, d.kind = "orgs", sessions' = sessions, orgs \subseteq orgs', Session!Answered(d, a),
             a # Session!Sent, "set" \notin DOMAIN a
      PROVE  SessionInv'
  <2>1. sessions \subseteq sessions' /\ Session!Nobody \notin sessions'
    BY <1>3, <1>8, Zenon
  <2>. QED
    BY <1>1, <1>2, <1>8, <2>1, AnsweredByHand, Zenon
<1>9. ASSUME Session!CheckOrg(d) PROVE SessionInv'
  BY <1>8, <1>9, RepliesDiffer, Zenon DEF Session!CheckOrg, Session!server
<1>10. ASSUME Session!InsertOrg(d) PROVE SessionInv'
  <2>1. orgs \subseteq orgs'
    BY <1>10, Zenon DEF Session!InsertOrg
  <2>2. [ok |-> TRUE] # Session!Sent
    BY RepliesDiffer, Zenon
  <2>. QED
    BY <1>8, <1>10, <2>1, <2>2, RepliesDiffer, Zenon DEF Session!InsertOrg
<1>11. ASSUME Session!ServeLogin(d) PROVE SessionInv'
  BY <1>5, <1>6, <1>11, Zenon DEF Session!ServeLogin
<1>12. ASSUME Session!ServeSignup(d) PROVE SessionInv'
  BY <1>5, <1>6, <1>12, Zenon DEF Session!ServeSignup
<1>. QED
  BY <1>1, <1>7, <1>9, <1>10, <1>11, <1>12, MeServedKeeps, Zenon DEF Session!Serve

\* An answer of /auth/me, or the loss of one: the page shows who it names.
LEMMA MeReturnsKeeps ==
    ASSUME SessionInv, NEW d \in sessionCalls, NEW a, Session!MeReturns(d, a),
           a = Session!Refused \/ (a = d.answer /\ a \notin {Session!Sent, Session!Checked}),
           a = d.answer \/ disturbed', UNCHANGED <<sessions, orgs, raced>>,
           disturbed => disturbed'
    PROVE  SessionInv'
<1>1. /\ d.kind = "me" /\ sessionCalls' = sessionCalls \ {d} /\ cookie' = cookie
      /\ user' = Session!MeAnswer(a)[1] /\ org' = Session!MeAnswer(a)[2]
  BY Zenon DEF Session!MeReturns, Session!Show
<1>2. a # Session!Refused => user' = a.user /\ org' = a.org
  <2>1. a # Session!Refused => Session!MeAnswer(a) = <<a.user, a.org>>
    BY Zenon DEF Session!MeAnswer
  <2>. QED
    BY <1>1, <2>1
<1>3. a = Session!Refused => user' = Session!NoUser /\ org' = Session!NoOrg
  <2>1. a = Session!Refused => Session!MeAnswer(a) = <<Session!NoUser, Session!NoOrg>>
    BY Zenon DEF Session!MeAnswer
  <2>. QED
    BY <1>1, <2>1
<1>4. Session!OrgIsUsers'
  <2>1. ASSUME a # Session!Refused, a.org # Session!NoOrg PROVE a.org \in orgs /\ a.org.of = a.user
    BY <1>1, <2>1, Zenon DEF SessionInv, OrgTold
  <2>. QED
    BY <1>2, <1>3, <2>1, Zenon DEF Session!OrgIsUsers
<1>5. ASSUME NEW q \in sessionCalls' PROVE q \in sessionCalls /\ SessionFields(q) /\ OrgTold(q, orgs')
  BY <1>1, <1>5, Zenon DEF SessionInv
<1>6. ASSUME ~ raced', ~ disturbed' PROVE InAgreement(sessionCalls', cookie', user', sessions')
  <2>1. ~ raced /\ ~ disturbed /\ a = d.answer
    BY <1>6, Zenon
  <2>2. sessionCalls = {d}
    BY <2>1, Zenon DEF SessionInv
  <2>3. InAgreement(sessionCalls, cookie, user, sessions)
    BY <2>1, Zenon DEF SessionInv
  <2>4. AloneTells(d, cookie, sessions)
    BY <2>3, Zenon DEF InAgreement
  <2>5. OwnerShown(cookie, user')
    BY <1>1, <1>2, <1>3, <2>1, <2>4, RepliesDiffer, Zenon DEF AloneTells, OwnerShown
  <2>6. sessionCalls' = {}
    BY <1>1, <2>2, Zenon
  <2>7. cookie # Session!Nobody => cookie \in sessions
    <3>1. d.kind # "logout"
      <4>1. "me" # "logout"
        BY SMT
      <4>. QED
        BY <1>1, <4>1, Zenon
    <3>. QED
      BY <2>2, <2>3, <3>1, Zenon DEF InAgreement
  <2>. QED
    BY <1>1, <2>5, <2>6, <2>7, Zenon DEF InAgreement
<1>7. ~ raced' => \A p, q \in sessionCalls' : p = q
  BY <1>5, Zenon DEF SessionInv
<1>. QED
  BY <1>4, <1>5, <1>6, <1>7, Zenon DEF SessionInv

\* Request d is followed by /auth/me, under the cookie k.
LEMMA AsksAgain ==
    ASSUME SessionInv, NEW d \in sessionCalls, NEW k, Session!AskAgain(d, k), cookie' = k,
           UNCHANGED <<sessions, orgs, raced, user, org>>,
           disturbed => disturbed',
           ~ raced /\ ~ disturbed' => (k # Session!Nobody => k \in sessions)
    PROVE  SessionInv'
<1>. DEFINE r == [d EXCEPT !.kind = "me", !.as = k, !.answer = Session!Sent]
<1>1. SessionFields(d)
  BY Zenon DEF SessionInv
<1>2. SessionFields(r) /\ r.kind = "me" /\ r.as = k /\ r.answer = Session!Sent
  BY <1>1, RequestAgain, Zenon
<1>3. sessionCalls' = (sessionCalls \ {d}) \cup {r}
  BY Zenon DEF Session!AskAgain
<1>. HIDE DEF r
<1>4. OrgTold(r, orgs')
  BY <1>2, Zenon DEF OrgTold
<1>5. "me" \notin {"login", "signup"} /\ "me" # "logout" /\ "me" # "orgs" /\ "me" \in {"me", "login", "signup", "logout", "orgs"}
  BY SMT
<1>6. AloneTells(r, cookie', sessions')
  BY <1>2, <1>5, RepliesDiffer, Zenon DEF AloneTells
<1>7. ASSUME NEW q \in sessionCalls' PROVE SessionFields(q) /\ OrgTold(q, orgs')
  <2>1. q = r \/ q \in sessionCalls
    BY <1>3, <1>7, Zenon
  <2>. QED
    BY <1>2, <1>4, <2>1, Zenon DEF SessionInv
<1>8. ASSUME ~ raced' PROVE ~ raced /\ sessionCalls = {d} /\ sessionCalls' = {r}
  <2>1. ~ raced
    BY <1>8, Zenon
  <2>2. sessionCalls = {d}
    BY <2>1, Zenon DEF SessionInv
  <2>. QED
    BY <1>3, <2>1, <2>2
<1>9. ASSUME ~ raced', ~ disturbed' PROVE InAgreement(sessionCalls', cookie', user', sessions')
  BY <1>2, <1>6, <1>8, <1>9, Zenon DEF InAgreement
<1>10. Session!OrgIsUsers' /\ Session!Nobody \notin sessions'
  BY Zenon DEF SessionInv, Session!OrgIsUsers
<1>. QED
  BY <1>7, <1>8, <1>9, <1>10, Zenon DEF SessionInv

LEMMA AcceptedKeeps ==
    ASSUME SessionInv, NEW d \in sessionCalls, Session!Accepted(d), d.answer \notin {Session!Sent, Session!Checked},
           UNCHANGED <<sessions, orgs, raced, disturbed>>
    PROVE  SessionInv'
<1>1. PICK k : k = IF "set" \in DOMAIN d.answer THEN d.answer.set ELSE cookie
  BY Zenon
<1>2. d.kind # "me" /\ d.answer # Session!Refused /\ cookie' = k /\ Session!AskAgain(d, k) /\ UNCHANGED <<user, org>>
  BY <1>1, Zenon DEF Session!Accepted, Session!app
<1>3. ASSUME ~ raced, ~ disturbed', k # Session!Nobody PROVE k \in sessions
  <2>1. sessionCalls = {d} /\ InAgreement(sessionCalls, cookie, user, sessions)
    BY <1>3, Zenon DEF SessionInv
  <2>2. AloneTells(d, cookie, sessions)
    BY <2>1, Zenon DEF InAgreement
  <2>3. CASE d.kind \in {"login", "signup"}
    BY <1>1, <1>2, <2>2, <2>3, Zenon DEF AloneTells
  <2>4. CASE d.kind = "logout"
    <3>1. d.answer = [ok |-> TRUE, set |-> Session!Nobody]
      BY <2>2, <2>4, Zenon DEF AloneTells
    <3>2. "set" \in DOMAIN d.answer /\ d.answer.set = Session!Nobody
      BY <3>1, SMT
    <3>. QED
      BY <1>1, <1>3, <3>2, Zenon
  <2>5. CASE d.kind = "orgs"
    <3>1. k = cookie
      BY <1>1, <2>2, <2>5, Zenon DEF AloneTells
    <3>2. "orgs" # "logout"
      BY SMT
    <3>. QED
      BY <1>3, <2>1, <2>5, <3>1, <3>2, Zenon DEF InAgreement
  <2>. QED
    BY <1>2, <2>2, <2>3, <2>4, <2>5, Zenon DEF AloneTells
<1>. QED
  BY <1>2, <1>3, AsksAgain, Zenon

\* A form's call that was refused, and one whose answer was lost.
LEMMA SessionFailKeeps ==
    ASSUME SessionInv, NEW d \in sessionCalls, Session!Fails(d), UNCHANGED <<sessions, orgs, raced>>,
           d.answer = Session!Refused \/ disturbed', disturbed => disturbed'
    PROVE  SessionInv'
<1>1. d.kind # "me" /\ UNCHANGED <<cookie, user, org>> /\ (disturbed => disturbed')
  BY Zenon DEF Session!Fails, Session!app
<1>2. ASSUME ~ raced, ~ disturbed' PROVE d.kind # "logout" /\ sessionCalls = {d} /\ InAgreement(sessionCalls, cookie, user, sessions)
  <2>1. sessionCalls = {d} /\ InAgreement(sessionCalls, cookie, user, sessions) /\ d.answer = Session!Refused
    BY <1>2, Zenon DEF SessionInv
  <2>2. AloneTells(d, cookie, sessions)
    BY <2>1, Zenon DEF InAgreement
  <2>3. d.kind # "logout"
    BY <2>1, <2>2, RepliesDiffer, Zenon DEF AloneTells
  <2>. QED
    BY <2>1, <2>3, Zenon
<1>3. CASE d.kind = "logout"
  <2>1. Session!AskAgain(d, cookie) /\ cookie' = cookie
    BY <1>3, Zenon DEF Session!Fails
  <2>2. ~ raced /\ ~ disturbed' => (cookie # Session!Nobody => cookie \in sessions)
    BY <1>2, <1>3, Zenon
  <2>. QED
    BY <1>1, <2>1, <2>2, AsksAgain, Zenon
<1>4. CASE d.kind # "logout"
  <2>1. sessionCalls' = sessionCalls \ {d}
    BY <1>4, Zenon DEF Session!Fails
  <2>2. ASSUME NEW q \in sessionCalls' PROVE q \in sessionCalls /\ SessionFields(q) /\ OrgTold(q, orgs')
    BY <2>1, <2>2, Zenon DEF SessionInv
  <2>3. ASSUME ~ raced', ~ disturbed' PROVE InAgreement(sessionCalls', cookie', user', sessions')
    <3>1. ~ raced /\ sessionCalls = {d} /\ InAgreement(sessionCalls, cookie, user, sessions)
      BY <1>2, <2>3, Zenon
    <3>2. sessionCalls' = {}
      BY <2>1, <3>1, Zenon
    <3>3. OwnerShown(cookie, user) /\ (cookie # Session!Nobody => cookie \in sessions)
      BY <1>1, <1>4, <3>1, Zenon DEF InAgreement
    <3>. QED
      BY <1>1, <3>2, <3>3, Zenon DEF InAgreement
  <2>4. Session!OrgIsUsers' /\ Session!Nobody \notin sessions' /\ (~ raced' => \A p, q \in sessionCalls' : p = q)
    BY <1>1, <2>2, Zenon DEF SessionInv, Session!OrgIsUsers
  <2>. QED
    BY <2>2, <2>3, <2>4, Zenon DEF SessionInv
<1>. QED
  BY <1>3, <1>4, Zenon

LEMMA SessionKept == SessionInv /\ (Session!Next \/ UNCHANGED sessionVars) => SessionInv'
<1>. SUFFICES ASSUME SessionInv, Session!Next \/ UNCHANGED sessionVars PROVE SessionInv'
  OBVIOUS
<1>1. CASE UNCHANGED sessionVars
  BY <1>1, SessionSame, Zenon DEF sessionVars
<1>2. CASE Session!Fill
  BY <1>2, SessionSame, Zenon DEF Session!Fill, Session!server, Session!app
<1>3. CASE Session!SubmitAuth
  <2>1. PICK sort : sort = IF mode = "signin" THEN "login" ELSE "signup"
    BY Zenon
  <2>2. Session!Made(sort, email, "auth")
    BY <1>3, <2>1, Zenon DEF Session!SubmitAuth
  <2>3. sort \in {"login", "signup", "logout", "orgs"}
    BY <2>1, Zenon
  <2>. QED
    BY <2>2, <2>3, MadeKeeps, Zenon
<1>4. CASE Session!SubmitOrg \/ Session!SignOut
  <2>1. Session!Made("orgs", user, "org") \/ Session!Made("logout", user, "out")
    BY <1>4, Zenon DEF Session!SubmitOrg, Session!SignOut
  <2>2. "orgs" \in {"login", "signup", "logout", "orgs"} /\ "logout" \in {"login", "signup", "logout", "orgs"}
    BY Zenon
  <2>. QED
    BY <2>1, <2>2, MadeKeeps, Zenon
<1>5. CASE Session!Expire
  <2>1. /\ disturbed' = TRUE /\ sessions' = sessions \ {cookie}
        /\ UNCHANGED <<orgs, sessionCalls, raced, user, org>>
    BY <1>5, Zenon DEF Session!Expire, Session!app
  <2>2. Session!OrgIsUsers' /\ Session!Nobody \notin sessions'
    BY <2>1, Zenon DEF SessionInv, Session!OrgIsUsers
  <2>. QED
    BY <2>1, <2>2, Zenon DEF SessionInv
<1>6. ASSUME NEW d \in sessionCalls, Session!Return(d) PROVE SessionInv'
  <2>1. d.answer \notin {Session!Sent, Session!Checked} /\ UNCHANGED <<sessions, orgs, raced, disturbed>>
    BY <1>6, Zenon DEF Session!Return, Session!server
  <2>2. ASSUME Session!MeReturns(d, d.answer) PROVE SessionInv'
    BY <2>1, <2>2, MeReturnsKeeps, Zenon
  <2>3. ASSUME Session!Accepted(d) PROVE SessionInv'
    BY <2>1, <2>3, AcceptedKeeps, Zenon
  <2>4. ASSUME d.answer = Session!Refused, Session!Fails(d) PROVE SessionInv'
    <3>1. disturbed => disturbed'
      BY <2>1, Zenon
    <3>. QED
      BY <2>1, <2>4, <3>1, SessionFailKeeps, Zenon
  <2>. QED
    BY <1>6, <2>2, <2>3, <2>4, Zenon DEF Session!Return
<1>7. ASSUME NEW d \in sessionCalls, Session!Lose(d) PROVE SessionInv'
  <2>1. disturbed' = TRUE /\ UNCHANGED <<sessions, orgs, raced>>
    BY <1>7, Zenon DEF Session!Lose, Session!server
  <2>2. ASSUME Session!MeReturns(d, Session!Refused) PROVE SessionInv'
    BY <2>1, <2>2, MeReturnsKeeps, Zenon
  <2>3. ASSUME Session!Fails(d) PROVE SessionInv'
    BY <2>1, <2>3, SessionFailKeeps, Zenon
  <2>. QED
    BY <1>7, <2>2, <2>3, Zenon DEF Session!Lose
<1>. QED
  BY <1>1, <1>2, <1>3, <1>4, <1>5, <1>6, <1>7, ServeKeeps, Zenon DEF Session!Next

\* The invariant says what the page promises.
LEMMA SessionTells == SessionInv => Session!OrgIsUsers /\ Session!AloneMeansAgreed
BY Zenon DEF SessionInv, Session!AloneMeansAgreed, InAgreement, OwnerShown

-----------------------------------------------------------------------------
\* The scans and QR panels.

\* All the scans campaign id had when there were no more than some number of them.
UpTo(all, id, rows) ==
    \E newest \in 0..Len(all) : rows = {k \in 1..Len(all) : all[k] = id /\ k <= newest}

\* More scans change nothing of it.
LEMMA UpToStays ==
    ASSUME NEW S, NEW all \in Seq(S), NEW x \in S, NEW id, NEW rows, UpTo(all, id, rows)
    PROVE  UpTo(Append(all, x), id, rows)
<1>. DEFINE n == Len(all)
            more == Append(all, x)
<1>1. n \in Nat /\ Len(more) = n + 1 /\ \A i \in 1..n : more[i] = all[i]
  BY AppendProperties, LenProperties
<1>. HIDE DEF more
<1>2. PICK newest \in 0..n : rows = {k \in 1..n : all[k] = id /\ k <= newest}
  BY DEF UpTo
<1>3. newest \in 0..Len(more) /\ \A k \in 1..Len(more) : k <= newest => k \in 1..n
  BY <1>1
<1>4. \A k \in 1..n : k \in 1..Len(more)
  BY <1>1
<1>5. rows = {k \in 1..Len(more) : more[k] = id /\ k <= newest}
  BY <1>1, <1>2, <1>3, <1>4
<1>. QED
  BY <1>3, <1>5 DEF UpTo, more

PanelFields(q) ==
    q = [n |-> q.n, kind |-> q.kind, id |-> q.id, mount |-> q.mount, answer |-> q.answer]

\* A request of a mount up to m, and what its answer says.
PanelCall(all, q, m) ==
    /\ PanelFields(q) /\ q.kind \in {"scans", "qr"} /\ q.id \in Campaigns /\ q.mount \in 0..m
    /\ q.kind = "qr" /\ q.answer # Panels!Sent => q.answer.id = q.id
    /\ q.kind = "scans" /\ q.answer # Panels!Sent => UpTo(all, q.id, q.answer.rows)

\* What is on screen is of one campaign, and, unless a change crossed a request,
\* that is the campaign the mount has asked for.
PanelsInv ==
    /\ scans \in Seq(Campaigns) /\ c \in Campaigns /\ panelsMount \in Nat
    /\ \A q \in panelsCalls : PanelCall(scans, q, panelsMount)
    /\ ~ panelsCrossed => \A q \in panelsCalls : q.mount = panelsMount => q.id = c
    /\ \E id \in Campaigns : UpTo(scans, id, pages) /\ (~ panelsCrossed => id = c)
    /\ Panels!QrIsShown

LEMMA PanelsAssume == Panels!NoQr \notin Campaigns
BY ConsoleAssumption, Zenon DEF Panels!PanelsAssumption

\* What the panels ask for is for the campaign and the mount they have.
NewCall(q, id, m) ==
    PanelFields(q) /\ q.kind \in {"scans", "qr"} /\ q.id = id /\ q.mount = m /\ q.answer = Panels!Sent

LEMMA AskedAre ==
    ASSUME NEW n, NEW id, NEW m, NEW q, q \in Panels!Asked(n, id, m)
    PROVE  NewCall(q, id, m)
<1>1. PICK k \in {"scans", "qr"} : q = [n |-> n, kind |-> k, id |-> id, mount |-> m, answer |-> Panels!Sent]
  BY Zenon DEF Panels!Asked
<1>2. /\ q.n = n /\ q.kind = k /\ q.id = id /\ q.mount = m /\ q.answer = Panels!Sent
  BY <1>1
<1>3. PanelFields(q)
  BY <1>1, <1>2, Zenon DEF PanelFields
<1>. QED
  BY <1>2, <1>3, Zenon DEF NewCall

LEMMA NothingListed ==
    ASSUME NEW S, NEW all \in Seq(S), NEW id
    PROVE  UpTo(all, id, {})
<1>1. Len(all) \in Nat
  BY LenProperties
<1>2. 0 \in 0..Len(all) /\ {} = {k \in 1..Len(all) : all[k] = id /\ k <= 0}
  BY <1>1
<1>. QED
  BY <1>2, Zenon DEF UpTo

LEMMA PanelsBegin == Panels!Init => PanelsInv
<1>. SUFFICES ASSUME Panels!Init PROVE PanelsInv
  OBVIOUS
<1>1. /\ scans = <<>> /\ c \in Campaigns /\ panelsMount = 0 /\ pages = {} /\ qr = Panels!NoQr
      /\ panelsCalls = Panels!Asked(0, c, 0)
  BY Zenon DEF Panels!Init
<1>2. scans \in Seq(Campaigns) /\ panelsMount \in Nat
  BY <1>1
<1>3. ASSUME NEW q \in panelsCalls PROVE PanelCall(scans, q, panelsMount) /\ q.id = c
  <2>1. q \in Panels!Asked(0, c, 0) /\ c \in Campaigns /\ 0 \in Nat
    BY <1>1
  <2>2. NewCall(q, c, 0)
    BY ONLY <2>1, AskedAre, Zenon
  <2>3. 0 \in 0..0
    OBVIOUS
  <2>. QED
    BY <1>1, <2>2, <2>3, Zenon DEF NewCall, PanelCall
<1>4. UpTo(scans, c, pages)
  BY <1>1, <1>2, NothingListed, Zenon
<1>. QED
  BY <1>1, <1>2, <1>3, <1>4, Zenon DEF PanelsInv, Panels!QrIsShown

LEMMA ScanKeeps ==
    ASSUME PanelsInv, NEW x \in Campaigns, Panels!Scan(x)
    PROVE  PanelsInv'
<1>1. scans' = Append(scans, x) /\ UNCHANGED <<c, panelsMount, pages, qr, panelsCalls, panelsCrossed>>
  BY Zenon DEF Panels!Scan, Panels!panels
<1>2. scans \in Seq(Campaigns)
  BY Zenon DEF PanelsInv
<1>3. scans' \in Seq(Campaigns)
  BY <1>1, <1>2, AppendProperties, Zenon
<1>4. \A id, rows : UpTo(scans, id, rows) => UpTo(scans', id, rows)
  BY <1>1, <1>2, UpToStays, Zenon
<1>5. \A q \in panelsCalls : PanelCall(scans, q, panelsMount) => PanelCall(scans', q, panelsMount)
  BY <1>4, Zenon DEF PanelCall
<1>. QED
  BY <1>1, <1>3, <1>4, <1>5, Zenon DEF PanelsInv, Panels!QrIsShown

LEMMA PanelsChange ==
    ASSUME PanelsInv, NEW x \in Campaigns, NEW anew \in BOOLEAN, Panels!Change(x, anew)
    PROVE  PanelsInv'
<1>1. /\ c' = x /\ panelsMount' = (IF anew THEN panelsMount + 1 ELSE panelsMount)
      /\ pages' = {} /\ qr' = Panels!NoQr /\ scans' = scans
      /\ panelsCalls' = panelsCalls \cup Panels!Asked(asked', x, panelsMount')
      /\ panelsCrossed' = (panelsCrossed \/ (~ anew /\ panelsCalls # {}))
  BY Zenon DEF Panels!Change, Panels!Reset, Panels!api
<1>2. scans \in Seq(Campaigns) /\ panelsMount \in Nat
  BY Zenon DEF PanelsInv
<1>3. panelsMount' \in Nat /\ 0..panelsMount \subseteq 0..panelsMount'
  BY <1>1, <1>2
<1>4. ASSUME NEW q \in panelsCalls
      PROVE  /\ PanelCall(scans, q, panelsMount')
             /\ ~ panelsCrossed' => q.mount # panelsMount'
  <2>1. PanelCall(scans, q, panelsMount)
    BY Zenon DEF PanelsInv
  <2>2. PanelCall(scans, q, panelsMount')
    BY <1>3, <2>1, Zenon DEF PanelCall
  <2>3. q.mount \in 0..panelsMount
    BY <2>1, Zenon DEF PanelCall
  <2>4. ~ panelsCrossed' => anew
    BY <1>1, Zenon
  <2>5. ~ panelsCrossed' => q.mount # panelsMount'
    BY <1>1, <1>2, <2>3, <2>4, SMT
  <2>. QED
    BY <2>2, <2>5
<1>5. ASSUME NEW q \in Panels!Asked(asked', x, panelsMount')
      PROVE  PanelCall(scans, q, panelsMount') /\ q.id = x
  <2>1. NewCall(q, x, panelsMount')
    BY ONLY <1>5, AskedAre, Zenon
  <2>2. panelsMount' \in 0..panelsMount'
    BY <1>3
  <2>. QED
    BY <2>1, <2>2, Zenon DEF NewCall, PanelCall
<1>6. UpTo(scans, x, {})
  BY <1>2, NothingListed, Zenon
<1>. QED
  BY <1>1, <1>2, <1>3, <1>4, <1>5, <1>6, Zenon DEF PanelsInv, Panels!QrIsShown

\* What handleListScans answers is all the scans of the campaign by then.
LEMMA PanelsServe ==
    ASSUME PanelsInv, NEW q \in panelsCalls, Panels!Serve(q)
    PROVE  PanelsInv'
<1>1. UNCHANGED <<scans, c, panelsMount, pages, qr, panelsCrossed>>
  BY Zenon DEF Panels!Serve, Panels!panels
<1>2. PanelCall(scans, q, panelsMount) /\ scans \in Seq(Campaigns)
  BY Zenon DEF PanelsInv
<1>3. CASE panelsCalls' = panelsCalls
  BY <1>1, <1>3, Zenon DEF PanelsInv, Panels!QrIsShown
<1>4. CASE \E a : /\ Panels!Answered(q, a)
                  /\ \/ q.kind = "qr" /\ a = [at |-> "ok", id |-> q.id]
                     \/ q.kind = "scans" /\ a = [at |-> "ok", rows |-> Panels!Rows(q.id)]
  <2>1. PICK a : /\ Panels!Answered(q, a)
                 /\ \/ q.kind = "qr" /\ a = [at |-> "ok", id |-> q.id]
                    \/ q.kind = "scans" /\ a = [at |-> "ok", rows |-> Panels!Rows(q.id)]
    BY <1>4, Zenon
  <2>2. PICK r : r = [q EXCEPT !.answer = a]
    OBVIOUS
  <2>3. /\ PanelFields(r) /\ r.kind = q.kind /\ r.id = q.id /\ r.mount = q.mount /\ r.answer = a
    <3>1. PanelFields(q)
      BY <1>2, Zenon DEF PanelCall
    <3>. QED
      BY <2>2, <3>1, SMTT(30) DEF PanelFields
  <2>4. q.kind = "qr" => a.id = q.id
    BY <2>1
  <2>5. q.kind = "scans" => a.rows = Panels!Rows(q.id)
    BY <2>1
  <2>6. UpTo(scans, q.id, Panels!Rows(q.id))
    <3>1. Len(scans) \in Nat /\ DOMAIN scans = 1..Len(scans)
      BY <1>2, LenProperties
    <3>2. Len(scans) \in 0..Len(scans) /\ \A k \in 1..Len(scans) : k <= Len(scans)
      BY <3>1
    <3>3. Panels!Rows(q.id) = {k \in 1..Len(scans) : scans[k] = q.id /\ k <= Len(scans)}
      BY <3>1, <3>2, Zenon DEF Panels!Rows
    <3>. QED
      BY <3>2, <3>3, Zenon DEF UpTo
  <2>7. PanelCall(scans, r, panelsMount)
    BY <1>2, <2>3, <2>4, <2>5, <2>6, Zenon DEF PanelCall
  <2>8. panelsCalls' = (panelsCalls \ {q}) \cup {r}
    BY <2>1, <2>2, Zenon DEF Panels!Answered
  <2>. QED
    BY <1>1, <2>3, <2>7, <2>8, Zenon DEF PanelsInv, Panels!QrIsShown
<1>. QED
  BY <1>3, <1>4, Zenon DEF Panels!Serve

LEMMA PanelsFail ==
    ASSUME PanelsInv, NEW q \in panelsCalls, Panels!Fails(q)
    PROVE  PanelsInv'
<1>1. panelsCalls' = panelsCalls \ {q} /\ UNCHANGED <<scans, c, panelsMount, pages, qr, panelsCrossed>>
  BY Zenon DEF Panels!Fails, Panels!api
<1>. QED
  BY <1>1, Zenon DEF PanelsInv, Panels!QrIsShown

LEMMA PanelsArrive ==
    ASSUME PanelsInv, NEW q \in panelsCalls, Panels!Arrives(q)
    PROVE  PanelsInv'
<1>1. q.answer # Panels!Sent /\ panelsCalls' = panelsCalls \ {q} /\ UNCHANGED <<scans, c, panelsMount, panelsCrossed>>
  BY Zenon DEF Panels!Arrives, Panels!api
<1>2. PanelCall(scans, q, panelsMount)
  BY Zenon DEF PanelsInv
<1>3. ~ panelsCrossed /\ q.mount = panelsMount => q.id = c
  BY Zenon DEF PanelsInv
<1>4. CASE UNCHANGED <<pages, qr>>
  BY <1>1, <1>4, Zenon DEF PanelsInv, Panels!QrIsShown
<1>5. CASE q.mount = panelsMount /\ q.kind = "qr" /\ qr' = q.answer.id /\ pages' = pages
  <2>1. q.answer.id = q.id
    BY <1>1, <1>2, <1>5, Zenon DEF PanelCall
  <2>. QED
    BY <1>1, <1>3, <1>5, <2>1, Zenon DEF PanelsInv, Panels!QrIsShown
<1>6. CASE q.mount = panelsMount /\ q.kind = "scans" /\ pages' = q.answer.rows /\ qr' = qr
  <2>1. UpTo(scans, q.id, q.answer.rows) /\ q.id \in Campaigns
    BY <1>1, <1>2, <1>6, Zenon DEF PanelCall
  <2>. QED
    BY <1>1, <1>3, <1>6, <2>1, Zenon DEF PanelsInv, Panels!QrIsShown
<1>. QED
  BY <1>4, <1>5, <1>6, Zenon DEF Panels!Arrives, Panels!panels

LEMMA PanelsKept == PanelsInv /\ (Panels!Next \/ UNCHANGED panelsVars) => PanelsInv'
<1>. SUFFICES ASSUME PanelsInv, Panels!Next \/ UNCHANGED panelsVars PROVE PanelsInv'
  OBVIOUS
<1>1. CASE UNCHANGED panelsVars
  BY <1>1, Zenon DEF panelsVars, PanelsInv, Panels!QrIsShown
<1>2. CASE Panels!Restart
  BY <1>2, Zenon DEF Panels!Restart, Panels!panels, PanelsInv, Panels!QrIsShown
<1>. QED
  BY <1>1, <1>2, ScanKeeps, PanelsChange, PanelsServe, PanelsArrive, PanelsFail, Zenon DEF Panels!Next

LEMMA PanelsTell == PanelsInv => Panels!QrIsShown /\ Panels!ListIsWhole
<1>. SUFFICES ASSUME PanelsInv PROVE Panels!QrIsShown /\ Panels!ListIsWhole
  OBVIOUS
<1>1. Panels!QrIsShown /\ scans \in Seq(Campaigns)
  BY Zenon DEF PanelsInv
<1>2. PICK id \in Campaigns : UpTo(scans, id, pages) /\ (~ panelsCrossed => id = c)
  BY Zenon DEF PanelsInv
<1>3. PICK newest \in 0..Len(scans) : pages = {k \in 1..Len(scans) : scans[k] = id /\ k <= newest}
  BY <1>2, Zenon DEF UpTo
<1>4. DOMAIN scans = 1..Len(scans)
  BY <1>1, LenProperties
<1>5. pages = {k \in Panels!Rows(id) : k <= newest}
  BY <1>3, <1>4 DEF Panels!Rows
<1>. QED
  BY <1>1, <1>2, <1>3, <1>5, Zenon DEF Panels!ListIsWhole


-----------------------------------------------------------------------------
\* The page of a campaign: what is on screen.

\* The fields of a load, of a submission, and of the record of a submission.
LoadFields(q) == q = [n |-> q.n, kind |-> q.kind, id |-> q.id, env |-> q.env, mount |-> q.mount, answer |-> q.answer]

SubmitFields(q) ==
    q = [n |-> q.n, kind |-> q.kind, id |-> q.id, env |-> q.env, mount |-> q.mount, answer |-> q.answer,
         from |-> q.from, inst |-> q.inst, qty |-> q.qty, ref |-> q.ref, left |-> q.left]

WriteFields(w) ==
    w = [n |-> w.n, kind |-> w.kind, id |-> w.id, seen |-> w.seen, inst |-> w.inst, ref |-> w.ref,
         late |-> w.late, told |-> w.told, after |-> w.after]

DetailFields(q) ==
    \/ q.kind = "load" /\ LoadFields(q)
    \/ q.kind \in {"archive", "issue", "events"} /\ SubmitFields(q)

\* A load is answered from the environment it names, with the campaign it names.
LoadIsTrue(q, hm) ==
    q.kind = "load" =>
        /\ q.answer.at # "issuing"
        /\ q.answer.at = "ok" => hm[q.id] = q.env /\ q.answer.id = q.id

\* A load of mount m is for the campaign r and the environment e of the page.
LoadIsForHere(q, e, r, m) == q.kind = "load" /\ q.mount = m /\ r # Detail!List => q.id = r /\ q.env = e

ScreenInv ==
    /\ \A q \in detailCalls : DetailFields(q) /\ LoadIsTrue(q, home)
    /\ \A w \in detailWrites : WriteFields(w)
    /\ route = Detail!List => detailShown = Detail!NotLoaded
    /\ ~ overtaken => \A q \in detailCalls : LoadIsForHere(q, detailEnv, route, detailMount)
    /\ Detail!ShownIsRoute

LEMMA DetailAnswered ==
    ASSUME NEW q, DetailFields(q), NEW a
    PROVE  LET r == [q EXCEPT !.answer = a]
           IN  /\ DetailFields(r) /\ r.kind = q.kind /\ r.id = q.id /\ r.env = q.env /\ r.mount = q.mount
               /\ r.n = q.n /\ r.answer = a
               /\ q.kind # "load" => r.ref = q.ref /\ r.qty = q.qty /\ r.left = q.left /\ r.from = q.from
<1>1. CASE q.kind = "load" /\ LoadFields(q)
  BY <1>1, SMTT(30) DEF DetailFields, LoadFields
<1>2. CASE q.kind \in {"archive", "issue", "events"} /\ SubmitFields(q)
  BY <1>2, SMTT(30) DEF DetailFields, SubmitFields
<1>. QED
  BY <1>1, <1>2, Zenon DEF DetailFields

LEMMA DetailLeft ==
    ASSUME NEW q, DetailFields(q), q.kind # "load"
    PROVE  LET r == [q EXCEPT !.left = @ - 1]
           IN  /\ DetailFields(r) /\ r.kind = q.kind /\ r.id = q.id /\ r.env = q.env /\ r.mount = q.mount
               /\ r.n = q.n /\ r.answer = q.answer
               /\ r.ref = q.ref /\ r.qty = q.qty /\ r.left = q.left - 1 /\ r.from = q.from
BY SMTT(30) DEF DetailFields, SubmitFields

LEMMA WriteTold ==
    ASSUME NEW w, WriteFields(w), NEW a
    PROVE  LET v == [w EXCEPT !.told = a]
           IN  /\ WriteFields(v) /\ v.n = w.n /\ v.kind = w.kind /\ v.id = w.id /\ v.seen = w.seen /\ v.ref = w.ref
               /\ v.late = w.late /\ v.after = w.after /\ v.told = a
BY SMTT(30) DEF WriteFields

LEMMA LoadMade ==
    ASSUME NEW id, NEW e, NEW m
    PROVE  LET q == Detail!Load(id, e, m)
           IN  /\ DetailFields(q) /\ q.kind = "load" /\ q.id = id /\ q.env = e /\ q.mount = m
               /\ LoadIsTrue(q, home)
<1>1. LET q == Detail!Load(id, e, m)
      IN  LoadFields(q) /\ q.kind = "load" /\ q.id = id /\ q.env = e /\ q.mount = m /\ q.answer.at = "sent"
  BY SMT DEF Detail!Load, LoadFields, Detail!Sent
<1>2. "sent" # "ok" /\ "sent" # "issuing"
  BY SMT
<1>. QED
  BY <1>1, <1>2, Zenon DEF DetailFields, LoadIsTrue

LEMMA ScreenBegin == Detail!Init => ScreenInv
BY Zenon DEF Detail!Init, ScreenInv, Detail!ShownIsRoute

\* A load of the place where the page is now, when no other is under way.
LEMMA ScreenAsks ==
    ASSUME ScreenInv, NEW r, NEW e, NEW m, detailCalls' = detailCalls \cup {Detail!Load(r, e, m)},
           route' = r, detailEnv' = e,
           overtaken' = (overtaken \/ \E d \in detailCalls : d.kind = "load" /\ Detail!Load(r, e, m).kind = "load"),
           detailShown' = Detail!NotLoaded,
           UNCHANGED <<home, detailWrites>>
    PROVE  ScreenInv'
<1>. DEFINE q == Detail!Load(r, e, m)
<1>1. DetailFields(q) /\ q.kind = "load" /\ q.id = r /\ q.env = e /\ LoadIsTrue(q, home)
  BY LoadMade, SMT
<1>. HIDE DEF q
<1>2. ASSUME ~ overtaken' PROVE ~ overtaken /\ \A d \in detailCalls : d.kind # "load"
  BY <1>1, <1>2, Zenon DEF q
<1>3. detailCalls' = detailCalls \cup {q}
  BY Zenon DEF q
<1>4. ASSUME NEW d \in detailCalls' PROVE DetailFields(d) /\ LoadIsTrue(d, home')
  BY <1>1, <1>3, <1>4, Zenon DEF ScreenInv
<1>5. ASSUME ~ overtaken', NEW d \in detailCalls' PROVE LoadIsForHere(d, detailEnv', route', detailMount')
  BY <1>1, <1>2, <1>3, <1>5, Zenon DEF LoadIsForHere
<1>6. Detail!ShownIsRoute'
  BY Zenon DEF ScreenInv, Detail!ShownIsRoute
<1>. QED
  BY <1>4, <1>5, <1>6, Zenon DEF ScreenInv

LEMMA ScreenGoes ==
    ASSUME ScreenInv, NEW r, Detail!Goto(r)
    PROVE  ScreenInv'
<1>1. UNCHANGED <<home, detailEnv, detailWrites>>
  BY Zenon DEF Detail!Goto, Detail!api
<1>2. CASE Detail!Leave /\ UNCHANGED <<detailCalls, overtaken>>
  <2>1. route' = Detail!List /\ detailShown' = Detail!NotLoaded /\ detailCalls' = detailCalls /\ overtaken' = overtaken
    BY <1>2, Zenon DEF Detail!Leave
  <2>2. Detail!ShownIsRoute'
    BY <1>1, <2>1, Zenon DEF ScreenInv, Detail!ShownIsRoute
  <2>. QED
    BY <1>1, <2>1, <2>2, Zenon DEF ScreenInv, LoadIsForHere
<1>3. CASE route' = r /\ Detail!Remount(Detail!Cleared, open) /\ Detail!Sends(Detail!Load(r, detailEnv, detailMount'))
  <2>1. PICK m : m = detailMount'
    OBVIOUS
  <2>2. /\ detailCalls' = detailCalls \cup {Detail!Load(r, detailEnv, m)}
        /\ overtaken' = (overtaken \/ \E d \in detailCalls : d.kind = "load" /\ Detail!Load(r, detailEnv, m).kind = "load")
        /\ detailShown' = Detail!NotLoaded
    BY <1>3, <2>1, Zenon DEF Detail!Sends, Detail!Remount, Detail!Cleared
  <2>. QED
    BY <1>1, <1>3, <2>2, ScreenAsks, Zenon
<1>. QED
  BY <1>2, <1>3, Zenon DEF Detail!Goto

LEMMA ScreenSwitches ==
    ASSUME ScreenInv, NEW e, Detail!SetEnv(e)
    PROVE  ScreenInv'
<1>1. UNCHANGED <<home, route, detailMount, detailWrites>> /\ detailEnv' = e
  BY Zenon DEF Detail!SetEnv, Detail!api
<1>2. CASE route = Detail!List /\ UNCHANGED <<detailCalls, overtaken, detailShown>>
  BY <1>1, <1>2, Zenon DEF ScreenInv, LoadIsForHere, Detail!ShownIsRoute
<1>3. CASE Detail!Remount(Detail!Cleared, open) /\ Detail!Sends(Detail!Load(route, e, detailMount))
  <2>1. /\ detailCalls' = detailCalls \cup {Detail!Load(route, e, detailMount)}
        /\ overtaken' = (overtaken \/ \E d \in detailCalls : d.kind = "load" /\ Detail!Load(route, e, detailMount).kind = "load")
        /\ detailShown' = Detail!NotLoaded
    BY <1>3, Zenon DEF Detail!Sends, Detail!Remount, Detail!Cleared
  <2>. QED
    BY <1>1, <2>1, ScreenAsks, Zenon
<1>. QED
  BY <1>2, <1>3, Zenon DEF Detail!SetEnv

\* What the invariant speaks of does not change.
LEMMA ScreenSame ==
    ASSUME ScreenInv, UNCHANGED <<home, route, detailEnv, detailMount, detailShown, detailCalls, detailWrites, overtaken>>
    PROVE  ScreenInv'
BY Zenon DEF ScreenInv, Detail!ShownIsRoute, DetailFields, LoadFields, SubmitFields, WriteFields, LoadIsTrue, LoadIsForHere

\* A submission names the campaign on screen, as long as loads were not overtaken.
LEMMA ScreenWrites ==
    ASSUME ScreenInv, NEW sort \in {"archive", "issue", "events"}, NEW id, NEW qty, NEW ref,
           Detail!Write(sort, id, qty, ref), detailShown # Detail!NotLoaded,
           id = route \/ id = detailShown.id
    PROVE  ScreenInv'
<1>. DEFINE Q(x) == [n |-> x, kind |-> sort, id |-> id, env |-> detailEnv, mount |-> detailMount, answer |-> Detail!Sent,
                     from |-> route, inst |-> detailInst, qty |-> qty, ref |-> ref, left |-> qty]
            W(x, y) == [n |-> x, kind |-> sort, id |-> id, seen |-> detailShown.id, inst |-> detailInst, ref |-> ref,
                        late |-> overtaken, told |-> Detail!Sent, after |-> y]
<1>1. PICK p : /\ p = Q(Detail!Cardinality(detailWrites) + 1) /\ Detail!Sends(p)
               /\ \E x, y : detailWrites' = detailWrites \cup {W(x, y)}
  BY Zenon DEF Detail!Write
<1>2. PICK x, y : detailWrites' = detailWrites \cup {W(x, y)}
  BY <1>1, Zenon
<1>3. UNCHANGED <<home, detailEnv, route, detailMount, detailShown>>
  BY Zenon DEF Detail!Write
<1>4. DetailFields(p) /\ p.kind = sort
  <2>1. SubmitFields(p) /\ p.kind = sort
    BY <1>1, SMT DEF SubmitFields
  <2>. QED
    BY <2>1, Zenon DEF DetailFields
<1>5. sort # "load"
  BY SMT
<1>6. PICK v : v = W(x, y)
  OBVIOUS
<1>7. WriteFields(v) /\ v.id = id /\ v.seen = detailShown.id /\ v.late = overtaken
  BY <1>6, SMT DEF WriteFields
<1>8. detailCalls' = detailCalls \cup {p} /\ (overtaken' => overtaken) /\ (overtaken => overtaken')
  BY <1>1, <1>4, <1>5, Zenon DEF Detail!Sends
<1>9. detailWrites' = detailWrites \cup {v}
  BY <1>2, <1>6, Zenon
<1>10. ~ v.late => v.id = v.seen
  BY <1>7, Zenon DEF ScreenInv, Detail!ShownIsRoute
<1>11. ASSUME NEW q \in detailCalls'
       PROVE  /\ DetailFields(q) /\ LoadIsTrue(q, home')
              /\ ~ overtaken' => LoadIsForHere(q, detailEnv', route', detailMount')
  <2>1. CASE q = p
    BY <1>4, <1>5, <2>1, Zenon DEF LoadIsTrue, LoadIsForHere
  <2>2. CASE q \in detailCalls
    BY <1>3, <1>8, <2>2, Zenon DEF ScreenInv, LoadIsTrue, LoadIsForHere
  <2>. QED
    BY <1>8, <1>11, <2>1, <2>2, Zenon
<1>12. ASSUME NEW w \in detailWrites' PROVE WriteFields(w) /\ (w.late \/ w.id = w.seen)
  BY <1>7, <1>9, <1>10, <1>12, Zenon DEF ScreenInv, Detail!ShownIsRoute
<1>13. ~ overtaken' /\ detailShown' # Detail!NotLoaded => detailShown'.id = route' /\ home'[detailShown'.id] = detailEnv'
  BY <1>3, <1>8, Zenon DEF ScreenInv, Detail!ShownIsRoute
<1>14. Detail!ShownIsRoute'
  BY <1>12, <1>13, Zenon DEF Detail!ShownIsRoute
<1>. QED
  BY <1>3, <1>11, <1>12, <1>14, Zenon DEF ScreenInv

LEMMA ScreenClicks ==
    ASSUME ScreenInv,
           \/ Detail!Open("issue") \/ Detail!Open("events") \/ Detail!Close \/ Detail!Archive
           \/ \E x \in 1..2 : Detail!Issue(x)
           \/ \E ref \in {Detail!NoRef, "r1"} : Detail!Record(ref)
    PROVE  ScreenInv'
<1>1. ASSUME NEW k, Detail!Open(k) PROVE ScreenInv'
  <2>1. UNCHANGED <<home, route, detailEnv, detailMount, detailShown, detailCalls, detailWrites, overtaken>>
    BY <1>1, Zenon DEF Detail!Open, Detail!Remount, Detail!api
  <2>. QED
    BY <2>1, ScreenSame, Zenon
<1>2. CASE Detail!Close
  <2>1. UNCHANGED <<home, route, detailEnv, detailMount, detailShown, detailCalls, detailWrites, overtaken>>
    BY <1>2, Zenon DEF Detail!Close, Detail!Remount, Detail!api
  <2>. QED
    BY <2>1, ScreenSame, Zenon
<1>3. CASE Detail!Archive
  BY <1>3, ScreenWrites, Zenon DEF Detail!Archive
<1>4. ASSUME NEW x, Detail!Issue(x) PROVE ScreenInv'
  BY <1>4, ScreenWrites, Zenon DEF Detail!Issue
<1>5. ASSUME NEW ref, Detail!Record(ref) PROVE ScreenInv'
  BY <1>5, ScreenWrites, Zenon DEF Detail!Record
<1>. QED
  BY <1>1, <1>2, <1>3, <1>4, <1>5, Zenon

\* The API's step for request q, which becomes r; or request q that ends.
LEMMA ScreenServed ==
    ASSUME ScreenInv, NEW q \in detailCalls, NEW r, detailCalls' = (detailCalls \ {q}) \cup {r},
           DetailFields(r), LoadIsTrue(r, home), r.kind = q.kind, r.id = q.id, r.env = q.env, r.mount = q.mount,
           UNCHANGED <<home, route, detailEnv, detailMount, detailShown, detailWrites, overtaken>>
    PROVE  ScreenInv'
<1>1. ASSUME NEW d \in detailCalls' PROVE DetailFields(d) /\ LoadIsTrue(d, home')
  BY <1>1, Zenon DEF ScreenInv
<1>2. ASSUME ~ overtaken', NEW d \in detailCalls' PROVE LoadIsForHere(d, detailEnv', route', detailMount')
  <2>1. LoadIsForHere(q, detailEnv, route, detailMount)
    BY <1>2, Zenon DEF ScreenInv
  <2>2. d = r \/ d \in detailCalls
    BY <1>2, Zenon
  <2>. QED
    BY <1>2, <2>1, <2>2, Zenon DEF ScreenInv, LoadIsForHere
<1>. QED
  BY <1>1, <1>2, Zenon DEF ScreenInv, Detail!ShownIsRoute

LEMMA ScreenServe ==
    ASSUME ScreenInv, NEW q \in detailCalls, Detail!Serve(q)
    PROVE  ScreenInv'
<1>1. UNCHANGED <<home, route, detailEnv, detailMount, detailShown, detailWrites, overtaken>>
  BY Zenon DEF Detail!Serve, Detail!page
<1>2. DetailFields(q)
  BY Zenon DEF ScreenInv
<1>3. "load" \notin {"archive", "issue", "events"} /\ "error" # "ok" /\ "error" # "issuing" /\ "ok" # "issuing"
  BY SMT
<1>4. ASSUME NEW a, Detail!Answered(q, a), q.kind = "load" /\ a.at = "ok" => home[q.id] = q.env /\ a.id = q.id,
             q.kind = "load" => a.at # "issuing"
      PROVE  ScreenInv'
  <2>. DEFINE r == [q EXCEPT !.answer = a]
  <2>1. DetailFields(r) /\ r.kind = q.kind /\ r.id = q.id /\ r.env = q.env /\ r.mount = q.mount /\ r.answer = a
    BY <1>2, DetailAnswered, Zenon
  <2>2. detailCalls' = (detailCalls \ {q}) \cup {r}
    BY <1>4, Zenon DEF Detail!Answered
  <2>. HIDE DEF r
  <2>3. LoadIsTrue(r, home)
    BY <1>4, <2>1, Zenon DEF LoadIsTrue
  <2>. QED
    BY <1>1, <2>1, <2>2, <2>3, ScreenServed, Zenon
<1>5. CASE Detail!ServeLoad(q)
  <2>. DEFINE a == [at |-> "ok", id |-> q.id, minted |-> minted[q.id], archived |-> detailArchived[q.id]]
  <2>1. a.id = q.id /\ a.at = "ok"
    OBVIOUS
  <2>2. Detail!NotFound.at = "error"
    BY DEF Detail!NotFound
  <2>3. Detail!Answered(q, IF Detail!Found(q) THEN a ELSE Detail!NotFound)
    BY <1>5, Zenon DEF Detail!ServeLoad
  <2>. HIDE DEF a
  <2>4. CASE Detail!Found(q)
    <3>1. Detail!Answered(q, a) /\ home[q.id] = q.env
      BY <2>3, <2>4, Zenon DEF Detail!Found
    <3>. QED
      BY <1>3, <1>4, <2>1, <3>1, Zenon
  <2>5. CASE ~ Detail!Found(q)
    <3>1. Detail!Answered(q, Detail!NotFound)
      BY <2>3, <2>5, Zenon
    <3>. QED
      BY <1>3, <1>4, <2>2, <3>1, Zenon
  <2>. QED
    BY <2>4, <2>5, Zenon
<1>6. ASSUME q.kind # "load", \E a : Detail!Answered(q, a) PROVE ScreenInv'
  BY <1>4, <1>6, Zenon
<1>7. CASE Detail!ServeArchive(q)
  BY <1>3, <1>6, <1>7, Zenon DEF Detail!ServeArchive
<1>8. CASE Detail!ServeEvents(q)
  BY <1>3, <1>6, <1>8, Zenon DEF Detail!ServeEvents
<1>9. CASE Detail!StartIssue(q)
  BY <1>3, <1>6, <1>9, Zenon DEF Detail!StartIssue
<1>10. q.answer.at = "issuing" => q.kind # "load"
  BY Zenon DEF ScreenInv, LoadIsTrue
<1>11. CASE Detail!IssueChunk(q)
  <2>. DEFINE r == [q EXCEPT !.left = @ - 1]
  <2>1. q.kind # "load" /\ detailCalls' = (detailCalls \ {q}) \cup {r}
    BY <1>10, <1>11, Zenon DEF Detail!IssueChunk
  <2>2. DetailFields(r) /\ r.kind = q.kind /\ r.id = q.id /\ r.env = q.env /\ r.mount = q.mount
    BY <1>2, <2>1, DetailLeft, Zenon
  <2>. HIDE DEF r
  <2>3. LoadIsTrue(r, home)
    BY <2>1, <2>2, Zenon DEF LoadIsTrue
  <2>. QED
    BY <1>1, <2>1, <2>2, <2>3, ScreenServed, Zenon
<1>12. CASE Detail!ChunkFails(q)
  BY <1>6, <1>10, <1>12, Zenon DEF Detail!ChunkFails
<1>13. CASE Detail!FinishIssue(q)
  BY <1>6, <1>10, <1>13, Zenon DEF Detail!FinishIssue
<1>. QED
  BY <1>5, <1>7, <1>8, <1>9, <1>11, <1>12, <1>13, Zenon DEF Detail!Serve

\* Request q ends and the page stays where it is, or leaves.
LEMMA ScreenEnds ==
    ASSUME ScreenInv, NEW q \in detailCalls, detailCalls' = detailCalls \ {q},
           \/ detailShown' = detailShown /\ route' = route
           \/ detailShown' = Detail!NotLoaded /\ route' = Detail!List,
           route' = route => detailMount' = detailMount,
           UNCHANGED <<home, detailEnv, detailWrites, overtaken>>
    PROVE  ScreenInv'
<1>1. ASSUME NEW d \in detailCalls' PROVE DetailFields(d) /\ LoadIsTrue(d, home')
  BY <1>1, Zenon DEF ScreenInv
<1>2. ASSUME ~ overtaken', NEW d \in detailCalls' PROVE LoadIsForHere(d, detailEnv', route', detailMount')
  <2>1. LoadIsForHere(d, detailEnv, route, detailMount)
    BY <1>2, Zenon DEF ScreenInv
  <2>. QED
    BY <2>1, Zenon DEF LoadIsForHere
<1>. QED
  BY <1>1, <1>2, Zenon DEF ScreenInv, Detail!ShownIsRoute

LEMMA ScreenLoaded ==
    ASSUME ScreenInv, NEW q \in detailCalls, Detail!Loaded(q), UNCHANGED home
    PROVE  ScreenInv'
<1>1. /\ q.kind = "load" /\ q.answer.at = "ok" /\ detailCalls' = detailCalls \ {q}
      /\ UNCHANGED <<detailEnv, route, detailMount, detailWrites, overtaken>>
  BY Zenon DEF Detail!Loaded
<1>2. CASE detailShown' = detailShown
  BY <1>1, <1>2, ScreenEnds, Zenon
<1>3. CASE q.mount = detailMount /\ route # Detail!List /\ Detail!Remount(q.answer, open)
  <2>1. detailShown' = q.answer
    BY <1>3, Zenon DEF Detail!Remount
  <2>2. home[q.id] = q.env /\ q.answer.id = q.id
    BY <1>1, Zenon DEF ScreenInv, LoadIsTrue
  <2>3. ~ overtaken => q.id = route /\ q.env = detailEnv
    BY <1>1, <1>3, Zenon DEF ScreenInv, LoadIsForHere
  <2>4. ~ overtaken' /\ detailShown' # Detail!NotLoaded => detailShown'.id = route' /\ home'[detailShown'.id] = detailEnv'
    BY <1>1, <2>1, <2>2, <2>3, Zenon
  <2>5. Detail!ShownIsRoute'
    BY <1>1, <2>4, Zenon DEF ScreenInv, Detail!ShownIsRoute
  <2>. QED
    BY <1>1, <1>3, <2>5, Zenon DEF ScreenInv
<1>. QED
  BY <1>2, <1>3, Zenon DEF Detail!Loaded

LEMMA ScreenWriteReturns ==
    ASSUME ScreenInv, NEW q \in detailCalls, Detail!WriteReturns(q), UNCHANGED home
    PROVE  ScreenInv'
<1>. DEFINE p == Detail!Load(q.from, detailEnv, q.mount)
<1>1. /\ q.kind # "load" /\ Detail!Tells(q) /\ detailCalls' = (detailCalls \ {q}) \cup {p}
      /\ overtaken' = (overtaken \/ q.from # route \/ \E d \in detailCalls : d.kind = "load")
      /\ UNCHANGED <<detailEnv, route, detailMount, detailShown>>
  BY Zenon DEF Detail!WriteReturns, Detail!Remount
<1>2. DetailFields(p) /\ p.kind = "load" /\ p.id = q.from /\ p.env = detailEnv /\ LoadIsTrue(p, home)
  BY LoadMade, SMT
<1>. HIDE DEF p
<1>3. ASSUME ~ overtaken' PROVE ~ overtaken /\ q.from = route /\ \A d \in detailCalls : d.kind # "load"
  BY <1>1, <1>3, Zenon
<1>4. ASSUME NEW d \in detailCalls' PROVE DetailFields(d) /\ LoadIsTrue(d, home')
  BY <1>1, <1>2, <1>4, Zenon DEF ScreenInv
<1>5. ASSUME ~ overtaken', NEW d \in detailCalls' PROVE LoadIsForHere(d, detailEnv', route', detailMount')
  BY <1>1, <1>2, <1>3, <1>5, Zenon DEF LoadIsForHere
<1>6. ASSUME NEW v \in detailWrites' PROVE WriteFields(v) /\ (v.late \/ v.id = v.seen)
  <2>1. PICK w \in detailWrites : v = IF w.n = q.n THEN [w EXCEPT !.told = Detail!Told(q)] ELSE w
    BY <1>1, <1>6, Zenon DEF Detail!Tells
  <2>2. WriteFields(w) /\ (w.late \/ w.id = w.seen)
    BY Zenon DEF ScreenInv, Detail!ShownIsRoute
  <2>3. CASE w.n = q.n
    <3>. DEFINE x == [w EXCEPT !.told = Detail!Told(q)]
    <3>1. WriteFields(x) /\ x.id = w.id /\ x.seen = w.seen /\ x.late = w.late
      BY <2>2, WriteTold, Zenon
    <3>2. v = x
      BY <2>1, <2>3, Zenon
    <3>. HIDE DEF x
    <3>. QED
      BY <2>2, <3>1, <3>2, Zenon
  <2>4. CASE w.n # q.n
    BY <2>1, <2>2, <2>4, Zenon
  <2>. QED
    BY <2>3, <2>4, Zenon
<1>7. ~ overtaken' /\ detailShown' # Detail!NotLoaded => detailShown'.id = route' /\ home'[detailShown'.id] = detailEnv'
  BY <1>1, <1>3, Zenon DEF ScreenInv, Detail!ShownIsRoute
<1>8. Detail!ShownIsRoute'
  BY <1>6, <1>7, Zenon DEF Detail!ShownIsRoute
<1>. QED
  BY <1>1, <1>4, <1>5, <1>6, <1>8, Zenon DEF ScreenInv

LEMMA ScreenFails ==
    ASSUME ScreenInv, NEW q \in detailCalls, Detail!LoadFails(q) \/ Detail!WriteFails(q), UNCHANGED home
    PROVE  ScreenInv'
<1>1. /\ detailCalls' = detailCalls \ {q} /\ UNCHANGED <<detailEnv, detailWrites, overtaken>>
      /\ \/ UNCHANGED <<route, detailMount, detailShown>>
         \/ route # Detail!List /\ detailShown' = Detail!NotLoaded /\ route' = Detail!List
  BY Zenon DEF Detail!LoadFails, Detail!WriteFails, Detail!Leave
<1>. QED
  BY <1>1, ScreenEnds, Zenon

LEMMA ScreenKept == ScreenInv /\ (Detail!Next \/ UNCHANGED detailVars) => ScreenInv'
<1>. SUFFICES ASSUME ScreenInv, Detail!Next \/ UNCHANGED detailVars PROVE ScreenInv'
  OBVIOUS
<1>1. CASE UNCHANGED detailVars
  BY <1>1, ScreenSame, Zenon DEF detailVars
<1>2. ASSUME NEW q \in detailCalls, Detail!Return(q) PROVE ScreenInv'
  BY <1>2, ScreenLoaded, ScreenWriteReturns, ScreenFails, Zenon DEF Detail!Return, Detail!api
<1>3. ASSUME NEW q \in detailCalls, Detail!Lose(q) PROVE ScreenInv'
  BY <1>3, ScreenFails, Zenon DEF Detail!Lose, Detail!api
<1>. QED
  BY <1>1, <1>2, <1>3, ScreenGoes, ScreenSwitches, ScreenClicks, ScreenServe, Zenon DEF Detail!Next

-----------------------------------------------------------------------------
\* The wizard: a code has the terms of the last step.

ListFields(q) == q = [n |-> q.n, kind |-> q.kind, env |-> q.env, mount |-> q.mount, answer |-> q.answer]

BodyFields(q) ==
    q = [n |-> q.n, kind |-> q.kind, env |-> q.env, mount |-> q.mount, inst |-> q.inst, answer |-> q.answer,
         reviewed |-> q.reviewed, code |-> q.code, to |-> q.to, pays |-> q.pays, supply |-> q.supply]

\* Who is paid, and whether, by a code of this kind (RegisterShared).
PaysWhom(k, a) == IF k \in {"creator", "gift"} THEN a ELSE "none"
IsPaid(k, a, p) == k \in {"creator", "gift"} /\ a # "none" /\ p

\* A list is asked for; or a body says what the last step showed, if the handler
\* takes it, and it is half-way only if the handler took it.
WizardCall(q) ==
    \/ q.kind = "list" /\ ListFields(q) /\ q.answer.at # "half"
    \/ /\ q.kind # "list" /\ BodyFields(q)
       /\ q.reviewed.to = PaysWhom(q.kind, q.to)
       /\ Wizard!Legal(q) => q.reviewed.pays = IsPaid(q.kind, q.to, q.pays)
       /\ q.answer.at = "half" => Wizard!Legal(q)

WizardInv == Wizard!TermsAsReviewed /\ kind \in Wizard!AllKinds /\ \A q \in wizardCalls : WizardCall(q)

LEMMA WizardAnswered ==
    ASSUME NEW q, WizardCall(q), NEW a, q.kind = "list" => a.at # "half",
           a.at = "half" => Wizard!Legal(q)
    PROVE  WizardCall([q EXCEPT !.answer = a])
<1>. DEFINE r == [q EXCEPT !.answer = a]
<1>1. CASE q.kind = "list" /\ ListFields(q)
  <2>1. ListFields(r) /\ r.kind = "list" /\ r.answer = a
    BY <1>1, SMTT(30) DEF ListFields
  <2>. HIDE DEF r
  <2>2. WizardCall(r)
    BY <1>1, <2>1, Zenon DEF WizardCall
  <2>. QED
    BY <2>2, Zenon DEF r
<1>2. CASE q.kind # "list" /\ BodyFields(q)
  <2>1. /\ BodyFields(r) /\ r.kind = q.kind /\ r.answer = a /\ r.code = q.code /\ r.to = q.to
        /\ r.supply = q.supply /\ r.reviewed = q.reviewed
    BY <1>2, SMTT(30) DEF BodyFields
  <2>2. r.pays = q.pays
    <3>1. q = [n |-> q.n, kind |-> q.kind, env |-> q.env, mount |-> q.mount, inst |-> q.inst, answer |-> q.answer,
                 reviewed |-> q.reviewed, code |-> q.code, to |-> q.to, pays |-> q.pays, supply |-> q.supply]
      BY <1>2, Zenon DEF BodyFields
    <3>. QED
      BY <3>1, SMTT(30)
  <2>. HIDE DEF r
  <2>3. Wizard!Legal(r) <=> Wizard!Legal(q)
    BY <2>1, <2>2, Zenon DEF Wizard!Legal
  <2>4. WizardCall(r)
    BY <1>2, <2>1, <2>2, <2>3, Zenon DEF WizardCall
  <2>. QED
    BY <2>4, Zenon DEF r
<1>. QED
  BY <1>1, <1>2, Zenon DEF WizardCall

LEMMA ListAsked == \A e, m : WizardCall(Wizard!Load(e, m))
<1>. TAKE e, m
<1>1. LET q == Wizard!Load(e, m) IN ListFields(q) /\ q.kind = "list" /\ q.answer.at # "half"
  BY SMT DEF Wizard!Load, ListFields, Wizard!Sent
<1>. QED
  BY <1>1, Zenon DEF WizardCall

LEMMA WizardBegin == Wizard!Init => WizardInv
<1>1. "creator" \in Wizard!AllKinds
  BY DEF Wizard!AllKinds
<1>. QED
  BY <1>1, ListAsked, Zenon DEF Wizard!Init, WizardInv, Wizard!TermsAsReviewed

\* "Create campaign" posts what the last step shows.
LEMMA BodyMade == kind \in Wizard!AllKinds => WizardCall(Wizard!Body)
<1>. SUFFICES ASSUME kind \in Wizard!AllKinds PROVE WizardCall(Wizard!Body)
  OBVIOUS
<1>. DEFINE q == Wizard!Body
            v == Wizard!Review
<1>1. /\ BodyFields(q) /\ q.kind = kind /\ q.answer = Wizard!Sent /\ q.reviewed = v
      /\ q.to = IF Wizard!Attributes THEN f.addr ELSE "none"
  BY SMT DEF Wizard!Body, BodyFields
<1>2. q.pays = (Wizard!Attributes /\ f.rate = "given")
  BY SMT DEF Wizard!Body
<1>3. v.to = IF kind = "creator" \/ kind = "gift" THEN f.addr ELSE "none"
  BY SMT DEF Wizard!Review
<1>4. v.pays = IF kind = "creator" \/ (kind = "gift" /\ f.addr # "none") THEN f.rate = "given" ELSE FALSE
  BY SMT DEF Wizard!Review
<1>5. "sent" # "half" /\ "gift" # "creator" /\ "odd" # "none" /\ "given" # "none" /\ Wizard!Sent.at = "sent"
  BY SMT DEF Wizard!Sent
<1>. HIDE DEF q, v
<1>6. q.reviewed.to = PaysWhom(q.kind, q.to)
  BY <1>1, <1>3, Zenon DEF PaysWhom, Wizard!Attributes
<1>7. ASSUME Wizard!Legal(q) PROVE q.reviewed.pays = IsPaid(q.kind, q.to, q.pays)
  <2>1. kind = "creator" => q.to = "given"
    BY <1>1, <1>7, Zenon DEF Wizard!Legal
  <2>2. kind = "gift" => q.to = f.addr \/ (q.to = "none" /\ f.addr = "none")
    BY <1>1, <1>5, Zenon DEF Wizard!Attributes
  <2>3. CASE kind = "creator" /\ f.rate = "given"
    <3>1. q.pays = TRUE /\ v.pays = TRUE
      BY <1>2, <1>4, <2>3, Zenon DEF Wizard!Attributes
    <3>. QED
      BY <1>1, <1>5, <2>1, <2>3, <3>1, Zenon DEF IsPaid
  <2>4. CASE f.rate # "given" \/ ~ (kind = "creator" \/ (kind = "gift" /\ f.addr # "none"))
    <3>1. q.pays = FALSE /\ v.pays = FALSE
      BY <1>2, <1>4, <2>4, Zenon DEF Wizard!Attributes
    <3>. QED
      BY <1>1, <3>1, Zenon DEF IsPaid
  <2>5. CASE kind = "gift" /\ f.addr # "none" /\ f.rate = "given"
    <3>1. q.pays = TRUE /\ v.pays = TRUE
      BY <1>2, <1>4, <2>5, Zenon DEF Wizard!Attributes
    <3>. QED
      BY <1>1, <1>5, <2>2, <2>5, <3>1, Zenon DEF IsPaid
  <2>. QED
    BY <2>3, <2>4, <2>5, Zenon
<1>8. kind # "list"
  BY DEF Wizard!AllKinds
<1>. QED
  BY <1>1, <1>5, <1>6, <1>7, <1>8, Zenon DEF WizardCall, q

LEMMA WizardServe ==
    ASSUME WizardInv, NEW q \in wizardCalls, Wizard!Serve(q)
    PROVE  WizardInv'
<1>1. kind' = kind
  BY Zenon DEF Wizard!Serve, Wizard!form
<1>2. "sent" # "half" /\ "ok" # "half" /\ "error" # "half" /\ Wizard!Sent.at = "sent" /\ Wizard!Refused.at = "error"
  BY SMT DEF Wizard!Sent, Wizard!Refused
<1>3. WizardCall(q)
  BY Zenon DEF WizardInv
<1>4. ASSUME NEW a, Wizard!Answered(q, a), q.kind = "list" => a.at # "half", a.at = "half" => Wizard!Legal(q)
      PROVE  \A d \in wizardCalls' : WizardCall(d)
  <2>1. WizardCall([q EXCEPT !.answer = a])
    BY <1>3, <1>4, WizardAnswered, Zenon
  <2>. QED
    BY <1>4, <2>1, Zenon DEF Wizard!Answered, WizardInv
<1>5. CASE Wizard!ServeList(q)
  <2>1. PICK ids : Wizard!Answered(q, [at |-> "ok", of |-> q.env, ids |-> ids]) /\ camps' = camps
    BY <1>5, Zenon DEF Wizard!ServeList
  <2>2. [at |-> "ok", of |-> q.env, ids |-> ids].at = "ok"
    BY SMT
  <2>3. \A d \in wizardCalls' : WizardCall(d)
    BY <1>2, <1>4, <2>1, <2>2, Zenon
  <2>. QED
    BY <1>1, <2>1, <2>3, Zenon DEF WizardInv, Wizard!TermsAsReviewed
<1>6. CASE Wizard!CreateCampaign(q)
  <2>. DEFINE k == [n |-> q.n, env |-> q.env, kind |-> q.kind, coded |-> FALSE, reviewed |-> q.reviewed,
                    to |-> "none", pays |-> FALSE, supply |-> q.supply, months |-> 12]
              A == IF q.kind \in {"voucher", "ticket"} THEN [at |-> "ok"] ELSE [at |-> "half"]
  <2>1. k.coded = FALSE
    BY SMT
  <2>2. [at |-> "half"].at = "half" /\ [at |-> "ok"].at = "ok"
    BY SMT
  <2>3. \/ Wizard!Legal(q) /\ q.kind # "list" /\ Wizard!Answered(q, A) /\ camps' \in {camps, camps \cup {k}}
        \/ Wizard!Answered(q, Wizard!Refused) /\ camps' = camps
    BY <1>6, Zenon DEF Wizard!CreateCampaign
  <2>. HIDE DEF k
  <2>4. \A x \in camps' : x.coded => x \in camps
    BY <2>1, <2>3, Zenon
  <2>5. Wizard!TermsAsReviewed'
    BY <2>4, Zenon DEF WizardInv, Wizard!TermsAsReviewed
  <2>6. \A d \in wizardCalls' : WizardCall(d)
    <3>1. CASE Wizard!Answered(q, Wizard!Refused)
      BY <1>2, <1>4, <3>1, Zenon
    <3>2. CASE Wizard!Legal(q) /\ q.kind # "list" /\ Wizard!Answered(q, A)
      BY <1>4, <3>2, Zenon
    <3>. QED
      BY <2>3, <3>1, <3>2, Zenon
  <2>. QED
    BY <1>1, <2>5, <2>6, Zenon DEF WizardInv
<1>7. CASE Wizard!RegisterFails(q)
  <2>1. Wizard!Answered(q, Wizard!Refused) /\ camps' = camps
    BY <1>7, Zenon DEF Wizard!RegisterFails
  <2>2. \A d \in wizardCalls' : WizardCall(d)
    BY <1>2, <1>4, <2>1, Zenon
  <2>. QED
    BY <1>1, <2>1, <2>2, Zenon DEF WizardInv, Wizard!TermsAsReviewed
<1>8. CASE Wizard!RegisterShared(q)
  <2>. DEFINE P == q.kind \in {"creator", "gift"} /\ q.to # "none" /\ q.pays
              k(p) == [n |-> q.n, env |-> q.env, kind |-> q.kind, coded |-> TRUE, reviewed |-> q.reviewed,
                       to |-> PaysWhom(q.kind, q.to), pays |-> p,
                       supply |-> q.supply, months |-> IF q.kind = "loyalty" THEN 24 ELSE 12]
  <2>1. camps' = {d \in camps : d.n # q.n} \cup {k(P)} /\ Wizard!Answered(q, [at |-> "ok"]) /\ q.answer.at = "half"
    BY <1>8, Zenon DEF Wizard!RegisterShared, PaysWhom
  <2>2. \A p : k(p).reviewed = q.reviewed /\ k(p).to = PaysWhom(q.kind, q.to) /\ k(p).pays = p
    BY SMT
  <2>3. q.kind # "list" /\ q.reviewed.to = PaysWhom(q.kind, q.to) /\ q.reviewed.pays = P
    BY <1>3, <2>1, Zenon DEF WizardCall, IsPaid
  <2>. HIDE DEF k
  <2>4. k(P).reviewed = q.reviewed /\ k(P).to = q.reviewed.to /\ k(P).pays = q.reviewed.pays
    BY <2>2, <2>3, Zenon
  <2>. HIDE DEF P
  <2>5. Wizard!TermsAsReviewed'
    BY <2>1, <2>4, Zenon DEF WizardInv, Wizard!TermsAsReviewed
  <2>6. [at |-> "ok"].at = "ok"
    BY SMT
  <2>7. \A d \in wizardCalls' : WizardCall(d)
    BY <1>2, <1>4, <2>1, <2>6, Zenon
  <2>. QED
    BY <1>1, <2>5, <2>7, Zenon DEF WizardInv
<1>. QED
  BY <1>5, <1>6, <1>7, <1>8, Zenon DEF Wizard!Serve

\* Lists are asked for and requests end; nothing else concerns the codes.
LEMMA WizardRest ==
    ASSUME WizardInv, camps' = camps, kind' \in Wizard!AllKinds,
           \A q \in wizardCalls' : q \in wizardCalls \/ \E e, m : q = Wizard!Load(e, m)
    PROVE  WizardInv'
<1>1. ASSUME NEW q \in wizardCalls' PROVE WizardCall(q)
  <2>1. CASE q \in wizardCalls
    BY <2>1, Zenon DEF WizardInv
  <2>2. CASE \E e, m : q = Wizard!Load(e, m)
    <3>1. PICK e, m : q = Wizard!Load(e, m)
      BY <2>2, Zenon
    <3>. QED
      BY <3>1, ListAsked, Zenon
  <2>. QED
    BY <1>1, <2>1, <2>2, Zenon
<1>2. Wizard!TermsAsReviewed'
  BY Zenon DEF WizardInv, Wizard!TermsAsReviewed
<1>. QED
  BY <1>1, <1>2, Zenon DEF WizardInv

LEMMA WizardKept == WizardInv /\ (Wizard!Next \/ UNCHANGED wizardVars) => WizardInv'
<1>. SUFFICES ASSUME WizardInv, Wizard!Next \/ UNCHANGED wizardVars PROVE WizardInv'
  OBVIOUS
<1>0. kind \in Wizard!AllKinds
  BY Zenon DEF WizardInv
<1>1. CASE UNCHANGED wizardVars
  BY <1>0, <1>1, WizardRest, Zenon DEF wizardVars
<1>2. ASSUME NEW e, Wizard!SetEnv(e) PROVE WizardInv'
  BY <1>0, <1>2, WizardRest, Zenon DEF Wizard!SetEnv, Wizard!Asks, Wizard!form
<1>3. CASE Wizard!Away
  BY <1>0, <1>3, WizardRest, Zenon DEF Wizard!Away
<1>4. CASE Wizard!Back
  BY <1>0, <1>4, WizardRest, Zenon DEF Wizard!Back, Wizard!Asks, Wizard!form
<1>5. CASE Wizard!OpenWizard
  <2>1. "creator" \in Wizard!AllKinds
    BY DEF Wizard!AllKinds
  <2>. QED
    BY <1>5, <2>1, WizardRest, Zenon DEF Wizard!OpenWizard
<1>6. CASE Wizard!Turn
  BY <1>0, <1>6, WizardRest, Zenon DEF Wizard!Turn
<1>7. CASE Wizard!Create
  <2>1. WizardCall(Wizard!Body)
    BY <1>0, BodyMade, Zenon
  <2>2. (wizardCalls' = wizardCalls \/ wizardCalls' = wizardCalls \cup {Wizard!Body}) /\ camps' = camps /\ kind' = kind
    BY <1>7, Zenon DEF Wizard!Create
  <2>3. \A q \in wizardCalls' : WizardCall(q)
    BY <2>1, <2>2, Zenon DEF WizardInv
  <2>. QED
    BY <2>2, <2>3, Zenon DEF WizardInv, Wizard!TermsAsReviewed
<1>8. CASE Wizard!Close
  BY <1>0, <1>8, WizardRest, Zenon DEF Wizard!Close, Wizard!Asks
<1>9. ASSUME NEW k \in Kinds, Wizard!Choose(k) PROVE WizardInv'
  <2>1. k \in Wizard!AllKinds
    BY ConsoleAssumption, Zenon DEF ConsoleAssumption, Wizard!WizardAssumption
  <2>. QED
    BY <1>9, <2>1, WizardRest, Zenon DEF Wizard!Choose
<1>10. ASSUME NEW x, NEW v, Wizard!Fill(x, v) PROVE WizardInv'
  BY <1>0, <1>10, WizardRest, Zenon DEF Wizard!Fill
<1>11. ASSUME NEW q \in wizardCalls, Wizard!Return(q) PROVE WizardInv'
  <2>1. CASE Wizard!Listed(q)
    BY <1>0, <1>11, <2>1, WizardRest, Zenon DEF Wizard!Listed, Wizard!Return, Wizard!form
  <2>2. CASE Wizard!Created(q)
    BY <1>0, <1>11, <2>2, WizardRest, Zenon DEF Wizard!Created, Wizard!Return, Wizard!Asks
  <2>3. CASE Wizard!Fails(q)
    BY <1>0, <1>11, <2>3, WizardRest, Zenon DEF Wizard!Fails, Wizard!Return
  <2>. QED
    BY <1>11, <2>1, <2>2, <2>3, Zenon DEF Wizard!Return
<1>12. ASSUME NEW q \in wizardCalls, Wizard!Lose(q) PROVE WizardInv'
  BY <1>0, <1>12, WizardRest, Zenon DEF Wizard!Lose, Wizard!Fails
<1>. QED
  BY <1>1, <1>2, <1>3, <1>4, <1>5, <1>6, <1>7, <1>8, <1>9, <1>10, <1>11, <1>12, WizardServe, Zenon DEF Wizard!Next

-----------------------------------------------------------------------------
\* Settlements: what is paid is what was confirmed.

Period == [count : Nat, paid : Nat, settled : BOOLEAN, amount : Nat]

SettleCodes == TestCodes \cup LiveCodes

\* A row of the list says what the period counts, in the tallies T.
RowTrue(T, s) == s.code \in SettleCodes /\ s.period \in DOMAIN T[s.code] /\ s.count = T[s.code][s.period].count

RowsFields(q) == q = [kind |-> q.kind, n |-> q.n, env |-> q.env, answer |-> q.answer]

PostFields(q) ==
    q = [kind |-> q.kind, n |-> q.n, env |-> q.env, row |-> q.row, form |-> q.form, answer |-> q.answer]

\* Rows that were answered are true; what is to be settled was confirmed, in the
\* set C of confirmed rows.
SettlementCall(q, T, C) ==
    \/ /\ q.kind \in {"settlements", "campaigns"} /\ RowsFields(q)
       /\ q.kind = "settlements" /\ q.answer.at = "ok" => \A s \in q.answer.rows : RowTrue(T, s)
    \/ /\ q.kind \in {"commit", "settle"} /\ PostFields(q)
       /\ q.kind = "settle" => q.row \in C /\ RowTrue(T, q.row)

\* Amounts paid are those of confirmed rows.
PaidOf(T, C) ==
    \A k \in SettleCodes : \A p \in DOMAIN T[k] :
        T[k][p].amount > 0 => \E s \in C : s.code = k /\ s.period = p /\ s.count = T[k][p].amount

SettlementsInv ==
    /\ tallies \in [SettleCodes -> Seq(Period)] /\ pending \in [SettleCodes -> Nat]
    /\ settlementsData = Settlements!NotLoaded \/ \A s \in settlementsData.rows : RowTrue(tallies, s)
    /\ confirm = Settlements!None \/ RowTrue(tallies, confirm)
    /\ \A q \in settlementsCalls : SettlementCall(q, tallies, clicked)
    /\ PaidOf(tallies, clicked)

\* Periods are only added, and their counts stay.
Grows(T, U) ==
    \A k \in SettleCodes : \A p \in DOMAIN T[k] : p \in DOMAIN U[k] /\ U[k][p].count = T[k][p].count

LEMMA RowsStayTrue ==
    ASSUME NEW T, NEW U, Grows(T, U), NEW s, RowTrue(T, s)
    PROVE  RowTrue(U, s)
BY Zenon DEF Grows, RowTrue

LEMMA SettlementCallsKept ==
    ASSUME NEW T, NEW U, Grows(T, U), NEW C, NEW D, C \subseteq D, NEW q, SettlementCall(q, T, C)
    PROVE  SettlementCall(q, U, D)
BY RowsStayTrue, Zenon DEF SettlementCall

LEMMA PaidStays ==
    ASSUME NEW T, NEW C, PaidOf(T, C), NEW U, NEW D, C \subseteq D,
           \A k \in SettleCodes : \A p \in DOMAIN U[k] :
              \/ p \in DOMAIN T[k] /\ U[k][p].amount = T[k][p].amount
              \/ U[k][p].amount = 0
              \/ \E s \in D : s.code = k /\ s.period = p /\ s.count = U[k][p].amount
    PROVE  PaidOf(U, D)
<1>. SUFFICES ASSUME NEW k \in SettleCodes, NEW p \in DOMAIN U[k], U[k][p].amount > 0
              PROVE  \E s \in D : s.code = k /\ s.period = p /\ s.count = U[k][p].amount
  BY Zenon DEF PaidOf
<1>1. CASE U[k][p].amount = 0
  BY <1>1
<1>2. CASE p \in DOMAIN T[k] /\ U[k][p].amount = T[k][p].amount
  <2>1. T[k][p].amount > 0
    BY <1>2
  <2>2. PICK s \in C : s.code = k /\ s.period = p /\ s.count = T[k][p].amount
    BY <1>2, <2>1, Zenon DEF PaidOf
  <2>. QED
    BY <1>2, <2>2, Zenon
<1>. QED
  BY <1>1, <1>2, Zenon

\* Period p of code k becomes r.
PeriodSet(T, k, p, r, U) == U = [T EXCEPT ![k] = [T[k] EXCEPT ![p] = r]]

PeriodIsNow(T, k, p, r, U) ==
    /\ U \in [SettleCodes -> Seq(Period)] /\ Grows(T, U) /\ U[k][p] = r
    /\ \A j \in SettleCodes : \A o \in DOMAIN U[j] : o \in DOMAIN T[j] /\ ((j # k \/ o # p) => U[j][o] = T[j][o])

LEMMA PeriodChanged ==
    ASSUME NEW T \in [SettleCodes -> Seq(Period)], NEW k \in SettleCodes, NEW p \in DOMAIN T[k],
           NEW r \in Period, r.count = T[k][p].count,
           NEW U, PeriodSet(T, k, p, r, U)
    PROVE  PeriodIsNow(T, k, p, r, U)
<1>0. PICK S : S = [T[k] EXCEPT ![p] = r] /\ U = [T EXCEPT ![k] = S]
  BY Zenon DEF PeriodSet
<1>1. T[k] \in Seq(Period) /\ DOMAIN T[k] = 1..Len(T[k]) /\ Len(T[k]) \in Nat
  BY LenProperties
<1>2. S \in Seq(Period) /\ DOMAIN S = DOMAIN T[k] /\ S[p] = r /\ \A o \in DOMAIN T[k] : o # p => S[o] = T[k][o]
  BY <1>0, <1>1, ExceptSeq
<1>3. U \in [SettleCodes -> Seq(Period)] /\ U[k] = S /\ \A j \in SettleCodes : j # k => U[j] = T[j]
  BY <1>0, <1>2
<1>4. Grows(T, U)
  BY <1>2, <1>3, Zenon DEF Grows
<1>5. U[k][p] = r /\ \A j \in SettleCodes : \A o \in DOMAIN U[j] : o \in DOMAIN T[j] /\ ((j # k \/ o # p) => U[j][o] = T[j][o])
  BY <1>2, <1>3, Zenon
<1>. QED
  BY <1>3, <1>4, <1>5, Zenon DEF PeriodIsNow

\* A period r is added to code k.
PeriodAppended(T, k, r, U) == U = [T EXCEPT ![k] = Append(T[k], r)]

PeriodsWith(T, r, U) ==
    /\ U \in [SettleCodes -> Seq(Period)] /\ Grows(T, U)
    /\ \A j \in SettleCodes : \A o \in DOMAIN T[j] : U[j][o] = T[j][o]
    /\ \A j \in SettleCodes : \A o \in DOMAIN U[j] : (o \in DOMAIN T[j] /\ U[j][o] = T[j][o]) \/ U[j][o] = r

LEMMA PeriodAdded ==
    ASSUME NEW T \in [SettleCodes -> Seq(Period)], NEW k \in SettleCodes, NEW r \in Period,
           NEW U, PeriodAppended(T, k, r, U)
    PROVE  PeriodsWith(T, r, U)
<1>0. PICK S : S = Append(T[k], r) /\ U = [T EXCEPT ![k] = S]
  BY Zenon DEF PeriodAppended
<1>1. T[k] \in Seq(Period) /\ DOMAIN T[k] = 1..Len(T[k]) /\ Len(T[k]) \in Nat
  BY LenProperties
<1>2. /\ S \in Seq(Period) /\ DOMAIN S = 1..(Len(T[k]) + 1) /\ S[Len(T[k]) + 1] = r
      /\ \A o \in DOMAIN T[k] : S[o] = T[k][o]
  BY <1>0, <1>1, AppendProperties, LenProperties
<1>3. U \in [SettleCodes -> Seq(Period)] /\ U[k] = S /\ \A j \in SettleCodes : j # k => U[j] = T[j]
  BY <1>0, <1>2
<1>4. \A o \in DOMAIN S : o \in DOMAIN T[k] \/ o = Len(T[k]) + 1
  BY <1>1, <1>2
<1>5. \A o \in DOMAIN T[k] : o \in DOMAIN S
  BY <1>1, <1>2
<1>6. Grows(T, U)
  BY <1>2, <1>3, <1>5, Zenon DEF Grows
<1>7. \A j \in SettleCodes : \A o \in DOMAIN U[j] : (o \in DOMAIN T[j] /\ U[j][o] = T[j][o]) \/ U[j][o] = r
  BY <1>2, <1>3, <1>4, Zenon
<1>8. \A j \in SettleCodes : \A o \in DOMAIN T[j] : U[j][o] = T[j][o]
  BY <1>2, <1>3, Zenon
<1>. QED
  BY <1>3, <1>6, <1>7, <1>8, Zenon DEF PeriodsWith

LEMMA SettlementAnswered ==
    ASSUME NEW T, NEW C, NEW q, SettlementCall(q, T, C), NEW a,
           q.kind = "settlements" /\ a.at = "ok" => \A s \in a.rows : RowTrue(T, s)
    PROVE  SettlementCall([q EXCEPT !.answer = a], T, C)
<1>. DEFINE r == [q EXCEPT !.answer = a]
<1>1. CASE q.kind \in {"settlements", "campaigns"} /\ RowsFields(q)
  <2>1. RowsFields(r) /\ r.kind = q.kind /\ r.answer = a
    BY <1>1, SMTT(30) DEF RowsFields
  <2>. HIDE DEF r
  <2>2. SettlementCall(r, T, C)
    BY <1>1, <2>1, Zenon DEF SettlementCall
  <2>. QED
    BY <2>2, Zenon DEF r
<1>2. CASE q.kind \in {"commit", "settle"} /\ PostFields(q)
  <2>1. PostFields(r) /\ r.kind = q.kind /\ r.row = q.row
    BY <1>2, SMTT(30) DEF PostFields
  <2>2. "settlements" \notin {"commit", "settle"} /\ "settle" \notin {"settlements", "campaigns"}
    BY SMT
  <2>. HIDE DEF r
  <2>3. SettlementCall(r, T, C)
    BY <1>2, <2>1, <2>2, Zenon DEF SettlementCall
  <2>. QED
    BY <2>3, Zenon DEF r
<1>. QED
  BY <1>1, <1>2, Zenon DEF SettlementCall

\* A load asks for rows, and knows none yet.
LEMMA RowsAsked == \A e, x, T, C : \A q \in Settlements!Lists(e, x) : SettlementCall(q, T, C)
<1>. TAKE e, x, T, C
<1>. DEFINE q(y, a) == [kind |-> y, n |-> x, env |-> e, answer |-> a]
<1>1. \A y, a : RowsFields(q(y, a)) /\ q(y, a).kind = y /\ q(y, a).answer = a
  BY SMT DEF RowsFields
<1>2. Settlements!Lists(e, x) =
      {q("settlements", Settlements!Sent), q("campaigns", [at |-> "ok", codes |-> Settlements!CodesOf(e)])}
  BY Zenon DEF Settlements!Lists
<1>. HIDE DEF q
<1>3. Settlements!Sent.at # "ok" /\ "campaigns" # "settlements"
  BY SMT DEF Settlements!Sent
<1>4. SettlementCall(q("settlements", Settlements!Sent), T, C)
  BY <1>1, <1>3, Zenon DEF SettlementCall
<1>5. SettlementCall(q("campaigns", [at |-> "ok", codes |-> Settlements!CodesOf(e)]), T, C)
  BY <1>1, <1>3, Zenon DEF SettlementCall
<1>. QED
  BY <1>2, <1>4, <1>5, Zenon

LEMMA SettlementsBegin == Settlements!Init => SettlementsInv
<1>. SUFFICES ASSUME Settlements!Init PROVE SettlementsInv
  OBVIOUS
<1>. DEFINE u(x) == [count |-> x, paid |-> 0, settled |-> FALSE, amount |-> 0]
<1>1. \A x \in Nat : u(x) \in Period /\ u(x).amount = 0
  BY DEF Period
<1>2. /\ pending \in [SettleCodes -> 0..1] /\ tallies \in [SettleCodes -> {<<>>, <<u(2), u(1)>>}]
      /\ settlementsData = Settlements!NotLoaded /\ confirm = Settlements!None
      /\ settlementsCalls = Settlements!Lists("test", 0)
  BY Zenon DEF Settlements!Init, Settlements!Codes, SettleCodes, Settlements!Unpaid
<1>. HIDE DEF u
<1>3. /\ <<>> \in Seq(Period) /\ <<u(2), u(1)>> \in Seq(Period)
      /\ DOMAIN <<>> = {} /\ \A p \in DOMAIN <<u(2), u(1)>> : <<u(2), u(1)>>[p] \in {u(2), u(1)}
  BY <1>1
<1>4. tallies \in [SettleCodes -> Seq(Period)] /\ pending \in [SettleCodes -> Nat]
  <2>1. {<<>>, <<u(2), u(1)>>} \subseteq Seq(Period) /\ 0..1 \subseteq Nat
    BY <1>3
  <2>2. PICK Z : Z = {<<>>, <<u(2), u(1)>>}
    OBVIOUS
  <2>. QED
    BY <1>2, <2>1, <2>2
<1>5. ASSUME NEW k \in SettleCodes, NEW p \in DOMAIN tallies[k] PROVE tallies[k][p].amount = 0
  <2>1. tallies[k] = <<>> \/ tallies[k] = <<u(2), u(1)>>
    BY <1>2
  <2>2. tallies[k][p] \in {u(2), u(1)}
    BY <1>3, <1>5, <2>1, Zenon
  <2>. QED
    BY <1>1, <2>2
<1>6. PaidOf(tallies, clicked)
  BY <1>5 DEF PaidOf
<1>7. \A q \in settlementsCalls : SettlementCall(q, tallies, clicked)
  BY <1>2, RowsAsked, Zenon
<1>. QED
  BY <1>2, <1>4, <1>6, <1>7, Zenon DEF SettlementsInv

\* The tallies do not change, and requests are lists or were there before.
LEMMA SettlementsRest ==
    ASSUME SettlementsInv, UNCHANGED <<pending, tallies, clicked>>,
           settlementsData' = settlementsData \/ settlementsData' = Settlements!NotLoaded
              \/ \A s \in settlementsData'.rows : RowTrue(tallies, s),
           confirm' = confirm \/ confirm' = Settlements!None \/ RowTrue(tallies, confirm'),
           \A q \in settlementsCalls' :
              q \in settlementsCalls \/ (\E e, x : q \in Settlements!Lists(e, x)) \/ SettlementCall(q, tallies, clicked)
    PROVE  SettlementsInv'
<1>1. \A q \in settlementsCalls' : SettlementCall(q, tallies, clicked)
  BY RowsAsked, Zenon DEF SettlementsInv
<1>. QED
  BY <1>1, Zenon DEF SettlementsInv

\* A period changes, at most to be paid as it was confirmed, or one is added.
LEMMA TalliesChange ==
    ASSUME SettlementsInv, tallies' \in [SettleCodes -> Seq(Period)], pending' \in [SettleCodes -> Nat],
           Grows(tallies, tallies'), PaidOf(tallies', clicked),
           UNCHANGED <<settlementsData, confirm, clicked>>,
           \A q \in settlementsCalls' : SettlementCall(q, tallies, clicked)
    PROVE  SettlementsInv'
<1>1. \A q \in settlementsCalls' : SettlementCall(q, tallies', clicked')
  BY SettlementCallsKept, Zenon
<1>2. settlementsData' = Settlements!NotLoaded \/ \A s \in settlementsData'.rows : RowTrue(tallies', s)
  BY RowsStayTrue, Zenon DEF SettlementsInv
<1>3. confirm' = Settlements!None \/ RowTrue(tallies', confirm')
  BY RowsStayTrue, Zenon DEF SettlementsInv
<1>. QED
  BY <1>1, <1>2, <1>3, Zenon DEF SettlementsInv

LEMMA SettlementsKeeper ==
    ASSUME SettlementsInv, NEW k \in SettleCodes, NEW p, Settlements!Keeper(k, p)
    PROVE  SettlementsInv'
<1>0. PICK r : r = [tallies[k][p] EXCEPT !.paid = tallies[k][p].count]
  OBVIOUS
<1>10. PICK U : U = tallies'
  OBVIOUS
<1>1. /\ p \in DOMAIN tallies[k] /\ tallies' = [tallies EXCEPT ![k][p].paid = tallies[k][p].count]
      /\ UNCHANGED <<pending, settlementsData, confirm, settlementsCalls, clicked>>
  BY Zenon DEF Settlements!Keeper, Settlements!page, Settlements!form
<1>2. tallies \in [SettleCodes -> Seq(Period)] /\ PaidOf(tallies, clicked) /\ pending \in [SettleCodes -> Nat]
  BY Zenon DEF SettlementsInv
<1>3. tallies[k][p] \in Period
  <2>1. tallies[k] \in Seq(Period)
    BY <1>2
  <2>. QED
    BY <1>1, <2>1, LenProperties, ElementOfSeq
<1>4. r \in Period /\ r.count = tallies[k][p].count /\ r.amount = tallies[k][p].amount
  BY <1>0, <1>3 DEF Period
<1>5. PeriodSet(tallies, k, p, r, U)
  BY <1>0, <1>1, <1>10, Zenon DEF PeriodSet
<1>6. /\ U \in [SettleCodes -> Seq(Period)] /\ Grows(tallies, U) /\ U[k][p] = r
      /\ \A j \in SettleCodes : \A o \in DOMAIN U[j] : o \in DOMAIN tallies[j] /\ ((j # k \/ o # p) => U[j][o] = tallies[j][o])
  <2>1. tallies \in [SettleCodes -> Seq(Period)] /\ p \in DOMAIN tallies[k] /\ r \in Period /\ r.count = tallies[k][p].count
    BY <1>1, <1>2, <1>4, Zenon
  <2>. QED
    <3>1. PeriodIsNow(tallies, k, p, r, U)
      BY <2>1, <1>5, PeriodChanged, Zenon
    <3>. QED
      BY <3>1, Zenon DEF PeriodIsNow
<1>7. \A j \in SettleCodes : \A o \in DOMAIN U[j] : o \in DOMAIN tallies[j] /\ U[j][o].amount = tallies[j][o].amount
  BY <1>4, <1>6, Zenon
<1>8. PaidOf(U, clicked)
  <2>1. clicked \subseteq clicked /\ PaidOf(tallies, clicked)
    BY <1>2, Zenon
  <2>. QED
    BY <2>1, <1>7, PaidStays, SMT
<1>9. \A q \in settlementsCalls' : SettlementCall(q, tallies, clicked)
  BY <1>1, Zenon DEF SettlementsInv
<1>. QED
  BY <1>1, <1>2, <1>6, <1>8, <1>9, <1>10, TalliesChange, Zenon

\* What is posted by a button, for row s.
LEMMA Posted ==
    ASSUME NEW sort \in {"commit", "settle"}, NEW s, Settlements!Post(sort, s), NEW T, NEW C,
           sort = "settle" => s \in C /\ RowTrue(T, s)
    PROVE  \A q \in settlementsCalls' : q \in settlementsCalls \/ SettlementCall(q, T, C)
<1>. DEFINE q == [kind |-> sort, n |-> settlementsWrites + 1, env |-> settlementsEnv, row |-> s,
                  form |-> settlementsOpened, answer |-> Settlements!Sent]
<1>1. settlementsCalls' = settlementsCalls \cup {q}
  BY Zenon DEF Settlements!Post
<1>2. PostFields(q) /\ q.kind = sort /\ q.row = s
  BY SMT DEF PostFields
<1>. HIDE DEF q
<1>3. SettlementCall(q, T, C)
  BY <1>2, Zenon DEF SettlementCall
<1>. QED
  BY <1>1, <1>3, Zenon

LEMMA SettlementsSettle == SettlementsInv /\ Settlements!Settle => SettlementsInv'
<1>. SUFFICES ASSUME SettlementsInv, Settlements!Settle PROVE SettlementsInv'
  OBVIOUS
<1>1. /\ confirm # Settlements!None /\ Settlements!Post("settle", confirm) /\ clicked' = clicked \cup {confirm}
      /\ UNCHANGED <<pending, tallies, settlementsData, confirm>>
  BY Zenon DEF Settlements!Settle, Settlements!Settled, Settlements!api, Settlements!page
<1>2. RowTrue(tallies, confirm) /\ confirm \in clicked' /\ clicked \subseteq clicked'
  BY <1>1, Zenon DEF SettlementsInv
<1>3. \A q \in settlementsCalls' : q \in settlementsCalls \/ SettlementCall(q, tallies, clicked')
  BY <1>1, <1>2, Posted, Zenon
<1>4. \A q \in settlementsCalls : SettlementCall(q, tallies, clicked')
  <2>1. Grows(tallies, tallies)
    BY Zenon DEF Grows
  <2>. QED
    BY <1>2, <2>1, SettlementCallsKept, Zenon DEF SettlementsInv
<1>5. PaidOf(tallies, clicked')
  BY <1>2, PaidStays, Zenon DEF SettlementsInv
<1>. QED
  BY <1>1, <1>3, <1>4, <1>5, Zenon DEF SettlementsInv

LEMMA SettlementsButtons ==
    ASSUME SettlementsInv,
           \/ (\E k \in SettleCodes : Settlements!Select(k)) \/ (\E e \in Settlements!Envs : Settlements!SetEnv(e))
           \/ (\E s \in Settlements!Rows : Settlements!OpenConfirm(s))
           \/ Settlements!CommitNow \/ Settlements!CloseConfirm
    PROVE  SettlementsInv'
<1>1. ASSUME NEW k, Settlements!Select(k) PROVE SettlementsInv'
  BY <1>1, SettlementsRest, Zenon DEF Settlements!Select, Settlements!api, Settlements!form
<1>2. ASSUME NEW e, Settlements!SetEnv(e) PROVE SettlementsInv'
  <2>1. /\ UNCHANGED <<pending, tallies, clicked, confirm>> /\ settlementsData' = Settlements!NotLoaded
        /\ \A q \in settlementsCalls' : q \in settlementsCalls \/ \E d, x : q \in Settlements!Lists(d, x)
    BY <1>2, Zenon DEF Settlements!SetEnv, Settlements!api, Settlements!form, Settlements!Load
  <2>. QED
    BY <2>1, SettlementsRest, Zenon
<1>3. ASSUME NEW s \in Settlements!Rows, Settlements!OpenConfirm(s) PROVE SettlementsInv'
  <2>1. RowTrue(tallies, s)
    BY <1>3, Zenon DEF Settlements!Rows, SettlementsInv
  <2>2. confirm' = s /\ UNCHANGED <<pending, tallies, clicked, settlementsData, settlementsCalls>>
    BY <1>3, Zenon DEF Settlements!OpenConfirm, Settlements!api, Settlements!page
  <2>. QED
    BY <2>1, <2>2, SettlementsRest, Zenon
<1>4. CASE Settlements!CommitNow
  <2>1. PICK s : Settlements!Post("commit", s) /\ UNCHANGED <<pending, tallies, clicked, settlementsData, confirm>>
    BY <1>4, Zenon DEF Settlements!CommitNow, Settlements!api, Settlements!form
  <2>2. "commit" # "settle"
    BY SMT
  <2>3. \A q \in settlementsCalls' : q \in settlementsCalls \/ SettlementCall(q, tallies, clicked)
    BY <2>1, <2>2, Posted, Zenon
  <2>. QED
    BY <2>1, <2>3, SettlementsRest, Zenon
<1>5. CASE Settlements!CloseConfirm
  BY <1>5, SettlementsRest, Zenon DEF Settlements!CloseConfirm, Settlements!api, Settlements!page
<1>. QED
  BY <1>1, <1>2, <1>3, <1>4, <1>5, Zenon

LEMMA SettlementsList ==
    ASSUME SettlementsInv, NEW q \in settlementsCalls, Settlements!ServeList(q)
    PROVE  SettlementsInv'
<1>. DEFINE R == Settlements!RowsOf(q.env)
            row(k, p) == [code |-> k, period |-> p, count |-> tallies[k][p].count, settled |-> tallies[k][p].settled,
                          amount |-> tallies[k][p].amount]
<1>1. PICK a : a = [at |-> "ok", rows |-> R] /\ Settlements!Answer(q, a)
  BY Zenon DEF Settlements!ServeList
<1>2. UNCHANGED <<pending, tallies, clicked, settlementsData, confirm>>
  BY Zenon DEF Settlements!ServeList, Settlements!api, Settlements!page, Settlements!form
<1>3. ASSUME NEW s \in R PROVE RowTrue(tallies, s)
  <2>1. Settlements!CodesOf(q.env) \subseteq SettleCodes
    BY Zenon DEF Settlements!CodesOf, SettleCodes
  <2>2. PICK k \in Settlements!CodesOf(q.env) : s \in {row(k, p) : p \in DOMAIN tallies[k]}
    BY <1>3, Zenon DEF Settlements!RowsOf
  <2>3. PICK p \in DOMAIN tallies[k] : s = row(k, p)
    BY <2>2, Zenon
  <2>4. s.code = k /\ s.period = p /\ s.count = tallies[k][p].count
    BY <2>3
  <2>. QED
    BY <2>1, <2>4, Zenon DEF RowTrue
<1>4. a.rows = R
  BY <1>1
<1>5. SettlementCall([q EXCEPT !.answer = a], tallies, clicked)
  <2>1. SettlementCall(q, tallies, clicked)
    BY Zenon DEF SettlementsInv
  <2>2. \A s \in a.rows : RowTrue(tallies, s)
    BY <1>3, <1>4, Zenon
  <2>. QED
    BY <2>1, <2>2, SettlementAnswered, Zenon
<1>6. \A d \in settlementsCalls' : d \in settlementsCalls \/ SettlementCall(d, tallies, clicked)
  BY <1>1, <1>5, Zenon DEF Settlements!Answer
<1>. QED
  BY <1>2, <1>6, SettlementsRest, Zenon

\* The answer to a commit or to a settlement.
LEMMA WriteAnswered ==
    ASSUME SettlementsInv, NEW q \in settlementsCalls, q.kind # "settlements", NEW a, Settlements!Answer(q, a)
    PROVE  \A d \in settlementsCalls' : SettlementCall(d, tallies, clicked)
<1>1. SettlementCall(q, tallies, clicked)
  BY Zenon DEF SettlementsInv
<1>2. SettlementCall([q EXCEPT !.answer = a], tallies, clicked)
  BY <1>1, SettlementAnswered, Zenon
<1>. QED
  BY <1>2, Zenon DEF Settlements!Answer, SettlementsInv

LEMMA SettlementsCommit ==
    ASSUME SettlementsInv, NEW q \in settlementsCalls, Settlements!ServeCommit(q)
    PROVE  SettlementsInv'
<1>1. /\ q.kind = "commit" /\ UNCHANGED <<clicked, settlementsData, confirm>>
      /\ \E a : Settlements!Answer(q, a)
  BY Zenon DEF Settlements!ServeCommit, Settlements!page, Settlements!form
<1>2. "commit" # "settlements"
  BY SMT
<1>3. \A d \in settlementsCalls' : SettlementCall(d, tallies, clicked)
  BY <1>1, <1>2, WriteAnswered, Zenon
<1>4. CASE UNCHANGED <<pending, tallies>>
  BY <1>1, <1>3, <1>4, SettlementsRest, Zenon
<1>5. ASSUME NEW k \in SettleCodes,
             tallies' = [tallies EXCEPT ![k] = Append(@, Settlements!Unpaid(pending[k]))],
             pending' = [pending EXCEPT ![k] = 0]
      PROVE  SettlementsInv'
  <2>1. tallies \in [SettleCodes -> Seq(Period)] /\ PaidOf(tallies, clicked) /\ pending \in [SettleCodes -> Nat]
    BY Zenon DEF SettlementsInv
  <2>2. PICK r : r = Settlements!Unpaid(pending[k])
    OBVIOUS
  <2>3. r \in Period /\ r.amount = 0
    <3>1. pending[k] \in Nat
      BY <2>1
    <3>. QED
      BY <2>2, <3>1 DEF Period, Settlements!Unpaid
  <2>4. PICK U : U = tallies'
    OBVIOUS
  <2>5. PeriodAppended(tallies, k, r, U)
    BY <1>5, <2>2, <2>4, Zenon DEF PeriodAppended
  <2>6. /\ U \in [SettleCodes -> Seq(Period)] /\ Grows(tallies, U)
        /\ \A j \in SettleCodes : \A o \in DOMAIN U[j] : (o \in DOMAIN tallies[j] /\ U[j][o] = tallies[j][o]) \/ U[j][o] = r
    <3>1. PeriodsWith(tallies, r, U)
      BY <2>1, <2>3, <2>5, PeriodAdded, Zenon
    <3>. QED
      BY <3>1, Zenon DEF PeriodsWith
  <2>7. \A j \in SettleCodes : \A o \in DOMAIN U[j] :
           (o \in DOMAIN tallies[j] /\ U[j][o].amount = tallies[j][o].amount) \/ U[j][o].amount = 0
    BY <2>3, <2>6, Zenon
  <2>8. PaidOf(U, clicked)
    <3>1. PaidOf(tallies, clicked)
      BY <2>1
    <3>2. \A j \in SettleCodes : \A o \in DOMAIN U[j] :
             \/ o \in DOMAIN tallies[j] /\ U[j][o].amount = tallies[j][o].amount
             \/ U[j][o].amount = 0
             \/ \E s \in clicked : s.code = j /\ s.period = o /\ s.count = U[j][o].amount
      BY <2>7, Zenon
    <3>3. clicked \subseteq clicked
      OBVIOUS
    <3>. QED
      BY ONLY <3>1, <3>2, <3>3, PaidStays, SMT
  <2>9. pending' \in [SettleCodes -> Nat]
    BY <1>5, <2>1
  <2>. QED
    BY <1>1, <1>3, <2>4, <2>6, <2>8, <2>9, TalliesChange, Zenon
<1>6. Settlements!CodesOf(q.env) \subseteq SettleCodes
  BY Zenon DEF Settlements!CodesOf, SettleCodes
<1>7. \/ UNCHANGED <<pending, tallies>>
      \/ \E k \in SettleCodes : /\ tallies' = [tallies EXCEPT ![k] = Append(@, Settlements!Unpaid(pending[k]))]
                                /\ pending' = [pending EXCEPT ![k] = 0]
  BY <1>6, Zenon DEF Settlements!ServeCommit, Settlements!api
<1>. QED
  BY <1>4, <1>5, <1>7, Zenon

LEMMA SettlementsPay ==
    ASSUME SettlementsInv, NEW q \in settlementsCalls, Settlements!ServeSettle(q)
    PROVE  SettlementsInv'
<1>1. /\ q.kind = "settle" /\ UNCHANGED <<pending, clicked, settlementsData, confirm>>
      /\ \E a : Settlements!Answer(q, a)
  BY Zenon DEF Settlements!ServeSettle, Settlements!page, Settlements!form
<1>2. "settle" # "settlements" /\ "settle" # "campaigns"
  BY SMT
<1>3. \A d \in settlementsCalls' : SettlementCall(d, tallies, clicked)
  BY <1>1, <1>2, WriteAnswered, Zenon
<1>4. q.row \in clicked /\ RowTrue(tallies, q.row)
  BY <1>1, <1>2, Zenon DEF SettlementsInv, SettlementCall
<1>5. PICK k, p : k = q.row.code /\ p = q.row.period
  OBVIOUS
<1>6. k \in SettleCodes /\ p \in DOMAIN tallies[k] /\ q.row.count = tallies[k][p].count
  BY <1>4, <1>5, Zenon DEF RowTrue
<1>7. tallies \in [SettleCodes -> Seq(Period)] /\ PaidOf(tallies, clicked) /\ pending \in [SettleCodes -> Nat]
  BY Zenon DEF SettlementsInv
<1>8. PICK t : t = tallies[k][p]
  OBVIOUS
<1>9. t \in Period
  <2>1. tallies[k] \in Seq(Period)
    BY <1>6, <1>7
  <2>. QED
    BY <1>6, <1>8, <2>1, LenProperties, ElementOfSeq
<1>10. CASE UNCHANGED tallies
  BY <1>1, <1>3, <1>10, SettlementsRest, Zenon
<1>11. ASSUME NEW r \in Period, r.count = t.count, r.amount = t.amount \/ r.amount = t.count,
              PeriodSet(tallies, k, p, r, tallies')
       PROVE  SettlementsInv'
  <2>1. PICK U : U = tallies'
    OBVIOUS
  <2>2. PeriodIsNow(tallies, k, p, r, U)
    BY <1>6, <1>7, <1>8, <1>11, <2>1, PeriodChanged, Zenon
  <2>3. /\ U \in [SettleCodes -> Seq(Period)] /\ Grows(tallies, U) /\ U[k][p] = r
        /\ \A j \in SettleCodes : \A o \in DOMAIN U[j] : o \in DOMAIN tallies[j] /\ ((j # k \/ o # p) => U[j][o] = tallies[j][o])
    BY <2>2, Zenon DEF PeriodIsNow
  <2>4. ASSUME NEW j \in SettleCodes, NEW o \in DOMAIN U[j]
        PROVE  \/ o \in DOMAIN tallies[j] /\ U[j][o].amount = tallies[j][o].amount
               \/ \E s \in clicked : s.code = j /\ s.period = o /\ s.count = U[j][o].amount
    <3>1. CASE j = k /\ o = p
      BY <1>4, <1>5, <1>6, <1>8, <1>11, <2>3, <3>1, Zenon
    <3>. QED
      BY <2>3, <2>4, <3>1, Zenon
  <2>5. PaidOf(U, clicked)
    <3>1. clicked \subseteq clicked
      OBVIOUS
    <3>. QED
      BY <1>7, <2>4, <3>1, PaidStays, SMT
  <2>. QED
    BY <1>1, <1>3, <1>7, <2>1, <2>3, <2>5, TalliesChange, Zenon
<1>12. CASE tallies' = [tallies EXCEPT ![k][p] = [count |-> t.count, paid |-> t.count, settled |-> TRUE, amount |-> t.count]]
  <2>1. PICK r : r = [count |-> t.count, paid |-> t.count, settled |-> TRUE, amount |-> t.count]
    OBVIOUS
  <2>2. r \in Period /\ r.count = t.count /\ r.amount = t.count
    BY <1>9, <2>1 DEF Period
  <2>3. PeriodSet(tallies, k, p, r, tallies')
    BY <1>12, <2>1, Zenon DEF PeriodSet
  <2>. QED
    BY <1>11, <2>2, <2>3, Zenon
<1>13. CASE tallies' = [tallies EXCEPT ![k][p] = Settlements!Reconciled(@)]
  <2>1. PICK r : r = [t EXCEPT !.settled = TRUE]
    OBVIOUS
  <2>2. r \in Period /\ r.count = t.count /\ r.amount = t.amount
    BY <1>9, <2>1 DEF Period
  <2>3. PeriodSet(tallies, k, p, r, tallies')
    BY <1>8, <1>13, <2>1, Zenon DEF PeriodSet, Settlements!Reconciled
  <2>. QED
    BY <1>11, <2>2, <2>3, Zenon
<1>14. UNCHANGED tallies \/ tallies' = [tallies EXCEPT ![k][p] = Settlements!Reconciled(@)]
       \/ tallies' = [tallies EXCEPT ![k][p] = [count |-> t.count, paid |-> t.count, settled |-> TRUE, amount |-> t.count]]
  BY <1>5, <1>8, Zenon DEF Settlements!ServeSettle
<1>. QED
  BY <1>10, <1>12, <1>13, <1>14, Zenon

LEMMA SettlementsKept == SettlementsInv /\ (Settlements!Next \/ UNCHANGED settlementsVars) => SettlementsInv'
<1>. SUFFICES ASSUME SettlementsInv, Settlements!Next \/ UNCHANGED settlementsVars PROVE SettlementsInv'
  OBVIOUS
<1>1. CASE UNCHANGED settlementsVars
  BY <1>1, SettlementsRest, Zenon DEF settlementsVars
<1>2. ASSUME NEW q \in settlementsCalls, Settlements!Listed(q) PROVE SettlementsInv'
  <2>1. /\ UNCHANGED <<pending, tallies, clicked, confirm>> /\ settlementsCalls' \subseteq settlementsCalls
        /\ settlementsData' = settlementsData \/ (q.kind = "settlements" /\ q.answer.at = "ok" /\ settlementsData' = q.answer)
    BY <1>2, Zenon DEF Settlements!Listed, Settlements!api, Settlements!form
  <2>2. "settlements" \notin {"commit", "settle"}
    BY SMT
  <2>3. q.kind = "settlements" /\ q.answer.at = "ok" => \A s \in q.answer.rows : RowTrue(tallies, s)
    BY <2>2, Zenon DEF SettlementsInv, SettlementCall
  <2>. QED
    BY <2>1, <2>3, SettlementsRest, Zenon
<1>3. ASSUME NEW q \in settlementsCalls, Settlements!Committed(q) \/ Settlements!Paid(q) PROVE SettlementsInv'
  <2>1. /\ UNCHANGED <<pending, tallies, clicked, settlementsData>> /\ confirm' \in {confirm, Settlements!None}
        /\ \A d \in settlementsCalls' : d \in settlementsCalls \/ \E e, x : d \in Settlements!Lists(e, x)
    BY <1>3, Zenon DEF Settlements!Committed, Settlements!Paid, Settlements!Done, Settlements!Load, Settlements!api,
                       Settlements!page, Settlements!form
  <2>. QED
    BY <2>1, SettlementsRest, Zenon
<1>4. ASSUME NEW q \in settlementsCalls, Settlements!Fails(q) PROVE SettlementsInv'
  BY <1>4, SettlementsRest, Zenon DEF Settlements!Fails, Settlements!api
<1>. QED
  BY <1>1, <1>2, <1>3, <1>4, SettlementsButtons, SettlementsSettle, SettlementsKeeper, SettlementsList, SettlementsCommit,
     SettlementsPay, Zenon DEF Settlements!Next, Settlements!Codes, SettleCodes

LEMMA SettlementsTell == SettlementsInv => Settlements!PaidAsConfirmed
BY Zenon DEF SettlementsInv, PaidOf, Settlements!PaidAsConfirmed, Settlements!Codes, SettleCodes

-----------------------------------------------------------------------------
\* Redemptions: a code burns in the campaign that the form showed.

ShopCampaigns == TestCampaigns \cup LiveCampaigns

RedeemFields(q) ==
    q = [kind |-> q.kind, n |-> q.n, env |-> q.env, campaign |-> q.campaign, code |-> q.code, form |-> q.form,
         answer |-> q.answer]

\* A list of campaigns offers those of its environment, all but some in A.
Offers(q, A) ==
    q.kind = "campaigns" /\ q.answer.at = "ok" =>
        /\ q.answer.usable \subseteq Redemptions!CampaignsOf(q.env)
        /\ Redemptions!CampaignsOf(q.env) \ A \subseteq q.answer.usable

\* A code that the handler may admit was sent from the campaign on screen.
WasShown(q, A, s) ==
    q.kind = "redeem" /\ q.campaign \in Redemptions!CampaignsOf(q.env) \ A => s[q.n] = q.campaign

RedemptionCall(q, A, k) ==
    \/ q.kind \in {"redemptions", "campaigns"} /\ RowsFields(q) /\ Offers(q, A)
    \/ q.kind = "redeem" /\ RedeemFields(q) /\ q.n \in 1..k

RedemptionsInv ==
    /\ redemptionsCampaigns.usable \subseteq ShopCampaigns
    /\ redemptionsShown \in Seq(Nat) /\ Len(redemptionsShown) = redemptionsClicks
    /\ \A q \in redemptionsCalls : RedemptionCall(q, redemptionsArchived, redemptionsClicks)
    /\ \A b \in burned : b.by \in 1..redemptionsClicks
    /\ ~ redemptionsAstray =>
          /\ \A q \in redemptionsCalls :
                /\ q.kind # "redeem" => q.env = redemptionsEnv
                /\ WasShown(q, redemptionsArchived, redemptionsShown)
          /\ redeem /\ campID \in Redemptions!CampaignsOf(redemptionsEnv) \ redemptionsArchived =>
                campID \in redemptionsCampaigns.usable
    /\ Redemptions!BurnsWhatWasShown

LEMMA ShopAssume == ShopCampaigns \subseteq Nat \ {0} /\ IsFiniteSet(ShopCampaigns)
<1>1. Redemptions!RedemptionsAssumption
  BY ConsoleAssumption, Zenon DEF ConsoleAssumption
<1>. QED
  BY <1>1, Zenon DEF Redemptions!RedemptionsAssumption, Redemptions!IsFiniteSet, ShopCampaigns, IsFiniteSet

LEMMA CampaignsOfShop == \A e : Redemptions!CampaignsOf(e) \subseteq ShopCampaigns
BY Zenon DEF Redemptions!CampaignsOf, ShopCampaigns

\* The form's first choice is one of its choices, or none.
LEMMA FirstIsUsable ==
    ASSUME redemptionsCampaigns.usable \subseteq ShopCampaigns
    PROVE  /\ Redemptions!First \in redemptionsCampaigns.usable \cup {0} /\ Redemptions!First \in Nat
           /\ Redemptions!First # 0 => Redemptions!First \in redemptionsCampaigns.usable
<1>. DEFINE S == redemptionsCampaigns.usable
<1>1. S \in SUBSET Int /\ IsFiniteSet(S) /\ S \subseteq Nat \ {0}
  <2>1. S \in SUBSET ShopCampaigns
    OBVIOUS
  <2>. HIDE DEF S
  <2>2. IsFiniteSet(S)
    <3>1. IsFiniteSet(ShopCampaigns)
      BY ShopAssume, Zenon
    <3>. QED
      BY <2>1, <3>1, FS_Subset, Zenon
  <2>3. ShopCampaigns \subseteq Nat \ {0}
    BY ShopAssume, Zenon
  <2>4. S \subseteq Nat \ {0}
    BY <2>1, <2>3, Zenon
  <2>5. S \in SUBSET Int
    <3>1. Nat \ {0} \subseteq Int
      BY SMT
    <3>. QED
      BY <2>4, <3>1, Zenon
  <2>. QED
    BY <2>2, <2>4, <2>5, Zenon
<1>2. CASE S = {}
  BY <1>2 DEF Redemptions!First
<1>3. CASE S # {}
  <2>1. \E x \in S : \A y \in S : x >= y
    BY <1>1, <1>3, LargestIs
  <2>2. Redemptions!First = CHOOSE x \in S : \A y \in S : x >= y
    BY <1>3, Zenon DEF Redemptions!First, Redemptions!Max
  <2>. HIDE DEF S
  <2>3. Redemptions!First \in S
    BY <2>1, <2>2
  <2>. QED
    BY <1>1, <2>3 DEF S
<1>. QED
  BY <1>2, <1>3, Zenon

LEMMA RedemptionAnswered ==
    ASSUME NEW q, NEW A, NEW k, RedemptionCall(q, A, k), NEW a,
           q.kind = "campaigns" /\ a.at = "ok" =>
              a.usable \subseteq Redemptions!CampaignsOf(q.env) /\ Redemptions!CampaignsOf(q.env) \ A \subseteq a.usable
    PROVE  LET r == [q EXCEPT !.answer = a]
           IN  /\ RedemptionCall(r, A, k) /\ r.kind = q.kind /\ r.env = q.env
               /\ \A s : WasShown(q, A, s) => WasShown(r, A, s)
<1>. DEFINE r == [q EXCEPT !.answer = a]
<1>1. CASE q.kind \in {"redemptions", "campaigns"} /\ RowsFields(q)
  <2>1. RowsFields(r) /\ r.kind = q.kind /\ r.env = q.env /\ r.answer = a
    BY <1>1, SMTT(30) DEF RowsFields
  <2>2. "redeem" \notin {"redemptions", "campaigns"}
    BY SMT
  <2>. HIDE DEF r
  <2>3. RedemptionCall(r, A, k) /\ \A s : WasShown(r, A, s)
    BY <1>1, <2>1, <2>2, Zenon DEF RedemptionCall, Offers, WasShown
  <2>. QED
    BY <2>1, <2>3, Zenon DEF r
<1>2. CASE q.kind = "redeem" /\ RedeemFields(q)
  <2>1. RedeemFields(r) /\ r.kind = q.kind /\ r.env = q.env /\ r.n = q.n /\ r.campaign = q.campaign
    BY <1>2, SMTT(30) DEF RedeemFields
  <2>2. "redeem" \notin {"redemptions", "campaigns"}
    BY SMT
  <2>. HIDE DEF r
  <2>3. RedemptionCall(r, A, k) /\ \A s : WasShown(q, A, s) => WasShown(r, A, s)
    BY <1>2, <2>1, <2>2, Zenon DEF RedemptionCall, WasShown
  <2>. QED
    BY <2>1, <2>3, Zenon DEF r
<1>. QED
  BY <1>1, <1>2, Zenon DEF RedemptionCall

\* A load asks for two lists.
LEMMA ListsAsked ==
    \A e, x, A, k, s : \A q \in Redemptions!Lists(e, x) :
       RedemptionCall(q, A, k) /\ q.kind # "redeem" /\ q.env = e /\ WasShown(q, A, s)
<1>. TAKE e, x, A, k, s
<1>. DEFINE q(y) == [kind |-> y, n |-> x, env |-> e, answer |-> Redemptions!Sent]
<1>1. \A y : RowsFields(q(y)) /\ q(y).kind = y /\ q(y).answer = Redemptions!Sent /\ q(y).env = e
  BY SMT DEF RowsFields
<1>2. Redemptions!Lists(e, x) = {q(y) : y \in {"redemptions", "campaigns"}}
  BY Zenon DEF Redemptions!Lists
<1>. HIDE DEF q
<1>3. Redemptions!Sent.at # "ok" /\ "campaigns" # "redeem" /\ "redemptions" # "redeem"
  BY SMT DEF Redemptions!Sent
<1>4. ASSUME NEW y \in {"redemptions", "campaigns"}
      PROVE  RedemptionCall(q(y), A, k) /\ q(y).kind # "redeem" /\ q(y).env = e /\ WasShown(q(y), A, s)
  BY <1>1, <1>3, Zenon DEF RedemptionCall, Offers, WasShown
<1>. QED
  BY <1>2, <1>4, Zenon

LEMMA RedemptionsBegin == Redemptions!Init => RedemptionsInv
<1>. SUFFICES ASSUME Redemptions!Init PROVE RedemptionsInv
  OBVIOUS
<1>1. /\ burned = {} /\ redemptionsEnv = "test" /\ redemptionsCampaigns = Redemptions!NoCampaigns
      /\ campID = 0 /\ redemptionsCalls = Redemptions!Lists("test", 0) /\ redemptionsClicks = 0 /\ redemptionsShown = <<>>
  BY Zenon DEF Redemptions!Init
<1>2. redemptionsCampaigns.usable = {}
  BY <1>1 DEF Redemptions!NoCampaigns
<1>3. redemptionsShown \in Seq(Nat) /\ Len(redemptionsShown) = 0
  BY <1>1
<1>4. 0 \notin Redemptions!CampaignsOf(redemptionsEnv)
  BY CampaignsOfShop, ShopAssume
<1>5. \A q \in redemptionsCalls :
         /\ RedemptionCall(q, redemptionsArchived, redemptionsClicks) /\ q.env = redemptionsEnv
         /\ WasShown(q, redemptionsArchived, redemptionsShown)
  BY <1>1, ListsAsked, Zenon
<1>. QED
  BY <1>1, <1>2, <1>3, <1>4, <1>5, Zenon DEF RedemptionsInv, Redemptions!BurnsWhatWasShown

\* Only lists are asked for, answered or dropped; the form keeps to its choices.
LEMMA RedemptionsRest ==
    ASSUME RedemptionsInv, UNCHANGED <<redemptionsClicks, redemptionsShown>>, burned' = burned,
           redemptionsArchived \subseteq redemptionsArchived',
           redemptionsCampaigns'.usable \subseteq ShopCampaigns,
           redemptionsAstray => redemptionsAstray',
           \A q \in redemptionsCalls' :
              \/ q \in redemptionsCalls
              \/ /\ RedemptionCall(q, redemptionsArchived, redemptionsClicks)
                 /\ ~ redemptionsAstray' =>
                       (q.kind # "redeem" => q.env = redemptionsEnv') /\ WasShown(q, redemptionsArchived, redemptionsShown),
           redemptionsEnv' = redemptionsEnv \/ (~ redemptionsAstray' =>
              \A q \in redemptionsCalls : q.kind = "redeem"),
           ~ redemptionsAstray' /\ redeem' /\ campID' \in Redemptions!CampaignsOf(redemptionsEnv') \ redemptionsArchived' =>
              campID' \in redemptionsCampaigns'.usable
    PROVE  RedemptionsInv'
<1>1. ASSUME NEW q, RedemptionCall(q, redemptionsArchived, redemptionsClicks)
      PROVE  RedemptionCall(q, redemptionsArchived', redemptionsClicks)
  BY <1>1, Zenon DEF RedemptionCall, Offers
<1>2. ASSUME NEW q, NEW s, WasShown(q, redemptionsArchived, s)
      PROVE  WasShown(q, redemptionsArchived', s)
  BY <1>2, Zenon DEF WasShown
<1>3. \A q \in redemptionsCalls' : RedemptionCall(q, redemptionsArchived', redemptionsClicks')
  BY <1>1, Zenon DEF RedemptionsInv
<1>4. ASSUME ~ redemptionsAstray', NEW q \in redemptionsCalls'
      PROVE  (q.kind # "redeem" => q.env = redemptionsEnv') /\ WasShown(q, redemptionsArchived', redemptionsShown')
  <2>1. ~ redemptionsAstray
    BY <1>4, Zenon
  <2>2. CASE q \in redemptionsCalls
    <3>1. (q.kind # "redeem" => q.env = redemptionsEnv) /\ WasShown(q, redemptionsArchived, redemptionsShown)
      BY <2>1, <2>2, Zenon DEF RedemptionsInv
    <3>. QED
      BY <1>2, <1>4, <2>2, <3>1, Zenon
  <2>3. CASE ~ (q \in redemptionsCalls)
    BY <1>2, <1>4, <2>3, Zenon
  <2>. QED
    BY <2>2, <2>3
<1>5. redemptionsShown' \in Seq(Nat) /\ Len(redemptionsShown') = redemptionsClicks' /\ \A b \in burned' : b.by \in 1..redemptionsClicks'
  BY Zenon DEF RedemptionsInv
<1>6. Redemptions!BurnsWhatWasShown'
  BY Zenon DEF RedemptionsInv, Redemptions!BurnsWhatWasShown
<1>. QED
  BY <1>3, <1>4, <1>5, <1>6, Zenon DEF RedemptionsInv

LEMMA RedeemKeeps ==
    ASSUME RedemptionsInv, NEW x, Redemptions!Redeem(x)
    PROVE  RedemptionsInv'
<1>. DEFINE q == [kind |-> "redeem", n |-> redemptionsClicks + 1, env |-> redemptionsEnv, campaign |-> campID,
                  code |-> x, form |-> redemptionsOpened, answer |-> Redemptions!Sent]
<1>1. /\ redeem /\ redemptionsClicks' = redemptionsClicks + 1
      /\ redemptionsShown' = Append(redemptionsShown, Redemptions!Shown)
      /\ redemptionsCalls' = redemptionsCalls \cup {q}
      /\ UNCHANGED <<burned, redemptionsArchived, redemptionsEnv, redemptionsCampaigns, redeem, campID, redemptionsAstray>>
  BY Zenon DEF Redemptions!Redeem, Redemptions!api, Redemptions!page
<1>2. /\ RedeemFields(q) /\ q.kind = "redeem" /\ q.n = redemptionsClicks + 1 /\ q.env = redemptionsEnv /\ q.campaign = campID
  BY SMT DEF RedeemFields
<1>. HIDE DEF q
<1>3. redemptionsShown \in Seq(Nat) /\ Len(redemptionsShown) = redemptionsClicks
  BY Zenon DEF RedemptionsInv
<1>4. PICK z : z = Redemptions!Shown
  OBVIOUS
<1>5. z \in Nat
  <2>1. redemptionsCampaigns.usable \subseteq ShopCampaigns
    BY Zenon DEF RedemptionsInv
  <2>2. Redemptions!First \in Nat
    BY <2>1, FirstIsUsable, Zenon
  <2>3. redemptionsCampaigns.usable \subseteq Nat
    BY <2>1, ShopAssume
  <2>. QED
    BY <1>4, <2>2, <2>3, Zenon DEF Redemptions!Shown
<1>6. /\ redemptionsShown' \in Seq(Nat) /\ Len(redemptionsShown') = redemptionsClicks'
      /\ redemptionsClicks \in Nat /\ redemptionsShown'[redemptionsClicks + 1] = z
      /\ \A k \in 1..redemptionsClicks : redemptionsShown'[k] = redemptionsShown[k]
  BY <1>1, <1>3, <1>4, <1>5, AppendProperties, LenProperties
<1>7. ASSUME NEW k \in 1..redemptionsClicks PROVE k \in 1..redemptionsClicks'
  BY <1>1, <1>6
<1>8. q.n \in 1..redemptionsClicks'
  BY <1>1, <1>2, <1>6
<1>9. "redeem" \notin {"redemptions", "campaigns"}
  BY SMT
<1>10. ASSUME NEW d \in redemptionsCalls' PROVE RedemptionCall(d, redemptionsArchived', redemptionsClicks')
  <2>1. CASE d = q
    BY <1>2, <1>8, <2>1, Zenon DEF RedemptionCall
  <2>2. CASE d \in redemptionsCalls
    <3>1. RedemptionCall(d, redemptionsArchived, redemptionsClicks)
      BY <2>2, Zenon DEF RedemptionsInv
    <3>. QED
      BY <1>1, <1>7, <3>1, Zenon DEF RedemptionCall
  <2>. QED
    BY <1>1, <1>10, <2>1, <2>2, Zenon
<1>11. ASSUME ~ redemptionsAstray', NEW d \in redemptionsCalls'
       PROVE  (d.kind # "redeem" => d.env = redemptionsEnv') /\ WasShown(d, redemptionsArchived', redemptionsShown')
  <2>1. CASE d = q
    <3>1. campID \in Redemptions!CampaignsOf(redemptionsEnv) \ redemptionsArchived => campID \in redemptionsCampaigns.usable
      BY <1>1, <1>11, Zenon DEF RedemptionsInv
    <3>2. campID \in redemptionsCampaigns.usable => z = campID
      BY <1>4, Zenon DEF Redemptions!Shown
    <3>. QED
      BY <1>1, <1>2, <1>6, <2>1, <3>1, <3>2, Zenon DEF WasShown
  <2>2. CASE d \in redemptionsCalls
    <3>1. (d.kind # "redeem" => d.env = redemptionsEnv) /\ WasShown(d, redemptionsArchived, redemptionsShown)
      BY <1>1, <1>11, <2>2, Zenon DEF RedemptionsInv
    <3>2. d.kind = "redeem" => d.n \in 1..redemptionsClicks
      BY <1>9, <2>2, Zenon DEF RedemptionsInv, RedemptionCall
    <3>. QED
      BY <1>1, <1>6, <3>1, <3>2, Zenon DEF WasShown
  <2>. QED
    BY <1>1, <1>11, <2>1, <2>2, Zenon
<1>12. \A b \in burned' : b.by \in 1..redemptionsClicks'
  BY <1>1, <1>7, Zenon DEF RedemptionsInv
<1>13. Redemptions!BurnsWhatWasShown'
  <2>1. ASSUME ~ redemptionsAstray', NEW b \in burned' PROVE b.campaign = redemptionsShown'[b.by]
    BY <1>1, <1>6, <2>1, Zenon DEF RedemptionsInv, Redemptions!BurnsWhatWasShown
  <2>. QED
    BY <2>1, Zenon DEF Redemptions!BurnsWhatWasShown
<1>. QED
  BY <1>1, <1>6, <1>10, <1>11, <1>12, <1>13, Zenon DEF RedemptionsInv

\* An answer brings what a call asked for.
LEMMA RedemptionsAnswer ==
    ASSUME RedemptionsInv, NEW q \in redemptionsCalls, NEW a, Redemptions!Answer(q, a),
           q.kind = "campaigns" /\ a.at = "ok" =>
              /\ a.usable \subseteq Redemptions!CampaignsOf(q.env)
              /\ Redemptions!CampaignsOf(q.env) \ redemptionsArchived \subseteq a.usable
    PROVE  \A d \in redemptionsCalls' :
              \/ d \in redemptionsCalls
              \/ /\ RedemptionCall(d, redemptionsArchived, redemptionsClicks)
                 /\ ~ redemptionsAstray =>
                       (d.kind # "redeem" => d.env = redemptionsEnv) /\ WasShown(d, redemptionsArchived, redemptionsShown)
<1>. DEFINE r == [q EXCEPT !.answer = a]
<1>1. RedemptionCall(q, redemptionsArchived, redemptionsClicks)
  BY Zenon DEF RedemptionsInv
<1>2. /\ RedemptionCall(r, redemptionsArchived, redemptionsClicks) /\ r.kind = q.kind /\ r.env = q.env
      /\ \A s : WasShown(q, redemptionsArchived, s) => WasShown(r, redemptionsArchived, s)
  BY <1>1, RedemptionAnswered, Zenon
<1>3. redemptionsCalls' = (redemptionsCalls \ {q}) \cup {r}
  BY Zenon DEF Redemptions!Answer
<1>. HIDE DEF r
<1>4. ~ redemptionsAstray =>
         (q.kind # "redeem" => q.env = redemptionsEnv) /\ WasShown(q, redemptionsArchived, redemptionsShown)
  BY Zenon DEF RedemptionsInv
<1>. QED
  BY <1>2, <1>3, <1>4, Zenon

LEMMA RedemptionsServeLoad ==
    ASSUME RedemptionsInv, NEW q \in redemptionsCalls, Redemptions!ServeLoad(q)
    PROVE  RedemptionsInv'
<1>. DEFINE full == [at |-> "ok", all |-> Redemptions!CampaignsOf(q.env),
                     usable |-> Redemptions!CampaignsOf(q.env) \ redemptionsArchived]
            rows == [at |-> "ok", rows |-> {i \in DOMAIN redemptions : redemptions[i].campaign \in Redemptions!CampaignsOf(q.env)}]
<1>1. /\ Redemptions!Answer(q, IF q.kind = "campaigns" THEN full ELSE rows)
      /\ UNCHANGED <<redemptionsClicks, redemptionsShown, burned, redemptionsArchived, redemptionsEnv,
                     redemptionsCampaigns, redeem, campID, redemptionsAstray>>
  BY Zenon DEF Redemptions!ServeLoad, Redemptions!api, Redemptions!page, Redemptions!form
<1>2. full.usable = Redemptions!CampaignsOf(q.env) \ redemptionsArchived
  OBVIOUS
<1>. HIDE DEF full, rows
<1>3. PICK a : a = (IF q.kind = "campaigns" THEN full ELSE rows)
  OBVIOUS
<1>4. q.kind = "campaigns" /\ a.at = "ok" =>
         /\ a.usable \subseteq Redemptions!CampaignsOf(q.env)
         /\ Redemptions!CampaignsOf(q.env) \ redemptionsArchived \subseteq a.usable
  BY <1>2, <1>3, Zenon
<1>5. Redemptions!Answer(q, a)
  BY <1>1, <1>3, Zenon
<1>6. \A d \in redemptionsCalls' :
         \/ d \in redemptionsCalls
         \/ /\ RedemptionCall(d, redemptionsArchived, redemptionsClicks)
            /\ ~ redemptionsAstray =>
                  (d.kind # "redeem" => d.env = redemptionsEnv) /\ WasShown(d, redemptionsArchived, redemptionsShown)
  BY <1>4, <1>5, RedemptionsAnswer, Zenon
<1>7. redemptionsCampaigns.usable \subseteq ShopCampaigns
  BY Zenon DEF RedemptionsInv
<1>8. ~ redemptionsAstray /\ redeem /\ campID \in Redemptions!CampaignsOf(redemptionsEnv) \ redemptionsArchived =>
         campID \in redemptionsCampaigns.usable
  BY Zenon DEF RedemptionsInv
<1>. QED
  BY <1>1, <1>6, <1>7, <1>8, RedemptionsRest, Zenon

\* The code that burns was sent from the campaign on screen: it is not archived.
LEMMA RedemptionsServeRedeem ==
    ASSUME RedemptionsInv, NEW q \in redemptionsCalls, Redemptions!ServeRedeem(q)
    PROVE  RedemptionsInv'
<1>1. /\ q.kind = "redeem"
      /\ UNCHANGED <<redemptionsClicks, redemptionsShown, redemptionsArchived, redemptionsEnv,
                     redemptionsCampaigns, redeem, campID, redemptionsAstray>>
      /\ \E a : Redemptions!Answer(q, a)
      /\ burned' = burned \/ (Redemptions!Admitted(q) /\ Redemptions!Burn(q))
  BY Zenon DEF Redemptions!ServeRedeem, Redemptions!page, Redemptions!form
<1>2. "redeem" # "campaigns" /\ "redeem" # "redemptions"
  BY SMT
<1>3. \A d \in redemptionsCalls' :
         \/ d \in redemptionsCalls
         \/ /\ RedemptionCall(d, redemptionsArchived, redemptionsClicks)
            /\ ~ redemptionsAstray =>
                  (d.kind # "redeem" => d.env = redemptionsEnv) /\ WasShown(d, redemptionsArchived, redemptionsShown)
  BY <1>1, <1>2, RedemptionsAnswer, Zenon
<1>4. CASE burned' = burned
  <2>1. redemptionsCampaigns.usable \subseteq ShopCampaigns
    BY Zenon DEF RedemptionsInv
  <2>2. ~ redemptionsAstray /\ redeem /\ campID \in Redemptions!CampaignsOf(redemptionsEnv) \ redemptionsArchived =>
           campID \in redemptionsCampaigns.usable
    BY Zenon DEF RedemptionsInv
  <2>. QED
    BY <1>1, <1>3, <1>4, <2>1, <2>2, RedemptionsRest, Zenon
<1>5. CASE Redemptions!Admitted(q) /\ Redemptions!Burn(q)
  <2>. DEFINE b == [campaign |-> q.campaign, code |-> q.code, by |-> q.n]
  <2>1. burned' = burned \cup {b}
    BY <1>5, Zenon DEF Redemptions!Burn
  <2>2. b.campaign = q.campaign /\ b.by = q.n
    OBVIOUS
  <2>. HIDE DEF b
  <2>3. q.n \in 1..redemptionsClicks
    BY <1>1, <1>2, Zenon DEF RedemptionsInv, RedemptionCall
  <2>4. ~ redemptionsAstray => b.campaign = redemptionsShown[b.by]
    BY <1>1, <1>5, <2>2, Zenon DEF RedemptionsInv, WasShown, Redemptions!Admitted
  <2>5. \A x \in burned' : x.by \in 1..redemptionsClicks
    BY <2>1, <2>2, <2>3, Zenon DEF RedemptionsInv
  <2>6. Redemptions!BurnsWhatWasShown'
    BY <1>1, <2>1, <2>4, Zenon DEF RedemptionsInv, Redemptions!BurnsWhatWasShown
  <2>7. \A d \in redemptionsCalls' :
           /\ RedemptionCall(d, redemptionsArchived, redemptionsClicks)
           /\ ~ redemptionsAstray =>
                 (d.kind # "redeem" => d.env = redemptionsEnv) /\ WasShown(d, redemptionsArchived, redemptionsShown)
    BY <1>3, Zenon DEF RedemptionsInv
  <2>. QED
    BY <1>1, <2>5, <2>6, <2>7, Zenon DEF RedemptionsInv
<1>. QED
  BY <1>1, <1>4, <1>5, Zenon

\* A list that arrives offers the choice that the form holds, if it is one.
LEMMA RedemptionsListed ==
    ASSUME RedemptionsInv, NEW q \in redemptionsCalls, Redemptions!Listed(q)
    PROVE  RedemptionsInv'
<1>1. /\ q.kind # "redeem" /\ q.answer.at = "ok" /\ redemptionsCalls' = redemptionsCalls \ {q}
      /\ UNCHANGED <<redemptionsClicks, redemptionsShown, burned, redemptionsArchived, redemptionsEnv,
                     redeem, campID, redemptionsAstray>>
  BY Zenon DEF Redemptions!Listed, Redemptions!api, Redemptions!form
<1>2. /\ redemptionsCampaigns.usable \subseteq ShopCampaigns
      /\ ~ redemptionsAstray /\ redeem /\ campID \in Redemptions!CampaignsOf(redemptionsEnv) \ redemptionsArchived =>
            campID \in redemptionsCampaigns.usable
  BY Zenon DEF RedemptionsInv
<1>3. /\ redemptionsCampaigns'.usable \subseteq ShopCampaigns
      /\ ~ redemptionsAstray /\ redeem /\ campID \in Redemptions!CampaignsOf(redemptionsEnv) \ redemptionsArchived =>
            campID \in redemptionsCampaigns'.usable
  <2>1. CASE q.kind = "campaigns"
    <3>1. redemptionsCampaigns' = [all |-> q.answer.all, usable |-> q.answer.usable]
      BY <2>1, Zenon DEF Redemptions!Listed
    <3>2. redemptionsCampaigns'.usable = q.answer.usable
      BY <3>1
    <3>3. Offers(q, redemptionsArchived)
      BY <1>1, Zenon DEF RedemptionsInv, RedemptionCall
    <3>4. ~ redemptionsAstray => q.env = redemptionsEnv
      BY <1>1, Zenon DEF RedemptionsInv
    <3>. QED
      BY <1>1, <2>1, <3>2, <3>3, <3>4, CampaignsOfShop, Zenon DEF Offers
  <2>2. CASE q.kind # "campaigns"
    BY <1>2, <2>2, Zenon DEF Redemptions!Listed
  <2>. QED
    BY <2>1, <2>2
<1>. QED
  BY <1>1, <1>3, RedemptionsRest, Zenon

\* A load asks anew; it is astray if a list was under way.
LEMMA LoadAsks ==
    ASSUME NEW e, NEW D, Redemptions!Load(e, D)
    PROVE  /\ redemptionsAstray => redemptionsAstray'
           /\ ~ redemptionsAstray' => \A q \in D : q.kind = "redeem"
           /\ \A q \in redemptionsCalls' :
                 \/ q \in D
                 \/ /\ RedemptionCall(q, redemptionsArchived, redemptionsClicks) /\ q.env = e
                    /\ WasShown(q, redemptionsArchived, redemptionsShown)
BY ListsAsked, Zenon DEF Redemptions!Load

\* What RedemptionsRest asks for of a step that leaves lists and choice alone.
LEMMA RedemptionsStay ==
    RedemptionsInv =>
      /\ redemptionsCampaigns.usable \subseteq ShopCampaigns
      /\ ~ redemptionsAstray /\ redeem /\ campID \in Redemptions!CampaignsOf(redemptionsEnv) \ redemptionsArchived =>
            campID \in redemptionsCampaigns.usable
BY Zenon DEF RedemptionsInv

LEMMA RedemptionsSetEnv ==
    ASSUME RedemptionsInv, NEW e, Redemptions!SetEnv(e)
    PROVE  RedemptionsInv'
<1>1. /\ ~ redeem /\ redemptionsEnv' = e /\ Redemptions!Load(e, redemptionsCalls)
      /\ UNCHANGED <<redemptionsClicks, redemptionsShown, burned, redemptionsArchived, redemptionsCampaigns, redeem, campID>>
  BY Zenon DEF Redemptions!SetEnv, Redemptions!api, Redemptions!form
<1>2. \A q \in redemptionsCalls' :
         \/ q \in redemptionsCalls
         \/ /\ RedemptionCall(q, redemptionsArchived, redemptionsClicks) /\ q.env = e
            /\ WasShown(q, redemptionsArchived, redemptionsShown)
  BY <1>1, LoadAsks, Zenon
<1>3. (redemptionsAstray => redemptionsAstray') /\ (~ redemptionsAstray' => \A q \in redemptionsCalls : q.kind = "redeem")
  BY <1>1, LoadAsks, Zenon
<1>. QED
  BY <1>1, <1>2, <1>3, RedemptionsStay, RedemptionsRest, Zenon

LEMMA RedemptionsRedeemed ==
    ASSUME RedemptionsInv, NEW d \in redemptionsCalls, Redemptions!Redeemed(d)
    PROVE  RedemptionsInv'
<1>1. /\ ~ redeem' /\ Redemptions!Load(redemptionsEnv, redemptionsCalls \ {d})
      /\ UNCHANGED <<redemptionsClicks, redemptionsShown, burned, redemptionsArchived, redemptionsEnv,
                     redemptionsCampaigns, campID>>
  BY Zenon DEF Redemptions!Redeemed, Redemptions!Done, Redemptions!api, Redemptions!page
<1>2. \A q \in redemptionsCalls' :
         \/ q \in redemptionsCalls
         \/ /\ RedemptionCall(q, redemptionsArchived, redemptionsClicks) /\ q.env = redemptionsEnv
            /\ WasShown(q, redemptionsArchived, redemptionsShown)
  BY <1>1, LoadAsks, Zenon
<1>3. redemptionsAstray => redemptionsAstray'
  BY <1>1, LoadAsks, Zenon
<1>. QED
  BY <1>1, <1>2, <1>3, RedemptionsStay, RedemptionsRest, Zenon

\* The form opens with a choice of the list it has by then, or with none.
LEMMA RedemptionsOpen ==
    ASSUME RedemptionsInv, Redemptions!OpenRedeem
    PROVE  RedemptionsInv'
<1>1. /\ campID' = Redemptions!First
      /\ UNCHANGED <<redemptionsClicks, redemptionsShown, burned, redemptionsArchived, redemptionsEnv,
                     redemptionsCampaigns, redemptionsCalls, redemptionsAstray>>
  BY Zenon DEF Redemptions!OpenRedeem, Redemptions!api, Redemptions!page
<1>2. 0 \notin Redemptions!CampaignsOf(redemptionsEnv)
  BY CampaignsOfShop, ShopAssume
<1>3. Redemptions!First # 0 => Redemptions!First \in redemptionsCampaigns.usable
  BY RedemptionsStay, FirstIsUsable, Zenon
<1>4. campID' \in Redemptions!CampaignsOf(redemptionsEnv) \ redemptionsArchived => campID' \in redemptionsCampaigns.usable
  BY <1>1, <1>2, <1>3, Zenon
<1>. QED
  BY <1>1, <1>4, RedemptionsStay, RedemptionsRest, Zenon

LEMMA RedemptionsKept ==
    RedemptionsInv /\ (Redemptions!Next \/ UNCHANGED redemptionsVars) => RedemptionsInv'
<1>. SUFFICES ASSUME RedemptionsInv, Redemptions!Next \/ UNCHANGED redemptionsVars
              PROVE  RedemptionsInv'
  OBVIOUS
<1>1. CASE UNCHANGED redemptionsVars
  BY <1>1, RedemptionsStay, RedemptionsRest, Zenon DEF redemptionsVars
<1>2. ASSUME NEW x \in Redemptions!AllCampaigns, Redemptions!Archive(x)
      PROVE  RedemptionsInv'
  <2>1. /\ redemptionsArchived \subseteq redemptionsArchived'
        /\ UNCHANGED <<redemptionsClicks, redemptionsShown, burned, redemptionsEnv, redemptionsCampaigns,
                       redemptionsCalls, redeem, campID, redemptionsAstray>>
    BY <1>2, Zenon DEF Redemptions!Archive, Redemptions!page, Redemptions!form
  <2>. QED
    BY <2>1, RedemptionsStay, RedemptionsRest, Zenon
<1>3. ASSUME NEW x \in Redemptions!AllCampaigns, Redemptions!Choose(x)
      PROVE  RedemptionsInv'
  <2>1. /\ campID' = x /\ x \in redemptionsCampaigns.usable
        /\ UNCHANGED <<redemptionsClicks, redemptionsShown, burned, redemptionsArchived, redemptionsEnv,
                       redemptionsCampaigns, redemptionsCalls, redemptionsAstray>>
    BY <1>3, Zenon DEF Redemptions!Choose, Redemptions!api, Redemptions!page
  <2>. QED
    BY <2>1, RedemptionsStay, RedemptionsRest, Zenon
<1>4. CASE Redemptions!CloseRedeem
  <2>1. /\ redeem' = FALSE
        /\ UNCHANGED <<redemptionsClicks, redemptionsShown, burned, redemptionsArchived, redemptionsEnv,
                       redemptionsCampaigns, redemptionsCalls, redemptionsAstray>>
    BY <1>4, Zenon DEF Redemptions!CloseRedeem, Redemptions!api, Redemptions!page
  <2>. QED
    BY <2>1, RedemptionsStay, RedemptionsRest, Zenon
<1>5. ASSUME NEW q \in redemptionsCalls, Redemptions!Fails(q)
      PROVE  RedemptionsInv'
  <2>1. UNCHANGED <<redemptionsClicks, redemptionsShown, burned, redemptionsArchived, redemptionsEnv,
                    redemptionsCampaigns, redeem, campID>>
    BY <1>5, Zenon DEF Redemptions!Fails, Redemptions!api, Redemptions!page
  <2>2. redemptionsCalls' = redemptionsCalls \ {q} /\ (redemptionsAstray => redemptionsAstray')
    BY <1>5, Zenon DEF Redemptions!Fails
  <2>. QED
    BY <2>1, <2>2, RedemptionsStay, RedemptionsRest, Zenon
<1>. QED
  BY <1>1, <1>2, <1>3, <1>4, <1>5, RedemptionsSetEnv, RedemptionsOpen, RedeemKeeps, RedemptionsServeLoad,
     RedemptionsServeRedeem, RedemptionsListed, RedemptionsRedeemed, Zenon DEF Redemptions!Next

LEMMA RedemptionsTell == RedemptionsInv => Redemptions!BurnsWhatWasShown
BY Zenon DEF RedemptionsInv

-----------------------------------------------------------------------------
\* Secrets: a form makes one key or endpoint.

SecretsItem == [env : Secrets!Envs, form : Nat, live : BOOLEAN]

ClickFields(q) ==
    q = [kind |-> q.kind, n |-> q.n, env |-> q.env, id |-> q.id, form |-> q.form, checked |-> q.checked, answer |-> q.answer]

Creates(q) == q.kind = "create"
MadeIt(q) == q.answer.at = "ok"

\* A list, or a click from a form up to the k-th; what was made has an id.
SecretCall(q, k) ==
    /\ q.env \in Secrets!Envs
    /\ \/ q.kind = "list" /\ RowsFields(q)
       \/ q.kind # "list" /\ ClickFields(q) /\ q.form \in 0..k
    /\ Creates(q) /\ MadeIt(q) => q.answer.id \in Nat \ {0}

\* The k-th form was sent once, and its request, in C, is the only one that creates;
\* what it made is in its, and it shows that in id or will.
SentOnce(C, its, k, id, waits) ==
    /\ \A p, q \in C : Creates(p) /\ Creates(q) => p = q
    /\ \A q \in C : Creates(q) => waits /\ (~ MadeIt(q) => \A i \in DOMAIN its : its[i].form # k)
    /\ id = 0 /\ (\E i \in DOMAIN its : its[i].form = k) => \E q \in C : Creates(q) /\ MadeIt(q)

\* Every request that creates is of the form that is open.
OfOpenForm(C, k, is) == \A q \in C : Creates(q) => is /\ q.form = k

SecretsInv ==
    /\ items \in Seq(SecretsItem) /\ secretsForm \in Nat /\ secretsEnv \in Secrets!Envs
    /\ \A q \in secretsCalls : SecretCall(q, secretsForm)
    /\ \A i \in DOMAIN items : items[i].form \in 0..secretsForm
    /\ ~ secretsAstray =>
          /\ OfOpenForm(secretsCalls, secretsForm, create)
          /\ create /\ secretsForm \notin twice => SentOnce(secretsCalls, items, secretsForm, created, secretsBusy)
    /\ Secrets!OnePerForm

LEMMA SecretAnswered ==
    ASSUME NEW q, NEW k, SecretCall(q, k), NEW a, Creates(q) /\ a.at = "ok" => a.id \in Nat \ {0}
    PROVE  LET r == [q EXCEPT !.answer = a]
           IN  /\ SecretCall(r, k) /\ (Creates(r) <=> Creates(q)) /\ r.answer = a /\ r.kind = q.kind
               /\ Creates(q) => r.form = q.form
<1>. DEFINE r == [q EXCEPT !.answer = a]
<1>1. CASE q.kind = "list" /\ RowsFields(q)
  <2>1. RowsFields(r) /\ r.kind = "list" /\ r.answer = a /\ r.env = q.env
    BY <1>1, SMTT(30) DEF RowsFields
  <2>2. "list" # "create"
    BY SMT
  <2>. HIDE DEF r
  <2>3. /\ SecretCall(r, k) /\ (Creates(r) <=> Creates(q)) /\ r.answer = a /\ r.kind = q.kind
        /\ Creates(q) => r.form = q.form
    BY <1>1, <2>1, <2>2, Zenon DEF SecretCall, Creates
  <2>. QED
    BY <2>3, Zenon DEF r
<1>2. CASE q.kind # "list" /\ ClickFields(q) /\ q.form \in 0..k
  <2>1. ClickFields(r) /\ r.kind = q.kind /\ r.answer = a /\ r.env = q.env /\ r.form = q.form
    BY <1>2, SMTT(30) DEF ClickFields
  <2>. HIDE DEF r
  <2>2. Creates(r) /\ MadeIt(r) => r.answer.id \in Nat \ {0}
    BY <2>1, Zenon DEF Creates, MadeIt
  <2>3. /\ SecretCall(r, k) /\ (Creates(r) <=> Creates(q)) /\ r.answer = a /\ r.kind = q.kind
        /\ Creates(q) => r.form = q.form
    BY <1>2, <2>1, <2>2, Zenon DEF SecretCall, Creates
  <2>. QED
    BY <2>3, Zenon DEF r
<1>. QED
  BY <1>1, <1>2, Zenon DEF SecretCall

\* A list is asked for.
LEMMA ListCall ==
    ASSUME NEW x, NEW e \in Secrets!Envs, NEW k
    PROVE  LET q == [kind |-> "list", n |-> x, env |-> e, answer |-> Secrets!Sent]
           IN  SecretCall(q, k) /\ ~ Creates(q)
<1>. DEFINE q == [kind |-> "list", n |-> x, env |-> e, answer |-> Secrets!Sent]
<1>1. RowsFields(q) /\ q.kind = "list" /\ q.env = e /\ q.answer = Secrets!Sent
  BY SMT DEF RowsFields
<1>2. "list" # "create"
  BY SMT
<1>. HIDE DEF q
<1>3. SecretCall(q, k) /\ ~ Creates(q)
  BY <1>1, <1>2, Zenon DEF SecretCall, Creates
<1>. QED
  BY <1>3, Zenon DEF q

LEMMA SecretsLoad ==
    ASSUME secretsEnv \in Secrets!Envs, NEW e \in Secrets!Envs, NEW D, Secrets!Load(e, D), NEW k
    PROVE  D \subseteq secretsCalls' /\ \A q \in secretsCalls' : q \in D \/ (SecretCall(q, k) /\ ~ Creates(q))
<1>. DEFINE x == secretsLoads + 1
            q == [Secrets!List(x) EXCEPT !.env = e]
<1>1. secretsCalls' = D \cup {q}
  BY Zenon DEF Secrets!Load
<1>2. q = [kind |-> "list", n |-> x, env |-> e, answer |-> Secrets!Sent]
  <2>. HIDE DEF x
  <2>. QED
    BY SMTT(30) DEF Secrets!List
<1>. HIDE DEF q, x
<1>3. SecretCall(q, k) /\ ~ Creates(q)
  BY <1>2, ListCall, Zenon
<1>. QED
  BY <1>1, <1>3, Zenon

LEMMA SecretsBegin == Secrets!Init => SecretsInv
<1>. SUFFICES ASSUME Secrets!Init PROVE SecretsInv
  OBVIOUS
<1>1. /\ items = <<>> /\ secretsEnv = "test" /\ ~ create /\ secretsForm = 0
      /\ secretsCalls = {Secrets!List(0)}
  BY Zenon DEF Secrets!Init
<1>2. items \in Seq(SecretsItem) /\ DOMAIN items = {} /\ secretsForm \in Nat
  BY <1>1
<1>3. "test" \in Secrets!Envs
  BY DEF Secrets!Envs
<1>4. SecretCall(Secrets!List(0), secretsForm) /\ ~ Creates(Secrets!List(0))
  BY <1>1, <1>3, ListCall, Zenon DEF Secrets!List
<1>. QED
  BY <1>1, <1>2, <1>3, <1>4, Zenon DEF SecretsInv, OfOpenForm, Secrets!OnePerForm

\* What is made, shown and spinning stays; only lists, ends and tests are asked for,
\* answered or dropped.
LEMMA SecretsRest ==
    ASSUME SecretsInv, UNCHANGED <<items, create, secretsForm, created, secretsBusy, twice>>,
           secretsEnv' \in Secrets!Envs, secretsAstray => secretsAstray',
           \A q \in secretsCalls' : q \in secretsCalls \/ (SecretCall(q, secretsForm) /\ ~ Creates(q)),
           \A q \in secretsCalls : Creates(q) => q \in secretsCalls'
    PROVE  SecretsInv'
<1>1. \A q \in secretsCalls' : SecretCall(q, secretsForm')
  BY Zenon DEF SecretsInv
<1>2. ASSUME ~ secretsAstray'
      PROVE  /\ OfOpenForm(secretsCalls', secretsForm', create')
             /\ create' /\ secretsForm' \notin twice' => SentOnce(secretsCalls', items', secretsForm', created', secretsBusy')
  <2>1. /\ OfOpenForm(secretsCalls, secretsForm, create)
        /\ create /\ secretsForm \notin twice => SentOnce(secretsCalls, items, secretsForm, created, secretsBusy)
    BY <1>2, Zenon DEF SecretsInv
  <2>2. \A q \in secretsCalls' : Creates(q) => q \in secretsCalls
    OBVIOUS
  <2>3. OfOpenForm(secretsCalls', secretsForm', create')
    BY <2>1, <2>2, Zenon DEF OfOpenForm
  <2>4. ASSUME create, secretsForm \notin twice
        PROVE  SentOnce(secretsCalls', items', secretsForm', created', secretsBusy')
    BY <2>1, <2>2, <2>4, Zenon DEF SentOnce
  <2>. QED
    BY <2>3, <2>4, Zenon
<1>3. Secrets!OnePerForm'
  BY Zenon DEF SecretsInv, Secrets!OnePerForm
<1>4. /\ items' \in Seq(SecretsItem) /\ secretsForm' \in Nat /\ secretsEnv' \in Secrets!Envs
      /\ \A i \in DOMAIN items' : items'[i].form \in 0..secretsForm'
  BY Zenon DEF SecretsInv
<1>. QED
  BY <1>1, <1>2, <1>3, <1>4, Zenon DEF SecretsInv

\* The answer to a request that creates nothing.
LEMMA SecretsOther ==
    ASSUME SecretsInv, NEW q \in secretsCalls, ~ Creates(q), NEW a, Secrets!Answered(q, a),
           UNCHANGED <<items, create, secretsForm, created, secretsBusy, twice, secretsEnv, secretsAstray>>
    PROVE  SecretsInv'
<1>. DEFINE r == [q EXCEPT !.answer = a]
<1>1. SecretCall(q, secretsForm) /\ secretsEnv \in Secrets!Envs
  BY Zenon DEF SecretsInv
<1>2. SecretCall(r, secretsForm) /\ ~ Creates(r)
  BY <1>1, SecretAnswered, Zenon
<1>3. secretsCalls' = (secretsCalls \ {q}) \cup {r}
  BY Zenon DEF Secrets!Answered
<1>. HIDE DEF r
<1>4. \A d \in secretsCalls' : d \in secretsCalls \/ (SecretCall(d, secretsForm) /\ ~ Creates(d))
  BY <1>2, <1>3, Zenon
<1>5. \A d \in secretsCalls : Creates(d) => d \in secretsCalls'
  BY <1>3, Zenon
<1>. QED
  BY <1>1, <1>4, <1>5, SecretsRest, Zenon

\* A form is served: it is refused, or makes the next item.
LEMMA SecretsServed ==
    ASSUME SecretsInv, NEW q \in secretsCalls, Creates(q), q.answer = Secrets!Sent, NEW a, Secrets!Answered(q, a),
           \/ a.at # "ok" /\ items' = items
           \/ /\ a.at = "ok" /\ a.id = Len(items) + 1
              /\ items' = Append(items, [env |-> q.env, form |-> q.form, live |-> TRUE]),
           UNCHANGED <<create, secretsForm, created, secretsBusy, twice, secretsEnv, secretsAstray>>
    PROVE  SecretsInv'
<1>. DEFINE r == [q EXCEPT !.answer = a]
            w == [env |-> q.env, form |-> q.form, live |-> TRUE]
<1>1. /\ SecretCall(q, secretsForm) /\ items \in Seq(SecretsItem)
      /\ \A d \in secretsCalls : SecretCall(d, secretsForm)
  BY Zenon DEF SecretsInv
<1>2. q.form \in 0..secretsForm /\ q.env \in Secrets!Envs
  <2>1. "list" # "create"
    BY SMT
  <2>. QED
    BY <1>1, <2>1, Zenon DEF SecretCall, Creates
<1>3. Len(items) \in Nat /\ DOMAIN items = 1..Len(items) /\ secretsForm \in Nat
  BY <1>1, LenProperties, Zenon DEF SecretsInv
<1>4. a.at = "ok" => a.id \in Nat \ {0}
  BY <1>3
<1>5. SecretCall(r, secretsForm) /\ Creates(r) /\ r.answer = a /\ r.form = q.form
  BY <1>1, <1>4, SecretAnswered, Zenon
<1>6. secretsCalls' = (secretsCalls \ {q}) \cup {r}
  BY Zenon DEF Secrets!Answered
<1>7. ~ MadeIt(q)
  BY SMT DEF MadeIt, Secrets!Sent
<1>8. w \in SecretsItem /\ w.form = q.form
  BY <1>2, <1>3, SMT DEF SecretsItem
<1>. HIDE DEF r, w
\* What there was stays; what is new is of the form that asked.
<1>9. /\ items' \in Seq(SecretsItem) /\ DOMAIN items \subseteq DOMAIN items'
      /\ \A i \in DOMAIN items : items'[i] = items[i]
      /\ \A i \in DOMAIN items' : i \in DOMAIN items \/ (a.at = "ok" /\ i = Len(items) + 1 /\ items'[i].form = q.form)
  <2>1. CASE items' = items
    BY <1>1, <2>1, Zenon
  <2>2. CASE a.at = "ok" /\ items' = Append(items, w)
    <3>1. items' \in Seq(SecretsItem) /\ DOMAIN items' = 1..(Len(items) + 1)
      BY <1>1, <1>3, <1>8, <2>2, AppendProperties, LenProperties
    <3>2. \A i \in 1..Len(items) : items'[i] = items[i]
      BY <1>1, <1>8, <2>2, AppendProperties
    <3>3. items'[Len(items) + 1] = w
      BY <1>1, <1>8, <2>2, AppendProperties
    <3>. QED
      BY <1>3, <1>8, <2>2, <3>1, <3>2, <3>3
  <2>. QED
    BY <2>1, <2>2, Zenon DEF w
<1>10. \A d \in secretsCalls' : SecretCall(d, secretsForm')
  BY <1>1, <1>5, <1>6, Zenon
<1>11. \A i \in DOMAIN items' : items'[i].form \in 0..secretsForm'
  BY <1>2, <1>9, Zenon DEF SecretsInv
<1>12. ASSUME ~ secretsAstray' PROVE OfOpenForm(secretsCalls', secretsForm', create')
  BY <1>5, <1>6, <1>12, Zenon DEF SecretsInv, OfOpenForm
<1>13. ASSUME ~ secretsAstray PROVE create /\ q.form = secretsForm
  BY <1>13, Zenon DEF SecretsInv, OfOpenForm
<1>14. ASSUME ~ secretsAstray', create', secretsForm' \notin twice'
       PROVE  SentOnce(secretsCalls', items', secretsForm', created', secretsBusy')
  <2>1. SentOnce(secretsCalls, items, secretsForm, created, secretsBusy)
    BY <1>14, Zenon DEF SecretsInv
  <2>2. /\ \A p \in secretsCalls : Creates(p) => p = q
        /\ secretsBusy /\ \A i \in DOMAIN items : items[i].form # secretsForm
    BY <1>7, <2>1, Zenon DEF SentOnce
  <2>3. \A p, d \in secretsCalls' : Creates(p) /\ Creates(d) => p = d
    BY <1>6, <2>2, Zenon
  <2>4. ~ MadeIt(r) => \A i \in DOMAIN items' : items'[i].form # secretsForm
    BY <1>5, <1>9, <2>2, Zenon DEF MadeIt
  <2>5. \A d \in secretsCalls' : Creates(d) => d = r
    BY <1>6, <2>2, Zenon
  <2>6. (\E i \in DOMAIN items' : items'[i].form = secretsForm) => MadeIt(r)
    BY <2>4, Zenon
  <2>7. r \in secretsCalls'
    BY <1>6, Zenon
  <2>. QED
    BY <1>5, <2>2, <2>3, <2>4, <2>5, <2>6, <2>7, Zenon DEF SentOnce
<1>15. Secrets!OnePerForm'
  <2>. SUFFICES ASSUME ~ secretsAstray, NEW i \in DOMAIN items', NEW j \in DOMAIN items', i # j,
                       items'[i].form = items'[j].form, items'[i].form \notin twice
                PROVE  FALSE
    BY Zenon DEF Secrets!OnePerForm
  <2>1. CASE i \in DOMAIN items /\ j \in DOMAIN items
    BY <1>9, <2>1, Zenon DEF SecretsInv, Secrets!OnePerForm
  <2>2. CASE ~ (i \in DOMAIN items /\ j \in DOMAIN items)
    <3>1. items'[i].form = q.form /\ items'[j].form = q.form /\ ~ (i \notin DOMAIN items /\ j \notin DOMAIN items)
      BY <1>9, <2>2, Zenon
    <3>2. PICK k \in DOMAIN items : items[k].form = q.form
      BY <1>9, <3>1, Zenon
    <3>3. SentOnce(secretsCalls, items, secretsForm, created, secretsBusy)
      BY <1>13, <3>1, Zenon DEF SecretsInv
    <3>. QED
      BY <1>7, <1>13, <3>2, <3>3, Zenon DEF SentOnce
  <2>. QED
    BY <2>1, <2>2
<1>. QED
  BY <1>9, <1>10, <1>11, <1>12, <1>14, <1>15, Zenon DEF SecretsInv

\* An item that is ended is an item of the same form.
LEMMA ItemSet ==
    ASSUME NEW A, NEW B, NEW C, NEW x \in [env : A, form : B, live : C], FALSE \in C
    PROVE  [x EXCEPT !.live = FALSE] \in [env : A, form : B, live : C] /\ [x EXCEPT !.live = FALSE].form = x.form
<1>1. ASSUME NEW b \in C
      PROVE  [x EXCEPT !.live = b] \in [env : A, form : B, live : C] /\ [x EXCEPT !.live = b].form = x.form
  OBVIOUS
<1>. QED
  BY <1>1, Zenon

\* An end changes no form.
LEMMA SecretsEnded ==
    ASSUME SecretsInv, NEW q \in secretsCalls, ~ Creates(q), NEW a, Secrets!Answered(q, a),
           NEW k \in DOMAIN items, items' = [items EXCEPT ![k].live = FALSE],
           UNCHANGED <<create, secretsForm, created, secretsBusy, twice, secretsEnv, secretsAstray>>
    PROVE  SecretsInv'
<1>. DEFINE r == [q EXCEPT !.answer = a]
<1>1. /\ SecretCall(q, secretsForm) /\ items \in Seq(SecretsItem)
      /\ \A d \in secretsCalls : SecretCall(d, secretsForm)
  BY Zenon DEF SecretsInv
<1>2. SecretCall(r, secretsForm) /\ ~ Creates(r)
  BY <1>1, SecretAnswered, Zenon
<1>3. secretsCalls' = (secretsCalls \ {q}) \cup {r}
  BY Zenon DEF Secrets!Answered
<1>. HIDE DEF r
<1>4. items' \in Seq(SecretsItem) /\ DOMAIN items' = DOMAIN items /\ \A i \in DOMAIN items' : items'[i].form = items[i].form
  <2>. DEFINE x == items[k]
              y == [x EXCEPT !.live = FALSE]
  <2>1. Len(items) \in Nat /\ DOMAIN items = 1..Len(items) /\ items \in [1..Len(items) -> SecretsItem]
    BY <1>1, LenProperties, Zenon
  <2>2. x \in SecretsItem
    BY <2>1, Zenon
  <2>4. items' = [items EXCEPT ![k] = y]
    BY Zenon
  <2>. HIDE DEF x
  <2>3. y \in SecretsItem /\ y.form = x.form
    BY <2>2, ItemSet, Zenon DEF SecretsItem
  <2>. HIDE DEF y
  <2>5. items' \in [1..Len(items) -> SecretsItem]
    BY <2>1, <2>3, <2>4
  <2>6. items' \in Seq(SecretsItem)
    <3>1. \A n \in Nat : [1..n -> SecretsItem] \subseteq Seq(SecretsItem)
      BY SeqDef, Zenon
    <3>. QED
      BY <2>1, <2>5, <3>1, Zenon
  <2>7. \A i \in DOMAIN items : items'[i] = IF i = k THEN y ELSE items[i]
    BY <2>1, <2>4, Zenon
  <2>8. x.form = items[k].form
    BY DEF x
  <2>. QED
    BY <2>1, <2>3, <2>5, <2>6, <2>7, <2>8, Zenon
<1>5. \A d \in secretsCalls' : SecretCall(d, secretsForm')
  BY <1>1, <1>2, <1>3, Zenon
<1>6. ASSUME ~ secretsAstray'
      PROVE  /\ OfOpenForm(secretsCalls', secretsForm', create')
             /\ create' /\ secretsForm' \notin twice' => SentOnce(secretsCalls', items', secretsForm', created', secretsBusy')
  <2>1. /\ OfOpenForm(secretsCalls, secretsForm, create)
        /\ create /\ secretsForm \notin twice => SentOnce(secretsCalls, items, secretsForm, created, secretsBusy)
    BY <1>6, Zenon DEF SecretsInv
  <2>2. \A d : Creates(d) => (d \in secretsCalls' <=> d \in secretsCalls)
    BY <1>2, <1>3, Zenon
  <2>3. OfOpenForm(secretsCalls', secretsForm', create')
    BY <2>1, <2>2, Zenon DEF OfOpenForm
  <2>4. ASSUME create, secretsForm \notin twice
        PROVE  SentOnce(secretsCalls', items', secretsForm', created', secretsBusy')
    BY <1>4, <2>1, <2>2, <2>4, Zenon DEF SentOnce
  <2>. QED
    BY <2>3, <2>4, Zenon
<1>7. Secrets!OnePerForm'
  <2>1. PICK T : T = items'
    OBVIOUS
  <2>2. DOMAIN T = DOMAIN items /\ \A i \in DOMAIN T : T[i].form = items[i].form
    BY <1>4, <2>1, Zenon
  <2>3. ~ secretsAstray => \A i, j \in DOMAIN T : T[i].form = T[j].form /\ i # j => T[i].form \in twice
    BY <2>2, Zenon DEF SecretsInv, Secrets!OnePerForm
  <2>4. twice' = twice /\ secretsAstray' = secretsAstray
    OBVIOUS
  <2>5. ~ secretsAstray' => \A i, j \in DOMAIN items' : items'[i].form = items'[j].form /\ i # j => items'[i].form \in twice'
    BY ONLY <2>1, <2>3, <2>4, Zenon
  <2>. QED
    BY ONLY <2>5, Zenon DEF Secrets!OnePerForm
<1>9. \A i \in DOMAIN items' : items'[i].form \in 0..secretsForm'
  BY <1>4, Zenon DEF SecretsInv
<1>8. secretsForm' \in Nat /\ secretsEnv' \in Secrets!Envs
  BY Zenon DEF SecretsInv
<1>. QED
  BY <1>4, <1>5, <1>6, <1>7, <1>8, <1>9, Zenon DEF SecretsInv

LEMMA SecretsServe ==
    ASSUME SecretsInv, NEW q \in secretsCalls, Secrets!Serve(q)
    PROVE  SecretsInv'
<1>1. /\ q.answer = Secrets!Sent
      /\ UNCHANGED <<create, secretsForm, created, secretsBusy, twice, secretsEnv, secretsAstray>>
  BY Zenon DEF Secrets!Serve, Secrets!modal
<1>2. "list" # "create" /\ "end" # "create" /\ "test" # "create" /\ Secrets!Refused.at # "ok"
  BY SMT DEF Secrets!Refused
<1>3. ASSUME ~ Creates(q), items' = items, NEW a, Secrets!Answered(q, a) PROVE SecretsInv'
  BY <1>1, <1>3, SecretsOther, Zenon
<1>4. CASE q.kind = "list" /\ Secrets!Answered(q, Secrets!View(q.env)) /\ UNCHANGED items
  BY <1>2, <1>3, <1>4, Zenon DEF Creates
<1>5. CASE /\ q.kind = "create" /\ items' = Append(items, [env |-> q.env, form |-> q.form, live |-> TRUE])
           /\ Secrets!Answered(q, [at |-> "ok", id |-> Len(items) + 1])
  <2>1. PICK a : a = [at |-> "ok", id |-> Len(items) + 1]
    OBVIOUS
  <2>2. a.at = "ok" /\ a.id = Len(items) + 1
    BY <2>1
  <2>3. Secrets!Answered(q, a) /\ Creates(q)
    BY <1>5, <2>1, Zenon DEF Creates
  <2>. QED
    BY <1>1, <1>5, <2>2, <2>3, SecretsServed, Zenon
<1>6. CASE q.kind = "end" /\ q.id \in Secrets!Live(q.env) /\ items' = [items EXCEPT ![q.id].live = FALSE]
           /\ Secrets!Answered(q, [at |-> "ok"])
  <2>1. q.id \in DOMAIN items
    BY <1>6, Zenon DEF Secrets!Live, Secrets!Reachable
  <2>2. ~ Creates(q)
    BY <1>2, <1>6, Zenon DEF Creates
  <2>. QED
    BY <1>1, <1>6, <2>1, <2>2, SecretsEnded, Zenon
<1>7. CASE q.kind = "test" /\ Secrets!Answered(q, [at |-> "ok"]) /\ UNCHANGED items
  BY <1>2, <1>3, <1>7, Zenon DEF Creates
<1>8. CASE Secrets!Answered(q, Secrets!Refused) /\ UNCHANGED items
  <2>1. CASE Creates(q)
    BY <1>1, <1>2, <1>8, <2>1, SecretsServed, Zenon
  <2>2. CASE ~ Creates(q)
    BY <1>3, <1>8, <2>2, Zenon
  <2>. QED
    BY <2>1, <2>2
<1>. QED
  BY <1>4, <1>5, <1>6, <1>7, <1>8, Zenon DEF Secrets!Serve

\* A form is sent: for the first time, or its number goes to `twice`.
LEMMA SecretsSubmit ==
    ASSUME SecretsInv, NEW e, Secrets!Submit(e)
    PROVE  SecretsInv'
<1>. DEFINE q == [kind |-> "create", n |-> secretsWrites + 1, env |-> secretsEnv, id |-> 0, form |-> secretsForm,
                  checked |-> selected, answer |-> Secrets!Sent]
<1>1. /\ create /\ created = 0 /\ secretsCalls' = secretsCalls \cup {q} /\ secretsBusy'
      /\ twice' = (IF e /\ secretsBusy THEN twice \cup {secretsForm} ELSE twice)
      /\ ~ e => ~ secretsBusy
      /\ UNCHANGED <<items, secretsEnv, create, secretsForm, created, secretsAstray>>
  BY Zenon DEF Secrets!Submit, Secrets!Write, Secrets!MaySend
<1>2. ClickFields(q) /\ Creates(q) /\ q.kind # "list" /\ q.env = secretsEnv /\ q.form = secretsForm /\ ~ MadeIt(q)
  BY SMT DEF ClickFields, Creates, MadeIt, Secrets!Sent
<1>. HIDE DEF q
<1>3. secretsForm \in Nat /\ secretsEnv \in Secrets!Envs /\ items \in Seq(SecretsItem)
  BY Zenon DEF SecretsInv
<1>4. secretsForm \in 0..secretsForm
  BY <1>3
<1>5. SecretCall(q, secretsForm)
  BY <1>2, <1>3, <1>4, Zenon DEF SecretCall
<1>6. \A d \in secretsCalls' : SecretCall(d, secretsForm')
  BY <1>1, <1>5, Zenon DEF SecretsInv
<1>7. ASSUME ~ secretsAstray' PROVE OfOpenForm(secretsCalls', secretsForm', create')
  BY <1>1, <1>2, <1>7, Zenon DEF SecretsInv, OfOpenForm
<1>8. ASSUME ~ secretsAstray', secretsForm' \notin twice'
      PROVE  SentOnce(secretsCalls', items', secretsForm', created', secretsBusy')
  <2>1. secretsForm \notin twice /\ ~ secretsBusy
    BY <1>1, <1>8, Zenon
  <2>2. SentOnce(secretsCalls, items, secretsForm, created, secretsBusy)
    BY <1>1, <1>8, <2>1, Zenon DEF SecretsInv
  <2>3. /\ \A d \in secretsCalls : ~ Creates(d)
        /\ \A i \in DOMAIN items : items[i].form # secretsForm
    BY <1>1, <2>1, <2>2, Zenon DEF SentOnce
  <2>. QED
    BY <1>1, <2>3, Zenon DEF SentOnce
<1>9. Secrets!OnePerForm'
  BY <1>1, Zenon DEF SecretsInv, Secrets!OnePerForm
<1>10. /\ secretsForm' \in Nat /\ secretsEnv' \in Secrets!Envs /\ items' \in Seq(SecretsItem)
       /\ \A i \in DOMAIN items' : items'[i].form \in 0..secretsForm'
  BY <1>1, Zenon DEF SecretsInv
<1>. QED
  BY <1>6, <1>7, <1>8, <1>9, <1>10, Zenon DEF SecretsInv

\* The next form: nothing is of it yet.
LEMMA SecretsOpen == SecretsInv /\ Secrets!Open => SecretsInv'
<1>. SUFFICES ASSUME SecretsInv, Secrets!Open PROVE SecretsInv'
  OBVIOUS
<1>1. /\ ~ create /\ create' /\ secretsForm' = secretsForm + 1 /\ created' = 0 /\ ~ secretsBusy'
      /\ UNCHANGED <<items, secretsEnv, secretsCalls, twice, secretsAstray>>
  BY Zenon DEF Secrets!Open
<1>2. secretsForm' \in Nat /\ secretsForm' \notin 0..secretsForm /\ \A k \in 0..secretsForm : k \in 0..secretsForm'
  <2>1. secretsForm \in Nat
    BY Zenon DEF SecretsInv
  <2>. QED
    BY <1>1, <2>1
<1>3. ASSUME NEW d \in secretsCalls PROVE SecretCall(d, secretsForm')
  <2>1. SecretCall(d, secretsForm)
    BY Zenon DEF SecretsInv
  <2>. QED
    BY <1>2, <2>1, Zenon DEF SecretCall
<1>4. \A i \in DOMAIN items : items[i].form \in 0..secretsForm' /\ items[i].form # secretsForm'
  BY <1>2, Zenon DEF SecretsInv
<1>5. ASSUME ~ secretsAstray PROVE \A d \in secretsCalls : ~ Creates(d)
  BY <1>1, <1>5, Zenon DEF SecretsInv, OfOpenForm
<1>6. ASSUME ~ secretsAstray'
      PROVE  /\ OfOpenForm(secretsCalls', secretsForm', create')
             /\ SentOnce(secretsCalls', items', secretsForm', created', secretsBusy')
  BY <1>1, <1>4, <1>5, <1>6, Zenon DEF OfOpenForm, SentOnce
<1>7. Secrets!OnePerForm' /\ items' \in Seq(SecretsItem) /\ secretsEnv' \in Secrets!Envs
  BY <1>1, Zenon DEF SecretsInv, Secrets!OnePerForm
<1>. QED
  BY <1>1, <1>2, <1>3, <1>4, <1>6, <1>7, Zenon DEF SecretsInv

\* A form that is closed under its request is missed.
LEMMA SecretsClose == SecretsInv /\ Secrets!Close => SecretsInv'
<1>. SUFFICES ASSUME SecretsInv, Secrets!Close PROVE SecretsInv'
  OBVIOUS
<1>1. /\ ~ create' /\ UNCHANGED <<items, secretsEnv, secretsForm, created, secretsBusy, twice>>
      /\ IF created # 0 THEN Secrets!Load(secretsEnv, secretsCalls) ELSE UNCHANGED <<secretsCalls, secretsLoads>>
      /\ secretsAstray' = (secretsAstray \/ (created # 0 /\ Secrets!Lists # {}) \/ \E q \in secretsCalls : q.kind = "create" /\ q.form = secretsForm)
  BY Zenon DEF Secrets!Close, Secrets!Reload, Secrets!Miss
<1>2. secretsEnv \in Secrets!Envs
  BY Zenon DEF SecretsInv
<1>3. \A d \in secretsCalls' : d \in secretsCalls \/ (SecretCall(d, secretsForm) /\ ~ Creates(d))
  BY <1>1, <1>2, SecretsLoad, Zenon
<1>4. \A d \in secretsCalls' : SecretCall(d, secretsForm')
  BY <1>1, <1>3, Zenon DEF SecretsInv
<1>5. ASSUME ~ secretsAstray' PROVE OfOpenForm(secretsCalls', secretsForm', create')
  <2>1. OfOpenForm(secretsCalls, secretsForm, create) /\ \A d \in secretsCalls : ~ (Creates(d) /\ d.form = secretsForm)
    BY <1>1, <1>5, Zenon DEF SecretsInv, Creates
  <2>. QED
    BY <1>3, <2>1, Zenon DEF OfOpenForm
<1>6. Secrets!OnePerForm'
  BY <1>1, Zenon DEF SecretsInv, Secrets!OnePerForm
<1>7. /\ secretsForm' \in Nat /\ secretsEnv' \in Secrets!Envs /\ items' \in Seq(SecretsItem)
      /\ \A i \in DOMAIN items' : items'[i].form \in 0..secretsForm'
  BY <1>1, Zenon DEF SecretsInv
<1>. QED
  BY <1>1, <1>4, <1>5, <1>6, <1>7, Zenon DEF SecretsInv

\* A request of a form ends: its secret is shown, or it has made nothing, or its
\* answer is lost and missed.
LEMMA SecretsFormEnds ==
    ASSUME SecretsInv, NEW q \in secretsCalls, Creates(q), secretsCalls' = secretsCalls \ {q},
           UNCHANGED <<items, secretsEnv, create, secretsForm, twice>>,
           secretsAstray => secretsAstray',
           ~ secretsAstray' => \/ ~ MadeIt(q) /\ created' = created
                               \/ MadeIt(q) /\ created' # 0
    PROVE  SecretsInv'
<1>1. \A d \in secretsCalls' : SecretCall(d, secretsForm')
  BY Zenon DEF SecretsInv
<1>2. ASSUME ~ secretsAstray' PROVE OfOpenForm(secretsCalls', secretsForm', create')
  BY <1>2, Zenon DEF SecretsInv, OfOpenForm
<1>3. ASSUME ~ secretsAstray', create', secretsForm' \notin twice'
      PROVE  SentOnce(secretsCalls', items', secretsForm', created', secretsBusy')
  <2>1. SentOnce(secretsCalls, items, secretsForm, created, secretsBusy)
    BY <1>3, Zenon DEF SecretsInv
  <2>2. \A d \in secretsCalls' : ~ Creates(d)
    BY <2>1, Zenon DEF SentOnce
  <2>3. created' = 0 => \A i \in DOMAIN items : items[i].form # secretsForm
    BY <1>3, <2>1, Zenon DEF SentOnce
  <2>. QED
    BY <2>2, <2>3, Zenon DEF SentOnce
<1>4. Secrets!OnePerForm'
  BY Zenon DEF SecretsInv, Secrets!OnePerForm
<1>5. /\ secretsForm' \in Nat /\ secretsEnv' \in Secrets!Envs /\ items' \in Seq(SecretsItem)
      /\ \A i \in DOMAIN items' : items'[i].form \in 0..secretsForm'
  BY Zenon DEF SecretsInv
<1>. QED
  BY <1>1, <1>2, <1>3, <1>4, <1>5, Zenon DEF SecretsInv

LEMMA SecretsCreated ==
    ASSUME SecretsInv, NEW q \in secretsCalls, Secrets!Created(q)
    PROVE  SecretsInv'
<1>1. /\ Creates(q) /\ MadeIt(q) /\ secretsCalls' = secretsCalls \ {q}
      /\ UNCHANGED <<items, secretsEnv, create, secretsForm, twice, secretsAstray>>
      /\ create /\ q.form = secretsForm => created' = q.answer.id
  BY Zenon DEF Secrets!Created, Secrets!ShownSecret, Creates, MadeIt
<1>2. q.answer.id # 0
  <2>1. q.answer.id \in Nat \ {0}
    BY <1>1, Zenon DEF SecretsInv, SecretCall
  <2>. QED
    BY <2>1
<1>3. ~ secretsAstray => create /\ q.form = secretsForm
  BY <1>1, Zenon DEF SecretsInv, OfOpenForm
<1>. QED
  BY <1>1, <1>2, <1>3, SecretsFormEnds, Zenon

LEMMA SecretsFail ==
    ASSUME SecretsInv, NEW q \in secretsCalls, Secrets!Fails(q)
    PROVE  SecretsInv'
<1>1. /\ secretsCalls' = secretsCalls \ {q} /\ UNCHANGED <<items, secretsEnv, create, secretsForm, created, twice>>
      /\ secretsAstray' = (secretsAstray \/ q.kind = "list" \/ q.answer.at = "ok")
      /\ q.kind # "create" => secretsBusy' = secretsBusy
  BY Zenon DEF Secrets!Fails, Secrets!Miss
<1>2. CASE Creates(q)
  BY <1>1, <1>2, SecretsFormEnds, Zenon DEF MadeIt
<1>3. CASE ~ Creates(q)
  <2>1. secretsEnv' \in Secrets!Envs
    BY <1>1, Zenon DEF SecretsInv
  <2>. QED
    BY <1>1, <1>3, <2>1, SecretsRest, Zenon DEF Creates
<1>. QED
  BY <1>2, <1>3

LEMMA SecretsKept == SecretsInv /\ (Secrets!Next \/ UNCHANGED secretsVars) => SecretsInv'
<1>. SUFFICES ASSUME SecretsInv, Secrets!Next \/ UNCHANGED secretsVars PROVE SecretsInv'
  OBVIOUS
<1>1. secretsEnv \in Secrets!Envs
  BY Zenon DEF SecretsInv
<1>2. CASE UNCHANGED secretsVars
  BY <1>1, <1>2, SecretsRest, Zenon DEF secretsVars
<1>3. ASSUME NEW e \in Secrets!Envs, Secrets!SetEnv(e) PROVE SecretsInv'
  <2>1. /\ secretsEnv' = e /\ Secrets!Load(e, secretsCalls) /\ (secretsAstray => secretsAstray')
        /\ UNCHANGED <<items, create, secretsForm, created, secretsBusy, twice>>
    BY <1>3, Zenon DEF Secrets!SetEnv, Secrets!Miss, Secrets!modal
  <2>. QED
    BY <1>1, <2>1, SecretsLoad, SecretsRest, Zenon
<1>4. CASE Secrets!Timer
  <2>1. /\ secretsEnv' = secretsEnv /\ Secrets!Load(secretsEnv, secretsCalls)
        /\ UNCHANGED <<items, create, secretsForm, created, secretsBusy, twice>>
    BY <1>4, Zenon DEF Secrets!Timer, Secrets!modal
  <2>2. secretsAstray => secretsAstray'
    BY <1>4, Zenon DEF Secrets!Timer, Secrets!Miss
  <2>. QED
    BY <1>1, <2>1, <2>2, SecretsLoad, SecretsRest, Zenon
<1>5. CASE Secrets!Check
  BY <1>1, <1>5, SecretsRest, Zenon DEF Secrets!Check
<1>6. ASSUME NEW x \in {"end", "test"}, NEW i, Secrets!Act(x, i) PROVE SecretsInv'
  <2>. DEFINE q == [kind |-> x, n |-> secretsWrites + 1, env |-> secretsEnv, id |-> i, form |-> secretsForm,
                    checked |-> selected, answer |-> Secrets!Sent]
  <2>1. /\ secretsCalls' = secretsCalls \cup {q} /\ UNCHANGED <<secretsEnv, items, twice, secretsAstray>>
        /\ UNCHANGED <<create, secretsForm, created, secretsBusy>>
    BY <1>6, Zenon DEF Secrets!Act, Secrets!Write, Secrets!modal
  <2>2. ClickFields(q) /\ ~ Creates(q) /\ q.kind # "list" /\ q.env = secretsEnv /\ q.form = secretsForm
    BY <1>6, SMT DEF ClickFields, Creates
  <2>. HIDE DEF q
  <2>3. secretsForm \in 0..secretsForm
    <3>1. secretsForm \in Nat
      BY Zenon DEF SecretsInv
    <3>. QED
      BY <3>1
  <2>4. SecretCall(q, secretsForm)
    BY <1>1, <2>2, <2>3, Zenon DEF SecretCall
  <2>. QED
    BY <1>1, <2>1, <2>2, <2>4, SecretsRest, Zenon
<1>7. ASSUME NEW q \in secretsCalls, Secrets!Listed(q) PROVE SecretsInv'
  <2>1. /\ ~ Creates(q) /\ secretsCalls' = secretsCalls \ {q}
        /\ UNCHANGED <<secretsEnv, items, create, secretsForm, created, secretsBusy, twice, secretsAstray>>
    <3>1. "list" # "create"
      BY SMT
    <3>. QED
      BY <1>7, <3>1, Zenon DEF Secrets!Listed, Creates, Secrets!modal
  <2>. QED
    BY <1>1, <2>1, SecretsRest, Zenon
<1>8. ASSUME NEW q \in secretsCalls, Secrets!Acted(q) PROVE SecretsInv'
  <2>1. q.kind \in {"end", "test"} /\ UNCHANGED <<secretsEnv, items, create, secretsForm, created, secretsBusy, twice>>
    BY <1>8, Zenon DEF Secrets!Acted, Secrets!modal
  <2>2. ~ Creates(q)
    BY <2>1, SMT DEF Creates
  <2>3. secretsAstray => secretsAstray'
    BY <1>8, Zenon DEF Secrets!Acted, Secrets!Miss
  <2>4. /\ secretsCalls \ {q} \subseteq secretsCalls'
        /\ \A d \in secretsCalls' : d \in secretsCalls \ {q} \/ (SecretCall(d, secretsForm) /\ ~ Creates(d))
    <3>1. CASE Secrets!Load(secretsEnv, secretsCalls \ {q})
      BY <1>1, <3>1, SecretsLoad, Zenon
    <3>2. CASE secretsCalls' = secretsCalls \ {q}
      BY <3>2, Zenon
    <3>. QED
      BY <1>8, <3>1, <3>2, Zenon DEF Secrets!Acted
  <2>. QED
    BY <1>1, <2>1, <2>2, <2>3, <2>4, SecretsRest, Zenon
<1>. QED
  BY <1>2, <1>3, <1>4, <1>5, <1>6, <1>7, <1>8, SecretsOpen, SecretsClose, SecretsSubmit, SecretsServe,
     SecretsCreated, SecretsFail, Zenon DEF Secrets!Next

LEMMA SecretsTell == SecretsInv => Secrets!OnePerForm
BY Zenon DEF SecretsInv

-----------------------------------------------------------------------------
\* The loyalty pages: punches, and the rewards they earn.

\* The fields of a load, of a punch that is recorded, and of a row.
LoyaltyFields(q) ==
    \/ /\ q.kind \in {"list", "program"}
       /\ q = [kind |-> q.kind, n |-> q.n, mount |-> q.mount, heard |-> q.heard, answer |-> q.answer]
    \/ /\ q.kind = "punch"
       /\ q = [kind |-> q.kind, n |-> q.n, mount |-> q.mount, heard |-> q.heard, form |-> q.form,
               who |-> q.who, event |-> q.event, count |-> q.count, answer |-> q.answer]

\* What the handler has counted before it issues.
Counted(a) == a = [at |-> a.at, after |-> a.after, new |-> a.new]

RowFields(r) == r = [n |-> r.n, who |-> r.who, count |-> r.count, event |-> r.event, old |-> r.old]

RowsWith(P, x) == {r \in P : r.who = x}
SumOf(S) == SumFunctionOnSet([r \in S |-> r.count], S)

AtLock(q) == q.answer.at \in {"issuing", "storing"}
UnderWay(q) == q.answer.at \in {"sent", "waiting", "issuing", "storing"}

\* The rows P: a number for each request of the n so far that stored one; an old
\* row is the only one of its customer, and an event is in one row.
RowsAre(P, n) ==
    /\ IsFiniteSet(P)
    /\ \A r \in P : RowFields(r) /\ r.n \in 0..n /\ r.count \in Nat /\ r.old \in BOOLEAN /\ r.who \in Customers
    /\ \A r \in P : r.old => \A s \in P : s.who = r.who => s = r
    /\ \A r, s \in P : r.event = s.event /\ r.event # NoEvent => r = s

\* A customer has the rewards R that all their rows earn.
RewardsAre(P, R) == R \in [Customers -> Int] /\ \A x \in Customers : R[x] = SumOf(RowsWith(P, x)) \div Threshold

\* Under the lock: the rows are of the customer's present reference, and what
\* was counted is still so.
LockedAs(q, P, R) ==
    /\ Counted(q.answer) /\ \A r \in P : r.who = q.who => ~ r.old
    /\ q.answer.new = Loyalty!Owed(SumOf(RowsWith(P, q.who)) + q.count, R[q.who])

\* A request, by the rows P, the rewards R and the number n of punches sent.
LoyaltyCall(q, P, R, n) ==
    /\ LoyaltyFields(q)
    /\ q.answer.at \in {"waiting", "issuing", "storing"} => q.kind = "punch"
    /\ q.kind = "punch" => /\ q.n \in 1..n /\ q.who \in Customers /\ q.count \in Nat
                           /\ UnderWay(q) => \A r \in P : r.n # q.n
    /\ AtLock(q) => LockedAs(q, P, R)

\* Each punch has its number, and one at most holds the lock.
OneByOne(C) ==
    /\ \A p, q \in C : p.kind = "punch" /\ q.kind = "punch" /\ p.n = q.n => p = q
    /\ \A p, q \in C : AtLock(p) /\ AtLock(q) => p = q

LoyaltyInv ==
    /\ loyaltyClicks \in Nat
    /\ RowsAre(punches, loyaltyClicks) /\ RewardsAre(punches, rewards)
    /\ \A q \in loyaltyCalls : LoyaltyCall(q, punches, rewards, loyaltyClicks)
    /\ OneByOne(loyaltyCalls)

LEMMA LoyaltyAnswered ==
    ASSUME NEW q, LoyaltyFields(q), NEW a
    PROVE  LET r == [q EXCEPT !.answer = a]
           IN  /\ LoyaltyFields(r) /\ r.kind = q.kind /\ r.n = q.n /\ r.mount = q.mount /\ r.answer = a
               /\ q.kind = "punch" => r.who = q.who /\ r.count = q.count /\ r.event = q.event
<1>1. CASE q.kind \in {"list", "program"} /\ q = [kind |-> q.kind, n |-> q.n, mount |-> q.mount, heard |-> q.heard, answer |-> q.answer]
  BY <1>1, SMTT(30) DEF LoyaltyFields
<1>2. CASE q.kind = "punch" /\ q = [kind |-> q.kind, n |-> q.n, mount |-> q.mount, heard |-> q.heard, form |-> q.form,
                                    who |-> q.who, event |-> q.event, count |-> q.count, answer |-> q.answer]
  BY <1>2, SMTT(30) DEF LoyaltyFields
<1>. QED
  BY <1>1, <1>2, Zenon DEF LoyaltyFields

LEMMA LoyaltyHeard ==
    ASSUME NEW q, LoyaltyFields(q), q.kind = "punch", NEW b
    PROVE  LET r == [q EXCEPT !.heard = b]
           IN  /\ LoyaltyFields(r) /\ r.kind = q.kind /\ r.n = q.n /\ r.mount = q.mount /\ r.answer = q.answer
               /\ r.who = q.who /\ r.count = q.count /\ r.event = q.event
<1>1. q = [kind |-> q.kind, n |-> q.n, mount |-> q.mount, heard |-> q.heard, form |-> q.form,
           who |-> q.who, event |-> q.event, count |-> q.count, answer |-> q.answer]
  <2>1. "punch" \notin {"list", "program"}
    BY SMT
  <2>. QED
    BY <2>1, Zenon DEF LoyaltyFields
<1>. QED
  BY <1>1, SMTT(30) DEF LoyaltyFields

LEMMA CountedMoves ==
    ASSUME NEW a, Counted(a), NEW z
    PROVE  LET b == [a EXCEPT !.at = z] IN Counted(b) /\ b.at = z /\ b.new = a.new
BY SMTT(30) DEF Counted

LEMMA TotalIsSum == \A S : Loyalty!Total(S) = SumOf(S)
<1>1. \A g, S : Loyalty!SumFunctionOnSet(g, S) = SumFunctionOnSet(g, S)
  BY Zenon DEF Loyalty!SumFunctionOnSet, SumFunctionOnSet, Loyalty!FoldFunctionOnSet, FoldFunctionOnSet,
         Loyalty!MapThenFoldSet, MapThenFoldSet
<1>. QED
  BY <1>1, Zenon DEF Loyalty!Total, SumOf

\* Sums of rows, one more.
LEMMA SumOfAdd ==
    ASSUME NEW S, IsFiniteSet(S), NEW r, r \notin S, \A s \in S \cup {r} : s.count \in Int
    PROVE  SumOf(S \cup {r}) = SumOf(S) + r.count
<1>. DEFINE T == S \cup {r}
            g == [s \in T |-> s.count]
            h == [s \in S |-> s.count]
<1>1. SumFunctionOnSet(g, T) = SumFunctionOnSet(g, S) + g[r]
  <2>1. \A s \in T : g[s] \in Int
    OBVIOUS
  <2>. HIDE DEF g
  <2>. QED
    BY <2>1, SumAdd, Zenon
<1>2. SumFunctionOnSet(g, S) = SumFunctionOnSet(h, S)
  <2>1. \A s \in S : g[s] = h[s]
    OBVIOUS
  <2>. HIDE DEF g, h
  <2>. QED
    BY <2>1, SumSame, Zenon
<1>3. g[r] = r.count
  OBVIOUS
<1>. QED
  BY <1>1, <1>2, <1>3, Zenon DEF SumOf

LEMMA SumOfNone == SumOf({}) = 0
BY SumEmpty, Zenon DEF SumOf

LEMMA SumOfOne ==
    ASSUME NEW r, r.count \in Int
    PROVE  SumOf({r}) = r.count
<1>1. {} \cup {r} = {r} /\ r \notin {}
  BY Zenon
<1>2. SumOf({} \cup {r}) = SumOf({}) + r.count
  BY <1>1, FS_EmptySet, SumOfAdd, Zenon
<1>3. SumOf({r}) = SumOf({}) + r.count
  BY <1>1, <1>2, Zenon
<1>. QED
  BY <1>3, SumOfNone

LEMMA SumOfNumber ==
    ASSUME NEW S, IsFiniteSet(S), \A s \in S : s.count \in Int
    PROVE  SumOf(S) \in Int
<1>. DEFINE h == [s \in S |-> s.count]
<1>1. \A s \in S : h[s] \in Int
  OBVIOUS
<1>. HIDE DEF h
<1>2. SumFunctionOnSet(h, S) \in Int
  BY <1>1, SumInt, Zenon
<1>. QED
  BY <1>2, Zenon DEF SumOf, h

LEMMA LoyaltyBegin == Loyalty!Init => LoyaltyInv
<1>. SUFFICES ASSUME Loyalty!Init PROVE LoyaltyInv
  OBVIOUS
<1>1. /\ IsFiniteSet(Customers) /\ Threshold \in Nat \ {0}
  BY ConsoleAssumption, Zenon DEF ConsoleAssumption, Loyalty!LoyaltyAssumption, Loyalty!IsFiniteSet, IsFiniteSet
<1>2. /\ punches \in SUBSET {Loyalty!OldRow(x) : x \in Customers} /\ loyaltyClicks = 0
      /\ rewards = [x \in Customers |-> IF Loyalty!OldRow(x) \in punches THEN Loyalty!OldRow(x).count \div Threshold ELSE 0]
      /\ loyaltyCalls = {[kind |-> "list", n |-> 0, mount |-> 0, heard |-> TRUE, answer |-> Loyalty!Sent]}
  BY Zenon DEF Loyalty!Init
<1>3. \A x : /\ RowFields(Loyalty!OldRow(x)) /\ Loyalty!OldRow(x).n = 0 /\ Loyalty!OldRow(x).who = x
             /\ Loyalty!OldRow(x).count = 1 /\ Loyalty!OldRow(x).event = NoEvent /\ Loyalty!OldRow(x).old = TRUE
  BY SMT DEF Loyalty!OldRow, RowFields
<1>4. ASSUME NEW r \in punches
      PROVE  r.who \in Customers /\ r = Loyalty!OldRow(r.who)
  <2>1. PICK x \in Customers : r = Loyalty!OldRow(x)
    BY <1>2, Zenon
  <2>. QED
    BY <1>3, <2>1, Zenon
<1>5. IsFiniteSet(punches)
  <2>. DEFINE whose == [r \in punches |-> r.who]
  <2>1. whose \in Injection(punches, Customers)
    <3>1. whose \in [punches -> Customers] /\ \A r, s \in punches : whose[r] = whose[s] => r = s
      BY <1>4, Zenon
    <3>. QED
      BY <3>1, Zenon DEF Injection, IsInjective
  <2>. HIDE DEF whose
  <2>. QED
    BY <1>1, <2>1, FS_Injection, Zenon
<1>6. \A r \in punches : /\ RowFields(r) /\ r.n = 0 /\ r.count = 1 /\ r.event = NoEvent /\ r.old = TRUE
                          /\ \A s \in punches : s.who = r.who => s = r
  BY <1>3, <1>4, Zenon
<1>7. 1 \in Nat /\ 0 \in Nat /\ 0 \in 0..0 /\ TRUE \in BOOLEAN
  BY SMT
<1>8. RowsAre(punches, 0)
  BY <1>4, <1>5, <1>6, <1>7, Zenon DEF RowsAre
<1>9. ASSUME NEW x \in Customers
      PROVE  rewards[x] = SumOf(RowsWith(punches, x)) \div Threshold /\ rewards[x] \in Int
  <2>1. CASE Loyalty!OldRow(x) \in punches
    <3>1. RowsWith(punches, x) = {Loyalty!OldRow(x)}
      BY <1>3, <1>4, <2>1, Zenon DEF RowsWith
    <3>2. SumOf({Loyalty!OldRow(x)}) = 1
      BY <1>3, SumOfOne
    <3>3. rewards[x] = 1 \div Threshold
      BY <1>2, <1>3, <2>1, Zenon
    <3>. QED
      BY <1>1, <3>1, <3>2, <3>3
  <2>2. CASE Loyalty!OldRow(x) \notin punches
    <3>1. RowsWith(punches, x) = {}
      BY <1>4, <2>2, Zenon DEF RowsWith
    <3>2. rewards[x] = 0
      BY <1>2, <2>2, Zenon
    <3>3. 0 \div Threshold = 0
      BY <1>1
    <3>. QED
      BY <3>1, <3>2, <3>3, SumOfNone
  <2>. QED
    BY <2>1, <2>2, Zenon
<1>10. RewardsAre(punches, rewards)
  <2>1. rewards \in [Customers -> Int]
    BY <1>2, <1>9, Zenon
  <2>. QED
    BY <1>9, <2>1, Zenon DEF RewardsAre
<1>11. ASSUME NEW q \in loyaltyCalls PROVE q.kind = "list" /\ LoyaltyFields(q) /\ q.answer.at = "sent"
  BY <1>2, <1>11, SMT DEF LoyaltyFields, Loyalty!Sent
<1>12. "sent" \notin {"waiting", "issuing", "storing"} /\ "sent" \notin {"issuing", "storing"} /\ "list" # "punch"
  BY SMT
<1>. QED
  BY <1>2, <1>7, <1>8, <1>10, <1>11, <1>12, Zenon DEF LoyaltyInv, LoyaltyCall, OneByOne, AtLock

LEMMA FalseIsNot == \A b : b = FALSE => ~ b /\ b \in BOOLEAN
OBVIOUS

LEMMA NotFalseIs == \A b \in BOOLEAN : b # FALSE => b
OBVIOUS

\* A row that is moved to another reference.
LEMMA RowMoved ==
    ASSUME NEW r, RowFields(r), NEW b
    PROVE  LET s == [r EXCEPT !.old = b]
           IN  /\ RowFields(s) /\ s.n = r.n /\ s.who = r.who /\ s.count = r.count /\ s.event = r.event /\ s.old = b
               /\ b = r.old => s = r
BY SMTT(30) DEF RowFields

\* The rows P, those of x under the present reference.
Moved(P, x) == {[r EXCEPT !.old = r.old /\ r.who # x] : r \in P}

\* The one row of x, o, becomes s.
RowMoves(P, x, o, s) ==
    /\ o \in P /\ o.who = x /\ RowsWith(P, x) = {o} /\ Moved(P, x) = (P \ {o}) \cup {s}
    /\ RowFields(s) /\ s.n = o.n /\ s.who = x /\ s.count = o.count /\ s.event = o.event /\ s.old = FALSE

\* Nothing moves where nothing is old; else the one row of x does.
LEMMA MovedIs ==
    ASSUME NEW P, NEW n, RowsAre(P, n), NEW x
    PROVE  \/ Moved(P, x) = P /\ \A r \in P : r.who = x => r.old = FALSE
           \/ \E o, s : RowMoves(P, x, o, s)
<1>. DEFINE m(r) == [r EXCEPT !.old = r.old /\ r.who # x]
<1>1. \A r \in P : RowFields(r) /\ r.old \in BOOLEAN /\ (r.old => \A s \in P : s.who = r.who => s = r)
  BY Zenon DEF RowsAre
<1>2. ASSUME NEW r \in P, r.who # x \/ r.old = FALSE PROVE m(r) = r
  <2>1. PICK b : b = (r.old /\ r.who # x)
    BY Zenon
  <2>2. b = r.old
    BY <1>1, <1>2, <2>1, SMT
  <2>3. [r EXCEPT !.old = b] = r
    BY <1>1, <2>2, RowMoved, Zenon
  <2>. QED
    BY <2>1, <2>3, Zenon
<1>3. CASE \A r \in P : r.who = x => r.old = FALSE
  <2>1. \A r \in P : m(r) = r
    BY <1>2, <1>3, Zenon
  <2>. HIDE DEF m
  <2>2. {m(r) : r \in P} = P
    BY <2>1, Zenon
  <2>. QED
    BY <1>3, <2>2, Zenon DEF Moved, m
<1>4. CASE \E r \in P : r.who = x /\ r.old # FALSE
  <2>1. PICK o \in P : o.who = x /\ o.old # FALSE
    BY <1>4, Zenon
  <2>2. o.old
    BY <1>1, <2>1, NotFalseIs, Zenon
  <2>3. \A r \in P : r.who = x => r = o
    BY <1>1, <2>1, <2>2, Zenon
  <2>4. RowsWith(P, x) = {o}
    BY <2>1, <2>3, Zenon DEF RowsWith
  <2>5. m(o) = [o EXCEPT !.old = FALSE]
    <3>1. (o.old /\ o.who # x) = FALSE
      BY <2>1, SMT
    <3>. QED
      BY <3>1, Zenon
  <2>6. PICK s : s = [o EXCEPT !.old = FALSE]
    OBVIOUS
  <2>7. /\ RowFields(s) /\ s.n = o.n /\ s.who = x /\ s.count = o.count /\ s.event = o.event /\ s.old = FALSE
    BY ONLY <1>1, <2>1, <2>6, RowMoved, Zenon
  <2>8. \A r \in P : IF r = o THEN m(r) = s ELSE m(r) = r
    BY <1>2, <2>3, <2>5, <2>6, Zenon
  <2>. HIDE DEF m
  <2>9. {m(r) : r \in P} = (P \ {o}) \cup {s}
    BY <2>1, <2>8, Zenon
  <2>. QED
    BY <2>1, <2>4, <2>7, <2>9, Zenon DEF Moved, m, RowMoves
<1>. QED
  BY <1>3, <1>4, Zenon

\* Moving keeps the sums, the numbers and the events.
LEMMA MovedKeeps ==
    ASSUME NEW P, NEW n, RowsAre(P, n), NEW x
    PROVE  /\ RowsAre(Moved(P, x), n)
           /\ \A y : SumOf(RowsWith(Moved(P, x), y)) = SumOf(RowsWith(P, y))
           /\ \A r \in Moved(P, x) : r.who = x => ~ r.old
           /\ \A r \in Moved(P, x) : \E s \in P : r.n = s.n
<1>1. /\ IsFiniteSet(P)
      /\ \A r \in P : RowFields(r) /\ r.n \in 0..n /\ r.count \in Nat /\ r.old \in BOOLEAN /\ r.who \in Customers
      /\ \A r \in P : r.old => \A s \in P : s.who = r.who => s = r
      /\ \A r, s \in P : r.event = s.event /\ r.event # NoEvent => r = s
  BY Zenon DEF RowsAre
<1>2. CASE Moved(P, x) = P /\ \A r \in P : r.who = x => r.old = FALSE
  <2>1. \A r \in P : r.who = x => ~ r.old
    BY <1>2, SMT
  <2>. QED
    BY <1>2, <2>1, Zenon
<1>3. CASE \E o, s : RowMoves(P, x, o, s)
  <2>1. PICK o, s : /\ o \in P /\ o.who = x /\ RowsWith(P, x) = {o} /\ Moved(P, x) = (P \ {o}) \cup {s}
                    /\ RowFields(s) /\ s.n = o.n /\ s.who = x /\ s.count = o.count /\ s.event = o.event
                    /\ s.old = FALSE
    BY <1>3, Zenon DEF RowMoves
  <2>2. ~ s.old /\ s.old \in BOOLEAN
    BY <2>1, FalseIsNot, Zenon
  <2>3. PICK Q : Q = Moved(P, x)
    OBVIOUS
  <2>4. Q = (P \ {o}) \cup {s}
    BY <2>1, <2>3, Zenon
  <2>5. \A r \in P : r.who = x => r = o
    BY <2>1, Zenon DEF RowsWith
  <2>6. \A r \in Q : r = s \/ (r \in P /\ r # o /\ r.who # x)
    BY <2>4, <2>5, Zenon
  <2>7. \A r \in Q : RowFields(r) /\ r.n \in 0..n /\ r.count \in Nat /\ r.old \in BOOLEAN /\ r.who \in Customers
    BY <1>1, <2>1, <2>2, <2>6, Zenon
  <2>8. \A r \in Q : r.old => \A t \in Q : t.who = r.who => t = r
    BY <1>1, <2>1, <2>2, <2>6, Zenon
  <2>9. \A r, t \in Q : r.event = t.event /\ r.event # NoEvent => r = t
    <3>. SUFFICES ASSUME NEW r \in Q, NEW t \in Q, r.event = t.event, r.event # NoEvent PROVE r = t
      OBVIOUS
    <3>1. CASE r = s /\ t = s
      BY <3>1, Zenon
    <3>2. CASE r = s /\ t \in P /\ t # o
      BY <1>1, <2>1, <3>2, Zenon
    <3>3. CASE t = s /\ r \in P /\ r # o
      BY <1>1, <2>1, <3>3, Zenon
    <3>4. CASE r \in P /\ t \in P
      BY <1>1, <3>4, Zenon
    <3>. QED
      BY <2>6, <3>1, <3>2, <3>3, <3>4, Zenon
  <2>10. IsFiniteSet(Q)
    BY <1>1, <2>4, FS_RemoveElement, FS_AddElement, Zenon
  <2>11. ASSUME NEW y PROVE SumOf(RowsWith(Q, y)) = SumOf(RowsWith(P, y))
    <3>1. CASE y = x
      <4>1. RowsWith(Q, y) = {s}
        BY <2>1, <2>4, <2>6, <3>1, Zenon DEF RowsWith
      <4>2. s.count \in Int /\ o.count \in Int
        BY <1>1, <2>1, SMT
      <4>3. SumOf({s}) = s.count /\ SumOf({o}) = o.count
        BY <4>2, SumOfOne, Zenon
      <4>. QED
        BY <2>1, <3>1, <4>1, <4>3, Zenon
    <3>2. CASE y # x
      <4>1. RowsWith(Q, y) = RowsWith(P, y)
        BY <2>1, <2>4, <2>6, <3>2, Zenon DEF RowsWith
      <4>. QED
        BY <4>1, Zenon
    <3>. QED
      BY <3>1, <3>2, Zenon
  <2>12. \A r \in Q : r.who = x => ~ r.old
    BY <2>2, <2>6, Zenon
  <2>13. \A r \in Q : \E t \in P : r.n = t.n
    BY <2>1, <2>6, Zenon
  <2>14. RowsAre(Q, n)
    BY <2>7, <2>8, <2>9, <2>10, Zenon DEF RowsAre
  <2>. QED
    BY <2>3, <2>11, <2>12, <2>13, <2>14, Zenon
<1>. QED
  BY <1>2, <1>3, MovedIs, Zenon

LEMMA LoyaltyTell == LoyaltyInv => Loyalty!EventCountsOnce /\ Loyalty!RewardsMatchPunches
<1>. SUFFICES ASSUME LoyaltyInv PROVE Loyalty!EventCountsOnce /\ Loyalty!RewardsMatchPunches
  OBVIOUS
<1>1. RowsAre(punches, loyaltyClicks) /\ RewardsAre(punches, rewards)
  BY Zenon DEF LoyaltyInv
<1>2. Loyalty!EventCountsOnce
  BY <1>1, Zenon DEF RowsAre, Loyalty!EventCountsOnce
<1>3. ASSUME NEW x \in Customers, Loyalty!RowsOf(x) # {}
      PROVE  rewards[x] = Loyalty!Balance(x) \div Threshold
  <2>1. PICK s \in punches : s.who = x /\ ~ s.old
    BY <1>3, Zenon DEF Loyalty!RowsOf
  <2>2. \A r \in punches : r.who = x => ~ r.old
    BY <1>1, <2>1, Zenon DEF RowsAre
  <2>3. Loyalty!RowsOf(x) = RowsWith(punches, x)
    BY <2>2, Zenon DEF Loyalty!RowsOf, RowsWith
  <2>4. Loyalty!Balance(x) = SumOf(RowsWith(punches, x))
    BY <2>3, TotalIsSum, Zenon DEF Loyalty!Balance
  <2>. QED
    BY <1>1, <2>4, Zenon DEF RewardsAre
<1>. QED
  BY <1>2, <1>3, Zenon DEF Loyalty!RewardsMatchPunches

\* Only loads are asked for, answered or dropped, or answers of punches heard.
LEMMA LoyaltyRest ==
    ASSUME LoyaltyInv, UNCHANGED <<punches, rewards, loyaltyClicks>>,
           \A q \in loyaltyCalls' :
              q \in loyaltyCalls \/ (LoyaltyFields(q) /\ q.kind \in {"list", "program"} /\ q.answer.at = "sent")
    PROVE  LoyaltyInv'
<1>1. "punch" \notin {"list", "program"} /\ "sent" \notin {"waiting", "issuing", "storing"} /\ "sent" \notin {"issuing", "storing"}
  BY SMT
<1>2. \A q \in loyaltyCalls' : LoyaltyCall(q, punches, rewards, loyaltyClicks)
  BY <1>1, Zenon DEF LoyaltyInv, LoyaltyCall, AtLock
<1>3. OneByOne(loyaltyCalls')
  BY <1>1, Zenon DEF LoyaltyInv, OneByOne, AtLock
<1>. QED
  BY <1>2, <1>3, Zenon DEF LoyaltyInv

\* One request goes on, and what it changes fits the others.
LEMMA LoyaltyServed ==
    ASSUME LoyaltyInv, NEW q \in loyaltyCalls, NEW r, loyaltyCalls' = (loyaltyCalls \ {q}) \cup {r},
           UNCHANGED loyaltyClicks, r.kind = q.kind, r.n = q.n,
           RowsAre(punches', loyaltyClicks), RewardsAre(punches', rewards'),
           LoyaltyCall(r, punches', rewards', loyaltyClicks),
           \A d \in loyaltyCalls : d # q => LoyaltyCall(d, punches', rewards', loyaltyClicks),
           AtLock(r) => \A d \in loyaltyCalls : d # q => ~ AtLock(d)
    PROVE  LoyaltyInv'
<1>1. \A d \in loyaltyCalls' : d = r \/ (d \in loyaltyCalls /\ d # q)
  BY Zenon
<1>2. OneByOne(loyaltyCalls)
  BY Zenon DEF LoyaltyInv
<1>3. \A d \in loyaltyCalls : d # q /\ d.kind = "punch" /\ r.kind = "punch" => d.n # r.n
  BY <1>2, Zenon DEF OneByOne
<1>4. OneByOne(loyaltyCalls')
  <2>1. ASSUME NEW d \in loyaltyCalls', NEW e \in loyaltyCalls', d.kind = "punch", e.kind = "punch", d.n = e.n PROVE d = e
    <3>1. CASE d = r
      BY <1>1, <1>3, <2>1, <3>1, Zenon
    <3>2. CASE e = r
      BY <1>1, <1>3, <2>1, <3>2, Zenon
    <3>3. CASE d \in loyaltyCalls /\ e \in loyaltyCalls
      BY <1>2, <2>1, <3>3, Zenon DEF OneByOne
    <3>. QED
      BY <1>1, <2>1, <3>1, <3>2, <3>3, Zenon
  <2>2. ASSUME NEW d \in loyaltyCalls', NEW e \in loyaltyCalls', AtLock(d), AtLock(e) PROVE d = e
    <3>1. CASE d = r
      BY <1>1, <2>2, <3>1, Zenon
    <3>2. CASE e = r
      BY <1>1, <2>2, <3>2, Zenon
    <3>3. CASE d \in loyaltyCalls /\ e \in loyaltyCalls
      BY <1>2, <2>2, <3>3, Zenon DEF OneByOne
    <3>. QED
      BY <1>1, <2>2, <3>1, <3>2, <3>3, Zenon
  <2>. QED
    BY <2>1, <2>2, Zenon DEF OneByOne
<1>5. \A d \in loyaltyCalls' : LoyaltyCall(d, punches', rewards', loyaltyClicks)
  BY <1>1, Zenon
<1>6. loyaltyClicks' = loyaltyClicks /\ loyaltyClicks \in Nat
  BY Zenon DEF LoyaltyInv
<1>. QED
  BY <1>4, <1>5, <1>6, Zenon DEF LoyaltyInv

\* An answer, while the rows and the rewards stay as they are.
LEMMA LoyaltySays ==
    ASSUME LoyaltyInv, NEW q \in loyaltyCalls, NEW a, Loyalty!Answer(q, a),
           UNCHANGED <<punches, rewards, loyaltyClicks>>,
           a.at \in {"waiting", "issuing", "storing"} => q.kind = "punch",
           a.at \in {"sent", "waiting", "issuing", "storing"} => UnderWay(q),
           a.at \in {"issuing", "storing"} => AtLock(q) /\ Counted(a) /\ a.new = q.answer.new
    PROVE  LoyaltyInv'
<1>. DEFINE r == [q EXCEPT !.answer = a]
<1>1. LoyaltyCall(q, punches, rewards, loyaltyClicks) /\ RowsAre(punches, loyaltyClicks) /\ RewardsAre(punches, rewards)
      /\ OneByOne(loyaltyCalls)
  BY Zenon DEF LoyaltyInv
<1>2. LoyaltyFields(q)
  BY <1>1, Zenon DEF LoyaltyCall
<1>3. LoyaltyFields(r) /\ r.kind = q.kind /\ r.n = q.n /\ r.answer = a
      /\ (q.kind = "punch" => r.who = q.who /\ r.count = q.count)
  BY <1>2, LoyaltyAnswered, Zenon
<1>4. loyaltyCalls' = (loyaltyCalls \ {q}) \cup {r}
  BY Zenon DEF Loyalty!Answer
<1>. HIDE DEF r
<1>5. {"issuing", "storing"} \subseteq {"waiting", "issuing", "storing"}
  BY SMT
<1>6. AtLock(r) => AtLock(q) /\ q.kind = "punch" /\ LockedAs(r, punches, rewards)
  <2>. SUFFICES ASSUME AtLock(r) PROVE AtLock(q) /\ q.kind = "punch" /\ LockedAs(r, punches, rewards)
    OBVIOUS
  <2>1. AtLock(q) /\ Counted(a) /\ a.new = q.answer.new
    BY <1>3, Zenon DEF AtLock
  <2>2. q.kind = "punch" /\ LockedAs(q, punches, rewards)
    BY <1>1, <1>5, <2>1, Zenon DEF LoyaltyCall, AtLock
  <2>. QED
    BY <1>3, <2>1, <2>2, Zenon DEF LockedAs
<1>7. LoyaltyCall(r, punches, rewards, loyaltyClicks)
  BY <1>1, <1>3, <1>6, Zenon DEF LoyaltyCall, UnderWay
<1>8. AtLock(r) => \A d \in loyaltyCalls : d # q => ~ AtLock(d)
  BY <1>1, <1>6, Zenon DEF OneByOne
<1>9. \A d \in loyaltyCalls : LoyaltyCall(d, punches, rewards, loyaltyClicks)
  BY Zenon DEF LoyaltyInv
<1>. QED
  BY <1>1, <1>3, <1>4, <1>7, <1>8, <1>9, LoyaltyServed, Zenon

LEMMA DivGrows ==
    ASSUME NEW a \in Int, NEW b \in Int, a <= b, NEW t \in Nat \ {0}
    PROVE  a \div t \in Int /\ b \div t \in Int /\ a \div t <= b \div t
<1>1. /\ a \div t \in Int /\ b \div t \in Int
      /\ a % t \in 0..(t - 1) /\ b % t \in 0..(t - 1)
      /\ a = t * (a \div t) + (a % t) /\ b = t * (b \div t) + (b % t)
  BY Z3
<1>2. \A x, y \in Int : x > y => t * x >= t * y + t
  BY Z3
<1>. QED
  BY <1>1, <1>2, Z3

\* What is owed completes what was had.
LEMMA OwedIs ==
    ASSUME NEW a \in Int, NEW b \in Nat, Threshold \in Nat \ {0}
    PROVE  (a \div Threshold) + Loyalty!Owed(a + b, a \div Threshold) = (a + b) \div Threshold
<1>1. /\ a \div Threshold \in Int /\ (a + b) \div Threshold \in Int
      /\ a \div Threshold <= (a + b) \div Threshold
  <2>1. a + b \in Int /\ a <= a + b
    OBVIOUS
  <2>. QED
    BY <2>1, DivGrows, Zenon
<1>. DEFINE had == a \div Threshold
            all == (a + b) \div Threshold
<1>2. Loyalty!Owed(a + b, had) = IF all - had < 0 THEN 0 ELSE all - had
  BY Zenon DEF Loyalty!Owed
<1>. HIDE DEF had, all
<1>3. had \in Int /\ all \in Int /\ had <= all
  BY <1>1, Zenon DEF had, all
<1>4. had + Loyalty!Owed(a + b, had) = all
  BY <1>2, <1>3
<1>. QED
  BY <1>4, Zenon DEF had, all

\* What is refused or announced is no longer under way.
LEMMA LoyaltyAt ==
    /\ Loyalty!Refused.at = "refused" /\ Loyalty!Sent.at = "sent"
    /\ "refused" \notin {"sent", "waiting", "issuing", "storing"} /\ "refused" \notin {"waiting", "issuing", "storing"}
    /\ "refused" \notin {"issuing", "storing"}
    /\ "ok" \notin {"sent", "waiting", "issuing", "storing"} /\ "ok" \notin {"waiting", "issuing", "storing"}
    /\ "ok" \notin {"issuing", "storing"}
    /\ "waiting" \notin {"issuing", "storing"} /\ "sent" \notin {"issuing", "storing"}
    /\ "waiting" \in {"sent", "waiting", "issuing", "storing"} /\ "waiting" \in {"waiting", "issuing", "storing"}
    /\ \A x \in {"issuing", "storing"} : x \in {"waiting", "issuing", "storing"} /\ x \in {"sent", "waiting", "issuing", "storing"}
    /\ \A x \in {"waiting", "issuing", "storing"} : x \in {"sent", "waiting", "issuing", "storing"}
    /\ "issuing" \in {"issuing", "storing"} /\ "storing" \in {"issuing", "storing"}
    /\ "punch" \notin {"list", "program"}
BY SMT DEF Loyalty!Refused, Loyalty!Sent

\* Under the lock a punch is counted, after its customer's rows are moved.
LEMMA LoyaltyCounts ==
    ASSUME LoyaltyInv, NEW q \in loyaltyCalls, Loyalty!Begin(q)
    PROVE  LoyaltyInv'
<1>. DEFINE P == Moved(punches, q.who)
            sum == SumOf(RowsWith(P, q.who)) + q.count
            a0 == [at |-> "issuing", after |-> sum, new |-> Loyalty!Owed(sum, rewards[q.who])]
<1>1. /\ q.answer.at = "waiting" /\ ~ Loyalty!Locked /\ punches' = P /\ UNCHANGED <<rewards, loyaltyClicks>>
      /\ Loyalty!Answer(q, Loyalty!Refused) \/ Loyalty!Answer(q, a0)
  <2>1. Loyalty!Migrated(q.who) = P
    BY Zenon DEF Loyalty!Migrated, Moved
  <2>2. Loyalty!Total({r \in Loyalty!Migrated(q.who) : r.who = q.who}) + q.count = sum
    BY <2>1, TotalIsSum, Zenon DEF RowsWith
  <2>. QED
    BY <2>1, <2>2, Zenon DEF Loyalty!Begin
<1>2. /\ LoyaltyCall(q, punches, rewards, loyaltyClicks) /\ RowsAre(punches, loyaltyClicks) /\ RewardsAre(punches, rewards)
      /\ \A d \in loyaltyCalls : LoyaltyCall(d, punches, rewards, loyaltyClicks) /\ ~ AtLock(d)
  BY <1>1, Zenon DEF LoyaltyInv, Loyalty!Locked, AtLock
<1>3. /\ RowsAre(P, loyaltyClicks) /\ (\A y : SumOf(RowsWith(P, y)) = SumOf(RowsWith(punches, y)))
      /\ (\A r \in P : r.who = q.who => ~ r.old) /\ \A r \in P : \E s \in punches : r.n = s.n
  BY <1>2, MovedKeeps, Zenon
<1>. HIDE DEF P
<1>4. RewardsAre(P, rewards)
  BY <1>2, <1>3, Zenon DEF RewardsAre
<1>5. /\ q.kind = "punch" /\ LoyaltyFields(q) /\ q.n \in 1..loyaltyClicks /\ q.who \in Customers /\ q.count \in Nat
      /\ UnderWay(q)
  BY <1>1, <1>2, LoyaltyAt, Zenon DEF LoyaltyCall, UnderWay
<1>6. ASSUME NEW d \in loyaltyCalls PROVE LoyaltyCall(d, P, rewards, loyaltyClicks)
  <2>1. LoyaltyCall(d, punches, rewards, loyaltyClicks) /\ ~ AtLock(d)
    BY <1>2, Zenon
  <2>2. ASSUME d.kind = "punch", UnderWay(d), NEW r \in P PROVE r.n # d.n
    <3>1. PICK s \in punches : r.n = s.n
      BY <1>3, <2>2, Zenon
    <3>. QED
      BY <2>1, <2>2, <3>1, Zenon DEF LoyaltyCall
  <2>. QED
    BY <2>1, <2>2, Zenon DEF LoyaltyCall
<1>7. ASSUME NEW a, Loyalty!Answer(q, a), a = Loyalty!Refused \/ a = a0 PROVE LoyaltyInv'
  <2>. DEFINE r == [q EXCEPT !.answer = a]
  <2>1. LoyaltyFields(r) /\ r.kind = q.kind /\ r.n = q.n /\ r.answer = a /\ r.who = q.who /\ r.count = q.count
    BY <1>5, LoyaltyAnswered, Zenon
  <2>2. loyaltyCalls' = (loyaltyCalls \ {q}) \cup {r}
    BY <1>7, Zenon DEF Loyalty!Answer
  <2>. HIDE DEF r
  <2>3. a0.at = "issuing" /\ Counted(a0) /\ a0.new = Loyalty!Owed(sum, rewards[q.who])
    BY SMT DEF Counted
  <2>. HIDE DEF a0
  <2>4. AtLock(r) => LockedAs(r, P, rewards)
    BY <1>3, <1>7, <2>1, <2>3, LoyaltyAt, Zenon DEF AtLock, LockedAs
  <2>5. \A s \in P : s.n # q.n
    BY <1>2, <1>3, <1>5, Zenon DEF LoyaltyCall
  <2>6. LoyaltyCall(r, P, rewards, loyaltyClicks)
    BY <1>5, <2>1, <2>4, <2>5, Zenon DEF LoyaltyCall
  <2>7. /\ punches' = P /\ rewards' = rewards /\ UNCHANGED loyaltyClicks
    BY <1>1, Zenon
  <2>. QED
    BY <1>2, <1>3, <1>4, <1>6, <2>1, <2>2, <2>6, <2>7, LoyaltyServed, Zenon
<1>. QED
  BY <1>1, <1>7, Zenon

\* The punch is stored with its rewards.
LEMMA LoyaltyStores ==
    ASSUME LoyaltyInv, NEW q \in loyaltyCalls, q.answer.at = "storing", ~ Loyalty!Claimed(q.event), Loyalty!Stored(q),
           Loyalty!Answer(q, [q.answer EXCEPT !.at = "ok"]), UNCHANGED loyaltyClicks
    PROVE  LoyaltyInv'
<1>1. /\ LoyaltyCall(q, punches, rewards, loyaltyClicks) /\ RowsAre(punches, loyaltyClicks) /\ RewardsAre(punches, rewards)
      /\ (\A d \in loyaltyCalls : LoyaltyCall(d, punches, rewards, loyaltyClicks)) /\ OneByOne(loyaltyCalls)
      /\ loyaltyClicks \in Nat
  BY Zenon DEF LoyaltyInv
<1>2. AtLock(q) /\ UnderWay(q)
  BY LoyaltyAt, Zenon DEF AtLock, UnderWay
<1>3. q.kind = "punch"
  BY <1>1, <1>2, LoyaltyAt, Zenon DEF LoyaltyCall, AtLock
<1>4. /\ LoyaltyFields(q) /\ LockedAs(q, punches, rewards)
      /\ q.n \in 1..loyaltyClicks /\ q.who \in Customers /\ q.count \in Nat /\ \A r \in punches : r.n # q.n
  BY <1>1, <1>2, <1>3, Zenon DEF LoyaltyCall
<1>5. PICK s : s = [n |-> q.n, who |-> q.who, count |-> q.count, event |-> q.event, old |-> FALSE]
  OBVIOUS
<1>6. RowFields(s) /\ s.n = q.n /\ s.who = q.who /\ s.count = q.count /\ s.event = q.event /\ s.old = FALSE
  BY <1>5, SMT DEF RowFields
<1>7. ~ s.old /\ s.old \in BOOLEAN
  BY <1>6, FalseIsNot, Zenon
<1>8. PICK P, R : P = punches' /\ R = rewards'
  OBVIOUS
<1>9. P = punches \cup {s} /\ R = [rewards EXCEPT ![q.who] = @ + q.answer.new]
  BY <1>5, <1>8, Zenon DEF Loyalty!Stored
<1>10. s \notin punches
  BY <1>4, <1>6, Zenon
<1>11. /\ IsFiniteSet(punches)
       /\ \A r \in punches : RowFields(r) /\ r.n \in 0..loyaltyClicks /\ r.count \in Nat /\ r.old \in BOOLEAN /\ r.who \in Customers
       /\ \A r \in punches : r.old => \A t \in punches : t.who = r.who => t = r
       /\ \A r, t \in punches : r.event = t.event /\ r.event # NoEvent => r = t
  BY <1>1, Zenon DEF RowsAre
<1>12. \A r \in punches : r.who = q.who => ~ r.old
  BY <1>4, Zenon DEF LockedAs
<1>13. RowsAre(P, loyaltyClicks)
  <2>1. IsFiniteSet(P)
    BY <1>9, <1>11, FS_AddElement, Zenon
  <2>2. q.n \in 0..loyaltyClicks
    BY <1>1, <1>4
  <2>3. \A r \in P : RowFields(r) /\ r.n \in 0..loyaltyClicks /\ r.count \in Nat /\ r.old \in BOOLEAN /\ r.who \in Customers
    BY <1>4, <1>6, <1>7, <1>9, <1>11, <2>2, Zenon
  <2>4. ASSUME NEW r \in P, r.old, NEW t \in P, t.who = r.who
        PROVE  t = r
    <3>1. r \in punches
      BY <1>7, <1>9, <2>4, Zenon
    <3>2. t \in punches
      BY <1>6, <1>9, <1>12, <2>4, <3>1, Zenon
    <3>. QED
      BY <1>11, <2>4, <3>1, <3>2, Zenon
  <2>5. \A r \in punches : ~ (r.event = q.event /\ q.event # NoEvent)
    BY Zenon DEF Loyalty!Claimed
  <2>6. \A r, t \in P : r.event = t.event /\ r.event # NoEvent => r = t
    BY <1>6, <1>9, <1>11, <2>5, Zenon
  <2>. QED
    BY <2>1, <2>3, <2>4, <2>6, Zenon DEF RowsAre
<1>14. ASSUME NEW y \in Customers
       PROVE  /\ y # q.who => RowsWith(P, y) = RowsWith(punches, y)
              /\ y = q.who => RowsWith(P, y) = RowsWith(punches, y) \cup {s}
              /\ IsFiniteSet(RowsWith(punches, y)) /\ \A r \in RowsWith(punches, y) : r.count \in Int
  <2>1. IsFiniteSet(RowsWith(punches, y))
    BY <1>11, FS_Subset, Zenon DEF RowsWith
  <2>2. \A r \in RowsWith(punches, y) : r.count \in Int
    BY <1>11, SMT DEF RowsWith
  <2>. QED
    BY <1>6, <1>9, <2>1, <2>2, Zenon DEF RowsWith
<1>15. RewardsAre(P, R)
  <2>. DEFINE x == q.who
              sum == SumOf(RowsWith(punches, x))
              new == Loyalty!Owed(sum + q.count, rewards[x])
  <2>1. sum \in Int /\ SumOf(RowsWith(P, x)) = sum + q.count
    <3>1. sum \in Int
      BY <1>4, <1>14, SumOfNumber, Zenon
    <3>2. s \notin RowsWith(punches, x) /\ RowsWith(P, x) = RowsWith(punches, x) \cup {s} /\ s.count \in Int
      <4>1. s.count \in Int
        BY <1>4, <1>6, SMT
      <4>. QED
        BY <1>4, <1>10, <1>14, <4>1, Zenon DEF RowsWith
    <3>3. SumOf(RowsWith(P, x)) = sum + s.count
      BY <1>4, <1>14, <3>2, SumOfAdd, Zenon
    <3>. QED
      BY <1>6, <3>1, <3>3, Zenon
  <2>2. Threshold \in Nat \ {0}
    BY ConsoleAssumption, Zenon DEF ConsoleAssumption, Loyalty!LoyaltyAssumption
  <2>3. rewards \in [Customers -> Int] /\ rewards[x] = sum \div Threshold
    BY <1>1, <1>4, Zenon DEF RewardsAre
  <2>4. q.answer.new = new
    BY <1>4, Zenon DEF LockedAs
  <2>5. rewards[x] + new = SumOf(RowsWith(P, x)) \div Threshold
    <3>1. (sum \div Threshold) + Loyalty!Owed(sum + q.count, sum \div Threshold) = (sum + q.count) \div Threshold
      <4>. HIDE DEF sum
      <4>. QED
        BY <1>4, <2>1, <2>2, OwedIs, Zenon
    <3>. QED
      BY <2>1, <2>3, <3>1, Zenon
  <2>6. SumOf(RowsWith(P, x)) \div Threshold \in Int
    <3>. HIDE DEF sum
    <3>1. sum + q.count \in Int
      BY <1>4, <2>1
    <3>. QED
      BY <2>1, <2>2, <3>1
  <2>. HIDE DEF new, sum
  <2>7. R = [rewards EXCEPT ![x] = rewards[x] + new]
    BY <1>9, <2>4, Zenon
  <2>8. R \in [Customers -> Int] /\ R[x] = rewards[x] + new /\ \A y \in Customers : y # x => R[y] = rewards[y]
    BY ONLY <1>4, <2>3, <2>5, <2>6, <2>7, Zenon
  <2>9. ASSUME NEW y \in Customers PROVE R[y] = SumOf(RowsWith(P, y)) \div Threshold
    <3>1. CASE y = x
      BY <2>5, <2>8, <3>1, Zenon
    <3>2. CASE y # x
      <4>1. RowsWith(P, y) = RowsWith(punches, y) /\ R[y] = rewards[y]
        BY <1>14, <2>8, <2>9, <3>2, Zenon
      <4>. QED
        BY <1>1, <2>9, <4>1, Zenon DEF RewardsAre
    <3>. QED
      BY <3>1, <3>2, Zenon
  <2>. QED
    BY <2>8, <2>9, Zenon DEF RewardsAre
<1>16. ASSUME NEW d \in loyaltyCalls, d # q PROVE LoyaltyCall(d, P, R, loyaltyClicks) /\ ~ AtLock(d)
  <2>1. LoyaltyCall(d, punches, rewards, loyaltyClicks) /\ ~ AtLock(d) /\ (d.kind = "punch" => d.n # q.n)
    BY <1>1, <1>2, <1>3, <1>16, Zenon DEF OneByOne
  <2>. QED
    BY <1>6, <1>9, <2>1, Zenon DEF LoyaltyCall
<1>. DEFINE a == [q.answer EXCEPT !.at = "ok"]
            r == [q EXCEPT !.answer = a]
<1>17. a.at = "ok"
  BY <1>4, CountedMoves, Zenon DEF LockedAs
<1>. HIDE DEF a
<1>18. LoyaltyFields(r) /\ r.kind = q.kind /\ r.n = q.n /\ r.answer = a /\ r.who = q.who /\ r.count = q.count
  <2>1. LoyaltyFields(q) /\ q.kind = "punch"
    BY <1>3, <1>4, Zenon
  <2>. QED
    BY ONLY <2>1, LoyaltyAnswered, Zenon
<1>19. loyaltyCalls' = (loyaltyCalls \ {q}) \cup {r}
  BY Zenon DEF Loyalty!Answer, a
<1>. HIDE DEF r
<1>20. LoyaltyCall(r, P, R, loyaltyClicks) /\ ~ AtLock(r)
  BY <1>4, <1>17, <1>18, LoyaltyAt, Zenon DEF LoyaltyCall, AtLock, UnderWay
<1>. QED
  BY <1>8, <1>13, <1>15, <1>16, <1>18, <1>19, <1>20, LoyaltyServed, Zenon

LEMMA LoyaltyServe ==
    ASSUME LoyaltyInv, NEW q \in loyaltyCalls,
           \/ Loyalty!ServeLoad(q) \/ Loyalty!Admit(q) \/ Loyalty!Begin(q) \/ Loyalty!BeginFails(q)
           \/ Loyalty!IssueRewards(q) \/ Loyalty!Store(q)
    PROVE  LoyaltyInv'
<1>1. LoyaltyCall(q, punches, rewards, loyaltyClicks)
  BY Zenon DEF LoyaltyInv
<1>2. UNCHANGED <<punches, rewards, loyaltyClicks>> /\ Loyalty!Answer(q, Loyalty!Refused) => LoyaltyInv'
  BY LoyaltyAt, LoyaltySays, Zenon
<1>3. CASE Loyalty!ServeLoad(q)
  <2>1. PICK a : a.at = "ok" /\ Loyalty!Answer(q, a) /\ UNCHANGED <<punches, rewards, loyaltyClicks>>
    <3>1. \A x, y : [at |-> "ok", punches |-> x, rewards |-> y].at = "ok"
      OBVIOUS
    <3>. QED
      BY <1>3, <3>1, Zenon DEF Loyalty!ServeLoad, Loyalty!api
  <2>. QED
    BY <2>1, LoyaltyAt, LoyaltySays, Zenon
<1>4. CASE Loyalty!Admit(q)
  <2>1. /\ q.kind = "punch" /\ UnderWay(q) /\ UNCHANGED <<punches, rewards, loyaltyClicks>>
    <3>1. "sent" \in {"sent", "waiting", "issuing", "storing"}
      BY SMT
    <3>. QED
      BY <1>4, <3>1, LoyaltyAt, Zenon DEF Loyalty!Admit, Loyalty!api, UnderWay
  <2>2. CASE Loyalty!Answer(q, Loyalty!Refused)
    BY <1>2, <2>1, <2>2, Zenon
  <2>3. CASE Loyalty!Answer(q, [at |-> "waiting"])
    <3>1. PICK a : a = [at |-> "waiting"]
      OBVIOUS
    <3>2. a.at = "waiting"
      BY <3>1
    <3>3. Loyalty!Answer(q, a)
      BY <2>3, <3>1, Zenon
    <3>. QED
      BY <2>1, <3>2, <3>3, LoyaltyAt, LoyaltySays, Zenon
  <2>. QED
    BY <1>4, <2>2, <2>3, Zenon DEF Loyalty!Admit
<1>5. CASE Loyalty!BeginFails(q)
  BY <1>2, <1>5, Zenon DEF Loyalty!BeginFails, Loyalty!api
<1>6. CASE Loyalty!IssueRewards(q)
  <2>1. UNCHANGED <<punches, rewards, loyaltyClicks>> /\ AtLock(q) /\ UnderWay(q)
    BY <1>6, LoyaltyAt, Zenon DEF Loyalty!IssueRewards, AtLock, UnderWay
  <2>2. q.kind = "punch" /\ Counted(q.answer)
    BY <1>1, <2>1, LoyaltyAt, Zenon DEF LoyaltyCall, AtLock, LockedAs
  <2>3. CASE Loyalty!Answer(q, [q.answer EXCEPT !.at = "storing"])
    <3>1. PICK a : a = [q.answer EXCEPT !.at = "storing"]
      OBVIOUS
    <3>2. Counted(a) /\ a.at = "storing" /\ a.new = q.answer.new
      BY <2>2, <3>1, CountedMoves, Zenon
    <3>3. Loyalty!Answer(q, a)
      BY <2>3, <3>1, Zenon
    <3>. QED
      BY <2>1, <2>2, <3>2, <3>3, LoyaltySays, Zenon
  <2>4. CASE Loyalty!Answer(q, Loyalty!Refused)
    BY <1>2, <2>1, <2>4, Zenon
  <2>. QED
    BY <1>6, <2>3, <2>4, Zenon DEF Loyalty!IssueRewards
<1>7. CASE Loyalty!Store(q)
  <2>1. UNCHANGED loyaltyClicks /\ q.answer.at = "storing"
    BY <1>7, Zenon DEF Loyalty!Store
  <2>. QED
    BY <1>2, <1>7, <2>1, LoyaltyStores, Zenon DEF Loyalty!Store
<1>. QED
  BY <1>3, <1>4, <1>5, <1>6, <1>7, LoyaltyCounts, Zenon

\* Handlers under way end where they are.
LEMMA LoyaltyRestart ==
    ASSUME LoyaltyInv, Loyalty!Restart
    PROVE  LoyaltyInv'
<1>. DEFINE ends(q) == IF q.answer.at \in {"waiting", "issuing", "storing"} THEN [q EXCEPT !.answer = Loyalty!Refused] ELSE q
<1>1. loyaltyCalls' = {ends(q) : q \in loyaltyCalls} /\ UNCHANGED <<punches, rewards, loyaltyClicks>>
  BY Zenon DEF Loyalty!Restart, Loyalty!api
<1>2. \A q \in loyaltyCalls : LoyaltyCall(q, punches, rewards, loyaltyClicks)
  BY Zenon DEF LoyaltyInv
<1>3. ASSUME NEW q \in loyaltyCalls
      PROVE  LoyaltyCall(ends(q), punches, rewards, loyaltyClicks) /\ ~ AtLock(ends(q)) /\ ends(q).kind = q.kind /\ ends(q).n = q.n
  <2>1. CASE q.answer.at \notin {"waiting", "issuing", "storing"}
    <3>1. ends(q) = q
      BY <2>1, Zenon
    <3>2. ~ AtLock(q)
      BY <2>1, LoyaltyAt, Zenon DEF AtLock
    <3>. QED
      BY <1>2, <3>1, <3>2, Zenon
  <2>2. CASE q.answer.at \in {"waiting", "issuing", "storing"}
    <3>1. PICK r : r = [q EXCEPT !.answer = Loyalty!Refused]
      OBVIOUS
    <3>2. ends(q) = r
      BY <2>2, <3>1, Zenon
    <3>. HIDE DEF ends
    <3>3. LoyaltyFields(q) /\ q.kind = "punch"
      BY <1>2, <2>2, Zenon DEF LoyaltyCall
    <3>4. LoyaltyFields(r) /\ r.kind = q.kind /\ r.n = q.n /\ r.answer = Loyalty!Refused /\ r.who = q.who /\ r.count = q.count
      BY ONLY <3>1, <3>3, LoyaltyAnswered, Zenon
    <3>5. LoyaltyCall(r, punches, rewards, loyaltyClicks) /\ ~ AtLock(r)
      BY <1>2, <3>3, <3>4, LoyaltyAt, Zenon DEF LoyaltyCall, AtLock, UnderWay
    <3>. QED
      BY <3>2, <3>4, <3>5, Zenon
  <2>. QED
    BY <2>1, <2>2, Zenon
<1>. HIDE DEF ends
<1>4. ASSUME NEW r \in loyaltyCalls'
      PROVE  \E q \in loyaltyCalls : r = ends(q) /\ LoyaltyCall(r, punches, rewards, loyaltyClicks) /\ ~ AtLock(r)
                                     /\ r.kind = q.kind /\ r.n = q.n
  <2>1. PICK q \in loyaltyCalls : r = ends(q)
    BY <1>1, <1>4, Zenon
  <2>. QED
    BY <1>3, <2>1, Zenon
<1>5. OneByOne(loyaltyCalls')
  <2>1. ASSUME NEW d \in loyaltyCalls', NEW e \in loyaltyCalls', d.kind = "punch", e.kind = "punch", d.n = e.n PROVE d = e
    <3>1. PICK p \in loyaltyCalls : d = ends(p) /\ d.kind = p.kind /\ d.n = p.n
      BY <1>4, <2>1, Zenon
    <3>2. PICK q \in loyaltyCalls : e = ends(q) /\ e.kind = q.kind /\ e.n = q.n
      BY <1>4, <2>1, Zenon
    <3>3. p = q
      BY <2>1, <3>1, <3>2, Zenon DEF LoyaltyInv, OneByOne
    <3>. QED
      BY <3>1, <3>2, <3>3, Zenon
  <2>2. \A d \in loyaltyCalls' : ~ AtLock(d)
    BY <1>4, Zenon
  <2>. QED
    BY <2>1, <2>2, Zenon DEF OneByOne
<1>6. \A d \in loyaltyCalls' : LoyaltyCall(d, punches', rewards', loyaltyClicks')
  BY <1>1, <1>4, Zenon
<1>. QED
  BY <1>1, <1>5, <1>6, Zenon DEF LoyaltyInv

\* A punch is sent with the next number.
LEMMA LoyaltyRecords ==
    ASSUME LoyaltyInv, NEW x \in Customers, NEW ev, NEW count \in Counts, Loyalty!Record(x, ev, count)
    PROVE  LoyaltyInv'
<1>1. CASE loyaltyCalls' = loyaltyCalls /\ loyaltyClicks' = loyaltyClicks
  <2>1. UNCHANGED <<punches, rewards>>
    BY Zenon DEF Loyalty!Record, Loyalty!api
  <2>. QED
    BY <1>1, <2>1, LoyaltyRest, Zenon
<1>2. CASE count \in 1..Most /\ loyaltyClicks' = loyaltyClicks + 1 /\
           loyaltyCalls' = loyaltyCalls \cup {[kind |-> "punch", n |-> loyaltyClicks + 1, mount |-> loyaltyMount, heard |-> TRUE,
                                    form |-> loyaltyForm, who |-> x, event |-> ev, count |-> count, answer |-> Loyalty!Sent]}
  <2>1. PICK q, n : /\ n = loyaltyClicks + 1
                    /\ q = [kind |-> "punch", n |-> n, mount |-> loyaltyMount, heard |-> TRUE,
                            form |-> loyaltyForm, who |-> x, event |-> ev, count |-> count, answer |-> Loyalty!Sent]
    OBVIOUS
  <2>2. loyaltyCalls' = loyaltyCalls \cup {q} /\ loyaltyClicks' = n
    BY <1>2, <2>1, Zenon
  <2>3. LoyaltyFields(q) /\ q.kind = "punch" /\ q.n = n /\ q.who = x /\ q.count = count /\ q.answer = Loyalty!Sent
    BY <2>1, SMT DEF LoyaltyFields
  <2>4. count \in Nat
    BY <1>2
  <2>5. /\ loyaltyClicks \in Nat /\ RowsAre(punches, loyaltyClicks) /\ RewardsAre(punches, rewards)
        /\ (\A d \in loyaltyCalls : LoyaltyCall(d, punches, rewards, loyaltyClicks)) /\ OneByOne(loyaltyCalls)
    BY Zenon DEF LoyaltyInv
  <2>6. /\ n \in Nat /\ n \in 1..n /\ (\A k \in 0..loyaltyClicks : k \in 0..n /\ k # n)
        /\ \A k \in 1..loyaltyClicks : k \in 1..n /\ k # n
    BY <2>1, <2>5
  <2>7. RowsAre(punches, n)
    BY <2>5, <2>6, Zenon DEF RowsAre
  <2>8. \A r \in punches : r.n # n
    BY <2>5, <2>6, Zenon DEF RowsAre
  <2>9. LoyaltyCall(q, punches, rewards, n) /\ ~ AtLock(q)
    BY <2>3, <2>4, <2>6, <2>8, LoyaltyAt, Zenon DEF LoyaltyCall, AtLock
  <2>10. \A d \in loyaltyCalls : LoyaltyCall(d, punches, rewards, n) /\ (d.kind = "punch" => d.n # n)
    BY <2>5, <2>6, Zenon DEF LoyaltyCall
  <2>11. OneByOne(loyaltyCalls')
    BY <2>2, <2>3, <2>5, <2>9, <2>10, Zenon DEF OneByOne
  <2>12. UNCHANGED <<punches, rewards>>
    BY Zenon DEF Loyalty!Record, Loyalty!api
  <2>. QED
    BY <2>2, <2>5, <2>6, <2>7, <2>9, <2>10, <2>11, <2>12, Zenon DEF LoyaltyInv
<1>. QED
  BY <1>1, <1>2, Zenon DEF Loyalty!Record

\* A request that breaks goes on unheard.
LEMMA LoyaltyLost ==
    ASSUME LoyaltyInv, NEW q \in loyaltyCalls, Loyalty!Lose(q)
    PROVE  LoyaltyInv'
<1>. DEFINE r == [q EXCEPT !.heard = FALSE]
<1>1. /\ LoyaltyCall(q, punches, rewards, loyaltyClicks) /\ RowsAre(punches, loyaltyClicks) /\ RewardsAre(punches, rewards)
      /\ (\A d \in loyaltyCalls : LoyaltyCall(d, punches, rewards, loyaltyClicks)) /\ OneByOne(loyaltyCalls)
  BY Zenon DEF LoyaltyInv
<1>2. LoyaltyFields(q) /\ q.kind = "punch"
  BY <1>1, Zenon DEF LoyaltyCall, Loyalty!Lose
<1>3. /\ LoyaltyFields(r) /\ r.kind = q.kind /\ r.n = q.n /\ r.answer = q.answer /\ r.who = q.who /\ r.count = q.count
  BY <1>2, LoyaltyHeard, Zenon
<1>4. loyaltyCalls' = (loyaltyCalls \ {q}) \cup {r} /\ UNCHANGED <<punches, rewards, loyaltyClicks>>
  BY Zenon DEF Loyalty!Lose, Loyalty!Rest, Loyalty!api
<1>. HIDE DEF r
<1>5. LoyaltyCall(r, punches, rewards, loyaltyClicks)
  BY <1>1, <1>2, <1>3, Zenon DEF LoyaltyCall, AtLock, UnderWay, LockedAs
<1>6. AtLock(r) => \A d \in loyaltyCalls : d # q => ~ AtLock(d)
  BY <1>1, <1>3, Zenon DEF OneByOne, AtLock
<1>. QED
  BY <1>1, <1>3, <1>4, <1>5, <1>6, LoyaltyServed, Zenon

LEMMA LoyaltyKept == LoyaltyInv /\ (Loyalty!Next \/ UNCHANGED loyaltyVars) => LoyaltyInv'
<1>. SUFFICES ASSUME LoyaltyInv, Loyalty!Next \/ UNCHANGED loyaltyVars PROVE LoyaltyInv'
  OBVIOUS
<1>. DEFINE asks(k, n, m) == [kind |-> k, n |-> n, mount |-> m, heard |-> TRUE, answer |-> Loyalty!Sent]
            Asked(k) == loyaltyCalls' \subseteq loyaltyCalls \/ \E n, m : loyaltyCalls' \subseteq loyaltyCalls \cup {asks(k, n, m)}
<1>1. \A k \in {"list", "program"} : \A n, m :
         LoyaltyFields(asks(k, n, m)) /\ asks(k, n, m).kind = k /\ asks(k, n, m).answer.at = "sent"
  BY SMT DEF LoyaltyFields, Loyalty!Sent
<1>. HIDE DEF asks
<1>2. ASSUME NEW k \in {"list", "program"}, UNCHANGED <<punches, rewards, loyaltyClicks>>, Asked(k) PROVE LoyaltyInv'
  <2>1. ASSUME NEW q \in loyaltyCalls'
        PROVE  q \in loyaltyCalls \/ (LoyaltyFields(q) /\ q.kind \in {"list", "program"} /\ q.answer.at = "sent")
    <3>1. CASE loyaltyCalls' \subseteq loyaltyCalls
      BY <2>1, <3>1, Zenon
    <3>2. CASE \E n, m : loyaltyCalls' \subseteq loyaltyCalls \cup {asks(k, n, m)}
      <4>1. PICK n, m : loyaltyCalls' \subseteq loyaltyCalls \cup {asks(k, n, m)}
        BY <3>2, Zenon
      <4>2. q \in loyaltyCalls \/ q = asks(k, n, m)
        BY <2>1, <4>1, Zenon
      <4>3. LoyaltyFields(asks(k, n, m)) /\ asks(k, n, m).kind = k /\ asks(k, n, m).answer.at = "sent"
        BY <1>1, Zenon
      <4>. QED
        BY <4>2, <4>3, Zenon
    <3>. QED
      BY <1>2, <3>1, <3>2, Zenon
  <2>. QED
    BY <1>2, <2>1, LoyaltyRest, Zenon
<1>3. "list" \in {"list", "program"} /\ "program" \in {"list", "program"}
  BY SMT
<1>4. CASE UNCHANGED loyaltyVars \/ Loyalty!OpenForm \/ Loyalty!CloseForm \/ Loyalty!CloseProgram
  <2>1. UNCHANGED <<punches, rewards, loyaltyClicks, loyaltyCalls>>
    BY <1>4, Zenon DEF loyaltyVars, Loyalty!OpenForm, Loyalty!CloseForm, Loyalty!CloseProgram, Loyalty!api
  <2>. QED
    BY <2>1, LoyaltyRest, Zenon
<1>5. ASSUME NEW k \in {"list", "program"}, Loyalty!Goto(k) PROVE LoyaltyInv'
  <2>1. UNCHANGED <<punches, rewards, loyaltyClicks>> /\ Asked(k)
    BY <1>5, Zenon DEF Loyalty!Goto, Loyalty!Mount, Loyalty!Load, Loyalty!api, asks
  <2>. QED
    BY <1>2, <2>1, Zenon
<1>6. ASSUME NEW q \in loyaltyCalls, Loyalty!Loaded(q) \/ Loyalty!RecordFails(q) PROVE LoyaltyInv'
  <2>1. UNCHANGED <<punches, rewards, loyaltyClicks>> /\ Asked("list")
    BY <1>6, Zenon DEF Loyalty!Loaded, Loyalty!RecordFails, Loyalty!Rest, Loyalty!api
  <2>. QED
    BY <1>2, <1>3, <2>1, Zenon
<1>7. ASSUME NEW q \in loyaltyCalls, Loyalty!LoadFails(q) PROVE LoyaltyInv'
  <2>1. UNCHANGED <<punches, rewards, loyaltyClicks>> /\ Asked("list")
    BY <1>7, Zenon DEF Loyalty!LoadFails, Loyalty!Rest, Loyalty!api, asks
  <2>. QED
    BY <1>2, <1>3, <2>1, Zenon
<1>8. ASSUME NEW q \in loyaltyCalls, Loyalty!Recorded(q) PROVE LoyaltyInv'
  <2>1. UNCHANGED <<punches, rewards, loyaltyClicks>> /\ Asked("program")
    BY <1>8, Zenon DEF Loyalty!Recorded, Loyalty!Reload, Loyalty!Rest, Loyalty!api, asks
  <2>. QED
    BY <1>2, <1>3, <2>1, Zenon
<1>. QED
  BY <1>4, <1>5, <1>6, <1>7, <1>8, LoyaltyServe, LoyaltyRestart, LoyaltyRecords, LoyaltyLost, Zenon DEF Loyalty!Next

-----------------------------------------------------------------------------
\* The page of a campaign: what writes have done.

Posts(q) == q.kind # "load"

\* The writes W have numbers of their own, from 1 to how many they are.
WritesNumbered(W) ==
    /\ IsFiniteSet(W) /\ \A w \in W : WriteFields(w) /\ w.n \in 1..Cardinality(W)
    /\ \A v, w \in W : v.n = w.n => v = w

\* A request of the n-th write, as W records it.
IsRecorded(q, W, n) ==
    Posts(q) => /\ q.n \in 1..n /\ q.from \in Campaigns /\ (q.kind # "events" => q.ref = Detail!NoRef)
                /\ \A w \in W : w.n = q.n => w.kind = q.kind /\ w.id = q.id /\ w.ref = q.ref

\* What a request asks for, by the flags A: an issuance that goes on was sent before
\* the page said that the campaign is archived; an archive answered has archived.
EffectCall(q, A, W, n) ==
    /\ q.id \in Campaigns /\ IsRecorded(q, W, n)
    /\ q.answer.at = "issuing" => q.kind = "issue" /\ \A w \in W : w.n = q.n => ~ w.after
    /\ q.kind = "archive" /\ q.answer.at \in {"ok", "part"} => A[q.id]

\* What a write has done, by the numbers D: an event that counted has claimed its
\* reference in R; what was sent after the page said archived did nothing.
WriteDid(w, A, R, D) ==
    /\ w.id \in Campaigns
    /\ D[w.n] # 0 /\ w.ref # Detail!NoRef => w.ref \in R[w.id]
    /\ w.kind = "archive" /\ w.told # Detail!Sent => A[w.id]
    /\ w.after => A[w.id]
    /\ w.after /\ w.kind # "archive" => D[w.n] = 0

OnePost(C) == \A p, q \in C : Posts(p) /\ Posts(q) /\ p.n = q.n => p = q

EffectsInv ==
    /\ WritesNumbered(detailWrites) /\ did \in [1..Cardinality(detailWrites) -> Nat]
    /\ detailArchived \in [Campaigns -> BOOLEAN] /\ DOMAIN refs = Campaigns
    /\ route \in Campaigns \cup {Detail!List} /\ (detailShown # Detail!NotLoaded => detailShown.id \in Campaigns)
    /\ \A q \in detailCalls : EffectCall(q, detailArchived, detailWrites, Cardinality(detailWrites))
    /\ OnePost(detailCalls)
    /\ \A w \in detailWrites : WriteDid(w, detailArchived, refs, did)
    /\ Detail!RefsCountOnce

LEMMA DetailCardinality == \A S : Detail!Cardinality(S) = Cardinality(S)
BY Zenon DEF Detail!Cardinality, Cardinality

LEMMA EffectsTell == EffectsInv => Detail!RefsCountOnce /\ Detail!ArchiveBlocksNew
BY Zenon DEF EffectsInv, WriteDid, Detail!ArchiveBlocksNew

LEMMA EffectsBegin == Detail!Init => EffectsInv
<1>. SUFFICES ASSUME Detail!Init PROVE EffectsInv
  OBVIOUS
<1>1. /\ detailWrites = {} /\ detailCalls = {} /\ did = <<>> /\ route = Detail!List /\ detailShown = Detail!NotLoaded
      /\ detailArchived = [x \in Campaigns |-> FALSE] /\ refs = [x \in Campaigns |-> {}]
  BY Zenon DEF Detail!Init
<1>2. IsFiniteSet(detailWrites) /\ Cardinality(detailWrites) = 0
  BY <1>1, FS_EmptySet
<1>3. did \in [1..0 -> Nat]
  BY <1>1
<1>4. detailArchived \in [Campaigns -> BOOLEAN] /\ DOMAIN refs = Campaigns
  BY <1>1, Zenon
<1>. QED
  BY <1>1, <1>2, <1>3, <1>4, Zenon DEF EffectsInv, WritesNumbered, OnePost, Detail!RefsCountOnce

\* Only loads are asked for, answered or dropped.
LEMMA EffectsRest ==
    ASSUME EffectsInv, UNCHANGED <<detailWrites, did, detailArchived, refs>>,
           route' \in Campaigns \cup {Detail!List}, detailShown' # Detail!NotLoaded => detailShown'.id \in Campaigns,
           \A q \in detailCalls' : q \in detailCalls \/ (q.kind = "load" /\ q.id \in Campaigns /\ q.answer.at # "issuing")
    PROVE  EffectsInv'
<1>1. "load" # "archive" /\ "load" # "issue"
  BY SMT
<1>2. \A q \in detailCalls' : EffectCall(q, detailArchived', detailWrites', Cardinality(detailWrites'))
  BY <1>1, Zenon DEF EffectsInv, EffectCall, IsRecorded, Posts
<1>3. OnePost(detailCalls')
  BY <1>1, Zenon DEF EffectsInv, OnePost, Posts
<1>4. Detail!RefsCountOnce'
  BY Zenon DEF EffectsInv, Detail!RefsCountOnce
<1>5. WritesNumbered(detailWrites') /\ did' \in [1..Cardinality(detailWrites') -> Nat]
  BY Zenon DEF EffectsInv
<1>6. \A w \in detailWrites' : WriteDid(w, detailArchived', refs', did')
  BY Zenon DEF EffectsInv
<1>7. detailArchived' \in [Campaigns -> BOOLEAN] /\ DOMAIN refs' = Campaigns
  BY Zenon DEF EffectsInv
<1>. QED
  BY <1>2, <1>3, <1>4, <1>5, <1>6, <1>7, Zenon DEF EffectsInv

\* A new write takes the next number, and has done nothing.
LEMMA EffectsWrites ==
    ASSUME EffectsInv, NEW sort \in {"archive", "issue", "events"}, NEW id \in Campaigns, NEW qty, NEW ref,
           Detail!Write(sort, id, qty, ref), route \in Campaigns, sort # "events" => ref = Detail!NoRef
    PROVE  EffectsInv'
<1>. DEFINE N == Cardinality(detailWrites)
            Q(x) == [n |-> x, kind |-> sort, id |-> id, env |-> detailEnv, mount |-> detailMount, answer |-> Detail!Sent,
                     from |-> route, inst |-> detailInst, qty |-> qty, ref |-> ref, left |-> qty]
            W(x, y) == [n |-> x, kind |-> sort, id |-> id, seen |-> detailShown.id, inst |-> detailInst, ref |-> ref,
                        late |-> overtaken, told |-> Detail!Sent, after |-> y]
            old == \E a \in detailWrites : a.kind = "archive" /\ a.id = id /\ a.told # Detail!Sent
<1>1. PICK p : /\ p = Q(N + 1) /\ Detail!Sends(p) /\ detailWrites' = detailWrites \cup {W(p.n, old)}
               /\ did' = [m \in 1..p.n |-> IF m = p.n THEN 0 ELSE did[m]]
  BY DetailCardinality, Zenon DEF Detail!Write
<1>2. UNCHANGED <<detailArchived, refs, route, detailShown>> /\ detailCalls' = detailCalls \cup {p}
  BY <1>1, Zenon DEF Detail!Write, Detail!Sends
<1>3. PICK v : v = W(p.n, old)
  OBVIOUS
<1>4. /\ p.n = N + 1 /\ p.kind = sort /\ p.id = id /\ p.ref = ref /\ p.from = route /\ p.answer = Detail!Sent
      /\ p.answer.at = "sent"
  BY <1>1, SMT DEF Detail!Sent
<1>5. WriteFields(v) /\ v.n = p.n /\ v.kind = sort /\ v.id = id /\ v.ref = ref /\ v.told = Detail!Sent /\ v.after = old
  <2>. HIDE DEF old
  <2>. QED
    BY <1>3, SMT DEF WriteFields
<1>6. sort # "load" /\ "sent" \notin {"issuing", "ok", "part"}
  BY SMT
<1>7. detailWrites' = detailWrites \cup {v}
  BY <1>1, <1>3, Zenon
<1>8. /\ WritesNumbered(detailWrites) /\ did \in [1..N -> Nat]
      /\ \A q \in detailCalls : EffectCall(q, detailArchived, detailWrites, N)
      /\ \A w \in detailWrites : WriteDid(w, detailArchived, refs, did)
      /\ OnePost(detailCalls) /\ Detail!RefsCountOnce
  BY Zenon DEF EffectsInv
<1>9. /\ IsFiniteSet(detailWrites) /\ (\A w \in detailWrites : WriteFields(w) /\ w.n \in 1..N)
      /\ \A d, w \in detailWrites : d.n = w.n => d = w
  BY <1>8, Zenon DEF WritesNumbered
<1>. HIDE DEF Q, W, old
<1>10. N \in Nat
  BY <1>9, FS_CardinalityType, Zenon
<1>11. \A m \in 1..N : m \in 1..(N + 1) /\ m # p.n
  BY <1>4, <1>10
<1>12. v \notin detailWrites
  BY <1>5, <1>9, <1>11, Zenon
<1>13. IsFiniteSet(detailWrites') /\ Cardinality(detailWrites') = N + 1
  BY <1>7, <1>9, <1>12, FS_AddElement, Zenon
<1>14. p.n \in 1..(N + 1)
  BY <1>4, <1>10
<1>15. WritesNumbered(detailWrites')
  BY <1>5, <1>7, <1>9, <1>11, <1>13, <1>14, Zenon DEF WritesNumbered
<1>16. did' = [m \in 1..(N + 1) |-> IF m = p.n THEN 0 ELSE did[m]]
  BY <1>1, <1>4, Zenon
<1>. HIDE DEF N
<1>17. did' \in [1..(N + 1) -> Nat] /\ did'[p.n] = 0 /\ \A m \in 1..N : did'[m] = did[m]
  BY <1>4, <1>8, <1>10, <1>16
<1>18. old => detailArchived[id]
  BY <1>8, Zenon DEF old, WriteDid
<1>19. ASSUME NEW w \in detailWrites' PROVE WriteDid(w, detailArchived', refs', did')
  <2>1. CASE w = v
    BY <1>2, <1>5, <1>17, <1>18, <2>1, Zenon DEF WriteDid
  <2>2. CASE w \in detailWrites
    BY <1>2, <1>8, <1>9, <1>17, <2>2, Zenon DEF WriteDid
  <2>. QED
    BY <1>7, <1>19, <2>1, <2>2, Zenon
<1>20. ASSUME NEW q \in detailCalls' PROVE EffectCall(q, detailArchived', detailWrites', N + 1)
  <2>1. CASE q = p
    <3>1. \A w \in detailWrites' : w.n = p.n => w = v
      BY <1>7, <1>9, <1>11, Zenon
    <3>2. IsRecorded(p, detailWrites', N + 1)
      BY <1>4, <1>5, <1>14, <3>1, Zenon DEF IsRecorded
    <3>. QED
      BY <1>4, <1>6, <2>1, <3>2, Zenon DEF EffectCall
  <2>2. CASE q \in detailCalls
    <3>1. EffectCall(q, detailArchived, detailWrites, N)
      BY <1>8, <2>2, Zenon
    <3>2. Posts(q) => q.n \in 1..(N + 1) /\ v.n # q.n
      BY <1>5, <1>11, <3>1, Zenon DEF EffectCall, IsRecorded
    <3>3. IsRecorded(q, detailWrites', N + 1)
      BY <1>7, <3>1, <3>2, Zenon DEF EffectCall, IsRecorded
    <3>4. "issue" # "load"
      BY SMT
    <3>. QED
      BY <1>2, <1>7, <3>1, <3>2, <3>3, <3>4, Zenon DEF EffectCall, Posts
  <2>. QED
    BY <1>2, <1>20, <2>1, <2>2, Zenon
<1>21. OnePost(detailCalls')
  <2>1. \A q \in detailCalls : Posts(q) => q.n # p.n
    BY <1>8, <1>11, Zenon DEF EffectCall, IsRecorded
  <2>. QED
    BY <1>2, <1>8, <2>1, Zenon DEF OnePost
<1>22. Detail!RefsCountOnce'
  <2>1. \A w \in detailWrites' : did'[w.n] = 0 \/ (w \in detailWrites /\ did'[w.n] = did[w.n])
    BY <1>5, <1>7, <1>9, <1>17, Zenon
  <2>. SUFFICES ASSUME NEW d \in detailWrites', NEW w \in detailWrites', d.n # w.n, d.ref = w.ref, d.ref # Detail!NoRef,
                       d.id = w.id, did'[d.n] # 0, did'[w.n] # 0
                PROVE  FALSE
    BY Zenon DEF Detail!RefsCountOnce
  <2>. QED
    BY <1>8, <2>1, Zenon DEF Detail!RefsCountOnce
<1>23. /\ detailArchived' \in [Campaigns -> BOOLEAN] /\ DOMAIN refs' = Campaigns
       /\ route' \in Campaigns \cup {Detail!List} /\ (detailShown' # Detail!NotLoaded => detailShown'.id \in Campaigns)
  BY <1>2, Zenon DEF EffectsInv
<1>. QED
  BY <1>13, <1>15, <1>17, <1>19, <1>20, <1>21, <1>22, <1>23, Zenon DEF EffectsInv

\* The number of the write that q sent grows: its reference is claimed by then,
\* and the page had not said that the campaign is archived.
CountsFor(q, W, R, S, D, E) ==
    /\ \A m \in DOMAIN D : m # q.n => E[m] = D[m]
    /\ q.ref = Detail!NoRef \/ (q.ref \notin R[q.id] /\ q.ref \in S[q.id])
    /\ \A w \in W : w.n = q.n => ~ w.after

\* A handler goes on: q becomes r, flags and references only grow.
LEMMA EffectsServed ==
    ASSUME EffectsInv, NEW q \in detailCalls, Posts(q), NEW r, detailCalls' = (detailCalls \ {q}) \cup {r},
           r.n = q.n, r.kind = q.kind, r.id = q.id, r.ref = q.ref, r.from = q.from,
           EffectCall(r, detailArchived', detailWrites, Cardinality(detailWrites)),
           UNCHANGED <<detailWrites, route, detailShown>>,
           detailArchived' \in [Campaigns -> BOOLEAN], \A k \in Campaigns : detailArchived[k] => detailArchived'[k],
           DOMAIN refs' = Campaigns, \A k \in Campaigns : refs[k] \subseteq refs'[k],
           did' \in [1..Cardinality(detailWrites) -> Nat],
           did' = did \/ CountsFor(q, detailWrites, refs, refs', did, did')
    PROVE  EffectsInv'
<1>. DEFINE N == Cardinality(detailWrites)
<1>1. /\ WritesNumbered(detailWrites) /\ DOMAIN did = 1..N
      /\ \A d \in detailCalls : EffectCall(d, detailArchived, detailWrites, N)
      /\ \A w \in detailWrites : w.n \in 1..N /\ WriteDid(w, detailArchived, refs, did)
      /\ OnePost(detailCalls) /\ Detail!RefsCountOnce
  BY Zenon DEF EffectsInv, WritesNumbered
<1>. HIDE DEF N
<1>2. \A w \in detailWrites : w.n = q.n => w.kind = q.kind /\ w.id = q.id /\ w.ref = q.ref
  BY <1>1, Zenon DEF EffectCall, IsRecorded
<1>3. ASSUME NEW d \in detailCalls' PROVE EffectCall(d, detailArchived', detailWrites, N)
  <2>1. CASE d = r
    BY <2>1, Zenon DEF N
  <2>2. CASE d \in detailCalls
    BY <1>1, <2>2, Zenon DEF EffectCall
  <2>. QED
    BY <1>3, <2>1, <2>2, Zenon
<1>4. OnePost(detailCalls')
  <2>1. \A d \in detailCalls : Posts(d) /\ d.n = q.n => d = q
    BY <1>1, Zenon DEF OnePost
  <2>2. \A d \in detailCalls' : d = r \/ (d \in detailCalls /\ d # q)
    BY Zenon
  <2>3. ASSUME NEW d \in detailCalls', NEW e \in detailCalls', Posts(d), Posts(e), d.n = e.n PROVE d = e
    <3>1. CASE d = r
      BY <2>1, <2>2, <2>3, <3>1, Zenon
    <3>2. CASE e = r
      BY <2>1, <2>2, <2>3, <3>2, Zenon
    <3>3. CASE d \in detailCalls /\ e \in detailCalls
      BY <1>1, <2>3, <3>3, Zenon DEF OnePost
    <3>. QED
      BY <2>2, <2>3, <3>1, <3>2, <3>3, Zenon
  <2>. QED
    BY <2>3, Zenon DEF OnePost
<1>5. ASSUME NEW w \in detailWrites, w.n # q.n \/ did' = did PROVE did'[w.n] = did[w.n]
  BY <1>1, <1>5, Zenon DEF CountsFor
<1>6. ASSUME NEW w \in detailWrites PROVE WriteDid(w, detailArchived', refs', did')
  <2>1. WriteDid(w, detailArchived, refs, did)
    BY <1>1, Zenon
  <2>2. CASE w.n # q.n \/ did' = did
    BY <1>5, <2>1, <2>2, Zenon DEF WriteDid
  <2>3. CASE w.n = q.n /\ CountsFor(q, detailWrites, refs, refs', did, did')
    BY <1>2, <2>1, <2>3, Zenon DEF WriteDid, CountsFor
  <2>. QED
    BY <2>2, <2>3, Zenon
<1>7. Detail!RefsCountOnce'
  <2>. SUFFICES ASSUME NEW d \in detailWrites', NEW w \in detailWrites', d.n # w.n, d.ref = w.ref, d.ref # Detail!NoRef,
                       d.id = w.id, did'[d.n] # 0, did'[w.n] # 0
                PROVE  FALSE
    BY Zenon DEF Detail!RefsCountOnce
  <2>1. d \in detailWrites /\ w \in detailWrites
    BY Zenon
  <2>2. CASE did' = did \/ (d.n # q.n /\ w.n # q.n)
    BY <1>1, <1>5, <2>1, <2>2, Zenon DEF Detail!RefsCountOnce
  <2>3. CASE CountsFor(q, detailWrites, refs, refs', did, did') /\ d.n = q.n
    <3>1. did[w.n] # 0 /\ w.ref \in refs[w.id]
      BY <1>1, <1>5, <2>1, <2>3, Zenon DEF WriteDid
    <3>. QED
      BY <1>2, <2>1, <2>3, <3>1, Zenon DEF CountsFor
  <2>4. CASE CountsFor(q, detailWrites, refs, refs', did, did') /\ w.n = q.n
    <3>1. did[d.n] # 0 /\ d.ref \in refs[d.id]
      BY <1>1, <1>5, <2>1, <2>4, Zenon DEF WriteDid
    <3>. QED
      BY <1>2, <2>1, <2>4, <3>1, Zenon DEF CountsFor
  <2>. QED
    BY <2>2, <2>3, <2>4, Zenon
<1>8. /\ route' \in Campaigns \cup {Detail!List} /\ (detailShown' # Detail!NotLoaded => detailShown'.id \in Campaigns)
  BY Zenon DEF EffectsInv
<1>9. detailWrites' = detailWrites /\ Cardinality(detailWrites') = N
  BY Zenon DEF N
<1>10. did' \in [1..N -> Nat]
  BY Zenon DEF N
<1>. QED
  BY <1>1, <1>3, <1>4, <1>6, <1>7, <1>8, <1>9, <1>10, Zenon DEF EffectsInv

\* Refused or not, who was admitted had not seen the campaign archived.
LEMMA AdmittedIsNew ==
    ASSUME EffectsInv, NEW q \in detailCalls, Posts(q), Detail!Admitted(q)
    PROVE  \A w \in detailWrites : w.n = q.n => ~ w.after
BY Zenon DEF EffectsInv, EffectCall, IsRecorded, WriteDid, Detail!Admitted

\* An answer that is neither of an issuance that begins nor of an archive.
LEMMA EffectsAnswer ==
    ASSUME EffectsInv, NEW q \in detailCalls, DetailFields(q), Posts(q), NEW a, Detail!Answered(q, a),
           a.at = "issuing" => q.kind = "issue" /\ \A w \in detailWrites : w.n = q.n => ~ w.after,
           q.kind = "archive" /\ a.at \in {"ok", "part"} => detailArchived'[q.id],
           UNCHANGED <<detailWrites, route, detailShown>>,
           detailArchived' \in [Campaigns -> BOOLEAN], \A k \in Campaigns : detailArchived[k] => detailArchived'[k],
           DOMAIN refs' = Campaigns, \A k \in Campaigns : refs[k] \subseteq refs'[k],
           did' \in [1..Cardinality(detailWrites) -> Nat],
           did' = did \/ CountsFor(q, detailWrites, refs, refs', did, did')
    PROVE  EffectsInv'
<1>. DEFINE r == [q EXCEPT !.answer = a]
<1>1. /\ r.kind = q.kind /\ r.id = q.id /\ r.n = q.n /\ r.answer = a /\ r.ref = q.ref /\ r.from = q.from
  <2>1. q.kind # "load"
    BY Zenon DEF Posts
  <2>. QED
    BY ONLY DetailFields(q), <2>1, DetailAnswered
<1>2. detailCalls' = (detailCalls \ {q}) \cup {r}
  BY Zenon DEF Detail!Answered
<1>. HIDE DEF r
<1>3. EffectCall(q, detailArchived, detailWrites, Cardinality(detailWrites))
  BY Zenon DEF EffectsInv
<1>4. EffectCall(r, detailArchived', detailWrites, Cardinality(detailWrites))
  BY <1>1, <1>3, Zenon DEF EffectCall, IsRecorded
<1>. QED
  BY <1>1, <1>2, <1>4, EffectsServed, Zenon

LEMMA EffectsServe ==
    ASSUME ScreenInv, EffectsInv, NEW q \in detailCalls, Detail!Serve(q)
    PROVE  EffectsInv'
<1>1. UNCHANGED <<detailWrites, route, detailShown>>
  BY Zenon DEF Detail!Serve, Detail!page
<1>2. DetailFields(q) /\ q.id \in Campaigns
  BY Zenon DEF ScreenInv, EffectsInv, EffectCall
<1>3. /\ did \in [1..Cardinality(detailWrites) -> Nat] /\ DOMAIN refs = Campaigns
      /\ detailArchived \in [Campaigns -> BOOLEAN]
      /\ \A w \in detailWrites : w.n \in 1..Cardinality(detailWrites)
      /\ Posts(q) => q.n \in 1..Cardinality(detailWrites)
  BY Zenon DEF EffectsInv, WritesNumbered, EffectCall, IsRecorded
<1>4. /\ "load" \notin {"archive", "issue", "events"} /\ "archive" # "issue" /\ "events" # "issue" /\ "events" # "archive"
      /\ "error" \notin {"ok", "part", "issuing"} /\ "ok" # "issuing" /\ "part" # "issuing" /\ Detail!NotFound.at = "error"
      /\ Detail!Sent.at # "issuing"
  BY SMT DEF Detail!NotFound, Detail!Sent
<1>5. CASE Detail!ServeLoad(q)
  <2>1. PICK a : Detail!Answered(q, a) /\ a.at # "issuing"
    <3>1. [at |-> "ok", id |-> q.id, minted |-> minted[q.id], archived |-> detailArchived[q.id]].at = "ok"
      OBVIOUS
    <3>. QED
      BY <1>4, <1>5, <3>1, Zenon DEF Detail!ServeLoad
  <2>. DEFINE r == [q EXCEPT !.answer = a]
  <2>2. r.kind = q.kind /\ r.id = q.id /\ r.answer = a
    BY <1>2, DetailAnswered, Zenon
  <2>3. detailCalls' = (detailCalls \ {q}) \cup {r}
    BY <2>1, Zenon DEF Detail!Answered
  <2>. HIDE DEF r
  <2>4. q.kind = "load" /\ UNCHANGED <<did, detailArchived, refs>>
    BY <1>5, Zenon DEF Detail!ServeLoad
  <2>5. \A d \in detailCalls' : d \in detailCalls \/ (d.kind = "load" /\ d.id \in Campaigns /\ d.answer.at # "issuing")
    BY <1>2, <2>1, <2>2, <2>3, <2>4, Zenon
  <2>6. route \in Campaigns \cup {Detail!List} /\ (detailShown # Detail!NotLoaded => detailShown.id \in Campaigns)
    BY Zenon DEF EffectsInv
  <2>. QED
    BY <1>1, <2>4, <2>5, <2>6, EffectsRest, Zenon
<1>6. CASE Detail!ServeArchive(q)
  <2>1. q.kind = "archive" /\ Posts(q) /\ UNCHANGED <<refs, did>>
    BY <1>4, <1>6, Zenon DEF Detail!ServeArchive, Posts
  <2>2. CASE detailArchived' = [detailArchived EXCEPT ![q.id] = TRUE] /\ Detail!Answered(q, [at |-> "ok", of |-> 0])
    <3>1. PICK a : a = [at |-> "ok", of |-> 0]
      OBVIOUS
    <3>2. a.at = "ok"
      BY <3>1
    <3>3. PICK A : A = detailArchived'
      OBVIOUS
    <3>4. A = [detailArchived EXCEPT ![q.id] = TRUE]
      BY <2>2, <3>3, Zenon
    <3>5. A \in [Campaigns -> BOOLEAN] /\ A[q.id] /\ \A k \in Campaigns : detailArchived[k] => A[k]
      BY ONLY <1>2, <1>3, <3>4, Zenon
    <3>6. Detail!Answered(q, a)
      BY <2>2, <3>1, Zenon
    <3>. QED
      BY <1>1, <1>2, <1>3, <1>4, <2>1, <3>2, <3>3, <3>5, <3>6, EffectsAnswer, Zenon
  <2>3. CASE detailArchived' = detailArchived /\ Detail!Answered(q, Detail!NotFound)
    BY <1>1, <1>2, <1>3, <1>4, <2>1, <2>3, EffectsAnswer, Zenon
  <2>. QED
    BY <1>6, <2>2, <2>3, Zenon DEF Detail!ServeArchive
<1>7. CASE Detail!ServeEvents(q)
  <2>1. q.kind = "events" /\ Posts(q) /\ UNCHANGED detailArchived
    BY <1>4, <1>7, Zenon DEF Detail!ServeEvents, Posts
  <2>2. CASE Detail!Answered(q, Detail!NotFound) /\ UNCHANGED <<refs, did>>
    BY <1>1, <1>2, <1>3, <1>4, <2>1, <2>2, EffectsAnswer, Zenon
  <2>3. CASE /\ Detail!Admitted(q) /\ q.ref \notin refs[q.id]
             /\ refs' = [refs EXCEPT ![q.id] = Detail!Claimed(q)]
             /\ did' = [did EXCEPT ![q.n] = 1] /\ Detail!Answered(q, [at |-> "ok", of |-> 1])
    <3>1. PICK a : a = [at |-> "ok", of |-> 1]
      OBVIOUS
    <3>2. a.at = "ok"
      BY <3>1
    <3>3. PICK R, D, m : R = refs' /\ D = did' /\ m = Cardinality(detailWrites)
      OBVIOUS
    <3>4. R = [refs EXCEPT ![q.id] = refs[q.id] \cup ({q.ref} \ {Detail!NoRef})]
      BY <2>3, <3>3, Zenon DEF Detail!Claimed
    <3>5. /\ DOMAIN R = Campaigns /\ \A k \in Campaigns : refs[k] \subseteq R[k]
          /\ q.ref = Detail!NoRef \/ q.ref \in R[q.id]
      BY ONLY <1>2, <1>3, <3>4, Zenon
    <3>6. D = [did EXCEPT ![q.n] = 1] /\ did \in [1..m -> Nat] /\ q.n \in 1..m
      BY <1>3, <2>1, <2>3, <3>3, Zenon
    <3>7. D \in [1..m -> Nat] /\ DOMAIN did = 1..m /\ \A k \in 1..m : k # q.n => D[k] = did[k]
      BY ONLY <3>6
    <3>8. CountsFor(q, detailWrites, refs, R, did, D)
      BY <2>1, <2>3, <3>5, <3>7, AdmittedIsNew, Zenon DEF CountsFor
    <3>9. Detail!Answered(q, a)
      BY <2>3, <3>1, Zenon
    <3>. QED
      BY <1>1, <1>2, <1>3, <1>4, <2>1, <3>2, <3>3, <3>5, <3>7, <3>8, <3>9, EffectsAnswer, Zenon
  <2>. QED
    BY <1>7, <2>2, <2>3, Zenon DEF Detail!ServeEvents
<1>8. CASE Detail!StartIssue(q)
  <2>1. q.kind = "issue" /\ Posts(q) /\ UNCHANGED <<detailArchived, refs, did>>
    BY <1>4, <1>8, Zenon DEF Detail!StartIssue, Posts
  <2>2. PICK a : Detail!Answered(q, a) /\ (a.at = "issuing" => Detail!Admitted(q))
    <3>1. [at |-> "issuing"].at = "issuing"
      OBVIOUS
    <3>. QED
      BY <1>4, <1>8, Zenon DEF Detail!StartIssue
  <2>3. a.at = "issuing" => \A w \in detailWrites : w.n = q.n => ~ w.after
    BY <2>1, <2>2, AdmittedIsNew, Zenon
  <2>. QED
    BY <1>1, <1>2, <1>3, <1>4, <2>1, <2>2, <2>3, EffectsAnswer, Zenon
<1>9. CASE Detail!IssueChunk(q)
  <2>. DEFINE r == [q EXCEPT !.left = @ - 1]
  <2>1. /\ q.answer.at = "issuing" /\ detailCalls' = (detailCalls \ {q}) \cup {r}
        /\ did' = [did EXCEPT ![q.n] = @ + 1] /\ UNCHANGED <<detailArchived, refs>>
    BY <1>9, Zenon DEF Detail!IssueChunk
  <2>2. /\ q.kind = "issue" /\ (\A w \in detailWrites : w.n = q.n => ~ w.after)
        /\ EffectCall(q, detailArchived, detailWrites, Cardinality(detailWrites))
    BY <2>1, Zenon DEF EffectsInv, EffectCall
  <2>3. Posts(q)
    BY <1>4, <2>2, Zenon DEF Posts
  <2>4. /\ r.kind = q.kind /\ r.id = q.id /\ r.n = q.n /\ r.answer = q.answer /\ r.ref = q.ref /\ r.from = q.from
    BY <1>2, <2>3, DetailLeft, Zenon DEF Posts
  <2>. HIDE DEF r
  <2>5. EffectCall(r, detailArchived', detailWrites, Cardinality(detailWrites))
    BY <2>1, <2>2, <2>4, Zenon DEF EffectCall, IsRecorded, Posts
  <2>6. PICK D, m : D = did' /\ m = Cardinality(detailWrites)
    OBVIOUS
  <2>7. D = [did EXCEPT ![q.n] = @ + 1] /\ did \in [1..m -> Nat] /\ q.n \in 1..m
    BY <1>3, <2>1, <2>3, <2>6, Zenon
  <2>8. D \in [1..m -> Nat] /\ DOMAIN did = 1..m /\ \A k \in 1..m : k # q.n => D[k] = did[k]
    BY ONLY <2>7
  <2>9. q.ref = Detail!NoRef
    BY <1>4, <2>2, <2>3, Zenon DEF EffectCall, IsRecorded
  <2>10. CountsFor(q, detailWrites, refs, refs', did, D)
    BY <2>2, <2>8, <2>9, Zenon DEF CountsFor
  <2>. QED
    BY <1>1, <1>3, <2>1, <2>3, <2>4, <2>5, <2>6, <2>8, <2>10, EffectsServed, Zenon
<1>10. CASE Detail!ChunkFails(q) \/ Detail!FinishIssue(q)
  <2>1. q.answer.at = "issuing" /\ UNCHANGED <<detailArchived, refs, did>>
    BY <1>10, Zenon DEF Detail!ChunkFails, Detail!FinishIssue
  <2>2. q.kind = "issue"
    BY <2>1, Zenon DEF EffectsInv, EffectCall
  <2>3. Posts(q)
    BY <1>4, <2>2, Zenon DEF Posts
  <2>4. PICK a : Detail!Answered(q, a) /\ a.at # "issuing"
    <3>1. \A z : [at |-> "part", of |-> z].at = "part" /\ [at |-> "ok", of |-> z].at = "ok"
      OBVIOUS
    <3>. QED
      BY <1>4, <1>10, <3>1, Zenon DEF Detail!ChunkFails, Detail!FinishIssue
  <2>. QED
    BY <1>1, <1>2, <1>3, <1>4, <2>1, <2>2, <2>3, <2>4, EffectsAnswer, Zenon
<1>. QED
  BY <1>5, <1>6, <1>7, <1>8, <1>9, <1>10, Zenon DEF Detail!Serve

\* A write that returns: its record is told the answer, and the page asks again.
LEMMA EffectsReturn ==
    ASSUME ScreenInv, EffectsInv, NEW q \in detailCalls, Detail!WriteReturns(q), UNCHANGED Detail!api
    PROVE  EffectsInv'
<1>. DEFINE N == Cardinality(detailWrites)
            r == Detail!Load(q.from, detailEnv, q.mount)
            tell(w) == IF w.n = q.n THEN [w EXCEPT !.told = q.answer] ELSE w
<1>1. /\ q.kind # "load" /\ detailCalls' = (detailCalls \ {q}) \cup {r} /\ route' = route
      /\ q.answer.at \in {"ok", "part"} /\ detailWrites' = {tell(w) : w \in detailWrites}
      /\ UNCHANGED <<did, detailArchived, refs>>
  BY Zenon DEF Detail!WriteReturns, Detail!Tells, Detail!Told, Detail!api
<1>2. detailShown' = detailShown
  BY Zenon DEF Detail!WriteReturns, Detail!Remount
<1>3. DetailFields(r) /\ r.kind = "load" /\ r.id = q.from /\ LoadIsTrue(r, home)
  BY LoadMade, SMT
<1>4. /\ WritesNumbered(detailWrites) /\ did \in [1..N -> Nat]
      /\ \A d \in detailCalls : EffectCall(d, detailArchived, detailWrites, N)
      /\ \A w \in detailWrites : WriteDid(w, detailArchived, refs, did)
      /\ OnePost(detailCalls) /\ Detail!RefsCountOnce
  BY Zenon DEF EffectsInv
<1>. HIDE DEF r, N
<1>5. \A w \in detailWrites : w.n = q.n => w.kind = q.kind /\ w.id = q.id /\ w.ref = q.ref
  BY <1>1, <1>4, Zenon DEF EffectCall, IsRecorded, Posts
<1>6. q.from \in Campaigns /\ (q.kind = "archive" => detailArchived[q.id])
  BY <1>1, <1>4, Zenon DEF EffectCall, IsRecorded, Posts
<1>7. ASSUME NEW w \in detailWrites
      PROVE  /\ WriteFields(tell(w)) /\ tell(w).n = w.n /\ tell(w).kind = w.kind /\ tell(w).id = w.id
             /\ tell(w).ref = w.ref /\ tell(w).after = w.after
             /\ WriteDid(tell(w), detailArchived, refs, did)
  <2>1. WriteFields(w) /\ WriteDid(w, detailArchived, refs, did)
    BY <1>4, <1>7, Zenon DEF WritesNumbered
  <2>2. CASE w.n # q.n
    <3>1. tell(w) = w
      BY <2>2, Zenon
    <3>. QED
      BY <2>1, <3>1, Zenon
  <2>3. CASE w.n = q.n
    <3>1. PICK v : v = [w EXCEPT !.told = q.answer]
      OBVIOUS
    <3>2. /\ WriteFields(v) /\ v.n = w.n /\ v.kind = w.kind /\ v.id = w.id /\ v.ref = w.ref /\ v.after = w.after
      <4>. DEFINE u == [w EXCEPT !.told = q.answer]
      <4>1. WriteFields(w)
        BY <2>1, Zenon
      <4>2. /\ WriteFields(u) /\ u.n = w.n /\ u.kind = w.kind /\ u.id = w.id /\ u.ref = w.ref /\ u.after = w.after
        BY ONLY <4>1, WriteTold, ZenonT(30)
      <4>3. v = u
        BY <3>1, Zenon
      <4>. HIDE DEF u
      <4>. QED
        BY <4>2, <4>3, Zenon
    <3>3. tell(w) = v
      BY <2>3, <3>1, Zenon
    <3>. HIDE DEF tell
    <3>4. WriteDid(v, detailArchived, refs, did)
      BY <1>5, <1>6, <1>7, <2>1, <2>3, <3>2, Zenon DEF WriteDid
    <3>. QED
      BY <3>2, <3>3, <3>4, Zenon
  <2>. QED
    BY <2>2, <2>3, Zenon
<1>. HIDE DEF tell
<1>8. \A d, w \in detailWrites : d.n = w.n => d = w
  BY <1>4, Zenon DEF WritesNumbered
<1>. DEFINE Same(v, w) == v.n = w.n /\ v.kind = w.kind /\ v.id = w.id /\ v.ref = w.ref /\ v.after = w.after
<1>20. ASSUME NEW v \in detailWrites'
       PROVE  \E w \in detailWrites : v = tell(w) /\ Same(v, w) /\ WriteFields(v) /\ WriteDid(v, detailArchived, refs, did)
  <2>1. PICK w \in detailWrites : v = tell(w)
    BY <1>1, <1>20, Zenon
  <2>. QED
    BY <1>7, <2>1, Zenon
<1>21. \A v \in detailWrites' : \E w \in detailWrites : Same(v, w)
  BY <1>20, Zenon
<1>9. IsFiniteSet(detailWrites') /\ Cardinality(detailWrites') = N
  <2>1. IsFiniteSet(detailWrites)
    BY <1>4, Zenon DEF WritesNumbered
  <2>2. ExistsBijection(detailWrites, detailWrites')
    <3>. DEFINE toldOf == [w \in detailWrites |-> tell(w)]
    <3>1. toldOf \in [detailWrites -> detailWrites']
      BY <1>1, Zenon
    <3>2. \A d, w \in detailWrites : toldOf[d] = toldOf[w] => d = w
      <4>. SUFFICES ASSUME NEW d \in detailWrites, NEW w \in detailWrites, toldOf[d] = toldOf[w] PROVE d = w
        OBVIOUS
      <4>1. tell(d) = tell(w)
        BY Zenon
      <4>2. tell(d).n = d.n /\ tell(w).n = w.n
        BY <1>7, Zenon
      <4>. QED
        BY <1>8, <4>1, <4>2, Zenon
    <3>3. \A t \in detailWrites' : \E w \in detailWrites : toldOf[w] = t
      BY <1>1, Zenon
    <3>4. toldOf \in Injection(detailWrites, detailWrites')
      BY <3>1, <3>2, Zenon DEF Injection, IsInjective
    <3>. QED
      BY <3>1, <3>3, <3>4, Zenon DEF ExistsBijection, Bijection, Surjection
  <2>. QED
    BY <2>1, <2>2, FS_Bijection, Zenon DEF N
<1>10. WritesNumbered(detailWrites')
  <2>1. \A w \in detailWrites' : WriteFields(w) /\ w.n \in 1..N
    <3>1. \A w \in detailWrites : w.n \in 1..N
      BY <1>4, Zenon DEF WritesNumbered, N
    <3>. QED
      BY <1>20, <3>1, Zenon
  <2>2. \A d, w \in detailWrites' : d.n = w.n => d = w
    <3>. SUFFICES ASSUME NEW d \in detailWrites', NEW w \in detailWrites', d.n = w.n PROVE d = w
      OBVIOUS
    <3>1. PICK x \in detailWrites : d = tell(x) /\ d.n = x.n
      BY <1>20, Zenon
    <3>2. PICK y \in detailWrites : w = tell(y) /\ w.n = y.n
      BY <1>20, Zenon
    <3>. QED
      BY <1>8, <3>1, <3>2, Zenon
  <2>. QED
    BY <1>9, <2>1, <2>2, Zenon DEF WritesNumbered
<1>11. ASSUME NEW d \in detailCalls' PROVE EffectCall(d, detailArchived', detailWrites', N)
  <2>1. CASE d = r
    <3>1. d.answer.at # "issuing" /\ "load" # "archive"
      BY <1>3, <2>1, SMT DEF LoadIsTrue
    <3>. QED
      BY <1>3, <1>6, <2>1, <3>1, Zenon DEF EffectCall, IsRecorded, Posts
  <2>2. CASE d \in detailCalls
    <3>1. EffectCall(d, detailArchived, detailWrites, N)
      BY <1>4, <2>2, Zenon
    <3>2. \A w \in detailWrites' : w.n = d.n => \E v \in detailWrites : v.n = d.n /\ Same(w, v)
      BY <1>21, Zenon
    <3>3. IsRecorded(d, detailWrites', N)
      <4>. SUFFICES ASSUME Posts(d), NEW w \in detailWrites', w.n = d.n PROVE w.kind = d.kind /\ w.id = d.id /\ w.ref = d.ref
        BY <3>1, Zenon DEF EffectCall, IsRecorded
      <4>1. PICK v \in detailWrites : v.n = d.n /\ Same(w, v)
        BY <3>2, Zenon
      <4>. QED
        BY <3>1, <4>1, Zenon DEF EffectCall, IsRecorded
    <3>4. d.answer.at = "issuing" => d.kind = "issue" /\ \A w \in detailWrites' : w.n = d.n => ~ w.after
      <4>. SUFFICES ASSUME d.answer.at = "issuing" PROVE d.kind = "issue" /\ \A w \in detailWrites' : w.n = d.n => ~ w.after
        OBVIOUS
      <4>1. d.kind = "issue" /\ \A v \in detailWrites : v.n = d.n => ~ v.after
        BY <3>1, Zenon DEF EffectCall
      <4>. SUFFICES ASSUME NEW w \in detailWrites', w.n = d.n, w.after PROVE FALSE
        BY <4>1, Zenon
      <4>2. PICK v \in detailWrites : v.n = d.n /\ Same(w, v)
        BY <3>2, Zenon
      <4>. QED
        BY <4>1, <4>2, Zenon
    <3>. QED
      BY <1>1, <3>1, <3>3, <3>4, Zenon DEF EffectCall
  <2>. QED
    BY <1>1, <1>11, <2>1, <2>2, Zenon
<1>12. OnePost(detailCalls')
  BY <1>1, <1>3, <1>4, Zenon DEF OnePost, Posts
<1>13. \A w \in detailWrites' : WriteDid(w, detailArchived', refs', did')
  BY <1>1, <1>20, Zenon
<1>14. Detail!RefsCountOnce'
  <2>. SUFFICES ASSUME NEW d \in detailWrites', NEW w \in detailWrites', d.n # w.n, d.ref = w.ref, d.ref # Detail!NoRef,
                       d.id = w.id, did'[d.n] # 0, did'[w.n] # 0
                PROVE  FALSE
    BY Zenon DEF Detail!RefsCountOnce
  <2>1. PICK x \in detailWrites : d.n = x.n /\ d.ref = x.ref /\ d.id = x.id
    BY <1>21, Zenon
  <2>2. PICK y \in detailWrites : w.n = y.n /\ w.ref = y.ref /\ w.id = y.id
    BY <1>21, Zenon
  <2>. QED
    BY <1>1, <1>4, <2>1, <2>2, Zenon DEF Detail!RefsCountOnce
<1>15. /\ detailArchived' \in [Campaigns -> BOOLEAN] /\ DOMAIN refs' = Campaigns
       /\ route' \in Campaigns \cup {Detail!List} /\ (detailShown' # Detail!NotLoaded => detailShown'.id \in Campaigns)
  BY <1>1, <1>2, Zenon DEF EffectsInv
<1>16. did' \in [1..N -> Nat]
  BY <1>1, <1>4, Zenon
<1>. QED
  BY <1>9, <1>10, <1>11, <1>12, <1>13, <1>14, <1>15, <1>16, Zenon DEF EffectsInv

\* What the page does by itself: it moves, opens and closes, and sends.
LEMMA EffectsMove ==
    ASSUME ScreenInv, EffectsInv,
           \/ \E p \in Campaigns \cup {Detail!List} : Detail!Goto(p)
           \/ \E p \in Detail!Envs : Detail!SetEnv(p)
           \/ Detail!Open("issue") \/ Detail!Open("events") \/ Detail!Close
    PROVE  EffectsInv'
<1>1. UNCHANGED <<detailWrites, did, detailArchived, refs>>
  BY Zenon DEF Detail!Goto, Detail!SetEnv, Detail!Open, Detail!Close, Detail!api
<1>2. /\ route \in Campaigns \cup {Detail!List} /\ (detailShown # Detail!NotLoaded => detailShown.id \in Campaigns)
  BY Zenon DEF EffectsInv
<1>3. \A k, e, m : LET l == Detail!Load(k, e, m) IN l.kind = "load" /\ l.id = k /\ l.answer.at # "issuing"
  BY SMT DEF Detail!Load, Detail!Sent
<1>4. CASE \E p \in Campaigns \cup {Detail!List} : Detail!Goto(p)
  <2>1. PICK p \in Campaigns \cup {Detail!List} : Detail!Goto(p)
    BY <1>4, Zenon
  <2>2. CASE p = Detail!List
    <3>1. route' = Detail!List /\ detailShown' = Detail!NotLoaded /\ detailCalls' = detailCalls
      BY <2>1, <2>2, Zenon DEF Detail!Goto, Detail!Leave
    <3>. QED
      BY <1>1, <3>1, EffectsRest, Zenon
  <2>3. CASE p # Detail!List
    <3>1. /\ route' = p /\ detailShown' = Detail!NotLoaded
          /\ detailCalls' = detailCalls \cup {Detail!Load(p, detailEnv, detailMount')}
      BY <2>1, <2>3, Zenon DEF Detail!Goto, Detail!Remount, Detail!Cleared, Detail!Sends
    <3>2. PICK l : l = Detail!Load(p, detailEnv, detailMount')
      OBVIOUS
    <3>3. l.kind = "load" /\ l.id = p /\ l.answer.at # "issuing" /\ detailCalls' = detailCalls \cup {l} /\ p \in Campaigns
      <4>1. l.kind = "load" /\ l.id = p /\ l.answer.at # "issuing"
        <5>1. LET k == Detail!Load(p, detailEnv, detailMount') IN k.kind = "load" /\ k.id = p /\ k.answer.at # "issuing"
          BY ONLY <1>3, Zenon
        <5>. QED
          BY ONLY <3>2, <5>1
      <4>2. detailCalls' = detailCalls \cup {l}
        BY <3>1, <3>2, Zenon
      <4>3. p \in Campaigns
        BY <2>3, Zenon
      <4>. QED
        BY <4>1, <4>2, <4>3, Zenon
    <3>4. \A d \in detailCalls' : d \in detailCalls \/ (d.kind = "load" /\ d.id \in Campaigns /\ d.answer.at # "issuing")
      BY <3>3, Zenon
    <3>. QED
      BY <1>1, <3>1, <3>3, <3>4, EffectsRest, Zenon
  <2>. QED
    BY <2>2, <2>3, Zenon
<1>5. CASE \E p \in Detail!Envs : Detail!SetEnv(p)
  <2>1. PICK p \in Detail!Envs : Detail!SetEnv(p)
    BY <1>5, Zenon
  <2>2. CASE route = Detail!List
    <3>1. route' = route /\ detailShown' = detailShown /\ detailCalls' = detailCalls
      BY <2>1, <2>2, Zenon DEF Detail!SetEnv
    <3>. QED
      BY <1>1, <1>2, <3>1, EffectsRest, Zenon
  <2>3. CASE route # Detail!List
    <3>1. /\ route' = route /\ detailShown' = Detail!NotLoaded
          /\ detailCalls' = detailCalls \cup {Detail!Load(route, p, detailMount)}
      BY <2>1, <2>3, Zenon DEF Detail!SetEnv, Detail!Remount, Detail!Cleared, Detail!Sends
    <3>2. PICK l : l = Detail!Load(route, p, detailMount)
      OBVIOUS
    <3>3. l.kind = "load" /\ l.id = route /\ l.answer.at # "issuing"
          /\ detailCalls' = detailCalls \cup {l} /\ route \in Campaigns
      <4>1. l.kind = "load" /\ l.id = route /\ l.answer.at # "issuing"
        BY ONLY <1>3, <3>2
      <4>2. detailCalls' = detailCalls \cup {l} /\ route \in Campaigns
        BY <1>2, <2>3, <3>1, <3>2, Zenon
      <4>. QED
        BY <4>1, <4>2, Zenon
    <3>4. \A d \in detailCalls' : d \in detailCalls \/ (d.kind = "load" /\ d.id \in Campaigns /\ d.answer.at # "issuing")
      BY <3>3, Zenon
    <3>. QED
      BY <1>1, <3>1, <3>3, <3>4, EffectsRest, Zenon
  <2>. QED
    BY <2>2, <2>3, Zenon
<1>6. CASE Detail!Open("issue") \/ Detail!Open("events") \/ Detail!Close
  <2>1. route' = route /\ detailShown' = detailShown /\ detailCalls' = detailCalls
    BY <1>6, Zenon DEF Detail!Open, Detail!Close, Detail!Remount
  <2>. QED
    BY <1>1, <1>2, <2>1, EffectsRest, Zenon
<1>. QED
  BY <1>4, <1>5, <1>6, Zenon

\* An answer that records nothing: of a load, or one that tells of no effect.
LEMMA EffectsDrop ==
    ASSUME ScreenInv, EffectsInv, NEW q \in detailCalls, UNCHANGED Detail!api,
           Detail!Loaded(q) \/ Detail!LoadFails(q) \/ Detail!WriteFails(q)
    PROVE  EffectsInv'
<1>1. UNCHANGED <<detailWrites, did, detailArchived, refs>> /\ detailCalls' = detailCalls \ {q}
  BY Zenon DEF Detail!Loaded, Detail!LoadFails, Detail!WriteFails, Detail!api
<1>2. /\ route \in Campaigns \cup {Detail!List} /\ (detailShown # Detail!NotLoaded => detailShown.id \in Campaigns)
  BY Zenon DEF EffectsInv
<1>3. CASE Detail!Loaded(q)
  <2>1. route' = route /\ (detailShown' = q.answer \/ detailShown' = detailShown)
    BY <1>3, Zenon DEF Detail!Loaded, Detail!Remount
  <2>2. q.answer.id = q.id /\ q.id \in Campaigns
    BY <1>3, Zenon DEF ScreenInv, LoadIsTrue, EffectsInv, EffectCall, Detail!Loaded
  <2>. QED
    BY <1>1, <1>2, <2>1, <2>2, EffectsRest, Zenon
<1>4. CASE Detail!LoadFails(q)
  <2>1. (route' = route /\ detailShown' = detailShown) \/ (route' = Detail!List /\ detailShown' = Detail!NotLoaded)
    BY <1>4, Zenon DEF Detail!LoadFails, Detail!Leave
  <2>. QED
    BY <1>1, <1>2, <2>1, EffectsRest, Zenon
<1>5. CASE Detail!WriteFails(q)
  <2>1. route' = route /\ detailShown' = detailShown
    BY <1>5, Zenon DEF Detail!WriteFails
  <2>. QED
    BY <1>1, <1>2, <2>1, EffectsRest, Zenon
<1>. QED
  BY <1>3, <1>4, <1>5, Zenon

LEMMA EffectsKept == ScreenInv /\ EffectsInv /\ (Detail!Next \/ UNCHANGED detailVars) => EffectsInv'
<1>. SUFFICES ASSUME ScreenInv, EffectsInv, Detail!Next \/ UNCHANGED detailVars PROVE EffectsInv'
  OBVIOUS
<1>1. route \in Campaigns \cup {Detail!List} /\ (detailShown # Detail!NotLoaded => detailShown.id \in Campaigns)
  BY Zenon DEF EffectsInv
<1>2. detailShown # Detail!NotLoaded => route \in Campaigns /\ detailShown.id \in Campaigns
  BY <1>1, Zenon DEF ScreenInv
<1>3. CASE UNCHANGED detailVars
  <2>1. UNCHANGED <<detailWrites, did, detailArchived, refs, detailCalls, route, detailShown>>
    BY <1>3, Zenon DEF detailVars
  <2>. QED
    BY <1>1, <2>1, EffectsRest, Zenon
<1>4. CASE Detail!Archive
  <2>1. detailShown # Detail!NotLoaded /\ Detail!Write("archive", route, 0, Detail!NoRef)
    BY <1>4, Zenon DEF Detail!Archive
  <2>. QED
    BY <1>2, <2>1, EffectsWrites, Zenon
<1>5. ASSUME NEW n \in 1..2, Detail!Issue(n) PROVE EffectsInv'
  <2>1. detailShown # Detail!NotLoaded /\ Detail!Write("issue", detailShown.id, n, Detail!NoRef)
    BY <1>5, Zenon DEF Detail!Issue
  <2>. QED
    BY <1>2, <2>1, EffectsWrites, Zenon
<1>6. ASSUME NEW ref \in {Detail!NoRef, "r1"}, Detail!Record(ref) PROVE EffectsInv'
  <2>1. detailShown # Detail!NotLoaded /\ Detail!Write("events", detailShown.id, 1, ref)
    BY <1>6, Zenon DEF Detail!Record
  <2>. QED
    BY <1>2, <2>1, EffectsWrites, Zenon
<1>7. ASSUME NEW q \in detailCalls, Detail!Return(q) \/ Detail!Lose(q) PROVE EffectsInv'
  <2>1. UNCHANGED Detail!api /\ (Detail!WriteReturns(q) \/ Detail!Loaded(q) \/ Detail!LoadFails(q) \/ Detail!WriteFails(q))
    BY <1>7, Zenon DEF Detail!Return, Detail!Lose
  <2>. QED
    BY <2>1, EffectsReturn, EffectsDrop, Zenon
<1>. QED
  BY <1>3, <1>4, <1>5, <1>6, <1>7, EffectsMove, EffectsServe, Zenon DEF Detail!Next

-----------------------------------------------------------------------------
\* The pages together.

\* A step of the console is one of the page on screen; the others stay as they are.
LEMMA OnePageRuns ==
    ASSUME [Next]_consoleVars
    PROVE  /\ Session!Next \/ UNCHANGED sessionVars
           /\ Detail!Next \/ UNCHANGED detailVars
           /\ Panels!Next \/ UNCHANGED panelsVars
           /\ Wizard!Next \/ UNCHANGED wizardVars
           /\ Loyalty!Next \/ UNCHANGED loyaltyVars
           /\ Secrets!Next \/ UNCHANGED secretsVars
           /\ Settlements!Next \/ UNCHANGED settlementsVars
           /\ Redemptions!Next \/ UNCHANGED redemptionsVars
<1>1. CASE UNCHANGED consoleVars
  BY <1>1, Zenon DEF consoleVars
<1>2. CASE SessionStep
  BY <1>2, Zenon DEF SessionStep
<1>3. CASE DetailStep
  BY <1>3, Zenon DEF DetailStep
<1>4. CASE PanelsStep
  BY <1>4, Zenon DEF PanelsStep
<1>5. CASE WizardStep
  BY <1>5, Zenon DEF WizardStep
<1>6. CASE LoyaltyStep
  BY <1>6, Zenon DEF LoyaltyStep
<1>7. CASE SecretsStep
  BY <1>7, Zenon DEF SecretsStep
<1>8. CASE SettlementsStep
  BY <1>8, Zenon DEF SettlementsStep
<1>9. CASE RedemptionsStep
  BY <1>9, Zenon DEF RedemptionsStep
<1>. QED
  BY <1>1, <1>2, <1>3, <1>4, <1>5, <1>6, <1>7, <1>8, <1>9, Zenon DEF Next

\* What keeps PagesShowOneThing: on each page, what its requests under way will
\* bring belongs to what the page shows by then.
ShownInv == SessionInv /\ ScreenInv /\ PanelsInv

\* In every state of the console, for any users, campaigns and bounds, what is on
\* screen belongs together (App.jsx, CampaignDetail.jsx and the panels of a
\* campaign): a late answer to a page that has gone is dropped, every page of
\* scans is whole, and what is shown is of the campaign on screen unless that
\* was changed in place with a request under way.
THEOREM ShownSafe == Spec => []PagesShowOneThing
<1>1. Init => ShownInv
  <2>. SUFFICES ASSUME Init PROVE ShownInv
    OBVIOUS
  <2>1. Session!Init /\ Detail!Init /\ Panels!Init
    BY Zenon DEF Init
  <2>. QED
    BY <2>1, SessionBegin, ScreenBegin, PanelsBegin, Zenon DEF ShownInv
<1>2. ShownInv /\ [Next]_consoleVars => ShownInv'
  <2>. SUFFICES ASSUME ShownInv, [Next]_consoleVars PROVE ShownInv'
    OBVIOUS
  <2>. QED
    BY OnePageRuns, SessionKept, ScreenKept, PanelsKept, Zenon DEF ShownInv
<1>3. ShownInv => PagesShowOneThing
  BY SessionTells, PanelsTell, Zenon DEF ShownInv, PagesShowOneThing, ScreenInv
<1>. QED
  BY <1>1, <1>2, <1>3, PTL DEF Spec

\* What keeps DoneAsConfirmed: the requests under way ask for what their form
\* showed, and the API has only recorded what it was asked for.
ConfirmedInv == WizardInv /\ SettlementsInv /\ RedemptionsInv

\* In every state of the console, for any campaigns, codes and bounds, what a form
\* showed when it was confirmed is what happened (Campaigns.jsx, Settlements.jsx,
\* Redemptions.jsx and the handlers they call): terms as reviewed, the period and
\* amount that were confirmed, a burn in the campaign on screen.
THEOREM ConfirmedSafe == Spec => []DoneAsConfirmed
<1>1. Init => ConfirmedInv
  <2>. SUFFICES ASSUME Init PROVE ConfirmedInv
    OBVIOUS
  <2>1. Wizard!Init /\ Settlements!Init /\ Redemptions!Init
    BY Zenon DEF Init
  <2>. QED
    BY <2>1, WizardBegin, SettlementsBegin, RedemptionsBegin, Zenon DEF ConfirmedInv
<1>2. ConfirmedInv /\ [Next]_consoleVars => ConfirmedInv'
  <2>. SUFFICES ASSUME ConfirmedInv, [Next]_consoleVars PROVE ConfirmedInv'
    OBVIOUS
  <2>. QED
    BY OnePageRuns, WizardKept, SettlementsKept, RedemptionsKept, Zenon DEF ConfirmedInv
<1>3. ConfirmedInv => DoneAsConfirmed
  BY SettlementsTell, RedemptionsTell, Zenon DEF ConfirmedInv, DoneAsConfirmed, WizardInv
<1>. QED
  BY <1>1, <1>2, <1>3, PTL DEF Spec

\* What keeps EffectsHappenOnce: requests have numbers, and what the API has done
\* for a number, a form or an event it does not do again.
OnceInv == ScreenInv /\ EffectsInv /\ LoyaltyInv /\ SecretsInv

\* In every state of the console, for any campaigns, customers, forms and bounds,
\* whatever is sent twice, lost, cut off by a restart or refused half-way
\* (CampaignDetail.jsx, Loyalty.jsx, Platform.jsx and the handlers they call): a
\* sale counts once under its reference, a full card has its one reward, an
\* archived campaign takes nothing more, and a form sent once makes one secret.
THEOREM EffectsSafe == Spec => []EffectsHappenOnce
<1>1. Init => OnceInv
  <2>. SUFFICES ASSUME Init PROVE OnceInv
    OBVIOUS
  <2>1. Detail!Init /\ Loyalty!Init /\ Secrets!Init
    BY Zenon DEF Init
  <2>. QED
    BY <2>1, ScreenBegin, EffectsBegin, LoyaltyBegin, SecretsBegin, Zenon DEF OnceInv
<1>2. OnceInv /\ [Next]_consoleVars => OnceInv'
  <2>. SUFFICES ASSUME OnceInv, [Next]_consoleVars PROVE OnceInv'
    OBVIOUS
  <2>. QED
    BY OnePageRuns, ScreenKept, EffectsKept, LoyaltyKept, SecretsKept, Zenon DEF OnceInv
<1>3. OnceInv => EffectsHappenOnce
  BY EffectsTell, LoyaltyTell, SecretsTell, Zenon DEF OnceInv, EffectsHappenOnce
<1>. QED
  BY <1>1, <1>2, <1>3, PTL DEF Spec
=============================================================================
