--------------------------- MODULE ConsoleSession ---------------------------
(***************************************************************************)
(* Signing in to the merchant console (cloud/console: store.jsx, main.jsx, *)
(* shell.jsx, pages/Auth.jsx) against the API's sessions and organizations *)
(* (cloud/api/auth.go).  The page mirrors /auth/me; the browser holds the  *)
(* session cookie, which the API's answers set and clear.  The Enter key   *)
(* submits the forms again while a call is under way, so calls overlap and *)
(* answers arrive in any order or not at all.                              *)
(***************************************************************************)
EXTENDS Integers, FiniteSets

CONSTANTS
    Users,
    MaxCalls        \* bound: submissions and sign-outs made by hand

SessionAssumption == MaxCalls \in Nat /\ IsFiniteSet(Users)

VARIABLES
    accounts,       \* the API: users that have signed up
    sessions,       \* the API: live sessions [tok, user]
    orgs,           \* the API: [id, of]
    cookie,         \* the browser: the session it sends
    calls,          \* requests under way
    made,           \* submissions and sign-outs so far
    disturbed,      \* an answer was lost or a session expired
    raced,          \* a request was ever sent while another was under way
    booting, user, org,         \* AppProvider
    mount,                      \* which mounted form a late answer belongs to
    mode, email, busy, failed, named    \* the form on screen

server == <<accounts, sessions, orgs>>
app == <<booting, user, org>>
form == <<mount, mode, email, busy, failed, named>>
vars == <<server, cookie, calls, made, disturbed, raced, app, form>>

Nobody == [tok |-> 0]
NoUser == "no user"
NoOrg == [id |-> 0]
Sent == [at |-> "sent"]
Checked == [at |-> "checked"]

\* What the router shows.
Page(b, u, o) ==
    CASE b -> "boot"
      [] ~ b /\ u = NoUser -> "auth"
      [] ~ b /\ u # NoUser /\ o = NoOrg -> "name"
      [] OTHER -> "shell"

Call(n, kind, who, then) ==
    [n |-> n, kind |-> kind, who |-> who, as |-> cookie, then |-> then, mount |-> mount, answer |-> Sent]

\* The page starts by asking who is signed in.
Init ==
    /\ accounts = {} /\ sessions = {} /\ orgs = {} /\ cookie = Nobody
    /\ made = 0 /\ disturbed = FALSE /\ raced = FALSE
    /\ booting = TRUE /\ user = NoUser /\ org = NoOrg
    /\ mount = 0 /\ mode = "signin" /\ email \in Users /\ busy = FALSE /\ failed = FALSE /\ named = FALSE
    /\ calls = {Call(0, "me", NoUser, "boot")}

-----------------------------------------------------------------------------
(***************************** the forms ***********************************)
On(p) == Page(booting, user, org) = p

\* The fields and the tabs of the forms; nothing locks them while a call runs.
Fill ==
    /\ \/ /\ On("auth")
          /\ \/ mode' \in {"signin", "signup"} /\ email' = email
             \/ email' \in Users /\ mode' = mode
          /\ named' = named
       \/ On("name") /\ named' \in BOOLEAN /\ UNCHANGED <<mode, email>>
    /\ UNCHANGED <<server, cookie, calls, made, disturbed, raced, app, mount, busy, failed>>

Made(kind, who, then) ==
    /\ made < MaxCalls
    /\ made' = made + 1
    /\ calls' = calls \cup {Call(made + 1, kind, who, then)}
    /\ raced' = (raced \/ calls # {})
    /\ UNCHANGED <<server, cookie, disturbed, app>>

\* submit of AuthPage: the button waits for busy, the Enter key does not.
SubmitAuth ==
    /\ On("auth")
    /\ Made(IF mode = "signin" THEN "login" ELSE "signup", email, "auth")
    /\ busy' = TRUE /\ failed' = FALSE
    /\ UNCHANGED <<mount, mode, email, named>>

\* submit of CreateOrgPage, from its button or with Enter.
SubmitOrg ==
    /\ On("name") /\ named
    /\ Made("orgs", user, "org")
    /\ busy' = TRUE
    /\ UNCHANGED <<mount, mode, email, failed, named>>

\* The Sign out entry of the user menu.
SignOut ==
    /\ On("shell")
    /\ Made("logout", user, "out")
    /\ UNCHANGED form

-----------------------------------------------------------------------------
(******************************* the API ***********************************)
Answered(c, a) == calls' = (calls \ {c}) \cup {[c EXCEPT !.answer = a]}
Refused == [ok |-> FALSE]
Live(s) == s \in sessions
OrgsOf(u) == {o \in orgs : o.of = u}

ServeMe(c) ==
    /\ c.kind = "me" /\ c.answer = Sent
    /\ \/ Live(c.as) /\ \E o \in (IF OrgsOf(c.as.user) = {} THEN {NoOrg} ELSE OrgsOf(c.as.user)) :
            Answered(c, [ok |-> TRUE, user |-> c.as.user, org |-> o])
       \/ ~ Live(c.as) /\ Answered(c, Refused)
    /\ UNCHANGED server

\* handleLogin: a wrong email or password is refused.
ServeLogin(c) ==
    LET s == [tok |-> c.n, user |-> c.who] IN
    /\ c.kind = "login" /\ c.answer = Sent
    /\ \/ c.who \in accounts /\ sessions' = sessions \cup {s} /\ Answered(c, [ok |-> TRUE, set |-> s])
       \/ Answered(c, Refused) /\ sessions' = sessions
    /\ UNCHANGED <<accounts, orgs>>

\* handleSignup: a new account is signed in at once.
ServeSignup(c) ==
    LET s == [tok |-> c.n, user |-> c.who] IN
    /\ c.kind = "signup" /\ c.answer = Sent
    /\ \/ /\ c.who \notin accounts
          /\ accounts' = accounts \cup {c.who} /\ sessions' = sessions \cup {s}
          /\ Answered(c, [ok |-> TRUE, set |-> s])
       \/ Answered(c, Refused) /\ UNCHANGED <<accounts, sessions>>
    /\ UNCHANGED orgs

ServeLogout(c) ==
    /\ c.kind = "logout" /\ c.answer = Sent
    /\ sessions' = sessions \ {c.as}
    /\ Answered(c, [ok |-> TRUE, set |-> Nobody])
    /\ UNCHANGED <<accounts, orgs>>

\* handleCreateOrg looks for an organization first ...
CheckOrg(c) ==
    /\ c.kind = "orgs" /\ c.answer = Sent
    /\ IF Live(c.as) /\ OrgsOf(c.as.user) = {} THEN Answered(c, Checked) ELSE Answered(c, Refused)
    /\ UNCHANGED server

\* ... and inserts one in a transaction that does not look again.
InsertOrg(c) ==
    /\ c.kind = "orgs" /\ c.answer = Checked
    /\ orgs' = orgs \cup {[id |-> c.n, of |-> c.as.user]}
    /\ Answered(c, [ok |-> TRUE])
    /\ UNCHANGED <<accounts, sessions>>

Serve(c) ==
    /\ ServeMe(c) \/ ServeLogin(c) \/ ServeSignup(c) \/ ServeLogout(c) \/ CheckOrg(c) \/ InsertOrg(c)
    /\ UNCHANGED <<cookie, made, disturbed, raced, app, form>>

\* A session ends after eight hours, and its cookie with it.
Expire ==
    /\ cookie # Nobody /\ disturbed' = TRUE
    /\ sessions' = sessions \ {cookie} /\ cookie' = Nobody
    /\ UNCHANGED <<accounts, orgs, calls, made, raced, app, form>>

-----------------------------------------------------------------------------
(****************************** answers ************************************)
\* The router mounts a page anew when another one was on screen.
Show(b, u, o) ==
    /\ booting' = b /\ user' = u /\ org' = o
    /\ IF On(Page(b, u, o)) THEN UNCHANGED <<mount, mode, named>>
       ELSE mount' = mount + 1 /\ mode' = "signin" /\ named' = FALSE
    /\ email' = email

\* refreshMe: any failure signs the page out.
MeAnswer(a) == IF a # Refused THEN <<a.user, a.org>> ELSE <<NoUser, NoOrg>>

\* finally: only the form that made the call is there to be told.
Done(c) ==
    IF mount' # mount THEN busy' = FALSE /\ failed' = FALSE
    ELSE /\ busy' = (busy /\ c.mount # mount)
         /\ failed' = failed

\* refreshMe, the rest of it: after the boot, a form's call or a sign-out.
MeReturns(c, a) ==
    LET m == MeAnswer(a) IN
    /\ c.kind = "me"
    /\ Show(booting /\ c.then # "boot", m[1], m[2])
    /\ Done(c)
    /\ calls' = calls \ {c} /\ cookie' = cookie

\* A call that was accepted, and a logout whatever came of it, asks again.
AskAgain(c, k) ==
    calls' = (calls \ {c}) \cup {[c EXCEPT !.kind = "me", !.as = k, !.answer = Sent]}

Accepted(c) ==
    LET k == IF "set" \in DOMAIN c.answer THEN c.answer.set ELSE cookie IN
    /\ c.kind # "me" /\ c.answer # Refused
    /\ cookie' = k /\ AskAgain(c, k)
    /\ UNCHANGED <<app, form>>

\* catch: the sign-in form keeps the error, the others toast it.
Fails(c) ==
    /\ c.kind # "me"
    /\ IF c.kind = "logout" THEN AskAgain(c, cookie) /\ UNCHANGED <<busy, failed>>
       ELSE /\ calls' = calls \ {c}
            /\ busy' = (busy /\ c.mount # mount)
            /\ failed' = (failed \/ (c.mount = mount /\ c.then = "auth"))
    /\ UNCHANGED <<cookie, app, mount, mode, email, named>>

Return(c) ==
    /\ c.answer \notin {Sent, Checked}
    /\ \/ MeReturns(c, c.answer)
       \/ Accepted(c)
       \/ c.answer = Refused /\ Fails(c)
    /\ UNCHANGED <<server, made, disturbed, raced>>

\* The network fails: before the API saw the call, or after.
Lose(c) ==
    /\ c.answer # Checked /\ disturbed' = TRUE
    /\ MeReturns(c, Refused) \/ Fails(c)
    /\ UNCHANGED <<server, made, raced>>

Next ==
    \/ Fill \/ SubmitAuth \/ SubmitOrg \/ SignOut \/ Expire
    \/ \E c \in calls : Serve(c) \/ Return(c) \/ Lose(c)

Spec == Init /\ [][Next]_vars

-----------------------------------------------------------------------------
Sessions == [tok : 1..MaxCalls, user : Users]
Orgs == [id : 1..MaxCalls, of : Users]

\* Types; and a form spins only while a call it made is under way.
TypeOK ==
    /\ accounts \subseteq Users /\ sessions \subseteq Sessions /\ orgs \subseteq Orgs
    /\ cookie \in Sessions \cup {Nobody} /\ made \in 0..MaxCalls
    /\ user \in Users \cup {NoUser} /\ org \in Orgs \cup {NoOrg}
    /\ mode \in {"signin", "signup"} /\ email \in Users /\ named \in BOOLEAN /\ failed \in BOOLEAN
    /\ busy => \E c \in calls : c.mount = mount

\* The organization on screen exists and is the one of the user on screen,
\* whoever signs in and out in this browser (refreshMe stores both at once).
OrgIsUsers == org # NoOrg => org \in orgs /\ org.of = user

\* When calls were made one at a time and nothing was lost or expired, the
\* page at rest shows the user whose session the browser holds.
AloneMeansAgreed ==
    calls = {} /\ ~ raced /\ ~ disturbed =>
        IF cookie = Nobody THEN user = NoUser ELSE user = cookie.user
=============================================================================
