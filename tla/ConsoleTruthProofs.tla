------------------------- MODULE ConsoleTruthProofs -------------------------
(***************************************************************************)
(* More about the pages of the console, from the invariants of ConsoleProofs:*)
(* what a page announced is there, the lists catch up with it, and types.  *)
(***************************************************************************)
EXTENDS ConsoleProofs


-----------------------------------------------------------------------------
\* Secrets: what was announced has happened, and the list will show it.

EndedIs(its, i) == i \in DOMAIN its /\ ~ its[i].live

\* What was said to have ended has, and so has what an answer will say so of.
SecretsKnown ==
    /\ \A i \in secretsTold : EndedIs(items, i)
    /\ \A q \in secretsCalls : q.kind = "end" /\ MadeIt(q) => EndedIs(items, q.id)
    /\ Secrets!SecretsAreSeen

\* The page will ask for the list: an answer in C, a timer, or the form will see to it.
Soon(C, t, is, id) == (\E q \in C : q.kind # "list" /\ MadeIt(q)) \/ t > 0 \/ (is /\ id # 0)

\* The lists in C are of the environment e, and those answered are as v, or the page will ask again.
ListsAre(C, e, v, soon) == \A q \in C : q.kind = "list" => q.env = e /\ (MadeIt(q) => q.answer = v \/ soon)

\* What is on screen is as v, or a list is or will be asked for.
Catching(C, d, v, soon) == d = v \/ soon \/ \E q \in C : q.kind = "list"

SecretsCaught ==
    /\ timers \in Nat
    /\ ~ secretsAstray =>
          /\ ListsAre(secretsCalls, secretsEnv, Secrets!View(secretsEnv), Soon(secretsCalls, timers, create, created))
          /\ Catching(secretsCalls, secretsData, Secrets!View(secretsEnv), Soon(secretsCalls, timers, create, created))

LEMMA SecretAsked ==
    ASSUME NEW e, NEW D, Secrets!Load(e, D)
    PROVE  \E q : secretsCalls' = D \cup {q} /\ q.kind = "list" /\ q.env = e /\ ~ MadeIt(q)
<1>. DEFINE x == secretsLoads + 1
            q == [Secrets!List(x) EXCEPT !.env = e]
<1>1. secretsCalls' = D \cup {q}
  BY Zenon DEF Secrets!Load
<1>. HIDE DEF x
<1>2. q.kind = "list" /\ q.env = e /\ ~ MadeIt(q)
  BY SMTT(30) DEF Secrets!List, MadeIt, Secrets!Sent
<1>. QED
  BY <1>1, <1>2, Zenon

\* An answer changes nothing else of its request.
LEMMA SecretReplied ==
    ASSUME NEW q, NEW k, SecretCall(q, k), NEW a, Secrets!Answered(q, a)
    PROVE  \E r : /\ secretsCalls' = (secretsCalls \ {q}) \cup {r} /\ r.answer = a /\ r.kind = q.kind /\ r.env = q.env
                  /\ q.kind # "list" => r.id = q.id
<1>. DEFINE r == [q EXCEPT !.answer = a]
<1>1. r.answer = a /\ r.kind = q.kind /\ r.env = q.env /\ (q.kind # "list" => r.id = q.id)
  <2>1. CASE q.kind = "list" /\ RowsFields(q)
    BY <2>1, SMTT(30) DEF RowsFields
  <2>2. CASE q.kind # "list" /\ ClickFields(q)
    BY <2>2, SMTT(30) DEF ClickFields
  <2>. QED
    BY <2>1, <2>2, Zenon DEF SecretCall
<1>2. secretsCalls' = (secretsCalls \ {q}) \cup {r}
  BY Zenon DEF Secrets!Answered
<1>. HIDE DEF r
<1>. QED
  BY <1>1, <1>2, Zenon

LEMMA KnownBegin == Secrets!Init => SecretsKnown /\ SecretsCaught
<1>. SUFFICES ASSUME Secrets!Init PROVE SecretsKnown /\ SecretsCaught
  OBVIOUS
<1>1. /\ items = <<>> /\ secretsEnv = "test" /\ secretsCalls = {Secrets!List(0)} /\ secretsTold = {} /\ timers = 0
      /\ create = FALSE
  BY Zenon DEF Secrets!Init
<1>2. PICK q : q = Secrets!List(0)
  OBVIOUS
<1>3. q.kind = "list" /\ q.env = "test" /\ ~ MadeIt(q) /\ "list" # "end"
  BY <1>1, <1>2, SMT DEF Secrets!List, MadeIt, Secrets!Sent
<1>4. DOMAIN items = {} /\ timers \in Nat
  BY <1>1
<1>. QED
  BY <1>1, <1>2, <1>3, <1>4, Zenon DEF SecretsKnown, SecretsCaught, Secrets!SecretsAreSeen, ListsAre, Catching

\* Nothing is made or ended; what has been made and not shown is under way, or missed.
LEMMA KnownRest ==
    ASSUME SecretsKnown, items' = items, seen \subseteq seen', secretsAstray => secretsAstray',
           \A i \in secretsTold' : i \in secretsTold \/ EndedIs(items, i),
           \A q \in secretsCalls' : q \in secretsCalls \/ ~ (q.kind = "end" /\ MadeIt(q)),
           \A q \in secretsCalls : Creates(q) /\ MadeIt(q) => q \in secretsCalls' \/ q.answer.id \in seen' \/ secretsAstray'
    PROVE  SecretsKnown'
<1>1. \A i \in secretsTold' : EndedIs(items', i)
  BY Zenon DEF SecretsKnown
<1>2. \A q \in secretsCalls' : q.kind = "end" /\ MadeIt(q) => EndedIs(items', q.id)
  BY Zenon DEF SecretsKnown
<1>3. Secrets!SecretsAreSeen'
  <2>. SUFFICES ASSUME NEW i \in DOMAIN items', i \notin seen', ~ secretsAstray'
                PROVE  \E q \in secretsCalls' : q.kind = "create" /\ q.answer.at = "ok" /\ q.answer.id = i
    BY Zenon DEF Secrets!SecretsAreSeen
  <2>1. PICK q \in secretsCalls : q.kind = "create" /\ q.answer.at = "ok" /\ q.answer.id = i
    BY Zenon DEF SecretsKnown, Secrets!SecretsAreSeen
  <2>. QED
    BY <2>1, Zenon DEF Creates, MadeIt
<1>. QED
  BY <1>1, <1>2, <1>3, Zenon DEF SecretsKnown

\* A list is asked for while no other is under way.
LEMMA CaughtAsks ==
    ASSUME NEW D, D \subseteq secretsCalls, Secrets!Load(secretsEnv', D), timers' \in Nat,
           ~ secretsAstray' => \A q \in secretsCalls : q.kind # "list"
    PROVE  SecretsCaught'
<1>1. PICK q : secretsCalls' = D \cup {q} /\ q.kind = "list" /\ q.env = secretsEnv' /\ ~ MadeIt(q)
  BY SecretAsked, Zenon
<1>2. \A d \in secretsCalls' : d.kind = "list" => d = q \/ secretsAstray'
  BY <1>1, Zenon
<1>. QED
  BY <1>1, <1>2, Zenon DEF SecretsCaught, ListsAre, Catching

\* The lists under way stay; if one was to be asked for, it is still.
LEMMA CaughtRest ==
    ASSUME SecretsCaught, UNCHANGED <<items, secretsPage, secretsEnv, secretsData>>, timers' \in Nat,
           secretsAstray => secretsAstray',
           \A q : q.kind = "list" => (q \in secretsCalls' <=> q \in secretsCalls) \/ secretsAstray',
           Soon(secretsCalls, timers, create, created) => Soon(secretsCalls', timers', create', created') \/ secretsAstray'
    PROVE  SecretsCaught'
<1>1. Secrets!View(secretsEnv)' = Secrets!View(secretsEnv)
  BY Zenon DEF Secrets!View, Secrets!Live, Secrets!Reachable
<1>2. PICK v : v = Secrets!View(secretsEnv) /\ v = Secrets!View(secretsEnv)'
  BY <1>1, Zenon
<1>3. PICK s : s = Soon(secretsCalls, timers, create, created)
  OBVIOUS
<1>4. PICK t : t = Soon(secretsCalls', timers', create', created')
  OBVIOUS
<1>. SUFFICES ASSUME ~ secretsAstray'
              PROVE  ListsAre(secretsCalls', secretsEnv', v, t) /\ Catching(secretsCalls', secretsData', v, t)
  BY <1>2, <1>4, Zenon DEF SecretsCaught
<1>5. ListsAre(secretsCalls, secretsEnv, v, s) /\ Catching(secretsCalls, secretsData, v, s)
  BY <1>2, <1>3, Zenon DEF SecretsCaught
<1>6. s => t
  BY <1>3, <1>4, Zenon
<1>. QED
  BY <1>5, <1>6, Zenon DEF ListsAre, Catching

LEMMA KnownServe ==
    ASSUME SecretsInv, SecretsKnown, NEW q \in secretsCalls, Secrets!Serve(q)
    PROVE  SecretsKnown'
<1>1. q.answer = Secrets!Sent /\ UNCHANGED <<seen, secretsTold, secretsAstray>>
  BY Zenon DEF Secrets!Serve
<1>2. "list" # "end" /\ "create" # "end" /\ "test" # "end" /\ Secrets!Refused.at # "ok" /\ ~ MadeIt(q)
  BY <1>1, SMT DEF Secrets!Refused, Secrets!Sent, MadeIt
<1>3. SecretCall(q, secretsForm) /\ items \in Seq(SecretsItem)
  BY Zenon DEF SecretsInv
<1>4. Len(items) \in Nat /\ DOMAIN items = 1..Len(items) /\ items \in [1..Len(items) -> SecretsItem]
  BY <1>3, LenProperties, Zenon
<1>5. ASSUME NEW a, Secrets!Answered(q, a)
      PROVE  \E r : /\ secretsCalls' = (secretsCalls \ {q}) \cup {r} /\ r.answer = a /\ r.kind = q.kind
                    /\ q.kind # "list" => r.id = q.id
  BY <1>3, <1>5, SecretReplied, ZenonT(30)
<1>6. ASSUME NEW a, Secrets!Answered(q, a), items' = items, a.at = "ok" => q.kind # "end" PROVE SecretsKnown'
  <2>1. PICK r : secretsCalls' = (secretsCalls \ {q}) \cup {r} /\ r.answer = a /\ r.kind = q.kind
    BY <1>5, <1>6, Zenon
  <2>2. \A d \in secretsCalls' : d \in secretsCalls \/ ~ (d.kind = "end" /\ MadeIt(d))
    BY <1>6, <2>1, Zenon DEF MadeIt
  <2>3. \A d \in secretsCalls : Creates(d) /\ MadeIt(d) => d \in secretsCalls'
    BY <1>2, <2>1, Zenon
  <2>. QED
    BY <1>1, <1>6, <2>2, <2>3, KnownRest, Zenon
<1>7. CASE q.kind = "list" /\ Secrets!Answered(q, Secrets!View(q.env)) /\ UNCHANGED items
  BY <1>2, <1>6, <1>7, Zenon
<1>8. CASE q.kind = "test" /\ Secrets!Answered(q, [at |-> "ok"]) /\ UNCHANGED items
  BY <1>2, <1>6, <1>8, Zenon
<1>9. CASE Secrets!Answered(q, Secrets!Refused) /\ UNCHANGED items
  BY <1>2, <1>6, <1>9, Zenon
\* What is made is under way to the form.
<1>10. CASE /\ q.kind = "create" /\ items' = Append(items, [env |-> q.env, form |-> q.form, live |-> TRUE])
            /\ Secrets!Answered(q, [at |-> "ok", id |-> Len(items) + 1])
  <2>1. PICK a : a = [at |-> "ok", id |-> Len(items) + 1]
    OBVIOUS
  <2>2. a.at = "ok" /\ a.id = Len(items) + 1
    BY <2>1
  <2>3. PICK r : secretsCalls' = (secretsCalls \ {q}) \cup {r} /\ r.answer = a /\ r.kind = q.kind
    BY <1>5, <1>10, <2>1, Zenon
  <2>4. PICK w : w = [env |-> q.env, form |-> q.form, live |-> TRUE]
    OBVIOUS
  <2>5. q.form \in 0..secretsForm /\ q.env \in Secrets!Envs /\ secretsForm \in Nat
    <3>1. "list" # "create"
      BY SMT
    <3>. QED
      BY <1>3, <1>10, <3>1, Zenon DEF SecretCall, SecretsInv
  <2>6. w \in SecretsItem
    BY <2>4, <2>5, SMT DEF SecretsItem
  <2>7. items' = Append(items, w)
    BY <1>10, <2>4, Zenon
  <2>8. DOMAIN items' = 1..(Len(items) + 1) /\ \A i \in 1..Len(items) : items'[i] = items[i]
    BY <1>3, <1>4, <2>6, <2>7, AppendProperties, LenProperties
  <2>9. \A i \in DOMAIN items' : i = Len(items) + 1 \/ i \in DOMAIN items
    BY <1>4, <2>8
  <2>10. DOMAIN items \subseteq DOMAIN items' /\ \A i \in DOMAIN items : items'[i] = items[i]
    BY <1>4, <2>8
  <2>11. \A i : EndedIs(items, i) => EndedIs(items', i)
    BY <2>10, Zenon DEF EndedIs
  <2>12. \A d \in secretsCalls' : d.kind = "end" /\ MadeIt(d) => EndedIs(items', d.id)
    BY <1>2, <1>10, <2>3, <2>11, Zenon DEF SecretsKnown
  <2>13. Secrets!SecretsAreSeen'
    <3>. SUFFICES ASSUME NEW i \in DOMAIN items', i \notin seen', ~ secretsAstray'
                  PROVE  \E d \in secretsCalls' : d.kind = "create" /\ d.answer.at = "ok" /\ d.answer.id = i
      BY Zenon DEF Secrets!SecretsAreSeen
    <3>1. CASE i = Len(items) + 1
      BY <1>10, <2>2, <2>3, <3>1, Zenon
    <3>2. CASE i \in DOMAIN items
      <4>1. PICK d \in secretsCalls : d.kind = "create" /\ d.answer.at = "ok" /\ d.answer.id = i
        BY <1>1, <3>2, Zenon DEF SecretsKnown, Secrets!SecretsAreSeen
      <4>. QED
        BY <1>2, <2>3, <4>1, Zenon DEF MadeIt
    <3>. QED
      BY <2>9, <3>1, <3>2, Zenon
  <2>. QED
    BY <1>1, <2>11, <2>12, <2>13, Zenon DEF SecretsKnown
\* What is ended is not live again.
<1>11. CASE q.kind = "end" /\ q.id \in Secrets!Live(q.env) /\ items' = [items EXCEPT ![q.id].live = FALSE]
            /\ Secrets!Answered(q, [at |-> "ok"])
  <2>1. q.id \in DOMAIN items
    BY <1>11, Zenon DEF Secrets!Live, Secrets!Reachable
  <2>. DEFINE y == [items[q.id] EXCEPT !.live = FALSE]
  <2>2. ~ y.live
    <3>1. PICK x : x = items[q.id] /\ x \in SecretsItem
      BY <1>4, <2>1, Zenon
    <3>2. ASSUME NEW b \in BOOLEAN PROVE [x EXCEPT !.live = b].live = b
      BY <3>1, SMT DEF SecretsItem
    <3>. QED
      BY <3>1, <3>2, Zenon
  <2>3. items' = [items EXCEPT ![q.id] = y]
    BY <1>11, Zenon
  <2>. HIDE DEF y
  <2>4. PICK T : T = items'
    OBVIOUS
  <2>5. DOMAIN T = DOMAIN items /\ \A i \in DOMAIN items : T[i] = IF i = q.id THEN y ELSE items[i]
    BY ONLY <1>4, <2>3, <2>4, Zenon
  <2>6. \A i : EndedIs(items, i) => EndedIs(T, i)
    BY <2>2, <2>5, Zenon DEF EndedIs
  <2>7. EndedIs(T, q.id)
    BY <2>1, <2>2, <2>5, Zenon DEF EndedIs
  <2>8. PICK r : secretsCalls' = (secretsCalls \ {q}) \cup {r} /\ r.kind = q.kind /\ r.id = q.id
    <3>1. "end" # "list"
      BY SMT
    <3>. QED
      BY <1>5, <1>11, <3>1, Zenon
  <2>9. \A d \in secretsCalls' : d.kind = "end" /\ MadeIt(d) => EndedIs(T, d.id)
    BY <2>6, <2>7, <2>8, Zenon DEF SecretsKnown
  <2>10. Secrets!SecretsAreSeen'
    <3>. SUFFICES ASSUME NEW i \in DOMAIN items', i \notin seen', ~ secretsAstray'
                  PROVE  \E d \in secretsCalls' : d.kind = "create" /\ d.answer.at = "ok" /\ d.answer.id = i
      BY Zenon DEF Secrets!SecretsAreSeen
    <3>1. i \in DOMAIN items
      BY <2>4, <2>5, Zenon
    <3>2. PICK d \in secretsCalls : d.kind = "create" /\ d.answer.at = "ok" /\ d.answer.id = i
      BY <1>1, <3>1, Zenon DEF SecretsKnown, Secrets!SecretsAreSeen
    <3>. QED
      BY <1>2, <2>8, <3>2, Zenon DEF MadeIt
  <2>11. \A i \in secretsTold' : EndedIs(items', i)
    BY <1>1, <2>4, <2>6, Zenon DEF SecretsKnown
  <2>. QED
    BY <2>4, <2>9, <2>10, <2>11, Zenon DEF SecretsKnown
<1>. QED
  BY <1>7, <1>8, <1>9, <1>10, <1>11, Zenon DEF Secrets!Serve

LEMMA CaughtServe ==
    ASSUME SecretsInv, SecretsCaught, NEW q \in secretsCalls, Secrets!Serve(q)
    PROVE  SecretsCaught'
<1>1. /\ q.answer = Secrets!Sent
      /\ UNCHANGED <<secretsPage, secretsEnv, secretsData, timers, create, created, secretsAstray>>
  BY Zenon DEF Secrets!Serve, Secrets!modal
<1>2. "list" # "create" /\ "end" # "list" /\ "test" # "list" /\ Secrets!Refused.at # "ok" /\ ~ MadeIt(q)
  BY <1>1, SMT DEF Secrets!Refused, Secrets!Sent, MadeIt
<1>3. SecretCall(q, secretsForm) /\ timers \in Nat
  BY Zenon DEF SecretsInv, SecretsCaught
<1>4. ASSUME NEW a, Secrets!Answered(q, a)
      PROVE  \E r : secretsCalls' = (secretsCalls \ {q}) \cup {r} /\ r.answer = a /\ r.kind = q.kind /\ r.env = q.env
  BY <1>3, <1>4, SecretReplied, ZenonT(30)
\* A list is as the API is.
<1>5. CASE q.kind = "list" /\ Secrets!Answered(q, Secrets!View(q.env)) /\ UNCHANGED items
  <2>0. PICK a : a = Secrets!View(q.env) /\ Secrets!Answered(q, a)
    BY <1>5, Zenon
  <2>1. PICK r : secretsCalls' = (secretsCalls \ {q}) \cup {r} /\ r.answer = a /\ r.kind = q.kind /\ r.env = q.env
    BY <1>4, <2>0, Zenon
  <2>2. Secrets!View(secretsEnv)' = Secrets!View(secretsEnv)
    BY <1>1, <1>5, Zenon DEF Secrets!View, Secrets!Live, Secrets!Reachable
  <2>3. PICK v : v = Secrets!View(secretsEnv) /\ v = Secrets!View(secretsEnv)'
    BY <2>2, Zenon
  <2>4. Soon(secretsCalls, timers, create, created) => Soon(secretsCalls', timers, create, created)
    BY <1>5, <2>1, Zenon DEF Soon
  <2>5. ASSUME ~ secretsAstray
        PROVE  /\ ListsAre(secretsCalls', secretsEnv, v, Soon(secretsCalls', timers, create, created))
               /\ Catching(secretsCalls', secretsData, v, Soon(secretsCalls', timers, create, created))
    <3>1. ListsAre(secretsCalls, secretsEnv, v, Soon(secretsCalls, timers, create, created))
      BY <2>3, <2>5, Zenon DEF SecretsCaught
    <3>2. r.env = secretsEnv /\ r.answer = v
      BY <1>5, <2>1, <2>0, <2>3, <3>1, Zenon DEF ListsAre
    <3>3. ListsAre(secretsCalls', secretsEnv, v, Soon(secretsCalls', timers, create, created))
      BY <2>1, <2>4, <3>1, <3>2, Zenon DEF ListsAre
    <3>. QED
      BY <1>5, <2>1, <3>3, Zenon DEF Catching
  <2>. QED
    BY <1>1, <1>3, <2>3, <2>5, Zenon DEF SecretsCaught
<1>6. CASE Secrets!Answered(q, Secrets!Refused) /\ q.kind # "list" /\ UNCHANGED items
  <2>1. PICK r : secretsCalls' = (secretsCalls \ {q}) \cup {r} /\ r.answer = Secrets!Refused /\ r.kind = q.kind
    BY <1>4, <1>6, Zenon
  <2>2. \A d : d.kind = "list" => (d \in secretsCalls' <=> d \in secretsCalls)
    BY <1>6, <2>1, Zenon
  <2>3. Soon(secretsCalls, timers, create, created) => Soon(secretsCalls', timers', create', created')
    BY <1>1, <1>2, <2>1, Zenon DEF Soon
  <2>. QED
    BY <1>1, <1>3, <1>6, <2>2, <2>3, CaughtRest, Zenon
\* What is made or ended is under way to the page, which will ask again.
<1>7. ASSUME NEW a, Secrets!Answered(q, a), a.at = "ok", q.kind # "list" PROVE SecretsCaught'
  <2>1. PICK r : secretsCalls' = (secretsCalls \ {q}) \cup {r} /\ r.answer = a /\ r.kind = q.kind
    BY <1>4, <1>7, Zenon
  <2>2. Soon(secretsCalls', timers', create', created')
    BY <1>7, <2>1, Zenon DEF Soon, MadeIt
  <2>3. \A d \in secretsCalls' : d.kind = "list" => d \in secretsCalls
    BY <1>7, <2>1, Zenon
  <2>4. ~ secretsAstray => \A d \in secretsCalls : d.kind = "list" => d.env = secretsEnv
    BY Zenon DEF SecretsCaught, ListsAre
  <2>. QED
    BY <1>1, <1>3, <2>2, <2>3, <2>4, Zenon DEF SecretsCaught, ListsAre, Catching
<1>8. \A i : [at |-> "ok"].at = "ok" /\ [at |-> "ok", id |-> i].at = "ok"
  OBVIOUS
<1>. QED
  BY <1>2, <1>5, <1>6, <1>7, <1>8, Zenon DEF Secrets!Serve

\* What a button sends, and nothing else, is under way beside what was.
LEMMA KnownPosts ==
    ASSUME SecretsKnown, SecretsCaught, NEW x, NEW i, Secrets!Write(x, i), x # "list",
           UNCHANGED <<secretsPage, items, secretsEnv, secretsData, timers, seen, secretsTold, secretsAstray>>,
           UNCHANGED <<create, created>>
    PROVE  SecretsKnown' /\ SecretsCaught'
<1>. DEFINE q == [kind |-> x, n |-> secretsWrites + 1, env |-> secretsEnv, id |-> i, form |-> secretsForm,
                  checked |-> selected, answer |-> Secrets!Sent]
<1>1. secretsCalls' = secretsCalls \cup {q}
  BY Zenon DEF Secrets!Write
<1>2. q.kind = x /\ ~ MadeIt(q)
  BY SMT DEF MadeIt, Secrets!Sent
<1>. HIDE DEF q
<1>3. \A d \in secretsCalls' : d \in secretsCalls \/ ~ (d.kind = "end" /\ MadeIt(d))
  BY <1>1, <1>2, Zenon
<1>4. SecretsKnown'
  BY <1>1, <1>3, KnownRest, Zenon
<1>5. \A d : d.kind = "list" => (d \in secretsCalls' <=> d \in secretsCalls)
  BY <1>1, <1>2, Zenon
<1>6. Soon(secretsCalls, timers, create, created) => Soon(secretsCalls', timers', create', created')
  BY <1>1, Zenon DEF Soon
<1>7. timers' \in Nat
  BY Zenon DEF SecretsCaught
<1>. QED
  BY <1>4, <1>5, <1>6, <1>7, CaughtRest, Zenon

LEMMA KnownKept == SecretsInv /\ SecretsKnown /\ SecretsCaught /\ (Secrets!Next \/ UNCHANGED secretsVars) => SecretsKnown' /\ SecretsCaught'
<1>. SUFFICES ASSUME SecretsInv, SecretsKnown, SecretsCaught, Secrets!Next \/ UNCHANGED secretsVars
              PROVE  SecretsKnown' /\ SecretsCaught'
  OBVIOUS
<1>1. timers \in Nat /\ "list" \notin {"create", "end", "test"} /\ "create" \notin {"end", "test"}
  BY SMT DEF SecretsCaught
<1>2. CASE UNCHANGED secretsVars
  <2>1. /\ UNCHANGED <<secretsPage, items, secretsEnv, secretsData, timers, seen, secretsTold, secretsAstray>>
        /\ UNCHANGED <<create, created, secretsCalls>>
    BY <1>2, Zenon DEF secretsVars
  <2>. QED
    BY <1>1, <2>1, KnownRest, CaughtRest, Zenon
\* A list is asked for, and all that was under way stays.
<1>3. ASSUME Secrets!Load(secretsEnv', secretsCalls), timers' \in Nat, UNCHANGED <<items, secretsTold, seen>>,
             secretsAstray' = (secretsAstray \/ Secrets!Lists # {})
      PROVE  SecretsKnown' /\ SecretsCaught'
  <2>1. PICK q : secretsCalls' = secretsCalls \cup {q} /\ ~ MadeIt(q)
    BY <1>3, SecretAsked, Zenon
  <2>2. SecretsKnown'
    BY <1>3, <2>1, KnownRest, Zenon
  <2>3. ~ secretsAstray' => \A d \in secretsCalls : d.kind # "list"
    BY <1>3, Zenon DEF Secrets!Lists
  <2>. QED
    BY <1>3, <2>2, <2>3, CaughtAsks, Zenon
<1>4. ASSUME NEW e \in Secrets!Envs, Secrets!SetEnv(e) PROVE SecretsKnown' /\ SecretsCaught'
  BY <1>1, <1>3, <1>4, Zenon DEF Secrets!SetEnv, Secrets!Miss
<1>5. CASE Secrets!Timer
  <2>1. /\ secretsEnv' = secretsEnv /\ timers' = timers - 1 /\ timers > 0 /\ Secrets!Load(secretsEnv, secretsCalls)
        /\ UNCHANGED <<items, secretsTold, seen>> /\ secretsAstray' = (secretsAstray \/ Secrets!Lists # {})
    BY <1>5, Zenon DEF Secrets!Timer, Secrets!Miss
  <2>2. timers' \in Nat
    BY <1>1, <2>1
  <2>. QED
    BY <1>3, <2>1, <2>2, Zenon
<1>6. CASE Secrets!Open
  <2>1. /\ UNCHANGED <<secretsPage, items, secretsEnv, secretsData, timers, seen, secretsTold, secretsAstray, secretsCalls>>
        /\ ~ create
    BY <1>6, Zenon DEF Secrets!Open
  <2>2. Soon(secretsCalls, timers, create, created) => Soon(secretsCalls', timers', create', created')
    BY <2>1, Zenon DEF Soon
  <2>. QED
    BY <1>1, <2>1, <2>2, KnownRest, CaughtRest, Zenon
<1>7. CASE Secrets!Check
  <2>1. /\ UNCHANGED <<secretsPage, items, secretsEnv, secretsData, timers, seen, secretsTold, secretsAstray>>
        /\ UNCHANGED <<create, created, secretsCalls>>
    BY <1>7, Zenon DEF Secrets!Check
  <2>. QED
    BY <1>1, <2>1, KnownRest, CaughtRest, Zenon
<1>8. CASE Secrets!Close
  <2>1. /\ create /\ ~ create' /\ UNCHANGED <<secretsPage, items, secretsEnv, secretsData, timers, seen, secretsTold, created>>
        /\ IF created # 0 THEN Secrets!Load(secretsEnv, secretsCalls) ELSE UNCHANGED <<secretsCalls, secretsLoads>>
        /\ secretsAstray' = (secretsAstray \/ (created # 0 /\ Secrets!Lists # {}) \/ \E q \in secretsCalls : q.kind = "create" /\ q.form = secretsForm)
    BY <1>8, Zenon DEF Secrets!Close, Secrets!Reload, Secrets!Miss
  <2>2. CASE created # 0
    <3>1. PICK q : secretsCalls' = secretsCalls \cup {q} /\ ~ MadeIt(q)
      BY <2>1, <2>2, SecretAsked, Zenon
    <3>2. SecretsKnown'
      BY <2>1, <3>1, KnownRest, Zenon
    <3>3. ~ secretsAstray' => \A d \in secretsCalls : d.kind # "list"
      BY <2>1, <2>2, Zenon DEF Secrets!Lists
    <3>4. Secrets!Load(secretsEnv', secretsCalls)
      BY <2>1, <2>2, Zenon
    <3>. QED
      BY <1>1, <2>1, <3>2, <3>3, <3>4, CaughtAsks, Zenon
  <2>3. CASE created = 0
    <3>1. secretsCalls' = secretsCalls
      BY <2>1, <2>3, Zenon
    <3>2. Soon(secretsCalls, timers, create, created) => Soon(secretsCalls', timers', create', created')
      BY <2>1, <2>3, <3>1, Zenon DEF Soon
    <3>. QED
      BY <1>1, <2>1, <3>1, <3>2, KnownRest, CaughtRest, Zenon
  <2>. QED
    BY <2>2, <2>3
<1>9. ASSUME NEW e, Secrets!Submit(e) PROVE SecretsKnown' /\ SecretsCaught'
  <2>1. /\ Secrets!Write("create", 0) /\ UNCHANGED <<create, created>>
        /\ UNCHANGED <<secretsPage, items, secretsEnv, secretsData, timers, seen, secretsTold, secretsAstray>>
    BY <1>9, Zenon DEF Secrets!Submit
  <2>. QED
    BY <1>1, <2>1, KnownPosts, Zenon
<1>10. ASSUME NEW x \in {"end", "test"}, NEW i, Secrets!Act(x, i) PROVE SecretsKnown' /\ SecretsCaught'
  <2>1. /\ Secrets!Write(x, i) /\ UNCHANGED <<create, created>>
        /\ UNCHANGED <<secretsPage, items, secretsEnv, secretsData, timers, seen, secretsTold, secretsAstray>>
    BY <1>10, Zenon DEF Secrets!Act, Secrets!modal
  <2>. QED
    BY <1>1, <2>1, KnownPosts, Zenon
\* The list that arrives is the API's, or the page will ask again.
<1>11. ASSUME NEW q \in secretsCalls, Secrets!Listed(q) PROVE SecretsKnown' /\ SecretsCaught'
  <2>1. /\ q.kind = "list" /\ MadeIt(q) /\ secretsData' = q.answer /\ secretsCalls' = secretsCalls \ {q}
        /\ UNCHANGED <<secretsPage, items, secretsEnv, timers, seen, secretsTold, secretsAstray, create, created>>
    BY <1>11, Zenon DEF Secrets!Listed, Secrets!modal, MadeIt
  <2>2. SecretsKnown'
    BY <1>1, <2>1, KnownRest, Zenon DEF Creates
  <2>3. Secrets!View(secretsEnv)' = Secrets!View(secretsEnv)
    BY <2>1, Zenon DEF Secrets!View, Secrets!Live, Secrets!Reachable
  <2>4. PICK v : v = Secrets!View(secretsEnv) /\ v = Secrets!View(secretsEnv)'
    BY <2>3, Zenon
  <2>5. Soon(secretsCalls, timers, create, created) => Soon(secretsCalls', timers, create, created)
    BY <2>1, Zenon DEF Soon
  <2>6. ASSUME ~ secretsAstray
        PROVE  /\ ListsAre(secretsCalls', secretsEnv, v, Soon(secretsCalls', timers, create, created))
               /\ Catching(secretsCalls', secretsData', v, Soon(secretsCalls', timers, create, created))
    <3>1. ListsAre(secretsCalls, secretsEnv, v, Soon(secretsCalls, timers, create, created))
      BY <2>4, <2>6, Zenon DEF SecretsCaught
    <3>2. ListsAre(secretsCalls', secretsEnv, v, Soon(secretsCalls', timers, create, created))
      BY <2>1, <2>5, <3>1, Zenon DEF ListsAre
    <3>3. secretsData' = v \/ Soon(secretsCalls', timers, create, created)
      BY <2>1, <2>5, <3>1, Zenon DEF ListsAre
    <3>. QED
      BY <3>2, <3>3, Zenon DEF Catching
  <2>. QED
    BY <1>1, <2>1, <2>2, <2>4, <2>6, Zenon DEF SecretsCaught
\* A secret is shown to the form that asked; the form will ask for the list.
<1>12. ASSUME NEW q \in secretsCalls, Secrets!Created(q) PROVE SecretsKnown' /\ SecretsCaught'
  <2>1. /\ Creates(q) /\ MadeIt(q) /\ secretsCalls' = secretsCalls \ {q}
        /\ UNCHANGED <<secretsPage, items, secretsEnv, secretsData, timers, secretsTold, secretsAstray, create>>
        /\ IF create /\ q.form = secretsForm THEN created' = q.answer.id /\ seen' = seen \cup {created'} ELSE seen' = seen
    BY <1>12, Zenon DEF Secrets!Created, Secrets!ShownSecret, Creates, MadeIt
  <2>2. ~ secretsAstray => create /\ q.form = secretsForm
    BY <2>1, Zenon DEF SecretsInv, OfOpenForm
  <2>3. q.answer.id # 0
    <3>1. q.answer.id \in Nat \ {0}
      BY <2>1, Zenon DEF SecretsInv, SecretCall
    <3>. QED
      BY <3>1
  <2>4. SecretsKnown'
    <3>1. q.answer.id \in seen' \/ secretsAstray
      BY <2>1, <2>2, Zenon
    <3>2. seen \subseteq seen'
      BY <2>1, Zenon
    <3>. QED
      BY <2>1, <3>1, <3>2, KnownRest, Zenon
  <2>5. Soon(secretsCalls', timers', create', created') \/ secretsAstray'
    BY <2>1, <2>2, <2>3, Zenon DEF Soon
  <2>6. \A d : d.kind = "list" => (d \in secretsCalls' <=> d \in secretsCalls)
    BY <1>1, <2>1, Zenon DEF Creates
  <2>. QED
    BY <1>1, <2>1, <2>4, <2>5, <2>6, CaughtRest, Zenon
<1>13. ASSUME NEW q \in secretsCalls, Secrets!Acted(q) PROVE SecretsKnown' /\ SecretsCaught'
  <2>1. /\ q.kind \in {"end", "test"} /\ MadeIt(q) /\ secretsTold' = (IF q.kind = "end" THEN secretsTold \cup {q.id} ELSE secretsTold)
        /\ UNCHANGED <<secretsPage, items, secretsEnv, secretsData, seen, create, created>>
    BY <1>13, Zenon DEF Secrets!Acted, Secrets!modal, MadeIt
  <2>2. \A i \in secretsTold' : i \in secretsTold \/ EndedIs(items, i)
    BY <2>1, Zenon DEF SecretsKnown
  <2>3. ~ Creates(q) /\ q.kind # "list"
    BY <1>1, <2>1, Zenon DEF Creates
  <2>4. CASE /\ Secrets!Load(secretsEnv, secretsCalls \ {q}) /\ timers' = timers
             /\ secretsAstray' = (secretsAstray \/ Secrets!Lists # {})
    <3>1. PICK r : secretsCalls' = (secretsCalls \ {q}) \cup {r} /\ ~ MadeIt(r)
      BY <2>4, SecretAsked, Zenon
    <3>2. SecretsKnown'
      BY <2>1, <2>2, <2>3, <2>4, <3>1, KnownRest, Zenon
    <3>3. ~ secretsAstray' => \A d \in secretsCalls : d.kind # "list"
      BY <2>4, Zenon DEF Secrets!Lists
    <3>4. Secrets!Load(secretsEnv', secretsCalls \ {q}) /\ secretsCalls \ {q} \subseteq secretsCalls
      BY <2>1, <2>4, Zenon
    <3>. QED
      BY <1>1, <2>4, <3>2, <3>3, <3>4, CaughtAsks, Zenon
  <2>5. CASE timers' = timers + 1 /\ secretsCalls' = secretsCalls \ {q} /\ secretsAstray' = secretsAstray
    <3>1. timers' \in Nat /\ timers' > 0
      BY <1>1, <2>5
    <3>2. SecretsKnown'
      BY <2>1, <2>2, <2>3, <2>5, KnownRest, Zenon
    <3>3. \A d : d.kind = "list" => (d \in secretsCalls' <=> d \in secretsCalls)
      BY <2>3, <2>5, Zenon
    <3>4. Soon(secretsCalls', timers', create', created')
      BY <3>1, Zenon DEF Soon
    <3>. QED
      BY <2>1, <2>5, <3>1, <3>2, <3>3, <3>4, CaughtRest, Zenon
  <2>. QED
    BY <1>13, <2>4, <2>5, Zenon DEF Secrets!Acted, Secrets!Miss
<1>14. ASSUME NEW q \in secretsCalls, Secrets!Fails(q) PROVE SecretsKnown' /\ SecretsCaught'
  <2>1. /\ secretsCalls' = secretsCalls \ {q}
        /\ UNCHANGED <<secretsPage, items, secretsEnv, secretsData, timers, seen, secretsTold, create, created>>
        /\ secretsAstray' = (secretsAstray \/ q.kind = "list" \/ MadeIt(q))
    BY <1>14, Zenon DEF Secrets!Fails, Secrets!Miss, Secrets!ToldFailed, MadeIt
  <2>2. SecretsKnown'
    BY <2>1, KnownRest, Zenon
  <2>3. \A d : d.kind = "list" => (d \in secretsCalls' <=> d \in secretsCalls) \/ secretsAstray'
    BY <2>1, Zenon
  <2>4. Soon(secretsCalls, timers, create, created) => Soon(secretsCalls', timers', create', created') \/ secretsAstray'
    BY <2>1, Zenon DEF Soon
  <2>. QED
    BY <1>1, <2>1, <2>2, <2>3, <2>4, CaughtRest, Zenon
<1>. QED
  BY <1>2, <1>4, <1>5, <1>6, <1>7, <1>8, <1>9, <1>10, <1>11, <1>12, <1>13, <1>14, KnownServe, CaughtServe,
     Zenon DEF Secrets!Next

LEMMA KnownTells == SecretsKnown /\ SecretsCaught => Secrets!ToldAreEnded /\ Secrets!SecretsAreSeen /\ Secrets!ListCatchesUp
<1>. SUFFICES ASSUME SecretsKnown, SecretsCaught
              PROVE  Secrets!ToldAreEnded /\ Secrets!SecretsAreSeen /\ Secrets!ListCatchesUp
  OBVIOUS
<1>1. Secrets!ToldAreEnded /\ Secrets!SecretsAreSeen
  BY Zenon DEF SecretsKnown, EndedIs, Secrets!ToldAreEnded
<1>2. ~ (0 > 0)
  OBVIOUS
<1>3. Secrets!ListCatchesUp
  BY <1>2, Zenon DEF SecretsCaught, Catching, Soon, Secrets!ListCatchesUp
<1>. QED
  BY <1>1, <1>3

-----------------------------------------------------------------------------
\* Redemptions: what was announced is a row, and the list will show it.

\* The redemption t, a click with its environment, is a row of R.
IsRow(R, t) == \E i \in DOMAIN R : R[i].by = t.n /\ R[i].ok /\ R[i].campaign \in Redemptions!CampaignsOf(t.env)

\* The numbers K of rows of R have those announced in the environment e.
RowsHave(R, K, e, said) == \A t \in said : t.env = e => \E i \in K : i \in DOMAIN R /\ R[i].by = t.n /\ R[i].ok

\* What an answer tells of is there; a list that has not gone astray has all that was said.
TellsRows(q, R, e, said, lost) ==
    /\ q.kind = "redeem" /\ q.answer.at = "ok" => IsRow(R, q)
    /\ ~ lost /\ q.kind = "redemptions" /\ q.answer.at = "ok" => RowsHave(R, q.answer.rows, e, said)

RedemptionsCaught ==
    /\ \E S : redemptions \in Seq(S)
    /\ \A t \in redemptionsTold : IsRow(redemptions, t)
    /\ \A q \in redemptionsCalls : TellsRows(q, redemptions, redemptionsEnv, redemptionsTold, redemptionsAstray)
    /\ ~ redemptionsAstray /\ redemptionsData # Redemptions!NotLoaded =>
          \/ RowsHave(redemptions, redemptionsData.rows, redemptionsEnv, redemptionsTold)
          \/ \E q \in redemptionsCalls : q.kind = "redemptions"

RowsGrow(R, T) == \A i \in DOMAIN R : i \in DOMAIN T /\ T[i] = R[i]

LEMMA RowsOutlive ==
    ASSUME NEW R, NEW T, RowsGrow(R, T)
    PROVE  /\ \A t : IsRow(R, t) => IsRow(T, t)
           /\ \A K, e, D : RowsHave(R, K, e, D) => RowsHave(T, K, e, D)
           /\ \A q, e, D, l : TellsRows(q, R, e, D, l) => TellsRows(q, T, e, D, l)
<1>1. \A t : IsRow(R, t) => IsRow(T, t)
  BY Zenon DEF RowsGrow, IsRow
<1>2. \A K, e, D : RowsHave(R, K, e, D) => RowsHave(T, K, e, D)
  BY Zenon DEF RowsGrow, RowsHave
<1>. QED
  BY <1>1, <1>2, Zenon DEF TellsRows

\* A row is added at the end.
RowAdded(R, x, T) ==
    /\ \E S : T \in Seq(S)
    /\ RowsGrow(R, T) /\ \E i \in DOMAIN T : T[i] = x

LEMMA AddsRow ==
    ASSUME NEW R, NEW S, R \in Seq(S), NEW x, NEW T, T = Append(R, x)
    PROVE  RowAdded(R, x, T)
<1>1. PICK Z : Z = S \cup {x}
  OBVIOUS
<1>2. Len(R) \in Nat /\ DOMAIN R = 1..Len(R) /\ R \in [1..Len(R) -> S]
  BY LenProperties
<1>3. R \in [1..Len(R) -> Z]
  BY <1>1, <1>2
<1>4. R \in Seq(Z) /\ x \in Z
  <2>1. PICK n \in Nat : n = Len(R)
    BY <1>2, Zenon
  <2>2. R \in [1..n -> Z]
    BY <1>3, <2>1, Zenon
  <2>3. R \in Seq(Z)
    BY <2>2, SeqDef
  <2>. QED
    BY <1>1, <2>3
<1>5. /\ T \in Seq(Z) /\ DOMAIN T = 1..(Len(R) + 1) /\ T[Len(R) + 1] = x
      /\ \A i \in 1..Len(R) : T[i] = R[i]
  BY <1>4, AppendProperties, LenProperties
<1>6. Len(R) + 1 \in DOMAIN T /\ \A i \in DOMAIN R : i \in DOMAIN T
  BY <1>2, <1>5
<1>. QED
  BY <1>2, <1>5, <1>6, Zenon DEF RowAdded, RowsGrow

\* A request, and what is known of its answer.
LEMMA RedemptionReplied ==
    ASSUME NEW q, NEW A, NEW k, RedemptionCall(q, A, k), NEW a, Redemptions!Answer(q, a)
    PROVE  \E r : /\ redemptionsCalls' = (redemptionsCalls \ {q}) \cup {r} /\ r.answer = a /\ r.kind = q.kind /\ r.env = q.env
                  /\ r.n = q.n
<1>. DEFINE r == [q EXCEPT !.answer = a]
<1>1. r.answer = a /\ r.kind = q.kind /\ r.env = q.env /\ r.n = q.n
  <2>1. CASE RowsFields(q)
    BY <2>1, SMTT(30) DEF RowsFields
  <2>2. CASE RedeemFields(q)
    BY <2>2, SMTT(30) DEF RedeemFields
  <2>. QED
    BY <2>1, <2>2, Zenon DEF RedemptionCall
<1>2. redemptionsCalls' = (redemptionsCalls \ {q}) \cup {r}
  BY Zenon DEF Redemptions!Answer
<1>. HIDE DEF r
<1>. QED
  BY <1>1, <1>2, Zenon

LEMMA TwoAsked ==
    \A e, x, R, d, D, l : \A q \in Redemptions!Lists(e, x) :
       q.kind # "redeem" /\ TellsRows(q, R, d, D, l)
<1>. TAKE e, x, R, d, D, l
<1>. DEFINE q(y) == [kind |-> y, n |-> x, env |-> e, answer |-> Redemptions!Sent]
<1>1. \A y : q(y).kind = y /\ q(y).answer = Redemptions!Sent
  BY SMT
<1>2. Redemptions!Lists(e, x) = {q(y) : y \in {"redemptions", "campaigns"}}
  BY Zenon DEF Redemptions!Lists
<1>. HIDE DEF q
<1>3. Redemptions!Sent.at # "ok" /\ "campaigns" # "redeem" /\ "redemptions" # "redeem"
  BY SMT DEF Redemptions!Sent
<1>4. ASSUME NEW y \in {"redemptions", "campaigns"} PROVE q(y).kind # "redeem" /\ TellsRows(q(y), R, d, D, l)
  BY <1>1, <1>3, Zenon DEF TellsRows
<1>. QED
  BY <1>2, <1>4, Zenon

LEMMA RowsAskedFor ==
    \A e, x : \E q \in Redemptions!Lists(e, x) : q.kind = "redemptions"
<1>. TAKE e, x
<1>. DEFINE q(y) == [kind |-> y, n |-> x, env |-> e, answer |-> Redemptions!Sent]
<1>1. q("redemptions").kind = "redemptions"
  BY SMT
<1>2. q("redemptions") \in Redemptions!Lists(e, x)
  BY Zenon DEF Redemptions!Lists
<1>. QED
  BY <1>1, <1>2, Zenon

LEMMA ShopBegin == Redemptions!Init => RedemptionsCaught
<1>. SUFFICES ASSUME Redemptions!Init PROVE RedemptionsCaught
  OBVIOUS
<1>1. /\ redemptions = <<>> /\ redemptionsTold = {} /\ redemptionsData = Redemptions!NotLoaded
      /\ redemptionsCalls = Redemptions!Lists("test", 0)
  BY Zenon DEF Redemptions!Init
<1>2. redemptions \in Seq({})
  BY <1>1
<1>. QED
  BY <1>1, <1>2, TwoAsked, Zenon DEF RedemptionsCaught

\* Rows are only added; every list under way stays, or one has arrived.
LEMMA ShopRest ==
    ASSUME RedemptionsCaught, RowsGrow(redemptions, redemptions'), \E S : redemptions' \in Seq(S),
           UNCHANGED <<redemptionsEnv, redemptionsTold>>, redemptionsAstray => redemptionsAstray',
           \A q \in redemptionsCalls' :
              q \in redemptionsCalls \/ TellsRows(q, redemptions', redemptionsEnv, redemptionsTold, redemptionsAstray'),
           \/ /\ redemptionsData' = redemptionsData
              /\ ~ redemptionsAstray' => \A q \in redemptionsCalls : q.kind = "redemptions" => \E d \in redemptionsCalls' : d.kind = q.kind
           \/ ~ redemptionsAstray' => RowsHave(redemptions, redemptionsData'.rows, redemptionsEnv, redemptionsTold)
    PROVE  RedemptionsCaught'
<1>1. /\ \A t : IsRow(redemptions, t) => IsRow(redemptions', t)
      /\ \A K, e, D : RowsHave(redemptions, K, e, D) => RowsHave(redemptions', K, e, D)
      /\ \A q, e, D, l : TellsRows(q, redemptions, e, D, l) => TellsRows(q, redemptions', e, D, l)
  BY RowsOutlive, Zenon
<1>2. \A t \in redemptionsTold' : IsRow(redemptions', t)
  BY <1>1, Zenon DEF RedemptionsCaught
<1>3. ASSUME NEW q \in redemptionsCalls'
      PROVE  TellsRows(q, redemptions', redemptionsEnv', redemptionsTold', redemptionsAstray')
  <2>1. CASE q \in redemptionsCalls
    <3>1. TellsRows(q, redemptions', redemptionsEnv, redemptionsTold, redemptionsAstray)
      BY <1>1, <2>1, Zenon DEF RedemptionsCaught
    <3>. QED
      BY <3>1, Zenon DEF TellsRows
  <2>. QED
    BY <1>3, <2>1, Zenon
<1>4. ASSUME ~ redemptionsAstray', redemptionsData' # Redemptions!NotLoaded
      PROVE  \/ RowsHave(redemptions', redemptionsData'.rows, redemptionsEnv', redemptionsTold')
             \/ \E q \in redemptionsCalls' : q.kind = "redemptions"
  BY <1>1, <1>4, Zenon DEF RedemptionsCaught
<1>. QED
  BY <1>2, <1>3, <1>4, Zenon DEF RedemptionsCaught

\* Two lists are asked for while no other is under way.
LEMMA ShopAsks ==
    ASSUME RedemptionsCaught, redemptions' = redemptions, NEW D, D \subseteq redemptionsCalls,
           Redemptions!Load(redemptionsEnv', D),
           ~ redemptionsAstray' => \A q \in D : q.kind = "redeem",
           \A t \in redemptionsTold' : t \in redemptionsTold \/ IsRow(redemptions, t)
    PROVE  RedemptionsCaught'
<1>1. redemptionsCalls' = D \cup Redemptions!Lists(redemptionsEnv', redemptionsLoads + 1)
  BY Zenon DEF Redemptions!Load
<1>2. \A q \in Redemptions!Lists(redemptionsEnv', redemptionsLoads + 1) :
         TellsRows(q, redemptions', redemptionsEnv', redemptionsTold', redemptionsAstray')
  BY TwoAsked, Zenon
<1>3. "redeem" # "redemptions"
  BY SMT
<1>4. ASSUME NEW q \in D PROVE TellsRows(q, redemptions', redemptionsEnv', redemptionsTold', redemptionsAstray')
  BY <1>3, Zenon DEF RedemptionsCaught, TellsRows
<1>5. \E q \in redemptionsCalls' : q.kind = "redemptions"
  BY <1>1, RowsAskedFor, Zenon
<1>6. \A t \in redemptionsTold' : IsRow(redemptions', t)
  BY Zenon DEF RedemptionsCaught
<1>. QED
  BY <1>1, <1>2, <1>4, <1>5, <1>6, Zenon DEF RedemptionsCaught

LEMMA ShopAdds ==
    ASSUME RedemptionsCaught, NEW q, redemptions' = Append(redemptions, q)
    PROVE  RowAdded(redemptions, q, redemptions')
<1>1. PICK S : redemptions \in Seq(S)
  BY Zenon DEF RedemptionsCaught
<1>2. PICK T : T = redemptions'
  OBVIOUS
<1>3. T = Append(redemptions, q)
  BY <1>2
<1>4. RowAdded(redemptions, q, T)
  BY ONLY <1>1, <1>3, AddsRow
<1>. QED
  BY <1>2, <1>4, Zenon

LEMMA ShopServeLoad ==
    ASSUME RedemptionsInv, RedemptionsCaught, NEW q \in redemptionsCalls, Redemptions!ServeLoad(q)
    PROVE  RedemptionsCaught'
<1>. DEFINE rows == {i \in DOMAIN redemptions : redemptions[i].campaign \in Redemptions!CampaignsOf(q.env)}
<1>1. PICK a : a = IF q.kind = "campaigns"
                    THEN [at |-> "ok", all |-> Redemptions!CampaignsOf(q.env), usable |-> Redemptions!CampaignsOf(q.env) \ redemptionsArchived]
                    ELSE [at |-> "ok", rows |-> rows]
  OBVIOUS
<1>2. /\ q.kind # "redeem" /\ Redemptions!Answer(q, a)
      /\ UNCHANGED <<redemptions, redemptionsEnv, redemptionsTold, redemptionsAstray, redemptionsData>>
  BY <1>1, Zenon DEF Redemptions!ServeLoad, Redemptions!api, Redemptions!page
<1>3. "redemptions" # "campaigns"
  BY SMT
<1>4. q.kind = "redemptions" => a.rows = rows
  <2>1. q.kind = "redemptions" => a = [at |-> "ok", rows |-> rows]
    BY <1>1, <1>3, Zenon
  <2>. HIDE DEF rows
  <2>. QED
    BY ONLY <2>1, SMT
<1>5. PICK r : /\ redemptionsCalls' = (redemptionsCalls \ {q}) \cup {r} /\ r.answer = a /\ r.kind = q.kind /\ r.env = q.env
  <2>1. RedemptionCall(q, redemptionsArchived, redemptionsClicks)
    BY Zenon DEF RedemptionsInv
  <2>. QED
    BY <1>2, <2>1, RedemptionReplied, ZenonT(30)
<1>6. ~ redemptionsAstray => q.env = redemptionsEnv
  BY <1>2, Zenon DEF RedemptionsInv
<1>7. ASSUME ~ redemptionsAstray, q.kind = "redemptions"
      PROVE  RowsHave(redemptions, rows, redemptionsEnv, redemptionsTold)
  BY <1>6, <1>7, Zenon DEF RedemptionsCaught, RowsHave, IsRow
<1>8. TellsRows(r, redemptions, redemptionsEnv, redemptionsTold, redemptionsAstray)
  <2>. HIDE DEF rows
  <2>. QED
    BY <1>2, <1>4, <1>5, <1>7, Zenon DEF TellsRows
<1>9. RowsGrow(redemptions, redemptions') /\ \E S : redemptions' \in Seq(S)
  BY <1>2, Zenon DEF RowsGrow, RedemptionsCaught
<1>. QED
  BY <1>2, <1>5, <1>8, <1>9, ShopRest, Zenon

LEMMA ShopServeRedeem ==
    ASSUME RedemptionsInv, RedemptionsCaught, NEW q \in redemptionsCalls, Redemptions!ServeRedeem(q)
    PROVE  RedemptionsCaught'
<1>1. /\ q.kind = "redeem"
      /\ UNCHANGED <<redemptionsEnv, redemptionsTold, redemptionsAstray, redemptionsData>>
  BY Zenon DEF Redemptions!ServeRedeem, Redemptions!page
<1>2. PICK a : /\ Redemptions!Answer(q, a)
               /\ \/ a = Redemptions!Refused /\ redemptions' = redemptions
                  \/ a = Redemptions!Refused /\ redemptions' = Append(redemptions, Redemptions!Row(q, FALSE))
                  \/ /\ Redemptions!Admitted(q) /\ redemptions' = Append(redemptions, Redemptions!Row(q, TRUE))
  BY Zenon DEF Redemptions!ServeRedeem
<1>3. PICK r : /\ redemptionsCalls' = (redemptionsCalls \ {q}) \cup {r} /\ r.answer = a /\ r.kind = q.kind /\ r.env = q.env
               /\ r.n = q.n
  <2>1. RedemptionCall(q, redemptionsArchived, redemptionsClicks)
    BY Zenon DEF RedemptionsInv
  <2>. QED
    BY <1>2, <2>1, RedemptionReplied, Zenon
<1>4. RowsGrow(redemptions, redemptions') /\ \E S : redemptions' \in Seq(S)
  <2>1. CASE redemptions' = redemptions
    BY <2>1, Zenon DEF RowsGrow, RedemptionsCaught
  <2>2. ASSUME NEW x, redemptions' = Append(redemptions, x)
        PROVE  RowsGrow(redemptions, redemptions') /\ \E S : redemptions' \in Seq(S)
    BY <2>2, ShopAdds, Zenon DEF RowAdded
  <2>. QED
    BY <1>2, <2>1, <2>2, Zenon
<1>5. Redemptions!Refused.at # "ok" /\ "redeem" # "redemptions"
  BY SMT DEF Redemptions!Refused
<1>6. TellsRows(r, redemptions', redemptionsEnv, redemptionsTold, redemptionsAstray)
  <2>1. CASE a = Redemptions!Refused
    BY <1>1, <1>3, <1>5, <2>1, Zenon DEF TellsRows
  <2>2. CASE Redemptions!Admitted(q) /\ redemptions' = Append(redemptions, Redemptions!Row(q, TRUE))
    <3>1. PICK x : x = Redemptions!Row(q, TRUE)
      OBVIOUS
    <3>2. x.by = q.n /\ x.ok /\ x.campaign = q.campaign
      BY ONLY <3>1, SMT DEF Redemptions!Row
    <3>3. RowAdded(redemptions, x, redemptions')
      BY <2>2, <3>1, ShopAdds, Zenon
    <3>4. q.campaign \in Redemptions!CampaignsOf(q.env)
      BY <2>2, Zenon DEF Redemptions!Admitted
    <3>5. IsRow(redemptions', r)
      BY <1>3, <3>2, <3>3, <3>4, Zenon DEF RowAdded, IsRow
    <3>. QED
      BY <1>1, <1>3, <1>5, <3>5, Zenon DEF TellsRows
  <2>. QED
    BY <1>2, <2>1, <2>2, Zenon
<1>. QED
  BY <1>1, <1>3, <1>4, <1>6, ShopRest, Zenon

LEMMA ShopRedeem ==
    ASSUME RedemptionsCaught, NEW x, Redemptions!Redeem(x)
    PROVE  RedemptionsCaught'
<1>. DEFINE q == [kind |-> "redeem", n |-> redemptionsClicks + 1, env |-> redemptionsEnv, campaign |-> campID, code |-> x,
                  form |-> redemptionsOpened, answer |-> Redemptions!Sent]
<1>1. /\ redemptionsCalls' = redemptionsCalls \cup {q}
      /\ UNCHANGED <<redemptions, redemptionsEnv, redemptionsTold, redemptionsAstray, redemptionsData>>
  BY Zenon DEF Redemptions!Redeem, Redemptions!api, Redemptions!page
<1>2. q.kind = "redeem" /\ q.answer.at # "ok" /\ "redeem" # "redemptions"
  BY SMT DEF Redemptions!Sent
<1>. HIDE DEF q
<1>3. TellsRows(q, redemptions, redemptionsEnv, redemptionsTold, redemptionsAstray)
  BY <1>2, Zenon DEF TellsRows
<1>4. RowsGrow(redemptions, redemptions') /\ \E S : redemptions' \in Seq(S)
  BY <1>1, Zenon DEF RowsGrow, RedemptionsCaught
<1>. QED
  BY <1>1, <1>3, <1>4, ShopRest, Zenon

LEMMA ShopListed ==
    ASSUME RedemptionsInv, RedemptionsCaught, NEW q \in redemptionsCalls, Redemptions!Listed(q)
    PROVE  RedemptionsCaught'
<1>1. /\ q.kind # "redeem" /\ q.answer.at = "ok" /\ redemptionsCalls' = redemptionsCalls \ {q}
      /\ UNCHANGED <<redemptions, redemptionsEnv, redemptionsTold, redemptionsAstray>>
  BY Zenon DEF Redemptions!Listed, Redemptions!api
<1>2. RowsGrow(redemptions, redemptions') /\ \E S : redemptions' \in Seq(S)
  BY <1>1, Zenon DEF RowsGrow, RedemptionsCaught
<1>3. "redemptions" # "campaigns"
  BY SMT
<1>4. CASE q.kind = "campaigns"
  <2>1. redemptionsData' = redemptionsData
    BY <1>4, Zenon DEF Redemptions!Listed
  <2>. QED
    BY <1>1, <1>2, <1>3, <1>4, <2>1, ShopRest, Zenon
<1>5. CASE q.kind # "campaigns"
  <2>1. redemptionsData' = q.answer
    BY <1>5, Zenon DEF Redemptions!Listed
  <2>2. q.kind = "redemptions"
    BY <1>1, <1>5, Zenon DEF RedemptionsInv, RedemptionCall
  <2>3. ~ redemptionsAstray => RowsHave(redemptions, redemptionsData'.rows, redemptionsEnv, redemptionsTold)
    BY <1>1, <2>1, <2>2, Zenon DEF RedemptionsCaught, TellsRows
  <2>. QED
    BY <1>1, <1>2, <2>3, ShopRest, Zenon
<1>. QED
  BY <1>4, <1>5, Zenon

LEMMA ShopRedeemed ==
    ASSUME RedemptionsCaught, NEW q \in redemptionsCalls, Redemptions!Redeemed(q)
    PROVE  RedemptionsCaught'
<1>. DEFINE t == [n |-> q.n, env |-> q.env]
<1>1. /\ q.kind = "redeem" /\ q.answer.at = "ok" /\ redemptionsTold' = redemptionsTold \cup {t}
      /\ Redemptions!Load(redemptionsEnv, redemptionsCalls \ {q})
      /\ UNCHANGED <<redemptions, redemptionsEnv>>
  BY Zenon DEF Redemptions!Redeemed, Redemptions!Done, Redemptions!api, Redemptions!page
<1>2. t.n = q.n /\ t.env = q.env
  OBVIOUS
<1>. HIDE DEF t
<1>3. IsRow(redemptions, t)
  BY <1>1, <1>2, Zenon DEF RedemptionsCaught, TellsRows, IsRow
<1>4. ~ redemptionsAstray' => \A d \in redemptionsCalls \ {q} : d.kind = "redeem"
  BY <1>1, LoadAsks, Zenon
<1>5. redemptionsCalls \ {q} \subseteq redemptionsCalls /\ Redemptions!Load(redemptionsEnv', redemptionsCalls \ {q})
  BY <1>1, Zenon
<1>. QED
  BY <1>1, <1>3, <1>4, <1>5, ShopAsks, Zenon

LEMMA ShopKept ==
    RedemptionsInv /\ RedemptionsCaught /\ (Redemptions!Next \/ UNCHANGED redemptionsVars) => RedemptionsCaught'
<1>. SUFFICES ASSUME RedemptionsInv, RedemptionsCaught, Redemptions!Next \/ UNCHANGED redemptionsVars
              PROVE  RedemptionsCaught'
  OBVIOUS
<1>0. ASSUME UNCHANGED <<redemptions, redemptionsEnv, redemptionsTold, redemptionsAstray, redemptionsData, redemptionsCalls>>
      PROVE  RedemptionsCaught'
  <2>1. RowsGrow(redemptions, redemptions') /\ \E S : redemptions' \in Seq(S)
    BY <1>0, Zenon DEF RowsGrow, RedemptionsCaught
  <2>. QED
    BY <1>0, <2>1, ShopRest, Zenon
<1>1. CASE UNCHANGED redemptionsVars
  BY <1>0, <1>1, Zenon DEF redemptionsVars
<1>2. ASSUME NEW x \in Redemptions!AllCampaigns, Redemptions!Archive(x) \/ Redemptions!Choose(x)
      PROVE  RedemptionsCaught'
  BY <1>0, <1>2, Zenon DEF Redemptions!Archive, Redemptions!Choose, Redemptions!api, Redemptions!page
<1>3. CASE Redemptions!OpenRedeem \/ Redemptions!CloseRedeem
  BY <1>0, <1>3, Zenon DEF Redemptions!OpenRedeem, Redemptions!CloseRedeem, Redemptions!api, Redemptions!page
<1>4. ASSUME NEW q \in redemptionsCalls, Redemptions!Fails(q)
      PROVE  RedemptionsCaught'
  <2>1. /\ redemptionsCalls' = redemptionsCalls \ {q} /\ redemptionsAstray' = (redemptionsAstray \/ q.kind # "redeem")
        /\ UNCHANGED <<redemptions, redemptionsEnv, redemptionsTold, redemptionsData>>
    BY <1>4, Zenon DEF Redemptions!Fails, Redemptions!api, Redemptions!page
  <2>2. /\ redemptionsAstray => redemptionsAstray'
        /\ ~ redemptionsAstray' => q.kind = "redeem"
    BY <2>1, Zenon
  <2>3. RowsGrow(redemptions, redemptions') /\ \E S : redemptions' \in Seq(S)
    BY <2>1, Zenon DEF RowsGrow, RedemptionsCaught
  <2>4. "redeem" # "redemptions"
    BY SMT
  <2>. QED
    BY <2>1, <2>2, <2>3, <2>4, ShopRest, Zenon
<1>5. ASSUME NEW e, Redemptions!SetEnv(e)
      PROVE  RedemptionsCaught'
  <2>1. /\ redemptionsEnv' = e /\ Redemptions!Load(e, redemptionsCalls)
        /\ UNCHANGED <<redemptions, redemptionsTold>>
    BY <1>5, Zenon DEF Redemptions!SetEnv, Redemptions!api
  <2>2. ~ redemptionsAstray' => \A q \in redemptionsCalls : q.kind = "redeem"
    BY <2>1, LoadAsks, Zenon
  <2>3. redemptionsCalls \subseteq redemptionsCalls /\ Redemptions!Load(redemptionsEnv', redemptionsCalls)
    BY <2>1, Zenon
  <2>. QED
    BY <2>1, <2>2, <2>3, ShopAsks, Zenon
<1>. QED
  BY <1>1, <1>2, <1>3, <1>4, <1>5, ShopServeLoad, ShopServeRedeem, ShopListed, ShopRedeemed, ShopRedeem, Zenon
     DEF Redemptions!Next

LEMMA ShopTells == RedemptionsCaught => Redemptions!ListCatchesUp
BY Zenon DEF RedemptionsCaught, RowsHave, Redemptions!ListCatchesUp

-----------------------------------------------------------------------------
\* Settlements: what was announced is settled, and the list will say so.

\* The period of row s is settled in the tallies T.
IsSettled(T, s) == s.code \in SettleCodes /\ s.period \in DOMAIN T[s.code] /\ T[s.code][s.period].settled

\* The rows R say of the announced rows of the environment e that they are settled.
SaySettled(R, e, said) ==
    \A s \in said : s.code \in Settlements!CodesOf(e) => \E r \in R : r.code = s.code /\ r.period = s.period /\ r.settled

TellsPeriods(q, T, e, said, lost) ==
    /\ q.kind = "settle" /\ q.answer.at = "ok" => IsSettled(T, q.row)
    /\ ~ lost /\ q.kind = "settlements" => q.env = e /\ (q.answer.at = "ok" => SaySettled(q.answer.rows, e, said))

SettlementsCaught ==
    /\ \A s \in settlementsTold : IsSettled(tallies, s)
    /\ \A q \in settlementsCalls : TellsPeriods(q, tallies, settlementsEnv, settlementsTold, settlementsAstray)
    /\ ~ settlementsAstray /\ settlementsData # Settlements!NotLoaded =>
          \/ SaySettled(settlementsData.rows, settlementsEnv, settlementsTold)
          \/ \E q \in settlementsCalls : q.kind = "settlements"

\* What is settled stays settled.
StaySettled(T, U) ==
    \A k \in SettleCodes : \A p \in DOMAIN T[k] : p \in DOMAIN U[k] /\ (T[k][p].settled => U[k][p].settled)

LEMMA SettledStays ==
    ASSUME NEW T, NEW U, StaySettled(T, U)
    PROVE  /\ \A s : IsSettled(T, s) => IsSettled(U, s)
           /\ \A q, e, D, l : TellsPeriods(q, T, e, D, l) => TellsPeriods(q, U, e, D, l)
<1>1. \A s : IsSettled(T, s) => IsSettled(U, s)
  BY Zenon DEF StaySettled, IsSettled
<1>. QED
  BY <1>1, Zenon DEF TellsPeriods

\* A request, and what is known of its answer.
LEMMA SettlementReplied ==
    ASSUME NEW q, NEW T, NEW C, SettlementCall(q, T, C), NEW a, Settlements!Answer(q, a)
    PROVE  \E r : /\ settlementsCalls' = (settlementsCalls \ {q}) \cup {r} /\ r.answer = a /\ r.kind = q.kind /\ r.env = q.env
                  /\ q.kind = "settle" => r.row = q.row
<1>. DEFINE r == [q EXCEPT !.answer = a]
<1>1. r.answer = a /\ r.kind = q.kind /\ r.env = q.env /\ (q.kind = "settle" => r.row = q.row)
  <2>1. CASE q.kind \in {"settlements", "campaigns"} /\ RowsFields(q)
    BY <2>1, SMTT(30) DEF RowsFields
  <2>2. CASE PostFields(q)
    BY <2>2, SMTT(30) DEF PostFields
  <2>. QED
    BY <2>1, <2>2, Zenon DEF SettlementCall
<1>2. settlementsCalls' = (settlementsCalls \ {q}) \cup {r}
  BY Zenon DEF Settlements!Answer
<1>. HIDE DEF r
<1>. QED
  BY <1>1, <1>2, Zenon

LEMMA PeriodsAsked ==
    \A e, x, T, D, l :
       /\ \A q \in Settlements!Lists(e, x) : TellsPeriods(q, T, e, D, l)
       /\ \E q \in Settlements!Lists(e, x) : q.kind = "settlements"
<1>. TAKE e, x, T, D, l
<1>. DEFINE q(y, a) == [kind |-> y, n |-> x, env |-> e, answer |-> a]
<1>1. \A y, a : q(y, a).kind = y /\ q(y, a).answer = a /\ q(y, a).env = e
  BY SMT
<1>2. Settlements!Lists(e, x) =
      {q("settlements", Settlements!Sent), q("campaigns", [at |-> "ok", codes |-> Settlements!CodesOf(e)])}
  BY Zenon DEF Settlements!Lists
<1>. HIDE DEF q
<1>3. /\ Settlements!Sent.at # "ok" /\ "campaigns" # "settlements" /\ "campaigns" # "settle" /\ "settlements" # "settle"
  BY SMT DEF Settlements!Sent
<1>4. TellsPeriods(q("settlements", Settlements!Sent), T, e, D, l)
  BY <1>1, <1>3, Zenon DEF TellsPeriods
<1>5. TellsPeriods(q("campaigns", [at |-> "ok", codes |-> Settlements!CodesOf(e)]), T, e, D, l)
  BY <1>1, <1>3, Zenon DEF TellsPeriods
<1>. QED
  BY <1>1, <1>2, <1>4, <1>5, Zenon

LEMMA PeriodsBegin == Settlements!Init => SettlementsCaught
<1>. SUFFICES ASSUME Settlements!Init PROVE SettlementsCaught
  OBVIOUS
<1>1. /\ settlementsTold = {} /\ settlementsData = Settlements!NotLoaded /\ settlementsEnv = "test"
      /\ settlementsCalls = Settlements!Lists("test", 0)
  BY Zenon DEF Settlements!Init
<1>. QED
  BY <1>1, PeriodsAsked, Zenon DEF SettlementsCaught

\* Periods are only settled; every list under way stays, or one has arrived.
LEMMA PeriodsRest ==
    ASSUME SettlementsCaught, StaySettled(tallies, tallies'),
           UNCHANGED <<settlementsEnv, settlementsTold>>, settlementsAstray => settlementsAstray',
           \A q \in settlementsCalls' :
              q \in settlementsCalls \/ TellsPeriods(q, tallies', settlementsEnv, settlementsTold, settlementsAstray'),
           \/ /\ settlementsData' = settlementsData
              /\ ~ settlementsAstray' => \A q \in settlementsCalls : q.kind = "settlements" => \E d \in settlementsCalls' : d.kind = q.kind
           \/ ~ settlementsAstray' => SaySettled(settlementsData'.rows, settlementsEnv, settlementsTold)
    PROVE  SettlementsCaught'
<1>1. /\ \A s : IsSettled(tallies, s) => IsSettled(tallies', s)
      /\ \A q, e, D, l : TellsPeriods(q, tallies, e, D, l) => TellsPeriods(q, tallies', e, D, l)
  BY SettledStays, Zenon
<1>2. \A s \in settlementsTold' : IsSettled(tallies', s)
  BY <1>1, Zenon DEF SettlementsCaught
<1>3. ASSUME NEW q \in settlementsCalls'
      PROVE  TellsPeriods(q, tallies', settlementsEnv', settlementsTold', settlementsAstray')
  <2>1. CASE q \in settlementsCalls
    <3>1. TellsPeriods(q, tallies', settlementsEnv, settlementsTold, settlementsAstray)
      BY <1>1, <2>1, Zenon DEF SettlementsCaught
    <3>. QED
      BY <3>1, Zenon DEF TellsPeriods
  <2>. QED
    BY <1>3, <2>1, Zenon
<1>4. ASSUME ~ settlementsAstray', settlementsData' # Settlements!NotLoaded
      PROVE  \/ SaySettled(settlementsData'.rows, settlementsEnv', settlementsTold')
             \/ \E q \in settlementsCalls' : q.kind = "settlements"
  BY <1>4, Zenon DEF SettlementsCaught
<1>. QED
  BY <1>2, <1>3, <1>4, Zenon DEF SettlementsCaught

\* Two lists are asked for while no other is under way.
LEMMA PeriodsAsk ==
    ASSUME SettlementsCaught, tallies' = tallies, NEW D, D \subseteq settlementsCalls,
           Settlements!Load(settlementsEnv', D),
           \A s \in settlementsTold' : s \in settlementsTold \/ IsSettled(tallies, s)
    PROVE  SettlementsCaught'
<1>1. /\ settlementsCalls' = D \cup Settlements!Lists(settlementsEnv', settlementsLoads + 1)
      /\ ~ settlementsAstray' => \A q \in D : q.kind # "settlements"
  BY Zenon DEF Settlements!Load
<1>2. \A q \in Settlements!Lists(settlementsEnv', settlementsLoads + 1) :
         TellsPeriods(q, tallies', settlementsEnv', settlementsTold', settlementsAstray')
  BY PeriodsAsked, Zenon
<1>4. ASSUME NEW q \in D PROVE TellsPeriods(q, tallies', settlementsEnv', settlementsTold', settlementsAstray')
  BY <1>1, Zenon DEF SettlementsCaught, TellsPeriods
<1>5. \E q \in settlementsCalls' : q.kind = "settlements"
  BY <1>1, PeriodsAsked, Zenon
<1>6. \A s \in settlementsTold' : IsSettled(tallies', s)
  BY Zenon DEF SettlementsCaught
<1>. QED
  BY <1>1, <1>2, <1>4, <1>5, <1>6, Zenon DEF SettlementsCaught

LEMMA ChangedStaysSettled ==
    ASSUME NEW T, NEW k, NEW p, NEW r, NEW U, PeriodIsNow(T, k, p, r, U), T[k][p].settled => r.settled
    PROVE  StaySettled(T, U)
BY Zenon DEF PeriodIsNow, Grows, StaySettled

LEMMA SameIsSettled == \A T : StaySettled(T, T)
BY Zenon DEF StaySettled

LEMMA PeriodsKeeper ==
    ASSUME SettlementsInv, SettlementsCaught, NEW k \in SettleCodes, NEW p, Settlements!Keeper(k, p)
    PROVE  SettlementsCaught'
<1>1. PICK t, r, U : t = tallies[k][p] /\ r = [t EXCEPT !.paid = t.count] /\ U = tallies'
  OBVIOUS
<1>2. /\ p \in DOMAIN tallies[k] /\ tallies' = [tallies EXCEPT ![k][p].paid = tallies[k][p].count]
      /\ UNCHANGED <<settlementsData, settlementsCalls, settlementsEnv, settlementsTold, settlementsAstray>>
  BY Zenon DEF Settlements!Keeper, Settlements!page, Settlements!form
<1>3. tallies \in [SettleCodes -> Seq(Period)]
  BY Zenon DEF SettlementsInv
<1>4. t \in Period
  <2>1. tallies[k] \in Seq(Period)
    BY <1>3
  <2>. QED
    BY <1>1, <1>2, <2>1, LenProperties, ElementOfSeq
<1>5. r \in Period /\ r.count = t.count /\ r.settled = t.settled
  BY ONLY <1>1, <1>4, SMT DEF Period
<1>6. PeriodSet(tallies, k, p, r, U)
  BY <1>1, <1>2, Zenon DEF PeriodSet
<1>7. PeriodIsNow(tallies, k, p, r, U)
  BY <1>1, <1>2, <1>3, <1>5, <1>6, PeriodChanged, Zenon
<1>8. StaySettled(tallies, U)
  BY <1>1, <1>5, <1>7, ChangedStaysSettled, Zenon
<1>. QED
  BY <1>1, <1>2, <1>8, PeriodsRest, Zenon

LEMMA PeriodsList ==
    ASSUME SettlementsInv, SettlementsCaught, NEW q \in settlementsCalls, Settlements!ServeList(q)
    PROVE  SettlementsCaught'
<1>. DEFINE R == Settlements!RowsOf(q.env)
            row(k, p) == [code |-> k, period |-> p, count |-> tallies[k][p].count, settled |-> tallies[k][p].settled,
                          amount |-> tallies[k][p].amount]
<1>1. PICK a : a = [at |-> "ok", rows |-> R] /\ Settlements!Answer(q, a)
  BY Zenon DEF Settlements!ServeList
<1>2. /\ q.kind = "settlements"
      /\ UNCHANGED <<tallies, settlementsData, settlementsEnv, settlementsTold, settlementsAstray>>
  BY Zenon DEF Settlements!ServeList, Settlements!api, Settlements!page
<1>3. ASSUME NEW s, IsSettled(tallies, s), s.code \in Settlements!CodesOf(q.env)
      PROVE  \E d \in R : d.code = s.code /\ d.period = s.period /\ d.settled
  <2>1. PICK k, p : k = s.code /\ p = s.period
    OBVIOUS
  <2>2. k \in Settlements!CodesOf(q.env) /\ p \in DOMAIN tallies[k] /\ tallies[k][p].settled
    BY <1>3, <2>1, Zenon DEF IsSettled
  <2>3. PICK b, x, y : b = tallies[k][p].settled /\ x = tallies[k][p].count /\ y = tallies[k][p].amount
    OBVIOUS
  <2>4. PICK d : d = [code |-> k, period |-> p, count |-> x, settled |-> b, amount |-> y]
    OBVIOUS
  <2>5. b
    BY <2>2, <2>3
  <2>6. d.code = k /\ d.period = p /\ d.settled
    BY ONLY <2>4, <2>5, SMT
  <2>7. d \in {row(k, o) : o \in DOMAIN tallies[k]}
    BY <2>2, <2>3, <2>4, Zenon
  <2>8. d \in R
    BY <2>2, <2>7, Zenon DEF Settlements!RowsOf
  <2>. QED
    BY <2>1, <2>6, <2>8, Zenon
<1>. HIDE DEF R
<1>4. a.rows = R
  BY <1>1
<1>5. PICK d : /\ settlementsCalls' = (settlementsCalls \ {q}) \cup {d} /\ d.answer = a /\ d.kind = q.kind /\ d.env = q.env
  <2>1. SettlementCall(q, tallies, clicked)
    BY Zenon DEF SettlementsInv
  <2>. QED
    BY <1>1, <2>1, SettlementReplied, ZenonT(30)
<1>6. ~ settlementsAstray => d.env = settlementsEnv
  BY <1>2, <1>5, Zenon DEF SettlementsCaught, TellsPeriods
<1>7. ~ settlementsAstray => SaySettled(R, settlementsEnv, settlementsTold)
  BY <1>3, <1>5, <1>6, Zenon DEF SaySettled, SettlementsCaught
<1>8. "settlements" # "settle"
  BY SMT
<1>9. TellsPeriods(d, tallies, settlementsEnv, settlementsTold, settlementsAstray)
  BY <1>2, <1>4, <1>5, <1>6, <1>7, <1>8, Zenon DEF TellsPeriods
<1>. QED
  BY <1>2, <1>5, <1>9, SameIsSettled, PeriodsRest, Zenon

\* The answer to a write leaves the lists as they are.
LEMMA PeriodsAnswered ==
    ASSUME SettlementsInv, SettlementsCaught, NEW q \in settlementsCalls, q.kind \in {"commit", "settle"},
           NEW a, Settlements!Answer(q, a), StaySettled(tallies, tallies'),
           q.kind = "settle" /\ a.at = "ok" => IsSettled(tallies', q.row),
           UNCHANGED <<settlementsData, settlementsEnv, settlementsTold, settlementsAstray>>
    PROVE  SettlementsCaught'
<1>1. PICK d : /\ settlementsCalls' = (settlementsCalls \ {q}) \cup {d} /\ d.answer = a /\ d.kind = q.kind
               /\ q.kind = "settle" => d.row = q.row
  <2>1. SettlementCall(q, tallies, clicked)
    BY Zenon DEF SettlementsInv
  <2>. QED
    BY <2>1, SettlementReplied, ZenonT(30)
<1>2. "settlements" \notin {"commit", "settle"}
  BY SMT
<1>3. TellsPeriods(d, tallies', settlementsEnv, settlementsTold, settlementsAstray)
  BY <1>1, <1>2, Zenon DEF TellsPeriods
<1>. QED
  BY <1>1, <1>2, <1>3, PeriodsRest, Zenon

LEMMA PeriodsCommit ==
    ASSUME SettlementsInv, SettlementsCaught, NEW q \in settlementsCalls, Settlements!ServeCommit(q)
    PROVE  SettlementsCaught'
<1>1. /\ q.kind = "commit" /\ \E a : Settlements!Answer(q, a)
      /\ UNCHANGED <<settlementsData, settlementsEnv, settlementsTold, settlementsAstray>>
  BY Zenon DEF Settlements!ServeCommit, Settlements!page
<1>2. "commit" # "settle" /\ "commit" \in {"commit", "settle"}
  BY SMT
<1>3. ASSUME NEW k \in SettleCodes,
             tallies' = [tallies EXCEPT ![k] = Append(@, Settlements!Unpaid(pending[k]))]
      PROVE  StaySettled(tallies, tallies')
  <2>1. tallies \in [SettleCodes -> Seq(Period)] /\ pending \in [SettleCodes -> Nat]
    BY Zenon DEF SettlementsInv
  <2>2. PICK r : r = Settlements!Unpaid(pending[k])
    OBVIOUS
  <2>3. r \in Period
    <3>1. pending[k] \in Nat
      BY <2>1
    <3>. QED
      BY <2>2, <3>1 DEF Period, Settlements!Unpaid
  <2>4. PICK U : U = tallies'
    OBVIOUS
  <2>5. PeriodAppended(tallies, k, r, U)
    BY <1>3, <2>2, <2>4, Zenon DEF PeriodAppended
  <2>6. PeriodsWith(tallies, r, U)
    BY <2>1, <2>3, <2>5, PeriodAdded, Zenon
  <2>. QED
    BY <2>4, <2>6, ZenonT(30) DEF PeriodsWith, Grows, StaySettled
<1>4. Settlements!CodesOf(q.env) \subseteq SettleCodes
  BY Zenon DEF Settlements!CodesOf, SettleCodes
<1>5. \/ tallies' = tallies
      \/ \E k \in SettleCodes : tallies' = [tallies EXCEPT ![k] = Append(@, Settlements!Unpaid(pending[k]))]
  BY <1>4, Zenon DEF Settlements!ServeCommit, Settlements!api
<1>6. StaySettled(tallies, tallies')
  BY <1>3, <1>5, SameIsSettled, Zenon
<1>. QED
  BY <1>1, <1>2, <1>6, PeriodsAnswered, Zenon

LEMMA PeriodsSettled ==
    ASSUME SettlementsInv, SettlementsCaught, NEW q \in settlementsCalls, Settlements!ServeSettle(q)
    PROVE  SettlementsCaught'
<1>1. q.kind = "settle" /\ UNCHANGED <<settlementsData, settlementsEnv, settlementsTold, settlementsAstray>>
  BY Zenon DEF Settlements!ServeSettle, Settlements!page
<1>2. "settle" # "settlements" /\ "settle" # "campaigns" /\ "settle" \in {"commit", "settle"} /\ Settlements!Refused.at # "ok"
  BY SMT DEF Settlements!Refused
<1>3. PICK k, p, t : k = q.row.code /\ p = q.row.period /\ t = tallies[k][p]
  OBVIOUS
<1>4. k \in SettleCodes /\ p \in DOMAIN tallies[k]
  BY <1>1, <1>2, <1>3, Zenon DEF SettlementsInv, SettlementCall, RowTrue
<1>5. tallies \in [SettleCodes -> Seq(Period)]
  BY Zenon DEF SettlementsInv
<1>6. t \in Period
  <2>1. tallies[k] \in Seq(Period)
    BY <1>4, <1>5
  <2>. QED
    BY <1>3, <1>4, <2>1, LenProperties, ElementOfSeq
<1>7. ASSUME NEW r \in Period, r.count = t.count, r.settled, PeriodSet(tallies, k, p, r, tallies')
      PROVE  StaySettled(tallies, tallies') /\ IsSettled(tallies', q.row)
  <2>1. PICK U : U = tallies'
    OBVIOUS
  <2>2. PeriodIsNow(tallies, k, p, r, U)
    BY <1>3, <1>4, <1>5, <1>7, <2>1, PeriodChanged, Zenon
  <2>3. StaySettled(tallies, U)
    BY <1>7, <2>2, ChangedStaysSettled, Zenon
  <2>4. p \in DOMAIN U[k] /\ U[k][p].settled
    BY <1>4, <1>7, <2>2, Zenon DEF PeriodIsNow, Grows
  <2>. QED
    BY <1>3, <1>4, <2>1, <2>3, <2>4, Zenon DEF IsSettled
<1>8. CASE /\ \E a : Settlements!Answer(q, a)
           /\ tallies' = [tallies EXCEPT ![k][p] = [count |-> t.count, paid |-> t.count, settled |-> TRUE, amount |-> t.count]]
  <2>1. PICK r : r = [count |-> t.count, paid |-> t.count, settled |-> TRUE, amount |-> t.count]
    OBVIOUS
  <2>2. r \in Period /\ r.count = t.count /\ r.settled
    BY ONLY <1>6, <2>1, SMT DEF Period
  <2>3. PeriodSet(tallies, k, p, r, tallies')
    BY <1>8, <2>1, Zenon DEF PeriodSet
  <2>. QED
    BY <1>1, <1>2, <1>7, <1>8, <2>2, <2>3, PeriodsAnswered, Zenon
<1>9. CASE tallies' = [tallies EXCEPT ![k][p] = Settlements!Reconciled(@)] /\ Settlements!Answer(q, Settlements!Refused)
  <2>1. PICK r : r = [t EXCEPT !.settled = TRUE]
    OBVIOUS
  <2>4. r \in Period /\ r.count = t.count /\ r.settled = TRUE
    BY <1>6, <2>1 DEF Period
  <2>2. r \in Period /\ r.count = t.count /\ r.settled
    BY <2>4, Zenon
  <2>3. PeriodSet(tallies, k, p, r, tallies')
    BY <1>3, <1>9, <2>1, Zenon DEF PeriodSet, Settlements!Reconciled
  <2>. QED
    BY <1>1, <1>2, <1>7, <1>9, <2>2, <2>3, PeriodsAnswered, Zenon
<1>10. CASE tallies' = tallies /\ Settlements!Answer(q, Settlements!Refused)
  BY <1>1, <1>2, <1>10, SameIsSettled, PeriodsAnswered, Zenon
<1>11. \/ tallies' = tallies /\ Settlements!Answer(q, Settlements!Refused)
       \/ tallies' = [tallies EXCEPT ![k][p] = Settlements!Reconciled(@)] /\ Settlements!Answer(q, Settlements!Refused)
       \/ /\ \E a : Settlements!Answer(q, a)
          /\ tallies' = [tallies EXCEPT ![k][p] = [count |-> t.count, paid |-> t.count, settled |-> TRUE, amount |-> t.count]]
  BY <1>3, Zenon DEF Settlements!ServeSettle
<1>. QED
  BY <1>8, <1>9, <1>10, <1>11, Zenon

\* A button's request is not answered yet.
LEMMA PeriodsPost ==
    ASSUME SettlementsCaught, NEW sort \in {"commit", "settle"}, NEW s, Settlements!Post(sort, s),
           UNCHANGED <<tallies, settlementsData, settlementsEnv, settlementsTold, settlementsAstray>>
    PROVE  SettlementsCaught'
<1>. DEFINE q == [kind |-> sort, n |-> settlementsWrites + 1, env |-> settlementsEnv, row |-> s,
                  form |-> settlementsOpened, answer |-> Settlements!Sent]
<1>1. settlementsCalls' = settlementsCalls \cup {q}
  BY Zenon DEF Settlements!Post
<1>2. q.kind = sort /\ q.answer.at # "ok" /\ "settlements" \notin {"commit", "settle"}
  BY SMT DEF Settlements!Sent
<1>. HIDE DEF q
<1>3. TellsPeriods(q, tallies, settlementsEnv, settlementsTold, settlementsAstray)
  BY <1>2, Zenon DEF TellsPeriods
<1>. QED
  BY <1>1, <1>3, SameIsSettled, PeriodsRest, Zenon

LEMMA PeriodsListed ==
    ASSUME SettlementsCaught, NEW q \in settlementsCalls, Settlements!Listed(q)
    PROVE  SettlementsCaught'
<1>1. /\ q.kind \in {"settlements", "campaigns"} /\ q.answer.at = "ok" /\ settlementsCalls' = settlementsCalls \ {q}
      /\ UNCHANGED <<tallies, settlementsEnv, settlementsTold, settlementsAstray>>
  BY Zenon DEF Settlements!Listed, Settlements!api
<1>2. CASE q.kind = "settlements"
  <2>1. settlementsData' = q.answer
    BY <1>2, Zenon DEF Settlements!Listed
  <2>2. ~ settlementsAstray => SaySettled(settlementsData'.rows, settlementsEnv, settlementsTold)
    BY <1>1, <1>2, <2>1, Zenon DEF SettlementsCaught, TellsPeriods
  <2>. QED
    BY <1>1, <2>2, SameIsSettled, PeriodsRest, Zenon
<1>3. CASE q.kind # "settlements"
  <2>1. settlementsData' = settlementsData
    BY <1>3, Zenon DEF Settlements!Listed
  <2>. QED
    BY <1>1, <1>3, <2>1, SameIsSettled, PeriodsRest, Zenon
<1>. QED
  BY <1>2, <1>3, Zenon

\* After a commit or a settlement, and in another environment, the page loads.
LEMMA PeriodsLoad ==
    ASSUME SettlementsCaught,
           \/ \E e : Settlements!SetEnv(e)
           \/ \E q \in settlementsCalls : Settlements!Committed(q) \/ Settlements!Paid(q)
    PROVE  SettlementsCaught'
<1>1. ASSUME NEW e, Settlements!SetEnv(e) PROVE SettlementsCaught'
  <2>1. /\ Settlements!Load(settlementsEnv', settlementsCalls) /\ settlementsCalls \subseteq settlementsCalls
        /\ UNCHANGED <<tallies, settlementsTold>>
    BY <1>1, Zenon DEF Settlements!SetEnv, Settlements!api
  <2>. QED
    BY <2>1, PeriodsAsk, Zenon
<1>2. ASSUME NEW q \in settlementsCalls, Settlements!Committed(q) PROVE SettlementsCaught'
  <2>1. /\ Settlements!Load(settlementsEnv', settlementsCalls \ {q}) /\ settlementsCalls \ {q} \subseteq settlementsCalls
        /\ UNCHANGED <<tallies, settlementsTold>>
    BY <1>2, Zenon DEF Settlements!Committed, Settlements!api
  <2>. QED
    BY <2>1, PeriodsAsk, Zenon
<1>3. ASSUME NEW q \in settlementsCalls, Settlements!Paid(q) PROVE SettlementsCaught'
  <2>1. /\ Settlements!Load(settlementsEnv', settlementsCalls \ {q}) /\ settlementsCalls \ {q} \subseteq settlementsCalls
        /\ tallies' = tallies /\ settlementsTold' = settlementsTold \cup {q.row}
        /\ q.kind = "settle" /\ q.answer.at = "ok"
    BY <1>3, Zenon DEF Settlements!Paid, Settlements!Done, Settlements!api, Settlements!page
  <2>2. \A s \in settlementsTold' : s \in settlementsTold \/ IsSettled(tallies, s)
    BY <2>1, Zenon DEF SettlementsCaught, TellsPeriods
  <2>. QED
    BY <2>1, <2>2, PeriodsAsk, Zenon
<1>. QED
  BY <1>1, <1>2, <1>3, Zenon

LEMMA PeriodsKept ==
    SettlementsInv /\ SettlementsCaught /\ (Settlements!Next \/ UNCHANGED settlementsVars) => SettlementsCaught'
<1>. SUFFICES ASSUME SettlementsInv, SettlementsCaught, Settlements!Next \/ UNCHANGED settlementsVars
              PROVE  SettlementsCaught'
  OBVIOUS
<1>0. ASSUME UNCHANGED <<tallies, settlementsEnv, settlementsTold, settlementsAstray, settlementsData, settlementsCalls>>
      PROVE  SettlementsCaught'
  BY <1>0, SameIsSettled, PeriodsRest, Zenon
<1>1. CASE UNCHANGED settlementsVars
  BY <1>0, <1>1, Zenon DEF settlementsVars
<1>2. ASSUME NEW k, Settlements!Select(k) PROVE SettlementsCaught'
  BY <1>0, <1>2, Zenon DEF Settlements!Select, Settlements!api
<1>3. ASSUME NEW s, Settlements!OpenConfirm(s) PROVE SettlementsCaught'
  BY <1>0, <1>3, Zenon DEF Settlements!OpenConfirm, Settlements!api, Settlements!page
<1>4. CASE Settlements!CloseConfirm
  BY <1>0, <1>4, Zenon DEF Settlements!CloseConfirm, Settlements!api, Settlements!page
<1>5. CASE Settlements!CommitNow
  <2>1. /\ \E s : Settlements!Post("commit", s)
        /\ UNCHANGED <<tallies, settlementsData, settlementsEnv, settlementsTold, settlementsAstray>>
    BY <1>5, Zenon DEF Settlements!CommitNow, Settlements!api
  <2>. QED
    BY <2>1, PeriodsPost, Zenon
<1>6. CASE Settlements!Settle
  <2>1. /\ \E s : Settlements!Post("settle", s)
        /\ UNCHANGED <<tallies, settlementsData, settlementsEnv, settlementsTold, settlementsAstray>>
    BY <1>6, Zenon DEF Settlements!Settle, Settlements!api, Settlements!page
  <2>. QED
    BY <2>1, PeriodsPost, Zenon
<1>7. ASSUME NEW q \in settlementsCalls, Settlements!Fails(q) PROVE SettlementsCaught'
  <2>1. /\ settlementsCalls' = settlementsCalls \ {q}
        /\ settlementsAstray' = (settlementsAstray \/ q.kind \in {"settlements", "campaigns"})
        /\ UNCHANGED <<tallies, settlementsEnv, settlementsTold, settlementsData>>
    BY <1>7, Zenon DEF Settlements!Fails, Settlements!api
  <2>2. /\ settlementsAstray => settlementsAstray'
        /\ ~ settlementsAstray' => q.kind # "settlements"
    BY <2>1, Zenon
  <2>. QED
    BY <2>1, <2>2, SameIsSettled, PeriodsRest, Zenon
<1>. QED
  BY <1>1, <1>2, <1>3, <1>4, <1>5, <1>6, <1>7, PeriodsKeeper, PeriodsList, PeriodsCommit, PeriodsSettled, PeriodsListed,
     PeriodsLoad, Zenon DEF Settlements!Next, Settlements!Codes, SettleCodes

LEMMA PeriodsTell == SettlementsCaught => Settlements!ListCatchesUp
BY Zenon DEF SettlementsCaught, SaySettled, Settlements!ListCatchesUp

-----------------------------------------------------------------------------
\* The wizard: what was announced is there with its code, and the list is whole.

\* Campaign n is in C with its code, if it has one.
IsWhole(n, C) == \E k \in C : k.n = n /\ (k.coded \/ k.kind \in {"voucher", "ticket"})

SaysWhole(q, C) == q.kind # "list" /\ q.answer.at = "ok" => IsWhole(q.n, C)

AnnouncedWhole ==
    /\ \A x \in announced : IsWhole(x, camps)
    /\ \A q \in wizardCalls : SaysWhole(q, camps)

\* A creation of Q has changed the campaigns, and its answer is under way.
Unheard(Q) == \E q \in Q : q.kind # "list" /\ q.answer.at \in {"half", "ok"}

IdsOf(C, e) == {k.n : k \in {d \in C : d.env = e}}

\* The list I is that of the environment e, or one that is not will not stay.
FreshIds(I, Q, C, e) == I = IdsOf(C, e) \/ Unheard(Q)

\* A list that the page on screen will store.
FreshList(q, Q, C, e, m) ==
    q.kind = "list" /\ q.mount = m =>
        /\ q.env = e
        /\ q.answer.at = "ok" => q.answer.of = e /\ FreshIds(q.answer.ids, Q, C, e)

ListStored(x, Q, C, e) == x = Wizard!NotLoaded \/ \E I : x = [of |-> e, ids |-> I] /\ FreshIds(I, Q, C, e)

ListInv ==
    /\ wizardMount \in Nat /\ \A q \in wizardCalls : q.mount \in 0..wizardMount
    /\ ~ here => list = Wizard!NotLoaded
    /\ ~ wizardCrossed /\ here =>
          /\ ListStored(list, wizardCalls, camps, wizardEnv)
          /\ \A q \in wizardCalls : FreshList(q, wizardCalls, camps, wizardEnv, wizardMount)

LEMMA LoadIs ==
    \A e, m : LET q == Wizard!Load(e, m)
              IN  q.kind = "list" /\ q.env = e /\ q.mount = m /\ q.answer.at = "sent" /\ q.answer.at # "ok"
BY SMT DEF Wizard!Load, Wizard!Sent

\* A request, and what is known of its answer.
LEMMA WizardReplied ==
    ASSUME NEW q, WizardCall(q), NEW a, Wizard!Answered(q, a)
    PROVE  \E r : /\ wizardCalls' = (wizardCalls \ {q}) \cup {r} /\ r.answer = a /\ r.kind = q.kind /\ r.env = q.env
                  /\ r.n = q.n /\ r.mount = q.mount
<1>. DEFINE r == [q EXCEPT !.answer = a]
<1>1. r.answer = a /\ r.kind = q.kind /\ r.env = q.env /\ r.n = q.n /\ r.mount = q.mount
  <2>1. CASE ListFields(q)
    BY <2>1, SMTT(30) DEF ListFields
  <2>2. CASE BodyFields(q)
    BY <2>2, SMTT(30) DEF BodyFields
  <2>. QED
    BY <2>1, <2>2, Zenon DEF WizardCall
<1>2. wizardCalls' = (wizardCalls \ {q}) \cup {r}
  BY Zenon DEF Wizard!Answered
<1>. HIDE DEF r
<1>. QED
  BY <1>1, <1>2, Zenon

LEMMA WholeRest ==
    ASSUME AnnouncedWhole, \A x : IsWhole(x, camps) => IsWhole(x, camps'),
           \A x \in announced' : x \in announced \/ IsWhole(x, camps'),
           \A q \in wizardCalls' : q \in wizardCalls \/ SaysWhole(q, camps')
    PROVE  AnnouncedWhole'
<1>1. \A x \in announced' : IsWhole(x, camps')
  BY Zenon DEF AnnouncedWhole
<1>2. \A q \in wizardCalls' : SaysWhole(q, camps')
  BY Zenon DEF AnnouncedWhole, SaysWhole
<1>. QED
  BY <1>1, <1>2, Zenon DEF AnnouncedWhole

\* The page stays in its environment, and is left at most; the campaigns change
\* only if a creation's answer is under way.
LEMMA ListRest ==
    ASSUME ListInv, UNCHANGED <<wizardMount, wizardEnv>>, wizardCrossed => wizardCrossed', here' => here,
           list' = list \/ (~ wizardCrossed' /\ here' => ListStored(list', wizardCalls', camps', wizardEnv)),
           ~ here' => list' = Wizard!NotLoaded,
           \A q \in wizardCalls' :
              q \in wizardCalls \/ (q.mount \in 0..wizardMount /\ FreshList(q, wizardCalls', camps', wizardEnv, wizardMount)),
           ~ wizardCrossed' /\ here' =>
              Unheard(wizardCalls') \/ (camps' = camps /\ ~ Unheard(wizardCalls))
    PROVE  ListInv'
<1>1. wizardMount' \in Nat /\ \A q \in wizardCalls' : q.mount \in 0..wizardMount'
  BY Zenon DEF ListInv
<1>2. ASSUME ~ wizardCrossed', here'
      PROVE  /\ ListStored(list', wizardCalls', camps', wizardEnv')
             /\ \A q \in wizardCalls' : FreshList(q, wizardCalls', camps', wizardEnv', wizardMount')
  <2>1. /\ ListStored(list, wizardCalls, camps, wizardEnv)
        /\ \A q \in wizardCalls : FreshList(q, wizardCalls, camps, wizardEnv, wizardMount)
    BY <1>2, Zenon DEF ListInv
  <2>2. \A I : FreshIds(I, wizardCalls, camps, wizardEnv) => FreshIds(I, wizardCalls', camps', wizardEnv)
    BY <1>2, Zenon DEF FreshIds
  <2>3. ListStored(list, wizardCalls', camps', wizardEnv)
    BY <2>1, <2>2, Zenon DEF ListStored
  <2>4. \A q \in wizardCalls : FreshList(q, wizardCalls', camps', wizardEnv, wizardMount)
    BY <2>1, <2>2, Zenon DEF FreshList
  <2>. QED
    BY <1>2, <2>3, <2>4, Zenon
<1>. QED
  BY <1>1, <1>2, Zenon DEF ListInv

LEMMA WholeBegin == Wizard!Init => AnnouncedWhole /\ ListInv
<1>. SUFFICES ASSUME Wizard!Init PROVE AnnouncedWhole /\ ListInv
  OBVIOUS
<1>1. /\ wizardCalls = {Wizard!Load("test", 0)} /\ announced = {} /\ wizardMount = 0 /\ wizardEnv = "test"
      /\ list = Wizard!NotLoaded
  BY Zenon DEF Wizard!Init
<1>2. AnnouncedWhole
  <2>1. Wizard!Load("test", 0).answer.at # "ok"
    BY LoadIs, Zenon
  <2>. QED
    BY <1>1, <2>1, Zenon DEF AnnouncedWhole, SaysWhole
<1>3. wizardMount \in Nat /\ 0 \in 0..wizardMount
  BY <1>1
<1>4. ListStored(list, wizardCalls, camps, wizardEnv)
  BY <1>1, Zenon DEF ListStored
<1>5. \A q \in wizardCalls : q.mount \in 0..wizardMount /\ FreshList(q, wizardCalls, camps, wizardEnv, wizardMount)
  <2>1. PICK q : q = Wizard!Load("test", 0)
    OBVIOUS
  <2>2. q.env = wizardEnv /\ q.mount = wizardMount /\ q.answer.at # "ok"
    BY <1>1, <2>1, LoadIs
  <2>3. q.mount \in 0..wizardMount
    BY <1>1, <2>2
  <2>4. FreshList(q, wizardCalls, camps, wizardEnv, wizardMount)
    BY <2>2, Zenon DEF FreshList
  <2>. QED
    BY <1>1, <2>1, <2>3, <2>4, Zenon
<1>. QED
  BY <1>1, <1>2, <1>3, <1>4, <1>5, Zenon DEF ListInv

LEMMA LoadFresh == \A e, x, Q, C, m : FreshList(Wizard!Load(e, x), Q, C, e, m)
BY LoadIs, Zenon DEF FreshList

LEMMA WizardWords ==
    /\ Wizard!Sent.at = "sent" /\ Wizard!Refused.at = "error" /\ "sent" \notin {"half", "ok"} /\ "error" \notin {"half", "ok"}
    /\ [at |-> "half"].at = "half" /\ [at |-> "ok"].at = "ok" /\ "half" # "ok"
BY SMT DEF Wizard!Sent, Wizard!Refused

LEMMA WholeServeList ==
    ASSUME WizardInv, AnnouncedWhole, ListInv, NEW q \in wizardCalls, Wizard!ServeList(q),
           UNCHANGED <<wizardEnv, here, wizardMount, list, announced>>
    PROVE  AnnouncedWhole' /\ ListInv'
<1>1. PICK I, a : I = IdsOf(camps, q.env) /\ a = [at |-> "ok", of |-> q.env, ids |-> I]
  OBVIOUS
<1>2. q.kind = "list" /\ Wizard!Answered(q, a) /\ UNCHANGED <<camps, wizardCrossed>>
  BY <1>1, Zenon DEF Wizard!ServeList, IdsOf
<1>3. a.of = q.env /\ a.ids = I
  BY ONLY <1>1, SMT
<1>4. PICK r : /\ wizardCalls' = (wizardCalls \ {q}) \cup {r} /\ r.answer = a /\ r.kind = q.kind /\ r.env = q.env
               /\ r.n = q.n /\ r.mount = q.mount
  BY <1>2, WizardReplied, Zenon DEF WizardInv
<1>5. AnnouncedWhole'
  BY <1>2, <1>4, WholeRest, Zenon DEF SaysWhole
<1>6. r.mount \in 0..wizardMount
  BY <1>4, Zenon DEF ListInv
<1>7. ~ wizardCrossed' /\ here' => FreshList(r, wizardCalls', camps', wizardEnv, wizardMount)
  <2>. SUFFICES ASSUME ~ wizardCrossed', here', r.mount = wizardMount
                PROVE  r.env = wizardEnv /\ r.answer.of = wizardEnv /\ FreshIds(r.answer.ids, wizardCalls', camps', wizardEnv)
    BY Zenon DEF FreshList
  <2>1. q.env = wizardEnv
    BY <1>2, <1>4, Zenon DEF ListInv, FreshList
  <2>2. FreshIds(I, wizardCalls', camps', wizardEnv)
    BY <1>1, <1>2, <2>1, Zenon DEF FreshIds
  <2>. QED
    BY <1>3, <1>4, <2>1, <2>2, Zenon
<1>8. Unheard(wizardCalls) => Unheard(wizardCalls')
  BY <1>2, <1>4, Zenon DEF Unheard
<1>9. CASE wizardCrossed' \/ ~ here'
  <2>1. \A d \in wizardCalls' : d.mount \in 0..wizardMount'
    BY <1>4, <1>6, Zenon DEF ListInv
  <2>. QED
    BY <1>5, <1>9, <2>1, Zenon DEF ListInv
<1>10. CASE ~ wizardCrossed' /\ here'
  <2>1. \A d \in wizardCalls' : d \in wizardCalls \/ d = r
    BY <1>4, Zenon
  <2>2. ~ here' => list' = Wizard!NotLoaded
    BY <1>10, Zenon
  <2>. QED
    BY <1>2, <1>5, <1>6, <1>7, <1>8, <1>10, <2>1, <2>2, ListRest, Zenon
<1>. QED
  BY <1>9, <1>10, Zenon

\* The answer to a creation: the campaigns change only if it is on its way.
LEMMA WholeAnswered ==
    ASSUME WizardInv, AnnouncedWhole, ListInv, NEW q \in wizardCalls, q.kind # "list",
           UNCHANGED <<wizardEnv, here, wizardMount, list, announced>>, wizardCrossed => wizardCrossed',
           NEW a, Wizard!Answered(q, a),
           \A x : IsWhole(x, camps) => IsWhole(x, camps'), a.at = "ok" => IsWhole(q.n, camps'),
           a.at \in {"half", "ok"} \/ wizardCrossed' \/ (camps' = camps /\ q.answer.at \notin {"half", "ok"})
    PROVE  AnnouncedWhole' /\ ListInv'
<1>1. PICK r : /\ wizardCalls' = (wizardCalls \ {q}) \cup {r} /\ r.answer = a /\ r.kind = q.kind /\ r.env = q.env
               /\ r.n = q.n /\ r.mount = q.mount
  BY WizardReplied, Zenon DEF WizardInv
<1>2. AnnouncedWhole'
  BY <1>1, WholeRest, Zenon DEF SaysWhole
<1>3. r.mount \in 0..wizardMount /\ FreshList(r, wizardCalls', camps', wizardEnv, wizardMount)
  BY <1>1, Zenon DEF ListInv, FreshList
<1>4. \/ Unheard(wizardCalls') \/ wizardCrossed' \/ (camps' = camps /\ (Unheard(wizardCalls) => Unheard(wizardCalls')))
  <2>1. CASE a.at \in {"half", "ok"}
    BY <1>1, <2>1, Zenon DEF Unheard
  <2>2. CASE camps' = camps /\ q.answer.at \notin {"half", "ok"}
    BY <1>1, <2>2, Zenon DEF Unheard
  <2>. QED
    BY <2>1, <2>2, Zenon
<1>5. ~ here' => list' = Wizard!NotLoaded
  BY Zenon DEF ListInv
<1>6. \A d \in wizardCalls' : d \in wizardCalls \/ d = r
  BY <1>1, Zenon
<1>. QED
  BY <1>2, <1>3, <1>4, <1>5, <1>6, ListRest, Zenon

LEMMA WholeServe ==
    ASSUME WizardInv, AnnouncedWhole, ListInv, NEW q \in wizardCalls, Wizard!Serve(q)
    PROVE  AnnouncedWhole' /\ ListInv'
<1>1. UNCHANGED <<wizardEnv, here, wizardMount, list, announced>>
  BY Zenon DEF Wizard!Serve, Wizard!page
<1>2. CASE Wizard!ServeList(q)
  BY <1>1, <1>2, WholeServeList, Zenon
<1>3. CASE Wizard!CreateCampaign(q)
  <2>1. PICK k : k = [n |-> q.n, env |-> q.env, kind |-> q.kind, coded |-> FALSE, reviewed |-> q.reviewed,
                      to |-> "none", pays |-> FALSE, supply |-> q.supply, months |-> 12]
    OBVIOUS
  <2>2. k.n = q.n /\ k.kind = q.kind
    BY ONLY <2>1, SMT
  <2>3. q.kind # "list" /\ q.answer = Wizard!Sent /\ wizardCrossed' = wizardCrossed
    BY <1>3, Zenon DEF Wizard!CreateCampaign
  <2>4. CASE Wizard!Answered(q, Wizard!Refused) /\ camps' = camps
    BY <1>1, <2>3, <2>4, WizardWords, WholeAnswered, Zenon
  <2>5. CASE q.kind \in {"voucher", "ticket"} /\ Wizard!Answered(q, [at |-> "ok"]) /\ camps' = camps \cup {k}
    <3>1. IsWhole(q.n, camps') /\ \A x : IsWhole(x, camps) => IsWhole(x, camps')
      BY <2>2, <2>5, Zenon DEF IsWhole
    <3>. QED
      BY <1>1, <2>3, <2>5, <3>1, WizardWords, WholeAnswered, Zenon
  <2>6. CASE Wizard!Answered(q, [at |-> "half"]) /\ camps' \in {camps, camps \cup {k}}
    <3>1. \A x : IsWhole(x, camps) => IsWhole(x, camps')
      BY <2>6, Zenon DEF IsWhole
    <3>2. [at |-> "half"].at \in {"half", "ok"} /\ [at |-> "half"].at # "ok"
      BY WizardWords, Zenon
    <3>. QED
      BY <1>1, <2>3, <2>6, <3>1, <3>2, WholeAnswered, Zenon
  <2>7. "loyalty" \notin {"voucher", "ticket"}
    BY SMT
  <2>. QED
    BY <1>3, <2>1, <2>4, <2>5, <2>6, <2>7, Zenon DEF Wizard!CreateCampaign
<1>4. CASE Wizard!RegisterFails(q)
  <2>1. /\ q.answer.at = "half" /\ Wizard!Answered(q, Wizard!Refused) /\ wizardCrossed' = TRUE /\ camps' = camps
    BY <1>4, Zenon DEF Wizard!RegisterFails
  <2>2. q.kind # "list"
    BY <2>1, Zenon DEF WizardInv, WizardCall
  <2>3. Wizard!Refused.at # "ok"
    BY WizardWords, Zenon
  <2>. QED
    BY <1>1, <2>1, <2>2, <2>3, WholeAnswered, Zenon
<1>5. CASE Wizard!RegisterShared(q)
  <2>. DEFINE P == q.kind \in {"creator", "gift"} /\ q.to # "none" /\ q.pays
              t == IF q.kind \in {"creator", "gift"} THEN q.to ELSE "none"
              m == IF q.kind = "loyalty" THEN 24 ELSE 12
  <2>1. PICK b, x, y : b = P /\ x = t /\ y = m
    OBVIOUS
  <2>2. PICK k : k = [n |-> q.n, env |-> q.env, kind |-> q.kind, coded |-> TRUE, reviewed |-> q.reviewed,
                      to |-> x, pays |-> b, supply |-> q.supply, months |-> y]
    OBVIOUS
  <2>3. /\ camps' = {d \in camps : d.n # q.n} \cup {k} /\ Wizard!Answered(q, [at |-> "ok"]) /\ q.answer.at = "half"
        /\ wizardCrossed' = wizardCrossed
    BY <1>5, <2>1, <2>2, Zenon DEF Wizard!RegisterShared
  <2>4. k.n = q.n /\ k.coded
    BY ONLY <2>2, SMT
  <2>5. q.kind # "list"
    BY <2>3, Zenon DEF WizardInv, WizardCall
  <2>6. IsWhole(q.n, camps') /\ \A z : IsWhole(z, camps) => IsWhole(z, camps')
    BY <2>3, <2>4, Zenon DEF IsWhole
  <2>. QED
    BY <1>1, <2>3, <2>5, <2>6, WizardWords, WholeAnswered, Zenon
<1>. QED
  BY <1>2, <1>3, <1>4, <1>5, Zenon DEF Wizard!Serve

\* The page asks for another environment's list, or is opened anew.
LEMMA WholeAsks ==
    ASSUME AnnouncedWhole, ListInv, (\E e : Wizard!SetEnv(e)) \/ Wizard!Back
    PROVE  AnnouncedWhole' /\ ListInv'
<1>1. PICK x : x = Wizard!Load(wizardEnv', wizardMount')
  OBVIOUS
<1>2. /\ wizardCalls' = wizardCalls \cup {x} /\ list' = Wizard!NotLoaded /\ UNCHANGED <<camps, announced>>
      /\ here' /\ wizardMount' \in {wizardMount, wizardMount + 1}
      /\ ~ wizardCrossed' => \A q \in wizardCalls : q.kind = "list" => q.mount # wizardMount'
  <2>1. ASSUME NEW e, Wizard!SetEnv(e)
        PROVE  /\ wizardCalls' = wizardCalls \cup {x} /\ list' = Wizard!NotLoaded /\ UNCHANGED <<camps, announced>>
               /\ here' /\ wizardMount' = wizardMount
               /\ ~ wizardCrossed' => \A q \in wizardCalls : q.kind = "list" => q.mount # wizardMount'
    BY <1>1, <2>1, Zenon DEF Wizard!SetEnv, Wizard!Asks
  <2>2. CASE Wizard!Back
    <3>1. /\ wizardCalls' = wizardCalls \cup {x} /\ UNCHANGED <<camps, announced, list>> /\ here'
          /\ wizardMount' = wizardMount + 1 /\ ~ here
      BY <1>1, <2>2, Zenon DEF Wizard!Back, Wizard!Asks
    <3>2. wizardMount + 1 \notin 0..wizardMount
      BY SMT DEF ListInv
    <3>. QED
      BY <3>1, <3>2, Zenon DEF ListInv
  <2>. QED
    BY <2>1, <2>2, Zenon
<1>3. /\ x.kind = "list" /\ x.mount = wizardMount' /\ x.answer.at # "ok"
      /\ FreshList(x, wizardCalls', camps', wizardEnv', wizardMount')
  BY <1>1, LoadIs, LoadFresh, Zenon
<1>4. AnnouncedWhole'
  BY <1>2, <1>3, WholeRest, Zenon DEF SaysWhole
<1>5. wizardMount' \in Nat /\ wizardMount' \in 0..wizardMount' /\ 0..wizardMount \subseteq 0..wizardMount'
  BY <1>2, SMT DEF ListInv
<1>6. \A q \in wizardCalls' : q.mount \in 0..wizardMount'
  BY <1>2, <1>3, <1>5, Zenon DEF ListInv
<1>7. ~ wizardCrossed' => \A q \in wizardCalls' : FreshList(q, wizardCalls', camps', wizardEnv', wizardMount')
  BY <1>2, <1>3, Zenon DEF FreshList
<1>8. ListStored(list', wizardCalls', camps', wizardEnv')
  BY <1>2, Zenon DEF ListStored
<1>. QED
  BY <1>2, <1>4, <1>5, <1>6, <1>7, <1>8, Zenon DEF ListInv

\* The form changes, or asks for the list, or posts a creation.
LEMMA WholeForm ==
    ASSUME WizardInv, AnnouncedWhole, ListInv,
           UNCHANGED <<camps, wizardEnv, here, wizardMount, list, announced>>, wizardCrossed => wizardCrossed',
           wizardCalls \subseteq wizardCalls',
           \A q \in wizardCalls' :
              q \in wizardCalls \/ q = Wizard!Load(wizardEnv, wizardMount) \/ q = Wizard!Body
    PROVE  AnnouncedWhole' /\ ListInv'
<1>1. PICK x, y : x = Wizard!Load(wizardEnv, wizardMount) /\ y = Wizard!Body
  OBVIOUS
<1>2. /\ x.kind = "list" /\ x.mount = wizardMount /\ x.answer.at # "ok"
      /\ FreshList(x, wizardCalls', camps', wizardEnv, wizardMount)
  BY <1>1, LoadIs, LoadFresh, Zenon
<1>3. y.kind = kind /\ y.mount = wizardMount /\ y.answer = Wizard!Sent
  BY <1>1, SMT DEF Wizard!Body
<1>4. kind # "list"
  BY SMT DEF WizardInv, Wizard!AllKinds
<1>5. SaysWhole(x, camps) /\ SaysWhole(y, camps)
  BY <1>2, <1>3, WizardWords, Zenon DEF SaysWhole
<1>6. AnnouncedWhole'
  BY <1>1, <1>5, WholeRest, Zenon
<1>7. wizardMount \in 0..wizardMount
  BY SMT DEF ListInv
<1>8. FreshList(y, wizardCalls', camps', wizardEnv, wizardMount)
  BY <1>3, <1>4, Zenon DEF FreshList
<1>9. ~ here' => list' = Wizard!NotLoaded
  BY Zenon DEF ListInv
<1>10. Unheard(wizardCalls) => Unheard(wizardCalls')
  BY Zenon DEF Unheard
<1>11. \A q \in wizardCalls' :
          q \in wizardCalls \/ (q.mount \in 0..wizardMount /\ FreshList(q, wizardCalls', camps', wizardEnv, wizardMount))
  BY <1>1, <1>2, <1>3, <1>7, <1>8, Zenon
<1>. QED
  BY <1>6, <1>9, <1>10, <1>11, ListRest, Zenon

LEMMA WholeListed ==
    ASSUME AnnouncedWhole, ListInv, NEW q \in wizardCalls, Wizard!Listed(q), camps' = camps
    PROVE  AnnouncedWhole' /\ ListInv'
<1>1. /\ q.kind = "list" /\ q.answer.at = "ok" /\ wizardCalls' = wizardCalls \ {q}
      /\ UNCHANGED <<wizardEnv, here, wizardMount, announced, wizardCrossed>>
      /\ list' = IF here /\ q.mount = wizardMount THEN [of |-> q.answer.of, ids |-> q.answer.ids] ELSE list
  BY Zenon DEF Wizard!Listed
<1>2. AnnouncedWhole'
  BY <1>1, WholeRest, Zenon
<1>3. Unheard(wizardCalls) => Unheard(wizardCalls')
  BY <1>1, Zenon DEF Unheard
<1>4. ASSUME ~ wizardCrossed', here', q.mount = wizardMount
      PROVE  ListStored(list', wizardCalls', camps', wizardEnv)
  <2>1. q.answer.of = wizardEnv /\ FreshIds(q.answer.ids, wizardCalls, camps, wizardEnv)
    BY <1>1, <1>4, Zenon DEF ListInv, FreshList
  <2>2. FreshIds(q.answer.ids, wizardCalls', camps', wizardEnv)
    BY <1>3, <2>1, Zenon DEF FreshIds
  <2>. QED
    BY <1>1, <1>4, <2>1, <2>2, Zenon DEF ListStored
<1>5. list' = list \/ (~ wizardCrossed' /\ here' => ListStored(list', wizardCalls', camps', wizardEnv))
  BY <1>1, <1>4, Zenon
<1>6. ~ here' => list' = Wizard!NotLoaded
  BY <1>1, Zenon DEF ListInv
<1>. QED
  BY <1>1, <1>2, <1>3, <1>5, <1>6, ListRest, Zenon

\* The page gives way to that of what was created, or is left.
LEMMA WholeLeaves ==
    ASSUME AnnouncedWhole, ListInv, camps' = camps,
           Wizard!Away \/ \E q \in wizardCalls : Wizard!Created(q)
    PROVE  AnnouncedWhole' /\ ListInv'
<1>1. CASE Wizard!Away
  <2>1. /\ ~ here' /\ list' = Wizard!NotLoaded /\ here
        /\ UNCHANGED <<camps, wizardEnv, wizardMount, wizardCalls, announced, wizardCrossed>>
    BY <1>1, Zenon DEF Wizard!Away, Wizard!Leave
  <2>2. AnnouncedWhole'
    BY <2>1, WholeRest, Zenon
  <2>. QED
    BY <2>1, <2>2, Zenon DEF ListInv
<1>2. ASSUME NEW q \in wizardCalls, Wizard!Created(q)
      PROVE  AnnouncedWhole' /\ ListInv'
  <2>1. PICK x : x = Wizard!Load(wizardEnv, q.mount)
    OBVIOUS
  <2>2. /\ ~ here' /\ list' = Wizard!NotLoaded /\ q.kind # "list" /\ q.answer.at = "ok"
        /\ announced' = announced \cup {q.n} /\ wizardCalls' = (wizardCalls \ {q}) \cup {x}
        /\ UNCHANGED <<wizardEnv, wizardMount>>
    BY <1>2, <2>1, Zenon DEF Wizard!Created, Wizard!Leave, Wizard!Asks
  <2>3. x.kind = "list" /\ x.mount = q.mount
    BY <2>1, LoadIs, ZenonT(30)
  <2>4. IsWhole(q.n, camps')
    BY <2>2, Zenon DEF AnnouncedWhole, SaysWhole
  <2>5. AnnouncedWhole'
    BY <2>2, <2>3, <2>4, WholeRest, Zenon DEF SaysWhole
  <2>6. \A d \in wizardCalls' : d.mount \in 0..wizardMount
    BY <2>2, <2>3, Zenon DEF ListInv
  <2>. QED
    BY <2>2, <2>5, <2>6, Zenon DEF ListInv
<1>. QED
  BY <1>1, <1>2, Zenon

LEMMA WholeFails ==
    ASSUME AnnouncedWhole, ListInv, NEW q \in wizardCalls, Wizard!Fails(q), camps' = camps,
           wizardCrossed' = TRUE \/ (q.answer = Wizard!Refused /\ wizardCrossed' = wizardCrossed)
    PROVE  AnnouncedWhole' /\ ListInv'
<1>1. wizardCalls' = wizardCalls \ {q} /\ UNCHANGED <<wizardEnv, here, wizardMount, list, announced>>
  BY Zenon DEF Wizard!Fails, Wizard!page
<1>2. AnnouncedWhole'
  BY <1>1, WholeRest, Zenon
<1>3. ~ wizardCrossed' => (Unheard(wizardCalls) => Unheard(wizardCalls'))
  BY <1>1, WizardWords, Zenon DEF Unheard
<1>4. ~ here' => list' = Wizard!NotLoaded
  BY <1>1, Zenon DEF ListInv
<1>5. wizardCrossed => wizardCrossed'
  OBVIOUS
<1>6. ListInv'
  BY ONLY ListInv, camps' = camps, <1>1, <1>3, <1>4, <1>5, ListRest, Zenon
<1>. QED
  BY <1>2, <1>6, Zenon

LEMMA WholeKept ==
    WizardInv /\ AnnouncedWhole /\ ListInv /\ (Wizard!Next \/ UNCHANGED wizardVars) => AnnouncedWhole' /\ ListInv'
<1>. SUFFICES ASSUME WizardInv, AnnouncedWhole, ListInv, Wizard!Next \/ UNCHANGED wizardVars
              PROVE  AnnouncedWhole' /\ ListInv'
  OBVIOUS
<1>1. CASE UNCHANGED wizardVars
  BY <1>1, WholeForm, Zenon DEF wizardVars
<1>2. CASE Wizard!OpenWizard
  BY <1>2, WholeForm, Zenon DEF Wizard!OpenWizard, Wizard!page
<1>3. CASE Wizard!Turn
  BY <1>3, WholeForm, Zenon DEF Wizard!Turn, Wizard!page
<1>4. CASE Wizard!Create
  BY <1>4, WholeForm, Zenon DEF Wizard!Create, Wizard!page
<1>5. CASE Wizard!Close
  BY <1>5, WholeForm, Zenon DEF Wizard!Close, Wizard!Asks, Wizard!page
<1>6. ASSUME NEW k, Wizard!Choose(k) PROVE AnnouncedWhole' /\ ListInv'
  BY <1>6, WholeForm, Zenon DEF Wizard!Choose, Wizard!page
<1>7. ASSUME NEW x, NEW v, Wizard!Fill(x, v) PROVE AnnouncedWhole' /\ ListInv'
  BY <1>7, WholeForm, Zenon DEF Wizard!Fill, Wizard!page
<1>8. ASSUME NEW q \in wizardCalls, Wizard!Return(q) PROVE AnnouncedWhole' /\ ListInv'
  BY <1>8, WholeListed, WholeLeaves, WholeFails, Zenon DEF Wizard!Return
<1>9. ASSUME NEW q \in wizardCalls, Wizard!Lose(q) PROVE AnnouncedWhole' /\ ListInv'
  BY <1>9, WholeFails, Zenon DEF Wizard!Lose
<1>10. CASE Wizard!Away
  <2>1. camps' = camps
    BY <1>10, Zenon DEF Wizard!Away
  <2>. QED
    BY <1>10, <2>1, WholeLeaves, Zenon
<1>. QED
  BY <1>1, <1>2, <1>3, <1>4, <1>5, <1>6, <1>7, <1>8, <1>9, <1>10, WholeServe, WholeAsks, Zenon DEF Wizard!Next

LEMMA WholeTells == AnnouncedWhole /\ ListInv => Wizard!AnnouncedIsWhole /\ Wizard!ListCatchesUp
<1>. SUFFICES ASSUME AnnouncedWhole, ListInv PROVE Wizard!AnnouncedIsWhole /\ Wizard!ListCatchesUp
  OBVIOUS
<1>1. Wizard!AnnouncedIsWhole
  BY Zenon DEF AnnouncedWhole, IsWhole, Wizard!AnnouncedIsWhole
<1>2. ASSUME here, wizardCalls = {}, ~ wizardCrossed, list # Wizard!NotLoaded
      PROVE  list = [of |-> wizardEnv, ids |-> IdsOf(camps, wizardEnv)]
  <2>1. PICK I : list = [of |-> wizardEnv, ids |-> I] /\ FreshIds(I, wizardCalls, camps, wizardEnv)
    BY <1>2, Zenon DEF ListInv, ListStored
  <2>2. I = IdsOf(camps, wizardEnv)
    BY <1>2, <2>1, Zenon DEF FreshIds, Unheard
  <2>. QED
    BY <2>1, <2>2, Zenon
<1>3. Wizard!ListCatchesUp
  BY <1>2, Zenon DEF Wizard!ListCatchesUp, IdsOf
<1>. QED
  BY <1>1, <1>3, Zenon

-----------------------------------------------------------------------------
\* The page of a campaign: as many codes as it was told were issued.

\* The call q of a write that has issued d codes so far.
IssueCall(q, d) ==
    q.kind = "issue" =>
        /\ q.qty \in Int /\ q.left \in Int
        /\ q.answer.at = "sent" => d = 0 /\ q.left = q.qty
        /\ q.answer.at = "issuing" => d = q.qty - q.left
        /\ q.answer.at \in {"ok", "part"} => q.answer.of = d

\* What write w was told is what it did, by the numbers D; none of C goes on with it.
WriteTells(w, C, D) ==
    w.kind = "issue" /\ w.told # Detail!Sent =>
        w.told.of = D[w.n] /\ \A q \in C : Posts(q) => q.n # w.n

IssuedInv ==
    /\ \A q \in detailCalls : IssueCall(q, did[q.n])
    /\ \A w \in detailWrites : WriteTells(w, detailCalls, did)

LEMMA IssuedBegin == Detail!Init => IssuedInv
BY Zenon DEF Detail!Init, IssuedInv

LEMMA IssuedTells == IssuedInv => Detail!IssuedAsTold
BY Zenon DEF IssuedInv, WriteTells, Detail!IssuedAsTold

\* Only loads are asked for, answered or dropped.
LEMMA IssuedRest ==
    ASSUME IssuedInv, UNCHANGED <<detailWrites, did>>,
           \A q \in detailCalls' : q \in detailCalls \/ q.kind = "load"
    PROVE  IssuedInv'
<1>1. "load" # "issue"
  BY SMT
<1>2. \A q \in detailCalls' : IssueCall(q, did[q.n])
  BY <1>1, Zenon DEF IssuedInv, IssueCall
<1>3. \A w \in detailWrites : WriteTells(w, detailCalls', did)
  BY Zenon DEF IssuedInv, WriteTells, Posts
<1>. QED
  BY <1>2, <1>3, Zenon DEF IssuedInv

\* A handler goes on with q, which becomes r.
LEMMA IssuedServed ==
    ASSUME EffectsInv, IssuedInv, NEW q \in detailCalls, Posts(q), NEW r, detailCalls' = (detailCalls \ {q}) \cup {r},
           r.n = q.n, IssueCall(r, did'[q.n]), detailWrites' = detailWrites,
           \A m \in 1..Cardinality(detailWrites) : m # q.n => did'[m] = did[m]
    PROVE  IssuedInv'
<1>. DEFINE N == Cardinality(detailWrites)
<1>1. /\ \A w \in detailWrites : w.n \in 1..N
      /\ \A d \in detailCalls : Posts(d) => d.n \in 1..N /\ (d.n = q.n => d = q)
  BY Zenon DEF EffectsInv, WritesNumbered, EffectCall, IsRecorded, OnePost
<1>2. "load" # "issue"
  BY SMT
<1>. HIDE DEF N
<1>3. ASSUME NEW d \in detailCalls' PROVE IssueCall(d, did'[d.n])
  <2>1. CASE d = r
    BY <2>1, Zenon
  <2>2. CASE d \in detailCalls /\ d # q
    <3>. SUFFICES ASSUME d.kind = "issue" PROVE IssueCall(d, did'[d.n])
      BY Zenon DEF IssueCall
    <3>1. did'[d.n] = did[d.n]
      BY <1>1, <1>2, <2>2, Zenon DEF Posts, N
    <3>2. IssueCall(d, did[d.n])
      BY <2>2, Zenon DEF IssuedInv
    <3>. QED
      BY <3>1, <3>2, Zenon
  <2>. QED
    BY <1>3, <2>1, <2>2, Zenon
<1>4. ASSUME NEW w \in detailWrites PROVE WriteTells(w, detailCalls', did')
  <2>. SUFFICES ASSUME w.kind = "issue", w.told # Detail!Sent
                PROVE  w.told.of = did'[w.n] /\ \A d \in detailCalls' : Posts(d) => d.n # w.n
    BY Zenon DEF WriteTells
  <2>1. w.told.of = did[w.n] /\ \A d \in detailCalls : Posts(d) => d.n # w.n
    BY Zenon DEF IssuedInv, WriteTells
  <2>2. did'[w.n] = did[w.n]
    BY <1>1, <2>1, Zenon DEF N
  <2>. QED
    BY <2>1, <2>2, Zenon
<1>. QED
  BY <1>3, <1>4, Zenon DEF IssuedInv

\* q is answered; what it has done stays.
LEMMA IssuedAnswer ==
    ASSUME EffectsInv, IssuedInv, NEW q \in detailCalls, DetailFields(q), Posts(q), NEW a, Detail!Answered(q, a),
           UNCHANGED <<detailWrites, did>>,
           q.kind = "issue" =>
              /\ a.at # "sent" /\ (a.at = "issuing" => did[q.n] = q.qty - q.left)
              /\ a.at \in {"ok", "part"} => a.of = did[q.n]
    PROVE  IssuedInv'
<1>. DEFINE r == [q EXCEPT !.answer = a]
<1>1. /\ r.kind = q.kind /\ r.n = q.n /\ r.answer = a /\ r.qty = q.qty /\ r.left = q.left
  <2>1. q.kind # "load"
    BY Zenon DEF Posts
  <2>. QED
    BY ONLY DetailFields(q), <2>1, DetailAnswered
<1>2. detailCalls' = (detailCalls \ {q}) \cup {r}
  BY Zenon DEF Detail!Answered
<1>. HIDE DEF r
<1>3. IssueCall(q, did[q.n])
  BY Zenon DEF IssuedInv
<1>4. IssueCall(r, did'[q.n])
  BY <1>1, <1>3, Zenon DEF IssueCall
<1>. QED
  BY <1>1, <1>2, <1>4, IssuedServed, Zenon

LEMMA IssuedServe ==
    ASSUME ScreenInv, EffectsInv, IssuedInv, NEW q \in detailCalls, Detail!Serve(q)
    PROVE  IssuedInv'
<1>1. detailWrites' = detailWrites
  BY Zenon DEF Detail!Serve, Detail!page
<1>2. DetailFields(q) /\ IssueCall(q, did[q.n]) /\ EffectCall(q, detailArchived, detailWrites, Cardinality(detailWrites))
  BY Zenon DEF ScreenInv, EffectsInv, IssuedInv
<1>3. did \in [1..Cardinality(detailWrites) -> Nat]
  BY Zenon DEF EffectsInv
<1>4. /\ "load" \notin {"archive", "issue", "events"} /\ "archive" # "issue" /\ "events" # "issue"
      /\ "error" \notin {"ok", "part", "issuing", "sent"} /\ "issuing" \notin {"ok", "part", "sent"}
      /\ "ok" \notin {"issuing", "sent"} /\ "part" \notin {"issuing", "sent"} /\ Detail!NotFound.at = "error"
      /\ Detail!Sent.at = "sent"
  BY SMT DEF Detail!NotFound, Detail!Sent
<1>5. CASE Detail!ServeLoad(q)
  <2>1. q.kind = "load" /\ did' = did /\ \E a : Detail!Answered(q, a)
    BY <1>5, Zenon DEF Detail!ServeLoad
  <2>2. PICK a : Detail!Answered(q, a)
    BY <2>1, Zenon
  <2>. DEFINE r == [q EXCEPT !.answer = a]
  <2>3. r.kind = q.kind
    BY <1>2, DetailAnswered, Zenon
  <2>4. detailCalls' = (detailCalls \ {q}) \cup {r}
    BY <2>2, Zenon DEF Detail!Answered
  <2>. HIDE DEF r
  <2>5. \A d \in detailCalls' : d \in detailCalls \/ d.kind = "load"
    BY <2>1, <2>3, <2>4, Zenon
  <2>. QED
    BY <1>1, <2>1, <2>5, IssuedRest, Zenon
<1>6. CASE Detail!ServeArchive(q)
  <2>1. q.kind = "archive" /\ Posts(q) /\ did' = did /\ \E a : Detail!Answered(q, a)
    BY <1>4, <1>6, Zenon DEF Detail!ServeArchive, Posts
  <2>. QED
    BY <1>1, <1>2, <1>4, <2>1, IssuedAnswer, Zenon
<1>7. CASE Detail!ServeEvents(q)
  <2>1. /\ q.kind = "events" /\ Posts(q) /\ (\E a : Detail!Answered(q, a))
        /\ did' = did \/ did' = [did EXCEPT ![q.n] = 1]
    BY <1>4, <1>7, Zenon DEF Detail!ServeEvents, Posts
  <2>2. PICK a : Detail!Answered(q, a)
    BY <2>1, Zenon
  <2>. DEFINE r == [q EXCEPT !.answer = a]
  <2>3. r.kind = q.kind /\ r.n = q.n
    BY <1>2, <2>1, DetailAnswered, Zenon
  <2>4. detailCalls' = (detailCalls \ {q}) \cup {r}
    BY <2>2, Zenon DEF Detail!Answered
  <2>. HIDE DEF r
  <2>5. IssueCall(r, did'[q.n])
    BY <1>4, <2>1, <2>3, Zenon DEF IssueCall
  <2>6. \A m \in 1..Cardinality(detailWrites) : m # q.n => did'[m] = did[m]
    BY <1>3, <2>1, Zenon
  <2>. QED
    BY <1>1, <2>1, <2>3, <2>4, <2>5, <2>6, IssuedServed, Zenon
<1>8. CASE Detail!StartIssue(q)
  <2>1. q.kind = "issue" /\ Posts(q) /\ did' = did /\ q.answer.at = "sent"
    BY <1>4, <1>8, Zenon DEF Detail!StartIssue, Posts
  <2>2. PICK a : Detail!Answered(q, a) /\ a.at \in {"issuing", "error"}
    <3>1. [at |-> "issuing"].at = "issuing"
      OBVIOUS
    <3>. QED
      BY <1>4, <1>8, <3>1, Zenon DEF Detail!StartIssue
  <2>3. did[q.n] = q.qty - q.left
    <3>1. did[q.n] = 0 /\ q.left = q.qty /\ q.qty \in Int
      BY <1>2, <2>1, Zenon DEF IssueCall
    <3>. QED
      BY <3>1
  <2>4. a.at # "sent" /\ a.at \notin {"ok", "part"}
    BY <1>4, <2>2, Zenon
  <2>. QED
    BY <1>1, <1>2, <2>1, <2>2, <2>3, <2>4, IssuedAnswer, Zenon
<1>9. CASE Detail!IssueChunk(q)
  <2>. DEFINE r == [q EXCEPT !.left = @ - 1]
  <2>1. /\ q.answer.at = "issuing" /\ detailCalls' = (detailCalls \ {q}) \cup {r}
        /\ did' = [did EXCEPT ![q.n] = @ + 1]
    BY <1>9, Zenon DEF Detail!IssueChunk
  <2>2. q.kind = "issue"
    BY <1>2, <2>1, Zenon DEF EffectCall
  <2>3. Posts(q)
    BY <1>4, <2>2, Zenon DEF Posts
  <2>4. r.kind = q.kind /\ r.n = q.n /\ r.answer = q.answer /\ r.qty = q.qty /\ r.left = q.left - 1
    BY <1>2, <2>3, DetailLeft, Zenon DEF Posts
  <2>. HIDE DEF r
  <2>5. PICK D, m, x : D = did' /\ m = Cardinality(detailWrites) /\ x = q.n
    OBVIOUS
  <2>6. D = [did EXCEPT ![x] = @ + 1] /\ did \in [1..m -> Nat] /\ x \in 1..m
    BY <1>2, <1>3, <2>1, <2>3, <2>5, Zenon DEF EffectCall, IsRecorded
  <2>7. D[x] = did[x] + 1 /\ did[x] \in Nat /\ \A k \in 1..m : k # x => D[k] = did[k]
    BY ONLY <2>6
  <2>8. did[x] = q.qty - q.left /\ q.qty \in Int /\ q.left \in Int
    BY <1>2, <2>1, <2>2, <2>5, Zenon DEF IssueCall
  <2>9. D[x] = r.qty - r.left /\ r.qty \in Int /\ r.left \in Int
    BY ONLY <2>4, <2>7, <2>8
  <2>10. IssueCall(r, did'[q.n])
    BY <1>4, <2>1, <2>4, <2>5, <2>9, Zenon DEF IssueCall
  <2>. QED
    BY <1>1, <2>1, <2>3, <2>4, <2>5, <2>7, <2>10, IssuedServed, Zenon
<1>10. CASE Detail!ChunkFails(q) \/ Detail!FinishIssue(q)
  <2>1. q.answer.at = "issuing" /\ did' = did
    BY <1>10, Zenon DEF Detail!ChunkFails, Detail!FinishIssue
  <2>2. q.kind = "issue"
    BY <1>2, <2>1, Zenon DEF EffectCall
  <2>3. Posts(q)
    BY <1>4, <2>2, Zenon DEF Posts
  <2>4. did[q.n] = q.qty - q.left /\ q.qty \in Int /\ q.left \in Int
    BY <1>2, <2>1, <2>2, Zenon DEF IssueCall
  <2>5. PICK a : /\ Detail!Answered(q, a) /\ a.at \in {"part", "ok", "error"}
                 /\ a.at # "error" => a.of = did[q.n]
    <3>1. CASE Detail!ChunkFails(q)
      <4>1. PICK a : /\ a = (IF q.left < q.qty THEN [at |-> "part", of |-> q.qty - q.left] ELSE Detail!NotFound)
                     /\ Detail!Answered(q, a)
        BY <3>1, Zenon DEF Detail!ChunkFails
      <4>2. a.at \in {"part", "error"} /\ (a.at # "error" => a.of = q.qty - q.left)
        BY ONLY <4>1, SMT DEF Detail!NotFound
      <4>. QED
        BY <2>4, <4>1, <4>2, Zenon
    <3>2. CASE Detail!FinishIssue(q)
      <4>1. PICK a : a = [at |-> "ok", of |-> q.qty] /\ Detail!Answered(q, a)
        BY <3>2, Zenon DEF Detail!FinishIssue
      <4>2. a.at = "ok" /\ a.of = q.qty
        BY ONLY <4>1
      <4>3. q.left = 0
        BY <3>2, Zenon DEF Detail!FinishIssue
      <4>4. q.qty = did[q.n]
        BY ONLY <2>4, <4>3
      <4>. QED
        BY <4>1, <4>2, <4>4, Zenon
    <3>. QED
      BY <1>10, <3>1, <3>2, Zenon
  <2>6. a.at \notin {"sent", "issuing"} /\ (a.at \in {"ok", "part"} => a.of = did[q.n])
    BY <1>4, <2>5, Zenon
  <2>. QED
    BY <1>1, <1>2, <2>1, <2>3, <2>5, <2>6, IssuedAnswer, Zenon
<1>. QED
  BY <1>5, <1>6, <1>7, <1>8, <1>9, <1>10, Zenon DEF Detail!Serve

\* A new write has done nothing and was told nothing.
LEMMA IssuedWrites ==
    ASSUME EffectsInv, IssuedInv, NEW sort \in {"archive", "issue", "events"}, NEW id, NEW qty, NEW ref,
           Detail!Write(sort, id, qty, ref), sort = "issue" => qty \in Int
    PROVE  IssuedInv'
<1>. DEFINE N == Cardinality(detailWrites)
            Q(x) == [n |-> x, kind |-> sort, id |-> id, env |-> detailEnv, mount |-> detailMount, answer |-> Detail!Sent,
                     from |-> route, inst |-> detailInst, qty |-> qty, ref |-> ref, left |-> qty]
            W(x, y) == [n |-> x, kind |-> sort, id |-> id, seen |-> detailShown.id, inst |-> detailInst, ref |-> ref,
                        late |-> overtaken, told |-> Detail!Sent, after |-> y]
            old == \E a \in detailWrites : a.kind = "archive" /\ a.id = id /\ a.told # Detail!Sent
<1>1. PICK p : /\ p = Q(N + 1) /\ Detail!Sends(p) /\ detailWrites' = detailWrites \cup {W(p.n, old)}
               /\ did' = [m \in 1..p.n |-> IF m = p.n THEN 0 ELSE did[m]]
  BY DetailCardinality, Zenon DEF Detail!Write
<1>2. detailCalls' = detailCalls \cup {p}
  BY <1>1, Zenon DEF Detail!Sends
<1>3. PICK v : v = W(p.n, old)
  OBVIOUS
<1>4. p.n = N + 1 /\ p.kind = sort /\ p.left = qty /\ p.qty = qty /\ p.answer.at = "sent"
  BY <1>1, SMT DEF Detail!Sent
<1>5. v.told = Detail!Sent
  <2>. HIDE DEF old
  <2>. QED
    BY <1>3, SMT
<1>6. sort # "load" /\ "load" # "issue" /\ "sent" \notin {"issuing", "ok", "part"}
  BY SMT
<1>7. detailWrites' = detailWrites \cup {v}
  BY <1>1, <1>3, Zenon
<1>8. /\ did \in [1..N -> Nat] /\ IsFiniteSet(detailWrites) /\ \A w \in detailWrites : w.n \in 1..N
      /\ \A q \in detailCalls : Posts(q) => q.n \in 1..N
  BY Zenon DEF EffectsInv, WritesNumbered, EffectCall, IsRecorded
<1>. HIDE DEF Q, W, old
<1>9. N \in Nat
  BY <1>8, FS_CardinalityType, Zenon
<1>10. did' = [m \in 1..(N + 1) |-> IF m = p.n THEN 0 ELSE did[m]]
  BY <1>1, <1>4, Zenon
<1>. HIDE DEF N
<1>11. did'[p.n] = 0 /\ \A m \in 1..N : did'[m] = did[m] /\ m # p.n
  BY <1>4, <1>9, <1>10
<1>12. ASSUME NEW q \in detailCalls' PROVE IssueCall(q, did'[q.n])
  <2>1. CASE q = p
    BY <1>4, <1>6, <1>11, <2>1, Zenon DEF IssueCall
  <2>2. CASE q \in detailCalls
    <3>. SUFFICES ASSUME q.kind = "issue" PROVE IssueCall(q, did'[q.n])
      BY Zenon DEF IssueCall
    <3>1. did'[q.n] = did[q.n]
      BY <1>6, <1>8, <1>11, <2>2, Zenon DEF Posts
    <3>2. IssueCall(q, did[q.n])
      BY <2>2, Zenon DEF IssuedInv
    <3>. QED
      BY <3>1, <3>2, Zenon
  <2>. QED
    BY <1>2, <1>12, <2>1, <2>2, Zenon
<1>13. ASSUME NEW w \in detailWrites' PROVE WriteTells(w, detailCalls', did')
  <2>. SUFFICES ASSUME w.kind = "issue", w.told # Detail!Sent
                PROVE  w.told.of = did'[w.n] /\ \A q \in detailCalls' : Posts(q) => q.n # w.n
    BY Zenon DEF WriteTells
  <2>1. w \in detailWrites
    BY <1>5, <1>7, Zenon
  <2>2. w.told.of = did[w.n] /\ \A q \in detailCalls : Posts(q) => q.n # w.n
    BY <2>1, Zenon DEF IssuedInv, WriteTells
  <2>3. did'[w.n] = did[w.n] /\ w.n # p.n
    BY <1>8, <1>11, <2>1, Zenon
  <2>. QED
    BY <1>2, <2>2, <2>3, Zenon
<1>. QED
  BY <1>12, <1>13, Zenon DEF IssuedInv

\* A write that returns is told what its request has done.
LEMMA IssuedReturn ==
    ASSUME EffectsInv, IssuedInv, NEW q \in detailCalls, Detail!WriteReturns(q), UNCHANGED Detail!api
    PROVE  IssuedInv'
<1>. DEFINE r == Detail!Load(q.from, detailEnv, q.mount)
<1>1. /\ q.kind # "load" /\ detailCalls' = (detailCalls \ {q}) \cup {r} /\ q.answer.at \in {"ok", "part"}
      /\ detailWrites' = {IF w.n = q.n THEN [w EXCEPT !.told = q.answer] ELSE w : w \in detailWrites}
      /\ did' = did
  BY Zenon DEF Detail!WriteReturns, Detail!Tells, Detail!Told, Detail!api
<1>2. r.kind = "load" /\ "load" # "issue"
  BY LoadMade, SMT
<1>3. /\ \A w \in detailWrites : WriteFields(w) /\ (w.n = q.n => w.kind = q.kind)
      /\ \A d \in detailCalls : Posts(d) /\ d.n = q.n => d = q
  BY <1>1, Zenon DEF EffectsInv, WritesNumbered, EffectCall, IsRecorded, Posts, OnePost
<1>4. q.kind = "issue" => q.answer.of = did[q.n]
  BY <1>1, Zenon DEF IssuedInv, IssueCall
<1>. HIDE DEF r
<1>5. \A d \in detailCalls' : IssueCall(d, did'[d.n])
  BY <1>1, <1>2, Zenon DEF IssuedInv, IssueCall
<1>6. ASSUME NEW v \in detailWrites' PROVE WriteTells(v, detailCalls', did')
  <2>1. PICK w \in detailWrites : v = IF w.n = q.n THEN [w EXCEPT !.told = q.answer] ELSE w
    BY <1>1, <1>6, Zenon
  <2>2. CASE w.n = q.n
    <3>1. v.n = w.n /\ v.kind = w.kind /\ v.told = q.answer
      <4>1. v = [w EXCEPT !.told = q.answer] /\ WriteFields(w)
        BY <1>3, <2>1, <2>2, Zenon
      <4>. QED
        BY ONLY <4>1, WriteTold, ZenonT(30)
    <3>2. \A d \in detailCalls' : Posts(d) => d.n # q.n
      BY <1>1, <1>2, <1>3, Zenon DEF Posts
    <3>. QED
      BY <1>1, <1>3, <1>4, <2>2, <3>1, <3>2, Zenon DEF WriteTells
  <2>3. CASE w.n # q.n
    <3>1. v = w
      BY <2>1, <2>3, Zenon
    <3>2. WriteTells(w, detailCalls, did)
      BY Zenon DEF IssuedInv
    <3>. QED
      BY <1>1, <1>2, <3>1, <3>2, Zenon DEF WriteTells, Posts
  <2>. QED
    BY <2>2, <2>3, Zenon
<1>. QED
  BY <1>5, <1>6, Zenon DEF IssuedInv

LEMMA IssuedMove ==
    ASSUME IssuedInv,
           \/ \E p \in Campaigns \cup {Detail!List} : Detail!Goto(p)
           \/ \E p \in Detail!Envs : Detail!SetEnv(p)
           \/ Detail!Open("issue") \/ Detail!Open("events") \/ Detail!Close
    PROVE  IssuedInv'
<1>1. UNCHANGED <<detailWrites, did>>
  BY Zenon DEF Detail!Goto, Detail!SetEnv, Detail!Open, Detail!Close, Detail!api
<1>2. detailCalls' = detailCalls \/ \E k, e, m : detailCalls' = detailCalls \cup {Detail!Load(k, e, m)}
  BY Zenon DEF Detail!Goto, Detail!SetEnv, Detail!Open, Detail!Close, Detail!Sends
<1>3. \A k, e, m : Detail!Load(k, e, m).kind = "load"
  BY SMT DEF Detail!Load
<1>4. \A q \in detailCalls' : q \in detailCalls \/ q.kind = "load"
  <2>1. CASE detailCalls' # detailCalls
    <3>1. PICK k, e, m : detailCalls' = detailCalls \cup {Detail!Load(k, e, m)}
      BY <1>2, <2>1, Zenon
    <3>2. Detail!Load(k, e, m).kind = "load"
      BY <1>3, Zenon
    <3>3. PICK l : l = Detail!Load(k, e, m)
      OBVIOUS
    <3>. QED
      BY ONLY <3>1, <3>2, <3>3, Zenon
  <2>. QED
    BY <2>1, Zenon
<1>. QED
  BY <1>1, <1>4, IssuedRest, Zenon

LEMMA IssuedKept == ScreenInv /\ EffectsInv /\ IssuedInv /\ (Detail!Next \/ UNCHANGED detailVars) => IssuedInv'
<1>. SUFFICES ASSUME ScreenInv, EffectsInv, IssuedInv, Detail!Next \/ UNCHANGED detailVars PROVE IssuedInv'
  OBVIOUS
<1>1. CASE UNCHANGED detailVars
  <2>1. UNCHANGED <<detailWrites, did, detailCalls>>
    BY <1>1, Zenon DEF detailVars
  <2>. QED
    BY <2>1, IssuedRest, Zenon
<1>2. CASE Detail!Archive
  <2>1. Detail!Write("archive", route, 0, Detail!NoRef) /\ "archive" # "issue"
    BY <1>2, SMT DEF Detail!Archive
  <2>. QED
    BY <2>1, IssuedWrites, Zenon
<1>3. ASSUME NEW n \in 1..2, Detail!Issue(n) PROVE IssuedInv'
  <2>1. Detail!Write("issue", detailShown.id, n, Detail!NoRef)
    BY <1>3, Zenon DEF Detail!Issue
  <2>2. n \in Int
    OBVIOUS
  <2>. QED
    BY <2>1, <2>2, IssuedWrites, Zenon
<1>4. ASSUME NEW ref, Detail!Record(ref) PROVE IssuedInv'
  <2>1. \E x : Detail!Write("events", detailShown.id, x, ref)
    BY <1>4, Zenon DEF Detail!Record
  <2>2. "events" # "issue"
    BY SMT
  <2>. QED
    BY <2>1, <2>2, IssuedWrites, Zenon
<1>5. ASSUME NEW q \in detailCalls, Detail!Return(q) \/ Detail!Lose(q) PROVE IssuedInv'
  <2>1. UNCHANGED Detail!api /\ (Detail!WriteReturns(q) \/ Detail!Loaded(q) \/ Detail!LoadFails(q) \/ Detail!WriteFails(q))
    BY <1>5, Zenon DEF Detail!Return, Detail!Lose
  <2>2. CASE Detail!Loaded(q) \/ Detail!LoadFails(q) \/ Detail!WriteFails(q)
    <3>1. UNCHANGED <<detailWrites, did>> /\ detailCalls' = detailCalls \ {q}
      BY <2>1, <2>2, Zenon DEF Detail!Loaded, Detail!LoadFails, Detail!WriteFails, Detail!api
    <3>. QED
      BY <3>1, IssuedRest, Zenon
  <2>. QED
    BY <2>1, <2>2, IssuedReturn, Zenon
<1>. QED
  BY <1>1, <1>2, <1>3, <1>4, <1>5, IssuedMove, IssuedServe, Zenon DEF Detail!Next

-----------------------------------------------------------------------------
\* The loyalty pages: the vouchers and the balances that were announced.

\* The balance of x that the rows P show, without rows of before.
Bal(P, x) == SumOf({r \in P : r.who = x /\ ~ r.old})

\* A punch that is stored; one for which nothing was counted.
Paid(q) == q.kind = "punch" /\ q.answer.at = "ok"
Uncounted(q) == ~ Paid(q) /\ ~ AtLock(q)

\* The requests C of x that are stored and not yet announced, and what T has announced to x.
Accepted(C, x) == {q \in C : Paid(q) /\ q.who = x}
HeardOf(T, x) == {t \in T : t.who = x}

VouchersOf(S) == SumFunctionOnSet([q \in S |-> q.answer.new], S)
VouchersTold(S) == SumFunctionOnSet([t \in S |-> t.new], S)

\* A request, by the rows P, the rewards R and the vouchers H: under the lock its
\* sum is that of the rows; before its rows are stored its vouchers are issued.
CardCall(q, P, R, H) ==
    /\ AtLock(q) => q.answer.after = SumOf(RowsWith(P, q.who)) + q.count
    /\ q.answer.at = "storing" => R[q.who] + q.answer.new <= H[q.who]
    /\ Paid(q) => q.who \in Customers /\ q.answer.new \in Nat /\ q.answer.after \in Int /\ q.answer.after <= Bal(P, q.who)

CardTold(t, P) == t.who \in Customers /\ t.new \in Nat /\ t.after \in Int /\ t.after <= Bal(P, t.who)

\* The rewards of x hold what was announced and what will be.
Promised(C, T, R, x) ==
    IsFiniteSet(Accepted(C, x)) /\ VouchersOf(Accepted(C, x)) + VouchersTold(HeardOf(T, x)) <= R[x]

PaidInv ==
    /\ \A q \in loyaltyCalls : CardCall(q, punches, rewards, chain)
    /\ chain \in [Customers -> Int] /\ \A x \in Customers : rewards[x] <= chain[x]
    /\ IsFiniteSet(loyaltyTold) /\ \A t \in loyaltyTold : CardTold(t, punches)
    /\ \A x \in Customers : Promised(loyaltyCalls, loyaltyTold, rewards, x)

LEMMA SumOfNat ==
    ASSUME NEW S, IsFiniteSet(S), \A s \in S : s.count \in Nat
    PROVE  SumOf(S) \in Nat
<1>. DEFINE h == [s \in S |-> s.count]
<1>1. \A s \in S : h[s] \in Nat
  OBVIOUS
<1>. HIDE DEF h
<1>2. SumFunctionOnSet(h, S) \in Nat
  BY <1>1, SumNat, Zenon
<1>. QED
  BY <1>2, Zenon DEF SumOf, h

LEMMA VouchersNat ==
    ASSUME NEW S, IsFiniteSet(S), \A q \in S : q.answer.new \in Nat
    PROVE  VouchersOf(S) \in Nat
<1>. DEFINE h == [q \in S |-> q.answer.new]
<1>1. \A s \in S : h[s] \in Nat
  OBVIOUS
<1>. HIDE DEF h
<1>2. SumFunctionOnSet(h, S) \in Nat
  BY <1>1, SumNat, Zenon
<1>. QED
  BY <1>2, Zenon DEF VouchersOf, h

LEMMA VouchersToldNat ==
    ASSUME NEW S, IsFiniteSet(S), \A t \in S : t.new \in Nat
    PROVE  VouchersTold(S) \in Nat
<1>. DEFINE h == [t \in S |-> t.new]
<1>1. \A s \in S : h[s] \in Nat
  OBVIOUS
<1>. HIDE DEF h
<1>2. SumFunctionOnSet(h, S) \in Nat
  BY <1>1, SumNat, Zenon
<1>. QED
  BY <1>2, Zenon DEF VouchersTold, h

\* One more request, or one more announcement.
LEMMA VouchersAdd ==
    ASSUME NEW S, IsFiniteSet(S), NEW r, r \notin S, \A q \in S \cup {r} : q.answer.new \in Nat
    PROVE  VouchersOf(S \cup {r}) = VouchersOf(S) + r.answer.new
<1>. DEFINE T == S \cup {r}
            g == [q \in T |-> q.answer.new]
            h == [q \in S |-> q.answer.new]
<1>1. SumFunctionOnSet(g, T) = SumFunctionOnSet(g, S) + g[r]
  <2>1. \A q \in T : g[q] \in Int
    OBVIOUS
  <2>. HIDE DEF g
  <2>. QED
    BY <2>1, SumAdd, Zenon
<1>2. SumFunctionOnSet(g, S) = SumFunctionOnSet(h, S)
  <2>1. \A q \in S : g[q] = h[q]
    OBVIOUS
  <2>. HIDE DEF g, h
  <2>. QED
    BY <2>1, SumSame, Zenon
<1>3. g[r] = r.answer.new
  OBVIOUS
<1>. QED
  BY <1>1, <1>2, <1>3, Zenon DEF VouchersOf

LEMMA VouchersToldAdd ==
    ASSUME NEW S, IsFiniteSet(S), NEW r, r \notin S, \A t \in S \cup {r} : t.new \in Nat
    PROVE  VouchersTold(S \cup {r}) = VouchersTold(S) + r.new
<1>. DEFINE T == S \cup {r}
            g == [t \in T |-> t.new]
            h == [t \in S |-> t.new]
<1>1. SumFunctionOnSet(g, T) = SumFunctionOnSet(g, S) + g[r]
  <2>1. \A t \in T : g[t] \in Int
    OBVIOUS
  <2>. HIDE DEF g
  <2>. QED
    BY <2>1, SumAdd, Zenon
<1>2. SumFunctionOnSet(g, S) = SumFunctionOnSet(h, S)
  <2>1. \A t \in S : g[t] = h[t]
    OBVIOUS
  <2>. HIDE DEF g, h
  <2>. QED
    BY <2>1, SumSame, Zenon
<1>3. g[r] = r.new
  OBVIOUS
<1>. QED
  BY <1>1, <1>2, <1>3, Zenon DEF VouchersTold

\* The balance, of rows that are as they should be.
LEMMA BalIs ==
    ASSUME NEW P, NEW n, RowsAre(P, n), NEW x
    PROVE  /\ Bal(P, x) \in Nat /\ SumOf(RowsWith(P, x)) \in Nat
           /\ (\A r \in P : r.who = x => ~ r.old) => Bal(P, x) = SumOf(RowsWith(P, x))
<1>. DEFINE S == {r \in P : r.who = x /\ ~ r.old}
<1>1. IsFiniteSet(P) /\ \A r \in P : r.count \in Nat
  BY Zenon DEF RowsAre
<1>2. IsFiniteSet(S) /\ IsFiniteSet(RowsWith(P, x))
  BY <1>1, FS_Subset, Zenon DEF RowsWith
<1>3. (\A r \in S : r.count \in Nat) /\ \A r \in RowsWith(P, x) : r.count \in Nat
  BY <1>1, Zenon DEF RowsWith
<1>4. SumOf(S) \in Nat /\ SumOf(RowsWith(P, x)) \in Nat
  <2>. HIDE DEF S
  <2>. QED
    BY <1>2, <1>3, SumOfNat, Zenon
<1>5. (\A r \in P : r.who = x => ~ r.old) => S = RowsWith(P, x)
  BY Zenon DEF RowsWith
<1>. QED
  BY <1>4, <1>5, Zenon DEF Bal

LEMMA BalanceIs == \A x : Loyalty!Balance(x) = Bal(punches, x)
BY TotalIsSum, Zenon DEF Loyalty!Balance, Loyalty!RowsOf, Bal

\* Moving rows takes from no balance.
LEMMA BalMoved ==
    ASSUME NEW P, NEW n, RowsAre(P, n), NEW x, NEW y
    PROVE  Bal(P, y) <= Bal(Moved(P, x), y)
<1>1. Bal(P, y) \in Nat /\ Bal(Moved(P, x), y) \in Nat
  BY BalIs, MovedKeeps, Zenon
<1>2. CASE Moved(P, x) = P
  BY <1>1, <1>2
<1>3. CASE \E o, s : RowMoves(P, x, o, s)
  <2>1. PICK o, s : /\ o \in P /\ o.who = x /\ RowsWith(P, x) = {o} /\ Moved(P, x) = (P \ {o}) \cup {s}
                    /\ s.who = x /\ s.count = o.count /\ s.old = FALSE
    BY <1>3, Zenon DEF RowMoves
  <2>2. ~ s.old
    BY <2>1, FalseIsNot, Zenon
  <2>3. \A r \in P : r.who = x => r = o
    BY <2>1, Zenon DEF RowsWith
  <2>4. PICK Q : Q = Moved(P, x)
    OBVIOUS
  <2>5. \A r : r \in Q <=> r = s \/ (r \in P /\ r # o)
    BY <2>1, <2>4, Zenon
  <2>6. CASE y # x
    <3>1. {r \in P : r.who = y /\ ~ r.old} = {r \in Q : r.who = y /\ ~ r.old}
      BY <2>1, <2>5, <2>6, Zenon
    <3>2. Bal(P, y) = Bal(Q, y)
      BY <3>1, Zenon DEF Bal
    <3>. QED
      BY <1>1, <2>4, <3>2
  <2>7. CASE y = x
    <3>1. {r \in Q : r.who = y /\ ~ r.old} = {s}
      BY <2>1, <2>2, <2>3, <2>5, <2>7, Zenon
    <3>2. {r \in P : r.who = y /\ ~ r.old} = {} \/ {r \in P : r.who = y /\ ~ r.old} = {o}
      BY <2>3, <2>7, Zenon
    <3>3. o.count \in Nat
      BY <2>1, Zenon DEF RowsAre
    <3>4. SumOf({s}) = s.count /\ SumOf({o}) = o.count
      <4>1. o.count \in Int
        BY <3>3
      <4>. QED
        BY <2>1, <4>1, SumOfOne, Zenon
    <3>5. Bal(Q, y) = o.count /\ (Bal(P, y) = 0 \/ Bal(P, y) = o.count)
      BY <2>1, <3>1, <3>2, <3>4, SumOfNone, Zenon DEF Bal
    <3>. QED
      BY <2>4, <3>3, <3>5
  <2>. QED
    BY <2>6, <2>7, Zenon
<1>. QED
  BY <1>2, <1>3, MovedIs, Zenon

\* A row that is stored adds to one balance.
LEMMA BalAdded ==
    ASSUME NEW P, NEW n, RowsAre(P, n), NEW s, s \notin P, ~ s.old, s.count \in Nat, NEW y
    PROVE  Bal(P \cup {s}, y) = IF y = s.who THEN Bal(P, y) + s.count ELSE Bal(P, y)
<1>. DEFINE S == {r \in P : r.who = y /\ ~ r.old}
            T == {r \in P \cup {s} : r.who = y /\ ~ r.old}
<1>1. IsFiniteSet(P) /\ \A r \in P : r.count \in Nat
  BY Zenon DEF RowsAre
<1>2. IsFiniteSet(S) /\ s \notin S
  BY <1>1, FS_Subset, Zenon
<1>3. \A r \in S \cup {s} : r.count \in Int
  BY <1>1
<1>4. IF y = s.who THEN T = S \cup {s} ELSE T = S
  BY Zenon
<1>5. SumOf(S \cup {s}) = SumOf(S) + s.count
  <2>. HIDE DEF S
  <2>. QED
    BY <1>2, <1>3, SumOfAdd, Zenon
<1>. QED
  BY <1>4, <1>5, Zenon DEF Bal

LEMMA PaidBegin == Loyalty!Init => PaidInv
<1>. SUFFICES ASSUME Loyalty!Init PROVE PaidInv
  OBVIOUS
<1>1. /\ punches \in SUBSET {Loyalty!OldRow(x) : x \in Customers} /\ chain = rewards /\ loyaltyTold = {}
      /\ rewards = [x \in Customers |-> IF Loyalty!OldRow(x) \in punches THEN Loyalty!OldRow(x).count \div Threshold ELSE 0]
      /\ loyaltyCalls = {[kind |-> "list", n |-> 0, mount |-> 0, heard |-> TRUE, answer |-> Loyalty!Sent]}
  BY Zenon DEF Loyalty!Init
<1>2. Threshold \in Nat \ {0}
  BY ConsoleAssumption, Zenon DEF ConsoleAssumption, Loyalty!LoyaltyAssumption
<1>3. \A x : Loyalty!OldRow(x).count = 1
  BY SMT DEF Loyalty!OldRow
<1>4. 1 \div Threshold \in Nat
  BY <1>2
<1>5. \A x \in Customers : rewards[x] \in Nat
  <2>. SUFFICES ASSUME NEW x \in Customers PROVE rewards[x] \in Nat
    OBVIOUS
  <2>1. rewards[x] = IF Loyalty!OldRow(x) \in punches THEN 1 \div Threshold ELSE 0
    BY <1>1, <1>3, Zenon
  <2>. QED
    BY <1>4, <2>1, SMT
<1>6. chain \in [Customers -> Int] /\ \A x \in Customers : rewards[x] <= chain[x]
  <2>1. \A x \in Customers : rewards[x] \in Int /\ rewards[x] <= rewards[x]
    BY <1>5
  <2>. QED
    BY <1>1, <2>1, Zenon
<1>7. ASSUME NEW q \in loyaltyCalls PROVE ~ Paid(q) /\ ~ AtLock(q) /\ q.answer.at # "storing"
  <2>1. q.kind = "list" /\ q.answer = Loyalty!Sent /\ Loyalty!Sent.at # "storing"
    BY <1>1, <1>7, SMT DEF Loyalty!Sent
  <2>2. "list" # "punch"
    BY SMT
  <2>. QED
    BY <2>1, <2>2, LoyaltyAt, Zenon DEF Paid, AtLock
<1>8. ASSUME NEW x \in Customers PROVE Promised(loyaltyCalls, loyaltyTold, rewards, x)
  <2>1. Accepted(loyaltyCalls, x) = {} /\ HeardOf(loyaltyTold, x) = {}
    BY <1>1, <1>7, Zenon DEF Accepted, HeardOf
  <2>2. VouchersOf({}) = 0 /\ VouchersTold({}) = 0
    BY SumEmpty, Zenon DEF VouchersOf, VouchersTold
  <2>3. 0 + 0 <= rewards[x]
    BY <1>5, <1>8
  <2>. QED
    BY <2>1, <2>2, <2>3, FS_EmptySet, Zenon DEF Promised
<1>9. IsFiniteSet(loyaltyTold)
  BY <1>1, FS_EmptySet, Zenon
<1>. QED
  BY <1>1, <1>6, <1>7, <1>8, <1>9, Zenon DEF PaidInv, CardCall

LEMMA PaidTells == LoyaltyInv /\ PaidInv => Loyalty!ToldAreIssued
<1>. SUFFICES ASSUME LoyaltyInv, PaidInv, NEW x \in Customers
              PROVE  VouchersTold(HeardOf(loyaltyTold, x)) <= rewards[x] /\ rewards[x] <= chain[x]
  <2>1. \A g, S : Loyalty!SumFunctionOnSet(g, S) = SumFunctionOnSet(g, S)
    BY Zenon DEF Loyalty!SumFunctionOnSet, SumFunctionOnSet, Loyalty!FoldFunctionOnSet, FoldFunctionOnSet,
           Loyalty!MapThenFoldSet, MapThenFoldSet
  <2>. QED
    BY <2>1, Zenon DEF Loyalty!ToldAreIssued, VouchersTold, HeardOf
<1>1. rewards[x] \in Int /\ rewards[x] <= chain[x]
  BY Zenon DEF LoyaltyInv, RewardsAre, PaidInv
<1>2. VouchersOf(Accepted(loyaltyCalls, x)) \in Nat
  <2>1. IsFiniteSet(Accepted(loyaltyCalls, x)) /\ \A q \in Accepted(loyaltyCalls, x) : q.answer.new \in Nat
    BY Zenon DEF PaidInv, Promised, Accepted, CardCall
  <2>. QED
    BY <2>1, VouchersNat, Zenon
<1>3. VouchersTold(HeardOf(loyaltyTold, x)) \in Nat
  <2>1. IsFiniteSet(HeardOf(loyaltyTold, x)) /\ \A t \in HeardOf(loyaltyTold, x) : t.new \in Nat
    <3>1. IsFiniteSet(loyaltyTold)
      BY Zenon DEF PaidInv
    <3>2. IsFiniteSet(HeardOf(loyaltyTold, x))
      BY <3>1, FS_Subset, Zenon DEF HeardOf
    <3>. QED
      BY <3>2, Zenon DEF PaidInv, HeardOf, CardTold
  <2>. QED
    BY <2>1, VouchersToldNat, Zenon
<1>4. VouchersOf(Accepted(loyaltyCalls, x)) + VouchersTold(HeardOf(loyaltyTold, x)) <= rewards[x]
  BY Zenon DEF PaidInv, Promised
<1>5. VouchersTold(HeardOf(loyaltyTold, x)) <= rewards[x]
  BY ONLY <1>1, <1>2, <1>3, <1>4
<1>. QED
  BY <1>1, <1>5, Zenon

\* Nothing that was counted comes, goes or changes.
LEMMA PaidRest ==
    ASSUME PaidInv, UNCHANGED <<punches, rewards, chain, loyaltyTold>>,
           \A q \in loyaltyCalls' : q \in loyaltyCalls \/ Uncounted(q),
           \A q \in loyaltyCalls : Paid(q) => q \in loyaltyCalls'
    PROVE  PaidInv'
<1>1. \A q \in loyaltyCalls' : CardCall(q, punches, rewards, chain)
  BY LoyaltyAt, Zenon DEF PaidInv, CardCall, Uncounted, AtLock
<1>2. \A x : Accepted(loyaltyCalls', x) = Accepted(loyaltyCalls, x)
  BY Zenon DEF Accepted, Uncounted
<1>3. \A x \in Customers : Promised(loyaltyCalls', loyaltyTold', rewards', x)
  BY <1>2, Zenon DEF PaidInv, Promised
<1>. QED
  BY <1>1, <1>3, Zenon DEF PaidInv

\* One request goes on, alone under the lock; nothing is announced.
LEMMA PaidServed ==
    ASSUME LoyaltyInv, PaidInv, NEW q \in loyaltyCalls, NEW r, loyaltyCalls' = (loyaltyCalls \ {q}) \cup {r},
           \A d \in loyaltyCalls : d # q => ~ AtLock(d),
           UNCHANGED <<rewards, loyaltyTold>>, ~ Paid(q), ~ Paid(r), CardCall(r, punches', rewards, chain'),
           chain' \in [Customers -> Int], \A x \in Customers : chain[x] <= chain'[x],
           NEW n, RowsAre(punches', n), \A x : Bal(punches, x) <= Bal(punches', x)
    PROVE  PaidInv'
<1>1. \A x : Bal(punches, x) \in Nat /\ Bal(punches', x) \in Nat
  BY BalIs, Zenon DEF LoyaltyInv
<1>2. \A a, b, k : a \in Int /\ b \in Nat /\ k \in Nat /\ a <= b /\ b <= k => a <= k
  BY SMT
<1>3. \A d \in loyaltyCalls : d # q => CardCall(d, punches', rewards, chain')
  BY <1>1, <1>2, LoyaltyAt, Zenon DEF PaidInv, CardCall, AtLock
<1>4. \A d \in loyaltyCalls' : CardCall(d, punches', rewards, chain')
  BY <1>3, Zenon
<1>5. \A t \in loyaltyTold : CardTold(t, punches')
  BY <1>1, <1>2, Zenon DEF PaidInv, CardTold
<1>6. \A x \in Customers : rewards[x] <= chain'[x]
  <2>. SUFFICES ASSUME NEW x \in Customers PROVE rewards[x] <= chain'[x]
    OBVIOUS
  <2>1. rewards[x] \in Int /\ chain[x] \in Int /\ chain'[x] \in Int /\ rewards[x] <= chain[x] /\ chain[x] <= chain'[x]
    BY Zenon DEF LoyaltyInv, RewardsAre, PaidInv
  <2>. QED
    BY ONLY <2>1
<1>7. \A x : Accepted(loyaltyCalls', x) = Accepted(loyaltyCalls, x)
  BY Zenon DEF Accepted
<1>8. \A x \in Customers : Promised(loyaltyCalls', loyaltyTold', rewards', x)
  BY <1>7, Zenon DEF PaidInv, Promised
<1>9. IsFiniteSet(loyaltyTold)
  BY Zenon DEF PaidInv
<1>. QED
  BY <1>4, <1>5, <1>6, <1>8, <1>9, Zenon DEF PaidInv

LEMMA OwedNat ==
    ASSUME NEW a \in Int, NEW b \in Int, Threshold \in Nat \ {0}
    PROVE  Loyalty!Owed(a, b) \in Nat
<1>1. a \div Threshold \in Int
  OBVIOUS
<1>2. PICK k : k = a \div Threshold
  OBVIOUS
<1>3. Loyalty!Owed(a, b) = IF k - b < 0 THEN 0 ELSE k - b
  BY <1>2, Zenon DEF Loyalty!Owed
<1>. QED
  BY <1>1, <1>2, <1>3

\* What a request under the lock has counted.
LEMMA LockedNumbers ==
    ASSUME LoyaltyInv, PaidInv, NEW q \in loyaltyCalls, AtLock(q)
    PROVE  /\ q.kind = "punch" /\ LoyaltyFields(q) /\ Counted(q.answer) /\ q.who \in Customers /\ q.count \in Nat
           /\ q.answer.new \in Nat /\ q.answer.after \in Nat /\ rewards[q.who] \in Int /\ ~ Paid(q)
           /\ \A d \in loyaltyCalls : d # q => ~ AtLock(d)
<1>1. LoyaltyCall(q, punches, rewards, loyaltyClicks) /\ CardCall(q, punches, rewards, chain)
  BY Zenon DEF LoyaltyInv, PaidInv
<1>2. q.kind = "punch"
  BY <1>1, LoyaltyAt, Zenon DEF LoyaltyCall, AtLock
<1>3. /\ LoyaltyFields(q) /\ LockedAs(q, punches, rewards) /\ q.who \in Customers /\ q.count \in Nat
  BY <1>1, <1>2, Zenon DEF LoyaltyCall
<1>4. SumOf(RowsWith(punches, q.who)) \in Nat
  BY BalIs, Zenon DEF LoyaltyInv
<1>5. PICK sum : sum = SumOf(RowsWith(punches, q.who)) + q.count
  OBVIOUS
<1>6. sum \in Nat /\ sum \in Int
  BY <1>3, <1>4, <1>5
<1>7. rewards[q.who] \in Int
  BY <1>3, Zenon DEF LoyaltyInv, RewardsAre
<1>8. Threshold \in Nat \ {0}
  BY ConsoleAssumption, Zenon DEF ConsoleAssumption, Loyalty!LoyaltyAssumption
<1>9. q.answer.new \in Nat
  BY <1>3, <1>5, <1>6, <1>7, <1>8, OwedNat, Zenon DEF LockedAs
<1>10. q.answer.after \in Nat
  BY <1>1, <1>5, <1>6, Zenon DEF CardCall
<1>11. ~ Paid(q)
  BY LoyaltyAt, Zenon DEF Paid, AtLock
<1>. QED
  BY <1>2, <1>3, <1>7, <1>9, <1>10, <1>11, Zenon DEF LockedAs, LoyaltyInv, OneByOne

LEMMA CountedStays ==
    ASSUME NEW a, Counted(a), NEW z
    PROVE  LET b == [a EXCEPT !.at = z] IN Counted(b) /\ b.at = z /\ b.new = a.new /\ b.after = a.after
BY SMTT(30) DEF Counted

\* An answer that counts nothing, to a request that was not stored.
LEMMA PaidSays ==
    ASSUME LoyaltyInv, PaidInv, NEW q \in loyaltyCalls, NEW a, Loyalty!Answer(q, a),
           UNCHANGED <<punches, rewards, chain, loyaltyTold>>, ~ Paid(q),
           a.at \notin {"issuing", "storing"}, q.kind = "punch" => a.at # "ok"
    PROVE  PaidInv'
<1>. DEFINE r == [q EXCEPT !.answer = a]
<1>1. LoyaltyFields(q)
  BY Zenon DEF LoyaltyInv, LoyaltyCall
<1>2. r.kind = q.kind /\ r.answer = a
  BY <1>1, LoyaltyAnswered, Zenon
<1>3. loyaltyCalls' = (loyaltyCalls \ {q}) \cup {r}
  BY Zenon DEF Loyalty!Answer
<1>. HIDE DEF r
<1>4. Uncounted(r)
  BY <1>2, Zenon DEF Uncounted, Paid, AtLock
<1>. QED
  BY <1>3, <1>4, PaidRest, Zenon

\* Under the lock the sum is taken.
LEMMA PaidCounts ==
    ASSUME LoyaltyInv, PaidInv, NEW q \in loyaltyCalls, Loyalty!Begin(q)
    PROVE  PaidInv'
<1>. DEFINE P == Moved(punches, q.who)
            sum == SumOf(RowsWith(P, q.who)) + q.count
            new == Loyalty!Owed(sum, rewards[q.who])
            a0 == [at |-> "issuing", after |-> sum, new |-> new]
<1>1. /\ q.answer.at = "waiting" /\ ~ Loyalty!Locked /\ punches' = P /\ UNCHANGED <<rewards, chain, loyaltyTold>>
      /\ Loyalty!Answer(q, Loyalty!Refused) \/ Loyalty!Answer(q, a0)
  <2>1. Loyalty!Migrated(q.who) = P
    BY Zenon DEF Loyalty!Migrated, Moved
  <2>2. Loyalty!Total({r \in Loyalty!Migrated(q.who) : r.who = q.who}) + q.count = sum
    BY <2>1, TotalIsSum, Zenon DEF RowsWith
  <2>. QED
    BY <2>1, <2>2, Zenon DEF Loyalty!Begin, Loyalty!history
<1>2. /\ LoyaltyCall(q, punches, rewards, loyaltyClicks) /\ RowsAre(punches, loyaltyClicks)
      /\ \A d \in loyaltyCalls : ~ AtLock(d)
  BY <1>1, Zenon DEF LoyaltyInv, Loyalty!Locked, AtLock
<1>3. RowsAre(P, loyaltyClicks) /\ \A y : Bal(punches, y) <= Bal(P, y)
  BY <1>2, MovedKeeps, BalMoved, Zenon
<1>. HIDE DEF P
<1>4. q.kind = "punch" /\ LoyaltyFields(q) /\ ~ Paid(q)
  <2>1. "waiting" # "ok"
    BY SMT
  <2>. QED
    BY <1>1, <1>2, <2>1, LoyaltyAt, Zenon DEF LoyaltyCall, Paid
<1>5. chain \in [Customers -> Int] /\ \A x \in Customers : chain[x] <= chain[x]
  <2>1. chain \in [Customers -> Int]
    BY Zenon DEF PaidInv
  <2>. QED
    BY <2>1, SMT
<1>6. ASSUME NEW a, Loyalty!Answer(q, a), a = Loyalty!Refused \/ a = a0 PROVE PaidInv'
  <2>. DEFINE r == [q EXCEPT !.answer = a]
  <2>1. r.kind = q.kind /\ r.answer = a /\ r.who = q.who /\ r.count = q.count
    BY <1>4, LoyaltyAnswered, Zenon
  <2>2. loyaltyCalls' = (loyaltyCalls \ {q}) \cup {r}
    BY <1>6, Zenon DEF Loyalty!Answer
  <2>. HIDE DEF r
  <2>3. a0.at = "issuing" /\ a0.after = sum
    <3>. HIDE DEF sum, new
    <3>. QED
      OBVIOUS
  <2>. HIDE DEF a0
  <2>4. a.at \notin {"ok", "storing"} /\ (a.at \in {"issuing", "storing"} => a = a0)
    <3>1. "issuing" \notin {"ok", "storing"} /\ "refused" \notin {"ok", "storing"}
      BY SMT
    <3>. QED
      BY <1>6, <2>3, <3>1, LoyaltyAt, Zenon
  <2>5. CardCall(r, P, rewards, chain) /\ ~ Paid(r)
    BY <2>1, <2>3, <2>4, Zenon DEF CardCall, AtLock, Paid
  <2>6. punches' = P /\ chain' = chain /\ UNCHANGED <<rewards, loyaltyTold>>
    BY <1>1, Zenon
  <2>. QED
    BY <1>2, <1>3, <1>4, <1>5, <2>2, <2>5, <2>6, PaidServed, Zenon
<1>. QED
  BY <1>1, <1>6, Zenon

\* The vouchers are issued before anything is stored.
LEMMA PaidIssues ==
    ASSUME LoyaltyInv, PaidInv, NEW q \in loyaltyCalls, Loyalty!IssueRewards(q)
    PROVE  PaidInv'
<1>. DEFINE x == q.who
            new == q.answer.new
<1>1. /\ AtLock(q) /\ UNCHANGED <<punches, rewards, loyaltyTold>> /\ chain' = [chain EXCEPT ![x] = @ + new]
      /\ Loyalty!Answer(q, [q.answer EXCEPT !.at = "storing"]) \/ Loyalty!Answer(q, Loyalty!Refused)
  BY LoyaltyAt, Zenon DEF Loyalty!IssueRewards, Loyalty!history, AtLock
<1>2. /\ q.kind = "punch" /\ LoyaltyFields(q) /\ Counted(q.answer) /\ x \in Customers
      /\ new \in Nat /\ rewards[x] \in Int /\ ~ Paid(q) /\ \A d \in loyaltyCalls : d # q => ~ AtLock(d)
  BY <1>1, LockedNumbers, Zenon
<1>3. chain \in [Customers -> Int] /\ rewards[x] <= chain[x] /\ CardCall(q, punches, rewards, chain)
  BY <1>2, Zenon DEF PaidInv
<1>4. PICK H : H = chain'
  OBVIOUS
<1>5. H = [chain EXCEPT ![x] = chain[x] + new]
  BY <1>1, <1>4, Zenon
<1>. HIDE DEF x, new
<1>6. /\ H \in [Customers -> Int] /\ (\A y \in Customers : chain[y] <= H[y]) /\ rewards[x] + new <= H[x]
  BY ONLY <1>2, <1>3, <1>5
<1>7. RowsAre(punches, loyaltyClicks) /\ \A y : Bal(punches, y) <= Bal(punches, y)
  <2>1. RowsAre(punches, loyaltyClicks)
    BY Zenon DEF LoyaltyInv
  <2>2. \A y : Bal(punches, y) \in Nat
    BY <2>1, BalIs, Zenon
  <2>. QED
    BY <2>1, <2>2, SMT
<1>8. ASSUME NEW a, Loyalty!Answer(q, a),
             a = Loyalty!Refused \/ (a.at = "storing" /\ a.new = q.answer.new /\ a.after = q.answer.after) PROVE PaidInv'
  <2>. DEFINE r == [q EXCEPT !.answer = a]
  <2>1. r.kind = q.kind /\ r.answer = a /\ r.who = q.who /\ r.count = q.count
    BY <1>2, LoyaltyAnswered, Zenon
  <2>2. loyaltyCalls' = (loyaltyCalls \ {q}) \cup {r}
    BY <1>8, Zenon DEF Loyalty!Answer
  <2>. HIDE DEF r
  <2>3. "ok" # "storing" /\ "ok" # "refused" /\ "storing" # "refused"
    BY SMT
  <2>4. CardCall(r, punches, rewards, H) /\ ~ Paid(r)
    BY <1>1, <1>3, <1>6, <1>8, <2>1, <2>3, LoyaltyAt, Zenon DEF CardCall, AtLock, Paid, x, new
  <2>5. punches' = punches /\ chain' = H /\ UNCHANGED <<rewards, loyaltyTold>>
    BY <1>1, <1>4, Zenon
  <2>. QED
    BY <1>2, <1>6, <1>7, <2>2, <2>4, <2>5, PaidServed, Zenon
<1>9. CASE Loyalty!Answer(q, Loyalty!Refused)
  BY <1>8, <1>9, Zenon
<1>10. CASE Loyalty!Answer(q, [q.answer EXCEPT !.at = "storing"])
  <2>1. PICK a : a = [q.answer EXCEPT !.at = "storing"]
    OBVIOUS
  <2>2. a.at = "storing" /\ a.new = q.answer.new /\ a.after = q.answer.after
    BY ONLY <1>2, <2>1, CountedStays, Zenon
  <2>. QED
    BY <1>8, <1>10, <2>1, <2>2, Zenon
<1>. QED
  BY <1>1, <1>9, <1>10, Zenon

\* A punch that is stored, by the numbers it changes.
LEMMA StoredIs ==
    ASSUME LoyaltyInv, PaidInv, NEW q \in loyaltyCalls, q.answer.at = "storing", Loyalty!Stored(q),
           Loyalty!Answer(q, [q.answer EXCEPT !.at = "ok"])
    PROVE  \E r : /\ loyaltyCalls' = (loyaltyCalls \ {q}) \cup {r} /\ r.kind = "punch" /\ r.who = q.who /\ r.n = q.n
                  /\ Paid(r) /\ r.answer.new = q.answer.new /\ r.answer.after = q.answer.after
                  /\ \A x : Bal(punches', x) = IF x = q.who THEN Bal(punches, x) + q.count ELSE Bal(punches, x)
                  /\ Bal(punches', q.who) = q.answer.after
<1>1. AtLock(q)
  BY LoyaltyAt, Zenon DEF AtLock
<1>2. /\ q.kind = "punch" /\ LoyaltyFields(q) /\ Counted(q.answer) /\ q.who \in Customers /\ q.count \in Nat
  BY <1>1, LockedNumbers, Zenon
<1>3. /\ LockedAs(q, punches, rewards) /\ (\A r \in punches : r.n # q.n) /\ RowsAre(punches, loyaltyClicks)
      /\ q.answer.after = SumOf(RowsWith(punches, q.who)) + q.count
  <2>1. LoyaltyCall(q, punches, rewards, loyaltyClicks) /\ CardCall(q, punches, rewards, chain) /\ RowsAre(punches, loyaltyClicks)
    BY Zenon DEF LoyaltyInv, PaidInv
  <2>2. UnderWay(q)
    BY <1>1, LoyaltyAt, Zenon DEF UnderWay, AtLock
  <2>. QED
    BY <1>1, <1>2, <2>1, <2>2, Zenon DEF LoyaltyCall, CardCall
<1>4. PICK s : s = [n |-> q.n, who |-> q.who, count |-> q.count, event |-> q.event, old |-> FALSE]
  OBVIOUS
<1>5. s.n = q.n /\ s.who = q.who /\ s.count = q.count /\ s.old = FALSE
  BY ONLY <1>4
<1>6. ~ s.old
  BY <1>5, FalseIsNot, Zenon
<1>7. punches' = punches \cup {s} /\ s \notin punches
  BY <1>3, <1>4, <1>5, Zenon DEF Loyalty!Stored
<1>8. \A x : Bal(punches', x) = IF x = q.who THEN Bal(punches, x) + q.count ELSE Bal(punches, x)
  <2>1. \A x : Bal(punches \cup {s}, x) = IF x = s.who THEN Bal(punches, x) + s.count ELSE Bal(punches, x)
    <3>1. s.count \in Nat
      BY <1>2, <1>5, Zenon
    <3>. QED
      BY <1>3, <1>6, <1>7, <3>1, BalAdded, Zenon
  <2>2. punches' = punches \cup {s}
    BY <1>7, Zenon
  <2>. QED
    BY ONLY <1>5, <2>1, <2>2, Zenon
<1>9. Bal(punches', q.who) = q.answer.after
  <2>1. Bal(punches, q.who) = SumOf(RowsWith(punches, q.who))
    <3>1. \A r \in punches : r.who = q.who => ~ r.old
      BY <1>3, Zenon DEF LockedAs
    <3>. QED
      BY <1>3, <3>1, BalIs, Zenon
  <2>. QED
    BY <1>3, <1>8, <2>1, Zenon
<1>10. PICK a : a = [q.answer EXCEPT !.at = "ok"]
  OBVIOUS
<1>11. a.at = "ok" /\ a.new = q.answer.new /\ a.after = q.answer.after
  BY ONLY <1>2, <1>10, CountedStays, Zenon
<1>12. PICK r : r = [q EXCEPT !.answer = a]
  OBVIOUS
<1>13. r.kind = q.kind /\ r.n = q.n /\ r.answer = a /\ r.who = q.who
  BY ONLY <1>2, <1>12, LoyaltyAnswered, Zenon
<1>14. loyaltyCalls' = (loyaltyCalls \ {q}) \cup {r}
  BY <1>10, <1>12, Zenon DEF Loyalty!Answer
<1>. QED
  BY <1>2, <1>8, <1>9, <1>11, <1>13, <1>14, Zenon DEF Paid

LEMMA PaidStores ==
    ASSUME LoyaltyInv, PaidInv, NEW q \in loyaltyCalls, q.answer.at = "storing", Loyalty!Stored(q),
           Loyalty!Answer(q, [q.answer EXCEPT !.at = "ok"]), UNCHANGED <<chain, loyaltyTold>>
    PROVE  PaidInv'
<1>1. AtLock(q)
  BY LoyaltyAt, Zenon DEF AtLock
<1>. DEFINE x == q.who
            new == q.answer.new
<1>2. /\ q.kind = "punch" /\ x \in Customers /\ q.count \in Nat /\ new \in Nat /\ q.answer.after \in Nat
      /\ rewards[x] \in Int /\ ~ Paid(q) /\ \A d \in loyaltyCalls : d # q => ~ AtLock(d)
  BY <1>1, LockedNumbers, Zenon
<1>3. PICK r : /\ loyaltyCalls' = (loyaltyCalls \ {q}) \cup {r} /\ r.kind = "punch" /\ r.who = q.who /\ r.n = q.n
               /\ Paid(r) /\ r.answer.new = q.answer.new /\ r.answer.after = q.answer.after
               /\ \A y : Bal(punches', y) = IF y = q.who THEN Bal(punches, y) + q.count ELSE Bal(punches, y)
               /\ Bal(punches', q.who) = q.answer.after
  BY StoredIs, Zenon
<1>4. \A y : Bal(punches, y) \in Nat /\ Bal(punches', y) \in Nat /\ Bal(punches, y) <= Bal(punches', y)
  <2>. SUFFICES ASSUME NEW y PROVE Bal(punches, y) \in Nat /\ Bal(punches', y) \in Nat /\ Bal(punches, y) <= Bal(punches', y)
    OBVIOUS
  <2>1. Bal(punches, y) \in Nat
    BY BalIs, Zenon DEF LoyaltyInv
  <2>2. Bal(punches', y) = Bal(punches, y) + q.count \/ Bal(punches', y) = Bal(punches, y)
    BY <1>3, Zenon
  <2>. QED
    BY ONLY <1>2, <2>1, <2>2
<1>5. PICK R : R = rewards'
  OBVIOUS
<1>6. R = [rewards EXCEPT ![x] = rewards[x] + new]
  BY <1>5, Zenon DEF Loyalty!Stored
<1>7. /\ rewards \in [Customers -> Int] /\ chain \in [Customers -> Int] /\ (\A y \in Customers : rewards[y] <= chain[y])
      /\ rewards[x] + new <= chain[x]
  BY Zenon DEF LoyaltyInv, RewardsAre, PaidInv, CardCall
<1>. HIDE DEF x, new
<1>8. R[x] = rewards[x] + new /\ (\A y \in Customers : R[y] <= chain[y]) /\ \A y \in Customers : y # x => R[y] = rewards[y]
  BY ONLY <1>2, <1>6, <1>7
<1>9. \A a, b, k : a \in Int /\ b \in Nat /\ k \in Nat /\ a <= b /\ b <= k => a <= k
  BY SMT
<1>10. ASSUME NEW d \in loyaltyCalls' PROVE CardCall(d, punches', R, chain)
  <2>1. CASE d = r
    <3>1. r.answer.at = "ok" /\ "ok" # "storing"
      BY <1>3, SMT DEF Paid
    <3>2. r.answer.after \in Int /\ r.answer.after <= Bal(punches', r.who)
      <4>1. r.answer.after = Bal(punches', r.who) /\ r.answer.after \in Nat
        BY <1>2, <1>3, Zenon
      <4>. QED
        BY ONLY <4>1
    <3>. QED
      BY <1>2, <1>3, <2>1, <3>1, <3>2, LoyaltyAt, Zenon DEF CardCall, AtLock, x, new
  <2>2. CASE d \in loyaltyCalls /\ d # q
    <3>1. ~ AtLock(d) /\ CardCall(d, punches, rewards, chain)
      BY <1>2, <2>2, Zenon DEF PaidInv
    <3>. QED
      BY <1>4, <1>9, <3>1, LoyaltyAt, Zenon DEF CardCall, AtLock
  <2>. QED
    BY <1>3, <1>10, <2>1, <2>2, Zenon
<1>11. \A t \in loyaltyTold : CardTold(t, punches')
  BY <1>4, <1>9, Zenon DEF PaidInv, CardTold
<1>12. ASSUME NEW y \in Customers PROVE Promised(loyaltyCalls', loyaltyTold, R, y)
  <2>1. Promised(loyaltyCalls, loyaltyTold, rewards, y)
    BY Zenon DEF PaidInv
  <2>2. CASE y # x
    <3>1. Accepted(loyaltyCalls', y) = Accepted(loyaltyCalls, y)
      BY <1>2, <1>3, <2>2, Zenon DEF Accepted, x
    <3>. QED
      BY <1>8, <2>1, <2>2, <3>1, Zenon DEF Promised
  <2>3. CASE y = x
    <3>. DEFINE A == Accepted(loyaltyCalls, x)
                T == HeardOf(loyaltyTold, x)
    <3>1. Accepted(loyaltyCalls', x) = A \cup {r}
      BY <1>2, <1>3, Zenon DEF Accepted, x
    <3>2. r \notin A
      <4>1. ASSUME r \in loyaltyCalls PROVE FALSE
        <5>1. r = q
          BY <1>2, <1>3, <4>1, Zenon DEF LoyaltyInv, OneByOne
        <5>. QED
          BY <1>2, <1>3, <5>1, Zenon
      <4>. QED
        BY <4>1, Zenon DEF Accepted
    <3>3. IsFiniteSet(A) /\ VouchersOf(A) + VouchersTold(T) <= rewards[x]
      BY <2>1, <2>3, Zenon DEF Promised
    <3>4. \A d \in A \cup {r} : d.answer.new \in Nat
      BY <1>2, <1>3, Zenon DEF PaidInv, CardCall, Accepted, new
    <3>. HIDE DEF A
    <3>5. VouchersOf(A \cup {r}) = VouchersOf(A) + r.answer.new /\ IsFiniteSet(A \cup {r})
      BY <3>2, <3>3, <3>4, VouchersAdd, FS_AddElement, Zenon
    <3>6. VouchersOf(A) \in Nat
      BY <3>3, <3>4, VouchersNat, Zenon
    <3>7. VouchersTold(T) \in Nat
      <4>1. IsFiniteSet(T) /\ \A t \in T : t.new \in Nat
        <5>1. IsFiniteSet(loyaltyTold)
          BY Zenon DEF PaidInv
        <5>2. IsFiniteSet(T)
          BY <5>1, FS_Subset, Zenon DEF HeardOf
        <5>. QED
          BY <5>2, Zenon DEF PaidInv, HeardOf, CardTold
      <4>. QED
        BY <4>1, VouchersToldNat, Zenon
    <3>8. VouchersOf(A \cup {r}) + VouchersTold(T) <= R[x]
      <4>1. r.answer.new = new
        BY <1>3, Zenon DEF new
      <4>. HIDE DEF T
      <4>. QED
        BY ONLY <1>2, <1>8, <3>3, <3>5, <3>6, <3>7, <4>1
    <3>. QED
      BY <2>3, <3>1, <3>5, <3>8, Zenon DEF Promised
  <2>. QED
    BY <2>2, <2>3, Zenon
<1>13. chain' = chain /\ loyaltyTold' = loyaltyTold /\ IsFiniteSet(loyaltyTold)
  BY Zenon DEF PaidInv
<1>. QED
  BY <1>5, <1>7, <1>8, <1>10, <1>11, <1>12, <1>13, Zenon DEF PaidInv

\* A punch that is announced, t, is no longer promised.
LEMMA PaidRecorded ==
    ASSUME LoyaltyInv, PaidInv, NEW q \in loyaltyCalls, Loyalty!Recorded(q)
    PROVE  PaidInv'
<1>. DEFINE l == [kind |-> "program", n |-> loyaltyLoads + 1, mount |-> q.mount, heard |-> TRUE, answer |-> Loyalty!Sent]
<1>1. /\ Paid(q) /\ UNCHANGED <<punches, rewards, chain>> /\ loyaltyCalls' = (loyaltyCalls \ {q}) \cup {l}
      /\ loyaltyTold' = loyaltyTold \cup {[mount |-> q.mount, who |-> q.who, after |-> q.answer.after, new |-> q.answer.new]}
  BY Zenon DEF Loyalty!Recorded, Loyalty!Reload, Loyalty!Rest, Loyalty!api, Paid
<1>2. PICK t : /\ t = [mount |-> q.mount, who |-> q.who, after |-> q.answer.after, new |-> q.answer.new]
               /\ loyaltyTold' = loyaltyTold \cup {t}
  BY <1>1, Zenon
<1>3. t.who = q.who /\ t.after = q.answer.after /\ t.new = q.answer.new
  BY ONLY <1>2
<1>4. ~ Paid(l) /\ ~ AtLock(l) /\ l.answer.at # "storing"
  <2>1. l.kind = "program" /\ l.answer = Loyalty!Sent /\ "program" # "punch" /\ Loyalty!Sent.at # "storing"
    BY SMT DEF Loyalty!Sent
  <2>. QED
    BY <2>1, LoyaltyAt, Zenon DEF Paid, AtLock
<1>. HIDE DEF l
<1>5. \A d \in loyaltyCalls' : CardCall(d, punches, rewards, chain)
  BY <1>1, <1>4, Zenon DEF PaidInv, CardCall
<1>6. CardCall(q, punches, rewards, chain) /\ IsFiniteSet(loyaltyTold) /\ \A d \in loyaltyTold : CardTold(d, punches)
  BY Zenon DEF PaidInv
<1>7. CardTold(t, punches)
  BY <1>1, <1>3, <1>6, Zenon DEF CardCall, CardTold
<1>8. \A d \in loyaltyTold' : CardTold(d, punches)
  BY <1>2, <1>6, <1>7, Zenon
<1>9. IsFiniteSet(loyaltyTold')
  BY <1>2, <1>6, FS_AddElement, Zenon
<1>10. ASSUME NEW x \in Customers PROVE Promised(loyaltyCalls', loyaltyTold', rewards, x)
  <2>. DEFINE A == Accepted(loyaltyCalls, x)
              T == HeardOf(loyaltyTold, x)
  <2>1. IsFiniteSet(A) /\ VouchersOf(A) + VouchersTold(T) <= rewards[x] /\ rewards[x] \in Int
    BY Zenon DEF PaidInv, Promised, LoyaltyInv, RewardsAre
  <2>2. CASE q.who # x
    <3>1. Accepted(loyaltyCalls', x) = A /\ HeardOf(loyaltyTold', x) = T
      BY <1>1, <1>2, <1>3, <1>4, <2>2, Zenon DEF Accepted, HeardOf
    <3>. QED
      BY <2>1, <3>1, Zenon DEF Promised
  <2>3. CASE q.who = x
    <3>1. q \in A /\ Accepted(loyaltyCalls', x) = A \ {q}
      BY <1>1, <1>4, <2>3, Zenon DEF Accepted
    <3>2. HeardOf(loyaltyTold', x) = T \cup {t}
      BY <1>2, <1>3, <2>3, Zenon DEF HeardOf
    <3>3. \A d \in A : d.answer.new \in Nat
      BY Zenon DEF PaidInv, CardCall, Accepted
    <3>4. IsFiniteSet(T) /\ \A d \in T \cup {t} : d.new \in Nat
      <4>1. IsFiniteSet(T)
        BY <1>6, FS_Subset, Zenon DEF HeardOf
      <4>. QED
        BY <1>6, <1>7, <4>1, Zenon DEF HeardOf, CardTold
    <3>. HIDE DEF A, T
    <3>5. IsFiniteSet(A \ {q}) /\ (A \ {q}) \cup {q} = A /\ q \notin A \ {q}
      BY <2>1, <3>1, FS_RemoveElement, Zenon
    <3>6. VouchersOf(A) = VouchersOf(A \ {q}) + q.answer.new
      <4>1. \A d \in (A \ {q}) \cup {q} : d.answer.new \in Nat
        BY <3>1, <3>3, Zenon
      <4>2. VouchersOf((A \ {q}) \cup {q}) = VouchersOf(A \ {q}) + q.answer.new
        BY <3>5, <4>1, VouchersAdd, Zenon
      <4>. QED
        BY <3>5, <4>2, Zenon
    <3>7. VouchersOf(A \ {q}) \in Nat /\ VouchersTold(T) \in Nat /\ q.answer.new \in Nat
      BY <3>1, <3>3, <3>4, <3>5, VouchersNat, VouchersToldNat, Zenon
    <3>8. VouchersTold(T \cup {t}) = VouchersTold(T) \/ VouchersTold(T \cup {t}) = VouchersTold(T) + q.answer.new
      <4>1. CASE t \in T
        <5>1. T \cup {t} = T
          BY <4>1, Zenon
        <5>. QED
          BY <5>1, Zenon
      <4>2. CASE t \notin T
        <5>1. VouchersTold(T \cup {t}) = VouchersTold(T) + t.new
          BY ONLY <3>4, <4>2, VouchersToldAdd, Zenon
        <5>. QED
          BY <1>3, <5>1, Zenon
      <4>. QED
        BY <4>1, <4>2, Zenon
    <3>9. VouchersOf(A \ {q}) + VouchersTold(T \cup {t}) <= rewards[x]
      BY ONLY <2>1, <3>6, <3>7, <3>8
    <3>. QED
      BY <3>1, <3>2, <3>5, <3>9, Zenon DEF Promised
  <2>. QED
    BY <2>2, <2>3, Zenon
<1>. QED
  BY <1>1, <1>5, <1>6, <1>8, <1>9, <1>10, Zenon DEF PaidInv

\* A request that breaks is what it was, unheard.
LEMMA PaidLost ==
    ASSUME LoyaltyInv, PaidInv, NEW q \in loyaltyCalls, Loyalty!Lose(q)
    PROVE  PaidInv'
<1>. DEFINE r == [q EXCEPT !.heard = FALSE]
<1>1. LoyaltyFields(q) /\ q.kind = "punch"
  BY Zenon DEF LoyaltyInv, LoyaltyCall, Loyalty!Lose
<1>2. r.kind = q.kind /\ r.n = q.n /\ r.answer = q.answer /\ r.who = q.who /\ r.count = q.count
  BY <1>1, LoyaltyHeard, Zenon
<1>3. loyaltyCalls' = (loyaltyCalls \ {q}) \cup {r} /\ UNCHANGED <<punches, rewards, chain, loyaltyTold>>
  BY Zenon DEF Loyalty!Lose, Loyalty!Rest, Loyalty!api, Loyalty!history
<1>. HIDE DEF r
<1>4. \A d \in loyaltyCalls : CardCall(d, punches, rewards, chain)
  BY Zenon DEF PaidInv
<1>5. CardCall(r, punches, rewards, chain)
  BY <1>2, <1>4, Zenon DEF CardCall, AtLock, Paid
<1>6. \A d \in loyaltyCalls' : CardCall(d, punches, rewards, chain)
  BY <1>3, <1>4, <1>5, Zenon
<1>7. ASSUME NEW x \in Customers PROVE Promised(loyaltyCalls', loyaltyTold, rewards, x)
  <2>. DEFINE A == Accepted(loyaltyCalls, x)
  <2>1. IsFiniteSet(A) /\ VouchersOf(A) + VouchersTold(HeardOf(loyaltyTold, x)) <= rewards[x]
    BY Zenon DEF PaidInv, Promised
  <2>2. CASE ~ (Paid(q) /\ q.who = x)
    <3>1. Accepted(loyaltyCalls', x) = A
      BY <1>2, <1>3, <2>2, Zenon DEF Accepted, Paid
    <3>. QED
      BY <2>1, <3>1, Zenon DEF Promised
  <2>3. CASE Paid(q) /\ q.who = x
    <3>. DEFINE B == A \ {q}
    <3>1. q \in A /\ A = B \cup {q} /\ Accepted(loyaltyCalls', x) = B \cup {r}
      BY <1>2, <1>3, <2>3, Zenon DEF Accepted, Paid
    <3>2. q \notin B /\ IsFiniteSet(B)
      BY <2>1, FS_RemoveElement, Zenon
    <3>3. \A d \in A : d \in loyaltyCalls /\ d.answer.new \in Nat
      BY <1>4, Zenon DEF CardCall, Accepted
    <3>4. r \notin B
      <4>1. ASSUME r \in loyaltyCalls PROVE r = q
        BY <1>1, <1>2, <4>1, Zenon DEF LoyaltyInv, OneByOne
      <4>. QED
        BY <3>3, <4>1, Zenon
    <3>5. (\A d \in B \cup {q} : d.answer.new \in Nat) /\ \A d \in B \cup {r} : d.answer.new \in Nat
      BY <1>2, <3>1, <3>3, Zenon
    <3>. HIDE DEF A, B
    <3>6. VouchersOf(B \cup {q}) = VouchersOf(B) + q.answer.new /\ VouchersOf(B \cup {r}) = VouchersOf(B) + r.answer.new
      BY <3>2, <3>4, <3>5, VouchersAdd, Zenon
    <3>7. VouchersOf(B \cup {r}) = VouchersOf(A)
      BY <1>2, <3>1, <3>6, Zenon
    <3>8. IsFiniteSet(B \cup {r})
      BY <3>2, FS_AddElement, Zenon
    <3>. QED
      BY <2>1, <3>1, <3>7, <3>8, Zenon DEF Promised
  <2>. QED
    BY <2>2, <2>3, Zenon
<1>8. /\ chain \in [Customers -> Int] /\ (\A x \in Customers : rewards[x] <= chain[x])
      /\ IsFiniteSet(loyaltyTold) /\ \A t \in loyaltyTold : CardTold(t, punches)
  BY Zenon DEF PaidInv
<1>. QED
  BY <1>3, <1>6, <1>7, <1>8, Zenon DEF PaidInv

LEMMA PaidKept == LoyaltyInv /\ PaidInv /\ (Loyalty!Next \/ UNCHANGED loyaltyVars) => PaidInv'
<1>. SUFFICES ASSUME LoyaltyInv, PaidInv, Loyalty!Next \/ UNCHANGED loyaltyVars PROVE PaidInv'
  OBVIOUS
<1>. DEFINE asks(k, n, m) == [kind |-> k, n |-> n, mount |-> m, heard |-> TRUE, answer |-> Loyalty!Sent]
            Same == UNCHANGED <<punches, rewards, chain, loyaltyTold>>
<1>1. \A k \in {"list", "program"} : \A n, m : Uncounted(asks(k, n, m))
  <2>. SUFFICES ASSUME NEW k \in {"list", "program"}, NEW n, NEW m PROVE Uncounted(asks(k, n, m))
    OBVIOUS
  <2>1. asks(k, n, m).kind = k /\ asks(k, n, m).answer = Loyalty!Sent /\ k # "punch"
    BY SMT
  <2>. HIDE DEF asks
  <2>. QED
    BY <2>1, LoyaltyAt, Zenon DEF Uncounted, Paid, AtLock
<1>. HIDE DEF asks
<1>2. "list" \in {"list", "program"} /\ "program" \in {"list", "program"} /\ "refused" # "ok" /\ "waiting" # "ok" /\ "sent" # "ok"
  BY SMT
\* A load comes, and perhaps a request q that was not stored goes.
<1>3. ASSUME NEW k \in {"list", "program"}, NEW n, NEW m, NEW q, ~ Paid(q), Same,
             \/ loyaltyCalls' = loyaltyCalls \/ loyaltyCalls' = loyaltyCalls \ {q}
             \/ loyaltyCalls' = loyaltyCalls \cup {asks(k, n, m)} \/ loyaltyCalls' = (loyaltyCalls \ {q}) \cup {asks(k, n, m)}
      PROVE PaidInv'
  <2>1. PICK l : l = asks(k, n, m) /\ Uncounted(l)
    BY <1>1, Zenon
  <2>2. \A d \in loyaltyCalls' : d \in loyaltyCalls \/ Uncounted(d)
    BY <1>3, <2>1, Zenon
  <2>3. \A d \in loyaltyCalls : Paid(d) => d \in loyaltyCalls'
    BY <1>3, Zenon
  <2>. QED
    BY <1>3, <2>2, <2>3, PaidRest, Zenon
<1>4. CASE UNCHANGED loyaltyVars \/ Loyalty!OpenForm \/ Loyalty!CloseForm \/ Loyalty!CloseProgram
  <2>1. Same /\ loyaltyCalls' = loyaltyCalls
    BY <1>4, Zenon DEF loyaltyVars, Loyalty!OpenForm, Loyalty!CloseForm, Loyalty!CloseProgram, Loyalty!api, Loyalty!history
  <2>. QED
    BY <2>1, PaidRest, Zenon
<1>5. ASSUME NEW k \in {"list", "program"}, Loyalty!Goto(k) PROVE PaidInv'
  <2>1. Same /\ loyaltyCalls' = loyaltyCalls \cup {asks(k, loyaltyLoads + 1, loyaltyMount + 1)}
    BY <1>5, Zenon DEF Loyalty!Goto, Loyalty!Mount, Loyalty!Load, Loyalty!api, asks
  <2>2. PICK l : l = asks(k, loyaltyLoads + 1, loyaltyMount + 1) /\ Uncounted(l)
    BY <1>1, Zenon
  <2>. QED
    BY <2>1, <2>2, PaidRest, Zenon
<1>6. ASSUME NEW q \in loyaltyCalls, Loyalty!Loaded(q) \/ Loyalty!LoadFails(q) \/ Loyalty!RecordFails(q) PROVE PaidInv'
  <2>1. ~ Paid(q)
    BY <1>2, <1>6, LoyaltyAt, Zenon DEF Loyalty!Loaded, Loyalty!LoadFails, Loyalty!RecordFails, Paid
  <2>2. Same
    BY <1>6, Zenon DEF Loyalty!Loaded, Loyalty!LoadFails, Loyalty!RecordFails, Loyalty!api, Loyalty!history
  <2>3. \/ loyaltyCalls' = loyaltyCalls \ {q}
        \/ loyaltyCalls' = (loyaltyCalls \ {q}) \cup {asks("list", loyaltyLoads + 1, loyaltyMount + 1)}
    BY <1>6, Zenon DEF Loyalty!Loaded, Loyalty!LoadFails, Loyalty!RecordFails, Loyalty!Rest, asks
  <2>. QED
    BY <1>2, <1>3, <2>1, <2>2, <2>3, Zenon
<1>7. CASE Loyalty!Restart
  <2>. DEFINE ends(q) == IF q.answer.at \in {"waiting", "issuing", "storing"} THEN [q EXCEPT !.answer = Loyalty!Refused] ELSE q
  <2>1. loyaltyCalls' = {ends(q) : q \in loyaltyCalls} /\ Same
    BY <1>7, Zenon DEF Loyalty!Restart, Loyalty!api, Loyalty!history
  <2>2. \A q \in loyaltyCalls : LoyaltyFields(q)
    BY Zenon DEF LoyaltyInv, LoyaltyCall
  <2>3. ASSUME NEW q \in loyaltyCalls PROVE (ends(q) = q \/ Uncounted(ends(q))) /\ (Paid(q) => ends(q) = q)
    <3>1. CASE q.answer.at \in {"waiting", "issuing", "storing"}
      <4>1. PICK r : r = [q EXCEPT !.answer = Loyalty!Refused]
        OBVIOUS
      <4>2. ends(q) = r
        BY <3>1, <4>1, Zenon
      <4>3. r.answer = Loyalty!Refused
        BY ONLY <2>2, <2>3, <4>1, LoyaltyAnswered, Zenon
      <4>4. Uncounted(r) /\ ~ Paid(q)
        BY <1>2, <3>1, <4>3, LoyaltyAt, Zenon DEF Uncounted, Paid, AtLock
      <4>. QED
        BY <4>2, <4>4, Zenon
    <3>2. CASE q.answer.at \notin {"waiting", "issuing", "storing"}
      BY <3>2, Zenon
    <3>. QED
      BY <3>1, <3>2, Zenon
  <2>. HIDE DEF ends
  <2>4. \A d \in loyaltyCalls' : d \in loyaltyCalls \/ Uncounted(d)
    BY <2>1, <2>3, Zenon
  <2>5. \A d \in loyaltyCalls : Paid(d) => d \in loyaltyCalls'
    BY <2>1, <2>3, Zenon
  <2>. QED
    BY <2>1, <2>4, <2>5, PaidRest, Zenon
<1>8. ASSUME NEW x, NEW ev, NEW count, Loyalty!Record(x, ev, count) PROVE PaidInv'
  <2>. DEFINE p == [kind |-> "punch", n |-> loyaltyClicks + 1, mount |-> loyaltyMount, heard |-> TRUE,
                    form |-> loyaltyForm, who |-> x, event |-> ev, count |-> count, answer |-> Loyalty!Sent]
  <2>1. Same /\ (loyaltyCalls' = loyaltyCalls \/ loyaltyCalls' = loyaltyCalls \cup {p})
    BY <1>8, Zenon DEF Loyalty!Record, Loyalty!api, Loyalty!history
  <2>2. p.answer = Loyalty!Sent
    OBVIOUS
  <2>. HIDE DEF p
  <2>3. Uncounted(p)
    BY <1>2, <2>2, LoyaltyAt, Zenon DEF Uncounted, Paid, AtLock
  <2>4. \A d \in loyaltyCalls' : d \in loyaltyCalls \/ Uncounted(d)
    BY <2>1, <2>3, Zenon
  <2>5. \A d \in loyaltyCalls : Paid(d) => d \in loyaltyCalls'
    BY <2>1, Zenon
  <2>. QED
    BY <2>1, <2>4, <2>5, PaidRest, Zenon
<1>9. ASSUME NEW q \in loyaltyCalls, Loyalty!ServeLoad(q) PROVE PaidInv'
  <2>1. PICK a : a.at = "ok" /\ Loyalty!Answer(q, a) /\ Same
    <3>1. \A x, y : [at |-> "ok", punches |-> x, rewards |-> y].at = "ok"
      OBVIOUS
    <3>. QED
      BY <1>9, <3>1, Zenon DEF Loyalty!ServeLoad, Loyalty!api, Loyalty!history
  <2>2. q.kind # "punch" /\ ~ Paid(q)
    BY <1>9, Zenon DEF Loyalty!ServeLoad, Paid
  <2>. QED
    BY <2>1, <2>2, LoyaltyAt, PaidSays, Zenon
<1>10. ASSUME NEW q \in loyaltyCalls, Loyalty!Admit(q) \/ Loyalty!BeginFails(q) PROVE PaidInv'
  <2>1. Same /\ ~ Paid(q)
    BY <1>2, <1>10, LoyaltyAt, Zenon DEF Loyalty!Admit, Loyalty!BeginFails, Loyalty!api, Loyalty!history, Paid
  <2>2. PICK a : Loyalty!Answer(q, a) /\ a.at \in {"refused", "waiting"}
    <3>1. [at |-> "waiting"].at = "waiting"
      OBVIOUS
    <3>. QED
      BY <1>10, <3>1, LoyaltyAt, Zenon DEF Loyalty!Admit, Loyalty!BeginFails
  <2>3. a.at \notin {"issuing", "storing"} /\ a.at # "ok"
    BY <1>2, <2>2, LoyaltyAt, Zenon
  <2>. QED
    BY <2>1, <2>2, <2>3, PaidSays, Zenon
<1>11. ASSUME NEW q \in loyaltyCalls, Loyalty!Store(q) PROVE PaidInv'
  <2>1. q.answer.at = "storing" /\ UNCHANGED <<chain, loyaltyTold>> /\ "storing" # "ok"
    BY <1>11, SMT DEF Loyalty!Store, Loyalty!history
  <2>2. CASE Loyalty!Answer(q, Loyalty!Refused) /\ UNCHANGED <<punches, rewards>>
    BY <1>2, <2>1, <2>2, LoyaltyAt, PaidSays, Zenon DEF Paid
  <2>. QED
    BY <1>11, <2>1, <2>2, PaidStores, Zenon DEF Loyalty!Store
<1>. QED
  BY <1>4, <1>5, <1>6, <1>7, <1>8, <1>9, <1>10, <1>11, PaidCounts, PaidIssues, PaidRecorded, PaidLost, Zenon DEF Loyalty!Next

\* A load of the program by mount m.
LoadOf(q, m) == q.kind = "program" /\ q.mount = m

\* A request of the page p, which is mount m, or of an earlier page.
AskedBy(q, p, m) ==
    q.mount \in 0..m /\ (q.mount = m => p = IF q.kind = "punch" THEN "program" ELSE q.kind)

\* What was announced to the page p, mount m, with the data D: it shows, or a load
\* among C that shows it is under way.
WillShow(t, C, D, p, m) ==
    /\ p = "program"
    /\ \A q \in C : LoadOf(q, m) /\ q.answer.at = "ok" => q.answer.punches[t.who] >= t.after
    /\ (\E q \in C : LoadOf(q, m)) \/ D.punches[t.who] >= t.after

BalancesInv ==
    /\ loyaltyMount \in Nat /\ (punch => loyaltyPage = "program")
    /\ \A q \in loyaltyCalls : AskedBy(q, loyaltyPage, loyaltyMount)
    /\ \A t \in loyaltyTold : t.mount \in 0..loyaltyMount
    /\ ~ loyaltyCrossed =>
          \A t \in loyaltyTold : t.mount = loyaltyMount => WillShow(t, loyaltyCalls, loyaltyData, loyaltyPage, loyaltyMount)

LEMMA BalancesBegin == Loyalty!Init => BalancesInv
<1>. SUFFICES ASSUME Loyalty!Init PROVE BalancesInv
  OBVIOUS
<1>1. /\ loyaltyPage = "list" /\ loyaltyMount = 0 /\ punch = FALSE /\ loyaltyTold = {}
      /\ loyaltyCalls = {[kind |-> "list", n |-> 0, mount |-> 0, heard |-> TRUE, answer |-> Loyalty!Sent]}
  BY Zenon DEF Loyalty!Init
<1>2. \A q \in loyaltyCalls : q.kind = "list" /\ q.mount = 0
  BY <1>1, SMT
<1>3. 0 \in Nat /\ 0 \in 0..0
  BY SMT
<1>4. ~ punch
  BY <1>1, FalseIsNot, Zenon
<1>. QED
  BY <1>1, <1>2, <1>3, <1>4, Zenon DEF BalancesInv, AskedBy

LEMMA BalancesTell == BalancesInv => Loyalty!ToldIsShown
<1>1. "program" # "punch"
  BY SMT
<1>. QED
  BY <1>1, Zenon DEF BalancesInv, WillShow, LoadOf, Loyalty!ToldIsShown

\* The page stays, and its loads go on: what one brings shows what was announced.
LEMMA BalancesRest ==
    ASSUME BalancesInv, UNCHANGED <<loyaltyPage, loyaltyMount, loyaltyData, loyaltyTold, loyaltyCrossed>>,
           punch' => loyaltyPage = "program",
           \A r \in loyaltyCalls' :
              \/ r.kind = "punch" /\ r.mount = loyaltyMount /\ loyaltyPage = "program"
              \/ \E q \in loyaltyCalls :
                    /\ r.kind = q.kind /\ r.mount = q.mount
                    /\ LoadOf(r, loyaltyMount) /\ r.answer.at = "ok" =>
                          r.answer = q.answer \/ \A t \in loyaltyTold : r.answer.punches[t.who] >= t.after,
           \A q \in loyaltyCalls : LoadOf(q, loyaltyMount) => \E r \in loyaltyCalls' : LoadOf(r, loyaltyMount)
    PROVE  BalancesInv'
<1>1. loyaltyMount \in 0..loyaltyMount /\ "punch" # "program"
  <2>1. loyaltyMount \in Nat
    BY Zenon DEF BalancesInv
  <2>. QED
    BY <2>1, SMT
<1>2. \A r \in loyaltyCalls' : AskedBy(r, loyaltyPage, loyaltyMount)
  BY <1>1, Zenon DEF BalancesInv, AskedBy
<1>3. ASSUME ~ loyaltyCrossed, NEW t \in loyaltyTold, t.mount = loyaltyMount
      PROVE  WillShow(t, loyaltyCalls', loyaltyData, loyaltyPage, loyaltyMount)
  <2>1. WillShow(t, loyaltyCalls, loyaltyData, loyaltyPage, loyaltyMount)
    BY <1>3, Zenon DEF BalancesInv
  <2>2. ASSUME NEW r \in loyaltyCalls', LoadOf(r, loyaltyMount), r.answer.at = "ok" PROVE r.answer.punches[t.who] >= t.after
    <3>1. PICK q \in loyaltyCalls :
             /\ r.kind = q.kind /\ r.mount = q.mount
             /\ r.answer = q.answer \/ \A x \in loyaltyTold : r.answer.punches[x.who] >= x.after
      BY <1>1, <2>2, Zenon DEF LoadOf
    <3>2. LoadOf(q, loyaltyMount)
      BY <2>2, <3>1, Zenon DEF LoadOf
    <3>. QED
      BY <2>1, <2>2, <3>1, <3>2, Zenon DEF WillShow
  <2>3. (\E q \in loyaltyCalls' : LoadOf(q, loyaltyMount)) \/ loyaltyData.punches[t.who] >= t.after
    BY <2>1, Zenon DEF WillShow
  <2>. QED
    BY <2>1, <2>2, <2>3, Zenon DEF WillShow
<1>4. loyaltyMount \in Nat /\ \A t \in loyaltyTold : t.mount \in 0..loyaltyMount
  BY Zenon DEF BalancesInv
<1>. QED
  BY <1>2, <1>3, <1>4, Zenon DEF BalancesInv

\* Another page is mounted: nothing was announced to it.
LEMMA BalancesLeave ==
    ASSUME BalancesInv, loyaltyMount' = loyaltyMount + 1, loyaltyTold' = loyaltyTold, punch' = FALSE,
           NEW l, loyaltyCalls' \subseteq loyaltyCalls \cup {l}, l.kind = loyaltyPage', l.kind # "punch", l.mount = loyaltyMount'
    PROVE  BalancesInv'
<1>1. PICK m : m = loyaltyMount'
  OBVIOUS
<1>2. loyaltyMount \in Nat
  BY Zenon DEF BalancesInv
<1>3. m \in Nat /\ m \in 0..m /\ \A k \in 0..loyaltyMount : k \in 0..m /\ k # m
  BY <1>1, <1>2
<1>4. ~ punch'
  BY FalseIsNot, Zenon
<1>5. \A q \in loyaltyCalls' : AskedBy(q, loyaltyPage', m)
  BY <1>1, <1>3, Zenon DEF BalancesInv, AskedBy
<1>6. \A t \in loyaltyTold : t.mount \in 0..m /\ t.mount # m
  BY <1>3, Zenon DEF BalancesInv
<1>. QED
  BY <1>1, <1>3, <1>4, <1>5, <1>6, Zenon DEF BalancesInv

\* A load's answer, by the mount that asked for it.
LEMMA BalancesLoaded ==
    ASSUME BalancesInv, NEW q \in loyaltyCalls, Loyalty!Loaded(q)
    PROVE  BalancesInv'
<1>1. /\ q.kind # "punch" /\ q.answer.at = "ok" /\ loyaltyCalls' = loyaltyCalls \ {q}
      /\ loyaltyData' = (IF q.mount = loyaltyMount THEN q.answer ELSE loyaltyData)
      /\ UNCHANGED <<loyaltyPage, loyaltyMount, punch, loyaltyTold, loyaltyCrossed>>
  BY Zenon DEF Loyalty!Loaded, Loyalty!Rest, Loyalty!modal, Loyalty!history
<1>2. CASE q.mount # loyaltyMount
  <2>1. \A d \in loyaltyCalls : LoadOf(d, loyaltyMount) => d \in loyaltyCalls'
    BY <1>1, <1>2, Zenon DEF LoadOf
  <2>2. loyaltyData' = loyaltyData /\ (punch' => loyaltyPage = "program")
    BY <1>1, <1>2, Zenon DEF BalancesInv
  <2>. QED
    BY <1>1, <2>1, <2>2, BalancesRest, Zenon
<1>3. CASE q.mount = loyaltyMount
  <2>1. loyaltyData' = q.answer /\ q.kind = loyaltyPage
    BY <1>1, <1>3, Zenon DEF BalancesInv, AskedBy
  <2>2. ASSUME ~ loyaltyCrossed, NEW t \in loyaltyTold, t.mount = loyaltyMount
        PROVE  WillShow(t, loyaltyCalls', loyaltyData', loyaltyPage, loyaltyMount)
    <3>1. WillShow(t, loyaltyCalls, loyaltyData, loyaltyPage, loyaltyMount)
      BY <2>2, Zenon DEF BalancesInv
    <3>2. LoadOf(q, loyaltyMount)
      BY <1>3, <2>1, <3>1, Zenon DEF WillShow, LoadOf
    <3>3. q.answer.punches[t.who] >= t.after
      BY <1>1, <3>1, <3>2, Zenon DEF WillShow
    <3>. QED
      BY <1>1, <2>1, <3>1, <3>3, Zenon DEF WillShow
  <2>. QED
    BY <1>1, <2>2, Zenon DEF BalancesInv
<1>. QED
  BY <1>2, <1>3, Zenon

\* A punch that is announced: its page asks again, and that load shows it.
LEMMA BalancesRecorded ==
    ASSUME BalancesInv, NEW q \in loyaltyCalls, Loyalty!Recorded(q)
    PROVE  BalancesInv'
<1>. DEFINE reload == [kind |-> "program", n |-> loyaltyLoads + 1, mount |-> q.mount, heard |-> TRUE, answer |-> Loyalty!Sent]
            heard == [mount |-> q.mount, who |-> q.who, after |-> q.answer.after, new |-> q.answer.new]
<1>1. /\ q.kind = "punch" /\ UNCHANGED <<loyaltyPage, loyaltyMount, loyaltyData>>
      /\ loyaltyCalls' = (loyaltyCalls \ {q}) \cup {reload} /\ loyaltyTold' = loyaltyTold \cup {heard}
      /\ loyaltyCrossed' = (loyaltyCrossed \/ \E d \in loyaltyCalls : d.kind = "program" /\ d.mount = q.mount)
      /\ punch' = (punch /\ q.mount # loyaltyMount)
  BY Zenon DEF Loyalty!Recorded, Loyalty!Reload, Loyalty!Rest, Loyalty!api
<1>2. PICK l : l = reload
  OBVIOUS
<1>3. PICK t : t = heard
  OBVIOUS
<1>4. l.kind = "program" /\ l.mount = q.mount /\ l.answer.at # "ok" /\ t.mount = q.mount /\ "program" # "punch"
  <2>1. "sent" # "ok" /\ Loyalty!Sent.at = "sent" /\ l.answer = Loyalty!Sent
    BY <1>2, SMT DEF Loyalty!Sent
  <2>2. l.kind = "program" /\ l.mount = q.mount
    BY ONLY <1>2, SMT
  <2>3. t.mount = q.mount /\ "program" # "punch"
    BY ONLY <1>3, SMT
  <2>. QED
    BY <2>1, <2>2, <2>3, Zenon
<1>5. loyaltyCalls' = (loyaltyCalls \ {q}) \cup {l} /\ loyaltyTold' = loyaltyTold \cup {t}
  BY <1>1, <1>2, <1>3, Zenon
<1>. HIDE DEF reload, heard
<1>6. q.mount \in 0..loyaltyMount /\ (q.mount = loyaltyMount => loyaltyPage = "program")
  BY <1>1, Zenon DEF BalancesInv, AskedBy
<1>7. AskedBy(l, loyaltyPage, loyaltyMount)
  BY <1>4, <1>6, Zenon DEF AskedBy
<1>8. \A d \in loyaltyCalls' : AskedBy(d, loyaltyPage, loyaltyMount)
  BY <1>5, <1>7, Zenon DEF BalancesInv
<1>9. \A d \in loyaltyTold' : d.mount \in 0..loyaltyMount
  BY <1>4, <1>5, <1>6, Zenon DEF BalancesInv
<1>10. ASSUME ~ loyaltyCrossed', NEW d \in loyaltyTold', d.mount = loyaltyMount
       PROVE  WillShow(d, loyaltyCalls', loyaltyData, loyaltyPage, loyaltyMount)
  <2>1. ~ loyaltyCrossed /\ \A b \in loyaltyCalls : ~ LoadOf(b, q.mount)
    BY <1>1, <1>10, Zenon DEF LoadOf
  <2>2. CASE q.mount = loyaltyMount
    <3>1. LoadOf(l, loyaltyMount) /\ \A b \in loyaltyCalls' : LoadOf(b, loyaltyMount) => b = l
      BY <1>4, <1>5, <2>1, <2>2, Zenon DEF LoadOf
    <3>2. l \in loyaltyCalls'
      BY <1>5, Zenon
    <3>. QED
      BY <1>4, <1>6, <2>2, <3>1, <3>2, Zenon DEF WillShow
  <2>3. CASE q.mount # loyaltyMount
    <3>1. d \in loyaltyTold
      BY <1>4, <1>5, <1>10, <2>3, Zenon
    <3>2. WillShow(d, loyaltyCalls, loyaltyData, loyaltyPage, loyaltyMount)
      BY <1>10, <2>1, <3>1, Zenon DEF BalancesInv
    <3>3. \A b : LoadOf(b, loyaltyMount) => (b \in loyaltyCalls <=> b \in loyaltyCalls')
      BY <1>1, <1>4, <1>5, <2>3, Zenon DEF LoadOf
    <3>. QED
      BY <3>2, <3>3, Zenon DEF WillShow
  <2>. QED
    BY <2>2, <2>3, Zenon
<1>11. loyaltyMount \in Nat /\ (punch' => loyaltyPage = "program")
  BY <1>1, Zenon DEF BalancesInv
<1>. QED
  BY <1>1, <1>8, <1>9, <1>10, <1>11, Zenon DEF BalancesInv

\* An answer, that of a load with all balances that were announced.
LEMMA BalancesSay ==
    ASSUME LoyaltyInv, BalancesInv, NEW q \in loyaltyCalls, NEW a, Loyalty!Answer(q, a),
           UNCHANGED <<loyaltyPage, loyaltyMount, loyaltyData, loyaltyTold, loyaltyCrossed, punch>>,
           q.kind # "punch" => \A t \in loyaltyTold : a.punches[t.who] >= t.after
    PROVE  BalancesInv'
<1>. DEFINE r == [q EXCEPT !.answer = a]
<1>1. LoyaltyFields(q)
  BY Zenon DEF LoyaltyInv, LoyaltyCall
<1>2. r.kind = q.kind /\ r.mount = q.mount /\ r.answer = a
  BY <1>1, LoyaltyAnswered, Zenon
<1>3. loyaltyCalls' = (loyaltyCalls \ {q}) \cup {r}
  BY Zenon DEF Loyalty!Answer
<1>. HIDE DEF r
<1>4. "program" # "punch"
  BY SMT
<1>5. \A d \in loyaltyCalls' : \E e \in loyaltyCalls :
         /\ d.kind = e.kind /\ d.mount = e.mount
         /\ LoadOf(d, loyaltyMount) => d.answer = e.answer \/ \A t \in loyaltyTold : d.answer.punches[t.who] >= t.after
  BY <1>2, <1>3, <1>4, Zenon DEF LoadOf
<1>6. \A d \in loyaltyCalls : LoadOf(d, loyaltyMount) => \E e \in loyaltyCalls' : LoadOf(e, loyaltyMount)
  BY <1>2, <1>3, Zenon DEF LoadOf
<1>7. punch' => loyaltyPage = "program"
  BY Zenon DEF BalancesInv
<1>. QED
  BY <1>5, <1>6, <1>7, BalancesRest, Zenon

LEMMA BalancesKept ==
    LoyaltyInv /\ PaidInv /\ BalancesInv /\ (Loyalty!Next \/ UNCHANGED loyaltyVars) => BalancesInv'
<1>. SUFFICES ASSUME LoyaltyInv, PaidInv, BalancesInv, Loyalty!Next \/ UNCHANGED loyaltyVars PROVE BalancesInv'
  OBVIOUS
<1>. DEFINE asks(k, n, m) == [kind |-> k, n |-> n, mount |-> m, heard |-> TRUE, answer |-> Loyalty!Sent]
            Same == UNCHANGED <<loyaltyPage, loyaltyMount, loyaltyData, loyaltyTold, loyaltyCrossed>>
<1>1. "list" \in {"list", "program"} /\ "program" # "punch" /\ "punch" \notin {"list", "program"}
  BY SMT
<1>2. punch => loyaltyPage = "program"
  BY Zenon DEF BalancesInv
\* Requests go, but no load of the page.
<1>3. ASSUME Same, punch' => loyaltyPage = "program", loyaltyCalls' \subseteq loyaltyCalls,
             \A q \in loyaltyCalls : LoadOf(q, loyaltyMount) => q \in loyaltyCalls'
      PROVE  BalancesInv'
  <2>1. \A r \in loyaltyCalls' : r \in loyaltyCalls
    BY <1>3, Zenon
  <2>. QED
    BY <1>3, <2>1, BalancesRest, Zenon
<1>4. CASE UNCHANGED loyaltyVars \/ Loyalty!OpenForm \/ Loyalty!CloseForm \/ Loyalty!CloseProgram
  <2>1. Same /\ loyaltyCalls' = loyaltyCalls
    BY <1>4, Zenon DEF loyaltyVars, Loyalty!OpenForm, Loyalty!CloseForm, Loyalty!CloseProgram, Loyalty!history
  <2>2. punch' => loyaltyPage = "program"
    BY <1>2, <1>4, Zenon DEF loyaltyVars, Loyalty!OpenForm, Loyalty!CloseForm, Loyalty!CloseProgram, Loyalty!modal
  <2>. QED
    BY <1>3, <2>1, <2>2, Zenon
\* Another page of kind k is mounted.
<1>5. ASSUME NEW k \in {"list", "program"}, NEW n, loyaltyPage' = k, loyaltyMount' = loyaltyMount + 1, punch' = FALSE,
             loyaltyTold' = loyaltyTold, loyaltyCalls' \subseteq loyaltyCalls \cup {asks(k, n, loyaltyMount + 1)}
      PROVE  BalancesInv'
  <2>1. PICK l : l = asks(k, n, loyaltyMount + 1)
    OBVIOUS
  <2>2. l.kind = k /\ l.mount = loyaltyMount + 1
    BY ONLY <2>1
  <2>3. k # "punch"
    BY <1>1, Zenon
  <2>4. loyaltyCalls' \subseteq loyaltyCalls \cup {l}
    BY <1>5, <2>1, Zenon
  <2>. HIDE DEF asks
  <2>. QED
    BY <1>5, <2>2, <2>3, <2>4, BalancesLeave, Zenon
<1>6. ASSUME NEW k \in {"list", "program"}, Loyalty!Goto(k) PROVE BalancesInv'
  <2>1. /\ loyaltyPage' = k /\ loyaltyMount' = loyaltyMount + 1 /\ punch' = FALSE /\ loyaltyTold' = loyaltyTold
        /\ loyaltyCalls' = loyaltyCalls \cup {asks(k, loyaltyLoads + 1, loyaltyMount + 1)}
    BY <1>6, Zenon DEF Loyalty!Goto, Loyalty!Mount, Loyalty!Load
  <2>. HIDE DEF asks
  <2>. QED
    BY <1>5, <2>1, Zenon
<1>7. ASSUME NEW q \in loyaltyCalls, Loyalty!LoadFails(q) PROVE BalancesInv'
  <2>1. q.kind # "punch" /\ loyaltyTold' = loyaltyTold /\ loyaltyCrossed' = loyaltyCrossed
    BY <1>7, Zenon DEF Loyalty!LoadFails, Loyalty!history
  <2>2. CASE q.kind = "program" /\ loyaltyPage = "program"
    <3>1. /\ loyaltyPage' = "list" /\ loyaltyMount' = loyaltyMount + 1 /\ punch' = FALSE
          /\ loyaltyCalls' = (loyaltyCalls \ {q}) \cup {asks("list", loyaltyLoads + 1, loyaltyMount + 1)}
      BY <1>7, <2>2, Zenon DEF Loyalty!LoadFails, Loyalty!Rest
    <3>. HIDE DEF asks
    <3>2. loyaltyCalls' \subseteq loyaltyCalls \cup {asks("list", loyaltyLoads + 1, loyaltyMount + 1)}
      BY <3>1, Zenon
    <3>. QED
      BY <1>1, <1>5, <2>1, <3>1, <3>2, Zenon
  <2>3. CASE ~ (q.kind = "program" /\ loyaltyPage = "program")
    <3>1. UNCHANGED <<loyaltyPage, loyaltyMount, loyaltyData, punch>> /\ loyaltyCalls' = loyaltyCalls \ {q}
      BY <1>7, <2>3, Zenon DEF Loyalty!LoadFails, Loyalty!Rest
    <3>2. ~ LoadOf(q, loyaltyMount)
      BY <1>1, <2>3, Zenon DEF LoadOf, BalancesInv, AskedBy
    <3>3. Same /\ (punch' => loyaltyPage = "program") /\ loyaltyCalls' \subseteq loyaltyCalls
          /\ \A d \in loyaltyCalls : LoadOf(d, loyaltyMount) => d \in loyaltyCalls'
      BY <1>2, <2>1, <3>1, <3>2, Zenon
    <3>. QED
      BY <1>3, <3>3, Zenon
  <2>. QED
    BY <2>2, <2>3, Zenon
<1>8. ASSUME NEW q \in loyaltyCalls, Loyalty!RecordFails(q) PROVE BalancesInv'
  <2>1. q.kind = "punch" /\ Same /\ punch' = punch /\ loyaltyCalls' = loyaltyCalls \ {q}
    BY <1>8, Zenon DEF Loyalty!RecordFails, Loyalty!Rest, Loyalty!history
  <2>2. \A d \in loyaltyCalls : LoadOf(d, loyaltyMount) => d \in loyaltyCalls'
    BY <1>1, <2>1, Zenon DEF LoadOf
  <2>. QED
    BY <1>2, <1>3, <2>1, <2>2, Zenon
<1>9. ASSUME NEW x, NEW ev, NEW count, Loyalty!Record(x, ev, count) PROVE BalancesInv'
  <2>. DEFINE p == [kind |-> "punch", n |-> loyaltyClicks + 1, mount |-> loyaltyMount, heard |-> TRUE,
                    form |-> loyaltyForm, who |-> x, event |-> ev, count |-> count, answer |-> Loyalty!Sent]
  <2>1. /\ punch /\ Same /\ punch' = punch
        /\ loyaltyCalls' = loyaltyCalls \/ loyaltyCalls' = loyaltyCalls \cup {p}
    BY <1>9, Zenon DEF Loyalty!Record, Loyalty!history
  <2>2. p.kind = "punch" /\ p.mount = loyaltyMount
    OBVIOUS
  <2>. HIDE DEF p
  <2>3. \A r \in loyaltyCalls' : (r.kind = "punch" /\ r.mount = loyaltyMount /\ loyaltyPage = "program") \/ r \in loyaltyCalls
    BY <1>2, <2>1, <2>2, Zenon
  <2>4. \A q \in loyaltyCalls : q \in loyaltyCalls'
    BY <2>1, Zenon
  <2>. QED
    BY <1>2, <2>1, <2>3, <2>4, BalancesRest, Zenon
<1>10. ASSUME NEW q \in loyaltyCalls, Loyalty!Lose(q) PROVE BalancesInv'
  <2>. DEFINE r == [q EXCEPT !.heard = FALSE]
  <2>1. LoyaltyFields(q) /\ q.kind = "punch"
    BY <1>10, Zenon DEF LoyaltyInv, LoyaltyCall, Loyalty!Lose
  <2>2. r.kind = q.kind /\ r.mount = q.mount /\ r.answer = q.answer
    BY <2>1, LoyaltyHeard, Zenon
  <2>3. loyaltyCalls' = (loyaltyCalls \ {q}) \cup {r} /\ Same /\ punch' = punch
    BY <1>10, Zenon DEF Loyalty!Lose, Loyalty!Rest, Loyalty!history
  <2>. HIDE DEF r
  <2>4. \A d \in loyaltyCalls' : \E e \in loyaltyCalls : d.kind = e.kind /\ d.mount = e.mount /\ d.answer = e.answer
    BY <2>2, <2>3, Zenon
  <2>5. \A d \in loyaltyCalls : LoadOf(d, loyaltyMount) => d \in loyaltyCalls'
    BY <1>1, <2>1, <2>3, Zenon DEF LoadOf
  <2>. QED
    BY <1>2, <2>3, <2>4, <2>5, BalancesRest, Zenon
<1>11. CASE Loyalty!Restart
  <2>. DEFINE ends(q) == IF q.answer.at \in {"waiting", "issuing", "storing"} THEN [q EXCEPT !.answer = Loyalty!Refused] ELSE q
  <2>1. loyaltyCalls' = {ends(q) : q \in loyaltyCalls} /\ Same /\ punch' = punch
    BY <1>11, Zenon DEF Loyalty!Restart, Loyalty!modal, Loyalty!history
  <2>2. \A q \in loyaltyCalls : LoyaltyFields(q) /\ (q.answer.at \in {"waiting", "issuing", "storing"} => q.kind = "punch")
    BY Zenon DEF LoyaltyInv, LoyaltyCall
  <2>3. ASSUME NEW q \in loyaltyCalls
        PROVE  /\ ends(q).kind = q.kind /\ ends(q).mount = q.mount
               /\ q.kind # "punch" => ends(q) = q
    <3>1. CASE q.answer.at \in {"waiting", "issuing", "storing"}
      <4>1. PICK r : r = [q EXCEPT !.answer = Loyalty!Refused]
        OBVIOUS
      <4>2. ends(q) = r
        BY <3>1, <4>1, Zenon
      <4>3. r.kind = q.kind /\ r.mount = q.mount
        BY ONLY <2>2, <2>3, <4>1, LoyaltyAnswered, Zenon
      <4>. QED
        BY <2>2, <3>1, <4>2, <4>3, Zenon
    <3>2. CASE q.answer.at \notin {"waiting", "issuing", "storing"}
      BY <3>2, Zenon
    <3>. QED
      BY <3>1, <3>2, Zenon
  <2>. HIDE DEF ends
  <2>4. ASSUME NEW d \in loyaltyCalls'
        PROVE  \E e \in loyaltyCalls : d.kind = e.kind /\ d.mount = e.mount /\ (LoadOf(d, loyaltyMount) => d.answer = e.answer)
    <3>1. PICK e \in loyaltyCalls : d = ends(e)
      BY <2>1, <2>4, Zenon
    <3>. QED
      BY <1>1, <2>3, <3>1, Zenon DEF LoadOf
  <2>5. \A d \in loyaltyCalls : LoadOf(d, loyaltyMount) => d \in loyaltyCalls'
    BY <1>1, <2>1, <2>3, Zenon DEF LoadOf
  <2>. QED
    BY <1>2, <2>1, <2>4, <2>5, BalancesRest, Zenon
<1>12. ASSUME NEW q \in loyaltyCalls, Loyalty!ServeLoad(q) PROVE BalancesInv'
  <2>1. PICK a : a = [at |-> "ok", punches |-> [x \in Customers |-> Loyalty!Balance(x)], rewards |-> rewards] /\ Loyalty!Answer(q, a)
    BY <1>12, Zenon DEF Loyalty!ServeLoad
  <2>2. a.punches = [x \in Customers |-> Loyalty!Balance(x)]
    BY ONLY <2>1
  <2>3. ASSUME NEW t \in loyaltyTold PROVE a.punches[t.who] >= t.after
    <3>1. CardTold(t, punches) /\ Bal(punches, t.who) \in Nat
      BY BalIs, Zenon DEF PaidInv, LoyaltyInv
    <3>2. a.punches[t.who] = Bal(punches, t.who)
      BY <2>2, <3>1, BalanceIs, Zenon DEF CardTold
    <3>3. t.after \in Int /\ t.after <= Bal(punches, t.who)
      BY <3>1, Zenon DEF CardTold
    <3>. QED
      BY ONLY <3>1, <3>2, <3>3
  <2>4. Same /\ punch' = punch
    BY <1>12, Zenon DEF Loyalty!ServeLoad, Loyalty!modal, Loyalty!history
  <2>. QED
    BY <2>1, <2>3, <2>4, BalancesSay, Zenon
<1>13. ASSUME NEW q \in loyaltyCalls,
              Loyalty!Admit(q) \/ Loyalty!Begin(q) \/ Loyalty!BeginFails(q) \/ Loyalty!IssueRewards(q) \/ Loyalty!Store(q)
       PROVE  BalancesInv'
  <2>1. Same /\ punch' = punch /\ \E a : Loyalty!Answer(q, a)
    BY <1>13, Zenon DEF Loyalty!Admit, Loyalty!Begin, Loyalty!BeginFails, Loyalty!IssueRewards, Loyalty!Store,
           Loyalty!modal, Loyalty!history
  <2>2. q.kind = "punch"
    <3>1. LoyaltyCall(q, punches, rewards, loyaltyClicks)
      BY Zenon DEF LoyaltyInv
    <3>2. q.kind = "punch" \/ q.answer.at \in {"waiting", "issuing"} \/ q.answer.at = "issuing" \/ q.answer.at = "storing"
      BY <1>13, Zenon DEF Loyalty!Admit, Loyalty!Begin, Loyalty!BeginFails, Loyalty!IssueRewards, Loyalty!Store
    <3>. QED
      BY <3>1, <3>2, LoyaltyAt, Zenon DEF LoyaltyCall
  <2>. QED
    BY <2>1, <2>2, BalancesSay, Zenon
<1>. QED
  BY <1>4, <1>6, <1>7, <1>8, <1>9, <1>10, <1>11, <1>12, <1>13, BalancesLoaded, BalancesRecorded, Zenon DEF Loyalty!Next
-----------------------------------------------------------------------------
\* The pages together.

\* What keeps AnnouncedIsThere: an answer on its way tells what the API has done,
\* and a load that a page at rest will have heard is answered, or will be, with
\* what the page announced.
AnnouncedInv ==
    /\ ScreenInv /\ EffectsInv /\ IssuedInv
    /\ WizardInv /\ AnnouncedWhole /\ ListInv
    /\ LoyaltyInv /\ PaidInv /\ BalancesInv
    /\ SecretsInv /\ SecretsKnown /\ SecretsCaught
    /\ SettlementsInv /\ SettlementsCaught
    /\ RedemptionsInv /\ RedemptionsCaught

\* In every state of the console, for any campaigns, codes, customers, secrets and
\* bounds, what a page announced is there: as many codes were issued as the toast
\* said (CampaignDetail.jsx), a campaign that was created is there with its code
\* (Campaigns.jsx), a voucher is stored and on the contract and a program page at rest
\* shows the balance it announced (Loyalty.jsx), what was revoked stays dead, a
\* secret was on screen unless its answer went by the page (Platform.jsx), and the
\* lists at rest, of those pages and of Settlements.jsx and Redemptions.jsx, hold
\* what was announced unless their loads crossed or an answer was lost.
THEOREM AnnouncedSafe == Spec => []AnnouncedIsThere
<1>1. Init => AnnouncedInv
  <2>. SUFFICES ASSUME Init PROVE AnnouncedInv
    OBVIOUS
  <2>1. /\ Detail!Init /\ Wizard!Init /\ Loyalty!Init
        /\ Secrets!Init /\ Settlements!Init /\ Redemptions!Init
    BY Zenon DEF Init
  <2>2. ScreenInv /\ EffectsInv /\ IssuedInv /\ WizardInv /\ AnnouncedWhole /\ ListInv
    BY <2>1, ScreenBegin, EffectsBegin, IssuedBegin, WizardBegin, WholeBegin, Zenon
  <2>3. LoyaltyInv /\ PaidInv /\ BalancesInv /\ SecretsInv /\ SecretsKnown /\ SecretsCaught
    BY <2>1, LoyaltyBegin, PaidBegin, BalancesBegin, SecretsBegin, KnownBegin, Zenon
  <2>4. SettlementsInv /\ SettlementsCaught /\ RedemptionsInv /\ RedemptionsCaught
    BY <2>1, SettlementsBegin, PeriodsBegin, RedemptionsBegin, ShopBegin, Zenon
  <2>. QED
    BY <2>2, <2>3, <2>4, Zenon DEF AnnouncedInv
<1>2. AnnouncedInv /\ [Next]_consoleVars => AnnouncedInv'
  <2>. SUFFICES ASSUME AnnouncedInv, [Next]_consoleVars PROVE AnnouncedInv'
    OBVIOUS
  <2>1. (ScreenInv /\ EffectsInv /\ IssuedInv)'
    BY OnePageRuns, ScreenKept, EffectsKept, IssuedKept, Zenon DEF AnnouncedInv
  <2>2. (WizardInv /\ AnnouncedWhole /\ ListInv)'
    BY OnePageRuns, WizardKept, WholeKept, Zenon DEF AnnouncedInv
  <2>3. (LoyaltyInv /\ PaidInv /\ BalancesInv)'
    BY OnePageRuns, LoyaltyKept, PaidKept, BalancesKept, Zenon DEF AnnouncedInv
  <2>4. (SecretsInv /\ SecretsKnown /\ SecretsCaught)'
    BY OnePageRuns, SecretsKept, KnownKept, Zenon DEF AnnouncedInv
  <2>5. (SettlementsInv /\ SettlementsCaught /\ RedemptionsInv /\ RedemptionsCaught)'
    BY OnePageRuns, SettlementsKept, PeriodsKept, RedemptionsKept, ShopKept, Zenon DEF AnnouncedInv
  <2>. QED
    BY <2>1, <2>2, <2>3, <2>4, <2>5, Zenon DEF AnnouncedInv
<1>3. AnnouncedInv => AnnouncedIsThere
  BY IssuedTells, WholeTells, PaidTells, BalancesTell, KnownTells, PeriodsTell, ShopTells, Zenon
     DEF AnnouncedInv, AnnouncedIsThere
<1>. QED
  BY <1>1, <1>2, <1>3, PTL DEF Spec
=============================================================================
