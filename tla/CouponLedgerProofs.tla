------------------------- MODULE CouponLedgerProofs -------------------------
(***************************************************************************)
(* Proofs about the Burn profile of the contract, for every number of      *)
(* accounts, codes, campaigns, coupons and ledgers.                        *)
(***************************************************************************)
EXTENDS CouponReads, SetLemmas, SequenceTheorems, TLAPS

\* A batch is a function on 1..n, and n is the cardinality of its domain.
LEMMA BatchLength ==
    ASSUME NEW batch \in Batches
    PROVE  \E n \in 0..(MaxBatch + 1) :
              /\ batch \in [1..n -> Codes \cup BadCodes]
              /\ Cardinality(DOMAIN batch) = n
<1>1. PICK n \in 0..(MaxBatch + 1) : batch \in [1..n -> Codes \cup BadCodes]
  BY DEF Batches
<1>2. n \in Nat
  BY <1>1, BoundsAssumption
<1>3. Cardinality(1..n) = n
  BY <1>2, FS_Interval
<1>. QED
  BY <1>1, <1>3

-----------------------------------------------------------------------------
LEMMA InitTypeOK == Init => TypeOK
<1>. SUFFICES ASSUME Init PROVE TypeOK
  OBVIOUS
<1>1. 1..0 = {}
  OBVIOUS
<1>2. CampaignsOK /\ TokensOK
  BY <1>1 DEF Init, CampaignsOK, TokensOK
<1>3. CodeIndexOK /\ OwnerIndexOK
  BY <1>1 DEF Init, CodeIndexOK, OwnerIndexOK
<1>. QED
  BY <1>2, <1>3 DEF Init, TypeOK

LEMMA CreateTypeOK ==
    ASSUME TypeOK, NEW a \in Addresses, NEW s \in 0..MaxSupply,
           NEW e \in 0..MaxTime, CreateCampaign(a, s, e)
    PROVE  TypeOK'
<1>. USE DEF TypeOK
<1>1. /\ s \in 1..MaxSupply /\ e \in Nat
      /\ campCtr \in Nat /\ ownerCount[a] \in Nat
      /\ 1..(campCtr + 1) = 1..campCtr \cup {campCtr + 1}
  BY BoundsAssumption DEF CreateCampaign, CampaignsOK, OwnerIndexOK
<1>2. CampaignsOK'
  <2>1. [owner |-> a, totalSupply |-> s, minted |-> 0, burned |-> 0,
         validUntil |-> e] \in Campaign
    BY <1>1 DEF Campaign
  <2>. QED
    BY <1>1, <2>1 DEF CreateCampaign, CampaignsOK, Put
<1>3. OwnerIndexOK'
  BY <1>1 DEF CreateCampaign, NextSlot, OwnerIndexOK, Put
<1>4. TokensOK' /\ now' \in Nat
  BY DEF CreateCampaign, TokensOK, burnVars
<1>5. CodeIndexOK'
  BY <1>1 DEF CreateCampaign, CodeIndexOK, burnVars
<1>. HIDE DEF TypeOK
<1>. QED
  BY <1>2, <1>3, <1>4, <1>5 DEF TypeOK

LEMMA IssueTypeOK ==
    ASSUME TypeOK, NEW a \in Addresses, NEW c \in DOMAIN campaigns,
           NEW b \in Batches, IssueUnique(a, c, b)
    PROVE  TypeOK'
<1>. USE DEF TypeOK
<1>1. PICK n \in 0..(MaxBatch + 1) : /\ b \in [1..n -> Codes \cup BadCodes]
                                     /\ Cardinality(DOMAIN b) = n
  BY BatchLength
<1>2. /\ n \in Nat /\ tokenCtr \in Nat
      /\ c \in 1..campCtr /\ DOMAIN b = 1..n /\ \A i \in 1..n : b[i] \in Codes
  <2>1. FreshInCampaign(c, b)
    BY DEF IssueUnique
  <2>2. DOMAIN b = 1..n /\ n \in Nat
    BY <1>1, BoundsAssumption
  <2>3. \A i \in 1..n : b[i] \in Codes
    BY <2>1, <2>2 DEF FreshInCampaign
  <2>. QED
    BY <2>2, <2>3 DEF CampaignsOK, TokensOK
<1>3. tokenCtr' = tokenCtr + n
  BY <1>1 DEF IssueUnique
<1>4. TokensOK'
  <2>1. 1..(tokenCtr + n) = 1..tokenCtr \cup (tokenCtr + 1)..(tokenCtr + n)
    BY <1>2
  <2>2. \A t \in (tokenCtr + 1)..(tokenCtr + n) :
           NewToken(c, b[t - tokenCtr]) \in CouponToken
    BY <1>2 DEF NewToken, CouponToken, CampaignsOK
  <2>3. tokens' = [t \in 1..(tokenCtr + n) |->
                     IF t \in (tokenCtr + 1)..(tokenCtr + n)
                     THEN NewToken(c, b[t - tokenCtr]) ELSE tokens[t]]
    BY <1>1, <2>1 DEF IssueUnique, TokensOK
  <2>4. \A t \in 1..(tokenCtr + n) :
           t \in (tokenCtr + 1)..(tokenCtr + n) \/ t \in 1..tokenCtr
    BY <2>1
  <2>5. \A t \in 1..tokenCtr : tokens[t] \in CouponToken
    BY DEF TokensOK
  <2>6. tokens' \in [1..(tokenCtr + n) -> CouponToken]
    BY <2>2, <2>3, <2>4, <2>5
  <2>. QED
    BY <1>2, <1>3, <2>6 DEF TokensOK
<1>5. CodeIndexOK'
  <2>1. {<<c, b[i]>> : i \in DOMAIN b} \subseteq (1..campCtr) \X Codes
    BY <1>2
  <2>2. ASSUME NEW k \in {<<c, b[i]>> : i \in DOMAIN b}
        PROVE  tokenCtr + (CHOOSE i \in DOMAIN b : b[i] = k[2])
                  \in 1..(tokenCtr + n)
    <3>1. \E i \in 1..n : b[i] = k[2]
      BY <1>2
    <3>2. (CHOOSE i \in 1..n : b[i] = k[2]) \in 1..n
      BY <3>1
    <3>. QED
      BY <1>2, <3>2
  <2>. DEFINE fresh == {<<c, b[i]>> : i \in DOMAIN b}
  <2>3. codeIndex' = [k \in DOMAIN codeIndex \cup fresh |->
                        IF k \in fresh
                        THEN tokenCtr + (CHOOSE i \in DOMAIN b : b[i] = k[2])
                        ELSE codeIndex[k]]
    BY DEF IssueUnique
  <2>4. \A k \in fresh : tokenCtr + (CHOOSE i \in DOMAIN b : b[i] = k[2])
                            \in 1..(tokenCtr + n)
    BY <2>2
  <2>5. campCtr' = campCtr
    BY DEF IssueUnique
  <2>. HIDE DEF fresh
  <2>6. DOMAIN codeIndex' = DOMAIN codeIndex \cup fresh
    BY <2>3
  <2>7. ASSUME NEW k \in DOMAIN codeIndex'
        PROVE  codeIndex'[k] \in 1..(tokenCtr + n)
    <3>1. CASE k \in fresh
      <4>1. codeIndex'[k] = tokenCtr + (CHOOSE i \in DOMAIN b : b[i] = k[2])
        BY <2>3, <2>6, <3>1
      <4>. QED
        BY <2>4, <3>1, <4>1
    <3>2. CASE k \notin fresh
      <4>1. k \in DOMAIN codeIndex /\ codeIndex'[k] = codeIndex[k]
        BY <2>3, <2>6, <3>2
      <4>. QED
        BY <1>2, <4>1 DEF CodeIndexOK
    <3>. QED
      BY <3>1, <3>2
  <2>. QED
    BY <1>3, <2>1, <2>5, <2>6, <2>7 DEF CodeIndexOK, fresh
<1>6. CampaignsOK'
  <2>1. [campaigns[c] EXCEPT !.minted = @ + n] \in Campaign
    <3>1. campaigns[c] \in Campaign
      BY <1>2 DEF CampaignsOK
    <3>. QED
      BY <1>2, <3>1 DEF Campaign
  <2>. QED
    BY <1>1, <2>1 DEF IssueUnique, CampaignsOK
<1>7. OwnerIndexOK' /\ now' \in Nat
  BY DEF IssueUnique, OwnerIndexOK, indexVars
<1>. QED
  BY <1>4, <1>5, <1>6, <1>7

LEMMA RedeemTypeOK ==
    ASSUME TypeOK, NEW a \in Addresses, NEW k \in DOMAIN codeIndex,
           NEW r \in Refs, RedeemUnique(a, k[1], k[2], r)
    PROVE  TypeOK'
<1>. USE DEF TypeOK
<1>. DEFINE t == codeIndex[<<k[1], k[2]>>]
            home == tokens[t].campaign
<1>1. /\ t \in DOMAIN tokens /\ home \in DOMAIN campaigns
      /\ tokens' = [tokens EXCEPT ![t].isBurned = TRUE, ![t].redeemerRef = r,
                                  ![t].burnedAt = now]
      /\ campaigns' = [campaigns EXCEPT ![home].burned = @ + 1]
  BY DEF RedeemUnique, Redeemable
<1>. HIDE DEF t, home
<1>2. TokensOK'
  <2>1. [tokens[t] EXCEPT !.isBurned = TRUE, !.redeemerRef = r,
                          !.burnedAt = now] \in CouponToken
    <3>1. tokens[t] \in CouponToken /\ now \in Nat
      BY <1>1 DEF TokensOK
    <3>. QED
      BY <3>1 DEF CouponToken
  <2>2. tokenCtr' = tokenCtr
    BY DEF RedeemUnique
  <2>. QED
    BY <1>1, <2>1, <2>2 DEF TokensOK
<1>3. CampaignsOK'
  <2>1. [campaigns[home] EXCEPT !.burned = @ + 1] \in Campaign
    <3>1. campaigns[home] \in Campaign
      BY <1>1 DEF CampaignsOK
    <3>. QED
      BY <3>1 DEF Campaign
  <2>2. campCtr' = campCtr /\ delegates' = delegates
    BY DEF RedeemUnique
  <2>. QED
    BY <1>1, <2>1, <2>2 DEF CampaignsOK
<1>4. CodeIndexOK' /\ OwnerIndexOK' /\ now' \in Nat
  BY DEF RedeemUnique, CodeIndexOK, OwnerIndexOK, indexVars
<1>. QED
  BY <1>2, <1>3, <1>4

LEMMA NextTypeOK == TypeOK /\ [Next]_vars => TypeOK'
<1>. SUFFICES ASSUME TypeOK, [Next]_vars PROVE TypeOK'
  OBVIOUS
<1>. USE DEF TypeOK, CampaignsOK, TokensOK, CodeIndexOK, OwnerIndexOK
<1>1. CASE Tick
  BY <1>1 DEF Tick, burnVars, indexVars
<1>2. ASSUME NEW a \in Addresses, NEW d \in Addresses, NEW c \in DOMAIN campaigns,
             AddDelegate(a, c, d) \/ RemoveDelegate(a, c, d)
      PROVE  TypeOK'
  BY <1>2 DEF AddDelegate, RemoveDelegate, burnVars, indexVars
<1>3. CASE UNCHANGED vars
  BY <1>3 DEF vars, burnVars, indexVars
<1>. QED
  BY <1>1, <1>2, <1>3, CreateTypeOK, IssueTypeOK, RedeemTypeOK DEF Next

\* Every value the Burn profile stores keeps its declared type.
THEOREM TypeCorrect == Spec => []TypeOK
BY InitTypeOK, NextTypeOK, PTL DEF Spec

-----------------------------------------------------------------------------
\* What a successful issue_unique does: n new coupons take the next n ids,
\* each under its own new key, and everything older keeps its place.
IssueEffect(c, b, n) ==
    /\ tokenCtr' = tokenCtr + n
    /\ DOMAIN tokens' = 1..(tokenCtr + n)
    /\ \A t \in 1..tokenCtr : tokens'[t] = tokens[t]
    /\ \A i \in 1..n : tokens'[tokenCtr + i] = NewToken(c, b[i])
    /\ DOMAIN codeIndex' = DOMAIN codeIndex \cup {<<c, b[i]>> : i \in 1..n}
    /\ \A k \in DOMAIN codeIndex : codeIndex'[k] = codeIndex[k]
    /\ \A i \in 1..n : codeIndex'[<<c, b[i]>>] = tokenCtr + i
    /\ campaigns' = [campaigns EXCEPT ![c].minted = @ + n]
    /\ campaigns[c].minted + n <= campaigns[c].totalSupply

LEMMA IssueEffectHolds ==
    ASSUME TypeOK, NEW a \in Addresses, NEW c \in DOMAIN campaigns,
           NEW b \in Batches, IssueUnique(a, c, b)
    PROVE  \E n \in Nat : IssueEffect(c, b, n)
<1>1. PICK n \in 0..(MaxBatch + 1) : /\ b \in [1..n -> Codes \cup BadCodes]
                                     /\ Cardinality(DOMAIN b) = n
  BY BatchLength
<1>2. /\ n \in Nat /\ tokenCtr \in Nat /\ DOMAIN b = 1..n
      /\ DOMAIN tokens = 1..tokenCtr
  BY <1>1, BoundsAssumption DEF TypeOK, TokensOK
<1>. DEFINE fresh == {<<c, b[i]>> : i \in 1..n}
<1>3. /\ FreshInCampaign(c, b)
      /\ WithinSupply(c, n)
      /\ tokenCtr' = tokenCtr + n
      /\ tokens' = [t \in 1..tokenCtr \cup (tokenCtr + 1)..(tokenCtr + n) |->
                      IF t \in (tokenCtr + 1)..(tokenCtr + n)
                      THEN NewToken(c, b[t - tokenCtr]) ELSE tokens[t]]
      /\ codeIndex' = [k \in DOMAIN codeIndex \cup fresh |->
                         IF k \in fresh
                         THEN tokenCtr + (CHOOSE i \in 1..n : b[i] = k[2])
                         ELSE codeIndex[k]]
      /\ campaigns' = [campaigns EXCEPT ![c].minted = @ + n]
  <2>1. /\ FreshInCampaign(c, b)
        /\ WithinSupply(c, Cardinality(DOMAIN b))
        /\ tokenCtr' = tokenCtr + Cardinality(DOMAIN b)
        /\ campaigns' = [campaigns EXCEPT ![c].minted = @ + Cardinality(DOMAIN b)]
    BY DEF IssueUnique
  <2>2. tokens' = [t \in DOMAIN tokens \cup (tokenCtr + 1)..(tokenCtr + n) |->
                     IF t \in (tokenCtr + 1)..(tokenCtr + n)
                     THEN NewToken(c, b[t - tokenCtr]) ELSE tokens[t]]
    BY <1>1 DEF IssueUnique
  <2>3. codeIndex' = [k \in DOMAIN codeIndex \cup {<<c, b[i]>> : i \in DOMAIN b} |->
                        IF k \in {<<c, b[i]>> : i \in DOMAIN b}
                        THEN tokenCtr + (CHOOSE i \in DOMAIN b : b[i] = k[2])
                        ELSE codeIndex[k]]
    BY DEF IssueUnique
  <2>4. tokenCtr' = tokenCtr + n /\ WithinSupply(c, n)
        /\ campaigns' = [campaigns EXCEPT ![c].minted = @ + n]
    BY <1>1, <2>1
  <2>5. tokens' = [t \in 1..tokenCtr \cup (tokenCtr + 1)..(tokenCtr + n) |->
                     IF t \in (tokenCtr + 1)..(tokenCtr + n)
                     THEN NewToken(c, b[t - tokenCtr]) ELSE tokens[t]]
    BY <1>2, <2>2
  <2>6. codeIndex' = [k \in DOMAIN codeIndex \cup fresh |->
                        IF k \in fresh
                        THEN tokenCtr + (CHOOSE i \in 1..n : b[i] = k[2])
                        ELSE codeIndex[k]]
    BY <1>2, <2>3
  <2>. QED
    BY <2>1, <2>4, <2>5, <2>6
<1>4. /\ DOMAIN tokens' = 1..(tokenCtr + n)
      /\ \A t \in 1..tokenCtr : tokens'[t] = tokens[t]
      /\ \A i \in 1..n : tokens'[tokenCtr + i] = NewToken(c, b[i])
  <2>1. 1..tokenCtr \cup (tokenCtr + 1)..(tokenCtr + n) = 1..(tokenCtr + n)
    BY <1>2
  <2>2. ASSUME NEW i \in 1..n
        PROVE  /\ tokenCtr + i \in (tokenCtr + 1)..(tokenCtr + n)
               /\ (tokenCtr + i) - tokenCtr = i
    BY <1>2
  <2>3. \A t \in 1..tokenCtr : t \notin (tokenCtr + 1)..(tokenCtr + n)
    BY <1>2
  <2>. QED
    BY <1>3, <2>1, <2>2, <2>3
<1>5. \A k \in DOMAIN codeIndex : k \notin fresh
  BY <1>2, <1>3 DEF FreshInCampaign
<1>6. ASSUME NEW i \in 1..n
      PROVE  /\ <<c, b[i]>> \in fresh
             /\ (CHOOSE j \in 1..n : b[j] = <<c, b[i]>>[2]) = i
  <2>1. \A j \in 1..n : b[j] = b[i] => j = i
    BY <1>2, <1>3 DEF FreshInCampaign
  <2>. QED
    BY <2>1
<1>. HIDE DEF fresh
<1>7. /\ DOMAIN codeIndex' = DOMAIN codeIndex \cup fresh
      /\ \A k \in DOMAIN codeIndex : codeIndex'[k] = codeIndex[k]
  BY <1>3, <1>5
<1>8. ASSUME NEW i \in 1..n
      PROVE  codeIndex'[<<c, b[i]>>] = tokenCtr + i
  BY <1>3, <1>6
<1>. QED
  BY <1>2, <1>3, <1>4, <1>7, <1>8 DEF IssueEffect, WithinSupply, fresh

-----------------------------------------------------------------------------
LEMMA InitCodeIndexExact == Init => CodeIndexExact
BY DEF Init, CodeIndexExact

LEMMA IssueCodeIndexExact ==
    ASSUME TypeOK, CodeIndexExact, NEW a \in Addresses,
           NEW c \in DOMAIN campaigns, NEW b \in Batches, IssueUnique(a, c, b)
    PROVE  CodeIndexExact'
<1>1. PICK n \in Nat : IssueEffect(c, b, n)
  BY IssueEffectHolds
<1>2. tokenCtr \in Nat /\ DOMAIN tokens = 1..tokenCtr
  BY DEF TypeOK, TokensOK
<1>3. ASSUME NEW k \in DOMAIN codeIndex'
      PROVE  /\ codeIndex'[k] \in DOMAIN tokens'
             /\ tokens'[codeIndex'[k]].campaign = k[1]
             /\ tokens'[codeIndex'[k]].code = k[2]
  <2>1. CASE k \in DOMAIN codeIndex
    <3>1. /\ codeIndex'[k] = codeIndex[k] /\ codeIndex[k] \in 1..tokenCtr
          /\ tokens'[codeIndex[k]] = tokens[codeIndex[k]]
      BY <1>1, <1>2, <2>1 DEF IssueEffect, CodeIndexExact
    <3>2. codeIndex[k] \in 1..(tokenCtr + n)
      BY <1>2, <3>1
    <3>. QED
      BY <1>1, <2>1, <3>1, <3>2 DEF IssueEffect, CodeIndexExact
  <2>2. CASE k \notin DOMAIN codeIndex
    <3>1. PICK i \in 1..n : k = <<c, b[i]>>
      BY <1>1, <2>2 DEF IssueEffect
    <3>2. codeIndex'[k] = tokenCtr + i /\ tokens'[tokenCtr + i] = NewToken(c, b[i])
      BY <1>1, <3>1 DEF IssueEffect
    <3>3. tokenCtr + i \in 1..(tokenCtr + n)
      BY <1>2
    <3>. QED
      BY <1>1, <3>1, <3>2, <3>3 DEF IssueEffect, NewToken
  <2>. QED
    BY <2>1, <2>2
<1>4. ASSUME NEW t \in DOMAIN tokens'
      PROVE  /\ <<tokens'[t].campaign, tokens'[t].code>> \in DOMAIN codeIndex'
             /\ codeIndex'[<<tokens'[t].campaign, tokens'[t].code>>] = t
  <2>1. CASE t \in 1..tokenCtr
    <3>1. tokens'[t] = tokens[t]
      BY <1>1, <2>1 DEF IssueEffect
    <3>2. /\ <<tokens[t].campaign, tokens[t].code>> \in DOMAIN codeIndex
          /\ codeIndex[<<tokens[t].campaign, tokens[t].code>>] = t
      BY <1>2, <2>1 DEF CodeIndexExact
    <3>. QED
      BY <1>1, <3>1, <3>2 DEF IssueEffect
  <2>2. CASE t \notin 1..tokenCtr
    <3>1. PICK i \in 1..n : t = tokenCtr + i
      <4>1. t \in 1..(tokenCtr + n)
        BY <1>1 DEF IssueEffect
      <4>2. t - tokenCtr \in 1..n /\ t = tokenCtr + (t - tokenCtr)
        BY <1>2, <2>2, <4>1
      <4>. QED
        BY <4>2
    <3>2. tokens'[t].campaign = c /\ tokens'[t].code = b[i]
      <4>1. tokens'[tokenCtr + i] = NewToken(c, b[i])
        BY <1>1 DEF IssueEffect
      <4>. QED
        BY <3>1, <4>1 DEF NewToken
    <3>. QED
      BY <1>1, <3>1, <3>2 DEF IssueEffect
  <2>. QED
    BY <2>1, <2>2
<1>. QED
  BY <1>3, <1>4 DEF CodeIndexExact

\* Redeeming changes neither the campaign nor the code of any coupon.
LEMMA RedeemEffect ==
    ASSUME TypeOK, NEW a \in Addresses, NEW k \in DOMAIN codeIndex,
           NEW r \in Refs, RedeemUnique(a, k[1], k[2], r)
    PROVE  \E t \in DOMAIN tokens :
              /\ ~tokens[t].isBurned /\ tokens'[t].isBurned
              /\ tokens[t].campaign \in DOMAIN campaigns
              /\ DOMAIN tokens' = DOMAIN tokens
              /\ \A u \in DOMAIN tokens :
                    /\ tokens'[u].campaign = tokens[u].campaign
                    /\ tokens'[u].code = tokens[u].code
                    /\ u # t => tokens'[u] = tokens[u]
              /\ campaigns' = [campaigns EXCEPT ![tokens[t].campaign].burned = @ + 1]
<1>. DEFINE t == codeIndex[<<k[1], k[2]>>]
<1>1. /\ t \in DOMAIN tokens /\ ~tokens[t].isBurned
      /\ tokens[t].campaign \in DOMAIN campaigns
      /\ tokens' = [tokens EXCEPT ![t].isBurned = TRUE, ![t].redeemerRef = r,
                                  ![t].burnedAt = now]
      /\ campaigns' = [campaigns EXCEPT ![tokens[t].campaign].burned = @ + 1]
  BY DEF RedeemUnique, Redeemable
<1>. HIDE DEF t
<1>2. \A u \in DOMAIN tokens : tokens[u] \in CouponToken
  BY DEF TypeOK, TokensOK
<1>3. /\ tokens'[t].isBurned
      /\ \A u \in DOMAIN tokens :
            /\ tokens'[u].campaign = tokens[u].campaign
            /\ tokens'[u].code = tokens[u].code
            /\ u # t => tokens'[u] = tokens[u]
  BY <1>1, <1>2 DEF CouponToken
<1>. QED
  BY <1>1, <1>3

LEMMA NextCodeIndexExact ==
    TypeOK /\ CodeIndexExact /\ [Next]_vars => CodeIndexExact'
<1>. SUFFICES ASSUME TypeOK, CodeIndexExact, [Next]_vars PROVE CodeIndexExact'
  OBVIOUS
<1>1. ASSUME UNCHANGED <<tokens, codeIndex>> PROVE CodeIndexExact'
  BY <1>1 DEF CodeIndexExact
<1>2. ASSUME NEW a \in Addresses, NEW k \in DOMAIN codeIndex, NEW r \in Refs,
             RedeemUnique(a, k[1], k[2], r)
      PROVE  CodeIndexExact'
  <2>1. codeIndex' = codeIndex
    BY <1>2 DEF RedeemUnique
  <2>2. /\ DOMAIN tokens' = DOMAIN tokens
        /\ \A u \in DOMAIN tokens : /\ tokens'[u].campaign = tokens[u].campaign
                                    /\ tokens'[u].code = tokens[u].code
    BY <1>2, RedeemEffect
  <2>. QED
    BY <2>1, <2>2 DEF CodeIndexExact
<1>3. \/ UNCHANGED <<tokens, codeIndex>>
      \/ \E a \in Addresses, c \in DOMAIN campaigns, b \in Batches :
            IssueUnique(a, c, b)
      \/ \E a \in Addresses, k \in DOMAIN codeIndex, r \in Refs :
            RedeemUnique(a, k[1], k[2], r)
  BY DEF Next, Tick, CreateCampaign, AddDelegate, RemoveDelegate, vars, burnVars
<1>. QED
  BY <1>1, <1>2, <1>3, IssueCodeIndexExact

\* A code of a campaign leads to one coupon and every coupon is reached by
\* its own campaign and code, whatever campaigns share a code (ADR-009).
THEOREM CodeIndexSafe == Spec => []CodeIndexExact
<1>1. Init => TypeOK /\ CodeIndexExact
  BY InitTypeOK, InitCodeIndexExact
<1>2. TypeOK /\ CodeIndexExact /\ [Next]_vars => (TypeOK /\ CodeIndexExact)'
  BY NextTypeOK, NextCodeIndexExact
<1>. QED
  BY <1>1, <1>2, PTL DEF Spec

-----------------------------------------------------------------------------
\* Only finitely many coupons exist, so counting them makes sense.
LEMMA TokensFinite ==
    ASSUME TypeOK, NEW c
    PROVE  /\ IsFiniteSet(TokensOf(c)) /\ IsFiniteSet(BurnedOf(c))
           /\ Cardinality(TokensOf(c)) \in Nat
           /\ Cardinality(BurnedOf(c)) \in Nat
           /\ Cardinality(BurnedOf(c)) <= Cardinality(TokensOf(c))
<1>1. IsFiniteSet(1..tokenCtr)
  BY FS_Interval DEF TypeOK, TokensOK
<1>2. TokensOf(c) \in SUBSET (1..tokenCtr)
  BY DEF TokensOf, TypeOK, TokensOK
<1>3. IsFiniteSet(TokensOf(c))
  BY <1>1, <1>2, FS_Subset
<1>4. BurnedOf(c) \in SUBSET TokensOf(c)
  BY DEF BurnedOf
<1>5. IsFiniteSet(BurnedOf(c)) /\ Cardinality(BurnedOf(c)) <= Cardinality(TokensOf(c))
  BY <1>3, <1>4, FS_Subset
<1>. QED
  BY <1>3, <1>5, FS_CardinalityType

\* The part of SupplyIntegrity that has to be carried from step to step; that
\* burned never passes minted follows from what the two counters count.
Counted(c) ==
    /\ campaigns[c].minted = Cardinality(TokensOf(c))
    /\ campaigns[c].burned = Cardinality(BurnedOf(c))
    /\ campaigns[c].minted <= campaigns[c].totalSupply

LEMMA CountedSuffices ==
    ASSUME TypeOK, \A c \in DOMAIN campaigns : Counted(c)
    PROVE  SupplyIntegrity
BY TokensFinite DEF Counted, SupplyIntegrity

\* An action that leaves the coupons of a campaign, its counters and its
\* supply alone keeps it counted.
LEMMA CountedUnchanged ==
    ASSUME NEW c, Counted(c), campaigns'[c] = campaigns[c],
           TokensOf(c)' = TokensOf(c), BurnedOf(c)' = BurnedOf(c)
    PROVE  Counted(c)'
BY DEF Counted

LEMMA CreateCounted ==
    ASSUME TypeOK, CodeIndexExact, \A c \in DOMAIN campaigns : Counted(c),
           NEW a \in Addresses, NEW s \in 0..MaxSupply, NEW e \in 0..MaxTime,
           CreateCampaign(a, s, e)
    PROVE  \A c \in DOMAIN campaigns' : Counted(c)'
<1>. SUFFICES ASSUME NEW c \in DOMAIN campaigns' PROVE Counted(c)'
  OBVIOUS
<1>. DEFINE id == campCtr + 1
            new == [owner |-> a, totalSupply |-> s, minted |-> 0,
                    burned |-> 0, validUntil |-> e]
<1>1. /\ campaigns' = Put(campaigns, id, new)
      /\ tokens' = tokens /\ codeIndex' = codeIndex
  BY DEF CreateCampaign, burnVars
<1>2. TokensOf(c)' = TokensOf(c) /\ BurnedOf(c)' = BurnedOf(c)
  BY <1>1 DEF TokensOf, BurnedOf
<1>3. CASE c = id
  <2>1. \A t \in DOMAIN tokens : tokens[t].campaign \in 1..campCtr
    BY DEF TypeOK, CodeIndexExact, CodeIndexOK
  <2>2. TokensOf(c) = {} /\ BurnedOf(c) = {}
    BY <1>3, <2>1 DEF TokensOf, BurnedOf, TypeOK, CampaignsOK
  <2>3. campaigns'[c].minted = 0 /\ campaigns'[c].burned = 0
        /\ campaigns'[c].totalSupply = s
    BY <1>1, <1>3 DEF Put
  <2>. QED
    BY <1>2, <2>2, <2>3, FS_EmptySet, BoundsAssumption DEF Counted
<1>4. CASE c # id
  <2>1. c \in DOMAIN campaigns /\ campaigns'[c] = campaigns[c]
    BY <1>1, <1>4 DEF Put
  <2>. QED
    BY <1>2, <2>1, CountedUnchanged
<1>. QED
  BY <1>3, <1>4

LEMMA IssueCounted ==
    ASSUME TypeOK, \A c \in DOMAIN campaigns : Counted(c),
           NEW a \in Addresses, NEW c \in DOMAIN campaigns, NEW b \in Batches,
           IssueUnique(a, c, b)
    PROVE  \A d \in DOMAIN campaigns' : Counted(d)'
<1>1. PICK n \in Nat : IssueEffect(c, b, n)
  BY IssueEffectHolds
<1>. DEFINE new == (tokenCtr + 1)..(tokenCtr + n)
<1>2. tokenCtr \in Nat /\ DOMAIN tokens = 1..tokenCtr
  BY DEF TypeOK, TokensOK
<1>3. ASSUME NEW t \in new
      PROVE  tokens'[t].campaign = c /\ ~tokens'[t].isBurned
  <2>1. t - tokenCtr \in 1..n /\ t = tokenCtr + (t - tokenCtr)
    BY <1>2
  <2>2. tokens'[t] = NewToken(c, b[t - tokenCtr])
    BY <1>1, <2>1 DEF IssueEffect
  <2>. QED
    BY <2>2 DEF NewToken
<1>4. DOMAIN tokens' = DOMAIN tokens \cup new /\ DOMAIN tokens \cap new = {}
  <2>1. 1..(tokenCtr + n) = 1..tokenCtr \cup new /\ 1..tokenCtr \cap new = {}
    BY <1>2
  <2>. QED
    BY <1>1, <1>2, <2>1 DEF IssueEffect
<1>5. \A t \in DOMAIN tokens : tokens'[t] = tokens[t]
  BY <1>1, <1>2 DEF IssueEffect
<1>6. IsFiniteSet(new) /\ Cardinality(new) = n
  BY <1>2, FS_Interval
<1>. HIDE DEF new
<1>7. \A d : /\ TokensOf(d)' = IF d = c THEN TokensOf(d) \cup new ELSE TokensOf(d)
             /\ BurnedOf(d)' = BurnedOf(d)
  BY <1>3, <1>4, <1>5 DEF TokensOf, BurnedOf
<1>8. campaigns' = [campaigns EXCEPT ![c].minted = @ + n]
      /\ campaigns[c].minted + n <= campaigns[c].totalSupply
  BY <1>1 DEF IssueEffect
<1>9. ASSUME NEW d \in DOMAIN campaigns', d = c PROVE Counted(d)'
  <2>1. TokensOf(c) \cap new = {}
    BY <1>4 DEF TokensOf
  <2>2. Cardinality(TokensOf(c) \cup new) = Cardinality(TokensOf(c)) + n
    <3>1. Cardinality(TokensOf(c) \cup new) =
             Cardinality(TokensOf(c)) + Cardinality(new) - Cardinality({})
      BY <1>6, <2>1, TokensFinite, FS_Union
    <3>. QED
      BY <1>6, <3>1, TokensFinite, FS_EmptySet
  <2>3. /\ campaigns'[c].minted = campaigns[c].minted + n
        /\ campaigns'[c].burned = campaigns[c].burned
        /\ campaigns'[c].totalSupply = campaigns[c].totalSupply
    BY <1>8 DEF TypeOK, CampaignsOK, Campaign
  <2>. QED
    BY <1>7, <1>8, <1>9, <2>2, <2>3 DEF Counted
<1>10. ASSUME NEW d \in DOMAIN campaigns', d # c PROVE Counted(d)'
  BY <1>7, <1>8, <1>10, CountedUnchanged
<1>. QED
  BY <1>9, <1>10

LEMMA RedeemCounted ==
    ASSUME TypeOK, \A c \in DOMAIN campaigns : Counted(c),
           NEW a \in Addresses, NEW k \in DOMAIN codeIndex, NEW r \in Refs,
           RedeemUnique(a, k[1], k[2], r)
    PROVE  \A d \in DOMAIN campaigns' : Counted(d)'
<1>1. PICK t \in DOMAIN tokens :
         /\ ~tokens[t].isBurned /\ tokens'[t].isBurned
         /\ tokens[t].campaign \in DOMAIN campaigns
         /\ DOMAIN tokens' = DOMAIN tokens
         /\ \A u \in DOMAIN tokens :
               /\ tokens'[u].campaign = tokens[u].campaign
               /\ tokens'[u].code = tokens[u].code
               /\ u # t => tokens'[u] = tokens[u]
         /\ campaigns' = [campaigns EXCEPT ![tokens[t].campaign].burned = @ + 1]
  BY RedeemEffect
<1>. DEFINE home == tokens[t].campaign
<1>2. \A d : /\ TokensOf(d)' = TokensOf(d)
             /\ BurnedOf(d)' = IF d = home THEN BurnedOf(d) \cup {t} ELSE BurnedOf(d)
  BY <1>1 DEF TokensOf, BurnedOf
<1>3. t \notin BurnedOf(home)
  BY <1>1 DEF BurnedOf
<1>. HIDE DEF home
<1>4. ASSUME NEW d \in DOMAIN campaigns', d = home PROVE Counted(d)'
  <2>1. Cardinality(BurnedOf(home) \cup {t}) = Cardinality(BurnedOf(home)) + 1
    BY <1>3, TokensFinite, FS_AddElement
  <2>2. /\ home \in DOMAIN campaigns
        /\ campaigns'[home].minted = campaigns[home].minted
        /\ campaigns'[home].burned = campaigns[home].burned + 1
        /\ campaigns'[home].totalSupply = campaigns[home].totalSupply
    BY <1>1, ZenonT(30) DEF TypeOK, CampaignsOK, Campaign, home
  <2>. QED
    BY <1>2, <1>4, <2>1, <2>2 DEF Counted
<1>5. ASSUME NEW d \in DOMAIN campaigns', d # home PROVE Counted(d)'
  <2>1. d \in DOMAIN campaigns /\ campaigns'[d] = campaigns[d]
    BY <1>1, <1>5 DEF home
  <2>. QED
    BY <1>2, <1>5, <2>1, CountedUnchanged
<1>. QED
  BY <1>4, <1>5

LEMMA NextCounted ==
    ASSUME TypeOK, CodeIndexExact, \A c \in DOMAIN campaigns : Counted(c),
           [Next]_vars
    PROVE  \A c \in DOMAIN campaigns' : Counted(c)'
<1>1. ASSUME UNCHANGED <<tokens, campaigns>>
      PROVE  \A c \in DOMAIN campaigns' : Counted(c)'
  BY <1>1 DEF Counted, TokensOf, BurnedOf
<1>2. \/ UNCHANGED <<tokens, campaigns>>
      \/ \E a \in Addresses, s \in 0..MaxSupply, e \in 0..MaxTime :
            CreateCampaign(a, s, e)
      \/ \E a \in Addresses, c \in DOMAIN campaigns, b \in Batches :
            IssueUnique(a, c, b)
      \/ \E a \in Addresses, k \in DOMAIN codeIndex, r \in Refs :
            RedeemUnique(a, k[1], k[2], r)
  BY DEF Next, Tick, AddDelegate, RemoveDelegate, vars, burnVars
<1>. QED
  BY <1>1, <1>2, CreateCounted, IssueCounted, RedeemCounted

\* The minted and burned counters always count the coupons that exist and
\* that are burned, and neither passes the campaign's total supply.
THEOREM SupplySafe == Spec => []SupplyIntegrity
<1>. DEFINE IInv == /\ TypeOK /\ CodeIndexExact
                    /\ \A c \in DOMAIN campaigns : Counted(c)
<1>1. Init => IInv
  BY InitTypeOK, InitCodeIndexExact DEF Init
<1>2. IInv /\ [Next]_vars => IInv'
  BY NextTypeOK, NextCodeIndexExact, NextCounted
<1>3. IInv => SupplyIntegrity
  BY CountedSuffices
<1>. QED
  BY <1>1, <1>2, <1>3, PTL DEF Spec

-----------------------------------------------------------------------------
\* One step leaves every coupon in place, and a burned one as it is.
LEMMA StepKeepsTokens ==
    ASSUME TypeOK, [Next]_vars, NEW t \in DOMAIN tokens
    PROVE  /\ t \in DOMAIN tokens'
           /\ tokens'[t].campaign = tokens[t].campaign
           /\ tokens'[t].code = tokens[t].code
           /\ tokens[t].isBurned => tokens'[t] = tokens[t]
<1>. DEFINE Kept == /\ t \in DOMAIN tokens'
                    /\ tokens'[t].campaign = tokens[t].campaign
                    /\ tokens'[t].code = tokens[t].code
                    /\ tokens[t].isBurned => tokens'[t] = tokens[t]
<1>1. CASE UNCHANGED tokens
  BY <1>1
<1>2. ASSUME NEW a \in Addresses, NEW c \in DOMAIN campaigns, NEW b \in Batches,
             IssueUnique(a, c, b)
      PROVE  Kept
  <2>1. PICK n \in Nat : IssueEffect(c, b, n)
    BY <1>2, IssueEffectHolds
  <2>2. t \in 1..tokenCtr /\ tokenCtr \in Nat
    BY DEF TypeOK, TokensOK
  <2>. QED
    BY <2>1, <2>2 DEF IssueEffect
<1>3. ASSUME NEW a \in Addresses, NEW k \in DOMAIN codeIndex, NEW r \in Refs,
             RedeemUnique(a, k[1], k[2], r)
      PROVE  Kept
  BY <1>3, RedeemEffect
<1>4. \/ UNCHANGED tokens
      \/ \E a \in Addresses, c \in DOMAIN campaigns, b \in Batches :
            IssueUnique(a, c, b)
      \/ \E a \in Addresses, k \in DOMAIN codeIndex, r \in Refs :
            RedeemUnique(a, k[1], k[2], r)
  BY DEF Next, Tick, CreateCampaign, AddDelegate, RemoveDelegate, vars, burnVars
<1>. HIDE DEF Kept
<1>5. Kept
  BY <1>1, <1>2, <1>3, <1>4 DEF Kept
<1>. QED
  BY <1>5 DEF Kept

\* A burned coupon is never burned again nor edited, whoever asks: its
\* receipt on the ledger is final.
THEOREM BurnFinal == Spec => BurnIsFinal
<1>1. ASSUME TypeOK, [Next]_vars
      PROVE  [\A t \in DOMAIN tokens :
                 /\ t \in DOMAIN tokens'
                 /\ tokens'[t].campaign = tokens[t].campaign
                 /\ tokens'[t].code = tokens[t].code
                 /\ tokens[t].isBurned => tokens'[t] = tokens[t]]_vars
  BY <1>1, StepKeepsTokens
<1>. QED
  BY <1>1, TypeCorrect, PTL DEF Spec, BurnIsFinal

-----------------------------------------------------------------------------
\* One step keeps a campaign and its terms, and an expired campaign's coupons.
Frozen(c) ==
    /\ c \in DOMAIN campaigns'
    /\ campaigns'[c].owner = campaigns[c].owner
    /\ campaigns'[c].validUntil = campaigns[c].validUntil
    /\ campaigns'[c].totalSupply = campaigns[c].totalSupply
    /\ Expired(c) => /\ TokensOf(c)' = TokensOf(c)
                     /\ BurnedOf(c)' = BurnedOf(c)

LEMMA CreateFreezes ==
    ASSUME TypeOK, NEW a \in Addresses, NEW s \in 0..MaxSupply,
           NEW e \in 0..MaxTime, CreateCampaign(a, s, e),
           NEW c \in DOMAIN campaigns
    PROVE  Frozen(c)
<1>1. tokens' = tokens /\ c \in 1..campCtr /\ campCtr \in Nat
  BY DEF CreateCampaign, burnVars, TypeOK, CampaignsOK
<1>2. c \in DOMAIN campaigns' /\ campaigns'[c] = campaigns[c]
  BY <1>1 DEF CreateCampaign, Put
<1>3. TokensOf(c)' = TokensOf(c) /\ BurnedOf(c)' = BurnedOf(c)
  BY <1>1 DEF TokensOf, BurnedOf
<1>. QED
  BY <1>2, <1>3 DEF Frozen

\* issue_unique adds coupons to its own campaign only, and that one is live.
LEMMA IssueFreezes ==
    ASSUME TypeOK, NEW a \in Addresses, NEW d \in DOMAIN campaigns,
           NEW b \in Batches, IssueUnique(a, d, b), NEW c \in DOMAIN campaigns
    PROVE  Frozen(c)
<1>1. PICK n \in Nat : IssueEffect(d, b, n)
  BY IssueEffectHolds
<1>2. campaigns' = [campaigns EXCEPT ![d].minted = @ + n]
  BY <1>1 DEF IssueEffect
<1>3. campaigns[c] \in Campaign
  BY DEF TypeOK, CampaignsOK
<1>4. /\ c \in DOMAIN campaigns'
      /\ campaigns'[c].owner = campaigns[c].owner
      /\ campaigns'[c].validUntil = campaigns[c].validUntil
      /\ campaigns'[c].totalSupply = campaigns[c].totalSupply
  BY <1>2, <1>3 DEF Campaign
<1>5. ASSUME Expired(c)
      PROVE  TokensOf(c)' = TokensOf(c) /\ BurnedOf(c)' = BurnedOf(c)
  <2>1. c # d
    BY <1>5 DEF IssueUnique
  <2>2. tokenCtr \in Nat /\ DOMAIN tokens = 1..tokenCtr
    BY DEF TypeOK, TokensOK
  <2>3. \A t \in 1..tokenCtr : t \in DOMAIN tokens' /\ tokens'[t] = tokens[t]
    BY <1>1, <2>2 DEF IssueEffect
  <2>4. ASSUME NEW t \in DOMAIN tokens', t \notin 1..tokenCtr
        PROVE  tokens'[t].campaign = d
    <3>1. t \in 1..(tokenCtr + n)
      BY <1>1 DEF IssueEffect
    <3>2. t - tokenCtr \in 1..n /\ tokenCtr + (t - tokenCtr) = t
      BY <2>2, <2>4, <3>1
    <3>3. tokens'[t] = NewToken(d, b[t - tokenCtr])
      BY <1>1, <3>2 DEF IssueEffect
    <3>. QED
      BY <3>3 DEF NewToken
  <2>. QED
    BY <2>1, <2>2, <2>3, <2>4 DEF TokensOf, BurnedOf
<1>. QED
  BY <1>4, <1>5 DEF Frozen

\* redeem_unique burns one coupon, of a campaign that is live.
LEMMA RedeemFreezes ==
    ASSUME TypeOK, NEW a \in Addresses, NEW k \in DOMAIN codeIndex,
           NEW r \in Refs, RedeemUnique(a, k[1], k[2], r),
           NEW c \in DOMAIN campaigns
    PROVE  Frozen(c)
<1>. DEFINE t == codeIndex[<<k[1], k[2]>>]
            home == tokens[t].campaign
<1>1. /\ home \in DOMAIN campaigns /\ ~Expired(home) /\ t \in DOMAIN tokens
      /\ tokens' = [tokens EXCEPT ![t].isBurned = TRUE, ![t].redeemerRef = r,
                                  ![t].burnedAt = now]
      /\ campaigns' = [campaigns EXCEPT ![home].burned = @ + 1]
  BY DEF RedeemUnique, Redeemable
<1>2. tokens[t].campaign = home
  OBVIOUS
<1>. HIDE DEF t, home
<1>3. campaigns[c] \in Campaign /\ tokens[t] \in CouponToken
  BY <1>1 DEF TypeOK, CampaignsOK, TokensOK
<1>4. /\ c \in DOMAIN campaigns'
      /\ campaigns'[c].owner = campaigns[c].owner
      /\ campaigns'[c].validUntil = campaigns[c].validUntil
      /\ campaigns'[c].totalSupply = campaigns[c].totalSupply
  BY <1>1, <1>3 DEF Campaign
<1>5. /\ DOMAIN tokens' = DOMAIN tokens
      /\ \A u \in DOMAIN tokens : /\ tokens'[u].campaign = tokens[u].campaign
                                  /\ u # t => tokens'[u] = tokens[u]
  BY <1>1, <1>3 DEF CouponToken
<1>6. ASSUME Expired(c)
      PROVE  TokensOf(c)' = TokensOf(c) /\ BurnedOf(c)' = BurnedOf(c)
  <2>1. tokens[t].campaign # c
    BY <1>1, <1>2, <1>6
  <2>. QED
    BY <1>1, <1>5, <2>1 DEF TokensOf, BurnedOf
<1>. QED
  BY <1>4, <1>6 DEF Frozen

LEMMA StepFreezes ==
    ASSUME TypeOK, [Next]_vars, NEW c \in DOMAIN campaigns
    PROVE  Frozen(c)
<1>1. CASE UNCHANGED <<campaigns, tokens>>
  BY <1>1 DEF Frozen, TokensOf, BurnedOf
<1>2. \/ UNCHANGED <<campaigns, tokens>>
      \/ \E a \in Addresses, s \in 0..MaxSupply, e \in 0..MaxTime :
            CreateCampaign(a, s, e)
      \/ \E a \in Addresses, d \in DOMAIN campaigns, b \in Batches :
            IssueUnique(a, d, b)
      \/ \E a \in Addresses, k \in DOMAIN codeIndex, r \in Refs :
            RedeemUnique(a, k[1], k[2], r)
  BY DEF Next, Tick, AddDelegate, RemoveDelegate, vars, burnVars
<1>. QED
  BY <1>1, <1>2, CreateFreezes, IssueFreezes, RedeemFreezes

\* The terms of a campaign never change, and once valid_until has passed no
\* coupon of it is issued or burned, by any sequence of calls.
THEOREM ExpiryFrozen == Spec => ExpiredCampaignFrozen
<1>1. ASSUME TypeOK, [Next]_vars
      PROVE  [\A c \in DOMAIN campaigns :
                 /\ c \in DOMAIN campaigns'
                 /\ campaigns'[c].owner = campaigns[c].owner
                 /\ campaigns'[c].validUntil = campaigns[c].validUntil
                 /\ campaigns'[c].totalSupply = campaigns[c].totalSupply
                 /\ Expired(c) => /\ TokensOf(c)' = TokensOf(c)
                                  /\ BurnedOf(c)' = BurnedOf(c)]_vars
  BY <1>1, StepFreezes DEF Frozen
<1>. QED
  BY <1>1, TypeCorrect, PTL DEF Spec, ExpiredCampaignFrozen

-----------------------------------------------------------------------------
\* The owner index, as an induction can carry it: the slots in use are those
\* below the owner's count, each campaign is found at its own slot, and ids
\* grow with the slots.
SlotsDense ==
    \A a \in Addresses, i \in Nat :
        <<a, i>> \in DOMAIN ownerCampaign <=> i < ownerCount[a]

SlotsInverse ==
    \A c \in DOMAIN campaigns :
        /\ <<campaigns[c].owner, ownerSlot[c]>> \in DOMAIN ownerCampaign
        /\ ownerCampaign[<<campaigns[c].owner, ownerSlot[c]>>] = c

SlotsOrdered ==
    \A a \in Addresses, i, j \in Nat :
        i < j /\ j < ownerCount[a] =>
            ownerCampaign[<<a, i>>] < ownerCampaign[<<a, j>>]

OwnerInv == SlotsDense /\ SlotsInverse /\ SlotsOrdered

LEMMA InitOwnerInv == Init => OwnerInv
BY DEF Init, OwnerInv, SlotsDense, SlotsInverse, SlotsOrdered

\* The index grows by the pair <<a, ownerCount[a]>>, which was not in use,
\* and the id written there is larger than every id the index holds.
LEMMA CreateOwnerInv ==
    ASSUME TypeOK, OwnerInv, NEW a \in Addresses, NEW s \in 0..MaxSupply,
           NEW e \in 0..MaxTime, CreateCampaign(a, s, e)
    PROVE  OwnerInv'
<1>. DEFINE id == campCtr + 1
            slot == ownerCount[a]
<1>1. /\ campCtr \in Nat /\ ownerCount \in [Addresses -> Nat]
      /\ DOMAIN ownerCampaign \subseteq Addresses \X Nat
      /\ \A k \in DOMAIN ownerCampaign : ownerCampaign[k] \in 1..campCtr
      /\ DOMAIN ownerSlot = 1..campCtr /\ DOMAIN campaigns = 1..campCtr
      /\ campaigns \in [1..campCtr -> Campaign]
  BY DEF TypeOK, CampaignsOK, OwnerIndexOK
<1>2. /\ DOMAIN ownerCampaign' = DOMAIN ownerCampaign \cup {<<a, slot>>}
      /\ ownerCampaign'[<<a, slot>>] = id
      /\ \A k \in DOMAIN ownerCampaign :
            k # <<a, slot>> => ownerCampaign'[k] = ownerCampaign[k]
  BY DEF CreateCampaign, NextSlot, Put
<1>3. /\ ownerCount'[a] = slot + 1 /\ slot \in Nat
      /\ \A o \in Addresses : o # a => ownerCount'[o] = ownerCount[o]
  BY <1>1 DEF CreateCampaign, NextSlot
<1>4. /\ DOMAIN campaigns' = DOMAIN campaigns \cup {id}
      /\ campaigns'[id].owner = a /\ ownerSlot'[id] = slot
      /\ \A c \in DOMAIN campaigns : /\ campaigns'[c] = campaigns[c]
                                     /\ ownerSlot'[c] = ownerSlot[c]
  BY <1>1 DEF CreateCampaign, NextSlot, Put
<1>5. <<a, slot>> \notin DOMAIN ownerCampaign
  BY <1>3 DEF OwnerInv, SlotsDense
<1>. HIDE DEF slot, id
<1>6. SlotsDense'
  <2>. SUFFICES ASSUME NEW o \in Addresses, NEW i \in Nat
                PROVE  <<o, i>> \in DOMAIN ownerCampaign' <=> i < ownerCount'[o]
    BY DEF SlotsDense
  <2>1. <<o, i>> \in DOMAIN ownerCampaign <=> i < ownerCount[o]
    BY DEF OwnerInv, SlotsDense
  <2>2. CASE o = a
    <3>1. i < slot + 1 <=> (i < slot \/ i = slot)
      BY <1>3
    <3>2. <<o, i>> \in DOMAIN ownerCampaign'
             <=> <<o, i>> \in DOMAIN ownerCampaign \/ i = slot
      BY <1>2, <2>2
    <3>. QED
      BY <1>3, <2>1, <2>2, <3>1, <3>2 DEF slot
  <2>3. CASE o # a
    BY <1>2, <1>3, <2>1, <2>3
  <2>. QED
    BY <2>2, <2>3
<1>7. SlotsInverse'
  <2>. SUFFICES ASSUME NEW c \in DOMAIN campaigns'
                PROVE  /\ <<campaigns'[c].owner, ownerSlot'[c]>>
                             \in DOMAIN ownerCampaign'
                       /\ ownerCampaign'[<<campaigns'[c].owner, ownerSlot'[c]>>] = c
    BY DEF SlotsInverse
  <2>1. CASE c = id
    BY <1>2, <1>4, <2>1
  <2>2. CASE c \in DOMAIN campaigns
    <3>. DEFINE k == <<campaigns[c].owner, ownerSlot[c]>>
    <3>1. k \in DOMAIN ownerCampaign /\ ownerCampaign[k] = c
      BY <2>2 DEF OwnerInv, SlotsInverse
    <3>2. <<campaigns'[c].owner, ownerSlot'[c]>> = k
      BY <1>4, <2>2
    <3>. QED
      BY <1>2, <1>5, <3>1, <3>2
  <2>. QED
    BY <1>4, <2>1, <2>2
<1>8. SlotsOrdered'
  <2>. SUFFICES ASSUME NEW o \in Addresses, NEW i \in Nat, NEW j \in Nat,
                       i < j, j < ownerCount'[o]
                PROVE  ownerCampaign'[<<o, i>>] < ownerCampaign'[<<o, j>>]
    BY DEF SlotsOrdered
  <2>1. CASE j < ownerCount[o]
    <3>1. i < ownerCount[o]
      BY <1>1, <2>1
    <3>2. <<o, i>> \in DOMAIN ownerCampaign /\ <<o, j>> \in DOMAIN ownerCampaign
      BY <2>1, <3>1 DEF OwnerInv, SlotsDense
    <3>3. ownerCampaign[<<o, i>>] < ownerCampaign[<<o, j>>]
      BY <2>1 DEF OwnerInv, SlotsOrdered
    <3>. QED
      BY <1>2, <1>5, <3>2, <3>3
  <2>2. CASE ~(j < ownerCount[o])
    <3>1. o = a
      BY <1>3, <2>2
    <3>2. j = slot /\ i < ownerCount[o]
      BY <1>1, <1>3, <2>2, <3>1 DEF slot
    <3>3. <<o, i>> \in DOMAIN ownerCampaign
      BY <3>2 DEF OwnerInv, SlotsDense
    <3>4. ownerCampaign'[<<o, i>>] \in 1..campCtr
      BY <1>1, <1>2, <1>5, <3>3
    <3>. QED
      BY <1>1, <1>2, <3>1, <3>2, <3>4 DEF id
  <2>. QED
    BY <2>1, <2>2
<1>. QED
  BY <1>6, <1>7, <1>8 DEF OwnerInv

LEMMA NextOwnerInv == TypeOK /\ OwnerInv /\ [Next]_vars => OwnerInv'
<1>. SUFFICES ASSUME TypeOK, OwnerInv, [Next]_vars PROVE OwnerInv'
  OBVIOUS
<1>1. ASSUME UNCHANGED indexVars,
             DOMAIN campaigns' = DOMAIN campaigns,
             \A c \in DOMAIN campaigns : campaigns'[c].owner = campaigns[c].owner
      PROVE  OwnerInv'
  BY <1>1 DEF OwnerInv, SlotsDense, SlotsInverse, SlotsOrdered, indexVars
<1>2. CASE UNCHANGED campaigns /\ UNCHANGED indexVars
  BY <1>1, <1>2
<1>3. ASSUME NEW a \in Addresses, NEW d \in DOMAIN campaigns, NEW b \in Batches,
             IssueUnique(a, d, b)
      PROVE  OwnerInv'
  <2>1. UNCHANGED indexVars /\ DOMAIN campaigns' = DOMAIN campaigns
    BY <1>3 DEF IssueUnique
  <2>. QED
    BY <1>1, <1>3, <2>1, IssueFreezes DEF Frozen
<1>4. ASSUME NEW a \in Addresses, NEW k \in DOMAIN codeIndex, NEW r \in Refs,
             RedeemUnique(a, k[1], k[2], r)
      PROVE  OwnerInv'
  <2>1. UNCHANGED indexVars /\ DOMAIN campaigns' = DOMAIN campaigns
    BY <1>4 DEF RedeemUnique
  <2>. QED
    BY <1>1, <1>4, <2>1, RedeemFreezes DEF Frozen
<1>5. \/ UNCHANGED campaigns /\ UNCHANGED indexVars
      \/ \E a \in Addresses, s \in 0..MaxSupply, e \in 0..MaxTime :
            CreateCampaign(a, s, e)
      \/ \E a \in Addresses, d \in DOMAIN campaigns, b \in Batches :
            IssueUnique(a, d, b)
      \/ \E a \in Addresses, k \in DOMAIN codeIndex, r \in Refs :
            RedeemUnique(a, k[1], k[2], r)
  BY DEF Next, Tick, AddDelegate, RemoveDelegate, vars
<1>. QED
  BY <1>2, <1>3, <1>4, <1>5, CreateOwnerInv

LEMMA OwnerInvSuffices == TypeOK /\ OwnerInv => OwnerIndexExact
<1>. SUFFICES ASSUME TypeOK, OwnerInv PROVE OwnerIndexExact
  OBVIOUS
<1>1. /\ campCtr \in Nat /\ ownerCount \in [Addresses -> Nat]
      /\ DOMAIN ownerCampaign \subseteq Addresses \X Nat
  BY DEF TypeOK, CampaignsOK, OwnerIndexOK
<1>2. DOMAIN ownerCampaign =
         UNION {{a} \X (0..(ownerCount[a] - 1)) : a \in Addresses}
  <2>1. ASSUME NEW k \in DOMAIN ownerCampaign
        PROVE  k \in UNION {{a} \X (0..(ownerCount[a] - 1)) : a \in Addresses}
    <3>1. k = <<k[1], k[2]>> /\ k[1] \in Addresses /\ k[2] \in Nat
      BY <1>1
    <3>2. k[2] < ownerCount[k[1]]
      BY <3>1 DEF OwnerInv, SlotsDense
    <3>3. k[2] \in 0..(ownerCount[k[1]] - 1)
      BY <1>1, <3>1, <3>2
    <3>. QED
      BY <3>1, <3>3
  <2>2. ASSUME NEW a \in Addresses, NEW i \in 0..(ownerCount[a] - 1)
        PROVE  <<a, i>> \in DOMAIN ownerCampaign
    <3>1. i \in Nat /\ i < ownerCount[a]
      BY <1>1
    <3>. QED
      BY <3>1 DEF OwnerInv, SlotsDense
  <2>. QED
    BY <2>1, <2>2
<1>3. ASSUME NEW a \in Addresses, NEW i \in 0..campCtr, NEW j \in 0..campCtr,
             i < j, <<a, j>> \in DOMAIN ownerCampaign
      PROVE  ownerCampaign[<<a, i>>] < ownerCampaign[<<a, j>>]
  <2>1. i \in Nat /\ j \in Nat
    BY <1>1
  <2>2. j < ownerCount[a]
    BY <1>3, <2>1 DEF OwnerInv, SlotsDense
  <2>. QED
    BY <1>3, <2>1, <2>2 DEF OwnerInv, SlotsOrdered
<1>. QED
  BY <1>2, <1>3 DEF OwnerIndexExact, OwnerInv, SlotsInverse

\* Each owner's campaigns stand once, in creation order, in the slots below
\* the owner's count, whatever campaigns other owners open in between.
THEOREM OwnerIndexSafe == Spec => []OwnerIndexExact
<1>1. Init => TypeOK /\ OwnerInv
  BY InitTypeOK, InitOwnerInv
<1>2. TypeOK /\ OwnerInv /\ [Next]_vars => (TypeOK /\ OwnerInv)'
  BY NextTypeOK, NextOwnerInv
<1>. QED
  BY <1>1, <1>2, OwnerInvSuffices, PTL DEF Spec
-----------------------------------------------------------------------------
\* The coupons of a campaign and what they are counted by, together.
CountInv == TypeOK /\ CodeIndexExact /\ \A c \in DOMAIN campaigns : Counted(c)

LEMMA CountInvHolds == Spec => []CountInv
<1>1. Init => CountInv
  BY InitTypeOK, InitCodeIndexExact DEF Init, CountInv
<1>2. CountInv /\ [Next]_vars => CountInv'
  BY NextTypeOK, NextCodeIndexExact, NextCounted DEF CountInv
<1>. QED
  BY <1>1, <1>2, PTL DEF Spec

\* Some coupons of one campaign have as many codes as they are.
CodesAmong(S) == {tokens[t].code : t \in S}

LEMMA CodesDistinct ==
    ASSUME TypeOK, CodeIndexExact, NEW c, NEW S \in SUBSET TokensOf(c)
    PROVE  IsFiniteSet(CodesAmong(S)) /\ Cardinality(CodesAmong(S)) = Cardinality(S)
<1>. DEFINE codeOf == [t \in S |-> tokens[t].code]
<1>1. codeOf \in Surjection(S, CodesAmong(S))
  BY DEF Surjection, CodesAmong
<1>2. codeOf \in Injection(S, CodesAmong(S))
  <2>1. ASSUME NEW t \in S, NEW u \in S, codeOf[t] = codeOf[u] PROVE t = u
    <3>1. /\ tokens[t].campaign = c /\ tokens[u].campaign = c
          /\ t \in DOMAIN tokens /\ u \in DOMAIN tokens
      BY DEF TokensOf
    <3>2. tokens[t].code = tokens[u].code
      BY <2>1
    <3>3. /\ codeIndex[<<tokens[t].campaign, tokens[t].code>>] = t
          /\ codeIndex[<<tokens[u].campaign, tokens[u].code>>] = u
      BY <3>1 DEF CodeIndexExact
    <3>. QED
      BY <3>1, <3>2, <3>3
  <2>2. codeOf \in [S -> CodesAmong(S)] /\ DOMAIN codeOf = S
    BY <1>1 DEF Surjection
  <2>. HIDE DEF codeOf
  <2>. QED
    BY <2>1, <2>2 DEF Injection, IsInjective
<1>3. IsFiniteSet(S)
  BY TokensFinite, FS_Subset
<1>. HIDE DEF codeOf
<1>. QED
  BY <1>1, <1>2, <1>3, FS_Surjection

\* is_valid, in terms of the index alone: the coupon it finds is one of c.
LEMMA ValidMeans ==
    ASSUME TypeOK, CodeIndexExact, NEW c \in DOMAIN campaigns, NEW code
    PROVE  IsValid(c, code) <=>
              /\ ~Expired(c)
              /\ <<c, code>> \in DOMAIN codeIndex
              /\ ~tokens[codeIndex[<<c, code>>]].isBurned
<1>1. now \in Nat /\ campaigns[c].validUntil \in Nat
  BY DEF TypeOK, CampaignsOK, Campaign
<1>2. ~Expired(c) <=> now <= campaigns[c].validUntil
  BY <1>1 DEF Expired
<1>3. <<c, code>> \in DOMAIN codeIndex =>
         /\ codeIndex[<<c, code>>] \in DOMAIN tokens
         /\ tokens[codeIndex[<<c, code>>]].campaign = c
  BY DEF CodeIndexExact
<1>. QED
  BY <1>2, <1>3 DEF IsValid, Verify

\* While c is open, the codes is_valid accepts are those of its unburned coupons.
LEMMA ValidCodes ==
    ASSUME TypeOK, CodeIndexExact, NEW c \in DOMAIN campaigns
    PROVE  {code \in Codes : IsValid(c, code)} =
              IF Expired(c) THEN {} ELSE CodesAmong(TokensOf(c) \ BurnedOf(c))
<1>1. CASE Expired(c)
  BY <1>1, ValidMeans
<1>2. CASE ~Expired(c)
  <2>1. ASSUME NEW code \in Codes, IsValid(c, code)
        PROVE  code \in CodesAmong(TokensOf(c) \ BurnedOf(c))
    <3>. DEFINE t == codeIndex[<<c, code>>]
    <3>1. <<c, code>> \in DOMAIN codeIndex /\ ~tokens[t].isBurned
      BY <2>1, ValidMeans
    <3>2. t \in DOMAIN tokens /\ tokens[t].campaign = c /\ tokens[t].code = code
      BY <3>1 DEF CodeIndexExact
    <3>. HIDE DEF t
    <3>. QED
      BY <3>1, <3>2 DEF CodesAmong, TokensOf, BurnedOf
  <2>2. ASSUME NEW t \in TokensOf(c) \ BurnedOf(c)
        PROVE  tokens[t].code \in Codes /\ IsValid(c, tokens[t].code)
    <3>1. t \in DOMAIN tokens /\ tokens[t].campaign = c /\ ~tokens[t].isBurned
      BY DEF TokensOf, BurnedOf
    <3>2. tokens[t].code \in Codes
      BY <3>1 DEF TypeOK, TokensOK, CouponToken
    <3>3. <<c, tokens[t].code>> \in DOMAIN codeIndex /\ codeIndex[<<c, tokens[t].code>>] = t
      BY <3>1 DEF CodeIndexExact
    <3>. QED
      BY <1>2, <3>1, <3>2, <3>3, ValidMeans
  <2>. QED
    BY <1>2, <2>1, <2>2 DEF CodesAmong
<1>. QED
  BY <1>1, <1>2

LEMMA StatsFollow == CountInv => StatsMatchCodes
<1>. SUFFICES ASSUME CountInv, NEW c \in DOMAIN campaigns
              PROVE  Cardinality({code \in Codes : IsValid(c, code)}) =
                        IF CampaignStats(c).isExpired THEN 0 ELSE CampaignStats(c).available
  BY DEF StatsMatchCodes
<1>. USE DEF CountInv
<1>1. CampaignStats(c).isExpired <=> Expired(c)
  BY DEF CampaignStats, Expired
<1>2. CASE Expired(c)
  BY <1>1, <1>2, ValidCodes, FS_EmptySet
<1>3. CASE ~Expired(c)
  <2>. DEFINE live == TokensOf(c) \ BurnedOf(c)
  <2>1. Cardinality({code \in Codes : IsValid(c, code)}) = Cardinality(live)
    <3>1. live \in SUBSET TokensOf(c)
      OBVIOUS
    <3>2. Cardinality(CodesAmong(live)) = Cardinality(live)
      BY <3>1, CodesDistinct
    <3>. QED
      BY <1>3, <3>2, ValidCodes
  <2>2. Cardinality(live) = Cardinality(TokensOf(c)) - Cardinality(BurnedOf(c))
    <3>1. TokensOf(c) \cap BurnedOf(c) = BurnedOf(c)
      BY DEF BurnedOf
    <3>. QED
      BY <3>1, TokensFinite, FS_Difference, ZenonT(30)
  <2>3. /\ Cardinality(TokensOf(c)) \in Nat /\ Cardinality(BurnedOf(c)) \in Nat
        /\ Cardinality(BurnedOf(c)) <= Cardinality(TokensOf(c))
    BY TokensFinite
  <2>4. /\ campaigns[c].minted = Cardinality(TokensOf(c))
        /\ campaigns[c].burned = Cardinality(BurnedOf(c))
    BY DEF Counted
  <2>. HIDE DEF live
  <2>5. CampaignStats(c).available = Cardinality(live)
    BY <2>2, <2>3, <2>4 DEF CampaignStats
  <2>. QED
    BY <1>1, <1>3, <2>1, <2>5
<1>. QED
  BY <1>2, <1>3

\* The number a merchant's dashboard shows, computed from two counters, is
\* the number of codes that can still be redeemed, and none after expiry.
THEOREM StatsSafe == Spec => []StatsMatchCodes
BY CountInvHolds, StatsFollow, PTL
-----------------------------------------------------------------------------
\* The two variables of the abstract coupon, as CouponReads maps them.
AbsCap == [c \in 1..MaxCampaigns |->
             IF c \in DOMAIN campaigns THEN campaigns[c].totalSupply ELSE 0]
AbsStatus == [ck \in (1..MaxCampaigns) \X Codes |-> StatusOf(ck[1], ck[2])]

\* The refinement needs, besides, that every campaign is among the abstract ones.
InBounds == campCtr <= MaxCampaigns
RefineInv == CountInv /\ InBounds

LEMMA RefineInvHolds == Spec => []RefineInv
<1>1. Init => InBounds
  BY BoundsAssumption DEF Init, InBounds
<1>2. CountInv /\ InBounds /\ [Next]_vars => InBounds'
  <2>. SUFFICES ASSUME CountInv, InBounds, [Next]_vars
                PROVE  InBounds'
    OBVIOUS
  <2>1. campCtr \in Nat /\ MaxCampaigns \in Nat
    BY BoundsAssumption, SMTT(30) DEF CountInv, TypeOK, CampaignsOK
  <2>2. campCtr' = campCtr \/ (campCtr < MaxCampaigns /\ campCtr' = campCtr + 1)
    BY ZenonT(30) DEF Next, Tick, CreateCampaign, AddDelegate, RemoveDelegate, IssueUnique, RedeemUnique, vars
  <2>. QED
    BY <2>1, <2>2 DEF InBounds
<1>. QED
  BY <1>1, <1>2, CountInvHolds, PTL DEF Spec, RefineInv

LEMMA InitRefines == Init => Promise!Init
<1>. SUFFICES ASSUME Init PROVE Promise!Init
  OBVIOUS
<1>1. DOMAIN campaigns = {} /\ DOMAIN codeIndex = {}
  BY DEF Init
<1>. QED
  BY <1>1 DEF Promise!Init, StatusOf

\* The codes a campaign has issued, counted by its minted counter.
LEMMA IssuedCodes ==
    ASSUME CountInv, NEW c \in DOMAIN campaigns, c \in 1..MaxCampaigns
    PROVE  /\ Promise!Issued(c) = {k \in Codes : <<c, k>> \in DOMAIN codeIndex}
           /\ Cardinality(Promise!Issued(c)) = campaigns[c].minted
<1>. USE DEF CountInv
<1>1. Promise!Issued(c) = {k \in Codes : <<c, k>> \in DOMAIN codeIndex}
  BY DEF Promise!Issued, StatusOf
<1>2. {k \in Codes : <<c, k>> \in DOMAIN codeIndex} = CodesAmong(TokensOf(c))
  <2>1. ASSUME NEW k \in Codes, <<c, k>> \in DOMAIN codeIndex
        PROVE  k \in CodesAmong(TokensOf(c))
    <3>. DEFINE t == codeIndex[<<c, k>>]
    <3>1. t \in DOMAIN tokens /\ tokens[t].campaign = c /\ tokens[t].code = k
      BY <2>1 DEF CodeIndexExact
    <3>. HIDE DEF t
    <3>. QED
      BY <3>1 DEF CodesAmong, TokensOf
  <2>2. ASSUME NEW t \in TokensOf(c)
        PROVE  tokens[t].code \in Codes /\ <<c, tokens[t].code>> \in DOMAIN codeIndex
    <3>1. t \in DOMAIN tokens /\ tokens[t].campaign = c
      BY DEF TokensOf
    <3>. QED
      BY <3>1 DEF TypeOK, TokensOK, CouponToken, CodeIndexExact
  <2>. QED
    BY <2>1, <2>2 DEF CodesAmong
<1>3. Cardinality(CodesAmong(TokensOf(c))) = Cardinality(TokensOf(c))
  BY CodesDistinct
<1>. QED
  BY <1>1, <1>2, <1>3 DEF Counted

\* Steps that touch neither campaigns nor coupons are abstract stutters.
LEMMA StutterRefines ==
    ASSUME UNCHANGED <<campaigns, tokens, codeIndex>>
    PROVE  AbsCap' = AbsCap /\ AbsStatus' = AbsStatus
BY DEF AbsCap, AbsStatus, StatusOf

LEMMA CreateRefines ==
    ASSUME RefineInv, NEW a \in Addresses, NEW s \in 0..MaxSupply,
           NEW e \in 0..MaxTime, CreateCampaign(a, s, e)
    PROVE  Promise!Next
<1>. DEFINE id == campCtr + 1
<1>1. /\ campCtr \in Nat /\ DOMAIN campaigns = 1..campCtr /\ MaxCampaigns \in Nat
      /\ campCtr < MaxCampaigns /\ s # 0
      /\ DOMAIN campaigns' = DOMAIN campaigns \cup {id}
      /\ campaigns'[id].totalSupply = s
      /\ \A c \in DOMAIN campaigns : campaigns'[c] = campaigns[c]
      /\ UNCHANGED <<tokens, codeIndex>>
  BY BoundsAssumption DEF RefineInv, InBounds, CountInv, TypeOK, CampaignsOK, CreateCampaign,
                          Put, burnVars
<1>2. id \in 1..MaxCampaigns /\ id \notin DOMAIN campaigns /\ s \in 1..MaxSupply
  BY <1>1, BoundsAssumption
<1>. HIDE DEF id
<1>3. AbsCap[id] = 0 /\ AbsCap' = [AbsCap EXCEPT ![id] = s]
  BY <1>1, <1>2 DEF AbsCap
<1>4. AbsStatus' = AbsStatus
  BY <1>1 DEF AbsStatus, StatusOf
<1>5. Promise!Open(id, s)
  BY <1>3, <1>4 DEF Promise!Open, AbsCap, AbsStatus
<1>. QED
  BY <1>2, <1>5 DEF Promise!Next

\* SingleUseCoupon counts with its own copy of the library's operator.
LEMMA SameCount == \A S : Promise!Cardinality(S) = Cardinality(S)
BY DEF Promise!Cardinality, Cardinality, Promise!IsFiniteSet, IsFiniteSet

LEMMA IssueRefines ==
    ASSUME RefineInv, NEW a \in Addresses, NEW c \in DOMAIN campaigns,
           NEW b \in Batches, IssueUnique(a, c, b)
    PROVE  Promise!Next
<1>. USE DEF RefineInv, CountInv
<1>1. PICK n \in 0..(MaxBatch + 1) : /\ b \in [1..n -> Codes \cup BadCodes]
                                     /\ Cardinality(DOMAIN b) = n
  BY BatchLength
<1>2. n \in Nat /\ n # 0 /\ DOMAIN b = 1..n
  BY <1>1, BoundsAssumption DEF IssueUnique
<1>. DEFINE batch == {b[i] : i \in 1..n}
<1>3. /\ FreshInCampaign(c, b) /\ IssueEffect(c, b, n)
  <2>1. PICK m \in Nat : IssueEffect(c, b, m)
    BY IssueEffectHolds
  <2>2. tokenCtr' = tokenCtr + n /\ tokenCtr' = tokenCtr + m /\ tokenCtr \in Nat
    BY <1>1, <2>1 DEF IssueUnique, IssueEffect, TypeOK, TokensOK
  <2>3. m = n
    BY <1>2, <2>2
  <2>. QED
    BY <2>1, <2>3 DEF IssueUnique
<1>4. batch \in SUBSET Codes /\ batch # {} /\ Cardinality(batch) = n
  <2>1. \A i \in 1..n : /\ b[i] \in Codes
                        /\ \A j \in 1..n : b[j] = b[i] => j = i
    BY <1>2, <1>3 DEF FreshInCampaign
  <2>2. b \in Surjection(1..n, batch) /\ b \in Injection(1..n, batch)
    <3>1. b \in [1..n -> batch]
      BY <1>1
    <3>. QED
      BY <2>1, <3>1 DEF Surjection, Injection, IsInjective
  <2>3. IsFiniteSet(1..n) /\ Cardinality(1..n) = n
    BY <1>2, FS_Interval
  <2>4. Cardinality(batch) = n
    <3>. HIDE DEF batch
    <3>. QED
      BY <2>2, <2>3, FS_Surjection
  <2>5. b[1] \in batch
    BY <1>2
  <2>. QED
    BY <2>1, <2>4, <2>5
<1>5. c \in 1..MaxCampaigns
  BY BoundsAssumption DEF InBounds, TypeOK, CampaignsOK
<1>6. batch \cap Promise!Issued(c) = {}
  <2>1. \A i \in 1..n : <<c, b[i]>> \notin DOMAIN codeIndex
    BY <1>2, <1>3 DEF FreshInCampaign
  <2>2. Promise!Issued(c) = {k \in Codes : <<c, k>> \in DOMAIN codeIndex}
    BY <1>5, IssuedCodes
  <2>. QED
    BY <2>1, <2>2
<1>7. Cardinality(Promise!Issued(c)) + Cardinality(batch) <= AbsCap[c]
  BY <1>3, <1>4, <1>5, IssuedCodes DEF IssueEffect, AbsCap
<1>8. AbsCap' = AbsCap
  <2>1. /\ DOMAIN campaigns' = DOMAIN campaigns
        /\ \A d \in DOMAIN campaigns : campaigns'[d].totalSupply = campaigns[d].totalSupply
    BY IssueFreezes, <1>3 DEF Frozen, IssueEffect
  <2>. QED
    BY <2>1 DEF AbsCap
<1>9. AbsStatus' = [ck \in DOMAIN AbsStatus |->
                      IF ck \in {c} \X batch THEN "available" ELSE AbsStatus[ck]]
  <2>1. /\ DOMAIN codeIndex' = DOMAIN codeIndex \cup ({c} \X batch)
        /\ \A k \in DOMAIN codeIndex : /\ codeIndex'[k] = codeIndex[k]
                                       /\ tokens'[codeIndex[k]] = tokens[codeIndex[k]]
                                       /\ k \notin {c} \X batch
        /\ \A k \in {c} \X batch : ~tokens'[codeIndex'[k]].isBurned
    <3>1. {<<c, b[i]>> : i \in 1..n} = {c} \X batch
      OBVIOUS
    <3>2. \A k \in DOMAIN codeIndex : codeIndex[k] \in 1..tokenCtr
      BY DEF TypeOK, CodeIndexOK
    <3>3. \A k \in DOMAIN codeIndex : k \notin {c} \X batch
      BY <1>2, <1>3 DEF FreshInCampaign
    <3>4. ASSUME NEW k \in {c} \X batch PROVE ~tokens'[codeIndex'[k]].isBurned
      <4>1. PICK i \in 1..n : k = <<c, b[i]>>
        BY <3>1
      <4>2. codeIndex'[<<c, b[i]>>] = tokenCtr + i /\ tokens'[tokenCtr + i] = NewToken(c, b[i])
        BY <1>3 DEF IssueEffect
      <4>. QED
        BY <4>1, <4>2 DEF NewToken
    <3>. HIDE DEF batch
    <3>. QED
      BY <1>3, <3>1, <3>2, <3>3, <3>4 DEF IssueEffect
  <2>. HIDE DEF batch
  <2>2. ASSUME NEW ck \in (1..MaxCampaigns) \X Codes
        PROVE  StatusOf(ck[1], ck[2])' =
                  IF ck \in {c} \X batch THEN "available" ELSE StatusOf(ck[1], ck[2])
    <3>1. <<ck[1], ck[2]>> = ck
      OBVIOUS
    <3>. QED
      BY <2>1, <3>1 DEF StatusOf
  <2>. QED
    BY <2>2 DEF AbsStatus
<1>10. Promise!Issue(c, batch)
  <2>. HIDE DEF batch
  <2>. QED
    BY <1>4, <1>6, <1>7, <1>8, <1>9, SameCount DEF Promise!Issue, AbsCap, AbsStatus
<1>. QED
  BY <1>4, <1>5, <1>10 DEF Promise!Next

LEMMA RedeemRefines ==
    ASSUME RefineInv, NEW a \in Addresses, NEW k \in DOMAIN codeIndex,
           NEW r \in Refs, RedeemUnique(a, k[1], k[2], r)
    PROVE  Promise!Next
<1>. USE DEF RefineInv, CountInv
<1>. DEFINE t == codeIndex[k]
<1>1. k \in (1..campCtr) \X Codes /\ k = <<k[1], k[2]>>
  BY DEF TypeOK, CodeIndexOK
<1>2. k \in (1..MaxCampaigns) \X Codes
  BY <1>1, BoundsAssumption DEF InBounds, TypeOK, CampaignsOK
<1>3. /\ t \in DOMAIN tokens /\ ~tokens[t].isBurned
      /\ tokens' = [tokens EXCEPT ![t].isBurned = TRUE, ![t].redeemerRef = r,
                                  ![t].burnedAt = now]
      /\ codeIndex' = codeIndex
  BY <1>1 DEF RedeemUnique, Redeemable
<1>4. \A u \in DOMAIN tokens : tokens[u] \in CouponToken
  BY DEF TypeOK, TokensOK
<1>5. \A l \in DOMAIN codeIndex :
         /\ codeIndex[l] \in DOMAIN tokens
         /\ codeIndex[l] = t => l = k
  <2>1. ASSUME NEW l \in DOMAIN codeIndex, codeIndex[l] = t PROVE l = k
    <3>1. l = <<l[1], l[2]>>
      BY DEF TypeOK, CodeIndexOK
    <3>2. l[1] = tokens[t].campaign /\ l[2] = tokens[t].code
      BY <2>1 DEF CodeIndexExact
    <3>3. k[1] = tokens[t].campaign /\ k[2] = tokens[t].code
      BY DEF CodeIndexExact
    <3>. QED
      BY <1>1, <3>1, <3>2, <3>3
  <2>. QED
    BY <2>1 DEF CodeIndexExact
<1>. HIDE DEF t
<1>6. /\ tokens'[t].isBurned
      /\ \A u \in DOMAIN tokens : u # t => tokens'[u] = tokens[u]
  BY <1>3, <1>4 DEF CouponToken
<1>7. ASSUME NEW ck \in (1..MaxCampaigns) \X Codes
      PROVE  StatusOf(ck[1], ck[2])' = IF ck = k THEN "redeemed" ELSE StatusOf(ck[1], ck[2])
  <2>1. <<ck[1], ck[2]>> = ck
    OBVIOUS
  <2>2. CASE ck = k
    BY <1>3, <1>6, <2>1, <2>2 DEF StatusOf, t
  <2>3. CASE ck # k
    <3>1. ck \in DOMAIN codeIndex => tokens'[codeIndex[ck]] = tokens[codeIndex[ck]]
      BY <1>5, <1>6, <2>3
    <3>. QED
      BY <1>3, <2>1, <2>3, <3>1 DEF StatusOf
  <2>. QED
    BY <2>2, <2>3
<1>8. AbsStatus' = [AbsStatus EXCEPT ![k] = "redeemed"]
  BY <1>2, <1>7 DEF AbsStatus
<1>9. AbsStatus[k] = "available"
  BY <1>1, <1>2, <1>3 DEF AbsStatus, StatusOf, t
<1>10. AbsCap' = AbsCap
  <2>1. DOMAIN campaigns' = DOMAIN campaigns
    BY DEF RedeemUnique
  <2>2. \A d \in DOMAIN campaigns : campaigns'[d].totalSupply = campaigns[d].totalSupply
    BY RedeemFreezes DEF Frozen
  <2>. QED
    BY <2>1, <2>2 DEF AbsCap
<1>11. Promise!Redeem(k[1], k[2])
  BY <1>1, <1>8, <1>9, <1>10 DEF Promise!Redeem, AbsCap, AbsStatus
<1>. QED
  BY <1>2, <1>11 DEF Promise!Next

LEMMA StepRefines ==
    RefineInv /\ [Next]_vars => [Promise!Next]_<<AbsCap, AbsStatus>>
<1>. SUFFICES ASSUME RefineInv, [Next]_vars
              PROVE  Promise!Next \/ (AbsCap' = AbsCap /\ AbsStatus' = AbsStatus)
  OBVIOUS
<1>1. \/ UNCHANGED <<campaigns, tokens, codeIndex>>
      \/ \E a \in Addresses, s \in 0..MaxSupply, e \in 0..MaxTime :
            CreateCampaign(a, s, e)
      \/ \E a \in Addresses, c \in DOMAIN campaigns, b \in Batches :
            IssueUnique(a, c, b)
      \/ \E a \in Addresses, k \in DOMAIN codeIndex, r \in Refs :
            RedeemUnique(a, k[1], k[2], r)
  BY DEF Next, Tick, AddDelegate, RemoveDelegate, vars, burnVars
<1>. QED
  BY <1>1, StutterRefines, CreateRefines, IssueRefines, RedeemRefines

\* The contract with its keys, counters and indexes implements the abstract
\* single-use coupon: whatever calls arrive, each code of a campaign goes from
\* absent to available to redeemed, never back and never past the cap.
THEOREM SingleUseImplemented == Spec => ImplementsSingleUse
<1>1. RefineInv /\ [Next]_vars => [Promise!Next]_<<AbsCap, AbsStatus>>
  BY StepRefines
<1>2. Spec => [][Promise!Next]_<<AbsCap, AbsStatus>>
  BY <1>1, RefineInvHolds, PTL DEF Spec
<1>. QED
  BY <1>2, InitRefines, PTL DEF Spec, ImplementsSingleUse, Promise!Spec, AbsCap, AbsStatus
-----------------------------------------------------------------------------
\* The campaign in a slot is the slot's owner's.
SlotsOwned == \A k \in DOMAIN ownerCampaign : campaigns[ownerCampaign[k]].owner = k[1]

LEMMA NextSlotsOwned == TypeOK /\ OwnerInv /\ SlotsOwned /\ [Next]_vars => SlotsOwned'
<1>. SUFFICES ASSUME TypeOK, OwnerInv, SlotsOwned, [Next]_vars PROVE SlotsOwned'
  OBVIOUS
<1>1. \A k \in DOMAIN ownerCampaign :
        /\ ownerCampaign[k] \in DOMAIN campaigns
        /\ campaigns'[ownerCampaign[k]].owner = campaigns[ownerCampaign[k]].owner
  BY StepFreezes, SMTT(30) DEF Frozen, TypeOK, CampaignsOK, OwnerIndexOK
<1>2. CASE UNCHANGED ownerCampaign
  BY <1>1, <1>2 DEF SlotsOwned
<1>3. ASSUME NEW a \in Addresses, NEW s \in 0..MaxSupply, NEW e \in 0..MaxTime,
             CreateCampaign(a, s, e)
      PROVE  SlotsOwned'
  <2>. DEFINE new == <<a, ownerCount[a]>>
  <2>1. /\ DOMAIN ownerCampaign' = DOMAIN ownerCampaign \cup {new}
        /\ ownerCampaign'[new] = campCtr + 1
        /\ \A k \in DOMAIN ownerCampaign : k # new => ownerCampaign'[k] = ownerCampaign[k]
        /\ campaigns'[campCtr + 1].owner = a
    BY <1>3 DEF CreateCampaign, NextSlot, Put
  <2>. QED
    BY <1>1, <2>1 DEF SlotsOwned
<1>4. \/ UNCHANGED ownerCampaign
      \/ \E a \in Addresses, s \in 0..MaxSupply, e \in 0..MaxTime :
            CreateCampaign(a, s, e)
  BY ZenonT(30) DEF Next, Tick, AddDelegate, RemoveDelegate, IssueUnique, RedeemUnique, vars, indexVars
<1>. QED
  BY <1>2, <1>3, <1>4

\* Slots below the owner's count are all present, so reading them skips none.
LEMMA ReadSlotsIs ==
    ASSUME TypeOK, SlotsDense, NEW a \in Addresses, NEW f \in Nat, NEW l \in Int,
           l < ownerCount[a]
    PROVE  ReadSlots(a, f, l) = [i \in 1..(l - f + 1) |-> ownerCampaign[<<a, f + i - 1>>]]
<1>. DEFINE n == IF f <= l THEN l - f + 1 ELSE 0
            q == [i \in 1..n |-> f + i - 1]
<1>1. n \in Nat /\ 1..n = 1..(l - f + 1) /\ ownerCount[a] \in Nat
  BY DEF TypeOK, OwnerIndexOK
<1>2. {s \in f..l : <<a, s>> \in DOMAIN ownerCampaign} = f..l
  <2>1. \A s \in f..l : s \in Nat /\ s < ownerCount[a]
    BY <1>1
  <2>. QED
    BY <2>1 DEF SlotsDense
<1>3. Cardinality(f..l) = n /\ q = Ascending(f..l)
  <2>1. q \in [1..n -> f..l] /\ \A i, j \in 1..n : i < j => q[i] < q[j]
    OBVIOUS
  <2>2. \A d \in f..l : \E i \in 1..n : q[i] = d
    <3>. SUFFICES ASSUME NEW d \in f..l PROVE \E i \in 1..n : q[i] = d
      OBVIOUS
    <3>1. d - f + 1 \in 1..n /\ q[d - f + 1] = d
      OBVIOUS
    <3>. QED
      BY <3>1
  <2>3. f..l \in SUBSET Int
    OBVIOUS
  <2>. HIDE DEF n, q
  <2>. QED
    BY <1>1, <2>1, <2>2, <2>3, AscendingOnly
<1>4. ReadSlots(a, f, l) = [i \in 1..n |-> ownerCampaign[<<a, Ascending(f..l)[i]>>]]
  BY <1>2, <1>3 DEF ReadSlots
<1>5. \A i \in 1..n : Ascending(f..l)[i] = f + i - 1
  BY <1>3
<1>. HIDE DEF n
<1>. QED
  BY <1>1, <1>4, <1>5

\* campaigns_of lists the owner's campaigns, growing, and no others.
LEMMA CampaignsInOrder ==
    ASSUME TypeOK, OwnerInv, SlotsOwned, NEW a \in Addresses
    PROVE  /\ CampaignsOf(a) = [i \in 1..ownerCount[a] |-> ownerCampaign[<<a, i - 1>>]]
           /\ CampaignsOf(a) = Ascending({c \in DOMAIN campaigns : campaigns[c].owner = a})
<1>. DEFINE n == ownerCount[a]
            all == [i \in 1..n |-> ownerCampaign[<<a, i - 1>>]]
            mine == {c \in DOMAIN campaigns : campaigns[c].owner = a}
<1>1. /\ n \in Nat /\ campCtr \in Nat
      /\ DOMAIN campaigns = 1..campCtr /\ ownerSlot \in [1..campCtr -> Nat]
      /\ \A k \in DOMAIN ownerCampaign : ownerCampaign[k] \in 1..campCtr
  BY DEF TypeOK, CampaignsOK, OwnerIndexOK
<1>2. CampaignsOf(a) = all
  <2>1. ReadSlots(a, 0, n - 1) = [i \in 1..((n - 1) - 0 + 1) |-> ownerCampaign[<<a, 0 + i - 1>>]]
    <3>1. SlotsDense /\ 0 \in Nat /\ n - 1 \in Int /\ n - 1 < ownerCount[a]
      BY <1>1 DEF OwnerInv
    <3>. QED
      BY <3>1, ReadSlotsIs
  <2>2. (n - 1) - 0 + 1 = n /\ \A i \in 1..n : 0 + i - 1 = i - 1
    BY <1>1
  <2>. HIDE DEF n
  <2>3. ReadSlots(a, 0, n - 1) = all
    BY <2>1, <2>2
  <2>. QED
    BY <2>3 DEF CampaignsOf, n
<1>3. \A i \in 1..n : i - 1 \in Nat /\ i - 1 < ownerCount[a] /\ <<a, i - 1>> \in DOMAIN ownerCampaign
  <2>1. \A i \in 1..n : i - 1 \in Nat /\ i - 1 < n
    BY <1>1
  <2>. QED
    BY <2>1 DEF OwnerInv, SlotsDense
<1>4. all \in [1..n -> mine]
  BY <1>1, <1>3 DEF SlotsOwned
<1>5. \A i, j \in 1..n : i < j => all[i] < all[j]
  <2>. SUFFICES ASSUME NEW i \in 1..n, NEW j \in 1..n, i < j PROVE all[i] < all[j]
    OBVIOUS
  <2>1. i - 1 < j - 1 /\ i - 1 \in Nat /\ j - 1 \in Nat /\ j - 1 < ownerCount[a]
    BY <1>1, <1>3
  <2>2. ownerCampaign[<<a, i - 1>>] < ownerCampaign[<<a, j - 1>>]
    BY <2>1 DEF OwnerInv, SlotsOrdered
  <2>. QED
    BY <2>2
<1>6. \A c \in mine : \E i \in 1..n : all[i] = c
  <2>. SUFFICES ASSUME NEW c \in mine PROVE \E i \in 1..n : all[i] = c
    OBVIOUS
  <2>1. /\ <<a, ownerSlot[c]>> \in DOMAIN ownerCampaign
        /\ ownerCampaign[<<a, ownerSlot[c]>>] = c /\ ownerSlot[c] \in Nat
    BY <1>1 DEF OwnerInv, SlotsInverse
  <2>2. ownerSlot[c] < n
    BY <2>1 DEF OwnerInv, SlotsDense
  <2>3. ownerSlot[c] + 1 \in 1..n /\ (ownerSlot[c] + 1) - 1 = ownerSlot[c]
    BY <1>1, <2>1, <2>2
  <2>4. all[ownerSlot[c] + 1] = c
    BY <2>1, <2>3
  <2>. QED
    BY <2>3, <2>4
<1>7. mine \in SUBSET Int
  BY <1>1
<1>. HIDE DEF n, all, mine
<1>8. all = Ascending(mine)
  BY <1>1, <1>4, <1>5, <1>6, <1>7, AscendingOnly
<1>. QED
  BY <1>2, <1>8 DEF n, all, mine

\* What FlattenSeq computes is the only table that grows by one sequence at a time.
LEMMA FlattenIs ==
    ASSUME NEW X, NEW s \in Seq(X), Len(s) # 0, NEW g,
           g = [i \in 1..Len(s) |-> IF i = 1 THEN s[i] ELSE g[i - 1] \o s[i]]
    PROVE  FlattenSeq(s) = g[Len(s)]
<1>. DEFINE n == Len(s)
            Table(h) == h = [i \in 1..n |-> IF i = 1 THEN s[i] ELSE h[i - 1] \o s[i]]
            f == CHOOSE h : Table(h)
<1>1. n \in Nat /\ n # 0
  OBVIOUS
<1>2. FlattenSeq(s) = f[n]
  BY <1>1 DEF FlattenSeq
<1>3. Table(f)
  <2>1. Table(g)
    OBVIOUS
  <2>. HIDE DEF Table
  <2>. QED
    BY <2>1
<1>. HIDE DEF f
<1>4. /\ \A i \in 1..n : f[i] = IF i = 1 THEN s[i] ELSE f[i - 1] \o s[i]
      /\ \A i \in 1..n : g[i] = IF i = 1 THEN s[i] ELSE g[i - 1] \o s[i]
  BY <1>3
<1>5. \A i \in 1..n : f[i] = g[i]
  <2>. DEFINE Bad == {i \in 1..n : f[i] # g[i]}
  <2>. SUFFICES ASSUME Bad # {} PROVE FALSE
    OBVIOUS
  <2>1. PICK i \in Bad : \A j \in Bad : ~(j < i)
    <3>1. Bad \in SUBSET Int /\ IsFiniteSet(Bad)
      <4>1. IsFiniteSet(1..n) /\ Bad \in SUBSET (1..n) /\ 1..n \subseteq Int
        BY <1>1, FS_Interval
      <4>. HIDE DEF Bad, n
      <4>2. IsFiniteSet(Bad)
        BY <4>1, FS_Subset
      <4>. QED
        BY <4>1, <4>2
    <3>. HIDE DEF Bad
    <3>2. Cardinality(Bad) \in Nat /\ Cardinality(Bad) # 0
      BY <3>1, FS_CardinalityType, FS_EmptySet
    <3>3. 0 \in 0..(Cardinality(Bad) - 1)
      BY <3>2
    <3>4. PICK i \in Bad : Cardinality(Below(Bad, i)) = 0
      BY <3>1, <3>3, RanksTaken
    <3>5. IsFiniteSet(Below(Bad, i))
      BY <3>1, RankGrows
    <3>6. Below(Bad, i) = {}
      BY <3>4, <3>5, FS_EmptySet
    <3>. QED
      BY <3>6 DEF Below
  <2>2. i \in 1..n /\ f[i] # g[i]
    BY <2>1
  <2>3. i # 1
    BY <1>4, <2>2
  <2>4. i - 1 \in 1..n /\ i - 1 < i
    BY <2>2, <2>3
  <2>5. f[i - 1] = g[i - 1]
    BY <2>1, <2>4
  <2>. QED
    BY <1>4, <2>2, <2>3, <2>5, ZenonT(30)
<1>6. n \in 1..n
  BY <1>1
<1>7. f[n] = g[n]
  BY <1>5, <1>6
<1>. QED
  BY <1>2, <1>7

\* How much of n things is seen after i pages.
Upto(i, limit, n) == IF i * limit < n THEN i * limit ELSE n

LEMMA UptoGrows ==
    ASSUME NEW i \in Nat \ {0}, NEW limit \in Nat \ {0}, NEW n \in Nat
    PROVE  /\ Upto(i, limit, n) \in 0..n /\ Upto(i - 1, limit, n) \in 0..n
           /\ Upto(i - 1, limit, n) <= Upto(i, limit, n)
           /\ (i - 1) * limit \in Nat /\ (i - 1) * limit + limit = i * limit
           /\ Upto(0, limit, n) = 0
<1>1. i - 1 \in Nat /\ (i - 1) * limit \in Nat /\ i * limit \in Nat
  OBVIOUS
<1>2. (i - 1) * limit + limit = i * limit
  OBVIOUS
<1>3. 0 * limit = 0
  OBVIOUS
<1>. DEFINE x == (i - 1) * limit
            y == i * limit
<1>4. x \in Nat /\ y \in Nat /\ x <= y
  BY <1>1, <1>2
<1>5. Upto(i, limit, n) = (IF y < n THEN y ELSE n) /\ Upto(i - 1, limit, n) = IF x < n THEN x ELSE n
  BY DEF Upto
<1>6. Upto(0, limit, n) = 0
  BY <1>3 DEF Upto
<1>. HIDE DEF x, y
<1>7. /\ Upto(i, limit, n) \in 0..n /\ Upto(i - 1, limit, n) \in 0..n
      /\ Upto(i - 1, limit, n) <= Upto(i, limit, n)
  BY <1>4, <1>5
<1>. QED
  BY <1>1, <1>2, <1>6, <1>7

LEMMA LastPage ==
    ASSUME NEW limit \in Nat \ {0}, NEW n \in Nat
    PROVE  /\ n \div limit \in Nat
           /\ n < (n \div limit + 1) * limit
           /\ n <= (n \div limit + 2) * limit
<1>1. n \div limit \in Nat /\ n % limit \in 0..(limit - 1)
  OBVIOUS
<1>2. n = limit * (n \div limit) + (n % limit)
  OBVIOUS
<1>. DEFINE d == n \div limit
            m == n % limit
<1>3. d \in Nat /\ m \in Nat /\ m < limit /\ n = limit * d + m
  BY <1>1, <1>2
<1>. HIDE DEF d, m
<1>4. (d + 1) * limit = limit * d + limit /\ (d + 2) * limit = limit * d + limit + limit
  BY <1>3
<1>5. limit * d \in Nat
  BY <1>3
<1>6. n < (d + 1) * limit /\ n <= (d + 2) * limit
  <2>. DEFINE p == limit * d
  <2>1. p \in Nat /\ n = p + m /\ (d + 1) * limit = p + limit /\ (d + 2) * limit = p + limit + limit
    BY <1>3, <1>4, <1>5
  <2>. HIDE DEF p
  <2>. QED
    BY <1>3, <2>1
<1>. QED
  BY <1>3, <1>6 DEF d

\* Page i shows what comes after the first i - 1 pages.
LEMMA PageIs ==
    ASSUME TypeOK, OwnerInv, SlotsOwned, NEW a \in Addresses, NEW limit \in Nat \ {0},
           NEW i \in Nat \ {0}
    PROVE  CampaignsPage(a, (i - 1) * limit, limit) =
              [j \in 1..(Upto(i, limit, ownerCount[a]) - Upto(i - 1, limit, ownerCount[a])) |->
                 CampaignsOf(a)[Upto(i - 1, limit, ownerCount[a]) + j]]
<1>. DEFINE n == ownerCount[a]
            x == (i - 1) * limit
            u == Upto(i - 1, limit, n)
            v == Upto(i, limit, n)
<1>1. n \in Nat /\ limit \in Nat
  BY DEF TypeOK, OwnerIndexOK
<1>2. /\ x \in Nat /\ u \in 0..n /\ v \in 0..n /\ u <= v
      /\ u = (IF x < n THEN x ELSE n) /\ v = IF x + limit < n THEN x + limit ELSE n
  BY <1>1, UptoGrows DEF Upto
<1>3. CampaignsPage(a, x, limit) = ReadSlots(a, x, v - 1)
  BY <1>2 DEF CampaignsPage
<1>4. CampaignsOf(a) = [j \in 1..n |-> ownerCampaign[<<a, j - 1>>]]
  BY CampaignsInOrder
<1>. HIDE DEF x, u, v
<1>5. ReadSlots(a, x, v - 1) = [j \in 1..((v - 1) - x + 1) |-> ownerCampaign[<<a, x + j - 1>>]]
  <2>1. SlotsDense /\ x \in Nat /\ v - 1 \in Int /\ v - 1 < ownerCount[a]
    BY <1>1, <1>2 DEF OwnerInv
  <2>. QED
    BY <2>1, ReadSlotsIs
<1>. HIDE DEF n
<1>6. 1..((v - 1) - x + 1) = 1..(v - u)
  <2>1. CASE x < n
    <3>1. (v - 1) - x + 1 = v - u
      BY <1>1, <1>2, <2>1
    <3>. QED
      BY <3>1
  <2>2. CASE ~(x < n)
    <3>1. (v - 1) - x + 1 <= 0 /\ v - u = 0 /\ (v - 1) - x + 1 \in Int
      BY <1>1, <1>2, <2>2
    <3>. QED
      BY <3>1
  <2>. QED
    BY <2>1, <2>2
<1>7. ASSUME NEW j \in 1..(v - u) PROVE ownerCampaign[<<a, x + j - 1>>] = CampaignsOf(a)[u + j]
  <2>1. x = u /\ u + j \in 1..n /\ x + j - 1 = (u + j) - 1
    BY <1>1, <1>2
  <2>. QED
    BY <1>4, <2>1
<1>8. CampaignsPage(a, x, limit) = [j \in 1..(v - u) |-> CampaignsOf(a)[u + j]]
  BY <1>3, <1>5, <1>6, <1>7
<1>. QED
  BY <1>8 DEF n, x, u, v

LEMMA PagesFollow == TypeOK /\ OwnerInv /\ SlotsOwned => PagesCoverOwner
<1>. SUFFICES ASSUME TypeOK, OwnerInv, SlotsOwned, NEW a \in Addresses, NEW limit \in 1..MaxBatch
              PROVE  LET pages == ownerCount[a] \div limit + 1
                         page(i) == CampaignsPage(a, (i - 1) * limit, limit)
                         mine == {c \in DOMAIN campaigns : campaigns[c].owner = a}
                     IN  /\ FlattenSeq([i \in 1..(pages + 1) |-> page(i)]) = Ascending(mine)
                         /\ CampaignsOf(a) = Ascending(mine)
                         /\ page(pages + 1) = <<>>
  BY Zenon DEF PagesCoverOwner
<1>. DEFINE n == ownerCount[a]
            all == CampaignsOf(a)
            last == n \div limit + 2
            page(i) == CampaignsPage(a, (i - 1) * limit, limit)
            seen(i) == Upto(i, limit, n)
            shown == [i \in 1..last |-> page(i)]
            table == [i \in 1..last |-> [j \in 1..seen(i) |-> all[j]]]
<1>1. n \in Nat /\ limit \in Nat \ {0} /\ campCtr \in Nat
  BY BoundsAssumption DEF TypeOK, OwnerIndexOK, CampaignsOK
<1>2. last \in Nat /\ last - 1 \in Nat /\ last > 1 /\ seen(last) = n /\ seen(last - 1) = n
  <2>. DEFINE d == n \div limit
  <2>1. d \in Nat /\ n < (d + 1) * limit /\ n <= (d + 2) * limit
    BY <1>1, LastPage
  <2>2. (d + 1) * limit \in Nat /\ (d + 2) * limit \in Nat
    BY <1>1, <2>1
  <2>3. Upto(d + 2, limit, n) = n /\ Upto(d + 1, limit, n) = n
    BY <1>1, <2>1, <2>2 DEF Upto
  <2>. HIDE DEF d
  <2>4. d + 2 \in Nat /\ (d + 2) - 1 = d + 1 /\ d + 1 \in Nat /\ d + 2 > 1
    BY <2>1
  <2>. QED
    BY <2>3, <2>4 DEF d
<1>3. /\ all = Ascending({c \in DOMAIN campaigns : campaigns[c].owner = a})
      /\ all = [j \in 1..n |-> all[j]]
      /\ \A j \in 1..n : all[j] \in Nat
  <2>1. /\ all = Ascending({c \in DOMAIN campaigns : campaigns[c].owner = a})
        /\ all = [j \in 1..n |-> ownerCampaign[<<a, j - 1>>]]
    BY CampaignsInOrder
  <2>2. \A j \in 1..n : <<a, j - 1>> \in DOMAIN ownerCampaign
    <3>1. \A j \in 1..n : j - 1 \in Nat /\ j - 1 < n
      BY <1>1
    <3>. QED
      BY <3>1 DEF OwnerInv, SlotsDense
  <2>3. \A j \in 1..n : all[j] \in 1..campCtr
    BY <2>1, <2>2 DEF TypeOK, OwnerIndexOK
  <2>. HIDE DEF all, n
  <2>4. all = [j \in 1..n |-> all[j]]
    BY <2>1
  <2>. QED
    BY <1>1, <2>1, <2>3, <2>4
<1>4. ASSUME NEW i \in 1..last
      PROVE  /\ seen(i) \in 0..n /\ seen(i - 1) \in 0..n /\ seen(i - 1) <= seen(i) /\ seen(0) = 0
             /\ page(i) = [j \in 1..(seen(i) - seen(i - 1)) |-> all[seen(i - 1) + j]]
  <2>1. i \in Nat \ {0}
    BY <1>2
  <2>. QED
    BY <1>1, <2>1, UptoGrows, PageIs, ZenonT(30)
<1>. HIDE DEF n, all, last, page, seen
<1>5. shown \in Seq(Seq(Nat)) /\ Len(shown) = last
  <2>1. ASSUME NEW i \in 1..last PROVE page(i) \in Seq(Nat)
    <3>. DEFINE m == seen(i) - seen(i - 1)
    <3>1. m \in Nat /\ \A j \in 1..m : seen(i - 1) + j \in 1..n
      BY <1>1, <1>4
    <3>2. \A j \in 1..m : all[seen(i - 1) + j] \in Nat
      BY <1>3, <3>1
    <3>3. page(i) = [j \in 1..m |-> all[seen(i - 1) + j]]
      BY <1>4
    <3>. HIDE DEF m
    <3>. QED
      BY <3>1, <3>2, <3>3
  <2>. QED
    BY <1>2, <2>1
<1>6. ASSUME NEW i \in 1..last
      PROVE  table[i] = IF i = 1 THEN shown[i] ELSE table[i - 1] \o shown[i]
  <2>. DEFINE u == seen(i - 1)
              v == seen(i)
  <2>1. /\ u \in 0..n /\ v \in 0..n /\ u <= v /\ seen(0) = 0
        /\ shown[i] = [j \in 1..(v - u) |-> all[u + j]]
        /\ table[i] = [j \in 1..v |-> all[j]]
    BY <1>4
  <2>2. CASE i = 1
    <3>1. u = 0
      BY <2>1, <2>2
    <3>. HIDE DEF u, v, shown, table
    <3>2. v - u = v /\ \A j \in 1..v : u + j = j
      BY <1>1, <2>1, <3>1
    <3>. QED
      BY <2>1, <2>2, <3>2
  <2>3. CASE i # 1
    <3>1. table[i - 1] = [j \in 1..u |-> all[j]]
      <4>1. i - 1 \in 1..last
        BY <1>2, <2>3
      <4>. QED
        BY <4>1
    <3>. HIDE DEF u, v, shown, table
    <3>. DEFINE s == [j \in 1..u |-> all[j]]
                t == [j \in 1..(v - u) |-> all[u + j]]
                w == [j \in 1..v |-> all[j]]
    <3>2. /\ u \in Nat /\ v - u \in Nat /\ v \in Nat /\ u + (v - u) = v
          /\ \A j \in 1..v : j \in 1..n
          /\ \A j \in 1..u : j \in 1..n
          /\ \A j \in 1..(v - u) : u + j \in 1..n
      BY <1>1, <2>1
    <3>3. s \in Seq(Nat) /\ Len(s) = u /\ t \in Seq(Nat) /\ Len(t) = v - u
          /\ w \in Seq(Nat) /\ Len(w) = v
      <4>. DEFINE k == v - u
      <4>1. /\ \A j \in 1..u : all[j] \in Nat
            /\ \A j \in 1..k : all[u + j] \in Nat
            /\ \A j \in 1..v : all[j] \in Nat
        BY <1>3, <3>2
      <4>2. u \in Nat /\ k \in Nat /\ v \in Nat
        BY <3>2
      <4>3. t = [j \in 1..k |-> all[u + j]]
        OBVIOUS
      <4>. HIDE DEF k
      <4>4. s \in Seq(Nat) /\ Len(s) = u
        BY <4>1, <4>2
      <4>5. w \in Seq(Nat) /\ Len(w) = v
        BY <4>1, <4>2
      <4>. HIDE DEF s, t, w
      <4>6. t \in Seq(Nat) /\ Len(t) = k
        BY <4>1, <4>2, <4>3
      <4>. QED
        BY <4>4, <4>5, <4>6 DEF k
    <3>4. \A j \in 1..v : w[j] = IF j <= u THEN s[j] ELSE t[j - u]
      <4>. SUFFICES ASSUME NEW j \in 1..v PROVE w[j] = IF j <= u THEN s[j] ELSE t[j - u]
        OBVIOUS
      <4>1. CASE j <= u
        BY <3>2, <4>1
      <4>2. CASE ~(j <= u)
        <5>1. j - u \in 1..(v - u) /\ u + (j - u) = j
          BY <3>2, <4>2
        <5>. QED
          BY <4>2, <5>1
      <4>. QED
        BY <4>1, <4>2
    <3>. HIDE DEF s, t, w
    <3>5. s \o t \in Seq(Nat) /\ Len(s \o t) = v
          /\ \A j \in 1..v : (s \o t)[j] = IF j <= u THEN s[j] ELSE t[j - u]
      <4>1. s \in Seq(Nat) /\ t \in Seq(Nat)
        BY <3>3
      <4>2. /\ s \o t \in Seq(Nat) /\ Len(s \o t) = Len(s) + Len(t)
            /\ \A j \in 1..(Len(s) + Len(t)) :
                 (s \o t)[j] = IF j <= Len(s) THEN s[j] ELSE t[j - Len(s)]
        BY <4>1, ConcatProperties
      <4>3. Len(s) + Len(t) = v /\ Len(s) = u
        BY <3>2, <3>3
      <4>. QED
        BY <4>2, <4>3
    <3>6. w = s \o t
      BY <3>3, <3>4, <3>5, SeqEqual
    <3>. QED
      BY <2>1, <2>3, <3>1, <3>6 DEF s, t, w
  <2>. QED
    BY <2>2, <2>3
<1>7. FlattenSeq(shown) = all
  <2>1. table = [i \in 1..Len(shown) |-> IF i = 1 THEN shown[i] ELSE table[i - 1] \o shown[i]]
    <3>1. table = [i \in 1..last |-> table[i]]
      OBVIOUS
    <3>. HIDE DEF table, shown
    <3>. QED
      BY <1>5, <1>6, <3>1
  <2>2. table[last] = all
    <3>1. last \in 1..last
      BY <1>2
    <3>. QED
      BY <1>2, <1>3, <3>1
  <2>. HIDE DEF table, shown
  <2>3. shown \in Seq(Seq(Nat)) /\ Len(shown) # 0
    BY <1>2, <1>5
  <2>4. FlattenSeq(shown) = table[Len(shown)]
    BY <2>1, <2>3, FlattenIs
  <2>. QED
    BY <1>5, <2>2, <2>4
<1>8. page(last) = <<>>
  <2>1. last \in 1..last /\ seen(last) - seen(last - 1) = 0
    BY <1>1, <1>2
  <2>. QED
    BY <1>4, <2>1
<1>9. last = (n \div limit + 1) + 1
  <2>1. \A d \in Nat : d + 2 = (d + 1) + 1
    OBVIOUS
  <2>. QED
    BY <1>1, <2>1, LastPage DEF last
<1>. QED
  BY <1>3, <1>7, <1>8, <1>9 DEF n, all, page, shown

\* A client that reads page after page sees each campaign of the owner once,
\* in the order of creation, whatever other owners do and whatever the limit.
THEOREM PagesSafe == Spec => []PagesCoverOwner
<1>1. Init => TypeOK /\ OwnerInv /\ SlotsOwned
  BY InitTypeOK, InitOwnerInv DEF Init, SlotsOwned
<1>2. TypeOK /\ OwnerInv /\ SlotsOwned /\ [Next]_vars => (TypeOK /\ OwnerInv /\ SlotsOwned)'
  BY NextTypeOK, NextOwnerInv, NextSlotsOwned
<1>. QED
  BY <1>1, <1>2, PagesFollow, PTL DEF Spec
=============================================================================
