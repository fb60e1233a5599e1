---------------------------- MODULE MCPlayground ----------------------------
(***************************************************************************)
(* A bounded instance of every part of the playground: the client of the   *)
(* SDK its writes go through, the store that mirrors the contract, and the *)
(* cards.                                                                  *)
(*                                                                         *)
(* Each module takes what the part above or below it may do as free steps  *)
(* of its own, so the parts share no state and a behaviour here is one of  *)
(* the part that `part` names, the others staying as they began.           *)
(***************************************************************************)
EXTENDS Integers, TLC

CONSTANTS
    Calls, Accounts, Ops, OnceOps, NoTx, NoCode, Timeout, MaxPolls, MaxTime,   \* of BrowserClient
    Wallets, NoWallet, StoreCodes, MaxCamps, LogLimit,                         \* of PlaygroundStore,
    StoreCalls, StoreOpen,  \* when calls overlap,
    AloneCalls,             \* and of a page that makes one at a time
    Codes, Refs, Blank, MaxNonce,               \* of RedeemCard
    MaxId, ChipCodes, MaxCodes,                 \* of CampaignCards
    MaxCount, RegisterCalls,                    \* of TallyRegisterCard
    TallyKeys, None, SettleCalls,               \* of TallySettleCard
    MaxLookups                                  \* of VerifyCard

VARIABLES
    part,           \* the part that runs
    now, seq, included, posted, clientCall,
    chain, storeWallet, mirror, seen, dirty, log, storeCall,
    connected, redeemCode, ref, nonce, drawn, hash, failed, digests, sent, panel, burned,
    cardsWallet, owner, highlight, cid, deps, codes, issuing, result, running, cardsBusy,
    registerWallet, form, asked, registerBusy, registerCode, committed, expired,
    settleWallet, key, views, writes, settleBusy, shown,
    fate, late, made, pending, overlapped, verifyBusy, data, error

clientVars == <<now, seq, included, posted, clientCall>>
storeVars == <<chain, storeWallet, mirror, seen, dirty, log, storeCall>>
redeemVars ==
    <<connected, redeemCode, ref, nonce, drawn, hash, failed, digests, sent, panel, burned>>
cardsVars ==
    <<cardsWallet, owner, highlight, cid, deps, codes, issuing, result, running, cardsBusy>>
registerVars ==
    <<registerWallet, form, asked, registerBusy, registerCode, committed, expired>>
settleVars == <<settleWallet, key, views, writes, settleBusy, shown>>
verifyVars == <<fate, late, made, pending, overlapped, verifyBusy, data, error>>
vars == <<part, clientVars, storeVars, redeemVars, cardsVars, registerVars, settleVars, verifyVars>>

Client == INSTANCE BrowserClient WITH
    call <- clientCall

Store == INSTANCE PlaygroundStore WITH
    wallet <- storeWallet, call <- storeCall, Codes <- StoreCodes, MaxCalls <- StoreCalls,
    MaxOpen <- StoreOpen

\* The store of a page that makes one call at a time, and more of them.
Alone == INSTANCE PlaygroundStore WITH
    wallet <- storeWallet, call <- storeCall, Codes <- StoreCodes, MaxCalls <- AloneCalls,
    MaxOpen <- 1

Redeem == INSTANCE RedeemCard WITH
    code <- redeemCode

Cards == INSTANCE CampaignCards WITH
    wallet <- cardsWallet, busy <- cardsBusy, Codes <- ChipCodes

Register == INSTANCE TallyRegisterCard WITH
    wallet <- registerWallet, busy <- registerBusy, code <- registerCode,
    MaxCalls <- RegisterCalls

Settle == INSTANCE TallySettleCard WITH
    wallet <- settleWallet, busy <- settleBusy, MaxCalls <- SettleCalls, Keys <- TallyKeys

Verify == INSTANCE VerifyCard WITH
    busy <- verifyBusy

\* The bounds are in their ranges.
ASSUME PlaygroundAssumption ==
    /\ Client!ClientAssumption /\ Store!StoreAssumption /\ Alone!StoreAssumption /\ Redeem!CardAssumption
    /\ Cards!CardsAssumption /\ Register!RegisterAssumption
    /\ Settle!SettleAssumption /\ Verify!VerifyAssumption

-----------------------------------------------------------------------------
Init ==
    /\ part \in {"client", "store", "alone", "redeem", "cards", "register", "settle", "verify"}
    /\ Client!Init /\ Store!Init /\ Redeem!Init /\ Cards!Init
    /\ Register!Init /\ Settle!Init /\ Verify!Init
    /\ part # "redeem" => redeemCode = (CHOOSE x \in Codes : TRUE) /\ ref = (CHOOSE r \in Refs : r # Blank)
    /\ part # "settle" => key = (CHOOSE k \in TallyKeys : TRUE)

ClientStep ==
    /\ part = "client" /\ Client!Next
    /\ UNCHANGED <<part,
                   storeVars, redeemVars, cardsVars, registerVars, settleVars,
                   verifyVars>>

StoreStep ==
    /\ part = "store" /\ Store!Next
    /\ UNCHANGED <<part,
                   clientVars, redeemVars, cardsVars, registerVars, settleVars,
                   verifyVars>>

RedeemStep ==
    /\ part = "redeem" /\ Redeem!Next
    /\ UNCHANGED <<part,
                   clientVars, storeVars, cardsVars, registerVars, settleVars,
                   verifyVars>>

CardsStep ==
    /\ part = "cards" /\ Cards!Next
    /\ UNCHANGED <<part,
                   clientVars, storeVars, redeemVars, registerVars, settleVars,
                   verifyVars>>

RegisterStep ==
    /\ part = "register" /\ Register!Next
    /\ UNCHANGED <<part,
                   clientVars, storeVars, redeemVars, cardsVars, settleVars, verifyVars>>

SettleStep ==
    /\ part = "settle" /\ Settle!Next
    /\ UNCHANGED <<part,
                   clientVars, storeVars, redeemVars, cardsVars, registerVars,
                   verifyVars>>

VerifyStep ==
    /\ part = "verify" /\ Verify!Next
    /\ UNCHANGED <<part,
                   clientVars, storeVars, redeemVars, cardsVars, registerVars,
                   settleVars>>

AloneStep ==
    /\ part = "alone" /\ Alone!Next
    /\ UNCHANGED <<part, clientVars, redeemVars, cardsVars, registerVars, settleVars, verifyVars>>

Next ==
    \/ ClientStep \/ StoreStep \/ AloneStep \/ RedeemStep \/ CardsStep
    \/ RegisterStep \/ SettleStep \/ VerifyStep

Spec == Init /\ [][Next]_vars

\* Wallets are only compared.
Symmetric == Permutations(Wallets)

-----------------------------------------------------------------------------
\* The types of every part; and a card takes a call to be under way only while
\* one is.
PlaygroundTypeOK ==
    /\ Client!TypeOK /\ Store!TypeOK /\ Redeem!TypeOK /\ Cards!TypeOK
    /\ Register!TypeOK /\ Settle!TypeOK /\ Verify!TypeOK

\* An answered success is the ledger's, and no effect is behind an error that
\* says there is none (BrowserClient: writeAt).
AnswersAreTheLedgers == Client!SuccessIsApplied /\ Client!EffectsAreOwned

\* What is shown has been true of the contract, in whatever order calls are
\* answered and wallets change: terms and owners, burned coupons, delegates,
\* the fate of a logged call; and counters, while the page makes one call at a
\* time.  Of a coupon that was looked up: that it is burned, that it is past its
\* validity by the clock of the browser, and, if it was burned before the lookup
\* began, nothing else; "valid" and "expired" are shown of one that is burned
\* while its lookup is under way.
ShownWasTrue ==
    /\ Store!TermsExact /\ Store!MirrorWasTrue /\ Store!LogIsTrue
    /\ part = "alone" => Store!CountsWereTrue
    /\ Verify!BadNewsIsFinal /\ Verify!BurnsAreSeen /\ Verify!ShownIsLast

\* What a card shows and what it sends agree, though digests, wallets, chips,
\* views and inputs change under a call: the commitment is to the inputs, and
\* not the one of a receipt, once its digest is in; the campaign is the wallet's,
\* results stand by their codes, the snippet is the call, a call keeps the rules
\* of attribution and settlement that its form enforces, and the terms are those
\* of the tally.
CardsSendWhatTheyShow ==
    /\ Redeem!HashMatchesInputs /\ Redeem!ReceiptRetiresNonce
    /\ Cards!SelectionOwned /\ Cards!ResultPairsCodes
    /\ Register!SnippetIsCall /\ Register!RefusalsAreForeign
    /\ Settle!TermsMatchTally
=============================================================================
