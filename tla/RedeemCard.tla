----------------------------- MODULE RedeemCard -----------------------------
(***************************************************************************)
(* The playground's Redeem card (web/src/cards-b.jsx): the commitment to   *)
(* the redeemer's reference is recomputed asynchronously whenever the      *)
(* reference or the nonce changes, and the button sends the one shown.     *)
(* A digest is the pair it hashes; nonces are drawn fresh, or not at all   *)
(* without a secure source.  The contract burns a code once, and answers   *)
(* may be lost.                                                            *)
(***************************************************************************)
EXTENDS Integers, Sequences

CONSTANTS
    Refs, Blank,    \* references typed; an empty one
    Codes,          \* coupon codes
    MaxNonce        \* bound: nonces drawn

CardAssumption == Blank \in Refs /\ MaxNonce \in Nat \ {0}

VARIABLES
    connected,  \* a wallet is connected: the card is unlocked
    code, ref,  \* the inputs
    nonce,      \* 0 when none could be drawn
    drawn,      \* nonces drawn so far
    hash,       \* the commitment shown
    failed,     \* hashError
    digests,    \* digests under way: [ref, nonce, live]
    sent,       \* the redemption under way: <<>> or <<[code, hash]>>
    panel,      \* what the card shows below the form
    burned      \* the contract: redemptions applied, [code, hash, answered]

inputs == <<code, ref, nonce, drawn, hash, failed, digests>>
vars == <<connected, inputs, sent, panel, burned>>

Zero32 == <<>>
Commitment(r, n) == <<r, n>>

\* The effect on [ref, nonce]: earlier digests are cancelled, and the hash
\* shown stays until the new one resolves.
Rehash(r, n) ==
    LET stale == {[d EXCEPT !.live = FALSE] : d \in digests}
    IN  /\ failed' = FALSE
        /\ IF r = Blank \/ n = 0
           THEN hash' = Zero32 /\ digests' = stale
           ELSE hash' = hash /\ digests' = stale \cup {[ref |-> r, nonce |-> n, live |-> TRUE]}

Init ==
    /\ connected = FALSE
    /\ code \in Codes /\ ref \in Refs \ {Blank}
    /\ nonce \in {0, 1} /\ drawn = nonce
    /\ hash = Zero32 /\ failed = FALSE
    /\ digests = {[ref |-> ref, nonce |-> n, live |-> TRUE] : n \in {nonce} \ {0}}
    /\ sent = <<>> /\ panel = "none" /\ burned = <<>>

-----------------------------------------------------------------------------
Lock == connected' = ~ connected /\ UNCHANGED <<inputs, sent, panel, burned>>

TypeCode(c) == code' = c /\ UNCHANGED <<connected, ref, nonce, drawn, hash, failed, digests, sent, panel, burned>>

TypeRef(r) ==
    /\ ref # r /\ ref' = r
    /\ Rehash(r, nonce)
    /\ UNCHANGED <<connected, code, nonce, drawn, sent, panel, burned>>

Digest(d) ==
    /\ digests' = digests \ {d}
    /\ hash' = IF d.live THEN Commitment(d.ref, d.nonce) ELSE hash
    /\ UNCHANGED <<connected, code, ref, nonce, drawn, failed, sent, panel, burned>>

\* WebCrypto is missing or fails.
DigestFails(d) ==
    /\ digests' = digests \ {d}
    /\ hash' = IF d.live THEN Zero32 ELSE hash
    /\ failed' = (failed \/ d.live)
    /\ UNCHANGED <<connected, code, ref, nonce, drawn, sent, panel, burned>>

Busy == sent # <<>>

\* The button: unlocked, not loading, and a commitment to send.
CanRedeem == connected /\ ~ Busy /\ ~ failed /\ hash # Zero32

Submit ==
    /\ CanRedeem
    /\ sent' = <<[code |-> code, hash |-> hash]>>
    /\ panel' = "none"
    /\ UNCHANGED <<connected, inputs, burned>>

Burned(c) == \E i \in DOMAIN burned : burned[i].code = c

Mine == Len(burned) > 0 /\ Busy /\ burned[Len(burned)] = [code |-> sent[1].code, hash |-> sent[1].hash, answered |-> FALSE]

\* The contract burns the code.
Burn ==
    /\ Busy /\ ~ Burned(sent[1].code)
    /\ burned' = Append(burned, [code |-> sent[1].code, hash |-> sent[1].hash, answered |-> FALSE])
    /\ UNCHANGED <<connected, inputs, sent, panel>>

\* Mutant: the nonce is kept for the next redemption.
KeepNonce ==
    /\ nonce' = nonce /\ drawn' = drawn
    /\ UNCHANGED <<hash, failed, digests>>

\* setNonce(makeNonce()): randomness may be unavailable.
FreshNonce ==
    /\ drawn < MaxNonce
    /\ \/ nonce' = drawn + 1 /\ drawn' = drawn + 1
       \/ nonce' = 0 /\ drawn' = drawn
    /\ Rehash(ref, nonce')

Receipt ==
    /\ Mine
    /\ burned' = [burned EXCEPT ![Len(burned)].answered = TRUE]
    /\ FreshNonce
    /\ sent' = <<>> /\ panel' = "result"
    /\ UNCHANGED <<connected, code, ref>>

\* Refused, unsigned, or without an answer: the nonce stays.
Error ==
    /\ Busy
    /\ sent' = <<>> /\ panel' = "error"
    /\ UNCHANGED <<connected, inputs, burned>>

Dismiss == panel # "none" /\ panel' = "none" /\ UNCHANGED <<connected, inputs, sent, burned>>

Next ==
    \/ Lock \/ Submit \/ Burn \/ Receipt \/ Error \/ Dismiss
    \/ \E c \in Codes : TypeCode(c)
    \/ \E r \in Refs : TypeRef(r)
    \/ \E d \in digests : Digest(d) \/ DigestFails(d)

Spec == Init /\ [][Next]_vars

-----------------------------------------------------------------------------
Commitments == (Refs \ {Blank}) \X (1..MaxNonce)

\* Types; a commitment shown is never one to an empty reference.
TypeOK ==
    /\ code \in Codes /\ ref \in Refs /\ nonce \in 0..drawn /\ drawn \in 0..MaxNonce
    /\ hash \in Commitments \cup {Zero32}
    /\ digests \subseteq [ref : Refs \ {Blank}, nonce : 1..MaxNonce, live : BOOLEAN]
    /\ panel \in {"none", "result", "error"}
    /\ \A i \in DOMAIN burned : burned[i].hash \in Commitments

Settled == \A d \in digests : ~ d.live

\* Once the digests are in, the commitment shown is to the reference and the
\* nonce of the form, in whatever order they resolve (the effect's live flag).
\* Until then the card shows, and the button sends, the one before.
HashMatchesInputs ==
    Settled => hash = IF ref = Blank \/ nonce = 0 \/ failed THEN Zero32
                      ELSE Commitment(ref, nonce)

\* The commitment on offer once the digests are in is not that of a redemption
\* the card has a receipt for (setNonce in submit).
ReceiptRetiresNonce ==
    Settled => \A i \in DOMAIN burned : burned[i].answered => burned[i].hash # hash
=============================================================================
