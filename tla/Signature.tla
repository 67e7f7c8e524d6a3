----------------------------- MODULE Signature -----------------------------
(***************************************************************************)
(* crypto_sign and crypto_sign_open (src/src/tweetnacl/tweetnacl.c) and    *)
(* the context and prehash variants built on them                          *)
(* (src/src/drivers/crypto/fips/fips1865_ed25519.c), used by a signer that *)
(* generates keys and a reader to whom parts of signed messages arrive.    *)
(*                                                                         *)
(* A buffer is a sequence of 32-byte slots, so a length of 64 is 2.        *)
(* Hashes, points and scalars are free terms.                              *)
(***************************************************************************)
EXTENDS Integers, Sequences, FiniteSets

CONSTANTS
    Texts,
    Messages,         \* sequences of text slots; contexts are messages too
    LongContexts,     \* the contexts of more than 255 bytes
    Absent,
    MaxSignKeypairs,  \* bound: calls of crypto_sign_keypair
    MaxSigns          \* bound: messages signed

Zero == <<"zero">>

\* What a message may hold: text, zeros, and also hashes, as signers sign those.
Slots ==
    {<<"text", t>> : t \in Texts} \union {Zero}
        \union {<<"hash", i, x>> : i \in 1 .. 2, x \in Messages}

ASSUME SignatureAssumption ==
    /\ LongContexts \subseteq Messages
    /\ Messages \subseteq Seq(Slots)
    /\ MaxSignKeypairs \in Nat /\ MaxSigns \in Nat
    /\ Absent \notin {0, -1}

VARIABLES
    sign_sk,        \* the two halves of sk: the seed and the public key
    sign_pk,
    sign_keypairs,  \* calls of crypto_sign_keypair so far
    sign_torn,      \* history: the last of them failed
    signed,         \* history: what crypto_sign was given and what it made
    sign_opened     \* the last opening: what it was given and what it left

signatureVars == <<sign_sk, sign_pk, sign_keypairs, sign_torn, signed, sign_opened>>

SignatureInit ==
    /\ sign_sk = Absent
    /\ sign_pk = Absent
    /\ sign_keypairs = 0
    /\ sign_torn = FALSE
    /\ signed = {}
    /\ sign_opened = Absent

-----------------------------------------------------------------------------
(* Terms *)
Before == <<"before">>   \* what an output buffer held before the call
NoPoint == <<"nopoint">> \* 32 bytes that are no point of the curve

\* scalarbase and pack of the clamped hash of a seed.
PublicKey(seed) == <<"A", seed>>

\* crypto_hash, two slots long.
Digest(x) == << <<"hash", 1, x>>, <<"hash", 2, x>> >>

\* The nonce r of a message, and R with it, depends on the hash of the seed and
\* on the message; S is r + h a.
Commitment(seed, content) == <<"R", seed, content>>
Response(seed, content, h) == <<"S", seed, content, h>>

\* Variant: the hash is of the first 64 bytes, whatever the length.
HramOfPrefix(R, pk, content) == <<R, pk>>

\* h, the hash of R, the public key and the message.
Hram(R, pk, content) == <<R, pk>> \o content

\* S B - h A, of which only the point R of the matching response is ever equal
\* to a commitment.
Recovered(S, h, pk) ==
    IF S[1] = "S" /\ S[4] = h /\ pk = PublicKey(S[2])
    THEN Commitment(S[2], S[3])
    ELSE <<"other">>

-----------------------------------------------------------------------------
(* crypto_sign: the second slot of sm holds the hash prefix, then the public key
   out of sk, then S *)
SignedMessage(sk, content) ==
    LET R == Commitment(sk.seed, content)
    IN  <<R, Response(sk.seed, content, Hram(R, sk.pk, content))>> \o content

(* crypto_sign_open into m, which may lie over sm (it is sm itself) or apart *)
Refusal(m) == [ret |-> -1, m |-> m, mlen |-> Absent, checked |-> FALSE, overrun |-> FALSE]

\* Variant: the message is moved down whether or not the signature is right.
RecoverAlways(copied, content, failed) ==
    [i \in DOMAIN copied |-> IF i <= Len(content) THEN content[i] ELSE copied[i]]

\* The message is moved down over R and pk, or its bytes there zeroed.
Recover(copied, content, failed) ==
    [i \in DOMAIN copied |->
        IF i > Len(content) THEN copied[i] ELSE IF failed THEN Zero ELSE content[i]]

\* All of sm is copied, pk put in its second slot and the result hashed.  What
\* does not fit in m is written behind it, and read back from there.
SignOpen(m, sm, pk, place) ==
    LET n == Len(sm)
        content == SubSeq(sm, 3, n)
        S == IF place = "over" THEN pk ELSE sm[2]
        failed == sm[1] # Recovered(S, Hram(sm[1], pk, content), pk)
        copied == [i \in DOMAIN m |->
                      IF i = 2 THEN pk ELSE IF i <= n THEN sm[i] ELSE m[i]]
    IN  IF n < 2 \/ pk = NoPoint
        THEN Refusal(m)
        ELSE [ret |-> IF failed THEN -1 ELSE 0,
              m |-> Recover(copied, content, failed),
              mlen |-> IF failed THEN 0 ELSE n - 2,
              checked |-> TRUE,
              overrun |-> Len(m) < n]

-----------------------------------------------------------------------------
(* The variants: what crypto_sign is given, and the openings *)

\* ed25519ctx_hash; no context and an empty one are the same.
CtxHash(ctx) == IF ctx = Absent \/ ctx = <<>> THEN <<Zero, Zero>> ELSE Digest(ctx)

Content(variant, ctx, msg) ==
    CASE variant = "plain" -> msg
      [] variant = "ctx"   -> CtxHash(ctx) \o msg
      [] variant = "ph"    -> Digest(msg)

Buffer(n) == [i \in 1 .. n |-> Before]

\* crypto_sign_ed25519ctx_open: its buffer has no room for the signature.
CtxOpen(m, sm, pk, ctx, allocated) ==
    LET part == Len(sm) - 2
        inner == SignOpen(Buffer(part), sm, pk, "apart")
    IN  IF ctx \in LongContexts \/ part < 2 \/ ~allocated
        THEN Refusal(m)
        ELSE IF inner.ret # 0 \/ SubSeq(inner.m, 1, 2) # CtxHash(ctx)
        THEN [inner EXCEPT !.ret = -1, !.m = m, !.mlen = Absent]
        ELSE [inner EXCEPT !.m = [i \in DOMAIN m |-> IF i + 2 <= part
                                                     THEN @[i + 2] ELSE m[i]],
                           !.mlen = part - 2]

\* crypto_sign_ed25519ph_open: its buffer holds the 64-byte hash alone.
PhOpen(m, sm, pk) ==
    LET inner == SignOpen(Buffer(2), sm, pk, "apart")
    IN  IF inner.ret # 0 \/ inner.mlen # 2
        THEN [inner EXCEPT !.ret = -1, !.m = m, !.mlen = Absent]
        ELSE [inner EXCEPT !.m = [i \in DOMAIN m |->
                                     IF i <= 2 THEN @[i] ELSE m[i]]]

-----------------------------------------------------------------------------
(* crypto_sign_keypair *)
SignKeypair(sk, pk, failed) ==
    /\ sign_keypairs < MaxSignKeypairs
    /\ sign_keypairs' = sign_keypairs + 1
    /\ sign_sk' = sk
    /\ sign_pk' = pk
    /\ sign_torn' = failed
    /\ UNCHANGED <<signed, sign_opened>>

\* 32 random bytes have not been drawn before.
Seed == sign_keypairs + 1

\* Variant: the upper half of sk is filled in only once.
SignKeypairSucceedsOnce ==
    SignKeypair([seed |-> Seed,
                 pk |-> IF sign_sk = Absent THEN PublicKey(Seed) ELSE sign_sk.pk],
                PublicKey(Seed), FALSE)

SignKeypairSucceeds ==
    SignKeypair([seed |-> Seed, pk |-> PublicKey(Seed)], PublicKey(Seed), FALSE)

\* randombytes_safe fails with the seed partly written over.
SignKeypairFails ==
    /\ sign_sk # Absent
    /\ SignKeypair([sign_sk EXCEPT !.seed = Seed], sign_pk, TRUE)

(* crypto_sign, crypto_sign_ed25519ctx and crypto_sign_ed25519ph; a context that
   is too long, and a failed malloc, leave everything as it was *)
Sign(variant, ctx, msg) ==
    /\ sign_sk # Absent
    /\ Cardinality(signed) < MaxSigns
    /\ ctx \notin LongContexts
    /\ variant # "ctx" => ctx = Absent
    /\ signed' = signed \union
           {[variant |-> variant, ctx |-> ctx, msg |-> msg, sk |-> sign_sk, torn |-> sign_torn,
             sm |-> SignedMessage(sign_sk, Content(variant, ctx, msg))]}
    /\ UNCHANGED <<sign_sk, sign_pk, sign_keypairs, sign_torn, sign_opened>>

(* The openings of signed messages whose slots may come from several ones *)
Mixed(a, b, c) == <<a.sm[1], b.sm[2]>> \o SubSeq(c.sm, 3, Len(c.sm))

Received ==
    {Mixed(a, b, c) : a \in signed, b \in signed, c \in signed}
        \union {<<>>, <<Zero>>}

PublicKeys == {PublicKey(seed) : seed \in 1 .. sign_keypairs} \union {NoPoint}

\* An overrun may also end the process, shown as no return at all.
Opens(variant, ctx, sm, pk, place, left) ==
    /\ \E survives \in IF left.overrun THEN BOOLEAN ELSE {TRUE} :
           sign_opened' =
               [variant |-> variant, ctx |-> ctx, sm |-> sm, pk |-> pk,
                place |-> place,
                left |-> IF survives THEN left ELSE [left EXCEPT !.ret = Absent]]
    /\ UNCHANGED <<sign_sk, sign_pk, sign_keypairs, sign_torn, signed>>

\* The caller's m has the length of sm.
OpenPlain(sm, pk, place) ==
    Opens("plain", Absent, sm, pk, place,
          SignOpen(IF place = "over" THEN sm ELSE Buffer(Len(sm)), sm, pk, place))

OpenCtx(sm, pk, ctx, allocated) ==
    Opens("ctx", ctx, sm, pk, "apart",
          CtxOpen(Buffer(Len(sm)), sm, pk, ctx, allocated))

OpenPh(sm, pk) == Opens("ph", Absent, sm, pk, "apart", PhOpen(Buffer(Len(sm)), sm, pk))

ForgetOpened ==
    /\ sign_opened # Absent
    /\ sign_opened' = Absent
    /\ UNCHANGED <<sign_sk, sign_pk, sign_keypairs, sign_torn, signed>>

SignatureCall ==
    \/ SignKeypairSucceeds \/ SignKeypairFails
    \/ \E msg \in Messages, variant \in {"plain", "ctx", "ph"},
          ctx \in Messages \union {Absent} : Sign(variant, ctx, msg)
    \/ \E sm \in Received, pk \in PublicKeys :
           \/ \E place \in {"over", "apart"} : OpenPlain(sm, pk, place)
           \/ \E ctx \in Messages \union {Absent}, allocated \in BOOLEAN :
                  OpenCtx(sm, pk, ctx, allocated)
           \/ OpenPh(sm, pk)

SignatureNext ==
    \/ sign_opened = Absent /\ SignatureCall
    \/ ForgetOpened

SignatureSpec == SignatureInit /\ [][SignatureNext]_signatureVars
-----------------------------------------------------------------------------
SignatureTypeOK ==
    /\ sign_sk # Absent => sign_sk.seed \in 1 .. sign_keypairs
    /\ sign_keypairs \in Nat /\ sign_torn \in BOOLEAN
    /\ \A s \in signed : Len(s.sm) = Len(Content(s.variant, s.ctx, s.msg)) + 2
    /\ sign_opened # Absent => sign_opened.left.ret \in {0, -1, Absent}

\* What the message got, out of an opening o that accepted the signature of s, has to
\* do with the message signed.  With another variant it is what that one signed,
\* taken literally; nothing in the signed bytes tells which variant made them.
SameVariant(s, o, got) ==
    /\ s.variant = o.variant
    /\ o.variant = "ctx" => s.ctx = o.ctx \/ {s.ctx, o.ctx} \subseteq {Absent, <<>>}
    /\ got = IF o.variant = "ph" THEN Digest(s.msg) ELSE s.msg

OtherVariant(s, o, got) ==
    /\ s.variant # o.variant
    /\ o.variant # "ctx" => got = Content(s.variant, s.ctx, s.msg)
    /\ o.variant = "ctx" /\ s.variant = "plain" => s.msg = CtxHash(o.ctx) \o got
    /\ o.variant = "ctx" /\ s.variant = "ph" => s.msg = o.ctx /\ got = <<>>

(* An opening that returns 0 returns what crypto_sign was called for with the
   secret half of this public key, whatever slots of signed messages are put
   together: with the variant it was signed with, the same message (its hash, if
   prehashed) under the same context.  A signature of another variant is accepted
   too, and just so: the plain and the prehash opening return the bytes that were
   signed, a context hash included; the context opening accepts a plain message
   that begins with the hash of the context, and, with nothing left to return, a
   prehash signature whose message is the context. *)
OpenedWasSigned ==
    sign_opened # Absent /\ sign_opened.left.ret = 0 =>
        LET got == SubSeq(sign_opened.left.m, 1, sign_opened.left.mlen)
        IN  \E s \in signed :
                /\ s.sk = [seed |-> s.sk.seed, pk |-> sign_opened.pk]
                /\ sign_opened.pk = PublicKey(s.sk.seed)
                /\ SameVariant(s, sign_opened, got) \/ OtherVariant(s, sign_opened, got)

(* What fips1865_ed25519.c:5 says, "Proper RFC 8032 Section 8.3 domain separation":
   an opening that returns 0 accepted the signature of a message that was signed
   with its own variant.  The code's hash of a context is a prefix of an ordinary
   message, so it does not hold. *)
DomainSeparated ==
    sign_opened # Absent /\ sign_opened.left.ret = 0 =>
        LET got == SubSeq(sign_opened.left.m, 1, sign_opened.left.mlen)
        IN  \E s \in signed : SameVariant(s, sign_opened, got)

(* A signed message, made after a key generation that did not fail, opens with
   its variant and context under its public key, also after the signer has made
   other keys, and gives the message back (the hash of it, for the prehash
   variant).  Only a failed malloc, a message opened in place, or an overrun that
   ends the process stops it. *)
SignedOpens ==
    sign_opened # Absent =>
        \A s \in signed :
            /\ ~s.torn /\ sign_opened.pk = PublicKey(s.sk.seed)
            /\ s.sm = sign_opened.sm
            /\ s.variant = sign_opened.variant /\ s.ctx = sign_opened.ctx
            /\ sign_opened.left.checked /\ sign_opened.place = "apart"
            => \/ sign_opened.left.ret = Absent
               \/ /\ sign_opened.left.ret = 0
                  /\ SubSeq(sign_opened.left.m, 1, sign_opened.left.mlen) =
                         IF s.variant = "ph" THEN Digest(s.msg) ELSE s.msg

(* A failed plain opening reports no length and has zeroed the bytes where the
   message would be, and it writes no further than the smlen bytes of sm.  A
   variant that fails leaves the caller's m as it was, although it has opened the
   message before it looks at the context or at the hash. *)
WhatSignOpenLeaves ==
    sign_opened # Absent =>
        LET left == sign_opened.left
            n == Len(sign_opened.sm)
        IN  /\ sign_opened.variant = "plain" /\ left.checked /\ left.ret # 0 =>
                   /\ left.mlen = 0
                   /\ \A i \in 1 .. n - 2 : left.m[i] = Zero
            /\ sign_opened.variant # "plain" /\ left.ret = -1 =>
                   left.m = Buffer(n)
            /\ sign_opened.variant = "plain" => ~left.overrun
=============================================================================
