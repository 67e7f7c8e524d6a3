-------------------------------- MODULE Hash --------------------------------
(***************************************************************************)
(* crypto_hash (src/src/tweetnacl/tweetnacl.c) and the truncated variants  *)
(* built beside it (src/src/drivers/crypto/fips/fips1804_sha512.c): how a  *)
(* message is cut into blocks, padded and chained.                         *)
(*                                                                         *)
(* The 80 rounds on a block are a free term of the chain value and the     *)
(* block, so that two results are equal only when they were made alike.    *)
(***************************************************************************)
EXTENDS Integers, Sequences

CONSTANTS
    Block,        \* bytes of a block, 128 in the code
    LengthField,  \* bytes reserved at the end for the length, 16 in the code
    HashBytes,
    MaxHashed     \* bound: bytes of a message

ASSUME HashAssumption ==
    /\ LengthField \in Nat \ {0} /\ Block \in Nat /\ Block > LengthField
    /\ MaxHashed \in Nat

VARIABLE hash_last   \* the last call: its variant, message and result

HashInit == hash_last = [variant |-> "none"]

-----------------------------------------------------------------------------
\* The initial values, and the length in bits that ends the padding.
Iv(variant) == <<"iv", variant>>
LengthOf(m) == <<"length", Len(m)>>

\* The rounds on a block, and what is added after them: the chain value in
\* crypto_hashblocks, in sha512_blocks a state from within the last round.
Compress(added, h, block) == <<added, h, block>>

\* The block loop of both, over the whole blocks of m.
Blocks(m, h0, added) ==
    LET h[i \in 0 .. Len(m) \div Block] ==
            IF i = 0 THEN h0
            ELSE Compress(added, h[i - 1], SubSeq(m, (i - 1) * Block + 1, i * Block))
    IN  h[Len(m) \div Block]

\* Variant: a rest of exactly Block - LengthField bytes gets one block.
PaddedBlocksOneMore(rest) == IF rest <= Block - LengthField THEN 1 ELSE 2

PaddedBlocks(rest) == IF rest < Block - LengthField THEN 1 ELSE 2

\* The buffer x: the rest of m after its whole blocks, 128, zeros, the length.
Padded(m) ==
    LET rest == Len(m) % Block
        size == PaddedBlocks(rest) * Block
    IN  [i \in 1 .. size |->
            CASE i <= rest     -> m[Len(m) - rest + i]
              [] i = rest + 1  -> <<"128">>
              [] i = size      -> LengthOf(m)
              [] OTHER         -> <<"0">>]

crypto_hash(m) ==
    Blocks(Padded(m), Blocks(m, Iv("sha512"), "chain value"), "chain value")

\* hash_with_iv: the second call starts from the initial value again, and what
\* the first one stored in h is written over.
hash_with_iv(variant, m) ==
    Blocks(Padded(m), Iv(variant), "last state")

-----------------------------------------------------------------------------
HashCall(m) ==
    /\ hash_last.variant = "none"
    /\ \/ hash_last' = [variant |-> "sha512", m |-> m, out |-> crypto_hash(m)]
       \/ \E variant \in {"sha512_256", "sha512_224"} :
              hash_last' = [variant |-> variant, m |-> m,
                            out |-> hash_with_iv(variant, m)]

HashReturn ==
    /\ hash_last.variant # "none"
    /\ hash_last' = [variant |-> "none"]

HashedMessages == UNION {[1 .. n -> HashBytes] : n \in 0 .. MaxHashed}

HashNext ==
    \/ \E m \in HashedMessages : HashCall(m)
    \/ HashReturn

HashSpec == HashInit /\ [][HashNext]_hash_last
-----------------------------------------------------------------------------
\* FIPS 180-4: the message, a one bit, the fewest zeros that make whole blocks,
\* and the length in a field of its own; every block is chained.
Standard(variant, m) ==
    LET zeros == CHOOSE k \in 0 .. Block - 1 :
                     (Len(m) + 1 + k + LengthField) % Block = 0
        fill == [i \in 1 .. zeros + LengthField - 1 |-> <<"0">>]
    IN  Blocks(m \o <<<<"128">>>> \o fill \o <<LengthOf(m)>>, Iv(variant),
               "chain value")

(* crypto_hash, which hashes the whole blocks where they are and pads the rest
   in a buffer of two blocks, is the chain over the padded message of the
   standard, for every length around the end of a block. *)
HashIsStandard ==
    hash_last.variant = "sha512" => hash_last.out = Standard("sha512", hash_last.m)

(* The variants are said to be "Same as SHA-512 but with different initial hash
   values" (fips1804_sha512.c:3). *)
SameAsSha512ButIv ==
    hash_last.variant # "none" =>
        hash_last.out = Standard(hash_last.variant, hash_last.m)
=============================================================================
