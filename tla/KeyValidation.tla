--------------------------- MODULE KeyValidation ---------------------------
(***************************************************************************)
(* nacl_keypair_generate_validated and nacl_keypair_validate               *)
(* (src/src/core/keygen_validate.c): a pair is generated, its public key   *)
(* computed again and compared, at most max_attempts times.                *)
(*                                                                         *)
(* A fault may spoil one of the two computations of an attempt.            *)
(***************************************************************************)
EXTENDS Integers

CONSTANT max_attempts   \* 3 in the code

ASSUME KeyValidationAssumption == max_attempts \in Nat \ {0}

VARIABLES
    kv_pc,      \* where the call is
    kv_ret,     \* what the last call returned
    attempts,
    sound,      \* the buffers hold a secret key and its public key
    kv_failed,  \* history: crypto_box_keypair has failed in this call
    matched     \* history: the attempts of this call whose comparison matched

keyValidationVars == <<kv_pc, kv_ret, attempts, sound, kv_failed, matched>>

KeyValidationInit ==
    /\ kv_pc = "idle"
    /\ kv_ret = -1
    /\ attempts = 0
    /\ sound = FALSE
    /\ kv_failed = FALSE
    /\ matched = {}

GenerateValidated ==
    /\ kv_pc = "idle"
    /\ kv_pc' = "keypair"
    /\ attempts' = 0
    /\ kv_failed' = FALSE
    /\ matched' = {}
    /\ UNCHANGED <<kv_ret, sound>>

\* No randomness: the buffers are left with halves of two pairs.
GenerationFails ==
    /\ kv_pc = "keypair"
    /\ kv_pc' = "idle"
    /\ kv_ret' = -1
    /\ kv_failed' = TRUE
    /\ sound' = FALSE
    /\ UNCHANGED <<attempts, matched>>

Generation(spoilt) ==
    /\ kv_pc = "keypair"
    /\ kv_pc' = "validate"
    /\ attempts' = attempts + 1
    /\ sound' = ~spoilt
    /\ UNCHANGED <<kv_ret, kv_failed, matched>>

\* nacl_keypair_validate: the second computation may be the spoilt one.
Validates(spoilt) == sound /\ ~spoilt

\* Variant: one attempt more.
RetriesOnceMore(same) == ~same /\ attempts <= max_attempts

Retries(same) == ~same /\ attempts < max_attempts

\* Variant: the count alone decides, and reaches one more.
ReturnsAtLimit == IF attempts <= max_attempts THEN 0 ELSE -1

\* The count alone decides, and is at its limit after the last attempt.
Returns == IF attempts < max_attempts THEN 0 ELSE -1

Validation(spoilt) ==
    /\ kv_pc = "validate"
    /\ matched' = IF Validates(spoilt) THEN matched \union {attempts} ELSE matched
    /\ IF Retries(Validates(spoilt))
       THEN kv_pc' = "keypair" /\ UNCHANGED kv_ret
       ELSE kv_pc' = "idle" /\ kv_ret' = Returns
    /\ UNCHANGED <<attempts, sound, kv_failed>>

KeyValidationNext ==
    \/ GenerateValidated \/ GenerationFails
    \/ \E spoilt \in BOOLEAN : Generation(spoilt) \/ Validation(spoilt)

KeyValidationSpec == KeyValidationInit /\ [][KeyValidationNext]_keyValidationVars
-----------------------------------------------------------------------------
KeyValidationTypeOK ==
    /\ kv_pc \in {"idle", "keypair", "validate"}
    /\ kv_ret \in {0, -1}
    /\ attempts \in 0 .. max_attempts
    /\ sound \in BOOLEAN /\ kv_failed \in BOOLEAN
    /\ matched \subseteq 1 .. max_attempts

(* A call that returns 0 leaves a pair that belongs together: the one its last
   attempt generated, found so by the comparison of that attempt, and no earlier
   one.  A call that returns -1 though randomness did not fail has made all its
   attempts, and none but the last matched. *)
ValidatedReturn ==
    kv_pc = "idle" =>
        /\ kv_ret = 0 => sound /\ ~kv_failed /\ matched = {attempts}
        /\ kv_ret = -1 /\ attempts > 0 /\ ~kv_failed =>
               attempts = max_attempts /\ matched \subseteq {max_attempts}
=============================================================================
