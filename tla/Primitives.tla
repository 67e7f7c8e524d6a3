----------------------------- MODULE Primitives -----------------------------
(***************************************************************************)
(* The functions of the library behind its public interface: the NaCl      *)
(* primitives, their FIPS variants, the post-quantum stub, validated key   *)
(* generation and checked arithmetic.                                      *)
(*                                                                         *)
(* All they share is the constant tables: what they work on is on the      *)
(* stack or in the caller's buffers.  So their calls do not interact, and  *)
(* a behaviour is one of any one of them.                                  *)
(***************************************************************************)
EXTENDS SecretBox, Signature, Hash, Poly1305, Salsa20, Field25519, Ladder,
        Pqc, KeyValidation, SecureUtils

VARIABLE component   \* the one whose functions are called

Components == {"box", "sign", "hash", "onetimeauth", "stream", "field", "scalarmult",
               "pqc", "keygen_validate", "secure_utils"}

PrimitivesInit ==
    /\ component \in Components
    /\ SecretBoxInit /\ SignatureInit /\ HashInit /\ Poly1305Init /\ Salsa20Init
    /\ Field25519Init /\ LadderInit /\ PqcInit /\ KeyValidationInit /\ SecureUtilsInit

symbolicVars == <<secretBoxVars, signatureVars>>
arithmeticVars == <<hash_last, poly1305Vars, salsa20Vars, field25519Vars, ladderVars>>
interfaceVars == <<pqcVars, keyValidationVars, utils_last>>

\* The others stay as they are.
BoxStep ==
    /\ component = "box" /\ SecretBoxNext
    /\ UNCHANGED <<component, signatureVars, arithmeticVars, interfaceVars>>

SignStep ==
    /\ component = "sign" /\ SignatureNext
    /\ UNCHANGED <<component, secretBoxVars, arithmeticVars, interfaceVars>>

HashStep ==
    /\ component = "hash" /\ HashNext
    /\ UNCHANGED <<component, poly1305Vars, salsa20Vars, field25519Vars, ladderVars,
                   symbolicVars, interfaceVars>>

OneTimeAuthStep ==
    /\ component = "onetimeauth" /\ Poly1305Next
    /\ UNCHANGED <<component, hash_last, salsa20Vars, field25519Vars, ladderVars,
                   symbolicVars, interfaceVars>>

StreamStep ==
    /\ component = "stream" /\ Salsa20Next
    /\ UNCHANGED <<component, hash_last, poly1305Vars, field25519Vars, ladderVars,
                   symbolicVars, interfaceVars>>

FieldStep ==
    /\ component = "field" /\ Field25519Next
    /\ UNCHANGED <<component, hash_last, poly1305Vars, salsa20Vars, ladderVars,
                   symbolicVars, interfaceVars>>

ScalarMultStep ==
    /\ component = "scalarmult" /\ LadderNext
    /\ UNCHANGED <<component, hash_last, poly1305Vars, salsa20Vars, field25519Vars,
                   symbolicVars, interfaceVars>>

PqcStep ==
    /\ component = "pqc" /\ PqcNext
    /\ UNCHANGED <<component, keyValidationVars, utils_last, symbolicVars, arithmeticVars>>

ValidateStep ==
    /\ component = "keygen_validate" /\ KeyValidationNext
    /\ UNCHANGED <<component, pqcVars, utils_last, symbolicVars, arithmeticVars>>

UtilsStep ==
    /\ component = "secure_utils" /\ SecureUtilsNext
    /\ UNCHANGED <<component, pqcVars, keyValidationVars, symbolicVars, arithmeticVars>>

primitivesVars == <<component, symbolicVars, arithmeticVars, interfaceVars>>

PrimitivesNext ==
    \/ BoxStep \/ SignStep \/ HashStep \/ OneTimeAuthStep \/ StreamStep
    \/ FieldStep \/ ScalarMultStep \/ PqcStep \/ ValidateStep \/ UtilsStep

PrimitivesSpec == PrimitivesInit /\ [][PrimitivesNext]_primitivesVars
-----------------------------------------------------------------------------
\* The types of the components that keep any.
TypeOK ==
    /\ component \in Components
    /\ SecretBoxTypeOK /\ SignatureTypeOK /\ LadderTypeOK /\ PqcTypeOK /\ KeyValidationTypeOK
=============================================================================
