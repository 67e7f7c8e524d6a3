-------------------------------- MODULE Pqc --------------------------------
(***************************************************************************)
(* The stub build of the post-quantum interface                            *)
(* (src/src/drivers/crypto/pqc.c): the calls, with the lengths their      *)
(* callers state and the random source failing at any of its uses.         *)
(*                                                                         *)
(* Lengths are numbers; the content of an output buffer is abstracted to   *)
(* where its bytes come from, one value for each part of a hybrid buffer.  *)
(***************************************************************************)
EXTENDS Integers, Sequences, FiniteSets

CONSTANTS
    Algorithms,        \* identifiers, also some that are not in the table
    pqc_params_table,  \* from algorithms to [pk, sk, ct, sig, ss], the sizes
    Curve,             \* the size of a Curve25519 half, 32 in the code
    MaxLength          \* bound: lengths a caller states

ASSUME PqcAssumption ==
    /\ DOMAIN pqc_params_table \subseteq Algorithms
    /\ \A algo \in DOMAIN pqc_params_table :
           pqc_params_table[algo] \in [pk : Nat \ {0}, sk : Nat \ {0}, ct : Nat,
                                       sig : Nat, ss : Nat \ {0}]
    /\ \A algo \in DOMAIN pqc_params_table :
           pqc_params_table[algo].ct = 0 \/ pqc_params_table[algo].sig = 0
    /\ Curve \in Nat \ {0} /\ MaxLength \in Nat

VARIABLE pqc_last   \* the last call: what it was given, its result, what it wrote

pqcVars == pqc_last

Sizes == 0 .. MaxLength

PqcInit == pqc_last = [op |-> "none"]

-----------------------------------------------------------------------------
(* pqc_get_params; the sizes of an unknown algorithm are never used *)
Supported(algo) == algo \in DOMAIN pqc_params_table

Params(algo) ==
    IF Supported(algo) THEN pqc_params_table[algo]
    ELSE [pk |-> 0, sk |-> 0, ct |-> 0, sig |-> 0, ss |-> 0]

\* The first of some checks, or fills, that fails.
First(indices) == CHOOSE i \in indices : \A j \in indices : i <= j

FirstError(checks) ==
    LET failing == {i \in DOMAIN checks : checks[i][1]}
    IN  IF failing = {} THEN "SUCCESS" ELSE checks[First(failing)][2]

NullPointer(in) == <<in.null, "INVALID_PARAM">>
Unsupported(algo) == <<~Supported(algo), "ALGORITHM_NOT_SUPPORTED">>
TooSmall(condition) == <<condition, "BUFFER_TOO_SMALL">>

-----------------------------------------------------------------------------
(* Output buffers *)
Untouched == [written |-> 0, content |-> <<"old">>]
Zeros(size) == [written |-> size, content |-> <<"zero">>]

\* Variant: a fill of no bytes succeeds.
RefusesNoBytes(size) == FALSE

\* randombytes_safe takes a length of zero for an error.
Refuses(size) == size = 0

\* A call fills buffers of these sizes one after the other; fill number broken,
\* if there is one, fails with its buffer partly written, and ends the call.
Stop(sizes, broken) ==
    First({i \in DOMAIN sizes : Refuses(sizes[i]) \/ i = broken}
              \union {Len(sizes) + 1})

Fill(i, sizes, stop) ==
    IF i < stop THEN [written |-> sizes[i], content |-> <<"random">>]
    ELSE IF i = stop /\ sizes[i] # 0
    THEN [written |-> sizes[i], content |-> <<"partial">>]
    ELSE Untouched

Outcome(sizes, stop) == IF stop <= Len(sizes) THEN "RNG_FAILURE" ELSE "SUCCESS"

Result(ret, a, b, len) == [ret |-> ret, a |-> a, b |-> b, len |-> len]
Rejected(error, len) == Result(error, Untouched, Untouched, len)

-----------------------------------------------------------------------------
(* The calls: a and b are what becomes of the buffers they write *)

\* a is the public key, b the secret key.
pqc_keygen(algo, in, broken) ==
    LET p == Params(algo)
        error == FirstError(<<Unsupported(algo), NullPointer(in),
                     TooSmall(in.pk < p.pk \/ in.sk < p.sk)>>)
        stop == Stop(<<p.pk, p.sk>>, broken)
    IN  IF error # "SUCCESS" THEN Rejected(error, in.len)
        ELSE Result(Outcome(<<p.pk, p.sk>>, stop), Fill(1, <<p.pk, p.sk>>, stop),
                    Fill(2, <<p.pk, p.sk>>, stop), in.len)

\* a is the ciphertext, b the shared secret, which is filled twice.
pqc_encapsulate(algo, in, broken) ==
    LET p == Params(algo)
        error == FirstError(<<NullPointer(in), Unsupported(algo),
                     TooSmall(in.pk < p.pk), TooSmall(in.len < p.ct),
                     TooSmall(in.ss < p.ss)>>)
        sizes == <<p.ct, p.ss, p.ss>>
        stop == Stop(sizes, broken)
    IN  IF error # "SUCCESS"
        THEN Rejected(error, IF error = "BUFFER_TOO_SMALL" /\ in.pk >= p.pk
                                /\ in.len < p.ct
                            THEN p.ct ELSE in.len)
        ELSE Result(Outcome(sizes, stop), Fill(1, sizes, stop),
                    Fill(IF stop = 3 THEN 3 ELSE 2, sizes, stop), p.ct)

\* The ciphertext is read modulo its stated length, which traps at zero.
pqc_decapsulate(algo, in, broken) ==
    LET p == Params(algo)
        error == FirstError(<<NullPointer(in), Unsupported(algo),
                     TooSmall(in.sk < p.sk \/ in.len < p.ct),
                     TooSmall(in.ss < p.ss)>>)
        stop == Stop(<<p.ss>>, broken)
    IN  IF error # "SUCCESS" THEN Rejected(error, in.len)
        ELSE Result(IF stop = 2 /\ in.len = 0 THEN "TRAP" ELSE Outcome(<<p.ss>>, stop),
                    Untouched, Fill(1, <<p.ss>>, stop), in.len)

\* a is the signature.
pqc_sign(algo, in, broken) ==
    LET p == Params(algo)
        error == FirstError(<<NullPointer(in), Unsupported(algo),
                     TooSmall(in.sk < p.sk), TooSmall(in.len < p.sig)>>)
        stop == Stop(<<p.sig>>, broken)
    IN  IF error # "SUCCESS"
        THEN Rejected(error, IF error = "BUFFER_TOO_SMALL" /\ in.sk >= p.sk
                            THEN p.sig ELSE in.len)
        ELSE Result(Outcome(<<p.sig>>, stop), Fill(1, <<p.sig>>, stop), Untouched, p.sig)

\* The stub never verifies.
pqc_verify(algo, in, broken) ==
    LET p == Params(algo)
        error == FirstError(<<NullPointer(in), Unsupported(algo),
                     TooSmall(in.pk < p.pk \/ in.len < p.sig)>>)
    IN  Rejected(IF error = "SUCCESS" THEN "VERIFICATION_FAILED" ELSE error, in.len)

\* The length is only an output: what room there is, is not known.
pqc_hybrid_keygen(algo, in, broken) ==
    LET p == Params(algo)
        error == FirstError(<<NullPointer(in), Unsupported(algo)>>)
        inner == pqc_keygen(algo, [in EXCEPT !.pk = p.pk, !.sk = p.sk], broken)
        Behind(buffer, size) ==
            [written |-> Curve + size,
             content |-> <<"zero">> \o IF buffer = Untouched THEN <<"zero">>
                                       ELSE buffer.content]
    IN  IF error # "SUCCESS" THEN Rejected(error, in.len)
        ELSE Result(inner.ret, Behind(inner.a, p.pk), Behind(inner.b, p.sk), Curve + p.pk)

pqc_hybrid_encapsulate(algo, in, broken) ==
    LET p == Params(algo)
        required == Curve + p.ct
        error == FirstError(<<NullPointer(in), Unsupported(algo),
                     <<in.pk < Curve, "INVALID_PARAM">>, TooSmall(in.pk - Curve < p.pk),
                     TooSmall(in.len < required), TooSmall(in.ss < Curve)>>)
    IN  IF error # "SUCCESS"
        THEN Rejected(error, IF error = "BUFFER_TOO_SMALL" /\ in.pk - Curve >= p.pk
                            THEN required ELSE in.len)
        ELSE Result(error, Zeros(required), Zeros(Curve), required)

pqc_hybrid_decapsulate(algo, in, broken) ==
    LET p == Params(algo)
        error == FirstError(<<NullPointer(in), Unsupported(algo),
                     <<in.sk < Curve, "INVALID_PARAM">>,
                     <<in.len < Curve + p.ct, "INVALID_PARAM">>, TooSmall(in.ss < Curve)>>)
        stop == Stop(<<Curve>>, broken)
    IN  IF error # "SUCCESS" THEN Rejected(error, in.len)
        ELSE Result(Outcome(<<Curve>>, stop), Untouched, Fill(1, <<Curve>>, stop), in.len)

-----------------------------------------------------------------------------
\* What a caller states: of the lengths a call takes, any; of the others, 0.
Given(lengths) ==
    LET Stated(name) == IF name \in lengths THEN Sizes ELSE {0}
    IN  [null : BOOLEAN, pk : Stated("pk"), sk : Stated("sk"), len : Stated("len"),
         ss : Stated("ss")]

PqcCall(op, algo, in, result) ==
    pqc_last' = [op |-> op, algo |-> algo, in |-> in, result |-> result]

PqcReturn ==
    /\ pqc_last.op # "none"
    /\ pqc_last' = [op |-> "none"]

PqcNext ==
    \/ /\ pqc_last.op = "none"
       /\ \E algo \in Algorithms, broken \in 0 .. 3 :
           \/ \E in \in Given({"pk", "sk"}) :
                  PqcCall("keygen", algo, in, pqc_keygen(algo, in, broken))
           \/ \E in \in Given({"pk", "len", "ss"}) :
                  PqcCall("encapsulate", algo, in, pqc_encapsulate(algo, in, broken))
           \/ \E in \in Given({"sk", "len", "ss"}) :
                  PqcCall("decapsulate", algo, in, pqc_decapsulate(algo, in, broken))
           \/ \E in \in Given({"sk", "len"}) :
                  PqcCall("sign", algo, in, pqc_sign(algo, in, broken))
           \/ \E in \in Given({"pk", "len"}) :
                  PqcCall("verify", algo, in, pqc_verify(algo, in, broken))
           \/ \E in \in Given({}) :
                  PqcCall("hybrid_keygen", algo, in, pqc_hybrid_keygen(algo, in, broken))
           \/ \E in \in Given({"pk", "len", "ss"}) :
                  PqcCall("hybrid_encapsulate", algo, in,
                          pqc_hybrid_encapsulate(algo, in, broken))
           \/ \E in \in Given({"sk", "len", "ss"}) :
                  PqcCall("hybrid_decapsulate", algo, in,
                          pqc_hybrid_decapsulate(algo, in, broken))
    \/ PqcReturn

PqcSpec == PqcInit /\ [][PqcNext]_pqcVars
-----------------------------------------------------------------------------
Errors == {"INVALID_PARAM", "ALGORITHM_NOT_SUPPORTED", "BUFFER_TOO_SMALL",
           "RNG_FAILURE", "VERIFICATION_FAILED"}

PqcTypeOK ==
    pqc_last.op # "none" => /\ pqc_last.result.ret \in Errors \union {"SUCCESS", "TRAP"}
                       /\ pqc_last.result.len \in Nat

\* What each call fills, and the room its caller has stated for it.
Outputs(call) ==
    LET a == <<call.result.a, call.in.len>>
        b == <<call.result.b, call.in.ss>>
    IN  CASE call.op = "keygen" -> {<<call.result.a, call.in.pk>>,
                                    <<call.result.b, call.in.sk>>}
          [] call.op \in {"encapsulate", "hybrid_encapsulate"} -> {a, b}
          [] call.op \in {"decapsulate", "hybrid_decapsulate"} -> {b}
          [] call.op = "sign" -> {a}
          [] OTHER -> {}

IsKem(algo) == Supported(algo) /\ Params(algo).ct # 0

(* A call that returns success has filled all of every buffer it was to fill,
   within the room stated for it (hybrid key generation is told of none), and
   only for an algorithm of the right kind: the stub has no check of the kind, a
   size of zero is refused by the random source, reached last.  A call that
   fails has written nothing, unless randomness failed on the way; the only
   other end is the division by a ciphertext length of zero, which only a
   signature algorithm lets through. *)
SuccessIsComplete ==
    pqc_last.op # "none" =>
        LET result == pqc_last.result
            algo == pqc_last.algo
        IN  /\ \A out \in Outputs(pqc_last) :
                   /\ out[1].written <= out[2]
                   /\ result.ret = "SUCCESS" =>
                          /\ out[1].written > 0
                          /\ out[1].content \in {<<"random">>, <<"zero">>}
            /\ result.ret = "SUCCESS" /\ pqc_last.op = "encapsulate" => IsKem(algo)
            /\ result.ret = "SUCCESS" /\ pqc_last.op = "sign" => ~IsKem(algo)
            /\ result.ret \in Errors \ {"RNG_FAILURE"} =>
                   result.a = Untouched /\ result.b = Untouched
            /\ result.ret = "TRAP" => ~IsKem(algo) /\ pqc_last.in.len = 0
=============================================================================
