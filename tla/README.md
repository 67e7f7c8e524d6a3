# TLA+ models of tweetnacl-modular

These modules model the library in two layers: the parts that keep state and are
shared by threads (the hardware random generator driver, `randombytes`, the two
self-test services, initialisation and the run-time choice of an implementation),
and the functions behind the public interface, which keep none (the NaCl
primitives and their FIPS variants, the post-quantum stub, validated key
generation, checked arithmetic, the vector forms of Salsa20). TLC checks each
model on a small instance; TLAPS proves the main properties for every number of
threads, parties or calls and every value of the constants.

    tlc  -config Drng.cfg Drng.tla            # one run
    tlapm DrngProofs.tla                      # the proofs about a component

Paths below are relative to the repository: `drng.c` is
`src/src/drivers/rng/drng.c`, `randombytes.c` is its neighbour, "fips" is
`src/src/drivers/crypto/fips/fips_selftest.c`, "core" is
`src/src/core/fips_selftest.c`.

## The system

| Part | State it keeps | Operations | What makes it correct |
|---|---|---|---|
| `drng.c`, hardware generator driver | `rng_impl`, `drng_state.initialized`, `drng_init_state` (atomics) | `drng_init`, the four entry points, `drng_fill`, health test, power-up self-test, reset | one thread initialises; nobody continues before the choice is stored; every call returns |
| `randombytes.c` | `randombytes_initialized`, `randombytes_call_count` (atomics), a descriptor per call | `randombytes_init`, `randombytes_safe`, self-test, `randombytes` | success means a full buffer; no descriptor leaks; the self-test runs on time; the fallback waits for the driver |
| fips module state | `fips_state`, `keygen_counter` (volatile), two statics of `fips_crngt` | power-on self-test, conditional self-test, status queries | APPROVED only after a complete run; ERROR is not left by accident; keys are tested every interval |
| core self-tests | four volatile fields of `fips_state` | power-up self-tests, conditional self-test, enable, queries | status and result tell of the last run |
| `init.c` | `nacl_initialized` (volatile) | `nacl_init`, query | set only after a passed run; repeatable after a failed one |
| `dispatch.c` | `current_impl` (plain pointer) | select, force, query, two wrappers | never NULL when called through; best supported entry |
| `tweetnacl.c` | none: buffers of the caller | stream, onetimeauth, secretbox, box, hash, sign, scalarmult | a failed step fails the call; nothing unauthenticated is returned |
| fips hash and signatures | none | SHA-512/t, Ed25519ctx, Ed25519ph | the chaining and the prefixes of the standards |
| `pqc.c` | none | keygen, encapsulate, decapsulate, sign, verify, hybrid | all or nothing on failure |
| `keygen_validate.c`, `secure_utils.c`, `utils.c` | none | checked arithmetic, constant-time helpers, locking, validated generation | agree with their definitions on the whole range |
| `arch/` | none | vectorised Salsa20, processor detection | same result as the software form |
| `integrity.c`, `error.c`, `version.c` | none | placeholder and constants | - |

The parts call each other downwards. `nacl_init` calls the core self-tests and
the selection; the self-tests call the primitives and `randombytes_safe`;
`randombytes_safe` calls `_randombytes_drng_fill` of the driver in a `WITH_DRNG`
build and reads `/dev/urandom` otherwise or after the driver has failed; the
primitives call the dispatched Salsa20 core. There are no callbacks, messages or
persistent state: nothing is recovered after a crash, and the hard behaviours
are the interleavings of threads over the flags and counters above, re-entrance
(the driver's self-test calls the driver), partial and interrupted system calls,
failures half way through an operation, results that a caller ignores, buffers
that overlap or are too short, and counters, carries and partial reductions at
their limits.
`PROJECT.json` lists each hazard at its line with the properties aimed at it.

Not everything in the repository is built. `init.c` is in no build target, and
`dispatch.c` includes `api/tweetnacl.h`, which the tree does not contain; both
are modelled from their text. The fips module is linked but nothing in the
repository calls it: the model's callers are any threads.

## The modules

**`OnceInit`** is the abstract promise: of the callers of a one-time
initialisation, one runs the body, and nobody leaves before the choice is made.

**`Drng`** is `drng_init` with its entry points and its reset, one action per
access to a shared atomic. `pc[t]` is where a thread stands: `init_fast` is the
check of `initialized` (line 401), `init_cas` the compare-and-swap (406),
`init_wait` the loop (409), `probe` and `selftest` the body, `publish_*` the
three stores (448, 451, 454), `reload_impl` the second load in each entry point.
`nested[t]` says that the thread is inside the `drng_fill` of its own self-test.
`Platform` is the build: x86 always keeps `RNG_NONE`; on ARM the register may
or may not deliver a value. The location `generate`, where a selected generator
would be used, has no action, because no thread gets there: that is the theorem
`NoHardware`. `MCDrngHardware` adds what an x86 processor offers, to compare the
selection with the priorities the headers give. The generating loop,
`drng_mark_failure` and the continuous health test, which lie behind that
location, are therefore not modelled.

**`RandomBytes`** composes `randombytes.c` with `Drng` by instance. A thread is
at `at[t]` in `randombytes.c`, and while `in_drng[t]` it takes the steps of the
driver. The calls of the driver from `randombytes_init`, from the self-test and
from the main path return to `AfterDrng`. The self-test fails in every build:
with the driver its fill fails, without it the test looks at a zeroed buffer; so
the model has no passing self-test, and after each failed one the flag is cleared
and `randombytes_init` runs again, as in the code. Reads return any part of what
is missing, are interrupted, fail or hit the end of file. `drng_reset_for_testing`
is not called below `randombytes.c` and is left to `Drng`.

**`FipsModule`** is the fips module state; names it shares with `Lifecycle` begin with `Fips` here. `Main` runs the power-on self-test and
may run it again at any time; all threads, `Main` too, call the conditional
self-test. `keygen_counter++` on a `volatile` is a load and a store, and the
counter is read again for the test. Two power-on self-tests at once would race
on the plain statics of `fips_crngt`, which is undefined, so one thread runs it.
The first sample ever drawn has nothing to be compared with and is accepted.

**`Lifecycle`** is `nacl_init`, the core self-tests and the selection, with every
access of a flag a step. A wrapper is `StartUse`, the selection, and `Use`, where
it reads `current_impl` again. The processor's features are chosen at the start
and never change. The 64-bit key counter does not reach its limit.

**`SelfTests`** composes the last two. Neither service calls the other or reads what
the other keeps, so a behaviour is one of either; `ImplementsServices` proves that it
then is one of both.

**`SecretBox`** is `crypto_box_keypair`, `crypto_secretbox`, `crypto_box` and their
openings, called by parties that exchange boxes. A buffer has the parts the code
addresses, bytes 0..15, 16..31 and the rest; the value of a part is a set of terms
whose exclusive or it is, so that adding the stream twice cancels out. Salsa20,
Poly1305 and Curve25519 are free terms. `StreamXor` refuses what the code refuses
and leaves its output alone; `Secretbox` and `SecretboxOpen` go on regardless, as
the code does. `BoxKeypairFails` is a random source that fails after it has
written over the secret key. `Arrived` puts the parts of different boxes together.

**`Signature`** is `crypto_sign_keypair`, `crypto_sign`, `crypto_sign_open` and the
context and prehash variants of `fips1865_ed25519.c`. A buffer is a sequence of
32-byte slots, so 64 bytes are two; a response S opens to its commitment R only under
the hash it was made with. A slot of a message may be text, zeros or half of a hash,
since the variants sign hashes: a plain message may look like what a variant signs, and
any signed message may be opened by any of the three openings. `SignOpen` follows the code: everything is copied into m, the public
key is put over slot 2, then the hash is made from there; when sm and m are one
buffer, S has been written over by then. A write behind the end of a buffer is
undefined in C: the model lets the call go on or never return.

**`Hash`** is `crypto_hash` and `hash_with_iv` over an abstract compression: how a
message is cut, padded and chained. **`Poly1305`** is `crypto_onetimeauth` with its
limbs and partial reductions, one action per block, for any number and radix of
limbs. **`Salsa20`** is the core and the stream loop with its counter in bytes, for
any width of a word; **`Salsa20Lanes`** the SSE2, AVX2 and NEON forms, as the
words they load, the registers a round mixes and what is stored. **`Field25519`**
is `car25519`, `pack25519`, `unpack25519`, `A`, `Z` and `M` on fewer and smaller
limbs of a number 2^k - c; **`Ladder`** the conditional swaps of
`crypto_scalarmult` and `scalarmult` over points that know which multiple they
are. **`Pqc`** is the stub build of `pqc.c`, every call with the lengths its caller
states; **`KeyValidation`** the retry loop of `keygen_validate.c`;
**`SecureUtils`** the checked and branchless arithmetic of `secure_utils.c`.

**`Primitives`** composes these ten, Salsa20Lanes apart. Their functions work on
the stack and in the caller's buffers and share only constant tables, so calls of
different components cannot interact: a behaviour belongs to one component,
chosen at the start, and the interleavings inside it are those of its callers.

**`DrngProofs`**, **`RandomBytesProofs`**, **`FipsProofs`**, **`LifecycleProofs`**,
**`SecretBoxProofs`** (with `Salsa20` and `Poly1305`), **`SignatureProofs`** (with `Hash`) and
**`PrimitivesProofs`** (`Field25519`, `Ladder`, `Pqc`, `KeyValidation`, `SecureUtils`
and the composition) hold the theorems, over the lemmas of **`NumberLemmas`**. The `MC...`
modules give constants their values, among them the exclusive or of `Salsa20`,
which is a constant so that the proofs hold for any; `MCDrngHardware` adds a
constant of its own.

The operators marked "Variant" in the modules are plausible bugs (a dropped
guard, a forgotten store, a wrong counter). No specification uses them: each is
a body to put in the place of the definition after it, to see that a property
notices. `PROJECT.json` pairs each property with one.

All modules treat the C11 atomics as sequentially consistent. The code uses
acquire loads and release stores for `initialized` and `drng_init_state`, and the
stores that matter (choice, flag, state) are ordered by release; reorderings of
relaxed accesses to different locations are not modelled. The `volatile` flags of
the self-tests and the plain `current_impl` are shared without synchronisation,
which C leaves undefined; the models give them the outcomes of a build that
does each access once and whole, the mildest reading, and find the races there.

## The runs

| Run | Question | Bounds and size |
|---|---|---|
| `drng` | `IInv` (with the types), `HardwareNeverSelected`, `RefinesOnce`, `ResetSticks`, `HangIsPermanent`, `Returns` | three threads, the ARM build, unbounded calls and resets; 1,207 states |
| `drng_x86_hardware` | is a hardware generator chosen where there is one? | two threads, both generators offered; violated |
| `drng_arm_self_wait` | is the waiting thread's initialiser another thread? | violated |
| `randombytes` | the five safety properties of `RandomBytes`, `RInv` and termination | two threads, four requests of two bytes, an interrupt, self-test every second call; 52,704 states |
| `fips_module_interval` | keys tested every interval, also overlapping? | violated |
| `fips_module_error` | is there no way from ERROR to APPROVED? | violated |
| `self_tests` | the properties of `Lifecycle` and of `FipsModule`, with `FipsInv` | `Lifecycle`: two threads, all sets of two features, two runs of the self-tests, three keys, one forced choice. `FipsModule`: main and a worker, three power-on runs, six keys, interval 2, counter modulus 5, two samples. 1.9 million states |
| `lifecycle_forced` | is the selection made once? | violated |
| `primitives` | the fifteen properties of the ten components, and the types | see below; 599,317 states |
| `signature_domains` | is what opens signed in the variant that opens it? | `Signature` as in `primitives`; violated |
| `sha512_variants` | are SHA-512/256 and /224 SHA-512 with other initial values? | as `Hash` below; violated |
| `salsa20_lanes` | do the vector forms compute Salsa20 and HSalsa20? | words of 4 bits, two inputs; violated |

Why the bounds are enough: the race over a one-time initialisation needs a
winner, a waiter, and a caller on the fast path, hence three threads in `Drng`.
In the other modules a lost update or a stale flag needs two. An interval of two
makes every second call due, so that due and ordinary calls overlap; four requests
pass two multiples. Two bytes are read whole, in parts, or cut short. The fips
counter has a small modulus, so that it wraps off a multiple of the interval as
2^32 does with 100. Two runs of the self-tests give a failure followed by a
retry, and two that overlap. The proofs remove these bounds where they exist.

In `primitives`:

- `SecretBox`: two parties, three generations, two sealing calls of which one may
  misuse its buffers or lengths, every combination of the parts of two boxes. Two
  boxes are the least that can be mixed; three generations let either party replace
  its pair, with or without a failure, after a box was made.
- `Signature`: two key generations, two signed messages in every variant, and
  every combination of R, S and text of them. A message, and a context, is empty, one
  slot of text, or the hash of that text: the last is what the prehash variant signs for
  the second, and what the context variant puts before a message under that context.
- `Hash`: blocks of 4 with a length field of 2, messages up to 9: every
  remainder, none, one and two whole blocks, and both counts of padded blocks.
- `Poly1305`: five limbs of three bits, so p = 4 * 8^4 - 5, keys with limbs at
  their ends and messages of one, three, four and five bytes: a partial block, a
  whole one and one of each.
- `Salsa20`: words of four bits, bytes of two; streams of 0 to 290 words, which
  carry the counter from its first byte into its second and end inside and at the
  end of a block. The rotations are the code's, modulo the width.
- `Field25519`: four limbs of four bits and p = 2^15 - 2; four operations, two of
  which are sums, on 0, 1, p - 1, p, the largest number and one between. That p is
  no prime does not matter: nothing here divides. These limbs are about the
  smallest that have the room the code's have (below), so that sums and products
  of sums come close to what two rounds of carrying can reduce.
- `Ladder`: all scalars of six bits, clamped and not.
- `Pqc`: an algorithm of each kind and one not in the table, every length up to 3,
  every fill failing. `KeyValidation`: the code's three attempts. `SecureUtils`:
  every pair of 4-bit operands.

Fairness: `Drng` and `RandomBytes` state weak fairness of each thread's steps
inside a call: a thread that can move is scheduled, and a system call returns. No
fairness is assumed of starting a call, of a reset, or of the outcome of a read;
`MaxInterrupts` bounds EINTR, without which a caller may retry for ever, as in
the code. `Returns` says that every call returns or the initialising thread comes to
wait for itself: the ARM build may hang, and then it does for good (`HangIsPermanent`).
An ARM build whose register delivers nothing takes the steps of an x86 build, which
are therefore among those of the run `drng`.
`CHECK_DEADLOCK FALSE` is set where the model really stops: on ARM, when every
thread is in the endless waiting loop, and in the runs of `FipsModule`, when the
bounds on calls are used up and no call is in progress.

### What the violated runs show

- `drng_x86_hardware`: `drng.c`, `randombytes.h` and the repository's README put the
  hardware generators first. On x86 `drng_init` assigns `RNG_NONE` (424) without asking
  the processor, and every caller takes the fallback.
- `drng_arm_self_wait`: on an ARM build whose RNDR works, `drng_init` runs the
  self-test before it stores `rng_impl`; the self-test calls `drng_fill`, which
  calls `drng_init` again, which waits for state 2: the thread waits for itself,
  and so does every later caller.
- `fips_module_interval`: two overlapping conditional self-tests lose an
  increment that a comment calls atomic.
- `fips_module_error`: the power-on self-test stores APPROVED over an ERROR that
  another thread's conditional self-test has just stored.
- `lifecycle_forced`: a selection that read NULL stores its choice over one forced
  meanwhile.
- `signature_domains`: a context signature opens with the plain `crypto_sign_open`,
  which returns the context hash and the message; a prehash signature opens under the
  context that is its message, as an empty message; and a plain message that begins with
  a context hash opens under that context. RFC 8032, which the header claims to follow,
  puts a prefix of its own into the hash, and the code does not.
- `sha512_variants`: `hash_with_iv` chains nothing: the last blocks start again
  from the initial value, and what is added after the rounds is the state of the
  last round. No digest is the standard's.
- `salsa20_lanes`: the vector forms load two words twice and two never, and do
  not rotate the rows between the rounds; the result is another function.

### What properties that hold say of the code

Some properties state what the code does where a reader may expect otherwise:

- `HardwareNeverSelected`: no build gets to a hardware generator. What the repository
  says is violated in `drng_x86_hardware`, and what its code says of the waiting loop
  in `drng_arm_self_wait`.
- `OpenedWasSigned`: which texts of which variants are accepted by another one, and that
  nothing else is. That none is, which the repository says, is violated in
  `signature_domains`.
- `SignedOpens`: `crypto_sign_open` opens no message in place, although its copy looks
  made for it.
- `SuccessIsComplete`: encapsulation with a signature algorithm fails as a random source
  failure, not as an algorithm of the wrong kind.

### Divergences without a run

The models have these behaviours, too; the properties leave room for them and
state none of them:

- `crypto_secretbox_open` with m and c one buffer: the stream refuses to decrypt
  (`tweetnacl.c` 153), its result is ignored, and the call returns 0 with the
  ciphertext in m, which `secretbox.h` 33 calls the output plaintext.
- A failed `crypto_sign_open` zeroes 64 bytes less than it has copied to m (line 789,
  811), so that the last 64 bytes of m keep the end of a message that was not
  verified; line 808 says that the output is zeroized.
- The context and prehash openings hand `crypto_sign_open` a buffer of what is to come
  out (`fips1865_ed25519.c` 90-93, 134-142), and it copies all that goes in. A context
  opening overruns its buffer whenever it gets that far, a prehash opening does
  unless the message is empty (`OpeningLeaves` in `SignatureProofs`).
- A pair that only the third attempt finds valid is refused: `keygen_validate.c` 50
  looks at the number of attempts, not at the validation that ended the loop; line 35
  says -1 if validation fails.
- The minimum and maximum of operands half of the range or more apart are exchanged
  (`secure_utils.c` 99, 106); `core/utils.h` 72 and 80 know no restriction.
- `pqc_decapsulate` with a signature algorithm accepts a ciphertext of length 0 and
  divides by it (`pqc.c` 372).
- `randombytes_safe` tests every 100th call (`randombytes.c` 150), its header (line 12)
  and `SECURITY.md` (951) say 1000. The interval is a constant of `RandomBytes`, and its
  theorems hold for every value.

## The proofs

`DrngProofs`, for every set of threads and every platform. The inductive
invariant `IInv` says that at most one thread initialises, that
`drng_init_state = 1` while it does, that `initialized` is set only after the
choice is stored, and that a thread in its own self-test never gets past the
request to initialise: it finds neither the flag, which only it could set,
nor state 2, which only it could store. The last part is what makes `NoHardware`
inductive. `ImplementsOnce` maps `Drng` to `OnceInit`: the runner is the thread
that has claimed the initialisation and has not stored its choice, the pending
threads those that have asked and not left. `HangIsForever` proves the hang
permanent, `ResetIsFinal` that nothing re-initialises after a reset.

`RandomBytesProofs`, for every finite set of threads, every interval and every
length. The driver's invariant is carried over by instance (`DriverInv`): each
step of `RandomBytes` is a step of `Drng` or leaves it alone. `RInv` adds that a
thread back from the driver found the choice made (`DriverCalls`), by a case for
each way out of `drng_init` in `ComesBackDecided`; that calls in progress have
no result yet, which carries `FilledOnSuccess`; that a cleared flag has a thread
on its way to set it (`ClearedIsSetAgain`), which gives `InitializedWhenQuiet`;
and `SelfTestsMatchCalls`, which counts the due threads with the finite-set
theorems and needs the quotient fact `DivSucc`.

`FipsProofs`, for every interval and every modulus above it, not only multiples.
`FipsInv` adds to the state properties that `prev` is always the last sample
drawn, not the last accepted, because a rejected sample equals the one before
it; and that without overlap `since_test` is the counter modulo the interval at
rest, one more inside the increment. A counter that wraps to 0 off a multiple is a
multiple again, so the wrap makes a test early, never late.

`LifecycleProofs`, for every set of threads, table and interval. `PassedBefore`
ties each thread on its way to `nacl_initialized` to a passed run in the history;
`StatusInv` says which of the two stores at the end of a run has been made, as
long as no two runs have overlapped; `KeysInv` counts keys by where the only counting
thread is; `SelectedInv` says that a thread about to call through the pointer, or
to mark the library initialised, has seen it set, and that nothing sets it back.
`ChoiceIsBest` is about the loop of the selection: after every entry its candidate
is the best so far, by the argument on loops below.

`SecretBoxProofs`, for any parties, keys, nonces and plaintexts and any bounds.
`BoxInv` says that every sealed box is the one its call computes from its own
message; that a party whose last generation did not fail holds a scalar and its
own point; and that the last opening did what `SecretboxOpen` says with what
arrived. That two terms are equal only when made alike then gives the call
an opening names, and that two parties' keys agree is that a union is symmetric.

`SignatureProofs`, for any messages, contexts and texts and any bounds. `SignInv` has
three parts: every signed message in the history is the one `SignedMessage` computes
from its key, variant, context and text (`SignedAreMade`); the current key, unless its
generation failed, has the public half that belongs to its seed (`KeyInv`); and the
last opening left what its function computes from what it was given, or did not
return because its copy ran over (`SignOpeningInv`). The properties are then about
single calls. `AcceptedWasSigned` is the core: whatever halves and texts
`Received` puts together, the equation of the check holds only for the two slots
of one signing call, because R names seed and content, and S the hash of R, public
key and text. `TextTells` says what follows for the message that comes out: in the
same variant it is the one signed, as context hashes are equal only for equal contexts
(`HashedFronts`, `CtxHashesEqual`), and in another it is one of the few texts that
`OtherVariant` lists. `PlainText`, `CtxText` and `PhText` follow the accepted text through the
copies of each opening, and `CtxSucceeds`, `PhSucceeds` and `PlainSucceeds` show
the other direction.

`SignatureProofs` also proves `Sha512IsStandard`. `IsStandardMessage` is the padded
message of the standard, defined by what its positions hold; the code's whole blocks
followed by its one or two padded ones are such a message (`PaddedMessageIs`), and
two messages that are agree. Two chains over consecutive blocks are one chain over
all of them (`ChainsJoin`), so the two calls of the block loop make the standard's.

`SecretBoxProofs` also proves `StreamIsSalsa20`. The code has one round that works on
columns and stores them as rows; two of them are the specification's column round
and row round (`TwoRounds`: a round leaves the transposed matrix), so twenty are ten
double rounds (`RoundsAre`). What the code adds and subtracts again to derive the
key leaves the words alone (`Undone`), which needs that every word is one:
`RotatedIsWord` shows that the two halves of a rotated word do not overlap.
`IncrementIs` follows the carry through the bytes. `StreamInv` is then that the
counter's value is the number of whole blocks written, which is below the wrap since
the length is limited.

`SecretBoxProofs` also proves `MacIsCorrect`: `Poly1305` keeps what it promises for any
number and radix of limbs. What holds of any number in limbs is in `NumberLemmas`: sums are
treated as functions (`SumsToExist`, `SumToBy`), so that they can be added, scaled and
exchanged; a chain of carries keeps the value of the limbs (`CarriedValue`); a row of a
product is a number shifted by a limb, with a multiple of what falls off coming back at the
bottom, which is the radix times it modulo p (`Rotated`, `RowValue`), and the rows add up
to the product (`ProductValue`). For the authenticator the multiple is 320. The
invariant `Accumulator` bounds the accumulator by 6 Radix^16, which is tighter than
the promised 2 p: the weaker bound is not inductive, as adding a block could carry out
of the top limb. That `squeeze` returns below it needs what a product sends above the
top limb to be small (`MultiplyBound`). `FreezeValue` is the last subtraction, chosen
by the sign of the top limb, and `PolynomialStep` that a block more is a step of
Horner's scheme.

`PrimitivesProofs` proves `PacksAreCanonical` from the same lemmas, for any number and
even radix of limbs. A round of carrying keeps a number modulo p but may leave limb 0
out of range (`CarIs`). The second round carries -1, 0 or 1, and the value is then
below Radix^Limbs (`SecondCarry`, `TwoCars`), so the third carries nothing off the top
and leaves digits; that holds of any limbs whose carry is small enough, which is what
the assumption of the module is about. A borrow in `SubtractOnce` is a carry of -1
(`BorrowedIs`), and two subtractions are enough as Radix^Limbs is below 3 p
(`PackIs`). The limb products of `M` and what it folds back are the rows of
`ProductOf` (`FoldedIs`). The invariant `FieldInv` relates the limbs, the element they
stand for and the count of sums: limbs are within Radix + 38, twice that for each sum
since the last product. It bounds a column of `M` too, by 16 * 38 times the square of
that: below 2^46 with the code's limbs and two sums, the most it makes between
products, so its 64 bits never overflow; the model's numbers have no width.

`PrimitivesProofs`, further: the ladders for any number of bits (the two points stay one
base point apart, and the lower one is the multiple read so far), the retry loop
for any limit, and the checked arithmetic for any width, where the work is in
the truncating division of negative numbers: lemmas give the quotient's bounds
and the products' signs case by case. For `Pqc`, every call is the first of its
checks that refuses, or its work (`FirstOf2` to `FirstOf6`), and each of the eight has
a lemma that its result is `Sound` whichever it is. `ImplementsComponents` shows that
a step of `Primitives` is a step of one component and a stutter of the others;
`PrimitivesAreRight` and `PrimitivesTypes` then carry the components' theorems over.

Loops. The prover cannot use a theorem of induction over an operator, but it can use
one over a set: `LeastMember` says that a set of numbers that is not empty has a
least one, and `UpTo` follows, that a set with 0 and with the successors of its
members has all numbers up to a bound. `LoopExists` makes of it that the recursive
function of a loop exists. The loops of the selection, the block chain, the rounds
and the carry are proved with these three.

The proofs assume only the named ASSUMEs of the modules, which TLC evaluates in each
run. Those of `Salsa20` are that a rotation divides the width of a word, that the
exclusive or of words is a word, and that the longest stream has fewer blocks than the
counter has values (2^22 and 2^64 in the code); that of `Poly1305` is more than four
limbs and no more than a limb has values (17 and 256 in the code), a radix of at least
8 that 4 divides; that of `Field25519` is an even radix, a constant c of 2^k - c that
is no larger, and so few sums between products that 2 c ((column / (Radix - 1)) + 2)
is at most Radix^Limbs, where column is the bound above: about 2^35 and 2^256 in the
code; that of `Pqc` is that an algorithm makes ciphertexts or signatures, as its table
has it.

Only model-checked: the liveness properties (`Returns`, `CallsReturn`), which are
outside the prover's fragment.

## Not modelled

- In `tweetnacl.c`: the addition formulas on curve points (`add`, the body of the
  Montgomery ladder), the exponent chains `inv25519` and `pow2523`, the square root in
  `unpackneg`, the reduction `modL` and the 80 rounds of SHA-512. These are
  straight-line arithmetic on numbers of 255 bits and more, without branches
  that depend on state; `Ladder`, `Signature` and `Hash` take their results as terms.
- In `secure_utils.c` and `utils.c`: single comparisons (`safe_range_check`,
  `validate_index`), selections, string copies, locking and zeroing of memory, each
  one call of the system or one test.
- In `drng.c`: the generating loop, `drng_mark_failure` and the continuous health
  test. `NoHardware` proves that no call gets there.
- In `pqc.c`: the liboqs build, an external library, and the queries of the
  constant table. In `randombytes.c`: the Windows branch, and the wrapper that drops
  the result.
- `dispatch.c`: the list query and the static build. `software_impl.c` is a
  stub: it defines none of the functions `dispatch.c` declares.
- Processor detection (Lifecycle takes every set of features as an input), the
  wrapper files that forward arguments, the placeholder of `integrity.c`, the
  constant tables, bindings, samples, tests and build files.
- Two power-on self-tests of the fips module at once: `prev` and `initialized` of
  `fips_crngt` (234) are plain statics, and a concurrent run is a data race.

What could be added: the composition of `Lifecycle` with
`RandomBytes`, whose `randombytes_safe` the core self-tests call; and an abstract specification of an
authenticated channel that `SecretBox` implements.
