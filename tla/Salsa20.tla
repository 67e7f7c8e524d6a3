------------------------------ MODULE Salsa20 ------------------------------
(***************************************************************************)
(* crypto_stream (src/src/tweetnacl/tweetnacl.c): the Salsa20 core, and    *)
(* the loop that runs it over a counter kept in bytes.                     *)
(*                                                                         *)
(* The width of a word and of its bytes, and the rotations, are            *)
(* parameters; the state has its 16 words and the core its 20 rounds.      *)
(***************************************************************************)
EXTENDS Integers, Sequences

CONSTANTS
    Word,         \* values of a word, 2^32 in the code
    Rotations,    \* the powers of 2 of the four rotations; 2^7, 2^9, 2^13, 2^18
    Byte,         \* values of a byte, 256 in the code; a counter has 8
    sigma,        \* four words, "expand 32-byte k" in the code
    StreamInputs, \* keys of 8 words with nonces of 6
    StreamLengths, \* lengths asked for, in words
    MaxStream,    \* the longest stream, in words; 256 MB in the code
    XorWords(_, _) \* exclusive or of two words

ASSUME Salsa20Assumption ==
    /\ Byte \in Nat /\ Byte > 1 /\ Word = Byte * Byte
    /\ Rotations \in [0 .. 3 -> 1 .. Word - 1]
    /\ \A i \in 0 .. 3 : Word % Rotations[i] = 0
    /\ sigma \in [0 .. 3 -> 0 .. Word - 1]
    /\ \A in \in StreamInputs : in.k \in [0 .. 7 -> 0 .. Word - 1]
                             /\ in.n \in [0 .. 5 -> 0 .. Word - 1]
    /\ StreamLengths \subseteq Nat
    /\ MaxStream \in Nat /\ MaxStream < 16 * Word * Word
    /\ \A x, y \in 0 .. Word - 1 : XorWords(x, y) \in 0 .. Word - 1

VARIABLES
    st_pc,   \* where the call is
    st_in,   \* its key and nonce
    st_left, \* b, what is still to be written, in words
    st_z,    \* the counter's bytes, z[8..15]
    st_out   \* the blocks written; the last may be cut

salsa20Vars == <<st_pc, st_in, st_left, st_z, st_out>>

\* The code's counter has 8 bytes in two words; here a word has two.
Counter == [i \in 1 .. 4 |-> 0]

Salsa20Init ==
    /\ st_pc = "idle"
    /\ st_in = [k |-> <<>>, n |-> <<>>]
    /\ st_left = 0
    /\ st_z = Counter
    /\ st_out = <<>>

-----------------------------------------------------------------------------
L32(x, i) == ((x * Rotations[i]) % Word) + ((x * Rotations[i]) \div Word)
Plus(x, y) == (x + y) % Word

QuarterRound(a, b, c, d) ==
    LET t1 == XorWords(b, L32(Plus(a, d), 0))
        t2 == XorWords(c, L32(Plus(t1, a), 1))
        t3 == XorWords(d, L32(Plus(t2, t1), 2))
        t0 == XorWords(a, L32(Plus(t3, t2), 3))
    IN  <<t0, t1, t2, t3>>

\* The state before the rounds: constants on the diagonal, the two halves of the
\* key around the input.
Load(in, k, c) ==
    [i \in 0 .. 15 |->
        CASE i \in {0, 5, 10, 15} -> c[i \div 5]
          [] i \in 1 .. 4         -> k[i - 1]
          [] i \in 6 .. 9         -> in[i - 6]
          [] i \in 11 .. 14       -> k[i - 7]]

\* Column j, from the diagonal down.
Column(x, j) ==
    QuarterRound(x[5 * j], x[(5 * j + 4) % 16], x[(5 * j + 8) % 16], x[(5 * j + 12) % 16])

\* Each column is stored as the row of its number, from the diagonal on.
Round(x) ==
    LET t == <<Column(x, 0), Column(x, 1), Column(x, 2), Column(x, 3)>>
    IN  [i \in 0 .. 15 |-> t[1 + (i \div 4)][1 + ((i - (i \div 4)) % 4)]]

Rounds(x) ==
    LET after[i \in 0 .. 20] == IF i = 0 THEN x ELSE Round(after[i - 1])
    IN  after[20]

crypto_core_salsa20(in, k, c) ==
    LET y == Load(in, k, c)
        x == Rounds(y)
    IN  [i \in 0 .. 15 |-> Plus(x[i], y[i])]

\* What was added is subtracted again from the eight words that are stored.
crypto_core_hsalsa20(in, k, c) ==
    LET y == Load(in, k, c)
        z == Rounds(y)
        x == [i \in 0 .. 15 |-> Plus(z[i], y[i])]
    IN  [i \in 0 .. 7 |-> IF i < 4 THEN (x[5 * i] - c[i]) % Word
                                   ELSE (x[2 + i] - in[i - 4]) % Word]

-----------------------------------------------------------------------------
\* Variant: the carry is lost after the first byte.
IncrementNoCarry(z) == [z EXCEPT ![1] = (@ + 1) % Byte]

\* u is the carry, 1 at first, into each byte in turn.
Increment(z) ==
    LET u[i \in 1 .. 4] == z[i] + IF i = 1 THEN 1 ELSE u[i - 1] \div Byte
    IN  [i \in 1 .. 4 |-> u[i] % Byte]

\* One block: hsalsa20 of 4 words of the nonce makes the key (crypto_stream); the
\* other 2 and the counter are the input.
BlockFor(in, z) ==
    LET key == crypto_core_hsalsa20([i \in 0 .. 3 |-> in.n[i]], in.k, sigma)
        input == [i \in 0 .. 3 |->
                     CASE i < 2 -> in.n[4 + i]
                       [] i = 2 -> z[1] + Byte * z[2]
                       [] i = 3 -> z[3] + Byte * z[4]]
    IN  crypto_core_salsa20(input, key, sigma)

\* A longer stream is refused at once.
StreamStart(in, b) ==
    /\ st_pc = "idle"
    /\ b <= MaxStream
    /\ st_pc' = "loop"
    /\ st_in' = in
    /\ st_left' = b
    /\ UNCHANGED <<st_z, st_out>>

StreamBlock ==
    /\ st_pc = "loop"
    /\ st_left >= 16
    /\ st_out' = Append(st_out, BlockFor(st_in, st_z))
    /\ st_z' = Increment(st_z)
    /\ st_left' = st_left - 16
    /\ UNCHANGED <<st_pc, st_in>>

\* The rest, if there is one, is the head of one more block.
StreamRest ==
    /\ st_pc = "loop"
    /\ st_left < 16
    /\ st_out' = IF st_left = 0 THEN st_out
                 ELSE Append(st_out, [i \in 0 .. st_left - 1 |-> BlockFor(st_in, st_z)[i]])
    /\ st_left' = 0
    /\ st_pc' = "done"
    /\ UNCHANGED <<st_in, st_z>>

StreamReturn ==
    /\ st_pc = "done"
    /\ st_pc' = "idle"
    /\ st_out' = <<>>
    /\ st_in' = [k |-> <<>>, n |-> <<>>]
    /\ st_z' = Counter
    /\ UNCHANGED st_left

Salsa20Next ==
    \/ \E in \in StreamInputs, b \in StreamLengths : StreamStart(in, b)
    \/ StreamBlock \/ StreamRest \/ StreamReturn

Salsa20Spec == Salsa20Init /\ [][Salsa20Next]_salsa20Vars
-----------------------------------------------------------------------------
(* Salsa20 as its specification writes it: quarter rounds down the columns of a
   4 by 4 matrix, each from the diagonal, then along its rows. *)
Lines(x, At(_, _)) ==
    LET Line(j) == QuarterRound(x[At(j, 0)], x[At(j, 1)], x[At(j, 2)], x[At(j, 3)])
        q == <<Line(0), Line(1), Line(2), Line(3)>>
    IN  [i \in 0 .. 15 |-> LET at == CHOOSE p \in (0 .. 3) \X (0 .. 3) : At(p[1], p[2]) = i
                           IN  q[1 + at[1]][1 + at[2]]]

DoubleRound(x) ==
    Lines(Lines(x, LAMBDA j, m : 4 * ((j + m) % 4) + j),
          LAMBDA j, m : 4 * j + ((j + m) % 4))

Scrambled(x) ==
    LET after[i \in 0 .. 10] == IF i = 0 THEN x ELSE DoubleRound(after[i - 1])
    IN  after[10]

SpecBlock(in, index) ==
    LET z == Scrambled(Load([i \in 0 .. 3 |-> in.n[i]], in.k, sigma))
        key == [i \in 0 .. 7 |-> z[IF i < 4 THEN 5 * i ELSE i + 2]]
        input == [i \in 0 .. 3 |-> CASE i < 2 -> in.n[4 + i]
                                     [] i = 2 -> index % Word
                                     [] i = 3 -> index \div Word]
        x == Load(input, key, sigma)
        y == Scrambled(x)
    IN  [i \in 0 .. 15 |-> Plus(x[i], y[i])]

(* The block just written is the Salsa20 block of its own index, also where the
   counter carries from one byte, and from one word, into the next, and where the
   block is cut: no block of the key stream comes twice. *)
StreamIsXSalsa20 ==
    st_out # <<>> =>
        LET block == SpecBlock(st_in, Len(st_out) - 1)
            written == st_out[Len(st_out)]
        IN  \A j \in DOMAIN written : written[j] = block[j]
=============================================================================
