---------------------------- MODULE Salsa20Lanes ----------------------------
(***************************************************************************)
(* The vector implementations that dispatch.c chooses from: salsa20_sse2.c *)
(* and salsa20_avx2.c (src/src/arch/x86_64/lib) and salsa20_neon.c         *)
(* (src/src/arch/arm64/lib). The sixteen words lie in four registers of    *)
(* lanes; the rounds work on whole registers, and between two rounds the   *)
(* registers go through an array of sixteen words.                         *)
(***************************************************************************)
EXTENDS Salsa20

VARIABLES
    lane_impl, \* the implementation running
    lane_fn,   \* which of its two functions
    lane_in,   \* key and input
    lane_x,    \* the registers, x0 to x3
    lane_y,    \* their first values, y0 to y3
    lane_i,    \* rounds done
    lane_out   \* words stored to out at the end

laneVars == <<lane_impl, lane_fn, lane_in, lane_x, lane_y, lane_i, lane_out>>

Implementations == {"sse2", "avx2", "neon"}
Lanes(impl) == 0 .. (IF impl = "avx2" THEN 7 ELSE 3)

\* The order of the words is not that of crypto_core_salsa20, and k[16..19] is
\* there twice, k[24..27] not at all.
LoadLanes(in, k, c) ==
    LET x == <<c[0],  k[0],  in[0], k[4],
               k[4],  c[1],  k[1],  in[1],
               in[2], k[5],  c[2],  k[2],
               k[3],  in[3], k[7],  c[3]>>
    IN  [i \in 0 .. 15 |-> x[i + 1]]

\* Registers from the array: columns of it on x86, rows on ARM. The upper four
\* lanes of AVX2 repeat the lower ones at the start, and are 0 after a round.
Registers(impl, x, first) ==
    [r \in 0 .. 3 |-> [l \in Lanes(impl) |->
        CASE impl = "neon"         -> x[4 * r + l]
          [] impl = "avx2" /\ l > 3 -> IF first THEN x[4 * (l - 4) + r] ELSE 0
          [] OTHER                 -> x[4 * l + r]]]

\* The array from the registers. The eight lanes of x0 and of x1 fill it on AVX2.
Stored(impl, reg) ==
    LET n == IF impl = "avx2" THEN 8 ELSE 4
    IN  [i \in 0 .. 15 |-> reg[i \div n][i % n]]

LaneRound(impl, reg) ==
    [r \in 0 .. 3 |-> [l \in Lanes(impl) |->
        QuarterRound(reg[0][l], reg[1][l], reg[2][l], reg[3][l])[r + 1]]]

\* SSE2 transposes the array. The others mean to swap three pairs: two swaps put
\* back what they took, and the third copies one way only.
Shuffled(impl, x) ==
    IF impl = "sse2" THEN [i \in 0 .. 15 |-> x[4 * (i % 4) + (i \div 4)]]
    ELSE [x EXCEPT ![11] = x[14]]

-----------------------------------------------------------------------------
Salsa20LanesInit ==
    /\ lane_impl \in Implementations
    /\ lane_fn \in {"salsa20", "hsalsa20"}
    /\ lane_in \in StreamInputs
    /\ lane_x = Registers(lane_impl, LoadLanes(lane_in.n, lane_in.k, sigma), TRUE)
    /\ lane_y = lane_x
    /\ lane_i = 0
    /\ lane_out = <<>>

\* Half of a turn of the loop, which does the same twice.
LaneStep ==
    /\ lane_i < 20
    /\ lane_x' = Registers(lane_impl,
                           Shuffled(lane_impl, Stored(lane_impl, LaneRound(lane_impl, lane_x))),
                           FALSE)
    /\ lane_i' = lane_i + 1
    /\ UNCHANGED <<lane_impl, lane_fn, lane_in, lane_y, lane_out>>

\* hsalsa20_sse2 and its like return the whole of salsa20_sse2.
LaneFinish ==
    /\ lane_i = 20 /\ lane_out = <<>>
    /\ LET sum == [r \in 0 .. 3 |-> [l \in Lanes(lane_impl) |->
                      Plus(lane_x[r][l], lane_y[r][l])]]
       IN  lane_out' = Stored(lane_impl, sum)
    /\ UNCHANGED <<lane_impl, lane_fn, lane_in, lane_x, lane_y, lane_i>>

Salsa20LanesNext == (LaneStep \/ LaneFinish) /\ UNCHANGED salsa20Vars

Salsa20LanesSpec ==
    Salsa20Init /\ Salsa20LanesInit /\ [][Salsa20LanesNext]_<<laneVars, salsa20Vars>>
-----------------------------------------------------------------------------
(* "Salsa20 SSE2 Implementation" (salsa20_sse2.c:2), and so on for AVX2 and NEON:
   whichever implementation dispatch picks, the two core functions return what
   the portable ones do. HSalsa20 is "same as salsa20 but output different state
   words" (salsa20_sse2.c:182). *)
LanesComputeSalsa20 ==
    lane_out # <<>> =>
        lane_out = IF lane_fn = "salsa20"
                   THEN crypto_core_salsa20(lane_in.n, lane_in.k, sigma)
                   ELSE crypto_core_hsalsa20(lane_in.n, lane_in.k, sigma)
=============================================================================
