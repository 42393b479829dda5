------------------------------- MODULE Keccak -------------------------------
(***************************************************************************)
(* The Keccak permutations of the miner and the sponge around them.  The   *)
(* host (libcrypto/keccak.cpp) has both permutations unrolled over named   *)
(* lanes; the search kernels permute 32-bit lanes in place; the DAG        *)
(* kernels 64-bit lanes, the OpenCL one as pairs of words.  Every          *)
(* implementation has its own tables of sources, rotations and constants.  *)
(*                                                                         *)
(* A lane of w bits is the set of its bits that are 1, a state a function  *)
(* from 0..24 to lanes.  The permutations run at their real widths, one    *)
(* round a step, side by side with the definition of Keccak-f.             *)
(***************************************************************************)
EXTENDS Naturals, Sequences

CONSTANTS
    Lanes,   \* start states: the lane whose first and last bit are set
    Sizes    \* input sizes of the sponge, in bytes

VARIABLES
    perm,    \* a permutation in progress in every implementation
    sponge   \* a call of keccak() in progress

Index == 0..24

Xor(a, b) == (a \ b) \cup (b \ a)

rotl(w, a, n) == {(i + n) % w : i \in a}

-----------------------------------------------------------------------------
(* The definition: lane x + 5y, theta, rho, pi, chi, iota.                 *)

Parity(s, x) ==
    LET c == [y \in 0..4 |-> s[x + 5 * y]]
    IN  Xor(Xor(Xor(c[0], c[1]), Xor(c[2], c[3])), c[4])

Theta(w, s) ==
    [i \in Index |->
        Xor(s[i], Xor(Parity(s, (i + 4) % 5), rotl(w, Parity(s, (i + 1) % 5), 1)))]

(* The walk of rho: lane RhoWalk[t] is rotated by (t + 1)(t + 2) / 2.      *)
RhoWalk[t \in 0..23] ==
    IF t = 0 THEN <<1, 0>>
    ELSE LET p == RhoWalk[t - 1] IN <<p[2], (2 * p[1] + 3 * p[2]) % 5>>

Offset ==
    [i \in Index |->
        IF i = 0 THEN 0
        ELSE LET t == CHOOSE t \in 0..23 : RhoWalk[t] = <<i % 5, i \div 5>>
             IN  ((t + 1) * (t + 2)) \div 2]

(* The lane that pi moves to lane i.                                       *)
PiSource == [i \in Index |-> LET x == i % 5 y == i \div 5 IN ((x + 3 * y) % 5) + 5 * x]

Chi(w, b) ==
    [i \in Index |->
        LET row == 5 * (i \div 5)
        IN  Xor(b[i], ((0..(w - 1)) \ b[row + ((i + 1) % 5)]) \cap b[row + ((i + 2) % 5)])]

(* The round constants as bits: bit 2^j - 1 of a round is set if the shift  *)
(* register of Keccak, which a round finds at lfsr, gives 1 after j steps. *)
Shift(a) ==
    LET up == {i + 1 : i \in a}
    IN  IF 8 \in up THEN Xor(up \ {8}, {0, 4, 5, 6}) ELSE up

Register(lfsr) ==
    LET at[j \in 0..7] == IF j = 0 THEN lfsr ELSE Shift(at[j - 1]) IN at

RoundConstant(w, lfsr) == {b \in {0, 1, 3, 7, 15, 31, 63} :
    /\ b < w
    /\ \E j \in 0..6 : b = 2 ^ j - 1 /\ 0 \in Register(lfsr)[j]}

KeccakRound(w, s, lfsr) ==
    LET t == Theta(w, s)
        c == Chi(w, [i \in Index |-> rotl(w, t[PiSource[i]], Offset[PiSource[i]])])
    IN  [c EXCEPT ![0] = Xor(@, RoundConstant(w, lfsr))]

-----------------------------------------------------------------------------
(* The host, libcrypto/keccak.cpp: Ba .. Bu of the five planes, each from   *)
(* a named lane and a rotation.                                             *)

planes == <<0, 6, 12, 18, 24,  3, 9, 10, 16, 22,  1, 7, 13, 19, 20,
            4, 5, 11, 17, 23,  2, 8, 14, 15, 21>>

rotations64 == <<0, 44, 43, 21, 14,  28, 20, 3, 45, 61,  1, 6, 25, 8, 18,
                 27, 36, 10, 15, 56,  62, 55, 39, 41, 2>>

rotations32 == <<0, 12, 11, 21, 14,  28, 20, 3, 13, 29,  1, 6, 25, 8, 18,
                 27, 4, 10, 15, 24,  30, 23, 7, 9, 2>>

(* round_constants_64 and the constants of the kernels, by their one bits.  *)
round_constants == <<
    {0}, {1, 7, 15}, {1, 3, 7, 15, 63}, {15, 31, 63}, {0, 1, 3, 7, 15}, {0, 31},
    {0, 7, 15, 31, 63}, {0, 3, 15, 63}, {1, 3, 7}, {3, 7}, {0, 3, 15, 31}, {1, 3, 31},
    {0, 1, 3, 7, 15, 31}, {0, 1, 3, 7, 63}, {0, 3, 7, 15, 63}, {0, 1, 15, 63},
    {1, 15, 63}, {7, 63}, {1, 3, 15}, {1, 3, 31, 63}, {0, 7, 15, 31, 63},
    {7, 15, 63}, {0, 31}, {3, 15, 31, 63}>>

constant(w, r) == round_constants[r + 1] \cap 0..(w - 1)

(* Da .. Du.                                                                *)
column(s, x) == Xor(s[x], Xor(s[x + 5], Xor(s[x + 10], Xor(s[x + 15], s[x + 20]))))

D(w, s) == [x \in 0..4 |-> Xor(column(s, (x + 4) % 5), rotl(w, column(s, (x + 1) % 5), 1))]

hostRound(w, s, r) ==
    LET d == D(w, s)
        rot == IF w = 64 THEN rotations64 ELSE rotations32
        B == [i \in Index |-> rotl(w, Xor(s[planes[i + 1]], d[planes[i + 1] % 5]), rot[i + 1])]
        E == [i \in Index |->
                LET p == i - (i % 5)
                IN  Xor(B[i], B[p + ((i + 2) % 5)] \ B[p + ((i + 1) % 5)])]
    IN  [E EXCEPT ![0] = Xor(@, constant(w, r))]

-----------------------------------------------------------------------------
(* The in-place round of the search kernels and of the CUDA DAG kernel.     *)

keccakf_rotc == <<1, 3, 6, 10, 15, 21, 28, 36, 45, 55, 2, 14,
                  27, 41, 56, 8, 25, 43, 62, 18, 39, 61, 20, 44>>

keccakf_piln == <<10, 7, 11, 17, 18, 3, 5, 16, 8, 21, 24, 4,
                  15, 23, 19, 13, 12, 2, 20, 14, 22, 9, 6, 1>>

(* t travels along the cycle of pi: lane piln[i] gets what was in lane      *)
(* piln[i - 1], lane piln[0] what was in lane 1.                            *)
rhoPiOneShort(w, s) ==
    [j \in Index |->
        IF j \in {0, 1} THEN s[j]
        ELSE LET i == CHOOSE i \in 1..24 : keccakf_piln[i] = j
             IN  rotl(w, s[IF i = 1 THEN 1 ELSE keccakf_piln[i - 1]], keccakf_rotc[i])]

rhoPi(w, s) ==
    [j \in Index |->
        IF j = 0 THEN s[0]
        ELSE LET i == CHOOSE i \in 1..24 : keccakf_piln[i] = j
             IN  rotl(w, s[IF i = 1 THEN 1 ELSE keccakf_piln[i - 1]], keccakf_rotc[i])]

kernelRound(w, s, r) ==
    LET t == [i \in Index |-> Xor(s[i], D(w, s)[i % 5])]
        b == rhoPi(w, t)
    IN  [j \in Index |->
            LET row == j - (j % 5)
                c == Xor(b[j], b[row + ((j + 2) % 5)] \ b[row + ((j + 1) % 5)])
            IN  IF j = 0 THEN Xor(c, constant(w, r)) ELSE c]

-----------------------------------------------------------------------------
(* The OpenCL DAG kernel: a 64-bit lane is a pair of words, x the low one.  *)

uint2(a) == [x |-> a \cap 0..31, y |-> {i - 32 : i \in a \ 0..31}]

lane64(v) == v.x \cup {i + 32 : i \in v.y}

shl(a, n) == {i + n : i \in a} \cap 0..31

shr(a, n) == {i - n : i \in {j \in a : j >= n}}

(* ROL2 for n <= 32 and for n > 32.  A shift by 32 does not occur: no       *)
(* rotation is 32.                                                          *)
ROL2(v, n) ==
    IF n <= 32
    THEN [x |-> shl(v.x, n) \cup shr(v.y, 32 - n), y |-> shl(v.y, n) \cup shr(v.x, 32 - n)]
    ELSE [x |-> shl(v.y, n - 32) \cup shr(v.x, 64 - n), y |-> shl(v.x, n - 32) \cup shr(v.y, 64 - n)]

rol2(a, n) == lane64(ROL2(uint2(a), n))

(* t[piTo[i]] = ROL2(a[i], piRot[i]).                                       *)
piTo == <<0, 10, 20, 5, 15,  16, 1, 11, 21, 6,  7, 17, 2, 12, 22,
          23, 8, 18, 3, 13,  14, 24, 9, 19, 4>>

piRot == <<0, 1, 62, 28, 27,  36, 44, 6, 55, 20,  3, 10, 43, 25, 39,
           41, 45, 15, 21, 8,  18, 2, 61, 56, 14>>

bitselect(a, b, c) == (a \ c) \cup (b \cap c)

dagRound(s, r) ==
    LET u == [x \in 0..4 |-> Xor(column(s, (x + 4) % 5), rol2(column(s, (x + 1) % 5), 1))]
        t == [j \in Index |->
                LET i == CHOOSE i \in Index : piTo[i + 1] = j
                IN  rol2(Xor(s[i], u[i % 5]), piRot[i + 1])]
        chi == [j \in Index |->
                LET n == j - (j % 5)
                    t2 == t[n + ((j + 2) % 5)]
                IN  bitselect(Xor(t[j], t2), t[j], t[n + ((j + 1) % 5)])]
    IN  [chi EXCEPT ![0] = Xor(@, constant(64, r))]

-----------------------------------------------------------------------------
(* The permutations side by side.                                          *)

OneLane(w, j) == [i \in Index |-> IF i = j THEN {0, w - 1} ELSE {}]

PermInit(w, j) ==
    perm = [w |-> w, r |-> 0, lfsr |-> {0}, def |-> OneLane(w, j), host |-> OneLane(w, j),
            kernel |-> OneLane(w, j), dag |-> OneLane(w, j)]

rounds(w) == IF w = 64 THEN 24 ELSE 22

nextRound ==
    /\ perm.r < rounds(perm.w)
    /\ perm' = [perm EXCEPT
          !.r = @ + 1,
          !.lfsr = Register(@)[7],
          !.def = KeccakRound(perm.w, @, perm.lfsr),
          !.host = hostRound(perm.w, @, perm.r),
          !.kernel = kernelRound(perm.w, @, perm.r),
          !.dag = IF perm.w = 64 THEN dagRound(@, perm.r) ELSE @]
    /\ UNCHANGED sponge

-----------------------------------------------------------------------------
(* keccak(): how the input and the padding get into the state.  "placed"   *)
(* says which byte is xored into which byte of the state before which      *)
(* permutation; inputs are bytes 0 .. size - 1, the padding is "01", "80". *)

SpongeInit(bits, size) ==
    sponge = [bits |-> bits, size |-> size, left |-> size, iterator |-> 0,
              perms |-> 0, placed |-> {}, done |-> FALSE]

block_size == (1600 - sponge.bits * 2) \div 8

consumed == sponge.size - sponge.left

absorbBlock ==
    /\ ~sponge.done /\ sponge.left >= block_size
    /\ sponge' = [sponge EXCEPT
          !.placed = @ \cup {<<sponge.perms, b, consumed + b>> : b \in 0..(block_size - 1)},
          !.left = @ - block_size,
          !.perms = @ + 1]
    /\ UNCHANGED perm

absorbWord ==
    /\ ~sponge.done /\ sponge.left < block_size /\ sponge.left >= 8
    /\ sponge' = [sponge EXCEPT
          !.placed = @ \cup {<<sponge.perms, 8 * sponge.iterator + b, consumed + b>> : b \in 0..7},
          !.left = @ - 8,
          !.iterator = @ + 1]
    /\ UNCHANGED perm

lastWord ==
    {<<sponge.perms, 8 * sponge.iterator + sponge.left, "01">>} \cup
    {<<sponge.perms, 8 * sponge.iterator + b, consumed + b>> : b \in 0..(sponge.left - 1)}

finish ==
    /\ ~sponge.done /\ sponge.left < 8
    /\ sponge' = [sponge EXCEPT
          !.placed = @ \cup lastWord \cup {<<sponge.perms, block_size - 1, "80">>},
          !.left = 0,
          !.perms = @ + 1,
          !.done = TRUE]
    /\ UNCHANGED perm

-----------------------------------------------------------------------------
(* The host's unrolled permutations are Keccak-f[800] and Keccak-f[1600]   *)
(* after every round: their lists of lanes, rotations and constants        *)
(* (keccak.cpp) agree with the definition.                                 *)
HostPermutes == perm.host = perm.def

(* The kernels permute like the host: a nonce or a DAG node computed on a   *)
(* device is the one the host computes.                                     *)
KernelsPermute ==
    /\ perm.kernel = perm.host
    /\ perm.w = 64 => perm.dag = perm.host

(* keccak() pads like Keccak whatever the length of the input, also when    *)
(* it ends one byte before, on, or after the end of a block or of a word:   *)
(* byte n goes to byte n % block of block n / block, and the padding starts *)
(* right after the input and ends its block.                                *)
SpongePads ==
    sponge.done =>
        LET last == sponge.size \div block_size
        IN  /\ sponge.perms = last + 1
            /\ sponge.placed =
                  {<<n \div block_size, n % block_size, n>> : n \in 0..(sponge.size - 1)}
                  \cup {<<last, sponge.size % block_size, "01">>, <<last, block_size - 1, "80">>}

=============================================================================
