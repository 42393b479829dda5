------------------------------- MODULE ProgPow ------------------------------
(***************************************************************************)
(* The ProgPoW hash of one nonce, computed side by side by the host        *)
(* (libcrypto/progpow.cpp, which verifies what the devices find) and by    *)
(* the OpenCL and CUDA search kernels, which run the program getKern()     *)
(* generates for a period.  One step is one instruction of that program,   *)
(* on all lanes.                                                           *)
(*                                                                         *)
(* Words have W bits instead of 32; shift counts and moduli that follow    *)
(* from the width (16, 31, 17, 13, 5) are scaled with it, the multipliers  *)
(* are the code's modulo 2^W.  A word has two bytes.  The permutation      *)
(* keccakf800 is a parameter, as the contents of the DAG are.  The lanes   *)
(* of a hash run in lockstep, as they do within a wavefront or warp.       *)
(***************************************************************************)
EXTENDS Sequences, Words

CONSTANTS
    kRegs, kLanes, kDag_loads, kDag_count, kCache_count, kMath_count,
    CacheWords,      \* kCache_bytes / sizeof(uint32_t)
    DagElements,     \* items of kLanes * kDag_loads words in the DAG
    GroupSize,       \* threads that fill the cache of a work group
    DagWord(_),      \* the words of the DAG
    keccakf800(_),   \* on functions 0..24 -> Word
    Headers, Periods, Starts, Gids  \* inputs of the search

VARIABLE pow

Lane == 0..(kLanes - 1)
Reg == 0..(kRegs - 1)
Device == {"cl", "cuda"}

-----------------------------------------------------------------------------
(* KISS99: the state after a call, and the number the call returns.        *)
kiss99(s) ==
    LET sh(n) == (n * W) \div 32
        j1 == xor(s.jsr, shl(s.jsr, sh(17)))
        j2 == xor(j1, shr(j1, sh(13)))
    IN  [z |-> u32(36969 * (s.z % 2 ^ Half) + shr(s.z, Half)),
         w |-> u32(18000 * (s.w % 2 ^ Half) + shr(s.w, Half)),
         jcong |-> u32(mul(69069, s.jcong) + 1234567),
         jsr |-> xor(j2, shl(j2, sh(5)))]

number(s) == u32(xor(u32(shl(s.z, Half) + s.w), s.jcong) + s.jsr)

-----------------------------------------------------------------------------
(* mix_rng_state: the generator of a period and the order in which it      *)
(* hands out destination and source registers.                             *)

swapped(f, i, j) == [f EXCEPT ![i] = f[j], ![j] = f[i]]

shuffled(s, i) ==
    LET a == kiss99(s.rng) b == kiss99(a)
    IN  [s EXCEPT !.rng = b, !.dst_seq = swapped(@, i - 1, number(a) % i),
                  !.src_seq = swapped(@, i - 1, number(b) % i)]

mix_rng_state(seed) ==
    LET z == fnv1a(kFNV_OFFSET_BASIS, u32(seed)) w == fnv1a(z, shr(seed, W))
        jsr == fnv1a(w, u32(seed)) jcong == fnv1a(jsr, shr(seed, W))
        from[i \in 1..kRegs] ==
          IF i = kRegs
          THEN [rng |-> [z |-> z, w |-> w, jsr |-> jsr, jcong |-> jcong], dst |-> 0, src |-> 0,
                dst_seq |-> [r \in Reg |-> r], src_seq |-> [r \in Reg |-> r]]
          ELSE shuffled(from[i + 1], i + 1)
    IN  from[1]

next_dst(s) == s.dst_seq[s.dst % kRegs]

next_src(s) == s.src_seq[s.src % kRegs]

sources(rnd) ==
    LET n == rnd % (kRegs * (kRegs - 1)) src1 == n % kRegs src2 == n \div kRegs
    IN  <<src1, IF src2 >= src1 THEN src2 + 1 ELSE src2>>

-----------------------------------------------------------------------------
(* Instruction n of a loop.  The first ones alternate cache loads and math *)
(* until each kind is used up, the last kDag_loads merge the DAG item.     *)

Less(a, b) == IF a < b THEN a ELSE b
Pairs == 2 * Less(kCache_count, kMath_count)
Instructions == kCache_count + kMath_count + kDag_loads

kind(n) ==
    CASE n > kCache_count + kMath_count -> "dag"
      [] n <= Pairs -> IF n % 2 = 1 THEN "cache" ELSE "math"
      [] OTHER -> IF kCache_count > kMath_count THEN "cache" ELSE "math"

word(n) == n - kCache_count - kMath_count - 1

(* getKern(): the line the generator emits from state s, with the state    *)
(* after it.                                                               *)
emitCache(s) ==
    LET a == kiss99(s.rng)
    IN  [line |-> [op |-> "cache", src |-> next_src(s), dst |-> next_dst(s), sel |-> number(a)],
         s |-> [s EXCEPT !.rng = a, !.dst = @ + 1, !.src = @ + 1]]

emitMath(s) ==
    LET a == kiss99(s.rng) b == kiss99(a) c == kiss99(b)
    IN  [line |-> [op |-> "math", src |-> sources(number(a)), dst |-> next_dst(s),
                   sel1 |-> number(b), sel |-> number(c)],
         s |-> [s EXCEPT !.rng = c, !.dst = @ + 1]]

emitDag(s, i) ==
    LET a == kiss99(s.rng)
    IN  [line |-> [op |-> "dag", src |-> i, dst |-> IF i = 0 THEN 0 ELSE next_dst(s), sel |-> number(a)],
         s |-> [s EXCEPT !.rng = a, !.dst = IF i = 0 THEN @ ELSE @ + 1]]

getKern(prog_seed) ==
    LET emit(s, n) == CASE kind(n) = "cache" -> emitCache(s)
                        [] kind(n) = "math" -> emitMath(s)
                        [] kind(n) = "dag" -> emitDag(s, word(n))
        upTo[n \in 0..Instructions] ==
          IF n = 0 THEN [code |-> <<>>, s |-> mix_rng_state(prog_seed)]
          ELSE LET g == upTo[n - 1] e == emit(g.s, n)
               IN  [code |-> Append(g.code, e.line), s |-> e.s]
    IN  upTo[Instructions].code

(* The macros of the generated source: rotate() of OpenCL, the shifts of   *)
(* CUDA, which give 0 for a count of the whole word.                       *)
ROTL32(by, x, n) ==
    CASE by = "host" -> rotl32(x, n)
      [] by = "cl" -> rotl32(x, n)
      [] by = "cuda" -> shl(x, n % W) + shr(x, W - (n % W))

ROTR32(by, x, n) ==
    CASE by = "host" -> rotr32(x, n)
      [] by = "cl" -> rotl32(x, W - n)
      [] by = "cuda" -> shr(x, n % W) + shl(x, W - (n % W))

(* random_merge() and the line random_merge_src() writes for a device.     *)
random_merge(by, a, b, sel) ==
    LET x == (shr(sel, Half) % (W - 1)) + 1
    IN  CASE sel % 4 = 0 -> u32(mul(a, 33) + b)
          [] sel % 4 = 1 -> mul(xor(a, b), 33)
          [] sel % 4 = 2 -> xor(ROTL32(by, a, x), b)
          [] sel % 4 = 3 -> xor(ROTR32(by, a, x), b)

(* random_math() and the line random_math_src() writes for a device, which *)
(* reduces the count of a rotation itself.                                 *)
random_math(by, a, b, sel) ==
    LET count == IF by = "host" THEN b ELSE b % W
    IN  CASE sel % 11 = 0 -> u32(a + b)
          [] sel % 11 = 1 -> mul(a, b)
          [] sel % 11 = 2 -> mul_hi32(a, b)
          [] sel % 11 = 3 -> IF a < b THEN a ELSE b
          [] sel % 11 = 4 -> ROTL32(by, a, count)
          [] sel % 11 = 5 -> ROTR32(by, a, count)
          [] sel % 11 = 6 -> both(a, b)
          [] sel % 11 = 7 -> a + b - both(a, b)
          [] sel % 11 = 8 -> xor(a, b)
          [] sel % 11 = 9 -> clz32(a) + clz32(b)
          [] sel % 11 = 10 -> popcnt32(a) + popcnt32(b)

-----------------------------------------------------------------------------
(* round() of the host.  It draws from its own copy of the generator while *)
(* it mixes, and looks the item up before.                                 *)

lookup(mix, r) ==
    LET item == mix[r % kLanes][0] % DagElements
    IN  [i \in 0..(kLanes * kDag_loads - 1) |-> DagWord(item * kLanes * kDag_loads + i)]

hostCache(h) ==
    LET src == next_src(h.s) dst == next_dst(h.s) a == kiss99(h.s.rng)
    IN  [h EXCEPT !.mix = [l \in Lane |->
                             [@[l] EXCEPT ![dst] =
                                random_merge("host", @, DagWord(h.mix[l][src] % CacheWords), number(a))]],
                  !.s = [@ EXCEPT !.rng = a, !.src = @ + 1, !.dst = @ + 1]]

hostMath(h) ==
    LET a == kiss99(h.s.rng) b == kiss99(a) c == kiss99(b)
        src == sources(number(a)) dst == next_dst(h.s)
        data(l) == random_math("host", h.mix[l][src[1]], h.mix[l][src[2]], number(b))
    IN  [h EXCEPT !.mix = [l \in Lane |->
                             [@[l] EXCEPT ![dst] = random_merge("host", @, data(l), number(c))]],
                  !.s = [@ EXCEPT !.rng = c, !.dst = @ + 1]]

hostDag(h, r, i) ==
    LET dst == IF i = 0 THEN 0 ELSE next_dst(h.s) a == kiss99(h.s.rng)
        offset(l) == (xor(l, r) % kLanes) * kDag_loads
    IN  [h EXCEPT !.mix = [l \in Lane |->
                             [@[l] EXCEPT ![dst] = random_merge("host", @, h.item[offset(l) + i], number(a))]],
                  !.s = [@ EXCEPT !.rng = a, !.dst = IF i = 0 THEN @ ELSE @ + 1]]

round(h, r, n) ==
    CASE kind(n) = "cache" -> hostCache(h)
      [] kind(n) = "math" -> hostMath(h)
      [] kind(n) = "dag" -> hostDag(h, r, word(n))

(* hash_seed(), init_mix(), the reductions of hash_mix() and hash_final(). *)
pad == u32(32897)  \* the low bits of 0x80008081

absorb(first, second, one, last) ==
    keccakf800([i \in 0..24 |->
        CASE i < 8 -> first[i]
          [] i >= 8 /\ i < 8 + Cardinality(DOMAIN second) -> second[i - 8]
          [] i = one -> 1
          [] i = last -> pad
          [] OTHER -> 0])

words8(state) == [i \in 0..7 |-> state[i]]

hash_seed(header_hash, nonce) ==
    words8(absorb(header_hash, [i \in 0..1 |-> IF i = 0 THEN u32(nonce) ELSE shr(nonce, W)], 10, 18))

filled(rng) ==
    LET after[n \in 0..kRegs] == IF n = 0 THEN rng ELSE kiss99(after[n - 1])
    IN  [r \in Reg |-> number(after[r + 1])]

init_mix(seed) ==
    LET z == fnv1a(kFNV_OFFSET_BASIS, seed[0]) w == fnv1a(z, seed[1])
    IN  [l \in Lane |-> filled([z |-> z, w |-> w, jsr |-> fnv1a(w, l), jcong |-> fnv1a(fnv1a(w, l), l)])]

(* fnv1a over f[first], f[first + step], ... below n.                      *)
fold(f, first, step, n) ==
    LET to[i \in first..(n + step)] ==
          IF i = first THEN kFNV_OFFSET_BASIS
          ELSE IF (i - first) % step = 0 THEN fnv1a(to[i - step], f[i - step]) ELSE to[i - 1]
    IN  to[first + step * ((n - first + step - 1) \div step)]

lane_hash(mix) == [l \in Lane |-> fold(mix[l], 0, 1, kRegs)]

mix_hash(mix) == [i \in 0..7 |-> fold(lane_hash(mix), i, 8, kLanes)]

hash_final(input_hash, mix) == words8(absorb(input_hash, mix, 17, 24))

-----------------------------------------------------------------------------
(* The search kernels.                                                     *)

(* fill_mix(): fnv1a updates fnv_hash in place.                            *)
fill_mix(seed, lane_id) ==
    LET h1 == fnv1a(kFNV_OFFSET_BASIS, seed[0]) h2 == fnv1a(h1, seed[1])
        h3 == fnv1a(h2, lane_id) h4 == fnv1a(h3, lane_id)
    IN  filled([z |-> h1, w |-> h2, jsr |-> h3, jcong |-> h4])

(* The threads of a group fill the cache with strides of a whole group.    *)
cacheBlocks(lid) ==
    {w \in 0..(CacheWords - 1) :
        w >= lid * kDag_loads /\ (w - lid * kDag_loads) % (GroupSize * kDag_loads) = 0}

c_dag ==
    [w \in 0..(CacheWords - 1) |->
        IF \E lid \in 0..(GroupSize - 1) : w - (w % kDag_loads) \in cacheBlocks(lid)
        THEN DagWord((w \div kDag_loads) * kDag_loads + (w % kDag_loads)) ELSE 0]

(* The global load at the head of progPowLoop: the lane loop % kLanes      *)
(* says which item, the lane itself which part of it.                      *)
data_dag(mix, loop) ==
    [l \in Lane |->
        LET offset == (mix[loop % kLanes][0] % DagElements) * kLanes + (xor(l, loop) % kLanes)
        IN  [i \in 0..(kDag_loads - 1) |-> DagWord(offset * kDag_loads + i)]]

(* A generated line, executed by every lane.                               *)
progPowLoop(by, d, line) ==
    LET data(l) ==
          CASE line.op = "cache" -> c_dag[d.mix[l][line.src] % CacheWords]
            [] line.op = "math" ->
                 random_math(by, d.mix[l][line.src[1]], d.mix[l][line.src[2]], line.sel1)
            [] line.op = "dag" -> d.data[l][line.src]
    IN  [d EXCEPT !.mix = [l \in Lane |->
            [@[l] EXCEPT ![line.dst] = random_merge(by, @, data(l), line.sel)]]]

(* The digest of a hash: OpenCL runs over the lanes, CUDA over groups of   *)
(* eight of them.                                                          *)
digest(by, mix) ==
    LET of[i \in 0..kLanes] ==
          IF i = 0 THEN [j \in 0..7 |-> kFNV_OFFSET_BASIS]
          ELSE [of[i - 1] EXCEPT ![(i - 1) % 8] = fnv1a(@, lane_hash(mix)[i - 1])]
    IN  IF by = "cl" THEN of[kLanes] ELSE mix_hash(mix)

byte(x, i) == shr(x, i * Half) % 2 ^ Half

(* The first two words, with the first byte as the most significant.       *)
result(state) ==
    LET b == 2 ^ Half
    IN  ((byte(state[0], 0) * b + byte(state[0], 1)) * b + byte(state[1], 0)) * b + byte(state[1], 1)

found(by, res, target) == IF by = "cl" THEN res <= target ELSE res < target

-----------------------------------------------------------------------------
(* The search of one nonce: `at' is the next instruction of the loop.      *)

Input == [header : Headers, period : Periods, start : Starts, gid : Gids]

PowInit == pow \in {[phase |-> "launch", in |-> i] : i \in Input}

nonceOf(i) == (i.start + i.gid) % 2 ^ (2 * W)

(* The program is compiled, the seed hashed and every lane filled.         *)
launch ==
    /\ pow.phase = "launch"
    /\ LET seed == hash_seed(pow.in.header, nonceOf(pow.in))
           filledMix == [l \in Lane |-> fill_mix(seed, l)]
       IN  pow' = [phase |-> "load", in |-> pow.in, loop |-> 0, at |-> 1, seed |-> seed,
                   code |-> getKern(pow.in.period),
                   host |-> [mix |-> init_mix(seed), s |-> mix_rng_state(pow.in.period), item |-> <<>>],
                   dev |-> [by \in Device |-> [mix |-> filledMix, data |-> <<>>]]]

(* round() takes its generator by value: every round starts the program    *)
(* anew.                                                                   *)
generatorKept(h, period) == h.s

generator(h, period) == mix_rng_state(period)

load ==
    /\ pow.phase = "load"
    /\ pow' = [pow EXCEPT !.phase = "mix", !.at = 1,
                          !.host = [@ EXCEPT !.item = lookup(pow.host.mix, pow.loop),
                                             !.s = generator(pow.host, pow.in.period)],
                          !.dev = [by \in Device |-> [@[by] EXCEPT !.data = data_dag(pow.dev[by].mix, pow.loop)]]]

mixStep ==
    /\ pow.phase = "mix" /\ pow.at <= Instructions
    /\ pow' = [pow EXCEPT !.at = @ + 1,
                          !.host = round(@, pow.loop, pow.at),
                          !.dev = [by \in Device |-> progPowLoop(by, @[by], pow.code[pow.at])]]

nextLoop ==
    /\ pow.phase = "mix" /\ pow.at > Instructions
    /\ pow' = [pow EXCEPT !.loop = @ + 1,
                          !.phase = IF pow.loop + 1 < kDag_count THEN "load" ELSE "reduce"]

reduce ==
    /\ pow.phase = "reduce"
    /\ LET hash == [by \in Device |-> digest(by, pow.dev[by].mix)]
           mixHash == mix_hash(pow.host.mix)
       IN  pow' = [phase |-> "judge", in |-> pow.in,
                   mix |-> mixHash, final |-> hash_final(pow.seed, mixHash),
                   digest |-> hash, state |-> [by \in Device |-> hash_final(pow.seed, hash[by])]]

(* The boundary of the job, as four 64-bit numbers: near the hash, for     *)
(* only there the comparisons can differ.                                  *)
word64(h, k) == result([i \in 0..1 |-> h[2 * k + i]])

Near(h) ==
    LET v == [k \in 0..3 |-> word64(h, k)]
        moved == {[v EXCEPT ![k] = @ + d] : k \in 0..3, d \in {-1, 0, 1}}
    IN  {b \in moved : \A k \in 0..3 : b[k] \in 0..(2 ^ (2 * W) - 1)}

is_less_or_equal(h, b) ==
    \/ \A k \in 0..3 : word64(h, k) = b[k]
    \/ \E k \in 0..3 : word64(h, k) < b[k] /\ \A j \in 0..(k - 1) : word64(h, j) = b[j]

(* The kernels get the upper 64 bits of the boundary; what they report is  *)
(* verified by verify_full().                                              *)
judge ==
    /\ pow.phase = "judge"
    /\ \E boundary \in Near(pow.final) :
          pow' = [phase |-> "done", in |-> pow.in,
                  found |-> [by \in Device |-> found(by, result(pow.state[by]), boundary[0])],
                  valid |-> is_less_or_equal(pow.final, boundary),
                  edge |-> word64(pow.final, 0) = boundary[0],
                  mixOk |-> [by \in Device |-> pow.digest[by] = pow.mix]]

PowNext == launch \/ load \/ mixStep \/ nextLoop \/ reduce \/ judge

-----------------------------------------------------------------------------
(* The generated program leaves the mix of every lane, after every         *)
(* instruction, as round() of the host leaves it; otherwise every share a  *)
(* device finds is refused (progpow.cpp: getKern against round).           *)
SameMix ==
    pow.phase \in {"load", "mix", "reduce"} =>
        \A by \in Device : pow.dev[by].mix = pow.host.mix

(* A nonce that verify_full() accepts is reported by the OpenCL kernel;    *)
(* the CUDA kernel, which compares with < where the host has <=, loses     *)
(* only hashes whose upper 64 bits equal the target.  A nonce that the     *)
(* CUDA kernel reports is accepted, and an OpenCL report can be refused    *)
(* only on that edge.  Either way the mix hash in the report is the one    *)
(* verify_full() computes.                                                 *)
ReportsVerify ==
    pow.phase = "done" =>
        /\ pow.valid => pow.found["cl"]
        /\ pow.valid /\ ~pow.edge => pow.found["cuda"]
        /\ pow.found["cuda"] => pow.valid
        /\ pow.found["cl"] /\ ~pow.edge => pow.valid
        /\ \A by \in Device : pow.mixOk[by]

=============================================================================
