---------------------------- MODULE EpochNumbers ----------------------------
(***************************************************************************)
(* Numbers of an epoch (libcrypto/ethash.cpp): the sizes of its caches,    *)
(* which are primes, found by trial division, and the epoch a seed hash    *)
(* belongs to, found with a cache per thread.                              *)
(*                                                                         *)
(* The seeds of the epochs are a chain of hashes from 0: seed number n is  *)
(* written n, its hash n + 1, and Other is a seed outside the chain.       *)
(***************************************************************************)
EXTENDS Naturals

CONSTANTS
    Bounds,     \* arguments of find_largest_unsigned_prime
    NumTries,   \* epochs the linear search looks at
    MaxEpoch,   \* seeds of the epochs 0..MaxEpoch are asked for
    Other, Nothing

ASSUME SearchAssumption ==
    NumTries \in Nat /\ MaxEpoch \in Nat /\ Other \notin Nat /\ Nothing \notin Nat

VARIABLES
    prime,      \* a call of find_largest_unsigned_prime
    seeds       \* the thread-local cache and the last answer

-----------------------------------------------------------------------------
(* Trial division by odd numbers whose square does not exceed the number.  *)

is_unsigned_odd_prime(number) ==
    number % 2 = 1 /\ \A d \in 3..number : d % 2 = 1 /\ d * d <= number => number % d # 0

PrimeInit ==
    prime \in {[bound |-> b, n |-> IF b < 2 THEN 0 ELSE IF b % 2 = 1 THEN b ELSE b - 1,
                done |-> b < 2] : b \in Bounds}

find_largest_unsigned_prime ==
    /\ ~prime.done
    /\ prime' = IF is_unsigned_odd_prime(prime.n) THEN [prime EXCEPT !.done = TRUE]
                ELSE [prime EXCEPT !.n = @ - 2]

-----------------------------------------------------------------------------
keccak256(seed) == IF seed = Other THEN Other ELSE seed + 1

SeedsInit == seeds = [number |-> Nothing, seed |-> 0, asked |-> 0, answer |-> 0]

hit(s, seed) == s.number # Nothing /\ seed = s.seed

next(s, seed) == s.number # Nothing /\ seed # s.seed /\ keccak256(s.seed) = seed

(* The linear search from epoch 0 leaves its last hash in the cache.       *)
searchForgets(seed) ==
    IF seed \in 0..(NumTries - 1)
    THEN [number |-> seed, seed |-> seed, asked |-> seed, answer |-> seed]
    ELSE [number |-> seeds.number, seed |-> NumTries, asked |-> seed, answer |-> Nothing]

search(seed) ==
    IF seed \in 0..(NumTries - 1)
    THEN [number |-> seed, seed |-> seed, asked |-> seed, answer |-> seed]
    ELSE [number |-> Nothing, seed |-> NumTries, asked |-> seed, answer |-> Nothing]

calculate_epoch_from_seed(seed) ==
    seeds' = CASE hit(seeds, seed) -> [seeds EXCEPT !.asked = seed, !.answer = seeds.number]
               [] next(seeds, seed) ->
                    [number |-> seeds.number + 1, seed |-> keccak256(seeds.seed), asked |-> seed,
                     answer |-> seeds.number + 1]
               [] ~hit(seeds, seed) /\ ~next(seeds, seed) -> search(seed)

SeedsNext == \E seed \in (0..MaxEpoch) \cup {Other} : calculate_epoch_from_seed(seed)

SeedsSpec == SeedsInit /\ [][SeedsNext]_seeds

-----------------------------------------------------------------------------
(* The number of cache items is the largest prime up to the bound, for     *)
(* every bound above 2 (ethash.hpp: "The largest prime number `p` such     *)
(* `p <= upper_bound`").                                                   *)
IsPrime(n) == n > 1 /\ \A d \in 2..(n - 1) : n % d # 0

LargestPrime ==
    prime.done /\ prime.bound > 2 =>
        /\ IsPrime(prime.n) /\ prime.n <= prime.bound
        /\ \A m \in (prime.n + 1)..prime.bound : ~IsPrime(m)

(* Whatever was asked before, the answer for a seed is its epoch; an       *)
(* epoch below the number of tries is always found and a seed outside the  *)
(* chain never (calculate_epoch_from_seed and its thread-local cache).     *)
EpochOfSeed ==
    /\ seeds.answer # Nothing => seeds.answer = seeds.asked
    /\ seeds.answer = Nothing => seeds.asked \notin 0..(NumTries - 1)

=============================================================================
