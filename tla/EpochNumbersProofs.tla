------------------------- MODULE EpochNumbersProofs -------------------------
(***************************************************************************)
(* The epoch of a seed hash, for any number of tries and any sequence of   *)
(* questions.                                                              *)
(***************************************************************************)
EXTENDS EpochNumbers, TLAPS

(* The number in the thread-local cache is the epoch of the seed beside it, *)
(* unless it was taken back by a search that found nothing.                 *)
CacheFits ==
    /\ seeds \in [number : Nat \cup {Nothing}, seed : Nat,
                  asked : Nat \cup {Other}, answer : Nat \cup {Nothing}]
    /\ seeds.number # Nothing => seeds.number = seeds.seed

IInv == CacheFits /\ EpochOfSeed

(* A thread that has asked nothing satisfies the invariant.                 *)
LEMMA InitIInv == SeedsInit => IInv
BY SearchAssumption DEF SeedsInit, IInv, CacheFits, EpochOfSeed

(* Each of the three ways to answer keeps it: the cached epoch, the one     *)
(* after it, and the linear search.                                         *)
LEMMA IInvStep == IInv /\ [SeedsNext]_seeds => IInv'
<1> SUFFICES ASSUME IInv, [SeedsNext]_seeds PROVE IInv'
  OBVIOUS
<1> USE SearchAssumption DEF IInv, CacheFits, EpochOfSeed
<1>1. ASSUME NEW seed \in (0..MaxEpoch) \cup {Other}, calculate_epoch_from_seed(seed)
      PROVE  IInv'
  <2>1. CASE hit(seeds, seed)
    <3>1. seeds' = [seeds EXCEPT !.asked = seed, !.answer = seeds.number]
      BY <1>1, <2>1 DEF calculate_epoch_from_seed, hit, next
    <3> QED
      BY <2>1, <3>1 DEF hit
  <2>2. CASE next(seeds, seed)
    <3>1. seeds' = [number |-> seeds.number + 1, seed |-> keccak256(seeds.seed),
                    asked |-> seed, answer |-> seeds.number + 1]
      BY <1>1, <2>2 DEF calculate_epoch_from_seed, hit, next
    <3>2. keccak256(seeds.seed) = seeds.seed + 1
      BY DEF keccak256
    <3> QED
      BY <2>2, <3>1, <3>2 DEF next
  <2>3. CASE ~hit(seeds, seed) /\ ~next(seeds, seed)
    <3>1. seeds' = search(seed)
      BY <1>1, <2>3 DEF calculate_epoch_from_seed
    <3> QED
      BY <3>1 DEF search
  <2> QED
    BY <2>1, <2>2, <2>3
<1>2. CASE UNCHANGED seeds
  BY <1>2
<1> QED
  BY <1>1, <1>2 DEF SeedsNext

(* calculate_epoch_from_seed() returns the epoch of the seed or nothing,    *)
(* and nothing only beyond the number of tries, whatever was asked before.  *)
THEOREM EpochOfSeedHolds == SeedsSpec => []EpochOfSeed
<1>1. SeedsInit => IInv
  BY InitIInv
<1>2. IInv /\ [SeedsNext]_seeds => IInv'
  BY IInvStep
<1>3. IInv => EpochOfSeed
  BY DEF IInv
<1> QED
  BY <1>1, <1>2, <1>3, PTL DEF SeedsSpec

=============================================================================
