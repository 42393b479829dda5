------------------------------ MODULE MCHashing -----------------------------
(***************************************************************************)
(* libcrypto and the kernels for TLC.  A behaviour is about one of the     *)
(* parts; the variables of the others stay off.                            *)
(***************************************************************************)
EXTENDS EpochContext, EpochNumbers, Integers, Sequences

CONSTANTS th1, th2, th3

VARIABLES family, perm, sponge, pow, dag

MCThreads == {th1, th2, th3}
MCFullThreads == {th1, th2}
MCEpochs == {1, 2}
MCItems == {0, 1}
MCL1Items == {0}
MCBounds == 0..120

PermWidths == {32, 64}
PermLanes == {0, 1, 7, 13, 24}
SpongeSizes == {0, 1, 7, 8, 9, 40, 64, 71, 72, 73, 135, 136, 137, 144, 200}

K == INSTANCE Keccak WITH Lanes <- PermLanes, Sizes <- SpongeSizes

W == 8

(* Stands for the words of a DAG.                                          *)
DagWord(i) == (i * 37 + (i \div 5) * 11 + 90) % 256

(* Stand for keccakf800 and keccak512: each word depends on several.       *)
keccakf800(s) ==
    [i \in 0..24 |-> (s[i] * 5 + s[(i + 7) % 25] * 3 + s[(i + 18) % 25] + s[(i + 13) % 25] * 7 + i) % 256]

keccak512(s) ==
    [i \in 0..15 |-> (s[i] * 5 + s[(i + 7) % 16] * 3 + s[(i + 11) % 16] + s[(i + 13) % 16] * 7 + i) % 256]

(* 2 + 3 + (4 - 1) destinations for 8 registers, as 11 + 18 + 3 for 32.    *)
P == INSTANCE ProgPow WITH
        kRegs <- 8, kLanes <- 16, kDag_loads <- 4, kDag_count <- 2, kCache_count <- 2, kMath_count <- 3,
        CacheWords <- 32, DagElements <- 6, GroupSize <- 4,
        Headers <- {[i \in 0..7 |-> (i * 29) % 256]}, Periods <- 1..24,
        Starts <- {254, 65535}, Gids <- {0, 1, 2}

DagConfigs == {
    [light |-> 7, items |-> 13, group |-> 4, chunk |-> 2, blocks |-> 2, threads |-> 4],
    [light |-> 5, items |-> 11, group |-> 8, chunk |-> 1, blocks |-> 3, threads |-> 8]}

D == INSTANCE Dag WITH
        Configs <- DagConfigs, Parents <- 20, LightRounds <- 3, NodeBytes <- 4, Unsigned <- 96,
        Seed <- [i \in 0..15 |-> i * 13]

-----------------------------------------------------------------------------
off == [off |-> TRUE]

HInit ==
    /\ family \in {"perm", "sponge", "pow", "dag", "prime", "seeds", "context"}
    /\ IF family = "perm" THEN \E w \in PermWidths, j \in PermLanes : K!PermInit(w, j) ELSE perm = off
    /\ IF family = "sponge" THEN \E b \in {256, 512}, n \in SpongeSizes : K!SpongeInit(b, n)
       ELSE sponge = off
    /\ IF family = "pow" THEN P!PowInit ELSE pow = off
    /\ IF family = "dag" THEN D!DagInit ELSE dag = off
    /\ IF family = "prime" THEN PrimeInit ELSE prime = off
    /\ SeedsInit
    /\ Init /\ asked = [t \in Threads |-> 1] /\ item = [t \in Threads |-> 0]

rest == <<perm, sponge, pow, dag, prime, seeds>>

HNext ==
    /\ UNCHANGED family
    /\ \/ /\ family = "perm" /\ K!nextRound
          /\ UNCHANGED <<pow, dag, prime, seeds, vars>>
       \/ /\ family = "sponge" /\ (K!absorbBlock \/ K!absorbWord \/ K!finish)
          /\ UNCHANGED <<pow, dag, prime, seeds, vars>>
       \/ /\ family = "pow" /\ P!PowNext
          /\ UNCHANGED <<perm, sponge, dag, prime, seeds, vars>>
       \/ /\ family = "dag" /\ D!DagNext
          /\ UNCHANGED <<perm, sponge, pow, prime, seeds, vars>>
       \/ /\ family = "prime" /\ find_largest_unsigned_prime
          /\ UNCHANGED <<perm, sponge, pow, dag, seeds, vars>>
       \/ /\ family = "seeds" /\ SeedsNext
          /\ UNCHANGED <<perm, sponge, pow, dag, prime, vars>>
       \/ /\ family = "context" /\ Next
          /\ UNCHANGED rest

HSpec == HInit /\ [][HNext]_<<family, rest, vars>>

-----------------------------------------------------------------------------
(* The tables and the order of the steps of the host's permutations and of *)
(* the kernels' give Keccak-f, and the host's sponge absorbs and pads the  *)
(* bytes of its input as Keccak does (keccak.cpp, the kernels).            *)
KeccakAsDefined ==
    /\ family = "perm" => K!HostPermutes /\ K!KernelsPermute
    /\ family = "sponge" => K!SpongePads

(* The devices mix as the host does, and so their reports are verified:    *)
(* the program getKern() generates against round() and verify_full().      *)
DevicesAgree == family = "pow" => P!SameMix /\ P!ReportsVerify

(* Both kernels generate the items of the host's dataset.                  *)
DagGenerated == family = "dag" => D!DagGenerated

(* Every item of the DAG is generated, however large it is.                *)
DagComplete == family = "dag" => D!DagComplete

(* The sizes of an epoch use the largest prime below their bound, and a    *)
(* seed hash is traced to its epoch whatever was asked before (ethash.cpp).*)
EpochNumbersRight ==
    /\ family = "prime" => LargestPrime
    /\ EpochOfSeed

=============================================================================
