---------------------------- MODULE EpochContext ----------------------------
(***************************************************************************)
(* The epoch contexts of libcrypto/ethash.cpp: one context is shared by    *)
(* all threads under a mutex, every thread keeps a pointer of its own to   *)
(* the context it asked for last.  The io thread asks for light contexts   *)
(* (Farm::setWork, verify_full), the CPU miners for full ones, whose       *)
(* dataset they fill lazily, without a lock, while they search.            *)
(*                                                                         *)
(* A dataset item counts as computed when its first word is not zero.  A   *)
(* thread that copies it while another one is storing it gets some words   *)
(* of the item and some zeroes: the copy is torn.                          *)
(***************************************************************************)
EXTENDS Naturals, FiniteSets

CONSTANTS
    Threads,
    FullThreads,   \* the CPU miners: they ask for the full dataset
    Epochs,
    Items,         \* indices of hash2048 items
    L1Items,       \* those below l1_cache_num_items_2048
    MaxContexts,   \* bound: contexts built in a behaviour
    None

ASSUME ContextAssumption ==
    /\ FullThreads \subseteq Threads /\ L1Items \subseteq Items
    /\ MaxContexts \in Nat
    /\ None \notin Threads \cup [id : Nat, epoch : Epochs, full : BOOLEAN]

VARIABLES
    shared,      \* detail::shared_context
    mutex,       \* holder of shared_context_mutex
    local,       \* detail::thread_local_context of every thread
    asked,       \* the epoch of the last call of get_epoch_context
    pc,
    item,        \* the index a thread looks up
    got,         \* what its last lookup returned
    dataset,     \* for every context and item, the words that are stored
    built        \* contexts created so far

vars == <<shared, mutex, local, asked, pc, item, got, dataset, built>>

Contexts == [id : 1..MaxContexts, epoch : Epochs, full : BOOLEAN]

ItemWords == {"first", "others"}

InCall == {"lock", "create"}

Searching == {"have", "copy", "compute", "rest"}

full(t) == t \in FullThreads

Init ==
    /\ shared = None /\ mutex = None
    /\ local = [t \in Threads |-> None]
    /\ asked \in [Threads -> Epochs]
    /\ pc = [t \in Threads |-> "idle"]
    /\ item \in [Threads -> Items]
    /\ got = [t \in Threads |-> "nothing"]
    /\ dataset = [c \in 1..MaxContexts |-> [i \in Items |-> {}]]
    /\ built = 0

(* The condition under which get_epoch_context keeps the pointer it has.   *)
matchesEpochOnly(c, t, e) == c # None /\ c.epoch = e

matches(c, t, e) == c # None /\ c.epoch = e /\ c.full = full(t)

Alive == \A t \in Threads : pc[t] # "terminated"

get_epoch_context(t, e) ==
    /\ Alive /\ pc[t] \in {"idle", "have"}
    /\ asked' = [asked EXCEPT ![t] = e]
    /\ IF matches(local[t], t, e)
       THEN pc' = [pc EXCEPT ![t] = "have"] /\ UNCHANGED local
       ELSE pc' = [pc EXCEPT ![t] = "lock"] /\ local' = [local EXCEPT ![t] = None]
    /\ UNCHANGED <<shared, mutex, item, got, dataset, built>>

(* The shared context is the one asked for.                                *)
adopt(t) ==
    /\ Alive /\ pc[t] = "lock" /\ mutex = None /\ matches(shared, t, asked[t])
    /\ local' = [local EXCEPT ![t] = shared]
    /\ pc' = [pc EXCEPT ![t] = "have"]
    /\ UNCHANGED <<shared, mutex, asked, item, got, dataset, built>>

(* It is not: the thread drops it and builds another, holding the mutex.   *)
update_local_context(t) ==
    /\ Alive /\ pc[t] = "lock" /\ mutex = None /\ ~matches(shared, t, asked[t])
    /\ mutex' = t
    /\ shared' = None
    /\ pc' = [pc EXCEPT ![t] = "create"]
    /\ UNCHANGED <<local, asked, item, got, dataset, built>>

newContext(t) == [id |-> built + 1, epoch |-> asked[t], full |-> full(t)]

create_epoch_context(t) ==
    /\ Alive /\ pc[t] = "create" /\ built < MaxContexts
    /\ built' = built + 1
    /\ shared' = newContext(t)
    /\ local' = [local EXCEPT ![t] = newContext(t)]
    /\ dataset' = [dataset EXCEPT ![built + 1] = [i \in Items |-> IF i \in L1Items THEN ItemWords ELSE {}]]
    /\ mutex' = None
    /\ pc' = [pc EXCEPT ![t] = "have"]
    /\ UNCHANGED <<asked, item, got>>

(* calloc fails: the exception leaves a noexcept function.                 *)
outOfMemory(t) ==
    /\ Alive /\ pc[t] = "create"
    /\ pc' = [pc EXCEPT ![t] = "terminated"]
    /\ UNCHANGED <<shared, mutex, local, asked, item, got, dataset, built>>

-----------------------------------------------------------------------------
(* lazy_lookup_2048 of a CPU miner that is searching.                      *)

stored(t, i) == dataset[local[t].id][i]

lookup(t, i) ==
    /\ Alive /\ pc[t] = "have" /\ full(t)
    /\ item' = [item EXCEPT ![t] = i]
    /\ CASE i \in L1Items ->
              got' = [got EXCEPT ![t] = "whole"] /\ UNCHANGED pc
         [] i \notin L1Items /\ "first" \notin stored(t, i) ->
              pc' = [pc EXCEPT ![t] = "compute"] /\ UNCHANGED got
         [] OTHER -> pc' = [pc EXCEPT ![t] = "copy"] /\ UNCHANGED got
    /\ UNCHANGED <<shared, mutex, local, asked, dataset, built>>

copyItem(t) ==
    /\ Alive /\ pc[t] = "copy"
    /\ got' = [got EXCEPT ![t] = IF stored(t, item[t]) = ItemWords THEN "whole" ELSE "torn"]
    /\ pc' = [pc EXCEPT ![t] = "have"]
    /\ UNCHANGED <<shared, mutex, local, asked, item, dataset, built>>

(* Whoever computes an item stores the same words.                         *)
store(t, word) == dataset' = [dataset EXCEPT ![local[t].id][item[t]] = @ \cup {word}]

calculate_dataset_item_2048(t) ==
    /\ Alive /\ pc[t] = "compute"
    /\ store(t, "first")
    /\ pc' = [pc EXCEPT ![t] = "rest"]
    /\ UNCHANGED <<shared, mutex, local, asked, item, got, built>>

otherWords(t) ==
    /\ Alive /\ pc[t] = "rest"
    /\ store(t, "others")
    /\ got' = [got EXCEPT ![t] = "whole"]
    /\ pc' = [pc EXCEPT ![t] = "have"]
    /\ UNCHANGED <<shared, mutex, local, asked, item, built>>

Next ==
    \E t \in Threads :
        \/ \E e \in Epochs : get_epoch_context(t, e)
        \/ adopt(t) \/ update_local_context(t)
        \/ create_epoch_context(t) \/ outOfMemory(t)
        \/ \E i \in Items : lookup(t, i)
        \/ copyItem(t) \/ calculate_dataset_item_2048(t) \/ otherWords(t)

Spec == Init /\ [][Next]_vars

-----------------------------------------------------------------------------
ContextTypeOK ==
    /\ shared \in Contexts \cup {None}
    /\ mutex \in Threads \cup {None}
    /\ local \in [Threads -> Contexts \cup {None}]
    /\ asked \in [Threads -> Epochs]
    /\ pc \in [Threads -> {"idle", "terminated"} \cup InCall \cup Searching]
    /\ item \in [Threads -> Items]
    /\ got \in [Threads -> {"nothing", "whole", "torn"}]
    /\ dataset \in [1..MaxContexts -> [Items -> SUBSET ItemWords]]
    /\ built \in 0..MaxContexts

(* A thread that has left get_epoch_context holds a context of the epoch it *)
(* asked for last, with a full dataset exactly if it asked for one,         *)
(* whatever the other threads have made of the shared context since.        *)
ContextAsked ==
    \A t \in Threads :
        pc[t] \in Searching =>
            /\ local[t] # None
            /\ local[t].epoch = asked[t]
            /\ local[t].full = full(t)

(* An item is partly stored only while a thread is storing it: none is left *)
(* behind in pieces (lazy_lookup_2048).                                     *)
PartialHasWriter ==
    \A c \in 1..MaxContexts, i \in Items :
        dataset[c][i] \in {{}, ItemWords} \/
        \E t \in Threads : pc[t] = "rest" /\ local[t].id = c /\ item[t] = i

(* A lookup returns a torn item only while another thread, holding the same *)
(* context, is between the first and the last word of it.                   *)
TornOnlyWhileStored ==
    [][\A t \in Threads :
          got'[t] = "torn" /\ got[t] # "torn" =>
              \E u \in Threads : /\ pc[u] = "rest" /\ u # t
                                 /\ local[u].id = local[t].id /\ item[u] = item[t]]_vars

=============================================================================
