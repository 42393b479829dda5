------------------------- MODULE EpochContextProofs -------------------------
(***************************************************************************)
(* The safety properties of EpochContext, for any threads, epochs, items   *)
(* and number of contexts.                                                 *)
(***************************************************************************)
EXTENDS EpochContext, TLAPS

-----------------------------------------------------------------------------
(* What a thread holds, and what is shared, was built; of the contexts to  *)
(* come nothing is stored.                                                 *)
Built ==
    /\ shared # None => shared.id <= built
    /\ \A t \in Threads : local[t] # None => local[t].id <= built
    /\ \A c \in 1..MaxContexts : c > built => \A i \in Items : dataset[c][i] = {}

(* A context is built by the holder of shared_context_mutex: no two threads *)
(* build at the same time (ethash.cpp: update_local_context).               *)
OneBuilder == \A t \in Threads : pc[t] = "create" => mutex = t

(* What a thread copies, or stores the rest of, has its first word.         *)
FirstStored ==
    \A t \in Threads : pc[t] \in {"copy", "rest"} => "first" \in stored(t, item[t])

IInv == ContextTypeOK /\ Built /\ OneBuilder /\ ContextAsked /\ FirstStored /\ PartialHasWriter

-----------------------------------------------------------------------------
(* None is not a context.                                                  *)
LEMMA NoneIsNoContext == None \notin Contexts
BY ContextAssumption DEF Contexts

(* A context of one of the threads is a context.                           *)
LEMMA NewContextType ==
    ASSUME ContextTypeOK, NEW t \in Threads, built < MaxContexts
    PROVE  newContext(t) \in Contexts /\ newContext(t) # None
<1>1. full(t) \in BOOLEAN
  BY DEF full
<1>2. built + 1 \in 1..MaxContexts /\ asked[t] \in Epochs
  BY ContextAssumption DEF ContextTypeOK
<1>3. newContext(t) \in Contexts
  BY <1>1, <1>2, Zenon DEF newContext, Contexts
<1> QED
  BY <1>3, NoneIsNoContext

(* A process that has just started satisfies the invariant.                *)
LEMMA InitIInv == Init => IInv
BY ContextAssumption, NoneIsNoContext
   DEF Init, IInv, ContextTypeOK, Built, OneBuilder, ContextAsked, FirstStored,
       PartialHasWriter, Searching, InCall, ItemWords

(* The types survive every step of every thread.                           *)
LEMMA TypeStep == IInv /\ [Next]_vars => ContextTypeOK'
<1> SUFFICES ASSUME IInv, [Next]_vars PROVE ContextTypeOK'
  OBVIOUS
<1> USE ContextAssumption DEF IInv, ContextTypeOK, InCall, Searching
<1>1. ASSUME NEW t \in Threads, NEW e \in Epochs, get_epoch_context(t, e) PROVE ContextTypeOK'
  BY <1>1 DEF get_epoch_context
<1>2. ASSUME NEW t \in Threads, adopt(t) PROVE ContextTypeOK'
  BY <1>2, NoneIsNoContext DEF adopt, matches
<1>3. ASSUME NEW t \in Threads, update_local_context(t) PROVE ContextTypeOK'
  BY <1>3 DEF update_local_context
<1>4. ASSUME NEW t \in Threads, create_epoch_context(t) PROVE ContextTypeOK'
  <2>1. newContext(t) \in Contexts
    BY <1>4, NewContextType DEF create_epoch_context
  <2>2. built + 1 \in 1..MaxContexts
    BY <1>4 DEF create_epoch_context
  <2>3. dataset' \in [1..MaxContexts -> [Items -> SUBSET ItemWords]]
    BY <1>4, <2>2 DEF create_epoch_context
  <2> QED
    BY <1>4, <2>1, <2>2, <2>3 DEF create_epoch_context
<1>5. ASSUME NEW t \in Threads, outOfMemory(t) PROVE ContextTypeOK'
  BY <1>5 DEF outOfMemory
<1>6. ASSUME NEW t \in Threads, NEW i \in Items, lookup(t, i) PROVE ContextTypeOK'
  BY <1>6 DEF lookup
<1>7. ASSUME NEW t \in Threads, copyItem(t) PROVE ContextTypeOK'
  BY <1>7 DEF copyItem
<1>8. ASSUME NEW t \in Threads, calculate_dataset_item_2048(t) PROVE ContextTypeOK'
  BY <1>8 DEF calculate_dataset_item_2048, store, ItemWords
<1>9. ASSUME NEW t \in Threads, otherWords(t) PROVE ContextTypeOK'
  BY <1>9 DEF otherWords, store, ItemWords
<1>10. CASE UNCHANGED vars
  BY <1>10 DEF vars
<1> QED
  BY <1>1, <1>2, <1>3, <1>4, <1>5, <1>6, <1>7, <1>8, <1>9, <1>10 DEF Next

(* A store adds one word to one item.                                       *)
LEMMA StoreEffect ==
    ASSUME IInv, NEW t \in Threads, pc[t] \in Searching, NEW word \in ItemWords, store(t, word)
    PROVE  /\ local[t] # None /\ local[t].id \in 1..MaxContexts /\ local[t].id <= built
           /\ item[t] \in Items
           /\ \A c \in 1..MaxContexts, i \in Items :
                dataset'[c][i] = IF c = local[t].id /\ i = item[t]
                                 THEN dataset[c][i] \cup {word} ELSE dataset[c][i]
<1>1. local[t] # None /\ local[t] \in Contexts /\ item[t] \in Items
  BY DEF IInv, ContextAsked, ContextTypeOK
<1>2. local[t].id \in 1..MaxContexts /\ local[t].id <= built
  BY <1>1 DEF Contexts, IInv, Built
<1> QED
  BY <1>1, <1>2 DEF store, IInv, ContextTypeOK

(* A step that stores nothing keeps what is known of the items, as long as *)
(* threads go on copying only what has its first word.                     *)
LEMMA Untouched ==
    ASSUME IInv, NEW t \in Threads, dataset' = dataset, built' = built,
           \A u \in Threads : u # t =>
               pc'[u] = pc[u] /\ local'[u] = local[u] /\ item'[u] = item[u],
           pc[t] # "rest", pc'[t] # "rest",
           pc'[t] = "copy" => "first" \in dataset[local'[t].id][item'[t]]
    PROVE  (FirstStored /\ PartialHasWriter)'
<1>1. FirstStored'
  BY DEF IInv, FirstStored, stored
<1>2. PartialHasWriter'
  BY DEF IInv, PartialHasWriter
<1> QED
  BY <1>1, <1>2

(* Every step keeps the relations between what is shared, what the threads  *)
(* hold and what they asked for.                                            *)
LEMMA HeldStep == IInv /\ [Next]_vars => (Built /\ OneBuilder /\ ContextAsked)'
<1> SUFFICES ASSUME IInv, [Next]_vars PROVE (Built /\ OneBuilder /\ ContextAsked)'
  OBVIOUS
<1>t. ContextTypeOK /\ ContextTypeOK'
  BY TypeStep DEF IInv
<1> DEFINE Held == Built /\ OneBuilder /\ ContextAsked
<1>1. ASSUME NEW t \in Threads, NEW e \in Epochs, get_epoch_context(t, e) PROVE Held'
  BY <1>1, <1>t
     DEF get_epoch_context, matches, IInv, Built, OneBuilder, ContextAsked, ContextTypeOK,
         Searching
<1>2. ASSUME NEW t \in Threads, adopt(t) PROVE Held'
  BY <1>2, <1>t
     DEF adopt, matches, IInv, Built, OneBuilder, ContextAsked, ContextTypeOK, Searching
<1>3. ASSUME NEW t \in Threads, update_local_context(t) PROVE Held'
  BY <1>3, <1>t, ContextAssumption
     DEF update_local_context, IInv, Built, OneBuilder, ContextAsked, ContextTypeOK, Searching
<1>4. ASSUME NEW t \in Threads, create_epoch_context(t) PROVE Held'
  <2> DEFINE new == newContext(t)
  <2>1. new # None /\ new.id = built + 1 /\ new.epoch = asked[t] /\ new.full = full(t)
    BY <1>4, <1>t, NewContextType DEF create_epoch_context, newContext
  <2>2. /\ shared' = new /\ local' = [local EXCEPT ![t] = new] /\ built' = built + 1
        /\ mutex' = None /\ pc' = [pc EXCEPT ![t] = "have"] /\ asked' = asked
        /\ \A c \in 1..MaxContexts : c # built + 1 => dataset'[c] = dataset[c]
    BY <1>4, <1>t DEF create_epoch_context, ContextTypeOK
  <2> HIDE DEF new
  <2>3. Built'
    BY <2>1, <2>2, <1>t, ContextAssumption DEF IInv, Built, ContextTypeOK, Contexts
  <2>4. ContextAsked'
    BY <2>1, <2>2, <1>t DEF IInv, ContextAsked, ContextTypeOK, full
  <2>5. OneBuilder'
    BY <1>4, <2>2, <1>t DEF create_epoch_context, IInv, OneBuilder, ContextTypeOK
  <2> QED
    BY <2>3, <2>4, <2>5
<1>5. ASSUME NEW t \in Threads,
             outOfMemory(t) \/ (\E i \in Items : lookup(t, i)) \/ copyItem(t)
      PROVE  Held'
  BY <1>5, <1>t
     DEF outOfMemory, lookup, copyItem, IInv, Built, OneBuilder, ContextAsked,
         ContextTypeOK, Searching
<1>6. ASSUME NEW t \in Threads, calculate_dataset_item_2048(t) \/ otherWords(t)
      PROVE  Held'
  <2>1. (OneBuilder /\ ContextAsked)'
    BY <1>6, <1>t
       DEF calculate_dataset_item_2048, otherWords, IInv, OneBuilder, ContextAsked,
           ContextTypeOK, Searching
  <2>2. PICK word \in ItemWords : store(t, word) /\ pc[t] \in Searching
    BY <1>6 DEF calculate_dataset_item_2048, otherWords, ItemWords, Searching
  <2>3. \A c \in 1..MaxContexts : c > built => \A i \in Items : dataset'[c][i] = dataset[c][i]
    <3>1. /\ local[t].id \in 1..MaxContexts /\ local[t].id <= built
          /\ \A c \in 1..MaxContexts, i \in Items :
                dataset'[c][i] = IF c = local[t].id /\ i = item[t]
                                 THEN dataset[c][i] \cup {word} ELSE dataset[c][i]
      BY <2>2, StoreEffect
    <3>2. \A c \in 1..MaxContexts : c > built => c # local[t].id
      BY <3>1, <1>t, ContextAssumption DEF ContextTypeOK
    <3> QED
      BY <3>1, <3>2
  <2>5. shared' = shared /\ local' = local /\ built' = built
    BY <1>6 DEF calculate_dataset_item_2048, otherWords
  <2>4. Built'
    BY <2>3, <2>5 DEF IInv, Built
  <2> QED
    BY <2>1, <2>4
<1>7. CASE UNCHANGED vars
  BY <1>7 DEF vars, IInv, Built, OneBuilder, ContextAsked, full
<1> QED
  BY <1>1, <1>2, <1>3, <1>4, <1>5, <1>6, <1>7 DEF Next

(* Every step keeps what is known of the items.                             *)
LEMMA ItemsStep == IInv /\ [Next]_vars => (FirstStored /\ PartialHasWriter)'
<1> SUFFICES ASSUME IInv, [Next]_vars PROVE (FirstStored /\ PartialHasWriter)'
  OBVIOUS
<1>t. ContextTypeOK /\ ContextTypeOK'
  BY TypeStep DEF IInv
<1>1. ASSUME NEW t \in Threads,
             \/ \E e \in Epochs : get_epoch_context(t, e)
             \/ adopt(t) \/ update_local_context(t) \/ outOfMemory(t) \/ copyItem(t)
      PROVE  (FirstStored /\ PartialHasWriter)'
  <2>1. /\ dataset' = dataset /\ built' = built /\ pc[t] # "rest"
        /\ pc'[t] \notin {"rest", "copy"}
        /\ \A u \in Threads : u # t =>
               pc'[u] = pc[u] /\ local'[u] = local[u] /\ item'[u] = item[u]
    BY <1>1, <1>t
       DEF get_epoch_context, adopt, update_local_context, outOfMemory, copyItem, ContextTypeOK
  <2> QED
    BY <2>1, Untouched
<1>2. ASSUME NEW t \in Threads, NEW i \in Items, lookup(t, i)
      PROVE  (FirstStored /\ PartialHasWriter)'
  <2>1. /\ dataset' = dataset /\ built' = built /\ pc[t] # "rest" /\ pc'[t] # "rest"
        /\ local' = local /\ item'[t] = i
        /\ \A u \in Threads : u # t => pc'[u] = pc[u] /\ item'[u] = item[u]
        /\ pc'[t] = "copy" => "first" \in stored(t, i)
    BY <1>2, <1>t DEF lookup, ContextTypeOK
  <2> QED
    BY <2>1, Untouched DEF stored
<1>3. ASSUME NEW t \in Threads, create_epoch_context(t)
      PROVE  (FirstStored /\ PartialHasWriter)'
  <2>1. /\ built + 1 \in 1..MaxContexts
        /\ \A c \in 1..MaxContexts : c # built + 1 => dataset'[c] = dataset[c]
        /\ \A i \in Items : dataset'[built + 1][i] \in {{}, ItemWords}
        /\ pc[t] = "create" /\ pc'[t] = "have" /\ item' = item
        /\ \A u \in Threads : u # t => pc'[u] = pc[u] /\ local'[u] = local[u]
    BY <1>3, <1>t, ContextAssumption DEF create_epoch_context, ContextTypeOK
  <2>2. \A u \in Threads : pc[u] \in Searching =>
            local[u].id \in 1..MaxContexts /\ local[u].id # built + 1
    BY <1>t, ContextAssumption DEF IInv, ContextAsked, Built, ContextTypeOK, Contexts
  <2>3. FirstStored'
    BY <2>1, <2>2 DEF IInv, FirstStored, stored, Searching
  <2>4. PartialHasWriter'
    BY <2>1 DEF IInv, PartialHasWriter
  <2> QED
    BY <2>3, <2>4
<1>4. ASSUME NEW t \in Threads, calculate_dataset_item_2048(t)
      PROVE  (FirstStored /\ PartialHasWriter)'
  <2>1. /\ pc[t] = "compute" /\ pc'[t] = "rest" /\ local' = local /\ item' = item
        /\ \A u \in Threads : u # t => pc'[u] = pc[u]
    BY <1>4, <1>t DEF calculate_dataset_item_2048, ContextTypeOK
  <2>2. /\ local[t].id \in 1..MaxContexts /\ item[t] \in Items
        /\ \A c \in 1..MaxContexts, i \in Items :
                dataset'[c][i] = IF c = local[t].id /\ i = item[t]
                                 THEN dataset[c][i] \cup {"first"} ELSE dataset[c][i]
    BY <1>4, <2>1, StoreEffect DEF calculate_dataset_item_2048, ItemWords, Searching
  <2>3. \A u \in Threads : pc[u] \in Searching =>
            local[u].id \in 1..MaxContexts /\ item[u] \in Items
    BY <1>t DEF IInv, ContextAsked, ContextTypeOK, Contexts
  <2>4. FirstStored'
    <3> SUFFICES ASSUME NEW u \in Threads, pc'[u] \in {"copy", "rest"}
                 PROVE  "first" \in dataset'[local[u].id][item[u]]
      BY <2>1 DEF FirstStored, stored
    <3>1. CASE u = t
      BY <2>2, <3>1
    <3>2. CASE u # t
      <4>1. "first" \in dataset[local[u].id][item[u]] /\ pc[u] \in Searching
        BY <2>1, <3>2 DEF IInv, FirstStored, stored, Searching
      <4> QED
        BY <2>2, <2>3, <4>1
    <3> QED
      BY <3>1, <3>2
  <2>5. PartialHasWriter'
    <3> SUFFICES ASSUME NEW c \in 1..MaxContexts, NEW i \in Items,
                        dataset'[c][i] \notin {{}, ItemWords}
                 PROVE  \E u \in Threads : pc'[u] = "rest" /\ local[u].id = c /\ item[u] = i
      BY <2>1 DEF PartialHasWriter
    <3>1. CASE c = local[t].id /\ i = item[t]
      BY <2>1, <3>1
    <3>2. CASE ~(c = local[t].id /\ i = item[t])
      <4>1. dataset[c][i] \notin {{}, ItemWords}
        BY <2>2, <3>2
      <4>2. PICK u \in Threads : pc[u] = "rest" /\ local[u].id = c /\ item[u] = i
        BY <4>1 DEF IInv, PartialHasWriter
      <4> QED
        BY <2>1, <4>2
    <3> QED
      BY <3>1, <3>2
  <2> QED
    BY <2>4, <2>5
<1>5. ASSUME NEW t \in Threads, otherWords(t)
      PROVE  (FirstStored /\ PartialHasWriter)'
  <2>1. /\ pc[t] = "rest" /\ pc'[t] = "have" /\ local' = local /\ item' = item
        /\ \A u \in Threads : u # t => pc'[u] = pc[u]
    BY <1>5, <1>t DEF otherWords, ContextTypeOK
  <2>2. /\ local[t].id \in 1..MaxContexts /\ item[t] \in Items
        /\ \A c \in 1..MaxContexts, i \in Items :
                dataset'[c][i] = IF c = local[t].id /\ i = item[t]
                                 THEN dataset[c][i] \cup {"others"} ELSE dataset[c][i]
    BY <1>5, <2>1, StoreEffect DEF otherWords, ItemWords, Searching
  <2>3. \A u \in Threads : pc[u] \in Searching =>
            local[u].id \in 1..MaxContexts /\ item[u] \in Items
    BY <1>t DEF IInv, ContextAsked, ContextTypeOK, Contexts
  <2>4. dataset'[local[t].id][item[t]] = ItemWords
    <3>1. "first" \in dataset[local[t].id][item[t]]
      BY <2>1 DEF IInv, FirstStored, stored
    <3>2. dataset[local[t].id][item[t]] \subseteq ItemWords
      BY <2>2, <1>t DEF ContextTypeOK
    <3>3. dataset'[local[t].id][item[t]] = dataset[local[t].id][item[t]] \cup {"others"}
      BY <2>2
    <3> QED
      BY <3>1, <3>2, <3>3 DEF ItemWords
  <2>5. FirstStored'
    <3> SUFFICES ASSUME NEW u \in Threads, pc'[u] \in {"copy", "rest"}
                 PROVE  "first" \in dataset'[local[u].id][item[u]]
      BY <2>1 DEF FirstStored, stored
    <3>1. "first" \in dataset[local[u].id][item[u]] /\ pc[u] \in Searching
      BY <2>1 DEF IInv, FirstStored, stored, Searching
    <3> QED
      BY <2>2, <2>3, <3>1
  <2>6. PartialHasWriter'
    <3> SUFFICES ASSUME NEW c \in 1..MaxContexts, NEW i \in Items,
                        dataset'[c][i] \notin {{}, ItemWords}
                 PROVE  \E u \in Threads : pc'[u] = "rest" /\ local[u].id = c /\ item[u] = i
      BY <2>1 DEF PartialHasWriter
    <3>1. ~(c = local[t].id /\ i = item[t])
      BY <2>4
    <3>2. dataset[c][i] \notin {{}, ItemWords}
      BY <2>2, <3>1
    <3>3. PICK u \in Threads : pc[u] = "rest" /\ local[u].id = c /\ item[u] = i
      BY <3>2 DEF IInv, PartialHasWriter
    <3> QED
      BY <2>1, <3>1, <3>3
  <2> QED
    BY <2>5, <2>6
<1>6. CASE UNCHANGED vars
  BY <1>6 DEF vars, IInv, FirstStored, PartialHasWriter, stored
<1> QED
  BY <1>1, <1>2, <1>3, <1>4, <1>5, <1>6 DEF Next

(* A copy is torn only if the item is partly stored.                        *)
LEMMA TornStep ==
    IInv /\ [Next]_vars =>
        [\A t \in Threads :
            got'[t] = "torn" /\ got[t] # "torn" =>
                \E u \in Threads : /\ pc[u] = "rest" /\ u # t
                                   /\ local[u].id = local[t].id /\ item[u] = item[t]]_vars
<1> DEFINE Covered(t) ==
        \E u \in Threads : /\ pc[u] = "rest" /\ u # t
                           /\ local[u].id = local[t].id /\ item[u] = item[t]
           Torn(t) == got'[t] = "torn" /\ got[t] # "torn"
<1> SUFFICES ASSUME IInv, Next, NEW t \in Threads, Torn(t) PROVE Covered(t)
  BY Zenon
<1>1. copyItem(t) /\ stored(t, item[t]) # ItemWords
  <2>1. PICK u \in Threads :
           \/ \E e \in Epochs : get_epoch_context(u, e)
           \/ adopt(u) \/ update_local_context(u)
           \/ create_epoch_context(u) \/ outOfMemory(u)
           \/ \E i \in Items : lookup(u, i)
           \/ copyItem(u) \/ calculate_dataset_item_2048(u) \/ otherWords(u)
    BY DEF Next
  <2>2. got' # got
    BY DEF IInv, ContextTypeOK
  <2>3. (\E i \in Items : lookup(u, i)) \/ copyItem(u) \/ otherWords(u)
    BY <2>1, <2>2
       DEF get_epoch_context, adopt, update_local_context, create_epoch_context, outOfMemory,
           calculate_dataset_item_2048
  <2>4. got \in [Threads -> {"nothing", "whole", "torn"}]
    BY DEF IInv, ContextTypeOK
  <2> QED
    BY <2>3, <2>4 DEF lookup, copyItem, otherWords
<1>2. local[t].id \in 1..MaxContexts /\ item[t] \in Items /\ pc[t] = "copy"
  BY <1>1 DEF copyItem, IInv, ContextAsked, ContextTypeOK, Contexts, Searching
<1>3. "first" \in dataset[local[t].id][item[t]]
  BY <1>2 DEF IInv, FirstStored, stored
<1>4. dataset[local[t].id][item[t]] \notin {{}, ItemWords}
  BY <1>1, <1>3 DEF stored
<1>5. PICK u \in Threads : pc[u] = "rest" /\ local[u].id = local[t].id /\ item[u] = item[t]
  BY <1>2, <1>4 DEF IInv, PartialHasWriter
<1> QED
  BY <1>2, <1>5

-----------------------------------------------------------------------------
(* The invariant holds for any number of threads, epochs and contexts.      *)
THEOREM Invariance == Spec => []IInv
<1>1. Init => IInv
  BY InitIInv
<1>2. IInv /\ [Next]_vars => IInv'
  BY TypeStep, HeldStep, ItemsStep DEF IInv
<1> QED
  BY <1>1, <1>2, PTL DEF Spec

(* Whoever leaves get_epoch_context holds the context asked for, whatever   *)
(* the other threads have made of the shared one since.                     *)
THEOREM ContextAskedHolds == Spec => []ContextAsked
<1>1. IInv => ContextAsked
  BY DEF IInv
<1> QED
  BY <1>1, Invariance, PTL

(* Only one thread at a time builds a context.                              *)
THEOREM OneBuilderHolds == Spec => []OneBuilder
<1>1. IInv => OneBuilder
  BY DEF IInv
<1> QED
  BY <1>1, Invariance, PTL

(* No item is left behind in pieces by the lock-free lazy lookup.           *)
THEOREM PartialHasWriterHolds == Spec => []PartialHasWriter
<1>1. IInv => PartialHasWriter
  BY DEF IInv
<1> QED
  BY <1>1, Invariance, PTL

(* The lazy lookup returns a torn item only while another miner, on the     *)
(* same context, is in the middle of storing that item.                     *)
THEOREM TornOnlyWhileStoredHolds == Spec => TornOnlyWhileStored
<1>1. IInv /\ [Next]_vars =>
        [\A t \in Threads :
            got'[t] = "torn" /\ got[t] # "torn" =>
                \E u \in Threads : /\ pc[u] = "rest" /\ u # t
                                   /\ local[u].id = local[t].id /\ item[u] = item[t]]_vars
  BY TornStep
<1> QED
  BY <1>1, Invariance, PTL DEF Spec, TornOnlyWhileStored

=============================================================================
