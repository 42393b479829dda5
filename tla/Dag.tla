--------------------------------- MODULE Dag --------------------------------
(***************************************************************************)
(* The generation of the DAG: the light cache is built on the host         *)
(* (libcrypto/ethash.cpp) and copied to the device, which computes one     *)
(* 512-bit node per thread in a series of launches.  OpenCL threads work   *)
(* alone, CUDA threads in quads that read the light cache for each other.  *)
(* The host computes the same nodes when it verifies a solution; here it   *)
(* does so next to the device, four nodes at a time, one parent a step.    *)
(*                                                                         *)
(* A node has its 16 words, of W bits; keccak512 is a parameter, as the    *)
(* sizes of the launches are.  Sizes in bytes are 64-bit numbers on the    *)
(* host; Unsigned stands for 2^32, the range of `unsigned'.                *)
(***************************************************************************)
EXTENDS Words

CONSTANTS
    Configs,        \* [light, items, group, chunk, blocks, threads]
    Parents,        \* kFull_dataset_item_parents
    LightRounds,    \* kLight_cache_rounds
    NodeBytes,      \* sizeof(hash64_t)
    Unsigned,
    Seed,           \* the hash512 of the seed of the epoch
    keccak512(_)    \* on functions 0..15 -> Word

VARIABLE dag

Node == 0..15
Quad == 0..3

fnv1_512(a, b) == [i \in Node |-> fnv1(a[i], b[i])]

xor_512(x, y) == [i \in Node |-> xor(x[i], y[i])]

-----------------------------------------------------------------------------
(* item_state: the constructor, update(round) and final().                 *)

item_state(cache, index) ==
    LET first == cache[index % Cardinality(DOMAIN cache)]
    IN  keccak512([first EXCEPT ![0] = xor(@, u32(index))])

parentOf(cache, index, round, mix) ==
    fnv1(xor(u32(index), round), mix[round % 16]) % Cardinality(DOMAIN cache)

update(cache, index, round, mix) == fnv1_512(mix, cache[parentOf(cache, index, round, mix)])

final(mix) == keccak512(mix)

-----------------------------------------------------------------------------
(* build_light_cache(): a chain of hashes, then rounds over all items.     *)
(* num_items + (i - 1) wraps to the last item for i = 0.                   *)

DagInit ==
    dag \in {[phase |-> "light", by |-> by, c |-> c, round |-> 0, i |-> 0,
              cache |-> [j \in 0..(c.light - 1) |-> Seed]] :
                 by \in {"cl", "cuda"}, c \in Configs}

lightItem(cache, round, i, n) ==
    LET v == cache[i][0] % n
        w == u32(n + u32(i - 1)) % n
    IN  CASE round = 0 /\ i = 0 -> Seed
          [] round = 0 /\ i > 0 -> keccak512(cache[i - 1])
          [] round > 0 -> keccak512(xor_512(cache[v], cache[w]))

build_light_cache ==
    /\ dag.phase = "light"
    /\ LET n == dag.c.light
           last == dag.i = n - 1
           built == [dag.cache EXCEPT ![dag.i] = lightItem(dag.cache, dag.round, dag.i, n)]
       IN  dag' = IF last /\ dag.round = LightRounds
                  THEN [phase |-> "launch", by |-> dag.by, c |-> dag.c, cache |-> built,
                        start |-> 0, ok |-> {}, bad |-> {}]
                  ELSE [dag EXCEPT !.cache = built, !.i = IF last THEN 0 ELSE @ + 1,
                                   !.round = IF last THEN @ + 1 ELSE @]

-----------------------------------------------------------------------------
(* The launches: for OpenCL chunks, then what is left in whole groups; for *)
(* CUDA grids of the same size.  0 when there is nothing left to do.       *)

nodes(c) == c.items * 2
dagBytes(c) == nodes(c) * NodeBytes

clLaunch(c, start) ==
    CASE start <= u32(nodes(c) - c.chunk * c.group) -> c.chunk * c.group
      [] OTHER -> IF start < nodes(c)
                  THEN ((nodes(c) - start + c.group - 1) \div c.group) * c.group ELSE 0

ethash_generate_dag(c, start) ==
    LET grid == c.blocks * c.threads
        fullRuns == nodes(c) \div grid + (IF nodes(c) % grid > 0 THEN 1 ELSE 0)
    IN  IF start \div grid < fullRuns THEN grid ELSE 0

launchSize(by, c, start) ==
    IF by = "cl" THEN clLaunch(c, start) ELSE ethash_generate_dag(c, start)

launchDag ==
    /\ dag.phase = "launch"
    /\ LET size == launchSize(dag.by, dag.c, dag.start)
       IN  dag' = IF size = 0 THEN [dag EXCEPT !.phase = "done"]
                  ELSE [phase |-> "quad", by |-> dag.by, c |-> dag.c, cache |-> dag.cache,
                        start |-> dag.start, ok |-> dag.ok, bad |-> dag.bad,
                        size |-> size, first |-> dag.start]

-----------------------------------------------------------------------------
(* Four threads of a launch.  A thread past the end returns at once: in    *)
(* OpenCL by the definition PROGPOW_DAG_BYTES of the program, which        *)
(* addDefinition() takes as an unsigned; in CUDA if no thread of its quad  *)
(* has a node.  The kernels start a node as item_state() does.             *)

addDefinition(value) == value % Unsigned

clRuns(c, node) == node * NodeBytes < addDefinition(dagBytes(c))

cudaRunsAlone(c, node) == node < dagBytes(c) \div NodeBytes

cudaRuns(c, node) ==
    LET num_nodes == dagBytes(c) \div NodeBytes
    IN  node < ((num_nodes + 3) \div 4) * 4

runs(by, c, node) == IF by = "cl" THEN clRuns(c, node) ELSE cudaRuns(c, node)

beginQuad ==
    /\ dag.phase = "quad"
    /\ LET index == [t \in Quad |-> dag.first + t]
           mix == [t \in Quad |-> item_state(dag.cache, index[t])]
       IN  dag' = [phase |-> "mix", by |-> dag.by, c |-> dag.c, cache |-> dag.cache,
                   start |-> dag.start, ok |-> dag.ok, bad |-> dag.bad, size |-> dag.size,
                   first |-> dag.first, i |-> 0, host |-> mix, node |-> mix,
                   active |-> {t \in Quad : runs(dag.by, dag.c, index[t])}]

(* SHFL: a thread that has returned gives nothing of use.                  *)
SHFL(active, value, t) == IF t \in active THEN value ELSE 0

clParent(d, t) == update(d.cache, d.first + t, d.i, d.node[t])

(* Vector w of the parent of thread t is read by thread w of the quad.     *)
cudaParent(d, t) ==
    LET parent(k) == parentOf(d.cache, d.first + k, d.i, d.node[k])
        shuffle_index == SHFL(d.active, parent(t), t)
        p4(k, j) == d.cache[shuffle_index][4 * k + j]
    IN  [x \in Node |-> fnv1(d.node[t][x], SHFL(d.active, p4(x \div 4, x % 4), x \div 4))]

nextParent ==
    /\ dag.phase = "mix" /\ dag.i < Parents
    /\ dag' = [dag EXCEPT !.i = @ + 1,
                          !.host = [t \in Quad |-> update(dag.cache, dag.first + t, dag.i, dag.host[t])],
                          !.node = [t \in Quad |->
                             CASE t \notin dag.active -> dag.node[t]
                               [] dag.by = "cl" -> clParent(dag, t)
                               [] dag.by = "cuda" -> cudaParent(dag, t)]]

(* The nodes a quad stores, and those it stores as the host computes them. *)
writeQuad ==
    /\ dag.phase = "mix" /\ dag.i = Parents
    /\ LET stores == {t \in dag.active : dag.by = "cl" \/ (dag.first + t) * NodeBytes < dagBytes(dag.c)}
           whole(t) == dag.by = "cl" \/ dag.active = Quad
           right == {t \in stores : /\ whole(t) /\ final(dag.node[t]) = final(dag.host[t])
                                    /\ dag.first + t < nodes(dag.c)
                                    /\ dag.first + t \notin dag.ok}
           ended == dag.first + 4 >= dag.start + dag.size
       IN  dag' = [phase |-> IF ended THEN "launch" ELSE "quad", by |-> dag.by, c |-> dag.c,
                   cache |-> dag.cache, size |-> dag.size, first |-> dag.first + 4,
                   start |-> IF ended THEN dag.start + dag.size ELSE dag.start,
                   ok |-> dag.ok \cup {dag.first + t : t \in right},
                   bad |-> dag.bad \cup {dag.first + t : t \in stores \ right}]

DagNext == build_light_cache \/ launchDag \/ beginQuad \/ nextParent \/ writeQuad

-----------------------------------------------------------------------------
(* The launches store every node of the DAG once, with the value the host  *)
(* computes for it, and nothing past its end, also where the number of     *)
(* nodes is no multiple of a chunk, a group, a grid or a quad; for OpenCL  *)
(* as long as the DAG is smaller than 4 GiB (initEpoch, the DAG kernels).  *)
DagGenerated ==
    dag.phase \notin {"light", "quad", "mix"} =>
        /\ dag.bad = {}
        /\ dag.phase = "done" /\ (dag.by = "cuda" \/ dagBytes(dag.c) < Unsigned) =>
              dag.ok = 0..(nodes(dag.c) - 1)

(* The same without the limit: the kernels generate the whole DAG          *)
(* (ethash.hpp:42 plans for DAGs above 4GB).                               *)
DagComplete == dag.phase = "done" => dag.ok = 0..(nodes(dag.c) - 1)

=============================================================================
