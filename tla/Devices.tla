------------------------------- MODULE Devices -------------------------------
(***************************************************************************)
(* How the physical cards of a machine become the collection of device     *)
(* descriptors, which of them are subscribed, and which card a miner opens *)
(* for a descriptor: enumDevices and initDevice of the three miners,       *)
(* subscription in MinerCLI::execute (main.cpp).                           *)
(*                                                                         *)
(* A machine is a record                                                   *)
(*   card      : card -> [bus, dev, kind, readable, cuOk]                  *)
(*   platforms : the OpenCL platforms, each [type, version, cards]         *)
(*   cuda      : the cards in CUDA's order                                 *)
(*   cpus      : number of processors                                      *)
(* The collection is a function from unique ids to descriptors.  An id is  *)
(* a number ordered as the code's strings are: NoId "", then the PCI ids   *)
(* (bus numbers below c0), then "cpu-<i>".                                 *)
(***************************************************************************)
EXTENDS Integers, Sequences, SequencesExt, FiniteSets

NoId == 0

PciId(bus, dev, fn) == 1 + bus * 256 + dev * 8 + fn

CpuId(i) == 1000000 + i

(* A cl_char is signed: cast to unsigned it keeps its sign.                *)
ofChar(b) == IF b > 127 THEN b + 3000 ELSE b

DeviceDescriptor == [sub |-> "None", type |-> "Unknown", clDetected |-> FALSE, clPlatformId |-> 0,
                     clPlatformType |-> "Unknown", clPlatformVersion |-> 0, clDeviceOrdinal |-> 0,
                     cuDetected |-> FALSE, cuDeviceIndex |-> 0, cpCpuNumer |-> 0]

(* Copy of what the collection has under the id, or a new descriptor.      *)
descriptorOf(coll, id) == IF id \in DOMAIN coll THEN coll[id] ELSE DeviceDescriptor

Put(coll, id, desc) == [x \in DOMAIN coll \cup {id} |-> IF x = id THEN desc ELSE coll[x]]

-----------------------------------------------------------------------------
(* What NVIDIA's driver reports: device and function in one byte.          *)
slot_id(card) == card.dev * 8

(* Only GPUs of known platforms have an id; it stays empty if the driver   *)
(* does not tell the slot.                                                 *)
clUniqueId(type, card) ==
    IF ~ card.readable THEN NoId
    ELSE IF type = "Nvidia" THEN PciId(card.bus, slot_id(card) \div 8, slot_id(card) % 8)
    ELSE PciId(ofChar(card.bus), ofChar(card.dev), 0)

(* Mutant: the ordinal only counts the devices that are taken.             *)
clDeviceSkips(mach, p, acc, c) ==
    LET plat == mach.platforms[p]
        id == clUniqueId(plat.type, mach.card[c])
    IN  IF mach.card[c].kind # "gpu" THEN acc
        ELSE [dIdx |-> acc.dIdx + 1,
              coll |-> Put(acc.coll, id, [descriptorOf(acc.coll, id) EXCEPT
                    !.type = "Gpu", !.clDetected = TRUE, !.clPlatformId = p - 1,
                    !.clPlatformType = plat.type, !.clPlatformVersion = plat.version,
                    !.clDeviceOrdinal = acc.dIdx])]

(* One device of platform p (pIdx = p - 1): accelerators are counted, not  *)
(* taken.                                                                  *)
clDevice(mach, p, acc, c) ==
    LET plat == mach.platforms[p]
        id == clUniqueId(plat.type, mach.card[c])
    IN  [dIdx |-> acc.dIdx + 1,
         coll |-> IF mach.card[c].kind # "gpu" THEN acc.coll
                  ELSE Put(acc.coll, id, [descriptorOf(acc.coll, id) EXCEPT
                    !.type = "Gpu", !.clDetected = TRUE, !.clPlatformId = p - 1,
                    !.clPlatformType = plat.type, !.clPlatformVersion = plat.version,
                    !.clDeviceOrdinal = acc.dIdx])]

(* CLMiner::enumDevices: unrecognized platforms are passed over.           *)
clEnumDevices(mach, coll) ==
    FoldLeftDomain(LAMBDA acc, p :
        IF mach.platforms[p].type = "Unknown" THEN acc
        ELSE FoldLeft(LAMBDA a, c : clDevice(mach, p, a, c), [dIdx |-> 0, coll |-> acc],
                      mach.platforms[p].cards).coll,
        coll, mach.platforms)

(* CUDAMiner::enumDevices: a device whose calls fail is left out.          *)
cuEnumDevices(mach, coll) ==
    FoldLeftDomain(LAMBDA acc, i :
        LET card == mach.card[mach.cuda[i]]
            id == PciId(card.bus, card.dev, 0)
        IN  IF ~ card.cuOk THEN acc
            ELSE Put(acc, id, [descriptorOf(acc, id) EXCEPT
                    !.type = "Gpu", !.cuDetected = TRUE, !.cuDeviceIndex = i - 1]),
        coll, mach.cuda)

(* CPUMiner::enumDevices                                                   *)
cpuEnumDevices(mach, coll) ==
    FoldLeft(LAMBDA acc, i :
        Put(acc, CpuId(i), [descriptorOf(acc, CpuId(i)) EXCEPT !.type = "Cpu", !.cpCpuNumer = i]),
        coll, [k \in 1..mach.cpus |-> k - 1])

(* Which of them run depends on the miner type.                            *)
enumDevices(mach, minerType) ==
    LET cl == IF minerType \in {"CL", "Mixed"} THEN clEnumDevices(mach, <<>>) ELSE <<>>
        cu == IF minerType \in {"CUDA", "Mixed"} THEN cuEnumDevices(mach, cl) ELSE cl
    IN  IF minerType = "CPU" THEN cpuEnumDevices(mach, cu) ELSE cu

-----------------------------------------------------------------------------
(* std::advance(begin, index): the ids in the order of the map.            *)
nth(coll, index) == SetToSortSeq(DOMAIN coll, LAMBDA a, b : a < b)[index + 1]

(* One index of a list given by the user; one past the collection is       *)
(* passed over.  acc is [coll, error].                                     *)
subscribeIndex(acc, index, kind) ==
    IF acc.error \/ index >= Cardinality(DOMAIN acc.coll) THEN acc
    ELSE LET id == nth(acc.coll, index)
             desc == acc.coll[id]
         IN  IF \/ kind = "Cuda" /\ ~ desc.cuDetected
                \/ kind = "OpenCL" /\ (~ desc.clDetected \/ desc.sub # "None")
             THEN [acc EXCEPT !.error = TRUE]
             ELSE [acc EXCEPT !.coll[id].sub = kind]

subscribeEach(acc, indexes, kind) == FoldLeft(LAMBDA a, i : subscribeIndex(a, i, kind), acc, indexes)

(* Every detected device that has no subscription yet.                     *)
subscribeAll(acc, kind) ==
    IF acc.error THEN acc
    ELSE [acc EXCEPT !.coll = [id \in DOMAIN @ |->
            IF \/ kind = "Cuda" /\ @[id].cuDetected /\ @[id].sub = "None"
               \/ kind = "OpenCL" /\ @[id].clDetected /\ @[id].sub = "None"
               \/ kind = "Cpu"
            THEN [@[id] EXCEPT !.sub = kind] ELSE @[id]]]

(* The lists first, then whatever kind has no list.                        *)
subscribe(coll, minerType, cuDevices, clDevices, cpDevices) ==
    LET cuda == minerType \in {"CUDA", "Mixed"}
        cl == minerType \in {"CL", "Mixed"}
        cpu == minerType = "CPU"
        start == [coll |-> coll, error |-> FALSE]
        discreteCu == IF cuda THEN subscribeEach(start, cuDevices, "Cuda") ELSE start
        discreteCl == IF cl THEN subscribeEach(discreteCu, clDevices, "OpenCL") ELSE discreteCu
        discreteCp == IF cpu THEN subscribeEach(discreteCl, cpDevices, "Cpu") ELSE discreteCl
        allCu == IF cuda /\ cuDevices = <<>> THEN subscribeAll(discreteCp, "Cuda") ELSE discreteCp
        allCl == IF cl /\ clDevices = <<>> THEN subscribeAll(allCu, "OpenCL") ELSE allCu
    IN  IF cpu /\ cpDevices = <<>> THEN subscribeAll(allCl, "Cpu") ELSE allCl

Subscribed(coll) == {id \in DOMAIN coll : coll[id].sub # "None"}

-----------------------------------------------------------------------------
(* getDevices: platform numbers past the last are cut; a platform whose    *)
(* query answers "not found" has none.                                     *)
getDevices(mach, platformId) ==
    LET n == Len(mach.platforms)
    IN  mach.platforms[(IF platformId < n THEN platformId ELSE n - 1) + 1].cards

(* initDevice of the miner of a descriptor: the card it opens, or "false", *)
(* or "terminate" for the pointer it throws, which the worker thread's     *)
(* handler for std::exception does not catch.                              *)
initDevice(mach, desc) ==
    CASE desc.sub = "Cpu" -> "cpu"
      [] desc.sub = "Cuda" -> mach.cuda[desc.cuDeviceIndex + 1]
      [] desc.sub = "OpenCL" ->
            LET devices == getDevices(mach, desc.clPlatformId)
            IN  IF mach.platforms = <<>> \/ devices = <<>> THEN "false"
                ELSE IF desc.clPlatformVersion < 12 /\ desc.clPlatformType # "Clover" THEN "terminate"
                ELSE devices[desc.clDeviceOrdinal + 1]
=============================================================================
