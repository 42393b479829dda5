-------------------------------- MODULE Hwmon --------------------------------
(***************************************************************************)
(* Hardware monitoring: libhwmon's wrappers of NVML, of Linux' sysfs and   *)
(* of AMD's ADL, the maps from PCI ids to their devices that Farm builds,  *)
(* and the temperature control of Farm::collectData.  The io thread        *)
(* collects while the miner threads are still in initDevice, which fills   *)
(* the monitor information member by member.                               *)
(*                                                                         *)
(* A machine (see Devices) also has                                        *)
(*   os   : "linux" or "windows"                                           *)
(*   nvml : the cards in NVML's order                                      *)
(*   drm  : /sys/class/drm in directory order, [card, vendor, hwmon]       *)
(*   adl  : ADL's logical adapters, [card, id, ok]                         *)
(* A monitor's handle is [open, cards].                                    *)
(***************************************************************************)
EXTENDS Devices

CONSTANTS Machines, Temps, tempStop, tempStart

VARIABLE heat

noHandle == [open |-> FALSE, cards |-> <<>>]

Handle(cards) == [open |-> TRUE, cards |-> cards]

-----------------------------------------------------------------------------
(* wrap_nvml_create: no handle without the library and all its functions.  *)
wrap_nvml_create(mach) == {noHandle, Handle(mach.nvml)}

(* std::stoi(text, nullptr, 10) of the two hexadecimal digits of n: stops  *)
(* at a letter, throws (-1 here) if the first is one.                      *)
stoi10(n) ==
    LET hi == n \div 16
        lo == n % 16
    IN  IF hi > 9 THEN -1 ELSE IF lo > 9 THEN hi ELSE 10 * hi + lo

(* The entries of drm that wrap_amdsysfs_create takes: AMD's, with a hwmon *)
(* directory and a readable slot name.                                     *)
sysfsEntry(mach, e) ==
    /\ e.vendor = 4098 /\ e.hwmon
    /\ stoi10(mach.card[e.card].bus) # -1 /\ stoi10(mach.card[e.card].dev) # -1

wrap_amdsysfs_create(mach) ==
    LET taken == SelectSeq(mach.drm, LAMBDA e : sysfsEntry(mach, e))
    IN  IF taken = <<>> THEN noHandle ELSE Handle([i \in 1..Len(taken) |-> taken[i].card])

(* wrap_adl_create: several logical adapters in a row are one card; slot n *)
(* is written before the test and overwritten by the next card.            *)
adlAdapter(acc, a, i) ==
    IF ~ a.ok THEN acc
    ELSE [phys |-> [acc.phys EXCEPT ![acc.n + 1] = i],
          n |-> IF a.id = acc.last THEN acc.n ELSE acc.n + 1,
          last |-> a.id]

wrap_adl_create(mach) ==
    LET all == FoldLeftDomain(LAMBDA acc, i : adlAdapter(acc, mach.adl[i], i),
                    [phys |-> [i \in 1..Len(mach.adl) |-> 0], n |-> 0, last |-> 0], mach.adl)
    IN  {noHandle, Handle([i \in 1..all.n |-> mach.adl[all.phys[i]].card])}

(* The PCI ids "as done in miners".  NVML tells the device, 0 to 31, not   *)
(* device and function in one number: the shift by 3 drops it.             *)
nvmlId(card) == PciId(card.bus, card.dev \div 8, 0)

sysfsId(card) == PciId(stoi10(card.bus), stoi10(card.dev), 0)

adlId(card) == PciId(card.bus, card.dev, 0)

(* map[uniqueId] = i, in order: a later device replaces an equal id.       *)
handleMap(ids) == FoldLeftDomain(LAMBDA m, i : Put(m, ids[i], i - 1), <<>>, ids)

-----------------------------------------------------------------------------
needs(coll, types) ==
    \E id \in DOMAIN coll :
        \/ "Cuda" \in types /\ coll[id].sub = "Cuda"
        \/ coll[id].sub = "OpenCL" /\ coll[id].clPlatformType \in types

(* Farm::Farm: the monitors the subscribed devices need, and the maps.     *)
createFarm ==
    /\ heat.phase = "farm"
    /\ \E nvmlh \in IF needs(heat.coll, {"Cuda", "Nvidia"}) THEN wrap_nvml_create(heat.mach) ELSE {noHandle} :
       \E amdh \in IF ~ needs(heat.coll, {"Amd"}) THEN {noHandle}
                   ELSE IF heat.mach.os = "linux" THEN {wrap_amdsysfs_create(heat.mach)}
                   ELSE wrap_adl_create(heat.mach) :
        heat' = [heat EXCEPT
            !.phase = "run", !.nvmlh = nvmlh, !.amdh = amdh,
            !.map_nvml_handle = handleMap([i \in DOMAIN nvmlh.cards |-> nvmlId(heat.mach.card[nvmlh.cards[i]])]),
            !.map_amd_handle = handleMap([i \in DOMAIN amdh.cards |->
                LET card == heat.mach.card[amdh.cards[i]]
                IN  IF heat.mach.os = "linux" THEN sysfsId(card) ELSE adlId(card)])]

Miners == Subscribed(heat.coll)

hwTypeOf(desc) ==
    CASE desc.sub = "Cuda" -> "NVIDIA"
      [] desc.sub = "OpenCL" /\ desc.clPlatformType = "Nvidia" -> "NVIDIA"
      [] desc.sub = "OpenCL" /\ desc.clPlatformType = "Amd" -> "AMD"
      [] OTHER -> "UNKNOWN"

(* initDevice's three stores; the io thread may read between them.         *)
initStore(id) ==
    /\ heat.phase = "run" /\ heat.miner[id].stores < 3
    /\ heat' = [heat EXCEPT !.miner[id] =
            [@ EXCEPT !.stores = @ + 1, !.collected = FALSE,
                !.deviceType = IF heat.miner[id].stores = 0 THEN hwTypeOf(heat.coll[id]) ELSE @,
                !.devicePciId = IF heat.miner[id].stores = 1 THEN id ELSE @,
                !.deviceIndex = IF heat.miner[id].stores = 2 THEN -1 ELSE @]]

(* Mutant: a reading below tempStop already resumes.                       *)
thresholdsNoGap(paused, tempC) == tempC >= tempStop

(* Farm::collectData's thresholds; tempC is 0 when nothing could be read.  *)
thresholds(paused, tempC) ==
    IF tempStop = 0 THEN paused
    ELSE IF ~ paused THEN tempC >= tempStop
    ELSE tempC > tempStart

(* The index is looked up once; -2 "will prevent further tries to map".    *)
deviceIndex(m, handles) ==
    IF m.deviceIndex = -1 /\ m.devicePciId # NoId
    THEN IF m.devicePciId \in DOMAIN handles THEN handles[m.devicePciId] ELSE -2
    ELSE m.deviceIndex

(* The get_tempC of the wrappers: an index the handle does not have, or a  *)
(* sensor that does not answer, leave tempC at 0; the sensors of AMD count *)
(* thousandths of a degree.                                                *)
reads(h, idx, ok) == h.open /\ ok /\ idx >= 0 /\ idx < Len(h.cards)

get_tempC(h, idx, ok) == IF reads(h, idx, ok) THEN heat.temp[h.cards[idx + 1]] \div 1000 ELSE 0

(* Farm::collectData, for one miner; a sensor may fail to answer.          *)
collectData(id) ==
    /\ heat.phase = "run"
    /\ \E ok \in BOOLEAN :
        LET m == heat.miner[id]
            h == IF m.deviceType = "NVIDIA" THEN heat.nvmlh ELSE IF m.deviceType = "AMD" THEN heat.amdh ELSE noHandle
            map == IF m.deviceType = "NVIDIA" THEN heat.map_nvml_handle ELSE heat.map_amd_handle
            idx == IF h.open THEN deviceIndex(m, map) ELSE m.deviceIndex
        IN  heat' = [heat EXCEPT !.miner[id] =
                [@ EXCEPT !.deviceIndex = idx, !.paused = thresholds(@, get_tempC(h, idx, ok)),
                          !.read = reads(h, idx, ok), !.collected = TRUE]]

(* The temperature of a card changes.                                      *)
warms(c) ==
    /\ heat.phase = "run"
    /\ \E t \in Temps \ {heat.temp[c]} :
        heat' = [heat EXCEPT !.temp[c] = t,
                    !.miner = [id \in Miners |-> [heat.miner[id] EXCEPT !.collected = FALSE]]]

Idle == [stores |-> 0, deviceType |-> "UNKNOWN", devicePciId |-> NoId, deviceIndex |-> -1,
         paused |-> FALSE, read |-> FALSE, collected |-> FALSE]

(* The devices as execute subscribes them.                                 *)
HeatInit ==
    \E mach \in Machines, type \in {"CL", "CUDA", "Mixed"} :
        LET s == subscribe(enumDevices(mach, type), type, <<>>, <<>>, <<>>)
        IN  /\ Subscribed(s.coll) # {}
            /\ heat = [phase |-> "farm", mach |-> mach, coll |-> s.coll,
                       nvmlh |-> noHandle, amdh |-> noHandle, map_nvml_handle |-> <<>>, map_amd_handle |-> <<>>,
                       miner |-> [id \in Subscribed(s.coll) |-> Idle],
                       temp |-> [c \in DOMAIN mach.card |-> CHOOSE t \in Temps : \A u \in Temps : t <= u]]

HeatNext ==
    \/ createFarm
    \/ \E id \in Miners : initStore(id) \/ collectData(id)
    \/ \E c \in DOMAIN heat.temp : warms(c)

-----------------------------------------------------------------------------
CardOf(id) == initDevice(heat.mach, heat.coll[id])

HandleOf(id) == IF hwTypeOf(heat.coll[id]) = "NVIDIA" THEN heat.nvmlh ELSE heat.amdh

(***************************************************************************)
(* The monitor's device that collectData reads for a miner is the card     *)
(* that miner opened, whatever order CUDA, OpenCL and the monitor list the *)
(* cards in and whenever it collects: "Build Pci identification mapping as *)
(* done in miners."                                                        *)
(***************************************************************************)
HwmonOfDevice ==
    \A id \in Miners : heat.miner[id].deviceIndex >= 0 =>
        HandleOf(id).cards[heat.miner[id].deviceIndex + 1] = CardOf(id)

(* Temperature control acts on the card's own heat: a collection that read *)
(* the sensor leaves the miner paused at tempStop and above, mining at     *)
(* tempStart and below, and as it was in between; one that could not read  *)
(* it never pauses.                                                        *)
HeatStep(id) ==
    LET m == heat.miner[id]
        n == heat'.miner[id]
        t == heat.temp[CardOf(id)] \div 1000
    IN  /\ m.paused # n.paused => n.collected
        /\ n.collected /\ ~ m.collected /\ n.read => n.paused = (t >= tempStop \/ (m.paused /\ t > tempStart))
        /\ ~ m.paused /\ n.paused => n.read

-----------------------------------------------------------------------------
(* Expectations the code does not meet (README, Deviations).               *)

(* Of --tstart: "Suspend mining on GPU which temperature is above this     *)
(* threshold" (main.cpp:1031-1033).                                        *)
SuspendsAboveTstart(id) ==
    LET n == heat'.miner[id]
    IN  n.collected /\ n.read /\ heat.temp[CardOf(id)] \div 1000 > tempStart => n.paused

(* Of --tstop: "Resume mining on previously overheated GPU when temp drops *)
(* below this threshold" (main.cpp:1037-1040): not when the sensor cannot  *)
(* be read.                                                                *)
ResumesWhenCool(id) == heat.miner[id].paused /\ ~ heat'.miner[id].paused => heat'.miner[id].read

(* "Build Pci identification as done in miners" (Farm.cpp:130): a card the *)
(* monitor lists is found.                                                 *)
MonitorFindsCard ==
    \A id \in Miners :
        heat.miner[id].deviceIndex = -2 => CardOf(id) \notin {HandleOf(id).cards[i] : i \in DOMAIN HandleOf(id).cards}
=============================================================================
