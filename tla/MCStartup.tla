------------------------------ MODULE MCStartup ------------------------------
(***************************************************************************)
(* The start of the program for TLC.  A behaviour is about one part: the   *)
(* command line and the devices (boot), the monitors of the devices (heat),*)
(* a pool's address (uri) or a block's bits (target); the variables of the *)
(* others stay off.                                                        *)
(***************************************************************************)
EXTENDS CommandLine, Hwmon, PoolURI, Targets

CONSTANTS none

VARIABLE family

off == [off |-> TRUE]

gpu(bus) == [bus |-> bus, dev |-> 0, kind |-> "gpu", readable |-> TRUE, cuOk |-> TRUE]

platform(type, version, cards) == [type |-> type, version |-> version, cards |-> cards]

drm(card, vendor, hwmon) == [card |-> card, vendor |-> vendor, hwmon |-> hwmon]

adapter(card, id, ok) == [card |-> card, id |-> id, ok |-> ok]

Bare == [card |-> <<>>, platforms |-> <<>>, cuda |-> <<>>, cpus |-> 2, os |-> "linux", nvml |-> <<>>, drm |-> <<>>,
         adl |-> <<>>]

(* Two NVIDIA and two AMD cards behind a platform that is passed over, an  *)
(* accelerator among them.                                                 *)
Rig == [Bare EXCEPT
    !.card = [n1 |-> gpu(1), n2 |-> [gpu(2) EXCEPT !.dev = 1], a1 |-> gpu(3), a2 |-> gpu(9),
              x |-> [gpu(4) EXCEPT !.kind = "accelerator"]],
    !.platforms = <<platform("Unknown", 12, <<"x">>), platform("Nvidia", 12, <<"n2", "n1">>),
                    platform("Amd", 20, <<"a2", "x", "a1">>)>>,
    !.cuda = <<"n1", "n2">>]

(* CUDA fails on one card, OpenCL does not tell the slot of another.       *)
Sick == [Rig EXCEPT !.card.n1.cuOk = FALSE, !.card.a1.readable = FALSE]

(* An OpenCL 1.1 platform beside Clover's.                                 *)
Old == [Rig EXCEPT !.platforms = <<platform("Clover", 11, <<"a1">>), platform("Amd", 11, <<"a2">>)>>, !.cuda = <<>>]

MCBoots == {Bare, Rig, Sick, Old}

(* Two cards each, listed in another order by the monitor; buses above 9   *)
(* but for sysfs (HexBuses).                                               *)
AmdLinux == [Bare EXCEPT
    !.card = [a1 |-> gpu(3), a2 |-> gpu(9)], !.platforms = <<platform("Amd", 20, <<"a1", "a2">>)>>,
    !.drm = <<drm("a2", 4098, TRUE), drm("intel", 32902, TRUE), drm("a1", 4098, TRUE)>>]

AmdNoHwmon == [AmdLinux EXCEPT !.drm = <<drm("a2", 4098, TRUE), drm("a1", 4098, FALSE)>>]

AmdWindows == [AmdLinux EXCEPT !.os = "windows", !.card.a1.bus = 10, !.card.a2.bus = 16,
    !.adl = <<adapter("a2", 7, TRUE), adapter("a2", 7, TRUE), adapter("a1", 5, FALSE), adapter("a1", 5, TRUE),
              adapter("a1", 5, TRUE)>>]

Nvidia == [Bare EXCEPT
    !.card = [n1 |-> gpu(10), n2 |-> [gpu(23) EXCEPT !.dev = 1]],
    !.platforms = <<platform("Nvidia", 12, <<"n2", "n1">>)>>, !.cuda = <<"n1", "n2">>, !.nvml = <<"n2", "n1">>]

MCMachines == {AmdLinux, AmdNoHwmon, AmdWindows, Nvidia}

(* Buses 0a and 10 (hexadecimal).                                          *)
HexBuses == {[AmdLinux EXCEPT !.card.a1.bus = 10, !.card.a2.bus = 16]}

-----------------------------------------------------------------------------
Args == [given |-> <<>>, flags |-> {}, bind |-> none, pools |-> <<"pool">>, devices |-> [cl |-> <<>>, cu |-> <<>>, cp |-> <<>>]]

FlagSets == {{}, {"opencl"}, {"cuda"}, {"cpu"}, {"opencl", "cuda"}, {"simulation"}, {"list_devices"}, {"help"}}

PoolLists == {<<>>, <<"pool">>, <<"pool", "exit">>, <<"exit", "pool">>, <<"pool", "bad">>}

DeviceLists ==
    {[cl |-> l, cu |-> u, cp |-> p] : l \in {<<>>, <<2>>, <<3, 9>>}, u \in {<<>>, <<0>>, <<1, 0>>}, p \in {<<>>, <<1>>}}

Givens == {[tstop |-> 60], [tstop |-> 60, tstart |-> 60], [tstop |-> 80, tstart |-> 60, HWMON |-> 2], [tstop |-> 101],
           [work_timeout |-> 180], [api_port |-> 3333], [api_port |-> 0]}

Binds == {none, [address |-> "any", port |-> -3333], [address |-> "any", port |-> 0],
          [address |-> "any", port |-> 65536], [address |-> "bad", port |-> 80]}

MCArgSets ==
    {[Args EXCEPT !.flags = f, !.pools = p, !.devices = d] : f \in FlagSets, p \in PoolLists, d \in DeviceLists}
        \cup {[Args EXCEPT !.given = g, !.bind = b] : g \in Givens, b \in Binds}

MCUri(text) == IF text = "bad" THEN "throw" ELSE "host"

(* Thousandths of a degree, at the edges of the thresholds.                *)
MCTemps == {50999, 74999, 75000}

MCNames == {<<>>, <<"u">>, <<"u", ".", "v">>, <<"u", ":", "v">>, <<"u", "@", "v">>, <<"u", "+", "v">>}
MCSchemes == {"stratum1+tcp", "ftp"}
(* A URL without a scheme, as "pool:4444".                                 *)
NoScheme == {""}

MCHosts == {"", "EXIT", "10.0.0.1", "[::1]"}
MCPorts == {-1, 65535, 65536}
MCPaths == {<<>>, <<"/", "p">>, <<"/", "p", "?", "q", "#", "f">>, <<"/", "p", "#", "f">>, <<"/", "p", "?", "q">>}

MCCompactSizes == 0..38
MCSamples ==
    {[i \in 0..7 |-> 0], [i \in 0..7 |-> IF i = 0 THEN 1 ELSE 0], [i \in 0..7 |-> IF i < 3 THEN 255 ELSE 0],
     [i \in 0..7 |-> IF i \in {0, 2} THEN 129 + i ELSE 0], [i \in 0..7 |-> IF i = 4 THEN 3 ELSE 0],
     [i \in 0..7 |-> IF i < 5 THEN 37 * i ELSE 0]}

(* All credentials with one address, all addresses with few credentials.   *)
Brief == \/ uri.text.scheme = "stratum1+tcp" /\ uri.text.host = "EXIT" /\ uri.text.port = 65535
         \/ uri.want.worker = <<>> /\ uri.want.pass = <<>>

-----------------------------------------------------------------------------
SInit ==
    /\ family \in {"boot", "heat", "uri", "target"}
    /\ IF family = "boot" THEN BootInit ELSE boot = off
    /\ IF family = "heat" THEN HeatInit ELSE heat = off
    /\ IF family = "uri" THEN URIInit /\ Brief ELSE uri = off
    /\ IF family = "target" THEN TargetInit ELSE target = off

SNext ==
    /\ UNCHANGED family
    /\ \/ family = "boot" /\ BootNext /\ UNCHANGED <<heat, uri, target>>
       \/ family = "heat" /\ HeatNext /\ UNCHANGED <<boot, uri, target>>
       \/ family = "uri" /\ URINext /\ UNCHANGED <<boot, heat, target>>
       \/ family = "target" /\ TargetNext /\ UNCHANGED <<boot, heat, uri>>

SSpec == SInit /\ [][SNext]_<<family, boot, heat, uri, target>>

-----------------------------------------------------------------------------
(* The properties of the parts, each in its family's behaviours.           *)

(* CommandLine, Devices: the program mines only when it is prepared to,    *)
(* every miner opens the card of its descriptor, and alone, and the user's *)
(* choice of devices and "CUDA first" are honoured.                        *)
BootPrepared == family = "boot" => MinesPrepared /\ OneMinerPerCard /\ SelectionHonoured

(* Hwmon: the sensor read for a miner is its card's.                       *)
HeatHwmonOfDevice == family = "heat" => HwmonOfDevice

(* Hwmon: a miner is paused and resumed by the heat of its own card.       *)
HeatControlled ==
    [][family = "heat" /\ heat.phase = "run" => \A id \in Miners : HeatStep(id)]_heat

(* PoolURI: host, port and path are those of the text, and back ticks and  *)
(* encoding convey any credentials.                                        *)
UriConveyed == family = "uri" => EndpointConveyed /\ CredentialsConveyed

(* PoolURI: an accepted URI has a host.                                    *)
UriHostPresent == family = "uri" => HostPresent

(* The expectations about the temperature thresholds that are not met.     *)
HelpSuspends == [][family = "heat" /\ heat.phase = "run" => \A id \in Miners : SuspendsAboveTstart(id)]_heat
HelpResumes == [][family = "heat" /\ heat.phase = "run" => \A id \in Miners : ResumesWhenCool(id)]_heat

(* The others that are not met, each in its family's behaviours.           *)
BootTstopBelowTstart == family = "boot" => TstopBelowTstart
HeatMonitorFindsCard == family = "heat" => MonitorFindsCard
UriTicksConvey == family = "uri" => TicksConvey

(* Targets: stratum and getwork expand a block's bits alike, the compact   *)
(* form loses nothing, its overflow flag is exact, and division inverts    *)
(* multiplication.                                                         *)
TargetsExact ==
    family = "target" => SameTarget /\ CompactRoundTrip /\ OverflowFlag /\ DivisionInverts

=============================================================================
