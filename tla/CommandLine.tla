----------------------------- MODULE CommandLine -----------------------------
(***************************************************************************)
(* firominer/main.cpp: from the arguments of the program to the running    *)
(* miner or to an exit code.  The arguments are a record with              *)
(*   given    : the ranged options given, a function from name to value    *)
(*   flags    : the flags given                                            *)
(*   bind     : the --api-bind text, [address, port] or NoBind             *)
(*   pools    : the -P list, of "exit" and of texts Uri classifies         *)
(*   devices  : [cl, cu, cp], the index lists                              *)
(* The exit code is the one of the handler in main() for the exception;    *)
(* the parser of the CLI11 library throws its own runtime_error.           *)
(***************************************************************************)
EXTENDS Devices

CONSTANTS
    ArgSets,     (* the argument records tried                              *)
    Boots,       (* the machines tried (see Devices)                        *)
    Uri(_),      (* what the URI constructor makes of a text: "host",       *)
                 (*   "empty" (a connection without a host) or "throw"      *)
    NoBind

VARIABLE boot

(* CLI::Range and CLI::add_set of the options; a set is a range here.      *)
OptionValues ==
    [ergodicity |-> 0..2, verbosity |-> 0..3, farm_recheck |-> 1..99999, farm_retries |-> 0..99999,
     work_timeout |-> 100000..1000000, response_timeout |-> 2..999, display_interval |-> 1..1800,
     HWMON |-> 0..2, failover_timeout |-> 0..999, api_port |-> -65535..65535,
     cl_local_work |-> {64, 128, 256}, cu_grid_size |-> 1..131072, cu_block_size |-> {32, 64, 128, 256, 512},
     cu_parallel_hash |-> {1, 2, 4, 8}, cu_streams |-> 1..99, dag_load_mode |-> 0..1,
     tstop |-> 30..100, tstart |-> 30..100]

(* MinerCLI::ParseBind with negative ports allowed (read only).            *)
ParseBind(bind) ==
    /\ bind.address # "bad"
    /\ bind.port # 0 /\ bind.port >= -65535 /\ bind.port <= 65535

(* app.parse: every option in its range, the bind address valid.           *)
parses(args) ==
    /\ \A o \in DOMAIN args.given : args.given[o] \in OptionValues[o]
    /\ args.bind = NoBind \/ ParseBind(args.bind)

Given(args, o, default) == IF o \in DOMAIN args.given THEN args.given[o] ELSE default

(* -G before -U before --cpu; none of them: both kinds of GPU.             *)
minerTypeOf(args) ==
    CASE "opencl" \in args.flags -> "CL"
      [] "opencl" \notin args.flags /\ "cuda" \in args.flags -> "CUDA"
      [] "opencl" \notin args.flags /\ "cuda" \notin args.flags /\ "cpu" \in args.flags -> "CPU"
      [] OTHER -> "Mixed"

Exit(code) == boot' = [boot EXCEPT !.phase = "exit", !.code = code]

-----------------------------------------------------------------------------
(* main: no arguments at all.                                              *)
noArguments ==
    /\ boot.phase = "main" /\ boot.args = <<>>
    /\ Exit(1)

(* validateArgs: the parser, then the flags that only print.               *)
parseArgs ==
    /\ boot.phase = "main" /\ boot.args # <<>>
    /\ IF ~ parses(boot.args) THEN Exit(2)
       ELSE IF boot.args.flags \cap {"help", "help_ext", "version"} # {} THEN Exit(0)
       ELSE boot' = [boot EXCEPT !.phase = "pools", !.minerType = minerTypeOf(boot.args),
                        !.mode = IF "simulation" \in boot.args.flags THEN "Simulation" ELSE "Mining",
                        !.connections = IF "simulation" \in boot.args.flags THEN <<"localhost">> ELSE <<>>,
                        !.hwMon = Given(boot.args, "HWMON", 0), !.tempStop = Given(boot.args, "tstop", 0),
                        !.tempStart = Given(boot.args, "tstart", 40),
                        !.api_port = IF boot.args.bind # NoBind /\ "api_port" \notin DOMAIN boot.args.given
                                     THEN boot.args.bind.port ELSE Given(boot.args, "api_port", 0)]

(* The pools need not be given for a simulation or a list of devices.      *)
needsPools == "list_devices" \notin boot.args.flags /\ boot.mode # "Simulation"

addPool ==
    /\ boot.phase = "pools" /\ needsPools /\ boot.args.pools # <<>>
    /\ boot.i <= Len(boot.args.pools)
    /\ LET url == boot.args.pools[boot.i]
       IN  IF url = "exit" /\ boot.i = 1 THEN Exit(1)
           ELSE IF url # "exit" /\ Uri(url) = "throw" THEN Exit(2)
           ELSE boot' = [boot EXCEPT !.i = @ + 1,
                    !.connections = Append(@, IF url = "exit" THEN "exit" ELSE Uri(url))]

(* The rest of validateArgs.                                               *)
settings ==
    /\ boot.phase = "pools"
    /\ ~ needsPools \/ boot.i > Len(boot.args.pools)
    /\ IF \/ needsPools /\ boot.args.pools = <<>>
          \/ boot.tempStop # 0 /\ boot.tempStop <= boot.tempStart
       THEN Exit(1)
       ELSE boot' = [boot EXCEPT !.phase = "enum", !.hwMon = IF boot.tempStop # 0 /\ @ = 0 THEN 1 ELSE @]

-----------------------------------------------------------------------------
(* execute                                                                 *)
enumerate ==
    /\ boot.phase = "enum"
    /\ LET coll == enumDevices(boot.mach, boot.minerType)
       IN  IF DOMAIN coll = {} THEN Exit(2)
           ELSE IF "list_devices" \in boot.args.flags THEN Exit(0)
           ELSE boot' = [boot EXCEPT !.phase = "subscribe", !.coll = coll]

subscribeDevices ==
    /\ boot.phase = "subscribe"
    /\ LET d == boot.args.devices
           s == subscribe(boot.coll, boot.minerType, d.cu, d.cl, d.cp)
       IN  IF s.error \/ Subscribed(s.coll) = {} THEN Exit(2)
           ELSE boot' = [boot EXCEPT !.phase = "start", !.coll = s.coll, !.running = TRUE]

(* The farm, the pool manager, doMiner: the API server starts for a port   *)
(* other than 0.  Then every miner's thread opens its device.              *)
doMiner ==
    /\ boot.phase = "start"
    /\ boot' = [boot EXCEPT !.phase = "mine", !.api = (boot.api_port # 0)]

openDevice(id) ==
    /\ boot.phase = "mine" /\ boot.coll[id].sub # "None" /\ id \notin DOMAIN boot.opened \cup boot.failed
    /\ LET card == initDevice(boot.mach, boot.coll[id])
       IN  IF card = "terminate" THEN boot' = [boot EXCEPT !.phase = "terminated"]
           ELSE IF card = "false" THEN boot' = [boot EXCEPT !.failed = @ \cup {id}]
           ELSE boot' = [boot EXCEPT !.opened = Put(@, id, card)]

(* A call of the driver fails: this device does not mine, the others do.   *)
openFails(id) ==
    /\ boot.phase = "mine" /\ boot.coll[id].sub \in {"Cuda", "OpenCL"}
    /\ id \notin DOMAIN boot.opened \cup boot.failed
    /\ boot' = [boot EXCEPT !.failed = @ \cup {id}]

(* A signal ends doMiner's wait; api and pool manager are stopped.         *)
signalled ==
    /\ boot.phase = "mine"
    /\ Exit(0)

BootInit ==
    \E args \in ArgSets \cup {<<>>}, mach \in Boots :
        boot = [phase |-> "main", args |-> args, mach |-> mach, code |-> -1, minerType |-> "Mixed", mode |-> "None",
                connections |-> <<>>, i |-> 1, hwMon |-> 0, tempStop |-> 0, tempStart |-> 40, api_port |-> 0,
                coll |-> <<>>, running |-> FALSE, api |-> FALSE, opened |-> <<>>, failed |-> {}]

BootNext ==
    \/ noArguments \/ parseArgs \/ addPool \/ settings \/ enumerate \/ subscribeDevices \/ doMiner \/ signalled
    \/ \E id \in DOMAIN boot.coll : openDevice(id) \/ openFails(id)

-----------------------------------------------------------------------------
Readable == \A c \in DOMAIN boot.mach.card : boot.mach.card[c].readable

Mining == boot.phase \in {"start", "mine"}

(***************************************************************************)
(* The program mines only with a connection the pool manager can start     *)
(* with (never the "exit" directive first), with a device, and with a      *)
(* temperature control that is consistent and monitored.                   *)
(***************************************************************************)
MinesPrepared ==
    Mining =>
        /\ boot.connections # <<>> /\ Head(boot.connections) # "exit"
        /\ Subscribed(boot.coll) # {}
        /\ boot.tempStop # 0 => boot.hwMon > 0 /\ boot.tempStart < boot.tempStop

(***************************************************************************)
(* No card is driven by two miners, and a miner opens the card whose PCI   *)
(* id its descriptor has: the platforms passed over, the accelerators      *)
(* counted and the different orders of OpenCL and CUDA cancel out, for     *)
(* machines whose drivers tell the slots.                                  *)
(***************************************************************************)
OneMinerPerCard ==
    Readable => \A a, b \in DOMAIN boot.opened :
        /\ boot.coll[a].sub # "Cpu" =>
                PciId(boot.mach.card[boot.opened[a]].bus, boot.mach.card[boot.opened[a]].dev, 0) = a
        /\ a # b /\ boot.coll[a].sub # "Cpu" => boot.opened[a] # boot.opened[b]

(***************************************************************************)
(* A device is subscribed for a kind it was detected by; CUDA has priority *)
(* ("Use CUDA first when available then, as second, OpenCL"); a list given *)
(* for the kind is the exact set of that kind's subscriptions.             *)
(***************************************************************************)
SelectionHonoured ==
    Mining =>
        LET coll == boot.coll
            listed(s) == {nth(coll, s[i]) : i \in {k \in 1..Len(s) : s[k] < Cardinality(DOMAIN coll)}}
            of(kind) == {id \in DOMAIN coll : coll[id].sub = kind}
            d == boot.args.devices
        IN  /\ \A id \in of("Cuda") : coll[id].cuDetected
            /\ \A id \in of("OpenCL") : coll[id].clDetected
            /\ boot.minerType \in {"CUDA", "Mixed"} /\ d.cu # <<>> => of("Cuda") = listed(d.cu)
            /\ boot.minerType \in {"CL", "Mixed"} /\ d.cl # <<>> => of("OpenCL") = listed(d.cl)
            /\ boot.minerType = "Mixed" /\ d.cu = <<>> =>
                    \A id \in DOMAIN coll : coll[id].cuDetected => coll[id].sub = "Cuda" \/ id \in listed(d.cl)

-----------------------------------------------------------------------------
(* Expectations the code does not meet (README, Deviations).               *)

(* Of --tstop: "Must be lower than --tstart" (main.cpp:1041).              *)
TstopBelowTstart == Mining /\ boot.tempStop # 0 => boot.tempStop < boot.tempStart
=============================================================================
