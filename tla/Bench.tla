-------------------------------- MODULE Bench --------------------------------
(***************************************************************************)
(* The tools around the controller.  Each runs alone, with the powered     *)
(* controller stopped, so a behaviour is one tool: "bench" says which, and *)
(* the state of the others stays what it is.                               *)
(***************************************************************************)
EXTENDS Probes, DriveCommissioning, SafetySupervisor, HardwareContract

VARIABLE bench

benchVars == <<bench, probeVars, commissioningVars, supervisorVars, contractVars>>

NoProbe ==
  /\ tool = "none" /\ flags = {} /\ link = "none" /\ clock = 0 /\ drive = <<>> /\ since = <<>>
  /\ queue = <<>> /\ odd = <<>> /\ loop = Locals /\ shadow = NoShadow /\ burst = 0 /\ result = "none"

NoCommissioning ==
  /\ script = "none" /\ gate = {} /\ at = {} /\ pending = <<>> /\ received = <<>> /\ strange = 0
  /\ wrong = NoValue /\ values = Nothing /\ contract = Nothing /\ status = <<>>
  /\ stored = {} /\ verified = {} /\ outcome = "none"

NoSupervisor ==
  /\ driver = "none" /\ mode = "none" /\ stateAge = 0 /\ commandAge = 0 /\ overrun = FALSE
  /\ unhealthy = {} /\ bank = <<>> /\ latched = {} /\ permitted = FALSE /\ substep = 0 /\ uncleared = {}

NoContract ==
  /\ sheet = <<>> /\ derived = 0 /\ native = <<>> /\ runtime = NoRuntime /\ goal = NoGoal
  /\ stateTick = 0 /\ frame = NoFrame

Init ==
  \/ bench = "probe" /\ ProbeInit /\ NoCommissioning /\ NoSupervisor /\ NoContract
  \/ bench = "commissioning" /\ CommissioningInit /\ NoProbe /\ NoSupervisor /\ NoContract
  \/ bench = "supervisor" /\ SupervisorInit /\ NoProbe /\ NoCommissioning /\ NoContract
  \/ bench = "contract" /\ ContractInit /\ NoProbe /\ NoCommissioning /\ NoSupervisor

Next ==
  /\ UNCHANGED bench
  /\ \/ bench = "probe" /\ ProbeNext /\ UNCHANGED <<commissioningVars, supervisorVars, contractVars>>
     \/ bench = "commissioning" /\ CommissioningNext /\ UNCHANGED <<probeVars, supervisorVars, contractVars>>
     \/ bench = "supervisor" /\ SupervisorNext /\ UNCHANGED <<probeVars, commissioningVars, contractVars>>
     \/ bench = "contract" /\ ContractNext /\ UNCHANGED <<probeVars, commissioningVars, supervisorVars>>

Spec == Init /\ [][Next]_benchVars
==============================================================================
