------------------------------ MODULE MCService ------------------------------
(* The parts of a running service that do not call one another, checked in    *)
(* one run: `part`, chosen once, is the one that runs. The others stay where  *)
(* nothing is fair: not started, or over.                                     *)
EXTENDS Supervisor, BootLock, IdlePollGate, SecretStore

VARIABLE part

serviceVars == <<part, supervisorVars, bootVars, gateVars, secretVars>>

Parts == {"supervisor", "boot", "gate", "secrets"}

ServiceInit ==
  /\ part \in Parts
  /\ SupervisorInit /\ SecretInit
  /\ IF part = "boot" THEN BootInit ELSE BootInitAt("ended")
  /\ IF part = "gate" THEN GateInit ELSE GateInitAt("exited")
  /\ part # "supervisor" => entry = "run"
  /\ part # "secrets" => active = [n \in Names |-> 0] /\ denied = {} /\ node = "none"

ServiceNext ==
  /\ UNCHANGED part
  /\ \/ /\ part = "supervisor" /\ SupervisorNext
        /\ UNCHANGED <<bootVars, gateVars, secretVars>>
     \/ /\ part = "boot" /\ BootNext
        /\ UNCHANGED <<supervisorVars, gateVars, secretVars>>
     \/ /\ part = "gate" /\ GateNext
        /\ UNCHANGED <<supervisorVars, bootVars, secretVars>>
     \/ /\ part = "secrets" /\ SecretNext
        /\ UNCHANGED <<supervisorVars, bootVars, gateVars>>

ServiceFairness ==
  SupervisorFairness /\ BootFairness /\ GateFairness /\ SecretFairness

ServiceSpec == ServiceInit /\ [][ServiceNext]_serviceVars /\ ServiceFairness

\* Every part keeps its types; instances migrate one at a time, whichever connections
\* of their pools lock and unlock; and no path through job_worker loses a permit.
ServiceInvariant ==
  /\ part \in Parts
  /\ SupervisorTypeOK /\ BootTypeOK /\ GateTypeOK /\ SecretTypeOK
  /\ MigratesAlone /\ PermitsConserved
=============================================================================
