------------------------ MODULE ManagedProcessesDocs ------------------------
(***************************************************************************)
(* What the descriptions of the process tools say of ManagedProcesses.     *)
(***************************************************************************)
EXTENDS MCManagedProcesses

(* tools/process/process-tools.ts:34, of start_process: "The Runtime       *)
(* allocates a free port when port is auto".  Two supervisors that are     *)
(* alive at the same time were given different ports.                      *)
AllocatedPortsAreFree ==
    \A p, q \in Call : p # q /\ Alive(p) /\ Alive(q) => port[p] # port[q]

(* tools/process/process-tools.ts:144, of stop_process: "It is safe and    *)
(* idempotent".  Once a stop has answered that the process is stopped,     *)
(* another stop does not turn the record into one that was lost.           *)
StopIsIdempotent ==
    [][\A k \in Stopper :
         stop[k].stage = "returned" /\ registry[stop[k].call] = "stopped"
         => registry'[stop[k].call] # "unknown"]_vars
=============================================================================
