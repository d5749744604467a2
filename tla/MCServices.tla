------------------------------ MODULE MCServices ------------------------------
(*****************************************************************************)
(* Services of the server, in one run: a behaviour is one of a single part,  *)
(* with the others at rest. The parts are the dispatch of the remote         *)
(* manager, with registrations renamed and revoked; its enrollment and       *)
(* registry file; the threads of the agent bridge; and the audit log.        *)
(*****************************************************************************)
EXTENDS MCRemoteDispatch, RemoteEnrollment, AgentWorkers, AuditLog

VARIABLE which

\* The parts share their model values, so that one permutation serves them all.
Symmetries == UNION {Permutations(S) : S \in {Names, Regs, Jobs, Invites}}

ServicesInit ==
  /\ Init /\ EnrollInit /\ AgentInit /\ AuditInit
  /\ which \in {"dispatch", "enrollment", "agents", "audit"}

ServicesNext ==
  \/ which = "dispatch" /\ AdminNext
     /\ UNCHANGED <<enrollVars, awVars, auVars, which>>
  \/ which = "enrollment" /\ EnrollNext
     /\ UNCHANGED <<vars, awVars, auVars, which>>
  \/ which = "agents" /\ AgentNext
     /\ UNCHANGED <<vars, enrollVars, auVars, which>>
  \/ which = "audit" /\ AuditNext
     /\ UNCHANGED <<vars, enrollVars, awVars, which>>

ServicesSpec ==
  ServicesInit /\ [][ServicesNext]_<<vars, enrollVars, awVars, auVars, which>>
================================================================================
