------------------------------ MODULE Services ------------------------------
(***************************************************************************)
(* The services beside the voice loop: the clock boost, the worker pool,   *)
(* the realtime session and the ledger of its seconds.  They share no      *)
(* variable, so an interleaving of two of them shows nothing that the two  *)
(* do not show alone: a behaviour picks one component and runs it.         *)
(***************************************************************************)
EXTENDS PerfGovernor, TaskPool, RealtimeLedger, RealtimeClient

VARIABLE part  (* the component that runs *)

vars == <<perfVars, poolVars, ledgerVars, clientVars, part>>

Parts == {"perf", "pool", "ledger", "client"}

Perf(A) == part = "perf" /\ A /\ UNCHANGED <<poolVars, ledgerVars, clientVars, part>>
Pool(A) == part = "pool" /\ A /\ UNCHANGED <<perfVars, ledgerVars, clientVars, part>>
Ledger(A) == part = "ledger" /\ A /\ UNCHANGED <<perfVars, poolVars, clientVars, part>>
Client(A) == part = "client" /\ A /\ UNCHANGED <<perfVars, poolVars, ledgerVars, part>>

Init == PerfInit /\ PoolInit /\ LedgerInit /\ ClientInit /\ part \in Parts

Next == Perf(PerfNext) \/ Pool(PoolNext) \/ Ledger(LedgerNext) \/ Client(ClientNext)

Spec == Init /\ [][Next]_vars

(* The fairness of FairPerfSpec, FairPoolSpec and FairClientSpec, asked of *)
(* the component that runs: another one is never enabled here.             *)
FairSpec ==
  /\ Spec
  /\ WF_perfVars(part = "perf" /\ Work) /\ WF_perfVars(part = "perf" /\ Watchdog)
  /\ WF_poolVars(part = "pool" /\ Notify)
  /\ \A w \in Workers : WF_poolVars(part = "pool" /\ WorkerStep(w))
  /\ WF_clientVars(part = "client" /\ CaptureStep)
  /\ WF_clientVars(part = "client" /\ ReaderOwnStep)
  /\ WF_clientVars(part = "client" /\ GoesIdle)
  /\ WF_clientVars(part = "client" /\ RoomQuiets)

-----------------------------------------------------------------------------
(* The types and the inductive invariants that the proofs rest on.         *)
ServicesInv ==
  /\ PerfTypeOK /\ PerfInv
  /\ PoolTypeOK /\ PoolInv
  /\ LedgerTypeOK /\ LedgerInv
  /\ ClientInv
=============================================================================
