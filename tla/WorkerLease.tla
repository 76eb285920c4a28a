----------------------------- MODULE WorkerLease -----------------------------
(***************************************************************************)
(* The lease under which a periodic job of the worker runs (one row of     *)
(* worker_leases) and the tick that takes it, runs the job and gives it    *)
(* back.  Models worker-lease.ts and the tick of periodic.ts.              *)
(*                                                                         *)
(* The row's time to live is abstracted to whether it has run out.  It     *)
(* runs out under a worker that is still renewing only when the renewals   *)
(* are late: one of the Faults.  A holder is named by its worker, which    *)
(* runs a job at most once at a time.                                      *)
(***************************************************************************)
EXTENDS Naturals

CONSTANTS
    Workers,
    MaxFaults,      \* bound on late renewals, unreachable databases and crashes
    NoWorker

ASSUME LeaseBounds == MaxFaults \in Nat /\ NoWorker \notin Workers

VARIABLES
    lease,      \* the row: its holder, and whether it is live
    held,       \* what each worker believes: HeldLease.isHeld
    faults      \* how many of the faults have happened

leaseVars == <<lease, held, faults>>

LeaseTypeOK ==
    /\ lease \in [holder : Workers \cup {NoWorker}, live : {"no", "yes"}]
    /\ held \in [Workers -> {"no", "yes"}]
    /\ faults \in 0 .. MaxFaults

LeaseInit ==
    /\ lease = [holder |-> NoWorker, live |-> "no"]
    /\ held = [w \in Workers |-> "no"]
    /\ faults = 0

Fault == faults < MaxFaults /\ faults' = faults + 1

(* tryAcquire: insert the row or take over one that has run out. *)
Acquire(w) ==
    /\ lease.live = "no"
    /\ lease' = [holder |-> w, live |-> "yes"]
    /\ held' = [held EXCEPT ![w] = "yes"]
    /\ UNCHANGED faults

(* The row runs out: nobody renews it any more, or not in time. *)
RunsOut ==
    /\ lease.live = "yes"
    /\ lease' = [lease EXCEPT !.live = "no"]
    /\ IF held[lease.holder] = "yes" THEN Fault ELSE UNCHANGED faults
    /\ UNCHANGED held

(* A renewal that finds the row taken or run out, or does not reach it; a   *)
(* release that does not reach the row leaves it like this too.             *)
Lose(w) ==
    /\ held[w] = "yes"
    /\ held' = [held EXCEPT ![w] = "no"]
    /\ IF lease = [holder |-> w, live |-> "yes"] THEN Fault ELSE UNCHANGED faults
    /\ UNCHANGED lease

(* release: only a lease this worker still believes in, and in the row only *)
(* its own.                                                                 *)
Release(w) ==
    /\ held' = [held EXCEPT ![w] = "no"]
    /\ lease' = IF held[w] = "yes" /\ lease.holder = w
                THEN [lease EXCEPT !.live = "no"] ELSE lease
    /\ UNCHANGED faults

(* The process dies: its lease stays until it runs out. *)
Die(w) ==
    /\ Fault
    /\ held' = [held EXCEPT ![w] = "no"]
    /\ UNCHANGED lease
=============================================================================
