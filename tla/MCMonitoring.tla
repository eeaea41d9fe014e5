----------------------------- MODULE MCMonitoring -----------------------------
(* Instances of Monitoring for TLC. *)
EXTENDS MonitorLease, TLC

(* Monitor ids are interchangeable; workers are when all may be late. *)
MonitorSymmetry == Permutations(Monitor)
MonitorAndWorkerSymmetry == Permutations(Monitor) \cup Permutations(Worker)
===============================================================================
