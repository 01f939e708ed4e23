---------------------------- MODULE MCReportJobs ----------------------------
(* ReportJobs for TLC. *)
EXTENDS ReportJobs, TLC

(* Jobs are interchangeable; only used without liveness. *)
Symmetry == Permutations(Jobs)

=============================================================================
