---------------------------- MODULE MCListJobs ----------------------------
(***************************************************************************)
(* ListJobs for TLC: two required and two optional jobs for two slots.     *)
(***************************************************************************)
EXTENDS ListJobs

CONSTANTS r1, r2, o1, o2

MCJobs == {r1, r2, o1, o2}
MCRequired == {r1, r2}
=============================================================================
