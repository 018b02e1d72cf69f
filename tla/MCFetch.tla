------------------------------- MODULE MCFetch -------------------------------
(***************************************************************************)
(* Fetch for TLC: two jobs per typed group, one built-in dynamic job and   *)
(* two custom resources of which one is related to the target.             *)
(***************************************************************************)
EXTENDS Fetch

CONSTANTS c1, c2, e1, e2, b1, x1, x2

MCCore == {c1, c2}
MCExtended == {e1, e2}
MCBuiltinDynamic == {b1}
MCCustom == {x1, x2}
MCRelated == {x1}
MCJobs == MCCore \cup MCExtended \cup MCBuiltinDynamic \cup MCCustom
=============================================================================
