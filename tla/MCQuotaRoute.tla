---------------------------- MODULE MCQuotaRoute ----------------------------
(***************************************************************************)
(* Values for TLC.  Of a total of three, the amounts 3, 2, 1 and 0 are     *)
(* abundant, constrained, critical and exhausted; two ticks make a period, *)
(* so a cached prediction may expire before or after a reset; MaxSpent is  *)
(* the bound of OverdraftIsBounded without last resorts and one more, so   *)
(* TLC sees whether the bound is kept.                                     *)
(***************************************************************************)
EXTENDS QuotaRoute
=============================================================================
