---------------------------- MODULE MCReserveCover ----------------------------
(* Every game on a few identities and jobs, for TLC.                       *)
EXTENDS ReserveCover

CONSTANTS MaxNeed, MaxAllowance

MCGames == [compat: [Identities -> SUBSET Jobs],
            need: [Jobs -> 1..MaxNeed],
            allowance: 0..MaxAllowance]
===============================================================================
