--------------------------- MODULE MCMatchmaking ---------------------------
(* Matchmaking for TLC: ratings in hundreds.  Players 1 and 2 match at     *)
(* once, most pairs after some waiting, and 1 and 4 never.                 *)
EXTENDS Matchmaking

CONSTANTS i1, i2, r1, r2

MCInstances == {i1, i2}
MCRooms == {r1, r2}
MCPlayers == 1..4
MCElo == <<10, 11, 14, 16>>
MCFinds == <<1, 2, 1, 1>>
=============================================================================
