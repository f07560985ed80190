------------------------ MODULE MCConnectionManager ------------------------
(* ConnectionManager for TLC: three sockets of one player, so that two can *)
(* race to replace a third, and two rooms to move between.                 *)
EXTENDS ConnectionManager

CONSTANTS p1, c1, c2, c3, r1, r2

MCPlayers == {p1}
MCConns == {c1, c2, c3}
MCRooms == {r1, r2}
MCPlayerOf == [c \in MCConns |-> p1]
=============================================================================
