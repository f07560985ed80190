---------------------------- MODULE MCAfterGame ----------------------------
(* AfterGame for TLC: two games among three players, the first one between *)
(* 1 and 2.  The third player is rated higher than the others; the points  *)
(* are those of K = 32.                                                    *)
EXTENDS AfterGame

MCGames == {1, 2}
MCTasks == MCGames \X OverTasks
MCPlayers == 1..3
MCFixtures == <<{<<1, 2>>}, {<<1, 2>>, <<1, 3>>, <<2, 3>>}>>
MCTimers == <<2, 1>>
MCElo == <<1000, 1000, 1200>>
MCPoints ==
    [win  |-> [d \in {-200, 0, 200} |-> IF d < 0 THEN 24 ELSE IF d = 0 THEN 16 ELSE 8],
     loss |-> [d \in {-200, 0, 200} |-> IF d < 0 THEN -8 ELSE IF d = 0 THEN -16 ELSE -24],
     draw |-> [d \in {-200, 0, 200} |-> IF d < 0 THEN 8 ELSE IF d = 0 THEN 0 ELSE -8]]
=============================================================================
