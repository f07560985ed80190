---------------------------- MODULE MCGameEngine ----------------------------
(* GameEngine for TLC: two disconnect timers, and a board of three by      *)
(* three, which the three cells that players choose fill in any order:     *)
(* every cell is next to one of them and <<2, 1>> to two.                  *)
EXTENDS GameEngine

CONSTANTS t1, t2

ThreeCells == {<<0, 1>>, <<2, 0>>, <<2, 2>>}
TwoTimers == {t1, t2}
=============================================================================
