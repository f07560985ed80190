------------------------- MODULE MCSessionLifecycle -------------------------
(***************************************************************************)
(* SessionLifecycle for TLC: two endpoints at a time, any number one after *)
(* the other, on two instances, and two games: one to leave behind and one *)
(* to be in.  The instances are alike, so the first game is on the first.  *)
(***************************************************************************)
EXTENDS SessionLifecycle

CONSTANTS c1, c2, i1, i2

MCConns == {c1, c2}
MCInstances == {i1, i2}
MCHosts == <<{i1}, {i1, i2}>>
=============================================================================
