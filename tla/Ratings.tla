------------------------------ MODULE Ratings ------------------------------
(***************************************************************************)
(* What one result does to the row of a player: the rating change          *)
(* (app/core/game_engine.py, _calculate_elo_changes) and the counters      *)
(* (app/persistence/repositories.py, update_elo) as pure operators.        *)
(*                                                                         *)
(* A pair is in the order in which the matchmaker's script returns it.     *)
(***************************************************************************)
EXTENDS Integers, FiniteSets

CONSTANTS Players,   \* ranks of the ids: they break ties of the sorted set
          NoPlayer,  \* winner_id None
          Elo,       \* the rating a player's session carries into the queue
          Start,     \* elo_rating of a new row
          Points     \* round(32 * (actual - expected)), see below

Outcomes == {"win", "loss", "draw"}

\* The rating differences that occur, own minus opponent's.
Diffs == {Elo[p] - Elo[q] : p, q \in Players}

\* The formula at the differences that occur.
ASSUME RatingAssumption ==
    /\ Players \subseteq Nat
    /\ NoPlayer \notin Players
    /\ Elo \in [Players -> Nat]
    /\ Start \in Nat
    /\ Points \in [Outcomes -> [Diffs -> Int]]

\* The order of the sorted set, in which the script names a pair.
Before(p, q) == Elo[p] < Elo[q] \/ (Elo[p] = Elo[q] /\ p < q)
Pairs == {x \in Players \X Players : Before(x[1], x[2])}

Members(x) == {x[1], x[2]}

\* Variant: the other player's place, not the other player.
OpponentSeat(p, x) == IF p = x[1] THEN 2 ELSE 1

Opponent(p, x) == IF p = x[1] THEN x[2] ELSE x[1]

\* The possible winners of a game.
Winners(x) == Members(x) \cup {NoPlayer}

Outcome(p, w) ==
    IF w = NoPlayer THEN "draw" ELSE IF w = p THEN "win" ELSE "loss"

Delta(p, x, w) == Points[Outcome(p, w)][Elo[p] - Elo[Opponent(p, x)]]

----------------------------------------------------------------------------
Row == [rating : Int, played : Nat, won : Nat, lost : Nat, drawn : Nat]
NewRow == [rating |-> Start, played |-> 0, won |-> 0, lost |-> 0, drawn |-> 0]

One(b) == IF b THEN 1 ELSE 0

\* The row of p after the game x that w has won: the counters count on, the
\* rating is replaced by the one at match time plus the delta.
After(row, p, x, w) ==
    [rating |-> Elo[p] + Delta(p, x, w),
     played |-> row.played + 1,
     won    |-> row.won + One(Outcome(p, w) = "win"),
     lost   |-> row.lost + One(Outcome(p, w) = "loss"),
     drawn  |-> row.drawn + One(Outcome(p, w) = "draw")]
=============================================================================
