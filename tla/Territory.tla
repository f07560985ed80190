----------------------------- MODULE Territory -----------------------------
(***************************************************************************)
(* The rules of the territory game (app/core/game_engine.py): what placing *)
(* a piece claims, when the board ends the game and who leads.             *)
(* A cell is a pair <<x, y>>; a board gives each cell the number of the    *)
(* seat that owns it, or 0.  A seat is a player's position in player_ids   *)
(* plus one, which is the number the code writes on the board.             *)
(***************************************************************************)
EXTENDS Integers, FiniteSets

CONSTANTS Size,     \* BOARD_SIZE
          MaxTurns  \* MAX_TURNS

\* utils/constants.py has 10 and 100: the cap is not below the cell count.
ASSUME TerritoryAssumption ==
    /\ Size \in Nat \ {0}
    /\ MaxTurns \in Nat
    /\ MaxTurns >= Size * Size

Seats == 1..2
Other(s) == 3 - s
Empty == 0
NoSeat == 0   \* winner_id None: no winner yet, or a draw

Cells == (0 .. Size - 1) \X (0 .. Size - 1)
Boards == [Cells -> Seats \cup {Empty}]

EmptyBoard == [c \in Cells |-> Empty]

\* The four cells next to c that are on the board.
Neighbours(c) ==
    {<<c[1] - 1, c[2]>>, <<c[1] + 1, c[2]>>, <<c[1], c[2] - 1>>, <<c[1], c[2] + 1>>}
        \cap Cells

\* The cells a piece on c claims: c, and its empty neighbours.
Claimed(board, c) == {c} \cup {d \in Neighbours(c) : board[d] = Empty}

\* Variant: claims the neighbours whoever owns them.
ClaimedTakesOver(board, c) == {c} \cup Neighbours(c)

PlaceOverwriting(board, s, c) ==
    [d \in Cells |-> IF d \in ClaimedTakesOver(board, c) THEN s ELSE board[d]]

\* The board after seat s puts a piece on c.
Place(board, s, c) ==
    [d \in Cells |-> IF d \in Claimed(board, c) THEN s ELSE board[d]]

\* The cells of seat s.
Owned(board, s) == {c \in Cells : board[c] = s}

BoardFull(board) == Owned(board, Empty) = {}

\* Variant: the owner of the most cells loses.
LeaderSwapped(scores) ==
    CASE scores[1] > scores[2] -> 2
      [] scores[2] > scores[1] -> 1
      [] OTHER                 -> NoSeat

\* _determine_winner: a tie is a draw, winner_id None.
Leader(scores) ==
    CASE scores[1] > scores[2] -> 1
      [] scores[2] > scores[1] -> 2
      [] OTHER                 -> NoSeat
=============================================================================
