--------------------------- MODULE TerritoryGame ---------------------------
(***************************************************************************)
(* What a game promises its players (docstrings of app/core/game_engine.py *)
(* and of handle_player_disconnect): "Two players take turns placing pieces *)
(* on a grid", "the player with more territory when the board is full      *)
(* wins", and a player who leaves either comes back or forfeits.  There    *)
(* are no timers, connections, turn counts or clean-up here: only what the *)
(* players see happen, one thing after the other.  The grid and its rules  *)
(* are parameters.                                                         *)
(***************************************************************************)

CONSTANTS Cells, First, Second, Nobody,
          Start,              \* the empty board
          MayPlace(_, _),     \* is this cell of this board free?
          Placed(_, _, _),    \* the board after a seat has placed a piece
          Full(_),            \* does this board end the game?
          MoreTerritory(_)    \* the seat with more territory on this board

VARIABLES
    board,
    mover,    \* the seat to move
    phase,    \* "in_progress", "paused" or "finished"
    awaited,  \* the seat a paused game waits for
    result    \* the seat that won a finished game, Nobody after a draw

view == <<board, mover, phase, awaited, result>>
Opponent(s) == IF s = First THEN Second ELSE First

Init ==
    /\ board = Start
    /\ mover = First
    /\ phase = "in_progress"
    /\ awaited = Nobody
    /\ result = Nobody

\* The seat whose turn it is places a piece: it is the other one's turn, or
\* the board is full and decides the game.
Turn(c) ==
    /\ phase = "in_progress"
    /\ MayPlace(board, c)
    /\ board' = Placed(board, mover, c)
    /\ \/ /\ ~Full(board')
          /\ mover' = Opponent(mover)
          /\ UNCHANGED <<phase, result>>
       \/ /\ Full(board')
          /\ phase' = "finished"
          /\ result' = MoreTerritory(board')
          /\ UNCHANGED mover
    /\ UNCHANGED awaited

\* The game waits for a player who left ...
Pause(s) ==
    /\ phase = "in_progress"
    /\ phase' = "paused"
    /\ awaited' = s
    /\ UNCHANGED <<board, mover, result>>

\* ... who comes back ...
Resume ==
    /\ phase = "paused"
    /\ phase' = "in_progress"
    /\ awaited' = Nobody
    /\ UNCHANGED <<board, mover, result>>

\* ... or forfeits.
Forfeit ==
    /\ phase = "paused"
    /\ phase' = "finished"
    /\ result' = Opponent(awaited)
    /\ awaited' = Nobody
    /\ UNCHANGED <<board, mover>>

\* A finished game takes no step.
Next ==
    \/ \E c \in Cells : Turn(c)
    \/ \E s \in {First, Second} : Pause(s)
    \/ Resume
    \/ Forfeit

Spec == Init /\ [][Next]_view
=============================================================================
