----------------------------- MODULE GameEngine -----------------------------
(***************************************************************************)
(* One game on the instance that owns it (app/core/game_engine.py), from   *)
(* create_game() to the removal of its Redis keys: moves, disconnects and  *)
(* reconnects, the grace-period timers, the snapshot loop and the          *)
(* game-over sequence.                                                     *)
(*                                                                         *)
(* An action is the code between two awaits.  Each disconnect the engine   *)
(* accepts starts an asyncio task of its own (_disconnect_timer), taken    *)
(* from TimerIds, which bounds how many a behaviour has.  The game-over    *)
(* sequence (_handle_game_over) suspends several times, and runs either    *)
(* inside the process_action() of the last move, the task Mover, or inside *)
(* a timer task that found its player still absent; `over' says how far    *)
(* each has come.  Time is counted in ticks of which Grace make up the     *)
(* grace period; a timer may fire any time after it is due.                *)
(*                                                                         *)
(* The players' sockets are the environment: `present' says who has one.   *)
(* Rejected actions, sends and broadcasts change nothing and have no step. *)
(***************************************************************************)
EXTENDS Territory

CONSTANTS Choices,      \* bound: the cells on which players place
          Grace,        \* reconnect_grace_period_sec, in ticks
          TimerIds,     \* disconnect timer tasks
          Mover,        \* the process_action() of the last move
          RedisMayFail, \* may a Redis call in the game-over sequence raise?
          SlowSets      \* may the loop's SET take longer than the clean-up sleeps?

ASSUME ChoicesAssumption == Choices \subseteq Cells

ASSUME GameAssumption ==
    /\ Grace \in Nat \ {0}
    /\ Mover \notin TimerIds
    /\ RedisMayFail \in BOOLEAN
    /\ SlowSets \in BOOLEAN

VARIABLES
    inGames,       \* the room is a key of _games
    joined,        \* how many seats create_game() has set up so far
    board, scores, turn, status, winner, disconnected,   \* ActiveGame
    idx,           \* current_player_idx
    timer,         \* state of each timer task, see TypeOK
    timerSeat,     \* the player_id argument of each timer task
    timerLeft,     \* ticks each timer task still sleeps
    over,          \* where each task is in the game-over sequence
    keys,          \* room:{id} and room:{id}:state exist in Redis
    saving,        \* the snapshot loop awaits the SET of room:{id}:state
    present,       \* environment: which players have a live connection
    session        \* does the player's Redis session name the room, see TypeOK

Tasks == TimerIds \cup {Mover}
game == <<board, scores, turn, idx, status, winner, disconnected>>
timers == <<timer, timerSeat, timerLeft>>
store == <<keys, saving>>
players == <<present, session>>
vars == <<game, inGames, joined, timers, over, store, players>>

\* A session names no room, or this one; "away": this one, and it is
\* DISCONNECTED.
Sessions == {"none", "here", "away"}
OverStages == {"idle", "notifying", "saving", "cleaning", "done", "failed"}

TypeOK ==
    /\ inGames \in BOOLEAN
    /\ joined \in 0..2
    /\ board \in Boards
    /\ scores \in [Seats -> Nat]
    /\ turn \in Nat
    /\ idx \in 0..1
    /\ status \in {"in_progress", "paused", "finished"}
    /\ winner \in Seats \cup {NoSeat}
    /\ disconnected \subseteq Seats
    /\ timer \in [TimerIds -> {"unused", "starting", "sleeping", "done"}]
    /\ timerSeat \in [TimerIds -> Seats \cup {NoSeat}]
    /\ timerLeft \in [TimerIds -> 0..Grace]
    /\ over \in [Tasks -> OverStages]
    /\ keys \in BOOLEAN
    /\ saving \in BOOLEAN
    /\ present \in [Seats -> BOOLEAN]
    /\ session \in [Seats -> Sessions]

\* create_game() has just stored the game; the matchmaker has already written
\* the room hash.
Init ==
    /\ inGames = TRUE
    /\ joined = 0
    /\ board = EmptyBoard
    /\ scores = [s \in Seats |-> 0]
    /\ turn = 0
    /\ idx = 0
    /\ status = "in_progress"
    /\ winner = NoSeat
    /\ disconnected = {}
    /\ timer = [t \in TimerIds |-> "unused"]
    /\ timerSeat = [t \in TimerIds |-> NoSeat]
    /\ timerLeft = [t \in TimerIds |-> 0]
    /\ over = [t \in Tasks |-> "idle"]
    /\ keys = TRUE
    /\ saving = FALSE
    /\ present = [s \in Seats |-> TRUE]
    /\ session = [s \in Seats |-> "none"]

Current == idx + 1

----------------------------------------------------------------------------
(* create_game(): for each seat in turn, after two awaited Redis calls, the *)
(* player's session and player_room key name the room.                     *)

SetUpSeat ==
    /\ joined < 2
    /\ joined' = joined + 1
    /\ session' = [session EXCEPT ![joined'] = "here"]
    /\ UNCHANGED <<game, inGames, timers, over, store, present>>

----------------------------------------------------------------------------
(* process_action("place"): from the checks to the turn change there is no *)
(* await, so a move is one step.  If it ends the game its coroutine goes   *)
(* on to the game-over sequence.                                           *)

Ends(b, n) == n >= MaxTurns \/ BoardFull(b)

\* Variant of the checks before a move: any player may move.
MayMoveOutOfTurn(s) ==
    inGames /\ status = "in_progress" /\ s <= joined /\ present[s]

MayMove(s) ==
    /\ inGames
    /\ status = "in_progress"
    /\ s = Current
    /\ s <= joined     \* its player_room key names the room
    /\ present[s]

\* Variant: no modulo.
AdvancedPastEnd(i) == i + 1

Advanced(i) == (i + 1) % 2

Move(s, c) ==
    /\ MayMove(s)
    /\ board[c] = Empty
    /\ board' = Place(board, s, c)
    /\ scores' = [scores EXCEPT ![s] = @ + Cardinality(Claimed(board, c))]
    /\ turn' = turn + 1
    /\ IF Ends(board', turn')
       THEN /\ status' = "finished"
            /\ winner' = Leader(scores')
            /\ over' = [over EXCEPT ![Mover] = "notifying"]
            /\ UNCHANGED idx
       ELSE /\ idx' = Advanced(idx)
            /\ UNCHANGED <<status, winner, over>>
    /\ UNCHANGED <<disconnected, inGames, joined, timers, store, players>>

----------------------------------------------------------------------------
(* handle_player_disconnect(s).  The timer task is created only after the  *)
(* opponent has been notified, an await: until then it is "starting".      *)

Accepts == inGames /\ status = "in_progress"

HandleDisconnect(s) ==
    \/ /\ Accepts
       /\ disconnected' = disconnected \cup {s}
       /\ status' = "paused"
       /\ \E t \in TimerIds :
            /\ timer[t] = "unused"
            /\ timer' = [timer EXCEPT ![t] = "starting"]
            /\ timerSeat' = [timerSeat EXCEPT ![t] = s]
       /\ UNCHANGED <<board, scores, turn, idx, winner, timerLeft>>
    \/ /\ ~Accepts
       /\ UNCHANGED <<game, timers>>

Marked(x) == IF x = "none" THEN x ELSE "away"

\* The connection of s is lost: the session is marked, and the engine is called
\* if the session names the room.  One step here, with the endpoint at the
\* game's instance; SessionLifecycle has the awaits and the other instances.
ConnectionLost(s) ==
    /\ present[s]
    /\ present' = [present EXCEPT ![s] = FALSE]
    /\ session' = [session EXCEPT ![s] = Marked(@)]
    /\ IF session[s] = "none" THEN UNCHANGED <<game, timers>> ELSE HandleDisconnect(s)
    /\ UNCHANGED <<inGames, joined, over, store>>

\* An evicted socket of s ends: its endpoint reports s disconnected although s
\* has a newer connection, which may have replaced the session meanwhile.
OldConnectionEnds(s) ==
    /\ present[s]
    /\ s <= joined
    /\ session' = [session EXCEPT ![s] = Marked(@)]
    /\ HandleDisconnect(s)
    /\ UNCHANGED <<inGames, joined, over, store, present>>

\* The opponent is notified: create_task(_disconnect_timer).
TimerStarts(t) ==
    /\ timer[t] = "starting"
    /\ timer' = [timer EXCEPT ![t] = "sleeping"]
    /\ timerLeft' = [timerLeft EXCEPT ![t] = Grace]
    /\ UNCHANGED <<game, inGames, joined, timerSeat, over, store, players>>

----------------------------------------------------------------------------
(* handle_player_reconnect(s): up to its first await.                      *)

\* Variants of the status after a reconnect: always resumed; never resumed.
ResumedAlways(gone) == "in_progress"

ResumedNever(gone) == status

Resumed(gone) ==
    IF status = "paused" /\ gone = {} THEN "in_progress" ELSE status

HandleReconnect(s) ==
    \/ /\ inGames
       /\ disconnected' = disconnected \ {s}
       /\ status' = Resumed(disconnected')
       /\ UNCHANGED <<board, scores, turn, idx, winner>>
    \/ /\ ~inGames
       /\ UNCHANGED game

\* s connects and its session is DISCONNECTED and names the room.
Reconnects(s) ==
    /\ session[s] = "away"
    /\ session' = [session EXCEPT ![s] = "here"]
    /\ present' = [present EXCEPT ![s] = TRUE]
    /\ HandleReconnect(s)
    /\ UNCHANGED <<inGames, joined, timers, over, store>>

\* s connects after its session expired, or before the loss of its last
\* connection was noticed: create_session() writes a session without a room,
\* and the engine is not told.
ConnectsAfresh(s) ==
    /\ session' = [session EXCEPT ![s] = "none"]
    /\ present' = [present EXCEPT ![s] = TRUE]
    /\ UNCHANGED <<game, inGames, joined, timers, over, store>>

----------------------------------------------------------------------------
(* _disconnect_timer.                                                      *)

Tick ==
    /\ \E t \in TimerIds : timerLeft[t] > 0
    /\ timerLeft' = [t \in TimerIds |-> IF timerLeft[t] > 0 THEN timerLeft[t] - 1 ELSE 0]
    /\ UNCHANGED <<game, inGames, joined, timer, timerSeat, over, store, players>>

Due(t) == timer[t] = "sleeping" /\ timerLeft[t] = 0

\* Variant: forfeits without looking whether the player came back.
StillAwayUnchecked(t) == inGames

StillAway(t) == inGames /\ timerSeat[t] \in disconnected

\* The player came back, or the game is gone: the task returns.
TimerLapses(t) ==
    /\ Due(t)
    /\ ~StillAway(t)
    /\ timer' = [timer EXCEPT ![t] = "done"]
    /\ UNCHANGED <<game, inGames, joined, timerSeat, timerLeft, over, store, players>>

\* The player is still away: the other one wins, whatever the status is.
Forfeit(t) ==
    /\ Due(t)
    /\ StillAway(t)
    /\ timer' = [timer EXCEPT ![t] = "done"]
    /\ winner' = Other(timerSeat[t])
    /\ status' = "finished"
    /\ over' = [over EXCEPT ![t] = "notifying"]
    /\ UNCHANGED <<board, scores, turn, idx, disconnected, inGames, joined,
                   timerSeat, timerLeft, store, players>>

----------------------------------------------------------------------------
(* _snapshot_loop.                                                         *)

\* The loop finds the game and awaits the SET of its snapshot ...
LoopSaves ==
    /\ inGames
    /\ ~saving
    /\ saving' = TRUE
    /\ UNCHANGED <<game, inGames, joined, timers, over, keys, players>>

\* ... which writes the key whatever has become of the game.
LoopSaved ==
    /\ saving
    /\ saving' = FALSE
    /\ keys' = TRUE
    /\ UNCHANGED <<game, inGames, joined, timers, over, players>>

----------------------------------------------------------------------------
(* _handle_game_over, in the task t.                                       *)

\* _save_snapshot(): does it leave the keys of the room in Redis?
Saved == keys \/ inGames

\* Variant: the final snapshot is written without looking at _games.
NotifiedSavesBlindly(t) ==
    /\ over[t] = "notifying"
    /\ over' = [over EXCEPT ![t] = "saving"]
    /\ keys' = TRUE
    /\ UNCHANGED <<game, inGames, joined, timers, saving, players>>

\* The players are told: create_task(_persist_result), then the final
\* snapshot, which is written only while the game is in _games.
Notified(t) ==
    /\ over[t] = "notifying"
    /\ over' = [over EXCEPT ![t] = "saving"]
    /\ keys' = Saved
    /\ UNCHANGED <<game, inGames, joined, timers, saving, players>>

\* Variant: _cleanup_game() that does not pop the game first.
CleansUpWithoutPop(t) ==
    /\ over[t] = "saving"
    /\ inGames
    /\ over' = [over EXCEPT ![t] = "cleaning"]
    /\ UNCHANGED <<game, inGames, joined, timers, store, players>>

\* The snapshot is written; _cleanup_game() pops the game and sleeps ...
CleansUp(t) ==
    /\ over[t] = "saving"
    /\ inGames
    /\ inGames' = FALSE
    /\ over' = [over EXCEPT ![t] = "cleaning"]
    /\ UNCHANGED <<game, joined, timers, store, players>>

\* ... or returns, when another task has popped it.
NothingToCleanUp(t) ==
    /\ over[t] = "saving"
    /\ ~inGames
    /\ over' = [over EXCEPT ![t] = "done"]
    /\ UNCHANGED <<game, inGames, joined, timers, store, players>>

\* The five seconds are over: the Redis keys are deleted.
DeletesKeys(t) ==
    /\ over[t] = "cleaning"
    /\ SlowSets \/ ~saving
    /\ keys' = FALSE
    /\ over' = [over EXCEPT ![t] = "done"]
    /\ UNCHANGED <<game, inGames, joined, timers, saving, players>>

\* A publish, a set or the pipeline raises: the rest is not done.
GameOverFails(t) ==
    /\ RedisMayFail
    /\ over[t] \in {"notifying", "saving", "cleaning"}
    /\ over' = [over EXCEPT ![t] = "failed"]
    /\ UNCHANGED <<game, inGames, joined, timers, store, players>>

----------------------------------------------------------------------------
GameOver(t) ==
    \/ Notified(t)
    \/ CleansUp(t)
    \/ NothingToCleanUp(t)
    \/ DeletesKeys(t)

Next ==
    \/ SetUpSeat
    \/ \E s \in Seats, c \in Choices : Move(s, c)
    \/ \E s \in Seats : ConnectionLost(s)
    \/ \E s \in Seats : OldConnectionEnds(s)
    \/ \E s \in Seats : Reconnects(s)
    \/ \E s \in Seats : ConnectsAfresh(s)
    \/ \E t \in TimerIds : TimerStarts(t)
    \/ \E t \in TimerIds : TimerLapses(t)
    \/ \E t \in TimerIds : Forfeit(t)
    \/ Tick
    \/ LoopSaves
    \/ LoopSaved
    \/ \E t \in Tasks : GameOver(t)
    \/ \E t \in Tasks : GameOverFails(t)

\* Time passes, a send returns or times out, a due timer runs, and a coroutine
\* whose await has returned goes on.  Nothing obliges the players.
Fairness ==
    /\ WF_vars(Tick)
    /\ WF_vars(LoopSaved)
    /\ \A t \in TimerIds : WF_vars(TimerStarts(t))
    /\ \A t \in TimerIds : WF_vars(TimerLapses(t) \/ Forfeit(t))
    /\ \A t \in Tasks : WF_vars(GameOver(t))

Spec == Init /\ [][Next]_vars
FairSpec == Spec /\ Fairness

----------------------------------------------------------------------------
(* Properties.                                                             *)

\* The scores are exactly the numbers of cells on the board, though the code
\* counts them up one by one and never looks back at the board.
ScoresCountCells == \A s \in Seats : scores[s] = Cardinality(Owned(board, s))

\* The seats alternate strictly from the first move to the last, through
\* pauses and resumptions: nobody moves twice in a row and no turn is lost.
MovesAlternate ==
    [][\A s \in Seats : scores'[s] # scores[s] =>
          s = (turn % 2) + 1 /\ turn' = turn + 1]_vars

\* A game waits for at most one player, and exactly while it is paused: a
\* running game has no absent player on its list who could still forfeit.
PausedForOne ==
    /\ status = "in_progress" => disconnected = {}
    /\ status = "paused" => Cardinality(disconnected) = 1

\* A paused game always has a pending timer of the player it waits for, so no
\* order of disconnects, reconnects and lapsing timers leaves it stuck.
PausedHasTimer ==
    status = "paused" =>
        \E t \in TimerIds : timer[t] \in {"starting", "sleeping"} /\ timerSeat[t] \in disconnected

\* The result of a finished game is the one its last move or its forfeit
\* gave it: a full board (the turn cap never comes first), won by the seat
\* that owns more cells and drawn if they own as many; or the opponent of a
\* player whose timer ran out.
ResultIsEarned ==
    status = "finished" =>
        \/ /\ BoardFull(board)
           /\ \A s \in Seats :
                 winner = s <=> Cardinality(Owned(board, s)) > Cardinality(Owned(board, Other(s)))
        \/ \E t \in TimerIds : over[t] # "idle" /\ winner = Other(timerSeat[t])

\* A finished game never changes again: late timers, moves and reconnects
\* neither reopen it nor turn its result around.
ResultIsFinal ==
    [][status = "finished" =>
          UNCHANGED <<status, winner, board, scores, turn, idx>>]_vars

\* A game that ended on the board runs the game-over sequence once, so its
\* result is persisted once, also when timers of earlier absences are pending.
BoardResultPersistedOnce ==
    over[Mover] # "idle" => \A t \in TimerIds : over[t] = "idle"

\* The player a paused game waits for.
Awaited == IF status = "paused" THEN CHOOSE s \in Seats : s \in disconnected ELSE NoSeat

\* The rules of the board, as the abstract game takes them.
Free(b, c) == b[c] = Empty
MostCells(b) == Leader([s \in Seats |-> Cardinality(Owned(b, s))])

\* With all its timers, stale reports and tasks, the engine does what its
\* docstrings promise and nothing else: the seats take turns until the board is
\* full, a pause ends with the return or the forfeit of the player it began
\* with, the result is that of the board or of the forfeit, and it is final.
T == INSTANCE TerritoryGame WITH
    First <- 1, Second <- 2, Nobody <- NoSeat,
    Start <- EmptyBoard, MayPlace <- Free, Placed <- Place,
    Full <- BoardFull, MoreTerritory <- MostCells,
    mover <- Current, phase <- status, awaited <- Awaited, result <- winner

PlaysByTheRules == T!Spec

\* The Redis keys of a room are never written again once they are deleted.
KeysStayDeleted == [][~keys => ~keys']_vars

\* A paused game does not stay paused: it resumes or is forfeited.
PauseEnds == status = "paused" ~> status # "paused"

\* A finished game leaves _games and its Redis keys are deleted, unless an
\* exception has ended a task in the game-over sequence.
FinishedIsRemoved ==
    status = "finished" ~> (~inGames /\ ~keys) \/ \E t \in Tasks : over[t] = "failed"

\* "If the player reconnects within the grace period, resume. If not, the
\* disconnected player forfeits." (handle_player_disconnect): when a player
\* forfeits, no timer of theirs has time left.
ForfeitAfterFullGrace ==
    [][\A t \in TimerIds : (over[t] = "idle" /\ over'[t] = "notifying") =>
          \A u \in TimerIds : timerSeat[u] = timerSeat[t] => timerLeft[u] = 0]_vars

\* "2. Start a grace period timer." (handle_player_disconnect): a player lost
\* in an unfinished game gets a timer, also when the other player is gone
\* already and the game is paused.
EveryDisconnectIsTimed ==
    [][\A s \in Seats :
          /\ present[s] /\ ~present'[s] /\ session[s] # "none"
          /\ status # "finished"
          /\ ~present[Other(s)] /\ disconnected = {Other(s)}
          => \E t \in TimerIds : timer[t] = "unused" /\ timer'[t] = "starting"]_vars
=============================================================================
