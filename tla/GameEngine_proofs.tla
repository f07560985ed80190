------------------------- MODULE GameEngine_proofs -------------------------
(***************************************************************************)
(* Proofs about one game, for any board size, turn cap not below the cell  *)
(* count, grace period and number of disconnect timers.  Inv below is the  *)
(* inductive invariant; every theorem follows from it, the refinement of   *)
(* TerritoryGame too.                                                      *)
(***************************************************************************)
EXTENDS GameEngine, Territory_proofs

PlayersTyped == present \in [Seats -> BOOLEAN] /\ session \in [Seats -> Sessions]

USE DEF Seats, NoSeat, Empty, Other, Tasks, players, store, Sessions, PlayersTyped

\* The scores agree with the board, and every move has claimed a cell: this
\* is why the turn cap is never reached before the board is full.
Scored == ScoresCountCells /\ turn <= scores[1] + scores[2]

\* The parity of the turn says who is to move.
TurnParity == status # "finished" => idx = turn % 2

\* Who the game waits for, and the timer that ends the wait.
Waiting ==
    /\ status = "in_progress" => disconnected = {}
    /\ status = "paused" => \E s \in Seats : disconnected = {s}
    /\ PausedHasTimer

\* A timer task in use has a player, and only a task that is done has gone on
\* to the game-over sequence.
TimerTasks ==
    \A t \in TimerIds : /\ timer[t] # "unused" => timerSeat[t] \in Seats
                        /\ timer[t] # "done" => over[t] = "idle"

\* The task that ended the game fixes its result.  The list of absent players
\* holds at most the one who forfeited, so a later timer can only repeat it.
Verdict ==
    /\ \A t \in Tasks : over[t] # "idle" => status = "finished"
    /\ status = "finished" => \E t \in Tasks : over[t] # "idle"
    /\ over[Mover] # "idle" =>
          BoardFull(board) /\ winner = Leader(scores) /\ disconnected = {}
    /\ \A t \in TimerIds : over[t] # "idle" =>
          /\ winner = Other(timerSeat[t])
          /\ disconnected \subseteq {timerSeat[t]}
          /\ over[Mover] = "idle"

\* Only a finished game leaves _games, and the keys outlive its entry and,
\* unless a SET is slow, the last SET of the snapshot loop.
KeysInv ==
    /\ status # "finished" => inGames
    /\ inGames => keys
    /\ saving /\ ~SlowSets => keys
    /\ \A t \in Tasks : over[t] = "cleaning" => ~inGames

Inv == TypeOK /\ Scored /\ TurnParity /\ Waiting /\ TimerTasks /\ Verdict /\ KeysInv

----------------------------------------------------------------------------
\* create_game() stores a game that satisfies the invariant.
LEMMA InitInv == Init => Inv
<1>. SUFFICES ASSUME Init PROVE Inv
  OBVIOUS
<1>. USE TerritoryAssumption, GameAssumption
<1>1. TypeOK
  <2>1. board \in Boards
    BY DEF Init, Boards, EmptyBoard
  <2>2. keys \in BOOLEAN /\ saving \in BOOLEAN /\ inGames \in BOOLEAN
    BY DEF Init
  <2> QED BY <2>1, <2>2 DEF Init, TypeOK, OverStages
<1>2. Scored
  <2>1. \A s \in Seats : Owned(board, s) = {}
    BY DEF Init, Owned, EmptyBoard
  <2> QED BY <2>1, FS_EmptySet DEF Init, Scored, ScoresCountCells
<1>3. TurnParity
  BY DEF Init, TurnParity
<1>4. Waiting /\ TimerTasks /\ Verdict /\ KeysInv
  BY DEF Init, Waiting, PausedHasTimer, TimerTasks, Verdict, KeysInv
<1> QED BY <1>1, <1>2, <1>3, <1>4 DEF Inv

\* A move keeps the accounts, and if it ends the game the board is full.
LEMMA MovePreserves ==
    ASSUME Inv, NEW s \in Seats, NEW c \in Cells, Move(s, c)
    PROVE  Inv'
<1>. USE TerritoryAssumption, GameAssumption
<1>. DEFINE claimed == Cardinality(Claimed(board, c))
<1>1. /\ TypeOK /\ Scored /\ TurnParity /\ Waiting /\ TimerTasks /\ Verdict /\ KeysInv
      /\ status = "in_progress" /\ s = idx + 1
  BY DEF Inv, Move, MayMove, Current
<1>2. /\ board \in Boards /\ board[c] = Empty
      /\ board' = Place(board, s, c)
      /\ scores \in [Seats -> Nat]
      /\ scores' = [scores EXCEPT ![s] = @ + claimed]
      /\ turn' = turn + 1 /\ turn \in Nat
      /\ UNCHANGED <<disconnected, inGames, joined, timers, store, players>>
  BY <1>1 DEF Move, TypeOK
<1>3. claimed \in Nat \ {0}
  BY <1>2, ClaimedCells
<1>4. /\ board' \in Boards
      /\ Cardinality(Owned(board', s)) = Cardinality(Owned(board, s)) + claimed
      /\ \A o \in Seats : o # s => Owned(board', o) = Owned(board, o)
  BY <1>2, PlaceCounts
<1>. HIDE DEF claimed
<1>5. scores' \in [Seats -> Nat]
  BY <1>2, <1>3
<1>6. Scored'
  <2>1. ScoresCountCells'
    BY <1>1, <1>2, <1>3, <1>4 DEF Scored, ScoresCountCells
  <2>2. turn' <= scores'[1] + scores'[2]
    BY <1>1, <1>2, <1>3 DEF Scored
  <2> QED BY <2>1, <2>2 DEF Scored
<1>7. CASE Ends(board', turn')
  <2>1. /\ status' = "finished" /\ winner' = Leader(scores')
        /\ over' = [over EXCEPT ![Mover] = "notifying"] /\ idx' = idx
    BY <1>7 DEF Move
  <2>2. BoardFull(board')
    <3>1. CASE BoardFull(board')
      BY <3>1
    <3>2. CASE turn' >= MaxTurns
      <4>1. Cardinality(Owned(board', 1)) + Cardinality(Owned(board', 2)) = scores'[1] + scores'[2]
        BY <1>6 DEF Scored, ScoresCountCells
      <4>2. scores'[1] + scores'[2] >= Size * Size
        <5>1. turn' <= scores'[1] + scores'[2] /\ turn' \in Nat
          BY <1>2, <1>6 DEF Scored
        <5>2. Size * Size \in Nat /\ MaxTurns \in Nat /\ MaxTurns >= Size * Size
          OBVIOUS
        <5>3. scores'[1] + scores'[2] \in Nat
          BY <1>5
        <5> QED BY <3>2, <5>1, <5>2, <5>3
      <4> QED BY <1>4, <4>1, <4>2, FullByCount
    <3> QED BY <1>7, <3>1, <3>2 DEF Ends
  <2>3. TypeOK'
    BY <1>1, <1>2, <1>4, <1>5, <2>1 DEF TypeOK, Leader, OverStages, timers
  <2>4. TurnParity' /\ Waiting'
    BY <2>1 DEF TurnParity, Waiting, PausedHasTimer
  <2>5. TimerTasks' /\ KeysInv'
    BY <1>1, <1>2, <2>1 DEF TypeOK, TimerTasks, KeysInv, timers
  <2>6. Verdict'
    <3>1. disconnected' = {} /\ \A t \in Tasks : over[t] = "idle"
      BY <1>1, <1>2 DEF Waiting, Verdict
    <3> QED BY <1>1, <1>2, <2>1, <2>2, <3>1 DEF Verdict, TypeOK
  <2> QED BY <1>6, <2>3, <2>4, <2>5, <2>6 DEF Inv
<1>8. CASE ~Ends(board', turn')
  <2>1. idx' = (idx + 1) % 2 /\ UNCHANGED <<status, winner, over>>
    BY <1>8 DEF Move, Advanced
  <2>2. TypeOK'
    BY <1>1, <1>2, <1>4, <1>5, <2>1 DEF TypeOK, timers
  <2>3. TurnParity'
    <3>1. idx = turn % 2 /\ turn \in Nat
      BY <1>1, <1>2 DEF TurnParity
    <3> QED BY <3>1, <2>1, <1>2 DEF TurnParity
  <2>4. Waiting' /\ TimerTasks' /\ KeysInv'
    BY <1>1, <1>2, <2>1 DEF Waiting, PausedHasTimer, TimerTasks, KeysInv, timers
  <2>5. Verdict'
    BY <1>1, <1>2, <2>1 DEF Verdict
  <2> QED BY <1>6, <2>2, <2>3, <2>4, <2>5 DEF Inv
<1> QED BY <1>7, <1>8

\* The calls of ws_routes and the timers leave the board alone.
LEMMA ScoredUnchanged ==
    ASSUME Inv, UNCHANGED <<board, scores, turn, idx>>,
           status' # "finished" => status # "finished"
    PROVE  Scored' /\ TurnParity'
BY DEF Inv, Scored, ScoresCountCells, TurnParity

\* handle_player_disconnect() adds the player to an empty list, and with a
\* timer of its own.
LEMMA DisconnectPreserves ==
    ASSUME Inv, NEW s \in Seats, HandleDisconnect(s),
           UNCHANGED <<inGames, joined, over, store>>,
           PlayersTyped'
    PROVE  Inv'
<1>. USE TerritoryAssumption, GameAssumption
<1>1. TypeOK /\ Scored /\ TurnParity /\ Waiting /\ TimerTasks /\ Verdict /\ KeysInv
  BY DEF Inv
<1>2. CASE Accepts
  <2>1. PICK t \in TimerIds : /\ timer[t] = "unused"
                              /\ timer' = [timer EXCEPT ![t] = "starting"]
                              /\ timerSeat' = [timerSeat EXCEPT ![t] = s]
    BY <1>2 DEF HandleDisconnect
  <2>2. /\ inGames /\ status = "in_progress"
        /\ disconnected' = disconnected \cup {s}
        /\ status' = "paused"
        /\ UNCHANGED <<board, scores, turn, idx, winner, timerLeft>>
    BY <1>2 DEF HandleDisconnect, Accepts
  <2>3. disconnected' = {s}
    BY <1>1, <2>2 DEF Waiting
  <2>4. TypeOK'
    BY <1>1, <2>1, <2>2 DEF TypeOK
  <2>5. Scored' /\ TurnParity'
    BY <2>2, ScoredUnchanged
  <2>6. timer'[t] = "starting" /\ timerSeat'[t] = s
    BY <1>1, <2>1 DEF TypeOK
  <2>7. Waiting'
    BY <2>2, <2>3, <2>6 DEF Waiting, PausedHasTimer
  <2>8. \A u \in Tasks : over[u] = "idle"
    BY <1>1, <2>2 DEF Verdict
  <2>9. TimerTasks' /\ Verdict' /\ KeysInv'
    BY <1>1, <2>1, <2>2, <2>8 DEF TypeOK, TimerTasks, Verdict, KeysInv
  <2> QED BY <2>4, <2>5, <2>7, <2>9 DEF Inv
<1>3. CASE ~Accepts
  <2>1. UNCHANGED <<game, timers, inGames, joined, over, store>>
    BY <1>3 DEF HandleDisconnect
  <2> QED
    BY <1>1, <2>1 DEF game, timers, Inv, TypeOK, Scored, ScoresCountCells, TurnParity,
                      Waiting, PausedHasTimer, TimerTasks, Verdict, KeysInv
<1> QED BY <1>2, <1>3

\* handle_player_reconnect() shortens the list, and resumes the game if it is
\* empty.
LEMMA ReconnectPreserves ==
    ASSUME Inv, NEW s \in Seats, Reconnects(s)
    PROVE  Inv'
<1>. USE TerritoryAssumption, GameAssumption
<1>1. TypeOK /\ Scored /\ TurnParity /\ Waiting /\ TimerTasks /\ Verdict /\ KeysInv
  BY DEF Inv
<1>2. /\ UNCHANGED <<board, scores, turn, idx, winner, inGames, joined, timers, over, store>>
      /\ PlayersTyped'
      /\ disconnected' \subseteq disconnected
      /\ status' = IF status = "paused" /\ disconnected' = {} /\ inGames
                   THEN "in_progress" ELSE status
  BY <1>1 DEF Reconnects, HandleReconnect, Resumed, game, TypeOK
<1>3. TypeOK'
  BY <1>1, <1>2 DEF TypeOK, timers
<1>4. Scored' /\ TurnParity'
  BY <1>2, ScoredUnchanged
<1>5. Waiting'
  <2>1. CASE status # "paused"
    BY <1>1, <1>2, <2>1 DEF Waiting, PausedHasTimer
  <2>2. CASE status = "paused"
    <3>1. PICK p \in Seats : disconnected = {p}
      BY <1>1, <2>2 DEF Waiting
    <3>2. CASE disconnected' = {}
      <4>1. inGames
        BY <2>2, <3>1, <3>2 DEF Reconnects, HandleReconnect, game
      <4> QED BY <1>2, <2>2, <3>2, <4>1 DEF Waiting, PausedHasTimer
    <3>3. CASE disconnected' # {}
      <4>1. disconnected' = disconnected /\ status' = status
        BY <1>2, <3>1, <3>3
      <4> QED BY <1>1, <1>2, <4>1 DEF Waiting, PausedHasTimer, timers
    <3> QED BY <3>2, <3>3
  <2> QED BY <2>1, <2>2
<1>6. TimerTasks' /\ KeysInv'
  BY <1>1, <1>2 DEF TimerTasks, KeysInv, timers
<1>7. Verdict'
  BY <1>1, <1>2 DEF Verdict, timers
<1> QED BY <1>3, <1>4, <1>5, <1>6, <1>7 DEF Inv

\* A forfeit finishes the game against the only absent player; if the game is
\* finished already, it repeats the verdict.
LEMMA ForfeitPreserves ==
    ASSUME Inv, NEW t \in TimerIds, Forfeit(t)
    PROVE  Inv'
<1>. USE TerritoryAssumption, GameAssumption
<1>1. TypeOK /\ Scored /\ TurnParity /\ Waiting /\ TimerTasks /\ Verdict /\ KeysInv
  BY DEF Inv
<1>2. /\ timer[t] = "sleeping" /\ timerSeat[t] \in disconnected
      /\ timer' = [timer EXCEPT ![t] = "done"]
      /\ winner' = Other(timerSeat[t])
      /\ status' = "finished"
      /\ over' = [over EXCEPT ![t] = "notifying"]
      /\ UNCHANGED <<board, scores, turn, idx, disconnected, inGames, joined,
                     timerSeat, timerLeft, store, players>>
  BY DEF Forfeit, Due, StillAway
<1>3. timerSeat[t] \in Seats /\ t # Mover
  BY <1>1, <1>2 DEF TimerTasks
<1>4. disconnected = {timerSeat[t]}
  <2>1. CASE status = "finished"
    <3>1. PICK u \in Tasks : over[u] # "idle"
      BY <1>1, <2>1 DEF Verdict
    <3>2. u \in TimerIds
      BY <1>1, <1>2, <3>1 DEF Verdict
    <3> QED BY <1>1, <1>2, <3>1, <3>2 DEF Verdict
  <2>2. CASE status # "finished"
    BY <1>1, <1>2, <2>2 DEF Waiting, TypeOK
  <2> QED BY <2>1, <2>2
<1>5. TypeOK'
  BY <1>1, <1>2, <1>3 DEF TypeOK, OverStages
<1>6. Scored' /\ TurnParity'
  BY <1>2, ScoredUnchanged
<1>7. Waiting'
  BY <1>2 DEF Waiting, PausedHasTimer
<1>8. TimerTasks' /\ KeysInv'
  BY <1>1, <1>2, <1>3 DEF TypeOK, TimerTasks, KeysInv
<1>9. Verdict'
  <2>1. over[Mover] = "idle" /\ over'[Mover] = "idle"
    BY <1>1, <1>2, <1>3 DEF Verdict, TypeOK
  <2>2. over'[t] # "idle" /\ t \in Tasks
    BY <1>1, <1>2 DEF TypeOK
  <2>3. ASSUME NEW u \in TimerIds, over'[u] # "idle"
        PROVE  winner' = Other(timerSeat'[u]) /\ disconnected' \subseteq {timerSeat'[u]}
    <3>1. CASE u = t
      BY <1>2, <1>4, <3>1
    <3>2. CASE u # t
      <4>1. over[u] # "idle"
        BY <1>1, <1>2, <2>3, <3>2 DEF TypeOK
      <4>2. disconnected \subseteq {timerSeat[u]}
        BY <1>1, <4>1 DEF Verdict
      <4>3. timerSeat[u] = timerSeat[t]
        BY <1>4, <4>2
      <4> QED BY <1>2, <1>4, <4>3
    <3> QED BY <3>1, <3>2
  <2> QED BY <1>2, <2>1, <2>2, <2>3 DEF Verdict
<1> QED BY <1>5, <1>6, <1>7, <1>8, <1>9 DEF Inv

\* The game-over sequence only moves `over', pops the game and deletes keys.
LEMMA GameOverPreserves ==
    ASSUME Inv, NEW t \in Tasks, GameOver(t) \/ GameOverFails(t)
    PROVE  Inv'
<1>. USE TerritoryAssumption, GameAssumption
<1>1. TypeOK /\ Scored /\ TurnParity /\ Waiting /\ TimerTasks /\ Verdict /\ KeysInv
  BY DEF Inv
<1>2. /\ UNCHANGED <<game, joined, timers, players>>
      /\ over[t] \notin {"idle", "done", "failed"}
      /\ \E x \in OverStages \ {"idle"} : over' = [over EXCEPT ![t] = x]
  <2>. USE DEF OverStages
  <2>1. CASE Notified(t)
    BY <2>1 DEF Notified, Saved
  <2>2. CASE CleansUp(t)
    BY <2>2 DEF CleansUp
  <2>3. CASE NothingToCleanUp(t)
    BY <2>3 DEF NothingToCleanUp
  <2>4. CASE DeletesKeys(t)
    BY <2>4 DEF DeletesKeys
  <2>5. CASE GameOverFails(t)
    BY <2>5 DEF GameOverFails
  <2> QED BY <2>1, <2>2, <2>3, <2>4, <2>5 DEF GameOver
<1>3. /\ over' \in [Tasks -> OverStages]
      /\ \A u \in Tasks : over'[u] = "idle" <=> over[u] = "idle"
  BY <1>1, <1>2 DEF TypeOK
<1>4. inGames' \in BOOLEAN /\ keys' \in BOOLEAN /\ saving' = saving /\ (inGames' => inGames)
  <2>1. keys \in BOOLEAN /\ inGames \in BOOLEAN
    BY <1>1 DEF TypeOK
  <2>2. CASE Notified(t)
    <3>1. keys' = (keys \/ inGames) /\ inGames' = inGames /\ saving' = saving
      BY <2>2 DEF Notified, Saved
    <3>2. (keys \/ inGames) \in BOOLEAN
      OBVIOUS
    <3> QED BY <2>1, <3>1, <3>2
  <2>3. CASE CleansUp(t)
    BY <2>1, <2>3 DEF CleansUp
  <2>4. CASE NothingToCleanUp(t)
    BY <2>1, <2>4 DEF NothingToCleanUp
  <2>5. CASE DeletesKeys(t)
    BY <2>1, <2>5 DEF DeletesKeys
  <2>6. CASE GameOverFails(t)
    BY <2>1, <2>6 DEF GameOverFails
  <2> QED BY <2>2, <2>3, <2>4, <2>5, <2>6 DEF GameOver
<1>5. TypeOK'
  BY <1>1, <1>2, <1>3, <1>4 DEF TypeOK, game, timers
<1>6. Scored' /\ TurnParity'
  BY <1>2, ScoredUnchanged DEF game
<1>7. Waiting'
  BY <1>1, <1>2 DEF Waiting, PausedHasTimer, game, timers
<1>8. TimerTasks'
  BY <1>1, <1>2, <1>3 DEF TimerTasks, timers
<1>9. Verdict'
  BY <1>1, <1>2, <1>3 DEF Verdict, game, timers
<1>10. KeysInv'
  <2>0. status' = status /\ (status = "finished" \/ UNCHANGED inGames)
    BY <1>1, <1>2 DEF Verdict, game
  <2>1. CASE Notified(t)
    BY <1>1, <2>0, <2>1 DEF Notified, Saved, KeysInv, TypeOK
  <2>2. CASE CleansUp(t)
    BY <1>1, <2>0, <2>2 DEF CleansUp, KeysInv, TypeOK
  <2>3. CASE NothingToCleanUp(t)
    BY <1>1, <2>0, <2>3 DEF NothingToCleanUp, KeysInv, TypeOK
  <2>4. CASE DeletesKeys(t)
    BY <1>1, <2>0, <2>4 DEF DeletesKeys, KeysInv, TypeOK
  <2>5. CASE GameOverFails(t)
    BY <1>1, <2>0, <2>5 DEF GameOverFails, KeysInv, TypeOK
  <2> QED BY <2>1, <2>2, <2>3, <2>4, <2>5 DEF GameOver
<1> QED BY <1>5, <1>6, <1>7, <1>8, <1>9, <1>10 DEF Inv

\* One step per action.
LEMMA NextInv == Inv /\ [Next]_vars => Inv'
<1>. SUFFICES ASSUME Inv, [Next]_vars PROVE Inv'
  OBVIOUS
<1>. USE TerritoryAssumption, GameAssumption
<1>0. TypeOK /\ Scored /\ TurnParity /\ Waiting /\ TimerTasks /\ Verdict /\ KeysInv
  BY DEF Inv
\* Steps of the environment and of timers that leave the game as it is.
<1>a. ASSUME UNCHANGED <<game, inGames, over, store>>,
             joined' \in 0..2, PlayersTyped',
             timer' \in [TimerIds -> {"unused", "starting", "sleeping", "done"}],
             timerLeft' \in [TimerIds -> 0..Grace], timerSeat' = timerSeat,
             TimerTasks', PausedHasTimer'
      PROVE  Inv'
  <2>1. TypeOK'
    BY <1>0, <1>a DEF TypeOK, game
  <2>2. Scored' /\ TurnParity'
    BY <1>a, ScoredUnchanged DEF game
  <2>3. Waiting' /\ Verdict' /\ KeysInv'
    BY <1>0, <1>a DEF Waiting, Verdict, KeysInv, game
  <2> QED BY <1>a, <2>1, <2>2, <2>3 DEF Inv
<1>b. timers' = timers /\ game' = game /\ over' = over => TimerTasks' /\ PausedHasTimer'
  BY <1>0 DEF TimerTasks, Waiting, PausedHasTimer, timers, game
<1>1. ASSUME SetUpSeat PROVE Inv'
  BY <1>0, <1>1, <1>a, <1>b DEF SetUpSeat, TypeOK, timers
<1>2. ASSUME NEW s \in Seats, NEW c \in Cells, Move(s, c) PROVE Inv'
  BY <1>2, MovePreserves
<1>3. ASSUME NEW s \in Seats, ConnectionLost(s) PROVE Inv'
  <2>1. PlayersTyped'
    BY <1>0, <1>3 DEF Marked, ConnectionLost, TypeOK
  <2>2. CASE session[s] # "none"
    BY <1>3, <2>1, <2>2, DisconnectPreserves DEF ConnectionLost
  <2>3. CASE session[s] = "none"
    BY <1>0, <1>3, <1>a, <1>b, <2>1, <2>3 DEF ConnectionLost, TypeOK, timers
  <2> QED BY <2>2, <2>3
<1>4. ASSUME NEW s \in Seats, OldConnectionEnds(s) PROVE Inv'
  BY <1>0, <1>4, DisconnectPreserves DEF Marked, OldConnectionEnds, TypeOK
<1>5. ASSUME NEW s \in Seats, Reconnects(s) PROVE Inv'
  BY <1>5, ReconnectPreserves
<1>6. ASSUME NEW s \in Seats, ConnectsAfresh(s) PROVE Inv'
  <2>1. PlayersTyped'
    BY <1>0, <1>6 DEF ConnectsAfresh, TypeOK
  <2> QED BY <1>0, <1>6, <1>a, <1>b, <2>1 DEF ConnectsAfresh, TypeOK, timers
<1>7. ASSUME NEW t \in TimerIds, TimerStarts(t) PROVE Inv'
  <2>1. /\ timer' = [timer EXCEPT ![t] = "sleeping"] /\ timer[t] = "starting"
        /\ timerLeft' = [timerLeft EXCEPT ![t] = Grace]
        /\ UNCHANGED <<game, inGames, joined, timerSeat, over, store, players>>
    BY <1>7 DEF TimerStarts
  <2>2. TimerTasks' /\ PausedHasTimer'
    BY <1>0, <2>1 DEF TypeOK, TimerTasks, Waiting, PausedHasTimer, game
  <2> QED BY <1>0, <1>a, <2>1, <2>2 DEF TypeOK
<1>8. ASSUME NEW t \in TimerIds, TimerLapses(t) PROVE Inv'
  <2>1. /\ timer' = [timer EXCEPT ![t] = "done"] /\ timer[t] = "sleeping"
        /\ ~StillAway(t)
        /\ UNCHANGED <<game, inGames, joined, timerSeat, timerLeft, over, store, players>>
    BY <1>8 DEF TimerLapses, Due
  <2>2. TimerTasks'
    BY <1>0, <2>1 DEF TypeOK, TimerTasks
  \* While the game is paused it is in _games, so the lapsing timer is not
  \* the one of the player it waits for.
  <2>3. PausedHasTimer'
    <3>1. status = "paused" => inGames
      BY <1>0 DEF KeysInv
    <3> QED BY <1>0, <2>1, <3>1 DEF TypeOK, Waiting, PausedHasTimer, StillAway, game
  <2> QED BY <1>0, <1>a, <2>1, <2>2, <2>3 DEF TypeOK
<1>9. ASSUME NEW t \in TimerIds, Forfeit(t) PROVE Inv'
  BY <1>9, ForfeitPreserves
<1>10. ASSUME Tick PROVE Inv'
  <2>1. timerLeft' \in [TimerIds -> 0..Grace]
    BY <1>0, <1>10 DEF Tick, TypeOK
  <2>2. TimerTasks' /\ PausedHasTimer'
    BY <1>0, <1>10 DEF Tick, TimerTasks, Waiting, PausedHasTimer, game
  <2> QED BY <1>0, <1>10, <1>a, <2>1, <2>2 DEF Tick, TypeOK
<1>11. ASSUME NEW t \in Tasks, GameOver(t) \/ GameOverFails(t) PROVE Inv'
  BY <1>11, GameOverPreserves
<1>12. ASSUME LoopSaves \/ LoopSaved PROVE Inv'
  <2>1. /\ UNCHANGED <<game, inGames, joined, timers, over, players>>
        /\ saving' \in BOOLEAN /\ keys' \in BOOLEAN
        /\ (inGames => keys') /\ (saving' /\ ~SlowSets => keys')
    BY <1>0, <1>12 DEF LoopSaves, LoopSaved, KeysInv, TypeOK
  <2>2. TypeOK'
    BY <1>0, <2>1 DEF TypeOK, game, timers
  <2>3. Scored' /\ TurnParity'
    BY <2>1, ScoredUnchanged DEF game
  <2>4. Waiting' /\ TimerTasks' /\ Verdict'
    BY <1>0, <2>1 DEF Waiting, PausedHasTimer, TimerTasks, Verdict, game, timers
  <2>5. KeysInv'
    BY <1>0, <2>1 DEF KeysInv, game
  <2> QED BY <2>2, <2>3, <2>4, <2>5 DEF Inv
<1>13. ASSUME UNCHANGED vars PROVE Inv'
  BY <1>0, <1>13, <1>a, <1>b DEF vars, timers, TypeOK
<1> QED
  BY <1>1, <1>2, <1>3, <1>4, <1>5, <1>6, <1>7, <1>8, <1>9, <1>10, <1>11, <1>12, <1>13, ChoicesAssumption
  DEF Next

----------------------------------------------------------------------------
(* The theorems.                                                           *)

\* The invariant holds in every state of the engine.
THEOREM Invariance == Spec => []Inv
<1>1. Inv /\ [Next]_vars => Inv'
  BY NextInv
<1> QED BY InitInv, <1>1, PTL DEF Spec

\* Every variable of the engine keeps its type: the turn index stays in
\* range, and the winner is a seat or nobody.
THEOREM TypeCorrect == Spec => []TypeOK
<1>1. Inv => TypeOK
  BY DEF Inv
<1> QED BY Invariance, <1>1, PTL

\* The incrementally kept scores always equal the cells on the board, for
\* every board size.
THEOREM ScoresTheorem == Spec => []ScoresCountCells
<1>1. Inv => ScoresCountCells
  BY DEF Inv, Scored
<1> QED BY Invariance, <1>1, PTL

\* A game waits for one player at most, and exactly while it is paused.
THEOREM PausedForOneTheorem == Spec => []PausedForOne
<1>1. Inv => PausedForOne
  <2>1. \A s \in Seats : Cardinality({s}) = 1
    BY FS_Singleton
  <2> QED BY <2>1 DEF Inv, Waiting, PausedForOne
<1> QED BY Invariance, <1>1, PTL

\* A paused game always has a pending timer of the player it waits for.
THEOREM PausedHasTimerTheorem == Spec => []PausedHasTimer
<1>1. Inv => PausedHasTimer
  BY DEF Inv, Waiting
<1> QED BY Invariance, <1>1, PTL

\* A finished game's result is that of a full board, or of a timer that ran
\* out: the turn cap never decides a game.
THEOREM ResultIsEarnedTheorem == Spec => []ResultIsEarned
<1>1. ASSUME Inv, status = "finished", over[Mover] # "idle"
      PROVE  BoardFull(board) /\ \A s \in Seats :
               winner = s <=> Cardinality(Owned(board, s)) > Cardinality(Owned(board, Other(s)))
  <2>1. /\ BoardFull(board) /\ winner = Leader(scores)
        /\ scores \in [Seats -> Nat]
        /\ scores[1] = Cardinality(Owned(board, 1)) /\ scores[2] = Cardinality(Owned(board, 2))
    BY <1>1 DEF Inv, TypeOK, Verdict, Scored, ScoresCountCells
  <2>2. \A s \in Seats : winner = s <=> scores[s] > scores[Other(s)]
    BY <2>1 DEF Leader
  <2> QED BY <2>1, <2>2
<1>2. Inv => ResultIsEarned
  BY <1>1 DEF Inv, Verdict, ResultIsEarned
<1> QED BY Invariance, <1>2, PTL

\* A game that ended on the board runs the game-over sequence in one task.
THEOREM PersistedOnceTheorem == Spec => []BoardResultPersistedOnce
<1>1. Inv => BoardResultPersistedOnce
  BY DEF Inv, Verdict, BoardResultPersistedOnce
<1> QED BY Invariance, <1>1, PTL

\* No step changes a finished game: a second timer can only repeat the
\* verdict of the first.
THEOREM ResultIsFinalTheorem == Spec => ResultIsFinal
<1>. DEFINE Kept == status = "finished" =>
                        UNCHANGED <<status, winner, board, scores, turn, idx>>
<1>1. Inv /\ [Next]_vars => [Kept]_vars
  <2>. SUFFICES ASSUME Inv, Next, status = "finished"
                PROVE  UNCHANGED <<status, winner, board, scores, turn, idx>>
    OBVIOUS
  <2>1. TypeOK /\ Waiting /\ TimerTasks /\ Verdict
    BY DEF Inv
  <2>2. CASE SetUpSeat
    BY <2>2 DEF SetUpSeat, game
  <2>3. ASSUME NEW s \in Seats, NEW c \in Cells, Move(s, c) PROVE FALSE
    BY <2>3 DEF Move, MayMove
  <2>4. ASSUME NEW s \in Seats, ConnectionLost(s) \/ OldConnectionEnds(s)
        PROVE  UNCHANGED game
    BY <2>4 DEF ConnectionLost, OldConnectionEnds, HandleDisconnect, Accepts
  <2>5. ASSUME NEW s \in Seats, Reconnects(s)
        PROVE  UNCHANGED <<status, winner, board, scores, turn, idx>>
    BY <2>5 DEF Reconnects, HandleReconnect, Resumed, game
  <2>6. ASSUME NEW s \in Seats, ConnectsAfresh(s) PROVE UNCHANGED game
    BY <2>6 DEF ConnectsAfresh
  <2>7. ASSUME NEW t \in TimerIds, TimerStarts(t) \/ TimerLapses(t) PROVE UNCHANGED game
    BY <2>7 DEF TimerStarts, TimerLapses
  <2>8. CASE Tick
    BY <2>8 DEF Tick, game
  <2>9. ASSUME NEW t \in TimerIds, Forfeit(t)
        PROVE  UNCHANGED <<status, winner, board, scores, turn, idx>>
    <3>1. /\ timerSeat[t] \in disconnected /\ winner' = Other(timerSeat[t])
          /\ status' = "finished" /\ UNCHANGED <<board, scores, turn, idx>>
      BY <2>9 DEF Forfeit, StillAway
    <3>2. PICK u \in Tasks : over[u] # "idle"
      BY <2>1 DEF Verdict
    <3>3. u \in TimerIds
      BY <2>1, <3>1, <3>2 DEF Verdict
    <3>4. winner = Other(timerSeat[u]) /\ timerSeat[t] = timerSeat[u]
      BY <2>1, <3>1, <3>2, <3>3 DEF Verdict
    <3> QED BY <3>1, <3>4
  <2>10. ASSUME NEW t \in Tasks, GameOver(t) \/ GameOverFails(t) PROVE UNCHANGED game
    BY <2>10 DEF GameOver, GameOverFails, Notified, CleansUp, NothingToCleanUp, DeletesKeys
  <2>11. ASSUME LoopSaves \/ LoopSaved PROVE UNCHANGED game
    BY <2>11 DEF LoopSaves, LoopSaved
  <2> QED
    BY <2>2, <2>3, <2>4, <2>5, <2>6, <2>7, <2>8, <2>9, <2>10, <2>11, ChoicesAssumption
    DEF Next, game
<1> QED BY Invariance, <1>1, PTL DEF Spec, ResultIsFinal

\* Only the seat whose turn it is ever scores, and with every score the turn
\* number goes up by one: moves alternate through every pause.
THEOREM MovesAlternateTheorem == Spec => MovesAlternate
<1>. DEFINE Kept == \A s \in Seats : scores'[s] # scores[s] =>
                        s = (turn % 2) + 1 /\ turn' = turn + 1
<1>1. Inv /\ [Next]_vars => [Kept]_vars
  <2>. SUFFICES ASSUME Inv, Next, NEW s \in Seats, scores'[s] # scores[s]
                PROVE  s = (turn % 2) + 1 /\ turn' = turn + 1
    OBVIOUS
  <2>1. PICK p \in Seats, c \in Cells : Move(p, c)
    BY ChoicesAssumption
       DEF Next, SetUpSeat, ConnectionLost, OldConnectionEnds, HandleDisconnect, Reconnects,
           HandleReconnect, ConnectsAfresh, TimerStarts, TimerLapses, Forfeit, Tick, LoopSaves, LoopSaved,
           GameOver, Notified, Saved, CleansUp, NothingToCleanUp, DeletesKeys, GameOverFails, game
  <2>2. /\ p = idx + 1 /\ status = "in_progress" /\ turn' = turn + 1
        /\ scores' = [scores EXCEPT ![p] = @ + Cardinality(Claimed(board, c))]
    BY <2>1 DEF Move, MayMove, Current
  <2>3. s = p
    BY <2>2 DEF Inv, TypeOK
  <2>4. idx = turn % 2
    BY <2>2 DEF Inv, TurnParity
  <2> QED BY <2>2, <2>3, <2>4
<1> QED BY Invariance, <1>1, PTL DEF Spec, MovesAlternate

\* Once the keys of a room are deleted no step writes them again, provided
\* that no SET of the snapshot loop is slower than the clean-up.
THEOREM KeysStayDeletedTheorem ==
    ASSUME ~SlowSets
    PROVE  Spec => KeysStayDeleted
<1>1. Inv /\ [Next]_vars => [~keys => ~keys']_vars
  <2>. SUFFICES ASSUME Inv, Next, ~keys PROVE ~keys'
    OBVIOUS
  <2>1. ~inGames
    BY DEF Inv, KeysInv
  <2>2. ASSUME NEW t \in Tasks, GameOver(t) PROVE ~keys'
    <3>1. CASE Notified(t)
      BY <2>1, <3>1 DEF Notified, Saved
    <3>2. CASE CleansUp(t)
      BY <3>2 DEF CleansUp
    <3>3. CASE NothingToCleanUp(t)
      BY <3>3 DEF NothingToCleanUp
    <3>4. CASE DeletesKeys(t)
      BY <3>4 DEF DeletesKeys
    <3> QED BY <2>2, <3>1, <3>2, <3>3, <3>4 DEF GameOver
  <2>3. ASSUME keys' = keys PROVE ~keys'
    BY <2>3
  <2>4. ASSUME LoopSaves \/ LoopSaved PROVE ~keys'
    BY <2>4 DEF LoopSaves, LoopSaved, Inv, KeysInv
  <2> QED
    BY <2>2, <2>3, <2>4 DEF Next, SetUpSeat, Move, ConnectionLost, OldConnectionEnds, Reconnects,
        ConnectsAfresh, TimerStarts, TimerLapses, Forfeit, Tick, GameOverFails
<1> QED BY Invariance, <1>1, PTL DEF Spec, KeysStayDeleted

----------------------------------------------------------------------------
(* The board.                                                              *)

\* An unfinished game has a free cell, and turns are left under any cap that
\* is not below the cell count.
RoomToMove ==
    /\ turn <= Size * Size
    /\ status # "finished" => ~BoardFull(board) /\ turn < Size * Size

\* Every turn has claimed a cell, so turns run out with the cells.
LEMMA TurnsCountCells ==
    ASSUME Inv
    PROVE  /\ turn <= Size * Size
           /\ ~BoardFull(board) => turn < Size * Size
<1>. USE TerritoryAssumption
<1>1. /\ turn \in Nat /\ board \in Boards
      /\ turn <= Cardinality(Owned(board, 1)) + Cardinality(Owned(board, 2))
  BY DEF Inv, TypeOK, Scored, ScoresCountCells
<1>2. Size * Size \in Nat
  OBVIOUS
<1>. DEFINE A == Owned(board, 1)
           B == Owned(board, 2)
<1>3. A \in SUBSET Cells /\ B \in SUBSET Cells /\ A \cap B = {}
  BY DEF Owned
<1>. HIDE DEF A, B
<1>4. /\ Cardinality(A) \in Nat /\ Cardinality(B) \in Nat
      /\ Cardinality(A \cup B) = Cardinality(A) + Cardinality(B)
  BY <1>3, CellSets
<1>5. Cardinality(A \cup B) <= Size * Size
  BY <1>3, CellsFinite, FS_Subset
<1>6. turn <= Cardinality(A) + Cardinality(B)
  BY <1>1 DEF A, B
<1>7. turn <= Size * Size
  BY <1>1, <1>2, <1>4, <1>5, <1>6
<1>8. Cardinality(A) + Cardinality(B) >= Size * Size => BoardFull(board)
  BY <1>1, FullByCount DEF A, B
<1> QED BY <1>1, <1>2, <1>4, <1>6, <1>7, <1>8

\* The seat to move can always move: a game is never left unfinished on a full
\* board, and takes at most as many turns as there are cells.
THEOREM RoomToMoveTheorem == Spec => []RoomToMove
<1>. DEFINE NotFull == status # "finished" => ~BoardFull(board)
<1>1. Init => NotFull
  <2>1. <<0, 0>> \in Cells
    BY TerritoryAssumption DEF Cells
  <2> QED BY <2>1 DEF Init, BoardFull, Owned, EmptyBoard
<1>2. NotFull /\ [Next]_vars => NotFull'
  <2>. SUFFICES ASSUME NotFull, [Next]_vars PROVE NotFull'
    OBVIOUS
  <2>1. ASSUME NEW s \in Seats, NEW c \in Choices, Move(s, c) PROVE NotFull'
    BY <2>1 DEF Move, Ends
  <2>2. ASSUME board' = board, status' # "finished" => status # "finished" PROVE NotFull'
    BY <2>2
  <2> QED
    BY <2>1, <2>2 DEF Next, SetUpSeat, ConnectionLost, OldConnectionEnds, HandleDisconnect,
       Accepts, Reconnects, HandleReconnect, Resumed, ConnectsAfresh, TimerStarts, TimerLapses,
       Forfeit, Tick, LoopSaves, LoopSaved, GameOver, Notified, CleansUp, NothingToCleanUp,
       DeletesKeys, GameOverFails, game, vars
<1>3. Inv /\ NotFull => RoomToMove
  BY TurnsCountCells DEF RoomToMove
<1> QED BY Invariance, <1>1, <1>2, <1>3, PTL DEF Spec

\* A cell, once owned, never changes hands nor becomes free again.
TerritoryIsKept == [][\A c \in Cells : board[c] # Empty => board'[c] = board[c]]_vars

\* "Each piece claims adjacent empty cells" (module docstring), and nothing
\* else takes a cell from anybody.
THEOREM TerritoryIsKeptTheorem == Spec => TerritoryIsKept
<1>1. [Next]_vars => [\A c \in Cells : board[c] # Empty => board'[c] = board[c]]_vars
  <2>. SUFFICES ASSUME Next, NEW c \in Cells, board[c] # Empty PROVE board'[c] = board[c]
    OBVIOUS
  <2>1. ASSUME NEW s \in Seats, NEW d \in Choices, Move(s, d) PROVE board'[c] = board[c]
    <3>1. board[d] = Empty /\ board' = Place(board, s, d)
      BY <2>1 DEF Move
    <3>2. c \notin Claimed(board, d)
      BY <3>1 DEF Claimed
    <3> QED BY <3>1, <3>2 DEF Place
  <2>2. ASSUME board' = board PROVE board'[c] = board[c]
    BY <2>2
  <2> QED
    BY <2>1, <2>2 DEF Next, SetUpSeat, ConnectionLost, OldConnectionEnds, HandleDisconnect,
       Reconnects, HandleReconnect, ConnectsAfresh, TimerStarts, TimerLapses, Forfeit, Tick,
       LoopSaves, LoopSaved, GameOver, Notified, CleansUp, NothingToCleanUp, DeletesKeys,
       GameOverFails, game, vars
<1> QED BY <1>1, PTL DEF Spec, TerritoryIsKept

----------------------------------------------------------------------------
(* The engine implements TerritoryGame.                                    *)

\* Of a set of one seat, CHOOSE picks that seat.
LEMMA OnlyOne ==
    ASSUME NEW D, NEW s \in Seats, D = {s}
    PROVE  (CHOOSE x \in Seats : x \in D) = s
<1>1. \E x \in Seats : x \in D
  OBVIOUS
<1>2. (CHOOSE x \in Seats : x \in D) \in D
  BY <1>1
<1> QED BY <1>2

\* A running game awaits nobody, a paused one the player on its list.
LEMMA AwaitedNow ==
    /\ status # "paused" => Awaited = NoSeat
    /\ \A s \in Seats : status = "paused" /\ disconnected = {s} => Awaited = s
BY OnlyOne DEF Awaited

\* The same after a step.
LEMMA AwaitedNext ==
    /\ status' # "paused" => Awaited' = NoSeat
    /\ \A s \in Seats : status' = "paused" /\ disconnected' = {s} => Awaited' = s
BY OnlyOne DEF Awaited

\* The game starts as the rules say.
LEMMA GameInit == Init => T!Init
<1>. SUFFICES ASSUME Init PROVE T!Init
  OBVIOUS
<1>1. Awaited = NoSeat
  BY AwaitedNow DEF Init
<1> QED BY <1>1 DEF Init, T!Init, Current

\* A move is a turn of the seat to move: if it ends the game the board is full,
\* and the scores name the seat with more territory.
LEMMA MovePlays ==
    ASSUME Inv, Inv', NEW s \in Seats, NEW c \in Cells, Move(s, c)
    PROVE  T!Turn(c)
<1>1. /\ status = "in_progress" /\ s = Current
      /\ board[c] = Empty /\ board' = Place(board, s, c)
      /\ disconnected' = disconnected
  BY DEF Move, MayMove
<1>2. status' # "paused"
  BY <1>1 DEF Move
<1>3. Awaited' = Awaited
  BY <1>1, <1>2, AwaitedNow, AwaitedNext
<1>4. CASE Ends(board', turn')
  <2>1. /\ status' = "finished" /\ winner' = Leader(scores') /\ Current' = Current
        /\ over' = [over EXCEPT ![Mover] = "notifying"]
    BY <1>4 DEF Move, Current
  <2>2. BoardFull(board')
    BY <2>1 DEF Inv, TypeOK, Verdict
  <2>3. scores' = [o \in Seats |-> Cardinality(Owned(board', o))]
    <3>1. scores' = [o \in Seats |-> scores'[o]]
      BY DEF Inv, TypeOK
    <3>2. \A o \in Seats : scores'[o] = Cardinality(Owned(board', o))
      BY DEF Inv, Scored, ScoresCountCells
    <3> QED BY <3>1, <3>2
  <2>4. winner' = MostCells(board')
    BY <2>1, <2>3 DEF MostCells
  <2> QED BY <1>1, <1>3, <2>1, <2>2, <2>4 DEF T!Turn, Free
<1>5. CASE ~Ends(board', turn')
  <2>1. ~BoardFull(board') /\ idx' = Advanced(idx) /\ UNCHANGED <<status, winner>>
    BY <1>5 DEF Move, Ends
  <2>2. Current' = T!Opponent(Current)
    BY <2>1 DEF Current, Advanced, T!Opponent, Inv, TypeOK
  <2> QED BY <1>1, <1>3, <2>1, <2>2 DEF T!Turn, Free
<1> QED BY <1>4, <1>5

\* A report of a lost connection pauses a running game for that player, and
\* means nothing to any other game.
LEMMA DisconnectPlays ==
    ASSUME Inv, NEW s \in Seats, HandleDisconnect(s)
    PROVE  T!Pause(s) \/ UNCHANGED T!view
<1>1. CASE Accepts
  <2>1. /\ status = "in_progress" /\ status' = "paused" /\ disconnected = {}
        /\ disconnected' = {s} /\ UNCHANGED <<board, idx, winner>>
    BY <1>1 DEF HandleDisconnect, Accepts, Inv, Waiting
  <2>2. Awaited' = s
    BY <2>1, AwaitedNext
  <2> QED BY <2>1, <2>2 DEF T!Pause, Current
<1>2. CASE ~Accepts
  <2>1. UNCHANGED game
    BY <1>2 DEF HandleDisconnect
  <2> QED BY <2>1 DEF game, T!view, Current, Awaited
<1> QED BY <1>1, <1>2

\* The return of the awaited player resumes the game; that of the other one,
\* and a return to a finished game, means nothing.
LEMMA ReconnectPlays ==
    ASSUME Inv, NEW s \in Seats, HandleReconnect(s)
    PROVE  T!Resume \/ UNCHANGED T!view
<1>1. CASE inGames /\ status = "paused"
  <2>1. PICK a \in Seats : disconnected = {a}
    BY <1>1 DEF Inv, Waiting
  <2>2. Awaited = a
    BY <1>1, <2>1, AwaitedNow
  <2>3. CASE a = s
    <3>1. status' = "in_progress" /\ UNCHANGED <<board, idx, winner>>
      BY <1>1, <2>1, <2>3 DEF HandleReconnect, Resumed
    <3>2. Awaited' = NoSeat
      BY <3>1, AwaitedNext
    <3> QED BY <1>1, <3>1, <3>2 DEF T!Resume, Current
  <2>4. CASE a # s
    <3>1. disconnected' = {a} /\ status' = "paused" /\ UNCHANGED <<board, idx, winner>>
      BY <1>1, <2>1, <2>4 DEF HandleReconnect, Resumed
    <3>2. Awaited' = a
      BY <3>1, AwaitedNext
    <3> QED BY <1>1, <2>2, <3>1, <3>2 DEF T!view, Current
  <2> QED BY <2>3, <2>4
<1>2. CASE ~(inGames /\ status = "paused")
  <2>1. status # "paused" \/ UNCHANGED game
    BY <1>2 DEF HandleReconnect
  <2>2. CASE status # "paused"
    <3>1. status' = status /\ UNCHANGED <<board, idx, winner>>
      BY <2>2 DEF HandleReconnect, Resumed, game
    <3>2. Awaited = NoSeat /\ Awaited' = NoSeat
      BY <2>2, <3>1, AwaitedNow, AwaitedNext
    <3> QED BY <3>1, <3>2 DEF T!view, Current
  <2>3. CASE UNCHANGED game
    BY <2>3 DEF game, T!view, Current, Awaited
  <2> QED BY <2>1, <2>2, <2>3
<1> QED BY <1>1, <1>2

\* With two seats the opponent is the other seat.
LEMMA OpponentIsOther == \A s \in Seats : T!Opponent(s) = Other(s)
BY DEF T!Opponent

\* The timer of the awaited player forfeits the game; a later one finds a
\* finished game and repeats its result.
LEMMA ForfeitPlays ==
    ASSUME Inv, NEW t \in TimerIds, Forfeit(t)
    PROVE  T!Forfeit \/ UNCHANGED T!view
<1>0. Waiting /\ Verdict /\ TypeOK
  BY DEF Inv
<1>1. /\ timerSeat[t] \in disconnected /\ winner' = Other(timerSeat[t])
      /\ status' = "finished" /\ UNCHANGED <<board, idx>>
  BY DEF Forfeit, StillAway
<1>2. Awaited' = NoSeat
  BY <1>1, AwaitedNext
<1>3. CASE status = "paused"
  <2>1. timerSeat[t] \in Seats /\ disconnected = {timerSeat[t]}
    BY <1>1, <1>3 DEF Inv, Waiting
  <2>2. Awaited = timerSeat[t]
    BY <1>3, <2>1, AwaitedNow
  <2>3. T!Opponent(timerSeat[t]) = Other(timerSeat[t])
    BY <2>1, OpponentIsOther
  <2> QED BY <1>1, <1>2, <1>3, <2>2, <2>3 DEF T!Forfeit, Current
<1>4. CASE status = "finished"
  <2>1. PICK u \in Tasks : over[u] # "idle"
    BY <1>0, <1>4 DEF Verdict
  <2>2. u \in TimerIds
    <3>1. disconnected # {}
      BY <1>1
    <3>2. over[Mover] = "idle"
      BY <1>0, <3>1 DEF Verdict
    <3> QED BY <2>1, <3>2
  <2>3. winner = Other(timerSeat[u]) /\ timerSeat[t] = timerSeat[u]
    BY <1>0, <1>1, <2>1, <2>2 DEF Verdict
  <2>4. winner' = winner /\ Awaited = NoSeat
    BY <1>1, <1>4, <2>3, AwaitedNow
  <2> QED BY <1>1, <1>2, <1>4, <2>4 DEF T!view, Current
<1>5. status # "in_progress"
  BY <1>1 DEF Inv, Waiting
<1> QED BY <1>3, <1>4, <1>5 DEF Inv, TypeOK

\* The engine implements the game its docstrings describe: a move is a turn, a
\* loss, a return and a forfeit are what the players are told they are, and
\* every other step of the engine is invisible in the game.
THEOREM ImplementsTerritoryGame == Spec => PlaysByTheRules
<1>1. Inv /\ Inv' /\ [Next]_vars => [T!Next]_T!view
  <2>. SUFFICES ASSUME Inv, Inv', [Next]_vars PROVE T!Next \/ UNCHANGED T!view
    OBVIOUS
  <2>1. ASSUME UNCHANGED game PROVE UNCHANGED T!view
    BY <2>1 DEF game, T!view, Current, Awaited
  <2>2. ASSUME NEW s \in Seats, NEW c \in Cells, Move(s, c) PROVE T!Next
    BY <2>2, MovePlays DEF T!Next
  <2>3. ASSUME NEW s \in Seats, ConnectionLost(s) \/ OldConnectionEnds(s)
        PROVE  T!Next \/ UNCHANGED T!view
    <3>1. HandleDisconnect(s) \/ UNCHANGED game
      BY <2>3 DEF ConnectionLost, OldConnectionEnds
    <3>2. ASSUME HandleDisconnect(s) PROVE T!Next \/ UNCHANGED T!view
      <4>1. T!Pause(s) \/ UNCHANGED T!view
        BY <3>2, DisconnectPlays
      <4>2. s \in {1, 2}
        OBVIOUS
      <4> QED BY <4>1, <4>2 DEF T!Next
    <3> QED BY <2>1, <3>1, <3>2
  <2>4. ASSUME NEW s \in Seats, Reconnects(s) PROVE T!Next \/ UNCHANGED T!view
    <3>1. HandleReconnect(s)
      BY <2>4 DEF Reconnects
    <3> QED BY <3>1, ReconnectPlays DEF T!Next
  <2>5. ASSUME NEW t \in TimerIds, Forfeit(t) PROVE T!Next \/ UNCHANGED T!view
    BY <2>5, ForfeitPlays DEF T!Next
  <2>6. ASSUME NEW t \in Tasks, GameOver(t) \/ GameOverFails(t) PROVE UNCHANGED game
    BY <2>6 DEF GameOver, GameOverFails, Notified, CleansUp, NothingToCleanUp, DeletesKeys
  <2>7. ASSUME \/ SetUpSeat \/ Tick \/ LoopSaves \/ LoopSaved \/ UNCHANGED vars
               \/ \E s \in Seats : ConnectsAfresh(s)
               \/ \E t \in TimerIds : TimerStarts(t) \/ TimerLapses(t)
        PROVE  UNCHANGED game
    BY <2>7 DEF SetUpSeat, Tick, LoopSaves, LoopSaved, ConnectsAfresh, TimerStarts, TimerLapses, vars
  <2> QED
    BY <2>1, <2>2, <2>3, <2>4, <2>5, <2>6, <2>7, ChoicesAssumption DEF Next
<1> QED BY Invariance, GameInit, <1>1, PTL DEF Spec, PlaysByTheRules, T!Spec

----------------------------------------------------------------------------
(* The safety half of FinishedIsRemoved.                                   *)

\* While a finished game is still in _games, or still has its keys, some task
\* has yet to take that step of the game-over sequence, or has failed in it.
RemovalPending ==
    /\ status = "finished" /\ inGames =>
          \E t \in Tasks : over[t] \in {"notifying", "saving", "failed"}
    /\ ~inGames /\ keys =>
          \E t \in Tasks : over[t] \in {"cleaning", "failed"}

\* The tasks of the game-over sequence hand the work on until it is done.
LEMMA GameOverKeepsPending ==
    ASSUME Inv, RemovalPending, NEW t \in Tasks, GameOver(t) \/ GameOverFails(t)
    PROVE  RemovalPending'
<1>. USE DEF RemovalPending
<1>0. over = [u \in Tasks |-> over[u]] /\ KeysInv
  BY DEF Inv, TypeOK
<1>1. CASE Notified(t)
  <2>1. /\ over'[t] = "saving" /\ \A u \in Tasks : u # t => over'[u] = over[u]
        /\ over[t] = "notifying" /\ inGames' = inGames /\ status' = status
    BY <1>0, <1>1 DEF Notified, game
  <2>2. ~inGames /\ keys' => keys
    BY <1>1 DEF Notified, Saved
  <2>3. inGames' => \E u \in Tasks : over'[u] \in {"notifying", "saving", "failed"}
    BY <2>1
  <2>4. ASSUME ~inGames', keys'
        PROVE  \E u \in Tasks : over'[u] \in {"cleaning", "failed"}
    <3>1. PICK u \in Tasks : over[u] \in {"cleaning", "failed"}
      BY <2>1, <2>2, <2>4
    <3>2. over'[u] = over[u]
      BY <2>1, <3>1
    <3> QED BY <3>1, <3>2
  <2> QED BY <2>3, <2>4
<1>2. CASE CleansUp(t)
  <2>1. over'[t] = "cleaning" /\ inGames' = FALSE
    BY <1>0, <1>2 DEF CleansUp
  <2> QED BY <2>1
<1>3. CASE NothingToCleanUp(t)
  <2>1. /\ over[t] = "saving" /\ \A u \in Tasks : u # t => over'[u] = over[u]
        /\ inGames' = inGames /\ keys' = keys /\ ~inGames
    BY <1>0, <1>3 DEF NothingToCleanUp
  <2> QED BY <2>1
<1>4. CASE DeletesKeys(t)
  <2>1. ~inGames /\ ~inGames' /\ ~keys'
    BY <1>0, <1>4 DEF DeletesKeys, KeysInv
  <2> QED BY <2>1
<1>5. CASE GameOverFails(t)
  <2>1. over'[t] = "failed"
    BY <1>0, <1>5 DEF GameOverFails
  <2> QED BY <2>1
<1> QED BY <1>1, <1>2, <1>3, <1>4, <1>5 DEF GameOver

\* No order of moves, forfeits, failures and snapshots leaves a finished game
\* behind with nobody in charge of removing it, if no SET is slower than the
\* clean-up.
THEOREM RemovalPendingTheorem ==
    ASSUME ~SlowSets
    PROVE  Spec => []RemovalPending
<1>1. Init => RemovalPending
  BY DEF Init, RemovalPending
<1>2. Inv /\ RemovalPending /\ [Next]_vars => RemovalPending'
  <2>. SUFFICES ASSUME Inv, RemovalPending, [Next]_vars PROVE RemovalPending'
    OBVIOUS
  <2>0. over = [u \in Tasks |-> over[u]] /\ KeysInv
    BY DEF Inv, TypeOK
  <2>1. ASSUME NEW s \in Seats, NEW c \in Choices, Move(s, c) PROVE RemovalPending'
    <3>1. inGames /\ inGames' = inGames /\ status # "finished"
      BY <2>1 DEF Move, MayMove
    <3>2. CASE over' = [over EXCEPT ![Mover] = "notifying"]
      <4>1. over'[Mover] = "notifying"
        BY <2>0, <3>2
      <4> QED BY <3>1, <4>1 DEF RemovalPending
    <3>3. CASE status' = status
      BY <3>1, <3>3 DEF RemovalPending
    <3> QED BY <2>1, <3>2, <3>3 DEF Move
  <2>2. ASSUME NEW t \in TimerIds, Forfeit(t) PROVE RemovalPending'
    <3>1. over'[t] = "notifying" /\ inGames' /\ t \in Tasks
      BY <2>0, <2>2 DEF Forfeit, StillAway
    <3> QED BY <3>1 DEF RemovalPending
  <2>3. ASSUME NEW t \in Tasks, GameOver(t) \/ GameOverFails(t) PROVE RemovalPending'
    BY <2>3, GameOverKeepsPending
  <2>4. CASE LoopSaves \/ LoopSaved
    <3>1. keys' => keys \/ inGames
      BY <2>0, <2>4, ~SlowSets DEF LoopSaves, LoopSaved, KeysInv
    <3>2. UNCHANGED <<status, inGames, over>>
      BY <2>4 DEF LoopSaves, LoopSaved, game
    <3> QED BY <2>0, <2>4, <3>1, <3>2, ~SlowSets DEF RemovalPending, LoopSaves, LoopSaved, KeysInv
  <2>5. ASSUME UNCHANGED <<inGames, over, keys>>, status' = "finished" => status = "finished"
        PROVE  RemovalPending'
    BY <2>5 DEF RemovalPending
  <2>6. ASSUME NEW s \in Seats,
               \/ ConnectionLost(s) \/ OldConnectionEnds(s)
               \/ Reconnects(s) \/ ConnectsAfresh(s)
        PROVE  RemovalPending'
    <3>1. UNCHANGED <<inGames, over, keys>>
      BY <2>6 DEF ConnectionLost, OldConnectionEnds, Reconnects, ConnectsAfresh
    <3>2. status' = "finished" => status = "finished"
      BY <2>6 DEF ConnectionLost, OldConnectionEnds, HandleDisconnect, Reconnects,
                  HandleReconnect, Resumed, ConnectsAfresh, game
    <3> QED BY <2>5, <3>1, <3>2
  <2>7. ASSUME \/ SetUpSeat \/ Tick \/ UNCHANGED vars
               \/ \E t \in TimerIds : TimerStarts(t) \/ TimerLapses(t)
        PROVE  RemovalPending'
    BY <2>5, <2>7 DEF SetUpSeat, Tick, TimerStarts, TimerLapses, game, vars
  <2> QED BY <2>1, <2>2, <2>3, <2>4, <2>6, <2>7 DEF Next
<1> QED BY Invariance, <1>1, <1>2, PTL DEF Spec
=============================================================================
