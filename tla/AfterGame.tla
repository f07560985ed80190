------------------------------ MODULE AfterGame ------------------------------
(***************************************************************************)
(* What a game leaves behind while its players go on to the next one: the  *)
(* keys player_room:{id} by which the endpoint routes a game_action        *)
(* (app/api/ws_routes.py, app/core/session_manager.py), the game-over      *)
(* sequence and the delayed clean-up (app/core/game_engine.py), and the    *)
(* tasks that persist the result (Results).                                *)
(*                                                                         *)
(* All games run on one instance.  As in GameEngine, a game that ends on   *)
(* the board has one task in the game-over sequence, and a forfeit may     *)
(* have two, those of two timers of the absent player: 1 and 2 here.       *)
(* Moves are reduced to the one that ends the game, and games are shorter *)
(* than the TTL of the keys, which no activity renews.                     *)
(***************************************************************************)
EXTENDS Results

CONSTANTS Games,    \* room ids, numbered, each used for one game
          NoRoom,   \* the key does not exist
          Fixtures, \* bound: the pairs that may play each game
          Timers    \* bound: the timers of an absent player that may run out in it

OverTasks == {1, 2}

\* Every task of a game-over sequence starts one task that persists.
ASSUME AfterGameAssumption ==
    /\ Games \subseteq Nat
    /\ Tasks = Games \X OverTasks
    /\ NoRoom \notin Games
    /\ Fixtures \in [Games -> SUBSET Pairs]
    /\ Timers \in [Games -> OverTasks]

VARIABLES
    inGames,   \* the keys of _games
    seats,     \* player_ids of each game; <<>> before it exists
    joined,    \* how many seats create_game() has set up
    verdict,   \* "none", "board" or "forfeit"
    won,       \* winner_id
    over,      \* where each task is in the game-over sequence
    roomOf     \* player_room:{id}

rooms == <<inGames, seats, joined, verdict, won, over, roomOf>>
vars == <<rooms, results>>

OverStages == {"idle", "notifying", "saving", "sleeping", "done"}

Exists(g) == seats[g] # <<>>
Unused(g) == ~Exists(g)

TypeOK ==
    /\ ResultsTypeOK
    /\ inGames \subseteq Games
    /\ seats \in [Games -> Pairs \cup {<<>>}]
    /\ joined \in [Games -> 0..2]
    /\ verdict \in [Games -> {"none", "board", "forfeit"}]
    /\ won \in [Games -> Players \cup {NoPlayer}]
    /\ over \in [Tasks -> OverStages]
    /\ roomOf \in [Players -> Games \cup {NoRoom}]

Init ==
    /\ ResultsInit
    /\ inGames = {}
    /\ seats = [g \in Games |-> <<>>]
    /\ joined = [g \in Games |-> 0]
    /\ verdict = [g \in Games |-> "none"]
    /\ won = [g \in Games |-> NoPlayer]
    /\ over = [t \in Tasks |-> "idle"]
    /\ roomOf = [p \in Players |-> NoRoom]

----------------------------------------------------------------------------
(* From the pop of a pair to the running game.                             *)

Has(g, p) == Exists(g) /\ p \in Members(seats[g])
Running(g) == Exists(g) /\ joined[g] = 2 /\ verdict[g] = "none"
Unfinished(g) == Exists(g) /\ verdict[g] = "none"

\* p may search: its last game is over, and the server is through with telling
\* it.  The page offers the search three seconds after game_over, the clean-up
\* takes five.  (Loaded anew, it would offer it during the game, too.)
MaySearch(p) ==
    \A g \in Games : Has(g, p) =>
        /\ ~Unfinished(g)
        /\ \A k \in OverTasks : over[<<g, k>>] # "notifying"

\* The pair is popped and create_game() stores the game.  Room ids are fresh
\* and arbitrary: they are taken in order.
Starts(g, x) ==
    /\ Unused(g)
    /\ \A h \in Games : h < g => Exists(h)
    /\ \A p \in Members(x) : MaySearch(p)
    /\ seats' = [seats EXCEPT ![g] = x]
    /\ inGames' = inGames \cup {g}
    /\ UNCHANGED <<joined, verdict, won, over, roomOf, results>>

\* Variant: set_player_room() keeps a key that exists.
SetsUpSeatOnce(g) ==
    /\ Exists(g)
    /\ joined[g] < 2
    /\ joined' = [joined EXCEPT ![g] = @ + 1]
    /\ roomOf' = [roomOf EXCEPT ![seats[g][joined'[g]]] = IF @ = NoRoom THEN g ELSE @]
    /\ UNCHANGED <<inGames, seats, verdict, won, over, results>>

\* set_player_room() of the next seat.
SetsUpSeat(g) ==
    /\ Exists(g)
    /\ joined[g] < 2
    /\ joined' = [joined EXCEPT ![g] = @ + 1]
    /\ roomOf' = [roomOf EXCEPT ![seats[g][joined'[g]]] = g]
    /\ UNCHANGED <<inGames, seats, verdict, won, over, results>>

----------------------------------------------------------------------------
(* The end of a game.                                                      *)

\* The last move: the endpoint looks up the room of the player, and the
\* engine finds the game there.
FinishesOnBoard(g, p) ==
    /\ Running(g)
    /\ roomOf[p] = g
    /\ verdict' = [verdict EXCEPT ![g] = "board"]
    /\ \E w \in Winners(seats[g]) : won' = [won EXCEPT ![g] = w]
    /\ over' = [over EXCEPT ![<<g, 1>>] = "notifying"]
    /\ UNCHANGED <<inGames, seats, joined, roomOf, results>>

\* Variant: a stale timer forfeits a player who is not absent any more.
ForfeitsStale(g, p, k) ==
    /\ g \in inGames
    /\ Has(g, p)
    /\ Running(g) \/ verdict[g] # "none"
    /\ over[<<g, k>>] = "idle"
    /\ \A j \in OverTasks : j < k => over[<<g, j>>] # "idle"
    /\ verdict' = [verdict EXCEPT ![g] = "forfeit"]
    /\ won' = [won EXCEPT ![g] = Opponent(p, seats[g])]
    /\ over' = [over EXCEPT ![<<g, k>>] = "notifying"]
    /\ UNCHANGED <<inGames, seats, joined, roomOf, results>>

\* A timer of p runs out; the second one of p may come while the first is in
\* the game-over sequence.  Timers are numbered as they run out.
Forfeits(g, p, k) ==
    /\ g \in inGames
    /\ Has(g, p)
    /\ Running(g) \/ (verdict[g] = "forfeit" /\ won[g] = Opponent(p, seats[g]))
    /\ over[<<g, k>>] = "idle"
    /\ \A j \in OverTasks : j < k => over[<<g, j>>] # "idle"
    /\ verdict' = [verdict EXCEPT ![g] = "forfeit"]
    /\ won' = [won EXCEPT ![g] = Opponent(p, seats[g])]
    /\ over' = [over EXCEPT ![<<g, k>>] = "notifying"]
    /\ UNCHANGED <<inGames, seats, joined, roomOf, results>>

\* The players have been told: create_task(_persist_result), and the final
\* snapshot is awaited.
Ends(g, k) ==
    /\ over[<<g, k>>] = "notifying"
    /\ Launch(<<g, k>>, seats[g], won[g])
    /\ over' = [over EXCEPT ![<<g, k>>] = "saving"]
    /\ UNCHANGED <<inGames, seats, joined, verdict, won, roomOf>>

\* _cleanup_game() pops the game and sleeps, or returns.
CleansUp(g, k) ==
    /\ over[<<g, k>>] = "saving"
    /\ inGames' = inGames \ {g}
    /\ over' = [over EXCEPT ![<<g, k>>] = IF g \in inGames THEN "sleeping" ELSE "done"]
    /\ UNCHANGED <<seats, joined, verdict, won, roomOf, results>>

\* The keys of both players are deleted, whatever they name by now.
DeletesKeys(g, k) ==
    /\ over[<<g, k>>] = "sleeping"
    /\ roomOf' = [p \in Players |-> IF p \in Members(seats[g]) THEN NoRoom ELSE roomOf[p]]
    /\ over' = [over EXCEPT ![<<g, k>>] = "done"]
    /\ UNCHANGED <<inGames, seats, joined, verdict, won, results>>

\* A publish to a player, before the result is handed to its task, the snapshot
\* or the deletion raises: the task ends there.
Raises(g, k) ==
    /\ over[<<g, k>>] \in {"notifying", "saving", "sleeping"}
    /\ over' = [over EXCEPT ![<<g, k>>] = "done"]
    /\ UNCHANGED <<inGames, seats, joined, verdict, won, roomOf, results>>

----------------------------------------------------------------------------
GameOver(g, k) ==
    \/ Ends(g, k)
    \/ CleansUp(g, k)
    \/ DeletesKeys(g, k)

Persists(t) == Proceeds(t) /\ UNCHANGED rooms

System ==
    \/ \E g \in Games : SetsUpSeat(g)
    \/ \E g \in Games, k \in OverTasks : GameOver(g, k)
    \/ \E t \in Tasks : Persists(t)

Next ==
    \/ \E g \in Games : \E x \in Fixtures[g] : Starts(g, x)
    \/ \E g \in Games, p \in Players : FinishesOnBoard(g, p)
    \/ \E g \in Games, p \in Players : \E k \in 1..Timers[g] : Forfeits(g, p, k)
    \/ System
    \/ \E g \in Games, k \in OverTasks : Raises(g, k)
    \/ \E t \in Tasks : RollsBack(t) /\ UNCHANGED rooms

\* Some coroutine whose await has returned goes on; a transaction that no
\* other one blocks counts as such.
Fairness == WF_vars(System)

Spec == Init /\ [][Next]_vars
FairSpec == Spec /\ Fairness

----------------------------------------------------------------------------
(* Properties.                                                             *)

\* "Get the room a player is currently in" (get_player_room): from the start
\* of a game to its end the endpoint routes the actions of both players to
\* it.  Otherwise it answers NOT_IN_GAME, and nobody can move.
RoutedToOwnGame ==
    \A g \in Games : Running(g) =>
        \A p \in Members(seats[g]) : roomOf[p] = g

\* What is true of it: an action of a player in a running game never reaches
\* another game, whatever its earlier games have left behind, and it reaches
\* its own unless one of those has been popped by its clean-up since.
RoutedOrDeleted ==
    \A g \in Games : Running(g) =>
        \A p \in Members(seats[g]) :
            roomOf[p] # g =>
                /\ roomOf[p] = NoRoom
                /\ \E h \in Games \ {g} : Has(h, p) /\ ~Unfinished(h) /\ h \notin inGames

\* The result of the game is not going to be recorded by this task: its
\* transaction is rolled back, or never started because telling the players
\* has raised.
Lost(t) == stage[t] = "failed" \/ (stage[t] = "idle" /\ over[t] = "done")

\* Every finished game enters the match history, unless an exception in front
\* of create_task() or in the transaction keeps it out: no lock, no other
\* result, no clean-up and no failure behind create_task() does.
ResultIsRecorded ==
    \A g \in Games : (Exists(g) /\ ~Unfinished(g)) ~>
        \E k \in OverTasks : stage[<<g, k>>] = "committed" \/ Lost(<<g, k>>)

\* All records of a game, also the second one of a forfeit that two timers
\* found, agree with each other and with the verdict of the engine.
RecordsAgree ==
    \A t \in Tasks : stage[t] # "idle" =>
        pair[t] = seats[t[1]] /\ winner[t] = won[t[1]]
=============================================================================
