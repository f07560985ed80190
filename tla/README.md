# Verification of the game backend

TLA+ models, TLC configurations and TLAPS proofs for the real-time game
backend under `src/`: a FastAPI server of which several instances share one
Redis and one PostgreSQL, and on which pairs of players play a turn-based
territory game over WebSockets.

`PROJECT.json` maps every definition of the models to source lines, and lists
the runs, the mutants that show that each property can fail, the hazards and
the theorems.

## 1. Inventory

All server code is asyncio: within one instance, one coroutine runs at a time
and control changes hands only at an `await`. Between instances everything
goes through Redis, where a command, a MULTI pipeline or a Lua script is
atomic.

| Component | State | Operations | What makes it hard | What makes it correct |
|---|---|---|---|---|
| Connection registry (`core/ws_manager.py`) | `_connections`, `_player_connections`, `_room_members`, `room_id` of each connection | connect (evicts), disconnect, join/leave room, sends, close_all | every close and accept suspends; late cleanups of evicted sockets | the three dictionaries agree; one connection per player; newest stays reachable |
| Game engine (`core/game_engine.py`) | `_games` of `ActiveGame`, one untracked task per disconnect timer | create_game, process_action, disconnect, reconnect, timers, game over, snapshots, restore | timers are never cancelled; game over suspends many times; Redis may fail in it | turns alternate; pauses end; results are earned, final, persisted once; keys are removed |
| Matchmaking (`core/matchmaking.py`, Lua) | Redis sorted set and hash of join times; the popped pair in local variables | enqueue, dequeue, pop, create match | several instances pop; the pair is in no queue between pop and game; cancel may come in between | nobody matched twice, lost, or queued after leaving; compatible players do get matched |
| Session manager (`core/session_manager.py`) | Redis hash `session:{player}`, key `player_room:{player}`, TTLs | create, get, update, mark disconnected, reconnect | read and write are separate Redis calls; TTLs; stale writers | a session names the live connection and the running game |
| Endpoint (`api/ws_routes.py`) | local variables of one coroutine per socket | connect, set up the session, message loop, clean up | several endpoints of one player overlap | the clean-up of an old socket does not harm the new one |
| Pub/sub (`core/redis_pubsub.py`) | handler tables, listener task | publish, listen, forward | at-most-once delivery; two ways to one player; sockets that move | news in order, once, true, and delivered to whoever keeps the socket |
| Wiring (`dependencies.py`, `main.py`) | singletons, heartbeat task | init, shutdown, heartbeat | shutdown order; nobody takes over the rooms of a dead instance | nobody is told of a game that does not exist |
| Persistence (`persistence/`, `models/database.py`) | PostgreSQL rows, one fire-and-forget task per result | create match, record result, update ELO | concurrent transactions on the same players, duplicates, rollbacks | results enter as wholes; counters equal the history; no lock cycle |
| Rate limiter (`api/middleware.py`) | Redis sorted set per client | check | stamped before, counted after each other | no window lets more than `max` through |
| REST routes (`api/rest_routes.py`), auth | rows of `players` | register, log in, read | check and INSERT are two statements; failing requests | unique accounts, earned refusals, every request answered |
| Schemas, configuration, logging | none of their own | pure functions | – | – |

How they interact: an endpoint registers its socket in the registry, creates
or restores the session, then routes messages: `find_match`/`cancel_match` to
the matchmaker, `game_action` to the engine. The matching loop of each instance
pops pairs and calls `create_game()` of its own engine, which writes the
sessions and joins the connections to the room. What a player should hear is
sent to the local socket or else published, and forwarded by the instance that
has the socket. When a socket ends, its
endpoint unregisters it, dequeues the player, marks the session disconnected
and, if the session names a room, tells the engine. The engine sends through
the registry, and a failing send unregisters a connection. A finished game is
persisted by a task of its own while the clean-up waits to delete its keys.

## 2. Modules

| Module | Models | Proofs |
|---|---|---|
| `ConnectionManager` | registry and endpoint stages of one instance | `ConnectionManager_proofs` |
| `Territory` | rules of the board as pure operators | `Territory_proofs` |
| `TerritoryGame` | abstract: the game the docstrings promise, its board rules as parameters | – |
| `GameEngine` (extends `Territory`) | implements `TerritoryGame`: one game from `create_game()` to the deletion of its keys, with its timers and the snapshot loop | `GameEngine_proofs` |
| `Matchmaking` | the shared queue, the loops of all instances, the searching players | `Matchmaking_proofs` |
| `SessionLifecycle` | the session of one player between endpoints, matchmaker and engine | `SessionLifecycle_proofs` |
| `Ratings` | what a result does to a player's row, as pure operators | `AfterGame_proofs` |
| `Ledger` (extends `Ratings`) | abstract: whole results, recorded one after the other | – |
| `Results` (extends `Ratings`) | the tasks that persist results, as transactions with row locks; implements `Ledger` | `AfterGame_proofs` |
| `AfterGame` (extends `Results`) | consecutive games of the same players: clean-up, `player_room` keys and the tasks of `Results` | `AfterGame_proofs` |
| `RateLimiter` | the sliding window for one client | `RestApi_proofs` |
| `RestApi` (extends `RateLimiter`) | registrations and log-ins behind the limiter | `RestApi_proofs` |
| `Cluster` | notifications of one pair between instances that start, stop and crash | `Cluster_proofs` |
| `MC*` | constants for TLC | |

Each module keeps, beside an operator that models code, the *variants* its
mutants use (`DisconnectAnyEntry`, `ResumedNever`, ...): the same operator
with a plausible mistake. No specification uses a variant.

### ConnectionManager

`connections`, `playerConn`, `roomMembers` and `room` are the three
dictionaries and the `room_id` fields. `stage`, `target` and `closing` are what
suspended coroutines remember: how far the endpoint of a socket is, whom its
`connect()` is evicting, and which connections a `_force_close()` is closing.
`connect()` is cut at its two awaits into `ConnectEvicts`/`ConnectFresh`,
`Evicted` and `Accepted`/`AcceptFails`. `Accepted` may end the endpoint with the
connection still registered: the session set-up in `websocket_endpoint` stands
outside the `try` whose `finally` unregisters. A timed-out send suspends in
`close()` (`SendTimesOut`, `ForceClosed`); a send that raises unregisters at
once (`SendFails`). A send that was started earlier may fail at any time, so a
failing send needs only a registered connection. Two `connect()` calls of a
player may be suspended together: one `await close()` of an evicted socket is
enough, however the ASGI server implements `accept()`.

### GameEngine and Territory

The fields of `ActiveGame` are variables of the same names. A player is a seat,
the position in `player_ids` plus one. From its checks to the turn change
`process_action` has no await that a valid move reaches, so `Move` is one step
and includes claiming, scoring, the game-over test and the turn. The
game-over sequence has a stage per await (`notifying`, `saving`, `cleaning`);
`over` holds it for each task that may run it: the last move's coroutine
(`Mover`) and every timer. Each accepted disconnect gets a timer task of its
own, created only after the opponent was notified (`starting`), as in the code;
tasks are never cancelled. Environment: `present` (has the player a live
socket) and `session` (does the Redis session name the room, and is it
DISCONNECTED). `OldConnectionEnds` is the report of an evicted socket about a
player who is connected; it may rest on a session read before a newer
connection replaced it. `ConnectsAfresh` is `create_session()`, which writes an
empty `room_id`, so that later losses are not reported. `ConnectionLost` joins
the loss of a socket, `mark_disconnected` and the engine call, with the endpoint
at the game's instance; the awaits between them and the other instances are in
`SessionLifecycle`.

`_snapshot_loop` takes the game from `_games` and awaits one SET at a time:
`LoopSaves` and `LoopSaved`, which may bring back a key deleted in between.
`SlowSets` says whether one SET may outlast the five seconds of the clean-up.

Abstracted: what messages and snapshots contain, and the action history.

`TerritoryGame` is what the players are promised: the seats take turns until the
board is full and decides the game, a player who leaves comes back or forfeits,
a finished game takes no step. It has no timers, no set of absent players, no
turn counter and no scores. `PlaysByTheRules` maps it to the engine: `awaited`
is the one member of `disconnected` while the game is paused, and the seat with
more territory is computed from the cells of the board rather than from the
incremental scores.

### Matchmaking

`queue` is the sorted set with the hash of join times, `held` the pair an
instance has popped, `game` the running games. `Pop` is the Lua script that the
matchmaker keeps in a string and loads: the first pair, in the order of the
sorted set, within the smaller of the two tolerances. Time is counted in ticks;
a wait is not counted further once the tolerance has reached its cap, which
changes nothing. Players search, cancel and search again at any moment, also
while an instance holds them or while they play, which neither the server nor a
page that has been loaded anew prevents. `SocketLost` and `EndpointEnds` are two
steps: the endpoint of a lost or evicted socket dequeues by player id when it
gets to it, and by then the player may be waiting on a newer socket. `LosesPair`
is an exception between the pop and the stored game: the pair is in local
variables only and is gone.

### SessionLifecycle

`session` is the Redis hash with its TTL, `stage`, `home` and `seen` are where
the endpoint of each socket of one player is, at which instance, and what it has
read. Every call of the session manager that reads and then writes is two steps
(`Rereads`/`Claims` for `attempt_reconnect`, `ReadsToMark`/`Marks` for
`mark_disconnected`), and the look-up at the start of an endpoint is separate
from both (`LooksUp`). An HSET on an expired hash creates one without
`player_id`; `get_session` raises on it, inside or outside the `try` of the
endpoint. A TTL, long or short, may run out at any time; `update_session_state`
does not set one, so the hash that it creates stays. The registry is reduced to `online`, the connection whose
socket the client holds; the engines to `running`, `owner`, `creating` and
`away`, the games that count the player as absent and have a timer for it (that
they do have one is `PausedHasTimer` of `GameEngine`). An endpoint calls the
engine of its own instance: `Tells` and `Resumes` reach `GamesAt(home[c])` and
do nothing for a game of another instance.

The environment is that of the deployment: endpoints of one player overlap, at
the same or at different instances; a session may expire between any two
commands, also under a connection that has been idle for an hour; a socket may be
lost while `create_game` awaits; a page that has been loaded anew searches during
a game, and its cancel is accepted at any time. In such an environment the code
does lose track of games, and the properties say of which, by means of two
history variables that no action reads:

* `torn` is set when endpoints disturb each other: an endpoint reads the session
  while another one has it in hand or goes while its player's game is being
  created, or the session expires under an endpoint that goes by it. It is reset
  when all have ended, nothing is being created, and the session is disconnected
  or gone.
* `astray` are the running games of which the session or an engine has lost
  track: all that run while the player's endpoints are torn; and, when
  `create_game` is through, the earlier games in which the player is present
  (the session names the new one only), and the new one if the player's endpoint
  is not at its instance.

`AbsenceIsKnown`, `EngineAndSessionAgree` and `AbandonmentIsHandled` are about
the games that are not astray, and `SessionMatchesPlayer` holds unless torn.
What is left out: a client holds one socket at a time, and gives it up before
or when it opens the next; two pairs of one player are popped one after the
other (`Matchmaking` has the case of two at once); the opponents stay connected;
an instance that crashes takes its games along in `Cluster` only.

### Ratings, Ledger, Results and AfterGame

A task of `_persist_result` is one transaction at READ COMMITTED: `Launch` with
the INSERT of the match, an `UpdatesPlayer` per player, which takes the row lock
and may be blocked by another transaction, and `Commits` or `RollsBack`.
`pending` holds what it has written and nobody else can see. `update_elo`
increments the counters and overwrites the rating with the one the player
brought into the queue plus the change, `After`. The rating formula is the
constant `Points`, a table for the differences that occur. `Ledger` is the
promise of the docstring ("All updates happen in one transaction"), with the
same `After`: a result enters the match table and both rows in one step.
`AfterGame` composes the tasks with the games that start them: `seats`,
`joined`, `inGames` and `verdict` are a game in outline, `over` its game-over
tasks (one after the last move, up to two for a forfeit found by two timers),
`roomOf` the `player_room` keys that the endpoint routes a `game_action` by.
Players search again as soon as they have been told of the end (`MaySearch`), so
the clean-up of a game runs into the next one. `Raises` ends a game-over task at
any of its Redis calls: before `create_task(_persist_result)` the result is
lost, behind it only the clean-up. Moves before the last one do nothing here,
and the searches during a game that are possible after loading the page anew are
left to `SessionLifecycle` and `Matchmaking`.

### RateLimiter and RestApi

`Stamps` reads the clock, `Pipeline` executes the MULTI pipeline (remove, add,
count, expire) up to `Delay` later, so requests overtake each other; `Tick` lets
the key expire, and `PipelineFails` is an exception before or after Redis has
executed the pipeline, which `dispatch()` does not catch (`DispatchFails`). A
request that passes goes through its handler statement by
statement: `FindsName`, `Inserts` (which waits while an uncommitted row clashes
with it in an index, and fails when a committed one does), `CommitsAccount`, and
for a log-in `Verifies` and `LogsIn`; `Fails` is an exception at any of them,
with the rollback of `get_db_session`.

### Cluster

One pair, popped by any instance. `agenda` is what the owner's coroutine has
still to send, publish or create, in the order of `_create_match`, `create_game`
and `_handle_game_over`; `channel` what Redis has under way to each instance,
and `inbox` what the player's present socket has received. Instances start late,
stop in the order of `shutdown_dependencies` and crash; `Resets` is a lost
connection of a subscription.

A player who loses a socket (`Loses`) may connect to any instance before the
old one has noticed: `former` is what each instance still has of the player's
former sockets, first in its registry (`open`), then with an endpoint that has
yet to clean up (`closed`, after `connect()` has evicted it or a send has
failed), until `Notices` dequeues the player and reports the absence to the
engine of that instance. A send to a former socket that is still open either
fails, and the news is published, or is swallowed, and it is not. `Raises` is
any call of Redis on the agenda that fails: the coroutine ends there, the game
stored or not. Several former sockets at one instance are cleaned up together.

`disturbed` remembers who may miss the news: a player who has lost the socket
since the last search; to whom a message was lost, in a reset or in a former
socket at the owner; or whom the owner's coroutine had still to tell when a
call raised, or when the owner stopped or crashed.

## 3. Runs

| Run | Shows | States |
|---|---|---|
| `registry` | with overlapping connects the dictionaries agree, a late cleanup never unhooks a newer connection, and what is forced out is unregistered | 45,584 |
| `registry_race` | *violation*: two connections of one player | |
| `game` | one game with two timers, the snapshot loop and a failing Redis: turns alternate, scores are right, a pause has a timer and ends, results are earned and persisted once, keys stay deleted, finished games are removed, and it all looks like `TerritoryGame` (refinement) | 577,445 |
| `game_early_forfeit` | *violation*: a stale timer forfeits too early | |
| `game_untimed_absence` | *violation*: the second absence has no timer | |
| `matchmaking` | only who searches while held or playing is matched twice or queued without searching; waiting players are lost by a dropped pair or by the end of an earlier socket only; compatible players do not wait for ever | 46,437 |
| `session` | sockets, session and engines agree, and an abandoned game ends, but for games that are astray | 524,802 |
| `aftergame` | counters equal the match history, results are atomic (refinement of `Ledger`), no lock cycle, duplicate records agree, a result is lost to an exception only, moves reach the player's running game or, after a clean-up, none | 373,411 |
| `aftergame_rematch` | *violation*: the clean-up of a game takes the keys of the next | |
| `rest` | no burst through the limiter, unique accounts, earned refusals, every request answered | 573,700 |
| `cluster` | notifications arrive in order, once, not too early, and at every player who is not `disturbed` | 981,661 |
| `cluster_remote` | *violation*: a player at another instance than the game cannot move | |

Bounds, and why they are enough:

* `registry`: three sockets of one player are the smallest number with which two
  can race to replace a third; two rooms make moves between rooms possible. Each
  connection id is used once, as in the code. Players share no entry but the
  member set of a room; that other players do no harm is left to the proofs.
* `game`: a 3×3 board on which players choose among three cells (`Choices`)
  that fill it together, with a contested cell between two of them: three moves,
  so that the turn comes back to the first seat, in every order, with pauses in
  between. Nine cells cannot be shared equally, so a draw, and boards of other
  sizes, are left to the proofs, which hold for every size and every `Choices`.
  With two timers one player is absent twice, or both are in turn, and two tasks
  run the game-over sequence. `Grace = 2` lets a second timer start when the
  first is half through. When all timer tasks are used, no further disconnect is
  accepted: this is the bound `TimerIds`.
* `matchmaking`: four players with ratings in hundreds, two that match at once,
  others after waiting, and two too far apart; two instances and two rooms.
  Player 2 searches twice and the others once (`MaxFinds`): a second search is
  what a double match, a newer socket and a queue that changes need, and one
  player who makes it meets all others. At most one lost socket at a time has an
  endpoint that has not ended (`MaxLeaving`). The tolerance reaches its cap after
  one tick, so every pair is tried both with the narrow and with the wide one.
  With unboundedly many searches a pair could be passed over again and again by
  newcomers.
* `session`: two endpoints at a time, any number one after the other, as an id is
  used again when its endpoint has ended; two instances; two games, which are one
  to leave behind and one to be in. The instances are alike, so the first game is
  on the first of them (`Hosts`), the second on either.
* `aftergame`: two games, the first of players 1 and 2, the second of any two of
  three (`Fixtures`), so they share both players or one in either place, which is
  what lock cycles and stale keys need; two ratings are equal and one is not, so
  ties of the order occur. Up to two timers run out in the first game and one
  in the second (`Timers`).
* `rest`: two registrations that clash by name or by address, and a log-in of
  the first; a limit of two, so that the third request decides; the window is
  three ticks, one of which a request may be late, and the clock (`MaxClock`)
  runs past a whole window and the TTL. Up to two requests fail.
* `cluster`: two instances, one of which may start late, and one socket of
  the first player and two of the second (`MaxConnects`), so that one socket may
  move while messages are under way or its former one is still registered.
  Players matter to each other only through the queue, the agenda and the channels.
* All runs set `CHECK_DEADLOCK FALSE`: sockets, searches, requests and room ids
  are used up and a finished game has nothing left to do.

### What the environment is spared

One constant keeps the environment calm in a passing run: `SlowSets` of
`GameEngine` is FALSE. With TRUE a SET of the snapshot loop that takes longer
than the five seconds of the clean-up brings a deleted key back.

Where the code fails in an ordinary environment the model has that environment,
and the property names what is excepted, by a history variable or by the state:

| Module | Excepted | Because of |
|---|---|---|
| `Matchmaking` | `again`: who searched while held or playing | a cancel after the pop and a new search (or a page loaded anew) put one player into two pairs, so the documented "no double-matching" is true of the Lua script alone; what remains is `OneMatchPerSearchTheorem` |
| `Matchmaking` | the step of `EndpointEnds` | it dequeues by player id (ws_routes.py:232), also a player who waits on a newer socket |
| `SessionLifecycle` | `torn`, `astray` | `mark_disconnected` (session_manager.py:136) writes over a session that a newer connection owns; `create_session` (ws_routes.py:96) clears the room of a player whose old socket has not been noticed yet; the engine call of an endpoint looks in its own instance only (game_engine.py:554, 609). The loss of a later connection then finds no `room_id` or no game, and the game stays in `_games` for ever unless its opponent ends it |
| `AfterGame` | keys deleted by the clean-up of an earlier game | `aftergame_rematch` is the violation without the exception |
| `AfterGame` | `Lost`: an exception before `create_task`, a rollback | nothing tries again |
| `Cluster` | `disturbed` | at-most-once delivery, former sockets, coroutines that end |

### Fairness

Fairness is assumed of the system's own steps only: a suspended `close()`
returns (the server bounds the closing handshake and `_force_close` swallows
exceptions), time passes, a due timer and a coroutine whose await returned are
resumed by the event loop, PostgreSQL gives a row lock to a waiting transaction
when the holder has ended, and each instance runs its matching loop and its
listener. Nothing is assumed of players. `aftergame` and `rest` have one weak
fairness condition over all steps of the system: every behaviour has finitely
many steps, so none of them can be passed over for ever by others. For the same
reason `session` has one condition for `create_game` and the timers of all games.

Failures are in the runs: an exception in the game-over sequence leaves a
finished game in `_games`, which `FinishedIsRemoved` allows, or loses its result,
which `ResultIsRecorded` allows; a failure drops a popped pair, which
`WaitingStaysPlaced` allows; a transaction may be rolled back, after which
nothing tries again; the limiter's pipeline may raise, which answers the request;
in `cluster` the players in `disturbed` may miss their news, and only they.

### What the violations show

1. `connect()` (ws_manager.py:94) looks for an old connection before its awaits
   and registers after them. Two overlapping calls register both, against the
   one-connection promise of its docstring.
2. `_disconnect_timer` (game_engine.py:590) cannot tell its own absence from a
   later one of the same player. Reconnecting and dropping again shortly
   before the first timer ends forfeits the game at once.
3. `handle_player_disconnect` (game_engine.py:554) ignores a second player who
   leaves while the game is paused: both are lost one after the other, and only
   the first is listed as absent and has a timer.
4. `_cleanup_game` (game_engine.py:729) deletes `player_room` of both players
   five seconds after their game, whatever the keys name by then. The page
   offers the next search after three seconds. In a game that starts in between
   every move is answered with NOT_IN_GAME, until its turn is decided by a
   forfeit.
5. A game exists in the memory of one instance. `process_action`
   (game_engine.py:253) looks for it in the player's own instance, so a player
   at another one is told of match and start by pub/sub and gets GAME_NOT_FOUND
   for every move, while the report promises that the replicas "mirror game state
   synchronously".

Three smaller observations that no document denies: ratings do not add up over
games, because they are computed from the rating in the session, which is
always created with the default 1000; the `player_room` keys have a TTL of an
hour that no activity renews, so a longer game ends with NOT_IN_GAME (the models
have games that are shorter); a player farther than `elo_tolerance_max` from
everybody waits for ever (`CompatibleNotStuck` speaks of players within it).

## 4. Proofs

All theorems hold for every value of the constants that satisfies the named
`ASSUME` of its module; `PROJECT.json` lists them.

* **Registry.** `Inv` is the type invariant with `IndexConsistent`,
  `RoomsConsistent` and `Fresh`: a socket that has not been registered is in no
  dictionary. `Fresh` is what makes the invariant inductive: `Accepted` writes
  `room_id` None for a connection that no member set may hold.
  `LatestStaysReachable` follows from `Inv` step by step.
* **Game.** `Inv` joins the types with: the scores count the cells and each turn
  has claimed one, so the turn cap is never reached first (with the counting
  lemmas of `Territory_proofs`); the parity of the turn gives the seat to move;
  the list of absent players is empty while running and one player while
  paused, who has a pending timer; every task in the game-over sequence agrees
  with the verdict (`Verdict`), which is why a second timer can only repeat it;
  the keys outlive the entry of the game and no loop awaits their SET when they
  are gone (`KeysInv`, under `~SlowSets`). `ScoresCountCells`, `PausedForOne`,
  `PausedHasTimer`, `ResultIsEarned`, `BoardResultPersistedOnce`,
  `ResultIsFinal`, `MovesAlternate` and `KeysStayDeleted` follow, and three more
  facts: a game that is not finished has a free cell, since each turn has
  claimed one and the scores count them (`RoomToMoveTheorem`); owned cells never
  change hands; and a finished game that is still in `_games` or has keys left
  has a task that will see to it, or one that failed (`RemovalPendingTheorem`,
  under `~SlowSets`).
* **Game, refinement.** `ImplementsTerritoryGame` goes through the actions of
  the engine: `Move` is a `Turn`, an accepted report of a loss a `Pause`, the
  reconnect that empties `disconnected` a `Resume`, the first timer to lapse on
  an absent player a `Forfeit`, and everything else stutters. `Inv` is needed
  at both ends of each step: only one player is absent in a pause (so the
  reconnect that resumes is that of the awaited seat, and the seat that
  forfeits is the awaited one), the scores are the cells (so the engine's
  leader is the board's), the turn cap never comes first (so the game ends on
  a full board), and a second timer finds the verdict it would write.
* **Matchmaking.** Nothing is assumed of the players. Types hold because the
  script never pairs a player with themselves. `NoDoubleMatching` and
  `QueuedAreSearching` are one invariant, since each needs the other: a player
  whose game is created leaves `searching` and must not be queued then, and one
  who is popped must not be held already. `WaitingStaysPlaced`
  needs only the types: each action is gone through for one waiting player.
  So do three more. `PairsAreFairTheorem`: a pair is at most `MaxTol` apart.
  `LoopNeverIdles`: if two queued players within reach of each other have waited
  until their tolerance is at the cap, the script finds a pair. The nested loops
  return the least candidate in a lexicographic order, so the proof takes the
  least rating, then the least rank (`LeastNat`, from the well-foundedness of
  the naturals). `OneMatchPerSearchTheorem` is what the atomic pop is worth to
  those whom `NoDoubleMatching` excepts: such a player may be in two games, but
  never in more places than they made searches. Each step pays for the place it
  gives: the search for the one in the queue, that for the pair, the pair for
  the game.
* **Session.** All theorems hold in the whole environment, for any number of
  endpoints, instances and games. The types need `RoomsAreUsed`: the game being
  created is named by no session and no endpoint, so that no report or timer can
  concern it. The invariant has two halves. Until endpoints disturb each other,
  `CalmInv` holds: at most one has read the session, and `StageInv` says what
  session, engines and endpoint know of each other at each of its stages. For
  example, from the claim of a session to the call of the engine the room that
  was read is still the session's room, and an endpoint that listens is counted
  present in the session's game exactly if that game is at its instance.
  Once torn, all that is known is that every running game is astray (`TornInv`);
  but when all has settled no endpoint has read anything, the session is
  disconnected or gone, and from there `CalmInv` holds again. This is why the
  history is reset there and no sooner. `ReportOnItsWayTheorem` follows
  as well: a running game that is not astray and does not know that its player is
  gone has an endpoint, at its own instance, between the loss of the socket and
  the call of the engine.
* **Results.** `RInv` joins the types with the rows that a transaction has locked
  at each stage (`Holds`), the fact that what it will write is built on what is
  committed (`OnTop`), and that no row is locked twice (`Exclusive`). From these
  a commit is a step of `Ledger` and every other step leaves it alone:
  `ImplementsLedger` is the refinement. `NeverWaitInCircle` rests on
  `WaitsGoUp`: a transaction waits only for a row that comes later in the order
  of the matchmaker's sorted set than every row it has locked, which is where
  the order of `record_result` gets its importance. `CountersAlwaysMatch` holds
  for any number of players, games and transactions. `SomebodyAlwaysCommits`
  excludes circles of waiting transactions of any length: of the transactions
  that are blocked, the one whose row comes last in that order waits for one
  that is not (`OneIsLast`, by taking a smallest set of transactions without
  such a one).
* **AfterGame.** `GInv` adds that a task starts its transaction only after it
  has told the players, and `RecordsAlwaysAgree` follows. `NeverMisrouted` needs
  `KInv`: nobody plays two unfinished games, a clean-up pops its game before it
  deletes keys, and from the set-up of a seat on the key of its player names the
  game or has been deleted by a clean-up that has popped another one.
* **Rate limiter.** `NeverBursts` holds for any limit, window and delay. Its
  `Remembered` says that a counted request has left the sorted set only when it
  is older than the window, and that the key outlives its entries; then the last
  request to be accepted in a window has counted all others. A request whose
  pipeline raised may be in the set or not, and accepts nothing.
* **Accounts.** `AInv` says where each request's row is (`Placed`) and that rows,
  committed or not, never clash (`Unique`). `SomebodyGoesOnTheorem`: an INSERT
  waits only for a request that has inserted and that waits for nobody.
* **Cluster.** `NewsInOrder` and `NewsIsTrue` are about what has been received,
  but a message takes one of two ways, so the inductive `Inv` says where
  everything that is still to come may be: the owner's agenda is in the order of
  the events, of one player the send before the publish (`AgendaInOrder`); what
  is out, received or under way, precedes what is due (`OutPrecedesDue`); each
  channel is in order (`ChannelsInOrder`), and what a socket has received
  precedes what flies to it (`ReceivedPrecedesFlying`). That a send and a
  publish of one message never both arrive rests on the owner's own channel
  being empty. `AgendaIsTrue` and `OutIsTrue` say the same of what the news
  claim. `NothingIsLostTheorem` needs a second invariant, `Reliable`: a player in
  the queue has a socket and keeps it, a message that the owner could not send is
  for a player elsewhere and its publish follows at once, so that for every
  undisturbed player each piece of news is received, under way to where the
  socket is, or still on the agenda (`EverythingOnItsWay`). A former socket at
  the owner that swallows a message, and a call that raises, disturb exactly
  those whom they leave without one of the three.

Only model-checked: the eight liveness properties, which are outside the
prover's reach. What is proved of seven of them is the safety half, that every
state in which the promise is open has something under way that will keep it:

| Liveness, checked by TLC | Safety half, proved |
|---|---|
| `PauseEnds` | `PausedHasTimer` |
| `FinishedIsRemoved` | `RemovalPending` |
| `CompatibleNotStuck` | `LoopNeverIdles` |
| `AbandonmentIsHandled` | `ReportOnItsWay` |
| `ResultIsRecorded` | `SomebodyCommits` |
| `Answered` | `SomebodyGoesOn` |
| `NewsArrives` | `NothingIsLost` |
| `ForcedOutLeaves` | – (a connection being closed is its own witness) |

Proved, with no run of their own: `IndexConsistent`, `RoomsAreUsed`,
`PausedForOne`, `ResultIsFinal` (which
`TerritoryGame` has built in), `RoomToMove`, `TerritoryIsKept`, `PairsAreFair`,
`OneMatchPerSearch`, `RejectionIsEarned`, `TokenNamesAccount` and the safety
halves in the table except the first.

## 5. Not modelled

* `restore_game_from_snapshot` and the files `claim_room.lua` and
  `matchmaking_pop.lua`: nothing calls or loads them (the matchmaker runs its own
  inline script), and nothing looks for the rooms of a dead instance; a model
  would have to invent their caller. A game dies with its instance in `Cluster`.
* The heartbeat keys of the instances and the snapshots of `stop()`: nothing
  reads them. `delete_session`, `clear_player_room`, the room channels and
  dynamic subscriptions: nothing uses them.
* Profile, leaderboard and health routes, which only read, and the pages of the
  leaderboard in particular, which are not stable between two requests.
* Signing and decoding of tokens, hashing, schemas, configuration and logging:
  functions of libraries or without shared state. The display part of the client.

What is left to do: an abstract specification of an atomic registry with its
refinement; sessions of players who hold two sockets at a time; and the relation
of `SessionLifecycle`'s `online` and `away` to the two modules they summarise.
