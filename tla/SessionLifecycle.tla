-------------------------- MODULE SessionLifecycle --------------------------
(***************************************************************************)
(* The Redis session of one player (app/core/session_manager.py) between   *)
(* the endpoints of the player's sockets (app/api/ws_routes.py) and the    *)
(* engines that run the player's games (app/core/game_engine.py).          *)
(*                                                                         *)
(* Every call of the session manager is one or two Redis commands with an  *)
(* await between them, so an endpoint reads the session in one step and    *)
(* writes it in another; what it read stays in `seen'.  HSET on a hash     *)
(* that has expired creates one without player_id, which no reader can     *)
(* parse: `whole' is FALSE.  An endpoint calls the engine of its own       *)
(* instance, which knows the games of that instance and no others.         *)
(*                                                                         *)
(* The registry is reduced to `online', the connection whose socket the    *)
(* client holds, and an engine to the player's running games and whether   *)
(* it counts the player as absent.  The opponents stay connected.  Pairs   *)
(* of the same player are popped one after the other.                      *)
(*                                                                         *)
(* Endpoints may overlap, sessions expire and sockets get lost at any      *)
(* await.  Which games the code loses track of then is recorded in the     *)
(* history variables `torn' and `astray', which only the properties read.  *)
(***************************************************************************)
EXTENDS Naturals

CONSTANTS Conns,          \* connections; an id is used again when its endpoint has ended
          Instances,      \* server instances
          MaxGames,       \* bound: games of the player
          Hosts,          \* bound: the instances that may pop the player for a game
          NoConn,         \* None
          Nowhere         \* the instance of what does not exist

ASSUME SessionAssumption ==
    /\ NoConn \notin Conns
    /\ Nowhere \notin Instances
    /\ MaxGames \in Nat
    /\ Hosts \in [1..MaxGames -> SUBSET Instances]

\* Room ids, numbered as they are made; 0 is no room.
Games == 1..MaxGames
NoRoom == 0

VARIABLES
    session,   \* the hash session:{player}
    stage,     \* where the endpoint of each connection is
    home,      \* the instance of each running endpoint
    seen,      \* the room_id an endpoint has read and is going to use
    online,    \* the connection whose socket is alive
    queued,    \* is the player in the matchmaking queue?
    matched,   \* does an instance hold the player between pop and create_game()?
    played,    \* how many games the player has had
    running,   \* the player's games in _games
    owner,     \* the instance of each of them
    creating,  \* the one whose create_game() has yet to write the session
    away,      \* the games that have the player in disconnected_players, with
               \* a timer running
    torn,      \* history: have the player's endpoints disturbed each other?
    astray     \* history: games that the session or an engine has lost track of

conns == <<stage, home, seen, online>>
engine == <<matched, played, running, owner, creating, away>>
vars == <<session, conns, queued, engine, torn, astray>>

\* RedisSession, and whether the key has a TTL (session_ttl_sec or
\* reconnect_grace_period_sec: either may run out at any time).
States == {"missing", "connected", "disconnected", "in_matchmaking", "in_game"}
Sessions == [state : States, whole : BOOLEAN, room : Games \cup {NoRoom}, ttl : BOOLEAN]

Stages == {"none", "lookup", "creating", "rereading", "claiming", "resuming",
           "open", "leaving", "marking", "telling"}

\* Calls of the engine always name a room.
TypeOK ==
    /\ session \in Sessions
    /\ stage \in [Conns -> Stages]
    /\ home \in [Conns -> Instances \cup {Nowhere}]
    /\ seen \in [Conns -> Games \cup {NoRoom}]
    /\ \A c \in Conns : stage[c] \in {"resuming", "telling"} => seen[c] \in Games
    /\ online \in Conns \cup {NoConn}
    /\ queued \in BOOLEAN /\ matched \in BOOLEAN /\ torn \in BOOLEAN
    /\ owner \in [Games -> Instances \cup {Nowhere}]
    /\ played \in 0..MaxGames
    /\ running \subseteq 1..played
    /\ creating \in running \cup {NoRoom}
    /\ away \subseteq running
    /\ astray \subseteq running

Missing == [state |-> "missing", whole |-> FALSE, room |-> NoRoom, ttl |-> FALSE]
Fresh == [state |-> "connected", whole |-> TRUE, room |-> NoRoom, ttl |-> TRUE]

Init ==
    /\ session = Missing
    /\ stage = [c \in Conns |-> "none"]
    /\ home = [c \in Conns |-> Nowhere]
    /\ seen = [c \in Conns |-> NoRoom]
    /\ online = NoConn
    /\ queued = FALSE
    /\ matched = FALSE
    /\ played = 0
    /\ running = {}
    /\ owner = [g \in Games |-> Nowhere]
    /\ creating = NoRoom
    /\ away = {}
    /\ torn = FALSE
    /\ astray = {}

----------------------------------------------------------------------------
(* The history, a conjunct of every action.                                *)

\* The endpoint has read the session and not ended.
Busy(c) == stage[c] \notin {"none", "lookup"}

Gone == session.state = "missing" \/ (session.whole /\ session.state = "disconnected")

\* Nobody is going to write the session, and it is as one expects of a player
\* without endpoints.
Settled ==
    /\ \A c \in Conns : ~Busy(c)
    /\ ~matched /\ creating = NoRoom
    /\ Gone

\* An endpoint reads the session while another one has it in hand; it goes while
\* the player's game is being created; the session expires under an endpoint that
\* goes by it.
Disturbs ==
    \/ \E c, d \in Conns : c # d /\ ~Busy(c) /\ Busy(c)' /\ Busy(d)
    \/ \E c \in Conns : /\ stage[c] = "open" /\ stage'[c] = "leaving"
                        /\ matched \/ creating # NoRoom
    \/ /\ session'.state = "missing"
       /\ \E c \in Conns : /\ stage[c] \in {"rereading", "claiming", "resuming", "open", "leaving", "marking"}
                           /\ stage'[c] = stage[c]

\* The games that get lost when create_game() is through with the session:
\* earlier ones in which the player is present, and the new one unless the
\* session names it and the player's endpoint is on its instance.
Forgotten ==
    (running \ (away \cup {creating})) \cup
    (IF session'.room = creating /\ \E c \in Conns : stage[c] = "open" /\ home[c] = owner[creating]
     THEN {} ELSE {creating})

Remembers ==
    /\ torn' = (Disturbs \/ (torn /\ ~Settled'))
    /\ astray' = running' \cap
          (astray \cup (IF torn' THEN running' \ {creating'} ELSE {})
                  \cup (IF creating # NoRoom /\ creating' = NoRoom THEN Forgotten ELSE {}))

----------------------------------------------------------------------------
(* The session hash.                                                       *)

\* get_session() raises: there is a hash, and it has no player_id.
Unreadable == session.state # "missing" /\ ~session.whole

\* HSET of the state, and EXPIRE.
SetState(x) == session' = [session EXCEPT !.state = x, !.ttl = TRUE]

\* The TTL runs out, also under a connection that has sent no message for an
\* hour.
Expires ==
    /\ session.ttl
    /\ session' = Missing
    /\ UNCHANGED <<conns, queued, engine>>
    /\ Remembers

----------------------------------------------------------------------------
(* The endpoint of connection c: set-up.                                   *)

\* The endpoint proceeds to stage s with the room it has read, or ends.
Goes(c, s, room) ==
    /\ stage' = [stage EXCEPT ![c] = s]
    /\ seen' = [seen EXCEPT ![c] = IF s = "none" THEN NoRoom ELSE room]
    /\ home' = IF s = "none" THEN [home EXCEPT ![c] = Nowhere] ELSE home

\* The endpoint raises: the server closes the socket.
Dropped(c) == IF online = c THEN NoConn ELSE online

\* connect() on some instance.  The socket of an older connection is closed, by
\* this instance or by the client that left it; its endpoint runs on.
Connects(c) ==
    /\ stage[c] = "none"
    /\ online' = c
    /\ \E i \in Instances : home' = [home EXCEPT ![c] = i]
    /\ stage' = [stage EXCEPT ![c] = "lookup"]
    /\ UNCHANGED <<session, seen, queued, engine>>
    /\ Remembers

\* get_session(): is this a reconnection?
LooksUp(c) ==
    /\ stage[c] = "lookup"
    /\ Goes(c, IF Unreadable THEN "none"
               ELSE IF session.state = "disconnected" THEN "rereading"
               ELSE "creating", NoRoom)
    /\ online' = IF Unreadable THEN Dropped(c) ELSE online
    /\ UNCHANGED <<session, queued, engine>>
    /\ Remembers

\* create_session(): every field is overwritten, room_id with the empty string.
Creates(c) ==
    /\ stage[c] = "creating"
    /\ session' = Fresh
    /\ Goes(c, "open", NoRoom)
    /\ UNCHANGED <<online, queued, engine>>
    /\ Remembers

\* attempt_reconnect() reads the session a second time.  If it is not
\* disconnected any more the endpoint goes on without a session of its own.
Rereads(c) ==
    /\ stage[c] = "rereading"
    /\ IF session.state = "disconnected" /\ session.whole
       THEN Goes(c, "claiming", session.room)
       ELSE Goes(c, IF Unreadable THEN "none" ELSE "open", NoRoom)
    /\ online' = IF Unreadable THEN Dropped(c) ELSE online
    /\ UNCHANGED <<session, queued, engine>>
    /\ Remembers

\* Variants of the claim: the state stays disconnected; the session is
\* written anew.
ClaimsKeepingState(c) ==
    /\ stage[c] = "claiming"
    /\ SetState(session.state)
    /\ Goes(c, IF seen[c] = NoRoom THEN "open" ELSE "resuming", seen[c])
    /\ UNCHANGED <<online, queued, engine>>
    /\ Remembers

ClaimsAnew(c) ==
    /\ stage[c] = "claiming"
    /\ session' = Fresh
    /\ Goes(c, IF seen[c] = NoRoom THEN "open" ELSE "resuming", seen[c])
    /\ UNCHANGED <<online, queued, engine>>
    /\ Remembers

\* ... and claims it.
Claims(c) ==
    /\ stage[c] = "claiming"
    /\ SetState("connected")
    /\ Goes(c, IF seen[c] = NoRoom THEN "open" ELSE "resuming", seen[c])
    /\ UNCHANGED <<online, queued, engine>>
    /\ Remembers

\* Variant: the engine is not told that the player is back.
ResumesNobody(c) ==
    /\ stage[c] = "resuming"
    /\ Goes(c, "open", NoRoom)
    /\ UNCHANGED <<session, online, queued, engine>>
    /\ Remembers

\* _games of the engine on instance i.
GamesAt(i) == {g \in running : owner[g] = i}

\* handle_player_reconnect(), which returns unless the game is on this instance.
Resumes(c) ==
    /\ stage[c] = "resuming"
    /\ away' = away \ ({seen[c]} \cap GamesAt(home[c]))
    /\ Goes(c, "open", NoRoom)
    /\ UNCHANGED <<session, online, queued, matched, played, running, owner, creating>>
    /\ Remembers

----------------------------------------------------------------------------
(* Messages: update_activity() renews the TTL first, or creates an         *)
(* unreadable hash.  A message that does no more is a ping.                *)

Listens(c) == stage[c] = "open" /\ online = c

Touched == IF session.state = "missing" THEN "connected" ELSE session.state

Pings(c) ==
    /\ Listens(c)
    /\ SetState(Touched)
    /\ UNCHANGED <<conns, queued, engine>>
    /\ Remembers

\* find_match, also while playing: the page hides the button from game_started to
\* game_over, but not after it has been loaded anew, and the server does not
\* check.  With an unreadable session it raises, and the loop ends.
FindsMatch(c) ==
    /\ Listens(c)
    /\ SetState(IF session.whole THEN "in_matchmaking" ELSE Touched)
    /\ queued' = session.whole
    /\ online' = IF session.whole THEN online ELSE NoConn
    /\ UNCHANGED <<stage, home, seen, engine>>
    /\ Remembers

\* cancel_match, which the server takes at any time.
CancelsMatch(c) ==
    /\ Listens(c)
    /\ SetState("connected")
    /\ queued' = FALSE
    /\ UNCHANGED <<conns, engine>>
    /\ Remembers

----------------------------------------------------------------------------
(* The end of a connection: _handle_disconnect().                          *)

SocketLost ==
    /\ online # NoConn
    /\ online' = NoConn
    /\ UNCHANGED <<session, stage, home, seen, queued, engine>>
    /\ Remembers

\* The loop of a dead or evicted socket ends; the player is dequeued.
Leaves(c) ==
    /\ stage[c] = "open"
    /\ online # c
    /\ queued' = FALSE
    /\ Goes(c, "leaving", NoRoom)
    /\ UNCHANGED <<session, online, engine>>
    /\ Remembers

\* mark_disconnected() reads the session ...
ReadsToMark(c) ==
    /\ stage[c] = "leaving"
    /\ Goes(c, IF session.whole THEN "marking" ELSE "none", session.room)
    /\ UNCHANGED <<session, online, queued, engine>>
    /\ Remembers

\* Variant: the engine is called without looking at room_id.
MarksAndAlwaysTells(c) ==
    /\ stage[c] = "marking"
    /\ SetState("disconnected")
    /\ Goes(c, "telling", seen[c])
    /\ UNCHANGED <<online, queued, engine>>
    /\ Remembers

\* ... and writes it, whatever has happened to it since.
Marks(c) ==
    /\ stage[c] = "marking"
    /\ SetState("disconnected")
    /\ Goes(c, IF seen[c] = NoRoom THEN "none" ELSE "telling", seen[c])
    /\ UNCHANGED <<online, queued, engine>>
    /\ Remembers

\* Variant: a report is taken for a duplicate while a game is running.
TellsNobody(c) ==
    /\ stage[c] = "telling"
    /\ Goes(c, "none", NoRoom)
    /\ UNCHANGED <<session, online, queued, engine>>
    /\ Remembers

\* handle_player_disconnect(), which returns unless that game is running on this
\* instance.
Tells(c) ==
    /\ stage[c] = "telling"
    /\ away' = away \cup ({seen[c]} \cap GamesAt(home[c]))
    /\ Goes(c, "none", NoRoom)
    /\ UNCHANGED <<session, online, queued, matched, played, running, owner, creating>>
    /\ Remembers

----------------------------------------------------------------------------
(* The player's games.                                                     *)

\* An instance pops the player with an opponent.
Pops ==
    /\ queued
    /\ ~matched /\ creating = NoRoom
    /\ queued' = FALSE
    /\ matched' = TRUE
    /\ UNCHANGED <<session, conns, played, running, owner, creating, away>>
    /\ Remembers

\* _create_match() raises before create_game(), or the instance stops.
LosesPair ==
    /\ matched
    /\ matched' = FALSE
    /\ UNCHANGED <<session, conns, queued, played, running, owner, creating, away>>
    /\ Remembers

\* create_game() stores the game in _games of its instance.
GameStarts(g) ==
    /\ matched
    /\ g = played + 1
    /\ \E i \in Hosts[g] : owner' = [owner EXCEPT ![g] = i]
    /\ matched' = FALSE
    /\ played' = g
    /\ running' = running \cup {g}
    /\ creating' = g
    /\ UNCHANGED <<session, conns, queued, away>>
    /\ Remembers

\* create_game(): update_session_state(player, "in_game", room).  A hash that
\* it creates has no TTL.
NamesRoom ==
    /\ creating # NoRoom
    /\ session' = [session EXCEPT !.state = "in_game", !.room = creating]
    /\ creating' = NoRoom
    /\ UNCHANGED <<conns, queued, matched, played, running, owner, away>>
    /\ Remembers

\* create_game() raises before that; the game stays in _games.
CreationFails ==
    /\ creating # NoRoom
    /\ creating' = NoRoom
    /\ UNCHANGED <<session, conns, queued, matched, played, running, owner, away>>
    /\ Remembers

Ends(g) ==
    /\ running' = running \ {g}
    /\ owner' = [owner EXCEPT ![g] = Nowhere]
    /\ away' = away \ {g}
    /\ UNCHANGED <<session, conns, queued, matched, played, creating>>
    /\ Remembers

\* The game ends on the board, or the opponent forfeits.  The session keeps
\* its room_id.
GameEnds(g) == g \in running \ (away \cup {creating}) /\ Ends(g)

\* The disconnect timer runs out.
Forfeits(g) == g \in away /\ Ends(g)

----------------------------------------------------------------------------
\* Steps that a coroutine takes when its await returns.
Proceeds(c) ==
    \/ LooksUp(c)
    \/ Creates(c)
    \/ Rereads(c)
    \/ Claims(c)
    \/ Resumes(c)
    \/ Leaves(c)
    \/ ReadsToMark(c)
    \/ Marks(c)
    \/ Tells(c)

Message(c) ==
    \/ Pings(c)
    \/ FindsMatch(c)
    \/ CancelsMatch(c)

Next ==
    \/ \E c \in Conns : Connects(c)
    \/ \E c \in Conns : Proceeds(c)
    \/ \E c \in Conns : Message(c)
    \/ SocketLost
    \/ Pops
    \/ LosesPair
    \/ \E g \in Games : GameStarts(g)
    \/ NamesRoom
    \/ CreationFails
    \/ \E g \in Games : GameEnds(g)
    \/ \E g \in Games : Forfeits(g)
    \/ Expires

\* Coroutines go on, create_game() and the timers of an absent player among
\* them; one condition is enough for these, as there are finitely many games.
Fairness ==
    /\ \A c \in Conns : WF_vars(Proceeds(c))
    /\ WF_vars(NamesRoom \/ CreationFails \/ \E g \in Games : Forfeits(g))

Spec == Init /\ [][Next]_vars
FairSpec == Spec /\ Fairness

----------------------------------------------------------------------------
(* Properties.                                                             *)

\* No endpoint of the player is between two awaits, and no game is being
\* created.
Quiet ==
    /\ \A c \in Conns : stage[c] \in {"none", "open"}
    /\ \A c \in Conns : stage[c] = "open" => online = c
    /\ creating = NoRoom

\* When the last endpoint has finished, every running game of the player
\* counts the player as absent and has a timer for it: the chain room_id in
\* the session -> mark_disconnected() -> handle_player_disconnect() breaks for
\* the astray only, not for a game that an earlier connection left behind.
AbsenceIsKnown == Quiet /\ online = NoConn => running \ astray \subseteq away

\* While the player is connected, an engine counts the player as present in the
\* game that the session names if the endpoint is at that engine's instance,
\* and in no other: a game that the client cannot get back to is on its way to
\* a forfeit.
EngineAndSessionAgree ==
    Quiet /\ online # NoConn =>
        \A g \in running \ astray :
            g \notin away <=> session.room = g /\ owner[g] = home[online]

\* Whenever no endpoint is on its way, the session says what the sockets say:
\* readable and not disconnected for a player with an endpoint, disconnected
\* or expired for one without; until all is settled again after a disturbance.
SessionMatchesPlayer ==
    Quiet /\ ~torn =>
        IF online # NoConn
        THEN session.whole /\ session.state # "disconnected"
        ELSE session.state \in {"missing", "disconnected"}

\* "If the player reconnects within this window, they can resume their game.
\* If not, the session expires and the game handles the abandonment":
\* a game whose player is gone ends or sees the player again, or is astray.
AbandonmentIsHandled ==
    \A g \in Games :
        (online = NoConn /\ g \in running) ~>
            (online # NoConn \/ g \notin running \/ g \in astray)
=============================================================================
