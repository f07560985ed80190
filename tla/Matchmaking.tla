----------------------------- MODULE Matchmaking -----------------------------
(***************************************************************************)
(* The distributed matchmaker (app/core/matchmaking.py): the Redis queue   *)
(* that all instances share, the script that pops a pair (MATCHMAKING_LUA),*)
(* the matching loop of each instance, and the players who ask for a match,*)
(* cancel and lose their sockets (app/api/ws_routes.py, frontend/app.js).  *)
(*                                                                         *)
(* Redis runs a command, a MULTI pipeline and a Lua script atomically, so  *)
(* each is one step.  The sorted set and the hash of join times are always *)
(* written together; they are one function here, from the queued players   *)
(* to the ticks they have waited.  A player is a number that stands for    *)
(* the lexicographic rank of the id, which breaks ties of the sorted set.  *)
(* Between the pop and create_game() a pair exists only in the local       *)
(* variables of the instance that popped it: `held'.                       *)
(*                                                                         *)
(* The endpoint of a lost or evicted socket dequeues its player when it    *)
(* gets to it, also if the player has a new socket by then: `leaving'.     *)
(* `again' is a history variable, which the properties read and no action. *)
(***************************************************************************)
EXTENDS Integers, FiniteSets

CONSTANTS Players, Instances,
          Rooms,       \* names for the rooms of running games
          Elo,         \* the rating each player is queued with
          Base, PerTick, MaxTol,   \* elo_tolerance_base, .._expansion_per_sec, .._max
          MaxWait,     \* waits are counted up to here
          MaxFinds,    \* bound: searches of each player
          MaxLeaving,  \* bound: lost sockets whose endpoints have yet to end
          MayFail      \* may an instance fail between the pop and create_game()?

\* Counting stops only when the tolerance no longer grows.
ASSUME MatchmakingAssumption ==
    /\ Players \subseteq Nat
    /\ Elo \in [Players -> Nat]
    /\ Base \in Nat /\ PerTick \in Nat /\ MaxTol \in Nat
    /\ MaxWait \in Nat /\ MaxFinds \in [Players -> Nat] /\ MaxLeaving \in Nat
    /\ Base + MaxWait * PerTick >= MaxTol
    /\ MayFail \in BOOLEAN

VARIABLES
    queue,      \* function: queued player -> ticks waited
    held,       \* per instance: the popped pair whose game is being created
    game,       \* per room: the players of the running game, {} if none
    searching,  \* players who asked for a match and have neither got nor given it up
    leaving,    \* players with a lost socket whose endpoint has yet to dequeue them
    finds,      \* searches of each player so far
    again       \* history: players whose last search found them held or playing

vars == <<queue, held, game, searching, leaving, finds, again>>

Queued == DOMAIN queue
Held(p) == \E i \in Instances : p \in held[i]
Playing(p) == \E r \in Rooms : p \in game[r]

\* Two different players.
Pairs == {P \in SUBSET Players : \E p, q \in P : p # q /\ P = {p, q}}

TypeOK ==
    /\ Queued \subseteq Players
    /\ queue \in [Queued -> 0..MaxWait]
    /\ held \in [Instances -> Pairs \cup {{}}]
    /\ game \in [Rooms -> Pairs \cup {{}}]
    /\ searching \subseteq Players
    /\ leaving \subseteq Players
    /\ finds \in [Players -> Nat] /\ \A p \in Players : finds[p] <= MaxFinds[p]
    /\ again \subseteq Players

Init ==
    /\ queue = [p \in {} |-> 0]
    /\ held = [i \in Instances |-> {}]
    /\ game = [r \in Rooms |-> {}]
    /\ searching = {}
    /\ leaving = {}
    /\ finds = [p \in Players |-> 0]
    /\ again = {}

----------------------------------------------------------------------------
(* The queue.                                                              *)

\* ZADD and HSET: the wait of a player who is queued already starts anew.
Enqueued(p) == [x \in Queued \cup {p} |-> IF x = p THEN 0 ELSE queue[x]]

\* ZREM and HDEL.
Without(P) == [x \in Queued \ P |-> queue[x]]

----------------------------------------------------------------------------
(* The players.                                                            *)

\* The page offers find_match to whoever is not searching.  It hides it in a
\* game, but not after it has been loaded anew; the server does not check.
MayFind(p) == p \notin searching

FindMatch(p) ==
    /\ MayFind(p)
    /\ finds[p] < MaxFinds[p]
    /\ queue' = Enqueued(p)
    /\ searching' = searching \cup {p}
    /\ finds' = [finds EXCEPT ![p] = @ + 1]
    /\ again' = IF Held(p) \/ Playing(p) THEN again \cup {p} ELSE again \ {p}
    /\ UNCHANGED <<held, game, leaving>>

\* Variant: cancelling forgets to take the player out of the queue.
CancelOnlyLocally(p) ==
    /\ p \in searching
    /\ searching' = searching \ {p}
    /\ UNCHANGED <<queue, held, game, leaving, finds, again>>

\* cancel_match: dequeues the player, and finds nothing to dequeue if a pop
\* came first.
Cancel(p) ==
    /\ p \in searching
    /\ queue' = Without({p})
    /\ searching' = searching \ {p}
    /\ UNCHANGED <<held, game, leaving, finds, again>>

\* A socket of p is lost, or evicted by a new one.  The page connects anew by
\* itself and goes on waiting, or it has been closed or loaded anew.
SocketLost(p) ==
    /\ p \notin leaving
    /\ Cardinality(leaving) < MaxLeaving
    /\ leaving' = leaving \cup {p}
    /\ searching' \in {searching, searching \ {p}}
    /\ UNCHANGED <<queue, held, game, finds, again>>

\* _handle_disconnect of that socket: it dequeues by player_id, whatever the
\* player has done on a newer socket since.
EndpointEnds(p) ==
    /\ p \in leaving
    /\ queue' = Without({p})
    /\ leaving' = leaving \ {p}
    /\ UNCHANGED <<held, game, searching, finds, again>>

----------------------------------------------------------------------------
(* The matching loop of instance i.                                        *)

Smaller(a, b) == IF a <= b THEN a ELSE b
Distance(a, b) == IF a <= b THEN b - a ELSE a - b

\* Variant: the tolerance never widens.
ToleranceFixed(p) == Smaller(Base, MaxTol)

Tolerance(p) == Smaller(Base + queue[p] * PerTick, MaxTol)

Compatible(p, q) ==
    Distance(Elo[p], Elo[q]) <= Smaller(Tolerance(p), Tolerance(q))

\* The order of the sorted set.
Before(p, q) == Elo[p] < Elo[q] \/ (Elo[p] = Elo[q] /\ p < q)

\* Variant: the inner loop starts at the outer loop's player.
CandidatesWithSelf ==
    {x \in Queued \X Queued : ~Before(x[2], x[1]) /\ Compatible(x[1], x[2])}

Candidates ==
    {x \in Queued \X Queued : Before(x[1], x[2]) /\ Compatible(x[1], x[2])}

\* The pair the script's nested loops meet first.
IsFirst(x) ==
    /\ x \in Candidates
    /\ \A y \in Candidates : /\ ~Before(y[1], x[1])
                             /\ y[1] = x[1] => ~Before(y[2], x[2])

\* Variants of the pop: only the first player is removed from the queue; the
\* loop pops again before it has created the game of the last pair.
PopsOne(i) ==
    /\ held[i] = {}
    /\ \E x \in Queued \X Queued :
          /\ IsFirst(x)
          /\ queue' = Without({x[1]})
          /\ held' = [held EXCEPT ![i] = {x[1], x[2]}]
    /\ UNCHANGED <<game, searching, leaving, finds, again>>

PopsAgain(i) ==
    /\ \E x \in Queued \X Queued :
          /\ IsFirst(x)
          /\ queue' = Without({x[1], x[2]})
          /\ held' = [held EXCEPT ![i] = {x[1], x[2]}]
    /\ UNCHANGED <<game, searching, leaving, finds, again>>

\* The Lua script finds and removes a pair.
Pop(i) ==
    /\ held[i] = {}
    /\ \E x \in Queued \X Queued :
          /\ IsFirst(x)
          /\ queue' = Without({x[1], x[2]})
          /\ held' = [held EXCEPT ![i] = {x[1], x[2]}]
    /\ UNCHANGED <<game, searching, leaving, finds, again>>

\* _create_match: the room is registered, the players are notified and
\* create_game() stores the game.
CreateMatch(i) ==
    /\ held[i] # {}
    /\ \E r \in Rooms :
          /\ game[r] = {}
          /\ game' = [game EXCEPT ![r] = held[i]]
    /\ held' = [held EXCEPT ![i] = {}]
    /\ searching' = searching \ held[i]
    /\ UNCHANGED <<queue, leaving, finds, again>>

\* _create_match raises and the loop logs it, or the instance crashes or is
\* shut down: the pair is dropped, after none, one or both were notified.
LosesPair(i) ==
    /\ MayFail
    /\ held[i] # {}
    /\ held' = [held EXCEPT ![i] = {}]
    /\ \E notified \in SUBSET held[i] : searching' = searching \ notified
    /\ UNCHANGED <<queue, game, leaving, finds, again>>

----------------------------------------------------------------------------
\* A game ends (GameEngine), or is lost with its instance.
GameEnds(r) ==
    /\ game[r] # {}
    /\ game' = [game EXCEPT ![r] = {}]
    /\ UNCHANGED <<queue, held, searching, leaving, finds, again>>

Tick ==
    /\ \E p \in Queued : queue[p] < MaxWait
    /\ queue' = [p \in Queued |-> Smaller(queue[p] + 1, MaxWait)]
    /\ UNCHANGED <<held, game, searching, leaving, finds, again>>

Next ==
    \/ \E p \in Players : FindMatch(p)
    \/ \E p \in Players : Cancel(p)
    \/ \E p \in Players : SocketLost(p)
    \/ \E p \in Players : EndpointEnds(p)
    \/ \E i \in Instances : Pop(i)
    \/ \E i \in Instances : CreateMatch(i)
    \/ \E i \in Instances : LosesPair(i)
    \/ \E r \in Rooms : GameEnds(r)
    \/ Tick

\* Time passes and every instance keeps running its loop.
Fairness ==
    /\ WF_vars(Tick)
    /\ \A i \in Instances : WF_vars(Pop(i)) /\ WF_vars(CreateMatch(i))

Spec == Init /\ [][Next]_vars
FairSpec == Spec /\ Fairness

----------------------------------------------------------------------------
(* Properties.                                                             *)

\* "atomicity ensures no double-matching" (_matching_loop): nobody is in two
\* pairs or games at once, or in one and in the queue, but a player who searched
\* while an instance held them or while they played, which neither the page nor
\* the server prevents.
NoDoubleMatching ==
    \A p \in Players \ again :
        /\ \A i, j \in Instances : p \in held[i] \cap held[j] => i = j
        /\ \A r, s \in Rooms : p \in game[r] \cap game[s] => r = s
        /\ ~(Held(p) /\ Playing(p))
        /\ p \in Queued => ~Held(p) /\ ~Playing(p)

\* A player who waits for a match stays in the queue or in the pair an instance
\* is about to start, unless that instance drops its pair or the endpoint of an
\* earlier socket ends: neither the pop, the creation of a game nor another
\* player's search loses anybody.
WaitingStaysPlaced ==
    [][\A p \in searching \cap searching' :
          (p \in Queued \/ Held(p)) =>
              \/ (p \in Queued \/ Held(p))'
              \/ \E i \in Instances : p \in held[i] /\ held'[i] = {}
              \/ p \in leaving \ leaving']_vars

\* Nobody who cancelled, left or plays can be popped: whoever is queued is
\* searching, except until the endpoint of a lost socket has dequeued them, and
\* those who searched while held or playing, whom the creation of the first
\* game finds in the queue again.
QueuedAreSearching ==
    Queued \subseteq searching \cup leaving \cup again

\* Of two queued players whose ratings the widest tolerance covers, one is
\* eventually matched or leaves, whatever the rest of the queue looks like.
CompatibleNotStuck ==
    \A p, q \in Players :
        (p < q /\ {p, q} \subseteq Queued /\ Distance(Elo[p], Elo[q]) <= MaxTol)
            ~> ~({p, q} \subseteq Queued)
=============================================================================
