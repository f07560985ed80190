------------------------------ MODULE Cluster ------------------------------
(***************************************************************************)
(* Several instances behind a load balancer: one pair is matched by any of *)
(* them and plays one game in its engine, while each player's socket is at *)
(* any instance and may move.  A notification is sent to the local socket  *)
(* or else published on ch:player:{id} (app/core/matchmaking.py,           *)
(* app/core/game_engine.py), and every other instance forwards it if it    *)
(* has the player (app/core/redis_pubsub.py, app/dependencies.py).         *)
(*                                                                         *)
(* Redis keeps the order of what it publishes, forgets it, drops what is   *)
(* under way to a subscriber whose connection is reset, and a call to it   *)
(* may raise, which ends the coroutine that makes it.  A player notices    *)
(* the loss of a socket at once, its instance later.  A session outlives   *)
(* its socket, and the clean-up of a game is slower than what is modelled  *)
(* here.  Moves are reduced to the one that ends the game, and the former  *)
(* sockets that a player has at one instance are cleaned up together.      *)
(***************************************************************************)
EXTENDS Integers, Sequences

CONSTANTS Instances, Nowhere,
          Pair,         \* the two players, as the script names them
          Late,         \* instances that are started later
          MaxConnects   \* bound: sockets of each player

ASSUME ClusterAssumption ==
    /\ Nowhere \notin Instances
    /\ DOMAIN Pair = {1, 2} /\ Pair[1] # Pair[2]
    /\ Late \subseteq Instances
    /\ MaxConnects \in [{Pair[1], Pair[2]} -> Nat]

Players == {Pair[1], Pair[2]}

VARIABLES
    status,     \* of each instance
    home,       \* the instance that has the player's socket
    former,     \* what each instance still has of a player's former sockets
    connects,   \* sockets each player has had
    inbox,      \* what the player's present socket has received
    queue,      \* the matchmaking queue
    owner,      \* the instance that has popped the pair
    agenda,     \* what the owner's coroutine has still to do
    missed,     \* players its last local send has not reached
    game,       \* "none", "running", "over" or "lost"
    absent,     \* disconnected_players
    channel,    \* messages under way to each instance
    bounced,    \* has a player of the running game got GAME_NOT_FOUND?
    disturbed   \* players whose socket, or a message to whom, was lost

vars == <<status, home, former, connects, inbox, queue, owner, agenda, missed, game, absent,
          channel, bounced, disturbed>>

Events == {"match_found", "game_started", "game_over"}
Rank == [match_found |-> 1, game_started |-> 2, game_over |-> 3]

\* "open": in the registry of the instance, "closed": not, but its endpoint has
\* still to clean up.
FormerStates == {"none", "open", "closed"}

\* "engine": the engine has stopped, "matchmaker": both, "ended": all.
Statuses == {"unborn", "up", "engine", "matchmaker", "ended"}
Jobs == [do : {"send", "publish"}, event : Events, to : Players] \cup {[do |-> "create"]}

TypeOK ==
    /\ status \in [Instances -> Statuses]
    /\ home \in [Players -> Instances \cup {Nowhere}]
    /\ former \in [Players -> [Instances -> FormerStates]]
    /\ connects \in [Players -> Nat]
    /\ \A p \in Players : connects[p] <= MaxConnects[p]
    /\ inbox \in [Players -> Seq(Events)]
    /\ queue \subseteq Players
    /\ owner \in Instances \cup {Nowhere}
    /\ agenda \in Seq(Jobs)
    /\ missed \subseteq Players
    /\ game \in {"none", "running", "over", "lost"}
    /\ absent \subseteq Players
    /\ channel \in [Instances -> Seq([event : Events, to : Players])]
    /\ bounced \in BOOLEAN
    /\ disturbed \subseteq Players

Init ==
    /\ status = [i \in Instances |-> IF i \in Late THEN "unborn" ELSE "up"]
    /\ home = [p \in Players |-> Nowhere]
    /\ former = [p \in Players |-> [i \in Instances |-> "none"]]
    /\ connects = [p \in Players |-> 0]
    /\ inbox = [p \in Players |-> <<>>]
    /\ queue = {}
    /\ owner = Nowhere
    /\ agenda = <<>>
    /\ missed = {}
    /\ game = "none"
    /\ absent = {}
    /\ channel = [i \in Instances |-> <<>>]
    /\ bounced = FALSE
    /\ disturbed = {}

Listening(i) == status[i] \in {"up", "engine", "matchmaker"}
Local(i, p) == home[p] = i

----------------------------------------------------------------------------
(* Instances.                                                              *)

\* init_dependencies(): subscribed before anybody can connect.
Starts(i) ==
    /\ status[i] = "unborn"
    /\ status' = [status EXCEPT ![i] = "up"]
    /\ UNCHANGED <<home, former, connects, inbox, queue, owner, agenda, missed, game, absent,
                   channel, bounced, disturbed>>

\* shutdown_dependencies(), when the server has closed the sockets: first the
\* engine stops, then the matchmaker, whose coroutine is cancelled, then the
\* listener; the process ends, and its games with it.
After(s) ==
    CASE s = "up" -> "engine" [] s = "engine" -> "matchmaker" [] s = "matchmaker" -> "ended"

\* A game-over sequence is not the matchmaker's and goes on until the end.
Cancelled(s) == s = "matchmaker" \/ (s = "engine" /\ game # "over")

Stops(i) ==
    /\ status[i] \in {"up", "engine", "matchmaker"}
    /\ \A p \in Players : ~Local(i, p) /\ former[p][i] = "none"
    /\ status' = [status EXCEPT ![i] = After(status[i])]
    /\ IF owner = i /\ agenda # <<>> /\ Cancelled(status[i])
           THEN agenda' = <<>> /\ disturbed' = Players
           ELSE UNCHANGED <<agenda, disturbed>>
    /\ IF status[i] = "matchmaker"
           THEN /\ channel' = [channel EXCEPT ![i] = <<>>]
                /\ game' = IF owner = i /\ game = "running" THEN "lost" ELSE game
           ELSE UNCHANGED <<channel, game>>
    /\ UNCHANGED <<home, former, connects, inbox, queue, owner, missed, absent, bounced>>

\* The process dies: its sockets, its games and its coroutines with it.
Crashes(i) ==
    /\ Listening(i)
    /\ status' = [status EXCEPT ![i] = "ended"]
    /\ home' = [p \in Players |-> IF Local(i, p) THEN Nowhere ELSE home[p]]
    /\ former' = [p \in Players |-> [former[p] EXCEPT ![i] = "none"]]
    /\ channel' = [channel EXCEPT ![i] = <<>>]
    /\ IF owner = i
           THEN /\ agenda' = <<>>
                /\ game' = IF game = "running" THEN "lost" ELSE game
                /\ disturbed' = Players
           ELSE /\ UNCHANGED <<agenda, game>>
                /\ disturbed' = disturbed \cup {p \in Players : Local(i, p)}
    /\ UNCHANGED <<connects, inbox, queue, owner, missed, absent, bounced>>

----------------------------------------------------------------------------
(* Players.                                                                *)

Closed(f) == IF f = "open" THEN "closed" ELSE f

\* A socket at any instance, which closes the one it still has of the player.
\* If that instance runs the game the player is back.
Connects(p, i) ==
    /\ home[p] = Nowhere
    /\ status[i] = "up"
    /\ connects[p] < MaxConnects[p]
    /\ home' = [home EXCEPT ![p] = i]
    /\ former' = [former EXCEPT ![p][i] = Closed(@)]
    /\ connects' = [connects EXCEPT ![p] = @ + 1]
    /\ inbox' = [inbox EXCEPT ![p] = <<>>]
    /\ absent' = IF owner = i THEN absent \ {p} ELSE absent
    /\ UNCHANGED <<status, queue, owner, agenda, missed, game, channel, bounced, disturbed>>

\* The player's socket is gone; its instance goes on holding it.
Loses(p) ==
    /\ home[p] # Nowhere
    /\ home' = [home EXCEPT ![p] = Nowhere]
    /\ former' = [former EXCEPT ![p][home[p]] = "open"]
    /\ disturbed' = disturbed \cup {p}
    /\ UNCHANGED <<status, connects, inbox, queue, owner, agenda, missed, game, absent, channel, bounced>>

\* _handle_disconnect() of a former socket: takes the player out of the queue,
\* wherever he searches now, and tells the engine of its own instance.
Notices(p, i) ==
    /\ former[p][i] # "none"
    /\ former' = [former EXCEPT ![p][i] = "none"]
    /\ queue' = queue \ {p}
    /\ absent' = IF owner = i /\ game = "running" THEN absent \cup {p} ELSE absent
    /\ UNCHANGED <<status, home, connects, inbox, owner, agenda, missed, game, channel,
                   bounced, disturbed>>

\* find_match
Searches(p) ==
    /\ home[p] # Nowhere
    /\ owner = Nowhere
    /\ queue' = queue \cup {p}
    /\ disturbed' = disturbed \ {p}
    /\ UNCHANGED <<status, home, former, connects, inbox, owner, agenda, missed, game, absent,
                   channel, bounced>>

Send(e, k) == [do |-> "send", event |-> e, to |-> Pair[k]]
Publish(e, k) == [do |-> "publish", event |-> e, to |-> Pair[k]]

\* create_game() and _handle_game_over() publish after each send.
Announce(e) == <<Send(e, 1), Publish(e, 1), Send(e, 2), Publish(e, 2)>>

\* game_action: the engine of the player's own instance looks for the room.
\* A game is not over before both players have been told of its start.  The
\* state update that precedes the game-over sequence may raise.
Moves(p) ==
    /\ home[p] # Nowhere
    /\ game = "running"
    /\ IF Local(owner, p)
           THEN /\ agenda = <<>>
                /\ absent = {}
                /\ game' = "over"
                /\ \/ agenda' = Announce("game_over")
                   \/ agenda' = <<>> /\ \E q \in Players : ~Local(owner, q)
                /\ UNCHANGED bounced
           ELSE /\ bounced' = TRUE
                /\ UNCHANGED <<game, agenda>>
    /\ UNCHANGED <<status, home, former, connects, inbox, queue, owner, missed, absent, channel, disturbed>>

----------------------------------------------------------------------------
(* The owner.                                                              *)

\* Variant: the game is stored when both have been told.
StoredLast ==
    <<Send("match_found", 1), Send("match_found", 2),
      Publish("match_found", 1), Publish("match_found", 2)>>
    \o Announce("game_started") \o <<[do |-> "create"]>>

\* _create_match() tries both players, then publishes to those it has not
\* reached; create_game() stores the game and tells them.
Agenda ==
    <<Send("match_found", 1), Send("match_found", 2),
      Publish("match_found", 1), Publish("match_found", 2), [do |-> "create"]>>
    \o Announce("game_started")

\* The matching loop pops the pair.
Pops(i) ==
    /\ status[i] \in {"up", "engine"}
    /\ owner = Nowhere
    /\ queue = Players
    /\ queue' = {}
    /\ owner' = i
    /\ agenda' = Agenda
    /\ UNCHANGED <<status, home, former, connects, inbox, missed, game, absent, channel, bounced, disturbed>>

Job == Head(agenda)
Working == agenda # <<>> /\ agenda' = Tail(agenda)

Creates ==
    /\ Working
    /\ Job.do = "create"
    /\ game' = "running"
    /\ UNCHANGED <<status, home, former, connects, inbox, queue, owner, missed, absent, channel,
                   bounced, disturbed>>

Receives(p, e) == inbox' = [inbox EXCEPT ![p] = Append(@, e)]

\* send_personal() of the owner's registry: to the player's socket, or to a
\* former one, which swallows the message or is found dead and closed.
Sends ==
    /\ Working
    /\ Job.do = "send"
    /\ \/ /\ Local(owner, Job.to)
          /\ Receives(Job.to, Job.event)
          /\ missed' = missed \ {Job.to}
          /\ UNCHANGED <<former, disturbed>>
       \/ /\ ~Local(owner, Job.to)
          /\ former[Job.to][owner] = "open"
          /\ missed' = missed \ {Job.to}
          /\ disturbed' = disturbed \cup {Job.to}
          /\ UNCHANGED <<inbox, former>>
       \/ /\ ~Local(owner, Job.to)
          /\ missed' = missed \cup {Job.to}
          /\ former' = [former EXCEPT ![Job.to][owner] = Closed(@)]
          /\ UNCHANGED <<inbox, disturbed>>
    /\ UNCHANGED <<status, home, connects, queue, owner, game, absent, channel, bounced>>

\* Variant: the message is addressed to the sender.
MessageToOwner == [event |-> Job.event, to |-> owner]

Message == [event |-> Job.event, to |-> Job.to]

\* Variant: nothing is published for those who are somewhere else.
PublishesNothing ==
    /\ Working
    /\ Job.do = "publish"
    /\ UNCHANGED <<status, home, former, connects, inbox, queue, owner, missed, game, absent,
                   channel, bounced, disturbed>>

\* publish_to_player(), if the send has failed; the listener of the sender
\* skips the message.
Publishes ==
    /\ Working
    /\ Job.do = "publish"
    /\ channel' = [i \in Instances |->
                       IF Job.to \in missed /\ i # owner /\ Listening(i)
                           THEN Append(channel[i], Message) ELSE channel[i]]
    /\ UNCHANGED <<status, home, former, connects, inbox, queue, owner, missed, game, absent, bounced, disturbed>>

\* What the coroutine asks of Redis next: to register the room, to write the
\* players' sessions when the game is in _games, or to publish.
CallsRedis ==
    \/ agenda = Agenda
    \/ Job.do = "create"
    \/ Job.do = "publish" /\ Job.to \in missed

\* Redis raises: the coroutine ends (the matching loop logs the error and goes
\* on), and nobody does what it had still to do.
Raises ==
    /\ agenda # <<>>
    /\ CallsRedis
    /\ agenda' = <<>>
    /\ game' = IF Job.do = "create" THEN "running" ELSE game
    /\ disturbed' = disturbed \cup {p \in Players : \E k \in DOMAIN agenda :
                                         agenda[k].do # "create" /\ agenda[k].to = p}
    /\ UNCHANGED <<status, home, former, connects, inbox, queue, owner, missed, absent,
                   channel, bounced>>

\* The grace period of an absent player is over.
Forfeits(p) ==
    /\ p \in absent
    /\ game = "running"
    /\ agenda = <<>>
    /\ status[owner] = "up"
    /\ game' = "over"
    /\ agenda' = Announce("game_over")
    /\ UNCHANGED <<status, home, former, connects, inbox, queue, owner, missed, absent, channel,
                   bounced, disturbed>>

----------------------------------------------------------------------------
(* The listeners.                                                          *)

\* Variant: every message is handled by a task of its own.
ListensConcurrently(i) ==
    /\ Listening(i)
    /\ \E k \in DOMAIN channel[i] :
           LET m == channel[i][k] IN
           /\ channel' = [channel EXCEPT ![i] = SubSeq(@, 1, k - 1) \o SubSeq(@, k + 1, Len(@))]
           /\ IF Local(i, m.to) THEN Receives(m.to, m.event) ELSE UNCHANGED inbox
    /\ UNCHANGED <<status, home, former, connects, queue, owner, agenda, missed, game, absent,
                   bounced, disturbed>>

\* _listen_loop() and _handle_player_message().
Listens(i) ==
    /\ Listening(i)
    /\ channel[i] # <<>>
    /\ channel' = [channel EXCEPT ![i] = Tail(@)]
    /\ LET m == Head(channel[i]) IN
       IF Local(i, m.to) THEN Receives(m.to, m.event) ELSE UNCHANGED inbox
    /\ UNCHANGED <<status, home, former, connects, queue, owner, agenda, missed, game, absent,
                   bounced, disturbed>>

\* The subscription's connection is reset.
Resets(i) ==
    /\ channel[i] # <<>>
    /\ channel' = [channel EXCEPT ![i] = <<>>]
    /\ disturbed' = disturbed \cup {channel[i][k].to : k \in DOMAIN channel[i]}
    /\ UNCHANGED <<status, home, former, connects, inbox, queue, owner, agenda, missed, game, absent, bounced>>

----------------------------------------------------------------------------
Works == Creates \/ Sends \/ Publishes

Next ==
    \/ \E i \in Instances : Starts(i)
    \/ \E i \in Instances : Stops(i)
    \/ \E i \in Instances : Crashes(i)
    \/ \E p \in Players, i \in Instances : Connects(p, i)
    \/ \E p \in Players : Loses(p)
    \/ \E p \in Players, i \in Instances : Notices(p, i)
    \/ \E p \in Players : Searches(p)
    \/ \E p \in Players : Moves(p)
    \/ \E p \in Players : Forfeits(p)
    \/ \E i \in Instances : Pops(i)
    \/ Works
    \/ Raises
    \/ \E i \in Instances : Listens(i)
    \/ \E i \in Instances : Resets(i)

Spec == Init /\ [][Next]_vars

\* The owner's coroutine and the listeners go on.
FairSpec == Spec /\ WF_vars(Works) /\ \A i \in Instances : WF_vars(Listens(i))

----------------------------------------------------------------------------
(* Properties.                                                             *)

\* A socket hears of a match, its start and its end in this order and of none
\* of them twice, although messages come by two ways and players move.
NewsInOrder ==
    \A p \in Players : \A j, k \in DOMAIN inbox[p] :
        j < k => Rank[inbox[p][j]] < Rank[inbox[p][k]]

\* Nobody is told of a game that the owner does not run yet, or is told that
\* it is over while it runs.
NewsIsTrue ==
    \A p \in Players : \A j \in DOMAIN inbox[p] :
        /\ inbox[p][j] = "game_started" => game # "none"
        /\ inbox[p][j] = "game_over" => game = "over"

\* "If a player is on another instance, publish via Pub/Sub" (_create_match):
\* a player learns of the match and of the start of the game, wherever the
\* socket is and wherever former ones are, unless the socket is lost, or the
\* message: to a reset, to a former socket at the owner, which nobody reads, or
\* with the owner's coroutine, which dies, is cancelled or fails.
Has(p, e) == \E j \in DOMAIN inbox[p] : inbox[p][j] = e
NewsArrives ==
    \A p \in Players :
        owner # Nowhere ~> (Has(p, "match_found") /\ Has(p, "game_started")) \/ p \in disturbed

\* Instances "mirror game state synchronously" (project_report.md): a player
\* of a running game can move.
MovesReachGame == ~bounced
=============================================================================
