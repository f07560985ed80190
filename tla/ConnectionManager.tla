------------------------- MODULE ConnectionManager -------------------------
(***************************************************************************)
(* The WebSocket connection registry of one server instance                *)
(* (app/core/ws_manager.py) and the endpoint coroutines that use it        *)
(* (app/api/ws_routes.py).                                                 *)
(*                                                                         *)
(* asyncio runs one coroutine at a time and switches only at an await, so  *)
(* an action is the code between two awaits.  What a coroutine knows when  *)
(* it suspends is state here: `stage' says where the endpoint of a         *)
(* connection waits, `target' is the local existing_conn_id of a connect() *)
(* that waits for the old socket to close, and `closing' holds the         *)
(* connections on which some other _force_close() waits.                   *)
(*                                                                         *)
(* A send changes the registry only when it fails: a successful one has no *)
(* step.  Timestamps and counters are left out.                            *)
(***************************************************************************)
EXTENDS Naturals, FiniteSets

CONSTANTS Players,         \* player ids
          Conns,           \* connection ids, each used for one socket
          Rooms,           \* room ids
          PlayerOf,        \* PlayerOf[c]: the player in c's token
          NoConn, NoRoom   \* None

ASSUME ConnectionAssumption ==
    /\ PlayerOf \in [Conns -> Players]
    /\ NoConn \notin Conns
    /\ NoRoom \notin Rooms

VARIABLES
    connections,  \* the keys of _connections
    room,         \* ConnectionInfo.room_id of each connection
    playerConn,   \* _player_connections; NoConn: no entry
    roomMembers,  \* _room_members: a function on the rooms that have an entry
    stage,        \* where the endpoint coroutine of each connection is
    target,       \* the connection a connect() is evicting
    closing       \* connections other tasks are force-closing

vars == <<connections, room, playerConn, roomMembers, stage, target, closing>>
registry == <<connections, room, playerConn, roomMembers>>

Stages == {"new", "evicting", "accepting", "open", "ended"}

TypeOK ==
    /\ connections \subseteq Conns
    /\ room \in [Conns -> Rooms \cup {NoRoom}]
    /\ playerConn \in [Players -> Conns \cup {NoConn}]
    /\ DOMAIN roomMembers \subseteq Rooms
    /\ roomMembers \in [DOMAIN roomMembers -> SUBSET Conns]
    /\ stage \in [Conns -> Stages]
    /\ target \in [Conns -> Conns \cup {NoConn}]
    /\ closing \subseteq Conns

Init ==
    /\ connections = {}
    /\ room = [c \in Conns |-> NoRoom]
    /\ playerConn = [p \in Players |-> NoConn]
    /\ roomMembers = [r \in {} |-> {}]
    /\ stage = [c \in Conns |-> "new"]
    /\ target = [c \in Conns |-> NoConn]
    /\ closing = {}

----------------------------------------------------------------------------
(* Room membership: the dictionary rm without, or with, c in room r.  An   *)
(* entry whose set becomes empty is deleted.                               *)

DropMember(rm, r, c) ==
    IF r \in DOMAIN rm /\ rm[r] \subseteq {c}
    THEN [s \in DOMAIN rm \ {r} |-> rm[s]]
    ELSE [s \in DOMAIN rm |-> IF s = r THEN rm[s] \ {c} ELSE rm[s]]

AddMember(rm, r, c) ==
    [s \in DOMAIN rm \cup {r} |->
        (IF s \in DOMAIN rm THEN rm[s] ELSE {}) \cup (IF s = r THEN {c} ELSE {})]

----------------------------------------------------------------------------
(* disconnect(c): idempotent removal from every index.  The player index   *)
(* loses its entry only if the entry is c's.  The variant drops the entry   *)
(* whoever it names.                                                       *)

DisconnectAnyEntry(c) ==
    \/ /\ c \in connections
       /\ connections' = connections \ {c}
       /\ playerConn' = [playerConn EXCEPT ![PlayerOf[c]] = NoConn]
       /\ roomMembers' = DropMember(roomMembers, room[c], c)
       /\ UNCHANGED room
    \/ /\ c \notin connections
       /\ UNCHANGED registry

Disconnect(c) ==
    \/ /\ c \in connections
       /\ connections' = connections \ {c}
       /\ playerConn' = [playerConn EXCEPT ![PlayerOf[c]] =
                            IF @ = c THEN NoConn ELSE @]
       /\ roomMembers' = DropMember(roomMembers, room[c], c)
       /\ UNCHANGED room
    \/ /\ c \notin connections
       /\ UNCHANGED registry

----------------------------------------------------------------------------
(* The endpoint of connection c.                                           *)

\* connect(), player already registered: starts closing the old socket.
ConnectEvicts(c) ==
    /\ stage[c] = "new"
    /\ playerConn[PlayerOf[c]] \in connections
    /\ stage' = [stage EXCEPT ![c] = "evicting"]
    /\ target' = [target EXCEPT ![c] = playerConn[PlayerOf[c]]]
    /\ UNCHANGED <<connections, room, playerConn, roomMembers, closing>>

\* connect(), nobody to evict: straight to websocket.accept().
ConnectFresh(c) ==
    /\ stage[c] = "new"
    /\ playerConn[PlayerOf[c]] \notin connections
    /\ stage' = [stage EXCEPT ![c] = "accepting"]
    /\ UNCHANGED <<connections, room, playerConn, roomMembers, target, closing>>

\* The old socket is closed (or its close() raised, which is swallowed):
\* _force_close() unregisters it and connect() goes on to accept().
Evicted(c) ==
    /\ stage[c] = "evicting"
    /\ Disconnect(target[c])
    /\ stage' = [stage EXCEPT ![c] = "accepting"]
    /\ target' = [target EXCEPT ![c] = NoConn]
    /\ UNCHANGED closing

\* accept() returned: the connection is registered.  The message loop follows,
\* or the session set-up raises outside its try block: then the endpoint ends
\* and nobody unregisters c.
Accepted(c) ==
    /\ stage[c] = "accepting"
    /\ connections' = connections \cup {c}
    /\ room' = [room EXCEPT ![c] = NoRoom]
    /\ playerConn' = [playerConn EXCEPT ![PlayerOf[c]] = c]
    /\ \E next \in {"open", "ended"} : stage' = [stage EXCEPT ![c] = next]
    /\ UNCHANGED <<roomMembers, target, closing>>

\* accept() raised (the client left during the handshake): connect() raises
\* before it registers anything.
AcceptFails(c) ==
    /\ stage[c] = "accepting"
    /\ stage' = [stage EXCEPT ![c] = "ended"]
    /\ UNCHANGED <<connections, room, playerConn, roomMembers, target, closing>>

\* The message loop ends, for any reason: its finally clause unregisters c.
EndpointEnds(c) ==
    /\ stage[c] = "open"
    /\ Disconnect(c)
    /\ stage' = [stage EXCEPT ![c] = "ended"]
    /\ UNCHANGED <<target, closing>>

----------------------------------------------------------------------------
(* Calls by the game engine, which finds c as the connection of a player.  *)

IsCurrent(c) == c \in connections /\ playerConn[PlayerOf[c]] = c

\* Variants of join_room(): without leaving the room c is in; and indexing
\* c under the room_id it had before the assignment.
JoinRoomStaysInOld(c, r) ==
    /\ IsCurrent(c)
    /\ room' = [room EXCEPT ![c] = r]
    /\ roomMembers' = AddMember(roomMembers, r, c)
    /\ UNCHANGED <<connections, playerConn, stage, target, closing>>

JoinRoomBeforeAssignment(c, r) ==
    /\ IsCurrent(c)
    /\ room' = [room EXCEPT ![c] = r]
    /\ roomMembers' = AddMember(roomMembers, room[c], c)
    /\ UNCHANGED <<connections, playerConn, stage, target, closing>>

\* join_room(): leaves the current room first, if it is another one.
JoinRoom(c, r) ==
    /\ IsCurrent(c)
    /\ room' = [room EXCEPT ![c] = r]
    /\ roomMembers' =
         AddMember(IF room[c] = r THEN roomMembers
                                  ELSE DropMember(roomMembers, room[c], c), r, c)
    /\ UNCHANGED <<connections, playerConn, stage, target, closing>>

LeaveRoom(c) ==
    /\ IsCurrent(c)
    /\ room[c] # NoRoom
    /\ room' = [room EXCEPT ![c] = NoRoom]
    /\ roomMembers' = DropMember(roomMembers, room[c], c)
    /\ UNCHANGED <<connections, playerConn, stage, target, closing>>

----------------------------------------------------------------------------
(* Failing sends (send_personal, broadcast_to_room) and close_all.         *)

\* wait_for() timed out on a slow consumer: _force_close() awaits its close().
SendTimesOut(c) ==
    /\ c \in connections
    /\ closing' = closing \cup {c}
    /\ UNCHANGED <<connections, room, playerConn, roomMembers, stage, target>>

\* The send raised: the connection is unregistered at once.
SendFails(c) ==
    /\ c \in connections
    /\ Disconnect(c)
    /\ UNCHANGED <<stage, target, closing>>

\* Variant: the disconnect() after close() is missing.
ForceClosedForgets(c) ==
    /\ c \in closing
    /\ closing' = closing \ {c}
    /\ UNCHANGED <<connections, room, playerConn, roomMembers, stage, target>>

\* A pending close() returned or raised: _force_close() unregisters c.
ForceClosed(c) ==
    /\ c \in closing
    /\ Disconnect(c)
    /\ closing' = closing \ {c}
    /\ UNCHANGED <<stage, target>>

\* close_all(): force-closes the connections registered when it is called.
CloseAll ==
    /\ connections # {}
    /\ closing' = closing \cup connections
    /\ UNCHANGED <<connections, room, playerConn, roomMembers, stage, target>>

----------------------------------------------------------------------------
Endpoint(c) ==
    \/ ConnectEvicts(c)
    \/ ConnectFresh(c)
    \/ Evicted(c)
    \/ Accepted(c)
    \/ AcceptFails(c)
    \/ EndpointEnds(c)

Next ==
    \/ \E c \in Conns : Endpoint(c)
    \/ \E c \in Conns, r \in Rooms : JoinRoom(c, r)
    \/ \E c \in Conns : LeaveRoom(c)
    \/ \E c \in Conns : SendTimesOut(c)
    \/ \E c \in Conns : SendFails(c)
    \/ \E c \in Conns : ForceClosed(c)
    \/ CloseAll

\* A suspended close() always resumes: the server bounds the closing
\* handshake, and _force_close() swallows an exception.
Fairness ==
    /\ \A c \in Conns : WF_vars(ForceClosed(c))
    /\ \A c \in Conns : WF_vars(Evicted(c))

Spec == Init /\ [][Next]_vars
FairSpec == Spec /\ Fairness

----------------------------------------------------------------------------
(* Properties.                                                             *)

\* The player index only names registered connections of that very player,
\* so a lookup by player never returns a closed socket or someone else's.
IndexConsistent ==
    \A p \in Players : playerConn[p] # NoConn =>
        playerConn[p] \in connections /\ PlayerOf[playerConn[p]] = p

\* A room's member set holds exactly the registered connections whose own
\* room_id is that room, in both directions, and no empty set is kept: the
\* two representations of membership never drift apart, whatever the order
\* of joins, leaves, evictions and failed sends.
RoomsConsistent ==
    /\ \A r \in DOMAIN roomMembers : roomMembers[r] # {}
    /\ \A r \in DOMAIN roomMembers : \A c \in roomMembers[r] :
            c \in connections /\ room[c] = r
    /\ \A c \in connections : room[c] # NoRoom =>
            room[c] \in DOMAIN roomMembers /\ c \in roomMembers[room[c]]

\* A player never loses the index entry of a connection that stays
\* registered, except to a newer connection registered by that very step:
\* the late cleanup of an evicted connection cannot unhook its successor.
LatestStaysReachable ==
    [][\A p \in Players :
        (playerConn[p] \in connections' /\ playerConn'[p] # playerConn[p])
            => playerConn'[p] \in connections' \ connections]_vars

\* Every connection that someone started to force-close, as a slow consumer,
\* at shutdown or as the duplicate of a new one, is eventually unregistered.
ForcedOutLeaves ==
    \A c \in Conns :
        (c \in closing \/ \E d \in Conns : stage[d] = "evicting" /\ target[d] = c)
            ~> (c \notin connections)

\* "ensures one-player-one-connection invariant" (docstring of connect()).
OnePlayerOneConnection ==
    \A c, d \in connections : PlayerOf[c] = PlayerOf[d] => c = d
=============================================================================
