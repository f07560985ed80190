---------------------- MODULE ConnectionManager_proofs ----------------------
(***************************************************************************)
(* Proofs about the connection registry, for any players, connections and  *)
(* rooms.  TypeOK and the two consistency invariants are inductive         *)
(* together.                                                               *)
(***************************************************************************)
EXTENDS ConnectionManager, TLAPS

\* Only a connection whose connect() has finished is registered: connect()
\* registers its connection id once.
Fresh == \A c \in Conns : stage[c] \in {"new", "evicting", "accepting"} => c \notin connections

RegistryInv == TypeOK /\ IndexConsistent /\ RoomsConsistent

----------------------------------------------------------------------------
(* disconnect() is the only shrinking step: endpoints, failed sends,       *)
(* evictions and forced closes all go through it.                          *)

\* disconnect() preserves the registry invariant whoever calls it, also for a
\* connection that is already gone.
LEMMA DisconnectPreserves ==
    ASSUME RegistryInv, NEW c, Disconnect(c),
           stage' \in [Conns -> Stages],
           target' \in [Conns -> Conns \cup {NoConn}],
           closing' \subseteq Conns
    PROVE  RegistryInv'
<1>. USE ConnectionAssumption
<1>1. CASE c \notin connections
  BY <1>1 DEF Disconnect, RegistryInv, TypeOK, IndexConsistent, RoomsConsistent, registry
<1>2. CASE c \in connections
  <2>1. c \in Conns
    BY <1>2 DEF RegistryInv, TypeOK
  <2>2. /\ connections' = connections \ {c}
        /\ playerConn' = [playerConn EXCEPT ![PlayerOf[c]] = IF @ = c THEN NoConn ELSE @]
        /\ roomMembers' = DropMember(roomMembers, room[c], c)
        /\ room' = room
    BY <1>2 DEF Disconnect, registry
  <2>3. /\ DOMAIN roomMembers' \subseteq DOMAIN roomMembers
        /\ roomMembers' \in [DOMAIN roomMembers' -> SUBSET Conns]
        /\ \A s \in DOMAIN roomMembers' :
              roomMembers'[s] = IF s = room[c] THEN roomMembers[s] \ {c} ELSE roomMembers[s]
        /\ \A s \in DOMAIN roomMembers \ DOMAIN roomMembers' :
              s = room[c] /\ roomMembers[s] \subseteq {c}
        /\ room[c] \in DOMAIN roomMembers' => roomMembers'[room[c]] # {}
    <3>1. DOMAIN roomMembers \subseteq Rooms /\ roomMembers \in [DOMAIN roomMembers -> SUBSET Conns]
      BY DEF RegistryInv, TypeOK
    <3>2. CASE room[c] \in DOMAIN roomMembers /\ roomMembers[room[c]] \subseteq {c}
      BY ONLY <2>2, <3>1, <3>2 DEF DropMember
    <3>3. CASE ~(room[c] \in DOMAIN roomMembers /\ roomMembers[room[c]] \subseteq {c})
      BY ONLY <2>2, <3>1, <3>3 DEF DropMember
    <3> QED BY <3>2, <3>3
  <2>4. TypeOK'
    BY <2>1, <2>2, <2>3 DEF RegistryInv, TypeOK
  <2>5. IndexConsistent'
    BY <2>1, <2>2 DEF RegistryInv, TypeOK, IndexConsistent
  <2>6. RoomsConsistent'
    <3>1. \A r \in DOMAIN roomMembers' : roomMembers'[r] # {}
      BY <2>3 DEF RegistryInv, RoomsConsistent
    <3>2. ASSUME NEW r \in DOMAIN roomMembers', NEW d \in roomMembers'[r]
          PROVE  d \in connections' /\ room'[d] = r
      <4>1. r \in DOMAIN roomMembers /\ d \in roomMembers[r]
        BY <2>3
      <4>2. d \in connections /\ room[d] = r
        BY <4>1 DEF RegistryInv, RoomsConsistent
      <4>3. d # c
        BY <2>3, <4>2
      <4> QED BY <2>2, <4>2, <4>3
    <3>3. ASSUME NEW d \in connections', room'[d] # NoRoom
          PROVE  room'[d] \in DOMAIN roomMembers' /\ d \in roomMembers'[room'[d]]
      <4>1. d # c /\ room[d] \in DOMAIN roomMembers /\ d \in roomMembers[room[d]]
        BY <2>2, <3>3 DEF RegistryInv, RoomsConsistent
      <4>2. room[d] \in DOMAIN roomMembers'
        BY <2>3, <4>1
      <4> QED BY <2>2, <2>3, <4>1, <4>2
    <3> QED BY <3>1, <3>2, <3>3 DEF RoomsConsistent
  <2> QED BY <2>4, <2>5, <2>6 DEF RegistryInv
<1> QED BY <1>1, <1>2

\* join_room() and leave_room() keep room_id and the member sets in step.
LEMMA JoinRoomPreserves ==
    ASSUME RegistryInv, NEW c \in Conns, NEW r \in Rooms, JoinRoom(c, r)
    PROVE  RegistryInv'
<1>. USE ConnectionAssumption
<1>. DEFINE rm == IF room[c] = r THEN roomMembers ELSE DropMember(roomMembers, room[c], c)
<1>1. /\ c \in connections
      /\ room' = [room EXCEPT ![c] = r]
      /\ UNCHANGED <<connections, playerConn, stage, target, closing>>
      /\ roomMembers' = AddMember(rm, r, c)
  BY DEF JoinRoom, IsCurrent
<1>2. DOMAIN roomMembers \subseteq Rooms /\ roomMembers \in [DOMAIN roomMembers -> SUBSET Conns]
  BY DEF RegistryInv, TypeOK
\* What is left of the member sets when c has left the other rooms.
<1>3. /\ DOMAIN rm \subseteq DOMAIN roomMembers
      /\ rm \in [DOMAIN rm -> SUBSET Conns]
      /\ \A s \in DOMAIN rm \ {r} : rm[s] = roomMembers[s] \ {c} /\ rm[s] # {}
      /\ \A s \in DOMAIN roomMembers \ DOMAIN rm : roomMembers[s] \subseteq {c}
      /\ r \in DOMAIN rm => rm[r] = roomMembers[r]
  <2>1. \A s \in DOMAIN roomMembers : s # room[c] => c \notin roomMembers[s]
    BY DEF RegistryInv, RoomsConsistent
  <2>2. \A s \in DOMAIN roomMembers : roomMembers[s] # {}
    BY DEF RegistryInv, RoomsConsistent
  <2>3. CASE room[c] = r
    BY <1>2, <2>1, <2>2, <2>3
  <2>4. CASE room[c] # r /\ room[c] \in DOMAIN roomMembers /\ roomMembers[room[c]] \subseteq {c}
    <3>1. rm = [s \in DOMAIN roomMembers \ {room[c]} |-> roomMembers[s]]
      BY <2>4 DEF DropMember
    <3>. HIDE DEF rm
    <3>2. DOMAIN rm = DOMAIN roomMembers \ {room[c]} /\ \A s \in DOMAIN rm : rm[s] = roomMembers[s]
      BY <3>1
    <3>3. rm \in [DOMAIN rm -> SUBSET Conns]
      BY <3>1, <1>2
    <3> QED BY <3>2, <3>3, <2>1, <2>2, <2>4
  <2>5. CASE room[c] # r /\ ~(room[c] \in DOMAIN roomMembers /\ roomMembers[room[c]] \subseteq {c})
    <3>1. rm = [s \in DOMAIN roomMembers |->
                    IF s = room[c] THEN roomMembers[s] \ {c} ELSE roomMembers[s]]
      BY <2>5 DEF DropMember
    <3>. HIDE DEF rm
    <3>2. DOMAIN rm = DOMAIN roomMembers
      BY <3>1
    <3>3. rm \in [DOMAIN rm -> SUBSET Conns]
      BY <3>1, <1>2
    <3>4. \A s \in DOMAIN rm \ {r} : rm[s] = roomMembers[s] \ {c} /\ rm[s] # {}
      BY <3>1, <2>1, <2>2, <2>5
    <3>5. r \in DOMAIN rm => rm[r] = roomMembers[r]
      BY <3>1, <2>5
    <3> QED BY <3>2, <3>3, <3>4, <3>5
  <2> QED BY <2>3, <2>4, <2>5
<1>. HIDE DEF rm
<1>4. /\ DOMAIN roomMembers' = DOMAIN rm \cup {r}
      /\ roomMembers' \in [DOMAIN roomMembers' -> SUBSET Conns]
      /\ \A s \in DOMAIN rm \ {r} : roomMembers'[s] = rm[s]
      /\ c \in roomMembers'[r]
      /\ \A x \in roomMembers'[r] : x = c \/ (r \in DOMAIN roomMembers /\ x \in roomMembers[r])
      /\ r \in DOMAIN rm => roomMembers[r] \subseteq roomMembers'[r]
  BY <1>1, <1>3 DEF AddMember
<1>5. TypeOK'
  BY <1>1, <1>2, <1>3, <1>4 DEF RegistryInv, TypeOK
<1>6. IndexConsistent'
  BY <1>1 DEF RegistryInv, IndexConsistent
<1>7. RoomsConsistent'
  <2>1. \A s \in DOMAIN roomMembers' : roomMembers'[s] # {}
    BY <1>3, <1>4
  <2>2. ASSUME NEW s \in DOMAIN roomMembers', NEW d \in roomMembers'[s]
        PROVE  d \in connections' /\ room'[d] = s
    <3>1. CASE d = c
      <4>1. s = r
        BY <1>3, <1>4, <3>1
      <4> QED BY <1>1, <3>1, <4>1 DEF RegistryInv, TypeOK
    <3>2. CASE d # c
      <4>1. s \in DOMAIN roomMembers /\ d \in roomMembers[s]
        BY <1>3, <1>4, <3>2
      <4> QED BY <1>1, <3>2, <4>1 DEF RegistryInv, RoomsConsistent, TypeOK
    <3> QED BY <3>1, <3>2
  <2>3. ASSUME NEW d \in connections', room'[d] # NoRoom
        PROVE  room'[d] \in DOMAIN roomMembers' /\ d \in roomMembers'[room'[d]]
    <3>1. CASE d = c
      BY <1>1, <1>4, <3>1 DEF RegistryInv, TypeOK
    <3>2. CASE d # c
      <4>1. /\ room'[d] = room[d]
            /\ room[d] \in DOMAIN roomMembers
            /\ d \in roomMembers[room[d]]
        BY <1>1, <2>3, <3>2 DEF RegistryInv, RoomsConsistent, TypeOK
      <4>2. room[d] \in DOMAIN rm
        BY <1>3, <3>2, <4>1
      <4> QED BY <1>3, <1>4, <3>2, <4>1, <4>2
    <3> QED BY <3>1, <3>2
  <2> QED BY <2>1, <2>2, <2>3 DEF RoomsConsistent
<1> QED BY <1>5, <1>6, <1>7 DEF RegistryInv

\* leave_room() takes the connection out of its room in both.
LEMMA LeaveRoomPreserves ==
    ASSUME RegistryInv, NEW c \in Conns, LeaveRoom(c)
    PROVE  RegistryInv'
<1>. USE ConnectionAssumption
<1>1. /\ c \in connections /\ room[c] # NoRoom
      /\ room' = [room EXCEPT ![c] = NoRoom]
      /\ UNCHANGED <<connections, playerConn, stage, target, closing>>
      /\ roomMembers' = DropMember(roomMembers, room[c], c)
  BY DEF LeaveRoom, IsCurrent
<1>2. DOMAIN roomMembers \subseteq Rooms /\ roomMembers \in [DOMAIN roomMembers -> SUBSET Conns]
  BY DEF RegistryInv, TypeOK
<1>3. /\ DOMAIN roomMembers' \subseteq DOMAIN roomMembers
      /\ roomMembers' \in [DOMAIN roomMembers' -> SUBSET Conns]
      /\ \A s \in DOMAIN roomMembers' :
            roomMembers'[s] = IF s = room[c] THEN roomMembers[s] \ {c} ELSE roomMembers[s]
      /\ \A s \in DOMAIN roomMembers \ DOMAIN roomMembers' :
            s = room[c] /\ roomMembers[s] \subseteq {c}
      /\ room[c] \in DOMAIN roomMembers' => roomMembers'[room[c]] # {}
  <2>1. CASE room[c] \in DOMAIN roomMembers /\ roomMembers[room[c]] \subseteq {c}
    BY ONLY <1>1, <1>2, <2>1 DEF DropMember
  <2>2. CASE ~(room[c] \in DOMAIN roomMembers /\ roomMembers[room[c]] \subseteq {c})
    BY ONLY <1>1, <1>2, <2>2 DEF DropMember
  <2> QED BY <2>1, <2>2
<1>4. TypeOK'
  BY <1>1, <1>3 DEF RegistryInv, TypeOK
<1>5. IndexConsistent'
  BY <1>1 DEF RegistryInv, IndexConsistent
<1>6. RoomsConsistent'
  <2>1. \A s \in DOMAIN roomMembers' : roomMembers'[s] # {}
    BY <1>3 DEF RegistryInv, RoomsConsistent
  <2>2. ASSUME NEW s \in DOMAIN roomMembers', NEW d \in roomMembers'[s]
        PROVE  d \in connections' /\ room'[d] = s
    <3>1. s \in DOMAIN roomMembers /\ d \in roomMembers[s]
      BY <1>3
    <3>2. d \in connections /\ room[d] = s
      BY <3>1 DEF RegistryInv, RoomsConsistent
    <3>3. d # c
      BY <1>3, <3>2
    <3> QED BY <1>1, <3>2, <3>3 DEF RegistryInv, TypeOK
  <2>3. ASSUME NEW d \in connections', room'[d] # NoRoom
        PROVE  room'[d] \in DOMAIN roomMembers' /\ d \in roomMembers'[room'[d]]
    <3>1. d # c /\ room'[d] = room[d]
      BY <1>1, <2>3 DEF RegistryInv, TypeOK
    <3>2. room[d] \in DOMAIN roomMembers /\ d \in roomMembers[room[d]]
      BY <1>1, <2>3, <3>1 DEF RegistryInv, RoomsConsistent
    <3>3. room[d] \in DOMAIN roomMembers'
      BY <1>3, <3>1, <3>2
    <3> QED BY <1>3, <3>1, <3>2, <3>3
  <2> QED BY <2>1, <2>2, <2>3 DEF RoomsConsistent
<1> QED BY <1>4, <1>5, <1>6 DEF RegistryInv

\* Registering a connection: it is fresh to the registry, so it is in no
\* room's member set.
LEMMA AcceptedPreserves ==
    ASSUME RegistryInv, Fresh, NEW c \in Conns, Accepted(c)
    PROVE  RegistryInv'
<1>. USE ConnectionAssumption
<1>1. /\ c \notin connections
      /\ connections' = connections \cup {c}
      /\ room' = [room EXCEPT ![c] = NoRoom]
      /\ playerConn' = [playerConn EXCEPT ![PlayerOf[c]] = c]
      /\ \E next \in {"open", "ended"} : stage' = [stage EXCEPT ![c] = next]
      /\ UNCHANGED <<roomMembers, target, closing>>
  BY DEF Accepted, Fresh
<1>2. TypeOK'
  BY <1>1 DEF RegistryInv, TypeOK, Stages
<1>3. IndexConsistent'
  BY <1>1 DEF RegistryInv, TypeOK, IndexConsistent
<1>4. RoomsConsistent'
  BY <1>1 DEF RegistryInv, TypeOK, RoomsConsistent
<1> QED BY <1>2, <1>3, <1>4 DEF RegistryInv

----------------------------------------------------------------------------
(* The inductive invariant.                                                *)

Inv == RegistryInv /\ Fresh

\* The empty registry satisfies the invariant.
LEMMA InitInv == Init => Inv
BY ConnectionAssumption
   DEF Init, Inv, RegistryInv, Fresh, TypeOK, Stages, IndexConsistent, RoomsConsistent

\* One step per action.
LEMMA NextInv == Inv /\ [Next]_vars => Inv'
<1>. SUFFICES ASSUME Inv, [Next]_vars PROVE Inv'
  OBVIOUS
<1>. USE ConnectionAssumption
<1>. USE DEF Inv
<1>0. TypeOK
  BY DEF RegistryInv
\* Steps that leave the registry alone only move stage, target and closing.
<1>a. ASSUME UNCHANGED registry,
             stage' \in [Conns -> Stages],
             target' \in [Conns -> Conns \cup {NoConn}],
             closing' \subseteq Conns
      PROVE  RegistryInv'
  BY <1>a DEF RegistryInv, TypeOK, IndexConsistent, RoomsConsistent, registry
<1>1. ASSUME NEW c \in Conns, ConnectEvicts(c) PROVE Inv'
  <2>1. RegistryInv'
    BY <1>0, <1>a, <1>1 DEF ConnectEvicts, TypeOK, Stages, registry
  <2>2. Fresh'
    BY <1>0, <1>1 DEF ConnectEvicts, Fresh, TypeOK
  <2> QED BY <2>1, <2>2
<1>2. ASSUME NEW c \in Conns, ConnectFresh(c) PROVE Inv'
  <2>1. RegistryInv'
    BY <1>0, <1>a, <1>2 DEF ConnectFresh, TypeOK, Stages, registry
  <2>2. Fresh'
    BY <1>0, <1>2 DEF ConnectFresh, Fresh, TypeOK
  <2> QED BY <2>1, <2>2
<1>3. ASSUME NEW c \in Conns, Evicted(c) PROVE Inv'
  <2>1. RegistryInv'
    BY <1>0, <1>3, DisconnectPreserves DEF Evicted, TypeOK, Stages
  <2>2. Fresh'
    BY <1>0, <1>3 DEF Evicted, Disconnect, registry, Fresh, TypeOK
  <2> QED BY <2>1, <2>2
<1>4. ASSUME NEW c \in Conns, Accepted(c) PROVE Inv'
  <2>1. RegistryInv'
    BY <1>4, AcceptedPreserves
  <2>2. Fresh'
    BY <1>0, <1>4 DEF Accepted, Fresh, TypeOK
  <2> QED BY <2>1, <2>2
<1>5. ASSUME NEW c \in Conns, AcceptFails(c) PROVE Inv'
  <2>1. RegistryInv'
    BY <1>0, <1>a, <1>5 DEF AcceptFails, TypeOK, Stages, registry
  <2>2. Fresh'
    BY <1>0, <1>5 DEF AcceptFails, Fresh, TypeOK
  <2> QED BY <2>1, <2>2
<1>6. ASSUME NEW c \in Conns, EndpointEnds(c) PROVE Inv'
  <2>1. RegistryInv'
    BY <1>0, <1>6, DisconnectPreserves DEF EndpointEnds, TypeOK, Stages
  <2>2. Fresh'
    BY <1>0, <1>6 DEF EndpointEnds, Disconnect, registry, Fresh, TypeOK
  <2> QED BY <2>1, <2>2
<1>7. ASSUME NEW c \in Conns, NEW r \in Rooms, JoinRoom(c, r) PROVE Inv'
  BY <1>7, JoinRoomPreserves DEF JoinRoom, Fresh
<1>8. ASSUME NEW c \in Conns, LeaveRoom(c) PROVE Inv'
  BY <1>8, LeaveRoomPreserves DEF LeaveRoom, Fresh
<1>9. ASSUME NEW c \in Conns, SendTimesOut(c) PROVE Inv'
  <2>1. RegistryInv'
    BY <1>0, <1>a, <1>9 DEF SendTimesOut, TypeOK, registry
  <2> QED BY <1>9, <2>1 DEF SendTimesOut, Fresh
<1>10. ASSUME NEW c \in Conns, SendFails(c) PROVE Inv'
  <2>1. RegistryInv'
    BY <1>0, <1>10, DisconnectPreserves DEF SendFails, TypeOK
  <2>2. Fresh'
    BY <1>0, <1>10 DEF SendFails, Disconnect, registry, Fresh, TypeOK
  <2> QED BY <2>1, <2>2
<1>11. ASSUME NEW c \in Conns, ForceClosed(c) PROVE Inv'
  <2>1. RegistryInv'
    BY <1>0, <1>11, DisconnectPreserves DEF ForceClosed, TypeOK
  <2>2. Fresh'
    BY <1>0, <1>11 DEF ForceClosed, Disconnect, registry, Fresh, TypeOK
  <2> QED BY <2>1, <2>2
<1>12. ASSUME CloseAll PROVE Inv'
  <2>1. RegistryInv'
    BY <1>0, <1>a, <1>12 DEF CloseAll, TypeOK, registry
  <2> QED BY <1>12, <2>1 DEF CloseAll, Fresh
<1>13. ASSUME UNCHANGED vars PROVE Inv'
  <2>1. RegistryInv'
    BY <1>0, <1>a, <1>13 DEF vars, TypeOK, registry
  <2> QED BY <1>13, <2>1 DEF vars, Fresh
<1> QED
  BY <1>1, <1>2, <1>3, <1>4, <1>5, <1>6, <1>7, <1>8, <1>9, <1>10, <1>11, <1>12, <1>13
     DEF Next, Endpoint

\* The inductive invariant holds in every reachable state of the registry.
THEOREM Invariance == Spec => []Inv
<1>1. Inv /\ [Next]_vars => Inv'
  BY NextInv
<1> QED BY InitInv, <1>1, PTL DEF Spec

\* The registry's variables always have their types: in particular only real
\* rooms are keys of _room_members.
THEOREM TypeCorrect == Spec => []TypeOK
<1>1. Inv => TypeOK
  BY DEF Inv, RegistryInv
<1> QED BY Invariance, <1>1, PTL

\* A lookup by player yields a registered connection of that player, for any
\* number of players, sockets and rooms.
THEOREM IndexTheorem == Spec => []IndexConsistent
<1>1. Inv => IndexConsistent
  BY DEF Inv, RegistryInv
<1> QED BY Invariance, <1>1, PTL

\* room_id and _room_members never disagree, and no empty set is kept.
THEOREM RoomsTheorem == Spec => []RoomsConsistent
<1>1. Inv => RoomsConsistent
  BY DEF Inv, RegistryInv
<1> QED BY Invariance, <1>1, PTL

----------------------------------------------------------------------------
(* What a step may not do to the player index.                             *)

\* disconnect() takes no index entry away from a connection that stays.
LEMMA DisconnectKeepsOthers ==
    ASSUME RegistryInv, NEW c, Disconnect(c), NEW p \in Players,
           playerConn[p] \in connections'
    PROVE  playerConn'[p] = playerConn[p]
<1>1. CASE c \notin connections
  BY <1>1 DEF Disconnect, registry
<1>2. CASE c \in connections
  BY <1>2 DEF Disconnect, RegistryInv, TypeOK, registry
<1> QED BY <1>1, <1>2

\* A late cleanup never unhooks a newer connection: an entry moves away from
\* a connection that stays registered only to one registered by that step.
THEOREM LatestTheorem == Spec => LatestStaysReachable
<1>. DEFINE Kept == \A p \in Players :
              (playerConn[p] \in connections' /\ playerConn'[p] # playerConn[p])
                  => playerConn'[p] \in connections' \ connections
<1>1. Inv /\ [Next]_vars => [Kept]_vars
  <2>. SUFFICES ASSUME Inv, Next, NEW p \in Players,
                       playerConn[p] \in connections', playerConn'[p] # playerConn[p]
                PROVE  playerConn'[p] \in connections' \ connections
    OBVIOUS
  <2>. USE ConnectionAssumption
  <2>1. RegistryInv /\ Fresh /\ TypeOK
    BY DEF Inv, RegistryInv
  <2>2. \A c : ~Disconnect(c)
    BY <2>1, DisconnectKeepsOthers
  <2>3. PICK c \in Conns : Accepted(c)
    BY <2>2 DEF Next, Endpoint, ConnectEvicts, ConnectFresh, Evicted, AcceptFails,
                EndpointEnds, JoinRoom, LeaveRoom, SendTimesOut, SendFails, ForceClosed,
                CloseAll
  <2>4. playerConn' = [playerConn EXCEPT ![PlayerOf[c]] = c]
    BY <2>3 DEF Accepted
  <2>5. playerConn'[p] = c
    BY <2>1, <2>4 DEF TypeOK
  <2> QED BY <2>1, <2>3, <2>5 DEF Accepted, Fresh
<1> QED BY Invariance, <1>1, PTL DEF Spec, LatestStaysReachable
=============================================================================
