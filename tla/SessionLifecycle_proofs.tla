----------------------- MODULE SessionLifecycle_proofs -----------------------
(***************************************************************************)
(* Proofs about SessionLifecycle, for any number of connections, games and *)
(* instances, with endpoints that overlap, sessions that expire and        *)
(* sockets that get lost at any await.                                     *)
(*                                                                         *)
(* The argument has two halves.  As long as nothing has disturbed the      *)
(* player's endpoints, at most one of them has read the session, and its   *)
(* stage says what the session, the engine and the endpoint know of each   *)
(* other: CalmInv.  Once they are torn, all running games are astray until *)
(* everything has settled; from there the first half holds again.          *)
(***************************************************************************)
EXTENDS SessionLifecycle, TLAPS

----------------------------------------------------------------------------
(* The inductive invariants.                                               *)

Used == (0..played) \ (IF creating = NoRoom THEN {} ELSE {creating})

\* A session or an endpoint names a room only after create_game() has written
\* it: the game being created is not known to anybody.
RoomsAreUsed ==
    /\ session.room \in Used
    /\ \A c \in Conns : seen[c] \in Used
    /\ creating \notin away

TypeInv == TypeOK /\ RoomsAreUsed

\* What holds of the endpoints in any case.
EndpointInv ==
    /\ online # NoConn => stage[online] \notin {"none", "leaving", "marking", "telling"}
    /\ queued => \E c \in Conns : stage[c] = "open"
    /\ matched => creating = NoRoom
    /\ creating \notin astray

Alive == session.whole /\ session.state # "disconnected"

\* The games that the code has neither lost track of nor is about to announce.
Tracked == running \ (astray \cup {creating})

\* The engines count the player as present in the game r if it is at instance i,
\* and in no other.
PresentIn(r, i) ==
    \A g \in Tracked : g \notin away <=> r = g /\ owner[g] = i

OneEndpoint == \A c, d \in Conns : Busy(c) /\ Busy(d) => c = d

\* An announced or held player has an endpoint.
CreatingInv == matched \/ creating # NoRoom => \E c \in Conns : stage[c] = "open"

\* No endpoint has read the session.
IdleInv == (\A c \in Conns : ~Busy(c)) => Gone /\ Tracked \subseteq away

\* What holds at each stage of an endpoint.
StageInv(c) ==
    /\ stage[c] \in {"creating", "rereading", "claiming", "resuming"} => Tracked \subseteq away
    /\ stage[c] \in {"rereading", "claiming"} => session.whole /\ session.state = "disconnected"
    /\ stage[c] = "telling" => Gone
    /\ stage[c] \in {"claiming", "resuming", "marking"} => seen[c] = session.room
    /\ stage[c] \in {"resuming", "open", "leaving", "marking"} => Alive
    /\ stage[c] \in {"open", "leaving", "marking"} => PresentIn(session.room, home[c])
    /\ stage[c] = "telling" => PresentIn(seen[c], home[c])

CalmInv == OneEndpoint /\ CreatingInv /\ IdleInv /\ \A c \in Conns : StageInv(c)

TornInv == running \ {creating} \subseteq astray

Inv ==
    /\ TypeInv
    /\ EndpointInv
    /\ IF torn THEN TornInv ELSE CalmInv

----------------------------------------------------------------------------
(* Types.                                                                  *)

LEMMA InitType == Init => TypeInv
<1>. SUFFICES ASSUME Init PROVE TypeInv
  OBVIOUS
<1>1. session \in Sessions
  BY DEF Init, Missing, Sessions, States, NoRoom
<1>2. stage \in [Conns -> Stages] /\ seen \in [Conns -> Games \cup {NoRoom}]
  BY DEF Init, Stages
<1>3. TypeOK
  <2>1. home \in [Conns -> Instances \cup {Nowhere}] /\ owner \in [Games -> Instances \cup {Nowhere}]
    BY DEF Init
  <2>2. played \in 0..MaxGames
    BY SessionAssumption DEF Init
  <2> QED BY <1>1, <1>2, <2>1, <2>2 DEF Init, TypeOK
<1>4. RoomsAreUsed
  <2>1. 0 \in Used /\ session.room = 0
    BY DEF Init, Used, Missing, NoRoom
  <2> QED BY <2>1 DEF Init, RoomsAreUsed, NoRoom
<1> QED BY <1>3, <1>4 DEF TypeInv

\* What the history does in any step.
LEMMA HistoryType == Remembers => torn' \in BOOLEAN /\ astray' \subseteq running'
BY DEF Remembers

\* An endpoint that proceeds keeps the types.
LEMMA GoesType ==
    ASSUME TypeOK, NEW c \in Conns, NEW s \in Stages, NEW room \in Games \cup {NoRoom},
           s \in {"resuming", "telling"} => room \in Games, Goes(c, s, room)
    PROVE  /\ stage' \in [Conns -> Stages]
           /\ home' \in [Conns -> Instances \cup {Nowhere}]
           /\ seen' \in [Conns -> Games \cup {NoRoom}]
           /\ \A d \in Conns : stage'[d] \in {"resuming", "telling"} => seen'[d] \in Games
           /\ \A d \in Conns : seen'[d] \in {seen[d], room, NoRoom}
BY DEF TypeOK, Goes

\* Every action keeps the types.
LEMMA NextType == TypeInv /\ [Next]_vars => TypeInv'
<1>. SUFFICES ASSUME TypeInv, [Next]_vars PROVE TypeInv'
  OBVIOUS
<1>. USE SessionAssumption, HistoryType
     DEF TypeInv, TypeOK, RoomsAreUsed, Used, Sessions, States, Stages, Games, NoRoom, Goes,
         conns, engine
<1>1. ASSUME NEW c \in Conns, Connects(c) PROVE TypeInv'
  BY <1>1 DEF Connects
<1>2. ASSUME NEW c \in Conns, LooksUp(c) PROVE TypeInv'
  BY <1>2 DEF LooksUp, Unreadable, Dropped
<1>3. ASSUME NEW c \in Conns, Creates(c) PROVE TypeInv'
  BY <1>3 DEF Creates, Fresh
<1>4. ASSUME NEW c \in Conns, Rereads(c) PROVE TypeInv'
  <2>1. CASE session.state = "disconnected" /\ session.whole
    <3>1. Goes(c, "claiming", session.room) /\ online' = online
      BY <1>4, <2>1 DEF Rereads, Unreadable
    <3>2. session.room \in Games \cup {NoRoom}
      OBVIOUS
    <3> HIDE DEF Goes
    <3> QED BY <1>4, <3>1, <3>2, GoesType DEF Rereads
  <2>2. CASE ~(session.state = "disconnected" /\ session.whole)
    <3>1. PICK s \in {"none", "open"} : Goes(c, s, NoRoom)
      BY <1>4, <2>2 DEF Rereads
    <3>2. online' \in Conns \cup {NoConn}
      BY <1>4 DEF Rereads, Dropped
    <3> HIDE DEF Goes
    <3> QED BY <1>4, <3>1, <3>2, GoesType DEF Rereads
  <2> QED BY <2>1, <2>2
<1>5. ASSUME NEW c \in Conns, Claims(c) PROVE TypeInv'
  BY <1>5 DEF Claims, SetState
<1>6. ASSUME NEW c \in Conns, Resumes(c) PROVE TypeInv'
  <2>1. Goes(c, "open", NoRoom)
    BY <1>6 DEF Resumes
  <2>2. away' \subseteq away
    BY <1>6 DEF Resumes
  <2>3. /\ stage' \in [Conns -> Stages]
        /\ home' \in [Conns -> Instances \cup {Nowhere}]
        /\ seen' \in [Conns -> Games \cup {NoRoom}]
        /\ \A d \in Conns : stage'[d] \in {"resuming", "telling"} => seen'[d] \in Games
        /\ \A d \in Conns : seen'[d] \in {seen[d], NoRoom}
    BY <2>1
  <2> HIDE DEF Goes
  <2>4. TypeOK'
    BY <1>6, <2>1, <2>2, <2>3 DEF Resumes
  <2>5. RoomsAreUsed'
    BY <1>6, <2>2, <2>3 DEF Resumes
  <2> QED BY <2>4, <2>5
<1>7. ASSUME NEW c \in Conns, Leaves(c) PROVE TypeInv'
  <2>1. Goes(c, "leaving", NoRoom)
    BY <1>7 DEF Leaves
  <2>2. /\ stage' \in [Conns -> Stages]
        /\ home' \in [Conns -> Instances \cup {Nowhere}]
        /\ seen' \in [Conns -> Games \cup {NoRoom}]
        /\ \A d \in Conns : stage'[d] \in {"resuming", "telling"} => seen'[d] \in Games
        /\ \A d \in Conns : seen'[d] \in {seen[d], NoRoom}
    BY <2>1
  <2> HIDE DEF Goes
  <2>4. TypeOK'
    BY <1>7, <2>1, <2>2 DEF Leaves
  <2>5. RoomsAreUsed'
    BY <1>7, <2>2 DEF Leaves
  <2> QED BY <2>4, <2>5
<1>8. ASSUME NEW c \in Conns, ReadsToMark(c) PROVE TypeInv'
  BY <1>8 DEF ReadsToMark
<1>9. ASSUME NEW c \in Conns, Marks(c) PROVE TypeInv'
  BY <1>9 DEF Marks, SetState
<1>10. ASSUME NEW c \in Conns, Tells(c) PROVE TypeInv'
  <2>1. Goes(c, "none", NoRoom)
    BY <1>10 DEF Tells
  <2>2. away' \subseteq away \cup {seen[c]} /\ away' \subseteq running
    BY <1>10 DEF Tells, GamesAt
  <2> HIDE DEF Goes
  <2> QED BY <1>10, <2>1, <2>2, GoesType DEF Tells
<1>11. ASSUME NEW c \in Conns, Pings(c) PROVE TypeInv'
  BY <1>11 DEF Pings, Listens, SetState, Touched
<1>12. ASSUME NEW c \in Conns, FindsMatch(c) PROVE TypeInv'
  BY <1>12 DEF FindsMatch, Listens, SetState, Touched
<1>13. ASSUME NEW c \in Conns, CancelsMatch(c) PROVE TypeInv'
  BY <1>13 DEF CancelsMatch, Listens, SetState
<1>14. ASSUME SocketLost PROVE TypeInv'
  BY <1>14 DEF SocketLost
<1>15. ASSUME Pops PROVE TypeInv'
  BY <1>15 DEF Pops
<1>16. ASSUME LosesPair PROVE TypeInv'
  BY <1>16 DEF LosesPair
<1>17. ASSUME NEW g \in Games, GameStarts(g) PROVE TypeInv'
  <2>1. PICK i \in Instances : owner' = [owner EXCEPT ![g] = i]
    BY <1>17 DEF GameStarts
  <2>2. g = played + 1 /\ g \notin running /\ g \notin away /\ played' = g
    BY <1>17 DEF GameStarts
  <2>3. Used \subseteq Used'
    BY <1>17, <2>2 DEF GameStarts
  <2>4. RoomsAreUsed'
    BY <1>17, <2>2, <2>3 DEF GameStarts
  <2>5. owner' \in [Games -> Instances \cup {Nowhere}]
    BY <2>1
  <2>6. running' \subseteq 1..played' /\ creating' \in running' /\ played' \in 0..MaxGames
    BY <1>17, <2>2 DEF GameStarts
  <2>7. TypeOK'
    BY <1>17, <2>2, <2>5, <2>6 DEF GameStarts
  <2> QED BY <2>4, <2>7
<1>18. ASSUME NamesRoom PROVE TypeInv'
  <2>1. creating \in 1..played /\ creating' = 0 /\ played' = played
    BY <1>18 DEF NamesRoom
  <2>2. Used' = 0..played /\ creating \in Games
    BY <2>1
  <2>5. session' \in Sessions /\ session'.room = creating
    BY <1>18, <2>2 DEF NamesRoom
  <2>3. RoomsAreUsed'
    BY <1>18, <2>1, <2>2, <2>5 DEF NamesRoom
  <2>4. TypeOK'
    BY <1>18, <2>1, <2>5 DEF NamesRoom
  <2> QED BY <2>3, <2>4
<1>19. ASSUME CreationFails PROVE TypeInv'
  BY <1>19 DEF CreationFails
<1>20. ASSUME NEW g \in Games, GameEnds(g) PROVE TypeInv'
  BY <1>20 DEF GameEnds, Ends
<1>21. ASSUME NEW g \in Games, Forfeits(g) PROVE TypeInv'
  BY <1>21 DEF Forfeits, Ends
<1>22. ASSUME Expires PROVE TypeInv'
  BY <1>22 DEF Expires, Missing
<1>23. ASSUME UNCHANGED vars PROVE TypeInv'
  BY <1>23 DEF vars
<1> QED BY <1>1, <1>2, <1>3, <1>4, <1>5, <1>6, <1>7, <1>8, <1>9, <1>10, <1>11, <1>12,
       <1>13, <1>14, <1>15, <1>16, <1>17, <1>18, <1>19, <1>20, <1>21, <1>22, <1>23
    DEF Next, Proceeds, Message

----------------------------------------------------------------------------
(* What the history says of a step.                                        *)

\* Whatever happens, the game being created is not astray, and all others are
\* once the endpoints have disturbed each other.
LEMMA HistoryInv ==
    ASSUME TypeInv, TypeInv', EndpointInv, Remembers,
           creating' \in {creating, NoRoom} \/ creating' \notin running
    PROVE  creating' \notin astray' /\ (torn' => TornInv')
<1>1. NoRoom \notin running'
  BY DEF TypeInv, TypeOK, NoRoom
<1>2. astray \subseteq running
  BY DEF TypeInv, TypeOK
<1>3. creating' # NoRoom => creating' \notin astray'
  BY <1>2 DEF Remembers, EndpointInv
<1>4. creating' = NoRoom => creating' \notin astray'
  BY <1>1, HistoryType
<1>5. torn' => TornInv'
  BY DEF Remembers, TornInv
<1> QED BY <1>3, <1>4, <1>5

\* From the state in which everything has settled the games are tracked again:
\* every one that is still running is astray or has a timer.
LEMMA SettlesCalm ==
    ASSUME TypeInv, TypeInv', TornInv, Remembers, torn, ~torn',
           running' \subseteq running \cup {creating'},
           creating' = creating \/ UNCHANGED stage
    PROVE  CalmInv'
<1>1. Settled'
  BY DEF Remembers
<1>2. /\ \A c \in Conns : ~Busy(c)'
      /\ matched' = FALSE /\ creating' = NoRoom
      /\ Gone'
  BY <1>1 DEF Settled, TypeInv, TypeOK
<1>3. Tracked' = {}
  <2> SUFFICES ASSUME NEW g \in Tracked' PROVE FALSE
    OBVIOUS
  <2>1. g \in running' /\ g \notin astray' /\ g # NoRoom
    BY DEF Tracked, TypeInv, TypeOK, NoRoom
  <2>2. g \in running /\ g \notin astray
    BY <1>2, <2>1 DEF Remembers
  <2>3. g = creating /\ creating # NoRoom
    BY <2>1, <2>2 DEF TornInv
  <2>4. g \in Forgotten
    BY <1>2, <2>3 DEF Forgotten, Busy
  <2> QED BY <1>2, <2>1, <2>3, <2>4 DEF Remembers
<1>4. \A c \in Conns : StageInv(c)'
  BY <1>2 DEF Busy, StageInv
<1> QED BY <1>2, <1>3, <1>4 DEF CalmInv, OneEndpoint, CreatingInv, IdleInv

\* A step that keeps the endpoints undisturbed.
CalmStep == TypeInv /\ TypeInv' /\ EndpointInv /\ CalmInv /\ Remembers /\ ~torn /\ ~torn'

LEMMA CalmHistory ==
    CalmStep => /\ ~Disturbs
                /\ astray' = running' \cap
                      (astray \cup (IF creating # NoRoom /\ creating' = NoRoom THEN Forgotten ELSE {}))
BY DEF CalmStep, Remembers

LEMMA SameGames ==
    ASSUME CalmStep, UNCHANGED <<running, creating>>
    PROVE  Tracked' = Tracked
<1>1. astray' = running \cap astray /\ astray \subseteq running
  BY CalmHistory DEF CalmStep, TypeInv, TypeOK
<1> QED BY <1>1 DEF Tracked

----------------------------------------------------------------------------
(* Endpoints that nobody disturbs.                                         *)

\* A step of the only endpoint leaves the others where they are.
LEMMA OwnStep ==
    ASSUME CalmStep, NEW c \in Conns, Busy(c), NEW s, stage' = [stage EXCEPT ![c] = s]
    PROVE  /\ stage'[c] = s
           /\ OneEndpoint'
           /\ \A d \in Conns \ {c} : ~Busy(d)' /\ StageInv(d)'
<1>1. \A d \in Conns \ {c} : ~Busy(d)
  BY DEF CalmStep, CalmInv, OneEndpoint
<1>2. stage \in [Conns -> Stages]
  BY DEF CalmStep, TypeInv, TypeOK
<1>3. stage'[c] = s /\ \A d \in Conns \ {c} : stage'[d] = stage[d]
  BY <1>2
<1>4. \A d \in Conns \ {c} : ~Busy(d)'
  BY <1>1, <1>3 DEF Busy
<1>5. \A d \in Conns \ {c} : StageInv(d)'
  BY <1>4 DEF Busy, StageInv
<1>6. OneEndpoint'
  BY <1>4 DEF OneEndpoint
<1> QED BY <1>3, <1>4, <1>5, <1>6

\* While the only endpoint is not open, no game of the player is being made.
LEMMA NothingMade ==
    ASSUME CalmStep, NEW c \in Conns, Busy(c), stage[c] # "open"
    PROVE  ~matched /\ creating = NoRoom
<1>1. \A d \in Conns : stage[d] # "open"
  BY DEF CalmStep, CalmInv, OneEndpoint, Busy
<1> QED BY <1>1 DEF CalmStep, CalmInv, CreatingInv


\* A step between the socket and the claim, or after the endpoint's loop.
LEMMA CalmSetUp ==
    ASSUME CalmStep, NEW c \in Conns,
           \/ Connects(c) \/ LooksUp(c) \/ Creates(c)
           \/ Rereads(c) \/ Claims(c) \/ Resumes(c)
    PROVE  CalmInv'
<1>1. /\ session \in Sessions /\ stage \in [Conns -> Stages]
      /\ home \in [Conns -> Instances \cup {Nowhere}]
      /\ seen \in [Conns -> Games \cup {NoRoom}]
      /\ Tracked \subseteq running /\ running \subseteq Games /\ NoRoom \notin Games
  BY SessionAssumption DEF CalmStep, TypeInv, TypeOK, Tracked, Games, NoRoom
<1>2. Tracked' = Tracked /\ UNCHANGED <<running, owner, matched, creating>>
  BY SameGames DEF Connects, LooksUp, Creates, Rereads, Claims, Resumes, engine
<1>3. CASE Connects(c)
  <2>1. /\ UNCHANGED <<session, away, seen>>
        /\ \A d \in Conns : Busy(d)' <=> Busy(d)
        /\ \A d \in Conns : Busy(d) => stage'[d] = stage[d] /\ home'[d] = home[d]
    BY <1>1, <1>3 DEF Connects, engine, Busy
  <2>2. \A d \in Conns : StageInv(d)'
    <3> SUFFICES ASSUME NEW d \in Conns PROVE StageInv(d)'
      OBVIOUS
    <3>1. CASE Busy(d)
      BY <1>2, <2>1, <3>1 DEF CalmStep, CalmInv, StageInv, PresentIn, Alive, Gone
    <3>2. CASE ~Busy(d)
      BY <2>1, <3>2 DEF StageInv, Busy
    <3> QED BY <3>1, <3>2
  <2>3. CreatingInv'
    BY <1>1, <1>2, <1>3 DEF Connects, CalmStep, CalmInv, CreatingInv
  <2> QED BY <1>2, <2>1, <2>2, <2>3 DEF CalmStep, CalmInv, OneEndpoint, IdleInv, Gone
<1>4. CASE LooksUp(c)
  <2>1. PICK s \in {"none", "rereading", "creating"} :
           /\ Goes(c, s, NoRoom)
           /\ s = "rereading" => session.state = "disconnected" /\ session.whole
    <3>1. CASE Unreadable
      <4>1. Goes(c, "none", NoRoom)
        BY <1>4, <3>1 DEF LooksUp
      <4> QED BY <4>1
    <3>2. CASE ~Unreadable /\ session.state = "disconnected"
      <4>1. Goes(c, "rereading", NoRoom)
        BY <1>4, <3>2 DEF LooksUp
      <4> QED BY <3>2, <4>1 DEF Unreadable
    <3>3. CASE ~Unreadable /\ session.state # "disconnected"
      <4>1. Goes(c, "creating", NoRoom)
        BY <1>4, <3>3 DEF LooksUp
      <4> QED BY <4>1
    <3> QED BY <3>1, <3>2, <3>3
  <2>2. /\ UNCHANGED <<session, away>> /\ stage[c] = "lookup"
        /\ stage'[c] = s
        /\ \A d \in Conns \ {c} : stage'[d] = stage[d] /\ home'[d] = home[d] /\ seen'[d] = seen[d]
    BY <1>1, <1>4, <2>1 DEF LooksUp, engine, Goes
  <2>3. CASE s = "none"
    <3>1. \A d \in Conns : Busy(d)' <=> Busy(d) /\ d # c
      BY <2>2, <2>3 DEF Busy
    <3>2. \A d \in Conns : StageInv(d)'
      <4> SUFFICES ASSUME NEW d \in Conns PROVE StageInv(d)'
        OBVIOUS
      <4>1. CASE d # c
        BY <1>2, <2>2, <4>1 DEF CalmStep, CalmInv, StageInv, PresentIn, Alive, Gone
      <4>2. CASE d = c
        BY <2>2, <2>3, <4>2 DEF StageInv
      <4> QED BY <4>1, <4>2
    <3>3. ~Busy(c) /\ OneEndpoint'
      BY <2>2, <3>1 DEF CalmStep, CalmInv, OneEndpoint, Busy
    <3>4. CreatingInv'
      BY <1>2, <2>2 DEF CalmStep, CalmInv, CreatingInv
    <3> QED BY <1>2, <2>2, <3>1, <3>2, <3>3, <3>4 DEF CalmStep, CalmInv, IdleInv, Gone
  <2>4. CASE s # "none"
    <3>1. Busy(c)' /\ ~Busy(c)
      BY <2>2, <2>4 DEF Busy
    <3>2. \A d \in Conns : ~Busy(d)
      BY <3>1, CalmHistory DEF Disturbs
    <3>3. \A d \in Conns \ {c} : ~Busy(d)' /\ StageInv(d)'
      BY <2>2, <3>2 DEF Busy, StageInv
    <3>4. Tracked \subseteq away /\ ~matched /\ creating = NoRoom
      BY <3>2 DEF CalmStep, CalmInv, IdleInv, CreatingInv, Busy
    <3>5. StageInv(c)'
      BY <1>2, <2>1, <2>2, <2>4, <3>4 DEF StageInv
    <3> QED BY <1>2, <3>1, <3>3, <3>4, <3>5 DEF CalmInv, OneEndpoint, CreatingInv, IdleInv
  <2> QED BY <2>3, <2>4
<1>5. CASE Creates(c)
  <2>1. stage' = [stage EXCEPT ![c] = "open"] /\ stage[c] = "creating"
    BY <1>5 DEF Creates, Goes
  <2>2. OneEndpoint' /\ stage'[c] = "open" /\ \A d \in Conns \ {c} : StageInv(d)'
    BY <2>1, OwnStep DEF Busy
  <2>3. Tracked \subseteq away /\ away' = away
    BY <1>5, <2>1 DEF CalmStep, CalmInv, StageInv, Creates, engine
  <2>4. StageInv(c)'
    BY <1>1, <1>2, <1>5, <2>2, <2>3 DEF StageInv, Creates, Fresh, Alive, PresentIn
  <2> QED BY <2>2, <2>4 DEF CalmInv, CreatingInv, IdleInv, Busy
<1>6. CASE Rereads(c)
  <2>1. session.state = "disconnected" /\ session.whole /\ Tracked \subseteq away
    BY <1>6 DEF Rereads, CalmStep, CalmInv, StageInv
  <2>2. Goes(c, "claiming", session.room) /\ stage[c] = "rereading" /\ UNCHANGED <<session, away>>
    BY <1>6, <2>1 DEF Rereads, engine
  <2>3. stage' = [stage EXCEPT ![c] = "claiming"] /\ seen'[c] = session.room
    BY <1>1, <2>2 DEF Goes
  <2>4. OneEndpoint' /\ stage'[c] = "claiming" /\ \A d \in Conns \ {c} : StageInv(d)'
    BY <2>2, <2>3, OwnStep DEF Busy
  <2>5. StageInv(c)'
    BY <1>2, <2>1, <2>2, <2>3, <2>4 DEF StageInv
  <2>6. ~matched /\ creating = NoRoom
    BY <2>2, NothingMade DEF Busy
  <2> QED BY <1>2, <2>4, <2>5, <2>6 DEF CalmInv, CreatingInv, IdleInv, Busy
<1>7. CASE Claims(c)
  <2>1. PICK s \in {"open", "resuming"} : Goes(c, s, seen[c])
    BY <1>7 DEF Claims
  <2>2. /\ stage[c] = "claiming" /\ away' = away
        /\ s = "open" => seen[c] = NoRoom
    BY <1>1, <1>7, <2>1 DEF Claims, engine, Goes
  <2>3. stage' = [stage EXCEPT ![c] = s] /\ seen'[c] = seen[c]
    BY <1>1, <2>1 DEF Goes
  <2>4. OneEndpoint' /\ stage'[c] = s /\ \A d \in Conns \ {c} : StageInv(d)'
    BY <2>2, <2>3, OwnStep DEF Busy
  <2>5. session.whole /\ seen[c] = session.room /\ Tracked \subseteq away
    BY <2>2 DEF CalmStep, CalmInv, StageInv
  <2>6. session'.whole /\ session'.state = "connected"
            /\ session'.room = session.room
    BY <1>1, <1>7, <2>5 DEF Claims, SetState, Sessions
  <2>7. PresentIn(session.room, home[c])' \/ s # "open"
    BY <1>1, <1>2, <2>2, <2>5, <2>6 DEF PresentIn
  <2>8. StageInv(c)'
    BY <1>2, <2>2, <2>3, <2>4, <2>5, <2>6, <2>7 DEF StageInv, Alive
  <2>9. ~matched /\ creating = NoRoom
    BY <2>2, NothingMade DEF Busy
  <2> QED BY <1>2, <2>4, <2>8, <2>9 DEF CalmInv, CreatingInv, IdleInv, Busy
<1>8. CASE Resumes(c)
  <2>1. /\ stage' = [stage EXCEPT ![c] = "open"] /\ stage[c] = "resuming"
        /\ home' = home /\ session' = session
    BY <1>8 DEF Resumes, Goes
  <2>2. OneEndpoint' /\ stage'[c] = "open" /\ \A d \in Conns \ {c} : StageInv(d)'
    BY <2>1, OwnStep DEF Busy
  <2>3. Tracked \subseteq away /\ seen[c] = session.room /\ Alive
    BY <2>1 DEF CalmStep, CalmInv, StageInv
  <2>4. PresentIn(session.room, home[c])'
    BY <1>1, <1>2, <1>8, <2>1, <2>3 DEF PresentIn, Resumes, GamesAt
  <2>5. StageInv(c)'
    BY <2>1, <2>2, <2>3, <2>4 DEF StageInv, Alive
  <2> QED BY <2>2, <2>5 DEF CalmInv, CreatingInv, IdleInv, Busy
<1> QED BY <1>3, <1>4, <1>5, <1>6, <1>7, <1>8


\* The end of the endpoint.
LEMMA CalmTearDown ==
    ASSUME CalmStep, NEW c \in Conns, Leaves(c) \/ ReadsToMark(c) \/ Marks(c) \/ Tells(c)
    PROVE  CalmInv'
<1>1. /\ session \in Sessions /\ stage \in [Conns -> Stages]
      /\ home \in [Conns -> Instances \cup {Nowhere}]
      /\ seen \in [Conns -> Games \cup {NoRoom}]
      /\ Tracked \subseteq running /\ running \subseteq Games /\ NoRoom \notin Games
  BY SessionAssumption DEF CalmStep, TypeInv, TypeOK, Tracked, Games, NoRoom
<1>2. Tracked' = Tracked /\ UNCHANGED <<running, owner, matched, creating>>
  BY SameGames DEF Leaves, ReadsToMark, Marks, Tells, engine
<1>3. CASE Leaves(c)
  <2>1. /\ stage' = [stage EXCEPT ![c] = "leaving"] /\ stage[c] = "open"
        /\ UNCHANGED <<home, session, away>>
    BY <1>3 DEF Leaves, Goes, engine
  <2>2. OneEndpoint' /\ stage'[c] = "leaving" /\ \A d \in Conns \ {c} : StageInv(d)'
    BY <2>1, OwnStep DEF Busy
  <2>3. ~matched /\ creating = NoRoom
    BY <2>1, <2>2, CalmHistory DEF Disturbs, CalmStep, TypeInv, TypeOK
  <2>4. StageInv(c)'
    BY <1>2, <2>1, <2>2 DEF CalmStep, CalmInv, StageInv, Alive, PresentIn
  <2> QED BY <1>2, <2>2, <2>3, <2>4 DEF CalmInv, CreatingInv, IdleInv, Busy
<1>4. CASE ReadsToMark(c)
  <2>1. stage[c] = "leaving" /\ UNCHANGED <<session, away>>
    BY <1>4 DEF ReadsToMark, engine
  <2>2. Alive /\ PresentIn(session.room, home[c])
    BY <2>1 DEF CalmStep, CalmInv, StageInv
  <2>3. /\ stage' = [stage EXCEPT ![c] = "marking"]
        /\ seen'[c] = session.room /\ home' = home
    BY <1>1, <1>4, <2>2 DEF ReadsToMark, Goes, Alive
  <2>4. OneEndpoint' /\ stage'[c] = "marking" /\ \A d \in Conns \ {c} : StageInv(d)'
    BY <2>1, <2>3, OwnStep DEF Busy
  <2>5. StageInv(c)'
    BY <1>2, <2>1, <2>2, <2>3, <2>4 DEF StageInv, Alive, PresentIn
  <2>6. ~matched /\ creating = NoRoom
    BY <2>1, NothingMade DEF Busy
  <2> QED BY <1>2, <2>4, <2>5, <2>6 DEF CalmInv, CreatingInv, IdleInv, Busy
<1>5. CASE Marks(c)
  <2>1. stage[c] = "marking" /\ away' = away
    BY <1>5 DEF Marks, engine
  <2>2. session.whole /\ seen[c] = session.room /\ PresentIn(session.room, home[c])
    BY <2>1 DEF CalmStep, CalmInv, StageInv, Alive
  <2>3. Gone'
    BY <1>1, <1>5, <2>2 DEF Marks, SetState, Sessions, Gone
  <2>4. CASE seen[c] = NoRoom
    <3>1. stage' = [stage EXCEPT ![c] = "none"]
      BY <1>5, <2>4 DEF Marks, Goes
    <3>2. OneEndpoint' /\ stage'[c] = "none" /\ \A d \in Conns \ {c} : StageInv(d)'
      BY <2>1, <3>1, OwnStep DEF Busy
    <3>3. Tracked' \subseteq away'
      BY <1>1, <1>2, <2>1, <2>2, <2>4 DEF PresentIn
    <3>4. StageInv(c)'
      BY <3>2 DEF StageInv
    <3>5. ~matched /\ creating = NoRoom
      BY <2>1, NothingMade DEF Busy
    <3> QED BY <1>2, <2>3, <3>2, <3>3, <3>4, <3>5 DEF CalmInv, CreatingInv, IdleInv
  <2>5. CASE seen[c] # NoRoom
    <3>1. stage' = [stage EXCEPT ![c] = "telling"] /\ home' = home /\ seen'[c] = seen[c]
      BY <1>1, <1>5, <2>5 DEF Marks, Goes
    <3>2. OneEndpoint' /\ stage'[c] = "telling" /\ \A d \in Conns \ {c} : StageInv(d)'
      BY <2>1, <3>1, OwnStep DEF Busy
    <3>3. PresentIn(seen[c], home[c])'
      BY <1>2, <2>1, <2>2, <3>1 DEF PresentIn
    <3>4. StageInv(c)'
      BY <2>3, <3>2, <3>3 DEF StageInv
    <3>5. ~matched /\ creating = NoRoom
      BY <2>1, NothingMade DEF Busy
    <3> QED BY <1>2, <3>2, <3>4, <3>5 DEF CalmInv, CreatingInv, IdleInv, Busy
  <2> QED BY <2>4, <2>5
<1>6. CASE Tells(c)
  <2>1. stage[c] = "telling" /\ stage' = [stage EXCEPT ![c] = "none"] /\ session' = session
    BY <1>6 DEF Tells, Goes
  <2>2. Gone /\ PresentIn(seen[c], home[c])
    BY <2>1 DEF CalmStep, CalmInv, StageInv
  <2>3. OneEndpoint' /\ stage'[c] = "none" /\ \A d \in Conns \ {c} : StageInv(d)'
    BY <2>1, OwnStep DEF Busy
  <2>4. Tracked' \subseteq away'
    BY <1>1, <1>2, <1>6, <2>2 DEF PresentIn, Tells, GamesAt
  <2>5. StageInv(c)'
    BY <2>3 DEF StageInv
  <2>6. ~matched /\ creating = NoRoom
    BY <2>1, NothingMade DEF Busy
  <2> QED BY <1>2, <2>1, <2>2, <2>3, <2>4, <2>5, <2>6
      DEF CalmInv, CreatingInv, IdleInv, Gone
<1> QED BY <1>3, <1>4, <1>5, <1>6

\* Nothing but the session changes, and the endpoint is open.
LEMMA CalmMessage ==
    ASSUME CalmStep, NEW c \in Conns, Pings(c) \/ FindsMatch(c) \/ CancelsMatch(c)
    PROVE  CalmInv'
<1>1. session \in Sessions
  BY DEF CalmStep, TypeInv, TypeOK
<1>2. UNCHANGED <<stage, home, seen, running, owner, matched, creating, away>> /\ Tracked' = Tracked
  BY SameGames DEF Pings, FindsMatch, CancelsMatch, conns, engine
<1>3. stage[c] = "open"
  BY DEF Pings, FindsMatch, CancelsMatch, Listens
<1>4. Alive /\ PresentIn(session.room, home[c])
  BY <1>3 DEF CalmStep, CalmInv, StageInv
<1>5. \E x \in {Touched, "in_matchmaking", "connected"} : SetState(x)
  BY <1>1 DEF Pings, FindsMatch, CancelsMatch, CalmStep, TypeInv, TypeOK, Sessions
<1>6. Alive' /\ session'.room = session.room
  BY <1>1, <1>4, <1>5 DEF Alive, SetState, Touched, Sessions
<1>7. StageInv(c)'
  BY <1>2, <1>3, <1>4, <1>6 DEF StageInv, PresentIn
<1>8. \A d \in Conns \ {c} : ~Busy(d)
  BY <1>3 DEF CalmStep, CalmInv, OneEndpoint, Busy
<1>9. \A d \in Conns \ {c} : StageInv(d)'
  BY <1>2, <1>8 DEF StageInv, Busy
<1> QED BY <1>2, <1>3, <1>7, <1>9
    DEF CalmStep, CalmInv, OneEndpoint, CreatingInv, IdleInv, Busy


\* The steps of the matchmaker and of create_game().
LEMMA CalmGames ==
    ASSUME CalmStep,
           \/ SocketLost \/ Pops \/ LosesPair \/ NamesRoom \/ CreationFails \/ Expires
           \/ \E g \in Games : GameStarts(g) \/ GameEnds(g) \/ Forfeits(g)
    PROVE  CalmInv'
<1>1. /\ session \in Sessions /\ owner \in [Games -> Instances \cup {Nowhere}]
      /\ creating \in running \cup {NoRoom}
      /\ away \subseteq running /\ astray \subseteq running
      /\ Tracked \subseteq running /\ running \subseteq Games /\ NoRoom \notin Games
  BY SessionAssumption DEF CalmStep, TypeInv, TypeOK, Tracked, Games, NoRoom
<1>2. CalmInv
  BY DEF CalmStep
<1>3. CASE SocketLost
  <2>1. UNCHANGED <<session, stage, home, seen, running, owner, matched, creating, away>>
    BY <1>3 DEF SocketLost, engine
  <2>2. Tracked' = Tracked
    BY <2>1, SameGames
  <2> QED BY <1>2, <2>1, <2>2 DEF CalmInv, OneEndpoint, CreatingInv, IdleInv, StageInv,
      Busy, Gone, Alive, PresentIn
<1>4. CASE Pops \/ LosesPair
  <2>1. UNCHANGED <<session, stage, home, seen, running, owner, creating, away>>
    BY <1>4 DEF Pops, LosesPair, conns
  <2>2. Tracked' = Tracked
    BY <2>1, SameGames
  <2>3. CreatingInv'
    BY <1>2, <1>4, <2>1 DEF Pops, LosesPair, CalmInv, CreatingInv, CalmStep, EndpointInv
  <2> QED BY <1>2, <2>1, <2>2, <2>3 DEF CalmInv, OneEndpoint, IdleInv, StageInv,
      Busy, Gone, Alive, PresentIn
<1>5. CASE NamesRoom \/ CreationFails
  <2>1. /\ UNCHANGED <<stage, home, seen, running, owner, matched, away>>
        /\ creating # NoRoom /\ creating' = NoRoom
    BY <1>5 DEF NamesRoom, CreationFails, conns
  <2>2. PICK c \in Conns : stage[c] = "open"
    BY <1>2, <2>1 DEF CalmInv, CreatingInv
  <2>3. \A d \in Conns \ {c} : ~Busy(d)
    BY <1>2, <2>2 DEF CalmInv, OneEndpoint, Busy
  <2>4. Alive /\ PresentIn(session.room, home[c])
    BY <1>2, <2>2 DEF CalmInv, StageInv
  <2>5. astray' = running \cap (astray \cup Forgotten)
    BY <2>1, CalmHistory
  <2>6. creating \in running /\ creating \notin away /\ session.room # creating
    BY <1>1, <2>1 DEF CalmStep, TypeInv, RoomsAreUsed, Used
  <2>7. \A g \in Tracked' :
           /\ g \in running /\ g \notin astray
           /\ \/ g \in away /\ g # creating
              \/ g = creating /\ session'.room = creating /\ owner[creating] = home[c]
    BY <2>1, <2>2, <2>3, <2>5 DEF Tracked, Forgotten, Busy
  <2>8. Alive' /\ PresentIn(session.room, home[c])'
    <3>1. CASE NamesRoom
      <4>1. Alive' /\ session'.room = creating
        BY <1>1, <2>4, <3>1 DEF NamesRoom, Alive, Sessions
      <4> QED BY <2>1, <2>6, <2>7, <4>1 DEF PresentIn
    <3>2. CASE CreationFails
      <4>1. session' = session
        BY <3>2 DEF CreationFails
      <4>2. \A g \in Tracked' : g \in away /\ g \in Tracked
        BY <2>6, <2>7, <4>1 DEF Tracked
      <4> QED BY <2>1, <2>4, <4>1, <4>2 DEF PresentIn, Alive
    <3> QED BY <1>5, <3>1, <3>2
  <2>9. StageInv(c)'
    BY <2>1, <2>2, <2>8 DEF StageInv
  <2>10. \A d \in Conns \ {c} : ~Busy(d)' /\ StageInv(d)'
    BY <2>1, <2>3 DEF StageInv, Busy
  <2> QED BY <2>1, <2>2, <2>9, <2>10
      DEF CalmInv, OneEndpoint, CreatingInv, IdleInv, Busy
<1>6. CASE Expires
  <2>1. /\ UNCHANGED <<stage, home, seen, running, owner, matched, creating, away>>
        /\ session' = Missing
    BY <1>6 DEF Expires, conns, engine
  <2>2. Tracked' = Tracked
    BY <2>1, SameGames
  <2>3. Gone' /\ \A c \in Conns : Busy(c)' <=> Busy(c)
    BY <2>1 DEF Gone, Missing, Busy
  <2>4. \A c \in Conns : stage[c] \notin {"rereading", "claiming", "resuming", "open", "leaving", "marking"}
    BY <2>1, CalmHistory DEF Disturbs, Missing
  <2>6. \A c \in Conns : StageInv(c)'
    BY <1>2, <2>1, <2>2, <2>3, <2>4 DEF CalmInv, StageInv, PresentIn
  <2> QED BY <1>2, <2>1, <2>2, <2>3, <2>6 DEF CalmInv, OneEndpoint, CreatingInv, IdleInv
<1>7. ASSUME NEW g \in Games, GameStarts(g)
      PROVE  CalmInv'
  <2>1. /\ UNCHANGED <<session, stage, home, seen, away>>
        /\ matched /\ creating = NoRoom /\ creating' = g
        /\ running' = running \cup {g} /\ g \notin running
        /\ \A k \in running : owner'[k] = owner[k]
    BY <1>1, <1>7 DEF GameStarts, conns, CalmStep, EndpointInv, TypeInv, TypeOK
  <2>2. Tracked' = Tracked
    BY <1>1, <2>1, CalmHistory DEF Tracked
  <2>3. CreatingInv'
    BY <1>2, <2>1 DEF CalmInv, CreatingInv
  <2>4. \A c \in Conns : StageInv(c)'
    BY <1>1, <1>2, <2>1, <2>2 DEF CalmInv, StageInv, PresentIn, Alive, Gone
  <2> QED BY <1>2, <2>1, <2>2, <2>3, <2>4 DEF CalmInv, OneEndpoint, IdleInv, Busy, Gone
<1>8. ASSUME NEW g \in Games, GameEnds(g) \/ Forfeits(g)
      PROVE  CalmInv'
  <2>1. /\ UNCHANGED <<session, stage, home, seen, matched, creating>>
        /\ running' = running \ {g} /\ away' = away \ {g}
        /\ \A k \in running' : owner'[k] = owner[k]
    BY <1>1, <1>8 DEF GameEnds, Forfeits, Ends, conns
  <2>2. Tracked' = Tracked \ {g}
    BY <1>1, <2>1, CalmHistory DEF Tracked
  <2>3. \A k \in Tracked' : k \in Tracked /\ k # g /\ owner'[k] = owner[k]
    BY <1>1, <2>1, <2>2
  <2>4. Tracked \subseteq away => Tracked' \subseteq away'
    BY <2>1, <2>2
  <2>5. \A c \in Conns : StageInv(c)'
    <3> SUFFICES ASSUME NEW c \in Conns PROVE StageInv(c)'
      OBVIOUS
    <3>1. PresentIn(session.room, home[c]) => PresentIn(session.room, home[c])'
      BY <2>1, <2>3 DEF PresentIn
    <3>2. PresentIn(seen[c], home[c]) => PresentIn(seen[c], home[c])'
      BY <2>1, <2>3 DEF PresentIn
    <3> QED BY <1>2, <2>1, <2>4, <3>1, <3>2 DEF CalmInv, StageInv, Alive, Gone
  <2> QED BY <1>2, <2>1, <2>4, <2>5
      DEF CalmInv, OneEndpoint, CreatingInv, IdleInv, Busy, Gone
<1> QED BY <1>3, <1>4, <1>5, <1>6, <1>7, <1>8


----------------------------------------------------------------------------
(* The invariant is inductive.                                             *)

\* What a step of one endpoint, of a message or of create_game() must respect.
LEMMA EndpointStep ==
    ASSUME TypeInv, TypeInv', EndpointInv, Remembers, Next
    PROVE  /\ EndpointInv'
           /\ running' \subseteq running \cup {creating'}
           /\ creating' = creating \/ UNCHANGED stage
           /\ torn' => TornInv'
<1> DEFINE OnlineOK  == online # NoConn => stage[online] \notin {"none", "leaving", "marking", "telling"}
           QueuedOK  == queued => \E c \in Conns : stage[c] = "open"
           MatchedOK == matched => creating = NoRoom
           NewOK     == \/ creating' \in {creating, NoRoom}
                        \/ creating' \notin running
           RunOK     == /\ running' \subseteq running \cup {creating'}
                        /\ creating' = creating \/ UNCHANGED stage
           Goal      == OnlineOK' /\ QueuedOK' /\ MatchedOK' /\ NewOK /\ RunOK
<1>1. stage \in [Conns -> Stages] /\ OnlineOK /\ QueuedOK /\ MatchedOK
      /\ online \in Conns \cup {NoConn} /\ NoConn \notin Conns
  BY SessionAssumption DEF TypeInv, TypeOK, EndpointInv
<1>2. ASSUME NEW c \in Conns, Connects(c) PROVE Goal
  BY <1>1, <1>2 DEF Connects, engine
<1>3. ASSUME NEW c \in Conns, Proceeds(c) PROVE Goal
  <2>1. UNCHANGED <<running, matched, creating>>
    BY <1>3 DEF Proceeds, LooksUp, Creates, Rereads, Claims, Resumes, Leaves, ReadsToMark,
        Marks, Tells, engine
  <2>2. CASE LooksUp(c)
    <3>1. PICK s \in {"none", "rereading", "creating"} :
             stage' = [stage EXCEPT ![c] = s] /\ (s = "none" => Unreadable)
      <4>1. CASE Unreadable
        BY <2>2, <4>1 DEF LooksUp, Goes
      <4>2. CASE ~Unreadable
        BY <2>2, <4>2 DEF LooksUp, Goes
      <4> QED BY <4>1, <4>2
    <3>2. stage[c] = "lookup" /\ queued' = queued
          /\ online' \in {online, NoConn} /\ (s = "none" => online' # c)
      BY <1>1, <2>2, <3>1 DEF LooksUp, Dropped
    <3> QED BY <1>1, <2>1, <3>1, <3>2
  <2>3. CASE Rereads(c)
    <3>1. PICK s \in {"none", "open", "claiming"} :
             stage' = [stage EXCEPT ![c] = s] /\ (s = "none" => Unreadable)
      <4>1. CASE session.state = "disconnected" /\ session.whole
        BY <2>3, <4>1 DEF Rereads, Goes
      <4>2. CASE ~(session.state = "disconnected" /\ session.whole)
        BY <2>3, <4>2 DEF Rereads, Goes
      <4> QED BY <4>1, <4>2
    <3>2. stage[c] = "rereading" /\ queued' = queued
          /\ online' \in {online, NoConn} /\ (s = "none" => online' # c)
      BY <1>1, <2>3, <3>1 DEF Rereads, Dropped
    <3> QED BY <1>1, <2>1, <3>1, <3>2
  <2>4. CASE Creates(c) \/ Claims(c) \/ Resumes(c)
    <3>1. PICK s \in {"open", "resuming"} : stage' = [stage EXCEPT ![c] = s]
      BY <2>4 DEF Creates, Claims, Resumes, Goes
    <3>2. UNCHANGED <<online, queued>> /\ stage[c] # "open"
      BY <2>4 DEF Creates, Claims, Resumes, engine
    <3> QED BY <1>1, <2>1, <3>1, <3>2
  <2>5. CASE Leaves(c)
    BY <1>1, <2>1, <2>5 DEF Leaves, Goes
  <2>6. CASE ReadsToMark(c) \/ Marks(c) \/ Tells(c)
    <3>1. PICK s : stage' = [stage EXCEPT ![c] = s]
      BY <2>6 DEF ReadsToMark, Marks, Tells, Goes
    <3>2. UNCHANGED <<online, queued>> /\ stage[c] \in {"leaving", "marking", "telling"}
      BY <2>6 DEF ReadsToMark, Marks, Tells, engine
    <3> QED BY <1>1, <2>1, <3>1, <3>2
  <2> QED BY <1>3, <2>2, <2>3, <2>4, <2>5, <2>6 DEF Proceeds
<1>4. ASSUME NEW c \in Conns, Message(c) PROVE Goal
  BY <1>1, <1>4 DEF Message, Pings, FindsMatch, CancelsMatch, Listens, conns, engine
<1>5. ASSUME SocketLost \/ Expires PROVE Goal
  BY <1>1, <1>5 DEF SocketLost, Expires, conns, engine
<1>6. ASSUME Pops \/ LosesPair \/ NamesRoom \/ CreationFails PROVE Goal
  BY <1>1, <1>6 DEF Pops, LosesPair, NamesRoom, CreationFails, conns
<1>7. ASSUME NEW g \in Games, GameStarts(g) PROVE Goal
  <2>1. g \notin running
    BY <1>7 DEF GameStarts, TypeInv, TypeOK
  <2> QED BY <1>1, <1>7, <2>1 DEF GameStarts, conns
<1>8. ASSUME NEW g \in Games, GameEnds(g) \/ Forfeits(g) PROVE Goal
  BY <1>1, <1>8 DEF GameEnds, Forfeits, Ends, conns
<1>9. Goal
  BY <1>2, <1>3, <1>4, <1>5, <1>6, <1>7, <1>8 DEF Next
<1>10. creating' \notin astray' /\ (torn' => TornInv')
  <2> HIDE DEF OnlineOK, QueuedOK, MatchedOK, RunOK
  <2> QED BY <1>9, HistoryInv
<1> QED BY <1>9, <1>10 DEF EndpointInv

LEMMA InitInv == Init => Inv
<1>. SUFFICES ASSUME Init PROVE Inv
  OBVIOUS
<1>1. EndpointInv
  BY DEF Init, EndpointInv
<1>2. CalmInv
  BY DEF Init, CalmInv, OneEndpoint, CreatingInv, IdleInv, StageInv, Busy, Gone, Missing, Tracked
<1> QED BY <1>1, <1>2, InitType DEF Inv, Init

LEMMA NextInv == Inv /\ [Next]_vars => Inv'
<1>. SUFFICES ASSUME Inv, [Next]_vars PROVE Inv'
  OBVIOUS
<1>1. TypeInv /\ TypeInv'
  BY NextType DEF Inv
<1>2. CASE UNCHANGED vars
  BY <1>1, <1>2 DEF vars, conns, engine, Inv, EndpointInv, TornInv, CalmInv, OneEndpoint,
      CreatingInv, IdleInv, StageInv, Busy, Gone, Tracked, Alive, PresentIn
<1>3. CASE Next
  <2>1. Remembers
    BY <1>3 DEF Next, Connects, Proceeds, LooksUp, Creates, Rereads, Claims, Resumes, Leaves,
        ReadsToMark, Marks, Tells, Message, Pings, FindsMatch, CancelsMatch, SocketLost, Pops,
        LosesPair, GameStarts, NamesRoom, CreationFails, GameEnds, Forfeits, Ends, Expires
  <2>2. /\ EndpointInv'
        /\ running' \subseteq running \cup {creating'}
        /\ creating' = creating \/ UNCHANGED stage
        /\ torn' => TornInv'
    BY <1>1, <1>3, <2>1, EndpointStep DEF Inv
  <2>3. CASE torn'
    BY <1>1, <2>2, <2>3 DEF Inv
  <2>4. CASE torn /\ ~torn'
    <3>1. TornInv
      BY <2>4 DEF Inv
    <3>2. CalmInv'
      BY <1>1, <2>1, <2>2, <2>4, <3>1, SettlesCalm
    <3> QED BY <1>1, <2>2, <2>4, <3>2 DEF Inv
  <2>5. CASE ~torn /\ ~torn'
    <3>1. CalmStep
      BY <1>1, <2>1, <2>5 DEF Inv, CalmStep
    <3>2. CalmInv'
      BY <1>3, <3>1, CalmSetUp, CalmTearDown, CalmMessage, CalmGames
          DEF Next, Proceeds, Message
    <3> QED BY <1>1, <2>2, <2>5, <3>2 DEF Inv
  <2> QED BY <2>3, <2>4, <2>5
<1> QED BY <1>2, <1>3

THEOREM Invariant == Spec => []Inv
<1> QED BY InitInv, NextInv, PTL DEF Spec


----------------------------------------------------------------------------
(* What follows.                                                           *)

LEMMA InvFacts == Inv => TypeInv /\ EndpointInv /\ (torn => TornInv) /\ (~torn => CalmInv)
BY DEF Inv

\* Types, and: a call of the engine names a room (handle_player_disconnect()
\* and handle_player_reconnect() are reached under `if room_id').
THEOREM TypeCorrect == Spec => []TypeOK
<1>1. Inv => TypeOK
  BY DEF Inv, TypeInv
<1> QED BY <1>1, Invariant, PTL

\* No session, no endpoint and no engine has seen the player in a game whose
\* creation has not written the session: create_game() writes it last.
THEOREM RoomsAreUsedTheorem == Spec => []RoomsAreUsed
<1>1. Inv => RoomsAreUsed
  BY DEF Inv, TypeInv
<1> QED BY <1>1, Invariant, PTL

\* When the last endpoint has finished, every running game that the code has
\* not lost track of counts the player as absent.
THEOREM AbsenceIsKnownTheorem == Spec => []AbsenceIsKnown
<1>1. Inv => AbsenceIsKnown
  <2> SUFFICES ASSUME Inv, Quiet, online = NoConn PROVE running \ astray \subseteq away
    BY DEF AbsenceIsKnown
  <2>1. creating = NoRoom /\ NoRoom \notin running
    BY InvFacts DEF Quiet, TypeInv, TypeOK, NoRoom
  <2>2. \A c \in Conns : ~Busy(c)
    BY SessionAssumption DEF Quiet, Busy
  <2>3. CASE torn
    BY <2>1, <2>3, InvFacts DEF TornInv
  <2>4. CASE ~torn
    BY <2>1, <2>2, <2>4, InvFacts DEF CalmInv, IdleInv, Tracked
  <2> QED BY <2>3, <2>4, InvFacts DEF TypeInv, TypeOK
<1> QED BY <1>1, Invariant, PTL

\* While the player is connected, an engine counts the player as present in the
\* game that the session names, if the endpoint is at that engine's instance,
\* and in no other that the code has not lost track of.
THEOREM EngineAndSessionAgreeTheorem == Spec => []EngineAndSessionAgree
<1>1. Inv => EngineAndSessionAgree
  <2> SUFFICES ASSUME Inv, Quiet, online # NoConn, NEW g \in running \ astray
               PROVE  g \notin away <=> session.room = g /\ owner[g] = home[online]
    BY DEF EngineAndSessionAgree
  <2>1. creating = NoRoom /\ NoRoom \notin running /\ online \in Conns
    BY InvFacts DEF Quiet, TypeInv, TypeOK, NoRoom
  <2>2. stage[online] = "open"
    BY <2>1, InvFacts DEF Quiet, EndpointInv
  <2>3. ~torn /\ g \in Tracked
    BY <2>1, InvFacts DEF TornInv, Tracked, TypeInv, TypeOK
  <2> QED BY <2>1, <2>2, <2>3, InvFacts DEF CalmInv, StageInv, PresentIn
<1> QED BY <1>1, Invariant, PTL

\* Whenever no endpoint is on its way and no disturbance is unsettled, the
\* session says what the sockets say.
THEOREM SessionMatchesPlayerTheorem == Spec => []SessionMatchesPlayer
<1>1. Inv => SessionMatchesPlayer
  <2> SUFFICES ASSUME Inv, Quiet, ~torn
               PROVE  IF online # NoConn
                      THEN session.whole /\ session.state # "disconnected"
                      ELSE session.state \in {"missing", "disconnected"}
    BY DEF SessionMatchesPlayer
  <2>1. CASE online # NoConn
    <3>1. online \in Conns /\ stage[online] = "open"
      BY <2>1, InvFacts DEF Quiet, TypeInv, TypeOK, EndpointInv
    <3> QED BY <2>1, <3>1, InvFacts DEF CalmInv, StageInv, Alive
  <2>2. CASE online = NoConn
    <3>1. \A c \in Conns : ~Busy(c)
      BY <2>2, SessionAssumption DEF Quiet, Busy
    <3> QED BY <2>2, <3>1, InvFacts DEF CalmInv, IdleInv, Gone
  <2> QED BY <2>1, <2>2
<1> QED BY <1>1, Invariant, PTL

\* The player's socket is gone: a game that does not know it yet, and that the
\* code has not lost track of, is about to be told by an endpoint of its own
\* instance, which finds the game in the session or has read it there.
ReportOnItsWay ==
    online = NoConn =>
        \A g \in running \ (away \cup astray \cup {creating}) :
            \E c \in Conns :
                /\ owner[g] = home[c]
                /\ \/ stage[c] \in {"open", "leaving"} /\ session.whole /\ session.room = g
                   \/ stage[c] \in {"marking", "telling"} /\ seen[c] = g

\* The loss of a player is reported: mark_disconnected() and
\* handle_player_disconnect() lie between a lost socket and a game that counts
\* the player as present.
THEOREM ReportOnItsWayTheorem == Spec => []ReportOnItsWay
<1>1. Inv => ReportOnItsWay
  <2> SUFFICES ASSUME Inv, online = NoConn, NEW g \in running \ (away \cup astray \cup {creating})
               PROVE  \E c \in Conns :
                         /\ owner[g] = home[c]
                         /\ \/ stage[c] \in {"open", "leaving"} /\ session.whole /\ session.room = g
                            \/ stage[c] \in {"marking", "telling"} /\ seen[c] = g
    BY DEF ReportOnItsWay
  <2>1. CalmInv
    BY InvFacts DEF TornInv
  <2>2. g \in Tracked /\ g \notin away
    BY DEF Tracked
  <2>3. PICK c \in Conns : Busy(c)
    BY <2>1, <2>2 DEF CalmInv, IdleInv
  <2>4. StageInv(c)
    BY <2>1 DEF CalmInv
  <2>5. stage[c] \in {"open", "leaving", "marking", "telling"}
    BY <2>2, <2>3, <2>4, InvFacts DEF StageInv, Busy, TypeInv, TypeOK, Stages
  <2> QED BY <2>2, <2>4, <2>5 DEF StageInv, PresentIn, Alive
<1> QED BY <1>1, Invariant, PTL

=============================================================================
