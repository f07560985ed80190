------------------------- MODULE Matchmaking_proofs -------------------------
(***************************************************************************)
(* Proofs about the matchmaker, for any number of players, instances and   *)
(* ratings, with sockets lost and endpoints late at any moment.  A player  *)
(* is matched twice only after searching while held or playing; a search   *)
(* never is; pairs are fair, and a queue with a pair that has waited long  *)
(* enough is not passed over.                                              *)
(***************************************************************************)
EXTENDS Matchmaking, FiniteSetTheorems, WellFoundedInduction, TLAPS

\* The two invariants need each other: a player whose game is created leaves
\* `searching', and must not be queued then.
Inv == TypeOK /\ QueuedAreSearching /\ NoDoubleMatching

----------------------------------------------------------------------------
\* The pop takes two different queued players.
LEMMA FirstIsPair ==
    ASSUME TypeOK, NEW x \in Queued \X Queued, IsFirst(x)
    PROVE  {x[1], x[2]} \in Pairs /\ {x[1], x[2]} \subseteq Queued
<1>1. x[1] \in Players /\ x[2] \in Players
  BY DEF TypeOK
<1>2. Elo[x[1]] \in Nat /\ x[1] \in Nat
  BY <1>1, MatchmakingAssumption
<1>3. x[1] # x[2]
  BY <1>2 DEF IsFirst, Candidates, Before
<1> QED BY <1>1, <1>3 DEF Pairs

\* Every action keeps the types, whatever the players do.
LEMMA NextType == TypeOK /\ [Next]_vars => TypeOK'
<1>. SUFFICES ASSUME TypeOK, [Next]_vars PROVE TypeOK'
  OBVIOUS
<1>. USE MatchmakingAssumption DEF TypeOK
<1>1. ASSUME NEW p \in Players, FindMatch(p) PROVE TypeOK'
  <2>1. /\ Queued' = Queued \cup {p}
        /\ \A q \in Queued' : queue'[q] = 0 \/ (q \in Queued /\ queue'[q] = queue[q])
        /\ queue' = [q \in Queued' |-> queue'[q]]
    BY <1>1 DEF FindMatch, Enqueued, Queued
  <2>2. queue' \in [Queued' -> 0..MaxWait]
    BY <2>1
  <2>3. finds' \in [Players -> Nat] /\ \A q \in Players : finds'[q] <= MaxFinds[q]
    <3>1. /\ finds'[p] = finds[p] + 1 /\ finds[p] < MaxFinds[p]
          /\ \A q \in Players : q # p => finds'[q] = finds[q]
          /\ finds' = [q \in Players |-> finds'[q]]
      BY <1>1 DEF FindMatch
    <3>2. finds'[p] \in Nat /\ finds'[p] <= MaxFinds[p]
      BY <3>1
    <3> QED BY <3>1, <3>2
  <2> QED BY <1>1, <2>1, <2>2, <2>3 DEF FindMatch
<1>2. ASSUME NEW p \in Players, Cancel(p) \/ EndpointEnds(p) PROVE TypeOK'
  BY <1>2 DEF Cancel, EndpointEnds, Without, Queued
<1>2a. ASSUME NEW p \in Players, SocketLost(p) PROVE TypeOK'
  BY <1>2a DEF SocketLost, Queued
<1>3. ASSUME NEW i \in Instances, Pop(i) PROVE TypeOK'
  <2>1. PICK x \in Queued \X Queued :
           /\ IsFirst(x)
           /\ queue' = Without({x[1], x[2]})
           /\ held' = [held EXCEPT ![i] = {x[1], x[2]}]
    BY <1>3 DEF Pop
  <2>2. {x[1], x[2]} \in Pairs
    BY <2>1, FirstIsPair
  <2>3. Queued' \subseteq Queued /\ queue' \in [Queued' -> 0..MaxWait]
    BY <2>1 DEF Without, Queued
  <2> QED BY <1>3, <2>1, <2>2, <2>3 DEF Pop
<1>4. ASSUME NEW i \in Instances, CreateMatch(i) PROVE TypeOK'
  BY <1>4 DEF CreateMatch, Queued
<1>5. ASSUME NEW i \in Instances, LosesPair(i) PROVE TypeOK'
  BY <1>5 DEF LosesPair, Queued
<1>6. ASSUME NEW r \in Rooms, GameEnds(r) PROVE TypeOK'
  BY <1>6 DEF GameEnds, Queued
<1>7. ASSUME Tick PROVE TypeOK'
  <2>1. Queued' = Queued /\ queue' \in [Queued -> 0..MaxWait]
    BY <1>7 DEF Tick, Queued, Smaller
  <2> QED BY <1>7, <2>1 DEF Tick
<1>8. ASSUME UNCHANGED vars PROVE TypeOK'
  BY <1>8 DEF vars, Queued
<1> QED BY <1>1, <1>2, <1>2a, <1>3, <1>4, <1>5, <1>6, <1>7, <1>8 DEF Next

----------------------------------------------------------------------------
\* Who is where after each step.
LEMMA NextPlaced ==
    ASSUME Inv, [Next]_vars
    PROVE  QueuedAreSearching' /\ NoDoubleMatching'
<1>. DEFINE Goal == QueuedAreSearching' /\ NoDoubleMatching'
<1>. USE DEF Inv, QueuedAreSearching, NoDoubleMatching, Held, Playing
<1>0. /\ held \in [Instances -> SUBSET Players] /\ game \in [Rooms -> SUBSET Players]
      /\ Queued \subseteq Players
  BY DEF TypeOK, Pairs
<1>1. ASSUME NEW p \in Players, FindMatch(p) PROVE Goal
  <2>1. /\ Queued' = Queued \cup {p} /\ searching' = searching \cup {p}
        /\ held' = held /\ game' = game /\ leaving' = leaving
        /\ again' = IF Held(p) \/ Playing(p) THEN again \cup {p} ELSE again \ {p}
    BY <1>1 DEF FindMatch, Enqueued, Queued
  <2>2. CASE Held(p) \/ Playing(p)
    BY <2>1, <2>2
  <2>3. CASE ~Held(p) /\ ~Playing(p)
    BY <2>1, <2>3
  <2> QED BY <2>2, <2>3
<1>2. ASSUME NEW p \in Players, Cancel(p) \/ EndpointEnds(p) PROVE Goal
  <2>1. /\ Queued' = Queued \ {p} /\ searching \ {p} \subseteq searching'
        /\ held' = held /\ game' = game /\ leaving \ {p} \subseteq leaving' /\ again' = again
    BY <1>2 DEF Cancel, EndpointEnds, Without, Queued
  <2> QED BY <2>1
<1>2a. ASSUME NEW p \in Players, SocketLost(p) PROVE Goal
  <2>1. /\ Queued' = Queued /\ searching \ {p} \subseteq searching'
        /\ held' = held /\ game' = game /\ leaving' = leaving \cup {p} /\ again' = again
    BY <1>2a DEF SocketLost, Queued
  <2> QED BY <2>1
<1>3. ASSUME NEW i \in Instances, Pop(i) PROVE Goal
  <2>1. PICK x \in Queued \X Queued :
           /\ IsFirst(x)
           /\ queue' = Without({x[1], x[2]})
           /\ held' = [held EXCEPT ![i] = {x[1], x[2]}]
    BY <1>3 DEF Pop
  <2>2. /\ Queued' = Queued \ {x[1], x[2]}
        /\ held'[i] = {x[1], x[2]}
        /\ \A j \in Instances : j # i => held'[j] = held[j]
        /\ game' = game /\ searching' = searching
        /\ leaving' = leaving /\ again' = again
    BY <1>0, <1>3, <2>1 DEF Pop, Without, Queued
  <2>3. {x[1], x[2]} \subseteq Queued
    OBVIOUS
  <2>4. QueuedAreSearching'
    BY <2>2
  <2>5. NoDoubleMatching'
    <3>. SUFFICES ASSUME NEW p \in Players \ again
                  PROVE  /\ \A j, k \in Instances : p \in held'[j] \cap held'[k] => j = k
                         /\ \A r, s \in Rooms : p \in game'[r] \cap game'[s] => r = s
                         /\ ~(Held(p)' /\ Playing(p)')
                         /\ p \in Queued' => ~Held(p)' /\ ~Playing(p)'
      BY <2>2
    <3>1. CASE p \in {x[1], x[2]}
      <4>1. ~Held(p) /\ ~Playing(p)
        BY <2>3, <3>1
      <4>2. \A j \in Instances : p \in held'[j] => j = i
        BY <2>2, <4>1
      <4> QED BY <2>2, <3>1, <4>1, <4>2
    <3>2. CASE p \notin {x[1], x[2]}
      <4>1. \A j \in Instances : p \in held'[j] => p \in held[j]
        BY <2>2, <3>2
      <4> QED BY <2>2, <4>1
    <3> QED BY <3>1, <3>2
  <2> QED BY <2>4, <2>5
<1>4. ASSUME NEW i \in Instances, CreateMatch(i) PROVE Goal
  <2>1. PICK r \in Rooms : game' = [game EXCEPT ![r] = held[i]]
    BY <1>4 DEF CreateMatch
  <2>2. /\ Queued' = Queued /\ searching' = searching \ held[i]
        /\ held'[i] = {} /\ \A j \in Instances : j # i => held'[j] = held[j]
        /\ game'[r] = held[i] /\ \A s \in Rooms : s # r => game'[s] = game[s]
        /\ leaving' = leaving /\ again' = again
    BY <1>0, <1>4, <2>1 DEF CreateMatch, Queued
  <2>3. QueuedAreSearching'
    BY <1>0, <2>2
  <2>4. NoDoubleMatching'
    <3>. SUFFICES ASSUME NEW p \in Players \ again
                  PROVE  /\ \A j, k \in Instances : p \in held'[j] \cap held'[k] => j = k
                         /\ \A q, s \in Rooms : p \in game'[q] \cap game'[s] => q = s
                         /\ ~(Held(p)' /\ Playing(p)')
                         /\ p \in Queued' => ~Held(p)' /\ ~Playing(p)'
      BY <2>2
    <3>1. CASE p \in held[i]
      <4>1. p \notin Queued /\ ~Playing(p) /\ \A j \in Instances : p \in held[j] => j = i
        BY <3>1
      <4>2. ~Held(p)'
        BY <2>2, <4>1
      <4>3. \A s \in Rooms : p \in game'[s] => s = r
        BY <2>2, <4>1
      <4> QED BY <2>2, <4>1, <4>2, <4>3
    <3>2. CASE p \notin held[i]
      <4>1. /\ \A j \in Instances : p \in held'[j] => p \in held[j]
            /\ \A s \in Rooms : p \in game'[s] => p \in game[s]
        BY <2>2, <3>2
      <4> QED BY <2>2, <4>1
    <3> QED BY <3>1, <3>2
  <2> QED BY <2>3, <2>4
<1>5. ASSUME NEW i \in Instances, LosesPair(i) PROVE Goal
  <2>1. /\ Queued' = Queued /\ game' = game
        /\ held'[i] = {} /\ \A j \in Instances : j # i => held'[j] = held[j]
        /\ searching \ held[i] \subseteq searching'
        /\ leaving' = leaving /\ again' = again
    BY <1>0, <1>5 DEF LosesPair, Queued
  <2>2. QueuedAreSearching'
    BY <1>0, <2>1
  <2>3. NoDoubleMatching'
    BY <2>1
  <2> QED BY <2>2, <2>3
<1>6. ASSUME NEW r \in Rooms, GameEnds(r) PROVE Goal
  <2>1. /\ Queued' = Queued /\ held' = held /\ searching' = searching
        /\ game'[r] = {} /\ \A s \in Rooms : s # r => game'[s] = game[s]
        /\ leaving' = leaving /\ again' = again
    BY <1>0, <1>6 DEF GameEnds, Queued
  <2> QED BY <2>1
<1>7. ASSUME Tick PROVE Goal
  BY <1>7 DEF Tick, Queued
<1>8. ASSUME UNCHANGED vars PROVE Goal
  BY <1>8 DEF vars, Queued
<1> QED BY <1>1, <1>2, <1>2a, <1>3, <1>4, <1>5, <1>6, <1>7, <1>8 DEF Next

\* Nobody is queued, held or playing at the start.
LEMMA InitInv == Init => Inv
BY MatchmakingAssumption
   DEF Init, Inv, TypeOK, QueuedAreSearching, NoDoubleMatching, Queued, Held, Playing

----------------------------------------------------------------------------
(* The theorems.                                                           *)

\* The queue holds players, and a pair or game is two different players:
\* the script never pairs a player with themselves.
THEOREM TypeCorrect == Spec => []TypeOK
<1>1. Init => TypeOK
  BY InitInv DEF Inv
<1> QED BY <1>1, NextType, PTL DEF Spec

\* Both invariants, together.
THEOREM Invariance == Spec => []Inv
<1>1. Inv /\ [Next]_vars => Inv'
  BY NextType, NextPlaced DEF Inv
<1> QED BY InitInv, <1>1, PTL DEF Spec

\* With any number of instances popping from one queue, and any number of late
\* endpoints, only a player who searched while held or playing is ever in two
\* pairs or games, or queued beside one.
THEOREM NoDoubleMatchingTheorem == Spec => []NoDoubleMatching
<1>1. Inv => NoDoubleMatching
  BY DEF Inv
<1> QED BY Invariance, <1>1, PTL

\* Whoever is queued is searching, has an endpoint on its way that will dequeue
\* them, or searched while held or playing.
THEOREM QueuedAreSearchingTheorem == Spec => []QueuedAreSearching
<1>1. Inv => QueuedAreSearching
  BY DEF Inv
<1> QED BY Invariance, <1>1, PTL

\* A step takes a waiting player out of the queue only into a pair, and out of
\* a pair only when the instance drops the pair; but for the endpoint of an
\* earlier socket, which dequeues the player it belongs to and nobody else.
THEOREM WaitingStaysPlacedTheorem == Spec => WaitingStaysPlaced
<1>. DEFINE Stays(p) ==
              \/ (p \in Queued \/ Held(p))'
              \/ \E i \in Instances : p \in held[i] /\ held'[i] = {}
              \/ p \in leaving \ leaving'
<1>1. ASSUME TypeOK, [Next]_vars, NEW p \in searching \cap searching',
             p \in Queued \/ Held(p)
      PROVE  Stays(p)
  <2>0. held \in [Instances -> SUBSET Players]
    BY <1>1 DEF TypeOK, Pairs
  <2>1. CASE held' = held /\ Queued \subseteq Queued'
    BY <1>1, <2>1 DEF Held
  <2>2. ASSUME NEW q \in Players, Cancel(q) PROVE Stays(p)
    <3>1. p # q /\ Queued' = Queued \ {q} /\ held' = held
      BY <1>1, <2>2 DEF Cancel, Without, Queued
    <3> QED BY <1>1, <3>1 DEF Held
  <2>2a. ASSUME NEW q \in Players, EndpointEnds(q) PROVE Stays(p)
    <3>1. Queued' = Queued \ {q} /\ held' = held /\ q \in leaving \ leaving'
      BY <2>2a DEF EndpointEnds, Without, Queued
    <3> QED BY <1>1, <3>1 DEF Held
  <2>2b. ASSUME NEW q \in Players, SocketLost(q) PROVE Stays(p)
    BY <2>1, <2>2b DEF SocketLost, Queued
  <2>3. ASSUME NEW i \in Instances, Pop(i) PROVE Stays(p)
    <3>1. PICK x \in Queued \X Queued :
             /\ queue' = Without({x[1], x[2]})
             /\ held' = [held EXCEPT ![i] = {x[1], x[2]}]
      BY <2>3 DEF Pop
    <3>2. /\ held[i] = {} /\ held'[i] = {x[1], x[2]}
          /\ \A j \in Instances : j # i => held'[j] = held[j]
          /\ Queued' = Queued \ {x[1], x[2]}
      BY <2>0, <2>3, <3>1 DEF Pop, Without, Queued
    <3> QED BY <1>1, <3>2 DEF Held
  <2>4. ASSUME NEW i \in Instances, CreateMatch(i) \/ LosesPair(i) PROVE Stays(p)
    <3>1. /\ held'[i] = {} /\ Queued' = Queued
          /\ \A j \in Instances : j # i => held'[j] = held[j]
      BY <2>0, <2>4 DEF CreateMatch, LosesPair, Queued
    <3> QED BY <1>1, <3>1 DEF Held
  <2>5. ASSUME NEW q \in Players, FindMatch(q) PROVE Stays(p)
    BY <2>1, <2>5 DEF FindMatch, MayFind, Enqueued, Queued
  <2>6. ASSUME NEW r \in Rooms, GameEnds(r) PROVE Stays(p)
    BY <2>1, <2>6 DEF GameEnds, Queued
  <2>7. CASE Tick \/ UNCHANGED vars
    BY <2>1, <2>7 DEF Tick, Queued, vars
  <2> QED BY <1>1, <2>2, <2>2a, <2>2b, <2>3, <2>4, <2>5, <2>6, <2>7 DEF Next
<1>2. TypeOK /\ [Next]_vars =>
        [\A p \in searching \cap searching' :
            (p \in Queued \/ Held(p)) =>
                \/ (p \in Queued \/ Held(p))'
                \/ \E i \in Instances : p \in held[i] /\ held'[i] = {}
                \/ p \in leaving \ leaving']_vars
  BY <1>1
<1> QED BY TypeCorrect, <1>2, PTL DEF Spec, WaitingStaysPlaced
----------------------------------------------------------------------------
(* What the script finds.  Its nested loops go through the queue in the    *)
(* order Before; the ids of this section are those of any set of players.  *)

\* A set of naturals that is not empty has a least element.
LEMMA LeastNat ==
    ASSUME NEW T \in SUBSET Nat, T # {}
    PROVE  \E m \in T : \A n \in T : m <= n
<1>1. PICK m \in T : \A n \in T : ~(<<n, m>> \in OpToRel(<, Nat))
  BY NatLessThanWellFounded, WFMin, Zenon
<1>2. \A n \in T : ~(n < m)
  BY <1>1 DEF OpToRel
<1> QED BY <1>2

\* Some player of a set comes before all the others: the lowest rating, and
\* among those the lowest id.
LEMMA FirstPlayer ==
    ASSUME NEW P \in SUBSET Players, P # {}
    PROVE  \E p \in P : \A q \in P : ~Before(q, p)
<1>. DEFINE E == {Elo[p] : p \in P}
<1>0. \A p \in P : p \in Nat /\ Elo[p] \in Nat
  BY MatchmakingAssumption
<1>1. PICK e \in E : \A f \in E : e <= f
  BY <1>0, LeastNat
<1>. DEFINE L == {p \in P : Elo[p] = e}
<1>2. L # {} /\ L \in SUBSET Nat
  BY <1>0
<1>3. PICK p \in L : \A q \in L : p <= q
  BY <1>2, LeastNat
<1>4. ASSUME NEW q \in P PROVE ~Before(q, p)
  <2>1. e <= Elo[q] /\ Elo[p] = e
    BY <1>1
  <2>2. Elo[q] = Elo[p] => p <= q
    BY <1>3, <2>1
  <2> QED BY <1>0, <2>1, <2>2 DEF Before
<1> QED BY <1>4

\* If any two queued players are compatible, the script finds a pair.
LEMMA PopFindsPair ==
    ASSUME TypeOK, Candidates # {}
    PROVE  \E x \in Queued \X Queued : IsFirst(x)
<1>. DEFINE P == {x[1] : x \in Candidates}
<1>0. Candidates \subseteq Queued \X Queued /\ Queued \subseteq Players
  BY DEF Candidates, TypeOK
<1>1. PICK p \in P : \A q \in P : ~Before(q, p)
  <2>1. P \in SUBSET Players /\ P # {}
    BY <1>0
  <2> QED BY <2>1, FirstPlayer
<1>. DEFINE Q == {x[2] : x \in {y \in Candidates : y[1] = p}}
<1>2. PICK q \in Q : \A r \in Q : ~Before(r, q)
  <2>1. Q \in SUBSET Players /\ Q # {}
    BY <1>0
  <2> QED BY <2>1, FirstPlayer
<1>3. PICK x \in Candidates : x[1] = p /\ x[2] = q
  OBVIOUS
<1>4. IsFirst(x)
  BY <1>1, <1>2, <1>3 DEF IsFirst
<1> QED BY <1>0, <1>4

\* The script finds one pair only: its result is determined by the queue.
LEMMA OnePairIsFirst ==
    ASSUME TypeOK, NEW x \in Queued \X Queued, NEW y \in Queued \X Queued,
           IsFirst(x), IsFirst(y)
    PROVE  x = y
<1>1. /\ x[1] \in Nat /\ x[2] \in Nat /\ y[1] \in Nat /\ y[2] \in Nat
      /\ Elo[x[1]] \in Nat /\ Elo[x[2]] \in Nat
      /\ Elo[y[1]] \in Nat /\ Elo[y[2]] \in Nat
  BY MatchmakingAssumption DEF TypeOK
<1>2. ~Before(x[1], y[1]) /\ ~Before(y[1], x[1])
  BY DEF IsFirst
<1>3. x[1] = y[1]
  BY <1>1, <1>2 DEF Before
<1>4. ~Before(x[2], y[2]) /\ ~Before(y[2], x[2])
  BY <1>3 DEF IsFirst
<1>5. x[2] = y[2]
  BY <1>1, <1>4 DEF Before
<1> QED BY <1>3, <1>5
----------------------------------------------------------------------------
\* Pairs whose ratings are at most the widest tolerance apart.
FairPair(P) == \A p, q \in P : Distance(Elo[p], Elo[q]) <= MaxTol

\* Nobody is held or plays with somebody out of reach.
PairsAreFair ==
    /\ \A i \in Instances : FairPair(held[i])
    /\ \A r \in Rooms : FairPair(game[r])

\* However long a player has waited, the widest tolerance bounds theirs.
LEMMA ToleranceBound ==
    ASSUME TypeOK, NEW p \in Queued
    PROVE  Tolerance(p) \in Nat /\ Tolerance(p) <= MaxTol
<1>1. queue[p] \in Nat
  <2>1. queue[p] \in 0..MaxWait /\ MaxWait \in Nat
    BY MatchmakingAssumption DEF TypeOK
  <2> QED BY <2>1
<1>2. \A m, n \in Nat : m * n \in Nat
  OBVIOUS
<1>3. queue[p] * PerTick \in Nat
  BY <1>1, <1>2, MatchmakingAssumption
<1> QED BY <1>3, MatchmakingAssumption DEF Tolerance, Smaller

\* The script's test keeps within the widest tolerance.
LEMMA FirstIsFair ==
    ASSUME TypeOK, NEW x \in Queued \X Queued, IsFirst(x)
    PROVE  FairPair({x[1], x[2]})
<1>1. Compatible(x[1], x[2])
  BY DEF IsFirst, Candidates
<1>2. x[1] \in Queued /\ x[2] \in Queued
  OBVIOUS
<1>3. Elo[x[1]] \in Nat /\ Elo[x[2]] \in Nat
  BY <1>2, MatchmakingAssumption DEF TypeOK
<1>4. Distance(Elo[x[1]], Elo[x[2]]) <= MaxTol
  <2>1. /\ Tolerance(x[1]) \in Nat /\ Tolerance(x[1]) <= MaxTol
        /\ Tolerance(x[2]) \in Nat
    BY <1>2, ToleranceBound
  <2>2. Distance(Elo[x[1]], Elo[x[2]]) \in Nat
    BY <1>3 DEF Distance
  <2> QED BY <1>1, <2>1, <2>2, MatchmakingAssumption DEF Compatible, Smaller
<1> QED BY <1>3, <1>4, MatchmakingAssumption DEF FairPair, Distance

\* However long a player has waited, the opponent's rating is at most the
\* widest tolerance away: elo_tolerance_max bounds every pair and every game.
THEOREM PairsAreFairTheorem == Spec => []PairsAreFair
<1>1. Init => PairsAreFair
  BY DEF Init, PairsAreFair, FairPair
<1>2. TypeOK /\ PairsAreFair /\ [Next]_vars => PairsAreFair'
  <2>. SUFFICES ASSUME TypeOK, PairsAreFair, [Next]_vars PROVE PairsAreFair'
    OBVIOUS
  <2>. USE DEF PairsAreFair
  <2>0. /\ held = [i \in Instances |-> held[i]] /\ game = [r \in Rooms |-> game[r]]
        /\ FairPair({})
    BY DEF TypeOK, FairPair
  <2>1. ASSUME NEW i \in Instances, Pop(i) PROVE PairsAreFair'
    <3>1. PICK x \in Queued \X Queued :
             IsFirst(x) /\ held' = [held EXCEPT ![i] = {x[1], x[2]}]
      BY <2>1 DEF Pop
    <3>2. FairPair({x[1], x[2]})
      BY <3>1, FirstIsFair
    <3> QED BY <2>0, <2>1, <3>1, <3>2 DEF Pop
  <2>2. ASSUME NEW i \in Instances, CreateMatch(i) PROVE PairsAreFair'
    BY <2>0, <2>2 DEF CreateMatch
  <2>3. ASSUME NEW i \in Instances, LosesPair(i) PROVE PairsAreFair'
    BY <2>0, <2>3 DEF LosesPair
  <2>4. ASSUME NEW r \in Rooms, GameEnds(r) PROVE PairsAreFair'
    BY <2>0, <2>4 DEF GameEnds
  <2>5. CASE held' = held /\ game' = game
    BY <2>5
  <2> QED BY <2>1, <2>2, <2>3, <2>4, <2>5 DEF Next, FindMatch, Cancel, SocketLost, EndpointEnds, Tick, vars
<1> QED BY <1>1, <1>2, TypeCorrect, PTL DEF Spec

\* Two players who can stop waiting for a wider tolerance.
FullyWidened(p, q) ==
    /\ p # q /\ {p, q} \subseteq Queued
    /\ Distance(Elo[p], Elo[q]) <= MaxTol
    /\ queue[p] = MaxWait /\ queue[q] = MaxWait

\* Once two players within reach of each other have waited long enough, the
\* next pop finds a pair, though perhaps another one: the loop never idles over
\* a queue that holds a match.  The safety half of CompatibleNotStuck.
THEOREM LoopNeverIdles ==
    Spec => [](\A p, q \in Players :
                 FullyWidened(p, q) => \E x \in Queued \X Queued : IsFirst(x))
<1>1. ASSUME TypeOK, NEW p \in Players, NEW q \in Players, FullyWidened(p, q)
      PROVE  \E x \in Queued \X Queued : IsFirst(x)
  <2>1. Tolerance(p) = MaxTol /\ Tolerance(q) = MaxTol
    <3>1. MaxWait * PerTick \in Nat
      BY MatchmakingAssumption
    <3> QED BY <1>1, <3>1, MatchmakingAssumption DEF FullyWidened, Tolerance, Smaller
  <2>2. Elo[p] \in Nat /\ Elo[q] \in Nat /\ p \in Nat /\ q \in Nat
    BY MatchmakingAssumption
  <2>3. Compatible(p, q) /\ Compatible(q, p)
    BY <1>1, <2>1, <2>2 DEF FullyWidened, Compatible, Smaller, Distance
  <2>4. Before(p, q) \/ Before(q, p)
    BY <1>1, <2>2 DEF FullyWidened, Before
  <2>5. Candidates # {}
    <3>1. <<p, q>> \in Queued \X Queued /\ <<q, p>> \in Queued \X Queued
      BY <1>1 DEF FullyWidened
    <3>2. CASE Before(p, q)
      <4>1. <<p, q>> \in Candidates
        BY <2>3, <3>1, <3>2 DEF Candidates
      <4> QED BY <4>1
    <3>3. CASE Before(q, p)
      <4>1. <<q, p>> \in Candidates
        BY <2>3, <3>1, <3>3 DEF Candidates
      <4> QED BY <4>1
    <3> QED BY <2>4, <3>2, <3>3
  <2> QED BY <1>1, <2>5, PopFindsPair
<1>2. TypeOK => \A p, q \in Players :
                  FullyWidened(p, q) => \E x \in Queued \X Queued : IsFirst(x)
  BY <1>1
<1> QED BY <1>2, TypeCorrect, PTL

----------------------------------------------------------------------------
(* What the atomic pop ensures by itself, also when players search again   *)
(* while an instance holds them.                                           *)

HeldBy(p) == {i \in Instances : p \in held[i]}
GamesOf(p) == {r \in Rooms : p \in game[r]}
InQueue(p) == IF p \in Queued THEN 1 ELSE 0

\* Every place a player has, in the queue, in a pair or in a game, has cost a
\* search of its own.
OneMatchPerSearch ==
    \A p \in Players :
        Cardinality(HeldBy(p)) + Cardinality(GamesOf(p)) + InQueue(p) <= finds[p]

\* The places of one player are finite in number; gaining one, or losing some,
\* changes the count accordingly.
LEMMA PlacesCount ==
    ASSUME IsFiniteSet(Instances), IsFiniteSet(Rooms), NEW p \in Players
    PROVE  /\ IsFiniteSet(HeldBy(p)) /\ Cardinality(HeldBy(p)) \in Nat
           /\ IsFiniteSet(GamesOf(p)) /\ Cardinality(GamesOf(p)) \in Nat
<1>1. HeldBy(p) \subseteq Instances /\ GamesOf(p) \subseteq Rooms
  BY DEF HeldBy, GamesOf
<1>2. IsFiniteSet(HeldBy(p)) /\ IsFiniteSet(GamesOf(p))
  BY <1>1, FS_Subset
<1> QED BY <1>2, FS_CardinalityType

\* Each step pays for the place it gives: a search for the place in the queue,
\* that one for the pair, the pair for the game.
LEMMA NextOneMatch ==
    ASSUME IsFiniteSet(Instances), IsFiniteSet(Rooms),
           TypeOK, OneMatchPerSearch, [Next]_vars
    PROVE  OneMatchPerSearch'
<1>. SUFFICES ASSUME NEW p \in Players
              PROVE  Cardinality(HeldBy(p))' + Cardinality(GamesOf(p))' + InQueue(p)'
                        <= finds'[p]
  BY DEF OneMatchPerSearch
<1>. DEFINE h == Cardinality(HeldBy(p))
            g == Cardinality(GamesOf(p))
            Goal == Cardinality(HeldBy(p))' + Cardinality(GamesOf(p))' + InQueue(p)'
                       <= finds'[p]
<1>0. /\ held \in [Instances -> SUBSET Players] /\ game \in [Rooms -> SUBSET Players]
      /\ finds \in [Players -> Nat]
      /\ IsFiniteSet(HeldBy(p)) /\ h \in Nat
      /\ IsFiniteSet(GamesOf(p)) /\ g \in Nat
      /\ InQueue(p) \in 0..1 /\ InQueue(p)' \in 0..1
      /\ h + g + InQueue(p) <= finds[p]
  <2>1. held \in [Instances -> SUBSET Players] /\ game \in [Rooms -> SUBSET Players]
    BY DEF TypeOK, Pairs
  <2>2. finds \in [Players -> Nat]
    BY MatchmakingAssumption DEF TypeOK
  <2>3. InQueue(p) \in 0..1 /\ InQueue(p)' \in 0..1
    BY DEF InQueue
  <2>4. h + g + InQueue(p) <= finds[p]
    BY DEF OneMatchPerSearch
  <2> QED BY <2>1, <2>2, <2>3, <2>4, PlacesCount
<1>1. ASSUME NEW q \in Players, FindMatch(q) PROVE Goal
  <2>1. HeldBy(p)' = HeldBy(p) /\ GamesOf(p)' = GamesOf(p)
    BY <1>1 DEF FindMatch, HeldBy, GamesOf
  <2>2. Cardinality(HeldBy(p))' = h /\ Cardinality(GamesOf(p))' = g
    BY <2>1
  <2>3. CASE q = p
    <3>1. finds'[p] = finds[p] + 1
      BY <1>0, <1>1, <2>3 DEF FindMatch
    <3> HIDE DEF h, g
    <3> QED BY <1>0, <2>2, <3>1
  <2>4. CASE q # p
    <3>1. finds'[p] = finds[p]
      BY <1>0, <1>1, <2>4 DEF FindMatch
    <3>2. InQueue(p)' = InQueue(p)
      BY <1>1, <2>4 DEF FindMatch, Enqueued, InQueue, Queued
    <3> QED BY <1>0, <2>2, <3>1, <3>2
  <2> QED BY <2>3, <2>4
<1>2. ASSUME NEW q \in Players, Cancel(q) \/ SocketLost(q) \/ EndpointEnds(q) PROVE Goal
  <2>1. HeldBy(p)' = HeldBy(p) /\ GamesOf(p)' = GamesOf(p) /\ finds' = finds
    BY <1>2 DEF Cancel, SocketLost, EndpointEnds, HeldBy, GamesOf
  <2>2. Cardinality(HeldBy(p))' = h /\ Cardinality(GamesOf(p))' = g
    BY <2>1
  <2>3. InQueue(p)' <= InQueue(p)
    BY <1>2 DEF Cancel, SocketLost, EndpointEnds, Without, InQueue, Queued
  <2> HIDE DEF h, g
  <2> QED BY <1>0, <2>1, <2>2, <2>3
<1>3. ASSUME NEW i \in Instances, Pop(i) PROVE Goal
  <2>1. PICK x \in Queued \X Queued :
           /\ queue' = Without({x[1], x[2]})
           /\ held' = [held EXCEPT ![i] = {x[1], x[2]}]
    BY <1>3 DEF Pop
  <2>2. /\ Queued' = Queued \ {x[1], x[2]} /\ {x[1], x[2]} \subseteq Queued
        /\ held[i] = {} /\ held'[i] = {x[1], x[2]}
        /\ \A j \in Instances : j # i => held'[j] = held[j]
        /\ GamesOf(p)' = GamesOf(p) /\ finds' = finds
    BY <1>0, <1>3, <2>1 DEF Pop, Without, Queued, GamesOf
  <2>3. Cardinality(GamesOf(p))' = g
    BY <2>2
  <2>4. CASE p \in {x[1], x[2]}
    <3>1. HeldBy(p)' = HeldBy(p) \cup {i} /\ i \notin HeldBy(p)
      BY <2>2, <2>4 DEF HeldBy
    <3>2. Cardinality(HeldBy(p))' = h + 1
      BY <1>0, <3>1, FS_AddElement
    <3>3. InQueue(p) = 1 /\ InQueue(p)' = 0
      BY <2>2, <2>4 DEF InQueue
    <3> HIDE DEF h, g
    <3> QED BY <1>0, <2>2, <2>3, <3>2, <3>3
  <2>5. CASE p \notin {x[1], x[2]}
    <3>1. HeldBy(p)' = HeldBy(p)
      BY <2>2, <2>5 DEF HeldBy
    <3>2. InQueue(p)' = InQueue(p)
      BY <2>2, <2>5 DEF InQueue
    <3>3. Cardinality(HeldBy(p))' = h
      BY <3>1
    <3> HIDE DEF h, g
    <3> QED BY <1>0, <2>2, <2>3, <3>2, <3>3
  <2> QED BY <2>4, <2>5
<1>4. ASSUME NEW i \in Instances, CreateMatch(i) PROVE Goal
  <2>1. PICK r \in Rooms : game[r] = {} /\ game' = [game EXCEPT ![r] = held[i]]
    BY <1>4 DEF CreateMatch
  <2>2. /\ InQueue(p)' = InQueue(p) /\ finds' = finds
        /\ held'[i] = {} /\ \A j \in Instances : j # i => held'[j] = held[j]
        /\ game'[r] = held[i] /\ \A s \in Rooms : s # r => game'[s] = game[s]
    BY <1>0, <1>4, <2>1 DEF CreateMatch, InQueue, Queued
  <2>3. CASE p \in held[i]
    <3>1. /\ HeldBy(p)' = HeldBy(p) \ {i} /\ i \in HeldBy(p)
          /\ GamesOf(p)' = GamesOf(p) \cup {r} /\ r \notin GamesOf(p)
      BY <2>1, <2>2, <2>3 DEF HeldBy, GamesOf
    <3>2. Cardinality(HeldBy(p))' = h - 1
      BY <1>0, <3>1, FS_RemoveElement
    <3>3. Cardinality(GamesOf(p))' = g + 1
      BY <1>0, <3>1, FS_AddElement
    <3> HIDE DEF h, g
    <3> QED BY <1>0, <2>2, <3>2, <3>3
  <2>4. CASE p \notin held[i]
    <3>1. HeldBy(p)' = HeldBy(p) /\ GamesOf(p)' = GamesOf(p)
      BY <2>1, <2>2, <2>4 DEF HeldBy, GamesOf
    <3>2. Cardinality(HeldBy(p))' = h /\ Cardinality(GamesOf(p))' = g
      BY <3>1
    <3> HIDE DEF h, g
    <3> QED BY <1>0, <2>2, <3>2
  <2> QED BY <2>3, <2>4
<1>5. ASSUME NEW i \in Instances, LosesPair(i) PROVE Goal
  <2>1. /\ InQueue(p)' = InQueue(p) /\ finds' = finds
        /\ HeldBy(p)' \subseteq HeldBy(p) /\ GamesOf(p)' = GamesOf(p)
    BY <1>0, <1>5 DEF LosesPair, InQueue, Queued, HeldBy, GamesOf
  <2>2. Cardinality(HeldBy(p))' <= h /\ Cardinality(HeldBy(p))' \in Nat
    BY <1>0, <2>1, FS_Subset, FS_CardinalityType
  <2>3. Cardinality(GamesOf(p))' = g
    BY <2>1
  <2> HIDE DEF h, g
  <2> QED BY <1>0, <2>1, <2>2, <2>3
<1>6. ASSUME NEW r \in Rooms, GameEnds(r) PROVE Goal
  <2>1. /\ InQueue(p)' = InQueue(p) /\ finds' = finds
        /\ HeldBy(p)' = HeldBy(p) /\ GamesOf(p)' \subseteq GamesOf(p)
    BY <1>0, <1>6 DEF GameEnds, InQueue, Queued, HeldBy, GamesOf
  <2>2. Cardinality(GamesOf(p))' <= g /\ Cardinality(GamesOf(p))' \in Nat
    BY <1>0, <2>1, FS_Subset, FS_CardinalityType
  <2>3. Cardinality(HeldBy(p))' = h
    BY <2>1
  <2> HIDE DEF h, g
  <2> QED BY <1>0, <2>1, <2>2, <2>3
<1>7. ASSUME Tick \/ UNCHANGED vars PROVE Goal
  <2>1. /\ InQueue(p)' = InQueue(p) /\ finds' = finds
        /\ HeldBy(p)' = HeldBy(p) /\ GamesOf(p)' = GamesOf(p)
    BY <1>7 DEF Tick, vars, InQueue, Queued, HeldBy, GamesOf
  <2>2. Cardinality(HeldBy(p))' = h /\ Cardinality(GamesOf(p))' = g
    BY <2>1
  <2> HIDE DEF h, g
  <2> QED BY <1>0, <2>1, <2>2
<1> QED BY <1>1, <1>2, <1>3, <1>4, <1>5, <1>6, <1>7 DEF Next

\* What the atomic pop is worth to those who search again: such a player can be
\* in two games at once, but nobody is in more places than they made searches,
\* so one search is never matched twice, whichever instances pop and fail.
THEOREM OneMatchPerSearchTheorem ==
    ASSUME IsFiniteSet(Instances), IsFiniteSet(Rooms)
    PROVE  Spec => []OneMatchPerSearch
<1>1. Init => OneMatchPerSearch
  <2>1. ASSUME Init, NEW p \in Players
        PROVE  HeldBy(p) = {} /\ GamesOf(p) = {} /\ InQueue(p) = 0 /\ finds[p] = 0
    BY <2>1 DEF Init, HeldBy, GamesOf, InQueue, Queued
  <2> QED BY <2>1, FS_EmptySet DEF OneMatchPerSearch
<1>2. TypeOK /\ OneMatchPerSearch /\ [Next]_vars => OneMatchPerSearch'
  BY NextOneMatch
<1> QED BY <1>1, <1>2, TypeCorrect, PTL DEF Spec
=============================================================================
