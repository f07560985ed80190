-------------------------- MODULE AfterGame_proofs --------------------------
(***************************************************************************)
(* Proofs about the persistence of results, for any finite number of       *)
(* results, any players and any ratings, whether or not transactions are   *)
(* rolled back; and about the games that start those tasks.                *)
(***************************************************************************)
EXTENDS AfterGame, FiniteSetTheorems, WellFoundedInduction, TLAPS

----------------------------------------------------------------------------
(* Ratings.                                                                *)

\* What one result adds to a row is a row again.
LEMMA AfterIsRow ==
    ASSUME NEW p \in Players, NEW x \in Pairs, p \in Members(x),
           NEW w \in Winners(x), NEW row \in Row
    PROVE  After(row, p, x, w) \in Row
<1>1. Opponent(p, x) \in Players
  BY DEF Pairs, Opponent
<1>2. Elo[p] \in Nat /\ Elo[p] - Elo[Opponent(p, x)] \in Diffs
  BY <1>1, RatingAssumption DEF Diffs
<1>3. Outcome(p, w) \in Outcomes
  BY DEF Outcome, Outcomes
<1>4. Delta(p, x, w) \in Int
  BY <1>2, <1>3, RatingAssumption DEF Delta
<1> QED BY <1>2, <1>4 DEF After, Row, One

----------------------------------------------------------------------------
(* Transactions.                                                           *)

\* Which rows a transaction has locked at each stage.
Holds ==
    \A t \in Tasks :
        Locked(t) = CASE stage[t] = "second"  -> {pair[t][1]}
                      [] stage[t] = "closing" -> Members(pair[t])
                      [] OTHER                -> {}

\* What it is going to write is one result more than what is committed.
OnTop ==
    \A t \in Tasks : \A p \in Locked(t) :
        pending[t][p] = After(rows[p], p, pair[t], winner[t])

\* A row is locked once.
Exclusive ==
    \A s, t \in Tasks : s # t => Locked(s) \cap Locked(t) = {}

RInv == ResultsTypeOK /\ Holds /\ OnTop /\ Exclusive /\ CountersMatchHistory

LEMMA ResultsInitInv == ResultsInit => RInv
<1>. SUFFICES ASSUME ResultsInit PROVE RInv
  OBVIOUS
<1>1. NewRow \in Row
  BY RatingAssumption DEF NewRow, Row
<1>2. \A t \in Tasks : Locked(t) = {}
  BY DEF ResultsInit, Locked, NoRows
<1>3. ResultsTypeOK
  BY <1>1, <1>2 DEF ResultsInit, ResultsTypeOK, Stages, NoRows, Locked
<1>4. \A p \in Players, o \in Outcomes : ResultsOf(p, o) = {}
  BY DEF ResultsInit, ResultsOf, Committed
<1>5. CountersMatchHistory
  <2>1. \A p \in Players : rows[p] = NewRow
    BY DEF ResultsInit
  <2>2. \A p \in Players, o \in Outcomes : Cardinality(ResultsOf(p, o)) = 0
    BY <1>4, FS_EmptySet
  <2> QED BY <2>1, <2>2 DEF CountersMatchHistory, NewRow, Outcomes
<1> QED BY <1>2, <1>3, <1>5 DEF RInv, Holds, OnTop, Exclusive, ResultsInit

\* A step of one task that neither commits nor touches the rows keeps the
\* history.
LEMMA SameHistory ==
    ASSUME rows' = rows, Committed' = Committed,
           \A t \in Committed : pair'[t] = pair[t] /\ winner'[t] = winner[t],
           CountersMatchHistory
    PROVE  CountersMatchHistory'
<1>1. \A p \in Players, o \in Outcomes : ResultsOf(p, o)' = ResultsOf(p, o)
  BY DEF ResultsOf
<1> QED BY <1>1 DEF CountersMatchHistory, Outcomes

\* The update takes the next row, which nobody else has locked.
LEMMA UpdateKeeps ==
    ASSUME RInv, NEW t \in Tasks, UpdatesPlayer(t)
    PROVE  RInv'
<1>. USE DEF RInv
<1> DEFINE q == Turn(t)
<1>1. /\ stage[t] \in {"first", "second"}
      /\ pair[t] \in Pairs /\ winner[t] \in Winners(pair[t])
      /\ stage' = [stage EXCEPT ![t] = IF stage[t] = "first" THEN "second" ELSE "closing"]
      /\ pending' = [pending EXCEPT ![t] = Updated(t)]
      /\ rows' = rows /\ pair' = pair /\ winner' = winner
  BY DEF UpdatesPlayer, Updating, ResultsTypeOK
<1>2. q = IF stage[t] = "first" THEN pair[t][1] ELSE pair[t][2]
  BY DEF Turn, Order
<1>3. q \in Players /\ q \in Members(pair[t])
  BY <1>1, <1>2 DEF Pairs, Members
<1>4. \A s \in Tasks : s # t => q \notin Locked(s)
  BY DEF UpdatesPlayer, Blocked, WaitsFor
<1>5. Locked(t) = IF stage[t] = "first" THEN {} ELSE {pair[t][1]}
  BY <1>1 DEF Holds
<1> HIDE DEF q
<1>6. \A s \in Tasks : s # t => pending'[s] = pending[s] /\ Locked(s)' = Locked(s)
  BY <1>1 DEF Locked, ResultsTypeOK
<1>7. pending'[t] = Updated(t) /\ Locked(t)' = Locked(t) \cup {q}
  BY <1>1 DEF Locked, ResultsTypeOK, Updated, q
<1>8. \A p \in Locked(t)' : pending'[t][p] = After(rows[p], p, pair[t], winner[t])
  BY <1>7 DEF Updated, OnTop, q
<1>9. Locked(t)' = IF stage[t] = "first" THEN {pair[t][1]} ELSE Members(pair[t])
  BY <1>7, <1>5, <1>2, <1>1 DEF Members
<1>10. stage'[t] = (IF stage[t] = "first" THEN "second" ELSE "closing")
       /\ \A s \in Tasks : s # t => stage'[s] = stage[s]
  BY <1>1 DEF ResultsTypeOK
<1>11. Holds'
  BY <1>1, <1>6, <1>9, <1>10 DEF Holds
<1>12. OnTop'
  BY <1>1, <1>6, <1>8 DEF OnTop
<1>13. Exclusive'
  BY <1>4, <1>6, <1>7 DEF Exclusive
<1>14. ResultsTypeOK'
  <2>1. pending'[t] \in [Locked(t)' -> Row]
    <3>1. \A p \in Locked(t)' : p \in Players /\ p \in Members(pair[t]) /\ rows[p] \in Row
      BY <1>9, <1>1 DEF Members, Pairs, ResultsTypeOK
    <3>2. \A p \in Locked(t)' : pending'[t][p] \in Row
      BY <3>1, <1>1, <1>8, AfterIsRow
    <3>3. pending'[t] = [p \in Locked(t)' |-> pending'[t][p]]
      BY <1>7 DEF Updated, q
    <3> QED BY <3>2, <3>3
  <2>2. Locked(t)' \subseteq Players
    BY <1>9, <1>1 DEF Members, Pairs
  <2>3. stage' \in [Tasks -> Stages] /\ DOMAIN pending' = Tasks
    BY <1>1 DEF ResultsTypeOK, Stages
  <2> QED BY <1>1, <1>6, <1>10, <2>1, <2>2, <2>3 DEF ResultsTypeOK
<1>15. Committed' = Committed
  BY <1>1, <1>10 DEF Committed
<1>16. CountersMatchHistory'
  BY <1>1, <1>15, SameHistory
<1> QED BY <1>11, <1>12, <1>13, <1>14, <1>16

\* What a commit does to the history and to the rows.
LEMMA CommitHistory ==
    ASSUME RInv, NEW t \in Tasks, Commits(t)
    PROVE  /\ t \notin Committed
           /\ Committed' = Committed \cup {t}
           /\ pair[t] \in Pairs /\ winner[t] \in Winners(pair[t])
           /\ rows' = [p \in Players |->
                          IF p \in Members(pair[t])
                              THEN After(rows[p], p, pair[t], winner[t]) ELSE rows[p]]
<1>. USE DEF RInv
<1>1. stage[t] = "closing" /\ stage' = [stage EXCEPT ![t] = "committed"]
  BY DEF Commits
<1>2. pair[t] \in Pairs /\ winner[t] \in Winners(pair[t])
  BY <1>1 DEF ResultsTypeOK
<1>3. Locked(t) = Members(pair[t])
  BY <1>1 DEF Holds
<1>4. Committed' = Committed \cup {t} /\ t \notin Committed
  BY <1>1 DEF Committed, ResultsTypeOK
<1> QED BY <1>2, <1>3, <1>4 DEF Commits, OnTop

LEMMA CommitKeeps ==
    ASSUME RInv, NEW t \in Tasks, Commits(t)
    PROVE  RInv'
<1>. USE DEF RInv
<1>1. /\ t \notin Committed
      /\ Committed' = Committed \cup {t}
      /\ pair[t] \in Pairs /\ winner[t] \in Winners(pair[t])
      /\ rows' = [p \in Players |->
                     IF p \in Members(pair[t])
                         THEN After(rows[p], p, pair[t], winner[t]) ELSE rows[p]]
  BY CommitHistory
<1>2. /\ stage[t] = "closing" /\ stage' = [stage EXCEPT ![t] = "committed"]
      /\ pending' = [pending EXCEPT ![t] = NoRows]
      /\ pair' = pair /\ winner' = winner
      /\ Locked(t) = Members(pair[t])
  BY DEF Commits, Holds
<1>3. \A s \in Tasks : s # t => pending'[s] = pending[s] /\ Locked(s)' = Locked(s) /\ stage'[s] = stage[s]
  BY <1>2 DEF Locked, ResultsTypeOK
<1>4. pending'[t] = NoRows /\ Locked(t)' = {} /\ stage'[t] = "committed"
  BY <1>2 DEF Locked, NoRows, ResultsTypeOK
<1>5. rows \in [Players -> Row]
  BY DEF ResultsTypeOK
<1>6. \A p \in Players : rows'[p] = IF p \in Members(pair[t])
                              THEN After(rows[p], p, pair[t], winner[t]) ELSE rows[p]
  BY <1>1
<1>7. \A p \in Players : rows'[p] \in Row
  BY <1>1, <1>5, <1>6, AfterIsRow
<1>8. rows' \in [Players -> Row]
  BY <1>1, <1>7
<1>9. ResultsTypeOK'
  <2>1. stage' \in [Tasks -> Stages] /\ DOMAIN pending' = Tasks
    BY <1>2 DEF ResultsTypeOK, Stages
  <2>2. pending'[t] \in [Locked(t)' -> Row] /\ Locked(t)' \subseteq Players
    BY <1>4 DEF NoRows
  <2> QED BY <2>1, <2>2, <1>2, <1>3, <1>4, <1>8 DEF ResultsTypeOK
<1>10. Holds'
  BY <1>2, <1>3, <1>4 DEF Holds
<1>11. OnTop'
  <2>1. \A s \in Tasks : s # t => \A p \in Locked(s) : p \in Players /\ rows'[p] = rows[p]
    BY <1>2, <1>6 DEF Exclusive, ResultsTypeOK
  <2> QED BY <2>1, <1>2, <1>3, <1>4 DEF OnTop
<1>12. Exclusive'
  BY <1>3, <1>4 DEF Exclusive
<1>13. CountersMatchHistory'
  <2>. SUFFICES ASSUME NEW p \in Players
       PROVE  /\ rows'[p].won = Cardinality(ResultsOf(p, "win")')
              /\ rows'[p].lost = Cardinality(ResultsOf(p, "loss")')
              /\ rows'[p].drawn = Cardinality(ResultsOf(p, "draw")')
              /\ rows'[p].played = rows'[p].won + rows'[p].lost + rows'[p].drawn
    BY DEF CountersMatchHistory
  <2>1. \A o \in Outcomes :
           ResultsOf(p, o)' = IF p \in Members(pair[t]) /\ Outcome(p, winner[t]) = o
                                  THEN ResultsOf(p, o) \cup {t} ELSE ResultsOf(p, o)
    BY <1>1, <1>2 DEF ResultsOf
  <2>2. \A o \in Outcomes : t \notin ResultsOf(p, o) /\ IsFiniteSet(ResultsOf(p, o))
    <3>1. \A o \in Outcomes : ResultsOf(p, o) \in SUBSET Tasks
      BY DEF ResultsOf, Committed
    <3> QED BY <3>1, <1>1, FS_Subset, ResultsAssumption DEF ResultsOf
  <2>3. \A o \in Outcomes :
           Cardinality(ResultsOf(p, o)') =
               IF p \in Members(pair[t]) /\ Outcome(p, winner[t]) = o
                   THEN Cardinality(ResultsOf(p, o)) + 1 ELSE Cardinality(ResultsOf(p, o))
    BY <2>1, <2>2, FS_AddElement
  <2>4. rows[p] \in Row
    BY <1>5
  <2>5. /\ rows[p].won = Cardinality(ResultsOf(p, "win"))
        /\ rows[p].lost = Cardinality(ResultsOf(p, "loss"))
        /\ rows[p].drawn = Cardinality(ResultsOf(p, "draw"))
        /\ rows[p].played = rows[p].won + rows[p].lost + rows[p].drawn
    BY DEF CountersMatchHistory
  <2>6. CASE p \notin Members(pair[t])
    BY <2>6, <2>3, <2>5, <1>6 DEF Outcomes
  <2>7. CASE p \in Members(pair[t])
    <3>1. rows'[p] = After(rows[p], p, pair[t], winner[t])
      BY <2>7, <1>6
    <3>2. Outcome(p, winner[t]) \in Outcomes
      BY DEF Outcome, Outcomes
    <3>3. /\ rows'[p].played = rows[p].played + 1
          /\ rows'[p].won = rows[p].won + One(Outcome(p, winner[t]) = "win")
          /\ rows'[p].lost = rows[p].lost + One(Outcome(p, winner[t]) = "loss")
          /\ rows'[p].drawn = rows[p].drawn + One(Outcome(p, winner[t]) = "draw")
      BY <3>1 DEF After
    <3>4. \A o \in Outcomes : Cardinality(ResultsOf(p, o)') =
              IF Outcome(p, winner[t]) = o THEN Cardinality(ResultsOf(p, o)) + 1
                                           ELSE Cardinality(ResultsOf(p, o))
      BY <2>3, <2>7
    <3>5. /\ rows[p].won \in Nat /\ rows[p].lost \in Nat /\ rows[p].drawn \in Nat /\ rows[p].played \in Nat
      BY <2>4 DEF Row
    <3> HIDE DEF RInv
    <3>6. CASE Outcome(p, winner[t]) = "win"
      BY <3>3, <3>4, <3>5, <3>6, <2>5 DEF One, Outcomes
    <3>7. CASE Outcome(p, winner[t]) = "loss"
      BY <3>3, <3>4, <3>5, <3>7, <2>5 DEF One, Outcomes
    <3>8. CASE Outcome(p, winner[t]) = "draw"
      BY <3>3, <3>4, <3>5, <3>8, <2>5 DEF One, Outcomes
    <3> QED BY <3>2, <3>6, <3>7, <3>8 DEF Outcomes
  <2> QED BY <2>6, <2>7
<1> QED BY <1>9, <1>10, <1>11, <1>12, <1>13

LEMMA ResultsNextInv == RInv /\ [ResultsNext]_results => RInv'
<1>. SUFFICES ASSUME RInv, [ResultsNext]_results PROVE RInv'
  OBVIOUS
<1>. USE DEF RInv
<1>1. ASSUME NEW t \in Tasks, NEW x \in Pairs, NEW w \in Winners(x), Launch(t, x, w)
      PROVE  RInv'
  <2>1. /\ stage[t] = "idle" /\ stage' = [stage EXCEPT ![t] = "first"]
        /\ pair' = [pair EXCEPT ![t] = x] /\ winner' = [winner EXCEPT ![t] = w]
        /\ rows' = rows /\ pending' = pending
    BY <1>1 DEF Launch
  <2>2. \A s \in Tasks : Locked(s)' = Locked(s)
    BY <2>1 DEF Locked
  <2>3. Locked(t) = {}
    BY <2>1 DEF Holds
  <2>4. \A s \in Tasks : s # t => stage'[s] = stage[s] /\ pair'[s] = pair[s] /\ winner'[s] = winner[s]
    BY <2>1 DEF ResultsTypeOK
  <2>5. stage'[t] = "first" /\ pair'[t] = x /\ winner'[t] = w
    BY <2>1 DEF ResultsTypeOK
  <2>6. ResultsTypeOK'
    BY <2>1, <2>2, <2>4, <2>5 DEF ResultsTypeOK, Stages
  <2>7. Holds'
    BY <2>2, <2>3, <2>4, <2>5 DEF Holds
  <2>8. OnTop' /\ Exclusive'
    BY <2>1, <2>2, <2>3, <2>4 DEF OnTop, Exclusive
  <2>9. Committed' = Committed /\ t \notin Committed
    BY <2>1, <2>4, <2>5 DEF Committed
  <2>10. CountersMatchHistory'
    BY <2>1, <2>4, <2>9, SameHistory DEF Committed
  <2> QED BY <2>6, <2>7, <2>8, <2>10
<1>2. ASSUME NEW t \in Tasks, UpdatesPlayer(t) PROVE RInv'
  BY <1>2, UpdateKeeps
<1>3. ASSUME NEW t \in Tasks, Commits(t) PROVE RInv'
  BY <1>3, CommitKeeps
<1>4. ASSUME NEW t \in Tasks, RollsBack(t) PROVE RInv'
  <2>1. /\ stage[t] \in {"first", "second", "closing"} /\ stage' = [stage EXCEPT ![t] = "failed"]
        /\ pending' = [pending EXCEPT ![t] = NoRows]
        /\ rows' = rows /\ pair' = pair /\ winner' = winner
    BY <1>4 DEF RollsBack
  <2>2. \A s \in Tasks : s # t => stage'[s] = stage[s] /\ pending'[s] = pending[s] /\ Locked(s)' = Locked(s)
    BY <2>1 DEF ResultsTypeOK, Locked
  <2>3. stage'[t] = "failed" /\ pending'[t] = NoRows /\ Locked(t)' = {}
    BY <2>1 DEF ResultsTypeOK, Locked, NoRows
  <2>4. ResultsTypeOK'
    <3>1. pending'[t] \in [Locked(t)' -> Row]
      BY <2>3 DEF NoRows
    <3> QED BY <3>1, <2>1, <2>2, <2>3 DEF ResultsTypeOK, Stages
  <2>5. Holds'
    BY <2>1, <2>2, <2>3 DEF Holds
  <2>6. OnTop' /\ Exclusive'
    BY <2>1, <2>2, <2>3 DEF OnTop, Exclusive
  <2>7. Committed' = Committed
    BY <2>1, <2>2, <2>3 DEF Committed
  <2>8. CountersMatchHistory'
    BY <2>1, <2>7, SameHistory
  <2> QED BY <2>4, <2>5, <2>6, <2>8
<1>5. ASSUME UNCHANGED results PROVE RInv'
  <2>1. Committed' = Committed /\ \A s \in Tasks : Locked(s)' = Locked(s)
    BY <1>5 DEF results, Committed, Locked
  <2>2. CountersMatchHistory'
    BY <1>5, <2>1, SameHistory DEF results
  <2> QED BY <1>5, <2>1, <2>2 DEF results, ResultsTypeOK, Holds, OnTop, Exclusive
<1> QED BY <1>1, <1>2, <1>3, <1>4, <1>5 DEF ResultsNext, Proceeds

THEOREM ResultsInvariance == ResultsSpec => []RInv
<1> QED BY ResultsInitInv, ResultsNextInv, PTL DEF ResultsSpec

----------------------------------------------------------------------------
(* No deadlock among transactions.                                         *)

\* The rows are a strict order of the players.
LEMMA BeforeIsStrict ==
    ASSUME NEW p \in Players, NEW q \in Players
    PROVE  ~(Before(p, q) /\ Before(q, p))
<1>1. p \in Nat /\ q \in Nat /\ Elo[p] \in Nat /\ Elo[q] \in Nat
  BY RatingAssumption
<1> QED BY <1>1 DEF Before

\* Whoever waits for a transaction that itself waits, waits for a row before
\* the one that transaction waits for: so no circle of waiting transactions
\* of any length exists.
THEOREM WaitsGoUp ==
    ASSUME RInv, NEW s \in Tasks, NEW t \in Tasks, WaitsFor(s, t), Blocked(t)
    PROVE  Before(Turn(s), Turn(t))
<1>1. Updating(t) /\ Turn(s) \in Locked(t)
  BY DEF WaitsFor, Blocked
<1>2. stage[t] = "second" /\ Turn(s) = pair[t][1]
  BY <1>1 DEF RInv, Holds, Updating
<1>3. pair[t] \in Pairs /\ Turn(t) = pair[t][2]
  BY <1>2 DEF RInv, ResultsTypeOK, Turn, Order
<1> QED BY <1>2, <1>3 DEF Pairs

LEMMA NoCycle == RInv => NoWaitCycle
<1>. SUFFICES ASSUME RInv, NEW s \in Tasks, NEW t \in Tasks, WaitsFor(s, t), WaitsFor(t, s)
              PROVE  FALSE
  BY DEF NoWaitCycle
<1>1. Before(Turn(s), Turn(t)) /\ Before(Turn(t), Turn(s))
  BY WaitsGoUp DEF Blocked
<1>2. Turn(s) \in Players /\ Turn(t) \in Players
  BY DEF RInv, ResultsTypeOK, WaitsFor
<1> QED BY <1>1, <1>2, BeforeIsStrict

\* A set of naturals that is not empty has a least element.
LEMMA LeastNat ==
    ASSUME NEW T \in SUBSET Nat, T # {}
    PROVE  \E m \in T : \A n \in T : m <= n
<1>1. PICK m \in T : \A n \in T : ~(<<n, m>> \in OpToRel(<, Nat))
  BY NatLessThanWellFounded, WFMin, Zenon
<1>2. \A n \in T : ~(n < m)
  BY <1>1 DEF OpToRel
<1> QED BY <1>2

\* Of finitely many places in the order of the rows one is last: a smallest
\* set without a last one would stay without when it loses an element.
LEMMA OneIsLast ==
    ASSUME NEW f, NEW S, IsFiniteSet(S), S # {}, \A s \in S : f[s] \in Players
    PROVE  \E t \in S : \A s \in S : ~Before(f[t], f[s])
<1>. DEFINE NoLast(U) == U # {} /\ \A t \in U : \E s \in U : Before(f[t], f[s])
           Sizes == {n \in Nat : \E U \in SUBSET S : NoLast(U) /\ Cardinality(U) = n}
<1>0. \A s \in S : f[s] \in Nat /\ Elo[f[s]] \in Nat
  BY RatingAssumption
<1>1. SUFFICES ASSUME Sizes # {} PROVE FALSE
  <2>1. Cardinality(S) \in Nat
    BY FS_CardinalityType
  <2>2. ~NoLast(S)
    BY <1>1, <2>1
  <2> QED BY <2>2
<1>2. PICK n \in Sizes : \A m \in Sizes : n <= m
  BY <1>1, LeastNat
<1>3. PICK U \in SUBSET S : NoLast(U) /\ Cardinality(U) = n
  BY <1>2
<1>4. PICK x \in U : TRUE
  BY <1>3
<1>. DEFINE V == U \ {x}
<1>5. IsFiniteSet(U) /\ Cardinality(V) = n - 1 /\ Cardinality(V) \in Nat
  <2>1. IsFiniteSet(U)
    BY FS_Subset
  <2> QED BY <1>3, <1>4, <2>1, FS_RemoveElement, FS_CardinalityType
<1>6. ~NoLast(V)
  <2>1. Cardinality(V) \notin Sizes
    BY <1>2, <1>5
  <2> QED BY <1>5, <2>1
<1>7. \A s \in U : ~Before(f[s], f[s])
  BY <1>0 DEF Before
<1>8. V # {}
  BY <1>3, <1>4, <1>7
<1>9. PICK m \in V : \A s \in V : ~Before(f[m], f[s])
  BY <1>6, <1>8
<1>10. Before(f[m], f[x])
  BY <1>3, <1>9
<1>11. PICK s \in U : Before(f[x], f[s])
  BY <1>3, <1>4
<1>12. Before(f[m], f[s])
  BY <1>0, <1>4, <1>10, <1>11 DEF Before
<1> QED BY <1>7, <1>9, <1>11, <1>12

\* Can the next statement of the transaction be executed?
GoesOn(t) == stage[t] \in {"first", "second", "closing"} /\ ~Blocked(t)

\* While any transaction waits for a row, some transaction does not wait: no
\* circle of any length blocks the database.
SomebodyCommits == \A t \in Tasks : Blocked(t) => \E s \in Tasks : GoesOn(s)

LEMMA NoCircle == RInv => SomebodyCommits
<1>. SUFFICES ASSUME RInv, NEW b \in Tasks, Blocked(b)
              PROVE  \E s \in Tasks : GoesOn(s)
  BY DEF SomebodyCommits
<1>. DEFINE S == {t \in Tasks : Blocked(t)}
           f == [t \in Tasks |-> Turn(t)]
<1>1. \A t \in S : f[t] \in Players
  BY DEF Blocked, WaitsFor, RInv, ResultsTypeOK
<1>2. IsFiniteSet(S)
  BY ResultsAssumption, FS_Subset
<1>3. PICK t \in S : \A s \in S : ~Before(f[t], f[s])
  <2>. HIDE DEF S, f
  <2>1. S # {}
    BY DEF S
  <2> QED BY <1>1, <1>2, <2>1, OneIsLast
<1>4. PICK s \in Tasks : WaitsFor(t, s)
  BY <1>3 DEF Blocked
<1>5. ~Blocked(s)
  BY <1>3, <1>4, WaitsGoUp
<1>6. stage[s] \in {"second", "closing"}
  BY <1>4 DEF WaitsFor, RInv, Holds
<1> QED BY <1>5, <1>6 DEF GoesOn

----------------------------------------------------------------------------
(* The transactions implement the abstract ledger.                         *)

LEMMA LedgerInit == ResultsInit => L!Init
<1>. SUFFICES ASSUME ResultsInit PROVE L!Init
  OBVIOUS
<1>1. Committed = {}
  BY DEF ResultsInit, Committed
<1> QED BY <1>1 DEF ResultsInit, L!Init, NewRow, L!NewRow

LEMMA LedgerStep ==
    ASSUME RInv, [ResultsNext]_results
    PROVE  [L!Next]_<<rows, [t \in Committed |-> Match(t)]>>
<1> DEFINE recorded == [t \in Committed |-> Match(t)]
<1>1. ASSUME NEW t \in Tasks, Commits(t) PROVE L!Next
  <2>1. /\ t \notin Committed
        /\ Committed' = Committed \cup {t}
        /\ pair[t] \in Pairs /\ winner[t] \in Winners(pair[t])
        /\ rows' = [p \in Players |->
                       IF p \in Members(pair[t])
                           THEN After(rows[p], p, pair[t], winner[t]) ELSE rows[p]]
    BY <1>1, CommitHistory
  <2>2. pair' = pair /\ winner' = winner
    BY <1>1 DEF Commits
  <2>3. recorded' = [s \in Committed \cup {t} |->
            IF s = t THEN [pair |-> pair[t], winner |-> winner[t]] ELSE recorded[s]]
    BY <2>1, <2>2 DEF Match
  <2>4. L!Record(t, pair[t], winner[t])
    BY <2>1, <2>3 DEF L!Record, L!Members, Members, L!After, After, L!Delta, Delta,
        L!Outcome, Outcome, L!Opponent, Opponent, L!One, One
  <2>5. pair[t] \in L!Pairs /\ winner[t] \in L!Winners(pair[t])
    BY <2>1 DEF L!Pairs, Pairs, L!Before, Before, L!Winners, Winners, L!Members, Members
  <2>6. t \in DOMAIN recorded'
    BY <2>1
  <2> QED BY <2>4, <2>5, <2>6 DEF L!Next
<1>2. ASSUME UNCHANGED rows, Committed' = Committed,
             \A s \in Committed : pair'[s] = pair[s] /\ winner'[s] = winner[s]
      PROVE  UNCHANGED <<rows, recorded>>
  BY <1>2 DEF Match
<1>3. ASSUME NEW t \in Tasks, NEW x \in Pairs, NEW w \in Winners(x), Launch(t, x, w)
      PROVE  UNCHANGED <<rows, recorded>>
  BY <1>2, <1>3 DEF Launch, Committed, RInv, ResultsTypeOK
<1>4. ASSUME NEW t \in Tasks, UpdatesPlayer(t) PROVE UNCHANGED <<rows, recorded>>
  BY <1>2, <1>4 DEF UpdatesPlayer, Updating, Committed, RInv, ResultsTypeOK
<1>5. ASSUME NEW t \in Tasks, RollsBack(t) PROVE UNCHANGED <<rows, recorded>>
  BY <1>2, <1>5 DEF RollsBack, Committed, RInv, ResultsTypeOK
<1>6. ASSUME UNCHANGED results PROVE UNCHANGED <<rows, recorded>>
  BY <1>2, <1>6 DEF results, Committed
<1> QED BY <1>1, <1>3, <1>4, <1>5, <1>6 DEF ResultsNext, Proceeds

----------------------------------------------------------------------------
(* The games that start those tasks.                                       *)

\* How the game-over sequences, the verdicts and the records go together.
Sequenced ==
    /\ \A g \in inGames : Exists(g)
    /\ \A g \in Games : Unfinished(g) => g \in inGames
    /\ \A g \in Games : verdict[g] # "none" =>
          Exists(g) /\ joined[g] = 2 /\ won[g] \in Winners(seats[g])
    /\ \A g \in Games, k \in OverTasks : over[<<g, k>>] # "idle" => verdict[g] # "none"
    /\ \A g \in Games, k \in OverTasks :
          stage[<<g, k>>] # "idle" => over[<<g, k>>] \in {"saving", "sleeping", "done"}
    /\ RecordsAgree

GInv == RInv /\ TypeOK /\ Sequenced

LEMMA GInit == Init => GInv
<1>. SUFFICES ASSUME Init PROVE GInv
  OBVIOUS
<1>1. RInv
  BY ResultsInitInv DEF Init
<1>2. TypeOK
  BY <1>1 DEF Init, TypeOK, RInv, OverStages
<1>3. Sequenced
  <2>1. \A g \in Games, k \in OverTasks : over[<<g, k>>] = "idle"
    BY AfterGameAssumption DEF Init
  <2>2. \A t \in Tasks : stage[t] = "idle"
    BY DEF Init, ResultsInit
  <2>3. \A g \in Games, k \in OverTasks : stage[<<g, k>>] = "idle"
    BY <2>2, AfterGameAssumption
  <2> QED BY <2>1, <2>2, <2>3 DEF Init, Sequenced, Exists, Unfinished, RecordsAgree
<1> QED BY <1>1, <1>2, <1>3 DEF GInv

\* Steps of the games start a result or leave the tables alone.
LEMMA StepIsResults == GInv /\ [Next]_vars => [ResultsNext]_results
<1>. SUFFICES ASSUME GInv, [Next]_vars PROVE [ResultsNext]_results
  OBVIOUS
<1>1. ASSUME NEW g \in Games, NEW k \in OverTasks, Ends(g, k) PROVE ResultsNext
  <2>1. <<g, k>> \in Tasks
    BY AfterGameAssumption
  <2>2. Launch(<<g, k>>, seats[g], won[g])
    BY <1>1 DEF Ends
  <2>3. verdict[g] # "none"
    BY <1>1 DEF Ends, GInv, Sequenced
  <2>4. seats[g] \in Pairs /\ won[g] \in Winners(seats[g])
    BY <2>3 DEF GInv, Sequenced, TypeOK, Exists
  <2> QED BY <2>1, <2>2, <2>4 DEF ResultsNext
<1> QED BY <1>1 DEF Next, System, GameOver, Persists, results, vars, Starts, SetsUpSeat,
            FinishesOnBoard, Forfeits, CleansUp, DeletesKeys, Raises, ResultsNext, Proceeds

\* The steps of transactions: what they do not do.
LEMMA PersistKeeps ==
    ASSUME GInv, NEW t \in Tasks, Proceeds(t) \/ RollsBack(t), UNCHANGED rooms
    PROVE  Sequenced'
<1>1. /\ pair' = pair /\ winner' = winner
      /\ \A s \in Tasks : stage'[s] # "idle" => stage[s] # "idle"
  BY DEF Proceeds, UpdatesPlayer, Updating, Commits, RollsBack, GInv, RInv, ResultsTypeOK
<1>2. \A g \in Games, k \in OverTasks : <<g, k>> \in Tasks
  BY AfterGameAssumption
<1> QED BY <1>1, <1>2 DEF GInv, Sequenced, rooms, Exists, Unfinished, RecordsAgree

LEMMA GNext == GInv /\ [Next]_vars => GInv'
<1>. SUFFICES ASSUME GInv, [Next]_vars PROVE GInv'
  OBVIOUS
<1>1. RInv'
  BY StepIsResults, ResultsNextInv DEF GInv
<1>2. ResultsTypeOK'
  BY <1>1 DEF RInv
<1>3. \A g \in Games, k \in OverTasks : <<g, k>> \in Tasks
  BY AfterGameAssumption
<1>4. \A t \in Tasks : t[1] \in Games /\ t[2] \in OverTasks /\ t = <<t[1], t[2]>>
  BY AfterGameAssumption
<1>. USE DEF GInv
<1>5. ASSUME NEW g \in Games, NEW x \in Pairs, Starts(g, x) PROVE TypeOK' /\ Sequenced'
  <2>1. TypeOK'
    BY <1>5, <1>2 DEF Starts, TypeOK
  <2>2. seats'[g] = x /\ x # <<>> /\ \A h \in Games : h # g => seats'[h] = seats[h]
    BY <1>5 DEF Starts, TypeOK, Pairs
  <2>3. verdict[g] = "none" /\ \A t \in Tasks : stage[t] # "idle" => t[1] # g
    BY <1>3, <1>4, <1>5 DEF Starts, Unused, Sequenced
  <2>4. RecordsAgree'
    BY <1>4, <1>5, <2>2, <2>3 DEF Starts, RecordsAgree, Sequenced, results
  <2> QED BY <1>5, <2>1, <2>2, <2>3, <2>4 DEF Starts, Sequenced, Exists, Unfinished, results, TypeOK
<1>6. ASSUME NEW g \in Games, SetsUpSeat(g) PROVE TypeOK' /\ Sequenced'
  <2>1. joined[g] \in {0, 1} /\ joined' = [joined EXCEPT ![g] = joined[g] + 1]
    BY <1>6 DEF SetsUpSeat, TypeOK
  <2>2. joined' \in [Games -> 0..2] /\ joined'[g] \in {1, 2}
    BY <2>1 DEF TypeOK
  <2>3. seats[g] \in Pairs
    BY <1>6 DEF SetsUpSeat, Exists, TypeOK
  <2>4. seats[g][joined'[g]] \in Players
    BY <2>2, <2>3 DEF Pairs
  <2>5. TypeOK'
    BY <1>2, <1>6, <2>2, <2>4 DEF SetsUpSeat, TypeOK
  <2> QED BY <1>6, <2>1, <2>5 DEF SetsUpSeat, Sequenced, Exists, Unfinished, RecordsAgree, results, TypeOK
<1>7. ASSUME NEW g \in Games, NEW k \in OverTasks, NEW w \in Winners(seats[g]), NEW v \in {"board", "forfeit"},
             Exists(g), joined[g] = 2, over[<<g, k>>] = "idle", g \in inGames,
             verdict[g] = "none" \/ won[g] = w,
             verdict' = [verdict EXCEPT ![g] = v],
             won' = [won EXCEPT ![g] = w],
             over' = [over EXCEPT ![<<g, k>>] = "notifying"],
             UNCHANGED <<inGames, seats, joined, roomOf, results>>
      PROVE  TypeOK' /\ Sequenced'
  <2>1. w \in Players \cup {NoPlayer}
    BY <1>7 DEF Winners, Members, TypeOK, Exists, Pairs
  <2>2. TypeOK'
    BY <1>2, <1>3, <1>7, <2>1 DEF TypeOK, OverStages
  <2>3. /\ verdict'[g] = v /\ won'[g] = w /\ over'[<<g, k>>] = "notifying"
        /\ \A h \in Games : h # g => verdict'[h] = verdict[h] /\ won'[h] = won[h]
        /\ \A h \in Games, j \in OverTasks : <<h, j>> # <<g, k>> => over'[<<h, j>>] = over[<<h, j>>]
    BY <1>3, <1>7 DEF TypeOK
  <2>4. \A t \in Tasks : stage[t] # "idle" => won'[t[1]] = won[t[1]]
    <3>1. SUFFICES ASSUME NEW t \in Tasks, stage[t] # "idle", t[1] = g PROVE won'[g] = won[g]
      BY <1>4, <2>3
    <3>2. over[<<t[1], t[2]>>] # "idle"
      BY <1>4, <3>1 DEF Sequenced
    <3>3. verdict[g] # "none"
      BY <1>4, <3>1, <3>2 DEF Sequenced
    <3> QED BY <3>3, <1>7, <2>3
  <2>5. RecordsAgree'
    BY <1>7, <2>4 DEF Sequenced, RecordsAgree, results
  <2> QED BY <1>7, <2>2, <2>3, <2>5 DEF Sequenced, Exists, Unfinished, results
<1>8. ASSUME NEW g \in Games, NEW p \in Players, FinishesOnBoard(g, p) PROVE TypeOK' /\ Sequenced'
  <2>1. PICK w \in Winners(seats[g]) : won' = [won EXCEPT ![g] = w]
    BY <1>8 DEF FinishesOnBoard
  <2>2. 1 \in OverTasks /\ over[<<g, 1>>] = "idle" /\ g \in inGames
    BY <1>8 DEF OverTasks, FinishesOnBoard, Running, Sequenced, Unfinished
  <2> QED BY <1>7, <1>8, <2>1, <2>2 DEF FinishesOnBoard, Running
<1>9. ASSUME NEW g \in Games, NEW p \in Players, NEW k \in OverTasks, Forfeits(g, p, k)
      PROVE  TypeOK' /\ Sequenced'
  <2>1. Opponent(p, seats[g]) \in Winners(seats[g])
    BY <1>9 DEF Winners, Members, Opponent
  <2>2. Exists(g) /\ joined[g] = 2 /\ (verdict[g] = "none" \/ won[g] = Opponent(p, seats[g]))
    BY <1>9 DEF Forfeits, Running, Sequenced
  <2> QED BY <1>7, <1>9, <2>1, <2>2 DEF Forfeits
<1>10. ASSUME NEW g \in Games, NEW k \in OverTasks, Ends(g, k) PROVE TypeOK' /\ Sequenced'
  <2>1. /\ stage[<<g, k>>] = "idle"
        /\ stage' = [stage EXCEPT ![<<g, k>>] = "first"]
        /\ pair' = [pair EXCEPT ![<<g, k>>] = seats[g]]
        /\ winner' = [winner EXCEPT ![<<g, k>>] = won[g]]
    BY <1>10 DEF Ends, Launch
  <2>2. over'[<<g, k>>] = "saving" /\ over' \in [Tasks -> OverStages]
    BY <1>3, <1>10 DEF Ends, TypeOK, OverStages
  <2>3. \A h \in Games, j \in OverTasks : <<h, j>> # <<g, k>> =>
            over'[<<h, j>>] = over[<<h, j>>] /\ stage'[<<h, j>>] = stage[<<h, j>>]
    BY <1>3, <1>10, <2>1 DEF Ends, TypeOK, RInv, ResultsTypeOK
  <2>4. TypeOK'
    BY <1>2, <1>10, <2>2 DEF Ends, TypeOK
  <2>5. RecordsAgree'
    <3>1. \A t \in Tasks : t # <<g, k>> => stage'[t] = stage[t] /\ pair'[t] = pair[t] /\ winner'[t] = winner[t]
      BY <2>1 DEF RInv, ResultsTypeOK
    <3>2. pair'[<<g, k>>] = seats[g] /\ winner'[<<g, k>>] = won[g]
      BY <1>3, <2>1 DEF RInv, ResultsTypeOK
    <3> QED BY <3>1, <3>2, <1>10 DEF Ends, RecordsAgree, Sequenced
  <2>6. verdict[g] # "none"
    BY <1>10 DEF Ends, Sequenced
  <2> QED BY <1>10, <2>2, <2>3, <2>4, <2>5, <2>6 DEF Ends, Sequenced, Exists, Unfinished
<1>11. ASSUME NEW g \in Games, NEW k \in OverTasks, DeletesKeys(g, k) PROVE TypeOK' /\ Sequenced'
  <2>1. /\ over'[<<g, k>>] = "done" /\ over[<<g, k>>] = "sleeping" /\ over' \in [Tasks -> OverStages]
        /\ \A h \in Games, j \in OverTasks : <<h, j>> # <<g, k>> => over'[<<h, j>>] = over[<<h, j>>]
    BY <1>3, <1>11 DEF DeletesKeys, TypeOK, OverStages
  <2> QED BY <1>2, <1>11, <2>1 DEF DeletesKeys, TypeOK, Sequenced, Exists, Unfinished, RecordsAgree, results
<1>14. ASSUME NEW g \in Games, NEW k \in OverTasks, CleansUp(g, k) PROVE TypeOK' /\ Sequenced'
  <2>1. /\ over'[<<g, k>>] \in {"sleeping", "done"} /\ over[<<g, k>>] = "saving"
        /\ over' \in [Tasks -> OverStages]
        /\ \A h \in Games, j \in OverTasks : <<h, j>> # <<g, k>> => over'[<<h, j>>] = over[<<h, j>>]
    BY <1>3, <1>14 DEF CleansUp, TypeOK, OverStages
  <2>2. verdict[g] # "none"
    BY <2>1 DEF Sequenced
  <2>3. TypeOK'
    BY <1>2, <1>14, <2>1 DEF CleansUp, TypeOK
  <2> QED BY <1>14, <2>1, <2>2, <2>3 DEF CleansUp, Sequenced, Exists, Unfinished, RecordsAgree, results
<1>15. ASSUME NEW g \in Games, NEW k \in OverTasks, Raises(g, k) PROVE TypeOK' /\ Sequenced'
  <2>1. /\ over'[<<g, k>>] = "done" /\ over[<<g, k>>] # "idle" /\ over' \in [Tasks -> OverStages]
        /\ \A h \in Games, j \in OverTasks : <<h, j>> # <<g, k>> => over'[<<h, j>>] = over[<<h, j>>]
    BY <1>3, <1>15 DEF Raises, TypeOK, OverStages
  <2> QED BY <1>2, <1>15, <2>1 DEF Raises, TypeOK, Sequenced, Exists, Unfinished, RecordsAgree, results
<1>12. ASSUME NEW t \in Tasks, Proceeds(t) \/ RollsBack(t), UNCHANGED rooms PROVE TypeOK' /\ Sequenced'
  BY <1>2, <1>12, PersistKeeps DEF TypeOK, rooms
<1>13. ASSUME UNCHANGED vars PROVE TypeOK' /\ Sequenced'
  BY <1>2, <1>13 DEF vars, rooms, results, TypeOK, Sequenced, Exists, Unfinished, RecordsAgree
<1>16. \A g \in Games : 1..Timers[g] \subseteq OverTasks
  BY AfterGameAssumption DEF OverTasks
<1> QED BY <1>1, <1>5, <1>6, <1>8, <1>9, <1>10, <1>11, <1>12, <1>13, <1>14, <1>15, <1>16,
           AfterGameAssumption
    DEF Next, System, GameOver, Persists

THEOREM GInvariance == Spec => []GInv
<1> QED BY GInit, GNext, PTL DEF Spec

\* The types.
THEOREM TypeCorrect == Spec => []TypeOK
<1> QED BY GInvariance, PTL DEF GInv

\* Every record of a game agrees with the engine's verdict.
THEOREM RecordsAlwaysAgree == Spec => []RecordsAgree
<1>1. GInv => RecordsAgree
  BY DEF GInv, Sequenced
<1> QED BY <1>1, GInvariance, PTL

\* The counters of every player equal the history.
THEOREM CountersAlwaysMatch == Spec => []CountersMatchHistory
<1>1. GInv => CountersMatchHistory
  BY DEF GInv, RInv
<1> QED BY <1>1, GInvariance, PTL

\* No two results wait for each other.
THEOREM NeverWaitInCircle == Spec => []NoWaitCycle
<1>1. GInv => NoWaitCycle
  BY NoCycle DEF GInv
<1> QED BY <1>1, GInvariance, PTL

\* Whatever results are being recorded, of however many players, a transaction
\* that waits always leaves another one that can go on.
THEOREM SomebodyAlwaysCommits == Spec => []SomebodyCommits
<1>1. GInv => SomebodyCommits
  BY NoCircle DEF GInv
<1> QED BY <1>1, GInvariance, PTL

\* The tables change as if results were recorded one at a time.
THEOREM ImplementsLedger == Spec => ResultsAreAtomic
<1>1. Init => L!Init
  BY LedgerInit DEF Init
<1>2. GInv /\ [Next]_vars => [L!Next]_<<rows, [t \in Committed |-> Match(t)]>>
  BY StepIsResults, LedgerStep DEF GInv
<1> QED BY <1>1, <1>2, GInvariance, PTL DEF Spec, ResultsAreAtomic, L!Spec
----------------------------------------------------------------------------
(* The keys by which moves are routed.                                     *)

\* Clean-up pops a game before it sleeps.
Popped ==
    /\ \A g \in Games, k \in OverTasks : over[<<g, k>>] = "sleeping" => g \notin inGames
    /\ \A g \in Games : Unused(g) => joined[g] = 0

\* Nobody plays two unfinished games.
Apart ==
    \A g, h \in Games : Unfinished(g) /\ Unfinished(h) /\ g # h =>
        Members(seats[g]) \cap Members(seats[h]) = {}

\* A finished game of p other than g has been popped by its clean-up.
PoppedBefore(g, p) ==
    \E h \in Games \ {g} : Has(h, p) /\ ~Unfinished(h) /\ h \notin inGames

OwnOrDeleted(g, p) == roomOf[p] = g \/ (roomOf[p] = NoRoom /\ PoppedBefore(g, p))

\* From the set-up of a seat on, its player's key names the game or is deleted.
Keyed ==
    \A g \in Games : Unfinished(g) =>
        /\ joined[g] \in {1, 2} => OwnOrDeleted(g, seats[g][1])
        /\ joined[g] = 2 => OwnOrDeleted(g, seats[g][2])

KInv == Popped /\ Apart /\ Keyed

LEMMA KInit == Init => KInv
<1>. SUFFICES ASSUME Init PROVE KInv
  OBVIOUS
<1>1. \A g \in Games, k \in OverTasks : over[<<g, k>>] = "idle"
  BY AfterGameAssumption DEF Init
<1> QED BY <1>1 DEF Init, KInv, Popped, Apart, Keyed, Unfinished, Exists, Unused

\* A pair has two different players.
LEMMA TwoSeats ==
    ASSUME TypeOK, NEW g \in Games, Exists(g)
    PROVE  /\ seats[g] \in Pairs
           /\ seats[g][1] \in Players /\ seats[g][2] \in Players /\ seats[g][1] # seats[g][2]
<1>1. seats[g] \in Pairs
  BY DEF TypeOK, Exists
<1>2. seats[g][1] \in Players /\ seats[g][2] \in Players /\ Before(seats[g][1], seats[g][2])
  BY <1>1 DEF Pairs
<1> QED BY <1>1, <1>2, BeforeIsStrict

\* Games that are over stay over, and no game comes back.
LEMMA StaysPopped ==
    ASSUME NEW g \in Games, NEW p \in Players, PoppedBefore(g, p),
           \A h \in Games : Exists(h) => /\ seats'[h] = seats[h]
                                         /\ verdict[h] # "none" => verdict'[h] # "none"
                                         /\ h \in inGames' => h \in inGames
    PROVE  PoppedBefore(g, p)'
BY DEF PoppedBefore, Has, Exists, Unfinished

\* Steps that end games, clean up or do neither.
LEMMA KeysStay ==
    ASSUME GInv, KInv, UNCHANGED <<seats, joined, roomOf>>, inGames' \subseteq inGames,
           \A h \in Games : verdict[h] # "none" => verdict'[h] # "none",
           \A g \in Games, k \in OverTasks :
               over'[<<g, k>>] = "sleeping" => over[<<g, k>>] = "sleeping" \/ g \notin inGames'
    PROVE  KInv'
<1>. USE DEF GInv, KInv
<1>1. Popped'
  BY DEF Popped, Unused, Exists
<1>2. \A g \in Games : Unfinished(g)' => Unfinished(g) /\ Exists(g)
  BY DEF Unfinished, Exists
<1>3. Apart'
  BY <1>2 DEF Apart
<1>4. ASSUME NEW g \in Games, NEW p \in Players, OwnOrDeleted(g, p) PROVE OwnOrDeleted(g, p)'
  BY <1>4, StaysPopped DEF OwnOrDeleted
<1>5. Keyed'
  BY <1>2, <1>4, TwoSeats DEF Keyed
<1> QED BY <1>1, <1>3, <1>5

LEMMA KNext == GInv /\ KInv /\ [Next]_vars => KInv'
<1>. SUFFICES ASSUME GInv, KInv, [Next]_vars PROVE KInv'
  OBVIOUS
<1>. USE DEF GInv, KInv
<1>1. \A g \in Games, k \in OverTasks : <<g, k>> \in Tasks
  BY AfterGameAssumption
<1>2. ASSUME NEW g \in Games, NEW x \in Pairs, Starts(g, x) PROVE KInv'
  <2>1. \A h \in Games : h # g => seats'[h] = seats[h] /\ (Unfinished(h)' <=> Unfinished(h))
    BY <1>2 DEF Starts, TypeOK, Unfinished, Exists
  <2>2. seats'[g] = x /\ joined[g] = 0 /\ ~Exists(g) /\ Exists(g)'
    BY <1>2 DEF Starts, TypeOK, Unused, Exists, Popped, Pairs
  <2>3. Popped'
    <3>1. \A k \in OverTasks : over[<<g, k>>] = "idle"
      BY <2>2 DEF Sequenced
    <3> QED BY <1>2, <2>1, <2>2, <3>1 DEF Starts, Popped, Unused, Exists
  <2>4. Apart'
    <3>1. \A h \in Games, p \in Members(x) : Unfinished(h) => p \notin Members(seats[h])
      BY <1>2 DEF Starts, MaySearch, Has, Unfinished
    <3> QED BY <2>1, <2>2, <3>1 DEF Apart
  <2>5. ASSUME NEW h \in Games, NEW p \in Players, OwnOrDeleted(h, p) PROVE OwnOrDeleted(h, p)'
    <3>1. \A f \in Games : Exists(f) => /\ seats'[f] = seats[f]
                                        /\ verdict[f] # "none" => verdict'[f] # "none"
                                        /\ f \in inGames' => f \in inGames
      BY <1>2, <2>1, <2>2 DEF Starts
    <3>2. PoppedBefore(h, p) => PoppedBefore(h, p)'
      BY <3>1, StaysPopped
    <3> QED BY <1>2, <2>5, <3>2 DEF Starts, OwnOrDeleted
  <2>6. Keyed'
    BY <1>2, <2>1, <2>2, <2>5, TwoSeats DEF Keyed, Starts, Unfinished
  <2> QED BY <2>3, <2>4, <2>6
<1>3. ASSUME NEW g \in Games, SetsUpSeat(g) PROVE KInv'
  <2>1. joined[g] \in {0, 1} /\ joined'[g] = joined[g] + 1 /\ joined'[g] \in {1, 2}
        /\ \A h \in Games : h # g => joined'[h] = joined[h]
    BY <1>3 DEF SetsUpSeat, TypeOK
  <2>2. Exists(g) /\ Unfinished(g)
    BY <1>3, <2>1 DEF SetsUpSeat, Sequenced, Unfinished
  <2> DEFINE q == seats[g][joined'[g]]
  <2>3. q \in Players /\ q \in Members(seats[g]) /\ roomOf' = [roomOf EXCEPT ![q] = g]
    BY <1>3, <2>1, <2>2, TwoSeats DEF SetsUpSeat, Members
  <2>4. roomOf'[q] = g /\ \A p \in Players : p # q => roomOf'[p] = roomOf[p]
    BY <2>3 DEF TypeOK
  <2>5. \A h \in Games : h # g /\ Unfinished(h) => q \notin Members(seats[h])
    BY <2>2, <2>3 DEF Apart
  <2> HIDE DEF q
  <2>6. UNCHANGED <<seats, inGames, verdict, over>>
    BY <1>3 DEF SetsUpSeat
  <2>7. Popped' /\ Apart'
    BY <2>1, <2>2, <2>6 DEF Popped, Apart, Unused, Unfinished, Exists
  <2>8. ASSUME NEW h \in Games, NEW p \in Players, OwnOrDeleted(h, p), p # q
        PROVE  OwnOrDeleted(h, p)'
    BY <2>4, <2>6, <2>8, StaysPopped DEF OwnOrDeleted
  <2>9. Keyed'
    <3>1. ASSUME NEW h \in Games, Unfinished(h), NEW p \in Players,
                 \/ p = seats[h][1] /\ joined'[h] \in {1, 2}
                 \/ p = seats[h][2] /\ joined'[h] = 2
          PROVE  OwnOrDeleted(h, p)'
      <4>1. CASE h # g
        BY <2>1, <2>5, <2>8, <3>1, <4>1 DEF Keyed, Members
      <4>2. CASE h = g /\ p = q
        BY <2>4, <4>2 DEF OwnOrDeleted
      <4>3. CASE h = g /\ p # q
        <5>1. joined[g] = 1 /\ p = seats[g][1]
          BY <2>1, <3>1, <4>3 DEF q
        <5>2. OwnOrDeleted(g, p)
          BY <2>2, <5>1 DEF Keyed
        <5> QED BY <2>8, <4>3, <5>2
      <4> QED BY <4>1, <4>2, <4>3
    <3>2. \A h \in Games : Unfinished(h)' => Unfinished(h) /\ Exists(h)
      BY <2>6 DEF Unfinished, Exists
    <3> QED BY <2>6, <3>1, <3>2, TwoSeats DEF Keyed
  <2> QED BY <2>7, <2>9
<1>4. ASSUME NEW g \in Games, NEW k \in OverTasks, NEW v \in {"board", "forfeit"},
             verdict' = [verdict EXCEPT ![g] = v], over' = [over EXCEPT ![<<g, k>>] = "notifying"],
             UNCHANGED <<inGames, seats, joined, roomOf>>
      PROVE  KInv'
  <2>1. \A h \in Games : verdict[h] # "none" => verdict'[h] # "none"
    BY <1>4 DEF TypeOK
  <2>2. \A h \in Games, j \in OverTasks : over'[<<h, j>>] = "sleeping" => over[<<h, j>>] = "sleeping"
    BY <1>1, <1>4 DEF TypeOK
  <2> QED BY <1>4, <2>1, <2>2, KeysStay
<1>5. ASSUME NEW g \in Games, NEW p \in Players, FinishesOnBoard(g, p) PROVE KInv'
  BY <1>4, <1>5 DEF FinishesOnBoard, OverTasks
<1>6. ASSUME NEW g \in Games, NEW p \in Players, NEW k \in OverTasks, Forfeits(g, p, k) PROVE KInv'
  BY <1>4, <1>6 DEF Forfeits
<1>7. ASSUME NEW g \in Games, NEW k \in OverTasks, Ends(g, k) \/ Raises(g, k) \/ CleansUp(g, k)
      PROVE  KInv'
  <2>1. /\ UNCHANGED <<seats, joined, roomOf, verdict>> /\ inGames' \subseteq inGames
        /\ over'[<<g, k>>] = "sleeping" => g \notin inGames'
        /\ \A h \in Games, j \in OverTasks : <<h, j>> # <<g, k>> => over'[<<h, j>>] = over[<<h, j>>]
    BY <1>1, <1>7 DEF Ends, Raises, CleansUp, TypeOK
  <2>2. \A h \in Games, j \in OverTasks :
            over'[<<h, j>>] = "sleeping" => over[<<h, j>>] = "sleeping" \/ h \notin inGames'
    BY <2>1
  <2> QED BY <2>1, <2>2, KeysStay
<1>8. ASSUME NEW g \in Games, NEW k \in OverTasks, DeletesKeys(g, k) PROVE KInv'
  <2>1. /\ over[<<g, k>>] = "sleeping" /\ over'[<<g, k>>] = "done"
        /\ \A h \in Games, j \in OverTasks : <<h, j>> # <<g, k>> => over'[<<h, j>>] = over[<<h, j>>]
        /\ UNCHANGED <<inGames, seats, joined, verdict>>
        /\ roomOf' = [p \in Players |-> IF p \in Members(seats[g]) THEN NoRoom ELSE roomOf[p]]
    BY <1>1, <1>8 DEF DeletesKeys, TypeOK
  <2>2. g \notin inGames /\ Exists(g) /\ ~Unfinished(g)
    BY <2>1 DEF Popped, Sequenced, Unfinished
  <2>3. Popped' /\ Apart'
    BY <2>1 DEF Popped, Apart, Unused, Unfinished, Exists
  <2>4. ASSUME NEW h \in Games, Unfinished(h), NEW p \in Players, OwnOrDeleted(h, p)
        PROVE  OwnOrDeleted(h, p)'
    <3>1. CASE p \in Members(seats[g])
      <4>1. roomOf'[p] = NoRoom /\ h # g /\ Has(g, p)
        BY <2>1, <2>2, <2>4, <3>1 DEF Has
      <4>2. PoppedBefore(h, p)
        BY <2>2, <4>1 DEF PoppedBefore
      <4>3. PoppedBefore(h, p)'
        BY <2>1, <4>2, StaysPopped
      <4> QED BY <4>1, <4>3 DEF OwnOrDeleted
    <3>2. CASE p \notin Members(seats[g])
      <4>1. roomOf'[p] = roomOf[p]
        BY <2>1, <3>2
      <4> QED BY <2>1, <2>4, <4>1, StaysPopped DEF OwnOrDeleted
    <3> QED BY <3>1, <3>2
  <2>5. Keyed'
    <3>1. \A h \in Games : Unfinished(h)' => Unfinished(h) /\ Exists(h)
      BY <2>1 DEF Unfinished, Exists
    <3> QED BY <2>1, <2>4, <3>1, TwoSeats DEF Keyed
  <2> QED BY <2>3, <2>5
<1>9. ASSUME UNCHANGED rooms PROVE KInv'
  <2>1. UNCHANGED <<inGames, seats, joined, verdict, over, roomOf>>
    BY <1>9 DEF rooms
  <2> QED BY <2>1, KeysStay
<1>10. \A g \in Games : 1..Timers[g] \subseteq OverTasks
  BY AfterGameAssumption DEF OverTasks
<1> QED BY <1>2, <1>3, <1>5, <1>6, <1>7, <1>8, <1>9, <1>10, AfterGameAssumption
    DEF Next, System, GameOver, Persists, vars

\* Whenever players search again: the key of a player of a running game names
\* that game, or is deleted after the clean-up of another one; no move is
\* routed to another game.
THEOREM NeverMisrouted == Spec => []RoutedOrDeleted
<1>1. GInv /\ KInv => RoutedOrDeleted
  <2> SUFFICES ASSUME GInv, KInv, NEW g \in Games, Running(g), NEW p \in Members(seats[g])
               PROVE  OwnOrDeleted(g, p)
    BY DEF RoutedOrDeleted, OwnOrDeleted, PoppedBefore
  <2>1. Unfinished(g) /\ joined[g] = 2
    BY DEF Running, Unfinished
  <2> QED BY <2>1 DEF KInv, Keyed, Members
<1>2. GInv /\ KInv /\ [Next]_vars => KInv'
  BY KNext
<1> QED BY <1>1, <1>2, KInit, GInvariance, PTL DEF Spec
=============================================================================
