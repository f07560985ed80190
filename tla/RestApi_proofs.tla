--------------------------- MODULE RestApi_proofs ---------------------------
(***************************************************************************)
(* Proofs about the rate limiter, for any limit, window and delay, and     *)
(* about the accounts, for any requests and any number of failures.        *)
(***************************************************************************)
EXTENDS RestApi, FiniteSetTheorems, TLAPS

----------------------------------------------------------------------------
(* The rate limiter.                                                       *)

Done(q) == phase[q] \in {"accepted", "rejected"}

\* Its pipeline is over.
Past(q) == Done(q) \/ phase[q] = "failed"

\* The sorted set lacks a request that was counted only if it is older than
\* the window, and the key outlives its entries by more than the window.
Remembered ==
    /\ \A q \in Requests : phase[q] # "new" => stamp[q] <= clock
    /\ \A q \in Requests : phase[q] = "stamped" => clock <= stamp[q] + Delay
    /\ \A q \in Requests : Done(q) /\ q \notin log => stamp[q] <= clock - Window
    /\ \A q \in log : Past(q) /\ stamp[q] + Window + 1 <= expires

LInv == LimiterTypeOK /\ Remembered /\ NoBurst /\ RejectionIsEarned

InWindow(a) == {q \in Accepted : stamp[q] \in a..(a + Window - Delay - 1)}
Before(q) == {r \in Requests \ {q} : /\ phase[r] \in {"accepted", "rejected", "failed"}
                                     /\ stamp[r] > stamp[q] - Window}

LEMMA LimiterInitInv == LimiterInit => LInv
<1>. SUFFICES ASSUME LimiterInit PROVE LInv
  OBVIOUS
<1>1. LimiterTypeOK
  BY RateAssumption DEF LimiterInit, LimiterTypeOK, Phases
<1>2. Remembered
  BY DEF LimiterInit, Remembered, Done, Past
<1>3. \A a \in 0..MaxClock : {q \in Accepted : stamp[q] \in a..(a + Window - Delay - 1)} = {}
  BY DEF LimiterInit, Accepted
<1>4. NoBurst
  BY <1>3, FS_EmptySet, RateAssumption DEF NoBurst
<1>5. RejectionIsEarned
  BY DEF LimiterInit, RejectionIsEarned
<1> QED BY <1>1, <1>2, <1>4, <1>5 DEF LInv

\* Steps that accept and reject nothing, and leave the stamps of what has been
\* through the pipeline alone, keep both properties.
LEMMA SameVerdicts ==
    ASSUME LInv,
           \A q \in Requests : /\ phase'[q] # phase[q] => ~Past(q) /\ ~Done(q)'
                               /\ Past(q) => stamp'[q] = stamp[q]
    PROVE  NoBurst' /\ RejectionIsEarned'
<1>1. \A a \in 0..MaxClock :
          {q \in Accepted : stamp[q] \in a..(a + Window - Delay - 1)}'
              = {q \in Accepted : stamp[q] \in a..(a + Window - Delay - 1)}
  BY DEF Accepted, Done, Past
<1>2. NoBurst'
  BY <1>1 DEF LInv, NoBurst
<1>3. ASSUME NEW q \in Requests, phase'[q] = "rejected"
      PROVE  Cardinality(Before(q)') >= Max
  <2>1. phase[q] = "rejected" /\ stamp'[q] = stamp[q]
    BY <1>3 DEF Done, Past
  <2>2. Before(q) \in SUBSET Before(q)' /\ Before(q)' \in SUBSET Requests
    BY <2>1 DEF Before, Done, Past
  <2>3. Cardinality(Before(q)) >= Max
    BY <2>1 DEF LInv, RejectionIsEarned, Before
  <2>4. IsFiniteSet(Before(q)')
    BY <2>2, FS_Subset, RateAssumption
  <2>5. /\ IsFiniteSet(Before(q)) /\ Cardinality(Before(q)) <= Cardinality(Before(q)')
        /\ Cardinality(Before(q)) \in Nat /\ Cardinality(Before(q)') \in Nat
    BY <2>2, <2>4, FS_Subset, FS_CardinalityType
  <2> QED BY <2>3, <2>5, RateAssumption
<1>4. RejectionIsEarned'
  BY <1>3 DEF RejectionIsEarned, Before
<1> QED BY <1>2, <1>4

\* What the pipeline counts contains every accepted request of a window in
\* which the counting request lies.
LEMMA CountsWindow ==
    ASSUME LInv, NEW q \in Requests, phase[q] = "stamped", NEW a \in 0..MaxClock,
           stamp[q] \in a..(a + Window - Delay - 1)
    PROVE  InWindow(a) \cup {q} \subseteq Counted(q)
<1>1. SUFFICES ASSUME NEW r \in InWindow(a) PROVE r \in Counted(q)
  BY DEF Counted
<1>2. r \in Requests /\ Done(r) /\ stamp[r] \in Nat /\ stamp[q] \in Nat /\ clock \in Nat /\ a \in Nat
  BY RateAssumption DEF InWindow, Accepted, Done, LInv, LimiterTypeOK
<1>3. stamp[r] >= a /\ stamp[q] <= a + Window - Delay - 1 /\ clock <= stamp[q] + Delay
  BY RateAssumption, <1>2 DEF InWindow, LInv, Remembered
<1>4. stamp[r] > clock - Window /\ stamp[r] > stamp[q] - Window
  BY <1>2, <1>3, RateAssumption
<1>5. r \in log
  BY <1>2, <1>4, RateAssumption DEF LInv, Remembered
<1> QED BY <1>4, <1>5 DEF Counted

LEMMA PipelineKeeps ==
    ASSUME LInv, NEW q \in Requests, Pipeline(q)
    PROVE  LInv'
<1>. USE RateAssumption DEF LInv
<1>1. /\ phase[q] = "stamped" /\ clock' = clock /\ stamp' = stamp
      /\ expires' = clock + Window + 1
      /\ log' = Counted(q)
  BY DEF Pipeline, Counted
<1>2. /\ phase'[q] = (IF Cardinality(Counted(q)) <= Max THEN "accepted" ELSE "rejected")
      /\ \A r \in Requests : r # q => phase'[r] = phase[r]
      /\ phase' \in [Requests -> Phases]
  BY DEF Pipeline, LimiterTypeOK, Phases
<1>3. Counted(q) \in SUBSET Requests
  BY DEF Counted, LimiterTypeOK
<1>4. LimiterTypeOK'
  BY <1>1, <1>2, <1>3 DEF LimiterTypeOK
<1>5. \A r \in Requests : stamp[r] \in Nat /\ clock \in Nat
  BY DEF LimiterTypeOK
<1>6. Remembered'
  <2>1. \A r \in Requests : Done(r)' <=> Done(r) \/ r = q
    BY <1>1, <1>2 DEF Done
  <2>2. \A r \in Requests : Done(r)' /\ r \notin log' => stamp[r] <= clock - Window
    BY <1>1, <1>5, <2>1 DEF Counted, Remembered, Done
  <2>3. \A r \in log' : Past(r)' /\ stamp[r] + Window + 1 <= expires'
    BY <1>1, <1>2, <1>3, <1>5, <2>1 DEF Counted, Remembered, Done, Past
  <2> QED BY <1>1, <1>2, <2>2, <2>3 DEF Remembered
<1>7. IsFiniteSet(Counted(q)) /\ Cardinality(Counted(q)) \in Nat
  BY <1>3, FS_Subset, FS_CardinalityType
<1>8. NoBurst'
  <2>1. SUFFICES ASSUME NEW a \in 0..MaxClock PROVE Cardinality(InWindow(a)') <= Max
    BY DEF NoBurst, InWindow
  <2>2. CASE phase'[q] = "accepted" /\ stamp[q] \in a..(a + Window - Delay - 1)
    <3>1. InWindow(a)' = InWindow(a) \cup {q}
      BY <1>1, <1>2, <2>2 DEF InWindow, Accepted
    <3>2. InWindow(a)' \in SUBSET Counted(q)
      BY <1>1, <2>2, <3>1, CountsWindow
    <3>3. Cardinality(Counted(q)) <= Max
      BY <1>2, <2>2
    <3>4. Cardinality(InWindow(a)') <= Cardinality(Counted(q)) /\ IsFiniteSet(InWindow(a)')
      BY <1>7, <3>2, FS_Subset
    <3>5. Cardinality(InWindow(a)') \in Nat
      BY <3>4, FS_CardinalityType
    <3> QED BY <1>7, <3>3, <3>4, <3>5
  <2>3. CASE ~(phase'[q] = "accepted" /\ stamp[q] \in a..(a + Window - Delay - 1))
    <3>1. InWindow(a)' = InWindow(a)
      BY <1>1, <1>2, <2>3 DEF InWindow, Accepted
    <3> QED BY <3>1 DEF NoBurst, InWindow
  <2> QED BY <2>2, <2>3
<1>9. RejectionIsEarned'
  <2>1. SUFFICES ASSUME NEW r \in Requests, phase'[r] = "rejected"
                 PROVE  Cardinality(Before(r)') >= Max
    BY DEF RejectionIsEarned, Before
  <2>2. IsFiniteSet(Before(r)') /\ Cardinality(Before(r)') \in Nat
    <3>1. Before(r)' \in SUBSET Requests
      BY DEF Before
    <3> QED BY <3>1, FS_Subset, FS_CardinalityType
  <2>3. CASE r = q
    <3>1. Counted(q) \ {q} \in SUBSET Before(q)'
      BY <1>1, <1>2, <1>3, <2>3 DEF Before, Counted, Remembered, Done, Past
    <3>2. Cardinality(Counted(q)) > Max
      BY <1>2, <1>7, <2>1, <2>3
    <3>3. IsFiniteSet(Counted(q) \ {q}) /\ Cardinality(Counted(q) \ {q}) = Cardinality(Counted(q)) - 1
      BY <1>7, FS_RemoveElement DEF Counted
    <3>4. Cardinality(Counted(q) \ {q}) <= Cardinality(Before(q)')
      BY <2>2, <2>3, <3>1, FS_Subset
    <3> QED BY <1>7, <2>2, <2>3, <3>2, <3>3, <3>4
  <2>4. CASE r # q
    <3>1. phase[r] = "rejected"
      BY <1>2, <2>1, <2>4
    <3>2. Before(r) \in SUBSET Before(r)'
      BY <1>1, <1>2, <2>4 DEF Before
    <3>3. Cardinality(Before(r)) >= Max
      BY <3>1 DEF RejectionIsEarned, Before
    <3>4. IsFiniteSet(Before(r)) /\ Cardinality(Before(r)) \in Nat /\ Cardinality(Before(r)) <= Cardinality(Before(r)')
      BY <2>2, <3>2, FS_Subset, FS_CardinalityType
    <3> QED BY <2>2, <3>3, <3>4
  <2> QED BY <2>3, <2>4
<1> QED BY <1>4, <1>6, <1>8, <1>9

\* A pipeline that raises accepts and rejects nothing, but may leave its request
\* in the sorted set.
LEMMA PipelineFailsKeeps ==
    ASSUME LInv, NEW q \in Requests, PipelineFails(q)
    PROVE  LInv'
<1>. USE RateAssumption DEF LInv
<1>1. /\ phase[q] = "stamped" /\ phase'[q] = "failed" /\ clock' = clock /\ stamp' = stamp
      /\ \A r \in Requests : r # q => phase'[r] = phase[r]
      /\ \/ log' = Counted(q) /\ expires' = clock + Window + 1
         \/ log' = log /\ expires' = expires
  BY DEF PipelineFails, Counted, LimiterTypeOK
<1>2. Counted(q) \in SUBSET Requests /\ phase' \in [Requests -> Phases]
  BY DEF PipelineFails, Counted, LimiterTypeOK, Phases
<1>3. LimiterTypeOK'
  BY <1>1, <1>2 DEF LimiterTypeOK
<1>4. \A r \in Requests : stamp[r] \in Nat /\ clock \in Nat
  BY DEF LimiterTypeOK
<1>5. \A r \in Requests : (Done(r)' <=> Done(r)) /\ (Past(r)' <=> Past(r) \/ r = q)
  BY <1>1 DEF Done, Past
<1>6. Remembered'
  <2>1. \A r \in Requests : Done(r)' /\ r \notin log' => stamp[r] <= clock - Window
    <3>1. CASE log' = log
      BY <1>5, <3>1 DEF Remembered
    <3>2. CASE log' = Counted(q)
      <4>1. SUFFICES ASSUME NEW r \in Requests, Done(r), r \notin Counted(q)
                     PROVE  stamp[r] <= clock - Window
        BY <1>5, <3>2
      <4>2. stamp[q] <= clock /\ stamp[q] \in Nat /\ stamp[r] \in Nat /\ clock \in Nat
        BY <1>1, <1>4 DEF Remembered
      <4>3. r \notin log \/ ~(stamp[r] > stamp[q] - Window)
        BY <4>1 DEF Counted
      <4> QED BY <4>1, <4>2, <4>3 DEF Remembered
    <3> QED BY <1>1, <3>1, <3>2
  <2>2. \A r \in log' : Past(r)' /\ stamp[r] + Window + 1 <= expires'
    <3>1. SUFFICES ASSUME NEW r \in log' PROVE Past(r)' /\ stamp[r] + Window + 1 <= expires'
      OBVIOUS
    <3>2. \A x \in log : x \in Requests /\ Past(x) /\ stamp[x] + Window + 1 <= expires
      BY DEF Remembered, LimiterTypeOK
    <3>3. r \in Requests
      BY <1>1, <1>2, <3>2
    <3>4. CASE log' = log /\ expires' = expires
      BY <1>5, <3>2, <3>3, <3>4
    <3>5. CASE log' = Counted(q) /\ expires' = clock + Window + 1
      <4>1. r = q \/ r \in log
        BY <3>5 DEF Counted
      <4>2. Past(r)'
        BY <1>5, <3>2, <3>3, <4>1
      <4>3. phase[r] # "new"
        BY <1>1, <3>2, <4>1 DEF Past, Done
      <4>4. stamp[r] <= clock
        BY <3>3, <4>3 DEF Remembered
      <4> QED BY <1>4, <3>3, <3>5, <4>2, <4>4
    <3> QED BY <1>1, <3>4, <3>5
  <2>3. \A r \in Requests : /\ phase'[r] # "new" => stamp[r] <= clock
                           /\ phase'[r] = "stamped" => clock <= stamp[r] + Delay
    BY <1>1 DEF Remembered
  <2> QED BY <1>1, <2>1, <2>2, <2>3 DEF Remembered
<1>7. NoBurst' /\ RejectionIsEarned'
  BY <1>1, SameVerdicts DEF Done, Past
<1> QED BY <1>3, <1>6, <1>7

LEMMA LimiterNextInv == LInv /\ [LimiterNext]_limiter => LInv'
<1>. SUFFICES ASSUME LInv, [LimiterNext]_limiter PROVE LInv'
  OBVIOUS
<1>. USE RateAssumption
<1>1. ASSUME NEW q \in Requests, Stamps(q) PROVE LInv'
  <2>1. LimiterTypeOK'
    BY <1>1 DEF LInv, LimiterTypeOK, Stamps, Phases
  <2>2. /\ phase[q] = "new" /\ phase'[q] = "stamped" /\ stamp'[q] = clock /\ clock \in Nat
        /\ \A r \in Requests : r # q => phase'[r] = phase[r] /\ stamp'[r] = stamp[r]
        /\ clock' = clock /\ log' = log /\ expires' = expires
    BY <1>1 DEF LInv, LimiterTypeOK, Stamps
  <2>3. Remembered'
    BY <2>2 DEF LInv, LimiterTypeOK, Remembered, Done, Past
  <2>4. NoBurst' /\ RejectionIsEarned'
    BY <2>2, SameVerdicts DEF Done, Past
  <2> QED BY <2>1, <2>3, <2>4 DEF LInv
<1>2. ASSUME NEW q \in Requests, Pipeline(q) PROVE LInv'
  BY <1>2, PipelineKeeps
<1>5. ASSUME NEW q \in Requests, PipelineFails(q) PROVE LInv'
  BY <1>5, PipelineFailsKeeps
<1>3. ASSUME Tick PROVE LInv'
  <2>1. /\ clock \in Nat /\ clock' = clock + 1 /\ phase' = phase /\ stamp' = stamp /\ expires' = expires
        /\ log' = IF clock + 1 >= expires THEN {} ELSE log
        /\ \A q \in Requests : phase[q] = "stamped" => clock < stamp[q] + Delay
    BY <1>3 DEF LInv, LimiterTypeOK, Tick
  <2>2. LimiterTypeOK'
    BY <1>3, <2>1 DEF LInv, LimiterTypeOK, Tick
  <2>3. \A q \in Requests : stamp[q] \in Nat
    BY DEF LInv, LimiterTypeOK
  <2>4. expires \in Nat
    BY DEF LInv, LimiterTypeOK
  <2>5. Remembered'
    BY <2>1, <2>3, <2>4 DEF LInv, Remembered, Done, Past
  <2>6. NoBurst' /\ RejectionIsEarned'
    BY <2>1, SameVerdicts
  <2> QED BY <2>2, <2>5, <2>6 DEF LInv
<1>4. ASSUME UNCHANGED limiter PROVE LInv'
  <2>1. NoBurst' /\ RejectionIsEarned'
    BY <1>4, SameVerdicts DEF limiter
  <2> QED BY <1>4, <2>1 DEF limiter, LInv, LimiterTypeOK, Remembered, Done, Past
<1> QED BY <1>1, <1>2, <1>3, <1>4, <1>5 DEF LimiterNext

----------------------------------------------------------------------------
(* The accounts.                                                           *)

\* Where the rows of a request are, and what its token will name.
Placed ==
    /\ \A q \in Requests : phase[q] \in {"new", "stamped"} => step[q] = "waiting"
    /\ \A q \in Requests : q \in open <=> step[q] = "flushed"
    /\ \A q \in accounts : step[q] \in {"committed", "over"}
    /\ \A q \in Requests : step[q] = "committed" => q \in accounts
    /\ \A q \in Requests : answer[q] # "none" => step[q] = "over"
    /\ \A q \in accounts : answer[q] \notin {"conflict", "duplicate"}
    /\ \A q \in Requests : step[q] = "verified" =>
          /\ player[q] \in accounts
          /\ SameName(q, player[q])
          /\ form[q].password = form[player[q]].password

\* Neither committed nor flushed rows clash.
Unique == \A a, b \in accounts \cup open : Clash(a, b) => a = b

AInv == TypeOK /\ Placed /\ Unique /\ TokenNamesAccount /\ RefusalIsEarned

LEMMA AccountsInit == Init => AInv
<1>. SUFFICES ASSUME Init PROVE AInv
  OBVIOUS
<1>1. LimiterTypeOK
  BY LimiterInitInv DEF Init, LInv
<1> QED BY <1>1 DEF Init, AInv, TypeOK, Placed, Unique, TokenNamesAccount, RefusalIsEarned,
            Steps, Answers

LEMMA NextIsLimiter == [Next]_vars => [LimiterNext]_limiter
BY DEF Next, Arrives, Dispatches, DispatchFails, Handles, Fails, Passes, FindsName, Inserts, CommitsAccount,
       Welcomes, Verifies, LogsIn, LimiterNext, limiter, vars

\* The requests at the limiter, and time, change no account.
LEMMA LimiterKeeps ==
    ASSUME AInv, LimiterTypeOK', LimiterNext \/ UNCHANGED limiter, UNCHANGED handlers
    PROVE  AInv'
<1>1. \A q \in Requests : phase'[q] \in {"new", "stamped"} => phase[q] \in {"new", "stamped"}
  BY DEF LimiterNext, Stamps, Pipeline, PipelineFails, Tick, limiter, AInv, TypeOK, LimiterTypeOK
<1> QED BY <1>1 DEF handlers, AInv, TypeOK, Placed, Unique, TokenNamesAccount, RefusalIsEarned,
            Clash, SameName

LEMMA AccountsNext ==
    ASSUME AInv, LimiterTypeOK', [Next]_vars
    PROVE  AInv'
<1>. USE DEF AInv, TypeOK, Placed, Unique, TokenNamesAccount, RefusalIsEarned,
             Clash, SameName, Goes, Responds, Steps, Answers, Registers
<1>1. ASSUME NEW q \in Requests, Arrives(q) PROVE AInv'
  BY <1>1, LimiterKeeps DEF Arrives, LimiterNext
<1>2. ASSUME NEW q \in Requests, Dispatches(q) PROVE AInv'
  <2>1. phase[q] = "stamped" /\ phase'[q] \in {"accepted", "rejected"}
        /\ \A r \in Requests : r # q => phase'[r] = phase[r]
    BY <1>2 DEF Dispatches, Pipeline, LimiterTypeOK
  <2> QED BY <1>2, <2>1 DEF Dispatches
<1>3. ASSUME NEW q \in Requests, FindsName(q) PROVE AInv'
  BY <1>3 DEF FindsName, limiter
<1>4. ASSUME NEW q \in Requests, Inserts(q) PROVE AInv'
  BY <1>4 DEF Inserts, limiter
<1>5. ASSUME NEW q \in Requests, CommitsAccount(q) PROVE AInv'
  BY <1>5 DEF CommitsAccount, limiter
<1>6. ASSUME NEW q \in Requests, Welcomes(q) PROVE AInv'
  BY <1>6 DEF Welcomes, limiter
<1>7. ASSUME NEW q \in Requests, Verifies(q) PROVE AInv'
  BY <1>7 DEF Verifies, limiter
<1>8. ASSUME NEW q \in Requests, LogsIn(q) PROVE AInv'
  BY <1>8 DEF LogsIn, limiter
<1>9. ASSUME NEW q \in Requests, Fails(q) PROVE AInv'
  BY <1>9 DEF Fails, limiter
<1>10. ASSUME Passes PROVE AInv'
  BY <1>10, LimiterKeeps DEF Passes, LimiterNext
<1>11. ASSUME UNCHANGED vars PROVE AInv'
  BY <1>11, LimiterKeeps DEF vars
<1>12. ASSUME NEW q \in Requests, DispatchFails(q) PROVE AInv'
  <2>1. phase[q] = "stamped" /\ phase'[q] = "failed"
        /\ \A r \in Requests : r # q => phase'[r] = phase[r]
    BY <1>12 DEF DispatchFails, PipelineFails, LimiterTypeOK
  <2> QED BY <1>12, <2>1 DEF DispatchFails
<1> QED BY <1>1, <1>2, <1>3, <1>4, <1>5, <1>6, <1>7, <1>8, <1>9, <1>10, <1>11, <1>12 DEF Next, Handles

THEOREM Invariance == Spec => [](LInv /\ AInv)
<1>1. Init => LInv /\ AInv
  BY LimiterInitInv, AccountsInit DEF Init
<1>2. LInv /\ AInv /\ [Next]_vars => (LInv /\ AInv)'
  <2>1. SUFFICES ASSUME LInv, AInv, [Next]_vars PROVE LInv' /\ AInv'
    OBVIOUS
  <2>2. LInv'
    BY <2>1, NextIsLimiter, LimiterNextInv
  <2> QED BY <2>1, <2>2, AccountsNext DEF LInv
<1> QED BY <1>1, <1>2, PTL DEF Spec

\* The types.
THEOREM TypeCorrect == Spec => []TypeOK
<1> QED BY Invariance, PTL DEF AInv

\* No window shorter than the configured one by the delay has more than the
\* limit.
THEOREM NeverBursts == Spec => []NoBurst
<1> QED BY Invariance, PTL DEF LInv

\* Nobody is rejected who has asked less often than the limit.
THEOREM RejectionsEarned == Spec => []RejectionIsEarned
<1> QED BY Invariance, PTL DEF LInv

\* No two accounts clash.
THEOREM AlwaysUnique == Spec => []UniqueAccounts
<1>1. AInv => UniqueAccounts
  BY DEF AInv, Unique, UniqueAccounts
<1> QED BY <1>1, Invariance, PTL

\* Every token names a committed account of its owner.
THEOREM TokensNameAccounts == Spec => []TokenNamesAccount
<1> QED BY Invariance, PTL DEF AInv

\* Whoever is turned down clashes with an account.
THEOREM RefusalsEarned == Spec => []RefusalIsEarned
<1> QED BY Invariance, PTL DEF AInv

----------------------------------------------------------------------------
(* The safety half of Answered.                                            *)

\* A request that has arrived and has no answer.
Pending(q) == phase[q] # "new" /\ answer[q] = "none"

\* Does the next await of the request's coroutine return?  That of an INSERT
\* waits for the end of every transaction that has inserted a clashing row.
MayGoOn(q) ==
    \/ phase[q] = "stamped"
    \/ step[q] \in {"lookup", "flushed", "committed", "verified"}
    \/ step[q] = "checked" /\ \A r \in open : ~Clash(q, r)

SomebodyGoesOn == (\E q \in Requests : Pending(q)) => \E q \in Requests : MayGoOn(q)

\* A handler runs for a request the limiter has let through, and ends with an
\* answer.
Tracked ==
    /\ \A q \in Requests : step[q] = "waiting" => phase[q] \in {"new", "stamped"}
    /\ \A q \in Requests : step[q] = "over" => answer[q] # "none"

\* Every step of a handler leaves an answer or goes on to the next statement.
LEMMA NextTracked ==
    ASSUME AInv, LimiterTypeOK', Tracked, [Next]_vars
    PROVE  Tracked'
<1>. USE DEF AInv, TypeOK, Tracked, Steps, Answers, Goes, Responds
<1>1. ASSUME NEW q \in Requests, Arrives(q) PROVE Tracked'
  BY <1>1 DEF Arrives, Stamps, handlers, LimiterTypeOK, Phases
<1>2. ASSUME NEW q \in Requests, Dispatches(q) PROVE Tracked'
  <2>1. \A r \in Requests : r # q => phase'[r] = phase[r]
    BY <1>2 DEF Dispatches, Pipeline, LimiterTypeOK
  <2> QED BY <1>2, <2>1 DEF Dispatches
<1>7. ASSUME NEW q \in Requests, DispatchFails(q) PROVE Tracked'
  <2>1. \A r \in Requests : r # q => phase'[r] = phase[r]
    BY <1>7 DEF DispatchFails, PipelineFails, LimiterTypeOK
  <2> QED BY <1>7, <2>1 DEF DispatchFails
<1>3. ASSUME NEW q \in Requests, FindsName(q) \/ Verifies(q) PROVE Tracked'
  BY <1>3 DEF FindsName, Verifies, limiter
<1>4. ASSUME NEW q \in Requests, Inserts(q) \/ CommitsAccount(q) PROVE Tracked'
  BY <1>4 DEF Inserts, CommitsAccount, limiter
<1>5. ASSUME NEW q \in Requests, Welcomes(q) \/ LogsIn(q) \/ Fails(q) PROVE Tracked'
  BY <1>5 DEF Welcomes, LogsIn, Fails, limiter
<1>6. CASE Passes \/ UNCHANGED vars
  BY <1>6 DEF Passes, Tick, handlers, vars, limiter
<1> QED BY <1>1, <1>2, <1>3, <1>4, <1>5, <1>6, <1>7 DEF Next, Handles

\* While any request waits for its answer some coroutine can go on: an INSERT
\* that waits does so for a transaction that has nothing left to wait for, so
\* registrations never block each other in a circle.
THEOREM SomebodyGoesOnTheorem == Spec => []SomebodyGoesOn
<1>1. Init => Tracked
  BY DEF Init, Tracked, LimiterInit
<1>2. AInv /\ Tracked => SomebodyGoesOn
  <2>. SUFFICES ASSUME AInv, Tracked, NEW q \in Requests, Pending(q)
                PROVE  \E r \in Requests : MayGoOn(r)
    BY DEF SomebodyGoesOn
  <2>1. phase[q] = "stamped" \/ step[q] \in Steps \ {"waiting", "over"}
    BY DEF Pending, Tracked, AInv, TypeOK, LimiterTypeOK, Phases
  <2>2. CASE step[q] = "checked" /\ \E r \in open : Clash(q, r)
    <3>1. PICK r \in open : Clash(q, r)
      BY <2>2
    <3>2. r \in Requests /\ step[r] = "flushed"
      BY DEF AInv, TypeOK, Placed
    <3> QED BY <3>2 DEF MayGoOn
  <2>3. CASE ~(step[q] = "checked" /\ \E r \in open : Clash(q, r))
    BY <2>1, <2>3 DEF MayGoOn, Steps
  <2> QED BY <2>2, <2>3
<1>3. LInv => LimiterTypeOK
  BY DEF LInv
<1> QED BY Invariance, NextTracked, <1>1, <1>2, <1>3, PTL DEF Spec
=============================================================================
