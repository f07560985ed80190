------------------------------ MODULE Results ------------------------------
(***************************************************************************)
(* The persistence of game results: the fire-and-forget tasks of           *)
(* _persist_result() (app/core/game_engine.py), each of which runs one     *)
(* transaction of MatchRepository (app/persistence/repositories.py) on     *)
(* the tables players, matches and match_participants.                     *)
(*                                                                         *)
(* PostgreSQL runs the transactions at READ COMMITTED: a statement sees    *)
(* what is committed, an UPDATE of a row that another transaction has      *)
(* updated waits for that one to end and then counts on from its outcome.  *)
(* The rows of the transaction's own match are nobody else's, so its       *)
(* INSERTs and UPDATEs of them are part of the neighbouring steps; the     *)
(* match can be seen when its transaction is committed.                    *)
(***************************************************************************)
EXTENDS Ratings

CONSTANTS Tasks,        \* _persist_result() tasks, each used once
          MayRollBack   \* may a statement or a commit raise, or the process die?

ASSUME ResultsAssumption ==
    /\ IsFiniteSet(Tasks)
    /\ MayRollBack \in BOOLEAN

VARIABLES
    rows,     \* the committed rows of the table players
    stage,    \* where each task is
    pair,     \* game.player_ids of each task
    winner,   \* game.winner_id of each task
    pending   \* the player rows each open transaction has updated

results == <<rows, stage, pair, winner, pending>>

Stages == {"idle", "first", "second", "closing", "committed", "failed"}

\* The rows that t has locked are those it has updated.
Locked(t) == DOMAIN pending[t]

ResultsTypeOK ==
    /\ rows \in [Players -> Row]
    /\ stage \in [Tasks -> Stages]
    /\ \A t \in Tasks : stage[t] # "idle" => pair[t] \in Pairs /\ winner[t] \in Winners(pair[t])
    /\ DOMAIN pair = Tasks /\ DOMAIN winner = Tasks /\ DOMAIN pending = Tasks
    /\ \A t \in Tasks : Locked(t) \subseteq Players /\ pending[t] \in [Locked(t) -> Row]

NoRows == [p \in {} |-> NewRow]

ResultsInit ==
    /\ rows = [p \in Players |-> NewRow]
    /\ stage = [t \in Tasks |-> "idle"]
    /\ pair = [t \in Tasks |-> <<>>]
    /\ winner = [t \in Tasks |-> NoPlayer]
    /\ pending = [t \in Tasks |-> NoRows]

\* create_task(_persist_result(...)): its first statements insert the match.
Launch(t, x, w) ==
    /\ stage[t] = "idle"
    /\ stage' = [stage EXCEPT ![t] = "first"]
    /\ pair' = [pair EXCEPT ![t] = x]
    /\ winner' = [winner EXCEPT ![t] = w]
    /\ UNCHANGED <<rows, pending>>

\* Variant: the winner's row first.
WinnerFirst(t) ==
    IF winner[t] = NoPlayer THEN pair[t]
    ELSE <<winner[t], Opponent(winner[t], pair[t])>>

\* record_result() updates the players in the order of elo_changes.
Order(t) == pair[t]

Turn(t) == IF stage[t] = "first" THEN Order(t)[1] ELSE Order(t)[2]
Updating(t) == stage[t] \in {"first", "second"}

WaitsFor(t, s) == s # t /\ Updating(t) /\ Turn(t) \in Locked(s)

\* Variant: rows are read and written without a lock.
NeverBlocked(t) == FALSE

Blocked(t) == \E s \in Tasks : WaitsFor(t, s)

Updated(t) ==
    [p \in Locked(t) \cup {Turn(t)} |->
        IF p = Turn(t) THEN After(rows[p], p, pair[t], winner[t]) ELSE pending[t][p]]

\* Variant: each statement commits by itself.
UpdatesWithAutocommit(t) ==
    /\ Updating(t)
    /\ ~Blocked(t)
    /\ rows' = [rows EXCEPT ![Turn(t)] = Updated(t)[Turn(t)]]
    /\ stage' = [stage EXCEPT ![t] = IF @ = "first" THEN "second" ELSE "closing"]
    /\ UNCHANGED <<pair, winner, pending>>

\* The participant and the player row of the next player.
UpdatesPlayer(t) ==
    /\ Updating(t)
    /\ ~Blocked(t)
    /\ pending' = [pending EXCEPT ![t] = Updated(t)]
    /\ stage' = [stage EXCEPT ![t] = IF @ = "first" THEN "second" ELSE "closing"]
    /\ UNCHANGED <<rows, pair, winner>>

\* session.commit(): what the transaction has written becomes visible.
Commits(t) ==
    /\ stage[t] = "closing"
    /\ rows' = [p \in Players |-> IF p \in Locked(t) THEN pending[t][p] ELSE rows[p]]
    /\ pending' = [pending EXCEPT ![t] = NoRows]
    /\ stage' = [stage EXCEPT ![t] = "committed"]
    /\ UNCHANGED <<pair, winner>>

\* An exception ends the `async with', or the instance crashes: PostgreSQL
\* rolls back.  The task logs and nothing tries again.
RollsBack(t) ==
    /\ MayRollBack
    /\ stage[t] \in {"first", "second", "closing"}
    /\ pending' = [pending EXCEPT ![t] = NoRows]
    /\ stage' = [stage EXCEPT ![t] = "failed"]
    /\ UNCHANGED <<rows, pair, winner>>

Proceeds(t) ==
    \/ UpdatesPlayer(t)
    \/ Commits(t)

ResultsNext ==
    \/ \E t \in Tasks, x \in Pairs : \E w \in Winners(x) : Launch(t, x, w)
    \/ \E t \in Tasks : Proceeds(t)
    \/ \E t \in Tasks : RollsBack(t)

ResultsSpec == ResultsInit /\ [][ResultsNext]_results

----------------------------------------------------------------------------
(* Properties.                                                             *)

Committed == {t \in Tasks : stage[t] = "committed"}

\* What create_match() and record_result() leave in the match tables.
Match(t) == [pair |-> pair[t], winner |-> winner[t]]

\* The results of p among the committed matches.
ResultsOf(p, outcome) ==
    {t \in Committed : p \in Members(pair[t]) /\ Outcome(p, winner[t]) = outcome}

\* The counters of every player, which update_elo() only ever increments,
\* equal what the match history says, at every moment another session can
\* look: concurrent results of one player lose no increment, a duplicate or
\* rolled back one leaves no half behind.
CountersMatchHistory ==
    \A p \in Players :
        /\ rows[p].won = Cardinality(ResultsOf(p, "win"))
        /\ rows[p].lost = Cardinality(ResultsOf(p, "loss"))
        /\ rows[p].drawn = Cardinality(ResultsOf(p, "draw"))
        /\ rows[p].played = rows[p].won + rows[p].lost + rows[p].drawn

\* Transactions never wait for each other in a circle, so none is picked as a
\* deadlock victim and lost: record_result() updates the two rows in the
\* order of the pair, and the matchmaker names every pair in one order.
NoWaitCycle ==
    \A s, t \in Tasks : ~(WaitsFor(s, t) /\ WaitsFor(t, s))

\* The tables at every commit are those of some order of whole results.
L == INSTANCE Ledger WITH
    recorded <- [t \in Committed |-> Match(t)]

ResultsAreAtomic == L!Spec
=============================================================================
