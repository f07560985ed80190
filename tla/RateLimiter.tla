---------------------------- MODULE RateLimiter ----------------------------
(***************************************************************************)
(* The sliding window of check_rate_limit() (app/api/middleware.py) for    *)
(* one identifier: an address whose HTTP requests are served by any        *)
(* instance, concurrently.                                                 *)
(*                                                                         *)
(* A request reads its clock first and executes the pipeline on the sorted *)
(* set later, so requests may be counted in another order than that of     *)
(* their timestamps.  The clocks of the instances agree, and the members   *)
(* of the set, made of the timestamp and an address in memory, differ.     *)
(***************************************************************************)
EXTENDS Integers, FiniteSets

CONSTANTS Requests,
          Max,       \* max_requests
          Window,    \* window_seconds
          Delay,     \* bound on the time from time.time() to the pipeline
          MaxClock   \* bound of the model

ASSUME RateAssumption ==
    /\ IsFiniteSet(Requests)
    /\ Max \in Nat
    /\ Window \in Nat
    /\ Delay \in Nat
    /\ MaxClock \in Nat

VARIABLES
    clock,
    phase,     \* "new", "stamped", "accepted", "rejected" or "failed"
    stamp,     \* the value of `now' of each request
    log,       \* the sorted set: the requests in it, by their stamps
    expires    \* when the key goes, if nobody touches it

limiter == <<clock, phase, stamp, log, expires>>

Phases == {"new", "stamped", "accepted", "rejected", "failed"}

LimiterTypeOK ==
    /\ clock \in 0..MaxClock
    /\ phase \in [Requests -> Phases]
    /\ stamp \in [Requests -> 0..MaxClock]
    /\ log \subseteq Requests
    /\ expires \in 0..(MaxClock + Window + 1)

LimiterInit ==
    /\ clock = 0
    /\ phase = [q \in Requests |-> "new"]
    /\ stamp = [q \in Requests |-> 0]
    /\ log = {}
    /\ expires = 0

\* now = time.time()
Stamps(q) ==
    /\ phase[q] = "new"
    /\ phase' = [phase EXCEPT ![q] = "stamped"]
    /\ stamp' = [stamp EXCEPT ![q] = clock]
    /\ UNCHANGED <<clock, log, expires>>

\* Variant: zcard comes before zadd.
CountedBeforeAdd(q) == {r \in log : stamp[r] > stamp[q] - Window}

\* zremrangebyscore, zadd and zcard.
Counted(q) == {r \in log : stamp[r] > stamp[q] - Window} \cup {q}

\* Variant: the TTL in another unit.
PipelineLongTtl(q) ==
    /\ phase[q] = "stamped"
    /\ log' = Counted(q) \cup {q}
    /\ expires' = clock + 60 * Window + 1
    /\ phase' = [phase EXCEPT
           ![q] = IF Cardinality(Counted(q)) <= Max THEN "accepted" ELSE "rejected"]
    /\ UNCHANGED <<clock, stamp>>

\* The pipeline is one transaction.  A rejected request stays in the set.
Pipeline(q) ==
    /\ phase[q] = "stamped"
    /\ log' = Counted(q) \cup {q}
    /\ expires' = clock + Window + 1
    /\ phase' = [phase EXCEPT
           ![q] = IF Cardinality(Counted(q)) <= Max THEN "accepted" ELSE "rejected"]
    /\ UNCHANGED <<clock, stamp>>

\* The pipeline raises, before Redis has executed it or after.
PipelineFails(q) ==
    /\ phase[q] = "stamped"
    /\ phase' = [phase EXCEPT ![q] = "failed"]
    /\ \/ log' = Counted(q) \cup {q} /\ expires' = clock + Window + 1
       \/ UNCHANGED <<log, expires>>
    /\ UNCHANGED <<clock, stamp>>

\* Time passes; Redis drops the key when its TTL has run out.
Tick ==
    /\ clock < MaxClock
    /\ \A q \in Requests : phase[q] = "stamped" => clock < stamp[q] + Delay
    /\ clock' = clock + 1
    /\ log' = IF clock' >= expires THEN {} ELSE log
    /\ UNCHANGED <<phase, stamp, expires>>

LimiterNext ==
    \/ \E q \in Requests : Stamps(q) \/ Pipeline(q) \/ PipelineFails(q)
    \/ Tick

LimiterSpec == LimiterInit /\ [][LimiterNext]_limiter

----------------------------------------------------------------------------
(* Properties.                                                             *)

Accepted == {q \in Requests : phase[q] = "accepted"}

\* "No burst at window boundaries" (module docstring): wherever a window
\* begins, at most Max of the requests stamped in it are accepted.  Requests
\* that are counted late, by up to Delay, take as much from its length.
NoBurst ==
    \A a \in 0..MaxClock :
        Cardinality({q \in Accepted : stamp[q] \in a..(a + Window - Delay - 1)}) <= Max

\* A rejected request had Max others less than a window before its stamp, or
\* after it.  (They may have been rejected themselves: a client that goes on
\* asking is not served again.)
RejectionIsEarned ==
    \A q \in Requests : phase[q] = "rejected" =>
        Cardinality({r \in Requests \ {q} : /\ phase[r] \in {"accepted", "rejected", "failed"}
                                            /\ stamp[r] > stamp[q] - Window}) >= Max
=============================================================================
