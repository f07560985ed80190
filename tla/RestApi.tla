------------------------------ MODULE RestApi ------------------------------
(***************************************************************************)
(* The HTTP side of an instance: the rate limiter in front and the         *)
(* handlers register_player() and login_player() (app/api/rest_routes.py)  *)
(* with PlayerRepository and the session of get_db_session().  Requests    *)
(* run concurrently, on any instance.                                      *)
(*                                                                         *)
(* The table players has unique indexes on username and email              *)
(* (app/models/database.py): an INSERT waits while another transaction     *)
(* holds an uncommitted row with the same name or address, and raises if   *)
(* it gets committed.  A row is named by the request that inserted it.     *)
(* The other handlers only read.                                           *)
(***************************************************************************)
EXTENDS RateLimiter

CONSTANTS Forms,        \* what each request may ask for: op, name, email, password
          MaxFailures   \* bound of the model: requests that fail

ASSUME FormAssumption ==
    /\ \A q \in Requests : \A f \in Forms[q] : f.op \in {"register", "login"}
    /\ MaxFailures \in Nat

VARIABLES
    form,       \* what each request asks for
    step,       \* where the handler of each request is
    open,       \* rows flushed by transactions that are not over
    accounts,   \* committed rows
    answer,     \* the response; "none" until there is one
    player      \* the player whose id the token of a response carries

handlers == <<form, step, open, accounts, answer, player>>
vars == <<limiter, handlers>>

Steps == {"waiting", "lookup", "checked", "flushed", "committed", "verified", "over"}
Answers == {"none", "limited", "conflict", "duplicate", "denied", "failed", "token"}

TypeOK ==
    /\ LimiterTypeOK
    /\ \A q \in Requests : form[q] \in Forms[q]
    /\ DOMAIN form = Requests
    /\ step \in [Requests -> Steps]
    /\ open \subseteq Requests
    /\ accounts \subseteq Requests
    /\ answer \in [Requests -> Answers]
    /\ player \in [Requests -> Requests]

Init ==
    /\ LimiterInit
    /\ form \in {f \in [Requests -> UNION {Forms[q] : q \in Requests}] :
                   \A q \in Requests : f[q] \in Forms[q]}
    /\ step = [q \in Requests |-> "waiting"]
    /\ open = {}
    /\ accounts = {}
    /\ answer = [q \in Requests |-> "none"]
    /\ player = [q \in Requests |-> q]

----------------------------------------------------------------------------
Registers(q) == form[q].op = "register"
SameName(q, r) == form[q].name = form[r].name

\* What the unique indexes compare.
Clash(q, r) == SameName(q, r) \/ form[q].email = form[r].email

Goes(q, s) == step' = [step EXCEPT ![q] = s]

\* The handler ends with the response a.
Responds(q, a) ==
    /\ Goes(q, "over")
    /\ answer' = [answer EXCEPT ![q] = a]

\* dispatch(): the handler is called, or the response is 429.
Dispatches(q) ==
    /\ Pipeline(q)
    /\ IF phase'[q] = "accepted"
           THEN Goes(q, "lookup") /\ UNCHANGED answer
           ELSE Responds(q, "limited")
    /\ UNCHANGED <<form, open, accounts, player>>

\* The limiter's pipeline raises: dispatch() catches RuntimeError only, and the
\* response is 500.
DispatchFails(q) ==
    /\ PipelineFails(q)
    /\ Cardinality({r \in Requests : answer[r] = "failed"}) < MaxFailures
    /\ Responds(q, "failed")
    /\ UNCHANGED <<form, open, accounts, player>>

\* get_by_username() finds a row: a name that is taken is a conflict.
FindsName(q) ==
    /\ step[q] = "lookup"
    /\ Registers(q)
    /\ IF \E a \in accounts : SameName(q, a)
           THEN Responds(q, "conflict")
           ELSE Goes(q, "checked") /\ UNCHANGED answer
    /\ UNCHANGED <<limiter, form, open, accounts, player>>

\* Variant: the index on the address is not unique.
InsertsByName(q) ==
    /\ step[q] = "checked"
    /\ \A r \in open : ~SameName(q, r)
    /\ IF \E a \in accounts : SameName(q, a)
           THEN Responds(q, "duplicate") /\ UNCHANGED open
           ELSE Goes(q, "flushed") /\ open' = open \cup {q} /\ UNCHANGED answer
    /\ UNCHANGED <<limiter, form, accounts, player>>

\* Variant: an uncommitted row counts as a duplicate already.
InsertsImpatiently(q) ==
    /\ step[q] = "checked"
    /\ IF \E a \in accounts \cup open : Clash(q, a)
           THEN Responds(q, "duplicate") /\ UNCHANGED open
           ELSE Goes(q, "flushed") /\ open' = open \cup {q} /\ UNCHANGED answer
    /\ UNCHANGED <<limiter, form, accounts, player>>

\* The password is hashed; create() adds the row and flushes.  The error of a
\* unique index is not caught: the session rolls back, the response is 500.
Inserts(q) ==
    /\ step[q] = "checked"
    /\ \A r \in open : ~Clash(q, r)
    /\ IF \E a \in accounts : Clash(q, a)
           THEN Responds(q, "duplicate") /\ UNCHANGED open
           ELSE Goes(q, "flushed") /\ open' = open \cup {q} /\ UNCHANGED answer
    /\ UNCHANGED <<limiter, form, accounts, player>>

\* db.commit()
CommitsAccount(q) ==
    /\ step[q] = "flushed"
    /\ Goes(q, "committed")
    /\ open' = open \ {q}
    /\ accounts' = accounts \cup {q}
    /\ UNCHANGED <<limiter, form, answer, player>>

\* create_access_token() and the response 201.
Welcomes(q) ==
    /\ step[q] = "committed"
    /\ Responds(q, "token")
    /\ player' = [player EXCEPT ![q] = q]
    /\ UNCHANGED <<limiter, form, open, accounts>>

\* login: the row is looked up by its name and the password verified.  Nobody
\* is banned: nothing sets is_banned.
Verifies(q) ==
    /\ step[q] = "lookup"
    /\ ~Registers(q)
    /\ \/ \E a \in accounts :
              /\ SameName(q, a)
              /\ form[a].password = form[q].password
              /\ Goes(q, "verified")
              /\ player' = [player EXCEPT ![q] = a]
              /\ UNCHANGED answer
       \/ /\ \A a \in accounts : SameName(q, a) => form[a].password # form[q].password
          /\ Responds(q, "denied")
          /\ UNCHANGED player
    /\ UNCHANGED <<limiter, form, open, accounts>>

\* update_login_timestamp(), db.commit() and the token.
LogsIn(q) ==
    /\ step[q] = "verified"
    /\ Responds(q, "token")
    /\ UNCHANGED <<limiter, form, open, accounts, player>>

\* Variant: the session is not rolled back.
FailsWithoutRollback(q) ==
    /\ step[q] \in {"lookup", "checked", "flushed", "committed", "verified"}
    /\ Cardinality({r \in Requests : answer[r] = "failed"}) < MaxFailures
    /\ Responds(q, "failed")
    /\ UNCHANGED <<limiter, form, open, accounts, player>>

\* A statement or the commit raises, or the process dies: what is not
\* committed is rolled back.
Fails(q) ==
    /\ step[q] \in {"lookup", "checked", "flushed", "committed", "verified"}
    /\ Cardinality({r \in Requests : answer[r] = "failed"}) < MaxFailures
    /\ Responds(q, "failed")
    /\ open' = open \ {q}
    /\ UNCHANGED <<limiter, form, accounts, player>>

----------------------------------------------------------------------------
Arrives(q) == Stamps(q) /\ UNCHANGED handlers
Passes == Tick /\ UNCHANGED handlers

Handles(q) ==
    \/ FindsName(q)
    \/ Inserts(q)
    \/ CommitsAccount(q)
    \/ Welcomes(q)
    \/ Verifies(q)
    \/ LogsIn(q)

System == \E q \in Requests : Dispatches(q) \/ Handles(q)

Next ==
    \/ \E q \in Requests : Arrives(q)
    \/ \E q \in Requests : Dispatches(q)
    \/ \E q \in Requests : Handles(q)
    \/ \E q \in Requests : Fails(q)
    \/ \E q \in Requests : DispatchFails(q)
    \/ Passes

Spec == Init /\ [][Next]_vars

\* Some coroutine whose await has returned goes on.
FairSpec == Spec /\ WF_vars(System)

----------------------------------------------------------------------------
(* Properties.                                                             *)

\* No two accounts share a name or an address, although the check by
\* get_by_username() and the INSERT are two statements.
UniqueAccounts ==
    \A a, b \in accounts : Clash(a, b) => a = b

\* A token is only handed out for a row that is committed, with the name and
\* the password of the request.
TokenNamesAccount ==
    \A q \in Requests : answer[q] = "token" =>
        /\ player[q] \in accounts
        /\ SameName(q, player[q])
        /\ form[q].password = form[player[q]].password

\* A registration is turned down as a duplicate only when somebody has the
\* name or the address: of two at once that clash, one gets it.
RefusalIsEarned ==
    \A q \in Requests : answer[q] \in {"conflict", "duplicate"} =>
        \E a \in accounts : a # q /\ Clash(q, a)

\* Every request is answered: no INSERT waits for ever.
Answered ==
    \A q \in Requests : phase[q] = "stamped" ~> answer[q] # "none"
=============================================================================
