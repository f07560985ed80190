----------------------------- MODULE MCRestApi -----------------------------
(* RestApi for TLC: a registration, another one that clashes with it by     *)
(* its name or by its address, and a login with the name and the password   *)
(* of the first.                                                            *)
EXTENDS RestApi, TLC

CONSTANTS reg1, reg2, log1

MCRequests == {reg1, reg2, log1}

Ann == [op |-> "register", name |-> "ann", email |-> "x", password |-> 1]
SameNameAsAnn == [op |-> "register", name |-> "ann", email |-> "y", password |-> 2]
SameEmailAsAnn == [op |-> "register", name |-> "bob", email |-> "x", password |-> 1]
LoginAnn == [op |-> "login", name |-> "ann", email |-> "", password |-> 1]

MCForms ==
    (reg1 :> {Ann}) @@ (reg2 :> {SameNameAsAnn, SameEmailAsAnn}) @@ (log1 :> {LoginAnn})
=============================================================================
