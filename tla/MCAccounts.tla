----------------------------- MODULE MCAccounts -----------------------------
(* One account to start with, or two or three, and one person at the        *)
(* provider, who signs in under both of its names.                          *)
EXTENDS Accounts, TLC

CONSTANTS boss, anna, bert, e1, e2, e3, s1, s2

ASSUME /\ User = {boss, anna, bert}
       /\ Email = {e1, e2, e3}
       /\ Subject = {s1, s2}

Person(email, role, manager) ==
    [email |-> email, role |-> role, active |-> TRUE, manager |-> manager, subject |-> None]

\* anna is a leader, or a manager with a team, or still to come.
SomeTables ==
    {boss :> Person(e1, "admin", None) @@ anna :> None @@ bert :> None,
     boss :> Person(e1, "admin", None) @@ anna :> Person(e2, "leader", None) @@ bert :> None,
     boss :> Person(e1, "admin", None) @@ anna :> Person(e2, "sales_manager", None)
        @@ bert :> Person(e3, "sales_executive", anna)}

Claimed == s1 :> e2 @@ s2 :> e2

\* A manager, an executive of anna's, a leader; a change of address.
SomeBodies ==
    {[email |-> e2, role |-> "sales_manager", active |-> TRUE, manager |-> None],
     [email |-> e3, role |-> "sales_executive", active |-> TRUE, manager |-> anna],
     [email |-> e3, role |-> "leader", active |-> TRUE, manager |-> anna]}
=============================================================================
