------------------------------- MODULE MCLeads -------------------------------
(* Leads with one user of each role and bodies that name a few columns.     *)
EXTENDS Leads, TLC

CONSTANTS admin, manager, executive, c1, c2

ASSUME {admin, manager, executive} = User /\ {c1, c2} = Company

Symmetry == Permutations(Request) \cup Permutations(Lead)

Roles == admin :> "admin" @@ manager :> "sales_manager" @@ executive :> "sales_executive"

Teams == [u \in User |-> IF u = manager THEN {executive} ELSE {}]

\* What a PATCH names: the status, the stage, the reason, the owner by name or the
\* assignee by id, the company; nothing of these.
SomeBodies ==
    {NoPatch,
     [NoPatch EXCEPT !.status = "Lost"],
     [NoPatch EXCEPT !.status = "Open"],
     [NoPatch EXCEPT !.reason = "blank"],
     [NoPatch EXCEPT !.status = "Lost", !.reason = "text"],
     [NoPatch EXCEPT !.company = c2],
     [NoPatch EXCEPT !.owner = executive],
     [NoPatch EXCEPT !.owner = Unlisted],
     [NoPatch EXCEPT !.assigned = admin],
     [NoPatch EXCEPT !.owner = manager, !.assigned = executive]}

SomeOffers ==
    {[company |-> c1, status |-> "Lost", stage |-> "Closed Lost", reason |-> "blank",
      owner |-> executive, assigned |-> None],
     [company |-> c1, status |-> "Open", stage |-> "Negotiation", reason |-> "text",
      owner |-> None, assigned |-> manager],
     [company |-> c2, status |-> "Open", stage |-> "Prospecting", reason |-> "text",
      owner |-> admin, assigned |-> None],
     [company |-> c2, status |-> "", stage |-> "", reason |-> "blank",
      owner |-> None, assigned |-> None]}
=============================================================================
