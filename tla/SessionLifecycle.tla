-------------------------- MODULE SessionLifecycle --------------------------
(***************************************************************************)
(* What the session store promises, whatever the interleaving of the       *)
(* handlers: a refresh token belongs to one user for ever, a revoked one   *)
(* stays revoked, one step revokes tokens of one user only, and a rotation *)
(* adds a token for the same user as a predecessor that is already dead.   *)
(***************************************************************************)
CONSTANTS Token, Owner, NoToken, NoOwner

VARIABLES
    status,      \* status[t]: "none", "active" or "revoked"
    owner,       \* owner[t]: the user of token t
    predecessor  \* predecessor[t]: the token t replaced

vars == <<status, owner, predecessor>>

Init ==
    /\ status = [t \in Token |-> "none"]
    /\ owner = [t \in Token |-> NoOwner]
    /\ predecessor = [t \in Token |-> NoToken]

Add(t, u, p) ==
    /\ status[t] = "none"
    /\ status' = [status EXCEPT ![t] = "active"]
    /\ owner' = [owner EXCEPT ![t] = u]
    /\ predecessor' = [predecessor EXCEPT ![t] = p]

\* A login opens a session.
Open(t, u) == Add(t, u, NoToken)

\* A refresh replaces a token of the same user that can no longer be used.
Rotate(t, p) ==
    /\ status[p] = "revoked"
    /\ Add(t, owner[p], p)

\* A logout, a rotation or a change of password ends sessions of one user.
End(S, u) ==
    /\ \A t \in S : owner[t] = u /\ status[t] # "none"
    /\ status' = [t \in Token |-> IF t \in S THEN "revoked" ELSE status[t]]
    /\ UNCHANGED <<owner, predecessor>>

Next ==
    \/ \E t \in Token, u \in Owner : Open(t, u)
    \/ \E t, p \in Token : Rotate(t, p)
    \/ \E u \in Owner, S \in SUBSET Token : End(S, u)

Spec == Init /\ [][Next]_vars
=============================================================================
