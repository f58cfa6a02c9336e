SPECIFICATION Spec
CONSTANTS
    Request = {r1, r2}
    boss = boss
    anna = anna
    bert = bert
    User = {boss, anna, bert}
    e1 = e1
    e2 = e2
    e3 = e3
    Email = {e1, e2, e3}
    s1 = s1
    s2 = s2
    Subject = {s1, s2}
    State = {q1, q2}
    Claim <- Claimed
    Permission = {"user.update"}
    None = None
    Seeds <- SomeTables
    Bodies <- SomeBodies
    MaxInFlight = 2
    MaxTokens = 1
INVARIANTS
    TypeOK
    SubjectOnce
    OfferedIsAssignable
    RolesWereChecked
PROPERTY
    RoleChangeTakesEffect
