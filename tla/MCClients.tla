------------------------------ MODULE MCClients -----------------------------
EXTENDS Clients

Header(l, d) == [lookup |-> l, dims |-> d]

MCChains ==
    {<<Header("app", "wide"), Header("app", "wide"), Header("app", "wide")>>,
     <<Header("other", "invalid"), Header("empty", "wide"), Header("app", "wide")>>,
     <<Header("empty", "wide"), Header("app", "narrow"), Header("other", "invalid")>>}

MCOptions ==
    {[app |-> TRUE, fat |-> FALSE, start |-> 1], [app |-> FALSE, fat |-> FALSE, start |-> 1],
     [app |-> TRUE, fat |-> TRUE, start |-> None]}
=============================================================================
