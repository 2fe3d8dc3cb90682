--------------------------- MODULE MCAccessGates ---------------------------
EXTENDS AccessGates

Environment(family, admin, secret) ==
  [family |-> family, admin |-> admin, secret |-> secret]

\* Two codes apart, the same code twice, the codes exchanged, no admin code, a new secret.
MCConfigurations ==
  {Environment("fox", "owl", "s1"), Environment("fox", "fox", "s1"),
   Environment("owl", "fox", "s1"), Environment("fox", Blank, "s1"),
   Environment("fox", "owl", "s2")}

\* A household's allowance above a caller's, as the defaults have it (60 and 20).
MCLimit == [l \in Limiters |-> IF l[1] = "sign-in of all" THEN 2 ELSE 1]
=============================================================================
