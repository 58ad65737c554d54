---------------------------- MODULE MCMenuCache ----------------------------
(* Model-checking instances of MenuCache.                                  *)
EXTENDS MenuCache

CONSTANTS r1, r2, f1, durable, live

OneRestaurant == {r1}
TwoRestaurants == {r1, r2}
OneFetcher == {f1}
Durable == {durable}
Live == {live}
Nobody == {}
Both == {durable, live}

\* r1 has a promotion boundary, r2 has none.
Boundaries == [r \in Restaurants |-> IF r = r1 THEN 4 ELSE 0]
=============================================================================
