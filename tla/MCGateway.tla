----------------------------- MODULE MCGateway -----------------------------
(* Model-checking instance of Gateway.                                     *)
EXTENDS Settings, TLC

CONSTANTS k1, k2, kds, hall, m1, r1, r2, q1, none

\* The second restaurant has orders that the kitchen and the hall display of the
\* first must leave alone.
At == (k1 :> r1) @@ (k2 :> r2) @@ (kds :> r1) @@ (hall :> r1)

\* A drink of two sizes, the second one the default, and a burger.  The price
\* of the default rounds up; then it changes to one that falls short of the
\* half, and the burger is sold out.
Drink(small, large) ==
    [available |-> TRUE, price |-> small,
     variations |-> << [id |-> "s", price |-> small, default |-> FALSE],
                       [id |-> "m", price |-> large, default |-> TRUE] >>]
Burger(price, available) == [available |-> available, price |-> price, variations |-> <<>>]

TwoMenus == << [drink |-> Drink(20, 35), burger |-> Burger(14, TRUE)],
               [drink |-> Drink(20, 145), burger |-> Burger(14, FALSE)] >>

\* Two prices below 0.30 for which this is so, in tenths of a kopeck.
BelowHalf == {145, 285}

\* What GatewayProofs asks of the menus for PaidIsCharged.
ASSUME ClearInstance == ClearMenus

Line(item, variation, quantity) ==
    [item |-> item, variation |-> variation, quantity |-> quantity]
TwoCarts == { << Line("drink", none, 1) >>,
              << Line("drink", "s", 1), Line("burger", none, 2) >> }

\* One point, and two numbers that int32 makes one point of; the last also
\* has the discount of one point, as its product overflows.
SomePoints == {0, 1, Int32Span + 1, (Int32Span * Int32Span) \div PointValue + 1}

\* A kitchen also tries what it may not.
SomeTaps == {"preparing", "completed", "cancelled"}

----------------------------------------------------------------------------
(* Environments of the process and .env files in two directories.          *)

CONSTANTS secretA, secretB, unset, noFile

Nothing == [n \in Names |-> unset]
With(env, echo, device, customer) ==
    [Nothing EXCEPT !["APP_ENV"] = env, !["CUSTOMER_DEV_ECHO_CODE"] = echo,
                    !["JWT_DEVICE_SECRET"] = device, !["CUSTOMER_JWT_SECRET"] = customer]

SomeProcesses ==
    {With(env, echo, secretA, customer) :
        env \in {unset, "development", "production", "Production"},
        echo \in {unset, "", "off"}, customer \in {unset, secretA, secretB}}

FileWith(echo) == With("production", echo, unset, secretB)
FileNames == {<<"local">>, <<>>, <<"development", "local">>, <<"development">>, <<"production">>}
SomeDirectories ==
    {<<near, far>> :
        near \in UNION {[names -> {FileWith(unset), FileWith(""), FileWith("on"), noFile}] :
                            names \in SUBSET (FileNames \ {<<"production">>})},
        far \in {[names \in {<<>>, <<"production">>} |-> FileWith("on")], <<>>}}
=============================================================================
