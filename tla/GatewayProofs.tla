--------------------------- MODULE GatewayProofs ---------------------------
(***************************************************************************)
(* Proofs about Gateway, for any number of devices, restaurants, members,  *)
(* tokens, orders, menus and requests in flight.  The route table is read  *)
(* off once (CheckTable): what a token needs on each path.  What is then   *)
(* kept in Inv says of a request what its token showed when it began.      *)
(***************************************************************************)
EXTENDS Gateway, SequenceTheorems, TLAPS

----------------------------------------------------------------------------
(* The routes, one by one: registerRoutes joins four lists.                *)

RouteSet == {Public[i] : i \in 1 .. 9} \cup {Auth[i] : i \in 1 .. 4}
                \cup {Customer[i] : i \in 1 .. 6} \cup {Device[i] : i \in 1 .. 7}

LEMMA Joined ==
    ASSUME NEW S, NEW a \in Seq(S), NEW b \in Seq(S), NEW c, c = a \o b
    PROVE  /\ c \in Seq(S) /\ Len(c) = Len(a) + Len(b)
           /\ \A i \in 1 .. Len(a) : c[i] = a[i]
           /\ \A i \in 1 .. Len(b) : c[Len(a) + i] = b[i]
OBVIOUS

LEMMA RouteTable ==
    /\ Routes \in Seq(RouteSet) /\ Len(Routes) = 26
    /\ \A i \in 1 .. 9 : Routes[i] = Public[i]
    /\ \A i \in 1 .. 4 : Routes[9 + i] = Auth[i]
    /\ \A i \in 1 .. 6 : Routes[13 + i] = Customer[i]
    /\ \A i \in 1 .. 7 : Routes[19 + i] = Device[i]
<1>0. /\ Len(Public) = 9 /\ Len(Auth) = 4 /\ Len(Customer) = 6 /\ Len(Device) = 7
    BY DEF Public, Auth, Customer, Device
<1>1. /\ Public = [i \in 1 .. 9 |-> Public[i]] /\ Auth = [i \in 1 .. 4 |-> Auth[i]]
    BY DEF Public, Auth
<1>14. /\ Customer = [i \in 1 .. 6 |-> Customer[i]] /\ Device = [i \in 1 .. 7 |-> Device[i]]
    BY DEF Customer, Device
<1>2. /\ Public \in Seq(RouteSet) /\ Auth \in Seq(RouteSet)
      /\ Customer \in Seq(RouteSet) /\ Device \in Seq(RouteSet)
    BY <1>0, <1>1, <1>14 DEF RouteSet
<1> DEFINE two == Public \o Auth
           three == two \o Customer
<1>3. two = Public \o Auth
    OBVIOUS
<1>4. three = two \o Customer
    OBVIOUS
<1>5. Routes = three \o Device
    BY DEF Routes
<1> HIDE DEF two, three
<1>6. /\ two \in Seq(RouteSet) /\ Len(two) = Len(Public) + Len(Auth)
      /\ \A i \in 1 .. Len(Public) : two[i] = Public[i]
      /\ \A i \in 1 .. Len(Auth) : two[Len(Public) + i] = Auth[i]
    BY <1>2, <1>3, Joined
<1>7. /\ three \in Seq(RouteSet) /\ Len(three) = Len(two) + Len(Customer)
      /\ \A i \in 1 .. Len(two) : three[i] = two[i]
      /\ \A i \in 1 .. Len(Customer) : three[Len(two) + i] = Customer[i]
    <2>1. two \in Seq(RouteSet)
        BY <1>6
    <2>2. Customer \in Seq(RouteSet)
        BY <1>2
    <2> QED
        BY <2>1, <2>2, <1>4, Joined
<1>8. /\ Routes \in Seq(RouteSet) /\ Len(Routes) = Len(three) + Len(Device)
      /\ \A i \in 1 .. Len(three) : Routes[i] = three[i]
      /\ \A i \in 1 .. Len(Device) : Routes[Len(three) + i] = Device[i]
    <2>1. three \in Seq(RouteSet)
        BY <1>7
    <2>2. Device \in Seq(RouteSet)
        BY <1>2
    <2> QED
        BY <2>1, <2>2, <1>5, Joined
<1>9. Len(two) = 13 /\ Len(three) = 19 /\ Len(Routes) = 26
    BY <1>0, <1>6, <1>7, <1>8
<1>10. \A i \in 1 .. 9 : Routes[i] = Public[i]
    <2> TAKE i \in 1 .. 9
    <2>1. /\ i \in 1 .. Len(Public) /\ i \in 1 .. Len(two) /\ i \in 1 .. Len(three)
        BY <1>0, <1>9
    <2> QED
        BY <1>6, <1>7, <1>8, <2>1
<1>11. \A i \in 1 .. 4 : Routes[9 + i] = Auth[i]
    <2> TAKE i \in 1 .. 4
    <2>1. /\ i \in 1 .. Len(Auth) /\ 9 + i \in 1 .. Len(two) /\ 9 + i \in 1 .. Len(three)
        BY <1>0, <1>9
    <2>2. two[9 + i] = Auth[i]
        BY <1>0, <1>6, <2>1
    <2> QED
        BY <1>7, <1>8, <2>1, <2>2
<1>12. \A i \in 1 .. 6 : Routes[13 + i] = Customer[i]
    <2> TAKE i \in 1 .. 6
    <2>1. /\ i \in 1 .. Len(Customer) /\ 13 + i \in 1 .. Len(three)
        BY <1>0, <1>9
    <2>2. three[13 + i] = Customer[i]
        BY <1>7, <1>9, <2>1
    <2> QED
        BY <1>8, <2>1, <2>2
<1>13. \A i \in 1 .. 7 : Routes[19 + i] = Device[i]
    BY <1>0, <1>8, <1>9
<1> QED
    BY <1>8, <1>9, <1>10, <1>11, <1>12, <1>13

----------------------------------------------------------------------------
\* The checks of a path that has a route.
Open(path) ==
    \/ path[1] \in {"public", "restaurants"}
    \/ path = <<"devices", "pair">>
    \/ path[1] = "customer" /\ path[2] = "auth"
TypeChecks(first) ==
    CASE first = "kiosk"   -> {"device", "kiosk"}
      [] first = "kitchen" -> {"device", "kds"}
      [] first = "display" -> {"device", "display"}
      [] first = "device"  -> {"device", "screens"}
      [] first = "devices" -> {"device"}
      [] first = "customer" -> {"customer"}
ChecksOf(path) == IF Open(path) THEN {} ELSE TypeChecks(path[1])

Screens == {"devices", "kiosk", "kitchen", "display", "device"}
Firsts == {"public", "restaurants", "customer"} \cup Screens
Words == Firsts \cup {"pair", "id", "menu", "stream", "regions", "orders", "loyalty", "program",
                      "auth", "code", "verify", "refresh", "logout", "me", "points", "identify",
                      "status"}

\* A route and what the group, if it stands before the route, adds to its checks.
RouteOK(r, grouped) ==
    /\ r.use = FALSE /\ r.path \in Seq(Words) /\ Len(r.path) >= 2 /\ r.path[1] \in Firsts
    /\ r.checks \cup (IF grouped /\ r.path[1] = "customer" THEN {"customer"} ELSE {})
           = ChecksOf(r.path)

LEMMA Tuples ==
    ASSUME NEW S, NEW a \in S, NEW b \in S, NEW c \in S, NEW d \in S
    PROVE  <<a, b>> \in Seq(S) /\ <<a, b, c>> \in Seq(S) /\ <<a, b, c, d>> \in Seq(S)
OBVIOUS

LEMMA PublicOK == \A i \in 1 .. 9 : RouteOK(Public[i], FALSE)
<1>1. /\ <<"devices", "pair">> \in Seq(Words)
      /\ <<"restaurants", "id", "menu">> \in Seq(Words)
      /\ <<"restaurants", "id", "menu", "stream">> \in Seq(Words)
      /\ <<"public", "regions">> \in Seq(Words)
      /\ <<"public", "restaurants">> \in Seq(Words)
      /\ <<"public", "restaurants", "id">> \in Seq(Words)
      /\ <<"public", "orders", "id">> \in Seq(Words)
      /\ <<"public", "loyalty", "program">> \in Seq(Words)
      /\ <<"public", "orders", "id", "stream">> \in Seq(Words)
    BY Tuples DEF Words, Firsts, Screens
<1>2. \A i \in 1 .. 9 :
          Public[i].path \in {<<"devices", "pair">>, <<"restaurants", "id", "menu">>,
                              <<"restaurants", "id", "menu", "stream">>, <<"public", "regions">>,
                              <<"public", "restaurants">>, <<"public", "restaurants", "id">>,
                              <<"public", "orders", "id">>, <<"public", "loyalty", "program">>,
                              <<"public", "orders", "id", "stream">>}
    BY DEF Public, Route
<1>3. \A i \in 1 .. 9 : /\ Public[i].checks = {} /\ Public[i].use = FALSE
                        /\ Len(Public[i].path) >= 2
    BY DEF Public, Route
<1>4. \A i \in 1 .. 9 : \/ Public[i].path[1] \in {"public", "restaurants"}
                        \/ Public[i].path = <<"devices", "pair">>
    BY DEF Public, Route
<1>5. \A i \in 1 .. 9 : Public[i].path \in Seq(Words)
    BY <1>1, <1>2
<1>6. \A i \in 1 .. 9 : Public[i].path[1] \in Firsts
    BY <1>4 DEF Firsts, Screens
<1> QED
    BY <1>3, <1>4, <1>5, <1>6 DEF RouteOK, ChecksOf, Open

LEMMA AuthOK == \A i \in 1 .. 4 : RouteOK(Auth[i], FALSE)
<1>1. /\ <<"customer", "auth", "code">> \in Seq(Words)
      /\ <<"customer", "auth", "verify">> \in Seq(Words)
      /\ <<"customer", "auth", "refresh">> \in Seq(Words)
      /\ <<"customer", "auth", "logout">> \in Seq(Words)
    BY Tuples DEF Words, Firsts, Screens
<1>2. \A i \in 1 .. 4 :
          Auth[i].path \in {<<"customer", "auth", "code">>, <<"customer", "auth", "verify">>,
                            <<"customer", "auth", "refresh">>, <<"customer", "auth", "logout">>}
    BY DEF Auth, Route
<1>3. \A i \in 1 .. 4 : /\ Auth[i].checks = {} /\ Auth[i].use = FALSE
                        /\ Len(Auth[i].path) >= 2
                        /\ Auth[i].path[1] = "customer" /\ Auth[i].path[2] = "auth"
    BY DEF Auth, Route
<1>4. \A i \in 1 .. 4 : Auth[i].path \in Seq(Words)
    BY <1>1, <1>2
<1> QED
    BY <1>3, <1>4 DEF RouteOK, ChecksOf, Open, Firsts

LEMMA CustomerOK == \A i \in 2 .. 6 : RouteOK(Customer[i], TRUE)
<1>1. /\ <<"customer", "me">> \in Seq(Words)
      /\ <<"customer", "me", "points">> \in Seq(Words)
      /\ <<"customer", "me", "code">> \in Seq(Words)
      /\ <<"customer", "me", "orders">> \in Seq(Words)
      /\ <<"customer", "restaurants", "id", "orders">> \in Seq(Words)
    BY Tuples DEF Words, Firsts, Screens
<1>2. \A i \in 2 .. 6 :
          Customer[i].path \in {<<"customer", "me">>, <<"customer", "me", "points">>,
                                <<"customer", "me", "code">>, <<"customer", "me", "orders">>,
                                <<"customer", "restaurants", "id", "orders">>}
    BY DEF Customer, Route
<1>3. \A i \in 2 .. 6 : /\ Customer[i].checks = {} /\ Customer[i].use = FALSE
                        /\ Len(Customer[i].path) >= 2
    <2>1. \A i \in 2 .. 6 : Customer[i].checks = {}
        BY DEF Customer, Route
    <2>2. \A i \in 2 .. 6 : Customer[i].use = FALSE
        BY DEF Customer, Route
    <2>3. ASSUME NEW i \in 2 .. 6 PROVE Len(Customer[i].path) >= 2
        <3>1. /\ Len(Customer[2].path) = 2 /\ Len(Customer[3].path) = 3 /\ Len(Customer[4].path) = 3
              /\ Len(Customer[5].path) = 3 /\ Len(Customer[6].path) = 4
            BY DEF Customer, Route
        <3>2. i \in {2, 3, 4, 5, 6}
            OBVIOUS
        <3>3. Len(Customer[i].path) \in {2, 3, 4}
            BY <3>1, <3>2, Zenon
        <3>4. \A n \in {2, 3, 4} : n >= 2
            OBVIOUS
        <3> QED
            BY <3>3, <3>4, Zenon
    <2> QED
        BY <2>1, <2>2, <2>3
<1>4. \A i \in 2 .. 6 : Customer[i].path[1] = "customer" /\ Customer[i].path[2] # "auth"
    BY DEF Customer, Route
<1>5. \A i \in 2 .. 6 : Customer[i].path \in Seq(Words)
    BY <1>1, <1>2
<1>6. \A i \in 2 .. 6 : ~Open(Customer[i].path)
    <2>1. <<"devices", "pair">>[1] = "devices"
        OBVIOUS
    <2> QED
        BY <1>4, <2>1 DEF Open
<1> QED
    BY <1>3, <1>4, <1>5, <1>6 DEF RouteOK, ChecksOf, TypeChecks, Firsts

LEMMA DeviceOK == \A i \in 1 .. 7 : RouteOK(Device[i], TRUE)
<1>1. /\ <<"devices", "me">> \in Seq(Words)
      /\ <<"kiosk", "orders">> \in Seq(Words)
      /\ <<"kiosk", "loyalty", "identify">> \in Seq(Words)
      /\ <<"kitchen", "orders">> \in Seq(Words)
      /\ <<"kitchen", "orders", "id", "status">> \in Seq(Words)
      /\ <<"display", "orders">> \in Seq(Words)
      /\ <<"device", "orders", "stream">> \in Seq(Words)
    BY Tuples DEF Words, Firsts, Screens
<1>2. \A i \in 1 .. 7 :
          Device[i].path \in {<<"devices", "me">>, <<"kiosk", "orders">>,
                              <<"kiosk", "loyalty", "identify">>, <<"kitchen", "orders">>,
                              <<"kitchen", "orders", "id", "status">>, <<"display", "orders">>,
                              <<"device", "orders", "stream">>}
    BY DEF Device, Route
<1>3. \A i \in 1 .. 7 : Device[i].use = FALSE /\ Len(Device[i].path) >= 2
    <2>1. \A i \in 1 .. 7 : Device[i].use = FALSE
        BY DEF Device, Route
    <2>2. /\ Len(Device[1].path) = 2 /\ Len(Device[2].path) = 2 /\ Len(Device[3].path) = 3
          /\ Len(Device[4].path) = 2 /\ Len(Device[5].path) = 4 /\ Len(Device[6].path) = 2
          /\ Len(Device[7].path) = 3
        BY DEF Device, Route
    <2>3. ASSUME NEW i \in 1 .. 7 PROVE Len(Device[i].path) >= 2
        <3>1. i \in {1, 2, 3, 4, 5, 6, 7}
            OBVIOUS
        <3>2. Len(Device[i].path) \in {2, 3, 4}
            BY <2>2, <3>1, Zenon
        <3>3. \A n \in {2, 3, 4} : n >= 2
            OBVIOUS
        <3> QED
            BY <3>2, <3>3, Zenon
    <2> QED
        BY <2>1, <2>3, Zenon
<1>4. \A i \in 1 .. 7 : Device[i].path[1] \in Screens
    BY DEF Device, Route, Screens
<1>5. \A i \in 1 .. 7 : Device[i].path \in Seq(Words)
    BY <1>1, <1>2
<1>6. \A i \in 1 .. 7 : Device[i].path # <<"devices", "pair">>
    BY DEF Device, Route
<1>7. \A i \in 1 .. 7 : Device[i].path[1] = "devices" => Device[i].checks = {"device"}
    BY DEF Device, Route
<1>8. \A i \in 1 .. 7 : Device[i].path[1] = "kiosk" => Device[i].checks = {"device", "kiosk"}
    BY DEF Device, Route
<1>9. \A i \in 1 .. 7 : Device[i].path[1] = "kitchen" => Device[i].checks = {"device", "kds"}
    BY DEF Device, Route
<1>10. \A i \in 1 .. 7 : Device[i].path[1] = "display" => Device[i].checks = {"device", "display"}
    BY DEF Device, Route
<1>11. \A i \in 1 .. 7 : Device[i].path[1] = "device" => Device[i].checks = {"device", "screens"}
    BY DEF Device, Route
<1> SUFFICES ASSUME NEW i \in 1 .. 7 PROVE RouteOK(Device[i], TRUE)
    OBVIOUS
<1> DEFINE first == Device[i].path[1]
<1>12. first \in Screens
    BY <1>4
<1>13. Device[i].checks = TypeChecks(first)
    BY <1>7, <1>8, <1>9, <1>10, <1>11, <1>12 DEF TypeChecks, Screens
<1>14. first \notin {"public", "restaurants", "customer"}
    BY <1>12 DEF Screens
<1>15. ~Open(Device[i].path)
    BY <1>6, <1>14 DEF Open
<1> QED
    BY <1>3, <1>5, <1>12, <1>13, <1>14, <1>15 DEF RouteOK, ChecksOf, Firsts

LEMMA RoutesOK ==
    /\ \A i \in 1 .. 26 \ {14} : RouteOK(Routes[i], i > 14)
    /\ Routes[14] = Group(<<"customer">>, {"customer"})
<1>1. \A i \in 1 .. 9 : Routes[i] = Public[i]
    BY RouteTable
<1>2. \A i \in 1 .. 4 : Routes[9 + i] = Auth[i]
    BY RouteTable
<1>3. \A i \in 1 .. 6 : Routes[13 + i] = Customer[i]
    BY RouteTable
<1>4. \A i \in 1 .. 7 : Routes[19 + i] = Device[i]
    BY RouteTable
<1> SUFFICES ASSUME NEW i \in 1 .. 26
             PROVE  /\ i # 14 => RouteOK(Routes[i], i > 14)
                    /\ Routes[14] = Group(<<"customer">>, {"customer"})
    OBVIOUS
<1>5. Routes[14] = Group(<<"customer">>, {"customer"})
    <2>1. Routes[13 + 1] = Customer[1]
        BY <1>3
    <2> QED
        BY <2>1 DEF Customer
<1>6. CASE i \in 1 .. 9
    <2>1. Routes[i] = Public[i] /\ (i > 14) = FALSE
        BY <1>1, <1>6
    <2> QED
        BY <1>5, <1>6, <2>1, PublicOK
<1>7. CASE i \in 10 .. 13
    <2>1. i - 9 \in 1 .. 4 /\ 9 + (i - 9) = i
        BY <1>7
    <2>2. Routes[i] = Auth[i - 9]
        BY <2>1, <1>2
    <2>3. (i > 14) = FALSE
        BY <1>7
    <2> QED
        BY <1>5, <2>1, <2>2, <2>3, AuthOK
<1>8. CASE i \in 14 .. 19
    <2>1. i - 13 \in 1 .. 6 /\ 13 + (i - 13) = i /\ (i # 14 => i - 13 \in 2 .. 6)
        BY <1>8
    <2>2. Routes[i] = Customer[i - 13]
        BY <2>1, <1>3
    <2>3. i # 14 => (i > 14) = TRUE
        BY <1>8
    <2> QED
        BY <1>5, <2>1, <2>2, <2>3, CustomerOK
<1>9. CASE i \in 20 .. 26
    <2>1. i - 19 \in 1 .. 7 /\ 19 + (i - 19) = i
        BY <1>9
    <2>2. Routes[i] = Device[i - 19]
        BY <2>1, <1>4
    <2>3. (i > 14) = TRUE
        BY <1>9
    <2> QED
        BY <1>5, <2>1, <2>2, <2>3, DeviceOK
<1> QED
    BY <1>6, <1>7, <1>8, <1>9

LEMMA FirstOf ==
    ASSUME NEW S, NEW path \in Seq(S), Len(path) >= 1
    PROVE  SubSeq(path, 1, 1) = <<path[1]>>
<1> DEFINE s == SubSeq(path, 1, 1)
           t == <<path[1]>>
<1>1. t \in Seq(S) /\ Len(t) = 1 /\ t[1] = path[1]
    OBVIOUS
<1>2. s \in Seq(S) /\ Len(s) = 1 /\ s[1] = path[1]
    OBVIOUS
<1> HIDE DEF s, t
<1>3. \A i \in 1 .. Len(s) : s[i] = t[i]
    BY <1>1, <1>2
<1>4. s = t
    BY <1>1, <1>2, <1>3, SeqEqual
<1> QED
    BY <1>4 DEF s, t

LEMMA FirstTwoOf ==
    ASSUME NEW S, NEW path \in Seq(S), Len(path) >= 2
    PROVE  SubSeq(path, 1, 2) = <<path[1], path[2]>>
<1> DEFINE s == SubSeq(path, 1, 2)
           t == <<path[1], path[2]>>
<1>1. t \in Seq(S) /\ Len(t) = 2 /\ t[1] = path[1] /\ t[2] = path[2]
    OBVIOUS
<1>2. s \in Seq(S) /\ Len(s) = 2 /\ s[1] = path[1] /\ s[2] = path[2]
    OBVIOUS
<1> HIDE DEF s, t
<1>3. \A i \in 1 .. Len(s) : s[i] = t[i]
    BY <1>1, <1>2
<1>4. s = t
    BY <1>1, <1>2, <1>3, SeqEqual
<1> QED
    BY <1>4 DEF s, t

\* The prefix of a group is one word.
LEMMA Prefixed ==
    ASSUME NEW S, NEW path \in Seq(S), Len(path) >= 1, NEW prefix \in Seq(S), Len(prefix) = 1
    PROVE  IsPrefix(prefix, path) <=> prefix[1] = path[1]
<1>1. SubSeq(path, 1, 1) = <<path[1]>> /\ SubSeq(prefix, 1, 1) = <<prefix[1]>>
    <2>1. Len(prefix) >= 1
        OBVIOUS
    <2>2. SubSeq(path, 1, 1) = <<path[1]>>
        BY FirstOf
    <2>3. SubSeq(prefix, 1, 1) = <<prefix[1]>>
        BY <2>1, FirstOf
    <2> QED
        BY <2>2, <2>3
<1>2. <<path[1]>> = <<prefix[1]>> <=> path[1] = prefix[1]
    OBVIOUS
<1>3. Len(path) \in Nat
    OBVIOUS
<1> QED
    BY <1>1, <1>2, <1>3 DEF IsPrefix

\* What DeviceAuth, CustomerAuth and RequireDeviceType ask for on each path.
LEMMA CheckTable ==
    ASSUME NEW path \in Paths
    PROVE  /\ Checks[path] = ChecksOf(path)
           /\ path \in Seq(Words) /\ Len(path) >= 2 /\ path[1] \in Firsts
           /\ path \in OpenPaths <=> Open(path)
<1>0. Len(Routes) = 26 /\ Routes[14].use = TRUE /\ Routes[14].path = <<"customer">>
      /\ Routes[14].checks = {"customer"}
    BY RouteTable, RoutesOK DEF Group
<1>10. Routes[14].path \in Seq(Words) /\ Len(Routes[14].path) = 1 /\ Routes[14].path[1] = "customer"
    BY <1>0 DEF Words, Firsts
<1>1. \A i \in 1 .. 26 \ {14} :
          /\ Routes[i].use = FALSE /\ Routes[i].path \in Seq(Words)
          /\ Len(Routes[i].path) >= 2 /\ Routes[i].path[1] \in Firsts
          /\ Routes[i].checks \cup (IF i > 14 /\ Routes[i].path[1] = "customer" THEN {"customer"} ELSE {})
                 = ChecksOf(Routes[i].path)
    BY RoutesOK DEF RouteOK
<1> DEFINE route == CHOOSE i \in 1..Len(Routes) : ~Routes[i].use /\ Routes[i].path = path
           Before == {i \in 1..route : Routes[i].use /\ IsPrefix(Routes[i].path, path)}
<1>2. Checks[path] = UNION {Routes[i].checks : i \in Before \cup {route}}
    BY DEF Checks
<1>3. route \in 1 .. Len(Routes) /\ ~Routes[route].use /\ Routes[route].path = path
    <2>1. \E i \in 1..Len(Routes) : ~Routes[i].use /\ Routes[i].path = path
        BY DEF Paths
    <2> QED
        BY <2>1
<1> HIDE DEF route
<1>4. route \in 1 .. 26 \ {14}
    BY <1>0, <1>3
<1>5. path \in Seq(Words) /\ Len(path) >= 2 /\ path[1] \in Firsts
    BY <1>1, <1>3, <1>4
<1>6. Before = IF route > 14 /\ path[1] = "customer" THEN {14} ELSE {}
    <2>1. IsPrefix(Routes[14].path, path) <=> path[1] = "customer"
        BY <1>5, <1>10, Prefixed
    <2>2. \A i \in 1 .. route : Routes[i].use <=> i = 14
        BY <1>0, <1>1, <1>4
    <2>3. 14 \in 1 .. route <=> route > 14
        BY <1>4
    <2>4. \A i : i \in Before <=> i = 14 /\ route > 14 /\ path[1] = "customer"
        BY <2>1, <2>2, <2>3
    <2> QED
        BY <2>4
<1> HIDE DEF Before
<1>7. Checks[path] = Routes[route].checks
          \cup (IF route > 14 /\ path[1] = "customer" THEN {"customer"} ELSE {})
    <2>1. CASE route > 14 /\ path[1] = "customer"
        BY <1>0, <1>2, <1>6, <2>1
    <2>2. CASE ~(route > 14 /\ path[1] = "customer")
        BY <1>2, <1>6, <2>2
    <2> QED
        BY <2>1, <2>2
<1>8. Checks[path] = ChecksOf(path)
    BY <1>1, <1>3, <1>4, <1>7
<1>9. path \in OpenPaths <=> Open(path)
    BY <1>5, FirstTwoOf DEF OpenPaths, Open
<1> QED
    BY <1>5, <1>8, <1>9

\* The paths of the requests that change something.
LEMMA SomePaths ==
    /\ <<"kiosk", "orders">> \in Paths
    /\ <<"customer", "restaurants", "id", "orders">> \in Paths
    /\ <<"kitchen", "orders", "id", "status">> \in Paths
    /\ <<"customer", "me", "code">> \in Paths
    /\ <<"kiosk", "loyalty", "identify">> \in Paths
    /\ <<"customer", "me">> \in Paths
    /\ <<"kitchen", "orders">> \in Paths
    /\ <<"display", "orders">> \in Paths
    /\ <<"customer", "me", "orders">> \in Paths
<1>1. \A i \in 1 .. 26 \ {14} : Routes[i].path \in Paths
    BY RouteTable, RoutesOK DEF Paths, RouteOK
<1>2. /\ Routes[16].path = <<"customer", "me", "points">>
      /\ Routes[15].path = <<"customer", "me">>
      /\ Routes[17].path = <<"customer", "me", "code">>
      /\ Routes[18].path = <<"customer", "me", "orders">>
      /\ Routes[19].path = <<"customer", "restaurants", "id", "orders">>
    <2>1. /\ Routes[13 + 2] = Customer[2] /\ Routes[13 + 3] = Customer[3]
          /\ Routes[13 + 4] = Customer[4] /\ Routes[13 + 5] = Customer[5]
          /\ Routes[13 + 6] = Customer[6]
        BY RouteTable
    <2> QED
        BY <2>1 DEF Customer, Route
<1>3. /\ Routes[21].path = <<"kiosk", "orders">>
      /\ Routes[22].path = <<"kiosk", "loyalty", "identify">>
      /\ Routes[23].path = <<"kitchen", "orders">>
      /\ Routes[24].path = <<"kitchen", "orders", "id", "status">>
      /\ Routes[25].path = <<"display", "orders">>
    <2>1. /\ Routes[19 + 2] = Device[2] /\ Routes[19 + 3] = Device[3]
          /\ Routes[19 + 4] = Device[4] /\ Routes[19 + 5] = Device[5]
          /\ Routes[19 + 6] = Device[6]
        BY RouteTable
    <2> QED
        BY <2>1 DEF Device, Route
<1> QED
    BY <1>1, <1>2, <1>3

----------------------------------------------------------------------------
\* The tokens, requests and orders there can be.
DeviceTokens == [by : {"device"}, aud : {""}, member : {Nobody}, device : Devices, exp : Nat]
AccessTokens ==
    [by : {"customer"}, aud : {"kfc-customer"}, member : Members, device : {Nobody}, exp : Nat]
KioskTokens ==
    [by : {"customer"}, aud : {"kfc-kiosk-loyalty"}, member : Members, device : Kiosks, exp : Nat]
AllTokens == DeviceTokens \cup AccessTokens \cup KioskTokens

LEMMA WhoIs ==
    /\ Kiosks \subseteq Devices /\ Kitchens \subseteq Devices /\ Displays \subseteq Devices
    /\ Nobody \notin Devices /\ Nobody \notin Members
    /\ Kiosks \cap Kitchens = {} /\ Kiosks \cap Displays = {} /\ Kitchens \cap Displays = {}
    /\ Members \cap Devices = {}
    /\ \A d \in Devices : RestaurantOf[d] \in Restaurants
    /\ DeviceTTL \in Nat /\ AccessTTL \in Nat /\ KioskTTL \in Nat /\ CodeTTL \in Nat
    /\ MaxNow \in Nat
BY GatewayAssumption DEF Devices, Restaurants

\* Which tokens are accepted as what: no token stands for one of another kind.
LEMMA Kinds ==
    ASSUME NEW t \in AllTokens
    PROVE  /\ VerifyAccess(t) <=> t.aud = "kfc-customer" /\ now < t.exp
           /\ VerifyAccess(t) => t \in AccessTokens
           /\ VerifyKioskSession(t) <=> t.aud = "kfc-kiosk-loyalty" /\ now < t.exp
           /\ VerifyKioskSession(t) => t \in KioskTokens
           /\ VerifyDevice(t) <=> t.by = "device" /\ now < t.exp
           /\ VerifyDevice(t) => t \in DeviceTokens
           /\ t.exp \in Nat
           /\ t.device \in Devices \cup {Nobody}
           /\ t.member \in Members \cup {Nobody}
<1> USE DEF VerifyAccess, VerifyKioskSession, VerifyDevice, ParseCustomer, Parses
<1>1. CASE t \in DeviceTokens
    BY <1>1, WhoIs DEF DeviceTokens
<1>2. CASE t \in AccessTokens
    BY <1>2, WhoIs DEF AccessTokens
<1>3. CASE t \in KioskTokens
    BY <1>3, WhoIs DEF KioskTokens
<1> QED
    BY <1>1, <1>2, <1>3 DEF AllTokens

LEMMA NoTokenIsNothing ==
    /\ ~VerifyAccess(NoToken) /\ ~VerifyKioskSession(NoToken) /\ ~VerifyDevice(NoToken)
    /\ NoToken.member = Nobody /\ NoToken.device = Nobody /\ NoToken.exp = 0
    /\ NoToken.by = "" /\ NoToken.aud = ""
BY DEF VerifyAccess, VerifyKioskSession, VerifyDevice, ParseCustomer, Parses, NoToken, Token

\* Who gets through to the handler of a path.
LEMMA WhoPasses ==
    ASSUME NEW path \in Paths, NEW t \in AllTokens \cup {NoToken}
    PROVE  Passes(path, t) <=>
               \/ Open(path)
               \/ ~Open(path) /\ path[1] = "customer" /\ VerifyAccess(t)
               \/ /\ ~Open(path) /\ path[1] \in Screens /\ VerifyDevice(t)
                  /\ t.device \in ScreensFor[path] \ revoked
<1>1. Checks[path] = ChecksOf(path) /\ path[1] \in Firsts
    BY CheckTable
<1>2. CASE Open(path)
    BY <1>1, <1>2 DEF Passes, ChecksOf
<1>3. CASE ~Open(path) /\ path[1] = "customer"
    <2>1. Checks[path] = {"customer"}
        BY <1>1, <1>3 DEF ChecksOf, TypeChecks
    <2>2. Clears("customer", t) <=> VerifyAccess(t)
        BY DEF Clears
    <2> QED
        BY <1>3, <2>1, <2>2 DEF Passes, Screens
<1>4. CASE ~Open(path) /\ path[1] \in Screens
    <2>1. Clears("device", t) <=> VerifyDevice(t) /\ t.device \notin revoked
        BY DEF Clears
    <2>2. VerifyDevice(t) => t.device \in Devices
        <3>1. CASE t \in AllTokens
            BY <3>1, Kinds, WhoIs DEF DeviceTokens
        <3> QED
            BY <3>1, NoTokenIsNothing
    <2>3. CASE path[1] = "devices"
        <3>1. Checks[path] = {"device"} /\ ScreensFor[path] = Devices
            BY <1>1, <1>4, <2>3 DEF ChecksOf, TypeChecks, ScreensFor
        <3> QED
            BY <1>4, <2>1, <2>2, <2>3, <3>1 DEF Passes
    <2>4. CASE path[1] = "kiosk"
        <3>1. Checks[path] = {"device", "kiosk"} /\ ScreensFor[path] = Kiosks
            BY <1>1, <1>4, <2>4 DEF ChecksOf, TypeChecks, ScreensFor
        <3>2. Clears("kiosk", t) <=> t.device \in Kiosks
            BY DEF Clears
        <3> QED
            BY <1>4, <2>1, <2>4, <3>1, <3>2 DEF Passes
    <2>5. CASE path[1] = "kitchen"
        <3>1. Checks[path] = {"device", "kds"} /\ ScreensFor[path] = Kitchens
            BY <1>1, <1>4, <2>5 DEF ChecksOf, TypeChecks, ScreensFor
        <3>2. Clears("kds", t) <=> t.device \in Kitchens
            BY DEF Clears
        <3> QED
            BY <1>4, <2>1, <2>5, <3>1, <3>2 DEF Passes
    <2>6. CASE path[1] = "display"
        <3>1. Checks[path] = {"device", "display"} /\ ScreensFor[path] = Displays
            BY <1>1, <1>4, <2>6 DEF ChecksOf, TypeChecks, ScreensFor
        <3>2. Clears("display", t) <=> t.device \in Displays
            BY DEF Clears
        <3> QED
            BY <1>4, <2>1, <2>6, <3>1, <3>2 DEF Passes
    <2>7. CASE path[1] = "device"
        <3>1. Checks[path] = {"device", "screens"} /\ ScreensFor[path] = Kitchens \cup Displays
            BY <1>1, <1>4, <2>7 DEF ChecksOf, TypeChecks, ScreensFor
        <3>2. Clears("screens", t) <=> t.device \in Kitchens \cup Displays
            BY DEF Clears
        <3> QED
            BY <1>4, <2>1, <2>7, <3>1, <3>2 DEF Passes
    <2> QED
        BY <1>4, <2>3, <2>4, <2>5, <2>6, <2>7 DEF Screens
<1>5. Open(path) \/ path[1] \in Screens \cup {"customer"}
    BY <1>1 DEF Open, Firsts
<1> QED
    BY <1>2, <1>3, <1>4, <1>5

\* The tokens that the handlers below are called with.
LEMMA Callers ==
    ASSUME NEW t \in AllTokens
    PROVE  /\ Passes(<<"kiosk", "orders">>, t) => t \in DeviceTokens /\ t.device \in Kiosks
           /\ Passes(<<"kiosk", "loyalty", "identify">>, t) => t \in DeviceTokens /\ t.device \in Kiosks
           /\ Passes(<<"kitchen", "orders", "id", "status">>, t)
                  => t \in DeviceTokens /\ t.device \in Kitchens
           /\ Passes(<<"kitchen", "orders">>, t) => t \in DeviceTokens /\ t.device \in Kitchens
           /\ Passes(<<"display", "orders">>, t) => t \in DeviceTokens /\ t.device \in Displays
           /\ Passes(<<"customer", "restaurants", "id", "orders">>, t)
                  => t \in AccessTokens /\ now < t.exp
           /\ Passes(<<"customer", "me", "code">>, t) => t \in AccessTokens
           /\ Passes(<<"customer", "me">>, t) => t \in AccessTokens
           /\ Passes(<<"customer", "me", "orders">>, t) => t \in AccessTokens
<1> DEFINE Signed(path) == path \in Paths /\ Passes(path, t) => VerifyAccess(t)
           ByDevice(path, D) == path \in Paths /\ Passes(path, t) => VerifyDevice(t) /\ t.device \in D
<1>1. ASSUME NEW path, path[1] = "customer", path[2] # "auth" PROVE Signed(path)
    <2>1. path # <<"devices", "pair">>
        BY <1>1
    <2>2. ~Open(path)
        BY <1>1, <2>1 DEF Open
    <2> QED
        BY <1>1, <2>2, WhoPasses DEF Screens
<1>2. ASSUME NEW path, path[1] \in {"kiosk", "kitchen", "display"}
      PROVE  ByDevice(path, IF path[1] = "kiosk" THEN Kiosks
                            ELSE IF path[1] = "kitchen" THEN Kitchens ELSE Displays)
    <2>1. path # <<"devices", "pair">>
        BY <1>2
    <2>2. ~Open(path)
        BY <1>2, <2>1 DEF Open
    <2>3. path \in Paths => ScreensFor[path] = IF path[1] = "kiosk" THEN Kiosks
                            ELSE IF path[1] = "kitchen" THEN Kitchens ELSE Displays
        BY <1>2 DEF ScreensFor
    <2> QED
        BY <1>2, <2>2, <2>3, WhoPasses DEF Screens
<1>3. /\ Signed(<<"customer", "restaurants", "id", "orders">>) /\ Signed(<<"customer", "me", "code">>)
      /\ Signed(<<"customer", "me">>) /\ Signed(<<"customer", "me", "orders">>)
    <2> HIDE DEF Signed
    <2> QED
        BY <1>1
<1>4. /\ ByDevice(<<"kiosk", "orders">>, Kiosks)
      /\ ByDevice(<<"kiosk", "loyalty", "identify">>, Kiosks)
      /\ ByDevice(<<"kitchen", "orders", "id", "status">>, Kitchens)
      /\ ByDevice(<<"kitchen", "orders">>, Kitchens)
      /\ ByDevice(<<"display", "orders">>, Displays)
    <2> HIDE DEF ByDevice
    <2> QED
        BY <1>2
<1> QED
    BY <1>3, <1>4, SomePaths, Kinds

\* Each route is open to its own readers.
LEMMA OwnRoutes ==
    ASSUME tokens \subseteq AllTokens, now \in Nat
    PROVE  EachToItsOwnRoutes
<1> SUFFICES ASSUME NEW path \in Paths, NEW t \in tokens \cup {NoToken}
             PROVE  Passes(path, t) <=>
                        \/ path \in OpenPaths
                        \/ now < t.exp /\ path[1] = "customer" /\ t.aud = "kfc-customer"
                        \/ now < t.exp /\ t.by = "device" /\ t.device \in ScreensFor[path] \ revoked
    BY DEF EachToItsOwnRoutes
<1>1. path \in OpenPaths <=> Open(path)
    BY CheckTable
<1>2. t \in AllTokens \cup {NoToken}
    OBVIOUS
<1>3. VerifyAccess(t) <=> t.aud = "kfc-customer" /\ now < t.exp
    BY <1>2, Kinds, NoTokenIsNothing
<1>4. VerifyDevice(t) <=> t.by = "device" /\ now < t.exp
    BY <1>2, Kinds, NoTokenIsNothing
<1>5. ~Open(path) /\ path[1] \notin Screens => ScreensFor[path] = {}
    <2>1. path[1] \notin Screens => ScreensFor[path] = {}
        BY DEF ScreensFor, Screens
    <2> QED
        BY <2>1
<1>6. path[1] \in Screens => path[1] # "customer"
    BY DEF Screens
<1> QED
    BY <1>1, <1>2, <1>3, <1>4, <1>5, <1>6, WhoPasses

----------------------------------------------------------------------------
(* Arithmetic of int32 and int64.                                          *)

LEMMA ModOf ==
    ASSUME NEW x \in Int, NEW y \in Nat \ {0}
    PROVE  \E k \in Int : x % y = x - y * k
<1>1. x = y * (x \div y) + (x % y) /\ x \div y \in Int /\ x % y \in Int
    OBVIOUS
<1> DEFINE q == x \div y
           r == x % y
<1>2. q \in Int /\ r \in Int /\ x = y * q + r
    BY <1>1
<1> HIDE DEF q, r
<1>3. r = x - y * q
    BY <1>2
<1> QED
    BY <1>2, <1>3 DEF r

LEMMA ModSmall ==
    ASSUME NEW y \in Nat, NEW x \in 0 .. y - 1
    PROVE  x % y = x
<1>1. x = y * (x \div y) + (x % y) /\ x \div y \in Int /\ x % y \in 0 .. y - 1
    OBVIOUS
<1> DEFINE q == x \div y
<1>2. q = 0
    <2>1. \A k \in Int : k >= 1 => y * k >= y
        OBVIOUS
    <2>2. \A k \in Int : k <= -1 => y * k <= -y
        OBVIOUS
    <2>3. y * q \in Int /\ y * q < y /\ y * q > -y
        BY <1>1
    <2> QED
        BY <1>1, <2>1, <2>2, <2>3
<1> QED
    BY <1>1, <1>2

LEMMA HalfOf ==
    ASSUME NEW s \in Nat \ {0}, s % 2 = 0
    PROVE  \E h \in Nat \ {0} : s = 2 * h /\ s \div 2 = h
OBVIOUS

\* A conversion subtracts a multiple of the span, and leaves small numbers alone.
LEMMA WrapsBy ==
    ASSUME NEW x \in Int, NEW s \in Nat \ {0}
    PROVE  \E k \in Int : Wrapped(x, s) = x - s * k
<1> DEFINE h == s \div 2
           z == x + h
<1>1. h \in Int /\ z \in Int
    OBVIOUS
<1> HIDE DEF h, z
<1>2. PICK k \in Int : z % s = z - s * k
    BY <1>1, ModOf
<1>3. Wrapped(x, s) = (z % s) - h
    BY DEF Wrapped, h, z
<1>4. s * k \in Int
    OBVIOUS
<1>5. (z - s * k) - h = x - s * k
    BY <1>1, <1>4 DEF z
<1> QED
    BY <1>2, <1>3, <1>5

LEMMA WrapsSmall ==
    ASSUME NEW h \in Nat \ {0}, NEW x \in 0 .. h - 1, NEW s, s = 2 * h
    PROVE  Wrapped(x, s) = x
<1>1. s \div 2 = h
    OBVIOUS
<1>2. s \in Nat /\ x + h \in 0 .. s - 1
    OBVIOUS
<1>3. (x + h) % s = x + h
    BY <1>2, ModSmall
<1> QED
    BY <1>1, <1>3 DEF Wrapped

LEMMA ZeroWraps ==
    /\ PointsHeld(0) = 0
    /\ \A x \in 0 .. Int32Span - 1 : Int64(x) = x
<1>1. PICK h \in Nat \ {0} : Int32Span = 2 * h
    BY HalfOf, PriceCartAssumption
<1>2. PointsHeld(0) = 0
    <2>1. 0 \in 0 .. h - 1
        BY <1>1
    <2> QED
        BY <1>1, <2>1, WrapsSmall DEF PointsHeld, Int32
<1>3. ASSUME NEW x \in 0 .. Int32Span - 1 PROVE Int64(x) = x
    <2> DEFINE g == h * Int32Span
    <2>1. g \in Nat \ {0} /\ Int32Span * Int32Span = 2 * g
        <3>1. \A a \in Nat \ {0} : a * (2 * a) \in Nat \ {0} /\ (2 * a) * (2 * a) = 2 * (a * (2 * a))
            OBVIOUS
        <3> QED
            BY <1>1, <3>1
    <2>2. x \in 0 .. g - 1
        <3>1. \A a \in Nat \ {0} : a * (2 * a) >= 2 * a
            OBVIOUS
        <3>2. g >= Int32Span
            BY <1>1, <3>1
        <3> QED
            BY <1>1, <2>1, <3>2
    <2> HIDE DEF g
    <2> QED
        BY <2>1, <2>2, WrapsSmall DEF Int64
<1> QED
    BY <1>2, <1>3

\* Multiples of the span that are close are equal.
LEMMA SameMultiple ==
    ASSUME NEW S \in Nat \ {0}, NEW a \in 0 .. S - 1, NEW b \in 0 .. S - 1,
           NEW n \in Int, a - b = S * n
    PROVE  a = b
<1>1. \A m \in Int : m >= 1 => S * m >= S
    OBVIOUS
<1>2. \A m \in Int : m <= -1 => S * m <= -S
    OBVIOUS
<1>3. S * n < S /\ S * n > -S /\ S * n \in Int
    OBVIOUS
<1>4. n = 0
    BY <1>1, <1>2, <1>3
<1> QED
    BY <1>4

\* An order that is taken has the discount of its hold: the points that are
\* held and the discount wrap at 2^32 and 2^64, and both stay below 2^32.
LEMMA HeldPays ==
    ASSUME NEW p \in Int, NEW sub \in 0 .. Int32Span - 1, Discount(p) \in 0 .. sub,
           p = 0 \/ (PointsHeld(p) > 0 /\ PointsHeld(p) * PointValue <= sub)
    PROVE  PointsHeld(p) \in Nat /\ Discount(p) = PointsHeld(p) * PointValue
<1>0. Int32Span \in Nat \ {0} /\ PointValue \in Nat \ {0}
    BY PriceCartAssumption
<1>1. CASE p = 0
    <2>1. 0 \in 0 .. Int32Span - 1 /\ 0 * PointValue = 0
        BY <1>0
    <2>2. PointsHeld(p) = 0 /\ Discount(p) = 0
        BY <1>1, <2>1, ZeroWraps DEF Discount
    <2> QED
        BY <2>1, <2>2
<1>2. CASE PointsHeld(p) > 0 /\ PointsHeld(p) * PointValue <= sub
    <2>1. PICK k \in Int : PointsHeld(p) = p - Int32Span * k
        BY <1>0, WrapsBy DEF PointsHeld, Int32
    <2>2. \E j \in Int : Discount(p) = p * PointValue - (Int32Span * Int32Span) * j
        <3> DEFINE x == p * PointValue
                   s == Int32Span * Int32Span
        <3>1. x \in Int /\ s \in Nat \ {0}
            BY <1>0
        <3> HIDE DEF x, s
        <3>2. \E j \in Int : Wrapped(x, s) = x - s * j
            BY <3>1, WrapsBy
        <3> QED
            BY <3>2 DEF Discount, Int64, x, s
    <2>3. PICK j \in Int : Discount(p) = p * PointValue - (Int32Span * Int32Span) * j
        BY <2>2
    <2>4. Int32Span * k \in Int /\ PointsHeld(p) \in Nat
        BY <1>0, <1>2, <2>1
    <2> DEFINE n == k * PointValue - Int32Span * j
               held == PointsHeld(p)
    <2>5. n \in Int
        BY <1>0
    <2>6. \A S, V \in Nat : \A q, kk, jj \in Int :
              (q * V - (S * S) * jj) - (q - S * kk) * V = S * (kk * V - S * jj)
        OBVIOUS
    <2>7. Discount(p) - held * PointValue = Int32Span * n
        BY <1>0, <2>1, <2>3, <2>6
    <2>8. held * PointValue \in 0 .. Int32Span - 1 /\ Discount(p) \in 0 .. Int32Span - 1
        <3>1. held * PointValue \in Nat
            BY <1>0, <2>4
        <3> QED
            BY <1>0, <1>2, <3>1
    <2> HIDE DEF n, held
    <2>9. Discount(p) = held * PointValue
        <3> DEFINE a == Discount(p)
                   b == held * PointValue
        <3>1. a \in 0 .. Int32Span - 1 /\ b \in 0 .. Int32Span - 1 /\ a - b = Int32Span * n
            BY <2>7, <2>8
        <3> HIDE DEF a, b
        <3>2. a = b
            BY <1>0, <2>5, <3>1, SameMultiple
        <3> QED
            BY <3>2 DEF a, b
    <2> QED
        BY <2>4, <2>9 DEF held
<1> QED
    BY <1>1, <1>2

----------------------------------------------------------------------------
\* What the terminal shows for a line is what pickVariation finds.
ShownPrice(v, line) ==
    LET options == Menus[v][line.item].variations
    IN  IF options = <<>> THEN Menus[v][line.item].price
        ELSE (CHOOSE x \in ToSet(options) :
                IF line.variation = NoVariation THEN x.default
                ELSE x.id = line.variation).price

LEMMA OnePrice ==
    ASSUME ClearMenus, NEW v \in 1 .. Len(Menus), NEW line, LineOK(Menus[v], line)
    PROVE  UnitPrice(Menus[v], line) = Kopecks(ShownPrice(v, line))
<1> DEFINE options == Menus[v][line.item].variations
           I == 1 .. Len(options)
           Fits(x) == IF line.variation = NoVariation THEN x.default ELSE x.id = line.variation
<1>1. CASE options = <<>>
    BY <1>1 DEF UnitPrice, ShownPrice
<1>2. CASE options # <<>>
    <2>1. line.item \in DOMAIN Menus[v] /\ Meant(options, line.variation) # {}
        BY <1>2 DEF LineOK
    <2>2. /\ options \in Seq(ToSet(options))
          /\ I # {} => \E i \in I : \A j \in I : options[j].default <=> i = j
          /\ \A i, j \in I : options[i].id = options[j].id => i = j
        BY <2>1 DEF ClearMenus
    <2>3. \E j \in I : Meant(options, line.variation) = {j} /\ \A i \in I : Fits(options[i]) <=> i = j
        <3>1. CASE line.variation # NoVariation
            <4>1. Meant(options, line.variation) = {i \in I : options[i].id = line.variation}
                BY <3>1 DEF Meant
            <4>2. PICK j \in I : options[j].id = line.variation
                BY <2>1, <4>1
            <4>3. \A i \in I : options[i].id = line.variation <=> i = j
                BY <2>2, <4>2
            <4> QED
                BY <3>1, <4>1, <4>2, <4>3
        <3>2. CASE line.variation = NoVariation
            <4>1. I # {}
                BY <2>1, <3>2 DEF Meant
            <4>2. PICK j \in I : \A i \in I : options[i].default <=> j = i
                BY <2>2, <4>1
            <4>3. {i \in I : options[i].default} = {j}
                BY <4>2
            <4>4. Meant(options, line.variation) = {j}
                BY <3>2, <4>3 DEF Meant
            <4> QED
                BY <3>2, <4>2, <4>4
        <3> QED
            BY <3>1, <3>2
    <2>4. PICK j \in I : Meant(options, line.variation) = {j} /\ \A i \in I : Fits(options[i]) <=> i = j
        BY <2>3
    <2>5. PickVariation(Menus[v][line.item], line.variation) = j
        <3>1. j \in Int /\ j <= j
            OBVIOUS
        <3>2. Min({j}) = j
            BY <3>1 DEF Min
        <3> QED
            BY <2>4, <3>2 DEF PickVariation
    <2>6. (CHOOSE x \in ToSet(options) : Fits(x)) = options[j]
        <3>1. ToSet(options) = {options[i] : i \in I}
            BY <2>2 DEF ToSet
        <3>2. options[j] \in ToSet(options) /\ Fits(options[j])
            BY <2>4, <3>1
        <3>3. \A x \in ToSet(options) : Fits(x) => x = options[j]
            BY <2>4, <3>1
        <3> HIDE DEF Fits
        <3> QED
            BY <3>2, <3>3
    <2> QED
        BY <1>2, <2>5, <2>6 DEF UnitPrice, ShownPrice
<1> QED
    BY <1>1, <1>2

\* The terminal's sum is the subtotal.
LEMMA SameSum ==
    ASSUME ClearMenus, NEW v \in 1 .. Len(Menus), NEW c, CartOK(Menus[v], c), NEW p
    PROVE  Paid(v, c, p) = Subtotal(Menus[v], c) - p * PointValue
<1>1. Paid(v, c, p) = SumFunction([i \in 1 .. Len(c) |->
                          Kopecks(ShownPrice(v, c[i])) * c[i].quantity]) - p * PointValue
    BY DEF Paid, ShownPrice
<1>2. \A i \in 1 .. Len(c) : UnitPrice(Menus[v], c[i]) = Kopecks(ShownPrice(v, c[i]))
    BY OnePrice DEF CartOK
<1>3. [i \in 1 .. Len(c) |-> Kopecks(ShownPrice(v, c[i])) * c[i].quantity]
          = [i \in 1 .. Len(c) |-> UnitPrice(Menus[v], c[i]) * c[i].quantity]
    BY <1>2
<1> QED
    BY <1>1, <1>3 DEF Subtotal

LEMMA Charged ==
    ASSUME ClearMenus, NEW v \in 1 .. Len(Menus), NEW c, CartOK(Menus[v], c),
           Subtotal(Menus[v], c) \in 0 .. Int32Span - 1,
           NEW p \in Nat, Paid(v, c, p) >= 0
    PROVE  Paid(v, c, p) = Subtotal(Menus[v], c) - Discount(p)
<1> DEFINE sum == Subtotal(Menus[v], c)
           x == p * PointValue
<1>1. Paid(v, c, p) = sum - x
    BY SameSum
<1>2. sum \in 0 .. Int32Span - 1 /\ x \in Nat
    BY PriceCartAssumption
<1>3. sum - x >= 0
    BY <1>1
<1> HIDE DEF sum, x
<1>4. x \in 0 .. Int32Span - 1
    BY <1>2, <1>3, PriceCartAssumption
<1>5. Int64(x) = x
    BY <1>4, ZeroWraps
<1> QED
    BY <1>1, <1>5 DEF Discount, sum, x

----------------------------------------------------------------------------
(* The inductive invariant.                                                *)

Paids == {Paid(v, c, p) : v \in 1 .. Len(Menus), c \in Carts, p \in Points} \cup {0}

OrderRecs ==
    [rest : Restaurants, channel : {"kiosk", "web"}, device : Kiosks \cup {Nobody},
     member : Members \cup {Nobody}, began : Nat, status : KitchenStatuses \cup {"cancelled"},
     seen : 0 .. Len(Menus), priced : 1 .. Len(Menus), paid : Paids, held : Nat,
     discount : Nat, subtotal : Nat, moved : SUBSET Devices]

SubmitRecs ==
    [pc : {"submit"}, channel : {"kiosk", "web"}, device : Kiosks \cup {Nobody},
     member : Members \cup {Nobody}, rest : Restaurants, cart : Carts, points : Points,
     seen : 0 .. Len(Menus), began : Nat]
KitchenRecs ==
    [pc : {"check", "update"}, device : Kitchens, order : Nat, status : KitchenStatuses]
RequestRecs == {Idle} \cup SubmitRecs \cup KitchenRecs

Types ==
    /\ now \in 0 .. MaxNow
    /\ tokens \subseteq AllTokens
    /\ revoked \subseteq Devices
    /\ menu \in 1 .. Len(Menus)
    /\ code \in [Members -> Nat]
    /\ orders \in Seq(OrderRecs)
    /\ request \in [Requests -> RequestRecs]

\* Among the tokens T is one that was good when r, a request or an order,
\* began, of the member and the kiosk that r names.
Vouched(T, r) ==
    r.member # Nobody =>
        \E t \in T : /\ t.member = r.member /\ t.device = r.device /\ r.began < t.exp
                     /\ t.aud = IF r.channel = "web" THEN "kfc-customer" ELSE "kfc-kiosk-loyalty"

\* A request in flight, with the tokens T and the orders O there are.
RequestFits(T, O, r) ==
    /\ r.pc = "submit" =>
           /\ Vouched(T, r)
           /\ r.channel = "web" <=> r.device = Nobody
           /\ r.seen # 0 => Paid(r.seen, r.cart, r.points) >= 0
    /\ r.pc \in {"check", "update"} => r.order \in 0 .. Len(O)
    /\ r.pc = "update" => r.order \in 1 .. Len(O) /\ O[r.order].rest = RestaurantOf[r.device]

OrderFits(T, o) ==
    /\ Vouched(T, o)
    /\ \A d \in o.moved : d \in Kitchens /\ RestaurantOf[d] = o.rest
    /\ o.discount \in 0 .. o.subtotal /\ o.discount = o.held * PointValue
    /\ ClearMenus /\ o.seen = o.priced => o.paid = o.subtotal - o.discount

\* Whom an answer may show more than a name.
AnswerFits(O, a) ==
    /\ a.to \in Somebody /\ a.order \in 0 .. Len(O)
    /\ a.status \in {0, 200, 201, 400, 404, 409, 500}
    /\ a.fields \ {"name"} # {} =>
           IF a.order = 0 THEN a.to \in Members
           ELSE \/ a.to \in Kitchens /\ RestaurantOf[a.to] = O[a.order].rest
                \/ a.to \in Kiosks /\ a.to = O[a.order].device
    /\ a.to \in Displays => a.fields = {}

Inv ==
    /\ Types
    /\ \A q \in Requests : RequestFits(tokens, orders, request[q])
    /\ \A i \in Orders : OrderFits(tokens, orders[i])
    /\ AnswerFits(orders, answer)

----------------------------------------------------------------------------
(* What keeps it.                                                          *)

Statuses == {0, 200, 201, 400, 404, 409, 500}

\* The orders O have become P: none is gone, and none moves to another restaurant.
Grows(O, P) == Len(P) >= Len(O) /\ \A i \in 1 .. Len(O) : P[i].rest = O[i].rest

\* Whatever a step changes in requests, orders and the answer fits what it leaves.
Fits ==
    /\ tokens \subseteq tokens'
    /\ Grows(orders, orders')
    /\ \A q \in Requests :
           request'[q] = request[q] \/ RequestFits(tokens', orders', request'[q])
    /\ \A i \in 1 .. Len(orders') :
           (i \in Orders /\ orders'[i] = orders[i]) \/ OrderFits(tokens', orders'[i])
    /\ AnswerFits(orders', answer')

LEMMA VouchedLater ==
    ASSUME NEW T, NEW U, T \subseteq U, NEW r, Vouched(T, r)
    PROVE  Vouched(U, r)
BY DEF Vouched

LEMMA RequestLater ==
    ASSUME NEW T, NEW U, T \subseteq U, NEW O, NEW P, Grows(O, P),
           Len(O) \in Nat, Len(P) \in Nat, NEW r, RequestFits(T, O, r)
    PROVE  RequestFits(U, P, r)
<1>1. r.pc = "submit" => Vouched(U, r)
    BY VouchedLater DEF RequestFits
<1>2. \A i \in 0 .. Len(O) : i \in 0 .. Len(P)
    BY DEF Grows
<1>3. \A i \in 1 .. Len(O) : i \in 1 .. Len(P)
    BY DEF Grows
<1> QED
    BY <1>1, <1>2, <1>3 DEF RequestFits, Grows

LEMMA OrderLater ==
    ASSUME NEW T, NEW U, T \subseteq U, NEW o, OrderFits(T, o)
    PROVE  OrderFits(U, o)
<1>1. Vouched(U, o)
    BY VouchedLater DEF OrderFits
<1> QED
    BY <1>1 DEF OrderFits

LEMMA FitsKeepsInv ==
    ASSUME Inv, Types', Fits
    PROVE  Inv'
<1>1. Len(orders) \in Nat /\ Len(orders') \in Nat
    BY DEF Inv, Types
<1>2. \A q \in Requests : RequestFits(tokens', orders', request'[q])
    <2> TAKE q \in Requests
    <2>1. CASE request'[q] = request[q]
        <3>1. RequestFits(tokens, orders, request[q])
            BY DEF Inv
        <3>2. RequestFits(tokens', orders', request[q])
            BY <1>1, <3>1, RequestLater DEF Fits
        <3> QED
            BY <2>1, <3>2
    <2> QED
        BY <2>1 DEF Fits
<1>3. \A i \in 1 .. Len(orders') : OrderFits(tokens', orders'[i])
    <2> TAKE i \in 1 .. Len(orders')
    <2>1. CASE i \in Orders /\ orders'[i] = orders[i]
        <3>1. OrderFits(tokens, orders[i])
            BY <2>1 DEF Inv
        <3>2. OrderFits(tokens', orders[i])
            BY <3>1, OrderLater DEF Fits
        <3> QED
            BY <2>1, <3>2
    <2> QED
        BY <2>1 DEF Fits
<1>4. AnswerFits(orders', answer')
    BY DEF Fits
<1> QED
    BY <1>2, <1>3, <1>4 DEF Inv, Orders

\* Answers about no order.
LEMMA ShortAnswerFits ==
    ASSUME NEW O, Len(O) \in Nat, NEW to \in Somebody, NEW status \in Statuses,
           NEW fields \in SUBSET {"name"}, to \in Displays => fields = {}
    PROVE  AnswerFits(O, Answer(to, 0, status, fields))
<1>1. fields \ {"name"} = {}
    OBVIOUS
<1> QED
    BY <1>1 DEF AnswerFits, Answer, Statuses

LEMMA QuietFits ==
    ASSUME NEW O, Len(O) \in Nat
    PROVE  AnswerFits(O, Quiet)
BY ShortAnswerFits DEF Quiet, Statuses, Somebody

LEMMA ErrorFits ==
    ASSUME NEW O, Len(O) \in Nat, NEW to \in Somebody, NEW type
    PROVE  AnswerFits(O, FromError(to, 0, type))
<1>1. HTTPStatus(type) \in Statuses
    BY DEF HTTPStatus, Statuses
<1> QED
    BY <1>1, ShortAnswerFits DEF FromError

\* A request that ends or goes on.
LEMMA AfterEnds ==
    ASSUME Types, NEW q \in Requests, NEW a, Ends(q, a)
    PROVE  /\ request' \in [Requests -> RequestRecs] /\ answer' = a
           /\ \A p \in Requests : request'[p] = request[p] \/ request'[p] = Idle
BY DEF Types, Ends, RequestRecs

LEMMA AfterGoesOn ==
    ASSUME Types, NEW q \in Requests, NEW r \in RequestRecs, GoesOn(q, r)
    PROVE  /\ request' \in [Requests -> RequestRecs] /\ answer' = Quiet
           /\ \A p \in Requests : request'[p] = request[p] \/ request'[p] = r
BY DEF Types, GoesOn

LEMMA IdleFits ==
    ASSUME NEW T, NEW O
    PROVE  RequestFits(T, O, Idle)
BY DEF RequestFits, Idle

LEMMA Which ==
    ASSUME NEW r \in RequestRecs
    PROVE  /\ r.pc = "submit" => r \in SubmitRecs
           /\ r.pc \in {"check", "update"} => r \in KitchenRecs
           /\ r.pc # "idle" => r \in SubmitRecs \cup KitchenRecs
BY DEF RequestRecs, Idle, SubmitRecs, KitchenRecs

\* A step that leaves requests and orders alone.
LEMMA AsideFits ==
    ASSUME Inv, UNCHANGED <<orders, request>>, tokens \subseteq tokens', AnswerFits(orders, answer')
    PROVE  Fits
<1>1. Len(orders) \in Nat
    BY DEF Inv, Types
<1>2. Grows(orders, orders')
    BY <1>1 DEF Grows
<1> QED
    BY <1>2 DEF Fits, Orders

----------------------------------------------------------------------------
(* One lemma for each action.                                              *)

LEMMA TickKeeps ==
    ASSUME Inv, Tick
    PROVE  Inv'
<1>1. Types'
    BY WhoIs DEF Inv, Types, Tick
<1>2. AnswerFits(orders, answer')
    BY QuietFits DEF Inv, Types, Tick
<1>3. Fits
    BY <1>2, AsideFits DEF Tick
<1> QED
    BY <1>1, <1>3, FitsKeepsInv

LEMMA ChangeMenuKeeps ==
    ASSUME Inv, ChangeMenu
    PROVE  Inv'
<1>1. Types'
    BY GatewayAssumption DEF Inv, Types, ChangeMenu
<1>2. AnswerFits(orders, answer')
    BY QuietFits DEF Inv, Types, ChangeMenu
<1>3. Fits
    BY <1>2, AsideFits DEF ChangeMenu
<1> QED
    BY <1>1, <1>3, FitsKeepsInv

LEMMA RevokeKeeps ==
    ASSUME Inv, NEW d \in Devices, Revoke(d)
    PROVE  Inv'
<1>1. Types'
    BY DEF Inv, Types, Revoke
<1>2. AnswerFits(orders, answer')
    BY QuietFits DEF Inv, Types, Revoke
<1>3. Fits
    BY <1>2, AsideFits DEF Revoke
<1> QED
    BY <1>1, <1>3, FitsKeepsInv

LEMMA SignsInKeeps ==
    ASSUME Inv, NEW m \in Members, SignsIn(m)
    PROVE  Inv'
<1>1. IssueAccess(m) \in AllTokens
    <2>1. now + AccessTTL \in Nat
        BY WhoIs DEF Inv, Types
    <2> QED
        BY <2>1 DEF IssueAccess, Token, AllTokens, AccessTokens
<1>2. Types'
    BY <1>1 DEF Inv, Types, SignsIn, NewToken
<1>3. AnswerFits(orders, answer')
    BY QuietFits DEF Inv, Types, SignsIn
<1>4. Fits
    BY <1>3, AsideFits DEF SignsIn, NewToken
<1> QED
    BY <1>2, <1>4, FitsKeepsInv

LEMMA IssueKioskCodeKeeps ==
    ASSUME Inv, NEW t \in tokens, IssueKioskCode(t)
    PROVE  Inv'
<1>1. t \in AccessTokens
    BY Callers DEF Inv, Types, IssueKioskCode
<1>2. t.member \in Members
    BY <1>1 DEF AccessTokens
<1>3. now + CodeTTL \in Nat
    BY WhoIs DEF Inv, Types
<1>4. code' \in [Members -> Nat]
    BY <1>3 DEF Inv, Types, IssueKioskCode
<1>5. Types'
    BY <1>4 DEF Inv, Types, IssueKioskCode
<1>6. AnswerFits(orders, answer')
    <2>1. t.member \in Somebody /\ 200 \in Statuses /\ Len(orders) \in Nat
        BY <1>2 DEF Somebody, Statuses, Inv, Types
    <2>2. AnswerFits(orders, Answer(t.member, 0, 200, {}))
        BY <2>1, ShortAnswerFits
    <2> QED
        BY <2>2 DEF IssueKioskCode
<1>7. Fits
    BY <1>6, AsideFits DEF IssueKioskCode
<1> QED
    BY <1>5, <1>7, FitsKeepsInv

LEMMA IdentifyAtKioskKeeps ==
    ASSUME Inv, NEW t \in tokens, NEW m \in Members, IdentifyAtKiosk(t, m)
    PROVE  Inv'
<1>1. t.device \in Kiosks
    BY Callers DEF Inv, Types, IdentifyAtKiosk
<1>2. IssueKioskSession(m, t.device) \in AllTokens
    <2>1. now + KioskTTL \in Nat
        BY WhoIs DEF Inv, Types
    <2> QED
        BY <1>1, <2>1 DEF IssueKioskSession, Token, AllTokens, KioskTokens
<1>3. tokens' \subseteq AllTokens /\ tokens \subseteq tokens'
    BY <1>2 DEF Inv, Types, IdentifyAtKiosk, NewToken
<1>4. code' \in [Members -> Nat]
    BY DEF Inv, Types, IdentifyAtKiosk
<1>5. Types'
    BY <1>3, <1>4 DEF Inv, Types, IdentifyAtKiosk
<1>6. AnswerFits(orders, answer')
    <2>1. t.device \in Somebody /\ t.device \notin Displays /\ 200 \in Statuses /\ Len(orders) \in Nat
        BY <1>1, WhoIs DEF Somebody, Statuses, Inv, Types
    <2>2. Shown(ForKiosk(Profile)) \in SUBSET {"name"}
        BY DEF Shown, ForKiosk, Profile
    <2>3. AnswerFits(orders, Answer(t.device, 0, 200, Shown(ForKiosk(Profile))))
        BY <2>1, <2>2, ShortAnswerFits
    <2>4. AnswerFits(orders, FromError(t.device, 0, ErrorOf("Unavailable")))
        BY <2>1, ErrorFits
    <2> QED
        BY <2>3, <2>4 DEF IdentifyAtKiosk
<1>7. Fits
    BY <1>3, <1>6, AsideFits DEF IdentifyAtKiosk
<1> QED
    BY <1>5, <1>7, FitsKeepsInv

\* Requests that begin or go on: orders and tokens stay.
LEMMA GoesOnFits ==
    ASSUME Inv, NEW q \in Requests, NEW r \in RequestRecs, GoesOn(q, r),
           RequestFits(tokens, orders, r),
           UNCHANGED <<now, tokens, revoked, menu, code, orders>>
    PROVE  Inv'
<1>1. /\ request' \in [Requests -> RequestRecs] /\ answer' = Quiet
      /\ \A p \in Requests : request'[p] = request[p] \/ request'[p] = r
    BY AfterGoesOn DEF Inv
<1>2. Types'
    BY <1>1 DEF Inv, Types
<1>3. Len(orders) \in Nat
    BY DEF Inv, Types
<1>4. AnswerFits(orders', answer') /\ Grows(orders, orders')
    BY <1>1, <1>3, QuietFits DEF Grows
<1>5. Fits
    BY <1>1, <1>4 DEF Fits, Orders
<1> QED
    BY <1>2, <1>5, FitsKeepsInv

\* Requests that end and leave the orders alone.
LEMMA EndsFits ==
    ASSUME Inv, NEW q \in Requests, NEW a, Ends(q, a), AnswerFits(orders, a),
           UNCHANGED <<now, tokens, revoked, menu, code, orders>>
    PROVE  Inv'
<1>1. /\ request' \in [Requests -> RequestRecs] /\ answer' = a
      /\ \A p \in Requests : request'[p] = request[p] \/ request'[p] = Idle
    BY AfterEnds DEF Inv
<1>2. Types'
    BY <1>1 DEF Inv, Types
<1>3. Len(orders) \in Nat
    BY DEF Inv, Types
<1>4. AnswerFits(orders', answer') /\ Grows(orders, orders')
    BY <1>1, <1>3 DEF Grows
<1>5. Fits
    BY <1>1, <1>4, IdleFits DEF Fits, Orders
<1> QED
    BY <1>2, <1>5, FitsKeepsInv

LEMMA PlaceKioskOrderKeeps ==
    ASSUME Inv, NEW q \in Requests, NEW t \in tokens, PlaceKioskOrder(q, t)
    PROVE  Inv'
<1>1. t.device \in Kiosks
    BY Callers DEF Inv, Types, PlaceKioskOrder
<1>2. PICK s \in tokens \cup {NoToken}, v \in 1 .. menu, cart \in Carts, points \in Points :
          /\ SessionOK(s, t.device) /\ Paid(v, cart, points) >= 0
          /\ Place(q, "kiosk", t.device, s.member, RestaurantOf[t.device], cart, points, v)
    BY DEF PlaceKioskOrder
<1> DEFINE r == [pc |-> "submit", channel |-> "kiosk", device |-> t.device, member |-> s.member,
                 rest |-> RestaurantOf[t.device], cart |-> cart, points |-> points, seen |-> v,
                 began |-> now]
<1>3. s.member \in Members \cup {Nobody}
    <2>1. CASE s \in tokens
        BY <2>1, Kinds DEF Inv, Types
    <2> QED
        BY <2>1, NoTokenIsNothing
<1>4. r \in SubmitRecs
    <2>1. now \in Nat /\ v \in 0 .. Len(Menus) /\ RestaurantOf[t.device] \in Restaurants
        BY <1>1, WhoIs, GatewayAssumption DEF Inv, Types
    <2> QED
        BY <1>1, <1>3, <2>1 DEF SubmitRecs
<1>5. Vouched(tokens, r)
    <2>1. CASE s = NoToken
        BY <2>1, NoTokenIsNothing DEF Vouched
    <2>2. CASE s \in tokens /\ s # NoToken
        <3>1. VerifyKioskSession(s) /\ s.device = t.device
            BY <1>2, <2>2 DEF SessionOK
        <3>2. s.aud = "kfc-kiosk-loyalty" /\ now < s.exp
            BY <2>2, <3>1, Kinds DEF Inv, Types
        <3> QED
            BY <2>2, <3>1, <3>2 DEF Vouched
    <2> QED
        BY <2>1, <2>2
<1>6. RequestFits(tokens, orders, r)
    BY <1>1, <1>2, <1>5, WhoIs DEF RequestFits
<1>7. GoesOn(q, r)
    BY <1>2 DEF Place
<1>8. r \in RequestRecs
    BY <1>4 DEF RequestRecs
<1> HIDE DEF r
<1> QED
    BY <1>6, <1>7, <1>8, GoesOnFits DEF PlaceKioskOrder

LEMMA PlaceWebOrderKeeps ==
    ASSUME Inv, NEW q \in Requests, NEW t \in tokens, PlaceWebOrder(q, t)
    PROVE  Inv'
<1>1. t \in AccessTokens /\ now < t.exp
    BY Callers DEF Inv, Types, PlaceWebOrder
<1>2. PICK rest \in Restaurants, cart \in Carts, points \in Points :
          Place(q, "web", Nobody, t.member, rest, cart, points, 0)
    BY DEF PlaceWebOrder
<1> DEFINE r == [pc |-> "submit", channel |-> "web", device |-> Nobody, member |-> t.member,
                 rest |-> rest, cart |-> cart, points |-> points, seen |-> 0, began |-> now]
<1>3. t.member \in Members /\ t.device = Nobody /\ t.aud = "kfc-customer"
    BY <1>1 DEF AccessTokens
<1>4. r \in SubmitRecs
    <2>1. now \in Nat /\ 0 \in 0 .. Len(Menus)
        BY WhoIs, GatewayAssumption DEF Inv, Types
    <2> QED
        BY <1>3, <2>1 DEF SubmitRecs
<1>5. Vouched(tokens, r)
    BY <1>1, <1>3 DEF Vouched
<1>6. RequestFits(tokens, orders, r)
    BY <1>5 DEF RequestFits
<1>7. GoesOn(q, r)
    BY <1>2 DEF Place
<1>8. r \in RequestRecs
    BY <1>4 DEF RequestRecs
<1> HIDE DEF r
<1> QED
    BY <1>6, <1>7, <1>8, GoesOnFits DEF PlaceWebOrder

LEMMA TapKeeps ==
    ASSUME Inv, NEW q \in Requests, NEW t \in tokens, Tap(q, t)
    PROVE  Inv'
<1>1. t.device \in Kitchens
    BY Callers DEF Inv, Types, Tap
<1>2. PICK i \in 0 .. Len(orders), status \in KitchenStatuses :
          GoesOn(q, [pc |-> "check", device |-> t.device, order |-> i, status |-> status])
    BY DEF Tap
<1> DEFINE r == [pc |-> "check", device |-> t.device, order |-> i, status |-> status]
<1>3. r \in RequestRecs
    <2>1. i \in Nat
        BY DEF Inv, Types
    <2> QED
        BY <1>1, <2>1 DEF RequestRecs, KitchenRecs
<1>4. RequestFits(tokens, orders, r)
    BY DEF RequestFits
<1>5. GoesOn(q, r)
    BY <1>2
<1> HIDE DEF r
<1> QED
    BY <1>3, <1>4, <1>5, GoesOnFits DEF Tap

LEMMA CheckKeeps ==
    ASSUME Inv, NEW q \in Requests, Check(q)
    PROVE  Inv'
<1> DEFINE r == request[q]
           next == [r EXCEPT !.pc = "update"]
<1>1. r \in RequestRecs /\ r.pc = "check" /\ RequestFits(tokens, orders, r)
    BY DEF Inv, Types, Check
<1>2. r \in KitchenRecs
    BY <1>1, Which
<1>3. CASE OwnOrder(r.order, r.device)
    <2>1. GoesOn(q, next)
        BY <1>3 DEF Check
    <2>2. next \in KitchenRecs /\ next.pc = "update" /\ next.order = r.order /\ next.device = r.device
        BY <1>2 DEF KitchenRecs
    <2>3. next \in RequestRecs
        BY <2>2 DEF RequestRecs
    <2> HIDE DEF next
    <2>4. RequestFits(tokens, orders, next)
        <3>1. next.order \in 0 .. Len(orders)
            BY <1>1, <2>2 DEF RequestFits
        <3> QED
            BY <1>3, <2>2, <3>1 DEF RequestFits, OwnOrder
    <2> QED
        BY <2>1, <2>3, <2>4, GoesOnFits DEF Check
<1>4. CASE ~OwnOrder(r.order, r.device)
    <2>1. Ends(q, FromError(r.device, 0, ErrorOf("NotFound")))
        BY <1>4 DEF Check
    <2>2. r.device \in Somebody /\ Len(orders) \in Nat
        BY <1>2, WhoIs DEF KitchenRecs, Somebody, Inv, Types
    <2>3. AnswerFits(orders, FromError(r.device, 0, ErrorOf("NotFound")))
        BY <2>2, ErrorFits
    <2> QED
        BY <2>1, <2>3, EndsFits DEF Check
<1> QED
    BY <1>3, <1>4

LEMMA FailsKeeps ==
    ASSUME Inv, NEW q \in Requests, Fails(q)
    PROVE  Inv'
<1> DEFINE r == request[q]
           to == IF r.device = Nobody THEN r.member ELSE r.device
<1>1. r \in SubmitRecs \cup KitchenRecs
    BY Which DEF Inv, Types, Fails
<1>2. to \in Somebody
    <2>1. CASE r \in SubmitRecs
        BY <2>1, WhoIs DEF SubmitRecs, Somebody
    <2>2. CASE r \in KitchenRecs
        BY <2>2, WhoIs DEF KitchenRecs, Somebody
    <2> QED
        BY <1>1, <2>1, <2>2
<1>3. PICK grpc \in Refusals \cup {"Unavailable"} : Ends(q, FromError(to, 0, ErrorOf(grpc)))
    BY DEF Fails
<1> HIDE DEF to
<1>4. AnswerFits(orders, FromError(to, 0, ErrorOf(grpc)))
    <2>1. Len(orders) \in Nat
        BY DEF Inv, Types
    <2> QED
        BY <1>2, <2>1, ErrorFits
<1> QED
    BY <1>3, <1>4, EndsFits DEF Fails

\* What is in the answer to an order.
LEMMA Fields ==
    ASSUME NEW o
    PROVE  /\ Shown(ToPublic(View(o))) \in SUBSET {"name"}
           /\ Shown(ToDisplay(View(o))) = {}
           /\ Shown(Profile) \in SUBSET {"name", "phone"}
<1>1. Shown(ToPublic(View(o))) \in SUBSET {"name"}
    BY DEF Shown, ToPublic, View
<1>2. Shown(ToDisplay(View(o))) = {}
    BY DEF Shown, ToDisplay, View
<1>3. Shown(Profile) \in SUBSET {"name", "phone"}
    BY DEF Shown, Profile
<1> QED
    BY <1>1, <1>2, <1>3

LEMMA SubmitKeeps ==
    ASSUME Inv, NEW q \in Requests, Submit(q)
    PROVE  Inv'
<1> DEFINE r == request[q]
           to == IF r.device = Nobody THEN r.member ELSE r.device
           subtotal(v) == Subtotal(Menus[v], r.cart)
           rec(v) == [rest |-> r.rest, channel |-> r.channel, device |-> r.device,
                      member |-> r.member, began |-> r.began, status |-> "accepted",
                      seen |-> r.seen, priced |-> v,
                      paid |-> IF r.seen = 0 THEN 0 ELSE Paid(r.seen, r.cart, r.points),
                      held |-> PointsHeld(r.points), discount |-> Discount(r.points),
                      subtotal |-> subtotal(v), moved |-> {}]
           Taken(v) == /\ CartOK(Menus[v], r.cart) /\ Reserves(r, subtotal(v))
                       /\ Discount(r.points) \in 0 .. subtotal(v)
           reply(v) == Answer(to, Len(orders'), 201,
                              Shown(IF r.channel = "web" THEN ToPublic(View(rec(v))) ELSE View(rec(v))))
<1>1. r \in SubmitRecs /\ RequestFits(tokens, orders, r) /\ r.pc = "submit"
    BY Which DEF Inv, Types, Submit
<1>2. Len(orders) \in Nat
    BY DEF Inv, Types
<1>3. to \in Members \cup {Nobody} \cup Kiosks /\ to \in Somebody /\ to \notin Displays
    BY <1>1, WhoIs DEF SubmitRecs, Somebody
<1>4. PICK v \in 1 .. menu :
          \/ Taken(v) /\ orders' = Append(orders, rec(v)) /\ Ends(q, reply(v))
          \/ /\ \E type \in RefusedAs(r, Menus[v]) : Ends(q, FromError(to, 0, type))
             /\ UNCHANGED orders
    <2>1. \A v : rec(v).discount = Discount(r.points)
        OBVIOUS
    <2> QED
        BY <2>1 DEF Submit
<1>5. CASE /\ \E type \in RefusedAs(r, Menus[v]) : Ends(q, FromError(to, 0, type))
           /\ UNCHANGED orders
    <2>1. PICK type \in RefusedAs(r, Menus[v]) : Ends(q, FromError(to, 0, type))
        BY <1>5
    <2>2. AnswerFits(orders, FromError(to, 0, type))
        BY <1>2, <1>3, ErrorFits
    <2> QED
        BY <1>5, <2>1, <2>2, EndsFits DEF Submit
<1>6. CASE Taken(v) /\ orders' = Append(orders, rec(v)) /\ Ends(q, reply(v))
    <2> DEFINE o == rec(v)
               n == Len(orders) + 1
    <2>1. v \in 1 .. Len(Menus) /\ r.cart \in Carts /\ r.points \in Int
        BY <1>1, GatewayAssumption DEF Inv, Types, SubmitRecs
    <2>2. subtotal(v) \in 0 .. Int32Span - 1
        BY <1>6, <2>1, SubtotalAssumption
    <2>3. PointsHeld(r.points) \in Nat /\ Discount(r.points) = PointsHeld(r.points) * PointValue
          /\ Discount(r.points) \in 0 .. subtotal(v)
        <3> HIDE DEF subtotal
        <3>1. Discount(r.points) \in 0 .. subtotal(v)
            BY <1>6
        <3>2. \/ r.points = 0
              \/ PointsHeld(r.points) > 0 /\ PointsHeld(r.points) * PointValue <= subtotal(v)
            BY <1>6 DEF Reserves
        <3> QED
            BY <2>1, <2>2, <3>1, <3>2, HeldPays
    <2>4. o \in OrderRecs
        <3>1. (IF r.seen = 0 THEN 0 ELSE Paid(r.seen, r.cart, r.points)) \in Paids
            <4>1. r.seen \in 0 .. Len(Menus) /\ r.cart \in Carts /\ r.points \in Points
                BY <1>1 DEF SubmitRecs
            <4>2. Len(Menus) \in Nat
                BY GatewayAssumption
            <4> QED
                BY <4>1, <4>2 DEF Paids
        <3>2. Discount(r.points) \in Nat /\ subtotal(v) \in Nat
            <4> HIDE DEF subtotal
            <4> QED
                BY <2>2, <2>3, PriceCartAssumption
        <3>3. r \in SubmitRecs /\ PointsHeld(r.points) \in Nat
            BY <1>1, <2>3
        <3> HIDE DEF subtotal
        <3> QED
            BY <2>1, <3>1, <3>2, <3>3 DEF SubmitRecs, OrderRecs, KitchenStatuses
    <2>5. OrderFits(tokens, o)
        <3>1. Vouched(tokens, o)
            BY <1>1 DEF RequestFits, Vouched
        <3>2. ClearMenus /\ o.seen = o.priced => o.paid = o.subtotal - o.discount
            <4> SUFFICES ASSUME ClearMenus, r.seen = v
                         PROVE  Paid(v, r.cart, r.points) = subtotal(v) - Discount(r.points)
                BY <2>1
            <4>1. CartOK(Menus[v], r.cart) /\ Paid(v, r.cart, r.points) >= 0
                BY <1>1, <1>6, <2>1 DEF RequestFits
            <4>2. r.points \in Nat
                BY <1>6, <2>1 DEF Reserves
            <4>3. Subtotal(Menus[v], r.cart) \in 0 .. Int32Span - 1
                BY <2>2
            <4>4. Paid(v, r.cart, r.points) = Subtotal(Menus[v], r.cart) - Discount(r.points)
                BY <2>1, <4>1, <4>2, <4>3, Charged
            <4> QED
                BY <4>4
        <3>3. /\ o.moved = {} /\ o.discount = Discount(r.points) /\ o.subtotal = subtotal(v)
              /\ o.held = PointsHeld(r.points)
            OBVIOUS
        <3> HIDE DEF rec, subtotal
        <3> QED
            BY <2>3, <3>1, <3>2, <3>3 DEF OrderFits
    <2>6. /\ o.device = r.device /\ o.rest = r.rest /\ orders' = Append(orders, o)
          /\ Ends(q, reply(v))
        BY <1>6
    <2>7. reply(v).fields \in SUBSET {"name"} \/ (r.channel # "web" /\ to = r.device /\ to \in Kiosks)
        <3>1. CASE r.channel = "web"
            BY <3>1, Fields DEF Answer
        <3>2. CASE r.channel # "web"
            BY <1>1, <3>2 DEF RequestFits, SubmitRecs
        <3> QED
            BY <3>1, <3>2
    <2>8. reply(v).to = to /\ reply(v).order = Len(orders') /\ reply(v).status = 201
        BY DEF Answer
    <2> DEFINE a == reply(v)
    <2>9. a.fields \in SUBSET {"name"} \/ (to = r.device /\ to \in Kiosks)
        BY <2>7
    <2>10. a.to = to /\ a.order = Len(orders') /\ a.status = 201 /\ Ends(q, a)
        BY <2>6, <2>8
    <2> HIDE DEF a, o, reply, rec, Taken, subtotal, to
    <2>11. /\ orders' \in Seq(OrderRecs) /\ Len(orders') = n /\ orders'[n] = o
           /\ \A i \in 1 .. Len(orders) : orders'[i] = orders[i]
        BY <2>4, <2>6 DEF Inv, Types
    <2>12. /\ request' \in [Requests -> RequestRecs] /\ answer' = a
           /\ \A p \in Requests : request'[p] = request[p] \/ request'[p] = Idle
        BY <2>10, AfterEnds DEF Inv
    <2>13. Types'
        BY <2>11, <2>12 DEF Inv, Types, Submit
    <2>14. AnswerFits(orders', answer')
        <3>1. a.order = n /\ a.order # 0 /\ a.order \in 0 .. Len(orders')
            BY <1>2, <2>10, <2>11
        <3>2. a.fields \ {"name"} # {} => a.to \in Kiosks /\ a.to = orders'[a.order].device
            BY <2>6, <2>9, <2>10, <2>11, <3>1
        <3> QED
            BY <1>3, <2>10, <2>12, <3>1, <3>2 DEF AnswerFits
    <2>15. tokens' = tokens
        BY DEF Submit
    <2>16. \A i \in 1 .. Len(orders') :
               (i \in Orders /\ orders'[i] = orders[i]) \/ OrderFits(tokens', orders'[i])
        <3> TAKE i \in 1 .. Len(orders')
        <3>1. i \in 1 .. Len(orders) \/ i = n
            BY <1>2, <2>11
        <3> QED
            BY <2>5, <2>11, <2>15, <3>1 DEF Orders
    <2>17. Grows(orders, orders')
        BY <1>2, <2>11 DEF Grows
    <2>18. Fits
        BY <2>12, <2>14, <2>15, <2>16, <2>17, IdleFits DEF Fits
    <2> QED
        BY <2>13, <2>18, FitsKeepsInv
<1> QED
    BY <1>4, <1>5, <1>6

\* A status of an order changes, and who has moved it.
LEMMA MovedFits ==
    ASSUME Inv, NEW i \in Orders, NEW o \in OrderRecs, orders' = [orders EXCEPT ![i] = o],
           tokens' = tokens, o.rest = orders[i].rest, OrderFits(tokens, o),
           request' \in [Requests -> RequestRecs],
           \A p \in Requests : request'[p] = request[p] \/ request'[p] = Idle,
           AnswerFits(orders', answer'), UNCHANGED <<now, revoked, menu, code>>
    PROVE  Inv'
<1>1. /\ orders' \in Seq(OrderRecs) /\ Len(orders') = Len(orders) /\ Len(orders) \in Nat
      /\ orders'[i] = o /\ \A j \in Orders \ {i} : orders'[j] = orders[j]
    BY DEF Inv, Types, Orders
<1>2. Types'
    BY <1>1 DEF Inv, Types
<1>3. Grows(orders, orders')
    BY <1>1 DEF Grows, Orders
<1>4. \A j \in 1 .. Len(orders') :
          (j \in Orders /\ orders'[j] = orders[j]) \/ OrderFits(tokens', orders'[j])
    BY <1>1 DEF Orders
<1>5. Fits
    BY <1>3, <1>4, IdleFits DEF Fits
<1> QED
    BY <1>2, <1>5, FitsKeepsInv

LEMMA CancelKeeps ==
    ASSUME Inv, NEW i \in Orders, Cancel(i)
    PROVE  Inv'
<1> DEFINE o == [orders[i] EXCEPT !.status = "cancelled"]
<1>1. orders[i] \in OrderRecs /\ OrderFits(tokens, orders[i])
    BY DEF Inv, Types, Orders
<1>2. orders' = [orders EXCEPT ![i] = o]
    BY DEF Cancel
<1>3. /\ o \in OrderRecs /\ o.rest = orders[i].rest /\ o.member = orders[i].member
      /\ o.device = orders[i].device /\ o.began = orders[i].began
      /\ o.channel = orders[i].channel /\ o.moved = orders[i].moved
      /\ o.discount = orders[i].discount /\ o.subtotal = orders[i].subtotal
      /\ o.held = orders[i].held /\ o.seen = orders[i].seen
      /\ o.priced = orders[i].priced /\ o.paid = orders[i].paid
    BY <1>1 DEF OrderRecs
<1> HIDE DEF o
<1>4. OrderFits(tokens, o)
    BY <1>1, <1>3 DEF OrderFits, Vouched
<1>5. AnswerFits(orders', answer')
    <2>1. Len(orders') \in Nat
        BY <1>2 DEF Inv, Types
    <2> QED
        BY <2>1, QuietFits DEF Cancel
<1>6. request' = request /\ request \in [Requests -> RequestRecs]
    BY DEF Cancel, Inv, Types
<1> QED
    BY <1>2, <1>3, <1>4, <1>5, <1>6, MovedFits DEF Cancel

LEMMA UpdateKeeps ==
    ASSUME Inv, NEW q \in Requests, Update(q)
    PROVE  Inv'
<1> DEFINE r == request[q]
           i == r.order
           o == [orders[i] EXCEPT !.status = r.status, !.moved = @ \cup {r.device}]
<1>1. r \in KitchenRecs /\ RequestFits(tokens, orders, r) /\ r.pc = "update"
    BY Which DEF Inv, Types, Update
<1>2. r.device \in Kitchens /\ r.device \in Devices /\ r.device \in Somebody /\ r.device \notin Displays
    BY <1>1, WhoIs DEF KitchenRecs, Somebody
<1>3. Len(orders) \in Nat
    BY DEF Inv, Types
<1>4. CASE Over(orders[i])
    <2>1. Ends(q, FromError(r.device, 0, ErrorOf("FailedPrecondition"))) /\ UNCHANGED orders
        BY <1>4 DEF Update
    <2>2. AnswerFits(orders, FromError(r.device, 0, ErrorOf("FailedPrecondition")))
        BY <1>2, <1>3, ErrorFits
    <2> QED
        BY <2>1, <2>2, EndsFits DEF Update
<1>5. CASE ~Over(orders[i])
    <2>1. i \in Orders /\ orders[i].rest = RestaurantOf[r.device]
        BY <1>1 DEF RequestFits, Orders
    <2>2. orders[i] \in OrderRecs /\ OrderFits(tokens, orders[i])
        BY <2>1 DEF Inv, Types, Orders
    <2> DEFINE a == Answer(r.device, i, 200, Shown(View(orders[i])))
    <2>3. orders' = [orders EXCEPT ![i] = o] /\ Ends(q, a)
        BY <1>5 DEF Update
    <2>4. /\ o \in OrderRecs /\ o.rest = orders[i].rest /\ o.member = orders[i].member
          /\ o.device = orders[i].device /\ o.began = orders[i].began
          /\ o.channel = orders[i].channel /\ o.moved = orders[i].moved \cup {r.device}
          /\ o.discount = orders[i].discount /\ o.subtotal = orders[i].subtotal
          /\ o.held = orders[i].held /\ o.seen = orders[i].seen
          /\ o.priced = orders[i].priced /\ o.paid = orders[i].paid
        <3>1. r.status \in KitchenStatuses
            BY <1>1 DEF KitchenRecs
        <3> QED
            BY <1>2, <2>2, <3>1 DEF OrderRecs
    <2>5. a.to = r.device /\ a.order = i /\ a.status = 200
        BY DEF Answer
    <2> HIDE DEF o, a
    <2>6. OrderFits(tokens, o)
        BY <1>2, <2>1, <2>2, <2>4 DEF OrderFits, Vouched
    <2>7. /\ request' \in [Requests -> RequestRecs] /\ answer' = a
          /\ \A p \in Requests : request'[p] = request[p] \/ request'[p] = Idle
        BY <2>3, AfterEnds DEF Inv
    <2>8. AnswerFits(orders', answer')
        <3>1. Len(orders') = Len(orders) /\ orders'[i] = o
            BY <2>1, <2>3 DEF Inv, Types, Orders
        <3>2. i \in 0 .. Len(orders') /\ i # 0
            BY <1>3, <2>1, <3>1 DEF Orders
        <3>3. RestaurantOf[a.to] = orders'[a.order].rest
            BY <2>1, <2>4, <2>5, <3>1
        <3> QED
            BY <1>2, <2>5, <2>7, <3>2, <3>3 DEF AnswerFits
    <2> QED
        BY <2>1, <2>3, <2>4, <2>6, <2>7, <2>8, MovedFits DEF Update
<1> QED
    BY <1>4, <1>5

LEMMA InvInit ==
    ASSUME Init
    PROVE  Inv
<1>1. tokens \subseteq AllTokens
    <2>1. \A d \in Devices : IssueDevice(d, DeviceTTL) \in DeviceTokens
        BY WhoIs DEF IssueDevice, Token, DeviceTokens
    <2> QED
        BY <2>1 DEF Init, AllTokens
<1>2. Types
    BY <1>1, WhoIs, GatewayAssumption DEF Init, Types, RequestRecs
<1>3. \A q \in Requests : RequestFits(tokens, orders, request[q])
    BY IdleFits DEF Init
<1>4. Len(orders) = 0 /\ Orders = {}
    BY DEF Init, Orders
<1>5. AnswerFits(orders, answer)
    BY <1>4, QuietFits DEF Init
<1> QED
    BY <1>2, <1>3, <1>4, <1>5 DEF Inv

LEMMA InvNext ==
    ASSUME Inv, [Next]_vars
    PROVE  Inv'
<1>1. CASE UNCHANGED vars
    BY <1>1 DEF Inv, Types, Orders, vars
<1>2. CASE Next
    BY <1>2, TickKeeps, ChangeMenuKeeps, SignsInKeeps, IssueKioskCodeKeeps, IdentifyAtKioskKeeps,
       SubmitKeeps, CheckKeeps, UpdateKeeps, FailsKeeps, PlaceKioskOrderKeeps, PlaceWebOrderKeeps,
       TapKeeps, CancelKeeps, RevokeKeeps DEF Next
<1> QED
    BY <1>1, <1>2

LEMMA Invariance == Spec => []Inv
BY InvInit, InvNext, PTL DEF Spec

----------------------------------------------------------------------------
(* The theorems.                                                           *)

\* Requests, orders, tokens and the answer keep their types, and an order that
\* is taken has no discount above its subtotal.
THEOREM TypeCorrect == Spec => []TypeOK
<1>1. ASSUME Inv PROVE TypeOK
    <2>1. \A t \in tokens : t.member \in Members \cup {Nobody} /\ t.device \in Devices \cup {Nobody}
        BY <1>1, Kinds DEF Inv, Types
    <2>2. \A i \in Orders :
              /\ orders[i].rest \in Restaurants
              /\ orders[i].status \in KitchenStatuses \cup {"cancelled"}
              /\ orders[i].held \in Nat /\ orders[i].discount \in 0 .. orders[i].subtotal
        <3> TAKE i \in Orders
        <3>1. orders[i] \in OrderRecs /\ OrderFits(tokens, orders[i])
            BY <1>1 DEF Inv, Types, Orders
        <3> QED
            BY <3>1 DEF OrderRecs, OrderFits
    <2>3. Orders \cup {0} = 0 .. Len(orders)
        BY <1>1 DEF Inv, Types, Orders
    <2>4. \A q \in Requests : RequestOK(request[q])
        <3> TAKE q \in Requests
        <3>1. request[q] \in RequestRecs /\ RequestFits(tokens, orders, request[q])
            BY <1>1 DEF Inv, Types
        <3>2. CASE request[q] \in SubmitRecs
            BY <3>1, <3>2 DEF SubmitRecs, RequestFits, RequestOK
        <3>3. CASE request[q] \in KitchenRecs
            BY <2>3, <3>1, <3>3 DEF KitchenRecs, RequestFits, RequestOK
        <3> QED
            BY <3>1, <3>2, <3>3 DEF RequestRecs, RequestOK
    <2>5. /\ answer.to \in Somebody /\ answer.order \in Orders \cup {0}
          /\ answer.status \in {0, 200, 201, 400, 404, 409, 500}
        BY <1>1, <2>3 DEF Inv, AnswerFits
    <2> QED
        BY <1>1, <2>1, <2>2, <2>4, <2>5 DEF Inv, Types, TypeOK
<1> QED
    BY <1>1, Invariance, PTL

\* The member of an order had a token for it when the request began: an access
\* token for the website, a session of that very kiosk for a kiosk.
THEOREM OrdersActForMembers == Spec => []ActsForMember
<1>1. ASSUME Inv PROVE ActsForMember
    BY <1>1 DEF Inv, OrderFits, Vouched, ActsForMember
<1> QED
    BY <1>1, Invariance, PTL

\* The check of the restaurant still holds when the order is moved, however
\* long UpdateFromKitchen is between its two calls.
THEOREM KitchensMoveTheirOwn == Spec => []KitchenMovesItsOwn
<1>1. ASSUME Inv PROVE KitchenMovesItsOwn
    BY <1>1 DEF Inv, OrderFits, KitchenMovesItsOwn
<1> QED
    BY <1>1, Invariance, PTL

\* The hold pays for the discount of every order that is taken, although the
\* points of a request wrap at 2^32 and the discount at 2^64.
THEOREM DiscountsAreHeld == Spec => []DiscountIsHeld
<1>1. ASSUME Inv PROVE DiscountIsHeld
    BY <1>1 DEF Inv, OrderFits, DiscountIsHeld
<1> QED
    BY <1>1, Invariance, PTL

\* A kiosk order priced by the menu that the customer saw costs what the
\* terminal took, if that menu means one price by every line.
THEOREM PaidIsWhatIsCharged ==
    ASSUME ClearMenus
    PROVE  Spec => []PaidIsCharged
<1>1. ASSUME Inv PROVE PaidIsCharged
    BY <1>1 DEF Inv, OrderFits, PaidIsCharged
<1> QED
    BY <1>1, Invariance, PTL

\* The route table with its middleware lets every token through where the
\* README says so, and nowhere else.
THEOREM RoutesAreTheirOwn == Spec => []EachToItsOwnRoutes
<1>1. ASSUME Inv PROVE EachToItsOwnRoutes
    BY <1>1, OwnRoutes, WhoIs DEF Inv, Types
<1> QED
    BY <1>1, Invariance, PTL

\* Nothing that anybody can read shows more of an order's customer than a name,
\* but to the kitchens of its restaurant and the kiosk that sent it.
THEOREM PrivateFieldsStayPrivate == Spec => []PrivateStaysPrivate
<1> DEFINE Private(a) ==
        /\ a.fields \ {"name"} # {} =>
              IF a.order = 0 THEN a.to \in Members
              ELSE \/ a.to \in Kitchens /\ RestaurantOf[a.to] = orders[a.order].rest
                   \/ a.to \in Kiosks /\ a.to = orders[a.order].device
        /\ a.to \in Displays => a.fields = {}
<1>1. ASSUME NEW to, NEW i, NEW status, NEW fields \in SUBSET {"name"}, to \notin Displays
      PROVE  Private(Answer(to, i, status, fields))
    <2>1. fields \ {"name"} = {}
        OBVIOUS
    <2> QED
        BY <1>1, <2>1 DEF Answer
<1>2. ASSUME NEW to, NEW i, NEW status
      PROVE  Private(Answer(to, i, status, {}))
    BY DEF Answer
<1>3. ASSUME NEW d \in Kitchens, NEW i \in Orders, OwnOrder(i, d), NEW fields
      PROVE  Private(Answer(d, i, 200, fields))
    BY <1>3, WhoIs DEF Answer, OwnOrder, Orders
<1>4. ASSUME Inv, NEW t \in tokens
      PROVE  /\ \A a \in Me(t) : Private(a)
             /\ \A a \in MyOrders(t) : Private(a)
             /\ \A a \in KitchenOrders(t) : Private(a)
             /\ \A a \in DisplayOrders(t) : Private(a)
    <2>1. t \in AllTokens
        BY <1>4 DEF Inv, Types
    <2>2. \A a \in Me(t) : Private(a)
        <3> TAKE a \in Me(t)
        <3>1. Passes(<<"customer", "me">>, t) /\ a = Answer(t.member, 0, 200, Shown(Profile))
            BY DEF Me, Answers
        <3>2. t.member \in Members
            BY <2>1, <3>1, Callers DEF AccessTokens
        <3>3. a.to = t.member /\ a.order = 0
            BY <3>1 DEF Answer
        <3> QED
            BY <3>2, <3>3, WhoIs
    <2>3. \A a \in MyOrders(t) : Private(a)
        <3> TAKE a \in MyOrders(t)
        <3>1. PICK i \in Orders : /\ Passes(<<"customer", "me", "orders">>, t)
                                  /\ a = Answer(t.member, i, 200, Shown(ToPublic(View(orders[i]))))
            BY DEF MyOrders, Answers
        <3>2. t.member \in Members
            BY <2>1, <3>1, Callers DEF AccessTokens
        <3> HIDE DEF Private
        <3> QED
            BY <1>1, <3>1, <3>2, Fields, WhoIs
    <2>4. \A a \in KitchenOrders(t) : Private(a)
        <3> TAKE a \in KitchenOrders(t)
        <3>1. PICK i \in Active(t.device) :
                  /\ Passes(<<"kitchen", "orders">>, t)
                  /\ a = Answer(t.device, i, 200, Shown(View(orders[i])))
            BY DEF KitchenOrders, Answers
        <3>2. t.device \in Kitchens
            BY <2>1, <3>1, Callers
        <3>3. i \in Orders /\ OwnOrder(i, t.device)
            BY DEF Active
        <3> HIDE DEF Private
        <3> QED
            BY <1>3, <3>1, <3>2, <3>3
    <2>5. \A a \in DisplayOrders(t) : Private(a)
        <3> TAKE a \in DisplayOrders(t)
        <3>1. PICK i : a = Answer(t.device, i, 200, Shown(ToDisplay(View(orders[i]))))
            BY DEF DisplayOrders, Answers
        <3> HIDE DEF Private
        <3> QED
            BY <1>2, <3>1, Fields
    <2> QED
        BY <2>2, <2>3, <2>4, <2>5
<1>5. \A a \in TrackOrder : Private(a)
    <2> TAKE a \in TrackOrder
    <2>1. PICK i : a = Answer(Nobody, i, 200, Shown(ToPublic(View(orders[i]))))
        BY DEF TrackOrder, Answers
    <2>2. Nobody \notin Displays
        BY WhoIs
    <2> HIDE DEF Private
    <2> QED
        BY <1>1, <2>1, <2>2, Fields
<1>6. \A a \in StreamEvents : Private(a)
    <2> TAKE a \in StreamEvents
    <2>1. PICK d \in Kitchens \cup Displays, i \in Orders :
              OwnOrder(i, d) /\ a = Answer(d, i, 200, Shown(Sent(d, orders[i])))
        BY DEF StreamEvents
    <2>2. CASE d \in Displays
        <3>1. a = Answer(d, i, 200, Shown(ToDisplay(View(orders[i]))))
            BY <2>1, <2>2 DEF Sent
        <3> HIDE DEF Private
        <3> QED
            BY <1>2, <3>1, Fields
    <2>3. CASE d \in Kitchens
        <3> HIDE DEF Private
        <3> QED
            BY <1>3, <2>1, <2>3
    <2> QED
        BY <2>2, <2>3
<1>7. ASSUME Inv PROVE PrivateStaysPrivate
    <2>1. Private(answer)
        BY <1>7 DEF Inv, AnswerFits
    <2>2. \A a \in Readable : Private(a)
        <3> HIDE DEF Private
        <3> QED
            BY <1>4, <1>5, <1>6, <1>7, <2>1 DEF Readable
    <2> QED
        BY <2>2 DEF PrivateStaysPrivate
<1> QED
    BY <1>7, Invariance, PTL
=============================================================================
